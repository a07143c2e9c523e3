--------------------------- MODULE PortfolioEngine --------------------------
(***************************************************************************)
(* The event loop of src/backtest/portfolio_engine.py in Mode B: at each   *)
(* bar open positions are marked, pending orders fill at the open, stops,  *)
(* targets and the time limit close positions, the signals of the day are  *)
(* evaluated against the portfolio, and the equity point is recorded.      *)
(*                                                                         *)
(* A signal has at most one order and an order at most one position, so    *)
(* the three share the signal's identifier.  Amounts are integers (paise); *)
(* limits are percentages of the equity; slippage and fees are in basis    *)
(* points.  Bars are daily: every bar is a new date.                       *)
(***************************************************************************)
EXTENDS Integers, FiniteSets, Functions

CONSTANTS
  Signals,          \* identifiers of the signals offered to the engine
  Sym,              \* signal -> symbol
  Dir,              \* signal -> 1 or -1
  LowValue,         \* signals below min_expected_net_return
  Symbols,
  Sector,           \* symbol -> sector or UnknownSector
  UnknownSector,
  Bars,             \* [open, high, low, close] a symbol may show on a day
  NoBar,
  MaxBars,          \* bound: length of the backtest
  Slips,            \* slippage of a fill; its noise is seeded by a random id
  InitialCapital, MaxPositions, CapPct, GrossPct, NetPct, SectorPct,
  RiskPct, DailyLossPct, DrawdownPct, MaxLosses,
  Holding,          \* holding_period_bars
  EntryWindow,      \* signal_entry_window_bars
  StopPct, TargetPct, FeeBps,
  MinAlloc,         \* the smallest position, 100 rupees
  OneRupee,
  SameSymbolPolicy, OppositePolicy

ASSUME EngineAssumption ==
  /\ Sym \in [Signals -> Symbols]
  /\ Dir \in [Signals -> {-1, 1}]
  /\ IsFiniteSet(Signals)
  /\ NoBar \notin Bars
  /\ MaxBars \in Nat \ {0}
  /\ MaxPositions \in Nat
  /\ Holding \in Nat \ {0}
  /\ EntryWindow \in Nat \ {0}

\* Whole paise, basis points and percentages; a bar without a price is NoBar.
ASSUME AmountAssumption ==
  /\ \A b \in Bars : {b.open, b.high, b.low, b.close} \subseteq Nat \ {0}
  /\ Slips \subseteq Int
  /\ InitialCapital \in Nat \ {0}
  /\ DrawdownPct \in Nat
  /\ {CapPct, StopPct, TargetPct, FeeBps} \subseteq Int

VARIABLES
  stage,      \* what the loop does next
  bar,        \* bar_index
  today,      \* the bars of the current date
  phase,      \* life of each signal
  submitted,  \* bar of the order
  entered,    \* bar of the fill
  deal,       \* money side of the position
  cash, realized, peak, streak, dayPnl

lifecycle == <<phase, submitted, entered>>
money == <<deal, cash, realized, streak>>
vars == <<stage, bar, today, lifecycle, money, peak, dayPnl>>

Phases == {"idle", "pending", "open", "closed", "expired", "dropped"}
Stages == {"bar", "fill", "exit", "signal", "final", "done"}
NoDeal == [qty |-> 0, entry |-> 0, cost |-> 0, cur |-> 0, exit |-> 0]
NoBars == [s \in Symbols |-> NoBar]

In(p) == {i \in Signals : phase[i] = p}
Open == In("open")
Pending == In("pending")
Trades(s) == today[s] # NoBar
Step(from, to) == stage = from /\ stage' = to
Least(a, b) == IF a < b THEN a ELSE b
Most(a, b) == IF a > b THEN a ELSE b
Total(F(_), S) == SumFunctionOnSet([i \in S |-> F(i)], S)

-----------------------------------------------------------------------------
(* PortfolioState: equity and exposures of the positions O with cash c.    *)
Fee(amount) == (amount * FeeBps) \div 10000
Committed(i) == deal[i].qty * deal[i].entry
Unrealized(i) == Dir[i] * (deal[i].cur - deal[i].entry) * deal[i].qty
Notional(i) == deal[i].qty * deal[i].cur
EquityOf(c, O) == c + Total(Committed, O) + Total(Unrealized, O)
Equity == EquityOf(cash, Open)
Base == Most(Equity, OneRupee)

StopPrice(i) == deal[i].entry - Dir[i] * ((deal[i].entry * StopPct) \div 100)
TargetPrice(i) == deal[i].entry + Dir[i] * ((deal[i].entry * TargetPct) \div 100)
AtRisk(i) == Most(Dir[i] * (deal[i].cur - StopPrice(i)) * deal[i].qty, 0)
Signed(i) == Dir[i] * Notional(i)
Size(n) == Most(n, -n)

(* A closing trade: what it pays back and what it nets. *)
Proceeds(i, price) == deal[i].qty * price - Fee(deal[i].qty * price)

\* Variant: the entry cost is taken off the cash but not off the trade.
NetPnlWithoutEntryCost(i, price) ==
  Dir[i] * (price - deal[i].entry) * deal[i].qty - Fee(deal[i].qty * price)

NetPnl(i, price) ==
  Dir[i] * (price - deal[i].entry) * deal[i].qty - deal[i].cost - Fee(deal[i].qty * price)

Settle(S, price) ==
  /\ deal' = [i \in Signals |-> IF i \in S THEN [deal[i] EXCEPT !.exit = price[i]] ELSE deal[i]]
  /\ cash' = cash + Total(LAMBDA i : Proceeds(i, price[i]), S)
  /\ realized' = realized + Total(LAMBDA i : NetPnl(i, price[i]), S)

-----------------------------------------------------------------------------
Init ==
  /\ stage = "bar"
  /\ bar = 0
  /\ today = NoBars
  /\ phase = [i \in Signals |-> "idle"]
  /\ submitted = [i \in Signals |-> 0]
  /\ entered = [i \in Signals |-> 0]
  /\ deal = [i \in Signals |-> NoDeal]
  /\ cash = InitialCapital
  /\ realized = 0
  /\ peak = InitialCapital
  /\ streak = 0
  /\ dayPnl = 0

\* Variant: every known signal is marked, not only the open positions.
MarkedAll(i, b) == IF b # NoBar THEN [deal[i] EXCEPT !.cur = b.close] ELSE deal[i]
Marked(i, b) ==
  IF phase[i] = "open" /\ b # NoBar THEN [deal[i] EXCEPT !.cur = b.close] ELSE deal[i]

(* Steps 1 and 2: a date exists because some symbol trades on it. *)
MarketBar ==
  /\ Step("bar", "fill")
  /\ today' \in [Symbols -> Bars \cup {NoBar}] \ {NoBars}
  /\ deal' = [i \in Signals |-> Marked(i, today'[Sym[i]])]
  /\ UNCHANGED <<bar, lifecycle, cash, realized, streak, peak, dayPnl>>

(* Step 3: an order waits for a bar of its symbol, then fills at the open  *)
(* or expires.                                                             *)
Ready == {i \in Pending : Trades(Sym[i])}

\* Variant: the window is counted one bar too long.
LateByOne(i) == bar > submitted[i] + EntryWindow + 1
Late(i) == bar > submitted[i] + EntryWindow

FillPrice(i, slip) ==
  LET open == today[Sym[i]].open IN open + Dir[i] * ((open * slip) \div 10000)

FillOrders ==
  /\ Step("fill", "exit")
  /\ LET filled == {i \in Ready : ~Late(i)}
     IN  \E slip \in [filled -> Slips] :
           LET outlay(i) == deal[i].qty * FillPrice(i, slip[i])
           IN  /\ deal' = [i \in Signals |->
                     IF i \in filled
                     THEN [deal[i] EXCEPT !.entry = FillPrice(i, slip[i]),
                                          !.cur = FillPrice(i, slip[i]),
                                          !.cost = Fee(outlay(i))]
                     ELSE deal[i]]
               /\ cash' = cash - Total(LAMBDA i : outlay(i) + Fee(outlay(i)), filled)
               /\ entered' = [i \in Signals |-> IF i \in filled THEN bar ELSE entered[i]]
               /\ phase' = [i \in Signals |-> IF i \in filled THEN "open"
                                              ELSE IF i \in Ready THEN "expired"
                                              ELSE phase[i]]
  /\ UNCHANGED <<bar, today, submitted, realized, streak, peak, dayPnl>>

(* Steps 4 and 5.  A target wins over a stop in the same bar, both over    *)
(* the time limit; only the time limit closes a symbol without a bar.      *)
Reaches(i, price, sign) ==
  /\ Trades(Sym[i])
  /\ IF sign = 1 THEN today[Sym[i]].high >= price ELSE today[Sym[i]].low <= price
TargetHit(i) == Reaches(i, TargetPrice(i), Dir[i])
StopHit(i) == Reaches(i, StopPrice(i), -Dir[i])
TimeUp(i) == bar - entered[i] >= Holding
LastPrice(i) == IF Trades(Sym[i]) THEN today[Sym[i]].close ELSE deal[i].cur
ExitPrice(i) == IF TargetHit(i) THEN TargetPrice(i)
                ELSE IF StopHit(i) THEN StopPrice(i) ELSE LastPrice(i)

(* The order of the closures is that of two dictionaries; the streak of    *)
(* losses it leaves may be any that some order of them gives.              *)
Streaks(S, losses) ==
  IF losses = S THEN {streak + Cardinality(S)} ELSE 0 .. Cardinality(losses)

ClosePositions ==
  /\ Step("exit", "signal")
  /\ LET closing == {i \in Open : TargetHit(i) \/ StopHit(i) \/ TimeUp(i)}
         price == [i \in closing |-> ExitPrice(i)]
     IN  /\ phase' = [i \in Signals |-> IF i \in closing THEN "closed" ELSE phase[i]]
         /\ Settle(closing, price)
         /\ streak' \in Streaks(closing, {i \in closing : NetPnl(i, price[i]) < 0})
  /\ UNCHANGED <<bar, today, submitted, entered, peak, dayPnl>>

-----------------------------------------------------------------------------
(* _evaluate_signal: every portfolio constraint of Mode B. *)
Halted ==
  \/ dayPnl * 100 <= -(DailyLossPct * Equity)
  \/ Size(Equity - peak) * 100 >= DrawdownPct * peak
  \/ streak >= MaxLosses

\* Variant: only the open positions count, not the orders of the same bar.
CommittedOpenOnly == Open
InFlight == Open \cup Pending

OpenOn(s) == {i \in Open : Sym[i] = s}
Opposed(i) == {j \in OpenOn(Sym[i]) : Dir[j] # Dir[i]}

\* Variant: the policies are not consulted.
AnySymbol(i) == TRUE
PolicyAllows(i) ==
  OpenOn(Sym[i]) # {} =>
    IF Opposed(i) = {} THEN SameSymbolPolicy # "IGNORE" ELSE OppositePolicy # "IGNORE"

ExposureAllows(i) ==
  LET room == CapPct * Base
  IN  /\ Total(AtRisk, Open) * 100 < RiskPct * Base
      /\ Total(Notional, Open) * 100 + (Cardinality(Pending) + 1) * room <= GrossPct * Base
      /\ Size(Total(Signed, Open) * 100 + Dir[i] * room) <= NetPct * Base
      /\ Sector[Sym[i]] # UnknownSector =>
           Total(Notional, {j \in Open : Sector[Sym[j]] = Sector[Sym[i]]}) * 100 < SectorPct * Base

Eligible(i) ==
  /\ phase[i] = "idle"
  /\ ~Halted
  /\ Cardinality(InFlight) < MaxPositions
  /\ PolicyAllows(i)
  /\ Most(cash, 0) >= Most(IF Trades(Sym[i]) THEN today[Sym[i]].close ELSE OneRupee, OneRupee)
  /\ ExposureAllows(i)
  /\ i \notin LowValue

(* EQUAL allocation: the cash over the free slots, capped per position.    *)
Allocation(c, O) ==
  Most(0, Least(Most(c, 0) \div Most(MaxPositions - Cardinality(O), 1),
                (EquityOf(c, O) * CapPct) \div 100))

(* Steps 6 to 8 for one signal.  Opposite positions close first; under     *)
(* CLOSE_ONLY nothing is then opened.  The losses closed here do not count *)
(* in the streak.  A rejected signal changes nothing.                      *)
Reverses == OppositePolicy = "CLOSE_AND_REVERSE"
Opposing(i) == IF Reverses \/ OppositePolicy = "CLOSE_ONLY" THEN Opposed(i) ELSE {}

AfterClosing(i) == cash + Total(LAMBDA j : Proceeds(j, LastPrice(j)), Opposing(i))
Allotted(i) == Allocation(AfterClosing(i), Open \ Opposing(i))
Orderable(i) == Trades(Sym[i]) /\ Allotted(i) >= MinAlloc

CloseOpposite(i) ==
  /\ stage = "signal"
  /\ Eligible(i)
  /\ Opposing(i) # {}
  /\ Reverses => ~Orderable(i)
  /\ phase' = [j \in Signals |-> IF j \in Opposing(i) THEN "closed" ELSE phase[j]]
  /\ Settle(Opposing(i), [j \in Opposing(i) |-> LastPrice(j)])
  /\ UNCHANGED <<stage, bar, today, submitted, entered, streak, peak, dayPnl>>

SubmitOrder(i) ==
  /\ stage = "signal"
  /\ Eligible(i)
  /\ Opposing(i) = {} \/ Reverses
  /\ Orderable(i)
  /\ phase' = [j \in Signals |-> IF j \in Opposing(i) THEN "closed"
                                  ELSE IF j = i THEN "pending" ELSE phase[j]]
  /\ submitted' = [submitted EXCEPT ![i] = bar]
  /\ cash' = AfterClosing(i)
  /\ realized' = realized + Total(LAMBDA j : NetPnl(j, LastPrice(j)), Opposing(i))
  /\ deal' = [j \in Signals |->
        IF j \in Opposing(i) THEN [deal[j] EXCEPT !.exit = LastPrice(j)]
        ELSE IF j = i
        THEN [NoDeal EXCEPT !.qty = Most(1, Allotted(i) \div today[Sym[i]].close)]
        ELSE deal[j]]
  /\ UNCHANGED <<stage, bar, today, entered, streak, peak, dayPnl>>

(* Step 9.  The daily result is computed, then reset because the date has  *)
(* changed since the previous bar; only the first bar keeps it.            *)
\* Variant: each bar starts a peak of its own.
PeakPerBar == Equity
NewPeak == Most(peak, Equity)

RecordEquity ==
  /\ stage = "signal"
  /\ peak' = NewPeak
  /\ dayPnl' = IF bar = 0 THEN Equity - InitialCapital ELSE 0
  /\ bar' = bar + 1
  /\ \/ stage' = "bar" /\ bar + 1 < MaxBars /\ today' = NoBars
     \/ stage' = "final" /\ today' = today
  /\ UNCHANGED <<lifecycle, money>>

(* After the loop the open positions close at the last price; those of a   *)
(* symbol without a bar on the last date vanish with no trade.             *)
FinishRun ==
  /\ Step("final", "done")
  /\ LET closing == {i \in Open : Trades(Sym[i])}
     IN  /\ phase' = [i \in Signals |-> IF i \in closing THEN "closed"
                                        ELSE IF i \in Open THEN "dropped" ELSE phase[i]]
         /\ Settle(closing, [i \in closing |-> LastPrice(i)])
  /\ UNCHANGED <<bar, today, submitted, entered, streak, peak, dayPnl>>

Next ==
  \/ MarketBar \/ FillOrders \/ ClosePositions
  \/ \E i \in Signals : CloseOpposite(i) \/ SubmitOrder(i)
  \/ RecordEquity \/ FinishRun

Spec == Init /\ [][Next]_vars

-----------------------------------------------------------------------------
TypeOK ==
  /\ stage \in Stages
  /\ bar \in 0 .. MaxBars
  /\ today \in [Symbols -> Bars \cup {NoBar}]
  /\ phase \in [Signals -> Phases]
  /\ submitted \in [Signals -> 0 .. MaxBars]
  /\ entered \in [Signals -> 0 .. MaxBars]
  /\ streak \in 0 .. Cardinality(Signals)
  /\ \A i \in Signals : phase[i] = "idle" => deal[i] = NoDeal
  /\ {cash, realized, peak, dayPnl} \subseteq Int

(* Orders of one bar are evaluated before any of them fills; together with  *)
(* the open positions they never exceed max_positions.                      *)
CommittedWithinLimit == Cardinality(Open \cup Pending) <= MaxPositions

(* No look-ahead and no stale fill: a position was entered after the bar of *)
(* its signal and within the entry window, whatever bars were missing; when *)
(* signals are processed no position is older than the horizon, and only a  *)
(* symbol without a bar has kept an order of an earlier day.                *)
LifecycleTimely ==
  \A i \in Signals :
    /\ phase[i] \in {"open", "closed", "dropped"} =>
         entered[i] \in submitted[i] + 1 .. submitted[i] + EntryWindow
    /\ phase[i] = "open" /\ stage = "signal" => bar - entered[i] < Holding
    /\ phase[i] = "pending" /\ stage = "signal" =>
         submitted[i] = bar \/ ~Trades(Sym[i])

(* The symbol policies see open positions only.  Under IGNORE with IGNORE   *)
(* or CLOSE_ONLY two positions share a symbol only when their orders were   *)
(* queued on the same bar, before either was open.                          *)
PairsOnlyFromOneBar ==
  SameSymbolPolicy = "IGNORE" /\ OppositePolicy \in {"IGNORE", "CLOSE_ONLY"} =>
    \A i, j \in Open : Sym[i] = Sym[j] => submitted[i] = submitted[j]

(* Where the money is: cash and committed capital are the initial capital   *)
(* and the realized results, less the entry costs of what is open, plus     *)
(* twice the price move of every closed short: its purchase is booked as a  *)
(* sale.  What vanished at the end took its capital with it.                *)
CashExplained ==
  LET held == Open \cup In("dropped")
      shorts == {i \in In("closed") : Dir[i] = -1}
      shortMove(i) == deal[i].qty * (deal[i].exit - deal[i].entry)
      costs(i) == deal[i].cost
  IN  cash + Total(Committed, held)
        = InitialCapital + realized - Total(costs, held) + 2 * Total(shortMove, shorts)

(* A halt by drawdown or by consecutive losses with nothing open or queued  *)
(* is final: the streak only ends with a winning trade and the equity of an *)
(* empty portfolio does not move.                                           *)
Dormant ==
  /\ InFlight = {}
  /\ streak >= MaxLosses \/ (peak - Equity) * 100 >= DrawdownPct * peak
DormantForever == [][Dormant => Dormant']_vars

(* What the reconciliation test says of the end of a run. *)
EquityReconciles == stage = "done" => cash = InitialCapital + realized
=============================================================================
