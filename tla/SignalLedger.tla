---------------------------- MODULE SignalLedger ----------------------------
(***************************************************************************)
(* The intraday signal ledger of one trading date: the PostgreSQL tables   *)
(* sessions, signals and positions, the JSONL audit file, and the          *)
(* processes that run SignalLedger.record_signals, update_mark_to_market   *)
(* and settle_session against them (src/analytics/signal_ledger.py over    *)
(* src/data/signal_db.py).                                                 *)
(*                                                                         *)
(* Every method of SignalDB is one transaction, so it is one action here.  *)
(* A ledger operation is a sequence of such transactions with nothing held *)
(* between them: the lock of signal_db.py is a lock of one Python process, *)
(* while the autorun, an orphaned autorun, and the two launches of         *)
(* signal_ledger_daily.py are processes of their own.  A process may be    *)
(* killed between any two transactions.                                    *)
(*                                                                         *)
(* Abstractions.  A signal_id is the pair of its symbol and the number of  *)
(* the record_signals call that drew its uuid, so ids are fresh as uuid4   *)
(* makes them.  A price of 0 stands for NULL and for a quote without a     *)
(* usable LTP.  A quote is chosen by the one action that consumes it.  The *)
(* counters of a session row are reduced to who wrote them last.           *)
(***************************************************************************)
EXTENDS Integers, FiniteSets

CONSTANTS
  Clients,       \* processes that may run ledger operations
  Symbols,       \* the scored universe
  Prices,        \* usable LTPs
  CostCentiBps,  \* round-trip cost in hundredths of a basis point (726)
  MaxCalls,      \* bound: calls of record_signals
  MaxCrashes     \* bound: processes killed inside an operation

ASSUME PricesAssumption == Prices \subseteq Nat \ {0}
ASSUME BoundsAssumption == MaxCalls \in Nat /\ MaxCrashes \in Nat
ASSUME CostAssumption   == CostCentiBps \in Nat

Null       == 0
MaybePrice == Prices \cup {Null}
Sids       == Symbols \X (1 .. MaxCalls)
SymbolOf(s) == s[1]
CallOf(s)   == s[2]

Directions  == {-1, 1}
NoDirection == 0
Terminal    == {"SETTLED_WIN", "SETTLED_LOSS", "EXPIRED"}
Statuses    == {"NONE", "OPEN"} \cup Terminal

PositionRows == [status : Statuses, entry : MaybePrice,
                 last : MaybePrice, exit : MaybePrice]
NoPosition   == [status |-> "NONE", entry |-> Null, last |-> Null, exit |-> Null]
NoView       == [s \in Sids |-> NoPosition]
NoSignals    == [y \in Symbols |-> NoDirection]

Stages == {"idle", "read_existing", "insert_signals", "insert_positions",
           "update_prices", "settle", "close_session"}

VARIABLES
  session,       \* row of sessions: NONE, RECORDED or ZEROED by its last writer
  signals,       \* signals[s]: direction of the row, NoDirection if there is none
  positions,     \* positions[s]: the row, NoPosition if there is none
  auditOpen,     \* ids with an OPEN event in signals.jsonl
  auditSettled,  \* auditSettled[s][c]: SETTLED events of s appended by c
  calls,         \* record_signals calls so far
  crashes,       \* processes killed so far
  pc,            \* pc[c]: the next transaction of client c
  call,          \* call[c]: the number of c's record_signals call, until its ids are drawn
  active,        \* active[c][y]: direction c was asked to record for y
  todo,          \* todo[c]: ids c still has to process
  view,          \* view[c]: position rows as c read them
  toLog          \* toLog[c]: the id whose audit event c appends next

tables == <<session, signals, positions>>
audit  == <<auditOpen, auditSettled>>
counts == <<calls, crashes>>
locals == <<pc, call, active, todo, view, toLog>>
vars   == <<tables, audit, counts, locals>>

Init ==
  /\ session = "NONE"
  /\ signals = [s \in Sids |-> NoDirection]
  /\ positions = [s \in Sids |-> NoPosition]
  /\ auditOpen = {}
  /\ auditSettled = [s \in Sids |-> [c \in Clients |-> 0]]
  /\ calls = 0
  /\ crashes = 0
  /\ pc = [c \in Clients |-> "idle"]
  /\ call = [c \in Clients |-> 0]
  /\ active = [c \in Clients |-> NoSignals]
  /\ todo = [c \in Clients |-> {}]
  /\ view = [c \in Clients |-> NoView]
  /\ toLog = [c \in Clients |-> {}]

-----------------------------------------------------------------------------
(* What the queries return, and what a settlement computes.                *)

Recorded         == {s \in Sids : signals[s] # NoDirection}
RecordedSymbols  == {SymbolOf(s) : s \in Recorded}
\* Variant: the status filter of get_open_positions is lost.
OpenPositionsAnyStatus == {s \in Recorded : positions[s].status # "NONE"}

OpenPositions    == {s \in Recorded : positions[s].status = "OPEN"}

\* Net return after costs is positive, in exact integer arithmetic.
NetWin(d, entry, exit) == d * (exit - entry) * 1000000 > CostCentiBps * entry

\* Variant: EXPIRED under a name the CHECK of the table does not list.
OutcomeClosed(d, entry, exit) == IF NetWin(d, entry, exit) THEN "SETTLED_WIN" ELSE "CLOSED"

Outcome(d, entry, exit) ==
  IF exit = Null \/ entry = Null THEN "EXPIRED"
  ELSE IF NetWin(d, entry, exit) THEN "SETTLED_WIN" ELSE "SETTLED_LOSS"

Coalesce(new, old) == IF new = Null THEN old ELSE new

-----------------------------------------------------------------------------
(* record_signals                                                          *)

\* Entry of record_signals up to its first transaction, upsert_session.
StartRecord(c) ==
  /\ pc[c] = "idle"
  /\ calls < MaxCalls
  /\ \E asked \in [Symbols -> Directions \cup {NoDirection}] :
       active' = [active EXCEPT ![c] = asked]
  /\ calls' = calls + 1
  /\ call' = [call EXCEPT ![c] = calls + 1]
  /\ session' = "RECORDED"
  /\ pc' = [pc EXCEPT ![c] = "read_existing"]
  /\ UNCHANGED <<signals, positions, audit, crashes, todo, view, toLog>>

\* Variant: ids that are the same in every call.
NewIdsReused(c)    == {s \in Sids : CallOf(s) = 1 /\ active[c][SymbolOf(s)] # NoDirection}

\* SELECT the recorded symbols, then draw an id for every other active one.
NewIds(c) == {s \in Sids : /\ CallOf(s) = call[c]
                           /\ active[c][SymbolOf(s)] # NoDirection
                           /\ SymbolOf(s) \notin RecordedSymbols}

ReadExisting(c) ==
  /\ pc[c] = "read_existing"
  /\ todo' = [todo EXCEPT ![c] = NewIds(c)]
  /\ call' = [call EXCEPT ![c] = 0]
  /\ pc' = [pc EXCEPT ![c] = "insert_signals"]
  /\ UNCHANGED <<tables, audit, counts, active, view, toLog>>

\* Variant: the OPEN events are appended along with the signals.
InsertSignalsAudited(c) ==
  /\ pc[c] = "insert_signals"
  /\ signals' = [s \in Sids |-> IF s \in todo[c] THEN active[c][SymbolOf(s)] ELSE signals[s]]
  /\ auditOpen' = auditOpen \cup todo[c]
  /\ active' = [active EXCEPT ![c] = NoSignals]
  /\ pc' = [pc EXCEPT ![c] = IF todo[c] = {} THEN "idle" ELSE "insert_positions"]
  /\ UNCHANGED <<session, positions, auditSettled, counts, call, todo, view, toLog>>

\* One transaction inserts the whole batch, ON CONFLICT(signal_id) DO NOTHING.
InsertSignals(c) ==
  /\ pc[c] = "insert_signals"
  /\ signals' = [s \in Sids |-> IF s \in todo[c] /\ signals[s] = NoDirection
                                THEN active[c][SymbolOf(s)] ELSE signals[s]]
  /\ active' = [active EXCEPT ![c] = NoSignals]
  /\ pc' = [pc EXCEPT ![c] = IF todo[c] = {} THEN "idle" ELSE "insert_positions"]
  /\ UNCHANGED <<session, positions, audit, counts, call, todo, view, toLog>>

\* upsert_position of an OPEN row; the COALESCEs keep what the row had.
Upserted(row, p) == [status |-> "OPEN",
                     entry  |-> Coalesce(p, row.entry),
                     last   |-> Coalesce(p, row.last),
                     exit   |-> row.exit]

\* Variant: no position for a symbol that has no quote yet.
InsertPositionIfQuoted(c, s) ==
  /\ pc[c] = "insert_positions" /\ toLog[c] = {} /\ s \in todo[c]
  /\ \E p \in MaybePrice :
       positions' = IF p = Null THEN positions
                    ELSE [positions EXCEPT ![s] = Upserted(positions[s], p)]
  /\ todo' = [todo EXCEPT ![c] = @ \ {s}]
  /\ toLog' = [toLog EXCEPT ![c] = {s}]
  /\ UNCHANGED <<session, signals, audit, counts, pc, call, active, view>>

InsertPosition(c, s) ==
  /\ pc[c] = "insert_positions"
  /\ toLog[c] = {}
  /\ s \in todo[c]
  /\ signals[s] # NoDirection          \* signal_exists
  /\ \E p \in MaybePrice :
       positions' = [positions EXCEPT ![s] = Upserted(positions[s], p)]
  /\ todo' = [todo EXCEPT ![c] = @ \ {s}]
  /\ toLog' = [toLog EXCEPT ![c] = {s}]
  /\ UNCHANGED <<session, signals, audit, counts, pc, call, active, view>>

AppendOpen(c) ==
  /\ pc[c] = "insert_positions"
  /\ toLog[c] # {}
  /\ auditOpen' = auditOpen \cup toLog[c]
  /\ toLog' = [toLog EXCEPT ![c] = {}]
  /\ pc' = [pc EXCEPT ![c] = IF todo[c] = {} THEN "idle" ELSE @]
  /\ UNCHANGED <<tables, auditSettled, counts, call, active, todo, view>>

-----------------------------------------------------------------------------
(* update_mark_to_market                                                   *)

ReadOpenToMark(c) ==
  /\ pc[c] = "idle"
  /\ OpenPositions # {}
  /\ todo' = [todo EXCEPT ![c] = OpenPositions]
  /\ pc' = [pc EXCEPT ![c] = "update_prices"]
  /\ UNCHANGED <<tables, audit, counts, call, active, view, toLog>>

\* Variant: the UPDATE loses its status = 'OPEN'.
MarkedAnyStatus(c, s) == positions[s].status # "NONE" /\ SymbolOf(s) \in {SymbolOf(t) : t \in todo[c]}

\* UPDATE ... WHERE symbol = .. AND session_date = .. AND status = 'OPEN':
\* by symbol, so it reaches every open row of a symbol the client has seen.
Marked(c, s) == /\ positions[s].status = "OPEN"
                /\ SymbolOf(s) \in {SymbolOf(t) : t \in todo[c]}

UpdatePrices(c) ==
  /\ pc[c] = "update_prices"
  /\ \E ltp \in [Symbols -> MaybePrice] :
       positions' = [s \in Sids |->
         IF Marked(c, s)
         THEN [positions[s] EXCEPT !.last = Coalesce(ltp[SymbolOf(s)], @)]
         ELSE positions[s]]
  /\ todo' = [todo EXCEPT ![c] = {}]
  /\ pc' = [pc EXCEPT ![c] = "idle"]
  /\ UNCHANGED <<session, signals, audit, counts, call, active, view, toLog>>

-----------------------------------------------------------------------------
(* settle_session                                                          *)

ReadOpenToSettle(c) ==
  /\ pc[c] = "idle"
  /\ OpenPositions # {}
  /\ todo' = [todo EXCEPT ![c] = OpenPositions]
  /\ view' = [view EXCEPT ![c] = [s \in Sids |-> IF s \in OpenPositions
                                                 THEN positions[s] ELSE NoPosition]]
  /\ pc' = [pc EXCEPT ![c] = "settle"]
  /\ UNCHANGED <<tables, audit, counts, call, active, toLog>>

\* Variant: the exit price is the latest mark, the outcome is of the price read.
SettledRowMixed(row, seen, d, p) ==
  [row EXCEPT !.exit = Coalesce(p, row.last), !.status = Outcome(d, seen.entry, seen.last)]

\* UPDATE ... WHERE signal_id = ..: whatever the row's status is by now.
SettledRow(row, seen, d, p) ==
  LET exit == Coalesce(p, seen.last)
  IN  [row EXCEPT !.exit = exit, !.status = Outcome(d, seen.entry, exit)]

SettlePosition(c, s) ==
  /\ pc[c] = "settle"
  /\ toLog[c] = {}
  /\ s \in todo[c]
  /\ \E p \in MaybePrice :
       positions' = [positions EXCEPT
                       ![s] = SettledRow(positions[s], view[c][s], signals[s], p)]
  /\ todo' = [todo EXCEPT ![c] = @ \ {s}]
  /\ toLog' = [toLog EXCEPT ![c] = {s}]
  /\ UNCHANGED <<session, signals, audit, counts, pc, call, active, view>>

AppendSettled(c) ==
  /\ pc[c] = "settle"
  /\ toLog[c] # {}
  /\ auditSettled' = [s \in Sids |-> IF s \in toLog[c]
                        THEN [auditSettled[s] EXCEPT ![c] = @ + 1]
                        ELSE auditSettled[s]]
  /\ toLog' = [toLog EXCEPT ![c] = {}]
  /\ pc' = [pc EXCEPT ![c] = IF todo[c] = {} THEN "close_session" ELSE @]
  /\ view' = [view EXCEPT ![c] = IF todo[c] = {} THEN NoView ELSE @]
  /\ UNCHANGED <<tables, auditOpen, counts, call, active, todo>>

\* upsert_session(n_long=0, n_short=0): the conflict branch overwrites.
CloseSession(c) ==
  /\ pc[c] = "close_session"
  /\ session' = "ZEROED"
  /\ pc' = [pc EXCEPT ![c] = "idle"]
  /\ UNCHANGED <<signals, positions, audit, counts, call, active, todo, view, toLog>>

-----------------------------------------------------------------------------
\* The process dies between two transactions; committed rows stay.
Crash(c) ==
  /\ pc[c] # "idle"
  /\ crashes < MaxCrashes
  /\ crashes' = crashes + 1
  /\ pc' = [pc EXCEPT ![c] = "idle"]
  /\ call' = [call EXCEPT ![c] = 0]
  /\ active' = [active EXCEPT ![c] = NoSignals]
  /\ todo' = [todo EXCEPT ![c] = {}]
  /\ view' = [view EXCEPT ![c] = NoView]
  /\ toLog' = [toLog EXCEPT ![c] = {}]
  /\ UNCHANGED <<tables, audit, calls>>

Step(c) ==
  \/ StartRecord(c) \/ ReadExisting(c) \/ InsertSignals(c) \/ AppendOpen(c)
  \/ ReadOpenToMark(c) \/ UpdatePrices(c)
  \/ ReadOpenToSettle(c) \/ AppendSettled(c) \/ CloseSession(c)
  \/ \E s \in Sids : InsertPosition(c, s) \/ SettlePosition(c, s)
  \/ Crash(c)

Next == \E c \in Clients : Step(c)

Spec == Init /\ [][Next]_vars

-----------------------------------------------------------------------------
TypeOK ==
  /\ session \in {"NONE", "RECORDED", "ZEROED"}
  /\ signals \in [Sids -> Directions \cup {NoDirection}]
  /\ positions \in [Sids -> PositionRows]
  /\ auditOpen \in SUBSET Sids
  /\ auditSettled \in [Sids -> [Clients -> Nat]]
  /\ calls \in 0 .. MaxCalls
  /\ crashes \in 0 .. MaxCrashes
  /\ pc \in [Clients -> Stages]
  /\ call \in [Clients -> 0 .. MaxCalls]
  /\ active \in [Clients -> [Symbols -> Directions \cup {NoDirection}]]
  /\ todo \in [Clients -> SUBSET Sids]
  /\ view \in [Clients -> [Sids -> PositionRows]]
  /\ toLog \in [Clients -> SUBSET Sids]

Exists(s)    == positions[s].status # "NONE"
IsSettled(s) == positions[s].status \in Terminal

(* No statement of the ledger can break a foreign key: a signal row has    *)
(* its session row and a position row has its signal row, whatever the     *)
(* interleaving of processes and wherever one of them dies.                *)
ForeignKeys ==
  /\ Recorded # {} => session # "NONE"
  /\ \A s \in Sids : Exists(s) => s \in Recorded

(* A settled row agrees with itself: WIN and LOSS follow from direction,   *)
(* entry and exit net of costs, EXPIRED means exactly that no entry price  *)
(* was captured, and an open row has no exit - although the settler works  *)
(* from rows it read before other processes marked or settled them.        *)
SettlementCoherent ==
  \A s \in Sids :
    /\ IsSettled(s) =>
         /\ positions[s].status = Outcome(signals[s], positions[s].entry, positions[s].exit)
         /\ positions[s].status = "EXPIRED" <=> positions[s].entry = Null
    /\ positions[s].status = "OPEN" => positions[s].exit = Null

(* The audit file never runs ahead of the tables: an OPEN event has its    *)
(* position row and a SETTLED event has a settled row, also after a crash  *)
(* between the commit and the append.                                      *)
AuditTrailSound ==
  \A s \in Sids :
    /\ s \in auditOpen => Exists(s)
    /\ (\E c \in Clients : auditSettled[s][c] > 0) => IsSettled(s)

(* One process slot settles a position at most once, however often it      *)
(* reruns settle_session and wherever it was killed before: a second       *)
(* SETTLED event can only come from a process that overlapped the first.   *)
SettleOncePerClient ==
  \A s \in Sids, c \in Clients : auditSettled[s][c] <= 1

(* A signal row without a position row, and no process on its way to it.   *)
Orphaned(s) == /\ s \in Recorded /\ ~ Exists(s)
               /\ \A c \in Clients : pc[c] = "insert_positions" => s \notin todo[c]

(* The signals of at most one record_signals call are orphaned for every   *)
(* process killed: overlapping calls, marks and settlements lose nothing,  *)
(* and a kill takes none of the positions another call is inserting.       *)
OrphanSignalOnlyByCrash ==
  Cardinality({CallOf(s) : s \in {t \in Sids : Orphaned(t)}}) <= crashes

(* Lifecycle of a row: a settled position is never open again, an entry    *)
(* price never changes once the row exists, a signal row never changes.    *)
LifecycleForward ==
  [][\A s \in Sids :
       /\ IsSettled(s) => IsSettled(s)'
       /\ Exists(s) => positions'[s].entry = positions[s].entry
       /\ s \in Recorded => signals'[s] = signals[s]]_vars

(* update_mark_to_market acts on a list it read in an earlier transaction, *)
(* yet it never moves the price of a row settled in between.               *)
MarkLeavesSettledAlone ==
  [][\A s \in Sids : IsSettled(s) => positions'[s].last = positions[s].last]_vars

(* At most one signal per symbol and date.  Holds when ledger operations   *)
(* are run one at a time; see SignalLedgerProofs.                          *)
OneSignalPerSymbol ==
  \A s, t \in Recorded : SymbolOf(s) = SymbolOf(t) => s = t

=============================================================================
