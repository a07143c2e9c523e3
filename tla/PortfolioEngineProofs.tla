------------------------ MODULE PortfolioEngineProofs -----------------------
(***************************************************************************)
(* The life of orders and positions and where the money is, for any        *)
(* signals, prices, limits and length of the backtest.  The life comes     *)
(* first (LifeInv); the money needs sums over sets of signals, whose laws  *)
(* are proved from the definition of the fold, then the types of the       *)
(* amounts (MoneyInv) and an equation between the shares of the signals    *)
(* (Balance), from which the cash is explained.                            *)
(***************************************************************************)
EXTENDS PortfolioEngine, FiniteSetTheorems, TLAPS

Shape ==
  /\ bar \in Nat
  /\ phase \in [Signals -> Phases]
  /\ submitted \in [Signals -> Nat]
  /\ entered \in [Signals -> Nat]

(* Orders are older than the bar that may fill them; after the fills only  *)
(* an order of this bar waits for a symbol that trades.                    *)
Ages ==
  \A i \in Signals :
    /\ phase[i] = "pending" =>
         /\ submitted[i] <= bar
         /\ stage \in {"bar", "fill", "exit"} => submitted[i] < bar
         /\ stage \in {"exit", "signal"} => submitted[i] = bar \/ ~Trades(Sym[i])
    /\ phase[i] \in {"open", "closed", "dropped"} =>
         entered[i] \in submitted[i] + 1 .. submitted[i] + EntryWindow
    /\ phase[i] = "open" => entered[i] <= bar
    /\ phase[i] = "open" /\ stage = "signal" => bar - entered[i] < Holding

StrictPolicies ==
  SameSymbolPolicy = "IGNORE" /\ OppositePolicy \in {"IGNORE", "CLOSE_ONLY"}

(* Orders in flight count as well as positions. *)
PairsInFlight ==
  StrictPolicies =>
    \A i, j \in InFlight : Sym[i] = Sym[j] => submitted[i] = submitted[j]

LifeInv == Shape /\ Ages /\ PairsInFlight /\ CommittedWithinLimit

LEMMA InFlightIs == \A i : i \in InFlight <=> i \in Signals /\ phase[i] \in {"open", "pending"}
  BY DEF InFlight, Open, Pending, In

LEMMA FlightShrinks ==
  ASSUME CommittedWithinLimit,
         \A i \in Signals : phase'[i] \in {"open", "pending"} => phase[i] \in {"open", "pending"}
  PROVE  CommittedWithinLimit'
<1>1. (Open \cup Pending)' \subseteq Open \cup Pending
  BY DEF Open, Pending, In
<1>2. IsFiniteSet(Open \cup Pending)
  <2>1. Open \cup Pending \subseteq Signals
    BY DEF Open, Pending, In
  <2> QED
    BY <2>1, FS_Subset, EngineAssumption
<1>3. Cardinality((Open \cup Pending)') <= Cardinality(Open \cup Pending)
  BY <1>1, <1>2, FS_Subset
<1>4. Cardinality(Open \cup Pending) \in Nat /\ Cardinality((Open \cup Pending)') \in Nat
  BY <1>1, <1>2, FS_Subset, FS_CardinalityType
<1> QED
  BY <1>3, <1>4, EngineAssumption DEF CommittedWithinLimit

LEMMA PairsShrink ==
  ASSUME PairsInFlight, submitted' = submitted,
         \A i \in Signals : phase'[i] \in {"open", "pending"} => phase[i] \in {"open", "pending"}
  PROVE  PairsInFlight'
  BY InFlightIs DEF PairsInFlight, StrictPolicies, InFlight, Open, Pending, In

LEMMA LifeInit == Init => LifeInv
<1> SUFFICES ASSUME Init PROVE LifeInv
  OBVIOUS
<1>1. Shape /\ Ages
  BY DEF Init, Shape, Ages, Phases
<1>2. InFlight = {} /\ Open \cup Pending = {}
  BY DEF Init, InFlight, Open, Pending, In
<1>3. CommittedWithinLimit
  BY <1>2, FS_EmptySet, EngineAssumption DEF CommittedWithinLimit
<1> QED
  BY <1>1, <1>2, <1>3 DEF LifeInv, PairsInFlight

-----------------------------------------------------------------------------
LEMMA MarketBarKeeps == ASSUME LifeInv, MarketBar PROVE LifeInv'
<1>1. stage = "bar" /\ stage' = "fill" /\ UNCHANGED <<bar, phase, submitted, entered>>
  BY DEF MarketBar, Step, lifecycle
<1>2. Shape' /\ Ages'
  BY <1>1 DEF LifeInv, Shape, Ages
<1>3. PairsInFlight' /\ CommittedWithinLimit'
  BY <1>1, PairsShrink, FlightShrinks DEF LifeInv
<1> QED
  BY <1>2, <1>3 DEF LifeInv

LEMMA FillOrdersKeeps == ASSUME LifeInv, FillOrders PROVE LifeInv'
<1> DEFINE filled == {i \in Ready : ~Late(i)}
<1>1. stage = "fill" /\ stage' = "exit" /\ UNCHANGED <<bar, today, submitted>>
  BY DEF FillOrders, Step
<1>2. /\ entered' = [i \in Signals |-> IF i \in filled THEN bar ELSE entered[i]]
      /\ phase' = [i \in Signals |-> IF i \in filled THEN "open"
                                     ELSE IF i \in Ready THEN "expired" ELSE phase[i]]
  BY DEF FillOrders
<1>3. \A i \in Signals : i \in Ready <=> phase[i] = "pending" /\ Trades(Sym[i])
  BY DEF Ready, Pending, In
<1>4. Shape'
  BY <1>1, <1>2 DEF LifeInv, Shape, Phases
<1>5. Ages'
  <2> SUFFICES ASSUME NEW i \in Signals
               PROVE  /\ phase'[i] = "pending" =>
                           /\ submitted[i] < bar
                           /\ ~Trades(Sym[i])
                      /\ phase'[i] \in {"open", "closed", "dropped"} =>
                           entered'[i] \in submitted[i] + 1 .. submitted[i] + EntryWindow
                      /\ phase'[i] = "open" => entered'[i] <= bar
    BY <1>1 DEF Ages, Trades, LifeInv, Shape
  <2>1. CASE i \in filled
    <3>1. phase[i] = "pending" /\ ~Late(i) /\ phase'[i] = "open" /\ entered'[i] = bar
      BY <1>2, <1>3, <2>1
    <3>2. submitted[i] < bar /\ bar <= submitted[i] + EntryWindow
      BY <1>1, <3>1, EngineAssumption DEF LifeInv, Shape, Ages, Late
    <3> QED
      BY <3>1, <3>2, EngineAssumption DEF LifeInv, Shape
  <2>2. CASE i \notin filled
    BY <1>1, <1>2, <1>3, <2>2 DEF LifeInv, Ages
  <2> QED
    BY <2>1, <2>2
<1>6. \A i \in Signals : phase'[i] \in {"open", "pending"} => phase[i] \in {"open", "pending"}
  BY <1>2, <1>3
<1> QED
  BY <1>1, <1>4, <1>5, <1>6, PairsShrink, FlightShrinks DEF LifeInv

LEMMA ClosePositionsKeeps == ASSUME LifeInv, ClosePositions PROVE LifeInv'
<1> DEFINE closing == {i \in Open : TargetHit(i) \/ StopHit(i) \/ TimeUp(i)}
<1>1. stage = "exit" /\ stage' = "signal" /\ UNCHANGED <<bar, today, submitted, entered>>
  BY DEF ClosePositions, Step
<1>2. phase' = [i \in Signals |-> IF i \in closing THEN "closed" ELSE phase[i]]
  BY DEF ClosePositions
<1>3. \A i \in Signals : i \in closing => phase[i] = "open"
  BY DEF Open, In
<1>4. \A i \in Signals : phase'[i] = "open" => bar - entered[i] < Holding
  <2> SUFFICES ASSUME NEW i \in Signals, phase'[i] = "open" PROVE bar - entered[i] < Holding
    OBVIOUS
  <2>1. phase[i] = "open" /\ ~TimeUp(i)
    BY <1>2 DEF Open, In
  <2> QED
    BY <2>1, EngineAssumption DEF TimeUp, LifeInv, Shape
<1> HIDE DEF closing
<1>5. Shape'
  BY <1>1, <1>2 DEF LifeInv, Shape, Phases
<1>6. Ages'
  BY <1>1, <1>2, <1>3, <1>4 DEF LifeInv, Ages, Trades, Shape
<1>7. \A i \in Signals : phase'[i] \in {"open", "pending"} => phase[i] \in {"open", "pending"}
  BY <1>2, <1>3
<1> QED
  BY <1>1, <1>5, <1>6, <1>7, PairsShrink, FlightShrinks DEF LifeInv

LEMMA CloseOppositeKeeps ==
  ASSUME LifeInv, NEW i \in Signals, CloseOpposite(i) PROVE LifeInv'
<1>1. stage = "signal" /\ UNCHANGED <<stage, bar, today, submitted, entered>>
      /\ phase' = [j \in Signals |-> IF j \in Opposing(i) THEN "closed" ELSE phase[j]]
  BY DEF CloseOpposite
<1>2. \A j \in Opposing(i) : phase[j] = "open"
  BY DEF Opposing, Opposed, OpenOn, Open, In
<1>3. Shape' /\ Ages'
  BY <1>1, <1>2 DEF LifeInv, Shape, Phases, Ages, Trades
<1>4. \A j \in Signals : phase'[j] \in {"open", "pending"} => phase[j] \in {"open", "pending"}
  BY <1>1, <1>2
<1> QED
  BY <1>1, <1>3, <1>4, PairsShrink, FlightShrinks DEF LifeInv

(* The policies keep a new order away from the positions of its symbol, and *)
(* the bar keeps it away from older orders.                                 *)
LEMMA SubmitOrderKeeps ==
  ASSUME LifeInv, NEW i \in Signals, SubmitOrder(i) PROVE LifeInv'
<1>1. /\ stage = "signal" /\ UNCHANGED <<stage, bar, today, entered>>
      /\ phase' = [j \in Signals |-> IF j \in Opposing(i) THEN "closed"
                                     ELSE IF j = i THEN "pending" ELSE phase[j]]
      /\ submitted' = [submitted EXCEPT ![i] = bar]
      /\ Opposing(i) = {} \/ Reverses
  BY DEF SubmitOrder
<1>2. phase[i] = "idle" /\ Cardinality(InFlight) < MaxPositions /\ PolicyAllows(i)
  BY DEF SubmitOrder, Eligible
<1>3. Trades(Sym[i])
  BY DEF SubmitOrder, Orderable
<1>4. \A j \in Opposing(i) : phase[j] = "open"
  BY DEF Opposing, Opposed, OpenOn, Open, In
<1>5. Shape'
  BY <1>1 DEF LifeInv, Shape, Phases
<1>6. Ages'
  <2> SUFFICES ASSUME NEW j \in Signals
               PROVE  /\ phase'[j] = "pending" =>
                           submitted'[j] <= bar /\ (submitted'[j] = bar \/ ~Trades(Sym[j]))
                      /\ phase'[j] \in {"open", "closed", "dropped"} =>
                           entered[j] \in submitted'[j] + 1 .. submitted'[j] + EntryWindow
                      /\ phase'[j] = "open" => entered[j] <= bar /\ bar - entered[j] < Holding
    BY <1>1 DEF Ages, Trades
  <2>1. CASE j = i
    BY <1>1, <1>2, <1>4, <2>1 DEF LifeInv, Shape
  <2>2. CASE j # i
    BY <1>1, <1>4, <2>2 DEF LifeInv, Shape, Ages
  <2> QED
    BY <2>1, <2>2
<1>7. PairsInFlight'
  <2> SUFFICES ASSUME StrictPolicies, NEW j \in InFlight', NEW k \in InFlight', Sym[j] = Sym[k]
               PROVE  submitted'[j] = submitted'[k]
    BY DEF PairsInFlight, StrictPolicies
  <2>1. \A m \in InFlight' : m \in Signals /\ (m = i \/ (m \in InFlight /\ submitted'[m] = submitted[m]))
    <3> SUFFICES ASSUME NEW m \in InFlight'
                 PROVE  m \in Signals /\ (m = i \/ (m \in InFlight /\ submitted'[m] = submitted[m]))
      OBVIOUS
    <3>1. m \in Signals /\ phase'[m] \in {"open", "pending"}
      BY DEF InFlight, Open, Pending, In
    <3>2. CASE m # i
      <4>1. submitted'[m] = submitted[m]
        BY <1>1, <3>1, <3>2 DEF LifeInv, Shape
      <4>2. phase'[m] = IF m \in Opposing(i) THEN "closed" ELSE phase[m]
        BY <1>1, <3>1, <3>2
      <4>3. m \in InFlight
        BY <3>1, <4>2, InFlightIs
      <4> QED
        BY <3>1, <4>1, <4>3
    <3>3. CASE m = i
      BY <3>1, <3>3
    <3> QED
      BY <3>2, <3>3
  <2>2. Opposing(i) = {}
    BY <1>1 DEF StrictPolicies, Reverses
  <2>3. OpenOn(Sym[i]) = {}
    BY <1>2, <2>2 DEF PolicyAllows, StrictPolicies, Opposing, Opposed
  <2>4. \A m \in InFlight : Sym[m] = Sym[i] => submitted[m] = bar
    BY <1>1, <1>3, <2>3, InFlightIs DEF OpenOn, Open, In, LifeInv, Ages
  <2>5. submitted'[i] = bar
    BY <1>1 DEF LifeInv, Shape
  <2> QED
    BY <2>1, <2>4, <2>5 DEF LifeInv, PairsInFlight
<1>8. CommittedWithinLimit'
  <2>1. (Open \cup Pending)' \subseteq InFlight \cup {i}
    BY <1>1 DEF InFlight, Open, Pending, In
  <2>2. IsFiniteSet(InFlight)
    <3>1. InFlight \subseteq Signals
      BY InFlightIs
    <3> QED
      BY <3>1, FS_Subset, EngineAssumption
  <2>3. /\ IsFiniteSet(InFlight \cup {i})
        /\ Cardinality(InFlight \cup {i}) \in {Cardinality(InFlight), Cardinality(InFlight) + 1}
    BY <2>2, FS_AddElement
  <2>4. Cardinality((Open \cup Pending)') <= Cardinality(InFlight \cup {i})
    BY <2>1, <2>3, FS_Subset
  <2>5. Cardinality(InFlight) \in Nat /\ Cardinality((Open \cup Pending)') \in Nat
    BY <2>1, <2>2, <2>3, FS_Subset, FS_CardinalityType
  <2> QED
    BY <1>2, <2>3, <2>4, <2>5, EngineAssumption DEF CommittedWithinLimit
<1> QED
  BY <1>5, <1>6, <1>7, <1>8 DEF LifeInv

LEMMA RecordEquityKeeps == ASSUME LifeInv, RecordEquity PROVE LifeInv'
<1>1. /\ stage = "signal" /\ stage' \in {"bar", "final"} /\ bar' = bar + 1
      /\ UNCHANGED <<phase, submitted, entered>>
  BY DEF RecordEquity, lifecycle
<1>2. Shape' /\ Ages'
  BY <1>1 DEF LifeInv, Shape, Ages
<1> QED
  BY <1>1, <1>2, PairsShrink, FlightShrinks DEF LifeInv

LEMMA FinishRunKeeps == ASSUME LifeInv, FinishRun PROVE LifeInv'
<1> DEFINE closing == {i \in Open : Trades(Sym[i])}
<1>1. /\ stage' = "done" /\ UNCHANGED <<bar, submitted, entered>>
      /\ phase' = [i \in Signals |-> IF i \in closing THEN "closed"
                                     ELSE IF i \in Open THEN "dropped" ELSE phase[i]]
  BY DEF FinishRun, Step
<1>2. \A i \in Signals : i \in Open <=> phase[i] = "open"
  BY DEF Open, In
<1>3. \A i \in closing : i \in Open
  OBVIOUS
<1> HIDE DEF closing
<1>4. Shape' /\ Ages'
  BY <1>1, <1>2, <1>3 DEF LifeInv, Shape, Phases, Ages
<1>5. \A i \in Signals : phase'[i] \in {"open", "pending"} => phase[i] \in {"open", "pending"}
  BY <1>1, <1>2
<1> QED
  BY <1>1, <1>4, <1>5, PairsShrink, FlightShrinks DEF LifeInv

LEMMA StutterKeeps == ASSUME LifeInv, UNCHANGED vars PROVE LifeInv'
<1>1. UNCHANGED <<stage, bar, today, phase, submitted, entered>>
  BY DEF vars, lifecycle
<1>2. Shape' /\ Ages'
  BY <1>1 DEF LifeInv, Shape, Ages, Trades
<1> QED
  BY <1>1, <1>2, PairsShrink, FlightShrinks DEF LifeInv

(* The invariant that carries the three results below. *)
THEOREM LifeInvariant == Spec => []LifeInv
<1>1. LifeInv /\ [Next]_vars => LifeInv'
  BY MarketBarKeeps, FillOrdersKeeps, ClosePositionsKeeps, CloseOppositeKeeps,
     SubmitOrderKeeps, RecordEquityKeeps, FinishRunKeeps, StutterKeeps DEF Next
<1> QED
  BY LifeInit, <1>1, PTL DEF Spec

(* Positions and queued orders never exceed max_positions, however many    *)
(* signals a bar brings.                                                   *)
THEOREM CommitmentsAreBounded == Spec => []CommittedWithinLimit
<1>1. LifeInv => CommittedWithinLimit
  BY DEF LifeInv
<1> QED
  BY LifeInvariant, <1>1, PTL

(* Fills come after their signal and within the window, exits within the   *)
(* horizon, for any pattern of missing bars.                               *)
THEOREM LifecyclesAreTimely == Spec => []LifecycleTimely
<1>1. LifeInv => LifecycleTimely
  BY DEF LifeInv, Ages, LifecycleTimely
<1> QED
  BY LifeInvariant, <1>1, PTL

(* Two positions on one symbol come from orders of one bar. *)
THEOREM PairsComeFromOneBar == Spec => []PairsOnlyFromOneBar
<1>1. LifeInv => PairsOnlyFromOneBar
  BY DEF LifeInv, PairsInFlight, PairsOnlyFromOneBar, StrictPolicies, InFlight
<1> QED
  BY LifeInvariant, <1>1, PTL

-----------------------------------------------------------------------------
(* Sums over finite sets.  SumFunctionOnSet is a fold, that is a recursive  *)
(* function on subsets; that it exists, that it is unique and that its      *)
(* value does not depend on the elements it picks follow by induction on    *)
(* finite sets.                                                             *)
(* The recursion inside SumFunctionOnSet: one picked element after another. *)
Pick(T) == CHOOSE x \in T : TRUE
AddTo(g, f, T) == IF T = {} THEN 0 ELSE f[Pick(T)] + g[T \ {Pick(T)}]
Sums(f, S) == CHOOSE g : g = [T \in SUBSET S |-> AddTo(g, f, T)]
AddsUp(g, f, S) == \A T \in SUBSET S : g[T] = AddTo(g, f, T)

LEMMA SumIs == ASSUME NEW f, NEW S PROVE SumFunctionOnSet(f, S) = Sums(f, S)[S]
BY DEF SumFunctionOnSet, FoldFunctionOnSet, MapThenFoldSet, Sums, AddTo, Pick

LEMMA PickIn == \A T : T # {} => Pick(T) \in T
BY DEF Pick

(* Induction over the subsets of a finite set, as a smallest counterexample. *)
LEMMA SmallestSet ==
  ASSUME NEW S, IsFiniteSet(S), NEW Bad \in SUBSET SUBSET S, Bad # {}
  PROVE  \E T \in Bad : \A U \in Bad : U \subseteq T => U = T
<1>1. Bad \subseteq FiniteSubsetsOf(S)
  BY FS_Subset DEF FiniteSubsetsOf
<1>2. \E T \in Bad : \A U \in Bad : <<U, T>> \notin StrictSubsetOrdering(S)
  BY <1>1, FS_StrictSubsetOrderingWellFounded, WFMin
<1> QED
  BY <1>1, <1>2 DEF StrictSubsetOrdering, FiniteSubsetsOf

LEMMA SetInduction ==
  ASSUME NEW S, IsFiniteSet(S), NEW Good,
         \A T \in SUBSET S : (\A U \in SUBSET T : U # T => U \in Good) => T \in Good
  PROVE  SUBSET S \subseteq Good
<1> DEFINE Bad == (SUBSET S) \ Good
<1> SUFFICES ASSUME Bad # {} PROVE FALSE
  OBVIOUS
<1>1. Bad \in SUBSET SUBSET S
  OBVIOUS
<1>2. PICK T \in Bad : \A U \in Bad : U \subseteq T => U = T
  <2> HIDE DEF Bad
  <2> QED
    BY <1>1, SmallestSet
<1>3. \A U \in SUBSET T : U # T => U \in Good
  BY <1>1, <1>2
<1> QED
  BY <1>2, <1>3

LEMMA AddsUpUnique ==
  ASSUME NEW S, IsFiniteSet(S), NEW f, NEW g, NEW h, AddsUp(g, f, S), AddsUp(h, f, S)
  PROVE  g[S] = h[S]
<1> DEFINE Good == {T \in SUBSET S : g[T] = h[T]}
<1>1. ASSUME NEW T \in SUBSET S, \A U \in SUBSET T : U # T => U \in Good
      PROVE  T \in Good
  <2>1. g[T] = AddTo(g, f, T) /\ h[T] = AddTo(h, f, T)
    BY <1>1 DEF AddsUp
  <2>2. T # {} => g[T \ {Pick(T)}] = h[T \ {Pick(T)}]
    <3> SUFFICES ASSUME T # {} PROVE T \ {Pick(T)} \in Good
      OBVIOUS
    <3>1. T \ {Pick(T)} \subseteq T /\ T \ {Pick(T)} # T
      BY PickIn
    <3> QED
      BY <1>1, <3>1
  <2>3. AddTo(g, f, T) = AddTo(h, f, T)
    BY <2>2 DEF AddTo
  <2> QED
    BY <1>1, <2>1, <2>3
<1> HIDE DEF Good
<1>2. SUBSET S \subseteq Good
  BY <1>1, SetInduction
<1> QED
  BY <1>2 DEF Good

LEMMA AddsUpExists ==
  ASSUME NEW S, IsFiniteSet(S), NEW f
  PROVE  \E g : g = [T \in SUBSET S |-> AddTo(g, f, T)]
<1> DEFINE Good == {T \in SUBSET S : \E g : AddsUp(g, f, T)}
           For(T) == CHOOSE g : AddsUp(g, f, T)
           Less(T) == T \ {Pick(T)}
           Whole(T) == [U \in SUBSET T |-> AddTo(For(Less(U)), f, U)]
<1>1. ASSUME NEW T \in SUBSET S, \A U \in SUBSET T : U # T => U \in Good
      PROVE  Whole(T) = [U \in SUBSET T |-> AddTo(Whole(T), f, U)]
  <2> SUFFICES ASSUME NEW U \in SUBSET T
               PROVE  AddTo(For(Less(U)), f, U) = AddTo(Whole(T), f, U)
    OBVIOUS
  <2> SUFFICES ASSUME U # {} PROVE For(Less(U))[Less(U)] = Whole(T)[Less(U)]
    BY DEF AddTo
  <2> DEFINE V == Less(U)
  <2>1. V \in SUBSET T /\ V # T
    BY PickIn
  <2>2. Whole(T)[V] = AddTo(For(Less(V)), f, V)
    BY <2>1
  <2>3. AddsUp(For(V), f, V)
    BY <1>1, <2>1
  <2>4. For(V)[V] = AddTo(For(V), f, V)
    BY <2>3 DEF AddsUp
  <2>5. ASSUME V # {} PROVE For(V)[Less(V)] = For(Less(V))[Less(V)]
    <3>1. Less(V) \in SUBSET T /\ Less(V) # T /\ Less(V) \subseteq V
      BY <2>1
    <3>2. AddsUp(For(Less(V)), f, Less(V)) /\ AddsUp(For(V), f, Less(V))
      BY <1>1, <2>3, <3>1 DEF AddsUp
    <3>3. IsFiniteSet(Less(V))
      BY <1>1, <3>1, FS_Subset
    <3> QED
      BY <3>2, <3>3, AddsUpUnique
  <2> QED
    BY <2>2, <2>4, <2>5 DEF AddTo
<1> HIDE DEF Whole
<1>2. ASSUME NEW T \in SUBSET S, \A U \in SUBSET T : U # T => U \in Good
      PROVE  T \in Good
  <2>1. \A U \in SUBSET T : Whole(T)[U] = AddTo(Whole(T), f, U)
    BY <1>1, <1>2
  <2> QED
    BY <2>1 DEF AddsUp
<1>3. SUBSET S \subseteq Good
  <2> HIDE DEF Good
  <2> QED
    BY <1>2, SetInduction
<1> QED
  BY <1>1, <1>3

LEMMA SumsAddUp ==
  ASSUME NEW S, IsFiniteSet(S), NEW f
  PROVE  AddsUp(Sums(f, S), f, S)
<1>1. Sums(f, S) = [T \in SUBSET S |-> AddTo(Sums(f, S), f, T)]
  BY AddsUpExists DEF Sums
<1> QED
  BY <1>1 DEF AddsUp

LEMMA SumUnfolds ==
  ASSUME NEW S, IsFiniteSet(S), NEW f
  PROVE  SumFunctionOnSet(f, S) =
           IF S = {} THEN 0 ELSE f[Pick(S)] + SumFunctionOnSet(f, S \ {Pick(S)})
<1>1. AddsUp(Sums(f, S), f, S)
  BY SumsAddUp
<1> DEFINE V == S \ {Pick(S)}
<1>2. Sums(f, S)[V] = Sums(f, V)[V]
  <2>1. IsFiniteSet(V)
    BY FS_Subset
  <2>2. AddsUp(Sums(f, V), f, V) /\ AddsUp(Sums(f, S), f, V)
    BY <1>1, <2>1, SumsAddUp DEF AddsUp
  <2> QED
    BY <2>1, <2>2, AddsUpUnique
<1>3. SumFunctionOnSet(f, S) = Sums(f, S)[S] /\ SumFunctionOnSet(f, V) = Sums(f, V)[V]
  BY SumIs
<1> QED
  BY <1>1, <1>2, <1>3 DEF AddsUp, AddTo

LEMMA SumInt ==
  ASSUME NEW S, IsFiniteSet(S), NEW f, \A x \in S : f[x] \in Int
  PROVE  SumFunctionOnSet(f, S) \in Int
<1> DEFINE Good == {T \in SUBSET S : SumFunctionOnSet(f, T) \in Int}
<1>1. ASSUME NEW T \in SUBSET S, \A U \in SUBSET T : U # T => U \in Good
      PROVE  T \in Good
  <2>1. IsFiniteSet(T)
    BY FS_Subset
  <2>2. T # {} => T \ {Pick(T)} \in Good /\ f[Pick(T)] \in Int
    BY <1>1, PickIn
  <2>3. SumFunctionOnSet(f, T) =
          IF T = {} THEN 0 ELSE f[Pick(T)] + SumFunctionOnSet(f, T \ {Pick(T)})
    BY <2>1, SumUnfolds
  <2> QED
    BY <2>2, <2>3
<1>2. SUBSET S \subseteq Good
  <2> HIDE DEF Good
  <2> QED
    BY <1>1, SetInduction
<1> QED
  BY <1>2

LEMMA SumEmpty == \A f : SumFunctionOnSet(f, {}) = 0
BY SumUnfolds, FS_EmptySet

(* The result does not depend on the element that is taken first. *)
LEMMA SumRemove ==
  ASSUME NEW S, IsFiniteSet(S), NEW f, \A x \in S : f[x] \in Int
  PROVE  \A x \in S : SumFunctionOnSet(f, S) = f[x] + SumFunctionOnSet(f, S \ {x})
<1> DEFINE Sum(T) == SumFunctionOnSet(f, T)
           Good == {T \in SUBSET S : \A x \in T : Sum(T) = f[x] + Sum(T \ {x})}
<1>1. ASSUME NEW T \in SUBSET S, \A U \in SUBSET T : U # T => U \in Good
      PROVE  T \in Good
  <2> SUFFICES ASSUME NEW x \in T PROVE Sum(T) = f[x] + Sum(T \ {x})
    OBVIOUS
  <2> DEFINE c == Pick(T)
             V == T \ {c}
             W == T \ {x}
             R == T \ {c, x}
  <2>1. IsFiniteSet(T) /\ IsFiniteSet(R) /\ c \in T
    BY FS_Subset, PickIn
  <2>2. Sum(T) = f[c] + Sum(V)
    BY <2>1, SumUnfolds
  <2>3. ASSUME x # c PROVE Sum(V) = f[x] + Sum(R) /\ Sum(W) = f[c] + Sum(R)
    <3>1. V \in Good /\ W \in Good
      BY <1>1, <2>1
    <3>2. V \ {x} = R /\ W \ {c} = R /\ x \in V /\ c \in W
      BY <2>1, <2>3
    <3> QED
      BY <3>1, <3>2
  <2>4. Sum(R) \in Int /\ f[x] \in Int /\ f[c] \in Int
    BY <2>1, SumInt
  <2> HIDE DEF Sum, c
  <2> QED
    BY <2>2, <2>3, <2>4
<1>2. SUBSET S \subseteq Good
  <2> HIDE DEF Good
  <2> QED
    BY <1>1, SetInduction
<1> QED
  BY <1>2

LEMMA SumEqual ==
  ASSUME NEW S, IsFiniteSet(S), NEW f, NEW g, \A x \in S : f[x] = g[x]
  PROVE  SumFunctionOnSet(f, S) = SumFunctionOnSet(g, S)
<1> DEFINE Good == {T \in SUBSET S : SumFunctionOnSet(f, T) = SumFunctionOnSet(g, T)}
<1>1. ASSUME NEW T \in SUBSET S, \A U \in SUBSET T : U # T => U \in Good
      PROVE  T \in Good
  <2>1. IsFiniteSet(T)
    BY FS_Subset
  <2>2. T # {} => T \ {Pick(T)} \in Good /\ f[Pick(T)] = g[Pick(T)]
    BY <1>1, PickIn
  <2> QED
    BY <2>1, <2>2, SumUnfolds
<1>2. SUBSET S \subseteq Good
  <2> HIDE DEF Good
  <2> QED
    BY <1>1, SetInduction
<1> QED
  BY <1>2

(* Elements outside S count as zero. *)
LEMMA SumExtend ==
  ASSUME NEW U, IsFiniteSet(U), NEW S \in SUBSET U, NEW f, \A x \in S : f[x] \in Int
  PROVE  SumFunctionOnSet(f, S) = SumFunctionOnSet([x \in U |-> IF x \in S THEN f[x] ELSE 0], U)
<1> DEFINE g == [x \in U |-> IF x \in S THEN f[x] ELSE 0]
           Good == {T \in SUBSET U : SumFunctionOnSet(g, T) = SumFunctionOnSet(f, T \cap S)}
<1>1. ASSUME NEW T \in SUBSET U, \A V \in SUBSET T : V # T => V \in Good
      PROVE  T \in Good
  <2>1. CASE T = {}
    BY <2>1, SumEmpty
  <2>2. ASSUME NEW c \in T PROVE T \in Good
    <3> DEFINE V == T \ {c}
    <3>1. IsFiniteSet(T) /\ IsFiniteSet(T \cap S) /\ \A x \in T : g[x] \in Int
      BY FS_Subset
    <3>2. SumFunctionOnSet(g, T) = g[c] + SumFunctionOnSet(g, V)
      <4> HIDE DEF g
      <4> QED
        BY <3>1, SumRemove
    <3>3. SumFunctionOnSet(g, V) = SumFunctionOnSet(f, V \cap S)
      BY <1>1
    <3>4. CASE c \in S
      <4>1. SumFunctionOnSet(f, T \cap S) = f[c] + SumFunctionOnSet(f, (T \cap S) \ {c})
        BY <3>1, <3>4, SumRemove
      <4>2. (T \cap S) \ {c} = V \cap S
        OBVIOUS
      <4> QED
        BY <3>2, <3>3, <3>4, <4>1, <4>2
    <3>5. CASE c \notin S
      <4>1. T \cap S = V \cap S /\ g[c] = 0
        BY <3>5
      <4>2. SumFunctionOnSet(f, V \cap S) \in Int
        BY <3>1, <4>1, SumInt
      <4>3. SumFunctionOnSet(f, T \cap S) = SumFunctionOnSet(f, V \cap S)
        BY <4>1
      <4>4. SumFunctionOnSet(g, T) = 0 + SumFunctionOnSet(f, V \cap S)
        BY <3>2, <3>3, <4>1
      <4> HIDE DEF g
      <4> QED
        BY <4>2, <4>3, <4>4
    <3> QED
      BY <3>4, <3>5
  <2> QED
    BY <2>1, <2>2
<1>2. U \in Good
  <2> HIDE DEF Good
  <2> QED
    BY <1>1, SetInduction
<1>3. U \cap S = S
  OBVIOUS
<1> QED
  BY <1>2, <1>3

LEMMA SumPlus ==
  ASSUME NEW S, IsFiniteSet(S), NEW f, NEW g, NEW h,
         \A x \in S : f[x] \in Int /\ g[x] \in Int /\ h[x] = f[x] + g[x]
  PROVE  SumFunctionOnSet(h, S) = SumFunctionOnSet(f, S) + SumFunctionOnSet(g, S)
<1> DEFINE Sum(k, T) == SumFunctionOnSet(k, T)
           Good == {T \in SUBSET S : Sum(h, T) = Sum(f, T) + Sum(g, T)}
<1>1. ASSUME NEW T \in SUBSET S, \A V \in SUBSET T : V # T => V \in Good
      PROVE  T \in Good
  <2>1. CASE T = {}
    BY <2>1, SumEmpty
  <2>2. ASSUME NEW c \in T PROVE T \in Good
    <3> DEFINE V == T \ {c}
    <3>1. IsFiniteSet(T) /\ IsFiniteSet(V) /\ V \in Good
      BY <1>1, FS_Subset
    <3>2. Sum(f, T) = f[c] + Sum(f, V) /\ Sum(g, T) = g[c] + Sum(g, V)
      BY <3>1, SumRemove
    <3>3. \A x \in T : h[x] \in Int
      OBVIOUS
    <3>4. Sum(h, T) = h[c] + Sum(h, V)
      BY <3>1, <3>3, SumRemove
    <3>5. Sum(f, V) \in Int /\ Sum(g, V) \in Int /\ f[c] \in Int /\ g[c] \in Int
      BY <3>1, SumInt
    <3>6. Sum(h, V) = Sum(f, V) + Sum(g, V) /\ h[c] = f[c] + g[c]
      BY <3>1
    <3> HIDE DEF Sum
    <3> QED
      BY <3>2, <3>4, <3>5, <3>6
  <2> QED
    BY <2>1, <2>2
<1>2. S \in Good
  <2> HIDE DEF Good
  <2> QED
    BY <1>1, SetInduction
<1> QED
  BY <1>2

(* An equation that holds element by element holds for the sums. *)
LEMMA SumBalance ==
  ASSUME NEW S, IsFiniteSet(S), NEW a, NEW b, NEW c, NEW d, NEW e, NEW f,
         \A x \in S : /\ {a[x], b[x], c[x], d[x], e[x], f[x]} \subseteq Int
                      /\ a[x] + b[x] + c[x] = d[x] + e[x] + f[x]
  PROVE  SumFunctionOnSet(a, S) + SumFunctionOnSet(b, S) + SumFunctionOnSet(c, S)
           = SumFunctionOnSet(d, S) + SumFunctionOnSet(e, S) + SumFunctionOnSet(f, S)
<1> DEFINE Sum(k) == SumFunctionOnSet(k, S)
           ab == [x \in S |-> a[x] + b[x]]
           abc == [x \in S |-> ab[x] + c[x]]
           de == [x \in S |-> d[x] + e[x]]
           def == [x \in S |-> de[x] + f[x]]
<1>1. Sum(ab) = Sum(a) + Sum(b) /\ Sum(de) = Sum(d) + Sum(e)
  BY SumPlus
<1>2. Sum(abc) = Sum(ab) + Sum(c)
  BY SumPlus
<1>3. Sum(def) = Sum(de) + Sum(f)
  BY SumPlus
<1>4. Sum(abc) = Sum(def)
  BY SumEqual
<1> QED
  BY <1>1, <1>2, <1>3, <1>4

-----------------------------------------------------------------------------
Deals == [qty : Int, entry : Int, cost : Int, cur : Int, exit : Int]

(* The losing streak is made of closed trades, bars remain while the loop   *)
(* runs, and the peak starts at the initial capital.                        *)
MoneyInv ==
  /\ TypeOK
  /\ deal \in [Signals -> Deals]
  /\ stage \notin {"final", "done"} => bar < MaxBars
  /\ streak <= Cardinality(In("closed"))
  /\ InitialCapital <= peak

(* Types of the amounts. *)
LEMMA FiniteIn == \A p : IsFiniteSet(In(p)) /\ In(p) \subseteq Signals
<1> SUFFICES ASSUME NEW p PROVE IsFiniteSet(In(p)) /\ In(p) \subseteq Signals
  OBVIOUS
<1>1. In(p) \subseteq Signals
  BY DEF In
<1> QED
  BY <1>1, FS_Subset, EngineAssumption

LEMMA Prices ==
  ASSUME TypeOK, NEW i \in Signals, Trades(Sym[i])
  PROVE  /\ today[Sym[i]].open \in Nat \ {0} /\ today[Sym[i]].high \in Nat \ {0}
         /\ today[Sym[i]].low \in Nat \ {0} /\ today[Sym[i]].close \in Nat \ {0}
<1>1. Sym[i] \in Symbols /\ today[Sym[i]] \in Bars
  BY EngineAssumption DEF TypeOK, Trades
<1> QED
  BY <1>1, AmountAssumption

LEMMA DealFields ==
  ASSUME MoneyInv, NEW i \in Signals
  PROVE  /\ deal[i].qty \in Int /\ deal[i].entry \in Int /\ deal[i].cost \in Int
         /\ deal[i].cur \in Int /\ deal[i].exit \in Int /\ Dir[i] \in {-1, 1}
BY EngineAssumption DEF MoneyInv, Deals

LEMMA Products ==
  \A a, b, c \in Int : a * b \in Int /\ a * b * c \in Int /\ a - b \in Int /\ a + b \in Int
OBVIOUS

LEMMA Quotients == \A a \in Int : a \div 100 \in Int /\ a \div 10000 \in Int
OBVIOUS

LEMMA FeeInt == \A a \in Int : Fee(a) \in Int
BY Products, Quotients, AmountAssumption DEF Fee

(* Sums over signals of integers are integers. *)
LEMMA TotalInt ==
  ASSUME NEW S \in SUBSET Signals, NEW f, \A i \in S : f[i] \in Int
  PROVE  SumFunctionOnSet(f, S) \in Int
BY SumInt, FS_Subset, EngineAssumption

LEMMA EquityInt ==
  ASSUME MoneyInv, NEW c \in Int, NEW O \in SUBSET Signals
  PROVE  EquityOf(c, O) \in Int
<1>1. \A i \in O : Committed(i) \in Int /\ Unrealized(i) \in Int
  BY DealFields, Products DEF Committed, Unrealized
<1>2. Total(Committed, O) \in Int
  BY <1>1, TotalInt DEF Total
<1>3. Total(Unrealized, O) \in Int
  BY <1>1, TotalInt DEF Total
<1> QED
  BY <1>2, <1>3 DEF EquityOf

LEMMA ExitPriceInt ==
  ASSUME MoneyInv, NEW i \in Signals
  PROVE  ExitPrice(i) \in Int /\ LastPrice(i) \in Int
<1>1. LastPrice(i) \in Int
  BY DealFields, Prices DEF MoneyInv, LastPrice
<1>2. TargetPrice(i) \in Int /\ StopPrice(i) \in Int
  BY DealFields, Products, Quotients, AmountAssumption DEF TargetPrice, StopPrice
<1> QED
  BY <1>1, <1>2 DEF ExitPrice

LEMMA TradeInt ==
  ASSUME MoneyInv, NEW i \in Signals, NEW p \in Int
  PROVE  Proceeds(i, p) \in Int /\ NetPnl(i, p) \in Int
<1>1. deal[i].qty * p \in Int /\ Fee(deal[i].qty * p) \in Int
  BY DealFields, Products, FeeInt
<1>2. Dir[i] * (p - deal[i].entry) * deal[i].qty \in Int
  BY DealFields, Products
<1> QED
  BY <1>1, <1>2, DealFields DEF Proceeds, NetPnl

LEMMA SettleInt ==
  ASSUME MoneyInv, NEW S \in SUBSET Signals, NEW price \in [S -> Int], Settle(S, price)
  PROVE  /\ cash' \in Int /\ realized' \in Int
         /\ deal' \in [Signals -> Deals]
         /\ \A i \in Signals : i \notin S => deal'[i] = deal[i]
<1>1. \A i \in S : Proceeds(i, price[i]) \in Int /\ NetPnl(i, price[i]) \in Int
  BY TradeInt
<1>2. Total(LAMBDA i : Proceeds(i, price[i]), S) \in Int
  BY <1>1, TotalInt DEF Total
<1>3. Total(LAMBDA i : NetPnl(i, price[i]), S) \in Int
  BY <1>1, TotalInt DEF Total
<1> QED
  <2>1. cash' \in Int /\ realized' \in Int
    BY <1>2, <1>3 DEF Settle, MoneyInv, TypeOK
  <2>2. deal' = [i \in Signals |-> IF i \in S THEN [deal[i] EXCEPT !.exit = price[i]] ELSE deal[i]]
    BY DEF Settle
  <2>3. deal \in [Signals -> Deals]
    BY DEF MoneyInv
  <2>4. ASSUME NEW i \in Signals
        PROVE  /\ deal'[i] \in Deals
               /\ i \notin S => deal'[i] = deal[i]
    <3>1. CASE i \in S
      BY <2>2, <2>3, <3>1 DEF Deals
    <3>2. CASE i \notin S
      BY <2>2, <2>3, <3>2
    <3> QED
      BY <3>1, <3>2
  <2> QED
    BY <2>1, <2>2, <2>4

(* Closed trades stay closed, so a streak that does not grow stays bounded. *)
LEMMA StreakKept ==
  ASSUME MoneyInv, In("closed") \subseteq In("closed")', streak' = streak
  PROVE  streak' \in 0 .. Cardinality(Signals) /\ streak' <= Cardinality(In("closed")')
<1>1. IsFiniteSet(In("closed")')
  <2>1. In("closed")' \subseteq Signals
    BY DEF In
  <2> QED
    BY <2>1, FS_Subset, EngineAssumption
<1>2. Cardinality(In("closed")) <= Cardinality(In("closed")')
  BY <1>1, FS_Subset
<1>3. /\ Cardinality(In("closed")) \in Nat /\ Cardinality(In("closed")') \in Nat
  BY <1>1, FiniteIn, FS_CardinalityType
<1> QED
  BY <1>2, <1>3 DEF MoneyInv, TypeOK

(* MoneyInv, action by action. *)
LEMMA MoneyInit == Init => MoneyInv
<1> SUFFICES ASSUME Init PROVE MoneyInv
  OBVIOUS
<1>1. Cardinality(Signals) \in Nat /\ Cardinality(In("closed")) \in Nat
  BY FiniteIn, FS_CardinalityType, EngineAssumption
<1>2. NoBars \in [Symbols -> Bars \cup {NoBar}]
  BY DEF NoBars
<1>3. TypeOK
  BY <1>1, <1>2, EngineAssumption, AmountAssumption DEF Init, TypeOK, Stages, Phases
<1>4. NoDeal \in Deals
  BY DEF NoDeal, Deals
<1> QED
  BY <1>1, <1>3, <1>4, EngineAssumption, AmountAssumption DEF Init, MoneyInv

LEMMA MarketBarCounts == ASSUME MoneyInv, MarketBar PROVE MoneyInv'
<1>1. /\ stage = "bar" /\ stage' = "fill"
      /\ today' \in [Symbols -> Bars \cup {NoBar}]
      /\ deal' = [i \in Signals |-> Marked(i, today'[Sym[i]])]
      /\ UNCHANGED <<bar, phase, submitted, entered, cash, realized, streak, peak, dayPnl>>
  BY DEF MarketBar, Step, lifecycle
<1>2. \A i \in Signals : deal'[i] \in Deals /\ (phase[i] = "idle" => deal'[i] = deal[i])
  <2> SUFFICES ASSUME NEW i \in Signals
               PROVE  deal'[i] \in Deals /\ (phase[i] = "idle" => deal'[i] = deal[i])
    OBVIOUS
  <2>1. today'[Sym[i]] # NoBar => today'[Sym[i]].close \in Int
    BY <1>1, EngineAssumption, AmountAssumption
  <2> QED
    BY <1>1, <2>1 DEF Marked, MoneyInv, Deals
<1>3. UNCHANGED In("closed")
  BY <1>1 DEF In
<1> QED
  BY <1>1, <1>2, <1>3, StreakKept DEF MoneyInv, TypeOK, Stages

LEMMA FillPriceInt ==
  ASSUME MoneyInv, NEW i \in Ready, NEW slip \in Slips
  PROVE  FillPrice(i, slip) \in Int
<1>1. i \in Signals /\ today[Sym[i]].open \in Int
  BY Prices DEF Ready, Pending, In, MoneyInv
<1>2. slip \in Int
  BY AmountAssumption
<1> QED
  BY <1>1, <1>2, DealFields, Products, Quotients DEF FillPrice

LEMMA FillOrdersCounts == ASSUME MoneyInv, FillOrders PROVE MoneyInv'
<1> DEFINE filled == {i \in Ready : ~Late(i)}
<1>1. PICK slip \in [filled -> Slips] :
        /\ deal' = [i \in Signals |->
              IF i \in filled
              THEN [deal[i] EXCEPT !.entry = FillPrice(i, slip[i]),
                                   !.cur = FillPrice(i, slip[i]),
                                   !.cost = Fee(deal[i].qty * FillPrice(i, slip[i]))]
              ELSE deal[i]]
        /\ cash' = cash - Total(LAMBDA i : deal[i].qty * FillPrice(i, slip[i])
                                             + Fee(deal[i].qty * FillPrice(i, slip[i])), filled)
        /\ entered' = [i \in Signals |-> IF i \in filled THEN bar ELSE entered[i]]
        /\ phase' = [i \in Signals |-> IF i \in filled THEN "open"
                                       ELSE IF i \in Ready THEN "expired"
                                       ELSE phase[i]]
  BY DEF FillOrders
<1>2. stage = "fill" /\ stage' = "exit"
      /\ UNCHANGED <<bar, today, submitted, realized, streak, peak, dayPnl>>
  BY DEF FillOrders, Step
<1>3. /\ filled \subseteq Signals /\ filled \subseteq Ready
      /\ \A i \in Ready : i \in Signals /\ phase[i] = "pending"
  BY DEF Ready, Pending, In
<1>4. \A i \in filled : FillPrice(i, slip[i]) \in Int
  BY FillPriceInt
<1>5. \A i \in filled : /\ deal[i].qty * FillPrice(i, slip[i]) \in Int
                        /\ Fee(deal[i].qty * FillPrice(i, slip[i])) \in Int
  BY <1>3, <1>4, DealFields, Products, FeeInt
<1>6. Total(LAMBDA i : deal[i].qty * FillPrice(i, slip[i])
                         + Fee(deal[i].qty * FillPrice(i, slip[i])), filled) \in Int
  <2> DEFINE out == [i \in filled |-> deal[i].qty * FillPrice(i, slip[i])
                                        + Fee(deal[i].qty * FillPrice(i, slip[i]))]
  <2>1. \A i \in filled : out[i] \in Int
    BY <1>5
  <2>2. SumFunctionOnSet(out, filled) \in Int
    <3> HIDE DEF out, filled
    <3> QED
      BY <1>3, <2>1, TotalInt
  <2> QED
    BY <2>2 DEF Total
<1>7. cash' \in Int
  <2> DEFINE spent == Total(LAMBDA i : deal[i].qty * FillPrice(i, slip[i])
                                         + Fee(deal[i].qty * FillPrice(i, slip[i])), filled)
  <2>1. cash' = cash - spent /\ spent \in Int
    BY <1>1, <1>6
  <2> HIDE DEF spent
  <2> QED
    BY <2>1 DEF MoneyInv, TypeOK
<1> HIDE DEF filled
<1>8. deal' \in [Signals -> Deals]
  BY <1>1, <1>4, <1>5 DEF MoneyInv, Deals
<1>9. In("closed") = In("closed")'
  BY <1>1, <1>3 DEF In
<1>10. phase' \in [Signals -> Phases] /\ entered' \in [Signals -> 0 .. MaxBars]
  BY <1>1 DEF MoneyInv, TypeOK, Phases
<1>11. \A i \in Signals : phase'[i] = "idle" => deal'[i] = NoDeal
  BY <1>1 DEF MoneyInv, TypeOK
<1> QED
  BY <1>2, <1>7, <1>8, <1>9, <1>10, <1>11, StreakKept DEF MoneyInv, TypeOK, Stages

(* The streak grows by the number of trades that close, at most. *)
LEMMA StreakCounts ==
  ASSUME MoneyInv, NEW S \in SUBSET Open, NEW L \in SUBSET S,
         In("closed")' = In("closed") \cup S, streak' \in Streaks(S, L)
  PROVE  streak' \in 0 .. Cardinality(Signals) /\ streak' <= Cardinality(In("closed")')
<1>1. /\ IsFiniteSet(S) /\ IsFiniteSet(L) /\ IsFiniteSet(In("closed"))
      /\ In("closed") \cup S \in SUBSET Signals /\ In("closed") \cap S = {}
  <2>1. S \subseteq Signals /\ L \subseteq Signals /\ In("closed") \cap S = {}
    BY DEF Open, In
  <2> QED
    BY <2>1, FiniteIn, FS_Subset, EngineAssumption
<1>2. Cardinality(In("closed") \cup S) = Cardinality(In("closed")) + Cardinality(S)
  <2>1. Cardinality(In("closed") \cup S) =
          Cardinality(In("closed")) + Cardinality(S) - Cardinality(In("closed") \cap S)
    BY <1>1, FS_Union
  <2>2. Cardinality(In("closed") \cap S) = 0
    BY <1>1, FS_EmptySet
  <2>3. Cardinality(In("closed")) \in Nat /\ Cardinality(S) \in Nat
    BY <1>1, FS_CardinalityType
  <2> QED
    BY <2>1, <2>2, <2>3
<1>3. Cardinality(In("closed") \cup S) <= Cardinality(Signals) /\ Cardinality(L) <= Cardinality(S)
  BY <1>1, FS_Subset, EngineAssumption
<1>4. /\ Cardinality(In("closed")) \in Nat /\ Cardinality(S) \in Nat
      /\ Cardinality(L) \in Nat /\ Cardinality(Signals) \in Nat
  BY <1>1, FS_CardinalityType, EngineAssumption
<1>5. streak \in Nat /\ streak <= Cardinality(In("closed"))
  BY <1>4 DEF MoneyInv, TypeOK
<1>6. streak' \in 0 .. Cardinality(In("closed") \cup S)
  <2>1. CASE L = S
    BY <1>2, <1>4, <1>5, <2>1 DEF Streaks
  <2>2. CASE L # S
    BY <1>2, <1>3, <1>4, <2>2 DEF Streaks
  <2> QED
    BY <2>1, <2>2
<1>7. Cardinality(In("closed")') = Cardinality(In("closed") \cup S)
  OBVIOUS
<1> QED
  BY <1>2, <1>3, <1>4, <1>6, <1>7

LEMMA ClosePositionsCounts == ASSUME MoneyInv, ClosePositions PROVE MoneyInv'
<1> DEFINE closing == {i \in Open : TargetHit(i) \/ StopHit(i) \/ TimeUp(i)}
           price == [i \in closing |-> ExitPrice(i)]
           losses == {i \in closing : NetPnl(i, price[i]) < 0}
<1>1. /\ stage = "exit" /\ stage' = "signal"
      /\ UNCHANGED <<bar, today, submitted, entered, peak, dayPnl>>
      /\ phase' = [i \in Signals |-> IF i \in closing THEN "closed" ELSE phase[i]]
      /\ Settle(closing, price)
      /\ streak' \in Streaks(closing, losses)
  BY DEF ClosePositions, Step
<1>2. closing \in SUBSET Open /\ losses \in SUBSET closing
  OBVIOUS
<1>3. \A i \in closing : i \in Signals /\ phase[i] = "open"
  BY DEF Open, In
<1>4. price \in [closing -> Int]
  BY <1>3, ExitPriceInt
<1> HIDE DEF closing, price, losses
<1>5. /\ cash' \in Int /\ realized' \in Int /\ deal' \in [Signals -> Deals]
      /\ \A i \in Signals : i \notin closing => deal'[i] = deal[i]
  <2>1. closing \in SUBSET Signals
    BY <1>3
  <2> QED
    BY <1>1, <1>4, <2>1, SettleInt
<1>6. In("closed")' = In("closed") \cup closing
  BY <1>1, <1>3 DEF In
<1>7. phase' \in [Signals -> Phases] /\ \A i \in Signals : phase'[i] = "idle" => deal'[i] = NoDeal
  BY <1>1, <1>5 DEF MoneyInv, TypeOK, Phases
<1> QED
  BY <1>1, <1>2, <1>5, <1>6, <1>7, StreakCounts DEF MoneyInv, TypeOK, Stages

LEMMA OpposingOpen == \A i, j : j \in Opposing(i) => j \in Signals /\ phase[j] = "open"
BY DEF Opposing, Opposed, OpenOn, Open, In

LEMMA CloseOppositeCounts ==
  ASSUME MoneyInv, NEW i \in Signals, CloseOpposite(i) PROVE MoneyInv'
<1> DEFINE price == [j \in Opposing(i) |-> LastPrice(j)]
<1>1. /\ stage = "signal" /\ UNCHANGED <<stage, bar, today, submitted, entered, streak, peak, dayPnl>>
      /\ phase' = [j \in Signals |-> IF j \in Opposing(i) THEN "closed" ELSE phase[j]]
      /\ Settle(Opposing(i), price)
  BY DEF CloseOpposite
<1>2. price \in [Opposing(i) -> Int] /\ Opposing(i) \in SUBSET Signals
  BY OpposingOpen, ExitPriceInt
<1> HIDE DEF price
<1>3. /\ cash' \in Int /\ realized' \in Int /\ deal' \in [Signals -> Deals]
      /\ \A j \in Signals : j \notin Opposing(i) => deal'[j] = deal[j]
  BY <1>1, <1>2, SettleInt
<1>4. In("closed") \subseteq In("closed")'
  BY <1>1 DEF In
<1>5. phase' \in [Signals -> Phases] /\ \A j \in Signals : phase'[j] = "idle" => deal'[j] = NoDeal
  BY <1>1, <1>3 DEF MoneyInv, TypeOK, Phases
<1> QED
  BY <1>1, <1>3, <1>4, <1>5, StreakKept DEF MoneyInv, TypeOK

(* The size of an order is a whole number of shares: both divisors of the   *)
(* allocation are positive.                                                 *)
LEMMA AllottedInt ==
  ASSUME MoneyInv, NEW i \in Signals
  PROVE  Allotted(i) \in Int /\ AfterClosing(i) \in Int
<1> DEFINE paid == Total(LAMBDA j : Proceeds(j, LastPrice(j)), Opposing(i))
           left == Open \ Opposing(i)
           slots == Most(MaxPositions - Cardinality(left), 1)
<1>1. \A j \in Opposing(i) : Proceeds(j, LastPrice(j)) \in Int
  BY OpposingOpen, ExitPriceInt, TradeInt
<1>2. paid \in Int
  <2>1. Opposing(i) \in SUBSET Signals
    BY OpposingOpen
  <2> QED
    BY <1>1, <2>1, TotalInt DEF Total
<1>3. AfterClosing(i) \in Int
  <2>1. AfterClosing(i) = cash + paid
    BY DEF AfterClosing
  <2> HIDE DEF paid
  <2> QED
    BY <1>2, <2>1 DEF MoneyInv, TypeOK
<1>4. left \in SUBSET Signals /\ slots \in Nat \ {0}
  <2>1. left \in SUBSET Signals
    BY DEF Open, In
  <2>2. Cardinality(left) \in Nat
    BY <2>1, FS_Subset, FS_CardinalityType, EngineAssumption
  <2> HIDE DEF left
  <2> QED
    BY <2>1, <2>2, EngineAssumption DEF Most
<1>5. EquityOf(AfterClosing(i), left) \in Int
  BY <1>3, <1>4, EquityInt
<1>6. Most(AfterClosing(i), 0) \div slots \in Int
  <2>1. Most(AfterClosing(i), 0) \in Int
    BY <1>3 DEF Most
  <2> HIDE DEF slots
  <2> QED
    BY <1>4, <2>1
<1>7. (EquityOf(AfterClosing(i), left) * CapPct) \div 100 \in Int
  BY <1>5, Products, Quotients, AmountAssumption
<1>8. Allotted(i) \in Int
  <2>1. Allotted(i) = Most(0, Least(Most(AfterClosing(i), 0) \div slots,
                                    (EquityOf(AfterClosing(i), left) * CapPct) \div 100))
    BY DEF Allotted, Allocation
  <2> QED
    BY <1>6, <1>7, <2>1 DEF Most, Least
<1> QED
  BY <1>3, <1>8

LEMMA SubmitOrderCounts ==
  ASSUME MoneyInv, NEW i \in Signals, SubmitOrder(i) PROVE MoneyInv'
<1> DEFINE net == Total(LAMBDA j : NetPnl(j, LastPrice(j)), Opposing(i))
           qty == Most(1, Allotted(i) \div today[Sym[i]].close)
<1>1. /\ stage = "signal" /\ UNCHANGED <<stage, bar, today, entered, streak, peak, dayPnl>>
      /\ phase' = [j \in Signals |-> IF j \in Opposing(i) THEN "closed"
                                     ELSE IF j = i THEN "pending" ELSE phase[j]]
      /\ submitted' = [submitted EXCEPT ![i] = bar]
      /\ cash' = AfterClosing(i)
      /\ realized' = realized + net
      /\ deal' = [j \in Signals |->
            IF j \in Opposing(i) THEN [deal[j] EXCEPT !.exit = LastPrice(j)]
            ELSE IF j = i THEN [NoDeal EXCEPT !.qty = qty]
            ELSE deal[j]]
  BY DEF SubmitOrder
<1>2. phase[i] = "idle" /\ Trades(Sym[i])
  BY DEF SubmitOrder, Eligible, Orderable
<1>3. qty \in Int
  <2>1. Allotted(i) \in Int /\ today[Sym[i]].close \in Nat \ {0}
    BY <1>2, AllottedInt, Prices DEF MoneyInv
  <2>2. Allotted(i) \div today[Sym[i]].close \in Int
    BY <2>1
  <2> QED
    BY <2>2 DEF Most
<1>4. net \in Int
  <2>1. \A j \in Opposing(i) : NetPnl(j, LastPrice(j)) \in Int
    BY OpposingOpen, ExitPriceInt, TradeInt
  <2>2. Opposing(i) \in SUBSET Signals
    BY OpposingOpen
  <2> QED
    BY <2>1, <2>2, TotalInt DEF Total
<1> HIDE DEF net, qty
<1>5. cash' \in Int /\ realized' \in Int
  BY <1>1, <1>4, AllottedInt DEF MoneyInv, TypeOK
<1>6. deal' \in [Signals -> Deals]
  <2>1. \A j \in Opposing(i) : LastPrice(j) \in Int
    BY OpposingOpen, ExitPriceInt
  <2> QED
    BY <1>1, <1>3, <2>1 DEF MoneyInv, Deals, NoDeal
<1>7. In("closed") \subseteq In("closed")'
  BY <1>1, <1>2 DEF In
<1>8. phase' \in [Signals -> Phases] /\ \A j \in Signals : phase'[j] = "idle" => deal'[j] = NoDeal
  BY <1>1 DEF MoneyInv, TypeOK, Phases
<1>9. submitted' \in [Signals -> 0 .. MaxBars]
  BY <1>1 DEF MoneyInv, TypeOK
<1> QED
  BY <1>1, <1>5, <1>6, <1>7, <1>8, <1>9, StreakKept DEF MoneyInv, TypeOK

LEMMA RecordEquityCounts == ASSUME MoneyInv, RecordEquity PROVE MoneyInv'
<1>1. /\ stage = "signal" /\ stage' \in {"bar", "final"} /\ bar' = bar + 1
      /\ stage' = "bar" => bar + 1 < MaxBars
      /\ today' \in {NoBars, today} /\ peak' = Most(peak, Equity)
      /\ dayPnl' \in {Equity - InitialCapital, 0}
      /\ UNCHANGED <<phase, submitted, entered, deal, cash, realized, streak>>
  BY DEF RecordEquity, NewPeak, lifecycle, money
<1>2. Equity \in Int
  <2>1. Open \in SUBSET Signals /\ cash \in Int
    BY DEF Open, In, MoneyInv, TypeOK
  <2> QED
    BY <2>1, EquityInt DEF Equity
<1>3. peak' \in Int /\ InitialCapital <= peak' /\ dayPnl' \in Int
  <2>1. peak \in Int /\ InitialCapital <= peak /\ InitialCapital \in Int
    BY AmountAssumption DEF MoneyInv, TypeOK
  <2> QED
    BY <1>1, <1>2, <2>1 DEF Most
<1>4. UNCHANGED In("closed")
  BY <1>1 DEF In
<1>5. bar' \in 0 .. MaxBars
  BY <1>1, EngineAssumption DEF MoneyInv, TypeOK
<1>6. today' \in [Symbols -> Bars \cup {NoBar}]
  BY <1>1 DEF MoneyInv, TypeOK, NoBars
<1> QED
  BY <1>1, <1>3, <1>4, <1>5, <1>6, StreakKept DEF MoneyInv, TypeOK, Stages

LEMMA FinishRunCounts == ASSUME MoneyInv, FinishRun PROVE MoneyInv'
<1> DEFINE closing == {i \in Open : Trades(Sym[i])}
           price == [i \in closing |-> LastPrice(i)]
<1>1. /\ stage' = "done" /\ UNCHANGED <<bar, today, submitted, entered, streak, peak, dayPnl>>
      /\ phase' = [i \in Signals |-> IF i \in closing THEN "closed"
                                     ELSE IF i \in Open THEN "dropped" ELSE phase[i]]
      /\ Settle(closing, price)
  BY DEF FinishRun, Step
<1>2. closing \in SUBSET Signals /\ \A i \in Open : phase[i] = "open"
  BY DEF Open, In
<1>3. price \in [closing -> Int]
  BY <1>2, ExitPriceInt
<1> HIDE DEF closing, price
<1>4. /\ cash' \in Int /\ realized' \in Int /\ deal' \in [Signals -> Deals]
      /\ \A i \in Signals : i \notin closing => deal'[i] = deal[i]
  BY <1>1, <1>2, <1>3, SettleInt
<1>5. In("closed") \subseteq In("closed")'
  BY <1>1, <1>2 DEF In
<1>6. phase' \in [Signals -> Phases] /\ \A i \in Signals : phase'[i] = "idle" => deal'[i] = NoDeal
  BY <1>1, <1>4 DEF MoneyInv, TypeOK, Phases
<1> QED
  BY <1>1, <1>4, <1>5, <1>6, StreakKept DEF MoneyInv, TypeOK, Stages

LEMMA MoneyStutter == ASSUME MoneyInv, UNCHANGED vars PROVE MoneyInv'
<1>1. UNCHANGED <<stage, bar, today, phase, submitted, entered, deal, cash, realized, streak, peak, dayPnl>>
  BY DEF vars, lifecycle, money
<1>2. UNCHANGED In("closed")
  BY <1>1 DEF In
<1> QED
  BY <1>1, <1>2 DEF MoneyInv, TypeOK

(* Every amount stays a whole number and the bounds of TypeOK hold. *)
THEOREM MoneyInvariant == Spec => []MoneyInv
<1>1. MoneyInv /\ [Next]_vars => MoneyInv'
  BY MarketBarCounts, FillOrdersCounts, ClosePositionsCounts, CloseOppositeCounts,
     SubmitOrderCounts, RecordEquityCounts, FinishRunCounts, MoneyStutter DEF Next
<1> QED
  BY MoneyInit, <1>1, PTL DEF Spec

-----------------------------------------------------------------------------
(* Each signal's share of the account: what it holds, and what closing a    *)
(* short misplaced.                                                         *)
IsHeld(i) == phase[i] \in {"open", "dropped"}
IsShort(i) == phase[i] = "closed" /\ Dir[i] = -1
ShortMove(i) == deal[i].qty * (deal[i].exit - deal[i].entry)
Held == [i \in Signals |-> IF IsHeld(i) THEN Committed(i) + deal[i].cost ELSE 0]
Misplaced == [i \in Signals |-> IF IsShort(i) THEN ShortMove(i) + ShortMove(i) ELSE 0]
Balance ==
  cash + SumFunctionOnSet(Held, Signals)
    = InitialCapital + realized + SumFunctionOnSet(Misplaced, Signals)

LEMMA SharesInt ==
  ASSUME MoneyInv, NEW i \in Signals
  PROVE  /\ Committed(i) \in Int /\ ShortMove(i) \in Int
         /\ Held[i] \in Int /\ Misplaced[i] \in Int
<1>1. Committed(i) \in Int /\ ShortMove(i) \in Int
  BY DealFields, Products DEF Committed, ShortMove
<1> QED
  BY <1>1, DealFields DEF Held, Misplaced

(* A share that is not zero only on H sums up to the sum over H. *)
LEMMA HeldIs ==
  ASSUME MoneyInv, NEW H \in SUBSET Signals, \A i \in Signals : i \in H <=> IsHeld(i)
  PROVE  /\ SumFunctionOnSet([i \in H |-> Committed(i)], H) \in Int
         /\ SumFunctionOnSet([i \in H |-> deal[i].cost], H) \in Int
         /\ SumFunctionOnSet(Held, Signals) =
              SumFunctionOnSet([i \in H |-> Committed(i)], H)
                + SumFunctionOnSet([i \in H |-> deal[i].cost], H)
<1> DEFINE f == [i \in H |-> Committed(i)]
           g == [i \in H |-> deal[i].cost]
           F == [i \in Signals |-> IF i \in H THEN f[i] ELSE 0]
           G == [i \in Signals |-> IF i \in H THEN g[i] ELSE 0]
<1>1. \A i \in H : f[i] \in Int /\ g[i] \in Int
  BY SharesInt, DealFields
<1>2. \A i \in Signals : F[i] \in Int /\ G[i] \in Int /\ Held[i] = F[i] + G[i]
  BY <1>1, SharesInt, DealFields DEF Held
<1> HIDE DEF f, g
<1>3. SumFunctionOnSet(f, H) = SumFunctionOnSet(F, Signals)
  BY <1>1, SumExtend, EngineAssumption
<1>4. SumFunctionOnSet(g, H) = SumFunctionOnSet(G, Signals)
  BY <1>1, SumExtend, EngineAssumption
<1>5. SumFunctionOnSet(Held, Signals) = SumFunctionOnSet(F, Signals) + SumFunctionOnSet(G, Signals)
  <2> HIDE DEF F, G
  <2> QED
    BY <1>2, SumPlus, EngineAssumption
<1>6. SumFunctionOnSet(f, H) \in Int /\ SumFunctionOnSet(g, H) \in Int
  BY <1>1, TotalInt
<1> QED
  BY <1>3, <1>4, <1>5, <1>6 DEF f, g

LEMMA MisplacedIs ==
  ASSUME MoneyInv, NEW H \in SUBSET Signals, \A i \in Signals : i \in H <=> IsShort(i)
  PROVE  /\ SumFunctionOnSet([i \in H |-> ShortMove(i)], H) \in Int
         /\ SumFunctionOnSet(Misplaced, Signals) =
              SumFunctionOnSet([i \in H |-> ShortMove(i)], H)
                + SumFunctionOnSet([i \in H |-> ShortMove(i)], H)
<1> DEFINE f == [i \in H |-> ShortMove(i)]
           F == [i \in Signals |-> IF i \in H THEN f[i] ELSE 0]
<1>1. \A i \in H : f[i] \in Int
  BY SharesInt
<1>2. \A i \in Signals : F[i] \in Int /\ Misplaced[i] = F[i] + F[i]
  BY <1>1, SharesInt DEF Misplaced
<1> HIDE DEF f
<1>3. SumFunctionOnSet(f, H) = SumFunctionOnSet(F, Signals)
  BY <1>1, SumExtend, EngineAssumption
<1>5. SumFunctionOnSet(Misplaced, Signals) = SumFunctionOnSet(F, Signals) + SumFunctionOnSet(F, Signals)
  <2> HIDE DEF F
  <2> QED
    BY <1>2, SumPlus, EngineAssumption
<1>6. SumFunctionOnSet(f, H) \in Int
  BY <1>1, TotalInt
<1> QED
  BY <1>3, <1>5, <1>6 DEF f

(* The shares of Balance are the sums of CashExplained. *)
LEMMA BalanceExplains == ASSUME MoneyInv, Balance PROVE CashExplained
<1> DEFINE held == Open \cup In("dropped")
           shorts == {i \in In("closed") : Dir[i] = -1}
           C == SumFunctionOnSet([i \in held |-> Committed(i)], held)
           K == SumFunctionOnSet([i \in held |-> deal[i].cost], held)
           M == SumFunctionOnSet([i \in shorts |-> ShortMove(i)], shorts)
<1>1. C \in Int /\ K \in Int /\ SumFunctionOnSet(Held, Signals) = C + K
  <2>1. held \in SUBSET Signals /\ \A i \in Signals : i \in held <=> IsHeld(i)
    BY DEF IsHeld, Open, In
  <2> HIDE DEF held
  <2> QED
    BY <2>1, HeldIs
<1>2. M \in Int /\ SumFunctionOnSet(Misplaced, Signals) = M + M
  <2>1. shorts \in SUBSET Signals /\ \A i \in Signals : i \in shorts <=> IsShort(i)
    BY DEF IsShort, In
  <2> HIDE DEF shorts
  <2> QED
    BY <2>1, MisplacedIs
<1>3. CashExplained <=> cash + C = InitialCapital + realized - K + 2 * M
  BY DEF CashExplained, Total, ShortMove
<1> HIDE DEF C, K, M
<1> QED
  BY <1>1, <1>2, <1>3, AmountAssumption DEF Balance, MoneyInv, TypeOK

(* A closing trade of a long pays back what it holds and its result; that   *)
(* of a short misplaces twice the move.                                     *)
LEMMA TradeBalances ==
  ASSUME MoneyInv, NEW i \in Signals, NEW p \in Int
  PROVE  Proceeds(i, p) =
           Committed(i) + deal[i].cost + NetPnl(i, p)
             + IF Dir[i] = -1 THEN deal[i].qty * (p - deal[i].entry) + deal[i].qty * (p - deal[i].entry)
                              ELSE 0
<1> DEFINE q == deal[i].qty
           e == deal[i].entry
           fee == Fee(q * p)
<1>1. q \in Int /\ e \in Int /\ fee \in Int /\ deal[i].cost \in Int /\ Dir[i] \in {-1, 1}
  BY DealFields, Products, FeeInt
<1>2. /\ Proceeds(i, p) = q * p - fee
      /\ Committed(i) = q * e
      /\ NetPnl(i, p) = Dir[i] * (p - e) * q - deal[i].cost - fee
  BY DEF Proceeds, Committed, NetPnl
<1> HIDE DEF q, e, fee
<1>3. q * (p - e) = q * p - q * e /\ 1 * (p - e) * q = q * p - q * e /\ -1 * (p - e) * q = q * e - q * p
  BY <1>1
<1>4. q * p \in Int /\ q * e \in Int
  BY <1>1
<1>5. CASE Dir[i] = 1
  BY <1>1, <1>2, <1>3, <1>4, <1>5
<1>6. CASE Dir[i] = -1
  <2>1. Proceeds(i, p) = Committed(i) + deal[i].cost + NetPnl(i, p) + (q * (p - e) + q * (p - e))
    BY <1>1, <1>2, <1>3, <1>4, <1>6
  <2> QED
    BY <1>6, <2>1 DEF q, e
<1> QED
  BY <1>1, <1>5, <1>6

(* The arithmetic of an equation of which both sides move. *)
Balanced(c, r, held, misplaced) == c + held = InitialCapital + r + misplaced
Moved(paid, netted, held, heldNow, misplaced, misplacedNow) ==
  heldNow + paid + misplaced = held + netted + misplacedNow

LEMMA MovedBalance ==
  ASSUME NEW c \in Int, NEW r \in Int,
         NEW held \in Int, NEW heldNow \in Int, NEW misplaced \in Int, NEW misplacedNow \in Int,
         NEW paid \in Int, NEW netted \in Int,
         Balanced(c, r, held, misplaced),
         Moved(paid, netted, held, heldNow, misplaced, misplacedNow)
  PROVE  Balanced(c + paid, r + netted, heldNow, misplacedNow)
<1>1. InitialCapital \in Int
  BY AmountAssumption
<1> QED
  BY <1>1 DEF Balanced, Moved

(* The trades of C close at these prices and nothing else moves money. *)
LEMMA TradesBalance ==
  ASSUME MoneyInv, MoneyInv', Balance, NEW C \in SUBSET Open, NEW price \in [C -> Int],
         cash' = cash + SumFunctionOnSet([i \in C |-> Proceeds(i, price[i])], C),
         realized' = realized + SumFunctionOnSet([i \in C |-> NetPnl(i, price[i])], C),
         \A i \in C : /\ phase'[i] = "closed" /\ deal'[i].exit = price[i]
                      /\ deal'[i].qty = deal[i].qty /\ deal'[i].entry = deal[i].entry,
         \A i \in Signals \ C :
           /\ IsHeld(i)' <=> IsHeld(i)
           /\ IsShort(i)' <=> IsShort(i)
           /\ IsHeld(i) \/ IsShort(i) => deal'[i] = deal[i]
  PROVE  Balance'
<1> DEFINE pay == [i \in C |-> Proceeds(i, price[i])]
           net == [i \in C |-> NetPnl(i, price[i])]
           Pay == [i \in Signals |-> IF i \in C THEN pay[i] ELSE 0]
           Net == [i \in Signals |-> IF i \in C THEN net[i] ELSE 0]
           Sum(f) == SumFunctionOnSet(f, Signals)
<1>1. C \in SUBSET Signals /\ \A i \in C : phase[i] = "open"
  BY DEF Open, In
<1>2. \A i \in C : pay[i] \in Int /\ net[i] \in Int
  BY <1>1, TradeInt
<1>3. SumFunctionOnSet(pay, C) = Sum(Pay) /\ SumFunctionOnSet(net, C) = Sum(Net)
  <2> HIDE DEF pay, net
  <2> QED
    BY <1>1, <1>2, SumExtend, EngineAssumption
<1>4. \A i \in Signals : /\ Pay[i] \in Int /\ Net[i] \in Int
                         /\ Held[i] \in Int /\ Misplaced[i] \in Int
                         /\ Held'[i] \in Int /\ Misplaced'[i] \in Int
  <2>1. \A i \in Signals : Held[i] \in Int /\ Misplaced[i] \in Int
    BY SharesInt
  <2>2. \A i \in Signals : Held'[i] \in Int /\ Misplaced'[i] \in Int
    <3> SUFFICES ASSUME NEW i \in Signals PROVE Held'[i] \in Int /\ Misplaced'[i] \in Int
      OBVIOUS
    <3>1. /\ deal'[i].qty \in Int /\ deal'[i].entry \in Int /\ deal'[i].cost \in Int
          /\ deal'[i].exit \in Int
      BY DEF MoneyInv, Deals
    <3>2. Committed(i)' \in Int /\ ShortMove(i)' \in Int
      BY <3>1, Products DEF Committed, ShortMove
    <3> QED
      BY <3>1, <3>2 DEF Held, Misplaced
  <2> QED
    BY <1>2, <2>1, <2>2
<1>5. ASSUME NEW i \in Signals
      PROVE  Held'[i] + Pay[i] + Misplaced[i] = Held[i] + Net[i] + Misplaced'[i]
  <2>1. CASE i \in C
    <3>1. /\ Held[i] = Committed(i) + deal[i].cost /\ Misplaced[i] = 0 /\ Held'[i] = 0
          /\ Pay[i] = Proceeds(i, price[i]) /\ Net[i] = NetPnl(i, price[i])
      BY <1>1, <2>1 DEF Held, Misplaced, IsHeld, IsShort
    <3>2. Misplaced'[i] = IF Dir[i] = -1 THEN ShortMove(i)' + ShortMove(i)' ELSE 0
      BY <2>1 DEF Misplaced, IsShort
    <3>3. ShortMove(i)' = deal[i].qty * (price[i] - deal[i].entry)
      BY <2>1 DEF ShortMove
    <3>4. Pay[i] = Held[i] + Net[i] + Misplaced'[i]
      BY <2>1, <3>1, <3>2, <3>3, TradeBalances
    <3> HIDE DEF Pay, Net
    <3> QED
      BY <1>4, <3>1, <3>4
  <2>2. CASE i \notin C
    <3>1. Pay[i] = 0 /\ Net[i] = 0
      BY <2>2
    <3>2. Held'[i] = Held[i] /\ Misplaced'[i] = Misplaced[i]
      BY <2>2 DEF Held, Misplaced, Committed, ShortMove
    <3> HIDE DEF Pay, Net
    <3> QED
      BY <1>4, <3>1, <3>2
  <2> QED
    BY <2>1, <2>2
<1> HIDE DEF pay, net, Pay, Net
<1>6. Sum(Held') + Sum(Pay) + Sum(Misplaced) = Sum(Held) + Sum(Net) + Sum(Misplaced')
  BY <1>4, <1>5, SumBalance, EngineAssumption
<1>7. /\ Sum(Held') \in Int /\ Sum(Pay) \in Int /\ Sum(Misplaced) \in Int
      /\ Sum(Held) \in Int /\ Sum(Net) \in Int /\ Sum(Misplaced') \in Int
  BY <1>4, SumInt, EngineAssumption
<1>8. cash' = cash + Sum(Pay) /\ realized' = realized + Sum(Net)
  BY <1>3 DEF pay, net
<1>9. cash + Sum(Held) = InitialCapital + realized + Sum(Misplaced)
  BY DEF Balance
<1>10. cash \in Int /\ realized \in Int /\ InitialCapital \in Int
  BY AmountAssumption DEF MoneyInv, TypeOK
<1> DEFINE held == Sum(Held)
           heldNow == Sum(Held')
           misplaced == Sum(Misplaced)
           misplacedNow == Sum(Misplaced')
           paid == Sum(Pay)
           netted == Sum(Net)
<1>11. cash' + heldNow = InitialCapital + realized' + misplacedNow
  <2> HIDE DEF held, heldNow, misplaced, misplacedNow, paid, netted
  <2>1. heldNow + paid + misplaced = held + netted + misplacedNow
    BY <1>6 DEF held, heldNow, misplaced, misplacedNow, paid, netted
  <2>2. /\ heldNow \in Int /\ paid \in Int /\ misplaced \in Int
        /\ held \in Int /\ netted \in Int /\ misplacedNow \in Int
    BY <1>7 DEF held, heldNow, misplaced, misplacedNow, paid, netted
  <2>3. cash' = cash + paid /\ realized' = realized + netted
    BY <1>8 DEF paid, netted
  <2>4. cash + held = InitialCapital + realized + misplaced
    BY <1>9 DEF held, misplaced
  <2> QED
    <3>1. Moved(paid, netted, held, heldNow, misplaced, misplacedNow)
      BY <2>1 DEF Moved
    <3>2. Balanced(cash, realized, held, misplaced)
      BY <2>4 DEF Balanced
    <3>3. Balanced(cash + paid, realized + netted, heldNow, misplacedNow)
      BY <1>10, <2>2, <3>1, <3>2, MovedBalance
    <3>4. Balanced(cash', realized', heldNow, misplacedNow)
      BY <2>3, <3>3
    <3> QED
      BY <3>4 DEF Balanced
<1> QED
  BY <1>11 DEF Balance

(* Settle with the phases that go with it. *)
LEMMA SettleBalances ==
  ASSUME MoneyInv, MoneyInv', Balance, NEW C \in SUBSET Open, NEW price \in [C -> Int],
         Settle(C, price),
         \A i \in C : phase'[i] = "closed",
         \A i \in Signals \ C : (IsHeld(i)' <=> IsHeld(i)) /\ (IsShort(i)' <=> IsShort(i))
  PROVE  Balance'
<1>1. C \in SUBSET Signals
  BY DEF Open, In
<1>2. /\ cash' = cash + SumFunctionOnSet([i \in C |-> Proceeds(i, price[i])], C)
      /\ realized' = realized + SumFunctionOnSet([i \in C |-> NetPnl(i, price[i])], C)
      /\ deal' = [i \in Signals |-> IF i \in C THEN [deal[i] EXCEPT !.exit = price[i]] ELSE deal[i]]
  BY DEF Settle, Total
<1>3. \A i \in C : /\ phase'[i] = "closed" /\ deal'[i].exit = price[i]
                   /\ deal'[i].qty = deal[i].qty /\ deal'[i].entry = deal[i].entry
  BY <1>1, <1>2 DEF MoneyInv, Deals
<1>4. \A i \in Signals \ C :
        /\ IsHeld(i)' <=> IsHeld(i)
        /\ IsShort(i)' <=> IsShort(i)
        /\ IsHeld(i) \/ IsShort(i) => deal'[i] = deal[i]
  BY <1>2
<1>5. cash' = cash + SumFunctionOnSet([i \in C |-> Proceeds(i, price[i])], C)
  BY <1>2
<1>6. realized' = realized + SumFunctionOnSet([i \in C |-> NetPnl(i, price[i])], C)
  BY <1>2
<1> QED
  BY <1>3, <1>4, <1>5, <1>6, TradesBalance

(* A step that moves no share keeps the equation. *)
LEMMA BalanceKept ==
  ASSUME Balance, cash' = cash, realized' = realized,
         \A i \in Signals : Held'[i] = Held[i] /\ Misplaced'[i] = Misplaced[i]
  PROVE  Balance'
<1>1. Held' = Held /\ Misplaced' = Misplaced
  BY DEF Held, Misplaced
<1> QED
  BY <1>1 DEF Balance

LEMMA BalanceInit == Init => Balance
<1> SUFFICES ASSUME Init PROVE Balance
  OBVIOUS
<1> DEFINE zero == [i \in Signals |-> 0]
<1>1. Held = zero /\ Misplaced = zero
  BY DEF Init, Held, Misplaced, IsHeld, IsShort
<1>2. SumFunctionOnSet(zero, Signals) \in Int
  BY SumInt, EngineAssumption
<1> HIDE DEF zero
<1> QED
  BY <1>1, <1>2, AmountAssumption DEF Init, Balance

LEMMA MarketBarBalances == ASSUME MoneyInv, Balance, MarketBar PROVE Balance'
<1>1. /\ deal' = [i \in Signals |-> Marked(i, today'[Sym[i]])]
      /\ UNCHANGED <<phase, cash, realized>>
  BY DEF MarketBar, lifecycle
<1>2. \A i \in Signals : /\ deal'[i].qty = deal[i].qty /\ deal'[i].entry = deal[i].entry
                         /\ deal'[i].cost = deal[i].cost /\ deal'[i].exit = deal[i].exit
  BY <1>1 DEF Marked, MoneyInv, Deals
<1>3. \A i \in Signals : Held'[i] = Held[i] /\ Misplaced'[i] = Misplaced[i]
  BY <1>1, <1>2 DEF Held, Misplaced, IsHeld, IsShort, Committed, ShortMove
<1> QED
  BY <1>1, <1>3, BalanceKept

LEMMA FillOrdersBalances ==
  ASSUME MoneyInv, MoneyInv', Balance, FillOrders PROVE Balance'
<1> DEFINE filled == {i \in Ready : ~Late(i)}
<1>1. PICK slip \in [filled -> Slips] :
        /\ deal' = [i \in Signals |->
              IF i \in filled
              THEN [deal[i] EXCEPT !.entry = FillPrice(i, slip[i]),
                                   !.cur = FillPrice(i, slip[i]),
                                   !.cost = Fee(deal[i].qty * FillPrice(i, slip[i]))]
              ELSE deal[i]]
        /\ cash' = cash - Total(LAMBDA i : deal[i].qty * FillPrice(i, slip[i])
                                             + Fee(deal[i].qty * FillPrice(i, slip[i])), filled)
        /\ phase' = [i \in Signals |-> IF i \in filled THEN "open"
                                       ELSE IF i \in Ready THEN "expired"
                                       ELSE phase[i]]
  BY DEF FillOrders
<1> DEFINE out == [i \in filled |-> deal[i].qty * FillPrice(i, slip[i])
                                      + Fee(deal[i].qty * FillPrice(i, slip[i]))]
           Out == [i \in Signals |-> IF i \in filled THEN out[i] ELSE 0]
           spent == SumFunctionOnSet(Out, Signals)
           held == SumFunctionOnSet(Held, Signals)
<1>2. realized' = realized
  BY DEF FillOrders
<1>3. filled \in SUBSET Signals /\ filled \subseteq Ready /\ \A i \in Ready : phase[i] = "pending"
  BY DEF Ready, Pending, In
<1>4. \A i \in filled : out[i] \in Int
  <2> SUFFICES ASSUME NEW i \in filled PROVE out[i] \in Int
    OBVIOUS
  <2>1. deal[i].qty * FillPrice(i, slip[i]) \in Int
    BY <1>3, FillPriceInt, DealFields, Products
  <2> QED
    BY <2>1, FeeInt
<1>5. cash' = cash - spent
  <2>1. cash' = cash - SumFunctionOnSet(out, filled)
    BY <1>1 DEF Total
  <2>2. SumFunctionOnSet(out, filled) = spent
    <3> HIDE DEF out
    <3> QED
      BY <1>3, <1>4, SumExtend, EngineAssumption
  <2> QED
    BY <2>1, <2>2
<1>6. ASSUME NEW i \in Signals
      PROVE  Held'[i] = Held[i] + Out[i] /\ Misplaced'[i] = Misplaced[i]
  <2>1. Held[i] \in Int /\ Misplaced[i] \in Int
    BY SharesInt
  <2>2. CASE i \in filled
    <3>1. Held[i] = 0 /\ Misplaced[i] = 0 /\ Misplaced'[i] = 0
      BY <1>1, <1>3, <2>2 DEF Held, Misplaced, IsHeld, IsShort
    <3>2. Held'[i] = Committed(i)' + deal'[i].cost
      BY <1>1, <2>2 DEF Held, IsHeld
    <3>3. /\ deal'[i].cost = Fee(deal[i].qty * FillPrice(i, slip[i]))
          /\ Committed(i)' = deal[i].qty * FillPrice(i, slip[i])
      BY <1>1, <2>2 DEF MoneyInv, Deals, Committed
    <3>4. Held'[i] = out[i]
      BY <2>2, <3>2, <3>3
    <3>5. out[i] \in Int
      BY <1>4, <2>2
    <3> HIDE DEF out
    <3> QED
      BY <2>2, <3>1, <3>4, <3>5
  <2>3. CASE i \notin filled
    <3>1. Held'[i] = Held[i] /\ Misplaced'[i] = Misplaced[i]
      BY <1>1, <1>3, <2>3 DEF Held, Misplaced, IsHeld, IsShort, Committed, ShortMove
    <3> QED
      BY <2>1, <2>3, <3>1
  <2> QED
    BY <2>2, <2>3
<1>7. \A i \in Signals : Out[i] \in Int /\ Held[i] \in Int
  BY <1>4, SharesInt
<1> HIDE DEF out, Out, filled
<1>8. SumFunctionOnSet(Held', Signals) = held + spent
  BY <1>6, <1>7, SumPlus, EngineAssumption
<1>9. Misplaced' = Misplaced
  <2>1. Misplaced' = [i \in Signals |-> Misplaced'[i]] /\ Misplaced = [i \in Signals |-> Misplaced[i]]
    BY DEF Misplaced
  <2> QED
    BY <1>6, <2>1
<1>10. held \in Int /\ spent \in Int
  BY <1>7, SumInt, EngineAssumption
<1>11. cash \in Int
  BY DEF MoneyInv, TypeOK
<1>12. cash' + (held + spent) = cash + held
  <2> HIDE DEF held, spent
  <2> QED
    BY <1>5, <1>10, <1>11
<1> QED
  BY <1>2, <1>8, <1>9, <1>12 DEF Balance

LEMMA ClosePositionsBalances ==
  ASSUME MoneyInv, MoneyInv', Balance, ClosePositions PROVE Balance'
<1> DEFINE closing == {i \in Open : TargetHit(i) \/ StopHit(i) \/ TimeUp(i)}
           price == [i \in closing |-> ExitPrice(i)]
<1>1. /\ phase' = [i \in Signals |-> IF i \in closing THEN "closed" ELSE phase[i]]
      /\ Settle(closing, price)
  BY DEF ClosePositions
<1>2. closing \in SUBSET Open /\ \A i \in Open : i \in Signals /\ phase[i] = "open"
  BY DEF Open, In
<1>3. price \in [closing -> Int]
  BY <1>2, ExitPriceInt
<1> HIDE DEF closing, price
<1>4. \A i \in Signals \ closing : /\ IsHeld(i)' <=> IsHeld(i)
                                   /\ IsShort(i)' <=> IsShort(i)
  BY <1>1 DEF IsHeld, IsShort
<1> QED
  BY <1>1, <1>2, <1>3, <1>4, SettleBalances

LEMMA CloseOppositeBalances ==
  ASSUME MoneyInv, MoneyInv', Balance, NEW i \in Signals, CloseOpposite(i) PROVE Balance'
<1> DEFINE price == [j \in Opposing(i) |-> LastPrice(j)]
<1>1. /\ phase' = [j \in Signals |-> IF j \in Opposing(i) THEN "closed" ELSE phase[j]]
      /\ Settle(Opposing(i), price)
  BY DEF CloseOpposite
<1>2. /\ Opposing(i) \in SUBSET Open /\ \A j \in Opposing(i) : j \in Signals
      /\ price \in [Opposing(i) -> Int]
  BY OpposingOpen, ExitPriceInt DEF Open, In
<1> HIDE DEF price
<1>3. /\ \A j \in Opposing(i) : phase'[j] = "closed"
      /\ \A j \in Signals \ Opposing(i) : /\ IsHeld(j)' <=> IsHeld(j)
                                          /\ IsShort(j)' <=> IsShort(j)
  BY <1>1, <1>2 DEF IsHeld, IsShort
<1> QED
  BY <1>1, <1>2, <1>3, SettleBalances

LEMMA SubmitOrderBalances ==
  ASSUME MoneyInv, MoneyInv', Balance, NEW i \in Signals, SubmitOrder(i) PROVE Balance'
<1> DEFINE C == Opposing(i)
           price == [j \in C |-> LastPrice(j)]
<1>1. /\ phase' = [j \in Signals |-> IF j \in C THEN "closed"
                                     ELSE IF j = i THEN "pending" ELSE phase[j]]
      /\ cash' = cash + SumFunctionOnSet([j \in C |-> Proceeds(j, LastPrice(j))], C)
      /\ realized' = realized + SumFunctionOnSet([j \in C |-> NetPnl(j, LastPrice(j))], C)
      /\ \A j \in Signals : j \in C => deal'[j] = [deal[j] EXCEPT !.exit = LastPrice(j)]
      /\ \A j \in Signals : j \notin C /\ j # i => deal'[j] = deal[j]
  BY DEF SubmitOrder, AfterClosing, Total
<1>2. phase[i] = "idle"
  BY DEF SubmitOrder, Eligible
<1>3. C \in SUBSET Open /\ (\A j \in C : j \in Signals) /\ price \in [C -> Int]
  BY OpposingOpen, ExitPriceInt DEF Open, In
<1>4. /\ [j \in C |-> Proceeds(j, price[j])] = [j \in C |-> Proceeds(j, LastPrice(j))]
      /\ [j \in C |-> NetPnl(j, price[j])] = [j \in C |-> NetPnl(j, LastPrice(j))]
      /\ \A j \in C : price[j] = LastPrice(j)
  OBVIOUS
<1> HIDE DEF C, price
<1>5. cash' = cash + SumFunctionOnSet([j \in C |-> Proceeds(j, price[j])], C)
  BY <1>1, <1>4
<1>6. realized' = realized + SumFunctionOnSet([j \in C |-> NetPnl(j, price[j])], C)
  BY <1>1, <1>4
<1>7. \A j \in C : /\ phase'[j] = "closed" /\ deal'[j].exit = price[j]
                   /\ deal'[j].qty = deal[j].qty /\ deal'[j].entry = deal[j].entry
  BY <1>1, <1>3, <1>4 DEF MoneyInv, Deals
<1>8. \A j \in Signals \ C :
        /\ IsHeld(j)' <=> IsHeld(j)
        /\ IsShort(j)' <=> IsShort(j)
        /\ IsHeld(j) \/ IsShort(j) => deal'[j] = deal[j]
  BY <1>1, <1>2 DEF IsHeld, IsShort
<1> QED
  BY <1>3, <1>5, <1>6, <1>7, <1>8, TradesBalance

LEMMA RecordEquityBalances == ASSUME Balance, RecordEquity PROVE Balance'
<1>1. UNCHANGED <<phase, deal, cash, realized>>
  BY DEF RecordEquity, lifecycle, money
<1>2. \A i \in Signals : Held'[i] = Held[i] /\ Misplaced'[i] = Misplaced[i]
  BY <1>1 DEF Held, Misplaced, IsHeld, IsShort, Committed, ShortMove
<1> QED
  BY <1>1, <1>2, BalanceKept

LEMMA FinishRunBalances ==
  ASSUME MoneyInv, MoneyInv', Balance, FinishRun PROVE Balance'
<1> DEFINE closing == {i \in Open : Trades(Sym[i])}
           price == [i \in closing |-> LastPrice(i)]
<1>1. /\ phase' = [i \in Signals |-> IF i \in closing THEN "closed"
                                     ELSE IF i \in Open THEN "dropped" ELSE phase[i]]
      /\ Settle(closing, price)
  BY DEF FinishRun
<1>2. closing \in SUBSET Open /\ \A i \in Open : i \in Signals /\ phase[i] = "open"
  BY DEF Open, In
<1>3. price \in [closing -> Int]
  BY <1>2, ExitPriceInt
<1> HIDE DEF closing, price
<1>4. \A i \in Signals \ closing : /\ IsHeld(i)' <=> IsHeld(i)
                                   /\ IsShort(i)' <=> IsShort(i)
  BY <1>1, <1>2 DEF IsHeld, IsShort
<1>5. \A i \in closing : phase'[i] = "closed"
  BY <1>1, <1>2
<1> QED
  BY <1>1, <1>2, <1>3, <1>4, <1>5, SettleBalances

LEMMA StutterBalances == ASSUME Balance, UNCHANGED vars PROVE Balance'
<1>1. UNCHANGED <<phase, deal, cash, realized>>
  BY DEF vars, lifecycle, money
<1>2. \A i \in Signals : Held'[i] = Held[i] /\ Misplaced'[i] = Misplaced[i]
  BY <1>1 DEF Held, Misplaced, IsHeld, IsShort, Committed, ShortMove
<1> QED
  BY <1>1, <1>2, BalanceKept

LEMMA NextBalances == ASSUME MoneyInv, MoneyInv', Balance, [Next]_vars PROVE Balance'
BY MarketBarBalances, FillOrdersBalances, ClosePositionsBalances, CloseOppositeBalances,
   SubmitOrderBalances, RecordEquityBalances, FinishRunBalances, StutterBalances DEF Next

(* The cash is explained at every step, for any trades, fees and prices:    *)
(* nothing but the shorts' purchases is booked twice.                       *)
THEOREM CashIsExplained == Spec => []CashExplained
<1>1. Init => Balance
  BY BalanceInit
<1>2. MoneyInv /\ MoneyInv' /\ Balance /\ [Next]_vars => Balance'
  BY NextBalances
<1>3. MoneyInv /\ Balance => CashExplained
  BY BalanceExplains
<1> QED
  BY <1>1, <1>2, <1>3, MoneyInvariant, PTL DEF Spec

(* The state of the event loop keeps its type. *)
THEOREM MoneyTypeCorrect == Spec => []TypeOK
<1>1. MoneyInv => TypeOK
  BY DEF MoneyInv
<1> QED
  BY <1>1, MoneyInvariant, PTL

(* FinishRun leaves nothing open. *)
EndInv == stage = "done" => Open = {}

(* What the reconciliation test says of the end of a run does hold when     *)
(* every signal is a LONG and no position vanished with its symbol: what    *)
(* makes the books differ are the shorts and the dropped positions, nothing *)
(* else.                                                                    *)
THEOREM LongOnlyReconciles ==
  ASSUME \A i \in Signals : Dir[i] = 1
  PROVE  Spec => [](stage = "done" /\ In("dropped") = {} => cash = InitialCapital + realized)
<1>1. Init => EndInv
  BY DEF Init, EndInv
<1>2. EndInv /\ [Next]_vars => EndInv'
  <2> SUFFICES ASSUME EndInv, [Next]_vars PROVE EndInv'
    OBVIOUS
  <2>1. CASE FinishRun
    BY <2>1 DEF FinishRun, EndInv, Open, In
  <2>2. CASE MarketBar \/ FillOrders \/ ClosePositions \/ RecordEquity
    BY <2>2 DEF MarketBar, FillOrders, ClosePositions, RecordEquity, Step, EndInv
  <2>3. CASE \E i \in Signals : CloseOpposite(i) \/ SubmitOrder(i)
    BY <2>3 DEF CloseOpposite, SubmitOrder, EndInv
  <2>4. CASE UNCHANGED vars
    BY <2>4 DEF vars, lifecycle, EndInv, Open, In
  <2> QED
    BY <2>1, <2>2, <2>3, <2>4 DEF Next
<1>3. MoneyInv /\ Balance /\ EndInv =>
        (stage = "done" /\ In("dropped") = {} => cash = InitialCapital + realized)
  <2> SUFFICES ASSUME MoneyInv, Balance, EndInv, stage = "done", In("dropped") = {}
               PROVE  cash = InitialCapital + realized
    OBVIOUS
  <2> DEFINE zero == [i \in Signals |-> 0]
  <2>1. Held = zero
    BY DEF Held, IsHeld, EndInv, Open, In
  <2>2. Misplaced = zero
    BY DEF Misplaced, IsShort
  <2>3. SumFunctionOnSet(zero, Signals) = 0
    <3>1. SumFunctionOnSet(zero, Signals) = SumFunctionOnSet(zero, {})
      <4>1. zero = [i \in Signals |-> IF i \in {} THEN zero[i] ELSE 0]
        OBVIOUS
      <4> HIDE DEF zero
      <4> QED
        BY <4>1, SumExtend, EngineAssumption
    <3> QED
      BY <3>1, SumEmpty
  <2> HIDE DEF zero
  <2>4. cash \in Int /\ realized \in Int
    BY DEF MoneyInv, TypeOK
  <2> QED
    BY <2>1, <2>2, <2>3, <2>4, AmountAssumption DEF Balance
<1>4. MoneyInv /\ MoneyInv' /\ Balance /\ [Next]_vars => Balance'
  BY NextBalances
<1>5. Init => Balance
  BY BalanceInit
<1> QED
  BY <1>1, <1>2, <1>3, <1>4, <1>5, MoneyInvariant, PTL DEF Spec

(* A halt that nothing can end: with nothing open the equity is the cash,   *)
(* no signal is eligible and no bar moves the cash, the peak or the streak. *)
LEMMA DormantEquity ==
  ASSUME MoneyInv, Open = {} PROVE Equity = cash /\ cash \in Int
<1>1. Total(Committed, Open) = 0 /\ Total(Unrealized, Open) = 0
  BY SumEmpty DEF Total
<1>2. cash \in Int
  BY DEF MoneyInv, TypeOK
<1> QED
  BY <1>1, <1>2 DEF Equity, EquityOf

LEMMA DormantHalts ==
  ASSUME MoneyInv, Dormant PROVE Halted
<1>1. Open = {}
  BY DEF Dormant, InFlight
<1>2. Equity \in Int /\ peak \in Int /\ DrawdownPct * peak \in Int
  BY <1>1, DormantEquity, AmountAssumption, Products DEF MoneyInv, TypeOK
<1>3. (peak - Equity) * 100 >= DrawdownPct * peak => Size(Equity - peak) * 100 >= DrawdownPct * peak
  <2> DEFINE bound == DrawdownPct * peak
  <2>1. bound \in Int
    BY <1>2
  <2> HIDE DEF bound
  <2>2. (peak - Equity) * 100 >= bound => Size(Equity - peak) * 100 >= bound
    BY <1>2, <2>1 DEF Size, Most
  <2> QED
    BY <2>2 DEF bound
<1> QED
  BY <1>3 DEF Dormant, Halted

LEMMA DormantStays ==
  ASSUME MoneyInv, MoneyInv', Dormant, Next
  PROVE  Dormant'
<1>1. Open = {} /\ Pending = {} /\ InFlight = {}
  BY DEF Dormant, InFlight
<1>2. Equity = cash /\ cash \in Int /\ peak \in Int /\ streak \in Int
  BY <1>1, DormantEquity DEF MoneyInv, TypeOK
<1>3. ASSUME Open' = {}, Pending' = {}, cash' = cash, streak' = streak,
             peak' = peak \/ peak' = Most(peak, Equity)
      PROVE  Dormant'
  <2>1. Equity' = cash
    <3>1. (Open = {})' /\ MoneyInv'
      BY <1>3
    <3>2. Total(Committed, Open)' = 0 /\ Total(Unrealized, Open)' = 0
      BY <1>3, SumEmpty DEF Total
    <3> QED
      BY <1>2, <1>3, <3>2 DEF Equity, EquityOf
  <2>2. streak >= MaxLosses => Dormant'
    BY <1>3 DEF Dormant, InFlight
  <2>3. (peak - Equity) * 100 >= DrawdownPct * peak => peak' = peak
    <3>1. peak >= 0 /\ DrawdownPct * peak >= 0
      <4>1. peak \in Nat /\ DrawdownPct \in Nat
        BY <1>2, AmountAssumption DEF MoneyInv
      <4> QED
        BY <4>1
    <3> DEFINE bound == DrawdownPct * peak
    <3>2. bound \in Int /\ bound >= 0
      BY <1>2, <3>1, AmountAssumption
    <3> HIDE DEF bound
    <3>3. (peak - Equity) * 100 >= bound => peak >= Equity
      BY <1>2, <3>2
    <3>4. peak >= Equity => peak' = peak
      BY <1>2, <1>3 DEF Most
    <3> QED
      BY <3>3, <3>4 DEF bound
  <2> QED
    BY <1>2, <1>3, <2>1, <2>2, <2>3 DEF Dormant, InFlight
<1>5. CASE MarketBar
  <2>1. UNCHANGED <<phase, cash, streak, peak>>
    BY <1>5 DEF MarketBar, lifecycle
  <2>2. Open' = Open /\ Pending' = Pending
    BY <2>1 DEF Open, Pending, In
  <2> QED
    BY <1>1, <1>3, <2>1, <2>2
<1>6. CASE FillOrders
  <2>1. Ready = {}
    BY <1>1 DEF Ready
  <2>2. /\ UNCHANGED <<streak, peak>> /\ phase' = [i \in Signals |-> phase[i]]
        /\ \E f : cash' = cash - SumFunctionOnSet(f, {})
    BY <1>6, <2>1 DEF FillOrders, Total
  <2>3. cash' = cash
    BY <1>2, <2>2, SumEmpty
  <2>4. Open' = Open /\ Pending' = Pending
    BY <2>2 DEF Open, Pending, In
  <2> QED
    BY <1>1, <1>3, <2>2, <2>3, <2>4
<1>7. CASE ClosePositions
  <2>1. /\ phase' = [i \in Signals |-> phase[i]] /\ peak' = peak
        /\ \E f : cash' = cash + SumFunctionOnSet(f, {})
        /\ streak' \in Streaks({}, {})
    BY <1>1, <1>7 DEF ClosePositions, Settle, Total
  <2>2. cash' = cash
    BY <1>2, <2>1, SumEmpty
  <2>3. streak' = streak
    BY <1>2, <2>1, FS_EmptySet DEF Streaks
  <2>4. Open' = Open /\ Pending' = Pending
    BY <2>1 DEF Open, Pending, In
  <2> QED
    BY <1>1, <1>3, <2>1, <2>2, <2>3, <2>4
<1>8. CASE \E i \in Signals : CloseOpposite(i) \/ SubmitOrder(i)
  BY <1>8, DormantHalts DEF CloseOpposite, SubmitOrder, Eligible
<1>9. CASE RecordEquity
  <2>1. UNCHANGED <<phase, cash, streak>> /\ peak' = Most(peak, Equity)
    BY <1>9 DEF RecordEquity, NewPeak, lifecycle, money
  <2>2. Open' = Open /\ Pending' = Pending
    BY <2>1 DEF Open, Pending, In
  <2> QED
    BY <1>1, <1>3, <2>1, <2>2
<1>10. CASE FinishRun
  <2>1. /\ phase' = [i \in Signals |-> phase[i]] /\ peak' = peak /\ streak' = streak
        /\ \E f : cash' = cash + SumFunctionOnSet(f, {})
    BY <1>1, <1>10 DEF FinishRun, Settle, Total
  <2>2. cash' = cash
    BY <1>2, <2>1, SumEmpty
  <2>3. Open' = Open /\ Pending' = Pending
    BY <2>1 DEF Open, Pending, In
  <2> QED
    BY <1>1, <1>3, <2>1, <2>2, <2>3
<1> QED
  BY <1>5, <1>6, <1>7, <1>8, <1>9, <1>10 DEF Next

(* A halt with an empty portfolio is final, for any bars that follow. *)
THEOREM DormantIsForever == Spec => DormantForever
<1>1. MoneyInv /\ MoneyInv' /\ [Next]_vars => [Dormant => Dormant']_vars
  BY DormantStays
<1> QED
  BY <1>1, MoneyInvariant, PTL DEF Spec, DormantForever
=============================================================================
