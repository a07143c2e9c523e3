------------------------- MODULE SignalLedgerProofs -------------------------
(***************************************************************************)
(* Machine-checked properties of SignalLedger for any set of clients,      *)
(* symbols and prices and any bounds.  The inductive invariant Inv relates *)
(* the tables to what each client still remembers of them.                 *)
(***************************************************************************)
EXTENDS SignalLedgerBook, FiniteSetTheorems, TLAPS

Inserting(c) == pc[c] \in {"insert_signals", "insert_positions"}

(* Ids in use: written to signals, or drawn by a running record_signals.   *)
Drawn(s) == s \in Recorded \/ \E c \in Clients : Inserting(c) /\ s \in todo[c]

(* uuid4: an id in use never equals one a reader is about to draw.         *)
FreshIds ==
  /\ \A s \in Sids : Drawn(s) => CallOf(s) <= calls
  /\ \A c \in Clients : pc[c] = "read_existing" =>
       /\ call[c] <= calls
       /\ \A s \in Sids : Drawn(s) => CallOf(s) # call[c]
       /\ \A d \in Clients : pc[d] = "read_existing" /\ call[d] = call[c] => c = d

(* A row is complete for its status.                                       *)
RowsComplete ==
  \A s \in Sids :
    /\ positions[s].status = "NONE" => positions[s] = NoPosition
    /\ positions[s].entry # Null => positions[s].last # Null
    /\ Exists(s) => s \in Recorded

(* What a client inside record_signals remembers.                          *)
RecorderLocals ==
  \A c \in Clients :
    /\ pc[c] \in {"read_existing", "insert_signals"} => session # "NONE"
    /\ toLog[c] # {} => pc[c] \in {"insert_positions", "settle"}
    /\ Inserting(c) =>
         /\ \A s \in todo[c] : ~ Exists(s)
         /\ \A d \in Clients : Inserting(d) /\ todo[c] \cap todo[d] # {} => c = d
    /\ pc[c] = "insert_signals" =>
         \A s \in todo[c] : s \notin Recorded /\ active[c][SymbolOf(s)] # NoDirection
    /\ pc[c] = "insert_positions" =>
         /\ todo[c] \subseteq Recorded
         /\ \A s \in toLog[c] : Exists(s)

(* What a client inside settle_session remembers.                          *)
SettlerLocals ==
  \A c \in Clients :
    pc[c] = "settle" =>
      /\ todo[c] \cap toLog[c] = {}
      /\ \A s \in todo[c] : /\ Exists(s)
                            /\ view[c][s].entry = positions[s].entry
                            /\ view[c][s].entry # Null => view[c][s].last # Null
      /\ \A s \in toLog[c] : IsSettled(s)
      /\ \A s \in todo[c] \cup toLog[c] : auditSettled[s][c] = 0

Inv ==
  /\ TypeOK
  /\ FreshIds
  /\ RowsComplete
  /\ RecorderLocals
  /\ SettlerLocals
  /\ ForeignKeys
  /\ SettlementCoherent
  /\ AuditTrailSound
  /\ SettleOncePerClient

-----------------------------------------------------------------------------
LEMMA IdCalls == \A s \in Sids : CallOf(s) \in 1 .. MaxCalls /\ SymbolOf(s) \in Symbols
BY DEF Sids, CallOf, SymbolOf

LEMMA OutcomeType ==
  ASSUME NEW d, NEW e, NEW x
  PROVE  /\ Outcome(d, e, x) \in Terminal
         /\ Outcome(d, e, x) = "EXPIRED" <=> (x = Null \/ e = Null)
BY DEF Outcome, Terminal

LEMMA CoalesceType ==
  ASSUME NEW p \in MaybePrice, NEW q \in MaybePrice
  PROVE  /\ Coalesce(p, q) \in MaybePrice
         /\ Coalesce(p, q) = Null <=> p = Null /\ q = Null
BY DEF Coalesce

LEMMA RowTypes ==
  /\ NoPosition \in PositionRows
  /\ Null \in MaybePrice
  /\ \A r \in PositionRows, p \in MaybePrice : Upserted(r, p) \in PositionRows
  /\ \A d : \A r \in PositionRows, v \in PositionRows, p \in MaybePrice :
       SettledRow(r, v, d, p) \in PositionRows
<1>1. Null \in MaybePrice
  BY DEF MaybePrice
<1>2. NoPosition \in PositionRows
  BY <1>1 DEF NoPosition, PositionRows, Statuses
<1>3. ASSUME NEW r \in PositionRows, NEW p \in MaybePrice
      PROVE  Upserted(r, p) \in PositionRows
  BY CoalesceType DEF Upserted, PositionRows, Statuses
<1>4. ASSUME NEW r \in PositionRows, NEW v \in PositionRows, NEW d, NEW p \in MaybePrice
      PROVE  SettledRow(r, v, d, p) \in PositionRows
  BY CoalesceType, OutcomeType DEF SettledRow, PositionRows, Statuses
<1> QED
  BY <1>1, <1>2, <1>3, <1>4

LEMMA TypeStep == TypeOK /\ [Next]_vars => TypeOK'
<1> SUFFICES ASSUME TypeOK, [Next]_vars PROVE TypeOK'
  OBVIOUS
<1> USE BoundsAssumption, RowTypes, IdCalls DEF TypeOK, tables, audit, counts
<1>1. ASSUME NEW c \in Clients, StartRecord(c) PROVE TypeOK'
  BY <1>1 DEF StartRecord, Stages
<1>2. ASSUME NEW c \in Clients, ReadExisting(c) PROVE TypeOK'
  BY <1>2 DEF ReadExisting, NewIds, Stages
<1>3. ASSUME NEW c \in Clients, InsertSignals(c) PROVE TypeOK'
  BY <1>3 DEF InsertSignals, NoSignals, Stages
<1>4. ASSUME NEW c \in Clients, AppendOpen(c) PROVE TypeOK'
  BY <1>4 DEF AppendOpen, Stages
<1>5. ASSUME NEW c \in Clients, ReadOpenToMark(c) PROVE TypeOK'
  BY <1>5 DEF ReadOpenToMark, OpenPositions, Recorded, Stages
<1>6. ASSUME NEW c \in Clients, UpdatePrices(c) PROVE TypeOK'
  <2>1. PICK ltp \in [Symbols -> MaybePrice] :
          positions' = [s \in Sids |->
            IF Marked(c, s)
            THEN [positions[s] EXCEPT !.last = Coalesce(ltp[SymbolOf(s)], @)]
            ELSE positions[s]]
    BY <1>6 DEF UpdatePrices
  <2>2. ASSUME NEW s \in Sids
        PROVE  [positions[s] EXCEPT !.last = Coalesce(ltp[SymbolOf(s)], @)] \in PositionRows
    BY CoalesceType DEF PositionRows
  <2>3. positions' \in [Sids -> PositionRows]
    BY <2>1, <2>2
  <2> QED
    BY <1>6, <2>3 DEF UpdatePrices, Stages
<1>7. ASSUME NEW c \in Clients, ReadOpenToSettle(c) PROVE TypeOK'
  BY <1>7 DEF ReadOpenToSettle, OpenPositions, Recorded, Stages
<1>8. ASSUME NEW c \in Clients, AppendSettled(c) PROVE TypeOK'
  <2>1. auditSettled' \in [Sids -> [Clients -> Nat]]
    <3>1. \A s \in Sids : [auditSettled[s] EXCEPT ![c] = @ + 1] \in [Clients -> Nat]
      OBVIOUS
    <3>2. auditSettled' = [s \in Sids |-> IF s \in toLog[c]
                            THEN [auditSettled[s] EXCEPT ![c] = @ + 1]
                            ELSE auditSettled[s]]
      BY <1>8 DEF AppendSettled
    <3> HIDE <1>8
    <3> QED
      BY <3>1, <3>2
  <2>2. view' \in [Clients -> [Sids -> PositionRows]]
    BY <1>8 DEF AppendSettled, NoView
  <2>3. pc' \in [Clients -> Stages] /\ toLog' \in [Clients -> SUBSET Sids]
    BY <1>8 DEF AppendSettled, Stages
  <2> QED
    BY <1>8, <2>1, <2>2, <2>3 DEF AppendSettled
<1>9. ASSUME NEW c \in Clients, CloseSession(c) PROVE TypeOK'
  BY <1>9 DEF CloseSession, Stages
<1>10. ASSUME NEW c \in Clients, NEW s \in Sids, InsertPosition(c, s) PROVE TypeOK'
  <2>1. positions' \in [Sids -> PositionRows]
    BY <1>10 DEF InsertPosition
  <2> QED
    BY <1>10, <2>1 DEF InsertPosition
<1>11. ASSUME NEW c \in Clients, NEW s \in Sids, SettlePosition(c, s) PROVE TypeOK'
  <2>1. view[c][s] \in PositionRows /\ positions[s] \in PositionRows
    OBVIOUS
  <2>2. positions' \in [Sids -> PositionRows]
    BY <1>11, <2>1 DEF SettlePosition
  <2> QED
    BY <1>11, <2>2 DEF SettlePosition
<1>12. ASSUME NEW c \in Clients, Crash(c) PROVE TypeOK'
  BY <1>12 DEF Crash, NoSignals, NoView, Stages
<1>13. CASE UNCHANGED vars
  BY <1>13 DEF vars, locals
<1> QED
  BY <1>1, <1>2, <1>3, <1>4, <1>5, <1>6, <1>7, <1>8, <1>9, <1>10, <1>11, <1>12, <1>13
     DEF Next, Step

(* Every variable keeps its type, with any number of processes.            *)
THEOREM TypeCorrect == Spec => []TypeOK
<1>1. Init => TypeOK
  BY BoundsAssumption, RowTypes
     DEF Init, TypeOK, NoSignals, NoView, Stages, Directions, NoDirection
<1> QED
  BY <1>1, TypeStep, PTL DEF Spec
LEMMA InvStep == Inv /\ [Next]_vars => Inv'
<1> SUFFICES ASSUME Inv, [Next]_vars PROVE Inv'
  OBVIOUS
<1>0. TypeOK'
  BY TypeStep DEF Inv
<1> USE BoundsAssumption, IdCalls DEF Inv, TypeOK, tables, audit, counts
<1>1. ASSUME NEW c \in Clients, StartRecord(c) PROVE Inv'
  <2>1. FreshIds'
    BY <1>1 DEF StartRecord, FreshIds, Drawn, Inserting, Recorded
  <2>2. RowsComplete'
    BY <1>1 DEF StartRecord, RowsComplete, Exists, Recorded
  <2>3. RecorderLocals'
    BY <1>1 DEF StartRecord, RecorderLocals, RowsComplete, Inserting, Recorded, Exists
  <2>4. SettlerLocals'
    BY <1>1 DEF StartRecord, SettlerLocals, RecorderLocals, RowsComplete, AuditTrailSound, Exists, IsSettled, Terminal
  <2>5. ForeignKeys'
    BY <1>1 DEF StartRecord, ForeignKeys, RowsComplete, RecorderLocals, Exists, Recorded
  <2>6. SettlementCoherent'
    BY <1>1 DEF StartRecord, SettlementCoherent, IsSettled, Terminal
  <2>7. AuditTrailSound'
    BY <1>1 DEF StartRecord, AuditTrailSound, SettlerLocals, RecorderLocals, Exists, IsSettled, Terminal
  <2>8. SettleOncePerClient'
    BY <1>1 DEF StartRecord, SettleOncePerClient, SettlerLocals
  <2> QED
    BY <1>0, <2>1, <2>2, <2>3, <2>4, <2>5, <2>6, <2>7, <2>8
<1>2. ASSUME NEW c \in Clients, ReadExisting(c) PROVE Inv'
  <2>1. FreshIds'
    <3>1. /\ pc[c] = "read_existing" /\ pc' = [pc EXCEPT ![c] = "insert_signals"]
          /\ todo' = [todo EXCEPT ![c] = NewIds(c)]
          /\ call' = [call EXCEPT ![c] = 0]
          /\ UNCHANGED <<signals, calls>>
      BY <1>2 DEF ReadExisting
    <3>2. \A s \in Sids : Drawn(s)' => Drawn(s) \/ CallOf(s) = call[c]
      BY <3>1 DEF Drawn, Inserting, Recorded, NewIds
    <3>3. \A d \in Clients : pc'[d] = "read_existing" =>
            d # c /\ pc[d] = "read_existing" /\ call'[d] = call[d]
      BY <3>1
    <3> QED
      BY <3>1, <3>2, <3>3 DEF FreshIds
  <2>2. RowsComplete'
    BY <1>2 DEF ReadExisting, RowsComplete, Exists, Recorded
  <2>3. RecorderLocals'
    <3>1. /\ pc[c] = "read_existing" /\ pc' = [pc EXCEPT ![c] = "insert_signals"]
          /\ todo' = [todo EXCEPT ![c] = NewIds(c)]
          /\ UNCHANGED <<signals, positions, session, active, toLog>>
      BY <1>2 DEF ReadExisting
    <3>2. \A s \in NewIds(c) : /\ ~ Drawn(s) /\ ~ Exists(s) /\ s \notin Recorded
                              /\ active[c][SymbolOf(s)] # NoDirection
      BY <3>1 DEF NewIds, FreshIds, RowsComplete, Drawn
    <3>3. \A d \in Clients : Inserting(d) => NewIds(c) \cap todo[d] = {}
      BY <3>2 DEF Drawn
    <3> QED
      BY <3>1, <3>2, <3>3 DEF RecorderLocals, Inserting, Recorded, Exists
  <2>4. SettlerLocals'
    BY <1>2 DEF ReadExisting, SettlerLocals, RecorderLocals, RowsComplete, AuditTrailSound, Exists, IsSettled, Terminal
  <2>5. ForeignKeys'
    BY <1>2 DEF ReadExisting, ForeignKeys, RowsComplete, RecorderLocals, Exists, Recorded
  <2>6. SettlementCoherent'
    BY <1>2 DEF ReadExisting, SettlementCoherent, IsSettled, Terminal
  <2>7. AuditTrailSound'
    BY <1>2 DEF ReadExisting, AuditTrailSound, SettlerLocals, RecorderLocals, Exists, IsSettled, Terminal
  <2>8. SettleOncePerClient'
    BY <1>2 DEF ReadExisting, SettleOncePerClient, SettlerLocals
  <2> QED
    BY <1>0, <2>1, <2>2, <2>3, <2>4, <2>5, <2>6, <2>7, <2>8
<1>3. ASSUME NEW c \in Clients, InsertSignals(c) PROVE Inv'
  <2>1. FreshIds'
    BY <1>3 DEF InsertSignals, FreshIds, Drawn, Inserting, Recorded
  <2>2. RowsComplete'
    BY <1>3 DEF InsertSignals, RowsComplete, Exists, Recorded
  <2>3. RecorderLocals'
    BY <1>3 DEF InsertSignals, RecorderLocals, RowsComplete, Inserting, Recorded, Exists
  <2>4. SettlerLocals'
    BY <1>3 DEF InsertSignals, SettlerLocals, RecorderLocals, RowsComplete, AuditTrailSound, Exists, IsSettled, Terminal
  <2>5. ForeignKeys'
    BY <1>3 DEF InsertSignals, ForeignKeys, RowsComplete, RecorderLocals, Exists, Recorded
  <2>6. SettlementCoherent'
    BY <1>3 DEF InsertSignals, SettlementCoherent, RowsComplete, Recorded, Exists,
       IsSettled, Terminal
  <2>7. AuditTrailSound'
    BY <1>3 DEF InsertSignals, AuditTrailSound, SettlerLocals, RecorderLocals, Exists, IsSettled, Terminal
  <2>8. SettleOncePerClient'
    BY <1>3 DEF InsertSignals, SettleOncePerClient, SettlerLocals
  <2> QED
    BY <1>0, <2>1, <2>2, <2>3, <2>4, <2>5, <2>6, <2>7, <2>8
<1>4. ASSUME NEW c \in Clients, AppendOpen(c) PROVE Inv'
  <2>1. FreshIds'
    BY <1>4 DEF AppendOpen, FreshIds, Drawn, Inserting, Recorded
  <2>2. RowsComplete'
    BY <1>4 DEF AppendOpen, RowsComplete, Exists, Recorded
  <2>3. RecorderLocals'
    BY <1>4 DEF AppendOpen, RecorderLocals, RowsComplete, Inserting, Recorded, Exists
  <2>4. SettlerLocals'
    BY <1>4 DEF AppendOpen, SettlerLocals, RecorderLocals, RowsComplete, AuditTrailSound, Exists, IsSettled, Terminal
  <2>5. ForeignKeys'
    BY <1>4 DEF AppendOpen, ForeignKeys, RowsComplete, RecorderLocals, Exists, Recorded
  <2>6. SettlementCoherent'
    BY <1>4 DEF AppendOpen, SettlementCoherent, IsSettled, Terminal
  <2>7. AuditTrailSound'
    BY <1>4 DEF AppendOpen, AuditTrailSound, SettlerLocals, RecorderLocals, Exists, IsSettled, Terminal
  <2>8. SettleOncePerClient'
    BY <1>4 DEF AppendOpen, SettleOncePerClient, SettlerLocals
  <2> QED
    BY <1>0, <2>1, <2>2, <2>3, <2>4, <2>5, <2>6, <2>7, <2>8
<1>5. ASSUME NEW c \in Clients, ReadOpenToMark(c) PROVE Inv'
  <2>1. FreshIds'
    BY <1>5 DEF ReadOpenToMark, FreshIds, Drawn, Inserting, Recorded
  <2>2. RowsComplete'
    BY <1>5 DEF ReadOpenToMark, RowsComplete, Exists, Recorded
  <2>3. RecorderLocals'
    BY <1>5 DEF ReadOpenToMark, RecorderLocals, RowsComplete, Inserting, Recorded, Exists
  <2>4. SettlerLocals'
    BY <1>5 DEF ReadOpenToMark, SettlerLocals, RecorderLocals, RowsComplete, AuditTrailSound, Exists, IsSettled, Terminal
  <2>5. ForeignKeys'
    BY <1>5 DEF ReadOpenToMark, ForeignKeys, RowsComplete, RecorderLocals, Exists, Recorded
  <2>6. SettlementCoherent'
    BY <1>5 DEF ReadOpenToMark, SettlementCoherent, IsSettled, Terminal
  <2>7. AuditTrailSound'
    BY <1>5 DEF ReadOpenToMark, AuditTrailSound, SettlerLocals, RecorderLocals, Exists, IsSettled, Terminal
  <2>8. SettleOncePerClient'
    BY <1>5 DEF ReadOpenToMark, SettleOncePerClient, SettlerLocals
  <2> QED
    BY <1>0, <2>1, <2>2, <2>3, <2>4, <2>5, <2>6, <2>7, <2>8
<1>6. ASSUME NEW c \in Clients, UpdatePrices(c) PROVE Inv'
  <2>1. FreshIds'
    BY <1>6 DEF UpdatePrices, FreshIds, Drawn, Inserting, Recorded
  <2>2. RowsComplete'
    <3>1. PICK ltp \in [Symbols -> MaybePrice] :
            positions' = [s \in Sids |->
              IF Marked(c, s)
              THEN [positions[s] EXCEPT !.last = Coalesce(ltp[SymbolOf(s)], @)]
              ELSE positions[s]]
      BY <1>6 DEF UpdatePrices
    <3>2. ASSUME NEW s \in Sids
          PROVE  /\ positions'[s].status = positions[s].status
                 /\ positions'[s].entry = positions[s].entry
                 /\ positions[s].last # Null => positions'[s].last # Null
                 /\ positions[s].status = "NONE" => positions'[s] = positions[s]
      BY <3>1, CoalesceType DEF Marked, PositionRows
    <3> QED
      BY <1>6, <3>2 DEF UpdatePrices, RowsComplete, Exists, Recorded
  <2>3. RecorderLocals'
    BY <1>6 DEF UpdatePrices, RecorderLocals, RowsComplete, Inserting, Recorded, Exists
  <2>4. SettlerLocals'
    BY <1>6 DEF UpdatePrices, SettlerLocals, RecorderLocals, RowsComplete, AuditTrailSound, Exists, IsSettled, Terminal
  <2>5. ForeignKeys'
    BY <1>6 DEF UpdatePrices, ForeignKeys, RowsComplete, RecorderLocals, Exists, Recorded
  <2>6. SettlementCoherent'
    BY <1>6 DEF UpdatePrices, SettlementCoherent, IsSettled, Terminal
  <2>7. AuditTrailSound'
    BY <1>6 DEF UpdatePrices, AuditTrailSound, SettlerLocals, RecorderLocals, Exists, IsSettled, Terminal
  <2>8. SettleOncePerClient'
    BY <1>6 DEF UpdatePrices, SettleOncePerClient, SettlerLocals
  <2> QED
    BY <1>0, <2>1, <2>2, <2>3, <2>4, <2>5, <2>6, <2>7, <2>8
<1>7. ASSUME NEW c \in Clients, ReadOpenToSettle(c) PROVE Inv'
  <2>1. FreshIds'
    BY <1>7 DEF ReadOpenToSettle, FreshIds, Drawn, Inserting, Recorded
  <2>2. RowsComplete'
    BY <1>7 DEF ReadOpenToSettle, RowsComplete, Exists, Recorded
  <2>3. RecorderLocals'
    BY <1>7 DEF ReadOpenToSettle, RecorderLocals, RowsComplete, Inserting, Recorded, Exists
  <2>4. SettlerLocals'
    <3>1. /\ pc[c] = "idle" /\ pc' = [pc EXCEPT ![c] = "settle"]
          /\ todo' = [todo EXCEPT ![c] = OpenPositions]
          /\ UNCHANGED <<signals, positions, auditSettled, toLog>>
      BY <1>7 DEF ReadOpenToSettle
    <3>2. toLog'[c] = {}
      BY <3>1 DEF RecorderLocals
    <3>3. \A s \in OpenPositions : /\ view'[c][s] = positions[s]
                                   /\ Exists(s) /\ ~ IsSettled(s)
      BY <1>7 DEF ReadOpenToSettle, OpenPositions, Recorded, Exists, IsSettled, Terminal
    <3>4. \A s \in OpenPositions : auditSettled[s][c] = 0
      BY <3>3 DEF AuditTrailSound, OpenPositions, Recorded
    <3>5. ASSUME NEW d \in Clients, d # c
          PROVE  pc'[d] = pc[d] /\ todo'[d] = todo[d] /\ view'[d] = view[d]
      <4>1. PICK seen : view' = [view EXCEPT ![c] = seen]
        BY <1>7 DEF ReadOpenToSettle
      <4> QED
        BY <3>1, <3>5, <4>1
    <3>6. ASSUME NEW d \in Clients, pc'[d] = "settle"
          PROVE  /\ todo'[d] \cap toLog'[d] = {}
                 /\ \A s \in todo'[d] : /\ Exists(s)'
                                        /\ view'[d][s].entry = positions'[s].entry
                                        /\ view'[d][s].entry # Null => view'[d][s].last # Null
                 /\ \A s \in toLog'[d] : IsSettled(s)'
                 /\ \A s \in todo'[d] \cup toLog'[d] : auditSettled'[s][d] = 0
      <4>1. CASE d = c
        BY <3>1, <3>2, <3>3, <3>4, <4>1
           DEF OpenPositions, Recorded, RowsComplete, Exists, IsSettled
      <4>2. CASE d # c
        BY <3>1, <3>5, <3>6, <4>2 DEF SettlerLocals, Exists, IsSettled
      <4> QED
        BY <4>1, <4>2
    <3> QED
      BY <3>6 DEF SettlerLocals
  <2>5. ForeignKeys'
    BY <1>7 DEF ReadOpenToSettle, ForeignKeys, RowsComplete, RecorderLocals, Exists, Recorded
  <2>6. SettlementCoherent'
    BY <1>7 DEF ReadOpenToSettle, SettlementCoherent, IsSettled, Terminal
  <2>7. AuditTrailSound'
    BY <1>7 DEF ReadOpenToSettle, AuditTrailSound, SettlerLocals, RecorderLocals, Exists, IsSettled, Terminal
  <2>8. SettleOncePerClient'
    BY <1>7 DEF ReadOpenToSettle, SettleOncePerClient, SettlerLocals
  <2> QED
    BY <1>0, <2>1, <2>2, <2>3, <2>4, <2>5, <2>6, <2>7, <2>8
<1>8. ASSUME NEW c \in Clients, AppendSettled(c) PROVE Inv'
  <2>1. FreshIds'
    BY <1>8 DEF AppendSettled, FreshIds, Drawn, Inserting, Recorded
  <2>2. RowsComplete'
    BY <1>8 DEF AppendSettled, RowsComplete, Exists, Recorded
  <2>3. RecorderLocals'
    BY <1>8 DEF AppendSettled, RecorderLocals, RowsComplete, Inserting, Recorded, Exists
  <2>4. SettlerLocals'
    BY <1>8 DEF AppendSettled, SettlerLocals, RecorderLocals, RowsComplete, AuditTrailSound, Exists, IsSettled, Terminal
  <2>5. ForeignKeys'
    BY <1>8 DEF AppendSettled, ForeignKeys, RowsComplete, RecorderLocals, Exists, Recorded
  <2>6. SettlementCoherent'
    BY <1>8 DEF AppendSettled, SettlementCoherent, IsSettled, Terminal
  <2>7. AuditTrailSound'
    BY <1>8 DEF AppendSettled, AuditTrailSound, SettlerLocals, RecorderLocals, Exists, IsSettled, Terminal
  <2>8. SettleOncePerClient'
    BY <1>8 DEF AppendSettled, SettleOncePerClient, SettlerLocals
  <2> QED
    BY <1>0, <2>1, <2>2, <2>3, <2>4, <2>5, <2>6, <2>7, <2>8
<1>9. ASSUME NEW c \in Clients, CloseSession(c) PROVE Inv'
  <2>1. FreshIds'
    BY <1>9 DEF CloseSession, FreshIds, Drawn, Inserting, Recorded
  <2>2. RowsComplete'
    BY <1>9 DEF CloseSession, RowsComplete, Exists, Recorded
  <2>3. RecorderLocals'
    BY <1>9 DEF CloseSession, RecorderLocals, RowsComplete, Inserting, Recorded, Exists
  <2>4. SettlerLocals'
    BY <1>9 DEF CloseSession, SettlerLocals, RecorderLocals, RowsComplete, AuditTrailSound, Exists, IsSettled, Terminal
  <2>5. ForeignKeys'
    BY <1>9 DEF CloseSession, ForeignKeys, RowsComplete, RecorderLocals, Exists, Recorded
  <2>6. SettlementCoherent'
    BY <1>9 DEF CloseSession, SettlementCoherent, IsSettled, Terminal
  <2>7. AuditTrailSound'
    BY <1>9 DEF CloseSession, AuditTrailSound, SettlerLocals, RecorderLocals, Exists, IsSettled, Terminal
  <2>8. SettleOncePerClient'
    BY <1>9 DEF CloseSession, SettleOncePerClient, SettlerLocals
  <2> QED
    BY <1>0, <2>1, <2>2, <2>3, <2>4, <2>5, <2>6, <2>7, <2>8
<1>10. ASSUME NEW c \in Clients, NEW s \in Sids, InsertPosition(c, s) PROVE Inv'
  <2>0. /\ pc[c] = "insert_positions" /\ toLog[c] = {} /\ s \in todo[c]
        /\ s \in Recorded /\ ~ Exists(s) /\ ~ IsSettled(s)
        /\ todo' = [todo EXCEPT ![c] = @ \ {s}]
        /\ toLog' = [toLog EXCEPT ![c] = {s}]
        /\ UNCHANGED <<session, signals, auditOpen, auditSettled, calls, crashes,
                       pc, call, active, view>>
    BY <1>10 DEF InsertPosition, RecorderLocals, Inserting, Recorded, Exists,
       IsSettled, Terminal
  <2>1. PICK p \in MaybePrice : positions' = [positions EXCEPT ![s] = Upserted(positions[s], p)]
    BY <1>10 DEF InsertPosition
  <2>2. positions[s] = NoPosition
    BY <2>0 DEF RowsComplete, Exists
  <2>3. /\ positions'[s] = [status |-> "OPEN", entry |-> p, last |-> p, exit |-> Null]
        /\ \A t \in Sids : t # s => positions'[t] = positions[t]
    BY <2>1, <2>2 DEF Upserted, Coalesce, NoPosition, MaybePrice
  <2>4. /\ Exists(s)' /\ ~ IsSettled(s)'
        /\ \A t \in Sids : t # s => (Exists(t)' <=> Exists(t)) /\ (IsSettled(t)' <=> IsSettled(t))
        /\ Recorded' = Recorded
    BY <2>0, <2>3 DEF Exists, IsSettled, Terminal, Recorded
  <2>5. \A d \in Clients : pc[d] = "settle" => s \notin todo[d] /\ s \notin toLog[d]
    BY <2>0 DEF SettlerLocals
  <2>11. FreshIds'
    BY <2>0, <2>4 DEF FreshIds, Drawn, Inserting
  <2>12. RowsComplete'
    BY <2>0, <2>3, <2>4 DEF RowsComplete
  <2>13. RecorderLocals'
    BY <2>0, <2>4 DEF RecorderLocals, Inserting
  <2>14. SettlerLocals'
    BY <2>0, <2>3, <2>4, <2>5 DEF SettlerLocals
  <2>15. ForeignKeys'
    BY <2>0, <2>4 DEF ForeignKeys
  <2>16. SettlementCoherent'
    BY <2>0, <2>3, <2>4 DEF SettlementCoherent
  <2>17. AuditTrailSound'
    BY <2>0, <2>4 DEF AuditTrailSound
  <2>18. SettleOncePerClient'
    BY <2>0 DEF SettleOncePerClient
  <2> QED
    BY <1>0, <2>11, <2>12, <2>13, <2>14, <2>15, <2>16, <2>17, <2>18
<1>11. ASSUME NEW c \in Clients, NEW s \in Sids, SettlePosition(c, s) PROVE Inv'
  <2>0. /\ pc[c] = "settle" /\ toLog[c] = {} /\ s \in todo[c] /\ Exists(s)
        /\ view[c][s].entry = positions[s].entry
        /\ view[c][s].entry # Null => view[c][s].last # Null
        /\ todo' = [todo EXCEPT ![c] = @ \ {s}]
        /\ toLog' = [toLog EXCEPT ![c] = {s}]
        /\ UNCHANGED <<session, signals, auditOpen, auditSettled, calls, crashes,
                       pc, call, active, view>>
    BY <1>11 DEF SettlePosition, SettlerLocals
  <2>1. PICK p \in MaybePrice :
          positions' = [positions EXCEPT
                          ![s] = SettledRow(positions[s], view[c][s], signals[s], p)]
    BY <1>11 DEF SettlePosition
  <2> DEFINE x == Coalesce(p, view[c][s].last)
  <2>2. /\ positions'[s].entry = positions[s].entry
        /\ positions'[s].last = positions[s].last
        /\ positions'[s].exit = x
        /\ positions'[s].status = Outcome(signals[s], positions[s].entry, x)
        /\ \A t \in Sids : t # s => positions'[t] = positions[t]
    BY <2>0, <2>1 DEF SettledRow, PositionRows
  <2>3. /\ positions'[s].status \in Terminal
        /\ positions'[s].status = "EXPIRED" <=> positions[s].entry = Null
    <3>1. view[c][s].last \in MaybePrice
      BY DEF PositionRows
    <3>2. x = Null => positions[s].entry = Null
      BY <2>0, <3>1, CoalesceType
    <3> QED
      BY <2>2, <3>2, OutcomeType
  <2>4. /\ Exists(s)' /\ IsSettled(s)'
        /\ \A t \in Sids : t # s => (Exists(t)' <=> Exists(t)) /\ (IsSettled(t)' <=> IsSettled(t))
        /\ Recorded' = Recorded
    BY <2>0, <2>2, <2>3 DEF Exists, IsSettled, Terminal, Recorded
  <2> HIDE DEF x
  <2>11. FreshIds'
    BY <2>0, <2>4 DEF FreshIds, Drawn, Inserting
  <2>12. RowsComplete'
    BY <2>0, <2>2, <2>4 DEF RowsComplete, Exists
  <2>13. RecorderLocals'
    BY <2>0, <2>4 DEF RecorderLocals, Inserting
  <2>14. SettlerLocals'
    BY <2>0, <2>2, <2>4 DEF SettlerLocals
  <2>15. ForeignKeys'
    BY <2>0, <2>4 DEF ForeignKeys, RowsComplete
  <2>16. SettlementCoherent'
    BY <2>0, <2>2, <2>3, <2>4, ZenonT(40) DEF SettlementCoherent, Terminal
  <2>17. AuditTrailSound'
    BY <2>0, <2>4 DEF AuditTrailSound
  <2>18. SettleOncePerClient'
    BY <2>0 DEF SettleOncePerClient
  <2> QED
    BY <1>0, <2>11, <2>12, <2>13, <2>14, <2>15, <2>16, <2>17, <2>18
<1>12. ASSUME NEW c \in Clients, Crash(c) PROVE Inv'
  <2>1. FreshIds'
    BY <1>12 DEF Crash, FreshIds, Drawn, Inserting, Recorded
  <2>2. RowsComplete'
    BY <1>12 DEF Crash, RowsComplete, Exists, Recorded
  <2>3. RecorderLocals'
    BY <1>12 DEF Crash, RecorderLocals, RowsComplete, Inserting, Recorded, Exists
  <2>4. SettlerLocals'
    BY <1>12 DEF Crash, SettlerLocals, RecorderLocals, RowsComplete, AuditTrailSound, Exists, IsSettled, Terminal
  <2>5. ForeignKeys'
    BY <1>12 DEF Crash, ForeignKeys, RowsComplete, RecorderLocals, Exists, Recorded
  <2>6. SettlementCoherent'
    BY <1>12 DEF Crash, SettlementCoherent, IsSettled, Terminal
  <2>7. AuditTrailSound'
    BY <1>12 DEF Crash, AuditTrailSound, SettlerLocals, RecorderLocals, Exists, IsSettled, Terminal
  <2>8. SettleOncePerClient'
    BY <1>12 DEF Crash, SettleOncePerClient, SettlerLocals
  <2> QED
    BY <1>0, <2>1, <2>2, <2>3, <2>4, <2>5, <2>6, <2>7, <2>8
<1>13. CASE UNCHANGED vars
  BY <1>13 DEF vars, locals, FreshIds, RowsComplete, RecorderLocals, SettlerLocals,
     ForeignKeys, SettlementCoherent, AuditTrailSound, SettleOncePerClient,
     Drawn, Inserting, Recorded, Exists, IsSettled
<1> QED
  BY <1>1, <1>2, <1>3, <1>4, <1>5, <1>6, <1>7, <1>8, <1>9, <1>10, <1>11, <1>12, <1>13 DEF Next, Step

THEOREM Invariance == Spec => []Inv
<1>1. Init => Inv
  <2> SUFFICES ASSUME Init PROVE Inv
    OBVIOUS
  <2>1. TypeOK
    BY BoundsAssumption, RowTypes
       DEF Init, TypeOK, NoSignals, NoView, Stages, Directions, NoDirection
  <2>2. Recorded = {} /\ \A s \in Sids : ~ Exists(s) /\ ~ IsSettled(s) /\ ~ Drawn(s)
    BY DEF Init, Recorded, Exists, IsSettled, Terminal, Drawn, Inserting, NoPosition
  <2> QED
    BY <2>1, <2>2
       DEF Init, Inv, FreshIds, RowsComplete, RecorderLocals, SettlerLocals, ForeignKeys,
           SettlementCoherent, AuditTrailSound, SettleOncePerClient, Inserting, NoPosition
<1> QED
  BY <1>1, InvStep, PTL DEF Spec

(* No interleaving or crash breaks a foreign key of the schema.            *)
THEOREM ForeignKeysHold == Spec => []ForeignKeys
BY Invariance, PTL DEF Inv

(* Outcome, entry and exit of a settled row always agree.                  *)
THEOREM SettlementsCohere == Spec => []SettlementCoherent
BY Invariance, PTL DEF Inv

(* The audit file never claims what the tables do not hold.                *)
THEOREM AuditNeverAhead == Spec => []AuditTrailSound
BY Invariance, PTL DEF Inv

(* A rerun by the same process slot never settles a position again.        *)
THEOREM RerunSettlesNothingTwice == Spec => []SettleOncePerClient
BY Invariance, PTL DEF Inv

-----------------------------------------------------------------------------
(* What one step may do to a row.                                          *)

LEMMA MarkKeepsStatus ==
  ASSUME TypeOK, NEW c \in Clients, UpdatePrices(c), NEW s \in Sids
  PROVE  /\ positions'[s].status = positions[s].status
         /\ positions'[s].entry = positions[s].entry
         /\ IsSettled(s) => positions'[s].last = positions[s].last
<1>1. PICK ltp \in [Symbols -> MaybePrice] :
        positions' = [t \in Sids |->
          IF Marked(c, t)
          THEN [positions[t] EXCEPT !.last = Coalesce(ltp[SymbolOf(t)], @)]
          ELSE positions[t]]
  BY DEF UpdatePrices
<1> QED
  BY <1>1 DEF Marked, TypeOK, PositionRows, IsSettled, Terminal

LEMMA SettleKeepsPrices ==
  ASSUME TypeOK, NEW c \in Clients, NEW s \in Sids, SettlePosition(c, s)
  PROVE  /\ IsSettled(s)'
         /\ positions'[s].entry = positions[s].entry
         /\ positions'[s].last = positions[s].last
         /\ \A t \in Sids : t # s => positions'[t] = positions[t]
<1>1. PICK p \in MaybePrice :
        positions' = [positions EXCEPT
                        ![s] = SettledRow(positions[s], view[c][s], signals[s], p)]
  BY DEF SettlePosition
<1> QED
  BY <1>1, OutcomeType DEF SettledRow, TypeOK, PositionRows, IsSettled

LEMMA LifecycleStep ==
  ASSUME Inv, [Next]_vars, NEW s \in Sids
  PROVE  /\ IsSettled(s) => IsSettled(s)'
         /\ Exists(s) => positions'[s].entry = positions[s].entry
         /\ IsSettled(s) => positions'[s].last = positions[s].last
         /\ s \in Recorded => signals'[s] = signals[s]
         /\ Exists(s) => Exists(s)'
<1>1. CASE \E c \in Clients : InsertSignals(c)
  BY <1>1 DEF InsertSignals, IsSettled, Exists, Recorded, Inv, TypeOK
<1>2. CASE \E c \in Clients, t \in Sids : InsertPosition(c, t)
  <2>1. PICK c \in Clients, t \in Sids : InsertPosition(c, t)
    BY <1>2
  <2>2. ~ Exists(t) /\ ~ IsSettled(t) /\ UNCHANGED signals
    BY <2>1 DEF InsertPosition, Inv, RecorderLocals, Inserting, Exists, IsSettled, Terminal
  <2>3. s # t => positions'[s] = positions[s]
    BY <2>1 DEF InsertPosition, Inv, TypeOK
  <2> QED
    BY <2>2, <2>3 DEF IsSettled, Exists
<1>3. CASE \E c \in Clients, t \in Sids : SettlePosition(c, t)
  <2>1. PICK c \in Clients, t \in Sids : SettlePosition(c, t)
    BY <1>3
  <2> QED
    BY <2>1, SettleKeepsPrices DEF SettlePosition, IsSettled, Terminal, Exists, Inv
<1>4. CASE \E c \in Clients : UpdatePrices(c)
  <2>1. PICK c \in Clients : UpdatePrices(c)
    BY <1>4
  <2> QED
    BY <2>1, MarkKeepsStatus DEF UpdatePrices, IsSettled, Exists, Inv
<1>5. CASE UNCHANGED <<positions, signals>>
  BY <1>5 DEF IsSettled, Exists
<1> QED
  BY <1>1, <1>2, <1>3, <1>4, <1>5
     DEF Next, Step, StartRecord, ReadExisting, AppendOpen, ReadOpenToMark,
         ReadOpenToSettle, AppendSettled, CloseSession, Crash, vars, tables

(* A settled position never reopens, entries and signals never change.     *)
THEOREM LifecycleIsForward == Spec => LifecycleForward
<1>1. Inv /\ [Next]_vars =>
        [\A s \in Sids :
           /\ IsSettled(s) => IsSettled(s)'
           /\ Exists(s) => positions'[s].entry = positions[s].entry
           /\ s \in Recorded => signals'[s] = signals[s]]_vars
  BY LifecycleStep
<1> QED
  BY <1>1, Invariance, PTL DEF Spec, LifecycleForward

(* A late mark-to-market never touches a row settled after it was read.    *)
THEOREM LateMarksAreHarmless == Spec => MarkLeavesSettledAlone
<1>1. Inv /\ [Next]_vars =>
        [\A s \in Sids : IsSettled(s) => positions'[s].last = positions[s].last]_vars
  BY LifecycleStep
<1> QED
  BY <1>1, Invariance, PTL DEF Spec, MarkLeavesSettledAlone

-----------------------------------------------------------------------------
(* What one client inserts was drawn by one call of record_signals.        *)
OneCallEach ==
  \A c \in Clients : Inserting(c) => \A s, t \in todo[c] : CallOf(s) = CallOf(t)

LEMMA OneCallStep == TypeOK /\ OneCallEach /\ [Next]_vars => OneCallEach'
<1> SUFFICES ASSUME TypeOK, OneCallEach, [Next]_vars PROVE OneCallEach'
  OBVIOUS
<1> USE DEF TypeOK, OneCallEach, Inserting
<1>1. ASSUME NEW c \in Clients, ReadExisting(c) PROVE OneCallEach'
  <2>1. /\ todo' = [todo EXCEPT ![c] = NewIds(c)]
        /\ pc' = [pc EXCEPT ![c] = "insert_signals"]
        /\ \A s, t \in NewIds(c) : CallOf(s) = CallOf(t)
    BY <1>1 DEF ReadExisting, NewIds
  <2> QED
    BY <2>1
<1>2. ASSUME NEW c \in Clients, NEW s \in Sids, InsertPosition(c, s) \/ SettlePosition(c, s)
      PROVE  OneCallEach'
  <2>1. todo' = [todo EXCEPT ![c] = todo[c] \ {s}] /\ pc' = pc
    BY <1>2 DEF InsertPosition, SettlePosition
  <2> SUFFICES ASSUME NEW d \in Clients, Inserting(d)', NEW u \in todo'[d], NEW t \in todo'[d]
               PROVE  CallOf(u) = CallOf(t)
    OBVIOUS
  <2>2. Inserting(d) /\ u \in todo[d] /\ t \in todo[d]
    BY <2>1
  <2> QED
    BY <2>2
<1>3. ASSUME NEW c \in Clients, StartRecord(c) \/ InsertSignals(c) \/ AppendOpen(c)
      PROVE  OneCallEach'
  BY <1>3 DEF StartRecord, InsertSignals, AppendOpen
<1>4. ASSUME NEW c \in Clients, ReadOpenToMark(c) \/ UpdatePrices(c) \/ ReadOpenToSettle(c)
      PROVE  OneCallEach'
  BY <1>4 DEF ReadOpenToMark, UpdatePrices, ReadOpenToSettle
<1>5. ASSUME NEW c \in Clients, AppendSettled(c) \/ CloseSession(c) \/ Crash(c)
      PROVE  OneCallEach'
  BY <1>5 DEF AppendSettled, CloseSession, Crash
<1>6. CASE UNCHANGED vars
  BY <1>6 DEF vars, locals
<1> QED
  BY <1>1, <1>2, <1>3, <1>4, <1>5, <1>6 DEF Next, Step

(* A signal becomes an orphan only when the process inserting its position *)
(* is killed.                                                              *)
LEMMA OrphanStep ==
  ASSUME Inv, [Next]_vars, NEW s \in Sids, Orphaned(s)'
  PROVE  Orphaned(s) \/ \E d \in Clients : Crash(d) /\ Inserting(d) /\ s \in todo[d]
<1> USE DEF Inv, TypeOK, tables, audit, counts
<1>1. CASE \E d \in Clients : InsertSignals(d) /\ s \notin Recorded
  BY <1>1 DEF InsertSignals, Recorded, Orphaned
<1>2. CASE ~ \E d \in Clients : InsertSignals(d) /\ s \notin Recorded
  <2>1. s \in Recorded
    BY <1>2
       DEF Orphaned, Recorded, Next, Step, StartRecord, ReadExisting, AppendOpen, ReadOpenToMark,
           UpdatePrices, ReadOpenToSettle, AppendSettled, CloseSession, InsertPosition,
           SettlePosition, Crash, vars
  <2>2. ~ Exists(s)
    BY LifecycleStep DEF Orphaned
  <2>3. ASSUME NEW c \in Clients, pc[c] = "insert_positions", s \in todo[c], ~ Crash(c)
        PROVE  FALSE
    <3>0. SUFFICES Exists(s)' \/ (pc'[c] = "insert_positions" /\ s \in todo'[c])
      BY DEF Orphaned
    <3>1. ASSUME NEW d \in Clients, NEW t \in Sids, InsertPosition(d, t)
          PROVE  Exists(s)' \/ (pc'[c] = "insert_positions" /\ s \in todo'[c])
      BY <2>3, <3>1 DEF InsertPosition, Upserted, Exists
    <3>2. ASSUME NEW d \in Clients, NEW t \in Sids, SettlePosition(d, t)
          PROVE  pc'[c] = "insert_positions" /\ s \in todo'[c]
      BY <2>3, <3>2 DEF SettlePosition
    <3>3. CASE \E d \in Clients : StartRecord(d) \/ ReadExisting(d) \/ InsertSignals(d) \/ AppendOpen(d)
      BY <2>3, <3>3 DEF StartRecord, ReadExisting, InsertSignals, AppendOpen
    <3>4. CASE \E d \in Clients : ReadOpenToMark(d) \/ UpdatePrices(d) \/ ReadOpenToSettle(d)
      BY <2>3, <3>4 DEF ReadOpenToMark, UpdatePrices, ReadOpenToSettle
    <3>5. CASE \E d \in Clients : AppendSettled(d) \/ CloseSession(d)
      BY <2>3, <3>5 DEF AppendSettled, CloseSession
    <3>6. CASE \E d \in Clients : Crash(d)
      BY <2>3, <3>6 DEF Crash
    <3>7. CASE UNCHANGED vars
      BY <2>3, <3>7 DEF vars, locals
    <3> QED
      BY <3>1, <3>2, <3>3, <3>4, <3>5, <3>6, <3>7 DEF Next, Step
  <2> QED
    BY <2>1, <2>2, <2>3 DEF Orphaned, Inserting
<1> QED
  BY <1>1, <1>2

OrphanCalls == {CallOf(s) : s \in {t \in Sids : Orphaned(t)}}

LEMMA OrphanCallsStep ==
  ASSUME Inv, OneCallEach, OrphanSignalOnlyByCrash, [Next]_vars
  PROVE  OrphanSignalOnlyByCrash'
<1>1. IsFiniteSet(OrphanCalls) /\ Cardinality(OrphanCalls) \in Nat
  <2>1. OrphanCalls \subseteq 1 .. MaxCalls
    BY IdCalls DEF OrphanCalls
  <2>2. IsFiniteSet(1 .. MaxCalls)
    BY BoundsAssumption, FS_Interval
  <2> QED
    BY <2>1, <2>2, FS_Subset, FS_CardinalityType
<1>2. Cardinality(OrphanCalls) <= crashes /\ crashes \in Nat
  BY DEF OrphanSignalOnlyByCrash, OrphanCalls, Inv, TypeOK
<1>3. CASE \E d \in Clients : Crash(d)
  <2>1. PICK d \in Clients : Crash(d)
    BY <1>3
  <2>2. PICK k : \A s \in Sids : Inserting(d) /\ s \in todo[d] => CallOf(s) = k
    BY DEF OneCallEach
  <2>3. \A e \in Clients : Crash(e) /\ Inserting(e) => e = d
    BY <2>1 DEF Crash, Inserting, Inv, TypeOK
  <2>4. OrphanCalls' \subseteq OrphanCalls \cup {k}
    <3>1. ASSUME NEW s \in Sids, Orphaned(s)' PROVE CallOf(s) \in OrphanCalls \cup {k}
      BY <2>2, <2>3, <3>1, OrphanStep DEF OrphanCalls
    <3> QED
      BY <3>1 DEF OrphanCalls
  <2>5. /\ IsFiniteSet(OrphanCalls \cup {k})
        /\ Cardinality(OrphanCalls \cup {k}) <= Cardinality(OrphanCalls) + 1
    BY <1>1, FS_AddElement
  <2>6. /\ Cardinality(OrphanCalls') <= Cardinality(OrphanCalls \cup {k})
        /\ Cardinality(OrphanCalls') \in Nat /\ Cardinality(OrphanCalls \cup {k}) \in Nat
    BY <2>4, <2>5, FS_Subset, FS_CardinalityType
  <2>7. crashes' = crashes + 1
    BY <2>1 DEF Crash
  <2> QED
    BY <1>1, <1>2, <2>5, <2>6, <2>7 DEF OrphanSignalOnlyByCrash, OrphanCalls
<1>4. CASE ~ \E d \in Clients : Crash(d)
  <2>1. OrphanCalls' \subseteq OrphanCalls
    BY <1>4, OrphanStep DEF OrphanCalls
  <2>2. Cardinality(OrphanCalls') <= Cardinality(OrphanCalls) /\ Cardinality(OrphanCalls') \in Nat
    BY <1>1, <2>1, FS_Subset, FS_CardinalityType
  <2>3. crashes' = crashes
    BY <1>4
       DEF Next, Step, StartRecord, ReadExisting, InsertSignals, AppendOpen, ReadOpenToMark,
           UpdatePrices, ReadOpenToSettle, AppendSettled, CloseSession, InsertPosition,
           SettlePosition, counts, vars
  <2> QED
    BY <1>1, <1>2, <2>2, <2>3 DEF OrphanSignalOnlyByCrash, OrphanCalls
<1> QED
  BY <1>3, <1>4

(* The calls with orphaned signals never outnumber the kills               *)
(* (OrphanSignalOnlyByCrash).                                              *)
THEOREM OrphansNeedACrash == Spec => []OrphanSignalOnlyByCrash
<1>1. Init => OneCallEach
  BY DEF Init, OneCallEach, Inserting
<1>2. Init => OrphanSignalOnlyByCrash
  <2> SUFFICES ASSUME Init PROVE OrphanSignalOnlyByCrash
    OBVIOUS
  <2>1. {CallOf(s) : s \in {t \in Sids : Orphaned(t)}} = {}
    BY DEF Init, Orphaned, Recorded
  <2> QED
    BY <2>1, FS_EmptySet DEF Init, OrphanSignalOnlyByCrash
<1>3. Inv => TypeOK
  BY DEF Inv
<1> QED
  BY <1>1, <1>2, <1>3, OneCallStep, OrphanCallsStep, Invariance, PTL DEF Spec

-----------------------------------------------------------------------------
(***************************************************************************)
(* One process at a time.  Its read of the recorded symbols stays true     *)
(* until it inserts, and its list of open positions until it settles them, *)
(* so the tables implement the TradingBook.                                *)
(***************************************************************************)
SerialInv ==
  /\ \A s, t \in Sids : Drawn(s) /\ Drawn(t) /\ SymbolOf(s) = SymbolOf(t) => s = t
  /\ \A c \in Clients : pc[c] = "settle" => \A s \in todo[c] : positions[s].status = "OPEN"

LEMMA IdIsPair == \A s, t \in Sids : SymbolOf(s) = SymbolOf(t) /\ CallOf(s) = CallOf(t) => s = t
BY DEF Sids, SymbolOf, CallOf

LEMMA SerialStep ==
  ASSUME \A c, d \in Clients : c = d, Inv, SerialInv, [Next]_vars
  PROVE  SerialInv'
<1> USE DEF Inv, TypeOK, tables, audit, counts
<1>1. ASSUME NEW c \in Clients, ReadExisting(c) PROVE SerialInv'
  <2>1. /\ pc[c] = "read_existing" /\ pc'[c] = "insert_signals"
        /\ todo'[c] = NewIds(c) /\ UNCHANGED signals
    BY <1>1 DEF ReadExisting
  <2>2. \A s \in Sids : Drawn(s)' => s \in Recorded \/ s \in NewIds(c)
    BY <2>1 DEF Drawn, Recorded
  <2>3. \A s \in NewIds(c), t \in Recorded : SymbolOf(s) # SymbolOf(t)
    BY DEF NewIds, RecordedSymbols
  <2>4. \A s, t \in NewIds(c) : SymbolOf(s) = SymbolOf(t) => s = t
    BY IdIsPair DEF NewIds
  <2>5. \A s \in Recorded : Drawn(s) /\ s \in Sids
    BY DEF Drawn, Recorded
  <2>6. \A s, t \in Sids : Drawn(s)' /\ Drawn(t)' /\ SymbolOf(s) = SymbolOf(t) => s = t
    BY <2>2, <2>3, <2>4, <2>5 DEF SerialInv
  <2> QED
    BY <2>1, <2>6 DEF SerialInv
<1>2. ASSUME NEW c \in Clients, InsertSignals(c) PROVE SerialInv'
  <2>1. \A s \in Sids : Drawn(s)' => Drawn(s)
    BY <1>2 DEF InsertSignals, Drawn, Recorded, Inserting
  <2> QED
    BY <1>2, <2>1 DEF InsertSignals, SerialInv
<1>3. ASSUME NEW c \in Clients, NEW r \in Sids, InsertPosition(c, r) PROVE SerialInv'
  <2>1. \A s \in Sids : Drawn(s)' => Drawn(s)
    BY <1>3 DEF InsertPosition, Drawn, Recorded, Inserting
  <2>2. \A d \in Clients : pc'[d] # "settle"
    BY <1>3 DEF InsertPosition
  <2> QED
    BY <2>1, <2>2 DEF SerialInv
<1>4. ASSUME NEW c \in Clients, NEW r \in Sids, SettlePosition(c, r) PROVE SerialInv'
  <2>1. \A s \in Sids : Drawn(s)' => Drawn(s)
    BY <1>4 DEF SettlePosition, Drawn, Recorded, Inserting
  <2>2. \A s \in todo'[c] : s \in todo[c] /\ s # r
    BY <1>4 DEF SettlePosition
  <2>3. pc[c] = "settle"
    BY <1>4 DEF SettlePosition
  <2> QED
    BY <1>4, <2>1, <2>2, <2>3, SettleKeepsPrices DEF SerialInv
<1>5. ASSUME NEW c \in Clients, UpdatePrices(c) PROVE SerialInv'
  <2>1. \A s \in Sids : Drawn(s)' => Drawn(s)
    BY <1>5 DEF UpdatePrices, Drawn, Recorded, Inserting
  <2> QED
    BY <1>5, <2>1 DEF UpdatePrices, SerialInv
<1>6. ASSUME NEW c \in Clients, ReadOpenToSettle(c) PROVE SerialInv'
  <2>1. \A s \in Sids : Drawn(s)' => Drawn(s)
    BY <1>6 DEF ReadOpenToSettle, Drawn, Recorded, Inserting
  <2>2. \A s \in todo'[c] : positions'[s].status = "OPEN"
    BY <1>6 DEF ReadOpenToSettle, OpenPositions
  <2> QED
    BY <2>1, <2>2 DEF SerialInv
<1>7. ASSUME NEW c \in Clients,
             \/ StartRecord(c) \/ AppendOpen(c) \/ ReadOpenToMark(c)
             \/ AppendSettled(c) \/ CloseSession(c) \/ Crash(c)
      PROVE  SerialInv'
  <2>1. \A s \in Sids : Drawn(s)' => Drawn(s)
    BY <1>7 DEF StartRecord, AppendOpen, ReadOpenToMark, AppendSettled, CloseSession, Crash,
       Drawn, Recorded, Inserting
  <2>2. \A d \in Clients : pc'[d] = "settle" => pc[d] = "settle" /\ todo'[d] = todo[d]
    BY <1>7 DEF StartRecord, AppendOpen, ReadOpenToMark, AppendSettled, CloseSession, Crash
  <2>3. UNCHANGED positions
    BY <1>7 DEF StartRecord, AppendOpen, ReadOpenToMark, AppendSettled, CloseSession, Crash
  <2> QED
    BY <2>1, <2>2, <2>3 DEF SerialInv
<1>8. CASE UNCHANGED vars
  BY <1>8 DEF vars, locals, SerialInv, Drawn, Recorded, Inserting
<1> QED
  BY <1>1, <1>2, <1>3, <1>4, <1>5, <1>6, <1>7, <1>8 DEF Next, Step

LEMMA BookStep ==
  ASSUME \A c, d \in Clients : c = d, Inv, SerialInv, [Next]_vars
  PROVE  Book!BookNext \/ UNCHANGED [y \in Symbols |-> BookOf(y)]
<1> USE DEF Inv, TypeOK, tables, audit, counts
<1> DEFINE bk == [y \in Symbols |-> BookOf(y)]
<1>1. ASSUME NEW c \in Clients, NEW s \in Sids, InsertPosition(c, s) PROVE Book!BookNext
  <2>1. /\ s \in todo[c] /\ pc[c] = "insert_positions" /\ Drawn(s) /\ ~ Exists(s)
    BY <1>1 DEF InsertPosition, RecorderLocals, Inserting, Drawn
  <2>2. \A t \in Sids : SymbolOf(t) = SymbolOf(s) => ~ Exists(t)
    BY <2>1 DEF SerialInv, RowsComplete, Drawn
  <2>3. /\ positions'[s].status = "OPEN"
        /\ \A t \in Sids : t # s => positions'[t] = positions[t]
    BY <1>1 DEF InsertPosition, Upserted
  <2>4. BookOf(SymbolOf(s)) = {}
    BY <2>2 DEF BookOf
  <2>5. BookOf(SymbolOf(s))' = {<<s, "OPEN">>}
    BY <2>2, <2>3 DEF BookOf, Exists
  <2>6. \A y \in Symbols : y # SymbolOf(s) => BookOf(y)' = BookOf(y)
    <3> TAKE y \in Symbols
    <3> HAVE y # SymbolOf(s)
    <3>1. \A t \in Sids : SymbolOf(t) = y => t # s
      OBVIOUS
    <3> QED
      BY <2>3, <3>1 DEF BookOf, Exists
  <2>7. bk' = [bk EXCEPT ![SymbolOf(s)] = {<<s, "OPEN">>}]
    BY <2>5, <2>6, IdCalls
  <2> QED
    BY <2>4, <2>7, IdCalls DEF Book!BookNext, Book!OpenPosition
<1>2. ASSUME NEW c \in Clients, NEW s \in Sids, SettlePosition(c, s) PROVE Book!BookNext
  <2>1. positions[s].status = "OPEN" /\ Exists(s)
    BY <1>2 DEF SettlePosition, SerialInv, Exists
  <2>2. \A t \in Sids : SymbolOf(t) = SymbolOf(s) /\ t # s => ~ Exists(t)
    BY <2>1 DEF SerialInv, RowsComplete, Drawn
  <2>3. /\ positions'[s].status \in Terminal
        /\ \A t \in Sids : t # s => positions'[t] = positions[t]
    BY <1>2, SettleKeepsPrices DEF IsSettled
  <2>4. BookOf(SymbolOf(s)) = {<<s, "OPEN">>}
    BY <2>1, <2>2 DEF BookOf
  <2>5. BookOf(SymbolOf(s))' = {<<s, positions'[s].status>>}
    BY <2>2, <2>3 DEF BookOf, Exists, Terminal
  <2>6. \A y \in Symbols : y # SymbolOf(s) => BookOf(y)' = BookOf(y)
    BY <2>3 DEF BookOf, Exists
  <2>7. bk' = [bk EXCEPT ![SymbolOf(s)] = {<<s, positions'[s].status>>}]
    BY <2>5, <2>6, IdCalls
  <2>8. Book!ClosePosition(SymbolOf(s))
    <3> DEFINE o == positions'[s].status
    <3>1. bk[SymbolOf(s)] = {<<s, "OPEN">>} /\ bk' = [bk EXCEPT ![SymbolOf(s)] = {<<s, o>>}]
      BY <2>4, <2>7, IdCalls
    <3>2. s \in Sids /\ o \in Terminal
      BY <2>3
    <3> HIDE DEF bk, o
    <3>3. \E i \in Sids, k \in Terminal :
            bk[SymbolOf(s)] = {<<i, "OPEN">>} /\ bk' = [bk EXCEPT ![SymbolOf(s)] = {<<i, k>>}]
      BY <3>1, <3>2
    <3> QED
      BY <3>3 DEF Book!ClosePosition, bk
  <2> QED
    BY <2>8, IdCalls DEF Book!BookNext
<1>3. ASSUME \A s \in Sids : positions'[s].status = positions[s].status
      PROVE  UNCHANGED bk
  BY <1>3 DEF BookOf, Exists
<1>4. ASSUME NEW c \in Clients, UpdatePrices(c) PROVE UNCHANGED bk
  BY <1>3, <1>4, MarkKeepsStatus
<1>5. CASE UNCHANGED positions
  BY <1>3, <1>5
<1> QED
  BY <1>1, <1>2, <1>4, <1>5
     DEF Next, Step, StartRecord, ReadExisting, InsertSignals, AppendOpen, ReadOpenToMark,
         ReadOpenToSettle, AppendSettled, CloseSession, Crash, vars

(* With one ledger process at a time, the ledger implements the            *)
(* TradingBook, whatever it is asked, rerun or killed in between.          *)
THEOREM SerialLedgerIsABook ==
  ASSUME \A c, d \in Clients : c = d
  PROVE  Spec => BookRefinement
<1>1. Init => SerialInv
  BY DEF Init, SerialInv, Drawn, Recorded, Inserting
<1>2. Init => Book!BookInit
  BY DEF Init, Book!BookInit, BookOf, Exists, NoPosition
<1>3. Inv /\ SerialInv /\ [Next]_vars => SerialInv'
  BY SerialStep
<1>4. Inv /\ SerialInv /\ [Next]_vars => [Book!BookNext]_([y \in Symbols |-> BookOf(y)])
  BY BookStep
<1> QED
  BY <1>1, <1>2, <1>3, <1>4, Invariance, PTL DEF Spec, BookRefinement, Book!BookSpec

(* With one ledger process at a time, a symbol gets one signal per date.   *)
THEOREM SerialSignalsAreUnique ==
  ASSUME \A c, d \in Clients : c = d
  PROVE  Spec => []OneSignalPerSymbol
<1>1. Init => SerialInv
  BY DEF Init, SerialInv, Drawn, Recorded, Inserting
<1>2. Inv /\ SerialInv /\ [Next]_vars => SerialInv'
  BY SerialStep
<1>3. SerialInv => OneSignalPerSymbol
  BY DEF SerialInv, OneSignalPerSymbol, Drawn, Recorded
<1> QED
  BY <1>1, <1>2, <1>3, Invariance, PTL DEF Spec

=============================================================================
