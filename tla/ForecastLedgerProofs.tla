------------------------ MODULE ForecastLedgerProofs ------------------------
(***************************************************************************)
(* The ledger's invariant for any universe and any number of sessions and  *)
(* samples.  It has to say of every step under way what the file will hold *)
(* when it ends: which rows are in the buffer, which symbol's old row has  *)
(* been superseded, and that the table holds rows of the file only.        *)
(***************************************************************************)
EXTENDS ForecastLedger, TLAPS

\* The two rewrites exclude each other, and empty the file while they last.
Control ==
  /\ turn # NoRow => autorun = "recording" /\ turn \in todo
  /\ autorun = "recording" => sample > 0
  /\ autorun # "recording" => todo = {} /\ buffer = {}
  /\ Rewriting => file = Empty

\* The rows written so far are of earlier days, earlier samples, or symbols
\* that the recording under way has done with.
Past(r) ==
  \/ r.day < day
  \/ r.day = day /\ r.sample < sample
  \/ r.day = day /\ r.sample = sample /\ r.symbol \notin todo
Fresh == \A r \in Rows : Ledger[r] # "absent" \/ r \in buffer => Past(r)

\* A buffered row is of this sample, and the ledger has no live one beside it.
NothingLive(s) == \A r \in Rows : r.symbol = s /\ r.day = day => ~Live(Ledger[r])
BufferAlone == \A r \in buffer : r.day = day /\ r.sample = sample /\ NothingLive(r.symbol)
TurnCleared == turn # NoRow => NothingLive(turn)

\* Nothing is graded before the close, and nothing recorded after it.
GradedLast == \A r \in Rows : r.day = day /\ Ledger[r] \in Verdicts => closed /\ autorun # "recording"

\* The table has rows of the file only, one of them live.
MirrorBehind ==
  wiped \/ /\ \A r \in Rows : pg[r] # "absent" => Ledger[r] # "absent"
           /\ OneLive(pg)

IInv ==
  /\ TypeOK /\ Control /\ Fresh /\ BufferAlone /\ TurnCleared
  /\ OneLive(Ledger) /\ GradedLast /\ MirrorBehind /\ LostOnlyByKill

LEMMA InitIInv == Init => IInv
<1> SUFFICES ASSUME Init PROVE IInv
  OBVIOUS
<1>1. TypeOK
  <2>1. Empty \in [Rows -> Statuses]
    BY DEF Empty, Statuses
  <2>2. 1 \in 1 .. MaxDays /\ 0 \in 0 .. MaxSamples
    BY BoundsAssumption
  <2> QED
    BY <2>1, <2>2 DEF Init, TypeOK
<1>2. \A r \in Rows : Ledger[r] = "absent" /\ pg[r] = "absent"
  BY DEF Init, Ledger, Rewriting, Empty
<1>3. Control /\ Fresh
  BY <1>2 DEF Init, Control, Fresh, Rewriting
<1>4. BufferAlone /\ TurnCleared
  BY DEF Init, BufferAlone, TurnCleared
<1>5. OneLive(Ledger) /\ MirrorBehind
  BY <1>2 DEF MirrorBehind, OneLive, Live, Verdicts
<1>6. GradedLast /\ LostOnlyByKill
  BY <1>2 DEF Init, GradedLast, LostOnlyByKill, Verdicts
<1> QED
  BY <1>1, <1>3, <1>4, <1>5, <1>6 DEF IInv

LEMMA Equal == \A r, q \in Rows : r.symbol = q.symbol /\ r.day = q.day /\ r.sample = q.sample => r = q
BY DEF Rows

\* A step that moves neither store nor ledger and only ends or begins a phase.
LEMMA LaunchKeeps == IInv /\ Launch => IInv'
BY DEF Launch, store, clock, history, IInv, TypeOK, Control, Fresh, BufferAlone, TurnCleared, OneLive, GradedLast, MirrorBehind,
       LostOnlyByKill, Ledger, Rewriting, Empty, Live, Verdicts, Statuses, Past, NothingLive

LEMMA MarketCloseKeeps == IInv /\ MarketClose => IInv'
BY DEF MarketClose, store, clock, history, IInv, TypeOK, Control, Fresh, BufferAlone, TurnCleared, OneLive, GradedLast, MirrorBehind,
       LostOnlyByKill, Ledger, Rewriting, Empty, Live, Verdicts, Statuses, Past, NothingLive

LEMMA ExitKeeps == IInv /\ Exit => IInv'
BY DEF Exit, store, clock, history, IInv, TypeOK, Control, Fresh, BufferAlone, TurnCleared, OneLive, GradedLast, MirrorBehind,
       LostOnlyByKill, Ledger, Rewriting, Empty, Live, Verdicts, Statuses, Past, NothingLive

LEMMA NextDayKeeps == IInv /\ NextDay => IInv'
<1> SUFFICES ASSUME IInv, NextDay PROVE IInv'
  OBVIOUS
<1>1. TypeOK'
  <2>1. day + 1 \in 1 .. MaxDays /\ 0 \in 0 .. MaxSamples
    BY BoundsAssumption DEF NextDay, IInv, TypeOK
  <2> QED
    BY <2>1 DEF NextDay, store, history, IInv, TypeOK
<1>2. Control'
  BY DEF NextDay, Rows, store, clock, history, IInv, TypeOK, Control, Fresh, BufferAlone, TurnCleared, OneLive, GradedLast, MirrorBehind,
       LostOnlyByKill, Ledger, Rewriting, Empty, Live, Verdicts, Statuses, Past, NothingLive
<1>3. Fresh'
  BY DEF NextDay, Rows, store, clock, history, IInv, TypeOK, Control, Fresh, BufferAlone, TurnCleared, OneLive, GradedLast, MirrorBehind,
       LostOnlyByKill, Ledger, Rewriting, Empty, Live, Verdicts, Statuses, Past, NothingLive
<1>4. BufferAlone'
  BY DEF NextDay, Rows, store, clock, history, IInv, TypeOK, Control, Fresh, BufferAlone, TurnCleared, OneLive, GradedLast, MirrorBehind,
       LostOnlyByKill, Ledger, Rewriting, Empty, Live, Verdicts, Statuses, Past, NothingLive
<1>5. TurnCleared'
  BY DEF NextDay, Rows, store, clock, history, IInv, TypeOK, Control, Fresh, BufferAlone, TurnCleared, OneLive, GradedLast, MirrorBehind,
       LostOnlyByKill, Ledger, Rewriting, Empty, Live, Verdicts, Statuses, Past, NothingLive
<1>6. OneLive(Ledger)'
  BY DEF NextDay, Rows, store, clock, history, IInv, TypeOK, Control, Fresh, BufferAlone, TurnCleared, OneLive, GradedLast, MirrorBehind,
       LostOnlyByKill, Ledger, Rewriting, Empty, Live, Verdicts, Statuses, Past, NothingLive
<1>7. MirrorBehind'
  BY DEF NextDay, Rows, store, clock, history, IInv, TypeOK, Control, Fresh, BufferAlone, TurnCleared, OneLive, GradedLast, MirrorBehind,
       LostOnlyByKill, Ledger, Rewriting, Empty, Live, Verdicts, Statuses, Past, NothingLive
<1>8. LostOnlyByKill'
  <2>1. Ledger' = Ledger /\ turn = NoRow /\ turn' = NoRow /\ buffer' = buffer
    BY DEF NextDay, store, history, IInv, Control, Ledger, Rewriting
  <2> QED
    BY <2>1, SymbolsAssumption DEF NextDay, history, IInv, LostOnlyByKill, Rows
<1>9. GradedLast'
  BY DEF NextDay, store, Rows, Verdicts, IInv, TypeOK, Control, Fresh, GradedLast, Ledger, Rewriting, Past
<1> QED
  BY <1>9, <1>1, <1>2, <1>3, <1>4, <1>5, <1>6, <1>7, <1>8 DEF IInv

LEMMA WriteResolvedKeeps == IInv /\ WriteResolved => IInv'
BY DEF WriteResolved, store, clock, history, IInv, TypeOK, Control, Fresh, BufferAlone, TurnCleared, OneLive, GradedLast, MirrorBehind,
       LostOnlyByKill, Ledger, Rewriting, Empty, Live, Verdicts, Statuses, Past, NothingLive

LEMMA KillKeeps == IInv /\ Kill => IInv'
<1> SUFFICES ASSUME IInv, Kill PROVE IInv'
  OBVIOUS
<1>1. TypeOK'
  BY DEF Kill, store, clock, history, IInv, TypeOK, Control, Fresh, BufferAlone, TurnCleared, OneLive, GradedLast, MirrorBehind,
       LostOnlyByKill, Ledger, Rewriting, Empty, Live, Verdicts, Statuses, Past, NothingLive
<1>2. Control'
  BY DEF Kill, store, clock, history, IInv, TypeOK, Control, Fresh, BufferAlone, TurnCleared, OneLive, GradedLast, MirrorBehind,
       LostOnlyByKill, Ledger, Rewriting, Empty, Live, Verdicts, Statuses, Past, NothingLive
<1>3. Fresh'
  BY DEF Kill, store, clock, history, IInv, TypeOK, Control, Fresh, BufferAlone, TurnCleared, OneLive, GradedLast, MirrorBehind,
       LostOnlyByKill, Ledger, Rewriting, Empty, Live, Verdicts, Statuses, Past, NothingLive
<1>4. BufferAlone'
  BY DEF Kill, store, clock, history, IInv, TypeOK, Control, Fresh, BufferAlone, TurnCleared, OneLive, GradedLast, MirrorBehind,
       LostOnlyByKill, Ledger, Rewriting, Empty, Live, Verdicts, Statuses, Past, NothingLive
<1>5. TurnCleared'
  BY DEF Kill, store, clock, history, IInv, TypeOK, Control, Fresh, BufferAlone, TurnCleared, OneLive, GradedLast, MirrorBehind,
       LostOnlyByKill, Ledger, Rewriting, Empty, Live, Verdicts, Statuses, Past, NothingLive
<1>6. OneLive(Ledger)'
  BY DEF Kill, store, clock, history, IInv, TypeOK, Control, Fresh, BufferAlone, TurnCleared, OneLive, GradedLast, MirrorBehind,
       LostOnlyByKill, Ledger, Rewriting, Empty, Live, Verdicts, Statuses, Past, NothingLive
<1>7. Ledger' = Ledger \/ (wiped' /\ \A r \in Rows : Ledger'[r] = "absent")
  <2>1. Ledger' = file
    BY DEF Kill, Ledger, Rewriting
  <2>2. CASE ~Rewriting
    BY <2>1, <2>2 DEF Ledger
  <2>3. CASE Rewriting /\ image = Empty
    BY <2>1, <2>3 DEF IInv, Control, Ledger
  <2>4. CASE Rewriting /\ image # Empty
    BY <2>1, <2>4 DEF Kill, IInv, Control, Empty
  <2> QED
    BY <2>2, <2>3, <2>4
<1>8. wiped => wiped'
  BY DEF Kill
<1>9. MirrorBehind'
  BY <1>7, <1>8 DEF Kill, clock, IInv, MirrorBehind, OneLive
<1>10. ASSUME NEW r \in Rows, Ledger'[r] = "superseded", ~cut'
       PROVE  \E q \in Rows : /\ q.symbol = r.symbol /\ q.day = r.day
                              /\ q \in buffer' \/ Live(Ledger'[q])
  <2>1. Ledger' = Ledger
    BY <1>7, <1>10
  <2>2. autorun # "recording" /\ turn = NoRow /\ buffer = {} /\ ~cut
    BY <1>10 DEF Kill, IInv, Control
  <2>3. PICK q \in Rows : q.symbol = r.symbol /\ q.day = r.day /\ Live(Ledger[q])
    BY <1>10, <2>1, <2>2, SymbolsAssumption DEF IInv, LostOnlyByKill, Rows
  <2> QED
    BY <2>1, <2>3 DEF Live
<1>11. LostOnlyByKill'
  BY <1>7, <1>8, <1>10 DEF Kill, IInv, LostOnlyByKill
<1>12. GradedLast'
  BY <1>7 DEF Kill, clock, Verdicts, IInv, GradedLast
<1> QED
  BY <1>12, <1>1, <1>2, <1>3, <1>4, <1>5, <1>6, <1>9, <1>11 DEF IInv

LEMMA MirrorKeeps == IInv /\ Mirror => IInv'
BY DEF Mirror, Upserted, store, clock, history, IInv, TypeOK, Control, Fresh, BufferAlone, TurnCleared, OneLive, GradedLast, MirrorBehind,
       LostOnlyByKill, Ledger, Rewriting, Empty, Live, Verdicts, Statuses, Past, NothingLive

LEMMA RecordSessionKeeps ==
  ASSUME IInv, NEW scored \in SUBSET Symbols, RecordSession(scored) PROVE IInv'
<1>1. /\ Ledger' = Ledger /\ ~Rewriting /\ buffer = {} /\ buffer' = {}
      /\ turn = NoRow /\ turn' = NoRow
  BY DEF RecordSession, store, IInv, Control, Ledger, Rewriting
<1>2. TypeOK'
  BY BoundsAssumption DEF RecordSession, store, history, IInv, TypeOK
<1>3. Control'
  BY <1>1 DEF RecordSession, store, IInv, TypeOK, Control, Rewriting
<1>4. Fresh'
  BY <1>1 DEF RecordSession, IInv, TypeOK, Control, Fresh, Past, Rows
<1>5. BufferAlone' /\ TurnCleared' /\ OneLive(Ledger)'
  BY <1>1 DEF IInv, BufferAlone, TurnCleared, OneLive
<1>6. MirrorBehind'
  BY <1>1 DEF RecordSession, store, history, IInv, MirrorBehind, OneLive
<1>7. LostOnlyByKill'
  BY <1>1, SymbolsAssumption DEF RecordSession, history, IInv, LostOnlyByKill, Rows
<1>8. GradedLast'
  BY <1>1 DEF RecordSession, IInv, GradedLast
<1> QED
  BY <1>8, <1>2, <1>3, <1>4, <1>5, <1>6, <1>7 DEF IInv

LEMMA ResolveSessionKeeps ==
  ASSUME IInv, NEW verdict \in [Symbols -> Verdicts \cup {"none"}], ResolveSession(verdict) PROVE IInv'
<1>1. TypeOK'
  BY DEF ResolveSession, Graded, Rows, store, clock, history, IInv, TypeOK, Control, Fresh, BufferAlone, TurnCleared, OneLive, GradedLast, MirrorBehind,
       LostOnlyByKill, Ledger, Rewriting, Empty, Live, Verdicts, Statuses, Past, NothingLive
<1>2. Control'
  BY DEF ResolveSession, Graded, Rows, store, clock, history, IInv, TypeOK, Control, Fresh, BufferAlone, TurnCleared, OneLive, GradedLast, MirrorBehind,
       LostOnlyByKill, Ledger, Rewriting, Empty, Live, Verdicts, Statuses, Past, NothingLive
<1>3. Fresh'
  BY DEF ResolveSession, Graded, Rows, store, clock, history, IInv, TypeOK, Control, Fresh, BufferAlone, TurnCleared, OneLive, GradedLast, MirrorBehind,
       LostOnlyByKill, Ledger, Rewriting, Empty, Live, Verdicts, Statuses, Past, NothingLive
<1>4. BufferAlone'
  BY DEF ResolveSession, Graded, Rows, store, clock, history, IInv, TypeOK, Control, Fresh, BufferAlone, TurnCleared, OneLive, GradedLast, MirrorBehind,
       LostOnlyByKill, Ledger, Rewriting, Empty, Live, Verdicts, Statuses, Past, NothingLive
<1>5. TurnCleared'
  BY DEF ResolveSession, Graded, Rows, store, clock, history, IInv, TypeOK, Control, Fresh, BufferAlone, TurnCleared, OneLive, GradedLast, MirrorBehind,
       LostOnlyByKill, Ledger, Rewriting, Empty, Live, Verdicts, Statuses, Past, NothingLive
<1>6. OneLive(Ledger)'
  BY DEF ResolveSession, Graded, Rows, store, clock, history, IInv, TypeOK, Control, Fresh, BufferAlone, TurnCleared, OneLive, GradedLast, MirrorBehind,
       LostOnlyByKill, Ledger, Rewriting, Empty, Live, Verdicts, Statuses, Past, NothingLive
<1>7. MirrorBehind'
  BY DEF ResolveSession, Graded, Rows, store, clock, history, IInv, TypeOK, Control, Fresh, BufferAlone, TurnCleared, OneLive, GradedLast, MirrorBehind,
       LostOnlyByKill, Ledger, Rewriting, Empty, Live, Verdicts, Statuses, Past, NothingLive
<1>8. LostOnlyByKill'
  BY DEF ResolveSession, Graded, Rows, store, clock, history, IInv, TypeOK, Control, Fresh, BufferAlone, TurnCleared, OneLive, GradedLast, MirrorBehind,
       LostOnlyByKill, Ledger, Rewriting, Empty, Live, Verdicts, Statuses, Past, NothingLive
<1>9. GradedLast'
  BY DEF ResolveSession, Graded, clock, IInv, GradedLast, Ledger, Rewriting
<1> QED
  BY <1>9, <1>1, <1>2, <1>3, <1>4, <1>5, <1>6, <1>7, <1>8 DEF IInv

LEMMA MarkSupersededKeeps ==
  ASSUME IInv, NEW s \in Symbols, MarkSuperseded(s) PROVE IInv'
<1>1. TypeOK'
  BY DEF MarkSuperseded, Superseded, OpenRows, Rows, store, clock, history, IInv, TypeOK, Control, Fresh, BufferAlone, TurnCleared, OneLive, GradedLast, MirrorBehind,
       LostOnlyByKill, Ledger, Rewriting, Empty, Live, Verdicts, Statuses, Past, NothingLive
<1>2. Control'
  BY DEF MarkSuperseded, Superseded, OpenRows, Rows, store, clock, history, IInv, TypeOK, Control, Fresh, BufferAlone, TurnCleared, OneLive, GradedLast, MirrorBehind,
       LostOnlyByKill, Ledger, Rewriting, Empty, Live, Verdicts, Statuses, Past, NothingLive
<1>3. Fresh'
  BY DEF MarkSuperseded, Superseded, OpenRows, Rows, store, clock, history, IInv, TypeOK, Control, Fresh, BufferAlone, TurnCleared, OneLive, GradedLast, MirrorBehind,
       LostOnlyByKill, Ledger, Rewriting, Empty, Live, Verdicts, Statuses, Past, NothingLive
<1>4. BufferAlone'
  BY DEF MarkSuperseded, Superseded, OpenRows, Rows, store, clock, history, IInv, TypeOK, Control, Fresh, BufferAlone, TurnCleared, OneLive, GradedLast, MirrorBehind,
       LostOnlyByKill, Ledger, Rewriting, Empty, Live, Verdicts, Statuses, Past, NothingLive
<1>5. TurnCleared'
  BY DEF MarkSuperseded, Superseded, OpenRows, Rows, store, clock, history, IInv, TypeOK, Control, Fresh, BufferAlone, TurnCleared, OneLive, GradedLast, MirrorBehind,
       LostOnlyByKill, Ledger, Rewriting, Empty, Live, Verdicts, Statuses, Past, NothingLive
<1>6. OneLive(Ledger)'
  BY DEF MarkSuperseded, Superseded, OpenRows, Rows, store, clock, history, IInv, TypeOK, Control, Fresh, BufferAlone, TurnCleared, OneLive, GradedLast, MirrorBehind,
       LostOnlyByKill, Ledger, Rewriting, Empty, Live, Verdicts, Statuses, Past, NothingLive
<1>0. /\ Ledger' = Superseded(OpenRows(s)) /\ Ledger = file
      /\ turn' = s /\ UNCHANGED <<pg, buffer, day, history>>
  BY SymbolsAssumption DEF MarkSuperseded, Ledger, Rewriting, IInv, Control, clock
<1>7. MirrorBehind'
  BY <1>0 DEF history, Superseded, IInv, MirrorBehind, OneLive
<1>8. LostOnlyByKill'
  <2>1. \A r \in Rows : Ledger'[r] = (IF r \in OpenRows(s) THEN "superseded" ELSE Ledger[r])
    BY <1>0 DEF Superseded
  <2>2. wiped' \/ \A r \in logged' : Ledger'[r] # "absent"
    BY <1>0, <2>1 DEF history, IInv, TypeOK, LostOnlyByKill
  <2>3. ASSUME NEW r \in Rows, Ledger'[r] = "superseded", ~cut', ~(r.symbol = s /\ r.day = day)
        PROVE  \E q \in Rows : /\ q.symbol = r.symbol /\ q.day = r.day
                               /\ q \in buffer' \/ Live(Ledger'[q])
    <3>1. Ledger[r] = "superseded" /\ turn = NoRow /\ r.symbol # NoRow
      BY <2>1, <2>3, SymbolsAssumption DEF OpenRows, MarkSuperseded, Rows
    <3>2. PICK q \in Rows : /\ q.symbol = r.symbol /\ q.day = r.day
                            /\ q \in buffer \/ Live(Ledger[q])
      BY <2>3, <3>1, <1>0 DEF history, IInv, LostOnlyByKill
    <3>3. q \notin OpenRows(s)
      BY <2>3, <3>2 DEF OpenRows
    <3> QED
      BY <1>0, <2>1, <3>2, <3>3
  <2> QED
    BY <1>0, <2>2, <2>3 DEF LostOnlyByKill
<1>9. GradedLast'
  BY <1>0 DEF MarkSuperseded, clock, Superseded, Verdicts, IInv, GradedLast
<1> QED
  BY <1>9, <1>1, <1>2, <1>3, <1>4, <1>5, <1>6, <1>7, <1>8 DEF IInv

\* The row of the sample for a symbol not yet reached is a new one.
LEMMA NewRowIsNew ==
  ASSUME IInv, autorun = "recording", NEW s \in todo
  PROVE  /\ NewRow(s) \in Rows /\ Ledger[NewRow(s)] = "absent" /\ NewRow(s) \notin buffer
         /\ NewRow(s).symbol = s /\ NewRow(s).day = day /\ NewRow(s).sample = sample
<1>1. NewRow(s) \in Rows
  BY BoundsAssumption DEF IInv, TypeOK, Control, NewRow, Rows
<1>2. NewRow(s).symbol = s /\ NewRow(s).day = day /\ NewRow(s).sample = sample
  BY DEF NewRow
<1>3. ~Past(NewRow(s))
  BY <1>2, BoundsAssumption DEF Past, IInv, TypeOK
<1> QED
  BY <1>1, <1>2, <1>3 DEF IInv, Fresh

\* fh.write, after the old row of the symbol, if any, is superseded in base.
LEMMA WriteRowKeeps ==
  ASSUME IInv, autorun = "recording", NEW s \in todo, WriteRow(s, Ledger),
         NothingLive(s), turn \in {NoRow, s}
  PROVE  IInv'
<1> DEFINE n == NewRow(s)
<1>1. /\ n \in Rows /\ Ledger[n] = "absent" /\ n \notin buffer
      /\ n.symbol = s /\ n.day = day /\ n.sample = sample
  BY NewRowIsNew
<1> HIDE DEF n
<1>2. /\ turn' = NoRow /\ autorun' = autorun /\ todo' = todo \ {s} /\ Ledger' = file'
      /\ UNCHANGED <<pg, day, sample, closed, wiped, cut>>
  BY DEF WriteRow, clock, Ledger, Rewriting
<1>3. \/ buffer' = buffer \cup {n} /\ Ledger' = Ledger /\ logged' = logged
      \/ /\ buffer' = {} /\ logged' = logged \cup buffer \cup {n}
         /\ Ledger' = Appended(buffer \cup {n}, Ledger)
  BY <1>2 DEF WriteRow, n
<1>4. TypeOK'
  <2>1. Ledger \in [Rows -> Statuses] /\ Empty \in [Rows -> Statuses]
    BY DEF IInv, TypeOK, Ledger, Empty, Statuses
  <2>2. file' \in [Rows -> Statuses]
    BY <1>2, <1>3, <2>1 DEF Appended, Statuses
  <2> QED
    BY <1>1, <1>2, <1>3, <2>1, <2>2 DEF WriteRow, IInv, TypeOK
<1>5. Control'
  BY <1>2 DEF IInv, Control, Rewriting
<1>6. Fresh'
  BY <1>1, <1>2, <1>3 DEF IInv, TypeOK, Fresh, Past, Appended, BufferAlone
<1>7. BufferAlone' /\ TurnCleared'
  BY <1>1, <1>2, <1>3 DEF IInv, TypeOK, BufferAlone, TurnCleared, NothingLive
<1>8. OneLive(Ledger)'
  <2> SUFFICES ASSUME NEW r \in Rows, NEW q \in Rows, r.symbol = q.symbol, r.day = q.day,
                      Live(Ledger'[r]), Live(Ledger'[q])
               PROVE  r = q
    BY DEF OneLive
  <2>1. CASE Ledger' = Ledger
    BY <2>1 DEF IInv, OneLive
  <2>2. CASE Ledger' = Appended(buffer \cup {n}, Ledger)
    <3>1. \A x \in buffer \cup {n} :
            /\ x \in Rows /\ x.day = day /\ x.sample = sample
            /\ \A y \in Rows : y.symbol = x.symbol /\ y.day = day => ~Live(Ledger[y])
      BY <1>1 DEF IInv, TypeOK, BufferAlone, NothingLive
    <3>2. CASE r \in buffer \cup {n} /\ q \in buffer \cup {n}
      BY <3>1, <3>2, Equal
    <3>3. CASE r \notin buffer \cup {n} /\ q \notin buffer \cup {n}
      BY <2>2, <3>3 DEF Appended, IInv, OneLive
    <3>4. CASE r \in buffer \cup {n} /\ q \notin buffer \cup {n}
      BY <2>2, <3>1, <3>4 DEF Appended
    <3>5. CASE r \notin buffer \cup {n} /\ q \in buffer \cup {n}
      BY <2>2, <3>1, <3>5 DEF Appended
    <3> QED
      BY <3>2, <3>3, <3>4, <3>5
  <2> QED
    BY <1>3, <2>1, <2>2
<1>9. MirrorBehind'
  BY <1>2, <1>3 DEF IInv, MirrorBehind, OneLive, Appended
<1>10. LostOnlyByKill'
  <2>1. wiped' \/ \A r \in logged' : Ledger'[r] # "absent"
    BY <1>1, <1>2, <1>3 DEF IInv, TypeOK, LostOnlyByKill, Appended
  <2>2. ASSUME NEW r \in Rows, Ledger'[r] = "superseded", ~cut'
        PROVE  \E q \in Rows : /\ q.symbol = r.symbol /\ q.day = r.day
                               /\ q \in buffer' \/ Live(Ledger'[q])
    <3>1. Ledger[r] = "superseded" /\ r.symbol # NoRow
      BY <1>3, <2>2, SymbolsAssumption DEF Appended, Rows
    <3>2. \A q \in Rows : q \in buffer \cup {n} \/ Live(Ledger[q]) =>
                             q \in buffer' \/ Live(Ledger'[q])
      BY <1>3 DEF Appended, Live
    <3>3. CASE r.symbol = s /\ r.day = day
      BY <1>1, <3>2, <3>3
    <3>4. CASE ~(r.symbol = s /\ r.day = day)
      BY <1>2, <2>2, <3>1, <3>2, <3>4 DEF IInv, LostOnlyByKill
    <3> QED
      BY <3>3, <3>4
  <2> QED
    BY <2>1, <2>2 DEF LostOnlyByKill
<1>11. GradedLast'
  BY <1>2, <1>3 DEF Appended, Verdicts, IInv, GradedLast
<1> QED
  BY <1>11, <1>4, <1>5, <1>6, <1>7, <1>8, <1>9, <1>10 DEF IInv

LEMMA WriteFirstKeeps ==
  ASSUME IInv, NEW s \in Symbols, WriteFirst(s) PROVE IInv'
<1>1. Ledger = file
  BY DEF WriteFirst, Ledger, Rewriting
<1>2. NothingLive(s)
  <2> SUFFICES ASSUME NEW r \in Rows, r.symbol = s, r.day = day, Live(file[r]) PROVE FALSE
    BY <1>1 DEF NothingLive
  <2>1. file[r] # "open"
    BY DEF WriteFirst, OpenRows
  <2>2. file[r] \notin Verdicts
    BY <1>1 DEF WriteFirst, IInv, GradedLast
  <2> QED
    BY <2>1, <2>2 DEF Live
<1> QED
  BY <1>1, <1>2, WriteRowKeeps DEF WriteFirst

LEMMA WriteSuccessorKeeps == IInv /\ WriteSuccessor => IInv'
BY WriteRowKeeps DEF WriteSuccessor, Ledger, Rewriting, IInv, Control, TurnCleared

LEMMA CloseFileKeeps == IInv /\ CloseFile => IInv'
<1> SUFFICES ASSUME IInv, CloseFile PROVE IInv'
  OBVIOUS
<1>1. /\ Ledger = file /\ Ledger' = Appended(buffer, Ledger) /\ file' = Ledger'
      /\ UNCHANGED <<pg, image, todo, turn, day, sample, closed, wiped, cut>>
      /\ buffer' = {} /\ logged' = logged \cup buffer
  BY DEF CloseFile, clock, Ledger, Rewriting
<1>2. TypeOK' /\ Control'
  BY <1>1 DEF CloseFile, Appended, Statuses, IInv, TypeOK, Control, Rewriting
<1>3. Fresh'
  BY <1>1 DEF Appended, IInv, Fresh, Past
<1>4. BufferAlone' /\ TurnCleared'
  BY <1>1 DEF CloseFile, BufferAlone, TurnCleared
<1>5. OneLive(Ledger)'
  <2> SUFFICES ASSUME NEW r \in Rows, NEW q \in Rows, r.symbol = q.symbol, r.day = q.day,
                      Live(Ledger'[r]), Live(Ledger'[q])
               PROVE  r = q
    BY DEF OneLive
  <2>1. \A x \in buffer :
          /\ x \in Rows /\ x.day = day /\ x.sample = sample
          /\ \A y \in Rows : y.symbol = x.symbol /\ y.day = day => ~Live(Ledger[y])
    BY DEF IInv, TypeOK, BufferAlone, NothingLive
  <2>2. CASE r \in buffer /\ q \in buffer
    BY <2>1, <2>2, Equal
  <2>3. CASE r \notin buffer /\ q \notin buffer
    BY <1>1, <2>3 DEF Appended, IInv, OneLive
  <2>4. CASE r \in buffer /\ q \notin buffer
    BY <1>1, <2>1, <2>4 DEF Appended
  <2>5. CASE r \notin buffer /\ q \in buffer
    BY <1>1, <2>1, <2>5 DEF Appended
  <2> QED
    BY <2>2, <2>3, <2>4, <2>5
<1>6. GradedLast'
  BY <1>1 DEF CloseFile, Appended, Verdicts, IInv, GradedLast
<1>7. MirrorBehind'
  BY <1>1 DEF Appended, IInv, MirrorBehind, OneLive
<1>8. LostOnlyByKill'
  <2>1. wiped' \/ \A r \in logged' : Ledger'[r] # "absent"
    BY <1>1 DEF IInv, TypeOK, LostOnlyByKill, Appended
  <2>2. \A q \in Rows : q \in buffer \/ Live(Ledger[q]) => Live(Ledger'[q])
    BY <1>1 DEF Appended, Live
  <2>3. \A r \in Rows : Ledger'[r] = "superseded" => Ledger[r] = "superseded"
    BY <1>1 DEF Appended
  <2> QED
    BY <1>1, <2>1, <2>2, <2>3 DEF IInv, LostOnlyByKill
<1> QED
  BY <1>2, <1>3, <1>4, <1>5, <1>6, <1>7, <1>8 DEF IInv

LEMMA StepKeeps == IInv /\ [Next]_vars => IInv'
<1> SUFFICES ASSUME IInv, [Next]_vars PROVE IInv'
  OBVIOUS
<1>1. CASE Next
  BY <1>1, LaunchKeeps, RecordSessionKeeps, MarkSupersededKeeps, WriteFirstKeeps, WriteSuccessorKeeps,
     CloseFileKeeps, MirrorKeeps, MarketCloseKeeps, ResolveSessionKeeps, WriteResolvedKeeps, ExitKeeps,
     KillKeeps, NextDayKeeps DEF Next
<1>2. CASE UNCHANGED vars
  BY <1>2 DEF vars, store, clock, history, IInv, TypeOK, Control, Fresh, BufferAlone, TurnCleared,
     OneLive, GradedLast, MirrorBehind, LostOnlyByKill, Ledger, Rewriting, Past, NothingLive
<1> QED
  BY <1>1, <1>2

\* The ledger's invariant, for any universe and any bounds.
THEOREM LedgerInvariant == Spec => []IInv
BY InitIInv, StepKeeps, PTL DEF Spec

\* Files, tables and bookkeeping keep their types.
THEOREM LedgerTypeCorrect == Spec => []TypeOK
BY LedgerInvariant, PTL DEF IInv

\* One live forecast per symbol and session in the file after any rewrites and
\* kills, and in the table unless a kill emptied the file.
THEOREM OneLiveForecast == Spec => []OneLivePerSymbol
<1>1. IInv => OneLivePerSymbol
  BY DEF IInv, Control, MirrorBehind, OneLivePerSymbol, OneLive, Ledger, Empty, Live, Verdicts
<1> QED
  BY <1>1, LedgerInvariant, PTL

\* What is missing from the ledger was lost to a kill, never to a rewrite.
THEOREM ForecastsAreKept == Spec => []LostOnlyByKill
BY LedgerInvariant, PTL DEF IInv

=============================================================================
