-------------------------- MODULE LiveSessionProofs --------------------------
(***************************************************************************)
(* The safety of a trading day for any number of processes and faults; the *)
(* instances of the runs have two watchdogs and two autoruns.              *)
(***************************************************************************)
EXTENDS LiveSession, TLAPS

\* What the scheduler may rely on between its check and its Popen: no watchdog
\* of its own has come to life since, only ones started by hand.
ChecksHold ==
  /\ sched = "starting" => blind \/ WatchdogLive \subseteq byHand
  /\ OneWatchdogUnlessBlind

\* A live autorun is the handle of a watchdog, dead or alive; one about to
\* start an autorun holds none that is alive, and handles are of processes.
Parented ==
  /\ \A a \in AutorunLive : \E w \in Watchdogs : mine[w] = a
  /\ \A w \in Watchdogs : wpc[w] = "start" => mine[w] \notin AutorunLive
  /\ \A w \in Watchdogs : wpc[w] = "unborn" => mine[w] = NoProc
  /\ \A w \in Watchdogs : mine[w] \in Autoruns => apc[mine[w]] # "unborn"

\* Whoever has reached its end-of-day steps, or has a ledger job, got there
\* after the close, and only a ledger job settles.
AfterClose ==
  /\ \A w \in Watchdogs : wpc[w] \in {"wait", "report", "ledger", "exited"} => ~ MinutesLeft
  /\ \A a \in Autoruns : apc[a] \in {"ingest", "ledger", "wrap_up", "exited"} => ~ MinutesLeft
  /\ \A p \in Owners : job[p] # "none" => ~ MinutesLeft
  /\ NoSettlementBeforeClose

IInv == TypeOK /\ ChecksHold /\ Parented /\ AfterClose

LEMMA InitIInv == Init => IInv
<1> SUFFICES ASSUME Init PROVE IInv
  OBVIOUS
<1>1. TypeOK
  BY DEF Init, TypeOK
<1>2. ChecksHold /\ Parented
  BY NoProcAssumption DEF Init, ChecksHold, OneWatchdogUnlessBlind, Parented, WatchdogLive,
                          AutorunLive
<1>3. AfterClose
  BY DEF Init, AfterClose, NoSettlementBeforeClose, Owners
<1> QED
  BY <1>1, <1>2, <1>3 DEF IInv

-----------------------------------------------------------------------------
(* What most steps leave alone.                                            *)

LEMMA ChecksFrame ==
  ASSUME ChecksHold, WatchdogLive' \subseteq WatchdogLive, byHand' = byHand, blind' = blind,
         sched' \in {sched, "polling", "asleep", "crashed"}
  PROVE  ChecksHold'
BY DEF ChecksHold, OneWatchdogUnlessBlind

LEMMA ParentedFrame ==
  ASSUME Parented, mine' = mine, AutorunLive' \subseteq AutorunLive,
         \A w \in Watchdogs : /\ wpc'[w] = "start" => wpc[w] = "start"
                              /\ wpc'[w] = "unborn" => wpc[w] = "unborn",
         \A a \in Autoruns : apc'[a] = "unborn" => apc[a] = "unborn"
  PROVE  Parented'
BY DEF Parented

LEMMA AfterCloseFrame ==
  ASSUME AfterClose, UNCHANGED <<phase, apc, job, book>>,
         \A w \in Watchdogs : wpc'[w] \in {"wait", "report", "ledger", "exited"} => wpc'[w] = wpc[w]
  PROVE  AfterClose'
BY DEF AfterClose, NoSettlementBeforeClose, MinutesLeft

-----------------------------------------------------------------------------
LEMMA AdvanceKeeps == IInv /\ Advance => IInv'
<1> SUFFICES ASSUME IInv, Advance PROVE IInv'
  OBVIOUS
<1>1. TypeOK'
  BY DEF Advance, scheduler, watchdogs, jobs, files, ledger, IInv, TypeOK
<1>2. ChecksHold' /\ Parented'
  BY DEF Advance, scheduler, watchdogs, IInv, ChecksHold, OneWatchdogUnlessBlind, Parented,
         WatchdogLive, AutorunLive
<1>3. AfterClose'
  BY DEF Advance, watchdogs, jobs, ledger, IInv, AfterClose, NoSettlementBeforeClose, MinutesLeft
<1> QED
  BY <1>1, <1>2, <1>3 DEF IInv

\* The check and the Popen of the scheduler are steps apart.
LEMMA SchedulerKeeps ==
  ASSUME IInv, \/ SchedulerCheck \/ SchedulerStop \/ SchedulerBlind \/ SchedulerRestart
               \/ \E w \in Watchdogs : SchedulerStart(w)
  PROVE  IInv'
<1>1. CASE SchedulerCheck
  <2>1. TypeOK'
    BY <1>1 DEF SchedulerCheck, watchdogs, jobs, files, ledger, IInv, TypeOK
  <2>2. ChecksHold'
    BY <1>1 DEF SchedulerCheck, watchdogs, IInv, ChecksHold, OneWatchdogUnlessBlind, WatchdogLive
  <2>3. Parented' /\ AfterClose'
    BY <1>1, ParentedFrame, AfterCloseFrame DEF SchedulerCheck, watchdogs, jobs, ledger, IInv,
                                                AutorunLive
  <2> QED
    BY <2>1, <2>2, <2>3 DEF IInv
<1>2. CASE SchedulerStop
  <2>1. /\ UNCHANGED <<phase, blind, byHand, mine, apc, jobs, files, ledger, faults>>
        /\ owned' = NoProc /\ sched' \in {"asleep", "crashed"}
        /\ wpc' \in [Watchdogs -> {"unborn", "start", "grace", "watch", "restart", "wait",
                                   "report", "ledger", "exited", "dead"}]
        /\ \A w \in Watchdogs : wpc'[w] = wpc[w] \/ wpc'[w] = "dead"
    BY <1>2 DEF SchedulerStop, IInv, TypeOK
  <2>2. TypeOK'
    BY <2>1 DEF jobs, files, ledger, IInv, TypeOK
  <2>3. WatchdogLive' \subseteq WatchdogLive /\ AutorunLive' = AutorunLive
    BY <2>1 DEF WatchdogLive, AutorunLive
  <2>4. ChecksHold' /\ Parented' /\ AfterClose'
    BY <2>1, <2>3, ChecksFrame, ParentedFrame, AfterCloseFrame DEF jobs, ledger, IInv
  <2> QED
    BY <2>2, <2>4 DEF IInv
<1>3. CASE SchedulerBlind
  <2>1. TypeOK'
    BY <1>3 DEF SchedulerBlind, watchdogs, jobs, files, ledger, IInv, TypeOK
  <2>2. ChecksHold'
    BY <1>3 DEF SchedulerBlind, ChecksHold, OneWatchdogUnlessBlind
  <2>3. Parented' /\ AfterClose'
    BY <1>3, ParentedFrame, AfterCloseFrame DEF SchedulerBlind, watchdogs, jobs, ledger, IInv,
                                                AutorunLive
  <2> QED
    BY <2>1, <2>2, <2>3 DEF IInv
<1>4. CASE SchedulerRestart
  <2>1. TypeOK'
    BY <1>4 DEF SchedulerRestart, Fault, watchdogs, jobs, files, ledger, IInv, TypeOK
  <2>2. ChecksHold' /\ Parented' /\ AfterClose'
    BY <1>4, ChecksFrame, ParentedFrame, AfterCloseFrame
    DEF SchedulerRestart, watchdogs, jobs, ledger, IInv, WatchdogLive, AutorunLive
  <2> QED
    BY <2>1, <2>2 DEF IInv
<1>5. ASSUME NEW w \in Watchdogs, SchedulerStart(w) PROVE IInv'
  <2>1. TypeOK'
    BY <1>5 DEF SchedulerStart, jobs, files, ledger, IInv, TypeOK
  <2>2. ChecksHold'
    <3>1. /\ sched = "starting" /\ sched' = "polling" /\ blind' = blind /\ byHand' = byHand
          /\ WatchdogLive' = WatchdogLive \cup {w}
      BY <1>5 DEF SchedulerStart, NewWatchdog, IInv, TypeOK, WatchdogLive
    <3> QED
      BY <3>1 DEF IInv, ChecksHold, OneWatchdogUnlessBlind
  <2>3. Parented'
    BY <1>5, NoProcAssumption DEF SchedulerStart, NewWatchdog, IInv, TypeOK, Parented, AutorunLive
  <2>4. AfterClose'
    BY <1>5, AfterCloseFrame DEF SchedulerStart, jobs, ledger, IInv, TypeOK
  <2> QED
    BY <2>1, <2>2, <2>3, <2>4 DEF IInv
<1> QED
  BY <1>1, <1>2, <1>3, <1>4, <1>5

\* A watchdog started by hand may come between, and is on record.
LEMMA ManualStartKeeps ==
  ASSUME IInv, NEW w \in Watchdogs, ManualStart(w) PROVE IInv'
<1>1. TypeOK'
  BY DEF ManualStart, jobs, files, ledger, IInv, TypeOK
<1>2. ChecksHold'
  <2>1. /\ sched' = sched /\ blind' = blind /\ byHand' = byHand \cup {w}
        /\ WatchdogLive' = WatchdogLive \cup {w}
    BY DEF ManualStart, NewWatchdog, IInv, TypeOK, WatchdogLive
  <2> QED
    BY <2>1 DEF IInv, ChecksHold, OneWatchdogUnlessBlind
<1>3. Parented'
  BY NoProcAssumption DEF ManualStart, NewWatchdog, IInv, TypeOK, Parented, AutorunLive
<1>4. AfterClose'
  BY AfterCloseFrame DEF ManualStart, jobs, ledger, IInv, TypeOK
<1> QED
  BY <1>1, <1>2, <1>3, <1>4 DEF IInv

LEMMA WatchdogStartKeeps ==
  ASSUME IInv, NEW w \in Watchdogs, NEW a \in Autoruns, WatchdogStart(w, a)
  PROVE  IInv'
<1>1. TypeOK'
  BY DEF WatchdogStart, scheduler, jobs, files, ledger, IInv, TypeOK
<1>2. ChecksHold'
  <2>1. WatchdogLive' = WatchdogLive
    BY DEF WatchdogStart, IInv, TypeOK, WatchdogLive
  <2> QED
    BY <2>1, ChecksFrame DEF WatchdogStart, scheduler, IInv
<1>3. Parented'
  <2>1. ASSUME NEW b \in AutorunLive' PROVE \E v \in Watchdogs : mine'[v] = b
    <3>1. CASE b = a
      BY <3>1 DEF WatchdogStart, IInv, TypeOK
    <3>2. CASE b # a
      <4>1. b \in AutorunLive
        BY <2>1, <3>2 DEF WatchdogStart, AutorunLive, IInv, TypeOK
      <4>2. PICK v \in Watchdogs : mine[v] = b
        BY <4>1 DEF IInv, Parented
      <4>3. v # w
        BY <4>1, <4>2 DEF WatchdogStart, IInv, Parented
      <4> QED
        BY <4>2, <4>3 DEF WatchdogStart, IInv, TypeOK
    <3> QED
      BY <3>1, <3>2
  <2>2. ASSUME NEW v \in Watchdogs, wpc'[v] = "start" PROVE mine'[v] \notin AutorunLive'
    <3>1. v # w /\ wpc[v] = "start" /\ mine'[v] = mine[v]
      BY <2>2 DEF WatchdogStart, IInv, TypeOK
    <3>2. mine[v] \notin AutorunLive /\ mine[v] # a
      BY <3>1 DEF WatchdogStart, NewAutorun, IInv, Parented
    <3> QED
      BY <3>1, <3>2 DEF WatchdogStart, AutorunLive, IInv, TypeOK
  <2>3. ASSUME NEW v \in Watchdogs, wpc'[v] = "unborn" PROVE mine'[v] = NoProc
    BY <2>3 DEF WatchdogStart, IInv, TypeOK, Parented
  <2>4. ASSUME NEW v \in Watchdogs, mine'[v] \in Autoruns PROVE apc'[mine'[v]] # "unborn"
    BY <2>4 DEF WatchdogStart, IInv, TypeOK, Parented
  <2> QED
    BY <2>1, <2>2, <2>3, <2>4 DEF Parented
<1>4. AfterClose'
  BY DEF WatchdogStart, jobs, ledger, IInv, TypeOK, AfterClose, NoSettlementBeforeClose, MinutesLeft
<1> QED
  BY <1>1, <1>2, <1>3, <1>4 DEF IInv

LEMMA WatchdogTerminateKeeps ==
  ASSUME IInv, NEW w \in Watchdogs, WatchdogTerminate(w) PROVE IInv'
<1>1. TypeOK'
  BY DEF WatchdogTerminate, scheduler, jobs, files, ledger, IInv, TypeOK
<1>2. ChecksHold'
  <2>1. WatchdogLive' = WatchdogLive
    BY DEF WatchdogTerminate, IInv, TypeOK, WatchdogLive
  <2> QED
    BY <2>1, ChecksFrame DEF WatchdogTerminate, scheduler, IInv
<1>3. Parented'
  <2>1. AutorunLive' = AutorunLive \ {mine[w]}
    BY DEF WatchdogTerminate, AutorunLive
  <2>2. \A b \in Autoruns : apc'[b] = "unborn" => apc[b] = "unborn"
    BY DEF WatchdogTerminate
  <2>3. \A v \in Watchdogs : /\ v # w => wpc'[v] = wpc[v]
                             /\ wpc'[w] = "start"
    BY DEF WatchdogTerminate, IInv, TypeOK
  <2>4. mine' = mine
    BY DEF WatchdogTerminate
  <2> QED
    BY <2>1, <2>2, <2>3, <2>4 DEF IInv, Parented
<1>4. AfterClose'
  BY DEF WatchdogTerminate, jobs, ledger, IInv, TypeOK, AfterClose, NoSettlementBeforeClose,
         MinutesLeft
<1> QED
  BY <1>1, <1>2, <1>3, <1>4 DEF IInv

LEMMA WatchdogKeeps ==
  ASSUME IInv, NEW w \in Watchdogs,
         \/ WatchdogDecide(w) \/ WatchdogClose(w) \/ WatchdogWaited(w) \/ WatchdogReport(w)
         \/ WatchdogExit(w) \/ GraceEnds(w) \/ WatchdogTimeout(w) \/ WatchdogCrash(w)
  PROVE  IInv'
<1> w \in Owners
  BY DEF Owners
<1>1. /\ UNCHANGED <<phase, scheduler, mine, apc, files, ledger>>
      /\ wpc' \in [Watchdogs -> {"unborn", "start", "grace", "watch", "restart", "wait",
                                 "report", "ledger", "exited", "dead"}]
      /\ job' \in [Owners -> {"none", "load", "record", "done", "killed"}] /\ loaded' = loaded
      /\ faults' \in Nat
  <2>1. CASE WatchdogDecide(w) \/ GraceEnds(w) \/ WatchdogCrash(w)
    BY <2>1 DEF WatchdogDecide, GraceEnds, WatchdogCrash, Fault, jobs, IInv, TypeOK
  <2>2. CASE WatchdogClose(w) \/ WatchdogWaited(w) \/ WatchdogReport(w) \/ WatchdogExit(w)
    BY <2>2 DEF WatchdogClose, WatchdogWaited, WatchdogReport, WatchdogExit, WatchdogMove,
                jobs, IInv, TypeOK
  <2>3. CASE WatchdogTimeout(w)
    BY <2>3 DEF WatchdogTimeout, WatchdogMove, Fault, jobs, IInv, TypeOK
  <2> QED
    BY <2>1, <2>2, <2>3
<1>2. /\ WatchdogLive' \subseteq WatchdogLive
      /\ \A v \in Watchdogs : /\ wpc'[v] = "start" => wpc[v] = "start"
                              /\ wpc'[v] = "unborn" => wpc[v] = "unborn"
  BY DEF WatchdogDecide, WatchdogClose, WatchdogWaited, WatchdogReport, WatchdogExit, GraceEnds,
         WatchdogTimeout, WatchdogCrash, WatchdogMove, Watching, IInv, TypeOK, WatchdogLive
<1>3. \A v \in Watchdogs : wpc'[v] \in {"wait", "report", "ledger", "exited"} => ~ MinutesLeft'
  BY DEF WatchdogDecide, WatchdogClose, WatchdogWaited, WatchdogReport, WatchdogExit, GraceEnds,
         WatchdogTimeout, WatchdogCrash, WatchdogMove, IInv, TypeOK, AfterClose, MinutesLeft,
         MarketOpen
<1>4. \A p \in Owners : job'[p] # "none" => ~ MinutesLeft'
  BY DEF WatchdogDecide, WatchdogClose, WatchdogWaited, WatchdogReport, WatchdogExit, GraceEnds,
         WatchdogTimeout, WatchdogCrash, WatchdogMove, jobs, IInv, TypeOK, AfterClose, MinutesLeft
<1>5. TypeOK'
  BY <1>1 DEF scheduler, files, ledger, IInv, TypeOK
<1>6. ChecksHold' /\ Parented'
  BY <1>1, <1>2, ChecksFrame, ParentedFrame DEF scheduler, IInv, AutorunLive
<1>7. AfterClose'
  BY <1>1, <1>3, <1>4 DEF ledger, IInv, AfterClose, NoSettlementBeforeClose, MinutesLeft
<1> QED
  BY <1>5, <1>6, <1>7 DEF IInv

LEMMA AutorunKeeps ==
  ASSUME IInv, NEW a \in Autoruns,
         \/ AutorunCheck(a) \/ AutorunCycle(a) \/ AutorunIngest(a) \/ AutorunLedgerDone(a)
         \/ AutorunWrapUp(a) \/ AutorunLedgerTimeout(a) \/ AutorunCrash(a)
  PROVE  IInv'
<1> a \in Owners
  BY DEF Owners
<1>1. /\ UNCHANGED <<phase, scheduler, watchdogs, loaded>>
      /\ apc' \in [Autoruns -> {"unborn", "begin", "first", "check", "cycle", "ingest", "ledger",
                                "wrap_up", "exited", "dead"}]
      /\ job' \in [Owners -> {"none", "load", "record", "done", "killed"}]
      /\ snap' \in SUBSET Symbols /\ stale' \in BOOLEAN
      /\ book' \in [Symbols -> {"NONE", "OPEN", "SETTLED"}]
      /\ entered' \in [Symbols -> {"none", "session", "job"}]
      /\ \A y \in Symbols : book'[y] = "SETTLED" => book[y] = "SETTLED"
      /\ faults' \in Nat
  <2>1. CASE AutorunCheck(a) \/ AutorunIngest(a) \/ AutorunLedgerDone(a)
    BY <2>1 DEF AutorunCheck, AutorunIngest, AutorunLedgerDone, AutorunMove, jobs, files, ledger,
                IInv, TypeOK
  <2>2. CASE AutorunCycle(a)
    <3>1. /\ UNCHANGED ledger \/ \E act \in SUBSET Symbols : Record(act, "session")
          /\ snap' \in SUBSET Symbols
          /\ apc' = [apc EXCEPT ![a] = "check"] /\ UNCHANGED <<phase, scheduler, watchdogs>>
      BY <2>2 DEF AutorunCycle, AutorunMove
    <3>2. /\ book' \in [Symbols -> {"NONE", "OPEN", "SETTLED"}]
          /\ entered' \in [Symbols -> {"none", "session", "job"}]
          /\ \A y \in Symbols : book'[y] = "SETTLED" => book[y] = "SETTLED"
      BY <3>1 DEF Record, ledger, IInv, TypeOK
    <3> QED
      BY <2>2, <3>1, <3>2 DEF AutorunCycle, jobs, IInv, TypeOK
  <2>3. CASE AutorunWrapUp(a)
    BY <2>3 DEF AutorunWrapUp, AutorunMove, jobs, ledger, IInv, TypeOK
  <2>4. CASE AutorunLedgerTimeout(a)
    BY <2>4 DEF AutorunLedgerTimeout, AutorunMove, Fault, files, ledger, IInv, TypeOK
  <2>5. CASE AutorunCrash(a)
    BY <2>5 DEF AutorunCrash, Fault, jobs, files, ledger, IInv, TypeOK
  <2> QED
    BY <2>1, <2>2, <2>3, <2>4, <2>5
<1>2. /\ AutorunLive' \subseteq AutorunLive
      /\ \A b \in Autoruns : apc'[b] = "unborn" => apc[b] = "unborn"
  <2>1. apc[a] # "unborn" /\ apc[a] \notin {"exited", "dead"}
    BY DEF AutorunCheck, AutorunCycle, AutorunIngest, AutorunLedgerDone, AutorunWrapUp,
           AutorunLedgerTimeout, AutorunCrash, AutorunMove, AutorunLive
  <2>2. \E pc \in {"first", "check", "cycle", "ingest", "ledger", "wrap_up", "exited", "dead"} :
          apc' = [apc EXCEPT ![a] = pc]
    BY DEF AutorunCheck, AutorunCycle, AutorunIngest, AutorunLedgerDone, AutorunWrapUp,
           AutorunLedgerTimeout, AutorunCrash, AutorunMove
  <2> QED
    BY <2>1, <2>2 DEF IInv, TypeOK, AutorunLive
<1>3. \A b \in Autoruns : apc'[b] \in {"ingest", "ledger", "wrap_up", "exited"} => ~ MinutesLeft'
  BY <1>1 DEF AutorunCheck, AutorunCycle, AutorunIngest, AutorunLedgerDone, AutorunWrapUp,
         AutorunLedgerTimeout, AutorunCrash, AutorunMove, IInv, TypeOK, AfterClose, MinutesLeft
<1>4. \A p \in Owners : job'[p] # "none" => ~ MinutesLeft'
  BY <1>1 DEF AutorunCheck, AutorunCycle, AutorunIngest, AutorunLedgerDone, AutorunWrapUp,
         AutorunLedgerTimeout, AutorunCrash, AutorunMove, jobs, IInv, TypeOK, AfterClose, MinutesLeft
<1>5. TypeOK'
  BY <1>1 DEF scheduler, watchdogs, IInv, TypeOK
<1>6. ChecksHold' /\ Parented'
  BY <1>1, <1>2, ChecksFrame, ParentedFrame DEF scheduler, watchdogs, IInv, WatchdogLive
<1>7. AfterClose'
  BY <1>1, <1>3, <1>4 DEF watchdogs, IInv, TypeOK, AfterClose, NoSettlementBeforeClose, MinutesLeft
<1> QED
  BY <1>5, <1>6, <1>7 DEF IInv

LEMMA SnapshotAgesKeeps == IInv /\ SnapshotAges => IInv'
<1> SUFFICES ASSUME IInv, SnapshotAges PROVE IInv'
  OBVIOUS
<1>1. TypeOK'
  BY DEF SnapshotAges, Fault, scheduler, watchdogs, jobs, ledger, IInv, TypeOK
<1>2. ChecksHold' /\ Parented' /\ AfterClose'
  BY ChecksFrame, ParentedFrame, AfterCloseFrame
  DEF SnapshotAges, scheduler, watchdogs, jobs, ledger, IInv, WatchdogLive, AutorunLive
<1> QED
  BY <1>1, <1>2 DEF IInv

\* A ledger job settles only where there is a job, so after the close.
LEMMA JobKeeps ==
  ASSUME IInv, NEW p \in Owners, JobSettle(p) \/ JobRecord(p) PROVE IInv'
<1>1. ~ MinutesLeft /\ ~ MinutesLeft'
  BY DEF JobSettle, JobRecord, IInv, AfterClose, MinutesLeft
<1>2. TypeOK'
  <2>1. CASE JobSettle(p)
    BY <2>1 DEF JobSettle, SettleOpen, scheduler, watchdogs, files, IInv, TypeOK
  <2>2. CASE JobRecord(p)
    <3>1. /\ book' \in [Symbols -> {"NONE", "OPEN", "SETTLED"}]
          /\ entered' \in [Symbols -> {"none", "session", "job"}]
      BY <2>2 DEF JobRecord, Record, IInv, TypeOK
    <3> QED
      BY <2>2, <3>1 DEF JobRecord, scheduler, watchdogs, files, IInv, TypeOK
  <2> QED
    BY <2>1, <2>2
<1>3. UNCHANGED <<scheduler, watchdogs, apc>>
  BY DEF JobSettle, JobRecord
<1>4. ChecksHold' /\ Parented' /\ AfterClose'
  BY <1>1, <1>3, ChecksFrame, ParentedFrame
  DEF scheduler, watchdogs, IInv, AfterClose, NoSettlementBeforeClose, WatchdogLive, AutorunLive
<1> QED
  BY <1>2, <1>4 DEF IInv

LEMMA StepKeeps == IInv /\ [Next]_vars => IInv'
<1> SUFFICES ASSUME IInv, [Next]_vars PROVE IInv'
  OBVIOUS
<1>1. CASE Next
  BY <1>1, AdvanceKeeps, SchedulerKeeps, ManualStartKeeps, WatchdogStartKeeps,
     WatchdogTerminateKeeps, WatchdogKeeps, AutorunKeeps, SnapshotAgesKeeps, JobKeeps
  DEF Next, SchedulerStep, WatchdogStep, AutorunStep, JobStep, FaultStep
<1>2. CASE UNCHANGED vars
  <2>1. TypeOK'
    BY <1>2 DEF vars, scheduler, watchdogs, jobs, files, ledger, IInv, TypeOK
  <2>2. ChecksHold' /\ Parented' /\ AfterClose'
    BY <1>2, ChecksFrame, ParentedFrame, AfterCloseFrame
    DEF vars, scheduler, watchdogs, jobs, ledger, IInv, WatchdogLive, AutorunLive
  <2> QED
    BY <2>1, <2>2 DEF IInv
<1> QED
  BY <1>1, <1>2

\* The day's invariant, for any number of processes and faults.
THEOREM SessionInvariant == Spec => []IInv
BY InitIInv, StepKeeps, PTL DEF Spec

\* Clock, processes, files and ledger keep their types.
THEOREM SessionTypeCorrect == Spec => []TypeOK
BY SessionInvariant, PTL DEF IInv

\* The scheduler looks, and starts a watchdog steps later: still, two of its
\* own are alive together only after pgrep failed it (OneWatchdogUnlessBlind).
THEOREM SecondWatchdogNeedsBlindness == Spec => []OneWatchdogUnlessBlind
BY SessionInvariant, PTL DEF IInv, ChecksHold

\* Autoruns alive together were left by different watchdogs.
THEOREM AutorunsHaveParents == Spec => []OneAutorunPerWatchdog
<1>1. IInv => OneAutorunPerWatchdog
  BY DEF IInv, Parented, OneAutorunPerWatchdog
<1> QED
  BY <1>1, SessionInvariant, PTL

\* No order of restarts, timeouts and orphans settles a position early.
THEOREM SettledAfterClose == Spec => []NoSettlementBeforeClose
BY SessionInvariant, PTL DEF IInv, AfterClose

=============================================================================
