---------------------------- MODULE LiveSession -----------------------------
(***************************************************************************)
(* One trading day of the live session: the process that stays up          *)
(* (scripts/daily_autorun_scheduler.py) starts a watchdog                  *)
(* (scripts/session_watchdog.py), the watchdog starts and restarts the     *)
(* sampler (scripts/autorun_till_close.py), and both run the end-of-day    *)
(* ledger job (scripts/signal_ledger_daily.py) as a child of their own.    *)
(*                                                                         *)
(* Processes share the clock, the files of artifacts/live_session and the  *)
(* signal ledger; they know each other by Popen handle, pgrep and the age  *)
(* of a file.  A killed parent does not take its children with it.         *)
(*                                                                         *)
(* Abstractions.  The clock is the periods the code tests for; sleeps and  *)
(* timeouts end at any moment inside them.  A ledger operation is one step *)
(* (SignalLedger has its transactions); marking to market does not move a  *)
(* position and is left out, as are the tracker, the ingest and the        *)
(* analytics run after the ledger job.                                     *)
(***************************************************************************)
EXTENDS Integers, FiniteSets

CONSTANTS
  Symbols,    \* the scored universe
  Watchdogs,  \* bound: watchdog processes of the day
  Autoruns,   \* bound: autorun processes of the day
  NoProc,     \* handle of no process
  MaxFaults   \* bound: crashes, hangs, timeouts and restarts of the day, and
              \* watchdogs started by hand

ASSUME NoProcAssumption == NoProc \notin Watchdogs \cup Autoruns
ASSUME FaultsAssumption == MaxFaults \in Nat

Owners == Watchdogs \cup Autoruns   \* processes that run a ledger job

VARIABLES
  phase,    \* open from 09:00, closing from 15:30, closed from 15:36
  sched,    \* the scheduler: polling, starting a watchdog (it has looked and
            \* found none), asleep until tomorrow, or crashed
  owned,    \* its _proc
  blind,    \* history: pgrep failed and watchdog_alive said no; bound: once
  byHand,   \* history: watchdogs started by hand
  wpc,      \* wpc[w]: where watchdog w is
  mine,     \* mine[w]: its _autorun_proc
  apc,      \* apc[a]: where autorun a is
  job,      \* job[p]: the ledger job p launched
  loaded,   \* loaded[p]: active symbols the job read from latest_scores.json
  snap,     \* active symbols in latest_scores.json
  stale,    \* latest_scores.json is older than 8 minutes
  book,     \* book[y]: the position of symbol y for today
  entered,  \* entered[y]: by whom it was opened
  faults    \* faults so far

files == <<snap, stale>>
ledger == <<book, entered>>
watchdogs == <<wpc, mine>>
jobs == <<job, loaded>>
scheduler == <<sched, owned, blind, byHand>>
vars == <<phase, scheduler, watchdogs, apc, jobs, files, ledger, faults>>

MarketOpen == phase # "closed"               \* market_open()
MinutesLeftOrZero == TRUE                    \* variant: mins_to_close() >= 0

MinutesLeft == phase = "open"                \* mins_to_close() > 0

WatchdogLive == {w \in Watchdogs : wpc[w] \notin {"unborn", "exited", "dead"}}
AutorunLive  == {a \in Autoruns : apc[a] \notin {"unborn", "exited", "dead"}}
JobLive      == {p \in Owners : job[p] \in {"load", "record"}}

\* The next process to be born: processes that do not yet run are alike.
NewWatchdog(w) == wpc[w] = "unborn" /\ w = CHOOSE v \in Watchdogs : wpc[v] = "unborn"
NewAutorun(a)  == apc[a] = "unborn" /\ a = CHOOSE b \in Autoruns : apc[b] = "unborn"

Watching == {"grace", "watch"}

Init ==
  /\ phase = "open"
  /\ sched = "polling" /\ owned = NoProc /\ blind = FALSE /\ byHand = {}
  /\ wpc = [w \in Watchdogs |-> "unborn"]
  /\ mine = [w \in Watchdogs |-> NoProc]
  /\ apc = [a \in Autoruns |-> "unborn"]
  /\ job = [p \in Owners |-> "none"]
  /\ loaded = [p \in Owners |-> {}]
  /\ snap \in SUBSET Symbols              \* yesterday's close
  /\ stale = TRUE
  /\ book = [y \in Symbols |-> "NONE"]
  /\ entered = [y \in Symbols |-> "none"]
  /\ faults = 0

Disturbed == faults + Cardinality(byHand)
Fault == Disturbed < MaxFaults /\ faults' = faults + 1

Advance ==
  /\ \/ phase = "open" /\ phase' = "closing"
     \/ phase = "closing" /\ phase' = "closed"
  /\ UNCHANGED <<scheduler, watchdogs, apc, jobs, files, ledger, faults>>

-----------------------------------------------------------------------------
(* The ledger as the processes use it, one operation per step.             *)

Record(syms, how) ==
  LET new == {y \in syms : book[y] = "NONE"}
  IN  /\ book' = [y \in Symbols |-> IF y \in new THEN "OPEN" ELSE book[y]]
      /\ entered' = [y \in Symbols |-> IF y \in new THEN how ELSE entered[y]]

\* Variant: a status the table does not have.
SettleOpenClosed == [y \in Symbols |-> IF book[y] = "OPEN" THEN "CLOSED" ELSE book[y]]

SettleOpen == [y \in Symbols |-> IF book[y] = "OPEN" THEN "SETTLED" ELSE book[y]]

-----------------------------------------------------------------------------
(* The scheduler.                                                          *)

\* Variant: watchdog_alive without its pgrep.
SchedulerCheckByHandle ==
  /\ sched = "polling" /\ MarketOpen
  /\ owned \notin WatchdogLive
  /\ sched' = "starting"
  /\ UNCHANGED <<phase, owned, blind, byHand, watchdogs, apc, jobs, files, ledger, faults>>

\* watchdog_alive says no: the handle is of no live process and pgrep finds
\* none.  What was found is not looked at again before start_watchdog.
SchedulerCheck ==
  /\ sched = "polling" /\ MarketOpen
  /\ WatchdogLive = {}
  /\ sched' = "starting"
  /\ UNCHANGED <<phase, owned, blind, byHand, watchdogs, apc, jobs, files, ledger, faults>>

\* start_watchdog: Popen, whatever has happened since the check.
SchedulerStart(w) ==
  /\ sched = "starting" /\ NewWatchdog(w)
  /\ sched' = "polling"
  /\ owned' = w
  /\ wpc' = [wpc EXCEPT ![w] = "start"]
  /\ UNCHANGED <<phase, blind, byHand, mine, apc, jobs, files, ledger, faults>>

\* stop_watchdog and the sleep until the next open: terminate the process it
\* holds a handle of; pgrep may have found a watchdog it has no handle of.
SchedulerStop ==
  /\ sched = "polling" /\ ~ MarketOpen
  /\ sched' = IF WatchdogLive # {} /\ owned = NoProc
              THEN "crashed"               \* _proc.pid with _proc None
              ELSE "asleep"
  /\ wpc' = [w \in Watchdogs |-> IF w = owned /\ w \in WatchdogLive THEN "dead" ELSE wpc[w]]
  /\ owned' = NoProc
  /\ UNCHANGED <<phase, blind, byHand, mine, apc, jobs, files, ledger, faults>>

\* pgrep fails, "except Exception: return False": only the handle counts, for
\* the check of a polling turn and for the one in stop_watchdog.
SchedulerBlind ==
  /\ sched = "polling" /\ ~ blind
  /\ WatchdogLive # {} /\ owned \notin WatchdogLive
  /\ blind' = TRUE
  /\ IF MarketOpen THEN sched' = "starting" /\ UNCHANGED owned
                   ELSE sched' = "asleep" /\ owned' = NoProc
  /\ UNCHANGED <<phase, byHand, watchdogs, apc, jobs, files, ledger, faults>>

\* The scheduler is restarted by hand, and with it a check it has made.
SchedulerRestart ==
  /\ Fault
  /\ MarketOpen
  /\ sched = "starting" \/ (sched = "polling" /\ owned # NoProc)
  /\ sched' = "polling"
  /\ owned' = NoProc
  /\ UNCHANGED <<phase, blind, byHand, watchdogs, apc, jobs, files, ledger>>

\* A watchdog started by hand looks for no other one.
ManualStart(w) ==
  /\ Disturbed < MaxFaults
  /\ NewWatchdog(w)
  /\ byHand' = byHand \cup {w}
  /\ wpc' = [wpc EXCEPT ![w] = "start"]
  /\ UNCHANGED <<phase, sched, owned, blind, mine, apc, jobs, files, ledger, faults>>

-----------------------------------------------------------------------------
(* The watchdog.                                                           *)

\* start_autorun, at the top of main and at the end of a restart; in the grace
\* period that follows the watchdog does not look at the snapshot.
WatchdogStart(w, a) ==
  /\ wpc[w] = "start" /\ NewAutorun(a)
  /\ wpc' = [wpc EXCEPT ![w] = "grace"]
  /\ apc' = [apc EXCEPT ![a] = "begin"]
  /\ mine' = [mine EXCEPT ![w] = a]
  /\ UNCHANGED <<phase, scheduler, jobs, files, ledger, faults>>

NeedsRestart(w) ==
  /\ MinutesLeft
  /\ mine[w] \notin AutorunLive \/ (wpc[w] = "watch" /\ stale)

\* One turn of the loop reads the clock, the age of the snapshot and the
\* autorun once; the restart it decides on may straddle the close.
WatchdogDecide(w) ==
  /\ wpc[w] \in Watching /\ NeedsRestart(w)
  /\ wpc' = [wpc EXCEPT ![w] = "restart"]
  /\ UNCHANGED <<phase, scheduler, mine, apc, jobs, files, ledger, faults>>

\* Variant: the stale autorun is not terminated first.
WatchdogLeaves(w) ==
  /\ wpc[w] = "restart"
  /\ wpc' = [wpc EXCEPT ![w] = "start"]
  /\ UNCHANGED <<phase, scheduler, mine, apc, jobs, files, ledger, faults>>

\* terminate and three seconds; start_autorun is next.
WatchdogTerminate(w) ==
  /\ wpc[w] = "restart"
  /\ wpc' = [wpc EXCEPT ![w] = "start"]
  /\ apc' = [b \in Autoruns |-> IF b = mine[w] /\ b \in AutorunLive THEN "dead" ELSE apc[b]]
  /\ UNCHANGED <<phase, scheduler, mine, jobs, files, ledger, faults>>

\* A first cycle slower than the grace period counts as a fault.
GraceEnds(w) ==
  /\ wpc[w] = "grace"
  /\ IF stale THEN Fault ELSE UNCHANGED faults
  /\ wpc' = [wpc EXCEPT ![w] = "watch"]
  /\ UNCHANGED <<phase, scheduler, mine, apc, jobs, files, ledger>>

WatchdogMove(w, from, to) ==
  /\ wpc[w] \in from
  /\ wpc' = [wpc EXCEPT ![w] = to]
  /\ UNCHANGED <<phase, scheduler, mine, apc, files, ledger>>

WatchdogClose(w) ==
  /\ ~ MarketOpen
  /\ WatchdogMove(w, Watching, IF mine[w] \in AutorunLive THEN "wait" ELSE "report")
  /\ UNCHANGED <<jobs, faults>>

WatchdogWaited(w) == WatchdogMove(w, {"wait"}, "report") /\ UNCHANGED <<jobs, faults>>

\* generate_final_report, then _run_signal_ledger_safety launches its child.
WatchdogReport(w) ==
  /\ WatchdogMove(w, {"report"}, "ledger")
  /\ job' = [job EXCEPT ![w] = "load"]
  /\ UNCHANGED <<loaded, faults>>

WatchdogExit(w) ==
  /\ job[w] = "done"
  /\ WatchdogMove(w, {"ledger"}, "exited")
  /\ UNCHANGED <<jobs, faults>>

\* subprocess.run(timeout=..) kills the child and raises; nothing catches it.
WatchdogTimeout(w) ==
  /\ Fault
  /\ \/ WatchdogMove(w, {"report"}, "dead") /\ UNCHANGED jobs
     \/ /\ w \in JobLive
        /\ WatchdogMove(w, {"ledger"}, "dead")
        /\ job' = [job EXCEPT ![w] = "killed"]
        /\ UNCHANGED loaded

WatchdogCrash(w) ==
  /\ Fault
  /\ w \in WatchdogLive
  /\ wpc' = [wpc EXCEPT ![w] = "dead"]
  /\ UNCHANGED <<phase, scheduler, mine, apc, jobs, files, ledger>>

-----------------------------------------------------------------------------
(* The autorun.                                                            *)

AutorunMove(a, from, to) ==
  /\ apc[a] = from
  /\ apc' = [apc EXCEPT ![a] = to]
  /\ UNCHANGED <<phase, scheduler, watchdogs>>

\* Variant: the loop is left after the first sample.
AutorunCheckOnce(a) ==
  /\ \/ AutorunMove(a, "begin", IF MinutesLeft THEN "first" ELSE "ingest")
     \/ AutorunMove(a, "check", "ingest")
  /\ UNCHANGED <<jobs, files, ledger, faults>>

\* Top of the loop, before and after the first sample: the clock is read once
\* per cycle.
AutorunCheck(a) ==
  /\ \/ AutorunMove(a, "begin", IF MinutesLeft THEN "first" ELSE "ingest")
     \/ AutorunMove(a, "check", IF MinutesLeft THEN "cycle" ELSE "ingest")
  /\ UNCHANGED <<jobs, files, ledger, faults>>

\* A cycle scores the universe, records on the first sample, and replaces
\* latest_scores.json; the clock may have moved since it was read.
AutorunCycle(a) ==
  /\ \E act \in SUBSET Symbols :
       /\ \/ AutorunMove(a, "first", "check") /\ Record(act, "session")
          \/ AutorunMove(a, "cycle", "check") /\ UNCHANGED ledger
       /\ snap' = act
  /\ stale' = FALSE
  /\ UNCHANGED <<jobs, faults>>

\* Variant: the ledger job is left to the watchdog.
AutorunIngestOnly(a) ==
  /\ AutorunMove(a, "ingest", "wrap_up")
  /\ UNCHANGED <<jobs, files, ledger, faults>>

\* post_close_ingest returns also on its timeout; then the ledger job starts.
AutorunIngest(a) ==
  /\ AutorunMove(a, "ingest", "ledger")
  /\ job' = [job EXCEPT ![a] = "load"]
  /\ UNCHANGED <<loaded, files, ledger, faults>>

AutorunLedgerDone(a) ==
  /\ job[a] = "done"
  /\ AutorunMove(a, "ledger", "wrap_up")
  /\ UNCHANGED <<jobs, files, ledger, faults>>

\* timeout=60 in post_close_signal_ledger is not caught either.
AutorunLedgerTimeout(a) ==
  /\ Fault
  /\ a \in JobLive
  /\ AutorunMove(a, "ledger", "dead")
  /\ job' = [job EXCEPT ![a] = "killed"]
  /\ UNCHANGED <<loaded, files, ledger>>

\* Resolution, promotion, and the close snapshot of the re-ranked scores.
AutorunWrapUp(a) ==
  /\ AutorunMove(a, "wrap_up", "exited")
  /\ snap' \in SUBSET Symbols
  /\ stale' = FALSE
  /\ UNCHANGED <<jobs, ledger, faults>>

AutorunCrash(a) ==
  /\ Fault
  /\ a \in AutorunLive
  /\ apc' = [apc EXCEPT ![a] = "dead"]
  /\ UNCHANGED <<phase, scheduler, watchdogs, jobs, files, ledger>>

\* The autorun hangs or is slow for more than 8 minutes.
SnapshotAges ==
  /\ Fault
  /\ MinutesLeft /\ ~ stale
  /\ stale' = TRUE
  /\ UNCHANGED <<phase, scheduler, watchdogs, apc, jobs, snap, ledger>>

-----------------------------------------------------------------------------
(* signal_ledger_daily.py, a process of its own.                           *)

\* load_today, then settle_session.
JobSettle(p) ==
  /\ job[p] = "load"
  /\ loaded' = [loaded EXCEPT ![p] = snap]
  /\ book' = SettleOpen
  /\ job' = [job EXCEPT ![p] = "record"]
  /\ UNCHANGED <<phase, scheduler, watchdogs, apc, files, entered, faults>>

\* record_signals with what it loaded: positions this job will not settle.
JobRecord(p) ==
  /\ job[p] = "record"
  /\ Record(loaded[p], "job")
  /\ job' = [job EXCEPT ![p] = "done"]
  /\ loaded' = [loaded EXCEPT ![p] = {}]
  /\ UNCHANGED <<phase, scheduler, watchdogs, apc, files, faults>>

-----------------------------------------------------------------------------
SchedulerStep == SchedulerCheck \/ (\E w \in Watchdogs : SchedulerStart(w)) \/ SchedulerStop
WatchdogStep(w) == \/ \E a \in Autoruns : WatchdogStart(w, a)
                   \/ WatchdogDecide(w) \/ WatchdogTerminate(w)
                   \/ WatchdogClose(w) \/ WatchdogWaited(w) \/ WatchdogReport(w)
                   \/ WatchdogExit(w)
AutorunStep(a) == \/ AutorunCheck(a) \/ AutorunCycle(a) \/ AutorunIngest(a)
                  \/ AutorunLedgerDone(a) \/ AutorunWrapUp(a)
JobStep(p) == JobSettle(p) \/ JobRecord(p)

FaultStep ==
  \/ SchedulerBlind \/ SchedulerRestart \/ SnapshotAges
  \/ \E w \in Watchdogs : WatchdogTimeout(w) \/ WatchdogCrash(w)
  \/ \E a \in Autoruns : AutorunLedgerTimeout(a) \/ AutorunCrash(a)

Next ==
  \/ Advance \/ SchedulerStep \/ FaultStep
  \/ \E w \in Watchdogs : ManualStart(w) \/ WatchdogStep(w) \/ GraceEnds(w)
  \/ \E a \in Autoruns : AutorunStep(a)
  \/ \E p \in Owners : JobStep(p)

Spec == Init /\ [][Next]_vars

(* Time passes, and every process that is not killed keeps looping: the    *)
(* loops of all three scripts end each turn in a sleep, and a hang is a    *)
(* slow turn (SnapshotAges), which ends like any other.                    *)
Fairness ==
  /\ WF_vars(Advance)
  /\ WF_vars(SchedulerStep)
  /\ \A w \in Watchdogs : WF_vars(WatchdogStep(w))
  /\ \A a \in Autoruns : WF_vars(AutorunStep(a))
  /\ \A p \in Owners : WF_vars(JobStep(p))

FairSpec == Spec /\ Fairness

-----------------------------------------------------------------------------
TypeOK ==
  /\ phase \in {"open", "closing", "closed"}
  /\ sched \in {"polling", "starting", "asleep", "crashed"}
  /\ owned \in Watchdogs \cup {NoProc}
  /\ blind \in BOOLEAN
  /\ byHand \in SUBSET Watchdogs
  /\ wpc \in [Watchdogs -> {"unborn", "start", "grace", "watch", "restart", "wait", "report",
                            "ledger", "exited", "dead"}]
  /\ mine \in [Watchdogs -> Autoruns \cup {NoProc}]
  /\ apc \in [Autoruns -> {"unborn", "begin", "first", "check", "cycle", "ingest", "ledger",
                           "wrap_up", "exited", "dead"}]
  /\ job \in [Owners -> {"none", "load", "record", "done", "killed"}]
  /\ loaded \in [Owners -> SUBSET Symbols]
  /\ snap \in SUBSET Symbols
  /\ stale \in BOOLEAN
  /\ book \in [Symbols -> {"NONE", "OPEN", "SETTLED"}]
  /\ entered \in [Symbols -> {"none", "session", "job"}]
  /\ faults \in Nat

Quiescent == /\ ~ MarketOpen
             /\ sched \in {"asleep", "crashed"}
             /\ WatchdogLive = {} /\ AutorunLive = {} /\ JobLive = {}

(* Positions the session itself opened, as opposed to the ones a ledger    *)
(* job adds from the closing snapshot.                                     *)
SessionPosition(y) == entered[y] = "session"

(* Of the watchdogs the scheduler started, two are alive together only if  *)
(* pgrep failed it: restarts that lose its handle, watchdogs started by    *)
(* hand and the gap between its check and its Popen do not add a second    *)
(* one (watchdog_alive; backlog item INFRA-006).                           *)
OneWatchdogUnlessBlind ==
  \A v, w \in WatchdogLive \ byHand : v # w => blind

(* Two autoruns are alive together only if they were left by two different *)
(* watchdogs: restarting a stale autorun never leaves the old one behind.  *)
OneAutorunPerWatchdog ==
  \A a, b \in AutorunLive :
    a # b => \E v, w \in Watchdogs : v # w /\ mine[v] = a /\ mine[w] = b

(* Nothing is settled while the market is open, whichever process settles  *)
(* and however often autoruns were restarted.                              *)
NoSettlementBeforeClose ==
  (\E y \in Symbols : book[y] = "SETTLED") => ~ MinutesLeft

(* A day without faults ends with every position of the session settled,   *)
(* though the scheduler may kill the watchdog before its safety net ran,   *)
(* and though a second watchdog with an autorun of its own runs beside it. *)
FaultFreeDaySettles ==
  <>[](\/ faults > 0
       \/ \A y \in Symbols : SessionPosition(y) => book[y] = "SETTLED")

(* Every day ends: orphaned autoruns and ledger jobs included, no process  *)
(* of the session survives it, whatever was killed; and if nothing was,    *)
(* and nobody started a watchdog beside it, the scheduler lives on.        *)
DayEnds ==
  <>[](Quiescent /\ (faults = 0 /\ byHand = {} => sched = "asleep"))

=============================================================================
