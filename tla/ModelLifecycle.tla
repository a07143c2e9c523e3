--------------------------- MODULE ModelLifecycle ---------------------------
(***************************************************************************)
(* Champion, challenger and shadow of one model family                     *)
(* (ChampionChallengerManager in src/registry/lifecycle.py): every manager *)
(* loads _roles.json once, keeps it in memory and rewrites the whole file  *)
(* after each operation, through the temporary name _roles.json.tmp.       *)
(*                                                                         *)
(* A manager is a process: an operator's session, a certification run or   *)
(* a self-learning cycle.  An operation changes the memory and then saves: *)
(* truncate the temporary file, fill it, rename it.  Two managers share    *)
(* the temporary name, so a rename can take a file away from under a       *)
(* writer, which goes on writing into what is now _roles.json.             *)
(*                                                                         *)
(* Abstractions.  The history and the reasons are left out.  Every version *)
(* is registered as a challenger once, as training draws a new one each    *)
(* time.  The operator evaluates the shadow of the moment and later shows  *)
(* these metrics to promote_shadow_to_champion.                            *)
(***************************************************************************)
EXTENDS PromotionGates

CONSTANTS
  Managers,   \* processes with a manager of their own
  Versions,   \* versions that training will produce
  Metrics,    \* metrics a version may have
  None,       \* no version, no file
  Empty,      \* a file that was truncated
  Garbled,    \* a file with the text of two writers
  MaxKills    \* bound: managers killed inside an operation

ASSUME VersionsAssumption == None \notin Versions
ASSUME MetricsAssumption  == Metrics \subseteq MetricRows
ASSUME KillsAssumption    == MaxKills \in Nat

MaybeVersion == Versions \cup {None}
Roles == [champion : MaybeVersion, challenger : MaybeVersion, shadow : MaybeVersion,
          previous : MaybeVersion,
          championStatus : {"NOT_EVALUATED", "ELIGIBLE", "NO_ELIGIBLE_CHAMPION"},
          shadowStatus : {"NOT_EVALUATED", "ELIGIBLE", "NO_ELIGIBLE_SHADOW"}]
Fresh == [champion |-> None, challenger |-> None, shadow |-> None, previous |-> None,
          championStatus |-> "NOT_EVALUATED", shadowStatus |-> "NOT_EVALUATED"]

ASSUME FilesAssumption == /\ None \notin Roles /\ Empty \notin Roles /\ Garbled \notin Roles
                          /\ None # Empty /\ None # Garbled /\ Empty # Garbled

VARIABLES
  metrics,     \* metrics[v]: what evaluating v yields
  born,        \* versions that have been registered as challengers
  mem,         \* mem[m]: _roles of manager m
  pc,          \* pc[m]: the next file operation of m, idle, or down
  at,          \* at[m]: where the file m is writing is now
  tmp,         \* _roles.json.tmp
  roles,       \* _roles.json
  evaluated,   \* the version whose metrics the operator holds
  promoted,    \* versions that have been champion
  overlapped,  \* two managers have been up at once
  kills

files == <<tmp, roles>>
vars == <<metrics, born, mem, pc, at, files, evaluated, promoted, overlapped, kills>>

Up == {m \in Managers : pc[m] # "down"}

Init ==
  /\ metrics \in [Versions -> Metrics]
  /\ born = {}
  /\ mem = [m \in Managers |-> Fresh]
  /\ pc = [m \in Managers |-> "down"]
  /\ at = [m \in Managers |-> "nowhere"]
  /\ tmp = None
  /\ roles = None
  /\ evaluated = None
  /\ promoted = {}
  /\ overlapped = FALSE
  /\ kills = 0

-----------------------------------------------------------------------------
(* The operations on the memory, each followed by a save.                  *)

\* Variant: the operation forgets to save.
ChangeUnsaved(m, r) ==
  /\ pc[m] = "idle"
  /\ mem' = [mem EXCEPT ![m] = r]
  /\ UNCHANGED <<metrics, pc, at, files, overlapped, kills>>

Change(m, r) ==
  /\ pc[m] = "idle"
  /\ mem' = [mem EXCEPT ![m] = r]
  /\ pc' = [pc EXCEPT ![m] = "truncate"]
  /\ UNCHANGED <<metrics, at, files, overlapped, kills>>

RegisterChallenger(m, v) ==
  /\ v \notin born
  /\ born' = born \cup {v}
  /\ Change(m, [mem[m] EXCEPT !.challenger = v])
  /\ UNCHANGED <<evaluated, promoted>>

PromoteToShadow(m) ==
  /\ mem[m].challenger # None
  /\ Change(m, [mem[m] EXCEPT !.shadow = mem[m].challenger, !.shadowStatus = "ELIGIBLE"])
  /\ UNCHANGED <<born, evaluated, promoted>>

RecordNoEligibleChampion(m) ==
  /\ Change(m, [mem[m] EXCEPT !.championStatus = "NO_ELIGIBLE_CHAMPION"])
  /\ UNCHANGED <<born, evaluated, promoted>>

RecordNoEligibleShadow(m) ==
  /\ Change(m, [mem[m] EXCEPT !.shadowStatus = "NO_ELIGIBLE_SHADOW"])
  /\ UNCHANGED <<born, evaluated, promoted>>

\* evaluate_shadow only records the comparison.
EvaluateShadow(m) ==
  /\ mem[m].shadow # None
  /\ evaluated' = mem[m].shadow
  /\ Change(m, mem[m])
  /\ UNCHANGED <<born, promoted>>

\* What the operator may pass as the champion's metrics.
Comparable(r) == {NoMetrics} \cup {metrics[v] : v \in {r.champion} \ {None}}

\* Variant: the challenger is not reset.
WithNewChampionKeptChallenger(r) ==
  [r EXCEPT !.previous = r.champion, !.champion = r.shadow, !.championStatus = "ELIGIBLE",
            !.shadow = None, !.shadowStatus = "NOT_EVALUATED"]
WithNewChampion(r) ==
  [r EXCEPT !.previous = r.champion, !.champion = r.shadow, !.championStatus = "ELIGIBLE",
            !.shadow = None, !.shadowStatus = "NOT_EVALUATED", !.challenger = None]

\* promote_shadow_to_champion: without a PROMOTE or without a token the
\* roles stay as they are, and the rejection is saved with the history.
PromoteShadowToChampion(m) ==
  /\ mem[m].shadow # None
  /\ evaluated # None
  /\ \E h \in Comparable(mem[m]), token \in BOOLEAN :
       IF Outcome(metrics[evaluated], h) = "PROMOTE" /\ token
       THEN /\ Change(m, WithNewChampion(mem[m]))
            /\ promoted' = promoted \cup {mem[m].shadow}
       ELSE Change(m, mem[m]) /\ UNCHANGED promoted
  /\ UNCHANGED <<born, evaluated>>

\* Variant: without a previous champion the shadow steps in.
RolledBackOrShadow(r) ==
  [r EXCEPT !.champion = IF r.previous = None THEN r.shadow ELSE r.previous,
            !.previous = None, !.shadow = IF r.previous = None THEN None ELSE @]

RolledBack(r) == IF r.previous = None THEN r
                 ELSE [r EXCEPT !.champion = r.previous, !.previous = None]

Rollback(m) ==
  /\ Change(m, RolledBack(mem[m]))
  /\ UNCHANGED <<born, evaluated, promoted>>

-----------------------------------------------------------------------------
(* _save_state.                                                            *)

Truncate(m) ==
  /\ pc[m] = "truncate"
  /\ tmp' = Empty
  /\ at' = [at EXCEPT ![m] = "tmp"]
  /\ pc' = [pc EXCEPT ![m] = "fill"]
  /\ UNCHANGED <<metrics, born, mem, roles, evaluated, promoted, overlapped, kills>>

\* Text written over a shorter or longer text of another writer.
Written(old, r) == IF old = Empty THEN {r} ELSE {r, Garbled}

Fill(m) ==
  /\ pc[m] = "fill"
  /\ tmp' \in IF at[m] = "tmp" THEN Written(tmp, mem[m]) ELSE {tmp}
  /\ roles' \in IF at[m] = "roles" THEN Written(roles, mem[m]) ELSE {roles}
  /\ pc' = [pc EXCEPT ![m] = "replace"]
  /\ at' = [at EXCEPT ![m] = "nowhere"]
  /\ UNCHANGED <<metrics, born, mem, evaluated, promoted, overlapped, kills>>

\* Whoever has the temporary file open keeps writing to it under its new name.
Replace(m) ==
  /\ pc[m] = "replace"
  /\ IF tmp = None                               \* FileNotFoundError
     THEN UNCHANGED <<files, at>>
     ELSE /\ roles' = tmp
          /\ tmp' = None
          /\ at' = [n \in Managers |-> IF at[n] = "tmp" THEN "roles" ELSE "nowhere"]
  /\ pc' = [pc EXCEPT ![m] = "idle"]
  /\ UNCHANGED <<metrics, born, mem, evaluated, promoted, overlapped, kills>>

-----------------------------------------------------------------------------
(* A process starts, ends, or is killed.                                   *)

LoadedAnyhow(f) == IF f = None THEN Fresh ELSE f   \* variant: whatever is there

\* _load_state: a missing or unreadable file is no roles at all.
Loaded(f) == IF f \in {None, Empty, Garbled} THEN Fresh ELSE f

Start(m) ==
  /\ pc[m] = "down"
  /\ mem' = [mem EXCEPT ![m] = Loaded(roles)]
  /\ pc' = [pc EXCEPT ![m] = "idle"]
  /\ overlapped' = (overlapped \/ Up # {})
  /\ UNCHANGED <<metrics, born, at, files, evaluated, promoted, kills>>

End(m) ==
  /\ pc[m] # "down"
  /\ IF pc[m] = "idle" THEN UNCHANGED kills
     ELSE kills < MaxKills /\ kills' = kills + 1
  /\ mem' = [mem EXCEPT ![m] = Fresh]
  /\ pc' = [pc EXCEPT ![m] = "down"]
  /\ at' = [at EXCEPT ![m] = "nowhere"]
  /\ UNCHANGED <<metrics, born, files, evaluated, promoted, overlapped>>

Operation(m) ==
  \/ \E v \in Versions : RegisterChallenger(m, v)
  \/ PromoteToShadow(m) \/ EvaluateShadow(m) \/ PromoteShadowToChampion(m)
  \/ RecordNoEligibleChampion(m) \/ RecordNoEligibleShadow(m) \/ Rollback(m)

Next == \E m \in Managers :
          Operation(m) \/ Truncate(m) \/ Fill(m) \/ Replace(m) \/ Start(m) \/ End(m)

Spec == Init /\ [][Next]_vars

-----------------------------------------------------------------------------
TypeOK ==
  /\ metrics \in [Versions -> Metrics]
  /\ born \in SUBSET Versions
  /\ mem \in [Managers -> Roles]
  /\ pc \in [Managers -> {"down", "idle", "truncate", "fill", "replace"}]
  /\ at \in [Managers -> {"nowhere", "tmp", "roles"}]
  /\ tmp \in Roles \cup {None, Empty, Garbled}
  /\ roles \in Roles \cup {None, Empty, Garbled}
  /\ evaluated \in MaybeVersion
  /\ promoted \in SUBSET Versions
  /\ overlapped \in BOOLEAN
  /\ kills \in 0 .. MaxKills

\* Every record of the roles there is: in a memory or in a file.
Records == {mem[m] : m \in Managers} \cup ({tmp, roles} \ {None, Empty, Garbled})

(* A version that may trade is nothing else: no champion, and no champion  *)
(* kept for a rollback, is also challenger or shadow, in any memory or     *)
(* file, however stale the record is that the next save rewrites.          *)
TradingExcludesTrial ==
  \A r \in Records : \A v \in {r.champion, r.previous} \ {None} :
    v # r.challenger /\ v # r.shadow

(* A rollback can only install a version that was champion before: neither *)
(* an overlapping manager nor a kill puts another one into previous.       *)
RollbackTargetWasChampion ==
  \A r \in Records : {r.champion, r.previous} \ {None} \subseteq promoted

(* "ELIGIBLE - a version is assigned": a status never claims a version     *)
(* that is not there.                                                      *)
StatusHonest ==
  \A r \in Records : /\ r.championStatus = "ELIGIBLE" => r.champion # None
                     /\ r.shadowStatus = "ELIGIBLE" => r.shadow # None

(* As long as managers run one after the other, _roles.json is always a    *)
(* complete record, wherever one of them is killed.                        *)
SoloSaveIsAtomic == ~ overlapped => roles \notin {Empty, Garbled}

(* ... and what an operation returned to its caller is on disk.            *)
SoloRolesDurable ==
  ~ overlapped => \A m \in Managers : pc[m] = "idle" => mem[m] = Loaded(roles)

(* "A challenger/shadow NEVER becomes champion without passing all gates"  *)
(* (lifecycle.py:206): some comparison of the champion's own metrics is a  *)
(* PROMOTE.  Refuted by one manager: the operator evaluates a shadow, the  *)
(* next training run replaces it, and the promotion, which takes metrics   *)
(* and no version, makes champion what nobody evaluated.                   *)
OnlyGatedBecomesChampion ==
  \A v \in promoted : \E h \in {NoMetrics} \cup {metrics[w] : w \in Versions \ {v}} :
    Outcome(metrics[v], h) = "PROMOTE"

=============================================================================
