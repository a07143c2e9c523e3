--------------------------- MODULE ModelRegistry ----------------------------
(***************************************************************************)
(* Training runs that register what they trained, and servers that load    *)
(* the champion (src/training/orchestrator.py _fit_and_register,           *)
(* src/registry/registry.py, src/models/regime_classifier.py).             *)
(*                                                                         *)
(* POST /training/run starts a thread per request and every run makes a    *)
(* ModelRegistry of its own, so the lock of registry.py excludes nobody:   *)
(* runs meet in the files, and each file operation is a step.  All runs    *)
(* hand their pickle over under one name, _staging/model.pkl.              *)
(*                                                                         *)
(* Abstractions.  One model family.  A run is named by its version, a      *)
(* timestamp to the microsecond.  The bytes of a model and their SHA-256   *)
(* are the run that trained it.  write_text truncates before it writes;    *)
(* this shows only for champion.json, the one file that is ever rewritten. *)
(* A server reads the file of its champion twice, to check it and to       *)
(* unpickle it, and these are two steps.                                   *)
(***************************************************************************)
EXTENDS Integers, FiniteSets

CONSTANTS
  Runs,        \* training runs, and the versions they register
  Servers,     \* processes that serve the champion
  None,        \* no file
  Torn,        \* a file that was truncated and not written
  Altered,     \* bytes damaged on disk
  MaxFaults    \* bound: runs killed and files damaged

ASSUME NamesAssumption == /\ None \notin Runs /\ Torn \notin Runs /\ Altered \notin Runs
                          /\ None # Torn /\ None # Altered
ASSUME FaultsAssumption == MaxFaults \in Nat

VARIABLES
  pc,          \* pc[r]: the next file operation of run r
  stage,       \* stage[r]: the stage of the artifact r registers
  staged,      \* whose model _staging/model.pkl is
  dirs,        \* version directories
  model,       \* model[v]: whose bytes v/model.pkl holds
  sha,         \* sha[v]: whose bytes the checksum in v/metadata.json is of,
               \*         v itself if there is no file, None without metadata
  champion,    \* version in champion.json
  load,        \* load[p]: how far server p has loaded its champion
  chosen,      \* chosen[p]: the version it loads, None if it gave up
  expected,    \* expected[p]: sha256_checksum in the metadata it read
  served,      \* served[p]: whose model p predicts with, None for heuristics
  late,        \* history: servers whose file was damaged after they checked it
  faults

files == <<staged, dirs, model, sha, champion>>
servers == <<load, chosen, expected, served, late>>
vars == <<pc, stage, files, servers, faults>>

Init ==
  /\ pc = [r \in Runs |-> "fit"]
  /\ stage \in [Runs -> {"challenger", "production"}]
  /\ staged = None
  /\ dirs = {}
  /\ model = [v \in Runs |-> None]
  /\ sha = [v \in Runs |-> None]
  /\ champion = None
  /\ load = [p \in Servers |-> "start"]
  /\ chosen = [p \in Servers |-> None]
  /\ expected = [p \in Servers |-> None]
  /\ served = [p \in Servers |-> None]
  /\ late = {}
  /\ faults = 0

Goto(r, from, to) ==
  /\ pc[r] = from
  /\ pc' = [pc EXCEPT ![r] = to]
  /\ UNCHANGED <<stage, servers, faults>>

-----------------------------------------------------------------------------
(* A training run.                                                         *)

\* Variant: version directories link to the staged file instead of copying it.
StageLinked(r) ==
  /\ Goto(r, "fit", "mkdir")
  /\ staged' = r
  /\ model' = [v \in Runs |-> IF model[v] = None THEN None ELSE r]
  /\ UNCHANGED <<dirs, sha, champion>>

\* staged_file.replace(final_stage)
Stage(r) ==
  /\ Goto(r, "fit", "mkdir")
  /\ staged' = r
  /\ UNCHANGED <<dirs, model, sha, champion>>

\* Variant: the pointer is moved as soon as the version directory is made.
MakeDirAndPoint(r) ==
  /\ Goto(r, "mkdir", IF staged = None THEN "metadata" ELSE "copy")
  /\ dirs' = dirs \cup {r}
  /\ champion' = IF stage[r] = "production" THEN r ELSE champion
  /\ UNCHANGED <<staged, model, sha>>

\* register: version_dir.exists(), mkdir, artifact_file_path.exists().
MakeDir(r) ==
  /\ r \notin dirs
  /\ Goto(r, "mkdir", IF staged = None THEN "metadata" ELSE "copy")
  /\ dirs' = dirs \cup {r}
  /\ UNCHANGED <<staged, model, sha, champion>>

\* copy2 is copyfile and then copystat, each opening the source by its name.
CopyFile(r) ==
  /\ Goto(r, "copy", IF staged = None THEN "failed" ELSE "stat")
  /\ model' = [model EXCEPT ![r] = staged]
  /\ UNCHANGED <<staged, dirs, sha, champion>>

CopyStat(r) ==
  /\ Goto(r, "stat", IF staged = None THEN "failed" ELSE "metadata")
  /\ UNCHANGED files

\* compute_file_sha256 of the copy, or compute_dict_sha256 without one; then
\* the .sha256 file and metadata.json.
WriteMetadata(r) ==
  /\ Goto(r, "metadata", IF stage[r] = "production" THEN "truncate" ELSE "unlink")
  /\ sha' = [sha EXCEPT ![r] = IF model[r] = None THEN r ELSE model[r]]
  /\ UNCHANGED <<staged, dirs, model, champion>>

\* Variants: an error of the write is swallowed; the checksum is written.
TruncateAndGoOn(r) ==
  /\ Goto(r, "truncate", "unlink")
  /\ champion' = Torn
  /\ UNCHANGED <<staged, dirs, model, sha>>
PointAtChecksum(r) ==
  /\ Goto(r, "point", "unlink")
  /\ champion' = sha[r]
  /\ UNCHANGED <<staged, dirs, model, sha>>

TruncatePointer(r) ==
  /\ Goto(r, "truncate", "point")
  /\ champion' = Torn
  /\ UNCHANGED <<staged, dirs, model, sha>>

WritePointer(r) ==
  /\ Goto(r, "point", "unlink")
  /\ champion' = r
  /\ UNCHANGED <<staged, dirs, model, sha>>

\* final_stage.unlink(missing_ok=True)
Unlink(r) ==
  /\ Goto(r, "unlink", "done")
  /\ staged' = None
  /\ UNCHANGED <<dirs, model, sha, champion>>

Run(r) == \/ Stage(r) \/ MakeDir(r) \/ CopyFile(r) \/ CopyStat(r) \/ WriteMetadata(r)
          \/ TruncatePointer(r) \/ WritePointer(r) \/ Unlink(r)

Ended == {"done", "failed", "killed"}

-----------------------------------------------------------------------------
(* A server loads its champion once, when its classifier is made.          *)

\* Any exception on the way is caught: heuristics until the next restart.
GiveUp(p) ==
  /\ load' = [load EXCEPT ![p] = "heuristic"]
  /\ chosen' = [chosen EXCEPT ![p] = None]
  /\ expected' = [expected EXCEPT ![p] = None]
  /\ UNCHANGED served

\* champion.json, then the metadata of the version it names.
GetChampion(p) ==
  /\ load[p] = "start"
  /\ IF champion \in Runs /\ sha[champion] # None
     THEN /\ load' = [load EXCEPT ![p] = "chosen"]
          /\ chosen' = [chosen EXCEPT ![p] = champion]
          /\ expected' = [expected EXCEPT ![p] = sha[champion]]
          /\ UNCHANGED served
     ELSE GiveUp(p)
  /\ UNCHANGED <<pc, stage, files, late, faults>>

\* Variant: a mismatch is logged and the path is returned all the same.
LoadArtifactAnyhow(p) ==
  /\ load[p] = "chosen"
  /\ load' = [load EXCEPT ![p] = "verified"]
  /\ UNCHANGED <<pc, stage, files, chosen, expected, served, late, faults>>

\* The first reading: a missing file and a mismatch both raise.
LoadArtifact(p) ==
  /\ load[p] = "chosen"
  /\ IF model[chosen[p]] = expected[p]
     THEN /\ load' = [load EXCEPT ![p] = "verified"]
          /\ UNCHANGED <<chosen, expected, served>>
     ELSE GiveUp(p)
  /\ UNCHANGED <<pc, stage, files, late, faults>>

\* The second reading, by path: pickle.load, and joblib.load if that raises.
\* Nothing is compared; damaged bytes may or may not still unpickle.
LoadModelFile(p) ==
  /\ load[p] = "verified"
  /\ \/ /\ load' = [load EXCEPT ![p] = "trained"]
        /\ served' = [served EXCEPT ![p] = model[chosen[p]]]
        /\ UNCHANGED <<chosen, expected>>
     \/ model[chosen[p]] = Altered /\ GiveUp(p)
  /\ UNCHANGED <<pc, stage, files, late, faults>>

Restart(p) ==
  /\ load[p] # "start"
  /\ load' = [load EXCEPT ![p] = "start"]
  /\ chosen' = [chosen EXCEPT ![p] = None]
  /\ expected' = [expected EXCEPT ![p] = None]
  /\ served' = [served EXCEPT ![p] = None]
  /\ late' = late \ {p}
  /\ UNCHANGED <<pc, stage, files, faults>>

-----------------------------------------------------------------------------
Fault == faults < MaxFaults /\ faults' = faults + 1

Kill(r) ==
  /\ Fault
  /\ pc[r] \notin Ended \cup {"fit"}
  /\ pc' = [pc EXCEPT ![r] = "killed"]
  /\ UNCHANGED <<stage, files, servers>>

Damage(v) ==
  /\ Fault
  /\ model[v] # None
  /\ model' = [model EXCEPT ![v] = Altered]
  /\ late' = late \cup {p \in Servers : load[p] = "verified" /\ chosen[p] = v}
  /\ UNCHANGED <<pc, stage, staged, dirs, sha, champion, load, chosen, expected, served>>

Server(p) == GetChampion(p) \/ LoadArtifact(p) \/ LoadModelFile(p) \/ Restart(p)

Next ==
  \/ \E r \in Runs : Run(r) \/ Kill(r) \/ Damage(r)
  \/ \E p \in Servers : Server(p)

Spec == Init /\ [][Next]_vars

-----------------------------------------------------------------------------
TypeOK ==
  /\ pc \in [Runs -> {"fit", "mkdir", "copy", "stat", "metadata", "truncate", "point",
                      "unlink"} \cup Ended]
  /\ stage \in [Runs -> {"challenger", "production"}]
  /\ staged \in Runs \cup {None}
  /\ dirs \in SUBSET Runs
  /\ model \in [Runs -> Runs \cup {None, Altered}]
  /\ sha \in [Runs -> Runs \cup {None, Altered}]
  /\ champion \in Runs \cup {None, Torn}
  /\ load \in [Servers -> {"start", "chosen", "verified", "trained", "heuristic"}]
  /\ chosen \in [Servers -> Runs \cup {None}]
  /\ expected \in [Servers -> Runs \cup {None, Altered}]
  /\ served \in [Servers -> Runs \cup {None, Altered}]
  /\ late \in SUBSET Servers
  /\ faults \in 0 .. MaxFaults

Registered(v) == sha[v] # None

(* champion.json never names a version whose metadata is not yet there,    *)
(* though runs race for it and may be killed between the two writes.       *)
PointerNotDangling == champion \in Runs => Registered(champion)

(* The champion, once there is one, is lost only to a run that is just     *)
(* rewriting the pointer or that was killed while doing so.                *)
ChampionLostOnlyByKill ==
  champion = Torn => \E r \in Runs : pc[r] \in {"point", "killed"}

(* A registered version is immutable: whatever other runs do, its metadata *)
(* stays as written and its file is only ever damaged, never replaced.     *)
RegisteredIsImmutable ==
  [][\A v \in Runs : Registered(v) =>
       /\ sha'[v] = sha[v]
       /\ model'[v] \in {model[v], Altered}]_vars

(* A server predicts with the bytes that the metadata of a registered      *)
(* production version was written for, although it reads the file twice    *)
(* and compares only the first time: however runs race, they never get     *)
(* between check and use.  Only damage in that very window gets through.   *)
ServedAsChecked ==
  \A p \in Servers : load[p] = "trained" =>
    /\ Registered(chosen[p]) /\ stage[chosen[p]] = "production"
    /\ served[p] = sha[chosen[p]] \/ (served[p] = Altered /\ p \in late)

(* "Fit champion on ALL data and register the immutable artifact"          *)
(* (orchestrator.py:413): the file registered under a version is the model *)
(* that version trained.  Refuted with two runs and no fault.              *)
RegistersItsOwnModel ==
  \A v \in Runs : pc[v] = "done" => model[v] \in {v, Altered}

=============================================================================
