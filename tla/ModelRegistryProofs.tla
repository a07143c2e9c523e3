------------------------ MODULE ModelRegistryProofs ------------------------
(***************************************************************************)
(* Machine-checked properties of ModelRegistry for any number of training  *)
(* runs, servers and faults.  The inductive invariant Inv says what a run  *)
(* has written by the time it reaches each of its file operations, that    *)
(* whatever points to a version points to one that is registered, and what *)
(* a server may rely on between its two readings of the file.              *)
(***************************************************************************)
EXTENDS ModelRegistry, TLAPS

BeforeMetadata == {"fit", "mkdir", "copy", "stat", "metadata"}

(* A version gets its metadata from its own run, once, and before that run *)
(* touches champion.json, which only runs of production artifacts do.      *)
RunsInOrder ==
  \A r \in Runs :
    /\ Registered(r) => pc[r] \notin BeforeMetadata
    /\ pc[r] \in {"truncate", "point"} => Registered(r) /\ stage[r] = "production"

Promoted(v) == v \in Runs /\ Registered(v) /\ stage[v] = "production"

PointersPromoted ==
  /\ champion \in Runs => Promoted(champion)
  /\ \A p \in Servers : load[p] \in {"chosen", "verified", "trained"} =>
       Promoted(chosen[p]) /\ expected[p] = sha[chosen[p]]

(* After the check the file stays what it was, unless it is damaged.       *)
CheckHolds ==
  \A p \in Servers : load[p] = "verified" =>
    \/ model[chosen[p]] = sha[chosen[p]]
    \/ model[chosen[p]] = Altered /\ p \in late

Inv ==
  /\ TypeOK
  /\ RunsInOrder
  /\ PointersPromoted
  /\ ChampionLostOnlyByKill
  /\ CheckHolds
  /\ ServedAsChecked

-----------------------------------------------------------------------------
LEMMA TypeStep == TypeOK /\ PointersPromoted /\ [Next]_vars => TypeOK'
<1> SUFFICES ASSUME TypeOK, PointersPromoted, [Next]_vars PROVE TypeOK'
  OBVIOUS
<1> USE DEF TypeOK, Ended, Goto, files, servers
<1>1. ASSUME NEW r \in Runs, Stage(r) \/ MakeDir(r) \/ CopyFile(r) \/ CopyStat(r)
      PROVE  TypeOK'
  BY <1>1 DEF Stage, MakeDir, CopyFile, CopyStat
<1>2. ASSUME NEW r \in Runs,
             WriteMetadata(r) \/ TruncatePointer(r) \/ WritePointer(r) \/ Unlink(r)
      PROVE  TypeOK'
  BY <1>2 DEF WriteMetadata, TruncatePointer, WritePointer, Unlink
<1>3. ASSUME NEW r \in Runs, Kill(r) \/ Damage(r) PROVE TypeOK'
  BY <1>3, FaultsAssumption DEF Kill, Damage, Fault
<1>4. ASSUME NEW p \in Servers, Server(p) PROVE TypeOK'
  <2>1. CASE GetChampion(p)
    BY <2>1 DEF GetChampion, GiveUp
  <2>2. CASE LoadArtifact(p)
    BY <2>2 DEF LoadArtifact, GiveUp
  <2>3. CASE LoadModelFile(p)
    <3>1. model[chosen[p]] \in Runs \cup {None, Altered}
      BY <2>3 DEF LoadModelFile, PointersPromoted, Promoted
    <3> QED
      BY <2>3, <3>1 DEF LoadModelFile, GiveUp
  <2>4. CASE Restart(p)
    BY <2>4 DEF Restart
  <2> QED
    BY <1>4, <2>1, <2>2, <2>3, <2>4 DEF Server
<1>5. ASSUME UNCHANGED vars PROVE TypeOK'
  BY <1>5 DEF vars
<1> QED
  BY <1>1, <1>2, <1>3, <1>4, <1>5 DEF Next, Run

(* The registered part of the disk only grows: no step of any process      *)
(* changes a checksum that is there, and only damage changes its file.     *)
LEMMA RegisteredKept ==
  ASSUME TypeOK, RunsInOrder, [Next]_vars, NEW v \in Runs, Registered(v)
  PROVE  /\ sha'[v] = sha[v]
         /\ model'[v] = model[v] \/ (model'[v] = Altered /\ Damage(v))
         /\ stage' = stage
<1> USE DEF TypeOK, Registered, RunsInOrder, BeforeMetadata, Goto, files, servers
<1>1. ASSUME NEW r \in Runs, CopyFile(r) \/ WriteMetadata(r)
      PROVE  r # v /\ stage' = stage
                   /\ (sha' = sha \/ sha' = [sha EXCEPT ![r] = sha'[r]])
                   /\ (model' = model \/ model' = [model EXCEPT ![r] = model'[r]])
  BY <1>1 DEF CopyFile, WriteMetadata
<1>2. ASSUME NEW r \in Runs,
             \/ Stage(r) \/ MakeDir(r) \/ CopyStat(r)
             \/ TruncatePointer(r) \/ WritePointer(r) \/ Unlink(r) \/ Kill(r)
      PROVE  sha' = sha /\ model' = model /\ stage' = stage
  BY <1>2 DEF Stage, MakeDir, CopyStat, TruncatePointer, WritePointer, Unlink, Kill
<1>3. ASSUME NEW r \in Runs, Damage(r)
      PROVE  sha' = sha /\ model' = [model EXCEPT ![r] = Altered] /\ stage' = stage
  BY <1>3 DEF Damage
<1>4. ASSUME NEW p \in Servers, Server(p)
      PROVE  sha' = sha /\ model' = model /\ stage' = stage
  BY <1>4 DEF Server, GetChampion, LoadArtifact, LoadModelFile, Restart
<1>5. ASSUME UNCHANGED vars PROVE sha' = sha /\ model' = model /\ stage' = stage
  BY <1>5 DEF vars
<1> QED
  BY <1>1, <1>2, <1>3, <1>4, <1>5 DEF Next, Run

-----------------------------------------------------------------------------
LEMMA RunsInOrderStep == TypeOK /\ RunsInOrder /\ [Next]_vars => RunsInOrder'
<1> SUFFICES ASSUME TypeOK, RunsInOrder, [Next]_vars PROVE RunsInOrder'
  OBVIOUS
<1> USE DEF TypeOK, RunsInOrder, BeforeMetadata, Registered, Goto, files, servers
<1>1. ASSUME NEW r \in Runs, Stage(r) \/ MakeDir(r) \/ CopyFile(r) \/ CopyStat(r)
      PROVE  RunsInOrder'
  BY <1>1 DEF Stage, MakeDir, CopyFile, CopyStat
<1>2. ASSUME NEW r \in Runs, WriteMetadata(r) PROVE RunsInOrder'
  <2>1. sha'[r] # None
    BY <1>2, NamesAssumption DEF WriteMetadata
  <2>2. /\ pc' = [pc EXCEPT ![r] = IF stage[r] = "production" THEN "truncate" ELSE "unlink"]
        /\ stage' = stage
        /\ \A v \in Runs : v # r => sha'[v] = sha[v]
    BY <1>2 DEF WriteMetadata
  <2> QED
    BY <2>1, <2>2
<1>3. ASSUME NEW r \in Runs, TruncatePointer(r) \/ WritePointer(r) \/ Unlink(r)
      PROVE  RunsInOrder'
  BY <1>3 DEF TruncatePointer, WritePointer, Unlink
<1>4. ASSUME NEW r \in Runs, Kill(r) \/ Damage(r) PROVE RunsInOrder'
  BY <1>4 DEF Kill, Damage
<1>5. ASSUME NEW p \in Servers, Server(p)
      PROVE  RunsInOrder'
  BY <1>5 DEF Server, GetChampion, LoadArtifact, LoadModelFile, Restart
<1>6. ASSUME UNCHANGED vars PROVE RunsInOrder'
  BY <1>6 DEF vars
<1> QED
  BY <1>1, <1>2, <1>3, <1>4, <1>5, <1>6 DEF Next, Run

LEMMA PromotedKept ==
  ASSUME TypeOK, RunsInOrder, [Next]_vars, NEW v, Promoted(v)
  PROVE  Promoted(v)'
BY RegisteredKept DEF Promoted, Registered

(* What a server holds changes only by steps of its own.                   *)
LEMMA ServersApart ==
  ASSUME TypeOK, [Next]_vars, NEW p \in Servers
  PROVE  \/ Server(p)
         \/ /\ load'[p] = load[p] /\ chosen'[p] = chosen[p]
            /\ expected'[p] = expected[p] /\ served'[p] = served[p]
            /\ p \in late => p \in late'
<1> DEFINE Kept == /\ load'[p] = load[p] /\ chosen'[p] = chosen[p]
                   /\ expected'[p] = expected[p] /\ served'[p] = served[p]
                   /\ p \in late => p \in late'
<1>1. ASSUME NEW r \in Runs, Run(r) \/ Kill(r) PROVE Kept
  BY <1>1 DEF Run, Stage, MakeDir, CopyFile, CopyStat, WriteMetadata, TruncatePointer,
              WritePointer, Unlink, Kill, Goto, servers
<1>2. ASSUME NEW r \in Runs, Damage(r) PROVE Kept
  BY <1>2 DEF Damage
<1>3. ASSUME NEW q \in Servers, Server(q), q # p PROVE Kept
  BY <1>3 DEF TypeOK, Server, GetChampion, LoadArtifact, LoadModelFile, Restart, GiveUp
<1>4. ASSUME UNCHANGED vars PROVE Kept
  BY <1>4 DEF vars, servers
<1> QED
  BY <1>1, <1>2, <1>3, <1>4 DEF Next

LEMMA PointersStep == Inv /\ [Next]_vars => PointersPromoted'
<1> SUFFICES ASSUME Inv, [Next]_vars PROVE PointersPromoted'
  OBVIOUS
<1> USE DEF Inv
<1>1. champion' \in Runs => Promoted(champion)'
  <2>1. CASE champion' = champion
    BY <2>1, PromotedKept DEF PointersPromoted
  <2>2. ASSUME NEW r \in Runs, TruncatePointer(r) PROVE champion' \notin Runs
    BY <2>2, NamesAssumption DEF TruncatePointer
  <2>3. ASSUME NEW r \in Runs, WritePointer(r) PROVE Promoted(champion)'
    <3>1. champion' = r /\ Promoted(r)
      BY <2>3 DEF WritePointer, Goto, RunsInOrder, Promoted
    <3> QED
      BY <3>1, PromotedKept
  <2>4. ASSUME NEW r \in Runs,
               \/ Stage(r) \/ MakeDir(r) \/ CopyFile(r) \/ CopyStat(r)
               \/ WriteMetadata(r) \/ Unlink(r) \/ Kill(r) \/ Damage(r)
        PROVE  champion' = champion
    BY <2>4 DEF Stage, MakeDir, CopyFile, CopyStat, WriteMetadata, Unlink, Kill, Damage,
                files
  <2>5. ASSUME NEW p \in Servers, Server(p) PROVE champion' = champion
    BY <2>5 DEF Server, GetChampion, LoadArtifact, LoadModelFile, Restart, files
  <2>6. ASSUME UNCHANGED vars PROVE champion' = champion
    BY <2>6 DEF vars, files
  <2> QED
    BY <2>1, <2>2, <2>3, <2>4, <2>5, <2>6 DEF Next, Run
<1>2. ASSUME NEW p \in Servers, load'[p] \in {"chosen", "verified", "trained"}
      PROVE  Promoted(chosen[p])' /\ expected'[p] = sha'[chosen'[p]]
  <2>1. Promoted(chosen'[p]) /\ expected'[p] = sha[chosen'[p]]
    <3>1. CASE load'[p] = load[p] /\ chosen'[p] = chosen[p] /\ expected'[p] = expected[p]
      BY <1>2, <3>1 DEF PointersPromoted
    <3>2. CASE GetChampion(p)
      <4>1. champion \in Runs /\ chosen'[p] = champion /\ expected'[p] = sha[champion]
        BY <1>2, <3>2 DEF TypeOK, GetChampion, GiveUp
      <4> QED
        BY <4>1 DEF PointersPromoted
    <3>3. CASE LoadArtifact(p) \/ LoadModelFile(p)
      <4>1. /\ load[p] \in {"chosen", "verified"}
            /\ chosen'[p] = chosen[p] /\ expected'[p] = expected[p]
        BY <1>2, <3>3 DEF TypeOK, LoadArtifact, LoadModelFile, GiveUp
      <4> QED
        BY <4>1 DEF PointersPromoted
    <3>4. CASE Restart(p)
      BY <1>2, <3>4 DEF TypeOK, Restart
    <3> QED
      BY <3>1, <3>2, <3>3, <3>4, ServersApart DEF Server
  <2> QED
    BY <2>1, PromotedKept, RegisteredKept DEF Promoted
<1> QED
  BY <1>1, <1>2 DEF PointersPromoted, Promoted, Registered

(* Nobody gets between the two readings of a server but damage, and damage *)
(* in that window is on record.                                            *)
LEMMA CheckStep == Inv /\ [Next]_vars => CheckHolds'
<1> SUFFICES ASSUME Inv, [Next]_vars, NEW p \in Servers, load'[p] = "verified"
             PROVE  \/ model'[chosen'[p]] = sha'[chosen'[p]]
                    \/ model'[chosen'[p]] = Altered /\ p \in late'
  BY DEF CheckHolds
<1> USE DEF Inv
<1>1. CASE LoadArtifact(p)
  <2>1. /\ load[p] = "chosen" /\ chosen'[p] = chosen[p]
        /\ model[chosen[p]] = expected[p] /\ model' = model /\ sha' = sha
    BY <1>1 DEF TypeOK, LoadArtifact, GiveUp, files
  <2> QED
    BY <2>1 DEF PointersPromoted
<1>2. CASE load'[p] = load[p] /\ chosen'[p] = chosen[p] /\ (p \in late => p \in late')
  <2>1. Registered(chosen[p]) /\ chosen[p] \in Runs
    BY <1>2 DEF PointersPromoted, Promoted
  <2>2. sha'[chosen[p]] = sha[chosen[p]]
    BY <2>1, RegisteredKept
  <2>3. CASE model'[chosen[p]] = model[chosen[p]]
    BY <1>2, <2>2, <2>3 DEF CheckHolds
  <2>4. CASE model'[chosen[p]] = Altered /\ Damage(chosen[p])
    BY <1>2, <2>4 DEF Damage
  <2> QED
    BY <2>1, <2>3, <2>4, RegisteredKept
<1>3. CASE GetChampion(p) \/ LoadModelFile(p) \/ Restart(p)
  BY <1>3 DEF TypeOK, GetChampion, LoadModelFile, Restart, GiveUp
<1> QED
  BY <1>1, <1>2, <1>3, ServersApart DEF Server

LEMMA ChampionStep == Inv /\ [Next]_vars => ChampionLostOnlyByKill'
<1> SUFFICES ASSUME Inv, [Next]_vars, champion' = Torn
             PROVE  \E r \in Runs : pc'[r] \in {"point", "killed"}
  BY DEF ChampionLostOnlyByKill
<1> USE DEF Inv, TypeOK, ChampionLostOnlyByKill, Goto, files, servers
<1>1. ASSUME NEW r \in Runs, Stage(r) \/ MakeDir(r) \/ CopyFile(r) \/ CopyStat(r)
                             \/ WriteMetadata(r) \/ Unlink(r)
      PROVE  \E s \in Runs : pc'[s] \in {"point", "killed"}
  <2>1. PICK s \in Runs : pc[s] \in {"point", "killed"}
    BY <1>1 DEF Stage, MakeDir, CopyFile, CopyStat, WriteMetadata, Unlink
  <2>2. pc'[s] = pc[s]
    BY <1>1, <2>1 DEF Stage, MakeDir, CopyFile, CopyStat, WriteMetadata, Unlink
  <2> QED
    BY <2>1, <2>2
<1>2. ASSUME NEW r \in Runs, TruncatePointer(r)
      PROVE  \E s \in Runs : pc'[s] \in {"point", "killed"}
  BY <1>2 DEF TruncatePointer
<1>3. ASSUME NEW r \in Runs, WritePointer(r) PROVE FALSE
  BY <1>3, NamesAssumption DEF WritePointer
<1>4. ASSUME NEW r \in Runs, Kill(r)
      PROVE  \E s \in Runs : pc'[s] \in {"point", "killed"}
  BY <1>4 DEF Kill
<1>5. ASSUME pc' = pc, champion' = champion
      PROVE  \E s \in Runs : pc'[s] \in {"point", "killed"}
  BY <1>5
<1>6. ASSUME NEW r \in Runs, Damage(r) PROVE pc' = pc /\ champion' = champion
  BY <1>6 DEF Damage
<1>7. ASSUME NEW p \in Servers, Server(p)
      PROVE  pc' = pc /\ champion' = champion
  BY <1>7 DEF Server, GetChampion, LoadArtifact, LoadModelFile, Restart
<1>8. ASSUME UNCHANGED vars PROVE pc' = pc /\ champion' = champion
  BY <1>8 DEF vars
<1> QED
  BY <1>1, <1>2, <1>3, <1>4, <1>5, <1>6, <1>7, <1>8 DEF Next, Run

LEMMA ServedStep == Inv /\ [Next]_vars => ServedAsChecked'
<1> SUFFICES ASSUME Inv, [Next]_vars, NEW p \in Servers, load'[p] = "trained"
             PROVE  /\ Promoted(chosen[p])'
                    /\ \/ served'[p] = sha'[chosen'[p]]
                       \/ served'[p] = Altered /\ p \in late'
  BY DEF ServedAsChecked, Promoted, Registered
<1> USE DEF Inv
<1>1. Promoted(chosen[p])' /\ chosen'[p] \in Runs
  BY PointersStep DEF PointersPromoted, Promoted, Registered
<1>2. CASE /\ load'[p] = load[p] /\ chosen'[p] = chosen[p] /\ served'[p] = served[p]
           /\ p \in late => p \in late'
  <2>1. Registered(chosen[p]) /\ chosen[p] \in Runs
    BY <1>2 DEF PointersPromoted, Promoted
  <2>2. sha'[chosen[p]] = sha[chosen[p]]
    BY <2>1, RegisteredKept
  <2> QED
    BY <1>1, <1>2, <2>2 DEF ServedAsChecked
<1>3. CASE LoadModelFile(p)
  <2>1. /\ load[p] = "verified" /\ chosen'[p] = chosen[p]
        /\ served'[p] = model[chosen[p]] /\ sha' = sha /\ late' = late
    BY <1>3 DEF TypeOK, LoadModelFile, GiveUp, files
  <2> QED
    BY <1>1, <2>1 DEF CheckHolds
<1>4. CASE GetChampion(p) \/ LoadArtifact(p) \/ Restart(p)
  BY <1>4 DEF TypeOK, GetChampion, LoadArtifact, Restart, GiveUp
<1> QED
  BY <1>2, <1>3, <1>4, ServersApart DEF Server

-----------------------------------------------------------------------------
THEOREM Invariance == Spec => []Inv
<1>1. Init => Inv
  BY NamesAssumption, FaultsAssumption
     DEF Init, Inv, TypeOK, RunsInOrder, BeforeMetadata, Registered, PointersPromoted,
         ChampionLostOnlyByKill, CheckHolds, ServedAsChecked
<1>2. Inv /\ [Next]_vars => Inv'
  <2> SUFFICES ASSUME Inv, [Next]_vars PROVE Inv'
    OBVIOUS
  <2> QED
    BY TypeStep, RunsInOrderStep, PointersStep, ChampionStep, CheckStep, ServedStep DEF Inv
<1> QED
  BY <1>1, <1>2, PTL DEF Spec

(* Every variable of the registry and of its runs keeps its type (TypeOK). *)
THEOREM RegistryTypeCorrect == Spec => []TypeOK
BY Invariance, PTL DEF Inv

(* champion.json never names a version without metadata, for any number of *)
(* racing training runs and wherever they are killed (PointerNotDangling). *)
THEOREM PointerNeverDangles == Spec => []PointerNotDangling
<1>1. Inv => PointerNotDangling
  BY DEF Inv, PointersPromoted, Promoted, PointerNotDangling
<1> QED
  BY <1>1, Invariance, PTL

(* A torn champion.json is a run's doing that is still writing it or was   *)
(* killed before it did (ChampionLostOnlyByKill).                          *)
THEOREM ChampionLossNeedsAKill == Spec => []ChampionLostOnlyByKill
BY Invariance, PTL DEF Inv

(* A server predicts with what the metadata of its version was written for *)
(* although it compares one reading and uses another: no race of training  *)
(* runs comes between, only damage in that window (ServedAsChecked).       *)
THEOREM ServersServeWhatTheyChecked == Spec => []ServedAsChecked
BY Invariance, PTL DEF Inv

(* No step of any run or server rewrites a registered version              *)
(* (RegisteredIsImmutable).                                                *)
THEOREM RegistrationIsFinal == Spec => RegisteredIsImmutable
<1>1. Inv /\ [Next]_vars =>
        [\A v \in Runs : Registered(v) =>
           /\ sha'[v] = sha[v]
           /\ model'[v] \in {model[v], Altered}]_vars
  BY RegisteredKept DEF Inv
<1> QED
  BY <1>1, Invariance, PTL DEF Spec, RegisteredIsImmutable

=============================================================================
