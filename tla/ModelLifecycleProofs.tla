------------------------ MODULE ModelLifecycleProofs ------------------------
(***************************************************************************)
(* Machine-checked properties of ModelLifecycle for any number of managers *)
(* and versions.  A record of the roles may be stale, but it is Sound: it  *)
(* was sound when a manager held it, and what it is compared with only     *)
(* grows.  For managers that run one after the other, SoloSave says what   *)
(* is on disk at each step of a save.                                      *)
(***************************************************************************)
EXTENDS ModelLifecycle, WellFoundedInduction, TLAPS

(* The versions of a record have been registered, the ones that may trade  *)
(* have been champion and are on no trial, and the statuses are honest.    *)
Sound(r, b, p) ==
  /\ {r.champion, r.challenger, r.shadow, r.previous} \ {None} \subseteq b
  /\ {r.champion, r.previous} \ {None} \subseteq p
  /\ \A v \in {r.champion, r.previous} \ {None} : v # r.challenger /\ v # r.shadow
  /\ r.championStatus = "ELIGIBLE" => r.champion # None
  /\ r.shadowStatus = "ELIGIBLE" => r.shadow # None

RecordsSound ==
  /\ \A m \in Managers : Sound(mem[m], born, promoted)
  /\ tmp \in Roles => Sound(tmp, born, promoted)
  /\ roles \in Roles => Sound(roles, born, promoted)

WriterOpen == \A m \in Managers : at[m] # "nowhere" => pc[m] = "fill"

SoloSave ==
  ~ overlapped =>
    /\ \A m, n \in Up : m = n
    /\ roles \notin {Empty, Garbled}
    /\ \A m \in Managers :
         /\ pc[m] = "idle" => mem[m] = Loaded(roles)
         /\ pc[m] = "fill" => at[m] = "tmp" /\ tmp = Empty
         /\ pc[m] = "replace" => tmp = mem[m]

Inv == TypeOK /\ RecordsSound /\ WriterOpen /\ SoloSave

-----------------------------------------------------------------------------
LEMMA NotRecords == None \notin Roles /\ Empty \notin Roles /\ Garbled \notin Roles
BY FilesAssumption

LEMMA FilesDistinct == None # Empty /\ None # Garbled /\ Empty # Garbled
BY FilesAssumption

LEMMA FreshSound == Fresh \in Roles /\ \A b, p : Sound(Fresh, b, p)
BY DEF Fresh, Roles, MaybeVersion, Sound

LEMMA SoundGrows ==
  ASSUME NEW r, NEW b, NEW p, NEW c, NEW q, b \subseteq c, p \subseteq q, Sound(r, b, p)
  PROVE  Sound(r, c, q)
BY DEF Sound

(* What each operation makes of a sound record.                            *)
Changed(m, r) == /\ pc[m] = "idle"
                 /\ mem' = [mem EXCEPT ![m] = r]
                 /\ pc' = [pc EXCEPT ![m] = "truncate"]
                 /\ r \in Roles
                 /\ Sound(r, born', promoted')
                 /\ born' \in SUBSET Versions /\ born \subseteq born'
                 /\ promoted' \in SUBSET Versions /\ promoted \subseteq promoted'
                 /\ evaluated' \in MaybeVersion
                 /\ UNCHANGED <<metrics, at, files, overlapped, kills>>

LEMMA OperationChanges ==
  ASSUME TypeOK, RecordsSound, NEW m \in Managers, Operation(m)
  PROVE  \E r : Changed(m, r)
<1> DEFINE s == mem[m]
<1> HIDE DEF s
<1>0. s = mem[m] /\ s \in Roles /\ Sound(s, born, promoted)
  BY DEF TypeOK, RecordsSound, s
<1>1. ASSUME NEW v \in Versions, RegisterChallenger(m, v)
      PROVE  Changed(m, [s EXCEPT !.challenger = v])
  BY <1>0, <1>1, VersionsAssumption, ZenonT(40)
     DEF RegisterChallenger, Change, Changed, Sound, Roles, MaybeVersion, TypeOK
<1>2. ASSUME PromoteToShadow(m)
      PROVE  Changed(m, [s EXCEPT !.shadow = s.challenger, !.shadowStatus = "ELIGIBLE"])
  BY <1>0, <1>2 DEF PromoteToShadow, Change, Changed, Sound, Roles, MaybeVersion, TypeOK
<1>3. ASSUME EvaluateShadow(m) PROVE Changed(m, s)
  BY <1>0, <1>3 DEF EvaluateShadow, Change, Changed, Roles, TypeOK
<1>4. ASSUME RecordNoEligibleChampion(m)
      PROVE  Changed(m, [s EXCEPT !.championStatus = "NO_ELIGIBLE_CHAMPION"])
  BY <1>0, <1>4 DEF RecordNoEligibleChampion, Change, Changed, Sound, Roles, TypeOK
<1>5. ASSUME RecordNoEligibleShadow(m)
      PROVE  Changed(m, [s EXCEPT !.shadowStatus = "NO_ELIGIBLE_SHADOW"])
  BY <1>0, <1>5 DEF RecordNoEligibleShadow, Change, Changed, Sound, Roles, TypeOK
<1>6. ASSUME Rollback(m) PROVE Changed(m, RolledBack(s))
  BY <1>0, <1>6, ZenonT(40) DEF Rollback, RolledBack, Change, Changed, Sound, Roles, MaybeVersion, TypeOK
<1>7. ASSUME PromoteShadowToChampion(m)
      PROVE  Changed(m, s) \/ Changed(m, WithNewChampion(s))
  <2>1. CASE Change(m, s) /\ UNCHANGED promoted
    BY <1>0, <1>7, <2>1 DEF PromoteShadowToChampion, Change, Changed, TypeOK
  <2>2. CASE Change(m, WithNewChampion(s)) /\ promoted' = promoted \cup {s.shadow}
    <3>1. s.shadow \in Versions /\ s.shadow # None
      BY <1>0, <1>7 DEF PromoteShadowToChampion, Roles, MaybeVersion
    <3>2. WithNewChampion(s) \in Roles
      BY <1>0 DEF WithNewChampion, Roles, MaybeVersion
    <3>3. Sound(WithNewChampion(s), born, promoted')
      BY <1>0, <2>2, <3>1 DEF WithNewChampion, Sound, Roles
    <3> QED
      BY <1>7, <2>2, <3>1, <3>2, <3>3 DEF PromoteShadowToChampion, Change, Changed, TypeOK
  <2> QED
    BY <1>0, <1>7, <2>1, <2>2 DEF PromoteShadowToChampion
<1> QED
  BY <1>1, <1>2, <1>3, <1>4, <1>5, <1>6, <1>7 DEF Operation

-----------------------------------------------------------------------------
LEMMA InitInv == Init => Inv
<1> SUFFICES ASSUME Init PROVE Inv
  OBVIOUS
<1>1. TypeOK
  <2>1. mem \in [Managers -> Roles]
    BY FreshSound DEF Init
  <2>2. kills \in 0 .. MaxKills
    BY KillsAssumption DEF Init
  <2> QED
    BY <2>1, <2>2 DEF Init, TypeOK, MaybeVersion
<1>2. RecordsSound
  BY FreshSound, NotRecords DEF Init, RecordsSound
<1>3. WriterOpen
  BY DEF Init, WriterOpen
<1>4. SoloSave
  BY FilesDistinct DEF Init, SoloSave, Up
<1> QED
  BY <1>1, <1>2, <1>3, <1>4 DEF Inv

LEMMA SaveStepType ==
  ASSUME TypeOK, NEW m \in Managers, Truncate(m) \/ Fill(m) \/ Replace(m)
  PROVE  TypeOK'
<1>1. CASE Truncate(m)
  BY <1>1 DEF Truncate, TypeOK
<1>2. CASE Fill(m)
  <2>1. tmp' \in Roles \cup {None, Empty, Garbled} /\ roles' \in Roles \cup {None, Empty, Garbled}
    BY <1>2 DEF Fill, Written, TypeOK
  <2> QED
    BY <1>2, <2>1 DEF Fill, TypeOK
<1>3. CASE Replace(m)
  BY <1>3 DEF Replace, TypeOK, files
<1> QED
  BY <1>1, <1>2, <1>3

LEMMA ProcessStepType ==
  ASSUME TypeOK, NEW m \in Managers, Start(m) \/ End(m)
  PROVE  TypeOK'
<1>1. CASE Start(m)
  <2>1. Loaded(roles) \in Roles
    BY FreshSound DEF Loaded, TypeOK
  <2> QED
    BY <1>1, <2>1 DEF Start, TypeOK, files
<1>2. CASE End(m)
  BY <1>2, FreshSound, KillsAssumption DEF End, TypeOK, files
<1> QED
  BY <1>1, <1>2

LEMMA TypeStep == TypeOK /\ RecordsSound /\ [Next]_vars => TypeOK'
<1> SUFFICES ASSUME TypeOK, RecordsSound, [Next]_vars PROVE TypeOK'
  OBVIOUS
<1>1. ASSUME NEW m \in Managers, Operation(m) PROVE TypeOK'
  <2>1. PICK r : Changed(m, r)
    BY <1>1, OperationChanges
  <2> QED
    BY <2>1 DEF Changed, TypeOK, files
<1>2. CASE UNCHANGED vars
  BY <1>2 DEF vars, files, TypeOK
<1> QED
  BY <1>1, <1>2, SaveStepType, ProcessStepType DEF Next

LEMMA SoundStep == TypeOK /\ RecordsSound /\ [Next]_vars => RecordsSound'
<1> SUFFICES ASSUME TypeOK, RecordsSound, [Next]_vars PROVE RecordsSound'
  OBVIOUS
<1>1. ASSUME NEW m \in Managers, Operation(m) PROVE RecordsSound'
  <2>1. PICK r : Changed(m, r)
    BY <1>1, OperationChanges
  <2>2. \A s : Sound(s, born, promoted) => Sound(s, born', promoted')
    BY <2>1, SoundGrows DEF Changed
  <2>3. ASSUME NEW n \in Managers PROVE Sound(mem'[n], born', promoted')
    BY <2>1, <2>2 DEF Changed, RecordsSound, TypeOK
  <2> QED
    BY <2>1, <2>2, <2>3 DEF Changed, RecordsSound, files
<1>2. ASSUME NEW m \in Managers, Truncate(m) PROVE RecordsSound'
  BY <1>2, NotRecords DEF Truncate, RecordsSound
<1>3. ASSUME NEW m \in Managers, Fill(m) PROVE RecordsSound'
  <2>1. tmp' \in {tmp, mem[m], Garbled} /\ roles' \in {roles, mem[m], Garbled}
    BY <1>3 DEF Fill, Written
  <2> QED
    BY <1>3, <2>1, NotRecords DEF Fill, RecordsSound
<1>4. ASSUME NEW m \in Managers, Replace(m) PROVE RecordsSound'
  BY <1>4, NotRecords DEF Replace, RecordsSound, files
<1>5. ASSUME NEW m \in Managers, Start(m) PROVE RecordsSound'
  <2>1. Sound(Loaded(roles), born, promoted)
    BY FreshSound DEF Loaded, RecordsSound, TypeOK
  <2>2. ASSUME NEW n \in Managers PROVE Sound(mem'[n], born, promoted)
    BY <1>5, <2>1 DEF Start, RecordsSound, TypeOK
  <2> QED
    BY <1>5, <2>2 DEF Start, RecordsSound, files
<1>6. ASSUME NEW m \in Managers, End(m) PROVE RecordsSound'
  <2>1. ASSUME NEW n \in Managers PROVE Sound(mem'[n], born, promoted)
    BY <1>6, FreshSound DEF End, RecordsSound, TypeOK
  <2> QED
    BY <1>6, <2>1 DEF End, RecordsSound, files
<1>7. CASE UNCHANGED vars
  BY <1>7 DEF vars, files, RecordsSound
<1> QED
  BY <1>1, <1>2, <1>3, <1>4, <1>5, <1>6, <1>7 DEF Next

LEMMA WriterStep == TypeOK /\ RecordsSound /\ WriterOpen /\ [Next]_vars => WriterOpen'
<1> SUFFICES ASSUME TypeOK, RecordsSound, WriterOpen, [Next]_vars PROVE WriterOpen'
  OBVIOUS
<1>1. ASSUME NEW m \in Managers, Operation(m) PROVE WriterOpen'
  <2>1. PICK r : Changed(m, r)
    BY <1>1, OperationChanges
  <2> QED
    BY <2>1 DEF Changed, TypeOK, WriterOpen
<1>2. ASSUME NEW m \in Managers, Truncate(m) \/ Fill(m) \/ Start(m) \/ End(m)
      PROVE  WriterOpen'
  BY <1>2 DEF Truncate, Fill, Start, End, TypeOK, WriterOpen
<1>3. ASSUME NEW m \in Managers, Replace(m) PROVE WriterOpen'
  BY <1>3 DEF Replace, TypeOK, WriterOpen
<1>4. CASE UNCHANGED vars
  BY <1>4 DEF vars, WriterOpen
<1> QED
  BY <1>1, <1>2, <1>3, <1>4 DEF Next

(* Only one manager is up, so the others cannot touch a file.              *)
LEMMA SoloStep == Inv /\ [Next]_vars => SoloSave'
<1> SUFFICES ASSUME Inv, [Next]_vars, ~ overlapped' PROVE SoloSave'
  BY DEF SoloSave
<1>0. ~ overlapped
  <2>1. ASSUME NEW m \in Managers, Operation(m) PROVE overlapped' = overlapped
    BY <2>1, OperationChanges DEF Inv, Changed
  <2>2. ASSUME NEW m \in Managers, Truncate(m) \/ Fill(m) \/ Replace(m) \/ End(m)
        PROVE  overlapped' = overlapped
    BY <2>2 DEF Truncate, Fill, Replace, End
  <2>3. ASSUME NEW m \in Managers, Start(m) PROVE ~ overlapped
    BY <2>3 DEF Start
  <2> QED
    BY <2>1, <2>2, <2>3 DEF Next, vars
<1> DEFINE Alone == \A m, n \in Up : m = n
           Whole == roles \notin {Empty, Garbled}
           Saved(m) == /\ pc[m] = "idle" => mem[m] = Loaded(roles)
                       /\ pc[m] = "fill" => at[m] = "tmp" /\ tmp = Empty
                       /\ pc[m] = "replace" => tmp = mem[m]
<1>s. Alone /\ Whole /\ (\A m \in Managers : Saved(m)) /\ TypeOK /\ WriterOpen
  BY <1>0 DEF Inv, SoloSave
<1>u. ASSUME NEW m \in Managers, pc[m] # "down", NEW n \in Managers, n # m
      PROVE  pc[n] = "down"
  BY <1>s, <1>u DEF Up
<1>g. SUFFICES Alone' /\ Whole' /\ \A m \in Managers : Saved(m)'
  BY DEF SoloSave
<1>1. ASSUME NEW m \in Managers, Operation(m) PROVE Alone' /\ Whole' /\ \A n \in Managers : Saved(n)'
  <2>1. PICK r : Changed(m, r)
    BY <1>1, OperationChanges DEF Inv
  <2>2. Up' = Up
    BY <2>1 DEF Changed, Up, TypeOK, Inv
  <2>3. ASSUME NEW n \in Managers PROVE Saved(n)'
    BY <2>1, <1>u, <1>s DEF Changed, TypeOK, files
  <2> QED
    BY <1>s, <2>1, <2>2, <2>3 DEF Changed, files
<1>2. ASSUME NEW m \in Managers, Truncate(m) PROVE Alone' /\ Whole' /\ \A n \in Managers : Saved(n)'
  <2>1. Up' = Up
    BY <1>2, <1>s DEF Truncate, Up, TypeOK
  <2>2. ASSUME NEW n \in Managers PROVE Saved(n)'
    BY <1>2, <1>u, <1>s DEF Truncate, TypeOK
  <2> QED
    BY <1>2, <1>s, <2>1, <2>2 DEF Truncate
<1>3. ASSUME NEW m \in Managers, Fill(m) PROVE Alone' /\ Whole' /\ \A n \in Managers : Saved(n)'
  <2>1. Up' = Up
    BY <1>3, <1>s DEF Fill, Up, TypeOK
  <2>2. pc[m] = "fill" /\ tmp' = mem[m] /\ roles' = roles
    BY <1>3, <1>s DEF Fill, Written
  <2>3. ASSUME NEW n \in Managers PROVE Saved(n)'
    BY <1>3, <1>u, <1>s, <2>2 DEF Fill, TypeOK
  <2> QED
    BY <1>s, <2>1, <2>2, <2>3
<1>4. ASSUME NEW m \in Managers, Replace(m) PROVE Alone' /\ Whole' /\ \A n \in Managers : Saved(n)'
  <2>1. Up' = Up
    BY <1>4, <1>s DEF Replace, Up, TypeOK
  <2>2. pc[m] = "replace" /\ tmp = mem[m] /\ mem[m] \in Roles
    BY <1>4, <1>s DEF Replace, TypeOK
  <2>3. roles' = mem[m] /\ mem' = mem /\ pc' = [pc EXCEPT ![m] = "idle"]
    BY <1>4, <2>2, NotRecords DEF Replace
  <2>4. Loaded(roles') = mem[m] /\ Whole'
    BY <2>2, <2>3, NotRecords DEF Loaded
  <2>5. ASSUME NEW n \in Managers PROVE Saved(n)'
    BY <1>u, <1>s, <2>2, <2>3, <2>4 DEF TypeOK
  <2> QED
    BY <1>s, <2>1, <2>4, <2>5
<1>5. ASSUME NEW m \in Managers, Start(m) PROVE Alone' /\ Whole' /\ \A n \in Managers : Saved(n)'
  <2>1. Up = {}
    BY <1>5 DEF Start
  <2>2. Up' = {m}
    BY <1>5, <2>1, <1>s DEF Start, Up, TypeOK
  <2>3. ASSUME NEW n \in Managers PROVE Saved(n)'
    BY <1>5, <2>1, <1>s DEF Start, Up, TypeOK, files
  <2> QED
    BY <1>5, <1>s, <2>2, <2>3 DEF Start, files
<1>6. ASSUME NEW m \in Managers, End(m) PROVE Alone' /\ Whole' /\ \A n \in Managers : Saved(n)'
  <2>1. Up' = {}
    BY <1>6, <1>u, <1>s DEF End, Up, TypeOK
  <2>2. ASSUME NEW n \in Managers PROVE Saved(n)'
    BY <1>6, <2>1, <1>s DEF End, Up, TypeOK
  <2> QED
    BY <1>6, <1>s, <2>1, <2>2 DEF End, files
<1>7. CASE UNCHANGED vars
  BY <1>7, <1>s DEF vars, files, Up
<1> QED
  BY <1>1, <1>2, <1>3, <1>4, <1>5, <1>6, <1>7 DEF Next

-----------------------------------------------------------------------------
(* The invariant of all reachable states.                                  *)
THEOREM Invariance == Spec => []Inv
<1>1. Inv /\ [Next]_vars => Inv'
  BY TypeStep, SoundStep, WriterStep, SoloStep DEF Inv
<1> QED
  BY InitInv, <1>1, PTL DEF Spec

(* Memories and files hold roles of the right types, for any number of     *)
(* managers and versions.                                                  *)
THEOREM LifecycleTypeCorrect == Spec => []TypeOK
BY Invariance, PTL DEF Inv

LEMMA RecordsAreSound ==
  ASSUME Inv, NEW r \in Records PROVE Sound(r, born, promoted)
BY DEF Inv, Records, RecordsSound, TypeOK

(* However stale the record a manager rewrites the file from, nothing that *)
(* may trade is challenger or shadow in it.                                *)
THEOREM NoTradingOnTrial == Spec => []TradingExcludesTrial
<1>1. Inv => TradingExcludesTrial
  BY RecordsAreSound DEF TradingExcludesTrial, Sound
<1> QED
  BY Invariance, <1>1, PTL

(* A rollback only ever installs what has been champion.                   *)
THEOREM RollbackOnlyToChampions == Spec => []RollbackTargetWasChampion
<1>1. Inv => RollbackTargetWasChampion
  BY RecordsAreSound DEF RollbackTargetWasChampion, Sound
<1> QED
  BY Invariance, <1>1, PTL

(* A status ELIGIBLE always comes with its version.                        *)
THEOREM StatusesAreHonest == Spec => []StatusHonest
<1>1. Inv => StatusHonest
  BY RecordsAreSound DEF StatusHonest, Sound
<1> QED
  BY Invariance, <1>1, PTL

(* Managers that run one after the other never find a damaged file,        *)
(* wherever their predecessors were killed.                                *)
THEOREM SoloSavesAreAtomic == Spec => []SoloSaveIsAtomic
<1>1. Inv => SoloSaveIsAtomic
  BY DEF Inv, SoloSave, SoloSaveIsAtomic
<1> QED
  BY Invariance, <1>1, PTL

(* What such a manager returned to its caller is on disk.                  *)
THEOREM SoloRolesAreDurable == Spec => []SoloRolesDurable
<1>1. Inv => SoloRolesDurable
  BY DEF Inv, SoloSave, SoloRolesDurable
<1> QED
  BY Invariance, <1>1, PTL

-----------------------------------------------------------------------------
(* The gates order the models they compare: if one is promoted over        *)
(* another, the other is not promoted over it, whatever their metrics, so  *)
(* two champions cannot take turns as long as they are compared.           *)
THEOREM PromotionsDoNotAlternate ==
  ASSUME NEW c \in MetricRows, NEW h \in MetricRows, Outcome(c, h) = "PROMOTE"
  PROVE  Outcome(h, c) # "PROMOTE"
<1>1. ASSUME NEW a \in MetricRows, NEW b \in MetricRows, Outcome(a, b) = "PROMOTE"
      PROVE  a.ic > b.ic + Margin
  <2>1. PredictiveGate(a, b) # "FAIL"
    BY <1>1 DEF Outcome, Gates
  <2> QED
    BY <2>1, NoMetricsAssumption DEF PredictiveGate, PassIf
<1>2. c.ic \in Int /\ h.ic \in Int
  BY DEF MetricRows
<1> QED
  BY <1>1, <1>2, MarginAssumption

(* What a promotion over a champion says of the two models. *)
LEMMA PromotionCompares ==
  ASSUME NEW c \in MetricRows, NEW h \in MetricRows, Outcome(c, h) = "PROMOTE"
  PROVE  /\ c.ic > h.ic + Margin
         /\ c.brier <= h.brier + BrierTolerance
         /\ c.drawdown <= h.drawdown + DrawdownTolerance
<1>1. /\ PredictiveGate(c, h) # "FAIL" /\ CalibrationGate(c, h) # "FAIL"
      /\ RiskGate(c, h) # "FAIL"
  BY DEF Outcome, Gates
<1> QED
  BY <1>1, NoMetricsAssumption DEF PredictiveGate, CalibrationGate, RiskGate, PassIf

(* Induction over the promotions, as a first one that goes wrong. *)
LEMMA LeastNumber ==
  ASSUME NEW Bad \in SUBSET Nat, Bad # {}
  PROVE  \E n \in Bad : \A k \in Bad : n <= k
<1> DEFINE Less == {p \in Nat \X Nat : p[1] < p[2]}
<1>1. IsWellFoundedOn(Less, Nat)
  BY NatLessThanWellFounded DEF OpToRel
<1> HIDE DEF Less
<1>2. \E n \in Bad : \A k \in Bad : <<k, n>> \notin Less
  BY <1>1, WFMin
<1>3. \A k \in Nat, n \in Nat : k < n => <<k, n>> \in Less
  BY DEF Less
<1>4. \A n \in Bad : n \in Nat
  OBVIOUS
<1>5. PICK n \in Bad : \A k \in Bad : <<k, n>> \notin Less
  BY <1>2
<1>6. ASSUME NEW k \in Bad PROVE n <= k
  <2>1. ~(k < n)
    BY <1>3, <1>4, <1>5
  <2> QED
    BY <1>4, <2>1
<1> QED
  BY <1>6

(* A tolerance granted k times. *)
LEMMA Ratchet ==
  ASSUME NEW a \in Int, NEW b \in Int, NEW c \in Int, NEW k \in Nat, NEW t \in {100, 200},
         b <= c + (k - 1) * t, a <= b + t
  PROVE  a <= c + k * t
<1>1. CASE t = 100
  BY <1>1
<1>2. CASE t = 200
  BY <1>2
<1> QED
  BY <1>1, <1>2

(* Strictly better than the first champion, and worse by k tolerances at most. *)
Within(row, first, k) ==
  /\ row.ic > first.ic
  /\ row.brier <= first.brier + k * BrierTolerance
  /\ row.drawdown <= first.drawdown + k * DrawdownTolerance

LEMMA PromotedRow ==
  ASSUME NEW new \in MetricRows, NEW old \in MetricRows, Outcome(new, old) = "PROMOTE"
  PROVE  /\ new.ic > old.ic
         /\ new.brier <= old.brier + BrierTolerance
         /\ new.drawdown <= old.drawdown + DrawdownTolerance
<1>1. new.ic \in Int /\ old.ic \in Int
  BY DEF MetricRows
<1> QED
  BY <1>1, PromotionCompares, MarginAssumption

LEMMA FirstLink ==
  ASSUME NEW new \in MetricRows, NEW first \in MetricRows, Outcome(new, first) = "PROMOTE"
  PROVE  Within(new, first, 1)
BY PromotedRow DEF Within, MetricRows, BrierTolerance, DrawdownTolerance

LEMMA NextLink ==
  ASSUME NEW new \in MetricRows, NEW old \in MetricRows, NEW first \in MetricRows, NEW k \in Nat,
         Outcome(new, old) = "PROMOTE", Within(old, first, k - 1)
  PROVE  Within(new, first, k)
<1>1. /\ new.ic \in Int /\ new.brier \in Int /\ new.drawdown \in Int
      /\ old.ic \in Int /\ old.brier \in Int /\ old.drawdown \in Int
      /\ first.ic \in Int /\ first.brier \in Int /\ first.drawdown \in Int
  BY DEF MetricRows
<1>2. /\ old.ic > first.ic
      /\ old.brier <= first.brier + (k - 1) * 100
      /\ old.drawdown <= first.drawdown + (k - 1) * 200
  BY DEF Within, BrierTolerance, DrawdownTolerance
<1>3. new.ic > old.ic /\ new.brier <= old.brier + 100 /\ new.drawdown <= old.drawdown + 200
  BY PromotedRow DEF BrierTolerance, DrawdownTolerance
<1>4. new.ic > first.ic
  BY <1>1, <1>2, <1>3
<1>5. new.brier <= first.brier + k * 100
  BY <1>1, <1>2, <1>3, Ratchet
<1>6. new.drawdown <= first.drawdown + k * 200
  BY <1>1, <1>2, <1>3, Ratchet
<1> QED
  BY <1>4, <1>5, <1>6 DEF Within, BrierTolerance, DrawdownTolerance

(* A chain of promotions of any length, each over the champion before it:  *)
(* the information coefficient only grows, so no model becomes champion    *)
(* again this way, while Brier score and drawdown may worsen by the        *)
(* tolerance of the gate with every promotion and by no more.              *)
THEOREM PromotionsNeverCycle ==
  ASSUME NEW n \in Nat, NEW champion \in [0 .. n -> MetricRows],
         \A k \in 1 .. n : Outcome(champion[k], champion[k - 1]) = "PROMOTE"
  PROVE  \A k \in 1 .. n : /\ champion[k].ic > champion[0].ic
                           /\ champion[k] # champion[0]
                           /\ champion[k].brier <= champion[0].brier + k * BrierTolerance
                           /\ champion[k].drawdown <= champion[0].drawdown + k * DrawdownTolerance
<1> DEFINE first == champion[0]
           Fine(k) == Within(champion[k], first, k)
           Bad == {k \in 1 .. n : ~Fine(k)}
<1>1. ASSUME Bad # {} PROVE FALSE
  <2>1. PICK k \in Bad : \A j \in Bad : k <= j
    <3> HIDE DEF Bad
    <3>1. Bad \in SUBSET Nat
      BY DEF Bad
    <3> QED
      BY <1>1, <3>1, LeastNumber
  <2>2. k \in 1 .. n /\ k \in Nat /\ ~Fine(k)
    OBVIOUS
  <2>3. champion[k] \in MetricRows /\ champion[k - 1] \in MetricRows /\ first \in MetricRows
    BY <2>2
  <2>4. Outcome(champion[k], champion[k - 1]) = "PROMOTE"
    BY <2>2
  <2>5. CASE k = 1
    <3>1. champion[k - 1] = first
      BY <2>5
    <3> HIDE DEF first
    <3> QED
      BY <2>2, <2>3, <2>4, <2>5, <3>1, FirstLink
  <2>6. CASE k # 1
    <3>1. k - 1 \in 1 .. n /\ k - 1 \notin Bad
      BY <2>1, <2>2, <2>6
    <3>2. Within(champion[k - 1], first, k - 1)
      BY <3>1
    <3> DEFINE old == champion[k - 1]
               new == champion[k]
    <3>3. old \in MetricRows /\ new \in MetricRows /\ first \in MetricRows
      BY <2>3
    <3>4. Outcome(new, old) = "PROMOTE" /\ Within(old, first, k - 1)
      BY <2>4, <3>2
    <3>5. ~Within(new, first, k)
      BY <2>2
    <3> HIDE DEF old, new, first
    <3> QED
      BY <2>2, <3>3, <3>4, <3>5, NextLink
  <2> QED
    BY <2>5, <2>6
<1>2. \A k \in 1 .. n : Fine(k)
  BY <1>1
<1>3. first.ic \in Int
  BY DEF MetricRows
<1> QED
  BY <1>2, <1>3 DEF Within
=============================================================================
