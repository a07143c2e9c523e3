------------------------ MODULE SignalPipelineProofs -----------------------
(***************************************************************************)
(* The order of the blocks, for every universe, configuration and input:   *)
(* types, the finality of a news veto, the soundness of a live-price       *)
(* override, the last word of the stock damper, what becomes of a signal   *)
(* that its sector silenced, and how many signals each side may have.      *)
(***************************************************************************)
EXTENDS SignalPipeline, FiniteSetTheorems, TLAPS

(* Where in the cycle each flag can be present. *)
FlagStages ==
  \A s \in Symbols :
    /\ "ltp" \in sig[s].flags => stage \in {"damp", "emit"}
    /\ "stock" \in sig[s].flags => stage = "emit"
    /\ "news_veto" \in sig[s].flags => stage \in {"rank", "ltp", "damp", "emit"}
    /\ "news_pull" \in sig[s].flags => stage \in {"rank", "ltp", "damp", "emit"}
    /\ "reversal" \in sig[s].flags => stage \in {"news", "rank", "ltp", "damp", "emit"}
    /\ "sector_boost" \in sig[s].flags =>
         stage \in {"reversal", "news", "rank", "ltp", "damp", "emit"}

(* A boosted signal runs with its own stock until a reversal or the news   *)
(* takes it away.                                                          *)
BoostRunsWithStock ==
  \A s \in listed :
    "sector_boost" \in sig[s].flags =>
      \/ sig[s].dir * OwnMove(s) > 5
      \/ "reversal" \in sig[s].flags
      \/ "news_veto" \in sig[s].flags

PipeInv ==
  /\ TypeOK
  /\ FlagStages
  /\ VetoIsFinal
  /\ OverrideFollowsMove
  /\ BoostRunsWithStock
  /\ FightsOnlyOnPurpose

LEMMA RankDirType == ASSUME NEW s, NEW top, NEW bottom
                     PROVE  RankDir(s, top, bottom) \in {-1, 0, 1}
  BY DEF RankDir

LEMMA OwnMoveType == ASSUME TypeOK, NEW s \in Symbols
                     PROVE  /\ OwnMove(s) \in Int
                            /\ HasQuote(s) => quote[s] \in Int /\ OwnMove(s) = quote[s]
<1>1. quote[s] \in Moves \cup {NoQuote}
  BY DEF TypeOK
<1>2. CASE quote[s] = NoQuote
  BY <1>2 DEF OwnMove, HasQuote
<1>3. CASE quote[s] # NoQuote
  BY <1>1, <1>3, UniverseAssumption DEF OwnMove, HasQuote
<1> QED
  BY <1>2, <1>3

LEMMA ConvictionTypes == ASSUME TypeOK, NEW r \in Regimes, NEW s \in Symbols
                         PROVE  /\ Conviction(s) \in Int
                                /\ DimmedConviction(r, s) \in Int
<1>1. sig[s].score \in Int /\ Conviction(s) \in Int
  BY DEF TypeOK, Signal, Conviction, Size, Neutral
<1>2. DimFor(r, s).mult \in Int
  BY UniverseAssumption DEF DimFor
<1> QED
  BY <1>1, <1>2 DEF DimmedConviction

LEMMA InitHolds == Init => PipeInv
  BY UniverseAssumption
  DEF Init, PipeInv, TypeOK, FlagStages, VetoIsFinal, OverrideFollowsMove,
      BoostRunsWithStock, FightsOnlyOnPurpose, Unscored, Signal, Flags, Stages,
      Regimes, Neutral

-----------------------------------------------------------------------------
(* One entry after a block: its type, given the type before. *)
LEMMA WeightedEntry ==
  ASSUME TypeOK, NEW r \in Regimes, NEW t, NEW s \in Symbols
  PROVE  /\ Weighted(r, t, s) \in Signal
         /\ Weighted(r, t, s).flags = sig[s].flags
         /\ Weighted(r, t, s).dir \in {0, sig[s].dir}
<1>1. sig[s] \in Signal
  BY DEF TypeOK
<1>2. DimmedConviction(r, s) \in Int
  BY ConvictionTypes
<1>3. CASE ~PassesWeights(r, t, s)
  BY <1>1, <1>3 DEF Weighted, Signal
<1>4. CASE PassesWeights(r, t, s)
  <2> DEFINE d == IF WithinCap(r, t, s) THEN sig[s].dir ELSE 0
             v == IF ~Dimmed(r, s) THEN sig[s].score
                  ELSE IF sig[s].dir = -1 THEN Neutral - DimmedConviction(r, s)
                       ELSE Neutral + DimmedConviction(r, s)
  <2>1. Weighted(r, t, s) = [sig[s] EXCEPT !.dir = d, !.score = v]
    BY <1>1, <1>4 DEF Weighted, Signal
  <2>2. d \in {0, sig[s].dir} /\ v \in Int
    BY <1>1, <1>2 DEF Signal, Neutral
  <2> HIDE DEF d, v
  <2> QED
    BY <1>1, <2>1, <2>2 DEF Signal
<1> QED
  BY <1>3, <1>4

BoostedTo(y, x, d) == y = [x EXCEPT !.dir = d, !.flags = @ \cup {"sector_boost"}]

LEMMA BoostedFields ==
  ASSUME NEW x \in Signal, NEW d \in {-1, 0, 1}, NEW y, BoostedTo(y, x, d)
  PROVE  y \in Signal /\ y.dir = d /\ y.flags = x.flags \cup {"sector_boost"}
<1>1. x.flags \cup {"sector_boost"} \in SUBSET Flags
  BY DEF Signal, Flags
<1>2. y.dir = d /\ y.flags = x.flags \cup {"sector_boost"}
  BY DEF Signal, BoostedTo
<1>3. y \in Signal
  BY <1>1 DEF Signal, BoostedTo
<1> QED
  BY <1>2, <1>3

LEMMA SectorEntry ==
  ASSUME TypeOK, NEW s \in Symbols
  PROVE  /\ Boosted(s, Silenced(s)) \in Signal
         /\ Boosted(s, Silenced(s)).flags \subseteq
              sig[s].flags \cup {"sector_up", "sector_dn", "sector_boost"}
         /\ "sector_boost" \in Boosted(s, Silenced(s)).flags =>
              \/ "sector_boost" \in sig[s].flags
              \/ Boosted(s, Silenced(s)).dir * OwnMove(s) > 5
<1>1. sig[s] \in Signal
  BY DEF TypeOK
<1>2. /\ Silenced(s) \in Signal
      /\ Silenced(s).flags \subseteq sig[s].flags \cup {"sector_up", "sector_dn"}
  BY <1>1 DEF Silenced, Signal, Flags
<1>3. OwnMove(s) \in Int
  BY OwnMoveType
<1> DEFINE e == Silenced(s)
           sign == IF SectorBeyond(s, -1, 12) THEN -1 ELSE 1
<1> HIDE DEF e
<1>4. CASE e.dir = 0 /\ SectorBeyond(s, sign, 12) /\ sign * OwnMove(s) > 5
  <2>1. Boosted(s, e) = [e EXCEPT !.dir = sign, !.flags = @ \cup {"sector_boost"}]
    BY <1>4 DEF Boosted
  <2>2. sign \in {-1, 1}
    OBVIOUS
  <2>3. e \in Signal /\ e.flags \subseteq sig[s].flags \cup {"sector_up", "sector_dn"}
    BY <1>2 DEF e
  <2> HIDE DEF sign
  <2>4. /\ Boosted(s, e).dir = sign
        /\ Boosted(s, e).flags = e.flags \cup {"sector_boost"}
        /\ Boosted(s, e) \in Signal
    <3>1. BoostedTo(Boosted(s, e), e, sign) /\ sign \in {-1, 0, 1}
      BY <2>1, <2>2 DEF BoostedTo
    <3> QED
      BY <2>3, <3>1, BoostedFields
  <2>5. Boosted(s, e).dir * OwnMove(s) > 5
    BY <1>4, <2>4
  <2> QED
    BY <2>3, <2>4, <2>5 DEF e
<1>5. CASE ~(e.dir = 0 /\ SectorBeyond(s, sign, 12) /\ sign * OwnMove(s) > 5)
  <2>1. Boosted(s, e) = e
    BY <1>5 DEF Boosted
  <2> QED
    BY <1>2, <2>1 DEF e
<1> QED
  BY <1>4, <1>5

LEMMA DampedEntry ==
  ASSUME TypeOK, NEW s \in Symbols, NEW bear \in BOOLEAN, NEW news, sig[s].dir # 0
  PROVE  LET d == Damped(s, bear, news)
         IN  /\ d \in Signal
             /\ d.flags \subseteq sig[s].flags \cup {"news_veto", "news_pull"}
             /\ sig[s].flags \subseteq d.flags
             /\ d.dir \in {0, sig[s].dir}
             /\ d.dir = 0 => "news_veto" \in d.flags
             /\ "news_veto" \in d.flags => d.dir = 0 \/ "news_veto" \in sig[s].flags
<1>1. sig[s] \in Signal
  BY DEF TypeOK
<1>2. sig[s].score + (3 * (Neutral - sig[s].score)) \div 10 \in Int
  BY <1>1 DEF Signal, Neutral
<1> QED
  BY <1>1, <1>2 DEF Damped, Signal, Flags

-----------------------------------------------------------------------------
(* Blocks before the news carry no news, live-price or stock flag, so what *)
(* they do to directions cannot undo a later block.                        *)
LEMMA EarlyBlocks ==
  ASSUME PipeInv,
         FetchQuotes \/ ScoreUniverse \/ DropDead \/ EmitAndSleep
  PROVE  PipeInv'
<1> USE DEF PipeInv
<1>1. CASE FetchQuotes
  <2>1. stage = "fetch" /\ stage' = "score" /\ UNCHANGED <<listed, sig, threshold, regime>>
        /\ quote' \in [Symbols -> Moves \cup {NoQuote}]
    BY <1>1 DEF FetchQuotes, Step
  <2>2. TypeOK'
    BY <2>1 DEF TypeOK, Stages
  <2>3. FlagStages' /\ \A s \in Symbols : sig[s].flags \cap {"ltp", "sector_boost"} = {}
    BY <2>1 DEF FlagStages
  <2> QED
    BY <2>1, <2>2, <2>3 DEF TypeOK, VetoIsFinal, OverrideFollowsMove, BoostRunsWithStock,
                            FightsOnlyOnPurpose
<1>2. CASE ScoreUniverse
  <2>1. stage' = "dead" /\ UNCHANGED <<quote, threshold, regime>>
    BY <1>2 DEF ScoreUniverse, Step
  <2>2. PICK L \in SUBSET Symbols \ {{}} :
          \E score \in [L -> ScoreValues], split \in SUBSET L :
            /\ listed' = L
            /\ sig' = [s \in Symbols |->
                 IF s \notin L THEN Unscored
                 ELSE [score |-> score[s],
                       dir   |-> RankDir(s, Top(L, score), Bottom(L, score)),
                       flags |-> (IF HasQuote(s) THEN {"live"} ELSE {})
                                 \cup (IF s \in split THEN {"disagree"} ELSE {})]]
    BY <1>2 DEF ScoreUniverse
  <2>3. \A s \in Symbols : sig'[s] \in Signal /\ sig'[s].flags \subseteq {"live", "disagree"}
    <3>1. Unscored \in Signal /\ Unscored.flags = {}
      BY DEF Unscored, Signal, Neutral
    <3>2. PICK score \in [L -> ScoreValues], split \in SUBSET L :
            sig' = [s \in Symbols |->
                 IF s \notin L THEN Unscored
                 ELSE [score |-> score[s],
                       dir   |-> RankDir(s, Top(L, score), Bottom(L, score)),
                       flags |-> (IF HasQuote(s) THEN {"live"} ELSE {})
                                 \cup (IF s \in split THEN {"disagree"} ELSE {})]]
      BY <2>2
    <3> QED
      BY <3>1, <3>2, RankDirType, UniverseAssumption DEF Signal, Flags
  <2>4. TypeOK'
    BY <2>1, <2>2, <2>3 DEF TypeOK, Stages
  <2>5. FlagStages'
    BY <2>3 DEF FlagStages
  <2> QED
    BY <2>1, <2>3, <2>4, <2>5 DEF TypeOK, VetoIsFinal, OverrideFollowsMove,
                                  BoostRunsWithStock, FightsOnlyOnPurpose
<1>3. CASE DropDead
  <2>1. stage = "dead" /\ stage' = "weights" /\ UNCHANGED <<quote, threshold, regime>>
    BY <1>3 DEF DropDead, Step
  <2>2. PICK dead \in SUBSET Symbols :
          /\ listed' = listed \ dead
          /\ sig' = [s \in Symbols |-> IF s \in dead THEN Unscored ELSE sig[s]]
    BY <1>3 DEF DropDead
  <2>3. Unscored \in Signal /\ Unscored.flags = {}
    BY DEF Unscored, Signal, Neutral
  <2>4. \A s \in Symbols : sig'[s] \in Signal /\ sig'[s].flags \subseteq sig[s].flags
    BY <2>2, <2>3 DEF TypeOK
  <2>5. \A s \in listed' : sig'[s] = sig[s]
    BY <2>2 DEF TypeOK
  <2>6. TypeOK'
    BY <2>1, <2>2, <2>4 DEF TypeOK, Stages
  <2>7. \A s \in Symbols :
          sig[s].flags \cap {"ltp", "stock", "news_veto", "news_pull", "reversal", "sector_boost"} = {}
    BY <2>1 DEF FlagStages
  <2>8. FlagStages'
    BY <2>4, <2>7 DEF FlagStages
  <2> QED
    BY <2>1, <2>4, <2>6, <2>7, <2>8 DEF TypeOK, VetoIsFinal, OverrideFollowsMove,
                                  BoostRunsWithStock, FightsOnlyOnPurpose
<1>4. CASE EmitAndSleep
  <2>1. /\ stage' = "fetch" /\ listed' = {} /\ UNCHANGED <<threshold, regime>>
        /\ quote' = [s \in Symbols |-> NoQuote]
        /\ sig' = [s \in Symbols |-> Unscored]
    BY <1>4 DEF EmitAndSleep, Step
  <2>2. Unscored \in Signal /\ Unscored.flags = {}
    BY DEF Unscored, Signal, Neutral
  <2>3. TypeOK' /\ FlagStages'
    BY <2>1, <2>2 DEF TypeOK, FlagStages, Stages
  <2> QED
    BY <2>1, <2>3 DEF VetoIsFinal, OverrideFollowsMove, BoostRunsWithStock, FightsOnlyOnPurpose
<1> QED
  BY <1>1, <1>2, <1>3, <1>4

LEMMA WeightsBlock == ASSUME PipeInv, ApplyWeights PROVE PipeInv'
<1> USE DEF PipeInv
<1>1. stage = "weights" /\ stage' = "sector" /\ UNCHANGED <<quote, listed>>
      /\ threshold' = SessionThreshold
  BY DEF ApplyWeights, Step
<1>2. PICK r \in Regimes :
        /\ regime' = r
        /\ sig' = [s \in Symbols |->
             IF s \in listed THEN Weighted(r, SessionThreshold, s) ELSE sig[s]]
  BY DEF ApplyWeights, Rewrite
<1>3. \A s \in Symbols : sig'[s] \in Signal /\ sig'[s].flags = sig[s].flags
  BY <1>2, WeightedEntry DEF TypeOK
<1>4. SessionThreshold \in {120, 150, 180}
  BY DEF SessionThreshold, TypeOK
<1>5. TypeOK'
  BY <1>1, <1>2, <1>3, <1>4 DEF TypeOK, Stages
<1>6. \A s \in Symbols :
        sig[s].flags \cap {"ltp", "stock", "news_veto", "news_pull", "reversal", "sector_boost"} = {}
  BY <1>1 DEF FlagStages
<1> QED
  BY <1>1, <1>3, <1>5, <1>6 DEF TypeOK, FlagStages, VetoIsFinal, OverrideFollowsMove,
                                BoostRunsWithStock, FightsOnlyOnPurpose

LEMMA SectorBlock == ASSUME PipeInv, SectorPass PROVE PipeInv'
<1> USE DEF PipeInv
<1>1. stage = "sector" /\ stage' = "reversal" /\ UNCHANGED <<quote, listed, threshold, regime>>
  BY DEF SectorPass, Step
<1>2. sig' = [s \in Symbols |-> IF s \in listed
                THEN IF InMovingSector(s) THEN Boosted(s, Silenced(s)) ELSE sig[s]
                ELSE sig[s]]
  BY DEF SectorPass, Rewrite
<1>3. \A s \in Symbols :
        sig[s].flags \cap {"ltp", "stock", "news_veto", "news_pull", "reversal", "sector_boost"} = {}
  BY <1>1 DEF FlagStages
<1>4. \A s \in Symbols :
        /\ sig'[s] \in Signal
        /\ sig'[s].flags \subseteq sig[s].flags \cup {"sector_up", "sector_dn", "sector_boost"}
        /\ "sector_boost" \in sig'[s].flags => sig'[s].dir * OwnMove(s) > 5
  BY <1>2, <1>3, SectorEntry DEF TypeOK
<1>5. \A s \in Symbols : OwnMove(s)' = OwnMove(s)
  BY <1>1 DEF OwnMove, HasQuote
<1>6. TypeOK'
  BY <1>1, <1>2, <1>4 DEF TypeOK, Stages
<1>7. FlagStages'
  BY <1>1, <1>3, <1>4 DEF FlagStages
<1>8. BoostRunsWithStock'
  BY <1>1, <1>4, <1>5 DEF BoostRunsWithStock, TypeOK
<1> QED
  BY <1>1, <1>3, <1>4, <1>6, <1>7, <1>8
     DEF TypeOK, VetoIsFinal, OverrideFollowsMove, FightsOnlyOnPurpose

LEMMA ReversalBlock == ASSUME PipeInv, MergeReversals PROVE PipeInv'
<1> USE DEF PipeInv
<1>1. stage = "reversal" /\ stage' = "news" /\ UNCHANGED <<quote, listed, threshold, regime>>
  BY DEF MergeReversals, Step
<1>2. PICK strong \in [listed -> {-1, 0, 1}] :
        sig' = [s \in Symbols |-> IF s \in listed
          THEN IF sig[s].dir * strong[s] = -1
               THEN [sig[s] EXCEPT !.dir = strong[s], !.flags = @ \cup {"reversal"}]
               ELSE sig[s]
          ELSE sig[s]]
  BY DEF MergeReversals, Rewrite
<1>3. \A s \in Symbols :
        sig[s].flags \cap {"ltp", "stock", "news_veto", "news_pull", "reversal"} = {}
  BY <1>1 DEF FlagStages
<1>4. \A s \in Symbols :
        /\ sig'[s] \in Signal
        /\ sig'[s].flags \subseteq sig[s].flags \cup {"reversal"}
        /\ sig'[s] = sig[s] \/ "reversal" \in sig'[s].flags
  <2> TAKE s \in Symbols
  <2>1. sig[s] \in Signal /\ "reversal" \in Flags
    BY DEF TypeOK, Flags
  <2>2. CASE s \in listed /\ sig[s].dir * strong[s] = -1
    <3>1. sig'[s] = [sig[s] EXCEPT !.dir = strong[s], !.flags = @ \cup {"reversal"}]
      BY <1>2, <2>2
    <3>2. strong[s] \in {-1, 0, 1}
      BY <2>2
    <3> QED
      BY <2>1, <3>1, <3>2 DEF Signal
  <2>3. CASE ~(s \in listed /\ sig[s].dir * strong[s] = -1)
    BY <1>2, <2>1, <2>3
  <2> QED
    BY <2>2, <2>3
<1>5. \A s \in Symbols : OwnMove(s)' = OwnMove(s)
  BY <1>1 DEF OwnMove, HasQuote
<1>6. TypeOK'
  BY <1>1, <1>2, <1>4 DEF TypeOK, Stages
<1>7. FlagStages'
  BY <1>1, <1>3, <1>4 DEF FlagStages
<1>8. BoostRunsWithStock'
  BY <1>1, <1>4, <1>5 DEF BoostRunsWithStock, TypeOK
<1> QED
  BY <1>1, <1>3, <1>4, <1>6, <1>7, <1>8
     DEF TypeOK, VetoIsFinal, OverrideFollowsMove, FightsOnlyOnPurpose

LEMMA NewsBlock == ASSUME PipeInv, DampNews PROVE PipeInv'
<1> USE DEF PipeInv
<1>1. stage = "news" /\ stage' = "rank" /\ UNCHANGED <<quote, listed, threshold, regime>>
  BY DEF DampNews, Step
<1>2. PICK news \in [{s \in listed : sig[s].dir # 0} -> NewsKinds], bear \in BOOLEAN :
        sig' = [s \in Symbols |-> IF s \in listed
          THEN IF sig[s].dir = 0 THEN sig[s] ELSE Damped(s, bear, news[s])
          ELSE sig[s]]
  BY DEF DampNews, Rewrite
<1>3. \A s \in Symbols :
        sig[s].flags \cap {"ltp", "stock", "news_veto", "news_pull"} = {}
  BY <1>1 DEF FlagStages
<1>4. \A s \in Symbols :
        /\ sig'[s] \in Signal
        /\ sig'[s].flags \subseteq sig[s].flags \cup {"news_veto", "news_pull"}
        /\ sig[s].flags \subseteq sig'[s].flags
        /\ "news_veto" \in sig'[s].flags => sig'[s].dir = 0
        /\ "news_veto" \in sig'[s].flags \/ sig'[s].dir = sig[s].dir
  <2> TAKE s \in Symbols
  <2>1. CASE s \in listed /\ sig[s].dir # 0
    <3>1. sig'[s] = Damped(s, bear, news[s])
      BY <1>2, <2>1
    <3> QED
      BY <1>3, <2>1, <3>1, DampedEntry
  <2>2. CASE ~(s \in listed /\ sig[s].dir # 0)
    <3>1. sig'[s] = sig[s]
      BY <1>2, <2>2
    <3> QED
      BY <1>3, <3>1 DEF TypeOK
  <2> QED
    BY <2>1, <2>2
<1>5. \A s \in Symbols : OwnMove(s)' = OwnMove(s)
  BY <1>1 DEF OwnMove, HasQuote
<1>6. TypeOK'
  BY <1>1, <1>2, <1>4 DEF TypeOK, Stages
<1>7. FlagStages'
  BY <1>1, <1>3, <1>4 DEF FlagStages
<1>8. BoostRunsWithStock'
  BY <1>1, <1>4, <1>5 DEF BoostRunsWithStock, TypeOK
<1> QED
  BY <1>1, <1>3, <1>4, <1>6, <1>7, <1>8
     DEF TypeOK, VetoIsFinal, OverrideFollowsMove, FightsOnlyOnPurpose

LEMMA RankBlock == ASSUME PipeInv, FinalRank PROVE PipeInv'
<1> USE DEF PipeInv
<1>1. stage = "rank" /\ stage' = "ltp" /\ UNCHANGED <<quote, listed, threshold, regime>>
  BY DEF FinalRank, Step
<1>2. sig' = [s \in Symbols |-> IF s \in listed
          THEN IF sig[s].flags \cap Explicit # {} THEN sig[s]
               ELSE [sig[s] EXCEPT !.dir = RankDir(s, FinalTop, FinalBottom)]
          ELSE sig[s]]
  BY DEF FinalRank, Rewrite
<1>3. \A s \in Symbols : sig[s].flags \cap {"ltp", "stock"} = {}
  BY <1>1 DEF FlagStages
<1>4. \A s \in Symbols :
        /\ sig'[s] \in Signal
        /\ sig'[s].flags = sig[s].flags
        /\ sig'[s] = sig[s] \/ sig[s].flags \cap {"news_veto", "sector_boost"} = {}
  BY <1>2, RankDirType DEF TypeOK, Signal, Explicit
<1>5. \A s \in Symbols : OwnMove(s)' = OwnMove(s)
  BY <1>1 DEF OwnMove, HasQuote
<1>6. TypeOK'
  BY <1>1, <1>2, <1>4 DEF TypeOK, Stages
<1>7. FlagStages'
  BY <1>1, <1>3, <1>4 DEF FlagStages
<1>8. BoostRunsWithStock'
  BY <1>1, <1>4, <1>5 DEF BoostRunsWithStock, TypeOK
<1> QED
  BY <1>1, <1>3, <1>4, <1>6, <1>7, <1>8
     DEF TypeOK, VetoIsFinal, OverrideFollowsMove, FightsOnlyOnPurpose

(* The mean is over scores and list, which the last two blocks keep. *)
LEMMA MeanIsStable ==
  ASSUME TypeOK, UNCHANGED listed,
         \A s \in Symbols : sig'[s].score = sig[s].score
  PROVE  \A s \in Symbols : AboveMean(s)' <=> AboveMean(s)
<1>1. ShortKey' = ShortKey
  BY DEF ShortKey
<1> QED
  BY <1>1 DEF AboveMean

LEMMA OverrideBlock == ASSUME PipeInv, LtpOverride PROVE PipeInv'
<1> USE DEF PipeInv
<1>1. stage = "ltp" /\ stage' = "damp" /\ UNCHANGED <<quote, listed, threshold, regime>>
  BY DEF LtpOverride, Step
<1>2. sig' = [s \in Symbols |-> IF s \in listed
          THEN IF Overridden(s)
               THEN [sig[s] EXCEPT !.dir = IF quote[s] > 0 THEN 1 ELSE -1,
                                   !.flags = @ \cup {"ltp"}]
               ELSE sig[s]
          ELSE sig[s]]
  BY DEF LtpOverride, Rewrite
<1>3. \A s \in Symbols : sig[s].flags \cap {"ltp", "stock"} = {}
  BY <1>1 DEF FlagStages
<1>4. \A s \in Symbols :
        /\ sig'[s] \in Signal
        /\ sig'[s].flags \subseteq sig[s].flags \cup {"ltp"}
        /\ sig[s].flags \subseteq sig'[s].flags
        /\ sig'[s].score = sig[s].score
        /\ \/ sig'[s] = sig[s]
           \/ /\ s \in listed /\ Overridden(s)
              /\ sig'[s].dir = IF quote[s] > 0 THEN 1 ELSE -1
  <2> TAKE s \in Symbols
  <2>1. sig[s] \in Signal /\ "ltp" \in Flags
    BY DEF TypeOK, Flags
  <2>2. CASE s \in listed /\ Overridden(s)
    <3> DEFINE d == IF quote[s] > 0 THEN 1 ELSE -1
    <3>1. sig'[s] = [sig[s] EXCEPT !.dir = d, !.flags = @ \cup {"ltp"}]
      BY <1>2, <2>2
    <3>2. d \in {-1, 0, 1}
      OBVIOUS
    <3> HIDE DEF d
    <3>3. /\ sig'[s] \in Signal /\ sig'[s].dir = d /\ sig'[s].score = sig[s].score
          /\ sig'[s].flags = sig[s].flags \cup {"ltp"}
      BY <2>1, <3>1, <3>2 DEF Signal
    <3> QED
      BY <2>2, <3>3 DEF d
  <2>3. CASE ~(s \in listed /\ Overridden(s))
    BY <1>2, <2>1, <2>3
  <2> QED
    BY <2>2, <2>3
<1>5. \A s \in Symbols : OwnMove(s)' = OwnMove(s) /\ (HasQuote(s)' <=> HasQuote(s))
  BY <1>1 DEF OwnMove, HasQuote
<1>6. TypeOK'
  BY <1>1, <1>2, <1>4 DEF TypeOK, Stages
<1>7. FlagStages'
  BY <1>1, <1>3, <1>4 DEF FlagStages
<1>8. VetoIsFinal'
  BY <1>1, <1>4 DEF VetoIsFinal, TypeOK, Overridden, Movable
<1>9. OverrideFollowsMove'
  <2> SUFFICES ASSUME NEW s \in listed', "ltp" \in sig'[s].flags
               PROVE  /\ HasQuote(s)'
                      /\ sig'[s].dir * quote'[s] >= 15
                      /\ sig'[s].flags \cap {"news_veto", "stock"} = {}
                      /\ quote'[s] > 0 <=> AboveMean(s)'
    BY DEF OverrideFollowsMove
  <2>1. s \in Symbols /\ s \in listed /\ Overridden(s)
    BY <1>1, <1>3, <1>4 DEF TypeOK
  <2>2. quote[s] \in Int
    BY <2>1, OwnMoveType DEF Overridden, Movable
  <2>3. sig'[s].dir = IF quote[s] > 0 THEN 1 ELSE -1
    BY <1>3, <1>4, <2>1
  <2>4. sig'[s].dir * quote'[s] >= 15
    BY <1>1, <2>1, <2>2, <2>3 DEF Overridden, Movable, Size
  <2>5. sig'[s].flags \cap {"news_veto", "stock"} = {}
    BY <1>4, <2>1 DEF Overridden, Movable
  <2>6. quote'[s] > 0 <=> AboveMean(s)'
    BY <1>1, <1>4, <2>1, MeanIsStable DEF Overridden
  <2> QED
    BY <1>5, <2>1, <2>4, <2>5, <2>6 DEF Overridden, Movable
<1>10. BoostRunsWithStock'
  <2> SUFFICES ASSUME NEW s \in listed', "sector_boost" \in sig'[s].flags
               PROVE  \/ sig'[s].dir * OwnMove(s)' > 5
                      \/ "reversal" \in sig'[s].flags
                      \/ "news_veto" \in sig'[s].flags
    BY DEF BoostRunsWithStock
  <2>1. s \in Symbols /\ s \in listed /\ "sector_boost" \in sig[s].flags
    BY <1>1, <1>4 DEF TypeOK
  <2>2. CASE sig'[s] = sig[s]
    BY <1>5, <2>1, <2>2 DEF BoostRunsWithStock
  <2>3. CASE Overridden(s)
    <3>1. sig[s].dir = 0
      BY <2>3 DEF Overridden, Movable
    <3>2. ~(sig[s].dir * OwnMove(s) > 5)
      BY <2>1, <3>1, OwnMoveType
    <3> QED
      BY <1>4, <2>1, <3>2 DEF BoostRunsWithStock
  <2> QED
    BY <1>4, <2>1, <2>2, <2>3
<1> QED
  BY <1>1, <1>6, <1>7, <1>8, <1>9, <1>10 DEF FightsOnlyOnPurpose

LEMMA DamperBlock == ASSUME PipeInv, StockDamper PROVE PipeInv'
<1> USE DEF PipeInv
<1> DEFINE Silent(s) == Fights(s) /\ sig[s].flags \cap {"news_veto", "news_pull", "sector_boost"} = {}
<1>1. stage = "damp" /\ stage' = "emit" /\ UNCHANGED <<quote, listed, threshold, regime>>
  BY DEF StockDamper, Step
<1>2. sig' = [s \in Symbols |-> IF s \in listed
          THEN IF Silent(s)
               THEN [sig[s] EXCEPT !.dir = 0, !.flags = @ \cup {"stock"}]
               ELSE sig[s]
          ELSE sig[s]]
  BY DEF StockDamper, Rewrite
<1> HIDE DEF Silent
<1>4. \A s \in listed : Silent(s) =>
        /\ sig'[s] \in Signal /\ sig'[s].score = sig[s].score
        /\ sig'[s].dir = 0 /\ sig'[s].flags = sig[s].flags \cup {"stock"}
  <2> SUFFICES ASSUME NEW s \in listed, Silent(s)
               PROVE  /\ sig'[s] \in Signal /\ sig'[s].score = sig[s].score
                      /\ sig'[s].dir = 0 /\ sig'[s].flags = sig[s].flags \cup {"stock"}
    OBVIOUS
  <2>1. s \in Symbols /\ sig[s] \in Signal /\ "stock" \in Flags
    BY DEF TypeOK, Flags
  <2>2. sig'[s] = [sig[s] EXCEPT !.dir = 0, !.flags = @ \cup {"stock"}]
    BY <1>2, <2>1
  <2> QED
    BY <2>1, <2>2 DEF Signal
<1>5. \A s \in Symbols : ~(s \in listed /\ Silent(s)) => sig'[s] = sig[s]
  BY <1>2 DEF TypeOK
<1>3. \A s \in Symbols : sig'[s] \in Signal /\ sig'[s].score = sig[s].score
  BY <1>4, <1>5 DEF TypeOK
<1>6. \A s \in Symbols : OwnMove(s)' = OwnMove(s) /\ (HasQuote(s)' <=> HasQuote(s))
  BY <1>1 DEF OwnMove, HasQuote
<1>7. \A s \in Symbols : OwnMove(s) \in Int /\ sig[s].dir \in Int
  BY OwnMoveType DEF TypeOK, Signal
<1>8. TypeOK'
  BY <1>1, <1>2, <1>3 DEF TypeOK, Stages
<1>9. FlagStages'
  BY <1>1, <1>4, <1>5 DEF FlagStages, TypeOK
<1>10. VetoIsFinal'
  BY <1>1, <1>4, <1>5 DEF VetoIsFinal, TypeOK
<1>11. OverrideFollowsMove'
  <2> SUFFICES ASSUME NEW s \in listed', "ltp" \in sig'[s].flags
               PROVE  /\ HasQuote(s)'
                      /\ sig'[s].dir * quote'[s] >= 15
                      /\ sig'[s].flags \cap {"news_veto", "stock"} = {}
                      /\ quote'[s] > 0 <=> AboveMean(s)'
    BY DEF OverrideFollowsMove
  <2>1. s \in Symbols /\ s \in listed /\ "ltp" \in sig[s].flags
    BY <1>1, <1>4, <1>5 DEF TypeOK
  <2>2. HasQuote(s) /\ sig[s].dir * quote[s] >= 15
    BY <2>1 DEF OverrideFollowsMove
  <2>3. ~Fights(s)
    BY <1>7, <2>1, <2>2, OwnMoveType DEF Fights
  <2>4. sig'[s] = sig[s]
    BY <1>5, <2>1, <2>3 DEF Silent
  <2> QED
    BY <1>1, <1>3, <1>6, <2>1, <2>4, MeanIsStable DEF OverrideFollowsMove
<1>12. BoostRunsWithStock'
  BY <1>1, <1>4, <1>5, <1>6 DEF BoostRunsWithStock, TypeOK, Silent
<1>13. FightsOnlyOnPurpose'
  <2> SUFFICES ASSUME NEW s \in listed', Fights(s)'
               PROVE  \/ "news_pull" \in sig'[s].flags
                      \/ {"sector_boost", "reversal"} \subseteq sig'[s].flags
    BY DEF FightsOnlyOnPurpose
  <2>1. s \in Symbols /\ s \in listed
    BY <1>1 DEF TypeOK
  <2>2. ~Silent(s)
    <3> SUFFICES ASSUME Silent(s) PROVE FALSE
      OBVIOUS
    <3>1. sig'[s].dir = 0 /\ OwnMove(s)' = OwnMove(s)
      BY <1>4, <1>6, <2>1
    <3> QED
      BY <1>7, <2>1, <3>1 DEF Fights
  <2>3. sig'[s] = sig[s] /\ Fights(s)
    BY <1>5, <1>6, <2>1, <2>2 DEF Fights
  <2>4. sig[s].dir # 0 /\ ~(sig[s].dir * OwnMove(s) > 5)
    BY <1>7, <2>1, <2>3 DEF Fights
  <2>5. "news_veto" \notin sig[s].flags
    BY <2>1, <2>4 DEF VetoIsFinal
  <2>6. "news_pull" \in sig[s].flags \/ "sector_boost" \in sig[s].flags
    BY <2>2, <2>3, <2>5 DEF Silent
  <2> QED
    BY <2>1, <2>3, <2>4, <2>5, <2>6 DEF BoostRunsWithStock
<1> QED
  BY <1>8, <1>9, <1>10, <1>11, <1>12, <1>13

LEMMA StutterHolds == ASSUME PipeInv, UNCHANGED vars PROVE PipeInv'
<1> USE DEF PipeInv, vars
<1>1. TypeOK'
  BY DEF TypeOK
<1>2. FlagStages' /\ VetoIsFinal'
  BY DEF FlagStages, VetoIsFinal
<1>3. \A s : OwnMove(s)' = OwnMove(s) /\ (HasQuote(s)' <=> HasQuote(s))
  BY DEF OwnMove, HasQuote
<1>4. \A s \in Symbols : AboveMean(s)' <=> AboveMean(s)
  BY MeanIsStable
<1>5. OverrideFollowsMove'
  BY <1>3, <1>4 DEF OverrideFollowsMove, TypeOK
<1>6. BoostRunsWithStock' /\ FightsOnlyOnPurpose'
  BY <1>3 DEF BoostRunsWithStock, FightsOnlyOnPurpose, Fights
<1> QED
  BY <1>1, <1>2, <1>5, <1>6

(* The invariant that carries the four results below. *)
THEOREM PipelineInvariant == Spec => []PipeInv
<1>1. PipeInv /\ [Next]_vars => PipeInv'
  BY EarlyBlocks, WeightsBlock, SectorBlock, ReversalBlock, NewsBlock, RankBlock,
     OverrideBlock, DamperBlock, StutterHolds DEF Next
<1> QED
  BY InitHolds, <1>1, PTL DEF Spec

(* Every block keeps lists, entries and the session threshold well formed. *)
THEOREM PipelineTypeCorrect == Spec => []TypeOK
<1>1. PipeInv => TypeOK
  BY DEF PipeInv
<1> QED
  BY PipelineInvariant, <1>1, PTL

(* What the news damper silenced stays silent, in any universe. *)
THEOREM NewsVetoIsFinal == Spec => []VetoIsFinal
<1>1. PipeInv => VetoIsFinal
  BY DEF PipeInv
<1> QED
  BY PipelineInvariant, <1>1, PTL

(* A live-price override always goes with its move and stays. *)
THEOREM OverridesFollowMoves == Spec => []OverrideFollowsMove
<1>1. PipeInv => OverrideFollowsMove
  BY DEF PipeInv
<1> QED
  BY PipelineInvariant, <1>1, PTL

(* The stock damper has the last word but for the two exemptions. *)
THEOREM DamperHasLastWord == Spec => []FightsOnlyOnPurpose
<1>1. PipeInv => FightsOnlyOnPurpose
  BY DEF PipeInv
<1> QED
  BY PipelineInvariant, <1>1, PTL

-----------------------------------------------------------------------------
(* Sums over finite sets, as far as their type: a fold is a recursive       *)
(* function on subsets, which exists by induction on finite sets.           *)
(* The recursion inside SumFunctionOnSet: one picked element after another. *)
Pick(T) == CHOOSE x \in T : TRUE
AddTo(g, f, T) == IF T = {} THEN 0 ELSE f[Pick(T)] + g[T \ {Pick(T)}]
Sums(f, S) == CHOOSE g : g = [T \in SUBSET S |-> AddTo(g, f, T)]
AddsUp(g, f, S) == \A T \in SUBSET S : g[T] = AddTo(g, f, T)

LEMMA SumIs == ASSUME NEW f, NEW S PROVE SumFunctionOnSet(f, S) = Sums(f, S)[S]
BY DEF SumFunctionOnSet, FoldFunctionOnSet, MapThenFoldSet, Sums, AddTo, Pick

LEMMA PickIn == \A T : T # {} => Pick(T) \in T
BY DEF Pick

(* Induction over the subsets of a finite set, as a smallest counterexample. *)
LEMMA SmallestSet ==
  ASSUME NEW S, IsFiniteSet(S), NEW Bad \in SUBSET SUBSET S, Bad # {}
  PROVE  \E T \in Bad : \A U \in Bad : U \subseteq T => U = T
<1>1. Bad \subseteq FiniteSubsetsOf(S)
  BY FS_Subset DEF FiniteSubsetsOf
<1>2. \E T \in Bad : \A U \in Bad : <<U, T>> \notin StrictSubsetOrdering(S)
  BY <1>1, FS_StrictSubsetOrderingWellFounded, WFMin
<1> QED
  BY <1>1, <1>2 DEF StrictSubsetOrdering, FiniteSubsetsOf

LEMMA SetInduction ==
  ASSUME NEW S, IsFiniteSet(S), NEW Good,
         \A T \in SUBSET S : (\A U \in SUBSET T : U # T => U \in Good) => T \in Good
  PROVE  SUBSET S \subseteq Good
<1> DEFINE Bad == (SUBSET S) \ Good
<1> SUFFICES ASSUME Bad # {} PROVE FALSE
  OBVIOUS
<1>1. Bad \in SUBSET SUBSET S
  OBVIOUS
<1>2. PICK T \in Bad : \A U \in Bad : U \subseteq T => U = T
  <2> HIDE DEF Bad
  <2> QED
    BY <1>1, SmallestSet
<1>3. \A U \in SUBSET T : U # T => U \in Good
  BY <1>1, <1>2
<1> QED
  BY <1>2, <1>3

LEMMA AddsUpUnique ==
  ASSUME NEW S, IsFiniteSet(S), NEW f, NEW g, NEW h, AddsUp(g, f, S), AddsUp(h, f, S)
  PROVE  g[S] = h[S]
<1> DEFINE Good == {T \in SUBSET S : g[T] = h[T]}
<1>1. ASSUME NEW T \in SUBSET S, \A U \in SUBSET T : U # T => U \in Good
      PROVE  T \in Good
  <2>1. g[T] = AddTo(g, f, T) /\ h[T] = AddTo(h, f, T)
    BY <1>1 DEF AddsUp
  <2>2. T # {} => g[T \ {Pick(T)}] = h[T \ {Pick(T)}]
    <3> SUFFICES ASSUME T # {} PROVE T \ {Pick(T)} \in Good
      OBVIOUS
    <3>1. T \ {Pick(T)} \subseteq T /\ T \ {Pick(T)} # T
      BY PickIn
    <3> QED
      BY <1>1, <3>1
  <2>3. AddTo(g, f, T) = AddTo(h, f, T)
    BY <2>2 DEF AddTo
  <2> QED
    BY <1>1, <2>1, <2>3
<1> HIDE DEF Good
<1>2. SUBSET S \subseteq Good
  BY <1>1, SetInduction
<1> QED
  BY <1>2 DEF Good

LEMMA AddsUpExists ==
  ASSUME NEW S, IsFiniteSet(S), NEW f
  PROVE  \E g : g = [T \in SUBSET S |-> AddTo(g, f, T)]
<1> DEFINE Good == {T \in SUBSET S : \E g : AddsUp(g, f, T)}
           For(T) == CHOOSE g : AddsUp(g, f, T)
           Less(T) == T \ {Pick(T)}
           Whole(T) == [U \in SUBSET T |-> AddTo(For(Less(U)), f, U)]
<1>1. ASSUME NEW T \in SUBSET S, \A U \in SUBSET T : U # T => U \in Good
      PROVE  Whole(T) = [U \in SUBSET T |-> AddTo(Whole(T), f, U)]
  <2> SUFFICES ASSUME NEW U \in SUBSET T
               PROVE  AddTo(For(Less(U)), f, U) = AddTo(Whole(T), f, U)
    OBVIOUS
  <2> SUFFICES ASSUME U # {} PROVE For(Less(U))[Less(U)] = Whole(T)[Less(U)]
    BY DEF AddTo
  <2> DEFINE V == Less(U)
  <2>1. V \in SUBSET T /\ V # T
    BY PickIn
  <2>2. Whole(T)[V] = AddTo(For(Less(V)), f, V)
    BY <2>1
  <2>3. AddsUp(For(V), f, V)
    BY <1>1, <2>1
  <2>4. For(V)[V] = AddTo(For(V), f, V)
    BY <2>3 DEF AddsUp
  <2>5. ASSUME V # {} PROVE For(V)[Less(V)] = For(Less(V))[Less(V)]
    <3>1. Less(V) \in SUBSET T /\ Less(V) # T /\ Less(V) \subseteq V
      BY <2>1
    <3>2. AddsUp(For(Less(V)), f, Less(V)) /\ AddsUp(For(V), f, Less(V))
      BY <1>1, <2>3, <3>1 DEF AddsUp
    <3>3. IsFiniteSet(Less(V))
      BY <1>1, <3>1, FS_Subset
    <3> QED
      BY <3>2, <3>3, AddsUpUnique
  <2> QED
    BY <2>2, <2>4, <2>5 DEF AddTo
<1> HIDE DEF Whole
<1>2. ASSUME NEW T \in SUBSET S, \A U \in SUBSET T : U # T => U \in Good
      PROVE  T \in Good
  <2>1. \A U \in SUBSET T : Whole(T)[U] = AddTo(Whole(T), f, U)
    BY <1>1, <1>2
  <2> QED
    BY <2>1 DEF AddsUp
<1>3. SUBSET S \subseteq Good
  <2> HIDE DEF Good
  <2> QED
    BY <1>2, SetInduction
<1> QED
  BY <1>1, <1>3

LEMMA SumsAddUp ==
  ASSUME NEW S, IsFiniteSet(S), NEW f
  PROVE  AddsUp(Sums(f, S), f, S)
<1>1. Sums(f, S) = [T \in SUBSET S |-> AddTo(Sums(f, S), f, T)]
  BY AddsUpExists DEF Sums
<1> QED
  BY <1>1 DEF AddsUp


LEMMA SumInt ==
  ASSUME NEW S, IsFiniteSet(S), NEW f, \A x \in S : f[x] \in Int
  PROVE  SumFunctionOnSet(f, S) \in Int
<1> DEFINE sums == Sums(f, S)
           Good == {T \in SUBSET S : sums[T] \in Int}
<1>1. AddsUp(sums, f, S)
  BY SumsAddUp
<1> HIDE DEF sums
<1>2. ASSUME NEW T \in SUBSET S, \A U \in SUBSET T : U # T => U \in Good
      PROVE  T \in Good
  <2>1. T # {} => sums[T \ {Pick(T)}] \in Int /\ f[Pick(T)] \in Int
    BY <1>2, PickIn
  <2>2. sums[T] = IF T = {} THEN 0 ELSE f[Pick(T)] + sums[T \ {Pick(T)}]
    BY <1>1 DEF AddsUp, AddTo
  <2> QED
    BY <2>1, <2>2
<1>3. SUBSET S \subseteq Good
  <2> HIDE DEF Good
  <2> QED
    BY <1>2, SetInduction
<1> QED
  BY <1>3, SumIs DEF sums

-----------------------------------------------------------------------------
(* A sector cannot be beyond a bound on both sides. *)
LEMMA SectorMoveTypes ==
  ASSUME TypeOK, NEW s PROVE SectorMove(s) \in Int /\ Cardinality(Peers(s)) \in Nat
<1>1. IsFiniteSet(Peers(s))
  <2>1. Peers(s) \subseteq Symbols
    BY DEF Peers, Quoted
  <2>2. IsFiniteSet(Symbols)
    BY FS_Interval, UniverseAssumption DEF Symbols
  <2> QED
    BY <2>1, <2>2, FS_Subset
<1>2. \A q \in Peers(s) : quote[q] \in Int
  BY OwnMoveType DEF Peers, Quoted
<1> QED
  BY <1>1, <1>2, SumInt, FS_CardinalityType DEF SectorMove

LEMMA OneSectorSide ==
  ASSUME TypeOK, NEW s
  PROVE  /\ SectorBeyond(s, 1, 10) => ~SectorBeyond(s, -1, 12)
         /\ SectorBeyond(s, -1, 10) => ~SectorBeyond(s, 1, 12)
BY SectorMoveTypes DEF SectorBeyond

(* After the sector pass a silenced signal is flat or boosted with its      *)
(* sector.                                                                  *)
SilencedIn(e, flag, sign) ==
  flag \in e.flags => e.dir = 0 \/ (e.dir = sign /\ "sector_boost" \in e.flags)

LEMMA SilencedEntry ==
  ASSUME TypeOK, NEW s \in Symbols,
         sig[s].flags \cap {"sector_up", "sector_dn", "sector_boost"} = {}
  PROVE  /\ SilencedIn(Boosted(s, Silenced(s)), "sector_up", 1)
         /\ SilencedIn(Boosted(s, Silenced(s)), "sector_dn", -1)
<1> DEFINE e == Silenced(s)
           sign == IF SectorBeyond(s, -1, 12) THEN -1 ELSE 1
<1>1. sig[s] \in Signal
  BY DEF TypeOK
<1>2. /\ e \in Signal
      /\ "sector_up" \in e.flags => e.dir = 0 /\ SectorBeyond(s, 1, 10)
      /\ "sector_dn" \in e.flags => e.dir = 0 /\ SectorBeyond(s, -1, 10)
  BY <1>1 DEF Silenced, Signal, Flags
<1>3. \/ Boosted(s, e) = e
      \/ /\ Boosted(s, e) = [e EXCEPT !.dir = sign, !.flags = @ \cup {"sector_boost"}]
         /\ SectorBeyond(s, sign, 12)
  BY DEF Boosted
<1> HIDE DEF e
<1>4. CASE Boosted(s, e) = e
  BY <1>2, <1>4 DEF SilencedIn, e
<1>5. CASE /\ Boosted(s, e) = [e EXCEPT !.dir = sign, !.flags = @ \cup {"sector_boost"}]
           /\ SectorBeyond(s, sign, 12)
  <2> DEFINE d == sign
  <2>1. "sector_up" \in e.flags => sign = 1
    BY <1>2, OneSectorSide
  <2>2. "sector_dn" \in e.flags => sign = -1
    BY <1>2, <1>5, OneSectorSide
  <2> HIDE DEF sign
  <2>3. /\ Boosted(s, e).dir = sign
        /\ Boosted(s, e).flags = e.flags \cup {"sector_boost"}
    BY <1>2, <1>5 DEF Signal
  <2> QED
    BY <2>1, <2>2, <2>3 DEF SilencedIn, e
<1> QED
  BY <1>3, <1>4, <1>5 DEF e

(* The sector flags appear in the sector pass; a boost is flipped by the    *)
(* reversal setups only.                                                    *)
SectorSide ==
  /\ \A s \in Symbols :
       sig[s].flags \cap {"sector_up", "sector_dn"} # {} =>
         stage \in {"reversal", "news", "rank", "ltp", "damp", "emit"}
  /\ stage = "reversal" =>
       \A s \in listed : /\ SilencedIn(sig[s], "sector_up", 1)
                         /\ SilencedIn(sig[s], "sector_dn", -1)
  /\ SilencedReturnsWithSector

LEMMA SideInit == Init => SectorSide
BY DEF Init, SectorSide, SilencedReturnsWithSector, Unscored

(* A block that only flattens signals and adds flags keeps the sides. *)
LEMMA FlatteningKeepsSide ==
  ASSUME SilencedReturnsWithSector, listed' \subseteq listed,
         \A s \in listed' : /\ sig'[s].dir \in {0, sig[s].dir}
                            /\ sig[s].flags \subseteq sig'[s].flags
                            /\ sig'[s].flags \cap {"sector_up", "sector_dn"} \subseteq sig[s].flags
  PROVE  SilencedReturnsWithSector'
<1> SUFFICES ASSUME NEW s \in listed'
             PROVE  /\ "sector_up" \in sig'[s].flags /\ sig'[s].dir = -1 =>
                         {"sector_boost", "reversal"} \subseteq sig'[s].flags
                    /\ "sector_dn" \in sig'[s].flags /\ sig'[s].dir = 1 =>
                         {"sector_boost", "reversal"} \subseteq sig'[s].flags
  BY DEF SilencedReturnsWithSector
<1> QED
  BY DEF SilencedReturnsWithSector

LEMMA SideEarly ==
  ASSUME PipeInv, SectorSide,
         FetchQuotes \/ ScoreUniverse \/ DropDead \/ ApplyWeights \/ EmitAndSleep
  PROVE  SectorSide'
<1>1. TypeOK
  BY DEF PipeInv
<1>2. stage' \notin {"reversal", "news", "rank", "ltp", "damp", "emit"}
  BY DEF FetchQuotes, ScoreUniverse, DropDead, ApplyWeights, EmitAndSleep, Step
<1>3. \A s \in Symbols : sig'[s].flags \cap {"sector_up", "sector_dn"} = {}
  <2>1. CASE FetchQuotes
    BY <2>1 DEF FetchQuotes, Step, SectorSide
  <2>2. CASE ScoreUniverse
    BY <2>2 DEF ScoreUniverse, Unscored
  <2>3. CASE DropDead
    BY <2>3 DEF DropDead, Step, SectorSide, Unscored
  <2>4. CASE ApplyWeights
    <3>1. PICK r \in Regimes : sig' = [s \in Symbols |->
             IF s \in listed THEN Weighted(r, SessionThreshold, s) ELSE sig[s]]
      BY <2>4 DEF ApplyWeights, Rewrite
    <3> QED
      BY <1>1, <2>4, <3>1, WeightedEntry DEF ApplyWeights, Step, SectorSide
  <2>5. CASE EmitAndSleep
    BY <2>5 DEF EmitAndSleep, Unscored
  <2> QED
    BY <2>1, <2>2, <2>3, <2>4, <2>5
<1>4. listed' \subseteq Symbols
  <2>1. CASE ScoreUniverse
    BY <2>1 DEF ScoreUniverse
  <2>2. CASE FetchQuotes \/ DropDead \/ ApplyWeights \/ EmitAndSleep
    BY <1>1, <2>2 DEF FetchQuotes, DropDead, ApplyWeights, EmitAndSleep, TypeOK
  <2> QED
    BY <2>1, <2>2
<1> QED
  BY <1>2, <1>3, <1>4 DEF SectorSide, SilencedReturnsWithSector

LEMMA SideSector == ASSUME PipeInv, SectorSide, SectorPass PROVE SectorSide'
<1>1. stage = "sector" /\ stage' = "reversal" /\ listed' = listed
  BY DEF SectorPass, Step
<1>2. sig' = [s \in Symbols |-> IF s \in listed
                THEN IF InMovingSector(s) THEN Boosted(s, Silenced(s)) ELSE sig[s]
                ELSE sig[s]]
  BY DEF SectorPass, Rewrite
<1>3. \A s \in Symbols : sig[s].flags \cap {"sector_up", "sector_dn", "sector_boost"} = {}
  BY <1>1 DEF SectorSide, PipeInv, FlagStages
<1>4. \A s \in listed : /\ s \in Symbols
                        /\ SilencedIn(sig'[s], "sector_up", 1)
                        /\ SilencedIn(sig'[s], "sector_dn", -1)
  <2> TAKE s \in listed
  <2>1. s \in Symbols /\ TypeOK
    BY DEF PipeInv, TypeOK
  <2>2. CASE InMovingSector(s)
    BY <1>2, <1>3, <2>1, <2>2, SilencedEntry
  <2>3. CASE ~InMovingSector(s)
    <3>1. sig'[s] = sig[s]
      BY <1>2, <2>1, <2>3
    <3>2. "sector_up" \notin sig[s].flags /\ "sector_dn" \notin sig[s].flags
      BY <1>3, <2>1
    <3> QED
      BY <2>1, <3>1, <3>2 DEF SilencedIn
  <2> QED
    BY <2>1, <2>2, <2>3
<1> QED
  BY <1>1, <1>4 DEF SectorSide, SilencedReturnsWithSector, SilencedIn

LEMMA SideReversal == ASSUME PipeInv, SectorSide, MergeReversals PROVE SectorSide'
<1>1. stage = "reversal" /\ stage' = "news" /\ listed' = listed
  BY DEF MergeReversals, Step
<1>2. PICK strong \in [listed -> {-1, 0, 1}] :
        sig' = [s \in Symbols |-> IF s \in listed
          THEN IF sig[s].dir * strong[s] = -1
               THEN [sig[s] EXCEPT !.dir = strong[s], !.flags = @ \cup {"reversal"}]
               ELSE sig[s]
          ELSE sig[s]]
  BY DEF MergeReversals, Rewrite
<1>3. SilencedReturnsWithSector'
  <2> SUFFICES ASSUME NEW s \in listed
               PROVE  /\ "sector_up" \in sig'[s].flags /\ sig'[s].dir = -1 =>
                           {"sector_boost", "reversal"} \subseteq sig'[s].flags
                      /\ "sector_dn" \in sig'[s].flags /\ sig'[s].dir = 1 =>
                           {"sector_boost", "reversal"} \subseteq sig'[s].flags
    BY <1>1 DEF SilencedReturnsWithSector
  <2>1. /\ s \in Symbols /\ sig[s] \in Signal /\ sig[s].dir \in {-1, 0, 1}
        /\ SilencedIn(sig[s], "sector_up", 1) /\ SilencedIn(sig[s], "sector_dn", -1)
    BY <1>1 DEF PipeInv, TypeOK, Signal, SectorSide
  <2>2. CASE sig[s].dir * strong[s] = -1
    <3>1. sig'[s] = [sig[s] EXCEPT !.dir = strong[s], !.flags = @ \cup {"reversal"}]
      BY <1>2, <2>1, <2>2
    <3>2. sig'[s].dir = strong[s] /\ sig'[s].flags = sig[s].flags \cup {"reversal"}
      BY <2>1, <3>1 DEF Signal
    <3>3. sig[s].dir # 0 /\ strong[s] \in {-1, 0, 1}
      BY <2>1, <2>2
    <3> QED
      BY <2>1, <3>2, <3>3 DEF SilencedIn
  <2>3. CASE sig[s].dir * strong[s] # -1
    <3>1. sig'[s] = sig[s]
      BY <1>2, <2>1, <2>3
    <3> QED
      BY <2>1, <3>1 DEF SilencedIn
  <2> QED
    BY <2>2, <2>3
<1> QED
  BY <1>1, <1>3 DEF SectorSide

LEMMA SideNews == ASSUME PipeInv, SectorSide, DampNews PROVE SectorSide'
<1>1. stage = "news" /\ stage' = "rank" /\ listed' = listed
  BY DEF DampNews, Step
<1>2. PICK news \in [{s \in listed : sig[s].dir # 0} -> NewsKinds], bear \in BOOLEAN :
        sig' = [s \in Symbols |-> IF s \in listed
          THEN IF sig[s].dir = 0 THEN sig[s] ELSE Damped(s, bear, news[s])
          ELSE sig[s]]
  BY DEF DampNews, Rewrite
<1>3. \A s \in listed :
        /\ sig'[s].dir \in {0, sig[s].dir}
        /\ sig[s].flags \subseteq sig'[s].flags
        /\ sig'[s].flags \cap {"sector_up", "sector_dn"} \subseteq sig[s].flags
  <2> TAKE s \in listed
  <2>1. s \in Symbols /\ TypeOK
    BY DEF PipeInv, TypeOK
  <2>2. CASE sig[s].dir = 0
    BY <1>2, <2>1, <2>2
  <2>3. CASE sig[s].dir # 0
    <3>1. sig'[s] = Damped(s, bear, news[s])
      BY <1>2, <2>1, <2>3
    <3> QED
      BY <2>1, <2>3, <3>1, DampedEntry
  <2> QED
    BY <2>2, <2>3
<1> QED
  BY <1>1, <1>3, FlatteningKeepsSide DEF SectorSide

LEMMA SideRank == ASSUME PipeInv, SectorSide, FinalRank PROVE SectorSide'
<1>1. stage = "rank" /\ stage' = "ltp" /\ listed' = listed
  BY DEF FinalRank, Step
<1>2. sig' = [s \in Symbols |-> IF s \in listed
          THEN IF sig[s].flags \cap Explicit # {} THEN sig[s]
               ELSE [sig[s] EXCEPT !.dir = RankDir(s, FinalTop, FinalBottom)]
          ELSE sig[s]]
  BY DEF FinalRank, Rewrite
<1>3. \A s \in listed :
        /\ s \in Symbols
        /\ sig'[s] = sig[s] \/ sig'[s].flags \cap {"sector_up", "sector_dn"} = {}
  BY <1>2 DEF Explicit, PipeInv, TypeOK, Signal
<1> QED
  BY <1>1, <1>3 DEF SectorSide, SilencedReturnsWithSector

LEMMA SideOverride == ASSUME PipeInv, SectorSide, LtpOverride PROVE SectorSide'
<1>1. stage = "ltp" /\ stage' = "damp" /\ listed' = listed
  BY DEF LtpOverride, Step
<1>2. sig' = [s \in Symbols |-> IF s \in listed
          THEN IF Overridden(s)
               THEN [sig[s] EXCEPT !.dir = IF quote[s] > 0 THEN 1 ELSE -1,
                                   !.flags = @ \cup {"ltp"}]
               ELSE sig[s]
          ELSE sig[s]]
  BY DEF LtpOverride, Rewrite
<1>3. SilencedReturnsWithSector'
  <2> SUFFICES ASSUME NEW s \in listed
               PROVE  /\ "sector_up" \in sig'[s].flags /\ sig'[s].dir = -1 =>
                           {"sector_boost", "reversal"} \subseteq sig'[s].flags
                      /\ "sector_dn" \in sig'[s].flags /\ sig'[s].dir = 1 =>
                           {"sector_boost", "reversal"} \subseteq sig'[s].flags
    BY <1>1 DEF SilencedReturnsWithSector
  <2>1. s \in Symbols /\ sig[s] \in Signal /\ TypeOK
    BY DEF PipeInv, TypeOK
  <2>2. CASE Overridden(s)
    <3> DEFINE d == IF quote[s] > 0 THEN 1 ELSE -1
    <3>1. sig'[s] = [sig[s] EXCEPT !.dir = d, !.flags = @ \cup {"ltp"}]
      BY <1>2, <2>1, <2>2
    <3>2. sig'[s].dir = d /\ sig'[s].flags = sig[s].flags \cup {"ltp"}
      BY <2>1, <3>1 DEF Signal
    <3>3. quote[s] \in Int /\ quote[s] # 0
      BY <2>1, <2>2, OwnMoveType DEF Overridden, Movable, Size
    <3>4. /\ "sector_up" \in sig[s].flags => quote[s] > 0
          /\ "sector_dn" \in sig[s].flags => ~(quote[s] > 0)
      BY <2>2, <3>3 DEF Overridden
    <3> QED
      BY <3>2, <3>4
  <2>3. CASE ~Overridden(s)
    BY <1>2, <2>1, <2>3 DEF SectorSide, SilencedReturnsWithSector
  <2> QED
    BY <2>2, <2>3
<1>4. \A s \in Symbols : sig'[s].flags \subseteq sig[s].flags \cup {"ltp"}
  <2> TAKE s \in Symbols
  <2> DEFINE d == IF quote[s] > 0 THEN 1 ELSE -1
  <2>1. sig[s] \in Signal
    BY DEF PipeInv, TypeOK
  <2>2. sig'[s] = sig[s] \/ sig'[s] = [sig[s] EXCEPT !.dir = d, !.flags = @ \cup {"ltp"}]
    BY <1>2
  <2> HIDE DEF d
  <2> QED
    BY <2>1, <2>2 DEF Signal
<1> QED
  BY <1>1, <1>3, <1>4 DEF SectorSide

LEMMA SideDamper == ASSUME PipeInv, SectorSide, StockDamper PROVE SectorSide'
<1> DEFINE silent(s) == Fights(s) /\ sig[s].flags \cap {"news_veto", "news_pull", "sector_boost"} = {}
<1>1. stage = "damp" /\ stage' = "emit" /\ listed' = listed
  BY DEF StockDamper, Step
<1>2. sig' = [s \in Symbols |-> IF s \in listed
          THEN IF silent(s) THEN [sig[s] EXCEPT !.dir = 0, !.flags = @ \cup {"stock"}]
               ELSE sig[s]
          ELSE sig[s]]
  BY DEF StockDamper, Rewrite
<1> HIDE DEF silent
<1>3. \A s \in listed :
        /\ sig'[s].dir \in {0, sig[s].dir}
        /\ sig[s].flags \subseteq sig'[s].flags
        /\ sig'[s].flags \cap {"sector_up", "sector_dn"} \subseteq sig[s].flags
  <2> TAKE s \in listed
  <2>1. s \in Symbols /\ sig[s] \in Signal
    BY DEF PipeInv, TypeOK
  <2>2. sig'[s] = sig[s] \/ sig'[s] = [sig[s] EXCEPT !.dir = 0, !.flags = @ \cup {"stock"}]
    BY <1>2, <2>1
  <2> QED
    BY <2>1, <2>2 DEF Signal
<1> QED
  BY <1>1, <1>3, FlatteningKeepsSide DEF SectorSide

LEMMA SideStutter == ASSUME SectorSide, UNCHANGED vars PROVE SectorSide'
BY DEF vars, SectorSide, SilencedReturnsWithSector, SilencedIn

(* What a sector silenced comes back with the sector only, for any moves    *)
(* of its members and whatever reversals, news, ranking and live prices say *)
(* later, but for the boost that a reversal flipped.                        *)
THEOREM SilencedFollowSector == Spec => []SilencedReturnsWithSector
<1>1. PipeInv /\ SectorSide /\ [Next]_vars => SectorSide'
  BY SideEarly, SideSector, SideReversal, SideNews, SideRank, SideOverride, SideDamper,
     SideStutter DEF Next
<1>2. SectorSide => SilencedReturnsWithSector
  BY DEF SectorSide
<1> QED
  BY <1>1, <1>2, SideInit, PipelineInvariant, PTL DEF Spec

-----------------------------------------------------------------------------
(* The two orders of a ranking: highest key first, or lowest. *)
Ahead(key, up, a, b) == IF up THEN Above(key, a, b) ELSE Above(key, b, a)

(* Of a finite list one entry comes last. *)
LEMMA SymbolsFinite == IsFiniteSet(Symbols) /\ \A s \in Symbols : s \in Int
BY FS_Interval, UniverseAssumption DEF Symbols

LEMMA LastExists ==
  ASSUME NEW S \in SUBSET Symbols, NEW key, NEW up \in BOOLEAN, \A s \in S : key[s] \in Int
  PROVE  S # {} => \E m \in S : \A t \in S : t # m => Ahead(key, up, t, m)
<1> DEFINE Last(T, m) == \A t \in T : t # m => Ahead(key, up, t, m)
           Good == {T \in SUBSET S : T # {} => \E m \in T : Last(T, m)}
<1>1. \A s \in S : s \in Int
  BY UniverseAssumption DEF Symbols
<1>2. ASSUME NEW T \in SUBSET S, \A U \in SUBSET T : U # T => U \in Good
      PROVE  T \in Good
  <2> SUFFICES ASSUME NEW x \in T PROVE \E m \in T : Last(T, m)
    OBVIOUS
  <2>1. T \ {x} \in Good
    BY <1>2
  <2>2. CASE T \ {x} = {}
    BY <2>2
  <2>3. CASE T \ {x} # {}
    <3>1. PICK m \in T \ {x} : Last(T \ {x}, m)
      BY <2>1, <2>3
    <3>2. CASE Ahead(key, up, x, m)
      BY <3>1, <3>2
    <3>3. CASE ~Ahead(key, up, x, m)
      <4>1. Ahead(key, up, m, x)
        BY <1>1, <3>1, <3>3 DEF Ahead, Above
      <4>2. \A t \in T : t # x => Ahead(key, up, t, x)
        BY <1>1, <3>1, <4>1 DEF Ahead, Above
      <4> QED
        BY <4>2
    <3> QED
      BY <3>2, <3>3
  <2> QED
    BY <2>2, <2>3
<1>3. IsFiniteSet(S)
  BY SymbolsFinite, FS_Subset
<1>4. S \in Good
  <2> HIDE DEF Good
  <2> QED
    BY <1>2, <1>3, SetInduction
<1> QED
  BY <1>4

(* A set whose every member has fewer than n members before it has at most  *)
(* n members.                                                               *)
LEMMA FewBefore ==
  ASSUME NEW S \in SUBSET Symbols, NEW T, IsFiniteSet(T), S \subseteq T,
         NEW n \in Nat, NEW key, NEW up \in BOOLEAN, \A s \in S : key[s] \in Int,
         \A s \in S : Cardinality({t \in T : Ahead(key, up, t, s)}) < n
  PROVE  Cardinality(S) <= n
<1>1. CASE S = {}
  BY <1>1, FS_EmptySet
<1>2. CASE S # {}
  <2>1. PICK m \in S : \A t \in S : t # m => Ahead(key, up, t, m)
    BY <1>2, LastExists
  <2> DEFINE before == {t \in T : Ahead(key, up, t, m)}
  <2>2. IsFiniteSet(S) /\ IsFiniteSet(before) /\ S \ {m} \subseteq before
    BY <2>1, FS_Subset
  <2>3. Cardinality(S \ {m}) <= Cardinality(before) /\ Cardinality(before) < n
    BY <2>2, FS_Subset
  <2>4. Cardinality(S \ {m}) = Cardinality(S) - 1
    BY <2>2, FS_RemoveElement
  <2>5. Cardinality(S) \in Nat /\ Cardinality(before) \in Nat
    BY <2>2, FS_CardinalityType
  <2> HIDE DEF before
  <2> QED
    BY <2>3, <2>4, <2>5
<1> QED
  BY <1>1, <1>2

LEMMA NEachType == ASSUME NEW n \in Nat PROVE NEach(n) \in Nat
<1>1. (n * 15) \div 100 \in Nat
  OBVIOUS
<1> QED
  BY <1>1, UniverseAssumption DEF NEach

(* A ranking gives each side at most its share. *)
LEMMA RankingIsFair ==
  ASSUME NEW L \in SUBSET Symbols, NEW key, \A s \in L : key[s] \in Int
  PROVE  /\ Cardinality(Top(L, key)) <= NEach(Cardinality(L))
         /\ Cardinality(Bottom(L, key)) <= NEach(Cardinality(L))
         /\ IsFiniteSet(Top(L, key)) /\ IsFiniteSet(Bottom(L, key))
<1> DEFINE n == NEach(Cardinality(L))
<1>1. IsFiniteSet(L)
  BY SymbolsFinite, FS_Subset
<1>2. n \in Nat
  BY <1>1, FS_CardinalityType, NEachType
<1>3. /\ Top(L, key) \subseteq L /\ Bottom(L, key) \subseteq L
      /\ \A s \in Top(L, key) : Cardinality({t \in L : Above(key, t, s)}) < n
      /\ \A s \in Bottom(L, key) : Cardinality({t \in L : Above(key, s, t)}) < n
  BY DEF Top, Bottom
<1> HIDE DEF n
<1>4. \A s \in Top(L, key) : Cardinality({t \in L : Ahead(key, TRUE, t, s)}) < n
  BY <1>3 DEF Ahead
<1>5. \A s \in Bottom(L, key) : Cardinality({t \in L : Ahead(key, FALSE, t, s)}) < n
  BY <1>3 DEF Ahead
<1>6. Cardinality(Top(L, key)) <= n
  BY <1>1, <1>2, <1>3, <1>4, FewBefore
<1>7. Cardinality(Bottom(L, key)) <= n
  BY <1>1, <1>2, <1>3, <1>5, FewBefore
<1> QED
  BY <1>1, <1>3, <1>6, <1>7, FS_Subset DEF n

(* Directions a ranking or the weights assigned, per side. *)
Side(d) == {s \in listed : sig[s].dir = d}
Free(d) == {s \in Side(d) : sig[s].flags \cap Explicit = {}}

(* The size of each side after the blocks that bound it. *)
SidesBounded ==
  /\ stage = "dead" => \A d \in {-1, 1} : Cardinality(Side(d)) <= NEach(Cardinality(listed))
  /\ stage = "sector" => Cardinality(Side(1)) <= LongCap[regime]
  /\ stage = "ltp" => \A d \in {-1, 1} : Cardinality(Free(d)) <= NEach(Cardinality(listed))

LEMMA Smaller ==
  ASSUME NEW A, NEW B, IsFiniteSet(B), A \subseteq B, NEW n \in Nat, Cardinality(B) <= n
  PROVE  Cardinality(A) <= n
BY FS_Subset, FS_CardinalityType

LEMMA FirstRanking == ASSUME PipeInv, ScoreUniverse PROVE SidesBounded'
<1>1. stage' = "dead"
  BY DEF ScoreUniverse, Step
<1> DEFINE Scored(L, score, split) ==
             [s \in Symbols |->
                 IF s \notin L THEN Unscored
                 ELSE [score |-> score[s],
                       dir   |-> RankDir(s, Top(L, score), Bottom(L, score)),
                       flags |-> (IF HasQuote(s) THEN {"live"} ELSE {})
                                 \cup (IF s \in split THEN {"disagree"} ELSE {})]]
<1>0. PICK L \in SUBSET Symbols \ {{}} :
        \E score \in [L -> ScoreValues], split \in SUBSET L :
          listed' = L /\ sig' = Scored(L, score, split)
  BY DEF ScoreUniverse
<1>2. PICK score \in [L -> ScoreValues], split \in SUBSET L :
        listed' = L /\ sig' = Scored(L, score, split)
  BY <1>0
<1>3. \A s \in L : score[s] \in Int
  BY UniverseAssumption
<1>4. Side(1)' \subseteq Top(L, score) /\ Side(-1)' \subseteq Bottom(L, score)
  BY <1>2 DEF Side, RankDir
<1>5. NEach(Cardinality(L)) \in Nat
  BY SymbolsFinite, FS_Subset, FS_CardinalityType, NEachType
<1>6. L \in SUBSET Symbols
  OBVIOUS
<1>7. /\ Cardinality(Side(1)') <= NEach(Cardinality(L))
      /\ Cardinality(Side(-1)') <= NEach(Cardinality(L))
  BY <1>3, <1>4, <1>5, <1>6, RankingIsFair, Smaller
<1> QED
  BY <1>1, <1>2, <1>7 DEF SidesBounded

LEMMA LastRanking == ASSUME PipeInv, FinalRank PROVE SidesBounded'
<1>1. stage' = "ltp" /\ listed' = listed
  BY DEF FinalRank, Step
<1>2. sig' = [s \in Symbols |-> IF s \in listed
          THEN IF sig[s].flags \cap Explicit # {} THEN sig[s]
               ELSE [sig[s] EXCEPT !.dir = RankDir(s, FinalTop, FinalBottom)]
          ELSE sig[s]]
  BY DEF FinalRank, Rewrite
<1>3. TypeOK /\ listed \in SUBSET Symbols
  BY DEF PipeInv, TypeOK
<1>4. \A s \in listed : LongKey[s] \in Int /\ ShortKey[s] \in Int
  BY <1>3 DEF TypeOK, Signal, LongKey, ShortKey
<1>5. Free(1)' \subseteq FinalTop /\ Free(-1)' \subseteq FinalBottom
  <2> SUFFICES ASSUME NEW s \in listed, sig'[s].flags \cap Explicit = {}
               PROVE  /\ sig'[s].dir = 1 => s \in FinalTop
                      /\ sig'[s].dir = -1 => s \in FinalBottom
    BY <1>1 DEF Free, Side
  <2>1. s \in Symbols /\ sig[s] \in Signal
    BY <1>3 DEF TypeOK
  <2>2. sig'[s] = [sig[s] EXCEPT !.dir = RankDir(s, FinalTop, FinalBottom)]
    BY <1>2, <2>1
  <2>3. sig'[s].dir = RankDir(s, FinalTop, FinalBottom)
    BY <2>1, <2>2 DEF Signal
  <2> QED
    BY <2>3 DEF RankDir
<1>6. NEach(Cardinality(listed)) \in Nat
  BY <1>3, SymbolsFinite, FS_Subset, FS_CardinalityType, NEachType
<1>7. /\ Cardinality(Free(1)') <= NEach(Cardinality(listed))
      /\ Cardinality(Free(-1)') <= NEach(Cardinality(listed))
  BY <1>3, <1>4, <1>5, <1>6, RankingIsFair, Smaller DEF FinalTop, FinalBottom
<1> QED
  BY <1>1, <1>7 DEF SidesBounded

(* The cap is counted in the order of the list. *)
LEMMA WeightsCap ==
  ASSUME PipeInv, ApplyWeights PROVE SidesBounded'
<1>1. stage' = "sector" /\ listed' = listed
  BY DEF ApplyWeights, Step
<1>2. PICK r \in Regimes : regime' = r /\ sig' = [s \in Symbols |->
             IF s \in listed THEN Weighted(r, SessionThreshold, s) ELSE sig[s]]
  BY DEF ApplyWeights, Rewrite
<1> DEFINE P == {s \in listed : sig[s].dir = 1 /\ PassesWeights(r, SessionThreshold, s)}
           A == {s \in P : WithinCap(r, SessionThreshold, s)}
           key == [s \in Symbols |-> 0]
<1>3. TypeOK /\ listed \in SUBSET Symbols
  BY DEF PipeInv, TypeOK
<1>4. Side(1)' \subseteq A
  <2> SUFFICES ASSUME NEW s \in listed, sig'[s].dir = 1 PROVE s \in A
    BY <1>1 DEF Side
  <2>1. s \in Symbols /\ sig'[s] = Weighted(r, SessionThreshold, s) /\ sig[s] \in Signal
    BY <1>2, <1>3 DEF TypeOK
  <2>2. sig[s].dir = 1
    BY <1>3, <2>1, WeightedEntry
  <2>3. PassesWeights(r, SessionThreshold, s)
    BY <2>1 DEF Weighted, Signal
  <2>4. WithinCap(r, SessionThreshold, s)
    <3> SUFFICES ASSUME ~WithinCap(r, SessionThreshold, s) PROVE FALSE
      OBVIOUS
    <3> DEFINE v == IF ~Dimmed(r, s) THEN sig[s].score
                    ELSE IF sig[s].dir = -1 THEN Neutral - DimmedConviction(r, s)
                         ELSE Neutral + DimmedConviction(r, s)
    <3>1. Weighted(r, SessionThreshold, s) = [sig[s] EXCEPT !.dir = 0, !.score = v]
      BY <2>1, <2>3 DEF Weighted, Signal
    <3> HIDE DEF v
    <3> QED
      BY <2>1, <3>1 DEF Signal
  <2> QED
    BY <2>2, <2>3, <2>4
<1>5. /\ A \in SUBSET Symbols /\ A \subseteq P /\ IsFiniteSet(P)
  BY <1>3, SymbolsFinite, FS_Subset
<1>6. \A s \in A : Cardinality({t \in P : Ahead(key, FALSE, t, s)}) < LongCap[r]
  <2> SUFFICES ASSUME NEW s \in A
               PROVE  Cardinality({t \in P : Ahead(key, FALSE, t, s)}) < LongCap[r]
    OBVIOUS
  <2>1. {t \in P : Ahead(key, FALSE, t, s)} =
          {q \in listed : q < s /\ sig[q].dir = 1 /\ PassesWeights(r, SessionThreshold, q)}
    <3>1. \A t \in P : Ahead(key, FALSE, t, s) <=> t < s
      BY <1>3, <1>5, SymbolsFinite DEF Ahead, Above
    <3> QED
      BY <3>1
  <2> QED
    BY <2>1 DEF WithinCap
<1>7. \A s \in A : key[s] \in Int
  BY <1>5
<1> HIDE DEF A, P, key
<1>8. Cardinality(A) <= LongCap[r]
  <2>1. LongCap[r] \in Nat
    BY UniverseAssumption
  <2> QED
    BY <1>5, <1>6, <1>7, <2>1, FewBefore
<1>9. Cardinality(Side(1)') <= LongCap[r]
  BY <1>4, <1>5, <1>8, FS_Subset, Smaller, UniverseAssumption
<1> QED
  BY <1>1, <1>2, <1>9 DEF SidesBounded

(* A ranking fills each side with its share of the list at most, and after  *)
(* the weights the LONG signals are within the cap of the regime.           *)
THEOREM SidesAreBounded == Spec => []SidesBounded
<1>1. Init => SidesBounded
  BY DEF Init, SidesBounded
<1>2. PipeInv /\ SidesBounded /\ [Next]_vars => SidesBounded'
  <2> SUFFICES ASSUME PipeInv, SidesBounded, [Next]_vars PROVE SidesBounded'
    OBVIOUS
  <2>1. CASE FetchQuotes \/ DropDead \/ SectorPass \/ MergeReversals \/ DampNews
               \/ LtpOverride \/ StockDamper \/ EmitAndSleep
    BY <2>1 DEF FetchQuotes, DropDead, SectorPass, MergeReversals, DampNews, LtpOverride,
                StockDamper, EmitAndSleep, Step, SidesBounded
  <2>2. CASE UNCHANGED vars
    BY <2>2 DEF vars, SidesBounded, Side, Free
  <2> QED
    BY <2>1, <2>2, FirstRanking, LastRanking, WeightsCap DEF Next
<1> QED
  BY <1>1, <1>2, PipelineInvariant, PTL DEF Spec
=============================================================================
