-------------------------- MODULE SignalPipeline ---------------------------
(***************************************************************************)
(* One sampling cycle of scripts/autorun_till_close.py: the scores of the  *)
(* universe pass through ten blocks, each of which may set, drop or flip   *)
(* the direction of a signal and leaves a flag that tells later blocks     *)
(* what it did.  A block is an action; "stage" names the next one.         *)
(*                                                                         *)
(* Units: a score is in thousandths (Neutral = 0.500), a price change in   *)
(* tenths of a percent.  Symbols are numbered in the order of their names, *)
(* which is the order of the score list and the tie-break of every sort.   *)
(* A quote carries a live price and its change, or is missing.             *)
(***************************************************************************)
EXTENDS Integers, FiniteSets, Functions

CONSTANTS
  NSymbols,       \* size of the scored universe (218 on disk)
  MinEach,        \* fewest signals per side of a ranking (5)
  ScoreValues,    \* scores a model may give
  Moves,          \* intraday changes a quote may report
  LiveSector,     \* the sector sets of main(): symbol -> sector or NoSector
  WeightSector,   \* sector_map of feature_weights.json
  NoSector,
  NoQuote,
  Disabled,       \* symbols switched off in symbol_overrides
  LongCap,        \* max_positions per regime
  Dims            \* regime -> sector -> [mult, dir], or the neutral NoDim

Symbols == 1 .. NSymbols
Regimes == {"HIGH_CORR_BEAR", "TRENDING_BEAR", "NORMAL"}
Neutral == 500
NoDim == [mult |-> 100, dir |-> 2]   \* matches no direction

ASSUME UniverseAssumption ==
  /\ NSymbols \in Nat \ {0}
  /\ MinEach \in Nat \ {0}
  /\ ScoreValues \subseteq Int
  /\ Moves \subseteq Int
  /\ NoQuote \notin Int
  /\ \A r \in Regimes, s \in Symbols : Dims[r][WeightSector[s]].mult \in Int
  /\ \A r \in Regimes : LongCap[r] \in Nat

VARIABLES stage, quote, listed, sig, threshold, regime

vars == <<stage, quote, listed, sig, threshold, regime>>

Flags == {"live", "disagree", "sector_up", "sector_dn", "sector_boost",
          "reversal", "news_veto", "news_pull", "ltp", "stock"}
Stages == {"fetch", "score", "dead", "weights", "sector", "reversal",
           "news", "rank", "ltp", "damp", "emit"}
Signal == [score : Int, dir : {-1, 0, 1}, flags : SUBSET Flags]

Unscored == [score |-> Neutral, dir |-> 0, flags |-> {}]
HasQuote(s) == quote[s] # NoQuote
Quoted == {s \in Symbols : HasQuote(s)}
Size(n) == IF n < 0 THEN -n ELSE n

(* Replaces the entries of the list, leaving the symbols not in it alone.  *)
Rewrite(F(_)) == sig' = [s \in Symbols |-> IF s \in listed THEN F(s) ELSE sig[s]]

Step(from, to) == stage = from /\ stage' = to

-----------------------------------------------------------------------------
(* The rank-based assignment: the n_each highest keys and the n_each       *)
(* lowest scores of the list, ties broken by the symbol.                   *)
NEach(n) == LET share == (n * 15) \div 100
            IN  IF share > MinEach THEN share ELSE MinEach
Above(key, a, b) == key[a] > key[b] \/ (key[a] = key[b] /\ a > b)
Top(L, key) ==
  {s \in L : Cardinality({t \in L : Above(key, t, s)}) < NEach(Cardinality(L))}
Bottom(L, key) ==
  {s \in L : Cardinality({t \in L : Above(key, s, t)}) < NEach(Cardinality(L))}

(* LONG wins when a short list puts a symbol on both sides. *)
RankDir(s, top, bottom) ==
  IF s \in top THEN 1 ELSE IF s \in bottom THEN -1 ELSE 0

-----------------------------------------------------------------------------
Init ==
  /\ stage = "fetch"
  /\ quote = [s \in Symbols |-> NoQuote]
  /\ listed = {}
  /\ sig = [s \in Symbols |-> Unscored]
  /\ threshold = 150
  /\ regime = "NORMAL"

(* The two quote batches of the cycle; any symbol may come back empty. *)
FetchQuotes ==
  /\ Step("fetch", "score")
  /\ quote' \in [Symbols -> Moves \cup {NoQuote}]
  /\ UNCHANGED <<listed, sig, threshold, regime>>

(* score_all skips symbols whose file or features fail.  With the ensemble *)
(* a disagreeing symbol is marked and set to 0; the first ranking then     *)
(* assigns every direction afresh.                                         *)
ScoreUniverse ==
  /\ Step("score", "dead")
  /\ \E L \in SUBSET Symbols \ {{}} :
       \E score \in [L -> ScoreValues], split \in SUBSET L :
         LET top == Top(L, score)
             bottom == Bottom(L, score)
         IN  /\ listed' = L
             /\ sig' = [s \in Symbols |->
                          IF s \notin L THEN Unscored
                          ELSE [score |-> score[s],
                                dir   |-> RankDir(s, top, bottom),
                                flags |-> (IF HasQuote(s) THEN {"live"} ELSE {})
                                          \cup (IF s \in split THEN {"disagree"} ELSE {})]]
  /\ UNCHANGED <<quote, threshold, regime>>

(* apply_dead_filter removes the symbols on cooldown from the list. *)
DropDead ==
  /\ Step("dead", "weights")
  /\ \E dead \in SUBSET Symbols :
       /\ listed' = listed \ dead
       /\ sig' = [s \in Symbols |-> IF s \in dead THEN Unscored ELSE sig[s]]
  /\ UNCHANGED <<quote, threshold, regime>>

-----------------------------------------------------------------------------
(* FeatureWeightManager.apply: override, threshold, sector dimmer, cap.    *)
MoveSum == SumFunctionOnSet([s \in Quoted |-> Size(quote[s])], Quoted)

\* Variant: the values the code used before October (0.05, 0.10, 0.15).
SessionThresholdOld ==
  LET n == Cardinality(Quoted)
  IN  IF n = 0 THEN threshold
      ELSE IF MoveSum > 15 * n THEN 50
      ELSE IF MoveSum > 8 * n THEN 100
      ELSE 150

(* The session threshold follows the mean absolute move of the quotes and  *)
(* keeps its last value when there is none.                                *)
SessionThreshold ==
  LET n == Cardinality(Quoted)
  IN  IF n = 0 THEN threshold
      ELSE IF MoveSum > 15 * n THEN 120
      ELSE IF MoveSum > 8 * n THEN 150
      ELSE 180

Conviction(s) == Size(sig[s].score - Neutral)
DimFor(r, s) == Dims[r][WeightSector[s]]
Dimmed(r, s) == DimFor(r, s).dir \in {0, sig[s].dir}
DimmedConviction(r, s) == (Conviction(s) * DimFor(r, s).mult) \div 100

PassesWeights(r, t, s) ==
  /\ s \in listed \ Disabled
  /\ Conviction(s) >= t
  /\ Dimmed(r, s) => DimmedConviction(r, s) >= 50

(* The cap counts the LONG entries that passed and come earlier in the list. *)
WithinCap(r, t, s) ==
  sig[s].dir = 1 =>
    Cardinality({q \in listed : q < s /\ sig[q].dir = 1 /\ PassesWeights(r, t, q)})
      < LongCap[r]

(* Below the cap the dimmed score survives; a capped entry keeps it too.   *)
Weighted(r, t, s) ==
  IF ~PassesWeights(r, t, s) THEN [sig[s] EXCEPT !.dir = 0]
  ELSE [sig[s] EXCEPT
          !.dir = IF WithinCap(r, t, s) THEN @ ELSE 0,
          !.score = IF ~Dimmed(r, s) THEN @
                    ELSE IF sig[s].dir = -1
                         THEN Neutral - DimmedConviction(r, s)
                         ELSE Neutral + DimmedConviction(r, s)]

ApplyWeights ==
  /\ Step("weights", "sector")
  /\ threshold' = SessionThreshold
  /\ \E r \in Regimes :
       /\ regime' = r
       /\ Rewrite(LAMBDA s : Weighted(r, SessionThreshold, s))
  /\ UNCHANGED <<quote, listed>>

-----------------------------------------------------------------------------
(* The intraday sector pass: a sector that moves more than 1% silences the *)
(* opposite signals, and one that moves more than 1.2% gives its silent    *)
(* members its own direction when they move with it.                       *)
Peers(s) == {q \in Quoted : LiveSector[q] = LiveSector[s]}
SectorMove(s) == SumFunctionOnSet(quote, Peers(s))
SectorBeyond(s, sign, bound) == sign * SectorMove(s) > bound * Cardinality(Peers(s))
InMovingSector(s) == LiveSector[s] # NoSector /\ Peers(s) # {}
OwnMove(s) == IF HasQuote(s) THEN quote[s] ELSE 0

Silenced(s) ==
  IF sig[s].dir = -1 /\ SectorBeyond(s, 1, 10)
  THEN [sig[s] EXCEPT !.dir = 0, !.flags = @ \cup {"sector_up"}]
  ELSE IF sig[s].dir = 1 /\ SectorBeyond(s, -1, 10)
  THEN [sig[s] EXCEPT !.dir = 0, !.flags = @ \cup {"sector_dn"}]
  ELSE sig[s]

\* Variant: the boost does not ask how the symbol itself moves.
BoostedBlindly(s, entry) ==
  LET sign == IF SectorBeyond(s, -1, 12) THEN -1 ELSE 1
  IN  IF entry.dir = 0 /\ SectorBeyond(s, sign, 12)
      THEN [entry EXCEPT !.dir = sign, !.flags = @ \cup {"sector_boost"}]
      ELSE entry

Boosted(s, entry) ==
  LET sign == IF SectorBeyond(s, -1, 12) THEN -1 ELSE 1
  IN  IF entry.dir = 0 /\ SectorBeyond(s, sign, 12) /\ sign * OwnMove(s) > 5
      THEN [entry EXCEPT !.dir = sign, !.flags = @ \cup {"sector_boost"}]
      ELSE entry

SectorPass ==
  /\ Step("sector", "reversal")
  /\ Rewrite(LAMBDA s : IF InMovingSector(s) THEN Boosted(s, Silenced(s)) ELSE sig[s])
  /\ UNCHANGED <<quote, listed, threshold, regime>>

(* merge_with_momentum: a strong reversal setup against the signal flips it. *)
MergeReversals ==
  /\ Step("reversal", "news")
  /\ \E strong \in [listed -> {-1, 0, 1}] :
       Rewrite(LAMBDA s :
         IF sig[s].dir * strong[s] = -1
         THEN [sig[s] EXCEPT !.dir = strong[s], !.flags = @ \cup {"reversal"}]
         ELSE sig[s])
  /\ UNCHANGED <<quote, listed, threshold, regime>>

-----------------------------------------------------------------------------
(* apply_news_damper.  News about a symbol is bearish or bullish beyond    *)
(* 0.25 (rule 2), or an important event that leans one way (rule 3).       *)
NewsKinds == {"none", "bearish", "bullish", "event_bearish", "event_bullish"}
WeakGrade(s) == Conviction(s) < 200
Vetoed(s, bear, news) ==
  \/ bear /\ sig[s].dir = 1 /\ WeakGrade(s)
  \/ news = "bearish" /\ sig[s].dir = 1
  \/ news = "bullish" /\ sig[s].dir = -1
Pulled(s, news) ==
  \/ news = "event_bearish" /\ sig[s].dir = 1
  \/ news = "event_bullish" /\ sig[s].dir = -1

Damped(s, bear, news) ==
  IF Vetoed(s, bear, news)
  THEN [sig[s] EXCEPT !.dir = 0, !.flags = @ \cup {"news_veto"}]
  ELSE IF Pulled(s, news)
  THEN [sig[s] EXCEPT !.score = @ + (3 * (Neutral - @)) \div 10,
                      !.flags = @ \cup {"news_pull"}]
  ELSE sig[s]

(* A failed fetch leaves every signal as it is: no news for any symbol.    *)
DampNews ==
  /\ Step("news", "rank")
  /\ \E news \in [{s \in listed : sig[s].dir # 0} -> NewsKinds], bear \in BOOLEAN :
       Rewrite(LAMBDA s : IF sig[s].dir = 0 THEN sig[s] ELSE Damped(s, bear, news[s]))
  /\ UNCHANGED <<quote, listed, threshold, regime>>

-----------------------------------------------------------------------------
(* The final ranking gives live-priced symbols 0.03 on the LONG side and   *)
(* skips the signals that carry an explicit decision.                      *)
\* Variant: the ranking does not know the news damper's flag.
ExplicitWithoutNews == {"disagree", "sector_boost", "sector_up", "sector_dn",
                        "stock", "reversal"}
Explicit == {"news_veto", "news_pull", "disagree", "sector_boost", "sector_up",
             "sector_dn", "stock", "reversal"}
LongKey == [s \in Symbols |-> sig[s].score + (IF "live" \in sig[s].flags THEN 30 ELSE 0)]
ShortKey == [s \in Symbols |-> sig[s].score]
FinalTop == Top(listed, LongKey)
FinalBottom == Bottom(listed, ShortKey)

FinalRank ==
  /\ Step("rank", "ltp")
  /\ LET top == FinalTop
         bottom == FinalBottom
     IN  Rewrite(LAMBDA s : IF sig[s].flags \cap Explicit # {} THEN sig[s]
                            ELSE [sig[s] EXCEPT !.dir = RankDir(s, top, bottom)])
  /\ UNCHANGED <<quote, listed, threshold, regime>>

(* A silent symbol that moved 1.5% and whose score is on the side of the   *)
(* move, measured from the mean score, gets a signal.                      *)
AboveMean(s) ==
  sig[s].score * Cardinality(listed) >= SumFunctionOnSet(ShortKey, listed)

Movable(s) ==
  /\ HasQuote(s)
  /\ sig[s].dir = 0
  /\ sig[s].flags \cap {"news_veto", "news_pull", "stock"} = {}
  /\ Size(quote[s]) >= 15

\* Variants: the mean is taken to be 0.500; the sector's silence is ignored.
OverriddenNeutralMean(s) ==
  /\ Movable(s)
  /\ ~("sector_up" \in sig[s].flags /\ quote[s] < 0)
  /\ ~("sector_dn" \in sig[s].flags /\ quote[s] > 0)
  /\ quote[s] > 0 <=> sig[s].score >= Neutral
OverriddenAnySector(s) == Movable(s) /\ (quote[s] > 0 <=> AboveMean(s))

Overridden(s) ==
  /\ Movable(s)
  /\ ~("sector_up" \in sig[s].flags /\ quote[s] < 0)
  /\ ~("sector_dn" \in sig[s].flags /\ quote[s] > 0)
  /\ quote[s] > 0 <=> AboveMean(s)

LtpOverride ==
  /\ Step("ltp", "damp")
  /\ Rewrite(LAMBDA s :
       IF Overridden(s)
       THEN [sig[s] EXCEPT !.dir = IF quote[s] > 0 THEN 1 ELSE -1,
                           !.flags = @ \cup {"ltp"}]
       ELSE sig[s])
  /\ UNCHANGED <<quote, listed, threshold, regime>>

(* The stock-level damper silences what fights its own stock's 1% move. *)
Fights(s) == sig[s].dir * OwnMove(s) < -10

StockDamper ==
  /\ Step("damp", "emit")
  /\ Rewrite(LAMBDA s :
       IF Fights(s) /\ sig[s].flags \cap {"news_veto", "news_pull", "sector_boost"} = {}
       THEN [sig[s] EXCEPT !.dir = 0, !.flags = @ \cup {"stock"}]
       ELSE sig[s])
  /\ UNCHANGED <<quote, listed, threshold, regime>>

(* The list goes to the ledgers and to latest_scores.json; after a sleep   *)
(* the next cycle starts from nothing but the session threshold.           *)
EmitAndSleep ==
  /\ Step("emit", "fetch")
  /\ quote' = [s \in Symbols |-> NoQuote]
  /\ listed' = {}
  /\ sig' = [s \in Symbols |-> Unscored]
  /\ UNCHANGED <<threshold, regime>>

Next ==
  \/ FetchQuotes \/ ScoreUniverse \/ DropDead \/ ApplyWeights \/ SectorPass
  \/ MergeReversals \/ DampNews \/ FinalRank \/ LtpOverride \/ StockDamper
  \/ EmitAndSleep

Spec == Init /\ [][Next]_vars

-----------------------------------------------------------------------------
(* Every stage keeps entries of the right shape, and only listed symbols   *)
(* carry a signal.                                                         *)
TypeOK ==
  /\ stage \in Stages
  /\ quote \in [Symbols -> Moves \cup {NoQuote}]
  /\ listed \subseteq Symbols
  /\ sig \in [Symbols -> Signal]
  /\ threshold \in {120, 150, 180}
  /\ regime \in Regimes
  /\ \A s \in Symbols \ listed : sig[s] = Unscored

(* A signal that the news damper set to 0 is flat in every later block: the *)
(* final ranking, the live-price override and the stock damper all leave it *)
(* (the comments "explicit suppression - never override").                  *)
VetoIsFinal ==
  \A s \in listed : "news_veto" \in sig[s].flags => sig[s].dir = 0

(* The stock damper "has the last word": a signal emitted against a move of *)
(* more than 1% of its own stock was pulled by an event (rule 3 keeps the   *)
(* direction and exempts it), or it was boosted with its sector and then    *)
(* flipped by a reversal setup.                                             *)
FightsOnlyOnPurpose ==
  stage = "emit" =>
    \A s \in listed : Fights(s) =>
      "news_pull" \in sig[s].flags \/ {"sector_boost", "reversal"} \subseteq sig[s].flags

(* A live-price override survives to the emission with the sign of the      *)
(* move that caused it, was never vetoed or damped, and sits on the side of *)
(* the mean score that the move is on.                                      *)
OverrideFollowsMove ==
  \A s \in listed : "ltp" \in sig[s].flags =>
    /\ HasQuote(s)
    /\ sig[s].dir * quote[s] >= 15
    /\ sig[s].flags \cap {"news_veto", "stock"} = {}
    /\ quote[s] > 0 <=> AboveMean(s)

(* A signal that its sector silenced comes back only in the direction of    *)
(* the sector, whatever the later blocks do, unless the same pass boosted   *)
(* it and a reversal setup flipped the boost.                               *)
SilencedReturnsWithSector ==
  \A s \in listed :
    /\ "sector_up" \in sig[s].flags /\ sig[s].dir = -1 =>
         {"sector_boost", "reversal"} \subseteq sig[s].flags
    /\ "sector_dn" \in sig[s].flags /\ sig[s].dir = 1 =>
         {"sector_boost", "reversal"} \subseteq sig[s].flags

=============================================================================
