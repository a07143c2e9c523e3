------------------------- MODULE MC_SignalPipeline --------------------------
(* Three symbols, one signal per side: two of them share a live sector and *)
(* the second is dimmed by the shipped kind of bear-regime filter.         *)
EXTENDS SignalPipeline

MCMoves == {-20, 7, 60}
MCLiveSector == <<"it", "it", NoSector>>
MCWeightSector == <<"tech", "pharma", "none">>
MCLongCap == [r \in Regimes |-> IF r = "HIGH_CORR_BEAR" THEN 0 ELSE 1]
MCDims ==
  [r \in Regimes |-> [sector \in {"tech", "pharma", "none"} |->
     IF sector = "pharma" /\ r = "HIGH_CORR_BEAR" THEN [mult |-> 20, dir |-> -1]
     ELSE IF sector = "pharma" /\ r = "TRENDING_BEAR" THEN [mult |-> 80, dir |-> -1]
     ELSE NoDim]]
=============================================================================
