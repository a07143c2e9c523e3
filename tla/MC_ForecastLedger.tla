------------------------- MODULE MC_ForecastLedger --------------------------
(* Two symbols, two sessions of two samples.                               *)
EXTENDS ForecastLedger, TLC

Symmetry == Permutations(Symbols)

=============================================================================
