------------------------- MODULE MC_ModelLifecycle --------------------------
(* Two managers and two versions.  Who is promoted depends on the metrics  *)
(* only through the outcome of the gates: versions that pass on their own  *)
(* and fail against each other give the run both outcomes, and the claim   *)
(* about the gates is checked with a version that can never pass.          *)
EXTENDS ModelLifecycle, TLC

Passing == [contaminated |-> FALSE, graded |-> TRUE, validated |-> TRUE, oos |-> 60,
            ic |-> 300, brier |-> 2000, net |-> 100, turnover |-> 1000,
            drawdown |-> 1000, decayed |-> FALSE, drifted |-> FALSE]
Leaky   == [Passing EXCEPT !.contaminated = TRUE]

AllPassing   == {Passing}
PassingLeaky == {Passing, Leaky}

Symmetry == Permutations(Managers) \cup Permutations(Versions)

=============================================================================
