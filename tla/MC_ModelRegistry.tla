-------------------------- MODULE MC_ModelRegistry --------------------------
(* Three training runs at once, one server, two faults.                    *)
EXTENDS ModelRegistry, TLC

Symmetry == Permutations(Runs)

=============================================================================
