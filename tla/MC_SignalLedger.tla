-------------------------- MODULE MC_SignalLedger ---------------------------
(* Two processes on the ledger of one date, interleaved step by step.      *)
EXTENDS SignalLedger, TLC

Symmetry == Permutations(Clients) \cup Permutations(Symbols)

=============================================================================
