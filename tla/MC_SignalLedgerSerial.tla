----------------------- MODULE MC_SignalLedgerSerial ------------------------
(* One ledger process at a time: reruns and crashes, but no overlap.       *)
EXTENDS SignalLedgerBook, TLC

Symmetry == Permutations(Symbols)

=============================================================================
