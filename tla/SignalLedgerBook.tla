-------------------------- MODULE SignalLedgerBook --------------------------
(* The tables of SignalLedger read as a TradingBook: a symbol's entry is   *)
(* the set of its position rows.                                           *)
EXTENDS SignalLedger

BookOf(y) == {<<s, positions[s].status>> : s \in {t \in Sids : SymbolOf(t) = y /\ Exists(t)}}

Book == INSTANCE TradingBook WITH
          Ids      <- Sids,
          Outcomes <- Terminal,
          book     <- [y \in Symbols |-> BookOf(y)]

(* Run one operation at a time, the ledger is a TradingBook: a symbol is   *)
(* opened at most once on the date and its position is settled exactly     *)
(* once with a final outcome, across reruns and killed processes.          *)
BookRefinement == Book!BookSpec

=============================================================================
