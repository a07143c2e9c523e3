---------------------------- MODULE TradingBook -----------------------------
(***************************************************************************)
(* What the signal ledger promises about one trading date, without tables, *)
(* transactions or processes: every symbol gets at most one position, the  *)
(* position is opened once and closed once, and its outcome is final       *)
(* (the lifecycle in the docstring of src/analytics/signal_ledger.py).     *)
(***************************************************************************)
CONSTANTS Symbols, Ids, Outcomes

VARIABLE book   \* book[y]: at most one <<id, status>>

BookInit == book = [y \in Symbols |-> {}]

OpenPosition(y) ==
  /\ book[y] = {}
  /\ \E i \in Ids : book' = [book EXCEPT ![y] = {<<i, "OPEN">>}]

ClosePosition(y) ==
  \E i \in Ids, o \in Outcomes :
    /\ book[y] = {<<i, "OPEN">>}
    /\ book' = [book EXCEPT ![y] = {<<i, o>>}]

BookNext == \E y \in Symbols : OpenPosition(y) \/ ClosePosition(y)

BookSpec == BookInit /\ [][BookNext]_book

=============================================================================
