------------------------- MODULE MC_PortfolioEngine -------------------------
(* Two symbols, three signals: two on the first symbol, in both            *)
(* directions, and a short on the second.                                  *)
EXTENDS PortfolioEngine

MCSym == [i \in 1 .. 4 |-> IF i = 4 THEN "B" ELSE "A"]
MCDir == <<1, 1, -1, -1>>
MCSector == [s \in {"A", "B"} |-> IF s = "A" THEN "bank" ELSE UnknownSector]

Bar(o, h, l, c) == [open |-> o, high |-> h, low |-> l, close |-> c]
\* A calm day and a crash, which stops the longs and pays the shorts.
MCBars == {Bar(10000, 10100, 9900, 10000), Bar(10000, 10100, 9200, 9300)}
=============================================================================
