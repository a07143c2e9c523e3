--------------------------- MODULE MC_LiveSession ---------------------------
(* A day with one fault: processes enough for every restart it can cause.  *)
EXTENDS LiveSession

=============================================================================
