--------------------------- MODULE MCLoopDetector ---------------------------
(* LoopDetector with its default thresholds, on two calls and two results. *)
EXTENDS LoopDetector

CONSTANTS c1, c2, x, y

MCCalls   == {c1, c2}
MCResults == {x, y}
=============================================================================
