---------------------------- MODULE MCContainers ----------------------------
(* Containers with three concurrent callers and three containers in turn. *)
EXTENDS Containers

CONSTANTS p1, p2, p3, c1, c2, c3

MCCallers == {p1, p2, p3}
MCCids    == {c1, c2, c3}
=============================================================================
