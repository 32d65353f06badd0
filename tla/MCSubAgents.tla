---------------------------- MODULE MCSubAgents ----------------------------
(* SubAgents: one parent with two runs at once, and children enough to pass *)
(* the maximum and to have one of their own.                                *)
EXTENDS SubAgents, TLC

CONSTANTS p, r1, r2, k1, k2, k3

MCOf == r1 :> p @@ r2 :> p

Symmetry == Permutations({r1, r2}) \cup Permutations({k2, k3})
=============================================================================
