--------------------------- MODULE MCHumanRequests ---------------------------
(* HumanRequests with one waiting agent, two operators and two requests. *)
EXTENDS HumanRequests, TLC

CONSTANTS a1, o1, o2, r1, r2, n1, v1, v2

MCAgents    == {a1}
MCOperators == {o1, o2}
MCIds       == {r1, r2}
MCNames     == {n1}
MCValues    == {v1, v2}

\* No timeout, and one that ends while the agent still waits.
MCRowTimeouts == {0, 1}

\* Operators, requests and values differ in nothing but their names; sound,
\* because nothing is said of what must happen.
Alike == Permutations(MCOperators) \cup Permutations(MCIds) \cup Permutations(MCValues)
=============================================================================
