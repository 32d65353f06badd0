---------------------------- MODULE MCApprovals ----------------------------
(* Approvals with two executions and two requests. *)
EXTENDS Approvals

CONSTANTS a1, a2, r1, r2

MCAgents == {a1, a2}
MCIds    == {r1, r2}

\* One row timeout shorter than the wait, one longer.
MCRowTimeouts == {0, 2}
=============================================================================
