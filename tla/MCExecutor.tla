----------------------------- MODULE MCExecutor -----------------------------
(* Executor with one plain tool, the two gate tools and one tool output. *)
EXTENDS Executor

CONSTANTS work, request_approval, request_human, out

MCTools         == {work, request_approval, request_human}
MCGateTools     == {request_approval, request_human}
MCApprovalTools == {request_approval}
MCOutputs       == {out}
=============================================================================
