----------------------------- MODULE MCStepLoop -----------------------------
(* StepLoop with small limits, all of them reached, and two runs. *)
EXTENDS StepLoop
=============================================================================
