------------------------------ MODULE Executor ------------------------------
(***************************************************************************)
(* The agent loop (executor.Execute): ask the provider, run the tool calls *)
(* of its response one by one, ask again.  Each call passes the trust      *)
(* engine and, where the engine says so, a human; the two gate tools block *)
(* on a human after they ran; every result goes into the conversation and  *)
(* into the loop detector, whose verdict may end the run.                  *)
(*                                                                         *)
(* The provider, the tools, the trust engine and the humans are            *)
(* interfaces: each answers anything its type allows.  Beside the loop, a  *)
(* producer fills the inbox and the context may be cancelled, at any time. *)
(***************************************************************************)
EXTENDS Integers, Sequences, FiniteSets

CONSTANTS
  Tools,          \* tool calls the model may make, by tool and arguments
  Outputs,        \* what a tool may return when it succeeds
  GateTools,      \* the tools among them that wait for a human
  ApprovalTools,  \* those of the gate tools that are request_approval
  MaxIterations,  \* cfg.MaxIterations, its default applied
  DrainMax,       \* drainInboxMaxMessages
  MaxConsecutive, MaxErrors, MaxAlternating, MaxNoProgress,  \* cfg.LoopDetection
  MaxCalls,       \* bound: tool calls in one run
  MaxInjected     \* bound: messages put into the inbox

Failures == {"denied", "unapproved", "failed"}   \* error results of a call
Replies  == {"reply"}                            \* what a gate makes of a human's answer

ASSUME ExecutorAssumption ==
  /\ ApprovalTools \subseteq GateTools /\ GateTools \subseteq Tools
  /\ MaxIterations \in Nat \ {0} /\ DrainMax \in Nat \ {0}
  /\ MaxConsecutive \in Int /\ MaxErrors \in Int
  /\ MaxAlternating \in Int /\ MaxNoProgress \in Int
  /\ MaxCalls \in Nat \ {0} /\ MaxInjected \in Nat
  /\ Outputs \cap (Failures \cup Replies) = {}

VARIABLES
  pc,         \* where the loop is
  iter,       \* iterCount
  conv,       \* messages
  calls, k,   \* resp.ToolCalls, and the one in hand
  said,       \* the last word on the call in hand: trust engine's or approver's
  outcome,    \* resultStr and isError of the call in hand
  history,    \* the loop detector's
  verdict,    \* and its last verdict
  inbox,      \* messages waiting in cfg.Inbox
  injected,   \* messages ever put there
  live,       \* ctx.Err() == nil
  approver,   \* cfg.Approver # nil
  status      \* Result.Status

loopVars == <<pc, iter, conv, calls, k, said, outcome, history, verdict, status>>
envVars  == <<inbox, injected, live>>
vars == <<pc, iter, conv, calls, k, said, outcome, history, verdict, inbox,
          injected, live, approver, status>>

\* A message keeps its role and, for assistant and tool messages, the iteration
\* it belongs to and the number of calls, or of the call it answers.
System            == [role |-> "system", turn |-> 0, n |-> 0]
User              == [role |-> "user", turn |-> 0, n |-> 0]
AssistantMsg(t, n) == [role |-> "assistant", turn |-> t, n |-> n]
ToolMsg(t, n)      == [role |-> "tool", turn |-> t, n |-> n]

Messages == [role : {"system", "user", "assistant", "tool"}, turn : Nat, n : Nat]

Outcomes == [result : Failures \cup Replies \cup Outputs \cup {"none"}, error : BOOLEAN]

NoOutcome == [result |-> "none", error |-> FALSE]

Detector == INSTANCE LoopDetector WITH
              Calls <- Tools, Results <- Failures \cup Replies \cup Outputs,
              MaxHistory <- MaxCalls, status <- verdict

TypeOK ==
  /\ pc \in {"top", "chat", "trust", "ask", "run", "gate", "answer", "stop?", "done"}
  /\ iter \in 0 .. MaxIterations
  /\ conv \in Seq(Messages)
  /\ calls \in Seq(Tools)
  /\ k \in Nat
  /\ said \in {"nothing", "allow", "deny", "ask", "approved", "refused"}
  /\ outcome \in Outcomes
  /\ history \in Seq(Detector!Entries)
  /\ verdict \in {"ok", "warning", "break"}
  /\ inbox \in Nat /\ injected \in Nat
  /\ live \in BOOLEAN /\ approver \in BOOLEAN
  /\ status \in {"running", "completed", "failed", "loop_detected",
                 "approval_timeout", "request_expired"}

Init ==
  /\ pc = "top" /\ iter = 0
  /\ conv = <<System, User>>
  /\ calls = <<>> /\ k = 0
  /\ said = "nothing" /\ outcome = NoOutcome
  /\ history = <<>> /\ verdict = "ok"
  /\ inbox = 0 /\ injected = 0 /\ live = TRUE
  /\ approver \in BOOLEAN
  /\ status = "running"

-----------------------------------------------------------------------------
(* The conversation *)

\* Compact: system message, summary, the last four messages.
Compact(c) ==
  IF Len(c) < 5 THEN c
  ELSE LET keepTail == IF 4 >= Len(c) - 1 THEN Len(c) - 2 ELSE 4
       IN  <<c[1], User>> \o SubSeq(c, Len(c) - keepTail + 1, Len(c))

\* drainInbox: everything that waits, up to the limit; less, down to nothing,
\* when the context is cancelled before or during the drain.
Drains ==
  LET most == IF inbox <= DrainMax THEN inbox ELSE DrainMax
  IN  IF live THEN {most} ELSE 0 .. most

\* The top of the loop: drain the inbox, compact if the estimate of the
\* conversation's tokens, a matter of its text, has reached the threshold,
\* redact, and call the provider.
Iterate ==
  /\ pc = "top" /\ iter < MaxIterations
  /\ iter' = iter + 1
  /\ \E d \in Drains, compact \in BOOLEAN :
       /\ inbox' = inbox - d
       /\ conv' = LET drained == conv \o [i \in 1..d |-> User]
                  IN  IF compact THEN Compact(drained) ELSE drained
  /\ pc' = "chat"
  /\ UNCHANGED <<calls, k, said, outcome, history, verdict, injected, live, approver, status>>

End(s) == pc' = "done" /\ status' = s

\* for iterCount < cfg.MaxIterations
Exhaust ==
  /\ pc = "top" /\ iter >= MaxIterations
  /\ End("completed")
  /\ UNCHANGED <<iter, conv, calls, k, said, outcome, history, verdict, envVars, approver>>

ChatFails ==
  /\ pc = "chat"
  /\ End("failed")
  /\ UNCHANGED <<iter, conv, calls, k, said, outcome, history, verdict, envVars, approver>>

\* A response without tool calls is the final answer.
ChatAnswers ==
  /\ pc = "chat"
  /\ End("completed")
  /\ UNCHANGED <<iter, conv, calls, k, said, outcome, history, verdict, envVars, approver>>

ChatCalls ==
  /\ pc = "chat"
  /\ \E n \in 1 .. MaxCalls - Len(history) : \E cs \in [1..n -> Tools] :
       /\ calls' = cs
       /\ conv' = Append(conv, AssistantMsg(iter, n))
  /\ k' = 1
  /\ said' = "nothing" /\ outcome' = NoOutcome
  /\ pc' = "trust"
  /\ UNCHANGED <<iter, history, verdict, envVars, approver, status>>

-----------------------------------------------------------------------------
(* One tool call *)

Refuse(r) == outcome' = [result |-> r, error |-> TRUE] /\ pc' = "answer"

\* Evaluate, and EvaluateCommand or EvaluatePath after an allow: an external
\* engine whose rules may change under it, so any of its three answers.
Trust ==
  /\ pc = "trust"
  /\ \E t \in {"allow", "deny", "ask"} :
       /\ said' = t
       /\ \/ t = "allow" /\ pc' = "run" /\ UNCHANGED outcome
          \/ t = "deny" /\ Refuse("denied")
          \/ t = "ask" /\ ~approver /\ Refuse("unapproved")
          \/ t = "ask" /\ approver /\ pc' = "ask" /\ UNCHANGED outcome
  /\ UNCHANGED <<iter, conv, calls, k, history, verdict, envVars, approver, status>>

\* Variant: only an error or a missing record refuses the call.
ApprovalUnread ==
  /\ pc = "ask"
  /\ \/ said' = "approved" /\ pc' = "run" /\ UNCHANGED outcome
     \/ said' = "refused" /\ pc' = "run" /\ UNCHANGED outcome
  /\ UNCHANGED <<iter, conv, calls, k, history, verdict, envVars, approver, status>>

\* Approver.Request and WaitForResolution: an approved record lets the call
\* through; any other record, none, or an error of either refuses it.
Approval ==
  /\ pc = "ask"
  /\ \/ said' = "approved" /\ pc' = "run" /\ UNCHANGED outcome
     \/ said' = "refused" /\ Refuse("unapproved")
  /\ UNCHANGED <<iter, conv, calls, k, history, verdict, envVars, approver, status>>

\* The tool runs, in the registry or, for a shell command in sandbox mode, in
\* the container.
RunTool ==
  /\ pc = "run"
  /\ \/ Refuse("failed")
     \/ \E x \in Outputs :
          /\ outcome' = [result |-> x, error |-> FALSE]
          /\ pc' = IF calls[k] \in GateTools THEN "gate" ELSE "answer"
  /\ UNCHANGED <<iter, conv, calls, k, said, history, verdict, envVars, approver, status>>

\* The wait timed out or expired: the run ends there, the call unanswered.  The
\* approver that stands in when none is configured never times out; the stand-in
\* for a missing human requester always expires.
GateLapses ==
  /\ pc = "gate"
  /\ calls[k] \in ApprovalTools => approver
  /\ End(IF calls[k] \in ApprovalTools THEN "approval_timeout" ELSE "request_expired")
  /\ UNCHANGED <<iter, conv, calls, k, said, outcome, history, verdict, envVars, approver>>

\* A human's answer, or an error of the wait, replaces the tool's output; with
\* no id in the output, a non-blocking request or an unknown status, it stands.
GateAnswers ==
  /\ pc = "gate"
  /\ \/ outcome' = [result |-> "reply", error |-> FALSE]
     \/ UNCHANGED outcome
  /\ pc' = "answer"
  /\ UNCHANGED <<iter, conv, calls, k, said, history, verdict, envVars, approver, status>>

\* Where the loop goes with verdict v on the call in hand.
Continue(v) ==
  IF v = "break" THEN End("loop_detected") /\ UNCHANGED <<calls, k, said, outcome>>
  ELSE /\ said' = "nothing" /\ outcome' = NoOutcome
       /\ IF k < Len(calls)
            THEN pc' = "trust" /\ k' = k + 1 /\ UNCHANGED calls
            ELSE pc' = "stop?" /\ k' = 0 /\ calls' = <<>>
       /\ UNCHANGED status

\* Variant: an error result is reported and not appended.
AnswerUnlessError ==
  /\ pc = "answer"
  /\ history' = Append(history, [call |-> calls[k], result |-> outcome.result,
                                 error |-> outcome.error])
  /\ verdict' = Detector!Check(history')
  /\ conv' = IF outcome.error THEN conv ELSE Append(conv, ToolMsg(iter, k))
  /\ Continue(verdict')
  /\ UNCHANGED <<iter, envVars, approver>>

\* Variant: asks the detector before it records.
AnswerCheckedFirst ==
  /\ pc = "answer"
  /\ history' = Append(history, [call |-> calls[k], result |-> outcome.result,
                                 error |-> outcome.error])
  /\ verdict' = Detector!Check(history)
  /\ conv' = Append(conv, ToolMsg(iter, k))
               \o (IF verdict' = "warning" THEN <<User>> ELSE <<>>)
  /\ Continue(verdict')
  /\ UNCHANGED <<iter, envVars, approver>>

\* Variant: a failed call is tried again before it is recorded.
AnswerRetrying ==
  /\ pc = "answer"
  /\ IF outcome.result = "failed"
       THEN /\ pc' = "trust" /\ said' = "nothing" /\ outcome' = NoOutcome
            /\ UNCHANGED <<conv, calls, k, history, verdict, status>>
       ELSE /\ history' = Append(history, [call |-> calls[k], result |-> outcome.result,
                                           error |-> outcome.error])
            /\ verdict' = Detector!Check(history')
            /\ conv' = Append(conv, ToolMsg(iter, k))
            /\ Continue(verdict')
  /\ UNCHANGED <<iter, envVars, approver>>

\* The redacted result is appended and recorded, and the detector asked.  A
\* warning goes in right behind the result, before the results still to come.
Answer ==
  /\ pc = "answer"
  /\ history' = Append(history, [call |-> calls[k], result |-> outcome.result,
                                 error |-> outcome.error])
  /\ verdict' = Detector!Check(history')
  /\ conv' = Append(conv, ToolMsg(iter, k))
               \o (IF verdict' = "warning" THEN <<User>> ELSE <<>>)
  /\ Continue(verdict')
  /\ UNCHANGED <<iter, envVars, approver>>

\* cfg.ShouldStop, after the round of calls.
ShouldStop ==
  /\ pc = "stop?"
  /\ \/ End("completed")
     \/ pc' = "top" /\ UNCHANGED status
  /\ UNCHANGED <<iter, conv, calls, k, said, outcome, history, verdict, envVars, approver>>

-----------------------------------------------------------------------------
(* The world around the loop *)

Inject ==
  /\ pc # "done" /\ injected < MaxInjected
  /\ inbox' = inbox + 1 /\ injected' = injected + 1
  /\ UNCHANGED <<loopVars, live, approver>>

CancelContext ==
  /\ pc # "done" /\ live
  /\ live' = FALSE
  /\ UNCHANGED <<loopVars, inbox, injected, approver>>

Step == \/ Iterate \/ Exhaust
        \/ ChatFails \/ ChatAnswers \/ ChatCalls
        \/ Trust \/ Approval \/ RunTool \/ GateLapses \/ GateAnswers \/ Answer
        \/ ShouldStop

Next == Step \/ Inject \/ CancelContext

Spec == Init /\ [][Next]_vars

\* The provider, the tools and the waits for a human return; nothing is assumed
\* of what they return, nor of the producer.
FairSpec == Spec /\ WF_vars(Step)

-----------------------------------------------------------------------------
(* Properties *)

\* The positions of the results in c between the response at p and the next.
ResultsOf(c, p) ==
  {l \in p + 1 .. Len(c) : /\ c[l].role = "tool"
                           /\ \A i \in p + 1 .. l - 1 : c[i].role # "assistant"}

\* They are the results of the first b calls, once each and in order.
AnsweredUpTo(c, p, b) ==
  /\ {c[l] : l \in ResultsOf(c, p)} = {ToolMsg(c[p].turn, j) : j \in 1..b}
  /\ \A l, m \in ResultsOf(c, p) : l < m => c[l].n < c[m].n

\* Whenever the provider is asked, and when a run completes or fails, what comes
\* between a response and the next are the results of all its calls, once each
\* and in their order, and no other call's: a denial, a refusal, a tool's error,
\* a gate and a compaction included.
AnswersInOrder ==
  pc \in {"top", "chat"} \/ status \in {"completed", "failed"} =>
    \A p \in 1..Len(conv) :
      conv[p].role = "assistant" => AnsweredUpTo(conv, p, conv[p].n)

\* A tool runs, and its output is used, only if the last word on that very call
\* was the trust engine's allow or a human's approval: nothing of an earlier
\* call's consent is left over.
RunsOnlyWithConsent ==
  /\ pc \in {"run", "gate"} => said \in {"allow", "approved"}
  /\ pc = "answer" /\ ~outcome.error => said \in {"allow", "approved"}

\* The run ends for the reason it states: a lapse for the gate whose wait
\* lapsed (and an approval only where someone could have given it), a loop for a
\* break, and otherwise with no call left in hand.
EndsForItsCause ==
  pc = "done" =>
    /\ status = "loop_detected" <=> verdict = "break"
    /\ status = "approval_timeout" => approver /\ calls[k] \in ApprovalTools
    /\ status = "request_expired" => calls[k] \in GateTools \ ApprovalTools
    /\ status \in {"approval_timeout", "request_expired"} =>
         ~outcome.error /\ said \in {"allow", "approved"}
    /\ status \in {"completed", "failed"} => calls = <<>>

\* The loop uses the detector as LoopDetector has it: each call is recorded
\* once, with what it came to, and nothing after a break.
DrivesDetector == Detector!Spec

\* Every run ends, whatever the model asks for.
EveryRunEnds == <>(pc = "done")

\* What Compact's comment says it keeps: "the most recent 2 exchanges".  The
\* response of the previous iteration, at the least, is still in front of its
\* results when the provider is asked again.
KeepsLatestExchange ==
  pc = "chat" /\ iter > 1 =>
    \E i \in 1..Len(conv) : conv[i].role = "assistant" /\ conv[i].turn = iter - 1
=============================================================================
