------------------------------ MODULE Approvals ------------------------------
(***************************************************************************)
(* The approval gate (orchestrator/approval.go) as its actors use it: the  *)
(* agent loop that runs the request_approval tool and then blocks in       *)
(* WaitForResolution, the reviewers behind POST /api/approvals/:id/approve *)
(* and /reject, and the CheckTimeout sweep.  They meet only in the         *)
(* "approvals" table; each SQL statement is one step, and everything       *)
(* between two statements of one call may interleave with the others.      *)
(*                                                                         *)
(* A process restart loses the waiting agents and keeps the table.         *)
(***************************************************************************)
EXTENDS Naturals

CONSTANTS
  Agents,       \* agent executions that may be in flight at once
  Ids,          \* approval ids (uuids) that may be drawn
  RowTimeouts,  \* values of timeout_minutes, in clock ticks
  WaitTimeout,  \* the step's approvalTimeout, in clock ticks
  Horizon       \* bound: the clock stops here

ASSUME ApprovalsAssumption ==
  /\ RowTimeouts \subseteq Nat
  /\ WaitTimeout \in Nat
  /\ Horizon \in Nat
  /\ "noid" \notin Ids

VARIABLES
  now,        \* the wall clock
  row,        \* the approvals table
  agent,      \* each agent's WaitForResolution call
  answer      \* what the agent that asked for an approval was told

vars == <<now, row, agent, answer>>

Resolutions == {"approved", "rejected"}
Statuses    == {"absent", "pending", "timeout"} \cup Resolutions
Answers     == {"none", "timeout", "error"} \cup Resolutions

\* Where a call is: about to Get; holding a row it saw pending; asleep in the
\* select.  An agent outside the gate is "idle".
Waiting == {"get", "check", "sleep"}

NoWait == [pc |-> "idle", id |-> "noid", deadline |-> 0, live |-> TRUE]

TypeOK ==
  /\ now \in Nat
  /\ row \in [Ids -> [status : Statuses, due : Nat]]
  /\ agent \in [Agents -> [pc : {"idle"} \cup Waiting, id : Ids \cup {"noid"},
                           deadline : Nat, live : BOOLEAN]]
  /\ answer \in [Ids -> Answers]

Init ==
  /\ now = 0
  /\ row = [id \in Ids |-> [status |-> "absent", due |-> 0]]
  /\ agent = [a \in Agents |-> NoWait]
  /\ answer = [id \in Ids |-> "none"]

-----------------------------------------------------------------------------
(* The table's conditional updates: WHERE id = ? AND status = 'pending'.   *)

\* Variant: WHERE id = ? alone.
UpdateAnyStatus(id, s) == [row EXCEPT ![id].status = s]

UpdatePending(id, s) ==
  IF row[id].status = "pending" THEN [row EXCEPT ![id].status = s] ELSE row

\* Variants: a sweep that compares with <=, and one that forgets the status.
OverdueOrDue(id)     == row[id].status = "pending" /\ row[id].due <= now
OverdueAnyStatus(id) == row[id].status # "absent" /\ row[id].due < now

\* datetime(created_at, '+' || timeout_minutes || ' minutes') < datetime('now')
Overdue(id) == row[id].status = "pending" /\ row[id].due < now

-----------------------------------------------------------------------------
(* Agents *)

\* The request_approval tool inserts a pending row under a fresh id, and
\* handleApprovalWait enters WaitForResolution, which fixes its deadline.  The
\* guard keeps every deadline within the clock's bound.
Create(a) ==
  /\ agent[a].pc = "idle"
  /\ now + WaitTimeout < Horizon
  /\ \E id \in Ids, t \in RowTimeouts :
       /\ row[id].status = "absent"
       /\ row' = [row EXCEPT ![id] = [status |-> "pending", due |-> now + t]]
       /\ agent' = [agent EXCEPT ![a] = [pc |-> "get", id |-> id,
                                         deadline |-> now + WaitTimeout, live |-> TRUE]]
  /\ UNCHANGED <<now, answer>>

\* The call returns x to the loop.
Return(a, x) ==
  /\ answer' = [answer EXCEPT ![agent[a].id] = x]
  /\ agent' = [agent EXCEPT ![a] = NoWait]

\* The poll: a resolved row is returned as it is, a pending one is kept and
\* looked at again below.
Poll(a) ==
  /\ agent[a].pc = "get"
  /\ agent[a].live
  /\ LET s == row[agent[a].id].status IN
       IF s # "pending"
         THEN Return(a, s)
         ELSE agent' = [agent EXCEPT ![a].pc = "check"] /\ UNCHANGED answer
  /\ UNCHANGED <<now, row>>

\* Get fails: the context is gone, or the database is.
PollFails(a) ==
  /\ agent[a].pc = "get"
  /\ Return(a, "error")
  /\ UNCHANGED <<now, row>>

\* The row was pending when it was read and the deadline has passed: mark it
\* and report a timeout.  The UPDATE's outcome is ignored, so the answer is
\* the same when it finds the row decided or fails.
Expire(a) ==
  /\ agent[a].pc = "check"
  /\ now > agent[a].deadline
  /\ \/ agent[a].live /\ row' = UpdatePending(agent[a].id, "timeout")
     \/ UNCHANGED row
  /\ Return(a, "timeout")
  /\ UNCHANGED now

\* Before the deadline: wait for the ticker.
Sleep(a) ==
  /\ agent[a].pc = "check"
  /\ now <= agent[a].deadline
  /\ agent' = [agent EXCEPT ![a].pc = "sleep"]
  /\ UNCHANGED <<now, row, answer>>

\* Variant: a ticker that stops at the deadline.
WakeInTime(a) ==
  /\ agent[a].pc = "sleep"
  /\ now <= agent[a].deadline
  /\ agent' = [agent EXCEPT ![a].pc = "get"]
  /\ UNCHANGED <<now, row, answer>>

Wake(a) ==
  /\ agent[a].pc = "sleep"
  /\ agent' = [agent EXCEPT ![a].pc = "get"]
  /\ UNCHANGED <<now, row, answer>>

\* The other arm of the select.
WakeCancelled(a) ==
  /\ agent[a].pc = "sleep"
  /\ ~agent[a].live
  /\ Return(a, "error")
  /\ UNCHANGED <<now, row>>

\* The execution's context is cancelled while it waits.
CancelContext(a) ==
  /\ agent[a].pc \in Waiting
  /\ agent[a].live
  /\ agent' = [agent EXCEPT ![a].live = FALSE]
  /\ UNCHANGED <<now, row, answer>>

-----------------------------------------------------------------------------
(* Reviewers, the sweep, the clock, the process *)

\* A reviewer acts on a request he was shown.  Neither call looks at the number
\* of rows it changed.  (The SSE event both push goes to the dashboards; nothing
\* in the gate reads it.)
Approve(id) ==
  /\ row[id].status # "absent"
  /\ row' = UpdatePending(id, "approved")
  /\ UNCHANGED <<now, agent, answer>>

Reject(id) ==
  /\ row[id].status # "absent"
  /\ row' = UpdatePending(id, "rejected")
  /\ UNCHANGED <<now, agent, answer>>

CheckTimeout ==
  /\ \E id \in Ids : Overdue(id)
  /\ row' = [id \in Ids |-> IF Overdue(id) THEN [row[id] EXCEPT !.status = "timeout"]
                                           ELSE row[id]]
  /\ UNCHANGED <<now, agent, answer>>

Tick ==
  /\ now < Horizon
  /\ now' = now + 1
  /\ UNCHANGED <<row, agent, answer>>

Restart ==
  /\ \E a \in Agents : agent[a].pc # "idle"
  /\ agent' = [a \in Agents |-> NoWait]
  /\ UNCHANGED <<now, row, answer>>

WaitStep(a) == \/ Poll(a) \/ PollFails(a) \/ Expire(a)
               \/ Sleep(a) \/ Wake(a) \/ WakeCancelled(a)

Next == \/ \E a \in Agents : Create(a) \/ WaitStep(a) \/ CancelContext(a)
        \/ \E id \in Ids : Approve(id) \/ Reject(id)
        \/ CheckTimeout
        \/ Tick
        \/ Restart

Spec == Init /\ [][Next]_vars

\* A running goroutine is scheduled and its ticker fires, and time passes.
\* Nothing is assumed of reviewers or of the sweep.
FairSpec == Spec /\ WF_vars(Tick) /\ \A a \in Agents : WF_vars(WaitStep(a))

-----------------------------------------------------------------------------
(* Properties *)

\* A request that was decided, or that lapsed, keeps that status: a late
\* click, a late sweep and a waiter past its deadline all leave it alone.
ResolutionIsFinal ==
  [][\A id \in Ids : row[id].status \notin {"absent", "pending"}
                       => row'[id].status = row[id].status]_vars

\* An agent that was told "approved" or "rejected" was told what the table
\* says, now and for as long as the table is kept.
DecisionIsRecorded ==
  \A id \in Ids : answer[id] \in Resolutions => row[id].status = answer[id]

\* Nobody is told twice about one request, and no two executions wait for the
\* same one: the answer of an open wait is still to come, and a request that
\* was never made has no answer.
OneOpenWait ==
  /\ \A id \in Ids : row[id].status = "absent" => answer[id] = "none"
  /\ \A a \in Agents : agent[a].pc # "idle" =>
       /\ agent[a].id \in Ids
       /\ row[agent[a].id].status # "absent"
       /\ answer[agent[a].id] = "none"
  /\ \A a, b \in Agents :
       (agent[a].pc # "idle" /\ agent[b].pc # "idle" /\ agent[a].id = agent[b].id)
         => a = b

\* A pending request lapses only after its own timeout or after the deadline
\* of the agent that waits for it: a reviewer who is in time is not cut off.
NeverLapsesEarly ==
  [][\A id \in Ids : row[id].status = "pending" /\ row'[id].status = "timeout" =>
        \/ now > row[id].due
        \/ \E a \in Agents :
             agent[a].pc # "idle" /\ agent[a].id = id /\ now > agent[a].deadline]_vars

\* The gate keeps the promises of DecisionGate.
Gate == INSTANCE DecisionGate WITH
          Decisions <- Resolutions, Lapsed <- "timeout", Failed <- "error",
          decision <- [id \in Ids |-> row[id].status], answer <- answer

ImplementsGate == Gate!Spec

\* Every wait ends: the poll cannot outlive its deadline, whatever the
\* reviewers, the sweep and the database do.
EveryWaitEnds == \A a \in Agents : agent[a].pc # "idle" ~> agent[a].pc = "idle"

\* What WaitForResolution's comment says of its answer: the request it returns
\* as timed out is not one that a reviewer approved.
TimeoutMeansUnapproved ==
  \A id \in Ids : answer[id] = "timeout" => row[id].status # "approved"
=============================================================================
