--------------------------- MODULE ApprovalsProofs ---------------------------
(***************************************************************************)
(* Proofs about Approvals, for any agents, ids and timeouts.               *)
(*                                                                         *)
(* The inductive invariant is the conjunction of the three invariants the  *)
(* model is checked against.  None of them is inductive alone: an answer   *)
(* stays in its range only because the row an agent polls exists, and an   *)
(* answer agrees with its row only because no second call can answer for   *)
(* the same request.                                                       *)
(***************************************************************************)
EXTENDS Approvals, TLAPS

IInv == TypeOK /\ OneOpenWait /\ DecisionIsRecorded

USE DEF Resolutions, Statuses, Answers, Waiting, NoWait

\* How every step but Create may change the table: rows are neither decided
\* twice nor erased.
RowsSettle ==
  /\ row' \in [Ids -> [status : Statuses, due : Nat]]
  /\ \A id \in Ids : row[id].status \notin {"absent", "pending"}
                     => row'[id].status = row[id].status
  /\ \A id \in Ids : row[id].status # "absent" => row'[id].status # "absent"

\* An UPDATE guarded by status = 'pending' changes one pending row at most.
LEMMA GuardedUpdate ==
  ASSUME TypeOK, NEW id \in Ids, NEW s \in Statuses \ {"absent"}, row' = UpdatePending(id, s)
  PROVE  RowsSettle
<1>1. UpdatePending(id, s) \in [Ids -> [status : Statuses, due : Nat]]
  BY DEF TypeOK, UpdatePending
<1>2. \A i \in Ids : UpdatePending(id, s)[i].status =
                     IF i = id /\ row[i].status = "pending" THEN s ELSE row[i].status
  BY DEF TypeOK, UpdatePending
<1>3. QED
  BY <1>1, <1>2 DEF RowsSettle

\* So does a step that leaves the table alone.
LEMMA NoUpdate ==
  ASSUME TypeOK, UNCHANGED row
  PROVE  RowsSettle
BY DEF TypeOK, RowsSettle

\* A step that leaves the waits alone, keeps decided rows and erases none
\* preserves what the invariant says of waits and answers.
LEMMA TableStep ==
  ASSUME IInv, UNCHANGED <<agent, answer>>, RowsSettle
  PROVE  OneOpenWait' /\ DecisionIsRecorded'
<1>1. OneOpenWait'
  <2>1. \A id \in Ids : row'[id].status = "absent" => answer'[id] = "none"
    BY DEF IInv, OneOpenWait, RowsSettle
  <2>2. \A a \in Agents : agent'[a].pc # "idle" =>
          /\ agent'[a].id \in Ids
          /\ row'[agent'[a].id].status # "absent"
          /\ answer'[agent'[a].id] = "none"
    BY DEF IInv, OneOpenWait, RowsSettle
  <2>3. QED
    BY <2>1, <2>2 DEF IInv, OneOpenWait
<1>2. DecisionIsRecorded'
  BY DEF IInv, TypeOK, DecisionIsRecorded, RowsSettle
<1>3. QED
  BY <1>1, <1>2

\* A step that opens no wait and gives no answer preserves it: an agent that
\* waits afterwards waited for the same request before.
LEMMA WaitStays ==
  ASSUME IInv, UNCHANGED <<row, answer>>,
         \A a \in Agents : agent'[a].pc # "idle" =>
           agent[a].pc # "idle" /\ agent'[a].id = agent[a].id
  PROVE  OneOpenWait' /\ DecisionIsRecorded'
BY DEF IInv, OneOpenWait, DecisionIsRecorded

\* A step that ends agent a's wait with answer x, where x repeats the row if it
\* is a decision, preserves it too.
LEMMA ReturnStep ==
  ASSUME IInv, NEW a \in Agents, agent[a].pc # "idle", NEW x \in Answers, Return(a, x),
         x \in Resolutions => row[agent[a].id].status = x,
         RowsSettle
  PROVE  /\ agent' \in [Agents -> [pc : {"idle"} \cup Waiting, id : Ids \cup {"noid"},
                                   deadline : Nat, live : BOOLEAN]]
         /\ answer' \in [Ids -> Answers]
         /\ OneOpenWait'
         /\ DecisionIsRecorded'
<1> USE DEF IInv, TypeOK
<1> DEFINE r == agent[a].id
<1>1. r \in Ids /\ answer[r] = "none"
  BY DEF OneOpenWait
<1>2. /\ agent' = [agent EXCEPT ![a] = NoWait]
      /\ answer' = [answer EXCEPT ![r] = x]
  BY DEF Return
<1>3. \A b \in Agents : b # a /\ agent[b].pc # "idle" => agent[b].id # r
  BY DEF OneOpenWait
<1>4. OneOpenWait'
  <2>1. \A b \in Agents : agent'[b].pc # "idle" => b # a /\ agent'[b] = agent[b]
    BY <1>2
  <2>2. \A id \in Ids : row'[id].status = "absent" => answer'[id] = "none"
    BY <1>1, <1>2 DEF OneOpenWait, RowsSettle
  <2>3. \A b \in Agents : agent'[b].pc # "idle" =>
          /\ agent'[b].id \in Ids
          /\ row'[agent'[b].id].status # "absent"
          /\ answer'[agent'[b].id] = "none"
    BY <1>1, <1>2, <1>3, <2>1 DEF OneOpenWait, RowsSettle
  <2>4. QED
    BY <2>1, <2>2, <2>3 DEF OneOpenWait
<1>5. DecisionIsRecorded'
  BY <1>1, <1>2 DEF DecisionIsRecorded, RowsSettle
<1>6. QED
  BY <1>1, <1>2, <1>4, <1>5

\* The inductive invariant holds of the specification.
THEOREM Inductive == Spec => []IInv
<1>1. Init => IInv
  BY ApprovalsAssumption DEF Init, IInv, TypeOK, OneOpenWait, DecisionIsRecorded
<1>2. IInv /\ [Next]_vars => IInv'
  <2> SUFFICES ASSUME IInv, [Next]_vars
               PROVE  IInv'
    OBVIOUS
  <2> USE ApprovalsAssumption
  <2>1. ASSUME NEW a \in Agents, Create(a)
        PROVE  IInv'
    <3>1. PICK id \in Ids, t \in RowTimeouts :
            /\ row[id].status = "absent"
            /\ row' = [row EXCEPT ![id] = [status |-> "pending", due |-> now + t]]
            /\ agent' = [agent EXCEPT ![a] = [pc |-> "get", id |-> id,
                                              deadline |-> now + WaitTimeout, live |-> TRUE]]
      BY <2>1 DEF Create
    <3>2. UNCHANGED <<now, answer>> /\ agent[a].pc = "idle"
      BY <2>1 DEF Create
    <3>3. now + t \in Nat /\ now + WaitTimeout \in Nat
      BY DEF IInv, TypeOK
    <3>4. TypeOK'
      BY <3>1, <3>2, <3>3 DEF IInv, TypeOK
    <3>5. answer[id] = "none"
      BY <3>1 DEF IInv, OneOpenWait
    <3>6. OneOpenWait'
      <4>1. \A b \in Agents : agent[b].pc # "idle" => agent[b].id # id
        BY <3>1 DEF IInv, OneOpenWait
      <4>2. \A i \in Ids : row'[i].status = "absent" => answer'[i] = "none"
        BY <3>1, <3>2 DEF IInv, TypeOK, OneOpenWait
      <4>3. \A b \in Agents : agent'[b].pc # "idle" =>
              /\ agent'[b].id \in Ids
              /\ row'[agent'[b].id].status # "absent"
              /\ answer'[agent'[b].id] = "none"
        BY <3>1, <3>2, <3>5 DEF IInv, TypeOK, OneOpenWait
      <4>4. \A b, c \in Agents :
              (agent'[b].pc # "idle" /\ agent'[c].pc # "idle" /\ agent'[b].id = agent'[c].id)
                => b = c
        BY <3>1, <4>1 DEF IInv, TypeOK, OneOpenWait
      <4>5. QED
        BY <4>2, <4>3, <4>4 DEF OneOpenWait
    <3>7. DecisionIsRecorded'
      BY <3>1, <3>2, <3>5 DEF IInv, TypeOK, DecisionIsRecorded
    <3>8. QED
      BY <3>4, <3>6, <3>7 DEF IInv
  <2>2. ASSUME NEW a \in Agents, WaitStep(a)
        PROVE  IInv'
    <3> USE DEF IInv, TypeOK
    <3>1. CASE Poll(a)
      <4> DEFINE r == agent[a].id
      <4>1. r \in Ids /\ row[r].status # "absent" /\ UNCHANGED <<now, row>>
        BY <3>1 DEF Poll, OneOpenWait
      <4>2. CASE row[r].status # "pending"
        <5>1. row[r].status \in Answers /\ Return(a, row[r].status) /\ agent[a].pc # "idle"
          BY <3>1, <4>1, <4>2 DEF Poll
        <5>2. QED
          BY <4>1, <5>1, NoUpdate, ReturnStep
      <4>3. CASE row[r].status = "pending"
        <5>1. agent' = [agent EXCEPT ![a].pc = "check"] /\ UNCHANGED answer
          BY <3>1, <4>3 DEF Poll
        <5>2. agent[a].pc # "idle"
          BY <3>1 DEF Poll
        <5>3. QED
          BY <4>1, <5>1, <5>2, WaitStays
      <4>4. QED
        BY <4>2, <4>3
    <3>2. CASE PollFails(a) \/ WakeCancelled(a)
      <4>1. /\ Return(a, "error") /\ agent[a].pc # "idle"
            /\ UNCHANGED <<now, row>>
        BY <3>2 DEF PollFails, WakeCancelled
      <4>2. QED
        BY <4>1, NoUpdate, ReturnStep
    <3>3. CASE Expire(a)
      <4> DEFINE r == agent[a].id
      <4>1. r \in Ids /\ row[r].status # "absent"
        BY <3>3 DEF Expire, OneOpenWait
      <4>2. /\ row' = UpdatePending(r, "timeout") \/ row' = row
            /\ Return(a, "timeout") /\ agent[a].pc # "idle"
            /\ UNCHANGED now
        BY <3>3 DEF Expire
      <4>3. RowsSettle
        BY <4>1, <4>2, GuardedUpdate, NoUpdate
      <4>4. row' \in [Ids -> [status : Statuses, due : Nat]]
        BY <4>3 DEF RowsSettle
      <4>5. QED
        BY <4>2, <4>3, <4>4, ReturnStep
    <3>4. CASE Sleep(a) \/ Wake(a)
      <4>1. PICK p \in Waiting : agent' = [agent EXCEPT ![a].pc = p]
        BY <3>4 DEF Sleep, Wake
      <4>2. agent[a].pc # "idle" /\ UNCHANGED <<now, row, answer>>
        BY <3>4 DEF Sleep, Wake
      <4>3. QED
        BY <4>1, <4>2, WaitStays
    <3>5. QED
      BY <2>2, <3>1, <3>2, <3>3, <3>4 DEF WaitStep
  <2>3. ASSUME NEW a \in Agents, CancelContext(a)
        PROVE  IInv'
    <3>1. /\ agent' = [agent EXCEPT ![a].live = FALSE]
          /\ agent[a].pc # "idle"
          /\ UNCHANGED <<now, row, answer>>
      BY <2>3 DEF CancelContext
    <3>2. TypeOK'
      BY <3>1 DEF IInv, TypeOK
    <3>3. \A b \in Agents : agent'[b].pc # "idle" =>
            agent[b].pc # "idle" /\ agent'[b].id = agent[b].id
      BY <3>1 DEF IInv, TypeOK
    <3>4. QED
      BY <3>1, <3>2, <3>3, WaitStays DEF IInv
  <2>4. ASSUME NEW id \in Ids, Approve(id) \/ Reject(id)
        PROVE  IInv'
    <3>1. PICK s \in Resolutions :
            /\ row' = UpdatePending(id, s)
            /\ UNCHANGED <<now, agent, answer>>
      BY <2>4 DEF Approve, Reject
    <3>2. RowsSettle
      BY <3>1, GuardedUpdate DEF IInv
    <3>3. TypeOK'
      BY <3>1, <3>2 DEF IInv, TypeOK, RowsSettle
    <3>4. QED
      BY <3>1, <3>2, <3>3, TableStep DEF IInv
  <2>5. CASE CheckTimeout
    <3>1. RowsSettle
      BY <2>5 DEF CheckTimeout, Overdue, RowsSettle, IInv, TypeOK
    <3>2. TypeOK' /\ UNCHANGED <<agent, answer>>
      BY <2>5, <3>1 DEF CheckTimeout, IInv, TypeOK, RowsSettle
    <3>3. QED
      BY <3>1, <3>2, TableStep DEF IInv
  <2>6. CASE Tick
    BY <2>6 DEF Tick, IInv, TypeOK, OneOpenWait, DecisionIsRecorded
  <2>7. CASE Restart
    BY <2>7 DEF Restart, IInv, TypeOK, OneOpenWait, DecisionIsRecorded
  <2>8. CASE UNCHANGED vars
    BY <2>8 DEF vars, IInv, TypeOK, OneOpenWait, DecisionIsRecorded
  <2>9. QED
    BY <2>1, <2>2, <2>3, <2>4, <2>5, <2>6, <2>7, <2>8 DEF Next
<1>3. QED
  BY <1>1, <1>2, PTL DEF Spec

\* Every variable stays in its range: no call leaves a row, a wait or an
\* answer in a state the Go types cannot name.
THEOREM TypeCorrect == Spec => []TypeOK
<1>1. IInv => TypeOK
  BY DEF IInv
<1>2. QED
  BY <1>1, Inductive, PTL

\* No execution waits for a request another one waits for, and none is told
\* about the same request twice.
THEOREM WaitsAreOwn == Spec => []OneOpenWait
<1>1. IInv => OneOpenWait
  BY DEF IInv
<1>2. QED
  BY <1>1, Inductive, PTL

\* A loop that goes on because WaitForResolution said "approved" (or stops
\* short because it said "rejected") has the table on its side for ever.
THEOREM DecisionsAreRecorded == Spec => []DecisionIsRecorded
<1>1. IInv => DecisionIsRecorded
  BY DEF IInv
<1>2. QED
  BY <1>1, Inductive, PTL

-----------------------------------------------------------------------------
(* Action properties *)

\* What a step does to the table: a decided row keeps its status, and a
\* pending one lapses only when someone's time is up.
RowStep(id) ==
  /\ row[id].status \notin {"absent", "pending"} => row'[id].status = row[id].status
  /\ row[id].status = "pending" /\ row'[id].status = "timeout" =>
       \/ now > row[id].due
       \/ \E a \in Agents :
            agent[a].pc # "idle" /\ agent[a].id = id /\ now > agent[a].deadline

\* Every step treats every row so.
LEMMA RowSteps ==
  ASSUME IInv, [Next]_vars, NEW id \in Ids
  PROVE  RowStep(id)
<1> USE DEF IInv, TypeOK
<1>1. ASSUME NEW a \in Agents, Create(a)
      PROVE  RowStep(id)
  BY <1>1 DEF Create, RowStep
<1>2. ASSUME NEW a \in Agents, Expire(a)
      PROVE  RowStep(id)
  <2>1. /\ agent[a].pc # "idle" /\ agent[a].id \in Ids /\ now > agent[a].deadline
        /\ row' = UpdatePending(agent[a].id, "timeout") \/ row' = row
    BY <1>2 DEF Expire, OneOpenWait
  <2>2. row'[id].status = row[id].status
        \/ (id = agent[a].id /\ row[id].status = "pending")
    BY <2>1 DEF UpdatePending
  <2>3. QED
    BY <2>1, <2>2 DEF RowStep
<1>3. ASSUME NEW i \in Ids, Approve(i) \/ Reject(i)
      PROVE  RowStep(id)
  BY <1>3 DEF Approve, Reject, UpdatePending, RowStep
<1>4. CASE CheckTimeout
  BY <1>4 DEF CheckTimeout, Overdue, RowStep
<1>5. CASE UNCHANGED row
  BY <1>5 DEF RowStep
<1>6. QED
  BY <1>1, <1>2, <1>3, <1>4, <1>5
     DEF Next, WaitStep, Poll, PollFails, Sleep, Wake, WakeCancelled, CancelContext,
         Tick, Restart, vars

\* What is decided stays decided, against late clicks, late sweeps and waiters
\* past their deadline.
THEOREM ResolutionsAreFinal == Spec => ResolutionIsFinal
<1>1. IInv /\ [Next]_vars =>
        [\A id \in Ids : row[id].status \notin {"absent", "pending"}
                         => row'[id].status = row[id].status]_vars
  BY RowSteps DEF RowStep
<1>2. QED
  BY <1>1, Inductive, PTL DEF Spec, ResolutionIsFinal

\* A reviewer who is within both timeouts is never overtaken by one.
THEOREM NoEarlyLapse == Spec => NeverLapsesEarly
<1>1. IInv /\ [Next]_vars =>
        [\A id \in Ids : row[id].status = "pending" /\ row'[id].status = "timeout" =>
           \/ now > row[id].due
           \/ \E a \in Agents :
                agent[a].pc # "idle" /\ agent[a].id = id /\ now > agent[a].deadline]_vars
  BY RowSteps DEF RowStep
<1>2. QED
  BY <1>1, Inductive, PTL DEF Spec, NeverLapsesEarly

-----------------------------------------------------------------------------
(* Refinement *)

\* The gate's status of each request.
status == [id \in Ids |-> row[id].status]

\* A table whose row of one id changes its status changes the gate's status of
\* that id.
LEMMA StatusOfUpdate ==
  ASSUME TypeOK, NEW id \in Ids, NEW s \in Statuses, row[id].status = "pending",
         row' = UpdatePending(id, s)
  PROVE  status' = [status EXCEPT ![id] = s]
BY DEF TypeOK, status, UpdatePending

\* An agent that is answered without a decision, and a sweep, are steps of the
\* gate.
LEMMA GiveUpIsAStep ==
  ASSUME NEW id \in Ids, Gate!GiveUp(id)
  PROVE  Gate!Next
BY DEF Gate!Next

LEMMA SweepIsAStep ==
  ASSUME NEW S \in SUBSET Ids, Gate!Lapse(S), UNCHANGED answer
  PROVE  Gate!Next
BY DEF Gate!Next, Gate!Sweep

\* The approval gate implements the one-shot decision gate: every statement
\* against the table is a step of it or changes nothing it can see.
THEOREM Refinement == Spec => ImplementsGate
<1> USE DEF status, Gate!Pending, Gate!Absent, Gate!NoAnswer
<1>1. Init => Gate!Init
  BY DEF Init, Gate!Init
<1>2. IInv /\ [Next]_vars => [Gate!Next]_(Gate!vars)
  <2> SUFFICES ASSUME IInv, [Next]_vars
               PROVE  [Gate!Next]_(Gate!vars)
    OBVIOUS
  <2> USE DEF IInv, TypeOK, Gate!Next, Gate!vars
  <2>1. ASSUME NEW a \in Agents, Create(a)
        PROVE  [Gate!Next]_(Gate!vars)
    <3>1. PICK id \in Ids, t \in RowTimeouts :
            /\ row[id].status = "absent"
            /\ row' = [row EXCEPT ![id] = [status |-> "pending", due |-> now + t]]
      BY <2>1 DEF Create
    <3>2. status[id] = "absent" /\ status' = [status EXCEPT ![id] = "pending"]
      BY <3>1
    <3>3. Gate!Open(id)
      BY <2>1, <3>2 DEF Create, Gate!Open
    <3>4. QED
      BY <3>3
  <2>2. ASSUME NEW a \in Agents, Poll(a)
        PROVE  [Gate!Next]_(Gate!vars)
    <3>1. PICK r \in Ids :
          /\ r = agent[a].id /\ row[r].status # "absent" /\ answer[r] = "none"
          /\ UNCHANGED row
      BY <2>2 DEF Poll, OneOpenWait
    <3>2. CASE row[r].status = "pending"
      BY <2>2, <3>1, <3>2 DEF Poll
    <3>3. CASE row[r].status # "pending"
      <4>1. answer' = [answer EXCEPT ![r] = row[r].status]
        BY <2>2, <3>1, <3>3 DEF Poll, Return
      <4>2. Gate!Report(r)
        BY <3>1, <3>3, <4>1 DEF Gate!Report
      <4>3. QED
        BY <3>1, <4>2
    <3>4. QED
      BY <3>2, <3>3
  <2>3. ASSUME NEW a \in Agents, PollFails(a) \/ WakeCancelled(a)
        PROVE  [Gate!Next]_(Gate!vars)
    <3>1. PICK r \in Ids :
          /\ r = agent[a].id /\ row[r].status # "absent" /\ answer[r] = "none"
          /\ UNCHANGED row /\ answer' = [answer EXCEPT ![r] = "error"]
      BY <2>3 DEF PollFails, WakeCancelled, OneOpenWait, Return
    <3>2. Gate!GiveUp(r)
      BY <3>1 DEF Gate!GiveUp
    <3>3. QED
      BY <3>1, <3>2, GiveUpIsAStep
  <2>4. ASSUME NEW a \in Agents, Expire(a)
        PROVE  [Gate!Next]_(Gate!vars)
    <3>1. PICK r \in Ids :
          /\ r = agent[a].id /\ row[r].status # "absent" /\ answer[r] = "none"
          /\ answer' = [answer EXCEPT ![r] = "timeout"]
          /\ row' = UpdatePending(r, "timeout") \/ row' = row
      BY <2>4 DEF Expire, OneOpenWait, Return
    <3>2. CASE UNCHANGED row
      <4>1. Gate!GiveUp(r)
        BY <3>1, <3>2 DEF Gate!GiveUp
      <4>2. QED
        BY <3>1, <4>1, GiveUpIsAStep
    <3>3. CASE row' # row
      <4>1. row[r].status = "pending" /\ row' = UpdatePending(r, "timeout")
        BY <3>1, <3>3 DEF UpdatePending
      <4>2. status' = [status EXCEPT ![r] = "timeout"]
        BY <4>1, StatusOfUpdate
      <4>3. Gate!Lapse({r})
        BY <3>1, <4>1, <4>2 DEF Gate!Lapse
      <4>4. Gate!GiveUp(r)
        BY <3>1, <4>3 DEF Gate!GiveUp
      <4>5. QED
        BY <3>1, <4>4, GiveUpIsAStep
    <3>4. QED
      BY <3>2, <3>3
  <2>5. ASSUME NEW id \in Ids, Approve(id) \/ Reject(id)
        PROVE  [Gate!Next]_(Gate!vars)
    <3>1. PICK s \in Resolutions : row' = UpdatePending(id, s) /\ UNCHANGED answer
      BY <2>5 DEF Approve, Reject
    <3>2. CASE row[id].status = "pending"
      <4>1. status' = [status EXCEPT ![id] = s]
        BY <3>1, <3>2, StatusOfUpdate
      <4>2. Gate!Decide(id, s)
        BY <3>1, <3>2, <4>1 DEF Gate!Decide
      <4>3. QED
        BY <4>2
    <3>3. CASE row[id].status # "pending"
      BY <3>1, <3>3 DEF UpdatePending
    <3>4. QED
      BY <3>2, <3>3
  <2>6. CASE CheckTimeout
    <3>0. PICK S \in SUBSET Ids : S = {id \in Ids : Overdue(id)}
      OBVIOUS
    <3>1. \A id \in S : status[id] = "pending"
      BY <3>0 DEF Overdue
    <3>2. status' = [id \in Ids |-> IF id \in S THEN "timeout" ELSE status[id]]
      BY <2>6, <3>0 DEF CheckTimeout
    <3>3. Gate!Lapse(S) /\ UNCHANGED answer
      BY <2>6, <3>1, <3>2 DEF CheckTimeout, Gate!Lapse
    <3>4. QED
      BY <3>3, SweepIsAStep
  <2>7. CASE UNCHANGED <<row, answer>>
    BY <2>7
  <2>8. QED
    BY <2>1, <2>2, <2>3, <2>4, <2>5, <2>6, <2>7
       DEF Next, WaitStep, Sleep, Wake, CancelContext, Tick, Restart, vars
<1>3. QED
  BY <1>1, <1>2, Inductive, PTL DEF Spec, ImplementsGate, Gate!Spec
=============================================================================
