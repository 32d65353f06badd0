---------------------------- MODULE DecisionGate ----------------------------
(***************************************************************************)
(* What a human gate promises, whatever table it is kept in: a request is  *)
(* put to a human, is decided at most once, and the agent that asked is    *)
(* given at most one answer.  An answer that carries a human decision is   *)
(* the decision that was recorded; the only answers that may be given on   *)
(* the gate's own authority are Lapsed (nobody decided in time) and        *)
(* Failed (the wait itself broke).                                         *)
(*                                                                         *)
(* Approvals and HumanRequests each implement this specification.          *)
(***************************************************************************)
CONSTANTS
  Ids,        \* identifiers of the requests
  Decisions,  \* what a human may decide
  Lapsed,     \* the status of a request nobody decided in time
  Failed      \* the answer of a wait that ended with an error

Absent  == "absent"
Pending == "pending"
NoAnswer == "none"

VARIABLES
  decision,   \* the recorded status of each request
  answer      \* what the agent that asked was told

vars == <<decision, answer>>

Statuses == {Absent, Pending, Lapsed} \cup Decisions
Answers  == {NoAnswer, Lapsed, Failed} \cup Decisions

TypeOK == /\ decision \in [Ids -> Statuses]
          /\ answer \in [Ids -> Answers]

Init == /\ decision = [id \in Ids |-> Absent]
        /\ answer = [id \in Ids |-> NoAnswer]

-----------------------------------------------------------------------------

\* A request is put to the humans.
Open(id) == /\ decision[id] = Absent
            /\ decision' = [decision EXCEPT ![id] = Pending]
            /\ UNCHANGED answer

\* A human decides a request that is still pending.
Decide(id, d) == /\ decision[id] = Pending
                 /\ decision' = [decision EXCEPT ![id] = d]
                 /\ UNCHANGED answer

\* Some pending requests lapse; at most one agent is told, and it is told so.
Lapse(S) == /\ \A id \in S : decision[id] = Pending
            /\ decision' = [id \in Ids |-> IF id \in S THEN Lapsed ELSE decision[id]]

Sweep == /\ \E S \in SUBSET Ids : Lapse(S)
         /\ UNCHANGED answer

\* The agent is told what was recorded.
Report(id) == /\ answer[id] = NoAnswer
              /\ decision[id] \in {Lapsed} \cup Decisions
              /\ answer' = [answer EXCEPT ![id] = decision[id]]
              /\ UNCHANGED decision

\* The agent is told that nobody decided, or that the wait broke.
GiveUp(id) == /\ answer[id] = NoAnswer
              /\ decision[id] # Absent
              /\ \/ /\ answer' = [answer EXCEPT ![id] = Lapsed]
                    /\ \/ UNCHANGED decision
                       \/ Lapse({id})
                 \/ /\ answer' = [answer EXCEPT ![id] = Failed]
                    /\ UNCHANGED decision

Next == \/ \E id \in Ids : \/ Open(id)
                           \/ \E d \in Decisions : Decide(id, d)
                           \/ Report(id)
                           \/ GiveUp(id)
        \/ Sweep

Spec == Init /\ [][Next]_vars
=============================================================================
