----------------------------- MODULE SubAgents -----------------------------
(***************************************************************************)
(* Sub-agents (orchestrator/sub_agent.go and the tools over it): agents    *)
(* spawn ephemeral children, wait for their tasks, and cancel them when    *)
(* they end.  Everybody meets in two tables; a call is several statements, *)
(* each atomic, and any of them may fail.                                  *)
(*                                                                         *)
(* An agent may have several runs at once, one for each task it was given: *)
(* nothing keeps them apart.  A child has one.                             *)
(***************************************************************************)
EXTENDS Integers, FiniteSets

CONSTANTS
  Parents,   \* agents of the configuration
  Runs,      \* executions of parents
  Of,        \* whose execution a run is
  Kids,      \* ids to come: one is used for an agent and for its task
  Workers,   \* bound: the children whose task is picked up
  MaxAsked,  \* bound: tasks one wait is for
  Max,       \* maxPerParent
  NoParent, NoRun

ASSUME SubAgentsAssumption ==
  /\ Of \in [Runs -> Parents]
  /\ Parents \cap Kids = {} /\ Runs \cap Kids = {}
  /\ IsFiniteSet(Kids) /\ IsFiniteSet(Runs) /\ Workers \subseteq Kids
  /\ Max \in Nat \ {0} /\ MaxAsked \in Nat
  /\ NoParent \notin Parents \cup Kids /\ NoRun \notin Runs \cup Kids

VARIABLES
  agent,   \* table agents: the ephemeral rows
  task,    \* table tasks: theirs
  run,     \* the calls in progress
  author   \* which run inserted a row (not in the code)

vars == <<agent, task, run, author>>

Actors   == Runs \cup Workers
Agents   == Parents \cup Kids
Owner(r) == IF r \in Runs THEN Of[r] ELSE r

\* vetted (not in the code): the depth of the parent was known when it spawned.
NoAgent == [parent |-> NoParent, status |-> "none", vetted |-> TRUE]
Idle    == [pc |-> "loop", kid |-> NoRun, asked |-> {}, vetted |-> TRUE]

Ephemeral == {c \in Kids : agent[c].status # "none"}
Children(p) == {c \in Kids : agent[c].parent = p}
Busy(p) == {c \in Children(p) : agent[c].status = "busy"}

\* CountActive.  Nobody sets the status of a child to completed or failed.
Active(p) == {c \in Children(p) : agent[c].status \notin {"completed", "failed", "idle"}}

TypeOK ==
  /\ agent \in [Kids -> [parent : Agents \cup {NoParent}, vetted : BOOLEAN,
                         status : {"none", "busy", "idle", "active"}]]
  /\ task \in [Kids -> {"none", "pending", "in_progress", "completed", "cancelled"}]
  /\ run \in [Actors -> [pc : {"off", "loop", "depth", "agent", "task", "poll",
                               "cancel", "release", "released", "over"},
                         kid : Kids \cup {NoRun}, asked : SUBSET Kids, vetted : BOOLEAN]]
  /\ author \in [Kids -> Actors \cup {NoRun}]

Init ==
  /\ agent = [c \in Kids |-> NoAgent]
  /\ task = [c \in Kids |-> "none"]
  /\ run = [r \in Actors |-> IF r \in Runs THEN Idle ELSE [Idle EXCEPT !.pc = "off"]]
  /\ author = [c \in Kids |-> NoRun]

Goto(r, pc) == run' = [run EXCEPT ![r].pc = pc]
Back(r)     == run' = [run EXCEPT ![r] = Idle]

-----------------------------------------------------------------------------
(* Spawn: four statements.  One that fails returns its error to the loop. *)

\* Variant: one more than the maximum.
CountLate(r) ==
  /\ run[r].pc = "loop"
  /\ Cardinality(Active(Owner(r))) <= Max
  /\ Goto(r, "depth")
  /\ UNCHANGED <<agent, task, author>>

Count(r) ==
  /\ run[r].pc = "loop"
  /\ Cardinality(Active(Owner(r))) < Max
  /\ Goto(r, "depth")
  /\ UNCHANGED <<agent, task, author>>

\* Variant: looks for the caller among the parents of others.
DepthOfParents(r) ==
  /\ run[r].pc = "depth"
  /\ \/ Children(Owner(r)) = {} /\ run' = [run EXCEPT ![r].pc = "agent", ![r].vetted = TRUE]
     \/ Children(Owner(r)) # {} /\ Back(r)
     \/ run' = [run EXCEPT ![r].pc = "agent", ![r].vetted = FALSE]
  /\ UNCHANGED <<agent, task, author>>

\* An ephemeral agent is refused.  When the query fails, nobody is.
Depth(r) ==
  /\ run[r].pc = "depth"
  /\ \/ /\ Owner(r) \notin Ephemeral
        /\ run' = [run EXCEPT ![r].pc = "agent", ![r].vetted = TRUE]
     \/ /\ Owner(r) \in Ephemeral
        /\ Back(r)
     \/ run' = [run EXCEPT ![r].pc = "agent", ![r].vetted = FALSE]
  /\ UNCHANGED <<agent, task, author>>

InsertAgent(r) ==
  /\ run[r].pc = "agent"
  /\ \/ \E c \in Kids \ Ephemeral :
          /\ agent' = [agent EXCEPT ![c] = [parent |-> Owner(r), status |-> "busy",
                                            vetted |-> run[r].vetted]]
          /\ author' = [author EXCEPT ![c] = r]
          /\ run' = [run EXCEPT ![r].pc = "task", ![r].kid = c]
     \/ Back(r) /\ UNCHANGED <<agent, author>>
  /\ UNCHANGED task

\* When it fails, the agent stays, busy, and without a task.
InsertTask(r) ==
  /\ run[r].pc = "task"
  /\ \/ task' = [task EXCEPT ![run[r].kid] = "pending"]
     \/ UNCHANGED task
  /\ Back(r)
  /\ UNCHANGED <<agent, author>>

-----------------------------------------------------------------------------
(* WaitTasks *)

\* "completed" stands for "failed" too: both are final, and nobody tells them
\* apart.
Final == {"completed", "cancelled"}

\* For tasks the run has spawned: no other id was told to it.
Wait(r) ==
  /\ run[r].pc = "loop"
  /\ \E ids \in SUBSET {c \in Kids : author[c] = r /\ task[c] # "none"} \ {{}} :
       /\ Cardinality(ids) <= MaxAsked
       /\ run' = [run EXCEPT ![r].pc = "poll", ![r].asked = ids]
  /\ UNCHANGED <<agent, task, author>>

\* CheckTask finds one that is final.  A query that fails answers for its task
\* too, and a task that is not final is looked at again.
Poll(r) ==
  /\ run[r].pc = "poll"
  /\ \E c \in run[r].asked :
       \E failed \in BOOLEAN :
         /\ task[c] \in Final \/ failed
         /\ run' = [run EXCEPT ![r].asked = @ \ {c}]
  /\ UNCHANGED <<agent, task, author>>

\* All are answered, the deadline has passed, or the context is cancelled.
EndWait(r) ==
  /\ run[r].pc = "poll"
  /\ Back(r)
  /\ UNCHANGED <<agent, task, author>>

-----------------------------------------------------------------------------
(* CancelChildren, at the end of a run, and the ways to end without it *)

Finish(r) ==
  /\ run[r].pc = "loop"
  /\ Goto(r, "cancel")
  /\ UNCHANGED <<agent, task, author>>

\* A provider error, a lapsed gate or a loop verdict: nobody is cancelled.
Abort(r) ==
  /\ run[r].pc = "loop"
  /\ Goto(r, "over")
  /\ UNCHANGED <<agent, task, author>>

CancelTasks(r) ==
  /\ run[r].pc = "cancel"
  /\ \/ /\ task' = [c \in Kids |->
                      IF c \in Children(Owner(r)) /\ task[c] \in {"pending", "in_progress"}
                        THEN "cancelled" ELSE task[c]]
        /\ Goto(r, "release")
     \/ Goto(r, "over") /\ UNCHANGED task
  /\ UNCHANGED <<agent, author>>

\* Variant: by way of the tasks.
CancelAgentsOfTasks(r) ==
  /\ run[r].pc = "release"
  /\ agent' = [c \in Kids |-> IF c \in Children(Owner(r)) /\ task[c] # "none"
                                THEN [agent[c] EXCEPT !.status = "idle"] ELSE agent[c]]
  /\ Goto(r, "released")
  /\ UNCHANGED <<task, author>>

CancelAgents(r) ==
  /\ run[r].pc = "release"
  /\ \/ /\ agent' = [c \in Kids |-> IF c \in Children(Owner(r))
                                      THEN [agent[c] EXCEPT !.status = "idle"] ELSE agent[c]]
        /\ Goto(r, "released")
     \/ Goto(r, "over") /\ UNCHANGED agent
  /\ UNCHANGED <<task, author>>

-----------------------------------------------------------------------------
(* The children, and operators *)

\* A run of the child begins once it has a task, and goes on whatever becomes
\* of that.
StartKid(c) ==
  /\ run[c].pc = "off" /\ task[c] = "pending"
  /\ Goto(c, "loop")
  /\ UNCHANGED <<agent, task, author>>

\* task_update: the status is written over whatever stands there.
SetStatus(c) ==
  /\ run[c].pc = "loop"
  /\ \E s \in {"in_progress", "completed"} : task' = [task EXCEPT ![c] = s]
  /\ UNCHANGED <<agent, run, author>>

\* The MCP server's start and stop of any agent, "active" or "stopped": either
\* way it counts, and is not busy.
SetAgent(c) ==
  /\ c \in Ephemeral
  /\ agent' = [agent EXCEPT ![c].status = "active"]
  /\ UNCHANGED <<task, run, author>>

-----------------------------------------------------------------------------

Next ==
  \/ \E r \in Actors :
       \/ Count(r) \/ Depth(r) \/ InsertAgent(r) \/ InsertTask(r)
       \/ Wait(r) \/ Poll(r) \/ EndWait(r)
       \/ Finish(r) \/ Abort(r) \/ CancelTasks(r) \/ CancelAgents(r)
  \/ \E c \in Workers : StartKid(c) \/ SetStatus(c)
  \/ \E c \in Kids : SetAgent(c)

Spec == Init /\ [][Next]_vars

-----------------------------------------------------------------------------
(* Properties *)

\* Several runs of one agent may count before any of them inserts.  What they
\* can exceed the maximum by is their number less one, whatever fails and
\* whoever restarts agents in between.
BusyIsBounded ==
  \A p \in Parents : Cardinality(Busy(p)) <= Max + Cardinality({r \in Runs : Of[r] = p}) - 1

\* A child has no children, unless the database failed when its depth was asked.
NoGrandchildren ==
  \A c \in Kids : agent[c].parent \in Kids => ~agent[c].vetted

\* A run that ended with both statements of CancelChildren leaves none of the
\* agents it spawned busy, those without a task included.
OwnChildrenAreReleased ==
  \A c \in Kids : author[c] # NoRun /\ run[author[c]].pc = "released" =>
    agent[c].status # "busy"

\* CountActive is said to count the "active (non-completed, non-failed)
\* sub-agents": a parent is full only of children that have work to do.
FullOfTheUnfinished ==
  \A p \in Parents :
    /\ Cardinality(Active(p)) >= Max
    /\ \A r \in Runs : Of[r] = p => run[r].pc \notin {"task", "cancel", "release"}
    => Cardinality({c \in Active(p) : task[c] \notin Final}) >= Max
=============================================================================
