-------------------------- MODULE SubAgentsProofs --------------------------
(* What is proved of SubAgents, for any agents, runs and maximum.           *)
EXTENDS SubAgents, FiniteSetTheorems, TLAPS

(* A place in hand: a run that has counted and not inserted yet.  Counting  *)
(* takes one, inserting turns it into a busy child, and that is why the     *)
(* runs of an agent exceed the maximum by no more than all of them but one. *)
RunsOf(q)   == {r \in Runs : Of[r] = q}
Reserved(q) == {r \in RunsOf(q) : run[r].pc \in {"depth", "agent"}}

Room == \A q \in Parents :
  Cardinality(Busy(q)) + Cardinality(Reserved(q)) <= Max + Cardinality(RunsOf(q)) - 1

\* The rows come in the order agent, task, run of the child.
Rows ==
  /\ \A r \in Actors : run[r].pc = "task" => run[r].kid \in Ephemeral
  /\ \A c \in Kids : task[c] # "none" => c \in Ephemeral
  /\ \A c \in Workers : run[c].pc # "off" => c \in Ephemeral

\* The depth of a child is never known to be that of a configured agent.
Depths ==
  /\ \A c \in Workers : run[c].pc = "agent" => ~run[c].vetted
  /\ NoGrandchildren

\* Whoever inserted a row did so for the agent it runs.
Authors ==
  /\ \A c \in Kids : author[c] # NoRun => agent[c].parent = Owner(author[c])
  /\ OwnChildrenAreReleased

\* The types of a row of agents and of a run.
Row == [parent : Agents \cup {NoParent}, vetted : BOOLEAN,
        status : {"none", "busy", "idle", "active"}]
Statements == {"off", "loop", "depth", "agent", "task", "poll",
               "cancel", "release", "released", "over"}
Point(pcs) == [pc : pcs, kid : Kids \cup {NoRun}, asked : SUBSET Kids, vetted : BOOLEAN]

Inv == TypeOK /\ Rows /\ Depths /\ Authors /\ Room

-----------------------------------------------------------------------------
USE DEF Row, Statements, Point

LEMMA Sets == /\ Workers \subseteq Kids /\ Parents \cap Kids = {} /\ Runs \cap Kids = {}
              /\ NoRun \notin Actors /\ Max \in Nat \ {0}
              /\ \A r \in Actors : r \in Runs \/ r \in Workers
              /\ \A r \in Runs : r \in Actors /\ Owner(r) = Of[r] /\ Of[r] \in Parents
              /\ \A r \in Workers : r \in Actors /\ Owner(r) = r
              /\ \A r \in Actors : Owner(r) \in Agents
BY SubAgentsAssumption DEF SubAgentsAssumption, Actors, Agents, Owner

LEMMA Finite ==
  ASSUME NEW q
  PROVE  /\ IsFiniteSet(Busy(q)) /\ IsFiniteSet(RunsOf(q)) /\ IsFiniteSet(Reserved(q))
         /\ IsFiniteSet(Busy(q)') /\ IsFiniteSet(Reserved(q)')
         /\ Cardinality(Busy(q)) \in Nat /\ Cardinality(RunsOf(q)) \in Nat
         /\ Cardinality(Reserved(q)) \in Nat
         /\ Cardinality(Busy(q)') \in Nat /\ Cardinality(Reserved(q)') \in Nat
         /\ IsFiniteSet(Active(q)) /\ Cardinality(Active(q)) \in Nat
<1>1. IsFiniteSet(Kids) /\ IsFiniteSet(Runs)
  BY SubAgentsAssumption DEF SubAgentsAssumption
<1>2. /\ Busy(q) \subseteq Kids /\ Busy(q)' \subseteq Kids /\ Active(q) \subseteq Kids
      /\ RunsOf(q) \subseteq Runs /\ Reserved(q) \subseteq Runs /\ Reserved(q)' \subseteq Runs
  BY DEF Busy, Active, Children, RunsOf, Reserved
<1>3. QED
  BY <1>1, <1>2, FS_Subset, FS_CardinalityType

\* Nobody new is busy, and no place was taken: the room is kept.
LEMMA RoomKept ==
  ASSUME Room, \A q \in Parents : Busy(q)' \subseteq Busy(q),
         \A q \in Parents : Reserved(q)' \subseteq Reserved(q)
  PROVE  Room'
<1> SUFFICES ASSUME NEW q \in Parents
             PROVE  Cardinality(Busy(q)') + Cardinality(Reserved(q)')
                      <= Max + Cardinality(RunsOf(q)) - 1
  BY DEF Room, RunsOf
<1>1. Cardinality(Busy(q)') <= Cardinality(Busy(q))
  BY Finite, FS_Subset
<1>2. Cardinality(Reserved(q)') <= Cardinality(Reserved(q))
  BY Finite, FS_Subset
<1>3. Cardinality(Busy(q)) + Cardinality(Reserved(q)) <= Max + Cardinality(RunsOf(q)) - 1
  BY DEF Room
<1> QED
  BY <1>1, <1>2, <1>3, Finite, Sets

LEMMA InitInv == Init => Inv
<1> SUFFICES ASSUME Init PROVE Inv
  OBVIOUS
<1> USE DEF Init, NoAgent, Idle
<1>1. TypeOK
  <2>1. agent \in [Kids -> Row]
    OBVIOUS
  <2>2. \A r \in Actors : run[r] \in [pc : {"off", "loop"}, kid : {NoRun}, asked : {{}},
                                      vetted : BOOLEAN]
    OBVIOUS
  <2>3. run \in [Actors -> [pc : {"off", "loop"}, kid : {NoRun}, asked : {{}},
                            vetted : BOOLEAN]]
    BY <2>2
  <2> QED
    BY <2>1, <2>3 DEF TypeOK
<1>2. Rows
  BY Sets DEF Rows, Ephemeral
<1>3. Depths
  BY Sets, SubAgentsAssumption DEF Depths, NoGrandchildren, SubAgentsAssumption
<1>4. Authors
  BY DEF Authors, OwnChildrenAreReleased
<1>5. Room
  <2> SUFFICES ASSUME NEW q \in Parents
               PROVE  Cardinality(Busy(q)) + Cardinality(Reserved(q))
                        <= Max + Cardinality(RunsOf(q)) - 1
    BY DEF Room
  <2>1. Busy(q) = {} /\ Reserved(q) = {}
    BY Sets DEF Busy, Children, Reserved, RunsOf
  <2>2. Cardinality({}) = 0
    BY FS_EmptySet
  <2>3. Cardinality(RunsOf(q)) \in Nat /\ Max \in Nat \ {0}
    BY Finite, Sets
  <2> HIDE DEF Init
  <2> QED
    BY <2>1, <2>2, <2>3
<1> QED
  BY <1>1, <1>2, <1>3, <1>4, <1>5 DEF Inv

-----------------------------------------------------------------------------
(* Steps that change a control point only.                                  *)

LEMMA CountKeeps ==
  ASSUME Inv, NEW r \in Actors, Count(r)
  PROVE  Inv'
<1>0. TypeOK /\ Rows /\ Depths /\ Authors /\ Room
  BY DEF Inv
<1>1. TypeOK'
  BY <1>0 DEF TypeOK, Count, Goto
<1> USE <1>0, Sets DEF Inv, Count, Goto
<1>2. Rows'
  BY DEF TypeOK, Rows, Ephemeral
<1>3. Depths'
  BY DEF TypeOK, Depths, NoGrandchildren
<1>4. Authors'
  BY DEF TypeOK, Authors, OwnChildrenAreReleased, Owner
<1>5. CASE r \in Workers
  <2>1. \A q \in Parents : Busy(q)' \subseteq Busy(q)
    BY DEF Busy, Children
  <2>2. \A q \in Parents : Reserved(q)' \subseteq Reserved(q)
    BY <1>5 DEF Reserved, RunsOf, TypeOK
  <2> QED
    BY <1>1, <1>2, <1>3, <1>4, <2>1, <2>2, RoomKept
<1>6. CASE r \in Runs
  <2> SUFFICES ASSUME NEW q \in Parents
               PROVE  Cardinality(Busy(q)') + Cardinality(Reserved(q)')
                        <= Max + Cardinality(RunsOf(q)) - 1
    BY <1>1, <1>2, <1>3, <1>4 DEF Room, RunsOf
  <2>1. Busy(q)' = Busy(q)
    BY DEF Busy, Children
  <2>2. CASE q = Owner(r)
    <3>1. Busy(q) \subseteq Active(q)
      BY DEF Busy, Active
    <3>2. Cardinality(Busy(q)) <= Cardinality(Active(q)) /\ Cardinality(Active(q)) < Max
      BY <3>1, <2>2, Finite, FS_Subset
    <3>3. Reserved(q)' \subseteq RunsOf(q)
      BY DEF Reserved, RunsOf
    <3>4. Cardinality(Reserved(q)') <= Cardinality(RunsOf(q))
      BY <3>3, Finite, FS_Subset
    <3> QED
      BY <2>1, <3>2, <3>4, Finite
  <2>3. CASE q # Owner(r)
    <3>1. Reserved(q)' = Reserved(q)
      BY <2>3, <1>6 DEF Reserved, RunsOf, TypeOK
    <3> QED
      BY <2>1, <3>1 DEF Room
  <2> QED
    BY <2>2, <2>3
<1> QED
  BY <1>5, <1>6

LEMMA DepthKeeps ==
  ASSUME Inv, NEW r \in Actors, Depth(r)
  PROVE  Inv'
<1>0. TypeOK /\ Rows /\ Depths /\ Authors /\ Room
  BY DEF Inv
<1>a. UNCHANGED <<agent, task, author>> /\ run[r].pc = "depth"
  BY DEF Depth
<1>b. PICK v \in Point({"loop", "agent"}) :
        /\ run' = [run EXCEPT ![r] = v]
        /\ v.pc = "agent" /\ v.vetted => Owner(r) \notin Ephemeral
  <2>1. CASE Back(r)
    <3>1. Idle \in Point({"loop", "agent"})
      BY DEF Idle
    <3> QED
      BY <2>1, <3>1 DEF Back, Idle
  <2>2. ASSUME NEW known \in BOOLEAN, known => Owner(r) \notin Ephemeral,
               run' = [run EXCEPT ![r].pc = "agent", ![r].vetted = known]
        PROVE  \E v \in Point({"loop", "agent"}) :
                 /\ run' = [run EXCEPT ![r] = v]
                 /\ v.pc = "agent" /\ v.vetted => Owner(r) \notin Ephemeral
    <3> DEFINE v == [run[r] EXCEPT !.pc = "agent", !.vetted = known]
    <3>1. v \in Point({"loop", "agent"})
      BY <1>0 DEF TypeOK
    <3>2. run' = [run EXCEPT ![r] = v]
      BY <1>0, <2>2 DEF TypeOK
    <3>3. v.vetted = known
      BY <1>0 DEF TypeOK
    <3> HIDE DEF v
    <3> QED
      BY <2>2, <3>1, <3>2, <3>3
  <2> QED
    BY <2>1, <2>2 DEF Depth
<1>1. TypeOK'
  BY <1>0, <1>a, <1>b DEF TypeOK
<1>2. Rows'
  BY <1>0, <1>a, <1>b DEF TypeOK, Rows, Ephemeral
<1>3. Depths'
  BY <1>0, <1>a, <1>b, Sets DEF TypeOK, Rows, Depths, NoGrandchildren, Ephemeral
<1>4. Authors'
  BY <1>0, <1>a, <1>b, Sets DEF TypeOK, Authors, OwnChildrenAreReleased, Owner
<1>5. \A q \in Parents : Busy(q)' \subseteq Busy(q)
  BY <1>a DEF Busy, Children
<1>6. \A q \in Parents : Reserved(q)' \subseteq Reserved(q)
  BY <1>0, <1>a, <1>b, Sets DEF Reserved, RunsOf, TypeOK
<1> QED
  BY <1>0, <1>1, <1>2, <1>3, <1>4, <1>5, <1>6, RoomKept DEF Inv

\* Waiting, and ending: only the control point of one run moves, and nobody is
\* released by it.
LEMMA MovesKeep ==
  ASSUME Inv, NEW r \in Actors,
         Wait(r) \/ Poll(r) \/ EndWait(r) \/ Finish(r) \/ Abort(r)
  PROVE  Inv'
<1>0. TypeOK /\ Rows /\ Depths /\ Authors /\ Room
  BY DEF Inv
<1> USE DEF Wait, Poll, EndWait, Finish, Abort, Goto, Back, Idle
<1>a. UNCHANGED <<agent, task, author>>
  OBVIOUS
<1>b. PICK v \in Point({"loop", "poll", "cancel", "over"}) : run' = [run EXCEPT ![r] = v]
  <2>1. CASE Wait(r)
    <3>1. PICK ids \in SUBSET Kids : run' = [run EXCEPT ![r].pc = "poll", ![r].asked = ids]
      BY <2>1
    <3> DEFINE v == [run[r] EXCEPT !.pc = "poll", !.asked = ids]
    <3>2. v \in Point({"loop", "poll", "cancel", "over"})
      BY <1>0, ZenonT(40) DEF TypeOK
    <3>3. run' = [run EXCEPT ![r] = v]
      BY <1>0, <3>1 DEF TypeOK
    <3> QED
      BY <3>2, <3>3
  <2>2. CASE Poll(r)
    <3>1. PICK c \in Kids : run' = [run EXCEPT ![r].asked = @ \ {c}]
      BY <1>0, <2>2 DEF TypeOK
    <3> DEFINE v == [run[r] EXCEPT !.asked = run[r].asked \ {c}]
    <3>2. v \in Point({"loop", "poll", "cancel", "over"})
      BY <1>0, <2>2 DEF TypeOK
    <3>3. run' = [run EXCEPT ![r] = v]
      BY <1>0, <3>1 DEF TypeOK
    <3> QED
      BY <3>2, <3>3
  <2>3. CASE EndWait(r)
    <3>1. Idle \in Point({"loop", "poll", "cancel", "over"})
      BY DEF Idle
    <3> QED
      BY <2>3, <3>1
  <2>4. CASE Finish(r) \/ Abort(r)
    BY <1>0, <2>4 DEF TypeOK
  <2> QED
    BY <2>1, <2>2, <2>3, <2>4
<1>c. run[r].pc \in {"loop", "poll"}
  OBVIOUS
<1> HIDE DEF Wait, Poll, EndWait, Finish, Abort, Goto, Back, Idle
<1>1. TypeOK'
  BY <1>0, <1>a, <1>b DEF TypeOK
<1>2. Rows'
  BY <1>0, <1>a, <1>b, <1>c DEF TypeOK, Rows, Ephemeral
<1>3. Depths'
  BY <1>0, <1>a, <1>b DEF TypeOK, Depths, NoGrandchildren
<1>4. Authors'
  BY <1>0, <1>a, <1>b, Sets DEF TypeOK, Authors, OwnChildrenAreReleased, Owner
<1>5. \A q \in Parents : Busy(q)' \subseteq Busy(q)
  BY <1>a DEF Busy, Children
<1>6. \A q \in Parents : Reserved(q)' \subseteq Reserved(q)
  BY <1>0, <1>b, Sets DEF Reserved, RunsOf, TypeOK
<1> QED
  BY <1>0, <1>1, <1>2, <1>3, <1>4, <1>5, <1>6, RoomKept DEF Inv

-----------------------------------------------------------------------------
(* Steps that write rows.                                                   *)

LEMMA InsertAgentKeeps ==
  ASSUME Inv, NEW r \in Actors, InsertAgent(r)
  PROVE  Inv'
<1>0. TypeOK /\ Rows /\ Depths /\ Authors /\ Room
  BY DEF Inv
<1>1. CASE Back(r) /\ UNCHANGED <<agent, task, author>>
  <2>1. TypeOK'
    BY <1>0, <1>1 DEF TypeOK, Back, Idle
  <2>2. Rows' /\ Depths' /\ Authors'
    BY <1>0, <1>1, Sets DEF TypeOK, Rows, Depths, Authors, NoGrandchildren,
       OwnChildrenAreReleased, Ephemeral, Owner, Back, Idle, InsertAgent
  <2>3. \A q \in Parents : Busy(q)' \subseteq Busy(q)
    BY <1>1 DEF Busy, Children
  <2>4. \A q \in Parents : Reserved(q)' \subseteq Reserved(q)
    BY <1>0, <1>1, Sets DEF Back, Idle, Reserved, RunsOf, TypeOK
  <2> QED
    BY <1>0, <2>1, <2>2, <2>3, <2>4, RoomKept DEF Inv
<1>2. ASSUME NEW c \in Kids \ Ephemeral, UNCHANGED task,
             agent' = [agent EXCEPT ![c] = [parent |-> Owner(r), status |-> "busy",
                                            vetted |-> run[r].vetted]],
             author' = [author EXCEPT ![c] = r],
             run' = [run EXCEPT ![r].pc = "task", ![r].kid = c]
      PROVE  Inv'
  <2>0. run[r].pc = "agent"
    BY DEF InsertAgent
  <2>1. TypeOK'
    <3>1. [parent |-> Owner(r), status |-> "busy", vetted |-> run[r].vetted]
            \in Row
      BY <1>0, Sets DEF TypeOK
    <3>2. [run[r] EXCEPT !.pc = "task", !.kid = c]
            \in [pc : {"task"}, kid : Kids, asked : SUBSET Kids, vetted : BOOLEAN]
      BY <1>0 DEF TypeOK
    <3>3. run' = [run EXCEPT ![r] = [run[r] EXCEPT !.pc = "task", !.kid = c]]
      BY <1>0, <1>2 DEF TypeOK
    <3>4. run' \in [Actors -> Point(Statements)]
      BY <1>0, <3>2, <3>3 DEF TypeOK
    <3>5. agent' \in [Kids -> Row]
      BY <1>0, <1>2, <3>1 DEF TypeOK
    <3> QED
      BY <1>0, <1>2, <3>4, <3>5 DEF TypeOK
  <2>2. Rows'
    BY <1>0, <1>2, <2>0, Sets DEF TypeOK, Rows, Ephemeral
  <2>3. Depths'
    <3>1. \A k \in Workers : run'[k].pc = "agent" => ~run'[k].vetted
      BY <1>0, <1>2, Sets DEF TypeOK, Depths
    <3>2. Owner(r) \in Kids => ~run[r].vetted
      BY <1>0, <2>0, Sets DEF Depths
    <3> QED
      BY <1>0, <1>2, <3>1, <3>2 DEF TypeOK, Depths, NoGrandchildren
  <2>4. Authors'
    BY <1>0, <1>2, <2>0, Sets DEF TypeOK, Authors, OwnChildrenAreReleased, Owner
  <2>5. Room'
    <3> SUFFICES ASSUME NEW q \in Parents
                 PROVE  Cardinality(Busy(q)') + Cardinality(Reserved(q)')
                          <= Max + Cardinality(RunsOf(q)) - 1
      BY DEF Room, RunsOf
    <3>0. Cardinality(Busy(q)) + Cardinality(Reserved(q)) <= Max + Cardinality(RunsOf(q)) - 1
      BY <1>0 DEF Room
    <3>1. CASE q = Owner(r)
      <4>1. r \in Reserved(q)
        BY <2>0, <3>1, Sets DEF Reserved, RunsOf
      <4>2. Reserved(q)' = Reserved(q) \ {r}
        BY <1>0, <1>2, Sets DEF Reserved, RunsOf, TypeOK
      <4>3. Cardinality(Reserved(q)') = Cardinality(Reserved(q)) - 1
        BY <4>1, <4>2, Finite, FS_RemoveElement
      <4>4. c \notin Busy(q)
        BY DEF Busy, Children, Ephemeral
      <4>5. Busy(q)' = Busy(q) \cup {c}
        BY <1>0, <1>2, <3>1 DEF Busy, Children, TypeOK
      <4>6. Cardinality(Busy(q)') = Cardinality(Busy(q)) + 1
        BY <4>4, <4>5, Finite, FS_AddElement
      <4> QED
        BY <3>0, <4>3, <4>6, Finite, Sets
    <3>2. CASE q # Owner(r)
      <4>1. Reserved(q)' = Reserved(q)
        BY <1>0, <1>2, <2>0, <3>2, Sets DEF Reserved, RunsOf, TypeOK
      <4>2. Busy(q)' = Busy(q)
        BY <1>0, <1>2, <3>2 DEF Busy, Children, TypeOK, Ephemeral
      <4> QED
        BY <3>0, <4>1, <4>2
    <3> QED
      BY <3>1, <3>2
  <2> QED
    BY <2>1, <2>2, <2>3, <2>4, <2>5 DEF Inv
<1> QED
  BY <1>1, <1>2 DEF InsertAgent

LEMMA InsertTaskKeeps ==
  ASSUME Inv, NEW r \in Actors, InsertTask(r)
  PROVE  Inv'
<1>0. TypeOK /\ Rows /\ Depths /\ Authors /\ Room
  BY DEF Inv
<1>a. /\ UNCHANGED <<agent, author>> /\ Back(r) /\ run[r].pc = "task"
      /\ task' = [task EXCEPT ![run[r].kid] = "pending"] \/ task' = task
  BY DEF InsertTask
<1>b. run[r].kid \in Ephemeral
  BY <1>0, <1>a DEF Rows
<1>1. TypeOK'
  BY <1>0, <1>a DEF TypeOK, Back, Idle
<1>2. Rows'
  BY <1>0, <1>a, <1>b, Sets DEF TypeOK, Rows, Ephemeral, Back, Idle
<1>3. Depths'
  BY <1>0, <1>a, Sets DEF TypeOK, Depths, NoGrandchildren, Back, Idle
<1>4. Authors'
  BY <1>0, <1>a, Sets DEF TypeOK, Authors, OwnChildrenAreReleased, Owner, Back, Idle
<1>5. \A q \in Parents : Busy(q)' \subseteq Busy(q)
  BY <1>a DEF Busy, Children
<1>6. \A q \in Parents : Reserved(q)' \subseteq Reserved(q)
  BY <1>0, <1>a, Sets DEF Back, Idle, Reserved, RunsOf, TypeOK
<1> QED
  BY <1>0, <1>1, <1>2, <1>3, <1>4, <1>5, <1>6, RoomKept DEF Inv

LEMMA CancelTasksKeeps ==
  ASSUME Inv, NEW r \in Actors, CancelTasks(r)
  PROVE  Inv'
<1>0. TypeOK /\ Rows /\ Depths /\ Authors /\ Room
  BY DEF Inv
<1>a. /\ UNCHANGED <<agent, author>> /\ run[r].pc = "cancel"
      /\ \E pc \in {"release", "over"} : run' = [run EXCEPT ![r].pc = pc]
      /\ task' \in [Kids -> {task[c] : c \in Kids} \cup {"cancelled"}]
      /\ \A c \in Kids : task'[c] # "none" => task[c] # "none"
  BY <1>0 DEF CancelTasks, Goto, TypeOK
<1>1. TypeOK'
  <2>1. {task[c] : c \in Kids} \cup {"cancelled"}
          \subseteq {"none", "pending", "in_progress", "completed", "cancelled"}
    BY <1>0 DEF TypeOK
  <2>2. task' \in [Kids -> {"none", "pending", "in_progress", "completed", "cancelled"}]
    BY <1>a, <2>1
  <2>b. PICK pc \in {"release", "over"} : run' = [run EXCEPT ![r].pc = pc]
    BY <1>a
  <2>c. [run[r] EXCEPT !.pc = pc]
          \in Point({"release", "over"})
    BY <1>0 DEF TypeOK
  <2>d. run' = [run EXCEPT ![r] = [run[r] EXCEPT !.pc = pc]]
    BY <1>0, <2>b DEF TypeOK
  <2>3. run' \in [Actors -> Point(Statements)]
    BY <1>0, <2>c, <2>d DEF TypeOK
  <2> QED
    BY <1>0, <1>a, <2>2, <2>3 DEF TypeOK
<1>2. Rows'
  BY <1>0, <1>a, Sets DEF TypeOK, Rows, Ephemeral
<1>3. Depths'
  BY <1>0, <1>a, Sets DEF TypeOK, Depths, NoGrandchildren
<1>4. Authors'
  BY <1>0, <1>a, Sets DEF TypeOK, Authors, OwnChildrenAreReleased, Owner
<1>5. \A q \in Parents : Busy(q)' \subseteq Busy(q)
  BY <1>a DEF Busy, Children
<1>6. \A q \in Parents : Reserved(q)' \subseteq Reserved(q)
  BY <1>0, <1>a, Sets DEF Reserved, RunsOf, TypeOK
<1> QED
  BY <1>0, <1>1, <1>2, <1>3, <1>4, <1>5, <1>6, RoomKept DEF Inv

LEMMA CancelAgentsKeeps ==
  ASSUME Inv, NEW r \in Actors, CancelAgents(r)
  PROVE  Inv'
<1>0. TypeOK /\ Rows /\ Depths /\ Authors /\ Room
  BY DEF Inv
<1>1. CASE Goto(r, "over") /\ UNCHANGED <<agent, task, author>>
  <2>1. TypeOK'
    <3>1. [run[r] EXCEPT !.pc = "over"] \in Point({"over"})
      BY <1>0 DEF TypeOK
    <3>2. run' = [run EXCEPT ![r] = [run[r] EXCEPT !.pc = "over"]]
      BY <1>0, <1>1 DEF Goto, TypeOK
    <3>3. run' \in [Actors -> Point(Statements)]
      BY <1>0, <3>1, <3>2 DEF TypeOK
    <3> QED
      BY <1>0, <1>1, <3>3 DEF TypeOK
  <2>2. Rows' /\ Depths' /\ Authors'
    BY <1>0, <1>1, Sets DEF TypeOK, Rows, Depths, Authors, NoGrandchildren,
       OwnChildrenAreReleased, Ephemeral, Owner, Goto, CancelAgents
  <2>3. \A q \in Parents : Busy(q)' \subseteq Busy(q)
    BY <1>1 DEF Busy, Children
  <2>4. \A q \in Parents : Reserved(q)' \subseteq Reserved(q)
    BY <1>0, <1>1, Sets DEF Goto, Reserved, RunsOf, TypeOK
  <2> QED
    BY <1>0, <2>1, <2>2, <2>3, <2>4, RoomKept DEF Inv
<1>2. ASSUME Goto(r, "released"), UNCHANGED <<task, author>>,
             agent' = [c \in Kids |-> IF c \in Children(Owner(r))
                                        THEN [agent[c] EXCEPT !.status = "idle"] ELSE agent[c]]
      PROVE  Inv'
  <2>0. /\ run[r].pc = "release" /\ run' = [run EXCEPT ![r].pc = "released"]
        /\ \A c \in Kids : /\ agent'[c].parent = agent[c].parent
                           /\ agent'[c].vetted = agent[c].vetted
                           /\ agent'[c].status = agent[c].status \/ agent'[c].status = "idle"
                           /\ agent[c].parent = Owner(r) => agent'[c].status = "idle"
    BY <1>0, <1>2 DEF CancelAgents, Goto, TypeOK, Children
  <2>a. \A c \in Kids : agent'[c] \in Row
    BY <1>0, <1>2 DEF TypeOK
  <2>1. TypeOK'
    <3>1. agent' \in [Kids -> Row]
      BY <1>2, <2>a
    <3>2. [run[r] EXCEPT !.pc = "released"]
            \in Point({"released"})
      BY <1>0 DEF TypeOK
    <3>3. run' = [run EXCEPT ![r] = [run[r] EXCEPT !.pc = "released"]]
      BY <1>0, <2>0 DEF TypeOK
    <3>4. run' \in [Actors -> Point(Statements)]
      BY <1>0, <3>2, <3>3 DEF TypeOK
    <3> QED
      BY <1>0, <1>2, <3>1, <3>4 DEF TypeOK
  <2>2. Rows'
    BY <1>0, <1>2, <2>0, Sets DEF TypeOK, Rows, Ephemeral
  <2>3. Depths'
    <3>1. \A c \in Kids : agent'[c].parent \in Kids => ~agent'[c].vetted
      BY <1>0, <2>0 DEF Depths, NoGrandchildren
    <3>2. \A c \in Workers : run'[c].pc = "agent" => ~run'[c].vetted
      BY <1>0, <2>0, Sets DEF TypeOK, Depths
    <3> QED
      BY <3>1, <3>2 DEF Depths, NoGrandchildren
  <2>4. Authors'
    BY <1>0, <1>2, <2>0, Sets DEF TypeOK, Authors, OwnChildrenAreReleased, Owner
  <2>5. \A q \in Parents : Busy(q)' \subseteq Busy(q)
    <3>1. ASSUME NEW q \in Parents, NEW c \in Kids,
                 agent'[c].parent = q, agent'[c].status = "busy"
          PROVE  agent[c].parent = q /\ agent[c].status = "busy"
      BY <2>0, <3>1
    <3> QED
      BY <3>1 DEF Busy, Children
  <2>6. \A q \in Parents : Reserved(q)' \subseteq Reserved(q)
    BY <1>0, <2>0, Sets DEF Reserved, RunsOf, TypeOK
  <2> QED
    BY <1>0, <2>1, <2>2, <2>3, <2>4, <2>5, <2>6, RoomKept DEF Inv
<1> QED
  BY <1>1, <1>2 DEF CancelAgents

-----------------------------------------------------------------------------
(* The children and the operators.                                          *)

LEMMA StartKidKeeps ==
  ASSUME Inv, NEW r \in Workers, StartKid(r)
  PROVE  Inv'
<1>0. TypeOK /\ Rows /\ Depths /\ Authors /\ Room
  BY DEF Inv
<1> USE Sets DEF StartKid, Goto
<1>1. TypeOK'
  <2>1. [run[r] EXCEPT !.pc = "loop"]
          \in Point({"loop"})
    <3>1. r \in Actors
      OBVIOUS
    <3>2. run[r] \in Point(Statements)
      BY <1>0, <3>1 DEF TypeOK
    <3> HIDE DEF StartKid, Goto
    <3> QED
      BY <3>2
  <2>2. run' = [run EXCEPT ![r] = [run[r] EXCEPT !.pc = "loop"]]
    BY <1>0 DEF TypeOK
  <2>3. run' \in [Actors -> Point(Statements)]
    BY <1>0, <2>1, <2>2 DEF TypeOK
  <2>4. UNCHANGED author /\ UNCHANGED agent
    OBVIOUS
  <2>5. task' \in [Kids -> {"none", "pending", "in_progress", "completed", "cancelled"}]
    BY <1>0 DEF TypeOK
  <2> QED
    BY <1>0, <2>3, <2>4, <2>5 DEF TypeOK
<1>2. Rows'
  BY <1>0 DEF TypeOK, Rows, Ephemeral
<1>3. Depths'
  BY <1>0 DEF TypeOK, Depths, NoGrandchildren
<1>4. Authors'
  BY <1>0 DEF TypeOK, Authors, OwnChildrenAreReleased, Owner
<1>5. \A q \in Parents : Busy(q)' \subseteq Busy(q)
  BY DEF Busy, Children
<1>6. \A q \in Parents : Reserved(q)' \subseteq Reserved(q)
  BY <1>0 DEF Reserved, RunsOf, TypeOK
<1> QED
  BY <1>0, <1>1, <1>2, <1>3, <1>4, <1>5, <1>6, RoomKept DEF Inv

LEMMA SetStatusKeeps ==
  ASSUME Inv, NEW c \in Workers, SetStatus(c)
  PROVE  Inv'
<1>0. TypeOK /\ Rows /\ Depths /\ Authors /\ Room
  BY DEF Inv
<1> USE Sets DEF SetStatus
<1>1. TypeOK'
  BY <1>0 DEF TypeOK
<1>2. Rows'
  BY <1>0 DEF TypeOK, Rows, Ephemeral
<1>3. Depths' /\ Authors'
  BY <1>0 DEF Depths, NoGrandchildren, Authors, OwnChildrenAreReleased
<1>4. \A q \in Parents : Busy(q)' \subseteq Busy(q) /\ Reserved(q)' \subseteq Reserved(q)
  BY DEF Busy, Children, Reserved, RunsOf
<1> QED
  BY <1>0, <1>1, <1>2, <1>3, <1>4, RoomKept DEF Inv

LEMMA SetAgentKeeps ==
  ASSUME Inv, NEW c \in Kids, SetAgent(c)
  PROVE  Inv'
<1>0. TypeOK /\ Rows /\ Depths /\ Authors /\ Room
  BY DEF Inv
<1> USE DEF SetAgent
<1>1. TypeOK'
  BY <1>0 DEF TypeOK
<1>2. Rows'
  BY <1>0, Sets DEF TypeOK, Rows, Ephemeral
<1>3. Depths'
  BY <1>0 DEF TypeOK, Depths, NoGrandchildren
<1>4. Authors'
  BY <1>0 DEF TypeOK, Authors, OwnChildrenAreReleased
<1>5. \A q \in Parents : Busy(q)' \subseteq Busy(q)
  BY <1>0 DEF Busy, Children, TypeOK
<1>6. \A q \in Parents : Reserved(q)' \subseteq Reserved(q)
  BY DEF Reserved, RunsOf
<1> QED
  BY <1>0, <1>1, <1>2, <1>3, <1>4, <1>5, <1>6, RoomKept DEF Inv

LEMMA NextInv == Inv /\ [Next]_vars => Inv'
<1> SUFFICES ASSUME Inv, [Next]_vars PROVE Inv'
  OBVIOUS
<1>1. CASE UNCHANGED vars
  <2>1. TypeOK' /\ Rows' /\ Depths' /\ Authors'
    BY <1>1 DEF Inv, vars, TypeOK, Rows, Depths, Authors, Ephemeral, NoGrandchildren,
       OwnChildrenAreReleased
  <2>2. \A q \in Parents : Busy(q)' \subseteq Busy(q) /\ Reserved(q)' \subseteq Reserved(q)
    BY <1>1 DEF vars, Busy, Children, Reserved, RunsOf
  <2> QED
    BY <2>1, <2>2, RoomKept DEF Inv
<1>2. ASSUME NEW r \in Actors,
             \/ Count(r) \/ Depth(r) \/ InsertAgent(r) \/ InsertTask(r)
             \/ Wait(r) \/ Poll(r) \/ EndWait(r)
             \/ Finish(r) \/ Abort(r) \/ CancelTasks(r) \/ CancelAgents(r)
      PROVE  Inv'
  BY <1>2, CountKeeps, DepthKeeps, InsertAgentKeeps, InsertTaskKeeps, MovesKeep,
     CancelTasksKeeps, CancelAgentsKeeps
<1>3. ASSUME NEW c \in Workers, StartKid(c) \/ SetStatus(c)
      PROVE  Inv'
  BY <1>3, StartKidKeeps, SetStatusKeeps
<1>4. ASSUME NEW c \in Kids, SetAgent(c)
      PROVE  Inv'
  BY <1>4, SetAgentKeeps
<1> QED
  BY <1>1, <1>2, <1>3, <1>4 DEF Next

\* Every reachable state has the rows in order, the authors of the children
\* right, and room for the places that runs hold.
THEOREM Inductive == Spec => []Inv
BY InitInv, NextInv, PTL DEF Spec

\* sub_agent.go keeps the types of its rows and statements.
THEOREM TypeCorrect == Spec => []TypeOK
<1>1. Inv => TypeOK
  BY DEF Inv
<1> QED
  BY <1>1, Inductive, PTL

\* Spawn: the runs of one agent exceed maxPerParent by at most their number
\* less one, however their statements interleave or fail.
THEOREM BusyBounded == Spec => []BusyIsBounded
<1>1. Inv => BusyIsBounded
  <2> SUFFICES ASSUME Inv, NEW q \in Parents
               PROVE  Cardinality(Busy(q)) <= Max + Cardinality(RunsOf(q)) - 1
    BY DEF BusyIsBounded, RunsOf
  <2>1. Cardinality(Busy(q)) + Cardinality(Reserved(q)) <= Max + Cardinality(RunsOf(q)) - 1
    BY DEF Inv, Room
  <2> QED
    BY <2>1, Finite, Sets
<1> QED
  BY <1>1, Inductive, PTL

\* Spawn: no child has children, unless the query for its depth failed.
THEOREM OneLevel == Spec => []NoGrandchildren
<1>1. Inv => NoGrandchildren
  BY DEF Inv, Depths
<1> QED
  BY <1>1, Inductive, PTL

\* CancelChildren: what a run spawned is released when both statements are
\* through, and stays so whatever the other runs of the agent do.
THEOREM ChildrenReleased == Spec => []OwnChildrenAreReleased
<1>1. Inv => OwnChildrenAreReleased
  BY DEF Inv, Authors
<1> QED
  BY <1>1, Inductive, PTL
=============================================================================
