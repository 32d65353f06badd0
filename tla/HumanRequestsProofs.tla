------------------------- MODULE HumanRequestsProofs -------------------------
(* What is proved of HumanRequests, for any agents, operators, ids, secret  *)
(* names, values and timeouts.  The invariant has three parts: whom a wait  *)
(* is for, whose answer a resolve handler carries, and what the events and  *)
(* the secrets provider show.                                               *)
EXTENDS HumanRequests, TLAPS

RowType      == [status : Statuses, due : Nat, name : Names \cup {"noname"},
                 value : Values \cup {NoValue}]
AgentType    == [pc : {"idle"} \cup Waiting, id : Ids \cup {"noid"},
                 deadline : Nat, live : BOOLEAN]
OperatorType == [pc : {"idle", "store", "arm"}, id : Ids \cup {"noid"},
                 value : Values \cup {NoValue}]

\* Nobody waits for a request another one waits for, nor for one that was
\* answered or never made.
OneOpenWait ==
  /\ \A id \in Ids : row[id].status = "absent" => answer[id] = "none"
  /\ \A a \in Agents : agent[a].pc # "idle" =>
       /\ agent[a].id \in Ids
       /\ row[agent[a].id].status # "absent"
       /\ answer[agent[a].id] = "none"
  /\ \A a, b \in Agents :
       agent[a].pc # "idle" /\ agent[b].pc # "idle" /\ agent[a].id = agent[b].id => a = b

\* A handler under way carries what its row records.
HandlersAreWinners ==
  \A o \in Operators : operator[o].pc # "idle" =>
    /\ operator[o].id \in Ids
    /\ row[operator[o].id].status = "resolved"
    /\ row[operator[o].id].value = operator[o].value
    /\ operator[o].pc = "arm" => operator[o].value \in Values

IInv == /\ TypeOK /\ OneOpenWait /\ HandlersAreWinners
        /\ EventsAreTrue /\ StoreHoldsARecordedAnswer

USE DEF Resolutions, Statuses, Answers, Waiting, NoWait, NoCall, NoRow

\* How a step may change the table: rows are of their type, those that are
\* settled stay as they are, and none is erased.
RowsSettle ==
  /\ row' \in [Ids -> RowType]
  /\ \A id \in Ids : row[id].status \notin {"absent", "pending"} => row'[id] = row[id]
  /\ \A id \in Ids : row[id].status # "absent" => row'[id].status # "absent"

LEMMA Typed ==
  ASSUME TypeOK
  PROVE  /\ row \in [Ids -> RowType] /\ agent \in [Agents -> AgentType]
         /\ operator \in [Operators -> OperatorType]
BY DEF TypeOK, RowType, AgentType, OperatorType

\* An UPDATE of a pending row settles it, and changes no other.
LEMMA GuardedUpdate ==
  ASSUME TypeOK, NEW id \in Ids, row[id].status = "pending", NEW s \in Statuses \ {"absent"},
         NEW v \in Values \cup {NoValue},
         row' = [row EXCEPT ![id] = [row[id] EXCEPT !.status = s, !.value = v]]
  PROVE  RowsSettle /\ row'[id].status = s /\ row'[id].value = v
<1>1. [row[id] EXCEPT !.status = s, !.value = v] \in RowType
  <2>1. row[id] \in RowType
    BY Typed
  <2> QED
    BY <2>1 DEF RowType
<1>2. row' \in [Ids -> RowType]
  BY <1>1, Typed
<1>3. row'[id].status = s /\ row'[id].value = v
  BY Typed DEF RowType
<1>4. \A i \in Ids : i # id => row'[i] = row[i]
  BY Typed
<1> QED
  BY <1>2, <1>3, <1>4 DEF RowsSettle

LEMMA NoUpdate ==
  ASSUME TypeOK, UNCHANGED row
  PROVE  RowsSettle
BY Typed DEF RowsSettle

\* A step that leaves the waits alone keeps what is said of them.
LEMMA WaitsUntouched ==
  ASSUME TypeOK, OneOpenWait, RowsSettle, UNCHANGED <<agent, answer>>
  PROVE  OneOpenWait'
<1>1. \A id \in Ids : row'[id].status = "absent" => answer'[id] = "none"
  BY DEF OneOpenWait, RowsSettle
<1>2. \A a \in Agents : agent'[a].pc # "idle" =>
        /\ agent'[a].id \in Ids
        /\ row'[agent'[a].id].status # "absent"
        /\ answer'[agent'[a].id] = "none"
  BY DEF OneOpenWait, RowsSettle
<1> QED
  BY <1>1, <1>2 DEF OneOpenWait

\* A step that leaves the handlers, the events and the provider alone keeps what is said
\* of them: the rows they name are settled.
LEMMA RecordsUntouched ==
  ASSUME TypeOK, HandlersAreWinners, EventsAreTrue, StoreHoldsARecordedAnswer, RowsSettle,
         UNCHANGED <<operator, announced, store>>
  PROVE  HandlersAreWinners' /\ EventsAreTrue' /\ StoreHoldsARecordedAnswer'
<1>1. \A id \in Ids : row[id].status \in Resolutions => row'[id] = row[id]
  BY DEF RowsSettle
<1>2. HandlersAreWinners'
  BY <1>1 DEF HandlersAreWinners
<1>3. EventsAreTrue'
  BY <1>1 DEF EventsAreTrue
<1>4. StoreHoldsARecordedAnswer'
  <2> SUFFICES ASSUME NEW n \in Names, store[n] # NoValue
               PROVE  \E id \in Ids : /\ row'[id].status = "resolved"
                                      /\ row'[id].name = n
                                      /\ row'[id].value = store[n]
    BY DEF StoreHoldsARecordedAnswer
  <2>1. PICK id \in Ids : row[id].status = "resolved" /\ row[id].name = n /\ row[id].value = store[n]
    BY DEF StoreHoldsARecordedAnswer
  <2> QED
    BY <1>1, <2>1
<1> QED
  BY <1>2, <1>3, <1>4

\* A step that opens no wait and gives no answer keeps what is said of waits.
LEMMA WaitStays ==
  ASSUME OneOpenWait, UNCHANGED <<row, answer>>,
         \A a \in Agents : agent'[a].pc # "idle" =>
           agent[a].pc # "idle" /\ agent'[a].id = agent[a].id
  PROVE  OneOpenWait'
BY DEF OneOpenWait

\* A step that ends the wait of a with the answer x keeps it too.
LEMMA ReturnStep ==
  ASSUME TypeOK, OneOpenWait, RowsSettle, NEW a \in Agents, agent[a].pc # "idle",
         NEW x \in Answers, Return(a, x)
  PROVE  /\ agent' \in [Agents -> AgentType]
         /\ answer' \in [Ids -> Answers]
         /\ OneOpenWait'
<1> DEFINE r == agent[a].id
<1>1. r \in Ids /\ answer[r] = "none"
  BY DEF OneOpenWait
<1>2. /\ agent' = [agent EXCEPT ![a] = NoWait]
      /\ answer' = [answer EXCEPT ![r] = x]
  BY DEF Return
<1>3. \A b \in Agents : b # a /\ agent[b].pc # "idle" => agent[b].id # r
  BY DEF OneOpenWait
<1>4. agent' \in [Agents -> AgentType] /\ answer' \in [Ids -> Answers]
  BY <1>2, Typed DEF AgentType, TypeOK
<1>5. OneOpenWait'
  <2>1. \A b \in Agents : agent'[b].pc # "idle" => b # a /\ agent'[b] = agent[b]
    BY <1>2, Typed
  <2>2. \A id \in Ids : id # r => answer'[id] = answer[id]
    BY <1>2 DEF TypeOK
  <2>3. \A id \in Ids : row'[id].status = "absent" => answer'[id] = "none"
    BY <1>1, <2>2 DEF OneOpenWait, RowsSettle
  <2>4. \A b \in Agents : agent'[b].pc # "idle" =>
          /\ agent'[b].id \in Ids
          /\ row'[agent'[b].id].status # "absent"
          /\ answer'[agent'[b].id] = "none"
    BY <1>3, <2>1, <2>2 DEF OneOpenWait, RowsSettle
  <2> QED
    BY <2>1, <2>3, <2>4 DEF OneOpenWait
<1> QED
  BY <1>4, <1>5

-----------------------------------------------------------------------------
(* The steps of agents.                                                     *)

LEMMA CreateKeeps ==
  ASSUME IInv, NEW a \in Agents, Create(a)
  PROVE  IInv'
<1> USE HumanRequestsAssumption DEF HumanRequestsAssumption
<1>0. TypeOK /\ OneOpenWait /\ HandlersAreWinners /\ EventsAreTrue /\ StoreHoldsARecordedAnswer
  BY DEF IInv
<1>1. PICK id \in Ids, t \in RowTimeouts, n \in Names \cup {"noname"}, blocking \in BOOLEAN :
        /\ row[id].status = "absent"
        /\ row' = [row EXCEPT ![id] = [NoRow EXCEPT !.status = "pending", !.name = n,
                                        !.due = IF t = 0 THEN 0 ELSE now + t]]
        /\ agent' = IF blocking
                      THEN [agent EXCEPT ![a] = [pc |-> "get", id |-> id,
                                                 deadline |-> now + WaitTimeout, live |-> TRUE]]
                      ELSE agent
        /\ announced' = [announced EXCEPT ![id] = "pending"]
  BY DEF Create
<1>2. agent[a].pc = "idle" /\ UNCHANGED <<now, answer, operator, store, armed, load>>
  BY DEF Create, secrets
<1>3. now \in Nat /\ now + t \in Nat /\ now + WaitTimeout \in Nat
  BY <1>0 DEF TypeOK
<1>4. [NoRow EXCEPT !.status = "pending", !.name = n, !.due = IF t = 0 THEN 0 ELSE now + t]
        \in RowType
  BY <1>3 DEF RowType
<1>5. RowsSettle
  BY <1>0, <1>1, <1>4, Typed DEF RowsSettle
<1>6. agent' \in [Agents -> AgentType]
  BY <1>0, <1>1, <1>3, Typed DEF AgentType
<1>7. TypeOK'
  BY <1>0, <1>1, <1>2, <1>5, <1>6 DEF TypeOK, RowsSettle, RowType, AgentType
<1>8. \A i \in Ids : i # id => row'[i] = row[i] /\ announced'[i] = announced[i]
  BY <1>0, <1>1 DEF TypeOK
<1>9. row'[id].status = "pending" /\ announced'[id] = "pending" /\ answer[id] = "none"
  BY <1>0, <1>1 DEF TypeOK, OneOpenWait
<1>10. OneOpenWait'
  <2>1. \A b \in Agents : agent[b].pc # "idle" => agent[b].id # id
    BY <1>0, <1>1 DEF OneOpenWait
  <2>2. \A i \in Ids : row'[i].status = "absent" => answer'[i] = "none"
    BY <1>0, <1>2, <1>8, <1>9 DEF OneOpenWait
  <2>3. \A b \in Agents : agent'[b].pc # "idle" =>
          \/ b # a /\ agent'[b] = agent[b]
          \/ b = a /\ agent'[b].id = id
    BY <1>0, <1>1, <1>2, Typed
  <2>4. \A b \in Agents : agent'[b].pc # "idle" =>
          /\ agent'[b].id \in Ids
          /\ row'[agent'[b].id].status # "absent"
          /\ answer'[agent'[b].id] = "none"
    BY <1>0, <1>2, <1>8, <1>9, <2>1, <2>3 DEF OneOpenWait
  <2>5. \A b, c \in Agents :
          agent'[b].pc # "idle" /\ agent'[c].pc # "idle" /\ agent'[b].id = agent'[c].id => b = c
    BY <1>0, <2>1, <2>3 DEF OneOpenWait
  <2> QED
    BY <2>2, <2>4, <2>5 DEF OneOpenWait
<1>11. HandlersAreWinners'
  BY <1>0, <1>1, <1>2, <1>8 DEF HandlersAreWinners
<1>12. EventsAreTrue'
  BY <1>0, <1>8, <1>9 DEF EventsAreTrue
<1>13. StoreHoldsARecordedAnswer'
  <2> SUFFICES ASSUME NEW m \in Names, store[m] # NoValue
               PROVE  \E i \in Ids : /\ row'[i].status = "resolved"
                                     /\ row'[i].name = m
                                     /\ row'[i].value = store[m]
    BY <1>2 DEF StoreHoldsARecordedAnswer
  <2>1. PICK i \in Ids : row[i].status = "resolved" /\ row[i].name = m /\ row[i].value = store[m]
    BY <1>0 DEF StoreHoldsARecordedAnswer
  <2> QED
    BY <1>1, <1>8, <2>1
<1> QED
  BY <1>7, <1>10, <1>11, <1>12, <1>13 DEF IInv

LEMMA WaitStepKeeps ==
  ASSUME IInv, NEW a \in Agents, WaitStep(a) \/ CancelContext(a)
  PROVE  IInv'
<1>0. TypeOK /\ OneOpenWait /\ HandlersAreWinners /\ EventsAreTrue /\ StoreHoldsARecordedAnswer
  BY DEF IInv
<1>a. UNCHANGED <<now, announced, operator, store, armed, load>> /\ agent[a].pc # "idle"
  BY DEF WaitStep, CancelContext, Poll, PollFails, Expire, Sleep, Wake, WakeCancelled, secrets
\* Whatever the step does to the table and the waits, the rest follows.
<1>b. ASSUME RowsSettle, agent' \in [Agents -> AgentType], answer' \in [Ids -> Answers],
             OneOpenWait'
      PROVE  IInv'
  <2>1. TypeOK'
    BY <1>0, <1>a, <1>b DEF TypeOK, RowsSettle, RowType, AgentType
  <2> QED
    BY <1>0, <1>a, <1>b, <2>1, RecordsUntouched DEF IInv
<1>c. agent[a].id \in Ids /\ row[agent[a].id].status # "absent"
  BY <1>0, <1>a DEF OneOpenWait
<1>1. ASSUME NEW x \in Answers, Return(a, x), RowsSettle
      PROVE  IInv'
  BY <1>0, <1>a, <1>b, <1>1, ReturnStep
<1>2. ASSUME UNCHANGED <<row, answer>>,
             \/ \E p \in Waiting : agent' = [agent EXCEPT ![a].pc = p]
             \/ agent' = [agent EXCEPT ![a].live = FALSE]
      PROVE  IInv'
  <2>1. agent[a] \in AgentType
    BY <1>0, Typed
  <2>2. PICK v \in AgentType : v.id = agent[a].id /\ agent' = [agent EXCEPT ![a] = v]
    <3>1. CASE agent' = [agent EXCEPT ![a].live = FALSE]
      <4>1. [agent[a] EXCEPT !.live = FALSE] \in AgentType
        BY <2>1 DEF AgentType
      <4> QED
        BY <3>1, <4>1, <2>1 DEF AgentType
    <3>2. ASSUME NEW p \in Waiting, agent' = [agent EXCEPT ![a].pc = p]
          PROVE  \E v \in AgentType : v.id = agent[a].id /\ agent' = [agent EXCEPT ![a] = v]
      <4>1. [agent[a] EXCEPT !.pc = p] \in AgentType
        BY <2>1 DEF AgentType
      <4> QED
        BY <3>2, <4>1, <2>1 DEF AgentType
    <3> QED
      BY <1>2, <3>1, <3>2
  <2>3. agent' \in [Agents -> AgentType] /\ answer' \in [Ids -> Answers]
    BY <1>0, <1>2, <2>2, Typed DEF TypeOK
  <2>4. OneOpenWait'
    BY <1>0, <1>a, <1>2, <2>2, Typed, WaitStays
  <2> QED
    BY <1>0, <1>2, <1>b, <2>3, <2>4, NoUpdate
<1>3. CASE Poll(a)
  <2>1. CASE row[agent[a].id].status = "pending"
    BY <1>2, <1>3, <2>1 DEF Poll
  <2>2. CASE row[agent[a].id].status # "pending"
    <3>1. row[agent[a].id].status \in Answers
      BY <1>0, <1>c, <2>2 DEF TypeOK
    <3> QED
      BY <1>0, <1>1, <1>3, <2>2, <3>1, NoUpdate DEF Poll
  <2> QED
    BY <2>1, <2>2
<1>4. CASE PollFails(a) \/ WakeCancelled(a)
  BY <1>0, <1>1, <1>4, NoUpdate DEF PollFails, WakeCancelled
<1>5. CASE Expire(a)
  <2> DEFINE r == agent[a].id
  <2>1. Return(a, "expired") /\ "expired" \in Answers
    BY <1>5 DEF Expire
  <2>2. CASE UNCHANGED row
    BY <1>0, <1>1, <2>1, <2>2, NoUpdate
  <2>3. CASE row[r].status = "pending" /\ row' = [row EXCEPT ![r].status = "expired"]
    <3>1. row[r].value \in Values \cup {NoValue}
      BY <1>0, <1>c, Typed DEF RowType
    <3>2. row' = [row EXCEPT ![r] = [row[r] EXCEPT !.status = "expired", !.value = row[r].value]]
      BY <1>0, <1>c, <2>3, Typed DEF RowType
    <3>3. RowsSettle
      BY <1>0, <1>c, <2>3, <3>1, <3>2, GuardedUpdate
    <3> QED
      BY <1>1, <2>1, <3>3
  <2> QED
    BY <1>5, <2>2, <2>3 DEF Expire
<1>6. CASE Sleep(a) \/ Wake(a)
  BY <1>2, <1>6 DEF Sleep, Wake
<1>7. CASE CancelContext(a)
  BY <1>2, <1>7 DEF CancelContext
<1> QED
  BY <1>3, <1>4, <1>5, <1>6, <1>7 DEF WaitStep

-----------------------------------------------------------------------------
(* The steps of operators.                                                  *)

LEMMA ResolveKeeps ==
  ASSUME IInv, NEW o \in Operators, Resolve(o)
  PROVE  IInv'
<1>0. TypeOK /\ OneOpenWait /\ HandlersAreWinners /\ EventsAreTrue /\ StoreHoldsARecordedAnswer
  BY DEF IInv
<1>1. PICK id \in Ids, v \in Values \cup {NoValue} :
        /\ row[id].status = "pending"
        /\ row' = [row EXCEPT ![id].status = "resolved", ![id].value = v]
        /\ announced' = [announced EXCEPT ![id] = "resolved"]
        /\ operator' = [operator EXCEPT ![o] = [pc |-> "store", id |-> id, value |-> v]]
  BY DEF Resolve
<1>2. operator[o].pc = "idle" /\ UNCHANGED <<now, agent, answer, store, armed, load>>
  BY DEF Resolve
<1>3. row' = [row EXCEPT ![id] = [row[id] EXCEPT !.status = "resolved", !.value = v]]
  BY <1>0, <1>1, Typed DEF RowType
<1>4. RowsSettle /\ row'[id].status = "resolved" /\ row'[id].value = v
  <2>1. "resolved" \in Statuses \ {"absent"}
    OBVIOUS
  <2> HIDE DEF Statuses
  <2> QED
    BY <1>0, <1>1, <1>3, <2>1, GuardedUpdate, Zenon
<1>5. operator' \in [Operators -> OperatorType]
  BY <1>0, <1>1, Typed DEF OperatorType
<1>6. TypeOK'
  BY <1>0, <1>1, <1>2, <1>4, <1>5 DEF TypeOK, RowsSettle, RowType, OperatorType
<1>7. OneOpenWait'
  BY <1>0, <1>2, <1>4, WaitsUntouched
<1>8. \A i \in Ids : row[i].status = "resolved" => row'[i] = row[i]
  BY <1>4 DEF RowsSettle
<1>9. HandlersAreWinners'
  <2>1. \A p \in Operators : p # o => operator'[p] = operator[p]
    BY <1>0, <1>1, Typed
  <2>2. operator'[o] = [pc |-> "store", id |-> id, value |-> v]
    BY <1>0, <1>1, Typed
  <2> SUFFICES ASSUME NEW p \in Operators, operator'[p].pc # "idle"
               PROVE  /\ operator'[p].id \in Ids
                      /\ row'[operator'[p].id].status = "resolved"
                      /\ row'[operator'[p].id].value = operator'[p].value
                      /\ operator'[p].pc = "arm" => operator'[p].value \in Values
    BY DEF HandlersAreWinners
  <2>3. CASE p = o
    BY <1>4, <2>2, <2>3
  <2>4. CASE p # o
    BY <1>0, <1>8, <2>1, <2>4 DEF HandlersAreWinners
  <2> QED
    BY <2>3, <2>4
<1>10. EventsAreTrue'
  <2> SUFFICES ASSUME NEW i \in Ids, announced'[i] \in Resolutions
               PROVE  row'[i].status = announced'[i]
    BY DEF EventsAreTrue
  <2>1. CASE i = id
    BY <1>0, <1>1, <1>4, <2>1 DEF TypeOK
  <2>2. CASE i # id
    BY <1>0, <1>1, <1>4, <2>2 DEF TypeOK, EventsAreTrue, RowsSettle
  <2> QED
    BY <2>1, <2>2
<1>11. StoreHoldsARecordedAnswer'
  <2> SUFFICES ASSUME NEW n \in Names, store[n] # NoValue
               PROVE  \E i \in Ids : /\ row'[i].status = "resolved"
                                     /\ row'[i].name = n
                                     /\ row'[i].value = store[n]
    BY <1>2 DEF StoreHoldsARecordedAnswer
  <2>1. PICK i \in Ids : row[i].status = "resolved" /\ row[i].name = n /\ row[i].value = store[n]
    BY <1>0 DEF StoreHoldsARecordedAnswer
  <2> QED
    BY <1>8, <2>1
<1> QED
  BY <1>6, <1>7, <1>9, <1>10, <1>11 DEF IInv

LEMMA StoreKeeps ==
  ASSUME IInv, NEW o \in Operators, Store(o) \/ SkipStore(o) \/ Arm(o)
  PROVE  IInv'
<1>0. TypeOK /\ OneOpenWait /\ HandlersAreWinners /\ EventsAreTrue /\ StoreHoldsARecordedAnswer
  BY DEF IInv
<1>1. UNCHANGED <<now, row, agent, answer, announced, load>> /\ operator[o].pc # "idle"
  BY DEF Store, SkipStore, Arm
<1>2. OneOpenWait' /\ EventsAreTrue'
  BY <1>0, <1>1 DEF OneOpenWait, EventsAreTrue
<1>3. /\ operator[o].id \in Ids
      /\ row[operator[o].id].status = "resolved"
      /\ row[operator[o].id].value = operator[o].value
      /\ operator[o].pc = "arm" => operator[o].value \in Values
  BY <1>0, <1>1 DEF HandlersAreWinners
<1>4. operator[o] \in OperatorType /\ row[operator[o].id] \in RowType
  BY <1>0, <1>3, Typed
<1>5. CASE Store(o)
  <2> DEFINE n == row[operator[o].id].name
  <2>1. /\ n \in Names /\ operator[o].value \in Values
        /\ store' = [store EXCEPT ![n] = operator[o].value]
        /\ operator' = [operator EXCEPT ![o].pc = "arm"]
        /\ UNCHANGED armed
    BY <1>4, <1>5 DEF Store, RowType, OperatorType
  <2>2. [operator[o] EXCEPT !.pc = "arm"] \in OperatorType
    BY <1>4 DEF OperatorType
  <2>3. operator' \in [Operators -> OperatorType]
    BY <1>0, <2>1, <2>2, Typed
  <2>4. TypeOK'
    BY <1>0, <1>1, <2>1, <2>3 DEF TypeOK, OperatorType
  <2>5. HandlersAreWinners'
    BY <1>0, <1>1, <1>3, <1>4, <2>1, Typed DEF HandlersAreWinners, OperatorType
  <2>6. StoreHoldsARecordedAnswer'
    <3> SUFFICES ASSUME NEW m \in Names, store'[m] # NoValue
                 PROVE  \E i \in Ids : /\ row[i].status = "resolved"
                                       /\ row[i].name = m
                                       /\ row[i].value = store'[m]
      BY <1>1 DEF StoreHoldsARecordedAnswer
    <3>1. CASE m = n
      BY <1>0, <1>3, <2>1, <3>1 DEF TypeOK
    <3>2. CASE m # n
      BY <1>0, <2>1, <3>2 DEF TypeOK, StoreHoldsARecordedAnswer
    <3> QED
      BY <3>1, <3>2
  <2> QED
    BY <1>2, <2>4, <2>5, <2>6 DEF IInv
<1>6. CASE SkipStore(o) \/ Arm(o)
  <2>1. /\ operator' = [operator EXCEPT ![o] = NoCall] /\ UNCHANGED store
        /\ armed' = armed \/ (armed' = armed \cup {operator[o].value} /\ operator[o].value \in Values)
    BY <1>3, <1>6 DEF SkipStore, Arm
  <2>2. operator' \in [Operators -> OperatorType]
    BY <1>0, <2>1, Typed DEF OperatorType
  <2>3. TypeOK'
    BY <1>0, <1>1, <2>1, <2>2 DEF TypeOK, OperatorType
  <2>4. HandlersAreWinners' /\ StoreHoldsARecordedAnswer'
    BY <1>0, <1>1, <2>1, Typed DEF HandlersAreWinners, StoreHoldsARecordedAnswer
  <2> QED
    BY <1>2, <2>3, <2>4 DEF IInv
<1> QED
  BY <1>5, <1>6

LEMMA CancelKeeps ==
  ASSUME IInv, NEW id \in Ids, Cancel(id)
  PROVE  IInv'
<1>0. TypeOK /\ OneOpenWait /\ HandlersAreWinners /\ EventsAreTrue /\ StoreHoldsARecordedAnswer
  BY DEF IInv
<1>1. /\ row[id].status = "pending"
      /\ row' = [row EXCEPT ![id].status = "cancelled"]
      /\ announced' = [announced EXCEPT ![id] = "cancelled"]
      /\ UNCHANGED <<now, agent, answer, operator, store, armed, load>>
  BY DEF Cancel, secrets
<1>2. row[id] \in RowType
  BY <1>0, Typed
<1>3. row' = [row EXCEPT ![id] = [row[id] EXCEPT !.status = "cancelled", !.value = row[id].value]]
  BY <1>0, <1>1, <1>2, Typed DEF RowType
<1>4. RowsSettle /\ row'[id].status = "cancelled"
  <2>1. "cancelled" \in Statuses \ {"absent"} /\ row[id].value \in Values \cup {NoValue}
    BY <1>2 DEF RowType
  <2> HIDE DEF Statuses
  <2> QED
    BY <1>0, <1>1, <1>3, <2>1, GuardedUpdate, ZenonT(40)
<1>5. TypeOK'
  BY <1>0, <1>1, <1>4 DEF TypeOK, RowsSettle, RowType
<1>6. OneOpenWait'
  BY <1>0, <1>1, <1>4, WaitsUntouched
<1>7. \A i \in Ids : row[i].status = "resolved" => row'[i] = row[i]
  BY <1>4 DEF RowsSettle
<1>8. HandlersAreWinners'
  BY <1>0, <1>1, <1>7 DEF HandlersAreWinners
<1>9. EventsAreTrue'
  <2> SUFFICES ASSUME NEW i \in Ids, announced'[i] \in Resolutions
               PROVE  row'[i].status = announced'[i]
    BY DEF EventsAreTrue
  <2>1. CASE i = id
    BY <1>0, <1>1, <1>4, <2>1 DEF TypeOK
  <2>2. CASE i # id
    BY <1>0, <1>1, <1>4, <2>2 DEF TypeOK, EventsAreTrue, RowsSettle
  <2> QED
    BY <2>1, <2>2
<1>10. StoreHoldsARecordedAnswer'
  <2> SUFFICES ASSUME NEW n \in Names, store[n] # NoValue
               PROVE  \E i \in Ids : /\ row'[i].status = "resolved"
                                     /\ row'[i].name = n
                                     /\ row'[i].value = store[n]
    BY <1>1 DEF StoreHoldsARecordedAnswer
  <2>1. PICK i \in Ids : row[i].status = "resolved" /\ row[i].name = n /\ row[i].value = store[n]
    BY <1>0 DEF StoreHoldsARecordedAnswer
  <2> QED
    BY <1>7, <2>1
<1> QED
  BY <1>5, <1>6, <1>8, <1>9, <1>10 DEF IInv

-----------------------------------------------------------------------------
(* The sweep, the clock and the process.                                    *)

LEMMA SweepKeeps ==
  ASSUME IInv, CheckExpired
  PROVE  IInv'
<1>0. TypeOK /\ OneOpenWait /\ HandlersAreWinners /\ EventsAreTrue /\ StoreHoldsARecordedAnswer
  BY DEF IInv
<1>1. UNCHANGED <<now, agent, answer, announced, operator, store, armed, load>>
  BY DEF CheckExpired, secrets
<1>2. RowsSettle
  <2>1. \A id \in Ids : row[id] \in RowType
    BY <1>0, Typed
  <2>2. \A id \in Ids : [row[id] EXCEPT !.status = "expired"] \in RowType
    BY <2>1 DEF RowType
  <2>3. \A id \in Ids : row'[id] = IF Overdue(id) THEN [row[id] EXCEPT !.status = "expired"]
                                                  ELSE row[id]
    BY DEF CheckExpired
  <2>4. row' \in [Ids -> RowType]
    BY <2>1, <2>2 DEF CheckExpired
  <2>5. \A id \in Ids : row[id].status # "pending" => row'[id] = row[id]
    BY <2>3 DEF Overdue
  <2>6. \A id \in Ids : row'[id].status # row[id].status => row'[id].status = "expired"
    BY <2>1, <2>3 DEF RowType
  <2> QED
    BY <2>4, <2>5, <2>6 DEF RowsSettle
<1>3. TypeOK'
  BY <1>0, <1>1, <1>2 DEF TypeOK, RowsSettle, RowType
<1> QED
  BY <1>0, <1>1, <1>2, <1>3, WaitsUntouched, RecordsUntouched DEF IInv

LEMMA TickKeeps ==
  ASSUME IInv, Tick
  PROVE  IInv'
<1>1. UNCHANGED <<row, agent, answer, announced, operator, store, armed, load>> /\ now' = now + 1
  BY DEF Tick, secrets
<1>2. TypeOK'
  BY <1>1 DEF IInv, TypeOK
<1> QED
  BY <1>1, <1>2 DEF IInv, OneOpenWait, HandlersAreWinners, EventsAreTrue, StoreHoldsARecordedAnswer

\* resolve of the secrets holder touches the redactor only.
LEMMA EnsureArmedKeeps ==
  ASSUME IInv, EnsureArmed
  PROVE  IInv'
<1>0. TypeOK /\ OneOpenWait /\ HandlersAreWinners /\ EventsAreTrue /\ StoreHoldsARecordedAnswer
  BY DEF IInv
<1>1. UNCHANGED <<now, row, agent, answer, announced, operator, store>>
  BY DEF EnsureArmed
<1>2. Held \subseteq Values
  BY <1>0 DEF Held, TypeOK
<1>3. armed' \subseteq Values /\ load' \in {"due", "none", "whole", "broken"}
  BY <1>0, <1>2 DEF EnsureArmed, TypeOK
<1>4. TypeOK'
  BY <1>0, <1>1, <1>3 DEF TypeOK
<1>5. OneOpenWait' /\ HandlersAreWinners'
  BY <1>0, <1>1 DEF OneOpenWait, HandlersAreWinners
<1>6. EventsAreTrue' /\ StoreHoldsARecordedAnswer'
  BY <1>0, <1>1 DEF EventsAreTrue, StoreHoldsARecordedAnswer
<1> QED
  BY <1>4, <1>5, <1>6 DEF IInv

LEMMA RestartKeeps ==
  ASSUME IInv, Restart
  PROVE  IInv'
<1>0. TypeOK /\ OneOpenWait /\ HandlersAreWinners /\ EventsAreTrue /\ StoreHoldsARecordedAnswer
  BY DEF IInv
<1>1. /\ agent' = [a \in Agents |-> NoWait]
      /\ operator' = [o \in Operators |-> NoCall]
      /\ armed' = {} /\ load' = "due"
      /\ UNCHANGED <<now, row, answer, announced, store>>
  BY DEF Restart
<1>2. agent' \in [Agents -> AgentType] /\ operator' \in [Operators -> OperatorType]
  BY <1>1 DEF AgentType, OperatorType
<1>3. armed' \subseteq Values
  BY <1>0, <1>1 DEF TypeOK
<1>4. TypeOK'
  BY <1>0, <1>1, <1>2, <1>3 DEF TypeOK, AgentType, OperatorType
<1>5. OneOpenWait' /\ HandlersAreWinners'
  BY <1>0, <1>1 DEF OneOpenWait, HandlersAreWinners
<1>6. EventsAreTrue' /\ StoreHoldsARecordedAnswer'
  BY <1>0, <1>1 DEF EventsAreTrue, StoreHoldsARecordedAnswer
<1> QED
  BY <1>4, <1>5, <1>6 DEF IInv

-----------------------------------------------------------------------------

\* In every reachable state waits are apart, handlers carry the recorded
\* answers, and events and provider agree with the table.
THEOREM Inductive == Spec => []IInv
<1>1. Init => IInv
  <2> SUFFICES ASSUME Init PROVE IInv
    OBVIOUS
  <2>1. TypeOK
    BY DEF Init, TypeOK
  <2>2. OneOpenWait /\ HandlersAreWinners
    BY DEF Init, OneOpenWait, HandlersAreWinners
  <2>3. EventsAreTrue /\ StoreHoldsARecordedAnswer
    BY DEF Init, EventsAreTrue, StoreHoldsARecordedAnswer
  <2> QED
    BY <2>1, <2>2, <2>3 DEF IInv
<1>2. IInv /\ [Next]_vars => IInv'
  <2> SUFFICES ASSUME IInv, [Next]_vars PROVE IInv'
    OBVIOUS
  <2>1. CASE UNCHANGED vars
    BY <2>1 DEF vars, IInv, TypeOK, OneOpenWait, HandlersAreWinners, EventsAreTrue,
       StoreHoldsARecordedAnswer
  <2>2. CASE Next
    BY <2>2, CreateKeeps, WaitStepKeeps, ResolveKeeps, StoreKeeps, CancelKeeps, SweepKeeps,
       EnsureArmedKeeps, TickKeeps, RestartKeeps DEF Next
  <2> QED
    BY <2>1, <2>2
<1> QED
  BY <1>1, <1>2, PTL DEF Spec

\* human_request.go and its steps keep the types of rows, waits and handlers.
THEOREM TypeCorrect == Spec => []TypeOK
<1>1. IInv => TypeOK
  BY DEF IInv
<1> QED
  BY <1>1, Inductive, PTL

\* Resolve: no event announces an answer the table does not record, whoever
\* loses the race for the request.
THEOREM EventsTrue == Spec => []EventsAreTrue
<1>1. IInv => EventsAreTrue
  BY DEF IInv
<1> QED
  BY <1>1, Inductive, PTL

\* autoStoreSecret: the provider holds only what resolved rows record, for any
\* number of operators and restarts.
THEOREM StoredIsRecorded == Spec => []StoreHoldsARecordedAnswer
<1>1. IInv => StoreHoldsARecordedAnswer
  BY DEF IInv
<1> QED
  BY <1>1, Inductive, PTL

\* autoStoreSecret and resolve: in a process whose load has worked, the provider
\* holds no value the redactor lacks, but for one whose handler arms it next.
THEOREM StoredMasked == Spec => []StoredIsMasked
<1>1. Init => StoredIsMasked
  BY DEF Init, StoredIsMasked
<1>2. IInv /\ StoredIsMasked /\ [Next]_vars => StoredIsMasked'
  <2> SUFFICES ASSUME IInv, StoredIsMasked, [Next]_vars, load' = "whole", NEW v \in Held'
               PROVE  v \in armed' \/ \E o \in Operators :
                                       operator'[o].pc = "arm" /\ operator'[o].value = v
    BY DEF StoredIsMasked
  <2>0. operator \in [Operators -> OperatorType] /\ store \in [Names -> Values \cup {NoValue}]
    BY Typed DEF IInv, TypeOK
  \* As long as nothing is stored or loaded, the handlers that are to arm matter.
  <2>a. ASSUME UNCHANGED <<store, load>>, armed \subseteq armed',
               \A o \in Operators : operator[o].pc = "arm" =>
                 operator'[o] = operator[o] \/ operator[o].value \in armed'
        PROVE  v \in armed' \/ \E o \in Operators :
                                 operator'[o].pc = "arm" /\ operator'[o].value = v
    <3>1. v \in Held /\ load = "whole"
      BY <2>a DEF Held
    <3>2. CASE v \in armed
      BY <2>a, <3>2
    <3>3. CASE \E o \in Operators : operator[o].pc = "arm" /\ operator[o].value = v
      BY <2>a, <3>3
    <3> QED
      BY <3>1, <3>2, <3>3 DEF StoredIsMasked
  <2>1. ASSUME NEW o \in Operators, Resolve(o) \/ SkipStore(o) \/ Arm(o)
        PROVE  v \in armed' \/ \E p \in Operators :
                                 operator'[p].pc = "arm" /\ operator'[p].value = v
    <3>1. /\ UNCHANGED <<store, load>> /\ armed \subseteq armed'
          /\ operator[o].pc = "arm" => operator[o].value \in armed'
      BY <2>1 DEF Resolve, SkipStore, Arm
    <3>2. \A p \in Operators : p # o => operator'[p] = operator[p]
      BY <2>0, <2>1 DEF Resolve, SkipStore, Arm
    <3> QED
      BY <2>a, <3>1, <3>2
  <2>2. ASSUME NEW o \in Operators, Store(o)
        PROVE  v \in armed' \/ \E p \in Operators :
                                 operator'[p].pc = "arm" /\ operator'[p].value = v
    <3>1. /\ operator[o].pc = "store" /\ UNCHANGED <<armed, load>>
          /\ store' = [store EXCEPT ![row[operator[o].id].name] = operator[o].value]
          /\ operator' = [operator EXCEPT ![o].pc = "arm"]
      BY <2>2 DEF Store
    <3>2. operator'[o].pc = "arm" /\ operator'[o].value = operator[o].value
      BY <2>0, <3>1 DEF OperatorType
    <3>3. \A p \in Operators : operator[p].pc = "arm" => operator'[p] = operator[p]
      BY <2>0, <3>1
    <3>4. v \in Held \/ v = operator[o].value
      BY <2>0, <3>1 DEF Held
    <3> QED
      BY <3>1, <3>2, <3>3, <3>4 DEF StoredIsMasked
  <2>3. CASE EnsureArmed
    <3>1. armed' = Held /\ UNCHANGED store
      BY <2>3 DEF EnsureArmed
    <3> QED
      BY <3>1 DEF Held
  <2>4. CASE Restart
    BY <2>4 DEF Restart
  <2>5. ASSUME UNCHANGED <<operator, store, armed, load>>
        PROVE  v \in armed' \/ \E o \in Operators :
                                 operator'[o].pc = "arm" /\ operator'[o].value = v
    BY <2>5, <2>a
  <2> QED
    BY <2>1, <2>2, <2>3, <2>4, <2>5
       DEF Next, Create, WaitStep, Poll, PollFails, Expire, Sleep, Wake, WakeCancelled,
           CancelContext, Cancel, CheckExpired, Tick, secrets, vars
<1> QED
  BY <1>1, <1>2, Inductive, PTL DEF Spec

-----------------------------------------------------------------------------
(* Action properties and refinement.                                        *)

\* What a step does to the status of a row.
LEMMA Statements ==
  ASSUME IInv, [Next]_vars
  PROVE  \/ row' = row
         \/ \E a \in Agents : Create(a)
         \/ \E a \in Agents : Expire(a) /\ row[agent[a].id].status = "pending"
                              /\ row' = [row EXCEPT ![agent[a].id].status = "expired"]
         \/ \E o \in Operators : Resolve(o)
         \/ \E id \in Ids : Cancel(id)
         \/ CheckExpired
BY DEF Next, WaitStep, Poll, PollFails, Expire, Sleep, Wake, WakeCancelled, CancelContext,
       Store, SkipStore, Arm, EnsureArmed, Tick, Restart, vars

\* CheckExpired and WaitForResolution: a pending request expires only when its
\* own timeout, if it has one, or its waiter's deadline has passed.
THEOREM NoEarlyExpiry == Spec => NeverExpiresEarly
<1> DEFINE Due(id) == \/ row[id].due > 0 /\ now > row[id].due
                      \/ \E a \in Agents :
                           agent[a].pc # "idle" /\ agent[a].id = id /\ now > agent[a].deadline
           Early == [\A id \in Ids : row[id].status = "pending" /\ row'[id].status = "expired"
                                       => Due(id)]_vars
<1>1. IInv /\ [Next]_vars => Early
  <2> SUFFICES ASSUME IInv, [Next]_vars, NEW id \in Ids,
                      row[id].status = "pending", row'[id].status = "expired"
               PROVE  Due(id)
    OBVIOUS
  <2>0. row \in [Ids -> RowType] /\ now \in Nat
    BY Typed DEF IInv, TypeOK
  <2>1. row' # row
    OBVIOUS
  <2>2. ASSUME NEW a \in Agents, Create(a) PROVE FALSE
    BY <2>0, <2>2 DEF Create
  <2>3. ASSUME NEW a \in Agents, Expire(a), row' = [row EXCEPT ![agent[a].id].status = "expired"]
        PROVE  Due(id)
    <3>1. agent[a].id = id
      BY <2>0, <2>3
    <3> QED
      BY <2>3, <3>1 DEF Expire
  <2>4. ASSUME NEW o \in Operators, Resolve(o) PROVE FALSE
    <3>1. PICK i \in Ids, v \in Values \cup {NoValue} :
            row' = [row EXCEPT ![i].status = "resolved", ![i].value = v]
      BY <2>4 DEF Resolve
    <3> QED
      BY <2>0, <3>1 DEF RowType
  <2>5. ASSUME NEW i \in Ids, Cancel(i) PROVE FALSE
    BY <2>0, <2>5 DEF Cancel, RowType
  <2>6. CASE CheckExpired
    <3>1. Overdue(id)
      BY <2>6 DEF CheckExpired
    <3> QED
      BY <2>0, <3>1 DEF Overdue, RowType
  <2> HIDE DEF Due
  <2> QED
    BY <2>1, <2>2, <2>3, <2>4, <2>5, <2>6, Statements
<1> QED
  BY <1>1, Inductive, PTL DEF Spec, NeverExpiresEarly

\* The gate's status of each request.
status == [id \in Ids |-> row[id].status]

LEMMA OpenIsAStep ==
  ASSUME NEW id \in Ids, Gate!Open(id)
  PROVE  Gate!Next
BY DEF Gate!Next

LEMMA DecideIsAStep ==
  ASSUME NEW id \in Ids, NEW d \in Resolutions, Gate!Decide(id, d)
  PROVE  Gate!Next
BY DEF Gate!Next

LEMMA GiveUpIsAStep ==
  ASSUME NEW id \in Ids, Gate!GiveUp(id)
  PROVE  Gate!Next
BY DEF Gate!Next

LEMMA SweepIsAStep ==
  ASSUME NEW S \in SUBSET Ids, Gate!Lapse(S), UNCHANGED answer
  PROVE  Gate!Next
BY DEF Gate!Next, Gate!Sweep

\* The human-request gate implements the one-shot decision gate: every statement
\* against the table is a step of it or changes nothing it can see.
THEOREM Refinement == Spec => ImplementsGate
<1> USE DEF status, Gate!Pending, Gate!Absent, Gate!NoAnswer
<1>1. Init => Gate!Init
  BY DEF Init, Gate!Init
<1>2. IInv /\ [Next]_vars => [Gate!Next]_(Gate!vars)
  <2> SUFFICES ASSUME IInv, [Next]_vars
               PROVE  [Gate!Next]_(Gate!vars)
    OBVIOUS
  <2> USE DEF Gate!vars
  <2>0. /\ row \in [Ids -> RowType] /\ answer \in [Ids -> Answers]
        /\ \A a \in Agents : agent[a].pc # "idle" =>
             /\ agent[a].id \in Ids /\ row[agent[a].id].status # "absent"
             /\ answer[agent[a].id] = "none"
    BY Typed DEF IInv, TypeOK, OneOpenWait
  <2>1. ASSUME NEW a \in Agents, Create(a)
        PROVE  Gate!Next
    <3>1. PICK id \in Ids, t \in RowTimeouts, n \in Names \cup {"noname"} :
            /\ row[id].status = "absent"
            /\ row' = [row EXCEPT ![id] = [NoRow EXCEPT !.status = "pending", !.name = n,
                                            !.due = IF t = 0 THEN 0 ELSE now + t]]
      BY <2>1 DEF Create
    <3>2. status[id] = "absent" /\ status' = [status EXCEPT ![id] = "pending"]
      BY <2>0, <3>1
    <3>3. Gate!Open(id)
      BY <2>1, <3>2 DEF Create, Gate!Open
    <3> QED
      BY <3>3, OpenIsAStep
  <2>2. ASSUME NEW a \in Agents, Poll(a)
        PROVE  [Gate!Next]_(Gate!vars)
    <3>1. PICK r \in Ids : r = agent[a].id /\ row[r].status # "absent" /\ answer[r] = "none"
                           /\ UNCHANGED row
      BY <2>0, <2>2 DEF Poll
    <3>2. CASE row[r].status = "pending"
      BY <2>2, <3>1, <3>2 DEF Poll
    <3>3. CASE row[r].status # "pending"
      <4>1. answer' = [answer EXCEPT ![r] = row[r].status]
        BY <2>2, <3>1, <3>3 DEF Poll, Return
      <4>2. row[r].status \in {"expired"} \cup Resolutions
        BY <2>0, <3>1, <3>3 DEF RowType
      <4>3. Gate!Report(r)
        BY <3>1, <4>1, <4>2 DEF Gate!Report
      <4> QED
        BY <4>3 DEF Gate!Next
    <3> QED
      BY <3>2, <3>3
  <2>3. ASSUME NEW a \in Agents, PollFails(a) \/ WakeCancelled(a)
        PROVE  Gate!Next
    <3>1. PICK r \in Ids : r = agent[a].id /\ row[r].status # "absent" /\ answer[r] = "none"
                           /\ UNCHANGED row /\ answer' = [answer EXCEPT ![r] = "error"]
      BY <2>0, <2>3 DEF PollFails, WakeCancelled, Return
    <3>2. Gate!GiveUp(r)
      BY <3>1 DEF Gate!GiveUp
    <3> QED
      BY <3>2, GiveUpIsAStep
  <2>4. ASSUME NEW a \in Agents, Expire(a)
        PROVE  Gate!Next
    <3>1. PICK r \in Ids : r = agent[a].id /\ row[r].status # "absent" /\ answer[r] = "none"
                           /\ answer' = [answer EXCEPT ![r] = "expired"]
      BY <2>0, <2>4 DEF Expire, Return
    <3>2. CASE UNCHANGED row
      <4>1. Gate!GiveUp(r)
        BY <3>1, <3>2 DEF Gate!GiveUp
      <4> QED
        BY <4>1, GiveUpIsAStep
    <3>3. CASE row[r].status = "pending" /\ row' = [row EXCEPT ![r].status = "expired"]
      <4>1. status' = [status EXCEPT ![r] = "expired"] /\ status[r] = "pending"
        BY <2>0, <3>3 DEF RowType
      <4>2. Gate!Lapse({r})
        BY <4>1 DEF Gate!Lapse
      <4>3. Gate!GiveUp(r)
        BY <3>1, <4>2 DEF Gate!GiveUp
      <4> QED
        BY <4>3, GiveUpIsAStep
    <3> QED
      BY <2>4, <3>1, <3>2, <3>3 DEF Expire
  <2>5. ASSUME NEW o \in Operators, Resolve(o)
        PROVE  Gate!Next
    <3>1. PICK id \in Ids, v \in Values \cup {NoValue} :
            /\ row[id].status = "pending" /\ UNCHANGED answer
            /\ row' = [row EXCEPT ![id].status = "resolved", ![id].value = v]
      BY <2>5 DEF Resolve
    <3>2. status[id] = "pending" /\ status' = [status EXCEPT ![id] = "resolved"]
      BY <2>0, <3>1 DEF RowType
    <3>3. Gate!Decide(id, "resolved")
      BY <3>1, <3>2 DEF Gate!Decide
    <3> QED
      BY <3>3, DecideIsAStep
  <2>6. ASSUME NEW id \in Ids, Cancel(id)
        PROVE  Gate!Next
    <3>1. status[id] = "pending" /\ status' = [status EXCEPT ![id] = "cancelled"]
      BY <2>0, <2>6 DEF Cancel, RowType
    <3>2. Gate!Decide(id, "cancelled")
      BY <2>6, <3>1 DEF Cancel, Gate!Decide
    <3> QED
      BY <3>2, DecideIsAStep
  <2>7. CASE CheckExpired
    <3>0. PICK S \in SUBSET Ids : S = {id \in Ids : Overdue(id)}
      OBVIOUS
    <3>1. \A id \in S : status[id] = "pending"
      BY <3>0 DEF Overdue
    <3>2. status' = [id \in Ids |-> IF id \in S THEN "expired" ELSE status[id]]
      BY <2>0, <2>7, <3>0 DEF CheckExpired, RowType
    <3>3. Gate!Lapse(S) /\ UNCHANGED answer
      BY <2>7, <3>1, <3>2 DEF CheckExpired, Gate!Lapse
    <3> QED
      BY <3>3, SweepIsAStep
  <2>8. CASE UNCHANGED <<row, answer>>
    BY <2>8
  <2> QED
    BY <2>1, <2>2, <2>3, <2>4, <2>5, <2>6, <2>7, <2>8
       DEF Next, WaitStep, Sleep, Wake, CancelContext, Store, SkipStore, Arm, EnsureArmed, Tick,
           Restart, secrets, vars
<1> QED
  BY <1>1, <1>2, Inductive, PTL DEF Spec, ImplementsGate, Gate!Spec
=============================================================================
