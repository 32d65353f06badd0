---------------------------- MODULE HumanRequests ----------------------------
(***************************************************************************)
(* The human-request gate (orchestrator/human_request.go): an agent runs   *)
(* the request_human tool and, if it asked to block, waits for the answer; *)
(* an operator answers through the human_request_resolve step, which       *)
(* resolves the row and then, for a token request, stores the value in the *)
(* secrets provider and arms the redactor with it; CheckExpired sweeps.    *)
(* The redactor learns what the provider holds once in the life of a       *)
(* process, at the first use of either (secret_service.go).                *)
(*                                                                         *)
(* The operator's handler is three steps (resolve, store, arm), and a      *)
(* polling agent, another operator or a restart may come between them.     *)
(***************************************************************************)
EXTENDS Naturals

CONSTANTS
  Agents,       \* agent executions that may be in flight at once
  Operators,    \* concurrent calls of the resolve step
  Ids,          \* request ids that may be drawn
  Names,        \* secret names a token request may carry in its metadata
  Values,       \* token values an operator may supply
  NoValue,      \* an answer without a token value
  RowTimeouts,  \* values of timeout_minutes; 0 means none
  WaitTimeout,  \* the step's requestTimeout, in clock ticks
  Horizon       \* bound: the clock stops here

ASSUME HumanRequestsAssumption ==
  /\ RowTimeouts \subseteq Nat
  /\ WaitTimeout \in Nat
  /\ Horizon \in Nat
  /\ NoValue \notin Values
  /\ "noid" \notin Ids
  /\ "noname" \notin Names

VARIABLES
  now,        \* the wall clock
  row,        \* the human_requests table
  agent,      \* each agent's WaitForResolution call
  answer,     \* what the agent that asked was told
  announced,  \* the status the last SSE event about each request carried
  operator,   \* each resolve step's handler
  store,      \* the secrets provider
  armed,      \* the values the redactor masks
  load        \* what the holder's sync.Once has come to in this process

vars == <<now, row, agent, answer, announced, operator, store, armed, load>>

Resolutions == {"resolved", "cancelled"}
Statuses    == {"absent", "pending", "expired"} \cup Resolutions
Answers     == {"none", "expired", "error"} \cup Resolutions
Waiting     == {"get", "check", "sleep"}

NoWait   == [pc |-> "idle", id |-> "noid", deadline |-> 0, live |-> TRUE]
NoCall   == [pc |-> "idle", id |-> "noid", value |-> NoValue]
NoRow    == [status |-> "absent", due |-> 0, name |-> "noname", value |-> NoValue]

TypeOK ==
  /\ now \in Nat
  /\ row \in [Ids -> [status : Statuses, due : Nat, name : Names \cup {"noname"},
                      value : Values \cup {NoValue}]]
  /\ agent \in [Agents -> [pc : {"idle"} \cup Waiting, id : Ids \cup {"noid"},
                           deadline : Nat, live : BOOLEAN]]
  /\ answer \in [Ids -> Answers]
  /\ announced \in [Ids -> {"none", "pending"} \cup Resolutions]
  /\ operator \in [Operators -> [pc : {"idle", "store", "arm"}, id : Ids \cup {"noid"},
                                 value : Values \cup {NoValue}]]
  /\ store \in [Names -> Values \cup {NoValue}]
  /\ armed \subseteq Values
  /\ load \in {"due", "none", "whole", "broken"}

Init ==
  /\ now = 0
  /\ row = [id \in Ids |-> NoRow]
  /\ agent = [a \in Agents |-> NoWait]
  /\ answer = [id \in Ids |-> "none"]
  /\ announced = [id \in Ids |-> "none"]
  /\ operator = [o \in Operators |-> NoCall]
  /\ store = [n \in Names |-> NoValue]
  /\ armed = {}
  /\ load = "due"

secrets == <<operator, store, armed, load>>

-----------------------------------------------------------------------------
(* Agents *)

\* The request_human tool inserts a pending row, for a token if its metadata
\* names a secret.  A blocking request enters WaitForResolution; the guard
\* keeps every deadline within the clock's bound.
Create(a) ==
  /\ agent[a].pc = "idle"
  /\ now + WaitTimeout < Horizon
  /\ \E id \in Ids, t \in RowTimeouts, n \in Names \cup {"noname"}, blocking \in BOOLEAN :
       /\ row[id].status = "absent"
       /\ row' = [row EXCEPT ![id] = [NoRow EXCEPT !.status = "pending", !.name = n,
                                       !.due = IF t = 0 THEN 0 ELSE now + t]]
       /\ agent' = IF blocking
                     THEN [agent EXCEPT ![a] = [pc |-> "get", id |-> id,
                                                deadline |-> now + WaitTimeout, live |-> TRUE]]
                     ELSE agent
       /\ announced' = [announced EXCEPT ![id] = "pending"]
  /\ UNCHANGED <<now, answer, secrets>>

\* The call returns x to the loop.
Return(a, x) ==
  /\ answer' = [answer EXCEPT ![agent[a].id] = x]
  /\ agent' = [agent EXCEPT ![a] = NoWait]

Poll(a) ==
  /\ agent[a].pc = "get"
  /\ agent[a].live
  /\ LET s == row[agent[a].id].status IN
       IF s # "pending"
         THEN Return(a, s)
         ELSE agent' = [agent EXCEPT ![a].pc = "check"] /\ UNCHANGED answer
  /\ UNCHANGED <<now, row, announced, secrets>>

\* Get fails: the context is gone, or the database is.
PollFails(a) ==
  /\ agent[a].pc = "get"
  /\ Return(a, "error")
  /\ UNCHANGED <<now, row, announced, secrets>>

\* Past the deadline the row is marked if it is still pending; the answer does
\* not depend on whether it was.
Expire(a) ==
  /\ agent[a].pc = "check"
  /\ now > agent[a].deadline
  /\ \/ /\ agent[a].live
        /\ row[agent[a].id].status = "pending"
        /\ row' = [row EXCEPT ![agent[a].id].status = "expired"]
     \/ UNCHANGED row
  /\ Return(a, "expired")
  /\ UNCHANGED <<now, announced, secrets>>

Sleep(a) ==
  /\ agent[a].pc = "check"
  /\ now <= agent[a].deadline
  /\ agent' = [agent EXCEPT ![a].pc = "sleep"]
  /\ UNCHANGED <<now, row, answer, announced, secrets>>

Wake(a) ==
  /\ agent[a].pc = "sleep"
  /\ agent' = [agent EXCEPT ![a].pc = "get"]
  /\ UNCHANGED <<now, row, answer, announced, secrets>>

WakeCancelled(a) ==
  /\ agent[a].pc = "sleep"
  /\ ~agent[a].live
  /\ Return(a, "error")
  /\ UNCHANGED <<now, row, announced, secrets>>

\* The execution's context is cancelled while it waits.
CancelContext(a) ==
  /\ agent[a].pc \in Waiting
  /\ agent[a].live
  /\ agent' = [agent EXCEPT ![a].live = FALSE]
  /\ UNCHANGED <<now, row, answer, announced, secrets>>

-----------------------------------------------------------------------------
(* Operators *)

\* Variant: the handler does not look at the number of rows it changed.
ResolveUnchecked(o) ==
  /\ operator[o].pc = "idle"
  /\ \E id \in Ids, v \in Values \cup {NoValue} :
       /\ row[id].status # "absent"
       /\ row' = IF row[id].status = "pending"
                   THEN [row EXCEPT ![id].status = "resolved", ![id].value = v]
                   ELSE row
       /\ announced' = [announced EXCEPT ![id] = "resolved"]
       /\ operator' = [operator EXCEPT ![o] = [pc |-> "store", id |-> id, value |-> v]]
  /\ UNCHANGED <<now, agent, answer, store, armed, load>>

\* Resolve: the pending row takes the operator's answer and the event goes out;
\* a row that is not pending is an error and the handler stops there.
Resolve(o) ==
  /\ operator[o].pc = "idle"
  /\ \E id \in Ids, v \in Values \cup {NoValue} :
       /\ row[id].status = "pending"
       /\ row' = [row EXCEPT ![id].status = "resolved", ![id].value = v]
       /\ announced' = [announced EXCEPT ![id] = "resolved"]
       /\ operator' = [operator EXCEPT ![o] = [pc |-> "store", id |-> id, value |-> v]]
  /\ UNCHANGED <<now, agent, answer, store, armed, load>>

\* What the provider holds.
Held == {store[n] : n \in Names} \ {NoValue}

\* resolve, run once in a process by the first redaction or the first use of the
\* provider: there is no vault module, or it has no provider yet, and nobody
\* looks again; or the redactor is loaded from it, all of it or, when
\* LoadFromProvider fails, which nobody is told, what it got to.
EnsureArmed ==
  /\ load = "due"
  /\ \/ load' = "none" /\ UNCHANGED armed
     \/ load' = "whole" /\ armed' = Held
     \/ load' = "broken" /\ armed' \in SUBSET Held
  /\ UNCHANGED <<now, row, agent, answer, announced, operator, store>>

ProviderResolved == load \in {"whole", "broken"}

\* Variant: the redactor is not armed with what was stored.
StoreUnarmed(o) ==
  /\ operator[o].pc = "store" /\ ProviderResolved
  /\ row[operator[o].id].name # "noname" /\ operator[o].value # NoValue
  /\ store' = [store EXCEPT ![row[operator[o].id].name] = operator[o].value]
  /\ operator' = [operator EXCEPT ![o] = NoCall]
  /\ UNCHANGED <<now, row, agent, answer, announced, armed, load>>

\* autoStoreSecret: a token request with a secret name and a value is stored.
Store(o) ==
  /\ operator[o].pc = "store" /\ ProviderResolved
  /\ row[operator[o].id].name # "noname" /\ operator[o].value # NoValue
  /\ store' = [store EXCEPT ![row[operator[o].id].name] = operator[o].value]
  /\ operator' = [operator EXCEPT ![o].pc = "arm"]
  /\ UNCHANGED <<now, row, agent, answer, announced, armed, load>>

\* Nothing to store, no provider, or Set failed: the handler reports success
\* all the same.
SkipStore(o) ==
  /\ operator[o].pc = "store"
  /\ operator' = [operator EXCEPT ![o] = NoCall]
  /\ UNCHANGED <<now, row, agent, answer, announced, store, armed, load>>

Arm(o) ==
  /\ operator[o].pc = "arm"
  /\ armed' = armed \cup {operator[o].value}
  /\ operator' = [operator EXCEPT ![o] = NoCall]
  /\ UNCHANGED <<now, row, agent, answer, announced, store, load>>

Cancel(id) ==
  /\ row[id].status = "pending"
  /\ row' = [row EXCEPT ![id].status = "cancelled"]
  /\ announced' = [announced EXCEPT ![id] = "cancelled"]
  /\ UNCHANGED <<now, agent, answer, secrets>>

-----------------------------------------------------------------------------
(* The sweep, the clock, the process *)

\* Variant: a timeout of 0 taken for "at once".
OverdueOrUntimed(id) == row[id].status = "pending" /\ row[id].due < now

\* timeout_minutes > 0 AND datetime(created_at, ...) < datetime('now')
Overdue(id) == /\ row[id].status = "pending"
               /\ row[id].due > 0
               /\ row[id].due < now

\* Variant: the sweep forgets WHERE status = 'pending'.
CheckExpiredAnyStatus ==
  /\ \E id \in Ids : row[id].due > 0 /\ row[id].due < now
  /\ row' = [id \in Ids |-> IF row[id].due > 0 /\ row[id].due < now
                              THEN [row[id] EXCEPT !.status = "expired"] ELSE row[id]]
  /\ UNCHANGED <<now, agent, answer, announced, secrets>>

CheckExpired ==
  /\ \E id \in Ids : Overdue(id)
  /\ row' = [id \in Ids |-> IF Overdue(id) THEN [row[id] EXCEPT !.status = "expired"]
                                           ELSE row[id]]
  /\ UNCHANGED <<now, agent, answer, announced, secrets>>

Tick ==
  /\ now < Horizon
  /\ now' = now + 1
  /\ UNCHANGED <<row, agent, answer, announced, secrets>>

\* A restart loses the waits, the handlers in flight, and what the redactor
\* knew: the new process has its load before it.
Restart ==
  /\ \/ \E a \in Agents : agent[a].pc # "idle"
     \/ \E o \in Operators : operator[o].pc # "idle"
     \/ load # "due"
  /\ agent' = [a \in Agents |-> NoWait]
  /\ operator' = [o \in Operators |-> NoCall]
  /\ armed' = {}
  /\ load' = "due"
  /\ UNCHANGED <<now, row, answer, announced, store>>

-----------------------------------------------------------------------------

WaitStep(a) == \/ Poll(a) \/ PollFails(a) \/ Expire(a)
               \/ Sleep(a) \/ Wake(a) \/ WakeCancelled(a)

Next == \/ \E a \in Agents : Create(a) \/ WaitStep(a) \/ CancelContext(a)
        \/ \E o \in Operators : Resolve(o) \/ Store(o) \/ SkipStore(o) \/ Arm(o)
        \/ \E id \in Ids : Cancel(id)
        \/ CheckExpired
        \/ EnsureArmed
        \/ Tick
        \/ Restart

Spec == Init /\ [][Next]_vars

-----------------------------------------------------------------------------
(* Properties *)

\* The event stream never contradicts the table: an operator who loses the race
\* for a request gets an error and nobody hears of his answer.
EventsAreTrue ==
  \A id \in Ids : announced[id] \in Resolutions => row[id].status = announced[id]

\* What the secrets provider holds under a name is the answer some operator's
\* resolved row records for a token request of that name: the loser of a race
\* never gets his value stored, whichever handler runs last.
StoreHoldsARecordedAnswer ==
  \A n \in Names : store[n] # NoValue =>
    \E id \in Ids : /\ row[id].status = "resolved"
                    /\ row[id].name = n
                    /\ row[id].value = store[n]

\* A pending request expires only after its own timeout, if it has one, or
\* after the deadline of the agent that waits for it.
NeverExpiresEarly ==
  [][\A id \in Ids : row[id].status = "pending" /\ row'[id].status = "expired" =>
        \/ row[id].due > 0 /\ now > row[id].due
        \/ \E a \in Agents :
             agent[a].pc # "idle" /\ agent[a].id = id /\ now > agent[a].deadline]_vars

\* What a redaction can miss of the provider's values in a process whose load has
\* worked: nothing, however handlers overtake each other, but a value whose own
\* handler is between its two steps.  Where the load found no provider or failed,
\* what was stored before this process stays unmasked.
StoredIsMasked ==
  load = "whole" =>
    \A v \in Held : v \in armed \/ \E o \in Operators :
                                      operator[o].pc = "arm" /\ operator[o].value = v

\* The gate keeps the promises of DecisionGate.
Gate == INSTANCE DecisionGate WITH
          Decisions <- Resolutions, Lapsed <- "expired", Failed <- "error",
          decision <- [id \in Ids |-> row[id].status], answer <- answer

ImplementsGate == Gate!Spec

\* What the loop tells the model when a token request comes back resolved: "It
\* has been stored in secret ...".
ToldStoredIsStored ==
  \A id \in Ids : answer[id] = "resolved" /\ row[id].name # "noname"
                    => store[row[id].name] # NoValue
=============================================================================
