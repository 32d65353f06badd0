------------------------------ MODULE EventHub ------------------------------
(***************************************************************************)
(* The blackboard and the SSE hub (orchestrator/blackboard.go,             *)
(* step_blackboard.go, module_sse_hub.go): an artifact is stored, then     *)
(* handed to those who subscribed in this process, then broadcast to the   *)
(* clients of the hub.  Every listener has a bounded channel in a list; a  *)
(* full one misses the artifact.  Listeners come and go meanwhile, and the *)
(* hub is stopped: a send on a closed channel, or a second close, would    *)
(* end the process.                                                        *)
(***************************************************************************)
EXTENDS Integers, Sequences, SequencesExt

CONSTANTS
  Artifacts,    \* bound: artifacts posted, each by a goroutine of its own
  Subscribers,  \* of the blackboard, for one phase or for all
  Clients,      \* of the hub
  QueueSize     \* of a channel, 64 in the code

VARIABLES
  post,     \* the calls of Post
  stored,   \* table blackboard_artifacts
  clock,    \* the time
  listener, \* the channels and where they are in the life of their owner
  latest    \* the time of the artifact that ReadLatest last found, 0 for none

hubvars == <<post, stored, clock, listener, latest>>

Listeners == Subscribers \cup Clients
Nobody == [pc |-> "none", key |-> "", listed |-> FALSE, closes |-> 0, queue |-> <<>>, got |-> <<>>]

TypeOK ==
  /\ post \in [Artifacts -> [pc : {"idle", "store", "notify", "broadcast", "over"},
                             phase : {"", "design"}, time : Nat]]
  /\ stored \subseteq Artifacts /\ clock \in 0 .. Len(SetToSeq(Artifacts)) /\ latest \in 0 .. clock
  /\ listener \in [Listeners -> [pc : {"none", "on", "out", "close", "gone"}, key : {"", "design"},
                                 listed : BOOLEAN, closes : 0 .. 2,
                                 queue : Seq(Artifacts), got : Seq(Artifacts)]]

Init ==
  /\ post \in [Artifacts -> [pc : {"idle"}, phase : {"", "design"}, time : {0}]]
  /\ stored = {} /\ clock = 0 /\ latest = 0
  /\ listener = [l \in Listeners |-> Nobody]

-----------------------------------------------------------------------------
(* Post *)

\* An artifact gets its time before it is stored.
Post(a) ==
  /\ post[a].pc = "idle"
  /\ clock' = clock + 1
  /\ post' = [post EXCEPT ![a].pc = "store", ![a].time = clock + 1]
  /\ UNCHANGED <<stored, listener, latest>>

\* Variant: the error is for the caller alone.
StoreAnyway(a) ==
  /\ post[a].pc = "store"
  /\ stored' \in {stored, stored \cup {a}} /\ post' = [post EXCEPT ![a].pc = "notify"]
  /\ UNCHANGED <<clock, listener, latest>>

Store(a) ==
  /\ post[a].pc = "store"
  /\ \/ stored' = stored \cup {a} /\ post' = [post EXCEPT ![a].pc = "notify"]
     \/ stored' = stored /\ post' = [post EXCEPT ![a].pc = "over"]
  /\ UNCHANGED <<clock, listener, latest>>

\* Subscribers to the phase, and those to all of them unless that was the phase.
Sent(a, l) == l \in Subscribers /\ listener[l].key \in {post[a].phase, ""}

\* What does not fit is dropped.
Queued(l, a) ==
  [listener[l] EXCEPT !.queue = IF Len(@) < QueueSize THEN Append(@, a) ELSE @,
                      !.closes = IF @ > 0 THEN 2 ELSE @]

Notify(a) ==
  /\ post[a].pc = "notify"
  /\ listener' = [l \in Listeners |-> IF Sent(a, l) /\ listener[l].listed THEN Queued(l, a)
                                      ELSE listener[l]]
  /\ post' = [post EXCEPT ![a].pc = "broadcast"]
  /\ UNCHANGED <<stored, clock, latest>>

Broadcast(a) ==
  /\ post[a].pc = "broadcast"
  /\ listener' = [l \in Listeners |-> IF l \in Clients /\ listener[l].listed THEN Queued(l, a)
                                      ELSE listener[l]]
  /\ post' = [post EXCEPT ![a].pc = "over"]
  /\ UNCHANGED <<stored, clock, latest>>

\* The phase "design" is read again and again.
ReadLatest ==
  LET times == {post[a].time : a \in {x \in stored : post[x].phase = "design"}} IN
  /\ times # {} /\ latest' = CHOOSE t \in times : \A u \in times : t >= u
  /\ UNCHANGED <<post, stored, clock, listener>>

-----------------------------------------------------------------------------
(* Listeners *)

Set(l, r) == listener' = [listener EXCEPT ![l] = r] /\ UNCHANGED <<post, stored, clock, latest>>

Listen(l) ==
  /\ listener[l].pc = "none"
  /\ \E key \in (IF l \in Subscribers THEN {"", "design"} ELSE {""}) :
       Set(l, [Nobody EXCEPT !.pc = "on", !.listed = TRUE, !.key = key])

\* A listener whose channel is closed and empty is at its end.
Receive(l) ==
  /\ listener[l].pc = "on" /\ listener[l].queue # <<>>
  /\ Set(l, [listener[l] EXCEPT !.queue = Tail(@), !.got = Append(@, Head(listener[l].queue))])

\* The context of the subscription or of the request is over, or the hub closed.
Leave(l) ==
  /\ listener[l].pc = "on"
  /\ Set(l, [listener[l] EXCEPT !.pc = "out"])

\* Off the list, under the lock; a client that was not on it any more has a
\* channel that the hub has closed.
Unlist(l) ==
  /\ listener[l].pc = "out"
  /\ Set(l, [listener[l] EXCEPT !.listed = FALSE,
                                !.pc = IF l \in Clients /\ ~listener[l].listed THEN "gone" ELSE "close"])

CloseChannel(l) ==
  /\ listener[l].pc = "close"
  /\ Set(l, [listener[l] EXCEPT !.pc = "gone", !.closes = IF @ < 2 THEN @ + 1 ELSE @,
                                !.queue = <<>>, !.got = <<>>])

\* The hub is stopped: every client on the list is closed and taken off it.
Stop ==
  /\ \E c \in Clients : listener[c].listed
  /\ listener' = [l \in Listeners |->
                    IF l \in Clients /\ listener[l].listed
                    THEN [listener[l] EXCEPT !.listed = FALSE, !.closes = @ + 1] ELSE listener[l]]
  /\ UNCHANGED <<post, stored, clock, latest>>

Next ==
  \/ \E a \in Artifacts : Post(a) \/ Store(a) \/ Notify(a) \/ Broadcast(a)
  \/ \E l \in Listeners : Listen(l) \/ Receive(l) \/ Leave(l) \/ Unlist(l) \/ CloseChannel(l)
  \/ ReadLatest \/ Stop

Spec == Init /\ [][Next]_hubvars

-----------------------------------------------------------------------------
(* Properties *)

\* Nothing is sent to a closed channel and none is closed twice, in whatever
\* order listeners leave, artifacts are sent and the hub is stopped.
ChannelsHoldUp ==
  \A l \in Listeners : listener[l].closes < 2 /\ (listener[l].listed => listener[l].closes = 0)

\* A listener is told at most once of an artifact, and only of stored ones.
ToldOnce ==
  \A l \in Listeners :
    LET told == listener[l].got \o listener[l].queue
    IN  IsInjective(told) /\ \A i \in DOMAIN told : told[i] \in stored

\* What the readers of a phase find never gets older, though artifacts are
\* stored in another order than that of their times.
LatestNeverGoesBack == [][latest' >= latest]_hubvars
=============================================================================
