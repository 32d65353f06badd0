---------------------------- MODULE TestProviders ----------------------------
(***************************************************************************)
(* The test provider (orchestrator/test_provider*.go, and the copies under *)
(* provider/): a model call is answered by a person over HTTP, by a        *)
(* goroutine over two channels, or by a script.  Calls are concurrent, and *)
(* each has a timeout.                                                     *)
(*                                                                         *)
(* An answer is <<c>>, given by a tester who looked at call c, or <<n>>,   *)
(* step n of the script; summaries are answered <<0>>.                     *)
(***************************************************************************)
EXTENDS Integers, Sequences

CONSTANTS
  Chats,    \* calls of Chat, each made once (bound)
  Testers,  \* those who answer: requests of step.test_interact, goroutines of a test
  NSteps    \* steps of the script

VARIABLES
  source,   \* the configured response source, and whether its script loops
  chat,     \* the calls: where each is, and its answer
  pending,  \* HTTPSource.pending
  box,      \* responseCh of each call, a channel of one
  desk,     \* what each tester does, and the call it is about
  pipe,     \* ChannelSource: interactions and responses, channels of one
  idx       \* ScriptedSource.idx

testvars == <<source, chat, pending, box, desk, pipe, idx>>

Answers == {<<>>} \cup {<<x>> : x \in Chats \cup 0 .. NSteps}
Ended   == {"done", "failed"}

TypeOK ==
  /\ source \in [kind : {"http", "channel", "scripted"}, loop : BOOLEAN]
  /\ chat \in [Chats -> [pc : {"idle", "sending", "waiting", "cleaning", "delayed"} \cup Ended,
                         reply : Answers]]
  /\ pending \subseteq Chats
  /\ box \in [Chats -> Answers]
  /\ desk \in [Testers -> [pc : {"idle", "look", "deliver"}, about : SUBSET Chats]]
  /\ pipe \in [interactions : Answers, responses : Answers]
  /\ idx \in 0 .. NSteps

Init ==
  /\ source \in [kind : {"http", "channel", "scripted"}, loop : BOOLEAN]
  /\ source.loop => source.kind = "scripted"
  /\ chat = [c \in Chats |-> [pc |-> "idle", reply |-> <<>>]]
  /\ pending = {} /\ box = [c \in Chats |-> <<>>]
  /\ desk = [t \in Testers |-> [pc |-> "idle", about |-> {}]]
  /\ pipe = [interactions |-> <<>>, responses |-> <<>>]
  /\ idx = 0

At(c, pc) == chat' = [chat EXCEPT ![c].pc = pc]
End(c, pc, reply) == chat' = [chat EXCEPT ![c] = [pc |-> pc, reply |-> reply]]

-----------------------------------------------------------------------------
(* HTTPSource *)

Ask(c) ==
  /\ source.kind = "http" /\ chat[c].pc = "idle"
  /\ At(c, "waiting")
  /\ pending' = pending \cup {c}
  /\ UNCHANGED <<source, box, desk, pipe, idx>>

Answered(c) ==
  /\ source.kind = "http" /\ chat[c].pc = "waiting" /\ box[c] # <<>>
  /\ End(c, "done", box[c])
  /\ box' = [box EXCEPT ![c] = <<>>]
  /\ UNCHANGED <<source, pending, desk, pipe, idx>>

\* After the timeout the lock is taken anew: an answer may be accepted in between.
Clean(c) ==
  /\ chat[c].pc = "cleaning"
  /\ At(c, "failed")
  /\ pending' = pending \ {c}
  /\ UNCHANGED <<source, box, desk, pipe, idx>>

\* step.test_interact: list_pending or get_interaction, then respond to what was seen.
Look(t) ==
  /\ source.kind = "http" /\ desk[t].pc = "idle"
  /\ \E c \in pending : desk' = [desk EXCEPT ![t] = [pc |-> "look", about |-> {c}]]
  /\ UNCHANGED <<source, chat, pending, box, pipe, idx>>

\* Variant: the interaction stays pending when it is answered.
RespondOpen(t) ==
  /\ source.kind = "http" /\ desk[t].pc = "look"
  /\ IF desk[t].about \subseteq pending
     THEN desk' = [desk EXCEPT ![t].pc = "deliver"]
     ELSE desk' = [desk EXCEPT ![t] = [pc |-> "idle", about |-> {}]]
  /\ UNCHANGED <<source, chat, pending, box, pipe, idx>>

\* Respond, up to the unlock: the interaction leaves the pending ones, or is not found.
Respond(t) ==
  /\ source.kind = "http" /\ desk[t].pc = "look"
  /\ IF desk[t].about \subseteq pending
     THEN desk' = [desk EXCEPT ![t].pc = "deliver"]
     ELSE desk' = [desk EXCEPT ![t] = [pc |-> "idle", about |-> {}]]
  /\ pending' = pending \ desk[t].about
  /\ UNCHANGED <<source, chat, box, pipe, idx>>

\* Respond, the send to responseCh, outside of the lock.
Deliver(t) ==
  /\ desk[t].pc = "deliver"
  /\ \E c \in desk[t].about : box[c] = <<>> /\ box' = [box EXCEPT ![c] = <<c>>]
  /\ desk' = [desk EXCEPT ![t] = [pc |-> "idle", about |-> {}]]
  /\ UNCHANGED <<source, chat, pending, pipe, idx>>

-----------------------------------------------------------------------------
(* ChannelSource *)

Submit(c) ==
  /\ source.kind = "channel" /\ chat[c].pc = "idle"
  /\ At(c, "sending")
  /\ UNCHANGED <<source, pending, box, desk, pipe, idx>>

Sent(c) ==
  /\ source.kind = "channel" /\ chat[c].pc = "sending" /\ pipe.interactions = <<>>
  /\ At(c, "waiting")
  /\ pipe' = [pipe EXCEPT !.interactions = <<c>>]
  /\ UNCHANGED <<source, pending, box, desk, idx>>

\* Whoever receives first has the answer: nothing ties it to the interaction.
Received(c) ==
  /\ source.kind = "channel" /\ chat[c].pc = "waiting" /\ pipe.responses # <<>>
  /\ End(c, "done", pipe.responses)
  /\ pipe' = [pipe EXCEPT !.responses = <<>>]
  /\ UNCHANGED <<source, pending, box, desk, idx>>

ReadInteraction(t) ==
  /\ source.kind = "channel" /\ desk[t].pc = "idle" /\ pipe.interactions # <<>>
  /\ desk' = [desk EXCEPT ![t] = [pc |-> "look", about |-> {pipe.interactions[1]}]]
  /\ pipe' = [pipe EXCEPT !.interactions = <<>>]
  /\ UNCHANGED <<source, chat, pending, box, idx>>

WriteResponse(t) ==
  /\ source.kind = "channel" /\ desk[t].pc = "look" /\ pipe.responses = <<>>
  /\ \E c \in desk[t].about : pipe' = [pipe EXCEPT !.responses = <<c>>]
  /\ desk' = [desk EXCEPT ![t] = [pc |-> "idle", about |-> {}]]
  /\ UNCHANGED <<source, chat, pending, box, idx>>

-----------------------------------------------------------------------------
(* ScriptedSource *)

\* A request to summarise takes no step (isSummarizationRequest).
Summarize(c) ==
  /\ source.kind = "scripted" /\ chat[c].pc = "idle"
  /\ End(c, "done", <<0>>)
  /\ UNCHANGED <<source, pending, box, desk, pipe, idx>>

Draw(c) ==
  /\ source.kind = "scripted" /\ chat[c].pc = "idle"
  /\ idx < NSteps \/ source.loop
  /\ LET at == IF idx < NSteps THEN idx ELSE 0
     IN  End(c, "delayed", <<at + 1>>) /\ idx' = at + 1
  /\ UNCHANGED <<source, pending, box, desk, pipe>>

Exhausted(c) ==
  /\ source.kind = "scripted" /\ chat[c].pc = "idle"
  /\ idx >= NSteps /\ ~source.loop
  /\ At(c, "failed")
  /\ UNCHANGED <<source, pending, box, desk, pipe, idx>>

\* The delay of the step is over; a step may be an error that is injected.
Played(c) ==
  /\ chat[c].pc = "delayed"
  /\ \E pc \in Ended : At(c, pc)
  /\ UNCHANGED <<source, pending, box, desk, pipe, idx>>

-----------------------------------------------------------------------------
\* The context of Chat ends (five minutes, or as configured), wherever the call is.
Timeout(c) ==
  /\ chat[c].pc \in {"sending", "waiting", "delayed"}
  /\ At(c, IF source.kind = "http" THEN "cleaning" ELSE "failed")
  /\ UNCHANGED <<source, pending, box, desk, pipe, idx>>

CallOf(c) ==
  \/ Ask(c) \/ Answered(c) \/ Clean(c)
  \/ Submit(c) \/ Sent(c) \/ Received(c)
  \/ Summarize(c) \/ Draw(c) \/ Exhausted(c) \/ Played(c)
  \/ Timeout(c)

TesterOf(t) ==
  \/ Look(t) \/ Respond(t) \/ Deliver(t) \/ ReadInteraction(t) \/ WriteResponse(t)

Next == (\E c \in Chats : CallOf(c)) \/ (\E t \in Testers : TesterOf(t))

\* Go runs a runnable goroutine, and timers fire.  Testers owe nothing.
Fairness == \A c \in Chats : WF_testvars(Timeout(c)) /\ WF_testvars(Clean(c))

Spec == Init /\ [][Next]_testvars /\ Fairness

-----------------------------------------------------------------------------
\* No call is answered twice: of those who respond to a call one is accepted,
\* and its send finds the channel empty, so that no request hangs; and a script
\* that does not loop gives no step to two calls (HTTPSource.Respond,
\* ScriptedSource.GetResponse).
AnsweredOnce ==
  /\ \A t \in Testers : desk[t].pc = "deliver" =>
       /\ \A c \in desk[t].about : box[c] = <<>>
       /\ \A u \in Testers \ {t} : desk[u].pc = "deliver" => desk[u].about # desk[t].about
  /\ source.kind = "scripted" /\ ~source.loop =>
       \A c, d \in Chats : c # d /\ chat[c].reply = chat[d].reply => chat[c].reply \in {<<>>, <<0>>}

\* Every call ends, whether testers answer or not, for its timeout covers all
\* it waits for: a tester to read, a tester to answer, the delay of a step.
ChatsEnd == \A c \in Chats : (chat[c].pc # "idle") ~> (chat[c].pc \in Ended)
=============================================================================
