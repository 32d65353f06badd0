------------------------------ MODULE StepLoop ------------------------------
(***************************************************************************)
(* The agent_execute step (orchestrator/step_agent_execute.go): the loop   *)
(* of Executor with what the step adds to it.  A response without a tool   *)
(* call may be sent back as empty or as mere talk; in sequential mode a    *)
(* response with several calls is sent back too; each of these takes its   *)
(* iteration back.  A provider that keeps the conversation on its side     *)
(* (provider.ContextStrategy) is sent only what it has not seen.           *)
(*                                                                         *)
(* One step after the other runs with the same provider, which the         *)
(* registry caches.  Guardrails, tools, gates and the loop detector are    *)
(* interfaces here: each answers anything its type allows.  Nobody else    *)
(* touches a run, so what happens to one tool call is one step.            *)
(***************************************************************************)
EXTENDS Integers, Sequences

CONSTANTS
  MaxIterations,                    \* s.maxIterations
  MaxEmpty, MaxIntent, MaxSequence, \* the retries of each kind (2, 2 and 5)
  MaxCalls,                         \* bound: tool calls in one response
  MaxSessions                       \* bound: runs with one provider

ASSUME StepLoopAssumption ==
  /\ MaxIterations \in Nat \ {0} /\ MaxCalls \in Nat \ {0}
  /\ MaxEmpty \in Nat /\ MaxIntent \in Nat /\ MaxSequence \in Nat
  /\ MaxSessions \in Nat

VARIABLES
  pc,        \* where the loop is
  iter,      \* iterCount
  empties, intents, corrections,  \* emptyRetries, intentRetries, seqRetries
  chats,     \* calls of the provider so far
  conv,      \* messages
  sent,      \* lastSentIndex
  held,      \* what a provider that manages its context holds
  n, k,      \* how many calls are processed, and the one in hand
  parallel,  \* s.parallelToolCalls
  managed,   \* contextStrategy # nil
  session,   \* which run this is
  status     \* of the step's result

config == <<parallel, managed>>
vars == <<pc, iter, empties, intents, corrections, chats, conv, sent, held, n, k,
          parallel, managed, session, status>>

\* A message keeps its role, the call of the provider it belongs to and, for an
\* assistant message, the number of its tool calls, for a result the call it
\* answers, and for a warning the call it follows.
Msg(role, turn, j) == [role |-> role, turn |-> turn, n |-> j]
Roles    == {"system", "user", "assistant", "tool", "summary"}
Messages == [role : Roles, turn : Nat, n : Nat]

\* The task, with or without what the blackboard has for it.
Openings == LET task == <<Msg("system", 0, 0), Msg("user", 0, 0)>>
            IN  {task, task \o <<Msg("user", 0, 0)>>}

\* What a provider may hold beside the conversation: the request to summarise
\* it, and what it was sent in earlier runs.
SummaryRequest == Msg("request", 0, 0)
Earlier        == Msg("earlier", 0, 0)

TypeOK ==
  /\ pc \in {"top", "chat", "call", "done"}
  /\ iter \in Nat /\ chats \in Nat /\ sent \in Nat /\ session \in Nat
  /\ empties \in 0..MaxEmpty /\ intents \in 0..MaxIntent /\ corrections \in Nat
  /\ conv \in Seq(Messages)
  /\ n \in 0..MaxCalls /\ k \in Nat
  /\ parallel \in BOOLEAN /\ managed \in BOOLEAN
  /\ status \in {"running", "completed", "failed", "loop_detected",
                 "approval_timeout", "request_expired"}

Begin ==
  /\ pc' = "top" /\ iter' = 0
  /\ empties' = 0 /\ intents' = 0 /\ corrections' = 0 /\ chats' = 0
  /\ conv' \in Openings /\ sent' = 0
  /\ n' = 0 /\ k' = 0
  /\ status' = "running"

Init ==
  /\ pc = "top" /\ iter = 0
  /\ empties = 0 /\ intents = 0 /\ corrections = 0 /\ chats = 0
  /\ conv \in Openings /\ sent = 0
  /\ held = {}
  /\ n = 0 /\ k = 0
  /\ parallel \in BOOLEAN /\ managed \in BOOLEAN
  /\ session = 1
  /\ status = "running"

\* The provider is kept; the next run does not reset it.
NewSession ==
  /\ pc = "done" /\ session < MaxSessions
  /\ Begin
  /\ held' = IF held = {} THEN {} ELSE {Earlier}
  /\ session' = session + 1
  /\ UNCHANGED config

End(s) == pc' = "done" /\ status' = s

-----------------------------------------------------------------------------
(* The top of the loop *)

\* Compact: system message, summary, the last four messages.
Compact(c) ==
  IF Len(c) < 5 THEN c
  ELSE LET keepTail == IF 4 >= Len(c) - 1 THEN Len(c) - 2 ELSE 4
       IN  <<c[1], Msg("summary", chats, 0)>> \o SubSeq(c, Len(c) - keepTail + 1, Len(c))

Iterate ==
  /\ pc = "top" /\ iter < MaxIterations
  /\ iter' = iter + 1
  /\ pc' = "chat"
  /\ UNCHANGED <<empties, intents, corrections, chats, conv, sent, held, n, k,
                 config, session, status>>

\* Variant: goes on from the old index.
CompactingOn ==
  /\ pc = "top" /\ iter < MaxIterations
  /\ iter' = iter + 1
  /\ conv' = Compact(conv)
  /\ IF managed
       THEN \E h \in {{}, held} :
              held' = IF Len(conv) < 5 THEN h ELSE h \cup {SummaryRequest}
       ELSE UNCHANGED held
  /\ pc' = "chat"
  /\ UNCHANGED <<empties, intents, corrections, chats, sent, n, k, config, session, status>>

\* The estimate of the tokens has reached the threshold.  A provider that
\* manages its context is reset, which may fail, and then asked for the summary
\* like any other; the whole compacted conversation is due to it again.
IterateCompacting ==
  /\ pc = "top" /\ iter < MaxIterations
  /\ iter' = iter + 1
  /\ conv' = Compact(conv)
  /\ IF managed
       THEN /\ sent' = 0
            /\ \E h \in {{}, held} :
                 held' = IF Len(conv) < 5 THEN h ELSE h \cup {SummaryRequest}
       ELSE UNCHANGED <<sent, held>>
  /\ pc' = "chat"
  /\ UNCHANGED <<empties, intents, corrections, chats, n, k, config, session, status>>

Exhaust ==
  /\ pc = "top" /\ iter >= MaxIterations
  /\ End("completed")
  /\ UNCHANGED <<iter, empties, intents, corrections, chats, conv, sent, held, n, k,
                 config, session>>

-----------------------------------------------------------------------------
(* The provider's answer *)

\* Chat: all messages, or those from lastSentIndex on.
Chat ==
  /\ pc = "chat"
  /\ chats' = chats + 1
  /\ IF managed
       THEN /\ held' = held \cup {conv[i] : i \in sent + 1 .. Len(conv)}
            /\ sent' = Len(conv)
       ELSE UNCHANGED <<held, sent>>
  /\ UNCHANGED <<config, session>>

ChatFails ==
  /\ Chat
  /\ End("failed")
  /\ UNCHANGED <<iter, empties, intents, corrections, conv, n, k>>

\* Variant: the correction is forgotten.
SendBackBare(j) ==
  /\ conv' = Append(conv, Msg("assistant", chats', j))
  /\ iter' = iter - 1
  /\ pc' = "top"
  /\ UNCHANGED <<n, k, status>>

\* The response with its j calls and a word of correction behind it go into the
\* conversation, and the iteration is not counted.
SendBack(j) ==
  /\ conv' = conv \o <<Msg("assistant", chats', j), Msg("user", chats', 0)>>
  /\ iter' = iter - 1
  /\ pc' = "top"
  /\ UNCHANGED <<n, k, status>>

Empty ==
  /\ Chat
  /\ empties < MaxEmpty
  /\ empties' = empties + 1
  /\ SendBack(0)
  /\ UNCHANGED <<intents, corrections>>

\* The response talks of a tool and does not call it.
Intent ==
  /\ Chat
  /\ intents < MaxIntent
  /\ intents' = intents + 1
  /\ SendBack(0)
  /\ UNCHANGED <<empties, corrections>>

\* Nothing to send back: an answer, or one retry too many.
Complete ==
  /\ Chat
  /\ End("completed")
  /\ UNCHANGED <<iter, empties, intents, corrections, conv, n, k>>

\* Several calls where one at a time is wanted.
Correct ==
  /\ Chat
  /\ ~parallel /\ corrections < MaxSequence
  /\ corrections' = corrections + 1
  /\ \E j \in 2..MaxCalls : SendBack(j)
  /\ UNCHANGED <<empties, intents>>

\* Variant: the message keeps the calls that are not processed.
CallsUntrimmed ==
  /\ Chat
  /\ \E j \in 1..MaxCalls :
       /\ IF ~parallel /\ j > 1
            THEN corrections >= MaxSequence /\ corrections' = corrections + 1 /\ n' = 1
            ELSE UNCHANGED corrections /\ n' = j
       /\ conv' = Append(conv, Msg("assistant", chats', j))
  /\ k' = 1
  /\ pc' = "call"
  /\ UNCHANGED <<iter, empties, intents, status>>

\* The calls are processed; of several in sequential mode, past the limit of
\* corrections, the first, and the message keeps only that one.
Calls ==
  /\ Chat
  /\ \E j \in 1..MaxCalls :
       IF ~parallel /\ j > 1
         THEN corrections >= MaxSequence /\ corrections' = corrections + 1 /\ n' = 1
         ELSE UNCHANGED corrections /\ n' = j
  /\ conv' = Append(conv, Msg("assistant", chats', n'))
  /\ k' = 1
  /\ pc' = "call"
  /\ UNCHANGED <<iter, empties, intents, status>>

-----------------------------------------------------------------------------
(* One tool call *)

\* Denied, failed, run or answered by a human: its result is appended and
\* recorded.  A warning goes in behind it; a break ends the run.
Answer ==
  /\ pc = "call"
  /\ \E verdict \in {"ok", "warning", "break"} :
       /\ conv' = Append(conv, Msg("tool", chats, k))
                    \o (IF verdict = "warning" THEN <<Msg("user", chats, k)>> ELSE <<>>)
       /\ IF verdict = "break" THEN End("loop_detected") /\ UNCHANGED <<n, k>>
          ELSE /\ UNCHANGED status
               /\ IF k < n THEN k' = k + 1 /\ UNCHANGED <<n, pc>>
                  ELSE k' = 0 /\ n' = 0 /\ pc' = "top"
  /\ UNCHANGED <<iter, empties, intents, corrections, chats, sent, held, config, session>>

\* A gate whose wait lapsed ends the run.
Lapse ==
  /\ pc = "call"
  /\ \E s \in {"approval_timeout", "request_expired"} : End(s)
  /\ UNCHANGED <<iter, empties, intents, corrections, chats, conv, sent, held, n, k,
                 config, session>>

-----------------------------------------------------------------------------

Next == \/ Iterate \/ IterateCompacting \/ Exhaust
        \/ ChatFails \/ Empty \/ Intent \/ Complete \/ Correct \/ Calls
        \/ Answer \/ Lapse
        \/ NewSession

Spec == Init /\ [][Next]_vars

-----------------------------------------------------------------------------
(* Properties *)

\* Although three kinds of retry take their iteration back, a run asks the
\* provider only so often, whatever the provider answers; the summary that a
\* compaction may ask for before each of these calls is not counted.
ChatsAreBounded == chats <= MaxIterations + MaxEmpty + MaxIntent + MaxSequence

\* The provider is never asked to go on from its own words: a result or a user
\* message comes last, after every kind of retry and after a compaction.
NeverAsksBareHanded ==
  pc = "chat" => conv # <<>> /\ conv[Len(conv)].role # "assistant"

\* When the provider is asked, every response in the conversation that made
\* calls is followed by their results, in order, or was sent back at once.
CallsAreAnswered ==
  pc = "chat" => \A i \in 1..Len(conv) : conv[i].role = "assistant" /\ conv[i].n > 0 =>
    \/ i < Len(conv) /\ conv[i + 1] = Msg("user", conv[i].turn, 0)
    \/ \A j \in 1..conv[i].n : \E m \in i + 1 .. Len(conv) :
         /\ conv[m] = Msg("tool", conv[i].turn, j)
         /\ \A l \in i + 1 .. m - 1 : conv[l].turn = conv[i].turn /\ conv[l].n <= j

\* A provider that manages its context misses nothing: what is not due to be
\* sent to it, it holds, across resets that fail and compactions that shorten
\* the conversation under the index.
NothingIsMissed ==
  managed => sent <= Len(conv) /\ \A i \in 1..sent : conv[i] \in held

\* What the interface says of ResetContext: "Called when the executor compacts
\* context or starts a new session."  A provider that is asked does not hold what
\* it was sent in an earlier one.
SessionsAreApart == pc = "chat" => Earlier \notin held
=============================================================================
