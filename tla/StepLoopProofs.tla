--------------------------- MODULE StepLoopProofs ---------------------------
(***************************************************************************)
(* The safety properties of StepLoop, for any limits.                      *)
(*                                                                         *)
(* The number of provider calls is bounded because it is, at every moment, *)
(* what the iteration count says plus the retries that were taken back:    *)
(* that equation is the invariant behind ChatsAreBounded.                  *)
(***************************************************************************)
EXTENDS StepLoop, SequenceTheorems, TLAPS

\* Corrections that took their iteration back.
TakenBack == IF corrections <= MaxSequence THEN corrections ELSE MaxSequence

Counting ==
  /\ iter <= MaxIterations
  /\ pc = "chat" => iter > 0 /\ chats + 1 = iter + empties + intents + TakenBack
  /\ pc # "chat" => chats = iter + empties + intents + TakenBack

LastIsAReply ==
  /\ Len(conv) > 0
  /\ pc \in {"top", "chat"} => conv[Len(conv)].role # "assistant"

IInv == TypeOK /\ Counting /\ LastIsAReply /\ NothingIsMissed

\* The last so many messages of a conversation end as it does.
LEMMA TailEnds ==
  ASSUME NEW c \in Seq(Messages), NEW keep \in 1..Len(c)
  PROVE  /\ SubSeq(c, Len(c) - keep + 1, Len(c)) \in Seq(Messages)
         /\ Len(SubSeq(c, Len(c) - keep + 1, Len(c))) = keep
         /\ SubSeq(c, Len(c) - keep + 1, Len(c))[keep] = c[Len(c)]
<1> DEFINE from == Len(c) - keep + 1
<1>1. Len(c) \in Nat /\ keep \in Nat /\ from \in 1..Len(c)
  BY LenProperties
<1>2. Len(c) - from + 1 = keep /\ from + keep - 1 = Len(c) /\ from <= Len(c) + 1
  BY <1>1
<1> HIDE DEF from
<1>3. SubSeq(c, from, Len(c)) = [i \in 1..Len(c) - from + 1 |-> c[from + i - 1]]
  BY <1>1
<1>4. \A i \in from..Len(c) : c[i] \in Messages
  BY <1>1
<1>5. SubSeq(c, from, Len(c)) \in Seq(Messages) /\ Len(SubSeq(c, from, Len(c))) = keep
  BY <1>1, <1>2, <1>4, SubSeqProperties
<1>6. SubSeq(c, from, Len(c))[keep] = c[Len(c)]
  BY <1>1, <1>2, <1>3
<1> QED
  BY <1>5, <1>6 DEF from

\* What is put in front of a conversation does not change how it ends.
LEMMA FrontKeepsEnd ==
  ASSUME NEW f \in Seq(Messages), NEW t \in Seq(Messages), Len(t) > 0
  PROVE  /\ f \o t \in Seq(Messages)
         /\ Len(f \o t) > 0
         /\ (f \o t)[Len(f \o t)] = t[Len(t)]
  BY LenProperties, ConcatProperties

\* Compaction gives a conversation that ends as it did.
LEMMA CompactEnds ==
  ASSUME NEW c \in Seq(Messages), Len(c) > 0, chats \in Nat
  PROVE  /\ Compact(c) \in Seq(Messages)
         /\ Len(Compact(c)) > 0
         /\ Compact(c)[Len(Compact(c))] = c[Len(c)]
<1>1. CASE Len(c) < 5
  BY <1>1 DEF Compact
<1>2. CASE ~(Len(c) < 5)
  <2> DEFINE keepTail == IF 4 >= Len(c) - 1 THEN Len(c) - 2 ELSE 4
             front == <<c[1], Msg("summary", chats, 0)>>
             tail == SubSeq(c, Len(c) - keepTail + 1, Len(c))
  <2>1. keepTail \in 1..Len(c)
    <3>1. Len(c) \in Nat
      BY LenProperties
    <3> QED
      BY <1>2, <3>1
  <2>2. Compact(c) = front \o tail
    BY <1>2, Zenon DEF Compact
  <2>3. front \in Seq(Messages)
    <3>1. c[1] \in Messages
      BY <1>2
    <3>2. Msg("summary", chats, 0) \in Messages
      BY DEF Msg, Messages, Roles
    <3> QED
      BY <3>1, <3>2
  <2>4. tail \in Seq(Messages) /\ Len(tail) = keepTail /\ tail[keepTail] = c[Len(c)]
    <3> HIDE DEF keepTail
    <3> QED
      BY <2>1, TailEnds
  <2> HIDE DEF keepTail, front, tail
  <2>5. Len(tail) > 0
    BY <2>1, <2>4, LenProperties
  <2> QED
    BY <2>2, <2>3, <2>4, <2>5, FrontKeepsEnd
<1> QED
  BY <1>1, <1>2

-----------------------------------------------------------------------------

\* A conversation opens with the task, in words of the user.
LEMMA OpeningsEnd ==
  \A c \in Openings : c \in Seq(Messages) /\ Len(c) > 0 /\ c[Len(c)].role # "assistant"
<1> DEFINE task == <<Msg("system", 0, 0), Msg("user", 0, 0)>>
<1>1. task \in Seq(Messages) /\ Len(task) > 0 /\ task[Len(task)].role # "assistant"
  BY DEF Msg, Messages, Roles
<1>2. Msg("user", 0, 0) \in Messages /\ Msg("user", 0, 0).role = "user"
  BY DEF Msg, Messages, Roles
<1> DEFINE word == <<Msg("user", 0, 0)>>
<1>3. Openings = {task, task \o word}
  BY DEF Openings
<1>4. word \in Seq(Messages) /\ Len(word) > 0 /\ word[Len(word)].role # "assistant"
  BY <1>2
<1> HIDE DEF task, word
<1>5. LET longer == task \o word
      IN  longer \in Seq(Messages) /\ Len(longer) > 0 /\ longer[Len(longer)] = word[Len(word)]
  BY <1>1, <1>4, FrontKeepsEnd
<1> QED
  <2>1. ASSUME NEW c, c = task \/ c = task \o word
        PROVE  c \in Seq(Messages) /\ Len(c) > 0 /\ c[Len(c)].role # "assistant"
    BY <1>1, <1>4, <1>5, <2>1
  <2> QED
    BY <1>3, <2>1

\* A run begins with its count right and nothing sent.
LEMMA InitIInv == Init => IInv
<1> SUFFICES ASSUME Init PROVE IInv
  OBVIOUS
<1>1. conv \in Seq(Messages)
  BY OpeningsEnd DEF Init
<1>2. TypeOK
  BY <1>1, StepLoopAssumption DEF StepLoopAssumption, Init, TypeOK
<1>3. Counting
  BY StepLoopAssumption DEF StepLoopAssumption, Init, Counting, TakenBack
<1>4. LastIsAReply
  BY OpeningsEnd DEF Init, LastIsAReply
<1> QED
  BY <1>2, <1>3, <1>4 DEF Init, IInv, NothingIsMissed

\* Starting an iteration, compacting or not, or running out of them.
LEMMA TopIInv == IInv /\ (Iterate \/ IterateCompacting \/ Exhaust) => IInv'
<1> SUFFICES ASSUME IInv, Iterate \/ IterateCompacting \/ Exhaust PROVE IInv'
  OBVIOUS
<1> USE StepLoopAssumption DEF StepLoopAssumption, IInv
<1>1. conv' \in Seq(Messages) /\ Len(conv') > 0 /\ conv'[Len(conv')] = conv[Len(conv)]
  <2>1. CASE conv' = conv
    BY <2>1 DEF TypeOK, LastIsAReply
  <2>2. CASE conv' = Compact(conv)
    BY <2>2, CompactEnds DEF TypeOK, LastIsAReply
  <2> QED
    BY <2>1, <2>2 DEF Iterate, IterateCompacting, Exhaust
<1>2. /\ UNCHANGED <<empties, intents, corrections, chats, n, k, session>>
      /\ UNCHANGED <<parallel, managed>>
      /\ sent' \in {0, sent}
      /\ pc = "top"
      /\ \/ iter < MaxIterations /\ iter' = iter + 1 /\ pc' = "chat" /\ status' = status
         \/ iter' = iter /\ pc' = "done" /\ status' = "completed"
  <2>1. CASE Iterate
    BY <2>1 DEF Iterate, config
  <2>2. CASE IterateCompacting
    <3>1. sent' \in {0, sent}
      BY <2>2 DEF IterateCompacting
    <3> QED
      BY <2>2, <3>1 DEF IterateCompacting, config
  <2>3. CASE Exhaust
    BY <2>3 DEF Exhaust, End, config
  <2> QED
    BY <2>1, <2>2, <2>3
<1>3. TypeOK' /\ Counting'
  <2>1. Counting'
    BY <1>2 DEF TypeOK, Counting, TakenBack
  <2>2. (parallel \in BOOLEAN)' /\ (managed \in BOOLEAN)'
    BY <1>2 DEF TypeOK
  <2> QED
    BY <1>1, <1>2, <2>1, <2>2 DEF TypeOK
<1>4. LastIsAReply'
  BY <1>1 DEF LastIsAReply, Iterate, IterateCompacting, Exhaust, End
<1>5. NothingIsMissed'
  <2>1. CASE IterateCompacting
    BY <2>1, <1>1, LenProperties DEF IterateCompacting, NothingIsMissed, config
  <2>2. CASE Iterate \/ Exhaust
    BY <2>2 DEF Iterate, Exhaust, NothingIsMissed, config
  <2> QED
    BY <2>1, <2>2
<1> QED
  BY <1>2, <1>3, <1>4, <1>5

\* What a call of the provider does by itself: all that was due is now held.
LEMMA ChatSends ==
  ASSUME IInv, Chat
  PROVE  /\ managed' = managed
         /\ managed => sent' = Len(conv) /\ \A i \in 1..Len(conv) : conv[i] \in held'
         /\ sent' \in Nat /\ chats' = chats + 1
  BY LenProperties DEF IInv, TypeOK, NothingIsMissed, Chat, config

\* What follows the messages that were sent does not matter to those.
LEMMA SentStays ==
  ASSUME IInv, Chat, NEW s \in Seq(Messages), conv' = conv \o s
  PROVE  conv' \in Seq(Messages) /\ NothingIsMissed'
<1>1. conv \in Seq(Messages)
  BY DEF IInv, TypeOK
<1>2. conv' \in Seq(Messages) /\ Len(conv') >= Len(conv)
      /\ \A i \in 1..Len(conv) : conv'[i] = conv[i]
  BY <1>1, ConcatProperties, LenProperties
<1> QED
  BY <1>2, ChatSends DEF NothingIsMissed

\* The provider's answer, whatever becomes of it.
LEMMA ChatIInv ==
  IInv /\ (ChatFails \/ Empty \/ Intent \/ Complete \/ Correct \/ Calls) => IInv'
<1> SUFFICES ASSUME IInv, ChatFails \/ Empty \/ Intent \/ Complete \/ Correct \/ Calls
             PROVE  IInv'
  OBVIOUS
<1> USE StepLoopAssumption DEF StepLoopAssumption, IInv
<1>1. Chat
  BY DEF ChatFails, Empty, Intent, Complete, Correct, Calls
<1>2. pc = "chat" /\ chats' = chats + 1 /\ sent' \in Nat /\ UNCHANGED <<config, session>>
  BY <1>1, ChatSends DEF Chat
<1>3. CASE ChatFails \/ Complete
  <2>1. UNCHANGED conv
    BY <1>3 DEF ChatFails, Complete
  <2>2. NothingIsMissed'
    <3> SUFFICES ASSUME managed'
                 PROVE  sent' <= Len(conv) /\ \A i \in 1..sent' : conv[i] \in held'
      BY <2>1 DEF NothingIsMissed
    <3>1. managed /\ sent' = Len(conv) /\ \A i \in 1..Len(conv) : conv[i] \in held'
      BY <1>1, ChatSends
    <3> QED
      BY <1>2, <3>1
  <2>3. /\ pc' = "done" /\ status' \in {"failed", "completed"}
        /\ UNCHANGED <<iter, empties, intents, corrections, n, k>>
    BY <1>3 DEF ChatFails, Complete, End
  <2>4. UNCHANGED <<parallel, managed>>
    BY <1>2 DEF config
  <2>5. Counting' /\ LastIsAReply'
    BY <1>2, <2>1, <2>3 DEF Counting, TakenBack, LastIsAReply
  <2>6. (parallel \in BOOLEAN)' /\ (managed \in BOOLEAN)'
    BY <2>4 DEF TypeOK
  <2>7. TypeOK'
    <3>1. chats' \in Nat
      BY <1>2 DEF TypeOK
    <3> QED
      BY <1>2, <2>1, <2>3, <2>6, <3>1 DEF TypeOK
  <2> QED
    BY <2>2, <2>5, <2>7
<1>4. ASSUME NEW j \in 0..MaxCalls, SendBack(j),
             \/ Empty \/ Intent
             \/ ~parallel /\ corrections < MaxSequence /\ corrections' = corrections + 1
                /\ UNCHANGED <<empties, intents>>
      PROVE  IInv'
  <2> DEFINE back == <<Msg("assistant", chats', j), Msg("user", chats', 0)>>
  <2>1. back \in Seq(Messages) /\ Len(back) = 2 /\ back[2].role = "user"
    BY <1>2 DEF TypeOK, Msg, Messages, Roles
  <2>2. conv' = conv \o back
    BY <1>4 DEF SendBack
  <2> HIDE DEF back
  <2>3. conv' \in Seq(Messages) /\ NothingIsMissed'
    BY <1>1, <2>1, <2>2, SentStays
  <2>4. LastIsAReply'
    <3>1. conv \in Seq(Messages)
      BY DEF TypeOK
    <3>2. Len(back) > 0 /\ back[Len(back)].role = "user"
      BY <2>1
    <3>3. Len(conv \o back) > 0 /\ (conv \o back)[Len(conv \o back)] = back[Len(back)]
      BY <3>1, <3>2, <2>1, FrontKeepsEnd
    <3> QED
      BY <3>2, <3>3, <2>2 DEF LastIsAReply
  <2>5. /\ iter' = iter - 1 /\ pc' = "top" /\ UNCHANGED <<n, k, status, session>>
        /\ UNCHANGED <<parallel, managed>>
    BY <1>2, <1>4 DEF SendBack, config
  <2>6. TypeOK' /\ Counting'
    <3>1. (parallel \in BOOLEAN)' /\ (managed \in BOOLEAN)'
      BY <2>5 DEF TypeOK
    <3>2. CASE Empty
      <4>1. empties < MaxEmpty /\ empties' = empties + 1 /\ UNCHANGED <<intents, corrections>>
        BY <3>2 DEF Empty
      <4> QED
        BY <1>2, <2>3, <2>5, <3>1, <4>1 DEF TypeOK, Counting, TakenBack
    <3>3. CASE Intent
      <4>1. intents < MaxIntent /\ intents' = intents + 1 /\ UNCHANGED <<empties, corrections>>
        BY <3>3 DEF Intent
      <4> QED
        BY <1>2, <2>3, <2>5, <3>1, <4>1 DEF TypeOK, Counting, TakenBack
    <3>4. CASE corrections < MaxSequence /\ corrections' = corrections + 1
               /\ UNCHANGED <<empties, intents>>
      BY <1>2, <2>3, <2>5, <3>1, <3>4 DEF TypeOK, Counting, TakenBack
    <3> QED
      BY <1>4, <3>2, <3>3, <3>4
  <2> QED
    BY <2>3, <2>4, <2>6
<1>5. CASE Calls
  <2>1. PICK j \in 1..MaxCalls :
          IF ~parallel /\ j > 1
            THEN corrections >= MaxSequence /\ corrections' = corrections + 1 /\ n' = 1
            ELSE UNCHANGED corrections /\ n' = j
    BY <1>5 DEF Calls
  <2>2. n' \in 1..MaxCalls
    BY <2>1
  <2>3. <<Msg("assistant", chats', n')>> \in Seq(Messages)
    BY <1>2, <2>2 DEF TypeOK, Msg, Messages, Roles
  <2>4. conv' = conv \o <<Msg("assistant", chats', n')>>
    BY <1>2, <1>5, <2>2 DEF Calls, TypeOK, Msg, Messages, Roles
  <2>5. conv' \in Seq(Messages) /\ NothingIsMissed'
    BY <1>1, <2>3, <2>4, SentStays
  <2>6. Counting'
    BY <1>2, <1>5, <2>1 DEF TypeOK, Counting, TakenBack, Calls
  <2>7. TypeOK'
    BY <1>2, <1>5, <2>1, <2>2, <2>5 DEF TypeOK, Calls, config
  <2>8. LastIsAReply'
    BY <1>5, <2>3, <2>4, ConcatProperties, LenProperties DEF Calls, TypeOK, LastIsAReply
  <2> QED
    BY <2>5, <2>6, <2>7, <2>8
<1> QED
  <2>1. 0 \in 0..MaxCalls /\ 2..MaxCalls \subseteq 0..MaxCalls
    OBVIOUS
  <2>2. CASE Empty
    BY <2>1, <2>2, <1>4 DEF Empty
  <2>3. CASE Intent
    BY <2>1, <2>3, <1>4 DEF Intent
  <2>4. CASE Correct
    BY <2>1, <2>4, <1>4 DEF Correct
  <2> QED
    BY <1>3, <1>5, <2>2, <2>3, <2>4

\* One tool call: its result, or the end of the run.
LEMMA CallIInv == IInv /\ (Answer \/ Lapse) => IInv'
<1> SUFFICES ASSUME IInv, Answer \/ Lapse PROVE IInv'
  OBVIOUS
<1> USE StepLoopAssumption DEF StepLoopAssumption, IInv
<1>1. CASE Answer
  <2>1. PICK verdict \in {"ok", "warning", "break"} :
          /\ conv' = Append(conv, Msg("tool", chats, k))
                       \o (IF verdict = "warning" THEN <<Msg("user", chats, k)>> ELSE <<>>)
          /\ IF verdict = "break" THEN End("loop_detected") /\ UNCHANGED <<n, k>>
             ELSE /\ UNCHANGED status
                  /\ IF k < n THEN k' = k + 1 /\ UNCHANGED <<n, pc>>
                     ELSE k' = 0 /\ n' = 0 /\ pc' = "top"
    BY <1>1 DEF Answer
  <2> DEFINE more == IF verdict = "warning" THEN <<Msg("user", chats, k)>> ELSE <<>>
             result == <<Msg("tool", chats, k)>>
             s == result \o more
  <2>2. /\ Msg("tool", chats, k) \in Messages /\ Msg("user", chats, k) \in Messages
        /\ Msg("tool", chats, k).role = "tool" /\ Msg("user", chats, k).role = "user"
    BY DEF TypeOK, Msg, Messages, Roles
  <2>3. s \in Seq(Messages) /\ Len(s) > 0 /\ s[Len(s)].role # "assistant"
    <3>1. CASE verdict = "warning"
      BY <2>2, <3>1
    <3>2. CASE verdict # "warning"
      BY <2>2, <3>2
    <3> QED
      BY <3>1, <3>2
  <2>4. conv' = conv \o s
    <3>1. conv' = Append(conv, Msg("tool", chats, k)) \o more
      BY <2>1
    <3>2. more \in Seq(Messages)
      BY <2>2
    <3> HIDE DEF more
    <3>3. Append(conv, Msg("tool", chats, k)) \o more = conv \o (result \o more)
      BY <2>2, <3>2 DEF TypeOK
    <3> QED
      BY <3>1, <3>3
  <2> HIDE DEF s
  <2>5. conv' \in Seq(Messages) /\ Len(conv') >= Len(conv)
        /\ \A i \in 1..Len(conv) : conv'[i] = conv[i]
    BY <2>3, <2>4, ConcatProperties, LenProperties DEF TypeOK
  <2>6. LastIsAReply'
    <3>1. Len(conv') > 0 /\ conv'[Len(conv')] = s[Len(s)]
      BY <2>3, <2>4, ConcatProperties, LenProperties DEF TypeOK
    <3> QED
      BY <3>1, <2>3 DEF LastIsAReply
  <2>7. NothingIsMissed'
    BY <1>1, <2>5, LenProperties DEF Answer, NothingIsMissed, TypeOK, config
  <2>8. TypeOK' /\ Counting'
    BY <1>1, <2>1, <2>5 DEF Answer, TypeOK, Counting, TakenBack, End, config
  <2> QED
    BY <2>6, <2>7, <2>8
<1>2. CASE Lapse
  BY <1>2 DEF Lapse, End, TypeOK, Counting, TakenBack, LastIsAReply, NothingIsMissed, config
<1> QED
  BY <1>1, <1>2

\* The next run starts like the first, but for what the provider holds.
LEMMA NewSessionIInv == IInv /\ NewSession => IInv'
<1> SUFFICES ASSUME IInv, NewSession PROVE IInv'
  OBVIOUS
<1> USE StepLoopAssumption DEF StepLoopAssumption, IInv
<1>1. conv' \in Seq(Messages) /\ Len(conv') > 0 /\ conv'[Len(conv')].role # "assistant"
  BY OpeningsEnd DEF NewSession, Begin
<1>2. LastIsAReply'
  BY <1>1 DEF LastIsAReply
<1>3. TypeOK'
  BY <1>1 DEF NewSession, Begin, TypeOK, config
<1>4. Counting' /\ NothingIsMissed'
  BY <1>1, LenProperties DEF NewSession, Begin, Counting, TakenBack, NothingIsMissed
<1> QED
  BY <1>2, <1>3, <1>4

-----------------------------------------------------------------------------
(* The results *)

\* In every reachable state the count of provider calls, the end of the
\* conversation and the index of what was sent are right.
THEOREM Inductive == Spec => []IInv
<1>1. IInv /\ [Next]_vars => IInv'
  <2> SUFFICES ASSUME IInv, [Next]_vars PROVE IInv'
    OBVIOUS
  <2>1. CASE UNCHANGED vars
    BY <2>1 DEF vars, IInv, TypeOK, Counting, TakenBack, LastIsAReply, NothingIsMissed
  <2> QED
    BY <2>1, TopIInv, ChatIInv, CallIInv, NewSessionIInv DEF Next
<1> QED
  BY <1>1, InitIInv, PTL DEF Spec

\* Every variable keeps its type.
THEOREM TypeCorrect == Spec => []TypeOK
  BY Inductive, PTL DEF IInv

\* A run asks the provider at most as often as its iterations and retries allow,
\* although the retries take their iteration back.
THEOREM ChatsBounded == Spec => []ChatsAreBounded
<1>1. IInv => ChatsAreBounded
  BY StepLoopAssumption
     DEF StepLoopAssumption, IInv, TypeOK, Counting, TakenBack, ChatsAreBounded
<1> QED
  BY <1>1, Inductive, PTL

\* The provider always has something to answer to.
THEOREM RepliesComeLast == Spec => []NeverAsksBareHanded
<1>1. IInv => NeverAsksBareHanded
  BY DEF IInv, LastIsAReply, NeverAsksBareHanded
<1> QED
  BY <1>1, Inductive, PTL

\* The index of what was sent is within the conversation, and what lies before
\* it the provider holds.
THEOREM ProvidersMissNothing == Spec => []NothingIsMissed
  BY Inductive, PTL DEF IInv

-----------------------------------------------------------------------------
(* Results in order.  Whether a response is answered is a matter of what     *)
(* follows it alone, so that appending keeps it, and so does compaction,     *)
(* which takes the conversation from some message on.                        *)

IsRequest(c, i) == c[i].role = "assistant" /\ c[i].n > 0

\* The first b results behind message i of c, with their warnings and nothing
\* else between them.
ResultsUpTo(c, i, b) ==
  \A j \in 1..b : \E m \in i + 1 .. Len(c) :
    /\ c[m] = Msg("tool", c[i].turn, j)
    /\ \A l \in i + 1 .. m - 1 : c[l].turn = c[i].turn /\ c[l].n <= j

AnsweredAt(c, i) ==
  \/ i < Len(c) /\ c[i + 1] = Msg("user", c[i].turn, 0)
  \/ ResultsUpTo(c, i, c[i].n)

\* All responses of c but the one at p, if it is one, are answered.
SettledBut(c, p) == \A i \in 1..Len(c) : i # p /\ IsRequest(c, i) => AnsweredAt(c, i)

\* The response whose calls are processed is the last one, and answered up to
\* the call in hand.
InHand(p) ==
  /\ conv[p] = Msg("assistant", chats, n)
  /\ ResultsUpTo(conv, p, k - 1)
  /\ \A l \in p + 1 .. Len(conv) : conv[l].turn = chats /\ conv[l].n <= k - 1
  /\ SettledBut(conv, p)

Ordered ==
  /\ Len(conv) > 0 /\ conv[1].role = "system"
  /\ pc \in {"top", "chat"} => SettledBut(conv, 0)
  /\ pc = "call" => k \in 1..n /\ \E p \in 1..Len(conv) : InHand(p)

\* What answers a response elsewhere answers it here, when what follows it is
\* the same; off says how far it has moved.
LEMMA ResultsMove ==
  ASSUME NEW c \in Seq(Messages), NEW d \in Seq(Messages), NEW i \in 1..Len(c), NEW off \in Int,
         \A q \in i..Len(c) : q + off \in 1..Len(d) /\ d[q + off] = c[q],
         NEW b \in Nat, ResultsUpTo(c, i, b)
  PROVE  ResultsUpTo(d, i + off, b)
<1>1. Len(c) \in Nat /\ Len(d) \in Nat /\ i \in i..Len(c) /\ d[i + off] = c[i]
  BY LenProperties
<1> SUFFICES ASSUME NEW j \in 1..b
             PROVE  \E m \in i + off + 1 .. Len(d) :
                      /\ d[m] = Msg("tool", d[i + off].turn, j)
                      /\ \A l \in i + off + 1 .. m - 1 :
                           d[l].turn = d[i + off].turn /\ d[l].n <= j
  BY DEF ResultsUpTo
<1>2. PICK m \in i + 1 .. Len(c) :
        /\ c[m] = Msg("tool", c[i].turn, j)
        /\ \A l \in i + 1 .. m - 1 : c[l].turn = c[i].turn /\ c[l].n <= j
  BY DEF ResultsUpTo
<1>3. m + off \in i + off + 1 .. Len(d) /\ d[m + off] = c[m]
  <2>1. m \in i..Len(c) /\ m >= i + 1
    BY <1>1
  <2>2. m + off \in 1..Len(d) /\ d[m + off] = c[m]
    BY <2>1
  <2> QED
    BY <1>1, <2>1, <2>2
<1>4. ASSUME NEW l \in i + off + 1 .. m + off - 1
      PROVE  d[l].turn = d[i + off].turn /\ d[l].n <= j
  <2> DEFINE q == l - off
  <2>1. q \in i + 1 .. m - 1 /\ q \in i..Len(c) /\ q + off = l
    <3>1. l \in Int /\ i \in Int /\ m \in Int /\ m <= Len(c)
      BY <1>1
    <3> QED
      BY ONLY <1>1, <3>1, <1>4
  <2> HIDE DEF q
  <2>2. d[l] = c[q]
    BY <2>1
  <2> QED
    BY <1>1, <1>2, <2>1, <2>2
<1>5. d[m + off] = Msg("tool", d[i + off].turn, j)
  BY <1>1, <1>2, <1>3
<1> QED
  BY ONLY <1>3, <1>4, <1>5, SMTT(20)

LEMMA AnsweredMoves ==
  ASSUME NEW c \in Seq(Messages), NEW d \in Seq(Messages), NEW i \in 1..Len(c), NEW off \in Int,
         \A q \in i..Len(c) : q + off \in 1..Len(d) /\ d[q + off] = c[q],
         AnsweredAt(c, i)
  PROVE  AnsweredAt(d, i + off)
<1>1. Len(c) \in Nat /\ Len(d) \in Nat /\ i \in i..Len(c) /\ d[i + off] = c[i]
  BY LenProperties
<1>2. CASE i < Len(c) /\ c[i + 1] = Msg("user", c[i].turn, 0)
  <2>1. i + 1 \in i..Len(c) /\ (i + 1) + off = (i + off) + 1
    BY <1>1, <1>2
  <2>2. (i + off) + 1 \in 1..Len(d) /\ d[(i + off) + 1] = c[i + 1]
    BY <2>1
  <2> QED
    BY <1>1, <1>2, <2>2 DEF AnsweredAt
<1>3. CASE ResultsUpTo(c, i, c[i].n)
  <2>1. c[i] \in Messages
    OBVIOUS
  <2>2. c[i].n \in Nat
    BY <2>1 DEF Messages
  <2>3. ResultsUpTo(d, i + off, c[i].n)
    BY <1>3, <2>2, ResultsMove
  <2> QED
    BY <1>1, <2>3 DEF AnsweredAt
<1> QED
  BY <1>2, <1>3 DEF AnsweredAt

\* Appending leaves what was answered so.
LEMMA AppendSettles ==
  ASSUME NEW c \in Seq(Messages), NEW s \in Seq(Messages), NEW p \in Nat,
         SettledBut(c, p), \A m \in 1..Len(s) : s[m].role # "assistant"
  PROVE  SettledBut(c \o s, p)
<1> SUFFICES ASSUME NEW i \in 1..Len(c \o s), i # p, IsRequest(c \o s, i)
             PROVE  AnsweredAt(c \o s, i)
  BY DEF SettledBut
<1>1. /\ Len(c) \in Nat /\ Len(s) \in Nat
      /\ c \o s \in Seq(Messages) /\ Len(c \o s) = Len(c) + Len(s)
      /\ \A q \in 1..Len(c) : (c \o s)[q] = c[q]
      /\ \A q \in Len(c) + 1 .. Len(c) + Len(s) : (c \o s)[q] = s[q - Len(c)]
  BY ConcatProperties, LenProperties
<1>2. CASE i > Len(c)
  <2>1. i - Len(c) \in 1..Len(s) /\ (c \o s)[i] = s[i - Len(c)]
    BY <1>1, <1>2
  <2> QED
    BY <2>1 DEF IsRequest
<1>3. CASE i <= Len(c)
  <2>1. i \in 1..Len(c) /\ (c \o s)[i] = c[i]
    BY <1>1, <1>3
  <2>2. AnsweredAt(c, i)
    BY <2>1 DEF SettledBut, IsRequest
  <2> DEFINE d == c \o s
  <2>3. \A q \in i..Len(c) : q + 0 \in 1..Len(d) /\ d[q + 0] = c[q]
    BY <1>1, <2>1
  <2>4. d \in Seq(Messages)
    BY <1>1
  <2> HIDE DEF d
  <2>5. AnsweredAt(d, i + 0)
    <3>1. 0 \in Int
      OBVIOUS
    <3> QED
      BY <2>1, <2>2, <2>3, <2>4, <3>1, AnsweredMoves
  <2> QED
    BY <2>1, <2>5 DEF d
<1> QED
  BY <1>2, <1>3, <1>1


\* Compaction takes a conversation from some message on, with two messages of
\* its own in front that are no responses; this far back nothing changes.
LEMMA CompactSettles ==
  ASSUME NEW c \in Seq(Messages), Len(c) > 0, c[1].role = "system", SettledBut(c, 0),
         chats \in Nat
  PROVE  SettledBut(Compact(c), 0) /\ Compact(c)[1].role = "system"
<1>1. CASE Len(c) < 5
  BY <1>1 DEF Compact
<1>2. CASE ~(Len(c) < 5)
  <2> DEFINE keepTail == IF 4 >= Len(c) - 1 THEN Len(c) - 2 ELSE 4
             from == Len(c) - keepTail + 1
             front == <<c[1], Msg("summary", chats, 0)>>
             tail == SubSeq(c, from, Len(c))
             d == front \o tail
  <2>1. Len(c) \in Nat /\ from \in 1..Len(c) /\ from \in Int
    <3>1. Len(c) \in Nat
      BY LenProperties
    <3> QED
      BY <1>2, <3>1
  <2>2. Compact(c) = d
    BY <1>2, Zenon DEF Compact
  <2>3. /\ front \in Seq(Messages) /\ Len(front) = 2
        /\ front[1].role = "system" /\ front[2].role = "summary"
    <3>1. c[1] \in Messages
      BY <1>2
    <3>2. Msg("summary", chats, 0) \in Messages /\ Msg("summary", chats, 0).role = "summary"
      BY DEF Msg, Messages, Roles
    <3> QED
      BY <3>1, <3>2
  <2> HIDE DEF from, front
  <2>4. /\ tail \in Seq(Messages) /\ Len(tail) = Len(c) - from + 1
        /\ \A q \in 1 .. Len(c) - from + 1 : tail[q] = c[from + q - 1]
    <3>1. \A q \in from .. Len(c) : c[q] \in Messages
      BY <2>1
    <3> QED
      BY <2>1, <3>1, SubSeqProperties
  <2> HIDE DEF tail
  <2>5. /\ d \in Seq(Messages) /\ Len(d) = 2 + (Len(c) - from + 1)
        /\ d[1] = front[1] /\ d[2] = front[2]
        /\ \A q \in 3 .. Len(d) : d[q] = tail[q - 2]
    <3>1. Len(tail) \in Nat
      BY <2>4, LenProperties
    <3>2. /\ d \in Seq(Messages) /\ Len(d) = Len(front) + Len(tail)
          /\ \A q \in 1 .. Len(front) + Len(tail) :
               d[q] = IF q <= Len(front) THEN front[q] ELSE tail[q - Len(front)]
      BY <2>3, <2>4, ConcatProperties
    <3> HIDE DEF d
    <3> QED
      BY <2>3, <2>4, <3>1, <3>2
  <2> HIDE DEF d
  <2>6. \A q \in from..Len(c) : q + (3 - from) \in 1..Len(d) /\ d[q + (3 - from)] = c[q]
    <3> SUFFICES ASSUME NEW q \in from..Len(c)
                 PROVE  q + (3 - from) \in 1..Len(d) /\ d[q + (3 - from)] = c[q]
      OBVIOUS
    <3> DEFINE h == q + (3 - from)
    <3>1. h \in 3..Len(d) /\ h \in 1..Len(d) /\ h - 2 \in 1 .. Len(c) - from + 1
          /\ from + (h - 2) - 1 = q
      BY <2>1, <2>5
    <3> HIDE DEF h
    <3>2. d[h] = c[q]
      BY <2>4, <2>5, <3>1
    <3> QED
      BY <3>1, <3>2 DEF h
  <2>7. ASSUME NEW i \in 1..Len(d), IsRequest(d, i)
        PROVE  AnsweredAt(d, i)
    <3>1. i >= 3
      BY <2>1, <2>3, <2>5, <2>7 DEF IsRequest
    <3>2. /\ i - (3 - from) \in from..Len(c) /\ i - (3 - from) \in 1..Len(c)
          /\ (i - (3 - from)) + (3 - from) = i /\ 3 - from \in Int
          /\ i - (3 - from) # 0
      BY <2>1, <2>5, <3>1
    <3> DEFINE h == i - (3 - from)
               off == 3 - from
    <3>3. h \in from..Len(c) /\ h \in 1..Len(c) /\ h + off = i /\ off \in Int /\ h # 0
          /\ \A q \in h..Len(c) : q \in from..Len(c)
      BY <2>1, <3>2
    <3>4. \A q \in h..Len(c) : q + off \in 1..Len(d) /\ d[q + off] = c[q]
      BY <2>6, <3>3
    <3> HIDE DEF h, off
    <3>5. d[i] = c[h]
      BY <2>1, <3>3, <3>4
    <3>6. AnsweredAt(c, h)
      BY <2>7, <3>3, <3>5 DEF SettledBut, IsRequest
    <3>7. AnsweredAt(d, h + off)
      BY <2>5, <3>3, <3>4, <3>6, AnsweredMoves
    <3> QED
      BY <3>3, <3>7
  <2> QED
    BY <2>2, <2>3, <2>5, <2>7 DEF SettledBut
<1> QED
  BY <1>1, <1>2

\* A conversation opens with the system's words, and nothing in it is a response.
LEMMA OpeningsSettled ==
  ASSUME NEW c \in Openings
  PROVE  Len(c) > 0 /\ c[1].role = "system" /\ SettledBut(c, 0)
<1>1. \/ c = <<Msg("system", 0, 0), Msg("user", 0, 0)>>
      \/ c = <<Msg("system", 0, 0), Msg("user", 0, 0), Msg("user", 0, 0)>>
  BY DEF Openings
<1>2. Len(c) > 0 /\ c[1].role = "system" /\ \A i \in 1..Len(c) : c[i].role # "assistant"
  BY <1>1 DEF Msg
<1> QED
  BY <1>2 DEF SettledBut, IsRequest

\* The provider answers a conversation in which everything is answered.  What it
\* says goes to the end, sent back at once or with its calls in hand.
LEMMA ChatOrdered ==
  IInv /\ Ordered /\ (ChatFails \/ Empty \/ Intent \/ Complete \/ Correct \/ Calls) => Ordered'
<1> SUFFICES ASSUME IInv, Ordered,
                    ChatFails \/ Empty \/ Intent \/ Complete \/ Correct \/ Calls
             PROVE  Ordered'
  OBVIOUS
<1>1. /\ Chat /\ pc = "chat" /\ chats' \in Nat
      /\ conv \in Seq(Messages) /\ Len(conv) \in Nat /\ Len(conv) > 0
      /\ conv[1].role = "system" /\ SettledBut(conv, 0)
  BY LenProperties, SMTT(20) DEF ChatFails, Empty, Intent, Complete, Correct, Calls, Chat, IInv, TypeOK, Ordered
<1>2. CASE ChatFails \/ Complete
  BY <1>1, <1>2 DEF ChatFails, Complete, End, Ordered
<1>3. ASSUME NEW j \in 0..MaxCalls, SendBack(j)
      PROVE  Ordered'
  <2> DEFINE said == Msg("assistant", chats', j)
             word == Msg("user", chats', 0)
             d    == conv \o <<said, word>>
  <2>1. said \in Messages /\ word \in Messages
    BY <1>1, StepLoopAssumption DEF StepLoopAssumption, Msg, Messages, Roles
  <2>2. said.turn = chats' /\ word = Msg("user", said.turn, 0) /\ word.role = "user"
    BY DEF Msg
  <2>3. conv' = d /\ pc' = "top"
    BY <1>3 DEF SendBack
  <2> HIDE DEF said, word
  <2>4. /\ d \in Seq(Messages) /\ Len(d) = Len(conv) + 2
        /\ \A q \in 1..Len(conv) : d[q] = conv[q]
        /\ d[Len(conv) + 1] = said /\ d[Len(conv) + 2] = word
    BY <1>1, <2>1
  <2> HIDE DEF d
  <2>5. ASSUME NEW i \in 1..Len(d), IsRequest(d, i)
        PROVE  AnsweredAt(d, i)
    <3>1. CASE i \in 1..Len(conv)
      <4>1. AnsweredAt(conv, i)
        BY <1>1, <2>4, <2>5, <3>1 DEF SettledBut, IsRequest
      <4>2. \A q \in i..Len(conv) : q + 0 \in 1..Len(d) /\ d[q + 0] = conv[q]
        BY <1>1, <2>4, <3>1
      <4>3. 0 \in Int /\ i + 0 = i
        BY <3>1
      <4>4. AnsweredAt(d, i + 0)
        BY <1>1, <2>4, <3>1, <4>1, <4>2, <4>3, AnsweredMoves
      <4> QED
        BY <4>3, <4>4
    <3>2. CASE i = Len(conv) + 1
      BY <1>1, <2>2, <2>4, <3>2 DEF AnsweredAt
    <3>3. CASE i = Len(conv) + 2
      BY <2>2, <2>4, <2>5, <3>3 DEF IsRequest
    <3> QED
      BY <1>1, <2>4, <3>1, <3>2, <3>3
  <2>6. SettledBut(d, 0) /\ Len(d) > 0 /\ d[1].role = "system"
    BY <1>1, <2>4, <2>5 DEF SettledBut
  <2> QED
    BY <2>3, <2>6 DEF Ordered
<1>4. CASE Calls
  <2> DEFINE said == Msg("assistant", chats', n')
             last == Len(conv) + 1
  <2>1. n' \in 1..MaxCalls /\ k' = 1 /\ pc' = "call" /\ conv' = Append(conv, said)
    BY <1>4, StepLoopAssumption DEF StepLoopAssumption, Calls
  <2>2. said \in Messages
    BY <1>1, <2>1 DEF Msg, Messages, Roles
  <2>3. /\ conv' \in Seq(Messages) /\ Len(conv') = last
        /\ \A q \in 1..Len(conv) : conv'[q] = conv[q]
        /\ conv'[last] = said
    BY <1>1, <2>1, <2>2
  <2>4. SettledBut(conv', last)
    <3> SUFFICES ASSUME NEW i \in 1..Len(conv'), i # last, IsRequest(conv', i)
                 PROVE  AnsweredAt(conv', i)
      BY DEF SettledBut
    <3>1. i \in 1..Len(conv)
      BY <1>1, <2>3
    <3>2. AnsweredAt(conv, i)
      BY <1>1, <2>3, <3>1 DEF SettledBut, IsRequest
    <3>3. \A q \in i..Len(conv) : q + 0 \in 1..Len(conv') /\ conv'[q + 0] = conv[q]
      BY <1>1, <2>3, <3>1
    <3>4. 0 \in Int /\ i + 0 = i
      BY <3>1
    <3>5. AnsweredAt(conv', i + 0)
      BY <1>1, <2>3, <3>1, <3>2, <3>3, <3>4, AnsweredMoves
    <3> QED
      BY <3>4, <3>5
  <2>5. PICK q \in Nat : q = last
    BY <1>1
  <2>6. InHand(q)'
    <3>1. ResultsUpTo(conv', q, k' - 1)
      BY <2>1 DEF ResultsUpTo
    <3>2. \A l \in q + 1 .. Len(conv') : FALSE
      BY <2>3, <2>5
    <3> QED
      BY <2>3, <2>4, <2>5, <3>1, <3>2 DEF InHand
  <2>7. q \in 1..Len(conv') /\ k' \in 1..n' /\ Len(conv') > 0 /\ conv'[1].role = "system"
    BY <1>1, <2>1, <2>3, <2>5
  <2> QED
    BY <2>1, <2>6, <2>7 DEF Ordered
<1> QED
  <2>1. 0 \in 0..MaxCalls /\ 2..MaxCalls \subseteq 0..MaxCalls
    BY StepLoopAssumption DEF StepLoopAssumption
  <2>2. CASE Empty
    BY <2>1, <2>2, <1>3 DEF Empty
  <2>3. CASE Intent
    BY <2>1, <2>3, <1>3 DEF Intent
  <2>4. CASE Correct
    BY <2>1, <2>4, <1>3 DEF Correct
  <2> QED
    BY <1>2, <1>4, <2>2, <2>3, <2>4

\* A result goes behind those before it, with its warning.
LEMMA AnswerOrdered == IInv /\ Ordered /\ Answer => Ordered'
<1> SUFFICES ASSUME IInv, Ordered, Answer PROVE Ordered'
  OBVIOUS
<1>1. PICK verdict \in {"ok", "warning", "break"} :
        /\ conv' = Append(conv, Msg("tool", chats, k))
                     \o (IF verdict = "warning" THEN <<Msg("user", chats, k)>> ELSE <<>>)
        /\ IF verdict = "break" THEN End("loop_detected") /\ UNCHANGED <<n, k>>
           ELSE /\ UNCHANGED status
                /\ IF k < n THEN k' = k + 1 /\ UNCHANGED <<n, pc>>
                   ELSE k' = 0 /\ n' = 0 /\ pc' = "top"
  BY DEF Answer
<1>2. /\ pc = "call" /\ chats' = chats /\ chats \in Nat
      /\ conv \in Seq(Messages) /\ Len(conv) \in Nat /\ Len(conv) > 0
      /\ conv[1].role = "system"
      /\ n \in Nat /\ k \in 1..n
  BY LenProperties, StepLoopAssumption DEF StepLoopAssumption, Answer, IInv, TypeOK, Ordered
<1>3. PICK p \in 1..Len(conv) : InHand(p)
  BY <1>2 DEF Ordered
<1> DEFINE result == Msg("tool", chats, k)
           warning == Msg("user", chats, k)
           s == IF verdict = "warning" THEN <<result, warning>> ELSE <<result>>
           d == conv \o s
<1>4. /\ result \in Messages /\ warning \in Messages
      /\ result.role = "tool" /\ result.turn = chats /\ result.n = k
      /\ warning.role = "user" /\ warning.turn = chats /\ warning.n = k
  BY <1>2 DEF Msg, Messages, Roles
<1>5. conv' = d
  <2>1. CASE verdict = "warning"
    BY <1>1, <1>2, <1>4, <2>1
  <2>2. CASE verdict # "warning"
    BY <1>1, <1>2, <1>4, <2>2
  <2> QED
    BY <2>1, <2>2
<1> HIDE DEF result, warning
<1>6. /\ s \in Seq(Messages) /\ Len(s) \in 1..2 /\ s[1] = result
      /\ \A q \in 1..Len(s) : s[q].role # "assistant" /\ s[q].turn = chats /\ s[q].n = k
  <2>1. CASE verdict = "warning"
    BY <1>4, <2>1
  <2>2. CASE verdict # "warning"
    BY <1>4, <2>2
  <2> QED
    BY <2>1, <2>2
<1> HIDE DEF s
<1>7. /\ d \in Seq(Messages) /\ Len(d) = Len(conv) + Len(s)
      /\ \A q \in 1..Len(conv) : d[q] = conv[q]
      /\ d[Len(conv) + 1] = result
      /\ \A q \in Len(conv) + 1 .. Len(d) : d[q].turn = chats /\ d[q].n = k
  <2>1. /\ d \in Seq(Messages) /\ Len(d) = Len(conv) + Len(s)
        /\ \A q \in 1 .. Len(conv) + Len(s) :
             d[q] = IF q <= Len(conv) THEN conv[q] ELSE s[q - Len(conv)]
    BY <1>2, <1>6, ConcatProperties
  <2> HIDE DEF d
  <2>2. ASSUME NEW q \in Len(conv) + 1 .. Len(d)
        PROVE  q - Len(conv) \in 1..Len(s) /\ d[q] = s[q - Len(conv)]
    BY <1>2, <1>6, <2>1
  <2>3. ASSUME NEW q \in 1..Len(conv)
        PROVE  d[q] = conv[q]
    <3>1. Len(s) \in Nat
      BY <1>6
    <3>2. q \in 1 .. Len(conv) + Len(s) /\ q <= Len(conv)
      BY ONLY <3>1, <1>2, q \in 1..Len(conv)
    <3> QED
      BY <2>1, <3>2
  <2>4. d[Len(conv) + 1] = result
    <3>1. Len(conv) + 1 \in Len(conv) + 1 .. Len(d) /\ (Len(conv) + 1) - Len(conv) = 1
      BY <1>2, <1>6, <2>1
    <3> QED
      BY <1>6, <2>2, <3>1
  <2>5. ASSUME NEW q \in Len(conv) + 1 .. Len(d)
        PROVE  d[q].turn = chats /\ d[q].n = k
    BY <1>6, <2>2
  <2> QED
    BY <2>1, <2>3, <2>4, <2>5
<1>8. SettledBut(d, p)
  BY <1>2, <1>3, <1>6, AppendSettles DEF InHand, d
<1> HIDE DEF d
<1>9. d[p] = Msg("assistant", chats, n) /\ d[p].turn = chats /\ d[p].n = n
      /\ d[p].role = "assistant" /\ conv[p].turn = chats
  BY <1>3, <1>7 DEF InHand, Msg
<1>10. ResultsUpTo(d, p, k - 1)
  <2>1. \A q \in p..Len(conv) : q + 0 \in 1..Len(d) /\ d[q + 0] = conv[q]
    BY <1>2, <1>6, <1>7
  <2>2. 0 \in Int /\ p + 0 = p /\ k - 1 \in Nat
    BY <1>2
  <2>3. ResultsUpTo(conv, p, k - 1)
    BY <1>3 DEF InHand
  <2>4. ResultsUpTo(d, p + 0, k - 1)
    BY <1>2, <1>7, <2>1, <2>2, <2>3, ResultsMove
  <2> QED
    BY <2>2, <2>4
<1>11. \A l \in p + 1 .. Len(d) : d[l].turn = chats /\ d[l].n <= k
  <2> SUFFICES ASSUME NEW l \in p + 1 .. Len(d)
               PROVE  d[l].turn = chats /\ d[l].n <= k
    OBVIOUS
  <2>1. CASE l <= Len(conv)
    <3>1. l \in p + 1 .. Len(conv) /\ l \in 1..Len(conv)
      BY <1>2, <2>1
    <3>2. conv[l].turn = chats /\ conv[l].n <= k - 1 /\ d[l] = conv[l] /\ conv[l] \in Messages
      BY <1>2, <1>3, <1>7, <3>1 DEF InHand
    <3>3. conv[l].n \in Nat
      BY <3>2 DEF Messages
    <3> QED
      BY <1>2, <3>2, <3>3
  <2>2. CASE ~(l <= Len(conv))
    <3>1. l \in Len(conv) + 1 .. Len(d)
      BY <1>2, <1>6, <1>7, <2>2
    <3> QED
      BY <1>2, <1>7, <3>1
  <2> QED
    BY <2>1, <2>2
<1>12. ResultsUpTo(d, p, k)
  <2> SUFFICES ASSUME NEW j \in 1..k
               PROVE  \E m \in p + 1 .. Len(d) :
                        /\ d[m] = Msg("tool", d[p].turn, j)
                        /\ \A l \in p + 1 .. m - 1 : d[l].turn = d[p].turn /\ d[l].n <= j
    BY DEF ResultsUpTo
  <2>1. CASE j \in 1..k - 1
    BY <1>10, <2>1 DEF ResultsUpTo
  <2>2. CASE j = k
    <3>1. Len(conv) + 1 \in p + 1 .. Len(d)
      BY <1>2, <1>6, <1>7
    <3>2. d[Len(conv) + 1] = Msg("tool", d[p].turn, j)
      BY <1>7, <1>9, <2>2 DEF result
    <3>3. \A l \in p + 1 .. (Len(conv) + 1) - 1 : l \in p + 1 .. Len(d)
      BY <1>2, <1>6, <1>7
    <3> QED
      BY <1>9, <1>11, <2>2, <3>1, <3>2, <3>3
  <2> QED
    BY <1>2, <2>1, <2>2
<1>13. Len(d) > 0 /\ d[1].role = "system"
  BY <1>2, <1>6, <1>7
<1>14. CASE verdict = "break"
  BY <1>1, <1>5, <1>13, <1>14 DEF End, Ordered
<1>15. CASE verdict # "break" /\ k < n
  <2>1. k' = k + 1 /\ n' = n /\ pc' = "call"
    BY <1>1, <1>2, <1>15
  <2>2. k' \in 1..n' /\ k' - 1 = k /\ p \in 1..Len(d)
    BY <1>2, <1>6, <1>7, <1>15, <2>1
  <2>3. InHand(p)'
    BY <1>2, <1>5, <1>8, <1>9, <1>11, <1>12, <2>1, <2>2 DEF InHand
  <2> QED
    BY <1>5, <1>13, <2>1, <2>2, <2>3 DEF Ordered
<1>16. CASE verdict # "break" /\ ~(k < n)
  <2>1. k = n /\ pc' = "top"
    BY <1>1, <1>2, <1>16
  <2>2. AnsweredAt(d, p)
    BY <1>9, <1>12, <2>1 DEF AnsweredAt
  <2>3. SettledBut(d, 0)
    BY <1>8, <2>2 DEF SettledBut
  <2> QED
    BY <1>5, <1>13, <2>1, <2>3 DEF Ordered
<1> QED
  BY <1>14, <1>15, <1>16

LEMMA OrderedInductive == Spec => []Ordered
<1>1. Init => Ordered
  BY OpeningsSettled DEF Init, Ordered
<1>2. IInv /\ Ordered /\ [Next]_vars => Ordered'
  <2> SUFFICES ASSUME IInv, Ordered, [Next]_vars PROVE Ordered'
    OBVIOUS
  <2>1. CASE IterateCompacting
    <3>1. SettledBut(Compact(conv), 0) /\ Compact(conv)[1].role = "system" /\ Len(Compact(conv)) > 0
      BY <2>1, CompactSettles, CompactEnds DEF IterateCompacting, IInv, TypeOK, Ordered
    <3> QED
      BY <2>1, <3>1 DEF IterateCompacting, Ordered
  <2>2. CASE Iterate \/ Exhaust
    BY <2>2 DEF Iterate, Exhaust, End, Ordered
  <2>3. CASE Lapse
    BY <2>3 DEF Lapse, End, Ordered
  <2>4. CASE NewSession
    <3>1. conv' \in Openings /\ pc' = "top"
      BY <2>4 DEF NewSession, Begin
    <3> QED
      BY <3>1, OpeningsSettled DEF Ordered
  <2>5. CASE UNCHANGED vars
    BY <2>5 DEF vars, Ordered, InHand
  <2> QED
    BY <2>1, <2>2, <2>3, <2>4, <2>5, ChatOrdered, AnswerOrdered DEF Next
<1> QED
  BY <1>1, <1>2, Inductive, PTL DEF Spec

\* When the provider is asked, every response that made calls has its results
\* behind it, in order, or was sent back at once.
THEOREM ResultsComeInOrder == Spec => []CallsAreAnswered
<1>1. Ordered => CallsAreAnswered
  <2> SUFFICES ASSUME Ordered, pc = "chat",
                      NEW i \in 1..Len(conv), conv[i].role = "assistant", conv[i].n > 0
               PROVE  AnsweredAt(conv, i)
    BY DEF CallsAreAnswered, AnsweredAt, ResultsUpTo
  <2> QED
    BY DEF Ordered, SettledBut, IsRequest
<1> QED
  BY <1>1, OrderedInductive, PTL
=============================================================================
