--------------------------- MODULE ExecutorProofs ---------------------------
(***************************************************************************)
(* Executor, for every set of tools, every output and every bound: its     *)
(* type, the consent every tool run needs, the reasons a run ends for, and *)
(* that the loop uses the detector as LoopDetector specifies.              *)
(*                                                                         *)
(* IInv ties the phase of the loop to the call in hand.  The refinement    *)
(* needs it: a call is recorded only while the detector has room for it    *)
(* and has not broken the run.                                             *)
(***************************************************************************)
EXTENDS Executor, SequenceTheorems, TLAPS

\* In these phases a call of the current response is in hand.
InCall == {"trust", "ask", "run", "gate", "answer"}

\* The call in hand exists, and the detector has room for it and for the rest
\* of the response.
CallInHand ==
  /\ Len(history) <= MaxCalls
  /\ pc \in InCall =>
       /\ k \in 1..Len(calls)
       /\ Len(history) + (Len(calls) - k) + 1 <= MaxCalls
       /\ verdict # "break"
       /\ status = "running"
  /\ pc \in {"top", "chat", "stop?"} => calls = <<>> /\ verdict # "break" /\ status = "running"

\* What the phase says of the outcome so far.
OutcomeSoFar ==
  /\ pc \in {"trust", "ask", "run"} => outcome = NoOutcome
  /\ pc = "gate" => outcome.result \in Outputs /\ ~outcome.error /\ calls[k] \in GateTools
  /\ pc = "answer" => outcome.result \in Failures \cup Replies \cup Outputs

IInv == TypeOK /\ CallInHand /\ OutcomeSoFar /\ RunsOnlyWithConsent /\ EndsForItsCause

LEMMA OutcomeTypes ==
  /\ NoOutcome \in Outcomes
  /\ \A r \in Failures : [result |-> r, error |-> TRUE] \in Outcomes
  /\ \A r \in Replies \cup Outputs : [result |-> r, error |-> FALSE] \in Outcomes
  /\ \A o \in Outcomes : o.error \in BOOLEAN
BY DEF Outcomes, NoOutcome

LEMMA CheckIsAVerdict == ASSUME NEW h PROVE Detector!Check(h) \in {"ok", "warning", "break"}
BY DEF Detector!Check

\* Compaction keeps a sequence of messages one.
LEMMA CompactType ==
  ASSUME NEW c \in Seq(Messages)
  PROVE  Compact(c) \in Seq(Messages)
<1>1. CASE Len(c) < 5
  BY <1>1 DEF Compact
<1>2. CASE Len(c) >= 5
  <2> DEFINE keepTail == IF 4 >= Len(c) - 1 THEN Len(c) - 2 ELSE 4
             from     == Len(c) - keepTail + 1
             tail     == SubSeq(c, from, Len(c))
  <2>1. Len(c) \in Nat /\ from \in 1..Len(c) + 1
    <3>1. Len(c) \in Nat
      BY LenProperties
    <3>2. \A n \in Nat : n >= 5 =>
            n - (IF 4 >= n - 1 THEN n - 2 ELSE 4) + 1 \in 1..n + 1
      OBVIOUS
    <3> QED
      BY ONLY <1>2, <3>1, <3>2
  <2>2. tail \in Seq(Messages)
    <3> HIDE DEF from
    <3>1. \A i \in from .. Len(c) : c[i] \in Messages
      BY <2>1
    <3> QED
      BY <2>1, <3>1, SubSeqProperties
  <2>3. User \in Messages
    BY DEF User, Messages
  <2>4. c[1] \in Messages
    BY <1>2
  <2>5. <<c[1], User>> \in Seq(Messages)
    BY <2>3, <2>4
  <2>6. Compact(c) = <<c[1], User>> \o tail
    <3>1. ~(Len(c) < 5)
      BY <1>2, <2>1
    <3> QED
      BY <3>1, Zenon DEF Compact
  <2> DEFINE front == <<c[1], User>>
  <2> HIDE DEF tail, front
  <2>7. front \o tail \in Seq(Messages)
    BY <2>2, <2>5, ConcatProperties DEF front
  <2> QED
    BY <2>6, <2>7 DEF front
<1> QED
  BY <1>1, <1>2

-----------------------------------------------------------------------------

LEMMA InitIInv == Init => IInv
<1> SUFFICES ASSUME Init PROVE IInv
  OBVIOUS
<1>1. conv \in Seq(Messages)
  BY DEF Init, System, User, Messages
<1>2. TypeOK
  BY <1>1, OutcomeTypes, ExecutorAssumption DEF Init, TypeOK, ExecutorAssumption
<1>3. CallInHand
  BY ExecutorAssumption DEF Init, CallInHand, InCall, ExecutorAssumption
<1> QED
  BY <1>2, <1>3 DEF Init, IInv, OutcomeSoFar, RunsOnlyWithConsent, EndsForItsCause

LEMMA IterateIInv == IInv /\ Iterate => IInv'
<1> SUFFICES ASSUME IInv, Iterate PROVE IInv'
  OBVIOUS
<1> USE DEF IInv
<1>1. PICK d \in Drains, compact \in BOOLEAN :
        /\ inbox' = inbox - d
        /\ conv' = LET drained == conv \o [i \in 1..d |-> User]
                   IN  IF compact THEN Compact(drained) ELSE drained
  BY DEF Iterate
<1>2. d \in Nat /\ inbox - d \in Nat
  BY ExecutorAssumption DEF ExecutorAssumption, Drains, TypeOK
<1>3. conv \o [i \in 1..d |-> User] \in Seq(Messages)
  <2>1. [i \in 1..d |-> User] \in Seq(Messages)
    BY <1>2 DEF User, Messages
  <2> QED
    BY <2>1 DEF TypeOK
<1>4. conv' \in Seq(Messages)
  BY <1>1, <1>3, CompactType
<1>5. TypeOK'
  BY <1>1, <1>2, <1>4, ExecutorAssumption DEF Iterate, TypeOK, ExecutorAssumption
<1> QED
  BY <1>5 DEF Iterate, CallInHand, OutcomeSoFar, InCall, RunsOnlyWithConsent, EndsForItsCause

LEMMA ChatCallsIInv == IInv /\ ChatCalls => IInv'
<1> SUFFICES ASSUME IInv, ChatCalls PROVE IInv'
  OBVIOUS
<1> USE DEF IInv
<1>1. PICK n \in 1 .. MaxCalls - Len(history) : \E cs \in [1..n -> Tools] :
        /\ calls' = cs
        /\ conv' = Append(conv, AssistantMsg(iter, n))
  BY DEF ChatCalls
<1>2. calls' \in Seq(Tools) /\ Len(calls') = n /\ n \in Nat \ {0}
  BY <1>1, ExecutorAssumption DEF TypeOK, ExecutorAssumption
<1>3. conv' \in Seq(Messages)
  BY <1>1, <1>2, ExecutorAssumption DEF TypeOK, AssistantMsg, Messages, ExecutorAssumption
<1>4. TypeOK'
  BY <1>2, <1>3, OutcomeTypes DEF ChatCalls, envVars, TypeOK
<1>5. CallInHand'
  BY <1>1, <1>2, ExecutorAssumption
     DEF ChatCalls, envVars, TypeOK, CallInHand, InCall, ExecutorAssumption
<1> QED
  BY <1>4, <1>5 DEF ChatCalls, OutcomeSoFar, RunsOnlyWithConsent, EndsForItsCause

LEMMA TrustIInv == IInv /\ (Trust \/ Approval) => IInv'
<1> SUFFICES ASSUME IInv, Trust \/ Approval PROVE IInv'
  OBVIOUS
<1> USE DEF IInv, Trust, Approval, Refuse, envVars
<1>1. TypeOK'
  <2>1. outcome' \in Outcomes
    BY OutcomeTypes DEF TypeOK, Failures
  <2> QED
    BY <2>1 DEF TypeOK
<1>2. CallInHand'
  BY DEF TypeOK, CallInHand, InCall
<1>3. OutcomeSoFar'
  BY DEF TypeOK, OutcomeSoFar, Failures
<1>4. RunsOnlyWithConsent' /\ EndsForItsCause'
  BY DEF RunsOnlyWithConsent, EndsForItsCause
<1> QED
  BY <1>1, <1>2, <1>3, <1>4

LEMMA RunToolIInv == IInv /\ RunTool => IInv'
<1> SUFFICES ASSUME IInv, RunTool PROVE IInv'
  OBVIOUS
<1> USE DEF IInv, RunTool, Refuse, envVars
<1>1. TypeOK'
  <2>1. outcome' \in Outcomes
    BY OutcomeTypes DEF Failures
  <2> QED
    BY <2>1 DEF TypeOK
<1>2. CallInHand'
  BY DEF TypeOK, CallInHand, InCall
<1>4. OutcomeSoFar'
  BY DEF OutcomeSoFar, Failures
<1>3. RunsOnlyWithConsent' /\ EndsForItsCause'
  BY DEF RunsOnlyWithConsent, EndsForItsCause
<1> QED
  BY <1>1, <1>2, <1>3, <1>4

LEMMA GateIInv == IInv /\ (GateLapses \/ GateAnswers) => IInv'
<1> SUFFICES ASSUME IInv, GateLapses \/ GateAnswers PROVE IInv'
  OBVIOUS
<1> USE DEF IInv, envVars
<1>1. CASE GateLapses
  BY <1>1 DEF GateLapses, End, TypeOK, CallInHand, OutcomeSoFar, InCall,
              RunsOnlyWithConsent, EndsForItsCause
<1>2. CASE GateAnswers
  <2>1. outcome' \in Outcomes
    BY <1>2, OutcomeTypes DEF GateAnswers, TypeOK, Replies
  <2>2. TypeOK'
    BY <1>2, <2>1 DEF GateAnswers, TypeOK
  <2>3. CallInHand'
    BY <1>2 DEF GateAnswers, CallInHand, InCall
  <2>4. OutcomeSoFar'
    BY <1>2 DEF GateAnswers, OutcomeSoFar, Replies
  <2>5. RunsOnlyWithConsent' /\ EndsForItsCause'
    BY <1>2 DEF GateAnswers, RunsOnlyWithConsent, EndsForItsCause
  <2> QED
    BY <2>2, <2>3, <2>4, <2>5
<1> QED
  BY <1>1, <1>2

\* What Answer records is an entry of the detector's.
LEMMA EntryType ==
  ASSUME IInv, pc = "answer"
  PROVE  [call |-> calls[k], result |-> outcome.result, error |-> outcome.error]
           \in Detector!Entries
<1>1. calls[k] \in Tools
  BY DEF IInv, TypeOK, CallInHand, InCall
<1>2. outcome.result \in Failures \cup Replies \cup Outputs
  BY DEF IInv, OutcomeSoFar
<1>3. outcome.error \in BOOLEAN
  BY OutcomeTypes DEF IInv, TypeOK
<1> QED
  BY <1>1, <1>2, <1>3 DEF Detector!Entries

LEMMA AnswerIInv == IInv /\ Answer => IInv'
<1> SUFFICES ASSUME IInv, Answer PROVE IInv'
  OBVIOUS
<1> USE DEF IInv
<1> DEFINE e == [call |-> calls[k], result |-> outcome.result, error |-> outcome.error]
<1>1. e \in Detector!Entries
  BY EntryType DEF Answer
<1>2. /\ history' \in Seq(Detector!Entries)
      /\ Len(history') = Len(history) + 1
  BY <1>1 DEF Answer, TypeOK
<1>3. verdict' \in {"ok", "warning", "break"}
  BY CheckIsAVerdict DEF Answer
<1>4. conv' \in Seq(Messages)
  <2>1. ToolMsg(iter, k) \in Messages /\ User \in Messages
    BY ExecutorAssumption DEF TypeOK, ToolMsg, User, Messages, ExecutorAssumption
  <2>2. Append(conv, ToolMsg(iter, k)) \in Seq(Messages)
    BY <2>1 DEF TypeOK
  <2>3. (IF verdict' = "warning" THEN <<User>> ELSE <<>>) \in Seq(Messages)
    BY <2>1
  <2> QED
    BY <2>2, <2>3 DEF Answer
<1>5. /\ Continue(verdict')
      /\ pc = "answer"
      /\ UNCHANGED <<iter, inbox, injected, live, approver>>
  BY DEF Answer, envVars
<1>6. CASE verdict' = "break"
  <2>1. TypeOK'
    BY <1>2, <1>3, <1>4, <1>5, <1>6, OutcomeTypes DEF Continue, End, TypeOK
  <2>2. CallInHand'
    BY <1>2, <1>3, <1>5, <1>6, ExecutorAssumption
       DEF Continue, End, TypeOK, CallInHand, InCall, ExecutorAssumption
  <2>3. OutcomeSoFar'
    BY <1>5, <1>6 DEF Continue, End, OutcomeSoFar
  <2>4. RunsOnlyWithConsent' /\ EndsForItsCause'
    BY <1>3, <1>5, <1>6 DEF Continue, End, RunsOnlyWithConsent, EndsForItsCause
  <2> QED
    BY <2>1, <2>2, <2>3, <2>4
<1>7. CASE verdict' # "break" /\ k < Len(calls)
  <2>1. TypeOK'
    BY <1>2, <1>3, <1>4, <1>5, <1>7, OutcomeTypes DEF Continue, End, TypeOK
  <2>2. CallInHand'
    BY <1>2, <1>3, <1>5, <1>7, ExecutorAssumption
       DEF Continue, End, TypeOK, CallInHand, InCall, ExecutorAssumption
  <2>3. OutcomeSoFar'
    BY <1>5, <1>7 DEF Continue, End, OutcomeSoFar
  <2>4. RunsOnlyWithConsent' /\ EndsForItsCause'
    BY <1>3, <1>5, <1>7 DEF Continue, End, RunsOnlyWithConsent, EndsForItsCause
  <2> QED
    BY <2>1, <2>2, <2>3, <2>4
<1>8. CASE verdict' # "break" /\ ~(k < Len(calls))
  <2>1. TypeOK'
    BY <1>2, <1>3, <1>4, <1>5, <1>8, OutcomeTypes DEF Continue, End, TypeOK
  <2>2. CallInHand'
    BY <1>2, <1>3, <1>5, <1>8, ExecutorAssumption
       DEF Continue, End, TypeOK, CallInHand, InCall, ExecutorAssumption
  <2>3. OutcomeSoFar'
    BY <1>5, <1>8 DEF Continue, End, OutcomeSoFar
  <2>4. RunsOnlyWithConsent' /\ EndsForItsCause'
    BY <1>3, <1>5, <1>8 DEF Continue, End, RunsOnlyWithConsent, EndsForItsCause
  <2> QED
    BY <2>1, <2>2, <2>3, <2>4
<1> QED
  BY <1>6, <1>7, <1>8

LEMMA EndIInv == IInv /\ (Exhaust \/ ChatFails \/ ChatAnswers \/ ShouldStop) => IInv'
<1> SUFFICES ASSUME IInv, Exhaust \/ ChatFails \/ ChatAnswers \/ ShouldStop PROVE IInv'
  OBVIOUS
<1> USE DEF IInv, Exhaust, ChatFails, ChatAnswers, ShouldStop, End, envVars
<1>1. TypeOK'
  BY DEF TypeOK
<1>2. CallInHand'
  BY DEF CallInHand, InCall
<1>3. OutcomeSoFar' /\ RunsOnlyWithConsent'
  BY DEF OutcomeSoFar, RunsOnlyWithConsent
<1>4. EndsForItsCause'
  BY DEF CallInHand, EndsForItsCause
<1> QED
  BY <1>1, <1>2, <1>3, <1>4

LEMMA WorldIInv == IInv /\ (Inject \/ CancelContext \/ UNCHANGED vars) => IInv'
<1> SUFFICES ASSUME IInv, Inject \/ CancelContext \/ UNCHANGED vars PROVE IInv'
  OBVIOUS
<1>1. UNCHANGED loopVars /\ UNCHANGED approver
  BY DEF Inject, CancelContext, vars, loopVars
<1>2. inbox' \in Nat /\ injected' \in Nat /\ live' \in BOOLEAN
  <2>1. CASE Inject
    BY <2>1 DEF Inject, IInv, TypeOK
  <2>2. CASE CancelContext
    BY <2>2 DEF CancelContext, IInv, TypeOK
  <2>3. CASE UNCHANGED vars
    BY <2>3 DEF vars, IInv, TypeOK
  <2> QED
    BY <2>1, <2>2, <2>3
<1>3. TypeOK'
  BY <1>1, <1>2 DEF IInv, TypeOK, loopVars
<1> QED
  BY <1>1, <1>3 DEF IInv, loopVars, CallInHand, OutcomeSoFar, RunsOnlyWithConsent,
                    EndsForItsCause

THEOREM Inductive == Spec => []IInv
<1>1. IInv /\ [Next]_vars => IInv'
  BY IterateIInv, ChatCallsIInv, TrustIInv, RunToolIInv, GateIInv, AnswerIInv, EndIInv,
     WorldIInv
  DEF Next, Step
<1> QED
  BY InitIInv, <1>1, PTL DEF Spec

\* Every variable keeps its type.
THEOREM TypeCorrect == Spec => []TypeOK
BY Inductive, PTL DEF IInv

\* No tool runs without the consent given to that very call.
THEOREM ConsentIsNeeded == Spec => []RunsOnlyWithConsent
BY Inductive, PTL DEF IInv

\* Every run ends for the reason it states.
THEOREM CausesAreTrue == Spec => []EndsForItsCause
BY Inductive, PTL DEF IInv

\* The loop records and checks as LoopDetector has it.
THEOREM Refinement == Spec => DrivesDetector
<1>1. Init => Detector!Init
  BY DEF Init, Detector!Init
<1>2. IInv /\ [Next]_vars => [Detector!Next]_(Detector!vars)
  <2> SUFFICES ASSUME IInv, [Next]_vars
               PROVE  [Detector!Next]_(Detector!vars)
    OBVIOUS
  <2>1. CASE Answer
    <3> DEFINE e == [call |-> calls[k], result |-> outcome.result, error |-> outcome.error]
    <3>1. e \in Detector!Entries
      BY <2>1, EntryType DEF Answer
    <3>2. verdict # "break" /\ Len(history) < MaxCalls
      BY <2>1, ExecutorAssumption
         DEF Answer, IInv, TypeOK, CallInHand, InCall, ExecutorAssumption
    <3>3. Detector!Record(e)
      BY <2>1, <3>2 DEF Answer, Detector!Record
    <3> QED
      BY <3>1, <3>3 DEF Detector!Next
  <2>2. CASE ~Answer
    BY <2>2 DEF Next, Step, Iterate, Exhaust, ChatFails, ChatAnswers, ChatCalls, Trust,
                Approval, RunTool, GateLapses, GateAnswers, ShouldStop, Inject,
                CancelContext, loopVars, vars, Detector!vars
  <2> QED
    BY <2>1, <2>2
<1> QED
  BY <1>1, <1>2, Inductive, PTL DEF Spec, DrivesDetector, Detector!Spec

-----------------------------------------------------------------------------
(* Results in order.  What is between a response and the next is a matter of *)
(* the conversation from that response on, so that compaction does not touch *)
(* it, nor does what is appended, unless it is a result behind the last      *)
(* response.                                                                 *)

\* All responses of c but the one at p, if it is one, are answered.
SettledBut(c, p) ==
  \A i \in 1..Len(c) : i # p /\ c[i].role = "assistant" => AnsweredUpTo(c, i, c[i].n)

\* The last response is the one whose calls are in hand, answered up to there.
Pending(p) ==
  /\ conv[p] = AssistantMsg(iter, Len(calls))
  /\ \A l \in p + 1 .. Len(conv) : conv[l].role # "assistant"
  /\ AnsweredUpTo(conv, p, k - 1)
  /\ SettledBut(conv, p)

Ordered ==
  /\ Len(conv) > 0 /\ conv[1].role = "system"
  /\ pc \in {"top", "chat", "stop?"} \/ status \in {"completed", "failed"} => SettledBut(conv, 0)
  /\ pc \in InCall => \E p \in 1..Len(conv) : Pending(p)

\* What answers a response in c answers it in d, if d has what c has from the
\* response on, off places further, and no more results before the next.
LEMMA AnsweredMoves ==
  ASSUME NEW c \in Seq(Messages), NEW d \in Seq(Messages), NEW i \in 1..Len(c), NEW off \in Int,
         \A q \in i..Len(c) : q + off \in 1..Len(d) /\ d[q + off] = c[q],
         \A q \in 1..Len(d) :
           q > Len(c) + off => \/ d[q].role # "tool"
                               \/ \E a \in i + 1 .. Len(c) : c[a].role = "assistant",
         NEW b, AnsweredUpTo(c, i, b)
  PROVE  AnsweredUpTo(d, i + off, b)
<1>1. Len(c) \in Nat /\ Len(d) \in Nat /\ i \in i..Len(c) /\ d[i + off] = c[i] /\ i \in Int
  BY LenProperties
<1>2. ASSUME NEW l \in ResultsOf(c, i)
      PROVE  l + off \in ResultsOf(d, i + off) /\ d[l + off] = c[l]
  <2>1. l \in i + 1 .. Len(c) /\ c[l].role = "tool"
        /\ \A a \in i + 1 .. l - 1 : c[a].role # "assistant"
    BY DEF ResultsOf
  <2>2. l \in i..Len(c) /\ l \in Int
    BY <1>1, <2>1
  <2>3. l + off \in 1..Len(d) /\ d[l + off] = c[l]
    BY <2>2
  <2>4. l + off \in i + off + 1 .. Len(d)
    BY <1>1, <2>1, <2>3
  <2>5. ASSUME NEW a \in i + off + 1 .. l + off - 1
        PROVE  d[a].role # "assistant"
    <3> DEFINE q == a - off
    <3>1. q \in i + 1 .. l - 1 /\ q \in i..Len(c) /\ q + off = a
      BY <1>1, <2>1, <2>2
    <3> HIDE DEF q
    <3>2. d[a] = c[q]
      BY <3>1
    <3> QED
      BY <2>1, <3>1, <3>2
  <2> QED
    BY <2>1, <2>3, <2>4, <2>5 DEF ResultsOf
<1>3. ASSUME NEW m \in ResultsOf(d, i + off)
      PROVE  m - off \in ResultsOf(c, i) /\ d[m] = c[m - off]
  <2>1. m \in i + off + 1 .. Len(d) /\ d[m].role = "tool"
        /\ \A a \in i + off + 1 .. m - 1 : d[a].role # "assistant"
    BY DEF ResultsOf
  <2>2. m \in Int /\ m \in 1..Len(d)
    <3>1. i + off \in 1..Len(d)
      BY <1>1
    <3> QED
      BY <1>1, <2>1, <3>1
  <2> DEFINE l == m - off
  <2>3. l \in Int /\ l >= i + 1 /\ l + off = m
    BY <1>1, <2>1, <2>2
  <2>4. l <= Len(c)
    <3> SUFFICES ASSUME m > Len(c) + off
                 PROVE  FALSE
      BY <1>1, <2>2
    <3>1. PICK a \in i + 1 .. Len(c) : c[a].role = "assistant"
      BY <2>1, <2>2
    <3>2. a \in i..Len(c) /\ a + off \in i + off + 1 .. m - 1
      BY <1>1, <2>2, <3>1
    <3>3. d[a + off] = c[a]
      BY <3>2
    <3> QED
      BY <2>1, <3>1, <3>2, <3>3
  <2>5. l \in i + 1 .. Len(c) /\ l \in i..Len(c)
    BY <1>1, <2>3, <2>4
  <2> HIDE DEF l
  <2>6. d[m] = c[l]
    BY <2>3, <2>5
  <2>7. ASSUME NEW a \in i + 1 .. l - 1
        PROVE  c[a].role # "assistant"
    <3>1. a \in i..Len(c) /\ a + off \in i + off + 1 .. m - 1
      BY <1>1, <2>2, <2>3, <2>5
    <3>2. d[a + off] = c[a]
      BY <3>1
    <3> QED
      BY <2>1, <3>1, <3>2
  <2>8. l \in ResultsOf(c, i)
    BY <2>1, <2>5, <2>6, <2>7 DEF ResultsOf
  <2> QED
    BY <2>6, <2>8 DEF l
<1>4. {d[m] : m \in ResultsOf(d, i + off)} = {c[l] : l \in ResultsOf(c, i)}
  <2> DEFINE D == ResultsOf(d, i + off)
             C == ResultsOf(c, i)
  <2>1. \A l \in C : l + off \in D /\ d[l + off] = c[l]
    BY <1>2
  <2>2. \A m \in D : m - off \in C /\ d[m] = c[m - off]
    BY <1>3
  <2> HIDE DEF C, D
  <2>3. {d[m] : m \in D} \subseteq {c[l] : l \in C}
    BY <2>2
  <2>4. {c[l] : l \in C} \subseteq {d[m] : m \in D}
    BY <2>1
  <2> QED
    BY <2>3, <2>4 DEF C, D
<1>5. ASSUME NEW l \in ResultsOf(d, i + off), NEW m \in ResultsOf(d, i + off), l < m
      PROVE  d[l].n < d[m].n
  <2>1. l \in Int /\ m \in Int /\ l - off < m - off
    BY <1>1, <1>5 DEF ResultsOf
  <2>2. c[l - off].n < c[m - off].n
    BY <1>3, <2>1 DEF AnsweredUpTo
  <2> QED
    BY <1>3, <2>2
<1> QED
  BY <1>1, <1>4, <1>5, ZenonT(40) DEF AnsweredUpTo

\* Appending messages that are no results, or anything behind a response that
\* another follows, leaves what was answered so.
LEMMA AppendSettles ==
  ASSUME NEW c \in Seq(Messages), NEW s \in Seq(Messages), NEW p \in Nat,
         SettledBut(c, p),
         \A m \in 1..Len(s) : s[m].role # "assistant",
         \/ \A m \in 1..Len(s) : s[m].role # "tool"
         \/ p \in 1..Len(c) /\ c[p].role = "assistant"
            /\ \A l \in p + 1 .. Len(c) : c[l].role # "assistant"
  PROVE  SettledBut(c \o s, p)
<1> DEFINE d == c \o s
<1>1. /\ Len(c) \in Nat /\ Len(s) \in Nat
      /\ d \in Seq(Messages) /\ Len(d) = Len(c) + Len(s)
      /\ \A q \in 1..Len(c) : d[q] = c[q]
      /\ \A q \in Len(c) + 1 .. Len(d) : q - Len(c) \in 1..Len(s) /\ d[q] = s[q - Len(c)]
  BY ConcatProperties, LenProperties
<1> HIDE DEF d
<1> SUFFICES ASSUME NEW i \in 1..Len(d), i # p, d[i].role = "assistant"
             PROVE  AnsweredUpTo(d, i, d[i].n)
  BY DEF SettledBut, d
<1>2. i \in 1..Len(c) /\ d[i] = c[i]
  <2>1. CASE i > Len(c)
    <3>1. i \in Len(c) + 1 .. Len(d)
      BY <1>1, <2>1
    <3> QED
      BY <1>1, <3>1
  <2>2. CASE i <= Len(c)
    BY <1>1, <2>2
  <2> QED
    BY <1>1, <2>1, <2>2
<1>3. AnsweredUpTo(c, i, c[i].n)
  BY <1>2 DEF SettledBut
<1>4. \A q \in i..Len(c) : q + 0 \in 1..Len(d) /\ d[q + 0] = c[q]
  BY <1>1, <1>2
<1>5. ASSUME NEW q \in 1..Len(d), q > Len(c) + 0
      PROVE  d[q].role # "tool" \/ \E a \in i + 1 .. Len(c) : c[a].role = "assistant"
  <2>1. q \in Len(c) + 1 .. Len(d)
    BY <1>1, <1>5
  <2>2. q - Len(c) \in 1..Len(s) /\ d[q] = s[q - Len(c)]
    BY <1>1, <2>1
  <2>3. CASE \A m \in 1..Len(s) : s[m].role # "tool"
    BY <2>2, <2>3
  <2>4. CASE p \in 1..Len(c) /\ c[p].role = "assistant"
             /\ \A l \in p + 1 .. Len(c) : c[l].role # "assistant"
    <3>1. p \in i + 1 .. Len(c)
      BY <1>1, <1>2, <2>4
    <3> QED
      BY <2>4, <3>1
  <2> QED
    BY <2>3, <2>4
<1>6. 0 \in Int /\ i + 0 = i
  BY <1>2
<1>7. AnsweredUpTo(d, i + 0, c[i].n)
  <2> HIDE DEF AnsweredUpTo
  <2> QED
    BY <1>1, <1>2, <1>3, <1>4, <1>5, <1>6, AnsweredMoves
<1> QED
  BY <1>2, <1>6, <1>7

\* Compaction takes a conversation from some message on, with two messages of
\* its own in front that are no responses.
LEMMA CompactSettles ==
  ASSUME NEW c \in Seq(Messages), Len(c) > 0, c[1].role = "system", SettledBut(c, 0)
  PROVE  SettledBut(Compact(c), 0) /\ Compact(c)[1].role = "system" /\ Len(Compact(c)) > 0
<1>1. CASE Len(c) < 5
  BY <1>1 DEF Compact
<1>2. CASE ~(Len(c) < 5)
  <2> DEFINE keepTail == IF 4 >= Len(c) - 1 THEN Len(c) - 2 ELSE 4
             from == Len(c) - keepTail + 1
             front == <<c[1], User>>
             tail == SubSeq(c, from, Len(c))
             d == front \o tail
  <2>1. Len(c) \in Nat /\ from \in 1..Len(c) /\ from \in Int
    <3>1. Len(c) \in Nat
      BY LenProperties
    <3> QED
      BY <1>2, <3>1
  <2>2. Compact(c) = d
    BY <1>2, Zenon DEF Compact
  <2>3. /\ front \in Seq(Messages) /\ Len(front) = 2
        /\ front[1].role = "system" /\ front[2].role = "user"
    <3>1. c[1] \in Messages
      BY <1>2
    <3>2. User \in Messages /\ User.role = "user"
      BY DEF User, Messages
    <3> QED
      BY <3>1, <3>2
  <2> HIDE DEF from, front
  <2>4. /\ tail \in Seq(Messages) /\ Len(tail) = Len(c) - from + 1
        /\ \A q \in 1 .. Len(c) - from + 1 : tail[q] = c[from + q - 1]
    <3>1. \A q \in from .. Len(c) : c[q] \in Messages
      BY <2>1
    <3> QED
      BY <2>1, <3>1, SubSeqProperties
  <2> HIDE DEF tail
  <2>5. /\ d \in Seq(Messages) /\ Len(d) = 2 + (Len(c) - from + 1)
        /\ d[1] = front[1] /\ d[2] = front[2]
        /\ \A q \in 3 .. Len(d) : d[q] = tail[q - 2]
    <3>1. Len(tail) \in Nat
      BY <2>4, LenProperties
    <3>2. /\ d \in Seq(Messages) /\ Len(d) = Len(front) + Len(tail)
          /\ \A q \in 1 .. Len(front) + Len(tail) :
               d[q] = IF q <= Len(front) THEN front[q] ELSE tail[q - Len(front)]
      BY <2>3, <2>4, ConcatProperties
    <3> HIDE DEF d
    <3> QED
      BY <2>3, <2>4, <3>1, <3>2
  <2> HIDE DEF d
  <2>6. ASSUME NEW i \in 1..Len(d), d[i].role = "assistant"
        PROVE  AnsweredUpTo(d, i, d[i].n)
    <3> DEFINE off == 3 - from
               h   == i - off
    <3>1. i >= 3
      BY <2>1, <2>3, <2>5, <2>6
    <3>2. h \in from..Len(c) /\ h \in 1..Len(c) /\ h + off = i /\ off \in Int /\ h # 0
          /\ Len(d) = Len(c) + off
      BY <2>1, <2>5, <3>1
    <3>3. ASSUME NEW q \in h..Len(c)
          PROVE  q + off \in 1..Len(d) /\ d[q + off] = c[q]
      <4>1. q + off \in 3..Len(d) /\ (q + off) - 2 \in 1 .. Len(c) - from + 1
            /\ from + ((q + off) - 2) - 1 = q
        BY <2>1, <2>5, <3>2
      <4> HIDE DEF off, h
      <4>2. d[q + off] = c[q]
        BY <2>4, <2>5, <4>1
      <4> QED
        BY <2>1, <2>5, <4>1, <4>2
    <3> HIDE DEF h, off
    <3>4. d[i] = c[h]
      BY <2>1, <3>2, <3>3
    <3>5. AnsweredUpTo(c, h, c[h].n)
      BY <2>6, <3>2, <3>4 DEF SettledBut
    <3>6. \A q \in 1..Len(d) : ~(q > Len(c) + off)
      BY <2>1, <2>5, <3>2
    <3>7. AnsweredUpTo(d, h + off, c[h].n)
      BY <2>5, <3>2, <3>3, <3>5, <3>6, AnsweredMoves
    <3> QED
      BY <3>2, <3>4, <3>7
  <2> QED
    BY <2>1, <2>2, <2>3, <2>5, <2>6, SMTT(20) DEF SettledBut
<1> QED
  BY <1>1, <1>2

\* The inbox is drained behind, and compaction is in front of, what is answered.
LEMMA IterateOrdered == IInv /\ Ordered /\ Iterate => Ordered'
<1> SUFFICES ASSUME IInv, Ordered, Iterate PROVE Ordered'
  OBVIOUS
<1>1. PICK m \in Drains, compact \in BOOLEAN :
        conv' = LET drained == conv \o [i \in 1..m |-> User]
                IN  IF compact THEN Compact(drained) ELSE drained
  BY DEF Iterate
<1> DEFINE users   == [i \in 1..m |-> User]
           drained == conv \o users
<1>2. /\ conv \in Seq(Messages) /\ Len(conv) \in Nat /\ Len(conv) > 0
      /\ conv[1].role = "system" /\ SettledBut(conv, 0)
      /\ status = "running" /\ pc' = "chat" /\ status' = status
  BY LenProperties DEF Iterate, IInv, TypeOK, CallInHand, Ordered
<1>3. /\ users \in Seq(Messages) /\ Len(users) \in Nat
      /\ \A q \in 1..Len(users) : users[q].role = "user"
  <2>1. m \in Nat
    BY ExecutorAssumption DEF ExecutorAssumption, Drains, IInv, TypeOK
  <2> QED
    BY <2>1 DEF User, Messages
<1> HIDE DEF users
<1>4. SettledBut(drained, 0)
  BY <1>2, <1>3, AppendSettles
<1>5. drained \in Seq(Messages) /\ Len(drained) > 0 /\ drained[1] = conv[1]
  BY <1>2, <1>3, ConcatProperties
<1> HIDE DEF drained
<1>6. SettledBut(conv', 0) /\ Len(conv') > 0 /\ conv'[1].role = "system"
  <2>1. CASE compact
    BY <1>1, <1>2, <1>4, <1>5, <2>1, CompactSettles DEF drained, users
  <2>2. CASE ~compact
    BY <1>1, <1>2, <1>4, <1>5, <2>2 DEF drained, users
  <2> QED
    BY <2>1, <2>2
<1> QED
  BY <1>2, <1>6 DEF Ordered, InCall

\* A response with calls comes last, with no result yet.
LEMMA ChatCallsOrdered == IInv /\ Ordered /\ ChatCalls => Ordered'
<1> SUFFICES ASSUME IInv, Ordered, ChatCalls PROVE Ordered'
  OBVIOUS
<1>1. PICK n \in 1 .. MaxCalls - Len(history) : \E cs \in [1..n -> Tools] :
        /\ calls' = cs
        /\ conv' = Append(conv, AssistantMsg(iter, n))
  BY DEF ChatCalls
<1>2. /\ conv \in Seq(Messages) /\ Len(conv) \in Nat /\ Len(conv) > 0
      /\ conv[1].role = "system" /\ SettledBut(conv, 0)
      /\ status = "running" /\ pc' = "trust" /\ status' = status /\ k' = 1 /\ iter' = iter
      /\ iter \in Nat
  BY LenProperties, ExecutorAssumption
     DEF ChatCalls, IInv, TypeOK, CallInHand, Ordered, ExecutorAssumption
<1>3. n \in Nat /\ Len(calls') = n
  BY <1>1
<1> DEFINE request == AssistantMsg(iter, n)
           last    == Len(conv) + 1
<1>4. request \in Messages
  BY <1>2, <1>3 DEF AssistantMsg, Messages
<1>5. conv' = Append(conv, request)
  BY <1>1
<1> HIDE DEF request
<1>6. /\ conv' \in Seq(Messages) /\ Len(conv') = last
      /\ \A q \in 1..Len(conv) : conv'[q] = conv[q]
      /\ conv'[last] = request
  BY <1>2, <1>4, <1>5
<1>7. ASSUME NEW i \in 1..Len(conv), conv'[i].role = "assistant"
      PROVE  AnsweredUpTo(conv', i, conv'[i].n)
  <2>1. AnsweredUpTo(conv, i, conv[i].n)
    BY <1>2, <1>6, <1>7 DEF SettledBut
  <2>2. \A q \in i..Len(conv) : q + 0 \in 1..Len(conv') /\ conv'[q + 0] = conv[q]
    BY <1>2, <1>6
  <2>3. \A q \in 1..Len(conv') : q > Len(conv) + 0 => conv'[q].role # "tool"
    <3>1. request.role # "tool"
      BY DEF request, AssistantMsg
    <3>2. \A q \in 1..Len(conv') : q > Len(conv) => q = last
      BY <1>2, <1>6
    <3> QED
      BY <1>2, <1>6, <3>1, <3>2
  <2>4. 0 \in Int /\ i + 0 = i
    OBVIOUS
  <2>5. AnsweredUpTo(conv', i + 0, conv[i].n)
    BY <1>2, <1>6, <2>1, <2>2, <2>3, <2>4, AnsweredMoves
  <2> QED
    BY <1>6, <2>4, <2>5
<1>8. SettledBut(conv', last)
  <2>1. \A i \in 1..Len(conv') : i # last => i \in 1..Len(conv)
    BY <1>2, <1>6
  <2> QED
    BY <1>7, <2>1 DEF SettledBut
<1>9. PICK p \in Nat : p = last
  BY <1>2
<1>10. AnsweredUpTo(conv', p, k' - 1)
  <2>1. ResultsOf(conv', p) = {}
    BY <1>2, <1>6, <1>9 DEF ResultsOf
  <2> QED
    BY <1>2, <2>1 DEF AnsweredUpTo
<1>11. Pending(p)'
  BY <1>2, <1>3, <1>6, <1>8, <1>9, <1>10 DEF Pending, request
<1>12. p \in 1..Len(conv') /\ Len(conv') > 0 /\ conv'[1].role = "system"
  BY <1>2, <1>6, <1>9
<1> QED
  BY <1>2, <1>11, <1>12 DEF Ordered, InCall

\* The result of the call in hand goes behind those before it.
LEMMA AnswerOrdered == IInv /\ Ordered /\ Answer => Ordered'
<1> SUFFICES ASSUME IInv, Ordered, Answer PROVE Ordered'
  OBVIOUS
<1>1. /\ conv \in Seq(Messages) /\ Len(conv) \in Nat /\ Len(conv) > 0
      /\ conv[1].role = "system"
      /\ pc = "answer" /\ status = "running" /\ iter' = iter /\ iter \in Nat
      /\ k \in 1..Len(calls) /\ k \in Nat /\ Len(calls) \in Nat
  BY LenProperties, ExecutorAssumption
     DEF Answer, IInv, TypeOK, CallInHand, InCall, Ordered, ExecutorAssumption
<1>2. PICK p \in 1..Len(conv) : Pending(p)
  BY <1>1 DEF Ordered, InCall
<1> DEFINE result == ToolMsg(iter, k)
           s == IF verdict' = "warning" THEN <<result, User>> ELSE <<result>>
           d == conv \o s
<1>3. result \in Messages /\ User \in Messages /\ User.role = "user"
      /\ result.role = "tool" /\ result.n = k
  BY <1>1 DEF ToolMsg, User, Messages
<1>4. conv' = d
  <2>1. CASE verdict' = "warning"
    <3>1. conv' = Append(conv, result) \o <<User>>
      BY <2>1 DEF Answer
    <3>2. \A r, u \in Messages : Append(conv, r) \o <<u>> = conv \o <<r, u>>
      BY <1>1, SMTT(20)
    <3> QED
      BY <1>3, <2>1, <3>1, <3>2
  <2>2. CASE verdict' # "warning"
    BY <1>1, <1>3, <2>2 DEF Answer
  <2> QED
    BY <2>1, <2>2
<1> HIDE DEF result
<1>5. /\ s \in Seq(Messages) /\ Len(s) \in 1..2 /\ s[1] = result
      /\ \A q \in 1..Len(s) : s[q].role # "assistant" /\ (q # 1 => s[q].role # "tool")
  <2>1. CASE verdict' = "warning"
    BY <1>3, <2>1
  <2>2. CASE verdict' # "warning"
    BY <1>3, <2>2
  <2> QED
    BY <2>1, <2>2
<1> HIDE DEF s
<1> DEFINE last == Len(conv) + 1
<1>6. /\ d \in Seq(Messages) /\ Len(d) = Len(conv) + Len(s)
      /\ \A q \in 1..Len(conv) : d[q] = conv[q]
      /\ d[last] = result
      /\ \A q \in last .. Len(d) : d[q].role # "assistant" /\ (q # last => d[q].role # "tool")
  <2>1. /\ d \in Seq(Messages) /\ Len(d) = Len(conv) + Len(s)
        /\ \A q \in 1 .. Len(conv) + Len(s) :
             d[q] = IF q <= Len(conv) THEN conv[q] ELSE s[q - Len(conv)]
    BY <1>1, <1>5, ConcatProperties
  <2> HIDE DEF d
  <2>2. ASSUME NEW q \in last .. Len(d)
        PROVE  q - Len(conv) \in 1..Len(s) /\ d[q] = s[q - Len(conv)]
               /\ (q # last => q - Len(conv) # 1)
    BY <1>1, <1>5, <2>1
  <2>3. \A q \in 1..Len(conv) : d[q] = conv[q]
    BY <1>1, <1>5, <2>1
  <2>4. d[last] = result
    <3>1. last \in last .. Len(d) /\ last - Len(conv) = 1
      BY <1>1, <1>5, <2>1
    <3> QED
      BY <1>5, <2>2, <3>1
  <2>5. ASSUME NEW q \in last .. Len(d)
        PROVE  d[q].role # "assistant" /\ (q # last => d[q].role # "tool")
    BY <1>5, <2>2
  <2> QED
    BY <2>1, <2>3, <2>4, <2>5
<1>7. SettledBut(d, p)
  <2>1. /\ conv[p].role = "assistant" /\ SettledBut(conv, p) /\ p \in Nat
        /\ \A l \in p + 1 .. Len(conv) : conv[l].role # "assistant"
    BY <1>2 DEF Pending, AssistantMsg
  <2> QED
    BY <1>1, <1>5, <2>1, AppendSettles
<1> HIDE DEF d
<1>8. /\ d[p] = AssistantMsg(iter, Len(calls))
      /\ \A l \in p + 1 .. Len(d) : d[l].role # "assistant"
  <2>1. ASSUME NEW l \in p + 1 .. Len(d)
        PROVE  d[l].role # "assistant"
    <3>1. CASE l \in 1..Len(conv)
      BY <1>2, <1>6, <3>1, SMTT(20) DEF Pending
    <3>2. CASE l \in last .. Len(d)
      BY <1>6, <3>2
    <3> QED
      BY <1>1, <3>1, <3>2
  <2> QED
    BY <1>2, <1>6, <2>1 DEF Pending
<1>9. ResultsOf(d, p) = ResultsOf(conv, p) \cup {last}
  <2>1. ASSUME NEW l \in ResultsOf(d, p)
        PROVE  l \in ResultsOf(conv, p) \cup {last}
    <3>1. l \in p + 1 .. Len(d) /\ d[l].role = "tool"
          /\ \A a \in p + 1 .. l - 1 : d[a].role # "assistant"
      BY DEF ResultsOf
    <3>2. CASE l \in 1..Len(conv)
      <4>1. conv[l].role = "tool" /\ l \in p + 1 .. Len(conv)
        BY <1>6, <3>1, <3>2
      <4>2. \A a \in p + 1 .. l - 1 : conv[a].role # "assistant"
        BY <1>2, <3>2 DEF Pending
      <4> QED
        BY <4>1, <4>2 DEF ResultsOf
    <3>3. CASE l \in last .. Len(d)
      BY <1>6, <3>1, <3>3
    <3> QED
      BY <1>1, <3>1, <3>2, <3>3
  <2>2. ASSUME NEW l \in ResultsOf(conv, p)
        PROVE  l \in ResultsOf(d, p)
    <3>1. l \in p + 1 .. Len(conv) /\ conv[l].role = "tool"
      BY DEF ResultsOf
    <3>2. l \in p + 1 .. Len(d) /\ d[l].role = "tool"
      BY <1>1, <1>5, <1>6, <3>1
    <3>3. \A a \in p + 1 .. l - 1 : d[a].role # "assistant"
      BY <1>8, <3>2
    <3> QED
      BY <3>2, <3>3 DEF ResultsOf
  <2>3. last \in ResultsOf(d, p)
    <3>1. last \in p + 1 .. Len(d) /\ d[last].role = "tool"
      BY <1>1, <1>3, <1>5, <1>6
    <3>2. \A a \in p + 1 .. last - 1 : d[a].role # "assistant"
      BY <1>8, <3>1
    <3> QED
      BY <3>1, <3>2 DEF ResultsOf
  <2> QED
    BY <2>1, <2>2, <2>3
<1>10. \A l \in ResultsOf(conv, p) : /\ l < last
                                     /\ d[l] = conv[l]
                                     /\ \E j \in 1 .. k - 1 : conv[l] = ToolMsg(iter, j)
  <2> SUFFICES ASSUME NEW l \in ResultsOf(conv, p)
               PROVE  l < last /\ d[l] = conv[l] /\ \E j \in 1 .. k - 1 : conv[l] = ToolMsg(iter, j)
    OBVIOUS
  <2>1. l < last /\ d[l] = conv[l]
    BY <1>1, <1>6 DEF ResultsOf
  <2>2. conv[p].turn = iter
    BY <1>2 DEF Pending, AssistantMsg
  <2>3. conv[l] \in {ToolMsg(iter, j) : j \in 1 .. k - 1}
    BY <1>2, <2>2 DEF Pending, AnsweredUpTo
  <2> QED
    BY <2>1, <2>3
<1>11. AnsweredUpTo(d, p, k)
  <2>1. d[p].turn = iter /\ conv[p].turn = iter
    BY <1>2, <1>8 DEF Pending, AssistantMsg
  <2>2. {conv[l] : l \in ResultsOf(conv, p)} = {ToolMsg(iter, j) : j \in 1 .. k - 1}
    BY <1>2, <2>1 DEF Pending, AnsweredUpTo
  <2>3. {d[l] : l \in ResultsOf(d, p)} = {conv[l] : l \in ResultsOf(conv, p)} \cup {result}
    BY <1>6, <1>9, <1>10
  <2>4. {ToolMsg(iter, j) : j \in 1 .. k} = {ToolMsg(iter, j) : j \in 1 .. k - 1} \cup {ToolMsg(iter, k)}
    <3>1. 1..k = (1 .. k - 1) \cup {k}
      BY <1>1
    <3> QED
      BY <3>1
  <2>5. ASSUME NEW l \in ResultsOf(d, p), NEW m \in ResultsOf(d, p), l < m
        PROVE  d[l].n < d[m].n
    <3>1. l \in Int /\ m \in Int
      BY <2>5 DEF ResultsOf
    <3>2. CASE m = last
      <4>1. l \in ResultsOf(conv, p)
        BY <1>9, <2>5, <3>1, <3>2
      <4>2. PICK j \in 1 .. k - 1 : conv[l] = ToolMsg(iter, j)
        BY <1>10, <4>1
      <4>3. d[l].n = j /\ d[m].n = k
        <5>1. d[l] = ToolMsg(iter, j) /\ d[m] = result
          BY <1>6, <1>10, <3>2, <4>1, <4>2
        <5> QED
          BY <1>3, <5>1 DEF ToolMsg
      <4> QED
        BY <1>1, <4>3
    <3>3. CASE m # last
      <4>1. m \in ResultsOf(conv, p) /\ m < last
        BY <1>9, <1>10, <3>3
      <4>2. l \in ResultsOf(conv, p)
        BY <1>1, <1>9, <2>5, <3>1, <4>1
      <4> QED
        BY <1>2, <1>10, <2>5, <4>1, <4>2 DEF Pending, AnsweredUpTo
    <3> QED
      BY <3>2, <3>3
  <2> QED
    BY <2>1, <2>2, <2>3, <2>4, <2>5 DEF AnsweredUpTo, result
<1>12. Len(d) > 0 /\ d[1].role = "system" /\ p \in 1..Len(d)
  BY <1>1, <1>5, <1>6
<1>13. Continue(verdict')
  BY DEF Answer
<1>14. CASE verdict' = "break"
  BY <1>4, <1>12, <1>13, <1>14 DEF Continue, End, Ordered, InCall
<1>15. CASE verdict' # "break" /\ k < Len(calls)
  <2>1. pc' = "trust" /\ k' = k + 1 /\ calls' = calls /\ status' = status
    BY <1>13, <1>15 DEF Continue
  <2>2. AnsweredUpTo(d, p, k' - 1)
    <3>1. k' - 1 = k
      BY <1>1, <2>1
    <3> QED
      BY <1>11, <3>1
  <2>3. Pending(p)'
    BY <1>1, <1>4, <1>7, <1>8, <2>1, <2>2 DEF Pending
  <2> QED
    BY <1>1, <1>4, <1>12, <2>1, <2>3 DEF Ordered, InCall
<1>16. CASE verdict' # "break" /\ ~(k < Len(calls))
  <2>1. pc' = "stop?" /\ status' = status /\ k = Len(calls)
    BY <1>1, <1>13, <1>16 DEF Continue
  <2>2. AnsweredUpTo(d, p, d[p].n)
    BY <1>8, <1>11, <2>1 DEF AssistantMsg
  <2>3. SettledBut(d, 0)
    BY <1>7, <2>2 DEF SettledBut
  <2> QED
    BY <1>1, <1>4, <1>12, <2>1, <2>3 DEF Ordered, InCall
<1> QED
  BY <1>14, <1>15, <1>16

\* Nothing else touches the conversation.
LEMMA OthersOrdered ==
  IInv /\ Ordered /\ [Next]_vars /\ ~Iterate /\ ~ChatCalls /\ ~Answer => Ordered'
<1> SUFFICES ASSUME IInv, Ordered, [Next]_vars, ~Iterate, ~ChatCalls, ~Answer
             PROVE  Ordered'
  OBVIOUS
<1>1. UNCHANGED <<conv, iter>>
  BY DEF Next, Step, Exhaust, ChatFails, ChatAnswers, Trust, Approval, RunTool,
         GateLapses, GateAnswers, ShouldStop, Inject, CancelContext, loopVars, vars
<1>2. CASE Trust \/ Approval \/ RunTool \/ GateAnswers
  <2>1. pc \in InCall /\ pc' \in InCall /\ UNCHANGED <<calls, k, status>> /\ status = "running"
    BY <1>2 DEF Trust, Approval, RunTool, GateAnswers, Refuse, InCall, IInv, CallInHand
  <2> QED
    BY <1>1, <2>1 DEF Ordered, Pending, InCall
<1>3. CASE GateLapses
  BY <1>1, <1>3 DEF GateLapses, End, Ordered, InCall
<1>4. CASE Exhaust \/ ChatFails \/ ChatAnswers \/ ShouldStop
  <2>1. SettledBut(conv, 0) /\ pc' \in {"top", "done"}
    BY <1>4 DEF Exhaust, ChatFails, ChatAnswers, ShouldStop, End, Ordered
  <2> QED
    BY <1>1, <2>1 DEF Ordered, InCall
<1>5. CASE Inject \/ CancelContext \/ UNCHANGED vars
  <2>1. UNCHANGED <<pc, calls, k, status>>
    BY <1>5 DEF Inject, CancelContext, loopVars, vars
  <2> QED
    BY <1>1, <2>1 DEF Ordered, Pending
<1> QED
  BY <1>2, <1>3, <1>4, <1>5 DEF Next, Step

LEMMA OrderedInductive == Spec => []Ordered
<1>1. Init => Ordered
  <2> SUFFICES ASSUME Init PROVE Ordered
    OBVIOUS
  <2>1. conv = <<System, User>> /\ System.role = "system" /\ User.role = "user" /\ pc = "top"
    BY DEF Init, System, User
  <2>2. Len(conv) > 0 /\ conv[1].role = "system" /\ \A i \in 1..Len(conv) : conv[i].role # "assistant"
    BY <2>1
  <2> QED
    BY <2>1, <2>2 DEF Ordered, SettledBut, InCall
<1>2. IInv /\ Ordered /\ [Next]_vars => Ordered'
  BY IterateOrdered, ChatCallsOrdered, AnswerOrdered, OthersOrdered
<1> QED
  BY <1>1, <1>2, Inductive, PTL DEF Spec

\* Between a response and the next are the results of its calls, once each and
\* in order, whenever the provider is asked and when a run completes or fails.
THEOREM ResultsComeInOrder == Spec => []AnswersInOrder
<1>1. Ordered => AnswersInOrder
  BY DEF Ordered, SettledBut, AnswersInOrder
<1> QED
  BY <1>1, OrderedInductive, PTL
=============================================================================
