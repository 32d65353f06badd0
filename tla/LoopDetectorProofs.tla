------------------------- MODULE LoopDetectorProofs -------------------------
(***************************************************************************)
(* LoopDetector, for every set of calls and results and every choice of    *)
(* thresholds.  The verdict looks only at patterns that involve the call   *)
(* just made; the invariants are about the whole history.  What carries    *)
(* one to the other is that a surviving history is a surviving history     *)
(* with one entry appended.                                                *)
(***************************************************************************)
EXTENDS LoopDetector, SequenceTheorems, FiniteSetTheorems, TLAPS

\* A recorded call leaves the earlier entries as they were.
LEMMA AppendKeeps ==
  ASSUME NEW S, NEW h \in Seq(S), NEW e \in S
  PROVE  /\ Append(h, e) \in Seq(S)
         /\ Append(h, e) # <<>>
         /\ Len(Append(h, e)) = Len(h) + 1
         /\ Last(Append(h, e)) = e
         /\ \A i \in 1..Len(h) : Append(h, e)[i] = h[i]
         /\ \A i \in 1..Len(h) + 1 : Append(h, e)[i] \in S
BY DEF Last

LEMMA OccurrencesFinite ==
  ASSUME NEW S, NEW h \in Seq(S), NEW e
  PROVE  /\ IsFiniteSet(Occurrences(h, e))
         /\ Cardinality(Occurrences(h, e)) \in Nat
<1>1. IsFiniteSet(1..Len(h))
  BY FS_Interval
<1>2. Occurrences(h, e) \subseteq 1..Len(h)
  BY DEF Occurrences
<1> QED
  BY <1>1, <1>2, FS_Subset, FS_CardinalityType

\* Only the appended entry occurs more often than before.
LEMMA OccurrencesOfAppend ==
  ASSUME NEW S, NEW h \in Seq(S), NEW e \in S, NEW x \in S, x # e
  PROVE  Occurrences(Append(h, e), x) = Occurrences(h, x)
<1>1. Append(h, e)[Len(h) + 1] = e
  OBVIOUS
<1> QED
  BY <1>1, AppendKeeps DEF Occurrences

LEMMA ThresholdsPositive ==
  /\ maxConsecutive \in Nat \ {0}
  /\ maxErrors \in Nat \ {0}
  /\ maxAlternating \in Nat \ {0}
  /\ maxNoProgress \in Nat \ {0}
BY LoopDetectorAssumption
   DEF LoopDetectorAssumption, WithDefault, maxConsecutive, maxErrors,
       maxAlternating, maxNoProgress

\* What a verdict other than "break" says of the history's end.
LEMMA Survival ==
  ASSUME NEW h, h # <<>>, Check(h) # "break"
  PROVE  /\ ~RepeatedErrors(h)
         /\ ~NoProgress(h)
         /\ ~Streak(h, maxConsecutive)
         /\ Streak(h, maxConsecutive - 1) \/ ~Alternates(h, maxAlternating)
BY DEF Check

-----------------------------------------------------------------------------

\* The history is a sequence of entries and every verdict is one of the three.
THEOREM TypeCorrect == Spec => []TypeOK
<1>1. Init => TypeOK
  BY DEF Init, TypeOK
<1>2. TypeOK /\ [Next]_vars => TypeOK'
  <2> SUFFICES ASSUME TypeOK, [Next]_vars
               PROVE  TypeOK'
    OBVIOUS
  <2>1. ASSUME NEW e \in Entries, Record(e)
        PROVE  TypeOK'
    <3>1. history' \in Seq(Entries)
      BY <2>1, AppendKeeps DEF Record, TypeOK
    <3>2. status' \in {"ok", "warning", "break"}
      BY <2>1 DEF Record, Check
    <3> QED
      BY <3>1, <3>2 DEF TypeOK
  <2>2. CASE Reset
    BY <2>2 DEF Reset, TypeOK
  <2>3. CASE UNCHANGED vars
    BY <2>3 DEF vars, TypeOK
  <2> QED
    BY <2>1, <2>2, <2>3 DEF Next
<1> QED
  BY <1>1, <1>2, PTL DEF Spec

\* A run that goes on has seen no outcome of a call too often.
THEOREM RepeatsAreBroken == Spec => []NoRepeatSurvives
<1>1. Init => NoRepeatSurvives
  <2> SUFFICES ASSUME Init, NEW e \in Entries
               PROVE  Cardinality(Occurrences(history, e))
                        < (IF e.error THEN maxErrors ELSE maxNoProgress)
    BY DEF NoRepeatSurvives
  <2>1. Occurrences(history, e) = {}
    BY DEF Init, Occurrences
  <2>2. Cardinality(Occurrences(history, e)) = 0
    BY <2>1, FS_EmptySet
  <2> QED
    BY <2>2, ThresholdsPositive
<1>2. TypeOK /\ NoRepeatSurvives /\ [Next]_vars => NoRepeatSurvives'
  <2> SUFFICES ASSUME TypeOK, NoRepeatSurvives, [Next]_vars
               PROVE  NoRepeatSurvives'
    OBVIOUS
  <2>1. ASSUME NEW e \in Entries, Record(e)
        PROVE  NoRepeatSurvives'
    <3> SUFFICES ASSUME status' # "break", NEW x \in Entries
                 PROVE  Cardinality(Occurrences(history', x))
                          < (IF x.error THEN maxErrors ELSE maxNoProgress)
      BY DEF NoRepeatSurvives
    <3>1. /\ history \in Seq(Entries)
          /\ history' = Append(history, e)
          /\ history' \in Seq(Entries)
          /\ history' # <<>>
          /\ Last(history') = e
          /\ Check(history') # "break"
      BY <2>1, AppendKeeps DEF TypeOK, Record
    <3>2. ~RepeatedErrors(history') /\ ~NoProgress(history')
      BY <3>1, Survival
    <3>3. CASE x = e
      <4>1. Cardinality(Occurrences(history', e)) \in Nat
        BY <3>1, OccurrencesFinite
      <4> QED
        BY <3>1, <3>2, <3>3, <4>1, ThresholdsPositive DEF RepeatedErrors, NoProgress
    <3>4. CASE x # e
      <4>1. Occurrences(history', x) = Occurrences(history, x)
        BY <3>1, <3>4, OccurrencesOfAppend
      <4>2. status # "break"
        BY <2>1 DEF Record
      <4> QED
        BY <4>1, <4>2 DEF NoRepeatSurvives
    <3> QED
      BY <3>3, <3>4
  <2>2. CASE Reset
    <3> SUFFICES ASSUME NEW x \in Entries
                 PROVE  Cardinality(Occurrences(history', x))
                          < (IF x.error THEN maxErrors ELSE maxNoProgress)
      BY DEF NoRepeatSurvives
    <3>1. Occurrences(history', x) = {}
      BY <2>2 DEF Reset, Occurrences
    <3>2. Cardinality(Occurrences(history', x)) = 0
      BY <3>1, FS_EmptySet
    <3> QED
      BY <3>2, ThresholdsPositive
  <2>3. CASE UNCHANGED vars
    BY <2>3 DEF vars, NoRepeatSurvives
  <2> QED
    BY <2>1, <2>2, <2>3 DEF Next
<1> QED
  BY <1>1, <1>2, TypeCorrect, PTL DEF Spec

\* A run that goes on has no streak of maxConsecutive equal calls anywhere.
THEOREM StreaksAreBroken == Spec => []NoStreakSurvives
<1>1. Init => NoStreakSurvives
  BY ThresholdsPositive DEF Init, NoStreakSurvives
<1>2. TypeOK /\ NoStreakSurvives /\ [Next]_vars => NoStreakSurvives'
  <2> SUFFICES ASSUME TypeOK, NoStreakSurvives, [Next]_vars
               PROVE  NoStreakSurvives'
    OBVIOUS
  <2>1. ASSUME NEW e \in Entries, Record(e)
        PROVE  NoStreakSurvives'
    <3> SUFFICES ASSUME status' # "break", maxConsecutive > 1,
                        NEW i \in 1 .. Len(history') - maxConsecutive + 1
                 PROVE  \E j \in i .. i + maxConsecutive - 1 :
                           history'[j].call # history'[i].call
      BY DEF NoStreakSurvives
    <3>1. /\ history \in Seq(Entries)
          /\ Len(history) \in Nat
          /\ Len(history') = Len(history) + 1
          /\ \A k \in 1..Len(history) : history'[k] = history[k]
          /\ history' # <<>>
          /\ Check(history') # "break"
      BY <2>1, AppendKeeps DEF TypeOK, Record
    <3>2. maxConsecutive \in Nat \ {0}
      BY ThresholdsPositive
    <3>3. CASE i = Len(history') - maxConsecutive + 1
      <4>1. ~Streak(history', maxConsecutive)
        BY <3>1, Survival
      <4>2. PICK j \in Len(history') - maxConsecutive + 1 .. Len(history') :
                   history'[j].call # Last(history').call
        BY <3>1, <3>2, <3>3, <4>1 DEF Streak
      <4> QED
        BY <3>1, <3>2, <3>3, <4>2 DEF Last
    <3>4. CASE i # Len(history') - maxConsecutive + 1
      <4>1. i \in 1 .. Len(history) - maxConsecutive + 1 /\ status # "break"
        BY <2>1, <3>1, <3>2, <3>4 DEF Record
      <4>2. PICK j \in i .. i + maxConsecutive - 1 : history[j].call # history[i].call
        BY <4>1 DEF NoStreakSurvives
      <4> QED
        BY <3>1, <3>2, <4>1, <4>2
    <3> QED
      BY <3>3, <3>4
  <2>2. CASE Reset
    BY <2>2, ThresholdsPositive DEF Reset, NoStreakSurvives
  <2>3. CASE UNCHANGED vars
    BY <2>3 DEF vars, NoStreakSurvives
  <2> QED
    BY <2>1, <2>2, <2>3 DEF Next
<1> QED
  BY <1>1, <1>2, TypeCorrect, PTL DEF Spec

\* Seen from either end, a window of 2k positions has the same parity classes.
LEMMA WindowParity ==
  ASSUME NEW i \in Nat, NEW k \in Nat, NEW j \in i .. i + 2 * k - 1
  PROVE  (i + 2 * k - 1 - j) % 2 = 0 <=> (j - i) % 2 # 0
<1>1. j - i \in Nat /\ (i + 2 * k - 1 - j) = 2 * k - 1 - (j - i)
  OBVIOUS
<1> QED
  BY <1>1

\* A run that goes on has no maxAlternating cycles of two calls anywhere.
THEOREM AlternationsAreBroken == Spec => []NoAlternationSurvives
<1>1. Init => NoAlternationSurvives
  BY ThresholdsPositive DEF Init, NoAlternationSurvives
<1>2. TypeOK /\ NoAlternationSurvives /\ [Next]_vars => NoAlternationSurvives'
  <2> SUFFICES ASSUME TypeOK, NoAlternationSurvives, [Next]_vars
               PROVE  NoAlternationSurvives'
    OBVIOUS
  <2> DEFINE k == maxAlternating
  <2>1. ASSUME NEW e \in Entries, Record(e)
        PROVE  NoAlternationSurvives'
    <3> SUFFICES ASSUME status' # "break", maxConsecutive > 2, k > 1,
                        NEW i \in 1 .. Len(history') - 2 * k + 1
                 PROVE  \/ history'[i].call = history'[i + 1].call
                        \/ \E j \in i .. i + 2 * k - 1 :
                             history'[j].call
                               # history'[IF (j - i) % 2 = 0 THEN i ELSE i + 1].call
      BY DEF NoAlternationSurvives
    <3>1. /\ history \in Seq(Entries)
          /\ Len(history) \in Nat
          /\ Len(history') = Len(history) + 1
          /\ \A m \in 1..Len(history) : history'[m] = history[m]
          /\ history' # <<>>
          /\ Check(history') # "break"
      BY <2>1, AppendKeeps DEF TypeOK, Record
    <3>2. maxConsecutive \in Nat /\ k \in Nat
      BY ThresholdsPositive
    <3> HIDE DEF k
    <3>3. CASE i = Len(history') - 2 * k + 1
      <4> DEFINE n == Len(history')
      <4>1. n = i + 2 * k - 1 /\ n \in Nat /\ n >= 4 /\ i \in Nat
        BY <3>1, <3>2, <3>3
      <4>2. Streak(history', maxConsecutive - 1) \/ ~Alternates(history', k)
        BY <3>1, Survival DEF k
      <4>3. CASE history'[n].call = history'[n - 1].call
        <5> SUFFICES ASSUME \A j \in i .. n :
                              history'[j].call
                                = history'[IF (j - i) % 2 = 0 THEN i ELSE i + 1].call
                     PROVE  history'[i].call = history'[i + 1].call
          BY <4>1
        <5>1. n \in i .. n /\ n - 1 \in i .. n /\ (n - i) % 2 # 0 /\ (n - 1 - i) % 2 = 0
          BY <4>1, <3>2
        <5> QED
          BY <4>3, <5>1
      <4>4. CASE history'[n].call # history'[n - 1].call
        <5>1. ~Streak(history', maxConsecutive - 1)
          BY <3>1, <3>2, <4>1, <4>4 DEF Streak, Last
        <5>2. PICK j \in i .. n :
                history'[j].call # history'[IF (n - j) % 2 = 0 THEN n ELSE n - 1].call
          BY <4>1, <4>2, <4>4, <5>1, <3>2 DEF Alternates, Last
        <5>3. (n - j) % 2 = 0 <=> (j - i) % 2 # 0
          BY <4>1, <3>2, WindowParity
        <5> SUFFICES ASSUME \A m \in i .. n :
                              history'[m].call
                                = history'[IF (m - i) % 2 = 0 THEN i ELSE i + 1].call
                     PROVE  FALSE
          BY <4>1
        <5>4. n \in i .. n /\ n - 1 \in i .. n /\ (n - i) % 2 # 0 /\ (n - 1 - i) % 2 = 0
          BY <4>1, <3>2
        <5>5. history'[n].call = history'[i + 1].call /\ history'[n - 1].call = history'[i].call
          BY <5>4
        <5> QED
          BY <5>2, <5>3, <5>5
      <4> QED
        BY <4>3, <4>4
    <3>4. CASE i # Len(history') - 2 * k + 1
      <4>1. i \in 1 .. Len(history) - 2 * k + 1 /\ status # "break"
        BY <2>1, <3>1, <3>2, <3>4 DEF Record
      <4>2. /\ \A j \in i .. i + 2 * k - 1 : j \in 1..Len(history)
            /\ i \in 1..Len(history) /\ i + 1 \in 1..Len(history)
        BY <3>1, <3>2, <4>1
      <4>3. \/ history[i].call = history[i + 1].call
            \/ \E j \in i .. i + 2 * k - 1 :
                 history[j].call # history[IF (j - i) % 2 = 0 THEN i ELSE i + 1].call
        BY <4>1 DEF NoAlternationSurvives, k
      <4> QED
        BY <3>1, <4>2, <4>3
    <3> QED
      BY <3>3, <3>4
  <2>2. CASE Reset
    BY <2>2, ThresholdsPositive DEF Reset, NoAlternationSurvives
  <2>3. CASE UNCHANGED vars
    BY <2>3 DEF vars, NoAlternationSurvives
  <2> QED
    BY <2>1, <2>2, <2>3 DEF Next
<1> QED
  BY <1>1, <1>2, TypeCorrect, PTL DEF Spec
-----------------------------------------------------------------------------

\* The verdict in hand is the one on the history as it stands.
StatusIsTheVerdict == status = Check(history)

LEMMA VerdictsAreFresh == Spec => []StatusIsTheVerdict
<1>1. Init => StatusIsTheVerdict
  BY DEF Init, StatusIsTheVerdict, Check
<1>2. StatusIsTheVerdict /\ [Next]_vars => StatusIsTheVerdict'
  <2> SUFFICES ASSUME StatusIsTheVerdict, [Next]_vars
               PROVE  StatusIsTheVerdict'
    OBVIOUS
  <2>1. ASSUME NEW e \in Entries, Record(e)
        PROVE  StatusIsTheVerdict'
    BY <2>1 DEF Record, StatusIsTheVerdict
  <2>2. CASE Reset
    BY <2>2 DEF Reset, StatusIsTheVerdict, Check
  <2>3. CASE UNCHANGED vars
    BY <2>3 DEF vars, StatusIsTheVerdict
  <2> QED
    BY <2>1, <2>2, <2>3 DEF Next
<1> QED
  BY <1>1, <1>2, PTL DEF Spec

\* Something that is in a sequence more than once is in it before its end.
LEMMA SecondOccurrence ==
  ASSUME NEW S, NEW h \in Seq(S), NEW e,
         Cardinality(Occurrences(h, e)) > 1
  PROVE  \E i \in 1 .. Len(h) - 1 : h[i] = e
<1>1. Len(h) \in Nat
  BY LenProperties
<1>2. SUFFICES ASSUME \A i \in 1 .. Len(h) - 1 : h[i] # e
               PROVE  FALSE
  OBVIOUS
<1>3. Occurrences(h, e) \subseteq {Len(h)}
  BY <1>1, <1>2 DEF Occurrences
<1>4. IsFiniteSet({Len(h)}) /\ Cardinality({Len(h)}) = 1
  BY FS_Singleton
<1>5. Cardinality(Occurrences(h, e)) <= 1
  BY <1>3, <1>4, FS_Subset
<1>6. Cardinality(Occurrences(h, e)) \in Nat
  BY OccurrencesFinite
<1> QED
  BY <1>5, <1>6

\* With no threshold at 1, each of the strategies that break a run has seen the
\* call before: those that count the same entry, the others one of the last two.
LEMMA BreaksAreRepetitions ==
  ASSUME NEW h \in Seq(Entries), Check(h) = "break",
         maxErrors > 1, maxNoProgress > 1, maxConsecutive > 1, maxAlternating > 1
  PROVE  \E i \in 1 .. Len(h) - 1 :
           /\ h[i].call = Last(h).call
           /\ h[i] = Last(h) \/ i >= Len(h) - 2
<1>1. Len(h) \in Nat
  BY LenProperties
<1>2. CASE RepeatedErrors(h) \/ NoProgress(h)
  <2>1. Cardinality(Occurrences(h, Last(h))) \in Nat
    BY OccurrencesFinite
  <2>2. Cardinality(Occurrences(h, Last(h))) > 1
    BY <1>2, <2>1, ThresholdsPositive DEF RepeatedErrors, NoProgress
  <2>3. PICK i \in 1 .. Len(h) - 1 : h[i] = Last(h)
    BY <2>2, SecondOccurrence
  <2> QED
    BY <2>3
<1>3. CASE Streak(h, maxConsecutive)
  <2>1. Len(h) - 1 \in Len(h) - maxConsecutive + 1 .. Len(h) /\ Len(h) - 1 \in 1 .. Len(h) - 1
    BY <1>1, <1>3, ThresholdsPositive DEF Streak
  <2> QED
    BY <1>1, <1>3, <2>1 DEF Streak
<1>4. CASE Alternates(h, maxAlternating)
  <2> DEFINE i == Len(h) - 2
  <2>1. /\ i \in Len(h) - 2 * maxAlternating + 1 .. Len(h)
        /\ i \in 1 .. Len(h) - 1
        /\ (Len(h) - i) % 2 = 0 /\ i >= Len(h) - 2
    BY <1>1, <1>4, ThresholdsPositive DEF Alternates
  <2>2. h[i].call = h[Len(h)].call
    <3> HIDE DEF i
    <3> QED
      BY <1>4, <2>1 DEF Alternates
  <2> QED
    BY <2>1, <2>2 DEF Last
<1> QED
  BY <1>2, <1>3, <1>4 DEF Check

\* For all thresholds above one and all histories, a run is broken only at a call it
\* has made before: with the same outcome, or as one of its last two calls.
THEOREM BreaksRepeatACall == Spec => []NewCallsNeverBreak
<1>1. TypeOK /\ StatusIsTheVerdict => NewCallsNeverBreak
  BY BreaksAreRepetitions DEF TypeOK, StatusIsTheVerdict, NewCallsNeverBreak
<1> QED
  BY <1>1, TypeCorrect, VerdictsAreFresh, PTL

\* A streak that breaks a run was one call shorter, and warned of, before.
THEOREM StreaksAreAnnounced == Spec => StreaksAreWarnedOf
<1> DEFINE
      Announced ==
        status' = "break" /\ maxConsecutive > 2
          /\ history # <<>> /\ Last(history').call = Last(history).call
          /\ Cardinality(Occurrences(history', Last(history')))
               < (IF Last(history').error THEN maxErrors ELSE maxNoProgress)
        => status = "warning"
<1>1. TypeOK /\ StatusIsTheVerdict /\ [Next]_vars => [Announced]_vars
  <2> SUFFICES ASSUME TypeOK, StatusIsTheVerdict, Next,
                      status' = "break", maxConsecutive > 2,
                      history # <<>>, Last(history').call = Last(history).call,
                      Cardinality(Occurrences(history', Last(history')))
                        < (IF Last(history').error THEN maxErrors ELSE maxNoProgress)
               PROVE  status = "warning"
    OBVIOUS
  <2>1. PICK e \in Entries : Record(e)
    BY DEF Next, Reset
  <2>2. /\ history \in Seq(Entries)
        /\ history' \in Seq(Entries)
        /\ Len(history) \in Nat
        /\ Len(history') = Len(history) + 1
        /\ \A i \in 1..Len(history) : history'[i] = history[i]
        /\ history' # <<>>
        /\ status' = Check(history') /\ status # "break"
        /\ Last(history') \in Entries
    BY <2>1, AppendKeeps DEF TypeOK, Record
  <2>3. maxConsecutive \in Nat /\ maxErrors \in Nat /\ maxNoProgress \in Nat
    BY ThresholdsPositive
  <2>4. ~RepeatedErrors(history') /\ ~NoProgress(history')
    <3>1. Cardinality(Occurrences(history', Last(history'))) \in Nat
      BY <2>2, OccurrencesFinite
    <3> QED
      BY <2>3, <3>1 DEF RepeatedErrors, NoProgress
  <2>5. ~Alternates(history', maxAlternating)
    <3>1. Len(history) \in 1..Len(history)
      BY <2>2
    <3>2. history'[Len(history') - 1] = Last(history)
      BY <2>2, <3>1 DEF Last
    <3> QED
      BY <3>2 DEF Alternates
  <2>6. Streak(history', maxConsecutive)
    BY <2>2, <2>4, <2>5 DEF Check
  <2>7. Streak(history, maxConsecutive - 1)
    <3>1. Len(history) >= 2 /\ maxConsecutive - 1 <= Len(history)
      BY <2>2, <2>3, <2>6 DEF Streak
    <3>2. ASSUME NEW i \in Len(history) - (maxConsecutive - 1) + 1 .. Len(history)
          PROVE  history[i].call = Last(history).call
      <4>1. i \in Len(history') - maxConsecutive + 1 .. Len(history')
            /\ i \in 1..Len(history)
        BY <2>2, <2>3, <3>1
      <4> QED
        BY <2>2, <2>6, <4>1 DEF Streak
    <3> QED
      BY <3>1, <3>2 DEF Streak
  <2>8. Check(history) # "break" /\ status = Check(history)
    BY <2>2 DEF StatusIsTheVerdict
  <2> QED
    BY <2>7, <2>8 DEF Check
<1> QED
  BY <1>1, TypeCorrect, VerdictsAreFresh, PTL DEF Spec, StreaksAreWarnedOf
=============================================================================
