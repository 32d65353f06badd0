---------------------------- MODULE LoopDetector ----------------------------
(***************************************************************************)
(* The loop detector (executor/loop_detector.go, and its copy in           *)
(* orchestrator/): the agent loop records every tool call with its result  *)
(* and then asks for a verdict on the whole history.  A warning is put to  *)
(* the model; a break ends the run, so nothing is recorded after one.      *)
(*                                                                         *)
(* An entry keeps what the four strategies compare: the call (tool name    *)
(* and hash of the arguments), the result, and whether it was an error.    *)
(***************************************************************************)
EXTENDS Integers, Sequences, FiniteSets

CONSTANTS
  Calls,           \* tool and arguments
  Results,         \* what a call may return, an error message included
  MaxConsecutive, MaxErrors, MaxAlternating, MaxNoProgress,  \* LoopDetectorConfig
  MaxHistory       \* bound: calls recorded between two resets

ASSUME LoopDetectorAssumption ==
  /\ MaxConsecutive \in Int /\ MaxErrors \in Int
  /\ MaxAlternating \in Int /\ MaxNoProgress \in Int
  /\ MaxHistory \in Nat

VARIABLES
  history,   \* ld.history
  status     \* the last verdict

vars == <<history, status>>

Entries == [call : Calls, result : Results, error : BOOLEAN]

\* NewLoopDetector: zero and negative thresholds take the default.
WithDefault(n, default) == IF n <= 0 THEN default ELSE n

maxConsecutive == WithDefault(MaxConsecutive, 3)
maxErrors      == WithDefault(MaxErrors, 2)
maxAlternating == WithDefault(MaxAlternating, 3)
maxNoProgress  == WithDefault(MaxNoProgress, 3)

-----------------------------------------------------------------------------
(* The strategies, each on a history h that ends with the call just made. *)

Last(h) == h[Len(h)]

Occurrences(h, e) == {i \in 1..Len(h) : h[i] = e}

\* The same call came back with the same error that often, in a row or not.
RepeatedErrors(h) ==
  Last(h).error /\ Cardinality(Occurrences(h, Last(h))) >= maxErrors

\* Variant: compares results, not calls.
NoProgressAnyCall(h) ==
  /\ ~Last(h).error
  /\ Cardinality({i \in 1..Len(h) : h[i].result = Last(h).result}) >= maxNoProgress

\* The same call came back with the same result that often.
NoProgress(h) ==
  ~Last(h).error /\ Cardinality(Occurrences(h, Last(h))) >= maxNoProgress

\* The last k calls are the same one; a first call is never a streak.
Streak(h, k) ==
  /\ Len(h) >= 2
  /\ k <= Len(h)
  /\ \A i \in Len(h) - k + 1 .. Len(h) : h[i].call = Last(h).call

\* Variant: counts k repetitions after the first cycle.
AlternatesLate(h, k) ==
  /\ Len(h) >= 4
  /\ 2 * k < Len(h)
  /\ Last(h).call # h[Len(h) - 1].call
  /\ \A i \in Len(h) - 2 * k .. Len(h) :
        h[i].call = h[IF (Len(h) - i) % 2 = 0 THEN Len(h) ELSE Len(h) - 1].call

\* The last 2k calls are two different ones in turn.
Alternates(h, k) ==
  /\ Len(h) >= 4
  /\ 2 * k <= Len(h)
  /\ Last(h).call # h[Len(h) - 1].call
  /\ \A i \in Len(h) - 2 * k + 1 .. Len(h) :
        h[i].call = h[IF (Len(h) - i) % 2 = 0 THEN Len(h) ELSE Len(h) - 1].call

\* Variant: a streak of errors is left to the strategies that count results.
CheckUnwarned(h) ==
  IF h = <<>> THEN "ok"
  ELSE IF RepeatedErrors(h) \/ NoProgress(h) \/ Streak(h, maxConsecutive)
            \/ Alternates(h, maxAlternating) THEN "break"
  ELSE IF Streak(h, maxConsecutive - 1) /\ ~Last(h).error THEN "warning"
  ELSE "ok"

\* Check: the strategies in their order of priority.
Check(h) ==
  IF h = <<>> THEN "ok"
  ELSE IF RepeatedErrors(h) \/ NoProgress(h) \/ Streak(h, maxConsecutive) THEN "break"
  ELSE IF Streak(h, maxConsecutive - 1) THEN "warning"
  ELSE IF Alternates(h, maxAlternating) THEN "break"
  ELSE "ok"

-----------------------------------------------------------------------------

TypeOK == /\ history \in Seq(Entries)
          /\ status \in {"ok", "warning", "break"}

Init == history = <<>> /\ status = "ok"

\* The caller records a call and checks; after a break it has returned.
Record(e) ==
  /\ status # "break"
  /\ Len(history) < MaxHistory
  /\ history' = Append(history, e)
  /\ status' = Check(history')

Reset ==
  /\ history # <<>>
  /\ history' = <<>>
  /\ status' = "ok"

Next == Reset \/ \E e \in Entries : Record(e)

Spec == Init /\ [][Next]_vars

-----------------------------------------------------------------------------
(* Properties *)

\* A run that goes on has made no call with the same outcome too often, however
\* far apart: every surviving run is making progress.
NoRepeatSurvives ==
  status # "break" =>
    \A e \in Entries : Cardinality(Occurrences(history, e))
                          < (IF e.error THEN maxErrors ELSE maxNoProgress)

\* Nowhere in the history of a run that goes on are there maxConsecutive equal
\* calls in a row, whatever they returned.  (A threshold of 1 is not reached by
\* the run's first call.)
NoStreakSurvives ==
  status # "break" /\ maxConsecutive > 1 =>
    \A i \in 1 .. Len(history) - maxConsecutive + 1 :
      \E j \in i .. i + maxConsecutive - 1 : history[j].call # history[i].call

\* Nor do two calls alternate there for maxAlternating cycles.  This takes
\* maxConsecutive > 2: with 2, every call from the second on is a streak of 1,
\* and the warning it earns hides the alternation strategy.
NoAlternationSurvives ==
  status # "break" /\ maxConsecutive > 2 /\ maxAlternating > 1 =>
    \A i \in 1 .. Len(history) - 2 * maxAlternating + 1 :
      \/ history[i].call = history[i + 1].call
      \/ \E j \in i .. i + 2 * maxAlternating - 1 :
           history[j].call # history[IF (j - i) % 2 = 0 THEN i ELSE i + 1].call

\* With thresholds above one, a run is broken only at a call it has made before, and
\* one whose outcome is new only if it made the call just before or one call before
\* that: a call repeated in between others, each time with another result, breaks
\* none.  Equal calls in a row do, whatever they return (checkConsecutive).
NewCallsNeverBreak ==
  status = "break" /\ maxErrors > 1 /\ maxNoProgress > 1
                  /\ maxConsecutive > 1 /\ maxAlternating > 1 =>
    \E i \in 1 .. Len(history) - 1 :
      /\ history[i].call = Last(history).call
      /\ history[i] = Last(history) \/ i >= Len(history) - 2

\* A run that is broken for a streak alone was warned one call earlier: the last
\* two calls agree and neither counting strategy has reached its limit.
StreaksAreWarnedOf ==
  [][ /\ status' = "break" /\ maxConsecutive > 2
      /\ history # <<>> /\ Last(history').call = Last(history).call
      /\ Cardinality(Occurrences(history', Last(history')))
           < (IF Last(history').error THEN maxErrors ELSE maxNoProgress)
      => status = "warning" ]_vars
=============================================================================
