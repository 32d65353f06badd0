----------------------------- MODULE PtySession -----------------------------
(***************************************************************************)
(* Driving a command-line agent through a terminal (genkit/pty_provider.go,*)
(* pty_adapters.go, pty_prompts.go): turns share one session, in which a   *)
(* process writes to a screen; a turn waits for the prompt, types its      *)
(* message and takes for its answer what is new on the screen, until the   *)
(* screen looks like the end of an answer.  Tools that have no such screen *)
(* are run once for each turn.  What a turn says goes through a channel of *)
(* its own that holds so much: a turn whose caller reads no more waits on  *)
(* it, and one that types waits on a process that takes no input.          *)
(*                                                                         *)
(* A screen is what matters of it: the lines of answers on it, a spinner,  *)
(* a dialog.  An answer has two lines, <<turn, 1>> and <<turn, 2>>.        *)
(***************************************************************************)
EXTENDS Integers, Sequences

CONSTANTS
  NTurns,       \* bound: turns, 1 .. NTurns
  BufferSize,   \* of the channel of a turn, 32 in the code
  MaxSessions   \* bound: processes started

VARIABLES
  adapter,  \* which tool is driven
  handler,  \* what the PromptHandler makes of a permission prompt, "none": it asks, or
            \* there is no handler
  session,  \* sessionMu, ptmx and vt: the holder and the sessions they belong to
  process,  \* the process of the session: alive, whether it takes input, what it works on
  screen,   \* the virtual terminal p.vt
  turn      \* the goroutines of Stream, each with its channel and its reader

ptyvars == <<adapter, handler, session, process, screen, turn>>

Turns == 1 .. NTurns
Lines == Turns \X {1, 2}
Blank == [shown |-> {}, spinner |-> FALSE, dialog |-> "none", echo |-> 0]
Quiet == [alive |-> FALSE, hung |-> FALSE, jobs |-> <<>>, born |-> 0]
Fresh == [pc |-> "idle", ptmx |-> 0, pre |-> {}, seen |-> Blank, got |-> {}, last |-> "none",
          queue |-> 0, reads |-> TRUE]
Screens == [shown : SUBSET Lines, spinner : BOOLEAN, dialog : {"none", "trust", "permission"},
            echo : Turns \cup {0}]
Working == {"start", "prompt", "send", "type", "look", "read"}

TypeOK ==
  /\ adapter \in {"claude_code", "copilot_cli", "gemini_cli", "codex_cli"}
  /\ handler \in {"none", "allow", "deny"}
  /\ session \in [mu : Turns \cup {0}, ptmx : 0 .. MaxSessions, vt : 0 .. MaxSessions]
  /\ process \in [alive : BOOLEAN, hung : BOOLEAN, jobs : Seq(Turns), born : 0 .. MaxSessions]
  /\ screen \in Screens
  /\ turn \in [Turns -> [pc : Working \cup {"idle", "lock", "json", "plain", "tell", "done", "error", "over"},
                         ptmx : 0 .. MaxSessions, pre : SUBSET Lines, seen : Screens,
                         got : SUBSET Lines, last : {"none", "done", "error"},
                         queue : 0 .. BufferSize, reads : BOOLEAN]]

Init ==
  /\ adapter \in {"claude_code", "copilot_cli", "gemini_cli", "codex_cli"}
  /\ handler \in {"none", "allow", "deny"}
  /\ session = [mu |-> 0, ptmx |-> 0, vt |-> 0]
  /\ process = Quiet /\ screen = Blank
  /\ turn = [t \in Turns |-> Fresh]

SupportsInteractivePTY == adapter \in {"claude_code", "copilot_cli"}
HasStreamingArgs       == adapter \in {"claude_code", "gemini_cli"}

-----------------------------------------------------------------------------
(* What the adapters see *)

\* A prompt is on the screen from the start, and the echoes of earlier messages
\* look like one; a dialog about trust covers it.
DetectPrompt(s) == s.dialog # "trust"

\* Some answer between the first two prompts for claude, of whatever turn; one
\* after the last message for copilot.
DetectResponseEnd(s) ==
  /\ ~s.spinner
  /\ IF adapter = "claude_code" THEN s.shown # {}
     ELSE \E l \in s.shown : l[1] = s.echo

\* extractResponseDiff: the lines that were not there when the message was sent.
New(t, s) == s.shown \ turn[t].pre

-----------------------------------------------------------------------------
(* A turn *)

Fixed == UNCHANGED <<adapter, handler>>
Set(t, pc) == turn' = [turn EXCEPT ![t].pc = pc]

\* What is left of a turn that looks at nothing any more.  An error goes out when
\* the turn has returned and let go of the session, and "done" before.
Stripped(r, pc) == [Fresh EXCEPT !.pc = pc, !.got = r.got, !.queue = r.queue, !.reads = r.reads]

Ends(t, how) ==
  /\ turn' = [turn EXCEPT ![t] = Stripped(turn[t], how)]
  /\ session' = [session EXCEPT !.mu = IF how = "error" /\ @ = t THEN 0 ELSE @]

\* A caller that reads makes room, later or sooner; one that does not leaves the
\* room there is.
Room(t) == turn[t].reads \/ turn[t].queue < BufferSize
Queued(t) == IF turn[t].reads THEN 0 ELSE turn[t].queue + 1

LastEvent(t) ==
  /\ turn[t].pc \in {"done", "error"} /\ Room(t)
  /\ turn' = [turn EXCEPT ![t] = [Fresh EXCEPT !.pc = "over", !.last = turn[t].pc, !.got = turn[t].got]]
  /\ session' = [session EXCEPT !.mu = IF @ = t THEN 0 ELSE @]
  /\ UNCHANGED <<process, screen>> /\ Fixed

Stream(t) ==
  /\ turn[t].pc = "idle"
  /\ Set(t, IF SupportsInteractivePTY THEN "lock" ELSE IF HasStreamingArgs THEN "json" ELSE "plain")
  /\ UNCHANGED <<session, process, screen>> /\ Fixed

Enter(t) ==
  /\ turn[t].pc = "lock" /\ session.mu = 0
  /\ session' = [session EXCEPT !.mu = t]
  /\ Set(t, "start")
  /\ UNCHANGED <<process, screen>> /\ Fixed

Joined(t, k) == turn' = [turn EXCEPT ![t].pc = "prompt", ![t].ptmx = k]

\* A session is started if there is none.  One whose process has died is one:
\* nobody calls handleSessionEnd.
UseSession(t) ==
  /\ turn[t].pc = "start" /\ session.ptmx # 0
  /\ Joined(t, session.ptmx)
  /\ UNCHANGED <<session, process, screen>> /\ Fixed

StartSession(t) ==
  /\ turn[t].pc = "start" /\ session.ptmx = 0
  /\ \/ /\ process.born < MaxSessions
        /\ LET k == process.born + 1 IN
             /\ session' = [session EXCEPT !.ptmx = k, !.vt = k]
             /\ process' = [alive |-> TRUE, hung |-> FALSE, jobs |-> <<>>, born |-> k]
             /\ Joined(t, k)
        /\ \E d \in {"none", "trust"} : screen' = [Blank EXCEPT !.dialog = d]
     \/ Ends(t, "error") /\ UNCHANGED <<process, screen>>
  /\ Fixed

\* What it can still write to: its own session, open and with a process.
Reaches(t) == session.ptmx = turn[t].ptmx /\ process.alive

\* Enter for a dialog about trust; y or n for a permission prompt, where there
\* is a handler that knows.
RespondToDialog(t) ==
  /\ turn[t].pc = "prompt"
  /\ screen.dialog = "trust" \/ (screen.dialog = "permission" /\ handler \in {"allow", "deny"})
  /\ Reaches(t) /\ ~process.hung
  /\ screen' = [screen EXCEPT !.dialog = "none"]
  /\ process' = [process EXCEPT !.jobs = IF screen.dialog = "permission" /\ handler = "deny"
                                           THEN Tail(@) ELSE @]
  /\ UNCHANGED <<session, turn>> /\ Fixed

SeePrompt(t) ==
  /\ turn[t].pc = "prompt" /\ DetectPrompt(screen)
  /\ screen.dialog = "permission" => handler = "none"
  /\ turn' = [turn EXCEPT ![t].pc = "send", ![t].pre = screen.shown]
  /\ UNCHANGED <<session, process, screen>> /\ Fixed

\* Character by character, without a look at deadline or context: a process that
\* takes no input holds the turn up, until it goes or somebody closes the session.
Send(t) ==
  /\ turn[t].pc = "send"
  /\ IF Reaches(t)
     THEN screen' = [screen EXCEPT !.echo = t] /\ Set(t, "type") /\ UNCHANGED session
     ELSE Ends(t, "error") /\ UNCHANGED screen
  /\ UNCHANGED process /\ Fixed

Submit(t) ==
  /\ turn[t].pc = "type"
  /\ \/ /\ Reaches(t) /\ ~process.hung
        /\ process' = [process EXCEPT !.jobs = Append(@, t)]
        /\ Set(t, "look") /\ UNCHANGED session
     \/ ~Reaches(t) /\ Ends(t, "error") /\ UNCHANGED process
  /\ UNCHANGED screen /\ Fixed

\* A second later: what is on the screen now will not count as a change.
FirstLook(t) ==
  /\ turn[t].pc = "look"
  /\ turn' = [turn EXCEPT ![t].pc = "read", ![t].seen = screen]
  /\ UNCHANGED <<session, process, screen>> /\ Fixed

\* Nothing is taken from a screen with a spinner, nor from one seen before.  A text
\* for which there is no room, and never will be, holds up the turn, which has the
\* session and looks at no deadline any more.
Read(t) ==
  /\ turn[t].pc = "read" /\ screen # turn[t].seen
  /\ LET told == IF screen.spinner THEN {} ELSE New(t, screen) \ turn[t].got
         next == [turn[t] EXCEPT !.seen = screen, !.got = @ \cup told,
                                 !.queue = IF told = {} THEN @ ELSE Queued(t)]
     IN  turn' = [turn EXCEPT ![t] =
           IF told # {} /\ ~Room(t) THEN Stripped(turn[t], "tell")
           ELSE IF ~screen.spinner /\ DetectResponseEnd(screen) THEN Stripped(next, "done")
           ELSE next]
  /\ UNCHANGED <<session, process, screen>> /\ Fixed

\* Variant: the deadline is looked at once the prompt is there.
GiveUpReading(t) ==
  /\ turn[t].pc = "read"
  /\ Ends(t, "done")
  /\ UNCHANGED <<process, screen>> /\ Fixed

\* The context is cancelled, or the deadline passes: an answer that is late
\* then ends as if it were complete.
GiveUp(t) ==
  /\ turn[t].pc \in {"prompt", "read"}
  /\ Ends(t, "error") \/ (turn[t].pc = "read" /\ Ends(t, "done"))
  /\ UNCHANGED <<process, screen>> /\ Fixed

\* Exec mode: only a process that does not start is tried again without JSON;
\* how one that has started ends is not looked at.  One text stands for all.
TellAll(t) ==
  /\ Room(t)
  /\ turn' = [turn EXCEPT ![t].pc = "done", ![t].queue = Queued(t)]
  /\ UNCHANGED session

StreamJSON(t) ==
  /\ turn[t].pc = "json"
  /\ \/ TellAll(t) \/ Ends(t, "done")
     \/ Set(t, "plain") /\ UNCHANGED session
  /\ UNCHANGED <<process, screen>> /\ Fixed

StreamFallback(t) ==
  /\ turn[t].pc = "plain"
  /\ TellAll(t) \/ Ends(t, "done") \/ Ends(t, "error")
  /\ UNCHANGED <<process, screen>> /\ Fixed

\* The caller stops reading its channel, for good: it matters once there is
\* something to tell, with as much in the channel as there may be.
Leave(t) ==
  /\ turn[t].reads /\ turn[t].pc \in {"json", "plain", "read", "done", "error"}
  /\ \E n \in 0 .. BufferSize : turn' = [turn EXCEPT ![t].reads = FALSE, ![t].queue = n]
  /\ UNCHANGED <<session, process, screen>> /\ Fixed

-----------------------------------------------------------------------------
(* The process *)

Killed == [process EXCEPT !.alive = FALSE, !.hung = FALSE, !.jobs = <<>>]

Busy == process.alive /\ ~process.hung /\ process.jobs # <<>> /\ screen.dialog = "none"
Job  == Head(process.jobs)

Spin ==
  /\ Busy /\ ~screen.spinner
  /\ screen' = [screen EXCEPT !.spinner = TRUE]
  /\ UNCHANGED <<session, process, turn>> /\ Fixed

AskPermission ==
  /\ Busy /\ <<Job, 1>> \notin screen.shown
  /\ screen' = [screen EXCEPT !.dialog = "permission", !.spinner = FALSE]
  /\ UNCHANGED <<session, process, turn>> /\ Fixed

\* The last line comes with the end of the work.
PrintLine ==
  /\ Busy
  /\ IF <<Job, 1>> \notin screen.shown
     THEN screen' = [screen EXCEPT !.shown = @ \cup {<<Job, 1>>}, !.spinner = FALSE]
          /\ UNCHANGED process
     ELSE /\ screen' = [screen EXCEPT !.shown = @ \cup {<<Job, 2>>}, !.spinner = FALSE]
          /\ process' = [process EXCEPT !.jobs = Tail(@)]
  /\ UNCHANGED <<session, turn>> /\ Fixed

\* It takes no more input, for good: it matters where somebody types.
Hang ==
  /\ process.alive /\ ~process.hung /\ \E t \in Turns : turn[t].pc = "type"
  /\ process' = [process EXCEPT !.hung = TRUE]
  /\ UNCHANGED <<session, screen, turn>> /\ Fixed

\* The screen stays as it was.
Exit ==
  /\ process.alive
  /\ process' = Killed
  /\ UNCHANGED <<session, screen, turn>> /\ Fixed

-----------------------------------------------------------------------------
(* Close, RestartSession *)

\* Close does not wait for the turn under way, and leaves the screen.
Close ==
  /\ session.ptmx # 0
  /\ session' = [session EXCEPT !.ptmx = 0] /\ process' = Killed
  /\ UNCHANGED <<screen, turn>> /\ Fixed

\* Variant: a restart does not wait either.
RestartAtOnce ==
  /\ session.vt # 0
  /\ session' = [session EXCEPT !.ptmx = 0, !.vt = 0] /\ process' = Killed
  /\ screen' = Blank
  /\ UNCHANGED turn /\ Fixed

RestartSession ==
  /\ session.mu = 0 /\ session.vt # 0
  /\ session' = [session EXCEPT !.ptmx = 0, !.vt = 0] /\ process' = Killed
  /\ screen' = Blank
  /\ UNCHANGED turn /\ Fixed

Goes(t) ==
  \/ UseSession(t) \/ StartSession(t) \/ RespondToDialog(t) \/ SeePrompt(t) \/ Send(t)
  \/ Submit(t) \/ FirstLook(t) \/ Read(t) \/ LastEvent(t)
  \/ StreamJSON(t) \/ StreamFallback(t)

Next ==
  \/ \E t \in Turns : Stream(t) \/ Enter(t) \/ Goes(t) \/ GiveUp(t) \/ Leave(t)
  \/ Spin \/ AskPermission \/ PrintLine \/ Hang \/ Exit
  \/ Close \/ RestartSession

\* A Go mutex starves nobody, a goroutine goes on (a caller that reads does not keep
\* it for ever), a deadline passes.
Fairness ==
  \A t \in Turns : SF_ptyvars(Enter(t)) /\ WF_ptyvars(Goes(t)) /\ WF_ptyvars(GiveUp(t))

Spec == Init /\ [][Next]_ptyvars /\ Fairness

-----------------------------------------------------------------------------
(* Properties *)

\* A turn looks at a screen that is there and is that of the session it writes
\* to, though its session may be closed or restarted under it.
ScreenIsItsOwn ==
  \A t \in Turns : turn[t].pc \in Working \ {"start"} => session.vt = turn[t].ptmx

\* A line of another turn's answer gets into an answer only after that turn has
\* let go of the session without it: answers of turns that go on at the same time
\* do not mix.
LateLinesOnly ==
  \A t \in Turns : \A l \in turn[t].got : l[1] # t => turn[l[1]].pc \in {"error", "over"}

\* A turn is under way, and nothing that has no deadline is in its way: no caller
\* has left a channel and the process takes what is typed.
Awaits(t) ==
  /\ turn[t].pc # "idle" /\ turn[t].last = "none"
  /\ ~process.hung /\ \A u \in Turns : turn[u].reads

\* Such a turn ends, with one last event, whatever else process and dialogs do.
EveryTurnEnds == \A t \in Turns : Awaits(t) ~> ~Awaits(t)
=============================================================================
