------------------------------- MODULE Daemon -------------------------------
(***************************************************************************)
(* The daemon client (sdk/daemon.go, events.go, session.go): it connects,  *)
(* stores the session, tries to resume it with the token of the last run,  *)
(* and then hands every message to an events file and to subscribers, with *)
(* a goroutine that reads and one that dispatches.  The process may be     *)
(* killed at any moment; only the session file remains.                    *)
(***************************************************************************)
EXTENDS Integers, Sequences

CONSTANTS
  Waiters,   \* subscribers, of one kind for each command under way
  NMessages, \* bound: messages the server sends unasked in a run
  MaxRuns,   \* bound: runs
  QueueSize  \* of wsMsgCh, 256 in the code

VARIABLES
  file,       \* the session file: its token, or what is left of it
  run,        \* Run: where it is, whether it has a token, how many there were
  wire,       \* the connection: can be read, what is on its way, what was sent
  queue,      \* wsMsgCh and wsErrCh
  reader,     \* the goroutine that reads
  dispatcher, \* the goroutine that dispatches
  waiter,     \* the subscribers
  reasons     \* why the token may be gone (not in the code)

daemonvars == <<file, run, wire, queue, reader, dispatcher, waiter, reasons>>

Unplugged == [up |-> FALSE, msgs |-> <<>>, asked |-> FALSE, sent |-> 0]
Messages  == {"welcome", "news", "resumed", "refused"}

TypeOK ==
  /\ file \in {"token", "plain", "torn"}
  /\ run \in [pc : {"off", "dial", "welcome", "save", "write", "resume", "answer", "start", "up", "over"},
              token : BOOLEAN, n : 0 .. MaxRuns]
  /\ wire \in [up : BOOLEAN, msgs : Seq(Messages), asked : BOOLEAN, sent : 0 .. NMessages]
  /\ queue \in [msgs : 0 .. QueueSize, closed : BOOLEAN, errs : 0 .. 1]
  /\ reader \in {"none", "read", "put", "fail", "gone"}
  /\ dispatcher \in {"none", "range", "gone"}
  /\ waiter \in [Waiters -> {"none", "on", "late", "closed"}]
  /\ reasons \subseteq {"refused", "unasked", "unread", "torn"}

Empty == [msgs |-> 0, closed |-> FALSE, errs |-> 0]

Init ==
  /\ file = "token"
  /\ run = [pc |-> "off", token |-> FALSE, n |-> 0] /\ wire = Unplugged /\ queue = Empty
  /\ reader = "none" /\ dispatcher = "none" /\ waiter = [w \in Waiters |-> "none"]
  /\ reasons = {}

-----------------------------------------------------------------------------
(* Run, up to its goroutines *)

Goto(pc) == run' = [run EXCEPT !.pc = pc]
\* The deferred calls close the connection, the events file and the pid file.
Return == Goto("over") /\ wire' = Unplugged
Pumps == <<queue, reader, dispatcher, waiter>>

NewDaemonClient ==
  /\ run.pc = "off" /\ run.n < MaxRuns
  /\ run' = [pc |-> "dial", token |-> FALSE, n |-> run.n + 1]
  /\ UNCHANGED <<file, wire, Pumps, reasons>>

Dial ==
  /\ run.pc = "dial"
  /\ \/ wire' = [Unplugged EXCEPT !.up = TRUE, !.msgs = <<"welcome">>] /\ Goto("welcome")
     \/ Return
  /\ UNCHANGED <<file, Pumps, reasons>>

\* Variant: a new session takes the place of the stored one.
WelcomeAnew ==
  /\ run.pc = "welcome" /\ wire.msgs # <<>>
  /\ wire' = [wire EXCEPT !.msgs = Tail(@)]
  /\ run' = [run EXCEPT !.pc = "save", !.token = FALSE]
  /\ UNCHANGED <<file, Pumps, reasons>>

\* The session of the last run is loaded, and is zero if there is none to read, or
\* if reading it fails.
Welcome ==
  /\ run.pc = "welcome" /\ wire.msgs # <<>>
  /\ wire' = [wire EXCEPT !.msgs = Tail(@)]
  /\ \/ /\ run' = [run EXCEPT !.pc = "save", !.token = file = "token"]
        /\ UNCHANGED reasons
     \/ /\ run' = [run EXCEPT !.pc = "save", !.token = FALSE]
        /\ reasons' = reasons \cup {"unread"}
  /\ UNCHANGED <<file, Pumps>>

NoWelcome == run.pc = "welcome" /\ Return /\ UNCHANGED <<file, Pumps, reasons>>

\* SaveSession truncates the file and writes it.
SaveSession ==
  /\ run.pc = "save"
  /\ file' = "torn" /\ Goto("write")
  /\ UNCHANGED <<wire, Pumps, reasons>>

Written ==
  /\ run.pc = "write"
  /\ \/ /\ file' = IF run.token THEN "token" ELSE "plain"
        /\ Goto(IF run.token THEN "resume" ELSE "start")
        /\ UNCHANGED <<wire, reasons>>
     \/ Return /\ reasons' = reasons \cup {"torn"} /\ UNCHANGED file
  /\ UNCHANGED Pumps

Resume ==
  /\ run.pc = "resume"
  /\ \/ wire.up /\ wire' = [wire EXCEPT !.asked = TRUE] /\ Goto("answer")
     \/ Goto("start") /\ UNCHANGED wire
  /\ UNCHANGED <<file, Pumps, reasons>>

\* Whatever comes next is the answer; anything but a resumed session costs the
\* token, and the message is not among the events.
Answer ==
  /\ run.pc = "answer" /\ wire.msgs # <<>>
  /\ wire' = [wire EXCEPT !.msgs = Tail(@)]
  /\ run' = [run EXCEPT !.pc = "start", !.token = Head(wire.msgs) = "resumed"]
  /\ IF Head(wire.msgs) = "resumed" THEN UNCHANGED <<file, reasons>>
     ELSE /\ file' = "plain"
          /\ reasons' = reasons \cup {IF Head(wire.msgs) = "refused" THEN "refused" ELSE "unasked"}
  /\ UNCHANGED Pumps

\* After a read that timed out a websocket cannot be read any more.
NoAnswer ==
  /\ run.pc = "answer" /\ wire.msgs = <<>>
  /\ wire' = [wire EXCEPT !.up = FALSE] /\ Goto("start")
  /\ UNCHANGED <<file, Pumps, reasons>>

Start ==
  /\ run.pc = "start"
  /\ \/ Goto("up") /\ reader' = "read" /\ dispatcher' = "range" /\ UNCHANGED wire
     \/ Return /\ UNCHANGED <<reader, dispatcher>>
  /\ UNCHANGED <<file, queue, waiter, reasons>>

-----------------------------------------------------------------------------
(* The goroutines *)

Read ==
  /\ reader = "read"
  /\ \/ wire.msgs # <<>> /\ wire' = [wire EXCEPT !.msgs = Tail(@)] /\ reader' = "put"
     \/ wire.msgs = <<>> /\ ~wire.up /\ reader' = "fail" /\ UNCHANGED wire
  /\ UNCHANGED <<file, run, queue, dispatcher, waiter, reasons>>

Put ==
  /\ reader = "put" /\ queue.msgs < QueueSize
  /\ queue' = [queue EXCEPT !.msgs = @ + 1] /\ reader' = "read"
  /\ UNCHANGED <<file, run, wire, dispatcher, waiter, reasons>>

Fail ==
  /\ reader = "fail" /\ queue.errs = 0
  /\ queue' = [queue EXCEPT !.errs = 1, !.closed = TRUE] /\ reader' = "gone"
  /\ UNCHANGED <<file, run, wire, dispatcher, waiter, reasons>>

\* A message goes to the events file, to OnMessage and to the subscribers; a
\* subscriber that is full misses it.
Dispatch ==
  /\ dispatcher = "range" /\ queue.msgs > 0
  /\ queue' = [queue EXCEPT !.msgs = @ - 1]
  /\ UNCHANGED <<file, run, wire, reader, dispatcher, waiter, reasons>>

Undispatched ==
  /\ dispatcher = "range" /\ queue.msgs = 0 /\ queue.closed
  /\ dispatcher' = "gone"
  /\ waiter' = [w \in Waiters |-> IF waiter[w] = "on" THEN "closed" ELSE waiter[w]]
  /\ UNCHANGED <<file, run, wire, queue, reader, reasons>>

\* One who subscribes when the dispatcher is gone is never told of the end.
Subscribe(w) ==
  /\ waiter[w] = "none" /\ run.pc \in {"up", "over"}
  /\ waiter' = [waiter EXCEPT ![w] = IF dispatcher = "range" THEN "on" ELSE "late"]
  /\ UNCHANGED <<file, run, wire, queue, reader, dispatcher, reasons>>

Unsubscribe(w) ==
  /\ waiter[w] # "none"
  /\ waiter' = [waiter EXCEPT ![w] = "none"]
  /\ UNCHANGED <<file, run, wire, queue, reader, dispatcher, reasons>>

\* Run ends with its context or with an error of the connection.
End ==
  /\ run.pc = "up"
  /\ \/ Return /\ UNCHANGED queue
     \/ queue.errs = 1 /\ queue' = [queue EXCEPT !.errs = 0] /\ Return
  /\ UNCHANGED <<file, reader, dispatcher, waiter, reasons>>

-----------------------------------------------------------------------------
(* The server, and the end of the process *)

Tell(m) == wire' = [wire EXCEPT !.msgs = Append(@, m), !.asked = @ /\ m = "news",
                                !.sent = IF m = "news" THEN @ + 1 ELSE @]

Serve ==
  /\ wire.up
  /\ \/ wire.asked /\ (Tell("resumed") \/ Tell("refused"))
     \/ wire.sent < NMessages /\ Tell("news")
  /\ UNCHANGED <<file, run, Pumps, reasons>>

Drop ==
  /\ wire.up /\ wire' = [wire EXCEPT !.up = FALSE]
  /\ UNCHANGED <<file, run, Pumps, reasons>>

Kill ==
  /\ run.pc # "off"
  /\ Goto("off") /\ wire' = Unplugged /\ queue' = Empty /\ reader' = "none" /\ dispatcher' = "none"
  /\ waiter' = [w \in Waiters |-> "none"]
  /\ reasons' = IF run.pc = "write" THEN reasons \cup {"torn"} ELSE reasons
  /\ UNCHANGED file

Next ==
  \/ NewDaemonClient \/ Dial \/ Welcome \/ NoWelcome \/ SaveSession \/ Written \/ Resume
  \/ Answer \/ NoAnswer \/ Start \/ Read \/ Put \/ Fail \/ Dispatch \/ Undispatched \/ End
  \/ \E w \in Waiters : Subscribe(w) \/ Unsubscribe(w)
  \/ Serve \/ Drop \/ Kill

\* Goroutines go on, OnMessage returns.
Fairness == WF_daemonvars(Read) /\ WF_daemonvars(Put) /\ WF_daemonvars(Fail)
            /\ WF_daemonvars(Dispatch) /\ WF_daemonvars(Undispatched)

Spec == Init /\ [][Next]_daemonvars /\ Fairness

-----------------------------------------------------------------------------
(* Properties *)

\* Over all runs, the token of the session is in the file or about to be written
\* there again: a new session, a connection that drops, an answer that does not
\* come, a run that ends or is killed do not cost it.  What does has a name: the
\* server refuses it, an unasked message is taken for a refusal, the file is not
\* read, or a save breaks off between its truncation and its end.
TokenOutlives ==
  reasons = {} => file = "token" \/ (run.pc = "write" /\ run.token)

\* Once Run has returned its goroutines end, with everybody told who subscribed
\* in time, whichever of its two ends came first.
WoundDown ==
  /\ reader \in {"none", "gone"} /\ dispatcher \in {"none", "gone"}
  /\ \A w \in Waiters : waiter[w] # "on"

WindsDown == run.pc = "over" ~> WoundDown
=============================================================================
