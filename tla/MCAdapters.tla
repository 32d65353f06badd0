----------------------------- MODULE MCAdapters -----------------------------
(***************************************************************************)
(* The components that talk to other processes, side by side: MCP clients, *)
(* ACP and PTY adapters, the daemon client, test providers and the tokens  *)
(* of ChatGPT.  They share no state, so that it is enough that one of them *)
(* moves while the others rest: the first state chooses the one.           *)
(***************************************************************************)
EXTENDS Integers

CONSTANTS
  a1, a2,  \* agents that call tools of an MCP server
  b1, b2,  \* calls of an ACP adapter
  v, w,    \* waiters at the daemon client
  c1, c2, c3, t1, t2,  \* chats of the test providers, and testers
  g1, g2,  \* calls of the ChatGPT provider
  MaxConns,                                    \* of McpClient and AcpSession
  Agents, Servers, MaxNotes,                   \* of McpClient
  AcpCalls, NChunks, BufferSize,               \* of AcpSession; BufferSize of PtySession too
  NTurns, MaxSessions,                         \* of PtySession
  Waiters, NMessages, MaxRuns, QueueSize,      \* of Daemon
  Chats, Testers, NSteps,                      \* of TestProviders
  GptCalls, MaxBundles, ChannelSize            \* of ChatGptTokens

\* Nobody who calls has the name of a request of the client's own, of a lock that
\* is free, or of what is no answer; names of servers stand for their order.
ASSUME AdaptersAssumption ==
  /\ Agents \cap {"free", "hello", "list", "none", "note", "error"} = {}
  /\ "free" \notin AcpCalls
  /\ Servers \subseteq Nat \ {0}
  /\ MaxConns \in Nat /\ NChunks \in Nat /\ NTurns \in Nat /\ MaxSessions \in Nat
  /\ BufferSize \in Nat /\ MaxNotes \in Nat /\ NSteps \in Nat /\ MaxBundles \in Nat \ {0}

VARIABLES
  subject,
  clients, mcpconn, registry, loader, calling,
  mu, conn, client, acall, agent,
  adapter, handler, session, process, screen, turn,
  file, run, wire, queue, reader, dispatcher, waiter, reasons,
  source, chat, pending, box, desk, pipe, idx,
  rotating, issued, clock, lost, gptmu, tokens, gpt

mcpvars    == <<clients, mcpconn, registry, loader, calling>>
acpvars    == <<mu, conn, client, acall, agent>>
ptyvars    == <<adapter, handler, session, process, screen, turn>>
daemonvars == <<file, run, wire, queue, reader, dispatcher, waiter, reasons>>
testvars   == <<source, chat, pending, box, desk, pipe, idx>>
gptvars    == <<rotating, issued, clock, lost, gptmu, tokens, gpt>>
allvars    == <<subject, mcpvars, acpvars, ptyvars, daemonvars, testvars, gptvars>>

Mcp == INSTANCE McpClient WITH conn <- mcpconn
Acp == INSTANCE AcpSession WITH Calls <- AcpCalls
Pty == INSTANCE PtySession
Sdk == INSTANCE Daemon
Test == INSTANCE TestProviders
Gpt == INSTANCE ChatGptTokens WITH Calls <- GptCalls, mu <- gptmu

\* The others rest in an initial state of theirs.
AdaptersInit ==
  /\ subject \in {"mcp", "acp", "pty", "sdk", "test", "gpt"}
  /\ Mcp!Init /\ Acp!Init /\ Pty!Init /\ Sdk!Init /\ Test!Init /\ Gpt!Init
  /\ subject # "mcp" => loader.todo = {}
  /\ subject # "pty" => adapter = "claude_code" /\ handler = "none"
  /\ subject # "test" => source.kind = "http"
  /\ subject # "gpt" => rotating /\ clock = 0 /\ tokens = [access |-> 1, refresh |-> 1]

AdaptersNext ==
  \/ subject = "mcp" /\ Mcp!Next
     /\ UNCHANGED <<subject, acpvars, ptyvars, daemonvars, testvars, gptvars>>
  \/ subject = "acp" /\ Acp!Next
     /\ UNCHANGED <<subject, mcpvars, ptyvars, daemonvars, testvars, gptvars>>
  \/ subject = "pty" /\ Pty!Next
     /\ UNCHANGED <<subject, mcpvars, acpvars, daemonvars, testvars, gptvars>>
  \/ subject = "sdk" /\ Sdk!Next
     /\ UNCHANGED <<subject, mcpvars, acpvars, ptyvars, testvars, gptvars>>
  \/ subject = "test" /\ Test!Next
     /\ UNCHANGED <<subject, mcpvars, acpvars, ptyvars, daemonvars, gptvars>>
  \/ subject = "gpt" /\ Gpt!Next
     /\ UNCHANGED <<subject, mcpvars, acpvars, ptyvars, daemonvars, testvars>>

\* The fairness of the parts, with one condition for the i-th actor of each: a
\* behaviour is of one part, so that it is the condition of this part alone.
moving ==
  CASE subject = "mcp"  -> mcpvars
    [] subject = "acp"  -> acpvars
    [] subject = "pty"  -> ptyvars
    [] subject = "sdk"  -> daemonvars
    [] subject = "test" -> testvars
    [] OTHER            -> gptvars

Sends(i) ==
  \/ subject = "mcp" /\ Mcp!Write(<<a1, a2>>[i])
  \/ subject = "acp" /\ Acp!Goes(<<b1, b2>>[i])
  \/ subject = "pty" /\ Pty!Goes(i)
  \/ subject = "test" /\ Test!Timeout(<<c1, c2>>[i])

Gets(i) ==
  \/ subject = "mcp" /\ Mcp!Scan(<<a1, a2>>[i])
  \/ subject = "acp" /\ Acp!Receive(<<b1, b2>>[i])
  \/ subject = "pty" /\ Pty!GiveUp(i)
  \/ subject = "test" /\ Test!Clean(<<c1, c2>>[i])

Answers(i) ==
  \/ subject = "mcp" /\ Mcp!Answer(i)
  \/ subject = "acp" /\ Acp!EndTurn(<<b1, b2>>[i])

Locks(i) ==
  \/ subject = "mcp" /\ Mcp!Lock(<<a1, a2>>[i])
  \/ subject = "acp" /\ Acp!Clear(<<b1, b2>>[i])
  \/ subject = "pty" /\ Pty!Enter(i)

Reads ==
  \/ subject = "mcp" /\ Mcp!Loading
  \/ subject = "sdk" /\ Sdk!Read
  \/ subject = "test" /\ Test!Timeout(c3)

Passes ==
  \/ subject = "sdk" /\ Sdk!Put
  \/ subject = "test" /\ Test!Clean(c3)

AdaptersFairness ==
  /\ \A i \in 1 .. 2 :
       /\ WF_moving(Sends(i) /\ UNCHANGED subject)
       /\ WF_moving(Gets(i) /\ UNCHANGED subject)
       /\ WF_moving(Answers(i) /\ UNCHANGED subject)
       /\ WF_moving(subject = "mcp" /\ mcpconn[i].eof /\ Mcp!Die(i) /\ UNCHANGED subject)
       /\ SF_moving(Locks(i) /\ UNCHANGED subject)
       /\ SF_moving(subject = "acp" /\ Acp!Waits(<<b1, b2>>[i]) /\ UNCHANGED subject)
  /\ WF_moving(Reads /\ UNCHANGED subject)
  /\ WF_moving(Passes /\ UNCHANGED subject)
  /\ WF_moving(subject = "sdk" /\ Sdk!Fail /\ UNCHANGED subject)
  /\ WF_moving(subject = "sdk" /\ Sdk!Dispatch /\ UNCHANGED subject)
  /\ WF_moving(subject = "sdk" /\ Sdk!Undispatched /\ UNCHANGED subject)

AdaptersSpec == AdaptersInit /\ [][AdaptersNext]_allvars /\ AdaptersFairness

-----------------------------------------------------------------------------
(* Properties: those of the parts *)

\* Between reloads the tools of an MCP server go to the client the module has
\* for it, whose input is open.
ToolsHaveTheirServer == Mcp!ToolsHaveTheirServer

\* What a call is answered is its own: an MCP call gets no other's answer (but
\* for a line sent unasked), no two ACP calls get one update, and a PTY turn
\* gets lines of another only after that one was over without them.
OwnAnswers == Mcp!OwnAnswers /\ Acp!EachUpdateOnce /\ Pty!LateLinesOnly

\* A PTY turn looks at the screen of the session it writes to, whatever closes
\* or restarts it.
ScreenIsItsOwn == Pty!ScreenIsItsOwn

\* No call of a test provider is answered twice, and no tester hangs.
AnsweredOnce == Test!AnsweredOnce

\* Tokens outlive what overlaps and ends: that of the daemon's session is kept from
\* run to run but for four causes that have names, of which a save that a kill
\* breaks off is one, and no refresh token of ChatGPT is shown twice unless an
\* answer was lost.
TokensOutlive == Sdk!TokenOutlives /\ Gpt!NoSpentTokenIsShown

\* Something the first actor of the part is owed: an end of its call or turn, or
\* the end of the goroutines of a run that is over.
Waits ==
  CASE subject = "mcp"   -> calling[a1].pc # "idle"
    [] subject = "acp"   -> acall[b1].pc \notin {"idle", "over"} /\ \A c \in AcpCalls : acall[c].reads
    [] subject = "pty"   -> Pty!Awaits(1)
    [] subject = "sdk"   -> run.pc = "over" /\ ~Sdk!WoundDown
    [] subject = "test"  -> chat[c1].pc # "idle" /\ chat[c1].pc \notin Test!Ended
    [] OTHER             -> FALSE

\* Every call and every turn ends, whatever else processes, testers and dialogs do,
\* and the goroutines of a daemon run end after it, provided that those without
\* whom the code waits for ever do their part: an MCP server answers or dies, an
\* ACP agent ends its turns or dies, nobody leaves the channel of a stream unread,
\* and the process of a terminal takes what is typed.
EverybodyReturns == Waits ~> ~Waits
=============================================================================
