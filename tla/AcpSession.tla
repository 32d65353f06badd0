----------------------------- MODULE AcpSession -----------------------------
(***************************************************************************)
(* An agent program driven over the agent client protocol                  *)
(* (genkit/acp_provider.go): calls share one connection and one list of    *)
(* updates.  A call makes the connection if there is none, sends its       *)
(* prompt, waits for the end of the turn and takes what is in the list.    *)
(* p.mu guards the connection, client.mu the list; no lock is held over a  *)
(* turn, and a stream is filled with client.mu held.                       *)
(***************************************************************************)
EXTENDS Integers, FiniteSets

CONSTANTS
  Calls,      \* bound: calls of Chat and Stream
  NChunks,    \* bound: updates of a turn
  MaxConns,   \* bound: processes started
  BufferSize  \* of the channel of a stream, 32 in the code

VARIABLES
  mu,     \* p.mu: the call that has it, or "free"
  conn,   \* p.conn: the number of the connection, 0 for none
  client, \* the connections there have been: alive, client.mu, client.updates
  acall,  \* the calls
  agent   \* what the agent does for each call

acpvars == <<mu, conn, client, acall, agent>>

Conns  == 1 .. MaxConns
Chunks == Calls \X (1 .. NChunks)
NoClient == [up |-> FALSE, used |-> FALSE, mu |-> "free", updates |-> {}]
Unasked  == [pc |-> "idle", kind |-> "chat", k |-> 0, left |-> {}, queue |-> 0, reads |-> TRUE,
             got |-> {}]
Resting  == [state |-> "none", k |-> 0, n |-> 0]

TypeOK ==
  /\ mu \in Calls \cup {"free"} /\ conn \in 0 .. MaxConns
  /\ client \in [Conns -> [up : BOOLEAN, used : BOOLEAN, mu : Calls \cup {"free"},
                           updates : SUBSET Chunks]]
  /\ acall \in [Calls -> [pc : {"idle", "lock", "clear", "open", "prompt", "collect", "drain",
                                "last", "over"},
                          kind : {"chat", "stream"}, k : 0 .. MaxConns, left : SUBSET Chunks,
                          queue : 0 .. BufferSize, reads : BOOLEAN, got : SUBSET Chunks]]
  /\ agent \in [Calls -> [state : {"none", "works", "done"}, k : 0 .. MaxConns, n : 0 .. NChunks]]

Init ==
  /\ mu = "free" /\ conn = 0
  /\ client = [k \in Conns |-> NoClient]
  /\ acall = [c \in Calls |-> Unasked]
  /\ agent = [c \in Calls |-> Resting]

\* A process takes with it what it was doing.
Gone(k) ==
  /\ client' = [client EXCEPT ![k].up = FALSE]
  /\ agent' = [c \in Calls |-> IF agent[c].k = k THEN Resting ELSE agent[c]]

Alive(k) == k # 0 /\ client[k].up
Over(c, got) ==
  acall' = [acall EXCEPT ![c] = [Unasked EXCEPT !.pc = "over", !.reads = acall[c].reads, !.got = got]]

-----------------------------------------------------------------------------
(* ensureConnection *)

Ask(c) ==
  /\ acall[c].pc = "idle"
  /\ \E kind \in {"chat", "stream"} :
       acall' = [acall EXCEPT ![c].pc = "lock", ![c].kind = kind]
  /\ UNCHANGED <<mu, conn, client, agent>>

\* With the lock: the connection that is there, or a new one in place of none
\* or of one that is done.
EnsureConnection(c) ==
  /\ acall[c].pc = "lock" /\ mu = "free"
  /\ mu' = c
  /\ acall' = [acall EXCEPT ![c].pc = IF Alive(conn) THEN "clear" ELSE "open"]
  /\ conn' = IF Alive(conn) THEN conn ELSE 0
  /\ UNCHANGED <<client, agent>>

Prompt(c, k) ==
  /\ acall' = [acall EXCEPT ![c].pc = "prompt", ![c].k = k]
  /\ agent' = [agent EXCEPT ![c].state = "works", ![c].k = k]
  /\ mu' = "free"

\* The updates of the calls before are dropped, those of calls under way too.
Clear(c) ==
  /\ acall[c].pc = "clear" /\ client[conn].mu = "free"
  /\ client' = [client EXCEPT ![conn].updates = {}]
  /\ Prompt(c, conn)
  /\ UNCHANGED conn

\* The process is started, greeted and given a session, or killed.
Open(c) ==
  /\ acall[c].pc = "open"
  /\ \/ \E k \in Conns :
          /\ ~client[k].used /\ \A j \in 1 .. k - 1 : client[j].used
          /\ conn' = k
          /\ client' = [client EXCEPT ![k] = [NoClient EXCEPT !.up = TRUE, !.used = TRUE]]
          /\ Prompt(c, k)
     \/ Over(c, {}) /\ mu' = "free" /\ UNCHANGED <<conn, client, agent>>

-----------------------------------------------------------------------------
(* Chat and Stream *)

\* The turn ends, the connection is lost, or the context is over; only a stream
\* looks at the updates of a turn that failed.
Prompted(c) ==
  /\ acall[c].pc = "prompt"
  /\ \/ /\ agent[c].state = "done"
        /\ acall' = [acall EXCEPT ![c].pc = "collect"]
        /\ agent' = [agent EXCEPT ![c] = Resting]
     \/ /\ IF acall[c].kind = "chat" THEN Over(c, {})
           ELSE acall' = [acall EXCEPT ![c].pc = "collect"]
        /\ UNCHANGED agent
  /\ UNCHANGED <<mu, conn, client>>

Collect(c) ==
  LET k == acall[c].k IN
  /\ acall[c].pc = "collect" /\ acall[c].kind = "chat" /\ client[k].mu = "free"
  /\ Over(c, client[k].updates)
  /\ client' = [client EXCEPT ![k].updates = {}]
  /\ UNCHANGED <<mu, conn, agent>>

Drain(c) ==
  LET k == acall[c].k IN
  /\ acall[c].pc = "collect" /\ acall[c].kind = "stream" /\ client[k].mu = "free"
  /\ client' = [client EXCEPT ![k].mu = c]
  /\ acall' = [acall EXCEPT ![c].pc = "drain", ![c].left = client[k].updates]
  /\ UNCHANGED <<mu, conn, agent>>

\* A send waits for room in the channel.
Push(c) ==
  /\ acall[c].pc = "drain" /\ acall[c].queue < BufferSize
  /\ \E u \in acall[c].left :
       acall' = [acall EXCEPT ![c].left = @ \ {u}, ![c].got = @ \cup {u}, ![c].queue = @ + 1]
  /\ UNCHANGED <<mu, conn, client, agent>>

Drained(c) ==
  /\ acall[c].pc = "drain" /\ acall[c].left = {}
  /\ client' = [client EXCEPT ![acall[c].k].updates = {}, ![acall[c].k].mu = "free"]
  /\ acall' = [acall EXCEPT ![c].pc = "last"]
  /\ UNCHANGED <<mu, conn, agent>>

Last(c) ==
  /\ acall[c].pc = "last" /\ acall[c].queue < BufferSize
  /\ Over(c, acall[c].got)
  /\ UNCHANGED <<mu, conn, client, agent>>

\* The caller reads its channel, or stops reading it for good.
Receive(c) ==
  /\ acall[c].reads /\ acall[c].queue > 0
  /\ acall' = [acall EXCEPT ![c].queue = @ - 1]
  /\ UNCHANGED <<mu, conn, client, agent>>

Leave(c) ==
  /\ acall[c].reads /\ acall[c].kind = "stream" /\ acall[c].pc # "over"
  /\ acall' = [acall EXCEPT ![c].reads = FALSE]
  /\ UNCHANGED <<mu, conn, client, agent>>

Close ==
  /\ mu = "free" /\ conn # 0
  /\ conn' = 0
  /\ Gone(conn)
  /\ UNCHANGED <<mu, acall>>

-----------------------------------------------------------------------------
(* The agent program, which may go on with a turn nobody waits for *)

SessionUpdate(c) ==
  LET k == agent[c].k IN
  /\ agent[c].state = "works" /\ client[k].mu = "free"
  /\ agent[c].n < NChunks
  /\ agent' = [agent EXCEPT ![c].n = @ + 1]
  /\ client' = [client EXCEPT ![k].updates = @ \cup {<<c, agent[c].n + 1>>}]
  /\ UNCHANGED <<mu, conn, acall>>

EndTurn(c) ==
  /\ agent[c].state = "works"
  /\ agent' = [agent EXCEPT ![c].state = "done"]
  /\ UNCHANGED <<mu, conn, client, acall>>

Exit(k) ==
  /\ client[k].up
  /\ Gone(k)
  /\ UNCHANGED <<mu, conn, acall>>

Goes(c) ==
  \/ Clear(c) \/ Open(c) \/ Push(c) \/ Drained(c) \/ Last(c)
  \/ Prompted(c) /\ (agent[c].state = "done" \/ ~Alive(acall[c].k))
Waits(c) == EnsureConnection(c) \/ Collect(c) \/ Drain(c)

Next ==
  \/ \E c \in Calls :
       \/ Ask(c) \/ EnsureConnection(c) \/ Clear(c) \/ Open(c) \/ Prompted(c) \/ Collect(c)
       \/ Drain(c) \/ Push(c) \/ Drained(c) \/ Last(c) \/ Receive(c) \/ Leave(c)
       \/ SessionUpdate(c) \/ EndTurn(c)
  \/ \E k \in Conns : Exit(k)
  \/ Close

\* A Go mutex starves nobody, a goroutine goes on, an agent ends its turns or
\* dies (the provider's own timeout is never used), a caller that reads goes on.
Fairness ==
  \A c \in Calls : WF_acpvars(Goes(c)) /\ SF_acpvars(Clear(c)) /\ SF_acpvars(Waits(c))
                   /\ WF_acpvars(Receive(c)) /\ WF_acpvars(EndTurn(c))

Spec == Init /\ [][Next]_acpvars /\ Fairness

-----------------------------------------------------------------------------
(* Properties *)

\* However calls overlap, no part of an answer is given to two of them (parts
\* may go to a call that did not ask, and be dropped).
EachUpdateOnce ==
  \A c, d \in Calls : c # d => acall[c].got \cap acall[d].got = {}

\* A call ends unless somebody has stopped reading a stream: its sender then
\* keeps the lock of the list, which stops every call after it, and Close.
CallsEnd ==
  \A c \in Calls :
    acall[c].pc # "idle" ~> acall[c].pc = "over" \/ \E d \in Calls : ~acall[d].reads
=============================================================================
