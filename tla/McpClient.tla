------------------------------ MODULE McpClient ------------------------------
(***************************************************************************)
(* The client of the external MCP servers and the registry of their tools  *)
(* (module_mcp_client.go, step_mcp_reload.go, tool_registry.go): servers   *)
(* are started, asked for their tools, stopped and started anew while      *)
(* agents call those tools.  A connection is a process with two pipes; a   *)
(* call writes a line and takes the next line for its answer, whatever it  *)
(* says, and only a mutex of the connection keeps calls apart.             *)
(*                                                                         *)
(* The servers are numbered in the order of their names.                   *)
(***************************************************************************)
EXTENDS Integers, Sequences, FiniteSets

CONSTANTS
  Agents,    \* goroutines that call a tool
  Servers,   \* names of servers, 1 .. n
  MaxConns,  \* bound: processes ever started
  MaxNotes   \* bound: lines a server sends unasked

VARIABLES
  clients,   \* MCPClientModule.clients: the connection of each name, 0 for none
  conn,      \* the connections
  registry,  \* the connection behind the tools of each name, 0: not registered
  loader,    \* Start, ReloadServers or Stop under way
  calling    \* the agents

vars == <<clients, conn, registry, loader, calling>>

Conns  == 1 .. MaxConns
NoConn == [up |-> FALSE, eof |-> FALSE, used |-> FALSE, mu |-> "free",
           asked |-> {}, lines |-> <<>>, notes |-> 0]
Idle   == [pc |-> "idle", k |-> 0, got |-> "none"]
Resting == [pc |-> "idle", todo |-> {}, want |-> {}, n |-> 0]
Who    == Agents \cup {"hello", "list"}

TypeOK ==
  /\ clients \in [Servers -> 0 .. MaxConns] /\ registry \in [Servers -> 0 .. MaxConns]
  /\ conn \in [Conns -> [up : BOOLEAN, eof : BOOLEAN, used : BOOLEAN, mu : Who \cup {"free"},
                         asked : SUBSET Who, lines : Seq(Who \cup {"note"}), notes : 0 .. MaxNotes]]
  /\ loader \in [pc : {"idle", "close", "wait", "open", "hello", "list", "stop", "halt", "off"},
                 todo : SUBSET Servers, want : SUBSET Servers, n : Servers \cup {0}]
  /\ calling \in [Agents -> [pc : {"idle", "lock", "write", "scan"}, k : 0 .. MaxConns,
                             got : Who \cup {"none", "note"}]]

\* Start goes through the servers of the configuration.
Init ==
  /\ clients = [n \in Servers |-> 0] /\ registry = [n \in Servers |-> 0]
  /\ conn = [k \in Conns |-> NoConn]
  /\ \E cfg \in SUBSET Servers : loader = [Resting EXCEPT !.pc = "open", !.todo = cfg]
  /\ calling = [a \in Agents |-> Idle]

Fresh == CHOOSE k \in Conns : ~conn[k].used /\ \A j \in Conns : ~conn[j].used => k <= j
First(S) == CHOOSE n \in S : \A m \in S : n <= m

-----------------------------------------------------------------------------
(* mcpClient.call *)

Writable(k) == conn[k].up /\ ~conn[k].eof
Written(k, w) == [conn EXCEPT ![k].asked = @ \cup {w}]

\* The next line, or the end of the pipe when the process is gone.
Scannable(k) == conn[k].lines # <<>> \/ ~conn[k].up
Line(k)      == IF conn[k].lines = <<>> THEN "error" ELSE Head(conn[k].lines)
Taken(k)     == [conn EXCEPT ![k].lines = IF @ = <<>> THEN @ ELSE Tail(@), ![k].mu = "free"]

\* ToolRegistry.Execute takes the tool from the map under its lock; the call
\* comes after that.
Execute(a) ==
  /\ calling[a].pc = "idle"
  /\ \E n \in Servers :
       /\ registry[n] # 0
       /\ calling' = [calling EXCEPT ![a] = [pc |-> "lock", k |-> registry[n], got |-> "none"]]
  /\ UNCHANGED <<clients, conn, registry, loader>>

\* Variant: the answer comes after the lock is given back.
LockLoosely(a) ==
  LET k == calling[a].k IN
  /\ calling[a].pc = "lock" /\ conn[k].mu = "free"
  /\ calling' = [calling EXCEPT ![a].pc = "write"]
  /\ UNCHANGED <<clients, conn, registry, loader>>

Lock(a) ==
  LET k == calling[a].k IN
  /\ calling[a].pc = "lock" /\ conn[k].mu = "free"
  /\ conn' = [conn EXCEPT ![k].mu = a]
  /\ calling' = [calling EXCEPT ![a].pc = "write"]
  /\ UNCHANGED <<clients, registry, loader>>

\* Of what is returned, what is neither an error nor its own answer is kept.
Return(a, k, got, c) ==
  /\ calling' = [calling EXCEPT ![a] = IF got \in {a, "error"} THEN Idle
                                       ELSE [pc |-> "idle", k |-> k, got |-> got]]
  /\ conn' = [c EXCEPT ![k].mu = "free"]

Write(a) ==
  LET k == calling[a].k IN
  /\ calling[a].pc = "write"
  /\ IF Writable(k)
     THEN /\ conn' = Written(k, a) /\ calling' = [calling EXCEPT ![a].pc = "scan"]
     ELSE Return(a, k, "error", conn)
  /\ UNCHANGED <<clients, registry, loader>>

\* The id of the answer is not compared with that of the request.
Scan(a) ==
  LET k == calling[a].k IN
  /\ calling[a].pc = "scan" /\ Scannable(k)
  /\ Return(a, k, Line(k), Taken(k))
  /\ UNCHANGED <<clients, registry, loader>>

-----------------------------------------------------------------------------
(* The processes *)

Answer(k) ==
  /\ conn[k].up
  /\ \E w \in conn[k].asked :
       conn' = [conn EXCEPT ![k].asked = @ \ {w}, ![k].lines = Append(@, w)]
  /\ UNCHANGED <<clients, registry, loader, calling>>

\* A notification, which the protocol allows at any time.
Notify(k) ==
  /\ conn[k].up /\ conn[k].notes < MaxNotes
  /\ conn' = [conn EXCEPT ![k].notes = @ + 1, ![k].lines = Append(@, "note")]
  /\ UNCHANGED <<clients, registry, loader, calling>>

Die(k) ==
  /\ conn[k].up
  /\ conn' = [conn EXCEPT ![k].up = FALSE, ![k].asked = {}]
  /\ UNCHANGED <<clients, registry, loader, calling>>

-----------------------------------------------------------------------------
(* Start, ReloadServers, Stop *)

\* The step reads the active rows of mcp_servers, and then every client there is
\* must go.  Reloads of two pipelines at once, which nothing prevents, and rows
\* of one name, which the table allows, are left out.
Reload ==
  /\ loader.pc = "idle"
  /\ \E rows \in SUBSET Servers :
       loader' = [pc |-> "close", todo |-> {n \in Servers : clients[n] # 0}, want |-> rows, n |-> 0]
  /\ UNCHANGED <<clients, conn, registry, calling>>

\* close: the server's input ends, and its process is waited for.
Close(pc, next) ==
  /\ loader.pc = pc
  /\ \E n \in loader.todo :
       /\ conn' = [conn EXCEPT ![clients[n]].eof = TRUE]
       /\ loader' = [loader EXCEPT !.pc = next, !.n = n]
  /\ UNCHANGED <<clients, registry, calling>>
CloseOne == Close("close", "wait")

\* Wait closes the pipe: lines not read yet are lost.
Exited(pc, next) ==
  /\ loader.pc = pc /\ ~conn[clients[loader.n]].up
  /\ conn' = [conn EXCEPT ![clients[loader.n]].lines = <<>>]
  /\ loader' = [loader EXCEPT !.pc = next, !.todo = @ \ {loader.n}]
  /\ UNCHANGED <<clients, calling>>

\* Variant: the tools stay until those of the new server replace them.
ExitedOneKept == Exited("wait", "close") /\ UNCHANGED registry

ExitedOne == Exited("wait", "close") /\ registry' = [registry EXCEPT ![loader.n] = 0]

NewClients ==
  /\ loader.pc = "close" /\ loader.todo = {}
  /\ clients' = [n \in Servers |-> 0]
  /\ loader' = [loader EXCEPT !.pc = "open", !.todo = loader.want]
  /\ UNCHANGED <<conn, registry, calling>>

\* A server without a command, or whose process does not start, is passed over.
Skip ==
  /\ loader.pc = "open" /\ loader.todo # {}
  /\ loader' = [loader EXCEPT !.todo = @ \ {First(@)}]
  /\ UNCHANGED <<clients, conn, registry, calling>>

Open ==
  /\ loader.pc = "open" /\ loader.todo # {} /\ \E k \in Conns : ~conn[k].used
  /\ clients' = [clients EXCEPT ![First(loader.todo)] = Fresh]
  /\ conn' = [conn EXCEPT ![Fresh] = [NoConn EXCEPT !.up = TRUE, !.used = TRUE,
                                                    !.mu = "hello", !.asked = {"hello"}]]
  /\ loader' = [loader EXCEPT !.pc = "hello", !.n = First(loader.todo)]
  /\ UNCHANGED <<registry, calling>>

\* What initialize answers is not looked at.
Hello ==
  LET k == clients[loader.n] IN
  /\ loader.pc = "hello" /\ Scannable(k)
  /\ IF Writable(k)
     THEN /\ conn' = [Taken(k) EXCEPT ![k].asked = @ \cup {"list"}, ![k].mu = "list"]
          /\ loader' = [loader EXCEPT !.pc = "list"]
     ELSE /\ conn' = Taken(k)
          /\ loader' = [loader EXCEPT !.pc = "open", !.todo = @ \ {loader.n}]
  /\ UNCHANGED <<clients, registry, calling>>

\* Any other line than the list has no tools in it, and none are registered.
Discover ==
  LET k == clients[loader.n] IN
  /\ loader.pc = "list" /\ Scannable(k)
  /\ conn' = Taken(k)
  /\ registry' = IF Line(k) = "list" THEN [registry EXCEPT ![loader.n] = k] ELSE registry
  /\ loader' = [loader EXCEPT !.pc = "open", !.todo = @ \ {loader.n}]
  /\ UNCHANGED <<clients, calling>>

Loaded ==
  /\ loader.pc = "open" /\ loader.todo = {}
  /\ loader' = Resting
  /\ UNCHANGED <<clients, conn, registry, calling>>

\* Stop closes every client and unregisters nothing.
Stop ==
  /\ loader.pc = "idle"
  /\ loader' = [Resting EXCEPT !.pc = "stop", !.todo = {n \in Servers : clients[n] # 0}]
  /\ UNCHANGED <<clients, conn, registry, calling>>
StopOne  == Close("stop", "halt")
Halted   == Exited("halt", "stop") /\ UNCHANGED registry
Stopped ==
  /\ loader.pc = "stop" /\ loader.todo = {}
  /\ loader' = [Resting EXCEPT !.pc = "off"]
  /\ UNCHANGED <<clients, conn, registry, calling>>

Call(a) == Lock(a) \/ Write(a) \/ Scan(a)
Loading ==
  \/ CloseOne \/ ExitedOne \/ NewClients \/ Skip \/ Open \/ Hello \/ Discover \/ Loaded
  \/ StopOne \/ Halted \/ Stopped

Next ==
  \/ \E a \in Agents : Execute(a) \/ Lock(a) \/ Write(a) \/ Scan(a)
  \/ \E k \in Conns : Answer(k) \/ Notify(k) \/ Die(k)
  \/ Reload \/ Loading \/ Stop

\* A server answers what it is asked or dies, and ends when its input does; a
\* Go mutex starves nobody.
Fairness ==
  /\ \A a \in Agents : SF_vars(Lock(a)) /\ WF_vars(Write(a)) /\ WF_vars(Scan(a))
  /\ \A k \in Conns : WF_vars(Answer(k)) /\ WF_vars(conn[k].eof /\ Die(k))
  /\ WF_vars(Loading)

Spec == Init /\ [][Next]_vars /\ Fairness

-----------------------------------------------------------------------------
(* Properties *)

\* Between reloads, the tools of a server that are offered go to the client the
\* module has for it now, whose input is open, however the reload went.
ToolsHaveTheirServer ==
  loader.pc = "idle" =>
    \A n \in Servers : registry[n] # 0 => registry[n] = clients[n] /\ ~conn[registry[n]].eof

\* A call gets the answer to its own request or an error, unless its server has
\* sent a line unasked: then each call gets the answer of the one before.
OwnAnswers ==
  \A a \in Agents :
    calling[a].got # "none" => conn[calling[a].k].notes > 0

\* Every call returns, though the reload closes its connection or its server
\* dies.
EveryToolCallReturns == \A a \in Agents : calling[a].pc # "idle" ~> calling[a].pc = "idle"
=============================================================================
