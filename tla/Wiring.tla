------------------------------- MODULE Wiring -------------------------------
(***************************************************************************)
(* The boot of the orchestrator plugin (orchestrator/plugin.go, db.go and  *)
(* the hooks beside their components): the wiring hooks run one by one, by *)
(* falling priority, before any module is started; each looks up what is   *)
(* registered by then and registers what it makes.  Hooks of one priority  *)
(* run in any order.  Then the modules start, the vault among them, and    *)
(* steps resolve their services and ask for secrets.                       *)
(***************************************************************************)
EXTENDS Integers, FiniteSets

VARIABLES
  config,   \* the modules the configuration names
  pending,  \* hooks that have not run
  reg,      \* the service registry
  offered,  \* the groups of tools in the tool registry, and the routes
  governed, \* the tool registry has the policy engine
  pushes,   \* the managers that know the SSE hub
  default,  \* the rows of llm_providers, which outlive the process: the seeded one, as
            \* mock or as test, and others
  refused,  \* the statements whose error was ignored (not in the code)
  phase,    \* "wiring", "started" or "failed"
  vault,    \* the vault module has a provider: it has been started
  once,     \* the holder has looked for it
  holder,   \* the holder has a provider
  armed,    \* what the redactor knows
  asked     \* when a secret was first asked for after the boot (not in the code)

vars == <<config, pending, reg, offered, governed, pushes, default, refused, phase,
          vault, once, holder, armed, asked>>

Modules == {"db", "hub", "router", "mcp_server", "vault", "test"}

Priority ==
  [db_init |-> 100, sse_route |-> 98, mcp_route |-> 97, auth |-> 90,
   resolver |-> 84, providers |-> 83, root_providers |-> 83, containers |-> 82,
   policies |-> 81, approvals |-> 81, humans |-> 81, tools |-> 80,
   sub_agents |-> 79, transcripts |-> 75, browser |-> 75, webhooks |-> 73,
   skills |-> 70, auditor |-> 70, blackboard |-> 70, mcp_tools |-> 60,
   interaction |-> 50]

Hooks == DOMAIN Priority

\* The next hook is one of the highest priority left.
First(h) == \A g \in pending : Priority[g] <= Priority[h]

Turn(h) ==
  /\ phase = "wiring" /\ h \in pending /\ First(h)
  /\ pending' = pending \ {h}

\* Hooks that make a manager, if there is a database, and register it.
Managers == {"providers", "containers", "policies", "approvals", "humans",
             "sub_agents", "transcripts", "webhooks", "skills", "blackboard"}

\* The one that makes its manager without.
Free == {"containers"}

\* Those that look for the SSE hub.
Pushing == {"approvals", "humans", "blackboard"}

\* One that leaves its manager out when its tables cannot be made, and one that
\* ends the boot.
Lenient == {"blackboard"}
Strict  == {"skills"}

\* What each group of tools is registered with.
ToolNeeds ==
  [builtin |-> {}, tasks |-> {"db"}, audit |-> {"db"}, data |-> {"db"},
   approval |-> {"approvals"}, human |-> {"humans"}, sub_agents |-> {"sub_agents"},
   memory |-> {"memory"}, browser |-> {"browser"}]

TypeOK ==
  /\ config \subseteq Modules /\ pending \subseteq Hooks
  /\ reg \subseteq Modules \cup Hooks \cup {"memory", "guard", "mcp"}
  /\ offered \subseteq DOMAIN ToolNeeds \cup {"wfctl", "sse_route", "mcp_route"}
  /\ pushes \subseteq Pushing
  /\ default \subseteq {"mock", "test", "own"} /\ refused \subseteq {"seed", "switch"}
  /\ phase \in {"wiring", "started", "failed"}
  /\ armed \subseteq {"env", "vault"}
  /\ governed \in BOOLEAN /\ vault \in BOOLEAN /\ once \in BOOLEAN /\ holder \in BOOLEAN
  /\ asked \in {"no", "early", "late"}

Init ==
  /\ config \in SUBSET Modules
  /\ pending = Hooks /\ reg = config
  /\ offered = {} /\ governed = FALSE /\ pushes = {}
  /\ default \in {d \in SUBSET {"mock", "test", "own"} : ~({"mock", "test"} \subseteq d)}
  /\ refused = {}
  /\ phase = "wiring" /\ vault = FALSE
  /\ once = FALSE /\ holder = FALSE /\ armed = {} /\ asked = "no"

-----------------------------------------------------------------------------
(* Hooks *)

\* A provider by default: the errors of COUNT and of INSERT OR IGNORE are ignored,
\* and a COUNT that failed counts none.
Seed ==
  \E counted \in BOOLEAN :
    IF default = {} \/ (~counted /\ default = {"own"})
    THEN \/ default' = default \cup {"mock"} /\ UNCHANGED refused
         \/ refused' = refused \cup {"seed"} /\ UNCHANGED default
    ELSE UNCHANGED <<default, refused>>

\* Variant: a boot goes on without its database.
DbInitLenient ==
  /\ Turn("db_init")
  /\ \/ "db" \in reg /\ reg' = reg \cup {"memory"} /\ Seed
     \/ UNCHANGED <<reg, default, refused>>
  /\ UNCHANGED <<config, offered, governed, pushes, phase, vault, once, holder, armed, asked>>

\* Opens the database early, makes its tables and the memory store, and seeds
\* agents and a default provider.  Without one, and on an error with a table, the
\* boot ends.
DbInit ==
  /\ Turn("db_init")
  /\ \/ "db" \in reg /\ reg' = reg \cup {"memory"} /\ Seed /\ UNCHANGED phase
     \/ phase' = "failed" /\ UNCHANGED <<reg, default, refused>>
  /\ UNCHANGED <<config, offered, governed, pushes, vault, once, holder, armed, asked>>

\* The SSE hub, and then the MCP server, get their routes from the router.
Routed(h, server) ==
  /\ Turn(h)
  /\ offered' = IF {server, "router"} \subseteq reg THEN offered \cup {h} ELSE offered
  /\ UNCHANGED <<config, reg, governed, pushes, default, refused, phase,
                 vault, once, holder, armed, asked>>

SseRoute == Routed("sse_route", "hub")
McpRoute == Routed("mcp_route", "mcp_server")

\* The token goes to the middlewares of the engine: nothing here reads it.
AuthToken ==
  /\ Turn("auth")
  /\ UNCHANGED <<config, reg, offered, governed, pushes, default, refused, phase,
                 vault, once, holder, armed, asked>>

\* The redactor learns the environment, and the holder stays unresolved.
SecretsResolver ==
  /\ Turn("resolver")
  /\ reg' = reg \cup {"guard"}
  /\ armed' = {"env"}
  /\ UNCHANGED <<config, offered, governed, pushes, default, refused, phase,
                 vault, once, holder, asked>>

\* The once-gated look of the holder: it takes and arms what the vault module
\* has by now, and does not look again.  The error of a load is dropped.
Resolve ==
  /\ once' = TRUE
  /\ holder' = (holder \/ (~once /\ vault))
  /\ \/ UNCHANGED armed
     \/ ~once /\ vault /\ armed' = armed \cup {"vault"}

\* The hook of the root package asks the guard for its provider there and then.
RootProviders ==
  /\ Turn("root_providers")
  /\ IF {"db", "guard"} \subseteq reg THEN Resolve ELSE UNCHANGED <<once, holder, armed>>
  /\ reg' = IF "db" \in reg THEN reg \cup {"root_providers"} ELSE reg
  /\ UNCHANGED <<config, offered, governed, pushes, default, refused, phase, vault, asked>>

Manager(h) ==
  /\ Turn(h)
  /\ \/ /\ h \in Free \/ "db" \in reg
        /\ reg' = reg \cup {h}
        /\ pushes' = IF "hub" \in reg THEN pushes \cup ({h} \cap Pushing) ELSE pushes
        /\ UNCHANGED phase
     \/ /\ h \in Lenient \/ (h \notin Free /\ "db" \notin reg)
        /\ UNCHANGED <<reg, pushes, phase>>
     \/ /\ h \in Strict /\ phase' = "failed"
        /\ UNCHANGED <<reg, pushes>>
  /\ UNCHANGED <<config, offered, governed, default, refused, vault, once, holder, armed, asked>>

Plain(h) ==
  /\ Turn(h)
  /\ reg' = reg \cup {h}
  /\ UNCHANGED <<config, offered, governed, pushes, default, refused, phase,
                 vault, once, holder, armed, asked>>

Browser == Plain("browser")
Auditor == Plain("auditor")

ToolRegistry ==
  /\ Turn("tools")
  /\ governed' = ("policies" \in reg)
  /\ offered' = offered \cup {g \in DOMAIN ToolNeeds : ToolNeeds[g] \subseteq reg}
  /\ reg' = reg \cup {"tools"}
  /\ UNCHANGED <<config, pushes, default, refused, phase, vault, once, holder, armed, asked>>

\* The in-process MCP server, made if nobody has.
McpTools ==
  /\ Turn("mcp_tools")
  /\ IF "tools" \in reg
       THEN reg' = reg \cup {"mcp"} /\ offered' = offered \cup {"wfctl"}
       ELSE UNCHANGED <<reg, offered>>
  /\ UNCHANGED <<config, governed, pushes, default, refused, phase,
                 vault, once, holder, armed, asked>>

\* A test provider takes the place of the seeded mock, and of nothing else; the
\* error of its UPDATE is ignored.  The other branch is for a type of module that
\* no factory makes any more, with an HTTP source that nobody sets.
TestInteraction ==
  /\ Turn("interaction")
  /\ \/ /\ {"test", "providers"} \subseteq reg
        /\ default' = {IF r = "mock" THEN "test" ELSE r : r \in default}
        /\ UNCHANGED refused
     \/ /\ {"test", "providers"} \subseteq reg
        /\ refused' = refused \cup {"switch"} /\ UNCHANGED default
     \/ ~({"test", "providers"} \subseteq reg) /\ UNCHANGED <<default, refused>>
  /\ UNCHANGED <<config, reg, offered, governed, pushes, phase, vault, once, holder, armed, asked>>

-----------------------------------------------------------------------------
(* After the hooks *)

Start ==
  /\ phase = "wiring" /\ pending = {}
  /\ phase' = "started"
  /\ UNCHANGED <<config, pending, reg, offered, governed, pushes, default, refused,
                 vault, once, holder, armed, asked>>

StartVault ==
  /\ phase = "started" /\ "vault" \in config /\ ~vault
  /\ vault' = TRUE
  /\ UNCHANGED <<config, pending, reg, offered, governed, pushes, default, refused, phase,
                 once, holder, armed, asked>>

\* A redaction, the key of a provider, or a token to store.
AskForSecrets ==
  /\ phase = "started" /\ "guard" \in reg
  /\ Resolve
  /\ asked' = IF asked # "no" THEN asked ELSE IF vault THEN "late" ELSE "early"
  /\ UNCHANGED <<config, pending, reg, offered, governed, pushes, default, refused, phase, vault>>

Next ==
  \/ DbInit \/ SseRoute \/ McpRoute \/ AuthToken \/ SecretsResolver \/ RootProviders
  \/ \E h \in Managers : Manager(h)
  \/ Browser \/ Auditor \/ ToolRegistry \/ McpTools \/ TestInteraction
  \/ Start \/ StartVault \/ AskForSecrets

Spec == Init /\ [][Next]_vars

-----------------------------------------------------------------------------
(* Properties *)

\* What resolveServices looks up for a step.
Resolved == {"tools", "guard", "approvals", "humans", "sub_agents", "skills",
             "containers", "webhooks", "memory", "transcripts", "db"}

\* A boot that succeeds has left no step without a service: the blackboard
\* alone may be missing.
StepsFindTheirServices == phase = "started" => Resolved \subseteq reg

\* The tool registry was made after the policy engine and both gates, which
\* nothing but the priorities sees to.
GatesAreInPlace ==
  phase = "started" => governed /\ {"approval", "human", "memory"} \subseteq offered

\* A boot leaves some provider unless the INSERT of one was refused, and with a
\* test provider no mock, that another hook may just have seeded, unless the
\* UPDATE of its row was: a boot succeeds without in both cases.
TestProviderIsDefault ==
  phase = "started" => /\ default # {} \/ "seed" \in refused
                       /\ "test" \in config /\ "switch" \notin refused => "mock" \notin default

\* "Register sub-agent tools if sub-agent manager is available", and likewise
\* for each group of tools.
AvailableToolsAreOffered ==
  phase = "started" => \A g \in DOMAIN ToolNeeds : ToolNeeds[g] \subseteq reg => g \in offered

\* "resolving on demand at provider-resolution time (e.g. agent_execute)
\* triggers that lazy-resolve instead of snapshotting a permanently-nil
\* provider": whoever asks first, after the vault has started, finds it.
LateAskersFindTheVault == asked = "late" => holder
=============================================================================
