# TLA+ models of workflow-plugin-agent

Models of the parts of this repository whose correctness is a matter of order,
interleaving and failure: the agent loop in its two forms, the gates where it
waits for a human, what allows a tool to run, the sub-agents, the caches, hubs and
stores around it, and the adapters to other processes. Each is a TLA+ module
translated from the Go source, checked by TLC on a small instance and, for the
properties that matter most, proved for every value of the constants with
TLAPS. `PROJECT.json` maps every definition to the lines it stands for, and lists
the runs, the mutated definitions each property is known to catch, the hazards,
the findings and the theorems.

To run one: `tlc -config MCApprovals.cfg MCApprovals`; to check a proof:
`tlapm ApprovalsProofs.tla`.

## The system

The plugin gives the workflow engine an AI agent. A *pipeline step* or an
embedding program starts an agent execution; the agent asks a model provider,
runs the tool calls of the answer, puts the results into the conversation, and
asks again. Around that loop stand the parts that restrain it (trust policy,
guardrails, tool policies, loop detector), the parts that make it wait for people
(approvals, human requests), the parts that hold resources on its behalf
(providers, secrets, containers, sub-agents, memories, model files), those that
carry what happens to others (SSE hub, blackboard, webhooks, daemon client), and
the adapters to programs outside (MCP servers, ACP and PTY agents, ChatGPT).

| component | where | state it keeps | operations | module |
|---|---|---|---|---|
| Agent loop | `executor/executor.go`, `context_manager.go` | conversation, iteration count, the call in hand | `Execute` | `Executor` |
| Loop detector | `executor/loop_detector.go` (copy in `orchestrator/`) | history of calls | `Record`, `Check`, `Reset` | `LoopDetector` |
| Agent execute step | `orchestrator/step_agent_execute.go` | the same loop with retries and stateful providers | `Execute` | `StepLoop`, `Approvals`, `HumanRequests`, `SubAgents` |
| Approval gate | `orchestrator/approval.go`, `step_approval.go` | table `approvals` | `Create`, `Approve`, `Reject`, `CheckTimeout`, `WaitForResolution` | `Approvals` |
| Human-request gate | `orchestrator/human_request.go`, `step_human_request.go` | table `human_requests`; secrets provider, redactor | `Create`, `Resolve`, `Cancel`, `CheckExpired`, `WaitForResolution` | `HumanRequests` |
| Trust policy, guardrails, tool policy | `policy/`, `executor/policy_bridge.go`, `orchestrator/guardrails.go`, `tool_policy.go`, `safety/` | rules by scope, mode, grants, policies | `Evaluate*`, `SetMode`, `AddRule`, `Grant`, `Revoke`, `IsAllowed` | `ToolAccess` |
| Sub-agent manager | `orchestrator/sub_agent.go`, `tools/sub_agent.go`, `tools/task.go` | tables `agents`, `tasks` | `Spawn`, `CheckTask`, `WaitTasks`, `CancelChildren`, `task_update` | `SubAgents` |
| Container manager | `orchestrator/container_manager.go` | cache, table `workspace_containers`, markers of ensures in flight | `EnsureContainer`, `StopContainer`, `RemoveContainer`, `Close` | `Containers` |
| Provider registries | `orchestrator/provider_registry.go`, `provider_registry.go` | cache by alias, flights in progress | `GetByAlias`, `GetDefault`, `Invalidate*`, `UpdateSecretsProvider` | `ProviderCache` |
| Secret service | `orchestrator/secret_service.go`, `vault_config.go` | lazily resolved provider, redactor, key and configuration file | `Provider`, `EnsureArmed`, `SaveVaultConfig`, `LoadVaultConfig` | `ProviderCache`, `Wiring`, `HumanRequests`, `VaultConfig` |
| SSE hub, blackboard | `orchestrator/module_sse_hub.go`, `blackboard.go` | listeners with bounded channels, artifacts | `Broadcast`, `Post`, `Subscribe`, `Stop` | `EventHub` |
| Memory | `orchestrator/memory.go`, `step_memory_extract.go`, `memory/` | rows, full-text index, embeddings | `Save`, `Search`, `SearchHybrid`, `ExtractAndSave` | `Memory` |
| Webhooks | `orchestrator/webhook.go`, `step_webhook.go` | table `webhooks`, tasks made | `Create`, `Delete`, `Execute` | `Webhooks` |
| Self-improvement | `orchestrator/step_self_improve_*.go` | the live configuration file | validate, diff, deploy in three ways | `SelfImprove` |
| Model files | `provider/huggingface.go`, `step_model_pull.go` | the `.part` file and the file in the cache | `DownloadHuggingFaceFile` | `ModelFiles` |
| MCP client | `orchestrator/module_mcp_client.go`, `step_mcp_reload.go`, `tool_registry.go` | connections, registered tools | `Start`, `ReloadServers`, `Stop`, `call` | `McpClient` |
| ACP, PTY, ChatGPT adapters | `genkit/acp_provider.go`, `pty_*.go`, `openai_chatgpt_provider.go` | connection and updates; session and screen; tokens | `Generate`, `Stream`, `Close`, `RestartSession`, `ensureAccessToken` | `AcpSession`, `PtySession`, `ChatGptTokens` |
| SDK daemon client | `sdk/daemon.go`, `session.go` | session file, queue, subscribers | `Run`, `Subscribe` | `Daemon` |
| Test providers | `orchestrator/test_provider*.go`, `step_test_interact.go` | interactions under way | `GetResponse`, `Respond` | `TestProviders` |
| Plugin wiring | `orchestrator/plugin.go`, `db.go` and the hooks beside their components | service registry, default provider | hooks by priority, start | `Wiring` |

The components share the database (tables as meeting points), the service registry
of the engine, and a few in-process objects (redactor, hub, tool registry).
`PROJECT.json` lists all components with what is modelled or why it is not.

### What is hard

* **Tables as meeting points.** Agents, reviewers, operators and sweeps meet only
  in SQL rows; each statement is atomic and nothing between two statements is.
  Only `WHERE status = 'pending'` keeps the first decision, and a limit that is
  counted in one statement and used in the next may be passed by several.
* **Polling.** A waiter acts on the row it read before it looked at the clock.
* **Handlers of several steps.** Resolving a token request commits the row, stores
  the token and arms the redactor; a memory is a row and then an index entry; a
  webhook makes its tasks one by one; any of the statements may fail.
* **Locks by hand.** `EnsureContainer` excludes itself with a map of channels, and
  `StopContainer` and `RemoveContainer` do not take part; the ACP adapter holds one
  lock while it waits for another; a stream is filled under a lock.
* **Channels of a bounded size.** Full ones lose messages or block their sender, and
  several owners close them.
* **Restarts and kills.** Waits, handlers, markers and caches are lost; tables,
  secrets, containers and files are kept, as far as they were written.
* **Questions asked one after the other.** What allows a tool is asked of five
  parties, each of which may change its mind between two of the questions.
* **Answers without an address.** The next line of an MCP server, the next message of
  the daemon's server, the lines new on a screen, the list of ACP updates: each is
  taken for the answer to whoever reads it.
* **One loop, many exits.** The agent loop has a dozen ways to deal with a call,
  and each has to leave the conversation, the detector and the status right.
* **Off by one.** Thresholds with defaults, compared on histories that include
  the call just made; retries that take their iteration back.

## Modules

| module | models | kind |
|---|---|---|
| `DecisionGate` | what a human gate promises: decided at most once, answered at most once, and with what was decided | abstract specification |
| `Approvals`, `HumanRequests` | the two gates and their waits | components; refine `DecisionGate` |
| `LoopDetector` | `loop_detector.go` | component; the specification `Executor` implements |
| `Executor` | `executor.Execute` | component; composes with `LoopDetector` (`Detector == INSTANCE`) |
| `StepLoop` | the second loop, with its retries and stateful providers | component |
| `Containers`, `SubAgents` | the two managers | components |
| `ToolAccess`, `Wiring`, `ProviderCache`, `EventHub`, `SelfImprove`, `Memory`, `ModelFiles`, `Webhooks`, `VaultConfig` | the services of the orchestrator | components, composed in `MCServices` |
| `McpClient`, `AcpSession`, `PtySession`, `Daemon`, `TestProviders`, `ChatGptTokens` | what talks to other processes | components, composed in `MCAdapters` |
| `MC...` | the instances TLC checks | |
| `...Proofs` | the theorems of the component | |

Definitions that begin with the comment "Variant:" are not part of a model: each
is a definition of it with a plausible bug, kept to show which property would
notice.

### Approvals

`row` is the table, with the time a request is overdue in place of `created_at`
and `timeout_minutes`; `agent[a]` is one call of `WaitForResolution` (the point it
has reached, the id, the deadline, whether its context lives); `answer[id]` is
what the agent was told. `Poll`, `Expire`, `Sleep` and `Wake` are the statements
of the polling loop: a row that was pending when `Poll` read it may be decided
by the time `Expire` writes. `PollFails` and `WakeCancelled` are the error
returns, `Restart` loses the waits and keeps the table. A database error of the
UPDATE in `Expire` is ignored by the code and is the second disjunct there.

The clock is a counter up to `Horizon`, and a wait begins only if its deadline
falls before that bound.

### HumanRequests

The same shape with the differences the code has: a timeout of 0 means none, an
answer that finds the row decided is an error, a request may not block, the
event goes out with the update. `operator[o]` is a call of the resolve step:
`Resolve`, then `Store` or `SkipStore` (nothing to store, no provider, `Set`
failed: all ignored), then `Arm`. `load` is what the holder's `sync.Once` has come to
in this process: a restart forgets what the redactor knew, and `EnsureArmed` finds no
provider, loads all its values, or fails to after any of them. The code ignores that
failure and does not try again.

### LoopDetector

A history of entries (call, result, error flag), the four strategies as
operators on a history, and `Check`, their order of priority. Hashes are taken
to tell different arguments and results apart.

### Executor

`pc` walks the loop: `top` (drain, compact), `chat`, then per call `trust`,
`ask`, `run`, `gate`, `answer`, and `stop?` after the round. `conv` keeps of each
message its role, iteration, and number. Provider, tools, trust
engine and humans answer anything their types allow. `Inject` and
`CancelContext` happen beside the loop at any time. Whether compaction is due
depends on a token estimate of message texts, so it may or may not be.
Redaction, transcript, memory and event callbacks do not steer the loop and are
left out.

### StepLoop

The step has a loop of its own beside that of `Executor`, and the module models
what is different in it. `Empty`, `Intent` and `Correct` are the three ways a response
is sent back (`SendBack`), each with its counter (`empties`, `intents`, `corrections`) and
each taking the iteration back. `sent` is `lastSentIndex`, and `held` what a provider
that manages its context has been sent since its last successful reset; `Chat`
is the call, alone or as the first half of what becomes of its answer, since
nothing of the run happens in between. `IterateCompacting` resets such a provider, or
fails to, asks it for the summary and takes the index back to 0. `NewSession` is the
next step that gets the same provider from the registry.

What `Executor` already says is one step here: a call that is refused, failed, run
or answered by a human is `Answer`, with the verdict of a detector that may say
anything; a gate that lapses is `Lapse`. Nothing outside a run touches its
variables, so this hides no interleaving. Whether a response talks of a tool is
the detector's matter (`tool_intent_detector.go`), and any response may.

### Containers

The manager works per project and projects do not meet, so the module is one
project: its cache entry, row, marker, and the containers of its name at the
daemon. `Begin` .. `InitCommands` are the steps of `EnsureContainer`, each error
return a disjunct that ends in `Done`; `Take`, `Stop`, `Mark`, `Remove`, `Delete` are
`StopContainer` and `RemoveContainer`. `Exits` and `Vanishes` are what the daemon or a
person at it does, `Restart` and `Close` the two ways the process ends.

### SubAgents

`Count`, `Depth`, `InsertAgent` and `InsertTask` are the four statements of `Spawn`, with
every failure the code returns from and the one it does not (the query of `Depth`,
after which an ephemeral parent goes on: `vetted` is FALSE then). `Wait`, `Poll` and
`EndWait` are `agent_wait`; `Finish`, `CancelTasks` and `CancelAgents` the normal end of a
run, `Abort` every other. Children work through `StartKid` and `SetStatus`
(`task_update`), and operators set the status of any agent through the MCP server
(`SetAgent`). A run is one execution of a parent: nothing keeps two apart, and
the limit of the parent is counted by each.

### ToolAccess

A call passes `EvaluateTool` (trust engine, then permission store, then explicit
rules, then the mode), `EvaluateArg` (command or path, through the bridge or
the guardrails), `HumanAnswers` where the verdict is to ask, and `AskPolicies` of the
tool registry. `SetMode`, `AddRule`, `Grant`, `Revoke`, `AddPolicy` and `RemovePolicy` may happen
between any two. A pattern stands for the set of names it matches; what the
command analyzer finds in a shell text is chosen. The permission store answers "no
grant" when its query fails (`GrantsUnread`), so that a grant that denies is passed over;
`call.deaf` remembers it. `denied` and `allowed` remember who said what since the call
began.

### Wiring

The hooks of the boot as the actions of one loop over priorities (`First`), in any
order within one. Each looks up the services it needs in `reg` and registers its
own; what is not there is skipped silently or ends the boot, as the hook does.
`default` is what the table `llm_providers` holds, which outlives the process. The errors
of the seed's statements and of those that put a test provider in the place of the
mock are ignored by the code: the boot goes on without their effect, and `refused`
remembers it. The branch of `testInteractionHook` for a legacy module is dead, as no
factory makes one.
`Start` initialises the modules, `StartVault` the vault, and `AskForSecrets` is the first
use of the holder after the boot.

### ProviderCache

One alias in either registry. `Get`, `LoadConfig`, `Join` (singleflight), `Recheck`,
`ResolveKey`, `Make` and `Store` are the path of a call, each with its error return, which
lands all who wait (`Land`). Operators change row or key and invalidate after it.
`Look` and `Arm` are the once of the secret service; `armed` says that the redactor was
loaded, not with which version of a key or how much of it (`HumanRequests` has that).

### EventHub, Memory, Webhooks, SelfImprove, ModelFiles, VaultConfig

* `EventHub`: `Post`, `Store`, `Notify`, `Broadcast` of an artifact; a listener enters and leaves
  the list (`Listen`, `Leave`, `Unlist`, `CloseChannel`), takes from a bounded channel, and
  `Stop` closes the clients of the hub.
* `Memory`: `InsertRow` and `InsertIndex` are the two statements of `Save`; `Search` takes the
  best rows by the index, in no order of its own, unless the text is refused
  (`SearchRefused`); `SearchHybrid` inserts by score.
* `Webhooks`: `Lookup` lists the enabled webhooks of a source, then each is skipped or
  makes its task; webhooks come and go, the request may come again. `secrets` is whether
  the store answers for the secrets named: where it does not, the code takes the secret
  for empty and accepts what is unsigned, and so does `Verified`.
* `SelfImprove`: a pipeline validates, passes the gate of the deploy step and writes
  the live file by `Truncate` and `Write`, which another pipeline may read between. A
  write that breaks off, or meets another's, leaves any text, one that parses without
  the section too. The current text a proposal is compared with is data of the
  pipeline: read from the file at some time, given by the agent, or missing.
* `ModelFiles`: the `.part` file grows block by block and breaks off anywhere; the next
  try asks for the rest, from servers that know ranges and servers that do not. The
  end of the answer is all that `Rename` waits for: where no length is stated
  (`sized`), an answer cut short ends as well.
* `VaultConfig`: key file and configuration, each opened empty and then written, and a
  process that stops between any two steps.

### McpClient, AcpSession, PtySession, Daemon, TestProviders, ChatGptTokens

* `McpClient`: a connection is a process with two pipes; `Lock`, `Write` and `Scan` are a
  call, which takes the next line for its answer; `Reload` and `Loading` close, start and
  register server by server, and `Die` ends a process at any time.
* `AcpSession`: `p.mu`, `client.mu`, the connection and the list of updates; `Collect`,
  `Drain` and `Push` are the end of a turn and the stream filled under `client.mu`.
* `PtySession`: the screen is what matters of it (answer lines, spinner, dialog, last
  echo); a turn waits for the prompt, types its message (`Send`, `Submit`), and reads until
  the adapter sees an end. What it tells goes into a channel of its own (`queue`, 32 in
  the code): a caller may stop reading (`Leave`) and a process stop taking input (`Hang`),
  and the turn then waits with `sessionMu` held. `Close` and `RestartSession` come under it.
* `Daemon`: the session file, the resume handshake, reader and dispatcher with their
  channels, subscribers, and a kill at any moment.
* `TestProviders`: HTTP source (interaction, answer, time-out, each under or outside of
  the lock), channel source and scripted source.
* `ChatGptTokens`: calls share a bundle under a mutex; the service may rotate refresh
  tokens and an answer may be lost.

### MCServices and MCAdapters

These two compose the components that share no state in the models. `subject` is
chosen in the first state; this part takes its steps as its module says, and the
others stay in one initial state. No behaviour of a part is lost, since no
part reads another's variables. In `MCAdapters` the fairness of the parts is stated
once for all, each conjunct with the action of the part that moves; this is
no more than each module's `Fairness` for the actors that `EverybodyReturns` looks at.
`MCServices` extends `ProviderCache` and instantiates the others.

## Runs

| run | instance | states | question |
|---|---|---|---|
| `approvals` | 2 agents, 2 requests, row timeouts shorter and longer than the wait, clock to 3 | 94 thousand | does the first decision stand, is the agent told it, does every wait end |
| `human_requests` | 1 agent, 2 operators, 2 requests, 1 secret, 2 values, clock to 2 | 240 thousand | the same, and do events, secrets and redactor follow the table |
| `loop_detector` | 2 calls, 2 results, default thresholds, 7 calls | 397 thousand | does any bad history survive, is any good one broken |
| `executor` | 3 tools (2 gates), 2 iterations, 3 calls, 2 injected messages | 1.8 million | conversation, consent, use of the detector, termination |
| `containers` | 3 callers, 3 containers in turn | 374 thousand | does the hand-made lock come free, is any container lost or shared |
| `step_loop` | 2 iterations, retries 1, 1 and 2, 3 calls in a response, 2 runs | 1.5 million | is the conversation well formed and wholly sent |
| `sub_agents` | 2 runs of one parent, limit 1, 3 children, one of which works | 523 thousand | how far is the limit passed, are there grandchildren, who is left busy |
| `adapters` | the six adapters in turn, 2 or 3 actors each | 313 thousand | does every call get its own answer and come back |
| `services` | the nine services in turn, 2 actors each | 513 thousand | what survives failures, kills, switches and overlaps |
| `approvals_timeout` | as `approvals` | stops | is a request reported as timed out never approved |
| `human_requests_token` | as `human_requests` | stops | is a token the agent is told is stored, stored |
| `executor_compact` | as `executor`, no injected messages | stops | does compaction keep the latest exchange |

The last three are disagreements between the code and what a comment or a
message of the repository says; TLC prints the execution that shows each.
Further configurations show others that `PROJECT.json` quotes under "findings":

| configuration | module | what TLC shows |
|---|---|---|
| `MCContainersName.cfg` | `MCContainers` | a stopped project cannot have a container again |
| `MCStepLoopSession.cfg` | `MCStepLoop` | a stateful provider meets a new run with the old conversation |
| `Wiring.cfg` (with `-continue`) | `Wiring` | the vault is never found after the boot; tools of the sub-agent and browser managers are never offered |
| `SelfImprove.cfg` | `SelfImprove` | a locked path that leads into a list locks nothing |
| `ProviderCache.cfg` | `ProviderCache` | passes: every call returns, those that wait for another's creation too |
| `EventHub.cfg` | `EventHub` | passes: what readers of a phase find never gets older |

The other findings are about single lines (a comment that names what no code
does); the models have the code's side of each.

### Why the bounds are enough

* Two agents and two requests give every pair of actors on one row and a second
  row that must not be touched. Row timeouts on both sides of the wait's
  deadline make both orders of lapse happen.
* Two operators are a race; two values tell the winner's token from the loser's.
* Seven calls are one more than the longest pattern the defaults look for (three
  cycles of two), so a pattern may also begin after something else.
* Three calls in two iterations reach a response with several calls, one after
  a denied, refused or failed call, a warning and a break, and a compaction of a
  conversation longer than it keeps.
* The limits of the step's retries are constants, since the code's 2, 2 and 5 only
  lengthen the history: with 1, 1 and 2 every counter reaches its limit in every
  order with the others, sequential mode falls through to its first call, and two
  iterations with three calls make a conversation that is compacted more than once.
* Three callers are one inside `EnsureContainer`, one waiting and one taking the
  entry; three containers are one lost, one current and one to come. When they
  are used up creation fails, which the code allows at any time.
* Two runs and a limit of one make the limit be passed by one, which the property
  allows, and would let a second excess show; the third child is one a child makes.
* Two calls, two connections or sessions and a bounded channel of one make
  every overlap of the adapters: a call under way, one that waits, and a
  connection that has taken the place of another. Three chats and two testers
  leave a chat for a second answer to go wrong in.
* Two servers' worth of connections, one unasked line: the answers shift by one,
  and shift no further by more lines.
* Three blocks of a model file are one written, one under way and one missing; up to
  five let a wrong append show. Two webhooks are one that accepts and one that
  does not, in both orders; two attempts are a redelivery.
* Four uses of the vault files are a save, a broken one, a deletion and a load.

### Fairness

* `Approvals`: a running goroutine is scheduled and its ticker fires (weak fairness
  of each wait), and time passes. Reviewers and the sweep owe nothing.
* `Executor`: provider, tools and waits return (the contexts and timeouts they are
  called with see to it), so the loop takes its next step.
* `Containers`: a call under way goes on, because Docker calls return one way or the
  other. Nothing is claimed for a call that waits for the marker: a new holder
  may always be there first.
* `McpClient`, `AcpSession`, `PtySession`: a goroutine that can go on does, and a Go mutex
  starves nobody (strong fairness of taking it). An MCP server answers or dies, and
  ends when its input does; an ACP agent ends its turns or dies; a PTY turn has
  a deadline. The code has none for an MCP server that lives and is silent
  (`mcpClient.call`), for an ACP or PTY stream whose reader has left, and for typing to a
  process that takes no input; that these do not happen is an assumption, which the
  property states.
* `Daemon`: reader and dispatcher go on. `TestProviders`: timers fire; testers owe nothing.
* `ProviderCache`: queries and factories return.

The other modules claim safety only and assume none.

`CHECK_DEADLOCK FALSE` stands where the system may stop: the clock or another bound
is reached, or the run is over.

## Properties

| property | what it says | hazard |
|---|---|---|
| `Approvals!DecisionIsRecorded` | told approved or rejected is recorded so, for good | a late click, sweep or waiter overwrites the row |
| `Approvals!NeverLapsesEarly` | a pending row lapses only when due, or past its waiter's deadline | comparison at the boundary |
| `Approvals!EveryWaitEnds` | a wait cannot outlive its deadline | deadline passes during sleep |
| `Approvals!ImplementsGate`, `HumanRequests!ImplementsGate` | the gate is a `DecisionGate` | all of these at once, and restarts |
| `HumanRequests!EventsAreTrue` | no event announces an answer the table does not have | two operators |
| `HumanRequests!StoreHoldsARecordedAnswer` | the secret is the winner's | handlers overtaking each other |
| `HumanRequests!StoredIsMasked` | where the load of the redactor worked, a stored value is masked, but while its own handler is between its two steps | handlers overtaking each other, restarts |
| `HumanRequests!NeverExpiresEarly` | 0 is no timeout | boundary |
| `LoopDetector!NoAlternationSurvives` | what a run that goes on cannot have done, anywhere in its history | priority of strategies, off by one |
| `LoopDetector!NewCallsNeverBreak` | a run is broken only at a call it made before, with the same outcome or as one of its last two (thresholds above one) | false alarm |
| `LoopDetector!StreaksAreWarnedOf` | a streak is warned of one call before it breaks | threshold minus one |
| `Executor!AnswersInOrder` | every call in the conversation has its result, in order, when the provider is asked | a path through the loop body that appends nothing |
| `Executor!RunsOnlyWithConsent` | a tool runs on the last word on that very call | verdict kept across a wait |
| `Executor!DrivesDetector` | one record per call, before the check, none after a break | order of the two calls |
| `Executor!EveryRunEnds` | every run comes to an end | a model that never stops asking |
| `StepLoop!NeverAsksBareHanded` | something to answer comes last, whatever was sent back or compacted | retry without its correction |
| `StepLoop!CallsAreAnswered` | a response with calls is followed by their results or by its correction | calls of a trimmed response left open |
| `StepLoop!NothingIsMissed` | what is not due to a stateful provider, it holds | index of the last call after a compaction |
| `Containers!KnownWereStarted` | cache and trusted rows name started containers | crash between start and row |
| `Containers!NothingIsOverwritten` | creation overwrites no entry | ensure racing with stop; waiters that wake together |
| `Containers!TakenOnce` | a stop or removal owns its container | two stops |
| `Containers!MarkerIsReleased` | the marker comes free | a dozen error returns |
| `SubAgents!BusyIsBounded` | the limit is passed by at most one child for each further run | count and insert are two statements |
| `SubAgents!NoGrandchildren` | a child has children only where the query of its depth failed | a check that is skipped on an error |
| `SubAgents!OwnChildrenAreReleased` | a run that ended normally leaves none of its agents busy | a child without a task |
| `MCAdapters!ToolsHaveTheirServer` | offered tools go to the live connection of their server | reload under calls |
| `MCAdapters!OwnAnswers` | the answer is the caller's own | answers without an address |
| `MCAdapters!ScreenIsItsOwn` | a turn reads the screen of the session it writes to | close and restart under a turn |
| `MCAdapters!TokensOutlive` | session token and refresh token are lost or spent for named reasons only, a save that a kill breaks off among them | refresh twice; runs that overlap with saves |
| `MCAdapters!AnsweredOnce` | one answer for a call, and no tester hangs | send outside of the lock |
| `MCAdapters!EverybodyReturns` | calls and turns end, and a daemon run winds down, while servers answer or die, readers stay and processes take their input | lost wake-ups, locks held over a wait |
| `MCServices!ToolsAreConsented` | who must be asked has allowed, and a standing deny stops, unless it is a grant's whose query failed | changes between the questions |
| `MCServices!BootIsComplete` | services and gates are in place after a boot that succeeds, and a provider, not the mock next to a test provider, unless its statement was refused | hooks find each other by priority alone |
| `ProviderCache!ProvidersAreCurrent` | one creation at a time, no key in use before the redactor was loaded, nothing older than an invalidation no call overlapped | flights that fail, waiters that look again |
| `MCServices!ToldOnce` | no send on a closed channel, no second close, nobody told twice | three parties close one channel |
| `MCServices!SectionKept` | the immutable section stays, unless a gate was skipped, the compared text was none or not the file's, the path leads into a list, or a write broke off or met another | a text compared long after it was read |
| `MCServices!SavedIsFound` | what was acknowledged is in the index with its row, so that a text search that is not refused fills its limit, in no order; a hybrid search has the best first | row and index in two statements |
| `MCServices!FilesAreWhole` | a cached model is whole if the server states lengths, else a beginning; the saved vault token is readable, unless a save broke off in the writing of the file | break-off and resume |
| `MCServices!TasksAreThoseWanted` | the tasks of a request are those of the webhooks that accept it; a failed INSERT costs its own and all behind it | one INSERT of several fails |

The threshold conditions in the `LoopDetector` properties are part of the result: with
`MaxConsecutive` = 2 every call from the second on counts as a streak of one and
earns the warning that hides the alternation strategy, which TLC shows when the
condition is dropped. Likewise the conditions of the others name what the code does
not promise: an unasked line of an MCP server, two downloads of one file or two
writers of the vault files at once, an answer of unknown length, a save or deployment
broken off in its writing, a skipped gate, a query of the grants or of the depth that
failed, a lost answer of the token service.

## What is proved

TLAPS checks every leaf; nothing is assumed but the named ASSUMEs of the modules,
which say that the constants have their types and that the fillers ("noid", `NoCid`)
are not members of the sets they fill.

* **`ApprovalsProofs`**: `TypeOK`, `DecisionIsRecorded`, `OneOpenWait`,
  `ResolutionIsFinal`, `NeverLapsesEarly`, and `Refinement`: `Spec => ImplementsGate`.
  `DecisionIsRecorded` alone is not inductive: an agent might be told twice. The
  invariant adds that an open wait has no answer yet and is the only one for its
  request, and that the row it waits for exists. A lemma says what a guarded
  UPDATE does to any row, and every action is shown to be one.
* **`HumanRequestsProofs`**: `TypeOK`, `EventsAreTrue`, `StoreHoldsARecordedAnswer`,
  `StoredIsMasked`, `NeverExpiresEarly`, and `Refinement`. The invariant adds that a handler under way
  is that of the operator whose answer the row holds (`HandlersAreWinners`): the
  store and the event follow the row only because the loser has no handler.
* **`LoopDetectorProofs`**: types, the three survival properties, `NewCallsNeverBreak`
  (`BreaksRepeatACall`) and `StreaksAreWarnedOf`, for all histories and all thresholds their
  conditions allow. Survival goes by what one
  more entry adds: the new pattern, if there is one, ends in the new entry, and then
  `Check` would have broken. For alternations the warning of a streak has to be ruled
  out first, which is where `maxConsecutive > 2` is needed. The last two rest on the
  status being the verdict on the history (`StatusIsTheVerdict`): a verdict to break names
  the pattern it saw, and a streak at its threshold was one short of it a call before.
* **`ExecutorProofs`**: `TypeOK`, `RunsOnlyWithConsent`, `EndsForItsCause`, `AnswersInOrder`,
  and `Refinement`: `Spec => DrivesDetector`, for any tools, limits and thresholds. The
  invariant ties the control point to the call in hand, its outcome and the
  verdict; one lemma per action. For the order of results (`Ordered`) it adds which reply
  is the one whose calls are in hand, with results for those before the `k`-th, and that
  every other is answered. What answers a reply comes after it, so that a
  compaction, which keeps the end of the conversation, leaves it where it was
  relative to the reply (`AnsweredMoves`).
* **`AdaptersProofs`**: first the container manager, `TypeOK`, `OneEnsure`, `KnownWereStarted`,
  `NothingIsOverwritten`, `TakenOnce`, for any number of callers and containers. The
  invariant (`ContainersInv`) adds what the container in a caller's hands is (`InHand`):
  one being started is in nobody else's, one that was found in the cache is still there
  or nothing is, one that is registered, recorded, stopped or removed was started.
  Then the five safety properties of `MCAdapters`, from the invariant of each part:
  * `TokensOutlive` (`TokensInv`, `TokenInv`): whoever is at the token service has the mutex;
    unless an answer was lost, the refresh token that is kept is not spent, or the answer
    that replaces it is on its way. The session token is in the file or about to be
    written as long as none of the four causes has cost it.
  * `AnsweredOnce` (`AnswersInv`): a call that waits in the table has an empty channel, and so has one
    whose answer a tester has taken out of the table; no two testers deliver to the
    same call; the steps drawn from a script are up to `idx`, each with one call.
  * `ScreenIsItsOwn` (`ScreenInv`): one turn at a time is at work, on the screen of its session
    (`OneTurn`), and what the process works on or has shown was asked for (`WorkWasAsked`).
  * `ToolsHaveTheirServer` (`ToolsInv`): at each step of a reload, which servers' tools are
    registered and with what client: those still to be closed, then those opened again.
  * `OwnAnswers` (`ToolsInv`, `UpdatesInv`, `ScreenInv`): on an MCP connection where nothing has come
    unasked there is the request or the answer of whoever has the lock, and nothing when
    it is free; an ACP update is in one list or with one call, but for those being drained
    under the lock, and is counted by the turn that made it.
* **`StepLoopProofs`**: `TypeOK`, `ChatsAreBounded`, `NeverAsksBareHanded`,
  `NothingIsMissed`, `CallsAreAnswered`, for any limits. The bound does not follow from `iter`
  alone, which goes down as well as up; the invariant is the equation that provider
  calls are iterations plus the retries taken back. That a compaction does not change how
  a conversation ends is a lemma about `Compact` (`CompactEnds`). The answers go as in
  `ExecutorProofs`, with the correction of a trimmed response as a second way to be
  answered (`Ordered`, `AnsweredMoves`).
* **`SubAgentsProofs`**: `TypeOK`, `BusyIsBounded`, `NoGrandchildren`,
  `OwnChildrenAreReleased`, for any parents, runs, children and limit. The bound is
  not inductive: it has to count the runs that have passed the check and not
  inserted yet. The invariant (`Room`) says that busy children and the places held by
  such runs together stay within the limit and the number of runs less one; the
  rest is that rows come in order and each has one author.
* **`ServicesProofs`**: the eight properties of `MCServices`, for any callers, pipelines,
  artifacts, listeners, jobs, downloads, users of the vault files and webhooks, and any
  sizes and bounds. All but the first are about `ServicesSpec`; a part keeps its own invariant, and stays when another moves.
  * `ProvidersAreCurrent`: the flight belongs to its maker, a holder which has
    looked has armed what it found, and after a quiet invalidation whoever has
    read the row or the key has read what they are.
  * `SectionKept` (`SectionHeld`): until one of the causes in `unchecked` occurs, the file, but
    for the moment of a write, and what any pipeline read of it have the section of
    the first or are empty, and what a pipeline brings past its gate has it.
  * `ToolsAreConsented` (`AccessInv`): a call that has passed a party has its word in `allowed`
    (`Passed`) and no deny of it that still stands; whoever is in `denied` denies now, and
    whoever allows now is in `allowed`.
  * `BootIsComplete` (`BootInv`): what each hook that has run leaves behind (`LeftBehind`), given
    who must have run before it by priority. In this proof the hooks of one
    priority may run in any order.
  * `ToldOnce` (`HubInv`): what a listener was told and what waits in its channel are different
    artifacts, all stored, of which clients of the hub have got none that is not yet
    broadcast (`ToldFits`). A channel on the list is open; one off it is still open
    only where its owner has yet to close it, and otherwise closed once (`ChannelIs`).
  * `FilesAreWhole` (`OneDownload`, `OneUser`): as long as no two downloads have met, the
    `.part` file is a beginning of the model, and the one that downloads saw its size, so
    that what takes the name is a beginning too, and whole after the last block; as
    long as no two users have, a configuration that is not cut has the token saved last
    under the key in the key file, and a key is made only where no token needs another.
  * `SavedIsFound` (`MemoryInv`): index entries have rows, and a job whose row is in is about to
    enter it (`StoreFits`); a search by text that is not refused has filled its limit, and a hybrid
    one has the best first (`FoundFits`).
    That the insertion sort sorts is proved of the recursive function for every length,
    by the least one at which it would not (induction is not available).
  * `TasksAreThoseWanted` (`WebhookInv`): the tasks of the attempt under way are for the
    accepting webhooks of the list which it has gone past (`PassedBy`), place for place.

Some of these (`OneOpenWait`, `ResolutionIsFinal`, `NoRepeatSurvives`, `NoStreakSurvives`,
`EndsForItsCause`, `OneEnsure`, `ChatsAreBounded` and the type invariants of the components)
are not asked of TLC again in the runs. The type invariants of the parts of
`MCAdapters` and `MCServices` are no properties of these two runs either. Where they
matter they are part of the invariants above: `Mcp!TypeOK`, `Acp!TypeOK`, `Pty!TypeOK`,
`Gpt!TypeOK` and `Improve!TypeOK` are named there, and the others say what they need of the types themselves.

Some definitions have the form they have because of the proofs. `AnswersInOrder` and
`TasksAreThoseWanted` speak of places in a sequence rather than of filtered
sequences, which says the same and can be reasoned about. The sizes in `MCServices` and
`MCAdapters` are constants, to which the configurations give the values of the
instance, so that the theorems hold for all others too; `ServicesAssumption` and
`AdaptersAssumption` say that bounds are numbers and that actors of two kinds are
different. `GetBySource` orders the webhooks by their rank, and `sortScoredEntries` is a
recursive function, for the same reason.

Only model-checked: the liveness properties (`EveryWaitEnds`, `EveryRunEnds`, `MarkerIsReleased`, `EverybodyReturns`), which are out of reach of the
prover. Every safety property and every action property of the passing runs
is a theorem.

## Known hazards without a property

What the code does here is in the models, and no property could say that it
does not happen, because it does:

* a container whose stop failed runs on with no entry, and a stop marks the row by
  project, whichever container it names (`container_manager.go:362`, `368`); a call
  that waits for the marker may find a new one each time;
* invalidation by secret is silent when its query fails (`provider_registry.go`),
  and callers that join a creation get the provider of whoever came first;
* a configuration whose reload or pull request failed stays live
  (`step_self_improve_deploy.go:140`, `174`);
* a channel test provider hands the answer of a call that timed out to the next;
* an extraction that is run again stores its memories again, and a webhook that is
  delivered again makes its tasks again;
* where the load of the redactor has failed, nothing is masked that was stored before
  (`secret_service.go:137`), and a key that is rotated later is masked only by its own
  handler;
* a daemon session whose save a kill breaks off reads as none (`sdk/session.go:39`), and
  an unasked message may be taken for a refusal (`sdk/daemon.go:107`);
* an unasked line of an MCP server shifts the answers of all later calls
  (`module_mcp_client.go:92`), and a server that is silent holds its caller for ever;
* a stream whose reader has left, or a process that takes no input, holds the session
  of the adapter (`acp_provider.go:272`, `pty_provider.go:355`, `200`);
* grants are passed over when their query fails (`policy/store.go:84`), and the depth check
  of `Spawn` when its does (`sub_agent.go:64`);
* a rule that turns to a deny while a call waits for its approval does not stop it
  (`executor.go:308`);
* a configuration cut in the writing may pass for one without the section
  (`step_self_improve_deploy.go:281`), and a cut vault configuration loses its token
  (`vault_config.go:81`);
* a model whose answer states no length is taken as it ends (`huggingface.go:128`);
* a memory whose index entry failed is found by no text, and a text with a hyphen finds
  nothing at all (`memory.go:92`, `404`);
* a webhook whose secret does not resolve accepts what is unsigned
  (`step_webhook.go:136`);
* new ChatGPT tokens are kept in memory only;
* two downloads of one model file share its `.part` file;
* a run that ends by a gate, a verdict or an error does not cancel its children
  (`step_agent_execute.go:668`), and `task_update` overwrites a cancelled status;
* one who subscribes at the daemon client after its dispatcher has ended is never
  told of the end.

## Not modelled

* **Bodies of tools** (`orchestrator/tools`, `tools`), **remote model APIs** (`provider`,
  `genkit` apart from the adapters above): I/O on files, git, Kubernetes, databases
  and the web. To the loop they return something or fail, which the models do.
* **Texts**: redaction, prompts, transcripts, the globs of patterns, what the command
  analyzer reads in a shell text. The models choose what these may answer.
* **Reviews, audits, diagnoses**: sequential reports over command output.
* **MCP server, IPC server**: each request is one statement or one call; those that
  change agents are in `SubAgents`.
* **Agents and tasks packages, generated contracts, documentation and examples**: types,
  tables of descriptors and prose.

What could come next: an abstract specification of the tables the services share, which
`Memory` and `Webhooks` would implement; theorems about what the single adapters do
under several reloads at once; a composition of `StepLoop` with `SubAgents` over
several runs of one parent.
