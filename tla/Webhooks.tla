------------------------------ MODULE Webhooks ------------------------------
(***************************************************************************)
(* Inbound webhooks (orchestrator/webhook.go, step_webhook.go): a request  *)
(* makes a task for each enabled webhook of its source whose signature and *)
(* filter it passes, one INSERT after the other and in no transaction.     *)
(* The sender delivers again what was answered by an error (external).     *)
(***************************************************************************)
EXTENDS Integers, Sequences, FiniteSets

CONSTANTS
  Hooks,        \* ids of webhooks, 1 .. n in the order they are created in
  Configs,      \* what a webhook may be created with: source, secret, filter, template, enabled
  Requests,     \* what may come: source, event, title of the payload, signed, fresh
  MaxAttempts   \* bound: deliveries of the one request

VARIABLES
  hooks,   \* table webhooks: of each id its configuration, NoHook without a row
  secrets, \* whether the store answers for the secrets the webhooks name
  step,    \* the execution: where it is, its request, the webhooks listed and the next of them
  tasks    \* table tasks, in the order of the inserts: the attempt, the webhook, the title

hookvars == <<hooks, secrets, step, tasks>>

NoHook == [source |-> "none", secret |-> FALSE, filter |-> "", template |-> "none", enabled |-> FALSE]
Event  == {"", "issues", "issues.opened"}

TypeOK ==
  /\ hooks \in [Hooks -> Configs \cup {NoHook}]
  /\ secrets \in BOOLEAN
  /\ step.pc \in {"idle", "loop", "failed", "answered"} /\ step.req \in Requests
  /\ step.listed \in Seq(Configs \X Hooks) /\ step.at \in 1 .. Len(step.listed) + 1
  /\ step.attempt \in 0 .. MaxAttempts
  /\ \A i \in DOMAIN tasks : tasks[i].attempt \in 1 .. MaxAttempts /\ tasks[i].hook \in Hooks

Init ==
  /\ hooks = [h \in Hooks |-> NoHook]
  /\ secrets \in BOOLEAN
  /\ \E r \in Requests : step = [pc |-> "idle", req |-> r, listed |-> <<>>, at |-> 1, attempt |-> 0]
  /\ tasks = <<>>

-----------------------------------------------------------------------------
Create(h, config) ==
  /\ hooks[h] = NoHook /\ \A g \in Hooks : g > h => hooks[g] = NoHook
  /\ hooks' = [hooks EXCEPT ![h] = config]
  /\ UNCHANGED <<secrets, step, tasks>>

Delete(h) ==
  /\ hooks[h] # NoHook
  /\ hooks' = [hooks EXCEPT ![h] = NoHook]
  /\ UNCHANGED <<secrets, step, tasks>>

\* The enabled webhooks of a source, oldest first.
GetBySource(source) ==
  LET own == {h \in Hooks : hooks[h].source = source /\ hooks[h].enabled}
      id(i) == CHOOSE h \in own : Cardinality({g \in own : g <= h}) = i
  IN  [i \in 1 .. Cardinality(own) |-> <<hooks[id(i)], id(i)>>]

\* An empty secret accepts everything, and else the signature decides; one of
\* slack is too old after five minutes.  The secret of a webhook that names one is
\* empty, too, where the store does not answer for the name (resolveSecretValue).
VerifySignature(req, secret) ==
  secret => req.signed /\ (req.source = "slack" => req.fresh)

Verified(config, req) == config.secret => VerifySignature(req, secrets)

\* An event matches its name, and the part of it before a dot.
MatchesFilter(event, filter) ==
  \/ filter = ""
  \/ event # "" /\ (event = filter \/ (filter = "issues" /\ event = "issues.opened"))

Accepts(config, req) == Verified(config, req) /\ MatchesFilter(req.event, config.filter)

\* Without a template the title is that of the payload, be it empty; what a
\* template leaves empty gets the default, and so does a template that fails.
RenderTaskTemplate(template, title) ==
  CASE template = "none"   -> IF title = "absent" THEN "default" ELSE title
    [] template = "plain"  -> IF title = "empty" THEN "default" ELSE "some"
    [] OTHER               -> "default"

\* The webhooks of the source are listed, once.
Lookup ==
  /\ step.pc = "idle" /\ step.attempt < MaxAttempts
  /\ LET listed == GetBySource(step.req.source)
     IN  step' = [step EXCEPT !.pc = IF listed = <<>> THEN "answered" ELSE "loop",
                              !.listed = listed, !.at = 1, !.attempt = @ + 1]
  /\ UNCHANGED <<hooks, secrets, tasks>>

\* There is no source in the path, the body cannot be read, the service is not
\* there or the lookup fails.
Refuse ==
  /\ step.pc = "idle" /\ step.attempt < MaxAttempts
  /\ step' = [step EXCEPT !.pc = "failed", !.listed = <<>>, !.at = 1, !.attempt = @ + 1]
  /\ UNCHANGED <<hooks, secrets, tasks>>

Current == step.listed[step.at]
InLoop  == step.pc = "loop" /\ step.at <= Len(step.listed)

\* Variant: a webhook that does not want the request ends the loop.
SkipRest ==
  /\ InLoop /\ ~Accepts(Current[1], step.req)
  /\ step' = [step EXCEPT !.at = Len(step.listed) + 1]
  /\ UNCHANGED <<hooks, secrets, tasks>>

Skip ==
  /\ InLoop /\ ~Accepts(Current[1], step.req)
  /\ step' = [step EXCEPT !.at = @ + 1]
  /\ UNCHANGED <<hooks, secrets, tasks>>

CreateTask ==
  /\ InLoop /\ Accepts(Current[1], step.req)
  /\ tasks' = Append(tasks, [attempt |-> step.attempt, hook |-> Current[2],
                             title |-> RenderTaskTemplate(Current[1].template, step.req.title)])
  /\ step' = [step EXCEPT !.at = @ + 1]
  /\ UNCHANGED <<hooks, secrets>>

\* The INSERT fails: the tasks before it stay, and no answer names them.
CreateTaskFails ==
  /\ InLoop /\ Accepts(Current[1], step.req)
  /\ step' = [step EXCEPT !.pc = "failed"]
  /\ UNCHANGED <<hooks, secrets, tasks>>

Answer ==
  /\ step.pc = "loop" /\ step.at > Len(step.listed)
  /\ step' = [step EXCEPT !.pc = "answered"]
  /\ UNCHANGED <<hooks, secrets, tasks>>

\* The sender tries again.
Redeliver ==
  /\ step.pc = "failed" /\ step.attempt < MaxAttempts
  /\ step' = [step EXCEPT !.pc = "idle", !.listed = <<>>, !.at = 1]
  /\ UNCHANGED <<hooks, secrets, tasks>>

Next ==
  \/ \E h \in Hooks : Delete(h) \/ \E config \in Configs : Create(h, config)
  \/ Lookup \/ Refuse \/ Skip \/ CreateTask \/ CreateTaskFails \/ Answer \/ Redeliver

Spec == Init /\ [][Next]_hookvars

-----------------------------------------------------------------------------
\* The tasks that an attempt made and the webhooks listed that accept the request,
\* by their places.
MadeBy(attempt) == {i \in DOMAIN tasks : tasks[i].attempt = attempt}
Wanted == {k \in DOMAIN step.listed : Accepts(step.listed[k][1], step.req)}

\* The tasks are one for each of these webhooks, in their order, and no other.
AreFor(made, wanted) ==
  \E place \in [made -> wanted] :
    /\ {place[i] : i \in made} = wanted
    /\ \A i, j \in made : i < j => place[i] < place[j]
    /\ \A i \in made : tasks[i].hook = step.listed[place[i]][2]

\* What is answered was made, and all of it: a task for each webhook that
\* accepts the request, in their order, whatever webhooks came and went
\* meanwhile; an attempt that fails has made the first of them and no other,
\* since an INSERT that fails ends it; and no task comes without a title but by a
\* payload whose title is empty (WebhookProcessStep.Execute).  To accept is what the
\* code makes of it: a webhook whose secret cannot be had accepts what is unsigned.
TasksAreThoseWanted ==
  /\ step.pc = "answered" => AreFor(MadeBy(step.attempt), Wanted)
  /\ step.pc # "idle" =>
       \E n \in 1 .. Len(step.listed) + 1 :
         AreFor(MadeBy(step.attempt), {k \in Wanted : k < n})
  /\ \A i \in DOMAIN tasks : tasks[i].title = "empty" => step.req.title = "empty"
=============================================================================
