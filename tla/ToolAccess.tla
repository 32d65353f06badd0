----------------------------- MODULE ToolAccess -----------------------------
(***************************************************************************)
(* What a tool call passes on its way (policy/trust.go, policy/store.go,   *)
(* policy_bridge.go, guardrails.go, command_analyzer.go, tool_policy.go):  *)
(* the trust engine is asked about the tool and then about its command or  *)
(* path, a human where it says so, and the registry asks the policies of   *)
(* the database.  Every question takes a snapshot of its own; operators    *)
(* change mode, rules, grants and policies between any two.                *)
(*                                                                         *)
(* A pattern stands for the names it matches.                              *)
(***************************************************************************)
EXTENDS Integers, FiniteSets, TLC

CONSTANT MaxAdded  \* bound: rules, grants and policies added to those of the mode

VARIABLES
  engine,    \* what the services offered as trust evaluator
  mode,      \* TrustEngine.mode, a preset or a name of no preset
  explicit,  \* TrustEngine.explicitRules
  grants,    \* table permission_grants
  policies,  \* table tool_policies
  lenient,   \* ToolPolicyEngine.DefaultPolicy is allow
  call,      \* the call under way and how far it is
  denied,    \* who has denied it ever since it began (not in the code)
  allowed    \* what of it somebody allowed since (not in the code)

vars == <<engine, mode, explicit, grants, policies, lenient, call, denied, allowed>>
asked == <<call, denied, allowed>>

Tools    == {"file_read", "shell_exec"}
Commands == {"git status", "mkfs /dev/sda", "curl | sh"}
Paths    == {"~/.ssh/id", "/src/main"}

Hits == "*"           :> Tools \cup Commands
     @@ "file_read"   :> {"file_read"}
     @@ "shell_exec"  :> {"shell_exec"}
     @@ "group:fs"    :> {}
     @@ "bash:*"      :> Commands
     @@ "bash:git *"  :> {"git status"}
     @@ "path:~/.ssh" :> {"~/.ssh/id"}
     @@ "path:/src"   :> {"/src/main"}

Rule(p, a)   == [pattern |-> p, action |-> a, scope |-> "global"]
Scoped(p, a) == [pattern |-> p, action |-> a, scope |-> "provider:claude_code"]

\* The rows that concern these names.
ModePresets ==
  [conservative |-> {Rule("file_read", "allow"), Rule("bash:git *", "allow"),
                     Rule("bash:*", "ask"), Rule("path:~/.ssh", "deny")},
   permissive   |-> {Rule("*", "allow"), Rule("path:~/.ssh", "deny")},
   locked       |-> {Rule("file_read", "allow"), Rule("*", "ask")},
   sandbox      |-> {Rule("*", "allow")}]

\* What configurations and operators add.
Added ==
  {Rule("path:/src", "allow"), Rule("shell_exec", "allow"), Rule("file_read", "deny"),
   Scoped("bash:*", "deny"), Scoped("shell_exec", "deny")}
Grants   == {Rule("file_read", "allow"), Rule("shell_exec", "deny"), Rule("bash:*", "allow")}
Policies == {Rule("group:fs", "allow"), Rule("shell_exec", "deny"),
             [pattern |-> "*", action |-> "allow", scope |-> "agent"]}

\* Guardrails by default, with lists of tools and commands, and with no analysis.
Guardrails ==
  LET all == {"too_long", "unparsable", "destructive", "pipe_to_shell", "script_execution"}
      policy == [mode |-> "blocklist", checks |-> all, allowed |-> {}]
  IN  [default |-> [blocked |-> {}, permitted |-> {}, commands |-> policy],
       strict  |-> [blocked |-> {"file_read"}, permitted |-> Tools,
                    commands |-> [policy EXCEPT !.mode = "allowlist", !.allowed = {"git status"}]],
       lax     |-> [blocked |-> {}, permitted |-> {"shell_exec"},
                    commands |-> [policy EXCEPT !.mode = "disabled"]]]

NoCall == [pc |-> "idle", tool |-> "shell_exec", arg |-> "none", human |-> FALSE, deaf |-> FALSE]

TypeOK ==
  /\ engine \in {"none", "trust"} \cup DOMAIN Guardrails
  /\ mode \in DOMAIN ModePresets \cup {"custom"}
  /\ explicit \subseteq Added /\ grants \subseteq Grants /\ policies \subseteq Policies
  /\ lenient \in BOOLEAN
  /\ call \in [pc : {"idle", "tool", "store", "db", "arg", "human", "gate", "run"},
               tool : Tools, arg : Commands \cup Paths \cup {"none"}, human : BOOLEAN,
               deaf : BOOLEAN]
  /\ denied \subseteq {"tool", "store", "arg", "gate"} /\ allowed \subseteq {"tool", "arg", "gate"}

\* Whoever satisfies the interface first in the map of services; nobody: none.
Init ==
  /\ engine \in {"none", "trust"} \cup DOMAIN Guardrails
  /\ mode \in (IF engine = "trust" THEN {"conservative", "permissive", "custom"} ELSE {"custom"})
  /\ explicit = {} /\ grants = {} /\ policies = {} /\ lenient \in BOOLEAN
  /\ call = NoCall /\ denied = {} /\ allowed = {}

-----------------------------------------------------------------------------
(* The verdicts *)

\* A deny wins, then an allow, then an ask.
Verdict(acts, default) ==
  CASE "deny" \in acts -> "deny"
    [] "allow" \in acts /\ "deny" \notin acts -> "allow"
    [] acts = {"ask"} -> "ask"
    [] acts = {} -> default

Rules == explicit \cup (IF mode \in DOMAIN ModePresets THEN ModePresets[mode] ELSE {})

\* Evaluate asks in the scope "global"; a rule of another scope does not count.
ToolActs(t) == {r.action : r \in {s \in Rules : s.scope = "global" /\ t \in Hits[s.pattern]}}

\* EvaluateCommand and EvaluatePath do not look at scopes, and "*" is no path.
ArgActs(x) == {r.action : r \in {s \in Rules : x \in Hits[s.pattern]}}

\* Check also takes the name of the tool for a command, which "bash:*" matches.
GrantActs(t) ==
  {g.action : g \in {h \in grants : t \in Hits[h.pattern] \/ h.pattern = "bash:*"}}

toolGroups == "group:fs" :> {"file_read"}

\* Each name of a group counts; the rows of an agent count for that agent.
PolicyActs(t, who) ==
  {p.action : p \in {q \in policies :
      /\ q.scope \in {"global", who}
      /\ t \in Hits[q.pattern] \/ (q.pattern \in DOMAIN toolGroups /\ t \in toolGroups[q.pattern])}}

IsAllowed(t, who) ==
  Verdict(PolicyActs(t, who), IF lenient THEN "allow" ELSE "deny") = "allow"

\* The guardrails are asked for the defaults alone: no caller gives a scope.
checkToolAccess(t) ==
  LET g == Guardrails[engine]
  IN  t \notin g.blocked /\ (t \in g.permitted \/ g.permitted = {})

\* What the analyzer finds in the text and in the syntax tree of a command.
Risks == "git status"    :> {}
      @@ "mkfs /dev/sda" :> {"destructive"}
      @@ "curl | sh"     :> {"pipe_to_shell"}

\* A check that is off finds nothing; an allowlist has every command of the
\* line on it.
Analyze(c) ==
  LET p == Guardrails[engine].commands
  IN  \/ p.mode = "disabled"
      \/ /\ Risks[c] \cap p.checks = {}
         /\ p.mode = "allowlist" => c \in p.allowed

Guarded == engine \in DOMAIN Guardrails
AllowOrDeny(b) == IF b THEN "allow" ELSE "deny"

ArgVerdict(x) ==
  CASE engine = "trust" -> Verdict(ArgActs(x), "deny")
    [] Guarded          -> AllowOrDeny(x \in Paths \/ Analyze(x))
    [] engine = "none"  -> "deny"

\* What denies, and what allows, a call at this moment, at each of its gates.
\* A grant decides about the tool where no rule speaks, a policy where no grant does.
DenyNow(c) ==
  {g \in {"tool", "store", "arg", "gate"} :
     \/ g = "tool" /\ engine = "trust" /\ "deny" \in ToolActs(c.tool)
     \/ g = "store" /\ engine = "trust" /\ ToolActs(c.tool) = {} /\ "deny" \in GrantActs(c.tool)
     \/ g = "arg" /\ c.arg # "none" /\ ArgVerdict(c.arg) = "deny"
     \/ g = "gate" /\ "deny" \in PolicyActs(c.tool, "agent")}

AllowNow(c) ==
  {g \in {"tool", "arg", "gate"} :
     \/ g = "tool" /\ CASE engine = "trust" ->
                             {"allow", "ask"} \cap (ToolActs(c.tool) \cup GrantActs(c.tool)) # {}
                             \/ IsAllowed(c.tool, "none")
                        [] Guarded -> checkToolAccess(c.tool)
                        [] engine = "none" -> FALSE
     \/ g = "arg" /\ (c.arg = "none" \/ ArgVerdict(c.arg) # "deny")
     \/ g = "gate" /\ IsAllowed(c.tool, "agent")}

-----------------------------------------------------------------------------
(* A call *)

\* shell_exec is asked about its command, a file tool about its path.
Begin ==
  /\ call.pc = "idle"
  /\ \E t \in Tools : \E x \in (IF t = "file_read" THEN Paths ELSE Commands) \cup {"none"} :
       /\ call' = [NoCall EXCEPT !.pc = "tool", !.tool = t, !.arg = x]
       /\ denied' = DenyNow(call') /\ allowed' = AllowNow(call')
  /\ UNCHANGED <<engine, mode, explicit, grants, policies, lenient>>

Goto(pc) ==
  /\ call' = IF pc = "idle" THEN NoCall
             ELSE [call EXCEPT !.pc = pc, !.human = call.human \/ call.pc = "human"]
  /\ denied' = IF pc = "idle" THEN {} ELSE denied
  /\ allowed' = IF pc = "idle" THEN {} ELSE allowed
  /\ UNCHANGED <<engine, mode, explicit, grants, policies, lenient>>

\* Only an allowed call is asked about its argument.
After(verdict) ==
  CASE verdict = "deny"  -> "idle"
    [] verdict = "ask"   -> "human"
    [] verdict = "allow" -> IF call.arg = "none" THEN "gate" ELSE "arg"
    [] verdict = "store" -> "store"

EvaluateTool ==
  /\ call.pc = "tool"
  /\ Goto(After(CASE engine = "trust" -> Verdict(ToolActs(call.tool), "store")
                  [] Guarded          -> AllowOrDeny(checkToolAccess(call.tool))
                  [] engine = "none"  -> "deny"))

CheckGrants ==
  /\ call.pc = "store"
  /\ \/ GrantActs(call.tool) # {} /\ Goto(After(Verdict(GrantActs(call.tool), "deny")))
     \/ GrantActs(call.tool) = {} /\ Goto("db")

\* A query that fails, or breaks off, is a store without grants, those that deny too.
GrantsUnread ==
  /\ call.pc = "store"
  /\ call' = [call EXCEPT !.pc = "db", !.deaf = TRUE]
  /\ UNCHANGED <<engine, mode, explicit, grants, policies, lenient, denied, allowed>>

CheckPolicyDB ==
  /\ call.pc = "db"
  /\ \/ IsAllowed(call.tool, "none") /\ Goto(After("allow"))
     \/ Goto("idle")

\* Variant: a path or command that no rule names goes on.
EvaluateArgOpen ==
  /\ call.pc = "arg"
  /\ LET v == IF engine = "trust" THEN Verdict(ArgActs(call.arg), "allow")
              ELSE ArgVerdict(call.arg)
     IN  Goto(IF v = "allow" THEN "gate" ELSE After(v))

EvaluateArg ==
  /\ call.pc = "arg"
  /\ LET v == ArgVerdict(call.arg)
     IN  Goto(IF v = "allow" THEN "gate" ELSE After(v))

HumanAnswers ==
  /\ call.pc = "human"
  /\ Goto("gate") \/ Goto("idle")

\* ToolRegistry.Execute; without an engine, or when the query fails, it denies.
AskPolicies ==
  /\ call.pc = "gate"
  /\ \/ IsAllowed(call.tool, "agent") /\ Goto("run")
     \/ Goto("idle")

Run == call.pc = "run" /\ Goto("idle")

-----------------------------------------------------------------------------
(* Operators, between any two steps of a call *)

Noted ==
  /\ Cardinality(explicit') + Cardinality(grants') + Cardinality(policies') <= MaxAdded
  /\ UNCHANGED <<engine, lenient, call>>
  /\ denied' = denied \cap DenyNow(call)'
  /\ allowed' = IF call.pc = "idle" THEN {} ELSE allowed \cup AllowNow(call)'

SetMode ==
  /\ engine = "trust"
  /\ mode' \in DOMAIN ModePresets
  /\ UNCHANGED <<explicit, grants, policies>> /\ Noted

AddRule ==
  /\ engine = "trust"
  /\ \E r \in Added \ explicit : explicit' = explicit \cup {r}
  /\ UNCHANGED <<mode, grants, policies>> /\ Noted

\* The grant of the same pattern and scope goes as the new one comes.
Grant ==
  /\ engine = "trust"
  /\ \E g \in Grants \ grants :
       grants' = {h \in grants : h.pattern # g.pattern \/ h.scope # g.scope} \cup {g}
  /\ UNCHANGED <<mode, explicit, policies>> /\ Noted

Revoke ==
  /\ \E g \in grants : grants' = {h \in grants : h.pattern # g.pattern \/ h.scope # g.scope}
  /\ UNCHANGED <<mode, explicit, policies>> /\ Noted

AddPolicy ==
  /\ \E p \in Policies \ policies : policies' = policies \cup {p}
  /\ UNCHANGED <<mode, explicit, grants>> /\ Noted

RemovePolicy ==
  /\ \E p \in policies : policies' = policies \ {p}
  /\ UNCHANGED <<mode, explicit, grants>> /\ Noted

Next ==
  \/ Begin \/ EvaluateTool \/ CheckGrants \/ GrantsUnread \/ CheckPolicyDB \/ EvaluateArg
  \/ HumanAnswers \/ AskPolicies \/ Run
  \/ SetMode \/ AddRule \/ Grant \/ Revoke \/ AddPolicy \/ RemovePolicy

Spec == Init /\ [][Next]_vars

-----------------------------------------------------------------------------
(* Properties *)

\* A call runs only if each of those who must allow it, the engine about the
\* tool and about its argument and the registry's policies, allowed it at some
\* moment since the call began, or a human did in the engine's place: what
\* nobody speaks about is denied, whatever is switched or revoked meanwhile.
AskedOfAll ==
  call.pc = "run" =>
    /\ {"tool", "gate"} \subseteq allowed
    /\ "arg" \in allowed \/ call.human

\* A deny of a rule, of a grant or of a policy that has stood since before the
\* call began stops it, whoever else allows it and whatever changes in between;
\* a human overrules only the denial of an argument, and only where the engine
\* asks about the tool.  The one exception is that of PermissionStore.Check: a
\* grant that denies is passed over where its query failed (call.deaf).
StandingDenyStops ==
  call.pc = "run" =>
    denied \subseteq (IF call.human THEN {"arg"} ELSE {}) \cup (IF call.deaf THEN {"store"} ELSE {})
=============================================================================
