---------------------------- MODULE MCServices -----------------------------
(***************************************************************************)
(* The services of the orchestrator, side by side: tool access, the boot,  *)
(* provider registries, the event hub and blackboard, the self-improvement *)
(* pipeline, memories, model files, webhooks and the vault configuration.  *)
(* In these models they share no state, so that it is enough that one      *)
(* moves while the others rest: the first state chooses the one.           *)
(***************************************************************************)
EXTENDS ProviderCache, FiniteSets, TLC

CONSTANTS
  MaxAdded,                                   \* of ToolAccess
  Artifacts, Subscribers, Clients, QueueSize, \* of EventHub
  Pipelines,                                  \* of SelfImprove
  Jobs, NChunks, Limit,                       \* of Memory
  Pulls, NBlocks, MaxBlocks,                  \* of ModelFiles
  HookIds, MaxAttempts,                       \* of Webhooks
  Users, MaxUses                              \* of VaultConfig

\* A subscriber of the blackboard is a goroutine, a client of the hub a request.
ASSUME ServicesAssumption ==
  /\ Subscribers \cap Clients = {} /\ IsFiniteSet(HookIds) /\ Limit \in Nat
  /\ QueueSize \in Nat /\ NBlocks \in Nat /\ MaxBlocks \in Nat /\ MaxUses \in Nat

VARIABLES
  subject,
  engine, mode, explicit, grants, policies, lenient, tcall, denied, allowed,
  config, pending, reg, offered, governed, pushes, default, refused, phase, bvault, once, bholder, armed, asked,
  post, stored, clock, listener, latest,
  setup, live, pipe, unchecked,
  rows, vectors, index, job, memsaved, found,
  ranges, sized, part, dest, pull, twice,
  hooks, secrets, step, tasks,
  keyfile, file, user, uses, saved, crowded

accessvars == <<engine, mode, explicit, grants, policies, lenient, tcall, denied, allowed>>
bootvars == <<config, pending, reg, offered, governed, pushes, default, refused,
              phase, bvault, once, bholder, armed, asked>>
hubvars == <<post, stored, clock, listener, latest>>
improvevars == <<setup, live, pipe, unchecked>>
memvars == <<rows, vectors, index, job, memsaved, found>>
modelvars == <<ranges, sized, part, dest, pull, twice>>
hookvars == <<hooks, secrets, step, tasks>>
vaultvars == <<keyfile, file, user, uses, saved, crowded>>
servicevars == <<subject, accessvars, bootvars, vars, hubvars, improvevars, memvars, modelvars, hookvars, vaultvars>>

HookConfig(source, secret, filter, template, enabled) ==
  [source |-> source, secret |-> secret, filter |-> filter, template |-> template, enabled |-> enabled]

HookConfigs ==
  {HookConfig("github", FALSE, "issues", "plain", TRUE),
   HookConfig("github", TRUE, "", "none", TRUE),
   HookConfig("github", FALSE, "issues.opened", "broken", FALSE),
   HookConfig("slack", TRUE, "issues", "broken", TRUE)}

HookRequests ==
  [source : {"github", "slack"}, event : {"", "issues", "issues.opened"}, title : {"absent", "empty"},
   signed : BOOLEAN, fresh : {TRUE}]
  \cup [source : {"slack"}, event : {"issues"}, title : {"empty"}, signed : {TRUE}, fresh : {FALSE}]

NoRequest == [source |-> "github", event |-> "", title |-> "absent", signed |-> FALSE, fresh |-> TRUE]

Access == INSTANCE ToolAccess WITH call <- tcall
Boot == INSTANCE Wiring WITH vault <- bvault, holder <- bholder
Hub == INSTANCE EventHub
Improve == INSTANCE SelfImprove
Mem == INSTANCE Memory WITH saved <- memsaved
Model == INSTANCE ModelFiles WITH crowded <- twice
Hook == INSTANCE Webhooks WITH Hooks <- HookIds, Configs <- HookConfigs, Requests <- HookRequests
Vault == INSTANCE VaultConfig

\* The others rest in an initial state of theirs.
ServicesInit ==
  /\ subject \in {"access", "boot", "cache", "hub", "improve", "memory", "model", "webhook", "vault"}
  /\ Access!Init /\ (subject # "access" => engine = "none" /\ ~lenient)
  /\ Boot!Init /\ (subject # "boot" => config = {} /\ default = {})
  /\ Init /\ (subject # "cache" => single /\ holder.once = "no")
  /\ Hub!Init /\ (subject # "hub" => \A a \in Artifacts : post[a].phase = "")
  /\ Improve!Init /\ (subject # "improve" => setup = "none")
  /\ Mem!Init /\ (subject # "memory" => \A j \in Jobs : ~job[j].embedder)
  /\ Model!Init /\ (subject # "model" => ranges /\ sized)
  /\ Hook!Init /\ (subject # "webhook" => secrets /\ step.req = NoRequest)
  /\ Vault!Init

ServicesNext ==
  \/ subject = "access" /\ Access!Next
     /\ UNCHANGED <<subject, bootvars, vars, hubvars, improvevars, memvars,
                     modelvars, hookvars, vaultvars>>
  \/ subject = "boot" /\ Boot!Next
     /\ UNCHANGED <<subject, accessvars, vars, hubvars, improvevars, memvars,
                     modelvars, hookvars, vaultvars>>
  \/ subject = "cache" /\ Next
     /\ UNCHANGED <<subject, accessvars, bootvars, hubvars, improvevars, memvars,
                     modelvars, hookvars, vaultvars>>
  \/ subject = "hub" /\ Hub!Next
     /\ UNCHANGED <<subject, accessvars, bootvars, vars, improvevars, memvars,
                     modelvars, hookvars, vaultvars>>
  \/ subject = "improve" /\ Improve!Next
     /\ UNCHANGED <<subject, accessvars, bootvars, vars, hubvars, memvars,
                     modelvars, hookvars, vaultvars>>
  \/ subject = "memory" /\ Mem!Next
     /\ UNCHANGED <<subject, accessvars, bootvars, vars, hubvars, improvevars,
                     modelvars, hookvars, vaultvars>>
  \/ subject = "model" /\ Model!Next
     /\ UNCHANGED <<subject, accessvars, bootvars, vars, hubvars, improvevars,
                     memvars, hookvars, vaultvars>>
  \/ subject = "webhook" /\ Hook!Next
     /\ UNCHANGED <<subject, accessvars, bootvars, vars, hubvars, improvevars,
                     memvars, modelvars, vaultvars>>
  \/ subject = "vault" /\ Vault!Next
     /\ UNCHANGED <<subject, accessvars, bootvars, vars, hubvars, improvevars,
                     memvars, modelvars, hookvars>>

ServicesSpec == ServicesInit /\ [][ServicesNext]_servicevars

\* Pipelines are alike: no definition chooses among them.
Alike == Permutations(Pipelines)

-----------------------------------------------------------------------------
(* Properties: those of the parts, next to ProvidersAreCurrent *)

\* Nobody is allowed to run a tool by a switch, a revocation or a policy that
\* comes while it is asked about, and a deny that stands stops it, unless it is a
\* grant's and the query of the grants failed.
ToolsAreConsented == Access!AskedOfAll /\ Access!StandingDenyStops

\* A boot that succeeds leaves no step without its service and no tool registry
\* without its gates, and some provider to use, no mock next to a test provider, unless
\* the statement that sees to it was refused.
BootIsComplete ==
  Boot!StepsFindTheirServices /\ Boot!GatesAreInPlace /\ Boot!TestProviderIsDefault

\* No channel is closed twice or sent to when closed, and nobody is told twice.
ToldOnce == Hub!ChannelsHoldUp /\ Hub!ToldOnce

\* The immutable section stays, unless one of the causes named there took it.
SectionKept == Improve!SectionKept

\* What Save acknowledged is in the index with its row, so that a search by text
\* that is not refused fills its limit; a hybrid search has the best one first.
SavedIsFound == Mem!SavedIsFound /\ Mem!BestComeFirst

\* What breaks off half-way leaves in the cache the beginning of a model, the whole
\* if the server states lengths, and the vault configuration with the key that opens
\* it, unless a save broke off in the middle of its file.
FilesAreWhole == Model!CachedIsWhole /\ Vault!SavedIsReadable

\* A request makes the tasks of the webhooks that accept it.
TasksAreThoseWanted == Hook!TasksAreThoseWanted
=============================================================================
