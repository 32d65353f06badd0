--------------------------- MODULE ProviderCache ---------------------------
(***************************************************************************)
(* The two provider registries (orchestrator/provider_registry.go and      *)
(* provider_registry.go) over one alias: callers find its provider in the  *)
(* cache or make it from its row and its key, while operators change       *)
(* either and invalidate.  That of the orchestrator makes one at a time    *)
(* (singleflight); the other does not.  The key comes from the holder of   *)
(* the secret service, which looks for the vault once.                     *)
(*                                                                         *)
(* A row and a key are the number of their changes.                        *)
(***************************************************************************)
EXTENDS Integers

CONSTANTS
  Callers,
  NoCaller,
  MaxChanges  \* bound: changes of the row, and of the key

ASSUME ProviderCacheAssumption == NoCaller \notin Callers /\ MaxChanges \in Nat

VARIABLES
  single,  \* the registry is that of the orchestrator
  row,     \* table llm_providers: the row of the alias
  key,     \* the secret it names, in the current secrets provider
  cache,   \* the provider cached, if any, and what it was made from
  call,    \* where each caller is, and what it has read
  flight,  \* who makes a provider for all that wait
  holder,  \* the secret service: its once, its provider and the redactor
  own,     \* the registry has a secrets provider of its own, not the holder's
  vault,   \* the vault module has started
  change,  \* a change that has not been followed by its invalidation
  clean    \* no caller was under way at the last one (not in the code)

vars == <<single, row, key, cache, call, flight, holder, own, vault, change, clean>>
operated == <<single, row, key, own, vault, change, clean>>

Versions == 0 .. MaxChanges
Nothing  == [row |-> -1, key |-> -1]
Idle     == [pc |-> "idle", row |-> -1, key |-> -1]
Steps    == {"idle", "load", "join", "wait", "recheck", "key", "make", "store"}

TypeOK ==
  /\ single \in BOOLEAN /\ own \in BOOLEAN /\ vault \in BOOLEAN /\ clean \in BOOLEAN
  /\ row \in Versions /\ key \in Versions
  /\ cache \in [row : Versions \cup {-1}, key : Versions \cup {-1}]
  /\ call \in [Callers -> [pc : Steps, row : Versions \cup {-1}, key : Versions \cup {-1}]]
  /\ flight \in Callers \cup {NoCaller}
  /\ holder \in [once : {"no", "running", "done"}, has : BOOLEAN,
                armed : Versions \cup {-1}, failed : BOOLEAN]
  /\ change \in {"no", "row", "key"}

\* The once may have been spent at boot, by the hook of the root package; that
\* registry keeps what it got there, a provider or none.
Init ==
  /\ single \in BOOLEAN /\ own \in BOOLEAN /\ (single => ~own)
  /\ row = 0 /\ key = 0 /\ cache = Nothing
  /\ call = [c \in Callers |-> Idle] /\ flight = NoCaller
  /\ holder \in [once : {"no", "done"}, has : {FALSE}, armed : {-1}, failed : {FALSE}]
  /\ vault = FALSE /\ change = "no" /\ clean = TRUE

At(c, pc)   == call[c].pc = pc
Goto(c, pc) == call' = [call EXCEPT ![c].pc = pc]

-----------------------------------------------------------------------------
(* GetByAlias and GetDefault *)

\* The cache is looked at first; GetDefault goes to the database at once.
Get(c) ==
  /\ At(c, "idle")
  /\ \/ cache # Nothing /\ UNCHANGED call
     \/ Goto(c, "load")
  /\ UNCHANGED <<cache, flight, holder>> /\ UNCHANGED operated

\* The registry of the root package goes to the key without a singleflight or a
\* second look.
AfterLoad == IF single THEN "join" ELSE "key"

\* No such row, or a failing query, ends the call.
LoadConfig(c) ==
  /\ At(c, "load")
  /\ \/ call' = [call EXCEPT ![c].row = row, ![c].pc = AfterLoad]
     \/ call' = [call EXCEPT ![c] = Idle]
  /\ UNCHANGED <<cache, flight, holder>> /\ UNCHANGED operated

\* Variant: everyone goes alone.
JoinAlone(c) ==
  /\ At(c, "join")
  /\ Goto(c, "recheck") /\ flight' = c
  /\ UNCHANGED <<cache, holder>> /\ UNCHANGED operated

\* sflight.Do: the first one makes the provider, the others wait for his.
Join(c) ==
  /\ At(c, "join")
  /\ \/ flight = NoCaller /\ Goto(c, "recheck") /\ flight' = c
     \/ flight # NoCaller /\ Goto(c, "wait") /\ UNCHANGED flight
  /\ UNCHANGED <<cache, holder>> /\ UNCHANGED operated

\* The end of a creation, good or bad: all who wait return with it.
Land(c) ==
  /\ call' = [d \in Callers |->
                IF d = c \/ (flight = c /\ At(d, "wait")) THEN Idle ELSE call[d]]
  /\ flight' = IF flight = c THEN NoCaller ELSE flight

Recheck(c) ==
  /\ At(c, "recheck")
  /\ \/ cache # Nothing /\ Land(c)
     \/ cache = Nothing /\ Goto(c, "key") /\ UNCHANGED flight
  /\ UNCHANGED <<cache, holder>> /\ UNCHANGED operated

-----------------------------------------------------------------------------
(* The key: Get of what the accessor returns, the holder's provider as a rule *)

Asks(c) == At(c, "key") /\ single /\ ~own

\* The first caller that asks, or the first redaction, takes the once and looks.
Look ==
  /\ holder.once = "no"
  /\ holder' = [holder EXCEPT !.once = "running", !.has = vault]
  /\ UNCHANGED <<cache, call, flight>> /\ UNCHANGED operated

\* LoadFromProvider gives the redactor the key as it is now; it may fail, which
\* is dropped, and what is rotated later nobody gives it.
Arm ==
  /\ holder.once = "running"
  /\ \/ ~holder.has /\ holder' = [holder EXCEPT !.once = "done"]
     \/ holder.has /\ holder' = [holder EXCEPT !.once = "done", !.armed = key]
     \/ holder.has /\ holder' = [holder EXCEPT !.once = "done", !.failed = TRUE]
  /\ UNCHANGED <<cache, call, flight>> /\ UNCHANGED operated

\* Variant: the caller does not wait for the once.
ResolveKeyAtOnce(c) ==
  /\ At(c, "key")
  /\ LET has == own \/ (Asks(c) /\ holder.has)
     IN  \/ call' = [call EXCEPT ![c].key = IF has THEN key ELSE -1, ![c].pc = "make"]
            /\ UNCHANGED flight
         \/ has /\ Land(c)
  /\ UNCHANGED <<cache, holder>> /\ UNCHANGED operated

\* Without a provider the key stays empty; a key that cannot be read fails all.
ResolveKey(c) ==
  /\ At(c, "key") /\ (Asks(c) => holder.once = "done")
  /\ LET has == own \/ (Asks(c) /\ holder.has)
     IN  \/ call' = [call EXCEPT ![c].key = IF has THEN key ELSE -1, ![c].pc = "make"]
            /\ UNCHANGED flight
         \/ has /\ Land(c)
  /\ UNCHANGED <<cache, holder>> /\ UNCHANGED operated

\* The factory of the row's type, which may be unknown or fail.
Make(c) ==
  /\ At(c, "make")
  /\ \/ Goto(c, "store") /\ UNCHANGED flight
     \/ Land(c)
  /\ UNCHANGED <<cache, holder>> /\ UNCHANGED operated

Store(c) ==
  /\ At(c, "store")
  /\ cache' = [row |-> call[c].row, key |-> call[c].key]
  /\ Land(c)
  /\ UNCHANGED holder /\ UNCHANGED operated

-----------------------------------------------------------------------------
(* Operators *)

StartVault ==
  /\ ~vault /\ vault' = TRUE
  /\ UNCHANGED <<single, row, key, cache, call, flight, holder, own, change, clean>>

ChangeRow ==
  /\ change = "no" /\ row < MaxChanges
  /\ row' = row + 1 /\ change' = "row"
  /\ UNCHANGED <<single, key, cache, call, flight, holder, own, vault, clean>>

RotateSecret ==
  /\ change = "no" /\ key < MaxChanges
  /\ key' = key + 1 /\ change' = "key"
  /\ UNCHANGED <<single, row, cache, call, flight, holder, own, vault, clean>>

Emptied ==
  /\ cache' = Nothing /\ change' = "no"
  /\ clean' = \A c \in Callers : At(c, "idle")

\* InvalidateCacheAlias or InvalidateCache.
Invalidate ==
  /\ change # "no"
  /\ Emptied
  /\ UNCHANGED <<single, row, key, call, flight, holder, own, vault>>

\* It looks in the database for the aliases of the secret, and is silent when
\* that fails.
InvalidateBySecret ==
  /\ change = "key" /\ single
  /\ \/ Emptied
     \/ change' = "no" /\ clean' = FALSE /\ UNCHANGED cache
  /\ UNCHANGED <<single, row, key, call, flight, holder, own, vault>>

\* UpdateSecretsProvider: a provider with other keys, and an empty cache, in one
\* critical section.
UpdateSecretsProvider ==
  /\ change = "no" /\ single /\ key < MaxChanges
  /\ key' = key + 1 /\ own' = TRUE
  /\ Emptied
  /\ UNCHANGED <<single, row, call, flight, holder, vault>>

Step(c) ==
  \/ LoadConfig(c) \/ Join(c) \/ Recheck(c) \/ ResolveKey(c) \/ Make(c) \/ Store(c)

Next ==
  \/ \E c \in Callers : Get(c) \/ Step(c)
  \/ Look \/ Arm \/ StartVault \/ ChangeRow \/ RotateSecret
  \/ Invalidate \/ InvalidateBySecret \/ UpdateSecretsProvider

\* A goroutine that can go on does; queries and factories return.
Fairness ==
  /\ \A c \in Callers : WF_vars(Step(c))
  /\ WF_vars(Arm) /\ WF_vars((\E c \in Callers : Asks(c)) /\ Look)

Spec == Init /\ [][Next]_vars /\ Fairness

-----------------------------------------------------------------------------
(* Properties *)

\* The orchestrator's registry has one creation of the alias under way at a
\* time, whatever fails, is invalidated or is cached in between.
OneCreation ==
  single => \A c, d \in {e \in Callers : call[e].pc \in {"recheck", "key", "make", "store"}} :
              c = d

\* After an invalidation that no call overlapped, what is cached was made from
\* the row and the key of that time or later.
FreshAfterQuietInvalidation ==
  change = "no" /\ clean /\ cache # Nothing =>
    cache.row = row /\ cache.key \in {key, -1}

\* A key the redactor was loaded with, or a later one.
LoadedOrLater(k) == holder.armed # -1 /\ k >= holder.armed

\* A key of the holder's is in use, by a caller or in the cache, only after the
\* redactor was loaded, whoever of callers and redactions looked first.  It lacks
\* the key then only if it was rotated since, or if the load failed.  Of a registry
\* with a secrets provider of its own nothing is said: nobody arms for it.
ArmedBeforeUse ==
  own \/ holder.failed \/ \A k \in {call[c].key : c \in Callers} \cup {cache.key} :
                             k # -1 => LoadedOrLater(k)

\* One creation at a time, no key before the redactor was loaded, and nothing in
\* the cache that is older than an invalidation no call overlapped.
ProvidersAreCurrent == OneCreation /\ ArmedBeforeUse /\ FreshAfterQuietInvalidation

\* Every call returns, those that wait for another's creation too.
EveryCallReturns == \A c \in Callers : ~At(c, "idle") ~> At(c, "idle")
=============================================================================
