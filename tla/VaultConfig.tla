---------------------------- MODULE VaultConfig ----------------------------
(***************************************************************************)
(* The saved configuration of a remote vault (orchestrator/vault_config.go *)
(* and the hook of plugin.go that reads it): a token is encrypted with a   *)
(* key made of the content of a key file, which whoever needs it first     *)
(* writes.  Neither file is written atomically.                            *)
(***************************************************************************)
EXTENDS Integers

CONSTANTS
  Users,   \* goroutines or processes that save, load or delete
  MaxUses  \* bound: saves, loads and deletes; the n-th save is of token n

VARIABLES
  keyfile, \* "absent", what it holds: 0 when empty, or the number of its maker's use
  file,    \* vault-config.json: its token, 0 for a configuration without one, and the key
  user,    \* the users: where each is, its token and the key it has
  uses,    \* how many uses there were
  saved,   \* the token of the save that ended last, -1 after a deletion
  crowded  \* whether two were ever at it at once

vaultvars == <<keyfile, file, user, uses, saved, crowded>>

NoKey   == -1
Absent  == [token |-> -1, key |-> NoKey]
Cut     == [token |-> -2, key |-> NoKey]
Resting == [pc |-> "rest", job |-> "none", token |-> 0, key |-> NoKey]

TypeOK ==
  /\ keyfile \in NoKey .. MaxUses
  /\ file \in [token : -2 .. MaxUses, key : NoKey .. MaxUses]
  /\ user \in [Users -> [pc : {"rest", "key", "make", "write", "use", "fill"}, job : {"none", "save", "load"},
                         token : -2 .. MaxUses, key : NoKey .. MaxUses]]
  /\ uses \in 0 .. MaxUses /\ saved \in -2 .. MaxUses
  /\ crowded \in BOOLEAN

Init ==
  /\ keyfile = NoKey /\ file = Absent
  /\ user = [u \in Users |-> Resting]
  /\ uses = 0 /\ saved = -1
  /\ crowded = FALSE

Busy == {u \in Users : user[u].pc # "rest"}

Begin(u) ==
  /\ user[u].pc = "rest" /\ uses < MaxUses
  /\ uses' = uses + 1
  /\ crowded' = (crowded \/ Busy # {})

Go(u, pc) == user' = [user EXCEPT ![u].pc = pc]
Rest(u)   == user' = [user EXCEPT ![u] = Resting]

-----------------------------------------------------------------------------
\* A token is encrypted first; a configuration without one needs no key.
SaveVaultConfig(u) ==
  /\ Begin(u)
  /\ \E token \in {0, uses'} :
       user' = [user EXCEPT ![u] = [pc |-> IF token = 0 THEN "use" ELSE "key",
                                    job |-> "save", token |-> token, key |-> NoKey]]
  /\ UNCHANGED <<keyfile, file, saved>>

\* No file is no configuration, and one that is cut no JSON: both end at once.
\* A file with a token wants the key.
LoadVaultConfig(u) ==
  /\ Begin(u)
  /\ IF file.token > 0
     THEN user' = [user EXCEPT ![u] = [pc |-> "key", job |-> "load", token |-> file.token, key |-> file.key]]
     ELSE UNCHANGED user
  /\ UNCHANGED <<keyfile, file, saved>>

DeleteVaultConfig(u) ==
  /\ Begin(u)
  /\ file' = Absent /\ saved' = -1
  /\ UNCHANGED <<keyfile, user>>

\* The key file is read, and whatever is in it is key material.  The token
\* loaded can be read with the key it was written with.
ReadKey(u) ==
  /\ user[u].pc = "key" /\ keyfile # NoKey
  /\ IF user[u].job = "load" THEN Rest(u)
     ELSE user' = [user EXCEPT ![u] = [@ EXCEPT !.pc = "use", !.key = keyfile]]
  /\ UNCHANGED <<keyfile, file, uses, saved, crowded>>

\* Variant: every use makes a key.
MakeKeyAnyway(u) ==
  /\ user[u].pc = "key"
  /\ Go(u, "make")
  /\ UNCHANGED <<keyfile, file, uses, saved, crowded>>

\* There is no key file: one is made, by loads too.
MakeKey(u) ==
  /\ user[u].pc = "key" /\ keyfile = NoKey
  /\ Go(u, "make")
  /\ UNCHANGED <<keyfile, file, uses, saved, crowded>>

\* os.WriteFile opens the file, empty, and then writes to it.
OpenKey(u) ==
  /\ user[u].pc = "make"
  /\ keyfile' = 0
  /\ Go(u, "write")
  /\ UNCHANGED <<file, uses, saved, crowded>>

WriteKey(u) ==
  /\ user[u].pc = "write"
  /\ keyfile' = uses
  /\ IF user[u].job = "load" THEN Rest(u)
     ELSE user' = [user EXCEPT ![u] = [@ EXCEPT !.pc = "use", !.key = uses]]
  /\ UNCHANGED <<file, uses, saved, crowded>>

OpenFile(u) ==
  /\ user[u].pc = "use"
  /\ file' = Cut
  /\ Go(u, "fill")
  /\ UNCHANGED <<keyfile, uses, saved, crowded>>

WriteFile(u) ==
  /\ user[u].pc = "fill"
  /\ file' = [token |-> user[u].token, key |-> user[u].key]
  /\ saved' = user[u].token
  /\ Rest(u)
  /\ UNCHANGED <<keyfile, uses, crowded>>

\* The process dies, or a call of the file system fails.
Stop(u) ==
  /\ user[u].pc # "rest"
  /\ Rest(u)
  /\ UNCHANGED <<keyfile, file, uses, saved, crowded>>

Next ==
  \E u \in Users :
    \/ SaveVaultConfig(u) \/ LoadVaultConfig(u) \/ DeleteVaultConfig(u)
    \/ ReadKey(u) \/ MakeKey(u) \/ OpenKey(u) \/ WriteKey(u)
    \/ OpenFile(u) \/ WriteFile(u) \/ Stop(u)

Spec == Init /\ [][Next]_vaultvars

-----------------------------------------------------------------------------
\* A save, load or deletion that stops outside of the writing of the file, with a
\* key made or half made, leaves what was saved last readable: the file holds its
\* token, under the key the key file has.  Promised for none of these: a save that
\* stops while it writes, which leaves the file cut and the old token lost, and two
\* at once, which may leave a token no key opens (SaveVaultConfig, deriveKey).
SavedIsReadable ==
  ~crowded /\ file # Cut => file.token = saved /\ (file.token > 0 => file.key = keyfile)
=============================================================================
