----------------------------- MODULE Containers -----------------------------
(***************************************************************************)
(* The container manager (orchestrator/container_manager.go).  Everything  *)
(* it does is done for one project at a time and projects do not meet, so  *)
(* this is one project: its entry in the cache, its row in the             *)
(* workspace_containers table, its marker in ensureInFlight, and the       *)
(* containers the Docker daemon has under the project's name.              *)
(*                                                                         *)
(* EnsureContainer runs under the marker; StopContainer and                *)
(* RemoveContainer do not, and lock the cache only to take the entry out.  *)
(* Each critical section, Docker call and SQL statement is one step.       *)
(* ExecInContainer and GetContainerStatus change none of this state.       *)
(***************************************************************************)
CONSTANTS
  Callers,   \* concurrent calls of the manager
  Cids,      \* ids the daemon may give to containers
  NoCaller, NoCid

ASSUME ContainersAssumption == NoCaller \notin Callers /\ NoCid \notin Cids

VARIABLES
  docker,    \* the daemon's containers under the name "ratchet-<project>"
  cache,     \* cm.containers[projectID]
  row,       \* the project's row of workspace_containers
  inFlight,  \* whose channel cm.ensureInFlight[projectID] is
  call       \* each caller: where it is, and its local container id

vars == <<docker, cache, row, inFlight, call>>

States   == {"never", "created", "running", "stopped", "removed"}
Ensuring == {"look", "inspect", "forget", "create", "start", "clean",
             "register", "persist", "init"}
Taking   == {"stop", "mark", "remove", "delete"}

Idle  == [pc |-> "idle", cid |-> NoCid]
NoRow == [cid |-> NoCid, status |-> "none"]

TypeOK ==
  /\ docker \in [Cids -> States]
  /\ cache \in Cids \cup {NoCid}
  /\ row \in [cid : Cids \cup {NoCid}, status : {"none", "running", "stopped"}]
  /\ inFlight \in Callers \cup {NoCaller}
  /\ call \in [Callers -> [pc : {"idle", "begin"} \cup Ensuring \cup Taking,
                           cid : Cids \cup {NoCid}]]

Init ==
  /\ docker = [c \in Cids |-> "never"]
  /\ cache = NoCid
  /\ row = NoRow
  /\ inFlight = NoCaller
  /\ call = [p \in Callers |-> Idle]

At(p, pc)      == call[p].pc = pc
Goto(p, pc)    == call' = [call EXCEPT ![p].pc = pc]
Become(c, s)   == docker' = [docker EXCEPT ![c] = s]
Exists(c)      == docker[c] \in {"created", "running", "stopped"}
NameTaken      == \E c \in Cids : Exists(c)

-----------------------------------------------------------------------------
(* EnsureContainer *)

Ensure(p) ==
  /\ At(p, "idle")
  /\ Goto(p, "begin")
  /\ UNCHANGED <<docker, cache, row, inFlight>>

\* beginEnsure: wait until the marker is gone, then put one.
Begin(p) ==
  /\ At(p, "begin")
  /\ inFlight = NoCaller
  /\ inFlight' = p
  /\ Goto(p, "look")
  /\ UNCHANGED <<docker, cache, row>>

\* The context ends while another call holds the marker.
GiveUp(p) ==
  /\ At(p, "begin")
  /\ inFlight # NoCaller
  /\ call' = [call EXCEPT ![p] = Idle]
  /\ UNCHANGED <<docker, cache, row, inFlight>>

\* Variant: an error return that does not run the deferred done().
DoneUnlessFailed(p) ==
  /\ call' = [call EXCEPT ![p] = Idle]
  /\ inFlight' = IF At(p, "clean") THEN inFlight ELSE NoCaller

\* Any return of EnsureContainer: done() takes away the caller's own marker.
Done(p) ==
  /\ call' = [call EXCEPT ![p] = Idle]
  /\ inFlight' = IF inFlight = p THEN NoCaller ELSE inFlight

Look(p) ==
  /\ At(p, "look")
  /\ call' = [call EXCEPT ![p] = [pc |-> IF cache = NoCid THEN "create" ELSE "inspect",
                                  cid |-> cache]]
  /\ UNCHANGED <<docker, cache, row, inFlight>>

\* A cached container that runs is returned; one that does not run, or that
\* cannot be inspected, is to be forgotten.
Inspect(p) ==
  /\ At(p, "inspect")
  /\ \/ docker[call[p].cid] = "running" /\ Done(p)
     \/ Goto(p, "forget") /\ UNCHANGED inFlight
  /\ UNCHANGED <<docker, cache, row>>

\* Variant: leaves the entry to be overwritten.
ForgetLater(p) ==
  /\ At(p, "forget")
  /\ Goto(p, "create")
  /\ UNCHANGED <<docker, cache, row, inFlight>>

Forget(p) ==
  /\ At(p, "forget")
  /\ cache' = IF cache = call[p].cid THEN NoCid ELSE cache
  /\ Goto(p, "create")
  /\ UNCHANGED <<docker, row, inFlight>>

\* The daemon gives out a fresh id, if no container has the name.
Create(p) ==
  /\ At(p, "create")
  /\ ~NameTaken
  /\ \E c \in Cids :
       /\ docker[c] = "never"
       /\ Become(c, "created")
       /\ call' = [call EXCEPT ![p] = [pc |-> "start", cid |-> c]]
  /\ UNCHANGED <<cache, row, inFlight>>

\* The image cannot be had, a mount is refused, the name is taken, the daemon
\* does not answer.
CreateFails(p) ==
  /\ At(p, "create")
  /\ Done(p)
  /\ UNCHANGED <<docker, cache, row>>

\* Variant: registers whether it started or not.
StartUnchecked(p) ==
  /\ At(p, "start")
  /\ \/ docker[call[p].cid] = "created" /\ Become(call[p].cid, "running")
     \/ UNCHANGED docker
  /\ Goto(p, "register")
  /\ UNCHANGED <<cache, row, inFlight>>

Start(p) ==
  /\ At(p, "start")
  /\ \/ /\ docker[call[p].cid] = "created"
        /\ Become(call[p].cid, "running")
        /\ Goto(p, "register")
     \/ Goto(p, "clean") /\ UNCHANGED docker
  /\ UNCHANGED <<cache, row, inFlight>>

\* The forced removal after a failed start, which may fail in its turn.
Clean(p) ==
  /\ At(p, "clean")
  /\ \/ Exists(call[p].cid) /\ Become(call[p].cid, "removed")
     \/ UNCHANGED docker
  /\ Done(p)
  /\ UNCHANGED <<cache, row>>

Register(p) ==
  /\ At(p, "register")
  /\ cache' = call[p].cid
  /\ Goto(p, "persist")
  /\ UNCHANGED <<docker, row, inFlight>>

\* INSERT OR REPLACE; its failure is ignored.
Persist(p) ==
  /\ At(p, "persist")
  /\ \/ row' = [cid |-> call[p].cid, status |-> "running"]
     \/ UNCHANGED row
  /\ Goto(p, "init")
  /\ UNCHANGED <<docker, cache, inFlight>>

\* The init commands run, for what they are worth, and the id is returned.
InitCommands(p) ==
  /\ At(p, "init")
  /\ Done(p)
  /\ UNCHANGED <<docker, cache, row>>

-----------------------------------------------------------------------------
(* StopContainer, RemoveContainer *)

\* Variant: reads the entry and leaves it there until the daemon has answered.
TakeLater(p, next) ==
  /\ At(p, "idle")
  /\ cache # NoCid
  /\ call' = [call EXCEPT ![p] = [pc |-> next, cid |-> cache]]
  /\ UNCHANGED <<docker, cache, row, inFlight>>

\* One critical section takes the entry out of the cache; without one the call
\* is an error.
Take(p, next) ==
  /\ At(p, "idle")
  /\ cache # NoCid
  /\ cache' = NoCid
  /\ call' = [call EXCEPT ![p] = [pc |-> next, cid |-> cache]]
  /\ UNCHANGED <<docker, row, inFlight>>

\* ContainerStop; after an error the call returns, and the entry stays out.
Stop(p) ==
  /\ At(p, "stop")
  /\ \/ /\ Exists(call[p].cid)
        /\ docker' = [docker EXCEPT ![call[p].cid] = "stopped"]
        /\ Goto(p, "mark")
     \/ call' = [call EXCEPT ![p] = Idle] /\ UNCHANGED docker
  /\ UNCHANGED <<cache, row, inFlight>>

\* UPDATE ... SET status = 'stopped' WHERE project_id = ?
Mark(p) ==
  /\ At(p, "mark")
  /\ \/ row.status # "none" /\ row' = [row EXCEPT !.status = "stopped"]
     \/ UNCHANGED row
  /\ call' = [call EXCEPT ![p] = Idle]
  /\ UNCHANGED <<docker, cache, inFlight>>

Remove(p) ==
  /\ At(p, "remove")
  /\ \/ Exists(call[p].cid) /\ Become(call[p].cid, "removed") /\ Goto(p, "delete")
     \/ call' = [call EXCEPT ![p] = Idle] /\ UNCHANGED docker
  /\ UNCHANGED <<cache, row, inFlight>>

\* DELETE ... WHERE project_id = ?
Delete(p) ==
  /\ At(p, "delete")
  /\ \/ row' = NoRow
     \/ UNCHANGED row
  /\ call' = [call EXCEPT ![p] = Idle]
  /\ UNCHANGED <<docker, cache, inFlight>>

-----------------------------------------------------------------------------
(* The world *)

\* A container exits by itself, or someone removes it behind the manager.
Exits(c) ==
  /\ docker[c] = "running"
  /\ Become(c, "stopped")
  /\ UNCHANGED <<cache, row, inFlight, call>>

Vanishes(c) ==
  /\ Exists(c)
  /\ Become(c, "removed")
  /\ UNCHANGED <<cache, row, inFlight, call>>

\* NewContainerManager loads the rows that say running.
Reload ==
  /\ cache' = IF row.status = "running" THEN row.cid ELSE NoCid
  /\ inFlight' = NoCaller
  /\ call' = [p \in Callers |-> Idle]

\* The process dies and comes back.
Restart == Reload /\ UNCHANGED <<docker, row>>

\* The process stops in order: Close stops what is cached, then it comes back.
Close ==
  /\ cache # NoCid /\ Exists(cache)
  /\ docker' = [docker EXCEPT ![cache] = "stopped"]
  /\ Reload
  /\ UNCHANGED row

-----------------------------------------------------------------------------

EnsureStep(p) ==
  \/ Look(p) \/ Inspect(p) \/ Forget(p) \/ Create(p) \/ CreateFails(p)
  \/ Start(p) \/ Clean(p) \/ Register(p) \/ Persist(p) \/ InitCommands(p)

TakeStep(p) == Stop(p) \/ Mark(p) \/ Remove(p) \/ Delete(p)

Next ==
  \/ \E p \in Callers :
       \/ Ensure(p) \/ Begin(p) \/ GiveUp(p) \/ EnsureStep(p)
       \/ Take(p, "stop") \/ Take(p, "remove") \/ TakeStep(p)
  \/ \E c \in Cids : Exits(c) \/ Vanishes(c)
  \/ Restart \/ Close

Spec == Init /\ [][Next]_vars

\* A call under way goes on: Docker calls return, one way or the other.
FairSpec == Spec /\ \A p \in Callers : WF_vars(EnsureStep(p)) /\ WF_vars(TakeStep(p))

-----------------------------------------------------------------------------
(* Properties *)

\* EnsureContainer is serialised by hand, with a map of channels instead of a
\* lock: whoever is inside it put the marker, and it is still there.
OneEnsure == \A p \in Callers : call[p].pc \in Ensuring => inFlight = p

\* What the manager knows of, in the cache or through a row it would load at its
\* next start, is a container whose start succeeded.
KnownWereStarted ==
  /\ cache # NoCid => docker[cache] \notin {"never", "created"}
  /\ row.status = "running" => row.cid # NoCid /\ docker[row.cid] \notin {"never", "created"}

\* A container being created takes the place of none: no entry is lost from the
\* cache by being overwritten, so stop and remove reach every container that
\* was registered, whatever they raced with.
NothingIsOverwritten ==
  \A p \in Callers : call[p].pc \in {"create", "start", "clean", "register"} => cache = NoCid

\* A stop or a removal owns its container: no other call is stopping or removing
\* it, and commands are no longer sent to it.
TakenOnce ==
  \A p \in Callers : call[p].pc \in Taking =>
    /\ call[p].cid # cache
    /\ \A q \in Callers \ {p} : call[q].pc \in Taking => call[q].cid # call[p].cid

\* The marker is always taken away again: no return of EnsureContainer leaves
\* the project locked.
MarkerIsReleased == inFlight # NoCaller ~> inFlight = NoCaller

\* What EnsureContainer's comment promises: it "creates or reuses a container for
\* the given project".  For a project that was stopped, a call that finds none to
\* reuse is able to create one.
CreatesOrReuses ==
  row.status = "stopped" => \A p \in Callers : At(p, "create") => ~NameTaken
=============================================================================
