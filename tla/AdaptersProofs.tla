--------------------------- MODULE AdaptersProofs ---------------------------
(***************************************************************************)
(* The safety properties of the parts that drive another process: the      *)
(* Docker daemon (Containers), MCP and ACP servers, a terminal, the daemon *)
(* of the SDK, a tester, and the token service of ChatGPT (MCAdapters).    *)
(* They hold for any number of callers, processes and connections.         *)
(*                                                                         *)
(* The adapters stand side by side and share no variable, so each has an   *)
(* inductive invariant of its own, which the steps of the others leave     *)
(* alone (OneAdapterMoves): who holds the lock, whose request, update or   *)
(* job is on its way, and what that says of the answer that comes back.    *)
(***************************************************************************)
EXTENDS Containers, MCAdapters, SequenceTheorems, FiniteSetTheorems, WellFoundedInduction, TLAPS

-----------------------------------------------------------------------------
(* The containers.  Their properties are inductive once the invariant also  *)
(* says what the container in a caller's hands is: one that is being        *)
(* started is in nobody else's hands, one that was found in the cache is    *)
(* still there or nothing is, and one that is registered, recorded, stopped *)
(* or removed was started.                                                  *)

\* Callers whose container is not in the cache yet.
Starting == {"start", "clean", "register"}

Started(c) == docker[c] \notin {"never", "created"}

\* What a caller holds, by where it is.
InHand ==
  \A p \in Callers :
    /\ call[p].pc \in Starting =>
         /\ call[p].cid \in Cids /\ docker[call[p].cid] # "never"
         /\ \A q \in Callers : call[q].pc \in Taking => call[q].cid # call[p].cid
    /\ call[p].pc \in {"register", "persist"} =>
         call[p].cid \in Cids /\ Started(call[p].cid)
    /\ call[p].pc \in {"inspect", "forget"} => cache \in {NoCid, call[p].cid}
    /\ call[p].pc \in Taking => call[p].cid \in Cids /\ Started(call[p].cid)

ContainersInv == TypeOK /\ OneEnsure /\ KnownWereStarted /\ NothingIsOverwritten /\ TakenOnce /\ InHand

\* A manager started on an empty table satisfies the invariant.
LEMMA InitContainersInv == Init => ContainersInv
  BY DEF Init, ContainersInv, TypeOK, OneEnsure, KnownWereStarted, NothingIsOverwritten, TakenOnce,
         InHand, Idle, NoRow, States, Ensuring, Taking, Starting

\* Every step of a call, of the daemon or of the process keeps it.
LEMMA StepContainersInv == ContainersInv /\ [Next]_vars => ContainersInv'
<1> SUFFICES ASSUME ContainersInv, [Next]_vars PROVE ContainersInv'
  OBVIOUS
<1> USE ContainersAssumption
    DEF ContainersInv, TypeOK, OneEnsure, KnownWereStarted, NothingIsOverwritten, TakenOnce, InHand,
        States, Ensuring, Taking, Starting, Started
<1>1. ASSUME NEW p \in Callers,
             Ensure(p) \/ Begin(p) \/ GiveUp(p) \/ EnsureStep(p) \/ TakeStep(p)
      PROVE  ContainersInv'
  <2>1. CASE Ensure(p)
    BY <2>1 DEF Ensure, At, Goto
  <2>2. CASE Begin(p)
    BY <2>2 DEF Begin, At, Goto
  <2>3. CASE GiveUp(p)
    BY <2>3 DEF GiveUp, At, Goto, Idle
  <2>4. CASE Look(p)
    BY <2>4 DEF Look, At, Goto
  <2>5. CASE Inspect(p)
    BY <2>5 DEF Inspect, At, Goto, Done, Idle
  <2>6. CASE Forget(p)
    BY <2>6 DEF Forget, At, Goto
  <2>7. CASE Create(p)
    BY <2>7 DEF Create, At, Goto, Become
  <2>8. CASE CreateFails(p)
    BY <2>8 DEF CreateFails, At, Goto, Done, Idle
  <2>9. CASE Start(p)
    <3>1. CASE Goto(p, "clean") /\ UNCHANGED docker
      BY <2>9, <3>1 DEF Start, At, Goto
    <3>2. CASE Become(call[p].cid, "running") /\ Goto(p, "register")
      <4>1. call[p].cid \in Cids /\ inFlight = p /\ cache = NoCid
        BY <2>9 DEF Start, At
      <4> QED
        BY <2>9, <3>2, <4>1 DEF Start, At, Goto, Become
    <3> QED
      BY <2>9, <3>1, <3>2 DEF Start
  <2>10. CASE Clean(p)
    BY <2>10 DEF Clean, At, Goto, Become, Done, Idle, Exists
  <2>11. CASE Register(p)
    BY <2>11 DEF Register, At, Goto
  <2>12. CASE Persist(p)
    BY <2>12 DEF Persist, At, Goto
  <2>13. CASE InitCommands(p)
    BY <2>13 DEF InitCommands, At, Goto, Done, Idle
  <2>14. CASE Stop(p)
    <3>1. CASE call' = [call EXCEPT ![p] = Idle] /\ UNCHANGED docker
      BY <2>14, <3>1 DEF Stop, At, Idle
    <3>2. CASE docker' = [docker EXCEPT ![call[p].cid] = "stopped"] /\ Goto(p, "mark")
      BY <2>14, <3>2 DEF Stop, At, Goto
    <3> QED
      BY <2>14, <3>1, <3>2 DEF Stop
  <2>15. CASE Mark(p)
    BY <2>15, SMTT(20) DEF Mark, At, Goto, Idle
  <2>16. CASE Remove(p)
    BY <2>16, SMTT(20) DEF Remove, At, Goto, Exists, Become, Idle
  <2>17. CASE Delete(p)
    BY <2>17 DEF Delete, At, Goto, Idle, NoRow
  <2> QED
    BY <1>1, <2>1, <2>2, <2>3, <2>4, <2>5, <2>6, <2>7, <2>8, <2>9, <2>10, <2>11, <2>12, <2>13, <2>14, <2>15, <2>16, <2>17 DEF EnsureStep, TakeStep
<1>2. ASSUME NEW p \in Callers, Take(p, "stop") \/ Take(p, "remove") PROVE ContainersInv'
  BY <1>2 DEF Take, At
<1>3. ASSUME NEW c \in Cids, Exits(c) \/ Vanishes(c) PROVE ContainersInv'
  BY <1>3 DEF Exits, Vanishes, Become, Exists
<1>4. CASE Restart \/ Close
  BY <1>4 DEF Restart, Close, Reload, Idle
<1>5. CASE UNCHANGED vars
  BY <1>5 DEF vars
<1> QED
  BY <1>1, <1>2, <1>3, <1>4, <1>5 DEF Next

-----------------------------------------------------------------------------
(* What holds of containers                                                  *)

\* In every reachable state the cache, the row, the marker and what each call
\* holds agree.
THEOREM ContainersInductive == Spec => []ContainersInv
  BY InitContainersInv, StepContainersInv, PTL DEF Spec

\* Every variable keeps its type.
THEOREM ContainersTypes == Spec => []TypeOK
  BY ContainersInductive, PTL DEF ContainersInv

\* beginEnsure's map of channels excludes: one call at a time is inside
\* EnsureContainer.
THEOREM EnsuresAreSerialised == Spec => []OneEnsure
  BY ContainersInductive, PTL DEF ContainersInv

\* The cache, and a row that a restart would load, name containers that were
\* started.
THEOREM KnownContainersWereStarted == Spec => []KnownWereStarted
  BY ContainersInductive, PTL DEF ContainersInv

\* A container on its way into the cache overwrites no other entry.
THEOREM NoEntryIsLost == Spec => []NothingIsOverwritten
  BY ContainersInductive, PTL DEF ContainersInv

\* StopContainer and RemoveContainer own the container they took out.
THEOREM TakenContainersAreOwned == Spec => []TakenOnce
  BY ContainersInductive, PTL DEF ContainersInv

-----------------------------------------------------------------------------
(* The adapters stand side by side: while one moves the rest of them stay. *)

LEMMA OneAdapterMoves ==
  ASSUME [AdaptersNext]_allvars
  PROVE  /\ Mcp!Next \/ UNCHANGED mcpvars
         /\ Acp!Next \/ UNCHANGED acpvars
         /\ Pty!Next \/ UNCHANGED ptyvars
         /\ Sdk!Next \/ UNCHANGED daemonvars
         /\ Test!Next \/ UNCHANGED testvars
         /\ Gpt!Next \/ UNCHANGED gptvars
BY DEF AdaptersNext, allvars

-----------------------------------------------------------------------------
(* The tokens of ChatGPT *)

\* Whoever is at the token service has the mutex.
Refreshing == \A c \in GptCalls : gpt[c].pc \in {"refresh", "answer"} => gptmu = {c}

\* The service has given out what it spends, what is kept, and what it is shown
\* and answers; it spends nothing unless it rotates.
TokensWereGiven ==
  /\ issued.spent \subseteq 0 .. issued.latest /\ tokens.refresh <= issued.latest
  /\ ~rotating => issued.spent = {}
  /\ \A c \in GptCalls :
       /\ gpt[c].pc = "refresh" => gpt[c].reply = tokens.refresh
       /\ gpt[c].pc = "answer" => gpt[c].reply <= issued.latest

\* As long as no answer is lost, a token is good that is kept, unless the answer
\* that replaces it is on its way, and so is the one that is shown.
TokensAreGood ==
  ~lost =>
    /\ tokens.refresh \notin issued.spent \/ \E c \in GptCalls : gpt[c].pc = "answer"
    /\ \A c \in GptCalls : gpt[c].pc = "answer" => gpt[c].reply \notin issued.spent

TokensInv == Gpt!TypeOK /\ Refreshing /\ TokensWereGiven /\ TokensAreGood

GptCall == [pc : Gpt!Pcs, access : Gpt!Bundles, reply : Gpt!Bundles,
            chan : Seq(Gpt!Events), last : Gpt!Events \cup {"none"}]

\* A step of a call that stays away from the service leaves the tokens alone.
LEMMA TokensKept ==
  ASSUME TokensInv, NEW c \in GptCalls, NEW r \in GptCall, gpt' = [gpt EXCEPT ![c] = r],
         UNCHANGED <<rotating, issued, clock, lost, gptmu, tokens>>,
         gpt[c].pc \notin {"refresh", "answer"}, r.pc \notin {"refresh", "answer"}
  PROVE  TokensInv'
<1>0. /\ gpt \in [GptCalls -> GptCall] /\ gpt' \in [GptCalls -> GptCall] /\ gpt'[c] = r
      /\ \A d \in GptCalls : d # c => gpt'[d] = gpt[d]
  BY DEF GptCall, TokensInv, Gpt!TypeOK
<1>1. Gpt!TypeOK' BY <1>0 DEF GptCall, TokensInv, Gpt!TypeOK
<1>2. Refreshing' BY <1>0 DEF Refreshing, TokensInv
<1>3. TokensWereGiven' BY <1>0 DEF TokensWereGiven, TokensInv
<1>4. TokensAreGood' BY <1>0 DEF TokensAreGood, TokensInv
<1> QED BY <1>1, <1>2, <1>3, <1>4 DEF TokensInv

LEMMA TokensStep == ASSUME TokensInv, Gpt!Next PROVE TokensInv'
<1> USE AdaptersAssumption
<1>0. gpt \in [GptCalls -> GptCall] BY DEF TokensInv, Gpt!TypeOK, GptCall
<1>1. CASE Gpt!Age
  <2>1. clock' \in Gpt!Bundles BY <1>1 DEF Gpt!Age, TokensInv, Gpt!TypeOK, Gpt!Bundles
  <2> QED BY <1>1, <2>1 DEF Gpt!Age, TokensInv, Gpt!TypeOK, Refreshing, TokensWereGiven, TokensAreGood
<1>2. ASSUME NEW c \in GptCalls, Gpt!CallNext(c) PROVE TokensInv'
  <2>0. gpt[c] \in GptCall BY <1>0
  <2>1. CASE Gpt!Call(c) \/ Gpt!Hopeless(c) \/ Gpt!Send(c)
    <3>1. PICK pc \in {"lock", "failed", "done", "stream"} :
            gpt' = [gpt EXCEPT ![c] = [gpt[c] EXCEPT !.pc = pc]]
      BY <2>1 DEF Gpt!Call, Gpt!Hopeless, Gpt!Send, Gpt!Goto
    <3>2. PICK r : r = [gpt[c] EXCEPT !.pc = pc] OBVIOUS
    <3>3. r \in GptCall /\ r.pc = pc BY <2>0, <3>2 DEF GptCall, Gpt!Pcs, Gpt!Ended
    <3>4. gpt[c].pc \in {"idle", "lock", "send"} /\ UNCHANGED <<rotating, issued, clock, lost, gptmu, tokens>>
      BY <2>1 DEF Gpt!Call, Gpt!Hopeless, Gpt!Send
    <3> QED BY <3>1, <3>2, <3>3, <3>4, TokensKept
  <2>2. CASE Gpt!Good(c)
    <3>1. PICK r : r = [gpt[c] EXCEPT !.pc = "send", !.access = tokens.access] OBVIOUS
    <3>2. r \in GptCall /\ r.pc = "send" BY <2>0, <3>1 DEF GptCall, Gpt!Pcs, TokensInv, Gpt!TypeOK
    <3>3. gpt' = [gpt EXCEPT ![c] = r] BY <2>2, <3>1 DEF Gpt!Good
    <3> QED BY <2>2, <3>2, <3>3, TokensKept DEF Gpt!Good
  <2>3. CASE Gpt!Emit(c)
    <3>1. PICK event \in Gpt!Events :
            gpt' = [gpt EXCEPT ![c] = [gpt[c] EXCEPT !.chan = Append(gpt[c].chan, event), !.last = event]]
      BY <2>3 DEF Gpt!Emit, Gpt!Put, Gpt!Events
    <3>2. PICK r : r = [gpt[c] EXCEPT !.chan = Append(gpt[c].chan, event), !.last = event] BY Zenon
    <3>4. gpt[c].chan \in Seq(Gpt!Events) BY <2>0 DEF GptCall
    <3>5. Append(gpt[c].chan, event) \in Seq(Gpt!Events) BY ONLY <3>4, event \in Gpt!Events
    <3>6. \A q \in Seq(Gpt!Events) : [gpt[c] EXCEPT !.chan = q, !.last = event] \in GptCall
      BY <2>0 DEF GptCall
    <3>3. r \in GptCall /\ r.pc = "stream"
      <4>1. r \in GptCall BY ONLY <3>2, <3>5, <3>6, Zenon
      <4>2. r.pc = gpt[c].pc BY ONLY <2>0, <3>2, Zenon DEF GptCall
      <4> QED BY <2>3, <4>1, <4>2 DEF Gpt!Emit
    <3> QED BY <2>3, <3>1, <3>2, <3>3, TokensKept DEF Gpt!Emit
  <2>4. CASE Gpt!Close(c)
    <3>1. PICK r : r = [gpt[c] EXCEPT !.last = "closed"] OBVIOUS
    <3>2. r \in GptCall /\ r.pc = "stream" BY <2>0, <2>4, <3>1 DEF GptCall, Gpt!Close, Gpt!Events
    <3> QED BY <2>4, <3>1, <3>2, TokensKept DEF Gpt!Close
  <2>5. CASE Gpt!Take(c)
    <3>1. CASE gpt[c].chan # <<>> /\ gpt' = [gpt EXCEPT ![c] = [gpt[c] EXCEPT !.chan = Tail(gpt[c].chan)]]
      <4>1. PICK r : r = [gpt[c] EXCEPT !.chan = Tail(gpt[c].chan)] BY Zenon
      <4>3. gpt[c].chan \in Seq(Gpt!Events) BY <2>0 DEF GptCall
      <4>4. Tail(gpt[c].chan) \in Seq(Gpt!Events) BY ONLY <3>1, <4>3
      <4>5. \A q \in Seq(Gpt!Events) : [gpt[c] EXCEPT !.chan = q] \in GptCall BY <2>0 DEF GptCall
      <4>2. r \in GptCall /\ r.pc = "stream"
        <5>1. r \in GptCall BY ONLY <4>1, <4>4, <4>5, Zenon
        <5>2. r.pc = gpt[c].pc BY ONLY <2>0, <4>1, Zenon DEF GptCall
        <5> QED BY <2>5, <5>1, <5>2 DEF Gpt!Take
      <4> QED BY <2>5, <3>1, <4>1, <4>2, TokensKept DEF Gpt!Take
    <3>2. CASE gpt' = [gpt EXCEPT ![c] = [gpt[c] EXCEPT !.pc = "done", !.last = "none"]]
      <4>1. PICK r : r = [gpt[c] EXCEPT !.pc = "done", !.last = "none"] OBVIOUS
      <4>2. r \in GptCall /\ r.pc = "done" BY <2>0, <4>1 DEF GptCall, Gpt!Pcs, Gpt!Ended
      <4> QED BY <2>5, <3>2, <4>1, <4>2, TokensKept DEF Gpt!Take
    <3> QED BY <2>5, <3>1, <3>2 DEF Gpt!Take
  <2>6. CASE Gpt!Ask(c)
    <3>1. PICK r : r = [gpt[c] EXCEPT !.pc = "refresh", !.reply = tokens.refresh] OBVIOUS
    <3>2. r \in GptCall /\ r.pc = "refresh" /\ r.reply = tokens.refresh
      BY <2>0, <3>1 DEF GptCall, Gpt!Pcs, TokensInv, Gpt!TypeOK
    <3>3. gpt' = [gpt EXCEPT ![c] = r] BY <2>6, <3>1 DEF Gpt!Ask
    <3>4. /\ gpt' \in [GptCalls -> GptCall] /\ gpt'[c] = r
          /\ \A d \in GptCalls : d # c => gpt'[d] = gpt[d]
      BY <1>0, <3>2, <3>3
    <3>5. Gpt!TypeOK' BY <2>6, <3>4 DEF GptCall, TokensInv, Gpt!TypeOK, Gpt!Ask
    <3>6. \A d \in GptCalls : gpt[d].pc \notin {"refresh", "answer"}
      BY <2>6 DEF Gpt!Ask, TokensInv, Refreshing
    <3>7. Refreshing' BY <2>6, <3>2, <3>4, <3>6 DEF Refreshing, Gpt!Ask
    <3>8. TokensWereGiven' BY <2>6, <3>2, <3>4, <3>6 DEF TokensWereGiven, TokensInv, Gpt!Ask
    <3>9. TokensAreGood' BY <2>6, <3>2, <3>4, <3>6 DEF TokensAreGood, TokensInv, Gpt!Ask
    <3> QED BY <3>5, <3>7, <3>8, <3>9 DEF TokensInv
  <2>7. CASE Gpt!Serve(c)
    <3>1. PICK r : r = [gpt[c] EXCEPT !.pc = "answer", !.reply = issued.latest + 1] OBVIOUS
    <3>0. issued.latest \in 0 .. MaxBundles /\ issued.latest + 1 \in Gpt!Bundles
          /\ gpt[c].reply \in Gpt!Bundles /\ tokens.refresh \in 0 .. MaxBundles
      BY <2>0, <2>7, SMTT(20) DEF GptCall, TokensInv, Gpt!TypeOK, Gpt!Serve, Gpt!Bundles
    <3>2. r \in GptCall /\ r.pc = "answer" /\ r.reply = issued.latest + 1
      BY <2>0, <3>0, <3>1 DEF GptCall, Gpt!Pcs
    <3>3. gpt' = [gpt EXCEPT ![c] = r] BY <2>7, <3>1 DEF Gpt!Serve
    <3>4. /\ gpt' \in [GptCalls -> GptCall] /\ gpt'[c] = r
          /\ \A d \in GptCalls : d # c => gpt'[d] = gpt[d]
      BY <1>0, <3>2, <3>3
    <3>5. /\ issued'.latest = issued.latest + 1
          /\ issued'.spent = IF rotating THEN issued.spent \cup {gpt[c].reply} ELSE issued.spent
          /\ issued' \in [latest : Gpt!Bundles, spent : SUBSET Gpt!Bundles]
      BY <2>7, <3>0 DEF Gpt!Serve, TokensInv, Gpt!TypeOK
    <3>6. Gpt!TypeOK' BY <2>7, <3>4, <3>5 DEF GptCall, TokensInv, Gpt!TypeOK, Gpt!Serve
    <3>7. gpt[c].pc = "refresh" /\ gptmu = {c}
          /\ \A d \in GptCalls : d # c => gpt[d].pc \notin {"refresh", "answer"}
      BY <2>7 DEF Gpt!Serve, TokensInv, Refreshing
    <3>8. Refreshing' BY <2>7, <3>2, <3>4, <3>7 DEF Refreshing, Gpt!Serve
    <3>9. TokensWereGiven'
      <4>1. UNCHANGED <<rotating, tokens>> /\ gpt[c].reply = tokens.refresh
        BY <2>7, <3>7 DEF TokensWereGiven, TokensInv, Gpt!Serve
      <4> QED BY <3>0, <3>2, <3>4, <3>5, <3>7, <4>1 DEF TokensWereGiven, TokensInv
    <3>10. gpt[c].reply <= issued.latest BY <3>7 DEF TokensWereGiven, TokensInv
    <3>11. TokensAreGood'
      <4>1. r.reply \notin issued'.spent
        BY <3>0, <3>2, <3>5, <3>10 DEF TokensWereGiven, TokensInv
      <4> QED BY <3>2, <3>4, <3>7, <4>1 DEF TokensAreGood
    <3> QED BY <3>6, <3>8, <3>9, <3>11 DEF TokensInv
  <2>8. CASE Gpt!Store(c)
    <3>1. PICK r : r = [gpt[c] EXCEPT !.pc = "send", !.access = gpt[c].reply] OBVIOUS
    <3>2. r \in GptCall /\ r.pc = "send" BY <2>0, <3>1 DEF GptCall, Gpt!Pcs
    <3>3. gpt' = [gpt EXCEPT ![c] = r] BY <2>8, <3>1 DEF Gpt!Store
    <3>4. /\ gpt' \in [GptCalls -> GptCall] /\ gpt'[c] = r
          /\ \A d \in GptCalls : d # c => gpt'[d] = gpt[d]
      BY <1>0, <3>2, <3>3
    <3>5. gpt[c].pc = "answer" /\ \A d \in GptCalls : d # c => gpt[d].pc \notin {"refresh", "answer"}
      BY <2>8 DEF Gpt!Store, TokensInv, Refreshing
    <3>6. /\ tokens' \in [access : Gpt!Bundles, refresh : Gpt!Bundles]
          /\ tokens'.refresh = IF rotating THEN gpt[c].reply ELSE tokens.refresh
      BY <2>0, <2>8 DEF Gpt!Store, TokensInv, Gpt!TypeOK, GptCall
    <3>7. Gpt!TypeOK' BY <2>8, <3>4, <3>6 DEF GptCall, TokensInv, Gpt!TypeOK, Gpt!Store
    <3>8. Refreshing' BY <3>2, <3>4, <3>5 DEF Refreshing
    <3>9. TokensWereGiven' BY <2>8, <3>2, <3>4, <3>5, <3>6 DEF TokensWereGiven, TokensInv, Gpt!Store
    <3>10. TokensAreGood'
      BY <2>8, <3>2, <3>4, <3>5, <3>6 DEF TokensWereGiven, TokensInv, TokensAreGood, Gpt!Store
    <3> QED BY <3>7, <3>8, <3>9, <3>10 DEF TokensInv
  <2>9. CASE Gpt!RefreshFails(c)
    <3>1. PICK r : r = [gpt[c] EXCEPT !.pc = "failed"] OBVIOUS
    <3>2. r \in GptCall /\ r.pc = "failed" BY <2>0, <3>1 DEF GptCall, Gpt!Pcs, Gpt!Ended
    <3>3. gpt' = [gpt EXCEPT ![c] = r] BY <2>9, <3>1 DEF Gpt!RefreshFails, Gpt!Goto
    <3>4. /\ gpt' \in [GptCalls -> GptCall] /\ gpt'[c] = r
          /\ \A d \in GptCalls : d # c => gpt'[d] = gpt[d]
      BY <1>0, <3>2, <3>3
    <3>5. \A d \in GptCalls : d # c => gpt[d].pc \notin {"refresh", "answer"}
      BY <2>9 DEF Gpt!RefreshFails, TokensInv, Refreshing
    <3>6. /\ lost' = (lost \/ gpt[c].pc = "answer") /\ lost' \in BOOLEAN /\ gptmu' \in SUBSET GptCalls
          /\ UNCHANGED <<rotating, issued, clock, tokens>>
      BY <2>9 DEF Gpt!RefreshFails, TokensInv, Gpt!TypeOK
    <3>7. Gpt!TypeOK' BY <3>4, <3>6 DEF GptCall, TokensInv, Gpt!TypeOK
    <3>8. Refreshing' BY <3>2, <3>4, <3>5 DEF Refreshing
    <3>9. TokensWereGiven' BY <3>2, <3>4, <3>5, <3>6 DEF TokensWereGiven, TokensInv
    <3>10. TokensAreGood'
      BY <3>2, <3>4, <3>5, <3>6 DEF TokensInv, TokensAreGood
    <3> QED BY <3>7, <3>8, <3>9, <3>10 DEF TokensInv
  <2> QED BY <1>2, <2>1, <2>2, <2>3, <2>4, <2>5, <2>6, <2>7, <2>8, <2>9 DEF Gpt!CallNext
<1> QED BY <1>1, <1>2 DEF Gpt!Next

-----------------------------------------------------------------------------
(* The session of the daemon client *)

RunType == [pc : {"off", "dial", "welcome", "save", "write", "resume", "answer", "start", "up", "over"},
            token : BOOLEAN, n : Nat]

\* While nothing has cost the token, it is in the file or about to be written.
TokenInv ==
  /\ run \in RunType
  /\ reasons = {} =>
       /\ file = "token" \/ run.pc = "write"
       /\ run.pc \in {"save", "write"} => run.token

LEMMA TokenStep == ASSUME TokenInv, Sdk!Next PROVE TokenInv'
<1> USE DEF TokenInv, RunType, Sdk!Pumps
\* Most steps change no more of the run than where it is, and leave the file.
<1>1. ASSUME NEW pc \in {"welcome", "resume", "answer", "start", "up", "over"}, run' = [run EXCEPT !.pc = pc], UNCHANGED <<file, reasons>>,
             run.pc # "write"
      PROVE  TokenInv'
  <2>1. run' \in RunType /\ run'.pc = pc BY <1>1
  <2> QED BY <1>1, <2>1
<1>2. ASSUME UNCHANGED <<run, file, reasons>> PROVE TokenInv'
  BY <1>2
<1>3. CASE Sdk!NewDaemonClient
  <2>1. run' \in RunType /\ run'.pc = "dial" /\ UNCHANGED <<file, reasons>> /\ run.pc = "off"
    BY <1>3 DEF Sdk!NewDaemonClient
  <2> QED BY <2>1
<1>4. CASE Sdk!Dial
  <2>1. PICK pc \in {"welcome", "over"} : run' = [run EXCEPT !.pc = pc]
    BY <1>4 DEF Sdk!Dial, Sdk!Goto, Sdk!Return
  <2> QED BY <1>1, <1>4, <2>1 DEF Sdk!Dial
<1>5. CASE Sdk!Welcome
  <2>1. /\ run' \in RunType /\ run'.pc = "save" /\ UNCHANGED file /\ run.pc = "welcome"
        /\ reasons' = {} => reasons = {} /\ run'.token = (file = "token")
    BY <1>5 DEF Sdk!Welcome
  <2> QED BY <2>1
<1>6. CASE Sdk!NoWelcome
  BY <1>1, <1>6 DEF Sdk!NoWelcome, Sdk!Return, Sdk!Goto
<1>7. CASE Sdk!SaveSession
  BY <1>7 DEF Sdk!SaveSession, Sdk!Goto
<1>8. CASE Sdk!Written
  <2>1. PICK pc \in {"resume", "start", "over"} : run' = [run EXCEPT !.pc = pc]
    BY <1>8 DEF Sdk!Written, Sdk!Goto, Sdk!Return
  <2>2. run' \in RunType /\ run'.pc = pc BY <2>1
  <2>3. reasons' = {} => reasons = {} /\ file' = "token"
    BY <1>8 DEF Sdk!Written
  <2> QED BY <2>2, <2>3
<1>9. CASE Sdk!Resume
  <2>1. PICK pc \in {"answer", "start"} : run' = [run EXCEPT !.pc = pc]
    BY <1>9 DEF Sdk!Resume, Sdk!Goto
  <2> QED BY <1>1, <1>9, <2>1 DEF Sdk!Resume
<1>10. CASE Sdk!Answer
  <2>1. run' \in RunType /\ run'.pc = "start" /\ run.pc = "answer"
    BY <1>10 DEF Sdk!Answer
  <2>2. reasons' = {} => UNCHANGED <<file, reasons>>
    BY <1>10 DEF Sdk!Answer
  <2> QED BY <2>1, <2>2
<1>11. CASE Sdk!NoAnswer
  BY <1>1, <1>11 DEF Sdk!NoAnswer, Sdk!Goto
<1>12. CASE Sdk!Start
  <2>1. PICK pc \in {"up", "over"} : run' = [run EXCEPT !.pc = pc]
    BY <1>12 DEF Sdk!Start, Sdk!Goto, Sdk!Return
  <2> QED BY <1>1, <1>12, <2>1 DEF Sdk!Start
<1>13. CASE Sdk!Read \/ Sdk!Put \/ Sdk!Fail \/ Sdk!Dispatch \/ Sdk!Undispatched
            \/ Sdk!Serve \/ Sdk!Drop
  BY <1>2, <1>13 DEF Sdk!Read, Sdk!Put, Sdk!Fail, Sdk!Dispatch, Sdk!Undispatched, Sdk!Serve, Sdk!Drop
<1>14. ASSUME NEW x \in Waiters, Sdk!Subscribe(x) \/ Sdk!Unsubscribe(x) PROVE TokenInv'
  BY <1>2, <1>14 DEF Sdk!Subscribe, Sdk!Unsubscribe
<1>15. CASE Sdk!End
  BY <1>1, <1>15 DEF Sdk!End, Sdk!Return, Sdk!Goto
<1>16. CASE Sdk!Kill
  <2>1. run' \in RunType /\ run'.pc = "off" /\ UNCHANGED file
    BY <1>16 DEF Sdk!Kill, Sdk!Goto
  <2>2. reasons' = {} => reasons = {} /\ run.pc # "write"
    BY <1>16 DEF Sdk!Kill
  <2> QED BY <2>1, <2>2
<1> QED
  BY <1>3, <1>4, <1>5, <1>6, <1>7, <1>8, <1>9, <1>10, <1>11, <1>12, <1>13, <1>14, <1>15, <1>16
     DEF Sdk!Next

\* The session of the daemon outlives its runs (sdk/daemon.go, session.go): its
\* token goes only with a refusal, an unasked message, a file that is not read or a
\* save that breaks off (four causes, which TokenOutlives excepts); and the provider
\* of ChatGPT shows no refresh token twice unless an answer is lost
\* (ensureAccessToken): for any number of calls, runs and bundles.
THEOREM TokensAreKept == AdaptersSpec => []TokensOutlive
<1>1. AdaptersInit => TokensInv /\ TokenInv
  <2>1. Gpt!Init => TokensInv
    <3> SUFFICES ASSUME Gpt!Init PROVE TokensInv OBVIOUS
    <3>1. 0 \in Gpt!Bundles /\ 1 \in Gpt!Bundles /\ {} \in SUBSET Gpt!Bundles BY AdaptersAssumption DEF Gpt!Bundles
    <3>2. \A c \in GptCalls : gpt[c].pc = "idle" BY DEF Gpt!Init
    <3>3. Gpt!TypeOK
      <4>1. gpt \in [GptCalls -> GptCall]
        <5>1. << >> \in Seq(Gpt!Events) OBVIOUS
        <5>2. \A q \in Seq(Gpt!Events) :
                [pc |-> "idle", access |-> 0, reply |-> 0, chan |-> q, last |-> "none"] \in GptCall
          BY <3>1 DEF GptCall, Gpt!Pcs
        <5>3. [pc |-> "idle", access |-> 0, reply |-> 0, chan |-> << >>, last |-> "none"] \in GptCall
          BY ONLY <5>1, <5>2, Zenon
        <5> QED BY <5>3, Zenon DEF Gpt!Init
      <4>2. /\ rotating \in BOOLEAN /\ clock \in Gpt!Bundles /\ lost \in BOOLEAN
            /\ gptmu \in SUBSET GptCalls
            /\ issued \in [latest : Gpt!Bundles, spent : SUBSET Gpt!Bundles]
            /\ tokens \in [access : Gpt!Bundles, refresh : Gpt!Bundles]
        BY <3>1 DEF Gpt!Init
      <4> QED BY <4>1, <4>2 DEF Gpt!TypeOK, GptCall
    <3>4. Refreshing BY <3>2 DEF Refreshing
    <3>5. TokensWereGiven BY <3>2 DEF Gpt!Init, TokensWereGiven
    <3>6. TokensAreGood BY <3>2 DEF Gpt!Init, TokensAreGood
    <3> QED BY <3>3, <3>4, <3>5, <3>6 DEF TokensInv
  <2>2. Sdk!Init => TokenInv BY DEF Sdk!Init, TokenInv, RunType
  <2> QED BY <2>1, <2>2 DEF AdaptersInit
<1>2. TokensInv /\ TokenInv /\ [AdaptersNext]_allvars => (TokensInv /\ TokenInv)'
  <2> SUFFICES ASSUME TokensInv, TokenInv, [AdaptersNext]_allvars PROVE TokensInv' /\ TokenInv'
    OBVIOUS
  <2>1. ASSUME UNCHANGED gptvars PROVE TokensInv'
    <3>1. UNCHANGED rotating /\ UNCHANGED issued /\ UNCHANGED clock /\ UNCHANGED lost
          /\ UNCHANGED gptmu /\ UNCHANGED tokens /\ UNCHANGED gpt
      BY <2>1 DEF gptvars
    <3>2. Gpt!TypeOK' BY <3>1, Zenon DEF TokensInv, Gpt!TypeOK
    <3>3. Refreshing' BY <3>1 DEF TokensInv, Refreshing
    <3>4. TokensWereGiven' BY <3>1 DEF TokensInv, TokensWereGiven
    <3>5. TokensAreGood' BY <3>1 DEF TokensInv, TokensAreGood
    <3> QED BY <3>2, <3>3, <3>4, <3>5 DEF TokensInv
  <2>2. ASSUME UNCHANGED daemonvars PROVE TokenInv'
    <3>1. UNCHANGED run /\ UNCHANGED file /\ UNCHANGED reasons BY <2>2 DEF daemonvars
    <3> QED BY <3>1 DEF TokenInv, RunType
  <2> QED BY <2>1, <2>2, OneAdapterMoves, TokensStep, TokenStep
<1>3. TokensInv /\ TokenInv => TokensOutlive
  <2> SUFFICES ASSUME TokensInv, TokenInv PROVE TokensOutlive OBVIOUS
  <2>1. Sdk!TokenOutlives BY DEF TokenInv, Sdk!TokenOutlives
  <2>2. Gpt!NoSpentTokenIsShown BY DEF TokensInv, Refreshing, TokensAreGood, TokensWereGiven, Gpt!NoSpentTokenIsShown
  <2> QED BY <2>1, <2>2 DEF TokensOutlive
<1> QED BY <1>1, <1>2, <1>3, PTL DEF AdaptersSpec

-----------------------------------------------------------------------------
(* The test providers *)

ChatType == [pc : {"idle", "sending", "waiting", "cleaning", "delayed", "done", "failed"},
             reply : Seq(Chats \cup Nat)]
DeskType == [pc : {"idle", "look", "deliver"}, about : SUBSET Chats]

TestersFit ==
  /\ chat \in [Chats -> ChatType] /\ desk \in [Testers -> DeskType]
  /\ pipe \in [interactions : Seq(Chats), responses : Seq(Chats)]
  /\ box \in [Chats -> Seq(Chats)] /\ pending \subseteq Chats
  /\ idx \in Nat

\* Nobody who waits to be answered, or has not asked, has an answer, nor has one
\* whose answer is on its way.
BoxesAreEmpty ==
  /\ \A c \in Chats : c \in pending \/ chat[c].pc = "idle" => box[c] = <<>>
  /\ \A c \in pending : chat[c].pc # "idle"
  /\ \A t \in Testers : desk[t].pc = "deliver" =>
       \A c \in desk[t].about : box[c] = <<>> /\ chat[c].pc # "idle" /\ c \notin pending

\* Who looks, looks at one call, and no two deliver to the same.
OneDelivers ==
  \A t \in Testers :
    /\ desk[t].pc \in {"look", "deliver"} => \E c \in Chats : desk[t].about = {c}
    /\ desk[t].pc = "deliver" =>
         \A u \in Testers \ {t} : desk[u].pc = "deliver" => desk[u].about \cap desk[t].about = {}

\* A script that does not loop has given the steps up to its index, each once.
StepsDrawn ==
  source.kind = "scripted" /\ ~source.loop =>
    \A c \in Chats :
      \/ chat[c].reply \in {<<>>, <<0>>}
      \/ /\ \E i \in 1 .. idx : chat[c].reply = <<i>>
         /\ \A d \in Chats \ {c} : chat[d].reply # chat[c].reply

AnswersInv == TestersFit /\ BoxesAreEmpty /\ OneDelivers /\ StepsDrawn

\* A call that moves on and takes no more than its answer leaves testers what
\* they need, if it draws no step.
LEMMA ChatMoves ==
  ASSUME AnswersInv, NEW c \in Chats, NEW r \in ChatType, chat' = [chat EXCEPT ![c] = r],
         r.pc # "idle", pending' \subseteq pending, UNCHANGED <<source, desk>>,
         box' \in [Chats -> Seq(Chats)], \A d \in Chats : box'[d] = box[d] \/ box'[d] = <<>>,
         pipe' \in [interactions : Seq(Chats), responses : Seq(Chats)], idx' \in Nat,
         StepsDrawn'
  PROVE  AnswersInv'
<1>1. /\ chat' \in [Chats -> ChatType] /\ chat'[c] = r
      /\ \A d \in Chats : d # c => chat'[d] = chat[d]
  BY DEF AnswersInv, TestersFit
<1>2. TestersFit' BY <1>1 DEF AnswersInv, TestersFit
<1>3. desk \in [Testers -> DeskType] /\ pending \subseteq Chats BY DEF AnswersInv, TestersFit
<1>4. BoxesAreEmpty' BY <1>1, <1>3 DEF AnswersInv, BoxesAreEmpty, DeskType
<1>5. OneDelivers' BY DEF AnswersInv, OneDelivers
<1> QED BY <1>2, <1>4, <1>5 DEF AnswersInv

\* Steps stay drawn as long as no call gets an answer.
LEMMA StepsStay ==
  ASSUME AnswersInv, NEW c \in Chats, NEW r \in ChatType, chat' = [chat EXCEPT ![c] = r],
         r.reply = chat[c].reply, UNCHANGED <<source, idx>>
  PROVE  StepsDrawn'
<1>1. \A d \in Chats : chat'[d].reply = chat[d].reply BY DEF AnswersInv, TestersFit
<1> QED BY <1>1 DEF AnswersInv, StepsDrawn

\* A call gets to another place, with what it has.
LEMMA ChatGoes ==
  ASSUME AnswersInv, NEW c \in Chats, NEW pc \in {"sending", "waiting", "cleaning", "done", "failed"},
         Test!At(c, pc), pending' \subseteq pending, UNCHANGED <<source, box, desk, idx>>,
         pipe' \in [interactions : Seq(Chats), responses : Seq(Chats)]
  PROVE  AnswersInv'
<1>1. PICK r : r = [chat[c] EXCEPT !.pc = pc] OBVIOUS
<1>2. chat[c] \in ChatType /\ idx \in Nat /\ box \in [Chats -> Seq(Chats)]
  BY DEF AnswersInv, TestersFit
<1>3. r \in ChatType /\ r.pc = pc /\ r.reply = chat[c].reply BY <1>1, <1>2 DEF ChatType
<1>4. chat' = [chat EXCEPT ![c] = r] BY <1>1 DEF Test!At
<1>5. StepsDrawn' BY <1>3, <1>4, StepsStay
<1> QED BY <1>2, <1>3, <1>4, <1>5, ChatMoves

\* A tester who is idle again leaves the others what they had.
LEMMA TesterRests ==
  ASSUME AnswersInv, NEW t \in Testers, desk' = [desk EXCEPT ![t] = [pc |-> "idle", about |-> {}]],
         UNCHANGED <<source, chat, pending, box, idx>>,
         pipe' \in [interactions : Seq(Chats), responses : Seq(Chats)]
  PROVE  AnswersInv'
<1>1. PICK d : d = [pc |-> "idle", about |-> {}] OBVIOUS
<1>2. d \in DeskType /\ d.pc = "idle" BY <1>1 DEF DeskType
<1>3. /\ desk' \in [Testers -> DeskType] /\ desk'[t] = d
      /\ \A u \in Testers : u # t => desk'[u] = desk[u]
  BY <1>1, <1>2 DEF AnswersInv, TestersFit
<1>4. TestersFit' BY <1>3 DEF AnswersInv, TestersFit
<1>5. BoxesAreEmpty' BY <1>2, <1>3 DEF AnswersInv, BoxesAreEmpty
<1>6. OneDelivers' BY <1>2, <1>3 DEF AnswersInv, OneDelivers
<1>7. StepsDrawn' BY DEF AnswersInv, StepsDrawn
<1> QED BY <1>4, <1>5, <1>6, <1>7 DEF AnswersInv

LEMMA CallOfStep == ASSUME AnswersInv, NEW c \in Chats, Test!CallOf(c) PROVE AnswersInv'
<1>0. /\ chat \in [Chats -> ChatType] /\ chat[c] \in ChatType /\ idx \in Nat
      /\ pipe \in [interactions : Seq(Chats), responses : Seq(Chats)]
      /\ box \in [Chats -> Seq(Chats)] /\ pending \subseteq Chats
      /\ desk \in [Testers -> DeskType]
  BY DEF AnswersInv, TestersFit
<1>1. CASE Test!Ask(c)
  <2>1. PICK r : r = [chat[c] EXCEPT !.pc = "waiting"] OBVIOUS
  <2>2. r \in ChatType /\ r.pc = "waiting" /\ r.reply = chat[c].reply BY <1>0, <2>1 DEF ChatType
  <2>3. chat' = [chat EXCEPT ![c] = r] BY <1>1, <2>1 DEF Test!Ask, Test!At
  <2>4. /\ chat' \in [Chats -> ChatType] /\ chat'[c] = r
        /\ \A d \in Chats : d # c => chat'[d] = chat[d]
    BY <1>0, <2>2, <2>3
  <2>5. chat[c].pc = "idle" /\ pending' = pending \cup {c} /\ UNCHANGED <<source, box, desk, pipe, idx>>
    BY <1>1 DEF Test!Ask
  <2>6. TestersFit' BY <2>4, <2>5 DEF AnswersInv, TestersFit
  <2>7. BoxesAreEmpty' BY <1>0, <2>2, <2>4, <2>5 DEF AnswersInv, BoxesAreEmpty, DeskType
  <2>8. OneDelivers' BY <2>5 DEF AnswersInv, OneDelivers
  <2>9. StepsDrawn' BY <2>2, <2>3, <2>5, StepsStay
  <2> QED BY <2>6, <2>7, <2>8, <2>9 DEF AnswersInv
<1>2. CASE Test!Answered(c)
  <2>1. box[c] \in Seq(Chats \cup Nat) BY <1>0
  <2>2. PICK r : r = [pc |-> "done", reply |-> box[c]] OBVIOUS
  <2>3. r \in ChatType /\ r.pc = "done" BY <2>1, <2>2 DEF ChatType
  <2>4. chat' = [chat EXCEPT ![c] = r] BY <1>2, <2>2 DEF Test!Answered, Test!End
  <2>5. StepsDrawn' BY <1>2 DEF Test!Answered, StepsDrawn
  <2>6. box' \in [Chats -> Seq(Chats)] /\ \A d \in Chats : box'[d] = box[d] \/ box'[d] = <<>>
    BY <1>0, <1>2 DEF Test!Answered
  <2>7. pending' \subseteq pending /\ UNCHANGED <<source, desk, pipe, idx>> BY <1>2 DEF Test!Answered
  <2> QED BY <1>0, <2>3, <2>4, <2>5, <2>6, <2>7, ChatMoves
<1>3. CASE Test!Clean(c) BY <1>0, <1>3, ChatGoes DEF Test!Clean
<1>4. CASE Test!Submit(c) BY <1>0, <1>4, ChatGoes DEF Test!Submit
<1>5. CASE Test!Sent(c)
  <2>1. pipe' \in [interactions : Seq(Chats), responses : Seq(Chats)]
    <3>1. PICK q : q = <<c>> OBVIOUS
    <3>2. q \in Seq(Chats) BY ONLY <3>1, c \in Chats
    <3>3. pipe' = [pipe EXCEPT !.interactions = q] BY <1>5, <3>1 DEF Test!Sent
    <3> QED BY ONLY <1>0, <3>2, <3>3
  <2> QED BY <1>5, <2>1, ChatGoes DEF Test!Sent
<1>6. CASE Test!Received(c)
  <2>1. pipe.responses \in Seq(Chats \cup Nat) BY <1>0
  <2>2. PICK r : r = [pc |-> "done", reply |-> pipe.responses] OBVIOUS
  <2>3. r \in ChatType /\ r.pc = "done" BY <2>1, <2>2 DEF ChatType
  <2>4. chat' = [chat EXCEPT ![c] = r] BY <1>6, <2>2 DEF Test!Received, Test!End
  <2>5. StepsDrawn' BY <1>6 DEF Test!Received, StepsDrawn
  <2>6. pipe' \in [interactions : Seq(Chats), responses : Seq(Chats)]
    <3>1. PICK q : q = << >> OBVIOUS
    <3>2. q \in Seq(Chats) BY ONLY <3>1
    <3>3. pipe' = [pipe EXCEPT !.responses = q] BY <1>6, <3>1 DEF Test!Received
    <3> QED BY ONLY <1>0, <3>2, <3>3
  <2>7. pending' \subseteq pending /\ UNCHANGED <<source, desk, box, idx>> BY <1>6 DEF Test!Received
  <2> QED BY <1>0, <2>3, <2>4, <2>5, <2>6, <2>7, ChatMoves
<1>7. CASE Test!Summarize(c)
  <2>1. <<0>> \in Seq(Chats \cup Nat) OBVIOUS
  <2>2. PICK r : r = [pc |-> "done", reply |-> <<0>>] OBVIOUS
  <2>3. r \in ChatType /\ r.pc = "done" /\ r.reply = <<0>> BY <2>1, <2>2 DEF ChatType
  <2>4. chat' = [chat EXCEPT ![c] = r] BY <1>7, <2>2 DEF Test!Summarize, Test!End
  <2>5. \A d \in Chats : chat'[d].reply = IF d = c THEN <<0>> ELSE chat[d].reply BY <1>0, <2>3, <2>4
  <2>6. UNCHANGED <<source, pending, box, desk, pipe, idx>> BY <1>7 DEF Test!Summarize
  <2>7. StepsDrawn' BY <2>5, <2>6 DEF AnswersInv, StepsDrawn
  <2> QED BY <1>0, <2>3, <2>4, <2>6, <2>7, ChatMoves
<1>8. CASE Test!Draw(c)
  <2>0. PICK n \in Nat : n = (IF idx < NSteps THEN idx ELSE 0) + 1 BY <1>0
  <2>1. Test!End(c, "delayed", <<n>>) /\ idx' = n BY <1>8, <2>0, Zenon DEF Test!Draw
  <2>2. <<n>> \in Seq(Chats \cup Nat) OBVIOUS
  <2>3. PICK r : r = [pc |-> "delayed", reply |-> <<n>>] OBVIOUS
  <2>4. r \in ChatType /\ r.pc = "delayed" /\ r.reply = <<n>> BY <2>2, <2>3 DEF ChatType
  <2>5. chat' = [chat EXCEPT ![c] = r] BY <2>1, <2>3 DEF Test!End
  <2>6. \A d \in Chats : chat'[d].reply = IF d = c THEN <<n>> ELSE chat[d].reply BY <1>0, <2>4, <2>5
  <2>7. UNCHANGED <<source, pending, box, desk, pipe>> /\ (~source.loop => idx < NSteps)
    BY <1>8 DEF Test!Draw
  <2>8. ASSUME source.kind = "scripted", ~source.loop PROVE StepsDrawn'
    <3>1. n = idx + 1 BY <1>0, <2>0, <2>7, <2>8
    <3>2. \A d \in Chats : d # c => chat[d].reply # <<n>>
      <4> SUFFICES ASSUME NEW d \in Chats, chat[d].reply = <<n>> PROVE FALSE OBVIOUS
      <4>1. n # 0 /\ \A i \in 1 .. idx : i # n BY <1>0, <3>1
      <4>2. \A i \in Nat : <<i>> = <<n>> => i = n OBVIOUS
      <4>3. <<n>> # << >> OBVIOUS
      <4>4. chat[d].reply \in {<< >>, <<0>>} \/ \E i \in 1 .. idx : chat[d].reply = <<i>>
        BY <2>8 DEF AnswersInv, StepsDrawn
      <4>5. 1 .. idx \subseteq Nat /\ 0 \in Nat BY <1>0
      <4>6. chat[d].reply = <<n>> OBVIOUS
      <4> QED BY ONLY <4>6, <4>1, <4>2, <4>3, <4>4, <4>5, Zenon
    <3>3. ASSUME NEW d \in Chats
          PROVE  \/ chat'[d].reply \in {<<>>, <<0>>}
                 \/ /\ \E i \in 1 .. n : chat'[d].reply = <<i>>
                    /\ \A e \in Chats \ {d} : chat'[e].reply # chat'[d].reply
      <4>1. CASE d = c
        <5>1. n \in 1 .. n BY <1>0, <3>1
        <5>2. chat'[d].reply = <<n>> BY <2>6, <4>1
        <5>3. \A e \in Chats \ {d} : chat'[e].reply # <<n>> BY <2>6, <3>2, <4>1
        <5> QED BY ONLY <5>1, <5>2, <5>3, Zenon
      <4>2. CASE d # c
        <5>1. CASE chat[d].reply \in {<<>>, <<0>>} BY <2>6, <4>2, <5>1
        <5>2. CASE chat[d].reply \notin {<<>>, <<0>>}
          <6>1. /\ \E i \in 1 .. idx : chat[d].reply = <<i>>
                /\ \A e \in Chats \ {d} : chat[e].reply # chat[d].reply
            BY <2>8, <5>2 DEF AnswersInv, StepsDrawn
          <6>2. \E i \in 1 .. n : chat[d].reply = <<i>> BY <1>0, <3>1, <6>1
          <6> QED BY <2>6, <3>2, <4>2, <6>1, <6>2
        <5> QED BY <5>1, <5>2
      <4> QED BY <4>1, <4>2
    <3> QED BY <2>1, <3>3 DEF StepsDrawn
  <2>9. StepsDrawn' BY <2>7, <2>8 DEF StepsDrawn
  <2> QED BY <1>0, <2>1, <2>4, <2>5, <2>7, <2>9, ChatMoves
<1>9. CASE Test!Exhausted(c) BY <1>0, <1>9, ChatGoes DEF Test!Exhausted
<1>10. CASE Test!Played(c)
  <2>1. PICK pc \in {"done", "failed"} : Test!At(c, pc) BY <1>10 DEF Test!Played, Test!Ended
  <2> QED BY <1>0, <1>10, <2>1, ChatGoes DEF Test!Played
<1>11. CASE Test!Timeout(c)
  <2>1. PICK pc \in {"cleaning", "failed"} : Test!At(c, pc) BY <1>11 DEF Test!Timeout
  <2> QED BY <1>0, <1>11, <2>1, ChatGoes DEF Test!Timeout
<1> QED
  BY <1>1, <1>2, <1>3, <1>4, <1>5, <1>6, <1>7, <1>8, <1>9, <1>10, <1>11 DEF Test!CallOf

\* The step of a tester changes what it does and what it is about.
LEMMA TesterOfStep == ASSUME AnswersInv, NEW t \in Testers, Test!TesterOf(t) PROVE AnswersInv'
<1>0. /\ chat \in [Chats -> ChatType] /\ idx \in Nat
      /\ pipe \in [interactions : Seq(Chats), responses : Seq(Chats)]
      /\ box \in [Chats -> Seq(Chats)] /\ pending \subseteq Chats
      /\ desk \in [Testers -> DeskType] /\ desk[t] \in DeskType
  BY DEF AnswersInv, TestersFit
<1>1. ASSUME NEW c \in Chats, desk' = [desk EXCEPT ![t] = [pc |-> "look", about |-> {c}]],
             UNCHANGED <<source, chat, pending, box, idx>>,
             pipe' \in [interactions : Seq(Chats), responses : Seq(Chats)]
      PROVE  AnswersInv'
  <2>1. PICK d : d = [pc |-> "look", about |-> {c}] OBVIOUS
  <2>2. d \in DeskType /\ d.pc = "look" /\ d.about = {c} BY <2>1 DEF DeskType
  <2>3. /\ desk' \in [Testers -> DeskType] /\ desk'[t] = d
        /\ \A u \in Testers : u # t => desk'[u] = desk[u]
    BY <1>0, <1>1, <2>1, <2>2
  <2>4. TestersFit' BY <1>1, <2>3 DEF AnswersInv, TestersFit
  <2>5. BoxesAreEmpty' BY <1>1, <2>2, <2>3 DEF AnswersInv, BoxesAreEmpty
  <2>6. OneDelivers' BY <2>2, <2>3 DEF AnswersInv, OneDelivers
  <2>7. StepsDrawn' BY <1>1 DEF AnswersInv, StepsDrawn
  <2> QED BY <2>4, <2>5, <2>6, <2>7 DEF AnswersInv
<1>2. CASE Test!Look(t) BY <1>0, <1>1, <1>2 DEF Test!Look
<1>3. CASE Test!Respond(t)
  <2>1. /\ desk[t].pc = "look" /\ pending' = pending \ desk[t].about
        /\ UNCHANGED <<source, chat, box, pipe, idx>>
    BY <1>3 DEF Test!Respond
  <2>2. PICK c \in Chats : desk[t].about = {c} BY <2>1 DEF AnswersInv, OneDelivers
  <2>3. CASE c \notin pending
    <3>1. desk' = [desk EXCEPT ![t] = [pc |-> "idle", about |-> {}]] BY <1>3, <2>2, <2>3 DEF Test!Respond
    <3>2. pending' = pending BY <2>1, <2>2, <2>3
    <3> QED BY <1>0, <2>1, <3>1, <3>2, TesterRests
  <2>4. CASE c \in pending
    <3>1. PICK d : d = [desk[t] EXCEPT !.pc = "deliver"] OBVIOUS
    <3>2. d \in DeskType /\ d.pc = "deliver" /\ d.about = {c} BY <1>0, <2>2, <3>1 DEF DeskType
    <3>3. desk' = [desk EXCEPT ![t] = d] BY <1>3, <2>2, <2>4, <3>1 DEF Test!Respond
    <3>4. /\ desk' \in [Testers -> DeskType] /\ desk'[t] = d
          /\ \A u \in Testers : u # t => desk'[u] = desk[u]
      BY <1>0, <3>2, <3>3
    <3>5. box[c] = <<>> /\ chat[c].pc # "idle" BY <2>4 DEF AnswersInv, BoxesAreEmpty
    <3>6. \A u \in Testers : desk[u].pc = "deliver" => c \notin desk[u].about
      BY <2>4 DEF AnswersInv, BoxesAreEmpty
    <3>7. TestersFit' BY <2>1, <3>4 DEF AnswersInv, TestersFit
    <3>8. BoxesAreEmpty' BY <2>1, <2>2, <3>2, <3>4, <3>5 DEF AnswersInv, BoxesAreEmpty
    <3>9. OneDelivers' BY <3>2, <3>4, <3>6 DEF AnswersInv, OneDelivers
    <3>10. StepsDrawn' BY <2>1 DEF AnswersInv, StepsDrawn
    <3> QED BY <3>7, <3>8, <3>9, <3>10 DEF AnswersInv
  <2> QED BY <2>3, <2>4
<1>4. CASE Test!Deliver(t)
  <2>1. /\ desk[t].pc = "deliver" /\ desk' = [desk EXCEPT ![t] = [pc |-> "idle", about |-> {}]]
        /\ UNCHANGED <<source, chat, pending, pipe, idx>>
    BY <1>4 DEF Test!Deliver
  <2>2. PICK c \in Chats : desk[t].about = {c} BY <2>1 DEF AnswersInv, OneDelivers
  <2>3. PICK q : q = <<c>> OBVIOUS
  <2>4. q \in Seq(Chats) BY ONLY <2>3, c \in Chats
  <2>5. box' = [box EXCEPT ![c] = q] BY <1>4, <2>2, <2>3 DEF Test!Deliver
  <2>6. box' \in [Chats -> Seq(Chats)] /\ \A d \in Chats : d # c => box'[d] = box[d] BY <1>0, <2>4, <2>5
  <2>7. PICK e : e = [pc |-> "idle", about |-> {}] OBVIOUS
  <2>8. e \in DeskType /\ e.pc = "idle" BY <2>7 DEF DeskType
  <2>9. /\ desk' \in [Testers -> DeskType] /\ desk'[t] = e
        /\ \A u \in Testers : u # t => desk'[u] = desk[u]
    BY <1>0, <2>1, <2>7, <2>8
  <2>10. chat[c].pc # "idle" /\ c \notin pending BY <2>1, <2>2 DEF AnswersInv, BoxesAreEmpty
  <2>11. \A u \in Testers : u # t /\ desk[u].pc = "deliver" => c \notin desk[u].about
    BY <2>1, <2>2 DEF AnswersInv, OneDelivers
  <2>12. TestersFit' BY <2>1, <2>6, <2>9 DEF AnswersInv, TestersFit
  <2>13. BoxesAreEmpty'
    <3>1. \A d \in Chats : d \in pending \/ chat[d].pc = "idle" => box'[d] = <<>>
      BY <2>6, <2>10 DEF AnswersInv, BoxesAreEmpty
    <3>2. ASSUME NEW u \in Testers, desk'[u].pc = "deliver", NEW d \in desk'[u].about
          PROVE  box'[d] = <<>> /\ chat[d].pc # "idle" /\ d \notin pending
      <4>1. u # t /\ desk'[u] = desk[u] /\ d \in Chats BY <1>0, <2>8, <2>9, <3>2 DEF DeskType
      <4> QED BY <2>6, <2>11, <3>2, <4>1 DEF AnswersInv, BoxesAreEmpty
    <3>3. \A d \in pending : chat[d].pc # "idle" BY DEF AnswersInv, BoxesAreEmpty
    <3> QED BY <2>1, <3>1, <3>2, <3>3 DEF BoxesAreEmpty
  <2>14. OneDelivers' BY <2>8, <2>9 DEF AnswersInv, OneDelivers
  <2>15. StepsDrawn' BY <2>1 DEF AnswersInv, StepsDrawn
  <2> QED BY <2>12, <2>13, <2>14, <2>15 DEF AnswersInv
<1>5. CASE Test!ReadInteraction(t)
  <2>1. pipe.interactions \in Seq(Chats) /\ pipe.interactions # << >> BY <1>0, <1>5 DEF Test!ReadInteraction
  <2>2. PICK c \in Chats : c = pipe.interactions[1] BY <2>1
  <2>3. pipe' \in [interactions : Seq(Chats), responses : Seq(Chats)]
    <3>1. PICK q : q = << >> OBVIOUS
    <3>2. q \in Seq(Chats) BY ONLY <3>1
    <3>3. pipe' = [pipe EXCEPT !.interactions = q] BY <1>5, <3>1 DEF Test!ReadInteraction
    <3> QED BY ONLY <1>0, <3>2, <3>3
  <2> QED BY <1>1, <1>5, <2>2, <2>3 DEF Test!ReadInteraction
<1>6. CASE Test!WriteResponse(t)
  <2>1. PICK c \in Chats : pipe' = [pipe EXCEPT !.responses = <<c>>] BY <1>0, <1>6 DEF Test!WriteResponse, DeskType
  <2>2. PICK q : q = <<c>> OBVIOUS
  <2>3. q \in Seq(Chats) BY ONLY <2>2, c \in Chats
  <2>4. pipe' \in [interactions : Seq(Chats), responses : Seq(Chats)] BY ONLY <1>0, <2>1, <2>2, <2>3
  <2> QED BY <1>6, <2>4, TesterRests DEF Test!WriteResponse
<1> QED BY <1>2, <1>3, <1>4, <1>5, <1>6 DEF Test!TesterOf

\* Whoever answers when, and whatever times out (orchestrator/test_provider*.go):
\* no call is answered twice, a response that was accepted finds room, and no
\* step of a script that does not loop goes to two calls.  For any number of
\* calls, testers and steps.
THEOREM NobodyIsAnsweredTwice == AdaptersSpec => []AnsweredOnce
<1>1. AdaptersInit => AnswersInv
  <2> SUFFICES ASSUME Test!Init PROVE AnswersInv BY DEF AdaptersInit
  <2>1. PICK q : q = << >> OBVIOUS
  <2>2. q \in Seq(Chats) /\ q \in Seq(Chats \cup Nat) BY ONLY <2>1
  <2>3. /\ chat = [c \in Chats |-> [pc |-> "idle", reply |-> q]] /\ box = [c \in Chats |-> q]
        /\ pipe = [interactions |-> q, responses |-> q] /\ pending = {} /\ idx = 0
        /\ desk = [t \in Testers |-> [pc |-> "idle", about |-> {}]]
    BY <2>1 DEF Test!Init
  <2>4. TestersFit BY ONLY <2>2, <2>3 DEF TestersFit, ChatType, DeskType
  <2>5. BoxesAreEmpty BY <2>1, <2>3 DEF BoxesAreEmpty
  <2>6. OneDelivers BY <2>3 DEF OneDelivers
  <2>7. StepsDrawn BY <2>1, <2>3 DEF StepsDrawn
  <2> QED BY <2>4, <2>5, <2>6, <2>7 DEF AnswersInv
<1>2. AnswersInv /\ [AdaptersNext]_allvars => AnswersInv'
  <2> SUFFICES ASSUME AnswersInv, [AdaptersNext]_allvars PROVE AnswersInv' OBVIOUS
  <2>1. ASSUME UNCHANGED testvars PROVE AnswersInv'
    <3>1. /\ UNCHANGED source /\ UNCHANGED chat /\ UNCHANGED pending /\ UNCHANGED box
          /\ UNCHANGED desk /\ UNCHANGED pipe /\ UNCHANGED idx
      BY <2>1 DEF testvars
    <3>2. TestersFit' BY <3>1 DEF AnswersInv, TestersFit
    <3>3. BoxesAreEmpty' BY <3>1 DEF AnswersInv, BoxesAreEmpty
    <3>4. OneDelivers' BY <3>1 DEF AnswersInv, OneDelivers
    <3>5. StepsDrawn' BY <3>1 DEF AnswersInv, StepsDrawn
    <3> QED BY <3>2, <3>3, <3>4, <3>5 DEF AnswersInv
  <2> QED BY <2>1, OneAdapterMoves, CallOfStep, TesterOfStep DEF Test!Next
<1>3. AnswersInv => AnsweredOnce
  <2> SUFFICES ASSUME AnswersInv PROVE Test!AnsweredOnce BY DEF AnsweredOnce
  <2>1. ASSUME NEW t \in Testers, desk[t].pc = "deliver"
        PROVE  /\ \A c \in desk[t].about : box[c] = <<>>
               /\ \A u \in Testers \ {t} : desk[u].pc = "deliver" => desk[u].about # desk[t].about
    <3>1. \A c \in desk[t].about : box[c] = <<>> BY <2>1 DEF AnswersInv, BoxesAreEmpty
    <3>2. desk[t].about # {} /\ \A u \in Testers \ {t} : desk[u].pc = "deliver" =>
                                  desk[u].about \cap desk[t].about = {}
      BY <2>1 DEF AnswersInv, OneDelivers
    <3> QED BY <3>1, <3>2
  <2>2. ASSUME source.kind = "scripted", ~source.loop, NEW c \in Chats, NEW d \in Chats, c # d,
               chat[c].reply = chat[d].reply
        PROVE  chat[c].reply \in {<<>>, <<0>>}
    BY <2>2 DEF AnswersInv, StepsDrawn
  <2> QED BY <2>1, <2>2 DEF Test!AnsweredOnce
<1> QED BY <1>1, <1>2, <1>3, PTL DEF AdaptersSpec

-----------------------------------------------------------------------------
(* The sessions of the terminal *)

\* One turn at a time is at work, on the screen of its session.
OneTurn ==
  /\ session.ptmx # 0 => session.ptmx = session.vt
  /\ \A t \in Pty!Turns :
       /\ turn[t].pc \in Pty!Working => session.mu = t
       /\ turn[t].pc \in Pty!Working \ {"start"} => session.vt = turn[t].ptmx

\* What the process works on was asked for, and so was what is on the screen.
Asked == {t \in Pty!Turns : \/ turn[t].pc \in {"look", "read", "error", "over"}
                            \/ turn[t].pc \in {"tell", "done"} /\ session.mu = t}
WorkWasAsked ==
  /\ \A i \in 1 .. Len(process.jobs) : process.jobs[i] \in Asked
  /\ \A l \in screen.shown : l[1] \in Asked
  /\ process.alive /\ screen.dialog = "permission" => process.jobs # <<>>

ScreenInv == Pty!TypeOK /\ OneTurn /\ WorkWasAsked /\ Pty!LateLinesOnly

TurnType == [pc : Pty!Working \cup {"idle", "lock", "json", "plain", "tell", "done", "error", "over"},
             ptmx : 0 .. MaxSessions,
             pre : SUBSET Pty!Lines, seen : Pty!Screens, got : SUBSET Pty!Lines,
             last : {"none", "done", "error"}, queue : 0 .. BufferSize, reads : BOOLEAN]
SessionType == [mu : Pty!Turns \cup {0}, ptmx : 0 .. MaxSessions, vt : 0 .. MaxSessions]
ProcessType == [alive : BOOLEAN, hung : BOOLEAN, jobs : Seq(Pty!Turns), born : 0 .. MaxSessions]

LEMMA ScreenTypes ==
  ASSUME ScreenInv
  PROVE  /\ turn \in [Pty!Turns -> TurnType] /\ session \in SessionType
         /\ process \in ProcessType /\ screen \in Pty!Screens
BY DEF ScreenInv, Pty!TypeOK, TurnType, SessionType, ProcessType

\* What holds of all jobs holds of the head and the tail, and of one appended.
LEMMA JobsKeep ==
  ASSUME NEW S, NEW T, NEW s \in Seq(S), \A i \in 1 .. Len(s) : s[i] \in T
  PROVE  /\ s # << >> => Head(s) \in S /\ Head(s) \in T /\ Tail(s) \in Seq(S)
                         /\ \A i \in 1 .. Len(Tail(s)) : Tail(s)[i] \in T
         /\ \A x \in S : x \in T => /\ Append(s, x) \in Seq(S) /\ Append(s, x) # << >>
                                  /\ \A i \in 1 .. Len(Append(s, x)) : Append(s, x)[i] \in T
<1>1. ASSUME s # << >>
      PROVE  /\ Head(s) \in S /\ Head(s) \in T /\ Tail(s) \in Seq(S)
             /\ \A i \in 1 .. Len(Tail(s)) : Tail(s)[i] \in T
  <2>1. Len(s) \in Nat /\ Len(s) # 0 /\ Head(s) = s[1] BY <1>1
  <2>2. Tail(s) \in Seq(S) /\ Len(Tail(s)) = Len(s) - 1
        /\ \A i \in 1 .. Len(Tail(s)) : Tail(s)[i] = s[i + 1]
    BY <1>1, HeadTailProperties
  <2>3. Head(s) \in S /\ Head(s) \in T BY <2>1
  <2>4. \A i \in 1 .. Len(Tail(s)) : i + 1 \in 1 .. Len(s) BY <2>1, <2>2
  <2> QED BY <2>2, <2>3, <2>4
<1>2. ASSUME NEW x \in S, x \in T
      PROVE  /\ Append(s, x) \in Seq(S) /\ Append(s, x) # << >>
             /\ \A i \in 1 .. Len(Append(s, x)) : Append(s, x)[i] \in T
  <2>1. /\ Append(s, x) \in Seq(S) /\ Append(s, x) # << >> /\ Len(Append(s, x)) = Len(s) + 1
        /\ \A i \in 1 .. Len(s) : Append(s, x)[i] = s[i]
        /\ Append(s, x)[Len(s) + 1] = x
    BY AppendProperties
  <2>2. \A i \in 1 .. Len(s) + 1 : i \in 1 .. Len(s) \/ i = Len(s) + 1 OBVIOUS
  <2> QED BY <1>2, <2>1, <2>2
<1> QED BY <1>1, <1>2

LEMMA FreshType == Pty!Fresh \in TurnType
<1>1. Pty!Blank \in Pty!Screens BY DEF Pty!Blank, Pty!Screens
<1>2. 0 \in 0 .. MaxSessions /\ 0 \in 0 .. BufferSize BY AdaptersAssumption
<1> QED BY <1>1, <1>2 DEF Pty!Fresh, TurnType

LEMMA StrippedType ==
  ASSUME NEW r \in TurnType, NEW pc \in {"tell", "done", "error"}
  PROVE  /\ Pty!Stripped(r, pc) \in TurnType
         /\ Pty!Stripped(r, pc).pc = pc /\ Pty!Stripped(r, pc).got = r.got
<1>1. PICK g, q, b : g = r.got /\ q = r.queue /\ b = r.reads OBVIOUS
<1>2. g \in SUBSET Pty!Lines /\ q \in 0 .. BufferSize /\ b \in BOOLEAN BY <1>1 DEF TurnType
<1>3. PICK s : s = [Pty!Fresh EXCEPT !.pc = pc, !.got = g, !.queue = q, !.reads = b] OBVIOUS
<1>4. s \in TurnType /\ s.pc = pc /\ s.got = g
  BY ONLY <1>2, <1>3, FreshType, pc \in {"tell", "done", "error"} DEF TurnType
<1>5. Pty!Stripped(r, pc) = s BY <1>1, <1>3, Zenon DEF Pty!Stripped
<1> QED BY <1>1, <1>4, <1>5

\* A text that goes into the channel leaves it no fuller than it may be.
LEMMA QueuedFits ==
  ASSUME NEW t \in Pty!Turns, turn[t] \in TurnType, Pty!Room(t)
  PROVE  Pty!Queued(t) \in 0 .. BufferSize
BY AdaptersAssumption DEF Pty!Room, Pty!Queued, TurnType

\* A step of a turn that leaves the process and the lines on its screen alone: it
\* stays asked for, takes lines only from the screen and with the lock, and gives
\* back no lock but its own.
LEMMA TurnMoves ==
  ASSUME ScreenInv, NEW t \in Pty!Turns, NEW r \in TurnType, turn' = [turn EXCEPT ![t] = r],
         UNCHANGED <<adapter, handler, process>>, screen' \in Pty!Screens,
         screen'.shown = screen.shown, screen'.dialog = screen.dialog, turn[t].pc # "over",
         t \in Asked => \/ r.pc \in {"look", "read", "error", "over"}
                        \/ r.pc \in {"tell", "done"} /\ session'.mu = t,
         turn[t].pc = "error" => r.pc \in {"error", "over"},
         \/ r.got \subseteq turn[t].got
         \/ r.got \subseteq turn[t].got \cup screen.shown /\ turn[t].pc = "read",
         session' \in SessionType, session'.ptmx = session.ptmx, session'.vt = session.vt,
         session'.mu = session.mu \/ session.mu \in {0, t},
         r.pc \in Pty!Working => session'.mu = t,
         r.pc \in Pty!Working \ {"start"} => session.vt = r.ptmx
  PROVE  ScreenInv'
<1>0. /\ turn \in [Pty!Turns -> TurnType] /\ turn' \in [Pty!Turns -> TurnType] /\ turn'[t] = r
      /\ \A u \in Pty!Turns : u # t => turn'[u] = turn[u]
      /\ screen \in Pty!Screens
  BY ScreenTypes
<1>1. Pty!TypeOK' BY <1>0 DEF ScreenInv, Pty!TypeOK, TurnType, SessionType
<1>2. OneTurn'
  <2>1. 0 \notin Pty!Turns BY DEF Pty!Turns
  <2> QED BY <1>0, <2>1 DEF ScreenInv, OneTurn
<1>3. \A u \in Asked : u \in Asked'
  <2> SUFFICES ASSUME NEW u \in Asked PROVE u \in Asked' OBVIOUS
  <2>1. CASE u = t BY <1>0, <2>1 DEF Asked
  <2>2. CASE u # t
    <3>1. u # 0 /\ u \in Pty!Turns BY DEF Asked, Pty!Turns
    <3>2. session.mu = u => session'.mu = u BY <2>2, <3>1
    <3> QED BY <1>0, <2>2, <3>1, <3>2 DEF Asked
  <2> QED BY <2>1, <2>2
<1>4. WorkWasAsked' BY <1>3 DEF ScreenInv, WorkWasAsked
<1>5. Pty!LateLinesOnly'
  <2> SUFFICES ASSUME NEW u \in Pty!Turns, NEW l \in turn'[u].got, l[1] # u
               PROVE  turn'[l[1]].pc \in {"error", "over"}
    BY DEF Pty!LateLinesOnly
  <2>1. l \in Pty!Lines /\ l[1] \in Pty!Turns BY <1>0 DEF TurnType, Pty!Lines
  <2>2. turn[l[1]].pc \in {"error", "over"} => turn'[l[1]].pc \in {"error", "over"} BY <1>0, <2>1
  <2>3. CASE l \in turn[u].got BY <2>2, <2>3 DEF ScreenInv, Pty!LateLinesOnly
  <2>4. CASE l \notin turn[u].got
    <3>1. u = t /\ turn[t].pc = "read" /\ l \in screen.shown BY <1>0, <2>4
    <3>2. l[1] \in Asked BY <3>1 DEF ScreenInv, WorkWasAsked
    <3>3. session.mu = t BY <3>1 DEF ScreenInv, OneTurn, Pty!Working
    <3>4. turn[l[1]].pc \notin {"look", "read"} /\ session.mu # l[1] BY <2>1, <3>1, <3>3 DEF ScreenInv, OneTurn, Pty!Working
    <3> QED BY <2>2, <3>2, <3>4 DEF Asked
  <2> QED BY <2>3, <2>4
<1> QED BY <1>1, <1>2, <1>4, <1>5 DEF ScreenInv

\* What the process does while no turn moves: its work and its screen stay asked for.
LEMMA ProcessMoves ==
  ASSUME ScreenInv, UNCHANGED <<adapter, handler, session, turn>>,
         process' \in ProcessType, screen' \in Pty!Screens,
         \A i \in 1 .. Len(process'.jobs) : process'.jobs[i] \in Asked,
         \A l \in screen'.shown : l[1] \in Asked,
         process'.alive /\ screen'.dialog = "permission" => process'.jobs # <<>>
  PROVE  ScreenInv'
<1>1. Pty!TypeOK' BY DEF ScreenInv, Pty!TypeOK, ProcessType
<1>2. OneTurn' BY DEF ScreenInv, OneTurn
<1>3. WorkWasAsked' BY DEF WorkWasAsked, Asked
<1>4. Pty!LateLinesOnly' BY DEF ScreenInv, Pty!LateLinesOnly
<1> QED BY <1>1, <1>2, <1>3, <1>4 DEF ScreenInv

\* A turn that looks at nothing any more keeps the lock, or gives back its own.
LEMMA TurnEnds ==
  ASSUME ScreenInv, NEW t \in Pty!Turns, NEW how \in {"done", "error"}, Pty!Ends(t, how),
         UNCHANGED <<adapter, handler, process, screen>>,
         turn[t].pc \in Pty!Working \cup {"json", "plain"}
  PROVE  ScreenInv'
<1>0. turn \in [Pty!Turns -> TurnType] /\ session \in SessionType /\ screen \in Pty!Screens
  BY ScreenTypes
<1>1. PICK r : r = Pty!Stripped(turn[t], how) OBVIOUS
<1>2. r \in TurnType /\ r.pc = how /\ r.got = turn[t].got BY <1>0, <1>1, StrippedType
<1>3. turn' = [turn EXCEPT ![t] = r] BY <1>1 DEF Pty!Ends
<1>4. PICK m : m = (IF how = "error" /\ session.mu = t THEN 0 ELSE session.mu) OBVIOUS
<1>5. session' = [session EXCEPT !.mu = m] BY <1>4, Zenon DEF Pty!Ends
<1>6. /\ session' \in SessionType /\ session'.ptmx = session.ptmx /\ session'.vt = session.vt
      /\ session'.mu = m
  BY <1>0, <1>4, <1>5 DEF SessionType
<1>7. t \in Asked => r.pc = "error" \/ (r.pc = "done" /\ session'.mu = t)
  <2>1. t \in Asked => session.mu = t BY DEF ScreenInv, OneTurn, Asked, Pty!Working
  <2> QED BY <1>2, <1>4, <1>6, <2>1
<1>8. session'.mu = session.mu \/ session.mu \in {0, t} BY <1>4, <1>6
<1>9. turn[t].pc \notin {"over", "error"} /\ r.pc \notin Pty!Working BY <1>2 DEF Pty!Working
<1> QED BY <1>0, <1>2, <1>3, <1>6, <1>7, <1>8, <1>9, TurnMoves

LEMMA TurnStep ==
  ASSUME ScreenInv, NEW t \in Pty!Turns, Pty!Stream(t) \/ Pty!Enter(t) \/ Pty!Goes(t) \/ Pty!GiveUp(t)
                                     \/ Pty!Leave(t)
  PROVE  ScreenInv'
<1>0. /\ turn \in [Pty!Turns -> TurnType] /\ turn[t] \in TurnType /\ session \in SessionType
      /\ process \in ProcessType /\ screen \in Pty!Screens
  BY ScreenTypes
<1>1. turn[t].got \subseteq Pty!Lines BY <1>0 DEF TurnType
\* A turn that goes on with what it has, and the lock where it was.
<1>2. ASSUME NEW pc \in {"lock", "json", "plain", "read"}, turn' = [turn EXCEPT ![t].pc = pc],
             UNCHANGED <<session, process, screen>>, UNCHANGED <<adapter, handler>>,
             turn[t].pc \in IF pc = "read" THEN {"look"} ELSE {"idle", "json"}
      PROVE  ScreenInv'
  <2>1. PICK r : r = [turn[t] EXCEPT !.pc = pc] OBVIOUS
  <2>2. r \in TurnType /\ r.pc = pc /\ r.got = turn[t].got /\ r.ptmx = turn[t].ptmx
    BY <1>0, <2>1 DEF TurnType, Pty!Working
  <2> QED BY <1>0, <1>2, <2>1, <2>2, TurnMoves DEF Asked, Pty!Working, ScreenInv, OneTurn
<1>3. CASE Pty!Stream(t)
  BY <1>2, <1>3 DEF Pty!Stream, Pty!Set, Pty!Fixed
<1>4. CASE Pty!Enter(t)
  <2>1. PICK r : r = [turn[t] EXCEPT !.pc = "start"] OBVIOUS
  <2>2. r \in TurnType /\ r.pc = "start" /\ r.got = turn[t].got
    BY <1>0, <2>1 DEF TurnType, Pty!Working
  <2>3. turn' = [turn EXCEPT ![t] = r] /\ turn[t].pc = "lock" /\ session.mu = 0
        /\ UNCHANGED <<adapter, handler, process, screen>>
    BY <1>4, <2>1 DEF Pty!Enter, Pty!Set, Pty!Fixed
  <2>4. session' \in SessionType /\ session'.mu = t /\ session'.ptmx = session.ptmx /\ session'.vt = session.vt
    BY <1>0, <1>4 DEF Pty!Enter, SessionType
  <2>5. t \notin Asked BY <2>3 DEF Asked
  <2> QED BY <1>0, <2>2, <2>3, <2>4, <2>5, TurnMoves
<1>5. CASE Pty!UseSession(t)
  <2>1. PICK r : r = [turn[t] EXCEPT !.pc = "prompt", !.ptmx = session.ptmx] OBVIOUS
  <2>2. r \in TurnType /\ r.pc = "prompt" /\ r.got = turn[t].got /\ r.ptmx = session.ptmx
    BY <1>0, <2>1 DEF TurnType, Pty!Working, SessionType
  <2>3. turn' = [turn EXCEPT ![t] = r] /\ turn[t].pc = "start" /\ session.ptmx # 0
        /\ UNCHANGED <<adapter, handler, session, process, screen>>
    BY <1>5, <2>1 DEF Pty!UseSession, Pty!Joined, Pty!Fixed
  <2>4. session.mu = t /\ session.vt = session.ptmx BY <2>3 DEF ScreenInv, OneTurn, Pty!Working
  <2> QED BY <1>0, <2>2, <2>3, <2>4, TurnMoves DEF Asked
<1>6. CASE Pty!StartSession(t)
  <2>1. turn[t].pc = "start" /\ session.ptmx = 0 /\ UNCHANGED <<adapter, handler>>
    BY <1>6 DEF Pty!StartSession, Pty!Fixed
  <2>2. CASE Pty!Ends(t, "error") /\ UNCHANGED <<process, screen>>
    BY <2>1, <2>2, TurnEnds DEF Pty!Working
  <2>3. CASE /\ process.born < MaxSessions
             /\ LET k == process.born + 1 IN
                  /\ session' = [session EXCEPT !.ptmx = k, !.vt = k]
                  /\ process' = [alive |-> TRUE, hung |-> FALSE, jobs |-> <<>>, born |-> k]
                  /\ Pty!Joined(t, k)
             /\ \E d \in {"none", "trust"} : screen' = [Pty!Blank EXCEPT !.dialog = d]
    <3>1. PICK k : k = process.born + 1 OBVIOUS
    <3>2. k \in 0 .. MaxSessions BY <1>0, <2>3, <3>1, AdaptersAssumption DEF ProcessType
    <3>3. /\ session' = [session EXCEPT !.ptmx = k, !.vt = k]
          /\ process' = [alive |-> TRUE, hung |-> FALSE, jobs |-> <<>>, born |-> k]
          /\ Pty!Joined(t, k)
      BY <2>3, <3>1, Zenon
    <3>4. session' \in SessionType /\ session'.mu = session.mu /\ session'.ptmx = k /\ session'.vt = k
      BY ONLY <1>0, <3>2, <3>3 DEF SessionType
    <3>5. PICK q : q = << >> OBVIOUS
    <3>6. q \in Seq(Pty!Turns) /\ Len(q) = 0 BY ONLY <3>5
    <3>7. process' = [alive |-> TRUE, hung |-> FALSE, jobs |-> q, born |-> k] BY <3>3, <3>5
    <3>8. process' \in ProcessType /\ process'.jobs = q BY ONLY <3>2, <3>6, <3>7 DEF ProcessType
    <3>9. screen' \in Pty!Screens /\ screen'.shown = {} /\ screen'.dialog # "permission"
      BY <2>3 DEF Pty!Screens, Pty!Blank
    <3>10. PICK r : r = [turn[t] EXCEPT !.pc = "prompt", !.ptmx = k] OBVIOUS
    <3>11. r \in TurnType /\ r.pc = "prompt" /\ r.got = turn[t].got /\ r.ptmx = k
      BY ONLY <1>0, <3>2, <3>10 DEF TurnType, Pty!Working
    <3>12. turn' = [turn EXCEPT ![t] = r] BY <3>3, <3>10, Zenon DEF Pty!Joined
    <3>13. /\ turn' \in [Pty!Turns -> TurnType] /\ turn'[t] = r
           /\ \A u \in Pty!Turns : u # t => turn'[u] = turn[u]
      BY ONLY <1>0, <3>11, <3>12, t \in Pty!Turns
    <3>14. session.mu = t BY <2>1 DEF ScreenInv, OneTurn, Pty!Working
    <3>15. Pty!TypeOK'
      BY <2>1, <3>4, <3>8, <3>9, <3>13 DEF ScreenInv, Pty!TypeOK, SessionType, ProcessType, TurnType
    <3>16. OneTurn' BY <3>4, <3>11, <3>13, <3>14 DEF ScreenInv, OneTurn
    <3>17. WorkWasAsked' BY <3>6, <3>8, <3>9 DEF WorkWasAsked
    <3>18. Pty!LateLinesOnly'
      <4> SUFFICES ASSUME NEW u \in Pty!Turns, NEW l \in turn'[u].got, l[1] # u
                   PROVE  turn'[l[1]].pc \in {"error", "over"}
        BY DEF Pty!LateLinesOnly
      <4>1. l \in turn[u].got /\ turn[l[1]].pc \in {"error", "over"}
        BY <3>11, <3>13 DEF ScreenInv, Pty!LateLinesOnly
      <4>2. l[1] # t /\ l[1] \in Pty!Turns BY <1>0, <2>1, <4>1 DEF TurnType, Pty!Lines
      <4> QED BY <3>13, <4>1, <4>2
    <3> QED BY <3>15, <3>16, <3>17, <3>18 DEF ScreenInv
  <2> QED BY <1>6, <2>2, <2>3 DEF Pty!StartSession
<1>7. CASE Pty!RespondToDialog(t)
  <2>1. /\ turn[t].pc = "prompt" /\ UNCHANGED <<adapter, handler, session, turn>> /\ process.alive
        /\ screen' = [screen EXCEPT !.dialog = "none"]
    BY <1>7 DEF Pty!RespondToDialog, Pty!Fixed, Pty!Reaches
  <2>2. screen' \in Pty!Screens /\ screen'.dialog = "none" /\ screen'.shown = screen.shown
    BY <1>0, <2>1 DEF Pty!Screens
  <2>3. PICK jobs : /\ jobs = (IF screen.dialog = "permission" /\ handler = "deny"
                             THEN Tail(process.jobs) ELSE process.jobs)
                   /\ process' = [process EXCEPT !.jobs = jobs]
    BY <1>7, Zenon DEF Pty!RespondToDialog
  <2>4. process.jobs \in Seq(Pty!Turns) BY <1>0 DEF ProcessType
  <2>5. \A i \in 1 .. Len(process.jobs) : process.jobs[i] \in Asked BY DEF ScreenInv, WorkWasAsked
  <2>6. screen.dialog = "permission" => process.jobs # << >> BY <2>1 DEF ScreenInv, WorkWasAsked
  <2>7. jobs \in Seq(Pty!Turns) /\ \A i \in 1 .. Len(jobs) : jobs[i] \in Asked
    BY ONLY <2>3, <2>4, <2>5, <2>6, JobsKeep
  <2>8. process' \in ProcessType /\ process'.jobs = jobs BY ONLY <1>0, <2>3, <2>7 DEF ProcessType
  <2>9. \A l \in screen.shown : l[1] \in Asked BY DEF ScreenInv, WorkWasAsked
  <2> QED BY <2>1, <2>2, <2>7, <2>8, <2>9, ProcessMoves
<1>8. CASE Pty!SeePrompt(t)
  <2>1. PICK r : r = [turn[t] EXCEPT !.pc = "send", !.pre = screen.shown] OBVIOUS
  <2>2. r \in TurnType /\ r.pc = "send" /\ r.got = turn[t].got /\ r.ptmx = turn[t].ptmx
    BY <1>0, <2>1 DEF TurnType, Pty!Working, Pty!Screens
  <2>3. turn' = [turn EXCEPT ![t] = r] /\ turn[t].pc = "prompt"
        /\ UNCHANGED <<adapter, handler, session, process, screen>>
    BY <1>8, <2>1 DEF Pty!SeePrompt, Pty!Fixed
  <2>4. session.mu = t /\ session.vt = turn[t].ptmx BY <2>3 DEF ScreenInv, OneTurn, Pty!Working
  <2> QED BY <1>0, <2>2, <2>3, <2>4, TurnMoves DEF Asked
<1>9. CASE Pty!Send(t)
  <2>1. turn[t].pc = "send" /\ UNCHANGED <<adapter, handler, process>> BY <1>9 DEF Pty!Send, Pty!Fixed
  <2>2. CASE ~Pty!Reaches(t)
    <3>1. Pty!Ends(t, "error") /\ UNCHANGED screen BY <1>9, <2>2 DEF Pty!Send
    <3> QED BY <2>1, <3>1, TurnEnds DEF Pty!Working
  <2>3. CASE Pty!Reaches(t)
    <3>1. screen' = [screen EXCEPT !.echo = t] /\ Pty!Set(t, "type") /\ UNCHANGED session
      BY <1>9, <2>3, Zenon DEF Pty!Send
    <3>2. session.mu = t /\ session.vt = turn[t].ptmx BY <2>1 DEF ScreenInv, OneTurn, Pty!Working
    <3>3. screen' \in Pty!Screens /\ screen'.shown = screen.shown /\ screen'.dialog = screen.dialog
      BY <1>0, <3>1 DEF Pty!Screens
    <3>4. PICK r : r = [turn[t] EXCEPT !.pc = "type"] OBVIOUS
    <3>5. r \in TurnType /\ r.pc = "type" /\ r.got = turn[t].got /\ r.ptmx = turn[t].ptmx
      BY <1>0, <3>4 DEF TurnType, Pty!Working
    <3>6. turn' = [turn EXCEPT ![t] = r] BY <3>1, <3>4 DEF Pty!Set
    <3> QED BY <1>0, <2>1, <3>1, <3>2, <3>3, <3>5, <3>6, TurnMoves DEF Asked
  <2> QED BY <2>2, <2>3
<1>15. CASE Pty!Submit(t)
  <2>1. turn[t].pc = "type" /\ UNCHANGED <<adapter, handler, screen>> BY <1>15 DEF Pty!Submit, Pty!Fixed
  <2>2. CASE Pty!Ends(t, "error") /\ UNCHANGED process BY <2>1, <2>2, TurnEnds DEF Pty!Working
  <2>3. CASE /\ process' = [process EXCEPT !.jobs = Append(@, t)]
             /\ Pty!Set(t, "look") /\ UNCHANGED session
    <3>1. /\ process' = [process EXCEPT !.jobs = Append(process.jobs, t)]
          /\ Pty!Set(t, "look") /\ UNCHANGED <<session, screen>>
      BY <2>1, <2>3, Zenon
    <3>2. session.mu = t /\ session.vt = turn[t].ptmx BY <2>1 DEF ScreenInv, OneTurn, Pty!Working
    <3>3. screen' \in Pty!Screens /\ screen' = screen BY <1>0, <3>1
    <3>4. PICK r : r = [turn[t] EXCEPT !.pc = "look"] OBVIOUS
    <3>5. r \in TurnType /\ r.pc = "look" /\ r.got = turn[t].got /\ r.ptmx = turn[t].ptmx
      BY <1>0, <3>4 DEF TurnType, Pty!Working
    <3>6. turn' = [turn EXCEPT ![t] = r] BY <3>1, <3>4 DEF Pty!Set
    <3>7. /\ turn' \in [Pty!Turns -> TurnType] /\ turn'[t] = r
          /\ \A u \in Pty!Turns : u # t => turn'[u] = turn[u]
      BY ONLY <1>0, <3>5, <3>6, t \in Pty!Turns
    <3>8. t \in Asked' /\ \A u \in Asked : u \in Asked' BY <3>1, <3>5, <3>7 DEF Asked
    <3>9. PICK jobs : jobs = Append(process.jobs, t) BY Zenon
    <3>10. process.jobs \in Seq(Pty!Turns) BY <1>0 DEF ProcessType
    <3>11. \A i \in 1 .. Len(process.jobs) : process.jobs[i] \in Asked' BY <3>8 DEF ScreenInv, WorkWasAsked
    <3>12. /\ jobs \in Seq(Pty!Turns) /\ jobs # << >>
           /\ \A i \in 1 .. Len(jobs) : jobs[i] \in Asked'
      BY ONLY <3>8, <3>9, <3>10, <3>11, JobsKeep, t \in Pty!Turns
    <3>13. process' \in ProcessType /\ process'.jobs = jobs BY ONLY <1>0, <3>1, <3>9, <3>12 DEF ProcessType
    <3>14. Pty!TypeOK'
      BY <1>0, <2>1, <3>1, <3>3, <3>7, <3>13 DEF ScreenInv, Pty!TypeOK, SessionType, ProcessType, TurnType
    <3>15. OneTurn' BY <3>1, <3>2, <3>5, <3>7 DEF ScreenInv, OneTurn
    <3>16. WorkWasAsked' BY <3>3, <3>8, <3>12, <3>13 DEF ScreenInv, WorkWasAsked
    <3>17. Pty!LateLinesOnly'
      <4> SUFFICES ASSUME NEW u \in Pty!Turns, NEW l \in turn'[u].got, l[1] # u
                   PROVE  turn'[l[1]].pc \in {"error", "over"}
        BY DEF Pty!LateLinesOnly
      <4>1. l \in turn[u].got /\ turn[l[1]].pc \in {"error", "over"}
        BY <3>5, <3>7 DEF ScreenInv, Pty!LateLinesOnly
      <4>2. l[1] # t /\ l[1] \in Pty!Turns BY <1>0, <2>1, <4>1 DEF TurnType, Pty!Lines
      <4> QED BY <3>7, <4>1, <4>2
    <3> QED BY <3>14, <3>15, <3>16, <3>17 DEF ScreenInv
  <2> QED BY <1>15, <2>2, <2>3 DEF Pty!Submit
<1>10. CASE Pty!FirstLook(t)
  <2>1. PICK r : r = [turn[t] EXCEPT !.pc = "read", !.seen = screen] OBVIOUS
  <2>2. r \in TurnType /\ r.pc = "read" /\ r.got = turn[t].got /\ r.ptmx = turn[t].ptmx
    BY <1>0, <2>1 DEF TurnType, Pty!Working
  <2>3. turn' = [turn EXCEPT ![t] = r] /\ turn[t].pc = "look"
        /\ UNCHANGED <<adapter, handler, session, process, screen>>
    BY <1>10, <2>1 DEF Pty!FirstLook, Pty!Fixed
  <2>4. session.mu = t /\ session.vt = turn[t].ptmx BY <2>3 DEF ScreenInv, OneTurn, Pty!Working
  <2> QED BY <1>0, <2>2, <2>3, <2>4, TurnMoves DEF Asked
<1>11. CASE Pty!Read(t)
  <2>1. turn[t].pc = "read" /\ UNCHANGED <<adapter, handler, process, screen>>
    BY <1>11 DEF Pty!Read, Pty!Fixed
  <2>2. session.mu = t /\ session.vt = turn[t].ptmx BY <2>1 DEF ScreenInv, OneTurn, Pty!Working
  <2>3. screen.shown \subseteq Pty!Lines /\ Pty!New(t, screen) \subseteq screen.shown
    BY <1>0 DEF Pty!Screens, Pty!New
  <2>4. PICK told : told = (IF screen.spinner THEN {} ELSE Pty!New(t, screen) \ turn[t].got) OBVIOUS
  <2>5. PICK q : q = (IF told = {} THEN turn[t].queue ELSE Pty!Queued(t)) OBVIOUS
  <2>6. PICK next : next = [turn[t] EXCEPT !.seen = screen, !.got = turn[t].got \cup told, !.queue = q]
    OBVIOUS
  <2>7. turn' = [turn EXCEPT ![t] =
           IF told # {} /\ ~Pty!Room(t) THEN Pty!Stripped(turn[t], "tell")
           ELSE IF ~screen.spinner /\ Pty!DetectResponseEnd(screen) THEN Pty!Stripped(next, "done")
           ELSE next]
        /\ UNCHANGED session
    BY <1>11, <2>4, <2>5, <2>6, Zenon DEF Pty!Read
  <2>8. told \subseteq screen.shown /\ told \subseteq Pty!Lines BY <2>3, <2>4
  <2>9. CASE told # {} /\ ~Pty!Room(t)
    <3>1. PICK r : r = Pty!Stripped(turn[t], "tell") OBVIOUS
    <3>2. r \in TurnType /\ r.pc = "tell" /\ r.got = turn[t].got BY <1>0, <3>1, StrippedType
    <3>3. turn' = [turn EXCEPT ![t] = r] BY <2>7, <2>9, <3>1
    <3> QED BY <1>0, <2>1, <2>2, <2>7, <3>2, <3>3, TurnMoves DEF Pty!Working
  <2>10. CASE ~(told # {} /\ ~Pty!Room(t))
    <3>1. q \in 0 .. BufferSize BY <1>0, <2>5, <2>10, QueuedFits DEF TurnType
    <3>2. PICK got : got = turn[t].got \cup told OBVIOUS
    <3>3. got \in SUBSET Pty!Lines BY <1>1, <2>8, <3>2
    <3>4. next = [turn[t] EXCEPT !.seen = screen, !.got = got, !.queue = q] BY <2>6, <3>2
    <3>5. next \in TurnType /\ next.pc = turn[t].pc /\ next.got = got /\ next.ptmx = turn[t].ptmx
      BY ONLY <1>0, <3>1, <3>3, <3>4 DEF TurnType
    <3>6. got \subseteq turn[t].got \cup screen.shown BY <2>8, <3>2
    <3>7. CASE ~screen.spinner /\ Pty!DetectResponseEnd(screen)
      <4>1. PICK r : r = Pty!Stripped(next, "done") OBVIOUS
      <4>2. r \in TurnType /\ r.pc = "done" /\ r.got = got BY <3>5, <4>1, StrippedType
      <4>3. turn' = [turn EXCEPT ![t] = r] BY <2>7, <2>10, <3>7, <4>1
      <4> QED BY <1>0, <2>1, <2>2, <2>7, <3>6, <4>2, <4>3, TurnMoves DEF Pty!Working
    <3>8. CASE ~(~screen.spinner /\ Pty!DetectResponseEnd(screen))
      <4>1. turn' = [turn EXCEPT ![t] = next] BY <2>7, <2>10, <3>8
      <4> QED BY <1>0, <2>1, <2>2, <2>7, <3>5, <3>6, <4>1, TurnMoves
    <3> QED BY <3>7, <3>8
  <2> QED BY <2>9, <2>10
<1>12. CASE Pty!GiveUp(t)
  <2>1. PICK how \in {"done", "error"} : Pty!Ends(t, how) BY <1>12 DEF Pty!GiveUp
  <2> QED BY <1>12, <2>1, TurnEnds DEF Pty!GiveUp, Pty!Fixed, Pty!Working
\* Exec mode: such a turn has no lock and nobody works for it.
<1>16. ASSUME Pty!TellAll(t), turn[t].pc \in {"json", "plain"},
              UNCHANGED <<adapter, handler, process, screen>>
       PROVE  ScreenInv'
  <2>1. PICK q : q = Pty!Queued(t) OBVIOUS
  <2>2. PICK r : r = [turn[t] EXCEPT !.pc = "done", !.queue = q] OBVIOUS
  <2>3. q \in 0 .. BufferSize BY <1>0, <1>16, <2>1, QueuedFits DEF Pty!TellAll
  <2>4. r \in TurnType /\ r.pc = "done" /\ r.got = turn[t].got BY ONLY <1>0, <2>2, <2>3 DEF TurnType
  <2>5. turn' = [turn EXCEPT ![t] = r] /\ UNCHANGED session
    BY <1>16, <2>1, <2>2, Zenon DEF Pty!TellAll
  <2> QED BY <1>0, <1>16, <2>4, <2>5, TurnMoves DEF Asked, Pty!Working
<1>13. CASE Pty!StreamJSON(t)
  <2>1. turn[t].pc = "json" /\ UNCHANGED <<adapter, handler, process, screen>>
    BY <1>13 DEF Pty!StreamJSON, Pty!Fixed
  <2>2. CASE Pty!Ends(t, "done") BY <2>1, <2>2, TurnEnds
  <2>3. CASE Pty!Set(t, "plain") /\ UNCHANGED session BY <1>2, <2>1, <2>3 DEF Pty!Set
  <2> QED BY <1>13, <1>16, <2>1, <2>2, <2>3 DEF Pty!StreamJSON
<1>14. CASE Pty!StreamFallback(t)
  <2>1. turn[t].pc = "plain" /\ UNCHANGED <<adapter, handler, process, screen>>
    BY <1>14 DEF Pty!StreamFallback, Pty!Fixed
  <2>2. ASSUME NEW how \in {"done", "error"}, Pty!Ends(t, how) PROVE ScreenInv'
    BY <2>1, <2>2, TurnEnds
  <2> QED BY <1>14, <1>16, <2>1, <2>2 DEF Pty!StreamFallback
<1>17. CASE Pty!LastEvent(t)
  <2>1. PICK last, got : last = turn[t].pc /\ got = turn[t].got OBVIOUS
  <2>2. turn[t].pc \in {"done", "error"} /\ UNCHANGED <<adapter, handler, process, screen>>
    BY <1>17 DEF Pty!LastEvent, Pty!Fixed
  <2>3. PICK r : r = [Pty!Fresh EXCEPT !.pc = "over", !.last = last, !.got = got] OBVIOUS
  <2>4. last \in {"done", "error"} /\ got \in SUBSET Pty!Lines BY <1>1, <2>1, <2>2
  <2>5. r \in TurnType /\ r.pc = "over" /\ r.got = got BY ONLY <2>3, <2>4, FreshType DEF TurnType
  <2>6. /\ turn' = [turn EXCEPT ![t] = r]
        /\ session' = [session EXCEPT !.mu = IF session.mu = t THEN 0 ELSE session.mu]
    BY <1>17, <2>1, <2>3, Zenon DEF Pty!LastEvent
  <2>7. /\ session' \in SessionType /\ session'.ptmx = session.ptmx /\ session'.vt = session.vt
        /\ session'.mu = session.mu \/ session.mu = t
    BY <1>0, <2>6 DEF SessionType
  <2> QED BY <1>0, <2>1, <2>2, <2>5, <2>6, <2>7, TurnMoves DEF Pty!Working
<1>18. CASE Pty!Leave(t)
  <2>1. PICK n \in 0 .. BufferSize : turn' = [turn EXCEPT ![t].reads = FALSE, ![t].queue = n]
    BY <1>18 DEF Pty!Leave
  <2>2. PICK r : r = [turn[t] EXCEPT !.reads = FALSE, !.queue = n] OBVIOUS
  <2>3. /\ r \in TurnType /\ r.pc = turn[t].pc /\ r.got = turn[t].got /\ r.ptmx = turn[t].ptmx
    BY ONLY <1>0, <2>1, <2>2 DEF TurnType
  <2>4. turn' = [turn EXCEPT ![t] = r] BY <1>0, <2>1, <2>2
  <2>5. turn[t].pc # "over" /\ UNCHANGED <<adapter, handler, session, process, screen>>
    BY <1>18 DEF Pty!Leave, Pty!Fixed
  <2>6. /\ r.pc \in Pty!Working => session.mu = t
        /\ r.pc \in Pty!Working \ {"start"} => session.vt = r.ptmx
    BY <2>3 DEF ScreenInv, OneTurn
  <2>7. t \in Asked => \/ r.pc \in {"look", "read", "error", "over"}
                       \/ r.pc \in {"tell", "done"} /\ session.mu = t
    BY <2>3 DEF Asked
  <2> QED BY <1>0, <2>3, <2>4, <2>5, <2>6, <2>7, TurnMoves
<1> QED
  BY <1>3, <1>4, <1>5, <1>6, <1>7, <1>8, <1>9, <1>10, <1>11, <1>12, <1>13, <1>14, <1>15, <1>17, <1>18
     DEF Pty!Goes

LEMMA ProcessStep ==
  ASSUME ScreenInv, Pty!Spin \/ Pty!AskPermission \/ Pty!PrintLine \/ Pty!Hang \/ Pty!Exit
  PROVE  ScreenInv'
<1>0. /\ process \in ProcessType /\ screen \in Pty!Screens /\ process.jobs \in Seq(Pty!Turns)
      /\ process.alive \in BOOLEAN
  BY ScreenTypes DEF ProcessType
<1>1. /\ \A i \in 1 .. Len(process.jobs) : process.jobs[i] \in Asked
      /\ \A l \in screen.shown : l[1] \in Asked
  BY DEF ScreenInv, WorkWasAsked
<1>2. CASE Pty!Spin
  <2>1. UNCHANGED <<adapter, handler, session, turn, process>> /\ screen.dialog = "none"
        /\ screen' = [screen EXCEPT !.spinner = TRUE]
    BY <1>2 DEF Pty!Spin, Pty!Fixed, Pty!Busy
  <2>2. screen' \in Pty!Screens /\ screen'.shown = screen.shown /\ screen'.dialog = "none"
    BY <1>0, <2>1 DEF Pty!Screens
  <2> QED BY <1>0, <1>1, <2>1, <2>2, ProcessMoves
<1>3. CASE Pty!AskPermission
  <2>1. UNCHANGED <<adapter, handler, session, turn, process>> /\ process.jobs # << >>
        /\ screen' = [screen EXCEPT !.dialog = "permission", !.spinner = FALSE]
    BY <1>3 DEF Pty!AskPermission, Pty!Fixed, Pty!Busy
  <2>2. screen' \in Pty!Screens /\ screen'.shown = screen.shown
    BY ONLY <1>0, <2>1 DEF Pty!Screens
  <2> QED BY <1>0, <1>1, <2>1, <2>2, ProcessMoves
<1>4. CASE Pty!PrintLine
  <2>1. UNCHANGED <<adapter, handler, session, turn>> /\ process.jobs # << >> /\ screen.dialog = "none"
    BY <1>4 DEF Pty!PrintLine, Pty!Fixed, Pty!Busy
  <2>2. PICK j : j = Pty!Job BY Zenon
  <2>3. /\ j \in Pty!Turns /\ j \in Asked /\ Tail(process.jobs) \in Seq(Pty!Turns)
        /\ \A i \in 1 .. Len(Tail(process.jobs)) : Tail(process.jobs)[i] \in Asked
    BY ONLY <1>0, <1>1, <2>1, <2>2, JobsKeep DEF Pty!Job
  <2>4. PICK n \in {1, 2} :
          /\ screen' = [screen EXCEPT !.shown = screen.shown \cup {<<j, n>>}, !.spinner = FALSE]
          /\ n = 1 => UNCHANGED process
          /\ n = 2 => process' = [process EXCEPT !.jobs = Tail(process.jobs)]
    <3>1. CASE <<j, 1>> \notin screen.shown
      <4>1. screen' = [screen EXCEPT !.shown = screen.shown \cup {<<j, 1>>}, !.spinner = FALSE]
            /\ UNCHANGED process
        BY <1>4, <2>2, <3>1, Zenon DEF Pty!PrintLine
      <4> QED BY ONLY <4>1
    <3>2. CASE <<j, 1>> \in screen.shown
      <4>1. screen' = [screen EXCEPT !.shown = screen.shown \cup {<<j, 2>>}, !.spinner = FALSE]
            /\ process' = [process EXCEPT !.jobs = Tail(process.jobs)]
        BY <1>4, <2>2, <3>2, Zenon DEF Pty!PrintLine
      <4> QED BY ONLY <4>1
    <3> QED BY <3>1, <3>2
  <2>5. PICK shown : shown = screen.shown \cup {<<j, n>>} OBVIOUS
  <2>6. shown \subseteq Pty!Lines /\ \A l \in shown : l[1] \in Asked
    BY <1>0, <1>1, <2>3, <2>5 DEF Pty!Lines, Pty!Screens
  <2>7. screen' = [screen EXCEPT !.shown = shown, !.spinner = FALSE] BY <2>4, <2>5
  <2>8. screen' \in Pty!Screens /\ screen'.shown = shown /\ screen'.dialog = screen.dialog
    BY ONLY <1>0, <2>6, <2>7 DEF Pty!Screens
  <2>9. PICK jobs : jobs = (IF n = 1 THEN process.jobs ELSE Tail(process.jobs)) BY Zenon
  <2>10. jobs \in Seq(Pty!Turns) /\ \A i \in 1 .. Len(jobs) : jobs[i] \in Asked
    BY ONLY <1>0, <1>1, <2>3, <2>9
  <2>11. process' \in ProcessType /\ process'.jobs = jobs
    <3>1. CASE n = 1 BY <1>0, <2>4, <2>9, <3>1
    <3>2. CASE n = 2
      <4>1. process' = [process EXCEPT !.jobs = jobs] BY <2>4, <2>9, <3>2, Zenon
      <4> QED BY ONLY <1>0, <2>10, <4>1 DEF ProcessType
    <3> QED BY <3>1, <3>2
  <2> QED BY <2>1, <2>6, <2>8, <2>10, <2>11, ProcessMoves
<1>5. CASE Pty!Exit
  <2>1. UNCHANGED <<adapter, handler, session, turn, screen>> BY <1>5 DEF Pty!Exit, Pty!Fixed
  <2>2. PICK q : q = << >> OBVIOUS
  <2>3. q \in Seq(Pty!Turns) /\ Len(q) = 0 BY ONLY <2>2
  <2>4. process' = [process EXCEPT !.alive = FALSE, !.hung = FALSE, !.jobs = q]
    BY <1>5, <2>2 DEF Pty!Exit, Pty!Killed
  <2>5. process' \in ProcessType /\ process'.jobs = q /\ ~process'.alive
    BY ONLY <1>0, <2>3, <2>4 DEF ProcessType
  <2>6. \A i \in 1 .. Len(process'.jobs) : process'.jobs[i] \in Asked BY <2>3, <2>5
  <2> QED BY <1>0, <1>1, <2>1, <2>5, <2>6, ProcessMoves
<1>6. CASE Pty!Hang
  <2>1. UNCHANGED <<adapter, handler, session, turn, screen>> /\ process' = [process EXCEPT !.hung = TRUE]
    BY <1>6 DEF Pty!Hang, Pty!Fixed
  <2>2. process' \in ProcessType /\ process'.jobs = process.jobs /\ process'.alive = process.alive
    BY ONLY <1>0, <2>1 DEF ProcessType
  <2>3. process.alive /\ screen.dialog = "permission" => process.jobs # << >>
    BY DEF ScreenInv, WorkWasAsked
  <2> QED BY <1>0, <1>1, <2>1, <2>2, <2>3, ProcessMoves
<1> QED BY <1>2, <1>3, <1>4, <1>5, <1>6

LEMMA SessionStep == ASSUME ScreenInv, Pty!Close \/ Pty!RestartSession PROVE ScreenInv'
<1>0. /\ process \in ProcessType /\ session \in SessionType BY ScreenTypes
<1>1. PICK q : q = << >> OBVIOUS
<1>2. q \in Seq(Pty!Turns) /\ Len(q) = 0 BY ONLY <1>1
<1>3. process' = [process EXCEPT !.alive = FALSE, !.hung = FALSE, !.jobs = q]
      /\ UNCHANGED <<adapter, handler, turn>>
  BY <1>1 DEF Pty!Close, Pty!RestartSession, Pty!Killed, Pty!Fixed
<1>4. process' \in ProcessType /\ process'.jobs = q /\ ~process'.alive
  BY ONLY <1>0, <1>2, <1>3 DEF ProcessType
<1>5. 0 \in 0 .. MaxSessions BY AdaptersAssumption
<1>6. /\ session' \in SessionType /\ session'.mu = session.mu /\ session'.ptmx = 0
      /\ \/ session'.vt = session.vt
         \/ session.mu = 0
  <2>1. CASE Pty!Close
    <3>1. session' = [session EXCEPT !.ptmx = 0] BY <2>1 DEF Pty!Close
    <3> QED BY <1>0, <1>5, <3>1 DEF SessionType
  <2>2. CASE Pty!RestartSession
    <3>1. session' = [session EXCEPT !.ptmx = 0, !.vt = 0] /\ session.mu = 0 BY <2>2 DEF Pty!RestartSession
    <3>2. session' \in SessionType /\ session'.mu = session.mu /\ session'.ptmx = 0
      BY ONLY <1>0, <1>5, <3>1 DEF SessionType
    <3> QED BY <3>1, <3>2
  <2> QED BY <2>1, <2>2
<1>7. screen' \in Pty!Screens /\ \A l \in screen'.shown : l \in screen.shown
  <2>1. CASE Pty!Close
    <3>1. UNCHANGED screen BY <2>1 DEF Pty!Close
    <3> QED BY <3>1, ScreenTypes
  <2>2. CASE Pty!RestartSession
    <3>1. screen' = Pty!Blank BY <2>2 DEF Pty!RestartSession
    <3>2. Pty!Blank \in Pty!Screens /\ Pty!Blank.shown = {} BY DEF Pty!Blank, Pty!Screens
    <3> QED BY <3>1, <3>2
  <2> QED BY <2>1, <2>2
<1>8. Pty!TypeOK' BY <1>3, <1>4, <1>6, <1>7 DEF ScreenInv, Pty!TypeOK, SessionType, ProcessType
<1>9. OneTurn'
  <2>1. 0 \notin Pty!Turns BY DEF Pty!Turns
  <2> QED BY <1>3, <1>6, <2>1 DEF ScreenInv, OneTurn, Pty!Working
<1>10. Asked' = Asked BY <1>3, <1>6 DEF Asked
<1>11. WorkWasAsked' BY <1>2, <1>4, <1>7, <1>10 DEF ScreenInv, WorkWasAsked
<1>12. Pty!LateLinesOnly' BY <1>3 DEF ScreenInv, Pty!LateLinesOnly
<1> QED BY <1>8, <1>9, <1>11, <1>12 DEF ScreenInv

LEMMA ScreenAlways == AdaptersSpec => []ScreenInv
<1>1. AdaptersInit => ScreenInv
  <2> SUFFICES ASSUME Pty!Init PROVE ScreenInv BY DEF AdaptersInit
  <2>1. 0 \in 0 .. MaxSessions BY AdaptersAssumption
  <2>2. Pty!Blank \in Pty!Screens /\ Pty!Blank.shown = {} /\ Pty!Blank.dialog = "none"
    BY DEF Pty!Blank, Pty!Screens
  <2>3. Pty!Fresh \in TurnType /\ Pty!Fresh.pc = "idle" /\ Pty!Fresh.got = {}
    BY FreshType DEF Pty!Fresh
  <2>4. PICK q : q = << >> OBVIOUS
  <2>5. q \in Seq(Pty!Turns) /\ Len(q) = 0 BY ONLY <2>4
  <2>6. process = [alive |-> FALSE, hung |-> FALSE, jobs |-> q, born |-> 0] BY <2>4 DEF Pty!Init, Pty!Quiet
  <2>7. process \in ProcessType /\ process.jobs = q /\ ~process.alive BY <2>1, <2>5, <2>6 DEF ProcessType
  <2>8. session \in SessionType /\ session.ptmx = 0 BY <2>1 DEF Pty!Init, SessionType
  <2>9. /\ turn \in [Pty!Turns -> TurnType] /\ screen \in Pty!Screens /\ screen.shown = {}
        /\ \A t \in Pty!Turns : turn[t].pc = "idle" /\ turn[t].got = {}
    BY <2>2, <2>3 DEF Pty!Init
  <2>10. Pty!TypeOK BY <2>7, <2>8, <2>9 DEF Pty!Init, Pty!TypeOK, SessionType, ProcessType, TurnType
  <2>11. OneTurn BY <2>8, <2>9 DEF OneTurn, Pty!Working
  <2>12. WorkWasAsked BY <2>5, <2>7, <2>9 DEF WorkWasAsked
  <2>13. Pty!LateLinesOnly BY <2>9 DEF Pty!LateLinesOnly
  <2> QED BY <2>10, <2>11, <2>12, <2>13 DEF ScreenInv
<1>2. ScreenInv /\ [AdaptersNext]_allvars => ScreenInv'
  <2> SUFFICES ASSUME ScreenInv, [AdaptersNext]_allvars PROVE ScreenInv' OBVIOUS
  <2>1. ASSUME UNCHANGED ptyvars PROVE ScreenInv'
    <3>1. /\ UNCHANGED adapter /\ UNCHANGED handler /\ UNCHANGED session
          /\ UNCHANGED process /\ UNCHANGED screen /\ UNCHANGED turn
      BY <2>1 DEF ptyvars
    <3>2. Pty!TypeOK' BY <3>1 DEF ScreenInv, Pty!TypeOK
    <3>3. OneTurn' BY <3>1 DEF ScreenInv, OneTurn
    <3>4. WorkWasAsked' BY <3>1 DEF ScreenInv, WorkWasAsked, Asked
    <3>5. Pty!LateLinesOnly' BY <3>1 DEF ScreenInv, Pty!LateLinesOnly
    <3> QED BY <3>2, <3>3, <3>4, <3>5 DEF ScreenInv
  <2>2. Pty!Next => ScreenInv' BY TurnStep, ProcessStep, SessionStep DEF Pty!Next
  <2> QED BY <2>1, <2>2, OneAdapterMoves
<1> QED BY <1>1, <1>2, PTL DEF AdaptersSpec

\* A turn that is past its start (genkit/pty_provider.go: Stream) looks at the
\* screen of the session that it writes to, whatever closes or restarts sessions
\* under it: for any number of turns and sessions.
THEOREM ScreensAreTheirs == AdaptersSpec => []ScreenIsItsOwn
<1>1. ScreenInv => ScreenIsItsOwn BY DEF ScreenInv, OneTurn, ScreenIsItsOwn, Pty!ScreenIsItsOwn
<1> QED BY <1>1, ScreenAlways, PTL

-----------------------------------------------------------------------------
(* The updates of ACP calls *)

Unprompted == {"idle", "lock", "clear", "open"}
Prompted   == {"prompt", "collect", "drain"}

\* The lock is with the call that connects, the list with the one that drains it.
LocksHeld ==
  \A c \in AcpCalls :
    /\ acall[c].pc \in {"clear", "open"} => mu = c
    /\ acall[c].pc = "drain" =>
         client[acall[c].k].mu = c /\ acall[c].left \subseteq client[acall[c].k].updates

\* A connection that is used by somebody was started.
ConnsAreUsed ==
  /\ conn # 0 => client[conn].used
  /\ \A c \in AcpCalls :
       /\ acall[c].pc = "clear" => conn # 0
       /\ acall[c].pc \in Prompted => acall[c].k # 0 /\ client[acall[c].k].used
       /\ agent[c].state = "works" => agent[c].k # 0 /\ client[agent[c].k].used
       /\ acall[c].pc \in Unprompted => agent[c].state = "none"

\* An update that there is was made by the turn of its call, and is counted.
UpdatesAreOf(c, S) ==
  \A u \in S : u[1] = c =>
    /\ acall[c].pc \notin Unprompted
    /\ agent[c].state = "works" => u[2] <= agent[c].n
UpdatesAreCounted ==
  \A c \in AcpCalls :
    /\ \A k \in Acp!Conns : UpdatesAreOf(c, client[k].updates)
    /\ \A d \in AcpCalls : UpdatesAreOf(c, acall[d].got)

\* An update is in one list or with one call, but for those that are being drained.
UpdatesAreApart ==
  /\ Acp!EachUpdateOnce
  /\ \A k \in Acp!Conns :
       /\ \A j \in Acp!Conns : j # k => client[j].updates \cap client[k].updates = {}
       /\ \A c \in AcpCalls :
            client[k].mu = c \/ acall[c].got \cap client[k].updates = {}

UpdatesInv == Acp!TypeOK /\ LocksHeld /\ ConnsAreUsed /\ UpdatesAreCounted /\ UpdatesAreApart

AcpClientType == [up : BOOLEAN, used : BOOLEAN, mu : AcpCalls \cup {"free"},
                  updates : SUBSET Acp!Chunks]
AcpCallType   == [pc : {"idle", "lock", "clear", "open", "prompt", "collect", "drain", "last", "over"},
                  kind : {"chat", "stream"}, k : 0 .. MaxConns, left : SUBSET Acp!Chunks,
                  queue : 0 .. BufferSize, reads : BOOLEAN, got : SUBSET Acp!Chunks]
AcpAgentType  == [state : {"none", "works", "done"}, k : 0 .. MaxConns, n : 0 .. NChunks]

LEMMA AcpTypes ==
  ASSUME UpdatesInv
  PROVE  /\ mu \in AcpCalls \cup {"free"} /\ conn \in 0 .. MaxConns
         /\ client \in [Acp!Conns -> AcpClientType] /\ acall \in [AcpCalls -> AcpCallType]
         /\ agent \in [AcpCalls -> AcpAgentType]
BY DEF UpdatesInv, Acp!TypeOK, AcpClientType, AcpCallType, AcpAgentType

LEMMA AcpTypesAgain ==
  ASSUME mu' \in AcpCalls \cup {"free"}, conn' \in 0 .. MaxConns,
         client' \in [Acp!Conns -> AcpClientType], acall' \in [AcpCalls -> AcpCallType],
         agent' \in [AcpCalls -> AcpAgentType]
  PROVE  Acp!TypeOK'
BY DEF Acp!TypeOK, AcpClientType, AcpCallType, AcpAgentType

\* A step of a call: it touches only lists whose lock is free or its own, drops
\* updates or takes them from there, and goes on, or starts, with its own turn.
TypesStay ==
  /\ mu' \in AcpCalls \cup {"free"} /\ conn' \in 0 .. MaxConns
  /\ client' \in [Acp!Conns -> AcpClientType] /\ agent' \in [AcpCalls -> AcpAgentType]

OthersStay(c) ==
  /\ mu' = mu \/ mu \in {"free", c}
  /\ conn' = conn \/ mu \in {"free", c}
  /\ \A d \in AcpCalls : d # c => agent'[d] = agent[d]
  /\ \A k \in Acp!Conns :
       /\ \/ client'[k] = client[k] \/ client[k].mu \in {"free", c}
          \/ ~client[k].used /\ client'[k].updates = {}
       /\ client'[k].updates \subseteq client[k].updates
       /\ client[k].used => client'[k].used
  /\ conn' # 0 => client'[conn'].used

TurnFits(c, r) ==
  /\ r.pc \in Unprompted => acall[c].pc \in Unprompted /\ agent'[c].state = "none"
  /\ agent'[c].state = "works" =>
       /\ agent'[c].k # 0 /\ client'[agent'[c].k].used
       /\ acall[c].pc \in Unprompted \/ agent[c] = agent'[c]
  /\ r.pc \in {"clear", "open"} => mu' = c
  /\ r.pc = "clear" => conn' # 0
  /\ r.pc \in Prompted => r.k # 0 /\ client'[r.k].used
  /\ r.pc = "drain" => client'[r.k].mu = c /\ r.left \subseteq client'[r.k].updates

TakesFreely(c, r) ==
  /\ \A u \in r.got : \/ u \in acall[c].got
                      \/ \E k \in Acp!Conns : u \in client[k].updates /\ client[k].mu \in {"free", c}
  /\ \A k \in Acp!Conns : client'[k].mu = c \/ r.got \cap client'[k].updates = {}

LEMMA CallMoves ==
  ASSUME UpdatesInv, NEW c \in AcpCalls, NEW r \in AcpCallType, acall' = [acall EXCEPT ![c] = r],
         TypesStay, OthersStay(c), TurnFits(c, r), TakesFreely(c, r)
  PROVE  UpdatesInv'
<1> USE DEF TypesStay, OthersStay, TurnFits, TakesFreely
<1>0. /\ client \in [Acp!Conns -> AcpClientType] /\ acall \in [AcpCalls -> AcpCallType]
      /\ agent \in [AcpCalls -> AcpAgentType]
      /\ acall' \in [AcpCalls -> AcpCallType] /\ acall'[c] = r
      /\ \A d \in AcpCalls : d # c => acall'[d] = acall[d]
      /\ "free" \notin AcpCalls
  BY AcpTypes, AdaptersAssumption
<1>1. Acp!TypeOK' BY <1>0, AcpTypesAgain
<1>2. ASSUME NEW d \in AcpCalls, d # c, acall[d].pc \in Prompted
      PROVE  acall[d].k \in Acp!Conns
  BY <1>0, <1>2 DEF UpdatesInv, ConnsAreUsed, AcpCallType, Acp!Conns
<1>3. LocksHeld'
  <2> SUFFICES ASSUME NEW d \in AcpCalls
               PROVE  /\ acall'[d].pc \in {"clear", "open"} => mu' = d
                      /\ acall'[d].pc = "drain" =>
                           client'[acall'[d].k].mu = d /\ acall'[d].left \subseteq client'[acall'[d].k].updates
    BY DEF LocksHeld
  <2>1. CASE d = c BY <1>0, <2>1
  <2>2. CASE d # c
    <3>1. acall'[d] = acall[d] BY <1>0, <2>2
    <3>2. acall[d].pc \in {"clear", "open"} => mu' = d BY <1>0, <2>2 DEF UpdatesInv, LocksHeld
    <3>3. ASSUME acall[d].pc = "drain"
          PROVE  client'[acall[d].k].mu = d /\ acall[d].left \subseteq client'[acall[d].k].updates
      <4>1. client[acall[d].k].mu = d /\ acall[d].left \subseteq client[acall[d].k].updates
        BY <3>3 DEF UpdatesInv, LocksHeld
      <4>2. acall[d].k \in Acp!Conns /\ client[acall[d].k].used
        BY <1>2, <2>2, <3>3 DEF Prompted, UpdatesInv, ConnsAreUsed
      <4> QED BY <1>0, <2>2, <4>1, <4>2
    <3> QED BY <3>1, <3>2, <3>3
  <2> QED BY <2>1, <2>2
<1>4. ConnsAreUsed'
  <2> SUFFICES ASSUME NEW d \in AcpCalls
               PROVE  /\ acall'[d].pc = "clear" => conn' # 0
                      /\ acall'[d].pc \in Prompted => acall'[d].k # 0 /\ client'[acall'[d].k].used
                      /\ agent'[d].state = "works" => agent'[d].k # 0 /\ client'[agent'[d].k].used
                      /\ acall'[d].pc \in Unprompted => agent'[d].state = "none"
    BY DEF ConnsAreUsed
  <2>1. CASE d = c BY <1>0, <2>1
  <2>2. CASE d # c
    <3>1. acall'[d] = acall[d] /\ agent'[d] = agent[d] /\ agent[d] \in AcpAgentType BY <1>0, <2>2
    <3>2. acall[d].pc = "clear" => conn' # 0
      BY <1>0, <2>2 DEF UpdatesInv, ConnsAreUsed, LocksHeld
    <3>3. acall[d].pc \in Prompted => acall[d].k # 0 /\ client'[acall[d].k].used
      BY <1>2, <2>2 DEF UpdatesInv, ConnsAreUsed
    <3>4. agent[d].state = "works" => agent[d].k # 0 /\ client'[agent[d].k].used
      <4>1. agent[d].state = "works" => agent[d].k # 0 /\ client[agent[d].k].used
        BY DEF UpdatesInv, ConnsAreUsed
      <4>2. agent[d].k \in {0} \cup Acp!Conns BY <3>1 DEF AcpAgentType, Acp!Conns
      <4> QED BY <4>1, <4>2
    <3>5. acall[d].pc \in Unprompted => agent[d].state = "none" BY DEF UpdatesInv, ConnsAreUsed
    <3> QED BY <3>1, <3>2, <3>3, <3>4, <3>5, ZenonT(30)
  <2> QED BY <2>1, <2>2
<1>5. ASSUME NEW d \in AcpCalls, NEW u, u[1] = d,
             \/ \E k \in Acp!Conns : u \in client[k].updates
             \/ \E e \in AcpCalls : u \in acall[e].got
      PROVE  acall'[d].pc \notin Unprompted /\ (agent'[d].state = "works" => u[2] <= agent'[d].n)
  <2>1. acall[d].pc \notin Unprompted /\ (agent[d].state = "works" => u[2] <= agent[d].n)
    BY <1>5 DEF UpdatesInv, UpdatesAreCounted, UpdatesAreOf
  <2>2. CASE d = c BY <1>0, <2>1, <2>2
  <2>3. CASE d # c BY <1>0, <2>1, <2>3
  <2> QED BY <2>2, <2>3
<1>6. UpdatesAreCounted'
  <2>1. ASSUME NEW d \in AcpCalls, NEW k \in Acp!Conns PROVE UpdatesAreOf(d, client[k].updates)'
    BY <1>5 DEF UpdatesAreOf
  <2>2. ASSUME NEW d \in AcpCalls, NEW e \in AcpCalls PROVE UpdatesAreOf(d, acall[e].got)'
    <3>1. \A u \in acall'[e].got : \/ \E k \in Acp!Conns : u \in client[k].updates
                                   \/ \E f \in AcpCalls : u \in acall[f].got
      BY <1>0
    <3> QED BY <1>5, <3>1 DEF UpdatesAreOf
  <2> QED BY <2>1, <2>2 DEF UpdatesAreCounted
<1>7. Acp!EachUpdateOnce'
  <2>1. ASSUME NEW d \in AcpCalls, d # c PROVE acall[d].got \cap r.got = {}
    <3> SUFFICES ASSUME NEW u, u \in acall[d].got, u \in r.got PROVE FALSE OBVIOUS
    <3>1. CASE u \in acall[c].got BY <2>1, <3>1 DEF UpdatesInv, UpdatesAreApart, Acp!EachUpdateOnce
    <3>2. CASE \E k \in Acp!Conns : u \in client[k].updates /\ client[k].mu \in {"free", c}
      BY <1>0, <2>1, <3>2 DEF UpdatesInv, UpdatesAreApart
    <3> QED BY <3>1, <3>2
  <2> QED BY <1>0, <2>1 DEF UpdatesInv, UpdatesAreApart, Acp!EachUpdateOnce
<1>8. UpdatesAreApart'
  <2> SUFFICES ASSUME NEW k \in Acp!Conns
               PROVE  /\ \A j \in Acp!Conns : j # k => client'[j].updates \cap client'[k].updates = {}
                      /\ \A d \in AcpCalls :
                           client'[k].mu = d \/ acall'[d].got \cap client'[k].updates = {}
    BY <1>7 DEF UpdatesAreApart, Acp!Conns
  <2>1. ASSUME NEW j \in Acp!Conns, j # k PROVE client'[j].updates \cap client'[k].updates = {}
    BY <2>1 DEF UpdatesInv, UpdatesAreApart
  <2>2. ASSUME NEW d \in AcpCalls, d # c
        PROVE  client'[k].mu = d \/ acall'[d].got \cap client'[k].updates = {}
    <3>1. client[k].mu = d \/ acall[d].got \cap client[k].updates = {} BY DEF UpdatesInv, UpdatesAreApart
    <3> QED BY <1>0, <2>2, <3>1
  <2> QED BY <1>0, <2>1, <2>2
<1> QED BY <1>1, <1>3, <1>4, <1>6, <1>8 DEF UpdatesInv

\* What the agent program does without a new update: it stops with some turns.
LEMMA AgentMoves ==
  ASSUME UpdatesInv, UNCHANGED acall, UNCHANGED mu,
         conn' = conn \/ (mu = "free" /\ conn' = 0),
         client' \in [Acp!Conns -> AcpClientType],
         \A k \in Acp!Conns : /\ client'[k].mu = client[k].mu /\ client'[k].updates = client[k].updates
                              /\ client'[k].used = client[k].used,
         agent' \in [AcpCalls -> AcpAgentType],
         \A c \in AcpCalls : agent'[c] = agent[c]
                             \/ agent'[c].state = "none"
                             \/ (agent'[c].state = "done" /\ agent[c].state = "works")
  PROVE  UpdatesInv'
<1>0. /\ client \in [Acp!Conns -> AcpClientType] /\ acall \in [AcpCalls -> AcpCallType]
      /\ agent \in [AcpCalls -> AcpAgentType] /\ mu \in AcpCalls \cup {"free"}
      /\ "free" \notin AcpCalls /\ conn \in 0 .. MaxConns /\ conn' \in 0 .. MaxConns
  BY AcpTypes, AdaptersAssumption
<1>1. Acp!TypeOK' BY <1>0, AcpTypesAgain
<1>2. \A c \in AcpCalls : acall[c].pc \in Prompted => acall[c].k \in Acp!Conns
  BY <1>0 DEF UpdatesInv, ConnsAreUsed, AcpCallType, Acp!Conns
<1>3. LocksHeld' BY <1>2 DEF UpdatesInv, LocksHeld, Prompted
<1>4. ConnsAreUsed'
  <2>1. conn' # 0 => client'[conn'].used BY <1>0 DEF UpdatesInv, ConnsAreUsed, Acp!Conns
  <2> SUFFICES ASSUME NEW d \in AcpCalls
               PROVE  /\ acall'[d].pc = "clear" => conn' # 0
                      /\ acall'[d].pc \in Prompted => acall'[d].k # 0 /\ client'[acall'[d].k].used
                      /\ agent'[d].state = "works" => agent'[d].k # 0 /\ client'[agent'[d].k].used
                      /\ acall'[d].pc \in Unprompted => agent'[d].state = "none"
    BY <2>1 DEF ConnsAreUsed
  <2>2. acall[d].pc = "clear" => conn' # 0 BY <1>0 DEF UpdatesInv, ConnsAreUsed, LocksHeld
  <2>3. acall[d].pc \in Prompted => acall[d].k # 0 /\ client'[acall[d].k].used
    BY <1>2 DEF UpdatesInv, ConnsAreUsed
  <2>4. agent'[d].state = "works" => agent'[d].k # 0 /\ client'[agent'[d].k].used
    <3>1. agent'[d].state = "works" => agent'[d] = agent[d] OBVIOUS
    <3>2. agent[d].state = "works" => agent[d].k \in Acp!Conns /\ client[agent[d].k].used
      <4>1. agent[d].k \in 0 .. MaxConns BY <1>0 DEF AcpAgentType
      <4> QED BY <4>1 DEF UpdatesInv, ConnsAreUsed, Acp!Conns
    <3> QED BY <3>1, <3>2 DEF Acp!Conns
  <2>5. acall[d].pc \in Unprompted => agent'[d].state = "none" BY DEF UpdatesInv, ConnsAreUsed
  <2> QED BY <2>2, <2>3, <2>4, <2>5
<1>5. UpdatesAreCounted' BY DEF UpdatesInv, UpdatesAreCounted, UpdatesAreOf
<1>6. UpdatesAreApart'
  <2>1. Acp!EachUpdateOnce' BY DEF UpdatesInv, UpdatesAreApart, Acp!EachUpdateOnce
  <2> QED BY <2>1 DEF UpdatesInv, UpdatesAreApart, Acp!Conns
<1> QED BY <1>1, <1>3, <1>4, <1>5, <1>6 DEF UpdatesInv

\* A call that goes on where it is, with no lock and no update changed.
GoesOn(c, r) ==
  /\ r.pc \in Unprompted => acall[c].pc \in Unprompted
  /\ r.pc \in {"clear", "open"} => r.pc = acall[c].pc
  /\ r.pc \in Prompted => acall[c].pc \in Prompted /\ r.k = acall[c].k
  /\ r.pc = "drain" => acall[c].pc = "drain" /\ r.left \subseteq acall[c].left
  /\ r.got \subseteq acall[c].got \cup acall[c].left
  /\ acall[c].pc # "drain" => r.got \subseteq acall[c].got

LEMMA CallGoesOn ==
  ASSUME UpdatesInv, NEW c \in AcpCalls, NEW r \in AcpCallType, acall' = [acall EXCEPT ![c] = r],
         UNCHANGED <<mu, conn, client>>, agent' \in [AcpCalls -> AcpAgentType],
         \A d \in AcpCalls : d # c => agent'[d] = agent[d],
         agent'[c] = agent[c] \/ agent'[c].state = "none", GoesOn(c, r)
  PROVE  UpdatesInv'
<1> USE DEF GoesOn
<1>0. /\ client \in [Acp!Conns -> AcpClientType] /\ acall[c] \in AcpCallType
      /\ agent \in [AcpCalls -> AcpAgentType] /\ agent[c] \in AcpAgentType
      /\ mu \in AcpCalls \cup {"free"} /\ conn \in 0 .. MaxConns
  BY AcpTypes
<1>1. acall[c].pc \in Prompted => acall[c].k # 0 /\ client[acall[c].k].used /\ acall[c].k \in Acp!Conns
  BY <1>0 DEF UpdatesInv, ConnsAreUsed, AcpCallType, Acp!Conns
<1>2. acall[c].pc = "drain" => client[acall[c].k].mu = c /\ acall[c].left \subseteq client[acall[c].k].updates
  BY DEF UpdatesInv, LocksHeld
<1>3. \A u \in r.got : \/ u \in acall[c].got
                       \/ \E k \in Acp!Conns : u \in client[k].updates /\ client[k].mu \in {"free", c}
  BY <1>1, <1>2 DEF Prompted
<1>4. ASSUME NEW k \in Acp!Conns PROVE client[k].mu = c \/ r.got \cap client[k].updates = {}
  <2>1. client[k].mu = c \/ acall[c].got \cap client[k].updates = {} BY DEF UpdatesInv, UpdatesAreApart
  <2>2. CASE acall[c].pc = "drain" /\ acall[c].k # k
    <3>1. client[acall[c].k].updates \cap client[k].updates = {}
      BY <1>1, <2>2 DEF UpdatesInv, UpdatesAreApart, Prompted
    <3> QED BY <1>2, <2>1, <2>2, <3>1
  <2> QED BY <1>2, <2>1, <2>2
<1>5. agent[c].state = "works" => agent[c].k # 0 /\ client[agent[c].k].used
  BY DEF UpdatesInv, ConnsAreUsed
<1>6. acall[c].pc \in Unprompted => agent[c].state = "none" BY DEF UpdatesInv, ConnsAreUsed
<1>7. /\ conn # 0 => client[conn].used
      /\ acall[c].pc = "clear" => conn # 0 /\ mu = c
      /\ acall[c].pc = "open" => mu = c
  BY DEF UpdatesInv, ConnsAreUsed, LocksHeld
<1>8. TypesStay /\ OthersStay(c) BY <1>0, <1>7 DEF TypesStay, OthersStay
<1>9. TurnFits(c, r)
  BY <1>1, <1>2, <1>5, <1>6, <1>7 DEF TurnFits, Prompted
<1>10. TakesFreely(c, r) BY <1>3, <1>4 DEF TakesFreely
<1> QED BY <1>8, <1>9, <1>10, CallMoves

\* What a call ends with.
LEMMA AcpOver ==
  ASSUME NEW c \in AcpCalls, NEW got \in SUBSET Acp!Chunks, acall[c] \in AcpCallType, Acp!Over(c, got)
  PROVE  \E r \in AcpCallType : acall' = [acall EXCEPT ![c] = r] /\ r.pc = "over" /\ r.got = got
<1>1. 0 \in 0 .. MaxConns /\ 0 \in 0 .. BufferSize BY AdaptersAssumption
<1>2. PICK reads \in BOOLEAN : reads = acall[c].reads BY DEF AcpCallType
<1>3. PICK s : s = Acp!Unasked OBVIOUS
<1>4. s \in AcpCallType BY ONLY <1>1, <1>3 DEF Acp!Unasked, AcpCallType
<1>5. PICK r : r = [s EXCEPT !.pc = "over", !.reads = reads, !.got = got] OBVIOUS
<1>6. r \in AcpCallType /\ r.pc = "over" /\ r.got = got
  BY ONLY <1>2, <1>4, <1>5, got \in SUBSET Acp!Chunks DEF AcpCallType
<1>7. acall' = [acall EXCEPT ![c] = r] BY <1>2, <1>3, <1>5, Zenon DEF Acp!Over
<1> QED BY <1>6, <1>7

\* A call that starts its turn, on a connection whose list is empty from then on.
LEMMA PromptIs ==
  ASSUME UpdatesInv, NEW c \in AcpCalls, NEW k \in Acp!Conns, Acp!Prompt(c, k), conn' = k,
         acall[c].pc \in {"clear", "open"}, client' \in [Acp!Conns -> AcpClientType],
         client[k].mu = "free" \/ ~client[k].used, client'[k].updates = {}, client'[k].used,
         client'[k].mu = "free" \/ client'[k].mu = client[k].mu,
         \A j \in Acp!Conns : j # k => client'[j] = client[j]
  PROVE  UpdatesInv'
<1>0. /\ client \in [Acp!Conns -> AcpClientType] /\ acall[c] \in AcpCallType
      /\ agent \in [AcpCalls -> AcpAgentType] /\ agent[c] \in AcpAgentType
  BY AcpTypes
<1>1. k \in 0 .. MaxConns /\ k # 0 BY AdaptersAssumption DEF Acp!Conns
<1>2. PICK r : r = [acall[c] EXCEPT !.pc = "prompt", !.k = k] OBVIOUS
<1>3. r \in AcpCallType /\ r.pc = "prompt" /\ r.got = acall[c].got /\ r.k = k
  BY ONLY <1>0, <1>1, <1>2 DEF AcpCallType
<1>4. acall' = [acall EXCEPT ![c] = r] /\ mu' = "free" BY <1>2 DEF Acp!Prompt
<1>5. PICK s : s = [agent[c] EXCEPT !.state = "works", !.k = k] OBVIOUS
<1>6. s \in AcpAgentType /\ s.k = k BY ONLY <1>0, <1>1, <1>5 DEF AcpAgentType
<1>7. agent' = [agent EXCEPT ![c] = s] BY <1>5 DEF Acp!Prompt
<1>8. agent' \in [AcpCalls -> AcpAgentType] /\ agent'[c] = s
      /\ \A d \in AcpCalls : d # c => agent'[d] = agent[d]
  BY ONLY <1>0, <1>6, <1>7, c \in AcpCalls
<1>9. mu = c BY DEF UpdatesInv, LocksHeld
<1>10. ASSUME NEW j \in Acp!Conns PROVE client'[j].mu = c \/ r.got \cap client'[j].updates = {}
  BY <1>3 DEF UpdatesInv, UpdatesAreApart
<1>11. \A j \in Acp!Conns :
         /\ \/ client'[j] = client[j] \/ client[j].mu \in {"free", c}
            \/ ~client[j].used /\ client'[j].updates = {}
         /\ client'[j].updates \subseteq client[j].updates
         /\ client[j].used => client'[j].used
  OBVIOUS
<1>12. acall[c].pc \in Unprompted BY DEF Unprompted
<1>13. r.pc \notin Unprompted /\ r.pc \notin {"clear", "open", "drain"} BY <1>3 DEF Unprompted
<1>14. TypesStay BY <1>1, <1>4, <1>8 DEF TypesStay
<1>15. OthersStay(c) BY <1>8, <1>9, <1>11 DEF OthersStay
<1>16. TurnFits(c, r) BY <1>1, <1>3, <1>6, <1>8, <1>12, <1>13 DEF TurnFits
<1>17. TakesFreely(c, r) BY <1>3, <1>10 DEF TakesFreely
<1> QED BY <1>3, <1>4, <1>14, <1>15, <1>16, <1>17, CallMoves

LEMMA AskStep == ASSUME UpdatesInv, NEW c \in AcpCalls, Acp!Ask(c) PROVE UpdatesInv'
<1>0. acall[c] \in AcpCallType /\ agent \in [AcpCalls -> AcpAgentType] BY AcpTypes
<1>1. PICK kind \in {"chat", "stream"} : acall' = [acall EXCEPT ![c].pc = "lock", ![c].kind = kind]
  BY DEF Acp!Ask
<1>2. PICK r : r = [acall[c] EXCEPT !.pc = "lock", !.kind = kind] OBVIOUS
<1>3. r \in AcpCallType /\ r.pc = "lock" /\ r.got = acall[c].got
  BY ONLY <1>0, <1>2, kind \in {"chat", "stream"} DEF AcpCallType
<1>4. acall' = [acall EXCEPT ![c] = r] /\ UNCHANGED <<mu, conn, client, agent>> /\ acall[c].pc = "idle"
  BY <1>1, <1>2 DEF Acp!Ask
<1>5. GoesOn(c, r) BY <1>3, <1>4 DEF GoesOn, Unprompted, Prompted
<1> QED BY <1>0, <1>3, <1>4, <1>5, CallGoesOn

LEMMA ConnectStep == ASSUME UpdatesInv, NEW c \in AcpCalls, Acp!EnsureConnection(c) PROVE UpdatesInv'
<1>0. /\ acall[c] \in AcpCallType /\ agent \in [AcpCalls -> AcpAgentType] /\ conn \in 0 .. MaxConns
      /\ client \in [Acp!Conns -> AcpClientType]
  BY AcpTypes
<1>1. PICK pc \in {"clear", "open"} : /\ acall' = [acall EXCEPT ![c].pc = pc]
                                      /\ pc = "clear" => conn' # 0
                                      /\ conn' \in {conn, 0}
  BY Zenon DEF Acp!EnsureConnection, Acp!Alive
<1>2. PICK r : r = [acall[c] EXCEPT !.pc = pc] OBVIOUS
<1>3. r \in AcpCallType /\ r.pc = pc /\ r.got = acall[c].got
  BY ONLY <1>0, <1>2, pc \in {"clear", "open"} DEF AcpCallType
<1>4. acall' = [acall EXCEPT ![c] = r] BY <1>1, <1>2
<1>5. acall[c].pc = "lock" /\ mu = "free" /\ mu' = c /\ UNCHANGED client /\ UNCHANGED agent
  BY DEF Acp!EnsureConnection
<1>6. agent[c].state = "none" BY <1>5 DEF UpdatesInv, ConnsAreUsed, Unprompted
<1>7. conn' \in 0 .. MaxConns BY <1>0, <1>1, AdaptersAssumption
<1>8. conn' # 0 => client[conn'].used BY <1>1 DEF UpdatesInv, ConnsAreUsed
<1>9. \A k \in Acp!Conns : client[k].mu = c \/ r.got \cap client[k].updates = {}
  BY <1>3 DEF UpdatesInv, UpdatesAreApart
<1>10. TypesStay BY <1>0, <1>5, <1>7 DEF TypesStay
<1>11. OthersStay(c) BY <1>5, <1>8 DEF OthersStay
<1>12. TurnFits(c, r) BY <1>1, <1>3, <1>5, <1>6 DEF TurnFits, Unprompted, Prompted
<1>13. TakesFreely(c, r) BY <1>3, <1>5, <1>9 DEF TakesFreely
<1> QED BY <1>3, <1>4, <1>10, <1>11, <1>12, <1>13, CallMoves

LEMMA ClearStep == ASSUME UpdatesInv, NEW c \in AcpCalls, Acp!Clear(c) PROVE UpdatesInv'
<1>0. client \in [Acp!Conns -> AcpClientType] /\ conn \in 0 .. MaxConns BY AcpTypes
<1>1. acall[c].pc = "clear" /\ client[conn].mu = "free" /\ Acp!Prompt(c, conn) /\ conn' = conn
      /\ client' = [client EXCEPT ![conn].updates = {}]
  BY DEF Acp!Clear
<1>2. conn # 0 /\ client[conn].used BY <1>1 DEF UpdatesInv, ConnsAreUsed
<1>3. conn \in Acp!Conns BY <1>0, <1>2 DEF Acp!Conns
<1>4. PICK r : r = [client[conn] EXCEPT !.updates = {}] OBVIOUS
<1>5. r \in AcpClientType /\ r.updates = {} /\ r.used = client[conn].used /\ r.mu = client[conn].mu
  BY <1>0, <1>3, <1>4 DEF AcpClientType
<1>6. client' = [client EXCEPT ![conn] = r] BY <1>1, <1>4
<1>7. /\ client' \in [Acp!Conns -> AcpClientType] /\ client'[conn] = r
      /\ \A j \in Acp!Conns : j # conn => client'[j] = client[j]
  BY ONLY <1>0, <1>3, <1>5, <1>6
<1> QED BY <1>1, <1>2, <1>3, <1>5, <1>7, PromptIs

LEMMA OpenStep == ASSUME UpdatesInv, NEW c \in AcpCalls, Acp!Open(c) PROVE UpdatesInv'
<1>0. /\ client \in [Acp!Conns -> AcpClientType] /\ acall[c] \in AcpCallType
      /\ agent \in [AcpCalls -> AcpAgentType] /\ conn \in 0 .. MaxConns
  BY AcpTypes
<1>1. acall[c].pc = "open" BY DEF Acp!Open
<1>2. mu = c BY <1>1 DEF UpdatesInv, LocksHeld
<1>3. ASSUME NEW k \in Acp!Conns, ~client[k].used, conn' = k,
             client' = [client EXCEPT ![k] = [Acp!NoClient EXCEPT !.up = TRUE, !.used = TRUE]],
             Acp!Prompt(c, k)
      PROVE  UpdatesInv'
  <2>1. PICK r : r = [Acp!NoClient EXCEPT !.up = TRUE, !.used = TRUE] OBVIOUS
  <2>2. r \in AcpClientType /\ r.updates = {} /\ r.used /\ r.mu = "free"
    BY <2>1 DEF Acp!NoClient, AcpClientType
  <2>3. client' = [client EXCEPT ![k] = r] BY <1>3, <2>1
  <2>4. /\ client' \in [Acp!Conns -> AcpClientType] /\ client'[k] = r
        /\ \A j \in Acp!Conns : j # k => client'[j] = client[j]
    BY ONLY <1>0, <2>2, <2>3, k \in Acp!Conns
  <2> QED BY <1>1, <1>3, <2>2, <2>4, PromptIs
<1>4. ASSUME Acp!Over(c, {}), mu' = "free", UNCHANGED conn, UNCHANGED client, UNCHANGED agent
      PROVE  UpdatesInv'
  <2>1. PICK r \in AcpCallType : acall' = [acall EXCEPT ![c] = r] /\ r.pc = "over" /\ r.got = {}
    BY <1>0, <1>4, AcpOver
  <2>2. agent[c].state = "none" /\ (conn # 0 => client[conn].used)
    BY <1>1 DEF UpdatesInv, ConnsAreUsed, Unprompted
  <2>3. TypesStay BY <1>0, <1>4 DEF TypesStay
  <2>4. OthersStay(c) BY <1>2, <1>4, <2>2 DEF OthersStay
  <2>5. TurnFits(c, r) BY <1>4, <2>1, <2>2 DEF TurnFits, Unprompted, Prompted
  <2>6. TakesFreely(c, r) BY <2>1 DEF TakesFreely
  <2> QED BY <2>1, <2>3, <2>4, <2>5, <2>6, CallMoves
<1> QED BY <1>3, <1>4 DEF Acp!Open

LEMMA PromptedStep == ASSUME UpdatesInv, NEW c \in AcpCalls, Acp!Prompted(c) PROVE UpdatesInv'
<1>0. acall[c] \in AcpCallType /\ agent \in [AcpCalls -> AcpAgentType] BY AcpTypes
<1>1. acall[c].pc = "prompt" /\ UNCHANGED <<mu, conn, client>> BY DEF Acp!Prompted
<1>2. ASSUME acall' = [acall EXCEPT ![c].pc = "collect"], agent' \in [AcpCalls -> AcpAgentType],
             \A d \in AcpCalls : d # c => agent'[d] = agent[d],
             agent'[c] = agent[c] \/ agent'[c].state = "none"
      PROVE  UpdatesInv'
  <2>1. PICK r : r = [acall[c] EXCEPT !.pc = "collect"] OBVIOUS
  <2>2. r \in AcpCallType /\ r.pc = "collect" /\ r.got = acall[c].got /\ r.k = acall[c].k
    BY ONLY <1>0, <2>1 DEF AcpCallType
  <2>3. acall' = [acall EXCEPT ![c] = r] BY <1>2, <2>1
  <2>4. GoesOn(c, r) BY <1>1, <2>2 DEF GoesOn, Unprompted, Prompted
  <2> QED BY <1>1, <1>2, <2>2, <2>3, <2>4, CallGoesOn
<1>3. CASE Acp!Over(c, {}) /\ UNCHANGED agent
  <2>1. PICK r \in AcpCallType : acall' = [acall EXCEPT ![c] = r] /\ r.pc = "over" /\ r.got = {}
    BY <1>0, <1>3, AcpOver
  <2>2. GoesOn(c, r) BY <2>1 DEF GoesOn, Unprompted, Prompted
  <2> QED BY <1>0, <1>1, <1>3, <2>1, <2>2, CallGoesOn
<1>4. CASE acall' = [acall EXCEPT ![c].pc = "collect"] /\ agent' = [agent EXCEPT ![c] = Acp!Resting]
  <2>1. 0 \in 0 .. MaxConns /\ 0 \in 0 .. NChunks BY AdaptersAssumption
  <2>2. Acp!Resting \in AcpAgentType /\ Acp!Resting.state = "none"
    BY <2>1 DEF Acp!Resting, AcpAgentType
  <2> QED BY <1>0, <1>2, <1>4, <2>2
<1>5. CASE acall' = [acall EXCEPT ![c].pc = "collect"] /\ UNCHANGED agent
  BY <1>0, <1>2, <1>5
<1> QED BY <1>3, <1>4, <1>5 DEF Acp!Prompted

\* A call that takes the list that its connection has, or empties it.
ListTaken(c, r, s) ==
  /\ acall[c].pc \in Prompted /\ client[acall[c].k].mu \in {"free", c}
  /\ s.updates \subseteq client[acall[c].k].updates
  /\ s.mu = c \/ s.updates = {}
  /\ client[acall[c].k].used => s.used
  /\ r.pc \notin Unprompted
  /\ r.pc \in Prompted => r.pc = "drain" /\ r.k = acall[c].k
  /\ r.pc = "drain" => s.mu = c /\ r.left \subseteq s.updates
  /\ r.got \subseteq acall[c].got \cup client[acall[c].k].updates

LEMMA ListIsTaken ==
  ASSUME UpdatesInv, NEW c \in AcpCalls, NEW r \in AcpCallType, acall' = [acall EXCEPT ![c] = r],
         UNCHANGED mu, UNCHANGED conn, UNCHANGED agent,
         NEW s \in AcpClientType, client' = [client EXCEPT ![acall[c].k] = s], ListTaken(c, r, s)
  PROVE  UpdatesInv'
<1> USE DEF ListTaken
<1>0. /\ client \in [Acp!Conns -> AcpClientType] /\ acall[c] \in AcpCallType
      /\ agent \in [AcpCalls -> AcpAgentType] /\ mu \in AcpCalls \cup {"free"} /\ conn \in 0 .. MaxConns
      /\ agent[c] \in AcpAgentType
  BY AcpTypes
<1>1. PICK k : k = acall[c].k OBVIOUS
<1>2. k \in Acp!Conns /\ k # 0 /\ client[k].used
  BY <1>0, <1>1 DEF UpdatesInv, ConnsAreUsed, AcpCallType, Acp!Conns
<1>3. client' = [client EXCEPT ![k] = s] BY <1>1
<1>4. /\ client' \in [Acp!Conns -> AcpClientType] /\ client'[k] = s
      /\ \A j \in Acp!Conns : j # k => client'[j] = client[j]
  BY ONLY <1>0, <1>2, <1>3, s \in AcpClientType
<1>5. /\ conn # 0 => client[conn].used /\ conn \in Acp!Conns
      /\ agent[c].state = "works" => agent[c].k \in Acp!Conns /\ agent[c].k # 0 /\ client[agent[c].k].used
  BY <1>0 DEF UpdatesInv, ConnsAreUsed, AcpAgentType, Acp!Conns
<1>6. \A j \in Acp!Conns : client[j].used => client'[j].used BY <1>1, <1>4
<1>7. TypesStay BY <1>0, <1>4 DEF TypesStay
<1>8. OthersStay(c) BY <1>1, <1>4, <1>5, <1>6 DEF OthersStay
<1>9. TurnFits(c, r) BY <1>1, <1>2, <1>4, <1>5, <1>6 DEF TurnFits, Unprompted, Prompted
<1>10. ASSUME NEW j \in Acp!Conns PROVE client'[j].mu = c \/ r.got \cap client'[j].updates = {}
  <2>1. CASE j = k BY <1>4, <2>1
  <2>2. CASE j # k
    <3>1. client[j].mu = c \/ acall[c].got \cap client[j].updates = {} BY DEF UpdatesInv, UpdatesAreApart
    <3>2. client[k].updates \cap client[j].updates = {}
      BY <1>2, <2>2 DEF UpdatesInv, UpdatesAreApart
    <3> QED BY <1>1, <1>4, <2>2, <3>1, <3>2
  <2> QED BY <2>1, <2>2
<1>11. TakesFreely(c, r) BY <1>1, <1>2, <1>10 DEF TakesFreely
<1> QED BY <1>7, <1>8, <1>9, <1>11, CallMoves

LEMMA CollectStep == ASSUME UpdatesInv, NEW c \in AcpCalls, Acp!Collect(c) PROVE UpdatesInv'
<1>0. /\ client \in [Acp!Conns -> AcpClientType] /\ acall[c] \in AcpCallType BY AcpTypes
<1>1. PICK k : k = acall[c].k OBVIOUS
<1>2. /\ acall[c].pc = "collect" /\ client[k].mu = "free" /\ UNCHANGED mu /\ UNCHANGED conn
      /\ UNCHANGED agent /\ Acp!Over(c, client[k].updates)
      /\ client' = [client EXCEPT ![k].updates = {}]
  BY <1>1 DEF Acp!Collect
<1>3. k \in Acp!Conns BY <1>0, <1>1, <1>2 DEF UpdatesInv, ConnsAreUsed, AcpCallType, Acp!Conns, Prompted
<1>4. client[k].updates \in SUBSET Acp!Chunks /\ client[k] \in AcpClientType BY <1>0, <1>3 DEF AcpClientType
<1>5. PICK r \in AcpCallType :
        acall' = [acall EXCEPT ![c] = r] /\ r.pc = "over" /\ r.got = client[k].updates
  BY <1>0, <1>2, <1>4, AcpOver
<1>6. PICK s : s = [client[k] EXCEPT !.updates = {}] OBVIOUS
<1>7. s \in AcpClientType /\ s.updates = {} /\ s.used = client[k].used
  BY ONLY <1>4, <1>6 DEF AcpClientType
<1>8. client' = [client EXCEPT ![k] = s] BY <1>2, <1>6
<1>9. ListTaken(c, r, s) BY <1>1, <1>2, <1>5, <1>7 DEF ListTaken, Prompted, Unprompted
<1> QED BY <1>1, <1>2, <1>5, <1>7, <1>8, <1>9, ListIsTaken

LEMMA DrainStep == ASSUME UpdatesInv, NEW c \in AcpCalls, Acp!Drain(c) PROVE UpdatesInv'
<1>0. client \in [Acp!Conns -> AcpClientType] /\ acall[c] \in AcpCallType BY AcpTypes
<1>1. PICK k : k = acall[c].k OBVIOUS
<1>2. PICK left : left = client[k].updates OBVIOUS
<1>3. /\ acall[c].pc = "collect" /\ client[k].mu = "free" /\ UNCHANGED mu /\ UNCHANGED conn
      /\ UNCHANGED agent /\ client' = [client EXCEPT ![k].mu = c]
      /\ acall' = [acall EXCEPT ![c].pc = "drain", ![c].left = left]
  BY <1>1, <1>2 DEF Acp!Drain
<1>4. k \in Acp!Conns BY <1>0, <1>1, <1>3 DEF UpdatesInv, ConnsAreUsed, AcpCallType, Acp!Conns, Prompted
<1>5. left \in SUBSET Acp!Chunks /\ client[k] \in AcpClientType BY <1>0, <1>2, <1>4 DEF AcpClientType
<1>6. PICK r : r = [acall[c] EXCEPT !.pc = "drain", !.left = left] OBVIOUS
<1>7. r \in AcpCallType /\ r.pc = "drain" /\ r.left = left /\ r.k = acall[c].k /\ r.got = acall[c].got
  BY ONLY <1>0, <1>5, <1>6 DEF AcpCallType
<1>8. acall' = [acall EXCEPT ![c] = r] BY <1>3, <1>6
<1>9. PICK s : s = [client[k] EXCEPT !.mu = c] OBVIOUS
<1>10. s \in AcpClientType /\ s.mu = c /\ s.updates = client[k].updates /\ s.used = client[k].used
  BY ONLY <1>5, <1>9, c \in AcpCalls DEF AcpClientType
<1>11. client' = [client EXCEPT ![k] = s] BY <1>3, <1>9
<1>12. ListTaken(c, r, s) BY <1>1, <1>2, <1>3, <1>7, <1>10 DEF ListTaken, Prompted, Unprompted
<1> QED BY <1>1, <1>2, <1>3, <1>7, <1>8, <1>10, <1>11, <1>12, ListIsTaken

LEMMA PushStep == ASSUME UpdatesInv, NEW c \in AcpCalls, Acp!Push(c) PROVE UpdatesInv'
<1>0. acall[c] \in AcpCallType /\ agent \in [AcpCalls -> AcpAgentType] BY AcpTypes
<1>1. acall[c].pc = "drain" /\ acall[c].queue < BufferSize /\ UNCHANGED <<mu, conn, client>>
      /\ UNCHANGED agent
  BY DEF Acp!Push
<1>2. PICK u \in acall[c].left :
        acall' = [acall EXCEPT ![c].left = @ \ {u}, ![c].got = @ \cup {u}, ![c].queue = @ + 1]
  BY DEF Acp!Push
<1>3. PICK left, got, n : /\ left = acall[c].left \ {u} /\ got = acall[c].got \cup {u}
                          /\ n = acall[c].queue + 1
  OBVIOUS
<1>4. PICK r : r = [acall[c] EXCEPT !.left = left, !.got = got, !.queue = n] OBVIOUS
<1>5. /\ acall[c].left \subseteq Acp!Chunks /\ acall[c].got \subseteq Acp!Chunks
      /\ acall[c].queue \in 0 .. BufferSize
  BY <1>0 DEF AcpCallType
<1>6. left \in SUBSET Acp!Chunks /\ got \in SUBSET Acp!Chunks /\ n \in 0 .. BufferSize
  BY <1>1, <1>2, <1>3, <1>5, AdaptersAssumption
<1>7. /\ r \in AcpCallType /\ r.pc = acall[c].pc /\ r.k = acall[c].k /\ r.left = left /\ r.got = got
  BY ONLY <1>0, <1>4, <1>6 DEF AcpCallType
<1>8. acall' = [acall EXCEPT ![c] = r]
  <2>1. acall' = [acall EXCEPT ![c].left = left, ![c].got = got, ![c].queue = n]
    BY <1>2, <1>3, Zenon
  <2> QED BY <1>4, <2>1
<1>9. GoesOn(c, r) BY <1>1, <1>2, <1>3, <1>7 DEF GoesOn, Unprompted, Prompted
<1> QED BY <1>0, <1>1, <1>7, <1>8, <1>9, CallGoesOn

LEMMA DrainedStep == ASSUME UpdatesInv, NEW c \in AcpCalls, Acp!Drained(c) PROVE UpdatesInv'
<1>0. client \in [Acp!Conns -> AcpClientType] /\ acall[c] \in AcpCallType BY AcpTypes
<1>1. PICK k : k = acall[c].k OBVIOUS
<1>2. /\ acall[c].pc = "drain" /\ UNCHANGED mu /\ UNCHANGED conn /\ UNCHANGED agent
      /\ client' = [client EXCEPT ![k].updates = {}, ![k].mu = "free"]
      /\ acall' = [acall EXCEPT ![c].pc = "last"]
  BY <1>1 DEF Acp!Drained
<1>3. client[k].mu = c BY <1>1, <1>2 DEF UpdatesInv, LocksHeld
<1>4. k \in Acp!Conns BY <1>0, <1>1, <1>2 DEF UpdatesInv, ConnsAreUsed, AcpCallType, Acp!Conns, Prompted
<1>5. PICK r : r = [acall[c] EXCEPT !.pc = "last"] OBVIOUS
<1>6. r \in AcpCallType /\ r.pc = "last" /\ r.got = acall[c].got BY ONLY <1>0, <1>5 DEF AcpCallType
<1>7. acall' = [acall EXCEPT ![c] = r] BY <1>2, <1>5
<1>8. client[k] \in AcpClientType BY <1>0, <1>4
<1>9. PICK s : s = [client[k] EXCEPT !.updates = {}, !.mu = "free"] OBVIOUS
<1>10. s \in AcpClientType /\ s.updates = {} /\ s.used = client[k].used
  BY ONLY <1>8, <1>9 DEF AcpClientType
<1>11. client' = [client EXCEPT ![k] = s] BY <1>2, <1>9
<1>12. ListTaken(c, r, s) BY <1>1, <1>2, <1>3, <1>6, <1>10 DEF ListTaken, Prompted, Unprompted
<1> QED BY <1>1, <1>2, <1>3, <1>6, <1>7, <1>10, <1>11, <1>12, ListIsTaken

LEMMA LastStep == ASSUME UpdatesInv, NEW c \in AcpCalls, Acp!Last(c) PROVE UpdatesInv'
<1>0. acall[c] \in AcpCallType /\ agent \in [AcpCalls -> AcpAgentType] BY AcpTypes
<1>1. /\ acall[c].pc = "last" /\ Acp!Over(c, acall[c].got) /\ UNCHANGED <<mu, conn, client>>
      /\ UNCHANGED agent /\ acall[c].got \in SUBSET Acp!Chunks
  BY <1>0 DEF Acp!Last, AcpCallType
<1>2. PICK r \in AcpCallType : acall' = [acall EXCEPT ![c] = r] /\ r.pc = "over" /\ r.got = acall[c].got
  BY <1>0, <1>1, AcpOver
<1>3. GoesOn(c, r) BY <1>1, <1>2 DEF GoesOn, Unprompted, Prompted
<1> QED BY <1>0, <1>1, <1>2, <1>3, CallGoesOn

LEMMA ReaderStep ==
  ASSUME UpdatesInv, NEW c \in AcpCalls, Acp!Receive(c) \/ Acp!Leave(c) PROVE UpdatesInv'
<1>0. acall[c] \in AcpCallType /\ agent \in [AcpCalls -> AcpAgentType] BY AcpTypes
<1>1. UNCHANGED <<mu, conn, client>> /\ UNCHANGED agent BY DEF Acp!Receive, Acp!Leave
<1>2. PICK r : /\ \/ acall[c].queue > 0 /\ r = [acall[c] EXCEPT !.queue = @ - 1]
                  \/ r = [acall[c] EXCEPT !.reads = FALSE]
               /\ acall' = [acall EXCEPT ![c] = r]
  BY DEF Acp!Receive, Acp!Leave
<1>3. acall[c].queue \in 0 .. BufferSize BY <1>0 DEF AcpCallType
<1>4. acall[c].queue > 0 => acall[c].queue - 1 \in 0 .. BufferSize BY <1>3, AdaptersAssumption
<1>5. /\ r \in AcpCallType /\ r.pc = acall[c].pc /\ r.k = acall[c].k /\ r.left = acall[c].left
      /\ r.got = acall[c].got
  BY ONLY <1>0, <1>2, <1>4 DEF AcpCallType
<1>6. GoesOn(c, r) BY <1>5 DEF GoesOn, Unprompted
<1> QED BY <1>0, <1>1, <1>2, <1>5, <1>6, CallGoesOn

LEMMA UpdateStep == ASSUME UpdatesInv, NEW c \in AcpCalls, Acp!SessionUpdate(c) PROVE UpdatesInv'
<1>0. /\ client \in [Acp!Conns -> AcpClientType] /\ acall \in [AcpCalls -> AcpCallType]
      /\ agent \in [AcpCalls -> AcpAgentType] /\ agent[c] \in AcpAgentType
      /\ mu \in AcpCalls \cup {"free"} /\ conn \in 0 .. MaxConns /\ "free" \notin AcpCalls
  BY AcpTypes, AdaptersAssumption
<1>1. PICK k : k = agent[c].k OBVIOUS
<1>2. PICK n : n = agent[c].n + 1 OBVIOUS
<1>3. /\ agent[c].state = "works" /\ client[k].mu = "free" /\ agent[c].n < NChunks
      /\ UNCHANGED mu /\ UNCHANGED conn /\ UNCHANGED acall
      /\ agent' = [agent EXCEPT ![c].n = n]
      /\ client' = [client EXCEPT ![k].updates = @ \cup {<<c, n>>}]
  BY <1>1, <1>2 DEF Acp!SessionUpdate
<1>4. agent[c].n \in 0 .. NChunks /\ agent[c].k \in 0 .. MaxConns BY <1>0 DEF AcpAgentType
<1>5. /\ k \in Acp!Conns /\ client[k].used /\ acall[c].pc \notin Unprompted
  BY <1>1, <1>3, <1>4 DEF UpdatesInv, ConnsAreUsed, Acp!Conns
<1>6. n \in 1 .. NChunks /\ n > agent[c].n BY <1>2, <1>3, <1>4, AdaptersAssumption
<1>7. <<c, n>> \in Acp!Chunks BY <1>6 DEF Acp!Chunks
<1>8. client[k] \in AcpClientType /\ client[k].updates \subseteq Acp!Chunks
  BY <1>0, <1>5 DEF AcpClientType
<1>9. PICK new : new = client[k].updates \cup {<<c, n>>} OBVIOUS
<1>10. PICK s : s = [client[k] EXCEPT !.updates = new] OBVIOUS
<1>11. s \in AcpClientType /\ s.updates = new /\ s.used = client[k].used /\ s.mu = client[k].mu
  <2>1. new \in SUBSET Acp!Chunks BY <1>7, <1>8, <1>9
  <2> QED BY ONLY <1>8, <1>10, <2>1 DEF AcpClientType
<1>12. client' = [client EXCEPT ![k] = s]
  <2>1. client' = [client EXCEPT ![k].updates = new] BY <1>3, <1>9, Zenon
  <2> QED BY <1>10, <2>1
<1>13. /\ client' \in [Acp!Conns -> AcpClientType] /\ client'[k] = s
       /\ \A j \in Acp!Conns : j # k => client'[j] = client[j]
  BY ONLY <1>0, <1>5, <1>11, <1>12
<1>14. PICK a : a = [agent[c] EXCEPT !.n = n] OBVIOUS
<1>15. a \in AcpAgentType /\ a.n = n /\ a.state = agent[c].state /\ a.k = k
  <2>1. n \in 0 .. NChunks BY <1>6
  <2> QED BY ONLY <1>0, <1>1, <1>14, <2>1 DEF AcpAgentType
<1>16. agent' = [agent EXCEPT ![c] = a] BY <1>3, <1>14
<1>17. /\ agent' \in [AcpCalls -> AcpAgentType] /\ agent'[c] = a
       /\ \A d \in AcpCalls : d # c => agent'[d] = agent[d]
  BY ONLY <1>0, <1>15, <1>16, c \in AcpCalls
<1>18. /\ \A j \in Acp!Conns : /\ client'[j].mu = client[j].mu /\ client'[j].used = client[j].used
                               /\ j # k => client'[j].updates = client[j].updates
       /\ client'[k].updates = new
  BY <1>11, <1>13
<1>19. Acp!TypeOK' BY <1>0, <1>3, <1>13, <1>17, AcpTypesAgain
<1>20. \A d \in AcpCalls :
         /\ acall[d].pc \in Prompted => acall[d].k \in Acp!Conns
         /\ agent[d].state = "works" => agent[d].k \in Acp!Conns
         /\ conn # 0 => conn \in Acp!Conns
  BY <1>0 DEF UpdatesInv, ConnsAreUsed, AcpCallType, AcpAgentType, Acp!Conns
<1>21. LocksHeld'
  <2> SUFFICES ASSUME NEW d \in AcpCalls, acall[d].pc = "drain"
               PROVE  client'[acall[d].k].mu = d /\ acall[d].left \subseteq client'[acall[d].k].updates
    BY <1>3 DEF UpdatesInv, LocksHeld
  <2>1. client[acall[d].k].mu = d /\ acall[d].left \subseteq client[acall[d].k].updates
    BY DEF UpdatesInv, LocksHeld
  <2>2. acall[d].k # k BY <1>0, <1>3, <2>1
  <2> QED BY <1>18, <1>20, <2>1, <2>2 DEF Prompted
<1>22. ConnsAreUsed'
  <2>1. \A d \in AcpCalls : agent'[d].state = agent[d].state /\ agent'[d].k = agent[d].k
    BY <1>1, <1>15, <1>17
  <2> QED BY <1>3, <1>18, <1>20, <2>1 DEF UpdatesInv, ConnsAreUsed
<1>23. ASSUME NEW d \in AcpCalls, NEW u, u[1] = d,
              \/ \E j \in Acp!Conns : u \in client'[j].updates
              \/ \E e \in AcpCalls : u \in acall[e].got
       PROVE  acall'[d].pc \notin Unprompted /\ (agent'[d].state = "works" => u[2] <= agent'[d].n)
  <2>1. CASE u = <<c, n>> BY <1>3, <1>5, <1>6, <1>15, <1>17, <1>23, <2>1
  <2>2. CASE u # <<c, n>>
    <3>1. \/ \E j \in Acp!Conns : u \in client[j].updates
          \/ \E e \in AcpCalls : u \in acall[e].got
      BY <1>5, <1>9, <1>18, <1>23, <2>2
    <3>2. acall[d].pc \notin Unprompted /\ (agent[d].state = "works" => u[2] <= agent[d].n)
      BY <1>23, <3>1 DEF UpdatesInv, UpdatesAreCounted, UpdatesAreOf
    <3>3. CASE d # c BY <1>3, <1>17, <3>2, <3>3
    <3>4. CASE d = c
      <4>1. u \in Acp!Chunks BY <1>0, <3>1 DEF AcpClientType, AcpCallType
      <4>2. u[2] \in 1 .. NChunks BY <4>1 DEF Acp!Chunks
      <4> QED BY <1>3, <1>4, <1>6, <1>15, <1>17, <3>2, <3>4, <4>2
    <3> QED BY <3>3, <3>4
  <2> QED BY <2>1, <2>2
<1>24. UpdatesAreCounted'
  <2>1. ASSUME NEW d \in AcpCalls, NEW j \in Acp!Conns PROVE UpdatesAreOf(d, client[j].updates)'
    BY <1>23 DEF UpdatesAreOf
  <2>2. ASSUME NEW d \in AcpCalls, NEW e \in AcpCalls PROVE UpdatesAreOf(d, acall[e].got)'
    BY <1>3, <1>23 DEF UpdatesAreOf
  <2> QED BY <2>1, <2>2 DEF UpdatesAreCounted
\* The new update is nowhere yet: those of this call have smaller numbers.
<1>25. /\ \A j \in Acp!Conns : <<c, n>> \notin client[j].updates
       /\ \A e \in AcpCalls : <<c, n>> \notin acall[e].got
  <2>1. ~(n <= agent[c].n) BY <1>4, <1>6
  <2> QED BY <1>3, <2>1 DEF UpdatesInv, UpdatesAreCounted, UpdatesAreOf
<1>26. UpdatesAreApart'
  <2>1. Acp!EachUpdateOnce' BY <1>3 DEF UpdatesInv, UpdatesAreApart, Acp!EachUpdateOnce
  <2>2. ASSUME NEW i \in Acp!Conns, NEW j \in Acp!Conns, j # i
        PROVE  client'[j].updates \cap client'[i].updates = {}
    <3>1. client[j].updates \cap client[i].updates = {} BY <2>2 DEF UpdatesInv, UpdatesAreApart
    <3> QED BY <1>9, <1>18, <1>25, <2>2, <3>1
  <2>3. ASSUME NEW i \in Acp!Conns, NEW d \in AcpCalls
        PROVE  client'[i].mu = d \/ acall'[d].got \cap client'[i].updates = {}
    <3>1. client[i].mu = d \/ acall[d].got \cap client[i].updates = {} BY DEF UpdatesInv, UpdatesAreApart
    <3> QED BY <1>3, <1>9, <1>18, <1>25, <3>1
  <2> QED BY <2>1, <2>2, <2>3 DEF UpdatesAreApart, Acp!Conns
<1> QED BY <1>19, <1>21, <1>22, <1>24, <1>26 DEF UpdatesInv

LEMMA EndTurnStep == ASSUME UpdatesInv, NEW c \in AcpCalls, Acp!EndTurn(c) PROVE UpdatesInv'
<1>0. /\ client \in [Acp!Conns -> AcpClientType] /\ agent \in [AcpCalls -> AcpAgentType] BY AcpTypes
<1>1. /\ agent[c].state = "works" /\ agent' = [agent EXCEPT ![c].state = "done"]
      /\ UNCHANGED mu /\ UNCHANGED conn /\ UNCHANGED client /\ UNCHANGED acall
  BY DEF Acp!EndTurn
<1>2. PICK a : a = [agent[c] EXCEPT !.state = "done"] OBVIOUS
<1>3. a \in AcpAgentType /\ a.state = "done" BY ONLY <1>0, <1>2, c \in AcpCalls DEF AcpAgentType
<1>4. agent' = [agent EXCEPT ![c] = a] BY <1>1, <1>2
<1>5. /\ agent' \in [AcpCalls -> AcpAgentType] /\ agent'[c] = a
      /\ \A d \in AcpCalls : d # c => agent'[d] = agent[d]
  BY ONLY <1>0, <1>3, <1>4, c \in AcpCalls
<1> QED BY <1>0, <1>1, <1>3, <1>5, AgentMoves

LEMMA GoneStep ==
  ASSUME UpdatesInv, NEW k \in Acp!Conns, Acp!Gone(k), UNCHANGED mu, UNCHANGED acall,
         conn' = conn \/ (mu = "free" /\ conn' = 0)
  PROVE  UpdatesInv'
<1>0. /\ client \in [Acp!Conns -> AcpClientType] /\ agent \in [AcpCalls -> AcpAgentType] BY AcpTypes
<1>1. PICK s : s = [client[k] EXCEPT !.up = FALSE] OBVIOUS
<1>2. /\ s \in AcpClientType /\ s.mu = client[k].mu /\ s.updates = client[k].updates
      /\ s.used = client[k].used
  BY ONLY <1>0, <1>1, k \in Acp!Conns DEF AcpClientType
<1>3. client' = [client EXCEPT ![k] = s] BY <1>1 DEF Acp!Gone
<1>4. /\ client' \in [Acp!Conns -> AcpClientType]
      /\ \A j \in Acp!Conns : /\ client'[j].mu = client[j].mu /\ client'[j].updates = client[j].updates
                              /\ client'[j].used = client[j].used
  BY ONLY <1>0, <1>2, <1>3, k \in Acp!Conns
<1>5. 0 \in 0 .. MaxConns /\ 0 \in 0 .. NChunks BY AdaptersAssumption
<1>6. Acp!Resting \in AcpAgentType /\ Acp!Resting.state = "none"
  BY <1>5 DEF Acp!Resting, AcpAgentType
<1>7. /\ agent' \in [AcpCalls -> AcpAgentType]
      /\ \A c \in AcpCalls : agent'[c] = agent[c] \/ agent'[c] = Acp!Resting
  BY <1>0, <1>6 DEF Acp!Gone
<1>8. \A c \in AcpCalls : agent'[c] = agent[c] \/ agent'[c].state = "none" BY <1>6, <1>7
<1> QED BY <1>4, <1>7, <1>8, AgentMoves

LEMMA UpdatesAlways == AdaptersSpec => []UpdatesInv
<1>1. AdaptersInit => UpdatesInv
  <2> SUFFICES ASSUME Acp!Init PROVE UpdatesInv BY DEF AdaptersInit
  <2>1. 0 \in 0 .. MaxConns /\ 0 \in 0 .. BufferSize /\ 0 \in 0 .. NChunks BY AdaptersAssumption
  <2>2. /\ Acp!NoClient \in AcpClientType /\ Acp!NoClient.updates = {}
        /\ Acp!Unasked \in AcpCallType /\ Acp!Unasked.pc = "idle" /\ Acp!Unasked.got = {}
        /\ Acp!Resting \in AcpAgentType /\ Acp!Resting.state = "none"
    BY <2>1 DEF Acp!NoClient, Acp!Unasked, Acp!Resting, AcpClientType, AcpCallType, AcpAgentType
  <2>3. /\ mu = "free" /\ conn = 0
        /\ client \in [Acp!Conns -> AcpClientType] /\ acall \in [AcpCalls -> AcpCallType]
        /\ agent \in [AcpCalls -> AcpAgentType]
        /\ \A k \in Acp!Conns : client[k].updates = {}
        /\ \A c \in AcpCalls : acall[c].pc = "idle" /\ acall[c].got = {} /\ agent[c].state = "none"
    BY <2>2 DEF Acp!Init
  <2>4. Acp!TypeOK BY <2>1, <2>3 DEF Acp!TypeOK, AcpClientType, AcpCallType, AcpAgentType
  <2>5. LocksHeld BY <2>3 DEF LocksHeld
  <2>6. ConnsAreUsed BY <2>3 DEF ConnsAreUsed, Prompted
  <2>7. UpdatesAreCounted BY <2>3 DEF UpdatesAreCounted, UpdatesAreOf
  <2>8. UpdatesAreApart BY <2>3 DEF UpdatesAreApart, Acp!EachUpdateOnce
  <2> QED BY <2>4, <2>5, <2>6, <2>7, <2>8 DEF UpdatesInv
<1>2. UpdatesInv /\ [AdaptersNext]_allvars => UpdatesInv'
  <2> SUFFICES ASSUME UpdatesInv, [AdaptersNext]_allvars PROVE UpdatesInv' OBVIOUS
  <2>1. ASSUME UNCHANGED acpvars PROVE UpdatesInv'
    <3>1. UNCHANGED mu /\ UNCHANGED conn /\ UNCHANGED client /\ UNCHANGED acall /\ UNCHANGED agent
      BY <2>1 DEF acpvars
    <3>2. client' \in [Acp!Conns -> AcpClientType] /\ agent' \in [AcpCalls -> AcpAgentType]
      BY <3>1, AcpTypes
    <3> QED BY <3>1, <3>2, AgentMoves
  <2>2. ASSUME NEW c \in AcpCalls,
               \/ Acp!Ask(c) \/ Acp!EnsureConnection(c) \/ Acp!Clear(c) \/ Acp!Open(c)
               \/ Acp!Prompted(c) \/ Acp!Collect(c) \/ Acp!Drain(c) \/ Acp!Push(c)
               \/ Acp!Drained(c) \/ Acp!Last(c) \/ Acp!Receive(c) \/ Acp!Leave(c)
               \/ Acp!SessionUpdate(c) \/ Acp!EndTurn(c)
        PROVE  UpdatesInv'
    BY <2>2, AskStep, ConnectStep, ClearStep, OpenStep, PromptedStep, CollectStep, DrainStep, PushStep,
       DrainedStep, LastStep, ReaderStep, UpdateStep, EndTurnStep
  <2>3. ASSUME NEW k \in Acp!Conns, Acp!Exit(k) PROVE UpdatesInv'
    <3>1. Acp!Gone(k) /\ UNCHANGED mu /\ UNCHANGED conn /\ UNCHANGED acall BY <2>3 DEF Acp!Exit
    <3> QED BY <3>1, GoneStep
  <2>4. ASSUME Acp!Close PROVE UpdatesInv'
    <3>1. /\ mu = "free" /\ conn # 0 /\ conn' = 0 /\ Acp!Gone(conn) /\ UNCHANGED mu /\ UNCHANGED acall
      BY <2>4 DEF Acp!Close
    <3>2. conn \in Acp!Conns BY <3>1, AcpTypes DEF Acp!Conns
    <3> QED BY <3>1, <3>2, GoneStep
  <2>5. Acp!Next => UpdatesInv' BY <2>2, <2>3, <2>4 DEF Acp!Next
  <2> QED BY <2>1, <2>5, OneAdapterMoves
<1> QED BY <1>1, <1>2, PTL DEF AdaptersSpec

-----------------------------------------------------------------------------
(* The connections and tools of MCP servers *)

\* On a connection where nothing comes unasked, there is a request or an answer
\* of the one that has the lock, and none when it is free.
ConnFits(c) ==
  /\ ~c.up => c.asked = {}
  /\ c.notes = 0 =>
       /\ c.mu = "free" => c.asked = {} /\ Len(c.lines) = 0
       /\ c.asked \subseteq {c.mu}
       /\ Len(c.lines) # 0 => Len(c.lines) = 1 /\ Head(c.lines) = c.mu /\ c.asked = {}

\* Who calls has a connection that was started, and its lock while it calls; what
\* it keeps is the answer of another only where something came unasked.
CallerFits(a, q, c) ==
  /\ q.pc # "idle" \/ q.got # "none" => q.k # 0 /\ c.used
  /\ q.pc \in {"write", "scan"} => c.mu = a
  /\ q.pc = "write" /\ c.notes = 0 => c.asked = {} /\ Len(c.lines) = 0
  /\ q.got # "none" => c.notes > 0
CallersHold == \A a \in Agents : CallerFits(a, calling[a], mcpconn[calling[a].k])

\* The loader has the lock of the connection that it greets.
LoaderHolds ==
  /\ loader.pc \in {"hello", "list"} =>
       /\ clients[loader.n] # 0 /\ mcpconn[clients[loader.n]].used
       /\ ~mcpconn[clients[loader.n]].eof /\ mcpconn[clients[loader.n]].mu = loader.pc
  /\ loader.pc \in {"wait", "hello", "list"} => loader.n \in loader.todo

\* Tools go to connections that were started; while servers are closed, to those
\* that are to be; while they are opened, to those that are.
ToolsFit ==
  \A n \in Servers : registry[n] # 0 =>
    /\ mcpconn[registry[n]].used
    /\ loader.pc \in {"idle", "close", "wait", "open", "hello", "list"} => registry[n] = clients[n]
    /\ loader.pc \in {"close", "wait"} => n \in loader.todo
    /\ loader.pc \in {"open", "hello", "list"} => n \notin loader.todo
    /\ loader.pc \in {"idle", "open", "hello", "list"} => ~mcpconn[registry[n]].eof

ToolsInv ==
  /\ Mcp!TypeOK
  /\ \A k \in Mcp!Conns : ConnFits(mcpconn[k])
  /\ CallersHold /\ LoaderHolds /\ ToolsFit

\* Numbers have a least one: of the intervals up to them, one has none inside.
LEMMA Least ==
  ASSUME NEW T, T \subseteq Nat, T # {} PROVE \E n \in T : \A m \in T : n <= m
<1>1. PICK x \in T : TRUE OBVIOUS
<1>2. PICK S : S = 0 .. x OBVIOUS
<1>3. IsFiniteSet(S) BY <1>1, <1>2, FS_Interval
<1>4. FiniteSubsetsOf(S) = SUBSET S BY <1>3, FS_FiniteSubsetsOfFinite
<1>5. PICK R : R = StrictSubsetOrdering(S) OBVIOUS
<1>6. IsWellFoundedOn(R, SUBSET S) BY <1>4, <1>5, FS_StrictSubsetOrderingWellFounded
<1>7. PICK U : U = {0 .. n : n \in {m \in T : m <= x}} OBVIOUS
<1>8. U \subseteq SUBSET S /\ U # {} BY <1>1, <1>2, <1>7
<1>9. PICK u \in U : \A y \in U : ~(<<y, u>> \in R) BY <1>6, <1>8, WFMin
<1>10. PICK n \in T : n <= x /\ u = 0 .. n BY <1>7, <1>9
<1>11. ASSUME NEW m \in T, m < n PROVE FALSE
  <2>1. n \in Nat /\ m \in Nat /\ x \in Nat /\ m <= x BY <1>1, <1>10, <1>11
  <2>2. PICK y : y = 0 .. m OBVIOUS
  <2>3. y \in U BY <1>7, <2>1, <2>2
  <2>4. y \subseteq u /\ n \in u /\ n \notin y BY <1>10, <1>11, <2>1, <2>2
  <2>5. <<y, u>> \in R BY <1>5, <1>8, <1>9, <2>3, <2>4 DEF StrictSubsetOrdering
  <2> QED BY <1>9, <2>3, <2>5
<1>12. \A m \in T : n <= m BY <1>11
<1> QED BY <1>12

McpConnType == [up : BOOLEAN, eof : BOOLEAN, used : BOOLEAN, mu : Mcp!Who \cup {"free"},
                asked : SUBSET Mcp!Who, lines : Seq(Mcp!Who \cup {"note"}), notes : 0 .. MaxNotes]
LoaderType  == [pc : {"idle", "close", "wait", "open", "hello", "list", "stop", "halt", "off"},
                todo : SUBSET Servers, want : SUBSET Servers, n : Servers \cup {0}]
McpCallType == [pc : {"idle", "lock", "write", "scan"}, k : 0 .. MaxConns,
                got : Mcp!Who \cup {"none", "note"}]

LEMMA McpTypes ==
  ASSUME ToolsInv
  PROVE  /\ clients \in [Servers -> 0 .. MaxConns] /\ registry \in [Servers -> 0 .. MaxConns]
         /\ mcpconn \in [Mcp!Conns -> McpConnType] /\ loader \in LoaderType
         /\ calling \in [Agents -> McpCallType]
BY DEF ToolsInv, Mcp!TypeOK, McpConnType, LoaderType, McpCallType

LEMMA McpTypesAgain ==
  ASSUME clients' \in [Servers -> 0 .. MaxConns], registry' \in [Servers -> 0 .. MaxConns],
         mcpconn' \in [Mcp!Conns -> McpConnType], loader' \in LoaderType,
         calling' \in [Agents -> McpCallType]
  PROVE  Mcp!TypeOK'
BY DEF Mcp!TypeOK, McpConnType, LoaderType, McpCallType

\* Nobody has the name of a lock that is free, nor of the loader's requests.
LEMMA McpNames ==
  /\ "free" \notin Mcp!Who /\ "none" \notin Mcp!Who /\ "error" \notin Mcp!Who /\ "note" \notin Mcp!Who
  /\ "hello" \in Mcp!Who \ Agents /\ "list" \in Mcp!Who \ Agents /\ Agents \subseteq Mcp!Who
BY AdaptersAssumption DEF Mcp!Who

\* One line read or written.
LEMMA LinesKeep ==
  ASSUME NEW S, NEW s \in Seq(S)
  PROVE  /\ Len(s) \in Nat /\ (s = << >> <=> Len(s) = 0)
         /\ Len(s) # 0 => Head(s) \in S /\ Tail(s) \in Seq(S) /\ Len(Tail(s)) = Len(s) - 1
         /\ \A x \in S : /\ Append(s, x) \in Seq(S) /\ Len(Append(s, x)) = Len(s) + 1
                         /\ Len(s) = 0 => Head(Append(s, x)) = x
<1>1. Len(s) \in Nat /\ (s = << >> <=> Len(s) = 0) BY EmptySeq
<1>2. ASSUME Len(s) # 0 PROVE Head(s) \in S /\ Tail(s) \in Seq(S) /\ Len(Tail(s)) = Len(s) - 1
  BY <1>1, <1>2, HeadTailProperties
<1>3. ASSUME NEW x \in S
      PROVE  /\ Append(s, x) \in Seq(S) /\ Len(Append(s, x)) = Len(s) + 1
             /\ Len(s) = 0 => Head(Append(s, x)) = x
  <2>1. /\ Append(s, x) \in Seq(S) /\ Len(Append(s, x)) = Len(s) + 1
        /\ Append(s, x)[Len(s) + 1] = x
    BY AppendProperties
  <2>2. ASSUME Len(s) = 0 PROVE Head(Append(s, x)) = x
    BY <1>1, <2>1, <2>2
  <2> QED BY <2>1, <2>2
<1> QED BY <1>1, <1>2, <1>3

\* What a step may do to a connection that somebody else uses.
Respects(a, c, s) ==
  /\ c.used => s.used /\ s.notes >= c.notes
  /\ c.mu \in Mcp!Who \ {a} => s.mu = c.mu
  /\ c.mu \in Agents \ {a} /\ s.notes = 0 /\ c.asked = {} /\ Len(c.lines) = 0 =>
       s.asked = {} /\ Len(s.lines) = 0

\* One connection changes while no other caller goes on.
ConnStep(a, k, s) ==
  /\ mcpconn' = [mcpconn EXCEPT ![k] = s]
  /\ ConnFits(s) /\ Respects(a, mcpconn[k], s)
  /\ \A d \in Agents : d # a => calling'[d] = calling[d]

LEMMA ConnMoves ==
  ASSUME ToolsInv, NEW k \in Mcp!Conns, NEW s \in McpConnType, NEW a, ConnStep(a, k, s)
  PROVE  /\ mcpconn' \in [Mcp!Conns -> McpConnType] /\ mcpconn'[k] = s
         /\ \A j \in Mcp!Conns : j # k => mcpconn'[j] = mcpconn[j]
         /\ \A j \in Mcp!Conns : ConnFits(mcpconn'[j])
         /\ \A j \in Mcp!Conns : mcpconn[j].used => mcpconn'[j].used
         /\ \A d \in Agents : d # a => CallerFits(d, calling'[d], mcpconn'[calling'[d].k])
<1>0. /\ mcpconn \in [Mcp!Conns -> McpConnType] /\ calling \in [Agents -> McpCallType]
      /\ mcpconn[k] \in McpConnType
  BY McpTypes
<1>1. /\ mcpconn' \in [Mcp!Conns -> McpConnType] /\ mcpconn'[k] = s
      /\ \A j \in Mcp!Conns : j # k => mcpconn'[j] = mcpconn[j]
  BY ONLY <1>0, ConnStep(a, k, s), s \in McpConnType, k \in Mcp!Conns DEF ConnStep
<1>2. \A j \in Mcp!Conns : ConnFits(mcpconn'[j]) BY <1>1 DEF ToolsInv, ConnStep
<1>3. \A j \in Mcp!Conns : mcpconn[j].used => mcpconn'[j].used BY <1>1 DEF Respects, ConnStep
<1>4. ASSUME NEW d \in Agents, d # a PROVE CallerFits(d, calling'[d], mcpconn'[calling'[d].k])
  <2>1. calling'[d] = calling[d] /\ calling[d] \in McpCallType BY <1>0, <1>4 DEF ConnStep
  <2>2. CallerFits(d, calling[d], mcpconn[calling[d].k]) BY DEF ToolsInv, CallersHold
  <2>3. CASE calling[d].k # k
    <3>1. calling[d].k \in Mcp!Conns \/ (calling[d].pc = "idle" /\ calling[d].got = "none")
      BY <2>1, <2>2 DEF CallerFits, McpCallType, Mcp!Conns
    <3> QED BY <1>1, <2>1, <2>2, <2>3, <3>1 DEF CallerFits
  <2>4. CASE calling[d].k = k
    <3>1. s.notes \in Nat /\ mcpconn[k].notes \in Nat BY <1>0, AdaptersAssumption DEF McpConnType
    <3>2. d \in Mcp!Who BY McpNames
    <3> QED BY <1>1, <1>4, <2>1, <2>2, <2>4, <3>1, <3>2 DEF CallerFits, Respects, ConnStep
  <2> QED BY <2>3, <2>4
<1> QED BY <1>1, <1>2, <1>3, <1>4

\* An agent or a process goes on, and the loader does not.
PartStep(a, k, s) ==
  /\ ConnStep(a, k, s) /\ s.eof = mcpconn[k].eof
  /\ calling' \in [Agents -> McpCallType]
  /\ a \in Agents => CallerFits(a, calling'[a], mcpconn'[calling'[a].k])
  /\ UNCHANGED clients /\ UNCHANGED registry /\ UNCHANGED loader

LEMMA PartMoves ==
  ASSUME ToolsInv, NEW k \in Mcp!Conns, NEW s \in McpConnType, NEW a \in Agents \cup {"free"},
         PartStep(a, k, s)
  PROVE  ToolsInv'
<1>0. /\ clients \in [Servers -> 0 .. MaxConns] /\ registry \in [Servers -> 0 .. MaxConns]
      /\ mcpconn \in [Mcp!Conns -> McpConnType] /\ loader \in LoaderType
  BY McpTypes
<1>1. /\ mcpconn' \in [Mcp!Conns -> McpConnType] /\ mcpconn'[k] = s
      /\ \A j \in Mcp!Conns : j # k => mcpconn'[j] = mcpconn[j]
      /\ \A j \in Mcp!Conns : ConnFits(mcpconn'[j])
      /\ \A j \in Mcp!Conns : mcpconn[j].used => mcpconn'[j].used
      /\ \A d \in Agents : d # a => CallerFits(d, calling'[d], mcpconn'[calling'[d].k])
  BY ConnMoves DEF PartStep
<1>2. Mcp!TypeOK' BY <1>0, <1>1, McpTypesAgain DEF PartStep
<1>3. CallersHold' BY <1>1 DEF CallersHold, PartStep
<1>4. \A j \in Mcp!Conns : mcpconn'[j].eof = mcpconn[j].eof BY <1>1 DEF PartStep
<1>5. LoaderHolds'
  <2> SUFFICES ASSUME loader.pc \in {"hello", "list"}
               PROVE  /\ mcpconn'[clients[loader.n]].used /\ ~mcpconn'[clients[loader.n]].eof
                      /\ mcpconn'[clients[loader.n]].mu = loader.pc
    BY DEF ToolsInv, LoaderHolds, PartStep
  <2>1. PICK j : j = clients[loader.n] OBVIOUS
  <2>2. /\ j # 0 /\ mcpconn[j].used /\ ~mcpconn[j].eof /\ mcpconn[j].mu = loader.pc
        /\ loader.n \in loader.todo
    BY <2>1 DEF ToolsInv, LoaderHolds
  <2>3. loader.n \in Servers BY <1>0, <2>2 DEF LoaderType
  <2>4. j \in Mcp!Conns BY <1>0, <2>1, <2>2, <2>3 DEF Mcp!Conns
  <2>5. loader.pc \in Mcp!Who \ {a} BY McpNames
  <2>6. mcpconn'[j].mu = loader.pc BY <1>1, <2>2, <2>4, <2>5 DEF Respects, PartStep, ConnStep
  <2> QED BY <1>1, <1>4, <2>1, <2>2, <2>4, <2>6
<1>6. ToolsFit'
  <2>1. \A n \in Servers : registry[n] # 0 => registry[n] \in Mcp!Conns BY <1>0 DEF Mcp!Conns
  <2> QED BY <1>1, <1>4, <2>1 DEF ToolsInv, ToolsFit, PartStep
<1> QED BY <1>1, <1>2, <1>3, <1>5, <1>6 DEF ToolsInv

\* The connection of whoever calls was started.
LEMMA CallerConn ==
  ASSUME ToolsInv, NEW a \in Agents, calling[a].pc # "idle"
  PROVE  /\ calling[a].k \in Mcp!Conns /\ mcpconn[calling[a].k] \in McpConnType
         /\ mcpconn[calling[a].k].used /\ ConnFits(mcpconn[calling[a].k])
         /\ CallerFits(a, calling[a], mcpconn[calling[a].k])
<1>1. calling[a] \in McpCallType /\ mcpconn \in [Mcp!Conns -> McpConnType] BY McpTypes
<1>2. CallerFits(a, calling[a], mcpconn[calling[a].k]) BY DEF ToolsInv, CallersHold
<1>3. calling[a].k \in Mcp!Conns /\ mcpconn[calling[a].k].used
  BY <1>1, <1>2 DEF CallerFits, McpCallType, Mcp!Conns
<1> QED BY <1>1, <1>2, <1>3 DEF ToolsInv

\* A connection whose next line was read is free, and empty if nothing came unasked.
LEMMA TakenIs ==
  ASSUME ToolsInv, NEW k \in Mcp!Conns, NEW i \in Mcp!Who, mcpconn[k].mu = i, Mcp!Scannable(k)
  PROVE  /\ \E s \in McpConnType :
              /\ Mcp!Taken(k) = [mcpconn EXCEPT ![k] = s]
              /\ s.mu = "free" /\ s.used = mcpconn[k].used /\ s.notes = mcpconn[k].notes
              /\ s.eof = mcpconn[k].eof /\ s.up = mcpconn[k].up /\ s.asked = mcpconn[k].asked
              /\ s.notes = 0 => s.asked = {} /\ Len(s.lines) = 0
         /\ Mcp!Line(k) \in Mcp!Who \cup {"note", "error"}
         /\ mcpconn[k].notes = 0 => Mcp!Line(k) \in {i, "error"}
<1>1. /\ mcpconn \in [Mcp!Conns -> McpConnType] /\ mcpconn[k] \in McpConnType /\ ConnFits(mcpconn[k])
  BY McpTypes DEF ToolsInv
<1>2. PICK lines : lines = mcpconn[k].lines OBVIOUS
<1>3. lines \in Seq(Mcp!Who \cup {"note"}) BY <1>1, <1>2 DEF McpConnType
<1>4. /\ Len(lines) \in Nat /\ (lines = << >> <=> Len(lines) = 0)
      /\ Len(lines) # 0 => /\ Head(lines) \in Mcp!Who \cup {"note"}
                           /\ Tail(lines) \in Seq(Mcp!Who \cup {"note"})
                           /\ Len(Tail(lines)) = Len(lines) - 1
  BY <1>3, LinesKeep
<1>5. i # "free" BY McpNames
<1>6. mcpconn[k].notes = 0 =>
        /\ Len(lines) # 0 => Len(lines) = 1 /\ Head(lines) = i /\ mcpconn[k].asked = {}
        /\ Len(lines) = 0 => mcpconn[k].asked = {}
  BY <1>1, <1>2, <1>4 DEF ConnFits, Mcp!Scannable
<1>7. PICK rest : rest = IF lines = << >> THEN lines ELSE Tail(lines) BY Zenon
<1>8. /\ rest \in Seq(Mcp!Who \cup {"note"})
      /\ mcpconn[k].notes = 0 => Len(rest) = 0
  BY <1>3, <1>4, <1>6, <1>7
<1>9. PICK s : s = [mcpconn[k] EXCEPT !.lines = rest, !.mu = "free"] OBVIOUS
<1>10. /\ s \in McpConnType /\ s.mu = "free" /\ s.used = mcpconn[k].used /\ s.notes = mcpconn[k].notes
       /\ s.eof = mcpconn[k].eof /\ s.up = mcpconn[k].up /\ s.asked = mcpconn[k].asked /\ s.lines = rest
  BY ONLY <1>1, <1>8, <1>9 DEF McpConnType
<1>11. Mcp!Taken(k) = [mcpconn EXCEPT ![k] = s]
  <2>1. Mcp!Taken(k) = [mcpconn EXCEPT ![k].lines = rest, ![k].mu = "free"]
    BY <1>2, <1>7, Zenon DEF Mcp!Taken
  <2>2. [mcpconn EXCEPT ![k].lines = rest, ![k].mu = "free"] = [mcpconn EXCEPT ![k] = s]
    BY <1>9
  <2> QED BY <2>1, <2>2
<1>12. Mcp!Line(k) = IF lines = << >> THEN "error" ELSE Head(lines) BY <1>2, Zenon DEF Mcp!Line
<1>13. Mcp!Line(k) \in Mcp!Who \cup {"note", "error"} /\ (mcpconn[k].notes = 0 => Mcp!Line(k) \in {i, "error"})
  BY <1>4, <1>6, <1>12
<1> QED BY <1>6, <1>8, <1>10, <1>11, <1>13

LEMMA ExecuteStep == ASSUME ToolsInv, NEW a \in Agents, Mcp!Execute(a) PROVE ToolsInv'
<1>0. /\ registry \in [Servers -> 0 .. MaxConns] /\ mcpconn \in [Mcp!Conns -> McpConnType]
      /\ calling \in [Agents -> McpCallType]
  BY McpTypes
<1>1. PICK n \in Servers :
        /\ registry[n] # 0
        /\ calling' = [calling EXCEPT ![a] = [pc |-> "lock", k |-> registry[n], got |-> "none"]]
  BY DEF Mcp!Execute
<1>2. PICK k : k = registry[n] OBVIOUS
<1>3. /\ k \in Mcp!Conns /\ k \in 0 .. MaxConns /\ k # 0 /\ mcpconn[k].used /\ mcpconn[k] \in McpConnType
      /\ ConnFits(mcpconn[k])
  BY <1>0, <1>1, <1>2 DEF Mcp!Conns, ToolsInv, ToolsFit
<1>4. PICK q : q = [pc |-> "lock", k |-> k, got |-> "none"] OBVIOUS
<1>5. q \in McpCallType /\ q.pc = "lock" /\ q.k = k /\ q.got = "none"
  BY ONLY <1>3, <1>4 DEF McpCallType
<1>6. calling' = [calling EXCEPT ![a] = q] BY <1>1, <1>2, <1>4
<1>7. /\ calling' \in [Agents -> McpCallType] /\ calling'[a] = q
      /\ \A d \in Agents : d # a => calling'[d] = calling[d]
  BY ONLY <1>0, <1>5, <1>6, a \in Agents
<1>8. UNCHANGED clients /\ UNCHANGED mcpconn /\ UNCHANGED registry /\ UNCHANGED loader
  BY DEF Mcp!Execute
<1>9. PICK s : s = mcpconn[k] OBVIOUS
<1>10. mcpconn' = [mcpconn EXCEPT ![k] = s] BY <1>0, <1>8, <1>9
<1>11. Respects(a, mcpconn[k], s)
  <2>1. mcpconn[k].notes \in 0 .. MaxNotes BY <1>3 DEF McpConnType
  <2> QED BY <1>9, <2>1 DEF Respects
<1>12. ConnStep(a, k, s) BY <1>3, <1>7, <1>9, <1>10, <1>11 DEF ConnStep
<1>13. CallerFits(a, calling'[a], mcpconn'[calling'[a].k])
  BY <1>3, <1>5, <1>7, <1>8 DEF CallerFits
<1>14. PartStep(a, k, s) BY <1>7, <1>8, <1>9, <1>12, <1>13 DEF PartStep
<1> QED BY <1>3, <1>9, <1>14, PartMoves

LEMMA LockStep == ASSUME ToolsInv, NEW a \in Agents, Mcp!Lock(a) PROVE ToolsInv'
<1>0. /\ mcpconn \in [Mcp!Conns -> McpConnType] /\ calling \in [Agents -> McpCallType]
  BY McpTypes
<1>1. PICK k : k = calling[a].k OBVIOUS
<1>2. /\ calling[a].pc = "lock" /\ mcpconn[k].mu = "free" /\ mcpconn' = [mcpconn EXCEPT ![k].mu = a]
      /\ calling' = [calling EXCEPT ![a].pc = "write"]
      /\ UNCHANGED clients /\ UNCHANGED registry /\ UNCHANGED loader
  BY <1>1 DEF Mcp!Lock
<1>3. /\ k \in Mcp!Conns /\ mcpconn[k] \in McpConnType /\ mcpconn[k].used /\ ConnFits(mcpconn[k])
      /\ CallerFits(a, calling[a], mcpconn[k])
  BY <1>1, <1>2, CallerConn
<1>4. PICK q : q = [calling[a] EXCEPT !.pc = "write"] OBVIOUS
<1>5. q \in McpCallType /\ q.pc = "write" /\ q.k = k /\ q.got = calling[a].got
  BY ONLY <1>0, <1>1, <1>4, a \in Agents DEF McpCallType
<1>6. calling' = [calling EXCEPT ![a] = q] BY <1>2, <1>4
<1>7. /\ calling' \in [Agents -> McpCallType] /\ calling'[a] = q
      /\ \A d \in Agents : d # a => calling'[d] = calling[d]
  BY ONLY <1>0, <1>5, <1>6, a \in Agents
<1>8. PICK s : s = [mcpconn[k] EXCEPT !.mu = a] OBVIOUS
<1>9. a \in Mcp!Who /\ a # "free" /\ "free" \notin Mcp!Who BY McpNames
<1>10. /\ s \in McpConnType /\ s.mu = a /\ s.up = mcpconn[k].up /\ s.eof = mcpconn[k].eof
       /\ s.used = mcpconn[k].used /\ s.asked = mcpconn[k].asked /\ s.lines = mcpconn[k].lines
       /\ s.notes = mcpconn[k].notes
  BY ONLY <1>3, <1>8, <1>9 DEF McpConnType
<1>11. mcpconn' = [mcpconn EXCEPT ![k] = s] BY <1>2, <1>8
<1>12. ConnFits(s) BY <1>2, <1>3, <1>10 DEF ConnFits
<1>13. Respects(a, mcpconn[k], s)
  <2>1. mcpconn[k].notes \in 0 .. MaxNotes BY <1>3 DEF McpConnType
  <2> QED BY <1>2, <1>9, <1>10, <2>1, McpNames DEF Respects
<1>14. ConnStep(a, k, s) BY <1>7, <1>11, <1>12, <1>13 DEF ConnStep
<1>15. mcpconn'[k] = s BY <1>0, <1>3, <1>11
<1>16. CallerFits(a, calling'[a], mcpconn'[calling'[a].k])
  <2>1. CallerFits(a, q, s) BY <1>1, <1>2, <1>3, <1>5, <1>10 DEF CallerFits, ConnFits
  <2> QED BY <1>5, <1>7, <1>15, <2>1
<1>17. PartStep(a, k, s) BY <1>2, <1>7, <1>10, <1>14, <1>16 DEF PartStep
<1> QED BY <1>3, <1>10, <1>17, PartMoves

\* A call that ends: with what it keeps, if anything came unasked.
Returned(a, k, got, s) ==
  /\ k = calling[a].k /\ calling[a].pc \in {"write", "scan"}
  /\ mcpconn[k].notes = 0 => got \in {a, "error"}
  /\ s.mu = "free" /\ s.used = mcpconn[k].used /\ s.notes = mcpconn[k].notes
  /\ s.eof = mcpconn[k].eof /\ s.up = mcpconn[k].up /\ s.asked = mcpconn[k].asked
  /\ s.notes = 0 => s.asked = {} /\ Len(s.lines) = 0
  /\ mcpconn' = [mcpconn EXCEPT ![k] = s]
  /\ calling' = [calling EXCEPT ![a] = IF got \in {a, "error"} THEN Mcp!Idle
                                       ELSE [pc |-> "idle", k |-> k, got |-> got]]
  /\ UNCHANGED clients /\ UNCHANGED registry /\ UNCHANGED loader

LEMMA ReturnMoves ==
  ASSUME ToolsInv, NEW a \in Agents, NEW k \in Mcp!Conns, NEW got \in Mcp!Who \cup {"note", "error"},
         NEW s \in McpConnType, Returned(a, k, got, s)
  PROVE  ToolsInv'
<1> USE DEF Returned
<1>0. /\ mcpconn \in [Mcp!Conns -> McpConnType] /\ calling \in [Agents -> McpCallType]
  BY McpTypes
<1>1. /\ mcpconn[k] \in McpConnType /\ mcpconn[k].used /\ ConnFits(mcpconn[k]) /\ mcpconn[k].mu = a
  BY CallerConn DEF CallerFits
<1>2. /\ k \in 0 .. MaxConns /\ k # 0 /\ 0 \in 0 .. MaxConns BY AdaptersAssumption DEF Mcp!Conns
<1>3. PICK q : q = IF got \in {a, "error"} THEN Mcp!Idle ELSE [pc |-> "idle", k |-> k, got |-> got]
  BY Zenon
<1>4. /\ q \in McpCallType /\ q.pc = "idle"
      /\ q.got # "none" => q.k = k /\ mcpconn[k].notes # 0
  <2>1. CASE got \in {a, "error"} BY <1>2, <1>3, <2>1 DEF Mcp!Idle, McpCallType
  <2>2. CASE got \notin {a, "error"}
    <3>1. q = [pc |-> "idle", k |-> k, got |-> got] /\ got \in Mcp!Who \cup {"none", "note"}
      BY <1>3, <2>2
    <3> QED BY <1>2, <2>2, <3>1 DEF McpCallType
  <2> QED BY <2>1, <2>2
<1>5. calling' = [calling EXCEPT ![a] = q] BY <1>3, Zenon
<1>6. /\ calling' \in [Agents -> McpCallType] /\ calling'[a] = q
      /\ \A d \in Agents : d # a => calling'[d] = calling[d]
  BY ONLY <1>0, <1>4, <1>5, a \in Agents
<1>7. mcpconn[k].notes \in 0 .. MaxNotes BY <1>1 DEF McpConnType
<1>8. Respects(a, mcpconn[k], s) BY <1>1, <1>7 DEF Respects
<1>9. ConnFits(s) BY <1>1 DEF ConnFits
<1>10. ConnStep(a, k, s) BY <1>6, <1>8, <1>9 DEF ConnStep
<1>11. mcpconn'[k] = s BY <1>0
<1>12. CallerFits(a, calling'[a], mcpconn'[calling'[a].k])
  <2>1. CASE q.got = "none" BY <1>4, <1>6, <2>1 DEF CallerFits
  <2>2. CASE q.got # "none"
    <3>1. s.notes > 0 BY <1>4, <1>7, <2>2
    <3>2. CallerFits(a, q, s) BY <1>1, <1>2, <1>4, <2>2, <3>1 DEF CallerFits
    <3> QED BY <1>4, <1>6, <1>11, <2>2, <3>2
  <2> QED BY <2>1, <2>2
<1>13. PartStep(a, k, s) BY <1>6, <1>10, <1>12 DEF PartStep
<1> QED BY <1>13, PartMoves

LEMMA WriteStep == ASSUME ToolsInv, NEW a \in Agents, Mcp!Write(a) PROVE ToolsInv'
<1>0. /\ mcpconn \in [Mcp!Conns -> McpConnType] /\ calling \in [Agents -> McpCallType]
  BY McpTypes
<1>1. PICK k : k = calling[a].k OBVIOUS
<1>2. calling[a].pc = "write" /\ UNCHANGED clients /\ UNCHANGED registry /\ UNCHANGED loader
  BY DEF Mcp!Write
<1>3. /\ k \in Mcp!Conns /\ mcpconn[k] \in McpConnType /\ mcpconn[k].used /\ ConnFits(mcpconn[k])
      /\ CallerFits(a, calling[a], mcpconn[k])
  BY <1>1, <1>2, CallerConn
<1>4. mcpconn[k].mu = a /\ (mcpconn[k].notes = 0 => mcpconn[k].asked = {} /\ Len(mcpconn[k].lines) = 0)
  BY <1>2, <1>3 DEF CallerFits
<1>5. CASE Mcp!Writable(k)
  <2>1. /\ mcpconn[k].up /\ mcpconn' = [mcpconn EXCEPT ![k].asked = @ \cup {a}]
        /\ calling' = [calling EXCEPT ![a].pc = "scan"]
    BY <1>1, <1>5 DEF Mcp!Write, Mcp!Writable, Mcp!Written
  <2>2. PICK asked : asked = mcpconn[k].asked \cup {a} OBVIOUS
  <2>3. asked \in SUBSET Mcp!Who BY <1>3, <2>2, McpNames DEF McpConnType
  <2>4. PICK s : s = [mcpconn[k] EXCEPT !.asked = asked] OBVIOUS
  <2>5. /\ s \in McpConnType /\ s.mu = mcpconn[k].mu /\ s.up = mcpconn[k].up /\ s.eof = mcpconn[k].eof
        /\ s.used = mcpconn[k].used /\ s.asked = asked /\ s.lines = mcpconn[k].lines
        /\ s.notes = mcpconn[k].notes
    BY ONLY <1>3, <2>3, <2>4 DEF McpConnType
  <2>6. mcpconn' = [mcpconn EXCEPT ![k] = s]
    <3>1. mcpconn' = [mcpconn EXCEPT ![k].asked = asked] BY <2>1, <2>2, Zenon
    <3> QED BY <2>4, <3>1
  <2>7. PICK q : q = [calling[a] EXCEPT !.pc = "scan"] OBVIOUS
  <2>8. q \in McpCallType /\ q.pc = "scan" /\ q.k = k /\ q.got = calling[a].got
    BY ONLY <1>0, <1>1, <2>7, a \in Agents DEF McpCallType
  <2>9. calling' = [calling EXCEPT ![a] = q] BY <2>1, <2>7
  <2>10. /\ calling' \in [Agents -> McpCallType] /\ calling'[a] = q
         /\ \A d \in Agents : d # a => calling'[d] = calling[d]
    BY ONLY <1>0, <2>8, <2>9, a \in Agents
  <2>11. a # "free" BY McpNames
  <2>12. ConnFits(s) BY <1>4, <2>1, <2>2, <2>5, <2>11 DEF ConnFits
  <2>13. mcpconn[k].notes \in 0 .. MaxNotes BY <1>3 DEF McpConnType
  <2>14. Respects(a, mcpconn[k], s) BY <1>4, <2>5, <2>13 DEF Respects
  <2>15. ConnStep(a, k, s) BY <2>6, <2>10, <2>12, <2>14 DEF ConnStep
  <2>16. mcpconn'[k] = s BY <1>0, <1>3, <2>6
  <2>17. CallerFits(a, q, s) BY <1>1, <1>2, <1>3, <1>4, <2>5, <2>8 DEF CallerFits
  <2>18. PartStep(a, k, s) BY <1>2, <2>5, <2>8, <2>10, <2>15, <2>16, <2>17 DEF PartStep
  <2> QED BY <1>3, <2>5, <2>18, PartMoves
<1>6. CASE ~Mcp!Writable(k)
  <2>1. Mcp!Return(a, k, "error", mcpconn) BY <1>1, <1>6 DEF Mcp!Write
  <2>2. PICK s : s = [mcpconn[k] EXCEPT !.mu = "free"] OBVIOUS
  <2>3. /\ s \in McpConnType /\ s.mu = "free" /\ s.up = mcpconn[k].up /\ s.eof = mcpconn[k].eof
        /\ s.used = mcpconn[k].used /\ s.asked = mcpconn[k].asked /\ s.lines = mcpconn[k].lines
        /\ s.notes = mcpconn[k].notes
    BY ONLY <1>3, <2>2 DEF McpConnType
  <2>4. mcpconn' = [mcpconn EXCEPT ![k] = s] BY <2>1, <2>2 DEF Mcp!Return
  <2>5. PICK got : got = "error" OBVIOUS
  <2>6. calling' = [calling EXCEPT ![a] = IF got \in {a, "error"} THEN Mcp!Idle
                                          ELSE [pc |-> "idle", k |-> k, got |-> got]]
    BY <2>1, <2>5, Zenon DEF Mcp!Return
  <2>7. Returned(a, k, got, s) BY <1>1, <1>2, <1>4, <2>3, <2>4, <2>5, <2>6 DEF Returned
  <2> QED BY <1>3, <2>3, <2>5, <2>7, ReturnMoves
<1> QED BY <1>5, <1>6

LEMMA ScanStep == ASSUME ToolsInv, NEW a \in Agents, Mcp!Scan(a) PROVE ToolsInv'
<1>0. mcpconn \in [Mcp!Conns -> McpConnType] BY McpTypes
<1>1. PICK k : k = calling[a].k OBVIOUS
<1>2. /\ calling[a].pc = "scan" /\ Mcp!Scannable(k) /\ Mcp!Return(a, k, Mcp!Line(k), Mcp!Taken(k))
      /\ UNCHANGED clients /\ UNCHANGED registry /\ UNCHANGED loader
  BY <1>1 DEF Mcp!Scan
<1>3. /\ k \in Mcp!Conns /\ mcpconn[k] \in McpConnType /\ CallerFits(a, calling[a], mcpconn[k])
  BY <1>1, <1>2, CallerConn
<1>4. mcpconn[k].mu = a /\ a \in Mcp!Who BY <1>2, <1>3, McpNames DEF CallerFits
<1>5. /\ Mcp!Line(k) \in Mcp!Who \cup {"note", "error"}
      /\ mcpconn[k].notes = 0 => Mcp!Line(k) \in {a, "error"}
  BY <1>2, <1>3, <1>4, TakenIs
<1>6. PICK s \in McpConnType :
        /\ Mcp!Taken(k) = [mcpconn EXCEPT ![k] = s]
        /\ s.mu = "free" /\ s.used = mcpconn[k].used /\ s.notes = mcpconn[k].notes
        /\ s.eof = mcpconn[k].eof /\ s.up = mcpconn[k].up /\ s.asked = mcpconn[k].asked
        /\ s.notes = 0 => s.asked = {} /\ Len(s.lines) = 0
  BY <1>2, <1>3, <1>4, TakenIs
<1>7. mcpconn' = [mcpconn EXCEPT ![k] = s]
  <2>1. mcpconn' = [[mcpconn EXCEPT ![k] = s] EXCEPT ![k].mu = "free"]
    BY <1>2, <1>6, Zenon DEF Mcp!Return
  <2>2. [s EXCEPT !.mu = "free"] = s BY <1>6 DEF McpConnType
  <2>3. [mcpconn EXCEPT ![k] = s] \in [Mcp!Conns -> McpConnType] BY <1>0
  <2>4. [mcpconn EXCEPT ![k] = s][k] = s BY <1>0, <1>3
  <2> QED BY <2>1, <2>2, <2>3, <2>4
<1>8. PICK got : got = Mcp!Line(k) OBVIOUS
<1>9. calling' = [calling EXCEPT ![a] = IF got \in {a, "error"} THEN Mcp!Idle
                                        ELSE [pc |-> "idle", k |-> k, got |-> got]]
  BY <1>2, <1>8, Zenon DEF Mcp!Return
<1>10. Returned(a, k, got, s) BY <1>1, <1>2, <1>5, <1>6, <1>7, <1>8, <1>9 DEF Returned
<1> QED BY <1>3, <1>5, <1>8, <1>10, ReturnMoves

\* What a process does with a connection: a line more, or its end.
Served(k, s) ==
  /\ mcpconn' = [mcpconn EXCEPT ![k] = s]
  /\ ConnFits(s) /\ s.eof = mcpconn[k].eof /\ s.used = mcpconn[k].used /\ s.mu = mcpconn[k].mu
  /\ s.notes >= mcpconn[k].notes
  /\ s.notes = 0 /\ mcpconn[k].asked = {} => s.asked = {} /\ s.lines = mcpconn[k].lines
  /\ UNCHANGED clients /\ UNCHANGED registry /\ UNCHANGED loader /\ UNCHANGED calling

LEMMA ProcessMovesOn ==
  ASSUME ToolsInv, NEW k \in Mcp!Conns, NEW s \in McpConnType, Served(k, s)
  PROVE  ToolsInv'
<1> USE DEF Served
<1>1. calling \in [Agents -> McpCallType] /\ "free" \notin Agents BY McpTypes, McpNames
<1>2. Respects("free", mcpconn[k], s) BY DEF Respects
<1>3. ConnStep("free", k, s) BY <1>2 DEF ConnStep
<1>4. PartStep("free", k, s) BY <1>1, <1>3 DEF PartStep
<1> QED BY <1>4, PartMoves

LEMMA ServerStep ==
  ASSUME ToolsInv, NEW k \in Mcp!Conns, Mcp!Answer(k) \/ Mcp!Notify(k) \/ Mcp!Die(k) PROVE ToolsInv'
<1>0. /\ mcpconn \in [Mcp!Conns -> McpConnType] /\ mcpconn[k] \in McpConnType /\ ConnFits(mcpconn[k])
  BY McpTypes DEF ToolsInv
<1>1. UNCHANGED clients /\ UNCHANGED registry /\ UNCHANGED loader /\ UNCHANGED calling
  BY DEF Mcp!Answer, Mcp!Notify, Mcp!Die
<1>2. PICK lines : lines = mcpconn[k].lines OBVIOUS
<1>3. /\ lines \in Seq(Mcp!Who \cup {"note"}) /\ mcpconn[k].notes \in 0 .. MaxNotes
      /\ mcpconn[k].asked \subseteq Mcp!Who
  BY <1>0, <1>2 DEF McpConnType
<1>4. CASE Mcp!Answer(k)
  <2>1. PICK i \in mcpconn[k].asked :
          mcpconn' = [mcpconn EXCEPT ![k].asked = @ \ {i}, ![k].lines = Append(@, i)]
    BY <1>4 DEF Mcp!Answer
  <2>2. PICK asked, more : asked = mcpconn[k].asked \ {i} /\ more = Append(lines, i) BY Zenon
  <2>3. i \in Mcp!Who \cup {"note"} /\ asked \in SUBSET Mcp!Who BY <1>3, <2>1, <2>2
  <2>4. /\ more \in Seq(Mcp!Who \cup {"note"}) /\ Len(more) = Len(lines) + 1
        /\ Len(lines) = 0 => Head(more) = i
        /\ Len(lines) \in Nat
    BY <1>3, <2>2, <2>3, LinesKeep
  <2>5. PICK s : s = [mcpconn[k] EXCEPT !.asked = asked, !.lines = more] OBVIOUS
  <2>6. /\ s \in McpConnType /\ s.mu = mcpconn[k].mu /\ s.up = mcpconn[k].up /\ s.eof = mcpconn[k].eof
        /\ s.used = mcpconn[k].used /\ s.asked = asked /\ s.lines = more /\ s.notes = mcpconn[k].notes
    BY ONLY <1>0, <2>3, <2>4, <2>5 DEF McpConnType
  <2>7. mcpconn' = [mcpconn EXCEPT ![k] = s]
    <3>1. mcpconn' = [mcpconn EXCEPT ![k].asked = asked, ![k].lines = more]
      BY <1>2, <2>1, <2>2, Zenon
    <3> QED BY <2>5, <3>1
  <2>8. mcpconn[k].up BY <1>4 DEF Mcp!Answer
  <2>9. mcpconn[k].notes = 0 => i = mcpconn[k].mu /\ asked = {} /\ Len(lines) = 0 /\ i # "free"
    BY <1>0, <1>2, <1>3, <2>1, <2>2, McpNames DEF ConnFits
  <2>10. ConnFits(s)
    <3>1. s.notes = 0 => s.asked = {} /\ Len(s.lines) = 1 /\ Head(s.lines) = s.mu /\ s.mu # "free"
      BY <2>4, <2>6, <2>9
    <3> QED BY <2>6, <2>8, <3>1 DEF ConnFits
  <2>11. mcpconn[k].asked # {} BY <2>1
  <2>12. Served(k, s) BY <1>1, <1>3, <2>6, <2>7, <2>10, <2>11 DEF Served
  <2> QED BY <2>6, <2>12, ProcessMovesOn
<1>5. CASE Mcp!Notify(k)
  <2>1. /\ mcpconn[k].up /\ mcpconn[k].notes < MaxNotes
        /\ mcpconn' = [mcpconn EXCEPT ![k].notes = @ + 1, ![k].lines = Append(@, "note")]
    BY <1>5 DEF Mcp!Notify
  <2>2. PICK n, more : n = mcpconn[k].notes + 1 /\ more = Append(lines, "note") BY Zenon
  <2>3. n \in 0 .. MaxNotes /\ n > mcpconn[k].notes /\ n # 0
    <3>1. mcpconn[k].notes \in 0 .. MaxNotes /\ MaxNotes \in Nat BY <1>3, AdaptersAssumption
    <3>2. mcpconn[k].notes < MaxNotes /\ n = mcpconn[k].notes + 1 BY <2>1, <2>2
    <3> QED BY ONLY <3>1, <3>2
  <2>4. more \in Seq(Mcp!Who \cup {"note"}) BY <1>3, <2>2, LinesKeep
  <2>5. PICK s : s = [mcpconn[k] EXCEPT !.notes = n, !.lines = more] OBVIOUS
  <2>6. /\ s \in McpConnType /\ s.mu = mcpconn[k].mu /\ s.up = mcpconn[k].up /\ s.eof = mcpconn[k].eof
        /\ s.used = mcpconn[k].used /\ s.asked = mcpconn[k].asked /\ s.notes = n
    BY ONLY <1>0, <2>3, <2>4, <2>5 DEF McpConnType
  <2>7. mcpconn' = [mcpconn EXCEPT ![k] = s]
    <3>1. mcpconn' = [mcpconn EXCEPT ![k].notes = n, ![k].lines = more] BY <1>2, <2>1, <2>2, Zenon
    <3> QED BY <2>5, <3>1
  <2>8. ConnFits(s) BY <1>0, <2>3, <2>6 DEF ConnFits
  <2>9. s.notes >= mcpconn[k].notes BY <1>3, <2>3, <2>6
  <2>10. Served(k, s) BY <1>1, <2>3, <2>6, <2>7, <2>8, <2>9 DEF Served
  <2> QED BY <2>6, <2>10, ProcessMovesOn
<1>6. CASE Mcp!Die(k)
  <2>1. mcpconn' = [mcpconn EXCEPT ![k].up = FALSE, ![k].asked = {}] BY <1>6 DEF Mcp!Die
  <2>2. PICK s : s = [mcpconn[k] EXCEPT !.up = FALSE, !.asked = {}] OBVIOUS
  <2>3. /\ s \in McpConnType /\ s.mu = mcpconn[k].mu /\ s.asked = {} /\ s.eof = mcpconn[k].eof
        /\ s.used = mcpconn[k].used /\ s.lines = lines /\ s.notes = mcpconn[k].notes
    BY ONLY <1>0, <1>2, <2>2 DEF McpConnType
  <2>4. mcpconn' = [mcpconn EXCEPT ![k] = s] BY <2>1, <2>2
  <2>5. ConnFits(s) BY <1>0, <1>2, <2>3 DEF ConnFits
  <2>6. Served(k, s) BY <1>1, <1>2, <1>3, <2>3, <2>4, <2>5 DEF Served
  <2> QED BY <2>3, <2>6, ProcessMovesOn
<1> QED BY <1>4, <1>5, <1>6

\* What the loader leaves as it was: every caller has its connection.
ConnsStay ==
  /\ mcpconn' \in [Mcp!Conns -> McpConnType] /\ calling' \in [Agents -> McpCallType]
  /\ \A j \in Mcp!Conns : ConnFits(mcpconn'[j])
  /\ \A d \in Agents : CallerFits(d, calling'[d], mcpconn'[calling'[d].k])
  /\ \A j \in Mcp!Conns : mcpconn[j].used => mcpconn'[j].used

LEMMA LoaderMoves ==
  ASSUME ConnsStay, clients' \in [Servers -> 0 .. MaxConns], registry' \in [Servers -> 0 .. MaxConns],
         loader' \in LoaderType, LoaderHolds', ToolsFit'
  PROVE  ToolsInv'
<1>1. Mcp!TypeOK' BY McpTypesAgain DEF ConnsStay
<1> QED BY <1>1 DEF ConnsStay, ToolsInv, CallersHold

LEMMA ConnsRest ==
  ASSUME ToolsInv, UNCHANGED mcpconn, UNCHANGED calling PROVE ConnsStay
BY McpTypes DEF ToolsInv, CallersHold, ConnsStay

LEMMA ConnsMove ==
  ASSUME ToolsInv, NEW k \in Mcp!Conns, NEW s \in McpConnType, NEW a, a \notin Agents,
         ConnStep(a, k, s), UNCHANGED calling
  PROVE  /\ ConnsStay /\ mcpconn'[k] = s
         /\ \A j \in Mcp!Conns : j # k => mcpconn'[j] = mcpconn[j]
<1>1. calling \in [Agents -> McpCallType] BY McpTypes
<1>2. /\ mcpconn' \in [Mcp!Conns -> McpConnType] /\ mcpconn'[k] = s
      /\ \A j \in Mcp!Conns : j # k => mcpconn'[j] = mcpconn[j]
      /\ \A j \in Mcp!Conns : ConnFits(mcpconn'[j])
      /\ \A j \in Mcp!Conns : mcpconn[j].used => mcpconn'[j].used
      /\ \A d \in Agents : d # a => CallerFits(d, calling'[d], mcpconn'[calling'[d].k])
  BY ConnMoves
<1>3. \A d \in Agents : d # a OBVIOUS
<1> QED BY <1>1, <1>2, <1>3 DEF ConnsStay

\* A connection that is closed, or whose unread lines are lost, if it is one.
LEMMA ConnCloses ==
  ASSUME ToolsInv, NEW k, UNCHANGED calling,
         \/ mcpconn' = [mcpconn EXCEPT ![k].eof = TRUE]
         \/ mcpconn' = [mcpconn EXCEPT ![k].lines = << >>]
  PROVE  ConnsStay
<1>0. mcpconn \in [Mcp!Conns -> McpConnType] BY McpTypes
<1>1. CASE k \notin Mcp!Conns
  <2>1. mcpconn' = mcpconn BY <1>0, <1>1
  <2> QED BY <2>1, ConnsRest
<1>2. CASE k \in Mcp!Conns
  <2>1. mcpconn[k] \in McpConnType /\ ConnFits(mcpconn[k]) /\ "free" \notin Agents
    BY <1>0, <1>2, McpNames DEF ToolsInv
  <2>2. mcpconn[k].notes \in 0 .. MaxNotes BY <2>1 DEF McpConnType
  <2>3. PICK q : q = << >> OBVIOUS
  <2>4. q \in Seq(Mcp!Who \cup {"note"}) /\ Len(q) = 0 BY ONLY <2>3
  <2>5. PICK s : /\ s = [mcpconn[k] EXCEPT !.eof = TRUE] \/ s = [mcpconn[k] EXCEPT !.lines = q]
                 /\ mcpconn' = [mcpconn EXCEPT ![k] = s]
    BY <2>3
  <2>6. /\ s \in McpConnType /\ s.mu = mcpconn[k].mu /\ s.asked = mcpconn[k].asked /\ s.up = mcpconn[k].up
        /\ s.used = mcpconn[k].used /\ s.notes = mcpconn[k].notes
        /\ s.lines = mcpconn[k].lines \/ Len(s.lines) = 0
    BY ONLY <2>1, <2>4, <2>5 DEF McpConnType
  <2>7. ConnFits(s) BY <2>1, <2>6 DEF ConnFits
  <2>8. Respects("free", mcpconn[k], s) BY <2>2, <2>6 DEF Respects
  <2>9. ConnStep("free", k, s) BY <2>5, <2>7, <2>8 DEF ConnStep
  <2> QED BY <1>2, <2>1, <2>6, <2>9, ConnsMove
<1> QED BY <1>1, <1>2

\* Tools that are offered, and where they go.
LEMMA ToolConns ==
  ASSUME ToolsInv PROVE \A n \in Servers : registry[n] # 0 => registry[n] \in Mcp!Conns
BY McpTypes DEF Mcp!Conns

LEMMA CloseStep == ASSUME ToolsInv, Mcp!CloseOne \/ Mcp!StopOne PROVE ToolsInv'
<1>0. /\ clients \in [Servers -> 0 .. MaxConns] /\ registry \in [Servers -> 0 .. MaxConns]
      /\ loader \in LoaderType
  BY McpTypes
<1>1. PICK pc, next : <<pc, next>> \in {<<"close", "wait">>, <<"stop", "halt">>} /\ Mcp!Close(pc, next)
  BY DEF Mcp!CloseOne, Mcp!StopOne
<1>2. /\ \/ pc = "close" /\ next = "wait"
         \/ pc = "stop" /\ next = "halt"
  BY <1>1
<1>3. PICK n \in loader.todo : /\ loader.pc = pc /\ mcpconn' = [mcpconn EXCEPT ![clients[n]].eof = TRUE]
                               /\ loader' = [loader EXCEPT !.pc = next, !.n = n]
                               /\ UNCHANGED clients /\ UNCHANGED registry /\ UNCHANGED calling
  BY <1>1 DEF Mcp!Close
<1>4. ConnsStay BY <1>3, ConnCloses
<1>5. n \in Servers BY <1>0 DEF LoaderType
<1>6. /\ loader' \in LoaderType /\ loader'.pc = next /\ loader'.n = n /\ loader'.todo = loader.todo
  BY ONLY <1>0, <1>2, <1>3, <1>5 DEF LoaderType
<1>7. LoaderHolds' BY <1>2, <1>6 DEF LoaderHolds
<1>8. ToolsFit' BY <1>2, <1>3, <1>4, <1>6, ToolConns DEF ToolsInv, ToolsFit, ConnsStay
<1> QED BY <1>0, <1>3, <1>4, <1>6, <1>7, <1>8, LoaderMoves

LEMMA ExitedStep == ASSUME ToolsInv, Mcp!ExitedOne \/ Mcp!Halted PROVE ToolsInv'
<1>0. /\ clients \in [Servers -> 0 .. MaxConns] /\ registry \in [Servers -> 0 .. MaxConns]
      /\ loader \in LoaderType
  BY McpTypes
<1>1. PICK n : n = loader.n OBVIOUS
<1>2. PICK pc, next :
        /\ \/ pc = "wait" /\ next = "close" /\ registry' = [registry EXCEPT ![n] = 0]
           \/ pc = "halt" /\ next = "stop" /\ UNCHANGED registry
        /\ Mcp!Exited(pc, next)
  BY <1>1 DEF Mcp!ExitedOne, Mcp!Halted
<1>3. /\ loader.pc = pc /\ mcpconn' = [mcpconn EXCEPT ![clients[n]].lines = << >>]
      /\ loader' = [loader EXCEPT !.pc = next, !.todo = @ \ {n}]
      /\ UNCHANGED clients /\ UNCHANGED calling
  BY <1>1, <1>2 DEF Mcp!Exited
<1>4. ConnsStay BY <1>3, ConnCloses
<1>5. PICK todo : todo = loader.todo \ {n} OBVIOUS
<1>6. loader.todo \subseteq Servers /\ todo \in SUBSET Servers BY <1>0, <1>5 DEF LoaderType
<1>7. loader' = [loader EXCEPT !.pc = next, !.todo = todo] BY <1>3, <1>5, Zenon
<1>8. /\ loader' \in LoaderType /\ loader'.pc = next /\ loader'.todo = todo
  BY ONLY <1>0, <1>2, <1>6, <1>7 DEF LoaderType
<1>9. LoaderHolds' BY <1>2, <1>8 DEF LoaderHolds
<1>10. /\ registry' \in [Servers -> 0 .. MaxConns]
       /\ \A m \in Servers : registry'[m] # 0 => registry'[m] = registry[m] /\ (pc = "wait" => m # n)
  BY <1>0, <1>2, AdaptersAssumption
<1>11. ToolsFit'
  BY <1>2, <1>3, <1>4, <1>5, <1>8, <1>10, ToolConns DEF ToolsInv, ToolsFit, ConnsStay
<1> QED BY <1>0, <1>3, <1>4, <1>8, <1>9, <1>10, <1>11, LoaderMoves

\* The loader goes on without touching a connection.
LEMMA LoaderStep ==
  ASSUME ToolsInv, Mcp!Reload \/ Mcp!NewClients \/ Mcp!Loaded \/ Mcp!Stop \/ Mcp!Stopped PROVE ToolsInv'
<1>0. /\ clients \in [Servers -> 0 .. MaxConns] /\ registry \in [Servers -> 0 .. MaxConns]
      /\ loader \in LoaderType
  BY McpTypes
<1>1. UNCHANGED mcpconn /\ UNCHANGED registry /\ UNCHANGED calling
  BY DEF Mcp!Reload, Mcp!NewClients, Mcp!Loaded, Mcp!Stop, Mcp!Stopped
<1>2. ConnsStay BY <1>1, ConnsRest
<1>3. Mcp!Resting \in LoaderType /\ Mcp!Resting.pc = "idle" BY DEF Mcp!Resting, LoaderType
<1>4. CASE Mcp!Reload
  <2>1. PICK todo, rows :
          /\ loader.pc = "idle" /\ todo = {n \in Servers : clients[n] # 0} /\ rows \in SUBSET Servers
          /\ loader' = [pc |-> "close", todo |-> todo, want |-> rows, n |-> 0] /\ UNCHANGED clients
    BY <1>4 DEF Mcp!Reload
  <2>2. /\ loader' \in LoaderType /\ loader'.pc = "close" /\ loader'.todo = todo
    BY <2>1 DEF LoaderType
  <2>3. LoaderHolds' BY <2>2 DEF LoaderHolds
  <2>4. ToolsFit' BY <1>1, <2>1, <2>2 DEF ToolsInv, ToolsFit
  <2> QED BY <1>0, <1>1, <1>2, <2>1, <2>2, <2>3, <2>4, LoaderMoves
<1>5. CASE Mcp!NewClients
  <2>1. /\ loader.pc = "close" /\ loader.todo = {} /\ clients' = [n \in Servers |-> 0]
        /\ loader' = [loader EXCEPT !.pc = "open", !.todo = loader.want]
    BY <1>5 DEF Mcp!NewClients
  <2>2. loader' \in LoaderType /\ loader'.pc = "open" BY <1>0, <2>1 DEF LoaderType
  <2>3. clients' \in [Servers -> 0 .. MaxConns] BY <2>1, AdaptersAssumption
  <2>4. LoaderHolds' BY <2>2 DEF LoaderHolds
  <2>5. \A n \in Servers : registry[n] = 0 BY <2>1 DEF ToolsInv, ToolsFit
  <2>6. ToolsFit' BY <1>1, <2>5 DEF ToolsFit
  <2> QED BY <1>0, <1>1, <1>2, <2>2, <2>3, <2>4, <2>6, LoaderMoves
<1>6. CASE Mcp!Loaded
  <2>1. loader.pc = "open" /\ loader' = Mcp!Resting /\ UNCHANGED clients BY <1>6 DEF Mcp!Loaded
  <2>2. LoaderHolds' BY <1>3, <2>1 DEF LoaderHolds
  <2>3. ToolsFit' BY <1>1, <1>3, <2>1 DEF ToolsInv, ToolsFit
  <2> QED BY <1>0, <1>1, <1>2, <1>3, <2>1, <2>2, <2>3, LoaderMoves
<1>7. CASE Mcp!Stop \/ Mcp!Stopped
  <2>1. CASE Mcp!Stop
    <3>1. PICK todo : todo = {n \in Servers : clients[n] # 0} OBVIOUS
    <3>2. todo \in SUBSET Servers BY <3>1
    <3>3. loader' = [Mcp!Resting EXCEPT !.pc = "stop", !.todo = todo] /\ UNCHANGED clients
      BY <2>1, <3>1 DEF Mcp!Stop
    <3>4. loader' \in LoaderType /\ loader'.pc = "stop" BY ONLY <1>3, <3>2, <3>3 DEF LoaderType
    <3>5. LoaderHolds' BY <3>4 DEF LoaderHolds
    <3>6. ToolsFit' BY <1>1, <3>4 DEF ToolsInv, ToolsFit
    <3> QED BY <1>0, <1>1, <1>2, <3>3, <3>4, <3>5, <3>6, LoaderMoves
  <2>2. CASE Mcp!Stopped
    <3>1. loader' = [Mcp!Resting EXCEPT !.pc = "off"] /\ UNCHANGED clients BY <2>2 DEF Mcp!Stopped
    <3>2. loader' \in LoaderType /\ loader'.pc = "off" BY ONLY <1>3, <3>1 DEF LoaderType
    <3>3. LoaderHolds' BY <3>2 DEF LoaderHolds
    <3>4. ToolsFit' BY <1>1, <3>2 DEF ToolsInv, ToolsFit
    <3> QED BY <1>0, <1>1, <1>2, <3>1, <3>2, <3>3, <3>4, LoaderMoves
  <2> QED BY <1>7, <2>1, <2>2
<1> QED BY <1>4, <1>5, <1>6, <1>7

\* The next server, and the next connection, are those that there are.
LEMMA FirstIsThere == ASSUME ToolsInv, loader.todo # {} PROVE Mcp!First(loader.todo) \in loader.todo
<1>1. loader.todo \subseteq Nat BY McpTypes, AdaptersAssumption DEF LoaderType
<1>2. \E n \in loader.todo : \A m \in loader.todo : n <= m BY <1>1, Least
<1> QED BY <1>2 DEF Mcp!First

LEMMA FreshIsThere ==
  ASSUME \E k \in Mcp!Conns : ~mcpconn[k].used
  PROVE  Mcp!Fresh \in Mcp!Conns /\ ~mcpconn[Mcp!Fresh].used
<1>1. PICK T : T = {k \in Mcp!Conns : ~mcpconn[k].used} OBVIOUS
<1>2. T \subseteq Nat /\ T # {} BY <1>1 DEF Mcp!Conns
<1>3. PICK k \in T : \A j \in T : k <= j BY <1>2, Least
<1>4. k \in Mcp!Conns /\ ~mcpconn[k].used /\ \A j \in Mcp!Conns : ~mcpconn[j].used => k <= j
  BY <1>1, <1>3
<1> QED BY <1>4 DEF Mcp!Fresh

LEMMA SkipStep == ASSUME ToolsInv, Mcp!Skip PROVE ToolsInv'
<1>0. /\ clients \in [Servers -> 0 .. MaxConns] /\ registry \in [Servers -> 0 .. MaxConns]
      /\ loader \in LoaderType
  BY McpTypes
<1>1. PICK todo : todo = loader.todo \ {Mcp!First(loader.todo)} OBVIOUS
<1>2. /\ loader.pc = "open" /\ loader' = [loader EXCEPT !.todo = todo]
      /\ UNCHANGED clients /\ UNCHANGED mcpconn /\ UNCHANGED registry /\ UNCHANGED calling
  BY <1>1, Zenon DEF Mcp!Skip
<1>3. todo \subseteq loader.todo /\ todo \in SUBSET Servers BY <1>0, <1>1 DEF LoaderType
<1>4. loader' \in LoaderType /\ loader'.pc = "open" /\ loader'.todo = todo
  BY ONLY <1>0, <1>2, <1>3 DEF LoaderType
<1>5. ConnsStay BY <1>2, ConnsRest
<1>6. LoaderHolds' BY <1>4 DEF LoaderHolds
<1>7. ToolsFit' BY <1>2, <1>3, <1>4 DEF ToolsInv, ToolsFit
<1> QED BY <1>0, <1>2, <1>4, <1>5, <1>6, <1>7, LoaderMoves

LEMMA OpenServerStep == ASSUME ToolsInv, Mcp!Open PROVE ToolsInv'
<1>0. /\ clients \in [Servers -> 0 .. MaxConns] /\ registry \in [Servers -> 0 .. MaxConns]
      /\ loader \in LoaderType /\ mcpconn \in [Mcp!Conns -> McpConnType]
  BY McpTypes
<1>1. PICK k, n : k = Mcp!Fresh /\ n = Mcp!First(loader.todo) OBVIOUS
<1>2. PICK s : s = [Mcp!NoConn EXCEPT !.up = TRUE, !.used = TRUE, !.mu = "hello", !.asked = {"hello"}]
  OBVIOUS
<1>3. /\ loader.pc = "open" /\ loader.todo # {} /\ \E j \in Mcp!Conns : ~mcpconn[j].used
      /\ UNCHANGED registry /\ UNCHANGED calling
  BY DEF Mcp!Open
<1>4. /\ clients' = [clients EXCEPT ![n] = k] /\ mcpconn' = [mcpconn EXCEPT ![k] = s]
      /\ loader' = [loader EXCEPT !.pc = "hello", !.n = n]
  BY <1>1, <1>2, Zenon DEF Mcp!Open
<1>5. k \in Mcp!Conns /\ ~mcpconn[k].used /\ mcpconn[k] \in McpConnType
  BY <1>0, <1>1, <1>3, FreshIsThere
<1>6. n \in loader.todo /\ n \in Servers BY <1>0, <1>1, <1>3, FirstIsThere DEF LoaderType
<1>7. PICK q : q = << >> OBVIOUS
<1>8. q \in Seq(Mcp!Who \cup {"note"}) /\ Len(q) = 0 BY ONLY <1>7
<1>9. 0 \in 0 .. MaxNotes /\ "hello" \in Mcp!Who \ Agents /\ "free" \notin Mcp!Who
  BY AdaptersAssumption, McpNames
<1>10. PICK c : c = Mcp!NoConn OBVIOUS
<1>11. c = [up |-> FALSE, eof |-> FALSE, used |-> FALSE, mu |-> "free", asked |-> {}, lines |-> q, notes |-> 0]
  BY <1>7, <1>10 DEF Mcp!NoConn
<1>12. c \in McpConnType /\ ~c.eof /\ c.lines = q /\ c.notes = 0
  BY ONLY <1>8, <1>9, <1>11 DEF McpConnType
<1>13. s = [c EXCEPT !.up = TRUE, !.used = TRUE, !.mu = "hello", !.asked = {"hello"}] BY <1>2, <1>10, Zenon
<1>14. /\ s \in McpConnType /\ s.up /\ s.used /\ ~s.eof /\ s.mu = "hello" /\ s.asked = {"hello"}
       /\ s.lines = q /\ s.notes = 0
  BY ONLY <1>9, <1>12, <1>13 DEF McpConnType
<1>15. ConnFits(s) BY <1>8, <1>14 DEF ConnFits
\* Whoever has the lock of a connection has one that was started.
<1>17. ASSUME NEW d \in Agents PROVE CallerFits(d, calling'[d], mcpconn'[calling'[d].k])
  <2>1. CallerFits(d, calling[d], mcpconn[calling[d].k]) BY DEF ToolsInv, CallersHold
  <2>2. calling[d].k = k => calling[d].pc = "idle" /\ calling[d].got = "none"
    BY <1>5, <2>1 DEF CallerFits
  <2>3. CASE calling[d].k = k BY <1>3, <2>2, <2>3 DEF CallerFits
  <2>4. CASE calling[d].k # k
    <3>1. calling[d] \in McpCallType BY McpTypes
    <3>2. \/ calling[d].k \in Mcp!Conns /\ mcpconn'[calling[d].k] = mcpconn[calling[d].k]
          \/ calling[d].pc = "idle" /\ calling[d].got = "none"
      BY <1>0, <1>4, <2>1, <2>4, <3>1 DEF CallerFits, McpCallType, Mcp!Conns
    <3> QED BY <1>3, <2>1, <3>2 DEF CallerFits
  <2> QED BY <2>3, <2>4
<1>18. /\ mcpconn' \in [Mcp!Conns -> McpConnType] /\ mcpconn'[k] = s
       /\ \A j \in Mcp!Conns : j # k => mcpconn'[j] = mcpconn[j]
  BY ONLY <1>0, <1>4, <1>5, <1>14
<1>19. ConnsStay
  <2>1. calling' \in [Agents -> McpCallType] BY <1>3, McpTypes
  <2>2. \A j \in Mcp!Conns : ConnFits(mcpconn'[j]) BY <1>15, <1>18 DEF ToolsInv
  <2>3. \A j \in Mcp!Conns : mcpconn[j].used => mcpconn'[j].used BY <1>5, <1>18
  <2> QED BY <1>17, <1>18, <2>1, <2>2, <2>3 DEF ConnsStay
<1>20. /\ loader' \in LoaderType /\ loader'.pc = "hello" /\ loader'.n = n /\ loader'.todo = loader.todo
  BY ONLY <1>0, <1>4, <1>6 DEF LoaderType
<1>21. k \in 0 .. MaxConns /\ k # 0 BY <1>5, AdaptersAssumption DEF Mcp!Conns
<1>22. /\ clients' \in [Servers -> 0 .. MaxConns] /\ clients'[n] = k
       /\ \A m \in Servers : m # n => clients'[m] = clients[m]
  BY ONLY <1>0, <1>4, <1>6, <1>21
<1>23. LoaderHolds' BY <1>6, <1>14, <1>18, <1>20, <1>21, <1>22 DEF LoaderHolds
<1>24. ToolsFit'
  <2> SUFFICES ASSUME NEW m \in Servers, registry[m] # 0
               PROVE  /\ mcpconn'[registry[m]].used /\ registry[m] = clients'[m]
                      /\ m \notin loader.todo /\ ~mcpconn'[registry[m]].eof
    BY <1>3, <1>20 DEF ToolsFit
  <2>1. /\ mcpconn[registry[m]].used /\ registry[m] = clients[m] /\ m \notin loader.todo
        /\ ~mcpconn[registry[m]].eof
    BY <1>3 DEF ToolsInv, ToolsFit
  <2>2. registry[m] \in Mcp!Conns BY ToolConns
  <2> QED BY <1>5, <1>6, <1>18, <1>22, <2>1, <2>2
<1> QED BY <1>0, <1>3, <1>19, <1>20, <1>22, <1>23, <1>24, LoaderMoves

\* The loader takes the answer to its request.
LEMMA GreetingConn ==
  ASSUME ToolsInv, loader.pc \in {"hello", "list"}, NEW k, k = clients[loader.n]
  PROVE  /\ k \in Mcp!Conns /\ mcpconn[k] \in McpConnType /\ ConnFits(mcpconn[k])
         /\ mcpconn[k].used /\ ~mcpconn[k].eof /\ mcpconn[k].mu = loader.pc
         /\ loader.n \in loader.todo /\ loader.n \in Servers /\ registry[loader.n] = 0
<1>1. /\ k # 0 /\ mcpconn[k].used /\ ~mcpconn[k].eof /\ mcpconn[k].mu = loader.pc
      /\ loader.n \in loader.todo
  BY DEF ToolsInv, LoaderHolds
<1>2. loader.n \in Servers BY <1>1, McpTypes DEF LoaderType
<1>3. k \in Mcp!Conns /\ mcpconn[k] \in McpConnType BY <1>1, <1>2, McpTypes DEF Mcp!Conns
<1>4. registry[loader.n] = 0 BY <1>1, <1>2 DEF ToolsInv, ToolsFit
<1> QED BY <1>1, <1>2, <1>3, <1>4 DEF ToolsInv

LEMMA TakenMoves ==
  ASSUME ToolsInv, NEW k \in Mcp!Conns, NEW i, i \in {"hello", "list"}, mcpconn[k].mu = i,
         Mcp!Scannable(k), mcpconn' = Mcp!Taken(k), UNCHANGED calling
  PROVE  /\ ConnsStay /\ mcpconn'[k].eof = mcpconn[k].eof
         /\ \A j \in Mcp!Conns : j # k => mcpconn'[j] = mcpconn[j]
<1>1. i \in Mcp!Who \ Agents /\ mcpconn[k] \in McpConnType /\ ConnFits(mcpconn[k])
  BY McpNames, McpTypes DEF ToolsInv
<1>2. PICK s \in McpConnType :
        /\ mcpconn' = [mcpconn EXCEPT ![k] = s]
        /\ s.mu = "free" /\ s.used = mcpconn[k].used /\ s.notes = mcpconn[k].notes
        /\ s.eof = mcpconn[k].eof /\ s.up = mcpconn[k].up /\ s.asked = mcpconn[k].asked
        /\ s.notes = 0 => s.asked = {} /\ Len(s.lines) = 0
  BY <1>1, TakenIs
<1>3. ConnFits(s) BY <1>1, <1>2 DEF ConnFits
<1>4. mcpconn[k].notes \in 0 .. MaxNotes BY <1>1 DEF McpConnType
<1>5. Respects(i, mcpconn[k], s) BY <1>1, <1>2, <1>4 DEF Respects
<1>6. ConnStep(i, k, s) BY <1>2, <1>3, <1>5 DEF ConnStep
<1> QED BY <1>1, <1>2, <1>6, ConnsMove

LEMMA HelloStep == ASSUME ToolsInv, Mcp!Hello PROVE ToolsInv'
<1>0. /\ clients \in [Servers -> 0 .. MaxConns] /\ registry \in [Servers -> 0 .. MaxConns]
      /\ loader \in LoaderType /\ mcpconn \in [Mcp!Conns -> McpConnType]
  BY McpTypes
<1>1. PICK k : k = clients[loader.n] OBVIOUS
<1>2. /\ loader.pc = "hello" /\ Mcp!Scannable(k)
      /\ UNCHANGED clients /\ UNCHANGED registry /\ UNCHANGED calling
  BY <1>1 DEF Mcp!Hello
<1>3. /\ k \in Mcp!Conns /\ mcpconn[k] \in McpConnType /\ ConnFits(mcpconn[k])
      /\ mcpconn[k].used /\ ~mcpconn[k].eof /\ mcpconn[k].mu = "hello"
      /\ loader.n \in loader.todo /\ loader.n \in Servers /\ registry[loader.n] = 0
  BY <1>1, <1>2, GreetingConn
<1>4. CASE Mcp!Writable(k)
  <2>1. /\ mcpconn' = [Mcp!Taken(k) EXCEPT ![k].asked = @ \cup {"list"}, ![k].mu = "list"]
        /\ loader' = [loader EXCEPT !.pc = "list"]
    BY <1>1, <1>4 DEF Mcp!Hello
  <2>2. "hello" \in Mcp!Who \ Agents /\ "list" \in Mcp!Who \ Agents BY McpNames
  <2>3. PICK t \in McpConnType :
          /\ Mcp!Taken(k) = [mcpconn EXCEPT ![k] = t]
          /\ t.mu = "free" /\ t.used = mcpconn[k].used /\ t.notes = mcpconn[k].notes
          /\ t.eof = mcpconn[k].eof /\ t.up = mcpconn[k].up /\ t.asked = mcpconn[k].asked
          /\ t.notes = 0 => t.asked = {} /\ Len(t.lines) = 0
    BY <1>2, <1>3, <2>2, TakenIs
  <2>4. PICK asked : asked = t.asked \cup {"list"} OBVIOUS
  <2>5. asked \in SUBSET Mcp!Who BY <2>2, <2>3, <2>4 DEF McpConnType
  <2>6. PICK s : s = [t EXCEPT !.asked = asked, !.mu = "list"] OBVIOUS
  <2>7. /\ s \in McpConnType /\ s.mu = "list" /\ s.used = t.used /\ s.notes = t.notes /\ s.eof = t.eof
        /\ s.up = t.up /\ s.asked = asked /\ s.lines = t.lines
    BY ONLY <2>2, <2>3, <2>5, <2>6 DEF McpConnType
  <2>8. mcpconn' = [mcpconn EXCEPT ![k] = s]
    <3>1. PICK f : f = [mcpconn EXCEPT ![k] = t] OBVIOUS
    <3>2. f \in [Mcp!Conns -> McpConnType] /\ f[k] = t BY <1>0, <1>3, <3>1
    <3>3. mcpconn' = [f EXCEPT ![k].asked = asked, ![k].mu = "list"]
      BY <2>1, <2>3, <2>4, <3>1, <3>2, Zenon
    <3>4. mcpconn' = [f EXCEPT ![k] = s] BY <2>6, <3>2, <3>3
    <3> QED BY <1>0, <3>1, <3>4
  <2>9. mcpconn[k].up BY <1>4 DEF Mcp!Writable
  <2>10. ConnFits(s) BY <2>3, <2>4, <2>7, <2>9 DEF ConnFits
  <2>11. mcpconn[k].notes \in 0 .. MaxNotes BY <1>3 DEF McpConnType
  <2>12. Respects("hello", mcpconn[k], s) BY <1>3, <2>2, <2>3, <2>7, <2>11 DEF Respects
  <2>13. ConnStep("hello", k, s) BY <1>2, <2>8, <2>10, <2>12 DEF ConnStep
  <2>14. /\ ConnsStay /\ mcpconn'[k] = s
         /\ \A j \in Mcp!Conns : j # k => mcpconn'[j] = mcpconn[j]
    BY <1>2, <1>3, <2>2, <2>7, <2>13, ConnsMove
  <2>15. /\ loader' \in LoaderType /\ loader'.pc = "list" /\ loader'.n = loader.n
         /\ loader'.todo = loader.todo
    BY ONLY <1>0, <2>1 DEF LoaderType
  <2>16. LoaderHolds'
    <3>1. k # 0 BY <1>3 DEF Mcp!Conns
    <3> QED BY <1>1, <1>2, <1>3, <2>3, <2>7, <2>14, <2>15, <3>1 DEF LoaderHolds
  <2>17. \A j \in Mcp!Conns : mcpconn'[j].eof = mcpconn[j].eof BY <2>3, <2>7, <2>14
  <2>18. ToolsFit' BY <1>2, <2>14, <2>15, <2>17, ToolConns DEF ToolsInv, ToolsFit, ConnsStay
  <2> QED BY <1>0, <1>2, <2>14, <2>15, <2>16, <2>18, LoaderMoves
<1>5. CASE ~Mcp!Writable(k)
  <2>1. /\ mcpconn' = Mcp!Taken(k)
        /\ loader' = [loader EXCEPT !.pc = "open", !.todo = @ \ {loader.n}]
    BY <1>1, <1>5 DEF Mcp!Hello
  <2>2. /\ ConnsStay /\ mcpconn'[k].eof = mcpconn[k].eof
        /\ \A j \in Mcp!Conns : j # k => mcpconn'[j] = mcpconn[j]
    BY <1>2, <1>3, <2>1, TakenMoves
  <2>3. PICK todo : todo = loader.todo \ {loader.n} OBVIOUS
  <2>4. todo \in SUBSET Servers BY <1>0, <2>3 DEF LoaderType
  <2>5. loader' = [loader EXCEPT !.pc = "open", !.todo = todo] BY <2>1, <2>3, Zenon
  <2>6. loader' \in LoaderType /\ loader'.pc = "open" /\ loader'.todo = todo
    BY ONLY <1>0, <2>4, <2>5 DEF LoaderType
  <2>7. LoaderHolds' BY <2>6 DEF LoaderHolds
  <2>8. \A j \in Mcp!Conns : mcpconn'[j].eof = mcpconn[j].eof BY <2>2
  <2>9. ToolsFit' BY <1>2, <2>2, <2>3, <2>6, <2>8, ToolConns DEF ToolsInv, ToolsFit, ConnsStay
  <2> QED BY <1>0, <1>2, <2>2, <2>6, <2>7, <2>9, LoaderMoves
<1> QED BY <1>4, <1>5

LEMMA DiscoverStep == ASSUME ToolsInv, Mcp!Discover PROVE ToolsInv'
<1>0. /\ clients \in [Servers -> 0 .. MaxConns] /\ registry \in [Servers -> 0 .. MaxConns]
      /\ loader \in LoaderType
  BY McpTypes
<1>1. PICK k : k = clients[loader.n] OBVIOUS
<1>2. /\ loader.pc = "list" /\ Mcp!Scannable(k) /\ mcpconn' = Mcp!Taken(k)
      /\ registry' = IF Mcp!Line(k) = "list" THEN [registry EXCEPT ![loader.n] = k] ELSE registry
      /\ loader' = [loader EXCEPT !.pc = "open", !.todo = @ \ {loader.n}]
      /\ UNCHANGED clients /\ UNCHANGED calling
  BY <1>1, Zenon DEF Mcp!Discover
<1>3. /\ k \in Mcp!Conns /\ mcpconn[k].used /\ ~mcpconn[k].eof /\ mcpconn[k].mu = "list"
      /\ loader.n \in loader.todo /\ loader.n \in Servers /\ registry[loader.n] = 0
  BY <1>1, <1>2, GreetingConn
<1>4. /\ ConnsStay /\ mcpconn'[k].eof = mcpconn[k].eof
      /\ \A j \in Mcp!Conns : j # k => mcpconn'[j] = mcpconn[j]
  BY <1>2, <1>3, TakenMoves
<1>5. PICK todo : todo = loader.todo \ {loader.n} OBVIOUS
<1>6. todo \in SUBSET Servers BY <1>0, <1>5 DEF LoaderType
<1>7. loader' = [loader EXCEPT !.pc = "open", !.todo = todo] BY <1>2, <1>5, Zenon
<1>8. loader' \in LoaderType /\ loader'.pc = "open" /\ loader'.todo = todo
  BY ONLY <1>0, <1>6, <1>7 DEF LoaderType
<1>9. LoaderHolds' BY <1>8 DEF LoaderHolds
<1>10. k \in 0 .. MaxConns BY <1>3, AdaptersAssumption DEF Mcp!Conns
<1>11. /\ registry' \in [Servers -> 0 .. MaxConns]
       /\ \A m \in Servers : registry'[m] = registry[m] \/ (m = loader.n /\ registry'[m] = k)
  BY <1>0, <1>2, <1>3, <1>10
<1>12. \A j \in Mcp!Conns : mcpconn'[j].eof = mcpconn[j].eof BY <1>4
<1>13. ToolsFit'
  <2> SUFFICES ASSUME NEW m \in Servers, registry'[m] # 0
               PROVE  /\ mcpconn'[registry'[m]].used /\ registry'[m] = clients'[m]
                      /\ m \notin todo /\ ~mcpconn'[registry'[m]].eof
    BY <1>8 DEF ToolsFit
  <2>1. CASE m = loader.n /\ registry'[m] = k BY <1>1, <1>2, <1>3, <1>4, <1>5, <2>1 DEF ConnsStay
  <2>2. CASE registry'[m] = registry[m]
    <3>1. /\ mcpconn[registry[m]].used /\ registry[m] = clients[m] /\ m \notin loader.todo
          /\ ~mcpconn[registry[m]].eof
      BY <1>2, <2>2 DEF ToolsInv, ToolsFit
    <3>2. registry[m] \in Mcp!Conns BY <2>2, ToolConns
    <3> QED BY <1>2, <1>4, <1>5, <1>12, <2>2, <3>1, <3>2 DEF ConnsStay
  <2> QED BY <1>11, <2>1, <2>2
<1> QED BY <1>0, <1>2, <1>4, <1>8, <1>9, <1>11, <1>13, LoaderMoves

LEMMA ToolsAlways == AdaptersSpec => []ToolsInv
<1>1. AdaptersInit => ToolsInv
  <2> SUFFICES ASSUME Mcp!Init PROVE ToolsInv BY DEF AdaptersInit
  <2>1. 0 \in 0 .. MaxConns /\ 0 \in 0 .. MaxNotes BY AdaptersAssumption
  <2>2. PICK q : q = << >> OBVIOUS
  <2>3. q \in Seq(Mcp!Who \cup {"note"}) /\ Len(q) = 0 BY ONLY <2>2
  <2>4. PICK c : c = Mcp!NoConn OBVIOUS
  <2>5. c = [up |-> FALSE, eof |-> FALSE, used |-> FALSE, mu |-> "free", asked |-> {}, lines |-> q, notes |-> 0]
    BY <2>2, <2>4 DEF Mcp!NoConn
  <2>6. c \in McpConnType /\ c.asked = {} /\ Len(c.lines) = 0 BY ONLY <2>1, <2>3, <2>5 DEF McpConnType
  <2>7. ConnFits(c) BY <2>6 DEF ConnFits
  <2>8. mcpconn = [k \in Mcp!Conns |-> c] BY <2>4 DEF Mcp!Init
  <2>9. /\ clients \in [Servers -> 0 .. MaxConns] /\ registry \in [Servers -> 0 .. MaxConns]
        /\ mcpconn \in [Mcp!Conns -> McpConnType] /\ \A k \in Mcp!Conns : ConnFits(mcpconn[k])
        /\ \A n \in Servers : registry[n] = 0
    BY <2>1, <2>6, <2>7, <2>8 DEF Mcp!Init
  <2>10. Mcp!Idle \in McpCallType /\ Mcp!Idle.pc = "idle" /\ Mcp!Idle.got = "none"
    BY <2>1 DEF Mcp!Idle, McpCallType
  <2>11. /\ calling \in [Agents -> McpCallType]
         /\ \A a \in Agents : calling[a].pc = "idle" /\ calling[a].got = "none"
    BY <2>10 DEF Mcp!Init
  <2>12. loader \in LoaderType /\ loader.pc = "open"
    <3>1. PICK cfg \in SUBSET Servers : loader = [Mcp!Resting EXCEPT !.pc = "open", !.todo = cfg]
      BY DEF Mcp!Init
    <3>2. Mcp!Resting \in LoaderType BY DEF Mcp!Resting, LoaderType
    <3> QED BY ONLY <3>1, <3>2 DEF LoaderType
  <2>13. Mcp!TypeOK BY <2>9, <2>11, <2>12 DEF Mcp!TypeOK, McpConnType, LoaderType, McpCallType
  <2>14. CallersHold BY <2>11 DEF CallersHold, CallerFits
  <2>15. LoaderHolds BY <2>12 DEF LoaderHolds
  <2>16. ToolsFit BY <2>9 DEF ToolsFit
  <2> QED BY <2>9, <2>13, <2>14, <2>15, <2>16 DEF ToolsInv
<1>2. ToolsInv /\ [AdaptersNext]_allvars => ToolsInv'
  <2> SUFFICES ASSUME ToolsInv, [AdaptersNext]_allvars PROVE ToolsInv' OBVIOUS
  <2>1. ASSUME UNCHANGED mcpvars PROVE ToolsInv'
    <3>1. /\ UNCHANGED clients /\ UNCHANGED mcpconn /\ UNCHANGED registry /\ UNCHANGED loader
          /\ UNCHANGED calling
      BY <2>1 DEF mcpvars
    <3>2. ConnsStay BY <3>1, ConnsRest
    <3>3. LoaderHolds' BY <3>1 DEF ToolsInv, LoaderHolds
    <3>4. ToolsFit' BY <3>1 DEF ToolsInv, ToolsFit
    <3> QED BY <3>1, <3>2, <3>3, <3>4, McpTypes, LoaderMoves
  <2>2. ASSUME NEW a \in Agents, Mcp!Execute(a) \/ Mcp!Lock(a) \/ Mcp!Write(a) \/ Mcp!Scan(a)
        PROVE  ToolsInv'
    BY <2>2, ExecuteStep, LockStep, WriteStep, ScanStep
  <2>3. ASSUME NEW k \in Mcp!Conns, Mcp!Answer(k) \/ Mcp!Notify(k) \/ Mcp!Die(k) PROVE ToolsInv'
    BY <2>3, ServerStep
  <2>4. CASE Mcp!Loading
    BY <2>4, CloseStep, ExitedStep, LoaderStep, SkipStep, OpenServerStep, HelloStep, DiscoverStep DEF Mcp!Loading
  <2>5. CASE Mcp!Reload \/ Mcp!Stop BY <2>5, LoaderStep
  <2>6. Mcp!Next => ToolsInv' BY <2>2, <2>3, <2>4, <2>5 DEF Mcp!Next
  <2> QED BY <2>1, <2>6, OneAdapterMoves
<1> QED BY <1>1, <1>2, PTL DEF AdaptersSpec

\* Between reloads the tools that are offered (tool_registry.go) go to the client
\* that the module has for their server (module_mcp_client.go: ReloadServers),
\* whose input is open, for any number of servers, agents and processes.
THEOREM ToolsReachTheirServer == AdaptersSpec => []ToolsHaveTheirServer
<1>1. ToolsInv => ToolsHaveTheirServer
  BY DEF ToolsInv, ToolsFit, ToolsHaveTheirServer, Mcp!ToolsHaveTheirServer
<1> QED BY <1>1, ToolsAlways, PTL

-----------------------------------------------------------------------------
(* What the three properties of calls say together *)

\* What a call is answered is its own: an MCP call (mcp client: call) keeps no
\* other's answer but where its server sent a line unasked, no update goes to
\* two ACP calls or twice to one (genkit/acp_provider.go), and a turn of the
\* terminal (genkit/pty_provider.go) shows lines of another only after that one
\* has let go of the session without them.
THEOREM AnswersAreTheirOwn == AdaptersSpec => []OwnAnswers
<1>1. UpdatesInv => Acp!EachUpdateOnce
  BY DEF UpdatesInv, UpdatesAreApart
<1>2. ScreenInv => Pty!LateLinesOnly
  BY DEF ScreenInv
<1>3. ToolsInv => Mcp!OwnAnswers
  BY DEF ToolsInv, CallersHold, CallerFits, Mcp!OwnAnswers
<1>4. ToolsInv /\ UpdatesInv /\ ScreenInv => OwnAnswers
  BY <1>1, <1>2, <1>3 DEF OwnAnswers
<1> QED BY <1>4, ToolsAlways, UpdatesAlways, ScreenAlways, PTL
=============================================================================
