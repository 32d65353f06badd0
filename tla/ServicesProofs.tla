--------------------------- MODULE ServicesProofs ---------------------------
(***************************************************************************)
(* Proofs about the services of the orchestrator, for any callers, any     *)
(* pipelines, artifacts and listeners, any files and any bounds.           *)
(*                                                                         *)
(* The provider registries come first, by themselves.  The other services  *)
(* stand side by side: while one moves the rest of them stay, so that what *)
(* each does by itself is what it does in ServicesSpec.                    *)
(***************************************************************************)
EXTENDS MCServices, SequenceTheorems, FiniteSetTheorems, WellFoundedInduction, TLAPS

USE ProviderCacheAssumption

-----------------------------------------------------------------------------
(* The provider registries: one provider is made at a time, none with a    *)
(* key from before the redactor was loaded, and none is cached that is     *)
(* older than an invalidation that no call overlapped.                     *)

Making == {"recheck", "key", "make", "store"}
Loaded == Making \cup {"join", "wait"}

\* Who makes a provider has the flight, with singleflight.
MakerHasFlight == single => \A c \in Callers : call[c].pc \in Making => flight = c

\* A holder that has looked has armed what it found or failed to, and not before;
\* keys only get newer.
ArmedWhenDone ==
  /\ holder.once = "done" /\ holder.has => holder.failed \/ holder.armed # -1
  /\ holder.once # "done" => holder.armed = -1 /\ ~holder.failed
  /\ holder.armed <= key

\* What may be said of a key in use.
KeyFits(k) == k # -1 => own \/ holder.failed \/ LoadedOrLater(k)
KeysFit == KeyFits(cache.key) /\ \A c \in Callers : KeyFits(call[c].key)

\* After a quiet invalidation, and until the next change, whoever has read the
\* row or the key has read what they are.
ReadsAreFresh ==
  change = "no" /\ clean =>
    \A c \in Callers :
      /\ call[c].pc \in Loaded => call[c].row = row
      /\ call[c].pc \in {"make", "store"} => call[c].key \in {key, -1}

IInv ==
  /\ TypeOK
  /\ MakerHasFlight
  /\ ArmedWhenDone
  /\ KeysFit
  /\ ReadsAreFresh
  /\ FreshAfterQuietInvalidation

CallType == [pc : Steps, row : Versions \cup {-1}, key : Versions \cup {-1}]

-----------------------------------------------------------------------------
(* What the steps have in common *)

\* A caller's record keeps its type through the changes the steps make.
LEMMA IdleType == Idle \in CallType
  BY DEF Idle, CallType, Steps, Versions

\* The end of a creation leaves every other caller idle or as it was.
LEMMA LandEffect ==
  ASSUME NEW c \in Callers, Land(c), call \in [Callers -> CallType],
         flight \in Callers \cup {NoCaller}
  PROVE  /\ call' \in [Callers -> CallType]
         /\ flight' \in Callers \cup {NoCaller}
         /\ call'[c] = Idle
         /\ \A d \in Callers : call'[d] = Idle \/ call'[d] = call[d]
  BY IdleType DEF Land

\* Nobody but the maker is at work after an end, with singleflight.
LEMMA LandKeepsInv ==
  ASSUME NEW c \in Callers, Land(c), IInv, call[c].pc \in Making,
         UNCHANGED <<cache, holder>>, UNCHANGED operated
  PROVE  IInv'
<1> USE DEF operated
<1>1. /\ call' \in [Callers -> CallType]
      /\ flight' \in Callers \cup {NoCaller}
      /\ \A d \in Callers : call'[d] = Idle \/ call'[d] = call[d]
      /\ call'[c] = Idle
  BY LandEffect DEF IInv, TypeOK, CallType
<1>2. TypeOK'
  BY <1>1 DEF IInv, TypeOK, CallType
<1>3. MakerHasFlight'
  BY <1>1 DEF IInv, MakerHasFlight, Making, Idle
<1>4. ArmedWhenDone' /\ FreshAfterQuietInvalidation'
  BY DEF IInv, ArmedWhenDone, FreshAfterQuietInvalidation
<1>5. KeysFit'
  BY <1>1 DEF IInv, KeysFit, KeyFits, LoadedOrLater, Idle
<1>6. ReadsAreFresh'
  BY <1>1 DEF IInv, ReadsAreFresh, Idle, Loaded, Making
<1> QED BY <1>2, <1>3, <1>4, <1>5, <1>6 DEF IInv

\* A caller that goes to another place, with what it has read and the flight.
LEMMA MoveKeepsInv ==
  ASSUME NEW c \in Callers, NEW rec \in CallType, IInv,
         call' = [call EXCEPT ![c] = rec],
         flight' \in Callers \cup {NoCaller},
         flight' = flight \/ (flight = NoCaller /\ flight' = c),
         single /\ rec.pc \in Making => flight' = c,
         KeyFits(rec.key),
         change = "no" /\ clean /\ rec.pc \in Loaded => rec.row = row,
         change = "no" /\ clean /\ rec.pc \in {"make", "store"} => rec.key \in {key, -1},
         UNCHANGED <<cache, holder>>, UNCHANGED operated
  PROVE  IInv'
<1> USE DEF operated
<1>1. /\ call' \in [Callers -> CallType]
      /\ call'[c] = rec
      /\ \A d \in Callers : d # c => call'[d] = call[d]
  BY DEF IInv, TypeOK, CallType
<1>2. TypeOK'
  BY <1>1 DEF IInv, TypeOK, CallType
<1>3. MakerHasFlight'
  BY <1>1 DEF IInv, MakerHasFlight, Making
<1>4. ArmedWhenDone' /\ FreshAfterQuietInvalidation'
  BY DEF IInv, ArmedWhenDone, FreshAfterQuietInvalidation
<1>5. KeysFit'
  BY <1>1 DEF IInv, KeysFit, KeyFits, LoadedOrLater
<1>6. ReadsAreFresh'
  BY <1>1 DEF IInv, ReadsAreFresh
<1> QED BY <1>2, <1>3, <1>4, <1>5, <1>6 DEF IInv

-----------------------------------------------------------------------------
(* The callers *)

LEMMA GetKeeps ==
  ASSUME NEW c \in Callers, Get(c), IInv
  PROVE  IInv'
<1>1. CASE UNCHANGED call
  BY <1>1 DEF Get, operated, IInv, TypeOK, MakerHasFlight, ArmedWhenDone, KeysFit, KeyFits, LoadedOrLater,
     ReadsAreFresh, FreshAfterQuietInvalidation
<1>2. CASE Goto(c, "load")
  <2> DEFINE rec == [call[c] EXCEPT !.pc = "load"]
  <2>1. call[c] \in CallType BY DEF IInv, TypeOK, CallType
  <2>2. rec \in CallType /\ rec.pc = "load" /\ rec.key = call[c].key
    BY <2>1 DEF CallType, Steps
  <2>3. call' = [call EXCEPT ![c] = rec] BY <1>2 DEF Goto
  <2>4. KeyFits(rec.key) BY <2>2 DEF IInv, KeysFit, KeyFits, LoadedOrLater
  <2>5. flight' = flight /\ flight' \in Callers \cup {NoCaller} BY DEF Get, IInv, TypeOK
  <2> HIDE DEF rec
  <2> QED BY <2>2, <2>3, <2>4, <2>5, MoveKeepsInv DEF Get, Making, Loaded
<1> QED BY <1>1, <1>2 DEF Get

LEMMA LoadKeeps ==
  ASSUME NEW c \in Callers, LoadConfig(c), IInv
  PROVE  IInv'
<1>0. call[c] \in CallType /\ flight \in Callers \cup {NoCaller} /\ row \in Versions
  BY DEF IInv, TypeOK, CallType
<1>1. CASE call' = [call EXCEPT ![c].row = row, ![c].pc = AfterLoad]
  <2> DEFINE rec == [call[c] EXCEPT !.row = row, !.pc = AfterLoad]
  <2>1. AfterLoad \in {"join", "key"} /\ (single => AfterLoad = "join") BY DEF AfterLoad
  <2>2. rec \in CallType /\ rec.pc = AfterLoad /\ rec.row = row /\ rec.key = call[c].key
    BY <1>0, <2>1 DEF CallType, Steps
  <2>3. call' = [call EXCEPT ![c] = rec] BY <1>1, <1>0 DEF CallType
  <2>4. KeyFits(rec.key) BY <2>2 DEF IInv, KeysFit, KeyFits, LoadedOrLater
  <2> HIDE DEF rec
  <2> QED BY <1>0, <2>1, <2>2, <2>3, <2>4, MoveKeepsInv DEF LoadConfig, Making
<1>2. CASE call' = [call EXCEPT ![c] = Idle]
  <2>1. Idle \in CallType /\ Idle.pc = "idle" /\ Idle.key = -1 BY IdleType DEF Idle
  <2>2. KeyFits(Idle.key) BY <2>1 DEF KeyFits
  <2>3. Idle.pc \notin Making /\ Idle.pc \notin Loaded /\ Idle.pc \notin {"make", "store"}
    BY <2>1 DEF Making, Loaded
  <2>4. UNCHANGED <<cache, holder>> /\ UNCHANGED operated /\ flight' = flight BY DEF LoadConfig
  <2> QED BY <1>0, <1>2, <2>1, <2>2, <2>3, <2>4, MoveKeepsInv
<1> QED BY <1>1, <1>2 DEF LoadConfig

LEMMA JoinKeeps ==
  ASSUME NEW c \in Callers, Join(c), IInv
  PROVE  IInv'
<1> DEFINE rec(pc) == [call[c] EXCEPT !.pc = pc]
<1>1. /\ call[c] \in CallType /\ call[c].pc = "join"
      /\ flight \in Callers \cup {NoCaller}
  BY DEF IInv, TypeOK, CallType, Join, At
<1>2. \A pc \in Steps : /\ rec(pc) \in CallType /\ rec(pc).pc = pc
                        /\ rec(pc).row = call[c].row /\ rec(pc).key = call[c].key
  BY <1>1 DEF CallType
<1>3. KeyFits(call[c].key) BY DEF IInv, KeysFit, KeyFits, LoadedOrLater
<1>4. change = "no" /\ clean => call[c].row = row BY <1>1 DEF IInv, ReadsAreFresh, Loaded
<1>5. "recheck" \in Steps /\ "wait" \in Steps BY DEF Steps
<1>6. UNCHANGED <<cache, holder>> /\ UNCHANGED operated BY DEF Join
<1>7. CASE flight = NoCaller /\ Goto(c, "recheck") /\ flight' = c
  <2> DEFINE next == rec("recheck")
  <2>1. call' = [call EXCEPT ![c] = next] BY <1>7 DEF Goto
  <2> HIDE DEF rec
  <2>2. next \in CallType /\ next.pc = "recheck" /\ next.row = call[c].row /\ next.key = call[c].key
    BY <1>2, <1>5
  <2> HIDE DEF next
  <2>3. KeyFits(next.key) BY <1>3, <2>2
  <2>4. next.pc \notin {"make", "store"} BY <2>2
  <2>5. change = "no" /\ clean => next.row = row BY <1>4, <2>2
  <2>6. flight' = c /\ flight' \in Callers \cup {NoCaller} /\ flight = NoCaller BY <1>7
  <2> QED BY <1>6, <2>1, <2>2, <2>3, <2>4, <2>5, <2>6, MoveKeepsInv
<1>8. CASE flight # NoCaller /\ Goto(c, "wait") /\ UNCHANGED flight
  <2> DEFINE next == rec("wait")
  <2>1. call' = [call EXCEPT ![c] = next] BY <1>8 DEF Goto
  <2> HIDE DEF rec
  <2>2. next \in CallType /\ next.pc = "wait" /\ next.row = call[c].row /\ next.key = call[c].key
    BY <1>2, <1>5
  <2> HIDE DEF next
  <2>3. KeyFits(next.key) BY <1>3, <2>2
  <2>4. next.pc \notin {"make", "store"} /\ next.pc \notin Making BY <2>2 DEF Making
  <2>5. change = "no" /\ clean => next.row = row BY <1>4, <2>2
  <2>6. flight' = flight /\ flight' \in Callers \cup {NoCaller} BY <1>1, <1>8
  <2> QED BY <1>6, <2>1, <2>2, <2>3, <2>4, <2>5, <2>6, MoveKeepsInv
<1> QED BY <1>7, <1>8 DEF Join

\* A maker goes on with what it has read.
LEMMA GoOnKeeps ==
  ASSUME NEW c \in Callers, NEW pc \in {"key", "store"}, Goto(c, pc),
         call[c].pc \in Making, pc = "store" => call[c].pc = "make",
         IInv,
         UNCHANGED <<cache, holder, flight>>, UNCHANGED operated
  PROVE  IInv'
<1> DEFINE rec == [call[c] EXCEPT !.pc = pc]
<1>1. call[c] \in CallType /\ flight \in Callers \cup {NoCaller}
  BY DEF IInv, TypeOK, CallType
<1>2. /\ rec \in CallType /\ rec.pc = pc /\ rec.row = call[c].row /\ rec.key = call[c].key
  BY <1>1 DEF CallType, Steps
<1>3. call' = [call EXCEPT ![c] = rec] BY DEF Goto
<1>4. KeyFits(call[c].key) BY DEF IInv, KeysFit, KeyFits, LoadedOrLater
<1>5. change = "no" /\ clean => /\ call[c].row = row
                                /\ pc = "store" => call[c].key \in {key, -1}
  BY DEF IInv, ReadsAreFresh, Loaded
<1>6. single => flight = c BY DEF IInv, MakerHasFlight
<1> HIDE DEF rec
<1> QED BY <1>1, <1>2, <1>3, <1>4, <1>5, <1>6, MoveKeepsInv DEF Making

LEMMA RecheckKeeps ==
  ASSUME NEW c \in Callers, Recheck(c), IInv
  PROVE  IInv'
<1>1. call[c].pc = "recheck" /\ call[c].pc \in Making BY DEF Recheck, At, Making
<1>2. CASE Land(c) BY <1>1, <1>2, LandKeepsInv DEF Recheck
<1>3. CASE Goto(c, "key") /\ UNCHANGED flight BY <1>1, <1>3, GoOnKeeps DEF Recheck
<1> QED BY <1>2, <1>3 DEF Recheck

LEMMA MakeKeeps ==
  ASSUME NEW c \in Callers, Make(c), IInv
  PROVE  IInv'
<1>1. call[c].pc = "make" /\ call[c].pc \in Making BY DEF Make, At, Making
<1>2. CASE Land(c) BY <1>1, <1>2, LandKeepsInv DEF Make
<1>3. CASE Goto(c, "store") /\ UNCHANGED flight BY <1>1, <1>3, GoOnKeeps DEF Make
<1> QED BY <1>2, <1>3 DEF Make

\* The key is that of now, and the redactor has it when it is the holder's.
LEMMA ResolveKeeps ==
  ASSUME NEW c \in Callers, ResolveKey(c), IInv
  PROVE  IInv'
<1> DEFINE has == own \/ (Asks(c) /\ holder.has)
           got == IF has THEN key ELSE -1
           rec == [call[c] EXCEPT !.key = got, !.pc = "make"]
<1>1. /\ call[c] \in CallType /\ flight \in Callers \cup {NoCaller} /\ key \in Versions
      /\ call[c].pc = "key"
  BY DEF IInv, TypeOK, CallType, ResolveKey, At
<1>2. call[c].pc \in Making BY <1>1 DEF Making
<1>3. UNCHANGED <<cache, holder>> /\ UNCHANGED operated BY DEF ResolveKey
<1>4. CASE Land(c) BY <1>2, <1>3, <1>4, LandKeepsInv
<1>5. CASE call' = [call EXCEPT ![c].key = got, ![c].pc = "make"] /\ UNCHANGED flight
  <2>1. got \in {key, -1} /\ got \in Versions \cup {-1} BY <1>1
  <2>2. KeyFits(got)
    BY <1>1 DEF ResolveKey, IInv, ArmedWhenDone, KeyFits, LoadedOrLater
  <2> HIDE DEF got
  <2>3. rec \in CallType /\ rec.pc = "make" /\ rec.row = call[c].row /\ rec.key = got
    BY <1>1, <2>1 DEF CallType, Steps
  <2>4. call' = [call EXCEPT ![c] = rec] BY <1>1, <1>5 DEF CallType
  <2>5. change = "no" /\ clean => call[c].row = row
    BY <1>2 DEF IInv, ReadsAreFresh, Loaded
  <2>6. single => flight = c BY <1>2 DEF IInv, MakerHasFlight
  <2> HIDE DEF rec
  <2> QED BY <1>1, <1>3, <1>5, <2>1, <2>2, <2>3, <2>4, <2>5, <2>6, MoveKeepsInv
<1> QED BY <1>4, <1>5 DEF ResolveKey

\* What is cached is what the maker has read.
LEMMA StoreKeeps ==
  ASSUME NEW c \in Callers, Store(c), IInv
  PROVE  IInv'
<1> USE DEF operated
<1>1. /\ call[c] \in CallType /\ call[c].pc = "store" /\ Land(c)
      /\ cache' = [row |-> call[c].row, key |-> call[c].key]
  BY DEF IInv, TypeOK, CallType, Store, At
<1>2. /\ call' \in [Callers -> CallType]
      /\ flight' \in Callers \cup {NoCaller}
      /\ \A d \in Callers : call'[d] = Idle \/ call'[d] = call[d]
      /\ call'[c] = Idle
  BY <1>1, LandEffect DEF IInv, TypeOK, CallType
<1>3. change = "no" /\ clean => call[c].row = row /\ call[c].key \in {key, -1}
  BY <1>1 DEF IInv, ReadsAreFresh, Loaded, Making
<1>4. FreshAfterQuietInvalidation'
  BY <1>1, <1>3 DEF Store, FreshAfterQuietInvalidation
<1>5. MakerHasFlight'
  BY <1>1, <1>2 DEF Store, Land, IInv, MakerHasFlight, Making, Idle
<1>6. ArmedWhenDone' BY DEF Store, IInv, ArmedWhenDone
<1>7. KeysFit' BY <1>1, <1>2 DEF Store, IInv, KeysFit, KeyFits, LoadedOrLater, Idle
<1>8. ReadsAreFresh' BY <1>2 DEF Store, IInv, ReadsAreFresh, Idle, Loaded, Making
<1>9. TypeOK' BY <1>1, <1>2 DEF Store, IInv, TypeOK, CallType
<1> QED BY <1>4, <1>5, <1>6, <1>7, <1>8, <1>9 DEF IInv

-----------------------------------------------------------------------------
(* The secret service and the operators *)

LEMMA HolderKeeps ==
  ASSUME Look \/ Arm \/ StartVault, IInv
  PROVE  IInv'
<1> USE DEF operated
<1> DEFINE Holders == [once : {"no", "running", "done"}, has : BOOLEAN,
                       armed : Versions \cup {-1}, failed : BOOLEAN]
<1>0. holder \in Holders /\ vault \in BOOLEAN /\ ArmedWhenDone /\ key \in Versions
  BY DEF IInv, TypeOK
<1>a. key \in Nat BY <1>0 DEF Versions
<1>1. /\ UNCHANGED <<single, row, key, cache, call, flight, own, change, clean>>
      /\ \A k : LoadedOrLater(k) \/ holder.failed => LoadedOrLater(k)' \/ holder'.failed
      /\ holder' \in Holders
      /\ vault' \in BOOLEAN
      /\ ArmedWhenDone'
  <2>1. CASE Look
    BY <1>0, <2>1 DEF Look, ArmedWhenDone, LoadedOrLater
  <2>2. CASE Arm
    <3>1. holder.armed = -1 /\ ~holder.failed
      BY <2>2, <1>0 DEF Arm, ArmedWhenDone
    <3>2. /\ UNCHANGED <<single, row, key, cache, call, flight, own, change, clean, vault>>
          /\ holder.once = "running" /\ holder.armed \in Versions \cup {-1}
      BY <1>0, <2>2 DEF Arm, operated
    <3>3. \A k : ~(LoadedOrLater(k) \/ holder.failed) BY <3>1 DEF LoadedOrLater
    <3>4. CASE ~holder.has /\ holder' = [holder EXCEPT !.once = "done"]
      BY <1>0, <3>1, <3>2, <3>3, <3>4 DEF ArmedWhenDone
    <3>5. CASE holder' = [holder EXCEPT !.once = "done", !.armed = key]
      <4>1. holder' \in Holders BY <1>0, <3>5
      <4>2. holder'.once = "done" /\ holder'.armed = key BY <1>0, <3>5
      <4>3. ArmedWhenDone' BY <1>a, <3>2, <4>2 DEF ArmedWhenDone
      <4> QED BY <1>0, <3>2, <3>3, <4>1, <4>3
    <3>6. CASE holder' = [holder EXCEPT !.once = "done", !.failed = TRUE]
      BY <1>0, <3>1, <3>2, <3>3, <3>6 DEF ArmedWhenDone
    <3> QED BY <2>2, <3>4, <3>5, <3>6 DEF Arm
  <2>3. CASE StartVault
    BY <1>0, <2>3 DEF StartVault, ArmedWhenDone, LoadedOrLater
  <2> QED BY <2>1, <2>2, <2>3
<1>2. TypeOK' BY <1>1 DEF IInv, TypeOK
<1>3. MakerHasFlight' /\ ReadsAreFresh' /\ FreshAfterQuietInvalidation'
  BY <1>1 DEF IInv, MakerHasFlight, ReadsAreFresh, FreshAfterQuietInvalidation
<1>4. KeysFit' BY <1>1 DEF IInv, KeysFit, KeyFits
<1> QED BY <1>1, <1>2, <1>3, <1>4 DEF IInv

LEMMA OperatorKeeps ==
  ASSUME \/ ChangeRow \/ RotateSecret \/ Invalidate \/ InvalidateBySecret
         \/ UpdateSecretsProvider,
         IInv
  PROVE  IInv'
<1>1. /\ UNCHANGED <<single, call, flight, holder, vault>>
      /\ own => own'
      /\ \/ change' # "no" /\ UNCHANGED cache
         \/ UNCHANGED cache /\ ~clean'
         \/ Emptied
  BY DEF ChangeRow, RotateSecret, Invalidate, InvalidateBySecret, UpdateSecretsProvider
<1>2. TypeOK'
  <2>1. row' \in Versions /\ key' \in Versions
    <3>1. \A v \in Versions : v < MaxChanges => v + 1 \in Versions BY DEF Versions
    <3>2. row \in Versions /\ key \in Versions BY DEF IInv, TypeOK
    <3>3. /\ row' = row \/ (row < MaxChanges /\ row' = row + 1)
          /\ key' = key \/ (key < MaxChanges /\ key' = key + 1)
      BY DEF ChangeRow, RotateSecret, Invalidate, InvalidateBySecret, UpdateSecretsProvider
    <3> QED BY <3>1, <3>2, <3>3
  <2>3. change' \in {"no", "row", "key"} /\ own' \in BOOLEAN
    BY DEF IInv, TypeOK, ChangeRow, RotateSecret, Invalidate, InvalidateBySecret,
       UpdateSecretsProvider, Emptied
  <2>4. clean' \in BOOLEAN
    <3>1. clean' = clean \/ clean' = FALSE \/ clean' = (\A c \in Callers : At(c, "idle"))
      BY DEF ChangeRow, RotateSecret, Invalidate, InvalidateBySecret, UpdateSecretsProvider, Emptied
    <3> QED BY <3>1 DEF IInv, TypeOK
  <2>2. cache' = cache \/ cache' = Nothing
    BY <1>1 DEF Emptied
  <2> QED BY <1>1, <2>1, <2>2, <2>3, <2>4 DEF IInv, TypeOK, Nothing
<1>a. key \in Nat /\ (key' = key \/ key' = key + 1) /\ holder.armed \in Int
  BY DEF IInv, TypeOK, Versions, ChangeRow, RotateSecret, Invalidate, InvalidateBySecret,
     UpdateSecretsProvider
<1>3. MakerHasFlight' /\ ArmedWhenDone'
  BY <1>1, <1>a DEF IInv, MakerHasFlight, ArmedWhenDone
<1>b. cache' = cache \/ cache'.key = -1
  <2>1. cache' = cache \/ cache' = Nothing BY <1>1 DEF Emptied
  <2>2. Nothing.key = -1 BY DEF Nothing
  <2> QED BY <2>1, <2>2
<1>4. KeysFit' BY <1>b, <1>1 DEF IInv, KeysFit, KeyFits, LoadedOrLater
<1>5. ReadsAreFresh'
  BY <1>1 DEF ReadsAreFresh, Emptied, At, Loaded, Making
<1>6. FreshAfterQuietInvalidation'
  BY <1>1 DEF FreshAfterQuietInvalidation, Emptied
<1> QED BY <1>2, <1>3, <1>4, <1>5, <1>6 DEF IInv

-----------------------------------------------------------------------------
(* The theorems *)

LEMMA InitInv == Init => IInv
<1> SUFFICES ASSUME Init PROVE IInv OBVIOUS
<1>1. TypeOK
  <2>1. call \in [Callers -> CallType] BY IdleType DEF Init
  <2>2. 0 \in Versions BY DEF Versions
  <2> QED BY <2>1, <2>2 DEF Init, TypeOK, CallType, Nothing
<1>2. MakerHasFlight /\ KeysFit /\ ReadsAreFresh
  BY DEF Init, Nothing, MakerHasFlight, KeysFit, KeyFits, LoadedOrLater, ReadsAreFresh, Idle, Making, Loaded
<1>3. FreshAfterQuietInvalidation BY DEF Init, FreshAfterQuietInvalidation
<1>4. ArmedWhenDone
  <2>1. ~holder.has /\ ~holder.failed /\ holder.armed = -1 /\ key = 0 BY DEF Init
  <2> QED BY <2>1 DEF ArmedWhenDone
<1> QED BY <1>1, <1>2, <1>3, <1>4 DEF IInv

LEMMA NextKeeps ==
  IInv /\ [Next]_vars => IInv'
<1> SUFFICES ASSUME IInv, [Next]_vars PROVE IInv'
  OBVIOUS
<1>1. ASSUME NEW c \in Callers, Get(c) \/ Step(c) PROVE IInv'
  BY <1>1, GetKeeps, LoadKeeps, JoinKeeps, RecheckKeeps, ResolveKeeps, MakeKeeps, StoreKeeps DEF Step
<1>2. CASE Look \/ Arm \/ StartVault BY <1>2, HolderKeeps
<1>3. CASE \/ ChangeRow \/ RotateSecret \/ Invalidate \/ InvalidateBySecret
           \/ UpdateSecretsProvider
  BY <1>3, OperatorKeeps
<1>4. CASE UNCHANGED vars
  BY <1>4 DEF vars, IInv, TypeOK, MakerHasFlight, ArmedWhenDone, KeysFit, KeyFits, LoadedOrLater,
     ReadsAreFresh, FreshAfterQuietInvalidation, At
<1> QED BY <1>1, <1>2, <1>3, <1>4 DEF Next

LEMMA InvIsEnough == IInv => ProvidersAreCurrent
<1> SUFFICES ASSUME IInv PROVE ProvidersAreCurrent OBVIOUS
<1>1. OneCreation BY DEF IInv, MakerHasFlight, OneCreation, Making
<1>2. ArmedBeforeUse BY DEF IInv, KeysFit, KeyFits, ArmedBeforeUse
<1> QED BY <1>1, <1>2 DEF IInv, ProvidersAreCurrent

\* In every behaviour of the registries (orchestrator/provider_registry.go:
\* getOrCreate under its singleflight, the invalidations, the holder's once), one
\* provider is made at a time, no key of the holder's is in use before the redactor
\* was loaded, and nothing older than an invalidation that no call overlapped is
\* cached.
THEOREM Current == Spec => []ProvidersAreCurrent
<1>1. Init => IInv BY InitInv
<1>2. IInv /\ [Next]_vars => IInv' BY NextKeeps
<1>3. IInv => ProvidersAreCurrent BY InvIsEnough
<1> QED BY <1>1, <1>2, <1>3, PTL DEF Spec

-----------------------------------------------------------------------------
(* The services side by side *)

LEMMA OneMoves ==
  ASSUME [ServicesNext]_servicevars
  PROVE  /\ Access!Next \/ UNCHANGED accessvars
         /\ Boot!Next \/ UNCHANGED bootvars
         /\ Hub!Next \/ UNCHANGED hubvars
         /\ Improve!Next \/ UNCHANGED improvevars
         /\ Mem!Next \/ UNCHANGED memvars
         /\ Model!Next \/ UNCHANGED modelvars
         /\ Hook!Next \/ UNCHANGED hookvars
         /\ Vault!Next \/ UNCHANGED vaultvars
BY DEF ServicesNext, servicevars

-----------------------------------------------------------------------------
(* Self-improvement *)

\* Until a text got deployed, or onto the disk, that was not compared with that of
\* the file, the file has the section of the first, or is about to have it again,
\* and so has what any pipeline brings past its gate.
Deploying == {"truncate", "write", "run", "inspect"}
SectionHeld ==
  unchecked = {} =>
    /\ live = "first" \/ (live = "empty" /\ \E p \in Pipelines : pipe[p].pc = "write")
    /\ \A p \in Pipelines :
         /\ pipe[p].current \in {"first", "empty", "given"}
         /\ pipe[p].pc \in Deploying => pipe[p].proposed = "first"

Places == {"idle", "validate", "gate", "truncate", "write", "reload", "publish", "run", "inspect"}
Reasons == {"skipped", "bare", "list", "given", "torn"}
PipeType == [pc : Places, strategy : Improve!Strategies, proposed : Improve!Texts,
             current : Improve!Texts \cup {"given"}]

LEMMA SectionHeldInit == Improve!Init => Improve!TypeOK /\ SectionHeld
BY DEF Improve!Init, Improve!TypeOK, SectionHeld, Improve!Unstarted, Improve!Texts, Improve!Parsed,
       Improve!Strategies, Deploying

\* A pipeline that goes on with a text that was compared, and leaves the file alone
\* or writes it with the section of the first, or cuts it to write it next.
LEMMA SectionMoves ==
  ASSUME pipe \in [Pipelines -> PipeType], SectionHeld, NEW p \in Pipelines, NEW rec \in PipeType,
         pipe' = [pipe EXCEPT ![p] = rec], unchecked \subseteq unchecked',
         SectionHeld /\ unchecked' = {} =>
           /\ rec.current \in {"first", "empty", "given"}
           /\ rec.pc \in Deploying => rec.proposed = "first"
           /\ \/ live' = "first"
              \/ live' = "empty" /\ rec.pc = "write"
              \/ live' = live /\ pipe[p].pc # "write"
  PROVE  pipe' \in [Pipelines -> PipeType] /\ SectionHeld'
<1>1. /\ pipe' \in [Pipelines -> PipeType] /\ pipe'[p] = rec
      /\ \A q \in Pipelines \ {p} : pipe'[q] = pipe[q]
  OBVIOUS
<1>2. ASSUME unchecked' = {}
      PROVE  /\ live' = "first" \/ (live' = "empty" /\ \E q \in Pipelines : pipe'[q].pc = "write")
             /\ \A q \in Pipelines :
                  /\ pipe'[q].current \in {"first", "empty", "given"}
                  /\ pipe'[q].pc \in Deploying => pipe'[q].proposed = "first"
  <2>1. unchecked = {} BY <1>2
  <2>2. \A q \in Pipelines : /\ pipe'[q].current \in {"first", "empty", "given"}
                             /\ pipe'[q].pc \in Deploying => pipe'[q].proposed = "first"
    BY <1>1, <1>2, <2>1 DEF SectionHeld
  <2>3. CASE live' = live /\ pipe[p].pc # "write"
    <3>1. \A q \in Pipelines : pipe[q].pc = "write" => pipe'[q].pc = "write" BY <1>1, <2>3
    <3> QED BY <2>1, <2>2, <2>3, <3>1 DEF SectionHeld
  <2> QED BY <1>1, <1>2, <2>2, <2>3
<1> QED BY <1>1, <1>2 DEF SectionHeld

\* The record a pipeline is given as it goes on, or leaves.
LEMMA PipelineMoves ==
  ASSUME pipe \in [Pipelines -> PipeType], NEW p \in Pipelines, NEW pc \in Places
  PROVE  /\ Improve!Set(p, pc) => \E rec \in PipeType :
              /\ pipe' = [pipe EXCEPT ![p] = rec] /\ rec.pc = pc
              /\ rec.current = pipe[p].current /\ rec.proposed = pipe[p].proposed
         /\ Improve!Leave(p, pc) => \E rec \in PipeType :
              /\ pipe' = [pipe EXCEPT ![p] = rec] /\ rec.pc = pc /\ rec.current = "empty"
<1>1. ASSUME Improve!Set(p, pc)
      PROVE  \E rec \in PipeType :
              /\ pipe' = [pipe EXCEPT ![p] = rec] /\ rec.pc = pc
              /\ rec.current = pipe[p].current /\ rec.proposed = pipe[p].proposed
  <2> DEFINE rec == [pipe[p] EXCEPT !.pc = pc]
  <2>1. /\ rec \in PipeType /\ rec.pc = pc /\ rec.current = pipe[p].current
        /\ rec.proposed = pipe[p].proposed
    BY DEF PipeType
  <2>2. pipe' = [pipe EXCEPT ![p] = rec] BY <1>1 DEF Improve!Set
  <2> HIDE DEF rec
  <2> QED BY <2>1, <2>2
<1>2. ASSUME Improve!Leave(p, pc)
      PROVE  \E rec \in PipeType :
              pipe' = [pipe EXCEPT ![p] = rec] /\ rec.pc = pc /\ rec.current = "empty"
  <2> DEFINE rec == [Improve!Unstarted EXCEPT !.pc = pc]
  <2>1. rec \in PipeType /\ rec.pc = pc /\ rec.current = "empty"
    BY DEF Improve!Unstarted, PipeType, Places, Improve!Strategies, Improve!Texts
  <2>2. pipe' = [pipe EXCEPT ![p] = rec] BY <1>2 DEF Improve!Leave
  <2> HIDE DEF rec
  <2> QED BY <2>1, <2>2
<1> QED BY <1>1, <1>2

LEMMA SectionHeldKept ==
  ASSUME Improve!TypeOK, SectionHeld, Improve!Next
  PROVE  Improve!TypeOK' /\ SectionHeld'
<1>0. /\ pipe \in [Pipelines -> PipeType] /\ live \in Improve!Texts
      /\ setup \in {"none", "map", "list"} /\ unchecked \subseteq Reasons
      /\ UNCHANGED setup
  BY DEF Improve!TypeOK, PipeType, Places, Reasons, Improve!Next, Improve!Begin, Improve!Validate,
         Improve!Gate, Improve!Truncate, Improve!Write, Improve!Reload, Improve!Publish, Improve!Run,
         Improve!Inspect
<1> SUFFICES /\ pipe' \in [Pipelines -> PipeType]
             /\ live' \in Improve!Texts
             /\ unchecked' \subseteq Reasons
             /\ SectionHeld'
  BY <1>0 DEF Improve!TypeOK, PipeType, Places, Reasons
<1>1. PICK p \in Pipelines :
        \/ Improve!Begin(p) \/ Improve!Validate(p) \/ Improve!Gate(p) \/ Improve!Truncate(p)
        \/ Improve!Write(p) \/ Improve!Reload(p) \/ Improve!Publish(p) \/ Improve!Run(p)
        \/ Improve!Inspect(p)
  BY DEF Improve!Next
<1>2. CASE Improve!Begin(p)
  <2>1. PICK current \in {live, "empty", "given"} :
          pipe' = [pipe EXCEPT ![p].pc = "validate", ![p].current = current]
    BY <1>2 DEF Improve!Begin
  <2> DEFINE rec == [pipe[p] EXCEPT !.pc = "validate", !.current = current]
  <2>2. rec \in PipeType /\ rec.pc = "validate" /\ rec.current = current
    BY <1>0, <2>1 DEF PipeType, Places, Improve!Texts
  <2>3. pipe' = [pipe EXCEPT ![p] = rec] BY <1>0, <2>1 DEF PipeType
  <2> HIDE DEF rec
  <2>4. UNCHANGED <<live, unchecked>> /\ pipe[p].pc = "idle" BY <1>2 DEF Improve!Begin
  <2>5. SectionHeld /\ unchecked' = {} => current \in {"first", "empty", "given"}
    BY <2>1, <2>4 DEF SectionHeld
  <2>6. "validate" \notin Deploying BY DEF Deploying
  <2> QED BY <1>0, <2>2, <2>3, <2>4, <2>5, <2>6, SectionMoves
\* Another place, of the same kind, with what the pipeline has.
<1>3. ASSUME NEW pc \in Places, Improve!Set(p, pc) \/ Improve!Leave(p, pc),
             UNCHANGED <<live, unchecked>>, pipe[p].pc # "write",
             pc \in Deploying => Improve!Set(p, pc) /\ pipe[p].pc \in Deploying
      PROVE  pipe' \in [Pipelines -> PipeType] /\ SectionHeld'
  <2>1. PICK rec \in PipeType :
          /\ pipe' = [pipe EXCEPT ![p] = rec] /\ rec.pc = pc
          /\ rec.current \in {pipe[p].current, "empty"}
          /\ Improve!Set(p, pc) => rec.proposed = pipe[p].proposed
    <3>1. CASE Improve!Set(p, pc) BY <1>0, <3>1, PipelineMoves
    <3>2. CASE ~Improve!Set(p, pc) BY <1>0, <1>3, <3>2, PipelineMoves
    <3> QED BY <3>1, <3>2
  <2>2. SectionHeld /\ unchecked' = {} =>
          /\ rec.current \in {"first", "empty", "given"}
          /\ rec.pc \in Deploying => rec.proposed = "first"
    BY <1>3, <2>1 DEF SectionHeld
  <2> QED BY <1>0, <1>3, <2>1, <2>2, SectionMoves
<1>4. CASE Improve!Validate(p)
  <2>1. "gate" \in Places \ Deploying /\ "idle" \in Places \ Deploying BY DEF Places, Deploying
  <2> QED BY <1>0, <1>3, <1>4, <2>1 DEF Improve!Validate, Improve!Over
<1>5. CASE Improve!Gate(p)
  <2>0. "idle" \in Places \ Deploying BY DEF Places, Deploying
  <2>1. pipe[p].pc = "gate" /\ UNCHANGED live BY <1>5 DEF Improve!Gate
  <2>2. CASE Improve!Over(p) /\ UNCHANGED unchecked
    BY <1>0, <1>3, <2>0, <2>1, <2>2 DEF Improve!Over
  <2>3. ASSUME NEW proposed \in Improve!Texts \ {"empty"}, NEW strategy \in Improve!Strategies,
               NEW skip \in BOOLEAN, skip \/ Improve!Valid(proposed, pipe[p].current),
               pipe' = [pipe EXCEPT ![p] =
                 [pc |-> IF strategy = "canary" THEN "run" ELSE "truncate",
                  strategy |-> strategy, proposed |-> proposed, current |-> "empty"]],
               unchecked' = Improve!Noted(Improve!Unchecked(pipe[p].current, skip))
        PROVE  /\ pipe' \in [Pipelines -> PipeType]
               /\ unchecked' \subseteq Reasons
               /\ SectionHeld'
    <3> DEFINE rec == [pc |-> IF strategy = "canary" THEN "run" ELSE "truncate",
                       strategy |-> strategy, proposed |-> proposed, current |-> "empty"]
    <3>1. rec \in PipeType /\ rec.current = "empty" /\ rec.proposed = proposed
      BY DEF PipeType, Places, Improve!Texts
    <3>2. pipe' = [pipe EXCEPT ![p] = rec] BY <2>3
    <3> HIDE DEF rec
    <3>3. unchecked' \subseteq Reasons /\ unchecked \subseteq unchecked'
      BY <1>0, <2>3 DEF Improve!Unchecked, Improve!Noted, Reasons
    <3>4. ASSUME unchecked' = {} PROVE proposed = "first"
      <4>1. /\ unchecked = {} /\ ~skip /\ pipe[p].current # "given"
            /\ Improve!Compared(pipe[p].current) /\ setup # "list"
        BY <2>3, <3>4 DEF Improve!Unchecked, Improve!Noted
      <4>2. pipe[p].current \in {"first", "empty", "given"} BY <4>1 DEF SectionHeld
      <4>3. pipe[p].current = "first" /\ setup = "map"
        BY <1>0, <4>1, <4>2 DEF Improve!Compared, Improve!Parsed
      <4> QED BY <2>3, <4>1, <4>3 DEF Improve!Valid, Improve!checkImmutability, Improve!extractNestedPath
    <3> QED BY <1>0, <2>1, <3>1, <3>2, <3>3, <3>4, SectionMoves
  <2> QED BY <1>0, <1>5, <2>1, <2>2, <2>3 DEF Improve!Gate
<1>6. CASE Improve!Truncate(p)
  <2>0. "idle" \in Places \ Deploying /\ "write" \in Places BY DEF Places, Deploying
  <2>1. pipe[p].pc = "truncate" /\ UNCHANGED unchecked BY <1>6 DEF Improve!Truncate
  <2>2. CASE Improve!Over(p) /\ UNCHANGED live BY <1>0, <1>3, <2>0, <2>1, <2>2 DEF Improve!Over
  <2>3. CASE live' = "empty" /\ Improve!Set(p, "write")
    <3>1. PICK rec \in PipeType :
            /\ pipe' = [pipe EXCEPT ![p] = rec] /\ rec.pc = "write"
            /\ rec.current = pipe[p].current /\ rec.proposed = pipe[p].proposed
      BY <1>0, <2>0, <2>3, PipelineMoves
    <3>2. SectionHeld /\ unchecked' = {} =>
            rec.current \in {"first", "empty", "given"} /\ rec.proposed = "first"
      BY <2>1, <3>1 DEF SectionHeld, Deploying
    <3>3. live' \in Improve!Texts BY <2>3 DEF Improve!Texts
    <3>4. pipe' \in [Pipelines -> PipeType] /\ SectionHeld'
      BY <1>0, <2>1, <2>3, <3>1, <3>2, SectionMoves
    <3> QED BY <1>0, <2>1, <3>3, <3>4
  <2> QED BY <1>6, <2>2, <2>3 DEF Improve!Truncate
<1>7. CASE Improve!Write(p)
  <2>0. {"idle", "reload", "publish"} \subseteq Places \ Deploying BY DEF Places, Deploying
  <2>1. pipe[p].proposed \in Improve!Texts /\ pipe[p].strategy \in Improve!Strategies
        /\ pipe[p].pc = "write"
    BY <1>0, <1>7 DEF PipeType, Improve!Write
  <2>2. /\ live' \in Improve!Texts /\ unchecked' \subseteq Reasons /\ unchecked \subseteq unchecked'
        /\ unchecked' = {} => live' = pipe[p].proposed
    BY <1>0, <1>7, <2>1 DEF Improve!Write, Improve!Noted, Reasons
  <2>3. \E pc \in {"idle", "reload", "publish"} : Improve!Leave(p, pc)
    BY <1>7, <2>1 DEF Improve!Write, Improve!Over, Improve!Strategies
  <2>4. PICK rec \in PipeType :
          /\ pipe' = [pipe EXCEPT ![p] = rec] /\ rec.pc \notin Deploying /\ rec.current = "empty"
    BY <1>0, <2>0, <2>3, PipelineMoves
  <2>5. SectionHeld /\ unchecked' = {} => live' = "first"
    BY <2>1, <2>2 DEF SectionHeld, Deploying
  <2> QED BY <1>0, <2>2, <2>4, <2>5, SectionMoves
<1>8. CASE Improve!Reload(p) \/ Improve!Publish(p) \/ Improve!Run(p) \/ Improve!Inspect(p)
  <2>0. /\ {"idle", "inspect", "truncate"} \subseteq Places /\ "idle" \notin Deploying
        /\ {"run", "inspect"} \subseteq Deploying
    BY DEF Places, Deploying
  <2>1. CASE Improve!Over(p)
    <3>1. pipe[p].pc # "write" /\ UNCHANGED <<live, unchecked>>
      BY <1>8 DEF Improve!Reload, Improve!Publish, Improve!Run, Improve!Inspect
    <3> QED BY <1>0, <1>3, <2>0, <2>1, <3>1 DEF Improve!Over
  <2>2. CASE ~Improve!Over(p)
    <3>1. /\ pipe[p].pc \in {"run", "inspect"} /\ UNCHANGED <<live, unchecked>>
          /\ \E pc \in {"inspect", "truncate"} : Improve!Set(p, pc)
      BY <1>8, <2>2 DEF Improve!Reload, Improve!Publish, Improve!Run, Improve!Inspect
    <3> QED BY <1>0, <1>3, <2>0, <3>1
  <2> QED BY <2>1, <2>2
<1> QED BY <1>1, <1>2, <1>4, <1>5, <1>6, <1>7, <1>8

\* Whatever pipelines write the configuration while others compare with a text
\* they read before (orchestrator/step_self_improve_deploy.go), its immutable
\* section stays, but for the moment of a write, unless something was deployed that
\* had not been compared with a text of the file, or a write broke off or was
\* disturbed.
THEOREM ImmutableSectionStays == ServicesSpec => []SectionKept
<1>1. ServicesInit => Improve!TypeOK /\ SectionHeld BY SectionHeldInit DEF ServicesInit
<1>2. Improve!TypeOK /\ SectionHeld /\ [ServicesNext]_servicevars => (Improve!TypeOK /\ SectionHeld)'
  <2> SUFFICES ASSUME Improve!TypeOK, SectionHeld, [ServicesNext]_servicevars
               PROVE  (Improve!TypeOK /\ SectionHeld)'
    OBVIOUS
  <2>1. CASE Improve!Next BY <2>1, SectionHeldKept
  <2>2. CASE UNCHANGED improvevars BY <2>2 DEF improvevars, Improve!TypeOK, SectionHeld
  <2> QED BY <2>1, <2>2, OneMoves
<1>3. SectionHeld => SectionKept BY DEF SectionHeld, SectionKept, Improve!SectionKept
<1> QED BY <1>1, <1>2, <1>3, PTL DEF ServicesSpec

-----------------------------------------------------------------------------
(* Tool access *)

Actions == {"allow", "ask", "deny"}

\* The verdict on what is said: a deny wins, an allow or an ask was said by
\* somebody, and the default holds where nobody speaks.
LEMMA VerdictIs ==
  ASSUME NEW acts \in SUBSET Actions, NEW d
  PROVE  /\ Access!Verdict(acts, d) \in Actions \cup {d}
         /\ Access!Verdict(acts, d) # d => Access!Verdict(acts, d) \in acts
         /\ Access!Verdict(acts, d) # "deny" => "deny" \notin acts
<1>1. CASE "deny" \in acts BY <1>1 DEF Access!Verdict
<1>2. CASE "deny" \notin acts /\ "allow" \in acts BY <1>2 DEF Access!Verdict
<1>3. CASE acts = {"ask"} BY <1>3 DEF Access!Verdict
<1>4. CASE acts = {} BY <1>4 DEF Access!Verdict
<1> QED BY <1>1, <1>2, <1>3, <1>4 DEF Actions

LEMMA EnginesAre == DOMAIN Access!Guardrails = {"default", "strict", "lax"}
BY DEF Access!Guardrails

LEMMA RulesSay ==
  ASSUME explicit \subseteq Access!Added
  PROVE  \A r \in Access!Rules : r.action \in Actions
<1>1. \A r \in Access!Added : r.action \in Actions
  BY DEF Access!Added, Access!Rule, Access!Scoped, Actions
<1>2. \A m \in DOMAIN Access!ModePresets : \A r \in Access!ModePresets[m] : r.action \in Actions
  <2>1. \A p, a : Access!Rule(p, a).action = a BY DEF Access!Rule
  <2>2. /\ "allow" \in Actions /\ "ask" \in Actions /\ "deny" \in Actions
        /\ DOMAIN Access!ModePresets = {"conservative", "permissive", "locked", "sandbox"}
    BY DEF Access!ModePresets, Actions
  <2>3. \A r \in Access!ModePresets["conservative"] : r.action \in Actions
    <3>1. Access!ModePresets["conservative"] =
            {Access!Rule("file_read", "allow"), Access!Rule("bash:git *", "allow"),
             Access!Rule("bash:*", "ask"), Access!Rule("path:~/.ssh", "deny")}
      BY DEF Access!ModePresets
    <3>2. SUFFICES ASSUME NEW r \in Access!ModePresets["conservative"] PROVE r.action \in Actions
      OBVIOUS
    <3>3. CASE r = Access!Rule("file_read", "allow") BY <2>1, <2>2, <3>3
    <3>4. CASE r = Access!Rule("bash:git *", "allow") BY <2>1, <2>2, <3>4
    <3>5. CASE r = Access!Rule("bash:*", "ask") BY <2>1, <2>2, <3>5
    <3>6. CASE r = Access!Rule("path:~/.ssh", "deny") BY <2>1, <2>2, <3>6
    <3> QED BY <3>1, <3>3, <3>4, <3>5, <3>6
  <2>4. \A r \in Access!ModePresets["permissive"] : r.action \in Actions
    <3>1. Access!ModePresets["permissive"] =
            {Access!Rule("*", "allow"), Access!Rule("path:~/.ssh", "deny")}
      BY DEF Access!ModePresets
    <3> QED BY <2>1, <2>2, <3>1
  <2>5. \A r \in Access!ModePresets["locked"] : r.action \in Actions
    <3>1. Access!ModePresets["locked"] =
            {Access!Rule("file_read", "allow"), Access!Rule("*", "ask")}
      BY DEF Access!ModePresets
    <3> QED BY <2>1, <2>2, <3>1
  <2>6. \A r \in Access!ModePresets["sandbox"] : r.action \in Actions
    <3>1. Access!ModePresets["sandbox"] = {Access!Rule("*", "allow")}
      BY DEF Access!ModePresets
    <3> QED BY <2>1, <2>2, <3>1
  <2> QED BY <2>2, <2>3, <2>4, <2>5, <2>6
<1> QED BY <1>1, <1>2 DEF Access!Rules

\* What speaks for and against a call depends on its tool and its argument alone.
LEMMA SameView ==
  ASSUME UNCHANGED <<engine, mode, explicit, grants, policies, lenient>>,
         NEW q, q.tool = tcall'.tool, q.arg = tcall'.arg
  PROVE  /\ Access!DenyNow(tcall)' = Access!DenyNow(q)
         /\ Access!AllowNow(tcall)' = Access!AllowNow(q)
<1>1. Access!Rules' = Access!Rules BY DEF Access!Rules
<1>2. Access!ArgVerdict(tcall.arg)' = Access!ArgVerdict(q.arg)
  BY <1>1 DEF Access!ArgVerdict, Access!ArgActs, Access!Guarded, Access!Analyze
<1>3. Access!ToolActs(tcall.tool)' = Access!ToolActs(q.tool)
  BY <1>1 DEF Access!ToolActs
<1>4. Access!GrantActs(tcall.tool)' = Access!GrantActs(q.tool)
  BY DEF Access!GrantActs
<1>5. \A who : Access!PolicyActs(tcall.tool, who)' = Access!PolicyActs(q.tool, who)
  BY DEF Access!PolicyActs
<1>6. \A who : Access!IsAllowed(tcall.tool, who)' = Access!IsAllowed(q.tool, who)
  BY DEF Access!IsAllowed, Access!PolicyActs
<1>7. Access!checkToolAccess(tcall.tool)' = Access!checkToolAccess(q.tool)
  BY DEF Access!checkToolAccess
<1>8. Access!DenyNow(tcall)' = Access!DenyNow(q)
  BY <1>2, <1>3, <1>4, <1>5 DEF Access!DenyNow
<1>9. Access!AllowNow(tcall)' = Access!AllowNow(q)
  BY <1>2, <1>3, <1>4, <1>6, <1>7 DEF Access!AllowNow, Access!Guarded
<1> QED BY <1>8, <1>9

CallPlaces == {"idle", "tool", "store", "db", "arg", "human", "gate", "run"}
Gates      == {"tool", "store", "arg", "gate"}

AccessTyped ==
  /\ engine \in {"none", "trust", "default", "strict", "lax"}
  /\ explicit \subseteq Access!Added /\ grants \subseteq Access!Grants
  /\ policies \subseteq Access!Policies /\ lenient \in BOOLEAN
  /\ tcall \in [pc : CallPlaces, tool : Access!Tools,
               arg : Access!Commands \cup Access!Paths \cup {"none"}, human : BOOLEAN,
               deaf : BOOLEAN]

\* Past the permission store no grant denied it, unless the query failed;
\* past the engine's question about the tool it was allowed and no deny stood
\* against it, past that about the argument the same is so of this or a human
\* has answered, and past the policies of the database of these too.
Passed(pc, human, deaf) ==
  /\ pc \in {"db", "arg", "human", "gate", "run"} => deaf \/ "store" \notin denied
  /\ pc \in {"store", "db"} => engine = "trust" /\ "tool" \notin denied
  /\ pc \in {"arg", "human", "gate", "run"} => "tool" \in allowed \ denied
  /\ pc = "arg" => tcall.arg # "none"
  /\ pc \in {"gate", "run"} => human \/ "arg" \in allowed \ denied
  /\ pc = "run" => "gate" \in allowed \ denied

\* What has stood against a call stands, and what speaks for it has been noted.
AccessInv ==
  /\ AccessTyped
  /\ denied \subseteq Gates
  /\ tcall.pc # "idle" => /\ denied \subseteq Access!DenyNow(tcall)
                         /\ Access!AllowNow(tcall) \subseteq allowed
  /\ Passed(tcall.pc, tcall.human, tcall.deaf)

LEMMA ActsAreActions ==
  ASSUME AccessTyped
  PROVE  /\ \A t : Access!ToolActs(t) \in SUBSET Actions
         /\ \A x : Access!ArgActs(x) \in SUBSET Actions
         /\ \A t : Access!GrantActs(t) \in SUBSET Actions
         /\ \A t, who : Access!PolicyActs(t, who) \in SUBSET Actions
<1>1. \A r \in Access!Rules : r.action \in Actions BY RulesSay DEF AccessTyped
<1>2. \A g \in grants : g.action \in Actions
  BY DEF AccessTyped, Access!Grants, Access!Rule, Actions
<1>3. \A p \in policies : p.action \in Actions
  BY DEF AccessTyped, Access!Policies, Access!Rule, Actions
<1>4. \A t : Access!ToolActs(t) \in SUBSET Actions BY <1>1 DEF Access!ToolActs
<1>5. \A x : Access!ArgActs(x) \in SUBSET Actions BY <1>1 DEF Access!ArgActs
<1>6. \A t : Access!GrantActs(t) \in SUBSET Actions BY <1>2 DEF Access!GrantActs
<1>7. \A t, who : Access!PolicyActs(t, who) \in SUBSET Actions BY <1>3 DEF Access!PolicyActs
<1> QED BY <1>4, <1>5, <1>6, <1>7

\* A policy allows only where none denies.
LEMMA AllowedIsNotDenied ==
  ASSUME AccessTyped, NEW t, NEW who, Access!IsAllowed(t, who)
  PROVE  "deny" \notin Access!PolicyActs(t, who)
<1>1. Access!PolicyActs(t, who) \in SUBSET Actions BY ActsAreActions
<1>2. Access!Verdict(Access!PolicyActs(t, who), IF lenient THEN "allow" ELSE "deny") # "deny"
  BY DEF Access!IsAllowed
<1> QED BY <1>1, <1>2, VerdictIs

\* The engine's word on the tool.
ToolWord(t) ==
  CASE engine = "trust" -> Access!Verdict(Access!ToolActs(t), "store")
    [] Access!Guarded   -> Access!AllowOrDeny(Access!checkToolAccess(t))
    [] engine = "none"  -> "deny"

LEMMA ToolIsAsked ==
  ASSUME AccessTyped
  PROVE  /\ ToolWord(tcall.tool) \in {"allow", "ask", "deny", "store"}
         /\ ToolWord(tcall.tool) \in {"allow", "ask"} =>
              /\ "tool" \in Access!AllowNow(tcall) \ Access!DenyNow(tcall)
              /\ "store" \notin Access!DenyNow(tcall)
         /\ ToolWord(tcall.tool) = "store" => engine = "trust" /\ "tool" \notin Access!DenyNow(tcall)
<1>1. CASE engine = "trust"
  <2>1. Access!ToolActs(tcall.tool) \in SUBSET Actions BY ActsAreActions
  <2>2. ToolWord(tcall.tool) = Access!Verdict(Access!ToolActs(tcall.tool), "store")
    BY <1>1, EnginesAre DEF ToolWord, Access!Guarded
  <2>3. ToolWord(tcall.tool) # "deny" => "tool" \notin Access!DenyNow(tcall)
    BY <2>1, <2>2, VerdictIs DEF Access!DenyNow
  <2>4. ToolWord(tcall.tool) \in {"allow", "ask"} => "tool" \in Access!AllowNow(tcall)
    <3>1. ToolWord(tcall.tool) \in {"allow", "ask"} =>
            {"allow", "ask"} \cap (Access!ToolActs(tcall.tool) \cup Access!GrantActs(tcall.tool)) # {}
      BY <2>1, <2>2, VerdictIs
    <3> QED BY <1>1, <3>1, EnginesAre DEF Access!AllowNow, Access!Guarded
  <2>5. ToolWord(tcall.tool) \in {"allow", "ask", "deny", "store"}
    BY <2>1, <2>2, VerdictIs DEF Actions
  <2>6. ToolWord(tcall.tool) \in {"allow", "ask"} => "store" \notin Access!DenyNow(tcall)
    <3>1. Access!ToolActs(tcall.tool) = {} => ToolWord(tcall.tool) = "store"
      BY <2>1, <2>2, VerdictIs
    <3> QED BY <3>1 DEF Access!DenyNow
  <2> QED BY <1>1, <2>3, <2>4, <2>5, <2>6
<1>2. CASE engine # "trust" /\ Access!Guarded
  <2>1. ToolWord(tcall.tool) = Access!AllowOrDeny(Access!checkToolAccess(tcall.tool))
    BY <1>2, EnginesAre DEF ToolWord, Access!Guarded
  <2>2. {"tool", "store"} \cap Access!DenyNow(tcall) = {} BY <1>2 DEF Access!DenyNow
  <2>3. Access!checkToolAccess(tcall.tool) => "tool" \in Access!AllowNow(tcall)
    BY <1>2, EnginesAre DEF Access!AllowNow, Access!Guarded
  <2> QED BY <2>1, <2>2, <2>3 DEF Access!AllowOrDeny
<1>3. CASE engine # "trust" /\ ~Access!Guarded
  <2>1. engine = "none" BY <1>3, EnginesAre DEF AccessTyped, Access!Guarded
  <2>2. ToolWord(tcall.tool) = "deny" BY <1>3, <2>1 DEF ToolWord
  <2> QED BY <2>2
<1> QED BY <1>1, <1>2, <1>3

LEMMA ArgIsAsked ==
  ASSUME AccessTyped, tcall.arg # "none"
  PROVE  /\ Access!ArgVerdict(tcall.arg) \in Actions
         /\ Access!ArgVerdict(tcall.arg) # "deny" =>
              "arg" \in Access!AllowNow(tcall) \ Access!DenyNow(tcall)
<1>1. Access!ArgVerdict(tcall.arg) \in Actions
  <2>1. CASE engine = "trust"
    <3>1. Access!ArgVerdict(tcall.arg) = Access!Verdict(Access!ArgActs(tcall.arg), "deny")
      BY <2>1, EnginesAre DEF Access!ArgVerdict, Access!Guarded
    <3> QED BY <3>1, VerdictIs, ActsAreActions DEF Actions
  <2>2. CASE engine # "trust" /\ Access!Guarded
    <3>1. Access!ArgVerdict(tcall.arg) =
            Access!AllowOrDeny(tcall.arg \in Access!Paths \/ Access!Analyze(tcall.arg))
      BY <2>2, EnginesAre DEF Access!ArgVerdict, Access!Guarded
    <3> QED BY <3>1 DEF Actions, Access!AllowOrDeny
  <2>3. CASE engine # "trust" /\ ~Access!Guarded
    <3>1. engine = "none" BY <2>3, EnginesAre DEF AccessTyped, Access!Guarded
    <3>2. Access!ArgVerdict(tcall.arg) = "deny" BY <2>3, <3>1 DEF Access!ArgVerdict
    <3> QED BY <3>2 DEF Actions
  <2> QED BY <2>1, <2>2, <2>3
<1> QED BY <1>1 DEF Access!AllowNow, Access!DenyNow

\* A call goes on where it has passed what was asked.
LEMMA GotoKeeps ==
  ASSUME AccessInv, tcall.pc # "idle", NEW pc \in CallPlaces, Access!Goto(pc),
         Passed(pc, tcall.human \/ tcall.pc = "human", tcall.deaf)
  PROVE  AccessInv'
<1>0. UNCHANGED <<engine, mode, explicit, grants, policies, lenient>> BY DEF Access!Goto
<1>1. CASE pc = "idle"
  <2>1. tcall' = Access!NoCall /\ denied' = {} BY <1>1 DEF Access!Goto
  <2>2. /\ Access!NoCall.pc = "idle"
        /\ Access!NoCall \in [pc : CallPlaces, tool : Access!Tools,
              arg : Access!Commands \cup Access!Paths \cup {"none"}, human : BOOLEAN, deaf : BOOLEAN]
    BY DEF Access!NoCall, CallPlaces, Access!Tools
  <2>3. AccessTyped' /\ tcall'.pc = "idle" BY <1>0, <2>1, <2>2 DEF AccessInv, AccessTyped
  <2> QED BY <2>1, <2>3 DEF AccessInv, Passed
<1>2. CASE pc # "idle"
  <2>1. /\ tcall' = [tcall EXCEPT !.pc = pc, !.human = tcall.human \/ tcall.pc = "human"]
        /\ UNCHANGED <<denied, allowed>>
    BY <1>2 DEF Access!Goto
  <2>2. /\ AccessTyped' /\ tcall'.tool = tcall.tool /\ tcall'.arg = tcall.arg /\ tcall'.pc = pc
        /\ tcall'.human = (tcall.human \/ tcall.pc = "human") /\ tcall'.deaf = tcall.deaf
    BY <1>0, <2>1 DEF AccessInv, AccessTyped
  <2>3. /\ Access!DenyNow(tcall)' = Access!DenyNow(tcall)
        /\ Access!AllowNow(tcall)' = Access!AllowNow(tcall)
    BY <1>0, <2>2, SameView
  <2>4. Passed(tcall.pc, tcall.human, tcall.deaf)'
    <3>1. PICK h : h = (tcall.human \/ tcall.pc = "human") OBVIOUS
    <3>2. Passed(pc, h, tcall.deaf) BY <3>1
    <3>3. tcall'.human = h /\ tcall'.pc = pc /\ UNCHANGED <<denied, allowed, engine, tcall.arg, tcall.deaf>>
      BY <1>0, <2>1, <2>2, <3>1
    <3> QED BY ONLY <3>2, <3>3, Zenon DEF Passed
  <2> QED BY <2>1, <2>2, <2>3, <2>4 DEF AccessInv
<1> QED BY <1>1, <1>2

LEMMA BeginKeeps ==
  ASSUME AccessInv, Access!Begin
  PROVE  AccessInv'
<1>1. PICK t \in Access!Tools :
      \E x \in (IF t = "file_read" THEN Access!Paths ELSE Access!Commands) \cup {"none"} :
        /\ tcall' = [Access!NoCall EXCEPT !.pc = "tool", !.tool = t, !.arg = x]
        /\ denied' = Access!DenyNow(tcall') /\ allowed' = Access!AllowNow(tcall')
  BY DEF Access!Begin
<1>2. PICK x \in Access!Commands \cup Access!Paths \cup {"none"} :
        /\ tcall' = [Access!NoCall EXCEPT !.pc = "tool", !.tool = t, !.arg = x]
        /\ denied' = Access!DenyNow(tcall') /\ allowed' = Access!AllowNow(tcall')
  BY <1>1
<1>3. /\ tcall'.pc = "tool" /\ tcall' \in [pc : CallPlaces, tool : Access!Tools,
               arg : Access!Commands \cup Access!Paths \cup {"none"}, human : BOOLEAN, deaf : BOOLEAN]
  BY <1>2 DEF Access!NoCall, CallPlaces
<1>4. PICK q : q = tcall' OBVIOUS
<1>5. UNCHANGED <<engine, mode, explicit, grants, policies, lenient>> BY DEF Access!Begin
<1>6. /\ Access!DenyNow(tcall)' = Access!DenyNow(q)
      /\ Access!AllowNow(tcall)' = Access!AllowNow(q)
  BY <1>4, <1>5, SameView
<1>7. denied' = Access!DenyNow(q) /\ allowed' = Access!AllowNow(q) BY <1>2, <1>4
<1>8. denied' \subseteq Gates BY <1>7 DEF Access!DenyNow, Gates
<1>9. AccessTyped' BY <1>3, <1>5 DEF AccessInv, AccessTyped
<1>10. Passed(tcall.pc, tcall.human, tcall.deaf)' BY <1>3 DEF Passed
<1> QED BY <1>3, <1>6, <1>7, <1>8, <1>9, <1>10 DEF AccessInv

\* A question asked now.
LEMMA CallKeeps ==
  ASSUME AccessInv,
         \/ Access!EvaluateTool \/ Access!CheckGrants \/ Access!CheckPolicyDB
         \/ Access!GrantsUnread \/ Access!EvaluateArg \/ Access!HumanAnswers \/ Access!AskPolicies \/ Access!Run
  PROVE  AccessInv'
<1>0. AccessTyped /\ Passed(tcall.pc, tcall.human, tcall.deaf) BY DEF AccessInv
<1>a. /\ Passed("idle", tcall.human \/ tcall.pc = "human", tcall.deaf)
      /\ "idle" \in CallPlaces
  BY DEF Passed, CallPlaces
\* Where an allowed or doubtful call goes.
<1>b. ASSUME "tool" \in allowed \ denied, tcall.deaf \/ "store" \notin denied,
             tcall.pc # "idle", NEW v \in {"allow", "ask"}
      PROVE  /\ Access!After(v) \in CallPlaces
             /\ Passed(Access!After(v), tcall.human \/ tcall.pc = "human", tcall.deaf)
  <2>1. CASE v = "ask"
    <3>1. Access!After(v) = "human" BY <2>1 DEF Access!After
    <3> QED BY <1>b, <3>1 DEF CallPlaces, Passed
  <2>2. CASE v = "allow" /\ tcall.arg # "none"
    <3>1. Access!After(v) = "arg" BY <2>2 DEF Access!After
    <3> QED BY <1>b, <2>2, <3>1 DEF CallPlaces, Passed
  <2>3. CASE v = "allow" /\ tcall.arg = "none"
    <3>1. Access!After(v) = "gate" BY <2>3 DEF Access!After
    <3>2. "arg" \in Access!AllowNow(tcall) \ Access!DenyNow(tcall)
      BY <2>3 DEF Access!AllowNow, Access!DenyNow
    <3>3. "arg" \in allowed \ denied BY <1>b, <3>2 DEF AccessInv
    <3> QED BY <1>b, <3>1, <3>3 DEF CallPlaces, Passed
  <2> QED BY <1>b, <2>1, <2>2, <2>3
<1>c. Access!After("deny") = "idle" BY DEF Access!After
<1>1. CASE Access!EvaluateTool
  <2>1. tcall.pc = "tool" /\ Access!Goto(Access!After(ToolWord(tcall.tool)))
    BY <1>1 DEF Access!EvaluateTool, ToolWord
  <2>2. CASE ToolWord(tcall.tool) \in {"allow", "ask"}
    <3>1. "tool" \in allowed \ denied /\ "store" \notin denied
      BY <1>0, <2>1, <2>2, ToolIsAsked DEF AccessInv
    <3> QED BY <1>b, <2>1, <2>2, <3>1, GotoKeeps
  <2>3. CASE ToolWord(tcall.tool) = "deny" BY <1>a, <1>c, <2>1, <2>3, GotoKeeps
  <2>4. CASE ToolWord(tcall.tool) = "store"
    <3>1. Access!After(ToolWord(tcall.tool)) = "store" BY <2>4 DEF Access!After
    <3>2. engine = "trust" /\ "tool" \notin denied
      BY <1>0, <2>1, <2>4, ToolIsAsked DEF AccessInv
    <3>3. Passed("store", tcall.human \/ tcall.pc = "human", tcall.deaf) BY <3>2 DEF Passed
    <3>4. "store" \in CallPlaces BY DEF CallPlaces
    <3> QED BY <2>1, <3>1, <3>3, <3>4, GotoKeeps
  <2> QED BY <1>0, <2>2, <2>3, <2>4, ToolIsAsked
<1>2. CASE Access!CheckGrants
  <2>1. tcall.pc = "store" /\ engine = "trust" /\ "tool" \notin denied
    BY <1>0, <1>2 DEF Access!CheckGrants, Passed
  <2>2. CASE Access!GrantActs(tcall.tool) = {} /\ Access!Goto("db")
    <3>0. "store" \notin denied BY <2>1, <2>2 DEF AccessInv, Access!DenyNow
    <3>1. Passed("db", tcall.human \/ tcall.pc = "human", tcall.deaf) BY <2>1, <3>0 DEF Passed
    <3> QED BY <2>1, <2>2, <3>1, GotoKeeps DEF CallPlaces
  <2>3. ASSUME Access!GrantActs(tcall.tool) # {},
               Access!Goto(Access!After(Access!Verdict(Access!GrantActs(tcall.tool), "deny")))
        PROVE  AccessInv'
    <3> DEFINE v == Access!Verdict(Access!GrantActs(tcall.tool), "deny")
    <3>1. Access!GrantActs(tcall.tool) \in SUBSET Actions BY <1>0, ActsAreActions
    <3>2. v \in Actions /\ (v # "deny" => v \in Access!GrantActs(tcall.tool))
      BY <3>1, VerdictIs DEF Actions
    <3> HIDE DEF v
    <3>3. CASE v = "deny" BY <1>a, <1>c, <2>1, <2>3, <3>3, GotoKeeps DEF v
    <3>4. CASE v # "deny"
      <4>1. v \in {"allow", "ask"} BY <3>2, <3>4 DEF Actions
      <4>2. {"allow", "ask"} \cap (Access!ToolActs(tcall.tool) \cup Access!GrantActs(tcall.tool)) # {}
        BY <3>2, <4>1
      <4>3. "tool" \in Access!AllowNow(tcall)
        BY <2>1, <4>2, EnginesAre DEF Access!AllowNow, Access!Guarded
      <4>4. "tool" \in allowed \ denied BY <2>1, <4>3 DEF AccessInv
      <4>5. "store" \notin denied
        <5>1. "deny" \notin Access!GrantActs(tcall.tool) BY <3>1, <3>4, VerdictIs DEF v
        <5> QED BY <2>1, <5>1 DEF AccessInv, Access!DenyNow
      <4> QED BY <1>b, <4>5, <2>1, <2>3, <4>1, <4>4, GotoKeeps DEF v
    <3> QED BY <3>3, <3>4
  <2> QED BY <1>2, <2>2, <2>3 DEF Access!CheckGrants
<1>3. CASE Access!CheckPolicyDB
  <2>1. /\ tcall.pc = "db" /\ engine = "trust" /\ "tool" \notin denied
        /\ tcall.deaf \/ "store" \notin denied
    BY <1>0, <1>3 DEF Access!CheckPolicyDB, Passed
  <2>2. CASE Access!Goto("idle") BY <1>a, <2>1, <2>2, GotoKeeps
  <2>3. CASE Access!IsAllowed(tcall.tool, "none") /\ Access!Goto(Access!After("allow"))
    <3>1. "tool" \in Access!AllowNow(tcall)
      BY <2>1, <2>3, EnginesAre DEF Access!AllowNow, Access!Guarded
    <3>2. "tool" \in allowed \ denied BY <2>1, <3>1 DEF AccessInv
    <3> QED BY <1>b, <2>1, <2>3, <3>2, GotoKeeps
  <2> QED BY <1>3, <2>2, <2>3 DEF Access!CheckPolicyDB
<1>4. CASE Access!EvaluateArg
  <2> DEFINE v == Access!ArgVerdict(tcall.arg)
  <2>1. /\ tcall.pc = "arg" /\ tcall.arg # "none" /\ "tool" \in allowed \ denied
        /\ tcall.deaf \/ "store" \notin denied
    BY <1>0, <1>4 DEF Access!EvaluateArg, Passed
  <2>2. Access!Goto(IF v = "allow" THEN "gate" ELSE Access!After(v))
    BY <1>4 DEF Access!EvaluateArg
  <2>3. v \in Actions /\ (v # "deny" => "arg" \in allowed \ denied)
    BY <1>0, <2>1, ArgIsAsked DEF AccessInv
  <2> HIDE DEF v
  <2>4. CASE v = "deny" BY <1>a, <1>c, <2>1, <2>2, <2>4, GotoKeeps
  <2>5. CASE v = "ask" BY <1>b, <2>1, <2>2, <2>5, GotoKeeps
  <2>6. CASE v = "allow"
    <3>1. "gate" \in CallPlaces /\ Passed("gate", tcall.human \/ tcall.pc = "human", tcall.deaf)
      BY <2>1, <2>3, <2>6 DEF CallPlaces, Passed
    <3> QED BY <2>1, <2>2, <2>6, <3>1, GotoKeeps
  <2> QED BY <2>3, <2>4, <2>5, <2>6 DEF Actions
<1>5. CASE Access!HumanAnswers
  <2>1. /\ tcall.pc = "human" /\ "tool" \in allowed \ denied
        /\ tcall.deaf \/ "store" \notin denied
    BY <1>0, <1>5 DEF Access!HumanAnswers, Passed
  <2>2. "gate" \in CallPlaces /\ Passed("gate", tcall.human \/ tcall.pc = "human", tcall.deaf)
    BY <2>1 DEF CallPlaces, Passed
  <2> QED BY <1>5, <1>a, <2>1, <2>2, GotoKeeps DEF Access!HumanAnswers
<1>6. CASE Access!AskPolicies
  <2>1. tcall.pc = "gate" BY <1>6 DEF Access!AskPolicies
  <2>2. CASE Access!Goto("idle") BY <1>a, <2>1, <2>2, GotoKeeps
  <2>3. CASE Access!IsAllowed(tcall.tool, "agent") /\ Access!Goto("run")
    <3>1. "gate" \in Access!AllowNow(tcall) BY <2>3 DEF Access!AllowNow
    <3>2. "gate" \notin Access!DenyNow(tcall)
      BY <1>0, <2>3, AllowedIsNotDenied DEF Access!DenyNow
    <3>3. "gate" \in allowed \ denied BY <2>1, <3>1, <3>2 DEF AccessInv
    <3>4. Passed("run", tcall.human \/ tcall.pc = "human", tcall.deaf) BY <1>0, <2>1, <3>3 DEF Passed
    <3> QED BY <2>1, <2>3, <3>4, GotoKeeps DEF CallPlaces
  <2> QED BY <1>6, <2>2, <2>3 DEF Access!AskPolicies
<1>7. CASE Access!Run
  BY <1>7, <1>a, GotoKeeps DEF Access!Run
<1>8. CASE Access!GrantsUnread
  <2>1. /\ tcall.pc = "store" /\ tcall' = [tcall EXCEPT !.pc = "db", !.deaf = TRUE]
        /\ UNCHANGED <<engine, mode, explicit, grants, policies, lenient, denied, allowed>>
    BY <1>8 DEF Access!GrantsUnread
  <2>2. /\ AccessTyped' /\ tcall'.tool = tcall.tool /\ tcall'.arg = tcall.arg
        /\ tcall'.pc = "db" /\ tcall'.deaf /\ tcall'.human = tcall.human
    BY <1>0, <2>1 DEF AccessTyped, CallPlaces
  <2>3. /\ Access!DenyNow(tcall)' = Access!DenyNow(tcall)
        /\ Access!AllowNow(tcall)' = Access!AllowNow(tcall)
    BY <2>1, <2>2, SameView
  <2>4. Passed(tcall.pc, tcall.human, tcall.deaf)' BY <1>0, <2>1, <2>2 DEF Passed
  <2> QED BY <2>1, <2>2, <2>3, <2>4 DEF AccessInv
<1> QED BY <1>1, <1>2, <1>3, <1>4, <1>5, <1>6, <1>7, <1>8

\* Operators change what is said, and it is noted.
LEMMA OperatorsKeep ==
  ASSUME AccessInv,
         \/ Access!SetMode \/ Access!AddRule \/ Access!Grant \/ Access!Revoke
         \/ Access!AddPolicy \/ Access!RemovePolicy
  PROVE  AccessInv'
<1>1. /\ explicit' \subseteq Access!Added /\ grants' \subseteq Access!Grants
      /\ policies' \subseteq Access!Policies
  BY DEF AccessInv, AccessTyped, Access!SetMode, Access!AddRule, Access!Grant, Access!Revoke,
         Access!AddPolicy, Access!RemovePolicy
<1>2. Access!Noted
  BY DEF Access!SetMode, Access!AddRule, Access!Grant, Access!Revoke, Access!AddPolicy,
         Access!RemovePolicy
<1>3. /\ UNCHANGED <<engine, lenient, tcall>>
      /\ denied' = denied \cap Access!DenyNow(tcall)'
      /\ tcall.pc # "idle" => allowed' = allowed \cup Access!AllowNow(tcall)'
  BY <1>2 DEF Access!Noted
<1>4. AccessTyped' BY <1>1, <1>3 DEF AccessInv, AccessTyped
<1>5. Passed(tcall.pc, tcall.human, tcall.deaf)'
  <2>1. Passed(tcall.pc, tcall.human, tcall.deaf) /\ (tcall.pc # "idle" => denied' \subseteq denied /\ allowed \subseteq allowed')
    BY <1>3 DEF AccessInv
  <2>2. CASE tcall.pc = "idle" BY <1>3, <2>2 DEF Passed
  <2>3. CASE tcall.pc # "idle" BY <1>3, <2>1, <2>3 DEF Passed
  <2> QED BY <2>2, <2>3
<1>6. denied' \subseteq Gates BY <1>3 DEF AccessInv
<1>7. tcall'.pc # "idle" => denied' \subseteq Access!DenyNow(tcall)' /\ Access!AllowNow(tcall)' \subseteq allowed'
  BY <1>3
<1> QED BY <1>4, <1>5, <1>6, <1>7 DEF AccessInv

LEMMA AccessInit == Access!Init => AccessInv
<1> SUFFICES ASSUME Access!Init PROVE AccessInv OBVIOUS
<1>1. /\ Access!NoCall.pc = "idle"
      /\ Access!NoCall \in [pc : CallPlaces, tool : Access!Tools,
              arg : Access!Commands \cup Access!Paths \cup {"none"}, human : BOOLEAN, deaf : BOOLEAN]
  BY DEF Access!NoCall, CallPlaces, Access!Tools
<1>2. AccessTyped BY <1>1, EnginesAre DEF AccessTyped, Access!Init
<1> QED BY <1>1, <1>2 DEF AccessInv, Access!Init, Passed

LEMMA AccessKept == AccessInv /\ [ServicesNext]_servicevars => AccessInv'
<1> SUFFICES ASSUME AccessInv, [ServicesNext]_servicevars PROVE AccessInv'
  OBVIOUS
<1>1. CASE Access!Next
  BY <1>1, BeginKeeps, CallKeeps, OperatorsKeep DEF Access!Next
<1>2. CASE UNCHANGED accessvars
  <2>1. PICK q : q = tcall OBVIOUS
  <2>2. /\ Access!DenyNow(tcall)' = Access!DenyNow(tcall)
        /\ Access!AllowNow(tcall)' = Access!AllowNow(tcall)
    BY <1>2, <2>1, SameView DEF accessvars
  <2> QED BY <1>2, <2>2 DEF accessvars, AccessInv, AccessTyped, Passed
<1> QED BY <1>1, <1>2, OneMoves

\* A tool call runs only where each of those who must allow it, the engine about
\* the tool (policy/trust.go: Evaluate) and its argument (EvaluateCommand,
\* EvaluatePath) and the policies of the database (orchestrator/tool_policy.go:
\* IsAllowed), has allowed it since it began, or a human instead of the second,
\* and no deny of theirs has stood ever since: whatever an operator adds, revokes
\* or switches between any two questions, however many rules there are.  A grant
\* that denies counts among them (policy/store.go: Check) unless its query failed.
THEOREM AccessIsConsented == ServicesSpec => []ToolsAreConsented
<1>1. ServicesInit => AccessInv BY AccessInit DEF ServicesInit
<1>2. AccessInv => ToolsAreConsented
  <2> SUFFICES ASSUME AccessInv PROVE ToolsAreConsented OBVIOUS
  <2>1. Passed(tcall.pc, tcall.human, tcall.deaf) /\ denied \subseteq Gates BY DEF AccessInv
  <2>2. Access!AskedOfAll BY <2>1 DEF Passed, Access!AskedOfAll
  <2>3. Access!StandingDenyStops BY <2>1 DEF Passed, Access!StandingDenyStops, Gates
  <2> QED BY <2>2, <2>3 DEF ToolsAreConsented
<1> QED BY <1>1, <1>2, AccessKept, PTL DEF ServicesSpec

-----------------------------------------------------------------------------
(* The boot *)

\* What a hook that has run has left, unless the boot has failed: the database
\* comes before every hook that wants one, the gates before the tool registry,
\* and the seeded provider before the one that replaces it.
LeftBehind ==
  /\ "db_init" \notin pending => {"db", "memory"} \subseteq reg /\ (default # {} \/ "seed" \in refused)
  /\ "resolver" \notin pending => "guard" \in reg
  /\ \A h \in Boot!Managers \ Boot!Lenient : h \notin pending => h \in reg
  /\ "tools" \notin pending =>
       governed /\ "tools" \in reg /\ {"approval", "human", "memory"} \subseteq offered
  /\ "interaction" \notin pending => "db_init" \notin pending
  /\ "interaction" \notin pending /\ "test" \in config => "mock" \notin default \/ "switch" \in refused

BootInv ==
  /\ config \subseteq reg
  /\ phase \in {"wiring", "started", "failed"}
  /\ phase = "started" => pending = {}
  /\ phase # "failed" => LeftBehind

\* Who has run before whom.
LEMMA HooksBefore ==
  /\ \A h \in Boot!Managers \cup {"tools", "interaction"} : Boot!Priority["db_init"] > Boot!Priority[h]
  /\ \A h \in {"policies", "approvals", "humans"} : Boot!Priority[h] > Boot!Priority["tools"]
  /\ Boot!Priority["providers"] > Boot!Priority["interaction"]
  /\ \A h \in Boot!Hooks : Boot!Priority[h] \in Int
  /\ Boot!Managers \cup {"db_init", "tools", "interaction", "resolver"} \subseteq Boot!Hooks
BY DEF Boot!Priority, Boot!Hooks, Boot!Managers

LEMMA HasRun ==
  ASSUME NEW g \in Boot!Hooks, NEW h \in Boot!Hooks, Boot!Priority[g] > Boot!Priority[h], Boot!Turn(h)
  PROVE  g \notin pending
BY HooksBefore DEF Boot!Turn, Boot!First

\* A hook that leaves what others have left, and registers what it makes if it
\* is one of these, may take its turn.
LEMMA HookKeeps ==
  ASSUME BootInv, NEW h \in Boot!Hooks, Boot!Turn(h),
         UNCHANGED <<config, phase>>, reg \subseteq reg', offered \subseteq offered',
         refused \subseteq refused', default # {} => default' # {},
         h = "db_init" \/ ("mock" \notin default => "mock" \notin default'),
         h = "tools" \/ UNCHANGED governed,
         h = "db_init" => {"db", "memory"} \subseteq reg' /\ (default' # {} \/ "seed" \in refused'),
         h = "resolver" => "guard" \in reg',
         LeftBehind /\ h \in Boot!Managers \ Boot!Lenient => h \in reg',
         LeftBehind /\ h = "tools" =>
           governed' /\ "tools" \in reg' /\ {"approval", "human", "memory"} \subseteq offered',
         LeftBehind /\ h = "interaction" =>
           /\ "db_init" \notin pending
           /\ "test" \in config => "mock" \notin default' \/ "switch" \in refused'
  PROVE  BootInv'
<1>1. phase = "wiring" /\ pending' = pending \ {h} /\ LeftBehind
  BY DEF Boot!Turn, BootInv
<1>3. LeftBehind'
  <2>1. "db_init" \notin pending' =>
          {"db", "memory"} \subseteq reg' /\ (default' # {} \/ "seed" \in refused')
    BY <1>1 DEF LeftBehind, BootInv
  <2>2. "resolver" \notin pending' => "guard" \in reg' BY <1>1 DEF LeftBehind
  <2>3. \A g \in Boot!Managers \ Boot!Lenient : g \notin pending' => g \in reg' BY <1>1 DEF LeftBehind
  <2>4. "tools" \notin pending' =>
          governed' /\ "tools" \in reg' /\ {"approval", "human", "memory"} \subseteq offered'
    BY <1>1 DEF LeftBehind
  <2>5. "interaction" \notin pending' => "db_init" \notin pending'
    BY <1>1 DEF LeftBehind
  <2>6. "interaction" \notin pending' /\ "test" \in config' =>
          "mock" \notin default' \/ "switch" \in refused'
    <3>1. CASE h = "interaction" BY <1>1, <3>1
    <3>2. CASE h # "interaction"
      <4>1. "interaction" \notin pending' => "interaction" \notin pending /\ h # "db_init"
        BY <1>1, <3>2 DEF LeftBehind, Boot!Turn
      <4> QED BY <1>1, <4>1 DEF LeftBehind
    <3> QED BY <3>1, <3>2
  <2> QED BY <2>1, <2>2, <2>3, <2>4, <2>5, <2>6 DEF LeftBehind
<1> QED BY <1>1, <1>3 DEF BootInv

LEMMA BootKeeps ==
  ASSUME BootInv, Boot!Next
  PROVE  BootInv'
<1>a. {"db_init", "sse_route", "mcp_route", "auth", "resolver", "root_providers", "browser", "auditor",
       "tools", "mcp_tools", "interaction"} \subseteq Boot!Hooks /\ Boot!Managers \subseteq Boot!Hooks
  BY DEF Boot!Hooks, Boot!Priority, Boot!Managers
<1>b. /\ {"db_init", "sse_route", "mcp_route", "auth", "resolver", "root_providers", "browser",
          "auditor", "tools", "mcp_tools", "interaction"} \cap Boot!Managers = {}
      /\ {"policies", "approvals", "humans", "providers"} \subseteq Boot!Managers \ Boot!Lenient
  BY DEF Boot!Managers, Boot!Lenient
<1>1. CASE Boot!DbInit
  <2>1. CASE phase' = "failed"
    <3>1. UNCHANGED <<config, reg>> BY <1>1, <2>1 DEF Boot!DbInit, Boot!Turn
    <3> QED BY <2>1, <3>1 DEF BootInv
  <2>2. CASE "db" \in reg /\ reg' = reg \cup {"memory"} /\ Boot!Seed /\ UNCHANGED phase
    <3>1. Boot!Turn("db_init") /\ UNCHANGED <<config, offered, governed>> BY <1>1 DEF Boot!DbInit
    <3>2. /\ refused \subseteq refused' /\ (default # {} => default' # {})
          /\ default' # {} \/ "seed" \in refused'
      BY <2>2 DEF Boot!Seed
    <3> QED BY <1>a, <1>b, <2>2, <3>1, <3>2, HookKeeps
  <2> QED BY <1>1, <2>1, <2>2 DEF Boot!DbInit
<1>2. CASE Boot!SseRoute \/ Boot!McpRoute \/ Boot!AuthToken
  <2>1. PICK h \in {"sse_route", "mcp_route", "auth"} :
          /\ Boot!Turn(h) /\ UNCHANGED <<config, reg, governed, default, refused, phase>>
          /\ offered \subseteq offered'
    BY <1>2 DEF Boot!SseRoute, Boot!McpRoute, Boot!AuthToken, Boot!Routed
  <2> QED BY <1>a, <1>b, <2>1, HookKeeps
<1>3. CASE Boot!SecretsResolver
  BY <1>3, <1>a, <1>b, HookKeeps DEF Boot!SecretsResolver
<1>4. CASE Boot!RootProviders
  <2>1. Boot!Turn("root_providers") /\ UNCHANGED <<config, offered, governed, default, refused, phase>> /\ reg \subseteq reg'
    BY <1>4 DEF Boot!RootProviders
  <2> QED BY <1>a, <1>b, <2>1, HookKeeps
<1>5. ASSUME NEW h \in Boot!Managers, Boot!Manager(h) PROVE BootInv'
  <2>1. Boot!Turn(h) /\ UNCHANGED <<config, offered, governed, default, refused>> /\ h \in Boot!Hooks
    BY <1>5, <1>a DEF Boot!Manager
  <2>2. h \notin {"db_init", "resolver", "tools", "interaction"} BY <1>b
  <2>3. CASE phase' = "failed" /\ UNCHANGED reg BY <2>1, <2>3 DEF BootInv
  <2>4. CASE UNCHANGED phase /\ reg' = reg \cup {h} BY <2>1, <2>2, <2>4, HookKeeps
  <2>5. CASE UNCHANGED <<reg, phase>> /\ (h \in Boot!Lenient \/ "db" \notin reg)
    <3>1. "db_init" \notin pending BY <1>a, <2>1, HasRun, HooksBefore
    <3>2. LeftBehind => "db" \in reg BY <3>1 DEF LeftBehind
    <3> QED BY <2>1, <2>2, <2>5, <3>2, HookKeeps
  <2> QED BY <1>5, <2>3, <2>4, <2>5 DEF Boot!Manager
<1>6. CASE Boot!Browser \/ Boot!Auditor
  <2>1. PICK h \in {"browser", "auditor"} :
          Boot!Turn(h) /\ UNCHANGED <<config, offered, governed, default, refused, phase>> /\ reg \subseteq reg'
    BY <1>6 DEF Boot!Browser, Boot!Auditor, Boot!Plain
  <2> QED BY <1>a, <1>b, <2>1, HookKeeps
<1>7. CASE Boot!ToolRegistry
  <2>1. /\ Boot!Turn("tools") /\ UNCHANGED <<config, default, refused, phase>>
        /\ reg' = reg \cup {"tools"}
        /\ governed' = ("policies" \in reg)
        /\ offered' = offered \cup {g \in DOMAIN Boot!ToolNeeds : Boot!ToolNeeds[g] \subseteq reg}
    BY <1>7 DEF Boot!ToolRegistry
  <2>2. /\ "db_init" \notin pending
        /\ \A h \in {"policies", "approvals", "humans"} : h \notin pending
    <3>1. {"db_init", "tools", "policies", "approvals", "humans"} \subseteq Boot!Hooks BY <1>a, <1>b
    <3> QED BY <2>1, <3>1, HasRun, HooksBefore
  <2>3. LeftBehind => {"policies", "approvals", "humans", "memory"} \subseteq reg
    BY <1>b, <2>2 DEF LeftBehind
  <2>4. /\ {"approval", "human", "memory"} \subseteq DOMAIN Boot!ToolNeeds
        /\ Boot!ToolNeeds["approval"] = {"approvals"} /\ Boot!ToolNeeds["human"] = {"humans"}
        /\ Boot!ToolNeeds["memory"] = {"memory"}
    BY DEF Boot!ToolNeeds
  <2>5. LeftBehind => governed' /\ {"approval", "human", "memory"} \subseteq offered'
    BY <2>1, <2>3, <2>4
  <2> QED BY <1>a, <1>b, <2>1, <2>5, HookKeeps
<1>8. CASE Boot!McpTools
  <2>1. /\ Boot!Turn("mcp_tools") /\ UNCHANGED <<config, governed, default, refused, phase>>
        /\ reg \subseteq reg' /\ offered \subseteq offered'
    BY <1>8 DEF Boot!McpTools
  <2> QED BY <1>a, <1>b, <2>1, HookKeeps
<1>9. CASE Boot!TestInteraction
  <2>1. /\ Boot!Turn("interaction") /\ UNCHANGED <<config, reg, offered, governed, phase>>
        /\ refused \subseteq refused' /\ (default # {} => default' # {})
        /\ "mock" \notin default => "mock" \notin default'
    BY <1>9 DEF Boot!TestInteraction
  <2>2. "db_init" \notin pending /\ "providers" \notin pending
    <3>1. {"db_init", "interaction", "providers"} \subseteq Boot!Hooks BY <1>a, <1>b
    <3> QED BY <2>1, <3>1, HasRun, HooksBefore
  <2>3. LeftBehind => "providers" \in reg
    BY <1>b, <2>2 DEF LeftBehind
  <2>4. "test" \in config => "test" \in reg BY DEF BootInv
  <2>5. LeftBehind /\ "test" \in config => "mock" \notin default' \/ "switch" \in refused'
    BY <1>9, <2>3, <2>4 DEF Boot!TestInteraction
  <2> QED BY <1>a, <1>b, <2>1, <2>2, <2>5, HookKeeps
<1>10. CASE Boot!Start \/ Boot!StartVault \/ Boot!AskForSecrets
  <2>1. /\ UNCHANGED <<config, pending, reg, offered, governed, default, refused>>
        /\ phase' = phase \/ (phase = "wiring" /\ pending = {} /\ phase' = "started")
    BY <1>10 DEF Boot!Start, Boot!StartVault, Boot!AskForSecrets
  <2> QED BY <2>1 DEF BootInv, LeftBehind
<1> QED BY <1>1, <1>2, <1>3, <1>4, <1>5, <1>6, <1>7, <1>8, <1>9, <1>10 DEF Boot!Next

\* A boot that succeeds, whatever modules it is configured with and in whatever
\* order hooks of one priority run (orchestrator/plugin.go: wiring hooks), has
\* left no step without its service, has put the policy engine and both gates
\* into the tool registry, and has left some provider unless the INSERT of one was
\* refused, and no mock next to a test provider unless its UPDATE was.
THEOREM BootCompletes == ServicesSpec => []BootIsComplete
<1>1. ServicesInit => BootInv
  <2> SUFFICES ASSUME Boot!Init PROVE BootInv BY DEF ServicesInit
  <2>1. \A h \in Boot!Managers : h \in pending BY HooksBefore DEF Boot!Init
  <2>2. {"db_init", "tools", "interaction", "resolver"} \subseteq pending BY HooksBefore DEF Boot!Init
  <2> QED BY <2>1, <2>2 DEF BootInv, LeftBehind, Boot!Init
<1>2. BootInv /\ [ServicesNext]_servicevars => BootInv'
  <2> SUFFICES ASSUME BootInv, [ServicesNext]_servicevars PROVE BootInv'
    OBVIOUS
  <2>1. CASE Boot!Next BY <2>1, BootKeeps
  <2>2. CASE UNCHANGED bootvars BY <2>2 DEF bootvars, BootInv, LeftBehind
  <2> QED BY <2>1, <2>2, OneMoves
<1>3. BootInv => BootIsComplete
  <2> SUFFICES ASSUME BootInv, phase = "started"
               PROVE  BootIsComplete
    BY DEF BootIsComplete, Boot!StepsFindTheirServices, Boot!GatesAreInPlace, Boot!TestProviderIsDefault
  <2>1. LeftBehind /\ pending = {} BY DEF BootInv
  <2>2. Boot!Resolved \subseteq reg
    BY <2>1 DEF LeftBehind, Boot!Resolved, Boot!Managers, Boot!Lenient
  <2> QED BY <2>1, <2>2 DEF LeftBehind, BootIsComplete, Boot!StepsFindTheirServices,
       Boot!GatesAreInPlace, Boot!TestProviderIsDefault
<1> QED BY <1>1, <1>2, <1>3, PTL DEF ServicesSpec

-----------------------------------------------------------------------------
(* The event hub *)

PostType == [pc : {"idle", "store", "notify", "broadcast", "over"}, phase : {"", "design"}, time : Nat]
ListenerType == [pc : {"none", "on", "out", "close", "gone"}, key : {"", "design"},
                 listed : BOOLEAN, closes : 0 .. 2, queue : Seq(Artifacts), got : Seq(Artifacts)]

\* What a listener has been handed.
Told(r) == r.got \o r.queue

\* A channel on the list is open.  One that is off it is still open where its
\* owner has yet to close it, and closed once where somebody has: only the hub
\* takes others off, and only its clients.
ChannelIs(l, r) ==
  /\ r.closes < 2
  /\ r.listed => r.closes = 0 /\ r.pc \in {"on", "out"}
  /\ r.pc \in {"none", "close"} => r.closes = 0
  /\ r.pc \in {"on", "out"} /\ ~r.listed => l \in Clients

\* Whoever is told of an artifact is told after it was stored, subscribers before
\* its broadcast and clients with it, and is told once.
ToldFits(l, told) ==
  /\ Hub!IsInjective(told)
  /\ \A i \in DOMAIN told :
       /\ told[i] \in stored
       /\ post[told[i]].pc = "over" \/ (post[told[i]].pc = "broadcast" /\ l \notin Clients)

HubInv ==
  /\ post \in [Artifacts -> PostType] /\ stored \subseteq Artifacts /\ clock \in Nat
  /\ listener \in [Hub!Listeners -> ListenerType]
  /\ \A a \in Artifacts : post[a].pc \in {"notify", "broadcast"} => a \in stored
  /\ \A l \in Hub!Listeners : ChannelIs(l, listener[l]) /\ ToldFits(l, Told(listener[l]))

LEMMA ToldTyped ==
  ASSUME NEW r \in ListenerType
  PROVE  Told(r) \in Seq(Artifacts)
BY ConcatProperties DEF ListenerType, Told

LEMMA ConcatAppend ==
  ASSUME NEW S, NEW s \in Seq(S), NEW t \in Seq(S), NEW e \in S
  PROVE  s \o Append(t, e) = Append(s \o t, e)
OBVIOUS

LEMMA HeadMoves ==
  ASSUME NEW S, NEW s \in Seq(S), NEW t \in Seq(S), t # << >>
  PROVE  Append(s, Head(t)) \o Tail(t) = s \o t
<1>1. Head(t) \in S /\ Tail(t) \in Seq(S) /\ Len(t) > 0 /\ Len(Tail(t)) = Len(t) - 1
  BY HeadTailProperties
<1>2. Append(s, Head(t)) \o Tail(t) \in Seq(S) /\ s \o t \in Seq(S) BY <1>1
<1>3. Len(Append(s, Head(t)) \o Tail(t)) = Len(s \o t) BY <1>1
<1>4. \A i \in 1 .. Len(s \o t) : (Append(s, Head(t)) \o Tail(t))[i] = (s \o t)[i] BY <1>1
<1> QED BY <1>2, <1>3, <1>4, SeqEqual

LEMMA NothingTold ==
  ASSUME NEW l
  PROVE  ToldFits(l, << >>)
BY DEF ToldFits, Hub!IsInjective

\* Told of one more, a listener is still told once of each.
LEMMA ToldOfOneMore ==
  ASSUME NEW r \in ListenerType, NEW q \in ListenerType, NEW a \in Artifacts,
         q.got = r.got, q.queue = Append(r.queue, a),
         Hub!IsInjective(Told(r)), \A i \in DOMAIN Told(r) : Told(r)[i] # a
  PROVE  /\ Hub!IsInjective(Told(q))
         /\ \A i \in DOMAIN Told(q) : Told(q)[i] = a \/ \E j \in DOMAIN Told(r) : Told(q)[i] = Told(r)[j]
<1>1. Told(r) \in Seq(Artifacts) /\ r.got \in Seq(Artifacts) /\ r.queue \in Seq(Artifacts)
  BY ToldTyped DEF ListenerType
<1>2. Told(q) = Append(Told(r), a)
  <2>1. \A g, t \in Seq(Artifacts) : g \o Append(t, a) = Append(g \o t, a) BY ConcatAppend
  <2>2. r.got \o Append(r.queue, a) = Append(r.got \o r.queue, a) BY ONLY <1>1, <2>1, Zenon
  <2> QED BY <2>2 DEF Told
<1> DEFINE s == Told(r)
           t == Told(q)
<1>3. /\ DOMAIN s = 1 .. Len(s) /\ Len(s) \in Nat
      /\ DOMAIN t = 1 .. (Len(s) + 1) /\ t[Len(s) + 1] = a
      /\ \A i \in 1 .. Len(s) : t[i] = s[i]
  BY <1>1, <1>2
<1>4. Hub!IsInjective(s) /\ \A i \in DOMAIN s : s[i] # a OBVIOUS
<1> HIDE DEF s, t
<1>5. \A i \in DOMAIN t : i \in DOMAIN s \/ i = Len(s) + 1 BY <1>3
<1>6. Hub!IsInjective(t) BY <1>3, <1>4, <1>5 DEF Hub!IsInjective
<1>7. \A i \in DOMAIN t : t[i] = a \/ \E j \in DOMAIN s : t[i] = s[j] BY <1>3, <1>5
<1> QED BY <1>6, <1>7 DEF s, t

LEMMA ReceivedIsTold ==
  ASSUME NEW r \in ListenerType, r.queue # << >>
  PROVE  Append(r.got, Head(r.queue)) \o Tail(r.queue) = Told(r)
<1>1. r.got \in Seq(Artifacts) /\ r.queue \in Seq(Artifacts) BY DEF ListenerType
<1>2. Append(r.got, Head(r.queue)) \o Tail(r.queue) = r.got \o r.queue BY <1>1, HeadMoves
<1> QED BY <1>2 DEF Told

LEMMA NobodyIs ==
  /\ Hub!Nobody \in ListenerType /\ Hub!Nobody.pc = "none" /\ Hub!Nobody.listed = FALSE
  /\ Hub!Nobody.closes = 0 /\ Hub!Nobody.queue = << >> /\ Hub!Nobody.got = << >>
<1>1. << >> \in Seq(Artifacts) /\ 0 \in 0 .. 2 BY EmptySeq
<1>2. Hub!Nobody \in ListenerType BY <1>1 DEF Hub!Nobody, ListenerType
<1> QED BY <1>2 DEF Hub!Nobody

\* A listener that changes by itself.
LEMMA ListenerKeeps ==
  ASSUME HubInv, NEW l \in Hub!Listeners, NEW r \in ListenerType, Hub!Set(l, r),
         ChannelIs(l, r), Told(r) = Told(listener[l]) \/ Told(r) = << >>
  PROVE  HubInv'
<1>1. UNCHANGED <<post, stored, clock>> /\ listener' = [listener EXCEPT ![l] = r]
  BY DEF Hub!Set
<1>2. /\ listener' \in [Hub!Listeners -> ListenerType]
      /\ \A k \in Hub!Listeners : listener'[k] = IF k = l THEN r ELSE listener[k]
  BY <1>1 DEF HubInv
<1>3. ASSUME NEW k \in Hub!Listeners
      PROVE  ChannelIs(k, listener'[k]) /\ ToldFits(k, Told(listener[k]))'
  <2>1. ChannelIs(k, listener[k]) /\ ToldFits(k, Told(listener[k])) BY DEF HubInv
  <2>2. PICK told : told = Told(listener'[k]) OBVIOUS
  <2>3. ToldFits(k, told) /\ ChannelIs(k, listener'[k])
    <3>1. CASE k # l BY <1>2, <2>1, <2>2, <3>1
    <3>2. CASE k = l BY <1>2, <2>1, <2>2, <3>2, NothingTold
    <3> QED BY <3>1, <3>2
  <2>4. told = Told(listener[k])' BY <2>2 DEF Told
  <2> QED BY <1>1, <2>3, <2>4 DEF ToldFits
<1> QED BY <1>1, <1>2, <1>3 DEF HubInv

\* Artifact a is handed to listeners on the list, who had not been told of it.
LEMMA HandingKeeps ==
  ASSUME HubInv, NEW a \in Artifacts, NEW next \in {"broadcast", "over"},
         post' = [post EXCEPT ![a].pc = next], UNCHANGED <<stored, clock>>,
         post[a].pc = IF next = "over" THEN "broadcast" ELSE "notify",
         NEW L \in SUBSET Hub!Listeners,
         \A l \in L : listener[l].listed /\ (l \in Clients <=> next = "over"),
         listener' = [l \in Hub!Listeners |-> IF l \in L THEN Hub!Queued(l, a) ELSE listener[l]]
  PROVE  HubInv'
<1>1. /\ post' \in [Artifacts -> PostType] /\ post'[a].pc = next
      /\ \A b \in Artifacts \ {a} : post'[b] = post[b]
      /\ a \in stored
  BY DEF HubInv, PostType
<1>2. \A b \in Artifacts : post'[b].pc \in {"notify", "broadcast"} => b \in stored'
  BY <1>1 DEF HubInv
<1>3. ASSUME NEW l \in Hub!Listeners
      PROVE  /\ listener'[l] \in ListenerType
             /\ ChannelIs(l, listener'[l]) /\ ToldFits(l, Told(listener[l]))'
  <2>1. /\ listener[l] \in ListenerType /\ ChannelIs(l, listener[l])
        /\ ToldFits(l, Told(listener[l]))
    BY DEF HubInv
  <2>2. PICK r : r = listener'[l] OBVIOUS
  <2>3. PICK told : told = Told(r) OBVIOUS
  <2>4. told = Told(listener[l])' BY <2>2, <2>3 DEF Told
\* What it was told before is all right still.
  <2>5. \A i \in DOMAIN Told(listener[l]) :
          /\ Told(listener[l])[i] \in Artifacts /\ Told(listener[l])[i] \in stored'
          /\ \/ post'[Told(listener[l])[i]].pc = "over"
             \/ post'[Told(listener[l])[i]].pc = "broadcast" /\ l \notin Clients
    <3> SUFFICES ASSUME NEW i \in DOMAIN Told(listener[l])
                 PROVE  /\ Told(listener[l])[i] \in Artifacts /\ Told(listener[l])[i] \in stored'
                        /\ \/ post'[Told(listener[l])[i]].pc = "over"
                           \/ post'[Told(listener[l])[i]].pc = "broadcast" /\ l \notin Clients
      OBVIOUS
    <3>1. PICK b : b = Told(listener[l])[i] OBVIOUS
    <3>2. /\ b \in stored /\ b \in Artifacts
          /\ post[b].pc = "over" \/ (post[b].pc = "broadcast" /\ l \notin Clients)
      BY <2>1, <3>1 DEF ToldFits, HubInv
    <3>3. CASE b = a BY <1>1, <3>1, <3>2, <3>3
    <3>4. CASE b # a BY <1>1, <3>1, <3>2, <3>4
    <3> QED BY <3>3, <3>4
  <2>6. CASE l \notin L
    <3>1. r = listener[l] BY <2>2, <2>6
    <3>2. told = Told(listener[l]) BY <2>3, <3>1
    <3>3. Hub!IsInjective(told) BY <2>1, <3>2 DEF ToldFits
    <3>4. ToldFits(l, Told(listener[l]))' BY <2>4, <2>5, <3>2, <3>3 DEF ToldFits
    <3> QED BY <2>1, <2>2, <3>1, <3>4
  <2>7. CASE l \in L
    <3>1. /\ r = Hub!Queued(l, a) /\ listener[l].listed /\ listener[l].closes = 0
      BY <2>1, <2>2, <2>7 DEF ChannelIs
    <3>2. /\ r.closes = 0 /\ r.got = listener[l].got /\ r.pc = listener[l].pc
          /\ r.listed = listener[l].listed /\ r \in ListenerType
          /\ r.queue = listener[l].queue \/ r.queue = Append(listener[l].queue, a)
      <4> DEFINE longer == Append(listener[l].queue, a)
                 queue == IF Len(listener[l].queue) < QueueSize THEN longer ELSE listener[l].queue
             closes == IF listener[l].closes > 0 THEN 2 ELSE listener[l].closes
      <4>1. listener[l].queue \in Seq(Artifacts) BY <2>1 DEF ListenerType
      <4>2. r = [listener[l] EXCEPT !.queue = queue, !.closes = closes]
        BY <3>1 DEF Hub!Queued
      <4>5. closes = 0 BY <3>1
      <4>3. longer \in Seq(Artifacts) BY <4>1, AppendProperties
      <4>4. queue \in Seq(Artifacts) /\ (queue = listener[l].queue \/ queue = longer)
        BY <4>1, <4>3
      <4> HIDE DEF queue, longer, closes
      <4>6. r \in ListenerType
        <5>1. closes \in 0 .. 2 BY <4>5
        <5> QED BY <2>1, <4>2, <4>4, <5>1 DEF ListenerType
      <4>7. /\ r.closes = closes /\ r.got = listener[l].got /\ r.pc = listener[l].pc
            /\ r.listed = listener[l].listed /\ r.queue = queue
        BY <2>1, <4>2 DEF ListenerType
      <4> QED BY <4>4, <4>5, <4>6, <4>7 DEF longer
    <3>3. ChannelIs(l, r) BY <2>1, <3>1, <3>2 DEF ChannelIs
    <3>4. \A i \in DOMAIN Told(listener[l]) : Told(listener[l])[i] # a
      BY <2>1, <2>7 DEF ToldFits
    <3>5. CASE r.queue = listener[l].queue
      <4>1. told = Told(listener[l]) BY <2>3, <3>2, <3>5 DEF Told
      <4>2. ToldFits(l, Told(listener[l]))' BY <2>1, <2>4, <2>5, <4>1 DEF ToldFits
      <4> QED BY <2>2, <3>2, <3>3, <4>2
    <3>6. CASE r.queue = Append(listener[l].queue, a)
      <4>1. /\ Hub!IsInjective(told)
            /\ \A i \in DOMAIN told :
                 told[i] = a \/ \E j \in DOMAIN Told(listener[l]) : told[i] = Told(listener[l])[j]
        BY <2>1, <2>3, <3>2, <3>4, <3>6, ToldOfOneMore DEF ToldFits
      <4>2. \A i \in DOMAIN told :
              /\ told[i] \in stored'
              /\ post'[told[i]].pc = "over" \/ (post'[told[i]].pc = "broadcast" /\ l \notin Clients)
        BY <1>1, <2>5, <2>7, <4>1
      <4>3. ToldFits(l, Told(listener[l]))' BY <2>4, <4>1, <4>2 DEF ToldFits
      <4> QED BY <2>2, <3>2, <3>3, <4>3
    <3> QED BY <3>2, <3>5, <3>6
  <2> QED BY <2>6, <2>7
<1>4. listener' \in [Hub!Listeners -> ListenerType] BY <1>3
<1> QED BY <1>1, <1>2, <1>3, <1>4 DEF HubInv

\* An artifact nobody has been told of comes to be stored, or not.
LEMMA PosterKeeps ==
  ASSUME HubInv, NEW a \in Artifacts, Hub!Post(a) \/ Hub!Store(a)
  PROVE  HubInv'
<1>1. /\ post[a].pc \in {"idle", "store"} /\ UNCHANGED listener
      /\ stored \subseteq stored' /\ stored' \subseteq Artifacts /\ clock' \in Nat
      /\ post' \in [Artifacts -> PostType]
      /\ \A b \in Artifacts \ {a} : post'[b] = post[b]
      /\ post'[a].pc = "notify" => a \in stored'
      /\ post'[a].pc # "broadcast"
  <2>1. CASE Hub!Post(a)
    <3>4. post[a] \in PostType /\ clock + 1 \in Nat BY DEF HubInv
    <3>5. PICK rec : rec = [post[a] EXCEPT !.pc = "store", !.time = clock + 1] OBVIOUS
    <3>1. rec \in PostType /\ rec.pc = "store" BY <3>4, <3>5 DEF PostType
    <3>2. post' = [post EXCEPT ![a] = rec] BY <2>1, <3>5 DEF Hub!Post
    <3>3. post[a].pc = "idle" /\ clock' = clock + 1 /\ UNCHANGED <<stored, listener>>
      BY <2>1 DEF Hub!Post
    <3> QED BY <3>1, <3>2, <3>3 DEF HubInv
  <2>2. CASE Hub!Store(a)
    <3>1. PICK pc \in {"notify", "over"} :
            /\ post' = [post EXCEPT ![a].pc = pc]
            /\ stored' = IF pc = "notify" THEN stored \cup {a} ELSE stored
      BY <2>2 DEF Hub!Store
    <3> DEFINE rec == [post[a] EXCEPT !.pc = pc]
    <3>2. rec \in PostType /\ rec.pc = pc BY DEF HubInv, PostType
    <3>3. post' = [post EXCEPT ![a] = rec] BY <3>1
    <3> HIDE DEF rec
    <3>4. post[a].pc = "store" /\ UNCHANGED <<clock, listener>> BY <2>2 DEF Hub!Store
    <3> QED BY <3>1, <3>2, <3>3, <3>4 DEF HubInv
  <2> QED BY <2>1, <2>2
<1>2. ASSUME NEW l \in Hub!Listeners
      PROVE  ToldFits(l, Told(listener[l]))'
  <2>1. ToldFits(l, Told(listener[l])) BY DEF HubInv
  <2>2. PICK told : told = Told(listener[l]) OBVIOUS
  <2>3. told = Told(listener[l])' BY <1>1, <2>2 DEF Told
  <2>4. \A i \in DOMAIN told : told[i] \in stored' /\ post'[told[i]] = post[told[i]]
    <3> SUFFICES ASSUME NEW i \in DOMAIN told
                 PROVE  told[i] \in stored' /\ post'[told[i]] = post[told[i]]
      OBVIOUS
    <3>1. told[i] \in stored /\ told[i] \in Artifacts /\ told[i] # a
      BY <1>1, <2>1, <2>2 DEF ToldFits, HubInv
    <3> QED BY <1>1, <3>1
  <2> QED BY <2>1, <2>2, <2>3, <2>4 DEF ToldFits
<1>3. \A b \in Artifacts : post'[b].pc \in {"notify", "broadcast"} => b \in stored'
  BY <1>1 DEF HubInv
<1> QED BY <1>1, <1>2, <1>3 DEF HubInv

LEMMA HubKeeps ==
  ASSUME HubInv, Hub!Next
  PROVE  HubInv'
<1>1. ASSUME NEW a \in Artifacts, Hub!Notify(a) PROVE HubInv'
  <2> DEFINE L == {l \in Hub!Listeners : Hub!Sent(a, l) /\ listener[l].listed}
  <2>1. /\ post[a].pc = "notify" /\ post' = [post EXCEPT ![a].pc = "broadcast"]
        /\ UNCHANGED <<stored, clock>>
        /\ listener' = [l \in Hub!Listeners |-> IF l \in L THEN Hub!Queued(l, a) ELSE listener[l]]
    BY <1>1 DEF Hub!Notify
  <2>2. \A l \in L : listener[l].listed /\ l \notin Clients
    BY ServicesAssumption DEF Hub!Sent
  <2> HIDE DEF L
  <2>3. L \in SUBSET Hub!Listeners BY DEF L
  <2> QED BY <2>1, <2>2, <2>3, HandingKeeps
<1>2. ASSUME NEW a \in Artifacts, Hub!Broadcast(a) PROVE HubInv'
  <2> DEFINE L == {l \in Hub!Listeners : l \in Clients /\ listener[l].listed}
  <2>1. /\ post[a].pc = "broadcast" /\ post' = [post EXCEPT ![a].pc = "over"]
        /\ UNCHANGED <<stored, clock>>
        /\ listener' = [l \in Hub!Listeners |-> IF l \in L THEN Hub!Queued(l, a) ELSE listener[l]]
    BY <1>2 DEF Hub!Broadcast
  <2>2. \A l \in L : listener[l].listed /\ l \in Clients OBVIOUS
  <2> HIDE DEF L
  <2>3. L \in SUBSET Hub!Listeners BY DEF L
  <2> QED BY <2>1, <2>2, <2>3, HandingKeeps
<1>3. ASSUME NEW l \in Hub!Listeners, Hub!Listen(l) PROVE HubInv'
  <2>1. PICK want :
          /\ want \in {"", "design"}
          /\ Hub!Set(l, [Hub!Nobody EXCEPT !.pc = "on", !.listed = TRUE, !.key = want])
    BY <1>3 DEF Hub!Listen
  <2>2. PICK r : r = [Hub!Nobody EXCEPT !.pc = "on", !.listed = TRUE, !.key = want] OBVIOUS
  <2>3. Hub!Set(l, r) BY <2>1, <2>2
  <2>4. r \in ListenerType /\ r.queue = << >> /\ r.got = << >>
    BY <2>1, <2>2, NobodyIs DEF ListenerType
  <2>5. r.pc = "on" /\ r.listed = TRUE /\ r.closes = 0 BY <2>2, NobodyIs DEF ListenerType
  <2>7. ChannelIs(l, r) BY <2>5 DEF ChannelIs
  <2>8. Told(r) = << >>
    <3>1. << >> \in Seq(Artifacts) BY EmptySeq
    <3> QED BY <2>4, <3>1, ConcatEmptySeq DEF Told
  <2> QED BY <2>3, <2>4, <2>7, <2>8, ListenerKeeps
<1>4. ASSUME NEW l \in Hub!Listeners, Hub!Receive(l) PROVE HubInv'
  <2>1. listener[l] \in ListenerType /\ ChannelIs(l, listener[l]) BY DEF HubInv
  <2>2. /\ listener[l].pc = "on" /\ listener[l].queue # << >>
        /\ Hub!Set(l, [listener[l] EXCEPT !.queue = Tail(listener[l].queue),
                                         !.got = Append(listener[l].got, Head(listener[l].queue))])
    BY <1>4 DEF Hub!Receive
  <2> DEFINE rest == Tail(listener[l].queue)
             more == Append(listener[l].got, Head(listener[l].queue))
             r == [listener[l] EXCEPT !.queue = rest, !.got = more]
  <2>3. listener[l].got \in Seq(Artifacts) /\ listener[l].queue \in Seq(Artifacts)
    BY <2>1 DEF ListenerType
  <2>4. rest \in Seq(Artifacts) /\ Head(listener[l].queue) \in Artifacts
    BY <2>2, <2>3, HeadTailProperties
  <2>5. more \in Seq(Artifacts) BY <2>3, <2>4, AppendProperties
  <2>6. more \o rest = Told(listener[l]) BY <2>1, <2>2, ReceivedIsTold
  <2>7. Hub!Set(l, r) BY <2>2
  <2> HIDE DEF more, rest
  <2>8. /\ r \in ListenerType /\ r.queue = rest /\ r.got = more /\ r.pc = listener[l].pc
        /\ r.listed = listener[l].listed /\ r.closes = listener[l].closes
    BY <2>1, <2>4, <2>5 DEF ListenerType
  <2> HIDE DEF r
  <2>9. ChannelIs(l, r) BY <2>1, <2>8 DEF ChannelIs
  <2>10. Told(r) = Told(listener[l]) BY <2>6, <2>8 DEF Told
  <2> QED BY <2>7, <2>8, <2>9, <2>10, ListenerKeeps
<1>5. ASSUME NEW l \in Hub!Listeners, Hub!Leave(l) PROVE HubInv'
  <2>1. listener[l] \in ListenerType /\ ChannelIs(l, listener[l]) BY DEF HubInv
  <2> DEFINE r == [listener[l] EXCEPT !.pc = "out"]
  <2>2. listener[l].pc = "on" /\ Hub!Set(l, r) BY <1>5 DEF Hub!Leave
  <2>3. /\ r \in ListenerType /\ r.queue = listener[l].queue /\ r.got = listener[l].got
        /\ r.pc = "out" /\ r.listed = listener[l].listed /\ r.closes = listener[l].closes
    BY <2>1 DEF ListenerType
  <2> HIDE DEF r
  <2>4. ChannelIs(l, r) BY <2>1, <2>2, <2>3 DEF ChannelIs
  <2>5. Told(r) = Told(listener[l]) BY <2>3 DEF Told
  <2> QED BY <2>2, <2>3, <2>4, <2>5, ListenerKeeps
<1>6. ASSUME NEW l \in Hub!Listeners, Hub!Unlist(l) PROVE HubInv'
  <2>1. listener[l] \in ListenerType /\ ChannelIs(l, listener[l]) BY DEF HubInv
  <2> DEFINE next == IF l \in Clients /\ ~listener[l].listed THEN "gone" ELSE "close"
             r == [listener[l] EXCEPT !.listed = FALSE, !.pc = next]
  <2>2. listener[l].pc = "out" /\ Hub!Set(l, r) BY <1>6 DEF Hub!Unlist
  <2>3. next \in {"gone", "close"} /\ (next = "close" => l \notin Clients \/ listener[l].listed)
    OBVIOUS
  <2> HIDE DEF next
  <2>4. /\ r \in ListenerType /\ r.queue = listener[l].queue /\ r.got = listener[l].got
        /\ r.pc = next /\ r.listed = FALSE /\ r.closes = listener[l].closes
    BY <2>1, <2>3 DEF ListenerType
  <2> HIDE DEF r
  <2>5. ChannelIs(l, r) BY <2>1, <2>2, <2>3, <2>4 DEF ChannelIs
  <2>6. Told(r) = Told(listener[l]) BY <2>4 DEF Told
  <2> QED BY <2>2, <2>4, <2>5, <2>6, ListenerKeeps
<1>7. ASSUME NEW l \in Hub!Listeners, Hub!CloseChannel(l) PROVE HubInv'
  <2>1. listener[l] \in ListenerType /\ ChannelIs(l, listener[l]) BY DEF HubInv
  <2> DEFINE r == [listener[l] EXCEPT !.pc = "gone", !.closes = 1, !.queue = << >>, !.got = << >>]
  <2>2. listener[l].pc = "close" /\ listener[l].closes = 0 /\ ~listener[l].listed
    BY <1>7, <2>1 DEF Hub!CloseChannel, ChannelIs
  <2>3. Hub!Set(l, [listener[l] EXCEPT !.pc = "gone",
                      !.closes = IF listener[l].closes < 2 THEN listener[l].closes + 1 ELSE listener[l].closes,
                      !.queue = << >>, !.got = << >>])
    BY <1>7 DEF Hub!CloseChannel
  <2>4. (IF listener[l].closes < 2 THEN listener[l].closes + 1 ELSE listener[l].closes) = 1
    BY <2>2
  <2>5. Hub!Set(l, r) BY <2>3, <2>4
  <2>6. << >> \in Seq(Artifacts) /\ 1 \in 0 .. 2 BY EmptySeq
  <2>7. r \in ListenerType BY <2>1, <2>6 DEF ListenerType
  <2>8. r.pc = "gone" /\ r.listed = listener[l].listed /\ r.closes = 1 /\ r.queue = << >> /\ r.got = << >>
    BY <2>1 DEF ListenerType
  <2> HIDE DEF r
  <2>9. ChannelIs(l, r) BY <2>2, <2>8 DEF ChannelIs
  <2>10. Told(r) = << >> BY <2>6, <2>8, ConcatEmptySeq DEF Told
  <2> QED BY <2>5, <2>7, <2>9, <2>10, ListenerKeeps
<1>8. ASSUME Hub!Stop PROVE HubInv'
  <2> DEFINE shut(l) == [listener[l] EXCEPT !.listed = FALSE, !.closes = @ + 1]
  <2>1. /\ UNCHANGED <<post, stored, clock>>
        /\ listener' = [l \in Hub!Listeners |->
                          IF l \in Clients /\ listener[l].listed THEN shut(l) ELSE listener[l]]
    BY <1>8 DEF Hub!Stop
  <2>2. ASSUME NEW l \in Hub!Listeners
        PROVE  /\ listener'[l] \in ListenerType /\ ChannelIs(l, listener'[l])
               /\ Told(listener'[l]) = Told(listener[l])
    <3>1. listener[l] \in ListenerType /\ ChannelIs(l, listener[l]) BY DEF HubInv
    <3>2. CASE l \in Clients /\ listener[l].listed
      <4>1. listener[l].closes = 0 BY <3>1, <3>2 DEF ChannelIs
      <4>2. listener[l].closes + 1 = 1 /\ 1 \in 0 .. 2 BY <4>1
      <4>3. PICK r : r = [listener[l] EXCEPT !.listed = FALSE, !.closes = 1] OBVIOUS
      <4>4. listener'[l] = r BY <2>1, <3>2, <4>2, <4>3
      <4>5. /\ r \in ListenerType /\ r.closes = 1 /\ r.listed = FALSE /\ r.pc = listener[l].pc
            /\ r.queue = listener[l].queue /\ r.got = listener[l].got
        BY <3>1, <4>2, <4>3 DEF ListenerType
      <4>6. ChannelIs(l, r) BY <3>1, <3>2, <4>5 DEF ChannelIs
      <4> QED BY <4>4, <4>5, <4>6 DEF Told
    <3>3. CASE ~(l \in Clients /\ listener[l].listed)
      <4>1. listener'[l] = listener[l] BY <2>1, <3>3
      <4> QED BY <3>1, <4>1
    <3> QED BY <3>2, <3>3
  <2>3. ASSUME NEW l \in Hub!Listeners PROVE ToldFits(l, Told(listener[l]))'
    <3>1. ToldFits(l, Told(listener[l])) BY DEF HubInv
    <3>2. PICK told : told = Told(listener[l]) OBVIOUS
    <3>3. told = Told(listener[l])' BY <2>2, <3>2 DEF Told
    <3> QED BY <2>1, <3>1, <3>2, <3>3 DEF ToldFits
  <2>4. listener' \in [Hub!Listeners -> ListenerType] BY <2>1, <2>2
  <2> QED BY <2>1, <2>2, <2>3, <2>4 DEF HubInv
<1>9. CASE Hub!ReadLatest
  <2>1. UNCHANGED <<post, stored, clock, listener>> BY <1>9 DEF Hub!ReadLatest
  <2> QED BY <2>1 DEF HubInv, ToldFits, Told
<1> QED BY <1>1, <1>2, <1>3, <1>4, <1>5, <1>6, <1>7, <1>8, <1>9, PosterKeeps DEF Hub!Next

\* However listeners come and leave and artifacts are stored, sent and broadcast
\* while the hub is stopped (orchestrator/module_sse_hub.go, blackboard.go), no
\* channel is closed twice or sent to when closed, and nobody is told twice of an
\* artifact, nor of one that was not stored: for any queue and any listeners.
THEOREM ListenersAreToldOnce == ServicesSpec => []ToldOnce
<1>1. ServicesInit => HubInv
  <2> SUFFICES ASSUME Hub!Init PROVE HubInv BY DEF ServicesInit
  <2>1. << >> \in Seq(Artifacts) BY EmptySeq
  <2>4. Told(Hub!Nobody) = << >> BY <2>1, NobodyIs, ConcatEmptySeq DEF Told
  <2>5. \A l : ChannelIs(l, Hub!Nobody) BY NobodyIs DEF ChannelIs
  <2>6. listener \in [Hub!Listeners -> ListenerType] /\ \A l \in Hub!Listeners : listener[l] = Hub!Nobody
    BY NobodyIs DEF Hub!Init
  <2>7. post \in [Artifacts -> PostType] /\ \A a \in Artifacts : post[a].pc = "idle"
    <3>1. ASSUME NEW r \in [pc : {"idle"}, phase : {"", "design"}, time : {0}]
          PROVE  r \in PostType /\ r.pc = "idle"
      <4>1. r.pc = "idle" /\ r.phase \in {"", "design"} /\ r.time = 0
        OBVIOUS
      <4>2. r = [pc |-> "idle", phase |-> r.phase, time |-> 0] BY <4>1
      <4>3. \A f \in {"", "design"} : [pc |-> "idle", phase |-> f, time |-> 0] \in PostType
        BY DEF PostType
      <4>4. r \in PostType BY ONLY <4>1, <4>2, <4>3, Zenon
      <4> QED BY <4>1, <4>4
    <3>2. post \in [Artifacts -> [pc : {"idle"}, phase : {"", "design"}, time : {0}]]
      BY DEF Hub!Init
    <3>3. \A a \in Artifacts : post[a] \in PostType /\ post[a].pc = "idle" BY <3>1, <3>2, Zenon
    <3> QED BY <3>2, <3>3
  <2>8. \A l \in Hub!Listeners : ToldFits(l, Told(listener[l]))
    BY <2>4, <2>6, NothingTold
  <2> QED BY <2>5, <2>6, <2>7, <2>8 DEF HubInv, Hub!Init
<1>2. HubInv /\ [ServicesNext]_servicevars => HubInv'
  <2> SUFFICES ASSUME HubInv, [ServicesNext]_servicevars PROVE HubInv'
    OBVIOUS
  <2>1. CASE Hub!Next BY <2>1, HubKeeps
  <2>2. CASE UNCHANGED hubvars BY <2>2 DEF hubvars, HubInv, ToldFits, Told
  <2> QED BY <2>1, <2>2, OneMoves
<1>3. HubInv => ToldOnce
  <2> SUFFICES ASSUME HubInv, NEW l \in Hub!Listeners
               PROVE  /\ listener[l].closes < 2 /\ (listener[l].listed => listener[l].closes = 0)
                      /\ Hub!IsInjective(Told(listener[l]))
                      /\ \A i \in DOMAIN Told(listener[l]) : Told(listener[l])[i] \in stored
    BY DEF ToldOnce, Hub!ChannelsHoldUp, Hub!ToldOnce, Told
  <2> QED BY DEF HubInv, ChannelIs, ToldFits
<1> QED BY <1>1, <1>2, <1>3, PTL DEF ServicesSpec

-----------------------------------------------------------------------------
(* The model files and the vault configuration *)

PullType == [pc : Model!Pcs, from : Nat, next : Nat, append : BOOLEAN, file : {"part", "dest", "gone"}]

\* The first blocks of the file, in their order.
Begun(f) == f \in Seq(Nat) /\ Len(f) <= NBlocks /\ \A i \in 1 .. Len(f) : f[i] = i

\* Where a download is that is the only one: it saw the size the .part file has,
\* and writes its next block at the end of it.
PullFits(r) ==
  /\ r.pc = "open" => r.from = Model!Size(part) /\ r.file = "part"
  /\ r.pc = "copy" => r.file = "part" /\ part # Model!Absent /\ r.next = Len(part) + 1

\* As long as no two downloads were under way at once, the .part file is a
\* beginning of the file, and so is the one in the cache, all of it where lengths
\* are stated; there is none while one downloads it.
OneDownload ==
  /\ pull \in [Pulls -> PullType]
  /\ \A p, q \in Model!Underway : p = q
  /\ part = Model!Absent \/ Begun(part)
  /\ dest = Model!Absent \/ (Begun(dest) /\ (sized => dest = Model!Whole) /\ Model!Underway = {})
  /\ \A p \in Pulls : PullFits(pull[p])

UserType == [pc : {"rest", "key", "make", "write", "use", "fill"}, job : {"none", "save", "load"},
             token : Int, key : Int]

\* A key is made only where no token needs another, and the one a save got is
\* the one the key file has.
UserFits(r) ==
  /\ r.pc \in {"make", "write"} => file.token <= 0
  /\ r.pc \in {"use", "fill"} /\ r.token > 0 => r.key = keyfile /\ keyfile # Vault!NoKey

\* As long as no two were at it at once, a file that is not cut holds the token
\* saved last, under the key in the key file.
OneUser ==
  /\ user \in [Users -> UserType]
  /\ file \in [token : Int, key : Int] /\ keyfile \in Int /\ uses \in Nat /\ saved \in Int
  /\ \A u, v \in Vault!Busy : u = v
  /\ file = Vault!Cut \/ file.token = saved
  /\ file.token > 0 => file.key = keyfile /\ keyfile # Vault!NoKey
  /\ \A u \in Users : UserFits(user[u])

FilesInv == (~twice => OneDownload) /\ (~crowded => OneUser)

LEMMA NoBeginning == ~Begun(Model!Absent) /\ Model!Absent # << >>
<1>1. Model!Absent[1] = -1 /\ Len(Model!Absent) = 1 BY DEF Model!Absent
<1>2. 1 \in 1 .. Len(Model!Absent) /\ Model!Absent[1] # 1 BY <1>1
<1>3. Len(<< >>) = 0 OBVIOUS
<1> QED BY <1>1, <1>2, <1>3 DEF Begun

LEMMA BegunIsPrefix ==
  ASSUME NEW f, Begun(f)
  PROVE  Model!IsPrefix(f, Model!Whole)
<1>1. f \in Seq(Nat) /\ Len(f) \in Nat /\ Len(f) <= NBlocks /\ \A i \in 1 .. Len(f) : f[i] = i
  BY DEF Begun
<1>2. Len(Model!Whole) = NBlocks /\ Model!Whole \in Seq(Nat) BY ServicesAssumption DEF Model!Whole
<1>3. \A i \in 1 .. Len(f) : Model!Whole[i] = i BY <1>1, ServicesAssumption DEF Model!Whole
<1>4. SubSeq(f, 1, Len(f)) = [i \in 1 .. Len(f) |-> i] BY <1>1
<1>5. SubSeq(Model!Whole, 1, Len(f)) = [i \in 1 .. Len(f) |-> i] BY <1>1, <1>2, <1>3
<1> QED BY <1>1, <1>2, <1>4, <1>5 DEF Model!IsPrefix

LEMMA NothingIsBegun == Begun(<< >>) /\ Len(<< >>) = 0
BY ServicesAssumption, EmptySeq DEF Begun

LEMMA AllBlocks ==
  ASSUME NEW f, Begun(f), Len(f) = NBlocks
  PROVE  f = Model!Whole
<1>1. f \in Seq(Nat) /\ \A i \in 1 .. NBlocks : f[i] = i BY DEF Begun
<1>2. f = [i \in 1 .. NBlocks |-> f[i]] BY <1>1
<1> QED BY <1>1, <1>2 DEF Model!Whole

\* The next block goes on with what is begun, appended or written past the end.
LEMMA OneMoreBlock ==
  ASSUME NEW f, Begun(f), NEW n, n = Len(f) + 1, n <= NBlocks
  PROVE  /\ Begun(Append(f, n)) /\ Len(Append(f, n)) = n
         /\ Begun(Model!WriteAt(f, n, n)) /\ Len(Model!WriteAt(f, n, n)) = n
<1>1. /\ f \in Seq(Nat) /\ Len(f) \in Nat /\ n \in Nat /\ n > 0 /\ NBlocks \in Nat
      /\ \A i \in 1 .. Len(f) : f[i] = i
  BY ServicesAssumption DEF Begun
<1>2. Append(f, n) \in Seq(Nat) /\ Len(Append(f, n)) = n /\ \A i \in 1 .. n : Append(f, n)[i] = i
  BY <1>1
<1>3. Begun(Append(f, n)) BY <1>2 DEF Begun
<1> DEFINE g == [k \in 1 .. n |-> IF k = n THEN n ELSE IF k <= Len(f) THEN f[k] ELSE 0]
<1>4. Model!WriteAt(f, n, n) = g
  <2>1. n > Len(f) BY <1>1
  <2> QED BY <2>1 DEF Model!WriteAt
<1>5. \A k \in 1 .. n : g[k] = k
  <2>1. \A k \in 1 .. n : k = n \/ (k <= Len(f) /\ k \in 1 .. Len(f)) BY <1>1
  <2> QED BY <1>1, <2>1
<1>6. g \in Seq(Nat) /\ Len(g) = n
  <2>1. \A k \in 1 .. n : g[k] \in Nat BY <1>5
  <2>2. DOMAIN g = 1 .. n OBVIOUS
  <2>3. g = [k \in 1 .. n |-> g[k]] OBVIOUS
  <2> HIDE DEF g
  <2> QED BY <1>1, <2>1, <2>2, <2>3
<1> HIDE DEF g
<1>7. Begun(g) BY <1>5, <1>6 DEF Begun
<1> QED BY <1>2, <1>3, <1>4, <1>6, <1>7

LEMMA Ended ==
  ASSUME NEW pc \in Model!Pcs
  PROVE  [Model!Idle EXCEPT !.pc = pc] \in PullType /\ [Model!Idle EXCEPT !.pc = pc].pc = pc
BY DEF Model!Idle, PullType

\* A download that is not under way any more.
LEMMA EndKeeps ==
  ASSUME OneDownload, NEW p \in Pulls, NEW pc \in {"ready", "failed", "idle"}, Model!End(p, pc),
         UNCHANGED <<sized, part, dest>>
  PROVE  OneDownload'
<1>1. PICK r : r = [Model!Idle EXCEPT !.pc = pc] OBVIOUS
<1>2. r \in PullType /\ r.pc = pc
  <2>1. pc \in Model!Pcs BY DEF Model!Pcs
  <2> QED BY <1>1, <2>1, Ended
<1>3. pull' = [pull EXCEPT ![p] = r] BY <1>1 DEF Model!End
<1>4. /\ pull' \in [Pulls -> PullType] /\ pull'[p] = r /\ \A q \in Pulls \ {p} : pull'[q] = pull[q]
  BY <1>2, <1>3 DEF OneDownload
<1>5. Model!Underway' \subseteq Model!Underway
  BY <1>2, <1>4 DEF Model!Underway
<1>6. ASSUME NEW q \in Pulls PROVE PullFits(pull[q])'
  <2>1. CASE q = p BY <1>2, <1>4, <2>1 DEF PullFits
  <2>2. CASE q # p
    <3>1. pull'[q] = pull[q] /\ PullFits(pull[q]) BY <1>4, <2>2 DEF OneDownload
    <3> QED BY <3>1 DEF PullFits, Model!Size
  <2> QED BY <2>1, <2>2
<1> QED BY <1>4, <1>5, <1>6 DEF OneDownload, Begun

\* The only download under way has come to r.
LEMMA OnlyOneKeeps ==
  ASSUME OneDownload, NEW p \in Pulls, NEW r \in PullType, pull' = [pull EXCEPT ![p] = r],
         \A q \in Model!Underway : q = p,
         part' = Model!Absent \/ Begun(part)',
         PullFits(r)',
         dest' = Model!Absent
  PROVE  OneDownload'
<1>1. /\ pull' \in [Pulls -> PullType] /\ pull'[p] = r /\ \A q \in Pulls \ {p} : pull'[q] = pull[q]
  BY DEF OneDownload
<1>2. \A q \in Model!Underway' : q = p BY <1>1 DEF Model!Underway
<1>3. ASSUME NEW q \in Pulls PROVE PullFits(pull[q])'
  <2>1. CASE q = p BY <1>1, <2>1 DEF PullFits
  <2>2. CASE q # p
    <3>1. pull'[q].pc \notin {"open", "copy"} BY <1>2, <2>2 DEF Model!Underway
    <3> QED BY <3>1 DEF PullFits
  <2> QED BY <2>1, <2>2
<1> QED BY <1>1, <1>2, <1>3 DEF OneDownload

LEMMA OneDownloadKept ==
  ASSUME OneDownload, Model!Next, ~twice'
  PROVE  OneDownload'
<1>1. PICK p \in Pulls :
        \/ Model!Ready(p) \/ Model!Ask(p) \/ Model!Open(p) \/ Model!Refused(p) \/ Model!Copy(p)
        \/ Model!Rename(p) \/ Model!NothingToRename(p) \/ Model!BreakOff(p) \/ Model!Again(p)
  BY DEF Model!Next
<1>2. pull[p] \in PullType BY DEF OneDownload
<1>3. CASE \/ Model!Ready(p) \/ Model!Refused(p) \/ Model!NothingToRename(p)
           \/ Model!BreakOff(p) \/ Model!Again(p)
  <2>1. \E pc \in {"ready", "failed", "idle"} : Model!End(p, pc) /\ UNCHANGED <<sized, part, dest>>
    BY <1>3 DEF Model!Ready, Model!Refused, Model!NothingToRename, Model!BreakOff, Model!Again
  <2> QED BY <2>1, EndKeeps
<1>4. CASE Model!Ask(p)
  <2>1. /\ dest = Model!Absent /\ UNCHANGED <<part, dest>> /\ Model!Underway = {}
        /\ pull' = [pull EXCEPT ![p] = [Model!Idle EXCEPT !.pc = "open", !.from = Model!Size(part)]]
    BY <1>4 DEF Model!Ask
  <2>2. PICK r : r = [Model!Idle EXCEPT !.pc = "open", !.from = Model!Size(part)] OBVIOUS
  <2>3. r.pc = "open" /\ r.from = Model!Size(part) /\ r.file = "part" BY <2>2 DEF Model!Idle
  <2>4. Model!Size(part) \in Nat BY DEF OneDownload, Model!Size, Begun
  <2>5. r \in PullType BY <2>2, <2>4 DEF Model!Idle, PullType, Model!Pcs
  <2>6. PullFits(r)' BY <2>1, <2>3 DEF PullFits, Model!Size
  <2>7. part' = Model!Absent \/ Begun(part)' BY <2>1 DEF OneDownload, Begun
  <2> QED BY <2>1, <2>2, <2>5, <2>6, <2>7, OnlyOneKeeps
<1>5. ASSUME pull[p].pc \in {"open", "copy"}
      PROVE  (\A q \in Model!Underway : q = p) /\ dest = Model!Absent
  BY <1>5 DEF OneDownload, Model!Underway
<1>6. CASE Model!Open(p)
  <2> DEFINE next == IF Model!Resumes(p) THEN pull[p].from + 1 ELSE 1
             goes == Model!Resumes(p)
  <2>1. /\ pull[p].pc = "open" /\ UNCHANGED dest
        /\ part' = IF Model!Resumes(p) /\ part # Model!Absent THEN part ELSE << >>
        /\ pull' = [pull EXCEPT ![p] = [pull[p] EXCEPT !.pc = "copy", !.append = goes, !.next = next]]
    BY <1>6 DEF Model!Open
  <2>2. PICK r : r = [pull[p] EXCEPT !.pc = "copy", !.append = goes, !.next = next] OBVIOUS
  <2>3. next \in Nat /\ goes \in BOOLEAN BY <1>2 DEF PullType, Model!Resumes
  <2>4. pull[p].from = Model!Size(part) /\ pull[p].file = "part" BY <2>1 DEF OneDownload, PullFits
  <2>5. (part' = Model!Absent \/ Begun(part)') /\ part' # Model!Absent /\ next = Len(part') + 1
    <3>1. CASE Model!Resumes(p)
      <4>1. pull[p].from > 0 /\ next = pull[p].from + 1 BY <3>1 DEF Model!Resumes
      <4>2. part # Model!Absent /\ pull[p].from = Len(part)
        <5>1. CASE part = Model!Absent BY <2>4, <4>1, <5>1 DEF Model!Size
        <5>2. CASE part # Model!Absent BY <2>4, <5>2 DEF Model!Size
        <5> QED BY <5>1, <5>2
      <4>3. part' = part BY <2>1, <3>1, <4>2
      <4>4. Begun(part)' BY <4>2, <4>3 DEF OneDownload, Begun
      <4> QED BY <4>1, <4>2, <4>3, <4>4
    <3>2. CASE ~Model!Resumes(p)
      <4>1. part' = << >> /\ next = 1 BY <2>1, <3>2
      <4>2. Begun(part)' BY <4>1, NothingIsBegun DEF Begun
      <4> QED BY <4>1, <4>2, NothingIsBegun, NoBeginning
    <3> QED BY <3>1, <3>2
  <2> HIDE DEF next, goes
  <2>6. r \in PullType /\ r.pc = "copy" /\ r.next = next /\ r.file = pull[p].file
    BY <1>2, <2>2, <2>3 DEF PullType, Model!Pcs
  <2>7. PullFits(r)' BY <2>4, <2>5, <2>6 DEF PullFits
  <2>8. pull' = [pull EXCEPT ![p] = r] BY <2>1, <2>2
  <2>9. (\A q \in Model!Underway : q = p) /\ dest' = Model!Absent BY <1>5, <2>1
  <2> QED BY ONLY OneDownload, <2>5, <2>6, <2>7, <2>8, <2>9, OnlyOneKeeps
<1>7. CASE Model!Copy(p)
  <2>1. /\ pull[p].pc = "copy" /\ pull[p].next <= NBlocks
        /\ part' = IF pull[p].file = "part" THEN Model!Written(p, part) ELSE part
        /\ dest' = IF pull[p].file = "dest" THEN Model!Written(p, dest) ELSE dest
        /\ pull' = [pull EXCEPT ![p].next = pull[p].next + 1]
    BY <1>7 DEF Model!Copy
  <2>2. pull[p].file = "part" /\ Begun(part) /\ pull[p].next = Len(part) + 1
    BY <2>1 DEF OneDownload, PullFits
  <2>3. Begun(part)' /\ Len(part') = pull[p].next
    <3>1. part' \in {Append(part, pull[p].next), Model!WriteAt(part, pull[p].next, pull[p].next)}
      BY <2>1, <2>2 DEF Model!Written
    <3>2. /\ Begun(Append(part, pull[p].next)) /\ Len(Append(part, pull[p].next)) = pull[p].next
          /\ Begun(Model!WriteAt(part, pull[p].next, pull[p].next))
          /\ Len(Model!WriteAt(part, pull[p].next, pull[p].next)) = pull[p].next
      BY ONLY <2>1, <2>2, OneMoreBlock
    <3>3. Begun(part') BY <3>1, <3>2
    <3> QED BY <3>1, <3>2, <3>3 DEF Begun
  <2>4. PICK r : r = [pull[p] EXCEPT !.next = pull[p].next + 1] OBVIOUS
  <2>5. r \in PullType /\ r.pc = "copy" /\ r.file = "part" /\ r.next = pull[p].next + 1
    <3>1. pull[p].next + 1 \in Nat BY <1>2 DEF PullType
    <3> QED BY <1>2, <2>1, <2>2, <2>4, <3>1 DEF PullType
  <2>6. part' # Model!Absent BY <2>3, NoBeginning DEF Begun
  <2>7. PullFits(r)' BY <2>3, <2>5, <2>6 DEF PullFits
  <2>8. pull' = [pull EXCEPT ![p] = r] BY <2>1, <2>4
  <2>9. (\A q \in Model!Underway : q = p) /\ dest' = Model!Absent BY <1>5, <2>1, <2>2
  <2> QED BY ONLY OneDownload, <2>3, <2>5, <2>7, <2>8, <2>9, OnlyOneKeeps
\* With a stated length only the last block brings the download here: what takes the
\* name is whole then.
<1>8. CASE Model!Rename(p)
  <2>1. /\ pull[p].pc = "copy" /\ (sized => pull[p].next > NBlocks) /\ part # Model!Absent
        /\ sized' = sized
        /\ dest' = part /\ part' = Model!Absent
        /\ pull' = [q \in Pulls |->
              IF q = p THEN [Model!Idle EXCEPT !.pc = "ready"]
              ELSE IF pull[q].pc # "copy" THEN pull[q]
              ELSE [pull[q] EXCEPT !.file = IF @ = "part" THEN "dest" ELSE "gone"]]
    BY <1>8 DEF Model!Rename, Model!Named, Model!Ends
  <2>2. Begun(part) /\ pull[p].next = Len(part) + 1 BY <2>1 DEF OneDownload, PullFits
  <2>3. sized => Len(part) = NBlocks
    <3>1. Len(part) \in Nat /\ Len(part) <= NBlocks BY <2>2 DEF Begun
    <3> QED BY <2>1, <2>2, <3>1, ServicesAssumption
  <2>4. Begun(dest)' /\ (sized' => dest' = Model!Whole) BY <2>1, <2>2, <2>3, AllBlocks DEF Begun
  <2>5. PICK r : r = [Model!Idle EXCEPT !.pc = "ready"] OBVIOUS
  <2>6. r \in PullType /\ r.pc = "ready" BY <2>5, Ended DEF Model!Pcs
  <2>7. \A q \in Pulls \ {p} : pull[q].pc \notin {"open", "copy"}
    BY <1>5, <2>1 DEF Model!Underway
  <2>8. \A q \in Pulls : pull'[q] = IF q = p THEN r ELSE pull[q]
    BY <2>1, <2>5, <2>7
  <2>9. pull' \in [Pulls -> PullType] /\ \A q \in Pulls : pull'[q].pc \notin {"open", "copy"}
    BY <2>1, <2>6, <2>7, <2>8 DEF OneDownload
  <2>10. Model!Underway' = {} BY <2>9 DEF Model!Underway
  <2>11. \A q \in Pulls : PullFits(pull[q])' BY <2>9 DEF PullFits
  <2>12. part' = Model!Absent BY <2>1
  <2> QED BY ONLY <2>4, <2>9, <2>10, <2>11, <2>12 DEF OneDownload
<1> QED BY <1>1, <1>3, <1>4, <1>6, <1>7, <1>8

-----------------------------------------------------------------------------
(* The vault configuration *)

\* What the files have to fit, whoever is at them.
ConfigFits ==
  /\ file \in [token : Int, key : Int] /\ keyfile \in Int /\ uses \in Nat /\ saved \in Int
  /\ file = Vault!Cut \/ file.token = saved
  /\ file.token > 0 => file.key = keyfile /\ keyfile # Vault!NoKey

\* The only one at it has come to r.
LEMMA UserKeeps ==
  ASSUME OneUser, NEW u \in Users, NEW r \in UserType, user' = [user EXCEPT ![u] = r],
         \A v \in Vault!Busy : v = u,
         ConfigFits', UserFits(r)'
  PROVE  OneUser'
<1>1. /\ user' \in [Users -> UserType] /\ user'[u] = r /\ \A v \in Users \ {u} : user'[v] = user[v]
  BY DEF OneUser
<1>2. \A v \in Vault!Busy' : v = u BY <1>1 DEF Vault!Busy
<1>3. ASSUME NEW v \in Users PROVE UserFits(user[v])'
  <2>1. CASE v = u BY <1>1, <2>1 DEF UserFits
  <2>2. CASE v # u
    <3>1. user'[v].pc = "rest" BY <1>2, <2>2 DEF Vault!Busy
    <3> QED BY <3>1 DEF UserFits
  <2> QED BY <2>1, <2>2
<1> QED BY <1>1, <1>2, <1>3 DEF OneUser, ConfigFits

LEMMA FilesFit ==
  /\ Vault!Cut \in [token : Int, key : Int] /\ Vault!Cut.token = -2
  /\ Vault!Absent \in [token : Int, key : Int] /\ Vault!Absent.token = -1
  /\ Vault!Resting \in UserType /\ Vault!Resting.pc = "rest" /\ Vault!NoKey = -1
BY DEF Vault!Cut, Vault!Absent, Vault!Resting, Vault!NoKey, UserType

LEMMA OneUserKept ==
  ASSUME OneUser, Vault!Next, ~crowded'
  PROVE  OneUser'
<1>1. PICK u \in Users :
        \/ Vault!SaveVaultConfig(u) \/ Vault!LoadVaultConfig(u) \/ Vault!DeleteVaultConfig(u)
        \/ Vault!ReadKey(u) \/ Vault!MakeKey(u) \/ Vault!OpenKey(u) \/ Vault!WriteKey(u)
        \/ Vault!OpenFile(u) \/ Vault!WriteFile(u) \/ Vault!Stop(u)
  BY DEF Vault!Next
<1>2. user[u] \in UserType /\ UserFits(user[u]) /\ ConfigFits BY DEF OneUser, ConfigFits
<1>3. user = [user EXCEPT ![u] = user[u]] BY DEF OneUser
<1>4. user[u].pc # "rest" => \A v \in Vault!Busy : v = u BY DEF OneUser, Vault!Busy
<1>5. Vault!Begin(u) => user[u].pc = "rest" /\ Vault!Busy = {} /\ uses' \in Nat
  <2> SUFFICES ASSUME Vault!Begin(u) PROVE user[u].pc = "rest" /\ Vault!Busy = {} /\ uses' \in Nat
    OBVIOUS
  <2>1. user[u].pc = "rest" /\ Vault!Busy = {} /\ uses' = uses + 1 BY DEF Vault!Begin
  <2> QED BY <1>2, <2>1 DEF ConfigFits
<1>6. UNCHANGED <<keyfile, file, saved>> /\ uses' \in Nat => ConfigFits'
  BY <1>2 DEF ConfigFits
\* Whoever rests fits whatever the files hold.
<1>7. ASSUME Vault!Rest(u), ConfigFits', \A v \in Vault!Busy : v = u PROVE OneUser'
  <2>1. user' = [user EXCEPT ![u] = Vault!Resting] BY <1>7 DEF Vault!Rest
  <2>2. UserFits(Vault!Resting)' BY FilesFit DEF UserFits
  <2> QED BY ONLY OneUser, <1>7, <2>1, <2>2, FilesFit, UserKeeps
<1>8. CASE Vault!SaveVaultConfig(u)
  <2>1. PICK token \in {0, uses'} :
          user' = [user EXCEPT ![u] = [pc |-> IF token = 0 THEN "use" ELSE "key",
                                       job |-> "save", token |-> token, key |-> Vault!NoKey]]
    BY <1>8 DEF Vault!SaveVaultConfig
  <2>2. Vault!Begin(u) /\ UNCHANGED <<keyfile, file, saved>> BY <1>8 DEF Vault!SaveVaultConfig
  <2>3. PICK r : r = [pc |-> IF token = 0 THEN "use" ELSE "key", job |-> "save", token |-> token,
                      key |-> Vault!NoKey]
    OBVIOUS
  <2>4. token \in Int BY <1>5, <2>2
  <2>5. r \in UserType BY <2>3, <2>4, FilesFit DEF UserType
  <2>6. r.pc \in {"use", "key"} /\ r.token = token /\ (r.pc = "use" => token = 0) BY <2>3
  <2>7. UserFits(r)' BY <2>6 DEF UserFits
  <2>8. user' = [user EXCEPT ![u] = r] BY <2>1, <2>3
  <2>9. ConfigFits' /\ \A v \in Vault!Busy : v = u BY <1>5, <1>6, <2>2
  <2> QED BY ONLY OneUser, <2>5, <2>7, <2>8, <2>9, UserKeeps
<1>9. CASE Vault!LoadVaultConfig(u)
  <2>1. Vault!Begin(u) /\ UNCHANGED <<keyfile, file, saved>> BY <1>9 DEF Vault!LoadVaultConfig
  <2>2. ConfigFits' /\ \A v \in Vault!Busy : v = u BY <1>5, <1>6, <2>1
  <2>3. CASE file.token > 0
    <3>1. PICK r : r = [pc |-> "key", job |-> "load", token |-> file.token, key |-> file.key] OBVIOUS
    <3>2. user' = [user EXCEPT ![u] = r] BY <1>9, <2>3, <3>1 DEF Vault!LoadVaultConfig
    <3>3. file.token \in Int /\ file.key \in Int BY <1>2 DEF ConfigFits
    <3>4. r \in UserType /\ r.pc = "key" BY <3>1, <3>3 DEF UserType
    <3>5. UserFits(r)' BY <3>4 DEF UserFits
    <3> QED BY ONLY OneUser, <2>2, <3>2, <3>4, <3>5, UserKeeps
  <2>4. CASE ~(file.token > 0)
    <3>1. user' = user BY <1>9, <2>4 DEF Vault!LoadVaultConfig
    <3>2. user' = [user EXCEPT ![u] = user[u]] BY <1>3, <3>1
    <3>3. UserFits(user[u])' BY <1>5, <2>1, <3>1 DEF UserFits
    <3>4. PICK r : r = user[u] OBVIOUS
    <3>5. UserFits(r)' BY <1>5, <2>1, <3>4 DEF UserFits
    <3> QED BY ONLY OneUser, <1>2, <2>2, <3>2, <3>4, <3>5, UserKeeps
  <2> QED BY <2>3, <2>4
<1>10. CASE Vault!DeleteVaultConfig(u)
  <2>1. Vault!Begin(u) /\ file' = Vault!Absent /\ saved' = -1 /\ UNCHANGED <<keyfile, user>>
    BY <1>10 DEF Vault!DeleteVaultConfig
  <2>2. ConfigFits' BY <1>2, <1>5, <2>1, FilesFit DEF ConfigFits
  <2>3. PICK r : r = user[u] OBVIOUS
  <2>4. UserFits(r)' BY <1>5, <2>1, <2>3 DEF UserFits
  <2>5. user' = [user EXCEPT ![u] = r] /\ \A v \in Vault!Busy : v = u BY <1>3, <1>5, <2>1, <2>3
  <2> QED BY ONLY OneUser, <1>2, <2>2, <2>3, <2>4, <2>5, UserKeeps
<1>11. ASSUME NEW pc \in {"make", "write", "fill"}, Vault!Go(u, pc), user[u].pc # "rest", ConfigFits',
              pc \in {"make", "write"} => file'.token <= 0,
              pc = "fill" => user[u].pc = "use" /\ UNCHANGED keyfile
       PROVE  OneUser'
  <2>1. PICK r : r = [user[u] EXCEPT !.pc = pc] OBVIOUS
  <2>2. user' = [user EXCEPT ![u] = r] BY <1>11, <2>1 DEF Vault!Go
  <2>3. r \in UserType /\ r.pc = pc /\ r.token = user[u].token /\ r.key = user[u].key
    BY <1>2, <2>1 DEF UserType
  <2>4. UserFits(r)' BY <1>2, <1>11, <2>3 DEF UserFits
  <2>5. \A v \in Vault!Busy : v = u BY <1>4, <1>11
  <2> QED BY ONLY OneUser, <1>11, <2>2, <2>3, <2>4, <2>5, UserKeeps
\* The key it saves under is the one the key file has.
<1>12. ASSUME NEW mine \in Int, mine # Vault!NoKey,
              user' = [user EXCEPT ![u] = [user[u] EXCEPT !.pc = "use", !.key = mine]],
              keyfile' = mine, user[u].pc # "rest", ConfigFits'
       PROVE  OneUser'
  <2>1. PICK r : r = [user[u] EXCEPT !.pc = "use", !.key = mine] OBVIOUS
  <2>2. r \in UserType /\ r.pc = "use" /\ r.key = mine BY <1>2, <2>1 DEF UserType
  <2>3. UserFits(r)' BY <1>12, <2>2 DEF UserFits
  <2>4. user' = [user EXCEPT ![u] = r] /\ \A v \in Vault!Busy : v = u BY <1>4, <1>12, <2>1
  <2> QED BY ONLY OneUser, <1>12, <2>2, <2>3, <2>4, UserKeeps
<1>13. CASE Vault!ReadKey(u)
  <2>1. /\ user[u].pc = "key" /\ keyfile # Vault!NoKey /\ UNCHANGED <<keyfile, file, uses, saved>>
        /\ \/ Vault!Rest(u)
           \/ user' = [user EXCEPT ![u] = [user[u] EXCEPT !.pc = "use", !.key = keyfile]]
    BY <1>13 DEF Vault!ReadKey
  <2>2. ConfigFits' BY <1>2, <2>1 DEF ConfigFits
  <2>3. CASE Vault!Rest(u) BY <1>4, <1>7, <2>1, <2>2, <2>3
  <2>4. CASE user' = [user EXCEPT ![u] = [user[u] EXCEPT !.pc = "use", !.key = keyfile]]
    <3>1. keyfile \in Int /\ keyfile' = keyfile /\ user[u].pc # "rest" BY <1>2, <2>1 DEF ConfigFits
    <3> QED BY ONLY <1>12, <2>1, <2>2, <2>4, <3>1
  <2> QED BY <2>1, <2>3, <2>4
<1>14. CASE Vault!MakeKey(u)
  <2>1. user[u].pc = "key" /\ keyfile = Vault!NoKey /\ Vault!Go(u, "make")
        /\ UNCHANGED <<keyfile, file, uses, saved>>
    BY <1>14 DEF Vault!MakeKey
  <2>2. file.token \in Int /\ ~(file.token > 0) BY <1>2, <2>1 DEF ConfigFits
  <2>3. ConfigFits' /\ file'.token <= 0 BY <1>2, <2>1, <2>2 DEF ConfigFits
  <2> QED BY <1>11, <2>1, <2>3
<1>15. CASE Vault!OpenKey(u)
  <2>1. user[u].pc = "make" /\ keyfile' = 0 /\ Vault!Go(u, "write") /\ UNCHANGED <<file, uses, saved>>
    BY <1>15 DEF Vault!OpenKey
  <2>2. file.token <= 0 /\ file.token \in Int BY <1>2, <2>1 DEF UserFits, ConfigFits
  <2>3. ConfigFits' /\ file'.token <= 0 BY <1>2, <2>1, <2>2 DEF ConfigFits
  <2> QED BY <1>11, <2>1, <2>3
<1>16. CASE Vault!WriteKey(u)
  <2>1. /\ user[u].pc = "write" /\ keyfile' = uses /\ UNCHANGED <<file, uses, saved>>
        /\ \/ Vault!Rest(u)
           \/ user' = [user EXCEPT ![u] = [user[u] EXCEPT !.pc = "use", !.key = uses]]
    BY <1>16 DEF Vault!WriteKey
  <2>2. file.token <= 0 /\ file.token \in Int /\ uses \in Nat BY <1>2, <2>1 DEF UserFits, ConfigFits
  <2>3. ConfigFits' BY <1>2, <2>1, <2>2 DEF ConfigFits
  <2>4. CASE Vault!Rest(u) BY <1>4, <1>7, <2>1, <2>3, <2>4
  <2>5. CASE user' = [user EXCEPT ![u] = [user[u] EXCEPT !.pc = "use", !.key = uses]]
    <3>1. uses \in Int /\ uses # Vault!NoKey /\ user[u].pc # "rest" BY <2>1, <2>2, FilesFit
    <3> QED BY ONLY <1>12, <2>1, <2>3, <2>5, <3>1
  <2> QED BY <2>1, <2>4, <2>5
<1>17. CASE Vault!OpenFile(u)
  <2>1. user[u].pc = "use" /\ file' = Vault!Cut /\ Vault!Go(u, "fill") /\ UNCHANGED <<keyfile, uses, saved>>
    BY <1>17 DEF Vault!OpenFile
  <2>2. ConfigFits' BY <1>2, <2>1, FilesFit DEF ConfigFits
  <2> QED BY <1>11, <2>1, <2>2
<1>18. CASE Vault!WriteFile(u)
  <2>1. /\ user[u].pc = "fill" /\ file' = [token |-> user[u].token, key |-> user[u].key]
        /\ saved' = user[u].token /\ Vault!Rest(u) /\ UNCHANGED <<keyfile, uses>>
    BY <1>18 DEF Vault!WriteFile
  <2>2. /\ user[u].token \in Int /\ user[u].key \in Int
        /\ user[u].token > 0 => user[u].key = keyfile /\ keyfile # Vault!NoKey
    BY <1>2, <2>1 DEF UserType, UserFits
  <2>3. /\ file' \in [token : Int, key : Int] /\ file'.token = user[u].token /\ file'.key = user[u].key
    BY <2>1, <2>2
  <2>4. ConfigFits' BY <1>2, <2>1, <2>2, <2>3 DEF ConfigFits
  <2> QED BY <1>4, <1>7, <2>1, <2>4
<1>19. CASE Vault!Stop(u)
  <2>1. user[u].pc # "rest" /\ Vault!Rest(u) /\ UNCHANGED <<keyfile, file, uses, saved>>
    BY <1>19 DEF Vault!Stop
  <2>2. ConfigFits' BY <1>2, <2>1 DEF ConfigFits
  <2> QED BY <1>4, <1>7, <2>1, <2>2
<1> QED BY <1>1, <1>8, <1>9, <1>10, <1>13, <1>14, <1>15, <1>16, <1>17, <1>18, <1>19

\* Whatever is broken off and taken up again (DownloadHuggingFaceFile,
\* SaveVaultConfig, deriveKey), as long as no two are at a file at once: the cache
\* holds the beginning of a model, the whole of it if the server states the length
\* of its answers; and a vault configuration that no broken save has cut has the
\* token saved last, under the key in the key file.  For files of any length and any
\* number of downloads and users.
THEOREM FilesStayWhole == ServicesSpec => []FilesAreWhole
<1>1. ServicesInit => FilesInv
  <2> SUFFICES ASSUME Model!Init, Vault!Init PROVE FilesInv BY DEF ServicesInit
  <2>1. OneDownload
    <3>1. Model!Idle \in PullType /\ Model!Idle.pc = "idle" BY DEF Model!Idle, PullType, Model!Pcs
    <3>2. part = Model!Absent /\ dest = Model!Absent /\ \A p \in Pulls : pull[p] = Model!Idle
      BY DEF Model!Init
    <3>3. pull \in [Pulls -> PullType] BY <3>1 DEF Model!Init
    <3>4. \A p \in Pulls : PullFits(pull[p]) BY <3>1, <3>2 DEF PullFits
    <3>5. Model!Underway = {} BY <3>1, <3>2 DEF Model!Underway
    <3> QED BY <3>2, <3>3, <3>4, <3>5 DEF OneDownload
  <2>2. OneUser
    <3>1. file = Vault!Absent /\ keyfile = -1 /\ uses = 0 /\ saved = -1
          /\ \A u \in Users : user[u] = Vault!Resting
      BY FilesFit DEF Vault!Init
    <3>2. user \in [Users -> UserType] BY FilesFit DEF Vault!Init
    <3>3. \A u \in Users : UserFits(user[u]) BY <3>1, FilesFit DEF UserFits
    <3>4. Vault!Busy = {} BY <3>1, FilesFit DEF Vault!Busy
    <3> QED BY <3>1, <3>2, <3>3, <3>4, FilesFit DEF OneUser
  <2> QED BY <2>1, <2>2 DEF FilesInv
<1>2. FilesInv /\ [ServicesNext]_servicevars => FilesInv'
  <2> SUFFICES ASSUME FilesInv, [ServicesNext]_servicevars PROVE FilesInv'
    OBVIOUS
  <2>1. Model!Next /\ ~twice' => ~twice
    BY DEF Model!Next, Model!Ready, Model!Ask, Model!Open, Model!Refused, Model!Copy, Model!Rename,
           Model!NothingToRename, Model!BreakOff, Model!Again
  <2>2. Vault!Next /\ ~crowded' => ~crowded
    BY DEF Vault!Next, Vault!SaveVaultConfig, Vault!LoadVaultConfig, Vault!DeleteVaultConfig,
           Vault!ReadKey, Vault!MakeKey, Vault!OpenKey, Vault!WriteKey, Vault!OpenFile, Vault!WriteFile,
           Vault!Stop, Vault!Begin
  <2>3. ~twice' => OneDownload'
    <3>1. CASE Model!Next BY <2>1, <3>1, OneDownloadKept DEF FilesInv
    <3>2. CASE UNCHANGED modelvars
      BY <3>2 DEF modelvars, FilesInv, OneDownload, Model!Underway, PullFits, Model!Size, Begun
    <3> QED BY <3>1, <3>2, OneMoves
  <2>4. ~crowded' => OneUser'
    <3>1. CASE Vault!Next BY <2>2, <3>1, OneUserKept DEF FilesInv
    <3>2. CASE UNCHANGED vaultvars
      BY <3>2 DEF vaultvars, FilesInv, OneUser, Vault!Busy, UserFits
    <3> QED BY <3>1, <3>2, OneMoves
  <2> QED BY <2>3, <2>4 DEF FilesInv
<1>3. FilesInv => FilesAreWhole
  <2>1. OneDownload /\ dest # Model!Absent
          => Model!IsPrefix(dest, Model!Whole) /\ (sized => dest = Model!Whole)
    BY BegunIsPrefix DEF OneDownload
  <2>2. OneUser /\ file # Vault!Cut => file.token = saved /\ (file.token > 0 => file.key = keyfile)
    BY DEF OneUser
  <2> QED BY <2>1, <2>2 DEF FilesInv, FilesAreWhole, Model!CachedIsWhole, Vault!SavedIsReadable
<1> QED BY <1>1, <1>2, <1>3, PTL DEF ServicesSpec

-----------------------------------------------------------------------------
(* Memories *)

\* Numbers have a least one: of the intervals up to them, one has none inside.
LEMMA Least ==
  ASSUME NEW T, T \subseteq Nat, T # {} PROVE \E n \in T : \A m \in T : n <= m
<1>1. PICK x \in T : TRUE OBVIOUS
<1>2. PICK S : S = 0 .. x OBVIOUS
<1>3. IsFiniteSet(S) BY <1>1, <1>2, FS_Interval
<1>4. FiniteSubsetsOf(S) = SUBSET S BY <1>3, FS_FiniteSubsetsOfFinite
<1>5. PICK R : R = StrictSubsetOrdering(S) OBVIOUS
<1>6. IsWellFoundedOn(R, SUBSET S) BY <1>4, <1>5, FS_StrictSubsetOrderingWellFounded
<1>7. PICK U : U = {0 .. n : n \in {m \in T : m <= x}} OBVIOUS
<1>8. U \subseteq SUBSET S /\ U # {} BY <1>1, <1>2, <1>7
<1>9. PICK u \in U : \A y \in U : ~(<<y, u>> \in R) BY <1>6, <1>8, WFMin
<1>10. PICK n \in T : n <= x /\ u = 0 .. n BY <1>7, <1>9
<1>11. ASSUME NEW m \in T, m < n PROVE FALSE
  <2>1. n \in Nat /\ m \in Nat /\ x \in Nat /\ m <= x BY <1>1, <1>10, <1>11
  <2>2. PICK y : y = 0 .. m OBVIOUS
  <2>3. y \in U BY <1>7, <2>1, <2>2
  <2>4. y \subseteq u /\ n \in u /\ n \notin y BY <1>10, <1>11, <2>1, <2>2
  <2>5. <<y, u>> \in R BY <1>5, <1>8, <1>9, <2>3, <2>4 DEF StrictSubsetOrdering
  <2> QED BY <1>9, <2>3, <2>5
<1>12. \A m \in T : n <= m BY <1>11
<1> QED BY <1>12

LEMMA MemCounts == \A S : Mem!Cardinality(S) = Cardinality(S)
  BY DEF Mem!Cardinality, Cardinality

\* Every entry of a finite set is in one place of the sequence it is made.
LEMMA Listed ==
  ASSUME NEW S, IsFiniteSet(S), NEW s, s = Mem!SetToSeq(S)
  PROVE  /\ Cardinality(S) \in Nat /\ Len(s) = Cardinality(S) /\ s \in [1 .. Cardinality(S) -> S]
         /\ \A i, j \in 1 .. Cardinality(S) : s[i] = s[j] => i = j
         /\ \A e \in S : \E i \in 1 .. Cardinality(S) : s[i] = e
<1>1. PICK n : n = Cardinality(S) OBVIOUS
<1>2. n \in Nat /\ ExistsBijection(1 .. n, S) BY <1>1, FS_CardinalityType
<1>3. PICK f : f \in Bijection(1 .. n, S) BY <1>2 DEF ExistsBijection
<1>4. f \in [1 .. n -> S] /\ \A i, j \in 1 .. n : f[i] = f[j] => i = j
  BY <1>3 DEF Bijection, Injection, IsInjective
<1>5. Mem!IsInjective(f) BY <1>4 DEF Mem!IsInjective
<1>6. s = CHOOSE g \in [1 .. n -> S] : Mem!IsInjective(g)
  BY <1>1, MemCounts DEF Mem!SetToSeq
<1>7. s \in [1 .. n -> S] /\ Mem!IsInjective(s) BY <1>4, <1>5, <1>6
<1>8. \A i, j \in 1 .. n : s[i] = s[j] => i = j BY <1>7 DEF Mem!IsInjective
<1>9. s \in Injection(1 .. n, S) BY <1>7 DEF Injection, IsInjective, Mem!IsInjective
<1>10. Cardinality(1 .. n) = n BY <1>2, FS_Interval
<1>11. s \in Surjection(1 .. n, S) BY <1>1, <1>9, <1>10, FS_Injection
<1>12. \A e \in S : \E i \in 1 .. n : s[i] = e BY <1>11 DEF Surjection
<1>13. Len(s) = n BY <1>2, <1>7
<1> QED BY <1>1, <1>2, <1>7, <1>8, <1>12, <1>13

\* Of two numbers one is the least, and of numbers up to a bound one the last.
LEMMA MinOfTwo ==
  ASSUME NEW m \in Nat, NEW n \in Nat
  PROVE  Mem!Min({m, n}) = IF m <= n THEN m ELSE n
BY DEF Mem!Min

LEMMA LastOf ==
  ASSUME NEW n \in Nat, NEW T, T \subseteq 1 .. n, T # {}
  PROVE  Mem!Max(T) \in T /\ \A t \in T : t <= Mem!Max(T)
<1>1. PICK S : S = {n - t : t \in T} OBVIOUS
<1>2. S \subseteq Nat /\ S # {}
  <2>1. \A t \in T : n - t \in Nat OBVIOUS
  <2> QED BY <1>1, <2>1
<1>3. PICK k \in S : \A m \in S : k <= m BY <1>2, Least
<1>4. PICK x \in T : k = n - x BY <1>1, <1>3
<1>5. ASSUME NEW t \in T PROVE x >= t
  <2>1. n - t \in S /\ t \in 1 .. n /\ x \in 1 .. n BY <1>1
  <2> QED BY <1>3, <1>4, <2>1
<1>6. \E y \in T : \A t \in T : y >= t BY <1>5
<1>7. Mem!Max(T) \in T /\ \A t \in T : Mem!Max(T) >= t BY <1>6 DEF Mem!Max
<1> QED BY <1>7

\* An entry in the middle of a sequence.
Spliced(S, m, s, at, e, r) ==
  /\ m \in Nat /\ s \in [1 .. m -> S] /\ e \in S /\ at \in 0 .. m
  /\ r = SubSeq(s, 1, at) \o <<e>> \o SubSeq(s, at + 1, Len(s))

LEMMA Inserted ==
  ASSUME NEW S, NEW m, NEW s, NEW at, NEW e, NEW r, Spliced(S, m, s, at, e, r)
  PROVE  /\ r \in [1 .. m + 1 -> S]
         /\ \A i \in 1 .. m + 1 : r[i] = IF i <= at THEN s[i] ELSE IF i = at + 1 THEN e ELSE s[i - 1]
<1>0. m \in Nat /\ s \in [1 .. m -> S] /\ e \in S /\ at \in 0 .. m BY DEF Spliced
<1>1. s \in Seq(S) /\ Len(s) = m BY <1>0
<1>2. PICK x : x = SubSeq(s, 1, at) OBVIOUS
<1>3. PICK z : z = SubSeq(s, at + 1, m) OBVIOUS
<1>4. PICK y : y = <<e>> OBVIOUS
<1>5. x \in Seq(S) /\ Len(x) = at /\ \A i \in 1 .. at : x[i] = s[i]
  BY <1>0, <1>1, <1>2
<1>6. z \in Seq(S) /\ Len(z) = m - at /\ \A i \in 1 .. m - at : z[i] = s[at + i]
  BY <1>0, <1>1, <1>3
<1>7. y \in Seq(S) /\ Len(y) = 1 /\ y[1] = e BY <1>0, <1>4
<1>8. PICK w : w = x \o y OBVIOUS
<1>9. /\ w \in Seq(S) /\ Len(w) = at + 1
      /\ \A i \in 1 .. at + 1 : w[i] = IF i <= at THEN x[i] ELSE y[i - at]
  <2>1. /\ x \o y \in Seq(S) /\ Len(x \o y) = Len(x) + Len(y)
        /\ \A i \in 1 .. Len(x) + Len(y) : (x \o y)[i] = IF i <= Len(x) THEN x[i] ELSE y[i - Len(x)]
    BY <1>5, <1>7, ConcatProperties
  <2>2. Len(x) = at /\ Len(y) = 1 BY <1>5, <1>7
  <2> QED BY <1>8, <2>1, <2>2
<1>10. r = w \o z BY <1>1, <1>2, <1>3, <1>4, <1>8 DEF Spliced
<1>11. /\ r \in Seq(S) /\ Len(r) = m + 1
       /\ \A i \in 1 .. m + 1 : r[i] = IF i <= at + 1 THEN w[i] ELSE z[i - (at + 1)]
  <2>1. /\ r \in Seq(S) /\ Len(r) = Len(w) + Len(z)
        /\ \A i \in 1 .. Len(w) + Len(z) : r[i] = IF i <= Len(w) THEN w[i] ELSE z[i - Len(w)]
    <3>1. /\ w \o z \in Seq(S) /\ Len(w \o z) = Len(w) + Len(z)
          /\ \A i \in 1 .. Len(w) + Len(z) : (w \o z)[i] = IF i <= Len(w) THEN w[i] ELSE z[i - Len(w)]
      BY <1>6, <1>9, ConcatProperties
    <3> QED BY <1>10, <3>1
  <2>2. Len(w) + Len(z) = m + 1 /\ Len(w) = at + 1 BY <1>0, <1>6, <1>9
  <2> QED BY <2>1, <2>2
<1>12. r \in [1 .. m + 1 -> S]
  <2>1. r \in Seq(S) /\ Len(r) = m + 1 BY <1>11
  <2> QED BY <1>0, <2>1
<1>13. ASSUME NEW i \in 1 .. m + 1
       PROVE  r[i] = IF i <= at THEN s[i] ELSE IF i = at + 1 THEN e ELSE s[i - 1]
  <2>1. m \in Nat /\ at \in 0 .. m /\ i \in 1 .. m + 1 BY <1>0
  <2>2. ASSUME i <= at PROVE r[i] = s[i]
    <3>1. i \in 1 .. at /\ i \in 1 .. at + 1 /\ i <= at + 1 BY ONLY <2>1, <2>2
    <3>2. r[i] = w[i] BY ONLY <1>11, <2>1, <3>1
    <3>3. w[i] = x[i] BY ONLY <1>9, <2>2, <3>1
    <3>4. x[i] = s[i] BY ONLY <1>5, <3>1
    <3> QED BY ONLY <3>2, <3>3, <3>4
  <2>3. ASSUME i = at + 1 PROVE r[i] = e
    <3>1. i \in 1 .. at + 1 /\ i - at = 1 /\ ~(i <= at) /\ i <= at + 1 BY ONLY <2>1, <2>3
    <3>2. r[i] = w[i] BY ONLY <1>11, <2>1, <3>1
    <3>3. w[i] = y[1] BY ONLY <1>9, <3>1
    <3> QED BY ONLY <1>7, <3>2, <3>3
  <2>4. ASSUME ~(i <= at), i # at + 1 PROVE r[i] = s[i - 1]
    <3>1. ~(i <= at + 1) /\ i - (at + 1) \in 1 .. m - at /\ at + (i - (at + 1)) = i - 1
      BY ONLY <2>1, <2>4
    <3>2. z[i - (at + 1)] = s[i - 1] BY ONLY <1>6, <3>1
    <3>3. r[i] = z[i - (at + 1)] BY ONLY <1>11, <2>1, <3>1
    <3> QED BY ONLY <3>2, <3>3
  <2> QED BY ONLY <2>2, <2>3, <2>4
<1> QED BY <1>12, <1>13

-----------------------------------------------------------------------------
(* The insertion sort of a hybrid search *)

\* The sort by its loop: what it has sorted after each of the entries.
Sorting(s, order, score) ==
  s = [n \in 0 .. Len(order) |-> IF n = 0 THEN <<>> ELSE Mem!Insert(s[n - 1], order[n], score)]

\* There is such a sequence of sequences: a first number up to which there were
\* none would have one by the step from the last.
LEMMA SortGoes ==
  ASSUME NEW order, NEW score, Len(order) \in Nat
  PROVE  \E s : Sorting(s, order, score) /\ Mem!sortScoredEntries(order, score) = s[Len(order)]
<1> DEFINE Upto(s, k) ==
             s = [n \in 0 .. k |-> IF n = 0 THEN <<>> ELSE Mem!Insert(s[n - 1], order[n], score)]
<1>1. PICK T : T = {k \in Nat : ~\E s : Upto(s, k)} OBVIOUS
<1>2. ASSUME T # {} PROVE FALSE
  <2>1. PICK k \in T : \A m \in T : k <= m
    <3>1. T \subseteq Nat BY <1>1
    <3> QED BY <1>2, <3>1, Least
  <2>2. k \in Nat /\ ~\E s : Upto(s, k) BY <1>1
  <2>3. CASE k = 0
    <3>1. PICK s : s = [n \in 0 .. 0 |-> <<>>] OBVIOUS
    <3>2. Upto(s, 0) BY <3>1
    <3> QED BY <2>2, <2>3, <3>2
  <2>4. CASE k > 0
    <3>1. k - 1 \in Nat /\ k - 1 \notin T BY <2>1, <2>2, <2>4
    <3>2. PICK s : Upto(s, k - 1) BY <1>1, <3>1
    <3>3. PICK g : g = [n \in 0 .. k |-> IF n = 0 THEN <<>> ELSE Mem!Insert(s[n - 1], order[n], score)]
      OBVIOUS
    <3>4. ASSUME NEW n \in 0 .. k, n # 0 PROVE g[n - 1] = s[n - 1]
      <4>1. n - 1 \in 0 .. k /\ n - 1 \in 0 .. k - 1 BY <2>2, <3>4
      <4> QED BY <3>2, <3>3, <4>1
    <3>5. Upto(g, k) BY <3>3, <3>4
    <3> QED BY <2>2, <3>5
  <2> QED BY <2>2, <2>3, <2>4
<1>3. \E s : Upto(s, Len(order)) BY <1>1, <1>2
<1> QED BY <1>3 DEF Sorting, Mem!sortScoredEntries

Pos(order, e) == CHOOSE i \in DOMAIN order : order[i] = e

\* One entry comes ahead of another.
Ahead(order, score, d, e) ==
  \/ score[d] > score[e]
  \/ score[d] = score[e] /\ Pos(order, d) < Pos(order, e)

\* The entries of a set in an order, and what they score.
Scored(S, order, score) ==
  /\ IsFiniteSet(S) /\ order = Mem!SetToSeq(S) /\ score \in [S -> 0 .. 2]

\* The first n of them are sorted.
IsSorted(s, n, S, order, score) ==
  /\ s \in [1 .. n -> S]
  /\ \A e \in S : Pos(order, e) <= n <=> \E i \in 1 .. n : s[i] = e
  /\ \A i, j \in 1 .. n : i < j => Ahead(order, score, s[i], s[j])

LEMMA Placed ==
  ASSUME NEW S, NEW order, NEW score, Scored(S, order, score), NEW n, n = Len(order)
  PROVE  /\ n \in Nat /\ order \in [1 .. n -> S]
         /\ \A e \in S : Pos(order, e) \in 1 .. n /\ order[Pos(order, e)] = e /\ score[e] \in 0 .. 2
         /\ \A i \in 1 .. n : Pos(order, order[i]) = i
<1>1. /\ n \in Nat /\ order \in [1 .. n -> S]
      /\ \A i, j \in 1 .. n : order[i] = order[j] => i = j
      /\ \A e \in S : \E i \in 1 .. n : order[i] = e
  BY Listed DEF Scored
<1>2. DOMAIN order = 1 .. n BY <1>1
<1>3. \A e \in S : Pos(order, e) \in 1 .. n /\ order[Pos(order, e)] = e BY <1>1, <1>2 DEF Pos
<1>4. \A i \in 1 .. n : order[i] \in S BY <1>1
<1>5. \A i \in 1 .. n : Pos(order, order[i]) = i BY <1>1, <1>3, <1>4
<1>6. \A e \in S : score[e] \in 0 .. 2 BY DEF Scored
<1> QED BY <1>1, <1>3, <1>5, <1>6

LEMMA InsertSorts ==
  ASSUME NEW S, NEW order, NEW score, Scored(S, order, score),
         NEW n \in Nat, n < Len(order), NEW s, IsSorted(s, n, S, order, score),
         NEW e, e = order[n + 1], NEW r, r = Mem!Insert(s, e, score)
  PROVE  IsSorted(r, n + 1, S, order, score)
<1>1. PICK N : N = Len(order) OBVIOUS
<1>2. /\ N \in Nat /\ order \in [1 .. N -> S]
      /\ \A d \in S : Pos(order, d) \in 1 .. N /\ order[Pos(order, d)] = d /\ score[d] \in 0 .. 2
      /\ \A i \in 1 .. N : Pos(order, order[i]) = i
  <2> HIDE DEF Scored, IsSorted
  <2>1. Scored(S, order, score) /\ N = Len(order) BY <1>1
  <2> QED BY <2>1, Placed
<1>3. n + 1 \in 1 .. N BY <1>1, <1>2
<1>4. e \in S /\ Pos(order, e) = n + 1 /\ score[e] \in 0 .. 2 BY <1>2, <1>3
<1>5. /\ s \in [1 .. n -> S] /\ DOMAIN s = 1 .. n
      /\ \A d \in S : Pos(order, d) <= n <=> \E i \in 1 .. n : s[i] = d
      /\ \A i, j \in 1 .. n : i < j => Ahead(order, score, s[i], s[j])
  BY DEF IsSorted
<1>6. \A i \in 1 .. n : /\ s[i] \in S /\ score[s[i]] \in 0 .. 2
                        /\ Pos(order, s[i]) \in 1 .. N /\ Pos(order, s[i]) <= n
  BY <1>2, <1>5
<1>7. PICK above : above = {i \in DOMAIN s : score[s[i]] >= score[e]} OBVIOUS
<1>8. PICK at : at = IF above = {} THEN 0 ELSE Mem!Max(above) OBVIOUS
<1> DEFINE x(h) == score[s[h]]
           y == score[e]
<1>9. y \in Int /\ \A i \in 1 .. n : x(i) \in Int /\ (i \in above <=> x(i) >= y)
  <2>1. y \in Int BY <1>4
  <2>2. ASSUME NEW i \in 1 .. n PROVE x(i) \in Int
    <3>1. score[s[i]] \in 0 .. 2 BY <1>6, Zenon
    <3> QED BY ONLY <3>1
  <2>3. \A i \in 1 .. n : i \in above <=> x(i) >= y BY <1>5, <1>7
  <2> QED BY <2>1, <2>2, <2>3
<1>10. \A i, j \in 1 .. n : i < j => x(i) >= x(j)
  <2> SUFFICES ASSUME NEW i \in 1 .. n, NEW j \in 1 .. n, i < j PROVE x(i) >= x(j) OBVIOUS
  <2>1. Ahead(order, score, s[i], s[j]) BY <1>5
  <2>2. x(i) > x(j) \/ x(i) = x(j) BY <2>1 DEF Ahead
  <2>3. x(i) \in Int /\ x(j) \in Int BY <1>9
  <2> HIDE DEF x
  <2> QED BY ONLY <2>2, <2>3
<1>11. above \subseteq 1 .. n BY <1>5, <1>7
<1>12. /\ at \in 0 .. n
       /\ \A i \in 1 .. n : i <= at => x(i) >= y
       /\ \A i \in 1 .. n : i > at => x(i) < y
  <2> HIDE DEF x, y
  <2>1. CASE above = {}
    <3>1. at = 0 BY <1>8, <2>1
    <3>2. ASSUME NEW i \in 1 .. n PROVE x(i) < y /\ ~(i <= at)
      <4>1. ~(x(i) >= y) /\ x(i) \in Int /\ y \in Int BY <1>9, <2>1
      <4> QED BY <3>1, <4>1
    <3> QED BY <3>1, <3>2
  <2>2. CASE above # {}
    <3>1. at \in above /\ \A i \in above : i <= at BY <1>8, <1>11, <2>2, LastOf
    <3>2. at \in 1 .. n /\ x(at) >= y BY <1>9, <1>11, <3>1
    <3>3. ASSUME NEW i \in 1 .. n, i <= at PROVE x(i) >= y
      <4>1. i = at \/ x(i) >= x(at) BY <1>10, <3>2, <3>3
      <4>2. x(i) \in Int /\ x(at) \in Int /\ y \in Int BY <1>9, <3>2
      <4> QED BY <3>2, <4>1, <4>2
    <3>4. ASSUME NEW i \in 1 .. n, i > at PROVE x(i) < y
      <4>1. i \notin above BY <3>1, <3>2, <3>4
      <4>2. ~(x(i) >= y) /\ x(i) \in Int /\ y \in Int BY <1>9, <4>1
      <4> QED BY <4>2
    <3> QED BY <3>2, <3>3, <3>4
  <2> QED BY <2>1, <2>2
<1>13. r = SubSeq(s, 1, at) \o <<e>> \o SubSeq(s, at + 1, Len(s))
  BY <1>7, <1>8 DEF Mem!Insert
<1>14. /\ r \in [1 .. n + 1 -> S]
       /\ \A i \in 1 .. n + 1 : r[i] = IF i <= at THEN s[i] ELSE IF i = at + 1 THEN e ELSE s[i - 1]
  <2> HIDE DEF x, y
  <2>1. at \in 0 .. n /\ e \in S /\ s \in [1 .. n -> S] BY <1>4, <1>5, <1>12
  <2>2. Spliced(S, n, s, at, e, r) BY <1>13, <2>1 DEF Spliced
  <2> QED BY ONLY <2>2, Inserted
<1>15. ASSUME NEW d \in S PROVE Pos(order, d) <= n + 1 <=> \E i \in 1 .. n + 1 : r[i] = d
  <2>1. ASSUME Pos(order, d) <= n PROVE \E i \in 1 .. n + 1 : r[i] = d
    <3>1. PICK i \in 1 .. n : s[i] = d BY <1>5, <2>1
    <3>2. CASE i <= at
      <4>1. i \in 1 .. n + 1 /\ r[i] = s[i] BY <1>12, <1>14, <3>2
      <4> QED BY <3>1, <4>1
    <3>3. CASE i > at
      <4>1. i + 1 \in 1 .. n + 1 /\ ~(i + 1 <= at) /\ i + 1 # at + 1 /\ (i + 1) - 1 = i BY <1>12, <3>3
      <4>2. r[i + 1] = s[i] BY <1>14, <4>1
      <4> QED BY <3>1, <4>1, <4>2
    <3> QED BY <1>12, <3>2, <3>3
  <2>2. at + 1 \in 1 .. n + 1 /\ r[at + 1] = e BY <1>12, <1>14
  <2>3. Pos(order, d) = n + 1 => d = e BY <1>2, <1>4
  <2>4. ASSUME NEW i \in 1 .. n + 1, r[i] = d PROVE Pos(order, d) <= n + 1
    <3>1. CASE i <= at
      <4>1. i \in 1 .. n /\ d = s[i] BY <1>12, <1>14, <2>4, <3>1
      <4>2. Pos(order, d) \in 1 .. N /\ Pos(order, d) <= n BY <1>6, <4>1
      <4>3. n \in Nat /\ N \in Nat BY <1>2
      <4> QED BY ONLY <4>2, <4>3
    <3>2. CASE i = at + 1 BY <1>4, <2>2, <2>4, <3>2
    <3>3. CASE i > at + 1
      <4>1. i - 1 \in 1 .. n /\ ~(i <= at) /\ i # at + 1 BY <1>12, <3>3
      <4>2. d = s[i - 1] BY <1>14, <2>4, <4>1
      <4>3. Pos(order, d) \in 1 .. N /\ Pos(order, d) <= n BY <1>6, <4>1, <4>2
      <4>4. n \in Nat /\ N \in Nat BY <1>2
      <4> QED BY ONLY <4>3, <4>4
    <3> QED BY <1>12, <3>1, <3>2, <3>3
  <2>5. Pos(order, d) \in Int BY <1>2
  <2> QED BY <2>1, <2>2, <2>3, <2>4, <2>5
<1>16. ASSUME NEW i \in 1 .. n, NEW j \in 1 .. n
       PROVE  /\ i <= at => Ahead(order, score, s[i], e)
              /\ j > at => Ahead(order, score, e, s[j])
  <2> HIDE DEF x, y
  <2>1. i <= at => x(i) >= y BY <1>12
  <2>2. j > at => x(j) < y BY <1>12
  <2>3. x(i) \in Int /\ x(j) \in Int /\ y \in Int BY <1>9
  <2>4. Pos(order, s[i]) < Pos(order, e) BY <1>4, <1>6
  <2>5. i <= at => x(i) > y \/ x(i) = y BY ONLY <2>1, <2>3
  <2>6. j > at => y > x(j) BY ONLY <2>2, <2>3
  <2> QED BY <2>4, <2>5, <2>6 DEF Ahead, x, y
<1>17. ASSUME NEW i \in 1 .. n + 1, NEW j \in 1 .. n + 1, i < j
       PROVE  Ahead(order, score, r[i], r[j])
  <2>1. CASE j <= at
    <3>1. i \in 1 .. n /\ j \in 1 .. n /\ i <= at BY <1>12, <1>17, <2>1
    <3>2. r[i] = s[i] /\ r[j] = s[j] BY <1>14, <2>1, <3>1
    <3> QED BY <1>5, <1>17, <3>1, <3>2
  <2>2. CASE j = at + 1
    <3>1. i \in 1 .. n /\ i <= at /\ ~(j <= at) BY <1>12, <1>17, <2>2
    <3>2. r[i] = s[i] /\ r[j] = e BY <1>14, <2>2, <3>1
    <3> QED BY <1>16, <3>1, <3>2
  <2>3. CASE j > at + 1
    <3>1. j - 1 \in 1 .. n /\ j - 1 > at /\ ~(j <= at) /\ j # at + 1 BY <1>12, <2>3
    <3>2. r[j] = s[j - 1] BY <1>14, <3>1
    <3>3. CASE i <= at
      <4>1. i \in 1 .. n /\ r[i] = s[i] /\ i < j - 1 BY <1>12, <1>14, <2>3, <3>1, <3>3
      <4> QED BY <1>5, <3>1, <3>2, <4>1
    <3>4. CASE i = at + 1
      <4>1. r[i] = e BY <1>12, <1>14, <3>4
      <4> QED BY <1>16, <3>1, <3>2, <4>1
    <3>5. CASE i > at + 1
      <4>1. i - 1 \in 1 .. n /\ ~(i <= at) /\ i # at + 1 /\ i - 1 < j - 1 BY <1>12, <1>17, <3>5
      <4>2. r[i] = s[i - 1] BY <1>14, <4>1
      <4> QED BY <1>5, <3>1, <3>2, <4>1, <4>2
    <3> QED BY <1>12, <3>3, <3>4, <3>5
  <2> QED BY <1>12, <2>1, <2>2, <2>3
<1> QED BY <1>14, <1>15, <1>17 DEF IsSorted

\* What the sort returns is sorted.
LEMMA SortSorts ==
  ASSUME NEW S, NEW order, NEW score, Scored(S, order, score)
  PROVE  IsSorted(Mem!sortScoredEntries(order, score), Len(order), S, order, score)
<1>1. Len(order) \in Nat /\ \A e \in S : Pos(order, e) \in 1 .. Len(order) BY Placed
<1>2. PICK s : Sorting(s, order, score) /\ Mem!sortScoredEntries(order, score) = s[Len(order)]
  BY <1>1, SortGoes
<1>3. PICK T : T = {n \in 0 .. Len(order) : ~IsSorted(s[n], n, S, order, score)} OBVIOUS
<1>4. ASSUME T # {} PROVE FALSE
  <2>1. PICK n \in T : \A m \in T : n <= m
    <3>1. T \subseteq Nat BY <1>3
    <3> QED BY <1>4, <3>1, Least
  <2>2. n \in 0 .. Len(order) /\ ~IsSorted(s[n], n, S, order, score) BY <1>3
  <2>3. CASE n = 0
    <3>1. PICK none : none = <<>> OBVIOUS
    <3>2. s[0] = none BY <1>1, <1>2, <3>1 DEF Sorting
    <3>3. none \in [1 .. 0 -> S] BY <3>1
    <3>4. 1 .. 0 = {} /\ \A e \in S : ~(Pos(order, e) <= 0) BY <1>1
    <3>5. IsSorted(none, 0, S, order, score) BY <3>3, <3>4 DEF IsSorted
    <3> QED BY <2>2, <2>3, <3>2, <3>5
  <2>4. CASE n # 0
    <3>1. n - 1 \in Nat /\ n - 1 \in 0 .. Len(order) /\ n - 1 \notin T /\ n - 1 < Len(order)
          /\ (n - 1) + 1 = n
      BY <1>1, <2>1, <2>2, <2>4
    <3>2. IsSorted(s[n - 1], n - 1, S, order, score) BY <1>3, <3>1
    <3>3. s[n] = Mem!Insert(s[n - 1], order[n], score) BY <1>2, <2>2, <2>4 DEF Sorting
    <3>4. IsSorted(s[n], n, S, order, score) BY <3>1, <3>2, <3>3, InsertSorts
    <3> QED BY <2>2, <3>4
  <2> QED BY <2>3, <2>4
<1>5. Len(order) \in 0 .. Len(order) BY <1>1
<1> QED BY <1>2, <1>3, <1>4, <1>5

\* In a sorted sequence an entry has so many ahead of it as its place says.
LEMMA AheadAre ==
  ASSUME NEW S, NEW order, NEW score, Scored(S, order, score),
         NEW n, n = Len(order), NEW s, IsSorted(s, n, S, order, score), NEW i \in 1 .. n
  PROVE  Cardinality({d \in S : Ahead(order, score, d, s[i])}) = i - 1
<1>1. /\ n \in Nat
      /\ \A e \in S : Pos(order, e) \in 1 .. n /\ score[e] \in 0 .. 2
  BY Placed
<1>2. /\ s \in [1 .. n -> S]
      /\ \A d \in S : \E j \in 1 .. n : s[j] = d
      /\ \A j, k \in 1 .. n : j < k => Ahead(order, score, s[j], s[k])
  BY <1>1 DEF IsSorted
<1>3. ASSUME NEW d \in S, NEW e \in S, Ahead(order, score, d, e)
      PROVE  ~Ahead(order, score, e, d) /\ d # e
  BY <1>1, <1>3 DEF Ahead
<1>4. PICK D : D = {d \in S : Ahead(order, score, d, s[i])} OBVIOUS
<1>5. PICK m : m = i - 1 OBVIOUS
<1>6. m \in Nat /\ \A j \in 1 .. m : j \in 1 .. n /\ j < i BY <1>1, <1>5
<1>7. PICK f : f = [j \in 1 .. m |-> s[j]] OBVIOUS
<1>8. \A j \in 1 .. m : f[j] = s[j] /\ s[j] \in D
  BY <1>2, <1>4, <1>6, <1>7
<1>9. f \in [1 .. m -> D] BY <1>7, <1>8
<1>10. ASSUME NEW j \in 1 .. m, NEW k \in 1 .. m, f[j] = f[k] PROVE j = k
  <2>1. s[j] = s[k] /\ s[j] \in S /\ j \in 1 .. n /\ k \in 1 .. n BY <1>2, <1>6, <1>8, <1>10
  <2>2. ~(j < k) /\ ~(k < j) BY <1>2, <1>3, <2>1
  <2> QED BY <2>1, <2>2
<1>11. ASSUME NEW d \in D PROVE \E j \in 1 .. m : f[j] = d
  <2>1. d \in S /\ Ahead(order, score, d, s[i]) /\ s[i] \in S BY <1>2, <1>4
  <2>2. PICK j \in 1 .. n : s[j] = d BY <1>2, <2>1
  <2>3. ~(i < j) BY <1>2, <1>3, <2>1, <2>2
  <2>4. j # i BY <1>3, <2>1, <2>2
  <2>5. j \in 1 .. m BY <1>5, <1>6, <2>3, <2>4
  <2> QED BY <1>8, <2>2, <2>5
<1>12. f \in Bijection(1 .. m, D)
  BY <1>9, <1>10, <1>11 DEF Bijection, Injection, Surjection, IsInjective
<1>13. ExistsBijection(1 .. m, D) BY <1>12 DEF ExistsBijection
<1>14. Cardinality(D) = m BY <1>6, <1>13, FS_CountingElements
<1> QED BY <1>4, <1>5, <1>14

-----------------------------------------------------------------------------
(* The table, its index and the searches *)

JobType == [pc : Mem!Pcs, at : Nat, embedder : BOOLEAN]

\* The index has entries of the table only, and those that were saved; a job
\* whose row is in is about to enter it.
StoreFits ==
  /\ IsFiniteSet(rows) /\ vectors \subseteq rows /\ index \subseteq rows /\ memsaved \subseteq index
  /\ job \in [Jobs -> JobType]
  /\ \A j \in Jobs : job[j].pc = "index" => Mem!Entry(j) \in rows

\* A search by text, unless refused, has filled its limit; a hybrid one has the best first.
FoundFits ==
  /\ found.kind = "text" => Len(found.out) = Mem!Min({Limit, Len(found.order)})
  /\ Mem!BestComeFirst

MemoryInv == StoreFits /\ FoundFits

LEMMA SearchFits == StoreFits /\ Mem!Search => FoundFits'
<1> SUFFICES ASSUME StoreFits, Mem!Search PROVE FoundFits' OBVIOUS
<1>1. PICK matched \in SUBSET index :
        \E best \in Mem!kSubset(Mem!Min({Limit, Mem!Cardinality(matched)}), matched) :
          found' = [kind |-> "text", order |-> Mem!SetToSeq(matched), score |-> <<>>,
                    out |-> Mem!SetToSeq(best \cap rows)]
  BY DEF Mem!Search
<1>2. PICK best \in Mem!kSubset(Mem!Min({Limit, Mem!Cardinality(matched)}), matched) :
        found' = [kind |-> "text", order |-> Mem!SetToSeq(matched), score |-> <<>>,
                  out |-> Mem!SetToSeq(best \cap rows)]
  BY <1>1
<1>3. best \subseteq matched /\ Cardinality(best) = Mem!Min({Limit, Cardinality(matched)})
  BY MemCounts DEF Mem!kSubset
<1>4. index \subseteq rows /\ IsFiniteSet(rows) BY DEF StoreFits
<1>5. IsFiniteSet(matched) /\ IsFiniteSet(best) /\ best \cap rows = best
  <2>1. matched \subseteq rows /\ best \subseteq rows BY <1>1, <1>3, <1>4
  <2> QED BY <1>4, <2>1, FS_Subset
<1>6. Len(Mem!SetToSeq(matched)) = Cardinality(matched) BY <1>5, Listed
<1>7. Len(Mem!SetToSeq(best)) = Cardinality(best) BY <1>5, Listed
<1>8. /\ found'.kind = "text" /\ found'.order = Mem!SetToSeq(matched)
      /\ found'.out = Mem!SetToSeq(best)
  BY <1>2, <1>5
<1>9. Len(found'.out) = Mem!Min({Limit, Len(found'.order)}) BY <1>3, <1>6, <1>7, <1>8
<1> QED BY <1>8, <1>9 DEF FoundFits, Mem!BestComeFirst

LEMMA HybridFits == StoreFits /\ Mem!SearchHybrid => FoundFits'
<1> SUFFICES ASSUME StoreFits, Mem!SearchHybrid PROVE FoundFits' OBVIOUS
<1>1. PICK order : order = Mem!SetToSeq(vectors) OBVIOUS
<1>2. PICK score \in [vectors -> 0 .. 2] :
        LET sorted == Mem!sortScoredEntries(order, score)
        IN  found' = [kind |-> "hybrid", order |-> order, score |-> score,
                      out |-> SubSeq(sorted, 1, Mem!Min({Limit, Len(sorted)}))]
  BY <1>1 DEF Mem!SearchHybrid
<1>3. PICK s : s = Mem!sortScoredEntries(order, score) OBVIOUS
<1>4. PICK out : out = SubSeq(s, 1, Mem!Min({Limit, Len(s)})) OBVIOUS
<1>5. /\ found'.kind = "hybrid" /\ found'.order = order /\ found'.score = score /\ found'.out = out
  BY <1>2, <1>3, <1>4
<1>6. IsFiniteSet(vectors) BY FS_Subset DEF StoreFits
<1>7. Scored(vectors, order, score) BY <1>1, <1>2, <1>6 DEF Scored
<1>8. PICK n : n = Len(order) OBVIOUS
<1>9. /\ n \in Nat /\ order \in [1 .. n -> vectors]
      /\ \A e \in vectors : Pos(order, e) \in 1 .. n /\ order[Pos(order, e)] = e
  BY <1>7, <1>8, Placed
<1>10. IsSorted(s, n, vectors, order, score) BY <1>3, <1>7, <1>8, SortSorts
<1>11. s \in [1 .. n -> vectors] /\ s \in Seq(vectors) /\ Len(s) = n
  BY <1>9, <1>10 DEF IsSorted
<1>12. PICK m : m = Mem!Min({Limit, n}) OBVIOUS
<1>13. m \in Nat /\ m <= n
  <2>1. Limit \in Nat BY ServicesAssumption
  <2>2. m = IF Limit <= n THEN Limit ELSE n BY <1>9, <1>12, <2>1, MinOfTwo
  <2> QED BY <1>9, <2>1, <2>2
<1>14. Len(out) = m /\ DOMAIN out = 1 .. m /\ \A i \in 1 .. m : out[i] = s[i]
  <2>1. out = SubSeq(s, 1, m) BY <1>4, <1>11, <1>12
  <2> QED BY <1>11, <1>13, <2>1
<1>15. {order[i] : i \in DOMAIN order} = vectors BY <1>9
<1>16. Mem!ToSet(order) = vectors BY <1>15 DEF Mem!ToSet
<1>17. ASSUME NEW i \in 1 .. m
       PROVE  Cardinality({d \in vectors : Ahead(order, score, d, out[i])}) = i - 1
  <2>1. i \in 1 .. n BY <1>9, <1>13
  <2>2. Cardinality({d \in vectors : Ahead(order, score, d, s[i])}) = i - 1
    BY <1>7, <1>8, <1>10, <2>1, AheadAre
  <2> QED BY <1>14, <2>2
<1>18. Mem!BestComeFirst'
  <2>1. Len(found'.out) = Mem!Min({Limit, Len(found'.order)}) BY <1>5, <1>8, <1>12, <1>14
  <2>2. ASSUME NEW i \in DOMAIN found'.out
        PROVE  Mem!Cardinality({d \in Mem!ToSet(found'.order) :
                 \/ found'.score[d] > found'.score[found'.out[i]]
                 \/ /\ found'.score[d] = found'.score[found'.out[i]]
                    /\ (CHOOSE k \in DOMAIN found'.order : found'.order[k] = d)
                         < (CHOOSE k \in DOMAIN found'.order : found'.order[k] = found'.out[i])})
               = i - 1
    <3>1. i \in 1 .. m BY <1>5, <1>14
    <3> QED BY <1>5, <1>16, <1>17, <3>1, MemCounts DEF Ahead, Pos
  <2> QED BY <2>1, <2>2 DEF Mem!BestComeFirst
<1> QED BY <1>5, <1>18 DEF FoundFits

\* A job goes on, with its chunk or the next.
LEMMA JobMoves ==
  ASSUME job \in [Jobs -> JobType], NEW j \in Jobs
  PROVE  /\ \A pc \in Mem!Pcs : Mem!Goto(j, pc) =>
              /\ job' \in [Jobs -> JobType] /\ job'[j].pc = pc /\ Mem!Entry(j)' = Mem!Entry(j)
              /\ \A k \in Jobs \ {j} : job'[k] = job[k]
         /\ Mem!NextChunk(j) =>
              /\ job' \in [Jobs -> JobType] /\ job'[j].pc = "chunk"
              /\ \A k \in Jobs \ {j} : job'[k] = job[k]
<1>1. ASSUME NEW pc \in Mem!Pcs, Mem!Goto(j, pc)
      PROVE  /\ job' \in [Jobs -> JobType] /\ job'[j].pc = pc /\ Mem!Entry(j)' = Mem!Entry(j)
             /\ \A k \in Jobs \ {j} : job'[k] = job[k]
  <2>1. PICK r : r = [job[j] EXCEPT !.pc = pc] OBVIOUS
  <2>2. r \in JobType /\ r.pc = pc /\ r.at = job[j].at BY <2>1 DEF JobType
  <2>3. job' = [job EXCEPT ![j] = r] BY <1>1, <2>1 DEF Mem!Goto
  <2>4. job'[j] = r BY <2>3
  <2> QED BY <2>2, <2>3, <2>4 DEF Mem!Entry
<1>2. ASSUME Mem!NextChunk(j)
      PROVE  /\ job' \in [Jobs -> JobType] /\ job'[j].pc = "chunk"
             /\ \A k \in Jobs \ {j} : job'[k] = job[k]
  <2>1. PICK q \in JobType : q = job[j] OBVIOUS
  <2>2. PICK r : r = [q EXCEPT !.pc = "chunk", !.at = q.at + 1] OBVIOUS
  <2>3. r \in JobType /\ r.pc = "chunk"
    <3>1. "chunk" \in Mem!Pcs BY DEF Mem!Pcs
    <3>2. q.pc \in Mem!Pcs /\ q.at \in Nat /\ q.embedder \in BOOLEAN BY <2>1 DEF JobType
    <3>3. r = [pc |-> "chunk", at |-> q.at + 1, embedder |-> q.embedder] BY <2>1, <2>2 DEF JobType
    <3> QED BY <3>1, <3>2, <3>3 DEF JobType
  <2>4. job' = [job EXCEPT ![j].pc = "chunk", ![j].at = job[j].at + 1]
    BY <1>2 DEF Mem!NextChunk
  <2>5. job' = [job EXCEPT ![j] = r] BY <2>1, <2>2, <2>4 DEF JobType
  <2> QED BY <2>3, <2>5
<1> QED BY <1>1, <1>2

LEMMA MemoryKept == MemoryInv /\ Mem!Next => MemoryInv'
<1> SUFFICES ASSUME MemoryInv, Mem!Next PROVE MemoryInv' OBVIOUS
<1>1. /\ IsFiniteSet(rows) /\ vectors \subseteq rows /\ index \subseteq rows /\ memsaved \subseteq index
      /\ job \in [Jobs -> JobType]
      /\ \A j \in Jobs : job[j].pc = "index" => Mem!Entry(j) \in rows
      /\ FoundFits
  BY DEF MemoryInv, StoreFits
<1>2. ASSUME UNCHANGED found PROVE FoundFits'
  BY <1>1, <1>2 DEF FoundFits, Mem!BestComeFirst
<1>3. ASSUME UNCHANGED <<rows, vectors, index, job, memsaved>> PROVE StoreFits'
  BY <1>1, <1>3 DEF StoreFits, Mem!Entry
<1>4. CASE Mem!Search
  BY <1>1, <1>3, <1>4, SearchFits DEF MemoryInv, Mem!Search
<1>5. CASE Mem!SearchHybrid
  BY <1>1, <1>3, <1>5, HybridFits DEF MemoryInv, Mem!SearchHybrid
<1>8. CASE Mem!SearchRefused
  <2>1. /\ found' = [Mem!Nothing EXCEPT !.kind = "refused"]
        /\ UNCHANGED <<rows, vectors, index, job, memsaved>>
    BY <1>8 DEF Mem!SearchRefused
  <2>2. found'.kind = "refused" BY <2>1 DEF Mem!Nothing
  <2> QED BY <1>3, <2>1, <2>2 DEF MemoryInv, FoundFits, Mem!BestComeFirst
<1>6. CASE Mem!Read
  <2>1. found' = Mem!Nothing /\ UNCHANGED <<rows, vectors, index, job, memsaved>>
    BY <1>6 DEF Mem!Read
  <2>2. found'.kind = "none" BY <2>1 DEF Mem!Nothing
  <2> QED BY <1>3, <2>1, <2>2 DEF MemoryInv, FoundFits, Mem!BestComeFirst
<1>7. ASSUME NEW j \in Jobs,
             \/ Mem!Extract(j) \/ Mem!SkipShort(j) \/ Mem!TakeChunk(j) \/ Mem!InsertRow(j)
             \/ Mem!InsertIndex(j) \/ Mem!Fail(j) \/ Mem!Finish(j)
      PROVE  MemoryInv'
  <2>1. FoundFits'
    BY <1>2, <1>7 DEF Mem!Extract, Mem!SkipShort, Mem!TakeChunk, Mem!InsertRow, Mem!InsertIndex, Mem!Fail, Mem!Finish
  <2>2. ASSUME NEW pc \in {"chunk", "row", "embed", "done", "failed"}, Mem!Goto(j, pc),
               UNCHANGED <<rows, vectors, index, memsaved>>
        PROVE  StoreFits'
    <3>1. /\ job' \in [Jobs -> JobType] /\ job'[j].pc = pc
          /\ \A k \in Jobs \ {j} : job'[k] = job[k]
      BY <1>1, <2>2, JobMoves DEF Mem!Pcs
    <3>2. \A k \in Jobs \ {j} : Mem!Entry(k)' = Mem!Entry(k) BY <3>1 DEF Mem!Entry
    <3>3. \A k \in Jobs : job'[k].pc = "index" => Mem!Entry(k)' \in rows' BY <1>1, <2>2, <3>1, <3>2
    <3> QED BY <1>1, <2>2, <3>1, <3>3 DEF StoreFits
  <2>3. CASE Mem!Extract(j)
    <3>1. Mem!Goto(j, "chunk") /\ UNCHANGED <<rows, vectors, index, memsaved>> BY <2>3 DEF Mem!Extract
    <3> QED BY <2>1, <2>2, <3>1 DEF MemoryInv
  <2>4. CASE Mem!Fail(j)
    <3>1. Mem!Goto(j, "failed") /\ UNCHANGED <<rows, vectors, index, memsaved>> BY <2>4 DEF Mem!Fail
    <3> QED BY <2>1, <2>2, <3>1 DEF MemoryInv
  <2>5. CASE Mem!Finish(j)
    <3>1. Mem!Goto(j, "done") /\ UNCHANGED <<rows, vectors, index, memsaved>> BY <2>5 DEF Mem!Finish
    <3> QED BY <2>1, <2>2, <3>1 DEF MemoryInv
  <2>6. CASE Mem!TakeChunk(j)
    <3>1. PICK pc \in {"row", "embed"} : Mem!Goto(j, pc) BY <2>6 DEF Mem!TakeChunk
    <3>2. UNCHANGED <<rows, vectors, index, memsaved>> BY <2>6 DEF Mem!TakeChunk
    <3> QED BY <2>1, <2>2, <3>1, <3>2 DEF MemoryInv
  <2>7. ASSUME Mem!NextChunk(j), UNCHANGED <<rows, vectors>>,
               index' \subseteq rows, memsaved' \subseteq index'
        PROVE  StoreFits'
    <3>1. /\ job' \in [Jobs -> JobType] /\ job'[j].pc = "chunk"
          /\ \A k \in Jobs \ {j} : job'[k] = job[k]
      BY <1>1, <2>7, JobMoves
    <3>2. \A k \in Jobs \ {j} : Mem!Entry(k)' = Mem!Entry(k) BY <3>1 DEF Mem!Entry
    <3>3. \A k \in Jobs : job'[k].pc = "index" => Mem!Entry(k)' \in rows' BY <1>1, <2>7, <3>1, <3>2
    <3> QED BY <1>1, <2>7, <3>1, <3>3 DEF StoreFits
  <2>8. CASE Mem!SkipShort(j)
    <3>1. Mem!NextChunk(j) /\ UNCHANGED <<rows, vectors>> /\ index' = index /\ memsaved' = memsaved
      BY <2>8 DEF Mem!SkipShort
    <3>2. index' \subseteq rows /\ memsaved' \subseteq index' BY <1>1, <3>1
    <3> QED BY <2>1, <2>7, <3>1, <3>2 DEF MemoryInv
  <2>9. CASE Mem!InsertIndex(j)
    <3>1. /\ job[j].pc = "index" /\ Mem!NextChunk(j) /\ UNCHANGED <<rows, vectors>>
          /\ index' = index \cup {Mem!Entry(j)} /\ memsaved' = memsaved \cup {Mem!Entry(j)}
      BY <2>9 DEF Mem!InsertIndex
    <3>2. index' \subseteq rows /\ memsaved' \subseteq index' BY <1>1, <3>1
    <3> QED BY <2>1, <2>7, <3>1, <3>2 DEF MemoryInv
  <2>10. CASE Mem!InsertRow(j)
    <3>1. /\ rows' = rows \cup {Mem!Entry(j)} /\ vectors' \subseteq vectors \cup {Mem!Entry(j)}
          /\ Mem!Goto(j, "index") /\ UNCHANGED <<index, memsaved>>
      BY <2>10 DEF Mem!InsertRow
    <3>2. /\ job' \in [Jobs -> JobType] /\ job'[j].pc = "index" /\ Mem!Entry(j)' = Mem!Entry(j)
          /\ \A k \in Jobs \ {j} : job'[k] = job[k]
      BY <1>1, <3>1, JobMoves DEF Mem!Pcs
    <3>3. \A k \in Jobs \ {j} : Mem!Entry(k)' = Mem!Entry(k) BY <3>2 DEF Mem!Entry
    <3>4. IsFiniteSet(rows') BY <1>1, <3>1, FS_AddElement
    <3>5. \A k \in Jobs : job'[k].pc = "index" => Mem!Entry(k)' \in rows' BY <1>1, <3>1, <3>2, <3>3
    <3>6. vectors' \subseteq rows' /\ index' \subseteq rows' /\ memsaved' \subseteq index' BY <1>1, <3>1
    <3> QED BY <2>1, <3>2, <3>4, <3>5, <3>6 DEF StoreFits, MemoryInv
  <2> QED BY <1>7, <2>3, <2>4, <2>5, <2>6, <2>8, <2>9, <2>10
<1> QED BY <1>4, <1>5, <1>6, <1>7, <1>8 DEF Mem!Next

\* What Save has acknowledged is in the index, which names rows only, so that a
\* search by text (Search) that is not refused has as many results as match, up to
\* its limit, in no order; and a hybrid search (SearchHybrid, sortScoredEntries)
\* returns the best of its candidates, the best one first and equals in the order
\* they were read.  For any number of extractions and chunks and any limit.
THEOREM SavedAreFound == ServicesSpec => []SavedIsFound
<1>1. ServicesInit => MemoryInv
  <2> SUFFICES ASSUME Mem!Init PROVE MemoryInv BY DEF ServicesInit
  <2>1. rows = {} /\ vectors = {} /\ index = {} /\ memsaved = {} BY DEF Mem!Init
  <2>2. job \in [Jobs -> [pc : {"idle"}, at : {1}, embedder : BOOLEAN]] BY DEF Mem!Init
  <2>3. job \in [Jobs -> JobType] /\ \A j \in Jobs : job[j].pc = "idle"
    BY <2>2 DEF JobType, Mem!Pcs
  <2>4. found.kind = "none" BY DEF Mem!Init, Mem!Nothing
  <2> QED BY <2>1, <2>3, <2>4, FS_EmptySet DEF MemoryInv, StoreFits, FoundFits, Mem!BestComeFirst
<1>2. MemoryInv /\ [ServicesNext]_servicevars => MemoryInv'
  <2> SUFFICES ASSUME MemoryInv, [ServicesNext]_servicevars PROVE MemoryInv' OBVIOUS
  <2>1. CASE Mem!Next BY <2>1, MemoryKept
  <2>2. CASE UNCHANGED memvars
    BY <2>2 DEF memvars, MemoryInv, StoreFits, FoundFits, Mem!Entry, Mem!BestComeFirst
  <2> QED BY <2>1, <2>2, OneMoves
<1>3. MemoryInv => SavedIsFound
  BY DEF MemoryInv, StoreFits, FoundFits, SavedIsFound, Mem!SavedIsFound
<1> QED BY <1>1, <1>2, <1>3, PTL DEF ServicesSpec

-----------------------------------------------------------------------------
(* Webhooks *)

IsSeq(s) == s \in Seq({s[i] : i \in DOMAIN s})

\* The webhooks that the loop has passed and that wanted the request.
PassedBy == {k \in Hook!Wanted : k < step.at}

\* An attempt has made the tasks of those it has passed; no task is of a later one.
StepFits ==
  /\ step = [pc |-> step.pc, req |-> step.req, listed |-> step.listed, at |-> step.at,
             attempt |-> step.attempt]
  /\ IsSeq(step.listed) /\ step.at \in 1 .. Len(step.listed) + 1 /\ step.attempt \in Nat
  /\ step.pc \in {"idle", "loop", "failed", "answered"}
  /\ step.pc = "answered" => step.at = Len(step.listed) + 1
TasksFit ==
  /\ IsSeq(tasks)
  /\ \A i \in DOMAIN tasks :
       /\ tasks[i].attempt \in 0 .. step.attempt
       /\ tasks[i].title = "empty" => step.req.title = "empty"
WebhookInv ==
  /\ StepFits /\ TasksFit
  /\ step.pc # "idle" => Hook!AreFor(Hook!MadeBy(step.attempt), PassedBy)

LEMMA SeqOf ==
  ASSUME NEW n \in Nat, NEW s, s = [i \in 1 .. n |-> s[i]]
  PROVE  IsSeq(s) /\ Len(s) = n /\ DOMAIN s = 1 .. n
<1>1. DOMAIN s = 1 .. n OBVIOUS
<1>2. PICK S : S = {s[i] : i \in 1 .. n} OBVIOUS
<1>3. s \in [1 .. n -> S] BY <1>2
<1>4. s \in Seq(S) /\ Len(s) = n BY <1>3
<1> QED BY <1>1, <1>2, <1>4 DEF IsSeq

LEMMA SeqAppend ==
  ASSUME NEW s, IsSeq(s), NEW x
  PROVE  /\ IsSeq(Append(s, x)) /\ DOMAIN Append(s, x) = DOMAIN s \cup {Len(s) + 1}
         /\ Len(s) \in Nat /\ DOMAIN s = 1 .. Len(s)
         /\ Append(s, x)[Len(s) + 1] = x
         /\ \A i \in DOMAIN s : Append(s, x)[i] = s[i]
<1>1. PICK S : S = {s[i] : i \in DOMAIN s} /\ s \in Seq(S) BY DEF IsSeq
<1>2. PICK R : R = S \cup {x} OBVIOUS
<1>3. s \in Seq(R) /\ x \in R BY <1>1, <1>2
<1>4. PICK r : r = Append(s, x) OBVIOUS
<1>5. /\ r \in Seq(R) /\ Len(r) = Len(s) + 1 /\ Len(s) \in Nat /\ r[Len(s) + 1] = x
      /\ \A i \in 1 .. Len(s) : r[i] = s[i]
  BY <1>3, <1>4
<1>6. DOMAIN r = 1 .. Len(s) + 1 /\ DOMAIN s = 1 .. Len(s) BY <1>3, <1>5
<1>7. 1 .. Len(s) + 1 = 1 .. Len(s) \cup {Len(s) + 1} BY <1>5
<1>8. r = [i \in 1 .. Len(s) + 1 |-> r[i]] BY <1>5, <1>6
<1>9. Len(s) + 1 \in Nat BY <1>5
<1>10. IsSeq(r) BY <1>8, <1>9, SeqOf
<1> QED BY <1>4, <1>5, <1>6, <1>7, <1>10

\* The listed webhooks are as many as the source has, which are finitely many.
LEMMA CountIs == \A S : IsFiniteSet(S) => Hook!Cardinality(S) \in Nat
<1>1. \A S : Hook!Cardinality(S) = Cardinality(S)
  BY DEF Hook!Cardinality, Cardinality, Hook!IsFiniteSet, IsFiniteSet
<1> QED BY <1>1, FS_CardinalityType

LEMMA ListIs ==
  ASSUME NEW source
  PROVE  IsSeq(Hook!GetBySource(source))
<1> DEFINE has == {h \in HookIds : hooks[h].source = source /\ hooks[h].enabled}
           id(i) == CHOOSE h \in has : Hook!Cardinality({g \in has : g <= h}) = i
           of(i) == <<hooks[id(i)], id(i)>>
           n == Hook!Cardinality(has)
<1>1. Hook!GetBySource(source) = [i \in 1 .. n |-> of(i)]
  BY DEF Hook!GetBySource
<1>2. IsFiniteSet(has) BY ServicesAssumption, FS_Subset
<1>3. n \in Nat BY <1>2, CountIs
<1> HIDE DEF n, of
<1>4. PICK F : F = [i \in 1 .. n |-> of(i)] OBVIOUS
<1>5. F = [i \in 1 .. n |-> F[i]] BY <1>4
<1> QED BY <1>1, <1>3, <1>4, <1>5, SeqOf

\* A task for the next webhook that wants one.
LEMMA OneMoreTask ==
  ASSUME WebhookInv, step.pc = "loop", step.at <= Len(step.listed),
         step.at \in Hook!Wanted, UNCHANGED secrets,
         NEW t, tasks' = Append(tasks, t), t.attempt = step.attempt,
         t.hook = step.listed[step.at][2],
         step' = [step EXCEPT !.at = @ + 1]
  PROVE  Hook!AreFor(Hook!MadeBy(step.attempt), PassedBy)'
<1>1. PICK made : made = Hook!MadeBy(step.attempt) OBVIOUS
<1>2. PICK n : n = Len(tasks) + 1 OBVIOUS
<1>3. PICK k : k = step.at OBVIOUS
<1>4. /\ Len(tasks) \in Nat /\ DOMAIN tasks = 1 .. Len(tasks) /\ DOMAIN tasks' = DOMAIN tasks \cup {n}
      /\ tasks'[n] = t /\ \A i \in DOMAIN tasks : tasks'[i] = tasks[i]
  BY <1>2, SeqAppend DEF WebhookInv, TasksFit
<1>5. /\ step'.at = k + 1 /\ step'.listed = step.listed /\ step'.attempt = step.attempt
      /\ step'.req = step.req /\ k \in Nat
  <2>1. PICK r : r = step /\ r = [pc |-> r.pc, req |-> r.req, listed |-> r.listed, at |-> r.at,
                                  attempt |-> r.attempt]
    BY DEF WebhookInv, StepFits
  <2>2. step' = [r EXCEPT !.at = r.at + 1] BY <2>1
  <2>3. Len(step.listed) \in Nat /\ step.at \in 1 .. Len(step.listed) + 1
    BY SeqAppend DEF WebhookInv, StepFits
  <2> QED BY <1>3, <2>1, <2>2, <2>3
<1>6. n \notin DOMAIN tasks /\ \A i \in DOMAIN tasks : i < n /\ ~(n < i)
  BY <1>2, <1>4
<1>7. made \subseteq DOMAIN tasks /\ Hook!MadeBy(step.attempt)' = made \cup {n}
  BY <1>1, <1>4, <1>5, <1>6 DEF Hook!MadeBy
<1>8. /\ PassedBy \subseteq 1 .. k - 1 /\ PassedBy' = PassedBy \cup {k}
  <2>1. Hook!Wanted' = Hook!Wanted
    BY <1>5 DEF Hook!Wanted, Hook!Accepts, Hook!Verified
  <2>2. Hook!Wanted \subseteq 1 .. Len(step.listed) /\ Len(step.listed) \in Nat
    BY SeqAppend DEF Hook!Wanted, WebhookInv, StepFits
  <2> QED BY <1>3, <1>5, <2>1, <2>2 DEF PassedBy
<1>9. PICK place \in [made -> PassedBy] :
        /\ {place[i] : i \in made} = PassedBy
        /\ \A i, j \in made : i < j => place[i] < place[j]
        /\ \A i \in made : tasks[i].hook = step.listed[place[i]][2]
  BY <1>1 DEF WebhookInv, Hook!AreFor
<1>10. PICK q : q = [i \in made \cup {n} |-> IF i = n THEN k ELSE place[i]] OBVIOUS
<1>11. /\ q \in [made \cup {n} -> PassedBy \cup {k}] /\ q[n] = k
       /\ \A i \in made : q[i] = place[i] /\ q[i] \in PassedBy
  BY <1>6, <1>7, <1>9, <1>10
<1>12. {q[i] : i \in made \cup {n}} = PassedBy \cup {k}
  BY <1>9, <1>11
<1>13. ASSUME NEW i \in made \cup {n}, NEW j \in made \cup {n}, i < j PROVE q[i] < q[j]
  <2>1. CASE i \in made /\ j \in made BY <1>9, <1>11, <1>13, <2>1
  <2>2. CASE i \in made /\ j = n BY <1>5, <1>8, <1>11, <2>2
  <2>3. CASE i = n /\ j \in made BY <1>6, <1>7, <1>13, <2>3
  <2>4. CASE i = n /\ j = n BY <1>2, <1>4, <1>13, <2>4
  <2> QED BY <1>13, <2>1, <2>2, <2>3, <2>4
<1>14. \A i \in made \cup {n} : tasks'[i].hook = step'.listed[q[i]][2]
  BY <1>3, <1>4, <1>5, <1>7, <1>9, <1>11
<1> QED BY <1>7, <1>8, <1>11, <1>12, <1>13, <1>14 DEF Hook!AreFor

\* What is in hand stays when only the place changes, past what is not wanted.
LEMMA SameTasks ==
  ASSUME UNCHANGED <<secrets, tasks>>, step'.listed = step.listed, step'.req = step.req,
         step'.attempt = step.attempt, PassedBy' = PassedBy,
         Hook!AreFor(Hook!MadeBy(step.attempt), PassedBy)
  PROVE  Hook!AreFor(Hook!MadeBy(step.attempt), PassedBy)'
<1>1. PICK made : made = Hook!MadeBy(step.attempt) OBVIOUS
<1>2. Hook!MadeBy(step.attempt)' = made BY <1>1 DEF Hook!MadeBy
<1>3. PICK place \in [made -> PassedBy] :
        /\ {place[i] : i \in made} = PassedBy
        /\ \A i, j \in made : i < j => place[i] < place[j]
        /\ \A i \in made : tasks[i].hook = step.listed[place[i]][2]
  BY <1>1 DEF Hook!AreFor
<1>4. \A i \in made : tasks'[i].hook = step'.listed[place[i]][2] BY <1>3
<1> QED BY <1>2, <1>3, <1>4 DEF Hook!AreFor

\* What rests keeps its invariant.
LEMMA WebhookRests ==
  ASSUME WebhookInv, UNCHANGED <<secrets, step, tasks>>
  PROVE  WebhookInv'
<1>1. StepFits' BY DEF WebhookInv, StepFits
<1>2. TasksFit' BY DEF WebhookInv, TasksFit
<1>3. Hook!Wanted' = Hook!Wanted BY DEF Hook!Wanted, Hook!Accepts, Hook!Verified
<1>4. PassedBy' = PassedBy BY <1>3 DEF PassedBy
<1>5. UNCHANGED secrets /\ UNCHANGED step /\ UNCHANGED tasks OBVIOUS
<1> QED BY <1>1, <1>2, <1>4, <1>5, SameTasks DEF WebhookInv

\* With no list and no task of the attempt there is nothing to do.
LEMMA NoTasks ==
  ASSUME Hook!MadeBy(step.attempt)' = {}, PassedBy' = {}
  PROVE  Hook!AreFor(Hook!MadeBy(step.attempt), PassedBy)'
<1>1. PICK place : place = [i \in {} |-> 0] OBVIOUS
<1>2. place \in [{} -> {}] /\ {place[i] : i \in {}} = {} BY <1>1
<1> QED BY <1>2 DEF Hook!AreFor

LEMMA WebhookKept == WebhookInv /\ Hook!Next => WebhookInv'
<1> SUFFICES ASSUME WebhookInv, Hook!Next PROVE WebhookInv' OBVIOUS
<1> DEFINE Stays == UNCHANGED <<secrets, tasks>>
<1>1. PICK r : /\ r = step
               /\ r = [pc |-> r.pc, req |-> r.req, listed |-> r.listed, at |-> r.at, attempt |-> r.attempt]
  BY DEF WebhookInv, StepFits
<1>2. /\ IsSeq(step.listed) /\ Len(step.listed) \in Nat /\ DOMAIN step.listed = 1 .. Len(step.listed)
      /\ step.at \in 1 .. Len(step.listed) + 1 /\ step.attempt \in Nat
      /\ step.pc \in {"idle", "loop", "failed", "answered"}
      /\ step.pc = "answered" => step.at = Len(step.listed) + 1
      /\ step.pc # "idle" => Hook!AreFor(Hook!MadeBy(step.attempt), PassedBy)
      /\ Hook!Wanted \subseteq 1 .. Len(step.listed)
  BY SeqAppend DEF WebhookInv, StepFits, Hook!Wanted
<1>3. /\ IsSeq(tasks)
      /\ \A i \in DOMAIN tasks : /\ tasks[i].attempt \in 0 .. step.attempt
                                 /\ tasks[i].title = "empty" => step.req.title = "empty"
  BY DEF WebhookInv, TasksFit
<1>4. ASSUME UNCHANGED <<secrets, step, tasks>> PROVE WebhookInv'
  BY <1>4, WebhookRests
<1>5. CASE \E h \in HookIds : Hook!Delete(h) \/ \E cfg \in HookConfigs : Hook!Create(h, cfg)
  BY <1>4, <1>5 DEF Hook!Delete, Hook!Create
<1>6. ASSUME Stays, NEW pc \in {"loop", "answered"}, NEW listed, IsSeq(listed),
             pc = "answered" => listed = <<>>,
             step' = [step EXCEPT !.pc = pc, !.listed = listed, !.at = 1, !.attempt = @ + 1]
      PROVE  WebhookInv'
  <2>1. /\ step' = [pc |-> pc, req |-> step.req, listed |-> listed, at |-> 1, attempt |-> step.attempt + 1]
    BY <1>1, <1>6
  <2>2. StepFits'
    <3>1. Len(listed) \in Nat BY <1>6, SeqAppend
    <3>2. pc = "answered" => Len(listed) = 0 BY <1>6
    <3>3. /\ step'.pc = pc /\ step'.req = step.req /\ step'.listed = listed /\ step'.at = 1
          /\ step'.attempt = step.attempt + 1
      BY <2>1
    <3>4. 1 \in 1 .. Len(listed) + 1 BY <3>1
    <3>5. step' = [pc |-> step'.pc, req |-> step'.req, listed |-> step'.listed, at |-> step'.at,
                    attempt |-> step'.attempt]
      BY <2>1, <3>3
    <3>6. step.attempt + 1 \in Nat BY <1>2
    <3> QED BY ONLY <1>6, <3>1, <3>2, <3>3, <3>4, <3>5, <3>6 DEF StepFits
  <2>3. TasksFit' BY <1>2, <1>3, <1>6, <2>1 DEF TasksFit
  <2>4. Hook!MadeBy(step.attempt)' = {} BY <1>2, <1>3, <1>6, <2>1 DEF Hook!MadeBy
  <2>5. PassedBy' = {}
    <3>1. DOMAIN listed = 1 .. Len(listed) /\ Len(listed) \in Nat BY <1>6, SeqAppend
    <3> QED BY <2>1, <3>1 DEF PassedBy, Hook!Wanted
  <2> QED BY <2>2, <2>3, <2>4, <2>5, NoTasks DEF WebhookInv
<1>7. CASE Hook!Lookup
  <2>1. PICK listed : listed = Hook!GetBySource(step.req.source) OBVIOUS
  <2>2. IsSeq(listed) BY <2>1, ListIs
  <2>3. PICK pc : pc = IF listed = <<>> THEN "answered" ELSE "loop" OBVIOUS
  <2>4. step' = [step EXCEPT !.pc = pc, !.listed = listed, !.at = 1, !.attempt = @ + 1]
    BY <1>7, <2>1, <2>3 DEF Hook!Lookup
  <2>5. Stays BY <1>7 DEF Hook!Lookup
  <2> QED BY <1>6, <2>2, <2>3, <2>4, <2>5
<1>8. ASSUME Stays, NEW pc \in {"idle", "failed"}, NEW attempt \in Nat,
             pc = "idle" => attempt = step.attempt, pc = "failed" => attempt = step.attempt + 1,
             step' = [step EXCEPT !.pc = pc, !.listed = <<>>, !.at = 1, !.attempt = attempt]
      PROVE  WebhookInv'
  <2>1. PICK none : none = <<>> OBVIOUS
  <2>2. step' = [pc |-> pc, req |-> step.req, listed |-> none, at |-> 1, attempt |-> attempt]
    BY <1>1, <1>8, <2>1
  <2>3. Len(none) = 0 /\ DOMAIN none = {} /\ IsSeq(none)
    BY <2>1 DEF IsSeq
  <2>4. StepFits'
    <3>1. /\ step'.pc = pc /\ step'.req = step.req /\ step'.listed = none /\ step'.at = 1
          /\ step'.attempt = attempt
      BY <2>2
    <3>2. step' = [pc |-> step'.pc, req |-> step'.req, listed |-> step'.listed, at |-> step'.at,
                    attempt |-> step'.attempt]
      BY <2>2, <3>1
    <3>3. 1 \in 1 .. Len(none) + 1 BY <2>3
    <3> QED BY ONLY <1>8, <2>3, <3>1, <3>2, <3>3 DEF StepFits
  <2>5. TasksFit' BY <1>2, <1>3, <1>8, <2>2 DEF TasksFit
  <2>6. pc = "failed" => Hook!MadeBy(step.attempt)' = {} BY <1>2, <1>3, <1>8, <2>2 DEF Hook!MadeBy
  <2>7. PassedBy' = {} BY <2>2, <2>3 DEF PassedBy, Hook!Wanted
  <2>8. step'.pc = pc BY <2>2
  <2> QED BY <1>8, <2>4, <2>5, <2>6, <2>7, <2>8, NoTasks DEF WebhookInv
<1>9. CASE Hook!Refuse
  <2>1. step' = [step EXCEPT !.pc = "failed", !.listed = <<>>, !.at = 1, !.attempt = step.attempt + 1]
    BY <1>1, <1>9 DEF Hook!Refuse
  <2>2. Stays /\ step.attempt + 1 \in Nat BY <1>2, <1>9 DEF Hook!Refuse
  <2> QED BY <1>8, <2>1, <2>2
<1>10. CASE Hook!Redeliver
  <2>1. step' = [step EXCEPT !.pc = "idle", !.listed = <<>>, !.at = 1, !.attempt = step.attempt]
    <3>1. step' = [r EXCEPT !.pc = "idle", !.listed = <<>>, !.at = 1] BY <1>1, <1>10 DEF Hook!Redeliver
    <3> QED BY <1>1, <3>1
  <2>2. Stays BY <1>10 DEF Hook!Redeliver
  <2> QED BY <1>2, <1>8, <2>1, <2>2
<1>11. CASE Hook!Skip
  <2>1. step' = [pc |-> step.pc, req |-> step.req, listed |-> step.listed, at |-> step.at + 1,
                 attempt |-> step.attempt]
    <3>1. step' = [r EXCEPT !.at = r.at + 1] BY <1>1, <1>11 DEF Hook!Skip
    <3> QED BY <1>1, <3>1
  <2>2. /\ step.pc = "loop" /\ step.at <= Len(step.listed) /\ Stays
        /\ ~Hook!Accepts(step.listed[step.at][1], step.req)
    BY <1>11 DEF Hook!Skip, Hook!InLoop, Hook!Current
  <2>3. StepFits' BY <1>2, <2>1, <2>2 DEF StepFits
  <2>4. TasksFit' BY <1>3, <2>1, <2>2 DEF TasksFit
  <2>5. Hook!Wanted' = Hook!Wanted
    BY <2>1, <2>2 DEF Hook!Wanted, Hook!Accepts, Hook!Verified
  <2>6. step.at \notin Hook!Wanted BY <2>2 DEF Hook!Wanted
  <2>7. PassedBy' = PassedBy
    <3>1. step'.at = step.at + 1 BY <2>1
    <3>2. \A k \in Hook!Wanted : k < step.at + 1 <=> k < step.at BY <1>2, <2>6
    <3> QED BY <2>5, <3>1, <3>2 DEF PassedBy
  <2> QED BY <1>2, <2>1, <2>2, <2>3, <2>4, <2>7, SameTasks DEF WebhookInv
<1>12. CASE Hook!CreateTask
  <2>1. step' = [pc |-> step.pc, req |-> step.req, listed |-> step.listed, at |-> step.at + 1,
                 attempt |-> step.attempt]
    <3>1. step' = [r EXCEPT !.at = r.at + 1] BY <1>1, <1>12 DEF Hook!CreateTask
    <3> QED BY <1>1, <3>1
  <2>2. PICK title : title = Hook!RenderTaskTemplate(step.listed[step.at][1].template, step.req.title)
    OBVIOUS
  <2>3. PICK t : t = [attempt |-> step.attempt, hook |-> step.listed[step.at][2], title |-> title]
    OBVIOUS
  <2>4. /\ step.pc = "loop" /\ step.at <= Len(step.listed) /\ UNCHANGED secrets
        /\ Hook!Accepts(step.listed[step.at][1], step.req)
        /\ tasks' = Append(tasks, t) /\ step' = [step EXCEPT !.at = @ + 1]
    BY <1>12, <2>2, <2>3 DEF Hook!CreateTask, Hook!InLoop, Hook!Current
  <2>5. t.attempt = step.attempt /\ t.hook = step.listed[step.at][2] /\ t.title = title BY <2>3
  <2>6. title = "empty" => step.req.title = "empty"
    BY <2>2 DEF Hook!RenderTaskTemplate
  <2>7. step.at \in Hook!Wanted BY <1>2, <2>4 DEF Hook!Wanted
  <2>8. StepFits' BY <1>2, <2>1, <2>4 DEF StepFits
  <2>9. TasksFit'
    <3>1. /\ IsSeq(tasks') /\ DOMAIN tasks' = DOMAIN tasks \cup {Len(tasks) + 1}
          /\ tasks'[Len(tasks) + 1] = t /\ \A i \in DOMAIN tasks : tasks'[i] = tasks[i]
      BY <1>3, <2>4, SeqAppend
    <3>2. step'.attempt = step.attempt /\ step'.req = step.req BY <2>1
    <3> QED BY <1>2, <1>3, <2>5, <2>6, <3>1, <3>2 DEF TasksFit
  <2>10. Hook!AreFor(Hook!MadeBy(step.attempt), PassedBy)' BY <2>4, <2>5, <2>7, OneMoreTask
  <2> QED BY <2>8, <2>9, <2>10 DEF WebhookInv
<1>13. ASSUME Stays, step.pc = "loop", NEW pc \in {"failed", "answered"},
              pc = "answered" => step.at > Len(step.listed), step' = [step EXCEPT !.pc = pc]
       PROVE  WebhookInv'
  <2>1. step' = [pc |-> pc, req |-> step.req, listed |-> step.listed, at |-> step.at,
                 attempt |-> step.attempt]
    BY <1>1, <1>13
  <2>2. StepFits'
    <3>1. /\ step'.pc = pc /\ step'.req = step.req /\ step'.listed = step.listed
          /\ step'.at = step.at /\ step'.attempt = step.attempt
      BY <2>1
    <3>2. step' = [pc |-> step'.pc, req |-> step'.req, listed |-> step'.listed, at |-> step'.at,
                    attempt |-> step'.attempt]
      BY <2>1, <3>1
    <3>3. pc = "answered" => step.at = Len(step.listed) + 1 BY <1>2, <1>13
    <3> QED BY ONLY <1>2, <1>13, <3>1, <3>2, <3>3 DEF StepFits
  <2>3. TasksFit' BY <1>3, <1>13, <2>1 DEF TasksFit
  <2>4. PassedBy' = PassedBy
    BY <1>13, <2>1 DEF PassedBy, Hook!Wanted, Hook!Accepts, Hook!Verified
  <2> QED BY <1>2, <1>13, <2>1, <2>2, <2>3, <2>4, SameTasks DEF WebhookInv
<1>14. CASE Hook!CreateTaskFails
  BY <1>13, <1>14 DEF Hook!CreateTaskFails, Hook!InLoop
<1>15. CASE Hook!Answer
  BY <1>13, <1>15 DEF Hook!Answer
<1> QED BY <1>5, <1>7, <1>9, <1>10, <1>11, <1>12, <1>14, <1>15 DEF Hook!Next

\* A request that is answered (WebhookProcessStep.Execute) has made a task for
\* each webhook listed that accepts it, in their order, and no other; an attempt
\* that fails has made the first of them and none behind the INSERT that failed; and
\* no task is without a title but for a payload whose title is empty.  For any webhooks, and whatever becomes of
\* them meanwhile.
THEOREM TasksAreMade == ServicesSpec => []TasksAreThoseWanted
<1>1. ServicesInit => WebhookInv
  <2> SUFFICES ASSUME Hook!Init PROVE WebhookInv BY DEF ServicesInit
  <2>1. PICK none : none = <<>> OBVIOUS
  <2>2. Len(none) = 0 /\ DOMAIN none = {} /\ IsSeq(none) BY <2>1 DEF IsSeq
  <2>3. PICK q \in HookRequests : step = [pc |-> "idle", req |-> q, listed |-> none, at |-> 1, attempt |-> 0]
    BY <2>1 DEF Hook!Init
  <2>4. tasks = none BY <2>1 DEF Hook!Init
  <2> QED BY <2>2, <2>3, <2>4 DEF WebhookInv, StepFits, TasksFit
<1>2. WebhookInv /\ [ServicesNext]_servicevars => WebhookInv'
  <2> SUFFICES ASSUME WebhookInv, [ServicesNext]_servicevars PROVE WebhookInv' OBVIOUS
  <2>1. CASE Hook!Next BY <2>1, WebhookKept
  <2>2. CASE UNCHANGED hookvars
    <3>1. UNCHANGED <<secrets, step, tasks>> BY <2>2 DEF hookvars
    <3> QED BY <3>1, WebhookRests
  <2> QED BY <2>1, <2>2, OneMoves
<1>3. WebhookInv => TasksAreThoseWanted
  <2> SUFFICES ASSUME WebhookInv PROVE Hook!TasksAreThoseWanted BY DEF TasksAreThoseWanted
  <2>1. /\ Len(step.listed) \in Nat /\ step.at \in 1 .. Len(step.listed) + 1
        /\ Hook!Wanted \subseteq 1 .. Len(step.listed)
        /\ step.pc # "idle" => Hook!AreFor(Hook!MadeBy(step.attempt), PassedBy)
        /\ step.pc = "answered" => step.at = Len(step.listed) + 1
    BY SeqAppend DEF WebhookInv, StepFits, Hook!Wanted
  <2>2. step.pc = "answered" => PassedBy = Hook!Wanted
    <3> SUFFICES ASSUME step.pc = "answered" PROVE \A k \in Hook!Wanted : k < step.at
      BY DEF PassedBy
    <3> QED BY <2>1
  <2>3. step.pc = "answered" => Hook!AreFor(Hook!MadeBy(step.attempt), Hook!Wanted) BY <2>1, <2>2
  <2>4. \A i \in DOMAIN tasks : tasks[i].title = "empty" => step.req.title = "empty"
    BY DEF WebhookInv, TasksFit
  <2>5. step.pc # "idle" =>
          \E n \in 1 .. Len(step.listed) + 1 :
            Hook!AreFor(Hook!MadeBy(step.attempt), {k \in Hook!Wanted : k < n})
    BY <2>1 DEF PassedBy
  <2> QED BY <2>3, <2>4, <2>5 DEF Hook!TasksAreThoseWanted
<1> QED BY <1>1, <1>2, <1>3, PTL DEF ServicesSpec
=============================================================================
