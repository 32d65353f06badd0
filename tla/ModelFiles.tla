----------------------------- MODULE ModelFiles -----------------------------
(***************************************************************************)
(* Getting model files (provider/huggingface.go, step_model_pull.go): a    *)
(* download is written to a .part file, which is renamed when the answer   *)
(* ends; one that was interrupted goes on where the .part file ends.       *)
(*                                                                         *)
(* A file is the sequence of its blocks, the one wanted is 1 .. NBlocks,   *)
(* and 0 a hole.  The server may know ranges or not, and state the length  *)
(* of its answers or not (external).                                       *)
(***************************************************************************)
EXTENDS Integers, Sequences, SequencesExt

CONSTANTS
  Pulls,    \* executions of step.model_pull that want the file
  NBlocks,  \* the blocks of the file
  MaxBlocks \* bound: the blocks a .part file may grow to

VARIABLES
  ranges,  \* the server: whether it serves from an offset
  sized,   \* whether it states the length of its answers
  part,    \* the .part file
  dest,    \* the file in the cache
  pull,    \* the executions: where each is, the size it saw, the next block it is
           \* sent, and its file: appended to or not, by now under which name
  crowded  \* whether two downloads were ever under way at once

filevars == <<ranges, sized, part, dest, pull, crowded>>

Absent == <<-1>>
Whole  == [i \in 1 .. NBlocks |-> i]
Pcs    == {"idle", "open", "copy", "ready", "failed"}

TypeOK ==
  /\ ranges \in BOOLEAN /\ sized \in BOOLEAN /\ crowded \in BOOLEAN
  /\ part \in Seq(-1 .. NBlocks) /\ dest \in Seq(-1 .. NBlocks)
  /\ pull \in [Pulls -> [pc : Pcs, from : 0 .. MaxBlocks, next : 1 .. NBlocks + 1,
                         append : BOOLEAN, file : {"part", "dest", "gone"}]]

Idle == [pc |-> "idle", from |-> 0, next |-> 1, append |-> FALSE, file |-> "part"]

Init ==
  /\ ranges \in BOOLEAN /\ sized \in BOOLEAN
  /\ part = Absent /\ dest = Absent
  /\ pull = [p \in Pulls |-> Idle]
  /\ crowded = FALSE

Size(file) == IF file = Absent THEN 0 ELSE Len(file)
Underway   == {p \in Pulls : pull[p].pc \in {"open", "copy"}}
End(p, pc) == pull' = [pull EXCEPT ![p] = [Idle EXCEPT !.pc = pc]]

\* A write where the writer is, over what is there or past the end.
WriteAt(file, i, block) ==
  [k \in 1 .. (IF i > Len(file) THEN i ELSE Len(file)) |->
     IF k = i THEN block ELSE IF k <= Len(file) THEN file[k] ELSE 0]
Written(p, file) ==
  IF pull[p].append THEN Append(file, pull[p].next) ELSE WriteAt(file, pull[p].next, pull[p].next)

-----------------------------------------------------------------------------
\* The file is there: it is taken as it is.
Ready(p) ==
  /\ pull[p].pc = "idle" /\ dest # Absent
  /\ End(p, "ready")
  /\ UNCHANGED <<ranges, sized, part, dest, crowded>>

\* The size of the .part file, and the request for the rest.
Ask(p) ==
  /\ pull[p].pc = "idle" /\ dest = Absent
  /\ pull' = [pull EXCEPT ![p] = [Idle EXCEPT !.pc = "open", !.from = Size(part)]]
  /\ crowded' = (crowded \/ Underway # {})
  /\ UNCHANGED <<ranges, sized, part, dest>>

Resumes(p) == ranges /\ pull[p].from > 0

\* The .part file is opened: appended to when the server sends the rest alone
\* (206), and else made anew.
Open(p) ==
  /\ pull[p].pc = "open"
  /\ ranges => pull[p].from < NBlocks
  /\ part' = IF Resumes(p) /\ part # Absent THEN part ELSE <<>>
  /\ pull' = [pull EXCEPT ![p] = [@ EXCEPT !.pc = "copy", !.append = Resumes(p),
                                         !.next = IF Resumes(p) THEN pull[p].from + 1 ELSE 1]]
  /\ UNCHANGED <<ranges, sized, dest, crowded>>

\* No range is left (416), or the request fails.
Refused(p) ==
  /\ pull[p].pc = "open"
  /\ End(p, "failed")
  /\ UNCHANGED <<ranges, sized, part, dest, crowded>>

\* One block is read and written, to the file that was opened, whatever its name.
Copy(p) ==
  /\ pull[p].pc = "copy" /\ pull[p].next <= NBlocks
  /\ Size(part) < MaxBlocks /\ Size(dest) < MaxBlocks
  /\ part' = IF pull[p].file = "part" THEN Written(p, part) ELSE part
  /\ dest' = IF pull[p].file = "dest" THEN Written(p, dest) ELSE dest
  /\ pull' = [pull EXCEPT ![p].next = @ + 1]
  /\ UNCHANGED <<ranges, sized, crowded>>

\* The .part file takes the name: its writers write to the file in the cache now,
\* and those of the file that was there to none.
Named(p) ==
  /\ dest' = part /\ part' = Absent
  /\ pull' = [q \in Pulls |->
       IF q = p THEN [Idle EXCEPT !.pc = "ready"]
       ELSE IF pull[q].pc # "copy" THEN pull[q]
       ELSE [pull[q] EXCEPT !.file = IF @ = "part" THEN "dest" ELSE "gone"]]

\* The answer ends.  The code asks its Read for no more than that, and compares no
\* length: an answer that states none and is broken off ends like a whole one, and
\* only the HTTP client tells the others apart (BreakOff).
Ends(p) == pull[p].pc = "copy" /\ (sized => pull[p].next > NBlocks)

\* Then the file gets its name.
Rename(p) ==
  /\ Ends(p) /\ part # Absent
  /\ Named(p)
  /\ UNCHANGED <<ranges, sized, crowded>>

\* Another download has renamed the file.
NothingToRename(p) ==
  /\ Ends(p) /\ part = Absent
  /\ End(p, "failed")
  /\ UNCHANGED <<ranges, sized, part, dest, crowded>>

\* The body breaks off, a write fails, the context ends, or the process does:
\* what was written stays.
BreakOff(p) ==
  /\ pull[p].pc = "copy"
  /\ End(p, "failed")
  /\ UNCHANGED <<ranges, sized, part, dest, crowded>>

\* The pipeline runs again.
Again(p) ==
  /\ pull[p].pc \in {"failed", "ready"}
  /\ End(p, "idle")
  /\ UNCHANGED <<ranges, sized, part, dest, crowded>>

Next ==
  \E p \in Pulls :
    \/ Ready(p) \/ Ask(p) \/ Open(p) \/ Refused(p) \/ Copy(p) \/ Rename(p)
    \/ NothingToRename(p) \/ BreakOff(p) \/ Again(p)

Spec == Init /\ [][Next]_filevars

-----------------------------------------------------------------------------
\* What downloads broken off and taken up again put together in the cache, as long
\* as no two of them were under way at once, is the beginning of the file, and all
\* of it when the server states the length of its answers: without, an answer cut
\* short is taken for the file (DownloadHuggingFaceFile).
CachedIsWhole ==
  ~crowded /\ dest # Absent => IsPrefix(dest, Whole) /\ (sized => dest = Whole)
=============================================================================
