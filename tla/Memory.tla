------------------------------- MODULE Memory -------------------------------
(***************************************************************************)
(* The memory of agents (orchestrator/memory.go, step_memory_extract.go,   *)
(* memory/memory.go): transcripts are cut into chunks, each is stored as a *)
(* row and then, by a statement of its own, in a full-text index; searches *)
(* read both.  Rows may have an embedding, and hybrid searches rank those. *)
(*                                                                         *)
(* An entry is <<job, n>>, the n-th chunk that an extraction found.        *)
(***************************************************************************)
EXTENDS Integers, Sequences, SequencesExt, FiniteSetsExt

CONSTANTS
  Jobs,     \* extractions: executions of the step, ends of agent runs
  NChunks,  \* bound: chunks of a transcript
  Limit     \* how many results a search wants

VARIABLES
  rows,     \* table memory_entries
  vectors,  \* the rows with an embedding
  index,    \* table memory_entries_fts
  job,      \* the extractions: where each is, its chunk, whether it has an embedder
  saved,    \* entries whose Save has returned without an error
  found     \* the last search: its candidates, their scores, its results

memvars == <<rows, vectors, index, job, saved, found>>

Entries == Jobs \X (1 .. NChunks)
Nothing == [kind |-> "none", order |-> <<>>, score |-> <<>>, out |-> <<>>]
Pcs == {"idle", "chunk", "embed", "row", "index", "done", "failed"}

TypeOK ==
  /\ rows \subseteq Entries /\ vectors \subseteq rows /\ index \subseteq Entries
  /\ job \in [Jobs -> [pc : Pcs, at : 1 .. NChunks + 1, embedder : BOOLEAN]]
  /\ saved \subseteq Entries
  /\ found.kind \in {"none", "refused", "text", "hybrid"}

Init ==
  /\ rows = {} /\ vectors = {} /\ index = {} /\ saved = {}
  /\ job \in [Jobs -> [pc : {"idle"}, at : {1}, embedder : BOOLEAN]]
  /\ found = Nothing

Entry(j) == <<j, job[j].at>>
Goto(j, pc) == job' = [job EXCEPT ![j].pc = pc]
NextChunk(j) == job' = [job EXCEPT ![j].pc = "chunk", ![j].at = @ + 1]

-----------------------------------------------------------------------------
(* ExtractAndSave *)

\* An agent's run is over, or step.memory_extract found its transcript.
Extract(j) ==
  /\ job[j].pc = "idle"
  /\ Goto(j, "chunk")
  /\ UNCHANGED <<rows, vectors, index, saved, found>>

\* A chunk of less than twenty characters is left out.
SkipShort(j) ==
  /\ job[j].pc = "chunk" /\ job[j].at <= NChunks
  /\ NextChunk(j)
  /\ UNCHANGED <<rows, vectors, index, saved, found>>

\* With an embedder the chunk gets an embedding, unless that fails.
TakeChunk(j) ==
  /\ job[j].pc = "chunk" /\ job[j].at <= NChunks
  /\ \E pc \in IF job[j].embedder THEN {"row", "embed"} ELSE {"row"} : Goto(j, pc)
  /\ UNCHANGED <<rows, vectors, index, saved, found>>

\* Save, its first statement.
InsertRow(j) ==
  /\ job[j].pc \in {"row", "embed"}
  /\ rows' = rows \cup {Entry(j)}
  /\ vectors' = IF job[j].pc = "embed" THEN vectors \cup {Entry(j)} ELSE vectors
  /\ Goto(j, "index")
  /\ UNCHANGED <<index, saved, found>>

\* Variant: an index that fails is not an error.
SavedAnyway(j) ==
  /\ job[j].pc = "index"
  /\ \E ok \in BOOLEAN : index' = IF ok THEN index \cup {Entry(j)} ELSE index
  /\ saved' = saved \cup {Entry(j)}
  /\ NextChunk(j)
  /\ UNCHANGED <<rows, vectors, found>>

\* Its second statement: the entry can be found from now on.
InsertIndex(j) ==
  /\ job[j].pc = "index"
  /\ index' = index \cup {Entry(j)}
  /\ saved' = saved \cup {Entry(j)}
  /\ NextChunk(j)
  /\ UNCHANGED <<rows, vectors, found>>

\* A statement fails, or the process ends: what was stored stays, the rest is given up.
Fail(j) ==
  /\ job[j].pc \in {"row", "embed", "index"}
  /\ Goto(j, "failed")
  /\ UNCHANGED <<rows, vectors, index, saved, found>>

Finish(j) ==
  /\ job[j].pc = "chunk" /\ job[j].at > NChunks
  /\ Goto(j, "done")
  /\ UNCHANGED <<rows, vectors, index, saved, found>>

-----------------------------------------------------------------------------
(* Searches *)

\* A search ends in an error and without results: the database fails, or refuses the
\* text.  sanitizeFTSQuery leaves hyphens in its words, which are no words to FTS5.
SearchRefused ==
  /\ found = Nothing
  /\ found' = [Nothing EXCEPT !.kind = "refused"]
  /\ UNCHANGED <<rows, vectors, index, job, saved>>

\* Search: the best matches by the index, joined to their rows.  The outer query
\* has no ORDER BY: which rows come is the rank's doing, their order is not.
Search ==
  /\ found = Nothing
  /\ \E matched \in SUBSET index :
       /\ matched # {}
       /\ \E best \in kSubset(Min({Limit, Cardinality(matched)}), matched) :
            found' = [kind |-> "text", order |-> SetToSeq(matched), score |-> <<>>,
                      out |-> SetToSeq(best \cap rows)]
  /\ UNCHANGED <<rows, vectors, index, job, saved>>

\* Its inner loop: before the first of those already placed that score less,
\* looking from the last one down.
Insert(s, e, score) ==
  LET above == {i \in DOMAIN s : score[s[i]] >= score[e]}
      at    == IF above = {} THEN 0 ELSE Max(above)
  IN  SubSeq(s, 1, at) \o <<e>> \o SubSeq(s, at + 1, Len(s))

sortScoredEntries(order, score) ==
  LET sorted[n \in 0 .. Len(order)] ==
        IF n = 0 THEN <<>> ELSE Insert(sorted[n - 1], order[n], score)
  IN  sorted[Len(order)]

\* SearchHybrid: every row with an embedding is scored, indexed or not, seven
\* parts by its embedding and three by the index, where what the index does not
\* have counts nothing, and a text that it refuses nothing for all (here: some
\* score).  The best come first.
SearchHybrid ==
  /\ found = Nothing /\ vectors # {}
  /\ \E score \in [vectors -> 0 .. 2] :
       LET order  == SetToSeq(vectors)
           sorted == sortScoredEntries(order, score)
       IN  found' = [kind |-> "hybrid", order |-> order, score |-> score,
                     out |-> SubSeq(sorted, 1, Min({Limit, Len(sorted)}))]
  /\ UNCHANGED <<rows, vectors, index, job, saved>>

Read ==
  /\ found # Nothing
  /\ found' = Nothing
  /\ UNCHANGED <<rows, vectors, index, job, saved>>

Next ==
  \/ \E j \in Jobs :
       \/ Extract(j) \/ SkipShort(j) \/ TakeChunk(j) \/ InsertRow(j) \/ InsertIndex(j)
       \/ Fail(j) \/ Finish(j)
  \/ SearchRefused \/ Search \/ SearchHybrid \/ Read

Spec == Init /\ [][Next]_memvars

-----------------------------------------------------------------------------
\* What Save has acknowledged is in the index, and the index names no entry without
\* a row, whatever failed in between: a search by text that is not refused has as
\* many results as match, up to its limit, in no order (Save, Search).  A row whose
\* index entry failed is not acknowledged, and no text finds it.
SavedIsFound ==
  /\ saved \subseteq index
  /\ index \subseteq rows
  /\ found.kind = "text" => Len(found.out) = Min({Limit, Len(found.order)})

\* The results of a hybrid search are the best of the candidates, the best one
\* first, and candidates of one score in the order they were read (SearchHybrid,
\* sortScoredEntries).
BestComeFirst ==
  found.kind = "hybrid" =>
    LET pos(e)     == CHOOSE i \in DOMAIN found.order : found.order[i] = e
        ahead(d, e) == \/ found.score[d] > found.score[e]
                       \/ found.score[d] = found.score[e] /\ pos(d) < pos(e)
    IN  /\ Len(found.out) = Min({Limit, Len(found.order)})
        /\ \A i \in DOMAIN found.out :
             Cardinality({d \in ToSet(found.order) : ahead(d, found.out[i])}) = i - 1

=============================================================================
