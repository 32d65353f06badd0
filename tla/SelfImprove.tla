----------------------------- MODULE SelfImprove -----------------------------
(***************************************************************************)
(* The steps with which an agent changes the configuration it runs on      *)
(* (orchestrator/step_self_improve_validate.go, _diff.go, _deploy.go):     *)
(* a proposal is validated, compared with the current text for a diff, and *)
(* deployed behind a second validation, by writing the file, through a     *)
(* pull request, or through a canary container.  Several pipelines share   *)
(* the file, the git checkout and docker.                                  *)
(*                                                                         *)
(* Of a configuration: its immutable section, if it has one, and whether   *)
(* it can be parsed.  Diagnostics may find an error in any.                *)
(***************************************************************************)
EXTENDS Integers, FiniteSets

CONSTANT Pipelines  \* bound: runs of the pipeline; each is of an agent of its own

VARIABLES
  setup,     \* what the path of the immutable section leads to
  live,      \* the configuration file
  pipe,      \* the pipelines
  unchecked  \* how the first text got deployed, or onto the disk, that was not compared
             \* with the text of the file (not in the code)

selfvars == <<setup, live, pipe, unchecked>>

\* A text is known by its section, that of the first file, another or none; it may
\* be empty, or not be parsed.
Parsed == {"first", "other", "none"}
Texts  == Parsed \cup {"empty", "broken"}

Strategies == {"hot_reload", "git_pr", "canary"}
Unstarted  == [pc |-> "idle", strategy |-> "git_pr", proposed |-> "empty", current |-> "empty"]

TypeOK ==
  /\ setup \in {"none", "map", "list"}
  /\ live \in Texts
  /\ pipe \in [Pipelines -> [pc : {"idle", "validate", "gate", "truncate", "write", "reload",
                                   "publish", "run", "inspect"},
                             strategy : Strategies, proposed : Texts, current : Texts \cup {"given"}]]
  /\ unchecked \subseteq {"skipped", "bare", "list", "given", "torn"}

\* The section is a path into a mapping, into a list (as "modules" is), or there
\* is no guardrails module.
Init ==
  /\ setup \in {"none", "map", "list"}
  /\ live = "first"
  /\ pipe = [p \in Pipelines |-> Unstarted]
  /\ unchecked = {}

Set(p, pc) == pipe' = [pipe EXCEPT ![p].pc = pc]
\* With success or without; the pipeline may run again.
Leave(p, pc) == pipe' = [pipe EXCEPT ![p] = [Unstarted EXCEPT !.pc = pc]]
Over(p) == Leave(p, "idle")

Noted(causes) == IF unchecked = {} THEN causes ELSE unchecked

-----------------------------------------------------------------------------
(* Validation *)

\* What the path of the section leads to: nothing in a list.
extractNestedPath(text) == IF setup = "map" THEN text ELSE "nothing"

\* Compared only where there are guardrails and a current text; a current text
\* that cannot be parsed counts as unchanged, and one that can, but has no section,
\* as having none.  One that the agent gives may have whatever the proposal has.
Compared(current) == setup # "none" /\ current \in Parsed
checkImmutability(proposed, current) ==
  Compared(current) => extractNestedPath(proposed) = extractNestedPath(current)

\* Variant: the step before has compared them already.
ValidToParse(proposed, current) == proposed \in Parsed

\* A text that is empty is an error, one that cannot be parsed is not valid.
Valid(proposed, current) == proposed \in Parsed /\ checkImmutability(proposed, current)

-----------------------------------------------------------------------------
(* A pipeline *)

\* The data of the pipeline: a current text, which was read from the file at some
\* time or is another, or none.
Begin(p) ==
  /\ pipe[p].pc = "idle"
  /\ \E current \in {live, "empty", "given"} :
       pipe' = [pipe EXCEPT ![p].pc = "validate", ![p].current = current]
  /\ UNCHANGED <<setup, live, unchecked>>

\* The step of its own ends the pipeline with an error for an empty proposal only:
\* what is not valid goes on to the diff and to the deploy step.
Validate(p) ==
  /\ pipe[p].pc = "validate"
  /\ Set(p, "gate") \/ Over(p)
  /\ UNCHANGED <<setup, live, unchecked>>

\* How the gate lets a text through that was compared with none of the file's.
Unchecked(current, skip) ==
  IF skip THEN {"skipped"}
  ELSE IF current = "given" THEN {"given"}
  ELSE IF ~Compared(current) THEN {"bare"}
  ELSE IF setup = "list" THEN {"list"} ELSE {}

\* The deploy step, which may read its proposal from a file again, and its gate,
\* which its configuration may skip; diagnostics may refuse what is valid.
Gate(p) ==
  /\ pipe[p].pc = "gate"
  /\ \/ Over(p) /\ UNCHANGED unchecked
     \/ \E proposed \in Texts \ {"empty"}, strategy \in Strategies, skip \in BOOLEAN :
          /\ skip \/ Valid(proposed, pipe[p].current)
          /\ pipe' = [pipe EXCEPT ![p] =
               [pc |-> IF strategy = "canary" THEN "run" ELSE "truncate",
                strategy |-> strategy, proposed |-> proposed, current |-> "empty"]]
          /\ unchecked' = Noted(Unchecked(pipe[p].current, skip))
  /\ UNCHANGED <<setup, live>>

\* writeFileContents: the file is cut to nothing and then filled, or not.
Truncate(p) ==
  /\ pipe[p].pc = "truncate"
  /\ \/ live' = "empty" /\ Set(p, "write")
     \/ Over(p) /\ UNCHANGED live
  /\ UNCHANGED <<setup, unchecked>>

\* Over what another pipeline has written since, its text may end with the other's
\* end; of a write that breaks off a part stays.  What is left may be parsed, and
\* then has whatever section.
Write(p) ==
  /\ pipe[p].pc = "write"
  /\ \/ /\ \/ live' = pipe[p].proposed /\ UNCHANGED unchecked
           \/ live # "empty" /\ live' \in Texts \ {"empty"} /\ unchecked' = Noted({"torn"})
        /\ CASE pipe[p].strategy = "hot_reload" -> Leave(p, "reload")
             [] pipe[p].strategy = "git_pr"     -> Leave(p, "publish")
             [] pipe[p].strategy = "canary"     -> Over(p)
     \/ live' \in Texts /\ Over(p) /\ unchecked' = Noted({"torn"})
  /\ UNCHANGED setup

\* The new file stays when the reload fails, or when one of the branch, add,
\* commit, push and the pull request does: the first that fails ends it, and
\* nothing is taken back.
Reload(p) == pipe[p].pc = "reload" /\ Over(p) /\ UNCHANGED <<setup, live, unchecked>>
Publish(p) == pipe[p].pc = "publish" /\ Over(p) /\ UNCHANGED <<setup, live, unchecked>>

\* A canary needs an image, a file of its own beside the configuration and a
\* name nobody has; a container that does not start stays.
Run(p) ==
  /\ pipe[p].pc = "run"
  /\ Set(p, "inspect") \/ Over(p)
  /\ UNCHANGED <<setup, live, unchecked>>

\* Only a healthy one is promoted; the container goes either way.
Inspect(p) ==
  /\ pipe[p].pc = "inspect"
  /\ Set(p, "truncate") \/ Over(p)
  /\ UNCHANGED <<setup, live, unchecked>>

Next ==
  \E p \in Pipelines :
    \/ Begin(p) \/ Validate(p) \/ Gate(p) \/ Truncate(p) \/ Write(p) \/ Reload(p)
    \/ Publish(p) \/ Run(p) \/ Inspect(p)

Spec == Init /\ [][Next]_selfvars

-----------------------------------------------------------------------------
(* Properties *)

\* However old the text of the file is that a proposal was compared with, whatever
\* other pipelines deploy in the meantime and wherever one of them ends, the file
\* has the immutable section of the first, but for the moment between the two halves
\* of a write.  What costs it has a name: a gate that is skipped, no current text
\* or one nobody read from the file, a path into a list, and a write that breaks
\* off or gets in the way of another.
SectionKept ==
  unchecked = {} => live = "first" \/ (live = "empty" /\ \E p \in Pipelines : pipe[p].pc = "write")

\* "The path is locked": with guardrails, and with no gate skipped, a current text
\* given whenever a proposal is deployed and no write disturbed, the section stays.
SectionLocked ==
  setup # "none" /\ live \in {"other", "none"} => unchecked \cap {"skipped", "bare", "torn"} # {}
=============================================================================
