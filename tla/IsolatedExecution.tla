------------------------- MODULE IsolatedExecution -------------------------
(***************************************************************************)
(* What one run executes outside the fan-outs over its mutations, in order *)
(* and against one source tree that may be edited at any moment:           *)
(*   run_baseline (src/perjury/workspace.py) on the live tree,             *)
(*   pack_context (src/perjury/context.py) once for the evidence and again *)
(*   for every prompt of the planner, the analyst and the test generator,  *)
(*   plan_candidate and preflight_candidate (src/perjury/candidate.py) on  *)
(*   a throwaway copy,                                                     *)
(*   verify_candidate (src/perjury/hardening.py) on an original and a      *)
(*   mutated copy at the same time,                                        *)
(* each in a sandbox (module Sandbox) or in place (module LocalExecutor):  *)
(* run_perjury takes one executor for the baseline and one for the rest.   *)
(* A call that the fan-out has given up as timed out goes on while its     *)
(* world is removed.  A removal may fail, and nothing says so.             *)
(***************************************************************************)
EXTENDS LocalExecutor, ContextPacking

CONSTANT Versions  \* of the source tree

Worlds == {"original", "mutant"}
Dirs == Worlds \cup {"collect"}

ASSUME CallsAssumption == Calls = {"baseline"} \cup Dirs

VARIABLES
  executor, \* [Calls -> "sandbox" or "local"]
  tree,     \* version of the live tree
  base,     \* version in the baseline manifest
  pc,       \* where the run is, or how it ended
  reader,   \* for whom the context is packed
  listed,   \* version in the manifest that this packing has built
  shown,    \* versions of the files it has read
  dir,      \* the directory being made
  content,  \* [Dirs -> what the directory holds]
  removed,  \* directories whose removal was tried
  settled   \* [Worlds -> outcome the fan-out recorded]

packVars == <<reader, listed, shown>>
dirVars == <<dir, content, removed>>
runVars == <<executor, tree, base, pc, packVars, dirVars, settled>>
vars == <<call, runVars>>

Snapshot(v, mutated, candidate) == [source |-> v, mutated |-> mutated, candidate |-> candidate]

\* What a call is meant to execute: the manifest it is given.
Expected(c) == Snapshot(base, c = "mutant", c # "baseline")
Found(c) == IF c = "baseline" THEN Snapshot(tree, FALSE, FALSE) ELSE content[c]

Ended == {"not_ready", "stale", "error", "rejected", "unavailable", "inconsistent",
          "verified", "failed_original", "inconclusive"}

Init ==
  /\ SandboxInit
  /\ \E first, rest \in {"sandbox", "local"} :
       executor = [c \in Calls |-> IF c = "baseline" THEN first ELSE rest]
  /\ tree \in Versions
  /\ base = tree
  /\ pc = "manifest" /\ dir = "collect"
  /\ reader = "run" /\ listed = tree /\ shown = {}
  /\ content = [d \in Dirs |-> NoContent] /\ removed = {}
  /\ settled = [w \in Worlds |-> "none"]

\* Somebody edits the tree, or restores it.
Edit ==
  /\ pc \notin Ended
  /\ tree' \in Versions \ {tree}
  /\ UNCHANGED <<call, executor, base, pc, packVars, dirVars, settled>>

Called(c) ==
  /\ \/ executor[c] = "sandbox" /\ Execute(c, Found(c), Expected(c))
     \/ executor[c] = "local" /\ ExecuteHere(c, Found(c), Expected(c))
  /\ UNCHANGED runVars

\* The directories made by the stage that is being left: verify_candidate makes
\* the mutant's once it has the original's.
Made == {dir} \cup IF dir = "mutant" THEN {"original"} ELSE {}

\* rmtree ignores errors, and a call given up as late may be writing in the
\* directory: all of what it held may stay, or a part.
Remove(dirs) ==
  /\ removed' = removed \cup dirs
  /\ \E kept, torn \in SUBSET dirs :
       content' = [d \in Dirs |-> IF d \notin dirs \/ d \in kept THEN content[d]
                                 ELSE IF d \in torn THEN Partial ELSE NoContent]

LeaveOriginalRemoved(how) == pc' = how /\ Remove(Made \ {"mutant"})

\* Every way out of a stage removes the directories it made.
Leave(how) == pc' = how /\ Remove(Made)

-----------------------------------------------------------------------------
(* run_baseline *)

TakeManifest ==
  /\ pc = "manifest"
  /\ base' = tree
  /\ \/ pc' = "baseline" /\ call' = Begun({"baseline"})
     \/ pc' = "error" /\ UNCHANGED call
  /\ UNCHANGED <<executor, tree, packVars, dirVars, settled>>

\* Ready: a clean pass, and the tree is still what it was.
BaselineReturns ==
  /\ pc = "baseline"
  /\ Returned("baseline")
  /\ pc' \in {IF Clean("baseline") /\ tree = base THEN "list" ELSE "not_ready", "error"}
  /\ UNCHANGED <<call, executor, tree, base, packVars, dirVars, settled>>

-----------------------------------------------------------------------------
(* pack_context, for the evidence and for each prompt *)

PackFor(r) == reader' = r /\ pc' = "list"

\* A manifest of its own, which must be the baseline's.
ListSource ==
  /\ pc = "list"
  /\ listed' = tree
  /\ shown' = {}
  /\ \/ listed' = base /\ pc' = "read"
     \/ pc' = "error"
  /\ UNCHANGED <<call, executor, tree, base, reader, dirVars, settled>>

\* The model is asked once all files are read and packed; of the first bundle
\* the run records the hash and what was left out.
Packed == IF reader = "run" THEN PackFor("planner") ELSE pc' = "ask" /\ UNCHANGED reader

ReadFileUnverified ==
  /\ pc = "read"
  /\ shown' = shown \cup {tree}
  /\ Packed \/ UNCHANGED <<pc, reader>>
  /\ UNCHANGED <<call, executor, tree, base, listed, dirVars, settled>>

\* _read_manifest_bytes compares each file with the manifest just built; a drift,
\* a target that cannot be packed and a budget exceeded end the run.
ReadFile ==
  /\ pc = "read"
  /\ \/ /\ tree = listed
        /\ shown' = shown \cup {tree}
        /\ Packed \/ UNCHANGED <<pc, reader>>
     \/ pc' = "error" /\ UNCHANGED <<reader, shown>>
  /\ UNCHANGED <<call, executor, tree, base, listed, dirVars, settled>>

\* plan_mutations and, in modules Planning and MutationExecution, all that is
\* done with the plan before its survivors are looked at.
PlannerAnswers ==
  /\ pc = "ask" /\ reader = "planner"
  /\ PackFor("analyst") \/ (pc' \in {"error", "inconclusive"} /\ UNCHANGED reader)
  /\ UNCHANGED <<call, executor, tree, base, listed, shown, dirVars, settled>>

\* One prompt per survivor until one is not possibly equivalent.
AnalystAnswers ==
  /\ pc = "ask" /\ reader = "analyst"
  /\ \/ PackFor("analyst") \/ PackFor("generator")
     \/ pc' \in {"error", "inconclusive"} /\ UNCHANGED reader
  /\ UNCHANGED <<call, executor, tree, base, listed, shown, dirVars, settled>>

\* generate_test: the answer must be a proposal for the mutation asked about.
GeneratorAnswers ==
  /\ pc = "ask" /\ reader = "generator"
  /\ pc' \in {"propose", "error"}
  /\ UNCHANGED <<call, executor, tree, base, packVars, dirVars, settled>>

\* What plan_candidate finds the target file and the code to be.
Targets == {"unsafe", "excluded", "mutable", "outside", "missing", "not_python", "test"}
Codes == {"empty", "nul", "too_large", "no_syntax", "module"}

\* It also needs a file name that the snapshot does not have.
PlanCandidate ==
  /\ pc = "propose"
  /\ \E target \in Targets, code \in Codes, nameFree \in BOOLEAN :
       pc' = IF target = "test" /\ code = "module" /\ nameFree THEN "copy" ELSE "rejected"
  /\ UNCHANGED <<call, executor, tree, base, packVars, dirVars, settled>>

-----------------------------------------------------------------------------
(* Copies: materialize_baseline_workspace, apply_mutation, write_candidate.  *)

\* The copy compares every file with the baseline manifest.
Copy ==
  /\ pc = "copy"
  /\ \/ tree # base /\ Leave("stale")
     \/ dir = "mutant" /\ Leave("stale")
     \/ /\ tree = base
        /\ content' = [content EXCEPT ![dir] = Snapshot(tree, dir = "mutant", FALSE)]
        /\ pc' = "plant" /\ UNCHANGED removed
  /\ UNCHANGED <<call, executor, tree, base, packVars, dir, settled>>

\* The candidate is created in the copy, never over an existing file, and the
\* manifest of the copy is taken.
WriteCandidate == content' = [content EXCEPT ![dir].candidate = TRUE]

\* The mutant is copied once the original is ready, and both are compared with
\* the baseline before either is executed.
BuildNextWorld ==
  /\ UNCHANGED call
  /\ \/ dir = "original" /\ pc' = "copy" /\ dir' = "mutant"
     \/ dir = "mutant" /\ pc' = "compare" /\ UNCHANGED dir

Plant ==
  /\ pc = "plant"
  /\ \/ /\ WriteCandidate /\ UNCHANGED removed
        /\ \/ dir = "collect" /\ pc' = "collect" /\ call' = Begun({"collect"}) /\ UNCHANGED dir
           \/ BuildNextWorld
     \/ Leave("error") /\ UNCHANGED <<dir, call>>
  /\ UNCHANGED <<executor, tree, base, packVars, settled>>

\* preflight_candidate, and on to verify_candidate.
CollectionReturns ==
  /\ pc = "collect"
  /\ Returned("collect")
  /\ dir' = "original"
  /\ Leave(CASE call["collect"].outcome = "PASS" -> "copy"
             [] call["collect"].outcome \in {"TIMEOUT", "INFRA_ERROR"} -> "unavailable"
             [] OTHER -> "rejected")
  /\ UNCHANGED <<call, executor, tree, base, packVars, settled>>

-----------------------------------------------------------------------------
(* verify_candidate *)

\* _assert_worlds_consistent, then the fan-out starts both calls.
Compare ==
  /\ pc = "compare"
  /\ IF \A w \in Worlds : content[w] = Expected(w)
     THEN /\ pc' = "verify"
          /\ call' = Begun(Worlds)
          /\ UNCHANGED <<content, removed>>
     ELSE Leave("inconsistent") /\ UNCHANGED call
  /\ UNCHANGED <<executor, tree, base, packVars, dir, settled>>

\* The fan-out records the answer, or a deadline the call has missed.
Settle(w) ==
  /\ pc = "verify"
  /\ settled[w] = "none"
  /\ settled' = [settled EXCEPT ![w] = IF Returned(w) THEN call[w].outcome ELSE "TIMEOUT"]
  /\ UNCHANGED <<call, executor, tree, base, pc, packVars, dirVars>>

Judge ==
  /\ pc = "verify"
  /\ \A w \in Worlds : settled[w] # "none"
  /\ Leave(CASE Verdict(settled) = "rejected" -> "failed_original"
             [] OTHER -> Verdict(settled))
  /\ UNCHANGED <<call, executor, tree, base, packVars, dir, settled>>

Next ==
  \/ Edit
  \/ \E c \in Calls : Called(c)
  \/ TakeManifest
  \/ BaselineReturns
  \/ ListSource \/ ReadFile
  \/ PlannerAnswers \/ AnalystAnswers \/ GeneratorAnswers
  \/ PlanCandidate
  \/ Copy
  \/ Plant
  \/ CollectionReturns
  \/ Compare
  \/ \E w \in Worlds : Settle(w)
  \/ Judge

Spec == Init /\ [][Next]_vars

-----------------------------------------------------------------------------
(* Properties. *)

Contents == [source : Versions, mutated : BOOLEAN, candidate : BOOLEAN]

TypeOK ==
  /\ call \in [Calls -> [at : {"idle", "pack", "create", "extract", "install", "test",
                               "terminate", "returned"},
                         archive : Contents \cup {NoContent},
                         remote : Contents \cup {NoContent, Partial},
                         sandbox : {"none", "up", "gone"},
                         outcome : Outcomes \cup {"none"}, cleanupError : BOOLEAN]]
  /\ \A c \in Calls : Returned(c) => call[c].outcome \in Outcomes
  /\ executor \in [Calls -> {"sandbox", "local"}]
  /\ tree \in Versions /\ base \in Versions
  /\ pc \in {"manifest", "baseline", "list", "read", "ask", "propose", "copy", "plant",
              "collect", "compare", "verify"} \cup Ended
  /\ reader \in {"run", "planner", "analyst", "generator"}
  /\ listed \in Versions /\ shown \subseteq Versions
  /\ dir \in Dirs
  /\ content \in [Dirs -> Contents \cup {NoContent, Partial}]
  /\ removed \subseteq Dirs
  /\ settled \in [Worlds -> Outcomes \cup {"none"}]

\* The outcome the run goes by.
Used(c) == IF c \in Worlds THEN settled[c] ELSE call[c].outcome

\* An outcome that counts is pytest's, on exactly the snapshot the manifest
\* names, whatever happens to the tree and to the transfer meanwhile.  In a
\* sandbox that holds of every call.  In place it holds of what is used, except
\* for the baseline: the tree may be edited under pytest and restored before
\* run_baseline looks at it again.
TestedWhatWasMeant ==
  \A c \in Calls :
    IF executor[c] = "sandbox"
    THEN call[c].outcome \in {"PASS", "TEST_FAIL"} => call[c].remote = Expected(c)
    ELSE c # "baseline" /\ Used(c) \in {"PASS", "TEST_FAIL"} => call[c].remote = Expected(c)

\* A verified test passed and killed the mutant in two worlds that differ in
\* the mutation alone, was collected in the first of them, and the source of
\* all three passed its own tests; no outcome given up as late was used.
OneSnapshotVerified ==
  pc = "verified" =>
    /\ Clean("baseline")
    /\ call["collect"].outcome = "PASS"
    /\ call["original"].outcome = "PASS" /\ call["mutant"].outcome = "TEST_FAIL"
    /\ \A c \in Calls :
         /\ Returned(c)
         /\ executor[c] = "sandbox" \/ c # "baseline" => call[c].remote.source = base
    /\ call["original"].remote = call["collect"].remote
    /\ call["mutant"].remote = [call["original"].remote EXCEPT !.mutated = TRUE]

\* What a model is asked about is the baseline's source, file by file, although
\* the tree may change between the manifest of a packing and any of its reads,
\* and between one prompt and the next; the test that was then verified was
\* written for that source.
ShownIsTheBaseline ==
  pc \in {"ask", "propose", "copy", "plant", "collect", "compare", "verify", "verified"} =>
    shown = {base}

\* Whatever is read is packed by the rule: every target, then the context files
\* in path order as long as they fit, and the right reason for each one left out.
\* Checked for all snapshots within the bounds at once.
FirstFitIsExact == shown # {} => AllFirstFit

\* Nothing is forgotten.  A directory that outlives the run is one whose removal
\* was tried and failed; none is taken from under a call whose outcome may still
\* count, only from one that was given up as late.  No other call outlives the
\* run, and no sandbox a finished call, unless that call says so.
NothingForgotten ==
  /\ pc \in Ended => \A d \in Dirs : content[d] # NoContent => d \in removed
  /\ \A c \in IF pc \in Ended THEN Calls ELSE removed :
       call[c].at = "idle" \/ Returned(c) \/ (c \in Worlds /\ settled[c] = "TIMEOUT")
  /\ \A c \in Calls : Returned(c) /\ call[c].sandbox = "up" => call[c].cleanupError
=============================================================================
