------------------------------ MODULE Planning ------------------------------
(***************************************************************************)
(* plan_mutations (src/perjury/planning.py): at most two requests to a     *)
(* planner nobody trusts, and the gate every proposal passes before it     *)
(* counts.  Here a proposal is an id and an edit, that is a path and two   *)
(* snippets.  All that matters of an edit is the program it makes: the     *)
(* text of the mutated file.  Its path is no part of that, as the hash     *)
(* that tells programs apart is of the bytes alone.                        *)
(***************************************************************************)
EXTENDS Integers, Sequences, FiniteSets

CONSTANTS Ids,          \* ids the planner may put on a proposal
          Malformed,    \* edits the gate refuses on sight: path, type, no-op, anchor
          Inapplicable, \* edits apply_mutation refuses
          Programs,     \* the other edits, by the text they make of their file,
                        \* equal edits of identical files together
          Broken,       \* programs that do not compile
          NoEdit,       \* stands for the edit of an answer that is no batch
          Minimum,      \* MIN_MUTATIONS
          Target,       \* config.target_count
          MaxBatch      \* MutationBatch.mutations: max_length

ASSUME CountsAssumption ==
  /\ Minimum \in Nat \ {0} /\ Target \in Nat /\ MaxBatch \in Nat
  /\ Minimum <= Target /\ Target <= MaxBatch
ASSUME ProgramsAssumption == Broken \subseteq Programs
ASSUME EditsAssumption ==
  (UNION Programs) \cap (Malformed \cup Inapplicable) = {}

Edits == Malformed \cup Inapplicable \cup UNION Programs
Program(e) == CHOOSE p \in Programs : e \in p

ASSUME NoEditAssumption == NoEdit \notin Edits

VARIABLES
  pc,        \* where plan_mutations is, or how it ended
  attempt,   \* attempt of the loop
  requests,  \* what each PlanningRequest asked for: [count, avoid]
  batch,     \* proposals of the current batch evaluated so far
  usedIds,   \* seen_ids
  seen,      \* seen_keys
  accepted,  \* the edits of evaluator.accepted
  rejected,  \* evaluator.rejected, as [edit, reason]
  noted,     \* evaluator.avoid, as a set
  received   \* every proposal ever received, as [edit, fresh]

gate == <<seen, accepted, rejected>>
vars == <<pc, attempt, requests, batch, usedIds, gate, noted, received>>

Ended == {"planned", "provider_error", "insufficient", "stale_baseline", "escaped"}

Init ==
  /\ pc = "packing"
  /\ attempt = 1 /\ requests = <<>>
  /\ batch = 0 /\ usedIds = {}
  /\ seen = {} /\ accepted = <<>> /\ rejected = {}
  /\ noted = {} /\ received = {}

\* The texts accepted so far, which is what seen_hashes knows: mutated_sha256
\* hashes the bytes of the file without its path, so that the same mutant of
\* two identical files is one program.
Made == {Program(accepted[i]) : i \in 1..Len(accepted)}

-----------------------------------------------------------------------------
(* The attempts. *)

\* pack_context and render_mutation_request; a ContextError is not a PlanningError.
PackContext ==
  /\ pc = "packing"
  /\ pc' \in {"attempt", "escaped"}
  /\ UNCHANGED <<attempt, requests, batch, usedIds, gate, noted, received>>

\* The second attempt is for plans that are still short.
Wanted == attempt = 1 \/ (attempt = 2 /\ Len(accepted) < Minimum)

Request ==
  requests' = Append(requests, [count |-> Target - Len(accepted),
                                avoid |-> IF attempt = 2 THEN noted ELSE {}])

\* propose answers with a valid MutationBatch.
BatchArrives ==
  /\ pc = "attempt" /\ Wanted
  /\ Request
  /\ pc' = "batch"
  /\ batch' = 0 /\ usedIds' = {}
  /\ UNCHANGED <<attempt, gate, noted, received>>

\* What it answers is not a MutationBatch: the attempt is spent.
InvalidOutput ==
  /\ pc = "attempt" /\ Wanted
  /\ Request
  /\ rejected' = rejected \cup {[edit |-> NoEdit, reason |-> "INVALID_OUTPUT"]}
  /\ attempt' = attempt + 1
  /\ UNCHANGED <<pc, batch, usedIds, seen, accepted, noted, received>>

PlannerFails ==
  /\ pc = "attempt" /\ Wanted
  /\ Request
  /\ pc' = "provider_error"
  /\ UNCHANGED <<attempt, batch, usedIds, gate, noted, received>>

-----------------------------------------------------------------------------
(* One proposal. *)

Reject(e, reason) ==
  /\ rejected' = rejected \cup {[edit |-> e, reason |-> reason]}
  /\ UNCHANGED accepted

ApplyComparingSnippets(e) ==
  \/ e \in Inapplicable /\ Reject(e, "NOT_APPLICABLE")
  \/ /\ e \notin Inapplicable
     /\ \/ Program(e) \in Broken /\ Reject(e, "COMPILE_INVALID")
        \/ /\ Program(e) \notin Broken
           /\ accepted' = Append(accepted, e)
           /\ UNCHANGED rejected

\* The proposal's copy is made, and the gate looks at the program.
Apply(e) ==
  \/ e \in Inapplicable /\ Reject(e, "NOT_APPLICABLE")
  \/ /\ e \notin Inapplicable
     /\ \/ Program(e) \in Made /\ Reject(e, "DUPLICATE")
        \/ Program(e) \in Broken \ Made /\ Reject(e, "COMPILE_INVALID")
        \/ /\ Program(e) \notin Broken \cup Made
           /\ accepted' = Append(accepted, e)
           /\ UNCHANGED rejected

\* _Evaluator.evaluate
Evaluate(e) ==
  \/ /\ Len(accepted) >= Target
     /\ Reject(e, "OVER_TARGET")
     /\ UNCHANGED seen
  \/ /\ Len(accepted) < Target
     /\ \/ e \in Malformed /\ Reject(e, "MALFORMED") /\ UNCHANGED seen
        \/ e \in seen /\ Reject(e, "DUPLICATE") /\ UNCHANGED seen
        \/ e \notin Malformed \cup seen /\ seen' = seen \cup {e} /\ Apply(e)

Proposed(id, e) ==
  /\ pc = "batch" /\ batch < MaxBatch
  /\ batch' = batch + 1
  /\ received' = received \cup {[edit |-> e, fresh |-> id \notin usedIds]}

ProposeUnnoted(id, e) ==
  /\ Proposed(id, e)
  /\ usedIds' = usedIds \cup {id}
  /\ IF id \in usedIds
     THEN Reject(e, "DUPLICATE_ID") /\ UNCHANGED <<seen, noted>>
     ELSE Evaluate(e) /\ noted' = noted \cup {e}
  /\ UNCHANGED <<pc, attempt, requests>>

ProposeRemembered(id, e) ==
  /\ Proposed(id, e)
  /\ usedIds' = usedIds \cup {id}
  /\ noted' = noted \cup {e}
  /\ IF id \in usedIds
     THEN Reject(e, "DUPLICATE_ID") /\ seen' = seen \cup ({e} \ Malformed)
     ELSE Evaluate(e)
  /\ UNCHANGED <<pc, attempt, requests>>

\* The next proposal of the batch; an id used twice spoils the second one.
Propose(id, e) ==
  /\ Proposed(id, e)
  /\ usedIds' = usedIds \cup {id}
  /\ noted' = noted \cup {e}
  /\ IF id \in usedIds
     THEN Reject(e, "DUPLICATE_ID") /\ UNCHANGED seen
     ELSE Evaluate(e)
  /\ UNCHANGED <<pc, attempt, requests>>

\* The tree is not the baseline any more, or no snapshot of it can be taken.
ApplyFails(id, e) ==
  /\ Proposed(id, e)
  /\ id \notin usedIds
  /\ Len(accepted) < Target
  /\ e \notin Malformed \cup seen
  /\ usedIds' = usedIds \cup {id}
  /\ noted' = noted \cup {e}
  /\ seen' = seen \cup {e}
  /\ pc' \in {"stale_baseline", "escaped"}
  /\ UNCHANGED <<attempt, requests, accepted, rejected>>

\* A MutationBatch is not empty.
EndBatch ==
  /\ pc = "batch" /\ batch > 0
  /\ pc' = "attempt"
  /\ attempt' = attempt + 1
  /\ UNCHANGED <<requests, batch, usedIds, gate, noted, received>>

\* The loop is over.
Decide ==
  /\ pc = "attempt" /\ ~Wanted
  /\ pc' = IF Len(accepted) < Minimum THEN "insufficient" ELSE "planned"
  /\ UNCHANGED <<attempt, requests, batch, usedIds, gate, noted, received>>

Next ==
  \/ PackContext
  \/ BatchArrives \/ InvalidOutput \/ PlannerFails
  \/ \E id \in Ids, e \in Edits : Propose(id, e) \/ ApplyFails(id, e)
  \/ EndBatch
  \/ Decide

Spec == Init /\ [][Next]_vars

-----------------------------------------------------------------------------
(* Properties. *)

Reasons == {"INVALID_OUTPUT", "DUPLICATE_ID", "OVER_TARGET", "MALFORMED", "DUPLICATE",
            "NOT_APPLICABLE", "COMPILE_INVALID"}

TypeOK ==
  /\ pc \in {"packing", "attempt", "batch"} \cup Ended
  /\ attempt \in 1..3
  /\ requests \in Seq([count : 1..Target, avoid : SUBSET Edits])
  /\ batch \in 0..MaxBatch /\ usedIds \subseteq Ids
  /\ seen \subseteq Edits \ Malformed
  /\ accepted \in Seq(UNION Programs)
  /\ rejected \subseteq [edit : Edits \cup {NoEdit}, reason : Reasons]
  /\ noted \subseteq Edits
  /\ received \subseteq [edit : Edits, fresh : BOOLEAN]

\* The batch that is scored: the accepted mutants are different programs that
\* compile, whatever the planner repeats, in one batch or across two, under
\* other ids, through other snippets or in an identical file; a plan has enough
\* and not too many.
PlanIsExecutable ==
  /\ \A i \in 1..Len(accepted) : Program(accepted[i]) \notin Broken
  /\ \A i, j \in 1..Len(accepted) :
       i # j => Program(accepted[i]) # Program(accepted[j])
  /\ Len(accepted) <= Target
  /\ pc = "planned" => Len(accepted) >= Minimum
  /\ pc = "insufficient" => Len(accepted) < Minimum

\* No usable proposal is lost: unless the target is reached, every program that
\* compiles and was proposed under an id not yet used in its batch is in the
\* plan, for this file or an identical one, whatever was proposed before it, the same edit under a spoiled id
\* included.
NothingUsableIsLost ==
  pc \in {"attempt", "batch", "planned", "insufficient"} =>
    \/ Len(accepted) = Target
    \/ \A r \in received :
         r.fresh /\ r.edit \notin Malformed \cup Inapplicable =>
           Program(r.edit) \in Made \cup Broken

\* The planner is asked at most twice, the second time only for a plan that is
\* short, for what is missing, with everything it ever proposed to avoid.
RefillIsInformed ==
  [][/\ Len(requests') <= 2
     /\ Len(requests') > Len(requests) /\ Len(requests') = 2 =>
          /\ Len(accepted) < Minimum
          /\ requests'[2].count = Target - Cardinality(Made)
          /\ requests'[2].avoid = {r.edit : r \in received}]_vars
=============================================================================
