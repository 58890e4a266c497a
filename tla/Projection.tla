----------------------------- MODULE Projection -----------------------------
(***************************************************************************)
(* project_snapshot and _apply_result (src/perjury/runs.py): what a viewer *)
(* of a run sees, folded from its events, and how the final result is laid *)
(* over it.  reduce() of src/perjury/ui/store.js is the same fold.         *)
(***************************************************************************)
EXTENDS Naturals, Sequences

CONSTANTS RunId,    \* the run whose events are folded
          Blank,    \* no mutation
          Terminal  \* TERMINAL_VALUES

\* known: which of the baseline, the context and the plan are on show.
NewSnapshot ==
  [run_id |-> RunId, last_seq |-> 0, stage |-> "created", terminal |-> FALSE, known |-> {},
   mutations |-> [m \in {} |-> "pending"], survivor |-> Blank, analysis |-> Blank,
   proposal |-> Blank, candidate |-> Blank, verification |-> <<>>, comparison |-> <<>>,
   result |-> "none", error |-> "none", reason |-> "none",
   elapsed |-> "none", stages |-> <<>>, improvement_verified |-> FALSE]

\* What an event adds to its own field.
Patch(snap, ev) ==
  LET t == ev.type IN
  CASE t = "baseline.completed" -> [snap EXCEPT !.known = @ \cup {"baseline"}]
    [] t = "context.completed" -> [snap EXCEPT !.known = @ \cup {"context"}]
    [] t = "plan.completed" ->
         [snap EXCEPT !.known = @ \cup {"plan"},
                      !.mutations = [m \in ev.data.ids |-> "pending"]]
    [] t = "mutation.completed" /\ ev.mutation \in DOMAIN snap.mutations ->
         [snap EXCEPT !.mutations[ev.mutation] = ev.data.status]
    [] t = "survivor.selected" -> [snap EXCEPT !.survivor = ev.mutation]
    [] t = "analysis.completed" -> [snap EXCEPT !.analysis = ev.mutation]
    [] t = "test.proposed" -> [snap EXCEPT !.proposal = ev.mutation]
    [] t = "candidate.ready" -> [snap EXCEPT !.candidate = ev.mutation]
    [] t = "verification.completed" -> [snap EXCEPT !.verification = <<ev.mutation, ev.data>>]
    [] t = "rescore.completed" -> [snap EXCEPT !.comparison = <<ev.data>>]
    [] t = "run.completed" ->
         [snap EXCEPT !.result = ev.data.state, !.reason = ev.data.reason]
    [] t = "run.failed" -> [snap EXCEPT !.error = ev.data.reason, !.reason = ev.data.reason]
    [] OTHER -> snap

\* An event of another run, or seen before, changes nothing.
Show(snap, ev) ==
  IF ev.run # snap.run_id \/ ev.seq <= snap.last_seq THEN snap
  ELSE [Patch(snap, ev) EXCEPT !.last_seq = ev.seq, !.stage = ev.stage,
                               !.terminal = ev.stage \in Terminal]

Project(events) ==
  LET snap[i \in 0..Len(events)] ==
        IF i = 0 THEN NewSnapshot ELSE Show(snap[i - 1], events[i])
  IN snap[Len(events)]

\* The orchestrator's result overrides, also with the identities of context and
\* plan it may lack; compared is empty without a re-score.
Overlay(snap, result) ==
  [snap EXCEPT !.stage = result.state, !.terminal = TRUE,
               !.elapsed = "total", !.reason = result.reason, !.stages = result.stages,
               !.known = (@ \ {"context", "plan"}) \cup result.identities,
               !.improvement_verified = result.improvement_verified,
               !.error = IF result.state = "failed" THEN result.reason ELSE "none",
               !.result = IF result.state = "failed" THEN "none" ELSE result.state,
               !.comparison = IF result.compared = <<>> THEN @ ELSE result.compared]
=============================================================================
