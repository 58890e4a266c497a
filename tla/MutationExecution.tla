------------------------- MODULE MutationExecution -------------------------
(***************************************************************************)
(* execute_mutation_plan (src/perjury/execution.py) with apply_mutation    *)
(* (src/perjury/mutation.py): every accepted mutation is applied to its    *)
(* own copy of the baseline snapshot while the live tree may be edited, in *)
(* a re-score the verified candidate is added to the copy, the copies that *)
(* could be made are fanned out by run_fanout (module Batch) or by a       *)
(* runner of the caller's, and the results that come back are reconciled   *)
(* with the accepted IDs.  The finally clause removes the copies, as far   *)
(* as they can be removed.                                                 *)
(***************************************************************************)
EXTENDS Contracts, Sequences

CONSTANTS N,           \* number of accepted mutations
          Seen,        \* outcomes an execution comes to
          MaxReturned  \* how many results a runner of the caller's returns at most

ASSUME PlanAssumption == N \in Nat \ {0} /\ MaxReturned \in Nat
ASSUME SeenAssumption == Seen \subseteq Outcomes

Mutations == 1..N
None == [job |-> 0, outcome |-> "none"]
Result == [job : Mutations, outcome : Seen]

\* FanoutResult.results of any length up to max.
Batches(max) == UNION {[1..n -> Result] : n \in 0..max}

VARIABLES
  candidate,   \* the candidate the caller passes, in a re-score (never changes)
  runner,      \* the fanout_runner the caller passes (never changes)
  tree,        \* the live source tree: as at the baseline, or edited
  pc,          \* where execute_mutation_plan is
  k,           \* the mutation being applied
  world,       \* [Mutations -> state of the disposable copy]
  workspaces,  \* mutations with a registered workspace
  failures,    \* mutations in apply_failures
  announced,   \* [Mutations -> result run_fanout passed to on_result]
  fanout,      \* status of the fan-out
  returned,    \* the results of the fan-out, in the order they were returned
  trials       \* [Mutations -> status reported], empty without a report

planVars == <<candidate, runner, k, workspaces, failures>>
runVars == <<announced, fanout, returned, trials>>
vars == <<tree, pc, world, planVars, runVars>>

\* A copy that is left is one whose removal was tried and failed, wholly or in part.
Worlds == {"none", "base", "edited", "gone", "left"}
Ended == {"report", "stale", "error"}

Init ==
  /\ candidate \in {"none", "given"}
  /\ runner \in {"run_fanout", "injected"}
  /\ tree \in {"base", "edited"}
  /\ pc = "check" /\ k = 1
  /\ world = [m \in Mutations |-> "none"]
  /\ workspaces = {} /\ failures = {}
  /\ announced = [m \in Mutations |-> None]
  /\ fanout = "running"
  /\ returned = <<>> /\ trials = <<>>

\* Somebody edits the working tree, or restores it.
Edit ==
  /\ pc \notin Ended
  /\ tree' = IF tree = "base" THEN "edited" ELSE "base"
  /\ UNCHANGED <<pc, world, planVars, runVars>>

-----------------------------------------------------------------------------
(* Leaving, normally or with an exception: the finally clause removes the    *)
(* registered workspaces, and only those.                                    *)

\* rmtree ignores errors: each of the copies may stay.
Remove(copies) ==
  \E left \in SUBSET copies :
    world' = [m \in Mutations |-> IF m \in left THEN "left"
                                 ELSE IF m \in copies THEN "gone" ELSE world[m]]

LeaveWithoutFinally(how, others) ==
  /\ pc' = how
  /\ Remove(IF how = "report" THEN workspaces \cup others ELSE others)

\* The call removes the registered copies and those whoever raised had made.
Leave(how, others) ==
  /\ pc' = how
  /\ Remove(workspaces \cup others)

Advance ==
  /\ k' = k + 1
  /\ UNCHANGED <<candidate, runner>>
  /\ pc' = IF k = N THEN "fan_out" ELSE "check"

Register == Advance /\ workspaces' = workspaces \cup {k} /\ UNCHANGED failures

Refuse == Advance /\ failures' = failures \cup {k} /\ UNCHANGED workspaces

\* apply_mutation: the path and anchor checks may refuse the proposal; the
\* identity check fails on a tree that drifted from the baseline.
CheckIdentity ==
  /\ pc = "check"
  /\ \/ Refuse /\ UNCHANGED world
     \/ /\ tree = "edited"
        /\ Leave("stale", {})
        /\ UNCHANGED planVars
     \/ /\ tree = "base"
        /\ pc' = "copy"
        /\ UNCHANGED <<world, planVars>>
  /\ UNCHANGED <<tree, runVars>>

Copied == [world EXCEPT ![k] = tree]

Plant == IF candidate = "given" THEN pc' = "plant" /\ UNCHANGED planVars ELSE Register

CopyUnverified ==
  /\ pc = "copy"
  /\ world' = Copied
  /\ Plant
  /\ UNCHANGED <<tree, runVars>>

\* The copy re-reads every file and compares it with the manifest, so an edit
\* since the identity check still counts as drift.  The mutated bytes must be
\* the planned ones.  A copy that is refused is removed at once.
CopyBaseline ==
  /\ pc = "copy"
  /\ \/ /\ tree = "edited"
        /\ Leave("stale", {k})
        /\ UNCHANGED planVars
     \/ /\ tree = "base"
        /\ Leave("error", {k})
        /\ UNCHANGED planVars
     \/ /\ tree = "base"
        /\ world' = Copied
        /\ Plant
  /\ UNCHANGED <<tree, runVars>>

PlantAndCarryOn ==
  /\ pc = "plant"
  /\ Register
  /\ UNCHANGED world \/ Remove({k})
  /\ UNCHANGED <<tree, runVars>>

\* A re-score writes the candidate into the copy and takes its manifest anew.
\* A rejected candidate discards the copy; any other exception leaves it where
\* it is, not yet registered.
PlantCandidate ==
  /\ pc = "plant"
  /\ \/ Register /\ UNCHANGED world
     \/ Refuse /\ Remove({k})
     \/ Leave("error", {}) /\ UNCHANGED planVars
  /\ UNCHANGED <<tree, runVars>>

-----------------------------------------------------------------------------
(* The fan-out, and the report. *)

B == INSTANCE Batch WITH
       Jobs <- Mutations, Results <- Result, None <- None,
       settled <- announced, status <- fanout

\* run_fanout passes each result to on_result.  What another runner announces
\* goes past execute_mutation_plan to the caller.
Announce(m) ==
  /\ pc = "fan_out" /\ runner = "run_fanout"
  /\ m \in workspaces
  /\ B!SettleAndGoOn(m)
  /\ UNCHANGED <<tree, pc, world, planVars, returned, trials>>

\* on_result raised; the fan-out re-raises.
AnnounceFails(m) ==
  /\ pc = "fan_out" /\ runner = "run_fanout"
  /\ m \in workspaces
  /\ B!SettleAndRaise(m)
  /\ Leave("error", {})
  /\ UNCHANGED <<tree, planVars, returned, trials>>

\* Another runner may raise whatever it has announced.
RunnerRaises ==
  /\ pc = "fan_out" /\ runner = "injected" /\ workspaces # {}
  /\ fanout' = "raised"
  /\ Leave("error", {})
  /\ UNCHANGED <<tree, planVars, announced, returned, trials>>

\* No ID comes back twice, and the IDs that come back are those that were sent.
Distinct(batch) ==
  \A i, j \in DOMAIN batch : batch[i].job = batch[j].job => i = j
IdsOf(batch) == {batch[i].job : i \in DOMAIN batch}

\* run_fanout returns what it has announced, when every job has settled, and
\* without jobs it is not called.  Another runner may return anything.
FanoutReturns ==
  /\ pc = "fan_out"
  /\ pc' = "reconcile"
  /\ \/ /\ runner = "run_fanout" \/ workspaces = {}
        /\ \A m \in workspaces : announced[m] # None
        /\ returned' \in Batches(N)
        /\ Distinct(returned') /\ IdsOf(returned') = workspaces
        /\ \A i \in DOMAIN returned' : returned'[i] = announced[returned'[i].job]
     \/ /\ runner = "injected" /\ workspaces # {}
        /\ returned' \in Batches(MaxReturned)
  /\ fanout' = "returned"
  /\ UNCHANGED <<tree, world, planVars, announced, trials>>

\* by_id: of several results under one ID the last one.
ById(m) ==
  returned[CHOOSE i \in DOMAIN returned :
             /\ returned[i].job = m
             /\ \A j \in DOMAIN returned : returned[j].job = m => j <= i]

Report == [m \in Mutations |-> StatusOf[IF m \in failures THEN "INVALID" ELSE ById(m).outcome]]

ReconcileIdsOnly ==
  /\ pc = "reconcile"
  /\ IF IdsOf(returned) = workspaces
     THEN trials' = Report /\ Leave("report", {})
     ELSE UNCHANGED trials /\ Leave("error", {})
  /\ UNCHANGED <<tree, planVars, announced, fanout, returned>>

Reconcile ==
  /\ pc = "reconcile"
  /\ IF Distinct(returned) /\ IdsOf(returned) = workspaces
     THEN trials' = Report /\ Leave("report", {})
     ELSE UNCHANGED trials /\ Leave("error", {})
  /\ UNCHANGED <<tree, planVars, announced, fanout, returned>>

Next ==
  \/ Edit
  \/ CheckIdentity
  \/ CopyBaseline
  \/ PlantCandidate
  \/ \E m \in Mutations : Announce(m) \/ AnnounceFails(m)
  \/ RunnerRaises
  \/ FanoutReturns
  \/ Reconcile

Spec == Init /\ [][Next]_vars

-----------------------------------------------------------------------------
(* Properties. *)

TypeOK ==
  /\ candidate \in {"none", "given"}
  /\ runner \in {"run_fanout", "injected"}
  /\ tree \in {"base", "edited"}
  /\ pc \in {"check", "copy", "plant", "fan_out", "reconcile"} \cup Ended
  /\ k \in 1..(N + 1)
  /\ world \in [Mutations -> Worlds]
  /\ workspaces \subseteq Mutations /\ failures \subseteq Mutations
  /\ announced \in [Mutations -> Result \cup {None}]
  /\ fanout \in {"running", "returned", "raised"}
  /\ returned \in Seq(Result)
  /\ trials \in [Mutations -> Statuses] \cup {<<>>}

\* No mutant is ever built on anything but the bytes the baseline ran on,
\* whenever the live tree is edited and restored while copies are made.
WorldsAreBaseline == \A m \in Mutations : world[m] # "edited"

\* A job is fanned out only while its copy exists.
ExecutedInTheirWorld ==
  pc = "fan_out" => \A m \in workspaces : world[m] = "base"

\* However the call ends, no copy is forgotten: what is still there is a copy
\* whose removal was tried and failed, or the one whose candidate could not be
\* planted for a reason other than a rejection.
NoCopyIsForgotten ==
  pc \in Ended =>
    \A m \in Mutations : world[m] = "base" =>
      pc = "error" /\ candidate = "given" /\ m = k /\ m \notin workspaces

\* Whatever the runner returned, results under an ID that was not sent, twice
\* under one ID, or none for a job: a report gives every mutation that was
\* executed the one result that came back for it, and none to a mutation that
\* was not executed.  What run_fanout had announced is what is reported.
ReportIsReconciled ==
  pc = "report" =>
    \A m \in Mutations :
      \/ /\ m \in failures \ workspaces
         /\ \A i \in DOMAIN returned : returned[i].job # m
         /\ trials[m] = "INVALID"
      \/ /\ m \in workspaces \ failures
         /\ \E i \in DOMAIN returned :
              /\ \A j \in DOMAIN returned : returned[j].job = m <=> j = i
              /\ trials[m] = StatusOf[returned[i].outcome]
         /\ runner = "run_fanout" => trials[m] = StatusOf[announced[m].outcome]
=============================================================================
