---------------------------- MODULE Orchestrator ----------------------------
(***************************************************************************)
(* run_perjury (src/perjury/orchestrator.py): baseline, context, planning, *)
(* first pass, survivor analysis, test generation, two-world verification, *)
(* same-batch re-score, and one of four terminal states.                   *)
(*                                                                         *)
(* A step ends where another thread can see it: at an event, at a result   *)
(* of the fan-out, at the end of a call.  A mutation is its place in the   *)
(* order of mutation IDs.  What models and processes answer is chosen; a   *)
(* stage that calls code which may raise anything may also stop with an    *)
(* UNEXPECTED_ERROR.                                                       *)
(***************************************************************************)
EXTENDS Contracts, Sequences, FiniteSetsExt

CONSTANTS RunId,      \* the run_id every event carries
          N,          \* size of the accepted batch
          Seen,       \* outcomes an execution comes to
          MayCancel   \* whether the caller may set cancel_event

ASSUME BatchAssumption == N \in Nat \ {0}
ASSUME SeenAssumption == Seen \subseteq Outcomes /\ "INFRA_ERROR" \in Seen
ASSUME CancelAssumption == MayCancel \in BOOLEAN

Mutations == 1..N
Nobody == 0

Working == <<"created", "baseline", "context", "planning", "mutation_execution",
             "survivor_analysis", "test_generation", "verification", "rescoring">>
WorkingStages == {Working[i] : i \in 1..Len(Working)}
TerminalStages == {"verified", "rejected", "inconclusive", "failed"}
Stages == WorkingStages \cup TerminalStages

AllowedNextWithoutFailure ==
  [s \in Stages |->
     {Working[i + 1] : i \in {n \in 1..(Len(Working) - 1) : Working[n] = s}}
       \cup IF s \in WorkingStages \ {"created", "rescoring"} THEN TerminalStages ELSE {}]

\* A working stage may advance to the next one or to any terminal stage.
AllowedNext ==
  [s \in Stages |->
     {Working[i + 1] : i \in {n \in 1..(Len(Working) - 1) : Working[n] = s}}
       \cup IF s \in WorkingStages THEN TerminalStages ELSE {}]

VARIABLES
  pc,         \* the call run_perjury is in
  stage,      \* run.stage
  events,     \* run.events, as [run, seq, type, stage, mutation, data]
  records,    \* run.stages, as [stage, status]
  stop,       \* the _Stop that ends the run, [state, reason]
  held,       \* which evidence the run holds for its result
  first,      \* statuses the first pass has reported so far
  second,     \* the same for the re-score
  live,       \* jobs of the current fan-out that may still reach the executor
  unsaid,     \* analyses still to be announced
  target,     \* the selected survivor
  worlds,     \* outcomes of the two verification worlds
  cancelled   \* cancel_event.is_set()

recordVars == <<stage, events, records>>
dataVars == <<held, first, second, live, unsaid, target, worlds>>
vars == <<pc, recordVars, stop, dataVars, cancelled>>

NoStop == [state |-> "none", reason |-> "NONE"]
NotRun == [original |-> "none", mutant |-> "none"]
EmptyPass == [m \in {} |-> "KILLED"]

Init ==
  /\ pc = "start"
  /\ stage = "created"
  /\ events = <<>> /\ records = <<>>
  /\ stop = NoStop
  /\ held = {}
  /\ first = EmptyPass /\ second = EmptyPass
  /\ live = {} /\ unsaid = {}
  /\ target = Nobody
  /\ worlds = NotRun
  /\ cancelled \in {FALSE, MayCancel}

-----------------------------------------------------------------------------
(* _Run: transition, emit and stage_scope.                                   *)

\* Any other transition would raise InvalidTransitionError out of run_perjury.
Transition(to) ==
  /\ to \in AllowedNext[stage]
  /\ stage' = to

EmitWith(type, s, m, data) ==
  events' = Append(events, [run |-> RunId, seq |-> Len(events) + 1, type |-> type, stage |-> s,
                            mutation |-> m, data |-> data])

\* An event whose payload tells nothing more.
NoData == [none |-> TRUE]
Emit(type, s, m) == EmitWith(type, s, m, NoData)

Close(s, status) == records' = Append(records, [stage |-> s, status |-> status])

\* A stage's work is done, or goes on.
Proceed(to) == pc' = to /\ UNCHANGED stop

\* The stage raised _Stop.
StopRun(s, state, reason) ==
  /\ pc' = "finish"
  /\ stop' = [state |-> state, reason |-> reason]
  /\ Close(s, "terminal")

\* A call of the stage failed: with an error the stage knows (its own reason),
\* or with any other (the handler around all stages).
Fail(s, reason) ==
  \/ StopRun(s, "failed", reason)
  \/ /\ pc' = "finish"
     /\ stop' = [state |-> "failed", reason |-> "UNEXPECTED_ERROR"]
     /\ Close(s, "failed")

-----------------------------------------------------------------------------
(* The stages. *)

Start ==
  /\ pc = "start"
  /\ Emit("run.started", "created", Nobody)
  /\ Proceed("baseline")
  /\ UNCHANGED <<stage, records, dataVars, cancelled>>

\* The three stages that hand one piece of evidence on.
Prepare(s, event, data, evidence, to, reason) ==
  /\ pc = s
  /\ Transition(s)
  /\ \/ /\ EmitWith(event, s, Nobody, data)
        /\ Close(s, "ok")
        /\ held' = held \cup {evidence}
        /\ Proceed(to)
     \/ Fail(s, reason) /\ UNCHANGED <<events, held>>
  /\ UNCHANGED <<first, second, live, unsaid, target, worlds, cancelled>>

Baseline == Prepare("baseline", "baseline.completed", NoData, "baseline", "context",
                    "BASELINE_NOT_READY")

Context == Prepare("context", "context.completed", NoData, "context", "planning",
                   "CONTEXT_FAILED")

Planning == Prepare("planning", "plan.completed", [ids |-> Mutations], "plan",
                    "mutation_execution", "PLANNING_FAILED")

\* Mutations whose copy cannot be made, or that cannot take the candidate, are
\* INVALID without being executed or announced.
Unexecuted == {[m \in refused |-> "INVALID"] : refused \in SUBSET Mutations}

FanOutUncancellable(s, results) ==
  /\ pc = s
  /\ Transition(s)
  /\ live' = Mutations
  /\ Proceed(results)
  /\ UNCHANGED <<events, records, held, unsaid, target, worlds, cancelled>>

\* A fan-out starts: a cancel_event that is already set keeps every job from
\* the executor.
FanOut(s, results) ==
  /\ pc = s
  /\ Transition(s)
  /\ live' = IF cancelled THEN {} ELSE Mutations
  /\ Proceed(results)
  /\ UNCHANGED <<events, records, held, unsaid, target, worlds, cancelled>>

\* What job m comes to.
Results(m) == {StatusOf[o] : o \in IF m \in live THEN Seen ELSE {"INFRA_ERROR"}}

\* on_first_pass, on_rescore: the next result in order of completion.
MutationCompleted(m) ==
  /\ pc = "first_pass"
  /\ m \notin DOMAIN first
  /\ \E r \in Results(m) :
       /\ first' = [i \in DOMAIN first \cup {m} |-> IF i = m THEN r ELSE first[i]]
       /\ EmitWith("mutation.completed", stage, m, [status |-> r])
  /\ UNCHANGED <<pc, stage, records, stop, held, second, live, unsaid, target, worlds, cancelled>>

RescoreMutationCompleted(m) ==
  /\ pc = "replay"
  /\ m \notin DOMAIN second
  /\ \E r \in Results(m) :
       second' = [i \in DOMAIN second \cup {m} |-> IF i = m THEN r ELSE second[i]]
  /\ Emit("rescore.mutation.completed", stage, m)
  /\ UNCHANGED <<pc, stage, records, stop, held, first, live, unsaid, target, worlds, cancelled>>

\* A fan-out is never begun, or its results are not usable.
FanOutFails(s, results, reason, reported) ==
  /\ \/ pc = s /\ Transition(s)
     \/ pc = results /\ reported = Mutations /\ UNCHANGED stage
  /\ Fail(s, reason)
  /\ UNCHANGED <<events, dataVars, cancelled>>

FirstPass ==
  /\ FanOut("mutation_execution", "first_pass")
  /\ first' \in Unexecuted
  /\ UNCHANGED second

FirstPassFails ==
  FanOutFails("mutation_execution", "first_pass", "EXECUTION_FAILED", DOMAIN first)

FirstPassReturns ==
  /\ pc = "first_pass"
  /\ DOMAIN first = Mutations
  /\ held' = held \cup {"first_pass"}
  /\ Emit("execution.completed", stage, Nobody)
  /\ IF Scored(first)
     THEN Close(stage, "ok") /\ Proceed("survivor_analysis")
     ELSE StopRun(stage, "inconclusive", "NO_VALID_MUTATION_OUTCOMES")
  /\ UNCHANGED <<stage, first, second, live, unsaid, target, worlds, cancelled>>

ChosenFromBatch(flagged) ==
  IF Mutations \subseteq flagged THEN Nobody ELSE Min(Mutations \ flagged)

\* The analyzer flags survivors in order; the first one not flagged as possibly
\* equivalent is the target and ends the search.
Chosen(flagged) ==
  IF Survived(first) \subseteq flagged THEN Nobody ELSE Min(Survived(first) \ flagged)

Analysed(m) == {i \in Survived(first) : m = Nobody \/ i <= m}

SelectTarget ==
  /\ pc = "survivor_analysis"
  /\ Transition("survivor_analysis")
  /\ \/ \E flagged \in SUBSET Survived(first) :
          /\ target' = Chosen(flagged)
          /\ unsaid' = Analysed(target')
          /\ held' = held \cup {"selection"}
          /\ Proceed("analyses")
          /\ UNCHANGED records
     \/ /\ Fail("survivor_analysis", "ANALYSIS_FAILED")
        /\ UNCHANGED <<held, target, unsaid>>
  /\ UNCHANGED <<events, first, second, live, worlds, cancelled>>

AnnounceAnalysis ==
  /\ pc = "analyses"
  /\ unsaid # {}
  /\ Emit("analysis.completed", stage, Min(unsaid))
  /\ unsaid' = unsaid \ {Min(unsaid)}
  /\ UNCHANGED <<pc, stage, records, stop, held, first, second, live, target, worlds, cancelled>>

AnnounceTarget ==
  /\ pc = "analyses"
  /\ unsaid = {}
  /\ \/ /\ Survived(first) = {}
        /\ StopRun(stage, "inconclusive", "NO_ACTIONABLE_SURVIVOR")
        /\ UNCHANGED events
     \/ /\ Survived(first) # {} /\ target = Nobody
        /\ StopRun(stage, "inconclusive", "ALL_POSSIBLY_EQUIVALENT")
        /\ UNCHANGED events
     \/ /\ target # Nobody
        /\ Emit("survivor.selected", stage, target)
        /\ Close(stage, "ok")
        /\ Proceed("test_generation")
  /\ UNCHANGED <<stage, dataVars, cancelled>>

GenerateTestBeforeEntering ==
  /\ pc = "test_generation"
  /\ \/ /\ Emit("test.proposed", stage, target)
        /\ Transition("test_generation")
        /\ Proceed("preflight")
        /\ UNCHANGED records
     \/ /\ Transition("test_generation")
        /\ Fail("test_generation", "GENERATION_FAILED")
        /\ UNCHANGED events
  /\ UNCHANGED <<dataVars, cancelled>>

GenerateTest ==
  /\ pc = "test_generation"
  /\ Transition("test_generation")
  /\ \/ /\ Emit("test.proposed", "test_generation", target)
        /\ Proceed("preflight")
        /\ UNCHANGED records
     \/ /\ Fail("test_generation", "GENERATION_FAILED")
        /\ UNCHANGED events
  /\ UNCHANGED <<dataVars, cancelled>>

\* plan_candidate refuses the proposal, or pytest collects it; a collection that
\* could not run says nothing about the candidate.
Preflight ==
  /\ pc = "preflight"
  /\ \/ /\ "PASS" \in Seen
        /\ held' = held \cup {"candidate"}
        /\ Emit("candidate.ready", stage, target)
        /\ Close(stage, "ok")
        /\ Proceed("verification")
     \/ /\ \/ StopRun(stage, "rejected", "CANDIDATE_INVALID")
           \/ /\ Seen \cap {"TIMEOUT", "INFRA_ERROR"} # {}
              /\ StopRun(stage, "inconclusive", "PREFLIGHT_UNAVAILABLE")
           \/ /\ stop' = [state |-> "failed", reason |-> "UNEXPECTED_ERROR"]
              /\ pc' = "finish"
              /\ Close(stage, "failed")
        /\ UNCHANGED <<held, events>>
  /\ UNCHANGED <<stage, first, second, live, unsaid, target, worlds, cancelled>>

Judge(w) ==
  \/ /\ Verdict(w) = "verified"
     /\ Close("verification", "ok")
     /\ Proceed("rescoring")
  \/ /\ Verdict(w) = "rejected"
     /\ StopRun("verification", "rejected", "CANDIDATE_FAILED_ORIGINAL")
  \/ /\ Verdict(w) = "inconclusive"
     /\ StopRun("verification", "inconclusive",
                IF w.original = "PASS" THEN "MUTANT_NOT_KILLED" ELSE "VERIFICATION_INCONCLUSIVE")

VerifyAnnouncesSuccess ==
  /\ pc = "verification"
  /\ Transition("verification")
  /\ \/ /\ worlds' \in [original : Seen, mutant : Seen]
        /\ held' = held \cup {"verification"}
        /\ Judge(worlds')
        /\ IF Verdict(worlds') = "verified"
           THEN EmitWith("verification.completed", "verification", target, worlds')
           ELSE UNCHANGED events
     \/ /\ Fail("verification", "WORLD_INCONSISTENT")
        /\ UNCHANGED <<held, worlds, events>>
  /\ UNCHANGED <<first, second, live, unsaid, target, cancelled>>

\* verify_candidate runs both worlds; it is not given the cancel_event.
Verify ==
  /\ pc = "verification"
  /\ Transition("verification")
  /\ \/ /\ worlds' \in [original : Seen, mutant : Seen]
        /\ held' = held \cup {"verification"}
        /\ EmitWith("verification.completed", "verification", target, worlds')
        /\ Judge(worlds')
     \/ /\ Fail("verification", "WORLD_INCONSISTENT")
        /\ UNCHANGED <<held, worlds, events>>
  /\ UNCHANGED <<first, second, live, unsaid, target, cancelled>>

\* The candidate is added to every copy.
Rescore ==
  /\ FanOut("rescoring", "replay")
  /\ second' \in Unexecuted
  /\ UNCHANGED first

RescoreFails ==
  FanOutFails("rescoring", "replay", "RESCORE_PRECONDITION", DOMAIN second)

Counts(pass) == [killed |-> Cardinality(Killed(pass)), survived |-> Cardinality(Survived(pass)),
                 excluded |-> Cardinality(Excluded(pass))]

\* The sign of the delta of the two scores killed / (killed + survived).
Direction ==
  LET gain == Cardinality(Killed(second)) * ValidTotal(first)
              - Cardinality(Killed(first)) * ValidTotal(second)
  IN CASE ~Scored(first) \/ ~Scored(second) -> "unavailable"
       [] OTHER -> IF gain > 0 THEN "improved" ELSE IF gain < 0 THEN "regressed" ELSE "unchanged"

\* compare_scores
Comparison == [before |-> Counts(first), after |-> Counts(second), direction |-> Direction]

NewlySurvived == Killed(first) \cap Survived(second)

ConfirmedByTarget ==
  /\ target \in Survived(first)
  /\ target \in Killed(second)

\* rescore_with_candidate found no inconsistency between the two passes.
Confirmed ==
  /\ target \in Survived(first)
  /\ target \in Killed(second)
  /\ NewlySurvived = {}

Succeed ==
  /\ pc' = "finish"
  /\ stop' = [state |-> "verified", reason |-> "VERIFIED"]
  /\ Close("rescoring", "ok")

RescoreReturnsUnchecked ==
  /\ pc = "replay"
  /\ DOMAIN second = Mutations
  /\ held' = held \cup {"rescore"}
  /\ EmitWith("rescore.completed", "rescoring", target, Comparison)
  /\ Succeed
  /\ UNCHANGED <<stage, first, second, live, unsaid, target, worlds, cancelled>>

RescoreReturns ==
  /\ pc = "replay"
  /\ DOMAIN second = Mutations
  /\ held' = held \cup {"rescore"}
  /\ EmitWith("rescore.completed", "rescoring", target, Comparison)
  /\ IF Confirmed THEN Succeed
                  ELSE StopRun("rescoring", "inconclusive", "RESCORE_INCONSISTENT")
  /\ UNCHANGED <<stage, first, second, live, unsaid, target, worlds, cancelled>>

-----------------------------------------------------------------------------
(* The end of the run, and its caller.                                       *)

Position(s) == CHOOSE i \in 1..Len(Working) : Working[i] = s

\* RunResult.result_must_be_coherent.
Coherent(state, evs) ==
  /\ state \in TerminalStages
  /\ \A i \in 1..Len(evs) : evs[i].seq = i /\ evs[i].run = RunId
  /\ \A i \in 1..(Len(records) - 1) :
       Position(records[i].stage) < Position(records[i + 1].stage)
  /\ evs # <<>> /\ evs[Len(evs)].stage = state
  /\ (evs[Len(evs)].type = "run.failed") <=> (state = "failed")
  /\ state = "verified" =>
       /\ "verification" \in held /\ Verdict(worlds) = "verified"
       /\ "rescore" \in held /\ Confirmed

\* RunResult.improvement_verified
ImprovementVerified == "rescore" \in held /\ Confirmed /\ Direction = "improved"

\* What a snapshot takes from the RunResult.
RunResult ==
  [state |-> stop.state, reason |-> stop.reason, stages |-> records,
   identities |-> held \cap {"context", "plan"},
   improvement_verified |-> ImprovementVerified,
   compared |-> IF "rescore" \in held THEN <<Comparison>> ELSE <<>>]

\* The terminal event, then the result; a result that fails its own validation
\* raises out of run_perjury.
Finish ==
  /\ pc = "finish"
  /\ Transition(stop.state)
  /\ EmitWith(IF stop.state = "failed" THEN "run.failed" ELSE "run.completed",
              stop.state, Nobody, stop)
  /\ pc' = IF Coherent(stop.state, events') THEN "returned" ELSE "raised"
  /\ UNCHANGED <<records, stop, dataVars, cancelled>>

\* The owner of cancel_event sets it; jobs a worker has already taken go on.
Cancel ==
  /\ MayCancel /\ ~cancelled
  /\ pc \notin {"finish", "returned", "raised"}
  /\ cancelled' = TRUE
  /\ live' \in SUBSET live
  /\ UNCHANGED <<pc, recordVars, stop, held, first, second, unsaid, target, worlds>>

Run ==
  \/ Start \/ Baseline \/ Context \/ Planning
  \/ FirstPass \/ FirstPassFails \/ FirstPassReturns
  \/ SelectTarget \/ AnnounceAnalysis \/ AnnounceTarget
  \/ GenerateTest \/ Preflight \/ Verify
  \/ Rescore \/ RescoreFails \/ RescoreReturns
  \/ \E m \in Mutations : MutationCompleted(m) \/ RescoreMutationCompleted(m)
  \/ Finish

Next == Run \/ Cancel

Spec == Init /\ [][Next]_vars

\* Every call a stage makes comes back (models and processes have timeouts).
FairSpec == Spec /\ WF_vars(Run)

-----------------------------------------------------------------------------
(* Properties. *)

Ended == {"returned", "raised"}
EventTypes == {"run.started", "baseline.completed", "context.completed", "plan.completed",
               "mutation.completed", "execution.completed", "survivor.selected",
               "analysis.completed", "test.proposed", "candidate.ready",
               "verification.completed", "rescore.mutation.completed", "rescore.completed",
               "run.completed", "run.failed"}
Reasons ==
  [verified |-> {"VERIFIED"},
   rejected |-> {"CANDIDATE_INVALID", "CANDIDATE_FAILED_ORIGINAL"},
   inconclusive |->
     {"NO_VALID_MUTATION_OUTCOMES", "NO_ACTIONABLE_SURVIVOR", "ALL_POSSIBLY_EQUIVALENT",
      "PREFLIGHT_UNAVAILABLE", "MUTANT_NOT_KILLED", "VERIFICATION_INCONCLUSIVE",
      "RESCORE_INCONSISTENT"},
   failed |->
     {"BASELINE_NOT_READY", "CONTEXT_FAILED", "PLANNING_FAILED", "EXECUTION_FAILED",
      "ANALYSIS_FAILED", "GENERATION_FAILED", "WORLD_INCONSISTENT", "RESCORE_PRECONDITION",
      "UNEXPECTED_ERROR"}]

Count == 0..N
Directions == {"improved", "regressed", "unchanged", "unavailable"}
Score == [killed : Count, survived : Count, excluded : Count]
Payload == {NoData} \cup [ids : {Mutations}] \cup [status : Statuses]
             \cup [original : Seen, mutant : Seen] \cup [before : Score, after : Score, direction : Directions]
             \cup UNION {[state : {s}, reason : Reasons[s]] : s \in TerminalStages}
Event == [run : {RunId}, seq : Nat, type : EventTypes, stage : Stages, mutation : Mutations \cup {Nobody},
          data : Payload]

Evidence == {"baseline", "context", "plan", "first_pass", "selection", "candidate",
             "verification", "rescore"}

TypeOK ==
  /\ pc \in {"start", "baseline", "context", "planning", "mutation_execution", "first_pass",
             "survivor_analysis", "analyses", "test_generation", "preflight", "verification",
             "rescoring", "replay", "finish"} \cup Ended
  /\ stage \in Stages
  /\ events \in Seq(Event)
  /\ records \in Seq([stage : WorkingStages, status : {"ok", "terminal", "failed"}])
  /\ stop = NoStop \/ (stop.state \in TerminalStages /\ stop.reason \in Reasons[stop.state])
  /\ held \subseteq Evidence
  /\ DOMAIN first \subseteq Mutations /\ first \in [DOMAIN first -> Statuses]
  /\ DOMAIN second \subseteq Mutations /\ second \in [DOMAIN second -> Statuses]
  /\ live \subseteq Mutations /\ unsaid \subseteq Survived(first)
  /\ target \in Survived(first) \cup {Nobody}
  /\ worlds \in [original : Seen, mutant : Seen] \cup {NotRun}
  /\ cancelled \in BOOLEAN

\* "Never raises for run outcomes" (run_perjury): whatever its stages come to,
\* the result it builds passes its own validation.
NeverRaises == pc # "raised"

\* The terminal state and its reason are what the evidence of both passes and
\* of both worlds says, not merely where the run happened to stop.
JustifiedEnding ==
  pc = "returned" =>
    CASE stop.reason = "VERIFIED" ->
           /\ worlds = [original |-> "PASS", mutant |-> "TEST_FAIL"]
           /\ first[target] = "SURVIVED" /\ second[target] = "KILLED"
           /\ \A m \in Mutations : first[m] = "KILLED" => second[m] # "SURVIVED"
      [] stop.reason = "CANDIDATE_FAILED_ORIGINAL" -> worlds.original = "TEST_FAIL"
      [] stop.reason = "MUTANT_NOT_KILLED" ->
           worlds.original = "PASS" /\ worlds.mutant # "TEST_FAIL"
      [] stop.reason = "VERIFICATION_INCONCLUSIVE" ->
           worlds.original \notin {"PASS", "TEST_FAIL"}
      [] stop.reason = "RESCORE_INCONSISTENT" ->
           \/ second[target] # "KILLED"
           \/ \E m \in Mutations : first[m] = "KILLED" /\ second[m] = "SURVIVED"
      [] stop.reason = "NO_VALID_MUTATION_OUTCOMES" ->
           \A m \in Mutations : first[m] \notin {"KILLED", "SURVIVED"}
      [] stop.reason = "NO_ACTIONABLE_SURVIVOR" ->
           /\ \A m \in Mutations : first[m] # "SURVIVED"
           /\ \E m \in Mutations : first[m] = "KILLED"
      [] stop.reason = "ALL_POSSIBLY_EQUIVALENT" ->
           \E m \in Mutations : first[m] = "SURVIVED"
      [] OTHER -> TRUE

\* A verified run is an improvement to whoever compares the scores, whenever the
\* replay executed the same mutants: every kill is kept and the score rises.
VerifiedImproves ==
  (stop.state = "verified" /\ Excluded(second) = Excluded(first)) =>
    /\ Killed(first) \subseteq Killed(second)
    /\ Direction = "improved"

View == INSTANCE Projection WITH Blank <- Nobody, Terminal <- TerminalStages

\* Who folds the events, live or after a reconnect, sees the evidence the result
\* holds: a stage that stopped the run for what its evidence says has announced
\* that evidence, and no status on show was revised.  The result then corrects
\* nothing on show: it adds the total time, the stage records and, for a verified
\* run whose score rose, that the improvement is verified.  A mutation that
\* could not be applied was never announced and stays pending on show.
EventsTellTheEvidence ==
  pc \in {"finish", "returned"} =>
    LET snap == View!Project(events)
        told == {events[i].type : i \in 1..Len(events)} IN
    /\ snap.known = held \cap {"baseline", "context", "plan"}
    /\ "first_pass" \in held <=> "execution.completed" \in told
    /\ "first_pass" \in held =>
         \A m \in Mutations :
           snap.mutations[m] = first[m] \/ (snap.mutations[m] = "pending" /\ first[m] = "INVALID")
    /\ "selection" \in held =>
         \A m \in Analysed(target) :
           \E i \in 1..Len(events) : /\ events[i].type = "analysis.completed"
                                     /\ events[i].mutation = m
    /\ snap.candidate = IF "candidate" \in held THEN target ELSE Nobody
    /\ snap.verification = IF "verification" \in held THEN <<target, worlds>> ELSE <<>>
    /\ snap.comparison = IF "rescore" \in held THEN <<Comparison>> ELSE <<>>
    /\ pc = "returned" =>
         View!Overlay(snap, RunResult) =
           [snap EXCEPT !.elapsed = "total", !.stages = records,
                        !.improvement_verified =
                          stop.state = "verified" /\ Direction = "improved"]

\* A run cancelled before its re-score starts is never reported as verified.
CancelledIsNotVerified ==
  [](cancelled /\ pc \in {"verification", "rescoring"} => [](stage # "verified"))

\* The run's events and stage are those its consumers rely on.
Lifecycle == INSTANCE RunLifecycle WITH
  stage <- stage,
  log <- [i \in 1..Len(events) |->
            [kind |-> IF events[i].type \in {"run.completed", "run.failed"}
                      THEN events[i].type ELSE "progress",
             stage |-> events[i].stage]]

ImplementsLifecycle == Lifecycle!Spec

\* Every run comes to its result.
RunEnds == <>(pc = "returned")
=============================================================================
