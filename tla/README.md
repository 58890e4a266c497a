# PERJURY: a TLA+ model of the run

PERJURY hardens a pytest suite: it runs the suite on an unchanged copy of a project
(the baseline), asks a model for mutations of the code, runs the suite against every
mutant, has a survivor analysed and a test written for it, verifies the test in two
worlds (it passes on the original and fails on the mutant) and replays the whole batch
with the new test. A browser page starts a run and follows it over an event stream.

The claims the program makes are claims about evidence: "verified" must mean that a
particular test was seen to pass here and fail there, on the bytes the baseline ran on,
whatever raced, timed out, was cancelled or crashed on the way. The modules in this
directory state those claims and check them. Paths below are relative to the repository.

## The system: inventory

| Component | Source | State it keeps | Operations | Hard part |
|---|---|---|---|---|
| Fan-out | `perjury/fanout.py` | futures, start times, active/peak counters, collected results | submit, work, record, deadline scan, abort, hand over | worker threads against the polling thread, cancellation, hung calls, a callback that raises |
| Mutation execution | `perjury/execution.py`, `mutation.py` | disposable copies, apply failures, results by ID | copy, plant, fan out, reconcile, remove | the live tree changes between copies; one step of several fails |
| Vocabulary | `perjury/contracts.py` | none | outcome, status, score | what is excluded from a score |
| Orchestrator | `perjury/orchestrator.py` | stage, events, stage records, evidence | nine stages, terminal event, result validation | many ways to stop; a result that contradicts its evidence raises |
| Survivor analysis | `perjury/analysis.py` | analyses, skipped IDs | select the target | order, possibly equivalent survivors |
| Two-world verification | `perjury/hardening.py`, `verification.py` | two copies, evidence | build worlds, fan out, judge | worlds that differ in more than the mutation |
| Re-score | `perjury/rescore.py` | comparison of two passes | replay, compare | flaky mutants between the passes |
| Candidate test | `perjury/candidate.py` | candidate plan | check, create, collect | a candidate that cannot be created |
| Run registry, HTTP API | `perjury/runs.py`, `api.py` | registry, active slot, run records, streams | start, publish, finish, save evidence, release, stream | run thread, request threads and event loop; reconnects |
| Demo page | `perjury/ui/*.js` | snapshot, button, open source, timers | click, receive, drop, recover, finish, reload | late answers after an await, lost fetches, dropped streams |
| Planning | `perjury/planning.py` | accepted and rejected proposals | propose, evaluate, replenish | duplicate proposals, budget |
| Evidence store | `perjury/evidence.py` | bundle files | save, load, redact | a crash while writing |
| Context packing | `perjury/context.py` | the bundle being packed | list, read, pack | the tree changes between the manifest and a read; what a budget leaves out |
| Test generation | `perjury/generation.py` | none | pack, ask, accept the answer | what the test is written for is not what it is verified on |
| Workspace, baseline | `perjury/workspace.py` | snapshot manifests | run pytest, baseline | the tree changes during the baseline |
| Sandbox executor | `perjury/modal_runner.py` | one sandbox | upload, install, test, terminate | cleanup on every path |
| Environment preflight | `perjury/preflight.py` | results of the checks so far, the canary, a mutated copy | twelve checks in order, blocked by unmet needs | a check takes steps, and the world changes between them |
| Model clients | `perjury/agent.py` | none | ask | an external call |
| Scripts, examples, rendering | `perjury/canonical.py`, `scripts/`, `examples/`, `ui/render.js` | none | | |

How they interact. `RunManager.start` gives a run a thread; the thread calls `run_perjury`,
whose events go to `RunRecord.publish` and whose two passes (`execute_mutation_plan`) and
verification go through `run_fanout` to an executor. Only the calling thread of a fan-out
records results and calls back, so events are emitted by the run's thread alone; the
record's lock is where that thread meets the event streams. The page sees a run only
through POST, snapshot and stream.

## Modules

* `Contracts` - outcomes, the statuses they are projected to, which statuses a score counts, and
  the verdict over two worlds. Operators only.
* `Batch` - the abstract contract of a fan-out: each job settles once, with a result of its
  own; a settled result is never revised; the batch is handed over complete; a failing
  callback ends it.
* `Fanout` - `run_fanout`. `phase` is where the job's future and the worker on it are;
  `begun` is `started_at`; `overdue` stands for the clock; `main`, `pending`, `batch`, `late`
  are the calling thread's position and locals; `collected` is what was recorded. One action
  per atomic step of a worker (take, start, return from the executor, resolve) and of the
  calling thread (submit, wait, record one result, scan, record one timeout, end of scan).
  `overrun` only observes. `Fanout` implements `Batch` (`ImplementsBatch`).
* `MutationExecution` - `execute_mutation_plan` with `apply_mutation`. `world[m]` is the
  disposable copy of mutation m: not there, as at the baseline, made from an edited tree, removed,
  or left because its removal failed (`rmtree` ignores errors, `mutation.py:50`). `runner` says whose
  fan-out the caller passed. For `run_fanout` it uses `Batch`: `Announce` is `Batch`'s own action, so
  what is assumed of the fan-out here is what `Fanout` is shown to do, and it returns what it has
  announced. An injected runner may raise, or return any sequence of results (`returned`), whatever it
  announced: IDs that were not sent, an ID twice, jobs without a result. `Reconcile` has both checks of
  `execution.py:223-230` and reads each result from the batch that was returned (`ById`).
* `RunLifecycle` - what consumers rely on: run.started first, stages forward only, one terminal
  event, last, with a terminal stage.
* `Orchestrator` - `run_perjury`, one action per visible step: an event, a fan-out result, the end
  of a call. Model answers and process outcomes are choices; a stage that calls code which can
  raise may fail with its own reason or with UNEXPECTED_ERROR. `Coherent` is the validation
  `RunResult` makes of itself. `Orchestrator` implements `RunLifecycle`.
* `RunManager` - the registry and run records behind the HTTP handlers. Each action is one
  critical section of the registry lock or of a record's lock, so every interleaving the threads
  can produce is explored. A stream's `got` is what its consumer has received over all of its
  connections.
* `RunPage` - the page. JavaScript runs a handler to its next await in one step; a fetch is three
  steps (sent, answered, continued), so that anything may happen between them. The server side
  is reduced to what `RunManager` promises of it: events 1..K, the last terminal and final, one
  active run. A handler that throws while it takes an event (`adapters.js:29` then reports the stream
  closed without closing it) is left out: no event this server publishes makes the handlers throw.
* `Projection` - the fold of events into a snapshot (`project_snapshot`, and `reduce` in the page)
  and the overlay of the final result (`_apply_result`) with all it writes: state, reason, error,
  result, total time, stage records, identities, whether the improvement is verified, and the comparison.
  Events of another run and events seen before are skipped. Operators only; `Orchestrator` instantiates
  it for `EventsTellTheEvidence`.
* `EvidenceStore` - the file of a bundle, its temporary file and the rename. `RunManager` extends
  it: saving takes as many steps as a killed process or a reader can tell apart.
* `Planning` - `plan_mutations`. A proposal is an id and an edit; all that matters of an edit is
  which program it makes, so two edits of one program are the duplicate that only the hash of
  the mutated file reveals. The program is the text of the mutated file without its path, since that
  is what is hashed (`planning.py:274`): the same mutant of two identical files is one program, and its
  second proposal a duplicate. `requests`, `noted` and `received` keep what was asked, what the next
  request would name and what was ever proposed.
* `Sandbox`, `LocalExecutor` - `ModalWorkspaceExecutor.execute` and `LocalPytestExecutor.execute` as
  steps of a call. A snapshot is the version of the source it was copied from, whether it is
  mutated and whether it holds the candidate.
* `ContextPacking` - `pack_context` as an operator on the files of a snapshot and a budget, and
  `IsFirstFit`, what a bundle is without saying how it is packed. Operators only.
* `IsolatedExecution` - what one run does outside the passes over the mutations: `run_baseline`, a
  packing for the evidence and one for each prompt (`reader` says whose, `listed` is the manifest it
  built, `shown` the versions it read), the answers of planner, analyst and generator,
  `plan_candidate`, `preflight_candidate` and `verify_candidate`, over these executors.
  `run_perjury` takes one executor for the baseline and one for everything else, so
  `executor` is a choice per call; `/api/runs` runs the baseline locally and the rest in sandboxes.
  The passes over the mutations, which lie between planning and analysis, are `MutationExecution`'s,
  and the evaluation of what the planner answers is `Planning`'s. Removing a directory may fail in
  silence, all or a part of it staying (`hardening.py:64-65,166`, `candidate.py:306`), in particular
  under a call that was given up and still writes; `removed` remembers what was tried.
* `Preflight` - `run_preflight`. `turn` is the check whose turn it is and `at` where it is; checks
  that only look at something are one step, the canary, both baselines and the applicator's
  self-check are as many as the tree or a failure can come between. Both baselines use the steps of
  `LocalExecutor` and `Sandbox`.
* `FanoutProofs`, `PlanningProofs`, `MutationExecutionProofs`, `OrchestratorProofs`,
  `RunManagerProofs`, `RunPageProofs`, `IsolatedExecutionProofs`, `PreflightProofs` - theorems about the
  module each is named after.

The definitions with names like `TakeJobUnchecked` or `OpenInPlace` are not part of a
specification: each is a plausible mistake in one action and stands before the action it
alters. Substituted for that action, it makes the property it was written for fail.

## What the runs check

| Run | Bounds | Question |
|---|---|---|
| `fanout_queued` | 3 jobs, 2 workers, job 1 may hang, cancellation, callback may raise | Is what is recorded what happened? Is overrun bounded by the pool? Is `Batch` implemented? Does the caller get its batch although a call hangs? |
| `fanout_starved` | 2 workers, jobs 1 and 2 may hang | Does every job yield a result? **No**, see findings |
| `mutation_execution` | 3 mutations, tree edited and restored at any time; `run_fanout`, or a runner that returns up to 4 results of any kind | Is no mutant built from drifted bytes, no copy forgotten, no result invented or picked from several? |
| `orchestrator` | 2 mutations, all five outcomes, cancellation | Is every ending justified by the evidence, coherent, announced, and reached? |
| `run_manager` | 2 runs, 2 progress events, retention 1, one stream with any number of reconnects, any number of kills | One active run, terminal means final, whole evidence, exact streams, the slot comes back |
| `run_slot` | 2 runs | Is a client that saw the end admitted? **No**, see findings |
| `run_page` | 4 events, 3 runs, 2 resubscriptions | One follower, no regression on screen, a quiet page shows the final state, every run followed to its end or given up aloud |
| `planning` | 2 batches of 3, ids M01..M03, six edits of four programs | Is the plan executable, is nothing usable lost, is the refill informed? |
| `isolated_execution` | 2 versions of the tree, both executors for the baseline and for the rest; snapshots of 1 to 4 files of 0 to 3 bytes under every budget up to 4 | Did the tests run on what their manifest names, is every prompt about the baseline, is a verified test verified on the source it was written for, are contexts packed by the rule, is nothing forgotten? |
| `preflight` | 2 versions of the tree, all 12 checks | Has a check that passed seen what it says? Does what is blocked lead back to a failure? |
| `run_page_stuck`, `run_page_early_click` | 2 events | Is a terminal state always reconciled? Does the page show the run its URL names? **No**, see findings |

Why the bounds are enough. Three jobs on two workers is the least with a queue behind a full
pool, so that cancellation, abort and deadline meet a queued, a checked, a running and a
finished job at once. Two mutations are the least with a target and a bystander that changes
sides between the passes; the third in `MutationExecution` adds a copy before and after the one
that fails, and `MaxReturned` of four, one more than the jobs, lets a runner return every job and one
of them again with another outcome. A retention of one makes every second run evict the first while a stream may still
hold it. Three proposals in a batch, with a minimum of two and a target of three, let a batch fall
short, refill it, repeat an edit in a batch and across batches, reuse an id and exceed the target;
the six edits are one for each answer of the evaluator, twins included. Two versions of the tree
are the least that can change and change back. Four files are the least with a target and, after
it, a context file that fits, one that does not and a smaller one that fits again. Two resubscriptions exercise the first, a middle and the exhausted attempt of the
bounded retry; the code's five repeat the middle. `MaxRuns`, `MaxProgress`, `K` bound otherwise
unbounded counters in the guards of `Start`, `PublishProgress`, `Click` and `Publish`.

Fairness. `Fanout`: threads are scheduled and time passes, and an executor call ends unless its
job is in `MayHang`; nobody has to cancel, and a callback need not raise. `Orchestrator`: the run's thread is scheduled and each
call it makes returns; executors and model clients set timeouts, and the exception is the one
`fanout_starved` shows. `RunManager`: the run's thread and the event loop are scheduled; nobody
has to start a run, reconnect or kill the process; `execute` ends, which `RunEnds` shows with
the exception just named. `RunPage`:
fetches are answered, well or badly, timers fire, an idle finished stream closes; nobody has to
click or reload. Safety runs use no fairness. Deadlock is not checked because every one of these
systems does stop: a batch is handed over, a run returns, a bound is reached. As `SlotComesBack`
assumes that `execute` ends, it says nothing of a run that hangs and keeps the slot (`runs.py:383`): the
one known way to hang is what `fanout_starved` shows, and nothing else in the code bounds it.

## Findings

1. A job that has not begun has no deadline (`perjury/fanout.py:189`): as many hung executor
   calls as workers leave queued jobs, and the caller, waiting for ever, against "Every job yields
   exactly one terminal result" (`perjury/fanout.py:102`). Run `fanout_starved`.
2. The slot is released after the terminal event is visible (`perjury/runs.py:390-393`), against
   "a new run is allowed once the first has finished" (`tests/test_api.py:239`). Run `run_slot`.
3. A run that is over before the page reads its first snapshot leaves the button at "Running…"
   (`perjury/ui/app.js:58` with 74-76), against "Terminal state is always reconciled with the
   authoritative snapshot" (`app.js:30`). Run `run_page_stuck`.
4. A click while a reloaded page waits for its old run is overwritten by the late answer
   (`perjury/ui/app.js:85`), against the refresh comment at `app.js:80`. Run
   `run_page_early_click`.

Limits of what the code promises, kept in the properties or noted here:

* `NoCopyIsForgotten` allows the one copy whose candidate could not be planted for a reason other
  than a rejection (`execution.py:206` raises a policy error before line 211 registers the copy). It
  and `NothingForgotten` speak of removals that are tried: whether a removal succeeds is not in the
  code's hands, and where it fails nothing reports it.
* `VerifiedImproves` speaks of passes that executed the same mutants: a verified run may keep or
  lower its score when a mutant times out in one pass only.
* `TestedWhatWasMeant` excepts a baseline run by the local executor: it tests the tree in place
  (`workspace.py:270`), and an edit made under pytest and undone before the second manifest
  (`workspace.py:324`) leaves no trace.
* `EventsTellTheEvidence` lets a mutation that could not be applied stay "pending" in the snapshot:
  it is INVALID in the report, but only the fan-out announces results and `_apply_result`
  (`runs.py:229`) does not overlay them. What the overlay adds, and no event tells, is the total time,
  the stage records and `improvement_verified`; until the result is there a snapshot has the flag false
  (`runs.py:138`). A verified run need not have improved: the flag also asks that the score rose
  (`rescore.py:116-121`), and the property says exactly when it is set.
* `EvidenceIsWhole` allows the temporary file of a killed process; nothing removes it later.
* A bundle names the commit of the moment it is saved (`evidence.py:261`, looked up by
  `api.py:38-46`), not of the baseline; what identifies the source is the manifest hash beside it.
* `ShownIsTheBaseline` is about versions, not about budgets: the analyst's context is packed with the
  default budget (`orchestrator.py:484` passes none), the run's own with `config.planning.context_budget`,
  so the two may leave out different files.
* The preflight's canary counts every sandbox of the app (`preflight.py:106`): one of a run under way
  fails it, so a pass is earned but a failure is not always the canary's. Removal of the mutated copy
  ignores errors; the check looks for the directory afterwards, and `PassesAreEarned` relies on it.
* In `Planning` a proposal refused for its id is not remembered: the same edit may come again and
  be accepted, and `NothingUsableIsLost` relies on that. A stale baseline ends planning with the
  rejections but without the count of what was accepted (`planning.py:264`).

## What is proved

`FanoutProofs` proves, with TLAPS and for every number of jobs and workers (the constants
assume only `N \in Nat \ {0}` and `Limit \in 1..N`, as `run_fanout` admits):

* `TypeCorrect` - `TypeOK`, including that only begun jobs can be overdue or late.
* `Honesty`, `CleanHandOver` - from the inductive `Bookkeeping`: `HonestResults` alone is not
  inductive, because what will be recorded is already in the future (`FuturesTell`: each future
  tells its job's story and agrees with its phase), and because which results are still missing
  is spread over `pending`, `batch` and `late` (`Owed`: a job without a result is in exactly
  the set that the calling thread will still look at).
* `Implementation` - every step of `Fanout` is a step or a stutter of `Batch`, from the same
  invariant: `Owed` is why a returned batch is complete and why no result is revised.
* `HonestPeak`, `BoundedOverrun` - from `Occupancy`, the count of jobs on workers: overrun
  together with the jobs past their check never exceeds the pool.

`PlanningProofs` proves, for any ids, edits, programs and counts with
`0 < Minimum <= Target <= MaxBatch`, the type invariant, `PlanIsExecutable`, `NothingUsableIsLost`
and `RefillIsInformed`. All four follow from the inductive `Ledger`, which adds to the invariants
what ties them together: how many requests the attempt implies and what each asked for
(`Attempts`), that accepted programs are as many as accepted edits (`Distinct`, so that a request's
count is what is missing), that a remembered edit is either in the plan or was refused for a
reason that stays (`Known`), and that `noted` is all that was received (`Recorded`). Without
`Known`, a repeated edit could be dropped as a duplicate of something that never made it into the
plan. The lemmas say what one proposal can do to the plan (`EvaluateEffect`), what accepting one
more program keeps (`AcceptEffect`) and what the history keeps (`ReceiveEffect`).

`MutationExecutionProofs`, for any number of mutations, proves `WorldsAreBaseline`,
`ExecutedInTheirWorld`, `NoCopyIsForgotten`, `ReportIsReconciled` and the type invariant, the batch an
injected runner returns being of any length. The inductive `Ledger` follows the mutations behind the loop's index: each is refused or has a copy
(`Decided`), the copies the loop made are registered or at hand for the current step
(`CopiesAtHand`), and results belong to their jobs, announced, returned and reported (`Results`). The properties alone are
not inductive: that a report has one trial per mutation needs `Decided` for every earlier step.

`RunManagerProofs`, for any number of runs, any length and any retention of at least one, proves
`OneActiveRun`, `TerminalMeansFinal` and `EvidenceIsWhole`. The inductive `Book` says of each run
that what its thread has done is what its record and files tell: `Stage` ties the thread's position
to the withheld event and the evidence, `Story` says that a record that is not done shows progress
only, and `OnDisk` that a bundle written under a still running thread is already the one that
its record will tell of. `Numbered` and `NewestIsRetained` are why retention never evicts the run
that holds the slot. Killed threads keep what they had, so no case is needed for a restart.
From `Book`, the invariant `Delivery` adds the streams and proves `StreamsAreExact` and `TypeOK` for any
number of them: a record's events are numbered 1..N and the withheld one is N+1 (`Counted`), and a
stream's events are the first of its run's, as many as its cursor says, and all of them once it is
completed (`Follows`). `Counted` is needed since a cursor is a number, not a position; the lemma
`TheRest` shows that what `events_after` keeps above n are the events after the n-th, and `Grows` that
no step revises what was received.

`OrchestratorProofs`, for any number of mutations (`BatchAssumption`), any set of world outcomes that
includes INFRA_ERROR (`SeenAssumption`), with and without cancellation (`CancelAssumption`), proves `NeverRaises`, `JustifiedEnding`,
`VerifiedImproves`, `CancelledIsNotVerified`, `TypeOK` and, step by step, the refinement
`ImplementsLifecycle`. The inductive `Story` says for each place of `run_perjury` which stage is shown and
which are closed (`Standing`, `Closed`), what evidence a run that goes on has gathered (`Gathered`), and
what a reason says of the evidence from the moment it is recorded (`Stopped`, `Justified`): the
properties speak of the returned result only and would not survive the steps before it.
`BetterPass` compares the scores of two passes over the same mutants by cardinalities. Cancellation
is an action property over two moments; `Doomed` is the invariant between them. `EventsTellTheEvidence`
follows from a second inductive invariant, `Chronicle`: what `Project` folds from the events so far is
at every step what the run holds (`Reflected`, `Accounted`) and what it has still to announce
(`Reported`), so that the terminal event leaves a snapshot in which the result corrects nothing. `Concluded` adds that a run
holding a re-score has stopped for what the re-score says, so that its flag is set only if the run is verified. The fold
is a recursive function; `OneMoreEvent` says that emitting an event is one `Show` on top of it, and
`ShowsTheEvent` which fields each type of event changes.

`IsolatedExecutionProofs`, for any set of versions of the tree, proves `TestedWhatWasMeant`,
`OneSnapshotVerified`, `NothingForgotten`, `ShownIsTheBaseline` and `TypeOK` from the inductive
`Isolation`. It follows each call through its executor (`InSandbox`, `InPlace`), says what a directory
holds at each place of the run (`Directories`), that one that is not in use is gone or
resisted its removal (`Disposal`), and which calls are over by then (`Progress`), and ties
the fan-out's record to the call's own answer (`Settled`), which is what keeps the outcome of a call
given up as late away from the verdict. One lemma per step of an executor, one per step of the run.
A second part proves `PackingIsFirstFit`: `PackContext` is `IsFirstFit` for any number of files of any
sizes and classes under any budget, where the run checks up to four small ones (`BundlesAreFirstFit` is
`FirstFitIsExact` itself). The two recursive functions are unfolded once (`Recursion`); along the files
the targets passed are all in or the packing is refused (`TargetsSoFar`), and no selection of the
context files passed that fits comes before what is in (`FilesSoFar`), since a file that was left out
would not have fitted with any selection that agrees with the bundle up to it (`SizeGrows`, `SizeAdds`).

`PreflightProofs`, for any set of versions, proves `PassesAreEarned` and `BlameIsRooted` from the
inductive `Honest`: checks are taken in order on the results of their needs (`InOrder`, `Blame`), a check
under way is the one whose turn it is and may run (`UnderWay`), and what it has seen so far is what its
pass will say (`AtThePlace`). `BlameIsRooted` follows by the order of the checks: each needs only
earlier ones (`NeedsComeFirst`), so the roots of a blocked one are found among failures.

`RunPageProofs`, for runs of any length, any number of runs and any retry budget, proves the type
invariant in any case, and `OneFollower`, `ShownProgressIsMonotone` and `QuietMeansFinal` under
the assumption `~EarlyClick`, without which the page may show another run than its URL names
(finding 4). The inductive `Orderly` has three parts: one fetch, or one timer, or one source (`Alone`);
what is under way is about the run the URL names and no older than what is shown (`Current`); and
the button is disabled until the end is shown or an alert is (`Held`). They need each other:
monotonicity holds since a single answer is under way, and it is single since the button is held.

Assumptions on constants are named, stated where the constants are declared, and evaluated by TLC in
the runs: `BoundsAssumption`, `BatchAssumption` and the like, and `CallsAssumption`, which says in
`IsolatedExecution` and in `Preflight` which calls there are. Type invariants are proved of all eight; those
of `Orchestrator`, `RunManager` and `IsolatedExecution` are also checked by a run.

Model-checked only are the liveness properties (`Settles`, `RunEnds`, `StreamsComplete`,
`SlotComesBack`, `FollowedToItsEnd`), which are outside what the proof system handles. The induction
theorems of the library take an operator as parameter, which the installed provers cannot instantiate.
Where a proof needs an induction over numbers or places all the same, it takes a least counterexample
(`WFMin`): for the first of several mutations and for the events in `OrchestratorProofs`, for the roots
of blame in `PreflightProofs`, for `NumberedAbove` in `RunManagerProofs`, for the files in
`IsolatedExecutionProofs`.

## Not modelled

Rendering, the mock adapter, scripts and the example project keep no state the system depends on.
Model clients and processes are choices of outcome. Path checks, anchors, prompts, diffs and
hashes are abstracted to the refusals and equalities they decide. Redaction of evidence is
string rewriting with no state; the standalone interface of the sandbox smoke script is left out
for the same reason. A process killed in the middle of a run leaves its directories to the system
and its sandboxes to the lifetime they were created with (`modal_runner.py:317`); no code looks
for them, so `IsolatedExecution` has no such step. Data races do not occur in the modelled parts: shared variables are guarded
by the locks or, as `started_at` read by the polling thread, by operations the interpreter makes
atomic.

## Plan

1. Done: fan-out, planning, mutation execution, orchestrator with the snapshot fold, registry with
   streams and evidence, page, executors with baseline, context, candidate and verification,
   preflight; each with proofs of its safety properties.
2. Done: every safety property of the passing runs is proved for all values of the constants.
3. Redaction, if a reference definition proves simpler than the code.
