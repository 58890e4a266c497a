------------------------------- MODULE Fanout -------------------------------
(***************************************************************************)
(* run_fanout (src/perjury/fanout.py): N jobs are submitted to a thread    *)
(* pool of Limit workers; the calling thread polls the futures, records a  *)
(* result per job, times out started jobs that passed their hard deadline  *)
(* and announces every recorded result through on_result.                  *)
(*                                                                         *)
(* A job is the number of its place in the request.  The pool's FIFO queue *)
(* is the set of jobs in phase "queued", taken in that order.  Time is the *)
(* set `overdue`: a job that has started may pass its deadline at any      *)
(* moment, and does so if nothing happens for long enough.                 *)
(***************************************************************************)
EXTENDS Integers, FiniteSets

CONSTANTS N,          \* number of jobs, len(jobs)
          Limit,      \* workers of the pool, min(max_concurrency, N)
          MayHang,    \* jobs whose executor call may never come back
          MayCancel,  \* whether the caller may set cancel_event
          MayRaise    \* whether on_result may raise

MaxFanoutConcurrency == 10

ASSUME SizeAssumption ==
  /\ N \in Nat \ {0}
  /\ Limit \in 1..N
  /\ Limit <= MaxFanoutConcurrency

ASSUME EnvironmentAssumption ==
  /\ MayHang \subseteq 1..N
  /\ MayCancel \in BOOLEAN
  /\ MayRaise \in BOOLEAN

Jobs == 1..N
None == [job |-> 0, why |-> "none"]

\* Why a terminal result reads as it does.  "reported" is the executor's own
\* result; the others are synthesised by run_fanout for the same job.
Why == {"reported", "wrong_id", "raised", "cancelled", "deadline"}
Result == [job : Jobs, why : Why]
Synthetic(j, why) == [job |-> j, why |-> why]

VARIABLES
  phase,      \* [Jobs -> phase of the job's future and of the worker on it]
  future,     \* [Jobs -> what work() returns for the job]
  begun,      \* jobs with an entry in started_at
  overdue,    \* jobs whose deadline has passed since they began
  active,     \* counter of jobs inside executor.execute
  peak,       \* its high-water mark
  cancel,     \* cancel_event.is_set()
  main,       \* where the calling thread is
  pending,    \* futures still waited for
  batch,      \* futures of the current wait() still to be recorded
  late,       \* jobs past the deadline at this scan, still to be recorded
  collected,  \* [Jobs -> recorded result]
  overrun     \* observation: jobs that reached the executor after cancel

workerVars == <<phase, future, begun, active, peak, overrun>>
mainVars == <<main, pending, batch, late, collected>>
vars == <<workerVars, mainVars, overdue, cancel>>

Phases == {"new", "queued", "checked", "running", "leaving", "done", "dropped"}
OnWorker == {"checked", "running", "leaving"}
Busy == {j \in Jobs : phase[j] \in OnWorker}
Checked == {j \in Jobs : phase[j] = "checked"}
InFlight == {j \in Jobs : phase[j] = "running"}

Init ==
  /\ phase = [j \in Jobs |-> "new"]
  /\ future = [j \in Jobs |-> None]
  /\ begun = {} /\ overdue = {} /\ overrun = {}
  /\ active = 0 /\ peak = 0
  /\ cancel \in {FALSE, MayCancel}
  /\ main = "submit"
  /\ pending = {} /\ batch = {} /\ late = {}
  /\ collected = [j \in Jobs |-> None]

-----------------------------------------------------------------------------
(* The pool's workers: work(job). *)

\* A free worker takes the oldest queued job; `stop` is what it sees of cancel.
Take(j, stop) ==
  /\ phase[j] = "queued"
  /\ \A i \in 1..(j - 1) : phase[i] # "queued"
  /\ Cardinality(Busy) < Limit
  /\ IF stop
     THEN /\ phase' = [phase EXCEPT ![j] = "leaving"]
          /\ future' = [future EXCEPT ![j] = Synthetic(j, "cancelled")]
     ELSE /\ phase' = [phase EXCEPT ![j] = "checked"]
          /\ UNCHANGED future
  /\ UNCHANGED <<begun, active, peak, overrun, mainVars, overdue, cancel>>

TakeJobUnchecked(j) == Take(j, FALSE)

TakeJob(j) == Take(j, cancel)

\* Under the lock: note the start and count the job as active; then call the
\* executor.  cancel may have been set since it was looked at.
StartExecution(j) ==
  /\ phase[j] = "checked"
  /\ phase' = [phase EXCEPT ![j] = "running"]
  /\ begun' = begun \cup {j}
  /\ active' = active + 1
  /\ peak' = IF active + 1 > peak THEN active + 1 ELSE peak
  /\ overrun' = IF cancel THEN overrun \cup {j} ELSE overrun
  /\ UNCHANGED <<future, mainVars, overdue, cancel>>

Answers(j, known) ==
  \E i \in Jobs :
    future' = [future EXCEPT ![j] =
                 IF i \in known THEN [job |-> i, why |-> "reported"]
                                ELSE Synthetic(j, "wrong_id")]

Raises(j) == future' = [future EXCEPT ![j] = Synthetic(j, "raised")]

LeaveExecutor(j) ==
  /\ phase[j] = "running"
  /\ phase' = [phase EXCEPT ![j] = "leaving"]
  /\ UNCHANGED <<begun, peak, overrun, mainVars, overdue, cancel>>

ExecutorReturnsAnyId(j) ==
  /\ LeaveExecutor(j)
  /\ Answers(j, Jobs) \/ Raises(j)
  /\ active' = active - 1

ExecutorRaisesUncounted(j) ==
  /\ LeaveExecutor(j)
  /\ \/ Answers(j, {j}) /\ active' = active - 1
     \/ Raises(j) /\ UNCHANGED active

\* The executor answers, with the result of some job, or raises; the finally
\* clause counts the job out.
ExecutorReturns(j) ==
  /\ LeaveExecutor(j)
  /\ Answers(j, {j}) \/ Raises(j)
  /\ active' = active - 1

\* The pool resolves the future and the worker is free again.
ResolveFuture(j) ==
  /\ phase[j] = "leaving"
  /\ phase' = [phase EXCEPT ![j] = "done"]
  /\ UNCHANGED <<future, begun, active, peak, overrun, mainVars, overdue, cancel>>

-----------------------------------------------------------------------------
(* The calling thread. *)

Submit(j) ==
  /\ main = "submit"
  /\ phase[j] = "new"
  /\ \A i \in 1..(j - 1) : phase[i] # "new"
  /\ phase' = [phase EXCEPT ![j] = "queued"]
  /\ main' = IF j = N THEN "wait" ELSE "submit"
  /\ pending' = IF j = N THEN Jobs ELSE {}
  /\ UNCHANGED <<future, begun, active, peak, overrun, batch, late, collected,
                 overdue, cancel>>

\* wait() returns with every completed future, or with none at the poll
\* interval.
WaitReturns ==
  /\ main = "wait"
  /\ pending # {}
  /\ batch' = {j \in pending : phase[j] = "done"}
  /\ pending' = pending \ batch'
  /\ main' = "record"
  /\ UNCHANGED <<workerVars, late, collected, overdue, cancel>>

\* record(job, r): the first result of a job stands.
Record(j, r) ==
  collected' = IF collected[j] = None THEN [collected EXCEPT ![j] = r] ELSE collected

\* on_result raised: cancel the rest, drain the pool's queue, re-raise.
Abort ==
  /\ MayRaise
  /\ main' = "raised"
  /\ cancel' = TRUE
  /\ phase' = [i \in Jobs |-> IF phase[i] = "queued" THEN "dropped" ELSE phase[i]]

GoOn(where) ==
  /\ main' = where
  /\ UNCHANGED <<phase, cancel>>

RecordDone(j) ==
  /\ main = "record"
  /\ j \in batch
  /\ Record(j, future[j])
  /\ batch' = batch \ {j}
  /\ GoOn("record") \/ Abort
  /\ UNCHANGED <<future, begun, active, peak, overrun, pending, late, overdue>>

\* `now` is read once; a job that starts or runs out of time later is left to
\* the next scan.
ScanDeadlines ==
  /\ main = "record"
  /\ batch = {}
  /\ late' = pending \cap overdue
  /\ main' = "scan"
  /\ UNCHANGED <<workerVars, pending, batch, collected, overdue, cancel>>

DropTimeout(j) ==
  /\ main = "scan"
  /\ j \in late
  /\ late' = late \ {j}
  /\ pending' = pending \ {j}
  /\ GoOn("scan")
  /\ UNCHANGED <<future, begun, active, peak, overrun, batch, collected, overdue>>

\* Wait for the executor even after the deadline.
RecordTimeoutAndWait(j) ==
  /\ main = "scan"
  /\ j \in late
  /\ Record(j, Synthetic(j, "deadline"))
  /\ late' = late \ {j}
  /\ GoOn("scan") \/ Abort
  /\ UNCHANGED <<future, begun, active, peak, overrun, pending, batch, overdue>>

RecordTimeout(j) ==
  /\ main = "scan"
  /\ j \in late
  /\ Record(j, Synthetic(j, "deadline"))
  /\ late' = late \ {j}
  /\ pending' = pending \ {j}
  /\ GoOn("scan") \/ Abort
  /\ UNCHANGED <<future, begun, active, peak, overrun, batch, overdue>>

StopWhenCancelled ==
  /\ main = "scan"
  /\ late = {}
  /\ IF pending # {} /\ ~cancel THEN GoOn("wait") ELSE GoOn("returned")
  /\ UNCHANGED <<future, begun, active, peak, overrun, pending, batch, late,
                 collected, overdue>>

\* Nothing (more) is late: poll again, or hand the batch over.  Leaving shuts
\* the pool down without waiting for the workers that still run.
EndScan ==
  /\ main = "scan"
  /\ late = {}
  /\ IF pending # {} THEN GoOn("wait") ELSE GoOn("returned")
  /\ UNCHANGED <<future, begun, active, peak, overrun, pending, batch, late,
                 collected, overdue>>

-----------------------------------------------------------------------------
(* The environment: the clock, and the owner of cancel_event. *)

PassDeadline(j) ==
  /\ j \in begun \ overdue
  /\ collected[j] = None
  /\ overdue' = overdue \cup {j}
  /\ UNCHANGED <<workerVars, mainVars, cancel>>

SetCancel ==
  /\ MayCancel
  /\ ~cancel
  /\ cancel' = TRUE
  /\ UNCHANGED <<workerVars, mainVars, overdue>>

Worker(j) == TakeJob(j) \/ StartExecution(j) \/ ResolveFuture(j)

Main ==
  \/ \E j \in Jobs : Submit(j) \/ RecordDone(j) \/ RecordTimeout(j)
  \/ WaitReturns
  \/ ScanDeadlines
  \/ EndScan

Next ==
  \/ Main
  \/ \E j \in Jobs : Worker(j) \/ ExecutorReturns(j) \/ PassDeadline(j)
  \/ SetCancel

Spec == Init /\ [][Next]_vars

\* Threads are scheduled, time passes, and an executor call ends unless its
\* job may hang.  Nobody has to cancel.
Fairness ==
  /\ WF_vars(Main)
  /\ \A j \in Jobs : WF_vars(Worker(j)) /\ WF_vars(PassDeadline(j))
  /\ \A j \in Jobs \ MayHang : WF_vars(ExecutorReturns(j))

FairSpec == Spec /\ Fairness

-----------------------------------------------------------------------------
(* Properties. *)

TypeOK ==
  /\ phase \in [Jobs -> Phases]
  /\ future \in [Jobs -> Result \cup {None}]
  /\ collected \in [Jobs -> Result \cup {None}]
  /\ begun \subseteq Jobs /\ overdue \subseteq begun /\ overrun \subseteq begun
  /\ active \in Int /\ peak \in Nat
  /\ cancel \in BOOLEAN
  /\ main \in {"submit", "wait", "record", "scan", "returned", "raised"}
  /\ pending \subseteq Jobs /\ batch \subseteq Jobs /\ late \subseteq overdue

\* A recorded result belongs to its job and tells what happened to it: a job
\* reported as cancelled never reached the executor, a job charged with a
\* deadline did and outlived it, and no other job's result stands in for it.
HonestResults ==
  \A j \in Jobs :
    LET r == collected[j] IN
    r # None =>
      /\ r.job = j
      /\ r.why = "cancelled" => j \notin begun /\ cancel
      /\ r.why = "deadline" => j \in overdue
      /\ r.why # "deadline" => phase[j] = "done"
      /\ r.why \in {"reported", "wrong_id", "raised"} => j \in begun

\* Cancellation, by the caller or because on_result raised, lets no more jobs
\* reach the executor than had already passed their check: one per worker.
CancelBoundsOverrun == Cardinality(overrun) <= Limit

\* The counter behind peak_concurrency is the number of executor calls in
\* flight whatever their outcome, so the reported peak respects the limit.
PeakIsHonest ==
  /\ active = Cardinality(InFlight)
  /\ active <= peak /\ peak <= Limit

\* What still runs when the batch is handed over, and the caller deletes the
\* workspaces, are jobs already given up as timed out; no job starts later.
OnlyTimedOutLeftBehind ==
  main = "returned" =>
    \A j \in Jobs : phase[j] # "done" =>
      phase[j] \in {"running", "leaving"} /\ collected[j].why = "deadline"

\* run_fanout does what its caller counts on (module Batch).
B == INSTANCE Batch WITH
       Jobs <- Jobs, Results <- Result, None <- None, settled <- collected,
       status <- IF main \in {"returned", "raised"} THEN main ELSE "running"

ImplementsBatch == B!Spec

\* The caller always gets its batch, or the callback's exception: also when
\* executor calls hang, as long as no queued job needs a hung worker.
Settles == <>(main \in {"returned", "raised"})

\* "Every job yields exactly one terminal result" (fanout.py, run_fanout).
EveryJobYieldsAResult == <>(\A j \in Jobs : collected[j] # None)
=============================================================================
