---------------------------- MODULE FanoutProofs ----------------------------
(***************************************************************************)
(* Proofs about Fanout for every number of jobs and workers.               *)
(*                                                                         *)
(* TypeOK comes first.  Bookkeeping then ties the calling thread's sets    *)
(* and the recorded results to the phases of the futures; the results are  *)
(* honest, the hand-over is clean and the fan-out implements Batch because *)
(* of it.  Occupancy, a separate invariant, bounds what cancellation lets  *)
(* through.                                                                *)
(***************************************************************************)
EXTENDS Fanout, FiniteSetTheorems, TLAPS

\* What a future holds once its worker has left work(), and which jobs have a
\* start time.
FuturesTell ==
  \A j \in Jobs :
    /\ phase[j] \in {"new", "queued", "checked", "dropped"} => j \notin begun
    /\ phase[j] = "running" => j \in begun
    /\ phase[j] \in {"leaving", "done"} =>
         /\ future[j] # None /\ future[j].job = j
         /\ future[j].why # "deadline"
         /\ future[j].why = "cancelled" => j \notin begun /\ cancel
         /\ future[j].why # "cancelled" => j \in begun

\* Which futures the calling thread still owes a record, by where it is.
Owed ==
  /\ batch \cap pending = {}
  /\ \A j \in batch : phase[j] = "done"
  /\ main = "submit" => pending = {} /\ batch = {} /\ \A j \in Jobs : collected[j] = None
  /\ main \in {"wait", "returned"} => batch = {} /\ late = {}
  /\ main = "record" => late = {}
  /\ main = "scan" => batch = {}
  /\ main = "returned" => pending = {}
  /\ main \in {"wait", "record", "scan", "returned"} =>
       \A j \in Jobs : collected[j] = None <=> j \in pending \cup batch
  /\ main = "submit" => late = {}
  /\ late \subseteq pending \cap overdue

Bookkeeping == FuturesTell /\ HonestResults /\ Owed

LEMMA NoneIsNoResult == None \notin Result
  BY SizeAssumption DEF None, Result, Jobs

(* Every reachable state is well typed. *)
THEOREM TypeCorrect == Spec => []TypeOK
<1> USE SizeAssumption, EnvironmentAssumption DEF Jobs, Phases
<1>1. Init => TypeOK
  <2> SUFFICES ASSUME Init PROVE TypeOK
    OBVIOUS
  <2>1. cancel \in BOOLEAN
    BY DEF Init
  <2> QED
    BY <2>1 DEF Init, TypeOK
<1>2. TypeOK /\ [Next]_vars => TypeOK'
  <2> SUFFICES ASSUME TypeOK, [Next]_vars PROVE TypeOK'
    OBVIOUS
  <2> USE DEF TypeOK, mainVars, workerVars, Synthetic, Result, Why
  <2>1. ASSUME NEW j \in Jobs, TakeJob(j) PROVE TypeOK'
    BY <2>1 DEF TakeJob, Take
  <2>2. ASSUME NEW j \in Jobs, StartExecution(j) PROVE TypeOK'
    <3>1. peak' \in Nat
      BY <2>2 DEF StartExecution
    <3> QED
      BY <2>2, <3>1 DEF StartExecution
  <2>3. ASSUME NEW j \in Jobs, ExecutorReturns(j) PROVE TypeOK'
    BY <2>3 DEF ExecutorReturns, LeaveExecutor, Answers, Raises
  <2>4. ASSUME NEW j \in Jobs, ResolveFuture(j) PROVE TypeOK'
    BY <2>4 DEF ResolveFuture
  <2>5. ASSUME NEW j \in Jobs, Submit(j) PROVE TypeOK'
    BY <2>5 DEF Submit
  <2>6. CASE WaitReturns
    BY <2>6 DEF WaitReturns
  <2>7. ASSUME NEW j \in Jobs, RecordDone(j) PROVE TypeOK'
    BY <2>7 DEF RecordDone, Record, GoOn, Abort
  <2>8. CASE ScanDeadlines
    BY <2>8 DEF ScanDeadlines
  <2>9. ASSUME NEW j \in Jobs, RecordTimeout(j) PROVE TypeOK'
    BY <2>9 DEF RecordTimeout, Record, GoOn, Abort
  <2>10. CASE EndScan
    BY <2>10 DEF EndScan, GoOn
  <2>11. ASSUME NEW j \in Jobs, PassDeadline(j) PROVE TypeOK'
    BY <2>11 DEF PassDeadline
  <2>12. CASE SetCancel
    BY <2>12 DEF SetCancel
  <2>13. CASE UNCHANGED vars
    BY <2>13 DEF vars
  <2> QED
    BY <2>1, <2>2, <2>3, <2>4, <2>5, <2>6, <2>7, <2>8, <2>9, <2>10, <2>11,
       <2>12, <2>13 DEF Next, Main, Worker
<1> QED
  BY <1>1, <1>2, PTL DEF Spec

(* The bookkeeping of the two sides agrees in every reachable state. *)
THEOREM BookkeepingHolds == Spec => []Bookkeeping
<1> USE SizeAssumption, EnvironmentAssumption, NoneIsNoResult DEF Jobs
<1>1. Init => Bookkeeping
  <2> SUFFICES ASSUME Init PROVE Bookkeeping
    OBVIOUS
  <2> QED
    BY DEF Init, Bookkeeping, FuturesTell, HonestResults, Owed
<1>2. TypeOK /\ Bookkeeping /\ [Next]_vars => Bookkeeping'
  <2> SUFFICES ASSUME TypeOK, Bookkeeping, [Next]_vars PROVE Bookkeeping'
    OBVIOUS
  <2> USE DEF TypeOK, Bookkeeping, mainVars, workerVars
  <2>1. ASSUME NEW j \in Jobs, TakeJob(j) PROVE Bookkeeping'
    <3> USE <2>1 DEF TakeJob, Take, Synthetic
    <3>1. FuturesTell'
      BY DEF FuturesTell, None
    <3>2. HonestResults'
      BY DEF HonestResults
    <3>3. Owed'
      BY DEF Owed
    <3> QED
      BY <3>1, <3>2, <3>3
  <2>2. ASSUME NEW j \in Jobs, StartExecution(j) PROVE Bookkeeping'
    <3> USE <2>2 DEF StartExecution
    <3>1. FuturesTell'
      BY DEF FuturesTell
    <3>2. HonestResults'
      BY DEF HonestResults
    <3>3. Owed'
      BY DEF Owed
    <3> QED
      BY <3>1, <3>2, <3>3
  <2>3. ASSUME NEW j \in Jobs, ExecutorReturns(j) PROVE Bookkeeping'
    <3> USE <2>3 DEF ExecutorReturns, LeaveExecutor, Answers, Raises, Synthetic
    <3>1. FuturesTell'
      BY DEF FuturesTell, None
    <3>2. HonestResults'
      BY DEF HonestResults
    <3>3. Owed'
      BY DEF Owed
    <3> QED
      BY <3>1, <3>2, <3>3
  <2>4. ASSUME NEW j \in Jobs, ResolveFuture(j) PROVE Bookkeeping'
    <3> USE <2>4 DEF ResolveFuture
    <3>1. FuturesTell'
      BY DEF FuturesTell
    <3>2. HonestResults'
      BY DEF HonestResults
    <3>3. Owed'
      BY DEF Owed
    <3> QED
      BY <3>1, <3>2, <3>3
  <2>5. ASSUME NEW j \in Jobs, Submit(j) PROVE Bookkeeping'
    <3> USE <2>5 DEF Submit
    <3>1. FuturesTell'
      BY DEF FuturesTell
    <3>2. HonestResults'
      BY DEF HonestResults
    <3>3. Owed'
      BY DEF Owed
    <3> QED
      BY <3>1, <3>2, <3>3
  <2>6. CASE WaitReturns
    <3> USE <2>6 DEF WaitReturns
    <3>1. FuturesTell'
      BY DEF FuturesTell
    <3>2. HonestResults'
      BY DEF HonestResults
    <3>3. Owed'
      BY DEF Owed
    <3> QED
      BY <3>1, <3>2, <3>3
  <2>7. ASSUME NEW j \in Jobs, RecordDone(j) PROVE Bookkeeping'
    <3> USE <2>7 DEF RecordDone, Record, GoOn, Abort
    <3>1. FuturesTell'
      BY DEF FuturesTell
    <3>2. HonestResults'
      BY DEF FuturesTell, HonestResults, Owed
    <3>3. Owed'
      BY DEF FuturesTell, Owed
    <3> QED
      BY <3>1, <3>2, <3>3
  <2>8. CASE ScanDeadlines
    <3> USE <2>8 DEF ScanDeadlines
    <3>1. FuturesTell'
      BY DEF FuturesTell
    <3>2. HonestResults'
      BY DEF HonestResults
    <3>3. Owed'
      BY DEF Owed
    <3> QED
      BY <3>1, <3>2, <3>3
  <2>9. ASSUME NEW j \in Jobs, RecordTimeout(j) PROVE Bookkeeping'
    <3> USE <2>9 DEF RecordTimeout, Record, GoOn, Abort, Synthetic, Result, Why
    <3>1. FuturesTell'
      BY DEF FuturesTell
    <3>2. HonestResults'
      BY DEF HonestResults, Owed, None
    <3>3. Owed'
      BY DEF Owed, None
    <3> QED
      BY <3>1, <3>2, <3>3
  <2>10. CASE EndScan
    <3> USE <2>10 DEF EndScan, GoOn
    <3>1. FuturesTell'
      BY DEF FuturesTell
    <3>2. HonestResults'
      BY DEF HonestResults
    <3>3. Owed'
      BY DEF Owed
    <3> QED
      BY <3>1, <3>2, <3>3
  <2>11. ASSUME NEW j \in Jobs, PassDeadline(j) PROVE Bookkeeping'
    <3> USE <2>11 DEF PassDeadline
    <3>1. FuturesTell'
      BY DEF FuturesTell
    <3>2. HonestResults'
      BY DEF HonestResults
    <3>3. Owed'
      BY DEF Owed
    <3> QED
      BY <3>1, <3>2, <3>3
  <2>12. CASE SetCancel
    <3> USE <2>12 DEF SetCancel
    <3>1. FuturesTell'
      BY DEF FuturesTell
    <3>2. HonestResults'
      BY DEF HonestResults
    <3>3. Owed'
      BY DEF Owed
    <3> QED
      BY <3>1, <3>2, <3>3
  <2>13. CASE UNCHANGED vars
    BY <2>13 DEF vars, FuturesTell, HonestResults, Owed
  <2> QED
    BY <2>1, <2>2, <2>3, <2>4, <2>5, <2>6, <2>7, <2>8, <2>9, <2>10, <2>11, <2>12, <2>13 DEF Next, Main, Worker
<1> QED
  BY <1>1, <1>2, TypeCorrect, PTL DEF Spec

(* What a job is reported as is what happened to it. *)
THEOREM Honesty == Spec => []HonestResults
<1>1. Bookkeeping => HonestResults
  BY DEF Bookkeeping
<1> QED
  BY <1>1, BookkeepingHolds, PTL

(* When the batch is handed over, only jobs reported as timed out still run. *)
THEOREM CleanHandOver == Spec => []OnlyTimedOutLeftBehind
<1>1. TypeOK /\ Bookkeeping => OnlyTimedOutLeftBehind
  <2> SUFFICES ASSUME TypeOK, Bookkeeping, main = "returned",
                      NEW j \in Jobs, phase[j] # "done"
               PROVE  phase[j] \in {"running", "leaving"} /\ collected[j].why = "deadline"
    BY DEF OnlyTimedOutLeftBehind
  <2>1. collected[j] # None
    BY DEF Bookkeeping, Owed
  <2>2. collected[j].why = "deadline" /\ j \in overdue
    BY <2>1 DEF Bookkeeping, HonestResults
  <2>3. j \in begun
    BY <2>2 DEF TypeOK
  <2> QED
    BY <2>2, <2>3 DEF Bookkeeping, FuturesTell, TypeOK, Phases
<1> QED
  BY <1>1, TypeCorrect, BookkeepingHolds, PTL

(* run_fanout implements the contract of module Batch. *)
THEOREM Implementation == Spec => ImplementsBatch
<1> USE NoneIsNoResult
<1> DEFINE status == IF main \in {"returned", "raised"} THEN main ELSE "running"
<1>1. Init => B!Init
  BY DEF Init, B!Init
<1>2. TypeOK /\ Bookkeeping /\ [Next]_vars => [B!Next]_<<collected, status>>
  <2> SUFFICES ASSUME TypeOK, Bookkeeping, [Next]_vars
               PROVE  [B!Next]_<<collected, status>>
    OBVIOUS
  <2> USE DEF mainVars, workerVars
  <2>1. ASSUME NEW j \in Jobs,
               Take(j, cancel) \/ StartExecution(j) \/ ResolveFuture(j)
                 \/ Submit(j) \/ ExecutorReturns(j) \/ PassDeadline(j)
        PROVE  UNCHANGED <<collected, status>>
    BY <2>1 DEF Take, StartExecution, ResolveFuture, Submit, ExecutorReturns,
                LeaveExecutor, PassDeadline
  <2>2. CASE WaitReturns \/ ScanDeadlines \/ SetCancel \/ UNCHANGED vars
    BY <2>2 DEF WaitReturns, ScanDeadlines, SetCancel, vars
  <2>3. ASSUME NEW j \in Jobs, RecordDone(j) PROVE B!Next
    <3>1. collected[j] = None /\ future[j] \in Result /\ future[j].job = j
      BY <2>3 DEF RecordDone, Bookkeeping, FuturesTell, Owed, TypeOK
    <3>2. B!Settle(j)
      BY <2>3, <3>1 DEF RecordDone, Record, B!Settle
    <3>3. CASE GoOn("record")
      BY <2>3, <3>2, <3>3 DEF GoOn, RecordDone, B!Next, B!SettleAndGoOn
    <3>4. CASE Abort
      BY <2>3, <3>2, <3>4 DEF Abort, RecordDone, B!Next, B!SettleAndRaise
    <3> QED
      BY <2>3, <3>3, <3>4 DEF RecordDone
  <2>4. ASSUME NEW j \in Jobs, RecordTimeout(j) PROVE B!Next
    <3> DEFINE r == Synthetic(j, "deadline")
    <3>1. collected[j] = None /\ r \in Result /\ r.job = j
      BY <2>4 DEF RecordTimeout, Bookkeeping, Owed, Synthetic, Result, Why
    <3>2. B!Settle(j)
      BY <2>4, <3>1 DEF RecordTimeout, Record, B!Settle
    <3>3. CASE GoOn("scan")
      BY <2>4, <3>2, <3>3 DEF GoOn, RecordTimeout, B!Next, B!SettleAndGoOn
    <3>4. CASE Abort
      BY <2>4, <3>2, <3>4 DEF Abort, RecordTimeout, B!Next, B!SettleAndRaise
    <3> QED
      BY <2>4, <3>3, <3>4 DEF RecordTimeout
  <2>5. CASE EndScan
    <3>1. CASE pending # {}
      BY <2>5, <3>1 DEF EndScan, GoOn
    <3>2. CASE pending = {}
      BY <2>5, <3>2 DEF EndScan, GoOn, Bookkeeping, Owed, B!Next, B!Return
    <3> QED
      BY <3>1, <3>2
  <2> QED
    BY <2>1, <2>2, <2>3, <2>4, <2>5 DEF Next, Main, Worker, TakeJob
<1> QED
  BY <1>1, <1>2, TypeCorrect, BookkeepingHolds, PTL DEF Spec, ImplementsBatch, B!Spec, B!batchVars

-----------------------------------------------------------------------------
(* How many jobs are on a worker, in the executor, or got there late. *)
Occupancy ==
  /\ Cardinality(Busy) <= Limit
  /\ PeakIsHonest
  /\ Cardinality(overrun \cup Checked) <= Limit
  /\ ~cancel => overrun = {}

LEMMA SetsOfJobs ==
  ASSUME NEW S \in SUBSET Jobs
  PROVE  /\ IsFiniteSet(S) /\ Cardinality(S) \in Nat
         /\ \A T \in SUBSET S : Cardinality(T) <= Cardinality(S)
<1>1. IsFiniteSet(Jobs)
  BY FS_Interval, SizeAssumption DEF Jobs
<1>2. IsFiniteSet(S)
  BY <1>1, FS_Subset
<1> QED
  BY <1>2, FS_Subset, FS_CardinalityType

LEMMA OccupancyKept ==
  ASSUME TypeOK, Occupancy,
         Busy' \subseteq Busy, InFlight' = InFlight, Checked' = Checked,
         UNCHANGED <<active, peak, overrun>>, cancel \in BOOLEAN, cancel => cancel'
  PROVE  Occupancy'
<1>1. Cardinality(Busy') <= Limit
  <2>1. Busy \in SUBSET Jobs /\ Limit \in Nat
    BY SizeAssumption DEF Busy
  <2>2. Cardinality(Busy') <= Cardinality(Busy) /\ Cardinality(Busy) \in Nat
        /\ Cardinality(Busy') \in Nat
    BY <2>1, SetsOfJobs
  <2> QED
    BY <2>1, <2>2 DEF Occupancy
<1>2. PeakIsHonest'
  BY DEF Occupancy, PeakIsHonest
<1> QED
  BY <1>1, <1>2 DEF Occupancy

(* The pool never holds more than Limit jobs, and cancellation lets no more   *)
(* than that through.                                                         *)
THEOREM OccupancyHolds == Spec => []Occupancy
<1> USE SizeAssumption, EnvironmentAssumption
<1>1. Init => Occupancy
  <2> SUFFICES ASSUME Init PROVE Occupancy
    OBVIOUS
  <2>1. Busy = {} /\ InFlight = {} /\ Checked = {} /\ overrun = {}
    BY DEF Init, Busy, InFlight, Checked, OnWorker
  <2>2. Cardinality({}) = 0 /\ overrun \cup Checked = {}
    BY <2>1, FS_EmptySet
  <2> QED
    BY <2>1, <2>2 DEF Init, Occupancy, PeakIsHonest
<1>2. TypeOK /\ Occupancy /\ [Next]_vars => Occupancy'
  <2> SUFFICES ASSUME TypeOK, Occupancy, [Next]_vars PROVE Occupancy'
    OBVIOUS
  <2> USE DEF mainVars, workerVars
  <2>0. /\ phase \in [Jobs -> Phases] /\ cancel \in BOOLEAN
        /\ Busy \in SUBSET Jobs /\ InFlight \in SUBSET Busy /\ Checked \in SUBSET Busy
        /\ overrun \in SUBSET Jobs
        /\ Limit \in Nat /\ active \in Int /\ peak \in Nat
    BY DEF TypeOK, Busy, InFlight, Checked, OnWorker
  <2>1. ASSUME NEW j \in Jobs, TakeJob(j) PROVE Occupancy'
    <3> USE <2>1 DEF TakeJob, Take
    <3>1. Busy' = Busy \cup {j} /\ j \notin Busy /\ InFlight' = InFlight
      BY <2>0 DEF Busy, InFlight, OnWorker
    <3>2. Cardinality(Busy') <= Limit
      BY <2>0, <3>1, SetsOfJobs, FS_AddElement
    <3>3. PeakIsHonest'
      BY <3>1 DEF Occupancy, PeakIsHonest
    <3>4. CASE cancel
      <4>1. Checked' = Checked
        BY <2>0, <3>4 DEF Checked
      <4> QED
        BY <3>2, <3>3, <3>4, <4>1 DEF Occupancy
    <3>5. CASE ~cancel
      <4>1. overrun' = {} /\ (overrun \cup Checked)' \in SUBSET Busy'
        BY <2>0, <3>1, <3>5 DEF Occupancy, Checked, Busy, OnWorker
      <4>2. Busy' \in SUBSET Jobs
        BY <2>0, <3>1
      <4>3. /\ Cardinality((overrun \cup Checked)') <= Cardinality(Busy')
            /\ Cardinality(Busy') \in Nat
            /\ Cardinality((overrun \cup Checked)') \in Nat
        BY <4>1, <4>2, SetsOfJobs
      <4>4. Cardinality((overrun \cup Checked)') <= Limit
        BY <2>0, <3>2, <4>3
      <4> QED
        BY <3>2, <3>3, <4>1, <4>4 DEF Occupancy
    <3> QED
      BY <3>4, <3>5
  <2>2. ASSUME NEW j \in Jobs, StartExecution(j) PROVE Occupancy'
    <3> USE <2>2 DEF StartExecution
    <3>1. /\ Busy' = Busy /\ InFlight' = InFlight \cup {j} /\ j \notin InFlight
          /\ j \in Checked /\ Checked' \subseteq Checked
      BY <2>0 DEF Busy, InFlight, Checked, OnWorker
    <3>2. /\ active' = Cardinality(InFlight') /\ active' \in Nat
          /\ active' <= Limit
      <4>1. InFlight' \in SUBSET Busy
        BY <2>0, <3>1 DEF Checked, InFlight, Busy, OnWorker
      <4>2. Cardinality(InFlight') <= Cardinality(Busy) /\ Cardinality(Busy) \in Nat
        BY <2>0, <4>1, SetsOfJobs
      <4>3. InFlight \in SUBSET Jobs
        BY <2>0
      <4>4. IsFiniteSet(InFlight) /\ Cardinality(InFlight) \in Nat
        BY <4>3, SetsOfJobs
      <4>5. Cardinality(InFlight') = Cardinality(InFlight) + 1
        BY <3>1, <4>4, FS_AddElement
      <4> QED
        BY <2>0, <4>2, <4>4, <4>5 DEF Occupancy, PeakIsHonest
    <3>3. PeakIsHonest'
      BY <2>0, <3>2 DEF Occupancy, PeakIsHonest
    <3>4. Cardinality((overrun \cup Checked)') <= Limit
      <4>1. (overrun \cup Checked)' \in SUBSET (overrun \cup Checked)
        BY <3>1
      <4>2. overrun \cup Checked \in SUBSET Jobs
        BY <2>0
      <4>3. (overrun \cup Checked)' \in SUBSET Jobs
        BY <4>1, <4>2
      <4>4. /\ Cardinality((overrun \cup Checked)') <= Cardinality(overrun \cup Checked)
            /\ Cardinality(overrun \cup Checked) \in Nat
            /\ Cardinality((overrun \cup Checked)') \in Nat
        BY <4>1, <4>2, <4>3, SetsOfJobs
      <4> QED
        BY <2>0, <4>4 DEF Occupancy
    <3> QED
      BY <3>1, <3>3, <3>4 DEF Occupancy
  <2>3. ASSUME NEW j \in Jobs, ExecutorReturns(j) PROVE Occupancy'
    <3> USE <2>3 DEF ExecutorReturns, LeaveExecutor
    <3>1. /\ Busy' = Busy /\ Checked' = Checked
          /\ InFlight' = InFlight \ {j} /\ j \in InFlight
      BY <2>0 DEF Busy, InFlight, Checked, OnWorker
    <3>2. active' = Cardinality(InFlight') /\ active' <= active
      <4>1. InFlight \in SUBSET Jobs
        BY <2>0
      <4>2. IsFiniteSet(InFlight) /\ Cardinality(InFlight) \in Nat
        BY <4>1, SetsOfJobs
      <4>3. Cardinality(InFlight') = Cardinality(InFlight) - 1
        BY <3>1, <4>2, FS_RemoveElement
      <4> QED
        BY <2>0, <4>2, <4>3 DEF Occupancy, PeakIsHonest
    <3>3. PeakIsHonest'
      BY <2>0, <3>2 DEF Occupancy, PeakIsHonest
    <3> QED
      BY <3>1, <3>3 DEF Occupancy
  <2>4. ASSUME NEW j \in Jobs, ResolveFuture(j) \/ Submit(j) PROVE Occupancy'
    <3>1. /\ Busy' \subseteq Busy /\ InFlight' = InFlight /\ Checked' = Checked
          /\ UNCHANGED <<active, peak, overrun, cancel>>
      BY <2>0, <2>4 DEF ResolveFuture, Submit, Busy, InFlight, Checked, OnWorker
    <3> QED
      BY <2>0, <3>1, OccupancyKept
  <2>5. ASSUME NEW j \in Jobs, RecordDone(j) \/ RecordTimeout(j) PROVE Occupancy'
    <3>1. /\ Busy' = Busy /\ InFlight' = InFlight /\ Checked' = Checked
          /\ UNCHANGED <<active, peak, overrun>> /\ (cancel => cancel')
      BY <2>0, <2>5 DEF RecordDone, RecordTimeout, GoOn, Abort, Busy, InFlight,
                        Checked, OnWorker
    <3> QED
      BY <2>0, <3>1, OccupancyKept
  <2>6. CASE WaitReturns \/ ScanDeadlines \/ EndScan \/ SetCancel \/ UNCHANGED vars
    <3>1. UNCHANGED <<phase, active, peak, overrun>> /\ (cancel => cancel')
      BY <2>6 DEF WaitReturns, ScanDeadlines, EndScan, GoOn, SetCancel, vars
    <3>2. Busy' = Busy /\ InFlight' = InFlight /\ Checked' = Checked
      BY <3>1 DEF Busy, InFlight, Checked
    <3> QED
      BY <2>0, <3>1, <3>2, OccupancyKept
  <2>7. ASSUME NEW j \in Jobs, PassDeadline(j) PROVE Occupancy'
    <3>1. UNCHANGED <<phase, active, peak, overrun, cancel>>
      BY <2>7 DEF PassDeadline
    <3>2. Busy' = Busy /\ InFlight' = InFlight /\ Checked' = Checked
      BY <3>1 DEF Busy, InFlight, Checked
    <3> QED
      BY <2>0, <3>1, <3>2, OccupancyKept
  <2> QED
    BY <2>1, <2>2, <2>3, <2>4, <2>5, <2>6, <2>7 DEF Next, Main, Worker
<1> QED
  BY <1>1, <1>2, TypeCorrect, PTL DEF Spec

(* Once cancelled, at most one more job per worker reaches the executor. *)
THEOREM BoundedOverrun == Spec => []CancelBoundsOverrun
<1>1. TypeOK /\ Occupancy => CancelBoundsOverrun
  <2> SUFFICES ASSUME TypeOK, Occupancy PROVE CancelBoundsOverrun
    OBVIOUS
  <2>1. overrun \cup Checked \in SUBSET Jobs /\ overrun \in SUBSET (overrun \cup Checked)
    BY DEF TypeOK, Checked
  <2>2. overrun \in SUBSET Jobs
    BY DEF TypeOK
  <2>3. /\ Cardinality(overrun) <= Cardinality(overrun \cup Checked)
        /\ Cardinality(overrun) \in Nat /\ Cardinality(overrun \cup Checked) \in Nat
    BY <2>1, <2>2, SetsOfJobs
  <2> QED
    BY <2>3, SizeAssumption DEF Occupancy, CancelBoundsOverrun
<1> QED
  BY <1>1, TypeCorrect, OccupancyHolds, PTL

(* The reported peak concurrency is truthful and within the limit. *)
THEOREM HonestPeak == Spec => []PeakIsHonest
<1>1. Occupancy => PeakIsHonest
  BY DEF Occupancy
<1> QED
  BY <1>1, OccupancyHolds, PTL
=============================================================================
