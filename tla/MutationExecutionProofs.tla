---------------------- MODULE MutationExecutionProofs ----------------------
(***************************************************************************)
(* Proofs about MutationExecution for any number of mutations and any      *)
(* fan-out.  The invariant Ledger follows the mutations behind k: each has *)
(* a registered copy or is refused, and a copy that is not registered is   *)
(* the one being planted.                                                  *)
(***************************************************************************)
EXTENDS MutationExecution, SequenceTheorems, TLAPS

\* Mutations before k are decided, and nothing else is.
Decided ==
  /\ workspaces \cup failures = 1..(k - 1)
  /\ workspaces \cap failures = {}
  /\ pc \in {"check", "copy", "plant"} => k \in 1..N
  /\ pc \in {"fan_out", "reconcile", "report"} => k = N + 1
  /\ pc = "plant" => candidate = "given"

\* Until the call ends, the copies are the registered ones and the one in hand.
CopiesAtHand ==
  pc \notin Ended =>
    /\ \A m \in workspaces : world[m] = "base"
    /\ pc = "plant" => world[k] = "base"
    /\ \A m \in Mutations : world[m] = "base" => m \in workspaces \/ (pc = "plant" /\ m = k)

\* run_fanout returns what it announced.
ReturnsAnnounced ==
  \A i \in DOMAIN returned : returned[i] = announced[returned[i].job]

\* Results belong to their job, and a job has a copy.
Results ==
  /\ \A m \in Mutations : announced[m] # None => m \in workspaces /\ announced[m].job = m
  /\ pc \in {"reconcile", "report"} /\ runner = "run_fanout" => ReturnsAnnounced
  /\ pc = "report" => Distinct(returned) /\ IdsOf(returned) = workspaces /\ trials = Report

Ledger == TypeOK /\ Decided /\ WorldsAreBaseline /\ CopiesAtHand /\ NoCopyIsForgotten /\ Results

\* Removing copies changes no other copy, and none of those removed counts as
\* a copy any more, removed or not.
LEMMA RemoveEffect ==
  ASSUME world \in [Mutations -> Worlds], NEW copies \in SUBSET Mutations, Remove(copies)
  PROVE  /\ world' \in [Mutations -> Worlds]
         /\ \A m \in copies : world'[m] \in {"gone", "left"}
         /\ \A m \in Mutations \ copies : world'[m] = world[m]
  BY DEF Remove, Worlds

\* Leaving tries to remove the registered copies and changes no other but those
\* made by whoever raised.
LEMMA LeaveEffect ==
  ASSUME Ledger, NEW how \in Ended, NEW others \in SUBSET Mutations, Leave(how, others)
  PROVE  /\ world' \in [Mutations -> Worlds] /\ pc' = how
         /\ WorldsAreBaseline'
         /\ \A m \in Mutations :
              world'[m] = "base" => world[m] = "base" /\ m \notin workspaces \cup others
<1>1. /\ world \in [Mutations -> Worlds] /\ workspaces \cup others \in SUBSET Mutations
      /\ pc' = how /\ Remove(workspaces \cup others)
  BY DEF Ledger, TypeOK, Leave
<1>2. /\ world' \in [Mutations -> Worlds]
      /\ \A m \in workspaces \cup others : world'[m] \in {"gone", "left"}
      /\ \A m \in Mutations \ (workspaces \cup others) : world'[m] = world[m]
  BY <1>1, RemoveEffect
<1> QED
  BY <1>1, <1>2 DEF Ledger, WorldsAreBaseline

\* Deciding about k.
LEMMA DecisionEffect ==
  ASSUME Ledger, pc \in {"check", "copy", "plant"}, Register \/ Refuse
  PROVE  /\ k' = k + 1 /\ k' \in 1..(N + 1) /\ candidate' = candidate /\ runner' = runner
         /\ pc' \in {"check", "fan_out"}
         /\ workspaces' \subseteq Mutations /\ failures' \subseteq Mutations
         /\ workspaces \subseteq workspaces'
         /\ k \notin workspaces /\ k \notin failures
         /\ Decided'
<1>1. k \in 1..N /\ N \in Nat
  BY PlanAssumption DEF Ledger, Decided
<1>2. k \notin workspaces /\ k \notin failures
  BY <1>1 DEF Ledger, Decided
<1>3. workspaces' \cup failures' = (1..(k - 1)) \cup {k}
  BY DEF Ledger, Decided, Register, Refuse
<1>4. (1..(k - 1)) \cup {k} = 1..k
  BY <1>1
<1>5. k' = k + 1 /\ k' - 1 = k /\ candidate' = candidate /\ runner' = runner /\ pc' = IF k = N THEN "fan_out" ELSE "check"
  BY <1>1 DEF Register, Refuse, Advance
<1>6. workspaces' \cap failures' = {}
  BY <1>2 DEF Ledger, Decided, Register, Refuse
<1>7. Decided'
  BY <1>1, <1>3, <1>4, <1>5, <1>6 DEF Decided
<1>8. workspaces' \subseteq Mutations /\ failures' \subseteq Mutations /\ workspaces \subseteq workspaces'
  BY <1>1 DEF Ledger, TypeOK, Register, Refuse, Mutations
<1> QED
  BY <1>1, <1>2, <1>5, <1>7, <1>8

LEMMA InitLedger == Init => Ledger
<1> SUFFICES ASSUME Init PROVE Ledger
  OBVIOUS
<1>1. N \in Nat \ {0}
  BY PlanAssumption
<1>2. TypeOK
  BY <1>1 DEF Init, TypeOK, Worlds, Mutations, Ended
<1>3. Decided
  BY <1>1 DEF Init, Decided
<1>4. WorldsAreBaseline /\ CopiesAtHand /\ NoCopyIsForgotten /\ Results
  BY DEF Init, WorldsAreBaseline, CopiesAtHand, NoCopyIsForgotten, Results, Ended
<1> QED
  BY <1>2, <1>3, <1>4 DEF Ledger

\* Without duplicates there is one result under each ID that came back, and
\* that is the one by_id holds.
LEMMA TheResult ==
  ASSUME returned \in Seq(Result), Distinct(returned), NEW m \in IdsOf(returned)
  PROVE  \E i \in DOMAIN returned :
           /\ \A j \in DOMAIN returned : returned[j].job = m <=> j = i
           /\ returned[i] \in Result /\ returned[i].job = m /\ ById(m) = returned[i]
<1>1. DOMAIN returned = 1..Len(returned) /\ Len(returned) \in Nat
  BY LenProperties
<1>2. PICK i \in DOMAIN returned : returned[i].job = m
  BY DEF IdsOf
<1>3. \A j \in DOMAIN returned : returned[j].job = m <=> j = i
  BY <1>2 DEF Distinct
<1>4. returned[i] \in Result
  BY <1>1, ElementOfSeq
<1>5. ById(m) = returned[i]
  <2> DEFINE Q(n) == /\ returned[n].job = m
                     /\ \A j \in DOMAIN returned : returned[j].job = m => j <= n
  <2>1. i \in DOMAIN returned /\ Q(i) /\ \A n \in DOMAIN returned : Q(n) => n = i
    BY <1>1, <1>2, <1>3
  <2>2. (CHOOSE n \in DOMAIN returned : Q(n)) = i
    <3> HIDE DEF Q
    <3> QED
      BY <2>1
  <2> QED
    BY <2>2 DEF ById
<1> QED
  BY <1>2, <1>3, <1>4, <1>5

\* A report that is reconciled has a status for every mutation.
LEMMA ReportIsAboutStatuses ==
  ASSUME Ledger, pc = "reconcile", Distinct(returned), IdsOf(returned) = workspaces
  PROVE  Report \in [Mutations -> Statuses]
<1>1. ASSUME NEW m \in Mutations
      PROVE  StatusOf[IF m \in failures THEN "INVALID" ELSE ById(m).outcome] \in Statuses
  <2>1. \A o \in Outcomes : StatusOf[o] \in Statuses
    BY DEF StatusOf, Outcomes, Statuses
  <2>2. "INVALID" \in Outcomes
    BY DEF Outcomes
  <2>3. m \notin failures => m \in IdsOf(returned)
    BY PlanAssumption DEF Ledger, Decided, Mutations
  <2>4. m \notin failures => ById(m) \in Result
    <3>1. returned \in Seq(Result)
      BY DEF Ledger, TypeOK
    <3> QED
      BY <2>3, <3>1, TheResult
  <2>5. m \notin failures => ById(m).outcome \in Outcomes
    BY <2>4, SeenAssumption DEF Result
  <2> QED
    BY <2>1, <2>2, <2>5
<1> QED
  BY <1>1 DEF Report

\* A step that touches neither the results nor what they are reported for.
LEMMA ResultsKept ==
  ASSUME Results, UNCHANGED <<pc, planVars, announced, returned, trials>>
  PROVE  Results'
<1>1. Report' = Report
  BY DEF planVars, Report, ById
<1>2. /\ ReturnsAnnounced' = ReturnsAnnounced /\ Distinct(returned)' = Distinct(returned)
      /\ IdsOf(returned)' = IdsOf(returned)
  BY DEF ReturnsAnnounced, Distinct, IdsOf
<1>3. UNCHANGED <<pc, runner, workspaces, announced, trials>>
  BY DEF planVars
<1> QED
  BY <1>1, <1>2, <1>3 DEF Results

\* Every step keeps the ledger.
LEMMA StepLedger == Ledger /\ [Next]_vars => Ledger'
<1> SUFFICES ASSUME Ledger, [Next]_vars PROVE Ledger'
  OBVIOUS
<1>0. N \in Nat \ {0}
  BY PlanAssumption
<1>1. CASE Edit
  <2>1. TypeOK'
    BY <1>1 DEF Ledger, TypeOK, Edit, planVars, runVars
  <2>2. Results'
    <3>1. UNCHANGED <<pc, planVars, announced, returned, trials>>
      BY <1>1 DEF Edit, runVars
    <3> QED
      BY <3>1, ResultsKept DEF Ledger
  <2> QED
    BY <1>1, <2>1, <2>2 DEF Ledger, Edit, planVars, runVars, Decided, WorldsAreBaseline,
       CopiesAtHand, NoCopyIsForgotten
<1>2. CASE CheckIdentity
  <2> USE <1>2 DEF CheckIdentity
  <2>1. CASE Refuse /\ UNCHANGED world
    <3>1. TypeOK' /\ Decided'
      BY <2>1, DecisionEffect DEF Ledger, TypeOK, runVars, Refuse
    <3>2. WorldsAreBaseline' /\ CopiesAtHand' /\ NoCopyIsForgotten'
      BY <2>1, DecisionEffect DEF Ledger, WorldsAreBaseline, CopiesAtHand, NoCopyIsForgotten, Refuse, Ended
    <3>3. Results'
      BY <2>1, DecisionEffect DEF Ledger, Results, runVars, Refuse
    <3> QED
      BY <3>1, <3>2, <3>3 DEF Ledger
  <2>2. CASE Leave("stale", {}) /\ UNCHANGED planVars
    <3>1. /\ world' \in [Mutations -> Worlds] /\ pc' = "stale" /\ WorldsAreBaseline'
          /\ \A m \in Mutations : world'[m] = "base" => world[m] = "base" /\ m \notin workspaces
      BY <2>2, LeaveEffect DEF Ended
    <3>2. TypeOK'
      BY <2>2, <3>1 DEF Ledger, TypeOK, planVars, runVars, Ended
    <3>3. Decided' /\ Results' /\ CopiesAtHand'
      BY <2>2, <3>1 DEF Ledger, Decided, Results, CopiesAtHand, planVars, runVars, Ended
    <3>4. NoCopyIsForgotten'
      BY <2>2, <3>1 DEF Ledger, CopiesAtHand, NoCopyIsForgotten, Ended
    <3> QED
      BY <3>1, <3>2, <3>3, <3>4 DEF Ledger
  <2>3. CASE pc' = "copy" /\ UNCHANGED <<world, planVars>>
    BY <2>3 DEF Ledger, TypeOK, Decided, WorldsAreBaseline, CopiesAtHand, NoCopyIsForgotten, Results,
       planVars, runVars, Ended
  <2> QED
    BY <2>1, <2>2, <2>3
<1>3. CASE CopyBaseline
  <2> USE <1>3 DEF CopyBaseline
  <2>0. {k} \in SUBSET Mutations
    BY DEF Ledger, Decided, Mutations
  <2>1. ASSUME NEW how \in {"stale", "error"}, Leave(how, {k}), UNCHANGED planVars
        PROVE  Ledger'
    <3>1. /\ world' \in [Mutations -> Worlds] /\ pc' = how /\ WorldsAreBaseline'
          /\ \A m \in Mutations : world'[m] = "base" => world[m] = "base" /\ m \notin workspaces
      BY <2>0, <2>1, LeaveEffect DEF Ended
    <3>2. TypeOK'
      BY <2>1, <3>1 DEF Ledger, TypeOK, planVars, runVars, Ended
    <3>3. Decided' /\ Results' /\ CopiesAtHand'
      BY <2>1, <3>1 DEF Ledger, Decided, Results, CopiesAtHand, planVars, runVars, Ended
    <3>4. NoCopyIsForgotten'
      BY <2>1, <3>1 DEF Ledger, CopiesAtHand, NoCopyIsForgotten, Ended
    <3> QED
      BY <3>1, <3>2, <3>3, <3>4 DEF Ledger
  <2>3. CASE tree = "base" /\ world' = Copied /\ Plant
    <3>1. /\ world' \in [Mutations -> Worlds]
          /\ \A m \in Mutations : world'[m] = IF m = k THEN "base" ELSE world[m]
          /\ k \in Mutations
      BY <2>3, <1>0 DEF Copied, Ledger, TypeOK, Decided, Worlds, Mutations
    <3>2. WorldsAreBaseline'
      BY <3>1 DEF Ledger, WorldsAreBaseline
    <3>3. CASE candidate = "given" /\ pc' = "plant" /\ UNCHANGED planVars
      <4>1. TypeOK' /\ Decided' /\ Results'
        BY <3>1, <3>3 DEF Ledger, TypeOK, Decided, Results, planVars, runVars, Ended
      <4>2. CopiesAtHand' /\ NoCopyIsForgotten'
        BY <3>1, <3>3 DEF Ledger, TypeOK, CopiesAtHand, NoCopyIsForgotten, planVars, Ended
      <4> QED
        BY <3>2, <4>1, <4>2 DEF Ledger
    <3>4. CASE Register
      <4>1. TypeOK' /\ Decided'
        BY <3>1, <3>4, DecisionEffect DEF Ledger, TypeOK, runVars
      <4>2. Results'
        BY <3>4, DecisionEffect DEF Ledger, Results, runVars
      <4>3. CopiesAtHand' /\ NoCopyIsForgotten'
        BY <3>1, <3>4, DecisionEffect DEF Ledger, TypeOK, CopiesAtHand, NoCopyIsForgotten, Register, Ended
      <4> QED
        BY <3>2, <4>1, <4>2, <4>3 DEF Ledger
    <3> QED
      BY <2>3, <3>3, <3>4 DEF Plant
  <2> QED
    BY <2>1, <2>3
<1>4. CASE PlantCandidate
  <2> USE <1>4 DEF PlantCandidate
  <2>1. CASE Register /\ UNCHANGED world
    <3>0. k \in Mutations
      BY DEF Ledger, Decided, Mutations
    <3>1. TypeOK' /\ Decided'
      BY <2>1, DecisionEffect DEF Ledger, TypeOK, runVars
    <3>2. Results'
      BY <2>1, DecisionEffect DEF Ledger, Results, runVars
    <3>3. WorldsAreBaseline' /\ CopiesAtHand' /\ NoCopyIsForgotten'
      BY <2>1, <3>0, DecisionEffect DEF Ledger, WorldsAreBaseline, CopiesAtHand, NoCopyIsForgotten, Register, Ended
    <3> QED
      BY <3>1, <3>2, <3>3 DEF Ledger
  <2>2. CASE Refuse /\ Remove({k})
    <3>0. {k} \in SUBSET Mutations
      BY DEF Ledger, Decided, Mutations
    <3>1. /\ world' \in [Mutations -> Worlds]
          /\ world'[k] \in {"gone", "left"}
          /\ \A m \in Mutations \ {k} : world'[m] = world[m]
      BY <2>2, <3>0, RemoveEffect DEF Ledger, TypeOK
    <3>2. TypeOK' /\ Decided'
      BY <2>2, <3>1, DecisionEffect DEF Ledger, TypeOK, runVars
    <3>3. Results'
      BY <2>2, DecisionEffect DEF Ledger, Results, runVars, Refuse
    <3>4. WorldsAreBaseline' /\ CopiesAtHand' /\ NoCopyIsForgotten'
      BY <2>2, <3>1, DecisionEffect DEF Ledger, TypeOK, WorldsAreBaseline, CopiesAtHand, NoCopyIsForgotten,
         Refuse, Ended
    <3> QED
      BY <3>2, <3>3, <3>4 DEF Ledger
  <2>3. CASE Leave("error", {}) /\ UNCHANGED planVars
    <3>1. /\ world' \in [Mutations -> Worlds] /\ pc' = "error" /\ WorldsAreBaseline'
          /\ \A m \in Mutations : world'[m] = "base" => world[m] = "base" /\ m \notin workspaces
      BY <2>3, LeaveEffect DEF Ended
    <3>2. TypeOK'
      BY <2>3, <3>1 DEF Ledger, TypeOK, planVars, runVars, Ended
    <3>3. Decided' /\ Results' /\ CopiesAtHand'
      BY <2>3, <3>1 DEF Ledger, Decided, Results, CopiesAtHand, planVars, runVars, Ended
    <3>4. NoCopyIsForgotten'
      BY <2>3, <3>1 DEF Ledger, Decided, CopiesAtHand, NoCopyIsForgotten, planVars, Ended
    <3> QED
      BY <3>1, <3>2, <3>3, <3>4 DEF Ledger
  <2> QED
    BY <2>1, <2>2, <2>3
<1>5. ASSUME NEW m \in Mutations, Announce(m)
      PROVE  Ledger'
  <2>1. PICK r \in Result : /\ r.job = m
                            /\ announced' = [announced EXCEPT ![m] = r]
    BY <1>5 DEF Announce, B!SettleAndGoOn, B!Settle
  <2>2. TypeOK'
    BY <1>5, <2>1 DEF Ledger, TypeOK, Announce, B!SettleAndGoOn, planVars
  <2>3. Results'
    BY <1>5, <2>1 DEF Ledger, TypeOK, Results, Announce, planVars
  <2>4. Decided' /\ WorldsAreBaseline' /\ CopiesAtHand' /\ NoCopyIsForgotten'
    BY <1>5 DEF Ledger, Announce, Decided, WorldsAreBaseline, CopiesAtHand, NoCopyIsForgotten, planVars
  <2> QED
    BY <2>2, <2>3, <2>4 DEF Ledger
<1>6. ASSUME NEW m \in Mutations, AnnounceFails(m)
      PROVE  Ledger'
  <2>1. PICK r \in Result : /\ r.job = m
                            /\ announced' = [announced EXCEPT ![m] = r]
                            /\ fanout' = "raised"
    BY <1>6 DEF AnnounceFails, B!SettleAndRaise, B!Settle
  <2>2. /\ world' \in [Mutations -> Worlds] /\ pc' = "error" /\ WorldsAreBaseline'
        /\ \A i \in Mutations : world'[i] = "base" => world[i] = "base" /\ i \notin workspaces
    BY <1>6, LeaveEffect DEF AnnounceFails, Ended
  <2>3. TypeOK'
    BY <1>6, <2>1, <2>2 DEF Ledger, TypeOK, AnnounceFails, planVars, Ended
  <2>4. Results'
    BY <1>6, <2>1, <2>2 DEF Ledger, TypeOK, Results, AnnounceFails, planVars
  <2>5. Decided' /\ CopiesAtHand' /\ NoCopyIsForgotten'
    BY <1>6, <2>2 DEF Ledger, AnnounceFails, Decided, CopiesAtHand, NoCopyIsForgotten, planVars, Ended
  <2> QED
    BY <2>2, <2>3, <2>4, <2>5 DEF Ledger
<1>7. CASE FanoutReturns
  <2>1. returned' \in Seq(Result)
    <3>1. \A max \in Nat : Batches(max) \subseteq Seq(Result)
      BY SeqDef DEF Batches
    <3> QED
      BY <1>7, <3>1, PlanAssumption DEF FanoutReturns
  <2>2. runner = "run_fanout" => ReturnsAnnounced'
    BY <1>7 DEF FanoutReturns, ReturnsAnnounced
  <2>3. TypeOK'
    BY <1>7, <2>1 DEF Ledger, TypeOK, FanoutReturns, planVars
  <2>4. Decided' /\ WorldsAreBaseline' /\ CopiesAtHand' /\ NoCopyIsForgotten' /\ Results'
    BY <1>7, <2>2 DEF Ledger, FanoutReturns, Decided, WorldsAreBaseline, CopiesAtHand, NoCopyIsForgotten,
       Results, planVars, Ended
  <2> QED
    BY <2>3, <2>4 DEF Ledger
<1>8. CASE RunnerRaises
  <2>1. /\ world' \in [Mutations -> Worlds] /\ pc' = "error" /\ WorldsAreBaseline'
        /\ \A m \in Mutations : world'[m] = "base" => world[m] = "base" /\ m \notin workspaces
    BY <1>8, LeaveEffect DEF RunnerRaises, Ended
  <2>2. TypeOK' /\ Results'
    BY <1>8, <2>1 DEF Ledger, TypeOK, Results, RunnerRaises, planVars, Ended
  <2>3. Decided' /\ CopiesAtHand' /\ NoCopyIsForgotten'
    BY <1>8, <2>1 DEF Ledger, RunnerRaises, Decided, CopiesAtHand, NoCopyIsForgotten, planVars, Ended
  <2> QED
    BY <2>1, <2>2, <2>3 DEF Ledger
<1>9. CASE Reconcile
  <2>1. PICK how \in Ended :
          /\ Leave(how, {}) /\ how \in {"report", "error"} /\ trials' \in {trials, Report}
          /\ how = "report" => Distinct(returned) /\ IdsOf(returned) = workspaces /\ trials' = Report
          /\ how = "error" => trials' = trials
    BY <1>9 DEF Reconcile, Ended
  <2>2. /\ world' \in [Mutations -> Worlds] /\ pc' = how /\ WorldsAreBaseline'
        /\ \A m \in Mutations : world'[m] = "base" => world[m] = "base" /\ m \notin workspaces
    BY <2>1, LeaveEffect
  <2>3. UNCHANGED <<returned, failures, announced, workspaces, runner>>
    BY <1>9 DEF Reconcile, planVars
  <2>4. Report' = Report
    BY <2>3 DEF Report, ById
  <2>5. how = "report" => Report \in [Mutations -> Statuses]
    BY <1>9, <2>1, ReportIsAboutStatuses DEF Reconcile
  <2>6. TypeOK'
    BY <1>9, <2>1, <2>2, <2>5 DEF Ledger, TypeOK, Reconcile, planVars
  <2>7. Decided' /\ CopiesAtHand' /\ NoCopyIsForgotten'
    BY <1>9, <2>1, <2>2 DEF Ledger, Reconcile, Decided, CopiesAtHand, NoCopyIsForgotten, planVars, Ended
  <2>8. Results'
    <3>1. /\ ReturnsAnnounced' = ReturnsAnnounced /\ Distinct(returned)' = Distinct(returned)
          /\ IdsOf(returned)' = IdsOf(returned)
      BY <2>3 DEF ReturnsAnnounced, Distinct, IdsOf
    <3>2. pc = "reconcile"
      BY <1>9 DEF Reconcile
    <3> QED
      BY <2>1, <2>2, <2>3, <2>4, <3>1, <3>2 DEF Ledger, Results
  <2> QED
    BY <2>2, <2>6, <2>7, <2>8 DEF Ledger
<1>10. CASE UNCHANGED vars
  <2>1. Results'
    BY <1>10, ResultsKept DEF vars, runVars, Ledger
  <2>2. TypeOK' /\ Decided'
    BY <1>10 DEF vars, planVars, runVars, Ledger, TypeOK, Decided
  <2>3. WorldsAreBaseline' /\ CopiesAtHand' /\ NoCopyIsForgotten'
    BY <1>10 DEF vars, planVars, runVars, Ledger, WorldsAreBaseline, CopiesAtHand, NoCopyIsForgotten
  <2> QED
    BY <2>1, <2>2, <2>3 DEF Ledger
<1> QED
  BY <1>1, <1>2, <1>3, <1>4, <1>5, <1>6, <1>7, <1>8, <1>9, <1>10 DEF Next

\* The inductive invariant: at every step each mutation behind k has a copy or a
\* refusal, copies are at the baseline and accounted for, results are their job's.
THEOREM MutationLedger == Spec => []Ledger
  BY InitLedger, StepLedger, PTL DEF Spec

\* The type invariant of execute_mutation_plan, for any number of mutations.
THEOREM MutationTypeCorrect == Spec => []TypeOK
<1>1. Ledger => TypeOK
  BY DEF Ledger
<1> QED
  BY <1>1, MutationLedger, PTL

\* No mutant is built on anything but the baseline's bytes, however often the
\* live tree changes between the checks and the copies.
THEOREM NoDrift == Spec => []WorldsAreBaseline
<1>1. Ledger => WorldsAreBaseline
  BY DEF Ledger
<1> QED
  BY <1>1, MutationLedger, PTL

\* A job runs in a copy that exists.
THEOREM CopiesExist == Spec => []ExecutedInTheirWorld
<1>1. Ledger => ExecutedInTheirWorld
  BY DEF Ledger, CopiesAtHand, ExecutedInTheirWorld, Ended
<1> QED
  BY <1>1, MutationLedger, PTL

\* Every way out of execute_mutation_plan tries to remove every copy, but one.
THEOREM Removal == Spec => []NoCopyIsForgotten
<1>1. Ledger => NoCopyIsForgotten
  BY DEF Ledger
<1> QED
  BY <1>1, MutationLedger, PTL

\* Whatever the injected runner returns, in whatever order and number, a report
\* gives each executed mutation the one result that came back under its ID, which
\* for run_fanout is the result it had announced, and no other mutation any.
THEOREM Reconciliation == Spec => []ReportIsReconciled
<1>1. ASSUME Ledger, pc = "report", NEW m \in Mutations
      PROVE  \/ /\ m \in failures \ workspaces
                /\ \A i \in DOMAIN returned : returned[i].job # m
                /\ trials[m] = "INVALID"
             \/ /\ m \in workspaces \ failures
                /\ \E i \in DOMAIN returned :
                     /\ \A j \in DOMAIN returned : returned[j].job = m <=> j = i
                     /\ trials[m] = StatusOf[returned[i].outcome]
                /\ runner = "run_fanout" => trials[m] = StatusOf[announced[m].outcome]
  <2>1. /\ workspaces \cup failures = Mutations /\ workspaces \cap failures = {}
        /\ Distinct(returned) /\ IdsOf(returned) = workspaces /\ trials = Report
        /\ returned \in Seq(Result)
    BY <1>1, PlanAssumption DEF Ledger, TypeOK, Decided, Results, Mutations
  <2>2. trials[m] = StatusOf[IF m \in failures THEN "INVALID" ELSE ById(m).outcome]
    BY <2>1 DEF Report
  <2>3. CASE m \in failures
    <3>1. StatusOf["INVALID"] = "INVALID"
      BY DEF StatusOf, Outcomes
    <3>2. \A i \in DOMAIN returned : returned[i].job \in workspaces
      BY <2>1 DEF IdsOf
    <3> QED
      BY <2>1, <2>2, <2>3, <3>1, <3>2
  <2>4. CASE m \in workspaces
    <3>1. PICK i \in DOMAIN returned :
                 /\ \A j \in DOMAIN returned : returned[j].job = m <=> j = i
                 /\ returned[i].job = m /\ ById(m) = returned[i]
      BY <2>1, <2>4, TheResult
    <3>2. trials[m] = StatusOf[returned[i].outcome] /\ m \notin failures
      BY <2>1, <2>2, <2>4, <3>1
    <3>3. runner = "run_fanout" => returned[i] = announced[m]
      BY <1>1, <3>1 DEF Ledger, Results, ReturnsAnnounced
    <3> QED
      BY <2>4, <3>1, <3>2, <3>3
  <2> QED
    BY <2>1, <2>3, <2>4
<1>2. Ledger => ReportIsReconciled
  BY <1>1 DEF ReportIsReconciled
<1> QED
  BY <1>2, MutationLedger, PTL
=============================================================================
