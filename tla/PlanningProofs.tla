--------------------------- MODULE PlanningProofs ---------------------------
(***************************************************************************)
(* Proofs about Planning for every planner, every set of edits and every   *)
(* number of mutations wanted.  One invariant, Ledger, carries everything: *)
(* it ties seen_keys, the accepted mutants and the list of proposals to    *)
(* avoid to what the planner has sent.                                     *)
(***************************************************************************)
EXTENDS Planning, FiniteSetTheorems, TLAPS

\* Where the loop is, and how many requests it has made.
Attempts ==
  /\ pc = "packing" => attempt = 1 /\ requests = <<>>
  /\ pc = "attempt" => Len(requests) = attempt - 1
  /\ pc = "batch" => Len(requests) = attempt /\ attempt \in 1..2
  /\ Len(requests) <= 2
  /\ pc \in {"packing", "attempt"} /\ attempt = 1 => accepted = <<>>

\* Accepted mutants are different programs, and as many as there are programs.
Distinct ==
  /\ \A i, j \in 1..Len(accepted) : i # j => Program(accepted[i]) # Program(accepted[j])
  /\ IsFiniteSet(Made) /\ Cardinality(Made) = Len(accepted)

\* An edit in seen_keys has been applied: its program is in the plan or no use.
Known ==
  pc \notin {"stale_baseline", "escaped"} =>
    \A e \in seen : e \in Inapplicable \/ Program(e) \in Made \cup Broken

\* What was received in good order is in seen_keys, and all of it is noted.
Recorded ==
  /\ noted = {r.edit : r \in received}
  /\ \A r \in received :
       r.fresh /\ r.edit \notin Malformed => r.edit \in seen \/ Len(accepted) = Target

Ledger == TypeOK /\ PlanIsExecutable /\ Attempts /\ Distinct /\ Known /\ Recorded

\* Program picks a program that its edit makes.
LEMMA ProgramIsProgram ==
  ASSUME NEW e \in UNION Programs
  PROVE  Program(e) \in Programs
  BY DEF Program

\* What one proposal can do to the plan.
LEMMA EvaluateEffect ==
  ASSUME TypeOK, NEW e \in Edits, Evaluate(e)
  PROVE  /\ rejected' \subseteq [edit : Edits \cup {NoEdit}, reason : Reasons]
         /\ seen' \subseteq Edits \ Malformed /\ seen \subseteq seen'
         /\ seen' \subseteq seen \cup {e}
         /\ e \in Malformed \/ e \in seen' \/ Len(accepted) = Target \/ Len(accepted) > Target
         /\ \/ /\ accepted' = accepted
               /\ \A d \in seen' : d \in seen \/ d \in Inapplicable \/ Program(d) \in Made \cup Broken
            \/ /\ e \in UNION Programs
               /\ Program(e) \notin Made \cup Broken
               /\ Len(accepted) < Target
               /\ accepted' = Append(accepted, e)
<1> USE DEF TypeOK, Reasons, Reject
<1>1. CASE Len(accepted) >= Target /\ Reject(e, "OVER_TARGET") /\ UNCHANGED seen
  <2>1. Len(accepted) \in Nat
    OBVIOUS
  <2> QED
    BY <1>1, <2>1, CountsAssumption
<1>2. CASE e \in Malformed /\ Reject(e, "MALFORMED") /\ UNCHANGED seen
  BY <1>2
<1>3. CASE e \in seen /\ Reject(e, "DUPLICATE") /\ UNCHANGED seen
  BY <1>3
<1>4. CASE /\ Len(accepted) < Target
           /\ e \notin Malformed \cup seen /\ seen' = seen \cup {e} /\ Apply(e)
  BY <1>4 DEF Apply, Edits
<1> QED
  BY <1>1, <1>2, <1>3, <1>4 DEF Evaluate

\* Accepting one more program.
LEMMA AcceptEffect ==
  ASSUME TypeOK, Distinct, PlanIsExecutable,
         NEW e \in UNION Programs,
         Program(e) \notin Made \cup Broken,
         Len(accepted) < Target,
         accepted' = Append(accepted, e)
  PROVE  /\ accepted' \in Seq(UNION Programs)
         /\ Len(accepted') = Len(accepted) + 1
         /\ Made' = Made \cup {Program(e)}
         /\ Distinct'
         /\ \A i \in 1..Len(accepted') : Program(accepted'[i]) \notin Broken
         /\ Len(accepted') <= Target
<1> USE DEF TypeOK
<1>1. /\ accepted \in Seq(UNION Programs)
      /\ Len(accepted) \in Nat
      /\ accepted' \in Seq(UNION Programs)
      /\ Len(accepted') = Len(accepted) + 1
      /\ \A i \in 1..Len(accepted) : accepted'[i] = accepted[i]
      /\ accepted'[Len(accepted) + 1] = e
  OBVIOUS
<1>2. Made' = Made \cup {Program(e)}
  <2>1. \A i \in 1..(Len(accepted) + 1) :
          Program(accepted'[i]) = IF i = Len(accepted) + 1 THEN Program(e) ELSE Program(accepted[i])
    BY <1>1
  <2>2. Made' = {Program(accepted'[i]) : i \in 1..(Len(accepted) + 1)}
    BY <1>1 DEF Made
  <2>3. 1..(Len(accepted) + 1) = 1..Len(accepted) \cup {Len(accepted) + 1}
    BY <1>1
  <2> QED
    BY <1>1, <2>1, <2>2, <2>3 DEF Made
<1>3. IsFiniteSet(Made') /\ Cardinality(Made') = Len(accepted')
  BY <1>1, <1>2, FS_AddElement DEF Distinct
<1>4. \A i \in 1..Len(accepted) : Program(accepted'[i]) \in Made /\ Program(accepted'[i]) # Program(e)
  BY <1>1 DEF Made
<1>5. \A i, j \in 1..Len(accepted') : i # j => Program(accepted'[i]) # Program(accepted'[j])
  <2> SUFFICES ASSUME NEW i \in 1..Len(accepted'), NEW j \in 1..Len(accepted'), i # j
               PROVE  Program(accepted'[i]) # Program(accepted'[j])
    OBVIOUS
  <2>1. CASE i \in 1..Len(accepted) /\ j \in 1..Len(accepted)
    BY <1>1, <2>1 DEF Distinct
  <2>2. CASE i = Len(accepted) + 1
    BY <1>1, <1>4, <2>2
  <2>3. CASE j = Len(accepted) + 1
    BY <1>1, <1>4, <2>3
  <2> QED
    BY <1>1, <2>1, <2>2, <2>3
<1>6. \A i \in 1..Len(accepted') : Program(accepted'[i]) \notin Broken
  BY <1>1 DEF PlanIsExecutable
<1>7. Len(accepted') <= Target
  BY <1>1, CountsAssumption
<1> QED
  BY <1>1, <1>2, <1>3, <1>5, <1>6, <1>7 DEF Distinct

\* What the history keeps of one proposal.
LEMMA ReceiveEffect ==
  ASSUME TypeOK, NEW id \in Ids, NEW e \in Edits, Proposed(id, e),
         noted = {r.edit : r \in received}, noted' = noted \cup {e}
  PROVE  /\ received' \subseteq [edit : Edits, fresh : BOOLEAN]
         /\ noted' = {r.edit : r \in received'}
         /\ noted' \subseteq Edits
         /\ batch' \in 0..MaxBatch
         /\ \A r \in received' : r \in received \/ (r.edit = e /\ (r.fresh => id \notin usedIds))
<1> DEFINE fresh == id \notin usedIds
           new == [edit |-> e, fresh |-> fresh]
<1>1. received' = received \cup {new}
  BY DEF Proposed
<1>2. fresh \in BOOLEAN
  OBVIOUS
<1>3. new.edit = e /\ (new.fresh = fresh)
  OBVIOUS
<1>4. new \in [edit : Edits, fresh : BOOLEAN]
  BY <1>2
<1>5. \A r \in received' : r \in received \/ (r.edit = e /\ (r.fresh => id \notin usedIds))
  BY <1>1, <1>3
<1>6. noted' = {r.edit : r \in received'}
  <2> HIDE DEF new
  <2> QED
    BY <1>1, <1>3
<1>7. received' \subseteq [edit : Edits, fresh : BOOLEAN]
  <2> HIDE DEF new
  <2> QED
    BY <1>1, <1>4 DEF TypeOK
<1>8. batch' \in 0..MaxBatch
  BY CountsAssumption DEF TypeOK, Proposed
<1>9. noted' \subseteq Edits
  BY DEF TypeOK
<1> QED
  <2> HIDE DEF new
  <2> QED
    BY <1>5, <1>6, <1>7, <1>8, <1>9

(* In every reachable state the ledger is in order. *)
THEOREM LedgerHolds == Spec => []Ledger
<1> USE CountsAssumption
<1>1. Init => Ledger
  <2> SUFFICES ASSUME Init PROVE Ledger
    OBVIOUS
  <2>1. Made = {}
    BY DEF Init, Made
  <2>2. Distinct
    BY <2>1, FS_EmptySet DEF Init, Distinct
  <2>3. TypeOK
    BY DEF Init, TypeOK, Ended
  <2> QED
    BY <2>2, <2>3 DEF Init, Ledger, PlanIsExecutable, Attempts, Known, Recorded
<1>2. Ledger /\ [Next]_vars => Ledger'
  <2> SUFFICES ASSUME Ledger, [Next]_vars PROVE Ledger'
    OBVIOUS
  <2> USE DEF Ledger
  <2>0. accepted' = accepted => Made' = Made /\ Distinct'
    BY DEF Made, Distinct
  <2>1. CASE PackContext
    <3> USE <2>1 DEF PackContext, gate
    <3>1. TypeOK'
      BY DEF TypeOK, Ended
    <3>2. Known'
      BY <2>0 DEF Known
    <3> QED
      BY <2>0, <3>1, <3>2 DEF PlanIsExecutable, Attempts, Recorded
  <2>2. ASSUME pc = "attempt", Wanted, Request, UNCHANGED <<accepted, seen, noted, received>>
        PROVE  /\ requests' \in Seq([count : 1..Target, avoid : SUBSET Edits])
               /\ Len(requests') = attempt /\ attempt \in 1..2
    <3>1. Len(accepted) \in Nat /\ Len(accepted) < Target
      <4>1. Len(accepted) \in Nat
        BY DEF TypeOK
      <4>2. CASE attempt = 1
        BY <2>2, <4>2 DEF Attempts
      <4>3. CASE attempt # 1
        BY <2>2, <4>1, <4>3 DEF Wanted
      <4> QED
        BY <4>1, <4>2, <4>3
    <3>2. [count |-> Target - Len(accepted), avoid |-> IF attempt = 2 THEN noted ELSE {}]
            \in [count : 1..Target, avoid : SUBSET Edits]
      BY <3>1 DEF TypeOK
    <3> QED
      BY <2>2, <3>2 DEF Request, TypeOK, Attempts, Wanted
  <2>3. CASE BatchArrives
    <3> USE <2>3 DEF BatchArrives, gate
    <3>1. TypeOK'
      BY <2>2 DEF TypeOK
    <3>2. Attempts'
      BY <2>2 DEF Attempts, TypeOK
    <3>3. Known'
      BY <2>0 DEF Known
    <3> QED
      BY <2>0, <3>1, <3>2, <3>3 DEF PlanIsExecutable, Recorded
  <2>4. CASE InvalidOutput
    <3> USE <2>4 DEF InvalidOutput
    <3>1. TypeOK'
      BY <2>2 DEF TypeOK, Reasons
    <3>2. Attempts'
      BY <2>2 DEF Attempts, TypeOK
    <3>3. Known'
      BY <2>0 DEF Known
    <3> QED
      BY <2>0, <3>1, <3>2, <3>3 DEF PlanIsExecutable, Recorded
  <2>5. CASE PlannerFails
    <3> USE <2>5 DEF PlannerFails, gate
    <3>1. TypeOK'
      BY <2>2 DEF TypeOK, Ended
    <3>2. Attempts'
      BY <2>2 DEF Attempts, TypeOK
    <3>3. Known'
      BY <2>0 DEF Known
    <3> QED
      BY <2>0, <3>1, <3>2, <3>3 DEF PlanIsExecutable, Recorded
  <2>6. ASSUME NEW id \in Ids, NEW e \in Edits, Propose(id, e) PROVE Ledger'
    <3> USE DEF Propose
    <3>0. /\ pc = "batch" /\ pc' = "batch" /\ UNCHANGED <<attempt, requests>>
          /\ Proposed(id, e) /\ noted' = noted \cup {e} /\ usedIds' \subseteq Ids
      <4>1. Proposed(id, e) /\ noted' = noted \cup {e} /\ UNCHANGED <<pc, attempt, requests>>
        BY <2>6
      <4>2. usedIds' \subseteq Ids
        BY <2>6 DEF TypeOK
      <4> QED
        BY <4>1, <4>2 DEF Proposed
    <3>10. /\ received' \subseteq [edit : Edits, fresh : BOOLEAN]
          /\ noted' = {r.edit : r \in received'}
          /\ noted' \subseteq Edits
          /\ batch' \in 0..MaxBatch
          /\ \A r \in received' : r \in received \/ (r.edit = e /\ (r.fresh => id \notin usedIds))
      BY <3>0, ReceiveEffect DEF Recorded
    <3>1. Attempts' /\ Len(accepted) \in Nat /\ Len(accepted) <= Target
      BY <3>0 DEF Attempts, TypeOK, PlanIsExecutable
    <3>2. CASE id \in usedIds
      <4>1. UNCHANGED <<accepted, seen>>
        BY <2>6, <3>2 DEF Reject
      <4>2. TypeOK'
        BY <2>6, <3>0, <3>10, <3>2, <4>1 DEF TypeOK, Reject, Reasons
      <4>3. Known'
        BY <2>0, <3>0, <4>1 DEF Known
      <4>4. Recorded'
        BY <3>0, <3>10, <3>2, <4>1 DEF Recorded
      <4> QED
        BY <2>0, <3>0, <3>1, <4>1, <4>2, <4>3, <4>4 DEF PlanIsExecutable
    <3>3. CASE id \notin usedIds
      <4>0. Evaluate(e)
        BY <2>6, <3>3
      <4>1. /\ rejected' \subseteq [edit : Edits \cup {NoEdit}, reason : Reasons]
            /\ seen' \subseteq Edits \ Malformed /\ seen \subseteq seen'
            /\ seen' \subseteq seen \cup {e}
            /\ e \in Malformed \/ e \in seen' \/ Len(accepted) = Target
        BY <4>0, <3>1, EvaluateEffect
      <4>2. CASE /\ accepted' = accepted
                 /\ \A d \in seen' :
                      d \in seen \/ d \in Inapplicable \/ Program(d) \in Made \cup Broken
        <5>1. TypeOK'
          BY <3>0, <3>10, <4>1, <4>2 DEF TypeOK
        <5>2. Known'
          BY <2>0, <3>0, <4>2 DEF Known
        <5>3. Recorded'
          BY <3>0, <3>10, <4>1, <4>2 DEF Recorded
        <5> QED
          BY <2>0, <3>0, <3>1, <4>2, <5>1, <5>2, <5>3 DEF PlanIsExecutable
      <4>3. CASE /\ e \in UNION Programs
                 /\ Program(e) \notin Made \cup Broken
                 /\ Len(accepted) < Target
                 /\ accepted' = Append(accepted, e)
        <5>1. /\ accepted' \in Seq(UNION Programs)
              /\ Len(accepted') = Len(accepted) + 1
              /\ Made' = Made \cup {Program(e)}
              /\ Distinct'
              /\ \A i \in 1..Len(accepted') : Program(accepted'[i]) \notin Broken
              /\ Len(accepted') <= Target
          BY <4>3, AcceptEffect
        <5>2. TypeOK'
          BY <3>0, <3>10, <4>1, <5>1 DEF TypeOK
        <5>3. Known'
          BY <3>0, <4>1, <5>1 DEF Known
        <5>4. Recorded'
          <6>1. Len(accepted) # Target
            BY <3>1, <4>3
          <6> QED
            BY <3>10, <4>1, <6>1 DEF Recorded
        <5>5. PlanIsExecutable'
          BY <3>0, <5>1 DEF PlanIsExecutable, Distinct
        <5> QED
          BY <3>1, <5>1, <5>2, <5>3, <5>4, <5>5
      <4> QED
        BY <4>0, <4>2, <4>3, EvaluateEffect
    <3> QED
      BY <3>2, <3>3
  <2>7. ASSUME NEW id \in Ids, NEW e \in Edits, ApplyFails(id, e) PROVE Ledger'
    <3> USE <2>7 DEF ApplyFails
    <3>10. /\ received' \subseteq [edit : Edits, fresh : BOOLEAN]
          /\ noted' = {r.edit : r \in received'}
          /\ noted' \subseteq Edits
          /\ batch' \in 0..MaxBatch
          /\ \A r \in received' : r \in received \/ (r.edit = e /\ (r.fresh => id \notin usedIds))
      BY ReceiveEffect DEF Recorded
    <3>1. TypeOK'
      BY <3>10 DEF TypeOK, Ended
    <3>2. Attempts'
      BY DEF Attempts
    <3>3. Known'
      BY DEF Known
    <3>4. Recorded'
      BY <3>10 DEF Recorded
    <3> QED
      BY <2>0, <3>1, <3>2, <3>3, <3>4 DEF PlanIsExecutable
  <2>8. CASE EndBatch
    <3> USE <2>8 DEF EndBatch, gate
    <3>1. TypeOK' /\ Attempts'
      BY DEF TypeOK, Attempts
    <3>2. Known'
      BY <2>0 DEF Known
    <3> QED
      BY <2>0, <3>1, <3>2 DEF PlanIsExecutable, Recorded
  <2>9. CASE Decide
    <3> USE <2>9 DEF Decide, gate
    <3>1. TypeOK' /\ Attempts'
      BY DEF TypeOK, Attempts, Ended
    <3>2. Known'
      BY <2>0 DEF Known
    <3>3. Len(accepted) \in Nat
      BY DEF TypeOK
    <3> QED
      BY <2>0, <3>1, <3>2, <3>3 DEF PlanIsExecutable, Recorded
  <2>10. CASE UNCHANGED vars
    <3> USE <2>10 DEF vars, gate
    <3>1. TypeOK' /\ Attempts'
      BY DEF TypeOK, Attempts
    <3>2. Known'
      BY <2>0 DEF Known
    <3> QED
      BY <2>0, <3>1, <3>2 DEF PlanIsExecutable, Recorded
  <2> QED
    BY <2>1, <2>3, <2>4, <2>5, <2>6, <2>7, <2>8, <2>9, <2>10 DEF Next
<1> QED
  BY <1>1, <1>2, PTL DEF Spec

(* Every reachable state is well typed. *)
THEOREM PlanningTypeCorrect == Spec => []TypeOK
<1>1. Ledger => TypeOK
  BY DEF Ledger
<1> QED
  BY <1>1, LedgerHolds, PTL

(* Whatever the planner answers, the accepted mutants are different programs *)
(* that compile, and a plan holds between Minimum and Target of them.        *)
THEOREM Executability == Spec => []PlanIsExecutable
<1>1. Ledger => PlanIsExecutable
  BY DEF Ledger
<1> QED
  BY <1>1, LedgerHolds, PTL

(* No proposal that could have served is dropped while the plan is short. *)
THEOREM NothingLost == Spec => []NothingUsableIsLost
<1>1. Ledger => NothingUsableIsLost
  <2> SUFFICES ASSUME Ledger,
                      pc \in {"attempt", "batch", "planned", "insufficient"},
                      Len(accepted) # Target,
                      NEW r \in received, r.fresh, r.edit \notin Malformed \cup Inapplicable
               PROVE  Program(r.edit) \in Made \cup Broken
    BY DEF NothingUsableIsLost
  <2>1. r.edit \in seen
    BY DEF Ledger, Recorded
  <2> QED
    BY <2>1 DEF Ledger, Known
<1> QED
  BY <1>1, LedgerHolds, PTL

(* The refill asks for exactly what is missing and names all that was tried. *)
THEOREM InformedRefill == Spec => RefillIsInformed
<1> DEFINE Informed ==
      /\ Len(requests') <= 2
      /\ Len(requests') > Len(requests) /\ Len(requests') = 2 =>
           /\ Len(accepted) < Minimum
           /\ requests'[2].count = Target - Cardinality(Made)
           /\ requests'[2].avoid = {r.edit : r \in received}
<1>1. Ledger /\ Ledger' /\ [Next]_vars => [Informed]_vars
  <2> SUFFICES ASSUME Ledger, Ledger', Next PROVE Informed
    OBVIOUS
  <2> USE DEF Ledger
  <2>1. Len(requests') <= 2
    BY DEF Attempts
  <2>2. ASSUME pc = "attempt", Wanted, Request PROVE Informed
    <3>1. Len(requests) = attempt - 1 /\ attempt \in 1..2
      BY <2>2 DEF Attempts, Wanted
    <3>2. requests \in Seq([count : 1..Target, avoid : SUBSET Edits])
      BY DEF TypeOK
    <3>3. /\ Len(requests') = attempt
          /\ requests'[attempt] = [count |-> Target - Len(accepted),
                                   avoid |-> IF attempt = 2 THEN noted ELSE {}]
      BY <2>2, <3>1, <3>2 DEF Request
    <3> QED
      BY <2>1, <2>2, <3>1, <3>3 DEF Wanted, Distinct, Recorded
  <2>3. ASSUME UNCHANGED requests PROVE Informed
    BY <2>1, <2>3
  <2> QED
    BY <2>2, <2>3 DEF Next, PackContext, BatchArrives, InvalidOutput, PlannerFails, Propose,
                      ApplyFails, EndBatch, Decide
<1> QED
  BY <1>1, LedgerHolds, PTL DEF Spec, RefillIsInformed
=============================================================================
