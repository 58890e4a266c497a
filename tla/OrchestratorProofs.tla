------------------------- MODULE OrchestratorProofs -------------------------
(***************************************************************************)
(* Proofs about Orchestrator for a batch of any size: run_perjury returns  *)
(* a result that passes its own validation, its terminal state is what its *)
(* evidence says, a cancelled run is not verified, its events and stage    *)
(* are a RunLifecycle, and the fold of its events shows its evidence.      *)
(***************************************************************************)
EXTENDS Orchestrator, FiniteSetTheorems, SequenceTheorems, WellFoundedInduction, TLAPS

\* TypeOK in two parts: how far the run is, and what it holds.
RunTypes ==
  /\ pc \in {"start", "baseline", "context", "planning", "mutation_execution", "first_pass",
             "survivor_analysis", "analyses", "test_generation", "preflight", "verification",
             "rescoring", "replay", "finish"} \cup Ended
  /\ stage \in Stages
  /\ records \in Seq([stage : WorkingStages, status : {"ok", "terminal", "failed"}])
  /\ stop = NoStop \/ (stop.state \in TerminalStages /\ stop.reason \in Reasons[stop.state])

DataTypes ==
  /\ events \in Seq(Event)
  /\ held \subseteq Evidence
  /\ DOMAIN first \subseteq Mutations /\ first \in [DOMAIN first -> Statuses]
  /\ DOMAIN second \subseteq Mutations /\ second \in [DOMAIN second -> Statuses]
  /\ live \subseteq Mutations /\ unsaid \subseteq Survived(first)
  /\ target \in Survived(first) \cup {Nobody}
  /\ worlds \in [original : Seen, mutant : Seen] \cup {NotRun}
  /\ cancelled \in BOOLEAN

\* Where run_perjury stands: the stage it shows, and the stages it has closed,
\* which are the working stages after "created" in their order.
Standing ==
  /\ pc \in {"start", "baseline"}                  => stage = "created" /\ Len(records) = 0
  /\ pc = "context"                                => stage = "baseline" /\ Len(records) = 1
  /\ pc = "planning"                               => stage = "context" /\ Len(records) = 2
  /\ pc = "mutation_execution"                     => stage = "planning" /\ Len(records) = 3
  /\ pc = "first_pass"                             => stage = "mutation_execution" /\ Len(records) = 3
  /\ pc = "survivor_analysis"                      => stage = "mutation_execution" /\ Len(records) = 4
  /\ pc = "analyses"                               => stage = "survivor_analysis" /\ Len(records) = 4
  /\ pc = "test_generation"                        => stage = "survivor_analysis" /\ Len(records) = 5
  /\ pc = "preflight"                              => stage = "test_generation" /\ Len(records) = 5
  /\ pc = "verification"                           => stage = "test_generation" /\ Len(records) = 6
  /\ pc = "rescoring"                              => stage = "verification" /\ Len(records) = 7
  /\ pc = "replay"                                 => stage = "rescoring" /\ Len(records) = 7
  /\ pc = "finish"                                 => stage \in WorkingStages \ {"created"}
  /\ pc \in Ended                                  => stage = stop.state

Closed == \A i \in 1..Len(records) : i < Len(Working) /\ records[i].stage = Working[i + 1]

Numbered == \A i \in 1..Len(events) : events[i].seq = i /\ events[i].run = RunId

BeforeTarget == {"start", "baseline", "context", "planning", "mutation_execution", "first_pass",
                 "survivor_analysis"}
Targeted == {"test_generation", "preflight", "verification", "rescoring", "replay"}

\* The evidence a run that goes on has gathered.
Gathered ==
  /\ pc \in BeforeTarget => target = Nobody /\ unsaid = {}
  /\ pc \in Targeted \cup {"survivor_analysis", "analyses"} => DOMAIN first = Mutations /\ Scored(first)
  /\ pc \in Targeted => target # Nobody
  /\ pc \in {"rescoring", "replay"} => "verification" \in held /\ Verdict(worlds) = "verified"
  /\ pc = "start" <=> events = <<>>

\* What the reason of a _Stop says of the evidence.
Justified ==
  CASE stop.reason = "VERIFIED" ->
         /\ {"verification", "rescore"} \subseteq held
         /\ Verdict(worlds) = "verified" /\ Confirmed
         /\ DOMAIN first = Mutations /\ DOMAIN second = Mutations /\ Scored(first)
    [] stop.reason = "CANDIDATE_FAILED_ORIGINAL" -> worlds.original = "TEST_FAIL"
    [] stop.reason = "MUTANT_NOT_KILLED" ->
         worlds.original = "PASS" /\ worlds.mutant # "TEST_FAIL"
    [] stop.reason = "VERIFICATION_INCONCLUSIVE" -> worlds.original \notin {"PASS", "TEST_FAIL"}
    [] stop.reason = "RESCORE_INCONSISTENT" ->
         /\ DOMAIN first = Mutations /\ DOMAIN second = Mutations
         /\ target \in Survived(first) /\ ~Confirmed
    [] stop.reason = "NO_VALID_MUTATION_OUTCOMES" -> DOMAIN first = Mutations /\ ~Scored(first)
    [] stop.reason = "NO_ACTIONABLE_SURVIVOR" ->
         DOMAIN first = Mutations /\ Scored(first) /\ Survived(first) = {}
    [] stop.reason = "ALL_POSSIBLY_EQUIVALENT" ->
         DOMAIN first = Mutations /\ Survived(first) # {}
    [] OTHER -> TRUE

\* A run that has stopped did so for a reason its evidence bears out.
Stopped ==
  IF pc \in {"finish"} \cup Ended
  THEN /\ stop = [state |-> stop.state, reason |-> stop.reason]
       /\ stop.state \in TerminalStages /\ stop.reason \in Reasons[stop.state]
       /\ Justified
  ELSE stop = NoStop

Story ==
  RunTypes /\ DataTypes /\ Standing /\ Closed /\ Numbered /\ Gathered /\ Stopped /\ NeverRaises

-----------------------------------------------------------------------------
(* The vocabulary. *)

LEMMA StageNames ==
  /\ Len(Working) = 9
  /\ Working = <<"created", "baseline", "context", "planning", "mutation_execution",
                 "survivor_analysis", "test_generation", "verification", "rescoring">>
  /\ WorkingStages = {"created", "baseline", "context", "planning", "mutation_execution",
                      "survivor_analysis", "test_generation", "verification", "rescoring"}
<1>1. Len(Working) = 9
  BY DEF Working
<1>2. WorkingStages = {Working[i] : i \in {1, 2, 3, 4, 5, 6, 7, 8, 9}}
  <2>1. 1..9 = {1, 2, 3, 4, 5, 6, 7, 8, 9}
    OBVIOUS
  <2> QED
    BY <1>1, <2>1 DEF WorkingStages
<1>3. WorkingStages = {Working[1], Working[2], Working[3], Working[4], Working[5], Working[6],
                       Working[7], Working[8], Working[9]}
  BY <1>2
<1> QED
  BY <1>1, <1>3 DEF Working

\* The stage after the ones closed so far.
LEMMA NextToClose ==
  /\ 0 + 2 <= Len(Working) /\ Working[0 + 2] = "baseline"
  /\ 1 + 2 <= Len(Working) /\ Working[1 + 2] = "context"
  /\ 2 + 2 <= Len(Working) /\ Working[2 + 2] = "planning"
  /\ 3 + 2 <= Len(Working) /\ Working[3 + 2] = "mutation_execution"
  /\ 4 + 2 <= Len(Working) /\ Working[4 + 2] = "survivor_analysis"
  /\ 5 + 2 <= Len(Working) /\ Working[5 + 2] = "test_generation"
  /\ 6 + 2 <= Len(Working) /\ Working[6 + 2] = "verification"
  /\ 7 + 2 <= Len(Working) /\ Working[7 + 2] = "rescoring"
<1>1. /\ 0 + 2 = 2 /\ 1 + 2 = 3 /\ 2 + 2 = 4 /\ 3 + 2 = 5 /\ 4 + 2 = 6 /\ 5 + 2 = 7 /\ 6 + 2 = 8
      /\ 7 + 2 = 9
  OBVIOUS
<1> QED
  BY <1>1, StageNames

\* A stage has one place in the order.
LEMMA Positions ==
  ASSUME NEW i \in 1..Len(Working)
  PROVE  Position(Working[i]) = i
<1>1. \A j \in 1..Len(Working) : Working[j] = Working[i] => j = i
  BY StageNames
<1> QED
  BY <1>1 DEF Position

\* The least mutation of a set of them is one of them.
LEMMA LeastMutation ==
  ASSUME NEW S \in SUBSET Mutations, S # {}
  PROVE  Min(S) \in S
<1>1. S \subseteq Nat
  BY BatchAssumption DEF Mutations
<1>2. PICK m \in S : \A n \in S : <<n, m>> \notin OpToRel(<, Nat)
  BY <1>1, NatLessThanWellFounded, WFMin
<1>3. ASSUME NEW n \in S PROVE m <= n
  <2>1. <<n, m>> \in Nat \X Nat /\ <<n, m>>[1] = n /\ <<n, m>>[2] = m
    BY <1>1
  <2>2. ~(<<n, m>>[1] < <<n, m>>[2])
    BY <1>2, <2>1 DEF OpToRel
  <2> QED
    BY <1>1, <2>1, <2>2
<1> QED
  BY <1>3 DEF Min

LEMMA StatusOfOutcome ==
  /\ \A o \in Outcomes : StatusOf[o] \in Statuses
  /\ \A m : Results(m) \subseteq Statuses
<1>1. \A o \in Outcomes : StatusOf[o] \in Statuses
  BY DEF StatusOf, Outcomes, Statuses
<1> QED
  BY <1>1, SeenAssumption DEF Results, Outcomes

\* Numbers of killed, survived and excluded mutants, and the payload that has
\* them, are within their types.
LEMMA Counted ==
  ASSUME NEW pass, DOMAIN pass \subseteq Mutations
  PROVE  /\ \A S : With(pass, S) \subseteq Mutations /\ IsFiniteSet(With(pass, S))
         /\ \A S : Cardinality(With(pass, S)) \in Count
         /\ Counts(pass) \in Score
<1>1. \A S : With(pass, S) \subseteq Mutations
  BY DEF With
<1>2. IsFiniteSet(Mutations) /\ Cardinality(Mutations) = N
  BY BatchAssumption, FS_Interval DEF Mutations
<1>3. ASSUME NEW S PROVE IsFiniteSet(With(pass, S)) /\ Cardinality(With(pass, S)) \in Count
  BY <1>1, <1>2, BatchAssumption, FS_Subset, FS_CardinalityType DEF Count
<1> QED
  BY <1>1, <1>3 DEF Counts, Score, Killed, Survived, Excluded

LEMMA Payloads ==
  /\ NoData \in Payload
  /\ [ids |-> Mutations] \in Payload
  /\ \A r \in Statuses : [status |-> r] \in Payload
  /\ \A w \in [original : Seen, mutant : Seen] : w \in Payload
  /\ \A b, a \in Score, d \in Directions : [before |-> b, after |-> a, direction |-> d] \in Payload
  /\ \A s \in TerminalStages : \A r \in Reasons[s] : [state |-> s, reason |-> r] \in Payload
  BY DEF Payload

-----------------------------------------------------------------------------
(* emit, stage_scope and _Stop. *)

LEMMA Emits ==
  ASSUME events \in Seq(Event), Numbered,
         NEW type \in EventTypes, NEW s \in Stages, NEW m \in Mutations \cup {Nobody},
         NEW data \in Payload, EmitWith(type, s, m, data)
  PROVE  events' \in Seq(Event) /\ Numbered' /\ events' # <<>>
<1>1. PICK ev \in Event : /\ ev.seq = Len(events) + 1 /\ ev.run = RunId
                          /\ events' = Append(events, ev)
  <2>1. Len(events) + 1 \in Nat
    BY LenProperties
  <2> QED
    BY <2>1 DEF EmitWith, Event
<1>2. /\ events' \in Seq(Event) /\ Len(events') = Len(events) + 1 /\ Len(events) \in Nat
      /\ \A i \in 1..Len(events) : events'[i] = events[i]
      /\ events'[Len(events) + 1] = ev
  BY <1>1, AppendProperties, LenProperties
<1>3. ASSUME NEW i \in 1..Len(events') PROVE events'[i].seq = i /\ events'[i].run = RunId
  <2>1. i \in 1..Len(events) \/ i = Len(events) + 1
    BY <1>2
  <2> QED
    BY <1>1, <1>2, <2>1 DEF Numbered
<1> QED
  BY <1>1, <1>2, <1>3, AppendProperties DEF Numbered

LEMMA Closes ==
  ASSUME Story, NEW s, NEW status \in {"ok", "terminal", "failed"}, Close(s, status),
         Len(records) + 2 <= Len(Working), s = Working[Len(records) + 2]
  PROVE  /\ records' \in Seq([stage : WorkingStages, status : {"ok", "terminal", "failed"}])
         /\ Len(records') = Len(records) + 1
         /\ Closed'
<1> DEFINE Record == [stage : WorkingStages, status : {"ok", "terminal", "failed"}]
<1>1. records \in Seq(Record) /\ Len(records) \in Nat
  BY LenProperties DEF Story, RunTypes
<1>2. Len(records) + 2 \in 1..Len(Working)
  BY <1>1, StageNames
<1>3. [stage |-> s, status |-> status] \in Record
  BY <1>2 DEF WorkingStages
<1>4. /\ records' \in Seq(Record) /\ Len(records') = Len(records) + 1
      /\ \A i \in 1..Len(records) : records'[i] = records[i]
      /\ records'[Len(records) + 1] = [stage |-> s, status |-> status]
  <2> HIDE DEF Record
  <2> QED
    BY <1>1, <1>3, AppendProperties DEF Close
<1>5. ASSUME NEW i \in 1..Len(records') PROVE i < Len(Working) /\ records'[i].stage = Working[i + 1]
  <2>1. i \in 1..Len(records) \/ i = Len(records) + 1
    BY <1>1, <1>4
  <2>2. CASE i \in 1..Len(records)
    BY <1>4, <2>2 DEF Story, Closed
  <2>3. CASE i = Len(records) + 1
    <3>1. records'[i].stage = s
      BY <1>4, <2>3
    <3>2. i + 1 = Len(records) + 2
      BY <1>1, <2>3
    <3> QED
      BY <1>1, <2>3, <3>1, <3>2, StageNames
  <2> QED
    BY <2>1, <2>2, <2>3
<1> QED
  BY <1>4, <1>5 DEF Closed

Halted == pc = "finish" /\ RunTypes /\ Standing /\ Closed /\ Stopped /\ NeverRaises

\* A stage is closed for good with a reason that its evidence bears out.
LEMMA Halts ==
  ASSUME Story, NEW s, NEW status \in {"ok", "terminal", "failed"}, Close(s, status),
         Len(records) + 2 <= Len(Working), s = Working[Len(records) + 2], stage' = s,
         NEW state \in TerminalStages, NEW reason \in Reasons[state],
         pc' = "finish", stop' = [state |-> state, reason |-> reason], Justified'
  PROVE  Halted'
<1>1. Len(records) \in Nat
  BY LenProperties DEF Story, RunTypes
<1>2. s \in WorkingStages \ {"created"} /\ s \in Stages
  BY <1>1, StageNames DEF Stages
<1>3. stop'.state = state /\ stop'.reason = reason
  OBVIOUS
<1> QED
  BY <1>2, <1>3, Closes DEF Halted, RunTypes, Standing, Stopped, NeverRaises, Ended

\* A failure needs no evidence.
LEMMA FailHalts ==
  ASSUME Story, NEW s, NEW reason \in Reasons["failed"], Fail(s, reason),
         Len(records) + 2 <= Len(Working), s = Working[Len(records) + 2], stage' = s
  PROVE  Halted'
<1>1. PICK status \in {"terminal", "failed"}, r \in Reasons["failed"] :
        Close(s, status) /\ pc' = "finish" /\ stop' = [state |-> "failed", reason |-> r]
  BY DEF Fail, StopRun, Reasons
<1>2. r \notin {"VERIFIED", "CANDIDATE_FAILED_ORIGINAL", "MUTANT_NOT_KILLED",
                "VERIFICATION_INCONCLUSIVE", "RESCORE_INCONSISTENT", "NO_VALID_MUTATION_OUTCOMES",
                "NO_ACTIONABLE_SURVIVOR", "ALL_POSSIBLY_EQUIVALENT"}
  BY <1>1 DEF Reasons
<1>3. Justified'
  BY <1>1, <1>2 DEF Justified
<1> QED
  BY <1>1, <1>3, Halts DEF TerminalStages

-----------------------------------------------------------------------------
(* Each step of the run. *)

\* A run that has stopped and whose evidence is in order.
LEMMA HaltedStory ==
  ASSUME Halted', DataTypes', Numbered', events' # <<>>
  PROVE  Story'
BY DEF Halted, Story, Gathered, BeforeTarget, Targeted

LEMMA StartKeeps ==
  ASSUME Story, Start
  PROVE  Story'
<1>1. "run.started" \in EventTypes /\ "created" \in Stages
  BY StageNames DEF EventTypes, Stages
<1>2. events' \in Seq(Event) /\ Numbered' /\ events' # <<>>
  BY <1>1, Payloads, Emits DEF Start, Emit, Story, DataTypes
<1>3. /\ pc = "start" /\ pc' = "baseline"
      /\ UNCHANGED <<stage, records, stop, held, first, second, live, unsaid, target, worlds, cancelled>>
  BY DEF Start, Proceed, dataVars
<1>4. RunTypes' /\ Standing' /\ Closed' /\ Stopped' /\ NeverRaises'
  BY <1>3 DEF Story, RunTypes, Standing, Closed, Stopped, NeverRaises, Ended
<1>5. DataTypes'
  BY <1>2, <1>3 DEF Story, DataTypes, Survived, With
<1>6. Gathered'
  BY <1>2, <1>3 DEF Story, Gathered, BeforeTarget, Targeted
<1> QED
  BY <1>2, <1>4, <1>5, <1>6 DEF Story

\* baseline, context and planning hand one piece of evidence on.
LEMMA PrepareKeeps ==
  ASSUME Story, NEW s, NEW event \in EventTypes, NEW data \in Payload, NEW evidence \in Evidence,
         NEW to, NEW reason \in Reasons["failed"],
         \/ s = "baseline" /\ to = "context"
         \/ s = "context" /\ to = "planning"
         \/ s = "planning" /\ to = "mutation_execution",
         Prepare(s, event, data, evidence, to, reason)
  PROVE  Story'
<1>1. /\ pc = s /\ stage' = s
      /\ UNCHANGED <<first, second, live, unsaid, target, worlds, cancelled>>
  BY DEF Prepare, Transition
<1>2. \/ s = "baseline" /\ to = "context" /\ Len(records) = 0
      \/ s = "context" /\ to = "planning" /\ Len(records) = 1
      \/ s = "planning" /\ to = "mutation_execution" /\ Len(records) = 2
  BY <1>1 DEF Story, Standing
<1>3. Len(records) + 2 <= Len(Working) /\ s = Working[Len(records) + 2]
  BY <1>2, NextToClose
<1>4. s \in Stages /\ events # <<>>
  BY <1>1, StageNames DEF Stages, Story, Gathered
<1>5. CASE Fail(s, reason) /\ UNCHANGED <<events, held>>
  <2>1. Halted'
    BY <1>1, <1>3, <1>5, FailHalts
  <2>2. DataTypes' /\ Numbered'
    BY <1>1, <1>5 DEF Story, DataTypes, Numbered, Survived, With
  <2> QED
    BY <1>4, <1>5, <2>1, <2>2, HaltedStory
<1>6. CASE /\ EmitWith(event, s, Nobody, data) /\ Close(s, "ok")
           /\ held' = held \cup {evidence} /\ Proceed(to)
  <2>1. events' \in Seq(Event) /\ Numbered' /\ events' # <<>>
    BY <1>4, <1>6, Emits DEF Story, DataTypes
  <2>2. /\ records' \in Seq([stage : WorkingStages, status : {"ok", "terminal", "failed"}])
        /\ Len(records') = Len(records) + 1 /\ Closed'
    BY <1>1, <1>3, <1>6, Closes
  <2>3. pc' = to /\ UNCHANGED stop
    BY <1>6 DEF Proceed
  <2>4. RunTypes'
    BY <1>1, <1>4, <2>2, <2>3 DEF Story, RunTypes
  <2>5. Standing'
    <3>1. \/ s = "baseline" /\ to = "context" /\ Len(records') = 1
          \/ s = "context" /\ to = "planning" /\ Len(records') = 2
          \/ s = "planning" /\ to = "mutation_execution" /\ Len(records') = 3
      <4>1. Len(records) = 0 => Len(records') = 1
        BY <2>2
      <4>2. Len(records) = 1 => Len(records') = 2
        BY <2>2
      <4>3. Len(records) = 2 => Len(records') = 3
        BY <2>2
      <4> QED
        BY <1>2, <4>1, <4>2, <4>3
    <3> QED
      BY <1>1, <2>3, <3>1 DEF Standing, Ended
  <2>6. Stopped' /\ NeverRaises'
    BY <1>1, <1>2, <2>3 DEF Story, Stopped, NeverRaises, Ended
  <2>7. DataTypes'
    BY <1>1, <1>6, <2>1 DEF Story, DataTypes, Survived, With
  <2>8. Gathered'
    BY <1>1, <2>1, <2>3 DEF Story, Gathered, BeforeTarget, Targeted
  <2> QED
    BY <2>1, <2>2, <2>4, <2>5, <2>6, <2>7, <2>8 DEF Story
<1> QED
  BY <1>5, <1>6 DEF Prepare

LEMMA PreparationsKeep ==
  ASSUME Story, Baseline \/ Context \/ Planning
  PROVE  Story'
<1>1. /\ {"BASELINE_NOT_READY", "CONTEXT_FAILED", "PLANNING_FAILED"} \subseteq Reasons["failed"]
      /\ {"baseline.completed", "context.completed", "plan.completed"} \subseteq EventTypes
      /\ {"baseline", "context", "plan"} \subseteq Evidence
  BY DEF Reasons, EventTypes, Evidence
<1> QED
  BY <1>1, Payloads, PrepareKeeps DEF Baseline, Context, Planning

\* The results of a fan-out that are known before anything runs.
LEMMA Refusals ==
  ASSUME NEW pass \in Unexecuted
  PROVE  DOMAIN pass \subseteq Mutations /\ pass \in [DOMAIN pass -> Statuses]
BY DEF Unexecuted, Statuses

LEMMA FirstPassKeeps ==
  ASSUME Story, FirstPass
  PROVE  Story'
<1>1. /\ pc = "mutation_execution" /\ pc' = "first_pass" /\ stage' = "mutation_execution"
      /\ live' \subseteq Mutations /\ first' \in Unexecuted
      /\ UNCHANGED <<events, records, stop, held, second, unsaid, target, worlds, cancelled>>
  BY DEF FirstPass, FanOut, Transition, Proceed
<1>2. target = Nobody /\ unsaid = {} /\ events # <<>>
  BY <1>1 DEF Story, Gathered, BeforeTarget
<1>3. RunTypes' /\ Standing' /\ Closed' /\ Stopped' /\ NeverRaises'
  BY <1>1, StageNames
  DEF Story, RunTypes, Standing, Closed, Stopped, NeverRaises, Ended, Stages
<1>4. DataTypes' /\ Numbered'
  BY <1>1, <1>2, Refusals DEF Story, DataTypes, Numbered
<1>5. Gathered'
  BY <1>1, <1>2 DEF Gathered, BeforeTarget, Targeted
<1> QED
  BY <1>3, <1>4, <1>5 DEF Story

\* No result is known yet when the replay starts.
LEMMA RescoreKeeps ==
  ASSUME Story, Rescore
  PROVE  Story'
<1>1. /\ pc = "rescoring" /\ pc' = "replay" /\ stage' = "rescoring"
      /\ live' \subseteq Mutations /\ second' \in Unexecuted
      /\ UNCHANGED <<events, records, stop, held, first, unsaid, target, worlds, cancelled>>
  BY DEF Rescore, FanOut, Transition, Proceed
<1>2. RunTypes' /\ Standing' /\ Closed' /\ Stopped' /\ NeverRaises'
  BY <1>1, StageNames
  DEF Story, RunTypes, Standing, Closed, Stopped, NeverRaises, Ended, Stages
<1>3. DataTypes' /\ Numbered'
  BY <1>1, Refusals DEF Story, DataTypes, Numbered, Survived, With
<1>4. Gathered'
  BY <1>1 DEF Story, Gathered, BeforeTarget, Targeted
<1> QED
  BY <1>2, <1>3, <1>4 DEF Story

\* A result of the first pass: nothing has been selected by then.
LEMMA MutationCompletedKeeps ==
  ASSUME Story, NEW m \in Mutations, MutationCompleted(m)
  PROVE  Story'
<1>1. PICK r \in Statuses :
        /\ first' = [i \in DOMAIN first \cup {m} |-> IF i = m THEN r ELSE first[i]]
        /\ EmitWith("mutation.completed", stage, m, [status |-> r])
  BY StatusOfOutcome DEF MutationCompleted
<1>2. /\ pc = "first_pass"
      /\ UNCHANGED <<pc, stage, records, stop, held, second, live, unsaid, target, worlds, cancelled>>
      /\ target = Nobody /\ unsaid = {}
  BY DEF MutationCompleted, Story, Gathered, BeforeTarget
<1>3. "mutation.completed" \in EventTypes /\ stage \in Stages /\ [status |-> r] \in Payload
  BY Payloads DEF EventTypes, Story, RunTypes
<1>4. events' \in Seq(Event) /\ Numbered' /\ events' # <<>>
  BY <1>1, <1>3, Emits DEF Story, DataTypes
<1>5. RunTypes' /\ Standing' /\ Closed' /\ Stopped' /\ NeverRaises'
  BY <1>2 DEF Story, RunTypes, Standing, Closed, Stopped, NeverRaises, Ended
<1>6. DOMAIN first' \subseteq Mutations /\ first' \in [DOMAIN first' -> Statuses]
  BY <1>1 DEF Story, DataTypes
<1>7. DataTypes'
  BY <1>2, <1>4, <1>6 DEF Story, DataTypes
<1>8. Gathered'
  BY <1>2, <1>4 DEF Gathered, BeforeTarget, Targeted
<1> QED
  BY <1>4, <1>5, <1>7, <1>8 DEF Story

LEMMA RescoreMutationCompletedKeeps ==
  ASSUME Story, NEW m \in Mutations, RescoreMutationCompleted(m)
  PROVE  Story'
<1>1. PICK r \in Statuses :
        second' = [i \in DOMAIN second \cup {m} |-> IF i = m THEN r ELSE second[i]]
  BY StatusOfOutcome DEF RescoreMutationCompleted
<1>2. /\ pc = "replay"
      /\ UNCHANGED <<pc, stage, records, stop, held, first, live, unsaid, target, worlds, cancelled>>
      /\ Emit("rescore.mutation.completed", stage, m)
  BY DEF RescoreMutationCompleted
<1>3. "rescore.mutation.completed" \in EventTypes /\ stage \in Stages
  BY DEF EventTypes, Story, RunTypes
<1>4. events' \in Seq(Event) /\ Numbered' /\ events' # <<>>
  BY <1>2, <1>3, Payloads, Emits DEF Emit, Story, DataTypes
<1>5. RunTypes' /\ Standing' /\ Closed' /\ Stopped' /\ NeverRaises'
  BY <1>2 DEF Story, RunTypes, Standing, Closed, Stopped, NeverRaises, Ended
<1>6. DOMAIN second' \subseteq Mutations /\ second' \in [DOMAIN second' -> Statuses]
  BY <1>1 DEF Story, DataTypes
<1>7. DataTypes'
  BY <1>2, <1>4, <1>6 DEF Story, DataTypes, Survived, With
<1>8. Gathered'
  BY <1>2, <1>4 DEF Story, Gathered, BeforeTarget, Targeted
<1> QED
  BY <1>4, <1>5, <1>7, <1>8 DEF Story

LEMMA FanOutFailsKeeps ==
  ASSUME Story, FirstPassFails \/ RescoreFails
  PROVE  Story'
<1>1. PICK s \in {"mutation_execution", "rescoring"}, reason \in Reasons["failed"] :
        /\ \/ s = "mutation_execution" /\ pc \in {"mutation_execution", "first_pass"}
           \/ s = "rescoring" /\ pc \in {"rescoring", "replay"}
        /\ stage' = s \/ (stage' = stage /\ pc \in {"first_pass", "replay"})
        /\ Fail(s, reason)
  <2>1. {"EXECUTION_FAILED", "RESCORE_PRECONDITION"} \subseteq Reasons["failed"]
    BY DEF Reasons
  <2>2. CASE FirstPassFails
    BY <2>1, <2>2 DEF FirstPassFails, FanOutFails, Transition
  <2>3. CASE RescoreFails
    BY <2>1, <2>3 DEF RescoreFails, FanOutFails, Transition
  <2> QED
    BY <2>2, <2>3
<1>2. UNCHANGED <<events, held, first, second, live, unsaid, target, worlds, cancelled>>
  BY DEF FirstPassFails, RescoreFails, FanOutFails, dataVars
<1>3. stage' = s
  BY <1>1 DEF Story, Standing
<1>4. Len(records) + 2 <= Len(Working) /\ s = Working[Len(records) + 2]
  <2>1. \/ s = "mutation_execution" /\ Len(records) = 3
        \/ s = "rescoring" /\ Len(records) = 7
    BY <1>1 DEF Story, Standing
  <2> QED
    BY <2>1, NextToClose
<1>5. Halted'
  BY <1>1, <1>3, <1>4, FailHalts
<1>6. DataTypes' /\ Numbered' /\ events' # <<>>
  BY <1>1, <1>2 DEF Story, DataTypes, Numbered, Gathered, Survived, With
<1> QED
  BY <1>5, <1>6, HaltedStory

LEMMA FirstPassReturnsKeeps ==
  ASSUME Story, FirstPassReturns
  PROVE  Story'
<1>1. /\ pc = "first_pass" /\ DOMAIN first = Mutations /\ held' = held \cup {"first_pass"}
      /\ Emit("execution.completed", stage, Nobody)
      /\ UNCHANGED <<stage, first, second, live, unsaid, target, worlds, cancelled>>
      /\ stage = "mutation_execution" /\ Len(records) = 3
      /\ target = Nobody /\ unsaid = {}
  BY DEF FirstPassReturns, Story, Standing, Gathered, BeforeTarget
<1>2. Len(records) + 2 <= Len(Working) /\ stage = Working[Len(records) + 2]
  BY <1>1, NextToClose
<1>3. "execution.completed" \in EventTypes /\ stage \in Stages
  BY DEF EventTypes, Story, RunTypes
<1>4. events' \in Seq(Event) /\ Numbered' /\ events' # <<>>
  BY <1>1, <1>3, Payloads, Emits DEF Emit, Story, DataTypes
<1>5. DataTypes'
  BY <1>1, <1>4 DEF Story, DataTypes, Evidence
<1>6. CASE Scored(first) /\ Close(stage, "ok") /\ Proceed("survivor_analysis")
  <2>1. /\ records' \in Seq([stage : WorkingStages, status : {"ok", "terminal", "failed"}])
        /\ Len(records') = 4 /\ Closed'
    <3>1. /\ records' \in Seq([stage : WorkingStages, status : {"ok", "terminal", "failed"}])
          /\ Len(records') = Len(records) + 1 /\ Closed'
      BY <1>2, <1>6, Closes
    <3> QED
      BY <1>1, <3>1
  <2>2. pc' = "survivor_analysis" /\ UNCHANGED <<stop, stage, first, target, unsaid>>
    BY <1>1, <1>6 DEF Proceed
  <2>3. RunTypes'
    BY <2>1, <2>2 DEF Story, RunTypes
  <2>4. Standing' /\ Stopped' /\ NeverRaises'
    BY <1>1, <2>1, <2>2 DEF Story, Standing, Stopped, NeverRaises, Ended
  <2>5. Gathered'
    BY <1>1, <1>4, <1>6, <2>2 DEF Gathered, BeforeTarget, Targeted, Scored, ValidTotal, Killed,
                                  Survived, With
  <2> QED
    BY <1>4, <1>5, <2>1, <2>3, <2>4, <2>5 DEF Story
<1>7. CASE ~Scored(first) /\ StopRun(stage, "inconclusive", "NO_VALID_MUTATION_OUTCOMES")
  <2>1. /\ Close(stage, "terminal") /\ pc' = "finish" /\ stage' = stage
        /\ stop' = [state |-> "inconclusive", reason |-> "NO_VALID_MUTATION_OUTCOMES"]
    BY <1>1, <1>7 DEF StopRun
  <2>2. Justified'
    BY <1>1, <1>7, <2>1 DEF Justified, Scored, ValidTotal, Killed, Survived, With
  <2>3. "inconclusive" \in TerminalStages /\ "NO_VALID_MUTATION_OUTCOMES" \in Reasons["inconclusive"]
    BY DEF TerminalStages, Reasons
  <2>4. Halted'
    BY <1>2, <2>1, <2>2, <2>3, Halts
  <2> QED
    BY <1>4, <1>5, <2>4, HaltedStory
<1> QED
  BY <1>6, <1>7 DEF FirstPassReturns

LEMMA SelectTargetKeeps ==
  ASSUME Story, SelectTarget
  PROVE  Story'
<1>1. /\ pc = "survivor_analysis" /\ stage' = "survivor_analysis" /\ Len(records) = 4
      /\ UNCHANGED <<events, first, second, live, worlds, cancelled>>
      /\ DOMAIN first = Mutations /\ Scored(first) /\ events # <<>>
  BY DEF SelectTarget, Transition, Story, Standing, Gathered
<1>2. Len(records) + 2 <= Len(Working) /\ stage' = Working[Len(records) + 2]
  BY <1>1, NextToClose
<1>3. CASE Fail("survivor_analysis", "ANALYSIS_FAILED") /\ UNCHANGED <<held, target, unsaid>>
  <2>1. Halted'
    BY <1>1, <1>2, <1>3, FailHalts DEF Reasons
  <2>2. DataTypes' /\ Numbered'
    BY <1>1, <1>3 DEF Story, DataTypes, Numbered, Survived, With
  <2> QED
    BY <1>1, <2>1, <2>2, HaltedStory
<1>4. CASE \E flagged \in SUBSET Survived(first) :
             /\ target' = Chosen(flagged)
             /\ unsaid' = Analysed(target')
             /\ held' = held \cup {"selection"}
             /\ Proceed("analyses")
             /\ UNCHANGED records
  <2>1. PICK flagged \in SUBSET Survived(first) : target' = Chosen(flagged)
    BY <1>4
  <2>2. target' \in Survived(first) \cup {Nobody}
    <3>1. Survived(first) \subseteq Mutations
      BY <1>1 DEF Survived, With
    <3> QED
      BY <2>1, <3>1, LeastMutation DEF Chosen
  <2>3. /\ unsaid' \subseteq Survived(first) /\ held' = held \cup {"selection"}
        /\ pc' = "analyses" /\ UNCHANGED <<records, stop>>
    BY <1>4 DEF Analysed, Proceed
  <2>4. RunTypes' /\ Standing' /\ Closed' /\ Stopped' /\ NeverRaises'
    BY <1>1, <2>3, StageNames
    DEF Story, RunTypes, Standing, Closed, Stopped, NeverRaises, Ended, Stages
  <2>5. DataTypes' /\ Numbered'
    BY <1>1, <2>2, <2>3 DEF Story, DataTypes, Numbered, Evidence, Survived, With
  <2>6. Gathered'
    BY <1>1, <2>3
    DEF Gathered, BeforeTarget, Targeted, Scored, ValidTotal, Killed, Survived, With
  <2> QED
    BY <2>4, <2>5, <2>6 DEF Story
<1> QED
  BY <1>3, <1>4 DEF SelectTarget

LEMMA AnnounceAnalysisKeeps ==
  ASSUME Story, AnnounceAnalysis
  PROVE  Story'
<1>1. /\ pc = "analyses" /\ unsaid # {} /\ unsaid' \subseteq unsaid
      /\ Emit("analysis.completed", stage, Min(unsaid))
      /\ UNCHANGED <<pc, stage, records, stop, held, first, second, live, target, worlds, cancelled>>
  BY DEF AnnounceAnalysis
<1>2. Min(unsaid) \in Mutations
  <2>1. unsaid \subseteq Mutations
    BY DEF Story, DataTypes, Survived, With
  <2> QED
    BY <1>1, <2>1, LeastMutation
<1>3. "analysis.completed" \in EventTypes /\ stage \in Stages
  BY DEF EventTypes, Story, RunTypes
<1>4. events' \in Seq(Event) /\ Numbered' /\ events' # <<>>
  BY <1>1, <1>2, <1>3, Payloads, Emits DEF Emit, Story, DataTypes
<1>5. RunTypes' /\ Standing' /\ Closed' /\ Stopped' /\ NeverRaises'
  BY <1>1 DEF Story, RunTypes, Standing, Closed, Stopped, NeverRaises, Ended
<1>6. DataTypes'
  BY <1>1, <1>4 DEF Story, DataTypes, Survived, With
<1>7. Gathered'
  BY <1>1, <1>4
  DEF Story, Gathered, BeforeTarget, Targeted, Scored, ValidTotal, Killed, Survived, With
<1> QED
  BY <1>4, <1>5, <1>6, <1>7 DEF Story

LEMMA AnnounceTargetKeeps ==
  ASSUME Story, AnnounceTarget
  PROVE  Story'
<1>1. /\ pc = "analyses" /\ stage = "survivor_analysis" /\ Len(records) = 4
      /\ UNCHANGED <<stage, held, first, second, live, unsaid, target, worlds, cancelled>>
      /\ DOMAIN first = Mutations /\ Scored(first) /\ events # <<>> /\ stage \in Stages
  BY DEF AnnounceTarget, dataVars, Story, Standing, Gathered, RunTypes
<1>2. Len(records) + 2 <= Len(Working) /\ stage = Working[Len(records) + 2]
  BY <1>1, NextToClose
<1>3. CASE /\ UNCHANGED events
           /\ \/ Survived(first) = {} /\ StopRun(stage, "inconclusive", "NO_ACTIONABLE_SURVIVOR")
              \/ Survived(first) # {} /\ StopRun(stage, "inconclusive", "ALL_POSSIBLY_EQUIVALENT")
  <2>1. PICK reason \in {"NO_ACTIONABLE_SURVIVOR", "ALL_POSSIBLY_EQUIVALENT"} :
          /\ Close(stage, "terminal") /\ pc' = "finish" /\ stage' = stage
          /\ stop' = [state |-> "inconclusive", reason |-> reason]
          /\ reason = "NO_ACTIONABLE_SURVIVOR" <=> Survived(first) = {}
    BY <1>1, <1>3 DEF StopRun
  <2>2. Justified'
    BY <1>1, <2>1 DEF Justified, Scored, ValidTotal, Killed, Survived, With
  <2>3. "inconclusive" \in TerminalStages /\ reason \in Reasons["inconclusive"]
    BY DEF TerminalStages, Reasons
  <2>4. Halted'
    BY <1>2, <2>1, <2>2, <2>3, Halts
  <2>5. DataTypes' /\ Numbered'
    BY <1>1, <1>3 DEF Story, DataTypes, Numbered, Survived, With
  <2> QED
    BY <1>1, <1>3, <2>4, <2>5, HaltedStory
<1>4. CASE /\ target # Nobody /\ Emit("survivor.selected", stage, target)
           /\ Close(stage, "ok") /\ Proceed("test_generation")
  <2>1. "survivor.selected" \in EventTypes /\ target \in Mutations \cup {Nobody}
    BY <1>1 DEF EventTypes, Story, DataTypes, Survived, With
  <2>2. events' \in Seq(Event) /\ Numbered' /\ events' # <<>>
    BY <1>1, <1>4, <2>1, Payloads, Emits DEF Emit, Story, DataTypes
  <2>3. /\ records' \in Seq([stage : WorkingStages, status : {"ok", "terminal", "failed"}])
        /\ Len(records') = Len(records) + 1 /\ Closed'
    BY <1>2, <1>4, Closes
  <2>4. Len(records') = 5
    BY <1>1, <2>3
  <2>5. pc' = "test_generation" /\ UNCHANGED stop
    BY <1>4 DEF Proceed
  <2>6. RunTypes' /\ Standing' /\ Stopped' /\ NeverRaises'
    BY <1>1, <2>3, <2>4, <2>5 DEF Story, RunTypes, Standing, Stopped, NeverRaises, Ended
  <2>7. DataTypes'
    BY <1>1, <2>2 DEF Story, DataTypes, Survived, With
  <2>8. Gathered'
    BY <1>1, <1>4, <2>2, <2>5
    DEF Gathered, BeforeTarget, Targeted, Scored, ValidTotal, Killed, Survived, With
  <2> QED
    BY <2>2, <2>3, <2>6, <2>7, <2>8 DEF Story
<1> QED
  BY <1>3, <1>4 DEF AnnounceTarget

LEMMA GenerateTestKeeps ==
  ASSUME Story, GenerateTest
  PROVE  Story'
<1>1. /\ pc = "test_generation" /\ stage' = "test_generation" /\ Len(records) = 5
      /\ UNCHANGED <<held, first, second, live, unsaid, target, worlds, cancelled>>
      /\ DOMAIN first = Mutations /\ Scored(first) /\ events # <<>> /\ target # Nobody
  BY DEF GenerateTest, Transition, dataVars, Story, Standing, Gathered, Targeted
<1>2. Len(records) + 2 <= Len(Working) /\ stage' = Working[Len(records) + 2]
  BY <1>1, NextToClose
<1>3. CASE Fail("test_generation", "GENERATION_FAILED") /\ UNCHANGED events
  <2>1. Halted'
    BY <1>1, <1>2, <1>3, FailHalts DEF Reasons
  <2>2. DataTypes' /\ Numbered'
    BY <1>1, <1>3 DEF Story, DataTypes, Numbered, Survived, With
  <2> QED
    BY <1>1, <1>3, <2>1, <2>2, HaltedStory
<1>4. CASE /\ Emit("test.proposed", "test_generation", target)
           /\ Proceed("preflight") /\ UNCHANGED records
  <2>1. "test.proposed" \in EventTypes /\ target \in Mutations \cup {Nobody}
        /\ "test_generation" \in Stages
    BY StageNames DEF EventTypes, Stages, Story, DataTypes, Survived, With
  <2>2. events' \in Seq(Event) /\ Numbered' /\ events' # <<>>
    BY <1>4, <2>1, Payloads, Emits DEF Emit, Story, DataTypes
  <2>3. pc' = "preflight" /\ UNCHANGED <<stop, records>>
    BY <1>4 DEF Proceed
  <2>4. RunTypes' /\ Standing' /\ Closed' /\ Stopped' /\ NeverRaises'
    BY <1>1, <2>1, <2>3 DEF Story, RunTypes, Standing, Closed, Stopped, NeverRaises, Ended
  <2>5. DataTypes'
    BY <1>1, <2>2 DEF Story, DataTypes, Survived, With
  <2>6. Gathered'
    BY <1>1, <2>2, <2>3
    DEF Gathered, BeforeTarget, Targeted, Scored, ValidTotal, Killed, Survived, With
  <2> QED
    BY <2>2, <2>4, <2>5, <2>6 DEF Story
<1> QED
  BY <1>3, <1>4 DEF GenerateTest

LEMMA PreflightKeeps ==
  ASSUME Story, Preflight
  PROVE  Story'
<1>1. /\ pc = "preflight" /\ stage = "test_generation" /\ Len(records) = 5
      /\ UNCHANGED <<stage, first, second, live, unsaid, target, worlds, cancelled>>
      /\ DOMAIN first = Mutations /\ Scored(first) /\ events # <<>> /\ target # Nobody
      /\ stage \in Stages
  BY DEF Preflight, Story, Standing, Gathered, Targeted, RunTypes
<1>2. Len(records) + 2 <= Len(Working) /\ stage = Working[Len(records) + 2]
  BY <1>1, NextToClose
<1>3. CASE /\ held' = held \cup {"candidate"} /\ Emit("candidate.ready", stage, target)
           /\ Close(stage, "ok") /\ Proceed("verification")
  <2>1. "candidate.ready" \in EventTypes /\ target \in Mutations \cup {Nobody}
    BY DEF EventTypes, Story, DataTypes, Survived, With
  <2>2. events' \in Seq(Event) /\ Numbered' /\ events' # <<>>
    BY <1>1, <1>3, <2>1, Payloads, Emits DEF Emit, Story, DataTypes
  <2>3. /\ records' \in Seq([stage : WorkingStages, status : {"ok", "terminal", "failed"}])
        /\ Len(records') = Len(records) + 1 /\ Closed'
    BY <1>2, <1>3, Closes
  <2>4. Len(records') = 6
    BY <1>1, <2>3
  <2>5. pc' = "verification" /\ UNCHANGED stop
    BY <1>3 DEF Proceed
  <2>6. RunTypes' /\ Standing' /\ Stopped' /\ NeverRaises'
    BY <1>1, <2>3, <2>4, <2>5 DEF Story, RunTypes, Standing, Stopped, NeverRaises, Ended
  <2>7. DataTypes'
    BY <1>1, <1>3, <2>2 DEF Story, DataTypes, Evidence, Survived, With
  <2>8. Gathered'
    BY <1>1, <2>2, <2>5
    DEF Gathered, BeforeTarget, Targeted, Scored, ValidTotal, Killed, Survived, With
  <2> QED
    BY <2>2, <2>3, <2>6, <2>7, <2>8 DEF Story
<1>4. CASE /\ \/ StopRun(stage, "rejected", "CANDIDATE_INVALID")
              \/ StopRun(stage, "inconclusive", "PREFLIGHT_UNAVAILABLE")
              \/ /\ stop' = [state |-> "failed", reason |-> "UNEXPECTED_ERROR"]
                 /\ pc' = "finish"
                 /\ Close(stage, "failed")
           /\ UNCHANGED <<held, events>>
  <2>1. PICK state \in TerminalStages, status \in {"ok", "terminal", "failed"},
             reason \in {"CANDIDATE_INVALID", "PREFLIGHT_UNAVAILABLE", "UNEXPECTED_ERROR"} :
          /\ reason \in Reasons[state]
          /\ Close(stage, status) /\ pc' = "finish" /\ stage' = stage
          /\ stop' = [state |-> state, reason |-> reason]
    BY <1>1, <1>4 DEF StopRun, TerminalStages, Reasons
  <2>2. Justified'
    BY <2>1 DEF Justified
  <2>3. Halted'
    BY <1>2, <2>1, <2>2, Halts
  <2>4. DataTypes' /\ Numbered'
    BY <1>1, <1>4 DEF Story, DataTypes, Numbered, Survived, With
  <2> QED
    BY <1>1, <1>4, <2>3, <2>4, HaltedStory
<1> QED
  BY <1>3, <1>4 DEF Preflight

\* The verdict on the two worlds is announced before it is acted on.
LEMMA VerifyKeeps ==
  ASSUME Story, Verify
  PROVE  Story'
<1>1. /\ pc = "verification" /\ stage' = "verification" /\ Len(records) = 6
      /\ UNCHANGED <<first, second, live, unsaid, target, cancelled>>
      /\ DOMAIN first = Mutations /\ Scored(first) /\ events # <<>> /\ target # Nobody
      /\ "verification" \in Stages
  BY StageNames DEF Verify, Transition, Story, Standing, Gathered, Targeted, Stages
<1>2. Len(records) + 2 <= Len(Working) /\ stage' = Working[Len(records) + 2]
      /\ Working[Len(records) + 2] = "verification"
  BY <1>1, NextToClose
<1>3. CASE /\ Fail("verification", "WORLD_INCONSISTENT") /\ UNCHANGED <<held, worlds, events>>
  <2>1. Halted'
    BY <1>1, <1>2, <1>3, FailHalts DEF Reasons
  <2>2. DataTypes' /\ Numbered'
    BY <1>1, <1>3 DEF Story, DataTypes, Numbered, Survived, With
  <2> QED
    BY <1>1, <1>3, <2>1, <2>2, HaltedStory
<1>4. CASE /\ worlds' \in [original : Seen, mutant : Seen]
           /\ held' = held \cup {"verification"}
           /\ EmitWith("verification.completed", "verification", target, worlds')
           /\ Judge(worlds')
  <2>1. /\ "verification.completed" \in EventTypes /\ target \in Mutations \cup {Nobody}
        /\ worlds' \in Payload
    BY <1>4, Payloads DEF EventTypes, Story, DataTypes, Survived, With
  <2>2. events' \in Seq(Event) /\ Numbered' /\ events' # <<>>
    BY <1>1, <1>4, <2>1, Emits DEF Story, DataTypes
  <2>3. DataTypes'
    BY <1>1, <1>4, <2>2 DEF Story, DataTypes, Evidence, Survived, With
  <2>4. CASE /\ Verdict(worlds') = "verified" /\ Close("verification", "ok")
             /\ Proceed("rescoring")
    <3>1. /\ records' \in Seq([stage : WorkingStages, status : {"ok", "terminal", "failed"}])
          /\ Len(records') = Len(records) + 1 /\ Closed'
      BY <1>2, <2>4, Closes
    <3>2. Len(records') = 7
      BY <1>1, <3>1
    <3>3. pc' = "rescoring" /\ UNCHANGED stop
      BY <2>4 DEF Proceed
    <3>4. RunTypes' /\ Standing' /\ Stopped' /\ NeverRaises'
      BY <1>1, <3>1, <3>2, <3>3 DEF Story, RunTypes, Standing, Stopped, NeverRaises, Ended
    <3>5. Gathered'
      BY <1>1, <1>4, <2>2, <2>4, <3>3
      DEF Gathered, BeforeTarget, Targeted, Scored, ValidTotal, Killed, Survived, With, Verdict
    <3> QED
      BY <2>2, <2>3, <3>1, <3>4, <3>5 DEF Story
  <2>5. CASE /\ Verdict(worlds') = "rejected"
             /\ StopRun("verification", "rejected", "CANDIDATE_FAILED_ORIGINAL")
    <3>1. /\ Close("verification", "terminal") /\ pc' = "finish"
          /\ stop' = [state |-> "rejected", reason |-> "CANDIDATE_FAILED_ORIGINAL"]
          /\ worlds'.original = "TEST_FAIL"
      BY <2>5 DEF StopRun, Verdict
    <3>2. Justified'
      BY <3>1 DEF Justified
    <3>3. Halted'
      BY <1>1, <1>2, <3>1, <3>2, Halts DEF TerminalStages, Reasons
    <3> QED
      BY <2>2, <2>3, <3>3, HaltedStory
  <2>6. CASE /\ Verdict(worlds') = "inconclusive"
             /\ StopRun("verification", "inconclusive",
                        IF worlds'.original = "PASS" THEN "MUTANT_NOT_KILLED"
                                                     ELSE "VERIFICATION_INCONCLUSIVE")
    <3>1. PICK reason \in {"MUTANT_NOT_KILLED", "VERIFICATION_INCONCLUSIVE"} :
            /\ Close("verification", "terminal") /\ pc' = "finish"
            /\ stop' = [state |-> "inconclusive", reason |-> reason]
            /\ IF reason = "MUTANT_NOT_KILLED"
               THEN worlds'.original = "PASS" /\ worlds'.mutant # "TEST_FAIL"
               ELSE worlds'.original \notin {"PASS", "TEST_FAIL"}
      BY <2>6 DEF StopRun, Verdict
    <3>2. Justified'
      BY <3>1 DEF Justified
    <3>3. Halted'
      BY <1>1, <1>2, <3>1, <3>2, Halts DEF TerminalStages, Reasons
    <3> QED
      BY <2>2, <2>3, <3>3, HaltedStory
  <2> QED
    BY <1>4, <2>4, <2>5, <2>6 DEF Judge
<1> QED
  BY <1>3, <1>4 DEF Verify

\* A replay is a success exactly if it confirms the kill and loses none.
LEMMA RescoreReturnsKeeps ==
  ASSUME Story, RescoreReturns
  PROVE  Story'
<1>1. /\ pc = "replay" /\ stage = "rescoring" /\ Len(records) = 7 /\ DOMAIN second = Mutations
      /\ held' = held \cup {"rescore"}
      /\ UNCHANGED <<stage, first, second, live, unsaid, target, worlds, cancelled>>
      /\ DOMAIN first = Mutations /\ Scored(first) /\ events # <<>> /\ target # Nobody
      /\ "verification" \in held /\ Verdict(worlds) = "verified"
      /\ EmitWith("rescore.completed", "rescoring", target, Comparison)
  BY DEF RescoreReturns, Story, Standing, Gathered, Targeted
<1>2. Len(records) + 2 <= Len(Working) /\ stage' = Working[Len(records) + 2]
      /\ Working[Len(records) + 2] = "rescoring"
  BY <1>1, NextToClose
<1>3. Comparison \in Payload
  <2>1. Direction \in Directions
    BY DEF Direction, Directions
  <2>2. Counts(first) \in Score /\ Counts(second) \in Score
    BY Counted DEF Story, DataTypes
  <2> QED
    BY <2>1, <2>2, Payloads DEF Comparison
<1>4. /\ "rescore.completed" \in EventTypes /\ "rescoring" \in Stages
      /\ target \in Mutations \cup {Nobody}
  BY StageNames DEF EventTypes, Stages, Story, DataTypes, Survived, With
<1>5. events' \in Seq(Event) /\ Numbered' /\ events' # <<>>
  BY <1>1, <1>3, <1>4, Emits DEF Story, DataTypes
<1>6. DataTypes'
  BY <1>1, <1>5 DEF Story, DataTypes, Evidence, Survived, With
<1>7. Confirmed' = Confirmed /\ Scored(first)'
  BY <1>1 DEF Confirmed, NewlySurvived, Scored, ValidTotal, Killed, Survived, With
<1>8. target \in Survived(first)
  BY <1>1 DEF Story, DataTypes
<1>9. CASE Confirmed /\ Succeed
  <2>1. /\ Close("rescoring", "ok") /\ pc' = "finish"
        /\ stop' = [state |-> "verified", reason |-> "VERIFIED"]
    BY <1>9 DEF Succeed
  <2>2. {"verification", "rescore"} \subseteq held' /\ Verdict(worlds)' = "verified"
    BY <1>1 DEF Verdict
  <2>3. Justified'
    BY <1>1, <1>7, <1>9, <2>1, <2>2 DEF Justified
  <2>4. "verified" \in TerminalStages /\ "VERIFIED" \in Reasons["verified"]
    BY DEF TerminalStages, Reasons
  <2>5. Halted'
    BY <1>1, <1>2, <2>1, <2>3, <2>4, Halts
  <2> QED
    BY <1>5, <1>6, <2>5, HaltedStory
<1>10. CASE ~Confirmed /\ StopRun("rescoring", "inconclusive", "RESCORE_INCONSISTENT")
  <2>1. /\ Close("rescoring", "terminal") /\ pc' = "finish"
        /\ stop' = [state |-> "inconclusive", reason |-> "RESCORE_INCONSISTENT"]
    BY <1>10 DEF StopRun
  <2>2. target' \in Survived(first)'
    BY <1>1, <1>8 DEF Survived, With
  <2>3. Justified'
    BY <1>1, <1>7, <1>10, <2>1, <2>2 DEF Justified
  <2>4. "inconclusive" \in TerminalStages /\ "RESCORE_INCONSISTENT" \in Reasons["inconclusive"]
    BY DEF TerminalStages, Reasons
  <2>5. Halted'
    BY <1>1, <1>2, <2>1, <2>3, <2>4, Halts
  <2> QED
    BY <1>5, <1>6, <2>5, HaltedStory
<1> QED
  BY <1>9, <1>10 DEF RescoreReturns

\* The result passes its own validation.
LEMMA FinishKeeps ==
  ASSUME Story, Finish
  PROVE  Story' /\ pc' = "returned"
<1> DEFINE type == IF stop.state = "failed" THEN "run.failed" ELSE "run.completed"
<1>1. /\ pc = "finish" /\ stage' = stop.state
      /\ EmitWith(type, stop.state, Nobody, stop)
      /\ UNCHANGED <<records, stop, held, first, second, live, unsaid, target, worlds, cancelled>>
  BY DEF Finish, Transition, dataVars
<1>2. /\ stop = [state |-> stop.state, reason |-> stop.reason]
      /\ stop.state \in TerminalStages /\ stop.reason \in Reasons[stop.state] /\ Justified
  BY <1>1 DEF Story, Stopped
<1>3. type \in EventTypes /\ stop.state \in Stages /\ stop \in Payload
  BY <1>2, Payloads DEF EventTypes, Stages
<1>4. events' \in Seq(Event) /\ Numbered' /\ events' # <<>>
  BY <1>1, <1>3, Emits DEF Story, DataTypes
<1>5. events'[Len(events')].stage = stop.state /\ events'[Len(events')].type = type
  <2>1. PICK ev : ev.stage = stop.state /\ ev.type = type /\ events' = Append(events, ev)
    BY <1>1 DEF EmitWith
  <2>2. Len(events') = Len(events) + 1 /\ events'[Len(events) + 1] = ev
    <3>1. events \in Seq(Event) \cup Seq({ev}) /\ Len(events) \in Nat
      BY LenProperties DEF Story, DataTypes
    <3>2. events \in Seq(Event \cup {ev})
      BY SeqMonotonic DEF Story, DataTypes
    <3> QED
      BY <2>1, <3>2, AppendProperties
  <2> QED
    BY <2>1, <2>2
<1>6. \A i \in 1..(Len(records) - 1) :
        Position(records[i].stage) < Position(records[i + 1].stage)
  <2> SUFFICES ASSUME NEW i \in 1..(Len(records) - 1)
      PROVE  Position(records[i].stage) < Position(records[i + 1].stage)
    OBVIOUS
  <2>1. Len(records) \in Nat
    BY LenProperties DEF Story, RunTypes
  <2>2. i \in 1..Len(records) /\ i + 1 \in 1..Len(records)
    BY <2>1
  <2>3. /\ i < Len(Working) /\ records[i].stage = Working[i + 1]
        /\ i + 1 < Len(Working) /\ records[i + 1].stage = Working[(i + 1) + 1]
    BY <2>2 DEF Story, Closed
  <2>4. i + 1 \in 1..Len(Working) /\ (i + 1) + 1 \in 1..Len(Working)
    BY <2>1, <2>3, StageNames
  <2>5. Position(records[i].stage) = i + 1 /\ Position(records[i + 1].stage) = (i + 1) + 1
    BY <2>3, <2>4, Positions
  <2> QED
    BY <2>1, <2>5
<1>7. stop.state = "verified" =>
        /\ "verification" \in held /\ Verdict(worlds) = "verified"
        /\ "rescore" \in held /\ Confirmed
  <2>1. stop.state = "verified" => stop.reason = "VERIFIED"
    BY <1>2 DEF Reasons
  <2> QED
    BY <1>2, <2>1 DEF Justified
<1>8. Coherent(stop.state, events')
  BY <1>2, <1>4, <1>5, <1>6, <1>7 DEF Coherent, Numbered
<1>9. pc' = "returned"
  BY <1>8 DEF Finish
<1>10. RunTypes' /\ Standing' /\ Closed' /\ NeverRaises'
  BY <1>1, <1>3, <1>9 DEF Story, RunTypes, Standing, Closed, NeverRaises, Ended
<1>11. Stopped'
  <2>1. Justified'
    BY <1>1, <1>2 DEF Justified, Confirmed, NewlySurvived, Scored, ValidTotal, Killed, Survived, With,
                      Verdict
  <2> QED
    BY <1>1, <1>2, <1>9, <2>1 DEF Stopped, Ended
<1>12. DataTypes' /\ Gathered'
  BY <1>1, <1>4, <1>9
  DEF Story, DataTypes, Gathered, BeforeTarget, Targeted, Survived, With
<1> QED
  BY <1>4, <1>9, <1>10, <1>11, <1>12 DEF Story

\* Cancelling touches nothing but the jobs that have not reached the executor.
LEMMA CancelKeeps ==
  ASSUME Story, Cancel
  PROVE  Story'
<1>1. /\ cancelled' = TRUE /\ live' \subseteq live /\ pc \notin {"finish", "returned", "raised"}
      /\ UNCHANGED <<pc, stage, events, records, stop, held, first, second, unsaid, target, worlds>>
  BY DEF Cancel, recordVars
<1>2. RunTypes' /\ Standing' /\ Closed' /\ Numbered' /\ NeverRaises' /\ Stopped'
  BY <1>1 DEF Story, RunTypes, Standing, Closed, Numbered, NeverRaises, Stopped, Ended
<1>3. DataTypes' /\ Gathered'
  BY <1>1 DEF Story, DataTypes, Gathered, BeforeTarget, Targeted, Scored, ValidTotal, Killed,
              Survived, With, Verdict
<1> QED
  BY <1>2, <1>3 DEF Story

LEMMA StoryStays ==
  ASSUME Story, UNCHANGED vars
  PROVE  Story'
<1>1. UNCHANGED <<pc, stage, events, records, stop, held, first, second, live, unsaid, target,
                  worlds, cancelled>>
  BY DEF vars, recordVars, dataVars
<1>2. RunTypes' /\ Standing' /\ Closed' /\ Numbered' /\ NeverRaises' /\ Stopped'
  <2>1. Justified' = Justified
    BY <1>1 DEF Justified, Confirmed, NewlySurvived, Scored, ValidTotal, Killed, Survived, With,
                Verdict
  <2> QED
    BY <1>1, <2>1 DEF Story, RunTypes, Standing, Closed, Numbered, NeverRaises, Stopped, Ended
<1>3. DataTypes' /\ Gathered'
  BY <1>1 DEF Story, DataTypes, Gathered, BeforeTarget, Targeted, Scored, ValidTotal, Killed,
              Survived, With, Verdict
<1> QED
  BY <1>2, <1>3 DEF Story

LEMMA StoryStarts == Init => Story
<1> SUFFICES ASSUME Init PROVE Story
  OBVIOUS
<1>1. /\ pc = "start" /\ stage = "created" /\ events = <<>> /\ records = <<>> /\ stop = NoStop
      /\ held = {} /\ first = EmptyPass /\ second = EmptyPass /\ live = {} /\ unsaid = {}
      /\ target = Nobody /\ worlds = NotRun /\ cancelled \in BOOLEAN
  BY CancelAssumption DEF Init
<1>2. /\ events \in Seq(Event) /\ Len(events) = 0
      /\ records \in Seq([stage : WorkingStages, status : {"ok", "terminal", "failed"}])
      /\ Len(records) = 0
  BY <1>1, EmptySeq
<1>3. DOMAIN EmptyPass = {} /\ EmptyPass \in [{} -> Statuses] /\ Survived(EmptyPass) = {}
  BY DEF EmptyPass, Survived, With
<1>4. DataTypes
  BY <1>1, <1>2, <1>3 DEF DataTypes
<1>5. RunTypes
  BY <1>1, <1>2, StageNames DEF RunTypes, Stages
<1>6. Standing /\ Closed /\ Numbered /\ Gathered /\ Stopped /\ NeverRaises
  BY <1>1, <1>2
  DEF Standing, Closed, Numbered, Gathered, BeforeTarget, Targeted, Stopped, NeverRaises, Ended
<1> QED
  BY <1>4, <1>5, <1>6 DEF Story

LEMMA StoryStep == Story /\ [Next]_vars => Story'
<1> SUFFICES ASSUME Story, [Next]_vars PROVE Story'
  OBVIOUS
<1>1. CASE Start
  BY <1>1, StartKeeps
<1>2. CASE Baseline \/ Context \/ Planning
  BY <1>2, PreparationsKeep
<1>3. CASE FirstPass
  BY <1>3, FirstPassKeeps
<1>4. CASE FirstPassFails \/ RescoreFails
  BY <1>4, FanOutFailsKeeps
<1>5. CASE FirstPassReturns
  BY <1>5, FirstPassReturnsKeeps
<1>6. CASE SelectTarget
  BY <1>6, SelectTargetKeeps
<1>7. CASE AnnounceAnalysis
  BY <1>7, AnnounceAnalysisKeeps
<1>8. CASE AnnounceTarget
  BY <1>8, AnnounceTargetKeeps
<1>9. CASE GenerateTest
  BY <1>9, GenerateTestKeeps
<1>10. CASE Preflight
  BY <1>10, PreflightKeeps
<1>11. CASE Verify
  BY <1>11, VerifyKeeps
<1>12. CASE Rescore
  BY <1>12, RescoreKeeps
<1>13. CASE RescoreReturns
  BY <1>13, RescoreReturnsKeeps
<1>14. CASE \E m \in Mutations : MutationCompleted(m) \/ RescoreMutationCompleted(m)
  BY <1>14, MutationCompletedKeeps, RescoreMutationCompletedKeeps
<1>15. CASE Finish
  BY <1>15, FinishKeeps
<1>16. CASE Cancel
  BY <1>16, CancelKeeps
<1>17. CASE UNCHANGED vars
  BY <1>17, StoryStays
<1> QED
  BY <1>1, <1>2, <1>3, <1>4, <1>5, <1>6, <1>7, <1>8, <1>9, <1>10, <1>11, <1>12, <1>13, <1>14, <1>15,
     <1>16, <1>17 DEF Next, Run

-----------------------------------------------------------------------------
(* What follows of a run. *)

\* Where run_perjury stands, what it has closed and gathered, and what it
\* stopped for, agree after every step.
THEOREM StoryInvariant == Spec => []Story
BY StoryStarts, StoryStep, PTL DEF Spec

\* Every variable keeps its type, a reason always belongs to its terminal state,
\* and the target is a survivor of the first pass.
THEOREM TypesHold == Spec => []TypeOK
<1>1. Story => TypeOK
  BY DEF Story, RunTypes, DataTypes, TypeOK
<1> QED
  BY <1>1, StoryInvariant, PTL

\* run_perjury returns a result for whatever its stages come to: none it builds
\* fails result_must_be_coherent.
THEOREM ResultsAreCoherent == Spec => []NeverRaises
<1>1. Story => NeverRaises
  BY DEF Story
<1> QED
  BY <1>1, StoryInvariant, PTL

\* No mutation counts for a pass that has no valid outcome, and one does for a
\* pass that has.
LEMMA ScoredPasses ==
  ASSUME NEW pass, DOMAIN pass \subseteq Mutations
  PROVE  Scored(pass) <=> (Killed(pass) # {} \/ Survived(pass) # {})
<1>1. /\ IsFiniteSet(Killed(pass)) /\ Cardinality(Killed(pass)) \in Nat
      /\ IsFiniteSet(Survived(pass)) /\ Cardinality(Survived(pass)) \in Nat
  BY Counted, FS_CardinalityType DEF Killed, Survived
<1>2. /\ Cardinality(Killed(pass)) = 0 <=> Killed(pass) = {}
      /\ Cardinality(Survived(pass)) = 0 <=> Survived(pass) = {}
  BY <1>1, FS_EmptySet
<1> QED
  BY <1>1, <1>2 DEF Scored, ValidTotal

\* The terminal state and its reason are what the two passes and the two worlds
\* say, for a batch of any size.
THEOREM EndingsAreJustified == Spec => []JustifiedEnding
<1>1. ASSUME Story, pc = "returned" PROVE JustifiedEnding
  <2>1. /\ Justified /\ stop.state \in TerminalStages /\ stop.reason \in Reasons[stop.state]
        /\ DOMAIN first \subseteq Mutations /\ DOMAIN second \subseteq Mutations
        /\ worlds \in [original : Seen, mutant : Seen] \cup {NotRun}
    BY <1>1 DEF Story, Stopped, DataTypes, Ended
  <2>2. CASE stop.reason = "VERIFIED"
    <3>1. worlds = [original |-> "PASS", mutant |-> "TEST_FAIL"]
      <4>1. worlds.original = "PASS" /\ worlds.mutant = "TEST_FAIL"
        BY <2>1, <2>2 DEF Justified, Verdict
      <4> QED
        BY <2>1, <4>1 DEF NotRun
    <3>2. /\ first[target] = "SURVIVED" /\ second[target] = "KILLED"
          /\ \A m \in Mutations : first[m] = "KILLED" => second[m] # "SURVIVED"
      BY <2>1, <2>2 DEF Justified, Confirmed, NewlySurvived, Killed, Survived, With
    <3> QED
      BY <2>2, <3>1, <3>2 DEF JustifiedEnding
  <2>3. CASE stop.reason = "RESCORE_INCONSISTENT"
    BY <2>1, <2>3
    DEF Justified, JustifiedEnding, Confirmed, NewlySurvived, Killed, Survived, With
  <2>4. CASE stop.reason = "NO_VALID_MUTATION_OUTCOMES"
    <3>1. DOMAIN first = Mutations /\ Killed(first) = {} /\ Survived(first) = {}
      BY <2>1, <2>4, ScoredPasses DEF Justified
    <3> QED
      BY <2>4, <3>1 DEF JustifiedEnding, Killed, Survived, With
  <2>5. CASE stop.reason = "NO_ACTIONABLE_SURVIVOR"
    <3>1. DOMAIN first = Mutations /\ Killed(first) # {} /\ Survived(first) = {}
      BY <2>1, <2>5, ScoredPasses DEF Justified
    <3> QED
      BY <2>5, <3>1 DEF JustifiedEnding, Killed, Survived, With
  <2>6. CASE stop.reason = "ALL_POSSIBLY_EQUIVALENT"
    <3>1. DOMAIN first = Mutations /\ Survived(first) # {}
      BY <2>1, <2>6 DEF Justified
    <3> QED
      BY <2>6, <3>1 DEF JustifiedEnding, Survived, With
  <2>7. CASE stop.reason \in {"CANDIDATE_FAILED_ORIGINAL", "MUTANT_NOT_KILLED",
                              "VERIFICATION_INCONCLUSIVE"}
    BY <2>1, <2>7 DEF Justified, JustifiedEnding
  <2>8. CASE stop.reason \notin {"VERIFIED", "CANDIDATE_FAILED_ORIGINAL", "MUTANT_NOT_KILLED",
                                "VERIFICATION_INCONCLUSIVE", "RESCORE_INCONSISTENT",
                                "NO_VALID_MUTATION_OUTCOMES", "NO_ACTIONABLE_SURVIVOR",
                                "ALL_POSSIBLY_EQUIVALENT"}
    BY <2>8 DEF JustifiedEnding
  <2> QED
    BY <2>2, <2>3, <2>4, <2>5, <2>6, <2>7, <2>8
<1>2. Story => JustifiedEnding
  BY <1>1 DEF JustifiedEnding
<1> QED
  BY <1>2, StoryInvariant, PTL

\* Of two passes of a batch that exclude the same mutants, the one that kills
\* all the other kills and one more has the better score.
LEMMA BetterPass ==
  ASSUME DOMAIN first = Mutations, first \in [Mutations -> Statuses],
         DOMAIN second = Mutations, second \in [Mutations -> Statuses],
         Excluded(second) = Excluded(first), Scored(first), Confirmed
  PROVE  Killed(first) \subseteq Killed(second) /\ Direction = "improved"
<1>1. /\ Killed(first) \subseteq Mutations /\ Survived(first) \subseteq Mutations
      /\ Killed(second) \subseteq Mutations /\ Survived(second) \subseteq Mutations
      /\ Killed(first) \cap Survived(first) = {} /\ Killed(second) \cap Survived(second) = {}
      /\ Killed(first) \cup Survived(first) = Mutations \ Excluded(first)
      /\ Killed(second) \cup Survived(second) = Mutations \ Excluded(second)
  BY DEF Killed, Survived, Excluded, With, Statuses
<1>2. Killed(first) \subseteq Killed(second)
  BY <1>1 DEF Confirmed, NewlySurvived
<1>3. target \in Killed(second) /\ target \notin Killed(first)
  BY <1>1 DEF Confirmed
<1>4. /\ \A S : /\ IsFiniteSet(With(first, S)) /\ IsFiniteSet(With(second, S))
             /\ Cardinality(With(first, S)) \in Nat /\ Cardinality(With(second, S)) \in Nat
  BY Counted, FS_CardinalityType
<1>5. Cardinality(Killed(first)) < Cardinality(Killed(second))
  <2>1. /\ IsFiniteSet(Killed(second)) /\ Cardinality(Killed(first)) \in Nat
        /\ Cardinality(Killed(second)) \in Nat
    BY <1>4 DEF Killed
  <2>2. /\ Cardinality(Killed(first)) <= Cardinality(Killed(second))
        /\ Cardinality(Killed(first)) = Cardinality(Killed(second)) => Killed(first) = Killed(second)
    BY <1>2, <2>1, FS_Subset
  <2> QED
    BY <1>3, <2>1, <2>2
<1>6. ValidTotal(second) = ValidTotal(first)
  <2>1. /\ IsFiniteSet(Killed(first)) /\ IsFiniteSet(Survived(first))
        /\ IsFiniteSet(Killed(second)) /\ IsFiniteSet(Survived(second))
    BY <1>4 DEF Killed, Survived
  <2>2. Cardinality({}) = 0
    BY FS_EmptySet
  <2>3. /\ Cardinality(Killed(first) \cup Survived(first)) = ValidTotal(first)
    <3>1. Cardinality(Killed(first) \cup Survived(first))
            = Cardinality(Killed(first)) + Cardinality(Survived(first)) - Cardinality({})
      BY <1>1, <2>1, FS_Union
    <3> QED
      BY <1>4, <2>2, <3>1 DEF ValidTotal, Killed, Survived
  <2>4. Cardinality(Killed(second) \cup Survived(second)) = ValidTotal(second)
    <3>1. Cardinality(Killed(second) \cup Survived(second))
            = Cardinality(Killed(second)) + Cardinality(Survived(second)) - Cardinality({})
      BY <1>1, <2>1, FS_Union
    <3> QED
      BY <1>4, <2>2, <3>1 DEF ValidTotal, Killed, Survived
  <2> QED
    BY <1>1, <2>3, <2>4
<1>7. Direction = "improved"
  <2>1. Scored(second)
    BY <1>6 DEF Scored
  <2>2. \A a, b, t \in Nat : a < b /\ t > 0 => b * t - a * t > 0
    <3>1. SUFFICES ASSUME NEW a \in Nat, NEW b \in Nat, NEW t \in Nat, a < b, t > 0
                   PROVE  b * t - a * t > 0
      OBVIOUS
    <3>2. b * t - a * t = (b - a) * t
      OBVIOUS
    <3>3. PICK d \in Nat : d = b - a /\ d > 0
      BY <3>1
    <3>4. d * t > 0
      BY <3>1, <3>3
    <3> QED
      BY <3>2, <3>3, <3>4
  <2>3. /\ Cardinality(Killed(first)) \in Nat /\ Cardinality(Killed(second)) \in Nat
        /\ ValidTotal(first) \in Nat /\ ValidTotal(first) > 0
    BY <1>4 DEF ValidTotal, Scored, Killed, Survived
  <2>4. Cardinality(Killed(second)) * ValidTotal(first)
          - Cardinality(Killed(first)) * ValidTotal(second) > 0
    BY <1>5, <1>6, <2>2, <2>3
  <2> QED
    BY <2>1, <2>4 DEF Direction
<1> QED
  BY <1>2, <1>7

\* A verified run keeps every kill and raises the score whenever the replay
\* executed the same mutants.
THEOREM VerifiedRunsImprove == Spec => []VerifiedImproves
<1>1. Story => VerifiedImproves
  <2> SUFFICES ASSUME Story, stop.state = "verified", Excluded(second) = Excluded(first)
               PROVE  Killed(first) \subseteq Killed(second) /\ Direction = "improved"
    BY DEF VerifiedImproves
  <2>1. pc \in {"finish"} \cup Ended
    BY DEF Story, Stopped, NoStop
  <2>2. stop.reason = "VERIFIED" /\ Justified
    BY <2>1 DEF Story, Stopped, Reasons
  <2>3. /\ DOMAIN first = Mutations /\ first \in [Mutations -> Statuses]
        /\ DOMAIN second = Mutations /\ second \in [Mutations -> Statuses]
        /\ Scored(first) /\ Confirmed
    BY <2>2 DEF Justified, Story, DataTypes
  <2> QED
    BY <2>3, BetterPass
<1> QED
  BY <1>1, StoryInvariant, PTL

-----------------------------------------------------------------------------
(* A cancelled run. *)

\* A run whose cancellation was seen before the replay started: nothing of the
\* batch is killed in the replay, so the kill is never confirmed.
Doomed ==
  /\ cancelled
  /\ \/ pc \in {"verification", "rescoring"}
     \/ /\ pc = "replay"
        /\ live = {} /\ \A m \in DOMAIN second : second[m] \in {"INVALID", "INFRA_ERROR"}
     \/ pc \in {"finish"} \cup Ended /\ stop.state # "verified"

LEMMA DoomedStep == Story /\ Doomed /\ [Next]_vars => Doomed'
<1> SUFFICES ASSUME Story, Doomed, [Next]_vars PROVE Doomed'
  OBVIOUS
<1>1. ASSUME NEW s, NEW reason, Fail(s, reason), UNCHANGED cancelled PROVE Doomed'
  BY <1>1 DEF Fail, StopRun, Doomed
<1>2. CASE Verify
  <2>1. UNCHANGED cancelled
    BY <1>2 DEF Verify
  <2>2. CASE Fail("verification", "WORLD_INCONSISTENT")
    BY <1>1, <2>1, <2>2
  <2>3. CASE Judge(worlds')
    BY <2>1, <2>3 DEF Judge, Proceed, StopRun, Doomed
  <2> QED
    BY <1>2, <2>2, <2>3 DEF Verify
<1>3. CASE Rescore
  <2>1. /\ cancelled /\ pc' = "replay" /\ second' \in Unexecuted /\ UNCHANGED cancelled
        /\ live' = {}
    BY <1>3 DEF Rescore, FanOut, Proceed, Doomed
  <2>2. \A m \in DOMAIN second' : second'[m] = "INVALID"
    BY <2>1 DEF Unexecuted
  <2> QED
    BY <2>1, <2>2 DEF Doomed
<1>4. CASE RescoreFails
  BY <1>1, <1>4 DEF RescoreFails, FanOutFails
<1>5. CASE RescoreReturns
  <2>1. pc = "replay" /\ UNCHANGED cancelled
    BY <1>5 DEF RescoreReturns
  <2>2. ~Confirmed
    BY <2>1 DEF Doomed, Confirmed, Killed, With, Ended
  <2> QED
    BY <1>5, <2>1, <2>2 DEF RescoreReturns, StopRun, Doomed
<1>6. ASSUME NEW m \in Mutations, RescoreMutationCompleted(m) PROVE Doomed'
  <2>1. pc = "replay" /\ UNCHANGED <<pc, live, cancelled, stop>>
    BY <1>6 DEF RescoreMutationCompleted
  <2>2. live = {}
    BY <2>1 DEF Doomed, Ended
  <2>3. Results(m) = {"INFRA_ERROR"}
    BY <2>2 DEF Results, StatusOf, Outcomes
  <2>4. second' = [i \in DOMAIN second \cup {m} |-> IF i = m THEN "INFRA_ERROR" ELSE second[i]]
    BY <1>6, <2>3 DEF RescoreMutationCompleted
  <2> QED
    BY <2>1, <2>4 DEF Doomed, Ended
<1>7. CASE Finish
  BY <1>7 DEF Finish, Doomed, Ended
<1>8. CASE Cancel
  BY <1>8 DEF Cancel, Doomed
<1>9. CASE UNCHANGED vars
  BY <1>9 DEF vars, recordVars, dataVars, Doomed
<1>10. CASE \/ Start \/ Baseline \/ Context \/ Planning \/ FirstPass \/ FirstPassFails
            \/ FirstPassReturns \/ SelectTarget \/ AnnounceAnalysis \/ AnnounceTarget
            \/ GenerateTest \/ Preflight \/ \E m \in Mutations : MutationCompleted(m)
  BY <1>10
  DEF Doomed, Ended, Start, Baseline, Context, Planning, Prepare, FirstPass, FanOut, FirstPassFails,
      FanOutFails, FirstPassReturns, SelectTarget, AnnounceAnalysis, AnnounceTarget, GenerateTest,
      Preflight, MutationCompleted
<1> QED
  BY <1>2, <1>3, <1>4, <1>5, <1>6, <1>7, <1>8, <1>9, <1>10 DEF Next, Run

\* A run cancelled before its replay starts is not reported as verified at any
\* time after, although verification itself is not given the cancel_event.
THEOREM CancellationIsHonoured == Spec => CancelledIsNotVerified
<1>1. cancelled /\ pc \in {"verification", "rescoring"} => Doomed
  BY DEF Doomed
<1>2. Story /\ Doomed => stage # "verified"
  <2> SUFFICES ASSUME Story, Doomed PROVE stage # "verified"
    OBVIOUS
  <2>1. "verified" \notin WorkingStages
    BY StageNames
  <2>2. CASE pc \in {"verification", "rescoring", "replay"}
    BY <2>2 DEF Story, Standing
  <2>3. CASE pc = "finish"
    BY <2>1, <2>3 DEF Story, Standing
  <2>4. CASE pc \in Ended
    BY <2>4 DEF Story, Standing, Doomed, Ended
  <2> QED
    BY <2>2, <2>3, <2>4 DEF Doomed
<1> QED
  BY <1>1, <1>2, DoomedStep, StoryInvariant, PTL DEF Spec, CancelledIsNotVerified

-----------------------------------------------------------------------------
(* The run is a RunLifecycle. *)

Kind(type) == IF type \in {"run.completed", "run.failed"} THEN type ELSE "progress"

\* The events as their consumers read them.
Shown == [i \in 1..Len(events) |->
            [kind |-> IF events[i].type \in {"run.completed", "run.failed"}
                      THEN events[i].type ELSE "progress",
             stage |-> events[i].stage]]

LEMMA ShownSequence ==
  ASSUME events \in Seq(Event), NEW S, Event \subseteq S
  PROVE  /\ events \in Seq(S) /\ Len(events) \in Nat /\ Len(Shown) = Len(events)
         /\ Shown \in Seq([kind : {Kind(e.type) : e \in S}, stage : {e.stage : e \in S}])
<1>1. events \in Seq(S) /\ Len(events) \in Nat
  BY SeqMonotonic, LenProperties
<1>2. \A i \in 1..Len(events) : events[i] \in S
  BY <1>1, ElementOfSeq
<1>3. \A i \in 1..Len(events) :
        Shown[i] \in [kind : {Kind(e.type) : e \in S}, stage : {e.stage : e \in S}]
  BY <1>2 DEF Shown, Kind
<1>4. Shown = [i \in 1..Len(events) |-> Shown[i]]
  BY DEF Shown
<1>5. Len(Shown) = Len(events)
  BY <1>1 DEF Shown
<1> HIDE DEF Shown
<1> QED
  BY <1>1, <1>3, <1>4, <1>5

\* An event is shown when it is emitted, and the ones before it as before.
LEMMA Shows ==
  ASSUME events \in Seq(Event), NEW e, events' = Append(events, e)
  PROVE  Shown' = Append(Shown, [kind |-> Kind(e.type), stage |-> e.stage])
<1> DEFINE S == Event \cup {e}
           T == [kind : {Kind(x.type) : x \in S}, stage : {x.stage : x \in S}]
           new == [kind |-> Kind(e.type), stage |-> e.stage]
<1>1. /\ events \in Seq(S) /\ Len(events) \in Nat /\ Shown \in Seq(T) /\ Len(Shown) = Len(events)
  BY ShownSequence
<1>2. new \in T /\ e \in S
  OBVIOUS
<1>3. /\ Append(Shown, new) \in Seq(T) /\ Len(Append(Shown, new)) = Len(events) + 1
      /\ \A i \in 1..Len(events) : Append(Shown, new)[i] = Shown[i]
      /\ Append(Shown, new)[Len(events) + 1] = new
  <2> HIDE DEF T, new
  <2> QED
    BY <1>1, <1>2, AppendProperties
<1>4. /\ events' \in Seq(S) /\ Len(events') = Len(events) + 1
      /\ \A i \in 1..Len(events) : events'[i] = events[i]
      /\ events'[Len(events) + 1] = e
  <2> HIDE DEF S
  <2> QED
    BY <1>1, <1>2, AppendProperties
<1>5. Shown' = [i \in 1..(Len(events) + 1) |-> Append(Shown, new)[i]]
  <2>1. ASSUME NEW i \in 1..(Len(events) + 1)
        PROVE  [kind |-> Kind(events'[i].type), stage |-> events'[i].stage] = Append(Shown, new)[i]
    <3>1. i \in 1..Len(events) \/ i = Len(events) + 1
      BY <1>1
    <3>2. CASE i \in 1..Len(events)
      BY <1>3, <1>4, <3>2 DEF Shown, Kind
    <3>3. CASE i = Len(events) + 1
      BY <1>3, <1>4, <3>3
    <3> QED
      BY <3>1, <3>2, <3>3
  <2>2. Shown' = [i \in 1..Len(events') |->
                    [kind |-> Kind(events'[i].type), stage |-> events'[i].stage]]
    BY DEF Shown, Kind
  <2> QED
    BY <1>4, <2>1, <2>2
<1>6. Append(Shown, new) = [i \in 1..(Len(events) + 1) |-> Append(Shown, new)[i]]
  BY <1>3, LenProperties
<1> QED
  BY <1>5, <1>6

LEMMA Successors ==
  /\ Lifecycle!Follows("created", "baseline")
  /\ Lifecycle!Follows("baseline", "context")
  /\ Lifecycle!Follows("context", "planning")
  /\ Lifecycle!Follows("planning", "mutation_execution")
  /\ Lifecycle!Follows("mutation_execution", "survivor_analysis")
  /\ Lifecycle!Follows("survivor_analysis", "test_generation")
  /\ Lifecycle!Follows("test_generation", "verification")
  /\ Lifecycle!Follows("verification", "rescoring")
  /\ \A s \in WorkingStages : Lifecycle!InPosition(s)
<1>1. Lifecycle!Working = Working
  BY DEF Working, Lifecycle!Working
<1>2. \A i \in 1..8 : Lifecycle!Follows(Working[i], Working[i + 1])
  <2>1. 1..8 = 1..(Len(Working) - 1)
    BY StageNames
  <2> QED
    BY <1>1, <2>1 DEF Lifecycle!Follows
<1>3. \A s \in WorkingStages : Lifecycle!InPosition(s)
  BY <1>1 DEF WorkingStages, Lifecycle!InPosition
<1>4. /\ Working[1] = "created" /\ Working[1 + 1] = "baseline"
      /\ Working[2 + 1] = "context" /\ Working[3 + 1] = "planning"
      /\ Working[4 + 1] = "mutation_execution" /\ Working[5 + 1] = "survivor_analysis"
      /\ Working[6 + 1] = "test_generation" /\ Working[7 + 1] = "verification"
      /\ Working[8 + 1] = "rescoring"
  BY StageNames
<1>5. /\ Working[2] = "baseline" /\ Working[3] = "context" /\ Working[4] = "planning"
      /\ Working[5] = "mutation_execution" /\ Working[6] = "survivor_analysis"
      /\ Working[7] = "test_generation" /\ Working[8] = "verification"
  BY StageNames
<1>6. {1, 2, 3, 4, 5, 6, 7, 8} \subseteq 1..8
  OBVIOUS
<1> QED
  BY <1>2, <1>3, <1>4, <1>5, <1>6

\* A step that emits one event, or none.
Silent == UNCHANGED events
Emitted(type, s) == \E m, data : EmitWith(type, s, m, data)

LEMMA ShowsEmitted ==
  ASSUME Story, NEW type, NEW s, Emitted(type, s)
  PROVE  Shown' = Append(Shown, [kind |-> Kind(type), stage |-> s])
<1>1. PICK e : e.type = type /\ e.stage = s /\ events' = Append(events, e)
  BY DEF Emitted, EmitWith
<1> QED
  BY <1>1, Shows DEF Story, DataTypes

LEMMA ShownAtAll ==
  ASSUME Story
  PROVE  Shown # <<>> <=> pc # "start"
<1>1. events \in Seq(Event) /\ (events = <<>> <=> pc = "start")
  BY DEF Story, DataTypes, Gathered
<1>2. Len(Shown) = Len(events)
      /\ Shown \in Seq([kind : {Kind(e.type) : e \in Event}, stage : {e.stage : e \in Event}])
  BY <1>1, ShownSequence
<1> HIDE DEF Shown
<1> QED
  BY <1>1, <1>2, EmptySeq

\* A working stage is entered.
LEMMA Enters ==
  ASSUME Story, pc # "start", Lifecycle!Follows(stage, stage'),
         NEW type, type \notin {"run.completed", "run.failed"}, Silent \/ Emitted(type, stage')
  PROVE  Lifecycle!Advance
<1>1. Shown # <<>>
  BY ShownAtAll
<1>2. Shown' \in {Shown, Append(Shown, [kind |-> "progress", stage |-> stage'])}
  <2>1. CASE Silent
    BY <2>1 DEF Silent, Shown
  <2>2. CASE Emitted(type, stage')
    BY <2>2, ShowsEmitted DEF Kind
  <2> QED
    BY <2>1, <2>2
<1> QED
  BY <1>1, <1>2 DEF Lifecycle!Advance, Shown

\* A working stage goes on.
LEMMA Reports ==
  ASSUME Story, pc # "start", stage' = stage, stage \in WorkingStages,
         NEW type, type \notin {"run.completed", "run.failed"}, Emitted(type, stage)
  PROVE  Lifecycle!Report
<1>1. Shown # <<>>
  BY ShownAtAll
<1>2. Shown' = Append(Shown, [kind |-> "progress", stage |-> stage])
  BY ShowsEmitted DEF Kind
<1> QED
  BY <1>1, <1>2, Successors DEF Lifecycle!Report, Shown

Quiet == UNCHANGED <<stage, events>>

\* What each step is to the run's consumers.
LEMMA RunIsLifecycle ==
  ASSUME Story, [Next]_vars
  PROVE  Lifecycle!Next \/ Quiet
<1> DEFINE Terminal == {"run.completed", "run.failed"}
<1>1. CASE Start
  <2>1. pc = "start" /\ stage = "created" /\ UNCHANGED stage /\ Emitted("run.started", "created")
    BY <1>1 DEF Start, Emit, Emitted, Story, Standing
  <2>2. Shown = <<>>
    BY <2>1, ShownAtAll
  <2>3. Shown' = Append(Shown, [kind |-> "progress", stage |-> "created"])
    BY <2>1, ShowsEmitted DEF Kind
  <2>4. Shown' = <<[kind |-> "progress", stage |-> "created"]>>
    BY <2>2, <2>3
  <2>5. Lifecycle!Begin
    BY <2>1, <2>2, <2>4 DEF Lifecycle!Begin, Shown
  <2> QED
    BY <2>5 DEF Lifecycle!Next
<1>2. ASSUME NEW s, NEW event \in EventTypes \ Terminal, NEW data, NEW evidence, NEW to, NEW reason,
             Prepare(s, event, data, evidence, to, reason), pc \in {"baseline", "context", "planning"}
      PROVE  Lifecycle!Next
  <2>1. pc = s /\ stage' = s /\ (Silent \/ Emitted(event, stage'))
    BY <1>2 DEF Prepare, Transition, Silent, Emitted
  <2>2. Lifecycle!Follows(stage, stage')
    BY <1>2, <2>1, Successors DEF Story, Standing
  <2> QED
    BY <1>2, <2>1, <2>2, Enters DEF Lifecycle!Next
<1>3. CASE Baseline \/ Context \/ Planning
  <2>1. {"baseline.completed", "context.completed", "plan.completed"} \subseteq EventTypes \ Terminal
    BY DEF EventTypes
  <2>2. pc \in {"baseline", "context", "planning"}
    BY <1>3 DEF Baseline, Context, Planning, Prepare
  <2> QED
    BY <1>2, <1>3, <2>1, <2>2 DEF Baseline, Context, Planning
<1>4. CASE \/ FirstPass \/ FirstPassFails \/ Rescore \/ RescoreFails \/ SelectTarget
           \/ GenerateTest \/ Verify
  <2>1. \/ /\ Lifecycle!Follows(stage, stage')
           /\ pc # "start" /\ (Silent \/ Emitted("test.proposed", stage')
                                       \/ Emitted("verification.completed", stage'))
        \/ Quiet
    <3>1. CASE FirstPass \/ Rescore
      BY <3>1, Successors DEF FirstPass, Rescore, FanOut, Transition, Silent, Story, Standing
    <3>2. CASE FirstPassFails \/ RescoreFails
      BY <3>2, Successors
      DEF FirstPassFails, RescoreFails, FanOutFails, Transition, Silent, Quiet, Story, Standing
    <3>3. CASE SelectTarget
      BY <3>3, Successors DEF SelectTarget, Transition, Silent, Story, Standing
    <3>4. CASE GenerateTest
      <4>1. stage' = "test_generation" /\ pc = "test_generation"
            /\ (Silent \/ Emitted("test.proposed", "test_generation"))
        BY <3>4 DEF GenerateTest, Transition, Silent, Emit, Emitted
      <4> QED
        BY <4>1, Successors DEF Story, Standing
    <3>5. CASE Verify
      <4>1. stage' = "verification" /\ pc = "verification"
            /\ (Silent \/ Emitted("verification.completed", "verification"))
        BY <3>5 DEF Verify, Transition, Silent, Emitted
      <4> QED
        BY <4>1, Successors DEF Story, Standing
    <3> QED
      BY <1>4, <3>1, <3>2, <3>3, <3>4, <3>5
  <2> QED
    BY <2>1, Enters DEF Lifecycle!Next
<1>5. CASE \/ FirstPassReturns \/ AnnounceAnalysis \/ AnnounceTarget \/ Preflight \/ RescoreReturns
           \/ \E m \in Mutations : MutationCompleted(m) \/ RescoreMutationCompleted(m)
  <2>1. \/ /\ stage' = stage /\ stage \in WorkingStages /\ pc # "start"
           /\ \E type \in EventTypes \ Terminal : Emitted(type, stage)
        \/ Quiet
    <3>1. /\ "mutation.completed" \in EventTypes \ Terminal
          /\ "execution.completed" \in EventTypes \ Terminal
          /\ "survivor.selected" \in EventTypes \ Terminal
          /\ "analysis.completed" \in EventTypes \ Terminal
          /\ "candidate.ready" \in EventTypes \ Terminal
          /\ "rescore.mutation.completed" \in EventTypes \ Terminal
          /\ "rescore.completed" \in EventTypes \ Terminal
      BY DEF EventTypes
    <3>2. {"mutation_execution", "survivor_analysis", "test_generation", "rescoring"}
            \subseteq WorkingStages
      BY StageNames
    <3>3. CASE FirstPassReturns
      BY <3>1, <3>2, <3>3 DEF FirstPassReturns, Emit, Emitted, Story, Standing
    <3>4. CASE AnnounceAnalysis
      BY <3>1, <3>2, <3>4 DEF AnnounceAnalysis, Emit, Emitted, Story, Standing
    <3>5. CASE AnnounceTarget
      BY <3>1, <3>2, <3>5 DEF AnnounceTarget, Emit, Emitted, Quiet, Story, Standing
    <3>6. CASE Preflight
      BY <3>1, <3>2, <3>6 DEF Preflight, Emit, Emitted, Quiet, Story, Standing
    <3>7. CASE RescoreReturns
      BY <3>1, <3>2, <3>7 DEF RescoreReturns, Emitted, Story, Standing
    <3>8. ASSUME NEW m \in Mutations, MutationCompleted(m) \/ RescoreMutationCompleted(m)
          PROVE  /\ stage' = stage /\ stage \in WorkingStages /\ pc # "start"
                 /\ \E type \in EventTypes \ Terminal : Emitted(type, stage)
      BY <3>1, <3>2, <3>8
      DEF MutationCompleted, RescoreMutationCompleted, Emit, Emitted, Story, Standing
    <3> QED
      BY <1>5, <3>3, <3>4, <3>5, <3>6, <3>7, <3>8
  <2> QED
    BY <2>1, Reports DEF Lifecycle!Next
<1>6. CASE Finish
  <2> DEFINE type == IF stop.state = "failed" THEN "run.failed" ELSE "run.completed"
  <2>1. pc = "finish" /\ stage' = stop.state /\ Emitted(type, stage')
    BY <1>6 DEF Finish, Transition, Emitted
  <2>2. stage' \in TerminalStages /\ stage \in WorkingStages
    BY <2>1 DEF Story, Stopped, Standing
  <2>3. Shown # <<>>
    BY <2>1, ShownAtAll
  <2>4. Shown' = Append(Shown, [kind |-> IF stage' = "failed" THEN "run.failed" ELSE "run.completed",
                                stage |-> stage'])
    BY <2>1, ShowsEmitted DEF Kind
  <2>5. Lifecycle!Finish
    BY <2>2, <2>3, <2>4, Successors DEF Lifecycle!Finish, Lifecycle!Terminal, TerminalStages, Shown
  <2> QED
    BY <2>5 DEF Lifecycle!Next
<1>7. CASE Cancel \/ UNCHANGED vars
  BY <1>7 DEF Cancel, vars, recordVars, Quiet
<1> QED
  BY <1>1, <1>3, <1>4, <1>5, <1>6, <1>7 DEF Next, Run

\* The stage and the events of run_perjury are a lifecycle: what its consumers
\* rely on holds of every run.
THEOREM RunsAreLifecycles == Spec => ImplementsLifecycle
<1>1. Init => Lifecycle!Init
  <2> SUFFICES ASSUME Init PROVE Lifecycle!Init
    OBVIOUS
  <2>1. stage = "created" /\ pc = "start" /\ Story
    BY StoryStarts DEF Init
  <2>2. Shown = <<>>
    BY <2>1, ShownAtAll
  <2> QED
    BY <2>1, <2>2 DEF Lifecycle!Init, Shown
<1>2. Story /\ [Next]_vars => [Lifecycle!Next]_(Lifecycle!lifecycleVars)
  BY RunIsLifecycle DEF Quiet, Lifecycle!lifecycleVars
<1> QED
  BY <1>1, <1>2, StoryInvariant, PTL DEF Spec, ImplementsLifecycle, Lifecycle!Spec

-----------------------------------------------------------------------------
(***************************************************************************)
(* What a viewer who folds the events sees of a run.  The fold is a        *)
(* recursive function over the events; an event changes what is seen by    *)
(* one Patch, so that what is seen is followed from step to step.          *)
(***************************************************************************)

Snapshot == View!Project(events)

\* The types announced so far, and the mutations whose analysis was.
Told == {events[i].type : i \in 1..Len(events)}
Analyses == {events[i].mutation : i \in {j \in 1..Len(events) : events[j].type = "analysis.completed"}}

\* Of the evidence that prepares the run, what an event puts on show.
Prepared == {"baseline", "context", "plan"}
Puts(type) == CASE type = "baseline.completed" -> {"baseline"}
                [] type = "context.completed" -> {"context"}
                [] type = "plan.completed" -> {"plan"}
                [] OTHER -> {}

\* What an event does to the fields that tell the evidence.
PatchedBy(snap, next, type, m, data) ==
  /\ next.known = snap.known \cup Puts(type)
  /\ next.mutations =
       IF type = "plan.completed" THEN [i \in data.ids |-> "pending"]
       ELSE IF type = "mutation.completed" /\ m \in DOMAIN snap.mutations
            THEN [snap.mutations EXCEPT ![m] = data.status] ELSE snap.mutations
  /\ next.candidate = IF type = "candidate.ready" THEN m ELSE snap.candidate
  /\ next.verification = IF type = "verification.completed" THEN <<m, data>> ELSE snap.verification
  /\ next.comparison = IF type = "rescore.completed" THEN <<data>> ELSE snap.comparison
  /\ next.result = IF type = "run.completed" THEN data.state ELSE snap.result
  /\ next.error = IF type = "run.failed" THEN data.reason ELSE snap.error
  /\ next.reason = IF type \in {"run.completed", "run.failed"} THEN data.reason ELSE snap.reason

\* A snapshot is of this run, with the fields of a RunSnapshot and no others.
Fields == {"run_id", "last_seq", "stage", "terminal", "known", "mutations", "survivor",
           "analysis", "proposal", "candidate", "verification", "comparison", "result", "error",
           "reason", "elapsed", "stages", "improvement_verified"}
Whole(snap) == snap = [f \in Fields |-> snap[f]] /\ snap.run_id = RunId

\* The evidence held at each place of the run.
Holdings ==
  /\ pc \in BeforeTarget \cup {"analyses", "test_generation", "preflight"} =>
       held \cap {"candidate", "verification", "rescore"} = {}
  /\ pc \in BeforeTarget => "selection" \notin held
  /\ pc \in BeforeTarget \ {"survivor_analysis"} => "first_pass" \notin held
  /\ pc \in {"start", "baseline", "context", "planning"} => "plan" \notin held
  /\ pc \in BeforeTarget \ {"first_pass", "survivor_analysis"} => DOMAIN first = {}
  /\ pc \in {"mutation_execution", "first_pass", "survivor_analysis", "analyses"} \cup Targeted =>
       "plan" \in held
  /\ pc \in {"survivor_analysis", "analyses"} \cup Targeted => "first_pass" \in held
  /\ pc = "verification" => "verification" \notin held
  /\ pc \notin {"finish"} \cup Ended => "rescore" \notin held
  /\ "first_pass" \in held => "plan" \in held /\ DOMAIN first = Mutations
  /\ pc # "analyses" => unsaid = {}

\* A mutation is shown with its status, or pending if it has none yet or cannot run.
Accounted(snap) ==
  /\ DOMAIN snap.mutations = Mutations
  /\ \A m \in Mutations :
       \/ snap.mutations[m] = "pending" /\ (m \in DOMAIN first => first[m] = "INVALID")
       \/ m \in DOMAIN first /\ snap.mutations[m] = first[m]

\* The comparison of the scores, if the re-score is over.
Compared == IF "rescore" \in held THEN <<Comparison>> ELSE <<>>

\* A snapshot shows the evidence held, and no end before the run has ended.
Reflected(snap) ==
  /\ snap.known = held \cap Prepared
  /\ "plan" \in held => Accounted(snap)
  /\ snap.candidate = IF "candidate" \in held THEN target ELSE Nobody
  /\ snap.verification = IF "verification" \in held THEN <<target, worlds>> ELSE <<>>
  /\ snap.comparison = Compared
  /\ pc \notin Ended => snap.result = "none" /\ snap.error = "none" /\ snap.reason = "none"

\* What has been announced of the evidence held.
Reported ==
  /\ "first_pass" \in held <=> "execution.completed" \in Told
  /\ "selection" \in held => Analysed(target) \subseteq Analyses \cup unsaid

\* A run that holds a re-score has stopped for what it says.
Concluded ==
  "rescore" \in held =>
    /\ pc \in {"finish"} \cup Ended
    /\ stop.reason \in {"VERIFIED", "RESCORE_INCONSISTENT"}

\* What only the result says of a run.
Completed(snap) ==
  [snap EXCEPT !.elapsed = "total", !.stages = records,
               !.improvement_verified = stop.state = "verified" /\ Direction = "improved"]

\* What is seen of the run at any time is what it holds; when its result is returned,
\* laying it over the snapshot completes it and corrects nothing.
Chronicle ==
  /\ Whole(Snapshot) /\ Snapshot.last_seq = Len(events)
  /\ Holdings /\ Reflected(Snapshot) /\ Reported
  /\ pc = "returned" => View!Overlay(Snapshot, RunResult) = Completed(Snapshot)

\* What holds at 0 and goes on holding, holds up to n.
LEMMA Induction ==
  ASSUME NEW n \in Nat, NEW W, 0 \in W, \A i \in 1..n : i - 1 \in W => i \in W
  PROVE  0..n \subseteq W
<1> DEFINE Out == {i \in 0..n : i \notin W}
<1>1. SUFFICES ASSUME Out # {} PROVE FALSE
  OBVIOUS
<1>2. Out \subseteq Nat
  OBVIOUS
<1>3. PICK i \in Out : \A j \in Out : <<j, i>> \notin OpToRel(<, Nat)
  BY <1>1, <1>2, NatLessThanWellFounded, WFMin
<1>4. i \in 1..n /\ i - 1 \in 0..n /\ i - 1 < i /\ i - 1 \in Nat /\ i \in Nat
  <2>1. i \in 0..n /\ i # 0
    BY <1>3
  <2> QED
    BY <2>1
<1>5. i - 1 \in Out
  BY <1>3, <1>4
<1>6. <<i - 1, i>> \in Nat \X Nat /\ <<i - 1, i>>[1] = i - 1 /\ <<i - 1, i>>[2] = i
  BY <1>4
<1>7. <<i - 1, i>> \in OpToRel(<, Nat)
  BY <1>4, <1>6 DEF OpToRel
<1> QED
  BY <1>3, <1>5, <1>7


\* The snapshots a viewer goes through.
Viewed(evs) ==
  CHOOSE snap : snap = [i \in 0..Len(evs) |->
    IF i = 0 THEN View!NewSnapshot ELSE View!Show(snap[i - 1], evs[i])]

\* g is the fold over the first n events.
Folds(g, evs, n) ==
  g = [i \in 0..n |-> IF i = 0 THEN View!NewSnapshot ELSE View!Show(g[i - 1], evs[i])]

\* There is such a fold, and Project is its last value.
LEMMA ViewedFolds ==
  ASSUME NEW evs, NEW n \in Nat, Len(evs) = n
  PROVE  Folds(Viewed(evs), evs, n) /\ View!Project(evs) = Viewed(evs)[n]
<1> DEFINE Do(x, i) == View!Show(x, evs[i])
           Z == View!NewSnapshot
           Fits(g, m) == g = [i \in 0..m |-> IF i = 0 THEN Z ELSE Do(g[i - 1], i)]
           W == {m \in 0..n : \E g : Fits(g, m)}
<1>1. View!Project(evs) = Viewed(evs)[n]
  BY DEF View!Project, Viewed
<1> HIDE DEF Do, Z
<1>2. 0 \in W
  <2> DEFINE g == [i \in 0..0 |-> Z]
  <2>1. \A i \in 0..0 : i = 0
    OBVIOUS
  <2>2. Fits(g, 0)
    BY <2>1
  <2>3. 0 \in 0..n
    OBVIOUS
  <2> HIDE DEF g
  <2> QED
    BY <2>2, <2>3
<1>3. ASSUME NEW m \in 1..n, m - 1 \in W PROVE m \in W
  <2>1. PICK g : Fits(g, m - 1)
    BY <1>3
  <2> DEFINE h == [i \in 0..m |-> IF i = m THEN Do(g[m - 1], m) ELSE g[i]]
  <2>2. \A i \in 0..m : i = m \/ i \in 0..(m - 1)
    OBVIOUS
  <2>3. \A i \in 0..(m - 1) : i # m /\ i \in 0..m /\ (i # 0 => i - 1 \in 0..(m - 1))
    OBVIOUS
  <2>4. \A i \in 0..(m - 1) : h[i] = g[i]
    BY <2>3
  <2>5. m \in 0..m /\ m # 0 /\ m - 1 \in 0..(m - 1)
    OBVIOUS
  <2>6. h[m] = Do(h[m - 1], m)
    BY <2>4, <2>5
  <2>7. ASSUME NEW i \in 0..m PROVE h[i] = IF i = 0 THEN Z ELSE Do(h[i - 1], i)
    <3>1. CASE i = m
      BY <2>5, <2>6, <3>1
    <3>2. CASE i \in 0..(m - 1)
      <4>1. g[i] = IF i = 0 THEN Z ELSE Do(g[i - 1], i)
        BY <2>1, <3>2
      <4> HIDE DEF h
      <4> QED
        BY <2>3, <2>4, <3>2, <4>1
    <3> QED
      BY <2>2, <3>1, <3>2
  <2>8. DOMAIN h = 0..m /\ h = [i \in 0..m |-> h[i]]
    OBVIOUS
  <2> HIDE DEF h
  <2>9. Fits(h, m)
    BY <2>7, <2>8
  <2> QED
    BY <2>9
<1>4. 0..n \subseteq W
  <2> HIDE DEF W
  <2> QED
    BY <1>2, <1>3, Induction
<1>5. PICK g : Fits(g, n)
  BY <1>4
<1>6. Fits(Viewed(evs), n)
  BY <1>5 DEF Viewed, Do, Z
<1> QED
  BY <1>1, <1>6 DEF Folds, Do, Z

\* One more event is shown on top of the ones before.
LEMMA OneMoreEvent ==
  ASSUME NEW S, NEW evs \in Seq(S), NEW ev \in S
  PROVE  /\ View!Project(<<>>) = View!NewSnapshot
         /\ View!Project(Append(evs, ev)) = View!Show(View!Project(evs), ev)
<1> DEFINE Do(x, e) == View!Show(x, e)
           Z == View!NewSnapshot
           n == Len(evs)
           more == Append(evs, ev)
           a == Viewed(evs)
           b == Viewed(more)
           W == {i \in 0..n : a[i] = b[i]}
<1>1. /\ n \in Nat /\ Len(more) = n + 1 /\ more[n + 1] = ev
      /\ \A i \in 1..n : more[i] = evs[i]
  BY AppendProperties, LenProperties
<1>2. Folds(a, evs, n) /\ View!Project(evs) = a[n]
  BY <1>1, ViewedFolds
<1>3. Folds(b, more, n + 1) /\ View!Project(more) = b[n + 1]
  <2>1. n + 1 \in Nat
    BY <1>1
  <2> QED
    BY <1>1, <2>1, ViewedFolds
<1>4. View!Project(<<>>) = Z
  <2>1. Len(<<>>) = 0 /\ 0 \in Nat /\ 0 \in 0..0
    OBVIOUS
  <2>2. Folds(Viewed(<<>>), <<>>, 0) /\ View!Project(<<>>) = Viewed(<<>>)[0]
    BY <2>1, ViewedFolds
  <2> QED
    BY <2>1, <2>2 DEF Folds
<1> HIDE DEF n, more, a, b
<1>5. /\ a[0] = Z /\ b[0] = Z /\ b[n + 1] = Do(b[n], more[n + 1])
      /\ \A i \in 1..n : a[i] = Do(a[i - 1], evs[i]) /\ b[i] = Do(b[i - 1], more[i])
  <2>1. /\ \A i \in 1..n : i \in 0..n /\ i \in 0..(n + 1) /\ i # 0
        /\ 0 \in 0..n /\ 0 \in 0..(n + 1) /\ n + 1 \in 0..(n + 1) /\ n + 1 # 0 /\ n + 1 - 1 = n
    BY <1>1
  <2>2. \A i \in 0..n : a[i] = IF i = 0 THEN Z ELSE Do(a[i - 1], evs[i])
    BY <1>2 DEF Folds
  <2>3. \A i \in 0..(n + 1) : b[i] = IF i = 0 THEN Z ELSE Do(b[i - 1], more[i])
    BY <1>3 DEF Folds
  <2> HIDE DEF Do, Z
  <2>4. a[0] = Z /\ b[0] = Z
    BY <2>1, <2>2, <2>3
  <2>5. b[n + 1] = Do(b[n], more[n + 1])
    <3> DEFINE k == n + 1
    <3>1. k \in 0..(n + 1) /\ k # 0 /\ k - 1 = n
      BY <1>1
    <3> HIDE DEF k
    <3>2. b[k] = Do(b[n], more[k])
      BY <2>3, <3>1
    <3> QED
      BY <3>2 DEF k
  <2>6. ASSUME NEW i \in 1..n
        PROVE  a[i] = Do(a[i - 1], evs[i]) /\ b[i] = Do(b[i - 1], more[i])
    BY <2>1, <2>2, <2>3
  <2> QED
    BY <2>4, <2>5, <2>6
<1>6. 0..n \subseteq W
  <2> HIDE DEF Do, Z
  <2>1. 0 \in W
    BY <1>1, <1>5
  <2>2. \A i \in 1..n : i - 1 \in W => i \in W
    BY <1>1, <1>5
  <2> HIDE DEF W
  <2> QED
    BY <1>1, <2>1, <2>2, Induction
<1>7. a[n] = b[n]
  BY <1>1, <1>6
<1> QED
  BY <1>1, <1>2, <1>3, <1>4, <1>5, <1>7 DEF more, n

\* An event changes a snapshot as PatchedBy says.
LEMMA Patches ==
  ASSUME NEW snap, Whole(snap), NEW ev, ev.type \in EventTypes
  PROVE  /\ Whole(View!Patch(snap, ev))
         /\ PatchedBy(snap, View!Patch(snap, ev), ev.type, ev.mutation, ev.data)
<1> DEFINE next == View!Patch(snap, ev)
<1>1. Whole(next)
  <2>1. CASE ev.type \in {"baseline.completed", "context.completed", "plan.completed"}
    BY <2>1 DEF View!Patch, Whole, Fields
  <2>2. CASE ev.type = "mutation.completed"
    BY <2>2 DEF View!Patch, Whole, Fields
  <2>3. CASE ev.type \in {"survivor.selected", "analysis.completed", "test.proposed"}
    BY <2>3 DEF View!Patch, Whole, Fields
  <2>4. CASE ev.type \in {"candidate.ready", "verification.completed", "rescore.completed"}
    BY <2>4 DEF View!Patch, Whole, Fields
  <2>5. CASE ev.type \in {"run.completed", "run.failed"}
    BY <2>5 DEF View!Patch, Whole, Fields
  <2>6. CASE ev.type \in {"run.started", "execution.completed", "rescore.mutation.completed"}
    BY <2>6 DEF View!Patch, Whole, Fields
  <2> QED
    BY <2>1, <2>2, <2>3, <2>4, <2>5, <2>6 DEF EventTypes
<1>2. PatchedBy(snap, next, ev.type, ev.mutation, ev.data)
  <2> USE DEF View!Patch, Whole, Fields, PatchedBy, Puts
  <2>1. CASE ev.type \in {"baseline.completed", "context.completed"}
    BY <2>1
  <2>2. CASE ev.type = "plan.completed"
    BY <2>2
  <2>3. CASE ev.type = "mutation.completed" /\ ev.mutation \in DOMAIN snap.mutations
    BY <2>3
  <2>4. CASE ev.type = "mutation.completed" /\ ev.mutation \notin DOMAIN snap.mutations
    BY <2>4
  <2>5. CASE ev.type \in {"survivor.selected", "analysis.completed", "test.proposed"}
    BY <2>5
  <2>6. CASE ev.type \in {"candidate.ready", "verification.completed", "rescore.completed"}
    BY <2>6
  <2>7. CASE ev.type \in {"run.started", "execution.completed", "rescore.mutation.completed"}
    BY <2>7
  <2>8. CASE ev.type \in {"run.completed", "run.failed"}
    BY <2>8
  <2> QED
    BY <2>1, <2>2, <2>3, <2>4, <2>5, <2>6, <2>7, <2>8 DEF EventTypes
<1> QED
  BY <1>1, <1>2

\* What emit adds to what is seen.
LEMMA ShowsTheEvent ==
  ASSUME Story, Whole(Snapshot), Snapshot.last_seq = Len(events),
         NEW type \in EventTypes, NEW s \in Stages, NEW m \in Mutations \cup {Nobody},
         NEW data \in Payload, EmitWith(type, s, m, data)
  PROVE  /\ Whole(Snapshot') /\ Snapshot'.last_seq = Len(events')
         /\ Snapshot'.stage = s /\ Snapshot'.terminal = (s \in TerminalStages)
         /\ PatchedBy(Snapshot, Snapshot', type, m, data)
         /\ Told' = Told \cup {type}
         /\ Analyses' = Analyses \cup IF type = "analysis.completed" THEN {m} ELSE {}
<1> DEFINE ev == [run |-> RunId, seq |-> Len(events) + 1, type |-> type, stage |-> s,
                  mutation |-> m, data |-> data]
           p == View!Patch(Snapshot, ev)
<1>1. events \in Seq(Event) /\ Len(events) \in Nat
  BY LenProperties DEF Story, DataTypes
<1>2. ev \in Event
  BY <1>1 DEF Event
<1>3. /\ ev.run = RunId /\ ev.seq = Len(events) + 1
      /\ ev.type = type /\ ev.stage = s /\ ev.mutation = m
      /\ ev.data = data /\ events' = Append(events, ev)
  BY DEF EmitWith
<1> HIDE DEF ev
<1>4. /\ Len(events') = Len(events) + 1 /\ events'[Len(events) + 1] = ev
      /\ \A i \in 1..Len(events) : events'[i] = events[i]
  BY <1>1, <1>2, <1>3, AppendProperties
<1>5. Snapshot' = View!Show(Snapshot, ev)
  <2> HIDE DEF Event
  <2> QED
    BY <1>1, <1>2, <1>3, OneMoreEvent DEF Snapshot
<1>6. Whole(p) /\ PatchedBy(Snapshot, p, type, m, data)
  BY <1>3, Patches
<1>7. Snapshot' = [p EXCEPT !.last_seq = ev.seq, !.stage = ev.stage,
                            !.terminal = ev.stage \in TerminalStages]
  <2>1. ~(ev.seq <= Snapshot.last_seq)
    BY <1>1, <1>3
  <2>2. ev.run = Snapshot.run_id
    BY <1>3 DEF Whole
  <2> QED
    BY <1>5, <2>1, <2>2 DEF View!Show
<1> HIDE DEF p
<1>8. /\ Whole(Snapshot') /\ Snapshot'.last_seq = Len(events')
      /\ Snapshot'.stage = s /\ Snapshot'.terminal = (s \in TerminalStages)
      /\ PatchedBy(Snapshot, Snapshot', type, m, data)
  <2>1. Whole(Snapshot')
    BY <1>6, <1>7 DEF Whole, Fields
  <2>2. /\ Snapshot'.last_seq = ev.seq /\ Snapshot'.stage = ev.stage
        /\ Snapshot'.terminal = (ev.stage \in TerminalStages)
    BY <1>6, <1>7 DEF Whole, Fields
  <2>3. /\ Snapshot'.known = p.known /\ Snapshot'.mutations = p.mutations
        /\ Snapshot'.candidate = p.candidate /\ Snapshot'.verification = p.verification
        /\ Snapshot'.comparison = p.comparison /\ Snapshot'.result = p.result
        /\ Snapshot'.error = p.error /\ Snapshot'.reason = p.reason
    BY <1>6, <1>7 DEF Whole, Fields
  <2> QED
    BY <1>3, <1>4, <1>6, <2>1, <2>2, <2>3 DEF PatchedBy
<1>9. 1..Len(events') = 1..Len(events) \cup {Len(events) + 1}
  BY <1>1, <1>4
<1>10. Told' = Told \cup {type}
  BY <1>3, <1>4, <1>9 DEF Told
<1>11. Analyses' = Analyses \cup IF type = "analysis.completed" THEN {m} ELSE {}
  BY <1>3, <1>4, <1>9 DEF Analyses
<1> QED
  BY <1>8, <1>10, <1>11

\* A run that has not stopped.
Going == pc \notin {"finish"} \cup Ended

\* A step that announces nothing and adds no evidence.
LEMMA SilenceKeeps ==
  ASSUME Chronicle, Going, pc' \notin Ended, Holdings',
         UNCHANGED <<events, held, first, unsaid, target, worlds>>
  PROVE  Chronicle'
<1>1. Snapshot' = Snapshot /\ Told' = Told /\ Analyses' = Analyses
  BY DEF Snapshot, Told, Analyses
<1>2. Compared = <<>> /\ Compared' = <<>>
  BY DEF Going, Chronicle, Holdings, Compared
<1>3. Reflected(Snapshot)'
  BY <1>1, <1>2 DEF Chronicle, Reflected, Accounted, Going, Ended
<1>4. Reported'
  BY <1>1 DEF Chronicle, Reported, Analysed, Survived, With
<1> QED
  BY <1>1, <1>3, <1>4 DEF Chronicle, Ended

\* The evidence that the events tell of.
Visible == {"plan", "first_pass", "selection", "candidate", "verification", "rescore"}

\* The events that tell of none of it.
Neutral == {"run.started", "baseline.completed", "context.completed", "survivor.selected",
            "analysis.completed", "test.proposed", "rescore.mutation.completed"}

\* An event that tells of none of the evidence.
LEMMA NeutralKeeps ==
  ASSUME Story, Chronicle, Going, pc' \notin Ended, Holdings',
         NEW type \in Neutral, NEW s \in Stages, NEW m \in Mutations \cup {Nobody},
         EmitWith(type, s, m, NoData),
         held' \cap Visible = held \cap Visible,
         held' \cap Prepared = (held \cap Prepared) \cup Puts(type),
         UNCHANGED <<first, target, worlds>>,
         unsaid \subseteq unsaid' \cup IF type = "analysis.completed" THEN {m} ELSE {}
  PROVE  Chronicle'
<1>1. type \in EventTypes
  BY DEF Neutral, EventTypes
<1>2. /\ Whole(Snapshot') /\ Snapshot'.last_seq = Len(events')
      /\ PatchedBy(Snapshot, Snapshot', type, m, NoData)
      /\ Told' = Told \cup {type}
      /\ Analyses' = Analyses \cup IF type = "analysis.completed" THEN {m} ELSE {}
  BY <1>1, Payloads, ShowsTheEvent DEF Chronicle
<1>3. Compared = <<>> /\ Compared' = <<>>
  BY DEF Going, Chronicle, Holdings, Compared, Visible
<1>4. \A e \in Visible : e \in held' <=> e \in held
  OBVIOUS
<1>5. Snapshot'.mutations = Snapshot.mutations
  BY <1>2 DEF PatchedBy, Neutral
<1>6. /\ Snapshot'.known = held' \cap Prepared
      /\ Snapshot'.candidate = Snapshot.candidate
      /\ Snapshot'.verification = Snapshot.verification /\ Snapshot'.comparison = <<>>
      /\ Snapshot'.result = "none" /\ Snapshot'.error = "none" /\ Snapshot'.reason = "none"
  BY <1>2, <1>3 DEF PatchedBy, Neutral, Chronicle, Reflected, Going
<1>7. Reflected(Snapshot)'
  BY <1>3, <1>4, <1>5, <1>6 DEF Chronicle, Reflected, Accounted, Going, Visible
<1>8. Reported'
  <2>1. "execution.completed" \in Told' <=> "execution.completed" \in Told
    BY <1>2 DEF Neutral
  <2>2. Analyses \cup unsaid \subseteq Analyses' \cup unsaid'
    BY <1>2
  <2>3. Analysed(target)' = Analysed(target)
    BY DEF Analysed, Survived, With
  <2> QED
    BY <1>4, <2>1, <2>2, <2>3 DEF Chronicle, Reported, Visible
<1> QED
  BY <1>2, <1>7, <1>8 DEF Chronicle, Ended

\* Each step of the run.
LEMMA StartTells ==
  ASSUME Story, Story', Chronicle, Start
  PROVE  Chronicle'
<1>1. /\ pc = "start" /\ pc' = "baseline" /\ EmitWith("run.started", "created", Nobody, NoData)
      /\ UNCHANGED <<held, first, second, live, unsaid, target, worlds>>
  BY DEF Start, Emit, Proceed, dataVars
<1>2. Going /\ pc' \notin Ended /\ "run.started" \in Neutral /\ "created" \in Stages
  BY <1>1, StageNames DEF Going, Ended, Neutral, Stages
<1>3. Holdings'
  BY <1>1 DEF Chronicle, Holdings, BeforeTarget, Targeted, Ended
<1>4. Puts("run.started") = {}
  BY DEF Puts
<1> QED
  BY <1>1, <1>2, <1>3, <1>4, NeutralKeeps

\* A stage that stops says nothing and adds nothing.
LEMMA StoppingTells ==
  ASSUME Chronicle, Going, pc' = "finish", pc = "analyses" => unsaid = {},
         UNCHANGED <<events, held, first, unsaid, target, worlds>>
  PROVE  Chronicle'
<1>1. Holdings' /\ pc' \notin Ended
  BY DEF Chronicle, Holdings, BeforeTarget, Targeted, Ended, Going
<1> QED
  BY <1>1, SilenceKeeps

LEMMA PrepareTells ==
  ASSUME Story, Story', Chronicle, Baseline \/ Context
  PROVE  Chronicle'
<1>1. PICK s \in {"baseline", "context"}, event \in {"baseline.completed", "context.completed"},
           to \in {"context", "planning"}, reason \in {"BASELINE_NOT_READY", "CONTEXT_FAILED"} :
        /\ s = "baseline" => to = "context" /\ event = "baseline.completed"
        /\ s = "context" => to = "planning" /\ event = "context.completed"
        /\ Prepare(s, event, NoData, s, to, reason)
  BY DEF Baseline, Context
<1>2. /\ pc = s /\ Going /\ UNCHANGED <<first, second, unsaid, target, worlds>>
      /\ s \in Stages /\ event \in Neutral
  BY <1>1, StageNames DEF Prepare, Going, Ended, Neutral, Stages
<1>3. CASE Fail(s, reason) /\ UNCHANGED <<events, held>>
  <2>1. pc' = "finish"
    BY <1>3 DEF Fail, StopRun
  <2> QED
    BY <1>2, <1>3, <2>1, StoppingTells
<1>4. CASE EmitWith(event, s, Nobody, NoData) /\ held' = held \cup {s} /\ Proceed(to)
  <2>1. pc' = to /\ pc' \notin Ended
    BY <1>1, <1>4 DEF Proceed, Ended
  <2>2. Holdings'
    BY <1>1, <1>2, <1>4, <2>1 DEF Chronicle, Holdings, BeforeTarget, Targeted, Ended
  <2>3. /\ held' \cap Visible = held \cap Visible
        /\ held' \cap Prepared = (held \cap Prepared) \cup Puts(event)
    BY <1>1, <1>4 DEF Visible, Prepared, Puts
  <2> QED
    BY <1>2, <1>4, <2>1, <2>2, <2>3, NeutralKeeps
<1> QED
  BY <1>1, <1>3, <1>4 DEF Prepare

LEMMA PlanningTells ==
  ASSUME Story, Story', Chronicle, Planning
  PROVE  Chronicle'
<1>1. /\ pc = "planning" /\ Going /\ UNCHANGED <<first, second, unsaid, target, worlds>>
      /\ "planning" \in Stages /\ "plan.completed" \in EventTypes
  BY StageNames DEF Planning, Prepare, Going, Ended, Stages, EventTypes
<1>2. CASE Fail("planning", "PLANNING_FAILED") /\ UNCHANGED <<events, held>>
  <2>1. pc' = "finish"
    BY <1>2 DEF Fail, StopRun
  <2> QED
    BY <1>1, <1>2, <2>1, StoppingTells
<1>3. CASE /\ EmitWith("plan.completed", "planning", Nobody, [ids |-> Mutations])
           /\ held' = held \cup {"plan"} /\ Proceed("mutation_execution")
  <2>1. pc' = "mutation_execution" /\ pc' \notin Ended
    BY <1>3 DEF Proceed, Ended
  <2>2. Holdings'
    BY <1>1, <1>3, <2>1 DEF Chronicle, Holdings, BeforeTarget, Targeted, Ended
  <2>3. /\ Whole(Snapshot') /\ Snapshot'.last_seq = Len(events')
        /\ PatchedBy(Snapshot, Snapshot', "plan.completed", Nobody, [ids |-> Mutations])
        /\ Told' = Told \cup {"plan.completed"} /\ Analyses' = Analyses
    BY <1>1, <1>3, Payloads, ShowsTheEvent DEF Chronicle
  <2>4. Snapshot'.mutations = [m \in Mutations |-> "pending"]
    BY <2>3 DEF PatchedBy
  <2>5. DOMAIN first' = {}
    BY <1>1 DEF Chronicle, Holdings, BeforeTarget
  <2>6. Accounted(Snapshot)'
    BY <2>4, <2>5 DEF Accounted
  <2>7. Compared' = <<>> /\ Compared = <<>>
    BY <1>1, <1>3 DEF Chronicle, Holdings, Compared, Going
  <2>8. Reflected(Snapshot)'
    BY <1>1, <1>3, <2>3, <2>6, <2>7 DEF Chronicle, Reflected, PatchedBy, Going, Prepared, Puts
  <2>9. Reported'
    BY <1>1, <1>3, <2>3 DEF Chronicle, Reported, Holdings, BeforeTarget
  <2> QED
    BY <2>1, <2>2, <2>3, <2>8, <2>9 DEF Chronicle, Ended
<1> QED
  BY <1>2, <1>3 DEF Planning, Prepare

LEMMA FirstPassTells ==
  ASSUME Story, Story', Chronicle, FirstPass
  PROVE  Chronicle'
<1>1. /\ pc = "mutation_execution" /\ pc' = "first_pass" /\ first' \in Unexecuted
      /\ UNCHANGED <<events, held, second, unsaid, target, worlds>>
  BY DEF FirstPass, FanOut, Proceed
<1>2. Snapshot' = Snapshot /\ Told' = Told /\ Analyses' = Analyses
  BY <1>1 DEF Snapshot, Told, Analyses
<1>3. Holdings'
  BY <1>1 DEF Chronicle, Holdings, BeforeTarget, Targeted, Ended
<1>4. DOMAIN first = {} /\ \A m \in DOMAIN first' : first'[m] = "INVALID"
  BY <1>1 DEF Chronicle, Holdings, BeforeTarget, Unexecuted
<1>5. Accounted(Snapshot)'
  BY <1>1, <1>2, <1>4 DEF Chronicle, Holdings, Reflected, Accounted
<1>6. Compared' = <<>> /\ Compared = <<>>
  BY <1>1 DEF Chronicle, Holdings, Compared, Ended
<1>7. Reflected(Snapshot)'
  BY <1>1, <1>2, <1>5, <1>6 DEF Chronicle, Reflected, Ended
<1>8. Reported'
  BY <1>1, <1>2 DEF Chronicle, Reported, Holdings, BeforeTarget
<1> QED
  BY <1>1, <1>2, <1>3, <1>7, <1>8 DEF Chronicle

LEMMA MutationCompletedTells ==
  ASSUME Story, Story', Chronicle, NEW m \in Mutations, MutationCompleted(m)
  PROVE  Chronicle'
<1>1. PICK r \in Statuses :
        /\ first' = [i \in DOMAIN first \cup {m} |-> IF i = m THEN r ELSE first[i]]
        /\ EmitWith("mutation.completed", stage, m, [status |-> r])
  BY StatusOfOutcome DEF MutationCompleted
<1>2. /\ pc = "first_pass" /\ pc' = pc /\ m \notin DOMAIN first
      /\ UNCHANGED <<held, second, unsaid, target, worlds>>
  BY DEF MutationCompleted
<1>3. "mutation.completed" \in EventTypes /\ stage \in Stages
  BY DEF EventTypes, Story, RunTypes
<1>4. /\ Whole(Snapshot') /\ Snapshot'.last_seq = Len(events')
      /\ PatchedBy(Snapshot, Snapshot', "mutation.completed", m, [status |-> r])
      /\ Told' = Told \cup {"mutation.completed"} /\ Analyses' = Analyses
  BY <1>1, <1>3, Payloads, ShowsTheEvent DEF Chronicle
<1>5. Holdings'
  BY <1>2 DEF Chronicle, Holdings, BeforeTarget, Targeted, Ended
<1>6. Accounted(Snapshot)
  BY <1>2 DEF Chronicle, Holdings, Reflected
<1>7. /\ DOMAIN first' = DOMAIN first \cup {m} /\ first'[m] = r
      /\ \A i \in DOMAIN first : first'[i] = first[i]
  BY <1>1, <1>2
<1>8. Snapshot'.mutations = [Snapshot.mutations EXCEPT ![m] = r]
  BY <1>4, <1>6 DEF PatchedBy, Accounted
<1>9. Accounted(Snapshot)'
  <2>1. /\ DOMAIN Snapshot'.mutations = Mutations /\ Snapshot'.mutations[m] = r
        /\ \A i \in Mutations \ {m} : Snapshot'.mutations[i] = Snapshot.mutations[i]
    BY <1>6, <1>8 DEF Accounted
  <2>2. ASSUME NEW i \in Mutations
        PROVE  \/ Snapshot'.mutations[i] = "pending" /\ (i \in DOMAIN first' => first'[i] = "INVALID")
               \/ i \in DOMAIN first' /\ Snapshot'.mutations[i] = first'[i]
    BY <1>6, <1>7, <2>1 DEF Accounted
  <2> QED
    BY <2>1, <2>2 DEF Accounted
<1>10. Compared' = <<>> /\ Compared = <<>>
  BY <1>2 DEF Chronicle, Holdings, Compared, Ended
<1>11. Reflected(Snapshot)'
  BY <1>2, <1>4, <1>9, <1>10 DEF Chronicle, Reflected, PatchedBy, Prepared, Puts, Ended
<1>12. Reported'
  BY <1>2, <1>4 DEF Chronicle, Reported, Holdings, BeforeTarget
<1> QED
  BY <1>2, <1>4, <1>5, <1>11, <1>12 DEF Chronicle

LEMMA RescoreTells ==
  ASSUME Story, Story', Chronicle, Rescore \/ \E m \in Mutations : RescoreMutationCompleted(m)
  PROVE  Chronicle'
<1>1. CASE Rescore
  <2>1. /\ pc = "rescoring" /\ pc' = "replay"
        /\ UNCHANGED <<events, held, first, unsaid, target, worlds>>
    BY <1>1 DEF Rescore, FanOut, Proceed
  <2>2. Holdings' /\ Going /\ pc' \notin Ended
    BY <2>1 DEF Chronicle, Holdings, BeforeTarget, Targeted, Going, Ended
  <2> QED
    BY <2>1, <2>2, SilenceKeeps
<1>2. CASE \E m \in Mutations : RescoreMutationCompleted(m)
  <2>1. PICK m \in Mutations : RescoreMutationCompleted(m)
    BY <1>2
  <2>2. /\ pc = "replay" /\ pc' = pc /\ UNCHANGED <<held, first, unsaid, target, worlds>>
        /\ EmitWith("rescore.mutation.completed", stage, m, NoData)
    BY <2>1 DEF RescoreMutationCompleted, Emit
  <2>3. Holdings' /\ Going /\ pc' \notin Ended
    BY <2>2 DEF Chronicle, Holdings, BeforeTarget, Targeted, Going, Ended
  <2>4. "rescore.mutation.completed" \in Neutral /\ stage \in Stages
    BY DEF Neutral, Story, RunTypes
  <2>5. Puts("rescore.mutation.completed") = {}
    BY DEF Puts
  <2> QED
    BY <2>2, <2>3, <2>4, <2>5, NeutralKeeps
<1> QED
  BY <1>1, <1>2

LEMMA FanOutFailsTells ==
  ASSUME Story, Story', Chronicle, FirstPassFails \/ RescoreFails
  PROVE  Chronicle'
<1>1. /\ pc \in {"mutation_execution", "first_pass", "rescoring", "replay"} /\ pc' = "finish"
      /\ UNCHANGED <<events, held, first, unsaid, target, worlds>>
  BY DEF FirstPassFails, RescoreFails, FanOutFails, Fail, StopRun, dataVars
<1> QED
  BY <1>1, StoppingTells DEF Going, Ended

LEMMA FirstPassReturnsTells ==
  ASSUME Story, Story', Chronicle, FirstPassReturns
  PROVE  Chronicle'
<1>1. /\ pc = "first_pass" /\ DOMAIN first = Mutations /\ held' = held \cup {"first_pass"}
      /\ EmitWith("execution.completed", stage, Nobody, NoData)
      /\ UNCHANGED <<first, second, unsaid, target, worlds>>
      /\ pc' \in {"survivor_analysis", "finish"}
  BY DEF FirstPassReturns, Emit, Proceed, StopRun
<1>2. "execution.completed" \in EventTypes /\ stage \in Stages
  BY DEF EventTypes, Story, RunTypes
<1>3. /\ Whole(Snapshot') /\ Snapshot'.last_seq = Len(events')
      /\ PatchedBy(Snapshot, Snapshot', "execution.completed", Nobody, NoData)
      /\ Told' = Told \cup {"execution.completed"} /\ Analyses' = Analyses
  BY <1>1, <1>2, Payloads, ShowsTheEvent DEF Chronicle
<1>4. Holdings'
  BY <1>1 DEF Chronicle, Holdings, BeforeTarget, Targeted, Ended
<1>5. Compared' = <<>> /\ Compared = <<>>
  BY <1>1 DEF Chronicle, Holdings, Compared, Ended
<1>6. Reflected(Snapshot)'
  BY <1>1, <1>3, <1>5 DEF Chronicle, Reflected, Accounted, PatchedBy, Prepared, Puts, Ended
<1>7. Reported'
  BY <1>1, <1>3 DEF Chronicle, Reported, Holdings, BeforeTarget
<1> QED
  BY <1>1, <1>3, <1>4, <1>6, <1>7 DEF Chronicle, Ended

LEMMA SelectTargetTells ==
  ASSUME Story, Story', Chronicle, SelectTarget
  PROVE  Chronicle'
<1>1. /\ pc = "survivor_analysis" /\ Going
      /\ UNCHANGED <<events, first, second, worlds>>
  BY DEF SelectTarget, Going, Ended
<1>2. CASE Fail("survivor_analysis", "ANALYSIS_FAILED") /\ UNCHANGED <<held, target, unsaid>>
  <2>1. pc' = "finish"
    BY <1>2 DEF Fail, StopRun
  <2> QED
    BY <1>1, <1>2, <2>1, StoppingTells
<1>3. CASE /\ unsaid' = Analysed(target') /\ held' = held \cup {"selection"}
           /\ Proceed("analyses")
  <2>1. pc' = "analyses"
    BY <1>3 DEF Proceed
  <2>2. Snapshot' = Snapshot /\ Told' = Told /\ Analyses' = Analyses
    BY <1>1 DEF Snapshot, Told, Analyses
  <2>3. Holdings'
    BY <1>1, <1>3, <2>1 DEF Chronicle, Holdings, BeforeTarget, Targeted, Ended
  <2>4. Compared' = <<>> /\ Compared = <<>>
    BY <1>1, <1>3 DEF Chronicle, Holdings, Compared, Ended
  <2>5. Reflected(Snapshot)'
    BY <1>1, <1>3, <2>1, <2>2, <2>4
    DEF Chronicle, Holdings, BeforeTarget, Reflected, Accounted, Prepared, Ended
  <2>6. Analysed(target)' = Analysed(target')
    BY <1>1 DEF Analysed, Survived, With
  <2>7. Reported'
    BY <1>3, <2>2, <2>6 DEF Chronicle, Reported
  <2> QED
    BY <2>1, <2>2, <1>1, <2>3, <2>5, <2>7 DEF Chronicle
<1> QED
  BY <1>2, <1>3 DEF SelectTarget

LEMMA AnalysesTell ==
  ASSUME Story, Story', Chronicle, AnnounceAnalysis
  PROVE  Chronicle'
<1>1. /\ pc = "analyses" /\ pc' = pc /\ unsaid # {} /\ unsaid' = unsaid \ {Min(unsaid)}
      /\ EmitWith("analysis.completed", stage, Min(unsaid), NoData)
      /\ UNCHANGED <<held, first, target, worlds>>
  BY DEF AnnounceAnalysis, Emit
<1>2. Min(unsaid) \in Mutations
  <2>1. unsaid \subseteq Mutations
    BY DEF Story, DataTypes, Survived, With
  <2> QED
    BY <1>1, <2>1, LeastMutation
<1>3. "analysis.completed" \in Neutral /\ stage \in Stages /\ Going /\ pc' \notin Ended
  BY <1>1 DEF Neutral, Story, RunTypes, Going, Ended
<1>4. Holdings'
  BY <1>1 DEF Chronicle, Holdings, BeforeTarget, Targeted, Ended
<1>5. unsaid \subseteq unsaid' \cup {Min(unsaid)}
  BY <1>1
<1>6. Puts("analysis.completed") = {}
  BY DEF Puts
<1> QED
  BY <1>1, <1>2, <1>3, <1>4, <1>5, <1>6, NeutralKeeps

LEMMA AnnounceTargetTells ==
  ASSUME Story, Story', Chronicle, AnnounceTarget \/ GenerateTest
  PROVE  Chronicle'
<1>1. /\ pc \in {"analyses", "test_generation"} /\ (pc = "analyses" => unsaid = {}) /\ Going
      /\ UNCHANGED <<held, first, unsaid, target, worlds>>
  BY DEF AnnounceTarget, GenerateTest, dataVars, Going, Ended
<1>2. CASE pc' = "finish" /\ UNCHANGED events
  BY <1>1, <1>2, StoppingTells
<1>3. ASSUME NEW type \in {"survivor.selected", "test.proposed"}, NEW s \in Stages,
             Emit(type, s, target),
             \/ pc = "analyses" /\ pc' = "test_generation"
             \/ pc = "test_generation" /\ pc' = "preflight"
      PROVE  Chronicle'
  <2>1. Holdings' /\ pc' \notin Ended
    BY <1>1, <1>3 DEF Chronicle, Holdings, BeforeTarget, Targeted, Ended
  <2>2. type \in Neutral /\ target \in Mutations \cup {Nobody} /\ EmitWith(type, s, target, NoData)
    BY <1>3 DEF Neutral, Emit, Story, DataTypes, Survived, With
  <2>3. Puts(type) = {}
    BY <1>3 DEF Puts
  <2> QED
    BY <1>1, <2>1, <2>2, <2>3, NeutralKeeps
<1>4. stage \in Stages /\ "test_generation" \in Stages
  BY StageNames DEF Story, RunTypes, Stages
<1>5. CASE AnnounceTarget
  <2>1. pc = "analyses"
    BY <1>5 DEF AnnounceTarget
  <2>2. CASE Emit("survivor.selected", stage, target) /\ Proceed("test_generation")
    BY <1>3, <1>4, <2>1, <2>2 DEF Proceed
  <2> QED
    BY <1>2, <1>5, <2>2 DEF AnnounceTarget, StopRun
<1>6. CASE GenerateTest
  <2>1. pc = "test_generation"
    BY <1>6 DEF GenerateTest
  <2>2. CASE Emit("test.proposed", "test_generation", target) /\ Proceed("preflight")
    BY <1>3, <1>4, <2>1, <2>2 DEF Proceed
  <2> QED
    BY <1>2, <1>6, <2>2 DEF GenerateTest, Fail, StopRun
<1> QED
  BY <1>5, <1>6

LEMMA PreflightTells ==
  ASSUME Story, Story', Chronicle, Preflight
  PROVE  Chronicle'
<1>1. /\ pc = "preflight" /\ Going /\ UNCHANGED <<first, second, unsaid, target, worlds>>
  BY DEF Preflight, Going, Ended
<1>2. CASE pc' = "finish" /\ UNCHANGED <<held, events>>
  BY <1>1, <1>2, StoppingTells
<1>3. CASE /\ held' = held \cup {"candidate"} /\ Emit("candidate.ready", stage, target)
           /\ Proceed("verification")
  <2>1. pc' = "verification" /\ EmitWith("candidate.ready", stage, target, NoData)
    BY <1>3 DEF Proceed, Emit
  <2>2. "candidate.ready" \in EventTypes /\ stage \in Stages /\ target \in Mutations \cup {Nobody}
    BY DEF EventTypes, Story, RunTypes, DataTypes, Survived, With
  <2>3. /\ Whole(Snapshot') /\ Snapshot'.last_seq = Len(events')
        /\ PatchedBy(Snapshot, Snapshot', "candidate.ready", target, NoData)
        /\ Told' = Told \cup {"candidate.ready"} /\ Analyses' = Analyses
    BY <2>1, <2>2, Payloads, ShowsTheEvent DEF Chronicle
  <2>4. Holdings'
    BY <1>1, <1>3, <2>1 DEF Chronicle, Holdings, BeforeTarget, Targeted, Ended
  <2>5. Compared' = <<>> /\ Compared = <<>>
    BY <1>1, <1>3 DEF Chronicle, Holdings, Compared, Ended
  <2>6. Reflected(Snapshot)'
    BY <1>1, <1>3, <2>3, <2>5 DEF Chronicle, Reflected, Accounted, PatchedBy, Prepared, Puts, Ended
  <2>7. Reported'
    <3>1. Analysed(target)' = Analysed(target)
      BY <1>1 DEF Analysed, Survived, With
    <3> QED
      BY <1>1, <1>3, <2>3, <3>1 DEF Chronicle, Reported
  <2> QED
    BY <2>1, <2>3, <2>4, <2>6, <2>7 DEF Chronicle
<1> QED
  BY <1>2, <1>3 DEF Preflight, StopRun

LEMMA VerifyTells ==
  ASSUME Story, Story', Chronicle, Verify
  PROVE  Chronicle'
<1>1. /\ pc = "verification" /\ Going /\ UNCHANGED <<first, second, unsaid, target>>
  BY DEF Verify, Going, Ended
<1>2. CASE Fail("verification", "WORLD_INCONSISTENT") /\ UNCHANGED <<held, worlds, events>>
  <2>1. pc' = "finish"
    BY <1>2 DEF Fail, StopRun
  <2> QED
    BY <1>1, <1>2, <2>1, StoppingTells
<1>3. CASE /\ worlds' \in [original : Seen, mutant : Seen] /\ held' = held \cup {"verification"}
           /\ EmitWith("verification.completed", "verification", target, worlds')
           /\ Judge(worlds')
  <2>1. pc' \in {"rescoring", "finish"}
    BY <1>3 DEF Judge, Proceed, StopRun
  <2>2. /\ "verification.completed" \in EventTypes /\ "verification" \in Stages
        /\ target \in Mutations \cup {Nobody}
    BY StageNames DEF EventTypes, Stages, Story, DataTypes, Survived, With
  <2>3. /\ Whole(Snapshot') /\ Snapshot'.last_seq = Len(events')
        /\ PatchedBy(Snapshot, Snapshot', "verification.completed", target, worlds')
        /\ Told' = Told \cup {"verification.completed"} /\ Analyses' = Analyses
    BY <1>3, <2>2, Payloads, ShowsTheEvent DEF Chronicle
  <2>4. Holdings'
    BY <1>1, <1>3, <2>1 DEF Chronicle, Holdings, BeforeTarget, Targeted, Ended
  <2>5. Compared' = <<>> /\ Compared = <<>>
    BY <1>1, <1>3 DEF Chronicle, Holdings, Compared, Ended
  <2>6. Reflected(Snapshot)'
    BY <1>1, <1>3, <2>3, <2>5 DEF Chronicle, Reflected, Accounted, PatchedBy, Prepared, Puts, Ended
  <2>7. Reported'
    <3>1. Analysed(target)' = Analysed(target)
      BY <1>1 DEF Analysed, Survived, With
    <3> QED
      BY <1>1, <1>3, <2>3, <3>1 DEF Chronicle, Reported
  <2> QED
    BY <2>1, <2>3, <2>4, <2>6, <2>7 DEF Chronicle, Ended
<1> QED
  BY <1>2, <1>3 DEF Verify

LEMMA ComparisonStays ==
  ASSUME UNCHANGED <<first, second>>
  PROVE  Comparison' = Comparison
BY DEF Comparison, Counts, Direction, Scored, ValidTotal, Killed, Survived, Excluded, With

\* So does what the result says of the passes.
LEMMA EvidenceStays ==
  ASSUME UNCHANGED <<records, stop, held, first, second, target>>
  PROVE  RunResult' = RunResult /\ Direction' = Direction
<1>1. Direction' = Direction
  BY DEF Direction, Scored, ValidTotal, Killed, Survived, With
<1>2. Confirmed' = Confirmed
  BY DEF Confirmed, NewlySurvived, Killed, Survived, With
<1> QED
  BY <1>1, <1>2, ComparisonStays DEF RunResult, ImprovementVerified

\* A run has stopped as verified just when it holds a confirmed re-score.
LEMMA StopsForTheRescore ==
  ASSUME Story, Concluded, pc = "finish"
  PROVE  stop.state = "verified" <=> "rescore" \in held /\ Confirmed
<1>1. stop.state \in TerminalStages /\ stop.reason \in Reasons[stop.state] /\ Justified
  BY DEF Story, Stopped
<1>2. stop.state = "verified" <=> stop.reason = "VERIFIED"
  BY <1>1 DEF Reasons, TerminalStages
<1> QED
  BY <1>1, <1>2 DEF Justified, Concluded

\* Only the re-score adds its report, and it stops the run.
LEMMA ConcludedStep == Story /\ Concluded /\ [Next]_vars => Concluded'
<1> SUFFICES ASSUME Concluded, [Next]_vars PROVE Concluded'
  OBVIOUS
<1>1. CASE RescoreReturns
  BY <1>1 DEF RescoreReturns, Succeed, StopRun, Concluded
<1>2. CASE Finish \/ Cancel \/ UNCHANGED vars
  BY <1>2 DEF Finish, Cancel, vars, dataVars, recordVars, Concluded, Ended
<1>3. CASE Start \/ Baseline \/ Context \/ Planning
  BY <1>3 DEF Start, Baseline, Context, Planning, Prepare, dataVars, Concluded, Ended
<1>4. CASE FirstPass \/ FirstPassFails \/ FirstPassReturns \/ Rescore \/ RescoreFails
  BY <1>4 DEF FirstPass, FirstPassFails, FirstPassReturns, Rescore, RescoreFails, FanOut,
              FanOutFails, dataVars, Concluded, Ended
<1>5. CASE SelectTarget \/ AnnounceAnalysis \/ AnnounceTarget \/ GenerateTest
  BY <1>5 DEF SelectTarget, AnnounceAnalysis, AnnounceTarget, GenerateTest, dataVars, Concluded, Ended
<1>6. CASE Preflight \/ Verify
  BY <1>6 DEF Preflight, Verify, Concluded, Ended
<1>7. CASE \E m \in Mutations : MutationCompleted(m) \/ RescoreMutationCompleted(m)
  BY <1>7 DEF MutationCompleted, RescoreMutationCompleted, Concluded, Ended
<1> QED
  BY <1>1, <1>2, <1>3, <1>4, <1>5, <1>6, <1>7 DEF Next, Run

\* The comparison is one that fits in a payload.
LEMMA Comparable ==
  ASSUME Story
  PROVE  Comparison \in Payload
<1>1. Counts(first) \in Score /\ Counts(second) \in Score
  BY Counted DEF Story, DataTypes
<1>2. Direction \in Directions
  BY DEF Direction, Directions
<1> QED
  BY <1>1, <1>2, Payloads DEF Comparison

LEMMA RescoreReturnsTells ==
  ASSUME Story, Story', Chronicle, RescoreReturns
  PROVE  Chronicle'
<1>1. /\ pc = "replay" /\ pc' = "finish" /\ held' = held \cup {"rescore"}
      /\ EmitWith("rescore.completed", "rescoring", target, Comparison)
      /\ UNCHANGED <<first, second, unsaid, target, worlds>>
  BY DEF RescoreReturns, Succeed, StopRun
<1>2. /\ "rescore.completed" \in EventTypes /\ "rescoring" \in Stages
      /\ target \in Mutations \cup {Nobody}
  BY StageNames DEF EventTypes, Stages, Story, DataTypes, Survived, With
<1>3. /\ Whole(Snapshot') /\ Snapshot'.last_seq = Len(events')
      /\ PatchedBy(Snapshot, Snapshot', "rescore.completed", target, Comparison)
      /\ Told' = Told \cup {"rescore.completed"} /\ Analyses' = Analyses
  BY <1>1, <1>2, Comparable, ShowsTheEvent DEF Chronicle
<1>4. Holdings'
  BY <1>1 DEF Chronicle, Holdings, BeforeTarget, Targeted, Ended
<1>5. Compared' = <<Comparison>>
  BY <1>1, ComparisonStays DEF Compared
<1>6. Reflected(Snapshot)'
  BY <1>1, <1>3, <1>5 DEF Chronicle, Reflected, Accounted, PatchedBy, Prepared, Puts, Ended
<1>7. Reported'
  <2>1. Analysed(target)' = Analysed(target)
    BY <1>1 DEF Analysed, Survived, With
  <2> QED
    BY <1>1, <1>3, <2>1 DEF Chronicle, Reported
<1> QED
  BY <1>1, <1>3, <1>4, <1>6, <1>7 DEF Chronicle

\* The terminal event says of the run what its result will.
LEMMA FinishTells ==
  ASSUME Story, Story', Chronicle, Concluded, Finish
  PROVE  Chronicle'
<1> DEFINE type == IF stop.state = "failed" THEN "run.failed" ELSE "run.completed"
<1>1. /\ pc = "finish" /\ pc' \in Ended /\ EmitWith(type, stop.state, Nobody, stop)
      /\ UNCHANGED <<records, stop, held, first, second, unsaid, target, worlds>>
  BY DEF Finish, Ended, dataVars
<1>2. /\ type \in EventTypes /\ stop.state \in TerminalStages /\ stop.state \in Stages
      /\ stop = [state |-> stop.state, reason |-> stop.reason]
      /\ stop.reason \in Reasons[stop.state]
  BY <1>1 DEF Story, Stopped, EventTypes, Stages
<1>3. stop \in Payload
  BY <1>2, Payloads
<1>4. /\ Whole(Snapshot') /\ Snapshot'.last_seq = Len(events')
      /\ Snapshot'.stage = stop.state /\ Snapshot'.terminal = (stop.state \in TerminalStages)
      /\ PatchedBy(Snapshot, Snapshot', type, Nobody, stop)
      /\ Told' = Told \cup {type}
      /\ Analyses' = Analyses \cup IF type = "analysis.completed" THEN {Nobody} ELSE {}
  <2> HIDE DEF type
  <2> QED
    BY <1>1, <1>2, <1>3, ShowsTheEvent DEF Chronicle
<1>5. Holdings'
  BY <1>1 DEF Chronicle, Holdings, BeforeTarget, Targeted, Ended
<1>6. Compared' = Compared
  BY <1>1, ComparisonStays DEF Compared
<1>7. Reflected(Snapshot)'
  BY <1>1, <1>4, <1>6 DEF Chronicle, Reflected, Accounted, PatchedBy, Prepared, Puts, Ended
<1>8. Reported'
  <2>1. Analysed(target)' = Analysed(target)
    BY <1>1 DEF Analysed, Survived, With
  <2> QED
    BY <1>1, <1>4, <2>1 DEF Chronicle, Reported
<1>9. (View!Overlay(Snapshot, RunResult) = Completed(Snapshot))'
  <2> DEFINE S == Snapshot'
  <2>1. /\ S.stage = stop.state /\ S.terminal = TRUE /\ S.reason = stop.reason
        /\ S.error = IF stop.state = "failed" THEN stop.reason ELSE "none"
        /\ S.result = IF stop.state = "failed" THEN "none" ELSE stop.state
    BY <1>1, <1>2, <1>4 DEF PatchedBy, Chronicle, Reflected, Ended
  <2>2. Whole(S)
    BY <1>4
  <2>3. S.known = held \cap Prepared /\ S.comparison = Compared
    BY <1>1, <1>6, <1>7 DEF Reflected
  <2>4. ImprovementVerified <=> (stop.state = "verified" /\ Direction = "improved")
    BY <1>1, StopsForTheRescore DEF ImprovementVerified
  <2>5. RunResult' = RunResult /\ Direction' = Direction
    BY <1>1, EvidenceStays
  <2> HIDE DEF S
  <2>6. View!Overlay(S, RunResult) =
          [S EXCEPT !.elapsed = "total", !.stages = records,
                    !.improvement_verified = stop.state = "verified" /\ Direction = "improved"]
    <3> DEFINE verified == ImprovementVerified
               improved == stop.state = "verified" /\ Direction = "improved"
    <3>1. verified = improved
      BY <2>4
    <3>2. /\ RunResult.state = stop.state /\ RunResult.reason = stop.reason
          /\ RunResult.stages = records /\ RunResult.improvement_verified = verified
          /\ RunResult.identities = held \cap {"context", "plan"} /\ RunResult.compared = Compared
      BY DEF RunResult, Compared
    <3>3. (S.known \ {"context", "plan"}) \cup RunResult.identities = S.known
      BY <2>3, <3>2 DEF Prepared
    <3> HIDE DEF verified, improved
    <3> QED
      BY <2>1, <2>2, <2>3, <3>1, <3>2, <3>3 DEF View!Overlay, Whole, Fields, improved
  <2> QED
    BY <1>1, <2>5, <2>6 DEF S, Completed
<1> QED
  BY <1>4, <1>5, <1>7, <1>8, <1>9 DEF Chronicle

LEMMA RestTells ==
  ASSUME Story, Story', Chronicle, Cancel \/ UNCHANGED vars
  PROVE  Chronicle'
<1>1. CASE Cancel
  <2>1. /\ pc' = pc /\ Going /\ UNCHANGED <<events, held, first, unsaid, target, worlds>>
    BY <1>1 DEF Cancel, recordVars, Going, Ended
  <2>2. Holdings'
    BY <2>1 DEF Chronicle, Holdings
  <2> QED
    BY <2>1, <2>2, SilenceKeeps DEF Going
<1>2. CASE UNCHANGED vars
  <2>1. UNCHANGED <<pc, events, records, stop, held, first, second, unsaid, target, worlds>>
    BY <1>2 DEF vars, recordVars, dataVars
  <2>2. Snapshot' = Snapshot /\ Told' = Told /\ Analyses' = Analyses
    BY <2>1 DEF Snapshot, Told, Analyses
  <2>3. Holdings'
    BY <2>1 DEF Chronicle, Holdings
  <2>4. Compared' = Compared
    BY <2>1, ComparisonStays DEF Compared
  <2>5. Reflected(Snapshot)'
    BY <2>1, <2>2, <2>4 DEF Chronicle, Reflected, Accounted
  <2>6. Reported'
    <3>1. Analysed(target)' = Analysed(target)
      BY <2>1 DEF Analysed, Survived, With
    <3> QED
      BY <2>1, <2>2, <3>1 DEF Chronicle, Reported
  <2>7. RunResult' = RunResult /\ Completed(Snapshot)' = Completed(Snapshot)
    BY <2>1, <2>2, EvidenceStays DEF Completed
  <2> QED
    BY <2>1, <2>2, <2>3, <2>5, <2>6, <2>7 DEF Chronicle
<1> QED
  BY <1>1, <1>2

\* At first nothing is seen and nothing is held.
LEMMA ChronicleStarts == Init => Chronicle
<1> SUFFICES ASSUME Init PROVE Chronicle
  OBVIOUS
<1>1. /\ pc = "start" /\ events = <<>> /\ held = {} /\ DOMAIN first = {} /\ unsaid = {}
  BY DEF Init, EmptyPass
<1>2. Snapshot = View!NewSnapshot /\ Len(events) = 0
  BY <1>1, OneMoreEvent, EmptySeq DEF Snapshot
<1>3. Whole(Snapshot) /\ Snapshot.last_seq = Len(events)
  BY <1>2 DEF Whole, Fields, View!NewSnapshot
<1>4. Holdings
  BY <1>1 DEF Holdings, BeforeTarget, Targeted, Ended
<1>5. Reflected(Snapshot)
  BY <1>1, <1>2 DEF Reflected, Compared, View!NewSnapshot
<1>6. Told = {}
  <2>1. 1..Len(events) = {}
    BY <1>2
  <2> QED
    BY <2>1 DEF Told
<1> QED
  BY <1>1, <1>3, <1>4, <1>5, <1>6 DEF Chronicle, Reported

LEMMA ChronicleStep == Story /\ Chronicle /\ Concluded /\ [Next]_vars => Chronicle'
<1> SUFFICES ASSUME Story, Chronicle, Concluded, [Next]_vars PROVE Chronicle'
  OBVIOUS
<1>1. Story'
  BY StoryStep
<1>2. CASE Start \/ Baseline \/ Context \/ Planning
  BY <1>1, <1>2, StartTells, PrepareTells, PlanningTells
<1>3. CASE FirstPass \/ FirstPassFails \/ RescoreFails \/ FirstPassReturns
  BY <1>1, <1>3, FirstPassTells, FanOutFailsTells, FirstPassReturnsTells
<1>4. CASE \E m \in Mutations : MutationCompleted(m) \/ RescoreMutationCompleted(m)
  BY <1>1, <1>4, MutationCompletedTells, RescoreTells
<1>5. CASE SelectTarget \/ AnnounceAnalysis \/ AnnounceTarget \/ GenerateTest
  BY <1>1, <1>5, SelectTargetTells, AnalysesTell, AnnounceTargetTells
<1>6. CASE Preflight \/ Verify
  BY <1>1, <1>6, PreflightTells, VerifyTells
<1>7. CASE Rescore \/ RescoreReturns
  BY <1>1, <1>7, RescoreTells, RescoreReturnsTells
<1>8. CASE Finish
  BY <1>1, <1>8, FinishTells
<1>9. CASE Cancel \/ UNCHANGED vars
  BY <1>1, <1>9, RestTells
<1> QED
  BY <1>2, <1>3, <1>4, <1>5, <1>6, <1>7, <1>8, <1>9 DEF Next, Run

\* Who folds the events, live or after a reconnect, sees the evidence that the result
\* holds, however the run ended.  Laying the result over the fold corrects nothing: it adds
\* the total time, the stage records and whether an improvement is verified.
THEOREM EventsTell == Spec => []EventsTellTheEvidence
<1>1. Chronicle => EventsTellTheEvidence
  <2> SUFFICES ASSUME Chronicle, pc \in {"finish", "returned"} PROVE EventsTellTheEvidence
    BY DEF EventsTellTheEvidence
  <2>1. "first_pass" \in held <=> "execution.completed" \in Told
    BY DEF Chronicle, Reported
  <2>2. ASSUME "first_pass" \in held, NEW m \in Mutations
        PROVE  \/ Snapshot.mutations[m] = first[m]
               \/ Snapshot.mutations[m] = "pending" /\ first[m] = "INVALID"
    BY <2>2 DEF Chronicle, Holdings, Reflected, Accounted
  <2>3. ASSUME "selection" \in held, NEW m \in Analysed(target)
        PROVE  \E i \in 1..Len(events) : /\ events[i].type = "analysis.completed"
                                         /\ events[i].mutation = m
    <3>1. unsaid = {}
      BY DEF Chronicle, Holdings
    <3>2. m \in Analyses
      BY <2>3, <3>1 DEF Chronicle, Reported
    <3> QED
      BY <3>2 DEF Analyses
  <2>4. /\ Snapshot.candidate = IF "candidate" \in held THEN target ELSE Nobody
        /\ Snapshot.verification = IF "verification" \in held THEN <<target, worlds>> ELSE <<>>
        /\ Snapshot.comparison = IF "rescore" \in held THEN <<Comparison>> ELSE <<>>
    BY DEF Chronicle, Reflected, Compared
  <2>5. pc = "returned" => View!Overlay(Snapshot, RunResult) = Completed(Snapshot)
    BY DEF Chronicle
  <2>6. Snapshot.known = held \cap {"baseline", "context", "plan"}
    BY DEF Chronicle, Reflected, Prepared
  <2> QED
    BY <2>1, <2>2, <2>3, <2>4, <2>5, <2>6 DEF EventsTellTheEvidence, Snapshot, Told, Completed
<1>2. Init => Story /\ Chronicle /\ Concluded
  BY StoryStarts, ChronicleStarts DEF Init, Concluded
<1>3. Story /\ Chronicle /\ Concluded /\ [Next]_vars => (Story /\ Chronicle /\ Concluded)'
  BY StoryStep, ChronicleStep, ConcludedStep
<1> QED
  BY <1>1, <1>2, <1>3, PTL DEF Spec
=============================================================================
