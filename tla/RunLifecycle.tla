---------------------------- MODULE RunLifecycle ----------------------------
(***************************************************************************)
(* What the consumers of a run (RunManager, the event stream, the demo UI) *)
(* rely on: run.started comes first, the working stages only move forward, *)
(* every progress event carries the stage it was emitted in, and the run   *)
(* ends with one last event that carries a terminal stage, run.failed for  *)
(* a failed run and run.completed for any other.                           *)
(***************************************************************************)
EXTENDS Integers, Sequences

Working == <<"created", "baseline", "context", "planning", "mutation_execution",
             "survivor_analysis", "test_generation", "verification", "rescoring">>
Terminal == {"verified", "rejected", "inconclusive", "failed"}
TerminalEvents == {"run.completed", "run.failed"}

VARIABLES stage, log   \* log: the events so far, as [kind, stage]

lifecycleVars == <<stage, log>>

InPosition(s) == \E i \in 1..Len(Working) : Working[i] = s

Follows(s, t) == \E i \in 1..(Len(Working) - 1) : Working[i] = s /\ Working[i + 1] = t

Init ==
  /\ stage = "created"
  /\ log = <<>>

Begin ==
  /\ log = <<>>
  /\ log' = <<[kind |-> "progress", stage |-> "created"]>>
  /\ UNCHANGED stage

\* A stage is entered; its first event may come with it.
Advance ==
  /\ log # <<>>
  /\ Follows(stage, stage')
  /\ log' \in {log, Append(log, [kind |-> "progress", stage |-> stage'])}

Report ==
  /\ log # <<>>
  /\ InPosition(stage)
  /\ log' = Append(log, [kind |-> "progress", stage |-> stage])
  /\ UNCHANGED stage

Finish ==
  /\ log # <<>>
  /\ InPosition(stage)
  /\ stage' \in Terminal
  /\ log' = Append(log, [kind |-> IF stage' = "failed" THEN "run.failed" ELSE "run.completed",
                         stage |-> stage'])

Next == Begin \/ Advance \/ Report \/ Finish

Spec == Init /\ [][Next]_lifecycleVars
=============================================================================
