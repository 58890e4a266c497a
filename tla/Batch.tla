------------------------------- MODULE Batch -------------------------------
(***************************************************************************)
(* What a fan-out promises its caller (docstring of run_fanout and of the  *)
(* module): every requested job settles exactly once with a result of its  *)
(* own, a settled result is never revised, and the batch is handed over    *)
(* only when it is complete.  A failing result callback ends it instead.   *)
(***************************************************************************)
CONSTANTS Jobs,     \* the requested mutations
          Results,  \* terminal results; each names the job it belongs to
          None      \* no result yet

VARIABLES settled,  \* [Jobs -> Results \cup {None}]
          status    \* "running", "returned" or "raised"

batchVars == <<settled, status>>

Init ==
  /\ settled = [j \in Jobs |-> None]
  /\ status = "running"

Settle(j) ==
  /\ status = "running"
  /\ settled[j] = None
  /\ \E r \in Results :
       /\ r.job = j
       /\ settled' = [settled EXCEPT ![j] = r]

\* The callback that announces a result may fail, also while a result settles.
SettleAndGoOn(j) == Settle(j) /\ UNCHANGED status

SettleAndRaise(j) == Settle(j) /\ status' = "raised"

Return ==
  /\ status = "running"
  /\ \A j \in Jobs : settled[j] # None
  /\ status' = "returned"
  /\ UNCHANGED settled

Next ==
  \/ \E j \in Jobs : SettleAndGoOn(j) \/ SettleAndRaise(j)
  \/ Return

Spec == Init /\ [][Next]_batchVars
=============================================================================
