----------------------------- MODULE Preflight -----------------------------
(***************************************************************************)
(* src/perjury/preflight.py: the checks an operator runs before a live     *)
(* demo, each with the checks it needs, in a fixed order.  The interesting *)
(* ones take time and touch the world: a canary sandbox, the baseline in   *)
(* place and then in a sandbox, and one mutation applied to a copy, while  *)
(* the source tree may be edited.                                          *)
(***************************************************************************)
EXTENDS LocalExecutor, Naturals, Sequences

CONSTANT Versions  \* of the source tree

\* run_baseline with the local executor, and with the sandbox executor.
Baselines == {"local_pass", "modal_parity"}

ASSUME CallsAssumption == Calls = Baselines

VARIABLES
  status,  \* [Checks -> result, or "pending"]
  turn,    \* number of the check under way
  at,      \* where that check is
  tree,    \* version of the live tree
  base,    \* version in the manifest of the baseline under way
  known,   \* version the local baseline passed on
  canary,  \* the canary sandbox
  made,    \* version of the copy that was mutated
  left     \* that copy is there

checkVars == <<status, turn, at>>
sourceVars == <<tree, base, known>>
workspaceVars == <<made, left>>
vars == <<call, checkVars, sourceVars, canary, workspaceVars>>

ConfigChecks == {"python", "google_api_key", "model", "mutation_count", "modal_credentials"}

Order == <<"python", "google_api_key", "model", "mutation_count", "modal_credentials",
           "structured_response", "auth_and_app", "canary_sandbox", "local_pass",
           "modal_parity", "applicator_self_check", "directory_writable">>

Checks == {Order[i] : i \in 1..Len(Order)}

Needs == [c \in Checks |->
  CASE c = "structured_response"   -> {"google_api_key", "model"}
    [] c = "auth_and_app"          -> {"modal_credentials"}
    [] c = "canary_sandbox"        -> {"auth_and_app"}
    [] c = "modal_parity"          -> {"local_pass", "canary_sandbox"}
    [] c = "applicator_self_check" -> {"local_pass"}
    [] OTHER                       -> {}]

Init ==
  /\ SandboxInit
  /\ status = [c \in Checks |-> "pending"] /\ turn = 1 /\ at = "start"
  /\ tree \in Versions /\ base = NoContent /\ known = NoContent
  /\ canary = "none"
  /\ made = NoContent /\ left = FALSE

Finished == turn > Len(Order)

Edit ==
  /\ ~Finished
  /\ tree' \in Versions \ {tree}
  /\ UNCHANGED <<call, checkVars, base, known, canary, workspaceVars>>

-----------------------------------------------------------------------------
(* Preflight.check: blocked, or run to a result; an exception is a failure. *)

UnmetByFailure(c) == {n \in Needs[c] : status[n] = "fail"}

Unmet(c) == {n \in Needs[c] : status[n] # "pass"}

Conclude(s) ==
  /\ status' = [status EXCEPT ![Order[turn]] = s]
  /\ turn' = turn + 1
  /\ at' = "start"

Goto(place) == at' = place /\ UNCHANGED <<status, turn>>

Enter(c) == ~Finished /\ Order[turn] = c /\ at = "start" /\ Unmet(c) = {}

Block ==
  /\ ~Finished /\ at = "start"
  /\ Unmet(Order[turn]) # {}
  /\ Conclude("blocked")
  /\ UNCHANGED <<call, sourceVars, canary, workspaceVars>>

\* Checks that are one step: no other check and no edit meets what they look at
\* (directory_writable removes its own probe).
Look(c) ==
  /\ Enter(c)
  /\ Conclude("pass") \/ Conclude("fail")
  /\ UNCHANGED <<call, sourceVars, canary, workspaceVars>>

Config == \E c \in ConfigChecks : Look(c)
Gemini == Look("structured_response")
ResolveApp == Look("auth_and_app")
WriteEvidence == Look("directory_writable")

-----------------------------------------------------------------------------
(* _default_canary *)

CreateCanary ==
  /\ Enter("canary_sandbox")
  /\ \/ canary' = "up" /\ Goto("executing")
     \/ Conclude("fail") /\ UNCHANGED canary
  /\ UNCHANGED <<call, sourceVars, workspaceVars>>

\* The command answers, or raises past the finally clause.
ExecuteCanary ==
  /\ at = "executing"
  /\ Goto("answered") \/ Goto("raised")
  /\ UNCHANGED <<call, sourceVars, canary, workspaceVars>>

\* terminate may raise, and may come back before the sandbox is gone.
TerminateCanary ==
  /\ at \in {"answered", "raised"}
  /\ canary' \in {"up", "gone"}
  /\ \/ at = "answered" /\ Goto("listing")
     \/ Conclude("fail")
  /\ UNCHANGED <<call, sourceVars, workspaceVars>>

\* The exit code and output, then the sandboxes of the app: those of a run that
\* happens to be under way are counted too.
ListSandboxes ==
  /\ at = "listing"
  /\ \/ canary = "gone" /\ Conclude("pass")
     \/ Conclude("fail")
  /\ UNCHANGED <<call, sourceVars, canary, workspaceVars>>

-----------------------------------------------------------------------------
(* run_baseline, in place and then in a sandbox. *)

TakeManifest(c) ==
  /\ Enter(c)
  /\ \/ base' = tree /\ call' = Begun({c}) /\ Goto("running")
     \/ Conclude("fail") /\ UNCHANGED <<call, base>>
  /\ UNCHANGED <<tree, known, canary, workspaceVars>>

Called(c) ==
  /\ IF c = "local_pass" THEN ExecuteHere(c, tree, base) ELSE Execute(c, tree, base)
  /\ UNCHANGED <<checkVars, sourceVars, canary, workspaceVars>>

\* The two baselines must have the same manifest.
ReturnsUncompared(c) ==
  /\ at = "running" /\ Order[turn] = c /\ Returned(c)
  /\ \/ /\ Clean(c) /\ tree = base
        /\ Conclude("pass")
        /\ known' = IF c = "local_pass" THEN base ELSE known
     \/ Conclude("fail") /\ UNCHANGED known
  /\ UNCHANGED <<call, tree, base, canary, workspaceVars>>

BaselineReturns(c) ==
  /\ at = "running" /\ Order[turn] = c /\ Returned(c)
  /\ \/ /\ Clean(c) /\ tree = base
        /\ c = "modal_parity" => base = known
        /\ Conclude("pass")
        /\ known' = IF c = "local_pass" THEN base ELSE known
     \/ Conclude("fail") /\ UNCHANGED known
  /\ UNCHANGED <<call, tree, base, canary, workspaceVars>>

-----------------------------------------------------------------------------
(* The applicator, against the local baseline. *)

\* plan_mutations: context and canonical mutations, each checked against the
\* baseline.
PlanCanonical ==
  /\ Enter("applicator_self_check")
  /\ \/ tree = known /\ Goto("planned")
     \/ Conclude("fail")
  /\ UNCHANGED <<call, sourceVars, canary, workspaceVars>>

ApplyKnownMutation ==
  /\ at = "planned"
  /\ \/ tree = known /\ made' = tree /\ left' = TRUE /\ Goto("applied")
     \/ Conclude("fail") /\ UNCHANGED workspaceVars
  /\ UNCHANGED <<call, sourceVars, canary>>

\* The diff and the isolation are looked at; the copy is removed on the way out,
\* with errors ignored, and must then be gone.
LeaveWorkspace ==
  /\ at = "applied"
  /\ left' \in BOOLEAN
  /\ \/ ~left' /\ Conclude("pass")
     \/ Conclude("fail")
  /\ UNCHANGED <<call, sourceVars, canary, made>>

Next ==
  \/ Edit
  \/ Block
  \/ Config \/ Gemini \/ ResolveApp \/ WriteEvidence
  \/ CreateCanary \/ ExecuteCanary \/ TerminateCanary \/ ListSandboxes
  \/ \E c \in Baselines : TakeManifest(c) \/ Called(c) \/ BaselineReturns(c)
  \/ PlanCanonical \/ ApplyKnownMutation \/ LeaveWorkspace

Spec == Init /\ [][Next]_vars

-----------------------------------------------------------------------------
(* Properties. *)

\* A check that passed has seen what it says, although it is taken apart into
\* steps between which the tree changes: the sandbox ran the very bytes the local
\* baseline passed on, the mutation was applied to them too, and no canary,
\* sandbox or copy outlives a pass.
PassesAreEarned ==
  /\ status["canary_sandbox"] = "pass" => canary = "gone"
  /\ status["modal_parity"] = "pass" =>
       call["modal_parity"].remote = known /\ call["modal_parity"].sandbox = "gone"
  /\ status["applicator_self_check"] = "pass" => made = known /\ ~left

\* The checks that the i-th one depends on, however indirectly.
Roots[i \in 1..Len(Order)] ==
  UNION {{Order[j]} \cup Roots[j] : j \in {k \in 1..(i - 1) : Order[k] \in Needs[Order[i]]}}

\* "Unmet dependencies yield blocked (not another failure)": no check runs on a
\* need that did not pass, a blocked check leads back to one that failed, so a
\* preflight that is not ready always names a failing subsystem.
BlameIsRooted ==
  /\ \A i \in 1..Len(Order) :
       CASE status[Order[i]] \in {"pass", "fail"} ->
              \A n \in Needs[Order[i]] : status[n] = "pass"
         [] status[Order[i]] = "blocked" -> \E n \in Roots[i] : status[n] = "fail"
         [] OTHER -> TRUE
  /\ Finished /\ (\E c \in Checks : status[c] # "pass") => \E c \in Checks : status[c] = "fail"
=============================================================================
