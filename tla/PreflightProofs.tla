--------------------------- MODULE PreflightProofs ---------------------------
(***************************************************************************)
(* Proofs about Preflight for any set of versions of the source tree: a    *)
(* check that passed saw what it says however the tree is edited, and what *)
(* is blocked leads back to a check that failed.                           *)
(***************************************************************************)
EXTENDS Preflight, NaturalsInduction, WellFoundedInduction, TLAPS

Results == {"pending", "pass", "fail", "blocked"}
CanarySteps == {"executing", "answered", "raised", "listing"}

CallState == [at : {"idle", "pack", "create", "extract", "install", "test", "terminate", "returned"},
              archive : Versions \cup {NoContent},
              remote : Versions \cup {NoContent, Partial},
              sandbox : {"none", "up", "gone"},
              outcome : Outcomes \cup {"none"}, cleanupError : BOOLEAN]

TypeOK ==
  /\ call \in [Calls -> CallState]
  /\ status \in [Checks -> Results]
  /\ turn \in 1..(Len(Order) + 1)
  /\ at \in {"start", "running", "planned", "applied"} \cup CanarySteps
  /\ tree \in Versions
  /\ base \in Versions \cup {NoContent} /\ known \in Versions \cup {NoContent}
  /\ made \in Versions \cup {NoContent} /\ left \in BOOLEAN
  /\ canary \in {"none", "up", "gone"}

\* The checks have been taken in order, each once.
InOrder == \A i \in 1..Len(Order) : status[Order[i]] = "pending" <=> i >= turn

\* A check ran because its needs had passed, or is blocked because one had not.
Blame ==
  \A c \in Checks :
    /\ status[c] \in {"pass", "fail"} => \A n \in Needs[c] : status[n] = "pass"
    /\ status[c] = "blocked" => \E n \in Needs[c] : status[n] \in {"fail", "blocked"}

\* The check under way is the one whose place this is, and may run.
UnderWay ==
  /\ at # "start" => ~Finished /\ Unmet(Order[turn]) = {}
  /\ at \in CanarySteps => Order[turn] = "canary_sandbox"
  /\ at = "running" => Order[turn] \in Baselines
  /\ at \in {"planned", "applied"} => Order[turn] = "applicator_self_check"

Parity == at = "running" /\ Order[turn] = "modal_parity"

\* The call of the parity check: from its archive on it holds the version of the
\* manifest, and at rest it is at its beginning or over.
InSandbox ==
  LET m == call["modal_parity"] IN
  /\ m.at \in {"pack", "create", "extract", "install", "test"} => m.outcome = "none"
  /\ m.at \in {"pack", "create"} => m.sandbox = "none"
  /\ m.at \in {"extract", "install", "test"} => m.sandbox = "up"
  /\ m.at \in {"create", "extract", "install", "test"} => m.archive = base
  /\ m.at \in {"install", "test"} => m.remote = base
  /\ m.at \in {"terminate", "returned"} /\ m.outcome = "PASS" =>
       m.remote = base /\ m.sandbox # "none"
  /\ m.at = "returned" /\ m.sandbox = "up" => m.cleanupError

Resting == call["modal_parity"].at \in {"idle", "returned"}

AtThePlace ==
  /\ IF Parity THEN InSandbox ELSE Resting
  /\ at = "applied" => made = known

Honest == TypeOK /\ InOrder /\ Blame /\ UnderWay /\ AtThePlace /\ PassesAreEarned

-----------------------------------------------------------------------------
(* The order of the checks and what they need. *)

LEMMA OrderedChecks ==
  /\ Len(Order) = 12
  /\ \A i, j \in 1..Len(Order) : Order[i] = Order[j] => i = j
  /\ \A i \in 1..Len(Order) : Order[i] \in Checks
  /\ \A c \in Checks : \E i \in 1..Len(Order) : c = Order[i]
  /\ {"canary_sandbox", "local_pass", "modal_parity", "applicator_self_check"} \subseteq Checks
<1>1. Len(Order) = 12
  BY DEF Order
<1>2. \A i, j \in 1..Len(Order) : Order[i] = Order[j] => i = j
  BY DEF Order
<1>3. /\ Order[8] = "canary_sandbox" /\ Order[9] = "local_pass" /\ Order[10] = "modal_parity"
      /\ Order[11] = "applicator_self_check" /\ {8, 9, 10, 11} \subseteq 1..Len(Order)
  BY DEF Order
<1>4. \A i \in 1..Len(Order) : Order[i] \in Checks
  BY DEF Checks
<1>5. \A c \in Checks : \E i \in 1..Len(Order) : c = Order[i]
  BY DEF Checks
<1>6. {"canary_sandbox", "local_pass", "modal_parity", "applicator_self_check"} \subseteq Checks
  BY <1>3, <1>4
<1> QED
  BY <1>1, <1>2, <1>4, <1>5, <1>6

\* The checks that need others, by their places.
LEMMA NeedsByPlace ==
  /\ Order[2] = "google_api_key" /\ Order[3] = "model" /\ Order[5] = "modal_credentials"
  /\ Order[7] = "auth_and_app" /\ Order[8] = "canary_sandbox" /\ Order[9] = "local_pass"
  /\ Needs[Order[6]] = {Order[2], Order[3]} /\ Needs[Order[7]] = {Order[5]}
  /\ Needs[Order[8]] = {Order[7]} /\ Needs[Order[10]] = {Order[9], Order[8]}
  /\ Needs[Order[11]] = {Order[9]}
  /\ \A i \in 1..Len(Order) : i \notin {6, 7, 8, 10, 11} => Needs[Order[i]] = {}
<1>1. /\ Order[2] = "google_api_key" /\ Order[3] = "model" /\ Order[5] = "modal_credentials"
      /\ Order[6] = "structured_response" /\ Order[7] = "auth_and_app"
      /\ Order[8] = "canary_sandbox" /\ Order[9] = "local_pass" /\ Order[10] = "modal_parity"
      /\ Order[11] = "applicator_self_check" /\ 1..Len(Order) = 1..12
  BY DEF Order
<1>2. /\ Needs["structured_response"] = {"google_api_key", "model"}
      /\ Needs["auth_and_app"] = {"modal_credentials"}
      /\ Needs["canary_sandbox"] = {"auth_and_app"}
      /\ Needs["modal_parity"] = {"local_pass", "canary_sandbox"}
      /\ Needs["applicator_self_check"] = {"local_pass"}
      /\ \A c \in Checks \ {"structured_response", "auth_and_app", "canary_sandbox", "modal_parity",
                              "applicator_self_check"} : Needs[c] = {}
  <2>1. {"structured_response", "auth_and_app", "canary_sandbox", "modal_parity",
         "applicator_self_check"} \subseteq Checks
    BY <1>1, OrderedChecks
  <2> QED
    BY <2>1 DEF Needs
<1>3. \A i \in 1..Len(Order) : i \notin {6, 7, 8, 10, 11} => Needs[Order[i]] = {}
  <2> SUFFICES ASSUME NEW i \in 1..Len(Order), i \notin {6, 7, 8, 10, 11} PROVE Needs[Order[i]] = {}
    OBVIOUS
  <2>1. {6, 7, 8, 10, 11} \subseteq 1..Len(Order)
    BY <1>1
  <2> QED
    BY <1>1, <1>2, <2>1, OrderedChecks
<1> QED
  BY <1>1, <1>2, <1>3

\* A check only needs checks that are taken before it.
LEMMA NeedsComeFirst ==
  \A i \in 1..Len(Order) : \A n \in Needs[Order[i]] : \E j \in 1..(i - 1) : n = Order[j]
<1> SUFFICES ASSUME NEW i \in 1..Len(Order), NEW n \in Needs[Order[i]]
             PROVE  \E j \in 1..(i - 1) : n = Order[j]
  OBVIOUS
<1>1. i \in {6, 7, 8, 10, 11}
  BY NeedsByPlace
<1>2. CASE i = 6
  BY <1>2, NeedsByPlace
<1>3. CASE i = 7
  BY <1>3, NeedsByPlace
<1>4. CASE i = 8
  BY <1>4, NeedsByPlace
<1>5. CASE i = 10
  BY <1>5, NeedsByPlace
<1>6. CASE i = 11
  BY <1>6, NeedsByPlace
<1> QED
  BY <1>1, <1>2, <1>3, <1>4, <1>5, <1>6

-----------------------------------------------------------------------------
(* Preflight.check *)

Ordered == InOrder /\ Blame /\ UnderWay

\* A check that was blocked, or ran to its result, leaves the ones before it as
\* they were.
LEMMA Concludes ==
  ASSUME TypeOK, Ordered, ~Finished, NEW s \in {"pass", "fail", "blocked"},
         s = "blocked" <=> Unmet(Order[turn]) # {}, Conclude(s)
  PROVE  /\ status' \in [Checks -> Results] /\ turn' \in 1..(Len(Order) + 1) /\ at' = "start"
         /\ Ordered'
         /\ status[Order[turn]] = "pending" /\ status'[Order[turn]] = s
         /\ \A c \in Checks : c # Order[turn] => status'[c] = status[c]
<1>1. /\ turn \in 1..Len(Order) /\ Order[turn] \in Checks /\ turn' = turn + 1 /\ at' = "start"
      /\ status' = [status EXCEPT ![Order[turn]] = s] /\ status \in [Checks -> Results]
  BY OrderedChecks DEF TypeOK, Finished, Conclude
<1>2. /\ status' \in [Checks -> Results] /\ turn' \in 1..(Len(Order) + 1)
      /\ status'[Order[turn]] = s
      /\ \A c \in Checks : c # Order[turn] => status'[c] = status[c]
  BY <1>1, OrderedChecks DEF Results
<1>3. status[Order[turn]] = "pending"
  BY <1>1 DEF Ordered, InOrder
<1>4. InOrder'
  <2> SUFFICES ASSUME NEW i \in 1..Len(Order)
               PROVE  status'[Order[i]] = "pending" <=> i >= turn + 1
    BY <1>1 DEF InOrder
  <2>1. CASE i = turn
    BY <1>1, <1>2, <2>1
  <2>2. CASE i # turn
    <3>1. status'[Order[i]] = status[Order[i]]
      BY <1>1, <1>2, <2>2, OrderedChecks
    <3> QED
      BY <1>1, <2>2, <3>1, OrderedChecks DEF Ordered, InOrder
  <2> QED
    BY <2>1, <2>2
<1>5. Blame'
  <2> SUFFICES ASSUME NEW c \in Checks
      PROVE  /\ status'[c] \in {"pass", "fail"} => \A n \in Needs[c] : status'[n] = "pass"
             /\ status'[c] = "blocked" => \E n \in Needs[c] : status'[n] \in {"fail", "blocked"}
    BY DEF Blame
  <2>1. Needs[c] \subseteq Checks
    <3>1. PICK i \in 1..Len(Order) : c = Order[i]
      BY OrderedChecks
    <3>2. 1..(i - 1) \subseteq 1..Len(Order)
      BY OrderedChecks
    <3> QED
      BY <3>1, <3>2, NeedsComeFirst, OrderedChecks
  <2>2. CASE c = Order[turn]
    <3>1. \A n \in Needs[c] : n # Order[turn] /\ status[n] # "pending"
      <4> SUFFICES ASSUME NEW n \in Needs[c] PROVE n # Order[turn] /\ status[n] # "pending"
        OBVIOUS
      <4>1. PICK j \in 1..(turn - 1) : n = Order[j]
        BY <1>1, <2>2, NeedsComeFirst
      <4>2. j \in 1..Len(Order) /\ j # turn /\ ~(j >= turn)
        BY <1>1, OrderedChecks
      <4> QED
        BY <1>1, <4>1, <4>2, OrderedChecks DEF Ordered, InOrder
    <3>2. \A n \in Needs[c] : status'[n] = status[n] /\ status[n] \in Results \ {"pending"}
      BY <1>1, <1>2, <2>1, <3>1
    <3> QED
      BY <1>2, <2>2, <3>2 DEF Unmet, Results
  <2>3. CASE c # Order[turn]
    <3>1. \A n \in Needs[c] : status[n] # "pending" => status'[n] = status[n]
      BY <1>2, <1>3, <2>1
    <3> QED
      BY <1>2, <2>3, <3>1 DEF Ordered, Blame
  <2> QED
    BY <2>2, <2>3
<1>6. UnderWay'
  BY <1>1 DEF UnderWay, CanarySteps
<1> QED
  BY <1>1, <1>2, <1>3, <1>4, <1>5, <1>6 DEF Ordered

\* A check that needs nothing that is missing, and is entered or under way.
Running == ~Finished /\ Unmet(Order[turn]) = {}

LEMMA Runs ==
  ASSUME UnderWay
  PROVE  /\ \A c : Enter(c) => Running /\ Order[turn] = c /\ at = "start"
         /\ at # "start" => Running
BY DEF UnderWay, Running, Enter

\* A check that goes on to its next place.
LEMMA GoesOn ==
  ASSUME TypeOK, Ordered, Running, NEW place, Goto(place),
         \/ place \in CanarySteps /\ Order[turn] = "canary_sandbox"
         \/ place = "running" /\ Order[turn] \in Baselines
         \/ place \in {"planned", "applied"} /\ Order[turn] = "applicator_self_check"
  PROVE  /\ status' \in [Checks -> Results] /\ turn' \in 1..(Len(Order) + 1) /\ at' = place
         /\ Ordered' /\ UNCHANGED <<status, turn>>
<1>1. at' = place /\ UNCHANGED <<status, turn>>
  BY DEF Goto
<1>2. InOrder' /\ Blame'
  BY <1>1 DEF Ordered, InOrder, Blame
<1>3. UnderWay'
  BY <1>1 DEF UnderWay, Running, Finished, Unmet, CanarySteps, Baselines
<1> QED
  BY <1>1, <1>2, <1>3 DEF Ordered, TypeOK

-----------------------------------------------------------------------------
(* The two baselines. *)

\* The call of a baseline ends: its outcome is known, the rest kept.
LEMMA Ending ==
  ASSUME call \in [Calls -> CallState], NEW c \in Calls, NEW outcome \in Outcomes,
         End(c, outcome) \/ Answer(c, outcome)
  PROVE  /\ call' \in [Calls -> CallState]
         /\ \A d \in Calls \ {c} : call'[d] = call[d]
         /\ call'[c].at = IF call[c].at = "pack" \/ Answer(c, outcome) THEN "returned" ELSE "terminate"
         /\ call'[c].outcome = outcome
         /\ call'[c].archive = call[c].archive /\ call'[c].remote = call[c].remote
         /\ call'[c].sandbox = call[c].sandbox /\ call'[c].cleanupError = call[c].cleanupError
<1>1. call[c] \in CallState
  OBVIOUS
<1>2. PICK how \in {"returned", "terminate"} :
        /\ call' = [call EXCEPT ![c] = [call[c] EXCEPT !.at = how, !.outcome = outcome]]
        /\ how = IF call[c].at = "pack" \/ Answer(c, outcome) THEN "returned" ELSE "terminate"
  <2>1. CASE End(c, outcome) /\ call[c].at = "pack"
    BY <2>1 DEF End
  <2>2. CASE End(c, outcome) /\ call[c].at # "pack" /\ ~Answer(c, outcome)
    BY <2>2 DEF End
  <2>3. CASE Answer(c, outcome)
    BY <2>3 DEF Answer
  <2> QED
    BY <2>1, <2>2, <2>3
<1>3. [call[c] EXCEPT !.at = how, !.outcome = outcome] \in CallState
  BY <1>1 DEF CallState
<1> QED
  BY <1>1, <1>2, <1>3 DEF CallState

\* Whatever version the tree has by the time it is packed, what runs in the
\* sandbox is the version of the manifest.
LEMMA SandboxStep ==
  ASSUME call \in [Calls -> CallState], base \in Versions \cup {NoContent}, UNCHANGED base,
         NEW source, InSandbox, Execute("modal_parity", source, base)
  PROVE  call' \in [Calls -> CallState] /\ InSandbox'
<1> DEFINE c == "modal_parity"
<1>0. c \in Calls /\ call[c] \in CallState
  BY CallsAssumption DEF Baselines
<1>1. CASE \E o \in Outcomes :
             /\ End(c, o) /\ (o = "PASS" => call[c].remote = base /\ call[c].sandbox # "none")
             /\ call[c].at \in {"pack", "create", "extract", "install", "test"}
  <2>1. PICK o \in Outcomes :
          /\ End(c, o) /\ (o = "PASS" => call[c].remote = base /\ call[c].sandbox # "none")
          /\ call[c].at \in {"pack", "create", "extract", "install", "test"}
    BY <1>1
  <2>2. /\ call' \in [Calls -> CallState]
        /\ call'[c].outcome = o /\ call'[c].at \in {"returned", "terminate"}
        /\ call'[c].remote = call[c].remote /\ call'[c].sandbox = call[c].sandbox
    BY <1>0, <2>1, Ending
  <2>3. call'[c].at = "returned" => call'[c].sandbox # "up"
    <3>1. call[c].at = "pack" \/ call'[c].at = "terminate"
      BY <1>0, <2>1 DEF End, CallState
    <3> QED
      BY <2>2, <3>1 DEF InSandbox
  <2> QED
    BY <2>1, <2>2, <2>3 DEF InSandbox
<1>2. CASE call[c].at = "pack" /\ call' = [call EXCEPT ![c].at = "create", ![c].archive = base]
  BY <1>0, <1>2 DEF InSandbox, CallState
<1>3. CASE Create(c)
  BY <1>0, <1>3 DEF Create, InSandbox, CallState
<1>4. CASE Extract(c)
  BY <1>0, <1>4 DEF Extract, InSandbox, CallState, Outcomes
<1>5. CASE call[c].at = "install" /\ call' = [call EXCEPT ![c].at = "test"]
  BY <1>0, <1>5 DEF InSandbox, CallState
<1>6. CASE Terminate(c)
  BY <1>0, <1>6 DEF Terminate, InSandbox, CallState
<1>7. Pack(c, source, base) => <1>1!1 \/ <1>2!1
  BY DEF Pack, Outcomes
<1>8. Install(c) => <1>1!1 \/ <1>5!1
  BY DEF Install, Outcomes
<1>9. Test(c) \/ Break(c) => <1>1!1
  BY DEF Test, Break, InSandbox, Outcomes
<1> QED
  BY <1>1, <1>2, <1>3, <1>4, <1>5, <1>6, <1>7, <1>8, <1>9 DEF Execute

\* The baseline in place is another call.
LEMMA InPlaceStep ==
  ASSUME call \in [Calls -> CallState], NEW found \in Versions, NEW manifest,
         ExecuteHere("local_pass", found, manifest)
  PROVE  call' \in [Calls -> CallState] /\ call'["modal_parity"] = call["modal_parity"]
<1> DEFINE c == "local_pass"
<1>0. c \in Calls /\ call[c] \in CallState /\ "modal_parity" \in Calls \ {c}
  BY CallsAssumption DEF Baselines
<1>1. CASE \E o \in Outcomes : Answer(c, o)
  BY <1>0, <1>1, Ending
<1>2. CASE \E place \in {"install", "test"} : call' = [call EXCEPT ![c].at = place]
  BY <1>0, <1>2 DEF CallState
<1>3. CASE TestHere(c, found)
  <2>1. PICK o \in Outcomes :
          call' = [call EXCEPT ![c] = [call[c] EXCEPT !.at = "returned", !.remote = found,
                                                      !.outcome = o]]
    BY <1>3 DEF TestHere
  <2>2. [call[c] EXCEPT !.at = "returned", !.remote = found, !.outcome = o] \in CallState
    BY <1>0 DEF CallState
  <2> QED
    BY <1>0, <2>1, <2>2
<1>4. Check(c, found, manifest) => <1>1!1 \/ <1>2!1
  BY DEF Check, Outcomes
<1>5. InstallHere(c) => <1>1!1 \/ <1>2!1
  BY DEF InstallHere, Outcomes
<1> QED
  BY <1>1, <1>2, <1>3, <1>4, <1>5 DEF ExecuteHere

-----------------------------------------------------------------------------
(* Each step of the preflight. *)

WorldTypes ==
  /\ call \in [Calls -> CallState]
  /\ tree \in Versions
  /\ base \in Versions \cup {NoContent} /\ known \in Versions \cup {NoContent}
  /\ made \in Versions \cup {NoContent} /\ left \in BOOLEAN
  /\ canary \in {"none", "up", "gone"}

\* Only the check under way touches what its pass is about.
Touches ==
  /\ Order[turn] # "canary_sandbox" => UNCHANGED canary
  /\ Order[turn] # "modal_parity" => UNCHANGED call["modal_parity"]
  /\ Order[turn] # "applicator_self_check" => UNCHANGED workspaceVars
  /\ Order[turn] # "local_pass" => UNCHANGED known

LEMMA PassesKept ==
  ASSUME Honest, Touches, NEW c \in Checks, c = Order[turn], status[c] = "pending",
         \A d \in Checks : d # c => status'[d] = status[d],
         status'[c] = "pass" =>
           /\ c = "canary_sandbox" => canary' = "gone"
           /\ c = "modal_parity" =>
                call'["modal_parity"].remote = known' /\ call'["modal_parity"].sandbox = "gone"
           /\ c = "applicator_self_check" => made' = known' /\ ~left'
  PROVE  PassesAreEarned'
<1>1. ASSUME c = "local_pass", NEW d \in {"modal_parity", "applicator_self_check"}
      PROVE  status[d] # "pass"
  <2>1. d \in Checks /\ "local_pass" \in Needs[d]
    BY OrderedChecks DEF Needs
  <2> QED
    BY <1>1, <2>1 DEF Honest, Blame
<1>2. status'["canary_sandbox"] = "pass" => canary' = "gone"
  <2>1. CASE c = "canary_sandbox"
    BY <2>1
  <2>2. CASE c # "canary_sandbox"
    BY <2>2, OrderedChecks DEF Honest, PassesAreEarned, Touches
  <2> QED
    BY <2>1, <2>2
<1>3. status'["modal_parity"] = "pass" =>
        call'["modal_parity"].remote = known' /\ call'["modal_parity"].sandbox = "gone"
  <2>1. CASE c = "modal_parity"
    BY <2>1
  <2>2. CASE c # "modal_parity"
    BY <1>1, <2>2, OrderedChecks DEF Honest, PassesAreEarned, Touches
  <2> QED
    BY <2>1, <2>2
<1>4. status'["applicator_self_check"] = "pass" => made' = known' /\ ~left'
  <2>1. CASE c = "applicator_self_check"
    BY <2>1
  <2>2. CASE c # "applicator_self_check"
    BY <1>1, <2>2, OrderedChecks DEF Honest, PassesAreEarned, Touches, workspaceVars
  <2> QED
    BY <2>1, <2>2
<1> QED
  BY <1>2, <1>3, <1>4 DEF PassesAreEarned

\* A step that ends its check.
LEMMA Settles ==
  ASSUME Honest, ~Finished, NEW s \in {"pass", "fail", "blocked"},
         s = "blocked" <=> Unmet(Order[turn]) # {}, Conclude(s),
         WorldTypes', Touches, UNCHANGED call, ~Parity \/ Returned("modal_parity"),
         s = "pass" =>
           /\ Order[turn] = "canary_sandbox" => canary' = "gone"
           /\ Order[turn] = "modal_parity" =>
                call'["modal_parity"].remote = known' /\ call'["modal_parity"].sandbox = "gone"
           /\ Order[turn] = "applicator_self_check" => made' = known' /\ ~left'
  PROVE  Honest'
<1>1. TypeOK /\ Ordered
  BY DEF Honest, Ordered
<1>2. /\ status' \in [Checks -> Results] /\ turn' \in 1..(Len(Order) + 1) /\ at' = "start"
      /\ Ordered'
      /\ status[Order[turn]] = "pending" /\ status'[Order[turn]] = s
      /\ \A c \in Checks : c # Order[turn] => status'[c] = status[c]
  BY <1>1, Concludes
<1>3. Order[turn] \in Checks
  BY <1>1, OrderedChecks DEF TypeOK, Finished
<1>4. PassesAreEarned'
  BY <1>2, <1>3, PassesKept
<1>5. TypeOK'
  BY <1>2 DEF WorldTypes, TypeOK
<1>6. AtThePlace'
  BY <1>2 DEF Honest, AtThePlace, Parity, Resting, Returned
<1> QED
  BY <1>2, <1>4, <1>5, <1>6 DEF Honest, Ordered

\* A step within its check.
LEMMA Continues ==
  ASSUME Honest, Running, NEW place, Goto(place),
         \/ place \in CanarySteps /\ Order[turn] = "canary_sandbox"
         \/ place = "running" /\ Order[turn] \in Baselines
         \/ place \in {"planned", "applied"} /\ Order[turn] = "applicator_self_check",
         WorldTypes', Touches, AtThePlace'
  PROVE  Honest'
<1>1. TypeOK /\ Ordered /\ ~Finished
  BY DEF Honest, Ordered, Running
<1>2. /\ status' \in [Checks -> Results] /\ turn' \in 1..(Len(Order) + 1) /\ at' = place
      /\ Ordered' /\ UNCHANGED <<status, turn>>
  BY <1>1, GoesOn
<1>3. Order[turn] \in Checks /\ status[Order[turn]] = "pending"
  BY <1>1, OrderedChecks DEF TypeOK, Finished, Ordered, InOrder
<1>4. PassesAreEarned'
  BY <1>2, <1>3, PassesKept
<1>5. TypeOK'
  BY <1>2 DEF WorldTypes, TypeOK, CanarySteps
<1> QED
  BY <1>2, <1>4, <1>5 DEF Honest, Ordered

LEMMA EditKeeps ==
  ASSUME Honest, Edit \/ UNCHANGED vars
  PROVE  Honest'
<1>1. /\ UNCHANGED <<call, status, turn, at, base, known, canary, made, left>>
      /\ tree' \in Versions
  BY DEF Edit, vars, checkVars, sourceVars, workspaceVars, Honest, TypeOK
<1>2. TypeOK' /\ InOrder' /\ Blame' /\ UnderWay'
  BY <1>1 DEF Honest, TypeOK, InOrder, Blame, UnderWay, Finished, Unmet
<1>3. AtThePlace' /\ PassesAreEarned'
  BY <1>1 DEF Honest, AtThePlace, Parity, InSandbox, Resting, PassesAreEarned
<1> QED
  BY <1>2, <1>3 DEF Honest

\* Blocked, or looked at in one step.
LEMMA LookKeeps ==
  ASSUME Honest, Block \/ Config \/ Gemini \/ ResolveApp \/ WriteEvidence
  PROVE  Honest'
<1>1. /\ ~Finished /\ at = "start"
      /\ UNCHANGED <<call, tree, base, known, canary, made, left>>
  BY DEF Block, Config, Gemini, ResolveApp, WriteEvidence, Look, Enter, sourceVars, workspaceVars
<1>2. WorldTypes' /\ Touches /\ ~Parity
  BY <1>1 DEF Honest, TypeOK, WorldTypes, Touches, Parity, workspaceVars
<1>3. CASE Block
  BY <1>1, <1>2, <1>3, Settles DEF Block
<1>4. ASSUME NEW c \in ConfigChecks \cup {"structured_response", "auth_and_app", "directory_writable"},
             Look(c)
      PROVE  Honest'
  <2>1. PICK s \in {"pass", "fail"} : Conclude(s)
    BY <1>4 DEF Look
  <2>2. /\ Unmet(Order[turn]) = {}
        /\ Order[turn] \notin {"canary_sandbox", "modal_parity", "applicator_self_check"}
    BY <1>4 DEF Look, Enter, ConfigChecks
  <2> QED
    BY <1>1, <1>2, <2>1, <2>2, Settles
<1> QED
  BY <1>3, <1>4 DEF Config, Gemini, ResolveApp, WriteEvidence

LEMMA CanaryKeeps ==
  ASSUME Honest, CreateCanary \/ ExecuteCanary \/ TerminateCanary \/ ListSandboxes
  PROVE  Honest'
<1>1. Running /\ Order[turn] = "canary_sandbox" /\ (at = "start" \/ at \in CanarySteps)
  BY Runs
  DEF Honest, UnderWay, CreateCanary, ExecuteCanary, TerminateCanary, ListSandboxes, CanarySteps
<1>2. /\ UNCHANGED <<call, tree, base, known, made, left>> /\ canary' \in {"none", "up", "gone"}
  BY DEF CreateCanary, ExecuteCanary, TerminateCanary, ListSandboxes, sourceVars, workspaceVars,
         Honest, TypeOK
<1>3. WorldTypes' /\ Touches /\ ~Parity /\ ~Finished /\ Unmet(Order[turn]) = {}
  BY <1>1, <1>2 DEF Honest, TypeOK, WorldTypes, Touches, Parity, workspaceVars, Running
<1>4. CASE \E s \in {"pass", "fail"} : Conclude(s) /\ (s = "pass" => canary' = "gone")
  BY <1>1, <1>2, <1>3, <1>4, Settles
<1>5. CASE \E place \in CanarySteps : Goto(place)
  <2>1. PICK place \in CanarySteps : Goto(place)
    BY <1>5
  <2>2. AtThePlace'
    BY <1>2, <1>3, <2>1 DEF Honest, AtThePlace, Parity, Resting, Goto, CanarySteps
  <2> QED
    BY <1>1, <1>3, <2>1, <2>2, Continues
<1>6. <1>4!1 \/ <1>5!1
  BY DEF CreateCanary, ExecuteCanary, TerminateCanary, ListSandboxes, CanarySteps
<1> QED
  BY <1>4, <1>5, <1>6

LEMMA TakeManifestKeeps ==
  ASSUME Honest, NEW c \in Baselines, TakeManifest(c)
  PROVE  Honest'
<1>1. /\ Running /\ Order[turn] = c /\ at = "start"
      /\ UNCHANGED <<tree, known, canary, made, left>>
  BY Runs DEF Honest, TakeManifest, workspaceVars
<1>2. ~Parity /\ ~Finished /\ Unmet(Order[turn]) = {} /\ Resting
  BY <1>1 DEF Parity, Running, Honest, AtThePlace
<1>3. CASE Conclude("fail") /\ UNCHANGED <<call, base>>
  <2>1. WorldTypes' /\ Touches
    BY <1>1, <1>3 DEF Honest, TypeOK, WorldTypes, Touches, workspaceVars
  <2> QED
    BY <1>1, <1>2, <1>3, <2>1, Settles
<1>4. CASE base' = tree /\ call' = Begun({c}) /\ Goto("running")
  <2>1. call' \in [Calls -> CallState]
    BY <1>4 DEF Begun, Idle, CallState, Honest, TypeOK
  <2>2. /\ c \in Calls /\ "modal_parity" \in Calls
        /\ call'["modal_parity"] = IF c = "modal_parity" THEN [Idle EXCEPT !.at = "pack"]
                                   ELSE call["modal_parity"]
    BY <1>4, CallsAssumption DEF Begun, Baselines
  <2>3. WorldTypes' /\ Touches
    BY <1>1, <1>4, <2>1, <2>2 DEF Honest, TypeOK, WorldTypes, Touches, Baselines, workspaceVars
  <2>4. at' = "running" /\ turn' = turn
    BY <1>4 DEF Goto
  <2>5. AtThePlace'
    <3>1. CASE c = "modal_parity"
      BY <1>1, <2>2, <2>4, <3>1 DEF AtThePlace, Parity, InSandbox, Idle
    <3>2. CASE c # "modal_parity"
      BY <1>1, <1>2, <2>2, <2>4, <3>2 DEF AtThePlace, Parity, Resting
    <3> QED
      BY <3>1, <3>2
  <2> QED
    BY <1>1, <1>4, <2>3, <2>5, Continues
<1> QED
  BY <1>3, <1>4 DEF TakeManifest

LEMMA CalledKeeps ==
  ASSUME Honest, NEW c \in Baselines, Called(c)
  PROVE  Honest'
<1>1. UNCHANGED <<status, turn, at, tree, base, known, canary, made, left>>
  BY DEF Called, checkVars, sourceVars, workspaceVars
<1>2. /\ call \in [Calls -> CallState] /\ base \in Versions \cup {NoContent} /\ tree \in Versions
  BY DEF Honest, TypeOK
<1>3. CASE c = "local_pass"
  <2>1. call' \in [Calls -> CallState] /\ call'["modal_parity"] = call["modal_parity"]
    BY <1>2, <1>3, InPlaceStep DEF Called
  <2>2. TypeOK' /\ InOrder' /\ Blame' /\ UnderWay'
    BY <1>1, <2>1 DEF Honest, TypeOK, InOrder, Blame, UnderWay, Finished, Unmet
  <2>3. AtThePlace' /\ PassesAreEarned'
    BY <1>1, <2>1 DEF Honest, AtThePlace, Parity, InSandbox, Resting, PassesAreEarned
  <2> QED
    BY <2>2, <2>3 DEF Honest
<1>4. CASE c = "modal_parity"
  <2>1. Execute("modal_parity", tree, base)
    BY <1>4 DEF Called
  <2>2. Parity /\ InSandbox
    BY <2>1 DEF Honest, AtThePlace, Resting, Execute, Pack, Create, Extract, Install, Test, Break,
                Terminate
  <2>3. call' \in [Calls -> CallState] /\ InSandbox'
    BY <1>1, <1>2, <2>1, <2>2, SandboxStep
  <2>4. TypeOK' /\ InOrder' /\ Blame' /\ UnderWay'
    BY <1>1, <2>3 DEF Honest, TypeOK, InOrder, Blame, UnderWay, Finished, Unmet
  <2>5. AtThePlace'
    BY <1>1, <2>2, <2>3 DEF Honest, AtThePlace, Parity
  <2>6. status["modal_parity"] = "pending"
    <3>1. turn \in 1..Len(Order)
      BY <2>2, OrderedChecks DEF Parity, Honest, TypeOK, UnderWay, Finished
    <3> QED
      BY <2>2, <3>1 DEF Parity, Honest, InOrder
  <2>7. PassesAreEarned'
    BY <1>1, <2>6 DEF Honest, PassesAreEarned
  <2> QED
    BY <2>4, <2>5, <2>7 DEF Honest
<1> QED
  BY <1>3, <1>4 DEF Baselines

LEMMA BaselineReturnsKeeps ==
  ASSUME Honest, NEW c \in Baselines, BaselineReturns(c)
  PROVE  Honest'
<1>1. /\ Running /\ Order[turn] = c /\ at = "running" /\ Returned(c)
      /\ UNCHANGED <<call, tree, base, canary, made, left>>
      /\ known' = known \/ (c = "local_pass" /\ known' = base)
  BY Runs DEF Honest, BaselineReturns, workspaceVars
<1>2. WorldTypes' /\ Touches /\ ~Finished /\ Unmet(Order[turn]) = {}
      /\ (~Parity \/ Returned("modal_parity"))
  BY <1>1 DEF Honest, TypeOK, WorldTypes, Touches, Running, Parity, workspaceVars
<1>3. PICK s \in {"pass", "fail"} :
        /\ Conclude(s)
        /\ s = "pass" /\ c = "modal_parity" => Clean(c) /\ base = known /\ known' = known
  BY DEF BaselineReturns
<1>4. s = "pass" /\ c = "modal_parity" =>
        call["modal_parity"].remote = known' /\ call["modal_parity"].sandbox = "gone"
  <2> SUFFICES ASSUME s = "pass", c = "modal_parity"
               PROVE  call["modal_parity"].remote = known' /\ call["modal_parity"].sandbox = "gone"
    OBVIOUS
  <2>1. InSandbox /\ call["modal_parity"] \in CallState
    BY <1>1, CallsAssumption DEF Honest, AtThePlace, Parity, TypeOK, Baselines
  <2> QED
    BY <1>1, <1>3, <2>1 DEF InSandbox, Returned, Clean, CallState
<1> QED
  BY <1>1, <1>2, <1>3, <1>4, Settles DEF Baselines

LEMMA ApplicatorKeeps ==
  ASSUME Honest, PlanCanonical \/ ApplyKnownMutation \/ LeaveWorkspace
  PROVE  Honest'
<1>1. /\ Running /\ Order[turn] = "applicator_self_check" /\ at \in {"start", "planned", "applied"}
      /\ UNCHANGED <<call, tree, base, known, canary>>
  BY Runs DEF Honest, UnderWay, PlanCanonical, ApplyKnownMutation, LeaveWorkspace, sourceVars
<1>2. WorldTypes'
  BY <1>1
  DEF Honest, TypeOK, WorldTypes, PlanCanonical, ApplyKnownMutation, LeaveWorkspace, workspaceVars
<1>3. Touches /\ ~Parity /\ ~Finished /\ Unmet(Order[turn]) = {} /\ Resting
  BY <1>1 DEF Honest, AtThePlace, Touches, Parity, Running
<1>4. CASE \E s \in {"pass", "fail"} : Conclude(s) /\ (s = "pass" => made' = known /\ ~left')
  BY <1>1, <1>2, <1>3, <1>4, Settles
<1>5. CASE \E place \in {"planned", "applied"} : Goto(place) /\ (place = "applied" => made' = known)
  <2>1. PICK place \in {"planned", "applied"} : Goto(place) /\ (place = "applied" => made' = known)
    BY <1>5
  <2>2. AtThePlace'
    BY <1>1, <1>3, <2>1 DEF AtThePlace, Parity, Resting, Goto
  <2> QED
    BY <1>1, <1>2, <1>3, <2>1, <2>2, Continues
<1>6. <1>4!1 \/ <1>5!1
  BY DEF PlanCanonical, ApplyKnownMutation, LeaveWorkspace, Honest, AtThePlace
<1> QED
  BY <1>4, <1>5, <1>6

LEMMA HonestStarts == Init => Honest
<1> SUFFICES ASSUME Init PROVE Honest
  OBVIOUS
<1>1. TypeOK
  <2>1. Idle \in CallState
    BY DEF Idle, CallState
  <2>2. call \in [Calls -> CallState] /\ status \in [Checks -> Results]
    BY <2>1 DEF Init, SandboxInit, Results
  <2>3. 1 \in 1..(Len(Order) + 1)
    BY OrderedChecks
  <2> QED
    BY <2>2, <2>3 DEF Init, TypeOK
<1>2. /\ \A c \in Checks : status[c] = "pending"
      /\ "modal_parity" \in Calls /\ call["modal_parity"].at = "idle"
      /\ turn = 1 /\ at = "start"
  BY CallsAssumption DEF Init, SandboxInit, Idle, Baselines
<1>3. InOrder
  BY <1>2, OrderedChecks DEF InOrder
<1>4. Blame /\ UnderWay /\ AtThePlace /\ PassesAreEarned
  BY <1>2, OrderedChecks
  DEF Blame, UnderWay, CanarySteps, AtThePlace, Parity, Resting, PassesAreEarned
<1> QED
  BY <1>1, <1>3, <1>4 DEF Honest

LEMMA HonestStep == Honest /\ [Next]_vars => Honest'
BY EditKeeps, LookKeeps, CanaryKeeps, TakeManifestKeeps, CalledKeeps, BaselineReturnsKeeps,
   ApplicatorKeeps
DEF Next

-----------------------------------------------------------------------------
(* What follows of a preflight. *)

\* The checks are taken in order, each on the results of its needs, and what the
\* one under way has seen so far is what its pass will say.
THEOREM HonestInvariant == Spec => []Honest
BY HonestStarts, HonestStep, PTL DEF Spec

\* Every variable keeps its type.
THEOREM TypesHold == Spec => []TypeOK
<1>1. Honest => TypeOK
  BY DEF Honest
<1> QED
  BY <1>1, HonestInvariant, PTL

\* Whatever version the tree takes between two steps, a passed parity check ran
\* the bytes the local baseline passed on, a passed self-check mutated them, and
\* neither they nor the canary leave anything behind.
THEOREM ChecksEarnTheirPass == Spec => []PassesAreEarned
<1>1. Honest => PassesAreEarned
  BY DEF Honest
<1> QED
  BY <1>1, HonestInvariant, PTL

\* Roots is defined by recursion; this function satisfies its equation, so Roots
\* does.
RootsByPlace ==
  [i \in 1..Len(Order) |->
     CASE i = 6  -> {Order[2], Order[3]}
       [] i = 7  -> {Order[5]}
       [] i = 8  -> {Order[7], Order[5]}
       [] i = 10 -> {Order[9], Order[8], Order[7], Order[5]}
       [] i = 11 -> {Order[9]}
       [] OTHER  -> {}]

NeededBy(i) == {k \in 1..(i - 1) : Order[k] \in Needs[Order[i]]}

LEMMA RootsEquation ==
  \A i \in 1..Len(Order) : Roots[i] = UNION {{Order[j]} \cup Roots[j] : j \in NeededBy(i)}
<1> DEFINE R == RootsByPlace
<1>1. /\ NeededBy(6) = {2, 3} /\ NeededBy(7) = {5} /\ NeededBy(8) = {7}
      /\ NeededBy(10) = {8, 9} /\ NeededBy(11) = {9}
      /\ \A i \in 1..Len(Order) : i \notin {6, 7, 8, 10, 11} => NeededBy(i) = {}
  <2>1. \A i, k \in 1..12 : Order[k] = Order[i] => k = i
    BY OrderedChecks
  <2>2. /\ NeededBy(6) = {2, 3} /\ NeededBy(7) = {5}
    BY <2>1, NeedsByPlace DEF NeededBy
  <2>3. NeededBy(8) = {7} /\ NeededBy(11) = {9}
    BY <2>1, NeedsByPlace DEF NeededBy
  <2>4. NeededBy(10) = {8, 9}
    BY <2>1, NeedsByPlace DEF NeededBy
  <2>5. \A i \in 1..Len(Order) : i \notin {6, 7, 8, 10, 11} => NeededBy(i) = {}
    BY NeedsByPlace DEF NeededBy
  <2> QED
    BY <2>2, <2>3, <2>4, <2>5
<1>2. /\ R[2] = {} /\ R[3] = {} /\ R[5] = {} /\ R[9] = {} /\ R[7] = {Order[5]}
      /\ R[8] = {Order[7], Order[5]} /\ R[6] = {Order[2], Order[3]}
      /\ R[10] = {Order[9], Order[8], Order[7], Order[5]} /\ R[11] = {Order[9]}
  BY OrderedChecks DEF RootsByPlace
<1>3. ASSUME NEW i \in 1..Len(Order)
      PROVE  R[i] = UNION {{Order[j]} \cup R[j] : j \in NeededBy(i)}
  <2> HIDE DEF R
  <2>1. CASE i = 6
    BY <1>1, <1>2, <2>1
  <2>2. CASE i = 7
    BY <1>1, <1>2, <2>2
  <2>3. CASE i = 8
    BY <1>1, <1>2, <2>3
  <2>4. CASE i = 10
    BY <1>1, <1>2, <2>4
  <2>5. CASE i = 11
    BY <1>1, <1>2, <2>5
  <2>6. CASE i \notin {6, 7, 8, 10, 11}
    <3>1. R[i] = {}
      BY <2>6 DEF R, RootsByPlace
    <3> QED
      BY <1>1, <2>6, <3>1
  <2> QED
    BY <2>1, <2>2, <2>3, <2>4, <2>5, <2>6
<1>4. RootsByPlace = [i \in 1..Len(Order) |->
                        UNION {{Order[j]} \cup RootsByPlace[j] :
                               j \in {k \in 1..(i - 1) : Order[k] \in Needs[Order[i]]}}]
  <2>1. \A i \in 1..Len(Order) :
          RootsByPlace[i] = UNION {{Order[j]} \cup RootsByPlace[j] :
                                   j \in {k \in 1..(i - 1) : Order[k] \in Needs[Order[i]]}}
    BY <1>3 DEF NeededBy
  <2>2. RootsByPlace = [i \in 1..Len(Order) |-> RootsByPlace[i]]
    BY DEF RootsByPlace
  <2> QED
    BY <2>1, <2>2
<1>5. Roots = [i \in 1..Len(Order) |->
                 UNION {{Order[j]} \cup Roots[j] :
                        j \in {k \in 1..(i - 1) : Order[k] \in Needs[Order[i]]}}]
  BY <1>4 DEF Roots
<1> QED
  BY <1>5 DEF NeededBy

LEMMA RootsAreChecks == \A i \in 1..Len(Order) : Roots[i] \subseteq Checks
<1> DEFINE Astray == {i \in 1..Len(Order) : ~(Roots[i] \subseteq Checks)}
<1>1. SUFFICES ASSUME Astray # {} PROVE FALSE
  OBVIOUS
<1>2. Astray \subseteq Nat
  BY OrderedChecks
<1>3. PICK i \in Astray : \A j \in Astray : <<j, i>> \notin OpToRel(<, Nat)
  BY <1>1, <1>2, NatLessThanWellFounded, WFMin
<1>4. ASSUME NEW j \in NeededBy(i) PROVE Order[j] \in Checks /\ Roots[j] \subseteq Checks
  <2>1. j \in 1..Len(Order) /\ j < i /\ j \in Nat /\ i \in Nat
    <3>1. j \in 1..(i - 1) /\ i \in 1..12
      BY <1>3, OrderedChecks DEF NeededBy
    <3> QED
      BY <3>1, OrderedChecks
  <2>2. <<j, i>> \in Nat \X Nat /\ <<j, i>>[1] = j /\ <<j, i>>[2] = i
    BY <2>1
  <2>3. <<j, i>> \in OpToRel(<, Nat)
    BY <2>1, <2>2 DEF OpToRel
  <2> QED
    BY <1>3, <2>1, <2>3, OrderedChecks
<1>5. Roots[i] \subseteq Checks
  <2>1. Roots[i] = UNION {{Order[j]} \cup Roots[j] : j \in NeededBy(i)}
    BY <1>3, RootsEquation
  <2>2. ASSUME NEW n \in Roots[i] PROVE n \in Checks
    <3>1. PICK j \in NeededBy(i) : n \in {Order[j]} \cup Roots[j]
      BY <2>1, <2>2
    <3> QED
      BY <1>4, <3>1
  <2> QED
    BY <2>2
<1> QED
  BY <1>3, <1>5

\* The needs of a check are among its roots, and so are theirs.
LEMMA RootsOfNeeds ==
  ASSUME NEW i \in 1..Len(Order)
  PROVE  \A j \in 1..(i - 1) : Order[j] \in Needs[Order[i]] =>
           Order[j] \in Roots[i] /\ Roots[j] \subseteq Roots[i]
BY RootsEquation DEF NeededBy

\* The first blocked check without a failure among its roots would need one that
\* is blocked and has a failure among its own.
LEMMA BlockedIsRooted ==
  ASSUME Honest
  PROVE  \A i \in 1..Len(Order) : status[Order[i]] = "blocked" => \E n \in Roots[i] : status[n] = "fail"
<1> DEFINE Rootless == {i \in 1..Len(Order) : /\ status[Order[i]] = "blocked"
                                            /\ \A n \in Roots[i] : status[n] # "fail"}
<1>1. SUFFICES ASSUME Rootless # {} PROVE FALSE
  OBVIOUS
<1>2. Rootless \subseteq Nat
  BY OrderedChecks
<1>3. PICK i \in Rootless : \A j \in Rootless : <<j, i>> \notin OpToRel(<, Nat)
  BY <1>1, <1>2, NatLessThanWellFounded, WFMin
<1>4. i \in 1..Len(Order) /\ status[Order[i]] = "blocked" /\ \A n \in Roots[i] : status[n] # "fail"
  BY <1>3
<1>5. PICK n \in Needs[Order[i]] : status[n] \in {"fail", "blocked"}
  BY <1>4, OrderedChecks DEF Honest, Blame
<1>6. PICK j \in 1..(i - 1) : n = Order[j]
  BY <1>4, <1>5, NeedsComeFirst
<1>7. /\ j \in 1..Len(Order) /\ j < i
      /\ Order[j] \in Roots[i] /\ Roots[j] \subseteq Roots[i]
  BY <1>4, <1>5, <1>6, OrderedChecks, RootsOfNeeds
<1>8. j \in Rootless
  BY <1>4, <1>5, <1>6, <1>7
<1>9. <<j, i>> \in Nat \X Nat /\ <<j, i>>[1] = j /\ <<j, i>>[2] = i
  BY <1>2, <1>3, <1>8
<1>10. <<j, i>> \in OpToRel(<, Nat)
  BY <1>7, <1>9 DEF OpToRel
<1> QED
  BY <1>3, <1>8, <1>10

\* No check runs on a need that did not pass, what is blocked leads back to a
\* failure, and a preflight that is over and not ready names one.
THEOREM BlameLeadsToAFailure == Spec => []BlameIsRooted
<1>1. ASSUME Honest PROVE BlameIsRooted
  <2>1. ASSUME NEW i \in 1..Len(Order)
        PROVE  CASE status[Order[i]] \in {"pass", "fail"} ->
                      \A n \in Needs[Order[i]] : status[n] = "pass"
                 [] status[Order[i]] = "blocked" -> \E n \in Roots[i] : status[n] = "fail"
                 [] OTHER -> TRUE
    <3>1. status[Order[i]] \in {"pass", "fail"} =>
            \A n \in Needs[Order[i]] : status[n] = "pass"
      BY <1>1, OrderedChecks DEF Honest, Blame
    <3>2. status[Order[i]] = "blocked" => \E n \in Roots[i] : status[n] = "fail"
      BY <1>1, BlockedIsRooted
    <3> QED
      BY <3>1, <3>2
  <2>2. ASSUME Finished, NEW c \in Checks, status[c] # "pass"
        PROVE  \E d \in Checks : status[d] = "fail"
    <3>1. PICK i \in 1..Len(Order) : c = Order[i]
      BY OrderedChecks
    <3>2. status[c] \in {"fail", "blocked"}
      <4>1. ~(i >= turn) /\ status[c] \in Results
        BY <1>1, <2>2, OrderedChecks DEF Honest, TypeOK, Finished
      <4> QED
        BY <1>1, <2>2, <3>1, <4>1 DEF Honest, InOrder, Results
    <3>3. \A n \in Roots[i] : n \in Checks
      BY RootsAreChecks
    <3> QED
      BY <2>2, <3>1, <3>2, <3>3, BlockedIsRooted, <1>1
  <2> QED
    BY <2>1, <2>2 DEF BlameIsRooted
<1>2. Honest => BlameIsRooted
  BY <1>1
<1> QED
  BY <1>2, HonestInvariant, PTL
=============================================================================
