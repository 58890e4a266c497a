---------------------- MODULE IsolatedExecutionProofs ----------------------
(***************************************************************************)
(* Proofs about IsolatedExecution for any set of versions: whatever is     *)
(* edited, torn down or given up as late, an outcome that counts belongs   *)
(* to the snapshot it was meant for.  And about ContextPacking, for any    *)
(* files under any budget: a bundle is the first fit.                      *)
(***************************************************************************)
EXTENDS IsolatedExecution, WellFoundedInduction, TLAPS

Counted == {"PASS", "TEST_FAIL"}

\* A call in a sandbox: from its archive on it holds the manifest's snapshot.
InSandbox(c) ==
  /\ call[c].at \in {"idle", "pack", "create", "extract", "install", "test"} =>
       call[c].outcome = "none"
  /\ call[c].at \in {"idle", "pack", "create"} => call[c].sandbox = "none"
  /\ call[c].at \in {"create", "extract", "install", "test"} => call[c].archive = Expected(c)
  /\ call[c].at \in {"install", "test"} \/ call[c].outcome \in Counted =>
       call[c].remote = Expected(c)
  /\ call[c].at \in {"terminate", "returned"} => call[c].outcome \in Outcomes
  /\ Returned(c) /\ call[c].sandbox = "up" => call[c].cleanupError

\* A call in place: what it saw is what its directory held, until the run ends
\* and the directories go.
InPlace(c) ==
  /\ call[c].at \in {"idle", "pack", "install", "test", "returned"}
  /\ call[c].sandbox = "none"
  /\ IF Returned(c) THEN call[c].outcome \in Outcomes ELSE call[c].outcome = "none"
  /\ c # "baseline" /\ call[c].outcome \in Counted /\ (c = "collect" \/ pc \notin Ended) =>
       call[c].remote = Expected(c)

Proper(c) == IF executor[c] = "sandbox" THEN InSandbox(c) ELSE InPlace(c)

\* What the fan-out recorded is the call's answer or a missed deadline; a call it
\* never asked has not answered.
Settled(w) ==
  \/ settled[w] = "none"
  \/ settled[w] = "TIMEOUT"
  \/ Returned(w) /\ settled[w] = call[w].outcome
       /\ (settled[w] \in Counted => call[w].remote = Expected(w))

Idling(cs) == \A c \in cs : call[c].at = "idle"

Failed == Ended \ {"verified"}

\* Which calls have been made, and what they gave, at each place of the run.
Progress ==
  /\ pc = "manifest" => Idling(Calls)
  /\ pc \in {"manifest", "baseline", "list", "read", "ask", "propose", "collect"} => dir = "collect"
  /\ pc \in {"compare", "verify", "verified"} => dir = "mutant"
  /\ pc \notin {"manifest", "baseline"} \cup Failed => Returned("baseline") /\ Clean("baseline")
  /\ pc \notin {"collect"} \cup Ended /\ dir = "collect" => Idling({"collect"})
  /\ pc \notin Failed /\ dir # "collect" =>
       Returned("collect") /\ call["collect"].outcome = "PASS"
  /\ pc \notin {"verify"} \cup Ended => Idling(Worlds) /\ \A w \in Worlds : settled[w] = "none"
  /\ pc = "verified" => settled["original"] = "PASS" /\ settled["mutant"] = "TEST_FAIL"
  /\ pc \in Ended => \A c \in Calls : \/ call[c].at = "idle" \/ Returned(c)
                                      \/ c \in Worlds /\ settled[c] = "TIMEOUT"

\* What the directories hold at each place of the run.
Directories ==
  /\ pc = "plant" => content[dir] = Snapshot(base, dir = "mutant", FALSE)
  /\ pc = "collect" => content["collect"] = Expected("collect")
  /\ pc \in {"copy", "plant"} /\ dir = "mutant" => content["original"] = Expected("original")
  /\ pc \in {"compare", "verify"} => \A w \in Worlds : content[w] = Expected(w)

\* The directories that the stage at work has made.
InUse ==
  {d \in Dirs : \/ pc \in {"plant", "collect"} /\ d = dir
                \/ pc \in {"copy", "plant"} /\ dir = "mutant" /\ d = "original"
                \/ pc \in {"compare", "verify"} /\ d \in Worlds}

\* Whatever a directory still holds, it is in use or its removal was tried, and
\* until the run ends that was done to the directory of the collection alone.
Disposal ==
  /\ \A d \in Dirs : content[d] # NoContent => d \in removed \cup InUse
  /\ pc \notin Ended => removed \subseteq {"collect"} /\ (dir = "collect" => removed = {})

\* What the current packing has read.
Reading == pc = "read" => listed = base /\ shown \subseteq {base}

Isolation ==
  /\ TypeOK
  /\ \A c \in Calls : Proper(c)
  /\ \A w \in Worlds : Settled(w)
  /\ Progress
  /\ Directories
  /\ Disposal
  /\ Reading
  /\ ShownIsTheBaseline

-----------------------------------------------------------------------------

CallState == [at : {"idle", "pack", "create", "extract", "install", "test",
                    "terminate", "returned"},
              archive : Contents \cup {NoContent},
              remote : Contents \cup {NoContent, Partial},
              sandbox : {"none", "up", "gone"},
              outcome : Outcomes \cup {"none"}, cleanupError : BOOLEAN]

\* Both executors end a call in one way: its outcome is known, the rest kept.
LEMMA Ending ==
  ASSUME call \in [Calls -> CallState], NEW c \in Calls, NEW outcome \in Outcomes,
         End(c, outcome) \/ Answer(c, outcome)
  PROVE  /\ call' \in [Calls -> CallState]
         /\ \A d \in Calls \ {c} : call'[d] = call[d]
         /\ call'[c].at \in {"returned", "terminate"}
         /\ Answer(c, outcome) \/ call[c].at = "pack" => call'[c].at = "returned"
         /\ call'[c].outcome = outcome
         /\ call'[c].archive = call[c].archive /\ call'[c].remote = call[c].remote
         /\ call'[c].sandbox = call[c].sandbox /\ call'[c].cleanupError = call[c].cleanupError
<1>1. call[c] \in CallState
  OBVIOUS
<1>2. PICK how \in {"returned", "terminate"} :
        /\ call' = [call EXCEPT ![c] = [call[c] EXCEPT !.at = how, !.outcome = outcome]]
        /\ Answer(c, outcome) \/ call[c].at = "pack" => how = "returned"
  <2>1. CASE End(c, outcome) /\ call[c].at = "pack"
    BY <2>1 DEF End
  <2>2. CASE End(c, outcome) /\ call[c].at # "pack"
    BY <2>2 DEF End, Answer
  <2>3. CASE Answer(c, outcome)
    BY <2>3 DEF Answer
  <2> QED
    BY <2>1, <2>2, <2>3
<1>3. [call[c] EXCEPT !.at = how, !.outcome = outcome] \in CallState
  BY <1>1 DEF CallState
<1> QED
  BY <1>1, <1>2, <1>3 DEF CallState

\* What a step of call c does to the calls: c moves, the others do not.
Moves(c) ==
  /\ call' \in [Calls -> CallState]
  /\ \A d \in Calls \ {c} : call'[d] = call[d]
  /\ call[c].at \notin {"idle", "returned"} /\ call'[c].at # "idle"

LEMMA SandboxStep ==
  ASSUME call \in [Calls -> CallState], NEW c \in Calls, NEW source,
         Expected(c) \in Contents, UNCHANGED base, InSandbox(c),
         Execute(c, source, Expected(c))
  PROVE  Moves(c) /\ InSandbox(c)'
<1>0. call[c] \in CallState /\ Expected(c)' = Expected(c)
  BY DEF Expected
<1>1. CASE \E o \in Outcomes : End(c, o) /\ (o \in Counted => call[c].remote = Expected(c))
                              /\ call[c].at \in {"pack", "create", "extract", "install", "test"}
  <2>1. PICK o \in Outcomes : End(c, o) /\ (o \in Counted => call[c].remote = Expected(c))
                              /\ call[c].at \in {"pack", "create", "extract", "install", "test"}
    BY <1>1
  <2>2. /\ Moves(c)
        /\ call'[c].at \in {"returned", "terminate"} /\ call'[c].outcome = o
        /\ call'[c].remote = call[c].remote /\ call'[c].sandbox = call[c].sandbox
        /\ call[c].at = "pack" => call'[c].at = "returned"
    BY <2>1, Ending DEF Moves
  <2>3. Returned(c)' => call'[c].sandbox # "up" \/ call'[c].cleanupError
    <3>1. call[c].at = "pack" \/ call'[c].at = "terminate"
      BY <2>1, <1>0 DEF End, CallState
    <3> QED
      BY <3>1, <2>2 DEF InSandbox, Returned
  <2> QED
    BY <2>1, <2>2, <2>3, <1>0 DEF InSandbox, Counted
<1>2. CASE /\ call[c].at = "pack"
           /\ call' = [call EXCEPT ![c].at = "create", ![c].archive = Expected(c)]
  BY <1>0, <1>2 DEF Moves, InSandbox, CallState, Returned, Counted
<1>3. CASE Create(c)
  BY <1>0, <1>3 DEF Create, Moves, InSandbox, CallState, Returned, Counted
<1>4. CASE Extract(c)
  BY <1>0, <1>4 DEF Extract, Moves, InSandbox, CallState, Returned, Counted, Outcomes
<1>5. CASE call[c].at = "install" /\ call' = [call EXCEPT ![c].at = "test"]
  BY <1>0, <1>5 DEF Moves, InSandbox, CallState, Returned, Counted
<1>6. CASE Terminate(c)
  BY <1>0, <1>6 DEF Terminate, Moves, InSandbox, CallState, Returned, Counted
<1>7. Pack(c, source, Expected(c)) => <1>1!1 \/ <1>2!1
  BY DEF Pack, Outcomes, Counted
<1>8. Install(c) => <1>1!1 \/ <1>5!1
  BY DEF Install, Outcomes, Counted
<1>9. Test(c) \/ Break(c) => <1>1!1
  BY DEF Test, Break, InSandbox, Outcomes, Counted
<1> QED
  BY <1>1, <1>2, <1>3, <1>4, <1>5, <1>6, <1>7, <1>8, <1>9 DEF Execute

LEMMA InPlaceStep ==
  ASSUME call \in [Calls -> CallState], NEW c \in Calls,
         NEW found \in Contents \cup {NoContent, Partial}, NEW manifest,
         UNCHANGED <<base, pc>>, InPlace(c),
         call[c].at = "test" /\ c # "baseline" /\ pc \notin Ended => found = Expected(c),
         call[c].at = "test" /\ c = "collect" => pc \notin Ended,
         ExecuteHere(c, found, manifest)
  PROVE  Moves(c) /\ InPlace(c)'
<1>0. call[c] \in CallState /\ Expected(c)' = Expected(c)
  BY DEF Expected
<1>1. CASE \E o \in Outcomes \ Counted : Answer(c, o) /\ call[c].at \in {"pack", "install"}
  BY <1>0, <1>1, Ending DEF Moves, InPlace, CallState, Returned
<1>2. CASE \/ call[c].at = "pack" /\ call' = [call EXCEPT ![c].at = "install"]
           \/ call[c].at = "install" /\ call' = [call EXCEPT ![c].at = "test"]
  BY <1>0, <1>2 DEF Moves, InPlace, CallState, Returned, Counted
<1>3. CASE TestHere(c, found)
  <2>1. PICK o \in Outcomes :
          call' = [call EXCEPT ![c] = [call[c] EXCEPT !.at = "returned", !.remote = found,
                                                      !.outcome = o]]
    BY <1>3 DEF TestHere
  <2>2. [call[c] EXCEPT !.at = "returned", !.remote = found, !.outcome = o] \in CallState
    BY <1>0 DEF CallState
  <2>3. call[c].at = "test"
    BY <1>3 DEF TestHere
  <2> QED
    BY <1>0, <2>1, <2>2, <2>3 DEF Moves, InPlace, CallState, Returned
<1>4. Check(c, found, manifest) => <1>1!1 \/ <1>2!1
  BY DEF Check, Outcomes, Counted
<1>5. InstallHere(c) => <1>1!1 \/ <1>2!1
  BY DEF InstallHere, Outcomes, Counted
<1> QED
  BY <1>1, <1>2, <1>3, <1>4, <1>5 DEF ExecuteHere

\* TypeOK, with the parts a proof needs by name.
LEMMA Types ==
  ASSUME TypeOK
  PROVE  /\ call \in [Calls -> CallState] /\ executor \in [Calls -> {"sandbox", "local"}]
         /\ content \in [Dirs -> Contents \cup {NoContent, Partial}]
         /\ settled \in [Worlds -> Outcomes \cup {"none"}]
         /\ \A c \in Calls : Expected(c) \in Contents /\ Found(c) \in Contents \cup {NoContent, Partial}
<1>1. \A a, b \in BOOLEAN : Snapshot(base, a, b) \in Contents /\ Snapshot(tree, a, b) \in Contents
  BY DEF TypeOK, Snapshot, Contents
<1>2. \A c \in Calls : Expected(c) \in Contents
  BY <1>1 DEF Expected
<1>3. \A c \in Calls : Found(c) \in Contents \cup {NoContent, Partial}
  BY <1>1, CallsAssumption DEF Found, TypeOK
<1> QED
  BY <1>2, <1>3 DEF TypeOK, CallState

\* What nobody makes or removes stays as it is.
LEMMA DisposalStays ==
  ASSUME Disposal, UNCHANGED <<pc, dir, content, removed>>
  PROVE  Disposal'
BY DEF Disposal, InUse

\* Leaving a stage tries to remove every directory that the stage has made.
LEMMA LeaveEffect ==
  ASSUME Isolation, pc \in {"copy", "plant", "collect", "compare", "verify"},
         NEW how, Leave(how)
  PROVE  /\ pc' = how /\ removed' = removed \cup Made /\ removed' \subseteq Dirs
         /\ content' \in [Dirs -> Contents \cup {NoContent, Partial}]
         /\ \A d \in Dirs : content'[d] # NoContent => d \in removed'
<1>1. /\ content \in [Dirs -> Contents \cup {NoContent, Partial}]
      /\ dir \in Dirs /\ removed \subseteq Dirs /\ Made \subseteq Dirs
  BY DEF Isolation, TypeOK, Made, Dirs, Worlds
<1>2. InUse \subseteq Made
  BY DEF Isolation, Progress, InUse, Made, Worlds
<1>3. /\ pc' = how /\ removed' = removed \cup Made
      /\ content' \in [Dirs -> Contents \cup {NoContent, Partial}]
      /\ \A d \in Dirs \ Made : content'[d] = content[d]
  BY <1>1 DEF Leave, Remove
<1> QED
  BY <1>1, <1>2, <1>3 DEF Isolation, Disposal

\* A call that moves was asked for; the run waits for it or has given it up.
LEMMA CalledKeeps ==
  ASSUME Isolation, NEW c \in Calls, Called(c)
  PROVE  Isolation'
<1>0. /\ UNCHANGED <<executor, tree, base, pc, reader, listed, shown, dir, content, removed, settled>>
      /\ \A d \in Calls : Expected(d)' = Expected(d)
  BY DEF Called, runVars, packVars, dirVars, Expected
<1>1. call \in [Calls -> CallState] /\ Proper(c) /\ Progress /\ Directories
  BY Types DEF Isolation
<1>2. ASSUME executor[c] = "sandbox" PROVE Moves(c) /\ Proper(c)'
  <2>1. Execute(c, Found(c), Expected(c))
    BY <1>2 DEF Called
  <2>2. Moves(c) /\ InSandbox(c)'
    BY <1>0, <1>1, <1>2, <2>1, Types, SandboxStep DEF Isolation, Proper
  <2> QED
    BY <1>0, <1>2, <2>2 DEF Proper
<1>3. ASSUME executor[c] = "local" PROVE Moves(c) /\ Proper(c)'
  <2>1. ExecuteHere(c, Found(c), Expected(c))
    BY <1>3 DEF Called
  <2>2. call[c].at = "test" /\ c = "collect" => pc = "collect"
    BY <1>1 DEF Progress, Returned, Idling, Failed, Ended, Worlds
  <2>3. call[c].at = "test" /\ c \in Worlds /\ pc \notin Ended => pc = "verify"
    BY <1>1 DEF Progress, Idling
  <2>4. call[c].at = "test" /\ c # "baseline" /\ pc \notin Ended => Found(c) = Expected(c)
    BY <1>1, <2>2, <2>3, CallsAssumption DEF Directories, Found, Dirs
  <2>5. Moves(c) /\ InPlace(c)'
    BY <1>0, <1>1, <1>3, <2>1, <2>2, <2>4, Types, InPlaceStep DEF Isolation, Proper, Ended
  <2> QED
    BY <1>0, <1>3, <2>5 DEF Proper
<1>4. Moves(c) /\ Proper(c)'
  BY <1>2, <1>3, Types DEF Isolation
<1>5. ASSUME NEW d \in Calls, d # c PROVE Proper(d)'
  BY <1>0, <1>4, <1>5 DEF Isolation, Moves, Proper, InSandbox, InPlace, Returned
<1>6. TypeOK'
  <2>1. \A d \in Calls : Returned(d)' => call'[d].outcome \in Outcomes
    BY <1>0, <1>4, <1>5, Types DEF Isolation, Proper, InSandbox, InPlace, Returned
  <2> QED
    BY <1>0, <1>4, <2>1 DEF Isolation, TypeOK, Moves, CallState
<1>7. \A w \in Worlds : Settled(w)'
  BY <1>0, <1>4, CallsAssumption DEF Isolation, Settled, Moves, Returned, Dirs
<1>8. Progress'
  <2>1. \A d \in Calls : /\ call'[d].at = "idle" <=> call[d].at = "idle"
                         /\ Returned(d) => call'[d] = call[d]
    BY <1>4 DEF Moves, Returned
  <2> QED
    BY <1>0, <1>1, <1>4, <2>1, CallsAssumption
    DEF Progress, Moves, Idling, Returned, Clean, Dirs, Worlds
<1>9. Directories' /\ Reading' /\ ShownIsTheBaseline'
  BY <1>0, CallsAssumption
  DEF Isolation, Directories, Reading, ShownIsTheBaseline, Dirs, Worlds, Snapshot
<1>10. Disposal'
  BY <1>0, DisposalStays DEF Isolation
<1> QED
  BY <1>4, <1>5, <1>6, <1>7, <1>8, <1>9, <1>10 DEF Isolation

\* What the run does with its calls at rest leaves each of them proper.
LEMMA CallsKept ==
  ASSUME Isolation, UNCHANGED <<call, executor, base>>, pc \notin Ended \/ pc' = pc
  PROVE  /\ \A c \in Calls : Proper(c)' /\ Expected(c)' = Expected(c)
                            /\ Returned(c)' = Returned(c) /\ Clean(c)' = Clean(c)
         /\ UNCHANGED settled => \A w \in Worlds : Settled(w)'
<1>1. \A c : Expected(c)' = Expected(c) /\ Returned(c)' = Returned(c) /\ Clean(c)' = Clean(c)
  BY DEF Expected, Returned, Clean
<1> QED
  BY <1>1, CallsAssumption DEF Isolation, Proper, InSandbox, InPlace, Settled, Returned, Dirs

\* The live tree may change at any moment.
LEMMA EditKeeps ==
  ASSUME Isolation, Edit
  PROVE  Isolation'
<1>0. UNCHANGED <<call, executor, base, pc, reader, listed, shown, dir, content, removed, settled>>
  BY DEF Edit, packVars, dirVars
<1>1. TypeOK'
  BY <1>0 DEF Edit, Isolation, TypeOK, Returned
<1>2. Progress' /\ Directories' /\ Reading' /\ ShownIsTheBaseline'
  BY <1>0, CallsKept, CallsAssumption
  DEF Edit, Isolation, Progress, Directories, Reading, ShownIsTheBaseline, Idling, Dirs, Worlds,
      Snapshot
<1>3. Disposal'
  BY <1>0, DisposalStays DEF Isolation
<1> QED
  BY <1>0, <1>1, <1>2, <1>3, CallsKept DEF Isolation

\* From the baseline's return to the candidate's plan nothing is copied and no
\* call is made; what is shown is what the manifest of the packing has.
LEMMA PackingKeeps ==
  ASSUME Isolation,
         \/ BaselineReturns \/ ListSource \/ ReadFile
         \/ PlannerAnswers \/ AnalystAnswers \/ GeneratorAnswers \/ PlanCandidate
  PROVE  Isolation'
<1>0. /\ UNCHANGED <<call, executor, tree, base, dir, content, removed, settled>>
      /\ pc \in {"baseline", "list", "read", "ask", "propose"}
      /\ pc' \in {"list", "read", "ask", "propose", "copy", "not_ready", "error", "rejected",
                   "inconclusive"}
      /\ pc = "baseline" =>
           Returned("baseline") /\ (pc' \in {"not_ready", "error"} \/ Clean("baseline"))
  BY DEF BaselineReturns, ListSource, ReadFile, PlannerAnswers, AnalystAnswers, GeneratorAnswers,
         PlanCandidate, PackFor, Packed, packVars, dirVars
<1>1. TypeOK'
  <2>1. reader' \in {"run", "planner", "analyst", "generator"} /\ listed' \in Versions
        /\ shown' \subseteq Versions
    BY DEF Isolation, TypeOK, BaselineReturns, ListSource, ReadFile, PlannerAnswers, AnalystAnswers,
           GeneratorAnswers, PlanCandidate, PackFor, Packed, packVars, dirVars
  <2> QED
    BY <1>0, <2>1 DEF Isolation, TypeOK, Returned, Ended
<1>2. pc \notin Ended
  BY <1>0 DEF Ended
<1>3. Progress'
  <2>1. dir = "collect" /\ Idling(Dirs) /\ Returned("baseline") /\ (\A w \in Worlds : settled[w] = "none")
    BY <1>0, <1>2 DEF Isolation, Progress, Idling, Failed, Ended, Dirs
  <2>2. pc' \notin {"manifest", "baseline", "collect", "compare", "verify", "verified"}
    BY <1>0
  <2>3. pc' \notin Failed => Clean("baseline")
    BY <1>0 DEF Isolation, Progress, Failed, Ended
  <2>4. UNCHANGED call /\ UNCHANGED <<dir, settled>> /\ Returned("baseline")'
        /\ (Clean("baseline") => Clean("baseline")')
    BY <1>0, <2>1 DEF Returned, Clean
  <2>5. \A c \in Calls : call[c].at = "idle" \/ Returned(c)
    BY <2>1, CallsAssumption DEF Idling
  <2> QED
    BY <2>1, <2>2, <2>3, <2>4, <2>5 DEF Progress, Idling, Returned, Failed, Dirs
<1>4. Directories'
  BY <1>0, <1>2, CallsKept DEF Isolation, Progress, Directories
<1>5. Reading' /\ ShownIsTheBaseline'
  BY <1>0
  DEF Isolation, Reading, ShownIsTheBaseline, BaselineReturns, ListSource, ReadFile,
      PlannerAnswers, AnalystAnswers, GeneratorAnswers, PlanCandidate, PackFor, Packed, packVars
<1>6. Disposal'
  BY <1>0, <1>2 DEF Isolation, Progress, Disposal, InUse
<1> QED
  BY <1>0, <1>1, <1>2, <1>3, <1>4, <1>5, <1>6, CallsKept DEF Isolation

\* Calls that begin know nothing yet; the others are as they were.
LEMMA Begins ==
  ASSUME Isolation, NEW cs \in SUBSET Calls, call' = Begun(cs), UNCHANGED executor
  PROVE  /\ call' \in [Calls -> CallState]
         /\ \A c \in cs : call'[c].at = "pack" /\ Proper(c)'
         /\ \A c \in Calls \ cs : call'[c] = call[c]
<1>1. [Idle EXCEPT !.at = "pack"] \in CallState
  BY DEF Idle, CallState
<1>2. \A c \in cs : call'[c] = [Idle EXCEPT !.at = "pack"]
  BY DEF Begun
<1>3. \A c \in Calls \ cs : call'[c] = call[c]
  BY DEF Begun
<1>4. call' \in [Calls -> CallState]
  BY <1>1, Types DEF Begun, Isolation
<1>5. \A c \in cs : Proper(c)'
  BY <1>2 DEF Idle, Proper, InSandbox, InPlace, Returned, Counted
<1> QED
  BY <1>2, <1>3, <1>4, <1>5 DEF Idle

\* A step that begins calls and keeps the baseline's manifest.
LEMMA BeginsKeeps ==
  ASSUME Isolation, NEW cs \in SUBSET Calls, call' = Begun(cs), UNCHANGED <<executor, base, settled>>,
         pc \notin Ended, \A w \in Worlds : settled[w] = "none"
  PROVE  /\ \A c \in Calls : Proper(c)' /\ Expected(c)' = Expected(c)
         /\ \A w \in Worlds : Settled(w)'
         /\ \A c \in Calls : Returned(c)' => call'[c].outcome \in Outcomes
<1>1. \A c : Expected(c)' = Expected(c)
  BY DEF Expected
<1>2. ASSUME NEW c \in Calls PROVE Proper(c)'
  BY <1>1, Begins DEF Isolation, Proper, InSandbox, InPlace, Returned
<1>3. \A c \in Calls : Returned(c)' => call'[c].outcome \in Outcomes
  BY <1>2, Begins, Types DEF Isolation, Proper, InSandbox, InPlace, Returned
<1> QED
  BY <1>1, <1>2, <1>3 DEF Settled

LEMMA TakeManifestKeeps ==
  ASSUME Isolation, TakeManifest
  PROVE  Isolation'
<1>0. /\ UNCHANGED <<executor, tree, reader, listed, shown, dir, content, removed, settled>>
      /\ pc = "manifest" /\ base' = tree /\ base' \in Versions
      /\ Idling(Calls) /\ dir = "collect"
      /\ \A w \in Worlds : settled[w] = "none"
  BY DEF TakeManifest, packVars, dirVars, Isolation, TypeOK, Progress, Directories, Ended
<1>1. /\ \/ pc' = "baseline" /\ call'["baseline"].at = "pack"
         \/ pc' = "error" /\ call'["baseline"].at = "idle"
      /\ \A c \in Calls : Proper(c)' /\ ~Returned(c)'
      /\ Idling(Dirs)'
      /\ call' \in [Calls -> CallState]
  <2>1. \A c \in Calls : Proper(c) /\ call[c].at = "idle"
    BY <1>0 DEF Isolation, Idling
  <2>2. ASSUME NEW c \in Calls, call'[c] = call[c] PROVE Proper(c)'
    BY <1>0, <2>1, <2>2 DEF Proper, InSandbox, InPlace, Returned, Counted
  <2>3. CASE pc' = "baseline" /\ call' = Begun({"baseline"})
    <3>1. \A c \in Calls \ {"baseline"} : call'[c] = call[c]
      BY <2>3, CallsAssumption, Begins, <1>0
    <3>2. call'["baseline"].at = "pack" /\ Proper("baseline")' /\ call' \in [Calls -> CallState]
      BY <2>3, CallsAssumption, Begins, <1>0
    <3> QED
      BY <2>1, <2>2, <2>3, <3>1, <3>2, CallsAssumption DEF Returned, Idling, Dirs, Worlds
  <2>4. CASE pc' = "error" /\ UNCHANGED call
    BY <2>1, <2>2, <2>4, Types, CallsAssumption DEF Isolation, Returned, Idling
  <2> QED
    BY <2>3, <2>4 DEF TakeManifest
<1>2. TypeOK'
  BY <1>0, <1>1 DEF Isolation, TypeOK, CallState, Ended
<1>3. Progress'
  BY <1>0, <1>1, CallsAssumption DEF Progress, Idling, Ended, Failed, Dirs, Worlds
<1>4. Directories' /\ Reading' /\ ShownIsTheBaseline' /\ \A w \in Worlds : Settled(w)'
  BY <1>0, <1>1 DEF Directories, Reading, ShownIsTheBaseline, Settled
<1>5. Disposal'
  BY <1>0, <1>1 DEF Isolation, Disposal, InUse, Ended
<1> QED
  BY <1>1, <1>2, <1>3, <1>4, <1>5 DEF Isolation

\* A copy is of the baseline or is not made.
LEMMA CopyKeeps ==
  ASSUME Isolation, Copy
  PROVE  Isolation'
<1>0. /\ UNCHANGED <<call, executor, tree, base, reader, listed, shown, dir, settled>>
      /\ pc = "copy" /\ pc \notin Ended
      /\ content \in [Dirs -> Contents \cup {NoContent, Partial}] /\ dir \in Dirs
  BY Types DEF Copy, packVars, dirVars, Isolation, TypeOK, Ended
<1>1. \/ pc' = "stale" /\ Leave("stale")
      \/ /\ pc' = "plant" /\ tree = base /\ UNCHANGED removed
         /\ content' = [content EXCEPT ![dir] = Snapshot(base, dir = "mutant", FALSE)]
  BY DEF Copy, Leave
<1>2. Snapshot(base, dir = "mutant", FALSE) \in Contents
  BY DEF Isolation, TypeOK, Snapshot, Contents
<1>3. TypeOK'
  BY <1>0, <1>1, <1>2, LeaveEffect DEF Isolation, TypeOK, Ended, Returned
<1>4. Progress'
  BY <1>0, <1>1, CallsAssumption
  DEF Isolation, Progress, Idling, Ended, Failed, Dirs, Worlds, Returned, Clean
<1>5. Directories'
  BY <1>0, <1>1, CallsKept, CallsAssumption
  DEF Isolation, Directories, Dirs, Worlds, Snapshot
<1>6. Reading' /\ ShownIsTheBaseline'
  BY <1>0, <1>1 DEF Isolation, Reading, ShownIsTheBaseline
<1>7. Disposal'
  <2>1. CASE Leave("stale")
    BY <1>0, <2>1, LeaveEffect DEF Disposal, Ended
  <2>2. CASE /\ pc' = "plant" /\ UNCHANGED removed
             /\ content' = [content EXCEPT ![dir] = Snapshot(base, dir = "mutant", FALSE)]
    BY <1>0, <2>2 DEF Isolation, Disposal, InUse, Ended
  <2> QED
    BY <1>1, <2>1, <2>2
<1> QED
  BY <1>0, <1>3, <1>4, <1>5, <1>6, <1>7, CallsKept DEF Isolation

\* With the candidate in it, a copy is what its call is meant to find.
LEMMA PlantKeeps ==
  ASSUME Isolation, Plant
  PROVE  Isolation'
<1>0. /\ UNCHANGED <<executor, tree, base, reader, listed, shown, settled>>
      /\ pc = "plant" /\ pc \notin Ended
      /\ content \in [Dirs -> Contents \cup {NoContent, Partial}] /\ dir \in Dirs
      /\ content[dir] = Snapshot(base, dir = "mutant", FALSE)
      /\ Idling(Worlds) /\ (\A w \in Worlds : settled[w] = "none")
      /\ dir = "collect" => Idling({"collect"})
  BY Types DEF Plant, packVars, Isolation, TypeOK, Ended, Directories, Progress
<1>1. CASE /\ WriteCandidate /\ UNCHANGED removed
           /\ \/ dir = "collect" /\ pc' = "collect" /\ call' = Begun({"collect"}) /\ UNCHANGED dir
              \/ BuildNextWorld
  <2>1. content' = [content EXCEPT ![dir] = Snapshot(base, dir = "mutant", TRUE)]
    <3>1. content' = [content EXCEPT ![dir] = [content[dir] EXCEPT !.candidate = TRUE]]
      BY <1>1 DEF WriteCandidate
    <3>2. ASSUME NEW before \in Contents, NEW after \in Contents, after.candidate,
                 after.source = before.source, after.mutated = before.mutated
          PROVE  [before EXCEPT !.candidate = TRUE] = after
      BY <3>2 DEF Contents
    <3>3. \A b \in BOOLEAN : Snapshot(base, dir = "mutant", b) \in Contents
      BY DEF Isolation, TypeOK, Snapshot, Contents
    <3>4. PICK before \in Contents, after \in Contents :
            /\ before = Snapshot(base, dir = "mutant", FALSE)
            /\ after = Snapshot(base, dir = "mutant", TRUE)
      BY <3>3
    <3>5. after.candidate /\ after.source = before.source /\ after.mutated = before.mutated
      BY <3>4 DEF Snapshot
    <3> QED
      BY <1>0, <3>1, <3>2, <3>4, <3>5
  <2>2. Snapshot(base, dir = "mutant", TRUE) \in Contents
    BY DEF Isolation, TypeOK, Snapshot, Contents
  <2>3. content' \in [Dirs -> Contents \cup {NoContent, Partial}]
    BY <1>0, <2>1, <2>2
  <2>4. CASE dir = "collect" /\ pc' = "collect" /\ call' = Begun({"collect"}) /\ UNCHANGED dir
    <3>1. {"collect"} \in SUBSET Calls
      BY CallsAssumption DEF Dirs
    <3>2. /\ \A c \in Calls : Proper(c)' /\ Expected(c)' = Expected(c)
          /\ \A w \in Worlds : Settled(w)'
          /\ \A c \in Calls : Returned(c)' => call'[c].outcome \in Outcomes
      BY <1>0, <2>4, <3>1, BeginsKeeps
    <3>3. call' \in [Calls -> CallState] /\ \A c \in Calls \ {"collect"} : call'[c] = call[c]
      BY <1>0, <2>4, <3>1, Begins
    <3>4. TypeOK'
      BY <1>0, <1>1, <2>3, <2>4, <3>2, <3>3 DEF Isolation, TypeOK, CallState
    <3>5. Progress'
      BY <1>0, <2>4, <3>3, CallsAssumption
      DEF Isolation, Progress, Idling, Ended, Failed, Dirs, Worlds, Returned, Clean
    <3>6. Directories'
      BY <1>0, <2>1, <2>4 DEF Directories, Expected, Snapshot
    <3>7. Disposal'
      BY <1>0, <1>1, <2>1, <2>4 DEF Isolation, Disposal, InUse, Ended
    <3> QED
      BY <1>0, <2>4, <3>2, <3>4, <3>5, <3>6, <3>7 DEF Isolation, Reading, ShownIsTheBaseline
  <2>5. CASE BuildNextWorld
    <3>1. UNCHANGED call /\ pc' \in {"copy", "compare"} /\ dir' = "mutant"
          /\ dir \in Worlds /\ (pc' = "copy" <=> dir = "original")
      BY <2>5 DEF BuildNextWorld, Worlds
    <3>2. TypeOK'
      BY <1>0, <1>1, <2>3, <3>1 DEF Isolation, TypeOK, Dirs, Worlds, Returned
    <3>3. Progress'
      BY <1>0, <3>1, CallsAssumption
      DEF Isolation, Progress, Idling, Ended, Failed, Dirs, Worlds, Returned, Clean
    <3>4. Directories'
      BY <1>0, <2>1, <3>1 DEF Isolation, Directories, Expected, Snapshot, Dirs, Worlds
    <3>5. Reading' /\ ShownIsTheBaseline'
      BY <1>0, <3>1 DEF Isolation, Reading, ShownIsTheBaseline
    <3>6. Disposal'
      BY <1>0, <1>1, <2>1, <3>1 DEF Isolation, Disposal, InUse, Ended, Worlds, Dirs
    <3> QED
      BY <1>0, <3>1, <3>2, <3>3, <3>4, <3>5, <3>6, CallsKept DEF Isolation
  <2> QED
    BY <1>1, <2>4, <2>5
<1>2. CASE Leave("error") /\ UNCHANGED <<dir, call>>
  <2>1. /\ pc' = "error" /\ removed' \subseteq Dirs
        /\ content' \in [Dirs -> Contents \cup {NoContent, Partial}]
        /\ Disposal'
    BY <1>0, <1>2, LeaveEffect DEF Disposal, Ended
  <2>2. TypeOK'
    BY <1>0, <1>2, <2>1 DEF Isolation, TypeOK, Ended, Returned
  <2>3. Progress'
    BY <1>0, <1>2, <2>1, CallsAssumption
    DEF Isolation, Progress, Idling, Ended, Failed, Dirs, Worlds, Returned, Clean
  <2> QED
    BY <1>0, <1>2, <2>1, <2>2, <2>3, CallsKept
    DEF Isolation, Directories, Reading, ShownIsTheBaseline
<1> QED
  BY <1>1, <1>2 DEF Plant

LEMMA CollectionReturnsKeeps ==
  ASSUME Isolation, CollectionReturns
  PROVE  Isolation'
<1>0. /\ UNCHANGED <<call, executor, tree, base, reader, listed, shown, settled>>
      /\ pc = "collect" /\ pc \notin Ended /\ dir' = "original" /\ dir = "collect"
      /\ Returned("collect") /\ Returned("baseline") /\ Clean("baseline")
      /\ Idling(Worlds) /\ (\A w \in Worlds : settled[w] = "none")
      /\ pc' \in {"copy", "unavailable", "rejected"}
      /\ pc' = "copy" => call["collect"].outcome = "PASS"
      /\ Leave(pc')
  BY DEF CollectionReturns, Leave, packVars, Isolation, Ended, Failed, Progress
<1>4. /\ removed' = removed \cup {"collect"} /\ removed' \subseteq Dirs
      /\ content' \in [Dirs -> Contents \cup {NoContent, Partial}]
      /\ \A d \in Dirs : content'[d] # NoContent => d \in removed'
  BY <1>0, LeaveEffect DEF Made
<1>1. TypeOK'
  BY <1>0, <1>4 DEF Isolation, TypeOK, Ended, Returned, Dirs, Worlds
<1>2. Progress'
  BY <1>0, CallsAssumption DEF Progress, Idling, Ended, Failed, Dirs, Worlds, Returned, Clean
<1>3. Directories' /\ Reading' /\ ShownIsTheBaseline'
  BY <1>0 DEF Isolation, Directories, Reading, ShownIsTheBaseline
<1>5. Disposal'
  BY <1>0, <1>4 DEF Isolation, Disposal
<1> QED
  BY <1>0, <1>1, <1>2, <1>3, <1>5, CallsKept DEF Isolation

LEMMA CompareKeeps ==
  ASSUME Isolation, Compare
  PROVE  Isolation'
<1>0. /\ UNCHANGED <<executor, tree, base, reader, listed, shown, dir, settled>>
      /\ pc = "compare" /\ pc \notin Ended
      /\ \A w \in Worlds : content[w] = Expected(w)
      /\ Idling(Worlds) /\ (\A w \in Worlds : settled[w] = "none")
      /\ pc' = "verify" /\ call' = Begun(Worlds) /\ UNCHANGED <<content, removed>>
      /\ Worlds \in SUBSET Calls
  BY CallsAssumption DEF Compare, packVars, Isolation, Ended, Progress, Directories, Dirs
<1>1. /\ \A c \in Calls : Proper(c)' /\ Expected(c)' = Expected(c)
      /\ \A w \in Worlds : Settled(w)'
      /\ \A c \in Calls : Returned(c)' => call'[c].outcome \in Outcomes
  BY <1>0, BeginsKeeps
<1>2. call' \in [Calls -> CallState] /\ \A c \in Calls \ Worlds : call'[c] = call[c]
  BY <1>0, Begins
<1>3. TypeOK'
  BY <1>0, <1>1, <1>2 DEF Isolation, TypeOK, CallState
<1>4. Progress'
  BY <1>0, <1>2, CallsAssumption
  DEF Isolation, Progress, Idling, Ended, Failed, Dirs, Worlds, Returned, Clean
<1>5. Directories'
  BY <1>0, <1>1 DEF Directories
<1>6. Reading' /\ ShownIsTheBaseline'
  BY <1>0 DEF Isolation, Reading, ShownIsTheBaseline
<1>7. Disposal'
  BY <1>0 DEF Isolation, Disposal, InUse, Ended
<1> QED
  BY <1>1, <1>3, <1>4, <1>5, <1>6, <1>7 DEF Isolation

\* An answer that comes in time is the call's own, on its own world.
LEMMA SettleKeeps ==
  ASSUME Isolation, NEW w \in Worlds, Settle(w)
  PROVE  Isolation'
<1>0. /\ UNCHANGED <<call, executor, tree, base, pc, reader, listed, shown, dir, content, removed>>
      /\ pc = "verify" /\ pc \notin Ended /\ w \in Calls
      /\ settled \in [Worlds -> Outcomes \cup {"none"}]
      /\ settled' = [settled EXCEPT ![w] = IF Returned(w) THEN call[w].outcome ELSE "TIMEOUT"]
  BY CallsAssumption, Types DEF Settle, packVars, dirVars, Isolation, Ended, Dirs
<1>1. Returned(w) => call[w].outcome \in Outcomes
  BY <1>0 DEF Isolation, TypeOK
<1>2. settled' \in [Worlds -> Outcomes \cup {"none"}]
  BY <1>0, <1>1 DEF Outcomes
<1>3. TypeOK'
  BY <1>0, <1>2 DEF Isolation, TypeOK, Returned
<1>4. Returned(w) /\ call[w].outcome \in Counted => call[w].remote = Expected(w)
  BY <1>0, CallsAssumption DEF Isolation, Proper, InSandbox, InPlace, Returned, Worlds
<1>5. \A v \in Worlds : Settled(v)'
  <2>1. Settled(w)'
    BY <1>0, <1>4, CallsKept DEF Settled
  <2>2. ASSUME NEW v \in Worlds, v # w PROVE Settled(v)'
    BY <1>0, <2>2, CallsKept, CallsAssumption DEF Isolation, Settled, Dirs
  <2> QED
    BY <2>1, <2>2
<1>6. Progress'
  BY <1>0 DEF Isolation, Progress, Idling, Ended, Failed, Returned, Clean
<1>7. Directories' /\ Reading' /\ ShownIsTheBaseline'
  BY <1>0, CallsKept, CallsAssumption
  DEF Isolation, Directories, Reading, ShownIsTheBaseline, Dirs
<1>8. Disposal'
  BY <1>0, DisposalStays DEF Isolation
<1> QED
  BY <1>0, <1>3, <1>5, <1>6, <1>7, <1>8, CallsKept DEF Isolation

LEMMA JudgeKeeps ==
  ASSUME Isolation, Judge
  PROVE  Isolation'
<1>0. /\ UNCHANGED <<call, executor, tree, base, reader, listed, shown, dir, settled>>
      /\ pc = "verify" /\ pc \notin Ended /\ Leave(pc')
      /\ \A w \in Worlds : settled[w] # "none"
      /\ pc' \in {"failed_original", "verified", "inconclusive"}
      /\ pc' = "verified" => settled["original"] = "PASS" /\ settled["mutant"] = "TEST_FAIL"
  BY DEF Judge, Leave, Verdict, packVars, Isolation, Ended
<1>1. TypeOK'
  BY <1>0, LeaveEffect DEF Isolation, TypeOK, Ended, Returned
<1>2. Progress'
  <2>1. \A w \in Worlds : Returned(w) \/ settled[w] = "TIMEOUT"
    BY <1>0 DEF Isolation, Settled
  <2> QED
    BY <1>0, <2>1, CallsAssumption
    DEF Isolation, Progress, Idling, Ended, Failed, Dirs, Worlds, Returned, Clean
<1>3. Directories' /\ Reading' /\ ShownIsTheBaseline'
  BY <1>0 DEF Isolation, Directories, Reading, ShownIsTheBaseline
<1>4. Disposal'
  BY <1>0, LeaveEffect DEF Disposal, Ended
<1> QED
  BY <1>0, <1>1, <1>2, <1>3, <1>4, CallsKept DEF Isolation

-----------------------------------------------------------------------------

\* What calls, directories and the place of the run have to do with one another
\* holds in every state.
THEOREM IsolationInvariant == Spec => []Isolation
<1>1. Init => Isolation
  <2> SUFFICES ASSUME Init PROVE Isolation
    OBVIOUS
  <2>1. /\ call = [c \in Calls |-> Idle] /\ tree \in Versions /\ base = tree
        /\ content = [d \in Dirs |-> NoContent] /\ removed = {}
        /\ pc = "manifest" /\ dir = "collect" /\ reader = "run" /\ listed = tree /\ shown = {}
        /\ settled = [w \in Worlds |-> "none"]
        /\ executor \in [Calls -> {"sandbox", "local"}]
    BY DEF Init, SandboxInit
  <2>2. Idle \in CallState
    BY DEF Idle, CallState
  <2>3. TypeOK
    BY <2>1, <2>2 DEF TypeOK, CallState, Returned, Idle, Dirs
  <2>4. \A c \in Calls : Proper(c)
    BY <2>1 DEF Idle, Proper, InSandbox, InPlace, Returned, Counted
  <2>5. Progress /\ \A w \in Worlds : Settled(w)
    BY <2>1, CallsAssumption DEF Progress, Settled, Idling, Idle, Ended, Failed, Dirs
  <2> QED
    BY <2>1, <2>3, <2>4, <2>5
    DEF Isolation, Directories, Disposal, InUse, Reading, ShownIsTheBaseline
<1>2. Isolation /\ [Next]_vars => Isolation'
  <2> SUFFICES ASSUME Isolation, [Next]_vars PROVE Isolation'
    OBVIOUS
  <2>1. CASE UNCHANGED vars
    <3>1. UNCHANGED <<call, executor, tree, base, pc, reader, listed, shown, dir, content, removed, settled>>
      BY <2>1 DEF vars, runVars, packVars, dirVars
    <3>2. TypeOK' /\ Progress' /\ Directories' /\ Reading' /\ ShownIsTheBaseline'
      BY <3>1, CallsKept, CallsAssumption
      DEF Isolation, TypeOK, Progress, Directories, Reading, ShownIsTheBaseline, Idling, Returned,
          Clean, Dirs, Worlds, Snapshot
    <3>3. Disposal'
      BY <3>1, DisposalStays DEF Isolation
    <3> QED
      BY <3>1, <3>2, <3>3, CallsKept DEF Isolation
  <2> QED
    BY <2>1, EditKeeps, CalledKeeps, TakeManifestKeeps, PackingKeeps, CopyKeeps, PlantKeeps,
       CollectionReturnsKeeps, CompareKeeps, SettleKeeps, JudgeKeeps
    DEF Next
<1> QED
  BY <1>1, <1>2, PTL DEF Spec

\* Every call, directory, manifest and outcome is what the code can hold there.
THEOREM TypesHold == Spec => []TypeOK
<1>1. Isolation => TypeOK
  BY DEF Isolation
<1> QED
  BY <1>1, IsolationInvariant, PTL

\* An outcome that counts was pytest's on the snapshot of the manifest, however
\* the tree is edited under copies and transfers and however late a call is.
THEOREM CountedOutcomesAreMeant == Spec => []TestedWhatWasMeant
<1>1. Isolation => TestedWhatWasMeant
  <2> SUFFICES ASSUME Isolation, NEW c \in Calls
      PROVE  IF executor[c] = "sandbox"
             THEN call[c].outcome \in Counted => call[c].remote = Expected(c)
             ELSE c # "baseline" /\ Used(c) \in Counted => call[c].remote = Expected(c)
    BY DEF TestedWhatWasMeant, Counted
  <2>1. CASE executor[c] = "sandbox"
    BY <2>1 DEF Isolation, Proper, InSandbox
  <2>2. CASE executor[c] # "sandbox" /\ c \in Worlds
    BY <2>2 DEF Isolation, Settled, Used, Counted
  <2>3. CASE executor[c] # "sandbox" /\ c \notin Worlds
    BY <2>3, CallsAssumption DEF Isolation, Proper, InPlace, Used, Dirs
  <2> QED
    BY <2>1, <2>2, <2>3
<1> QED
  BY <1>1, IsolationInvariant, PTL

\* The baseline, the collection and the two worlds of a verified test are one
\* snapshot, mutated in the mutant world alone.
THEOREM VerifiedInOneSnapshot == Spec => []OneSnapshotVerified
<1>1. Isolation => OneSnapshotVerified
  <2> SUFFICES ASSUME Isolation, pc = "verified" PROVE OneSnapshotVerified
    BY DEF OneSnapshotVerified
  <2>1. /\ Returned("baseline") /\ Clean("baseline")
        /\ Returned("collect") /\ call["collect"].outcome = "PASS"
        /\ settled["original"] = "PASS" /\ settled["mutant"] = "TEST_FAIL"
    BY DEF Isolation, Progress, Failed
  <2>2. /\ \A w \in Worlds : Returned(w) /\ call[w].remote = Expected(w)
        /\ call["original"].outcome = "PASS" /\ call["mutant"].outcome = "TEST_FAIL"
    BY <2>1 DEF Isolation, Settled, Worlds, Counted
  <2>3. call["collect"].remote = Expected("collect")
    BY <2>1, CallsAssumption DEF Isolation, Proper, InSandbox, InPlace, Counted, Dirs
  <2>4. executor["baseline"] = "sandbox" => call["baseline"].remote = Expected("baseline")
    BY <2>1, CallsAssumption DEF Isolation, Proper, InSandbox, Counted, Clean
  <2>5. \A c \in Calls : Expected(c).source = base
    BY DEF Expected, Snapshot
  <2>6. call["mutant"].remote = [call["original"].remote EXCEPT !.mutated = TRUE]
    <3>1. ASSUME NEW before \in Contents, NEW after \in Contents, after.mutated,
                 after.source = before.source, after.candidate = before.candidate
          PROVE  after = [before EXCEPT !.mutated = TRUE]
      BY <3>1 DEF Contents
    <3>2. Expected("mutant") \in Contents /\ Expected("original") \in Contents
      BY Types, CallsAssumption DEF Isolation, Dirs, Worlds
    <3>3. /\ Expected("mutant").mutated /\ Expected("mutant").source = Expected("original").source
          /\ Expected("mutant").candidate = Expected("original").candidate
      BY DEF Expected, Snapshot
    <3> QED
      BY <2>2, <3>1, <3>2, <3>3 DEF Worlds
  <2>7. Expected("original") = Expected("collect")
    BY DEF Expected
  <2> QED
    BY <2>1, <2>2, <2>3, <2>4, <2>5, <2>6, <2>7, CallsAssumption
    DEF OneSnapshotVerified, Dirs, Worlds
<1> QED
  BY <1>1, IsolationInvariant, PTL

\* Whichever way the run ends, the removal of every directory it made was tried;
\* none was taken from a call that could still count, only calls given up as late
\* are still going, and no call that came back left a sandbox without saying so.
THEOREM RunsCleanUp == Spec => []NothingForgotten
<1>1. Isolation => NothingForgotten
  <2> SUFFICES ASSUME Isolation PROVE NothingForgotten
    OBVIOUS
  <2>1. pc \in Ended => \A d \in Dirs : content[d] # NoContent => d \in removed
    BY DEF Isolation, Disposal, InUse, Ended
  <2>2. ASSUME NEW c \in IF pc \in Ended THEN Calls ELSE removed
        PROVE  call[c].at = "idle" \/ Returned(c) \/ (c \in Worlds /\ settled[c] = "TIMEOUT")
    <3>1. CASE pc \in Ended
      BY <2>2, <3>1 DEF Isolation, Progress
    <3>2. CASE pc \notin Ended
      <4>1. c = "collect" /\ dir # "collect"
        BY <2>2, <3>2 DEF Isolation, Disposal
      <4> QED
        BY <3>2, <4>1 DEF Isolation, Progress, Failed
    <3> QED
      BY <3>1, <3>2
  <2>3. \A c \in Calls : Returned(c) /\ call[c].sandbox = "up" => call[c].cleanupError
    BY DEF Isolation, Proper, InSandbox, InPlace
  <2> QED
    BY <2>1, <2>2, <2>3 DEF NothingForgotten
<1> QED
  BY <1>1, IsolationInvariant, PTL

\* Whatever is edited between a manifest and the reads of a packing, or between
\* two prompts, a model is shown the baseline's source.
THEOREM ModelsSeeTheBaseline == Spec => []ShownIsTheBaseline
<1>1. Isolation => ShownIsTheBaseline
  BY DEF Isolation
<1> QED
  BY <1>1, IsolationInvariant, PTL

-----------------------------------------------------------------------------
(***************************************************************************)
(* What pack_context packs, for any files and any budget.  The packing is  *)
(* two recursive functions over the files; each bundle they go through is  *)
(* the bundle wanted of the files passed so far.                           *)
(***************************************************************************)

\* What holds at 0 and goes on holding, holds up to n.
LEMMA Induction ==
  ASSUME NEW n \in Nat, NEW W, 0 \in W, \A i \in 1..n : i - 1 \in W => i \in W
  PROVE  0..n \subseteq W
<1> DEFINE Out == {i \in 0..n : i \notin W}
<1>1. SUFFICES ASSUME Out # {} PROVE FALSE
  OBVIOUS
<1>2. Out \subseteq Nat
  OBVIOUS
<1>3. PICK i \in Out : \A j \in Out : <<j, i>> \notin OpToRel(<, Nat)
  BY <1>1, <1>2, NatLessThanWellFounded, WFMin
<1>4. i \in 1..n /\ i - 1 \in 0..n /\ i - 1 < i /\ i - 1 \in Nat /\ i \in Nat
  <2>1. i \in 0..n /\ i # 0
    BY <1>3
  <2> QED
    BY <2>1
<1>5. i - 1 \in Out
  BY <1>3, <1>4
<1>6. <<i - 1, i>> \in Nat \X Nat /\ <<i - 1, i>>[1] = i - 1 /\ <<i - 1, i>>[2] = i
  BY <1>4
<1>7. <<i - 1, i>> \in OpToRel(<, Nat)
  BY <1>4, <1>6 DEF OpToRel
<1> QED
  BY <1>3, <1>5, <1>7

Steps(g, a, step, n) == g[0] = a /\ \A i \in 1..n : g[i] = step[i][g[i - 1]]

\* A function may be defined by its first value and its steps.
LEMMA Recursion ==
  ASSUME NEW n \in Nat, NEW S, NEW a \in S, NEW step \in [1..n -> [S -> S]]
  PROVE  \E g \in [0..n -> S] : Steps(g, a, step, n)
<1> USE DEF Steps
<1> DEFINE Follows(g, m) == g[0] = a /\ \A i \in 1..m : g[i] = step[i][g[i - 1]]
           W == {m \in 0..n : \E g \in [0..m -> S] : Follows(g, m)}
<1>1. 0 \in W
  <2> DEFINE z == [i \in 0..0 |-> a]
  <2>1. z \in [0..0 -> S]
    OBVIOUS
  <2>2. z[0] = a /\ 1..0 = {}
    OBVIOUS
  <2> HIDE DEF z
  <2>3. Follows(z, 0)
    BY <2>2
  <2> QED
    BY <2>1, <2>3
<1>2. ASSUME NEW m \in 1..n, m - 1 \in W PROVE m \in W
  <2>1. PICK g \in [0..(m - 1) -> S] : Follows(g, m - 1)
    BY <1>2
  <2> DEFINE h == [i \in 0..m |-> IF i = m THEN step[m][g[m - 1]] ELSE g[i]]
  <2>2. m - 1 \in 0..(m - 1) /\ 0 \in 0..(m - 1) /\ m \in 0..m /\ m \in 0..n
    OBVIOUS
  <2>3. g[m - 1] \in S /\ step[m] \in [S -> S]
    BY <2>1, <2>2
  <2>4. step[m][g[m - 1]] \in S
    BY <2>3
  <2>5. \A i \in 0..m : i = m \/ i \in 0..(m - 1)
    OBVIOUS
  <2>6. h \in [0..m -> S]
    BY <2>1, <2>4, <2>5
  <2>7. \A i \in 0..(m - 1) : h[i] = g[i]
    BY <2>2
  <2>8. h[m] = step[m][h[m - 1]]
    BY <2>2, <2>7
  <2>9. ASSUME NEW i \in 1..(m - 1) PROVE h[i] = step[i][h[i - 1]]
    <3>1. i \in 0..(m - 1) /\ i - 1 \in 0..(m - 1)
      OBVIOUS
    <3>2. h[i] = g[i] /\ h[i - 1] = g[i - 1] /\ g[i] = step[i][g[i - 1]]
      BY <2>1, <2>7, <3>1
    <3> QED
      BY <3>2
  <2>10. h[0] = a
    BY <2>1, <2>2, <2>7
  <2> HIDE DEF h
  <2>11. Follows(h, m)
    <3>1. \A i \in 1..m : i = m \/ i \in 1..(m - 1)
      OBVIOUS
    <3> QED
      BY <2>8, <2>9, <2>10, <3>1
  <2> QED
    BY <2>2, <2>6, <2>11
<1>3. 0..n \subseteq W
  <2> HIDE DEF W
  <2> QED
    BY <1>1, <1>2, Induction
<1> QED
  BY <1>3

-----------------------------------------------------------------------------

File(classes) == [mutable : BOOLEAN, class : classes, size : Nat]

Sum(files, S) ==
  CHOOSE sum : sum = [i \in 0..Len(files) |->
    IF i = 0 THEN 0 ELSE sum[i - 1] + IF i \in S THEN files[i].size ELSE 0]

Adds(sum, files, S, n) ==
  /\ sum \in [0..n -> Nat] /\ sum[0] = 0
  /\ \A i \in 1..n : sum[i] = sum[i - 1] + IF i \in S THEN files[i].size ELSE 0

LEMMA Sums ==
  ASSUME NEW n \in Nat, NEW classes, NEW files \in [1..n -> File(classes)], NEW S
  PROVE  /\ Len(files) = n /\ DOMAIN files = 1..n
         /\ Adds(Sum(files, S), files, S, n)
         /\ Size(files, S) = Sum(files, S)[n]
<1>1. Len(files) = n /\ DOMAIN files = 1..n
  OBVIOUS
<1> DEFINE size(i) == IF i \in S THEN files[i].size ELSE 0
           step == [i \in 1..n |-> [x \in Nat |-> x + size(i)]]
<1>2. \A i \in 1..n : size(i) \in Nat
  BY DEF File
<1> HIDE DEF size
<1>3. step \in [1..n -> [Nat -> Nat]]
  BY <1>2
<1>4. PICK g \in [0..n -> Nat] : Steps(g, 0, step, n)
  <2> HIDE DEF step
  <2>1. 0 \in Nat
    OBVIOUS
  <2> QED
    BY <1>3, <2>1, Recursion
<1>5. \A i \in 1..n : g[i] = g[i - 1] + size(i)
  <2> SUFFICES ASSUME NEW i \in 1..n PROVE g[i] = g[i - 1] + size(i)
    OBVIOUS
  <2>1. i - 1 \in 0..n
    OBVIOUS
  <2>2. g[i - 1] \in Nat
    BY <1>4, <2>1
  <2> QED
    BY <1>4, <2>2 DEF Steps
<1>6. g = [i \in 0..n |-> IF i = 0 THEN 0 ELSE g[i - 1] + size(i)]
  <2>1. \A i \in 0..n : i = 0 \/ i \in 1..n
    OBVIOUS
  <2>2. \A i \in 0..n : g[i] = IF i = 0 THEN 0 ELSE g[i - 1] + size(i)
    BY <1>4, <1>5, <2>1 DEF Steps
  <2> QED
    BY <1>4, <2>2
<1> DEFINE sum == Sum(files, S)
<1>7. sum = [i \in 0..n |-> IF i = 0 THEN 0 ELSE sum[i - 1] + size(i)]
  BY <1>1, <1>6 DEF Sum, size
<1>8. Size(files, S) = sum[n]
  BY <1>1 DEF Size, Sum
<1> HIDE DEF sum
<1>9. sum[0] = 0 /\ \A i \in 1..n : sum[i] = sum[i - 1] + size(i)
  <2>1. 0 \in 0..n /\ \A i \in 1..n : i \in 0..n /\ i # 0
    OBVIOUS
  <2> QED
    BY <1>7, <2>1
<1>10. sum \in [0..n -> Nat]
  <2> DEFINE W == {i \in 0..n : sum[i] \in Nat}
  <2>1. 0 \in W
    BY <1>9
  <2>2. \A i \in 1..n : i - 1 \in W => i \in W
    BY <1>2, <1>9
  <2>3. 0..n \subseteq W
    <3> HIDE DEF W
    <3> QED
      BY <2>1, <2>2, Induction
  <2>4. \A i \in 0..n : sum[i] \in Nat
    BY <2>3
  <2> QED
    BY <1>7, <2>4
<1> QED
  BY <1>1, <1>8, <1>9, <1>10 DEF sum, size, Adds

\* More files are not smaller.
LEMMA SizeGrows ==
  ASSUME NEW n \in Nat, NEW classes, NEW files \in [1..n -> File(classes)],
         NEW S, NEW T, S \subseteq T
  PROVE  Size(files, S) \in Nat /\ Size(files, S) <= Size(files, T)
<1> DEFINE s == Sum(files, S)
           t == Sum(files, T)
           W == {i \in 0..n : s[i] <= t[i]}
<1>1. Adds(s, files, S, n) /\ Size(files, S) = s[n]
  BY Sums
<1>2. Adds(t, files, T, n) /\ Size(files, T) = t[n]
  BY Sums
<1> HIDE DEF s, t
<1> USE DEF Adds
<1>3. 0 \in W
  BY <1>1, <1>2
<1>4. ASSUME NEW i \in 1..n, i - 1 \in W PROVE i \in W
  <2>1. /\ s[i - 1] \in Nat /\ t[i - 1] \in Nat /\ s[i - 1] <= t[i - 1] /\ files[i].size \in Nat
        /\ i \in 0..n
    BY <1>1, <1>2, <1>4 DEF File
  <2>2. /\ s[i] = s[i - 1] + IF i \in S THEN files[i].size ELSE 0
        /\ t[i] = t[i - 1] + IF i \in T THEN files[i].size ELSE 0
    BY <1>1, <1>2
  <2>3. s[i] <= t[i]
    <3>1. CASE i \in S
      BY <2>1, <2>2, <3>1
    <3>2. CASE i \notin S /\ i \in T
      BY <2>1, <2>2, <3>2
    <3>3. CASE i \notin S /\ i \notin T
      BY <2>1, <2>2, <3>3
    <3> QED
      BY <3>1, <3>2, <3>3
  <2> QED
    BY <2>1, <2>3
<1>5. 0..n \subseteq W
  <2> HIDE DEF W
  <2> QED
    BY <1>3, <1>4, Induction
<1>6. n \in W /\ s[n] \in Nat
  BY <1>1, <1>5
<1> QED
  BY <1>1, <1>2, <1>6

\* One more file adds its size.
LEMMA SizeAdds ==
  ASSUME NEW n \in Nat, NEW classes, NEW files \in [1..n -> File(classes)],
         NEW S, NEW k \in 1..n, k \notin S
  PROVE  Size(files, S \cup {k}) = Size(files, S) + files[k].size
<1> DEFINE s == Sum(files, S)
           t == Sum(files, S \cup {k})
           W == {i \in 0..n : t[i] = s[i] + IF i < k THEN 0 ELSE files[k].size}
<1>1. Adds(s, files, S, n) /\ Size(files, S) = s[n]
  BY Sums
<1>2. Adds(t, files, S \cup {k}, n) /\ Size(files, S \cup {k}) = t[n]
  BY Sums
<1> HIDE DEF s, t
<1> USE DEF Adds
<1>3. 0 \in W
  BY <1>1, <1>2
<1>4. ASSUME NEW i \in 1..n, i - 1 \in W PROVE i \in W
  <2>1. /\ s[i - 1] \in Nat /\ t[i - 1] \in Nat /\ files[i].size \in Nat /\ files[k].size \in Nat
        /\ t[i - 1] = s[i - 1] + IF i - 1 < k THEN 0 ELSE files[k].size
        /\ i \in 0..n
    BY <1>1, <1>2, <1>4 DEF File
  <2>2. /\ s[i] = s[i - 1] + IF i \in S THEN files[i].size ELSE 0
        /\ t[i] = t[i - 1] + IF i \in S \cup {k} THEN files[i].size ELSE 0
    BY <1>1, <1>2
  <2>3. t[i] = s[i] + IF i < k THEN 0 ELSE files[k].size
    <3>1. CASE i < k
      <4>1. i # k /\ i - 1 < k
        BY <3>1
      <4> QED
        BY <2>1, <2>2, <3>1, <4>1
    <3>2. CASE i = k
      <4>1. i - 1 < k /\ ~(i < k)
        BY <3>2
      <4> QED
        BY <2>1, <2>2, <3>2, <4>1
    <3>3. CASE i > k
      <4>1. i # k /\ ~(i - 1 < k) /\ ~(i < k)
        BY <3>3
      <4> QED
        BY <2>1, <2>2, <3>3, <4>1
    <3> QED
      BY <3>1, <3>2, <3>3
  <2> QED
    BY <2>1, <2>3
<1>5. 0..n \subseteq W
  <2> HIDE DEF W
  <2> QED
    BY <1>3, <1>4, Induction
<1>6. n \in W
  BY <1>5
<1> QED
  BY <1>1, <1>2, <1>6

-----------------------------------------------------------------------------

Bundles(n, classes) ==
  [failed : BOOLEAN, used : Nat, entries : SUBSET (1..n),
   omitted : SUBSET [file : 1..n,
                     reason : classes \cup {"NONE", "FILE_TOO_LARGE", "TOTAL_BUDGET"}]]

\* A bundle stays a bundle when a file is put in or left out.
LEMMA OneMoreFile ==
  ASSUME NEW n \in Nat, NEW classes, NEW b \in Bundles(n, classes), NEW i \in 1..n,
         NEW f \in File(classes), NEW budget
  PROVE  /\ PackTarget(b, i, f, budget) \in Bundles(n, classes)
         /\ PackFile(b, i, f, budget) \in Bundles(n, classes)
<1>1. f.size \in Nat /\ f.class \in classes
  BY DEF File
<1>2. /\ b.failed \in BOOLEAN /\ b.used \in Nat /\ b.entries \subseteq 1..n
      /\ b.omitted \subseteq [file : 1..n,
           reason : classes \cup {"NONE", "FILE_TOO_LARGE", "TOTAL_BUDGET"}]
  BY DEF Bundles
<1>3. Include(b, i, f.size) \in Bundles(n, classes)
  <2>1. b.used + f.size \in Nat /\ b.entries \cup {i} \subseteq 1..n
    BY <1>1, <1>2
  <2> QED
    BY <1>2, <2>1 DEF Include, Bundles
<1>4. [b EXCEPT !.failed = TRUE] \in Bundles(n, classes)
  BY <1>2 DEF Bundles
<1>5. ASSUME NEW r \in classes \cup {"NONE", "FILE_TOO_LARGE", "TOTAL_BUDGET"}
      PROVE  Omit(b, i, r) \in Bundles(n, classes)
  BY <1>2 DEF Omit, Bundles
<1>6. Obstacle(f, budget) \in classes \cup {"NONE", "FILE_TOO_LARGE", "TOTAL_BUDGET"}
  BY <1>1 DEF Obstacle
<1>7. PackTarget(b, i, f, budget) \in Bundles(n, classes)
  BY <1>3, <1>4 DEF PackTarget
<1>8. PackFile(b, i, f, budget) \in Bundles(n, classes)
  BY <1>3, <1>5, <1>6 DEF PackFile
<1> QED
  BY <1>7, <1>8

FirstBundle(files) ==
  [EmptyBundle EXCEPT !.failed = \A i \in 1..Len(files) : ~files[i].mutable]

TargetStep(b, i, files, budget) ==
  IF files[i].mutable THEN PackTarget(b, i, files[i], budget) ELSE b

FileStep(b, i, files, budget) ==
  IF files[i].mutable THEN b ELSE PackFile(b, i, files[i], budget)

\* The two sequences of bundles that pack_context goes through.
TargetsPacked(files, budget) ==
  CHOOSE targets : targets = [i \in 0..Len(files) |->
    IF i = 0 THEN FirstBundle(files) ELSE TargetStep(targets[i - 1], i, files, budget)]

FilesPacked(files, budget) ==
  CHOOSE packed : packed = [i \in 0..Len(files) |->
    IF i = 0 THEN TargetsPacked(files, budget)[Len(files)]
    ELSE FileStep(packed[i - 1], i, files, budget)]

LEMMA PackingEquation ==
  ASSUME NEW files, NEW budget
  PROVE  PackContext(files, budget) = FilesPacked(files, budget)[Len(files)]
BY DEF PackContext, FilesPacked, TargetsPacked, FirstBundle, TargetStep, FileStep

LEMMA TargetBundles ==
  ASSUME NEW n \in Nat, NEW classes, NEW files \in [1..n -> File(classes)], NEW budget
  PROVE  /\ TargetsPacked(files, budget)[0] = FirstBundle(files)
         /\ \A i \in 1..n : TargetsPacked(files, budget)[i] =
              TargetStep(TargetsPacked(files, budget)[i - 1], i, files, budget)
         /\ \A i \in 0..n : TargetsPacked(files, budget)[i] \in Bundles(n, classes)
<1> DEFINE B == Bundles(n, classes)
           a == FirstBundle(files)
           Do(b, i) == TargetStep(b, i, files, budget)
           step == [i \in 1..n |-> [b \in B |-> Do(b, i)]]
<1>1. Len(files) = n
  BY Sums
<1>2. a \in B
  BY DEF FirstBundle, EmptyBundle, Bundles
<1>3. ASSUME NEW i \in 1..n, NEW b \in B PROVE Do(b, i) \in B
  BY OneMoreFile DEF TargetStep
<1> HIDE DEF B, a, Do
<1>4. step \in [1..n -> [B -> B]]
  BY <1>3
<1>5. PICK g \in [0..n -> B] : Steps(g, a, step, n)
  <2> HIDE DEF step
  <2> QED
    BY <1>2, <1>4, Recursion
<1>6. \A i \in 1..n : g[i] = Do(g[i - 1], i)
  <2> SUFFICES ASSUME NEW i \in 1..n PROVE g[i] = Do(g[i - 1], i)
    OBVIOUS
  <2>1. g[i - 1] \in B
    <3>1. i - 1 \in 0..n
      OBVIOUS
    <3> QED
      BY <1>5, <3>1
  <2> QED
    BY <1>5, <2>1 DEF Steps
<1>7. g = [i \in 0..n |-> IF i = 0 THEN a ELSE Do(g[i - 1], i)]
  <2>1. \A i \in 0..n : i = 0 \/ i \in 1..n
    OBVIOUS
  <2>2. \A i \in 0..n : g[i] = IF i = 0 THEN a ELSE Do(g[i - 1], i)
    BY <1>5, <1>6, <2>1 DEF Steps
  <2> QED
    BY <1>5, <2>2
<1> DEFINE t == TargetsPacked(files, budget)
<1>8. t = [i \in 0..n |-> IF i = 0 THEN a ELSE Do(t[i - 1], i)]
  BY <1>1, <1>7 DEF TargetsPacked, a, Do
<1> HIDE DEF t
<1>9. t[0] = a /\ \A i \in 1..n : t[i] = Do(t[i - 1], i)
  <2>1. 0 \in 0..n /\ \A i \in 1..n : i \in 0..n /\ i # 0
    OBVIOUS
  <2> QED
    BY <1>8, <2>1
<1>10. \A i \in 0..n : t[i] \in B
  <2> DEFINE W == {i \in 0..n : t[i] \in B}
  <2>1. 0 \in W
    BY <1>2, <1>9
  <2>2. \A i \in 1..n : i - 1 \in W => i \in W
    BY <1>3, <1>9
  <2>3. 0..n \subseteq W
    <3> HIDE DEF W
    <3> QED
      BY <2>1, <2>2, Induction
  <2> QED
    BY <2>3
<1> QED
  BY <1>9, <1>10 DEF t, B, a, Do

LEMMA FileBundles ==
  ASSUME NEW n \in Nat, NEW classes, NEW files \in [1..n -> File(classes)], NEW budget
  PROVE  /\ FilesPacked(files, budget)[0] = TargetsPacked(files, budget)[n]
         /\ \A i \in 1..n : FilesPacked(files, budget)[i] =
              FileStep(FilesPacked(files, budget)[i - 1], i, files, budget)
         /\ \A i \in 0..n : FilesPacked(files, budget)[i] \in Bundles(n, classes)
<1> DEFINE B == Bundles(n, classes)
           a == TargetsPacked(files, budget)[n]
           Do(b, i) == FileStep(b, i, files, budget)
           step == [i \in 1..n |-> [b \in B |-> Do(b, i)]]
<1>1. Len(files) = n
  BY Sums
<1>2. a \in B
  <2>1. n \in 0..n
    OBVIOUS
  <2> QED
    BY <2>1, TargetBundles
<1>3. ASSUME NEW i \in 1..n, NEW b \in B PROVE Do(b, i) \in B
  BY OneMoreFile DEF FileStep
<1> HIDE DEF B, a, Do
<1>4. step \in [1..n -> [B -> B]]
  BY <1>3
<1>5. PICK g \in [0..n -> B] : Steps(g, a, step, n)
  <2> HIDE DEF step
  <2> QED
    BY <1>2, <1>4, Recursion
<1>6. \A i \in 1..n : g[i] = Do(g[i - 1], i)
  <2> SUFFICES ASSUME NEW i \in 1..n PROVE g[i] = Do(g[i - 1], i)
    OBVIOUS
  <2>1. g[i - 1] \in B
    <3>1. i - 1 \in 0..n
      OBVIOUS
    <3> QED
      BY <1>5, <3>1
  <2> QED
    BY <1>5, <2>1 DEF Steps
<1>7. g = [i \in 0..n |-> IF i = 0 THEN a ELSE Do(g[i - 1], i)]
  <2>1. \A i \in 0..n : i = 0 \/ i \in 1..n
    OBVIOUS
  <2>2. \A i \in 0..n : g[i] = IF i = 0 THEN a ELSE Do(g[i - 1], i)
    BY <1>5, <1>6, <2>1 DEF Steps
  <2> QED
    BY <1>5, <2>2
<1> DEFINE t == FilesPacked(files, budget)
<1>8. t = [i \in 0..n |-> IF i = 0 THEN a ELSE Do(t[i - 1], i)]
  BY <1>1, <1>7 DEF FilesPacked, a, Do
<1> HIDE DEF t
<1>9. t[0] = a /\ \A i \in 1..n : t[i] = Do(t[i - 1], i)
  <2>1. 0 \in 0..n /\ \A i \in 1..n : i \in 0..n /\ i # 0
    OBVIOUS
  <2> QED
    BY <1>8, <2>1
<1>10. \A i \in 0..n : t[i] \in B
  <2> DEFINE W == {i \in 0..n : t[i] \in B}
  <2>1. 0 \in W
    BY <1>2, <1>9
  <2>2. \A i \in 1..n : i - 1 \in W => i \in W
    BY <1>3, <1>9
  <2>3. 0..n \subseteq W
    <3> HIDE DEF W
    <3> QED
      BY <2>1, <2>2, Induction
  <2> QED
    BY <2>3
<1> QED
  BY <1>9, <1>10 DEF t, B, a, Do

-----------------------------------------------------------------------------

Budget == [file : Nat, total : Nat]

Mutables(files) == {i \in DOMAIN files : files[i].mutable}

Packable(files, i, budget) == Obstacle(files[i], budget) = "NONE"

\* The bundle can be made: there is a target, and all of them can be packed.
Promising(files, budget) ==
  /\ Mutables(files) # {} /\ Size(files, Mutables(files)) <= budget.total
  /\ \A i \in Mutables(files) : Packable(files, i, budget)

\* After the first i files the targets among them are in, unless one is too much.
TargetsSoFar(b, i, files, budget) ==
  /\ b.entries \subseteq Mutables(files) \cap 1..i /\ b.omitted = {}
  /\ b.used = Size(files, b.entries)
  /\ b.failed => ~Promising(files, budget)
  /\ ~b.failed => /\ Mutables(files) # {} /\ b.used <= budget.total
                  /\ b.entries = Mutables(files) \cap 1..i
                  /\ \A j \in b.entries : Packable(files, j, budget)

LEMMA NothingYet ==
  ASSUME NEW n \in Nat, NEW classes, NEW files \in [1..n -> File(classes)],
         NEW budget \in Budget
  PROVE  TargetsSoFar(FirstBundle(files), 0, files, budget)
<1> DEFINE z == Sum(files, {})
           W == {i \in 0..n : z[i] = 0}
<1>1. Len(files) = n /\ DOMAIN files = 1..n /\ Adds(z, files, {}, n) /\ Size(files, {}) = z[n]
  BY Sums
<1> HIDE DEF z
<1>2. 0 \in W
  BY <1>1 DEF Adds
<1>3. \A i \in 1..n : i - 1 \in W => i \in W
  BY <1>1 DEF Adds
<1>4. 0..n \subseteq W
  <2> HIDE DEF W
  <2> QED
    BY <1>2, <1>3, Induction
<1>5. Size(files, {}) = 0
  BY <1>1, <1>4
<1> DEFINE b == FirstBundle(files)
<1>6. /\ b.entries = {} /\ b.omitted = {} /\ b.used = 0
      /\ b.failed <=> Mutables(files) = {}
  BY <1>1 DEF FirstBundle, EmptyBundle, Mutables
<1>7. 0 <= budget.total /\ 1..0 = {}
  BY DEF Budget
<1> HIDE DEF b
<1> QED
  BY <1>5, <1>6, <1>7 DEF TargetsSoFar, Promising, b

LEMMA OneMoreTarget ==
  ASSUME NEW n \in Nat, NEW classes, NEW files \in [1..n -> File(classes)],
         NEW budget \in Budget, NEW i \in 1..n, NEW b \in Bundles(n, classes),
         TargetsSoFar(b, i - 1, files, budget)
  PROVE  TargetsSoFar(TargetStep(b, i, files, budget), i, files, budget)
<1> DEFINE M == Mutables(files)
           f == files[i]
           d == TargetStep(b, i, files, budget)
<1>1. DOMAIN files = 1..n /\ M \subseteq 1..n
  BY DEF Mutables
<1>2. i \notin 1..(i - 1) /\ 1..i = 1..(i - 1) \cup {i}
  OBVIOUS
<1>3. b.used \in Nat /\ f.size \in Nat /\ budget.total \in Nat /\ b.failed \in BOOLEAN
  BY DEF Bundles, File, Budget
<1>4. i \notin b.entries
  BY <1>2 DEF TargetsSoFar
<1>5. CASE ~f.mutable
  <2>1. d = b /\ i \notin M
    BY <1>5 DEF TargetStep, Mutables
  <2>2. Mutables(files) \cap 1..i = Mutables(files) \cap 1..(i - 1)
    BY <1>2, <2>1
  <2>3. TargetsSoFar(b, i, files, budget)
    BY <2>2 DEF TargetsSoFar
  <2> QED
    BY <2>1, <2>3
<1>6. CASE f.mutable /\ Packable(files, i, budget) /\ b.used + f.size <= budget.total
  <2>1. d = Include(b, i, f.size) /\ i \in M
    BY <1>1, <1>6 DEF TargetStep, PackTarget, Mutables, Packable
  <2>2. /\ d.entries = b.entries \cup {i} /\ d.omitted = b.omitted
        /\ d.used = b.used + f.size /\ d.failed = b.failed
    BY <2>1 DEF Include, Bundles
  <2>3. d.used = Size(files, d.entries)
    BY <1>4, <2>2, SizeAdds DEF TargetsSoFar
  <2>4. d.entries \subseteq M \cap 1..i
    BY <1>2, <2>1, <2>2 DEF TargetsSoFar
  <2>5. ~d.failed => d.entries = M \cap 1..i
    BY <1>2, <2>1, <2>2 DEF TargetsSoFar
  <2>6. d.used <= budget.total
    BY <1>6, <2>2
  <2>7. d.failed => ~Promising(files, budget)
    BY <2>2 DEF TargetsSoFar
  <2>8. ~d.failed => M # {} /\ \A j \in d.entries : Packable(files, j, budget)
    BY <1>6, <2>2 DEF TargetsSoFar
  <2>9. d.omitted = {}
    BY <2>2 DEF TargetsSoFar
  <2> HIDE DEF d
  <2>10. TargetsSoFar(d, i, files, budget)
    BY <2>3, <2>4, <2>5, <2>6, <2>7, <2>8, <2>9 DEF TargetsSoFar
  <2> QED
    BY <2>10 DEF d
<1>7. CASE f.mutable /\ ~(Packable(files, i, budget) /\ b.used + f.size <= budget.total)
  <2>1. d = [b EXCEPT !.failed = TRUE] /\ i \in M
    BY <1>1, <1>7 DEF TargetStep, PackTarget, Mutables, Packable
  <2>2. d.entries = b.entries /\ d.omitted = b.omitted /\ d.used = b.used /\ d.failed
    BY <2>1 DEF Bundles
  <2>3. ~Promising(files, budget)
    <3>1. CASE ~Packable(files, i, budget)
      BY <2>1, <3>1 DEF Promising
    <3>2. CASE b.used + f.size > budget.total
      <4>1. b.entries \cup {i} \subseteq M
        BY <2>1 DEF TargetsSoFar
      <4>2. Size(files, b.entries \cup {i}) = b.used + f.size
        BY <1>4, SizeAdds DEF TargetsSoFar
      <4>3. Size(files, b.entries \cup {i}) <= Size(files, M) /\ Size(files, M) \in Nat
        BY <4>1, SizeGrows
      <4>4. ~(Size(files, M) <= budget.total)
        BY <1>3, <3>2, <4>2, <4>3
      <4> QED
        BY <4>4 DEF Promising
    <3> QED
      BY <1>3, <1>7, <3>1, <3>2
  <2>4. d.entries \subseteq M \cap 1..i
    BY <1>2, <2>2 DEF TargetsSoFar
  <2>5. d.omitted = {} /\ d.used = Size(files, d.entries)
    BY <2>2 DEF TargetsSoFar
  <2> HIDE DEF d
  <2>6. TargetsSoFar(d, i, files, budget)
    BY <2>2, <2>3, <2>4, <2>5 DEF TargetsSoFar
  <2> QED
    BY <2>6 DEF d
<1> QED
  BY <1>5, <1>6, <1>7

\* The targets are all in, or the packing is refused.
LEMMA AllTargets ==
  ASSUME NEW n \in Nat, NEW classes, NEW files \in [1..n -> File(classes)],
         NEW budget \in Budget
  PROVE  LET b == TargetsPacked(files, budget)[n]
         IN  IF Promising(files, budget)
             THEN /\ ~b.failed /\ b.entries = Mutables(files) /\ b.omitted = {}
                  /\ b.used = Size(files, b.entries) /\ b.used <= budget.total
             ELSE b.failed
<1> DEFINE t == TargetsPacked(files, budget)
           W == {i \in 0..n : TargetsSoFar(t[i], i, files, budget)}
<1>1. /\ t[0] = FirstBundle(files)
      /\ \A i \in 1..n : t[i] = TargetStep(t[i - 1], i, files, budget)
      /\ \A i \in 0..n : t[i] \in Bundles(n, classes)
  BY TargetBundles
<1> HIDE DEF t
<1>2. 0 \in W
  BY <1>1, NothingYet
<1>3. ASSUME NEW i \in 1..n, i - 1 \in W PROVE i \in W
  <2>1. i - 1 \in 0..n /\ i \in 0..n
    OBVIOUS
  <2>2. TargetsSoFar(TargetStep(t[i - 1], i, files, budget), i, files, budget)
    BY <1>1, <1>3, <2>1, OneMoreTarget
  <2> QED
    BY <1>1, <2>1, <2>2
<1>4. 0..n \subseteq W
  <2> HIDE DEF W
  <2> QED
    BY <1>2, <1>3, Induction
<1>5. TargetsSoFar(t[n], n, files, budget)
  BY <1>4
<1>6. Mutables(files) \cap 1..n = Mutables(files)
  BY DEF Mutables
<1>7. t[n].failed \in BOOLEAN
  BY <1>1 DEF Bundles
<1>8. ASSUME ~t[n].failed PROVE Promising(files, budget)
  BY <1>5, <1>6, <1>8 DEF TargetsSoFar, Promising
<1> QED
  BY <1>5, <1>6, <1>7, <1>8 DEF TargetsSoFar, t

-----------------------------------------------------------------------------

Eligible(files, budget) ==
  {i \in DOMAIN files \ Mutables(files) : Packable(files, i, budget)}

Reason(files, i, budget) ==
  IF i \in Eligible(files, budget) THEN "TOTAL_BUDGET" ELSE Obstacle(files[i], budget)

\* Among the first i files, C is S or holds the earliest in which they differ.
Earliest(C, S, i) ==
  \/ S \cap 1..i = C
  \/ \E j \in C \ S : \A k \in (S \cap 1..i) \ C : j < k

\* After the first i context files: no selection that fits comes before what is in.
FilesSoFar(b, i, files, budget) ==
  /\ ~b.failed /\ Mutables(files) \subseteq b.entries
  /\ b.entries \ Mutables(files) \subseteq Eligible(files, budget) \cap 1..i
  /\ b.used = Size(files, b.entries) /\ b.used <= budget.total
  /\ b.omitted = {[file |-> j, reason |-> Reason(files, j, budget)] : j \in 1..i \ b.entries}
  /\ \A S \in SUBSET Eligible(files, budget) :
       Size(files, Mutables(files) \cup S) <= budget.total =>
         Earliest(b.entries \ Mutables(files), S, i)

\* What one more file in, or one left out, does to being the earliest.
LEMMA EarliestGrows ==
  ASSUME NEW n \in Nat, NEW i \in 1..n, NEW C, NEW S, C \subseteq 1..(i - 1),
         Earliest(C, S, i - 1)
  PROVE  /\ Earliest(C \cup {i}, S, i)
         /\ ~(i \in S /\ C \subseteq S) => Earliest(C, S, i)
<1>1. i \notin 1..(i - 1) /\ 1..i = 1..(i - 1) \cup {i} /\ \A j \in C : j < i
  OBVIOUS
<1>2. CASE S \cap 1..(i - 1) = C
  <2>1. Earliest(C \cup {i}, S, i)
    <3>1. CASE i \in S
      <4>1. S \cap 1..i = C \cup {i}
        BY <1>1, <1>2, <3>1
      <4> QED
        BY <4>1 DEF Earliest
    <3>2. CASE i \notin S
      <4>1. i \in (C \cup {i}) \ S /\ (S \cap 1..i) \ (C \cup {i}) = {}
        BY <1>1, <1>2, <3>2
      <4> QED
        BY <4>1 DEF Earliest
    <3> QED
      BY <3>1, <3>2
  <2>2. ASSUME ~(i \in S /\ C \subseteq S) PROVE Earliest(C, S, i)
    <3>1. S \cap 1..i = C
      BY <1>1, <1>2, <2>2
    <3> QED
      BY <3>1 DEF Earliest
  <2> QED
    BY <2>1, <2>2
<1>3. CASE \E j \in C \ S : \A k \in (S \cap 1..(i - 1)) \ C : j < k
  <2>1. PICK j \in C \ S : \A k \in (S \cap 1..(i - 1)) \ C : j < k
    BY <1>3
  <2>2. \A k \in (S \cap 1..i) \ C : k = i \/ k \in (S \cap 1..(i - 1)) \ C
    BY <1>1
  <2>3. \A k \in (S \cap 1..i) \ C : j < k
    BY <1>1, <2>1, <2>2
  <2> QED
    BY <2>1, <2>3 DEF Earliest
<1> QED
  BY <1>2, <1>3 DEF Earliest

LEMMA OneMoreContextFile ==
  ASSUME NEW n \in Nat, NEW classes, NEW files \in [1..n -> File(classes)],
         NEW budget \in Budget, NEW i \in 1..n, NEW b \in Bundles(n, classes),
         FilesSoFar(b, i - 1, files, budget)
  PROVE  FilesSoFar(FileStep(b, i, files, budget), i, files, budget)
<1> DEFINE M == Mutables(files)
           E == Eligible(files, budget)
           C == b.entries \ M
           f == files[i]
           d == FileStep(b, i, files, budget)
           Why(j) == [file |-> j, reason |-> Reason(files, j, budget)]
           Fits(S) == Size(files, M \cup S) <= budget.total
<1>1. DOMAIN files = 1..n
  OBVIOUS
<1>2. i \notin 1..(i - 1) /\ 1..i = 1..(i - 1) \cup {i}
  OBVIOUS
<1>3. /\ b.used \in Nat /\ f.size \in Nat /\ budget.total \in Nat
      /\ M \in SUBSET (1..n) /\ E \in SUBSET (1..n) /\ M \cap E = {}
      /\ i \in M <=> f.mutable
      /\ i \in E <=> ~f.mutable /\ Obstacle(f, budget) = "NONE"
  BY <1>1 DEF Bundles, File, Budget, Mutables, Eligible, Packable
<1>4. /\ ~b.failed /\ M \subseteq b.entries /\ C \subseteq E \cap 1..(i - 1)
      /\ b.used = Size(files, b.entries) /\ b.used <= budget.total
      /\ b.omitted = {Why(j) : j \in 1..(i - 1) \ b.entries}
      /\ \A S \in SUBSET E : Fits(S) => Earliest(C, S, i - 1)
  BY DEF FilesSoFar
<1> SUFFICES /\ ~d.failed /\ M \subseteq d.entries /\ d.entries \ M \subseteq E \cap 1..i
             /\ d.used = Size(files, d.entries) /\ d.used <= budget.total
             /\ d.omitted = {Why(j) : j \in 1..i \ d.entries}
             /\ \A S \in SUBSET E : Fits(S) => Earliest(d.entries \ M, S, i)
  BY DEF FilesSoFar
<1>5. CASE f.mutable
  <2>1. d = b
    BY <1>5 DEF FileStep
  <2>2. i \in b.entries /\ i \notin E
    BY <1>3, <1>4, <1>5
  <2>3. 1..i \ b.entries = 1..(i - 1) \ b.entries
    BY <1>2, <2>2
  <2>4. ASSUME NEW S \in SUBSET E, Fits(S) PROVE Earliest(C, S, i)
    <3> HIDE DEF C, E, Fits
    <3>1. Earliest(C, S, i - 1) /\ C \subseteq 1..(i - 1) /\ i \notin S
      BY <1>4, <2>2, <2>4
    <3> QED
      BY <3>1, EarliestGrows
  <2> HIDE DEF d, M, E, Why, Fits
  <2> QED
    BY <1>2, <1>4, <2>1, <2>3, <2>4
<1>6. ASSUME ~f.mutable PROVE i \notin b.entries
  BY <1>2, <1>3, <1>4, <1>6
<1>7. ASSUME NEW r, r = Reason(files, i, budget), d = Omit(b, i, r), ~f.mutable,
             \A S \in SUBSET E : Fits(S) => ~(i \in S /\ C \subseteq S)
      PROVE  /\ ~d.failed /\ M \subseteq d.entries /\ d.entries \ M \subseteq E \cap 1..i
             /\ d.used = Size(files, d.entries) /\ d.used <= budget.total
             /\ d.omitted = {Why(j) : j \in 1..i \ d.entries}
             /\ \A S \in SUBSET E : Fits(S) => Earliest(d.entries \ M, S, i)
  <2>1. /\ d.entries = b.entries /\ d.used = b.used /\ d.failed = b.failed
        /\ d.omitted = b.omitted \cup {Why(i)}
    BY <1>7 DEF Omit, Bundles
  <2>2. 1..i \ b.entries = (1..(i - 1) \ b.entries) \cup {i}
    BY <1>2, <1>6, <1>7
  <2>3. ASSUME NEW S \in SUBSET E, Fits(S) PROVE Earliest(C, S, i)
    <3> HIDE DEF C, E, Fits
    <3>1. Earliest(C, S, i - 1) /\ C \subseteq 1..(i - 1) /\ ~(i \in S /\ C \subseteq S)
      BY <1>4, <1>7, <2>3
    <3> QED
      BY <3>1, EarliestGrows
  <2> HIDE DEF d, M, E, Why, Fits
  <2>4. d.omitted = {Why(j) : j \in 1..i \ d.entries}
    BY <1>4, <2>1, <2>2
  <2> QED
    BY <1>2, <1>4, <2>1, <2>3, <2>4
<1>8. CASE ~f.mutable /\ Obstacle(f, budget) # "NONE"
  <2>1. d = Omit(b, i, Obstacle(f, budget)) /\ Obstacle(f, budget) = Reason(files, i, budget)
    BY <1>3, <1>8 DEF FileStep, PackFile, Reason
  <2>2. \A S \in SUBSET E : i \notin S
    BY <1>3, <1>8
  <2> HIDE DEF d, M, E, C, Why, Fits
  <2> QED
    BY <1>7, <1>8, <2>1, <2>2
<1>9. CASE ~f.mutable /\ Obstacle(f, budget) = "NONE" /\ b.used + f.size > budget.total
  <2>1. d = Omit(b, i, "TOTAL_BUDGET") /\ "TOTAL_BUDGET" = Reason(files, i, budget)
    BY <1>3, <1>9 DEF FileStep, PackFile, Reason
  <2>2. ASSUME NEW S \in SUBSET E, Fits(S), i \in S, C \subseteq S PROVE FALSE
    <3>1. b.entries \cup {i} \subseteq M \cup S
      BY <2>2
    <3>2. Size(files, b.entries \cup {i}) = b.used + f.size
      BY <1>4, <1>6, <1>9, SizeAdds
    <3>3. /\ Size(files, b.entries \cup {i}) <= Size(files, M \cup S)
          /\ Size(files, M \cup S) \in Nat
      <4>1. /\ Size(files, b.entries \cup {i}) <= Size(files, M \cup S)
        BY <3>1, SizeGrows
      <4>2. Size(files, M \cup S) \in Nat
        BY SizeGrows
      <4> QED
        BY <4>1, <4>2
    <3> QED
      BY <1>3, <1>9, <2>2, <3>2, <3>3
  <2> HIDE DEF d, M, E, C, Why, Fits
  <2> QED
    BY <1>7, <1>9, <2>1, <2>2
<1>10. CASE ~f.mutable /\ Obstacle(f, budget) = "NONE" /\ ~(b.used + f.size > budget.total)
  <2>1. d = Include(b, i, f.size) /\ i \in E /\ i \notin M
    BY <1>3, <1>10 DEF FileStep, PackFile
  <2>2. /\ d.entries = b.entries \cup {i} /\ d.omitted = b.omitted
        /\ d.used = b.used + f.size /\ d.failed = b.failed
    BY <2>1 DEF Include, Bundles
  <2>3. d.used = Size(files, d.entries)
    BY <1>4, <1>6, <1>10, <2>2, SizeAdds
  <2>4. d.used <= budget.total
    BY <1>3, <1>10, <2>2
  <2>5. d.entries \ M = C \cup {i}
    BY <2>1, <2>2
  <2>6. 1..i \ d.entries = 1..(i - 1) \ b.entries
    BY <1>2, <2>2
  <2>7. ASSUME NEW S \in SUBSET E, Fits(S) PROVE Earliest(C \cup {i}, S, i)
    <3> HIDE DEF C, E, Fits
    <3>1. Earliest(C, S, i - 1) /\ C \subseteq 1..(i - 1)
      BY <1>4, <2>7
    <3> QED
      BY <3>1, EarliestGrows
  <2>8. M \subseteq d.entries /\ C \cup {i} \subseteq E \cap 1..i
    BY <1>2, <1>4, <2>1, <2>2
  <2> HIDE DEF d, M, E, C, Why, Fits
  <2>9. d.omitted = {Why(j) : j \in 1..i \ d.entries}
    BY <1>4, <2>2, <2>6
  <2> QED
    BY <1>4, <2>2, <2>3, <2>4, <2>5, <2>7, <2>8, <2>9
<1> QED
  <2> HIDE DEF d, M, E, C, Why, Fits
  <2> QED
    BY <1>5, <1>8, <1>9, <1>10

\* What is packed in the end.
LEMMA AllFiles ==
  ASSUME NEW n \in Nat, NEW classes, NEW files \in [1..n -> File(classes)],
         NEW budget \in Budget
  PROVE  IF Promising(files, budget)
         THEN FilesSoFar(PackContext(files, budget), n, files, budget)
         ELSE PackContext(files, budget).failed
<1> DEFINE t == TargetsPacked(files, budget)[n]
           p == FilesPacked(files, budget)
<1>1. /\ p[0] = t /\ PackContext(files, budget) = p[n]
      /\ \A i \in 1..n : p[i] = FileStep(p[i - 1], i, files, budget)
      /\ \A i \in 0..n : p[i] \in Bundles(n, classes)
  BY FileBundles, PackingEquation, Sums
<1> HIDE DEF t, p
<1>2. CASE Promising(files, budget)
  <2> DEFINE W == {i \in 0..n : FilesSoFar(p[i], i, files, budget)}
  <2>1. 0 \in W
    <3>1. /\ ~t.failed /\ t.entries = Mutables(files) /\ t.omitted = {}
          /\ t.used = Size(files, t.entries) /\ t.used <= budget.total
      BY <1>2, AllTargets DEF t
    <3>2. \A S \in SUBSET Eligible(files, budget) :
            Earliest(t.entries \ Mutables(files), S, 0)
      <4>1. \A S : S \cap 1..0 = {}
        OBVIOUS
      <4>2. t.entries \ Mutables(files) = {}
        BY <3>1
      <4> QED
        BY <4>1, <4>2 DEF Earliest
    <3>3. t.omitted = {[file |-> j, reason |-> Reason(files, j, budget)] : j \in 1..0 \ t.entries}
      BY <3>1
    <3>4. Mutables(files) \subseteq t.entries /\ t.entries \ Mutables(files) = {}
      BY <3>1
    <3>5. FilesSoFar(t, 0, files, budget)
      BY <3>1, <3>2, <3>3, <3>4 DEF FilesSoFar
    <3> QED
      BY <1>1, <3>5
  <2>2. ASSUME NEW i \in 1..n, i - 1 \in W PROVE i \in W
    <3>1. i - 1 \in 0..n /\ i \in 0..n
      OBVIOUS
    <3>2. FilesSoFar(FileStep(p[i - 1], i, files, budget), i, files, budget)
      BY <1>1, <2>2, <3>1, OneMoreContextFile
    <3> QED
      BY <1>1, <3>1, <3>2
  <2>3. 0..n \subseteq W
    <3> HIDE DEF W
    <3> QED
      BY <2>1, <2>2, Induction
  <2>4. FilesSoFar(p[n], n, files, budget)
    BY <2>3
  <2> QED
    BY <1>1, <1>2, <2>4
<1>3. CASE ~Promising(files, budget)
  <2> DEFINE W == {i \in 0..n : p[i].failed}
  <2>1. 0 \in W
    BY <1>1, <1>3, AllTargets DEF t
  <2>2. ASSUME NEW i \in 1..n, i - 1 \in W PROVE i \in W
    <3>1. i - 1 \in 0..n /\ i \in 0..n
      OBVIOUS
    <3>2. p[i - 1] \in Bundles(n, classes) /\ p[i - 1].failed
      BY <1>1, <2>2, <3>1
    <3>3. FileStep(p[i - 1], i, files, budget).failed = p[i - 1].failed
      BY <3>2 DEF Bundles, FileStep, PackFile, Include, Omit
    <3> QED
      BY <1>1, <3>1, <3>2, <3>3
  <2>3. 0..n \subseteq W
    <3> HIDE DEF W
    <3> QED
      BY <2>1, <2>2, Induction
  <2> QED
    BY <1>1, <1>3, <2>3
<1> QED
  BY <1>2, <1>3

\* pack_context packs the first selection that fits, of any files under any budget.
THEOREM PackingIsFirstFit ==
  ASSUME NEW n \in Nat, NEW classes, NEW files \in [1..n -> File(classes)],
         NEW budget \in Budget
  PROVE  IsFirstFit(files, budget, PackContext(files, budget))
<1> DEFINE M == Mutables(files)
           E == Eligible(files, budget)
           b == PackContext(files, budget)
           C == b.entries \ M
<1>1. DOMAIN files = 1..n
  OBVIOUS
<1>2. IF Promising(files, budget) THEN FilesSoFar(b, n, files, budget) ELSE b.failed
  BY AllFiles
<1>3. /\ {i \in DOMAIN files : files[i].mutable} = M
      /\ {i \in DOMAIN files \ M : Obstacle(files[i], budget) = "NONE"} = E
      /\ M \cup {} = M
  BY DEF Mutables, Eligible, Packable
<1> HIDE DEF b, M, E
<1>4. CASE ~Promising(files, budget)
  <2>1. b.failed
    BY <1>2, <1>4
  <2>2. ~(/\ M # {} /\ Size(files, M \cup {}) <= budget.total
          /\ \A i \in M : Obstacle(files[i], budget) = "NONE")
    BY <1>3, <1>4 DEF Promising, Packable, M
  <2> QED
    BY <1>3, <2>1, <2>2 DEF IsFirstFit, b
<1>5. CASE Promising(files, budget)
  <2>1. FilesSoFar(b, n, files, budget)
    BY <1>2, <1>5
  <2>2. ~b.failed /\ M \subseteq b.entries /\ C \subseteq E /\ b.used = Size(files, b.entries)
    BY <2>1 DEF FilesSoFar, M, E
  <2>3. Size(files, M \cup C) <= budget.total
    <3>1. M \cup C = b.entries
      BY <2>2
    <3> QED
      BY <2>1, <3>1 DEF FilesSoFar
  <2>4. ASSUME NEW S \in SUBSET E, Size(files, M \cup S) <= budget.total, S # C
        PROVE  Before(C, S)
    <3>1. Earliest(C, S, n)
      BY <2>1, <2>4 DEF FilesSoFar, M, E
    <3>2. S \cap 1..n = S
      BY <1>1 DEF E, Eligible
    <3> HIDE DEF C
    <3> QED
      BY <2>4, <3>1, <3>2 DEF Earliest, Before
  <2>5. b.omitted = {[file |-> i,
                      reason |-> IF i \in E THEN "TOTAL_BUDGET" ELSE Obstacle(files[i], budget)]
                     : i \in DOMAIN files \ b.entries}
    BY <1>1, <2>1 DEF FilesSoFar, Reason, E
  <2>6. M # {} /\ Size(files, M \cup {}) <= budget.total
        /\ \A i \in M : Obstacle(files[i], budget) = "NONE"
    BY <1>3, <1>5 DEF Promising, Packable, M
  <2>7. IsFirstFit(files, budget, b)
    BY <2>2, <2>3, <2>4, <2>5, <2>6
    DEF IsFirstFit, M, E, Mutables, Eligible, Packable
  <2> QED
    BY <2>7 DEF b
<1> QED
  BY <1>4, <1>5

\* In particular of the snapshots the runs pack.
LEMMA AllSnapshots == AllFirstFit
<1> SUFFICES ASSUME NEW n \in 1..MaxFiles, NEW files \in [1..n -> Files], NEW budget \in Budgets
             PROVE  IsFirstFit(files, budget, PackContext(files, budget))
  BY DEF AllFirstFit
<1>1. MaxFiles \in Nat /\ MaxBytes \in Nat
  BY BoundsAssumption
<1>2. n \in Nat
  BY <1>1
<1>3. Files \subseteq File({"TEXT", "SECRET"})
  <2> SUFFICES ASSUME NEW f \in Files PROVE f \in File({"TEXT", "SECRET"})
    OBVIOUS
  <2>1. \/ f \in [mutable : BOOLEAN, class : {"TEXT"}, size : 0..MaxBytes]
        \/ f \in [mutable : BOOLEAN, class : {"SECRET"}, size : {1}]
    BY DEF Files
  <2>2. 0..MaxBytes \subseteq Nat /\ 1 \in Nat
    BY <1>1
  <2> QED
    BY <2>1, <2>2 DEF File
<1>4. files \in [1..n -> File({"TEXT", "SECRET"})]
  BY <1>3
<1>5. budget \in Budget
  <2>1. 1..MaxBytes \subseteq Nat /\ 1..MaxBytes + 1 \subseteq Nat
    BY <1>1
  <2> QED
    BY <2>1 DEF Budgets, Budget
<1> QED
  BY <1>2, <1>4, <1>5, PackingIsFirstFit

\* Once a model has been shown a bundle, packing is by the rule: every target, then
\* the first selection of context files in path order that fits, and the right reason
\* for each file left out.
THEOREM BundlesAreFirstFit == Spec => []FirstFitIsExact
<1>1. FirstFitIsExact
  BY AllSnapshots DEF FirstFitIsExact
<1> QED
  BY <1>1, PTL
=============================================================================
