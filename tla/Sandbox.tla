------------------------------ MODULE Sandbox ------------------------------
(***************************************************************************)
(* ModalWorkspaceExecutor.execute (src/perjury/modal_runner.py): the       *)
(* snapshot is packed against its manifest, a sandbox is created, the      *)
(* snapshot is extracted and verified in it, dependencies are installed,   *)
(* pytest runs, and the sandbox is terminated.  Calls run concurrently.    *)
(***************************************************************************)
EXTENDS Contracts

CONSTANTS Calls,     \* execute() calls, at most one at a time under each name
          NoContent, \* what an empty place holds
          Partial    \* what is left of a snapshot that did not extract properly

VARIABLE call  \* [Calls -> state of the call]

Idle == [at |-> "idle", archive |-> NoContent, remote |-> NoContent, sandbox |-> "none",
         outcome |-> "none", cleanupError |-> FALSE]

SandboxInit == call = [c \in Calls |-> Idle]

Begun(cs) == [c \in Calls |-> IF c \in cs THEN [Idle EXCEPT !.at = "pack"] ELSE call[c]]

Returned(c) == call[c].at = "returned"

\* What a baseline needs of its execution.
Clean(c) == call[c].outcome = "PASS" /\ ~call[c].cleanupError

\* The call ends without a sandbox, or goes to its finally clause.
End(c, outcome) ==
  call' = [call EXCEPT ![c].at = IF @ = "pack" THEN "returned" ELSE "terminate",
                       ![c].outcome = outcome]

PackAsFound(c, source, manifest) ==
  /\ call[c].at = "pack"
  /\ \/ call' = [call EXCEPT ![c].at = "create", ![c].archive = source]
     \/ End(c, "INVALID")

\* _snapshot_archive: whole tree and single files are compared with the
\* manifest; a drift, or a file that cannot be read, is INVALID.
Pack(c, source, manifest) ==
  /\ call[c].at = "pack"
  /\ \/ /\ source = manifest
        /\ call' = [call EXCEPT ![c].at = "create", ![c].archive = manifest]
     \/ End(c, "INVALID")

Create(c) ==
  /\ call[c].at = "create"
  /\ call' = [call EXCEPT ![c].at = "extract", ![c].sandbox = "up"]

ExtractWithoutOutcome(c) ==
  /\ call[c].at = "extract"
  /\ \/ call' = [call EXCEPT ![c].at = "install", ![c].remote = call[c].archive]
     \/ call' = [call EXCEPT ![c].at = "terminate", ![c].remote = Partial]

\* The script in the sandbox verifies what it extracted.
Extract(c) ==
  /\ call[c].at = "extract"
  /\ \/ call' = [call EXCEPT ![c].at = "install", ![c].remote = call[c].archive]
     \/ call' = [call EXCEPT ![c].at = "terminate", ![c].remote = Partial,
                             ![c].outcome = "INFRA_ERROR"]

Install(c) ==
  /\ call[c].at = "install"
  /\ \/ call' = [call EXCEPT ![c].at = "test"]
     \/ End(c, "INFRA_ERROR")

\* Outcome by exit code; no exit code stands for a timeout.
Test(c) ==
  /\ call[c].at = "test"
  /\ \E outcome \in {"PASS", "TEST_FAIL", "INVALID", "INFRA_ERROR"} : End(c, outcome)

\* The provider raises: a timeout, or anything else.
Break(c) ==
  /\ call[c].at \in {"create", "extract", "install", "test"}
  /\ \E outcome \in {"TIMEOUT", "INFRA_ERROR"} : End(c, outcome)

\* The finally clause; its own failure is reported and changes no outcome.
Terminate(c) ==
  /\ call[c].at = "terminate"
  /\ IF call[c].sandbox = "none"
     THEN call' = [call EXCEPT ![c].at = "returned"]
     ELSE \/ call' = [call EXCEPT ![c].at = "returned", ![c].sandbox = "gone"]
          \/ call' = [call EXCEPT ![c].at = "returned", ![c].cleanupError = TRUE]

Execute(c, source, manifest) ==
  \/ Pack(c, source, manifest)
  \/ Create(c)
  \/ Extract(c)
  \/ Install(c)
  \/ Test(c)
  \/ Break(c)
  \/ Terminate(c)
=============================================================================
