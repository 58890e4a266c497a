--------------------------- MODULE LocalExecutor ---------------------------
(***************************************************************************)
(* LocalPytestExecutor.execute (src/perjury/workspace.py): no copy and no  *)
(* sandbox.  The workspace is compared with its manifest once, and install *)
(* and pytest then run in the workspace itself, whatever it has become.    *)
(***************************************************************************)
EXTENDS Sandbox

Answer(c, outcome) == call' = [call EXCEPT ![c].at = "returned", ![c].outcome = outcome]

\* A workspace that cannot be listed at all raises, which is an infrastructure
\* failure to whoever called.
Check(c, found, manifest) ==
  /\ call[c].at = "pack"
  /\ \/ found = manifest /\ call' = [call EXCEPT ![c].at = "install"]
     \/ \E outcome \in {"INVALID", "INFRA_ERROR"} : Answer(c, outcome)

InstallHere(c) ==
  /\ call[c].at = "install"
  /\ \/ call' = [call EXCEPT ![c].at = "test"]
     \/ \E outcome \in {"INFRA_ERROR", "TIMEOUT"} : Answer(c, outcome)

\* pytest reads the workspace at some moment of its run; a run of any outcome
\* may have seen it.
TestHere(c, found) ==
  /\ call[c].at = "test"
  /\ \E outcome \in Outcomes :
       call' = [call EXCEPT ![c].at = "returned", ![c].remote = found,
                            ![c].outcome = outcome]

ExecuteHere(c, found, manifest) ==
  \/ Check(c, found, manifest)
  \/ InstallHere(c)
  \/ TestHere(c, found)
=============================================================================
