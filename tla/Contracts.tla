----------------------------- MODULE Contracts -----------------------------
(***************************************************************************)
(* The vocabulary of src/perjury/contracts.py: what a pytest process can   *)
(* come to, what that means for a mutant, and which evidence verifies a    *)
(* hardened test.                                                          *)
(***************************************************************************)
EXTENDS Integers, FiniteSets

Outcomes == {"PASS", "TEST_FAIL", "INVALID", "TIMEOUT", "INFRA_ERROR"}
Statuses == {"KILLED", "SURVIVED", "INVALID", "TIMEOUT", "INFRA_ERROR"}

\* mutation_status_for
StatusOf ==
  [o \in Outcomes |->
     CASE o = "PASS"      -> "SURVIVED"
       [] o = "TEST_FAIL" -> "KILLED"
       [] OTHER           -> o]

\* compute_mutation_score over a function from mutation ids to statuses.
With(statuses, S) == {m \in DOMAIN statuses : statuses[m] \in S}
Killed(statuses) == With(statuses, {"KILLED"})
Survived(statuses) == With(statuses, {"SURVIVED"})
Excluded(statuses) == With(statuses, {"INVALID", "TIMEOUT", "INFRA_ERROR"})
ValidTotal(statuses) == Cardinality(Killed(statuses)) + Cardinality(Survived(statuses))
Scored(statuses) == ValidTotal(statuses) > 0

VerdictOfMutantAlone(w) ==
  IF w.mutant = "TEST_FAIL" THEN "verified"
  ELSE IF w.original = "TEST_FAIL" THEN "rejected"
  ELSE "inconclusive"

\* judge_verification over the outcomes of the two worlds.
Verdict(w) ==
  IF w.original = "PASS" /\ w.mutant = "TEST_FAIL" THEN "verified"
  ELSE IF w.original = "TEST_FAIL" THEN "rejected"
  ELSE "inconclusive"
=============================================================================
