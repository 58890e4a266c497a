--------------------------- MODULE EvidenceStore ---------------------------
(***************************************************************************)
(* EvidenceStore.save and write_json_atomic (src/perjury/evidence.py): the *)
(* bundle of a run is written to a temporary file beside its place and     *)
(* then renamed, so that load never reads half of it.                      *)
(***************************************************************************)
EXTENDS Naturals, Sequences

VARIABLE disk  \* for each run: its temporary file, its evidence.json

NoBundle == [outcome |-> "none", events |-> 0]
Half == [outcome |-> "half", events |-> 0]
NoFiles == [temp |-> "none", bundle |-> NoBundle]

\* build_evidence_bundle: the result tells the events of a run that has one; a
\* crashed run is told by the events it published.
Bundle(crashed, events) ==
  IF crashed THEN [outcome |-> "crash", events |-> Len(events)]
             ELSE [outcome |-> "result", events |-> 0]

OpenInPlace(r) ==
  /\ disk[r] = NoFiles
  /\ disk' = [disk EXCEPT ![r] = [temp |-> "part", bundle |-> Half]]

OpenTemp(r) ==
  /\ disk[r] = NoFiles
  /\ disk' = [disk EXCEPT ![r].temp = "part"]

\* Written, flushed and synchronised.
WriteTemp(r) ==
  /\ disk[r].temp = "part"
  /\ disk' = [disk EXCEPT ![r].temp = "whole"]

Replace(r, bundle) ==
  /\ disk[r].temp = "whole"
  /\ disk' = [disk EXCEPT ![r] = [temp |-> "none", bundle |-> bundle]]

\* Any error on the way removes the temporary file.
Unlink(r) == disk' = [disk EXCEPT ![r].temp = "none"]
=============================================================================
