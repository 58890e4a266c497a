--------------------------- MODULE ContextPacking ---------------------------
(***************************************************************************)
(* pack_context (src/perjury/context.py): which files of a snapshot a      *)
(* model is shown.  A snapshot is a sequence of files in path order; all   *)
(* that matters of a file is whether it may be mutated, what _classify     *)
(* says of it ("TEXT", or why it is not packable) and its size.            *)
(***************************************************************************)
EXTENDS Naturals, Sequences

CONSTANTS MaxFiles, MaxBytes  \* bounds of the snapshots packed in AllFirstFit

ASSUME BoundsAssumption == MaxFiles \in Nat \ {0} /\ MaxBytes \in Nat \ {0}

\* The bundle so far: bytes used, what is in, and why what is not in is not.
EmptyBundle == [failed |-> FALSE, used |-> 0, entries |-> {}, omitted |-> {}]

Include(bundle, i, size) == [bundle EXCEPT !.used = @ + size, !.entries = @ \cup {i}]
Omit(bundle, i, reason) == [bundle EXCEPT !.omitted = @ \cup {[file |-> i, reason |-> reason]}]

\* Why a file can be in no bundle under this budget.
Obstacle(f, budget) ==
  IF f.class # "TEXT" THEN f.class ELSE IF f.size > budget.file THEN "FILE_TOO_LARGE" ELSE "NONE"

\* A mutation target is packed exactly, or nothing is.
PackTarget(bundle, i, f, budget) ==
  IF Obstacle(f, budget) = "NONE" /\ bundle.used + f.size <= budget.total
  THEN Include(bundle, i, f.size)
  ELSE [bundle EXCEPT !.failed = TRUE]

PackFileUntilFull(bundle, i, f, budget) ==
  IF Obstacle(f, budget) # "NONE"
  THEN Omit(bundle, i, Obstacle(f, budget))
  ELSE IF bundle.used + f.size > budget.total
            \/ \E o \in bundle.omitted : o.reason = "TOTAL_BUDGET"
       THEN Omit(bundle, i, "TOTAL_BUDGET")
       ELSE Include(bundle, i, f.size)

\* A context file that does not fit is left out with the reason; smaller ones
\* after it may still fit.
PackFile(bundle, i, f, budget) ==
  IF Obstacle(f, budget) # "NONE"
  THEN Omit(bundle, i, Obstacle(f, budget))
  ELSE IF bundle.used + f.size > budget.total
       THEN Omit(bundle, i, "TOTAL_BUDGET")
       ELSE Include(bundle, i, f.size)

\* Mutable files first, then the others, each in path order.
PackContext(files, budget) ==
  LET n == Len(files)
      start == [EmptyBundle EXCEPT !.failed = \A i \in 1..n : ~files[i].mutable]
      targets[i \in 0..n] ==
        IF i = 0 THEN start
        ELSE IF files[i].mutable THEN PackTarget(targets[i - 1], i, files[i], budget)
        ELSE targets[i - 1]
      packed[i \in 0..n] ==
        IF i = 0 THEN targets[n]
        ELSE IF files[i].mutable THEN packed[i - 1]
        ELSE PackFile(packed[i - 1], i, files[i], budget)
  IN packed[n]

-----------------------------------------------------------------------------
(* The reference: what a bundle is, not how it is packed. *)

Size(files, S) ==
  LET sum[i \in 0..Len(files)] ==
        IF i = 0 THEN 0 ELSE sum[i - 1] + IF i \in S THEN files[i].size ELSE 0
  IN sum[Len(files)]

\* Of two selections the one with the earliest file in which they differ.
Before(S, T) == \E i \in S \ T : \A j \in T \ S : i < j

\* All mutation targets, and of the context files that can be packed the first
\* selection, in path order, that fits; every other file with its reason.
IsFirstFit(files, budget, bundle) ==
  LET mutable == {i \in DOMAIN files : files[i].mutable}
      eligible == {i \in DOMAIN files \ mutable : Obstacle(files[i], budget) = "NONE"}
      chosen == bundle.entries \ mutable
      Fits(S) == Size(files, mutable \cup S) <= budget.total
      Reason(i) == IF i \in eligible THEN "TOTAL_BUDGET" ELSE Obstacle(files[i], budget)
  IN IF mutable # {} /\ Fits({}) /\ \A i \in mutable : Obstacle(files[i], budget) = "NONE"
     THEN /\ ~bundle.failed
          /\ mutable \subseteq bundle.entries /\ bundle.used = Size(files, bundle.entries)
          /\ chosen \subseteq eligible /\ Fits(chosen)
          /\ \A S \in SUBSET eligible : Fits(S) /\ S # chosen => Before(chosen, S)
          /\ bundle.omitted =
               {[file |-> i, reason |-> Reason(i)] : i \in DOMAIN files \ bundle.entries}
     ELSE bundle.failed

Files ==
  [mutable : BOOLEAN, class : {"TEXT"}, size : 0..MaxBytes]
    \cup [mutable : BOOLEAN, class : {"SECRET"}, size : {1}]

\* A file limit above the total is refused by ContextBudget.
Budgets == {b \in [file : 1..MaxBytes, total : 1..MaxBytes + 1] : b.file <= b.total}

AllFirstFit ==
  \A n \in 1..MaxFiles : \A files \in [1..n -> Files] : \A budget \in Budgets :
    IsFirstFit(files, budget, PackContext(files, budget))
=============================================================================
