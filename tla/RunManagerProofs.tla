-------------------------- MODULE RunManagerProofs --------------------------
(***************************************************************************)
(* Proofs about RunManager for any number of runs, events and streams: one *)
(* active run, a terminal event that is final, evidence that is whole, and *)
(* streams, which read the records, that miss and repeat nothing.          *)
(***************************************************************************)
EXTENDS RunManager, SequenceTheorems, WellFoundedInduction, TLAPS

Record == [events : Seq(Event), held : Event \cup {Nothing}, result : BOOLEAN,
           crash : BOOLEAN, evidence : {"none", "saved", "error"}, done : BOOLEAN]

Files == [temp : {"none", "part", "whole"},
          bundle : [outcome : {"none", "half", "result", "crash"}, events : Nat]]

\* The part of TypeOK that does not speak of streams.
Registry ==
  /\ started \in Nat
  /\ runs \in Seq(Nat)
  /\ thread \in [Runs -> Threads]
  /\ rec \in [Runs -> Record]
  /\ disk \in [Runs -> Files]

Progressing(s) == \A i \in 1..Len(s) : s[i].kind = "progress"

\* What a thread has done so far is in its record.
Stage(r) ==
  /\ rec[r].held = Nothing \/ rec[r].held.kind \in Terminal
  /\ thread[r] = "returned" => rec[r].held # Nothing
  /\ thread[r] \in {"none", "running"} => rec[r].evidence = "none" /\ disk[r] = NoFiles
  /\ thread[r] \in {"none", "running", "returned", "crashed"} => ~rec[r].done
  /\ thread[r] \in {"finished", "ended"} => rec[r].done

\* Until a record is done it shows progress only; then all of its end at once.
Story(r) ==
  LET e == rec[r].events IN
  /\ ~rec[r].done => Progressing(e)
  /\ rec[r].done =>
       /\ e # <<>> /\ Last(e).kind \in Terminal /\ Progressing(Front(e))
       /\ rec[r].evidence # "none"
       /\ rec[r].result # rec[r].crash
       /\ rec[r].crash => Last(e).kind = "run.failed"

\* The file and its temporary one, while they are written and ever after.
OnDisk(r) ==
  LET bundle == disk[r].bundle IN
  /\ bundle # Half
  /\ bundle # NoBundle => disk[r].temp = "none"
  /\ disk[r].temp # "none" => Saving(r) \/ thread[r] = "killed"
  /\ rec[r].evidence = "saved" => bundle # NoBundle
  /\ rec[r].evidence = "error" => bundle = NoBundle
  /\ thread[r] \in {"returned", "crashed"} /\ bundle # NoBundle =>
       bundle = Bundle(thread[r] = "crashed", rec[r].events)
  /\ rec[r].done /\ bundle # NoBundle => bundle = Bundle(rec[r].crash, Front(rec[r].events))

Proper(r) == Stage(r) /\ Story(r) /\ OnDisk(r)

\* Runs are numbered in the order they start.
Numbered == \A r \in Runs : r > started => thread[r] = "none"

Book == Registry /\ Numbered /\ OneActiveRun /\ \A r \in Runs : Proper(r)

-----------------------------------------------------------------------------

\* The sequence after one more event.
LEMMA AppendEvent ==
  ASSUME NEW s \in Seq(Event), NEW e \in Event
  PROVE  /\ Append(s, e) \in Seq(Event) /\ Append(s, e) # <<>>
         /\ Last(Append(s, e)) = e
         /\ Front(Append(s, e)) = s
         /\ Progressing(s) /\ e.kind = "progress" => Progressing(Append(s, e))
<1>1. /\ Append(s, e) \in Seq(Event) /\ Append(s, e) # <<>>
      /\ Len(Append(s, e)) = Len(s) + 1 /\ Len(s) \in Nat
      /\ \A i \in 1..Len(s) : Append(s, e)[i] = s[i]
      /\ Append(s, e)[Len(s) + 1] = e
  BY AppendProperties, LenProperties
<1>2. Front(Append(s, e)) = s
  <2>1. \A i \in 1..Len(s) : Append(s, e)[i] \in Event
    BY <1>1, ElementOfSeq
  <2>2. Len(Append(s, e)) - 1 = Len(s)
    BY <1>1
  <2>3. /\ SubSeq(Append(s, e), 1, Len(s)) \in Seq(Event)
        /\ Len(SubSeq(Append(s, e), 1, Len(s))) = Len(s)
        /\ \A i \in 1..Len(s) : SubSeq(Append(s, e), 1, Len(s))[i] = s[i]
    <3>1. /\ SubSeq(Append(s, e), 1, Len(s)) \in Seq(Event)
          /\ Len(SubSeq(Append(s, e), 1, Len(s))) = IF 1 <= Len(s) THEN Len(s) - 1 + 1 ELSE 0
          /\ \A i \in 1..(Len(s) - 1 + 1) :
               SubSeq(Append(s, e), 1, Len(s))[i] = Append(s, e)[1 + i - 1]
      BY <1>1, <2>1, SubSeqProperties
    <3> QED
      BY <1>1, <3>1
  <2>4. SubSeq(Append(s, e), 1, Len(s)) = s
    BY <2>3, SeqEqual
  <2> QED
    BY <2>2, <2>4 DEF Front
<1> QED
  BY <1>1, <1>2 DEF Last, Progressing

\* Whatever the registry drops, it keeps the run just added.
LEMMA NewestIsRetained ==
  ASSUME NEW s \in Seq(Nat), NEW r \in Nat
  PROVE  /\ Retain(Append(s, r)) \in Seq(Nat)
         /\ r \in Range(Retain(Append(s, r)))
<1> DEFINE t == Append(s, r)
           m == 1 + IF Len(t) > Retained THEN Len(t) - Retained ELSE 0
<1>1. t \in Seq(Nat) /\ Len(t) \in Nat /\ Len(t) >= 1 /\ t[Len(t)] = r
  BY AppendProperties, LenProperties
<1>2. m \in 1..Len(t)
  BY <1>1, BoundsAssumption
<1>3. \A i \in m..Len(t) : t[i] \in Nat
  BY <1>1, <1>2, ElementOfSeq
<1> DEFINE u == SubSeq(t, m, Len(t))
<1> HIDE DEF t, m
<1>4. /\ u \in Seq(Nat)
      /\ Len(u) = IF m <= Len(t) THEN Len(t) - m + 1 ELSE 0
      /\ \A i \in 1..(Len(t) - m + 1) : u[i] = t[m + i - 1]
  BY <1>1, <1>2, <1>3, SubSeqProperties
<1> HIDE DEF u
<1> DEFINE n == Len(t) - m + 1
<1>5. /\ Len(u) = n /\ n \in 1..n
      /\ m + n - 1 = Len(t)
  BY <1>1, <1>2, <1>4
<1>6. DOMAIN u = 1..Len(u)
  BY <1>4, LenProperties
<1>7. u[n] = r
  BY <1>1, <1>4, <1>5
<1> QED
  BY <1>4, <1>5, <1>6, <1>7 DEF Range, Retain, t, m, u

-----------------------------------------------------------------------------
(* What a step leaves alone, and what a thread does to its own run. *)

LEMMA Untouched ==
  ASSUME NEW q \in Runs, Proper(q),
         rec'[q] = rec[q], thread'[q] = thread[q], disk'[q] = disk[q]
  PROVE  Proper(q)'
  BY DEF Proper, Stage, Story, OnDisk, Saving

\* A thread's step touches the record and the files of its run only.
LEMMA OwnRun ==
  ASSUME Registry, NEW r \in Runs, Thread(r)
  PROVE  /\ \A q \in Runs \ {r} :
              rec'[q] = rec[q] /\ thread'[q] = thread[q] /\ disk'[q] = disk[q]
         /\ started' = started /\ runs' = runs
         /\ thread[r] \in {"running", "returned", "crashed", "finished"}
<1> USE DEF Registry
<1>1. CASE PublishProgress(r)
  BY <1>1 DEF PublishProgress
<1>2. CASE PublishTerminal(r)
  BY <1>2 DEF PublishTerminal
<1>3. CASE ExecuteReturns(r)
  BY <1>3 DEF ExecuteReturns
<1>4. CASE SaveEvidence(r)
  BY <1>4 DEF SaveEvidence, Saving, OpenTemp, WriteTemp, Replace
<1>5. CASE EvidenceFails(r)
  BY <1>5 DEF EvidenceFails, Saving, Unlink
<1>6. CASE Finish(r)
  BY <1>6 DEF Finish
<1>7. CASE ReleaseSlot(r)
  BY <1>7 DEF ReleaseSlot
<1> QED
  BY <1>1, <1>2, <1>3, <1>4, <1>5, <1>6, <1>7 DEF Thread

LEMMA ProgressStep ==
  ASSUME Registry, NEW r \in Runs, Proper(r), PublishProgress(r)
  PROVE  Registry' /\ Proper(r)'
<1> DEFINE e == [seq |-> NextSeq(r), kind |-> "progress"]
           s == rec[r].events
<1>1. s \in Seq(Event) /\ e \in Event
  <2>1. s \in Seq(Event)
    BY DEF Registry, Record
  <2>2. NextSeq(r) \in Nat \ {0}
    BY <2>1, LenProperties DEF NextSeq
  <2> QED
    BY <2>1, <2>2 DEF Event
<1>2. /\ Append(s, e) \in Seq(Event)
      /\ Progressing(s) => Progressing(Append(s, e))
  BY <1>1, AppendEvent
<1>3. /\ rec' = [rec EXCEPT ![r].events = Append(s, e)]
      /\ rec[r] \in Record /\ rec \in [Runs -> Record]
      /\ UNCHANGED <<started, runs, thread, disk>> /\ thread[r] = "running"
  BY DEF PublishProgress, Registry
<1> HIDE DEF e, s
<1>4. rec'[r] = [rec[r] EXCEPT !.events = Append(s, e)]
  BY <1>3
<1>5. rec' \in [Runs -> Record]
  BY <1>2, <1>3 DEF Record
<1>6. Registry'
  BY <1>3, <1>5 DEF Registry
<1>7. Proper(r)'
  BY <1>2, <1>3, <1>4 DEF Proper, Stage, Story, OnDisk, Saving, Record, NoFiles, s
<1> QED
  BY <1>6, <1>7

LEMMA TerminalStep ==
  ASSUME Registry, NEW r \in Runs, Proper(r), PublishTerminal(r)
  PROVE  Registry' /\ Proper(r)'
<1>1. PICK k \in Terminal : rec' = [rec EXCEPT ![r].held = [seq |-> NextSeq(r), kind |-> k]]
  BY DEF PublishTerminal
<1> DEFINE h == [seq |-> NextSeq(r), kind |-> k]
<1>2. h \in Event /\ h.kind \in Terminal
  <2>1. rec[r].events \in Seq(Event)
    BY DEF Registry, Record
  <2>2. NextSeq(r) \in Nat \ {0}
    BY <2>1, LenProperties DEF NextSeq
  <2> QED
    BY <2>2 DEF Event
<1>3. /\ rec[r] \in Record /\ rec \in [Runs -> Record]
      /\ rec' = [rec EXCEPT ![r].held = h]
      /\ UNCHANGED <<started, runs, thread, disk>> /\ thread[r] = "running"
  BY <1>1 DEF PublishTerminal, Registry
<1> HIDE DEF h
<1>4. rec'[r] = [rec[r] EXCEPT !.held = h]
  BY <1>3
<1>5. rec' \in [Runs -> Record]
  BY <1>2, <1>3 DEF Record
<1>6. Registry'
  BY <1>3, <1>5 DEF Registry
<1>7. Proper(r)'
  BY <1>2, <1>3, <1>4 DEF Proper, Stage, Story, OnDisk, Saving, Record
<1> QED
  BY <1>6, <1>7

LEMMA ReturnStep ==
  ASSUME Registry, NEW r \in Runs, Proper(r), ExecuteReturns(r)
  PROVE  Registry' /\ Proper(r)'
<1>1. /\ thread[r] = "running" /\ thread'[r] \in {"returned", "crashed"}
      /\ thread'[r] = "returned" => rec[r].held # Nothing
      /\ thread' \in [Runs -> Threads]
      /\ UNCHANGED <<started, runs, rec, disk>>
  BY DEF ExecuteReturns, Registry, Threads
<1>2. Registry'
  BY <1>1 DEF Registry
<1>3. disk[r] = NoFiles
  BY <1>1 DEF Proper, Stage
<1>4. Proper(r)'
  BY <1>1, <1>3 DEF Proper, Stage, Story, OnDisk, Saving, NoFiles, NoBundle
<1> QED
  BY <1>2, <1>4

\* A bundle is written to a free place, then renamed, then put on record.
LEMMA SaveStep ==
  ASSUME Registry, NEW r \in Runs, Proper(r), SaveEvidence(r)
  PROVE  Registry' /\ Proper(r)'
<1>1. /\ UNCHANGED <<started, runs, thread>>
      /\ thread[r] \in {"returned", "crashed"} /\ rec[r].evidence = "none" /\ ~rec[r].done
      /\ rec[r] \in Record /\ rec \in [Runs -> Record]
      /\ disk[r] \in Files /\ disk \in [Runs -> Files]
  BY DEF SaveEvidence, Saving, Registry, Proper, Stage
<1> DEFINE b == Bundle(thread[r] = "crashed", rec[r].events)
<1>2. CASE OpenTemp(r) /\ UNCHANGED rec
  <2>1. disk'[r] = [disk[r] EXCEPT !.temp = "part"] /\ disk[r] = NoFiles
    BY <1>1, <1>2 DEF OpenTemp
  <2>2. disk' \in [Runs -> Files]
    BY <1>1, <1>2 DEF OpenTemp, Files
  <2>3. Registry'
    BY <1>1, <1>2, <2>2 DEF Registry
  <2>4. Proper(r)'
    BY <1>1, <1>2, <2>1 DEF Proper, Stage, Story, OnDisk, Saving, NoFiles
  <2> QED
    BY <2>3, <2>4
<1>3. CASE WriteTemp(r) /\ UNCHANGED rec
  <2>1. disk'[r] = [disk[r] EXCEPT !.temp = "whole"] /\ disk[r].temp = "part"
    BY <1>1, <1>3 DEF WriteTemp
  <2>2. disk' \in [Runs -> Files]
    BY <1>1, <1>3 DEF WriteTemp, Files
  <2>3. Registry'
    BY <1>1, <1>3, <2>2 DEF Registry
  <2>4. Proper(r)'
    BY <1>1, <1>3, <2>1 DEF Proper, Stage, Story, OnDisk, Saving, Files
  <2> QED
    BY <2>3, <2>4
<1>4. CASE Replace(r, b) /\ UNCHANGED rec
  <2>1. /\ b \in [outcome : {"none", "half", "result", "crash"}, events : Nat]
        /\ b # Half /\ b # NoBundle
    <3>1. Len(rec[r].events) \in Nat
      BY <1>1, LenProperties DEF Record
    <3> QED
      BY <3>1 DEF Bundle, Half, NoBundle
  <2> HIDE DEF b
  <2>2. disk'[r] = [temp |-> "none", bundle |-> b]
    BY <1>1, <1>4 DEF Replace
  <2>3. disk' \in [Runs -> Files]
    BY <1>1, <1>4, <2>1 DEF Replace, Files
  <2>4. Registry'
    BY <1>1, <1>4, <2>3 DEF Registry
  <2>5. Proper(r)'
    BY <1>1, <1>4, <2>1, <2>2 DEF Proper, Stage, Story, OnDisk, Saving, b
  <2> QED
    BY <2>4, <2>5
<1>5. CASE /\ disk[r].bundle # NoBundle
           /\ rec' = [rec EXCEPT ![r].evidence = "saved"]
           /\ UNCHANGED disk
  <2>1. rec'[r] = [rec[r] EXCEPT !.evidence = "saved"]
    BY <1>1, <1>5
  <2>2. rec' \in [Runs -> Record]
    BY <1>1, <1>5 DEF Record
  <2>3. Registry'
    BY <1>1, <1>5, <2>2 DEF Registry
  <2>4. Proper(r)'
    BY <1>1, <1>5, <2>1 DEF Proper, Stage, Story, OnDisk, Saving, Record
  <2> QED
    BY <2>3, <2>4
<1> QED
  BY <1>2, <1>3, <1>4, <1>5 DEF SaveEvidence

\* A failure leaves no bundle and no temporary file.
LEMMA EvidenceFailsStep ==
  ASSUME Registry, NEW r \in Runs, Proper(r), EvidenceFails(r)
  PROVE  Registry' /\ Proper(r)'
<1>1. /\ UNCHANGED <<started, runs, thread>>
      /\ thread[r] \in {"returned", "crashed"} /\ ~rec[r].done
      /\ rec[r] \in Record /\ rec \in [Runs -> Record]
      /\ disk[r] \in Files /\ disk \in [Runs -> Files]
      /\ disk[r].bundle = NoBundle
      /\ disk' = [disk EXCEPT ![r].temp = "none"]
      /\ rec' = [rec EXCEPT ![r].evidence = "error"]
  BY DEF EvidenceFails, Unlink, Saving, Registry, Proper, Stage
<1>2. /\ disk'[r] = [disk[r] EXCEPT !.temp = "none"]
      /\ rec'[r] = [rec[r] EXCEPT !.evidence = "error"]
  BY <1>1
<1>3. disk' \in [Runs -> Files]
  BY <1>1 DEF Files
<1>4. rec' \in [Runs -> Record]
  BY <1>1 DEF Record
<1>5. Registry'
  BY <1>1, <1>3, <1>4 DEF Registry
<1>6. Proper(r)'
  BY <1>1, <1>2 DEF Proper, Stage, Story, OnDisk, Saving, Record, Files
<1> QED
  BY <1>5, <1>6

\* All of a run's end becomes visible in one step.
LEMMA FinishStep ==
  ASSUME Registry, NEW r \in Runs, Proper(r), Finish(r)
  PROVE  Registry' /\ Proper(r)'
<1> DEFINE s == rec[r].events
           ok == thread[r] = "returned"
           e == IF ok THEN rec[r].held ELSE [seq |-> NextSeq(r), kind |-> "run.failed"]
<1>1. /\ UNCHANGED <<started, runs, disk>>
      /\ thread[r] \in {"returned", "crashed"} /\ rec[r].evidence # "none" /\ ~rec[r].done
      /\ rec[r] \in Record /\ rec \in [Runs -> Record] /\ disk[r] \in Files
      /\ thread' \in [Runs -> Threads] /\ thread'[r] = "finished"
  BY DEF Finish, Registry, Proper, Stage, Threads
<1>2. s \in Seq(Event)
  BY <1>1 DEF Record
<1>3. e \in Event /\ e.kind \in Terminal /\ (~ok => e.kind = "run.failed")
  <2>1. CASE ok
    BY <1>1, <2>1 DEF Record, Proper, Stage
  <2>2. CASE ~ok
    <3>1. NextSeq(r) \in Nat \ {0}
      BY <1>2, LenProperties DEF NextSeq
    <3> QED
      BY <2>2, <3>1 DEF Event, Terminal
  <2> QED
    BY <2>1, <2>2
<1> HIDE DEF e
<1>4. /\ Append(s, e) \in Seq(Event) /\ Append(s, e) # <<>>
      /\ Last(Append(s, e)) = e /\ Front(Append(s, e)) = s
  BY <1>2, <1>3, AppendEvent
<1>5. /\ rec'[r].events = Append(s, e)
      /\ rec'[r].result = ok /\ rec'[r].crash = (thread[r] = "crashed") /\ rec'[r].done
      /\ rec'[r].evidence = rec[r].evidence /\ rec'[r].held = rec[r].held
  BY <1>1 DEF Finish, Record, e
<1>6. rec' \in [Runs -> Record]
  BY <1>1, <1>4 DEF Finish, Record, e
<1>7. Registry'
  BY <1>1, <1>6 DEF Registry
<1>8. Stage(r)'
  BY <1>1, <1>5 DEF Proper, Stage
<1>9. Story(r)'
  BY <1>1, <1>3, <1>4, <1>5 DEF Proper, Story
<1>10. OnDisk(r)'
  BY <1>1, <1>4, <1>5 DEF Proper, Stage, OnDisk, Saving
<1> QED
  BY <1>7, <1>8, <1>9, <1>10 DEF Proper

LEMMA ReleaseStep ==
  ASSUME Registry, NEW r \in Runs, Proper(r), ReleaseSlot(r)
  PROVE  Registry' /\ Proper(r)'
<1>1. /\ UNCHANGED <<started, runs, rec, disk>>
      /\ thread[r] = "finished" /\ thread'[r] = "ended" /\ thread' \in [Runs -> Threads]
  BY DEF ReleaseSlot, Registry, Threads
<1>2. Registry'
  BY <1>1 DEF Registry
<1>3. Proper(r)'
  BY <1>1 DEF Proper, Stage, Story, OnDisk, Saving
<1> QED
  BY <1>2, <1>3

-----------------------------------------------------------------------------

LEMMA ThreadStep ==
  ASSUME Book, NEW r \in Runs, Thread(r)
  PROVE  Book'
<1> USE DEF Book
<1>1. Registry' /\ Proper(r)'
  BY ProgressStep, TerminalStep, ReturnStep, SaveStep, EvidenceFailsStep, FinishStep,
     ReleaseStep DEF Thread
<1>2. \A q \in Runs : Proper(q)'
  <2> SUFFICES ASSUME NEW q \in Runs \ {r} PROVE Proper(q)'
    BY <1>1
  <2> QED
    BY OwnRun, Untouched
<1>3. OneActiveRun'
  <2>1. active = r /\ r \in Range(runs)
    BY OwnRun DEF OneActiveRun
  <2>2. \A q \in Runs \ {r} : thread'[q] \in {"none", "ended", "killed"}
    BY <2>1, OwnRun DEF OneActiveRun
  <2>3. thread'[r] = "ended" \/ active' = active
    BY DEF Thread, PublishProgress, PublishTerminal, ExecuteReturns, SaveEvidence,
           EvidenceFails, Finish, ReleaseSlot, Registry
  <2> QED
    BY <2>1, <2>2, <2>3, OwnRun DEF OneActiveRun
<1>4. Numbered'
  BY OwnRun DEF Numbered, Runs
<1> QED
  BY <1>1, <1>2, <1>3, <1>4

LEMMA StartStep ==
  ASSUME Book, Start
  PROVE  Book'
<1> PICK r \in Runs : r = started + 1
  BY BoundsAssumption DEF Start, AdmitAndRetain, Book, Registry, Runs
<1>1. /\ r \in Runs /\ started' = r /\ active' = r /\ active = Nobody
      /\ runs' = Retain(Append(runs, r))
      /\ thread' = [thread EXCEPT ![r] = "running"]
      /\ UNCHANGED <<rec, disk>>
  BY BoundsAssumption DEF Start, AdmitAndRetain, Book, Registry, Runs
<1>2. \A q \in Runs : thread[q] \in {"none", "ended", "killed"}
  BY <1>1 DEF Book, OneActiveRun, Runs, Nobody
<1>3. runs' \in Seq(Nat) /\ r \in Range(runs')
  BY <1>1, NewestIsRetained DEF Book, Registry, Runs
<1>4. Registry'
  BY <1>1, <1>3 DEF Book, Registry, Threads, Runs
<1>5. OneActiveRun'
  BY <1>1, <1>2, <1>3 DEF Book, Registry, OneActiveRun
<1>6. Numbered'
  BY <1>1 DEF Book, Registry, Numbered, Runs
<1>7. \A q \in Runs \ {r} : Proper(q)'
  <2> SUFFICES ASSUME NEW q \in Runs \ {r} PROVE Proper(q)'
    OBVIOUS
  <2>1. rec'[q] = rec[q] /\ thread'[q] = thread[q] /\ disk'[q] = disk[q] /\ Proper(q)
    BY <1>1 DEF Book, Registry
  <2> QED
    BY <2>1, Untouched
<1>8. Proper(r)'
  <2>1. thread[r] = "none" /\ thread'[r] = "running" /\ Proper(r)
    BY <1>1 DEF Book, Registry, Numbered, Runs
  <2> QED
    BY <1>1, <2>1 DEF Proper, Stage, Story, OnDisk, Saving, NoFiles
<1> QED
  BY <1>1, <1>4, <1>5, <1>6, <1>7, <1>8 DEF Book

\* A killed process takes the registry and every thread with it.
LEMMA KillStep ==
  ASSUME Book, Kill
  PROVE  Book'
<1>1. /\ runs' = <<>> /\ UNCHANGED <<started, rec, disk>>
      /\ thread' \in [Runs -> Threads]
      /\ \A q \in Runs : thread'[q] = IF thread[q] \in {"none", "ended"} THEN thread[q]
                                      ELSE "killed"
  BY DEF Kill, Book, Registry, Threads
<1>2. Registry'
  BY <1>1 DEF Book, Registry
<1>3. OneActiveRun'
  BY <1>1 DEF OneActiveRun
<1>4. Numbered'
  BY <1>1 DEF Book, Numbered
<1>5. ASSUME NEW q \in Runs PROVE Proper(q)'
  <2>1. CASE thread[q] \in {"none", "ended"}
    BY <1>1, <2>1, Untouched DEF Book
  <2>2. CASE thread[q] \notin {"none", "ended"}
    <3>1. thread'[q] = "killed" /\ Proper(q)
      BY <1>1, <2>2 DEF Book
    <3> QED
      BY <1>1, <3>1 DEF Proper, Stage, Story, OnDisk
  <2> QED
    BY <2>1, <2>2
<1> QED
  BY <1>2, <1>3, <1>4, <1>5 DEF Book

LEMMA InitBook == Init => Book
<1> SUFFICES ASSUME Init PROVE Book
  OBVIOUS
<1>1. NewRecord \in Record /\ NoFiles \in Files
  BY EmptySeq DEF NewRecord, Record, NoFiles, NoBundle, Files
<1>2. Registry
  BY <1>1, EmptySeq DEF Init, Registry, Threads
<1>3. ASSUME NEW r \in Runs PROVE Proper(r)
  BY EmptySeq DEF Init, Proper, Stage, Story, OnDisk, NewRecord, NoFiles, NoBundle, Half,
     Progressing
<1> QED
  BY <1>2, <1>3 DEF Book, Init, OneActiveRun, Numbered

LEMMA StepBook == Book /\ [Next]_vars => Book'
<1> SUFFICES ASSUME Book, [Next]_vars PROVE Book'
  OBVIOUS
<1>1. CASE UNCHANGED <<started, runs, active, thread, rec, disk>>
  <2>1. \A q \in Runs : Proper(q)'
    BY <1>1, Untouched DEF Book
  <2> QED
    BY <1>1, <2>1 DEF Book, Registry, Numbered, OneActiveRun
<1>2. CASE \E c \in Streams : OpenStream(c) \/ PollStream(c) \/ LoseStream(c)
  BY <1>1, <1>2 DEF OpenStream, PollStream, LoseStream
<1>3. CASE \E r \in Runs : Thread(r)
  BY <1>3, ThreadStep
<1> QED
  BY <1>1, <1>2, <1>3, StartStep, KillStep DEF Next, vars

-----------------------------------------------------------------------------
(* Theorems. *)

\* The inductive invariant: each thread's progress is what its record and its
\* files tell, also of threads that were killed.
THEOREM ManagerBook == Spec => []Book
  BY InitBook, StepBook, PTL DEF Spec

\* However clients start runs and threads end or are killed, one run is active at
\* a time, and the registry still has it.
THEOREM OneAtATime == Spec => []OneActiveRun
<1>1. Book => OneActiveRun
  BY DEF Book
<1> QED
  BY <1>1, ManagerBook, PTL

\* A terminal event, once visible, is the last one and agrees with the record,
\* whenever execute() returns or crashes.
THEOREM Finality == Spec => []TerminalMeansFinal
<1>1. Book => TerminalMeansFinal
  <2> SUFFICES ASSUME Book, NEW r \in Runs
               PROVE  LET e == rec[r].events IN
                 /\ \A i \in 1..(Len(e) - 1) : e[i].kind \notin Terminal
                 /\ e # <<>> /\ Last(e).kind \in Terminal =>
                      /\ rec[r].done /\ rec[r].evidence # "none"
                      /\ rec[r].result # rec[r].crash
                      /\ rec[r].crash => Last(e).kind = "run.failed"
    BY DEF TerminalMeansFinal
  <2> DEFINE e == rec[r].events
  <2>1. e \in Seq(Event) /\ Len(e) \in Nat /\ (e # <<>> => Len(e) >= 1) /\ Story(r)
    BY LenProperties, EmptySeq DEF Book, Registry, Record, Proper
  <2>2. "progress" \notin Terminal
    BY DEF Terminal
  <2>3. CASE ~rec[r].done
    BY <2>1, <2>2, <2>3 DEF Story, Progressing, Last
  <2>4. CASE rec[r].done
    <3>1. \A i \in 1..(Len(e) - 1) : e[i] = Front(e)[i] /\ i \in 1..Len(Front(e))
      <4>1. \A i \in 1..(Len(e) - 1) : e[i] \in Event
        BY <2>1, ElementOfSeq
      <4> QED
        BY <2>1, <4>1, SubSeqProperties DEF Front
    <3> QED
      BY <2>1, <2>2, <2>4, <3>1 DEF Story, Progressing
  <2> QED
    BY <2>3, <2>4
<1> QED
  BY <1>1, ManagerBook, PTL

\* Whenever the process is killed or the store fails, evidence.json is complete
\* or absent and tells what the record tells.
THEOREM WholeEvidence == Spec => []EvidenceIsWhole
<1>1. Book => EvidenceIsWhole
  BY DEF Book, Proper, OnDisk, EvidenceIsWhole
<1> QED
  BY <1>1, ManagerBook, PTL

-----------------------------------------------------------------------------
(* Event streams. *)

\* The part of a sequence from one place on is a sequence.
LEMMA Parts ==
  ASSUME NEW S, NEW s \in Seq(S), NEW m \in Nat \ {0}, NEW n \in Nat, n <= Len(s)
  PROVE  /\ SubSeq(s, m, n) \in Seq(S)
         /\ Len(SubSeq(s, m, n)) = IF m <= n THEN n - m + 1 ELSE 0
         /\ \A i \in 1..(n - m + 1) : SubSeq(s, m, n)[i] = s[m + i - 1]
<1>1. Len(s) \in Nat /\ \A i \in 1..Len(s) : s[i] \in S
  BY LenProperties, ElementOfSeq
<1>2. \A i \in m..n : s[i] \in S
  BY <1>1
<1> QED
  BY <1>1, <1>2, SubSeqProperties

\* One element more of it.
LEMMA LongerPart ==
  ASSUME NEW S, NEW s \in Seq(S), NEW m \in Nat \ {0}, NEW n \in Nat, n < Len(s), m <= n + 1
  PROVE  SubSeq(s, m, n + 1) = Append(SubSeq(s, m, n), s[n + 1])
<1>1. Len(s) \in Nat
  BY LenProperties
<1>2. n + 1 \in 1..Len(s) /\ s[n + 1] \in S
  BY <1>1, ElementOfSeq
<1>3. /\ SubSeq(s, m, n) \in Seq(S) /\ Len(SubSeq(s, m, n)) = n - m + 1
      /\ \A i \in 1..(n - m + 1) : SubSeq(s, m, n)[i] = s[m + i - 1]
  <2>1. /\ SubSeq(s, m, n) \in Seq(S)
        /\ Len(SubSeq(s, m, n)) = IF m <= n THEN n - m + 1 ELSE 0
        /\ \A i \in 1..(n - m + 1) : SubSeq(s, m, n)[i] = s[m + i - 1]
    BY <1>1, Parts
  <2> QED
    BY <2>1
<1>4. /\ SubSeq(s, m, n + 1) \in Seq(S) /\ Len(SubSeq(s, m, n + 1)) = n - m + 2
      /\ \A i \in 1..(n - m + 2) : SubSeq(s, m, n + 1)[i] = s[m + i - 1]
  <2>1. /\ SubSeq(s, m, n + 1) \in Seq(S)
        /\ Len(SubSeq(s, m, n + 1)) = IF m <= n + 1 THEN n + 1 - m + 1 ELSE 0
        /\ \A i \in 1..(n + 1 - m + 1) : SubSeq(s, m, n + 1)[i] = s[m + i - 1]
    BY <1>1, <1>2, Parts
  <2>2. n + 1 - m + 1 = n - m + 2
    OBVIOUS
  <2> QED
    BY <2>1, <2>2
<1> DEFINE t == SubSeq(s, m, n)
           u == SubSeq(s, m, n + 1)
           e == s[n + 1]
<1> HIDE DEF t, u, e
<1>5. /\ Append(t, e) \in Seq(S) /\ Len(Append(t, e)) = n - m + 2
      /\ \A i \in 1..(n - m + 1) : Append(t, e)[i] = t[i]
      /\ Append(t, e)[n - m + 2] = e
  <2>1. /\ Append(t, e) \in Seq(S) /\ Len(Append(t, e)) = Len(t) + 1
        /\ \A i \in 1..Len(t) : Append(t, e)[i] = t[i]
        /\ Append(t, e)[Len(t) + 1] = e
    BY <1>2, <1>3, AppendProperties DEF t, e
  <2>2. Len(t) = n - m + 1 /\ Len(t) + 1 = n - m + 2
    BY <1>3 DEF t
  <2> QED
    BY <2>1, <2>2
<1>6. \A i \in 1..Len(u) : u[i] = Append(t, e)[i]
  <2> SUFFICES ASSUME NEW i \in 1..(n - m + 2) PROVE u[i] = Append(t, e)[i]
    BY <1>4 DEF u
  <2>1. CASE i \in 1..(n - m + 1)
    <3>1. u[i] = s[m + i - 1]
      BY <1>4 DEF u
    <3>2. t[i] = s[m + i - 1]
      BY <1>3, <2>1 DEF t
    <3> QED
      BY <1>5, <2>1, <3>1, <3>2
  <2>2. CASE i = n - m + 2
    <3>1. m + i - 1 = n + 1
      BY <2>2
    <3> QED
      BY <1>4, <1>5, <2>2, <3>1 DEF u, e
  <2>3. i \in 1..(n - m + 1) \/ i = n - m + 2
    OBVIOUS
  <2> QED
    BY <2>1, <2>2, <2>3
<1>7. Len(u) = Len(Append(t, e)) /\ u \in Seq(S) /\ Append(t, e) \in Seq(S)
  BY <1>4, <1>5 DEF u
<1>8. u = Append(t, e)
  BY <1>6, <1>7, SeqEqual
<1> QED
  BY <1>8 DEF t, u, e

\* Events are numbered from 1 without a gap.
Numbers(events) == \A i \in 1..Len(events) : events[i].seq = i

\* The sequence that events_after builds, element by element.
Kept(n, events) ==
  CHOOSE kept : kept = [i \in 0..Len(events) |->
    IF i = 0 THEN <<>>
    ELSE IF events[i].seq > n THEN Append(kept[i - 1], events[i]) ELSE kept[i - 1]]

\* Of events numbered from 1, those above n are the ones after the n-th.
LEMMA TheRest ==
  ASSUME NEW events \in Seq(Event), Numbers(events), NEW n \in 0..Len(events)
  PROVE  NumberedAbove(n, events) = SubSeq(events, n + 1, Len(events))
<1> DEFINE G == [i \in 0..Len(events) |-> SubSeq(events, n + 1, i)]
<1>1. Len(events) \in Nat /\ n \in Nat
  BY LenProperties
<1>2. ASSUME NEW i \in 0..Len(events), i <= n PROVE SubSeq(events, n + 1, i) = <<>>
  <2>1. /\ SubSeq(events, n + 1, i) \in Seq(Event)
        /\ Len(SubSeq(events, n + 1, i)) = IF n + 1 <= i THEN i - (n + 1) + 1 ELSE 0
    BY <1>1, Parts
  <2>2. Len(SubSeq(events, n + 1, i)) = 0
    BY <1>1, <1>2, <2>1
  <2> QED
    BY <2>1, <2>2, EmptySeq
<1>3. ASSUME NEW i \in 1..Len(events), i > n
      PROVE  SubSeq(events, n + 1, i) = Append(SubSeq(events, n + 1, i - 1), events[i])
  <2>1. PICK k \in Nat : k = i - 1
    BY <1>1
  <2>2. k < Len(events) /\ n + 1 <= k + 1 /\ n + 1 \in Nat \ {0} /\ k + 1 = i
    BY <1>1, <1>3, <2>1
  <2>3. SubSeq(events, n + 1, k + 1) = Append(SubSeq(events, n + 1, k), events[k + 1])
    BY <2>2, LongerPart
  <2> QED
    BY <2>1, <2>2, <2>3
<1>4. ASSUME NEW i \in 0..Len(events)
      PROVE  G[i] = IF i = 0 THEN <<>>
                    ELSE IF events[i].seq > n THEN Append(G[i - 1], events[i]) ELSE G[i - 1]
  <2>1. CASE i = 0
    BY <1>1, <1>2, <2>1
  <2>2. CASE i # 0
    <3>1. i \in 1..Len(events) /\ i - 1 \in 0..Len(events) /\ events[i].seq = i
      BY <1>1, <2>2 DEF Numbers
    <3>2. G[i] = SubSeq(events, n + 1, i) /\ G[i - 1] = SubSeq(events, n + 1, i - 1)
      BY <3>1
    <3>3. CASE i > n
      BY <1>3, <2>2, <3>1, <3>2, <3>3
    <3>4. CASE ~(i > n)
      <4>1. i <= n /\ i - 1 <= n
        BY <1>1, <3>1, <3>4
      <4>2. G[i] = <<>> /\ G[i - 1] = <<>>
        BY <1>2, <3>1, <3>2, <4>1
      <4> QED
        BY <2>2, <3>1, <3>4, <4>2
    <3> QED
      BY <3>3, <3>4
  <2> QED
    BY <2>1, <2>2
<1>5. G = [i \in 0..Len(events) |->
             IF i = 0 THEN <<>>
             ELSE IF events[i].seq > n THEN Append(G[i - 1], events[i]) ELSE G[i - 1]]
  <2>1. G = [i \in 0..Len(events) |-> G[i]]
    OBVIOUS
  <2> HIDE DEF G
  <2> QED
    BY <1>4, <2>1
<1> DEFINE K == Kept(n, events)
<1>6. K = [i \in 0..Len(events) |->
             IF i = 0 THEN <<>>
             ELSE IF events[i].seq > n THEN Append(K[i - 1], events[i]) ELSE K[i - 1]]
  <2> HIDE DEF G
  <2> QED
    BY <1>5 DEF Kept
<1> HIDE DEF K, G
<1> DEFINE Wrong == {i \in 0..Len(events) : K[i] # G[i]}
<1>7. Wrong = {}
  <2> SUFFICES ASSUME Wrong # {} PROVE FALSE
    OBVIOUS
  <2>1. Wrong \subseteq Nat
    BY <1>1
  <2>2. PICK i \in Wrong : \A j \in Wrong : <<j, i>> \notin OpToRel(<, Nat)
    BY <2>1, NatLessThanWellFounded, WFMin
  <2>3. i \in 0..Len(events) /\ K[i] # G[i]
    BY <2>2
  <2>4. i # 0
    <3>1. 0 \in 0..Len(events)
      BY <1>1
    <3>2. K[0] = <<>> /\ G[0] = <<>>
      BY <1>4, <1>6, <3>1
    <3> QED
      BY <2>3, <3>2
  <2>5. i - 1 \in 0..Len(events) /\ i - 1 < i /\ i - 1 \in Nat /\ i \in Nat
    BY <1>1, <2>3, <2>4
  <2>6. K[i - 1] # G[i - 1]
    BY <1>4, <1>6, <2>3, <2>4
  <2>7. i - 1 \in Wrong
    BY <2>5, <2>6
  <2>8. /\ <<i - 1, i>> \in Nat \X Nat
        /\ <<i - 1, i>>[1] = i - 1 /\ <<i - 1, i>>[2] = i
    BY <2>5
  <2>9. <<i - 1, i>> \in OpToRel(<, Nat)
    BY <2>5, <2>8 DEF OpToRel
  <2> QED
    BY <2>2, <2>7, <2>9
<1>8. K[Len(events)] = SubSeq(events, n + 1, Len(events))
  <2>1. Len(events) \in 0..Len(events)
    BY <1>1
  <2>2. K[Len(events)] = G[Len(events)]
    BY <1>7, <2>1
  <2> QED
    BY <2>1, <2>2 DEF G
<1> QED
  BY <1>8 DEF NumberedAbove, Kept, K

StreamState == [run : 0..MaxRuns, got : Seq(Event), state : {"idle", "open", "lost", "complete"}]

\* The events of a record are numbered 1..N, also once the one it holds is there.
Counted(r) ==
  /\ Numbers(rec[r].events)
  /\ rec[r].held # Nothing /\ ~rec[r].done => rec[r].held.seq = Len(rec[r].events) + 1

\* What a stream has received is the beginning of its run's events, and all of
\* them once the server has completed it.
Follows(c) ==
  LET s == stream[c] IN
  IF s.run = Nobody THEN s.state = "idle" /\ s.got = <<>>
  ELSE /\ s.run <= started /\ s.state # "idle"
       /\ Len(s.got) <= Len(rec[s.run].events)
       /\ \A i \in 1..Len(s.got) : s.got[i] = rec[s.run].events[i]
       /\ s.state = "complete" => rec[s.run].done /\ Len(s.got) = Len(rec[s.run].events)

\* The rest of the registry's types: it lists the runs of this process that are
\* retained.
Listed ==
  /\ started \in 0..MaxRuns /\ active \in 0..started
  /\ runs \in Seq(1..started) /\ Len(runs) <= Retained

Delivery ==
  /\ Book /\ Listed
  /\ \A r \in Runs : Counted(r)
  /\ stream \in [Streams -> StreamState]
  /\ \A c \in Streams : Follows(c)

\* The registry after one more run.
LEMMA Registered ==
  ASSUME NEW S, NEW s \in Seq(S), NEW r \in S
  PROVE  Retain(Append(s, r)) \in Seq(S) /\ Len(Retain(Append(s, r))) <= Retained
<1> DEFINE t == Append(s, r)
           m == 1 + IF Len(t) > Retained THEN Len(t) - Retained ELSE 0
           n == Len(t)
<1>1. t \in Seq(S) /\ n \in Nat /\ n >= 1
  BY AppendProperties, LenProperties
<1>2. m \in 1..n /\ m \in Nat \ {0} /\ n - m + 1 <= Retained /\ m <= n
  BY <1>1, BoundsAssumption
<1> HIDE DEF t, m
<1>3. SubSeq(t, m, n) \in Seq(S) /\ Len(SubSeq(t, m, n)) = IF m <= n THEN n - m + 1 ELSE 0
  BY <1>1, <1>2, Parts
<1>4. Len(SubSeq(t, m, n)) <= Retained
  <2>1. Len(SubSeq(t, m, n)) = n - m + 1
    BY <1>2, <1>3
  <2> QED
    BY <1>2, <2>1
<1> QED
  BY <1>3, <1>4 DEF Retain, t, m

\* The numbers go on with the next event, and what was there stays.
LEMMA NumbersGoOn ==
  ASSUME NEW s \in Seq(Event), Numbers(s), NEW e \in Event, e.seq = Len(s) + 1
  PROVE  /\ Numbers(Append(s, e))
         /\ Len(s) <= Len(Append(s, e))
         /\ \A i \in 1..Len(s) : Append(s, e)[i] = s[i]
<1> DEFINE t == Append(s, e)
<1>1. /\ Len(s) \in Nat /\ Len(t) = Len(s) + 1
      /\ \A i \in 1..Len(s) : t[i] = s[i]
      /\ t[Len(s) + 1] = e
  BY AppendProperties, LenProperties
<1> HIDE DEF t
<1>2. ASSUME NEW i \in 1..Len(t) PROVE t[i].seq = i
  <2>1. i \in 1..Len(s) \/ i = Len(s) + 1
    BY <1>1
  <2> QED
    BY <1>1, <2>1 DEF Numbers
<1>3. Len(s) <= Len(t)
  BY <1>1
<1> QED
  BY <1>1, <1>2, <1>3 DEF Numbers, t

\* What a step may do to the events a run has shown: add to them, until they are
\* complete.
Grows(r) ==
  /\ Len(rec[r].events) <= Len(rec'[r].events)
  /\ \A i \in 1..Len(rec[r].events) : rec'[r].events[i] = rec[r].events[i]
  /\ rec[r].done => rec'[r].done /\ rec'[r].events = rec[r].events

LEMMA Still ==
  ASSUME Registry, NEW q \in Runs, Counted(q), rec'[q] = rec[q]
  PROVE  Counted(q)' /\ Grows(q)
<1>1. Len(rec[q].events) \in Nat
  BY LenProperties DEF Registry, Record
<1> QED
  BY <1>1 DEF Counted, Grows

LEMMA ThreadCounts ==
  ASSUME Book, NEW r \in Runs, Counted(r), Thread(r)
  PROVE  Counted(r)' /\ Grows(r)
<1> DEFINE s == rec[r].events
<1>1. /\ rec[r] \in Record /\ rec \in [Runs -> Record]
      /\ s \in Seq(Event) /\ Len(s) \in Nat /\ Numbers(s) /\ Proper(r) /\ Registry
  BY LenProperties DEF Book, Registry, Record, Counted
<1>2. CASE rec' = rec
  BY <1>1, <1>2, Still
<1>3. CASE PublishProgress(r)
  <2> DEFINE e == [seq |-> NextSeq(r), kind |-> "progress"]
  <2>1. e \in Event /\ e.seq = Len(s) + 1
    BY <1>1 DEF NextSeq, Event
  <2>2. /\ rec'[r] = [rec[r] EXCEPT !.events = Append(s, e)]
        /\ rec[r].held = Nothing /\ thread[r] = "running"
    BY <1>1, <1>3 DEF PublishProgress
  <2> HIDE DEF e
  <2>3. rec'[r].events = Append(s, e) /\ rec'[r].held = Nothing /\ ~rec[r].done
    BY <1>1, <2>2 DEF Record, Proper, Stage
  <2> QED
    BY <1>1, <2>1, <2>3, NumbersGoOn DEF Counted, Grows
<1>4. CASE PublishTerminal(r)
  <2>1. PICK k \in Terminal : rec' = [rec EXCEPT ![r].held = [seq |-> NextSeq(r), kind |-> k]]
    BY <1>4 DEF PublishTerminal
  <2>2. rec'[r].events = s /\ rec'[r].held.seq = Len(s) + 1 /\ rec'[r].done = rec[r].done
    BY <1>1, <2>1 DEF Record, NextSeq
  <2> QED
    BY <1>1, <2>2 DEF Counted, Grows
<1>5. CASE SaveEvidence(r) \/ EvidenceFails(r)
  <2>1. rec'[r].events = s /\ rec'[r].held = rec[r].held /\ rec'[r].done = rec[r].done
    BY <1>1, <1>5 DEF SaveEvidence, EvidenceFails, Record
  <2> QED
    BY <1>1, <2>1 DEF Counted, Grows
<1>6. CASE Finish(r)
  <2> DEFINE e == IF thread[r] = "returned" THEN rec[r].held
                  ELSE [seq |-> NextSeq(r), kind |-> "run.failed"]
  <2>1. thread[r] \in {"returned", "crashed"} /\ ~rec[r].done
    BY <1>1, <1>6 DEF Finish, Proper, Stage
  <2>2. e \in Event /\ e.seq = Len(s) + 1
    <3>1. CASE thread[r] = "returned"
      BY <1>1, <2>1, <3>1 DEF Proper, Stage, Counted, Record
    <3>2. CASE thread[r] # "returned"
      BY <1>1, <3>2 DEF NextSeq, Event, Terminal
    <3> QED
      BY <3>1, <3>2
  <2>3. rec'[r].events = Append(s, e) /\ rec'[r].done
    BY <1>1, <1>6 DEF Finish, Record
  <2> HIDE DEF e
  <2> QED
    BY <1>1, <2>1, <2>2, <2>3, NumbersGoOn DEF Counted, Grows
<1>7. CASE ExecuteReturns(r) \/ ReleaseSlot(r)
  BY <1>2, <1>7 DEF ExecuteReturns, ReleaseSlot
<1> QED
  BY <1>3, <1>4, <1>5, <1>6, <1>7 DEF Thread

\* The stream has n of the fresh events, and with them the beginning of all.
Received(got, fresh, n, events) ==
  LET more == got \o SubSeq(fresh, 1, n) IN
  /\ more \in Seq(Event) /\ Len(more) = Len(got) + n
  /\ \A i \in 1..Len(more) : more[i] = events[i]

\* What events_after yields after what a stream has received, in whole or in
\* part, is what comes next.
LEMMA NextDelivery ==
  ASSUME NEW events \in Seq(Event), Numbers(events),
         NEW got \in Seq(Event), Len(got) <= Len(events),
         \A i \in 1..Len(got) : got[i] = events[i],
         NEW s, s.got = got, NEW fresh, fresh = NumberedAbove(Cursor(s), events)
  PROVE  /\ fresh \in Seq(Event) /\ Len(fresh) = Len(events) - Len(got)
         /\ SubSeq(fresh, 1, Len(fresh)) = fresh
         /\ \A n \in 0..Len(fresh) : Received(got, fresh, n, events)
<1> DEFINE N == Len(events)
           k == Len(got)
<1>1. N \in Nat /\ k \in Nat /\ k <= N /\ k \in 0..N /\ k + 1 \in Nat \ {0}
  BY LenProperties
<1>2. Cursor(s) = k
  <2>1. CASE got = <<>>
    BY <2>1 DEF Cursor
  <2>2. CASE got # <<>>
    <3>1. k # 0
      BY <2>2, EmptySeq
    <3>2. k \in 1..k /\ k \in 1..N
      BY <1>1, <3>1
    <3> QED
      BY <2>2, <3>2 DEF Cursor, Last, Numbers
  <2> QED
    BY <2>1, <2>2
<1>3. fresh = SubSeq(events, k + 1, N)
  BY <1>1, <1>2, TheRest
<1>4. /\ fresh \in Seq(Event) /\ Len(fresh) = N - k
      /\ \A i \in 1..(N - k) : fresh[i] = events[k + i]
  <2>1. /\ fresh \in Seq(Event)
        /\ Len(fresh) = IF k + 1 <= N THEN N - (k + 1) + 1 ELSE 0
        /\ \A i \in 1..(N - (k + 1) + 1) : fresh[i] = events[k + 1 + i - 1]
    BY <1>1, <1>3, Parts
  <2>2. Len(fresh) = N - k /\ N - (k + 1) + 1 = N - k
    BY <1>1, <2>1
  <2>3. \A i \in 1..(N - k) : k + 1 + i - 1 = k + i
    BY <1>1
  <2> QED
    BY <2>1, <2>2, <2>3
<1> HIDE DEF N, k
<1>5. SubSeq(fresh, 1, Len(fresh)) = fresh
  BY <1>4, SubSeqFull
<1>6. ASSUME NEW n \in 0..Len(fresh)
      PROVE  LET more == got \o SubSeq(fresh, 1, n) IN
             /\ more \in Seq(Event) /\ Len(more) = k + n
             /\ \A i \in 1..Len(more) : more[i] = events[i]
  <2> DEFINE part == SubSeq(fresh, 1, n)
             more == got \o part
  <2>1. n \in Nat /\ n <= N - k /\ n <= Len(fresh) /\ n - 1 + 1 = n
    BY <1>1, <1>4
  <2>2. /\ part \in Seq(Event)
        /\ Len(part) = IF 1 <= n THEN n - 1 + 1 ELSE 0
        /\ \A i \in 1..(n - 1 + 1) : part[i] = fresh[1 + i - 1]
    BY <1>4, <2>1, Parts
  <2>3. Len(part) = n
    BY <2>1, <2>2
  <2>4. ASSUME NEW i \in 1..n PROVE part[i] = events[k + i]
    <3>1. 1 + i - 1 = i /\ i \in 1..(N - k) /\ i \in 1..(n - 1 + 1)
      BY <1>1, <2>1
    <3>2. part[i] = fresh[i]
      BY <2>2, <3>1
    <3> QED
      BY <1>4, <3>1, <3>2
  <2> HIDE DEF part
  <2>5. /\ more \in Seq(Event) /\ Len(more) = k + n
        /\ \A i \in 1..(k + n) : more[i] = IF i <= k THEN got[i] ELSE part[i - k]
    <3>1. /\ got \o part \in Seq(Event)
          /\ Len(got \o part) = Len(got) + Len(part)
          /\ \A i \in 1..Len(got) + Len(part) : (got \o part)[i] =
                  IF i <= Len(got) THEN got[i] ELSE part[i - Len(got)]
      <4>1. got \in Seq(Event) /\ part \in Seq(Event)
        BY <2>2
      <4> QED
        BY <4>1, ConcatProperties
    <3>2. Len(got) = k
      BY DEF k
    <3> QED
      BY <2>3, <3>1, <3>2
  <2> HIDE DEF more
  <2>6. ASSUME NEW i \in 1..(k + n) PROVE more[i] = events[i]
    <3>1. CASE i <= k
      <4>1. i \in 1..k
        BY <1>1, <3>1
      <4> QED
        BY <2>5, <3>1, <4>1 DEF k
    <3>2. CASE ~(i <= k)
      <4>1. i - k \in 1..n /\ k + (i - k) = i
        BY <1>1, <2>1, <3>2
      <4> QED
        BY <2>4, <2>5, <3>2, <4>1
    <3> QED
      BY <3>1, <3>2
  <2> QED
    BY <2>5, <2>6 DEF part, more
<1> QED
  BY <1>4, <1>5, <1>6 DEF N, k, Received

\* A stream of a run whose events only grew still has their beginning.
LEMMA StillFollows ==
  ASSUME Delivery, NEW c \in Streams, stream'[c] = stream[c], Registry',
         started <= started', \A r \in Runs : Grows(r)
  PROVE  Follows(c)'
<1> DEFINE r == stream[c].run
<1>1. Follows(c) /\ Registry /\ stream[c] \in StreamState
  BY DEF Delivery, Book
<1>2. CASE r = Nobody
  BY <1>1, <1>2 DEF Follows
<1>3. CASE r # Nobody
  <2>1. /\ r \in Runs /\ r <= started /\ started \in Nat /\ r \in Nat
        /\ Grows(r) /\ Len(stream[c].got) \in Nat
        /\ Len(rec[r].events) \in Nat /\ Len(rec'[r].events) \in Nat /\ started' \in Nat
    <3>1. r \in Runs /\ r \in Nat
      BY <1>1, <1>3, BoundsAssumption DEF StreamState, Runs, Nobody
    <3>2. /\ rec[r].events \in Seq(Event) /\ rec'[r].events \in Seq(Event)
          /\ stream[c].got \in Seq(Event)
      BY <1>1, <3>1 DEF Registry, Record, StreamState
    <3> QED
      BY <1>1, <1>3, <3>1, <3>2, LenProperties DEF Follows, Registry
  <2>2. r <= started'
    BY <2>1
  <2>3. /\ Len(stream[c].got) <= Len(rec[r].events)
        /\ Len(rec[r].events) <= Len(rec'[r].events)
    BY <1>1, <1>3, <2>1 DEF Follows, Grows
  <2>4. Len(stream[c].got) <= Len(rec'[r].events)
    <3>1. /\ Len(stream[c].got) \in Nat
          /\ Len(rec[r].events) \in Nat /\ Len(rec'[r].events) \in Nat
      BY <2>1
    <3> QED
      BY <2>3, <3>1
  <2>5. \A i \in 1..Len(stream[c].got) : stream[c].got[i] = rec'[r].events[i]
    <3>1. \A i \in 1..Len(stream[c].got) : i \in 1..Len(rec[r].events)
      BY <2>1, <2>3
    <3> QED
      BY <1>1, <1>3, <2>1, <3>1 DEF Follows, Grows
  <2>6. stream[c].state = "complete" =>
          rec'[r].done /\ Len(stream[c].got) = Len(rec'[r].events)
    BY <1>1, <1>3, <2>1 DEF Follows, Grows
  <2> QED
    BY <1>1, <1>3, <2>2, <2>4, <2>5, <2>6 DEF Follows
<1> QED
  BY <1>2, <1>3

\* A step that touches no stream and adds to the records at most.
LEMMA RecordsGrow ==
  ASSUME Delivery, Book', Listed', \A r \in Runs : Counted(r)' /\ Grows(r),
         stream' = stream, started <= started'
  PROVE  Delivery'
<1>1. ASSUME NEW c \in Streams PROVE Follows(c)'
  BY StillFollows DEF Book, Registry
<1> QED
  BY <1>1 DEF Delivery

LEMMA ThreadDelivers ==
  ASSUME Delivery, NEW r \in Runs, Thread(r)
  PROVE  Delivery'
<1>1. Book' /\ Registry /\ Book
  BY ThreadStep DEF Delivery, Book
<1>2. /\ started' = started /\ runs' = runs /\ stream' = stream
      /\ active' = active \/ active' = Nobody
  <2>1. started' = started /\ runs' = runs
    BY <1>1, OwnRun
  <2>2. stream' = stream /\ (active' = active \/ active' = Nobody)
    BY DEF Thread, PublishProgress, PublishTerminal, ExecuteReturns, SaveEvidence,
           EvidenceFails, Finish, ReleaseSlot
  <2> QED
    BY <2>1, <2>2
<1>3. started \in Nat /\ started <= started'
  BY <1>1, <1>2 DEF Registry
<1>4. Listed'
  BY <1>2, <1>3 DEF Delivery, Listed, Nobody
<1>5. ASSUME NEW q \in Runs PROVE Counted(q)' /\ Grows(q)
  <2>1. CASE q = r
    BY <1>1, <2>1, ThreadCounts DEF Delivery
  <2>2. CASE q # r
    BY <1>1, <2>2, OwnRun, Still DEF Delivery
  <2> QED
    BY <2>1, <2>2
<1> QED
  BY <1>1, <1>2, <1>3, <1>4, <1>5, RecordsGrow

LEMMA StartDelivers ==
  ASSUME Delivery, Start
  PROVE  Delivery'
<1>1. Book' /\ Registry /\ Listed
  BY StartStep DEF Delivery, Book
<1>2. /\ started' = started + 1 /\ active' = started' /\ started' <= MaxRuns
      /\ runs' = Retain(Append(runs, started'))
      /\ UNCHANGED <<rec, stream>>
      /\ started \in Nat /\ started <= started' /\ started' \in Nat
  BY <1>1, BoundsAssumption DEF Start, AdmitAndRetain, Registry
<1>3. Listed'
  <2>1. 1..started \subseteq 1..started' /\ started' \in 1..started'
    BY <1>2
  <2>2. runs \in Seq(1..started')
    BY <1>1, <2>1, SeqMonotonic DEF Listed
  <2>3. runs' \in Seq(1..started') /\ Len(runs') <= Retained
    BY <1>2, <2>1, <2>2, Registered
  <2> QED
    BY <1>2, <2>3, BoundsAssumption DEF Listed
<1>4. \A r \in Runs : Counted(r)' /\ Grows(r)
  BY <1>1, <1>2, Still DEF Delivery
<1> QED
  BY <1>1, <1>2, <1>3, <1>4, RecordsGrow

\* A step of a stream leaves the records alone.
LEMMA Reading ==
  ASSUME Delivery, NEW c \in Streams, UNCHANGED <<started, runs, active, thread, rec, disk>>,
         NEW s \in StreamState, stream' = [stream EXCEPT ![c] = s], Follows(c)'
  PROVE  Delivery'
<1>1. Book'
  <2>1. \A q \in Runs : Proper(q)'
    BY Untouched DEF Delivery, Book
  <2> QED
    BY <2>1 DEF Delivery, Book, Registry, Numbered, OneActiveRun
<1>2. Listed' /\ started \in Nat /\ started <= started'
  BY DEF Delivery, Book, Registry, Listed
<1>3. \A r \in Runs : Counted(r)' /\ Grows(r)
  BY Still DEF Delivery, Book
<1>4. stream' \in [Streams -> StreamState]
  BY DEF Delivery
<1>5. ASSUME NEW b \in Streams PROVE Follows(b)'
  <2>1. CASE b = c
    BY <2>1
  <2>2. CASE b # c
    <3>1. stream'[b] = stream[b]
      BY <2>2 DEF Delivery
    <3> QED
      BY <1>1, <1>2, <1>3, <3>1, StillFollows DEF Book
  <2> QED
    BY <2>1, <2>2
<1> QED
  BY <1>1, <1>2, <1>3, <1>4, <1>5 DEF Delivery

\* A stream that receives n of the events that are there for it, all of them if
\* the server completes it with that.
LEMMA ReceiveDelivers ==
  ASSUME Delivery, NEW c \in Streams, UNCHANGED <<started, runs, active, thread, rec, disk>>,
         stream[c].state = "open",
         NEW n \in 0..Len(Fresh(stream[c].run, Cursor(stream[c]))),
         NEW state \in {"open", "lost", "complete"},
         state = "complete" =>
           /\ rec[stream[c].run].done
           /\ n = Len(Fresh(stream[c].run, Cursor(stream[c]))),
         stream' = [stream EXCEPT
           ![c].got = @ \o SubSeq(Fresh(stream[c].run, Cursor(stream[c])), 1, n),
           ![c].state = state]
  PROVE  Delivery'
<1> DEFINE r == stream[c].run
           got == stream[c].got
           events == rec[r].events
           fresh == Fresh(r, Cursor(stream[c]))
           more == got \o SubSeq(fresh, 1, n)
<1>1. /\ stream[c] \in StreamState /\ Follows(c) /\ r # Nobody /\ r <= started
      /\ r \in Runs /\ got \in Seq(Event) /\ Counted(r)
  <2>1. stream[c] \in StreamState /\ Follows(c) /\ r # Nobody /\ r <= started
    BY DEF Delivery, Follows
  <2>2. r \in Runs
    BY <2>1, BoundsAssumption DEF StreamState, Runs, Nobody
  <2> QED
    BY <2>1, <2>2 DEF Delivery, StreamState
<1>2. /\ events \in Seq(Event) /\ Numbers(events) /\ Len(got) <= Len(events)
      /\ \A i \in 1..Len(got) : got[i] = events[i]
  BY <1>1 DEF Delivery, Book, Registry, Record, Counted, Follows
<1>3. Len(got) \in Nat /\ Len(events) \in Nat
  BY <1>1, <1>2, LenProperties
<1>4. fresh = NumberedAbove(Cursor(stream[c]), events)
  BY DEF Fresh
<1> HIDE DEF fresh, got, events
<1>5. /\ fresh \in Seq(Event) /\ Len(fresh) = Len(events) - Len(got)
      /\ more \in Seq(Event) /\ Len(more) = Len(got) + n
      /\ \A i \in 1..Len(more) : more[i] = events[i]
  <2>1. stream[c].got = got /\ got \in Seq(Event)
    BY <1>1 DEF got
  <2>2. n \in 0..Len(fresh)
    BY DEF fresh
  <2> QED
    <3>1. /\ fresh \in Seq(Event) /\ Len(fresh) = Len(events) - Len(got)
          /\ \A m \in 0..Len(fresh) : Received(got, fresh, m, events)
      BY <1>2, <1>4, <2>1, NextDelivery
    <3> QED
      BY <2>2, <3>1 DEF Received
<1>6. Len(more) <= Len(events) /\ (n = Len(fresh) => Len(more) = Len(events))
  <2>1. n \in 0..Len(fresh)
    BY DEF fresh
  <2> QED
    BY <1>3, <1>5, <2>1
<1> HIDE DEF more, r
<1> DEFINE t == [stream[c] EXCEPT !.got = more, !.state = state]
<1>7. /\ t \in StreamState /\ stream' = [stream EXCEPT ![c] = t]
      /\ t.run = r /\ t.got = more /\ t.state = state
  <2>1. /\ stream[c] \in StreamState /\ stream[c].run = r
        /\ stream' = [stream EXCEPT ![c].got = more, ![c].state = state]
    <3>1. stream[c] \in StreamState /\ stream[c].run = r
      BY <1>1 DEF r
    <3>2. stream' = [stream EXCEPT ![c].got = more, ![c].state = state]
      BY DEF more, fresh, got, r
    <3> QED
      BY <3>1, <3>2
  <2> QED
    BY <1>5, <2>1 DEF StreamState
<1> HIDE DEF t
<1>8. stream'[c] = t /\ rec'[r].events = events /\ rec'[r].done = rec[r].done
  BY <1>7 DEF Delivery, events
<1>9. state = "complete" => rec[r].done /\ n = Len(fresh)
  BY DEF r, fresh
<1>10. r # Nobody /\ r <= started'
  BY <1>1
<1>11. Follows(c)'
  BY <1>5, <1>6, <1>7, <1>8, <1>9, <1>10 DEF Follows
<1> QED
  BY <1>7, <1>11, Reading

LEMMA PollDelivers ==
  ASSUME Delivery, NEW c \in Streams, PollStream(c)
  PROVE  Delivery'
<1> DEFINE r == stream[c].run
           fresh == Fresh(r, Cursor(stream[c]))
           state == IF rec[r].done THEN "complete" ELSE "open"
<1>1. fresh \in Seq(Event) /\ SubSeq(fresh, 1, Len(fresh)) = fresh
  <2>1. stream[c] \in StreamState /\ Follows(c) /\ r # Nobody
    BY DEF PollStream, Delivery, Follows
  <2>2. r \in Runs
    BY <2>1, BoundsAssumption DEF StreamState, Runs, Nobody
  <2>3. /\ rec[r].events \in Seq(Event) /\ Numbers(rec[r].events)
        /\ stream[c].got \in Seq(Event) /\ Len(stream[c].got) <= Len(rec[r].events)
        /\ \A i \in 1..Len(stream[c].got) : stream[c].got[i] = rec[r].events[i]
    BY <2>1, <2>2 DEF Delivery, Book, Registry, Record, Counted, Follows, StreamState
  <2> QED
    BY <2>3, NextDelivery DEF Fresh
<1>2. Len(fresh) \in 0..Len(fresh)
  BY <1>1, LenProperties
<1>3. /\ UNCHANGED <<started, runs, active, thread, rec, disk>> /\ stream[c].state = "open"
      /\ stream' = [stream EXCEPT ![c].got = @ \o SubSeq(fresh, 1, Len(fresh)),
                                  ![c].state = state]
  BY <1>1 DEF PollStream
<1>4. /\ state \in {"open", "lost", "complete"}
      /\ state = "complete" => rec[r].done
  OBVIOUS
<1> QED
  BY <1>2, <1>3, <1>4, ReceiveDelivers

LEMMA LoseDelivers ==
  ASSUME Delivery, NEW c \in Streams, LoseStream(c)
  PROVE  Delivery'
<1>1. PICK n \in 0..Len(Fresh(stream[c].run, Cursor(stream[c]))) :
        stream' = [stream EXCEPT
          ![c].got = @ \o SubSeq(Fresh(stream[c].run, Cursor(stream[c])), 1, n),
          ![c].state = "lost"]
  BY DEF LoseStream
<1>2. UNCHANGED <<started, runs, active, thread, rec, disk>> /\ stream[c].state = "open"
  BY DEF LoseStream
<1> QED
  BY <1>1, <1>2, ReceiveDelivers

LEMMA OpenDelivers ==
  ASSUME Delivery, NEW c \in Streams, OpenStream(c)
  PROVE  Delivery'
<1>1. UNCHANGED <<started, runs, active, thread, rec, disk>>
  BY DEF OpenStream
<1>2. \A r \in Range(runs) : r \in Runs /\ r <= started
  <2>1. runs \in Seq(1..started) /\ started \in 0..MaxRuns
    BY DEF Delivery, Listed
  <2>2. DOMAIN runs = 1..Len(runs) /\ \A i \in 1..Len(runs) : runs[i] \in 1..started
    BY <2>1, LenProperties, ElementOfSeq
  <2> QED
    BY <2>1, <2>2, BoundsAssumption DEF Range, Runs
<1>3. ASSUME NEW r \in Range(runs),
             stream' = [stream EXCEPT ![c] = [run |-> r, got |-> <<>>, state |-> "open"]]
      PROVE  Delivery'
  <2> DEFINE t == [run |-> r, got |-> <<>>, state |-> "open"]
  <2>1. r \in Runs /\ r <= started /\ r # Nobody /\ r \in 0..MaxRuns
    BY <1>2, BoundsAssumption DEF Runs, Nobody
  <2>2. t \in StreamState
    BY <2>1, EmptySeq DEF StreamState
  <2>3. stream'[c] = t /\ rec' = rec /\ started' = started
    BY <1>1, <1>3 DEF Delivery
  <2>4. rec[r].events \in Seq(Event) /\ Len(<<>>) = 0
    BY <2>1, EmptySeq DEF Delivery, Book, Registry, Record
  <2>5. Len(rec[r].events) \in Nat /\ 0 <= Len(rec[r].events)
    BY <2>4, LenProperties
  <2>6. Follows(c)'
    BY <2>1, <2>3, <2>4, <2>5 DEF Follows
  <2> QED
    BY <1>1, <1>3, <2>2, <2>6, Reading
<1>4. ASSUME stream[c].state = "lost", stream' = [stream EXCEPT ![c].state = "open"]
      PROVE  Delivery'
  <2> DEFINE t == [stream[c] EXCEPT !.state = "open"]
  <2>1. stream[c] \in StreamState /\ Follows(c)
    BY DEF Delivery
  <2>2. /\ t \in StreamState /\ stream' = [stream EXCEPT ![c] = t]
        /\ t.run = stream[c].run /\ t.got = stream[c].got /\ t.state = "open"
    BY <1>4, <2>1 DEF StreamState, Delivery
  <2> HIDE DEF t
  <2>3. stream'[c] = t /\ rec' = rec /\ started' = started
    BY <1>1, <2>2 DEF Delivery
  <2>4. Follows(c)'
    BY <1>4, <2>1, <2>2, <2>3 DEF Follows
  <2> QED
    BY <1>1, <2>2, <2>4, Reading
<1> QED
  BY <1>3, <1>4 DEF OpenStream

\* A killed process loses its connections; what was received, was received.
LEMMA KillDelivers ==
  ASSUME Delivery, Kill
  PROVE  Delivery'
<1>1. Book'
  BY KillStep DEF Delivery
<1>2. Listed'
  <2>1. runs' = <<>> /\ active' = Nobody /\ started' = started /\ started \in 0..MaxRuns
    BY DEF Kill, Delivery, Listed
  <2>2. <<>> \in Seq(1..started) /\ Len(<<>>) = 0
    BY EmptySeq
  <2> QED
    BY <2>1, <2>2, BoundsAssumption DEF Listed, Nobody
<1>3. \A r \in Runs : Counted(r)'
  BY Still DEF Kill, Delivery, Book
<1>4. ASSUME NEW c \in Streams
      PROVE  /\ stream'[c] \in StreamState /\ Follows(c)'
  <2>1. /\ stream[c] \in StreamState /\ Follows(c)
        /\ stream'[c] = IF stream[c].state = "open" THEN [stream[c] EXCEPT !.state = "lost"]
                        ELSE stream[c]
        /\ rec' = rec /\ started' = started
    BY DEF Kill, Delivery
  <2>2. CASE stream[c].state = "open"
    <3>1. /\ stream'[c] \in StreamState /\ stream'[c].run = stream[c].run
          /\ stream'[c].got = stream[c].got /\ stream'[c].state = "lost"
      BY <2>1, <2>2 DEF StreamState
    <3> QED
      BY <2>1, <2>2, <3>1 DEF Follows
  <2>3. CASE stream[c].state # "open"
    BY <2>1, <2>3 DEF Follows
  <2> QED
    BY <2>2, <2>3
<1>5. stream' \in [Streams -> StreamState]
  BY <1>4 DEF Kill
<1> QED
  BY <1>1, <1>2, <1>3, <1>4, <1>5 DEF Delivery

LEMMA InitDelivers == Init => Delivery
<1> SUFFICES ASSUME Init PROVE Delivery
  OBVIOUS
<1>1. Book
  BY InitBook
<1>2. /\ <<>> \in Seq(1..started) /\ <<>> \in Seq(Event) /\ Len(<<>>) = 0
      /\ started = 0 /\ runs = <<>> /\ active = 0
      /\ \A r \in Runs : rec[r] = NewRecord
      /\ stream = [c \in Streams |-> NoStream]
  BY EmptySeq DEF Init, Nobody
<1>3. Listed
  BY <1>2, BoundsAssumption DEF Listed
<1>4. ASSUME NEW r \in Runs PROVE Counted(r)
  BY <1>2 DEF Counted, Numbers, NewRecord
<1>5. NoStream \in StreamState
  BY <1>2, BoundsAssumption DEF NoStream, StreamState, Nobody
<1>6. stream \in [Streams -> StreamState]
  BY <1>2, <1>5
<1>7. ASSUME NEW c \in Streams PROVE Follows(c)
  BY <1>2 DEF Follows, NoStream
<1> QED
  BY <1>1, <1>3, <1>4, <1>6, <1>7 DEF Delivery

LEMMA StepDelivers == Delivery /\ [Next]_vars => Delivery'
<1> SUFFICES ASSUME Delivery, [Next]_vars PROVE Delivery'
  OBVIOUS
<1>1. CASE UNCHANGED vars
  <2>1. UNCHANGED <<started, runs, active, thread, rec, disk, stream>>
    BY <1>1 DEF vars
  <2>2. Book' /\ Listed'
    BY <2>1, StepBook DEF Delivery, Listed
  <2>3. started <= started' /\ \A r \in Runs : Counted(r)' /\ Grows(r)
    BY <2>1, Still DEF Delivery, Book, Registry
  <2> QED
    BY <2>1, <2>2, <2>3, RecordsGrow
<1> QED
  BY <1>1, StartDelivers, KillDelivers, ThreadDelivers, OpenDelivers, PollDelivers,
     LoseDelivers DEF Next

-----------------------------------------------------------------------------
(* Theorems about the streams. *)

\* The inductive invariant of the streams: the events of a record are numbered in
\* the order they are published, and a stream's cursor counts what it received.
THEOREM StreamsDeliver == Spec => []Delivery
  BY InitDelivers, StepDelivers, PTL DEF Spec

\* Every variable keeps its type; the registry never holds more than it retains.
THEOREM TypesHold == Spec => []TypeOK
<1>1. Delivery => TypeOK
  <2> SUFFICES ASSUME Delivery PROVE TypeOK
    OBVIOUS
  <2>1. Registry /\ Listed
    BY DEF Delivery, Book
  <2>2. DOMAIN rec = Runs /\ \A r \in Runs : rec[r] \in Record /\ disk[r] \in Files
    BY <2>1 DEF Registry
  <2>3. ASSUME NEW r \in Runs
        PROVE  /\ rec[r].events \in Seq(Event)
               /\ rec[r].held \in Event \cup {Nothing}
               /\ rec[r].result \in BOOLEAN /\ rec[r].crash \in BOOLEAN
               /\ rec[r].done \in BOOLEAN
               /\ rec[r].evidence \in {"none", "saved", "error"}
    BY <2>2 DEF Record
  <2>4. ASSUME NEW c \in Streams
        PROVE  /\ stream[c].run \in 0..started
               /\ stream[c].got \in Seq(Event)
               /\ stream[c].state \in {"idle", "open", "lost", "complete"}
    <3>1. stream[c] \in StreamState /\ Follows(c)
      BY DEF Delivery
    <3>2. stream[c].run \in 0..MaxRuns /\ started \in 0..MaxRuns
      BY <2>1, <3>1 DEF StreamState, Listed
    <3>3. stream[c].run = 0 \/ stream[c].run <= started
      BY <3>1 DEF Follows, Nobody
    <3>4. stream[c].run \in 0..started
      BY <3>2, <3>3, BoundsAssumption
    <3> QED
      BY <3>1, <3>4 DEF StreamState
  <2>5. thread \in [Runs -> Threads]
    BY <2>1 DEF Registry
  <2> QED
    BY <2>1, <2>2, <2>3, <2>4, <2>5 DEF TypeOK, Listed, Files
<1> QED
  BY <1>1, StreamsDeliver, PTL

\* However often a consumer loses its connection and resumes, also across a
\* restart of the server, it has received each event once and in order, and the
\* terminal one if the server completed the stream.
THEOREM ExactStreams == Spec => []StreamsAreExact
<1>1. Delivery => StreamsAreExact
  <2> SUFFICES ASSUME Delivery, NEW c \in Streams
               PROVE  LET s == stream[c] IN
                 /\ s.run # Nobody => IsPrefix(s.got, rec[s.run].events)
                 /\ \A i \in 1..Len(s.got) : s.got[i].seq = i
                 /\ s.state = "complete" => s.got # <<>> /\ Last(s.got).kind \in Terminal
    BY DEF StreamsAreExact
  <2>1. stream[c] \in StreamState /\ Follows(c)
    BY DEF Delivery
  <2>2. CASE stream[c].run = Nobody
    BY <2>1, <2>2, EmptySeq DEF Follows
  <2>3. CASE stream[c].run # Nobody
    <3> DEFINE r == stream[c].run
               got == stream[c].got
               events == rec[r].events
    <3>1. r \in Runs
      BY <2>1, <2>3, BoundsAssumption DEF StreamState, Runs, Nobody
    <3>2. /\ got \in Seq(Event) /\ events \in Seq(Event) /\ Numbers(events) /\ Story(r)
          /\ Len(got) <= Len(events)
          /\ \A i \in 1..Len(got) : got[i] = events[i]
          /\ stream[c].state = "complete" => rec[r].done /\ Len(got) = Len(events)
      BY <2>1, <2>3, <3>1
         DEF Delivery, Book, Registry, Record, Proper, Counted, Follows, StreamState
    <3>3. Len(got) \in Nat /\ Len(events) \in Nat
      BY <3>2, LenProperties
    <3> HIDE DEF got, events
    <3>4. IsPrefix(got, events)
      <4>1. SubSeq(got, 1, Len(got)) = got
        BY <3>2, SubSeqFull
      <4>2. /\ SubSeq(events, 1, Len(got)) \in Seq(Event)
            /\ Len(SubSeq(events, 1, Len(got))) =
                 IF 1 <= Len(got) THEN Len(got) - 1 + 1 ELSE 0
            /\ \A i \in 1..(Len(got) - 1 + 1) :
                 SubSeq(events, 1, Len(got))[i] = events[1 + i - 1]
        BY <3>2, <3>3, Parts
      <4>3. Len(SubSeq(events, 1, Len(got))) = Len(got)
        BY <3>3, <4>2
      <4>4. \A i \in 1..Len(got) : SubSeq(events, 1, Len(got))[i] = got[i]
        BY <3>2, <3>3, <4>2
      <4>5. SubSeq(events, 1, Len(got)) = got
        BY <3>2, <4>2, <4>3, <4>4, SeqEqual
      <4> QED
        BY <3>2, <4>1, <4>5 DEF IsPrefix
    <3>5. \A i \in 1..Len(got) : got[i].seq = i
      BY <3>2, <3>3 DEF Numbers
    <3>6. ASSUME stream[c].state = "complete"
          PROVE  got # <<>> /\ Last(got).kind \in Terminal
      <4>1. Len(got) = Len(events) /\ rec[r].done
        BY <3>2, <3>6
      <4>2. got = events
        BY <3>2, <4>1, SeqEqual
      <4> QED
        BY <3>2, <4>1, <4>2 DEF Story, events
    <3> QED
      BY <3>4, <3>5, <3>6 DEF got, events
  <2> QED
    BY <2>2, <2>3
<1> QED
  BY <1>1, StreamsDeliver, PTL
=============================================================================
