----------------------------- MODULE RunManager -----------------------------
(***************************************************************************)
(* RunManager and RunRecord (src/perjury/runs.py) behind the HTTP handlers *)
(* of src/perjury/api.py: POST starts a run in its own thread, which       *)
(* publishes events, stores its evidence and its result and then gives the *)
(* slot back; any number of event streams follow a record meanwhile.  The  *)
(* process may be killed at any time: the registry is in memory, only the  *)
(* evidence is on disk (module EvidenceStore).                             *)
(*                                                                         *)
(* Runs are numbered in the order they start.  What a run publishes is     *)
(* what RunLifecycle promises: progress events, then one terminal event.   *)
(* A step is a critical section of the registry lock or of a record lock.  *)
(***************************************************************************)
EXTENDS EvidenceStore, FiniteSets, SequencesExt

CONSTANTS MaxRuns,       \* bound: runs ever started
          MaxProgress,   \* bound: progress events of a run
          Retained,      \* MAX_RETAINED_RUNS
          Streams        \* event streams (browser tabs, scripts)

ASSUME BoundsAssumption ==
  /\ MaxRuns \in Nat /\ MaxProgress \in Nat
  /\ Retained \in Nat \ {0}

Runs == 1..MaxRuns
Nobody == 0
Terminal == {"run.completed", "run.failed"}
Nothing == [seq |-> 0, kind |-> "none"]

VARIABLES
  started,   \* number of runs started
  runs,      \* the registry, oldest first
  active,    \* manager._active
  thread,    \* [Runs -> where the run's thread is]
  rec,       \* [Runs -> RunRecord]
  stream     \* [Streams -> the run it follows, what it received, its state]

vars == <<started, runs, active, thread, rec, stream, disk>>

NewRecord == [events |-> <<>>, held |-> Nothing, result |-> FALSE, crash |-> FALSE,
              evidence |-> "none", done |-> FALSE]
NoStream == [run |-> Nobody, got |-> <<>>, state |-> "idle"]

Init ==
  /\ started = 0
  /\ runs = <<>>
  /\ active = Nobody
  /\ thread = [r \in Runs |-> "none"]
  /\ rec = [r \in Runs |-> NewRecord]
  /\ stream = [c \in Streams |-> NoStream]
  /\ disk = [r \in Runs |-> NoFiles]

-----------------------------------------------------------------------------
(* RunManager.start. *)

RetainAll(s) == SubSeq(s, 1, Len(s))

Retain(s) == SubSeq(s, 1 + IF Len(s) > Retained THEN Len(s) - Retained ELSE 0, Len(s))

AdmitAndRetain ==
  /\ started < MaxRuns
  /\ started' = started + 1
  /\ runs' = Retain(Append(runs, started'))
  /\ active' = started'
  /\ thread' = [thread EXCEPT ![started'] = "running"]
  /\ UNCHANGED <<rec, stream, disk>>

StartUnchecked == AdmitAndRetain

\* Refused with RunConflictError, without a trace, while a run is active.  The
\* active run is the newest, so dropping the oldest never reaches it.
Start ==
  /\ active = Nobody
  /\ AdmitAndRetain

-----------------------------------------------------------------------------
(* RunManager._run and RunRecord.publish, in the run's thread. *)

NextSeq(r) == Len(rec[r].events) + 1

PublishProgress(r) ==
  /\ thread[r] = "running"
  /\ rec[r].held = Nothing
  /\ Len(rec[r].events) < MaxProgress
  /\ rec' = [rec EXCEPT ![r].events = Append(@, [seq |-> NextSeq(r), kind |-> "progress"])]
  /\ UNCHANGED <<started, runs, active, thread, stream, disk>>

PublishTerminalAtOnce(r) ==
  /\ thread[r] = "running"
  /\ rec[r].held = Nothing
  /\ \E k \in Terminal :
       rec' = [rec EXCEPT ![r].events = Append(@, [seq |-> NextSeq(r), kind |-> k]),
                          ![r].held = [seq |-> NextSeq(r), kind |-> k]]
  /\ UNCHANGED <<started, runs, active, thread, stream, disk>>

\* The terminal event is withheld.
PublishTerminal(r) ==
  /\ thread[r] = "running"
  /\ rec[r].held = Nothing
  /\ \E k \in Terminal : rec' = [rec EXCEPT ![r].held = [seq |-> NextSeq(r), kind |-> k]]
  /\ UNCHANGED <<started, runs, active, thread, stream, disk>>

\* execute() returns a result after its terminal event, or raises at any time:
\* before its first event, or after its last.
ExecuteReturns(r) ==
  /\ thread[r] = "running"
  /\ \/ /\ rec[r].held # Nothing
        /\ thread' = [thread EXCEPT ![r] = "returned"]
     \/ thread' = [thread EXCEPT ![r] = "crashed"]
  /\ UNCHANGED <<started, runs, active, rec, stream, disk>>

Saving(r) == thread[r] \in {"returned", "crashed"} /\ rec[r].evidence = "none"

\* The bundle is built from the result or from what was published, and written.
SaveEvidence(r) ==
  /\ Saving(r)
  /\ \/ OpenTemp(r) /\ UNCHANGED rec
     \/ WriteTemp(r) /\ UNCHANGED rec
     \/ Replace(r, Bundle(thread[r] = "crashed", rec[r].events)) /\ UNCHANGED rec
     \/ /\ disk[r].bundle # NoBundle
        /\ rec' = [rec EXCEPT ![r].evidence = "saved"]
        /\ UNCHANGED disk
  /\ UNCHANGED <<started, runs, active, thread, stream>>

\* A problem is noted on the record and never fails the run.
EvidenceFails(r) ==
  /\ Saving(r) /\ disk[r].bundle = NoBundle
  /\ Unlink(r)
  /\ rec' = [rec EXCEPT ![r].evidence = "error"]
  /\ UNCHANGED <<started, runs, active, thread, stream>>

\* RunRecord.finish: the result and the event that announces it become visible
\* together.  A crashed run drops the event it may have held and ends with a
\* run.failed of its own, numbered after the last visible event.
Finish(r) ==
  /\ thread[r] \in {"returned", "crashed"}
  /\ rec[r].evidence # "none"
  /\ rec' = [rec EXCEPT ![r].result = thread[r] = "returned",
                        ![r].crash = thread[r] = "crashed",
                        ![r].events = Append(@, IF thread[r] = "returned" THEN rec[r].held
                                                ELSE [seq |-> NextSeq(r), kind |-> "run.failed"]),
                        ![r].done = TRUE]
  /\ thread' = [thread EXCEPT ![r] = "finished"]
  /\ UNCHANGED <<started, runs, active, stream, disk>>

ReleaseNever(r) ==
  /\ thread[r] = "finished"
  /\ thread' = [thread EXCEPT ![r] = "ended"]
  /\ UNCHANGED <<started, runs, active, rec, stream, disk>>

ReleaseSlot(r) ==
  /\ thread[r] = "finished"
  /\ active' = IF active = r THEN Nobody ELSE active
  /\ thread' = [thread EXCEPT ![r] = "ended"]
  /\ UNCHANGED <<started, runs, rec, stream, disk>>

-----------------------------------------------------------------------------
(* GET /api/runs/{id}/events. *)

Cursor(s) == IF s.got = <<>> THEN 0 ELSE Last(s.got).seq

\* A stream is opened on a retained run from the start, or resumed after the
\* last event it received.
OpenStream(c) ==
  /\ \/ /\ stream[c].state = "idle"
        /\ \E r \in Range(runs) :
             stream' = [stream EXCEPT ![c] = [run |-> r, got |-> <<>>, state |-> "open"]]
     \/ /\ stream[c].state = "lost"
        /\ stream[c].run \in Range(runs)
        /\ stream' = [stream EXCEPT ![c].state = "open"]
  /\ UNCHANGED <<started, runs, active, thread, rec, disk>>

\* The events numbered above n, in their order: a function, since no proof can
\* look into SelectSeq.
NumberedAbove(n, events) ==
  LET kept[i \in 0..Len(events)] ==
        IF i = 0 THEN <<>>
        ELSE IF events[i].seq > n THEN Append(kept[i - 1], events[i]) ELSE kept[i - 1]
  IN kept[Len(events)]

FreshFrom(r, cursor) == NumberedAbove(cursor - 1, rec[r].events)

\* events_after: what is there beyond the cursor, and whether it is all.
Fresh(r, cursor) == NumberedAbove(cursor, rec[r].events)

PollStreamUntilCompleted(c) ==
  LET s == stream[c]
      fresh == Fresh(s.run, Cursor(s)) IN
  /\ s.state = "open"
  /\ fresh # <<>>
  /\ stream' = [stream EXCEPT ![c].got = @ \o fresh,
                              ![c].state = IF Last(fresh).kind = "run.completed" THEN "complete"
                                           ELSE "open"]
  /\ UNCHANGED <<started, runs, active, thread, rec, disk>>

PollStream(c) ==
  LET s == stream[c]
      fresh == Fresh(s.run, Cursor(s)) IN
  /\ s.state = "open"
  /\ fresh # <<>> \/ rec[s.run].done
  /\ stream' = [stream EXCEPT ![c].got = @ \o fresh,
                              ![c].state = IF rec[s.run].done THEN "complete" ELSE "open"]
  /\ UNCHANGED <<started, runs, active, thread, rec, disk>>

\* The connection drops; what was fresh may have been received in part.
LoseStream(c) ==
  LET s == stream[c]
      fresh == Fresh(s.run, Cursor(s)) IN
  /\ s.state = "open"
  /\ \E n \in 0..Len(fresh) :
       stream' = [stream EXCEPT ![c].got = @ \o SubSeq(fresh, 1, n),
                                ![c].state = "lost"]
  /\ UNCHANGED <<started, runs, active, thread, rec, disk>>

-----------------------------------------------------------------------------

\* The process is killed and started again: what was in memory is gone, and who
\* asks for an old run is told there is none.
Kill ==
  /\ runs # <<>>
  /\ runs' = <<>> /\ active' = Nobody
  /\ thread' = [r \in Runs |-> IF thread[r] \in {"none", "ended"} THEN thread[r] ELSE "killed"]
  /\ stream' = [c \in Streams |->
                  IF stream[c].state = "open" THEN [stream[c] EXCEPT !.state = "lost"]
                  ELSE stream[c]]
  /\ UNCHANGED <<started, rec, disk>>

Thread(r) ==
  PublishProgress(r) \/ PublishTerminal(r) \/ ExecuteReturns(r) \/ SaveEvidence(r)
    \/ EvidenceFails(r) \/ Finish(r) \/ ReleaseSlot(r)

Next ==
  \/ Start \/ Kill
  \/ \E r \in Runs : Thread(r)
  \/ \E c \in Streams : OpenStream(c) \/ PollStream(c) \/ LoseStream(c)

Spec == Init /\ [][Next]_vars

\* The run's thread and the server's event loop are scheduled; nobody has to
\* start a run or open a stream.
FairSpec ==
  /\ Spec
  /\ \A r \in Runs : WF_vars(Thread(r))
  /\ \A c \in Streams : WF_vars(PollStream(c))

-----------------------------------------------------------------------------
(* Properties. *)

Event == [seq : Nat \ {0}, kind : {"progress"} \cup Terminal]
Threads == {"none", "running", "returned", "crashed", "finished", "ended", "killed"}

TypeOK ==
  /\ started \in 0..MaxRuns
  /\ runs \in Seq(1..started) /\ Len(runs) <= Retained
  /\ active \in 0..started
  /\ thread \in [Runs -> Threads]
  /\ DOMAIN rec = Runs
  /\ \A r \in Runs :
       /\ rec[r].events \in Seq(Event)
       /\ rec[r].held \in Event \cup {Nothing}
       /\ rec[r].result \in BOOLEAN /\ rec[r].crash \in BOOLEAN /\ rec[r].done \in BOOLEAN
       /\ rec[r].evidence \in {"none", "saved", "error"}
       /\ disk[r] \in [temp : {"none", "part", "whole"},
                       bundle : [outcome : {"none", "half", "result", "crash"}, events : Nat]]
  /\ \A c \in Streams :
       /\ stream[c].run \in 0..started
       /\ stream[c].got \in Seq(Event)
       /\ stream[c].state \in {"idle", "open", "lost", "complete"}

\* One run at a time, also while threads are ending: whoever still works on a
\* run holds the slot, and his run is in the registry.
OneActiveRun ==
  \A r \in Runs :
    thread[r] \notin {"none", "ended", "killed"} => active = r /\ r \in Range(runs)

\* A visible terminal event is the last one, and says what the record says:
\* the result or the crash is stored and the evidence is settled (module
\* docstring of runs.py).
TerminalMeansFinal ==
  \A r \in Runs :
    LET e == rec[r].events IN
    /\ \A i \in 1..(Len(e) - 1) : e[i].kind \notin Terminal
    /\ e # <<>> /\ Last(e).kind \in Terminal =>
         /\ rec[r].done /\ rec[r].evidence # "none"
         /\ rec[r].result # rec[r].crash
         /\ rec[r].crash => Last(e).kind = "run.failed"

\* Whenever the process is killed, evidence.json is there completely or not at
\* all, and says of the run what its record says; a temporary file stays behind
\* only when the process was killed over it.
EvidenceIsWhole ==
  \A r \in Runs :
    LET bundle == disk[r].bundle IN
    /\ bundle # Half
    /\ disk[r].temp # "none" => Saving(r) \/ thread[r] = "killed"
    /\ rec[r].evidence = "saved" => bundle # NoBundle
    /\ rec[r].evidence = "error" => bundle = NoBundle
    /\ rec[r].done /\ bundle # NoBundle =>
         bundle = Bundle(rec[r].crash, Front(rec[r].events))

\* However often a consumer reconnects, it receives every event once, in order,
\* numbered 1..N, and a stream the server completed has delivered the end.
StreamsAreExact ==
  \A c \in Streams :
    LET s == stream[c] IN
    /\ s.run # Nobody => IsPrefix(s.got, rec[s.run].events)
    /\ \A i \in 1..Len(s.got) : s.got[i].seq = i
    /\ s.state = "complete" => s.got # <<>> /\ Last(s.got).kind \in Terminal

\* A stream that stays connected is completed.
StreamsComplete == \A c \in Streams : stream[c].state = "open" ~> stream[c].state # "open"

\* The slot always comes back, also after a crash.
SlotComesBack == active # Nobody ~> active = Nobody

\* "A new run is allowed once the first has finished" (tests/test_api.py): who
\* has seen a run end is not refused on account of that run.
FinishedRunFreesSlot ==
  \A c \in Streams : stream[c].state = "complete" => stream[c].run # active
=============================================================================
