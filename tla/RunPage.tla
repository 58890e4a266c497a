------------------------------ MODULE RunPage ------------------------------
(***************************************************************************)
(* The demo page (src/perjury/ui/app.js with liveAdapter of adapters.js    *)
(* and reduce of store.js) against the API: a click starts a run, the page *)
(* reads a snapshot, follows the event stream from there, recovers when    *)
(* the stream drops, and reconciles the end with a last snapshot.  The     *)
(* page may be reloaded at any time and restores the run its URL names.    *)
(*                                                                         *)
(* JavaScript runs a handler to its next await in one step.  A fetch is    *)
(* three steps: sent, answered by the server, continued in the page.  The  *)
(* server is what RunManager shows of it: events 1..K of a run, the last   *)
(* one terminal and final, and one active run.                             *)
(***************************************************************************)
EXTENDS Integers, FiniteSets

CONSTANTS K,                \* events of a run
          MaxRuns,          \* bound: runs ever started
          MaxResubscribes,
          EarlyClick        \* whether the button is clicked while a restore is under way

ASSUME PageAssumption ==
  /\ K \in Nat \ {0} /\ MaxRuns \in Nat \ {0}
  /\ MaxResubscribes \in Nat
  /\ EarlyClick \in BOOLEAN

Runs == 1..MaxRuns
NoRun == 0
NoSnap == [run |-> NoRun, seq |-> 0]
IsTerminal(s) == s.seq = K

VARIABLES
  started, active, published,  \* the server: runs, the slot, [Runs -> events visible]
  hash,      \* the run the URL names
  snap,      \* the snapshot shown
  disabled,  \* the button, disabled while a run is followed
  alert,     \* whether an alert is shown
  calls,     \* fetches not yet continued, as [op, run, attempt, reply, seq]
  timers,    \* follow() calls scheduled by setTimeout
  streams,   \* open event sources, as [run, attempt, cursor]
  unsub      \* the [run, attempt] of the source unsub() closes

server == <<started, active, published>>
following == <<timers, streams, unsub>>
button == <<disabled, alert>>
page == <<hash, snap, button, calls, following>>
vars == <<server, page>>

NoSource == [run |-> NoRun, attempt |-> 0]

Init ==
  /\ started = 0 /\ active = NoRun
  /\ published = [r \in Runs |-> 0]
  /\ hash = NoRun
  /\ snap = NoSnap
  /\ disabled = FALSE /\ alert = FALSE
  /\ calls = {} /\ timers = {} /\ streams = {}
  /\ unsub = NoSource

-----------------------------------------------------------------------------
(* The server. *)

Publish ==
  /\ active # NoRun
  /\ published[active] < K
  /\ published' = [published EXCEPT ![active] = @ + 1]
  /\ UNCHANGED <<started, active, page>>

ReleaseSlot ==
  /\ active # NoRun
  /\ published[active] = K
  /\ active' = NoRun
  /\ UNCHANGED <<started, published, page>>

Call(op, r, attempt) ==
  [op |-> op, run |-> r, attempt |-> attempt, reply |-> "none", seq |-> 0]

Reply(c, answer) == calls' = (calls \ {c}) \cup {answer}

\* POST: 202, 409, or lost on the way back.
AnswerStart(c) ==
  /\ c.op = "start" /\ c.reply = "none"
  /\ IF active = NoRun
     THEN /\ started < MaxRuns
          /\ started' = started + 1
          /\ active' = started'
          /\ \/ Reply(c, [c EXCEPT !.reply = "ok", !.run = started'])
             \/ Reply(c, [c EXCEPT !.reply = "error"])
     ELSE /\ Reply(c, [c EXCEPT !.reply = "error"])
          /\ UNCHANGED <<started, active>>
  /\ UNCHANGED <<published, hash, snap, button, following>>

AnswerSnapshotFromCache(c) ==
  /\ c.op # "start" /\ c.reply = "none"
  /\ \/ \E n \in 0..published[c.run] : Reply(c, [c EXCEPT !.reply = "ok", !.seq = n])
     \/ Reply(c, [c EXCEPT !.reply = "error"])
  /\ UNCHANGED <<server, hash, snap, button, following>>

\* GET snapshot: as of now, or lost.
AnswerSnapshot(c) ==
  /\ c.op # "start" /\ c.reply = "none"
  /\ \/ Reply(c, [c EXCEPT !.reply = "ok", !.seq = published[c.run]])
     \/ Reply(c, [c EXCEPT !.reply = "error"])
  /\ UNCHANGED <<server, hash, snap, button, following>>

-----------------------------------------------------------------------------
(* The page. *)

Return(c, op) == c \in calls /\ c.op = op /\ c.reply # "none"

\* unsub() closes the source of the latest follow().
Unsubscribed(open) == {e \in open : [run |-> e.run, attempt |-> e.attempt] # unsub}

FailSilently == disabled' = FALSE /\ UNCHANGED alert

Fail == disabled' = FALSE /\ alert' = TRUE

\* follow(): subscribe after the last event shown.
Follow(r, attempt, s) ==
  /\ streams' = streams \cup {[run |-> r, attempt |-> attempt, cursor |-> s.seq]}
  /\ unsub' = [run |-> r, attempt |-> attempt]

Click ==
  /\ ~disabled
  /\ EarlyClick \/ calls = {}
  /\ started < MaxRuns
  /\ streams' = Unsubscribed(streams)
  /\ snap' = NoSnap
  /\ disabled' = TRUE /\ alert' = FALSE
  /\ calls' = calls \cup {Call("start", NoRun, 0)}
  /\ UNCHANGED <<server, hash, timers, unsub>>

StartReturns(c) ==
  /\ Return(c, "start")
  /\ \/ /\ c.reply = "ok"
        /\ hash' = c.run
        /\ Reply(c, Call("first", c.run, 0))
        /\ UNCHANGED button
     \/ /\ c.reply = "error"
        /\ Fail
        /\ calls' = calls \ {c}
        /\ UNCHANGED hash
  /\ UNCHANGED <<server, snap, following>>

FirstReturns(c) ==
  /\ Return(c, "first")
  /\ calls' = calls \ {c}
  /\ \/ /\ c.reply = "ok"
        /\ snap' = [run |-> c.run, seq |-> c.seq]
        /\ Follow(c.run, 0, snap')
        /\ UNCHANGED <<button, timers>>
     \/ /\ c.reply = "error"
        /\ Fail
        /\ UNCHANGED <<snap, following>>
  /\ UNCHANGED <<server, hash>>

\* A message of the stream: reduce() drops events of other runs and stale ones.
\* A handler that throws reports a closed stream that is still open
\* (adapters.js:29); no event the server publishes makes the handlers throw, and
\* the page has no such step.
Reduce(s, e) == IF s.run = e.run /\ e.cursor > s.seq THEN [s EXCEPT !.seq = e.cursor] ELSE s

Deliver(e, next) == (streams \ {e}) \cup {next}

ReceiveAndKeepSource(e) ==
  LET next == [e EXCEPT !.cursor = @ + 1] IN
  /\ e.cursor < published[e.run]
  /\ snap' = IF snap = NoSnap THEN snap ELSE Reduce(snap, next)
  /\ streams' = Deliver(e, next)
  /\ calls' = IF IsTerminal(snap') THEN calls \cup {Call("finish", snap.run, 0)} ELSE calls
  /\ UNCHANGED <<server, hash, button, timers, unsub>>

\* The terminal event closes the source and calls finish().
Receive(e) ==
  LET next == [e EXCEPT !.cursor = @ + 1] IN
  /\ e.cursor < published[e.run]
  /\ snap' = IF snap = NoSnap THEN snap ELSE Reduce(snap, next)
  /\ IF IsTerminal(snap')
     THEN /\ streams' = Unsubscribed(Deliver(e, next))
          /\ calls' = calls \cup {Call("finish", snap.run, 0)}
     ELSE /\ streams' = Deliver(e, next)
          /\ UNCHANGED calls
  /\ UNCHANGED <<server, hash, button, timers, unsub>>

DropAndForget(e) ==
  /\ streams' = streams \ {e}
  /\ UNCHANGED <<server, hash, snap, button, calls, timers, unsub>>

\* onerror: the server has sent everything and closed, or the connection broke.
Drop(e) ==
  /\ streams' = streams \ {e}
  /\ calls' = IF snap = NoSnap \/ IsTerminal(snap) THEN calls
              ELSE calls \cup {Call("recover", e.run, e.attempt)}
  /\ UNCHANGED <<server, hash, snap, button, timers, unsub>>

\* After a drop: show what the server has, and finish, give up or try again.
RecoverReturns(c) ==
  /\ Return(c, "recover")
  /\ snap' = IF c.reply = "ok" THEN [run |-> c.run, seq |-> c.seq] ELSE snap
  /\ \/ /\ c.reply = "ok" /\ c.seq = K
        /\ Reply(c, Call("finish", c.run, 0))
        /\ UNCHANGED <<button, timers>>
     \/ /\ ~(c.reply = "ok" /\ c.seq = K)
        /\ calls' = calls \ {c}
        /\ IF c.attempt >= MaxResubscribes
           THEN Fail /\ UNCHANGED timers
           ELSE /\ timers' = timers \cup {[run |-> c.run, attempt |-> c.attempt + 1]}
                /\ UNCHANGED button
  /\ UNCHANGED <<server, hash, streams, unsub>>

Resubscribe(t) ==
  /\ timers' = timers \ {t}
  /\ Follow(t.run, t.attempt, snap)
  /\ UNCHANGED <<server, hash, snap, button, calls>>

\* finish(): the last snapshot decides; a failed run shows its error.
FinishReturns(c) ==
  /\ Return(c, "finish")
  /\ calls' = calls \ {c}
  /\ \/ /\ c.reply = "ok"
        /\ snap' = [run |-> c.run, seq |-> c.seq]
        /\ disabled' = FALSE
        /\ UNCHANGED alert \/ alert' = TRUE
     \/ /\ c.reply = "error"
        /\ Fail
        /\ UNCHANGED snap
  /\ UNCHANGED <<server, hash, following>>

\* The page is loaded anew: a run named in the URL is restored.
Reload ==
  /\ snap' = NoSnap
  /\ disabled' = FALSE /\ alert' = FALSE
  /\ calls' = IF hash = NoRun THEN {} ELSE {Call("restore", hash, 0)}
  /\ timers' = {} /\ streams' = {} /\ unsub' = NoSource
  /\ UNCHANGED <<server, hash>>

RestoreReturns(c) ==
  /\ Return(c, "restore")
  /\ calls' = calls \ {c}
  /\ \/ /\ c.reply = "ok" /\ c.seq = K
        /\ snap' = [run |-> c.run, seq |-> c.seq]
        /\ UNCHANGED button \/ Fail
        /\ UNCHANGED following
     \/ /\ c.reply = "ok" /\ c.seq < K
        /\ snap' = [run |-> c.run, seq |-> c.seq]
        /\ disabled' = TRUE /\ UNCHANGED alert
        /\ Follow(c.run, 0, snap')
        /\ UNCHANGED timers
     \/ /\ c.reply = "error"
        /\ Fail
        /\ UNCHANGED <<snap, following>>
  /\ UNCHANGED <<server, hash>>

Continue(c) ==
  \/ AnswerStart(c) \/ AnswerSnapshot(c)
  \/ StartReturns(c) \/ FirstReturns(c) \/ RecoverReturns(c)
  \/ FinishReturns(c) \/ RestoreReturns(c)

Progress ==
  \/ \E c \in calls : Continue(c)
  \/ \E t \in timers : Resubscribe(t)
  \/ \E e \in streams : Receive(e) \/ (e.cursor = K /\ Drop(e))

Next ==
  \/ Publish \/ ReleaseSlot
  \/ Progress
  \/ \E e \in streams : Drop(e)
  \/ Click \/ Reload

Spec == Init /\ [][Next]_vars

\* The run ends, fetches are answered (well or badly), timers fire, and a
\* connection delivers what there is or breaks.  Nobody has to click or reload.
FairSpec == Spec /\ WF_vars(Publish) /\ WF_vars(ReleaseSlot) /\ WF_vars(Progress)

-----------------------------------------------------------------------------
(* Properties. *)

Chains == Cardinality(calls) + Cardinality(timers) + Cardinality(streams)
Ops == {"start", "first", "recover", "finish", "restore"}

TypeOK ==
  /\ started \in 0..MaxRuns /\ active \in 0..started
  /\ published \in [Runs -> 0..K]
  /\ hash \in 0..started
  /\ snap = NoSnap \/ (snap.run \in 1..started /\ snap.seq \in 0..K)
  /\ disabled \in BOOLEAN /\ alert \in BOOLEAN
  /\ \A c \in calls :
       /\ c.op \in Ops /\ c.run \in 0..started /\ c.attempt \in 0..MaxResubscribes
       /\ c.reply \in {"none", "ok", "error"} /\ c.seq \in 0..K
  /\ timers \subseteq [run : Runs, attempt : 1..MaxResubscribes]
  /\ streams \subseteq [run : Runs, attempt : 0..MaxResubscribes, cursor : 0..K]

\* The page does one thing at a time: one source, one retry or one fetch, so
\* that no two of them write the snapshot.
OneFollower == Chains <= 1

\* What is shown never goes back while the same run is shown, across drops,
\* recoveries and reconnects: no stale snapshot or replayed event wins.
ShownProgressIsMonotone ==
  [][snap'.run = snap.run => snap'.seq >= snap.seq]_snap

\* A button offered without an alert, and with nothing under way, comes with
\* the authoritative final state of the run the URL names.
QuietMeansFinal ==
  (~disabled /\ ~alert /\ calls = {} /\ snap # NoSnap) =>
    /\ snap.run = hash
    /\ IsTerminal(snap) /\ published[snap.run] = K

\* A run whose end is still ahead when the page shows it is followed to its
\* end, or the page says that it lost it.
FollowedToItsEnd ==
  (disabled /\ snap # NoSnap /\ ~IsTerminal(snap)) ~> ~disabled

\* "#run=<id> renders the snapshot" (app.js, refresh support): with nothing under
\* way and no alert, the page shows the run its URL names.
UrlNamesTheShownRun ==
  (calls = {} /\ timers = {} /\ ~alert /\ snap # NoSnap) => snap.run = hash

\* "Terminal state is always reconciled with the authoritative snapshot"
\* (app.js, finish): a page that shows a terminal state comes to rest.
TerminalIsReconciled ==
  (disabled /\ snap # NoSnap /\ IsTerminal(snap)) ~> ~disabled
=============================================================================
