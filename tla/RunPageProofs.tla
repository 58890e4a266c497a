--------------------------- MODULE RunPageProofs ---------------------------
(***************************************************************************)
(* Proofs about RunPage for runs of any length, any number of runs and any *)
(* retry budget.  Types hold in any case; the other theorems assume that   *)
(* nobody clicks while a restore is under way, which the page does not     *)
(* prevent (see UrlNamesTheShownRun).                                      *)
(***************************************************************************)
EXTENDS RunPage, FiniteSetTheorems, TLAPS

Fetches == [op : Ops, run : 0..started, attempt : 0..MaxResubscribes,
            reply : {"none", "ok", "error"}, seq : 0..K]

Typed ==
  /\ started \in 0..MaxRuns /\ active \in 0..started
  /\ published \in [Runs -> 0..K]
  /\ hash \in 0..started
  /\ snap = NoSnap \/ snap \in [run : 1..started, seq : 0..K]
  /\ disabled \in BOOLEAN /\ alert \in BOOLEAN
  /\ calls \subseteq Fetches
  /\ \A c \in calls : c.op # "start" \/ c.reply = "ok" => c.run # NoRun
  /\ timers \subseteq [run : 1..started, attempt : 1..MaxResubscribes]
  /\ streams \subseteq [run : 1..started, attempt : 0..MaxResubscribes, cursor : 0..K]

\* One fetch, or one timer, or one source.
Alone ==
  /\ \A c, d \in calls : c = d
  /\ \A t, u \in timers : t = u
  /\ \A e, f \in streams : e = f
  /\ calls = {} \/ (timers = {} /\ streams = {})
  /\ timers = {} \/ streams = {}

\* What is under way is about the run the URL names, and what it will show is
\* no older than what is shown.
Current ==
  /\ snap # NoSnap => snap.run = hash /\ snap.seq <= published[snap.run]
  /\ \A c \in calls :
       /\ c.op = "start" => snap = NoSnap
       /\ c.op # "start" => c.run = hash
       /\ c.op # "start" /\ c.reply = "ok" =>
            c.seq <= published[c.run] /\ (snap # NoSnap => snap.seq <= c.seq)
       /\ c.op = "finish" => published[c.run] = K /\ (c.reply = "ok" => c.seq = K)
  /\ \A t \in timers : t.run = hash
  /\ \A e \in streams : e.run = hash /\ unsub = [run |-> e.run, attempt |-> e.attempt]

\* The button stays disabled until the run is over or an alert says so.
Held ==
  /\ \A c \in calls : c.op \in {"start", "first", "recover"} => disabled
  /\ timers # {} \/ streams # {} => disabled
  /\ ~disabled /\ ~alert /\ snap # NoSnap => IsTerminal(snap)

Orderly == Typed /\ Alone /\ Current /\ Held

-----------------------------------------------------------------------------
(* Types. *)

\* A fetch leaves calls, or is replaced by another one.
LEMMA Answered ==
  ASSUME Typed, NEW c \in calls, NEW d \in Fetches, started' = started,
         d.op # "start" \/ d.reply = "ok" => d.run # NoRun,
         calls' = calls \ {c} \/ Reply(c, d)
  PROVE  /\ calls' \subseteq Fetches'
         /\ (\A b \in calls : b.op # "start" \/ b.reply = "ok" => b.run # NoRun)'
  BY DEF Typed, Fetches, Reply

LEMMA ServerTyped ==
  ASSUME Typed, Publish \/ ReleaseSlot
  PROVE  Typed'
<1>1. CASE Publish
  <2>1. active \in Runs /\ published[active] \in 0..K /\ published[active] < K
    <3>1. active \in Runs
      BY <1>1, PageAssumption DEF Publish, Typed, NoRun, Runs
    <3> QED
      BY <1>1, <3>1 DEF Publish, Typed
  <2>2. published[active] + 1 \in 0..K
    BY <2>1, PageAssumption
  <2>3. published' \in [Runs -> 0..K]
    BY <1>1, <2>1, <2>2 DEF Publish, Typed
  <2> QED
    BY <1>1, <2>3 DEF Publish, Typed, page, button, following, Fetches
<1>2. CASE ReleaseSlot
  BY <1>2 DEF ReleaseSlot, Typed, page, button, following, Fetches, NoRun
<1> QED
  BY <1>1, <1>2

LEMMA StartAnsweredTyped ==
  ASSUME Typed, NEW c \in calls, AnswerStart(c)
  PROVE  Typed'
<1>1. c \in Fetches /\ c.op = "start" /\ c.reply = "none"
  BY DEF AnswerStart, Typed
<1>2. UNCHANGED <<published, hash, snap, disabled, alert, timers, streams, unsub>>
  BY DEF AnswerStart, button, following
<1>3. CASE active = NoRun
  <2>1. /\ started < MaxRuns /\ started' = started + 1 /\ active' = started'
        /\ \/ Reply(c, [c EXCEPT !.reply = "ok", !.run = started'])
           \/ Reply(c, [c EXCEPT !.reply = "error"])
    BY <1>3 DEF AnswerStart
  <2>2. started' \in 0..MaxRuns /\ started' # NoRun /\ \A i \in 0..started : i \in 0..started'
    BY <2>1, PageAssumption DEF Typed, NoRun
  <2>3. \A d \in Fetches : d \in Fetches'
    BY <2>2 DEF Fetches
  <2>4. /\ [c EXCEPT !.reply = "ok", !.run = started'] \in Fetches'
        /\ [c EXCEPT !.reply = "error"] \in Fetches'
    <3>1. started' \in 0..started' /\ c.run \in 0..started'
      BY <1>1, <2>2 DEF Fetches
    <3>2. /\ c \in [op : Ops, run : 0..started', attempt : 0..MaxResubscribes,
                   reply : {"none", "ok", "error"}, seq : 0..K]
      BY <1>1, <2>3 DEF Fetches
    <3> QED
      BY <3>1, <3>2 DEF Fetches
  <2>5. /\ calls' \subseteq Fetches'
        /\ (\A b \in calls : b.op # "start" \/ b.reply = "ok" => b.run # NoRun)'
    BY <1>1, <2>1, <2>2, <2>3, <2>4 DEF Reply, Typed, Fetches
  <2>6. snap' = NoSnap \/ snap' \in [run : 1..started', seq : 0..K]
    BY <1>2, <2>1 DEF Typed
  <2>7. /\ timers' \subseteq [run : 1..started', attempt : 1..MaxResubscribes]
        /\ streams' \subseteq [run : 1..started', attempt : 0..MaxResubscribes, cursor : 0..K]
    BY <1>2, <2>1 DEF Typed
  <2>8. active' \in 0..started' /\ hash' \in 0..started'
    BY <1>2, <2>1, <2>2 DEF Typed
  <2> QED
    BY <1>2, <2>2, <2>5, <2>6, <2>7, <2>8 DEF Typed
<1>4. CASE active # NoRun
  <2>1. Reply(c, [c EXCEPT !.reply = "error"]) /\ UNCHANGED <<started, active>>
    BY <1>4 DEF AnswerStart
  <2>2. [c EXCEPT !.reply = "error"] \in Fetches
    BY <1>1 DEF Fetches
  <2>3. /\ [c EXCEPT !.reply = "error"].op = "start"
        /\ [c EXCEPT !.reply = "error"].reply = "error"
    BY <1>1 DEF Fetches
  <2>4. /\ calls' \subseteq Fetches'
        /\ (\A b \in calls : b.op # "start" \/ b.reply = "ok" => b.run # NoRun)'
    BY <2>1, <2>2, <2>3, Answered
  <2> QED
    BY <1>2, <2>1, <2>4 DEF Typed
<1> QED
  BY <1>3, <1>4

LEMMA SnapshotAnsweredTyped ==
  ASSUME Typed, NEW c \in calls, AnswerSnapshot(c)
  PROVE  Typed'
<1>1. c \in Fetches /\ c.op # "start" /\ c.run \in Runs
  <2>1. c \in Fetches /\ c.op # "start" /\ c.run # NoRun
    BY DEF AnswerSnapshot, Typed
  <2>2. c.run \in 0..started /\ started \in 0..MaxRuns
    BY <2>1 DEF Fetches, Typed
  <2> QED
    BY <2>1, <2>2, PageAssumption DEF NoRun, Runs
<1>2. UNCHANGED <<started, active, published, hash, snap, disabled, alert, timers, streams, unsub>>
  BY DEF AnswerSnapshot, button, following, server
<1> DEFINE ok == [c EXCEPT !.reply = "ok", !.seq = published[c.run]]
           lost == [c EXCEPT !.reply = "error"]
<1>3. published[c.run] \in 0..K
  BY <1>1 DEF Typed
<1>4. ok \in Fetches /\ lost \in Fetches /\ ok.run = c.run /\ lost.run = c.run
  BY <1>1, <1>3 DEF Fetches
<1>5. Reply(c, ok) \/ Reply(c, lost)
  BY DEF AnswerSnapshot
<1>6. c.run # NoRun
  BY <1>1 DEF Runs, NoRun
<1> HIDE DEF ok, lost
<1>7. /\ calls' \subseteq Fetches'
      /\ (\A b \in calls : b.op # "start" \/ b.reply = "ok" => b.run # NoRun)'
  BY <1>2, <1>4, <1>5, <1>6, Answered
<1> QED
  BY <1>2, <1>7 DEF Typed

\* A fetch just sent.
LEMMA Sent ==
  ASSUME Typed, NEW op \in Ops, NEW r \in 0..started, NEW n \in 0..MaxResubscribes,
         op = "start" \/ r # NoRun
  PROVE  /\ Call(op, r, n) \in Fetches
         /\ Call(op, r, n).op # "start" \/ Call(op, r, n).reply = "ok" =>
              Call(op, r, n).run # NoRun
         /\ Call(op, r, n).op = op /\ Call(op, r, n).run = r
         /\ Call(op, r, n).attempt = n /\ Call(op, r, n).reply = "none"
  BY PageAssumption DEF Call, Fetches

\* What the continuation of an answered fetch knows.
LEMMA Returned ==
  ASSUME Typed, NEW c \in calls, NEW op \in Ops, Return(c, op)
  PROVE  /\ c \in Fetches /\ c.op = op /\ c.reply \in {"ok", "error"}
         /\ c.reply = "ok" \/ op # "start" => c.run \in 1..started
         /\ c.seq \in 0..K /\ c.attempt \in 0..MaxResubscribes
<1>1. /\ c \in Fetches /\ c.op = op /\ c.reply # "none"
      /\ c.op # "start" \/ c.reply = "ok" => c.run # NoRun
  BY DEF Return, Typed
<1>2. c.run \in 0..started /\ started \in Nat
  BY <1>1 DEF Fetches, Typed
<1>3. c.run # NoRun => c.run \in 1..started
  BY <1>2 DEF NoRun
<1> QED
  BY <1>1, <1>3 DEF Fetches

LEMMA StartReturnsTyped ==
  ASSUME Typed, NEW c \in calls, StartReturns(c)
  PROVE  Typed'
<1>1. UNCHANGED <<started, active, published, snap, timers, streams, unsub>>
  BY DEF StartReturns, server, following
<1>2. CASE c.reply = "ok"
  <2>1. /\ Reply(c, Call("first", c.run, 0)) /\ hash' = c.run /\ UNCHANGED button
        /\ c.run \in 1..started
    BY <1>2, Returned DEF StartReturns, Ops
  <2>2. c.run \in 0..started /\ c.run # NoRun /\ 0 \in 0..MaxResubscribes
    BY <2>1, PageAssumption DEF NoRun
  <2> DEFINE d == Call("first", c.run, 0)
  <2>3. /\ d \in Fetches /\ (d.op # "start" \/ d.reply = "ok" => d.run # NoRun)
    BY <2>2, Sent DEF Ops
  <2> HIDE DEF d
  <2>4. /\ calls' \subseteq Fetches'
        /\ (\A b \in calls : b.op # "start" \/ b.reply = "ok" => b.run # NoRun)'
    BY <1>1, <2>1, <2>3, Answered DEF d
  <2> QED
    BY <1>1, <2>1, <2>2, <2>4 DEF Typed, button
<1>3. CASE c.reply = "error"
  <2>1. Fail /\ calls' = calls \ {c} /\ UNCHANGED hash
    BY <1>3 DEF StartReturns
  <2> QED
    BY <1>1, <2>1 DEF Typed, Fail, Fetches
<1> QED
  BY <1>2, <1>3 DEF StartReturns

LEMMA FollowTyped ==
  ASSUME Typed, NEW r \in 1..started, NEW n \in 0..MaxResubscribes, NEW s, s.seq \in 0..K,
         Follow(r, n, s)
  PROVE  streams' \subseteq [run : 1..started, attempt : 0..MaxResubscribes, cursor : 0..K]
  BY DEF Follow, Typed

LEMMA FirstReturnsTyped ==
  ASSUME Typed, NEW c \in calls, FirstReturns(c)
  PROVE  Typed'
<1>1. /\ UNCHANGED <<started, active, published, hash>> /\ calls' = calls \ {c}
      /\ c.run \in 1..started /\ c.seq \in 0..K
  BY Returned DEF FirstReturns, server, Ops
<1>2. CASE c.reply = "ok"
  <2>1. /\ snap' = [run |-> c.run, seq |-> c.seq] /\ Follow(c.run, 0, snap')
        /\ UNCHANGED <<button, timers>>
    BY <1>2 DEF FirstReturns
  <2>2. streams' \subseteq [run : 1..started, attempt : 0..MaxResubscribes, cursor : 0..K]
    BY <1>1, <2>1, PageAssumption, FollowTyped
  <2> QED
    BY <1>1, <2>1, <2>2 DEF Typed, Fetches, button
<1>3. CASE c.reply = "error"
  <2>1. Fail /\ UNCHANGED <<snap, following>>
    BY <1>3 DEF FirstReturns
  <2> QED
    BY <1>1, <2>1 DEF Typed, Fail, Fetches, following
<1> QED
  BY <1>2, <1>3 DEF FirstReturns

LEMMA RecoverReturnsTyped ==
  ASSUME Typed, NEW c \in calls, RecoverReturns(c)
  PROVE  Typed'
<1>1. /\ UNCHANGED <<started, active, published, hash, streams, unsub>>
      /\ c.run \in 1..started /\ c.seq \in 0..K /\ c.attempt \in 0..MaxResubscribes
      /\ snap' = IF c.reply = "ok" THEN [run |-> c.run, seq |-> c.seq] ELSE snap
  BY Returned DEF RecoverReturns, server, Ops
<1>2. snap' = NoSnap \/ snap' \in [run : 1..started, seq : 0..K]
  BY <1>1 DEF Typed
<1>3. CASE Reply(c, Call("finish", c.run, 0)) /\ UNCHANGED <<button, timers>>
  <2> DEFINE d == Call("finish", c.run, 0)
  <2>1. c.run \in 0..started /\ c.run # NoRun /\ 0 \in 0..MaxResubscribes
    BY <1>1, PageAssumption DEF NoRun
  <2>2. /\ d \in Fetches /\ (d.op # "start" \/ d.reply = "ok" => d.run # NoRun)
    BY <2>1, Sent DEF Ops
  <2> HIDE DEF d
  <2>3. /\ calls' \subseteq Fetches'
        /\ (\A b \in calls : b.op # "start" \/ b.reply = "ok" => b.run # NoRun)'
    BY <1>1, <1>3, <2>2, Answered DEF d
  <2> QED
    BY <1>1, <1>2, <1>3, <2>3 DEF Typed, button
<1>4. CASE /\ calls' = calls \ {c}
           /\ IF c.attempt >= MaxResubscribes
              THEN Fail /\ UNCHANGED timers
              ELSE /\ timers' = timers \cup {[run |-> c.run, attempt |-> c.attempt + 1]}
                   /\ UNCHANGED button
  <2>1. timers' \subseteq [run : 1..started, attempt : 1..MaxResubscribes]
    <3>1. c.attempt < MaxResubscribes => c.attempt + 1 \in 1..MaxResubscribes
      BY <1>1, PageAssumption
    <3>2. c.attempt >= MaxResubscribes \/ c.attempt < MaxResubscribes
      BY <1>1, PageAssumption
    <3> QED
      BY <1>1, <1>4, <3>1, <3>2 DEF Typed
  <2>2. disabled' \in BOOLEAN /\ alert' \in BOOLEAN
    BY <1>4 DEF Typed, Fail, button
  <2> QED
    BY <1>1, <1>2, <1>4, <2>1, <2>2 DEF Typed, Fetches
<1> QED
  BY <1>3, <1>4 DEF RecoverReturns

LEMMA FinishReturnsTyped ==
  ASSUME Typed, NEW c \in calls, FinishReturns(c)
  PROVE  Typed'
<1>1. /\ UNCHANGED <<started, active, published, hash, timers, streams, unsub>>
      /\ calls' = calls \ {c}
      /\ c.run \in 1..started /\ c.seq \in 0..K
  BY Returned DEF FinishReturns, server, following, Ops
<1>2. CASE c.reply = "ok"
  <2>1. /\ snap' = [run |-> c.run, seq |-> c.seq] /\ disabled' = FALSE
        /\ UNCHANGED alert \/ alert' = TRUE
    BY <1>2 DEF FinishReturns
  <2> QED
    BY <1>1, <2>1 DEF Typed, Fetches
<1>3. CASE c.reply = "error"
  <2>1. Fail /\ UNCHANGED snap
    BY <1>3 DEF FinishReturns
  <2> QED
    BY <1>1, <2>1 DEF Typed, Fail, Fetches
<1> QED
  BY <1>2, <1>3 DEF FinishReturns

LEMMA RestoreReturnsTyped ==
  ASSUME Typed, NEW c \in calls, RestoreReturns(c)
  PROVE  Typed'
<1>1. /\ UNCHANGED <<started, active, published, hash>> /\ calls' = calls \ {c}
      /\ c.run \in 1..started /\ c.seq \in 0..K
  BY Returned DEF RestoreReturns, server, Ops
<1>2. CASE /\ snap' = [run |-> c.run, seq |-> c.seq]
           /\ UNCHANGED button \/ Fail
           /\ UNCHANGED following
  <2>1. disabled' \in BOOLEAN /\ alert' \in BOOLEAN
    BY <1>2 DEF Typed, Fail, button
  <2> QED
    BY <1>1, <1>2, <2>1 DEF Typed, Fetches, following
<1>3. CASE /\ snap' = [run |-> c.run, seq |-> c.seq]
           /\ disabled' = TRUE /\ UNCHANGED alert
           /\ Follow(c.run, 0, snap')
           /\ UNCHANGED timers
  <2>1. streams' \subseteq [run : 1..started, attempt : 0..MaxResubscribes, cursor : 0..K]
    BY <1>1, <1>3, PageAssumption, FollowTyped
  <2> QED
    BY <1>1, <1>3, <2>1 DEF Typed, Fetches
<1>4. CASE Fail /\ UNCHANGED <<snap, following>>
  BY <1>1, <1>4 DEF Typed, Fail, Fetches, following
<1> QED
  BY <1>2, <1>3, <1>4 DEF RestoreReturns

LEMMA ClickTyped ==
  ASSUME Typed, Click
  PROVE  Typed'
<1> DEFINE d == Call("start", NoRun, 0)
<1>1. d \in Fetches /\ ~(d.op # "start" \/ d.reply = "ok")
  BY PageAssumption, Sent DEF Ops, NoRun, Typed, Call
<1>2. /\ UNCHANGED <<started, active, published, hash, timers, unsub>>
      /\ streams' = Unsubscribed(streams) /\ snap' = NoSnap
      /\ disabled' = TRUE /\ alert' = FALSE /\ calls' = calls \cup {d}
  BY DEF Click, server
<1> HIDE DEF d
<1>3. streams' \subseteq streams
  BY <1>2 DEF Unsubscribed
<1>4. /\ calls' \subseteq Fetches'
      /\ (\A b \in calls : b.op # "start" \/ b.reply = "ok" => b.run # NoRun)'
  BY <1>1, <1>2 DEF Typed, Fetches
<1> QED
  BY <1>2, <1>3, <1>4 DEF Typed

\* The next event of a stream, and what it does to the snapshot.
LEMMA NextEvent ==
  ASSUME Typed, NEW e \in streams, e.cursor < published[e.run]
  PROVE  LET next == [e EXCEPT !.cursor = @ + 1] IN
         /\ next \in [run : 1..started, attempt : 0..MaxResubscribes, cursor : 0..K]
         /\ next.run = e.run /\ next.attempt = e.attempt /\ next.cursor = e.cursor + 1
         /\ next.cursor <= published[e.run]
<1>1. e \in [run : 1..started, attempt : 0..MaxResubscribes, cursor : 0..K]
  BY DEF Typed
<1>2. e.run \in Runs
  BY <1>1, PageAssumption DEF Typed, Runs
<1>3. published[e.run] \in 0..K
  BY <1>2 DEF Typed
<1>4. e.cursor + 1 \in 0..K /\ e.cursor + 1 <= published[e.run]
  BY <1>1, <1>3, PageAssumption
<1> QED
  BY <1>1, <1>4

LEMMA ReceiveTyped ==
  ASSUME Typed, NEW e \in streams, Receive(e)
  PROVE  Typed'
<1> DEFINE next == [e EXCEPT !.cursor = @ + 1]
           Source == [run : 1..started, attempt : 0..MaxResubscribes, cursor : 0..K]
<1>1. /\ UNCHANGED <<started, active, published, hash, disabled, alert, timers, unsub>>
      /\ snap' = IF snap = NoSnap THEN snap ELSE Reduce(snap, next)
      /\ \/ /\ IsTerminal(snap') /\ streams' = Unsubscribed(Deliver(e, next))
            /\ calls' = calls \cup {Call("finish", snap.run, 0)}
         \/ streams' = Deliver(e, next) /\ UNCHANGED calls
  BY DEF Receive, server, button
<1>2. next \in Source
  BY NextEvent DEF Receive
<1> HIDE DEF next
<1>3. snap' = NoSnap \/ snap' \in [run : 1..started, seq : 0..K]
  BY <1>1, <1>2 DEF Typed, Reduce
<1>4. streams' \subseteq Source
  BY <1>1, <1>2 DEF Typed, Deliver, Unsubscribed
<1>5. /\ calls' \subseteq Fetches'
      /\ (\A b \in calls : b.op # "start" \/ b.reply = "ok" => b.run # NoRun)'
  <2>1. CASE UNCHANGED calls
    BY <1>1, <2>1 DEF Typed, Fetches
  <2>2. CASE IsTerminal(snap') /\ calls' = calls \cup {Call("finish", snap.run, 0)}
    <3>1. snap # NoSnap
      BY <1>1, <2>2, PageAssumption DEF IsTerminal, NoSnap
    <3>2. snap.run \in 0..started /\ snap.run # NoRun
      BY <3>1 DEF Typed, NoRun
    <3> DEFINE d == Call("finish", snap.run, 0)
    <3>3. d \in Fetches /\ d.run # NoRun
      BY <3>2, PageAssumption, Sent DEF Ops
    <3> HIDE DEF d
    <3>4. calls' = calls \cup {d}
      BY <2>2 DEF d
    <3> QED
      BY <1>1, <3>3, <3>4 DEF Typed, Fetches
  <2> QED
    BY <1>1, <2>1, <2>2
<1> QED
  BY <1>1, <1>3, <1>4, <1>5 DEF Typed

LEMMA DropTyped ==
  ASSUME Typed, NEW e \in streams, Drop(e)
  PROVE  Typed'
<1>1. /\ UNCHANGED <<started, active, published, hash, snap, disabled, alert, timers, unsub>>
      /\ streams' = streams \ {e}
      /\ calls' = calls \/ calls' = calls \cup {Call("recover", e.run, e.attempt)}
  BY DEF Drop, server, button
<1>2. /\ e.run \in 0..started /\ e.run # NoRun /\ e.attempt \in 0..MaxResubscribes
  BY DEF Typed, NoRun
<1> DEFINE d == Call("recover", e.run, e.attempt)
<1>3. d \in Fetches /\ d.run # NoRun
  BY <1>2, Sent DEF Ops
<1> HIDE DEF d
<1>4. /\ calls' \subseteq Fetches'
      /\ (\A b \in calls : b.op # "start" \/ b.reply = "ok" => b.run # NoRun)'
  BY <1>1, <1>3 DEF Typed, Fetches, d
<1> QED
  BY <1>1, <1>4 DEF Typed

LEMMA ResubscribeTyped ==
  ASSUME Typed, NEW t \in timers, Resubscribe(t)
  PROVE  Typed'
<1>1. /\ UNCHANGED <<started, active, published, hash, snap, disabled, alert, calls>>
      /\ timers' = timers \ {t} /\ Follow(t.run, t.attempt, snap)
  BY DEF Resubscribe, server, button
<1>2. t.run \in 1..started /\ t.attempt \in 0..MaxResubscribes /\ snap.seq \in 0..K
  BY PageAssumption DEF Typed, NoSnap
<1>3. streams' \subseteq [run : 1..started, attempt : 0..MaxResubscribes, cursor : 0..K]
  BY <1>1, <1>2, FollowTyped
<1> QED
  BY <1>1, <1>3 DEF Typed, Fetches

LEMMA ReloadTyped ==
  ASSUME Typed, Reload
  PROVE  Typed'
<1>1. /\ UNCHANGED <<started, active, published, hash>>
      /\ snap' = NoSnap /\ disabled' = FALSE /\ alert' = FALSE
      /\ timers' = {} /\ streams' = {}
      /\ calls' = {} \/ (hash # NoRun /\ calls' = {Call("restore", hash, 0)})
  BY DEF Reload, server
<1> DEFINE d == Call("restore", hash, 0)
<1>2. hash # NoRun => d \in Fetches /\ d.run # NoRun
  BY PageAssumption, Sent DEF Ops, Typed
<1> HIDE DEF d
<1>3. /\ calls' \subseteq Fetches'
      /\ (\A b \in calls : b.op # "start" \/ b.reply = "ok" => b.run # NoRun)'
  BY <1>1, <1>2 DEF Typed, Fetches, d
<1> QED
  BY <1>1, <1>3 DEF Typed

LEMMA InitTyped == Init => Typed
<1> SUFFICES ASSUME Init PROVE Typed
  OBVIOUS
<1>1. started \in 0..MaxRuns /\ active \in 0..started /\ hash \in 0..started
  BY PageAssumption DEF Init, NoRun
<1>2. published \in [Runs -> 0..K]
  BY PageAssumption DEF Init
<1> QED
  BY <1>1, <1>2 DEF Init, Typed

LEMMA StepTyped == Typed /\ [Next]_vars => Typed'
<1> SUFFICES ASSUME Typed, [Next]_vars PROVE Typed'
  OBVIOUS
<1>1. CASE UNCHANGED vars
  BY <1>1 DEF vars, server, page, button, following, Typed, Fetches
<1>2. CASE Progress
  BY <1>2, StartAnsweredTyped, SnapshotAnsweredTyped, StartReturnsTyped, FirstReturnsTyped,
     RecoverReturnsTyped, FinishReturnsTyped, RestoreReturnsTyped, ResubscribeTyped,
     ReceiveTyped, DropTyped DEF Progress, Continue
<1> QED
  BY <1>1, <1>2, ServerTyped, DropTyped, ClickTyped, ReloadTyped DEF Next

-----------------------------------------------------------------------------
(* One thing at a time. *)

Ordered == Alone /\ Current /\ Held

\* The same run is never shown at an earlier event.
Forward == snap'.run = snap.run => snap'.seq >= snap.seq

LEMMA KeptOrCleared ==
  ASSUME Typed, snap' = snap \/ snap' = NoSnap
  PROVE  Forward
<1>1. CASE snap = NoSnap
  BY <1>1 DEF NoSnap, NoRun, Forward
<1>2. CASE snap \in [run : 1..started, seq : 0..K]
  <2>1. snap.run # NoSnap.run /\ snap.seq \in Nat
    BY <1>2, PageAssumption DEF NoSnap, NoRun, Typed
  <2> QED
    BY <2>1 DEF Forward
<1> QED
  BY <1>1, <1>2 DEF Typed

LEMMA OnlyFetch ==
  ASSUME Alone, NEW c \in calls
  PROVE  calls = {c} /\ calls \ {c} = {} /\ timers = {} /\ streams = {}
  BY DEF Alone

LEMMA OnlySource ==
  ASSUME Alone, NEW e \in streams
  PROVE  streams = {e} /\ streams \ {e} = {} /\ calls = {} /\ timers = {}
  BY DEF Alone

LEMMA OnlyTimer ==
  ASSUME Alone, NEW t \in timers
  PROVE  timers = {t} /\ timers \ {t} = {} /\ calls = {} /\ streams = {}
  BY DEF Alone

LEMMA ServerOrdered ==
  ASSUME Orderly, Publish \/ ReleaseSlot
  PROVE  Ordered' /\ Forward
<1>1. UNCHANGED <<hash, snap, disabled, alert, calls, timers, streams, unsub>>
  BY DEF Publish, ReleaseSlot, page, button, following
<1>2. Alone' /\ Held'
  BY <1>1 DEF Orderly, Alone, Held
<1>3. \A r \in Runs : published[r] \in 0..K /\ published'[r] \in 0..K
                        /\ published[r] <= published'[r]
  <2>1. Typed /\ Typed'
    BY ServerTyped DEF Orderly
  <2>2. CASE Publish
    <3>1. active \in Runs
      BY <2>1, <2>2, PageAssumption DEF Publish, Typed, NoRun, Runs
    <3> QED
      BY <2>1, <2>2, <3>1, PageAssumption DEF Publish, Typed
  <2>3. CASE ReleaseSlot
    BY <2>1, <2>3, PageAssumption DEF ReleaseSlot, Typed
  <2> QED
    BY <2>2, <2>3
<1>4. snap # NoSnap => snap.run \in Runs /\ snap.seq \in 0..K
  BY PageAssumption DEF Orderly, Typed, Runs
<1>5. \A c \in calls : c.op # "start" => c.run \in Runs /\ c.seq \in 0..K
  <2> SUFFICES ASSUME NEW c \in calls, c.op # "start" PROVE c.run \in Runs /\ c.seq \in 0..K
    OBVIOUS
  <2>1. c \in Fetches /\ c.run # NoRun /\ started \in 0..MaxRuns
    BY DEF Orderly, Typed
  <2>2. c.run \in 0..started /\ c.seq \in 0..K
    BY <2>1 DEF Fetches
  <2> QED
    BY <2>1, <2>2, PageAssumption DEF Runs, NoRun
<1>6. Current'
  <2>1. (snap # NoSnap => snap.run = hash /\ snap.seq <= published[snap.run])'
    BY <1>1, <1>3, <1>4, PageAssumption DEF Orderly, Current
  <2>2. ASSUME NEW c \in calls
        PROVE  /\ c.op # "start" /\ c.reply = "ok" => c.seq <= published'[c.run]
               /\ c.op = "finish" => published'[c.run] = K
    BY <1>3, <1>5, PageAssumption DEF Orderly, Current
  <2> QED
    BY <1>1, <2>1, <2>2 DEF Orderly, Current
<1>7. Forward
  BY <1>1, <1>4, PageAssumption DEF Forward, NoSnap
<1> QED
  BY <1>2, <1>6, <1>7 DEF Ordered

LEMMA StartAnsweredOrdered ==
  ASSUME Orderly, NEW c \in calls, AnswerStart(c)
  PROVE  Ordered' /\ Forward
<1>1. /\ UNCHANGED <<published, hash, snap, disabled, alert, timers, streams, unsub>>
      /\ c \in Fetches /\ c.op = "start"
  BY DEF AnswerStart, button, following, Orderly, Typed
<1>2. PICK d : Reply(c, d) /\ d.op = "start"
  <2>1. /\ [c EXCEPT !.reply = "ok", !.run = started'].op = "start"
        /\ [c EXCEPT !.reply = "error"].op = "start"
    BY <1>1 DEF Fetches
  <2> QED
    BY <2>1 DEF AnswerStart
<1>3. calls = {c} /\ calls' = {d} /\ timers = {} /\ streams = {}
  BY <1>2, OnlyFetch DEF Orderly, Reply
<1>4. snap = NoSnap /\ disabled
  BY <1>1 DEF Orderly, Current, Held
<1>5. Alone'
  BY <1>1, <1>3 DEF Alone
<1>6. Current'
  BY <1>1, <1>2, <1>3, <1>4 DEF Current
<1>7. Held'
  BY <1>1, <1>3, <1>4 DEF Held
<1>8. Forward
  BY <1>1, <1>4, PageAssumption DEF Forward, NoSnap
<1> QED
  BY <1>5, <1>6, <1>7, <1>8 DEF Ordered

LEMMA SnapshotAnsweredOrdered ==
  ASSUME Orderly, NEW c \in calls, AnswerSnapshot(c)
  PROVE  Ordered' /\ Forward
<1>1. /\ UNCHANGED <<published, hash, snap, disabled, alert, timers, streams, unsub>>
      /\ c \in Fetches /\ c.op # "start" /\ c.run = hash
  BY DEF AnswerSnapshot, server, button, following, Orderly, Typed, Current
<1>2. PICK d : /\ Reply(c, d) /\ d.op = c.op /\ d.run = c.run
               /\ d.reply = "ok" => d.seq = published[c.run]
  <2>1. /\ [c EXCEPT !.reply = "ok", !.seq = published[c.run]].op = c.op
        /\ [c EXCEPT !.reply = "ok", !.seq = published[c.run]].run = c.run
        /\ [c EXCEPT !.reply = "ok", !.seq = published[c.run]].seq = published[c.run]
        /\ [c EXCEPT !.reply = "error"].op = c.op
        /\ [c EXCEPT !.reply = "error"].run = c.run
        /\ [c EXCEPT !.reply = "error"].reply = "error"
    BY <1>1 DEF Fetches
  <2> QED
    BY <2>1 DEF AnswerSnapshot
<1>3. calls = {c} /\ calls' = {d} /\ timers = {} /\ streams = {}
  BY <1>2, OnlyFetch DEF Orderly, Reply
<1>4. c.run \in Runs /\ published[c.run] \in 0..K
  <2>1. c.run \in 0..started /\ c.run # NoRun /\ started \in 0..MaxRuns
    BY <1>1 DEF Fetches, Orderly, Typed
  <2>2. c.run \in Runs
    BY <2>1, PageAssumption DEF Runs, NoRun
  <2> QED
    BY <2>2 DEF Orderly, Typed
<1>5. Alone'
  BY <1>1, <1>3 DEF Alone
<1>6. Current'
  BY <1>1, <1>2, <1>3, <1>4, PageAssumption DEF Orderly, Current
<1>7. Held'
  BY <1>1, <1>2, <1>3 DEF Orderly, Held
<1>8. Forward
  BY <1>1, KeptOrCleared DEF Orderly
<1> QED
  BY <1>5, <1>6, <1>7, <1>8 DEF Ordered

LEMMA StartReturnsOrdered ==
  ASSUME Orderly, NEW c \in calls, StartReturns(c)
  PROVE  Ordered' /\ Forward
<1>1. /\ UNCHANGED <<published, snap, timers, streams, unsub>>
      /\ c.op = "start" /\ c.reply \in {"ok", "error"}
      /\ c.reply = "ok" => c.run \in 1..started
  BY Returned DEF StartReturns, server, following, Orderly, Ops
<1>2. calls = {c} /\ calls \ {c} = {} /\ timers = {} /\ streams = {} /\ snap = NoSnap /\ disabled
  BY <1>1, OnlyFetch DEF Orderly, Current, Held
<1>3. Forward
  BY <1>1, <1>2, PageAssumption DEF Forward, NoSnap
<1>4. CASE c.reply = "ok"
  <2> DEFINE d == Call("first", c.run, 0)
  <2>1. hash' = c.run /\ calls' = {d} /\ UNCHANGED button
    BY <1>2, <1>4 DEF StartReturns, Reply
  <2>2. d.op = "first" /\ d.reply = "none" /\ d.run = c.run
    BY DEF Call
  <2> HIDE DEF d
  <2>3. Alone'
    BY <1>1, <1>2, <2>1 DEF Alone
  <2>4. Current'
    BY <1>1, <1>2, <2>1, <2>2 DEF Current
  <2>5. Held'
    BY <1>1, <1>2, <2>1, <2>2 DEF Held, button
  <2> QED
    BY <1>3, <2>3, <2>4, <2>5 DEF Ordered
<1>5. CASE c.reply = "error"
  <2>1. Fail /\ calls' = {} /\ UNCHANGED hash
    BY <1>2, <1>5 DEF StartReturns
  <2> QED
    BY <1>1, <1>2, <1>3, <2>1 DEF Ordered, Alone, Current, Held, Fail
<1> QED
  BY <1>1, <1>4, <1>5

\* An answered snapshot, once shown, is not older than what was shown.
LEMMA ShowsForward ==
  ASSUME Orderly, NEW c \in calls, c.op # "start", c.reply = "ok",
         snap' = [run |-> c.run, seq |-> c.seq]
  PROVE  Forward /\ snap' # NoSnap /\ c.run = hash /\ c.seq <= published[c.run]
<1>1. c \in Fetches /\ c.run # NoRun /\ c.run = hash
  BY DEF Orderly, Typed, Current
<1>2. /\ c.seq <= published[c.run] /\ (snap # NoSnap => snap.seq <= c.seq)
  BY DEF Orderly, Current
<1>3. snap = NoSnap => snap.run # c.run
  BY <1>1 DEF NoSnap
<1>4. c.seq \in Nat /\ snap.seq \in Nat
  BY <1>1, PageAssumption DEF Fetches, Orderly, Typed, NoSnap
<1> QED
  BY <1>1, <1>2, <1>3, <1>4 DEF Forward, NoSnap

LEMMA FirstReturnsOrdered ==
  ASSUME Orderly, NEW c \in calls, FirstReturns(c)
  PROVE  Ordered' /\ Forward
<1>1. /\ UNCHANGED <<published, hash>> /\ calls' = {} /\ c.op = "first" /\ c.run = hash
      /\ timers = {} /\ streams = {} /\ disabled
  <2>1. c.op = "first" /\ UNCHANGED <<published, hash>> /\ calls' = calls \ {c}
    BY DEF FirstReturns, server, Return
  <2> QED
    BY <2>1, OnlyFetch DEF Orderly, Current, Held
<1>2. CASE c.reply = "ok"
  <2>1. /\ snap' = [run |-> c.run, seq |-> c.seq] /\ Follow(c.run, 0, snap')
        /\ UNCHANGED <<button, timers>>
    BY <1>2 DEF FirstReturns
  <2>2. Forward /\ snap' # NoSnap /\ c.seq <= published[c.run]
    BY <1>1, <1>2, <2>1, ShowsForward
  <2>3. /\ streams' = {[run |-> c.run, attempt |-> 0, cursor |-> snap'.seq]}
        /\ unsub' = [run |-> c.run, attempt |-> 0]
    BY <1>1, <2>1 DEF Follow
  <2>4. Alone'
    BY <1>1, <2>1, <2>3 DEF Alone
  <2>5. Current'
    BY <1>1, <2>1, <2>2, <2>3 DEF Current
  <2>6. Held'
    BY <1>1, <2>1 DEF Held, button
  <2> QED
    BY <2>2, <2>4, <2>5, <2>6 DEF Ordered
<1>3. CASE c.reply = "error"
  <2>1. Fail /\ UNCHANGED <<snap, following>>
    BY <1>3 DEF FirstReturns
  <2>2. Forward
    BY <2>1, KeptOrCleared DEF Orderly
  <2> QED
    BY <1>1, <2>1, <2>2 DEF Orderly, Ordered, Alone, Current, Held, Fail, following
<1> QED
  BY <1>2, <1>3 DEF FirstReturns

LEMMA RecoverReturnsOrdered ==
  ASSUME Orderly, NEW c \in calls, RecoverReturns(c)
  PROVE  Ordered' /\ Forward
<1>1. /\ UNCHANGED <<published, hash, streams, unsub>>
      /\ c.op = "recover" /\ c.reply \in {"ok", "error"}
      /\ snap' = IF c.reply = "ok" THEN [run |-> c.run, seq |-> c.seq] ELSE snap
  BY Returned DEF RecoverReturns, server, Orderly, Ops
<1>2. /\ calls = {c} /\ calls \ {c} = {} /\ timers = {} /\ streams = {}
      /\ disabled /\ c.run = hash
  BY <1>1, OnlyFetch DEF Orderly, Current, Held
<1>3. /\ Forward
      /\ c.reply = "ok" => snap' # NoSnap /\ c.seq <= published[c.run]
  <2>1. c.reply = "error" => Forward
    BY <1>1, KeptOrCleared DEF Orderly
  <2> QED
    BY <1>1, <2>1, ShowsForward
<1>4. (snap # NoSnap => snap.run = hash /\ snap.seq <= published[snap.run])'
  BY <1>1, <1>2, <1>3 DEF Orderly, Current
<1>5. CASE /\ c.reply = "ok" /\ c.seq = K
           /\ Reply(c, Call("finish", c.run, 0))
           /\ UNCHANGED <<button, timers>>
  <2> DEFINE d == Call("finish", c.run, 0)
  <2>1. calls' = {d} /\ UNCHANGED <<disabled, alert, timers>>
    BY <1>2, <1>5 DEF Reply, button
  <2>2. d.op = "finish" /\ d.reply = "none" /\ d.run = c.run
    BY DEF Call
  <2>3. published[c.run] = K
    <3>1. published[c.run] \in 0..K
      <4>1. c.run \in 1..started /\ started \in 0..MaxRuns
        BY <1>1, <1>5, Returned DEF RecoverReturns, Orderly, Typed, Ops
      <4>2. c.run \in Runs
        BY <4>1, PageAssumption DEF Runs
      <4> QED
        BY <4>2 DEF Orderly, Typed
    <3> QED
      BY <1>3, <1>5, <3>1, PageAssumption
  <2> HIDE DEF d
  <2>4. Alone'
    BY <1>1, <1>2, <2>1 DEF Alone
  <2>5. Current'
    BY <1>1, <1>2, <1>4, <2>1, <2>2, <2>3 DEF Current
  <2>6. Held'
    BY <1>1, <1>2, <2>1 DEF Held
  <2> QED
    BY <1>3, <2>4, <2>5, <2>6 DEF Ordered
<1>6. CASE /\ calls' = calls \ {c}
           /\ IF c.attempt >= MaxResubscribes
              THEN Fail /\ UNCHANGED timers
              ELSE /\ timers' = timers \cup {[run |-> c.run, attempt |-> c.attempt + 1]}
                   /\ UNCHANGED button
  <2>1. /\ calls' = {}
        /\ \/ timers' = {} /\ disabled' = FALSE /\ alert' = TRUE
           \/ /\ timers' = {[run |-> c.run, attempt |-> c.attempt + 1]}
              /\ UNCHANGED <<disabled, alert>>
    BY <1>2, <1>6 DEF Fail, button
  <2>2. Alone'
    BY <1>1, <1>2, <2>1 DEF Alone
  <2>3. Current'
    <3>1. ASSUME NEW t \in timers' PROVE t.run = hash'
      <4>1. t = [run |-> c.run, attempt |-> c.attempt + 1]
        BY <2>1
      <4> QED
        BY <1>1, <1>2, <4>1
    <3> QED
      BY <1>1, <1>2, <1>4, <2>1, <3>1 DEF Current
  <2>4. Held'
    BY <1>1, <1>2, <2>1 DEF Held
  <2> QED
    BY <1>3, <2>2, <2>3, <2>4 DEF Ordered
<1> QED
  BY <1>5, <1>6 DEF RecoverReturns

LEMMA FinishReturnsOrdered ==
  ASSUME Orderly, NEW c \in calls, FinishReturns(c)
  PROVE  Ordered' /\ Forward
<1>1. /\ UNCHANGED <<published, hash, timers, streams, unsub>>
      /\ calls' = {} /\ c.op = "finish" /\ timers = {} /\ streams = {}
  BY OnlyFetch DEF FinishReturns, Return, server, following, Orderly
<1>2. CASE c.reply = "ok"
  <2>1. /\ snap' = [run |-> c.run, seq |-> c.seq] /\ c.seq = K /\ IsTerminal(snap')
    BY <1>1, <1>2 DEF FinishReturns, Orderly, Current, IsTerminal
  <2>2. Forward /\ c.run = hash /\ c.seq <= published[c.run]
    BY <1>1, <1>2, <2>1, ShowsForward
  <2> QED
    BY <1>1, <2>1, <2>2 DEF Ordered, Alone, Current, Held
<1>3. CASE c.reply = "error"
  <2>1. Fail /\ UNCHANGED snap
    BY <1>3 DEF FinishReturns
  <2>2. Forward
    BY <2>1, KeptOrCleared DEF Orderly
  <2> QED
    BY <1>1, <2>1, <2>2 DEF Orderly, Ordered, Alone, Current, Held, Fail
<1> QED
  BY <1>2, <1>3 DEF FinishReturns

LEMMA RestoreReturnsOrdered ==
  ASSUME Orderly, NEW c \in calls, RestoreReturns(c)
  PROVE  Ordered' /\ Forward
<1>1. /\ UNCHANGED <<published, hash>> /\ calls' = {} /\ c.op = "restore"
      /\ timers = {} /\ streams = {}
  BY OnlyFetch DEF RestoreReturns, Return, server, Orderly
<1>2. c.reply = "ok" /\ snap' = [run |-> c.run, seq |-> c.seq] =>
        Forward /\ snap' # NoSnap /\ c.run = hash /\ c.seq <= published[c.run]
  BY <1>1, ShowsForward
<1>3. CASE /\ c.reply = "ok" /\ c.seq = K
           /\ snap' = [run |-> c.run, seq |-> c.seq]
           /\ UNCHANGED button \/ Fail
           /\ UNCHANGED following
  BY <1>1, <1>2, <1>3 DEF Ordered, Alone, Current, Held, following, IsTerminal
<1>4. CASE /\ c.reply = "ok" /\ c.seq < K
           /\ snap' = [run |-> c.run, seq |-> c.seq]
           /\ disabled' = TRUE /\ UNCHANGED alert
           /\ Follow(c.run, 0, snap')
           /\ UNCHANGED timers
  <2>1. /\ streams' = {[run |-> c.run, attempt |-> 0, cursor |-> snap'.seq]}
        /\ unsub' = [run |-> c.run, attempt |-> 0]
    BY <1>1, <1>4 DEF Follow
  <2>2. Alone'
    BY <1>1, <1>4, <2>1 DEF Alone
  <2>3. Current'
    <3>1. (snap # NoSnap => snap.run = hash /\ snap.seq <= published[snap.run])'
      BY <1>1, <1>2, <1>4
    <3>2. \A e \in streams' : /\ e.run = hash'
                              /\ unsub' = [run |-> e.run, attempt |-> e.attempt]
      BY <1>1, <1>2, <1>4, <2>1
    <3> QED
      BY <1>1, <1>4, <3>1, <3>2 DEF Current
  <2>4. Held'
    BY <1>1, <1>4 DEF Held
  <2> QED
    BY <1>2, <1>4, <2>2, <2>3, <2>4 DEF Ordered
<1>5. CASE Fail /\ UNCHANGED <<snap, following>>
  <2>1. Forward
    BY <1>5, KeptOrCleared DEF Orderly
  <2> QED
    BY <1>1, <1>5, <2>1 DEF Orderly, Ordered, Alone, Current, Held, Fail, following
<1> QED
  BY <1>3, <1>4, <1>5 DEF RestoreReturns

\* Without an early click nothing is under way when the button is pressed.
LEMMA ClickOrdered ==
  ASSUME Orderly, ~EarlyClick, Click
  PROVE  Ordered' /\ Forward
<1> DEFINE d == Call("start", NoRun, 0)
<1>1. /\ timers = {} /\ streams = {} /\ calls = {}
      /\ UNCHANGED <<published, hash, timers, unsub>>
      /\ streams' = {} /\ snap' = NoSnap /\ disabled' = TRUE /\ alert' = FALSE
      /\ calls' = {d}
  BY DEF Click, Orderly, Held, server, Unsubscribed
<1>2. d.op = "start" /\ d.reply = "none"
  BY DEF Call
<1> HIDE DEF d
<1>3. Alone'
  BY <1>1 DEF Alone
<1>4. Current'
  BY <1>1, <1>2 DEF Current
<1>5. Held'
  BY <1>1 DEF Held
<1>6. Forward
  BY <1>1, KeptOrCleared DEF Orderly
<1> QED
  BY <1>3, <1>4, <1>5, <1>6 DEF Ordered

LEMMA ReloadOrdered ==
  ASSUME Orderly, Reload
  PROVE  Ordered' /\ Forward
<1> DEFINE d == Call("restore", hash, 0)
<1>1. /\ UNCHANGED <<published, hash>>
      /\ snap' = NoSnap /\ timers' = {} /\ streams' = {}
      /\ calls' = {} \/ calls' = {d}
  BY DEF Reload, server
<1>2. d.op = "restore" /\ d.reply = "none" /\ d.run = hash
  BY DEF Call
<1> HIDE DEF d
<1>3. Alone'
  BY <1>1 DEF Alone
<1>4. Current'
  BY <1>1, <1>2 DEF Current
<1>5. Held'
  BY <1>1, <1>2 DEF Held
<1>6. Forward
  BY <1>1, KeptOrCleared DEF Orderly
<1> QED
  BY <1>3, <1>4, <1>5, <1>6 DEF Ordered

LEMMA ResubscribeOrdered ==
  ASSUME Orderly, NEW t \in timers, Resubscribe(t)
  PROVE  Ordered' /\ Forward
<1>1. /\ UNCHANGED <<published, hash, snap, disabled, alert, calls>>
      /\ calls = {} /\ timers' = {} /\ disabled /\ t.run = hash
      /\ streams' = {[run |-> t.run, attempt |-> t.attempt, cursor |-> snap.seq]}
      /\ unsub' = [run |-> t.run, attempt |-> t.attempt]
  BY OnlyTimer DEF Resubscribe, Follow, server, button, Orderly, Current, Held
<1>2. Alone'
  BY <1>1 DEF Alone
<1>3. Current'
  BY <1>1 DEF Orderly, Current
<1>4. Held'
  BY <1>1 DEF Held
<1>5. Forward
  BY <1>1, KeptOrCleared DEF Orderly
<1> QED
  BY <1>2, <1>3, <1>4, <1>5 DEF Ordered

LEMMA DropOrdered ==
  ASSUME Orderly, NEW e \in streams, Drop(e)
  PROVE  Ordered' /\ Forward
<1> DEFINE d == Call("recover", e.run, e.attempt)
<1>1. /\ UNCHANGED <<published, hash, snap, disabled, alert, timers, unsub>>
      /\ calls = {} /\ timers = {} /\ disabled /\ e.run = hash
      /\ streams' = {}
      /\ calls' = {} \/ calls' = {d}
  BY OnlySource DEF Drop, server, button, Orderly, Current, Held
<1>2. d.op = "recover" /\ d.reply = "none" /\ d.run = e.run
  BY DEF Call
<1> HIDE DEF d
<1>3. Alone'
  BY <1>1 DEF Alone
<1>4. Current'
  BY <1>1, <1>2 DEF Orderly, Current
<1>5. Held'
  BY <1>1 DEF Held
<1>6. Forward
  BY <1>1, KeptOrCleared DEF Orderly
<1> QED
  BY <1>3, <1>4, <1>5, <1>6 DEF Ordered

LEMMA ReceiveOrdered ==
  ASSUME Orderly, NEW e \in streams, Receive(e)
  PROVE  Ordered' /\ Forward
<1> DEFINE next == [e EXCEPT !.cursor = @ + 1]
           d == Call("finish", snap.run, 0)
<1>1. /\ next.run = e.run /\ next.attempt = e.attempt /\ next.cursor <= published[e.run]
      /\ next.cursor \in 0..K
  BY NextEvent DEF Receive, Orderly
<1>2. /\ UNCHANGED <<published, hash, disabled, alert, timers, unsub>>
      /\ snap' = IF snap = NoSnap THEN snap ELSE Reduce(snap, next)
      /\ \/ /\ IsTerminal(snap') /\ streams' = Unsubscribed(Deliver(e, next))
            /\ calls' = calls \cup {d}
         \/ streams' = Deliver(e, next) /\ UNCHANGED calls
  BY DEF Receive, server, button
<1>3. /\ streams = {e} /\ calls = {} /\ timers = {} /\ disabled /\ e.run = hash
      /\ unsub = [run |-> e.run, attempt |-> e.attempt]
  BY OnlySource DEF Orderly, Current, Held
<1>4. d.op = "finish" /\ d.reply = "none" /\ d.run = snap.run
  BY DEF Call
<1> HIDE DEF next, d
<1>5. /\ snap = NoSnap => snap' = NoSnap
      /\ snap # NoSnap => /\ snap' # NoSnap /\ snap'.run = snap.run /\ snap.run = hash
                          /\ snap'.seq >= snap.seq /\ snap'.seq <= published[snap.run]
  BY <1>1, <1>2, <1>3, PageAssumption DEF Orderly, Typed, Current, Reduce, NoSnap
<1>6. Forward
  BY <1>5, PageAssumption DEF Forward, NoSnap
<1>7. CASE streams' = Deliver(e, next) /\ UNCHANGED calls
  <2>1. streams' = {next}
    BY <1>3, <1>7 DEF Deliver
  <2>2. Alone'
    BY <1>2, <1>3, <1>7, <2>1 DEF Alone
  <2>3. Current'
    BY <1>1, <1>2, <1>3, <1>5, <1>7, <2>1 DEF Current
  <2>4. Held'
    BY <1>2, <1>3, <1>7 DEF Held
  <2> QED
    BY <1>6, <2>2, <2>3, <2>4 DEF Ordered
<1>8. CASE /\ IsTerminal(snap') /\ streams' = Unsubscribed(Deliver(e, next))
           /\ calls' = calls \cup {d}
  <2>1. streams' = {} /\ calls' = {d}
    BY <1>1, <1>3, <1>8 DEF Deliver, Unsubscribed
  <2>2. snap # NoSnap /\ snap.run \in Runs
    <3>1. snap # NoSnap
      BY <1>5, <1>8, PageAssumption DEF IsTerminal, NoSnap
    <3> QED
      BY <3>1, PageAssumption DEF Orderly, Typed, Runs
  <2>3. published[snap.run] = K
    BY <1>5, <1>8, <2>2, PageAssumption DEF IsTerminal, Orderly, Typed
  <2>4. Alone'
    BY <1>2, <1>3, <2>1 DEF Alone
  <2>5. Current'
    BY <1>2, <1>3, <1>4, <1>5, <2>1, <2>2, <2>3 DEF Current
  <2>6. Held'
    BY <1>2, <1>3, <1>4, <2>1 DEF Held
  <2> QED
    BY <1>6, <2>4, <2>5, <2>6 DEF Ordered
<1> QED
  BY <1>2, <1>7, <1>8

LEMMA InitOrdered == Init => Ordered
  BY DEF Init, Ordered, Alone, Current, Held

LEMMA StepOrdered ==
  ASSUME Orderly, ~EarlyClick, Next
  PROVE  Ordered' /\ Forward
<1>1. ASSUME Publish \/ ReleaseSlot PROVE Ordered' /\ Forward
  BY <1>1, ServerOrdered
<1>2. ASSUME NEW c \in calls, Continue(c) PROVE Ordered' /\ Forward
  BY <1>2, StartAnsweredOrdered, SnapshotAnsweredOrdered, StartReturnsOrdered,
     FirstReturnsOrdered, RecoverReturnsOrdered, FinishReturnsOrdered,
     RestoreReturnsOrdered DEF Continue
<1>3. ASSUME NEW t \in timers, Resubscribe(t) PROVE Ordered' /\ Forward
  BY <1>3, ResubscribeOrdered
<1>4. ASSUME NEW e \in streams, Receive(e) \/ Drop(e) PROVE Ordered' /\ Forward
  BY <1>4, ReceiveOrdered, DropOrdered
<1>5. ASSUME Click \/ Reload PROVE Ordered' /\ Forward
  BY <1>5, ClickOrdered, ReloadOrdered
<1> QED
  BY <1>1, <1>2, <1>3, <1>4, <1>5 DEF Next, Progress

LEMMA StillOrdered ==
  ASSUME Orderly, UNCHANGED vars
  PROVE  Ordered'
  BY DEF vars, server, page, button, following, Orderly, Ordered, Alone, Current, Held

-----------------------------------------------------------------------------
(* Theorems. *)

\* Whatever the user, the network and the server do, the page's state keeps its
\* types: every fetch, timer and source is about a run that was started, and no
\* retry exceeds the budget.
THEOREM PageTypeCorrect == Spec => []TypeOK
<1>1. Typed => TypeOK
  <2> SUFFICES ASSUME Typed PROVE TypeOK
    OBVIOUS
  <2>1. started \in 0..MaxRuns /\ 1..started \subseteq Runs
    BY PageAssumption DEF Typed, Runs
  <2>2. \A c \in calls :
          /\ c.op \in Ops /\ c.run \in 0..started /\ c.attempt \in 0..MaxResubscribes
          /\ c.reply \in {"none", "ok", "error"} /\ c.seq \in 0..K
    BY DEF Typed, Fetches
  <2>3. /\ timers \subseteq [run : Runs, attempt : 1..MaxResubscribes]
        /\ streams \subseteq [run : Runs, attempt : 0..MaxResubscribes, cursor : 0..K]
    BY <2>1 DEF Typed
  <2>4. snap = NoSnap \/ (snap.run \in 1..started /\ snap.seq \in 0..K)
    BY DEF Typed
  <2> QED
    BY <2>2, <2>3, <2>4 DEF Typed, TypeOK
<1> QED
  BY <1>1, InitTyped, StepTyped, PTL DEF Spec

\* The inductive invariant of the page: Orderly is kept by every step once the
\* button is left alone during a restore.
THEOREM PageIsOrderly ==
  ASSUME ~EarlyClick
  PROVE  Spec => []Orderly
<1>1. Init => Orderly
  BY InitTyped, InitOrdered DEF Orderly, Ordered
<1>2. Orderly /\ [Next]_vars => Orderly'
  BY StepTyped, StepOrdered, StillOrdered DEF Orderly, Ordered
<1> QED
  BY <1>1, <1>2, PTL DEF Spec

\* app.js relies on closures and unsub() rather than on a lock: however drops,
\* retries, reloads and answers interleave, the page has one source, or one
\* scheduled retry, or one fetch, and never two that could write the snapshot.
THEOREM OneThingAtATime ==
  ASSUME ~EarlyClick
  PROVE  Spec => []OneFollower
<1>1. Orderly => OneFollower
  <2> SUFFICES ASSUME Alone PROVE OneFollower
    BY DEF Orderly
  <2>1. Cardinality(calls) = 0 \/ Cardinality(calls) = 1
    <3>1. calls = {} \/ \E c : calls = {c}
      BY DEF Alone
    <3> QED
      BY <3>1, FS_EmptySet, FS_Singleton
  <2>2. Cardinality(timers) = 0 \/ Cardinality(timers) = 1
    <3>1. timers = {} \/ \E t : timers = {t}
      BY DEF Alone
    <3> QED
      BY <3>1, FS_EmptySet, FS_Singleton
  <2>3. Cardinality(streams) = 0 \/ Cardinality(streams) = 1
    <3>1. streams = {} \/ \E e : streams = {e}
      BY DEF Alone
    <3> QED
      BY <3>1, FS_EmptySet, FS_Singleton
  <2>4. /\ calls = {} => Cardinality(calls) = 0
        /\ timers = {} => Cardinality(timers) = 0
        /\ streams = {} => Cardinality(streams) = 0
    BY FS_EmptySet
  <2> QED
    BY <2>1, <2>2, <2>3, <2>4 DEF Alone, OneFollower, Chains
<1> QED
  BY <1>1, PageIsOrderly, PTL

\* Across drops, recoveries, replays and reconnects the page never shows an
\* earlier event of the run it already shows.
THEOREM ProgressIsMonotone ==
  ASSUME ~EarlyClick
  PROVE  Spec => ShownProgressIsMonotone
<1>1. Orderly /\ [Next]_vars => [snap'.run = snap.run => snap'.seq >= snap.seq]_snap
  BY StepOrdered DEF Forward, vars, page
<1> QED
  BY <1>1, PageIsOrderly, PTL DEF Spec, ShownProgressIsMonotone

\* A page at rest without an alert shows the final state of the run its URL
\* names: the button is given back only after the last snapshot was read.
THEOREM RestShowsTheEnd ==
  ASSUME ~EarlyClick
  PROVE  Spec => []QuietMeansFinal
<1>1. Orderly => QuietMeansFinal
  <2> SUFFICES ASSUME Orderly, ~disabled, ~alert, calls = {}, snap # NoSnap
               PROVE  snap.run = hash /\ IsTerminal(snap) /\ published[snap.run] = K
    BY DEF QuietMeansFinal
  <2>1. snap.run = hash /\ snap.seq <= published[snap.run] /\ snap.seq = K
    BY DEF Orderly, Current, Held, IsTerminal
  <2>2. snap.run \in Runs
    BY PageAssumption DEF Orderly, Typed, Runs
  <2>3. published[snap.run] \in 0..K
    BY <2>2 DEF Orderly, Typed
  <2> QED
    BY <2>1, <2>3, PageAssumption DEF IsTerminal
<1> QED
  BY <1>1, PageIsOrderly, PTL
=============================================================================
