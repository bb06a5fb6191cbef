--------------------------------- MODULE Insights ---------------------------------
(***************************************************************************)
(* Insights: the host that records the time spent in the app while the     *)
(* user consents, its outbox, the worker that owns the store, and the      *)
(* transitions that switch consent or delete everything.                   *)
(* src/electron/main/services/insights-host.ts, insights-worker.ts and     *)
(* app-focus-collector.ts, src/services/insights/insights-worker-core.ts   *)
(* and outbox.ts.                                                          *)
(*                                                                         *)
(* A span is its number, in the order of capture.  A transition waits in   *)
(* `queue`, so the one under way is superseded when the queue is not       *)
(* empty; those that do not await run in the task that reached them, which *)
(* is why no other action happens before the queue `Settled`.  A killed    *)
(* worker, and its exit event, which the host ignores, are gone at once.   *)
(* `wiped` is auxiliary: the last span captured before the last wipe.      *)
(***************************************************************************)
EXTENDS Integers, Sequences, FiniteSets, SequencesExt

CONSTANTS NoWorker,       \* proc is null
          MaxSpans,       \* bound: spans captured, below OUTBOX_CAP
          MaxTransitions, \* bound: transitions waiting
          MaxBoots,       \* MAX_CONSECUTIVE_REFORKS
          EarlyExit       \* BOOLEAN: a worker may die before it spawned while consent is off

VARIABLES consent,    \* [enabled, armed, wiping, drained, reforks]: the host, the collector
          queue,      \* the transitions that wait
          job,        \* the await of the one under way: none, drain, wipe or rm
          closer,     \* pendingClose is set
          stray,      \* the timer of an answered closeStore is still armed
          outbox,     \* the spans no worker acknowledged
          pending,    \* closeStore messages that wait for the spawn, their number
          worker,     \* NoWorker or [spawned, db, wire, back]
          store,      \* the spans in the store
          captured,   \* the number of spans
          wiped

insightsVars == <<consent, queue, job, closer, stray, outbox, pending, worker, store,
                  captured, wiped>>

\* A worker with what is on its way to it and back.
Workers == [spawned : BOOLEAN, db : {"unopened", "open", "closed"},
            wire : Seq([kind : {"config", "event", "close"}, span : 0..MaxSpans]),
            back : Seq([kind : {"status", "ack", "closed"}, span : 0..MaxSpans])]

ASSUME InsightsAssumption ==
    /\ MaxSpans \in Nat /\ MaxTransitions \in Nat /\ MaxBoots \in Nat
    /\ NoWorker \notin Workers

NewWorker == [spawned |-> FALSE, db |-> "unopened", wire |-> <<>>, back |-> <<>>]
Message(kind) == [kind |-> kind, span |-> 0]
SpanMessage(kind, n) == [kind |-> kind, span |-> n]
Settled == job # "none" \/ queue = <<>>

InsightsInit ==
    /\ consent = [enabled |-> FALSE, armed |-> FALSE, wiping |-> FALSE, drained |-> FALSE,
                  reforks |-> 0]
    /\ queue = <<>> /\ job = "none"
    /\ closer = FALSE /\ stray = FALSE
    /\ outbox = {} /\ pending = 0
    /\ worker = NoWorker
    /\ store = {} /\ captured = 0 /\ wiped = 0

-----------------------------------------------------------------------------
(* What the host does with a worker.                                         *)

\* start: a worker there is stays.
StartedOver(w) == IF w = NoWorker THEN NewWorker ELSE w

\* proc.postMessage, for a worker that spawned.
Sent(w, m) == [w EXCEPT !.wire = Append(@, m)]

\* post(closeStore): it waits for the spawn.
PostClose ==
    IF worker.spawned
    THEN worker' = Sent(worker, Message("close")) /\ UNCHANGED pending
    ELSE pending' = pending + 1 /\ UNCHANGED worker

\* produce, of the next span: nothing while a wipe is under way.
Produce(w) ==
    IF consent.wiping THEN UNCHANGED outbox /\ worker' = w
    ELSE /\ outbox' = outbox \cup {captured + 1}
         /\ worker' = IF w # NoWorker /\ w.spawned
                      THEN Sent(w, SpanMessage("event", captured + 1)) ELSE w

Capture ==
    /\ Settled
    /\ consent.armed /\ consent.enabled /\ captured < MaxSpans
    /\ captured' = captured + 1
    /\ Produce(worker)
    /\ UNCHANGED <<consent, queue, job, closer, stray, pending, store, wiped>>

-----------------------------------------------------------------------------
(* The transitions.                                                          *)

Request(k) ==
    /\ Settled /\ Len(queue) < MaxTransitions
    /\ queue' = Append(queue, k)
    /\ UNCHANGED <<consent, job, closer, stray, outbox, pending, worker, store, captured,
                   wiped>>

\* setEnabled(true): a worker whose store was drained is replaced.
TurnOn ==
    /\ IF consent.drained /\ worker # NoWorker
       THEN /\ worker' = NewWorker
            /\ consent' = [consent EXCEPT !.enabled = TRUE, !.armed = TRUE, !.drained = FALSE]
            /\ pending' = 0 /\ closer' = FALSE
       ELSE /\ worker' = StartedOver(worker)
            /\ consent' = [consent EXCEPT !.enabled = TRUE, !.armed = TRUE]
            /\ UNCHANGED <<pending, closer>>
    /\ UNCHANGED <<job, stray, outbox, store, captured, wiped>>

\* stopWorker and outbox.clear.
StopCapture ==
    /\ worker' = NoWorker
    /\ pending' = 0 /\ closer' = FALSE
    /\ outbox' = {}

\* setEnabled(false): a collector that is not suspended has an uptime to close.
TurnOff ==
    /\ \/ /\ consent.armed /\ captured < MaxSpans
          /\ captured' = captured + 1
          /\ IF worker # NoWorker
             THEN /\ outbox' = outbox \cup {captured + 1}
                  /\ job' = "drain" /\ closer' = TRUE
                  /\ IF worker.spawned
                     THEN /\ worker' = Sent(Sent(worker, SpanMessage("event", captured + 1)),
                                            Message("close"))
                          /\ UNCHANGED pending
                     ELSE pending' = pending + 1 /\ UNCHANGED worker
                  /\ consent' = [consent EXCEPT !.enabled = FALSE, !.armed = FALSE]
             ELSE /\ StopCapture
                  /\ consent' = [consent EXCEPT !.enabled = FALSE, !.armed = FALSE,
                                                !.drained = FALSE]
                  /\ UNCHANGED job
       \/ /\ StopCapture
          /\ consent' = [consent EXCEPT !.enabled = FALSE, !.armed = FALSE, !.drained = FALSE]
          /\ UNCHANGED <<job, captured>>
    /\ UNCHANGED <<stray, store, wiped>>

\* outbox.clear: nothing from before the wipe may replay.
Discard == outbox' = {}

\* deleteAll, up to its first await: the spans the collector closes are dropped.
DeleteAll ==
    /\ consent' = [consent EXCEPT !.wiping = TRUE, !.armed = FALSE]
    /\ Discard
    /\ IF worker # NoWorker
       THEN job' = "wipe" /\ closer' = TRUE /\ PostClose
       ELSE job' = "rm" /\ UNCHANGED <<closer, pending, worker>>
    /\ UNCHANGED <<stray, store, captured, wiped>>

\* A transition starts when none is under way.
RunJob ==
    /\ job = "none" /\ queue # <<>>
    /\ queue' = Tail(queue)
    /\ \/ Head(queue) = "on" /\ TurnOn
       \/ Head(queue) = "off" /\ TurnOff
       \/ Head(queue) = "wipe" /\ DeleteAll

\* After the await of drainThenStop: a superseded drain leaves the worker there.
Drained(w, c) ==
    IF queue # <<>>
    THEN /\ consent' = [c EXCEPT !.drained = TRUE]
         /\ worker' = w
         /\ closer' = FALSE /\ UNCHANGED <<pending, outbox>>
    ELSE /\ consent' = [c EXCEPT !.drained = FALSE]
         /\ StopCapture

\* After the await of deleteAll: the worker is stopped, the directory goes.
ReadyToWipe(c) ==
    /\ worker' = NoWorker
    /\ consent' = [c EXCEPT !.drained = FALSE]
    /\ pending' = 0 /\ closer' = FALSE
    /\ UNCHANGED outbox

Awaited(w, c) ==
    \/ job = "drain" /\ Drained(w, c) /\ job' = "none"
    \/ job = "wipe" /\ ReadyToWipe(c) /\ job' = "rm"

\* CLOSE_STORE_TIMEOUT_MS without an answer.
CloseTimer ==
    /\ Awaited(worker, consent)
    /\ UNCHANGED <<queue, stray, store, captured, wiped>>

\* The timer of an answered wait is not cleared: it clears the next one's pendingClose.
StrayTimer ==
    /\ Settled /\ stray
    /\ stray' = FALSE /\ closer' = FALSE
    /\ UNCHANGED <<consent, queue, job, outbox, pending, worker, store, captured, wiped>>

\* rm succeeds or throws; capture restarts unless a younger transition decides.
Removed ==
    /\ job = "rm" /\ job' = "none"
    /\ \/ store' = {} /\ wiped' = captured
       \/ UNCHANGED <<store, wiped>>
    /\ IF queue = <<>> /\ consent.enabled
       THEN /\ worker' = StartedOver(worker)
            /\ consent' = [consent EXCEPT !.wiping = FALSE, !.armed = TRUE]
       ELSE /\ consent' = [consent EXCEPT !.wiping = FALSE]
            /\ UNCHANGED worker
    /\ UNCHANGED <<queue, closer, stray, outbox, pending, captured>>

-----------------------------------------------------------------------------
(* The worker.                                                               *)

\* The outbox, the oldest first.
Rank(n) == Cardinality({m \in outbox : m <= n})
Replay == [i \in 1..Cardinality(outbox) |->
               SpanMessage("event", CHOOSE n \in outbox : Rank(n) = i)]
Waiting == [i \in 1..pending |-> Message("close")]

\* What a worker that spawned is sent: config, the replay, then what waited.
Greeting == <<Message("config")>> \o Replay \o Waiting

WorkerSpawns ==
    /\ Settled
    /\ worker # NoWorker /\ ~worker.spawned
    /\ worker' = [worker EXCEPT !.spawned = TRUE, !.wire = Greeting]
    /\ pending' = 0
    /\ UNCHANGED <<consent, queue, job, closer, stray, outbox, store, captured, wiped>>

\* boot, the transaction of a span and its ack, closeStore; a closed store throws.
WorkerTakes ==
    /\ Settled
    /\ worker # NoWorker /\ worker.wire # <<>>
    /\ LET m == Head(worker.wire)
           Answer(db, msgs) == worker' = [worker EXCEPT !.wire = Tail(@), !.db = db,
                                                        !.back = @ \o msgs]
       IN \/ m.kind = "config" /\ Answer("open", <<Message("status")>>) /\ UNCHANGED store
          \/ /\ m.kind = "event" /\ worker.db = "open"
             /\ Answer("open", <<SpanMessage("ack", m.span)>>)
             /\ store' = store \cup {m.span}
          \/ m.kind = "event" /\ worker.db = "closed" /\ Answer("closed", <<>>) /\ UNCHANGED store
          \/ m.kind = "close" /\ Answer("closed", <<Message("closed")>>) /\ UNCHANGED store
    /\ UNCHANGED <<consent, queue, job, closer, stray, outbox, pending, captured, wiped>>

\* onMessage; any message restores the budget of the re-forks.
HostTakes ==
    /\ Settled
    /\ worker # NoWorker /\ worker.back # <<>>
    /\ LET m == Head(worker.back)
           w == [worker EXCEPT !.back = Tail(@)]
           c == [consent EXCEPT !.reforks = 0]
       IN \/ /\ m.kind = "closed" /\ closer
             /\ Awaited(w, c)
             /\ stray' = TRUE
          \/ /\ ~(m.kind = "closed" /\ closer)
             /\ outbox' = IF m.kind = "ack" THEN outbox \ {m.span} ELSE outbox
             /\ consent' = c /\ worker' = w
             /\ UNCHANGED <<job, closer, stray, pending>>
    /\ UNCHANGED <<queue, store, captured, wiped>>

\* Mutant: a worker that never reports in is forked for ever.
AlwaysLeft == TRUE

\* The re-forks since a worker reported in.
BudgetLeft == consent.reforks < MaxBoots

\* The worker dies: it is forked again while consent is on and the budget lasts.
WorkerExits ==
    /\ Settled
    /\ worker # NoWorker
    /\ consent.enabled \/ worker.spawned \/ EarlyExit
    /\ IF consent.enabled /\ BudgetLeft
       THEN /\ worker' = NewWorker
            /\ consent' = [consent EXCEPT !.reforks = @ + 1]
       ELSE worker' = NoWorker /\ UNCHANGED consent
    /\ UNCHANGED <<queue, job, closer, stray, outbox, pending, store, captured, wiped>>

InsightsNext ==
    \/ Capture \/ RunJob \/ CloseTimer \/ StrayTimer \/ Removed
    \/ WorkerSpawns \/ WorkerTakes \/ HostTakes \/ WorkerExits
    \/ \E k \in {"on", "off", "wipe"} : Request(k)

-----------------------------------------------------------------------------
(* Properties.                                                               *)

InsightsTypeOK ==
    /\ consent \in [enabled : BOOLEAN, armed : BOOLEAN, wiping : BOOLEAN, drained : BOOLEAN,
                    reforks : 0..MaxBoots]
    /\ queue \in Seq({"on", "off", "wipe"}) /\ Len(queue) <= MaxTransitions
    /\ job \in {"none", "drain", "wipe", "rm"}
    /\ closer \in BOOLEAN /\ stray \in BOOLEAN
    /\ outbox \subseteq 1..MaxSpans /\ pending \in Nat
    /\ worker \in Workers \cup {NoWorker}
    /\ store \subseteq 1..MaxSpans
    /\ captured \in 0..MaxSpans /\ wiped \in 0..captured

\* Once the store was deleted nothing captured before is in the store, in the outbox or
\* on the way to a worker, whatever crashed or was switched meanwhile.
WipedIsGone ==
    /\ \A n \in store \cup outbox : n > wiped
    /\ worker # NoWorker =>
         \A i \in DOMAIN worker.wire :
            worker.wire[i].kind = "event" => worker.wire[i].span > wiped

\* When no transition is under way the host does what the last one asked: without consent
\* there is no worker, no collector and nothing to send; with it the collector runs and
\* spans reach a worker that can write, unless the budget of re-forks is spent.
IsQuiet == worker = NoWorker /\ ~consent.armed /\ outbox = {}
IsCapturing ==
    /\ consent.armed
    /\ worker = NoWorker => consent.reforks = MaxBoots
    /\ worker # NoWorker => worker.db # "closed" /\ Message("close") \notin ToSet(worker.wire)
ConsentHolds ==
    (job = "none" /\ queue = <<>>) => IF consent.enabled THEN IsCapturing ELSE IsQuiet

\* When the worker answers the drain of a disable, every span of the outbox is stored:
\* the outbox that is cleared then loses nothing.
DrainKeepsRows ==
    (job = "drain" /\ worker # NoWorker) =>
        (worker.back # <<>> => (Head(worker.back) = Message("closed") => outbox \subseteq store))

\* What insights may keep and must keep: nothing that was wiped, nothing without consent,
\* and every span of a drain.
InsightsAreFaithful == WipedIsGone /\ ConsentHolds /\ DrainKeepsRows
===================================================================================
