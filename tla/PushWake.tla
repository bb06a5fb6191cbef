------------------------------- MODULE PushWake -------------------------------
(***************************************************************************)
(* services/xbp: the wake-up pings of the host.  The push token            *)
(* (xbp-push-token-store.ts, its handlers and the places that revoke it),  *)
(* push-wake-sender.ts, and push-wake-watcher.ts with its two detectors    *)
(* (push-wake-detector.ts over whisper workflows and escalations,          *)
(* push-wake-attention-detector.ts over the session report) and            *)
(* push-wake-state-store.ts.                                               *)
(*                                                                         *)
(* The token's slot is a file: it survives a restart.  Expo is external:   *)
(* it answers an attempt with a receipt, with DeviceNotRegistered for the  *)
(* token of a device that is gone, or not at all.  The wait between two    *)
(* attempts is part of the attempt that follows it.                        *)
(*                                                                         *)
(* A tick is cut where it awaits: the whisper states, the session report,  *)
(* the send.  From the report to the send it is one task, with the save in *)
(* it.  The host may crash between any two tasks; the state file and the   *)
(* token survive.  The clock is a counter that never goes back; a snapshot *)
(* names a session and a workflow once.  Auditing is left out.             *)
(***************************************************************************)
EXTENDS Naturals, FiniteSets

-----------------------------------------------------------------------------
(* The token and the sender.                                               *)

CONSTANTS Tokens,       \* push tokens a phone may register
          NoToken,      \* an empty slot
          NoPost,       \* no send in flight
          MaxAttempts   \* maxAttempts

ASSUME TokenAssumption == NoToken \notin Tokens
ASSUME AttemptAssumption == MaxAttempts \in Nat \ {0}

VARIABLES token,  \* push-token.enc
          dead,   \* tokens of devices that are gone
          post    \* the send in flight: its token, and the attempts left

senderVars == <<token, dead, post>>

Posts == [token : Tokens, left : 1..MaxAttempts]
ASSUME PostAssumption == NoPost \notin Posts

SenderTypeOK ==
    /\ token \in Tokens \cup {NoToken}
    /\ dead \subseteq Tokens
    /\ post \in Posts \cup {NoPost}

SenderInit ==
    /\ token \in Tokens \cup {NoToken}
    /\ dead = {}
    /\ post = NoPost

\* register-push-token; a failing save is refused and changes nothing.
Register(t) ==
    /\ t \notin dead
    /\ token # t
    /\ token' = t
    /\ UNCHANGED <<dead, post>>

\* deregister-push-token, forgetDevice, confirmPairing, and a start without a
\* paired device.
Revoke ==
    /\ token # NoToken
    /\ token' = NoToken
    /\ UNCHANGED <<dead, post>>

DeviceGone(t) ==
    /\ t \notin dead
    /\ dead' = dead \cup {t}
    /\ UNCHANGED <<token, post>>

\* The task that calls send() also loads the token and posts the first attempt.
StartSend == post' = [token |-> token, left |-> MaxAttempts]

Delivered ==
    /\ post # NoPost
    /\ post.token \notin dead
    /\ post' = NoPost
    /\ UNCHANGED <<token, dead>>

\* DeviceNotRegistered.
NotRegistered ==
    /\ post # NoPost
    /\ post.token \in dead
    /\ token' = NoToken
    /\ post' = NoPost
    /\ UNCHANGED dead

\* No answer in time, not a success, or another error: try again, or give up.
Transient ==
    /\ post # NoPost
    /\ post' = IF post.left > 1 THEN [post EXCEPT !.left = @ - 1] ELSE NoPost
    /\ UNCHANGED <<token, dead>>

Answer == Delivered \/ NotRegistered \/ Transient

-----------------------------------------------------------------------------
(* The watcher.                                                            *)

CONSTANTS Sessions,     \* sessions of the report
          Workflows,    \* whisper workflows
          Chains,       \* whisper escalation chains
          Null,         \* a namespace that never had a successful pass; no ping yet
          Unloaded,     \* the watcher's state before its first tick
          Window,       \* PUSH_WAKE_COALESCE_MS
          MaxTime,      \* bound of the clock
          MaxChanges,   \* bound: changes of the sessions, workflows and chains
          MaxTrouble    \* bound: restarts, failed reads and failed saves

ASSUME WindowAssumption == Window \in Nat /\ MaxTime \in Nat
ASSUME BoundAssumption == MaxChanges \in Nat /\ MaxTrouble \in Nat

VARIABLES attention,  \* what the session report says of a session
          workflow,   \* what whisper says of a workflow
          chains,     \* the escalation chains whisper shows
          live,       \* hasLivePhoneConnection()
          enabled,    \* is the bridge on and push-wake on
          clock,
          mem,        \* the watcher's state
          disk,       \* push-wake-state.json
          phase,      \* what the tick awaits
          pass,       \* the whisper pass of the tick
          spent,      \* what is as it was last recorded on disk
          carried,    \* the events of the send in flight
          pinged,     \* when the last attempt was made, since a load that failed
          changes, trouble

worldVars == <<attention, workflow, chains, changes>>
gateVars == <<live, enabled, clock>>
auxVars == <<spent, carried, pinged>>
vars == <<senderVars, worldVars, gateVars, mem, disk, phase, pass, auxVars, trouble>>

Members == {"waiting", "failed"}
Attentions == Members \cup {"absent", "calm"}
Qualifying == {"done"}                \* done, halted
Excluded == {"canceled"}
Statuses == Qualifying \cup Excluded \cup {"running"}

Items == ({"session"} \X Sessions) \cup ({"workflow"} \X Workflows) \cup ({"chain"} \X Chains)

\* Partial functions, as the code's records by id.
Partial(S, T) == UNION {[D -> T] : D \in SUBSET S}

WhisperSeen == [status : Partial(Workflows, Statuses), done : SUBSET Workflows, chains : SUBSET Chains]
Seen == [whisper : WhisperSeen \cup {Null},
         attention : Partial(Sessions, Members) \cup {Null},
         lastPingAt : (0..MaxTime) \cup {Null}]

\* null and a state that was not loaded are values of their own.
ASSUME NullAssumption == Null \notin WhisperSeen \cup Partial(Sessions, Members) /\ Null \notin Nat
ASSUME UnloadedAssumption == Unloaded \notin Seen

NothingSeen == [whisper |-> Null, attention |-> Null, lastPingAt |-> Null]
NoPass == [events |-> {}, next |-> Null, snapshot |-> {}]

TypeOK ==
    /\ SenderTypeOK
    /\ attention \in [Sessions -> Attentions]
    /\ workflow \in [Workflows -> Statuses \cup {"absent"}]
    /\ chains \subseteq Chains
    /\ live \in BOOLEAN /\ enabled \in BOOLEAN
    /\ clock \in 0..MaxTime
    /\ mem \in Seen \cup {Unloaded}
    /\ disk \in Seen
    /\ phase \in {"idle", "states", "report"}
    /\ pass.events \subseteq Items
    /\ pass.next \in WhisperSeen \cup {Null}
    /\ spent \subseteq Items /\ carried \subseteq Items
    /\ pinged \in (0..MaxTime) \cup {Null}
    /\ changes \in 0..MaxChanges /\ trouble \in 0..MaxTrouble
    \* a tick is in flight only over a loaded state
    /\ phase # "idle" \/ post # NoPost => mem # Unloaded
    /\ phase # "idle" => post = NoPost

Init ==
    /\ SenderInit
    /\ attention \in [Sessions -> {"absent", "waiting"}]
    /\ workflow = [w \in Workflows |-> "absent"]
    /\ chains = {}
    /\ live = FALSE
    /\ enabled = TRUE
    /\ clock = 0
    /\ mem = Unloaded
    /\ disk = NothingSeen
    /\ phase = "idle"
    /\ pass = NoPass
    /\ spent = {}
    /\ carried = {}
    /\ pinged = Null
    /\ changes = 0
    /\ trouble = 0

-----------------------------------------------------------------------------
(* The detectors.                                                          *)

Before(seen, w) == IF w \in DOMAIN seen.status THEN seen.status[w] ELSE "absent"

\* Mutant: a workflow that was pinged may qualify again while it stays settled.
WhisperEventsAgain(seen, status, shown) ==
    IF seen = Null THEN {}
    ELSE {<<"workflow", w>> : w \in {x \in DOMAIN status : status[x] \in Qualifying}}
         \cup {<<"chain", c>> : c \in shown \ seen.chains}

WhisperEvents(seen, status, shown) ==
    IF seen = Null THEN {}
    ELSE {<<"workflow", w>> : w \in {x \in DOMAIN status :
                                        /\ status[x] \in Qualifying
                                        /\ x \notin seen.done
                                        /\ Before(seen, x) \notin Qualifying \cup Excluded \cup {"absent"}}}
         \cup {<<"chain", c>> : c \in shown \ seen.chains}

WhisperNext(seen, status, shown) ==
    [status |-> status,
     done   |-> {w \in DOMAIN status : status[w] \in Qualifying},
     chains |-> shown \cup (IF seen = Null THEN {} ELSE seen.chains)]

AttentionEvents(seen, now) ==
    IF seen = Null THEN {}
    ELSE {<<"session", s>> : s \in {x \in DOMAIN now : x \notin DOMAIN seen \/ seen[x] # now[x]}}

Shown == [w \in {x \in Workflows : workflow[x] # "absent"} |-> workflow[w]]
Report == [s \in {x \in Sessions : attention[x] \in Members} |-> attention[s]]

-----------------------------------------------------------------------------
(* The tick.                                                               *)

Ticking == phase # "idle" \/ post # NoPost

\* Mutant: a tick may start while another one is in flight.
TickStartOverlapping ==
    /\ enabled
    /\ phase = "idle"
    /\ phase' = "states"
    /\ mem' = IF mem = Unloaded THEN disk ELSE mem
    /\ UNCHANGED <<senderVars, worldVars, gateVars, disk, pass, auxVars, trouble>>

\* A load that fails reads as a state that was never established: only then the
\* watcher forgets which chains it has seen.
TickStart ==
    /\ ~Ticking
    /\ enabled
    /\ phase' = "states"
    /\ \/ /\ mem # Unloaded
          /\ UNCHANGED <<mem, pinged, spent, trouble>>
       \/ /\ mem = Unloaded
          /\ mem' = disk
          /\ UNCHANGED <<pinged, spent, trouble>>
       \/ /\ mem = Unloaded
          /\ trouble < MaxTrouble
          /\ trouble' = trouble + 1
          /\ mem' = NothingSeen
          /\ pinged' = Null
          /\ spent' = spent \ ({"chain"} \X Chains)
    /\ UNCHANGED <<senderVars, worldVars, gateVars, disk, pass, carried>>

\* A blank read skips the pass and keeps its namespace.
StatesBlank ==
    /\ phase = "states"
    /\ phase' = "report"
    /\ pass' = [events |-> {}, next |-> mem.whisper, snapshot |-> {}]
    /\ UNCHANGED <<senderVars, worldVars, gateVars, mem, disk, auxVars, trouble>>

StatesRead ==
    /\ phase = "states"
    /\ phase' = "report"
    /\ pass' = [events   |-> WhisperEvents(mem.whisper, Shown, chains),
                next     |-> WhisperNext(mem.whisper, Shown, chains),
                snapshot |-> {<<w, Shown[w]>> : w \in DOMAIN Shown} \cup {<<c, "shown">> : c \in chains}]
    /\ UNCHANGED <<senderVars, worldVars, gateVars, mem, disk, auxVars, trouble>>

\* The whisper read throws: the tick ends.
StatesFail ==
    /\ phase = "states"
    /\ trouble < MaxTrouble
    /\ trouble' = trouble + 1
    /\ phase' = "idle"
    /\ UNCHANGED <<senderVars, worldVars, gateVars, mem, disk, pass, auxVars>>

Candidate(attentionNext, attempt) ==
    [whisper    |-> pass.next,
     attention  |-> attentionNext,
     lastPingAt |-> IF attempt THEN clock ELSE mem.lastPingAt]

Coalesced == mem.lastPingAt # Null /\ clock < mem.lastPingAt + Window

\* What a save with these snapshots records of the present.
Recorded(report) ==
    {<<"session", s>> : s \in DOMAIN report}
    \cup {<<"workflow", w>> : w \in {x \in Workflows : <<x, workflow[x]>> \in pass.snapshot}}
    \cup {<<"chain", c>> : c \in {x \in Chains : <<x, "shown">> \in pass.snapshot}}

\* Mutant: the memory advances although the save failed.
SaveFailedAdvances(attentionNext, events) ==
    /\ trouble < MaxTrouble
    /\ trouble' = trouble + 1
    /\ mem' = Candidate(attentionNext, FALSE)
    /\ UNCHANGED <<senderVars, disk, auxVars>>

\* The save fails: nothing advances, nothing is sent.
SaveFailed(attentionNext, events) ==
    /\ trouble < MaxTrouble
    /\ trouble' = trouble + 1
    /\ UNCHANGED <<senderVars, mem, disk, auxVars>>

\* The gates, in order: connected, coalesced, no token.  Every one of them uses up
\* the events.  An attempt is on disk before it is sent.  Nothing is written when
\* nothing moved.
Saved(attentionNext, events, report) ==
    LET attempt == events # {} /\ ~live /\ ~Coalesced /\ token # NoToken
        next == Candidate(attentionNext, attempt)
    IN  /\ mem' = next
        /\ disk' = IF events = {} /\ next = mem THEN disk ELSE next
        /\ spent' = IF disk' = next THEN spent \cup Recorded(report) ELSE spent
        /\ IF attempt
           THEN StartSend /\ carried' = events /\ pinged' = clock
           ELSE UNCHANGED <<post, carried, pinged>>
        /\ UNCHANGED <<token, dead, trouble>>

\* The report was rejected: the pass is skipped and its namespace kept.
ReportRejected ==
    /\ phase = "report"
    /\ phase' = "idle"
    /\ pass' = NoPass
    /\ \/ Saved(mem.attention, pass.events, << >>)
       \/ SaveFailed(mem.attention, pass.events)
    /\ UNCHANGED <<worldVars, gateVars>>

ReportRead(saved) ==
    LET events == pass.events \cup AttentionEvents(mem.attention, Report)
    IN  /\ phase = "report"
        /\ phase' = "idle"
        /\ pass' = NoPass
        /\ IF saved THEN Saved(Report, events, Report) ELSE SaveFailed(Report, events)
        /\ UNCHANGED <<worldVars, gateVars>>

SendAnswered ==
    /\ Answer
    /\ carried' = IF post' = NoPost THEN {} ELSE carried
    /\ UNCHANGED <<worldVars, gateVars, mem, disk, phase, pass, spent, pinged, trouble>>

\* The host crashes, or quits, and starts again.
Restart ==
    /\ trouble < MaxTrouble
    /\ trouble' = trouble + 1
    /\ mem' = Unloaded
    /\ phase' = "idle"
    /\ pass' = NoPass
    /\ post' = NoPost
    /\ carried' = {}
    /\ live' = FALSE
    /\ UNCHANGED <<token, dead, worldVars, enabled, clock, disk, spent, pinged>>

-----------------------------------------------------------------------------
(* The world.                                                              *)

Change ==
    /\ changes < MaxChanges
    /\ changes' = changes + 1
    /\ UNCHANGED <<senderVars, gateVars, mem, disk, phase, pass, carried, pinged, trouble>>

SessionChanges(s) ==
    /\ Change
    /\ \E value \in Attentions \ {attention[s]} : attention' = [attention EXCEPT ![s] = value]
    /\ spent' = spent \ {<<"session", s>>}
    /\ UNCHANGED <<workflow, chains>>

WorkflowChanges(w) ==
    /\ Change
    /\ \E status \in (Statuses \cup {"absent"}) \ {workflow[w]} :
          workflow' = [workflow EXCEPT ![w] = status]
    /\ spent' = spent \ {<<"workflow", w>>}
    /\ UNCHANGED <<attention, chains>>

\* A chain never stands for two escalations: once recorded it stays spent.
ChainChanges(c) ==
    /\ Change
    /\ chains' = IF c \in chains THEN chains \ {c} ELSE chains \cup {c}
    /\ UNCHANGED <<attention, workflow, spent>>

Gate ==
    /\ \/ live' = ~live /\ UNCHANGED <<enabled, clock>>
       \/ enabled' = ~enabled /\ UNCHANGED <<live, clock>>
       \/ clock < MaxTime /\ clock' = clock + 1 /\ UNCHANGED <<live, enabled>>
    /\ UNCHANGED <<senderVars, worldVars, mem, disk, phase, pass, auxVars, trouble>>

TokenChanges ==
    /\ \/ \E t \in Tokens : enabled /\ Register(t)
       \/ Revoke
       \/ \E t \in Tokens : DeviceGone(t)
    /\ UNCHANGED <<worldVars, gateVars, mem, disk, phase, pass, auxVars, trouble>>

Next ==
    \/ TickStart
    \/ StatesBlank
    \/ StatesRead
    \/ StatesFail
    \/ ReportRejected
    \/ ReportRead(TRUE)
    \/ ReportRead(FALSE)
    \/ SendAnswered
    \/ Restart
    \/ \E s \in Sessions : SessionChanges(s)
    \/ \E w \in Workflows : WorkflowChanges(w)
    \/ \E c \in Chains : ChainChanges(c)
    \/ Gate
    \/ TokenChanges

Spec == Init /\ [][Next]_vars

\* The interval fires; reads and sends come to an end (the send has a timeout), and
\* they are not blank or rejected for ever.
Fairness ==
    /\ WF_vars(TickStart)
    /\ SF_vars(StatesRead)
    /\ SF_vars(ReportRead(TRUE))
    /\ WF_vars(SendAnswered)

FairSpec == Spec /\ Fairness

-----------------------------------------------------------------------------
(* Properties.                                                             *)

Attempt == post = NoPost /\ post' # NoPost

(* No ping for what was already pinged, or recorded by a baseline or a tick
   whose ping was skipped: not after a restart, a failed save, a blank or
   rejected read of either source, or a save on behalf of the other one.   *)
OncePerTransition == [][Attempt => carried' \cap spent = {}]_vars

(* Two attempts are a window apart, also across a restart and whatever came of
   the first one, unless the state file was unreadable between them.       *)
WindowBetweenAttempts ==
    [][Attempt => pinged = Null \/ clock >= pinged + Window]_vars

(* While a send is in flight, what it is for is on disk.                   *)
PersistedBeforeSend ==
    post # NoPost => disk = mem /\ disk.lastPingAt = pinged /\ carried \subseteq Items /\ carried # {}

(* Every ping is accounted for: on disk before it leaves, for something new, and
   a window after the one before.                                          *)
PingsAreAccounted ==
    /\ []PersistedBeforeSend
    /\ OncePerTransition
    /\ WindowBetweenAttempts

(* While push-wake is on, a session that waits for its user is recorded, with a
   ping or a reason for none: no trouble keeps the watcher from its ticks.  *)
TransitionsSettle ==
    \A s \in Sessions :
        attention[s] \in Members ~> \/ <<"session", s>> \in spent
                                    \/ attention[s] \notin Members
                                    \/ ~enabled
=============================================================================
