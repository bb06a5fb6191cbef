----------------------- MODULE PtySubscriptionRegistry -----------------------
(***************************************************************************)
(* services/terminals/terminal-service.ts: the PTY sessions of the main    *)
(* process, the geometry the desktop wants for each of them, and the gate  *)
(* that suspends desktop auto-fit while a paired phone owns a viewport;    *)
(* and services/pty-inspect/pty-subscription-registry.ts: the one          *)
(* subscription of the paired phone, and the one watch that narrows a PTY  *)
(* to the phone's geometry (resize-on-watch).                              *)
(*                                                                         *)
(* Geometry is one axis (columns): the code treats rows the same way and   *)
(* independently.  A terminal id is a number, in order of creation.        *)
(*                                                                         *)
(* The service runs to completion inside the calls of the registry, and a  *)
(* method of the registry in one event-loop task, calling the service and  *)
(* the renderer on its way.  So both are operators from a viewport record  *)
(* v to a viewport record, whose fields gate and size are the service's    *)
(* variables; session and desk are only read by them.  An action of        *)
(* PtyInspect applies the whole chain of calls to `Viewport' and installs  *)
(* the result with `Becomes'.                                              *)
(***************************************************************************)
EXTENDS Naturals, FiniteSets

-----------------------------------------------------------------------------
(* The terminals: the sessions and the gate.                               *)

CONSTANTS Terms,        \* terminal session ids, in order of creation
          SpawnSize,    \* TERMINAL_SPAWN_COLS
          DesktopSizes, \* sizes the desktop pane can be fitted to
          NoSize        \* undefined / null

ASSUME TermsAssumption == Terms \subseteq Nat
ASSUME SizeAssumption ==
    /\ SpawnSize \in Nat
    /\ DesktopSizes \subseteq Nat
    /\ NoSize \notin Nat

VARIABLES session,  \* session[t]: is the PTY of t running
          desk,     \* desktopGeometryBySession
          gate,     \* phoneOwnedSessions
          size      \* the columns the PTY of t really has

terminalVars == <<session, desk, gate, size>>

Sizes == Nat \cup {NoSize}

TerminalTypeOK ==
    /\ session \in [Terms -> {"none", "running", "exited"}]
    /\ desk \in [Terms -> Sizes]
    /\ gate \in SUBSET Terms
    /\ size \in [Terms -> Sizes]
    \* a geometry is kept for the running sessions, and for no others
    /\ \A t \in Terms : desk[t] # NoSize <=> session[t] = "running"

TerminalInit ==
    /\ session = [t \in Terms |-> "none"]
    /\ desk = [t \in Terms |-> NoSize]
    /\ gate = {}
    /\ size = [t \in Terms |-> NoSize]

Running(t) == session[t] = "running"

-----------------------------------------------------------------------------
(* Calls the registry makes (WatchViewportHost).                           *)

GetDesktopGeometry(t) == desk[t]

SetPhoneOwned(v, t) == [v EXCEPT !.gate = @ \cup {t}]

ApplyWatchResize(v, t, cols) ==
    IF Running(t) THEN [v EXCEPT !.size[t] = cols] ELSE v

\* Mutant: the PTY keeps the phone's size.
RestoreKeepingSize(v, t) == [v EXCEPT !.gate = @ \ {t}]

\* Opens the gate and re-applies what the desktop wants NOW, which may have
\* changed while the phone owned the viewport.
RestoreDesktopGeometry(v, t) ==
    LET opened == [v EXCEPT !.gate = @ \ {t}]
    IN  IF desk[t] = NoSize THEN opened
        ELSE ApplyWatchResize(opened, t, desk[t])

-----------------------------------------------------------------------------
(* Calls of the renderer and of the PTY itself, as actions.                *)

\* A PTY is spawned, at the spawn geometry.
Create(t) ==
    /\ session[t] = "none"
    /\ session' = [session EXCEPT ![t] = "running"]
    /\ desk' = [desk EXCEPT ![t] = SpawnSize]
    /\ size' = [size EXCEPT ![t] = SpawnSize]
    /\ UNCHANGED gate

\* The desktop pane was fitted to cols: always recorded, applied only when the
\* phone does not own the viewport.
Resize(t, cols) ==
    /\ Running(t)
    /\ desk' = [desk EXCEPT ![t] = cols]
    /\ size' = IF t \in gate THEN size ELSE [size EXCEPT ![t] = cols]
    /\ UNCHANGED <<session, gate>>

\* Mutant: the leak the code's comment speaks of, the geometry map keeps the
\* dead session.
PtyExitLeaking(t) ==
    /\ Running(t)
    /\ session' = [session EXCEPT ![t] = "exited"]
    /\ gate' = gate \ {t}
    /\ UNCHANGED <<desk, size>>

\* The PTY exits: the service forgets the session in the same task.  (The
\* call it makes to the agent catalog is added by PtyInspect.)
PtyExit(t) ==
    /\ Running(t)
    /\ session' = [session EXCEPT ![t] = "exited"]
    /\ desk' = [desk EXCEPT ![t] = NoSize]
    /\ gate' = gate \ {t}
    /\ UNCHANGED size

-----------------------------------------------------------------------------
(* The registry: the subscription and the watch.                           *)

CONSTANTS Agents,     \* agent ids ((worktree, process) pairs)
          NoAgent,    \* no subscription
          NoWatch,    \* no watch
          Floor,      \* MIN_FLOOR_COLS
          PhoneSizes  \* the columns the phone may ask for

ASSUME FloorAssumption == Floor \in Nat
ASSUME PhoneAssumption == PhoneSizes \subseteq Nat
ASSUME AgentAssumption == NoAgent \notin Agents

Owners == {"phone", "desktop"}

\* WatchState.  debounce and grace say that the timer is armed.
Watches ==
    [agent : Agents, term : Terms, pre : Nat, owner : Owners,
     applied : Sizes, requested : Sizes, pending : Sizes,
     debounce : BOOLEAN, grace : BOOLEAN, force : BOOLEAN]

ASSUME WatchAssumption == NoWatch \notin Watches

\* What the renderer was told of a terminal (WatchStateEvent).
Events == [owned : BOOLEAN, cols : Sizes]
Ended == [owned |-> FALSE, cols |-> NoSize]

VARIABLES active,   \* the agent of the active subscription
          watch,    \* the watch in flight
          emitted,  \* lastEmitted
          pane      \* pane[t]: the last event the pane of t received

registryVars == <<active, watch, emitted, pane>>

RegistryTypeOK ==
    /\ active \in Agents \cup {NoAgent}
    /\ watch \in Watches \cup {NoWatch}
    /\ emitted \in Events
    /\ pane \in [Terms -> Events]

RegistryInit ==
    /\ active = NoAgent
    /\ watch = NoWatch
    /\ emitted = Ended
    /\ pane = [t \in Terms |-> Ended]

Viewport == [gate |-> gate, size |-> size, active |-> active,
             watch |-> watch, emitted |-> emitted, pane |-> pane]

Becomes(v) ==
    /\ gate' = v.gate
    /\ size' = v.size
    /\ active' = v.active
    /\ watch' = v.watch
    /\ emitted' = v.emitted
    /\ pane' = v.pane

-----------------------------------------------------------------------------
(* Events to the renderer.                                                 *)

OwnedEvent(w) ==
    [owned |-> TRUE,
     cols |-> IF w.pending # NoSize THEN w.pending ELSE w.applied]

\* emitWatchOwned: deduplicated against the last event delivered.
EmitWatchOwned(v) ==
    IF OwnedEvent(v.watch) = v.emitted THEN v
    ELSE [v EXCEPT !.emitted = OwnedEvent(v.watch),
                   !.pane[v.watch.term] = OwnedEvent(v.watch)]

\* emitWatchEnded
EmitWatchEnded(v, t) == [v EXCEPT !.emitted = Ended, !.pane[t] = Ended]

-----------------------------------------------------------------------------
(* Watch primitives.                                                       *)

AtLeast(m, n) == IF m < n THEN n ELSE m
AtMost(m, n)  == IF m > n THEN n ELSE m

ClampToPreWatch(pre, cols) == AtMost(AtLeast(cols, Floor), pre)

\* The desktop snapshot a watch starts from.
PreWatch(t) ==
    IF GetDesktopGeometry(t) = NoSize THEN SpawnSize ELSE GetDesktopGeometry(t)

Watching(v, a) == v.watch # NoWatch /\ v.watch.agent = a

\* executeWatchRestore
ExecuteWatchRestore(v) ==
    IF v.watch = NoWatch THEN v
    ELSE EmitWatchEnded(
             RestoreDesktopGeometry([v EXCEPT !.watch = NoWatch], v.watch.term),
             v.watch.term)

\* Mutant: the watch moves without releasing the terminal it leaves.
MigrateLeavingOld(v, t) ==
    LET w == [v.watch EXCEPT !.term = t, !.pre = PreWatch(t), !.applied = NoSize,
                             !.pending = NoSize, !.debounce = FALSE, !.force = FALSE]
    IN  IF w.owner = "phone"
        THEN EmitWatchOwned([SetPhoneOwned(v, t) EXCEPT !.watch = w])
        ELSE [v EXCEPT !.watch = w]

\* migrateWatchToRebound, onto the terminal t the entry was just bound to.
MigrateWatchToRebound(v, t) ==
    LET old == v.watch
        released == EmitWatchEnded(RestoreDesktopGeometry(v, old.term), old.term)
        moved == [old EXCEPT !.term = t, !.pre = PreWatch(t), !.applied = NoSize,
                             !.pending = NoSize, !.debounce = FALSE, !.force = FALSE]
        narrow == ClampToPreWatch(moved.pre, old.requested)
    IN  IF t = old.term THEN ExecuteWatchRestore(v)
        ELSE IF old.owner = "desktop" THEN [released EXCEPT !.watch = moved]
        ELSE IF old.requested = NoSize
        THEN EmitWatchOwned([SetPhoneOwned(released, t) EXCEPT !.watch = moved])
        ELSE EmitWatchOwned(
                 [ApplyWatchResize(SetPhoneOwned(released, t), t, narrow)
                     EXCEPT !.watch = [moved EXCEPT !.applied = narrow]])

\* scheduleWatchGraceRestore: arming an armed timer changes nothing.
ScheduleWatchGraceRestore(v) ==
    IF v.watch = NoWatch THEN v ELSE [v EXCEPT !.watch.grace = TRUE]

\* drop(op)
Drop(v, op) ==
    LET ended == [v EXCEPT !.active = NoAgent]
    IN  IF v.active = NoAgent THEN v
        ELSE IF ~Watching(v, v.active) THEN ended
        ELSE IF op = "teardown" THEN ExecuteWatchRestore(ended)
        ELSE ScheduleWatchGraceRestore(ended)

\* teardown(cause): peer-detach and re-pair.
Teardown(v) == ExecuteWatchRestore(Drop(v, "teardown"))

-----------------------------------------------------------------------------
(* The catalog listener registered by the constructor.                     *)

\* exit-final-hint and disposed
OnSessionGone(v, a) ==
    LET dropped == IF v.active = a THEN Drop(v, "teardown") ELSE v
    IN  IF Watching(dropped, a) THEN ExecuteWatchRestore(dropped) ELSE dropped

\* rebound (the hint and the epoch listener carry no state of this model)
OnRebound(v, a, t) ==
    IF Watching(v, a) THEN MigrateWatchToRebound(v, t) ELSE v

-----------------------------------------------------------------------------
(* Capabilities the phone calls, once the entry was found live.            *)

\* subscribe
SubscribeTo(v, a) == [Drop(v, "replace") EXCEPT !.active = a]

\* unsubscribe; known says that the catalog still has the entry.
UnsubscribeFrom(v, a, known) ==
    IF v.active = a THEN Drop(v, "unsubscribe")
    ELSE IF ~Watching(v, a) THEN v
    ELSE IF known THEN ScheduleWatchGraceRestore(v)
    ELSE ExecuteWatchRestore(v)

NewWatch(a, t) ==
    [agent |-> a, term |-> t, pre |-> PreWatch(t), owner |-> "phone",
     applied |-> NoSize, requested |-> NoSize, pending |-> NoSize,
     debounce |-> FALSE, grace |-> FALSE, force |-> FALSE]

\* Mutant: the watch of another agent is overwritten, not restored.
SetViewportNoSwitch(v, a, t, cols) ==
    LET w == IF Watching(v, a) THEN v.watch ELSE NewWatch(a, t)
        asked == [w EXCEPT !.owner = "phone", !.grace = FALSE, !.requested = cols,
                           !.pending = ClampToPreWatch(w.pre, cols), !.debounce = TRUE]
    IN  EmitWatchOwned([SetPhoneOwned(v, w.term) EXCEPT !.watch = asked])

\* setWatchViewport: agent switch, first call, re-watch within the grace and
\* re-assert after a reclaim, then the trailing debounce.
SetViewport(v, a, t, cols) ==
    LET kept == IF v.watch = NoWatch \/ Watching(v, a) THEN v ELSE ExecuteWatchRestore(v)
        w == IF Watching(kept, a) THEN kept.watch ELSE NewWatch(a, t)
        gated == IF Watching(kept, a) /\ w.owner = "phone" THEN kept
                 ELSE SetPhoneOwned(kept, w.term)
        asked == [w EXCEPT !.owner = "phone", !.grace = FALSE, !.requested = cols,
                           !.pending = ClampToPreWatch(w.pre, cols), !.debounce = TRUE]
    IN  EmitWatchOwned([gated EXCEPT !.watch = asked])

-----------------------------------------------------------------------------
(* Timers.                                                                 *)

\* The trailing debounce fires: the latest geometry is applied, unless it is
\* already on the terminal.
FireDebounce(v) ==
    LET w == v.watch
        quiet == [w EXCEPT !.debounce = FALSE, !.pending = NoSize]
        same == ~w.force /\ w.applied = w.pending
    IN  IF w.pending = NoSize \/ w.owner # "phone" THEN [v EXCEPT !.watch = quiet]
        ELSE IF same THEN [v EXCEPT !.watch = [quiet EXCEPT !.force = FALSE]]
        ELSE [ApplyWatchResize(v, w.term, w.pending)
                 EXCEPT !.watch = [quiet EXCEPT !.force = FALSE, !.applied = w.pending]]

-----------------------------------------------------------------------------
(* Viewer policy: keystrokes and blurs of the desktop.                     *)

\* Mutant: the reclaim forgets that the PTY no longer has the phone's size.
KeystrokeNoForce(v, t) ==
    LET w == v.watch
        reclaimed == [w EXCEPT !.owner = "desktop", !.debounce = FALSE, !.pending = NoSize]
    IN  IF w = NoWatch \/ w.term # t \/ w.owner # "phone" THEN v
        ELSE EmitWatchEnded(RestoreDesktopGeometry([v EXCEPT !.watch = reclaimed], t), t)

\* notifyDesktopKeystroke (pending is set only while the debounce is armed)
NotifyDesktopKeystroke(v, t) ==
    LET w == v.watch
        reclaimed == [w EXCEPT !.owner = "desktop", !.force = TRUE, !.debounce = FALSE,
                               !.pending = IF w.debounce THEN NoSize ELSE @]
    IN  IF w = NoWatch \/ w.term # t \/ w.owner # "phone" THEN v
        ELSE EmitWatchEnded(RestoreDesktopGeometry([v EXCEPT !.watch = reclaimed], t), t)

\* notifyDesktopBlur: the geometry handed back is the last one applied, or the
\* last one asked for when none was.
NotifyDesktopBlur(v, t) ==
    LET w == v.watch
        target == IF w.applied # NoSize THEN w.applied
                  ELSE IF w.requested # NoSize THEN ClampToPreWatch(w.pre, w.requested)
                  ELSE NoSize
        owned == [w EXCEPT !.owner = "phone"]
        narrowed == [owned EXCEPT !.applied = target, !.force = FALSE]
    IN  IF w = NoWatch \/ w.term # t \/ w.owner # "desktop" \/ v.active # w.agent THEN v
        ELSE IF target = NoSize
        THEN EmitWatchOwned([SetPhoneOwned(v, t) EXCEPT !.watch = owned])
        ELSE EmitWatchOwned([ApplyWatchResize(SetPhoneOwned(v, t), t, target)
                                EXCEPT !.watch = narrowed])
=============================================================================
