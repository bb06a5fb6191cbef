------------------------------ MODULE PtyInspect ------------------------------
(***************************************************************************)
(* services/pty-inspect: the agent catalog (agent-pty-catalog.ts), the     *)
(* subscription registry and the terminal service, as pty-inspect-service  *)
(* and electron/main/ipc.ts compose them, with the paired phone, the       *)
(* desktop renderer and the PTYs around them.                              *)
(*                                                                         *)
(* The main process runs JavaScript: a handler runs to completion, so an   *)
(* action is one event-loop task with every call it makes into the other   *)
(* components.  Tasks split where the code awaits (a terminal exit waits   *)
(* for its mirror to drain) or arms a timer (debounce, grace, intent).     *)
(***************************************************************************)
EXTENDS PtySubscriptionRegistry

CONSTANTS AgentOf,         \* the agent a terminal is created for
          NoEntry,         \* no catalog entry
          RestartOverlap,  \* may a restart be announced while another one is pending
          StalePublish     \* may a publication sent before the renderer learned of an
                           \* exit arrive after it

ASSUME AgentOfAssumption == AgentOf \in [Terms -> Agents]
ASSUME FlagAssumption == RestartOverlap \in BOOLEAN /\ StalePublish \in BOOLEAN

\* An entry's rebind intent: none, announced, or announced and holding back the
\* exit of the terminal that is being replaced (deferredExit).
Intents == {"none", "armed", "deferred"}
Entries == [term : Terms, live : BOOLEAN, intent : Intents]

ASSUME EntryAssumption == NoEntry \notin Entries

VARIABLES entries,  \* entries[a]: the catalog entry of agent a
          drains,   \* drains[t]: the exit of t waits for its mirror to drain, on
                    \* behalf of an entry in the catalog or of a removed one
          told,     \* exits the renderer knew of when it last published
          paired,   \* is a peer attached (a device is paired)
          online,   \* is a socket to the phone open
          stopped   \* was the phone's last word on the watched agent a stop

catalogVars == <<entries, drains, told>>
phoneVars == <<paired, online, stopped>>
vars == <<terminalVars, registryVars, catalogVars, phoneVars>>

TypeOK ==
    /\ TerminalTypeOK
    /\ RegistryTypeOK
    /\ entries \in [Agents -> Entries \cup {NoEntry}]
    /\ drains \in [Terms -> {"none", "bound", "orphan"}]
    /\ told \in SUBSET Terms
    /\ paired \in BOOLEAN
    /\ online \in BOOLEAN
    /\ stopped \in BOOLEAN

Init ==
    /\ TerminalInit
    /\ RegistryInit
    /\ entries = [a \in Agents |-> NoEntry]
    /\ drains = [t \in Terms |-> "none"]
    /\ told = {}
    /\ paired \in BOOLEAN
    /\ online = FALSE
    /\ stopped = FALSE

Known(a) == entries[a] # NoEntry
Bound(a, t) == Known(a) /\ entries[a].term = t

-----------------------------------------------------------------------------
(* The PTYs.                                                               *)

CreateTerminal(t) ==
    /\ \A u \in Terms : AgentOf[u] = AgentOf[t] /\ u < t => session[u] # "none"
    /\ Create(t)
    /\ UNCHANGED <<registryVars, catalogVars, phoneVars>>

\* The exit of a terminal that an entry is bound to is published only after its
\* mirror has drained; any other exit is stale.
ExitTerminal(t) ==
    /\ PtyExit(t)
    /\ drains' = IF \E a \in Agents : Bound(a, t)
                 THEN [drains EXCEPT ![t] = "bound"] ELSE drains
    /\ UNCHANGED <<registryVars, entries, told, phoneVars>>

\* publishExit
PublishExit(a) ==
    IF entries[a].live
    THEN /\ entries' = [entries EXCEPT ![a].live = FALSE, ![a].intent = "none"]
         /\ Becomes(OnSessionGone(Viewport, a))
    ELSE /\ entries' = [entries EXCEPT ![a].intent = "none"]
         /\ UNCHANGED <<gate, size, registryVars>>

\* The rest of handleTerminalExit, after the drain, when the entry it found is
\* still in the catalog and still bound to t: held back by an intent, or
\* published.
DrainedBound(t) ==
    /\ drains[t] = "bound"
    /\ \E a \in Agents :
          /\ Bound(a, t)
          /\ \/ /\ entries[a].intent # "none"
                /\ entries' = [entries EXCEPT ![a].intent = "deferred"]
                /\ UNCHANGED <<gate, size, registryVars>>
             \/ /\ entries[a].intent = "none"
                /\ PublishExit(a)
    /\ drains' = [drains EXCEPT ![t] = "none"]
    /\ UNCHANGED <<session, desk, told, phoneVars>>

\* ... when the entry was rebound to another terminal meanwhile.
DrainedRebound(t) ==
    /\ drains[t] = "bound"
    /\ ~ \E a \in Agents : Bound(a, t)
    /\ drains' = [drains EXCEPT ![t] = "none"]
    /\ UNCHANGED <<terminalVars, registryVars, entries, told, phoneVars>>

\* ... when the entry was removed meanwhile: the closure still holds the removed
\* entry, live and without an intent, and publishes its exit under its agent.
DrainedOrphan(t) ==
    /\ drains[t] = "orphan"
    /\ drains' = [drains EXCEPT ![t] = "none"]
    /\ Becomes(OnSessionGone(Viewport, AgentOf[t]))
    /\ UNCHANGED <<session, desk, entries, told, phoneVars>>

-----------------------------------------------------------------------------
(* The bridge from the renderer to the catalog (the agentPtys calls).      *)

\* upsert of an agent the catalog does not know: admitted only while the
\* service still has a mirror to hand over.
Admit(t, live) ==
    LET a == AgentOf[t] IN
    /\ ~Known(a)
    /\ Running(t)
    /\ entries' = [entries EXCEPT ![a] = [term |-> t, live |-> live, intent |-> "none"]]
    /\ UNCHANGED <<terminalVars, registryVars, drains, told, phoneVars>>

\* upsert with a replacement terminal: an atomic rebind, which resolves the
\* intent and drops the exit it may hold back.
Rebind(t) ==
    LET a == AgentOf[t] IN
    /\ Known(a)
    /\ entries[a].term < t
    /\ Running(t)
    /\ entries' = [entries EXCEPT ![a] = [term |-> t, live |-> TRUE, intent |-> "none"]]
    /\ Becomes(OnRebound(Viewport, a, t))
    /\ UNCHANGED <<session, desk, drains, told, phoneVars>>

\* upsert of the terminal the entry has: a running status makes it live.  The
\* renderer may have sent it before it learned that the terminal exited.
Republish(a) ==
    /\ Known(a)
    /\ ~entries[a].live
    /\ \/ Running(entries[a].term)
       \/ StalePublish /\ entries[a].term \notin told
    /\ entries' = [entries EXCEPT ![a].live = TRUE]
    /\ UNCHANGED <<terminalVars, registryVars, drains, told, phoneVars>>

\* The renderer processes the exit of t: what it publishes from here on knows.
RendererLearns(t) ==
    /\ StalePublish
    /\ session[t] = "exited"
    /\ t \notin told
    /\ told' = told \cup {t}
    /\ UNCHANGED <<terminalVars, registryVars, entries, drains, phoneVars>>

\* remove: the renderer closed the process.
Remove(a) ==
    /\ Known(a)
    /\ entries' = [entries EXCEPT ![a] = NoEntry]
    /\ drains' = [t \in Terms |->
                     IF drains[t] # "bound" \/ ~Bound(a, t) THEN drains[t]
                     ELSE IF entries[a].live /\ entries[a].intent = "none"
                     THEN "orphan" ELSE "none"]
    /\ Becomes(OnSessionGone(Viewport, a))
    /\ UNCHANGED <<session, desk, told, phoneVars>>

\* rebindIntent: the renderer is about to restart the agent.  Arming it again
\* starts a fresh intent.
RebindIntent(a) ==
    /\ Known(a)
    /\ RestartOverlap \/ entries[a].intent = "none"
    /\ entries' = [entries EXCEPT ![a].intent = "armed"]
    /\ UNCHANGED <<terminalVars, registryVars, drains, told, phoneVars>>

\* Mutant: an intent that holds back an exit has lost its timer.
ReleaseArmedOnly(a) ==
    /\ Known(a)
    /\ entries[a].intent = "armed"
    /\ entries' = [entries EXCEPT ![a].intent = "none"]
    /\ UNCHANGED <<terminalVars, registryVars, drains, told, phoneVars>>

\* expireIntent: the restart failed (rebindCancel), or the intent's timer fired.
ReleaseIntent(a) ==
    /\ Known(a)
    /\ entries[a].intent # "none"
    /\ IF entries[a].intent = "deferred" THEN PublishExit(a)
       ELSE /\ entries' = [entries EXCEPT ![a].intent = "none"]
            /\ UNCHANGED <<gate, size, registryVars>>
    /\ UNCHANGED <<session, desk, drains, told, phoneVars>>

-----------------------------------------------------------------------------
(* The phone.                                                              *)

Reachable == paired /\ online

Subscribe(a) ==
    /\ Reachable
    /\ Known(a) /\ entries[a].live
    /\ Becomes(SubscribeTo(Viewport, a))
    /\ UNCHANGED <<session, desk, catalogVars, phoneVars>>

Unsubscribe(a) ==
    /\ Reachable
    /\ Becomes(UnsubscribeFrom(Viewport, a, Known(a)))
    /\ stopped' = (stopped \/ Watching(Viewport, a))
    /\ UNCHANGED <<session, desk, catalogVars, paired, online>>

SetWatchViewport(a, cols) ==
    /\ Reachable
    /\ Known(a) /\ entries[a].live
    /\ Becomes(SetViewport(Viewport, a, entries[a].term, cols))
    /\ stopped' = FALSE
    /\ UNCHANGED <<session, desk, catalogVars, paired, online>>

\* A socket opens or closes: the peer session is not told (attachable-transport).
SocketOpens ==
    /\ ~online
    /\ online' = TRUE
    /\ UNCHANGED <<terminalVars, registryVars, catalogVars, paired, stopped>>

SocketCloses ==
    /\ online
    /\ online' = FALSE
    /\ UNCHANGED <<terminalVars, registryVars, catalogVars, paired, stopped>>

\* The device is forgotten or the bridge stops: detach("peer-detach").
Detach ==
    /\ paired
    /\ paired' = FALSE
    /\ Becomes(Teardown(Viewport))
    /\ UNCHANGED <<session, desk, catalogVars, online, stopped>>

\* A pairing is confirmed: attach, which detaches a live peer first ("re-pair").
Attach ==
    /\ paired' = TRUE
    /\ IF paired THEN Becomes(Teardown(Viewport)) ELSE UNCHANGED <<gate, size, registryVars>>
    /\ UNCHANGED <<session, desk, catalogVars, online, stopped>>

-----------------------------------------------------------------------------
(* The desktop.                                                            *)

DesktopFit(t, cols) ==
    /\ Resize(t, cols)
    /\ UNCHANGED <<registryVars, catalogVars, phoneVars>>

\* terminals:sendInput throws before the notification when the session is gone.
Keystroke(t) ==
    /\ Running(t)
    /\ Becomes(NotifyDesktopKeystroke(Viewport, t))
    /\ UNCHANGED <<session, desk, catalogVars, phoneVars>>

PaneBlur(t) ==
    /\ session[t] # "none"
    /\ Becomes(NotifyDesktopBlur(Viewport, t))
    /\ UNCHANGED <<session, desk, catalogVars, phoneVars>>

\* notifyAppBlur
AppBlur ==
    /\ watch # NoWatch /\ watch.owner = "desktop"
    /\ Becomes(NotifyDesktopBlur(Viewport, watch.term))
    /\ UNCHANGED <<session, desk, catalogVars, phoneVars>>

-----------------------------------------------------------------------------
(* Timers.                                                                 *)

DebounceFires ==
    /\ watch # NoWatch /\ watch.debounce
    /\ Becomes(FireDebounce(Viewport))
    /\ UNCHANGED <<session, desk, catalogVars, phoneVars>>

GraceFires ==
    /\ watch # NoWatch /\ watch.grace
    /\ Becomes(ExecuteWatchRestore(Viewport))
    /\ UNCHANGED <<session, desk, catalogVars, phoneVars>>

-----------------------------------------------------------------------------
TerminalStep(t) ==
    \/ CreateTerminal(t)
    \/ ExitTerminal(t)
    \/ DrainedBound(t)
    \/ DrainedRebound(t)
    \/ DrainedOrphan(t)
    \/ \E live \in BOOLEAN : Admit(t, live)
    \/ Rebind(t)
    \/ RendererLearns(t)
    \/ \E cols \in DesktopSizes : DesktopFit(t, cols)
    \/ Keystroke(t)
    \/ PaneBlur(t)

AgentStep(a) ==
    \/ Republish(a)
    \/ Remove(a)
    \/ RebindIntent(a)
    \/ ReleaseIntent(a)
    \/ Subscribe(a)
    \/ Unsubscribe(a)
    \/ \E cols \in PhoneSizes : SetWatchViewport(a, cols)

HostStep ==
    \/ SocketOpens
    \/ SocketCloses
    \/ Detach
    \/ Attach
    \/ AppBlur
    \/ DebounceFires
    \/ GraceFires

Next ==
    \/ \E t \in Terms : TerminalStep(t)
    \/ \E a \in Agents : AgentStep(a)
    \/ HostStep

Spec == Init /\ [][Next]_vars

\* Timers fire and mirrors drain; nothing else has to happen.
Fairness ==
    /\ WF_vars(DebounceFires)
    /\ WF_vars(GraceFires)
    /\ \A t \in Terms : WF_vars(DrainedBound(t) \/ DrainedRebound(t) \/ DrainedOrphan(t))
    /\ \A a \in Agents : WF_vars(ReleaseIntent(a))

FairSpec == Spec /\ Fairness

-----------------------------------------------------------------------------
(* Safety.                                                                 *)

PhoneOwns(t) == watch # NoWatch /\ watch.term = t /\ watch.owner = "phone"

(* The desktop's auto-fit is suspended for a running terminal exactly while
   the phone owns it through the watch in flight: no gate is left closed on
   a replaced, removed or unwatched terminal (it would never be fitted
   again), and none is open while the phone drives the size.               *)
GateFollowsWatch ==
    /\ \A t \in gate : PhoneOwns(t)
    /\ \A t \in Terms : PhoneOwns(t) /\ Running(t) => t \in gate

(* A terminal the phone does not own has the size its desktop pane wants
   now, through every reclaim, restore, rebind, agent switch and grace.    *)
DesktopSizeRestored ==
    \A t \in Terms : Running(t) /\ t \notin gate => size[t] = desk[t]

(* The registry's idea of the applied size (which decides whether the next
   request is skipped as a repetition) is the real one, and it lies between
   the floor and the desktop snapshot of the watch.                        *)
AppliedIsReal ==
    watch # NoWatch /\ watch.applied # NoSize =>
       /\ AtMost(Floor, watch.pre) <= watch.applied
       /\ watch.applied <= watch.pre
       /\ watch.owner = "phone" /\ ~watch.force /\ Running(watch.term) =>
              size[watch.term] = watch.applied

(* The watch in flight is that of a live catalog entry and of the terminal
   it is bound to: it ends or moves with every exit, removal and rebind,
   whether or not the phone is still subscribed.  The subscription ends with
   its entry too, and nothing is held for a phone that is not attached.     *)
WatchFollowsEntry ==
    /\ watch # NoWatch =>
          Bound(watch.agent, watch.term) /\ entries[watch.agent].live /\ paired
    /\ active # NoAgent => Known(active) /\ entries[active].live /\ paired

(* Every pane shows what is true of its terminal: frozen for the phone, at
   the size being applied, or its own; the deduplication of events never
   swallows one that matters.                                              *)
PaneShowsOwner ==
    \A t \in Terms :
       pane[t] = IF PhoneOwns(t) THEN OwnedEvent(watch) ELSE Ended

(* The watch in flight is honest: with the terminal, with the catalog and with
   the pane.                                                               *)
ViewportIsHonest == AppliedIsReal /\ WatchFollowsEntry /\ PaneShowsOwner

(* Once the phone's last word on the watched agent is a stop, the restore is
   scheduled: nothing the desktop, the catalog or a replaced subscription
   does afterwards may cancel it.                                          *)
StoppedWatchIsGraced == stopped /\ watch # NoWatch => watch.grace

(* A live entry whose terminal has exited has its exit on the way: still
   draining, or held back by a pending restart.                            *)
LiveIsHonest ==
    \A a \in Agents : Known(a) /\ entries[a].live =>
       \/ Running(entries[a].term)
       \/ drains[entries[a].term] = "bound"
       \/ entries[a].intent # "none"

(* What was promised is on its way: the restore of a watch that was stopped and,
   where restarts do not overlap, the exit of a terminal that is gone.      *)
OnItsWay == StoppedWatchIsGraced /\ LiveIsHonest

-----------------------------------------------------------------------------
(* Liveness.                                                               *)

(* A stop from the phone gives the terminal back, unless the phone asks for
   it again.                                                               *)
StopReleases == stopped /\ watch # NoWatch ~> watch = NoWatch \/ ~stopped

(* The exit of the terminal of a live entry is published, or the entry is
   rebound or removed.                                                     *)
ExitIsPublished ==
    \A t \in Terms :
       LET dead == Bound(AgentOf[t], t) /\ entries[AgentOf[t]].live /\ session[t] = "exited"
       IN  dead ~> ~dead

(* What was promised stays on its way, and arrives: the phone's stop and the
   terminal's exit.                                                         *)
PromisesAreKept == []OnItsWay /\ StopReleases /\ ExitIsPublished

-----------------------------------------------------------------------------
(* Implementation of the abstract specification.                           *)

Ownership ==
    INSTANCE ViewportOwnership WITH
        Absent <- NoSize,
        owner <- [t \in Terms |-> IF ~Running(t) THEN "nobody"
                                  ELSE IF t \in gate THEN "phone" ELSE "desktop"],
        want <- [t \in Terms |-> IF Running(t) THEN desk[t] ELSE NoSize],
        got <- [t \in Terms |-> IF Running(t) THEN size[t] ELSE NoSize]

ImplementsOwnership == Ownership!Spec
=============================================================================
