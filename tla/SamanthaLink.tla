------------------------------ MODULE SamanthaLink ------------------------------
(***************************************************************************)
(* services/plugins/samantha: samantha-driver.ts with the HTTP client and  *)
(* the reconnect of samantha-command-client.ts.                            *)
(*                                                                         *)
(* A rebuild is one asynchronous function that runs at most once at a      *)
(* time; `pc` names what it awaits.  Samantha answers a request in the     *)
(* step in which the answer is taken; a request that is refused or fails   *)
(* is one that meets her down.  The delays are left out: a timer is a flag *)
(* that may fire.  Worlds stand for what one rebuild gathers, Speech for   *)
(* the ones whose signal is worth an event.                                *)
(***************************************************************************)
EXTENDS Naturals, FiniteSets

CONSTANTS Worlds,       \* what the taps can show: a snapshot and a signal
          Speech,       \* those with a speech-worthy signal
          Nothing,      \* null
          Conns,        \* WebSockets
          MaxTrouble,   \* bound: starts and stops, and crashes of Samantha
          StopBusy,     \* may the plugin be stopped while a rebuild runs
          EarlyClick    \* may Reconnect be clicked before the first registration

ASSUME SpeechAssumption == Speech \subseteq Worlds /\ Nothing \notin Worlds \cup Conns
ASSUME SwitchAssumption == {StopBusy, EarlyClick} \subseteq BOOLEAN /\ MaxTrouble \in Nat

VARIABLES drv,       \* the driver's variables
          cl,        \* the command client's
          wire,      \* the WebSockets, as the two ends see them
          samantha,  \* Samantha's connector: is it up, does it know ai-14all, what it was sent
          world,     \* what a rebuild would gather now
          trouble

linkVars == <<drv, cl, wire, samantha, world, trouble>>

Awaited == {"idle", "register", "gather", "patch", "reregister", "repatch",
            "post", "postregister", "postpatch"}
Healths == {"off", "connecting", "connected", "reconnecting"}
Update == "update"
Signals == Speech \cup {Update}
Signal(w) == IF w \in Speech THEN w ELSE Update
Quiet == [stopped |-> TRUE, stopping |-> FALSE, registered |-> FALSE, health |-> "off",
          body |-> Nothing, signal |-> Nothing, force |-> FALSE, rerun |-> FALSE,
          debounce |-> FALSE, retry |-> FALSE, pc |-> "idle", forced |-> FALSE, out |-> Nothing]

Drivers == [stopped : BOOLEAN, stopping : BOOLEAN, registered : BOOLEAN, health : Healths,
            body : Worlds \cup {Nothing}, signal : Signals \cup {Nothing},
            force : BOOLEAN, rerun : BOOLEAN, debounce : BOOLEAN, retry : BOOLEAN,
            pc : Awaited, forced : BOOLEAN, out : Worlds \cup {Nothing}]

LinkTypeOK ==
    /\ drv \in Drivers
    /\ cl \in [socket : Conns \cup {Nothing}, opened : BOOLEAN, closedByUs : BOOLEAN, timer : BOOLEAN]
    /\ wire \in [Conns -> {"unused", "connecting", "open", "closing"}]
    /\ samantha \in [up : BOOLEAN, known : BOOLEAN, snapshot : Worlds \cup {Nothing},
                     heard : Speech \cup {Nothing}, early : BOOLEAN]
    /\ world \in Worlds /\ trouble \in 0..MaxTrouble
    \* an open client has a socket, and what a rebuild gathered is kept only while it runs
    /\ cl.opened => cl.socket # Nothing
    /\ drv.out # Nothing => drv.pc \notin {"idle", "register", "gather"}

LinkInit ==
    /\ drv = Quiet
    /\ cl = [socket |-> Nothing, opened |-> FALSE, closedByUs |-> FALSE, timer |-> FALSE]
    /\ wire = [c \in Conns |-> "unused"]
    /\ samantha \in {[up |-> u, known |-> FALSE, snapshot |-> Nothing,
                      heard |-> Nothing, early |-> FALSE] : u \in BOOLEAN}
    /\ world \in Worlds
    /\ trouble = 0

-----------------------------------------------------------------------------
(* The command client.                                                     *)

\* A new socket replaces none: open() is idempotent.
OpenSocket ==
    IF cl.socket # Nothing THEN UNCHANGED <<cl, wire>>
    ELSE \E c \in Conns :
           /\ wire[c] = "unused"
           /\ cl' = [cl EXCEPT !.socket = c, !.opened = FALSE, !.closedByUs = FALSE]
           /\ wire' = [wire EXCEPT ![c] = "connecting"]

Dropped(s) == [c \in Conns |-> IF c = s THEN "closing" ELSE wire[c]]

\* Mutant: close() leaves the open flag.
CloseClientStaysOpen ==
    /\ cl' = [cl EXCEPT !.socket = Nothing, !.closedByUs = TRUE, !.timer = FALSE]
    /\ wire' = Dropped(cl.socket)

CloseClient ==
    /\ cl' = [socket |-> Nothing, opened |-> FALSE, closedByUs |-> TRUE, timer |-> FALSE]
    /\ wire' = Dropped(cl.socket)

\* reconnectNow: a socket that is not open is discarded for a fresh one.
ReopenClient ==
    CASE cl.closedByUs -> UNCHANGED <<cl, wire>>
      [] cl.opened /\ ~cl.closedByUs -> cl' = [cl EXCEPT !.timer = FALSE] /\ UNCHANGED wire
      [] OTHER -> \E c \in Conns :
            /\ wire[c] = "unused"
            /\ cl' = [cl EXCEPT !.socket = c, !.timer = FALSE]
            /\ wire' = [Dropped(cl.socket) EXCEPT ![c] = "connecting"]

\* onStatus sets the health of a driver that is not stopped.
Status(h) == drv' = IF drv.stopped THEN drv ELSE [drv EXCEPT !.health = h]

SocketOpens(c) ==
    /\ wire[c] = "connecting" /\ samantha.up
    /\ wire' = [wire EXCEPT ![c] = "open"]
    /\ IF cl.socket = c
       THEN cl' = [cl EXCEPT !.opened = TRUE] /\ Status("connected")
       ELSE UNCHANGED <<cl, drv>>
    /\ UNCHANGED <<samantha, world, trouble>>

\* A socket that is closing goes; a live one goes with Samantha or the registration.
SocketCloses(c) ==
    /\ wire[c] # "unused"
    /\ wire[c] = "closing" \/ ~samantha.up \/ ~samantha.known
    /\ wire' = [wire EXCEPT ![c] = "unused"]
    /\ IF cl.socket = c
       THEN /\ cl' = [cl EXCEPT !.socket = Nothing, !.opened = FALSE, !.timer = TRUE]
            /\ Status("reconnecting")
       ELSE UNCHANGED <<cl, drv>>
    /\ UNCHANGED <<samantha, world, trouble>>

SocketRetry ==
    /\ cl.timer
    /\ \E c \in Conns :
         /\ wire[c] = "unused"
         /\ cl' = [cl EXCEPT !.timer = FALSE, !.socket = c, !.closedByUs = FALSE]
         /\ wire' = [wire EXCEPT ![c] = "connecting"]
    /\ UNCHANGED <<drv, samantha, world, trouble>>

-----------------------------------------------------------------------------
(* The driver.                                                             *)

\* setRegistered opens or closes the command plane when the flag changes.
PlaneFollows ==
    IF drv'.registered = drv.registered THEN UNCHANGED <<cl, wire>>
    ELSE IF drv'.registered THEN OpenSocket ELSE CloseClient

Driver(d) ==
    /\ drv' = d
    /\ PlaneFollows
    /\ UNCHANGED <<world, trouble>>

Rebuild(d, f) == IF d.stopped THEN d ELSE [d EXCEPT !.force = @ \/ f, !.debounce = TRUE]
Retry(d) == IF d.stopped \/ d.retry THEN d ELSE [d EXCEPT !.retry = TRUE, !.health = "reconnecting"]

\* One pass of the do-loop of runRebuild begins.
Pass(d) ==
    [d EXCEPT !.rerun = FALSE, !.force = FALSE, !.forced = d.force, !.out = Nothing,
              !.pc = IF d.stopped THEN "idle" ELSE IF d.registered THEN "gather" ELSE "register"]

\* A pass is over; a forced one that sent no snapshot stays owed.
Over(d, patched) ==
    LET e == [d EXCEPT !.force = @ \/ (d.forced /\ ~patched)] IN
    IF e.rerun /\ ~e.stopped THEN Pass(e)
    ELSE [e EXCEPT !.pc = "idle", !.forced = FALSE, !.out = Nothing]

DebounceTimer ==
    /\ drv.debounce
    /\ Driver(IF drv.pc # "idle" THEN [drv EXCEPT !.debounce = FALSE, !.rerun = TRUE]
              ELSE Pass([drv EXCEPT !.debounce = FALSE]))
    /\ UNCHANGED samantha

RetryTimer ==
    /\ drv.retry
    /\ Driver(Rebuild([drv EXCEPT !.retry = FALSE], FALSE))
    /\ UNCHANGED samantha

\* What ensureRegistered does with the answer; a conflict counts as a success.
Known(d) == [d EXCEPT !.registered = TRUE, !.body = Nothing, !.health = "connected"]
Unknown(d) == [d EXCEPT !.registered = FALSE, !.health = "off"]
Registers == samantha' = IF samantha.known THEN samantha
                         ELSE [samantha EXCEPT !.known = TRUE, !.snapshot = Nothing]

Await(d, pc) == [d EXCEPT !.pc = pc]

Registered ==
    /\ drv.pc = "register"
    /\ IF samantha.up THEN Driver(Await(Known(drv), "gather")) /\ Registers
       ELSE Driver(Over(Retry(Unknown(drv)), FALSE)) /\ UNCHANGED samantha

\* After a snapshot that was taken: the event, if there is one.
Events(d) ==
    IF Signal(d.out) # d.signal /\ d.out \in Speech THEN Await(d, "post")
    ELSE Over([d EXCEPT !.signal = Signal(d.out)], TRUE)

\* The taps were read: a snapshot goes out when it differs or is forced, else the events.
Gathered ==
    /\ drv.pc = "gather"
    /\ LET d == [drv EXCEPT !.out = world] IN
       Driver(IF drv.forced \/ world # drv.body THEN Await(d, "patch") ELSE Events(d))
    /\ UNCHANGED samantha

\* A tap threw: the pass is over, and nothing is scheduled.
TapThrows ==
    /\ drv.pc = "gather" /\ trouble < MaxTrouble
    /\ drv' = Over(drv, FALSE)
    /\ trouble' = trouble + 1
    /\ UNCHANGED <<cl, wire, samantha, world>>

Taken(d) == [d EXCEPT !.body = d.out, !.health = "connected"]
Unsent(d) == Over(Retry([d EXCEPT !.registered = FALSE]), FALSE)
Takes == samantha' = [samantha EXCEPT !.snapshot = drv.out]

Patched ==
    /\ drv.pc = "patch"
    /\ CASE samantha.up /\ samantha.known -> Driver(Events(Taken(drv))) /\ Takes
         [] ~samantha.up -> Driver(Unsent(drv)) /\ UNCHANGED samantha
         [] OTHER -> /\ Driver(IF drv.stopped THEN Unsent(drv)
                               ELSE Await([drv EXCEPT !.registered = FALSE], "reregister"))
                     /\ UNCHANGED samantha

Reregistered ==
    /\ drv.pc = "reregister"
    /\ IF samantha.up THEN Driver(Await(Known(drv), "repatch")) /\ Registers
       ELSE Driver(Unsent(Unknown(drv))) /\ UNCHANGED samantha

Repatched ==
    /\ drv.pc = "repatch"
    /\ IF samantha.up /\ samantha.known THEN Driver(Events(Taken(drv))) /\ Takes
       ELSE Driver(Unsent(drv)) /\ UNCHANGED samantha

\* Mutant: the signal is taken as told before the answer is looked at.
PostedOrNot ==
    /\ drv.pc = "post"
    /\ LET told == [drv EXCEPT !.signal = Signal(drv.out)] IN
       IF samantha.up /\ samantha.known
       THEN /\ Driver(Over(told, TRUE))
            /\ samantha' = [samantha EXCEPT !.heard = drv.out,
                                            !.early = samantha.snapshot = Nothing]
       ELSE Driver(Over(Retry([told EXCEPT !.registered = FALSE]), TRUE)) /\ UNCHANGED samantha

\* An event that was not taken is sent again by a later pass: `signal` stays.
Posted ==
    /\ drv.pc = "post"
    /\ LET gone == [drv EXCEPT !.registered = FALSE] IN
       CASE samantha.up /\ samantha.known ->
              /\ Driver(Over([drv EXCEPT !.signal = Signal(drv.out)], TRUE))
              /\ samantha' = [samantha EXCEPT !.heard = drv.out,
                                              !.early = samantha.snapshot = Nothing]
         [] ~samantha.up -> Driver(Over(Retry(gone), TRUE)) /\ UNCHANGED samantha
         [] OTHER -> /\ Driver(IF drv.stopped THEN Over(Rebuild(gone, FALSE), TRUE)
                               ELSE Await(gone, "postregister"))
                     /\ UNCHANGED samantha

PostRegistered ==
    /\ drv.pc = "postregister"
    /\ IF samantha.up THEN Driver(Await(Known(drv), "postpatch")) /\ Registers
       ELSE Driver(Over(Rebuild(Unknown(drv), FALSE), TRUE)) /\ UNCHANGED samantha

PostPatched ==
    /\ drv.pc = "postpatch"
    /\ IF samantha.up /\ samantha.known
       THEN Driver(Over(Rebuild(Taken(drv), FALSE), TRUE)) /\ Takes
       ELSE Driver(Over(Rebuild(drv, FALSE), TRUE)) /\ UNCHANGED samantha

-----------------------------------------------------------------------------
(* Triggers.                                                               *)

\* The registry starts and stops the driver one at a time; stop() awaits the unregister.
StartDriver ==
    /\ drv.stopped /\ ~drv.stopping /\ trouble < MaxTrouble
    /\ trouble' = trouble + 1
    /\ drv' = [drv EXCEPT !.stopped = FALSE, !.registered = FALSE, !.body = Nothing,
                          !.signal = Nothing, !.force = FALSE, !.health = "connecting",
                          !.debounce = TRUE]
    /\ PlaneFollows
    /\ UNCHANGED <<samantha, world>>

StopDriver ==
    /\ ~drv.stopped
    /\ StopBusy \/ drv.pc = "idle"
    /\ LET d == [drv EXCEPT !.stopped = TRUE, !.debounce = FALSE, !.retry = FALSE]
       IN Driver(IF drv.registered THEN [d EXCEPT !.stopping = TRUE]
                 ELSE [d EXCEPT !.health = "off"])
    /\ UNCHANGED samantha

Unregistered ==
    /\ drv.stopping
    /\ Driver([drv EXCEPT !.stopping = FALSE, !.registered = FALSE, !.health = "off"])
    /\ samantha' = IF samantha.up THEN [samantha EXCEPT !.known = FALSE] ELSE samantha

\* Reviews, worktrees or the session slice changed; the document changes with them.
Change(w) ==
    /\ world' = w
    /\ drv' = Rebuild(drv, FALSE)
    /\ UNCHANGED <<cl, wire, samantha, trouble>>

KeepAlive ==
    /\ ~drv.stopped
    /\ Driver(Rebuild(drv, TRUE))
    /\ UNCHANGED samantha

ReconnectNow ==
    /\ ~drv.stopped
    /\ ~(drv.registered /\ cl.opened)
    /\ EarlyClick \/ drv.registered
    /\ drv' = [drv EXCEPT !.retry = FALSE, !.health = "connecting", !.force = TRUE, !.debounce = TRUE]
    /\ ReopenClient
    /\ UNCHANGED <<samantha, world, trouble>>

SamanthaDies ==
    /\ samantha.up /\ trouble < MaxTrouble
    /\ samantha' = [samantha EXCEPT !.up = FALSE, !.known = FALSE, !.snapshot = Nothing]
    /\ trouble' = trouble + 1
    /\ UNCHANGED <<drv, cl, wire, world>>

SamanthaStarts ==
    /\ ~samantha.up
    /\ samantha' = [samantha EXCEPT !.up = TRUE]
    /\ UNCHANGED <<drv, cl, wire, world, trouble>>

Answer == Registered \/ Gathered \/ Patched \/ Reregistered \/ Repatched
          \/ Posted \/ PostRegistered \/ PostPatched \/ Unregistered

LinkNext ==
    \/ \E c \in Conns : SocketOpens(c) \/ SocketCloses(c)
    \/ SocketRetry
    \/ DebounceTimer \/ RetryTimer
    \/ Answer \/ TapThrows
    \/ StartDriver \/ StopDriver \/ ReconnectNow \/ KeepAlive
    \/ \E w \in Worlds \ {world} : Change(w)
    \/ SamanthaDies \/ SamanthaStarts

=============================================================================
