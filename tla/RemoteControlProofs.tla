--------------------------- MODULE RemoteControlProofs ---------------------------
(***************************************************************************)
(* Proofs about RemoteControl: the link to Samantha and the commands and   *)
(* requests that act from afar, for any worlds, sockets, commands,         *)
(* requests, grants and bounds.  The link's invariant says what a driver   *)
(* that sends has gathered, and that one which holds a body of this        *)
(* registration has shown it; the commands' relates a command's place in   *)
(* the cache to what it did and to what was written of it.                 *)
(***************************************************************************)
EXTENDS RemoteControl, SequenceTheorems, TLAPS

-----------------------------------------------------------------------------
(* The link to Samantha.                                                   *)

\* What a rebuild has gathered while it sends, and that it speaks only of what is worth it.
Sending == {"patch", "reregister", "repatch", "post", "postregister", "postpatch"}
Resting == {"idle", "register", "gather"}

DriverOK(d) ==
    /\ d \in Drivers
    /\ d.out # Nothing => d.pc \notin Resting
    /\ d.pc \in Sending => d.out \in Worlds
    /\ d.pc = "post" => d.out \in Speech

Clients == [socket : Conns \cup {Nothing}, opened : BOOLEAN, closedByUs : BOOLEAN, timer : BOOLEAN]
Wires == [Conns -> {"unused", "connecting", "open", "closing"}]
Connectors == [up : BOOLEAN, known : BOOLEAN, snapshot : Worlds \cup {Nothing},
               heard : Speech \cup {Nothing}, early : BOOLEAN]

\* Whoever holds a body of this registration, or posts, has patched: s knows a snapshot.
Shown(d, s) == s.known /\ (d.body # Nothing \/ d.pc = "post") => s.snapshot # Nothing

ClientOK == cl \in Clients /\ wire \in Wires /\ (cl.opened => cl.socket # Nothing)

LinkInv ==
    /\ DriverOK(drv)
    /\ ClientOK
    /\ samantha \in Connectors /\ ~samantha.early
    /\ Shown(drv, samantha)
    /\ world \in Worlds /\ trouble \in 0..MaxTrouble

\* What every step of the link does.
LinkHolds == LinkInv' /\ (PlaneFollowsRegistration => PlaneFollowsRegistration')

LEMMA LinkIsTyped == LinkInv => LinkTypeOK /\ EventsFollowSnapshot
  BY DEF LinkInv, DriverOK, ClientOK, Clients, Wires, Connectors, LinkTypeOK,
         EventsFollowSnapshot, Resting

\* The operators of the driver.
LEMMA RebuildKeeps ==
    ASSUME NEW d, DriverOK(d), NEW f \in BOOLEAN
    PROVE  /\ DriverOK(Rebuild(d, f))
           /\ Rebuild(d, f).registered = d.registered
           /\ Rebuild(d, f).body = d.body
           /\ Rebuild(d, f).pc = d.pc
<1> DEFINE e == [d EXCEPT !.force = @ \/ f, !.debounce = TRUE]
<1>2. /\ e \in Drivers /\ e.registered = d.registered /\ e.body = d.body
      /\ e.pc = d.pc /\ e.out = d.out  BY DEF Drivers, DriverOK
<1>3. Rebuild(d, f) = d \/ Rebuild(d, f) = e  BY DEF Rebuild
<1> HIDE DEF e
<1> QED  BY <1>2, <1>3 DEF DriverOK

LEMMA RetryKeeps ==
    ASSUME NEW d, DriverOK(d)
    PROVE  /\ DriverOK(Retry(d))
           /\ Retry(d).registered = d.registered
           /\ Retry(d).body = d.body
           /\ Retry(d).pc = d.pc
<1> DEFINE e == [d EXCEPT !.retry = TRUE, !.health = "reconnecting"]
<1>2. /\ e \in Drivers /\ e.registered = d.registered /\ e.body = d.body
      /\ e.pc = d.pc /\ e.out = d.out  BY DEF Drivers, Healths, DriverOK
<1>3. Retry(d) = d \/ Retry(d) = e  BY DEF Retry
<1> HIDE DEF e
<1> QED  BY <1>2, <1>3 DEF DriverOK

LEMMA PassRests ==
    ASSUME NEW d \in Drivers
    PROVE  /\ DriverOK(Pass(d))
           /\ Pass(d).registered = d.registered
           /\ Pass(d).body = d.body
           /\ Pass(d).pc \in Resting
<1> DEFINE next == IF d.stopped THEN "idle" ELSE IF d.registered THEN "gather" ELSE "register"
           e == [d EXCEPT !.rerun = FALSE, !.force = FALSE, !.forced = d.force, !.out = Nothing,
                          !.pc = next]
<1>1. next \in Resting  BY DEF Resting
<1>2. next \in Awaited  BY DEF Awaited
<1>3. Pass(d) = e  BY DEF Pass
<1> HIDE DEF next
<1>4. /\ e \in Drivers /\ e.registered = d.registered /\ e.body = d.body
      /\ e.pc = next /\ e.out = Nothing
  BY <1>2 DEF Drivers
<1> HIDE DEF e
<1> QED  BY <1>1, <1>3, <1>4 DEF DriverOK, Resting, Sending

LEMMA OverRests ==
    ASSUME NEW d \in Drivers, NEW patched \in BOOLEAN
    PROVE  /\ DriverOK(Over(d, patched))
           /\ Over(d, patched).registered = d.registered
           /\ Over(d, patched).body = d.body
           /\ Over(d, patched).pc \in Resting
<1> DEFINE e == [d EXCEPT !.force = @ \/ (d.forced /\ ~patched)]
           z == [e EXCEPT !.pc = "idle", !.forced = FALSE, !.out = Nothing]
<1>1. e \in Drivers /\ e.registered = d.registered /\ e.body = d.body  BY DEF Drivers
<1>2. Over(d, patched) = IF e.rerun /\ ~e.stopped THEN Pass(e) ELSE z  BY DEF Over
<1> HIDE DEF e
<1>3. /\ z \in Drivers /\ z.registered = d.registered /\ z.body = d.body
      /\ z.pc = "idle" /\ z.out = Nothing
  BY <1>1 DEF Drivers, Awaited
<1> HIDE DEF z
<1>4. DriverOK(z) /\ z.pc \in Resting  BY <1>3 DEF DriverOK, Resting, Sending
<1> QED  BY <1>1, <1>2, <1>3, <1>4, PassRests

\* A driver whose pass goes on at pc.
LEMMA AwaitKeeps ==
    ASSUME NEW d \in Drivers, NEW pc \in Awaited,
           d.out # Nothing => pc \notin Resting,
           pc \in Sending => d.out \in Worlds,
           pc = "post" => d.out \in Speech
    PROVE  /\ DriverOK(Await(d, pc))
           /\ Await(d, pc).registered = d.registered
           /\ Await(d, pc).body = d.body
           /\ Await(d, pc).pc = pc
<1> QED  BY DEF DriverOK, Await, Drivers

LEMMA EventsKeeps ==
    ASSUME NEW d \in Drivers, d.out \in Worlds
    PROVE  /\ DriverOK(Events(d))
           /\ Events(d).registered = d.registered
           /\ Events(d).body = d.body
           /\ Events(d).pc \in Resting \cup {"post"}
<1> DEFINE told == [d EXCEPT !.signal = Signal(d.out)]
<1>1. CASE Signal(d.out) # d.signal /\ d.out \in Speech  BY <1>1, AwaitKeeps DEF Events, Awaited, Resting
<1>2. CASE ~(Signal(d.out) # d.signal /\ d.out \in Speech)
  <2>1. Events(d) = Over(told, TRUE)  BY <1>2 DEF Events
  <2>3. told \in Drivers /\ told.registered = d.registered /\ told.body = d.body
    BY DEF Drivers, Signal, Signals
  <2> HIDE DEF told
  <2> QED  BY <2>1, <2>3, OverRests
<1> QED  BY <1>1, <1>2

\* What an answer makes of the driver.
LEMMA AnswerKeeps ==
    ASSUME NEW d, DriverOK(d)
    PROVE  /\ Known(d) \in Drivers /\ Known(d).registered = TRUE
           /\ Known(d).body = Nothing /\ Known(d).out = d.out
           /\ DriverOK(Unknown(d)) /\ Unknown(d).registered = FALSE
           /\ Unknown(d).body = d.body /\ Unknown(d).pc = d.pc
           /\ Taken(d) \in Drivers /\ Taken(d).registered = d.registered
           /\ Taken(d).body = d.out /\ Taken(d).out = d.out
<1>4. /\ Taken(d) \in Drivers /\ Taken(d).registered = d.registered
      /\ Taken(d).body = d.out /\ Taken(d).out = d.out  BY DEF Taken, Drivers, Healths, DriverOK
<1> QED  BY <1>4 DEF DriverOK, Known, Drivers, Healths, Unknown

LEMMA GoneKeeps ==
    ASSUME NEW d, DriverOK(d)
    PROVE  /\ DriverOK([d EXCEPT !.registered = FALSE])
           /\ [d EXCEPT !.registered = FALSE].registered = FALSE
           /\ [d EXCEPT !.registered = FALSE].body = d.body
           /\ [d EXCEPT !.registered = FALSE].pc = d.pc
           /\ [d EXCEPT !.registered = FALSE].out = d.out
           /\ [d EXCEPT !.registered = FALSE] \in Drivers
<1> DEFINE e == [d EXCEPT !.registered = FALSE]
<1> HIDE DEF e
<1> QED  BY DEF e, DriverOK, Drivers

LEMMA UnsentRests ==
    ASSUME NEW d, DriverOK(d)
    PROVE  /\ DriverOK(Unsent(d)) /\ Unsent(d).body = d.body /\ Unsent(d).pc \in Resting
<1> DEFINE e == [d EXCEPT !.registered = FALSE]
<1>1. DriverOK(e) /\ e.body = d.body  BY GoneKeeps
<1> HIDE DEF e
<1>3. Retry(e) \in Drivers  BY <1>1, RetryKeeps DEF DriverOK
<1>4. Unsent(d) = Over(Retry(e), FALSE)  BY DEF Unsent, e
<1> QED  BY <1>1, RetryKeeps, <1>3, <1>4, OverRests

\* The command plane follows the flag.
LEMMA PlaneStep ==
    ASSUME ClientOK, PlaneFollows
    PROVE  /\ ClientOK'
           /\ PlaneFollowsRegistration => PlaneFollowsRegistration'
<1>1. CASE drv'.registered = drv.registered
  BY <1>1 DEF PlaneFollows, ClientOK, PlaneFollowsRegistration
<1>2. CASE drv'.registered # drv.registered /\ drv'.registered
  <2>2. CASE cl.socket # Nothing  BY <1>2, <2>2 DEF OpenSocket, ClientOK, PlaneFollowsRegistration, PlaneFollows
  <2>3. CASE cl.socket = Nothing
    <3>1. PICK c \in Conns :
              /\ cl' = [cl EXCEPT !.socket = c, !.opened = FALSE, !.closedByUs = FALSE]
              /\ wire' = [wire EXCEPT ![c] = "connecting"]  BY <1>2, <2>3 DEF OpenSocket, PlaneFollows
    <3> QED  BY <1>2, <3>1 DEF ClientOK, PlaneFollowsRegistration, Clients, Wires
  <2> QED  BY <2>2, <2>3
<1>3. CASE drv'.registered # drv.registered /\ ~drv'.registered
  <2>1. /\ cl' = [socket |-> Nothing, opened |-> FALSE, closedByUs |-> TRUE, timer |-> FALSE]
        /\ wire' = Dropped(cl.socket)
    BY <1>3 DEF PlaneFollows, CloseClient
  <2>3. wire' \in Wires  BY <2>1 DEF Dropped, Wires, ClientOK
  <2> QED  BY <2>1, <2>3 DEF ClientOK, PlaneFollowsRegistration, Clients
<1> QED  BY <1>1, <1>2, <1>3

\* A step of the driver to d, with Samantha as she is then.
LEMMA DriverStep ==
    ASSUME LinkInv, NEW d, Driver(d), DriverOK(d),
           samantha' \in Connectors, ~samantha'.early, Shown(d, samantha')
    PROVE  LinkHolds
<1> QED  BY PlaneStep DEF LinkInv, LinkHolds, Driver

\* The same while Samantha does nothing: nothing is taken as shown that was not.
LEMMA QuietStep ==
    ASSUME LinkInv, NEW d, Driver(d), DriverOK(d), UNCHANGED samantha,
           d.body \in {drv.body, Nothing}, d.pc = "post" => drv.pc = "post" \/ drv.body # Nothing
    PROVE  LinkHolds
<1> QED  BY DriverStep DEF LinkInv, Shown

LEMMA DebounceHolds == LinkInv /\ DebounceTimer => LinkHolds
<1> SUFFICES ASSUME LinkInv, DebounceTimer PROVE LinkHolds  OBVIOUS
<1> DEFINE d == [drv EXCEPT !.debounce = FALSE]
           e == [drv EXCEPT !.debounce = FALSE, !.rerun = TRUE]
<1>2. /\ d \in Drivers /\ d.body = drv.body
      /\ e \in Drivers /\ e.body = drv.body /\ e.pc = drv.pc /\ e.out = drv.out
  BY DEF Drivers, LinkInv, DriverOK
<1>3. Driver(IF drv.pc # "idle" THEN e ELSE Pass(d)) /\ UNCHANGED samantha  BY DEF DebounceTimer
<1> HIDE DEF d, e
<1>4. CASE drv.pc # "idle"
  <2>1. DriverOK(e)  BY <1>2 DEF DriverOK, LinkInv
  <2> QED  BY <1>2, <1>3, <1>4, <2>1, QuietStep
<1>5. CASE drv.pc = "idle"  BY <1>3, <1>5, <1>2, PassRests, QuietStep DEF Resting
<1> QED  BY <1>4, <1>5

LEMMA RetryHolds == LinkInv /\ RetryTimer => LinkHolds
<1> SUFFICES ASSUME LinkInv, RetryTimer PROVE LinkHolds  OBVIOUS
<1> DEFINE d == [drv EXCEPT !.retry = FALSE]
<1>2. d \in Drivers /\ d.body = drv.body /\ d.pc = drv.pc /\ d.out = drv.out  BY DEF Drivers, LinkInv, DriverOK
<1>3. Driver(Rebuild(d, FALSE)) /\ UNCHANGED samantha  BY DEF RetryTimer
<1> HIDE DEF d
<1>5. /\ DriverOK(Rebuild(d, FALSE)) /\ Rebuild(d, FALSE).body = drv.body
      /\ Rebuild(d, FALSE).pc = drv.pc  BY <1>2, RebuildKeeps DEF DriverOK, LinkInv
<1> QED  BY <1>3, <1>5, QuietStep

\* Samantha's side of a registration: what she was shown is of this one.
LEMMA RegistersKeeps ==
    ASSUME LinkInv, Registers
    PROVE  samantha' \in Connectors /\ ~samantha'.early
<1>1. CASE samantha.known  BY <1>1 DEF Registers, LinkInv
<1>2. CASE ~samantha.known
  BY <1>2 DEF Registers, LinkInv, Connectors
<1> QED  BY <1>1, <1>2

\* And of a snapshot that she takes.
LEMMA TakesKeeps ==
    ASSUME LinkInv, Takes, drv.pc \in Sending
    PROVE  samantha' \in Connectors /\ ~samantha'.early /\ samantha'.snapshot # Nothing
<1> QED  BY SpeechAssumption DEF LinkInv, Connectors, DriverOK, Takes

\* A registration was answered, and the pass goes on at pc.
LEMMA AnsweredHolds ==
    ASSUME LinkInv, NEW pc \in {"gather", "repatch", "postpatch"},
           IF pc = "gather" THEN drv.out = Nothing ELSE drv.out \in Worlds,
           Driver(Await(Known(drv), pc)), Registers
    PROVE  LinkHolds
<1> DEFINE d == Known(drv)
           e == Await(Known(drv), pc)
<1>1. d \in Drivers /\ d.body = Nothing /\ d.out = drv.out  BY AnswerKeeps DEF LinkInv
<1>2. pc \in Awaited /\ pc # "post"  BY DEF Awaited
<1> HIDE DEF d
<1>4. DriverOK(Await(d, pc)) /\ Await(d, pc).body = Nothing /\ Await(d, pc).pc = pc
  BY <1>1, <1>2, AwaitKeeps DEF Resting, Sending
<1> HIDE DEF e
<1>6. Driver(e)  BY DEF e
<1> QED  BY <1>2, <1>4, <1>6, RegistersKeeps, DriverStep DEF Shown, d

LEMMA RegisteredHolds == LinkInv /\ Registered => LinkHolds
<1> SUFFICES ASSUME LinkInv, Registered PROVE LinkHolds  OBVIOUS
<1>1. DriverOK(drv) /\ drv.out = Nothing  BY DEF LinkInv, DriverOK, Registered, Resting
<1>2. CASE samantha.up  BY <1>1, <1>2, AnsweredHolds DEF Registered
<1>3. CASE ~samantha.up
  <2> DEFINE e == Retry(Unknown(drv))
             d == Over(e, FALSE)
  <2>1. Driver(d) /\ UNCHANGED samantha  BY <1>3 DEF Registered
  <2>2. DriverOK(e) /\ e.body = drv.body  BY <1>1, AnswerKeeps, RetryKeeps
  <2> HIDE DEF e
  <2> QED  BY <2>1, <2>2, OverRests, QuietStep DEF DriverOK, Resting
<1> QED  BY <1>2, <1>3

LEMMA GatheredHolds == LinkInv /\ Gathered => LinkHolds
<1> SUFFICES ASSUME LinkInv, Gathered PROVE LinkHolds  OBVIOUS
<1>1. DriverOK(drv) /\ drv \in Drivers /\ world \in Worlds  BY DEF LinkInv, DriverOK
<1> DEFINE d == [drv EXCEPT !.out = world]
<1>2. d \in Drivers /\ d.out = world /\ d.body = drv.body  BY <1>1 DEF Drivers
<1>3. /\ Driver(IF drv.forced \/ world # drv.body THEN Await(d, "patch") ELSE Events(d))
      /\ UNCHANGED samantha
  BY DEF Gathered
<1> HIDE DEF d
<1>4. CASE drv.forced \/ world # drv.body  BY <1>3, <1>4, <1>1, <1>2, AwaitKeeps, QuietStep DEF Awaited, Resting
<1>5. CASE ~(drv.forced \/ world # drv.body)
  <2>1. DriverOK(Events(d)) /\ Events(d).body = drv.body  BY <1>1, <1>2, EventsKeeps
  <2>2. drv.body # Nothing  BY <1>1, <1>5, SpeechAssumption
  <2> QED  BY <1>3, <1>5, <2>1, <2>2, QuietStep
<1> QED  BY <1>4, <1>5

LEMMA TapThrowsHolds == LinkInv /\ TapThrows => LinkHolds
<1> SUFFICES ASSUME LinkInv, TapThrows PROVE LinkHolds  OBVIOUS
<1> DEFINE d == Over(drv, FALSE)
<1> HIDE DEF d
<1>4. trouble' \in 0..MaxTrouble  BY SwitchAssumption DEF TapThrows, LinkInv, DriverOK
<1> QED
  BY OverRests, <1>4 DEF LinkInv, ClientOK, Shown, LinkHolds, PlaneFollowsRegistration, TapThrows, d, Resting,
     DriverOK

\* A snapshot was taken, and its events are looked at.
LEMMA TakenHolds ==
    ASSUME LinkInv, drv.pc \in Sending, Driver(Events(Taken(drv))), Takes
    PROVE  LinkHolds
<1> DEFINE d == Events(Taken(drv))
<1> HIDE DEF d
<1>4. Driver(d)  BY DEF d
<1> QED  BY AnswerKeeps, EventsKeeps, TakesKeeps, <1>4, DriverStep DEF Shown, LinkInv, DriverOK

\* It was not, and a retry is due.
LEMMA UnsentHolds ==
    ASSUME LinkInv, NEW d, DriverOK(d), d.body = drv.body, Driver(Unsent(d)), UNCHANGED samantha
    PROVE  LinkHolds
<1> QED  BY UnsentRests, QuietStep DEF Resting

LEMMA PatchedHolds == LinkInv /\ Patched => LinkHolds
<1> SUFFICES ASSUME LinkInv, Patched PROVE LinkHolds  OBVIOUS
<1> DEFINE gone == [drv EXCEPT !.registered = FALSE]
<1>1. DriverOK(drv) /\ drv.pc \in Sending /\ drv.out \in Worlds
  BY DEF LinkInv, DriverOK, Patched, Sending
<1>2. CASE samantha.up /\ samantha.known
  BY <1>1, <1>2, TakenHolds DEF Patched
<1>3. CASE ~samantha.up  BY <1>1, <1>3, UnsentHolds DEF Patched
<1>4. CASE samantha.up /\ ~samantha.known /\ drv.stopped  BY <1>1, <1>4, UnsentHolds DEF Patched
<1>5. CASE samantha.up /\ ~samantha.known /\ ~drv.stopped
  <2>1. Driver(Await(gone, "reregister")) /\ UNCHANGED samantha  BY <1>5 DEF Patched
  <2>2. gone \in Drivers /\ gone.out = drv.out /\ gone.body = drv.body  BY <1>1, GoneKeeps
  <2> HIDE DEF gone
  <2> QED  BY <2>1, <1>1, <2>2, AwaitKeeps, QuietStep DEF Awaited, Resting
<1> QED  BY <1>2, <1>3, <1>4, <1>5 DEF LinkInv, Connectors

LEMMA ReregisteredHolds == LinkInv /\ Reregistered => LinkHolds
<1> SUFFICES ASSUME LinkInv, Reregistered PROVE LinkHolds  OBVIOUS
<1>2. CASE samantha.up  BY <1>2, AnsweredHolds DEF Reregistered, LinkInv, DriverOK, Sending
<1>3. CASE ~samantha.up  BY <1>3, AnswerKeeps, UnsentHolds DEF Reregistered, LinkInv, DriverOK, Sending
<1> QED  BY <1>2, <1>3

LEMMA RepatchedHolds == LinkInv /\ Repatched => LinkHolds
<1> SUFFICES ASSUME LinkInv, Repatched PROVE LinkHolds  OBVIOUS
<1>2. CASE samantha.up /\ samantha.known  BY <1>2, TakenHolds DEF Repatched, LinkInv, Sending
<1>3. CASE ~(samantha.up /\ samantha.known)  BY <1>3, UnsentHolds DEF LinkInv, Repatched, Sending
<1> QED  BY <1>2, <1>3

\* The pass ends with a driver that differs from this one in what it does not show.
LEMMA OverHolds ==
    ASSUME LinkInv, NEW d, DriverOK(d), d.body = drv.body, Driver(Over(d, TRUE)), UNCHANGED samantha
    PROVE  LinkHolds
<1> QED  BY OverRests, QuietStep DEF Resting, DriverOK

LEMMA PostedHolds == LinkInv /\ Posted => LinkHolds
<1> SUFFICES ASSUME LinkInv, Posted PROVE LinkHolds  OBVIOUS
<1> DEFINE gone == [drv EXCEPT !.registered = FALSE]
           told == [drv EXCEPT !.signal = Signal(drv.out)]
<1>1. DriverOK(drv) /\ drv.pc = "post" /\ drv.out \in Speech /\ drv.out \in Worlds
  BY DEF LinkInv, DriverOK, Posted, Sending
<1>2. CASE samantha.up /\ samantha.known
  <2>1. /\ Driver(Over(told, TRUE))
        /\ samantha' = [samantha EXCEPT !.heard = drv.out, !.early = samantha.snapshot = Nothing]
    BY <1>2 DEF Posted
  <2>3. told \in Drivers /\ told.body = drv.body  BY <1>1 DEF DriverOK, Drivers, Signal, Signals
  <2> HIDE DEF told
  <2>4. DriverOK(Over(told, TRUE))  BY <2>3, OverRests
  <2>6. samantha' \in Connectors /\ ~samantha'.early /\ samantha'.snapshot # Nothing
    BY <1>1, <2>1, <1>2 DEF LinkInv, Connectors, Shown
  <2>7. Shown(Over(told, TRUE), samantha')  BY <2>6 DEF Shown
  <2> QED  BY <2>1, <2>4, <2>6, <2>7, DriverStep
<1>3. CASE ~samantha.up
  <2>1. Driver(Over(Retry(gone), TRUE)) /\ UNCHANGED samantha  BY <1>3 DEF Posted
  <2>2. DriverOK(Retry(gone)) /\ Retry(gone).body = drv.body  BY <1>1, GoneKeeps, RetryKeeps
  <2> HIDE DEF gone
  <2> QED  BY <2>1, <2>2, OverHolds
<1>4. CASE samantha.up /\ ~samantha.known /\ drv.stopped
  <2>1. Driver(Over(Rebuild(gone, FALSE), TRUE)) /\ UNCHANGED samantha  BY <1>4 DEF Posted
  <2>2. DriverOK(Rebuild(gone, FALSE)) /\ Rebuild(gone, FALSE).body = drv.body
    BY <1>1, GoneKeeps, RebuildKeeps
  <2> HIDE DEF gone
  <2> QED  BY <2>1, <2>2, OverHolds
<1>5. CASE samantha.up /\ ~samantha.known /\ ~drv.stopped
  <2>1. Driver(Await(gone, "postregister")) /\ UNCHANGED samantha  BY <1>5 DEF Posted
  <2>2. gone \in Drivers /\ gone.out = drv.out /\ gone.body = drv.body  BY <1>1, GoneKeeps
  <2> HIDE DEF gone
  <2> QED  BY <2>1, <1>1, <2>2, AwaitKeeps, QuietStep DEF Awaited, Resting
<1> QED  BY <1>2, <1>3, <1>4, <1>5 DEF LinkInv, Connectors

LEMMA PostRegisteredHolds == LinkInv /\ PostRegistered => LinkHolds
<1> SUFFICES ASSUME LinkInv, PostRegistered PROVE LinkHolds  OBVIOUS
<1>1. DriverOK(drv) /\ drv.out \in Worlds  BY DEF LinkInv, DriverOK, PostRegistered, Sending
<1>2. CASE samantha.up  BY <1>1, <1>2, AnsweredHolds DEF PostRegistered
<1>3. CASE ~samantha.up
  <2>2. DriverOK(Rebuild(Unknown(drv), FALSE)) /\ Rebuild(Unknown(drv), FALSE).body = drv.body
    BY <1>1, AnswerKeeps, RebuildKeeps
  <2> QED  BY <1>3, <2>2, OverHolds DEF PostRegistered
<1> QED  BY <1>2, <1>3

LEMMA PostPatchedHolds == LinkInv /\ PostPatched => LinkHolds
<1> SUFFICES ASSUME LinkInv, PostPatched PROVE LinkHolds  OBVIOUS
<1>2. CASE samantha.up /\ samantha.known
  <2> DEFINE e == Rebuild(Taken(drv), FALSE)
  <2>1. Driver(Over(e, TRUE)) /\ Takes  BY <1>2 DEF PostPatched
  <2>3. DriverOK(Taken(drv))
    BY AnswerKeeps DEF DriverOK, Resting, Taken, Drivers, LinkInv, PostPatched, Sending
  <2>4. DriverOK(e)  BY <2>3, RebuildKeeps
  <2> HIDE DEF e
  <2>6. samantha' \in Connectors /\ ~samantha'.early /\ Shown(Over(e, TRUE), samantha')
    BY <2>1, TakesKeeps DEF Shown, LinkInv, DriverOK, PostPatched, Sending
  <2> QED  BY <2>1, <2>4, OverRests, <2>6, DriverStep DEF DriverOK
<1>3. CASE ~(samantha.up /\ samantha.known)
  BY <1>3, RebuildKeeps, OverHolds DEF PostPatched, LinkInv, DriverOK, Sending
<1> QED  BY <1>2, <1>3

LEMMA StartHolds == LinkInv /\ StartDriver => LinkHolds
<1> SUFFICES ASSUME LinkInv, StartDriver PROVE LinkHolds  OBVIOUS
<1> DEFINE d == [drv EXCEPT !.stopped = FALSE, !.registered = FALSE, !.body = Nothing,
                            !.signal = Nothing, !.force = FALSE, !.health = "connecting",
                            !.debounce = TRUE]
<1>1. DriverOK(drv) /\ drv \in Drivers /\ trouble \in 0..MaxTrouble /\ ClientOK
  BY DEF LinkInv, DriverOK
<1>2. d \in Drivers /\ d.body = Nothing /\ d.pc = drv.pc /\ d.out = drv.out
  BY <1>1 DEF Drivers, Healths
<1>3. drv' = d /\ PlaneFollows /\ UNCHANGED <<samantha, world>>  BY DEF StartDriver
<1> HIDE DEF d
<1>4. DriverOK(d)  BY <1>1, <1>2 DEF DriverOK
<1>5. Shown(d, samantha)  BY <1>2 DEF LinkInv, Shown
<1>6. trouble' \in 0..MaxTrouble  BY <1>1, SwitchAssumption DEF StartDriver
<1>7. ClientOK' /\ (PlaneFollowsRegistration => PlaneFollowsRegistration')
  BY <1>1, <1>3, PlaneStep
<1> QED  BY <1>3, <1>4, <1>5, <1>6, <1>7 DEF LinkInv, LinkHolds

LEMMA StopHolds == LinkInv /\ StopDriver => LinkHolds
<1> SUFFICES ASSUME LinkInv, StopDriver PROVE LinkHolds  OBVIOUS
<1> DEFINE d == [drv EXCEPT !.stopped = TRUE, !.debounce = FALSE, !.retry = FALSE]
           e == IF drv.registered THEN [d EXCEPT !.stopping = TRUE] ELSE [d EXCEPT !.health = "off"]
<1>2. d \in Drivers /\ d.body = drv.body /\ d.pc = drv.pc /\ d.out = drv.out  BY DEF Drivers, LinkInv, DriverOK
<1>3. Driver(e) /\ UNCHANGED samantha  BY DEF StopDriver
<1> HIDE DEF d
<1>4. e \in Drivers /\ e.body = drv.body /\ e.pc = drv.pc /\ e.out = drv.out
  BY <1>2 DEF Drivers, Healths
<1> HIDE DEF e
<1> QED  BY <1>3, <1>4, QuietStep DEF DriverOK, LinkInv

LEMMA UnregisteredHolds == LinkInv /\ Unregistered => LinkHolds
<1> SUFFICES ASSUME LinkInv, Unregistered PROVE LinkHolds  OBVIOUS
<1> DEFINE d == [drv EXCEPT !.stopping = FALSE, !.registered = FALSE, !.health = "off"]
<1>2. d \in Drivers /\ d.body = drv.body /\ d.pc = drv.pc /\ d.out = drv.out
  BY DEF Drivers, Healths, LinkInv, DriverOK
<1>3. /\ Driver(d)
      /\ samantha' = IF samantha.up THEN [samantha EXCEPT !.known = FALSE] ELSE samantha
  BY DEF Unregistered
<1> HIDE DEF d
<1>5. samantha' \in Connectors /\ ~samantha'.early /\ Shown(d, samantha')
  BY <1>2, <1>3 DEF LinkInv, Connectors, Shown
<1> QED  BY <1>3, <1>2, <1>5, DriverStep DEF DriverOK, LinkInv

LEMMA KeepAliveHolds == LinkInv /\ KeepAlive => LinkHolds
<1> SUFFICES ASSUME LinkInv, KeepAlive PROVE LinkHolds  OBVIOUS
<1> QED  BY RebuildKeeps, QuietStep DEF KeepAlive, LinkInv

LEMMA ChangeHolds == ASSUME NEW w \in Worlds PROVE LinkInv /\ Change(w) => LinkHolds
<1> SUFFICES ASSUME LinkInv, Change(w) PROVE LinkHolds  OBVIOUS
<1> DEFINE d == Rebuild(drv, FALSE)
<1>2. DriverOK(d) /\ d.body = drv.body /\ d.pc = drv.pc /\ d.registered = drv.registered
  BY RebuildKeeps DEF LinkInv
<1>3. drv' = d /\ world' = w /\ UNCHANGED <<cl, wire, samantha, trouble>>  BY DEF Change
<1> HIDE DEF d
<1> QED  BY <1>2, <1>3 DEF LinkInv, ClientOK, Shown, LinkHolds, PlaneFollowsRegistration

\* onStatus: only the health of the driver changes.
LEMMA StatusKeeps ==
    ASSUME DriverOK(drv), NEW h \in Healths, Status(h)
    PROVE  /\ DriverOK(drv') /\ drv'.registered = drv.registered
           /\ drv'.body = drv.body /\ drv'.pc = drv.pc
<1> DEFINE d == [drv EXCEPT !.health = h]
<1>1. d \in Drivers /\ d.registered = drv.registered /\ d.body = drv.body
      /\ d.pc = drv.pc /\ d.out = drv.out
  BY DEF DriverOK, Drivers
<1>2. drv' = drv \/ drv' = d  BY DEF Status
<1> HIDE DEF d
<1> QED  BY <1>1, <1>2 DEF DriverOK

LEMMA OpensHolds == ASSUME NEW c \in Conns PROVE LinkInv /\ SocketOpens(c) => LinkHolds
<1> SUFFICES ASSUME LinkInv, SocketOpens(c) PROVE LinkHolds  OBVIOUS
<1>1. /\ DriverOK(drv) /\ cl \in Clients /\ wire \in Wires /\ (cl.opened => cl.socket # Nothing)
      /\ UNCHANGED <<samantha, world, trouble>> /\ wire' = [wire EXCEPT ![c] = "open"]
  BY DEF LinkInv, ClientOK, SocketOpens
<1>2. wire' \in Wires  BY <1>1 DEF Wires
<1>3. CASE cl.socket = c
  <2>2. cl' \in Clients /\ cl'.socket = c /\ cl'.timer = cl.timer  BY <1>1, <1>3 DEF Clients, SocketOpens
  <2>3. c # Nothing  BY SpeechAssumption
  <2>4. /\ DriverOK(drv') /\ drv'.registered = drv.registered
        /\ drv'.body = drv.body /\ drv'.pc = drv.pc  BY <1>1, <1>3, StatusKeeps DEF Healths, SocketOpens
  <2> QED  BY <1>1, <1>2, <1>3, <2>2, <2>3, <2>4
           DEF LinkInv, ClientOK, Shown, LinkHolds, PlaneFollowsRegistration
<1>4. CASE cl.socket # c
  BY <1>1, <1>2, <1>4 DEF LinkInv, ClientOK, LinkHolds, PlaneFollowsRegistration, SocketOpens
<1> QED  BY <1>3, <1>4

\* A socket whose client was closed is not the client's: only a registered one is retried.
LEMMA ClosesHolds == ASSUME NEW c \in Conns PROVE LinkInv /\ SocketCloses(c) => LinkHolds
<1> SUFFICES ASSUME LinkInv, SocketCloses(c) PROVE LinkHolds  OBVIOUS
<1>1. /\ DriverOK(drv) /\ cl \in Clients /\ wire \in Wires /\ (cl.opened => cl.socket # Nothing)
      /\ UNCHANGED <<samantha, world, trouble>> /\ wire' = [wire EXCEPT ![c] = "unused"]
  BY DEF LinkInv, ClientOK, SocketCloses
<1>2. wire' \in Wires  BY <1>1 DEF Wires
<1>3. CASE cl.socket = c
  <2>2. cl' \in Clients /\ ~cl'.opened  BY <1>1, <1>3 DEF Clients, SocketCloses
  <2>3. c # Nothing  BY SpeechAssumption
  <2>4. /\ DriverOK(drv') /\ drv'.registered = drv.registered
        /\ drv'.body = drv.body /\ drv'.pc = drv.pc  BY <1>1, <1>3, StatusKeeps DEF Healths, SocketCloses
  <2> QED  BY <1>1, <1>2, <1>3, <2>2, <2>3, <2>4
           DEF LinkInv, ClientOK, Shown, LinkHolds, PlaneFollowsRegistration
<1>4. CASE cl.socket # c
  BY <1>1, <1>2, <1>4 DEF LinkInv, ClientOK, LinkHolds, PlaneFollowsRegistration, SocketCloses
<1> QED  BY <1>3, <1>4

LEMMA SocketRetryHolds == LinkInv /\ SocketRetry => LinkHolds
<1> SUFFICES ASSUME LinkInv, SocketRetry PROVE LinkHolds  OBVIOUS
<1>1. PICK c \in Conns :
          /\ cl' = [cl EXCEPT !.timer = FALSE, !.socket = c, !.closedByUs = FALSE]
          /\ wire' = [wire EXCEPT ![c] = "connecting"]
  BY DEF SocketRetry
<1> QED
  BY <1>1, SpeechAssumption DEF LinkInv, ClientOK, LinkHolds, PlaneFollowsRegistration, SocketRetry, Clients,
     Wires

\* The one step that may open a socket for a driver that is not registered.
LEMMA ReconnectHolds ==
    LinkInv /\ ReconnectNow => LinkInv' /\ (EarlyClick \/ (PlaneFollowsRegistration => PlaneFollowsRegistration'))
<1> SUFFICES ASSUME LinkInv, ReconnectNow
             PROVE  LinkInv' /\ (EarlyClick \/ drv'.registered)
    BY DEF PlaneFollowsRegistration
<1> DEFINE d == [drv EXCEPT !.retry = FALSE, !.health = "connecting", !.force = TRUE,
                            !.debounce = TRUE]
<1>1. /\ DriverOK(drv) /\ drv \in Drivers /\ (EarlyClick \/ drv.registered)
      /\ cl \in Clients /\ wire \in Wires /\ (cl.opened => cl.socket # Nothing)
      /\ drv' = d /\ ReopenClient /\ UNCHANGED <<samantha, world, trouble>>
  BY DEF LinkInv, DriverOK, ClientOK, ReconnectNow
<1>2. /\ d \in Drivers /\ d.registered = drv.registered /\ d.body = drv.body
      /\ d.pc = drv.pc /\ d.out = drv.out
  BY <1>1 DEF Drivers, Healths
<1> HIDE DEF d
<1>4. ClientOK'
  <2>1. CASE cl.closedByUs  BY <1>1, <2>1 DEF ReopenClient, ClientOK
  <2>2. CASE ~cl.closedByUs /\ cl.opened  BY <1>1, <2>2 DEF ClientOK, Clients, ReopenClient
  <2>3. CASE ~cl.closedByUs /\ ~cl.opened
    <3>1. PICK c \in Conns :
              /\ cl' = [cl EXCEPT !.socket = c, !.timer = FALSE]
              /\ wire' = [Dropped(cl.socket) EXCEPT ![c] = "connecting"]
      BY <1>1, <2>3 DEF ReopenClient
    <3> QED  BY <1>1, <2>3, <3>1 DEF ClientOK, Clients, Wires, Dropped
  <2> QED  BY <1>1, <2>1, <2>2, <2>3 DEF Clients
<1> QED  BY <1>1, <1>2, <1>4 DEF LinkInv, Shown, DriverOK

LEMMA SamanthaHolds == LinkInv /\ (SamanthaDies \/ SamanthaStarts) => LinkHolds
<1> SUFFICES ASSUME LinkInv, SamanthaDies \/ SamanthaStarts PROVE LinkHolds  OBVIOUS
<1>3. /\ samantha' \in Connectors /\ ~samantha'.early /\ trouble' \in 0..MaxTrouble
      /\ Shown(drv, samantha')
  <2>1. CASE SamanthaDies
    <3>2. samantha' \in Connectors /\ ~samantha'.early /\ ~samantha'.known
      BY <2>1 DEF Connectors, LinkInv, SamanthaDies
    <3> QED  BY <3>2, <2>1, SwitchAssumption DEF Shown, SamanthaDies, LinkInv
  <2>2. CASE SamanthaStarts  BY <2>2 DEF SamanthaStarts, Connectors, Shown, LinkInv
  <2> QED  BY <2>1, <2>2
<1> QED  BY <1>3 DEF LinkInv, ClientOK, LinkHolds, PlaneFollowsRegistration, SamanthaDies, SamanthaStarts

LEMMA LinkStep ==
    LinkInv /\ LinkNext => LinkInv' /\ (EarlyClick \/ (PlaneFollowsRegistration => PlaneFollowsRegistration'))
<1> SUFFICES ASSUME LinkInv, LinkNext
             PROVE  LinkHolds \/ ReconnectNow
    BY ReconnectHolds DEF LinkHolds
<1>1. CASE \E c \in Conns : SocketOpens(c) \/ SocketCloses(c)  BY <1>1, OpensHolds, ClosesHolds
<1>2. CASE Answer
  BY <1>2, RegisteredHolds, GatheredHolds, PatchedHolds, ReregisteredHolds, RepatchedHolds,
     PostedHolds, PostRegisteredHolds, PostPatchedHolds, UnregisteredHolds DEF Answer
<1>3. CASE \E w \in Worlds \ {world} : Change(w)  BY <1>3, ChangeHolds
<1>4. CASE SocketRetry \/ DebounceTimer \/ RetryTimer \/ TapThrows
  BY <1>4, SocketRetryHolds, DebounceHolds, RetryHolds, TapThrowsHolds
<1>5. CASE StartDriver \/ StopDriver \/ ReconnectNow \/ KeepAlive \/ SamanthaDies \/ SamanthaStarts
  BY <1>5, StartHolds, StopHolds, KeepAliveHolds, SamanthaHolds
<1> QED  BY <1>1, <1>2, <1>3, <1>4, <1>5 DEF LinkNext

LEMMA SocketsStep == LinkInv /\ Sockets => LinkHolds
  BY OpensHolds, ClosesHolds, SocketRetryHolds, SamanthaHolds DEF Sockets

LEMMA LinkStarts == Init => LinkInv /\ PlaneFollowsRegistration
<1> SUFFICES ASSUME Init PROVE LinkInv /\ PlaneFollowsRegistration  OBVIOUS
<1>2. 0 \in 0..MaxTrouble  BY SwitchAssumption
<1>4. CASE LinkInit
  <2>1. cl \in Clients /\ ~cl.opened /\ cl.socket = Nothing /\ ~cl.timer /\ wire \in Wires
    BY <1>4 DEF LinkInit, Clients, Wires
  <2>2. samantha \in Connectors /\ ~samantha.early /\ ~samantha.known
    <3>1. PICK u \in BOOLEAN : samantha = [up |-> u, known |-> FALSE, snapshot |-> Nothing,
                                           heard |-> Nothing, early |-> FALSE]
      BY <1>4 DEF LinkInit
    <3> QED  BY <3>1 DEF Connectors
  <2>3. drv = Quiet /\ world \in Worlds /\ trouble = 0  BY <1>4 DEF LinkInit
  <2>4. DriverOK(Quiet)  BY DEF DriverOK, Resting, Sending, Quiet, Drivers, Healths, Awaited
  <2> QED  BY <1>2, <2>1, <2>2, <2>3, <2>4
           DEF LinkInv, ClientOK, Shown, PlaneFollowsRegistration
<1>5. CASE Connected
  <2>1. PICK w \in Worlds, c \in Conns :
            /\ world = w
            /\ drv = [Quiet EXCEPT !.stopped = FALSE, !.registered = TRUE, !.health = "connected",
                                   !.body = w, !.signal = Signal(w)]
            /\ cl = [socket |-> c, opened |-> TRUE, closedByUs |-> FALSE, timer |-> FALSE]
            /\ wire = [d \in Conns |-> IF d = c THEN "open" ELSE "unused"]
            /\ samantha = [up |-> TRUE, known |-> TRUE, snapshot |-> w, heard |-> Nothing,
                           early |-> FALSE]
            /\ trouble = 0
    BY <1>5 DEF Connected
  <2>3. drv \in Drivers /\ drv.registered /\ drv.pc = "idle" /\ drv.out = Nothing
    BY <2>1 DEF Drivers, Healths, Quiet, Awaited, Signal, Signals
  <2>4. DriverOK(drv)  BY <2>3 DEF DriverOK, Resting, Sending
  <2>5. cl \in Clients /\ cl.socket # Nothing /\ wire \in Wires  BY SpeechAssumption, <2>1 DEF Clients, Wires
  <2>6. samantha \in Connectors /\ ~samantha.early /\ samantha.snapshot # Nothing
    BY SpeechAssumption, <2>1 DEF Connectors
  <2> QED  BY <1>2, <2>1, <2>3, <2>4, <2>5, <2>6
           DEF LinkInv, ClientOK, Shown, PlaneFollowsRegistration
<1> QED  BY <1>4, <1>5 DEF Init

-----------------------------------------------------------------------------
(* The commands.                                                           *)

Trails == {<<>>, <<"reject">>, <<"start">>, <<"start", "result">>}
Settled == {<<>>, <<"reject">>, <<"start", "result">>}

\* Where a command is in the cache, how often it has acted, and what was written of it.
EntryOK(at, n, t) ==
    /\ at \in {"none", "stale", "resolve", "route", "lookup"} => n = 0 /\ t = <<>>
    /\ at = "execute" => n = 0 /\ t = <<"start">>
    /\ at = "done" => n \in 0..1 /\ t \in Settled

\* A request leaves no trail before it executes.
RequestOK(at, t) ==
    /\ at = "none" => t \in Settled
    /\ at \in {"resolve", "states", "lookup"} => t = <<>>
    /\ at = "execute" => t = <<"start">>

CacheOK(cache) ==
    /\ cache \in [Commands -> CommandStates]
    /\ waiting \subseteq Commands \X Conns
    /\ runs \in [Commands -> 0..1]
    /\ \A k \in Commands : EntryOK(cache[k], runs[k], trail[k])
    /\ \A w \in waiting : cache[w[1]] \in InFlight

Asked == [at : {"none", "resolve", "states", "execute", "lookup"}, cap : DOMAIN Caps]

RequestsOK ==
    /\ req \in [Requests -> Asked]
    /\ \A r \in Requests :
         /\ RequestOK(req[r].at, trail[r])
         /\ req[r].at \in {"resolve", "states", "execute"} => Caps[req[r].cap] = "act"

SessionOK ==
    /\ session \in [live : BOOLEAN, grants : SUBSET Permissions, generation : Generations]
    /\ stamped \in Generations \cup {Nothing}
    /\ events \in 0..MaxEvents /\ session.generation <= events
    /\ StampIsAttached

SwitchesOK ==
    /\ acting \in BOOLEAN /\ input \in BOOLEAN /\ killed \in BOOLEAN /\ changed \in BOOLEAN
    /\ agent \in Agents

RemoteInv ==
    /\ trail \in [Jobs -> Trails]
    /\ CacheOK(cmd)
    /\ RequestsOK
    /\ SessionOK
    /\ SwitchesOK

LEMMA AuditIsTyped == Trails \subseteq UNION {[1..n -> {"start", "result", "reject"}] : n \in 0..2}
<1> DEFINE W == {"start", "result", "reject"}
<1>1. <<>> \in [1..0 -> W]  OBVIOUS
<1>2. <<"reject">> \in [1..1 -> W] /\ <<"start">> \in [1..1 -> W]  OBVIOUS
<1>3. <<"start", "result">> \in [1..2 -> W]  OBVIOUS
<1>4. 0 \in 0..2 /\ 1 \in 0..2 /\ 2 \in 0..2  OBVIOUS
<1> HIDE DEF W
<1>5. \A t \in Trails : \E n \in 0..2 : t \in [1..n -> W]  BY <1>1, <1>2, <1>3, <1>4 DEF Trails
<1> QED  BY <1>5 DEF W

LEMMA RemoteIsTyped == RemoteInv => RemoteTypeOK /\ CommandsAreAccounted /\ StampIsAttached
<1> SUFFICES ASSUME RemoteInv PROVE RemoteTypeOK /\ CommandsAreAccounted /\ StampIsAttached  OBVIOUS
<1>3. RemoteTypeOK
  BY AuditIsTyped DEF RemoteInv, CacheOK, RequestsOK, SessionOK, SwitchesOK, RemoteTypeOK, Asked
<1>5. \A k \in Commands : runs[k] <= 1 /\ (trail[k] = <<"start">> <=> cmd[k] = "execute")
  <2> SUFFICES ASSUME NEW k \in Commands
               PROVE  runs[k] <= 1 /\ (trail[k] = <<"start">> <=> cmd[k] = "execute")
    OBVIOUS
  <2>1. EntryOK(cmd[k], runs[k], trail[k]) /\ cmd[k] \in CommandStates
    BY DEF RemoteInv, CacheOK
  <2> QED  BY <2>1 DEF EntryOK, CommandStates, Settled
<1>6. \A r \in Requests : trail[r] = <<"start">> <=> req[r].at = "execute"
  <2> SUFFICES ASSUME NEW r \in Requests PROVE trail[r] = <<"start">> <=> req[r].at = "execute"
    OBVIOUS
  <2>1. RequestOK(req[r].at, trail[r]) /\ req[r] \in Asked
    BY DEF RemoteInv, RequestsOK
  <2> QED  BY <2>1 DEF RequestOK, Asked, Settled
<1> QED  BY <1>3, <1>5, <1>6 DEF RemoteInv, SessionOK, CacheOK, CommandsAreAccounted, Trails

\* The outcome goes after the start.
LEMMA OutcomeFollows == <<"start">> \o <<"result">> = <<"start", "result">>
<1> DEFINE W == {"start", "result"}
           a == <<"start">>
           b == <<"result">>
           c == <<"start", "result">>
<1>1. "start" \in W /\ "result" \in W  OBVIOUS
<1> HIDE DEF W
<1>2. a \in Seq(W) /\ b \in Seq(W) /\ c \in Seq(W)  BY <1>1
<1>3. Len(a) = 1 /\ Len(b) = 1 /\ Len(c) = 2  OBVIOUS
<1>4. c[1] = a[1] /\ c[2] = b[1]  OBVIOUS
<1> HIDE DEF a, b, c
<1>5. /\ a \o b \in Seq(W) /\ Len(a \o b) = 2
      /\ \A i \in 1..2 : (a \o b)[i] = IF i <= 1 THEN a[i] ELSE b[i - 1]
  BY <1>2, <1>3, ConcatProperties
<1>6. \A i \in 1 .. Len(a \o b) : (a \o b)[i] = c[i]  BY <1>4, <1>5
<1>7. a \o b = c BY <1>2, <1>3, <1>5, <1>6, SeqEqual
<1> QED BY <1>7 DEF a, b, c

\* What is appended to a trail, and to which.
LEMMA WrittenKeeps ==
    ASSUME trail \in [Jobs -> Trails], NEW j \in Jobs, NEW s, Written(j, s),
           \/ trail[j] = <<>> /\ s \in {<<"reject">>, <<"start">>, <<"start", "result">>}
           \/ trail[j] = <<"start">> /\ s = <<"result">>
    PROVE  /\ trail' \in [Jobs -> Trails]
           /\ trail'[j] = (IF trail[j] = <<>> THEN s ELSE <<"start", "result">>)
           /\ \A i \in Jobs \ {j} : trail'[i] = trail[i]
<1> DEFINE t == trail[j] \o s
<1>1. CASE trail[j] = <<>> /\ s \in {<<"reject">>, <<"start">>, <<"start", "result">>}
  BY <1>1 DEF Written, Trails
<1>2. CASE trail[j] = <<"start">> /\ s = <<"result">>  BY <1>2, OutcomeFollows DEF Written, Trails
<1> QED  BY <1>1, <1>2

\* A command settles, and what was written of it stands.
LEMMA SettleKeeps ==
    ASSUME NEW cache, CacheOK(cache), NEW k \in Commands, cache[k] # "done", NEW n \in 0..1,
           Settle(cache, k, n), trail'[k] \in Settled,
           \A j \in Commands \ {k} : trail'[j] = trail[j]
    PROVE  CacheOK(cmd)'
<1>1. /\ cache \in [Commands -> CommandStates] /\ waiting \subseteq Commands \X Conns
      /\ runs \in [Commands -> 0..1]
      /\ \A j \in Commands : EntryOK(cache[j], runs[j], trail[j])
      /\ \A w \in waiting : cache[w[1]] \in InFlight
  BY DEF CacheOK
<1>2. /\ cmd' = [cache EXCEPT ![k] = "done"] /\ waiting' = {w \in waiting : w[1] # k}
      /\ runs' = [runs EXCEPT ![k] = @ + n]
  BY DEF Settle
<1>3. runs[k] = 0  BY <1>1 DEF EntryOK, CommandStates
<1>5. \A j \in Commands : EntryOK(cmd'[j], runs'[j], trail'[j])
  <2> SUFFICES ASSUME NEW j \in Commands PROVE EntryOK(cmd'[j], runs'[j], trail'[j])  OBVIOUS
  <2>1. CASE j = k  BY <2>1, <1>1, <1>2, <1>3 DEF EntryOK
  <2>2. CASE j # k  BY <1>1, <1>2, <2>2
  <2> QED  BY <2>1, <2>2
<1>6. \A w \in waiting' : cmd'[w[1]] \in InFlight  BY <1>1, <1>2
<1>7. waiting' \subseteq Commands \X Conns  BY <1>1, <1>2
<1> QED  BY <1>1, <1>2, <1>3, <1>5, <1>6, <1>7 DEF CacheOK, CommandStates

\* A command goes on; a frame may join those that wait for it.
LEMMA AdvanceKeeps ==
    ASSUME NEW cache, CacheOK(cache), NEW k \in Commands, NEW at \in InFlight,
           Advance(cache, k, at),
           waiting' \subseteq waiting \cup ({k} \X Conns),
           EntryOK(at, runs[k], trail'[k]),
           \A j \in Commands \ {k} : trail'[j] = trail[j]
    PROVE  CacheOK(cmd)'
<1>1. /\ cache \in [Commands -> CommandStates] /\ waiting \subseteq Commands \X Conns
      /\ runs \in [Commands -> 0..1]
      /\ \A j \in Commands : EntryOK(cache[j], runs[j], trail[j])
      /\ \A w \in waiting : cache[w[1]] \in InFlight
  BY DEF CacheOK
<1>2. cmd' = [cache EXCEPT ![k] = at] /\ runs' = runs  BY DEF Advance
<1>3. cmd' \in [Commands -> CommandStates]  BY <1>1, <1>2 DEF CommandStates, InFlight
<1>4. \A j \in Commands : EntryOK(cmd'[j], runs'[j], trail'[j])
  <2> SUFFICES ASSUME NEW j \in Commands PROVE EntryOK(cmd'[j], runs'[j], trail'[j])  OBVIOUS
  <2>1. CASE j = k  BY <1>1, <1>2, <2>1
  <2>2. CASE j # k  BY <1>1, <1>2, <2>2
  <2> QED  BY <2>1, <2>2
<1>5. \A w \in waiting' : cmd'[w[1]] \in InFlight  BY <1>1, <1>2
<1>6. waiting' \subseteq Commands \X Conns  BY <1>1
<1> QED  BY <1>1, <1>2, <1>3, <1>4, <1>5, <1>6 DEF CacheOK

\* A step of a command leaves the phone alone: no request is a command.
LEMMA CommandKeeps ==
    ASSUME RemoteInv, CommandStep, agent' \in Agents, trail' \in [Jobs -> Trails],
           \A r \in Requests : trail'[r] = trail[r], CacheOK(cmd)'
    PROVE  RemoteInv'
<1>4. SwitchesOK'  BY DEF RemoteInv, SwitchesOK, phoneVars, CommandStep
<1> QED  BY <1>4 DEF RemoteInv, RequestsOK, phoneVars, CommandStep, SessionOK, StampIsAttached

\* What is written of a command is written of nothing else.
LEMMA WrittenOfCommand ==
    ASSUME RemoteInv, NEW k \in Commands, NEW s, Written(k, s),
           \/ trail[k] = <<>> /\ s \in {<<"reject">>, <<"start">>, <<"start", "result">>}
           \/ trail[k] = <<"start">> /\ s = <<"result">>
    PROVE  /\ trail' \in [Jobs -> Trails]
           /\ trail'[k] = (IF trail[k] = <<>> THEN s ELSE <<"start", "result">>)
           /\ \A j \in Commands \ {k} : trail'[j] = trail[j]
           /\ \A r \in Requests : trail'[r] = trail[r]
<1> QED  BY WrittenKeeps, JobsAssumption DEF Jobs, RemoteInv

\* The cache that the next frame finds, the stale entries gone.
LEMMA PurgedIsOK ==
    ASSUME CacheOK(cmd)
    PROVE  CacheOK([j \in Commands |-> IF cmd[j] = "stale" THEN "none" ELSE cmd[j]])
<1> DEFINE cache == [j \in Commands |-> IF cmd[j] = "stale" THEN "none" ELSE cmd[j]]
<1>1. \A j \in Commands : cache[j] = IF cmd[j] = "stale" THEN "none" ELSE cmd[j]  OBVIOUS
<1>2. cache \in [Commands -> CommandStates]  BY DEF CacheOK, CommandStates
<1> HIDE DEF cache
<1>3. \A j \in Commands : EntryOK(cache[j], runs[j], trail[j])
  <2> SUFFICES ASSUME NEW j \in Commands PROVE EntryOK(cache[j], runs[j], trail[j])  OBVIOUS
  <2> QED  BY <1>1 DEF EntryOK, CacheOK
<1>5. CacheOK(cache)  BY <1>2, <1>3, <1>1 DEF CacheOK, InFlight
<1> QED  BY <1>5 DEF cache

LEMMA FrameHolds ==
    ASSUME NEW k \in Commands, NEW c \in Conns, NEW token \in BOOLEAN
    PROVE  RemoteInv /\ Frame(k, c, token) => RemoteInv'
<1> SUFFICES ASSUME RemoteInv, Frame(k, c, token) PROVE RemoteInv'  OBVIOUS
<1> DEFINE cache == [j \in Commands |-> IF cmd[j] = "stale" THEN "none" ELSE cmd[j]]
<1>1. CacheOK(cmd) /\ trail \in [Jobs -> Trails] /\ agent \in Agents  BY DEF RemoteInv, SwitchesOK
<1>2. CacheOK(cache)  BY <1>1, PurgedIsOK
<1>3. /\ IF cache[k] = "none" THEN Dispatch(cache, k, c, token)
         ELSE /\ cmd' = cache
              /\ waiting' = IF cache[k] \in InFlight THEN waiting \cup {<<k, c>>} ELSE waiting
              /\ UNCHANGED <<runs, trail>>
      /\ CommandStep /\ agent' = agent
  BY DEF Frame
<1> HIDE DEF cache
<1>4. CASE cache[k] = "none"
  <2>4. CASE cmd' = cache /\ UNCHANGED <<waiting, runs, trail>>
    <3>1. CacheOK(cmd)'  BY <1>2, <2>4 DEF CacheOK
    <3> QED  BY <1>1, <1>3, <2>4, <3>1, CommandKeeps
  <2>5. CASE Settle(cache, k, 0) /\ Written(k, <<"reject">>)
    <3>1. /\ trail' \in [Jobs -> Trails] /\ trail'[k] = <<"reject">>
          /\ \A j \in Commands \ {k} : trail'[j] = trail[j]
          /\ \A r \in Requests : trail'[r] = trail[r]
      BY <1>4, <1>2, <2>5, WrittenOfCommand DEF EntryOK, CacheOK
    <3>3. CacheOK(cmd)'  BY <1>2, <1>4, <2>5, <3>1, SettleKeeps DEF Settled
    <3> QED  BY <1>1, <1>3, <3>1, <3>3, CommandKeeps
  <2>6. ASSUME NEW at \in {"resolve", "lookup"}, Advance(cache, k, at),
               waiting' = waiting \cup {<<k, c>>}, UNCHANGED trail
        PROVE  RemoteInv'
    <3>4. CacheOK(cmd)'  BY <1>2, <2>6, <1>4, AdvanceKeeps DEF InFlight, EntryOK, CacheOK
    <3> QED  BY <1>1, <1>3, <2>6, <3>4, CommandKeeps
  <2> QED  BY <1>3, <1>4, <2>4, <2>5, <2>6 DEF Dispatch
<1>5. CASE cache[k] # "none"
  <2>1. /\ cmd' = cache /\ UNCHANGED <<runs, trail>>
        /\ waiting' = IF cache[k] \in InFlight THEN waiting \cup {<<k, c>>} ELSE waiting
    BY <1>3, <1>5
  <2>2. CacheOK(cmd)'  BY <1>2, <2>1 DEF CacheOK
  <2> QED  BY <1>1, <1>3, <2>1, <2>2, CommandKeeps
<1> QED  BY <1>4, <1>5

\* Nothing waits for a command that is done, and the next one begins anew.
LEMMA ExpiresHolds == ASSUME NEW k \in Commands PROVE RemoteInv /\ Expires(k) => RemoteInv'
<1> SUFFICES ASSUME RemoteInv, Expires(k) PROVE RemoteInv'  OBVIOUS
<1>1. CacheOK(cmd) /\ trail \in [Jobs -> Trails] /\ agent \in Agents  BY DEF RemoteInv, SwitchesOK
<1>2. /\ cmd[k] = "done" /\ cmd' = [cmd EXCEPT ![k] = "stale"] /\ runs' = [runs EXCEPT ![k] = 0]
      /\ trail' = [trail EXCEPT ![k] = <<>>] /\ CommandStep /\ UNCHANGED <<waiting, agent>>
  BY DEF Expires
<1>3. k \in Jobs /\ Commands \subseteq Jobs /\ Requests \subseteq Jobs \ {k}
  BY JobsAssumption DEF Jobs
<1>4. /\ trail' \in [Jobs -> Trails] /\ trail'[k] = <<>>
      /\ \A i \in Jobs \ {k} : trail'[i] = trail[i]
  BY <1>1, <1>2, <1>3 DEF Trails
<1>5. CacheOK(cmd)'
  <2>1. cmd' \in [Commands -> CommandStates] /\ runs' \in [Commands -> 0..1]
    BY <1>1, <1>2 DEF CacheOK, CommandStates
  <2>2. \A j \in Commands : EntryOK(cmd'[j], runs'[j], trail'[j])
    <3> SUFFICES ASSUME NEW j \in Commands PROVE EntryOK(cmd'[j], runs'[j], trail'[j])  OBVIOUS
    <3>1. CASE j = k  BY <1>1, <1>2, <1>4, <3>1 DEF EntryOK, CacheOK
    <3>2. CASE j # k
      <4>2. cmd'[j] = cmd[j] /\ runs'[j] = runs[j]  BY <1>1, <1>2, <3>2 DEF CacheOK
      <4> QED  BY <1>1, <1>3, <1>4, <3>2, <4>2 DEF CacheOK
    <3> QED  BY <3>1, <3>2
  <2>3. \A w \in waiting' : cmd'[w[1]] \in InFlight
    BY <1>1, <1>2 DEF CacheOK, InFlight
  <2> QED  BY <1>1, <1>2, <2>1, <2>2, <2>3 DEF CacheOK
<1> QED  BY <1>1, <1>2, <1>3, <1>4, <1>5, CommandKeeps

\* The awaits of a command.
LEMMA LookedUpHolds == ASSUME NEW k \in Commands PROVE RemoteInv /\ LookedUp(k) => RemoteInv'
<1> SUFFICES ASSUME RemoteInv, LookedUp(k) PROVE RemoteInv'  OBVIOUS
<1>4. trail'[k] \in Settled  BY DEF EntryOK, Settled, LookedUp, CacheOK, RemoteInv, SwitchesOK
<1> QED  BY <1>4, SettleKeeps, CommandKeeps DEF RemoteInv, SwitchesOK, LookedUp

\* One that ends with nothing more written, after a rejection, or after it has acted.
LEMMA EndsHolds ==
    ASSUME RemoteInv, NEW k \in Commands, cmd[k] \in {"resolve", "route"},
           NEW n \in 0..1, NEW s \in {<<"reject">>, <<"start", "result">>},
           Settle(cmd, k, n), Written(k, s) \/ UNCHANGED trail, CommandStep, agent' \in Agents
    PROVE  RemoteInv'
<1>4. /\ trail' \in [Jobs -> Trails] /\ trail'[k] \in Settled
      /\ \A j \in Commands \ {k} : trail'[j] = trail[j]
      /\ \A r \in Requests : trail'[r] = trail[r]
  <2>1. CASE Written(k, s)  BY <2>1, WrittenOfCommand DEF Settled, EntryOK, CacheOK, RemoteInv
  <2>2. CASE UNCHANGED trail  BY <2>2 DEF Settled, RemoteInv, EntryOK, CacheOK
  <2> QED  BY <2>1, <2>2
<1> QED  BY <1>4, SettleKeeps, CommandKeeps DEF RemoteInv

LEMMA IdentifiedHolds == ASSUME NEW k \in Commands PROVE RemoteInv /\ Identified(k) => RemoteInv'
<1> SUFFICES ASSUME RemoteInv, Identified(k) PROVE RemoteInv'  OBVIOUS
<1>1. CacheOK(cmd) /\ trail \in [Jobs -> Trails] /\ agent \in Agents  BY DEF RemoteInv, SwitchesOK
<1>2. cmd[k] = "resolve" /\ CommandStep /\ agent' = agent  BY DEF Identified
<1>4. CASE Advance(cmd, k, "route") /\ UNCHANGED <<waiting, trail>>
  <2>3. CacheOK(cmd)'  BY <1>1, <1>4, <1>2, AdvanceKeeps DEF InFlight, EntryOK, CacheOK
  <2> QED  BY <1>1, <1>2, <1>4, <2>3, CommandKeeps
<1>5. CASE Settle(cmd, k, 0) /\ (Written(k, <<"reject">>) \/ UNCHANGED trail)
  BY <1>1, <1>2, <1>5, EndsHolds
<1> QED  BY <1>4, <1>5 DEF Identified

LEMMA RoutedHolds == ASSUME NEW k \in Commands PROVE RemoteInv /\ Routed(k) => RemoteInv'
<1> SUFFICES ASSUME RemoteInv, Routed(k) PROVE RemoteInv'  OBVIOUS
<1>1. CacheOK(cmd) /\ trail \in [Jobs -> Trails] /\ agent \in Agents  BY DEF RemoteInv, SwitchesOK
<1>2. cmd[k] = "route" /\ CommandStep  BY DEF Routed
<1>4. CASE agent \notin Safe
  BY <1>1, <1>2, <1>4, EndsHolds DEF Routed, Safe
<1>5. CASE agent = "idle"  BY <1>2, <1>5, EndsHolds DEF Routed, Safe, SentInput, Agents
<1>6. CASE agent \in Safe /\ agent # "idle"
  <2>1. /\ Advance(cmd, k, "execute") /\ Written(k, <<"start">>) /\ UNCHANGED <<waiting, agent>>
    BY <1>6 DEF Routed
  <2>3. /\ trail' \in [Jobs -> Trails] /\ trail'[k] = <<"start">>
        /\ \A j \in Commands \ {k} : trail'[j] = trail[j]
        /\ \A r \in Requests : trail'[r] = trail[r]  BY <2>1, <1>2, <1>1, WrittenOfCommand DEF EntryOK, CacheOK
  <2>6. CacheOK(cmd)'  BY <1>1, <2>1, <2>3, <1>2, AdvanceKeeps DEF EntryOK, CacheOK, InFlight
  <2> QED  BY <1>1, <1>2, <2>1, <2>3, <2>6, CommandKeeps
<1> QED  BY <1>4, <1>5, <1>6

LEMMA ExecutedHolds == ASSUME NEW k \in Commands PROVE RemoteInv /\ Executed(k) => RemoteInv'
<1> SUFFICES ASSUME RemoteInv, Executed(k) PROVE RemoteInv'  OBVIOUS
<1>2. cmd[k] = "execute" /\ Settle(cmd, k, 1) /\ Written(k, <<"result">>) /\ CommandStep
      /\ agent' \in Instructed
  BY DEF Executed
<1>5. /\ trail' \in [Jobs -> Trails] /\ trail'[k] = <<"start", "result">>
      /\ \A j \in Commands \ {k} : trail'[j] = trail[j]
      /\ \A r \in Requests : trail'[r] = trail[r]
  BY <1>2, WrittenOfCommand DEF EntryOK, CacheOK, RemoteInv, SwitchesOK
<1>6. trail'[k] \in Settled  BY <1>5 DEF Settled
<1>7. CacheOK(cmd)'  BY <1>2, <1>5, <1>6, SettleKeeps DEF RemoteInv, SwitchesOK
<1>8. agent' \in Agents  BY <1>2 DEF Instructed, Agents, Managed, RemoteInv, SwitchesOK
<1> QED  BY <1>2, <1>5, <1>7, <1>8, CommandKeeps

\* A step of the phone leaves the commands alone.
LEMMA PhoneKeeps ==
    ASSUME RemoteInv, PhoneStep, agent' \in Agents, changed' \in BOOLEAN,
           stamped' = stamped \/ (session.live /\ stamped' = session.generation),
           trail' \in [Jobs -> Trails], \A k \in Commands : trail'[k] = trail[k], RequestsOK'
    PROVE  RemoteInv'
<1>4. SwitchesOK'  BY DEF RemoteInv, SwitchesOK, PhoneStep
<1> QED  BY <1>4 DEF RemoteInv, CacheOK, cmdVars, PhoneStep, SessionOK, StampIsAttached

LEMMA WrittenOfRequest ==
    ASSUME RemoteInv, NEW r \in Requests, NEW s, Written(r, s),
           \/ trail[r] = <<>> /\ s \in {<<"reject">>, <<"start">>}
           \/ trail[r] = <<"start">> /\ s = <<"result">>
    PROVE  /\ trail' \in [Jobs -> Trails]
           /\ trail'[r] = (IF trail[r] = <<>> THEN s ELSE <<"start", "result">>)
           /\ \A q \in Requests \ {r} : trail'[q] = trail[q]
           /\ \A k \in Commands : trail'[k] = trail[k]
<1> QED  BY WrittenKeeps, JobsAssumption DEF Jobs, RemoteInv

\* A request goes to where it awaits next, or is over.
LEMMA RequestMoves ==
    ASSUME RequestsOK, NEW r \in Requests, NEW q \in Asked, req' = [req EXCEPT ![r] = q],
           RequestOK(q.at, trail'[r]),
           q.at \in {"resolve", "states", "execute"} => Caps[q.cap] = "act",
           \A p \in Requests \ {r} : trail'[p] = trail[p]
    PROVE  RequestsOK'
<1>3. \A p \in Requests :
        /\ RequestOK(req'[p].at, trail'[p])
        /\ req'[p].at \in {"resolve", "states", "execute"} => Caps[req'[p].cap] = "act"
  <2> SUFFICES ASSUME NEW p \in Requests
               PROVE  /\ RequestOK(req'[p].at, trail'[p])
                      /\ req'[p].at \in {"resolve", "states", "execute"} => Caps[req'[p].cap] = "act"
    OBVIOUS
  <2>1. CASE p = r  BY <2>1 DEF RequestsOK
  <2>2. CASE p # r  BY <2>2 DEF RequestsOK
  <2> QED  BY <2>1, <2>2
<1> QED  BY <1>3 DEF RequestsOK

\* A request that is over, with what was written of it.
LEMMA DoneKeeps ==
    ASSUME RequestsOK, NEW r \in Requests, Done(r), trail'[r] \in Settled,
           \A p \in Requests \ {r} : trail'[p] = trail[p]
    PROVE  RequestsOK'
<1> DEFINE q == [at |-> "none", cap |-> "report"]
<1>2. q \in Asked /\ q.at = "none"  BY DEF Asked, Caps
<1>3. req' = [req EXCEPT ![r] = q]  BY DEF Done
<1> HIDE DEF q
<1> QED  BY <1>2, <1>3, RequestMoves DEF RequestOK

LEMMA AtKeeps ==
    ASSUME RequestsOK, NEW r \in Requests, NEW at \in {"states", "execute"}, At(r, at),
           Caps[req[r].cap] = "act", RequestOK(at, trail'[r]),
           \A p \in Requests \ {r} : trail'[p] = trail[p]
    PROVE  RequestsOK'
<1> DEFINE q == [req[r] EXCEPT !.at = at]
<1>2. q \in Asked /\ q.at = at /\ q.cap = req[r].cap  BY DEF Asked, RequestsOK
<1>3. req' = [req EXCEPT ![r] = q]  BY DEF At
<1> HIDE DEF q
<1> QED  BY <1>2, <1>3, RequestMoves

LEMMA RequestHolds ==
    ASSUME NEW r \in Requests, NEW cap \in DOMAIN Caps
    PROVE  RemoteInv /\ Request(r, cap) => RemoteInv'
<1> SUFFICES ASSUME RemoteInv, Request(r, cap) PROVE RemoteInv'  OBVIOUS
<1>1. RequestsOK /\ trail \in [Jobs -> Trails] /\ agent \in Agents /\ changed \in BOOLEAN
  BY DEF RemoteInv, SwitchesOK
<1>2. session.live /\ trail[r] = <<>> /\ agent' = Typed(cap) /\ PhoneStep /\ changed' = changed
  BY DEF Request
<1>3. agent' \in Agents  BY <1>1, <1>2 DEF Typed, Agents
<1>4. stamped' = stamped \/ stamped' = session.generation  BY DEF Request
<1>5. CASE UNCHANGED <<req, trail>>
  <2>1. RequestsOK'  BY <1>1, <1>5 DEF RequestsOK
  <2> QED  BY <1>1, <1>2, <1>3, <1>4, <1>5, <2>1, PhoneKeeps
<1>6. CASE UNCHANGED req /\ Written(r, <<"reject">>)
  <2>1. /\ trail' \in [Jobs -> Trails] /\ trail'[r] = <<"reject">>
        /\ \A q \in Requests \ {r} : trail'[q] = trail[q]
        /\ \A k \in Commands : trail'[k] = trail[k]
    BY <1>2, <1>6, WrittenOfRequest
  <2>3. RequestsOK'  BY <1>1, <1>6, <2>1 DEF RequestsOK, RequestOK, Settled, Request
  <2> QED  BY <1>1, <1>2, <1>3, <1>4, <2>1, <2>3, PhoneKeeps
<1>7. ASSUME NEW at \in {"resolve", "lookup"}, at = "resolve" => Caps[cap] = "act",
             req' = [req EXCEPT ![r] = [at |-> at, cap |-> cap]], UNCHANGED trail
      PROVE  RemoteInv'
  <2> DEFINE q == [at |-> at, cap |-> cap]
  <2>1. q \in Asked /\ q.at = at /\ q.cap = cap  BY DEF Asked
  <2>2. req' = [req EXCEPT ![r] = q]  BY <1>7
  <2> HIDE DEF q
  <2>4. q.at \in {"resolve", "states", "execute"} => Caps[q.cap] = "act"  BY <1>7, <2>1
  <2>5. RequestsOK'  BY <1>1, <1>7, <2>1, <2>2, <1>2, <2>4, RequestMoves DEF RequestOK
  <2> QED  BY <1>1, <1>2, <1>3, <1>4, <1>7, <2>5, PhoneKeeps
<1>8. CASE Handled(r, cap)
  <2>1. acting \in BOOLEAN  BY DEF RemoteInv, SwitchesOK
  <2>2. CASE Caps[cap] = "act" /\ ~acting  BY <1>6, <1>8, <2>2 DEF Handled, Caps
  <2>3. CASE Caps[cap] = "act" /\ acting  BY <1>7, <2>3, <1>8 DEF Handled, Caps
  <2>4. CASE Caps[cap] # "act" /\ cap \in {"report", "list"}  BY <1>7, <1>8, <2>4 DEF Handled
  <2>5. CASE Caps[cap] # "act" /\ cap \notin {"report", "list"}
    BY <1>5, <1>8, <2>5 DEF Handled
  <2> QED  BY <2>1, <2>2, <2>3, <2>4, <2>5
<1> QED  BY <1>5, <1>8 DEF Request

LEMMA PhoneLookedUpHolds == ASSUME NEW r \in Requests PROVE RemoteInv /\ PhoneLookedUp(r) => RemoteInv'
<1> SUFFICES ASSUME RemoteInv, PhoneLookedUp(r) PROVE RemoteInv'  OBVIOUS
<1>4. trail'[r] \in Settled  BY DEF RequestOK, Settled, PhoneLookedUp, RequestsOK, RemoteInv, SwitchesOK
<1> QED  BY <1>4, DoneKeeps, PhoneKeeps DEF RemoteInv, SwitchesOK, PhoneLookedUp

LEMMA RefResolvedHolds == ASSUME NEW r \in Requests PROVE RemoteInv /\ RefResolved(r) => RemoteInv'
<1> SUFFICES ASSUME RemoteInv, RefResolved(r) PROVE RemoteInv'  OBVIOUS
<1>1. RequestsOK /\ trail \in [Jobs -> Trails] /\ agent \in Agents /\ changed \in BOOLEAN
  BY DEF RemoteInv, SwitchesOK
<1>2. req[r].at = "resolve" /\ PhoneStep /\ UNCHANGED <<stamped, changed, agent>>
  BY DEF RefResolved
<1>5. CASE At(r, "states") /\ UNCHANGED trail
  <2>2. RequestsOK'  BY <1>1, <1>2, <1>5, AtKeeps DEF RequestsOK, RequestOK
  <2> QED  BY <1>1, <1>2, <1>5, <2>2, PhoneKeeps
<1>6. CASE Done(r) /\ Written(r, <<"reject">>)
  <2>1. /\ trail' \in [Jobs -> Trails] /\ trail'[r] = <<"reject">>
        /\ \A q \in Requests \ {r} : trail'[q] = trail[q]
        /\ \A k \in Commands : trail'[k] = trail[k]
    BY <1>2, <1>1, <1>6, WrittenOfRequest DEF RequestOK, RequestsOK
  <2>2. RequestsOK'  BY <1>1, <1>6, <2>1, DoneKeeps DEF Settled
  <2> QED  BY <1>1, <1>2, <2>1, <2>2, PhoneKeeps
<1> QED  BY <1>5, <1>6 DEF RefResolved

LEMMA WorkflowResolvedHolds ==
    ASSUME NEW r \in Requests PROVE RemoteInv /\ WorkflowResolved(r) => RemoteInv'
<1> SUFFICES ASSUME RemoteInv, WorkflowResolved(r) PROVE RemoteInv'  OBVIOUS
<1>1. RequestsOK /\ trail \in [Jobs -> Trails] /\ agent \in Agents /\ changed \in BOOLEAN
  BY DEF RemoteInv, SwitchesOK
<1>2. req[r].at = "states" /\ PhoneStep /\ UNCHANGED <<stamped, changed, agent>>
  BY DEF WorkflowResolved
<1>4. trail[r] = <<>>  BY <1>2, <1>1 DEF RequestOK, RequestsOK
<1>5. CASE At(r, "execute") /\ Written(r, <<"start">>)
  <2>1. /\ trail' \in [Jobs -> Trails] /\ trail'[r] = <<"start">>
        /\ \A q \in Requests \ {r} : trail'[q] = trail[q]
        /\ \A k \in Commands : trail'[k] = trail[k]
    BY <1>4, <1>5, WrittenOfRequest
  <2>3. RequestsOK'  BY <1>1, <1>2, <1>5, <2>1, AtKeeps DEF RequestsOK, RequestOK
  <2> QED  BY <1>1, <1>2, <2>1, <2>3, PhoneKeeps
<1>6. CASE Done(r) /\ Written(r, <<"reject">>)
  <2>1. /\ trail' \in [Jobs -> Trails] /\ trail'[r] = <<"reject">>
        /\ \A q \in Requests \ {r} : trail'[q] = trail[q]
        /\ \A k \in Commands : trail'[k] = trail[k]
    BY <1>4, <1>6, WrittenOfRequest
  <2>2. RequestsOK'  BY <1>1, <1>6, <2>1, DoneKeeps DEF Settled
  <2> QED  BY <1>1, <1>2, <2>1, <2>2, PhoneKeeps
<1>7. CASE Done(r) /\ UNCHANGED trail
  <2>1. RequestsOK'  BY <1>1, <1>4, <1>7, DoneKeeps DEF Settled
  <2> QED  BY <1>1, <1>2, <1>7, <2>1, PhoneKeeps
<1> QED  BY <1>5, <1>6, <1>7 DEF WorkflowResolved

LEMMA PhoneExecutedHolds == ASSUME NEW r \in Requests PROVE RemoteInv /\ PhoneExecuted(r) => RemoteInv'
<1> SUFFICES ASSUME RemoteInv, PhoneExecuted(r) PROVE RemoteInv'  OBVIOUS
<1>2. /\ req[r].at = "execute" /\ Done(r) /\ Written(r, <<"result">>)
      /\ PhoneStep /\ UNCHANGED stamped
  BY DEF PhoneExecuted
<1>5. /\ trail' \in [Jobs -> Trails] /\ trail'[r] = <<"start", "result">>
      /\ \A q \in Requests \ {r} : trail'[q] = trail[q]
      /\ \A k \in Commands : trail'[k] = trail[k]
  BY <1>2, WrittenOfRequest DEF RequestOK, RequestsOK, RemoteInv, SwitchesOK
<1>7. RequestsOK'  BY <1>2, <1>5, DoneKeeps DEF RemoteInv, SwitchesOK, Settled
<1>9. agent' \in Agents /\ changed' \in BOOLEAN
  BY DEF Agents, Managed, RemoteInv, SwitchesOK, PhoneExecuted, Effect
<1> QED  BY <1>2, <1>5, <1>7, <1>9, PhoneKeeps

LEMMA ForgottenHolds == ASSUME NEW r \in Requests PROVE RemoteInv /\ Forgotten(r) => RemoteInv'
<1> SUFFICES ASSUME RemoteInv, Forgotten(r) PROVE RemoteInv'  OBVIOUS
<1>1. RequestsOK /\ trail \in [Jobs -> Trails] /\ agent \in Agents /\ changed \in BOOLEAN
  BY DEF RemoteInv, SwitchesOK
<1>2. /\ req[r].at = "none" /\ trail' = [trail EXCEPT ![r] = <<>>] /\ PhoneStep
      /\ UNCHANGED <<stamped, req, changed, agent>>
  BY DEF Forgotten
<1>3. r \in Jobs /\ Requests \subseteq Jobs /\ Commands \subseteq Jobs \ {r}
  BY JobsAssumption DEF Jobs
<1>4. /\ trail' \in [Jobs -> Trails] /\ trail'[r] = <<>>
      /\ \A i \in Jobs \ {r} : trail'[i] = trail[i]
  BY <1>1, <1>2, <1>3 DEF Trails
<1>6. RequestsOK'  BY <1>1, <1>2, <1>3, <1>4 DEF RequestsOK, RequestOK, Settled
<1> QED  BY <1>1, <1>2, <1>3, <1>4, <1>6, PhoneKeeps

LEMMA CoalesceHolds == RemoteInv /\ CoalesceTimer => RemoteInv'
<1> SUFFICES ASSUME RemoteInv, CoalesceTimer PROVE RemoteInv'  OBVIOUS
<1> QED  BY PhoneKeeps DEF RemoteInv, SwitchesOK, CoalesceTimer, RequestsOK

\* The pairing and the switches: no command and no request moves.
LEMMA EventKeeps ==
    ASSUME RemoteInv, UNCHANGED <<cmdVars, req, trail>>, SessionOK', SwitchesOK'
    PROVE  RemoteInv'
  BY DEF RemoteInv, CacheOK, RequestsOK, cmdVars

LEMMA EventsStay ==
    ASSUME events \in 0..MaxEvents, Event
    PROVE  events' = events + 1 /\ events' \in 0..MaxEvents
  BY CachedAssumption DEF Event

LEMMA AttachHolds == ASSUME NEW g \in Grants PROVE RemoteInv /\ Attach(g) => RemoteInv'
<1> SUFFICES ASSUME RemoteInv, Attach(g) PROVE RemoteInv'  OBVIOUS
<1>4. session.generation + 1 \in Generations /\ session.generation + 1 <= events'
  BY EventsStay, CachedAssumption DEF SessionOK, Generations, RemoteInv, Attach
<1>6. SessionOK'
  BY EventsStay, <1>4, GrantsAssumption DEF SessionOK, StampIsAttached, Permissions, RemoteInv, Attach
<1> QED  BY <1>6, EventKeeps DEF SwitchesOK, RemoteInv, Attach

LEMMA DetachHolds == ASSUME NEW stop \in BOOLEAN PROVE RemoteInv /\ Detach(stop) => RemoteInv'
<1> SUFFICES ASSUME RemoteInv, Detach(stop) PROVE RemoteInv'  OBVIOUS
<1>1. SessionOK /\ SwitchesOK  BY DEF RemoteInv
<1>2. /\ session' = [session EXCEPT !.live = FALSE, !.grants = {}]
      /\ stamped' = Nothing /\ Event /\ changed' = (changed /\ ~stop)
      /\ UNCHANGED <<cmdVars, killed, req, acting, input, agent, trail>>
  BY DEF Detach
<1>5. /\ session' \in [live : BOOLEAN, grants : SUBSET Permissions, generation : Generations]
      /\ session'.generation = session.generation
  BY <1>1, <1>2 DEF SessionOK
<1>6. session'.generation <= events'  BY <1>1, <1>2, EventsStay, <1>5 DEF Generations, SessionOK
<1> QED  BY <1>2, <1>1, EventsStay, <1>5, <1>6, EventKeeps DEF SwitchesOK, SessionOK, StampIsAttached

LEMMA SwitchHolds == RemoteInv /\ Switch => RemoteInv'
<1> SUFFICES ASSUME RemoteInv, Switch PROVE RemoteInv'  OBVIOUS
<1>4. session.generation <= events'  BY EventsStay DEF SessionOK, Generations, RemoteInv, Switch
<1>5. SessionOK'  BY EventsStay, <1>4 DEF SessionOK, StampIsAttached, RemoteInv, Switch
<1> QED  BY <1>5, EventKeeps DEF SwitchesOK, Switch, RemoteInv

LEMMA CommandsStep == RemoteInv /\ CommandNext => RemoteInv'
<1> SUFFICES ASSUME RemoteInv, CommandNext PROVE RemoteInv'  OBVIOUS
<1>1. ASSUME NEW k \in Commands,
             \/ \E c \in Conns, token \in BOOLEAN : Frame(k, c, token)
             \/ Expires(k) \/ LookedUp(k) \/ Identified(k) \/ Routed(k) \/ Executed(k)
      PROVE  RemoteInv'
  BY <1>1, FrameHolds, ExpiresHolds, LookedUpHolds, IdentifiedHolds, RoutedHolds, ExecutedHolds
<1>2. ASSUME NEW r \in Requests,
             \/ \E cap \in DOMAIN Caps : Request(r, cap)
             \/ PhoneLookedUp(r) \/ RefResolved(r) \/ WorkflowResolved(r)
             \/ PhoneExecuted(r) \/ Forgotten(r)
      PROVE  RemoteInv'
  BY <1>2, RequestHolds, PhoneLookedUpHolds, RefResolvedHolds, WorkflowResolvedHolds,
     PhoneExecutedHolds, ForgottenHolds
<1> QED  BY <1>1, <1>2, CoalesceHolds, SwitchHolds, AttachHolds, DetachHolds DEF CommandNext

LEMMA CommandsStart == Init => RemoteInv
<1> SUFFICES ASSUME Init PROVE RemoteInv  OBVIOUS
<1>1. RemoteInit  BY DEF Init
<1>2. CacheOK(cmd)  BY <1>1 DEF CacheOK, EntryOK, RemoteInit, CommandStates, Jobs
<1>3. RequestsOK
  <2> DEFINE q == [at |-> "none", cap |-> "report"]
  <2>2. q \in Asked /\ q.at = "none"  BY DEF Asked, Caps
  <2>3. req = [r \in Requests |-> q]  BY <1>1 DEF RemoteInit
  <2> HIDE DEF q
  <2> QED  BY <2>2, <2>3, <1>1 DEF RequestsOK, RequestOK, Settled, RemoteInit, Jobs
<1>4. SessionOK  BY <1>1, CachedAssumption DEF RemoteInit, SessionOK, StampIsAttached, Generations
<1>5. SwitchesOK  BY <1>1 DEF RemoteInit, SwitchesOK
<1>6. trail \in [Jobs -> Trails]  BY <1>1 DEF RemoteInit, Trails
<1> QED  BY <1>2, <1>3, <1>4, <1>5, <1>6 DEF RemoteInv

-----------------------------------------------------------------------------
(* The two, side by side.                                                  *)

RemoteIInv == part \in {"link", "commands"} /\ LinkInv /\ RemoteInv

\* No command and no request touches the link.
LEMMA CommandsLeaveTheLink == CommandNext => UNCHANGED linkVars
<1>3. ASSUME NEW k \in Commands,
             \/ \E c \in Conns, token \in BOOLEAN : Frame(k, c, token)
             \/ Expires(k) \/ LookedUp(k) \/ Identified(k) \/ Routed(k) \/ Executed(k)
      PROVE  UNCHANGED linkVars  BY <1>3 DEF Frame, Expires, LookedUp, Identified, Routed, Executed, CommandStep
<1>4. ASSUME NEW r \in Requests,
             \/ \E cap \in DOMAIN Caps : Request(r, cap)
             \/ PhoneLookedUp(r) \/ RefResolved(r) \/ WorkflowResolved(r)
             \/ PhoneExecuted(r) \/ Forgotten(r)
      PROVE  UNCHANGED linkVars
  BY <1>4 DEF Request, PhoneLookedUp, RefResolved, WorkflowResolved, PhoneExecuted, Forgotten, PhoneStep
<1>5. CoalesceTimer => UNCHANGED linkVars  BY DEF CoalesceTimer, PhoneStep
<1>6. Switch => UNCHANGED linkVars  BY DEF Switch
<1>7. (\E g \in Grants : Attach(g)) => UNCHANGED linkVars  BY DEF Attach
<1>8. (\E stop \in BOOLEAN : Detach(stop)) => UNCHANGED linkVars  BY DEF Detach
<1> QED  BY <1>3, <1>4, <1>5, <1>6, <1>7, <1>8 DEF CommandNext

LEMMA LinkStays ==
    ASSUME UNCHANGED linkVars
    PROVE  /\ LinkInv => LinkInv'
           /\ PlaneFollowsRegistration => PlaneFollowsRegistration'
  BY DEF linkVars, LinkInv, ClientOK, PlaneFollowsRegistration

LEMMA CommandsStay ==
    ASSUME UNCHANGED <<cmdVars, phoneVars, remoteVars>>
    PROVE  RemoteInv => RemoteInv'
<1> SUFFICES ASSUME RemoteInv PROVE RemoteInv'  OBVIOUS
<1>4. SwitchesOK'  BY DEF RemoteInv, SwitchesOK, phoneVars, remoteVars
<1> QED  BY <1>4 DEF RemoteInv, remoteVars, CacheOK, cmdVars, RequestsOK, phoneVars, SessionOK, StampIsAttached

LEMMA RemoteStarts == Init => RemoteIInv /\ PlaneFollowsRegistration
  BY LinkStarts, CommandsStart DEF RemoteIInv, Init

LEMMA RemoteStep ==
    RemoteIInv /\ [Next]_vars =>
        RemoteIInv' /\ (EarlyClick \/ (PlaneFollowsRegistration => PlaneFollowsRegistration'))
<1> SUFFICES ASSUME RemoteIInv, [Next]_vars
             PROVE  RemoteIInv' /\ (EarlyClick \/ (PlaneFollowsRegistration => PlaneFollowsRegistration'))
    OBVIOUS
<1>1. part' = part  BY DEF Next, vars
<1>2. CASE LinkNext /\ UNCHANGED <<cmdVars, phoneVars, remoteVars>>
  BY <1>1, <1>2, LinkStep, CommandsStay DEF RemoteIInv
<1>3. CASE Sockets /\ UNCHANGED <<cmdVars, phoneVars, remoteVars>>
  BY <1>1, <1>3, SocketsStep, CommandsStay DEF RemoteIInv, LinkHolds
<1>4. CASE CommandNext
  BY <1>1, <1>4, CommandsLeaveTheLink, LinkStays, CommandsStep DEF RemoteIInv
<1>5. CASE UNCHANGED vars
  BY <1>1, <1>5, LinkStays, CommandsStay DEF RemoteIInv, vars, controlVars
<1> QED  BY <1>2, <1>3, <1>4, <1>5 DEF Next

LEMMA RemoteAlways == Spec => []RemoteIInv
  BY RemoteStarts, RemoteStep, PTL DEF Spec

\* The driver, the client and the sockets, the commands and the requests keep the types the
\* sources declare: samantha-driver.ts, idempotent-dispatcher.ts, xbp-peer-session.ts.
THEOREM TypeCorrect == Spec => []TypeOK
<1>1. RemoteIInv => TypeOK  BY LinkIsTyped, RemoteIsTyped DEF RemoteIInv, TypeOK
<1> QED  BY <1>1, RemoteAlways, PTL

\* No requestId acts twice while its result is kept, whatever is sent again and whichever
\* socket dies; nothing acts before the audit says so; and no frame waits for a command that
\* is over (idempotent-dispatcher.ts, act-guard.ts, xbp-acting-executor.ts).
THEOREM CommandsCorrect == Spec => []CommandsAreAccounted
<1>1. RemoteIInv => CommandsAreAccounted  BY RemoteIsTyped DEF RemoteIInv
<1> QED  BY <1>1, RemoteAlways, PTL

\* Samantha is told an event only of worktrees she was shown, through every crash, conflict
\* and re-registration and whenever the driver is stopped (runRebuild).
THEOREM EventsCorrect == Spec => []EventsFollowSnapshot
<1>1. RemoteIInv => EventsFollowSnapshot  BY LinkIsTyped DEF RemoteIInv
<1> QED  BY <1>1, RemoteAlways, PTL

\* The connection that is stamped as authenticated is the attached one (xbp-peer-session.ts).
THEOREM StampCorrect == Spec => []StampIsAttached
<1>1. RemoteIInv => StampIsAttached  BY RemoteIsTyped DEF RemoteIInv
<1> QED  BY <1>1, RemoteAlways, PTL

\* What the run checks, all of it: the command plane is added, which follows the
\* registration unless Reconnect is clicked before the first one (reconnectNow).
THEOREM RemoteCorrect == EarlyClick = FALSE => (Spec => []RemoteIsAccounted)
<1> SUFFICES ASSUME EarlyClick = FALSE PROVE Spec => []RemoteIsAccounted  OBVIOUS
<1>1. RemoteIInv /\ PlaneFollowsRegistration /\ [Next]_vars => PlaneFollowsRegistration'
  BY RemoteStep
<1>2. Init => PlaneFollowsRegistration  BY RemoteStarts
<1>3. Spec => []PlaneFollowsRegistration  BY <1>1, <1>2, RemoteAlways, PTL DEF Spec
<1>4. RemoteIInv /\ PlaneFollowsRegistration => RemoteIsAccounted
  BY LinkIsTyped, RemoteIsTyped DEF RemoteIInv, RemoteIsAccounted, LinkIsHonest
<1> QED  BY <1>3, <1>4, RemoteAlways, PTL

=============================================================================
