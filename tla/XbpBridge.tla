------------------------------- MODULE XbpBridge -------------------------------
(***************************************************************************)
(* services/xbp/xbp-host-service.ts: the life of the phone bridge, from    *)
(* the toggle over the LAN listener, the pairing host and the peer session *)
(* to the relay registration, with the paired device and its file.         *)
(*                                                                         *)
(* A toggle is cut where it awaits: start() for the crypto backend (the    *)
(* first time) and for the listener, stop() for the listener to close.     *)
(* Everything else is one task.  The pairing host (XbpPairingHost over the *)
(* vendored ReferenceHost) is a record: its offer token, the peer that     *)
(* waits for the SAS, and the SAS it shows.  What a registration does is   *)
(* PhoneLink's subject; here it is the URL it was started with.            *)
(***************************************************************************)
EXTENDS Naturals, FiniteSets

CONSTANTS Phones,     \* devices
          Urls,       \* relay base URLs
          None,       \* nothing, null, ""
          MaxOffers,  \* bound: pairing offers
          MaxTasks,   \* bound: toggles, restarts and settings changes
          Calls,      \* setEnabled calls that may be in flight
          Overlap,    \* may a toggle come while another one is in flight
          ApplyBusy,  \* may the relay base change while a toggle is in flight
          DiskFails   \* may paired-device.enc fail to be written or read

ASSUME BoundAssumption == MaxOffers \in Nat /\ MaxTasks \in Nat
ASSUME FlagAssumption == {Overlap, ApplyBusy} \subseteq BOOLEAN /\ DiskFails \in BOOLEAN

VARIABLES enabled,       \* enabled
          backend,       \* is the crypto backend loaded
          identity,      \* is the identity loaded
          lan,           \* lan: the listener in use
          listeners,     \* listeners that are open
          pairing,       \* pairingHost
          session,       \* peerSession: whom it serves
          device,        \* pairedDevice
          file,          \* paired-device.enc
          unsaved,       \* the last device that was confirmed could not be saved
          offer,         \* pendingOffer, with its timer
          expired,       \* offers whose time is over
          subscribed,    \* unsubscribe: are changes sent on to the session
          url,           \* relayBaseUrl
          registration,  \* the URL the relay registration is for
          kill,          \* killSwitchOn
          call,          \* call[c]: what setEnabled call c awaits
          booting,       \* is the first of them still in flight
          wanted,        \* what the last toggle asked for
          dropped,       \* offers made before the last forget, cancel or stop
          offers, tasks

lifeVars == <<enabled, backend, identity, lan, listeners, subscribed, call, booting, wanted>>
pairVars == <<pairing, session, device, file, unsaved, offer, expired, dropped, offers>>
vars == <<lifeVars, pairVars, url, registration, kill, tasks>>

Offers == 1..MaxOffers
OrNone(S) == S \cup {None}

Hosts == [token : OrNone(Offers), peer : OrNone(Phones), by : OrNone(Offers),
          sas : OrNone(Phones), kill : BOOLEAN]
NewHost == [token |-> None, peer |-> None, by |-> None, sas |-> None, kill |-> kill]

Awaits == {"backend", "listen", "close"}
Lans == 1..MaxTasks

\* null is a value of its own.
ASSUME NoneAssumption == None \notin Phones \cup Urls \cup Hosts \cup Awaits /\ None \notin Nat

TypeOK ==
    /\ {enabled, backend, identity, subscribed, booting, kill, wanted, unsaved} \subseteq BOOLEAN
    /\ lan \in OrNone(Lans) /\ listeners \subseteq Lans
    /\ pairing \in OrNone(Hosts)
    /\ session \in OrNone([peer : OrNone(Phones), kill : BOOLEAN])
    /\ {device, file} \subseteq OrNone(Phones)
    /\ offer \in OrNone(Offers)
    /\ expired \subseteq Offers /\ dropped \subseteq Offers
    /\ {url, registration} \subseteq OrNone(Urls)
    /\ call \in [Calls -> OrNone(Awaits)]
    /\ offers \in 0..MaxOffers /\ tasks \in 0..MaxTasks
    \* only an identity that is loaded registers, only with a pairing host was offered
    /\ registration # None => identity /\ backend
    /\ offer # None => offer <= offers

BootCall == CHOOSE c \in Calls : TRUE

\* The state of a new process.  The service is only made when the setting is on, and
\* is enabled at once.
Fresh ==
    /\ enabled' = TRUE
    /\ call' = [c \in Calls |-> IF c = BootCall THEN "backend" ELSE None]
    /\ booting' = TRUE
    /\ wanted' = TRUE
    /\ backend' = FALSE
    /\ identity' = FALSE
    /\ lan' = None
    /\ listeners' = {}
    /\ pairing' = None
    /\ session' = None
    /\ device' = None
    /\ unsaved' = FALSE
    /\ offer' = None
    /\ subscribed' = FALSE
    /\ registration' = None
    /\ kill' = FALSE

Init ==
    /\ enabled = TRUE
    /\ call = [c \in Calls |-> IF c = BootCall THEN "backend" ELSE None]
    /\ booting = TRUE
    /\ wanted = TRUE
    /\ backend = FALSE
    /\ identity = FALSE
    /\ lan = None
    /\ listeners = {}
    /\ pairing = None
    /\ session = None
    /\ device = None
    /\ file \in OrNone(Phones)
    /\ unsaved = FALSE
    /\ offer = None
    /\ expired = {}
    /\ subscribed = FALSE
    /\ url \in OrNone(Urls)
    /\ registration = None
    /\ kill = FALSE
    /\ dropped = {}
    /\ offers = 0
    /\ tasks = 0

Task == tasks < MaxTasks /\ tasks' = tasks + 1

-----------------------------------------------------------------------------
(* The toggle.                                                             *)

Busy == \E c \in Calls : call[c] # None

\* Call c comes to its end.  The handlers of the settings are registered when the boot
\* call has.
Return(c) == call' = [call EXCEPT ![c] = None] /\ booting' = FALSE

\* start() runs until it awaits.  The identity may not be readable.
LoadIdentity(c) ==
    \/ /\ identity' = TRUE
       /\ pairing' = NewHost
       /\ call' = [call EXCEPT ![c] = "listen"]
       /\ UNCHANGED booting
    \/ /\ Return(c)
       /\ UNCHANGED <<identity, pairing>>

Enable(c) ==
    /\ Task
    /\ call[c] = None
    /\ ~booting
    /\ Overlap \/ ~Busy
    /\ wanted' = TRUE
    /\ IF enabled
       THEN UNCHANGED <<enabled, call, booting, identity, pairing>>
       ELSE /\ enabled' = TRUE
            /\ IF backend
               THEN LoadIdentity(c)
               ELSE call' = [call EXCEPT ![c] = "backend"] /\ UNCHANGED <<booting, identity, pairing>>
    /\ UNCHANGED <<backend, lan, listeners, subscribed, session, device, file, unsaved, offer,
                   expired, dropped, offers, url, registration, kill>>

BackendReady(c) ==
    /\ call[c] = "backend"
    /\ backend' = TRUE
    /\ LoadIdentity(c)
    /\ UNCHANGED <<enabled, lan, listeners, subscribed, wanted, session, device, file, unsaved,
                   offer, expired, dropped, offers, url, registration, kill, tasks>>

ListenFails(c) ==
    /\ call[c] = "listen"
    /\ Return(c)
    /\ UNCHANGED <<enabled, backend, identity, lan, listeners, subscribed, wanted, pairVars, url,
                   registration, kill, tasks>>

\* startRelayRegistration
Registered(base) ==
    IF registration # None \/ base = None \/ ~identity \/ ~backend THEN registration ELSE base

\* The rest of start().  When the device cannot be read it ends before it subscribes.
Listening(c) ==
    /\ call[c] = "listen"
    /\ Return(c)
    /\ \E l \in Lans \ listeners :
          /\ \A x \in Lans \ listeners : l <= x
          /\ lan' = l
          /\ listeners' = listeners \cup {l}
    /\ \/ /\ session' = [peer |-> file, kill |-> kill]
          /\ device' = file
          /\ subscribed' = TRUE
          /\ enabled' = TRUE
          /\ registration' = Registered(url)
       \/ /\ DiskFails
          /\ session' = [peer |-> None, kill |-> kill]
          /\ UNCHANGED <<device, subscribed, enabled, registration>>
    /\ UNCHANGED <<backend, identity, wanted, pairing, file, unsaved, offer, expired, dropped, offers,
                   url, kill, tasks>>

\* stop() until it awaits the listener, or until its end.
StopBridge ==
    /\ subscribed' = FALSE
    /\ session' = None
    /\ registration' = None

Stopped ==
    /\ pairing' = None
    /\ offer' = None
    /\ dropped' = 1..offers
    /\ enabled' = FALSE

Disable(c) ==
    /\ Task
    /\ call[c] = None
    /\ ~booting
    /\ Overlap \/ ~Busy
    /\ wanted' = FALSE
    /\ IF ~enabled
       THEN UNCHANGED <<enabled, call, pairing, offer, dropped, subscribed, session, registration>>
       ELSE /\ StopBridge
            /\ IF lan # None
               THEN call' = [call EXCEPT ![c] = "close"] /\ UNCHANGED <<enabled, pairing, offer, dropped>>
               ELSE Stopped /\ UNCHANGED call
    /\ UNCHANGED <<backend, identity, lan, listeners, booting, device, file, unsaved, expired, offers, url,
                   kill>>

Closed(c) ==
    /\ call[c] = "close"
    /\ Return(c)
    /\ listeners' = listeners \ {lan}
    /\ lan' = None
    /\ Stopped
    /\ UNCHANGED <<backend, identity, subscribed, wanted, session, device, file, unsaved, expired, offers,
                   url, registration, kill, tasks>>

\* The process ends and starts again.
Restart ==
    /\ Task
    /\ Fresh
    /\ dropped' = 1..offers
    /\ UNCHANGED <<file, expired, offers, url>>

-----------------------------------------------------------------------------
(* Pairing.                                                                *)

\* resetPairingHost
Reset == pairing' = IF pairing = None THEN None ELSE NewHost

\* Without a listener or a pairing host it throws and changes nothing.
StartPairing ==
    /\ lan # None /\ pairing # None
    /\ offers < MaxOffers
    /\ offers' = offers + 1
    /\ pairing' = [pairing EXCEPT !.token = offers + 1]
    /\ offer' = offers + 1
    /\ UNCHANGED <<lifeVars, session, device, file, unsaved, expired, dropped, url, registration, kill,
                   tasks>>

Expires(o) ==
    /\ o \in 1..offers \ expired
    /\ expired' = expired \cup {o}
    /\ UNCHANGED <<lifeVars, pairing, session, device, file, unsaved, offer, dropped, offers, url,
                   registration, kill, tasks>>

\* The timer of setPendingOffer.
OfferTimer ==
    /\ offer # None
    /\ offer \in expired
    /\ offer' = None
    /\ UNCHANGED <<lifeVars, pairing, session, device, file, unsaved, expired, dropped, offers, url,
                   registration, kill, tasks>>

\* A pair-request with the token of offer o reaches a listener.
PairRequest(p, o) ==
    /\ lan # None /\ session # None
    /\ pairing # None
    /\ pairing.token = o
    /\ pairing' = IF o \in expired
                  THEN [pairing EXCEPT !.token = None]
                  ELSE [pairing EXCEPT !.token = None, !.peer = p, !.by = o, !.sas = p]
    /\ UNCHANGED <<lifeVars, session, device, file, unsaved, offer, expired, dropped, offers, url,
                   registration, kill, tasks>>

\* The confirmed peer is used up before the session is attached and the device is
\* saved: when there is no session, or the save fails, the call throws there.
ConfirmThrows == pairing' = [pairing EXCEPT !.peer = None, !.by = None] /\ UNCHANGED <<file, offer>>

\* Both outcomes swap the pairing host.
Confirm(ok) ==
    /\ ~booting
    /\ pairing # None
    /\ \/ /\ ok /\ pairing.peer # None
          /\ session # None
          /\ session' = [session EXCEPT !.peer = pairing.peer]
          /\ device' = pairing.peer
          /\ \/ Reset /\ file' = pairing.peer /\ offer' = None /\ unsaved' = FALSE
             \/ DiskFails /\ ConfirmThrows /\ unsaved' = TRUE
       \/ /\ ok /\ pairing.peer # None
          /\ session = None
          /\ ConfirmThrows
          /\ UNCHANGED <<session, device, unsaved>>
       \/ /\ ~ok \/ pairing.peer = None
          /\ Reset
          /\ offer' = None
          /\ UNCHANGED <<session, device, file, unsaved>>
    /\ UNCHANGED <<lifeVars, expired, dropped, offers, url, registration, kill, tasks>>

Cancel ==
    /\ ~booting
    /\ Reset
    /\ offer' = None
    /\ dropped' = 1..offers
    /\ UNCHANGED <<lifeVars, session, device, file, unsaved, expired, offers, url, registration, kill,
                   tasks>>

\* Mutant: the pairing host survives the forget.
ForgetKeepsHost ==
    /\ ~booting
    /\ session' = IF session = None THEN None ELSE [session EXCEPT !.peer = None]
    /\ offer' = None
    /\ dropped' = 1..offers
    /\ device' = None
    /\ file' = None
    /\ unsaved' = FALSE
    /\ UNCHANGED <<pairing, lifeVars, expired, offers, url, registration, kill, tasks>>

Forget ==
    /\ ~booting
    /\ session' = IF session = None THEN None ELSE [session EXCEPT !.peer = None]
    /\ Reset
    /\ offer' = None
    /\ dropped' = 1..offers
    /\ device' = None
    /\ file' = None
    /\ unsaved' = FALSE
    /\ UNCHANGED <<lifeVars, expired, offers, url, registration, kill, tasks>>

-----------------------------------------------------------------------------
(* Settings.                                                               *)

\* Mutant: a registration without an identity.
ApplyUnguarded(base) ==
    /\ Task
    /\ ~booting
    /\ ApplyBusy \/ ~Busy
    /\ base # url
    /\ url' = base
    /\ registration' = IF enabled THEN base ELSE None
    /\ UNCHANGED <<lifeVars, pairVars, kill>>

ApplyRelayBaseUrl(base) ==
    /\ Task
    /\ ~booting
    /\ ApplyBusy \/ ~Busy
    /\ base # url
    /\ url' = base
    /\ registration' = IF enabled /\ base # None /\ identity /\ backend THEN base ELSE None
    /\ UNCHANGED <<lifeVars, pairVars, kill>>

SetKillSwitch ==
    /\ ~booting
    /\ Task
    /\ kill' = ~kill
    /\ pairing' = IF pairing = None THEN None ELSE [pairing EXCEPT !.kill = ~kill]
    /\ session' = IF session = None THEN None ELSE [session EXCEPT !.kill = ~kill]
    /\ UNCHANGED <<lifeVars, device, file, unsaved, offer, expired, dropped, offers, url, registration>>

-----------------------------------------------------------------------------
Toggle(c) ==
    \/ Enable(c)
    \/ BackendReady(c)
    \/ ListenFails(c)
    \/ Listening(c)
    \/ Disable(c)
    \/ Closed(c)

Next ==
    \/ \E c \in Calls : Toggle(c)
    \/ Restart
    \/ StartPairing
    \/ \E o \in Offers : Expires(o)
    \/ OfferTimer
    \/ \E p \in Phones, o \in Offers : PairRequest(p, o)
    \/ Confirm(TRUE)
    \/ Confirm(FALSE)
    \/ Cancel
    \/ Forget
    \/ \E base \in OrNone(Urls) : ApplyRelayBaseUrl(base)
    \/ SetKillSwitch

Spec == Init /\ [][Next]_vars

-----------------------------------------------------------------------------
(* Properties.                                                             *)

(* A bridge that was started serves exactly the paired device.             *)
AttachedIsPaired == session # None /\ subscribed => session.peer = device

(* A pairing survives a restart, and a forgotten device does not come back:
   once the file was read it says what the memory says, but for a device
   that was confirmed and could not be saved.                              *)
PairedIsStored == (subscribed \/ device # None) /\ ~unsaved => file = device

(* A QR code from before a forget, a cancel or a stop cannot be paired with,
   and a SAS from before cannot be confirmed.                              *)
DroppedOfferIsDead ==
    pairing # None => pairing.token \notin dropped /\ (pairing.peer # None => pairing.by \notin dropped)

(* A QR code that the settings show can be scanned, or was.                *)
OfferIsHonest ==
    offer # None /\ offer \notin expired
       => pairing # None /\ (pairing.token = offer \/ pairing.sas # None)

(* The kill switch holds in the pairing host and in the session, whichever
   of them was made anew since it was set.                                 *)
KillSwitchHolds ==
    /\ pairing # None => pairing.kill = kill
    /\ session # None => session.kill = kill

(* The registration is for the configured relay, of an enabled bridge; a
   bridge that was started has one.                                        *)
RegistrationFollows ==
    /\ registration # None => enabled /\ registration = url
    /\ subscribed /\ ~Busy => registration = url

(* Once the toggles have come to an end, a bridge that was switched off is
   silent: no listener, no session, no registration.                       *)
DisabledIsQuiet ==
    ~Busy /\ ~wanted => listeners = {} /\ session = None /\ registration = None

(* No listener is left open that the bridge has lost track of.             *)
NoLostListener == ~Busy => listeners \subseteq {lan}

(* The pairing in memory, on disk and on the screen is one pairing, under the
   kill switch as it is.                                                   *)
PairingIsHonest ==
    /\ AttachedIsPaired
    /\ PairedIsStored
    /\ DroppedOfferIsDead
    /\ OfferIsHonest
    /\ KillSwitchHolds

(* The listener, the session and the registration follow the toggle.       *)
BridgeFollowsToggle == RegistrationFollows /\ DisabledIsQuiet /\ NoLostListener

(* What the bridge says of itself, the toggle and the pairing, is so.      *)
BridgeIsHonest == PairingIsHonest /\ BridgeFollowsToggle
=============================================================================
