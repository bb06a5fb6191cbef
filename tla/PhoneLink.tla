------------------------------- MODULE PhoneLink -------------------------------
(***************************************************************************)
(* How a phone reaches the host.  services/xbp/relay-registration.ts is    *)
(* the control channel of the host at the relay, one WebSocket at a time,  *)
(* with redials after a loss; attachable-transport.ts one transport over   *)
(* many sockets; lan-websocket-transport.ts its listener; and the accept   *)
(* dials of xbp-host-service.ts go out over the control channel, with the  *)
(* stamp of the last authenticated call that suppresses push wakes         *)
(* (hasLivePhoneConnection).                                               *)
(*                                                                         *)
(* The WebSocket library and the relay are external.  A local close()      *)
(* starts a handshake: until the close event the socket still delivers     *)
(* what the relay sent.  The relay sends any frame at any time, and closes *)
(* when it likes.  The delay of the backoff timer and the audit are left   *)
(* out; the text of a frame is its kind ("malformed" fails to parse or to  *)
(* match the schema).                                                      *)
(*                                                                         *)
(* A link is a binary WebSocket, accepted on the LAN or dialled at the     *)
(* relay.  At its other end is the paired phone or somebody else; only the *)
(* phone's frames authenticate (the sealed protocol is external).  start() *)
(* is one step, stop() two, cut where it awaits the listener; the toggles  *)
(* themselves are XbpBridge's subject.                                     *)
(***************************************************************************)
EXTENDS Naturals, FiniteSets, TLC

-----------------------------------------------------------------------------
(* The control channel at the relay.                                       *)

CONSTANTS Bases,   \* relay base URLs
          NoBase,  \* ""
          Sockets, \* WebSockets; one that is closed may be used again
          NoSocket \* null

ASSUME BaseAssumption == NoBase \notin Bases
ASSUME SocketAssumption == NoSocket \notin Sockets

VARIABLES baseUrl,
          state,       \* RelayRegistrationState
          socket,      \* the socket in use
          timer,       \* is the backoff timer armed
          challenged,
          conn,        \* conn[s]: the state of a WebSocket
          dialled,     \* dialled[s]: the base it was dialled at
          proved       \* sockets on which a challenge was answered

relayVars == <<baseUrl, state, socket, timer, challenged, conn, dialled, proved>>

RelayStates == {"off", "connecting", "authenticating", "registered", "backoff"}
Frames == {"challenge", "registered", "incoming-session", "malformed"}

RelayTypeOK ==
    /\ baseUrl \in Bases \cup {NoBase}
    /\ state \in RelayStates
    /\ socket \in Sockets \cup {NoSocket}
    /\ timer \in BOOLEAN /\ challenged \in BOOLEAN
    /\ conn \in [Sockets -> {"connecting", "open", "closing", "closed"}]
    /\ dialled \in [Sockets -> Bases \cup {NoBase}]
    /\ proved \subseteq Sockets

RelayInit ==
    /\ baseUrl = NoBase
    /\ state = "off"
    /\ socket = NoSocket
    /\ timer = FALSE
    /\ challenged = FALSE
    /\ conn = [s \in Sockets |-> "closed"]
    /\ dialled = [s \in Sockets |-> NoBase]
    /\ proved = {}

-----------------------------------------------------------------------------
(* connect and teardown.                                                   *)

\* What is left of the sockets once s is let go: a close of a socket that is
\* connecting, open or closing.
Closing(s) == [x \in Sockets |-> IF x = s /\ conn[x] # "closed" THEN "closing" ELSE conn[x]]

\* A socket the library may give out.
Unused(s) == conn[s] = "closed" /\ s # socket

Connect(base, conns) ==
    \E s \in Sockets :
        /\ Unused(s)
        /\ socket' = s
        /\ conn' = [conns EXCEPT ![s] = "connecting"]
        /\ dialled' = [dialled EXCEPT ![s] = base]
        /\ proved' = proved \ {s}
        /\ state' = "connecting"
        /\ challenged' = FALSE

Teardown ==
    /\ socket' = NoSocket
    /\ state' = "off"
    /\ timer' = FALSE
    /\ conn' = Closing(socket)
    /\ UNCHANGED <<challenged, dialled, proved>>

SetBaseUrl(base) ==
    /\ base # baseUrl
    /\ baseUrl' = base
    /\ IF base = NoBase
       THEN Teardown
       ELSE Connect(base, Closing(socket)) /\ timer' = FALSE

\* stop(), and the registration is dropped.
StopRegistration ==
    /\ baseUrl' = NoBase
    /\ Teardown

BackoffTimer ==
    /\ timer
    /\ timer' = FALSE
    /\ Connect(baseUrl, conn)
    /\ UNCHANGED baseUrl

-----------------------------------------------------------------------------
(* The events of a socket.  Those of a socket no longer in use change only  *)
(* the socket.                                                             *)

Opened(s) ==
    /\ conn[s] = "connecting"
    /\ conn' = [conn EXCEPT ![s] = "open"]
    /\ state' = IF s = socket THEN "authenticating" ELSE state
    /\ UNCHANGED <<baseUrl, socket, timer, challenged, dialled, proved>>

\* Mutant: the loss of a connection that never opened is not retried.
LostUnopened(s) ==
    /\ conn[s] # "closed"
    /\ conn' = [conn EXCEPT ![s] = "closed"]
    /\ IF s = socket
       THEN socket' = NoSocket /\ state' = "backoff" /\ timer' = (state # "connecting")
       ELSE UNCHANGED <<socket, state, timer>>
    /\ UNCHANGED <<baseUrl, challenged, dialled, proved>>

\* lost: the relay closed, the network failed, or a local close has ended.
Lost(s) ==
    /\ conn[s] # "closed"
    /\ conn' = [conn EXCEPT ![s] = "closed"]
    /\ IF s = socket
       THEN socket' = NoSocket /\ state' = "backoff" /\ timer' = TRUE
       ELSE UNCHANGED <<socket, state, timer>>
    /\ UNCHANGED <<baseUrl, challenged, dialled, proved>>

\* A frame that breaks the protocol: close(4400); the loss follows.
Violates(frame) ==
    \/ frame = "malformed"
    \/ frame = "challenge" /\ state # "authenticating"
    \/ frame = "registered" /\ (state # "authenticating" \/ ~challenged)
    \/ frame = "incoming-session" /\ state # "registered"

\* What the frame on the socket in use does to the registration.
Handle(s, frame) ==
    /\ conn' = IF Violates(frame) THEN Closing(s) ELSE conn
    /\ challenged' = (challenged \/ (frame = "challenge" /\ ~Violates(frame)))
    /\ proved' = IF frame = "challenge" /\ ~Violates(frame) THEN proved \cup {s} ELSE proved
    /\ state' = IF frame = "registered" /\ ~Violates(frame) THEN "registered" ELSE state
    /\ UNCHANGED <<baseUrl, socket, timer, dialled>>

\* A session is accepted when the frame asks for one.
Accepts(s, frame) == s = socket /\ frame = "incoming-session" /\ ~Violates(frame)

-----------------------------------------------------------------------------
(* The links, the transport and the accept dials.                          *)

CONSTANTS Links,         \* WebSockets of the data path; one that is closed may be used again
          NoLink,        \* null
          MaxGeneration, \* bound: links attached to one listener
          DialLate       \* may a dial open while stop() awaits the listener

ASSUME LinkAssumption == NoLink \notin Links
ASSUME GenerationAssumption == MaxGeneration \in Nat \ {0} /\ DialLate \in BOOLEAN

VARIABLES bridge,         \* "off", "up", "closing": stop() awaits the listener
          relayUrl,       \* relayBaseUrl
          link,           \* link[l]: the WebSocket l
          sockets,        \* the transport's sockets
          generations,    \* their generations
          nextGeneration,
          active,
          stamp,          \* lastAuthedConnection: its generation, and is it recent
          caller          \* the link that carried the call of the stamp

bridgeVars == <<bridge, relayUrl>>
transportVars == <<sockets, generations, nextGeneration, active, stamp, caller>>
phoneVars == <<relayVars, bridgeVars, link, transportVars>>

Ends == {"phone", "stranger"}
NoStamp == [generation |-> 0, recent |-> FALSE]

PhoneTypeOK ==
    /\ RelayTypeOK
    /\ bridge \in {"off", "up", "closing"}
    /\ relayUrl \in Bases \cup {NoBase}
    /\ link \in [Links -> [conn : {"dialling", "open", "closing", "closed"}, end : Ends,
                           at : Bases \cup {NoBase}, token : Bases \cup {NoBase}]]
    /\ sockets \subseteq Links
    /\ generations \in [sockets -> 1..MaxGeneration]
    /\ nextGeneration \in 1..(MaxGeneration + 1)
    /\ {active, caller} \subseteq sockets \cup {NoLink}
    /\ stamp \in [generation : 0..MaxGeneration, recent : BOOLEAN]
    \* a socket is attached while it is open
    /\ \A l \in sockets : link[l].conn = "open" /\ generations[l] < nextGeneration
    /\ bridge # "up" => baseUrl = NoBase /\ stamp = NoStamp

\* A new listener with its transport.
NewTransport ==
    /\ sockets' = {}
    /\ generations' = [l \in {} |-> 0]
    /\ nextGeneration' = 1
    /\ active' = NoLink
    /\ stamp' = NoStamp
    /\ caller' = NoLink

PhoneInit ==
    /\ RelayInit
    /\ bridge = "off"
    /\ relayUrl \in Bases \cup {NoBase}
    /\ link = [l \in Links |-> [conn |-> "closed", end |-> "stranger", at |-> NoBase, token |-> NoBase]]
    /\ sockets = {}
    /\ generations = [l \in {} |-> 0]
    /\ nextGeneration = 1
    /\ active = NoLink
    /\ stamp = NoStamp
    /\ caller = NoLink

-----------------------------------------------------------------------------
(* The transport.                                                          *)

\* Mutant: the links are numbered by their count.
AttachByCount(l) ==
    /\ nextGeneration <= MaxGeneration
    /\ sockets' = sockets \cup {l}
    /\ generations' = [k \in sockets' |-> IF k = l THEN Cardinality(sockets) + 1 ELSE generations[k]]
    /\ nextGeneration' = nextGeneration + 1
    /\ active' = l
    /\ UNCHANGED <<stamp, caller>>

Attach(l) ==
    /\ nextGeneration <= MaxGeneration
    /\ sockets' = sockets \cup {l}
    /\ generations' = [k \in sockets' |-> IF k = l THEN nextGeneration ELSE generations[k]]
    /\ nextGeneration' = nextGeneration + 1
    /\ active' = l
    /\ UNCHANGED <<stamp, caller>>

\* Mutant: the transport goes on sending to a link that is gone.
DetachActive(l) ==
    /\ sockets' = sockets \ {l}
    /\ generations' = [k \in sockets \ {l} |-> generations[k]]
    /\ caller' = IF caller = l THEN NoLink ELSE caller
    /\ UNCHANGED <<nextGeneration, active, stamp>>

\* onClose
Detach(l) ==
    /\ sockets' = sockets \ {l}
    /\ generations' = [k \in sockets \ {l} |-> generations[k]]
    /\ active' = IF active = l THEN NoLink ELSE active
    /\ caller' = IF caller = l THEN NoLink ELSE caller
    /\ UNCHANGED <<nextGeneration, stamp>>

IsSocketLive(generation) == \E l \in sockets : generations[l] = generation

\* hasLivePhoneConnection
HasLivePhoneConnection == bridge = "up" /\ stamp.recent /\ IsSocketLive(stamp.generation)

-----------------------------------------------------------------------------
(* Links.                                                                  *)

Unlinked(l) == link[l].conn = "closed"

\* A connection is accepted on the LAN.
LanAccept(l, end) ==
    /\ bridge = "up"
    /\ Unlinked(l)
    /\ link' = [link EXCEPT ![l] = [conn |-> "open", end |-> end, at |-> NoBase, token |-> NoBase]]
    /\ Attach(l)
    /\ UNCHANGED <<relayVars, bridgeVars>>

\* dialRelayAccept, on open: without a listener the link is closed again.
DialOpens(l) ==
    /\ link[l].conn = "dialling"
    /\ bridge = "closing" => DialLate
    /\ IF bridge = "off"
       THEN link' = [link EXCEPT ![l].conn = "closing"] /\ UNCHANGED transportVars
       ELSE link' = [link EXCEPT ![l].conn = "open"] /\ Attach(l)
    /\ UNCHANGED <<relayVars, bridgeVars>>

\* A frame comes in; a call of the phone that authenticates leaves a stamp.
FrameArrives(l, call) ==
    /\ l \in sockets
    /\ active' = l
    /\ IF call /\ link[l].end = "phone" /\ bridge = "up"
       THEN stamp' = [generation |-> generations[l], recent |-> TRUE] /\ caller' = l
       ELSE UNCHANGED <<stamp, caller>>
    /\ UNCHANGED <<relayVars, bridgeVars, link, sockets, generations, nextGeneration>>

\* A link ends: a dial fails, either end closes, the network fails.
LinkCloses(l) ==
    /\ ~Unlinked(l)
    /\ link' = [link EXCEPT ![l].conn = "closed"]
    /\ IF l \in sockets THEN Detach(l) ELSE UNCHANGED transportVars
    /\ UNCHANGED <<relayVars, bridgeVars>>

\* PUSH_WAKE_CONNECTED_WINDOW_MS is over.
StampAges ==
    /\ stamp.recent
    /\ stamp' = [stamp EXCEPT !.recent = FALSE]
    /\ UNCHANGED <<relayVars, bridgeVars, link, sockets, generations, nextGeneration, active, caller>>

-----------------------------------------------------------------------------
(* The control channel.                                                    *)

\* A frame of the relay; incoming-session is answered with a dial.
ControlFrame(s, frame) ==
    /\ conn[s] \in {"open", "closing"}
    /\ IF s = socket THEN Handle(s, frame) ELSE UNCHANGED relayVars
    /\ IF Accepts(s, frame)
       THEN \E l \in Links, end \in Ends :
               /\ Unlinked(l)
               /\ link' = [link EXCEPT ![l] = [conn |-> "dialling", end |-> end,
                                              at |-> baseUrl, token |-> dialled[s]]]
       ELSE UNCHANGED link
    /\ UNCHANGED <<bridgeVars, transportVars>>

ControlEvent ==
    /\ \/ \E s \in Sockets : Opened(s)
       \/ \E s \in Sockets : Lost(s)
       \/ BackoffTimer
    /\ UNCHANGED <<bridgeVars, link, transportVars>>

-----------------------------------------------------------------------------
(* The bridge.                                                             *)

Start ==
    /\ bridge = "off"
    /\ bridge' = "up"
    /\ NewTransport
    /\ IF relayUrl = NoBase THEN UNCHANGED relayVars ELSE SetBaseUrl(relayUrl)
    /\ UNCHANGED <<relayUrl, link>>

\* stop() until it awaits the listener: the registration and the session end, the
\* transport closes its sockets and forgets them.
Stop ==
    /\ bridge = "up"
    /\ bridge' = "closing"
    /\ StopRegistration
    /\ link' = [l \in Links |-> IF l \in sockets THEN [link[l] EXCEPT !.conn = "closing"] ELSE link[l]]
    /\ sockets' = {}
    /\ generations' = [l \in {} |-> 0]
    /\ active' = NoLink
    /\ stamp' = NoStamp
    /\ caller' = NoLink
    /\ UNCHANGED <<relayUrl, nextGeneration>>

\* The listener has closed: its clients are gone.
StopSettles ==
    /\ bridge = "closing"
    /\ \A l \in Links : link[l].at = NoBase => Unlinked(l)
    /\ bridge' = "off"
    /\ NewTransport
    /\ UNCHANGED <<relayVars, relayUrl, link>>

ApplyBaseUrl(base) ==
    /\ bridge # "closing"
    /\ base # relayUrl
    /\ relayUrl' = base
    /\ IF bridge = "up" THEN SetBaseUrl(base) ELSE UNCHANGED relayVars
    /\ UNCHANGED <<bridge, link, transportVars>>

-----------------------------------------------------------------------------
PhoneNext ==
    \/ \E l \in Links, end \in Ends : LanAccept(l, end)
    \/ \E l \in Links : DialOpens(l)
    \/ \E l \in Links, call \in BOOLEAN : FrameArrives(l, call)
    \/ \E l \in Links : LinkCloses(l)
    \/ StampAges
    \/ \E s \in Sockets, frame \in Frames : ControlFrame(s, frame)
    \/ ControlEvent
    \/ Start
    \/ Stop
    \/ StopSettles
    \/ \E base \in Bases \cup {NoBase} : ApplyBaseUrl(base)

PhoneSpec == PhoneInit /\ [][PhoneNext]_phoneVars

ControlStep(A) == A /\ UNCHANGED <<bridgeVars, link, transportVars>>

\* Timers fire, a handshake that closes ends, and a relay that is dialled again and
\* again lets the host register some time.
Fairness ==
    /\ WF_phoneVars(ControlStep(BackoffTimer))
    /\ \A s \in Sockets :
          /\ WF_phoneVars(conn[s] = "closing" /\ ControlStep(Lost(s)))
          /\ SF_phoneVars(s = socket /\ ControlStep(Opened(s)))
          /\ SF_phoneVars(s = socket /\ ~Violates("challenge") /\ ControlFrame(s, "challenge"))
          /\ SF_phoneVars(s = socket /\ ~Violates("registered") /\ ControlFrame(s, "registered"))

FairPhoneSpec == PhoneSpec /\ Fairness

-----------------------------------------------------------------------------
(* Properties.                                                             *)

(* There is one control channel: a socket that was replaced is on its way
   out, and the backoff timer runs exactly while there is no socket and
   there should be one.                                                    *)
OneControlChannel ==
    /\ \A s \in Sockets \ {socket} : conn[s] \in {"closing", "closed"}
    /\ socket # NoSocket <=> state \in {"connecting", "authenticating", "registered"}
    /\ timer <=> state = "backoff"
    /\ baseUrl = NoBase <=> state = "off"

(* The host counts as registered only on a connection on which it has proved
   its identity, at the relay that is configured.                          *)
RegisteredIsProved ==
    state = "registered" => socket \in proved /\ dialled[socket] = relayUrl

(* The token of a session is only shown to the relay that gave it out.     *)
DialsFollowBase == \A l \in Links : link[l].at = link[l].token

(* A push wake is only suppressed over a link of the phone that is open: not
   over one of somebody else, nor one that came after the phone's was lost,
   nor one of an earlier run of the bridge.                                *)
SuppressionIsHonest ==
    HasLivePhoneConnection => caller # NoLink /\ link[caller].end = "phone"

(* When the bridge is off, no link is left open.                           *)
NoLeakedLink == bridge = "off" => \A l \in Links : link[l].conn # "open"

(* What the host says of its links and its relay is true of them: the relay it is
   registered at, the one it dials, the phone it takes for connected, and none
   left open when it is off.                                               *)
LinksAreHonest ==
    /\ OneControlChannel
    /\ RegisteredIsProved
    /\ DialsFollowBase
    /\ SuppressionIsHonest
    /\ NoLeakedLink

(* As long as a relay is configured, the host goes on until it is registered. *)
KeepsTrying ==
    \A base \in Bases : baseUrl = base ~> state = "registered" \/ baseUrl # base

\* Relays, sockets and links are alike, where no property is about liveness.
Symmetry == Permutations(Bases) \cup Permutations(Sockets) \cup Permutations(Links)
=============================================================================
