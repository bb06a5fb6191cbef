---------------------------- MODULE XbpProofs ----------------------------
(***************************************************************************)
(* Proofs about the host that phones reach: its toggle and pairing         *)
(* (XbpBridge) and its links (PhoneLink), for every set of phones, relays, *)
(* sockets, links and calls and every bound.                               *)
(*                                                                         *)
(* What is said of the pairing holds whatever calls of setEnabled overlap; *)
(* its invariant is PairInv, over BootInv: how the first call and the      *)
(* crypto backend hang together.  What is said of the listener, session    *)
(* and registration holds when toggles do not overlap: ToggleInv, with one *)
(* line per thing that a call in flight may rely on, and RegistrationInv   *)
(* when the relay base does not change under a toggle either.              *)
(*                                                                         *)
(* The invariant of the links, LinksInv, has one conjunct per part of the  *)
(* state: the registration, the dials, the stamp and the links of the      *)
(* transport.  What matters of the links is that generations are never     *)
(* given out twice while the transport lives.                              *)
(***************************************************************************)
EXTENDS XbpBridge, PhoneLink, TLAPS

(* Proofs about XbpBridge.                                                 *)

\* TypeOK, by the part of the state.
LifeType ==
    /\ enabled \in BOOLEAN /\ subscribed \in BOOLEAN /\ booting \in BOOLEAN /\ wanted \in BOOLEAN
    /\ backend \in BOOLEAN /\ identity \in BOOLEAN
    /\ lan \in OrNone(Lans) /\ listeners \subseteq Lans
    /\ call \in [Calls -> OrNone(Awaits)]
    /\ tasks \in 0..MaxTasks

HostType == kill \in BOOLEAN /\ (pairing = None \/ pairing \in Hosts)

SessionType ==
    /\ session = None \/ session \in [peer : OrNone(Phones), kill : BOOLEAN]
    /\ device \in OrNone(Phones) /\ file \in OrNone(Phones)
    /\ unsaved \in BOOLEAN

OfferType ==
    /\ offer \in OrNone(Offers)
    /\ expired \subseteq Offers /\ dropped \subseteq Offers
    /\ offers \in 0..MaxOffers
    /\ offer # None => offer <= offers

RelayType ==
    /\ url \in OrNone(Urls) /\ registration \in OrNone(Urls)
    /\ registration # None => identity /\ backend

TypeInv == LifeType /\ HostType /\ SessionType /\ OfferType /\ RelayType

\* While the process boots no call but the first is in flight, and it has loaded the
\* crypto backend before any other comes.
BootInv ==
    /\ \A c \in Calls : call[c] = "backend" => booting /\ ~backend
    /\ \A c \in Calls : booting /\ call[c] # None => c = BootCall /\ call[c] # "close"
    /\ \A c \in Calls : call[c] = "listen" => identity /\ backend
    /\ ~booting => backend
    /\ booting => enabled
    /\ ~backend => pairing = None

\* Only an enabled bridge has a pairing host, and only a pairing host has an offer.
HostInv ==
    /\ pairing # None => enabled
    /\ offer # None => pairing # None

DropInv == DroppedOfferIsDead /\ dropped \subseteq 1..offers

PairInv ==
    /\ BootInv /\ HostInv
    /\ PairedIsStored /\ KillSwitchHolds /\ DropInv /\ OfferIsHonest

Starts(c) == call[c] \in {"backend", "listen"}

\* One call at a time: one that starts finds everything down, one that stops has let go
\* of the session, and what is disabled is down.
CallInv ==
    /\ \A c, d \in Calls : call[c] # None /\ call[d] # None => c = d
    /\ \A c \in Calls : Starts(c) => enabled /\ wanted /\ lan = None /\ ~subscribed
    /\ \A c \in Calls : call[c] = "close" => session = None /\ ~subscribed
    /\ ~enabled => lan = None /\ session = None /\ ~subscribed
    /\ ~wanted /\ ~Busy => ~enabled

ToggleInv == CallInv /\ listeners \subseteq {lan} /\ AttachedIsPaired

\* A call in flight has no registration; a started bridge could load its identity.
RegistrationInv ==
    /\ Busy \/ ~enabled => registration = None
    /\ registration # None => registration = url
    /\ subscribed => registration = url
    /\ subscribed => identity /\ backend

-----------------------------------------------------------------------------
(* Types.                                                                  *)

LEMMA TaskType ==
  ASSUME tasks \in 0..MaxTasks, Task
  PROVE  tasks' \in 0..MaxTasks
  BY BoundAssumption DEF Task

\* A pairing host that is made anew, or has a field replaced, is one.
LEMMA NewHostType ==
  ASSUME kill \in BOOLEAN
  PROVE  NewHost \in Hosts
  BY DEF NewHost, Hosts, OrNone

LEMMA ResetType ==
  ASSUME HostType, Reset
  PROVE  pairing' = None \/ pairing' \in Hosts
  BY NewHostType DEF HostType, Reset

LEMMA LifeTypeStep ==
  ASSUME LifeType, [Next]_vars
  PROVE  LifeType'
<1> USE NoneAssumption, BoundAssumption DEF LifeType, OrNone, Awaits, Lans
<1>1. ASSUME NEW c \in Calls, Enable(c) PROVE LifeType'
  BY <1>1, TaskType DEF Enable, LoadIdentity, Return
<1>2. ASSUME NEW c \in Calls, BackendReady(c) PROVE LifeType'
  BY <1>2 DEF BackendReady, LoadIdentity, Return
<1>3. ASSUME NEW c \in Calls, ListenFails(c) PROVE LifeType'
  BY <1>3 DEF ListenFails, Return, pairVars
<1>4. ASSUME NEW c \in Calls, Listening(c) PROVE LifeType'
  BY <1>4 DEF Listening, Return
<1>5. ASSUME NEW c \in Calls, Disable(c) PROVE LifeType'
  BY <1>5, TaskType DEF Disable, StopBridge, Stopped
<1>6. ASSUME NEW c \in Calls, Closed(c) PROVE LifeType'
  BY <1>6 DEF Closed, Return, Stopped
<1>7. CASE Restart
  BY <1>7, TaskType DEF Restart, Fresh
<1>8. CASE StartPairing
  BY <1>8 DEF StartPairing, lifeVars
<1>9. ASSUME NEW o \in Offers, Expires(o) PROVE LifeType'
  BY <1>9 DEF Expires, lifeVars
<1>10. CASE OfferTimer
  BY <1>10 DEF OfferTimer, lifeVars
<1>11. ASSUME NEW p \in Phones, NEW o \in Offers, PairRequest(p, o) PROVE LifeType'
  BY <1>11 DEF PairRequest, lifeVars
<1>12. ASSUME NEW ok \in BOOLEAN, Confirm(ok) PROVE LifeType'
  BY <1>12 DEF Confirm, ConfirmThrows, Reset, lifeVars
<1>13. CASE Cancel
  BY <1>13 DEF Cancel, Reset, lifeVars
<1>14. CASE Forget
  BY <1>14 DEF Forget, Reset, lifeVars
<1>15. ASSUME NEW base \in OrNone(Urls), ApplyRelayBaseUrl(base) PROVE LifeType'
  BY <1>15 DEF ApplyRelayBaseUrl, Task, lifeVars, pairVars
<1>16. CASE SetKillSwitch
  BY <1>16 DEF SetKillSwitch, Task, lifeVars
<1>17. CASE UNCHANGED vars
  BY <1>17 DEF vars, lifeVars, pairVars
<1> QED
  BY <1>1, <1>2, <1>3, <1>4, <1>5, <1>6, <1>7, <1>8, <1>9, <1>10, <1>11, <1>12, <1>13, <1>14, <1>15, <1>16, <1>17 DEF Next, Toggle

LEMMA HostTypeStep ==
  ASSUME HostType, OfferType, SessionType, [Next]_vars
  PROVE  HostType'
<1> USE DEF HostType, OrNone, Hosts, NewHost
<1>1. ASSUME NEW c \in Calls, Enable(c) PROVE HostType'
  BY <1>1 DEF Enable, Task, LoadIdentity, Return
<1>2. ASSUME NEW c \in Calls, BackendReady(c) PROVE HostType'
  BY <1>2 DEF BackendReady, LoadIdentity, Return
<1>3. ASSUME NEW c \in Calls, ListenFails(c) PROVE HostType'
  BY <1>3 DEF ListenFails, Return, pairVars
<1>4. ASSUME NEW c \in Calls, Listening(c) PROVE HostType'
  BY <1>4 DEF Listening, Return
<1>5. ASSUME NEW c \in Calls, Disable(c) PROVE HostType'
  BY <1>5 DEF Disable, Task, StopBridge, Stopped
<1>6. ASSUME NEW c \in Calls, Closed(c) PROVE HostType'
  BY <1>6 DEF Closed, Return, Stopped
<1>7. CASE Restart
  BY <1>7 DEF Restart, Task, Fresh
<1>8. CASE StartPairing  BY <1>8, BoundAssumption DEF StartPairing, lifeVars, OfferType, Offers
<1>9. ASSUME NEW o \in Offers, Expires(o) PROVE HostType'
  BY <1>9 DEF Expires, lifeVars
<1>10. CASE OfferTimer
  BY <1>10 DEF OfferTimer, lifeVars
<1>11. ASSUME NEW p \in Phones, NEW o \in Offers, PairRequest(p, o) PROVE HostType'
  BY <1>11 DEF PairRequest, lifeVars
<1>12. ASSUME NEW ok \in BOOLEAN, Confirm(ok) PROVE HostType'  BY <1>12, ResetType DEF Confirm, ConfirmThrows
<1>13. CASE Cancel
  BY <1>13 DEF Cancel, Reset, lifeVars
<1>14. CASE Forget
  BY <1>14 DEF Forget, Reset, lifeVars
<1>15. ASSUME NEW base \in OrNone(Urls), ApplyRelayBaseUrl(base) PROVE HostType'
  BY <1>15 DEF ApplyRelayBaseUrl, Task, lifeVars, pairVars
<1>16. CASE SetKillSwitch
  BY <1>16 DEF SetKillSwitch, Task, lifeVars
<1>17. CASE UNCHANGED vars
  BY <1>17 DEF vars, lifeVars, pairVars
<1> QED
  BY <1>1, <1>2, <1>3, <1>4, <1>5, <1>6, <1>7, <1>8, <1>9, <1>10, <1>11, <1>12, <1>13, <1>14, <1>15, <1>16, <1>17 DEF Next, Toggle

LEMMA SessionTypeStep ==
  ASSUME HostType, SessionType, [Next]_vars
  PROVE  SessionType'
<1> USE DEF SessionType, HostType, OrNone, Hosts
<1>1. ASSUME NEW c \in Calls, Enable(c) PROVE SessionType'
  BY <1>1 DEF Enable, Task, LoadIdentity, Return
<1>2. ASSUME NEW c \in Calls, BackendReady(c) PROVE SessionType'
  BY <1>2 DEF BackendReady, LoadIdentity, Return
<1>3. ASSUME NEW c \in Calls, ListenFails(c) PROVE SessionType'
  BY <1>3 DEF ListenFails, Return, pairVars
<1>4. ASSUME NEW c \in Calls, Listening(c) PROVE SessionType'
  BY <1>4 DEF Listening, Return
<1>5. ASSUME NEW c \in Calls, Disable(c) PROVE SessionType'
  BY <1>5 DEF Disable, Task, StopBridge, Stopped
<1>6. ASSUME NEW c \in Calls, Closed(c) PROVE SessionType'
  BY <1>6 DEF Closed, Return, Stopped
<1>7. CASE Restart
  BY <1>7 DEF Restart, Task, Fresh
<1>8. CASE StartPairing
  BY <1>8 DEF StartPairing, lifeVars
<1>9. ASSUME NEW o \in Offers, Expires(o) PROVE SessionType'
  BY <1>9 DEF Expires, lifeVars
<1>10. CASE OfferTimer
  BY <1>10 DEF OfferTimer, lifeVars
<1>11. ASSUME NEW p \in Phones, NEW o \in Offers, PairRequest(p, o) PROVE SessionType'
  BY <1>11 DEF PairRequest, lifeVars
<1>12. ASSUME NEW ok \in BOOLEAN, Confirm(ok) PROVE SessionType'
  BY <1>12 DEF Confirm, ConfirmThrows, Reset, lifeVars
<1>13. CASE Cancel
  BY <1>13 DEF Cancel, Reset, lifeVars
<1>14. CASE Forget
  BY <1>14 DEF Forget, Reset, lifeVars
<1>15. ASSUME NEW base \in OrNone(Urls), ApplyRelayBaseUrl(base) PROVE SessionType'
  BY <1>15 DEF ApplyRelayBaseUrl, Task, lifeVars, pairVars
<1>16. CASE SetKillSwitch
  BY <1>16 DEF SetKillSwitch, Task, lifeVars
<1>17. CASE UNCHANGED vars
  BY <1>17 DEF vars, lifeVars, pairVars
<1> QED
  BY <1>1, <1>2, <1>3, <1>4, <1>5, <1>6, <1>7, <1>8, <1>9, <1>10, <1>11, <1>12, <1>13, <1>14, <1>15, <1>16, <1>17 DEF Next, Toggle

LEMMA OfferTypeStep ==
  ASSUME OfferType, [Next]_vars
  PROVE  OfferType'
<1> USE NoneAssumption, BoundAssumption DEF OfferType, OrNone, Offers
<1>1. ASSUME NEW c \in Calls, Enable(c) PROVE OfferType'
  BY <1>1 DEF Enable, Task, LoadIdentity, Return
<1>2. ASSUME NEW c \in Calls, BackendReady(c) PROVE OfferType'
  BY <1>2 DEF BackendReady, LoadIdentity, Return
<1>3. ASSUME NEW c \in Calls, ListenFails(c) PROVE OfferType'
  BY <1>3 DEF ListenFails, Return, pairVars
<1>4. ASSUME NEW c \in Calls, Listening(c) PROVE OfferType'
  BY <1>4 DEF Listening, Return
<1>5. ASSUME NEW c \in Calls, Disable(c) PROVE OfferType'
  <2>3. 1..offers \subseteq Offers
    OBVIOUS
  <2> QED  BY <1>5, <2>3 DEF Disable, Stopped
<1>6. ASSUME NEW c \in Calls, Closed(c) PROVE OfferType'
  BY <1>6 DEF Closed, Return, Stopped
<1>7. CASE Restart
  BY <1>7 DEF Restart, Task, Fresh
<1>8. CASE StartPairing
  BY <1>8 DEF StartPairing, lifeVars
<1>9. ASSUME NEW o \in Offers, Expires(o) PROVE OfferType'
  BY <1>9 DEF Expires, lifeVars
<1>10. CASE OfferTimer
  BY <1>10 DEF OfferTimer, lifeVars
<1>11. ASSUME NEW p \in Phones, NEW o \in Offers, PairRequest(p, o) PROVE OfferType'
  BY <1>11 DEF PairRequest, lifeVars
<1>12. ASSUME NEW ok \in BOOLEAN, Confirm(ok) PROVE OfferType'
  BY <1>12 DEF Confirm, ConfirmThrows, Reset, lifeVars
<1>13. CASE Cancel
  BY <1>13 DEF Cancel, Reset, lifeVars
<1>14. CASE Forget
  BY <1>14 DEF Forget, Reset, lifeVars
<1>15. ASSUME NEW base \in OrNone(Urls), ApplyRelayBaseUrl(base) PROVE OfferType'
  BY <1>15 DEF ApplyRelayBaseUrl, Task, lifeVars, pairVars
<1>16. CASE SetKillSwitch
  BY <1>16 DEF SetKillSwitch, Task, lifeVars
<1>17. CASE UNCHANGED vars
  BY <1>17 DEF vars, lifeVars, pairVars
<1> QED
  BY <1>1, <1>2, <1>3, <1>4, <1>5, <1>6, <1>7, <1>8, <1>9, <1>10, <1>11, <1>12, <1>13, <1>14, <1>15, <1>16, <1>17 DEF Next, Toggle

LEMMA RelayTypeStep ==
  ASSUME RelayType, [Next]_vars
  PROVE  RelayType'
<1> USE DEF RelayType, OrNone, Registered
<1>1. ASSUME NEW c \in Calls, Enable(c) PROVE RelayType'
  BY <1>1 DEF Enable, Task, LoadIdentity, Return
<1>2. ASSUME NEW c \in Calls, BackendReady(c) PROVE RelayType'
  BY <1>2 DEF BackendReady, LoadIdentity, Return
<1>3. ASSUME NEW c \in Calls, ListenFails(c) PROVE RelayType'
  BY <1>3 DEF ListenFails, Return, pairVars
<1>4. ASSUME NEW c \in Calls, Listening(c) PROVE RelayType'
  BY <1>4 DEF Listening, Return
<1>5. ASSUME NEW c \in Calls, Disable(c) PROVE RelayType'
  BY <1>5 DEF Disable, Task, StopBridge, Stopped
<1>6. ASSUME NEW c \in Calls, Closed(c) PROVE RelayType'
  BY <1>6 DEF Closed, Return, Stopped
<1>7. CASE Restart
  BY <1>7 DEF Restart, Task, Fresh
<1>8. CASE StartPairing
  BY <1>8 DEF StartPairing, lifeVars
<1>9. ASSUME NEW o \in Offers, Expires(o) PROVE RelayType'
  BY <1>9 DEF Expires, lifeVars
<1>10. CASE OfferTimer
  BY <1>10 DEF OfferTimer, lifeVars
<1>11. ASSUME NEW p \in Phones, NEW o \in Offers, PairRequest(p, o) PROVE RelayType'
  BY <1>11 DEF PairRequest, lifeVars
<1>12. ASSUME NEW ok \in BOOLEAN, Confirm(ok) PROVE RelayType'
  BY <1>12 DEF Confirm, ConfirmThrows, Reset, lifeVars
<1>13. CASE Cancel
  BY <1>13 DEF Cancel, Reset, lifeVars
<1>14. CASE Forget
  BY <1>14 DEF Forget, Reset, lifeVars
<1>15. ASSUME NEW base \in OrNone(Urls), ApplyRelayBaseUrl(base) PROVE RelayType'
  BY <1>15 DEF ApplyRelayBaseUrl, Task, lifeVars, pairVars
<1>16. CASE SetKillSwitch
  BY <1>16 DEF SetKillSwitch, Task, lifeVars
<1>17. CASE UNCHANGED vars
  BY <1>17 DEF vars, lifeVars, pairVars
<1> QED
  BY <1>1, <1>2, <1>3, <1>4, <1>5, <1>6, <1>7, <1>8, <1>9, <1>10, <1>11, <1>12, <1>13, <1>14, <1>15, <1>16, <1>17 DEF Next, Toggle

LEMMA TypeStep ==
  ASSUME TypeInv, [Next]_vars
  PROVE  TypeInv'
  BY LifeTypeStep, HostTypeStep, SessionTypeStep, OfferTypeStep, RelayTypeStep DEF TypeInv

-----------------------------------------------------------------------------
(* The pairing, whatever overlaps.                                         *)

LEMMA BootStep ==
  ASSUME TypeInv, BootInv, [Next]_vars
  PROVE  BootInv'
<1> USE NoneAssumption DEF TypeInv, LifeType, BootInv, OrNone, Awaits
<1>1. ASSUME NEW c \in Calls, Enable(c) PROVE BootInv'
  BY <1>1 DEF Enable, Task, LoadIdentity, Return
<1>2. ASSUME NEW c \in Calls, BackendReady(c) PROVE BootInv'
  BY <1>2 DEF BackendReady, LoadIdentity, Return
<1>3. ASSUME NEW c \in Calls, ListenFails(c) PROVE BootInv'
  BY <1>3 DEF ListenFails, Return, pairVars
<1>4. ASSUME NEW c \in Calls, Listening(c) PROVE BootInv'
  BY <1>4 DEF Listening, Return
<1>5. ASSUME NEW c \in Calls, Disable(c) PROVE BootInv'
  BY <1>5 DEF Disable, Task, StopBridge, Stopped
<1>6. ASSUME NEW c \in Calls, Closed(c) PROVE BootInv'
  BY <1>6 DEF Closed, Return, Stopped
<1>7. CASE Restart
  BY <1>7 DEF Restart, Task, Fresh
<1>8. CASE StartPairing
  BY <1>8 DEF StartPairing, lifeVars
<1>9. ASSUME NEW o \in Offers, Expires(o) PROVE BootInv'
  BY <1>9 DEF Expires, lifeVars
<1>10. CASE OfferTimer
  BY <1>10 DEF OfferTimer, lifeVars
<1>11. ASSUME NEW p \in Phones, NEW o \in Offers, PairRequest(p, o) PROVE BootInv'
  BY <1>11 DEF PairRequest, lifeVars
<1>12. ASSUME NEW ok \in BOOLEAN, Confirm(ok) PROVE BootInv'
  BY <1>12 DEF Confirm, ConfirmThrows, Reset, lifeVars
<1>13. CASE Cancel
  BY <1>13 DEF Cancel, Reset, lifeVars
<1>14. CASE Forget
  BY <1>14 DEF Forget, Reset, lifeVars
<1>15. ASSUME NEW base \in OrNone(Urls), ApplyRelayBaseUrl(base) PROVE BootInv'
  BY <1>15 DEF ApplyRelayBaseUrl, Task, lifeVars, pairVars
<1>16. CASE SetKillSwitch
  BY <1>16 DEF SetKillSwitch, Task, lifeVars
<1>17. CASE UNCHANGED vars
  BY <1>17 DEF vars, lifeVars, pairVars
<1> QED
  BY <1>1, <1>2, <1>3, <1>4, <1>5, <1>6, <1>7, <1>8, <1>9, <1>10, <1>11, <1>12, <1>13, <1>14, <1>15, <1>16, <1>17 DEF Next, Toggle

LEMMA StoredStep ==
  ASSUME SessionType, PairedIsStored, [Next]_vars
  PROVE  PairedIsStored'
<1> USE DEF SessionType, PairedIsStored
<1>1. ASSUME NEW c \in Calls, Enable(c) PROVE PairedIsStored'
  BY <1>1 DEF Enable, Task, LoadIdentity, Return
<1>2. ASSUME NEW c \in Calls, BackendReady(c) PROVE PairedIsStored'
  BY <1>2 DEF BackendReady, LoadIdentity, Return
<1>3. ASSUME NEW c \in Calls, ListenFails(c) PROVE PairedIsStored'
  BY <1>3 DEF ListenFails, Return, pairVars
<1>4. ASSUME NEW c \in Calls, Listening(c) PROVE PairedIsStored'
  BY <1>4 DEF Listening, Return
<1>5. ASSUME NEW c \in Calls, Disable(c) PROVE PairedIsStored'
  BY <1>5 DEF Disable, Task, StopBridge, Stopped
<1>6. ASSUME NEW c \in Calls, Closed(c) PROVE PairedIsStored'
  BY <1>6 DEF Closed, Return, Stopped
<1>7. CASE Restart
  BY <1>7 DEF Restart, Task, Fresh
<1>8. CASE StartPairing
  BY <1>8 DEF StartPairing, lifeVars
<1>9. ASSUME NEW o \in Offers, Expires(o) PROVE PairedIsStored'
  BY <1>9 DEF Expires, lifeVars
<1>10. CASE OfferTimer
  BY <1>10 DEF OfferTimer, lifeVars
<1>11. ASSUME NEW p \in Phones, NEW o \in Offers, PairRequest(p, o) PROVE PairedIsStored'
  BY <1>11 DEF PairRequest, lifeVars
<1>12. ASSUME NEW ok \in BOOLEAN, Confirm(ok) PROVE PairedIsStored'
  BY <1>12 DEF Confirm, ConfirmThrows, Reset, lifeVars
<1>13. CASE Cancel
  BY <1>13 DEF Cancel, Reset, lifeVars
<1>14. CASE Forget
  BY <1>14 DEF Forget, Reset, lifeVars
<1>15. ASSUME NEW base \in OrNone(Urls), ApplyRelayBaseUrl(base) PROVE PairedIsStored'
  BY <1>15 DEF ApplyRelayBaseUrl, Task, lifeVars, pairVars
<1>16. CASE SetKillSwitch
  BY <1>16 DEF SetKillSwitch, Task, lifeVars
<1>17. CASE UNCHANGED vars
  BY <1>17 DEF vars, lifeVars, pairVars
<1> QED
  BY <1>1, <1>2, <1>3, <1>4, <1>5, <1>6, <1>7, <1>8, <1>9, <1>10, <1>11, <1>12, <1>13, <1>14, <1>15, <1>16, <1>17 DEF Next, Toggle

LEMMA NewHostEmpty ==
  ASSUME kill \in BOOLEAN
  PROVE  NewHost # None /\ NewHost.token = None /\ NewHost.peer = None /\ NewHost.kill = kill
  BY NewHostType, NoneAssumption DEF NewHost

\* What becomes of the pairing host when an offer is made,
LEMMA StartPairingHost ==
  ASSUME HostType, OfferType, StartPairing
  PROVE  /\ pairing # None /\ pairing' # None
         /\ pairing'.token = offer' /\ pairing'.peer = pairing.peer
         /\ pairing'.by = pairing.by /\ pairing'.kill = pairing.kill
         /\ offer' = offers + 1
<1> QED  BY BoundAssumption, NoneAssumption DEF Hosts, StartPairing, HostType, OfferType, Offers, OrNone

\* scanned,
LEMMA PairRequestHost ==
  ASSUME HostType, NEW p \in Phones, NEW o \in Offers, PairRequest(p, o)
  PROVE  /\ pairing # None /\ pairing' # None
         /\ pairing'.token = None /\ pairing'.kill = pairing.kill
         /\ pairing.token = o
         /\ IF o \in expired
            THEN /\ pairing'.peer = pairing.peer /\ pairing'.by = pairing.by
                 /\ pairing'.sas = pairing.sas
            ELSE pairing'.by = o /\ pairing'.sas = p
<1>2. CASE o \in expired  BY <1>2, NoneAssumption DEF Hosts, PairRequest, OrNone, HostType
<1>3. CASE o \notin expired  BY <1>3, NoneAssumption DEF Hosts, PairRequest, OrNone, HostType
<1> QED
  BY <1>2, <1>3

\* confirmed,
LEMMA ConfirmHost ==
  ASSUME HostType, NEW ok \in BOOLEAN, Confirm(ok)
  PROVE  /\ pairing # None /\ pairing' # None
         /\ pairing'.peer = None /\ pairing'.kill \in {pairing.kill, kill}
         /\ \/ pairing'.token = None /\ offer' = None
            \/ pairing'.token = pairing.token /\ pairing'.sas = pairing.sas /\ offer' = offer
         /\ UNCHANGED <<kill, enabled, dropped, offers, expired>>
<1>2. CASE pairing' = NewHost /\ offer' = None
  BY <1>2, NewHostEmpty, NoneAssumption DEF HostType, Confirm, lifeVars
<1>3. CASE pairing' = [pairing EXCEPT !.peer = None, !.by = None] /\ offer' = offer
  BY <1>3, NoneAssumption DEF Hosts, OrNone, Confirm, HostType, lifeVars
<1> QED  BY <1>2, <1>3 DEF Confirm, ConfirmThrows, Reset, HostType, lifeVars

\* and when the kill switch is thrown.
LEMMA KillHost ==
  ASSUME HostType, SetKillSwitch, pairing # None
  PROVE  /\ pairing' # None
         /\ pairing'.token = pairing.token /\ pairing'.peer = pairing.peer
         /\ pairing'.by = pairing.by /\ pairing'.sas = pairing.sas /\ pairing'.kill = kill'
<1> QED  BY NoneAssumption DEF Hosts, SetKillSwitch, HostType

LEMMA KillStep ==
  ASSUME HostType, SessionType, KillSwitchHolds, [Next]_vars
  PROVE  KillSwitchHolds'
<1> USE NewHostEmpty DEF HostType, SessionType, KillSwitchHolds
<1>1. ASSUME NEW c \in Calls, Enable(c) PROVE KillSwitchHolds'
  BY <1>1 DEF Enable, Task, LoadIdentity, Return
<1>2. ASSUME NEW c \in Calls, BackendReady(c) PROVE KillSwitchHolds'
  BY <1>2 DEF BackendReady, LoadIdentity, Return
<1>3. ASSUME NEW c \in Calls, ListenFails(c) PROVE KillSwitchHolds'
  BY <1>3 DEF ListenFails, Return, pairVars
<1>4. ASSUME NEW c \in Calls, Listening(c) PROVE KillSwitchHolds'
  BY <1>4 DEF Listening, Return
<1>5. ASSUME NEW c \in Calls, Disable(c) PROVE KillSwitchHolds'
  BY <1>5 DEF Disable, Task, StopBridge, Stopped
<1>6. ASSUME NEW c \in Calls, Closed(c) PROVE KillSwitchHolds'
  BY <1>6 DEF Closed, Return, Stopped
<1>7. CASE Restart
  BY <1>7 DEF Restart, Task, Fresh
<1>8. CASE StartPairing
  BY <1>8, StartPairingHost DEF StartPairing, lifeVars
<1>9. ASSUME NEW o \in Offers, Expires(o) PROVE KillSwitchHolds'
  BY <1>9 DEF Expires, lifeVars
<1>10. CASE OfferTimer
  BY <1>10 DEF OfferTimer, lifeVars
<1>11. ASSUME NEW p \in Phones, NEW o \in Offers, PairRequest(p, o) PROVE KillSwitchHolds'
  BY <1>11, PairRequestHost DEF PairRequest, lifeVars
<1>12. ASSUME NEW ok \in BOOLEAN, Confirm(ok) PROVE KillSwitchHolds'  BY <1>12, ConfirmHost DEF Confirm
<1>13. CASE Cancel
  BY <1>13 DEF Cancel, Reset, lifeVars
<1>14. CASE Forget
  BY <1>14 DEF Forget, Reset, lifeVars
<1>15. ASSUME NEW base \in OrNone(Urls), ApplyRelayBaseUrl(base) PROVE KillSwitchHolds'
  BY <1>15 DEF ApplyRelayBaseUrl, Task, lifeVars, pairVars
<1>16. CASE SetKillSwitch
  BY <1>16, KillHost DEF SetKillSwitch, lifeVars
<1>17. CASE UNCHANGED vars
  BY <1>17 DEF vars, lifeVars, pairVars
<1> QED
  BY <1>1, <1>2, <1>3, <1>4, <1>5, <1>6, <1>7, <1>8, <1>9, <1>10, <1>11, <1>12, <1>13, <1>14, <1>15, <1>16, <1>17 DEF Next, Toggle

LEMMA NoneDropped ==
  ASSUME OfferType
  PROVE  None \notin 1..offers /\ offers + 1 \notin 1..offers
  BY NoneAssumption, BoundAssumption DEF OfferType

LEMMA HostStep ==
  ASSUME TypeInv, BootInv, HostInv, [Next]_vars
  PROVE  HostInv'
<1> USE DEF TypeInv, LifeType, BootInv, HostInv
<1>1. ASSUME NEW c \in Calls, Enable(c) PROVE HostInv'
  BY <1>1 DEF Enable, Task, LoadIdentity, Return
<1>2. ASSUME NEW c \in Calls, BackendReady(c) PROVE HostInv'
  BY <1>2 DEF BackendReady, LoadIdentity, Return
<1>3. ASSUME NEW c \in Calls, ListenFails(c) PROVE HostInv'
  BY <1>3 DEF ListenFails, Return, pairVars
<1>4. ASSUME NEW c \in Calls, Listening(c) PROVE HostInv'
  BY <1>4 DEF Listening, Return
<1>5. ASSUME NEW c \in Calls, Disable(c) PROVE HostInv'
  BY <1>5 DEF Disable, Task, StopBridge, Stopped
<1>6. ASSUME NEW c \in Calls, Closed(c) PROVE HostInv'
  BY <1>6 DEF Closed, Return, Stopped
<1>7. CASE Restart
  BY <1>7 DEF Restart, Task, Fresh
<1>8. CASE StartPairing
  BY <1>8, StartPairingHost DEF StartPairing, lifeVars
<1>9. ASSUME NEW o \in Offers, Expires(o) PROVE HostInv'
  BY <1>9 DEF Expires, lifeVars
<1>10. CASE OfferTimer
  BY <1>10 DEF OfferTimer, lifeVars
<1>11. ASSUME NEW p \in Phones, NEW o \in Offers, PairRequest(p, o) PROVE HostInv'
  BY <1>11, PairRequestHost DEF PairRequest, lifeVars
<1>12. ASSUME NEW ok \in BOOLEAN, Confirm(ok) PROVE HostInv'
  BY <1>12, ConfirmHost
<1>13. CASE Cancel
  BY <1>13 DEF Cancel, Reset, lifeVars
<1>14. CASE Forget
  BY <1>14 DEF Forget, Reset, lifeVars
<1>15. ASSUME NEW base \in OrNone(Urls), ApplyRelayBaseUrl(base) PROVE HostInv'
  BY <1>15 DEF ApplyRelayBaseUrl, Task, lifeVars, pairVars
<1>16. CASE SetKillSwitch
  BY <1>16, KillHost DEF SetKillSwitch, lifeVars
<1>17. CASE UNCHANGED vars
  BY <1>17 DEF vars, lifeVars, pairVars
<1> QED
  BY <1>1, <1>2, <1>3, <1>4, <1>5, <1>6, <1>7, <1>8, <1>9, <1>10, <1>11, <1>12, <1>13, <1>14, <1>15, <1>16, <1>17 DEF Next, Toggle

LEMMA DropStep ==
  ASSUME TypeInv, DropInv, [Next]_vars
  PROVE  DropInv'
<1> USE NoneDropped, NewHostEmpty DEF TypeInv, HostType, OfferType, DropInv, DroppedOfferIsDead
<1>1. ASSUME NEW c \in Calls, Enable(c) PROVE DropInv'
  BY <1>1 DEF Enable, Task, LoadIdentity, Return
<1>2. ASSUME NEW c \in Calls, BackendReady(c) PROVE DropInv'
  BY <1>2 DEF BackendReady, LoadIdentity, Return
<1>3. ASSUME NEW c \in Calls, ListenFails(c) PROVE DropInv'
  BY <1>3 DEF ListenFails, Return, pairVars
<1>4. ASSUME NEW c \in Calls, Listening(c) PROVE DropInv'
  BY <1>4 DEF Listening, Return
<1>5. ASSUME NEW c \in Calls, Disable(c) PROVE DropInv'
  <2>2. \/ pairing' = pairing /\ dropped' = dropped
        \/ pairing' = None /\ dropped' = 1..offers
    BY <1>5 DEF Disable, Stopped
  <2> QED  BY <1>5, <2>2 DEF Disable
<1>6. ASSUME NEW c \in Calls, Closed(c) PROVE DropInv'
  BY <1>6 DEF Closed, Return, Stopped
<1>7. CASE Restart
  BY <1>7 DEF Restart, Task, Fresh
<1>8. CASE StartPairing
  BY <1>8, StartPairingHost DEF StartPairing, lifeVars
<1>9. ASSUME NEW o \in Offers, Expires(o) PROVE DropInv'
  BY <1>9 DEF Expires, lifeVars
<1>10. CASE OfferTimer
  BY <1>10 DEF OfferTimer, lifeVars
<1>11. ASSUME NEW p \in Phones, NEW o \in Offers, PairRequest(p, o) PROVE DropInv'
  <2>2. pairing # None /\ o \notin dropped
    BY <1>11, PairRequestHost
  <2>3. pairing'.token = None
    BY <1>11, PairRequestHost
  <2>4. \/ pairing'.by = o
        \/ pairing'.peer = pairing.peer /\ pairing'.by = pairing.by
    BY <1>11, PairRequestHost
  <2> QED  BY <1>11, <2>2, <2>3, <2>4 DEF PairRequest
<1>12. ASSUME NEW ok \in BOOLEAN, Confirm(ok) PROVE DropInv'
  <2>1. UNCHANGED <<offers, dropped>>
    BY <1>12, ConfirmHost
  <2> QED  BY <2>1, <1>12, ConfirmHost
<1>13. CASE Cancel
  BY <1>13 DEF Cancel, Reset, lifeVars
<1>14. CASE Forget
  BY <1>14 DEF Forget, Reset, lifeVars
<1>15. ASSUME NEW base \in OrNone(Urls), ApplyRelayBaseUrl(base) PROVE DropInv'
  BY <1>15 DEF ApplyRelayBaseUrl, Task, lifeVars, pairVars
<1>16. CASE SetKillSwitch
  BY <1>16, KillHost DEF SetKillSwitch, lifeVars
<1>17. CASE UNCHANGED vars
  BY <1>17 DEF vars, lifeVars, pairVars
<1> QED
  BY <1>1, <1>2, <1>3, <1>4, <1>5, <1>6, <1>7, <1>8, <1>9, <1>10, <1>11, <1>12, <1>13, <1>14, <1>15, <1>16, <1>17 DEF Next, Toggle

LEMMA HonestStep ==
  ASSUME TypeInv, BootInv, HostInv, OfferIsHonest, [Next]_vars
  PROVE  OfferIsHonest'
<1> USE NoneAssumption DEF TypeInv, BootInv, HostInv, OfferIsHonest
<1>1. ASSUME NEW c \in Calls, Enable(c) PROVE OfferIsHonest'
  BY <1>1 DEF Enable, Task, LoadIdentity, Return
<1>2. ASSUME NEW c \in Calls, BackendReady(c) PROVE OfferIsHonest'
  BY <1>2 DEF BackendReady, LoadIdentity, Return
<1>3. ASSUME NEW c \in Calls, ListenFails(c) PROVE OfferIsHonest'
  BY <1>3 DEF ListenFails, Return, pairVars
<1>4. ASSUME NEW c \in Calls, Listening(c) PROVE OfferIsHonest'
  BY <1>4 DEF Listening, Return
<1>5. ASSUME NEW c \in Calls, Disable(c) PROVE OfferIsHonest'
  BY <1>5 DEF Disable, Task, StopBridge, Stopped
<1>6. ASSUME NEW c \in Calls, Closed(c) PROVE OfferIsHonest'
  BY <1>6 DEF Closed, Return, Stopped
<1>7. CASE Restart
  BY <1>7 DEF Restart, Task, Fresh
<1>8. CASE StartPairing
  BY <1>8, StartPairingHost DEF StartPairing, lifeVars
<1>9. ASSUME NEW o \in Offers, Expires(o) PROVE OfferIsHonest'
  BY <1>9 DEF Expires, lifeVars
<1>10. CASE OfferTimer
  BY <1>10 DEF OfferTimer, lifeVars
<1>11. ASSUME NEW p \in Phones, NEW o \in Offers, PairRequest(p, o) PROVE OfferIsHonest'
  BY <1>11, PairRequestHost DEF PairRequest, lifeVars
<1>12. ASSUME NEW ok \in BOOLEAN, Confirm(ok) PROVE OfferIsHonest'
  BY <1>12, ConfirmHost
<1>13. CASE Cancel
  BY <1>13 DEF Cancel, Reset, lifeVars
<1>14. CASE Forget
  BY <1>14 DEF Forget, Reset, lifeVars
<1>15. ASSUME NEW base \in OrNone(Urls), ApplyRelayBaseUrl(base) PROVE OfferIsHonest'
  BY <1>15 DEF ApplyRelayBaseUrl, Task, lifeVars, pairVars
<1>16. CASE SetKillSwitch
  BY <1>16, KillHost DEF SetKillSwitch, lifeVars
<1>17. CASE UNCHANGED vars
  BY <1>17 DEF vars, lifeVars, pairVars
<1> QED
  BY <1>1, <1>2, <1>3, <1>4, <1>5, <1>6, <1>7, <1>8, <1>9, <1>10, <1>11, <1>12, <1>13, <1>14, <1>15, <1>16, <1>17 DEF Next, Toggle

-----------------------------------------------------------------------------
(* The bridge, when toggles do not overlap.                                *)

LEMMA CallStep ==
  ASSUME Overlap = FALSE, LifeType, BootInv, CallInv, [Next]_vars
  PROVE  CallInv'
<1> USE NoneAssumption DEF LifeType, BootInv, CallInv, Starts, Busy, OrNone, Awaits
<1>1. ASSUME NEW c \in Calls, Enable(c) PROVE CallInv'
  BY <1>1 DEF Enable, Task, LoadIdentity, Return
<1>2. ASSUME NEW c \in Calls, BackendReady(c) PROVE CallInv'
  BY <1>2 DEF BackendReady, LoadIdentity, Return
<1>3. ASSUME NEW c \in Calls, ListenFails(c) PROVE CallInv'
  BY <1>3 DEF ListenFails, Return, pairVars
<1>4. ASSUME NEW c \in Calls, Listening(c) PROVE CallInv'
  BY <1>4 DEF Listening, Return
<1>5. ASSUME NEW c \in Calls, Disable(c) PROVE CallInv'
  BY <1>5 DEF Disable, Task, StopBridge, Stopped
<1>6. ASSUME NEW c \in Calls, Closed(c) PROVE CallInv'
  BY <1>6 DEF Closed, Return, Stopped
<1>7. CASE Restart
  BY <1>7 DEF Restart, Task, Fresh
<1>8. CASE StartPairing
  BY <1>8 DEF StartPairing, lifeVars
<1>9. ASSUME NEW o \in Offers, Expires(o) PROVE CallInv'
  BY <1>9 DEF Expires, lifeVars
<1>10. CASE OfferTimer
  BY <1>10 DEF OfferTimer, lifeVars
<1>11. ASSUME NEW p \in Phones, NEW o \in Offers, PairRequest(p, o) PROVE CallInv'
  BY <1>11 DEF PairRequest, lifeVars
<1>12. ASSUME NEW ok \in BOOLEAN, Confirm(ok) PROVE CallInv'
  BY <1>12 DEF Confirm, ConfirmThrows, Reset, lifeVars
<1>13. CASE Cancel
  BY <1>13 DEF Cancel, Reset, lifeVars
<1>14. CASE Forget
  BY <1>14 DEF Forget, Reset, lifeVars
<1>15. ASSUME NEW base \in OrNone(Urls), ApplyRelayBaseUrl(base) PROVE CallInv'
  BY <1>15 DEF ApplyRelayBaseUrl, Task, lifeVars, pairVars
<1>16. CASE SetKillSwitch
  BY <1>16 DEF SetKillSwitch, Task, lifeVars
<1>17. CASE UNCHANGED vars
  BY <1>17 DEF vars, lifeVars, pairVars
<1> QED
  BY <1>1, <1>2, <1>3, <1>4, <1>5, <1>6, <1>7, <1>8, <1>9, <1>10, <1>11, <1>12, <1>13, <1>14, <1>15, <1>16, <1>17 DEF Next, Toggle

LEMMA ListenerStep ==
  ASSUME Overlap = FALSE, LifeType, CallInv, listeners \subseteq {lan}, [Next]_vars
  PROVE  (listeners \subseteq {lan})'
<1> USE NoneAssumption DEF LifeType, CallInv, Starts, Lans
<1>1. ASSUME NEW c \in Calls, Enable(c) PROVE (listeners \subseteq {lan})'
  BY <1>1 DEF Enable, Task, LoadIdentity, Return
<1>2. ASSUME NEW c \in Calls, BackendReady(c) PROVE (listeners \subseteq {lan})'
  BY <1>2 DEF BackendReady, LoadIdentity, Return
<1>3. ASSUME NEW c \in Calls, ListenFails(c) PROVE (listeners \subseteq {lan})'
  BY <1>3 DEF ListenFails, Return, pairVars
<1>4. ASSUME NEW c \in Calls, Listening(c) PROVE (listeners \subseteq {lan})'
  BY <1>4 DEF Listening, Return
<1>5. ASSUME NEW c \in Calls, Disable(c) PROVE (listeners \subseteq {lan})'
  BY <1>5 DEF Disable, Task, StopBridge, Stopped
<1>6. ASSUME NEW c \in Calls, Closed(c) PROVE (listeners \subseteq {lan})'
  BY <1>6 DEF Closed, Return, Stopped
<1>7. CASE Restart
  BY <1>7 DEF Restart, Task, Fresh
<1>8. CASE StartPairing
  BY <1>8 DEF StartPairing, lifeVars
<1>9. ASSUME NEW o \in Offers, Expires(o) PROVE (listeners \subseteq {lan})'
  BY <1>9 DEF Expires, lifeVars
<1>10. CASE OfferTimer
  BY <1>10 DEF OfferTimer, lifeVars
<1>11. ASSUME NEW p \in Phones, NEW o \in Offers, PairRequest(p, o) PROVE (listeners \subseteq {lan})'
  BY <1>11 DEF PairRequest, lifeVars
<1>12. ASSUME NEW ok \in BOOLEAN, Confirm(ok) PROVE (listeners \subseteq {lan})'
  BY <1>12 DEF Confirm, ConfirmThrows, Reset, lifeVars
<1>13. CASE Cancel
  BY <1>13 DEF Cancel, Reset, lifeVars
<1>14. CASE Forget
  BY <1>14 DEF Forget, Reset, lifeVars
<1>15. ASSUME NEW base \in OrNone(Urls), ApplyRelayBaseUrl(base) PROVE (listeners \subseteq {lan})'
  BY <1>15 DEF ApplyRelayBaseUrl, Task, lifeVars, pairVars
<1>16. CASE SetKillSwitch
  BY <1>16 DEF SetKillSwitch, Task, lifeVars
<1>17. CASE UNCHANGED vars
  BY <1>17 DEF vars, lifeVars, pairVars
<1> QED
  BY <1>1, <1>2, <1>3, <1>4, <1>5, <1>6, <1>7, <1>8, <1>9, <1>10, <1>11, <1>12, <1>13, <1>14, <1>15, <1>16, <1>17 DEF Next, Toggle

LEMMA AttachedStep ==
  ASSUME Overlap = FALSE, SessionType, CallInv, AttachedIsPaired, [Next]_vars
  PROVE  AttachedIsPaired'
<1> USE DEF SessionType, CallInv, Starts, AttachedIsPaired
<1>1. ASSUME NEW c \in Calls, Enable(c) PROVE AttachedIsPaired'
  BY <1>1 DEF Enable, Task, LoadIdentity, Return
<1>2. ASSUME NEW c \in Calls, BackendReady(c) PROVE AttachedIsPaired'
  BY <1>2 DEF BackendReady, LoadIdentity, Return
<1>3. ASSUME NEW c \in Calls, ListenFails(c) PROVE AttachedIsPaired'
  BY <1>3 DEF ListenFails, Return, pairVars
<1>4. ASSUME NEW c \in Calls, Listening(c) PROVE AttachedIsPaired'
  <2>1. CASE session' = [peer |-> file, kill |-> kill] /\ device' = file
    BY <2>1
  <2>2. CASE subscribed' = subscribed
    BY <1>4, <2>2 DEF Listening
  <2> QED
    BY <1>4, <2>1, <2>2 DEF Listening
<1>5. ASSUME NEW c \in Calls, Disable(c) PROVE AttachedIsPaired'
  BY <1>5 DEF Disable, Task, StopBridge, Stopped
<1>6. ASSUME NEW c \in Calls, Closed(c) PROVE AttachedIsPaired'
  BY <1>6 DEF Closed, Return, Stopped
<1>7. CASE Restart
  BY <1>7 DEF Restart, Task, Fresh
<1>8. CASE StartPairing
  BY <1>8 DEF StartPairing, lifeVars
<1>9. ASSUME NEW o \in Offers, Expires(o) PROVE AttachedIsPaired'
  BY <1>9 DEF Expires, lifeVars
<1>10. CASE OfferTimer
  BY <1>10 DEF OfferTimer, lifeVars
<1>11. ASSUME NEW p \in Phones, NEW o \in Offers, PairRequest(p, o) PROVE AttachedIsPaired'
  BY <1>11 DEF PairRequest, lifeVars
<1>12. ASSUME NEW ok \in BOOLEAN, Confirm(ok) PROVE AttachedIsPaired'
  BY <1>12 DEF Confirm, ConfirmThrows, Reset, lifeVars
<1>13. CASE Cancel
  BY <1>13 DEF Cancel, Reset, lifeVars
<1>14. CASE Forget
  BY <1>14 DEF Forget, Reset, lifeVars
<1>15. ASSUME NEW base \in OrNone(Urls), ApplyRelayBaseUrl(base) PROVE AttachedIsPaired'
  BY <1>15 DEF ApplyRelayBaseUrl, Task, lifeVars, pairVars
<1>16. CASE SetKillSwitch
  BY <1>16 DEF SetKillSwitch, Task, lifeVars
<1>17. CASE UNCHANGED vars
  BY <1>17 DEF vars, lifeVars, pairVars
<1> QED
  BY <1>1, <1>2, <1>3, <1>4, <1>5, <1>6, <1>7, <1>8, <1>9, <1>10, <1>11, <1>12, <1>13, <1>14, <1>15, <1>16, <1>17 DEF Next, Toggle

LEMMA RegistrationStep ==
  ASSUME Overlap = FALSE, ApplyBusy = FALSE, LifeType, RelayType, BootInv, CallInv, RegistrationInv, [Next]_vars
  PROVE  RegistrationInv'
<1> USE NoneAssumption DEF LifeType, RelayType, BootInv, CallInv, RegistrationInv, Registered, Starts, Busy, OrNone, Awaits
<1>1. ASSUME NEW c \in Calls, Enable(c) PROVE RegistrationInv'
  BY <1>1 DEF Enable, Task, LoadIdentity, Return
<1>2. ASSUME NEW c \in Calls, BackendReady(c) PROVE RegistrationInv'
  BY <1>2 DEF BackendReady, LoadIdentity, Return
<1>3. ASSUME NEW c \in Calls, ListenFails(c) PROVE RegistrationInv'
  BY <1>3 DEF ListenFails, Return, pairVars
<1>4. ASSUME NEW c \in Calls, Listening(c) PROVE RegistrationInv'
  BY <1>4 DEF Listening, Return
<1>5. ASSUME NEW c \in Calls, Disable(c) PROVE RegistrationInv'
  BY <1>5 DEF Disable, Task, StopBridge, Stopped
<1>6. ASSUME NEW c \in Calls, Closed(c) PROVE RegistrationInv'
  BY <1>6 DEF Closed, Return, Stopped
<1>7. CASE Restart
  BY <1>7 DEF Restart, Task, Fresh
<1>8. CASE StartPairing
  BY <1>8 DEF StartPairing, lifeVars
<1>9. ASSUME NEW o \in Offers, Expires(o) PROVE RegistrationInv'
  BY <1>9 DEF Expires, lifeVars
<1>10. CASE OfferTimer
  BY <1>10 DEF OfferTimer, lifeVars
<1>11. ASSUME NEW p \in Phones, NEW o \in Offers, PairRequest(p, o) PROVE RegistrationInv'
  BY <1>11 DEF PairRequest, lifeVars
<1>12. ASSUME NEW ok \in BOOLEAN, Confirm(ok) PROVE RegistrationInv'
  BY <1>12 DEF Confirm, ConfirmThrows, Reset, lifeVars
<1>13. CASE Cancel
  BY <1>13 DEF Cancel, Reset, lifeVars
<1>14. CASE Forget
  BY <1>14 DEF Forget, Reset, lifeVars
<1>15. ASSUME NEW base \in OrNone(Urls), ApplyRelayBaseUrl(base) PROVE RegistrationInv'
  BY <1>15 DEF ApplyRelayBaseUrl, Task, lifeVars, pairVars
<1>16. CASE SetKillSwitch
  BY <1>16 DEF SetKillSwitch, Task, lifeVars
<1>17. CASE UNCHANGED vars
  BY <1>17 DEF vars, lifeVars, pairVars
<1> QED
  BY <1>1, <1>2, <1>3, <1>4, <1>5, <1>6, <1>7, <1>8, <1>9, <1>10, <1>11, <1>12, <1>13, <1>14, <1>15, <1>16, <1>17 DEF Next, Toggle

-----------------------------------------------------------------------------
(* The theorems.                                                           *)

LEMMA InitInv == Init => TypeInv /\ PairInv /\ ToggleInv /\ RegistrationInv
<1> SUFFICES ASSUME Init PROVE TypeInv /\ PairInv /\ ToggleInv /\ RegistrationInv
  OBVIOUS
<1>2. TypeInv
  <2>1. LifeType
    <3>2. tasks \in 0..MaxTasks
      BY BoundAssumption DEF Init
    <3> QED  BY <3>2 DEF Init, LifeType, OrNone, Awaits
  <2>3. OfferType
    BY BoundAssumption DEF Init, OfferType, OrNone
  <2> QED  BY <2>1, <2>3 DEF TypeInv, Init, HostType, SessionType, RelayType, OrNone
<1> QED
  BY <1>2, NoneAssumption DEF Init, PairInv, BootInv, HostInv, PairedIsStored, KillSwitchHolds, DropInv,
     DroppedOfferIsDead, OfferIsHonest, Awaits, ToggleInv, CallInv, Starts, AttachedIsPaired, RegistrationInv

LEMMA TypeInvariance == Spec => []TypeInv
  BY InitInv, TypeStep, PTL DEF Spec

LEMMA PairInvariance == Spec => []PairInv
<1>1. TypeInv /\ PairInv /\ [Next]_vars => PairInv'
  BY BootStep, HostStep, StoredStep, KillStep, DropStep, HonestStep DEF PairInv, TypeInv
<1> QED
  BY <1>1, InitInv, TypeInvariance, PTL DEF Spec

LEMMA ToggleInvariance ==
  ASSUME Overlap = FALSE
  PROVE  Spec => []ToggleInv
<1>1. TypeInv /\ PairInv /\ ToggleInv /\ [Next]_vars => ToggleInv'
  BY CallStep, ListenerStep, AttachedStep DEF PairInv, TypeInv, ToggleInv
<1> QED
  BY <1>1, InitInv, TypeInvariance, PairInvariance, PTL DEF Spec

\* Every variable keeps its type; only an identity and a backend that are loaded register,
\* and an offer on the screen was made: for all phones, relays, calls and bounds.
THEOREM TypeCorrect == Spec => []TypeOK
<1>1. TypeInv => TypeOK
  BY DEF TypeInv, LifeType, HostType, SessionType, OfferType, RelayType, TypeOK, OrNone
<1> QED
  BY <1>1, TypeInvariance, PTL

\* Whatever calls of setEnabled overlap, whenever the process restarts and whichever write
\* fails: a pairing survives a restart and a forgotten device stays forgotten, a dropped QR
\* code or SAS is dead, one on the screen is alive, and the kill switch holds.
THEOREM PairingCorrect ==
  Spec => [](PairedIsStored /\ DroppedOfferIsDead /\ OfferIsHonest /\ KillSwitchHolds)
<1>1. PairInv => PairedIsStored /\ DroppedOfferIsDead /\ OfferIsHonest /\ KillSwitchHolds
  BY DEF PairInv, DropInv
<1> QED
  BY <1>1, PairInvariance, PTL

\* When toggles do not overlap, the bridge serves exactly the paired device, and no
\* listener is lost, even if the relay base changes under a toggle.
THEOREM AttachmentCorrect == Overlap = FALSE => (Spec => [](PairingIsHonest /\ NoLostListener))
<1> SUFFICES ASSUME Overlap = FALSE PROVE Spec => [](PairingIsHonest /\ NoLostListener)
  OBVIOUS
<1>1. PairInv /\ ToggleInv => PairingIsHonest /\ NoLostListener
  BY DEF PairInv, DropInv, ToggleInv, PairingIsHonest, NoLostListener
<1> QED
  BY <1>1, PairInvariance, ToggleInvariance, PTL

\* When the relay base does not change under a toggle either, the registration follows the
\* toggle and the configured relay, and a bridge that was switched off is silent.
THEOREM BridgeCorrect == Overlap = FALSE /\ ApplyBusy = FALSE => (Spec => []BridgeIsHonest)
<1> SUFFICES ASSUME Overlap = FALSE, ApplyBusy = FALSE PROVE Spec => []BridgeIsHonest
  OBVIOUS
<1>1. TypeInv /\ PairInv /\ ToggleInv /\ RegistrationInv /\ [Next]_vars => RegistrationInv'
  BY RegistrationStep DEF PairInv, TypeInv, ToggleInv
<1>2. Spec => []RegistrationInv
  BY <1>1, InitInv, TypeInvariance, PairInvariance, ToggleInvariance, PTL DEF Spec
<1>3. ToggleInv /\ RegistrationInv => RegistrationFollows
  BY DEF RegistrationInv, RegistrationFollows
<1>4. TypeInv /\ ToggleInv /\ RegistrationInv => DisabledIsQuiet
  BY NoneAssumption DEF TypeInv, LifeType, Lans, ToggleInv, CallInv, RegistrationInv, DisabledIsQuiet
<1> QED
  BY <1>2, <1>3, <1>4, AttachmentCorrect, TypeInvariance, ToggleInvariance, PTL
     DEF BridgeIsHonest, BridgeFollowsToggle

-----------------------------------------------------------------------------
(* Proofs about PhoneLink.                                                *)

\* The relay that should be in use.
Wanted == IF bridge = "up" THEN relayUrl ELSE NoBase

\* The socket in use was dialled at the relay that is configured, and a challenge
\* on it that was answered was answered on it.
RelayInv(base) ==
    /\ RelayTypeOK
    /\ OneControlChannel
    /\ baseUrl = base
    /\ socket # NoSocket => dialled[socket] = baseUrl
    /\ socket # NoSocket /\ challenged => socket \in proved
    /\ state = "registered" => socket \in proved

\* A link that carries the generation of the stamp is the one that left it.
StampInv ==
    /\ stamp.generation < nextGeneration
    /\ \A l \in sockets :
          generations[l] = stamp.generation => caller = l /\ link[l].end = "phone"
    /\ \A k, l \in sockets : generations[k] = generations[l] => k = l

\* Unless a dial may open late, the open links are those of the transport, and
\* there are none once the bridge goes down.
OpenInv ==
    ~DialLate => /\ \A l \in Links : link[l].conn = "open" => l \in sockets
                 /\ bridge # "up" => sockets = {}

LinkTypeOK ==
    link \in [Links -> [conn : {"dialling", "open", "closing", "closed"}, end : Ends,
                        at : Bases \cup {NoBase}, token : Bases \cup {NoBase}]]

TransportTypeOK ==
    /\ sockets \subseteq Links
    /\ generations \in [sockets -> 1..MaxGeneration]
    /\ nextGeneration \in 1..(MaxGeneration + 1)
    /\ {active, caller} \subseteq sockets \cup {NoLink}
    /\ stamp \in [generation : 0..MaxGeneration, recent : BOOLEAN]
    /\ \A l \in sockets : link[l].conn = "open" /\ generations[l] < nextGeneration

TransportInv == LinkTypeOK /\ TransportTypeOK /\ StampInv

BridgeInv ==
    /\ bridge \in {"off", "up", "closing"}
    /\ relayUrl \in Bases \cup {NoBase}
    /\ bridge # "up" => stamp = NoStamp

LinksInv == BridgeInv /\ RelayInv(Wanted) /\ TransportInv /\ DialsFollowBase /\ OpenInv

-----------------------------------------------------------------------------
(* The control channel.                                                    *)

LEMMA ConnectInv ==
  ASSUME RelayTypeOK, NEW base \in Bases, NEW conns,
         conns \in [Sockets -> {"connecting", "open", "closing", "closed"}],
         \A s \in Sockets : conns[s] \in {"closing", "closed"},
         Connect(base, conns), baseUrl' = base, timer' = FALSE
  PROVE  RelayInv(base)'
<1> PICK s \in Sockets :
        /\ socket' = s
        /\ conn' = [conns EXCEPT ![s] = "connecting"]
        /\ dialled' = [dialled EXCEPT ![s] = base]
        /\ proved' = proved \ {s}
        /\ state' = "connecting"
        /\ challenged' = FALSE
  BY DEF Connect
<1> QED  BY SocketAssumption, BaseAssumption DEF RelayInv, RelayTypeOK, RelayStates, OneControlChannel

LEMMA ClosingInv ==
  ASSUME RelayTypeOK, OneControlChannel
  PROVE  /\ Closing(socket) \in [Sockets -> {"connecting", "open", "closing", "closed"}]
         /\ \A s \in Sockets : Closing(socket)[s] \in {"closing", "closed"}
  BY DEF RelayTypeOK, OneControlChannel, Closing

LEMMA TeardownInv ==
  ASSUME NEW base, RelayInv(base), Teardown, baseUrl' = NoBase
  PROVE  RelayInv(NoBase)'
<1> QED  BY ClosingInv DEF RelayInv, Teardown, RelayTypeOK, RelayStates, OneControlChannel

LEMMA SetBaseUrlInv ==
  ASSUME NEW old, RelayInv(old), NEW base \in Bases \cup {NoBase}, SetBaseUrl(base)
  PROVE  RelayInv(base)'
<1>1. CASE base = NoBase
  BY <1>1, TeardownInv DEF SetBaseUrl
<1>2. CASE base # NoBase
  BY <1>2, ClosingInv, ConnectInv DEF SetBaseUrl, RelayInv
<1> QED
  BY <1>1, <1>2

LEMMA EventInv ==
  ASSUME NEW base, RelayInv(base),
         \/ \E s \in Sockets : Opened(s)
         \/ \E s \in Sockets : Lost(s)
         \/ BackoffTimer
  PROVE  RelayInv(base)'
<1>1. ASSUME NEW s \in Sockets, Opened(s) PROVE RelayInv(base)'
  BY <1>1, SocketAssumption DEF RelayInv, Opened, RelayTypeOK, RelayStates, OneControlChannel
<1>2. ASSUME NEW s \in Sockets, Lost(s) PROVE RelayInv(base)'
  BY <1>2, SocketAssumption DEF RelayInv, Lost, RelayTypeOK, RelayStates, OneControlChannel
<1>3. CASE BackoffTimer
  BY <1>3, SocketAssumption, ConnectInv DEF RelayInv, RelayTypeOK, BackoffTimer, OneControlChannel
<1> QED
  BY <1>1, <1>2, <1>3

LEMMA HandleInv ==
  ASSUME NEW base, RelayInv(base), NEW frame \in Frames, socket \in Sockets,
         Handle(socket, frame)
  PROVE  RelayInv(base)'
<1> QED
  BY ClosingInv, SocketAssumption DEF RelayInv, Handle, RelayTypeOK, RelayStates, OneControlChannel, Violates

LEMMA RelayUnchanged ==
  ASSUME NEW base, RelayInv(base), UNCHANGED relayVars
  PROVE  RelayInv(base)'
  BY DEF RelayInv, RelayTypeOK, OneControlChannel, relayVars

-----------------------------------------------------------------------------
(* The transport.                                                          *)

LEMMA NewTransportInv ==
  ASSUME LinkTypeOK', NewTransport
  PROVE  TransportInv'
<1> QED  BY GenerationAssumption DEF TransportInv, TransportTypeOK, NewTransport, NoStamp, StampInv

\* A link that is attached gets a generation nobody has had.
LEMMA AttachInv ==
  ASSUME TransportInv, NEW l \in Links, l \notin sockets, Attach(l),
         LinkTypeOK', link'[l].conn = "open", \A k \in sockets : link'[k] = link[k]
  PROVE  TransportInv'
<1> QED  BY GenerationAssumption DEF TransportInv, TransportTypeOK, Attach, StampInv

LEMMA DetachInv ==
  ASSUME TransportInv, NEW l \in sockets, Detach(l),
         LinkTypeOK', \A k \in sockets \ {l} : link'[k] = link[k]
  PROVE  TransportInv'
<1> QED  BY LinkAssumption DEF TransportInv, TransportTypeOK, Detach, StampInv

LEMMA TransportUnchanged ==
  ASSUME TransportInv, UNCHANGED transportVars,
         LinkTypeOK', \A k \in sockets : link'[k] = link[k]
  PROVE  TransportInv'
<1> QED  BY DEF TransportInv, TransportTypeOK, transportVars, StampInv

-----------------------------------------------------------------------------
(* The actions.                                                            *)

LEMMA LanAcceptInv ==
  ASSUME LinksInv, NEW l \in Links, NEW end \in Ends, LanAccept(l, end)
  PROVE  LinksInv'
<1> USE DEF LinksInv, BridgeInv
<1> QED
  BY AttachInv, RelayUnchanged DEF LanAccept, bridgeVars, Attach, TransportInv, LinkTypeOK, DialsFollowBase,
     OpenInv, Wanted, TransportTypeOK, Unlinked

LEMMA DialOpensInv ==
  ASSUME LinksInv, NEW l \in Links, DialOpens(l)
  PROVE  LinksInv'
<1> USE DEF LinksInv, BridgeInv
<1>1. LinkTypeOK' /\ DialsFollowBase'
  BY DEF DialOpens, TransportInv, LinkTypeOK, DialsFollowBase
<1>4. CASE bridge = "off"
  <2>2. OpenInv'
    BY <1>4 DEF DialOpens, OpenInv, TransportInv, LinkTypeOK, bridgeVars, transportVars
  <2> QED
    BY <1>1, RelayUnchanged, <1>4, TransportUnchanged, <2>2 DEF DialOpens, bridgeVars, transportVars, Wanted,
       TransportInv, LinkTypeOK, TransportTypeOK
<1>5. CASE bridge # "off"
  BY <1>1, RelayUnchanged, <1>5, AttachInv DEF DialOpens, Attach, bridgeVars, Wanted, OpenInv, TransportInv,
     LinkTypeOK, TransportTypeOK
<1> QED
  BY <1>4, <1>5

LEMMA FrameArrivesInv ==
  ASSUME LinksInv, NEW l \in Links, NEW mine \in BOOLEAN, FrameArrives(l, mine)
  PROVE  LinksInv'
<1> USE DEF LinksInv, BridgeInv
<1>2. TransportTypeOK'
  <2>2. CASE mine /\ link[l].end = "phone" /\ bridge = "up"
    <3>1. stamp' \in [generation : 0..MaxGeneration, recent : BOOLEAN]
      <4>1. stamp' = [generation |-> generations[l], recent |-> TRUE]
        BY <2>2 DEF FrameArrives
      <4> QED  BY GenerationAssumption, <4>1 DEF FrameArrives, TransportInv, TransportTypeOK
    <3> QED  BY <3>1, <2>2 DEF FrameArrives, TransportInv, TransportTypeOK
  <2>3. CASE ~(mine /\ link[l].end = "phone" /\ bridge = "up")
    BY <2>3 DEF FrameArrives, TransportInv, TransportTypeOK
  <2> QED
    BY <2>2, <2>3
<1> QED
  BY RelayUnchanged, <1>2 DEF FrameArrives, TransportInv, bridgeVars, LinkTypeOK, DialsFollowBase, Wanted,
     TransportTypeOK, StampInv, OpenInv

LEMMA LinkClosesInv ==
  ASSUME LinksInv, NEW l \in Links, LinkCloses(l)
  PROVE  LinksInv'
<1> USE DEF LinksInv, BridgeInv
<1>3. TransportInv'
  BY RelayUnchanged, DetachInv, TransportUnchanged DEF LinkCloses, TransportInv, TransportTypeOK, LinkTypeOK,
     DialsFollowBase, Wanted, bridgeVars
<1> QED
  BY RelayUnchanged, <1>3 DEF LinkCloses, Detach, bridgeVars, transportVars, OpenInv, TransportInv, LinkTypeOK,
     DialsFollowBase, Wanted

LEMMA StampAgesInv ==
  ASSUME LinksInv, StampAges
  PROVE  LinksInv'
<1> USE DEF LinksInv, BridgeInv
<1>2. TransportTypeOK' /\ StampInv'
  BY DEF StampAges, TransportInv, TransportTypeOK, StampInv
<1> QED
  BY RelayUnchanged, <1>2 DEF StampAges, TransportInv, NoStamp, bridgeVars, LinkTypeOK, DialsFollowBase, Wanted,
     OpenInv

\* The dial of an accepted session goes to the relay the token came from.
LEMMA ControlFrameInv ==
  ASSUME LinksInv, NEW s \in Sockets, NEW frame \in Frames, ControlFrame(s, frame)
  PROVE  LinksInv'
<1> USE DEF LinksInv, BridgeInv
<1>2. LinkTypeOK' /\ DialsFollowBase' /\ \A l \in Links : link[l].conn = "open" <=> link'[l].conn = "open"
  <2>1. CASE Accepts(s, frame)
    BY <2>1, SocketAssumption DEF ControlFrame, Unlinked, TransportInv, LinkTypeOK, DialsFollowBase, Accepts,
       RelayInv, RelayTypeOK
  <2>2. CASE ~Accepts(s, frame)
    BY <2>2 DEF ControlFrame, TransportInv, LinkTypeOK, DialsFollowBase
  <2> QED
    BY <2>1, <2>2
<1> QED
  BY HandleInv, RelayUnchanged, <1>2, TransportUnchanged DEF ControlFrame, bridgeVars, transportVars, Wanted,
     Unlinked, TransportInv, TransportTypeOK, LinkTypeOK, OpenInv

LEMMA ControlEventInv ==
  ASSUME LinksInv, ControlEvent
  PROVE  LinksInv'
<1> USE DEF LinksInv, BridgeInv
<1> QED
  BY EventInv, TransportUnchanged DEF ControlEvent, OpenInv, bridgeVars, transportVars, Wanted, TransportInv,
     LinkTypeOK, DialsFollowBase

LEMMA StartInv ==
  ASSUME LinksInv, Start
  PROVE  LinksInv'
<1> USE DEF LinksInv, BridgeInv
<1> QED
  BY SetBaseUrlInv, RelayUnchanged, NewTransportInv DEF Start, Wanted, TransportInv, LinkTypeOK,
     DialsFollowBase, NewTransport, OpenInv

LEMMA StopInv ==
  ASSUME LinksInv, Stop
  PROVE  LinksInv'
<1> USE DEF LinksInv, BridgeInv
<1> QED
  BY TeardownInv, GenerationAssumption DEF Stop, TransportInv, StopRegistration, Wanted, LinkTypeOK,
     DialsFollowBase, OpenInv, TransportTypeOK, StampInv, NoStamp

LEMMA StopSettlesInv ==
  ASSUME LinksInv, StopSettles
  PROVE  LinksInv'
<1> USE DEF LinksInv, BridgeInv
<1> QED
  BY RelayUnchanged, NewTransportInv DEF StopSettles, NewTransport, Wanted, TransportInv, LinkTypeOK,
     DialsFollowBase, OpenInv

LEMMA ApplyBaseUrlInv ==
  ASSUME LinksInv, NEW base \in Bases \cup {NoBase}, ApplyBaseUrl(base)
  PROVE  LinksInv'
<1> USE DEF LinksInv, BridgeInv
<1> QED
  BY SetBaseUrlInv, RelayUnchanged, TransportUnchanged DEF ApplyBaseUrl, OpenInv, transportVars, Wanted,
     TransportInv, LinkTypeOK, DialsFollowBase

-----------------------------------------------------------------------------
(* The theorems.                                                           *)

LEMMA LinksStart == PhoneInit => LinksInv
<1> SUFFICES ASSUME PhoneInit PROVE LinksInv
  OBVIOUS
<1>2. TransportInv
  BY GenerationAssumption DEF PhoneInit, TransportInv, LinkTypeOK, TransportTypeOK, StampInv, NoStamp, Ends
<1> QED
  BY SocketAssumption, <1>2 DEF PhoneInit, LinksInv, BridgeInv, DialsFollowBase, OpenInv, RelayInit, RelayInv,
     RelayTypeOK, RelayStates, OneControlChannel, Wanted

LEMMA LinksStep == LinksInv /\ [PhoneNext]_phoneVars => LinksInv'
<1> SUFFICES ASSUME LinksInv, [PhoneNext]_phoneVars PROVE LinksInv'
  OBVIOUS
<1>1. CASE UNCHANGED phoneVars
  BY <1>1, RelayUnchanged, TransportUnchanged DEF LinksInv, BridgeInv, DialsFollowBase, OpenInv, phoneVars,
     bridgeVars, transportVars, Wanted, TransportInv, LinkTypeOK
<1>2. CASE PhoneNext
  BY <1>2, LanAcceptInv, DialOpensInv, FrameArrivesInv, LinkClosesInv, StampAgesInv, ControlFrameInv,
     ControlEventInv, StartInv, StopInv, StopSettlesInv, ApplyBaseUrlInv DEF PhoneNext
<1> QED
  BY <1>1, <1>2

LEMMA LinksInvariance == PhoneSpec => []LinksInv
  BY LinksStart, LinksStep, PTL DEF PhoneSpec

\* Every variable keeps its type; a socket of the transport is open and carries a
\* generation that was given out, and a bridge that is not up has no relay and no
\* stamp: for all relays, sockets, links and bounds.
THEOREM PhoneTypeCorrect == PhoneSpec => []PhoneTypeOK
<1>1. LinksInv => PhoneTypeOK
  BY DEF LinksInv, BridgeInv, RelayInv, Wanted, TransportInv, LinkTypeOK, TransportTypeOK, PhoneTypeOK
<1> QED
  BY <1>1, LinksInvariance, PTL

\* However sockets open, close and are replaced, and however late a dial opens: there
\* is one control channel, the host is registered only where it has proved itself, a
\* token is shown only to the relay that gave it out, and a push wake is suppressed
\* only over an open link of the phone.
THEOREM ChannelCorrect ==
  PhoneSpec => [](OneControlChannel /\ RegisteredIsProved /\ DialsFollowBase /\ SuppressionIsHonest)
<1>1. LinksInv => OneControlChannel /\ DialsFollowBase
  BY DEF LinksInv, RelayInv
<1>2. LinksInv => RegisteredIsProved
  BY DEF LinksInv, RelayInv, OneControlChannel, RegisteredIsProved, Wanted
<1>3. LinksInv => SuppressionIsHonest
  BY LinkAssumption DEF LinksInv, TransportInv, TransportTypeOK, StampInv, SuppressionIsHonest,
     HasLivePhoneConnection, IsSocketLive
<1> QED
  BY <1>1, <1>2, <1>3, LinksInvariance, PTL

\* When no dial opens while stop() awaits the listener, the host also leaves no link
\* open when it is off.  A dial that does open then is the one case in which it may.
THEOREM LinksCorrect == DialLate = FALSE => (PhoneSpec => []LinksAreHonest)
<1> SUFFICES ASSUME DialLate = FALSE PROVE PhoneSpec => []LinksAreHonest
  OBVIOUS
<1>1. LinksInv => NoLeakedLink
  BY DEF LinksInv, BridgeInv, OpenInv, NoLeakedLink
<1> QED
  BY <1>1, ChannelCorrect, LinksInvariance, PTL DEF LinksAreHonest
=============================================================================
