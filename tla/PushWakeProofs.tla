---------------------------- MODULE PushWakeProofs ----------------------------
(***************************************************************************)
(* Proofs about PushWake, for every set of sessions, workflows, chains and *)
(* tokens and every bound.                                                 *)
(*                                                                         *)
(* What makes a ping unique is that the watcher's memory, its file and the *)
(* pass of a tick each show what is spent as it is (SpentInv): a detector  *)
(* that compares the present with any of them finds nothing new about it.  *)
(* What keeps two attempts apart is that the last one is in the memory and *)
(* in the file (PingInv).                                                  *)
(***************************************************************************)
EXTENDS PushWake, TLAPS

\* TypeOK, by the part of the state.
WorldType ==
    /\ attention \in [Sessions -> Attentions]
    /\ workflow \in [Workflows -> Statuses \cup {"absent"}]
    /\ chains \subseteq Chains
    /\ live \in BOOLEAN /\ enabled \in BOOLEAN
    /\ clock \in 0..MaxTime
    /\ changes \in 0..MaxChanges /\ trouble \in 0..MaxTrouble

PassType ==
    /\ phase \in {"idle", "states", "report"}
    /\ pass.events \subseteq Items
    /\ pass.next \in WhisperSeen \cup {Null}

MemType ==
    /\ mem \in Seen \cup {Unloaded}
    /\ disk \in Seen
    /\ pinged \in (0..MaxTime) \cup {Null}
    /\ phase # "idle" \/ post # NoPost => mem # Unloaded
    /\ phase # "idle" => post = NoPost

AuxType == spent \subseteq Items /\ carried \subseteq Items

TypeInv == SenderTypeOK /\ WorldType /\ PassType /\ MemType /\ AuxType

\* The last attempt is in the file, and in the memory once it is loaded.
PingInv ==
    pinged # Null => /\ disk.lastPingAt = pinged
                     /\ mem # Unloaded => mem.lastPingAt = pinged

\* What a whisper state says of what is spent.
ShowsWhisper(seen) ==
    /\ \A w \in Workflows : <<"workflow", w>> \in spent /\ seen # Null =>
          w \in DOMAIN seen.status /\ seen.status[w] = workflow[w]
    /\ \A c \in Chains : <<"chain", c>> \in spent => seen # Null /\ c \in seen.chains

ShowsSessions(seen) ==
    \A s \in Sessions : <<"session", s>> \in spent /\ seen # Null =>
       s \in DOMAIN seen /\ seen[s] = attention[s]

Shows(seen) == ShowsWhisper(seen.whisper) /\ ShowsSessions(seen.attention)

\* What the pass of the tick saw is what it would record, and it has no event that is
\* spent.
PassInv ==
    phase = "report" =>
       /\ ShowsWhisper(pass.next)
       /\ \A w \in Workflows, v \in Statuses : <<w, v>> \in pass.snapshot =>
             pass.next # Null /\ w \in DOMAIN pass.next.status /\ pass.next.status[w] = v
       /\ \A c \in Chains : <<c, "shown">> \in pass.snapshot =>
             pass.next # Null /\ c \in pass.next.chains
       /\ \A w \in Workflows : <<w, "absent">> \notin pass.snapshot
       /\ pass.events \cap spent = {}

\* What is spent is as the session report and whisper have it, and as the memory and the
\* file show it.
SpentWorld ==
    /\ \A s \in Sessions : <<"session", s>> \in spent => attention[s] \in Members
    /\ \A w \in Workflows : <<"workflow", w>> \in spent => workflow[w] # "absent"

SpentMem ==
    /\ mem # Unloaded => Shows(mem)
    /\ Shows(disk)

SpentInv == SpentWorld /\ SpentMem /\ PassInv

-----------------------------------------------------------------------------
(* The end of a tick: ReportRejected and ReportRead in one form.           *)

Reported(an, ev, rep) ==
    /\ phase = "report"
    /\ phase' = "idle"
    /\ pass' = NoPass
    /\ \/ an = mem.attention /\ ev = pass.events /\ rep = << >>
       \/ an = Report /\ ev = pass.events \cup AttentionEvents(mem.attention, Report) /\ rep = Report
    /\ Saved(an, ev, rep) \/ SaveFailed(an, ev)
    /\ UNCHANGED <<worldVars, gateVars>>

LEMMA ReportCases ==
  ASSUME ReportRejected \/ ReportRead(TRUE) \/ ReportRead(FALSE)
  PROVE  \E an, ev, rep : Reported(an, ev, rep)
<1>1. CASE ReportRejected
  BY <1>1 DEF ReportRejected, Reported
<1>2. ASSUME NEW saved \in BOOLEAN, ReportRead(saved) PROVE \E an, ev, rep : Reported(an, ev, rep)
  BY <1>2 DEF ReportRead, Reported
<1> QED
  BY <1>1, <1>2

LEMMA ReportType ==
  ASSUME WorldType
  PROVE  /\ Report \in Partial(Sessions, Members)
         /\ DOMAIN Report = {s \in Sessions : attention[s] \in Members}
         /\ \A s \in DOMAIN Report : Report[s] = attention[s]
<1>3. Report \in [DOMAIN Report -> Members]  BY DEF Report
<1>4. DOMAIN Report \in SUBSET Sessions  BY DEF Report
<1> QED  BY <1>3, <1>4 DEF Partial, Report

LEMMA ShownType ==
  ASSUME WorldType
  PROVE  /\ Shown \in Partial(Workflows, Statuses)
         /\ DOMAIN Shown = {w \in Workflows : workflow[w] # "absent"}
         /\ \A w \in DOMAIN Shown : Shown[w] = workflow[w]
<1>3. Shown \in [DOMAIN Shown -> Statuses]  BY DEF Shown, WorldType
<1>4. DOMAIN Shown \in SUBSET Workflows  BY DEF Shown
<1> QED  BY <1>3, <1>4 DEF Partial, Shown

LEMMA PartialDomain ==
  ASSUME NEW S, NEW T, NEW f \in Partial(S, T)
  PROVE  DOMAIN f \subseteq S /\ f \in [DOMAIN f -> T]
  BY DEF Partial

LEMMA WhisperNextType ==
  ASSUME WorldType, NEW seen \in WhisperSeen \cup {Null}
  PROVE  WhisperNext(seen, Shown, chains) \in WhisperSeen
<1> QED  BY ShownType DEF WhisperNext, WhisperSeen, WorldType

LEMMA EventsType ==
  ASSUME WorldType, NEW seen
  PROVE  /\ WhisperEvents(seen, Shown, chains) \subseteq Items
         /\ AttentionEvents(seen, Report) \subseteq Items
<1> QED  BY ShownType, ReportType DEF WhisperEvents, Items, WorldType, AttentionEvents

\* What a tick that ends leaves in the memory and the file.
LEMMA ReportedType ==
  ASSUME TypeInv, NEW an, NEW ev, NEW rep, Reported(an, ev, rep)
  PROVE  /\ mem # Unloaded /\ mem \in Seen
         /\ an \in Partial(Sessions, Members) \cup {Null}
         /\ ev \subseteq Items
         /\ \A attempt \in BOOLEAN : Candidate(an, attempt) \in Seen
<1>4. ASSUME NEW attempt \in BOOLEAN PROVE Candidate(an, attempt) \in Seen
  BY ReportType DEF Candidate, Seen, TypeInv, PassType, WorldType, Reported, MemType
<1> QED  BY ReportType, EventsType, <1>4 DEF Reported, TypeInv, MemType, Seen, PassType

LEMMA ItemsOf ==
  ASSUME NEW S \in SUBSET Sessions, NEW W \in SUBSET Workflows, NEW C \in SUBSET Chains
  PROVE  {<<"session", s>> : s \in S} \cup {<<"workflow", w>> : w \in W}
            \cup {<<"chain", c>> : c \in C} \subseteq Items
  BY DEF Items

LEMMA RecordedType ==
  ASSUME WorldType, NEW an, NEW ev, NEW rep, Reported(an, ev, rep)
  PROVE  Recorded(rep) \subseteq Items
<1> DEFINE W == {x \in Workflows : <<x, workflow[x]>> \in pass.snapshot}
           C == {x \in Chains : <<x, "shown">> \in pass.snapshot}
<1>2. W \in SUBSET Workflows /\ C \in SUBSET Chains
  OBVIOUS
<1>3. Recorded(rep) = {<<"session", s>> : s \in DOMAIN rep} \cup {<<"workflow", w>> : w \in W}
                         \cup {<<"chain", c>> : c \in C}
  BY DEF Recorded
<1> HIDE DEF W, C
<1> QED  BY ReportType, <1>2, <1>3, ItemsOf DEF Reported

-----------------------------------------------------------------------------
(* Types.                                                                  *)

LEMMA NothingSeenType == NothingSeen \in Seen
  BY DEF NothingSeen, Seen

LEMMA TroubleType ==
  ASSUME trouble \in 0..MaxTrouble, trouble < MaxTrouble
  PROVE  trouble + 1 \in 0..MaxTrouble
  BY BoundAssumption

LEMMA SenderTypeStep ==
  ASSUME SenderTypeOK, [Next]_vars
  PROVE  SenderTypeOK'
<1> USE AttemptAssumption DEF SenderTypeOK, Posts
<1>1. CASE TickStart
  BY <1>1 DEF TickStart, senderVars, worldVars, gateVars, auxVars
<1>2. CASE StatesBlank
  BY <1>2 DEF StatesBlank, senderVars, worldVars, gateVars, auxVars
<1>3. CASE StatesRead
  BY <1>3 DEF StatesRead, senderVars, worldVars, gateVars, auxVars
<1>4. CASE StatesFail
  BY <1>4 DEF StatesFail, senderVars, worldVars, gateVars, auxVars
<1>5. ASSUME NEW an, NEW ev, NEW rep, Reported(an, ev, rep) PROVE SenderTypeOK'
  BY <1>5 DEF Reported, Saved, SaveFailed, StartSend, Candidate, senderVars, worldVars, gateVars, auxVars
<1>6. CASE SendAnswered
  BY <1>6 DEF SendAnswered, Answer, Delivered, NotRegistered, Transient, senderVars, worldVars, gateVars, auxVars
<1>7. CASE Restart
  BY <1>7 DEF Restart, senderVars, worldVars, gateVars, auxVars
<1>8. ASSUME NEW s \in Sessions, SessionChanges(s) PROVE SenderTypeOK'
  BY <1>8 DEF SessionChanges, Change, senderVars, worldVars, gateVars, auxVars
<1>9. ASSUME NEW w \in Workflows, WorkflowChanges(w) PROVE SenderTypeOK'
  BY <1>9 DEF WorkflowChanges, Change, senderVars, worldVars, gateVars, auxVars
<1>10. ASSUME NEW c \in Chains, ChainChanges(c) PROVE SenderTypeOK'
  BY <1>10 DEF ChainChanges, Change, senderVars, worldVars, gateVars, auxVars
<1>11. CASE Gate
  BY <1>11 DEF Gate, senderVars, worldVars, gateVars, auxVars
<1>12. CASE TokenChanges
  BY <1>12 DEF TokenChanges, Register, Revoke, DeviceGone, senderVars, worldVars, gateVars, auxVars
<1>13. CASE UNCHANGED vars
  BY <1>13 DEF vars, senderVars, worldVars, gateVars, auxVars
<1> QED
  BY ReportCases, <1>1, <1>2, <1>3, <1>4, <1>5, <1>6, <1>7, <1>8, <1>9, <1>10, <1>11, <1>12, <1>13 DEF Next

LEMMA WorldTypeStep ==
  ASSUME WorldType, [Next]_vars
  PROVE  WorldType'
<1> USE WindowAssumption, BoundAssumption DEF WorldType
<1>1. CASE TickStart
  BY <1>1 DEF TickStart, senderVars, worldVars, gateVars, auxVars
<1>2. CASE StatesBlank
  BY <1>2 DEF StatesBlank, senderVars, worldVars, gateVars, auxVars
<1>3. CASE StatesRead
  BY <1>3 DEF StatesRead, senderVars, worldVars, gateVars, auxVars
<1>4. CASE StatesFail
  BY <1>4 DEF StatesFail, senderVars, worldVars, gateVars, auxVars
<1>5. ASSUME NEW an, NEW ev, NEW rep, Reported(an, ev, rep) PROVE WorldType'
  BY <1>5 DEF Reported, Saved, SaveFailed, StartSend, Candidate, senderVars, worldVars, gateVars, auxVars
<1>6. CASE SendAnswered
  BY <1>6 DEF SendAnswered, Answer, Delivered, NotRegistered, Transient, senderVars, worldVars, gateVars, auxVars
<1>7. CASE Restart
  BY <1>7, TroubleType DEF Restart, worldVars
<1>8. ASSUME NEW s \in Sessions, SessionChanges(s) PROVE WorldType'
  BY <1>8 DEF SessionChanges, Change, senderVars, worldVars, gateVars, auxVars
<1>9. ASSUME NEW w \in Workflows, WorkflowChanges(w) PROVE WorldType'
  BY <1>9 DEF WorkflowChanges, Change, senderVars, worldVars, gateVars, auxVars
<1>10. ASSUME NEW c \in Chains, ChainChanges(c) PROVE WorldType'
  BY <1>10 DEF ChainChanges, Change, senderVars, worldVars, gateVars, auxVars
<1>11. CASE Gate
  <2>1. clock' \in 0..MaxTime
    BY <1>11 DEF Gate
  <2> QED
    BY <1>11, <2>1 DEF Gate, worldVars
<1>12. CASE TokenChanges
  BY <1>12 DEF TokenChanges, Register, Revoke, DeviceGone, senderVars, worldVars, gateVars, auxVars
<1>13. CASE UNCHANGED vars
  BY <1>13 DEF vars, senderVars, worldVars, gateVars, auxVars
<1> QED
  BY ReportCases, <1>1, <1>2, <1>3, <1>4, <1>5, <1>6, <1>7, <1>8, <1>9, <1>10, <1>11, <1>12, <1>13 DEF Next

LEMMA PassTypeStep ==
  ASSUME TypeInv, [Next]_vars
  PROVE  PassType'
<1> USE DEF TypeInv, PassType, NoPass
<1>1. CASE TickStart
  BY <1>1 DEF TickStart, senderVars, worldVars, gateVars, auxVars
<1>2. CASE StatesBlank
  BY <1>2 DEF StatesBlank, MemType, Seen
<1>3. CASE StatesRead
  BY <1>3, EventsType, WhisperNextType DEF StatesRead, MemType, Seen
<1>4. CASE StatesFail
  BY <1>4 DEF StatesFail, senderVars, worldVars, gateVars, auxVars
<1>5. ASSUME NEW an, NEW ev, NEW rep, Reported(an, ev, rep) PROVE PassType'
  BY <1>5 DEF Reported, Saved, SaveFailed, StartSend, Candidate, senderVars, worldVars, gateVars, auxVars
<1>6. CASE SendAnswered
  BY <1>6 DEF SendAnswered, Answer, Delivered, NotRegistered, Transient, senderVars, worldVars, gateVars, auxVars
<1>7. CASE Restart
  BY <1>7 DEF Restart, senderVars, worldVars, gateVars, auxVars
<1>8. ASSUME NEW s \in Sessions, SessionChanges(s) PROVE PassType'
  BY <1>8 DEF SessionChanges, Change, senderVars, worldVars, gateVars, auxVars
<1>9. ASSUME NEW w \in Workflows, WorkflowChanges(w) PROVE PassType'
  BY <1>9 DEF WorkflowChanges, Change, senderVars, worldVars, gateVars, auxVars
<1>10. ASSUME NEW c \in Chains, ChainChanges(c) PROVE PassType'
  BY <1>10 DEF ChainChanges, Change, senderVars, worldVars, gateVars, auxVars
<1>11. CASE Gate
  BY <1>11 DEF Gate, senderVars, worldVars, gateVars, auxVars
<1>12. CASE TokenChanges
  BY <1>12 DEF TokenChanges, Register, Revoke, DeviceGone, senderVars, worldVars, gateVars, auxVars
<1>13. CASE UNCHANGED vars
  BY <1>13 DEF vars, senderVars, worldVars, gateVars, auxVars
<1> QED
  BY ReportCases, <1>1, <1>2, <1>3, <1>4, <1>5, <1>6, <1>7, <1>8, <1>9, <1>10, <1>11, <1>12, <1>13 DEF Next

LEMMA AuxTypeStep ==
  ASSUME TypeInv, [Next]_vars
  PROVE  AuxType'
<1> USE DEF TypeInv, AuxType
<1>1. CASE TickStart
  BY <1>1 DEF TickStart, senderVars, worldVars, gateVars, auxVars
<1>2. CASE StatesBlank
  BY <1>2 DEF StatesBlank, senderVars, worldVars, gateVars, auxVars
<1>3. CASE StatesRead
  BY <1>3 DEF StatesRead, senderVars, worldVars, gateVars, auxVars
<1>4. CASE StatesFail
  BY <1>4 DEF StatesFail, senderVars, worldVars, gateVars, auxVars
<1>5. ASSUME NEW an, NEW ev, NEW rep, Reported(an, ev, rep) PROVE AuxType'
  BY <1>5, ReportedType, RecordedType DEF Reported, Saved, SaveFailed, auxVars
<1>6. CASE SendAnswered
  BY <1>6 DEF SendAnswered, Answer, Delivered, NotRegistered, Transient, senderVars, worldVars, gateVars, auxVars
<1>7. CASE Restart
  BY <1>7 DEF Restart, senderVars, worldVars, gateVars, auxVars
<1>8. ASSUME NEW s \in Sessions, SessionChanges(s) PROVE AuxType'
  BY <1>8 DEF SessionChanges, Change, senderVars, worldVars, gateVars, auxVars
<1>9. ASSUME NEW w \in Workflows, WorkflowChanges(w) PROVE AuxType'
  BY <1>9 DEF WorkflowChanges, Change, senderVars, worldVars, gateVars, auxVars
<1>10. ASSUME NEW c \in Chains, ChainChanges(c) PROVE AuxType'
  BY <1>10 DEF ChainChanges, Change, senderVars, worldVars, gateVars, auxVars
<1>11. CASE Gate
  BY <1>11 DEF Gate, senderVars, worldVars, gateVars, auxVars
<1>12. CASE TokenChanges
  BY <1>12 DEF TokenChanges, Register, Revoke, DeviceGone, senderVars, worldVars, gateVars, auxVars
<1>13. CASE UNCHANGED vars
  BY <1>13 DEF vars, senderVars, worldVars, gateVars, auxVars
<1> QED
  BY ReportCases, <1>1, <1>2, <1>3, <1>4, <1>5, <1>6, <1>7, <1>8, <1>9, <1>10, <1>11, <1>12, <1>13 DEF Next

LEMMA MemTypeStep ==
  ASSUME TypeInv, [Next]_vars
  PROVE  MemType'
<1> USE UnloadedAssumption, PostAssumption DEF TypeInv, MemType
<1>1. CASE TickStart
  BY <1>1, NothingSeenType DEF TickStart, Ticking, senderVars
<1>2. CASE StatesBlank
  BY <1>2 DEF StatesBlank, senderVars, worldVars, gateVars, auxVars
<1>3. CASE StatesRead
  BY <1>3 DEF StatesRead, senderVars, worldVars, gateVars, auxVars
<1>4. CASE StatesFail
  BY <1>4 DEF StatesFail, senderVars, worldVars, gateVars, auxVars
<1>5. ASSUME NEW an, NEW ev, NEW rep, Reported(an, ev, rep) PROVE MemType'
  BY <1>5, ReportedType DEF Reported, Saved, SaveFailed, auxVars, WorldType
<1>6. CASE SendAnswered
  BY <1>6 DEF SendAnswered, Answer, Delivered, NotRegistered, Transient, senderVars, worldVars, gateVars, auxVars
<1>7. CASE Restart
  BY <1>7 DEF Restart, senderVars, worldVars, gateVars, auxVars
<1>8. ASSUME NEW s \in Sessions, SessionChanges(s) PROVE MemType'
  BY <1>8 DEF SessionChanges, Change, senderVars, worldVars, gateVars, auxVars
<1>9. ASSUME NEW w \in Workflows, WorkflowChanges(w) PROVE MemType'
  BY <1>9 DEF WorkflowChanges, Change, senderVars, worldVars, gateVars, auxVars
<1>10. ASSUME NEW c \in Chains, ChainChanges(c) PROVE MemType'
  BY <1>10 DEF ChainChanges, Change, senderVars, worldVars, gateVars, auxVars
<1>11. CASE Gate
  BY <1>11 DEF Gate, senderVars, worldVars, gateVars, auxVars
<1>12. CASE TokenChanges
  BY <1>12 DEF TokenChanges, Register, Revoke, DeviceGone, senderVars, worldVars, gateVars, auxVars
<1>13. CASE UNCHANGED vars
  BY <1>13 DEF vars, senderVars, worldVars, gateVars, auxVars
<1> QED
  BY ReportCases, <1>1, <1>2, <1>3, <1>4, <1>5, <1>6, <1>7, <1>8, <1>9, <1>10, <1>11, <1>12, <1>13 DEF Next

-----------------------------------------------------------------------------
(* Pings.                                                                  *)

\* A tick that ends changes nothing; or makes an attempt, which is in the memory and the
\* file before it is sent; or moves on without one.
LEMMA ReportedCases ==
  ASSUME TypeInv, NEW an, NEW ev, NEW rep, Reported(an, ev, rep)
  PROVE  \/ UNCHANGED <<post, mem, disk, spent, carried, pinged>>
         \/ /\ mem' = Candidate(an, TRUE) /\ mem'.lastPingAt = clock /\ disk' = mem' /\ pinged' = clock
            /\ carried' = ev /\ ev # {} /\ ~Coalesced /\ post' # NoPost
            /\ spent' = spent \cup Recorded(rep)
         \/ /\ mem' = Candidate(an, FALSE) /\ mem'.lastPingAt = mem.lastPingAt
            /\ UNCHANGED <<post, carried, pinged>>
            /\ \/ disk' = mem' /\ spent' = spent \cup Recorded(rep)
               \/ disk' = disk /\ mem' = mem /\ spent' = spent
<1> DEFINE attempt == ev # {} /\ ~live /\ ~Coalesced /\ token # NoToken
<1>1. CASE SaveFailed(an, ev)
  BY <1>1 DEF SaveFailed, senderVars, auxVars
<1>2. CASE Saved(an, ev, rep) /\ attempt
  BY <1>2, AttemptAssumption, PostAssumption DEF Candidate, Saved, StartSend, Posts, TypeInv, SenderTypeOK
<1>3. CASE Saved(an, ev, rep) /\ ~attempt  BY <1>3 DEF Candidate, Saved
<1> QED
  BY <1>1, <1>2, <1>3 DEF Reported

LEMMA PingStep ==
  ASSUME TypeInv, PingInv, [Next]_vars
  PROVE  PingInv'
<1> USE NullAssumption, UnloadedAssumption DEF TypeInv, MemType, PingInv
<1>1. CASE TickStart
  BY <1>1 DEF TickStart, senderVars, worldVars, gateVars, auxVars
<1>2. CASE StatesBlank
  BY <1>2 DEF StatesBlank, senderVars, worldVars, gateVars, auxVars
<1>3. CASE StatesRead
  BY <1>3 DEF StatesRead, senderVars, worldVars, gateVars, auxVars
<1>4. CASE StatesFail
  BY <1>4 DEF StatesFail, senderVars, worldVars, gateVars, auxVars
<1>5. ASSUME NEW an, NEW ev, NEW rep, Reported(an, ev, rep) PROVE PingInv'
  <2>2. CASE UNCHANGED <<mem, disk, pinged>>
    BY <2>2
  <2>3. CASE mem'.lastPingAt = clock /\ disk' = mem' /\ pinged' = clock
    BY <2>3
  <2>4. CASE mem'.lastPingAt = mem.lastPingAt /\ disk' \in {disk, mem'} /\ pinged' = pinged
    BY <1>5, <2>4 DEF Reported
  <2> QED
    BY <1>5, <2>2, <2>3, <2>4, ReportedCases
<1>6. CASE SendAnswered
  BY <1>6 DEF SendAnswered, Answer, Delivered, NotRegistered, Transient, senderVars, worldVars, gateVars, auxVars
<1>7. CASE Restart
  BY <1>7 DEF Restart, senderVars, worldVars, gateVars, auxVars
<1>8. ASSUME NEW s \in Sessions, SessionChanges(s) PROVE PingInv'
  BY <1>8 DEF SessionChanges, Change, senderVars, worldVars, gateVars, auxVars
<1>9. ASSUME NEW w \in Workflows, WorkflowChanges(w) PROVE PingInv'
  BY <1>9 DEF WorkflowChanges, Change, senderVars, worldVars, gateVars, auxVars
<1>10. ASSUME NEW c \in Chains, ChainChanges(c) PROVE PingInv'
  BY <1>10 DEF ChainChanges, Change, senderVars, worldVars, gateVars, auxVars
<1>11. CASE Gate
  BY <1>11 DEF Gate, senderVars, worldVars, gateVars, auxVars
<1>12. CASE TokenChanges
  BY <1>12 DEF TokenChanges, Register, Revoke, DeviceGone, senderVars, worldVars, gateVars, auxVars
<1>13. CASE UNCHANGED vars
  BY <1>13 DEF vars, senderVars, worldVars, gateVars, auxVars
<1> QED
  BY ReportCases, <1>1, <1>2, <1>3, <1>4, <1>5, <1>6, <1>7, <1>8, <1>9, <1>10, <1>11, <1>12, <1>13 DEF Next

LEMMA PersistedStep ==
  ASSUME TypeInv, PingInv, PersistedBeforeSend, [Next]_vars
  PROVE  PersistedBeforeSend'
<1> USE DEF TypeInv, MemType, AuxType, PersistedBeforeSend
<1>1. CASE TickStart
  BY <1>1 DEF TickStart, senderVars, worldVars, gateVars, auxVars
<1>2. CASE StatesBlank
  BY <1>2 DEF StatesBlank, senderVars, worldVars, gateVars, auxVars
<1>3. CASE StatesRead
  BY <1>3 DEF StatesRead, senderVars, worldVars, gateVars, auxVars
<1>4. CASE StatesFail
  BY <1>4 DEF StatesFail, senderVars, worldVars, gateVars, auxVars
<1>5. ASSUME NEW an, NEW ev, NEW rep, Reported(an, ev, rep) PROVE PersistedBeforeSend'
  BY <1>5, AuxTypeStep, ReportedCases DEF Reported, AuxType
<1>6. CASE SendAnswered
  BY <1>6 DEF SendAnswered, Answer, Delivered, NotRegistered, Transient, senderVars, worldVars, gateVars, auxVars
<1>7. CASE Restart
  BY <1>7 DEF Restart, senderVars, worldVars, gateVars, auxVars
<1>8. ASSUME NEW s \in Sessions, SessionChanges(s) PROVE PersistedBeforeSend'
  BY <1>8 DEF SessionChanges, Change, senderVars, worldVars, gateVars, auxVars
<1>9. ASSUME NEW w \in Workflows, WorkflowChanges(w) PROVE PersistedBeforeSend'
  BY <1>9 DEF WorkflowChanges, Change, senderVars, worldVars, gateVars, auxVars
<1>10. ASSUME NEW c \in Chains, ChainChanges(c) PROVE PersistedBeforeSend'
  BY <1>10 DEF ChainChanges, Change, senderVars, worldVars, gateVars, auxVars
<1>11. CASE Gate
  BY <1>11 DEF Gate, senderVars, worldVars, gateVars, auxVars
<1>12. CASE TokenChanges
  BY <1>12 DEF TokenChanges, Register, Revoke, DeviceGone, senderVars, worldVars, gateVars, auxVars
<1>13. CASE UNCHANGED vars
  BY <1>13 DEF vars, senderVars, worldVars, gateVars, auxVars
<1> QED
  BY ReportCases, <1>1, <1>2, <1>3, <1>4, <1>5, <1>6, <1>7, <1>8, <1>9, <1>10, <1>11, <1>12, <1>13 DEF Next

-----------------------------------------------------------------------------
(* What is spent stays shown.                                              *)

\* No event a detector finds is spent, for a state that shows what is spent.
LEMMA NothingSpentIsNew ==
  ASSUME TypeInv, NEW seen \in WhisperSeen \cup {Null}, ShowsWhisper(seen)
  PROVE  WhisperEvents(seen, Shown, chains) \cap spent = {}
<1>1. ASSUME NEW w \in Workflows, w \in DOMAIN Shown, Shown[w] \in Qualifying,
             Before(seen, w) \notin Qualifying \cup Excluded \cup {"absent"}, seen # Null
      PROVE  <<"workflow", w>> \notin spent
  BY <1>1, ShownType DEF TypeInv, ShowsWhisper, Before
<1>2. ASSUME NEW c \in chains, seen # Null, c \notin seen.chains
      PROVE  <<"chain", c>> \notin spent
  BY <1>2 DEF TypeInv, WorldType, ShowsWhisper
<1>4. ASSUME NEW e \in WhisperEvents(seen, Shown, chains) PROVE e \notin spent
  <2>2. CASE e \in {<<"workflow", w>> : w \in {x \in DOMAIN Shown :
                       /\ Shown[x] \in Qualifying
                       /\ x \notin seen.done
                       /\ Before(seen, x) \notin Qualifying \cup Excluded \cup {"absent"}}}
    BY <1>4, <2>2, <1>1, ShownType DEF TypeInv, WhisperEvents
  <2>3. CASE e \in {<<"chain", c>> : c \in chains \ seen.chains}  BY <1>4, <2>3, <1>2 DEF WhisperEvents
  <2> QED  BY <1>4, <2>2, <2>3 DEF WhisperEvents
<1> QED
  BY <1>4

LEMMA NoSpentSessionIsNew ==
  ASSUME TypeInv, NEW seen, ShowsSessions(seen)
  PROVE  AttentionEvents(seen, Report) \cap spent = {}
<1>1. ASSUME NEW s \in DOMAIN Report, seen # Null, s \notin DOMAIN seen \/ seen[s] # Report[s]
      PROVE  <<"session", s>> \notin spent
  BY <1>1, ReportType DEF TypeInv, ShowsSessions
<1> QED
  BY <1>1 DEF AttentionEvents

\* What the end of a tick records is what its new state shows.
LEMMA ReportedShows ==
  ASSUME TypeInv, SpentInv, NEW an, NEW ev, NEW rep, Reported(an, ev, rep)
  PROVE  /\ \A w \in Workflows : <<"workflow", w>> \in spent \cup Recorded(rep) =>
               /\ workflow[w] # "absent"
               /\ pass.next # Null => w \in DOMAIN pass.next.status /\ pass.next.status[w] = workflow[w]
         /\ \A c \in Chains : <<"chain", c>> \in spent \cup Recorded(rep) =>
               pass.next # Null /\ c \in pass.next.chains
         /\ \A s \in Sessions : <<"session", s>> \in spent \cup Recorded(rep) =>
               /\ attention[s] \in Members
               /\ an # Null => s \in DOMAIN an /\ an[s] = attention[s]
         /\ ev \cap spent = {}
<1>1. ASSUME NEW w \in Workflows, <<"workflow", w>> \in spent \cup Recorded(rep)
      PROVE  /\ workflow[w] # "absent"
             /\ pass.next # Null => w \in DOMAIN pass.next.status /\ pass.next.status[w] = workflow[w]
  <2>1. CASE <<"workflow", w>> \in spent
    BY <2>1 DEF SpentInv, SpentWorld, PassInv, ShowsWhisper, Reported
  <2>2. CASE <<"workflow", w>> \in Recorded(rep)
    BY <2>2 DEF SpentInv, PassInv, Reported, Recorded, TypeInv, WorldType
  <2> QED
    BY <1>1, <2>1, <2>2
<1>2. ASSUME NEW c \in Chains, <<"chain", c>> \in spent \cup Recorded(rep)
      PROVE  pass.next # Null /\ c \in pass.next.chains
  <2>1. CASE <<"chain", c>> \in spent
    BY <2>1 DEF SpentInv, PassInv, ShowsWhisper, Reported
  <2>2. CASE <<"chain", c>> \in Recorded(rep)  BY <2>2 DEF SpentInv, PassInv, Reported, Recorded
  <2> QED
    BY <1>2, <2>1, <2>2
<1>3. ASSUME NEW s \in Sessions, <<"session", s>> \in spent \cup Recorded(rep)
      PROVE  /\ attention[s] \in Members
             /\ an # Null => s \in DOMAIN an /\ an[s] = attention[s]
  <2>2. CASE <<"session", s>> \in spent
    BY <2>2, ReportType DEF SpentInv, SpentWorld, ShowsSessions, Reported, TypeInv, MemType, SpentMem, Shows
  <2>3. CASE <<"session", s>> \in Recorded(rep)  BY <2>3, ReportType DEF TypeInv, Recorded, Reported
  <2> QED
    BY <1>3, <2>2, <2>3
<1> QED
  BY <1>1, <1>2, <1>3, NoSpentSessionIsNew DEF Reported, TypeInv, MemType, SpentInv, SpentMem, PassInv, Shows

LEMMA SpentWorldStep ==
  ASSUME TypeInv, SpentInv, [Next]_vars
  PROVE  SpentWorld'
<1> USE DEF SpentInv, SpentWorld
<1>1. CASE TickStart
  BY <1>1 DEF TickStart, senderVars, worldVars, gateVars, auxVars
<1>2. CASE StatesBlank
  BY <1>2 DEF StatesBlank, senderVars, worldVars, gateVars, auxVars
<1>3. CASE StatesRead
  BY <1>3 DEF StatesRead, senderVars, worldVars, gateVars, auxVars
<1>4. CASE StatesFail
  BY <1>4 DEF StatesFail, senderVars, worldVars, gateVars, auxVars
<1>5. ASSUME NEW an, NEW ev, NEW rep, Reported(an, ev, rep) PROVE SpentWorld'
  <2>2. UNCHANGED <<workflow, attention>>
    BY <1>5 DEF Reported, worldVars
  <2> QED  BY <1>5, ReportedCases, <2>2, ReportedShows DEF SpentInv
<1>6. CASE SendAnswered
  BY <1>6 DEF SendAnswered, Answer, Delivered, NotRegistered, Transient, senderVars, worldVars, gateVars, auxVars
<1>7. CASE Restart
  BY <1>7 DEF Restart, senderVars, worldVars, gateVars, auxVars
<1>8. ASSUME NEW s \in Sessions, SessionChanges(s) PROVE SpentWorld'
  BY <1>8 DEF SessionChanges, Change, TypeInv, WorldType
<1>9. ASSUME NEW w \in Workflows, WorkflowChanges(w) PROVE SpentWorld'
  BY <1>9 DEF WorkflowChanges, Change, TypeInv, WorldType
<1>10. ASSUME NEW c \in Chains, ChainChanges(c) PROVE SpentWorld'
  BY <1>10 DEF ChainChanges, Change, senderVars, worldVars, gateVars, auxVars
<1>11. CASE Gate
  BY <1>11 DEF Gate, senderVars, worldVars, gateVars, auxVars
<1>12. CASE TokenChanges
  BY <1>12 DEF TokenChanges, Register, Revoke, DeviceGone, senderVars, worldVars, gateVars, auxVars
<1>13. CASE UNCHANGED vars
  BY <1>13 DEF vars, senderVars, worldVars, gateVars, auxVars
<1> QED
  BY ReportCases, <1>1, <1>2, <1>3, <1>4, <1>5, <1>6, <1>7, <1>8, <1>9, <1>10, <1>11, <1>12, <1>13 DEF Next

LEMMA SpentMemStep ==
  ASSUME TypeInv, SpentInv, [Next]_vars
  PROVE  SpentMem'
<1> USE DEF SpentInv, SpentMem, Shows, ShowsWhisper, ShowsSessions
<1>1. CASE TickStart
  <2>2. CASE mem' = NothingSeen /\ spent' = spent \ ({"chain"} \X Chains)
    BY <1>1, <2>2 DEF NothingSeen, TickStart, worldVars, gateVars
  <2>3. CASE mem' \in {mem, disk}  BY <1>1, <2>3 DEF TickStart, worldVars, gateVars
  <2> QED
    BY <1>1, <2>2, <2>3 DEF TickStart
<1>2. CASE StatesBlank
  BY <1>2 DEF StatesBlank, senderVars, worldVars, gateVars, auxVars
<1>3. CASE StatesRead
  BY <1>3 DEF StatesRead, senderVars, worldVars, gateVars, auxVars
<1>4. CASE StatesFail
  BY <1>4 DEF StatesFail, senderVars, worldVars, gateVars, auxVars
<1>5. ASSUME NEW an, NEW ev, NEW rep, Reported(an, ev, rep) PROVE SpentMem'
  <2>1. CASE UNCHANGED <<mem, disk, spent>>
    BY <1>5, <2>1 DEF Reported, worldVars
  <2>2. CASE mem' = Candidate(an, TRUE) \/ mem' = Candidate(an, FALSE)
    <3>3. UNCHANGED <<workflow, attention>>
      BY <1>5 DEF Reported, worldVars
    <3>4. /\ \A w \in Workflows : <<"workflow", w>> \in spent' /\ mem'.whisper # Null =>
                w \in DOMAIN mem'.whisper.status /\ mem'.whisper.status[w] = workflow'[w]
          /\ \A c \in Chains : <<"chain", c>> \in spent' => mem'.whisper # Null /\ c \in mem'.whisper.chains
          /\ \A s \in Sessions : <<"session", s>> \in spent' /\ mem'.attention # Null =>
                s \in DOMAIN mem'.attention /\ mem'.attention[s] = attention'[s]
      BY <1>5, <2>2, ReportedCases, <3>3, ReportedShows DEF Candidate
    <3>5. Shows(mem)'
      BY <3>4 DEF Shows, ShowsWhisper, ShowsSessions
    <3>6. CASE disk' = mem'
      BY <3>5, <3>6 DEF Shows, ShowsWhisper, ShowsSessions
    <3>7. CASE disk' = disk /\ mem' = mem /\ spent' = spent
      BY <3>3, <3>7
    <3> QED
      BY <1>5, <3>5, <3>6, <3>7, ReportedCases
  <2> QED
    BY <1>5, <2>1, <2>2, ReportedCases
<1>6. CASE SendAnswered
  BY <1>6 DEF SendAnswered, Answer, Delivered, NotRegistered, Transient, senderVars, worldVars, gateVars, auxVars
<1>7. CASE Restart
  BY <1>7 DEF Restart, senderVars, worldVars, gateVars, auxVars
<1>8. ASSUME NEW s \in Sessions, SessionChanges(s) PROVE SpentMem'
  BY <1>8 DEF SessionChanges, Change, TypeInv, WorldType
<1>9. ASSUME NEW w \in Workflows, WorkflowChanges(w) PROVE SpentMem'
  BY <1>9 DEF WorkflowChanges, Change, TypeInv, WorldType
<1>10. ASSUME NEW c \in Chains, ChainChanges(c) PROVE SpentMem'
  BY <1>10 DEF ChainChanges, Change, senderVars, worldVars, gateVars, auxVars
<1>11. CASE Gate
  BY <1>11 DEF Gate, senderVars, worldVars, gateVars, auxVars
<1>12. CASE TokenChanges
  BY <1>12 DEF TokenChanges, Register, Revoke, DeviceGone, senderVars, worldVars, gateVars, auxVars
<1>13. CASE UNCHANGED vars
  BY <1>13 DEF vars, senderVars, worldVars, gateVars, auxVars
<1> QED
  BY ReportCases, <1>1, <1>2, <1>3, <1>4, <1>5, <1>6, <1>7, <1>8, <1>9, <1>10, <1>11, <1>12, <1>13 DEF Next

LEMMA PassStep ==
  ASSUME TypeInv, SpentInv, [Next]_vars
  PROVE  PassInv'
<1> USE DEF SpentInv, PassInv, ShowsWhisper
<1>1. CASE TickStart
  BY <1>1 DEF TickStart, senderVars, worldVars, gateVars, auxVars
<1>2. CASE StatesBlank  BY <1>2 DEF StatesBlank, worldVars, auxVars, TypeInv, MemType, SpentMem, Shows
<1>3. CASE StatesRead
  <2> DEFINE next == WhisperNext(mem.whisper, Shown, chains)
             snapshot == {<<w, Shown[w]>> : w \in DOMAIN Shown} \cup {<<c, "shown">> : c \in chains}
  <2>2. next # Null
    BY <1>3, WhisperNextType, NullAssumption DEF TypeInv, StatesRead, MemType, SpentMem, Shows, Seen
  <2>3. next.status = Shown /\ chains \subseteq next.chains
        /\ (mem.whisper # Null => mem.whisper.chains \subseteq next.chains)
    BY DEF WhisperNext
  <2>4. /\ \A w \in Workflows : <<"workflow", w>> \in spent => w \in DOMAIN Shown /\ Shown[w] = workflow[w]
        /\ \A c \in Chains : <<"chain", c>> \in spent => c \in next.chains
    BY <1>3, <2>3, ShownType DEF SpentWorld, TypeInv, StatesRead, MemType, SpentMem, Shows, Seen
  <2>5. /\ \A w \in Workflows, v \in Statuses : <<w, v>> \in snapshot => w \in DOMAIN Shown /\ Shown[w] = v
        /\ \A c \in Chains : <<c, "shown">> \in snapshot => c \in next.chains
        /\ \A w \in Workflows : <<w, "absent">> \notin snapshot
    <3>2. ASSUME NEW w, NEW v, <<w, v>> \in snapshot
          PROVE  \/ w \in DOMAIN Shown /\ v = Shown[w]
                 \/ w \in chains /\ v = "shown"
      BY <3>2
    <3>3. "shown" \notin Statuses /\ "absent" \notin Statuses /\ "absent" # "shown"
      BY DEF Statuses, Qualifying, Excluded
    <3> HIDE DEF snapshot, next
    <3> QED  BY <2>3, ShownType, PartialDomain, <3>2, <3>3 DEF TypeInv
  <2>6. WhisperEvents(mem.whisper, Shown, chains) \cap spent = {}
    BY <1>3, NothingSpentIsNew DEF StatesRead, TypeInv, MemType, SpentMem, Shows, Seen
  <2>7. pass'.next = next /\ pass'.snapshot = snapshot
        /\ pass'.events = WhisperEvents(mem.whisper, Shown, chains)
        /\ UNCHANGED <<spent, workflow>>
    BY <1>3 DEF StatesRead, worldVars, auxVars
  <2> HIDE DEF next, snapshot
  <2> QED
    BY <2>2, <2>3, <2>4, <2>5, <2>6, <2>7
<1>4. CASE StatesFail
  BY <1>4 DEF StatesFail, senderVars, worldVars, gateVars, auxVars
<1>5. ASSUME NEW an, NEW ev, NEW rep, Reported(an, ev, rep) PROVE PassInv'
  BY <1>5 DEF Reported, Saved, SaveFailed, StartSend, Candidate, senderVars, worldVars, gateVars, auxVars
<1>6. CASE SendAnswered
  BY <1>6 DEF SendAnswered, Answer, Delivered, NotRegistered, Transient, senderVars, worldVars, gateVars, auxVars
<1>7. CASE Restart
  BY <1>7 DEF Restart, senderVars, worldVars, gateVars, auxVars
<1>8. ASSUME NEW s \in Sessions, SessionChanges(s) PROVE PassInv'
  BY <1>8 DEF SessionChanges, Change, TypeInv, WorldType
<1>9. ASSUME NEW w \in Workflows, WorkflowChanges(w) PROVE PassInv'
  BY <1>9 DEF WorkflowChanges, Change, TypeInv, WorldType
<1>10. ASSUME NEW c \in Chains, ChainChanges(c) PROVE PassInv'
  BY <1>10 DEF ChainChanges, Change, senderVars, worldVars, gateVars, auxVars
<1>11. CASE Gate
  BY <1>11 DEF Gate, senderVars, worldVars, gateVars, auxVars
<1>12. CASE TokenChanges
  BY <1>12 DEF TokenChanges, Register, Revoke, DeviceGone, senderVars, worldVars, gateVars, auxVars
<1>13. CASE UNCHANGED vars
  BY <1>13 DEF vars, senderVars, worldVars, gateVars, auxVars
<1> QED
  BY ReportCases, <1>1, <1>2, <1>3, <1>4, <1>5, <1>6, <1>7, <1>8, <1>9, <1>10, <1>11, <1>12, <1>13 DEF Next

-----------------------------------------------------------------------------
(* Every ping is accounted for.                                            *)

IInv == TypeInv /\ PingInv /\ PersistedBeforeSend /\ SpentInv

LEMMA AttemptIsReported ==
  ASSUME [Next]_vars, Attempt
  PROVE  \E an, ev, rep : Reported(an, ev, rep)
<1> USE DEF Attempt
<1>1. CASE TickStart \/ StatesBlank \/ StatesRead \/ StatesFail
  BY <1>1 DEF TickStart, StatesBlank, StatesRead, StatesFail, senderVars
<1>2. CASE SendAnswered
  BY <1>2 DEF SendAnswered, Answer, Delivered, NotRegistered, Transient
<1>3. CASE Restart
  BY <1>3 DEF Restart
<1>4. ASSUME NEW s \in Sessions, SessionChanges(s) PROVE FALSE
  BY <1>4 DEF SessionChanges, Change, senderVars
<1>5. ASSUME NEW w \in Workflows, WorkflowChanges(w) PROVE FALSE
  BY <1>5 DEF WorkflowChanges, Change, senderVars
<1>6. ASSUME NEW c \in Chains, ChainChanges(c) PROVE FALSE
  BY <1>6 DEF ChainChanges, Change, senderVars
<1>7. CASE Gate
  BY <1>7 DEF Gate, senderVars
<1>8. CASE TokenChanges
  BY <1>8 DEF TokenChanges, Register, Revoke, DeviceGone
<1>9. CASE UNCHANGED vars
  BY <1>9 DEF vars, senderVars
<1> QED
  BY ReportCases, <1>1, <1>2, <1>3, <1>4, <1>5, <1>6, <1>7, <1>8, <1>9 DEF Next

LEMMA InitInv ==
  ASSUME Init
  PROVE  IInv
<1> USE DEF Init, SenderInit
<1>1. SenderTypeOK
  BY DEF SenderTypeOK
<1>2. WorldType
  <2>3. clock \in 0..MaxTime /\ changes \in 0..MaxChanges /\ trouble \in 0..MaxTrouble
    BY WindowAssumption, BoundAssumption
  <2> QED  BY <2>3 DEF WorldType, Attentions, Members
<1>3. PassType /\ AuxType
  BY DEF PassType, NoPass, AuxType
<1>4. MemType
  BY NothingSeenType DEF MemType
<1>5. PingInv /\ PersistedBeforeSend
  BY DEF PingInv, PersistedBeforeSend
<1>6. SpentInv
  BY DEF SpentInv, SpentWorld, SpentMem, Shows, ShowsWhisper, ShowsSessions, PassInv
<1> QED
  BY <1>1, <1>2, <1>3, <1>4, <1>5, <1>6 DEF IInv, TypeInv

LEMMA Invariance == Spec => []IInv
<1>1. IInv /\ [Next]_vars => IInv'
  <2> SUFFICES ASSUME IInv, [Next]_vars PROVE IInv'
    OBVIOUS
  <2>2. PingInv' /\ PersistedBeforeSend'
    BY PingStep, PersistedStep DEF IInv
  <2>3. SpentInv'
    BY SpentWorldStep, SpentMemStep, PassStep DEF IInv, SpentInv
  <2> QED
    BY SenderTypeStep, WorldTypeStep, PassTypeStep, MemTypeStep, AuxTypeStep, <2>2, <2>3 DEF IInv, TypeInv
<1> QED
  BY <1>1, InitInv, PTL DEF Spec

(* The state of the watcher, its file, the send and the token keeps its type; a tick is
   in flight only over a loaded state.                                      *)
THEOREM TypeCorrect == Spec => []TypeOK
<1>1. IInv => TypeOK
  BY DEF IInv, TypeInv, WorldType, PassType, MemType, AuxType, TypeOK
<1> QED
  BY <1>1, Invariance, PTL

(* While push-wake-sender.ts has a send in flight, the watcher's memory and its file
   agree, and they hold the time of that attempt: a host that crashes in the send finds
   it when it starts again.                                                 *)
THEOREM PersistenceCorrect == Spec => []PersistedBeforeSend
<1>1. IInv => PersistedBeforeSend
  BY DEF IInv
<1> QED
  BY <1>1, Invariance, PTL

(* No ping is sent for what is as it was when it was last recorded on disk, whichever
   restarts, failed saves and blank or rejected reads came between.         *)
THEOREM TransitionCorrect == Spec => OncePerTransition
<1>1. IInv /\ [Next]_vars => [Attempt => carried' \cap spent = {}]_vars
  <2> SUFFICES ASSUME IInv, [Next]_vars, Attempt PROVE carried' \cap spent = {}
    OBVIOUS
  <2>1. PICK an, ev, rep : Reported(an, ev, rep)
    BY AttemptIsReported
  <2> QED  BY <2>1, ReportedCases, ReportedShows DEF IInv, Attempt
<1> QED
  BY <1>1, Invariance, PTL DEF Spec, OncePerTransition

(* Two attempts are a coalescing window apart, also across a restart, as long as the
   state file was readable.                                                 *)
THEOREM WindowCorrect == Spec => WindowBetweenAttempts
<1>1. IInv /\ [Next]_vars => [Attempt => pinged = Null \/ clock >= pinged + Window]_vars
  <2> SUFFICES ASSUME IInv, [Next]_vars, Attempt, pinged # Null PROVE clock >= pinged + Window
    OBVIOUS
  <2>1. PICK an, ev, rep : Reported(an, ev, rep)
    BY AttemptIsReported
  <2>2. ~Coalesced /\ mem # Unloaded
    BY <2>1, ReportedCases, ReportedType DEF IInv, Attempt
  <2> QED  BY <2>2, WindowAssumption, NullAssumption DEF Coalesced, IInv, TypeInv, WorldType, PingInv, MemType
<1> QED
  BY <1>1, Invariance, PTL DEF Spec, WindowBetweenAttempts

(* Every ping is accounted for: on disk before it leaves, for something new, and a window
   after the one before.                                                    *)
THEOREM PingsCorrect == Spec => PingsAreAccounted
  BY PersistenceCorrect, TransitionCorrect, WindowCorrect DEF PingsAreAccounted

=============================================================================
