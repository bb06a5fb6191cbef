------------------------------ MODULE RemoteControl ------------------------------
(***************************************************************************)
(* The driver's link to Samantha and the commands from outside, side by    *)
(* side: `part` names the one that moves.  While commands are looked at,   *)
(* the driver is registered and at rest, and the sockets come and go.      *)
(***************************************************************************)
EXTENDS RemoteCommands

VARIABLE part

vars == <<controlVars, part>>

TypeOK == part \in {"link", "commands"} /\ LinkTypeOK /\ RemoteTypeOK

Connected ==
    \E w \in Worlds, c \in Conns :
      /\ world = w
      /\ drv = [Quiet EXCEPT !.stopped = FALSE, !.registered = TRUE, !.health = "connected",
                             !.body = w, !.signal = Signal(w)]
      /\ cl = [socket |-> c, opened |-> TRUE, closedByUs |-> FALSE, timer |-> FALSE]
      /\ wire = [d \in Conns |-> IF d = c THEN "open" ELSE "unused"]
      /\ samantha = [up |-> TRUE, known |-> TRUE, snapshot |-> w, heard |-> Nothing, early |-> FALSE]
      /\ trouble = 0

Init ==
    /\ part \in {"link", "commands"}
    /\ IF part = "link" THEN LinkInit ELSE Connected
    /\ RemoteInit
    /\ part = "link" => ~acting /\ agent = "absent"

Sockets == SocketRetry \/ SamanthaDies \/ \E c \in Conns : SocketOpens(c) \/ SocketCloses(c)

Next ==
    /\ \/ part = "link" /\ LinkNext /\ UNCHANGED <<cmdVars, phoneVars, remoteVars>>
       \/ part = "commands" /\ Sockets /\ UNCHANGED <<cmdVars, phoneVars, remoteVars>>
       \/ part = "commands" /\ CommandNext
    /\ UNCHANGED part

Spec == Init /\ [][Next]_vars

\* Timers fire, and requests are answered, refused at the latest; reading the worktrees and
\* the workflow states does not throw for ever.
Fairness ==
    /\ WF_vars(part = "link" /\ DebounceTimer /\ UNCHANGED <<cmdVars, phoneVars, remoteVars, part>>)
    /\ WF_vars(part = "link" /\ RetryTimer /\ UNCHANGED <<cmdVars, phoneVars, remoteVars, part>>)
    /\ WF_vars(part = "link" /\ Answer /\ UNCHANGED <<cmdVars, phoneVars, remoteVars, part>>)
    /\ WF_vars(part = "link" /\ KeepAlive /\ UNCHANGED <<cmdVars, phoneVars, remoteVars, part>>)
    /\ \A c \in Conns :
         WF_vars(part = "link" /\ SocketCloses(c) /\ UNCHANGED <<cmdVars, phoneVars, remoteVars, part>>)

FairSpec == Spec /\ Fairness

-----------------------------------------------------------------------------
(* Properties.                                                             *)

\* An event reaches Samantha only after a snapshot of this registration: she speaks about
\* worktrees she was shown (runRebuild patches before it posts, after a re-registration too).
EventsFollowSnapshot == ~samantha.early

\* The command plane exists only while the driver is registered: no socket and no reconnect
\* timer of an unregistered one, whatever closes late (setRegistered, closeClient).
PlaneFollowsRegistration == cl.socket # Nothing \/ cl.timer => drv.registered

\* One requestId acts at most once while its result is kept; what acts is on the audit trail
\* before it acts and its outcome after, for the phone and for Samantha; and a frame waits
\* only for a command in flight.
CommandsAreAccounted ==
    /\ \A k \in Commands : runs[k] <= 1 /\ (trail[k] = <<"start">> <=> cmd[k] = "execute")
    /\ \A r \in Requests : trail[r] = <<"start">> <=> req[r].at = "execute"
    /\ \A j \in Jobs : trail[j] \in {<<>>, <<"reject">>, <<"start">>, <<"start", "result">>}
    /\ \A w \in waiting : cmd[w[1]] \in InFlight

\* The connection the bridge took as authenticated is the one that is attached: a pairing
\* that was replaced or forgotten leaves no stamp behind (lastAuthedConnection).
StampIsAttached == stamped # Nothing => session.live /\ stamped = session.generation

\* The link to Samantha and the one to the phone are what their drivers take them for.
LinkIsHonest == EventsFollowSnapshot /\ PlaneFollowsRegistration /\ StampIsAttached

\* What acts from afar is accounted for, over links that are what they are taken for.
RemoteIsAccounted == CommandsAreAccounted /\ LinkIsHonest

\* Once Samantha stays up, the driver started and the worktrees as they are, her snapshot
\* becomes theirs, and she is told what is worth saying.
CatchesUp ==
    \A w \in Worlds :
        <>[](part = "link" /\ samantha.up /\ ~drv.stopped /\ world = w)
            => <>[](samantha.snapshot = w /\ (w \in Speech => samantha.heard = w))

=============================================================================
