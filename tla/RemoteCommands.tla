----------------------------- MODULE RemoteCommands -----------------------------
(***************************************************************************)
(* The two ways into a worktree's agent from outside, which share one      *)
(* switch and one audit: Samantha's commands (samantha-command-client.ts,  *)
(* idempotent-dispatcher.ts, act-guard.ts, session-instruction-router.ts)  *)
(* and the phone's capabilities (xbp-peer-session.ts over the vendored     *)
(* Peer, xbp-acting-executor.ts, xbp-pty-input-executor.ts).               *)
(*                                                                         *)
(* One worktree; `agent` is what its session slice and its workflow show.  *)
(* A job is cut where it awaits: the worktrees, the workflow states, the   *)
(* whisper command.  The sockets are SamanthaLink's.                       *)
(***************************************************************************)
EXTENDS SamanthaLink, Sequences

CONSTANTS Commands,   \* requestIds of Samantha's commands
          KindOf,     \* KindOf[k]: the capability of command k
          MaxCached,  \* max of the idempotent dispatcher
          Requests,   \* the phone's requests
          Grants,     \* the grant sets a pairing may have
          MaxEvents   \* bound: changes of the agent, the switches and the pairing

ASSUME CachedAssumption == MaxCached \in Nat \ {0} /\ MaxEvents \in Nat
ASSUME JobsAssumption == Commands \cap Requests = {}
ASSUME GrantsAssumption == Grants \subseteq SUBSET {"read", "act", "notify", "inspect", "write"}

VARIABLES acting,   \* behavior.actingEnabled
          input,    \* may the phone write to terminals
          agent,    \* the worktree's agent
          cmd,      \* cmd[k]: where command k is; the dispatcher's cache
          waiting,  \* <<k, c>>: the frame of command k on socket c awaits its result
          runs,     \* runs[k]: times command k acted since its entry was made
          trail,    \* trail[j]: what acting-audit.jsonl says of job j
          session,  \* the peer session: is a phone attached, its grants, its generation
          killed,   \* the kill switch
          stamped,  \* lastAuthedConnection: the generation it was set in, or Nothing
          req,      \* req[r]: where request r is, and its capability
          changed,  \* the coalescer's timer
          events

cmdVars == <<cmd, waiting, runs>>
phoneVars == <<session, killed, stamped, req, changed>>
remoteVars == <<acting, input, agent, trail, events>>
controlVars == <<linkVars, cmdVars, phoneVars, remoteVars>>

Permissions == {"read", "act", "notify", "inspect", "write"}
Kinds == {"report", "focus", "instruct"}
Caps == [report |-> "read", pause |-> "act", resume |-> "act", stop |-> "act",
         token |-> "notify", pty |-> "inspect", list |-> "inspect", keys |-> "write"]
Jobs == Commands \cup Requests

Managed == {"running", "paused", "escalated", "ended"}
Agents == Managed \cup {"absent", "idle", "busy"}
Live == Managed \ {"ended"}

CommandStates == {"none", "resolve", "route", "execute", "lookup", "done", "stale"}
InFlight == {"resolve", "route", "execute", "lookup"}
Generations == 0..MaxEvents

RemoteTypeOK ==
    /\ acting \in BOOLEAN /\ input \in BOOLEAN /\ killed \in BOOLEAN /\ changed \in BOOLEAN
    /\ agent \in Agents
    /\ cmd \in [Commands -> CommandStates]
    /\ waiting \subseteq Commands \X Conns
    /\ runs \in [Commands -> 0..2]
    /\ trail \in [Jobs -> UNION {[1..n -> {"start", "result", "reject"}] : n \in 0..2}]
    /\ session \in [live : BOOLEAN, grants : SUBSET Permissions, generation : Generations]
    /\ stamped \in Generations \cup {Nothing}
    /\ req \in [Requests -> [at : {"none", "resolve", "states", "execute", "lookup"}, cap : DOMAIN Caps]]
    /\ events \in 0..MaxEvents
    \* each pairing is an event, and only what acts is resolved and executed
    /\ session.generation <= events
    /\ \A r \in Requests : req[r].at \in {"resolve", "states", "execute"} => Caps[req[r].cap] = "act"

RemoteInit ==
    /\ acting \in BOOLEAN
    /\ input = TRUE
    /\ agent \in Agents
    /\ cmd = [k \in Commands |-> "none"]
    /\ waiting = {}
    /\ runs = [k \in Commands |-> 0]
    /\ trail = [j \in Jobs |-> <<>>]
    /\ session = [live |-> FALSE, grants |-> {}, generation |-> 0]
    /\ killed = FALSE
    /\ stamped = Nothing
    /\ req = [r \in Requests |-> [at |-> "none", cap |-> "report"]]
    /\ changed = FALSE
    /\ events = 0

-----------------------------------------------------------------------------
(* Samantha's commands.                                                    *)

CommandStep ==
    UNCHANGED <<linkVars, phoneVars, acting, input, events>>

\* A command settles: the result is kept, and replied to the frames that wait for it, each
\* on its own socket or, when that one was replaced, not at all.
Settle(cache, k, n) ==
    /\ cmd' = [cache EXCEPT ![k] = "done"]
    /\ waiting' = {w \in waiting : w[1] # k}
    /\ runs' = [runs EXCEPT ![k] = @ + n]

Advance(cache, k, at) ==
    /\ cmd' = [cache EXCEPT ![k] = at]
    /\ UNCHANGED runs

Written(j, s) == trail' = [trail EXCEPT ![j] = @ \o s]

\* A command without an entry: the guard's two gates come before anything is looked up.
Dispatch(cache, k, c, token) ==
    IF Cardinality({j \in Commands : cache[j] # "none"}) >= MaxCached
    THEN cmd' = cache /\ UNCHANGED <<waiting, runs, trail>>
    ELSE IF KindOf[k] = "instruct" /\ ~(token /\ acting)
    THEN Settle(cache, k, 0) /\ Written(k, <<"reject">>)
    ELSE /\ Advance(cache, k, IF KindOf[k] = "instruct" THEN "resolve" ELSE "lookup")
         /\ waiting' = waiting \cup {<<k, c>>} /\ UNCHANGED trail

\* Mutant: only finished commands are remembered.
FrameInFlight(k, c, token) ==
    LET cache == [j \in Commands |-> IF cmd[j] = "stale" THEN "none" ELSE cmd[j]] IN
    /\ wire[c] \in {"open", "closing"}
    /\ IF cache[k] # "done"
       THEN Dispatch([cache EXCEPT ![k] = "none"], k, c, token)
       ELSE cmd' = cache /\ UNCHANGED <<waiting, runs, trail>>
    /\ CommandStep /\ UNCHANGED agent

\* handleMessage: a frame of command k arrives, maybe not for the first time.
Frame(k, c, token) ==
    LET cache == [j \in Commands |-> IF cmd[j] = "stale" THEN "none" ELSE cmd[j]] IN
    /\ wire[c] \in {"open", "closing"}
    /\ IF cache[k] = "none"
       THEN Dispatch(cache, k, c, token)
       ELSE /\ cmd' = cache
            /\ waiting' = IF cache[k] \in InFlight THEN waiting \cup {<<k, c>>} ELSE waiting
            /\ UNCHANGED <<runs, trail>>
    /\ CommandStep /\ UNCHANGED agent

\* The time to live of a result is over; a later requestId is a new command.
Expires(k) ==
    /\ cmd[k] = "done"
    /\ cmd' = [cmd EXCEPT ![k] = "stale"]
    /\ runs' = [runs EXCEPT ![k] = 0]
    /\ trail' = [trail EXCEPT ![k] = <<>>]
    /\ CommandStep /\ UNCHANGED <<waiting, agent>>

\* session-report and focus-worktree: they look something up and are done.
LookedUp(k) ==
    /\ cmd[k] = "lookup"
    /\ Settle(cmd, k, 1)
    /\ CommandStep /\ UNCHANGED <<trail, agent>>

\* prepare: the key names one worktree, none or several.  Reading the worktrees may throw,
\* which the dispatcher turns into an error.
Identified(k) ==
    /\ cmd[k] = "resolve"
    /\ \/ Advance(cmd, k, "route") /\ UNCHANGED <<waiting, trail>>
       \/ Settle(cmd, k, 0) /\ Written(k, <<"reject">>)
       \/ Settle(cmd, k, 0) /\ UNCHANGED trail
    /\ CommandStep /\ UNCHANGED agent

\* routeInstruction: only an agent at a safe input point is spoken to.
Safe == {"idle", "paused", "escalated"}

\* sendUnmanagedInput: the input is written in the task that routed it; a terminal that is
\* gone makes it fail.
SentInput(k) ==
    /\ Settle(cmd, k, 1) /\ Written(k, <<"start", "result">>)
    /\ agent' \in {"busy", "idle"}

Routed(k) ==
    /\ cmd[k] = "route"
    /\ CASE agent \notin Safe -> Settle(cmd, k, 0) /\ Written(k, <<"reject">>) /\ UNCHANGED agent
         [] agent = "idle" -> SentInput(k)
         [] OTHER -> /\ Advance(cmd, k, "execute") /\ Written(k, <<"start">>)
                     /\ UNCHANGED <<waiting, agent>>
    /\ CommandStep

\* runManagedInstruction: the whisper command may have found another state than the router
\* did, or fail.
Instructed == {agent, IF agent \in {"paused", "escalated"} THEN "running" ELSE agent}

Executed(k) ==
    /\ cmd[k] = "execute"
    /\ Settle(cmd, k, 1) /\ Written(k, <<"result">>)
    /\ agent' \in Instructed
    /\ CommandStep

-----------------------------------------------------------------------------
(* The phone.                                                              *)

PhoneStep == UNCHANGED <<linkVars, cmdVars, acting, input, events, session, killed>>

At(r, at) == req' = [req EXCEPT ![r].at = at]
Done(r) == req' = [req EXCEPT ![r] = [at |-> "none", cap |-> "report"]]

\* pty-input: keys reach a live terminal when the user allows them; the agent gets busy.
Typed(cap) ==
    IF cap = "keys" /\ "write" \in session.grants /\ ~killed /\ input /\ agent = "idle"
    THEN "busy" ELSE agent

\* The executor of a capability: what acts asks the switch first; the rest of the
\* capabilities is answered in the same task or awaits one look-up.
Handled(r, cap) ==
    CASE Caps[cap] = "act" /\ ~acting -> UNCHANGED req /\ Written(r, <<"reject">>)
      [] Caps[cap] = "act" /\ acting ->
           req' = [req EXCEPT ![r] = [at |-> "resolve", cap |-> cap]] /\ UNCHANGED trail
      [] cap \in {"report", "list"} ->
           req' = [req EXCEPT ![r] = [at |-> "lookup", cap |-> cap]] /\ UNCHANGED trail
      [] OTHER -> UNCHANGED <<req, trail>>

\* A frame of the attached phone: the Peer checks the grant, the session stamps the
\* connection and then asks the kill switch.
Request(r, cap) ==
    /\ session.live /\ req[r].at = "none" /\ trail[r] = <<>>
    /\ IF Caps[cap] \notin session.grants THEN UNCHANGED <<stamped, req, trail>>
       ELSE /\ stamped' = session.generation
            /\ IF killed THEN UNCHANGED <<req, trail>> ELSE Handled(r, cap)
    /\ agent' = Typed(cap)
    /\ PhoneStep /\ UNCHANGED changed

PhoneLookedUp(r) ==
    /\ req[r].at = "lookup"
    /\ Done(r)
    /\ PhoneStep /\ UNCHANGED <<stamped, changed, trail, agent>>

\* The worktree was found in one of the repositories, or in none.
RefResolved(r) ==
    /\ req[r].at = "resolve"
    /\ \/ At(r, "states") /\ UNCHANGED trail
       \/ Done(r) /\ Written(r, <<"reject">>)
    /\ PhoneStep /\ UNCHANGED <<stamped, changed, agent>>

\* Only a live workflow is acted on.  Reading the states may throw, which the Peer turns
\* into an error.
WorkflowResolved(r) ==
    /\ req[r].at = "states"
    /\ \/ agent \in Live /\ At(r, "execute") /\ Written(r, <<"start">>)
       \/ agent \notin Live /\ Done(r) /\ Written(r, <<"reject">>)
       \/ Done(r) /\ UNCHANGED trail
    /\ PhoneStep /\ UNCHANGED <<stamped, changed, agent>>

Effect(cap) ==
    CASE cap = "pause" /\ agent = "running" -> "paused"
      [] cap = "resume" /\ agent = "paused" -> "running"
      [] cap = "stop" /\ agent \in Live -> "ended"
      [] OTHER -> agent

\* Only a success tells the phone that the sessions changed.
PhoneExecuted(r) ==
    /\ req[r].at = "execute"
    /\ Done(r) /\ Written(r, <<"result">>)
    /\ \/ Effect(req[r].cap) # agent /\ agent' = Effect(req[r].cap) /\ changed' = TRUE
       \/ UNCHANGED <<agent, changed>>
    /\ PhoneStep /\ UNCHANGED stamped

\* The next request of this kind has an audit entry of its own.
Forgotten(r) ==
    /\ req[r].at = "none" /\ trail[r] # <<>>
    /\ trail' = [trail EXCEPT ![r] = <<>>]
    /\ PhoneStep /\ UNCHANGED <<stamped, req, changed, agent>>

CoalesceTimer ==
    /\ changed
    /\ changed' = FALSE
    /\ PhoneStep /\ UNCHANGED <<stamped, req, trail, agent>>

Event == events < MaxEvents /\ events' = events + 1

\* A pairing was confirmed, or the stored phone is attached again.  What the phone before
\* asked for goes on.
Attach(g) ==
    /\ Event
    /\ session' = [live |-> TRUE, grants |-> g, generation |-> session.generation + 1]
    /\ stamped' = Nothing
    /\ UNCHANGED <<linkVars, cmdVars, killed, req, changed, acting, input, agent, trail>>

\* The phone was forgotten, or the bridge stopped; stop() also cancels the timer.
Detach(stop) ==
    /\ session.live /\ Event
    /\ session' = [session EXCEPT !.live = FALSE, !.grants = {}]
    /\ stamped' = Nothing
    /\ changed' = (changed /\ ~stop)
    /\ UNCHANGED <<linkVars, cmdVars, killed, req, acting, input, agent, trail>>

\* The switches are the user's, the agent's state whisper's and the terminal's.
Switch ==
    /\ Event
    /\ \/ killed' = ~killed /\ UNCHANGED <<acting, input, agent>>
       \/ acting' = ~acting /\ UNCHANGED <<killed, input, agent>>
       \/ input' = ~input /\ UNCHANGED <<killed, acting, agent>>
       \/ agent' \in Agents \ {agent} /\ UNCHANGED <<killed, acting, input>>
    /\ UNCHANGED <<linkVars, cmdVars, trail, session, stamped, req, changed>>

CommandNext ==
    \/ \E k \in Commands :
         \/ \E c \in Conns, token \in BOOLEAN : Frame(k, c, token)
         \/ Expires(k) \/ LookedUp(k) \/ Identified(k) \/ Routed(k) \/ Executed(k)
    \/ \E r \in Requests :
         \/ \E cap \in DOMAIN Caps : Request(r, cap)
         \/ PhoneLookedUp(r) \/ RefResolved(r) \/ WorkflowResolved(r)
         \/ PhoneExecuted(r) \/ Forgotten(r)
    \/ CoalesceTimer \/ Switch
    \/ \E g \in Grants : Attach(g)
    \/ \E stop \in BOOLEAN : Detach(stop)

=============================================================================
