------------------------------ MODULE SidebarAgents ------------------------------
(***************************************************************************)
(* What the sidebar says of the agents of one worktree, and starting them  *)
(* there.                                                                  *)
(*                                                                         *)
(* The dot: the attention cases of                                         *)
(* src/src/features/workspace/logic/workspace-state.ts, the classifier of  *)
(* src/src/features/terminals/logic/agent-attention.ts and the terminal    *)
(* events of src/src/app/hooks/use-terminal-runtime.ts that feed them.  A  *)
(* process record holds its status, whether its command and its title name *)
(* an agent, agentDetected, its attention and the states of its two        *)
(* reasons; done says that lastAgentReasonBySessionRef holds a "ready".    *)
(* An event of a terminal the process is no longer bound to is dropped, so *)
(* it is no action here, and neither is a report older than the last one.  *)
(*                                                                         *)
(* The launch: a chip mounts the agent in the whisper collab of the        *)
(* worktree while it has room for one more of its two, waits behind a      *)
(* mount that settles, or starts the agent by itself.                      *)
(* src/src/features/terminals/logic/agent-launch.ts, use-deferred-mount.ts *)
(* and use-mount-pending-guard.ts, and launchAgent of src/src/app/App.tsx. *)
(* React's effects run some time after the state they look at, and a click *)
(* may come first.  The 60 s timers fire at any time; mounts counts the    *)
(* `whisper collab mount` commands the lens shows no binding of yet.       *)
(***************************************************************************)
EXTENDS Integers, FiniteSetsExt

-----------------------------------------------------------------------------
(* The launch of agents.                                                   *)

CONSTANTS Trees,       \* the worktrees
          Unset,       \* no window open, nothing queued
          Roams,       \* BOOLEAN: the user changes worktrees while a mount settles
          Slow         \* BOOLEAN: a mount may take longer than the timers

ASSUME UnsetAssumption == Unset \notin 0..2 /\ Unset \notin Trees

VARIABLES at,          \* the worktree that is shown
          lens,        \* worktree -> [alive, bound]: WhisperWorktreeState
          mounts,      \* worktree -> mounts under way
          window,      \* MountPendingState: Unset or baselineBound
          queued       \* the deferred mount: Unset or the worktree it was clicked in

launchVars == <<at, lens, mounts, window, queued>>

Cap == 2
liveBound(w) == IF lens[w].alive THEN lens[w].bound ELSE 0
mountInFlight == window # Unset
deferredOccupied == queued # Unset

LaunchInit ==
    /\ at \in Trees
    /\ lens \in [Trees -> {[alive |-> FALSE, bound |-> 0], [alive |-> FALSE, bound |-> Cap]}]
    /\ mounts = [w \in Trees |-> 0]
    /\ window = Unset /\ queued = Unset

\* launchCollabTerminal and beginMount, in the worktree that is shown.
Mount == /\ mounts' = [mounts EXCEPT ![at] = @ + 1]
         /\ window' = lens[at].bound

\* Mutant: the mount that settles is not counted.
decideUncounted ==
    CASE ~deferredOccupied /\ liveBound(at) < Cap -> "mount"
      [] mountInFlight /\ ~deferredOccupied /\ liveBound(at) + 1 < Cap -> "defer"
      [] OTHER -> "vendor"

decideLaunch ==
    CASE ~mountInFlight /\ ~deferredOccupied /\ liveBound(at) < Cap -> "mount"
      [] mountInFlight /\ ~deferredOccupied /\ liveBound(at) + 1 < Cap -> "defer"
      [] OTHER -> "vendor"

\* A click on a chip; an agent started by itself changes nothing here.
launchAgent ==
    /\ \/ decideLaunch = "mount" /\ Mount /\ UNCHANGED queued
       \/ decideLaunch = "defer" /\ queued' = at /\ UNCHANGED <<mounts, window>>
    /\ UNCHANGED <<at, lens>>

\* A click on the chip that is queued.
CancelDeferred ==
    /\ deferredOccupied
    /\ queued' = Unset
    /\ UNCHANGED <<at, lens, mounts, window>>

\* The effect of useDeferredMount, and its timer.
DeferredReady ==
    /\ deferredOccupied /\ ~mountInFlight
    /\ lens[at].alive /\ liveBound(at) < Cap
    /\ Mount
    /\ queued' = Unset
    /\ UNCHANGED <<at, lens>>

DeferredTimeout ==
    /\ deferredOccupied
    /\ Slow \/ mounts[queued] = 0
    /\ queued' = Unset
    /\ UNCHANGED <<at, lens, mounts, window>>

\* advanceMountPending, after an update of the lens and at the timeout.
MountSettles ==
    /\ mountInFlight
    /\ \/ lens[at].bound > window
       \/ Slow \/ mounts[at] = 0
    /\ window' = Unset
    /\ UNCHANGED <<at, lens, mounts, queued>>

\* Whisper binds the agent of a mount, in a fresh collab when there is none; a
\* mount whose terminal is closed binds nothing; a collab ends and its bindings
\* stay in the store.
Binds(w) ==
    /\ mounts[w] > 0
    /\ mounts' = [mounts EXCEPT ![w] = @ - 1]
    /\ \/ lens' = [lens EXCEPT ![w] = [alive |-> TRUE, bound |-> liveBound(w) + 1]]
       \/ UNCHANGED lens
    /\ UNCHANGED <<at, window, queued>>

CollabEnds(w) ==
    /\ lens[w].alive
    /\ lens' = [lens EXCEPT ![w].alive = FALSE]
    /\ UNCHANGED <<at, mounts, window, queued>>

ShowWorktree(w) ==
    /\ w # at
    /\ Roams \/ (~mountInFlight /\ ~deferredOccupied)
    /\ at' = w
    /\ UNCHANGED <<lens, mounts, window, queued>>

LaunchNext ==
    \/ launchAgent \/ CancelDeferred
    \/ DeferredReady \/ DeferredTimeout \/ MountSettles
    \/ \E w \in Trees : Binds(w) \/ CollabEnds(w) \/ ShowWorktree(w)

-----------------------------------------------------------------------------
LaunchTypeOK ==
    /\ at \in Trees
    /\ lens \in [Trees -> [alive : BOOLEAN, bound : 0..Cap]]
    /\ mounts \in [Trees -> Nat]
    /\ window \in {Unset} \cup 0..Cap
    /\ queued \in {Unset} \cup Trees

\* The collab of a worktree is never overbooked: the agents it binds and the mounts under
\* way fit its two places, however fast the chips are clicked and whatever the effects run
\* behind (decideLaunch, "committed = liveBound + mountInFlight + deferred").
NeverOverbooked == \A w \in Trees : liveBound(w) + mounts[w] <= Cap

-----------------------------------------------------------------------------
(* The dot of a worktree.                                                  *)

CONSTANTS Shells,          \* the processes the worktree may have
          AgentCommand,    \* those started with an agent's command
          Quiet            \* no reason

VARIABLES shells,          \* process -> record, for the processes in panes
          sess             \* its attention, mcpReportingActive, and swallowed

avars == <<shells, sess>>

Verdicts == {"active", "ready", "failed", "waiting"}
ShellStates == [status : {"running", "exited"}, titled : BOOLEAN, agent : BOOLEAN,
                attention : 0..2, terminal : Verdicts \cup {Quiet},
                lifecycle : {"ready", "failed", Quiet}, done : BOOLEAN]
Rank(v) == CASE v = Quiet -> 0 [] v = "active" -> 1 [] v = "ready" -> 3
             [] v = "failed" -> 4 [] v = "waiting" -> 5

shouldReplace(current, next) == current = Quiet \/ Rank(next) >= Rank(current)

\* mapToProcessAttentionState: 0 idle, 1 activity, 2 actionRequired.
Attention(v) == CASE v = Quiet -> 0 [] v \in {"waiting", "failed"} -> 2 [] OTHER -> 1

Stronger(a, b) == IF a >= b THEN a ELSE b

\* rankAgentAttention over the reasons of a process, mapped.
Ranked(r) == Attention(IF Rank(r.terminal) >= Rank(r.lifecycle)
                       THEN r.terminal ELSE r.lifecycle)

Recalculated(sh) == Max({sh[p].attention : p \in DOMAIN sh} \cup {0})

RunningAgent(sh) == \E p \in DOMAIN sh : sh[p].status = "running" /\ sh[p].agent

Plain(sh) == [sess EXCEPT !.attention = Recalculated(sh)]

\* Reporting ends with the last running agent, where the reducer looks for it.
Departed(base, sh) == [base EXCEPT !.reporting = @ /\ RunningAgent(sh),
                                   !.swallowed = @ /\ RunningAgent(sh)]

Update(sh, next) == shells' = sh /\ sess' = next

NewShell(p, titled) ==
    [status |-> "running", titled |-> titled,
     agent |-> p \in AgentCommand \/ titled, attention |-> 0,
     terminal |-> Quiet, lifecycle |-> Quiet, done |-> FALSE]

AttentionInit ==
    /\ shells = [p \in {} |-> NewShell(p, FALSE)]
    /\ sess = [attention |-> 0, reporting |-> FALSE, swallowed |-> FALSE]

Register(p) ==
    /\ p \notin DOMAIN shells
    /\ LET sh == [q \in DOMAIN shells \cup {p} |->
                    IF q = p THEN NewShell(p, FALSE) ELSE shells[q]]
       IN  Update(sh, Plain(sh))

\* recordProcessOutput for a chunk that was classified.
Recorded(r, incoming, verdict, viewed) ==
    [r EXCEPT !.attention = IF viewed THEN @ ELSE Stronger(incoming, @),
              !.terminal = IF verdict # Quiet /\ shouldReplace(@, verdict) THEN verdict ELSE @]

\* A chunk of output: the patterns of old say legacy, and for an agent that
\* does not report itself the classifier says verdict.
Output(p, legacy, verdict, viewed) ==
    LET r == shells[p]
        incoming == Stronger(IF r.agent /\ sess.reporting THEN 1 ELSE legacy,
                             Attention(verdict))
        heard == [Recorded(r, incoming, verdict, viewed) EXCEPT
                    !.done = IF verdict = Quiet THEN @ ELSE verdict = "ready"]
        sh == [shells EXCEPT ![p] = heard]
    IN  /\ r.status = "running"
        /\ verdict = Quiet \/ (r.agent /\ ~sess.reporting)
        /\ Update(sh, Plain(sh))

\* reportProcessAgentAttention, as onExit and onError use it.
Reported(r, verdict) ==
    IF ~shouldReplace(r.lifecycle, verdict) THEN r
    ELSE LET n == [r EXCEPT !.lifecycle = verdict]
         IN  [n EXCEPT !.attention = Stronger(Ranked(n), @)]

\* The terminal of p ends: badly, or well after an agent said it was done.
Exit(p, clean) ==
    LET r == shells[p]
        over == [r EXCEPT !.status = "exited", !.agent = FALSE, !.done = FALSE]
        said == IF ~r.agent THEN over
                ELSE IF ~clean THEN Reported(over, "failed")
                ELSE IF r.done THEN Reported(over, "ready") ELSE over
        sh == [shells EXCEPT ![p] = said]
    IN  /\ r.status = "running"
        /\ Update(sh, Departed(IF said = over THEN sess ELSE Plain(sh), sh))

\* The restart of a shell: the process is bound to a new terminal and is
\* running, detected by its command or its present title.  The exit of a shell
\* that was still running finds it rebound and is dropped.
Restart(p) ==
    LET r == shells[p]
        sh == [shells EXCEPT ![p].status = "running",
                             ![p].agent = p \in AgentCommand \/ r.titled,
                             ![p].done = FALSE]
    IN  Update(sh, [sess EXCEPT !.swallowed =
                        @ \/ (sess.reporting /\ ~RunningAgent(sh))])

\* The title an agent sets: it may name the agent, or the user's prompt.
Retitle(p) ==
    LET r == shells[p]
        sh == [shells EXCEPT ![p].titled = ~@, ![p].agent = @ \/ ~r.titled]
    IN  Update(sh, sess)

\* The agent reports itself over MCP: its word replaces what the classifier
\* made of the terminals, but for a failure.
Report(verdict) ==
    LET quietened == [p \in DOMAIN shells |->
            IF shells[p].terminal = Quiet THEN shells[p]
            ELSE LET n == [shells[p] EXCEPT !.terminal = Quiet]
                 IN  [n EXCEPT !.attention = Ranked(n)]]
        sh == IF verdict = "failed" THEN shells ELSE quietened
    IN  Update(sh, [Plain(sh) EXCEPT !.reporting = @ \/ RunningAgent(shells)])

View(p) ==
    LET sh == [shells EXCEPT ![p].attention = 0] IN Update(sh, Plain(sh))

\* clearProcessAgentAttention: a failure
\* stays unless the clear is sticky.
Clear(p, sticky) ==
    LET Keep(v) == IF ~sticky /\ v = "failed" THEN v ELSE Quiet
        n == [shells[p] EXCEPT !.terminal = Keep(@), !.lifecycle = Keep(@)]
        sh == [shells EXCEPT ![p] = [n EXCEPT !.attention = Ranked(n)]]
    IN  Update(sh, Plain(sh))

\* Mutant: the attention is recalculated with the shell that goes.
CloseLate(p) ==
    LET sh == [q \in DOMAIN shells \ {p} |-> shells[q]]
    IN  Update(sh, Departed(Plain(shells), sh))

Close(p) ==
    LET sh == [q \in DOMAIN shells \ {p} |-> shells[q]]
    IN  Update(sh, Departed(Plain(sh), sh))

\* The readings that make a difference: a shell in view keeps its attention, and a
\* verdict is activity at least.
Readings(verdict, viewed) ==
    CASE viewed -> {0} [] verdict = Quiet -> 0..2 [] OTHER -> {0, 2}

AttentionNext ==
    \/ \E p \in Shells : Register(p)
    \/ \E p \in DOMAIN shells :
          \/ \E verdict \in Verdicts \cup {Quiet}, viewed \in BOOLEAN :
                \E legacy \in Readings(verdict, viewed) : Output(p, legacy, verdict, viewed)
          \/ \E clean \in BOOLEAN : Exit(p, clean)
          \/ Restart(p) \/ Retitle(p) \/ View(p) \/ Close(p)
          \/ \E sticky \in BOOLEAN : Clear(p, sticky)
    \/ \E verdict \in Verdicts : Report(verdict)

-----------------------------------------------------------------------------
AttentionTypeOK ==
    /\ DOMAIN shells \subseteq Shells
    /\ \A p \in DOMAIN shells : shells[p] \in ShellStates
    /\ sess \in [attention : 0..2, reporting : BOOLEAN, swallowed : BOOLEAN]

\* The dot of a worktree is the strongest attention of the shells in its
\* panes, whatever was reported, viewed, restarted or closed last.
DotIsStrongest == sess.attention = Recalculated(shells)

\* The heuristics stay muted only while an agent that runs vouches for itself,
\* or after a restart whose exit was dropped: then, and only then, is the flag
\* left standing when the last agent is gone.
MutedByAnAgent == sess.reporting => RunningAgent(shells) \/ sess.swallowed

\* The sidebar neither overstates the agents of a worktree nor stays silent for one.
DotIsHonest == DotIsStrongest /\ MutedByAnAgent
=============================================================================
