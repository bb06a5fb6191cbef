------------------------------- MODULE WorkflowLens -------------------------------
(***************************************************************************)
(* The workflows of whisper on the screen: the reads of its store, the     *)
(* lens and the dot of a worktree, the dialog with its commands, and what  *)
(* is kept of both, the archive of the runs and the log of the dots.       *)
(* src/services/plugins/whisper/ (the store reader, watcher, driver and    *)
(* command runner), src/src/features/workflows/, src/src/features/         *)
(* workspace/logic/sidebar-shell-summary.ts and resolution-emitter.ts,     *)
(* src/services/insights/whisper/archiver.ts and src/services/diagnostics/ *)
(* agent-attention-logger.ts.                                              *)
(*                                                                         *)
(* `matter` says which of these a behaviour is about.  Whisper is another  *)
(* process: it writes between any two reads.  A state of the lens is that  *)
(* of one collab, its chain the escalated one or 0; paused counts as       *)
(* running.  Auxiliary: `fresh`, a snapshot of which no read failed and    *)
(* after whose first read nothing changed; `seen`, the user cleared the    *)
(* reason; `filed`, nothing was written since the tick.                    *)
(***************************************************************************)
EXTENDS Naturals, Sequences, FiniteSets, SequencesExt, FiniteSetsExt

CONSTANTS MaxStore,   \* bound: changes of the store, its daemon and the worktree
          MaxChain,   \* bound: relay chains
          MaxFaults,  \* bound: reads that fail
          MaxSnaps,   \* bound: snapshots under way
          Deaf,       \* BOOLEAN: a state may come before the workspace is hydrated
          MaxOrders,  \* bound: commands sent from a dialog
          Talks,      \* BOOLEAN: a second tell while one waits
          Leaves,     \* BOOLEAN: the worktree may go while its dialog is open
          MaxClock,   \* bound: whisper's clock
          Tardy,      \* BOOLEAN: a write may be stamped before one already read
          Reverts,    \* BOOLEAN: a run may return to what it was
          Budget,     \* MAX_TOTAL_BYTES, in full files
          MaxRecords, \* bound: records of the log
          MaxDay,     \* bound: days
          Reuses      \* BOOLEAN: the number of an evicted file may be given again

\* A budget is a number of files.
ASSUME BudgetAssumption == Budget \in Nat

VARIABLES collab,     \* [live, known, beats, flow, chain, escalated, changes, faults]
          snaps,      \* the snapshots under way
          workflowLens, \* [prev, shown, stale, fresh]
          attn,       \* [here, reason, seen, retired]: the session of the worktree
          others,     \* [mcp, retired, top]: what its agents and shells say
          dialog,     \* [open, busy, hint, status, gone]
          orders,     \* the commands under way: [tell, mine, at], mine if this dialog sent it
          sent,       \* how many were sent
          wruns,      \* run -> [status, at, phase, phaseAt], in whisper's store
          clock,
          archive,    \* the observations, in the order of their insertion
          watermark,
          filed,
          log,        \* [files, day, prev, dot, written, disabled]
          matter

feedVars == <<collab, snaps, workflowLens, attn, others>>
dialogVars == <<dialog, orders, sent>>
archiveVars == <<wruns, clock, archive, watermark, filed>>
lensVars == <<feedVars, dialogVars, archiveVars, log, matter>>

NoState == [here |-> FALSE, beats |-> FALSE, flow |-> "none", chain |-> 0]
NoReason == [state |-> "quiet", chain |-> 0]
NoDot == "none"
ClosedDialog == [open |-> FALSE, busy |-> FALSE, hint |-> FALSE, status |-> "running",
                 gone |-> FALSE]

LensInit ==
    /\ matter \in {"feed", "dialog", "archive", "log"}
    /\ collab = [live |-> TRUE, known |-> TRUE, beats |-> TRUE, flow |-> "running", chain |-> 1,
                 escalated |-> FALSE, changes |-> 0, faults |-> 0]
    /\ snaps = <<>>
    /\ workflowLens = [prev |-> NoState, shown |-> NoState, stale |-> FALSE, fresh |-> FALSE]
    /\ attn = [here |-> TRUE, reason |-> NoReason, seen |-> FALSE, retired |-> FALSE]
    /\ others = [mcp |-> "quiet", retired |-> FALSE, top |-> "idle"]
    /\ dialog = ClosedDialog
    /\ orders = <<>> /\ sent = 0
    /\ wruns = [r \in 1..2 |-> [status |-> "running", at |-> 1, phase |-> "open", phaseAt |-> 1]]
    /\ clock = 1 /\ archive = <<>> /\ watermark = 0 /\ filed = FALSE
    /\ log = [files |-> {}, day |-> 1, prev |-> NoDot, dot |-> "idle", written |-> 0,
              disabled |-> FALSE]

-----------------------------------------------------------------------------
(* Whisper writes, the registry of worktrees changes.                        *)

Outdated == /\ snaps' = [i \in DOMAIN snaps |-> [snaps[i] EXCEPT !.fresh = FALSE]]
            /\ workflowLens' = [workflowLens EXCEPT !.fresh = FALSE]

Change(c) ==
    /\ matter = "feed" /\ collab.changes < MaxStore
    /\ collab' = [c EXCEPT !.changes = @ + 1]
    /\ Outdated
    /\ UNCHANGED <<others, dialogVars, archiveVars, log, matter>>

NewChain(c) == [c EXCEPT !.chain = @ + 1, !.escalated = FALSE]

\* A chain escalates before its workflow halts; a resumed workflow runs before its new
\* chain is there.
WhisperWrites ==
    /\ \/ /\ collab.flow = "done" /\ collab.chain < MaxChain
          /\ Change([NewChain(collab) EXCEPT !.flow = "running"])
       \/ collab.flow = "running" /\ Change([collab EXCEPT !.escalated = TRUE])
       \/ collab.flow = "running" /\ Change([collab EXCEPT !.flow = "halted"])
       \/ collab.flow = "running" /\ Change([collab EXCEPT !.flow = "done"])
       \/ collab.flow = "halted" /\ Change([collab EXCEPT !.flow = "running"])
       \/ /\ collab.flow = "running" /\ collab.escalated /\ collab.chain < MaxChain
          /\ Change(NewChain(collab))
       \/ Change([collab EXCEPT !.beats = ~@])
       \/ collab.live /\ Change([collab EXCEPT !.live = FALSE])
    /\ UNCHANGED attn

\* The workspace is removed with its sessions, or opened and then hydrated.
WorktreeGoes ==
    /\ collab.known
    /\ Change([collab EXCEPT !.known = FALSE])
    /\ attn' = [here |-> FALSE, reason |-> NoReason, seen |-> FALSE, retired |-> FALSE]

WorktreeComes ==
    /\ ~collab.known /\ (Deaf \/ ~workflowLens.prev.here)
    /\ Change([collab EXCEPT !.known = TRUE])
    /\ UNCHANGED attn

Hydrated ==
    /\ matter = "feed" /\ collab.known /\ ~attn.here
    /\ attn' = [attn EXCEPT !.here = TRUE]
    /\ UNCHANGED <<collab, snaps, workflowLens, others, dialogVars, archiveVars, log, matter>>

-----------------------------------------------------------------------------
(* A snapshot: every query opens the store anew, and one that fails finds    *)
(* nothing.                                                                  *)

\* readEscalatedChain: only the most recent chain counts.
Escalated == IF collab.escalated THEN collab.chain ELSE 0

\* attentionFor: what a state asks of the user.
AttentionFor(s) ==
    IF ~s.here THEN NoReason
    ELSE IF s.chain # 0 THEN [state |-> "waiting", chain |-> s.chain]
    ELSE IF s.flow = "halted" THEN [state |-> "waiting", chain |-> 0]
    ELSE IF s.flow = "done" THEN [state |-> "ready", chain |-> 0] ELSE NoReason

\* The session takes a new reason, as reportAgentAttention; a workflow that is done
\* retires what waited before.
Report(r) ==
    /\ attn' = [attn EXCEPT !.reason = r, !.seen = FALSE, !.retired = FALSE]
    /\ others' = [others EXCEPT !.retired = @ \/ r.state = "ready"]

\* diffWorkflowAttention, dispatched to the workspace that has the session.
Dispatch(p, n) ==
    LET was == AttentionFor(p)
        is == AttentionFor(n)
    IN  IF ~attn.here \/ was = is THEN UNCHANGED <<attn, others>>
        ELSE IF is = NoReason
             THEN attn' = [attn EXCEPT !.reason = NoReason, !.seen = FALSE] /\ UNCHANGED others
             ELSE Report(is)

\* onWhisperStateChanged: a workflow that is gone while its daemon lives is shown as it was.
StatePushed(n, fresh) ==
    LET p == workflowLens.prev
        stale == n.here /\ n.beats /\ n.flow = "none" /\ p.here /\ p.flow # "none"
    IN  /\ workflowLens' = [prev |-> n, shown |-> IF stale THEN p ELSE n, stale |-> stale,
                            fresh |-> fresh]
        /\ Dispatch(p, n)

Fault(n) == /\ collab.faults + n <= MaxFaults
            /\ collab' = [collab EXCEPT !.faults = @ + n]

Reading(i) == i \in DOMAIN snaps /\ \A j \in DOMAIN snaps : snaps[j].at = "half" => j = i

\* tick() or refresh(), up to the await: readCollabs leaves archived ones out.
SnapBegins ==
    /\ matter = "feed" /\ Len(snaps) < MaxSnaps
    /\ \A i \in DOMAIN snaps : snaps[i].at # "half"
    /\ \/ /\ collab.live
          /\ snaps' = Append(snaps, [at |-> "asked", fresh |-> TRUE, beats |-> FALSE,
                                     flow |-> "none"])
          /\ UNCHANGED <<collab, workflowLens, attn, others>>
       \/ ~collab.live /\ StatePushed(NoState, TRUE) /\ UNCHANGED <<collab, snaps>>
       \/ Fault(1) /\ StatePushed(NoState, FALSE) /\ UNCHANGED snaps
    /\ UNCHANGED <<dialogVars, archiveVars, log, matter>>

\* ... after resolveWorktreeId: the heartbeat, then the workflow.
SnapResolves(i) ==
    /\ Reading(i) /\ snaps[i].at = "asked"
    /\ \/ /\ ~collab.known
          /\ snaps' = RemoveAt(snaps, i)
          /\ StatePushed(NoState, snaps[i].fresh) /\ UNCHANGED collab
       \/ /\ collab.known
          /\ snaps' = [snaps EXCEPT ![i].at = "half", ![i].beats = collab.beats,
                                    ![i].flow = collab.flow]
          /\ UNCHANGED <<collab, workflowLens, attn, others>>
       \/ /\ collab.known /\ Fault(1)
          /\ \E both \in BOOLEAN :
               snaps' = [snaps EXCEPT ![i].at = "half", ![i].beats = collab.beats /\ ~both,
                                      ![i].flow = "none", ![i].fresh = FALSE]
          /\ UNCHANGED <<workflowLens, attn, others>>
    /\ UNCHANGED <<dialogVars, archiveVars, log, matter>>

\* ... then the escalation; the state is published and pushed.
SnapEnds(i) ==
    LET s == snaps[i]
        State(c) == [here |-> TRUE, beats |-> s.beats, flow |-> s.flow, chain |-> c]
    IN  /\ Reading(i) /\ s.at = "half"
        /\ Deaf \/ attn.here \/ ~collab.known
        /\ snaps' = RemoveAt(snaps, i)
        /\ \/ StatePushed(State(Escalated), s.fresh) /\ UNCHANGED collab
           \/ Fault(1) /\ StatePushed(State(0), FALSE)
        /\ UNCHANGED <<dialogVars, archiveVars, log, matter>>

-----------------------------------------------------------------------------
(* What the sidebar makes of it.                                             *)

\* While a workflow runs and its daemon lives, the lens alone decides.
Suppressed == workflowLens.shown.here /\ workflowLens.shown.beats
              /\ workflowLens.shown.flow = "running"

\* buildWorktreeProcessSummary and buildWorktreeAttentionDisplay.
Dot ==
    IF \/ attn.reason.state = "waiting" /\ ~attn.retired
       \/ ~Suppressed /\ others.mcp = "waiting" /\ ~others.retired
       \/ ~Suppressed /\ others.top = "actionRequired" THEN "actionRequired"
    ELSE IF attn.reason.state = "ready" \/ (~Suppressed /\ others.mcp = "ready") THEN "ready"
    ELSE "idle"

Sidebar == /\ matter = "feed" /\ attn.here
           /\ UNCHANGED <<collab, snaps, workflowLens, dialogVars, archiveVars, log, matter>>

\* An agent reports itself: when it is ready, what waited before is over.
AgentSays(v) ==
    /\ Sidebar
    /\ others' = [others EXCEPT !.mcp = v, !.retired = FALSE]
    /\ attn' = [attn EXCEPT !.retired = @ \/ v = "ready"]

\* A shell prompts.
ShellPrompts ==
    /\ Sidebar
    /\ others' = [others EXCEPT !.top = "actionRequired"] /\ UNCHANGED attn

\* STALE_THRESHOLD_MS without another report.
Ages ==
    /\ Sidebar
    /\ \/ attn' = [attn EXCEPT !.retired = TRUE] /\ UNCHANGED others
       \/ others' = [others EXCEPT !.retired = TRUE] /\ UNCHANGED attn

\* A tab is picked, or a worktree whose agent reported: every reason of the session goes.
Views ==
    /\ Sidebar
    /\ attn' = [attn EXCEPT !.reason = NoReason, !.seen = @ \/ attn.reason # NoReason]
    /\ \/ others' = [mcp |-> "quiet", retired |-> FALSE, top |-> "idle"]
       \/ others.mcp # "quiet" /\ others' = [others EXCEPT !.mcp = "quiet"]

FeedNext ==
    \/ WhisperWrites \/ WorktreeGoes \/ WorktreeComes \/ Hydrated
    \/ SnapBegins \/ \E i \in 1..MaxSnaps : SnapResolves(i) \/ SnapEnds(i)
    \/ \E v \in {"waiting", "ready"} : AgentSays(v)
    \/ ShellPrompts \/ Ages \/ Views

-----------------------------------------------------------------------------
(* The dialog of the workflow and its commands.                              *)

OpenDialog ==
    /\ matter = "dialog" /\ ~dialog.open /\ ~dialog.gone
    /\ dialog' = [dialog EXCEPT !.open = TRUE]
    /\ UNCHANGED <<feedVars, orders, sent, archiveVars, log, matter>>

CloseDialog ==
    /\ dialog.open
    /\ dialog' = [dialog EXCEPT !.open = FALSE, !.busy = FALSE, !.hint = FALSE]
    /\ orders' = [i \in DOMAIN orders |-> [orders[i] EXCEPT !.mine = FALSE]]
    /\ UNCHANGED <<feedVars, sent, archiveVars, log, matter>>

\* A state is pushed while the dialog is open.
StatusMoves ==
    /\ dialog.open
    /\ \E s \in {"running", "halted", "done"} \ {dialog.status} : dialog' = [dialog EXCEPT !.status = s]
    /\ UNCHANGED <<feedVars, orders, sent, archiveVars, log, matter>>

SendOrder(tell) ==
    /\ sent < MaxOrders
    /\ orders' = Append(orders, [tell |-> tell, mine |-> TRUE, at |-> "asked"])
    /\ sent' = sent + 1
    /\ UNCHANGED <<feedVars, archiveVars, log, matter>>

\* run: a button is there for some states, and all of them wait for the one at work.
Press(kind) ==
    /\ dialog.open /\ ~dialog.busy
    /\ kind = "pause" => dialog.status = "running"
    /\ kind = "resume" => dialog.status = "halted"
    /\ kind = "cancel" => dialog.status # "done"
    /\ dialog' = [dialog EXCEPT !.busy = TRUE]
    /\ SendOrder(FALSE)

\* tell: the hint shows until an answer comes, the buttons stay.
Tell ==
    /\ dialog.open
    /\ Talks \/ \A i \in DOMAIN orders : ~(orders[i].mine /\ orders[i].tell)
    /\ dialog' = [dialog EXCEPT !.hint = TRUE]
    /\ SendOrder(TRUE)

WorktreeLeaves ==
    /\ matter = "dialog" /\ Leaves /\ ~dialog.gone
    /\ dialog' = [dialog EXCEPT !.gone = TRUE]
    /\ UNCHANGED <<feedVars, orders, sent, archiveVars, log, matter>>

\* An answer, of whatever exit code or timeout, ends the wait of its own kind.
Released(o) == IF o.tell THEN [dialog EXCEPT !.hint = FALSE]
               ELSE [dialog EXCEPT !.busy = FALSE]

\* PLUGINS_WHISPER_COMMAND: the worktree is resolved, or the call rejects; nobody
\* catches the rejection of a tell.
OrderStarts(i) ==
    /\ i \in DOMAIN orders /\ orders[i].at = "asked"
    /\ IF dialog.gone
       THEN /\ orders' = RemoveAt(orders, i)
            /\ dialog' = IF orders[i].mine /\ ~orders[i].tell
                         THEN Released(orders[i]) ELSE dialog
       ELSE orders' = [orders EXCEPT ![i].at = "runs"] /\ UNCHANGED dialog
    /\ UNCHANGED <<feedVars, sent, archiveVars, log, matter>>

\* The command ends; the dialog that sent it may be gone.
OrderEnds(i) ==
    /\ i \in DOMAIN orders /\ orders[i].at = "runs"
    /\ orders' = RemoveAt(orders, i)
    /\ dialog' = IF orders[i].mine THEN Released(orders[i]) ELSE dialog
    /\ UNCHANGED <<feedVars, sent, archiveVars, log, matter>>

DialogNext ==
    \/ OpenDialog \/ CloseDialog \/ StatusMoves \/ WorktreeLeaves \/ Tell
    \/ \E kind \in {"pause", "resume", "cancel", "recover"} : Press(kind)
    \/ \E i \in 1..MaxOrders : OrderStarts(i) \/ OrderEnds(i)

-----------------------------------------------------------------------------
(* The archive of the runs.                                                  *)

\* Whisper stamps its writes; only those of the run itself bump at.
Stamped(next, at) ==
    /\ matter = "archive"
    /\ wruns' = next
    /\ clock' = IF at > clock THEN at ELSE clock
    /\ filed' = FALSE
    /\ UNCHANGED <<feedVars, dialogVars, archive, watermark, log, matter>>

Stamps == {clock} \cup {t \in {clock + 1} : t <= MaxClock}
          \cup {t \in {clock - 1} : Tardy /\ t > 0}

RunMoves(r) ==
    /\ wruns[r].status # "done"
    /\ \E s \in {"running", "paused", "done"} \ {wruns[r].status} :
       \E t \in Stamps :
         /\ s # "running" \/ Reverts
         /\ Stamped([wruns EXCEPT ![r].status = s, ![r].at = t], t)

PhaseEnds(r) ==
    /\ wruns[r].phase = "open"
    /\ \E t \in Stamps : Stamped([wruns EXCEPT ![r].phase = "passed", ![r].phaseAt = t], t)

\* Mutant: only runs that were written themselves are read again.
WrittenSince(r) == wruns[r].at >= watermark

\* readAllWorkflows since the watermark: the run or one of its phases may have moved.
ChangedSince(r) == wruns[r].at >= watermark \/ wruns[r].phaseAt >= watermark

\* workflowEventId hashes all of it but ts.
Observation(r) ==
    LET w == wruns[r]
    IN  [run |-> r, status |-> w.status, phase |-> w.phase, ts |-> w.at,
         end |-> IF w.status = "done" /\ w.phase = "passed" THEN w.phaseAt ELSE 0]
Known(o) == \E i \in DOMAIN archive : [archive[i] EXCEPT !.ts = o.ts] = o

\* archiveOnce, one transaction: an observation that is there already is not inserted.
News(r) == IF ChangedSince(r) /\ ~Known(Observation(r)) THEN <<Observation(r)>> ELSE <<>>

ArchiveOnce ==
    /\ matter = "archive" /\ ~filed
    /\ archive' = archive \o News(1) \o News(2)
    /\ LET due == {r \in 1..2 : ChangedSince(r)}
       IN  watermark' = Max({watermark} \cup {wruns[r].at : r \in due}
                                        \cup {wruns[r].phaseAt : r \in due})
    /\ filed' = TRUE
    /\ UNCHANGED <<feedVars, dialogVars, wruns, clock, log, matter>>

\* Everything recorded is deleted, the watermark with it.
ArchiveDeleted ==
    /\ matter = "archive" /\ archive # <<>>
    /\ archive' = <<>> /\ watermark' = 0 /\ filed' = FALSE
    /\ UNCHANGED <<feedVars, dialogVars, wruns, clock, log, matter>>

\* The view whisper_runs: the revision of the latest event, the last one inserted.
Revision(r) ==
    LET mine == {i \in DOMAIN archive : archive[i].run = r}
    IN  archive[Max({i \in mine : \A j \in mine : archive[j].ts <= archive[i].ts})]

ArchiveNext ==
    \/ \E r \in 1..2 : RunMoves(r) \/ PhaseEnds(r)
    \/ ArchiveOnce \/ ArchiveDeleted

-----------------------------------------------------------------------------
(* The log of the dots: files [day, roll, recs], roll 0 the one written to,  *)
(* which is full with one record.                                            *)

Base == {f \in log.files : f.day = log.day /\ f.roll = 0}
Older(f, g) == \/ f.day < g.day
               \/ f.day = g.day /\ f.roll # 0 /\ (g.roll = 0 \/ f.roll < g.roll)

\* enforceTotalSizeBudget: the oldest go until the rest is within the budget.
Within(files) == {f \in files : Cardinality({g \in files : ~Older(g, f)}) <= Budget}

\* rolloverCurrent: the lowest number that is free.
Rolls == {f.roll : f \in {g \in log.files : g.day = log.day}} \cup {0}
FreeRoll == Min((1..(Cardinality(log.files) + 1)) \ Rolls)

\* Mutant: the full file is not renamed.
NotRolled == Within(log.files)

RolledOver ==
    IF Base = {} THEN log.files
    ELSE Within((log.files \ Base)
                \cup {[f EXCEPT !.roll = FreeRoll] : f \in Base})

\* Another dot is shown: diffAndAdvanceResolutions, and append of what it says.
DotMoves ==
    /\ matter = "log" /\ log.written < MaxRecords
    /\ Reuses \/ Base = {} \/ \A k \in Rolls : k < FreeRoll
    /\ \E d \in {"idle", "ready", "actionRequired"} \ {log.prev} :
         \/ /\ ~log.disabled
            /\ log' = [log EXCEPT !.dot = d, !.prev = d, !.written = @ + 1,
                                  !.files = RolledOver \cup
                                    {[day |-> log.day, roll |-> 0,
                                      rec |-> [n |-> log.written + 1, before |-> log.prev,
                                               after |-> d]]}]
         \/ \E kept \in {log.files, IF log.disabled THEN log.files ELSE RolledOver} :
              log' = [log EXCEPT !.dot = d, !.prev = d, !.disabled = TRUE, !.files = kept]
    /\ UNCHANGED <<feedVars, dialogVars, archiveVars, matter>>

NextDay ==
    /\ matter = "log" /\ log.day < MaxDay
    /\ log' = [log EXCEPT !.day = @ + 1]
    /\ UNCHANGED <<feedVars, dialogVars, archiveVars, matter>>

\* A new logger, a new renderer: what is older than the retention, a day here, goes.
LogReopens ==
    /\ matter = "log" /\ log.prev # NoDot
    /\ log' = [log EXCEPT !.files = Within({f \in @ : f.day + 1 >= log.day}),
                          !.prev = NoDot, !.disabled = FALSE]
    /\ UNCHANGED <<feedVars, dialogVars, archiveVars, matter>>

LogNext == DotMoves \/ NextDay \/ LogReopens

LensNext == FeedNext \/ DialogNext \/ ArchiveNext \/ LogNext

-----------------------------------------------------------------------------
Floating == {"none", "running", "halted", "done"}
LensStates == [here : BOOLEAN, beats : BOOLEAN, flow : Floating, chain : 0..MaxChain]

LensTypeOK ==
    /\ collab \in [live : BOOLEAN, known : BOOLEAN, beats : BOOLEAN, flow : Floating,
                   chain : 0..MaxChain, escalated : BOOLEAN, changes : 0..MaxStore,
                   faults : 0..MaxFaults]
    /\ Len(snaps) <= MaxSnaps
    /\ workflowLens \in [prev : LensStates, shown : LensStates, stale : BOOLEAN, fresh : BOOLEAN]
    /\ attn.reason \in [state : {"quiet", "waiting", "ready"}, chain : 0..MaxChain]
    /\ others \in [mcp : {"quiet", "waiting", "ready"}, retired : BOOLEAN,
                   top : {"idle", "actionRequired"}]
    /\ Len(orders) <= sent /\ sent <= MaxOrders
    /\ \A r \in 1..2 : wruns[r].at <= clock /\ wruns[r].phaseAt <= clock
    /\ watermark <= clock
    /\ log.written <= MaxRecords /\ Cardinality(Base) <= 1

\* The reason the sidebar keeps for the workflow is the one its last state asks for, until
\* the user clears it: a chain that escalates again is reported again, a resumed or
\* vanished workflow takes its reason along (diffWorkflowAttention, useWhisperState).
AttentionFollows ==
    attn.here =>
      attn.reason = (IF attn.seen THEN NoReason ELSE AttentionFor(workflowLens.prev))

\* Once a snapshot read whisper after its last write, the lens shows what the store says
\* however torn or overtaken the ones before were; and then the worktree of a running
\* workflow calls for nobody, one that escalated or halted does until the user looks or
\* the call is retired.
LensCatchesUp ==
    workflowLens.fresh =>
      /\ workflowLens.shown = IF ~(collab.live /\ collab.known) THEN NoState
                              ELSE [here |-> TRUE, beats |-> collab.beats, flow |-> collab.flow,
                                    chain |-> IF collab.escalated THEN collab.chain ELSE 0]
      /\ ~workflowLens.stale
      /\ workflowLens.shown.here /\ collab.beats /\ collab.flow = "running" /\ ~collab.escalated
           => Dot # "actionRequired"
      /\ workflowLens.shown.here /\ attn.here /\ ~attn.seen /\ ~attn.retired
         /\ (collab.escalated \/ collab.flow = "halted") => Dot = "actionRequired"

\* The buttons of the dialog wait exactly while one of its commands is under way, the hint
\* shows exactly while a tell of its waits, and a command of a dialog that was closed
\* disturbs neither (WorkflowDetail run and tell).
DialogIsHonest ==
    LET Under(tells) == \E i \in DOMAIN orders : orders[i].mine /\ orders[i].tell = tells
    IN  dialog.open => dialog.busy = Under(FALSE) /\ dialog.hint = Under(TRUE)

\* After a tick the archive's latest revision of every run is the run, though the ticks
\* read only what a timestamp says may have changed (archiveOnce, readAllWorkflows).
ArchiveCatchesUp ==
    filed => \A r \in 1..2 :
               /\ \E i \in DOMAIN archive : archive[i].run = r
               /\ Revision(r).status = wruns[r].status /\ Revision(r).phase = wruns[r].phase

\* What is kept of the log are its latest records, without a gap, and each goes on where
\* the one before left off unless the renderer was reloaded; and the log stays within its
\* budget but for the files of the days since it was last enforced (enforceTotalSizeBudget, diffAndAdvanceResolutions).
LogKeepsTheLatest ==
    LET recs == {f.rec : f \in log.files}
    IN  /\ {r.n : r \in recs} = {n \in 1..log.written : n > log.written - Cardinality(recs)}
        /\ \A r, q \in recs : q.n = r.n + 1 => q.before \in {r.after, NoDot}
        /\ Cardinality(recs) <= Budget + Cardinality({f.day : f \in log.files})

\* What is on the screen, and what is kept of it, is what whisper did.
LensIsTrue == AttentionFollows /\ LensCatchesUp /\ DialogIsHonest /\ ArchiveCatchesUp
              /\ LogKeepsTheLatest
=====================================================================================
