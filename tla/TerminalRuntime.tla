-------------------------- MODULE TerminalRuntime --------------------------
(***************************************************************************)
(* The shells of one worktree, from the click to the PTY and back:         *)
(* src/src/app/hooks/use-process-actions.ts,                               *)
(* src/src/app/hooks/use-floating-shell-actions.ts,                        *)
(* src/src/app/hooks/use-terminal-runtime.ts,                              *)
(* src/src/app/hooks/use-default-shell-on-empty-worktree.ts, the handlers  *)
(* of src/src/app/App.tsx that place shells and the reconnection of        *)
(* src/src/app/hooks/use-workspace-lifecycle.ts, over the reducer of       *)
(* WorkspaceSession.                                                       *)
(*                                                                         *)
(* A handler runs to its next await in one action; what it waits for is a  *)
(* record of flows.  The session is the reducer's state as dispatch leaves *)
(* it (activeWorkspaceStateRef); seen is the binding of processes to       *)
(* terminals in the last render (appWorkspacesRef, workspaceStateRef),     *)
(* through which a terminal event finds its process.  A process has the    *)
(* number of the first terminal it was given.                              *)
(***************************************************************************)
EXTENDS WorkspaceSession

CONSTANTS MaxTerms,      \* bound: terminals ever asked for
          MaxFlows,      \* bound: handlers in flight
          Picks,         \* the layouts the user picks in the dialog
          Hasty          \* BOOLEAN: clicks while an earlier click is awaited

\* The terminals of the saved worktree are among those asked for, and an empty
\* slot is no terminal and no layout.
ASSUME ShellsAssumption ==
    /\ MaxTerms \in Nat /\ MaxTerms >= 2
    /\ MaxFloating \in Nat
    /\ Hasty \in BOOLEAN
    /\ None \notin Nat /\ None \notin LAYOUT_IDS
    /\ \A name \in Picks : name \in LAYOUT_IDS

VARIABLES session, seen, terms, flows, ensured

svars == <<session, seen, terms, flows, ensured>>

Terms == 1..MaxTerms
Bindings(s) == [p \in DOMAIN s.procs |-> s.procs[p].term]
Rendered == seen = Bindings(session)

Asked(kind, p, t, aim) == [kind |-> kind, proc |-> p, term |-> t, aim |-> aim]
Waits(kinds) == {f \in flows : f.kind \in kinds}

Fresh == {t \in Terms : terms[t] = "unborn" /\ \A u \in 1..(t - 1) : terms[u] # "unborn"}

\* The calls to the main process: terminals.create and terminals.stop.
Ask(t) == terms' = [terms EXCEPT ![t] = "asked"]
Stop(t) == terms' = IF t \in Terms /\ terms[t] = "live"
                    THEN [terms EXCEPT ![t] = "dying"] ELSE terms

Dispatch(s) == session' = s

(***************************************************************************)
(* A saved worktree comes back with its shells unbound, and a loop that    *)
(* binds them again, to the terminals that survived a reload or to new     *)
(* ones.                                                                   *)
(***************************************************************************)
Saved == {[layout |-> "3-v", slots |-> <<1, None, 2>>, active |-> 2]}

ShellsInit ==
    /\ ensured = FALSE
    /\ \/ /\ session = createSession
          /\ terms = [t \in Terms |-> "unborn"]
          /\ flows = {}
       \/ \E snap \in Saved, old \in (IF Hasty THEN BOOLEAN ELSE {FALSE}) :
             LET ids == Running(snap.slots)
             IN  /\ session = restorePersistedSession(snap, old)
                 /\ \E alive \in SUBSET Range(ids) :
                       terms = [t \in Terms |-> IF t \in alive THEN "live"
                                                ELSE IF t \in Range(ids) THEN "gone"
                                                ELSE "unborn"]
                 /\ flows = {Asked("recreate", None, None, ids)}
    /\ seen = Bindings(session)

\* Unless the user is hasty, they wait for the shell they start in a slot, and
\* leave a pane for each shell that is on its way, the first one included: one
\* that finds six panes taken is shown nowhere.
Patient == Hasty \/ Waits({"slot"}) = {}

User == Rendered /\ Patient /\ Cardinality(flows) < MaxFlows

Room == \/ Hasty
        \/ LET adds == Cardinality(Waits({"add"}))
           IN  adds < 5 /\ Len(Running(session.slots)) + adds < 6

(***************************************************************************)
(* Adding a shell, from the bar, a preset or an agent chip; into the slot  *)
(* that was clicked; or floating.                                          *)
(***************************************************************************)
AddShell ==
    /\ User
    /\ Len(Running(session.slots)) < 6
    /\ Room
    /\ \E t \in Fresh :
          /\ Ask(t)
          /\ flows' = flows \cup {Asked("add", t, t, None)}
    /\ UNCHANGED <<session, seen, ensured>>

StartShellInSlot(i) ==
    /\ User
    /\ session.slots[i] = None
    /\ Hasty \/ flows = {}
    /\ \E t \in Fresh :
          /\ Ask(t)
          /\ flows' = flows \cup {Asked("slot", t, t, <<session.layout, i>>)}
    /\ UNCHANGED <<session, seen, ensured>>

AddFloatingShell ==
    /\ User
    /\ Len(session.floating) < MaxFloating
    /\ \E t \in Fresh :
          /\ Ask(t)
          /\ flows' = flows \cup {Asked("float", t, t, None)}
    /\ UNCHANGED <<session, seen, ensured>>

\* The effect of a worktree that is selected and shows no shell.
DefaultShell ==
    /\ ~ensured
    /\ Rendered
    /\ Running(session.slots) = <<>>
    /\ Patient
    /\ ensured' = TRUE
    /\ \E t \in Fresh :
          /\ Ask(t)
          /\ flows' = flows \cup {Asked("add", t, t, None)}
    /\ UNCHANGED <<session, seen>>

\* A new terminal is there and its process takes its place; a floating shell
\* that finds the tray full is torn down again.
Landed(f) ==
    LET t == f.term
        full == Len(session.floating) >= MaxFloating
    IN  /\ terms' = [terms EXCEPT ![t] = IF f.kind = "float" /\ full
                                         THEN "dying" ELSE "live"]
        /\ Dispatch(CASE f.kind = "add" -> registerProcess(session, f.proc, t)
                      [] f.kind = "slot" -> placeProcessInNewSlot(session, f.proc, t,
                                                                 f.aim[1], f.aim[2])
                      [] f.kind = "float" -> registerFloatingShell(session, f.proc, t))

Created(f) ==
    /\ f.kind \in {"add", "slot", "float"}
    /\ terms[f.term] = "asked"
    /\ Landed(f)
    /\ flows' = flows \ {f}
    /\ UNCHANGED <<seen, ensured>>

\* terminals.create fails: nothing is dispatched.
NotCreated(f) ==
    /\ f.kind \in {"add", "slot", "float"}
    /\ terms' = [terms EXCEPT ![f.term] = "gone"]
    /\ flows' = flows \ {f}
    /\ UNCHANGED <<session, seen, ensured>>

(***************************************************************************)
(* Closing, stopping and restarting.  Unless the user is hasty, a shell    *)
(* that a handler is at work on is left alone.                             *)
(***************************************************************************)
Settled(p) == Hasty \/ \A f \in flows : f.proc # p /\ f.kind # "recreate"

Closed(p, kind) == IF kind = "close" THEN closeProcess(session, p)
                   ELSE closeFloatingShell(session, p)

CloseShell(p, kind) ==
    /\ User
    /\ (kind = "closeFloat") = Held(session, p)
    /\ Settled(p)
    /\ LET t == seen[p]
       IN  IF t # None /\ terms[t] = "live"
           THEN /\ Stop(t)
                /\ flows' = flows \cup {Asked(kind, p, t, None)}
                /\ UNCHANGED session
           ELSE /\ Dispatch(Closed(p, kind))
                /\ UNCHANGED <<terms, flows>>
    /\ UNCHANGED <<seen, ensured>>

StopShell(p) ==
    /\ User
    /\ Settled(p)
    /\ seen[p] # None
    /\ Stop(seen[p])
    /\ UNCHANGED <<session, seen, flows, ensured>>

RestartShell(p) ==
    /\ User
    /\ Settled(p)
    /\ Stop(seen[p])
    /\ flows' = flows \cup {Asked("restart", p, None, None)}
    /\ UNCHANGED <<session, seen, ensured>>

\* The stop was answered: close the pane, or ask for the next terminal.
Stopped(f) ==
    \/ /\ f.kind \in {"close", "closeFloat"}
       /\ Dispatch(Closed(f.proc, f.kind))
       /\ flows' = flows \ {f}
       /\ UNCHANGED <<seen, terms, ensured>>
    \/ /\ f.kind = "restart" /\ f.term = None
       /\ \/ \E t \in Fresh :
                /\ Ask(t)
                /\ flows' = (flows \ {f}) \cup {[f EXCEPT !.term = t]}
          \/ flows' = flows \ {f} /\ UNCHANGED terms        \* it fails
       /\ UNCHANGED <<session, seen, ensured>>

\* The process as it is once bound to t.
Rebound(p, t, status) ==
    updateProcessStatus(replaceProcessTerminal(session, p, t), p, status, None)

Restarted(f) ==
    /\ f.kind = "restart" /\ f.term # None
    /\ flows' = flows \ {f}
    /\ terms' = [terms EXCEPT ![f.term] = "live"]
    /\ Dispatch(Rebound(f.proc, f.term, "running"))
    /\ UNCHANGED <<seen, ensured>>

\* recreatePersistedProcesses takes the next shell of its list: it adopts the
\* terminal that is still there, asks for a new one or finds it cannot be made.
Recreate(f) ==
    /\ f.kind = "recreate" /\ f.term = None /\ f.aim # <<>>
    /\ LET p == Head(f.aim)
           done == (flows \ {f}) \cup {[f EXCEPT !.aim = Tail(@)]}
       IN  IF terms[p] = "live"
           THEN /\ Dispatch(Rebound(p, p, "running"))
                /\ flows' = done
                /\ UNCHANGED terms
           ELSE \/ \E t \in Fresh :
                      /\ Ask(t)
                      /\ flows' = (flows \ {f}) \cup {[f EXCEPT !.term = t]}
                      /\ UNCHANGED session
                \/ /\ Dispatch(updateProcessStatus(session, p, "error", None))
                   /\ flows' = done
                   /\ UNCHANGED terms
    /\ UNCHANGED <<seen, ensured>>

Recreated(f) ==
    /\ f.kind = "recreate" /\ f.term # None
    /\ flows' = (flows \ {f}) \cup {[f EXCEPT !.term = None, !.aim = Tail(@)]}
    /\ terms' = [terms EXCEPT ![f.term] = "live"]
    /\ Dispatch(Rebound(Head(f.aim), f.term, "running"))
    /\ UNCHANGED <<seen, ensured>>

\* The loop is through its list.
AllRecreated(f) ==
    /\ f.kind = "recreate" /\ f.aim = <<>>
    /\ flows' = flows \ {f}
    /\ UNCHANGED <<session, seen, terms, ensured>>

(***************************************************************************)
(* Panes move without a terminal being touched.                            *)
(***************************************************************************)
PickLayout(name) ==
    /\ User
    /\ SlotCount(name) >= Len(Running(session.slots))
    /\ Dispatch(setTerminalLayout(session, name))
    /\ UNCHANGED <<seen, terms, flows, ensured>>

PromoteSlot(i) ==
    /\ User
    /\ i # 1
    /\ Dispatch(swapTerminalSlots(session, i, 1))
    /\ UNCHANGED <<seen, terms, flows, ensured>>

PinFloatingShell(p) ==
    /\ User
    /\ Len(Running(session.slots)) < 6
    /\ Room
    /\ session.procs[p].status = "running"
    /\ Dispatch(pinFloatingShellToSlot(session, p))
    /\ UNCHANGED <<seen, terms, flows, ensured>>

SelectProcess(p) ==
    /\ User
    /\ p \in Range(session.slots)
    /\ session.active # p
    /\ Dispatch([session EXCEPT !.active = p])
    /\ UNCHANGED <<seen, terms, flows, ensured>>

\* A terminal ends, killed or by itself (or it reports an error, which is
\* handled alike); its process is the one the last render bound to it.
TerminalEnds(t) ==
    LET found == {p \in DOMAIN seen : seen[p] = t}
    IN  /\ terms[t] \in {"live", "dying"}
        /\ terms' = [terms EXCEPT ![t] = "gone"]
        /\ Dispatch(IF found = {} THEN session
                    ELSE updateProcessStatus(session, CHOOSE p \in found : TRUE, "exited", t))
        /\ UNCHANGED <<seen, flows, ensured>>

Render ==
    /\ ~Rendered
    /\ seen' = Bindings(session)
    /\ UNCHANGED <<session, terms, flows, ensured>>

Answer(f) == \/ Created(f) \/ Stopped(f) \/ Restarted(f)
             \/ Recreate(f) \/ Recreated(f) \/ AllRecreated(f)

ShellsNext ==
    \/ AddShell \/ AddFloatingShell \/ DefaultShell \/ Render
    \/ \E i \in DOMAIN session.slots : StartShellInSlot(i) \/ PromoteSlot(i)
    \/ \E f \in flows : Answer(f) \/ NotCreated(f)
    \/ \E p \in DOMAIN session.procs :
          \/ \E kind \in {"close", "closeFloat"} : CloseShell(p, kind)
          \/ StopShell(p) \/ RestartShell(p)
          \/ PinFloatingShell(p) \/ SelectProcess(p)
    \/ \E name \in Picks : PickLayout(name)
    \/ \E t \in Terms : TerminalEnds(t)

-----------------------------------------------------------------------------
Procs == DOMAIN session.procs

ShellsTypeOK ==
    /\ session.layout \in LAYOUT_IDS
    /\ Len(session.slots) = SlotCount(session.layout)
    /\ Procs \subseteq Terms /\ DOMAIN seen \subseteq Terms
    /\ \A p \in Procs : /\ session.procs[p].term \in Terms \cup {None}
                        /\ session.procs[p].status
                             \in {"running", "restarting", "exited", "error"}
    /\ Range(session.slots) \subseteq Terms \cup {None}
    /\ Len(session.floating) <= MaxFloating
    /\ terms \in [Terms -> {"unborn", "asked", "live", "dying", "gone"}]
    /\ ensured \in BOOLEAN

\* Every process the session tracks is in exactly one pane or in the tray of
\* floating shells, and the pane that has the focus holds one: no shell runs
\* where the user cannot see it (workspace-state.ts, "overwriting and
\* orphaning its running process").
EveryShellHasAPane ==
    /\ Procs = (Range(session.slots) \ {None}) \cup Range(session.floating)
    /\ Len(Running(session.slots)) + Len(session.floating) = Cardinality(Procs)
    /\ session.active \in Range(session.slots)

\* A process shown as ended has no terminal that runs: the exit of the
\* terminal a restart replaced is never taken for the new one's.
EndedIsOver ==
    \A p \in Procs : session.procs[p].status \in {"exited", "error"} =>
        session.procs[p].term = None \/ terms[session.procs[p].term] \in {"gone", "dying"}

\* Every terminal the main process runs belongs to a shell the user can reach
\* or to a handler that is about to place it.
EveryTerminalIsReachable ==
    \A t \in Terms : terms[t] = "live" =>
        \/ \E p \in Procs : session.procs[p].term = t
        \/ \E f \in flows : f.kind = "recreate" /\ t \in Range(f.aim)

\* No shell runs where the user cannot reach it, and none is shown as ended while it runs.
ShellsAreReachable == EveryShellHasAPane /\ EndedIsOver /\ EveryTerminalIsReachable

\* Closing a pane closes the gap and keeps the others in their order; no
\* other step moves a shell that stays past another one, but the promotion.
Before(slots, p, q) == \E i, j \in DOMAIN slots : i < j /\ slots[i] = p /\ slots[j] = q

PanesKeepOrder ==
    [][\/ \E i \in DOMAIN session.slots : PromoteSlot(i)
       \/ LET stay == (Range(session.slots) \cap Range(session'.slots)) \ {None}
          IN  \A p, q \in stay : Before(session.slots, p, q) => Before(session'.slots, p, q)]_svars
=============================================================================
