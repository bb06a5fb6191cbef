-------------------------------- MODULE Renderer --------------------------------
(***************************************************************************)
(* The renderer: the shells of a worktree, the attention of its agents,    *)
(* their start and the workspaces, side by side; `part` names the one that *)
(* moves.                                                                  *)
(***************************************************************************)
EXTENDS TerminalRuntime, SidebarAgents, WorkspaceLifecycle

VARIABLE part

vars == <<svars, avars, launchVars, lvars, part>>

Init ==
    /\ part \in {"shells", "attention", "launch", "workspaces"}
    /\ ShellsInit /\ AttentionInit /\ LaunchInit /\ LifecycleInit
    /\ part # "shells" => flows = {}
    /\ part # "launch" => /\ at = CHOOSE w \in Trees : TRUE
                          /\ \A w \in Trees : lens[w].bound = 0
    /\ part # "workspaces" => active = Order[1]

Next ==
    /\ \/ part = "shells" /\ ShellsNext /\ UNCHANGED <<avars, launchVars, lvars>>
       \/ part = "attention" /\ AttentionNext /\ UNCHANGED <<svars, launchVars, lvars>>
       \/ part = "launch" /\ LaunchNext /\ UNCHANGED <<svars, avars, lvars>>
       \/ part = "workspaces" /\ LifecycleNext /\ UNCHANGED <<svars, avars, launchVars>>
    /\ UNCHANGED part

Spec == Init /\ [][Next]_vars

\* The main process answers every call, React renders what was dispatched and runs the
\* effect that hydrates the next workspace.
Fairness ==
    /\ WF_vars(part = "shells" /\ Render /\ UNCHANGED <<avars, launchVars, lvars, part>>)
    /\ WF_vars(part = "shells" /\ (\E f \in flows : Recreate(f) \/ Recreated(f))
                  /\ UNCHANGED <<avars, launchVars, lvars, part>>)
    /\ WF_vars(part = "workspaces" /\ Hydrate /\ UNCHANGED <<svars, avars, launchVars, part>>)
    /\ WF_vars(part = "workspaces" /\ (\E c \in calls : Hydrated(c))
                  /\ UNCHANGED <<svars, avars, launchVars, part>>)

FairSpec == Spec /\ Fairness

TypeOK == /\ part \in {"shells", "attention", "launch", "workspaces"}
          /\ ShellsTypeOK /\ AttentionTypeOK /\ LaunchTypeOK /\ LifecycleTypeOK

\* A restored shell is bound to a terminal or reported broken in the end, and every
\* workspace that stays in the sidebar ends up live or with an error the user can retry,
\* even when a hydration found nothing left to do.
RestoringFinishes ==
    /\ <>[](\A p \in DOMAIN session.procs : session.procs[p].status # "restarting")
    /\ <>[](part = "workspaces" =>
              \A w \in Known \ {active} : Live(w) \/ reg[w].err)

\* No step undoes another's work: panes keep their order, live workspaces stay live.
StepsUndoNothing == PanesKeepOrder /\ NeverDowngraded
=============================================================================
