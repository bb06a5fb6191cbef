-------------------------------- MODULE Workbench --------------------------------
(***************************************************************************)
(* The screens of a worktree and the services behind them: what the review *)
(* panel reads of git and what it shows, the worktree dialogs, the panes   *)
(* of the terminals, the insights dashboard, code navigation and the       *)
(* workflows of whisper, side by side; `part` names the one that moves,    *)
(* the others stay as they began.                                          *)
(***************************************************************************)
EXTENDS ReviewFlow, Worktrees, TerminalPanes, InsightsDashboard, CodeNav,
        WorkflowLens, ReviewScreen

VARIABLE part

vars == <<flowVars, treeVars, paneVars, dashVars, navVars, lensVars, screenVars, part>>

Parts == {"flow", "trees", "panes", "dashboard", "nav", "lens", "screen"}

Init ==
    /\ part \in Parts
    /\ FlowInit /\ (part # "flow" => tab = "changes")
    /\ PanesInit /\ (part # "panes" => followed = "size")
    /\ DashInit /\ (part # "dashboard" => about = "notice" /\ stores.tokens = {})
    /\ NavInit /\ (part # "nav" => scope = "index" /\ cortex.tool = "ok" /\ indexed.keyed)
    /\ LensInit /\ (part # "lens" => matter = "log")
    /\ ScreenInit /\ (part # "screen" => surface = "portal")
    /\ TreesInit

Others(p) ==
    /\ p # "flow" => UNCHANGED flowVars
    /\ p # "trees" => UNCHANGED treeVars
    /\ p # "panes" => UNCHANGED paneVars
    /\ p # "dashboard" => UNCHANGED dashVars
    /\ p # "nav" => UNCHANGED navVars
    /\ p # "lens" => UNCHANGED lensVars
    /\ p # "screen" => UNCHANGED screenVars

Next ==
    /\ \/ part = "flow" /\ FlowNext
       \/ part = "trees" /\ TreesNext
       \/ part = "panes" /\ PanesNext
       \/ part = "dashboard" /\ DashNext
       \/ part = "nav" /\ NavNext
       \/ part = "lens" /\ LensNext
       \/ part = "screen" /\ ScreenNext
    /\ Others(part)
    /\ UNCHANGED part

Spec == Init /\ [][Next]_vars

TypeOK == /\ part \in Parts
          /\ FlowTypeOK /\ TreesTypeOK /\ PanesTypeOK /\ DashTypeOK /\ NavTypeOK
          /\ LensTypeOK /\ ScreenTypeOK

\* What the review panel shows is git's, as it is now, in the diff it belongs to.
ReviewIsTrue == ReviewIsCurrent /\ ScreenIsTrue

\* What was recorded is shown as it was: the figures of the dashboard, the workflows of
\* whisper with their archive and log.
RecordsAreTrue == DashboardIsHonest /\ LensIsTrue
===================================================================================
