--------------------------------- MODULE Desktop ---------------------------------
(***************************************************************************)
(* The main process beside the terminals and the peers: a plugin, the      *)
(* window with the inline editor, token usage, insights, the settings, the *)
(* saved workspaces, the review comments, the agents' bridges and the      *)
(* skills, side by side; `part` names the one that moves, the others stay  *)
(* as one of their initial states.                                         *)
(***************************************************************************)
EXTENDS Plugins, DesktopShell, Usage, Insights, Settings, WorkspaceStartup,
        ReviewComments, AgentBridges, AgentSkills

VARIABLE part

vars == <<pluginVars, shellVars, usageVars, insightsVars, settingsVars, startupVars,
          reviewVars, bridgeVars, installVars, part>>

Parts == {"plugins", "shell", "usage", "insights", "settings", "startup", "reviews",
          "bridges", "installs"}

Init ==
    /\ part \in Parts
    /\ PluginsInit /\ (part # "plugins" => config.memory /\ binary = "installed")
    /\ ShellInit /\ (part # "shell" => platform = CHOOSE p \in Platforms : TRUE)
    /\ SettingsInit /\ (part # "settings" => file.kind = "ok")
    /\ StartupInit /\ (part # "startup" => here = Trees /\ stateFile.has = Nil)
    /\ BridgesInit /\ (part # "bridges" => registered = {})
    /\ InstallInit /\ (part # "installs" => topic = "tour" /\ ~profile.saved)
    /\ UsageInit /\ InsightsInit /\ ReviewInit

Others(p) ==
    /\ p # "plugins" => UNCHANGED pluginVars
    /\ p # "shell" => UNCHANGED shellVars
    /\ p # "usage" => UNCHANGED usageVars
    /\ p # "insights" => UNCHANGED insightsVars
    /\ p # "settings" => UNCHANGED settingsVars
    /\ p # "startup" => UNCHANGED startupVars
    /\ p # "reviews" => UNCHANGED reviewVars
    /\ p # "bridges" => UNCHANGED bridgeVars
    /\ p # "installs" => UNCHANGED installVars

Next ==
    /\ \/ part = "plugins" /\ PluginsNext
       \/ part = "shell" /\ ShellNext
       \/ part = "usage" /\ UsageNext
       \/ part = "insights" /\ InsightsNext
       \/ part = "settings" /\ SettingsNext
       \/ part = "startup" /\ StartupNext
       \/ part = "reviews" /\ ReviewNext
       \/ part = "bridges" /\ BridgesNext
       \/ part = "installs" /\ InstallNext
    /\ Others(part)
    /\ UNCHANGED part

Spec == Init /\ [][Next]_vars

\* The timer of the close gate is a timer of the main process, which runs.
FairSpec ==
    /\ Spec
    /\ WF_vars(part = "shell" /\ PromptTimer /\ Others("shell") /\ UNCHANGED part)

TypeOK == /\ part \in Parts
          /\ PluginsTypeOK /\ ShellTypeOK /\ UsageTypeOK /\ InsightsTypeOK
          /\ SettingsTypeOK /\ StartupTypeOK /\ ReviewTypeOK /\ BridgesTypeOK
          /\ InstallTypeOK

\* What is on disk holds what the user set and what was saved: every settings patch arrives
\* (settings-service.ts, use-settings.tsx), and no saved session is written away while it waits
\* for its worktree or for a decision (workspace-persistence-service.ts, App.tsx).
StateIsKept == []SavedIsKept /\ SettingsAreHonest

\* The list of review comments is the same for the pane and for the agents, none vanishes
\* (review-comment-store.ts), and an agent's call about them gets its true answer
\* (ai14all-mcp-server.ts and its bridges).
ReviewsAreShared == []AgentsAreAnswered /\ ReviewsAreHonest

\* The numbers are exact and consented to: every token is counted once (sweep.ts,
\* usage-host.ts), and insights keep no span without consent and lose none in a drain
\* (insights-host.ts, insights-worker-core.ts).
TelemetryIsExact == UsageIsExact /\ InsightsAreFaithful
===================================================================================
