---------------------------- MODULE WorkspaceStartup ----------------------------
(***************************************************************************)
(* The saved workspaces at startup: what the file says, what the user      *)
(* decides, and what is written back from then on.                         *)
(* src/src/app/hooks/use-startup-restore.ts, restoreWorkspace,             *)
(* handleRestoreDecision and handleLoadPath of                             *)
(* src/src/app/hooks/use-workspace-lifecycle.ts, the persisted state of    *)
(* src/src/app/App.tsx, use-workspace-persistence.ts,                      *)
(* src/src/features/workspace/logic/workspace-persistence.ts and           *)
(* src/services/workspace/workspace-persistence-service.ts.                *)
(*                                                                         *)
(* Two repositories, each with the worktrees of Trees; `here` holds those  *)
(* that still exist.  A workspace is worth the worktrees it keeps a        *)
(* session of: open ones hold sessions brought back or begun, a dormant    *)
(* one the sessions of its saved entry, and pend those that wait for the   *)
(* first visit of their worktree.  `boot` and `phase` are auxiliary: what  *)
(* the file held when it was read, and what became of it.                  *)
(***************************************************************************)
EXTENDS Naturals, Sequences

CONSTANTS Repos,       \* the repositories
          Trees,       \* their worktrees
          Chosen,      \* the worktree that was selected
          NoRepo,      \* no repository, no snapshot
          MaxQueue,    \* bound: writes under way
          Reopens      \* BOOLEAN: the picker loads a repository of the sidebar

ASSUME ChosenAssumption == Chosen \in Trees
ASSUME NoRepoAssumption ==
    /\ NoRepo \notin Repos
    /\ NoRepo \notin [repo : Repos, trees : SUBSET Trees]
    /\ NoRepo \notin [live : BOOLEAN, trees : SUBSET Trees]

VARIABLES stateFile,        \* [active, has]: the file; has: repository -> sessions
          stateWrites,       \* writeChain: what is to be written
          mode,        \* startupMode
          first,       \* savedSnapshot: [repo, trees] or NoRepo
          rest,        \* savedDormantWorkspaces: repository -> sessions
          sidebar,     \* repository -> NoRepo or [live, trees]
          pend,        \* pendingRestoreSessions: repository -> worktrees
          activeRepo,  \* activeWorkspaceId
          loadingRepo,     \* repositories the picker is loading
          pushed,      \* what the persist effect wrote last
          here, shells, boot, phase

startupVars == <<stateFile, stateWrites, mode, first, rest, sidebar, pend, activeRepo, loadingRepo, pushed,
                 here, shells, boot, phase>>

Nil == [r \in Repos |-> {}]
Shut == [r \in Repos |-> NoRepo]
Live(trees) == [live |-> TRUE, trees |-> trees]
Dormant(trees) == [live |-> FALSE, trees |-> trees]
Open == {r \in Repos : sidebar[r] # NoRepo}
IsLive(r) == r \in Open /\ sidebar[r].live

Page(m, f, d, s, p, a) ==
    /\ mode' = m /\ first' = f /\ rest' = d /\ sidebar' = s /\ pend' = p /\ activeRepo' = a

StartupInit ==
    /\ \E has \in [Repos -> {{}, Trees}], a \in Repos :
         stateFile = [active |-> IF has[a] = {} THEN NoRepo ELSE a, has |-> has]
    /\ stateWrites = <<>>
    /\ mode = "loading" /\ first = NoRepo /\ rest = Nil
    /\ sidebar = Shut /\ pend = Nil /\ activeRepo = NoRepo
    /\ loadingRepo = {} /\ pushed = NoRepo
    /\ here \in {Trees, Trees \ {Chosen}}
    /\ shells = FALSE /\ boot = Nil /\ phase = "unread"

-----------------------------------------------------------------------------
(* The file is read.                                                         *)

Held == {r \in Repos : stateFile.has[r] # {}}

\* The workspace that was active, or the first one.
Picked == IF stateFile.active # NoRepo THEN stateFile.active
          ELSE IF Held = {} THEN NoRepo ELSE CHOOSE r \in Held : TRUE

\* readRestoreState answers: the user is asked, unless they said always or never before,
\* there is nothing to restore, or the terminals of a reload are still running; "restoring"
\* says that restoreWorkspace is on its way.
ReadState(pref) ==
    /\ mode = "loading"
    /\ boot' = stateFile.has
    /\ LET m == IF Picked = NoRepo \/ pref = "alwaysStartClean" THEN "ready"
                ELSE IF pref = "alwaysRestore" \/ shells THEN "restoring" ELSE "prompt"
       IN /\ phase' = IF m = "ready" THEN "declined" ELSE "undecided"
          /\ Page(m, IF Picked = NoRepo THEN NoRepo
                     ELSE [repo |-> Picked, trees |-> stateFile.has[Picked]],
                  [r \in Repos |-> IF r = Picked THEN {} ELSE stateFile.has[r]],
                  sidebar, pend, activeRepo)
    /\ UNCHANGED <<stateFile, stateWrites, loadingRepo, pushed, here, shells>>

-----------------------------------------------------------------------------
(* Writes.                                                                   *)

\* mergePendingIntoSaved and buildSavedWorkspace over the registry.
Kept(s, p) == [r \in Repos |-> IF s[r] = NoRepo THEN {} ELSE s[r].trees \cup p[r]]

Fallback(f) == [r \in Repos |-> IF f # NoRepo /\ r = f.repo THEN f.trees ELSE {}]

\* persistableStateV2.
Persistable == [active |-> activeRepo,
                has |-> IF Open = {} THEN Fallback(first) ELSE Kept(sidebar, pend)]

\* The effect of useWorkspacePersistence, once startup is over and for every change.
EffectDue == mode = "ready" /\ pushed # Persistable

PersistEffect ==
    /\ EffectDue
    /\ Len(stateWrites) < MaxQueue
    /\ stateWrites' = Append(stateWrites, Persistable)
    /\ pushed' = Persistable
    /\ UNCHANGED <<stateFile, mode, first, rest, sidebar, pend, activeRepo, loadingRepo, here, shells,
                   boot, phase>>

\* doWriteState: the file is replaced whole, or stays; the next write goes ahead.
Written(kept) ==
    /\ stateWrites # <<>>
    /\ stateFile' = IF kept THEN Head(stateWrites) ELSE stateFile
    /\ stateWrites' = Tail(stateWrites)
    /\ UNCHANGED <<mode, first, rest, sidebar, pend, activeRepo, loadingRepo, pushed, here, shells,
                   boot, phase>>

WriteFallback(f) == stateWrites' = Append(stateWrites, [active |-> NoRepo, has |-> Fallback(f)])

-----------------------------------------------------------------------------
(* The decision.                                                             *)

StartClean ==
    /\ mode = "prompt"
    /\ WriteFallback(first)
    /\ mode' = "cleaning" /\ phase' = "declined"
    /\ UNCHANGED <<stateFile, first, rest, sidebar, pend, activeRepo, loadingRepo, pushed, here, shells,
                   boot>>

\* handleRestoreDecision after its await: the fallback is written, or could not be (then
\* startup never ends, and the user answers again).
Cleaned(kept) ==
    /\ mode = "cleaning" /\ Len(stateWrites) = 1
    /\ stateFile' = IF kept THEN Head(stateWrites) ELSE stateFile
    /\ stateWrites' = <<>>
    /\ mode' = IF kept THEN "ready" ELSE "prompt"
    /\ UNCHANGED <<first, rest, sidebar, pend, activeRepo, loadingRepo, pushed, here, shells, boot,
                   phase>>

Agree ==
    /\ mode = "prompt"
    /\ mode' = "restoring" /\ phase' = "undecided"
    /\ UNCHANGED <<stateFile, stateWrites, first, rest, sidebar, pend, activeRepo, loadingRepo, pushed, here,
                   shells, boot>>

\* workspace/restoreSnapshot fills the selected worktree, if it is still there.
Filled(trees) == {Chosen} \cap trees \cap here

\* splitPendingRestores, and the selected session when its worktree is gone.
LeftWaiting(trees) == trees \ Filled(trees)

RestoreSucceeds ==
    /\ mode = "restoring"
    /\ LET r == first.repo
       IN Page("ready", first, rest,
               [q \in Repos |-> IF q = r THEN Live(Filled(first.trees))
                                ELSE IF rest[q] # {} THEN Dormant(rest[q]) ELSE sidebar[q]],
               [q \in Repos |-> IF q = r THEN LeftWaiting(first.trees) ELSE {}],
               r)
    /\ shells' = TRUE /\ phase' = "restored"
    /\ UNCHANGED <<stateFile, stateWrites, loadingRepo, pushed, here, boot>>

\* openRepository or listWorktrees throws: the snapshot is written as the fallback.
RestoreFails ==
    /\ mode = "restoring"
    /\ WriteFallback(first)
    /\ mode' = "ready" /\ phase' = "declined"
    /\ UNCHANGED <<stateFile, first, rest, sidebar, pend, activeRepo, loadingRepo, pushed, here, shells,
                   boot>>

-----------------------------------------------------------------------------
(* The picker, and work.                                                     *)

LoadPath(r) ==
    /\ mode = "ready"
    /\ loadingRepo = {}
    /\ Reopens \/ r \notin Open
    /\ loadingRepo' = {r}
    /\ UNCHANGED <<stateFile, stateWrites, mode, first, rest, sidebar, pend, activeRepo, pushed, here,
                   shells, boot, phase>>

\* openRepository rejects.
LoadRejected(r) ==
    /\ r \in loadingRepo
    /\ loadingRepo' = {}
    /\ UNCHANGED <<stateFile, stateWrites, mode, first, rest, sidebar, pend, activeRepo, pushed, here,
                   shells, boot, phase>>

\* It is the one of the snapshot, wherever it lies now: paths and comments are rebased.
Reattached(r) ==
    Page(mode, first, rest, [sidebar EXCEPT ![r] = Live(Filled(first.trees))],
         [pend EXCEPT ![r] = LeftWaiting(first.trees)], r)

\* It is loaded as new, over the state it has.
LoadedAsNew(r) ==
    Page(mode, first, rest,
         [sidebar EXCEPT ![r] = Live(IF IsLive(r) THEN sidebar[r].trees ELSE {})],
         [pend EXCEPT ![r] = {}], r)

\* handleLoadPath once the repository is open; the one that is active stays as it is.
Loaded(r) ==
    /\ r \in loadingRepo
    /\ loadingRepo' = {}
    /\ \/ /\ r = activeRepo /\ r \in Open
          /\ UNCHANGED <<mode, first, rest, sidebar, pend, activeRepo, shells>>
       \/ /\ r # activeRepo \/ r \notin Open
          /\ shells' = TRUE
          /\ IF first # NoRepo /\ first.repo = r THEN Reattached(r) ELSE LoadedAsNew(r)
    /\ UNCHANGED <<stateFile, stateWrites, pushed, here, boot, phase>>

\* A worktree of the active workspace is visited: its session is brought back or begun.
Visit(t) ==
    /\ activeRepo # NoRepo /\ IsLive(activeRepo)
    /\ t \in here
    /\ sidebar' = [sidebar EXCEPT ![activeRepo].trees = @ \cup {t}]
    /\ pend' = [pend EXCEPT ![activeRepo] = @ \ {t}]
    /\ UNCHANGED <<stateFile, stateWrites, mode, first, rest, activeRepo, loadingRepo, pushed, here, shells,
                   boot, phase>>

\* The window is loaded again, with nothing left to write, or the application ends and
\* its writes with it.
Restart(reload) ==
    /\ Page("loading", NoRepo, Nil, Shut, Nil, NoRepo)
    /\ loadingRepo' = {} /\ pushed' = NoRepo
    /\ reload => stateWrites = <<>>
    /\ shells' = (reload /\ shells)
    /\ stateWrites' = <<>>
    /\ phase' = "unread"
    /\ UNCHANGED <<stateFile, here, boot>>

StartupNext ==
    \/ \E pref \in {"prompt", "alwaysRestore", "alwaysStartClean"} : ReadState(pref)
    \/ StartClean \/ Agree \/ RestoreSucceeds \/ RestoreFails
    \/ PersistEffect
    \/ \E kept \in BOOLEAN : Cleaned(kept) \/ (mode # "cleaning" /\ Written(kept))
    \/ \E r \in Repos : LoadPath(r) \/ LoadRejected(r) \/ Loaded(r)
    \/ \E t \in Trees : Visit(t)
    \/ \E reload \in BOOLEAN : Restart(reload)

-----------------------------------------------------------------------------
Sessions == [Repos -> SUBSET Trees]
StateFiles == [active : Repos \cup {NoRepo}, has : Sessions]

StartupTypeOK ==
    /\ stateFile \in StateFiles
    /\ \A i \in DOMAIN stateWrites : stateWrites[i] \in StateFiles
    /\ mode \in {"loading", "prompt", "cleaning", "restoring", "ready"}
    /\ first \in {NoRepo} \cup [repo : Repos, trees : SUBSET Trees]
    /\ rest \in Sessions /\ pend \in Sessions /\ boot \in Sessions
    /\ sidebar \in [Repos -> {NoRepo} \cup [live : BOOLEAN, trees : SUBSET Trees]]
    /\ activeRepo \in Repos \cup {NoRepo}
    /\ phase \in {"unread", "undecided", "declined", "restored"}

\* The file is not touched before the user, or their preference, has decided what becomes
\* of what is in it.
NothingBeforeDecision == phase = "undecided" => stateWrites = <<>> /\ stateFile.has = boot

\* Once the workspaces are back, no session the file held at startup is written away,
\* whether its worktree was visited, still waits or is gone (use-workspace-lifecycle.ts,
\* "Without this the session is permanently lost after the first write").
RestoredIsKept ==
    phase = "restored" => \A r \in Repos : /\ boot[r] \subseteq stateFile.has[r]
                                           /\ boot[r] \subseteq Kept(sidebar, pend)[r]

\* When they are not, the snapshot of the one that was active stays as long as nothing is
\* loaded (App.tsx, "preserve the snapshot so it survives the next launch").
DeclinedIsKept ==
    phase = "declined" /\ Open = {} /\ first # NoRepo => first.trees \subseteq stateFile.has[first.repo]

SavedIsKept == NothingBeforeDecision /\ RestoredIsKept /\ DeclinedIsKept
=================================================================================
