------------------------- MODULE WorkspaceLifecycle -------------------------
(***************************************************************************)
(* The workspaces of the renderer: restored, hydrated in the background,   *)
(* activated, refreshed, removed and written back to disk.                 *)
(* src/src/app/hooks/use-workspace-lifecycle.ts, use-active-workspace.ts,  *)
(* use-worktree-selection.ts, use-background-hydration.ts,                 *)
(* use-workspace-removal.ts, src/src/features/workspace/logic/             *)
(* app-workspaces-state.ts, background-hydration.ts,                       *)
(* workspace-persistence.ts, and refreshWorktreeInventory and the          *)
(* persisted state of src/src/app/App.tsx.                                 *)
(*                                                                         *)
(* A workspace has the worktrees 1 and 2, both with a saved session; 1 is  *)
(* the one selected when it was saved.  A live state says whose worktrees  *)
(* it holds, which is selected and what the session of each is: blank, as  *)
(* it was saved (its shells not bound yet), or in use.  React renders      *)
(* after every step.                                                       *)
(***************************************************************************)
EXTENDS Naturals, SequencesExt

CONSTANTS Order,         \* the saved workspaces, in the order of the sidebar
          Nobody,        \* no workspace, no state
          Overlap,       \* BOOLEAN: clicks while a call of the last is awaited
          Noisy,         \* bound: the workspaces whose shells have output while inactive
          Stale          \* BOOLEAN: events of inactive workspaces find an old shadow

VARIABLES reg,           \* workspacesById: known, live (workspaceState), err (loadError)
          active,        \* activeWorkspaceId
          shadow,        \* prevActiveWorkspaceIdRef and activeWorkspaceStateRef
          inactive,      \* inactiveWorkspaceStatesRef
          pending,       \* pendingRestoreSessions: <<workspace, worktree>>
          calls          \* handlers that await the main process

lvars == <<reg, active, shadow, inactive, pending, calls>>

Workspaces == Range(Order)
ASSUME NoisyAssumption == Noisy \subseteq Workspaces
Worktrees == {1, 2}
States == [own : Workspaces, sel : Worktrees,
           at : [Worktrees -> {"blank", "saved", "used"}]]
ASSUME NobodyAssumption == Nobody \notin States
Known == {w \in Workspaces : reg[w].known}
Live(w) == reg[w].live # Nobody

Blank(w) == [own |-> w, sel |-> 1, at |-> <<"blank", "blank">>]
\* workspace/restoreSnapshot fills the selected worktree only.
Restored(w) == [Blank(w) EXCEPT !.at[1] = "saved"]
Dormant == [known |-> TRUE, live |-> Nobody, err |-> FALSE]
LiveWith(st) == [known |-> TRUE, live |-> st, err |-> FALSE]

\* A handler at its await: then is the click on a worktree that waits for it,
\* with what that click saw of pending; local is a shadow of its own.
Call(kind, w, then, mine) == [kind |-> kind, ws |-> w, wt |-> 1, then |-> then, local |-> mine]
Recreating(w, i) == [Call("recreate", w, Nobody, Nobody) EXCEPT !.wt = i]

\* Mutant: the pending sessions are replaced as a whole.
RependAll(w, mine) == {<<w, i>> : i \in mine}

\* Other workspaces keep their pending sessions, w's are replaced.
Repend(w, mine) == {p \in pending : p[1] # w} \cup {<<w, i>> : i \in mine}

(***************************************************************************)
(* restoreWorkspace has brought back the active workspace and registered   *)
(* the others as dormant; the shells of the selected worktree are on their *)
(* way.                                                                    *)
(***************************************************************************)
LifecycleInit ==
    \E w \in Workspaces :
        /\ active = w
        /\ reg = [v \in Workspaces |-> IF v = w THEN LiveWith(Restored(w)) ELSE Dormant]
        /\ shadow = [ws |-> w, st |-> Restored(w)]
        /\ inactive = [v \in Workspaces |-> Nobody]
        /\ pending = {<<w, 2>>}
        /\ calls = {Recreating(w, 1)}

\* dispatch: the next state of the shadow goes to the workspace it is for.
Dispatched(sh, r, st) ==
    /\ shadow' = [sh EXCEPT !.st = st]
    /\ reg' = IF r[sh.ws].known THEN [r EXCEPT ![sh.ws].live = st] ELSE r

Bound(st, w, i) == IF st.own = w /\ st.at[i] = "saved" THEN [st EXCEPT !.at[i] = "used"]
                   ELSE st

(***************************************************************************)
(* handleSelectWorktree for worktree i of w, with the pending sessions of  *)
(* the render the click belongs to, over the shadow sh and registry r.     *)
(***************************************************************************)
SelectWorktree(w, i, clicked, sh, r, others) ==
    LET fires == <<w, i>> \in clicked
        st == [sh.st EXCEPT !.sel = i,
                 !.at[i] = IF fires /\ sh.st.own = w THEN "saved" ELSE @]
    IN  /\ Dispatched(sh, r, st)
        /\ pending' = IF fires THEN pending \ {<<w, i>>} ELSE pending
        /\ calls' = others \cup (IF fires THEN {Recreating(w, i)} ELSE {})

Calm == Overlap \/ \A c \in calls : c.kind = "hydrate"

\* activateWorkspace of a live workspace, and of a dormant one.
ClickWorktree(w, i) ==
    /\ Calm
    /\ w \in Known
    /\ IF w = active
       THEN /\ Live(w)
            /\ SelectWorktree(w, i, pending, shadow, reg, calls)
            /\ UNCHANGED active
       ELSE IF Live(w)
       THEN /\ active' = w
            /\ SelectWorktree(w, i, pending, [ws |-> w, st |-> reg[w].live], reg, calls)
       ELSE /\ calls' = calls \cup {Call("activate", w, <<i, pending \cap {<<w, i>>}>>, Nobody)}
            /\ UNCHANGED <<reg, active, shadow, pending>>
    /\ UNCHANGED inactive

ClickWorkspace(w) ==
    /\ Calm
    /\ w \in Known
    /\ IF Live(w)
       THEN active' = w /\ shadow' = [ws |-> w, st |-> reg[w].live] /\ UNCHANGED calls
       ELSE /\ calls' = calls \cup {Call("activate", w, Nobody, Nobody)}
            /\ UNCHANGED <<active, shadow>>
    /\ UNCHANGED <<reg, inactive, pending>>

\* The dormant workspace was opened and its worktrees listed: it is registered
\* and selected, and the shells of its saved selection are recreated over a
\* shadow of their own.
Activated(c) ==
    /\ c.kind = "activate"
    /\ reg' = [reg EXCEPT ![c.ws] = LiveWith(Restored(c.ws))]
    /\ active' = c.ws
    /\ shadow' = [ws |-> c.ws, st |-> Restored(c.ws)]
    /\ pending' = Repend(c.ws, {2})
    /\ calls' = (calls \ {c}) \cup {Call("recreate", c.ws, c.then, Restored(c.ws))}
    /\ UNCHANGED inactive

CallFails(c) ==
    /\ c.kind = "activate"
    /\ calls' = calls \ {c}
    /\ UNCHANGED <<reg, active, shadow, inactive, pending>>

\* recreatePersistedProcesses bound the shells of a worktree.
ShellsBound(c) ==
    /\ c.kind = "recreate" /\ c.local = Nobody
    /\ Dispatched(shadow, reg, Bound(shadow.st, c.ws, c.wt))
    /\ calls' = calls \ {c}
    /\ UNCHANGED <<active, inactive, pending>>

\* The same inside activateWorkspace, which the click that caused it awaits.
ShellsBoundScoped(c) ==
    /\ c.kind = "recreate" /\ c.local # Nobody
    /\ LET r == IF reg[c.ws].known
                THEN [reg EXCEPT ![c.ws].live = Bound(c.local, c.ws, c.wt)] ELSE reg
       IN  IF c.then = Nobody
           THEN reg' = r /\ calls' = calls \ {c} /\ UNCHANGED <<shadow, pending>>
           ELSE SelectWorktree(c.ws, c.then[1], c.then[2], shadow, r, calls \ {c})
    /\ UNCHANGED <<active, inactive>>

(***************************************************************************)
(* Background hydration: one workspace at a time, picked from the present  *)
(* registry.                                                               *)
(***************************************************************************)
pickNextHydration ==
    LET due == {i \in DOMAIN Order : LET w == Order[i]
                                     IN  w # active /\ reg[w].known /\ ~Live(w) /\ ~reg[w].err}
    IN  {Order[i] : i \in {j \in due : \A k \in due : j <= k}}

Hydrate ==
    /\ \A c \in calls : c.kind # "hydrate"
    /\ \E w \in pickNextHydration :
          calls' = calls \cup {Call("hydrate", w, Nobody, Nobody)}
    /\ UNCHANGED <<reg, active, shadow, inactive, pending>>

\* Mutant: the pass that finds the workspace live forgets to go on.
HydratedStuck(c) ==
    /\ c.kind = "hydrate" /\ ~Live(c.ws)
    /\ calls' = calls \ {c}
    /\ reg' = [reg EXCEPT ![c.ws] = LiveWith(Restored(c.ws))]
    /\ pending' = pending \cup {<<c.ws, i>> : i \in Worktrees}
    /\ UNCHANGED <<active, shadow, inactive>>

\* A workspace the user activated meanwhile is left alone; the queue goes on.
Hydrated(c) ==
    /\ c.kind = "hydrate"
    /\ calls' = calls \ {c}
    /\ IF Live(c.ws) THEN UNCHANGED <<reg, pending>>
       ELSE /\ reg' = [reg EXCEPT ![c.ws] = LiveWith(Restored(c.ws))]
            /\ pending' = pending \cup {<<c.ws, i>> : i \in Worktrees}
    /\ UNCHANGED <<active, shadow, inactive>>

HydrationFails(c) ==
    /\ c.kind = "hydrate"
    /\ calls' = calls \ {c}
    /\ reg' = IF Live(c.ws) THEN reg ELSE [reg EXCEPT ![c.ws] = [Dormant EXCEPT !.err = TRUE]]
    /\ UNCHANGED <<active, shadow, inactive, pending>>

(***************************************************************************)
(* What happens to live workspaces.                                        *)
(***************************************************************************)
\* A shell is added to the selected worktree: createScopedWorkspaceDispatch.
UseWorktree ==
    /\ Calm
    /\ shadow.ws = active /\ Live(active) /\ shadow.st.own = active
    /\ shadow.st.at[shadow.st.sel] = "blank"
    /\ Dispatched(shadow, reg, [shadow.st EXCEPT !.at[shadow.st.sel] = "used"])
    /\ inactive' = [inactive EXCEPT ![active] = Nobody]
    /\ UNCHANGED <<active, pending, calls>>

\* applyActionForOwner for a workspace that is not active.
BackgroundEvent(w) ==
    LET base == IF inactive[w] # Nobody THEN inactive[w] ELSE reg[w].live
    IN  /\ Stale \/ base = reg[w].live
        /\ w \in Known \cap Noisy /\ w # active /\ Live(w)
        /\ \E i \in Worktrees : reg[w].live.at[i] = "used"
        /\ inactive' = [inactive EXCEPT ![w] = base]
        /\ reg' = [reg EXCEPT ![w].live = base]
        /\ UNCHANGED <<active, shadow, pending, calls>>

RefreshWorktrees ==
    /\ Live(active)
    /\ \A c \in calls : c.kind # "refresh"
    /\ Overlap \/ calls = {}
    /\ calls' = calls \cup {Call("refresh", active, Nobody, Nobody)}
    /\ UNCHANGED <<reg, active, shadow, inactive, pending>>

\* The answer is reconciled with the state that is rendered now and
\* registered for the workspace the refresh was started for.
Refreshed(c) ==
    LET now == reg[active].live
        st == IF now = Nobody \/ now.own # c.ws THEN Blank(c.ws) ELSE now
    IN  /\ c.kind = "refresh"
        /\ reg' = [reg EXCEPT ![c.ws].live = st, ![c.ws].known = TRUE]
        /\ shadow' = [shadow EXCEPT !.st = st]
        /\ calls' = calls \ {c}
        /\ UNCHANGED <<active, inactive, pending>>

\* Only a workspace that is not active is removed here; its pending sessions
\* stay in the map.
RemoveWorkspace(w) ==
    /\ Calm
    /\ w \in Known /\ w # active
    /\ reg' = [reg EXCEPT ![w].known = FALSE, ![w].live = Nobody]
    /\ UNCHANGED <<active, shadow, inactive, pending, calls>>

Answered(c) == Activated(c) \/ ShellsBound(c) \/ ShellsBoundScoped(c) \/ Refreshed(c)

LifecycleNext ==
    \/ \E w \in Workspaces :
          \/ \E i \in Worktrees : ClickWorktree(w, i)
          \/ ClickWorkspace(w) \/ BackgroundEvent(w) \/ RemoveWorkspace(w)
    \/ \E c \in calls : Answered(c) \/ CallFails(c) \/ Hydrated(c) \/ HydrationFails(c)
    \/ Hydrate \/ UseWorktree \/ RefreshWorktrees

-----------------------------------------------------------------------------
LifecycleTypeOK ==
    /\ active \in Known
    /\ reg \in [Workspaces -> [known : BOOLEAN, live : States \cup {Nobody}, err : BOOLEAN]]
    /\ shadow \in [ws : Workspaces, st : States]
    /\ inactive \in [Workspaces -> States \cup {Nobody}]
    /\ pending \subseteq Workspaces \X Worktrees

\* What the next write makes of the session of worktree i: the pending copy,
\* else what the workspace holds; a dormant workspace keeps what was saved.
Persisted(w, i) ==
    IF <<w, i>> \in pending \/ ~Live(w) THEN "saved"
    ELSE IF reg[w].live.own = w THEN reg[w].live.at[i] ELSE "blank"

\* No write loses a saved session the user has not opened: whatever order
\* hydration, activation, failures and visits come in, every session of every
\* workspace is in the file, as it was saved or as it is used.
NothingSavedIsLost ==
    \A w \in Known, i \in Worktrees : Persisted(w, i) # "blank"

\* A workspace that is live stays live until it is removed: a hydration that
\* comes late, or fails late, never downgrades it.
NeverDowngraded ==
    [][\A w \in Workspaces : Live(w) => reg'[w].live # Nobody \/ ~reg'[w].known]_lvars

\* The comment of useActiveWorkspace: the shadow of an inactive workspace keeps the events
\* of its shells from losing updates; no event undoes what its sessions hold.
EventsLoseNothing ==
    [][\A w \in Workspaces : BackgroundEvent(w) => reg'[w].live.at = reg[w].live.at]_lvars
=============================================================================
