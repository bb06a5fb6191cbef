-------------------------------- MODULE Worktrees --------------------------------
(***************************************************************************)
(* Making and removing the worktree of a session:                          *)
(* src/services/worktrees/worktree-service.ts with its handlers in         *)
(* src/electron/main/ipc.ts, the two dialogs                               *)
(* src/src/features/workspace/components/{NewWorktree,RemoveWorktree}-     *)
(* Dialog.tsx, their previews and actions in src/src/app/hooks and the     *)
(* re-listing in src/src/app/App.tsx.                                      *)
(*                                                                         *)
(* A name stands for a branch and for the worktree under .worktrees with   *)
(* that name.  A creation in the main process goes from one git command to *)
(* the next; agents and users run git beside it.  At most one terminal of  *)
(* a worktree is followed: recorded in its session, and running.  A branch *)
(* says where it comes from: fresh when a creation made it, left when the  *)
(* rollback of that creation failed too, used once it was checked out, or  *)
(* theirs.                                                                 *)
(***************************************************************************)
EXTENDS Integers

CONSTANTS Names,       \* what worktrees are called
          NoName,      \* no name, no preview, nothing under way
          MaxOutside,  \* bound: what others do with git
          MaxTyped,    \* bound: names typed
          Late         \* BOOLEAN: a terminal starts in a worktree that is being removed

\* What a preview asks about, and the calls in the main process.
Requests == [name : Names \cup {NoName}, base : BOOLEAN]
Creations == [name : Names, base : BOOLEAN, step : {"check", "branch", "add", "list", "undo"}, made : BOOLEAN]
Removals == [name : Names, step : {"close", "tree", "branch"}]

ASSUME NameAssumption == NoName \notin Names \cup Requests \cup Creations \cup Removals

VARIABLES git,         \* name -> [branch, tree]; a branch is fresh, left, used or theirs
          origin,      \* the base branch is on the remote
          creator,     \* the dialog: [open, name, base, timer, asked, loading, preview, busy]
          creating,    \* createWorktree: [name, base, step, made], or NoName
          remover,     \* the dialog: [open, target, asked, preview, busy]
          removing,    \* [name, step], or NoName
          sessionOf,        \* the sessions of the window: name -> [known, recorded, running]
          outside, typed

treeVars == <<git, origin, creator, creating, remover, removing, sessionOf, outside, typed>>

NoDialog == [open |-> FALSE, name |-> NoName, base |-> FALSE, timer |-> FALSE, asked |-> NoName,
             loading |-> FALSE, preview |-> NoName, busy |-> FALSE]
NoRemoval == [open |-> FALSE, target |-> NoName, asked |-> FALSE, preview |-> NoName, busy |-> FALSE]
NoSession == [known |-> FALSE, recorded |-> FALSE, running |-> FALSE]

TreesInit ==
    /\ git = [n \in Names |-> [branch |-> "none", tree |-> FALSE]]
    /\ origin = TRUE
    /\ creator = NoDialog /\ creating = NoName
    /\ remover = NoRemoval /\ removing = NoName
    /\ sessionOf = [n \in Names |-> NoSession]
    /\ outside = 0 /\ typed = 0

-----------------------------------------------------------------------------
(* git, run by others.                                                       *)

Outside == outside < MaxOutside /\ outside' = outside + 1

\* A branch that was checked out is no longer fresh, nor left.
Touched(branch) == IF branch \in {"fresh", "left"} THEN "used" ELSE branch

\* Not between the failure of a creation and its rollback, which goes by the name.
OthersBranch(n) ==
    /\ git[n].branch = "none" /\ Outside
    /\ creating # NoName /\ creating.name = n => creating.step \in {"check", "branch"}
    /\ git' = [git EXCEPT ![n].branch = "theirs"]
    /\ UNCHANGED <<origin, creator, creating, remover, removing, sessionOf, typed>>

OthersAdd(n) ==
    /\ git[n].branch # "none" /\ ~git[n].tree /\ Outside
    /\ git' = [git EXCEPT ![n] = [branch |-> Touched(@.branch), tree |-> TRUE]]
    /\ UNCHANGED <<origin, creator, creating, remover, removing, sessionOf, typed>>

OthersRemove(n) ==
    /\ git[n].tree /\ Outside
    /\ git' = [git EXCEPT ![n] = [branch |-> Touched(@.branch), tree |-> FALSE]]
    /\ UNCHANGED <<origin, creator, creating, remover, removing, sessionOf, typed>>

\* The base branch is deleted on the remote, and a fetch finds that.
OriginPruned ==
    /\ origin /\ Outside
    /\ origin' = FALSE
    /\ UNCHANGED <<git, creator, creating, remover, removing, sessionOf, typed>>

-----------------------------------------------------------------------------
(* The sessions.                                                             *)

\* listWorktrees: what git lists and is on disk.
LiveTrees(now) == {n \in Names : now[n].tree}

\* refreshWorktreeInventory: what is gone loses its session, and, unless it is skipped,
\* its terminals.
Relisted(now, skip) ==
    [n \in Names |->
       IF n \in LiveTrees(now) THEN [sessionOf[n] EXCEPT !.known = TRUE]
       ELSE [NoSession EXCEPT !.running =
               sessionOf[n].running /\ ~(sessionOf[n].known /\ sessionOf[n].recorded /\ n \notin skip)]]

Relist ==
    /\ sessionOf' = Relisted(git, {})
    /\ UNCHANGED <<git, origin, creator, creating, remover, removing, outside, typed>>

\* By the user, or by itself in a worktree that has none.
StartTerminal(n) ==
    /\ sessionOf[n].known /\ ~sessionOf[n].recorded /\ ~sessionOf[n].running /\ git[n].tree
    /\ ~Late /\ removing # NoName => removing.name # n
    /\ sessionOf' = [sessionOf EXCEPT ![n].recorded = TRUE, ![n].running = TRUE]
    /\ UNCHANGED <<git, origin, creator, creating, remover, removing, outside, typed>>

-----------------------------------------------------------------------------
(* The dialog of a new session.                                              *)

\* The effect of useCreateWorktreePreview: what was under way is cancelled, the timer set.
PreviewEffect(d) ==
    IF d.open /\ d.name # NoName THEN [d EXCEPT !.timer = TRUE, !.asked = NoName]
    ELSE [d EXCEPT !.timer = FALSE, !.asked = NoName, !.preview = NoName]

OpenCreate ==
    /\ ~creator.open /\ ~remover.open
    /\ creator' = [creator EXCEPT !.open = TRUE, !.base = FALSE]
    /\ UNCHANGED <<git, origin, creating, remover, removing, sessionOf, outside, typed>>

\* useBaseBranchOptions: the branches of the remote are listed, the default is selected.
BasesListed ==
    /\ creator.open /\ ~creator.base /\ origin
    /\ creator' = PreviewEffect([creator EXCEPT !.base = TRUE])
    /\ UNCHANGED <<git, origin, creating, remover, removing, sessionOf, outside, typed>>

TypeName(n) ==
    /\ creator.open /\ n # creator.name /\ typed < MaxTyped
    /\ typed' = typed + 1
    /\ creator' = PreviewEffect([creator EXCEPT !.name = n])
    /\ UNCHANGED <<git, origin, creating, remover, removing, sessionOf, outside>>

CloseCreate ==
    /\ creator.open
    /\ creator' = PreviewEffect([creator EXCEPT !.open = FALSE, !.name = NoName, !.base = FALSE])
    /\ UNCHANGED <<git, origin, creating, remover, removing, sessionOf, outside, typed>>

\* 350 ms after the last change the preview is asked for.
DebounceEnds ==
    /\ creator.timer
    /\ creator' = [creator EXCEPT !.timer = FALSE, !.loading = TRUE,
                                  !.asked = [name |-> creator.name, base |-> creator.base]]
    /\ UNCHANGED <<git, origin, creating, remover, removing, sessionOf, outside, typed>>

\* resolveBaseRef: an explicit base has to be on the remote still.
Resolves(q) == q.base => origin

\* previewCreateWorktree, when git answers: the path is free.
Creatable(q) == ~git[q.name].tree /\ Resolves(q)

Previewed(answers) ==
    /\ creator.asked # NoName
    /\ creator' = [creator EXCEPT !.asked = NoName, !.loading = FALSE,
                                  !.preview = IF answers /\ Creatable(creator.asked) THEN creator.asked ELSE NoName]
    /\ UNCHANGED <<git, origin, creating, remover, removing, sessionOf, outside, typed>>

\* What is made is what is typed now.
ConfirmCreate ==
    /\ creator.open /\ creator.preview # NoName /\ ~creator.loading /\ ~creator.busy
    /\ creator.name # NoName
    /\ creator' = [creator EXCEPT !.busy = TRUE]
    /\ creating' = [name |-> creator.name, base |-> creator.base, step |-> "check", made |-> FALSE]
    /\ UNCHANGED <<git, origin, remover, removing, sessionOf, outside, typed>>

-----------------------------------------------------------------------------
(* createWorktree.                                                           *)

\* The dialog says why, and the worktrees are listed again.
CreateFails ==
    /\ creating' = NoName
    /\ creator' = [creator EXCEPT !.busy = FALSE]
    /\ sessionOf' = Relisted(git', {})

Creating(step) == creating # NoName /\ creating.step = step

\* The preview is made anew, the directory too, and the branch is looked for; a look that
\* fails finds none.
CheckCreate ==
    /\ Creating("check")
    /\ UNCHANGED git
    /\ \/ /\ Creatable(creating)
          /\ \E made \in BOOLEAN :
               /\ git[creating.name].branch = "none" => made
               /\ creating' = [creating EXCEPT !.made = made, !.step = "branch"]
          /\ UNCHANGED <<creator, sessionOf>>
       \/ CreateFails
    /\ UNCHANGED <<origin, remover, removing, outside, typed>>

\* Mutant: the branch is undone as well when it could not be made.
UndoesAnyBranch ==
    /\ Creating("branch")
    /\ LET n == creating.name
       IN \/ /\ creating.made => git[n].branch = "none"
             /\ git' = IF creating.made THEN [git EXCEPT ![n].branch = "fresh"] ELSE git
             /\ creating' = [creating EXCEPT !.step = "add"]
          \/ /\ creating.made
             /\ creating' = [creating EXCEPT !.step = "undo"] /\ UNCHANGED git
    /\ UNCHANGED <<creator, sessionOf, origin, remover, removing, outside, typed>>

\* git branch, when there was none.
MakeBranch ==
    /\ Creating("branch")
    /\ LET n == creating.name
       IN \/ /\ ~creating.made
             /\ creating' = [creating EXCEPT !.step = "add"] /\ UNCHANGED <<git, creator, sessionOf>>
          \/ /\ creating.made /\ git[n].branch = "none"
             /\ git' = [git EXCEPT ![n].branch = "fresh"]
             /\ creating' = [creating EXCEPT !.step = "add"] /\ UNCHANGED <<creator, sessionOf>>
          \/ creating.made /\ UNCHANGED git /\ CreateFails
    /\ UNCHANGED <<origin, remover, removing, outside, typed>>

\* git worktree add.
AddTree ==
    /\ Creating("add")
    /\ LET n == creating.name
       IN \/ /\ ~git[n].tree /\ git[n].branch # "none"
             /\ git' = [git EXCEPT ![n] = [branch |-> Touched(@.branch), tree |-> TRUE]]
             /\ creating' = [creating EXCEPT !.step = "list"] /\ UNCHANGED <<creator, sessionOf>>
          \/ /\ creating.made
             /\ creating' = [creating EXCEPT !.step = "undo"] /\ UNCHANGED <<git, creator, sessionOf>>
          \/ ~creating.made /\ UNCHANGED git /\ CreateFails
    /\ UNCHANGED <<origin, remover, removing, outside, typed>>

\* Only the branch that this call made is removed.  git keeps one that is checked out, and
\* may fail on any other: that is swallowed, and the dialog says that it has been removed.
UndoBranch ==
    /\ Creating("undo")
    /\ LET n == creating.name
       IN \/ ~git[n].tree /\ git' = [git EXCEPT ![n].branch = "none"]
          \/ git' = [git EXCEPT ![n].branch = IF @ = "fresh" THEN "left" ELSE @]
    /\ CreateFails
    /\ UNCHANGED <<origin, remover, removing, outside, typed>>

\* It is found in the list, selected, and the dialog closes; a list that fails keeps it open.
Created ==
    /\ Creating("list")
    /\ UNCHANGED git
    /\ \/ /\ creating.name \in LiveTrees(git)
          /\ creating' = NoName
          /\ creator' = PreviewEffect([creator EXCEPT !.open = FALSE, !.name = NoName,
                                                      !.base = FALSE, !.busy = FALSE])
          /\ sessionOf' = Relisted(git, {})
       \/ CreateFails
    /\ UNCHANGED <<origin, remover, removing, outside, typed>>

-----------------------------------------------------------------------------
(* Removing a session.                                                       *)

OpenRemove(n) ==
    /\ ~remover.open /\ ~creator.open /\ sessionOf[n].known
    /\ remover' = [remover EXCEPT !.open = TRUE, !.target = n, !.asked = TRUE]
    /\ UNCHANGED <<git, origin, creator, creating, removing, sessionOf, outside, typed>>

CloseRemove ==
    /\ remover.open
    /\ remover' = [NoRemoval EXCEPT !.busy = remover.busy]
    /\ UNCHANGED <<git, origin, creator, creating, removing, sessionOf, outside, typed>>

RemovePreviewed(answers) ==
    /\ remover.asked
    /\ remover' = [remover EXCEPT !.asked = FALSE,
                                  !.preview = IF answers /\ git[remover.target].tree THEN remover.target ELSE NoName]
    /\ UNCHANGED <<git, origin, creator, creating, removing, sessionOf, outside, typed>>

ConfirmRemove ==
    /\ remover.open /\ remover.preview # NoName /\ ~remover.busy
    /\ remover' = [remover EXCEPT !.busy = TRUE]
    /\ removing' = [name |-> remover.preview, step |-> "close"]
    /\ UNCHANGED <<git, origin, creator, creating, sessionOf, outside, typed>>

Removing(step) == removing # NoName /\ removing.step = step

\* closeProcessesForWorktree
CloseProcesses ==
    /\ Removing("close")
    /\ sessionOf' = [sessionOf EXCEPT ![removing.name].recorded = FALSE,
                            ![removing.name].running = @ /\ ~sessionOf[removing.name].recorded]
    /\ removing' = [removing EXCEPT !.step = "tree"]
    /\ UNCHANGED <<git, origin, creator, creating, remover, outside, typed>>

\* The dialog says why; the worktrees are listed again.
RemoveFails ==
    /\ removing' = NoName
    /\ remover' = [remover EXCEPT !.busy = FALSE]
    /\ sessionOf' = Relisted(git', {})

\* removeWorktree: it is looked up again, and removed by force.
RemoveTree ==
    /\ Removing("tree")
    /\ \/ /\ git[removing.name].tree
          /\ git' = [git EXCEPT ![removing.name].tree = FALSE]
          /\ removing' = [removing EXCEPT !.step = "branch"]
          /\ UNCHANGED <<remover, sessionOf>>
       \/ UNCHANGED git /\ RemoveFails
    /\ UNCHANGED <<origin, creator, creating, outside, typed>>

\* git branch -D, then its comments go; the worktree is listed no more, and its session is
\* dropped.
RemoveBranch ==
    /\ Removing("branch")
    /\ LET n == removing.name
       IN \/ /\ ~git[n].tree
             /\ git' = [git EXCEPT ![n].branch = "none"]
             /\ \/ removing' = NoName /\ remover' = NoRemoval /\ sessionOf' = Relisted(git', {n})
                \/ RemoveFails
          \/ UNCHANGED git /\ RemoveFails
    /\ UNCHANGED <<origin, creator, creating, outside, typed>>

TreesNext ==
    \/ \E n \in Names : OthersBranch(n) \/ OthersAdd(n) \/ OthersRemove(n) \/ StartTerminal(n)
                        \/ TypeName(n) \/ OpenRemove(n)
    \/ OriginPruned \/ Relist
    \/ OpenCreate \/ BasesListed \/ CloseCreate \/ DebounceEnds \/ ConfirmCreate
    \/ CheckCreate \/ MakeBranch \/ AddTree \/ UndoBranch \/ Created
    \/ \E answers \in BOOLEAN : Previewed(answers) \/ RemovePreviewed(answers)
    \/ CloseRemove \/ ConfirmRemove
    \/ CloseProcesses \/ RemoveTree \/ RemoveBranch

-----------------------------------------------------------------------------
TreesTypeOK ==
    /\ git \in [Names -> [branch : {"none", "fresh", "left", "used", "theirs"}, tree : BOOLEAN]]
    /\ creator.name \in Names \cup {NoName} /\ remover.target \in Names \cup {NoName}
    /\ sessionOf \in [Names -> [known : BOOLEAN, recorded : BOOLEAN, running : BOOLEAN]]
    /\ outside \in 0..MaxOutside /\ typed \in 0..MaxTyped

\* A creation that failed leaves nothing behind but a branch that its own rollback could not
\* remove: once none is under way, every other branch that one has made got its worktree.
OnlyRefusedIsLeft == creating = NoName => \A n \in Names : git[n].branch # "fresh"

\* No terminal runs on in a worktree that the window does not show any more.
NoneOrphaned ==
    \A n \in Names : sessionOf[n].running => sessionOf[n].known /\ sessionOf[n].recorded

\* Once nothing is being looked up, each dialog previews what it is asked to do.
PreviewsFit ==
    /\ creator.preview # NoName /\ ~creator.timer /\ creator.asked = NoName =>
         creator.preview = [name |-> creator.name, base |-> creator.base]
    /\ remover.preview \in {NoName, remover.target}

\* A branch that others made goes only with a removal of its worktree that was confirmed.
OthersAreSpared ==
    [][\A n \in Names : git[n].branch = "theirs" /\ git'[n].branch # "theirs" =>
         removing # NoName /\ removing.name = n]_treeVars

WorktreesAreSafe == []OnlyRefusedIsLeft /\ []NoneOrphaned /\ []PreviewsFit /\ OthersAreSpared
===================================================================================
