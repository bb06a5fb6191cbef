-------------------------------- MODULE ReviewFlow --------------------------------
(***************************************************************************)
(* What the review surface shows of git: the loaders of src/src/app/hooks  *)
(* (use-git-summary-loader, use-diff-loader, use-commit-history-loader,    *)
(* use-commit-detail-loader, use-remote-status-loader), the actions of     *)
(* use-git-actions.ts, the cases of workspace-state.ts that select and     *)
(* cache, src/src/app/components/ReviewArea.tsx and its panes, the         *)
(* handlers of src/electron/main/ipc.ts and                                *)
(* src/services/git/git-service.ts.                                        *)
(*                                                                         *)
(* A worktree is the version of each of its files, 0 as committed, the     *)
(* commits since the merge target and how its branch stands to the remote; *)
(* an answer is what git found when it was asked, or finds when it is      *)
(* given.  Agents change worktrees at any time.  `tab` names the loads     *)
(* that are followed, those of the changes, of the history or of the       *)
(* remote: none reads what the others show.  `due` is auxiliary: the last  *)
(* change that what is shown has to contain.                               *)
(***************************************************************************)
EXTENDS Integers, FiniteSets

CONSTANTS Checkouts,   \* the worktrees
          Files,       \* the paths, the same in every worktree
          Blank,       \* nothing selected, read or shown
          MaxEdits,    \* bound: changes of the files
          MaxCommits,  \* bound: commits and pushes
          MaxLoads,    \* bound: loads under way when the user acts
          Nimble       \* BOOLEAN: a commit is selected while the history is being read

\* A repository has its main worktree at least.
ASSUME CheckoutAssumption == Checkouts # {}

VARIABLES at,          \* worktree -> [files, log, lead, stamp]
          tab,         \* "changes", "history" or "remote"
          active,      \* the active worktree
          session,     \* worktree -> [summary, stale, path, commit]
          shown,       \* [diff, history, detail, status]
          loads,       \* the loads under way: [what, tree, key, asked]
          discarding,  \* the change being discarded: [tree, file], or Blank
          pushing,     \* the push under way: [tree, force], or Blank
          edits, due

flowVars == <<at, tab, active, session, shown, loads, discarding, pushing, edits, due>>

FirstChange == [files |-> [f \in Files |-> IF f = CHOOSE g \in Files : TRUE THEN 1 ELSE 0], log |-> {1}, lead |-> "even", stamp |-> 1]
NothingSelected == [summary |-> Blank, stale |-> FALSE, path |-> Blank, commit |-> Blank]

Load(what, t, key, reading) ==
    [what |-> what, tree |-> t, key |-> key, asked |-> reading]

Keys == [changes |-> "summary", history |-> "history", remote |-> "status"]

\* What is read again with every refreshKey; the history notes the selected commit.
Keyed(t, reading) ==
    {Load(Keys[tab], t, IF tab = "history" THEN session[t].commit ELSE Blank, reading)}

\* The effects of these kinds run again: what they had under way is cancelled, and its
\* answers are dropped.
Rerun(ls, kinds, new) == {l \in ls : l.what \notin kinds} \cup new

FlowInit ==
    /\ at = [t \in Checkouts |-> FirstChange]
    /\ tab \in DOMAIN Keys
    /\ active = CHOOSE t \in Checkouts : TRUE
    /\ session = [t \in Checkouts |-> NothingSelected]
    /\ shown = [diff |-> Blank, history |-> Blank, detail |-> Blank, status |-> Blank]
    /\ loads = Keyed(active, at[active])
    /\ discarding = Blank /\ pushing = Blank
    /\ edits = 1 /\ due = 1

-----------------------------------------------------------------------------
(* The worktrees.                                                            *)

ChangesIn(reading) == {f \in Files : reading.files[f] # 0}

\* What git finds, for a load.
DiffOf(l, reading) ==
    [tree |-> l.tree, path |-> l.key, stamp |-> reading.stamp, stale |-> FALSE]

HistoryOf(l, reading) ==
    [tree |-> l.tree, log |-> reading.log, stamp |-> reading.stamp, stale |-> FALSE]

StatusOf(l, reading) == [tree |-> l.tree, lead |-> reading.lead, stamp |-> reading.stamp]

\* A change of a worktree, by an agent or by git for the user.
Alter(t, w) ==
    /\ edits' = edits + 1
    /\ at' = [at EXCEPT ![t] = [w EXCEPT !.stamp = edits + 1]]

AgentEdits(t, f) ==
    /\ tab = "changes" /\ edits < MaxEdits
    /\ \E v \in {0, edits + 1} : v # at[t].files[f] /\ Alter(t, [at[t] EXCEPT !.files[f] = v])
    /\ UNCHANGED <<tab, active, session, shown, loads, discarding, pushing, due>>

\* A commit is added, or the last one is made anew.
AgentCommits(t, amend) ==
    /\ tab # "changes" /\ edits < MaxCommits
    /\ LET last == CHOOSE c \in at[t].log : \A d \in at[t].log : d <= c
           lead == IF at[t].lead # "even" THEN at[t].lead ELSE IF amend THEN "diverged" ELSE "ahead"
       IN Alter(t, IF tab = "remote" THEN [at[t] EXCEPT !.lead = lead]
                   ELSE [at[t] EXCEPT !.log = (IF amend THEN @ \ {last} ELSE @) \cup {edits + 1}])
    /\ UNCHANGED <<tab, active, session, shown, loads, discarding, pushing, due>>

-----------------------------------------------------------------------------
(* The effects of the loaders, given what they depend on.                    *)

\* The diff is read when the selected path is one of the changes, and cleared otherwise.
ReadsDiff(s) == s.path # Blank /\ s.summary # Blank /\ s.path \in s.summary

DiffEffect(t, sessions, ls) ==
    /\ loads' = Rerun(ls, {"diff"},
                      IF ReadsDiff(sessions[t]) THEN {Load("diff", t, sessions[t].path, at[t])} ELSE {})
    /\ shown' = IF ReadsDiff(sessions[t]) THEN shown ELSE [shown EXCEPT !.diff = Blank]

DetailEffect(t, sessions, ls) ==
    LET c == sessions[t].commit
    IN /\ loads' = Rerun(ls, {"detail"}, IF c # Blank THEN {Load("detail", t, c, at[t])} ELSE {})
       /\ shown' = IF c # Blank THEN shown ELSE [shown EXCEPT !.detail = Blank]

Selected(t, sessions, ls) ==
    \/ tab = "changes" /\ DiffEffect(t, sessions, ls)
    \/ tab = "history" /\ DetailEffect(t, sessions, ls)
    \/ tab = "remote" /\ loads' = ls /\ UNCHANGED shown

\* refreshKey is bumped: the active worktree is read again.
Bumped(reading) ==
    /\ loads' = Rerun(loads, {Keys[tab]}, Keyed(active, reading))
    /\ due' = reading.stamp

MayLoad == Cardinality(loads) < MaxLoads

\* handleRefreshChanges, by hand, after 15 s, on focus, or after a save in the editor.
Refresh ==
    /\ MayLoad
    /\ Bumped(at[active])
    /\ UNCHANGED <<at, tab, active, session, shown, discarding, pushing, edits>>

SelectTree(t) ==
    /\ t # active /\ MayLoad
    /\ active' = t
    /\ due' = at[t].stamp
    /\ Selected(t, session, Rerun(loads, {Keys[tab]}, Keyed(t, at[t])))
    /\ UNCHANGED <<at, tab, session, discarding, pushing, edits>>

-----------------------------------------------------------------------------
(* Selecting.                                                                *)

\* By a click on a changed file, the keys of stepFile, or a jump to a comment.
SelectFile(f) ==
    /\ tab = "changes" /\ MayLoad /\ session[active].path # f
    /\ session' = [session EXCEPT ![active].path = f]
    /\ DiffEffect(active, session', loads)
    /\ UNCHANGED <<at, tab, active, discarding, pushing, edits, due>>

InHistory == IF shown.history = Blank THEN {} ELSE shown.history.log

\* A commit of the list, or none.
SelectCommit(c) ==
    /\ tab = "history" /\ MayLoad /\ session[active].commit # c
    /\ Nimble \/ \A l \in loads : l.what # "history"
    /\ session' = [session EXCEPT ![active].commit = c]
    /\ DetailEffect(active, session', loads)
    /\ UNCHANGED <<at, tab, active, discarding, pushing, edits, due>>

-----------------------------------------------------------------------------
(* The answer of a load.                                                     *)

Rest(l) == loads \ {l}

\* cacheGitSummarySuccess drops a selection that is no change any more.
Summarised(s, reading) ==
    [s EXCEPT !.summary = ChangesIn(reading), !.stale = FALSE,
              !.path = IF @ \in ChangesIn(reading) THEN @ ELSE Blank]

SummaryRead(l, reading) ==
    /\ session' = [session EXCEPT ![l.tree] = Summarised(@, reading)]
    /\ DiffEffect(active, session', Rest(l))

SummaryFails(l) ==
    /\ session' = [session EXCEPT ![l.tree].stale = session[l.tree].summary # Blank]
    /\ loads' = Rest(l) /\ UNCHANGED shown

\* The diff of a file that is not changed is an error.
DiffRead(l, reading) ==
    /\ l.key \in ChangesIn(reading)
    /\ shown' = [shown EXCEPT !.diff = DiffOf(l, reading)]
    /\ loads' = Rest(l) /\ UNCHANGED session

\* A failure keeps what is shown of the same path, as stale.
DiffFails(l) ==
    /\ shown' = [shown EXCEPT !.diff = IF @ # Blank /\ shown.diff.path = l.key
                                      THEN [@ EXCEPT !.stale = TRUE] ELSE Blank]
    /\ loads' = Rest(l) /\ UNCHANGED session

\* A commit that was selected when the history was asked for, and is not in it, is dropped.
HistoryRead(l, reading) ==
    LET gone == l.key # Blank /\ l.key \notin reading.log
    IN /\ session' = IF gone THEN [session EXCEPT ![active].commit = Blank] ELSE session
       /\ shown' = [shown EXCEPT !.history = HistoryOf(l, reading),
                                     !.detail = IF gone THEN Blank ELSE @]
       /\ loads' = IF gone THEN Rerun(Rest(l), {"detail"}, {}) ELSE Rest(l)

HistoryFails(l) ==
    /\ shown' = [shown EXCEPT !.history = IF @ = Blank THEN @ ELSE [@ EXCEPT !.stale = TRUE]]
    /\ loads' = Rest(l) /\ UNCHANGED session

DetailShown(l, detail) ==
    /\ shown' = [shown EXCEPT !.detail = detail]
    /\ loads' = Rest(l) /\ UNCHANGED session

StatusShown(l, status) ==
    /\ shown' = [shown EXCEPT !.status = status]
    /\ loads' = Rest(l) /\ UNCHANGED session

Read(l, reading) ==
    \/ l.what = "summary" /\ SummaryRead(l, reading)
    \/ l.what = "diff" /\ DiffRead(l, reading)
    \/ l.what = "history" /\ HistoryRead(l, reading)
    \/ l.what = "detail" /\ DetailShown(l, l.key)
    \/ l.what = "status" /\ StatusShown(l, StatusOf(l, reading))

Fails(l) ==
    \/ l.what = "summary" /\ SummaryFails(l)
    \/ l.what = "diff" /\ DiffFails(l)
    \/ l.what = "history" /\ HistoryFails(l)
    \/ l.what = "detail" /\ DetailShown(l, IF shown.detail = l.key THEN l.key ELSE Blank)
    \/ l.what = "status" /\ StatusShown(l, Blank)

LoadEnds(l) ==
    /\ l \in loads
    /\ Fails(l) \/ \E reading \in {l.asked, at[l.tree]} : Read(l, reading)
    /\ UNCHANGED <<at, tab, active, discarding, pushing, edits, due>>

-----------------------------------------------------------------------------
(* Discarding a change and pushing the branch.                               *)

InChanges == IF session[active].summary = Blank THEN {} ELSE session[active].summary

\* The dialog is confirmed: discardChange is for the worktree that is active then.
ConfirmDiscard(f) ==
    /\ tab = "changes" /\ MayLoad /\ discarding = Blank /\ edits < MaxEdits
    /\ f \in InChanges
    /\ discarding' = [tree |-> active, file |-> f]
    /\ UNCHANGED <<at, tab, active, session, shown, loads, pushing, edits, due>>

\* It is done, and the review reads again; or it fails, and the dialog says so.
DiscardEnds ==
    /\ discarding # Blank
    /\ discarding' = Blank
    /\ LET t == discarding.tree
           f == discarding.file
       IN \/ /\ at[t].files[f] # 0
             /\ Alter(t, [at[t] EXCEPT !.files[f] = 0])
             /\ Bumped(at'[active])
          \/ UNCHANGED <<at, edits, loads, due>>
    /\ UNCHANGED <<tab, active, session, shown, pushing>>

Forced(status) == status.lead = "diverged"

\* The button pushes; behind the remote it asks first, and then pushes by force.
Push ==
    /\ tab = "remote" /\ MayLoad /\ pushing = Blank /\ edits < MaxCommits
    /\ shown.status # Blank /\ shown.status.lead # "even"
    /\ pushing' = [tree |-> active, force |-> Forced(shown.status)]
    /\ UNCHANGED <<at, tab, active, session, shown, loads, discarding, edits, due>>

\* A push that is not forced is refused by a remote that has other commits.
PushEnds ==
    /\ pushing # Blank
    /\ pushing' = Blank
    /\ LET t == pushing.tree
       IN \/ /\ pushing.force \/ at[t].lead # "diverged"
             /\ Alter(t, [at[t] EXCEPT !.lead = "even"])
             /\ Bumped(at'[active])
          \/ UNCHANGED <<at, edits, loads, due>>
    /\ UNCHANGED <<tab, active, session, shown, discarding>>

FlowNext ==
    \/ \E t \in Checkouts : SelectTree(t) \/ \E f \in Files : AgentEdits(t, f)
    \/ \E t \in Checkouts, amend \in BOOLEAN : AgentCommits(t, amend)
    \/ \E f \in Files : SelectFile(f) \/ ConfirmDiscard(f)
    \/ \E c \in InHistory \cup {Blank} : SelectCommit(c)
    \/ \E l \in loads : LoadEnds(l)
    \/ Refresh \/ DiscardEnds \/ Push \/ PushEnds

-----------------------------------------------------------------------------
FlowTypeOK ==
    /\ tab \in DOMAIN Keys /\ active \in Checkouts
    /\ \A t \in Checkouts : session[t].path \in Files \cup {Blank}
    /\ \A l \in loads : l.tree \in Checkouts
    /\ edits \in Nat /\ due \in 0..edits

AllLoaded == loads = {}

\* However the user went between worktrees, files and commits, and in whatever order the
\* answers came: once nothing is loading, what is shown and not called stale is of the
\* active worktree and of what is selected in it.
ShownFollows ==
    AllLoaded =>
      /\ shown.diff # Blank =>
           /\ shown.diff.path = session[active].path
           /\ ~shown.diff.stale => shown.diff.tree = active
      /\ shown.history # Blank => shown.history.stale \/ shown.history.tree = active
      /\ shown.status # Blank => shown.status.tree = active
      /\ shown.detail \in {Blank, session[active].commit}

\* What was discarded or pushed, and what the last refresh found, is in what is shown.
ShownIsFresh ==
    AllLoaded =>
      /\ shown.diff # Blank /\ ~shown.diff.stale /\ ~session[active].stale =>
           shown.diff.stamp >= due
      /\ shown.history # Blank => shown.history.stale \/ shown.history.stamp >= due
      /\ shown.status # Blank => shown.status.stamp >= due

\* What is selected can be found in the list beside it.
SelectionIsListed ==
    AllLoaded =>
      /\ session[active].path # Blank /\ shown.diff # Blank =>
           session[active].path \in session[active].summary
      /\ session[active].commit # Blank /\ shown.history # Blank =>
           shown.history.stale \/ session[active].commit \in shown.history.log

ReviewIsCurrent == ShownFollows /\ ShownIsFresh /\ SelectionIsListed
===================================================================================
