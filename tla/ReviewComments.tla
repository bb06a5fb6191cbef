------------------------------ MODULE ReviewComments ------------------------------
(***************************************************************************)
(* The comments of a review, which a user writes and agents work off:      *)
(* src/services/review/review-comment-service.ts and                       *)
(* review-comment-store.ts, their handlers in src/electron/main/ipc.ts,    *)
(* the two review tools of src/services/mcp/ai14all-mcp-server.ts and, in  *)
(* the renderer, src/src/features/review/hooks/use-review-comments.ts with *)
(* the pane of src/src/features/review/components/DiffViewerPane.tsx.      *)
(*                                                                         *)
(* A comment is where it is, its status and its text, the first or         *)
(* another; the service changes its memory, saves all of it and only then  *)
(* answers and tells the windows.  A call of the renderer and the handler  *)
(* up to its first await are one action.  `refused` is auxiliary: a save   *)
(* failed and none was kept since.                                         *)
(***************************************************************************)
EXTENDS Integers, Sequences

CONSTANTS Comments,    \* the ids
          Places,      \* the worktrees
          NoComment,   \* no comment
          MaxChanges,  \* bound: changes of the comments
          MaxInbox,    \* bound: messages on their way when a worktree is selected
          Piles        \* BOOLEAN: a change is made while another is being saved

ASSUME PlacesAssumption == Places # {}
ASSUME CommentAssumption ==
    NoComment \notin [at : Places, status : {"open", "addressed"}, text : {"first", "other"}]

VARIABLES comments,    \* byWorktree: id -> [at, status, text] or NoComment
          savedOnes,   \* review-comments.json
          saves,       \* the saves under way
          inbox,       \* what the main process has sent to the window
          pane,        \* useReviewComments: [at, shown]
          undo,        \* the comment a toast offers to bring back: <<id, comment>> or <<>>
          changes, refused

reviewVars == <<comments, savedOnes, saves, inbox, pane, undo, changes, refused>>

NoComments == [c \in Comments |-> NoComment]
Here(all, p) == [c \in Comments |-> IF all[c] # NoComment /\ all[c].at = p THEN all[c] ELSE NoComment]

ReviewInit ==
    /\ comments = NoComments /\ savedOnes = NoComments
    /\ saves = <<>> /\ inbox = <<>> /\ undo = <<>>
    /\ pane = [at |-> CHOOSE p \in Places : TRUE, shown |-> NoComments]
    /\ changes = 0 /\ refused = FALSE

-----------------------------------------------------------------------------
(* The service.                                                              *)

\* A change of the memory, and persist() up to its first await.
SaveComments(all, offer) ==
    /\ changes < MaxChanges
    /\ Piles \/ saves = <<>>
    /\ changes' = changes + 1
    /\ comments' = all
    /\ saves' = Append(saves, [all |-> all, offer |-> offer])
    /\ UNCHANGED <<savedOnes, inbox, pane, refused>>

Change(all) == SaveComments(all, <<>>) /\ UNCHANGED undo

\* create(): with an id that was never used.
Create(c) ==
    /\ undo = <<>> /\ comments[c] = NoComment
    /\ c = CHOOSE d \in Comments : comments[d] = NoComment
    /\ Change([comments EXCEPT ![c] = [at |-> pane.at, status |-> "open", text |-> "first"]])

\* markAddressed(), by an agent or in the pane.
MarkAddressed(c) ==
    /\ comments[c] # NoComment /\ comments[c].status = "open"
    /\ Change([comments EXCEPT ![c].status = "addressed"])

\* onToggleAddressed goes by what is shown.
Toggle(c) ==
    /\ pane.shown[c] # NoComment
    /\ IF pane.shown[c].status = "open"
       THEN MarkAddressed(c)
       ELSE /\ comments[c] # NoComment
            /\ Change([comments EXCEPT ![c].status = "open"])

\* update(): another text for a comment that is open.
Rewrite(c) ==
    /\ pane.shown[c] # NoComment
    /\ comments[c] # NoComment /\ comments[c].status = "open"
    /\ Change([comments EXCEPT ![c].text = "other"])

\* delete(); once it is saved, or at once when it is gone already, a toast offers to undo it.
Delete(c) ==
    /\ pane.shown[c] # NoComment
    /\ LET offer == <<c, pane.shown[c]>>
       IN IF comments[c] # NoComment
          THEN SaveComments([comments EXCEPT ![c] = NoComment], offer) /\ UNCHANGED undo
          ELSE /\ undo' = offer
               /\ UNCHANGED <<comments, savedOnes, saves, inbox, pane, changes, refused>>

\* restore(): what was shown when it was deleted, unless it is there.
Undo ==
    /\ undo # <<>> /\ undo' = <<>>
    /\ IF comments[undo[1]] = NoComment
       THEN SaveComments([comments EXCEPT ![undo[1]] = undo[2]], <<>>)
       ELSE UNCHANGED <<comments, savedOnes, saves, inbox, pane, changes, refused>>

\* The toast is gone after its time.
UndoExpires ==
    /\ undo # <<>> /\ undo' = <<>>
    /\ UNCHANGED <<comments, savedOnes, saves, inbox, pane, changes, refused>>

Ids == {c \in Comments : pane.shown[c] # NoComment /\ pane.shown[c].status = "addressed"}

\* Mutant: the comments are looked up in every worktree.
ClearableAnywhere(ids, p) == \A c \in ids : comments[c] # NoComment /\ comments[c].status = "addressed"

\* bulkRemoveAddressed: every one of them, or none.
Clearable(ids, p) ==
    \A c \in ids : /\ comments[c] # NoComment /\ comments[c].at = p
                   /\ comments[c].status = "addressed"

ClearAddressed ==
    /\ Ids # {} /\ Clearable(Ids, pane.at)
    /\ Change([c \in Comments |-> IF c \in Ids THEN NoComment ELSE comments[c]])

\* removeWorktree, once git has removed it.
RemovePlace(p) ==
    /\ \E c \in Comments : comments[c] # NoComment /\ comments[c].at = p
    /\ Change([c \in Comments |-> IF comments[c] # NoComment /\ comments[c].at = p THEN NoComment
                                  ELSE comments[c]])

\* rebaseWorktreeIds: the repository lies elsewhere now.
Rebase(p, q) ==
    /\ \E c \in Comments : comments[c] # NoComment /\ comments[c].at = p
    /\ Change([c \in Comments |-> IF comments[c] # NoComment /\ comments[c].at = p
                                  THEN [comments[c] EXCEPT !.at = q] ELSE comments[c]])

-----------------------------------------------------------------------------
(* Saving.                                                                   *)

Without(i) == [j \in 1..(Len(saves) - 1) |-> saves[IF j < i THEN j ELSE j + 1]]

\* The file is replaced; the windows are told.
Saved(i) ==
    /\ i \in DOMAIN saves
    /\ savedOnes' = saves[i].all
    /\ undo' = IF saves[i].offer = <<>> THEN undo ELSE saves[i].offer
    /\ saves' = Without(i)
    /\ inbox' = Append(inbox, [kind |-> "changed"])
    /\ refused' = FALSE
    /\ UNCHANGED <<comments, pane, changes>>

\* The save rejects: the file stays, and nobody but the caller hears of it.
SaveRejected(i) ==
    /\ i \in DOMAIN saves
    /\ saves' = Without(i)
    /\ refused' = TRUE
    /\ UNCHANGED <<comments, savedOnes, inbox, pane, undo, changes>>

-----------------------------------------------------------------------------
(* The window.                                                               *)

\* refresh(): list is answered at once.
Listed(p) == [kind |-> "list", all |-> Here(comments, p)]

\* Another worktree is selected: its comments are asked for.
Select(p) ==
    /\ p # pane.at
    /\ Len(inbox) < MaxInbox
    /\ pane' = [pane EXCEPT !.at = p]
    /\ inbox' = Append(inbox, Listed(p))
    /\ UNCHANGED <<comments, savedOnes, saves, undo, changes, refused>>

Heard ==
    /\ inbox # <<>>
    /\ LET m == Head(inbox)
       IN \/ /\ m.kind = "changed"
             /\ inbox' = Append(Tail(inbox), Listed(pane.at)) /\ UNCHANGED pane
          \/ /\ m.kind = "list"
             /\ pane' = [pane EXCEPT !.shown = m.all] /\ inbox' = Tail(inbox)
    /\ UNCHANGED <<comments, savedOnes, saves, undo, changes, refused>>

\* The application ends, and starts with what is in the file.
StartAgain ==
    /\ comments' = savedOnes
    /\ saves' = <<>> /\ undo' = <<>> /\ refused' = FALSE
    /\ inbox' = <<[kind |-> "list", all |-> Here(savedOnes, pane.at)]>>
    /\ pane' = [pane EXCEPT !.shown = NoComments]
    /\ UNCHANGED <<savedOnes, changes>>

ReviewNext ==
    \/ \E c \in Comments : Create(c) \/ MarkAddressed(c) \/ Toggle(c) \/ Rewrite(c) \/ Delete(c)
    \/ Undo \/ UndoExpires \/ ClearAddressed
    \/ \E p \in Places : RemovePlace(p) \/ Select(p) \/ \E q \in Places \ {p} : Rebase(p, q)
    \/ \E i \in DOMAIN saves : Saved(i) \/ SaveRejected(i)
    \/ Heard \/ StartAgain

-----------------------------------------------------------------------------
AllComments ==
    [Comments -> [at : Places, status : {"open", "addressed"}, text : {"first", "other"}] \cup {NoComment}]

ReviewTypeOK ==
    /\ comments \in AllComments /\ savedOnes \in AllComments
    /\ \A i \in DOMAIN saves : saves[i].all \in AllComments
    /\ pane.at \in Places /\ pane.shown \in AllComments

\* What was acknowledged is in the file, and survives the application: when no save is
\* under way and none was refused, the file is what the service works with.
SavedIsHeld == saves = <<>> /\ ~refused => savedOnes = comments

\* The pane ends up with the comments of the worktree it is for, whoever changed them and
\* however the worktree was switched meanwhile.
PaneFollows ==
    saves = <<>> /\ inbox = <<>> /\ ~refused => pane.shown = Here(comments, pane.at)

\* No open comment vanishes but by its own deletion or with its worktree: clearing what
\* the pane shows as addressed spares the one that was reopened since, and that of
\* another worktree (bulkRemoveAddressed, "not_addressed", "worktree_mismatch").
NoneVanishes ==
    [][\A c \in Comments :
         comments[c] # NoComment /\ comments'[c] = NoComment =>
           \/ comments[c].status = "addressed" /\ comments[c].at = pane.at
           \/ Delete(c) \/ StartAgain
           \/ \E p \in Places : comments[c].at = p /\ RemovePlace(p)]_reviewVars

\* Comments are kept, shown and never cleared by mistake.
ReviewsAreHonest == []SavedIsHeld /\ []PaneFollows /\ NoneVanishes
===================================================================================
