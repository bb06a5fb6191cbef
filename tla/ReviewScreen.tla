------------------------------- MODULE ReviewScreen -------------------------------
(***************************************************************************)
(* The middle of the review panel: the diff editors and the registry that  *)
(* finds them, the comment threads mounted in them, jumps, drafts and the  *)
(* marks of viewed files, and the portal that holds it all.                *)
(* src/src/features/review/ (DiffViewerPane, InlineMountsBridge,           *)
(* use-inline-thread-mounts, InlineCommentThread, queue-jump,              *)
(* use-reviewed-files, ReviewExpandedPortal), src/src/features/git/        *)
(* components/CommitDiffStack.tsx, the loaders of src/src/app/hooks, and   *)
(* src/src/app/components/ReviewArea.tsx.                                  *)
(*                                                                         *)
(* A view is 0, the changes of the worktree, or a commit; an editor is the *)
(* diff of a document in a view, and is registered by its document alone.  *)
(* Contents are numbers: a commit's is its own, the worktree's grow.       *)
(* `surface` says which part of the panel a behaviour uses besides its     *)
(* editors.  Auxiliary: `landed`, every jump so far ended in the diff of   *)
(* its comment; draft.on, the editor the draft was begun in; portal.asked, *)
(* the user asked to collapse the portal since it was opened.              *)
(***************************************************************************)
EXTENDS Naturals, FiniteSets

CONSTANTS Docs,      \* the files that are changed
          NoDoc,
          HeldBy,    \* commit -> the files it changes
          Remarks,   \* the comments
          NoRemark,
          PlaceOf,   \* comment -> the editor it belongs to: [doc, view]
          MaxTurns,  \* bound: what the user selects, opens and closes
          MaxTexts,  \* bound: changes of a file
          Crosswise, \* BOOLEAN: jumps between diffs of one file, acts on an outdated commit
          Hurried    \* BOOLEAN: a portal that leaves is collapsed again

\* Commits are numbered from 1; 0 is the view of the changes.
ASSUME ScreenAssumption ==
    /\ NoDoc \notin Docs /\ MaxTurns \in Nat
    /\ DOMAIN HeldBy \subseteq Nat \ {0} /\ IsFiniteSet(DOMAIN HeldBy)
    /\ HeldBy \in [DOMAIN HeldBy -> SUBSET Docs]
    /\ PlaceOf \in [Remarks -> [doc : Docs, view : DOMAIN HeldBy \cup {0}]]

VARIABLES picked,    \* [mode, changed, sha, page]: the session's selection
          loaded,    \* [diff, text, detail]: what the loaders hold
          asks,      \* [diff, detail]: a load for the present selection is under way
          texts,     \* file -> its content in the worktree
          stack,     \* [sha, opened, cells]: CommitDiffStack, sha = 0 without one
          registry,  \* the registered editors
          hashes, marks,   \* file -> the content last seen, the one marked; 0 without
          remarks,   \* comment -> "open", "addressed" or "gone"
          threads,   \* comment -> "none", "strip", "shown", "editing", "typed" or "saving"
          focused, jumps, landed,
          draft,     \* [place, on, phase]
          portal,    \* [open, leaving, entry, ref, timers, hears, asked]
          turns, surface

viewerVars == <<picked, loaded, asks, texts, stack, registry, hashes, threads>>
screenVars == <<viewerVars, marks, remarks, focused, jumps, landed, draft, portal, turns,
                surface>>

Commits == DOMAIN HeldBy
Editor(d, v) == [doc |-> d, view |-> v]
NoDraft == [place |-> Editor(NoDoc, 0), on |-> Editor(NoDoc, 0), phase |-> "none"]
NoStack == [sha |-> 0, opened |-> {}, cells |-> [d \in Docs |-> "idle"]]
Shut == [open |-> FALSE, leaving |-> FALSE, entry |-> FALSE, ref |-> FALSE, timers |-> 0,
         hears |-> 0, asked |-> FALSE]

ScreenInit ==
    /\ surface \in {"marks", "threads", "jumps", "draft", "portal"}
    /\ picked = [mode |-> "changes", changed |-> NoDoc, sha |-> 0, page |-> NoDoc]
    /\ loaded = [diff |-> NoDoc, text |-> 0, detail |-> 0]
    /\ asks = [diff |-> FALSE, detail |-> FALSE]
    /\ texts = [d \in Docs |-> Cardinality(Commits) + 1]
    /\ stack = NoStack /\ registry = {}
    /\ hashes = [d \in Docs |-> 0] /\ marks = [d \in Docs |-> 0]
    /\ remarks = [r \in Remarks |-> "open"] /\ threads = [r \in Remarks |-> "none"]
    /\ focused = NoRemark /\ jumps = {} /\ landed = TRUE
    /\ draft = NoDraft /\ portal = Shut /\ turns = 0

-----------------------------------------------------------------------------
(* A render: the ladder of viewers, the stack, the threads.                  *)

\* CommitDiffStack is keyed by its commit: another one starts with the focused file, or its
\* only one; a file that is focused is opened; an open file that was never fetched is.
Stacked(p, l, s) ==
    LET held == HeldBy[l.detail]
        same == s.sha = l.detail
        opened == IF ~same THEN ({p.page} \cap Docs) \cup (IF Cardinality(held) = 1
                                                           THEN held ELSE {})
                  ELSE s.opened \cup (IF p.page # picked.page THEN {p.page} \cap Docs ELSE {})
        cells == IF same THEN s.cells ELSE NoStack.cells
    IN  IF p.mode # "commits" \/ l.detail = 0 THEN NoStack
        ELSE [sha |-> l.detail, opened |-> opened,
              cells |-> [d \in Docs |-> IF d \in opened \cap held /\ cells[d] = "idle"
                                        THEN "loading" ELSE cells[d]]]

\* DiffViewer, and a slot for every section that is open and loaded.
ChangesEditor(l) == {Editor(d, 0) : d \in {l.diff} \cap Docs}
StackEditors(s) == {Editor(d, s.sha) : d \in {x \in s.opened : s.cells[x] = "ready"}}

\* The editors of the viewer.
Slots(p, l, s) == IF p.mode = "changes" THEN ChangesEditor(l) ELSE StackEditors(s)

\* currentFilePath, and the view whose comments belong to it.
Current(p) == IF p.mode = "changes" THEN p.changed ELSE p.page
ViewOf(p) == IF p.mode = "changes" THEN 0 ELSE p.sha

\* filterForInlineMount.
Inline(p) == {r \in Remarks : PlaceOf[r] = Editor(Current(p), ViewOf(p))}

\* InlineMountsBridge: the editor of the current file.
Host(reg, p) == {e \in reg : e.doc = Current(p)}

\* A new thread; one that is reopened opens.
Fresh(status) == IF status = "open" THEN "shown" ELSE "strip"

\* useInlineThreadMounts: a thread per comment of the current file, made anew with its editor;
\* an addressed comment starts as a strip, and opens when it is reopened.
Mounted(reg, p, status) ==
    [r \in Remarks |->
        IF r \notin Inline(p) \/ status[r] = "gone" \/ Host(reg, p) = {} THEN "none"
        ELSE IF threads[r] # "none" /\ Host(reg, p) = Host(registry, picked)
             THEN IF threads[r] = "strip" /\ status[r] = "open" THEN "shown" ELSE threads[r]
             ELSE Fresh(status[r])]

\* Mutant: an editor that leaves the screen stays registered.
NeverUnregistered(p, l, s) == registry

\* DiffEditorSlot and onDidDispose: what leaves the screen is unregistered.
StillRegistered(p, l, s) == registry \cap Slots(p, l, s)

Render(p, l, s) ==
    LET now == Stacked(p, l, s)
        reg == StillRegistered(p, l, now)
    IN  /\ picked' = p /\ loaded' = l /\ stack' = now /\ registry' = reg
        /\ hashes' = [d \in Docs |-> IF p.mode = "changes" /\ l.diff = d THEN l.text
                                     ELSE hashes[d]]
        /\ threads' = Mounted(reg, p, remarks)

ContentOf(e) == IF e.view = 0 THEN loaded.text ELSE e.view

\* onFileContent, as an editor mounts.
RecordsContent(e) == hashes' = [hashes EXCEPT ![e.doc] = ContentOf(e)]

\* handleDiffEditorMount, some time after its viewer is on the screen.
EditorMounts ==
    \E e \in Slots(picked, loaded, stack) \ registry :
        /\ registry' = registry \cup {e}
        /\ RecordsContent(e)
        /\ threads' = Mounted(registry', picked, remarks)
        /\ UNCHANGED <<picked, loaded, asks, texts, stack>>

-----------------------------------------------------------------------------
(* Selections and loads.                                                     *)

Free == turns < MaxTurns /\ (Crosswise \/ jumps = {})
Turn == turns' = turns + 1

\* A load is asked for when what it is for changes.
Asks(p) == asks' = [diff |-> p.changed # NoDoc /\ (asks.diff \/ p.changed # picked.changed),
                    detail |-> p.sha # 0 /\ (asks.detail \/ p.sha # picked.sha)]

Choose(p) ==
    /\ Asks(p)
    /\ Render(p, IF p.sha = 0 THEN [loaded EXCEPT !.detail = 0] ELSE loaded, stack)
    /\ UNCHANGED texts

PickChanged(d) == [picked EXCEPT !.mode = "changes", !.changed = d]
PickCommit(c) == [picked EXCEPT !.mode = "commits", !.sha = c, !.page = NoDoc]
PickPage(d) == [picked EXCEPT !.mode = "commits", !.page = d]

\* The list of the changes, of the commits and of a commit's files; the tabs; stepFile.
Picks ==
    /\ Free /\ Turn
    /\ \/ \E d \in Docs : picked.mode = "changes" /\ Choose(PickChanged(d))
       \/ \E c \in Commits : picked.mode = "commits" /\ Choose(PickCommit(c))
       \/ /\ picked.mode = "commits" /\ loaded.detail # 0
          /\ Crosswise \/ loaded.detail = picked.sha
          /\ \E d \in HeldBy[loaded.detail] : Choose(PickPage(d))
       \/ \E m \in {"changes", "commits"} \ {picked.mode} : Choose([picked EXCEPT !.mode = m])
       \/ /\ picked.mode = "commits" /\ picked.sha # 0
          /\ Choose([picked EXCEPT !.sha = 0, !.page = NoDoc])

DiffLoads ==
    /\ asks.diff /\ asks' = [asks EXCEPT !.diff = FALSE]
    /\ \/ Render(picked, [loaded EXCEPT !.diff = picked.changed,
                                        !.text = texts[picked.changed]], stack)
       \/ /\ surface = "marks" /\ loaded.diff # picked.changed
          /\ Render(picked, [loaded EXCEPT !.diff = NoDoc, !.text = 0], stack)
    /\ UNCHANGED texts

DetailLoads ==
    /\ asks.detail /\ asks' = [asks EXCEPT !.detail = FALSE]
    /\ \/ Render(picked, [loaded EXCEPT !.detail = picked.sha], stack)
       \/ /\ surface = "marks" /\ loaded.detail # picked.sha
          /\ Render(picked, [loaded EXCEPT !.detail = 0], stack)
    /\ UNCHANGED texts

\* The changes are read again after a file was written.
DocChanges ==
    /\ surface = "marks"
    /\ \E d \in Docs : /\ texts[d] < Cardinality(Commits) + 1 + MaxTexts
                       /\ texts' = [texts EXCEPT ![d] = @ + 1]
    /\ asks' = [asks EXCEPT !.diff = picked.changed # NoDoc]
    /\ UNCHANGED <<picked, loaded, stack, registry, hashes, threads>>

\* readCommitFileDiff answers; a failure is kept, it is never asked again.
CellLoads ==
    \E d \in {x \in Docs : stack.cells[x] = "loading"} :
        \E outcome \in {"ready"} \cup (IF surface = "marks" THEN {"error"} ELSE {}) :
            /\ Render(picked, loaded, [stack EXCEPT !.cells[d] = outcome])
            /\ UNCHANGED <<asks, texts>>

SectionToggles ==
    /\ Free /\ Turn /\ stack.sha # 0
    /\ \E d \in HeldBy[stack.sha] :
           Render(picked, loaded, [stack EXCEPT !.opened = (@ \ {d}) \cup ({d} \ @)])
    /\ UNCHANGED <<asks, texts>>

\* The panel is closed and opened again: the loaders belong to the app, the rest is new.
PanelReopens ==
    /\ surface # "portal" /\ Free /\ Turn
    /\ registry' = {} /\ hashes' = [d \in Docs |-> IF picked.mode = "changes" /\ loaded.diff = d
                                                  THEN loaded.text ELSE 0]
    /\ threads' = [r \in Remarks |-> "none"] /\ focused' = NoRemark
    /\ stack' = Stacked(picked, loaded, NoStack)
    /\ jumps' = {}
    /\ UNCHANGED <<picked, loaded, asks, texts, marks, remarks, landed, draft, portal, surface>>

ViewerStep ==
    /\ surface # "portal"
    /\ \/ (EditorMounts \/ DiffLoads \/ DetailLoads \/ DocChanges \/ CellLoads) /\ UNCHANGED turns
       \/ Picks \/ SectionToggles
    /\ UNCHANGED <<marks, remarks, focused, jumps, landed, draft, portal, surface>>

-----------------------------------------------------------------------------
(* Viewed files.                                                             *)

\* getCurrentFileContent, 0 for null.
CurrentContent ==
    IF picked.mode = "changes"
    THEN IF loaded.diff = picked.changed THEN loaded.text ELSE 0
    ELSE IF Host(registry, picked) = {} THEN 0
         ELSE ContentOf(CHOOSE e \in Host(registry, picked) : TRUE)

\* reviewedPathsAmong: a file not loaded yet trusts its mark.
Viewed(d) == marks[d] # 0 /\ hashes[d] \in {0, marks[d]}

\* handleMarkFileViewed, toggleViewed.
TogglesViewed ==
    /\ surface = "marks" /\ Free /\ Turn
    /\ Current(picked) # NoDoc /\ CurrentContent # 0
    /\ marks' = [marks EXCEPT ![Current(picked)] = IF @ = CurrentContent THEN 0
                                                   ELSE CurrentContent]
    /\ UNCHANGED <<viewerVars, remarks, focused, jumps, landed, draft, portal, surface>>

-----------------------------------------------------------------------------
(* Threads.                                                                  *)

\* A comment is addressed, reopened, deleted or restored, by the user or an agent.
Becomes(r, status) ==
    /\ remarks' = [remarks EXCEPT ![r] = status]
    /\ threads' = Mounted(registry, picked, remarks')

Toggled(r) == IF remarks[r] = "open" THEN "addressed" ELSE "open"

RemarkMoves ==
    /\ surface = "threads" /\ Free /\ Turn
    /\ \E r \in Remarks :
        \/ remarks[r] # "gone" /\ \E s \in {Toggled(r), "gone"} : Becomes(r, s)
        \/ remarks[r] = "gone" /\ \E s \in {"open", "addressed"} : Becomes(r, s)
    /\ UNCHANGED <<picked, loaded, asks, texts, stack, registry, hashes, marks, focused, jumps,
                   landed, draft, portal, surface>>

Thread(r, from, to) == threads[r] \in from /\ threads' = [threads EXCEPT ![r] = to]

\* onSave: a save is refused once its comment is addressed, and the text stays.
SaveSettles(r) == Thread(r, {"saving"}, IF remarks[r] = "open" THEN "shown" ELSE "typed")

\* InlineCommentThread.
ThreadActs ==
    /\ surface = "threads"
    /\ \E r \in Remarks :
        \/ Thread(r, {"strip"}, "shown")
        \/ Thread(r, {"shown"}, "editing")
        \/ Thread(r, {"editing"}, "typed")
        \/ Thread(r, {"typed"}, "saving")
        \/ SaveSettles(r)
        \/ Thread(r, {"editing", "typed", "saving"}, "shown")
    /\ UNCHANGED <<picked, loaded, asks, texts, stack, registry, hashes, marks, remarks, focused,
                   jumps, landed, draft, portal, turns, surface>>

\* navigateThread.
FocusMoves == \E r \in Inline(picked) : remarks[r] # "gone" /\ focused' = r

\* The keys of an editor: the next thread; edit or toggle the focused one, wherever it is.
KeysAct ==
    /\ surface = "threads" /\ registry # {} /\ Free /\ Turn
    /\ \/ FocusMoves /\ UNCHANGED <<remarks, threads>>
       \/ /\ focused # NoRemark /\ remarks[focused] = "open"
          /\ Thread(focused, {"shown"}, "editing")
          /\ UNCHANGED <<remarks, focused>>
       \/ /\ focused # NoRemark /\ remarks[focused] # "gone"
          /\ Becomes(focused, Toggled(focused))
          /\ UNCHANGED focused
    /\ UNCHANGED <<picked, loaded, asks, texts, stack, registry, hashes, marks, jumps, landed,
                   draft, portal, surface>>

-----------------------------------------------------------------------------
(* Jumps.                                                                    *)

\* The editor registered for the file of a comment, whatever its view.
Found(r) == {e \in registry : e.doc = PlaceOf[r].doc}

Lands(r) ==
    /\ focused' = r
    /\ landed' = (landed /\ PlaceOf[r] \in Found(r))

\* runCommentJump looks for the editor at once, before anything is rendered.
JumpBegins ==
    /\ surface = "jumps" /\ Free /\ Turn
    /\ \E r \in Remarks :
        LET to == PlaceOf[r] IN
        /\ Crosswise \/ (Found(r) \subseteq {to} /\ loaded.detail \in {0, to.view})
                     \/ (to.view = 0 /\ Found(r) \subseteq {to})
        /\ IF to.view = 0 THEN Choose(PickChanged(to.doc))
           ELSE Choose([PickCommit(to.view) EXCEPT !.page = to.doc])
        /\ IF Found(r) # {} THEN Lands(r) /\ UNCHANGED jumps
           ELSE jumps' = jumps \cup {r} /\ UNCHANGED <<focused, landed>>
    /\ UNCHANGED <<marks, remarks, draft, portal, surface>>

\* waitForEditor finds it, or has waited long enough.
JumpEnds ==
    /\ \E r \in jumps : /\ jumps' = jumps \ {r}
                        /\ \/ Found(r) # {} /\ Lands(r)
                           \/ UNCHANGED <<focused, landed>>
    /\ UNCHANGED <<viewerVars, marks, remarks, draft, portal, turns, surface>>

-----------------------------------------------------------------------------
(* Drafts.                                                                   *)

\* startDraft: the file of the editor, in the view that is selected.
DraftPlace(e) == Editor(e.doc, ViewOf(picked))

\* The glyph beside a line focuses the file of its editor; the pill of a selection and the
\* key do not.
GlyphStarts(e) == Choose(IF picked.mode = "changes" THEN PickChanged(e.doc) ELSE PickPage(e.doc))
PillStarts(e) == UNCHANGED viewerVars

\* A draft with text elsewhere is given up only when the user agrees.
DraftStarts ==
    /\ surface = "draft" /\ Free /\ Turn
    /\ Crosswise \/ (draft.phase # "saving" /\ loaded.detail \in {0, picked.sha})
    /\ \E e \in registry :
        /\ GlyphStarts(e) \/ PillStarts(e)
        /\ draft' = [place |-> DraftPlace(e), on |-> e, phase |-> "begun"]
    /\ UNCHANGED <<marks, remarks, focused, jumps, landed, portal, surface>>

\* InlineDraftThread is mounted in the editor of the current file alone.
DraftShows == draft.phase # "none" /\ draft.place.doc = Current(picked) /\ Host(registry, picked) # {}

\* onSubmitDraft's answer clears the draft, or leaves its text.
DraftSaved ==
    draft.phase = "saving" /\ \E d \in {NoDraft, [draft EXCEPT !.phase = "typed"]} : draft' = d

DraftActs ==
    /\ \/ DraftShows /\ draft.phase = "begun" /\ draft' = [draft EXCEPT !.phase = "typed"]
       \/ DraftShows /\ draft.phase = "typed" /\ draft' = [draft EXCEPT !.phase = "saving"]
       \/ DraftShows /\ draft' = NoDraft
       \/ DraftSaved
    /\ UNCHANGED <<viewerVars, marks, remarks, focused, jumps, landed, portal, turns, surface>>

-----------------------------------------------------------------------------
(* The portal.                                                               *)

PortalMoves(p) ==
    /\ surface = "portal" /\ portal' = p
    /\ UNCHANGED <<viewerVars, marks, remarks, focused, jumps, landed, draft, surface>>

\* It starts off the screen; the next frame brings it in.
PortalOpens ==
    /\ ~portal.open /\ turns < MaxTurns /\ Turn
    /\ PortalMoves([portal EXCEPT !.open = TRUE, !.leaving = TRUE, !.entry = TRUE, !.ref = FALSE,
                                  !.hears = 0, !.asked = FALSE])

FrameComes ==
    /\ portal.entry /\ UNCHANGED turns
    /\ PortalMoves([portal EXCEPT !.entry = FALSE, !.leaving = FALSE])

\* handleCollapse: the button, Escape or the shortcut.
Collapses ==
    /\ portal.open /\ turns < MaxTurns /\ Turn
    /\ Hurried \/ ~portal.ref
    /\ PortalMoves([portal EXCEPT !.entry = FALSE, !.leaving = TRUE, !.ref = TRUE,
                                  !.timers = @ + 1, !.hears = @ + 1, !.asked = TRUE])

\* The portal unmounts: its frame and the timer it remembers are cancelled.
Unmounts(p) == [p EXCEPT !.open = FALSE, !.entry = FALSE, !.leaving = FALSE, !.ref = FALSE,
                         !.hears = 0, !.asked = FALSE,
                         !.timers = IF p.ref THEN @ - 1 ELSE @]

\* onCollapse, of whichever portal set the timer.
TimerFires ==
    /\ portal.timers > 0 /\ UNCHANGED turns
    /\ PortalMoves(Unmounts([portal EXCEPT !.timers = @ - 1, !.ref = FALSE]))

\* The first listener of the transition's end clears the timer that is remembered.
TransitionEnds ==
    /\ portal.open /\ portal.hears > 0 /\ UNCHANGED turns
    /\ IF portal.ref THEN PortalMoves(Unmounts(portal))
       ELSE PortalMoves([portal EXCEPT !.hears = 0])

\* The files pane closes the review at once.
ClosesAtOnce ==
    /\ portal.open /\ turns < MaxTurns /\ Turn
    /\ PortalMoves(Unmounts(portal))

ScreenNext ==
    \/ ViewerStep \/ PanelReopens \/ TogglesViewed
    \/ RemarkMoves \/ ThreadActs \/ KeysAct
    \/ JumpBegins \/ JumpEnds \/ DraftStarts \/ DraftActs
    \/ PortalOpens \/ FrameComes \/ Collapses \/ TimerFires \/ TransitionEnds \/ ClosesAtOnce

-----------------------------------------------------------------------------
(* Properties.                                                               *)

ScreenTypeOK ==
    /\ surface \in {"marks", "threads", "jumps", "draft", "portal"}
    /\ picked \in [mode : {"changes", "commits"}, changed : Docs \cup {NoDoc},
                   sha : Commits \cup {0}, page : Docs \cup {NoDoc}]
    /\ loaded.diff \in Docs \cup {NoDoc} /\ loaded.text \in Nat /\ loaded.detail \in Commits \cup {0}
    /\ asks \in [diff : BOOLEAN, detail : BOOLEAN]
    /\ stack \in [sha : Commits \cup {0}, opened : SUBSET Docs,
                  cells : [Docs -> {"idle", "loading", "ready", "error"}]]
    /\ registry \subseteq [doc : Docs, view : Commits \cup {0}]
    /\ texts \in [Docs -> Nat] /\ hashes \in [Docs -> Nat] /\ marks \in [Docs -> Nat]
    /\ remarks \in [Remarks -> {"open", "addressed", "gone"}]
    /\ threads \in [Remarks -> {"none", "strip", "shown", "editing", "typed", "saving"}]
    /\ focused \in Remarks \cup {NoRemark} /\ jumps \subseteq Remarks /\ landed \in BOOLEAN
    /\ draft.phase \in {"none", "begun", "typed", "saving"}
    /\ portal.timers \in Nat /\ turns \in 0..MaxTurns

\* The registry knows one editor of a file, and only one that is on the screen: a key, a jump
\* or the content of a file never come from a diff that was closed.
EditorsAreOnScreen ==
    /\ registry \subseteq Slots(picked, loaded, stack)
    /\ \A e, f \in registry : e.doc = f.doc => e = f

\* A comment that is not deleted has a thread exactly while the diff it belongs to is the
\* current one and mounted.
ThreadsInPlace ==
    \A r \in Remarks :
        threads[r] # "none" <=> /\ remarks[r] # "gone" /\ PlaceOf[r] \in registry
                                /\ Current(picked) = PlaceOf[r].doc

\* A file whose diff is mounted shows as viewed exactly when it was marked with what that
\* diff shows: a mark does not outlive the content it was given for.
MarksAreTrue == \A e \in registry : Viewed(e.doc) <=> marks[e.doc] = ContentOf(e)

\* A draft is filed under the diff it was begun in.
DraftsAreAnchored == draft.phase # "none" => draft.place = draft.on

\* A portal nobody asked to close has no timer that would close it; one that was asked
\* to leave has one, so that it goes even when no transition ends.
PortalIsQuiet == portal.open => (portal.asked <=> portal.timers > 0)

\* What the panel shows belongs to the diff it is shown in, and it closes when asked.
ScreenIsTrue ==
    /\ EditorsAreOnScreen /\ ThreadsInPlace /\ MarksAreTrue /\ landed /\ DraftsAreAnchored
    /\ PortalIsQuiet
===================================================================================
