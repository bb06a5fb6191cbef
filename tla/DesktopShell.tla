------------------------------- MODULE DesktopShell -------------------------------
(***************************************************************************)
(* One file in the inline editor and on the disk, and the window around    *)
(* it.  The editor: opening, typing, saving with the modification time as  *)
(* the guard, the conflict dialog and the dialog of the dirty gate         *)
(* (src/src/features/viewer/components/InlineEditor.tsx,                   *)
(* inline-editor-registry.ts and openForEdit and saveFile of               *)
(* src/services/files/file-service.ts).  The window: hide-on-close, the    *)
(* close gate of unsaved files, the two flags of a quit, the installation  *)
(* of an update and the detached insights window                           *)
(* (src/electron/main/close-gate.ts, lifecycle.ts, services/               *)
(* update-service.ts, services/insights-window.ts, index.ts and the        *)
(* runDirtyGate of src/src/app/App.tsx).                                   *)
(*                                                                         *)
(* Texts and modification times are numbers; an agent in a terminal writes *)
(* the file too.  base and over are auxiliary: the text of the disk that   *)
(* the user last loaded or saved, and the one that a save may replace:     *)
(* that, or the one of the conflict the user agreed to overwrite.          *)
(*                                                                         *)
(* What Electron does is external: it asks the window to close, ends a     *)
(* quit that is not prevented, and runs the native updater, which keeps    *)
(* its observer of the windows once a quit for an update has begun.        *)
(***************************************************************************)
EXTENDS Integers

-----------------------------------------------------------------------------
(* The inline editor.                                                      *)

CONSTANTS Nothing,     \* no file open, no conflict, nobody asking
          MaxTexts,    \* bound: texts typed or written by an agent
          Race         \* BOOLEAN: an agent writes between two system calls of a save

VARIABLES disk,        \* [text, mtime]
          texts,       \* how many texts there are
          editor,      \* [loaded, buffer, pristine, mtime, conflict, asker, base]
          opening,     \* Nothing or [at, mtime]: openForEdit under way
          save         \* Nothing or [at, text, mtime, over]: saveFile under way

editorVars == <<disk, texts, editor, opening, save>>

Files == [text : 0..MaxTexts, mtime : Nat]
Openings == [at : {"stat", "read"}, mtime : Nat]
Savings == [at : {"stat", "write", "restat"}, text : 0..MaxTexts, mtime : Nat,
            over : 0..MaxTexts]

ASSUME ShellAssumption ==
    /\ MaxTexts \in Nat
    /\ Nothing \notin Files \cup Openings \cup Savings
    /\ Nothing \notin {"close", "switch", "sent", "asked"}

dirty == editor.loaded /\ editor.buffer # editor.pristine
Saving == save # Nothing

EditorInit ==
    /\ disk = [text |-> 0, mtime |-> 0]
    /\ texts = 0
    /\ editor = [loaded |-> FALSE, buffer |-> 0, pristine |-> 0, mtime |-> 0,
                 conflict |-> Nothing, asker |-> Nothing, base |-> 0]
    /\ opening = [at |-> "stat", mtime |-> 0]
    /\ save = Nothing

\* openForEdit: stat, then the content; first, or to reload after a conflict.
OpenStat ==
    /\ opening # Nothing /\ opening.at = "stat"
    /\ opening' = [at |-> "read", mtime |-> disk.mtime]
    /\ UNCHANGED <<disk, texts, editor, save>>

OpenRead ==
    /\ opening # Nothing /\ opening.at = "read"
    /\ editor' = [editor EXCEPT !.loaded = TRUE, !.buffer = disk.text, !.pristine = disk.text,
                                !.base = disk.text, !.mtime = opening.mtime]
    /\ opening' = Nothing
    /\ UNCHANGED <<disk, texts, save>>

OpenFails ==
    /\ opening # Nothing
    /\ opening' = Nothing
    /\ UNCHANGED <<disk, texts, editor, save>>

\* The model of Monaco changes; undo may bring the saved text back.
Type ==
    /\ editor.loaded /\ editor.asker = Nothing /\ editor.conflict = Nothing
    /\ \/ /\ texts < MaxTexts
          /\ texts' = texts + 1
          /\ editor' = [editor EXCEPT !.buffer = texts + 1]
       \/ /\ editor' = [editor EXCEPT !.buffer = editor.pristine]
          /\ UNCHANGED texts
    /\ UNCHANGED <<disk, opening, save>>

\* An agent, or git, writes the file.
AgentWrites ==
    /\ texts < MaxTexts
    /\ (~Race /\ Saving) => save.at = "stat"
    /\ texts' = texts + 1
    /\ disk' = [text |-> texts + 1, mtime |-> disk.mtime + 1]
    /\ UNCHANGED <<editor, opening, save>>

-----------------------------------------------------------------------------
(* Saving.                                                                   *)

\* runSave(expectedMtimeMs, content).
RunSave(mtime, over) ==
    save' = [at |-> "stat", text |-> editor.buffer, mtime |-> mtime, over |-> over]

\* Command-S.
Save ==
    /\ dirty /\ ~Saving /\ editor.asker = Nothing /\ editor.conflict = Nothing
    /\ RunSave(editor.mtime, editor.base)
    /\ UNCHANGED <<disk, texts, editor, opening>>

\* saveFile: the time of the file is the one the editor knows.
MayWrite == disk.mtime = save.mtime

SaveStat ==
    /\ Saving /\ save.at = "stat" /\ MayWrite
    /\ save' = [save EXCEPT !.at = "write"]
    /\ UNCHANGED <<disk, texts, editor, opening>>

SaveWrite ==
    /\ Saving /\ save.at = "write"
    /\ disk' = [text |-> save.text, mtime |-> disk.mtime + 1]
    /\ save' = [save EXCEPT !.at = "restat"]
    /\ UNCHANGED <<texts, editor, opening>>

\* saveFile ends: well, with a conflict, or with an error.
SavedWell == Saving /\ save.at = "restat"
SaveConflicts == Saving /\ save.at = "stat" /\ ~MayWrite
SaveFails == Saving /\ save.at \in {"stat", "write"}

\* runSave, after the await, and handleSwitchSave.
SaveEnds ==
    /\ \/ /\ SavedWell
          /\ editor' = [editor EXCEPT !.buffer = save.text, !.pristine = save.text,
                                      !.mtime = disk.mtime, !.base = save.text,
                                      !.asker = Nothing]
       \/ /\ SaveConflicts
          /\ editor' = [editor EXCEPT !.conflict = [mtime |-> disk.mtime, text |-> disk.text],
                                      !.asker = Nothing]
       \/ /\ SaveFails
          /\ editor' = [editor EXCEPT !.asker = Nothing]
    /\ save' = Nothing
    /\ UNCHANGED <<disk, texts, opening>>

-----------------------------------------------------------------------------
(* The dialogs.                                                              *)

Overwrite ==
    /\ editor.conflict # Nothing /\ ~Saving
    /\ editor' = [editor EXCEPT !.conflict = Nothing]
    /\ RunSave(editor.conflict.mtime, editor.conflict.text)
    /\ UNCHANGED <<disk, texts, opening>>

Reload ==
    /\ editor.conflict # Nothing
    /\ editor' = [editor EXCEPT !.conflict = Nothing]
    /\ opening' = [at |-> "stat", mtime |-> 0]
    /\ UNCHANGED <<disk, texts, save>>

CancelConflict ==
    /\ editor.conflict # Nothing
    /\ editor' = [editor EXCEPT !.conflict = Nothing]
    /\ UNCHANGED <<disk, texts, opening, save>>

\* handleDiscard.
Discarded == [editor EXCEPT !.buffer = editor.pristine, !.asker = Nothing]

EditorNext ==
    \/ OpenStat \/ OpenRead \/ OpenFails \/ Type \/ AgentWrites
    \/ Save \/ SaveStat \/ SaveWrite
    \/ Overwrite \/ Reload \/ CancelConflict

-----------------------------------------------------------------------------
EditorTypeOK ==
    /\ disk \in Files
    /\ texts \in 0..MaxTexts
    /\ editor \in [loaded : BOOLEAN, buffer : 0..MaxTexts,
                   pristine : 0..MaxTexts, mtime : Nat,
                   conflict : {Nothing} \cup Files,
                   asker : {Nothing, "close", "switch"}, base : 0..MaxTexts]
    /\ opening \in {Nothing} \cup Openings
    /\ save \in {Nothing} \cup Savings

\* A save replaces nothing but the text the user loaded, saved or agreed to overwrite:
\* what an agent wrote into the file since is never lost to a save that did not know of
\* it (saveFile, "mtime-conflict").
NoBlindOverwrite == [][SaveWrite => disk.text = save.over]_editorVars

-----------------------------------------------------------------------------
(* The window.                                                             *)

CONSTANTS Platforms,   \* where the app runs: "darwin", "win32"
          Slow,        \* BOOLEAN: the user may think longer than the 5 s of the gate
          Lag,         \* BOOLEAN: a close may overtake the dirty bit on its way to main
          Stacks       \* BOOLEAN: an updater error leaves the deferred install alive

VARIABLES platform,
          window,      \* "shown", "hidden", "gone"
          alive,       \* the renderer runs
          dirtyBit,    \* what the gate knows of the editor
          prompt,      \* Nothing, "sent" or "asked": pendingWindow and its timer
          quit,        \* [quitting, armed]: createQuitState
          updater,     \* [latch, deferred, observers]
          app          \* [services, dashboard, running]

shellVars == <<editorVars, platform, window, alive, dirtyBit, prompt, quit, updater, app>>

ShellInit ==
    /\ EditorInit
    /\ platform \in Platforms
    /\ window = "shown" /\ alive = TRUE /\ dirtyBit = FALSE /\ prompt = Nothing
    /\ quit = [quitting |-> FALSE, armed |-> FALSE]
    /\ updater = [latch |-> FALSE, deferred |-> 0, observers |-> 0]
    /\ app = [services |-> TRUE, dashboard |-> FALSE, running |-> TRUE]

Present == app.running /\ window # "gone" /\ alive

\* setEditorDirty, from the effect of a transition.
PushDirty ==
    /\ Present /\ dirtyBit # dirty
    /\ dirtyBit' = dirty
    /\ UNCHANGED <<editorVars, platform, window, alive, prompt, quit, updater, app>>

Edit ==
    /\ Present
    /\ EditorNext
    /\ UNCHANGED <<platform, window, alive, dirtyBit, prompt, quit, updater, app>>

-----------------------------------------------------------------------------
(* A window that is asked to close, for the flags q and the app a.           *)

\* The gate prevents the close: a quit, and something unsaved.
Prompts(q) == q.quitting /\ dirtyBit

\* ... or hide-on-close does.
Hides(q) == platform = "darwin" /\ ~q.quitting

\* The window goes: the dashboard goes with it, the services are disposed, and with the
\* last window the app, unless it is a Mac whose quit was prevented before.
Gone(q, a, ends) ==
    /\ window' = "gone"
    /\ prompt' = Nothing
    /\ app' = [services |-> FALSE, dashboard |-> FALSE,
               running |-> a.running /\ platform = "darwin" /\ ~ends /\ ~q.armed]

AskToClose(q, a, ends) ==
    \/ /\ Prompts(q)
       /\ prompt' = IF prompt = Nothing THEN "sent" ELSE prompt
       /\ app' = a /\ UNCHANGED window
    \/ /\ ~Prompts(q) /\ Hides(q)
       /\ window' = "hidden" /\ app' = a /\ UNCHANGED prompt
    \/ ~Prompts(q) /\ ~Hides(q) /\ Gone(q, a, ends)

UserActs == app.running /\ (Lag \/ ~alive \/ dirtyBit = dirty)

\* The red button.
CloseButton ==
    /\ UserActs /\ window = "shown"
    /\ AskToClose(quit, app, FALSE)
    /\ UNCHANGED <<editorVars, platform, alive, dirtyBit, quit, updater>>

\* Command-Q: before-quit stops the services and closes the dashboard, then the windows
\* are asked.
Quit ==
    /\ UserActs
    /\ quit' = [quit EXCEPT !.quitting = TRUE]
    /\ LET stopped == [app EXCEPT !.services = FALSE, !.dashboard = FALSE]
       IN IF window = "gone" THEN /\ app' = [stopped EXCEPT !.running = FALSE]
                                  /\ UNCHANGED <<window, prompt>>
                             ELSE AskToClose(quit', stopped, TRUE)
    /\ UNCHANGED <<editorVars, platform, alive, dirtyBit, updater>>

\* The icon in the Dock.
Activate ==
    /\ app.running /\ platform = "darwin" /\ window = "hidden"
    /\ window' = "shown"
    /\ UNCHANGED <<editorVars, platform, alive, dirtyBit, prompt, quit, updater, app>>

OpenDashboard ==
    /\ Present /\ ~app.dashboard
    /\ app' = [app EXCEPT !.dashboard = TRUE]
    /\ UNCHANGED <<editorVars, platform, window, alive, dirtyBit, prompt, quit, updater>>

CloseDashboard ==
    /\ app.running /\ app.dashboard
    /\ app' = [app EXCEPT !.dashboard = FALSE]
    /\ UNCHANGED <<editorVars, platform, window, alive, dirtyBit, prompt, quit, updater>>

-----------------------------------------------------------------------------
(* The prompt.                                                               *)

\* app:requestClose: the gate asks every mounted editor.  A switch that was waiting on
\* the same dialog loses its resolver.
RequestClose ==
    /\ Present /\ prompt = "sent"
    /\ IF dirty THEN /\ editor' = [editor EXCEPT !.asker = "close"]
                     /\ prompt' = "asked"
                     /\ UNCHANGED <<window, app, quit>>
                ELSE /\ Gone(quit, app, FALSE)
                     /\ UNCHANGED <<editor, quit>>
    /\ UNCHANGED <<disk, texts, opening, save, platform, alive, dirtyBit, updater>>

\* A click into another worktree, gated by the same dialog.
Switch ==
    /\ Present /\ window = "shown" /\ dirty /\ editor.asker = Nothing
    /\ editor.conflict = Nothing
    /\ editor' = [editor EXCEPT !.asker = "switch"]
    /\ UNCHANGED <<disk, texts, opening, save, platform, window, alive, dirtyBit, prompt, quit,
                   updater, app>>

\* confirmClose: the window is destroyed, or a quit for an update is called off.
ConfirmClose(proceed) ==
    IF prompt # Nothing /\ proceed THEN Gone(quit, app, FALSE) /\ UNCHANGED quit
    ELSE /\ prompt' = Nothing
         /\ quit' = IF prompt # Nothing /\ quit.armed THEN [quit EXCEPT !.quitting = FALSE]
                    ELSE quit
         /\ UNCHANGED <<window, app>>

\* The resolver of the dialog is called: main hears of a close, nobody of a switch.
Resolve(proceed) ==
    IF editor.asker = "close" THEN ConfirmClose(proceed)
    ELSE UNCHANGED <<prompt, window, app, quit>>

AnswerDiscard ==
    /\ Present /\ editor.asker # Nothing /\ ~Saving
    /\ editor' = Discarded
    /\ Resolve(TRUE)
    /\ UNCHANGED <<disk, texts, opening, save, platform, alive, dirtyBit, updater>>

AnswerCancel ==
    /\ Present /\ editor.asker # Nothing /\ ~Saving
    /\ editor' = [editor EXCEPT !.asker = Nothing]
    /\ Resolve(FALSE)
    /\ UNCHANGED <<disk, texts, opening, save, platform, alive, dirtyBit, updater>>

AnswerSave ==
    /\ Present /\ editor.asker # Nothing /\ dirty /\ ~Saving
    /\ RunSave(editor.mtime, editor.base)
    /\ UNCHANGED <<disk, texts, editor, opening, platform, window, alive, dirtyBit, prompt, quit,
                   updater, app>>

SaveReturns ==
    /\ Present
    /\ SaveEnds
    /\ Resolve(SavedWell)
    /\ UNCHANGED <<platform, alive, dirtyBit, updater>>

\* Mutant: the timer ends when the editor has heard of the close.
TimerWhenUnheard ==
    /\ prompt = "sent"
    /\ Slow \/ ~alive
    /\ Gone(quit, app, FALSE)
    /\ UNCHANGED <<editorVars, platform, alive, dirtyBit, quit, updater>>

\* The timer of the gate: the window is destroyed.
PromptTimer ==
    /\ prompt # Nothing
    /\ Slow \/ ~alive
    /\ Gone(quit, app, FALSE)
    /\ UNCHANGED <<editorVars, platform, alive, dirtyBit, quit, updater>>

\* The renderer crashes or hangs, with the text in it.
RendererDies ==
    /\ Present
    /\ alive' = FALSE
    /\ UNCHANGED <<editorVars, platform, window, dirtyBit, prompt, quit, updater, app>>

-----------------------------------------------------------------------------
(* The update.                                                               *)

\* installUpdate, "Restart now": an armed quit is resumed, a request under way is enough.
InstallUpdate ==
    /\ Present /\ UserActs
    /\ \/ /\ quit.armed
          /\ quit' = [quit EXCEPT !.quitting = TRUE]
          /\ AskToClose(quit', app, FALSE)
          /\ UNCHANGED updater
       \/ /\ ~quit.armed /\ ~updater.latch
          /\ updater' = [updater EXCEPT !.latch = TRUE, !.deferred = @ + 1]
          /\ UNCHANGED <<window, prompt, quit, app>>
    /\ UNCHANGED <<editorVars, platform, alive, dirtyBit>>

\* The update is fetched: before-quit-for-update, the observer and the sweep of the
\* windows; elsewhere than on a Mac the updater quits the app.
NativeQuit ==
    /\ app.running /\ window # "gone" /\ updater.deferred > 0 /\ UserActs
    /\ quit' = [quitting |-> TRUE, armed |-> TRUE]
    /\ updater' = [updater EXCEPT !.deferred = 0, !.observers = @ + updater.deferred]
    /\ AskToClose(quit', IF platform = "darwin" THEN app
                         ELSE [app EXCEPT !.services = FALSE, !.dashboard = FALSE], TRUE)
    /\ UNCHANGED <<editorVars, platform, alive, dirtyBit>>

UpdaterError ==
    /\ app.running /\ updater.latch
    /\ updater' = [updater EXCEPT !.latch = FALSE,
                                  !.deferred = IF Stacks THEN @ ELSE 0]
    /\ UNCHANGED <<editorVars, platform, window, alive, dirtyBit, prompt, quit, app>>

ShellNext ==
    \/ Edit \/ PushDirty \/ Switch
    \/ CloseButton \/ Quit \/ Activate \/ OpenDashboard \/ CloseDashboard
    \/ RequestClose \/ AnswerDiscard \/ AnswerCancel \/ AnswerSave \/ SaveReturns
    \/ PromptTimer \/ RendererDies
    \/ InstallUpdate \/ NativeQuit \/ UpdaterError

-----------------------------------------------------------------------------
ShellTypeOK ==
    /\ EditorTypeOK
    /\ platform \in Platforms
    /\ window \in {"shown", "hidden", "gone"} /\ alive \in BOOLEAN /\ dirtyBit \in BOOLEAN
    /\ prompt \in {Nothing, "sent", "asked"}
    /\ quit \in [quitting : BOOLEAN, armed : BOOLEAN]
    /\ updater \in [latch : BOOLEAN, deferred : Nat, observers : Nat]
    /\ app \in [services : BOOLEAN, dashboard : BOOLEAN, running : BOOLEAN]

\* "App quit (Command-Q / window close) with dirty buffer: main prevents close": a window
\* that went while its renderer ran took no text with it that the user neither saved nor
\* discarded.
UnsavedIsKept == window = "gone" /\ alive => ~dirty

\* On a Mac, where the window hides instead, that is so whatever the quit came from.
QuitAsksFirst == platform = "darwin" => UnsavedIsKept

\* Electron's observer of the windows is registered once, however often an update is
\* installed, called off, retried after an error and resumed (createUpdateQuitGuard,
\* installRequestPending), and the quit it belongs to is known.
ObserverOnce == updater.observers <= 1 /\ (updater.observers = 1 <=> quit.armed)

\* After a prompt for an update was cancelled the red button hides again, for as long as
\* no plain quit was started (resetAbortedUpdateQuit).
CancelledUpdateHides ==
    prompt = Nothing /\ quit.quitting /\ app.services => window = "gone"

\* A prompt ends even when its renderer is not there to answer it, so that the app can
\* always be quit (replyTimeoutMs).
CloseSettles == (prompt # Nothing /\ ~alive) ~> (window = "gone")

\* A quit asks first, hides again when it is called off, and is registered once.
QuitIsOrderly == QuitAsksFirst /\ ObserverOnce /\ CancelledUpdateHides

\* Quitting is orderly, it ends, and the editor overwrites nothing it has not shown.
ClosingIsSafe == []QuitIsOrderly /\ NoBlindOverwrite /\ CloseSettles
=============================================================================
