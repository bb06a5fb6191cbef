-------------------------------- MODULE Settings --------------------------------
(***************************************************************************)
(* The settings file and those who show what is in it:                     *)
(* src/services/settings/settings-service.ts, the settings handlers of     *)
(* src/electron/main/ipc.ts, src/electron/main/services/                   *)
(* usage-settings-bridge.ts and, in the renderer,                          *)
(* src/src/app/hooks/use-settings.tsx and                                  *)
(* src/src/features/terminals/hooks/use-terminal-font-size.ts.             *)
(*                                                                         *)
(* A setting is worth the number of the patch that set it last, so a       *)
(* larger number is newer.  The renderer's calls reach the main process in *)
(* the order they are made and are handled at once up to the write, so a   *)
(* patch and its merge are one action; what comes back waits in post.      *)
(* `acked` and `failed` are auxiliary: the patches that were acknowledged, *)
(* and whether one was not written since the file was last read.           *)
(***************************************************************************)
EXTENDS Integers, Sequences

CONSTANTS MaxPatches,  \* bound: patches
          Peeks        \* BOOLEAN: a read of the file overlaps a write

VARIABLES file,        \* [kind, val]: settings.json
          current,     \* the service: what the next patch is merged into
          writing,     \* writeChain: the patches that are not on disk yet
          usageSnap,   \* the bridge: what a usage worker would start with
          post,        \* what the main process has sent to the renderer
          dialog,      \* SettingsProvider: [shown, seq, pending]
          fontHook,    \* useTerminalFontSize: [shown, pending]
          reading,     \* readState() that has read and not yet assigned
          issued, acked, failed

settingsVars == <<file, current, writing, usageSnap, post, dialog, fontHook, reading,
                  issued, acked, failed>>

\* What a patch may name: the terminal font, the usage telemetry, and what only the
\* main process writes (the notice of insights that was shown).
Setting == {"font", "usage", "notice"}
Defaults == [k \in Setting |-> 0]

Readable == [kind |-> "ok", val |-> Defaults]

\* parseSettingsFile and seedFromLegacy: a file nobody can read is replaced, one of
\* another version is left alone, and both give the defaults.
AsRead(f) == IF f.kind = "ok" THEN f.val ELSE Defaults
AfterRead(f) == IF f.kind \in {"missing", "corrupt"} THEN Readable ELSE f

SettingsInit ==
    /\ \E kind \in {"missing", "corrupt", "unknown", "ok"} :
         file = AfterRead([kind |-> kind, val |-> Defaults])
    /\ current = AsRead(file) /\ usageSnap = current.usage
    /\ writing = <<>> /\ post = <<>> /\ reading = <<>>
    /\ dialog = [shown |-> current, seq |-> 0, pending |-> 0]
    /\ fontHook = [shown |-> current.font, pending |-> 0]
    /\ issued = 0 /\ acked = Defaults /\ failed = FALSE

-----------------------------------------------------------------------------
(* Patches.                                                                  *)

\* writeState up to its first await.
Merge(k, from, seq) ==
    /\ issued < MaxPatches
    /\ Peeks \/ reading = <<>>
    /\ issued' = issued + 1
    /\ current' = [current EXCEPT ![k] = issued + 1]
    /\ writing' = Append(writing, [key |-> k, val |-> current', from |-> from, seq |-> seq])
    /\ UNCHANGED <<file, usageSnap, post, reading, acked, failed>>

\* update() of the settings dialog.
DialogPatch(k) ==
    /\ k # "notice"
    /\ Merge(k, "dialog", dialog.seq + 1)
    /\ dialog' = [shown |-> [dialog.shown EXCEPT ![k] = issued + 1],
                  seq |-> dialog.seq + 1, pending |-> dialog.pending + 1]
    /\ UNCHANGED fontHook

\* A step of the font menu.
FontPatch ==
    /\ Merge("font", "font", 0)
    /\ fontHook' = [shown |-> issued + 1, pending |-> fontHook.pending + 1]
    /\ UNCHANGED dialog

\* The usage popover, by way of the host and the bridge; and the main process itself.
HostPatch(from) ==
    /\ Merge(IF from = "popover" THEN "usage" ELSE "notice", from, 0)
    /\ UNCHANGED <<dialog, fontHook>>

-----------------------------------------------------------------------------
(* Writes.                                                                   *)

Changed(val) == [kind |-> "changed", from |-> "main", seq |-> 0, val |-> val]
Reply(kind, w) == [kind |-> kind, from |-> w.from, seq |-> w.seq, val |-> w.val]
Invoked(w) == w.from \in {"dialog", "font"}

\* What follows a write that was kept: settings:write applies the usage settings, tells
\* the windows and answers; the bridge tells the window.
Told(w) == CASE Invoked(w) -> <<Changed(w.val), Reply("merged", w)>>
             [] w.from \in {"popover", "gone"} -> <<Changed(w.val)>>
             [] OTHER -> <<>>

Persisted ==
    /\ writing # <<>>
    /\ LET w == Head(writing)
       IN /\ file' = [kind |-> "ok", val |-> w.val]
          /\ post' = post \o Told(w)
          /\ usageSnap' = IF w.from # "quiet" /\ w.key = "usage" THEN w.val.usage ELSE usageSnap
          /\ acked' = [acked EXCEPT ![w.key] = w.val[w.key]]
    /\ writing' = Tail(writing)
    /\ UNCHANGED <<current, dialog, fontHook, reading, issued, failed>>

\* The disk is full: the old file stays and the next write goes ahead.
PersistRejected ==
    /\ writing # <<>>
    /\ LET w == Head(writing)
       IN post' = IF Invoked(w) THEN Append(post, Reply("failed", w)) ELSE post
    /\ writing' = Tail(writing)
    /\ failed' = TRUE
    /\ UNCHANGED <<file, current, usageSnap, dialog, fontHook, reading, issued, acked>>

-----------------------------------------------------------------------------
(* The renderer hears of it.                                                 *)

\* Mutant: every answer is adopted.
DialogAfterAny(m) ==
    LET d == [dialog EXCEPT !.pending = @ - 1]
    IN IF m.kind = "merged" THEN [d EXCEPT !.shown = m.val] ELSE d

\* The merged settings are adopted from the answer to the last patch alone.
DialogAfter(m) ==
    LET d == [dialog EXCEPT !.pending = @ - 1]
    IN IF m.kind = "merged" /\ m.seq = d.seq /\ d.pending = 0
       THEN [d EXCEPT !.shown = m.val] ELSE d

Receive ==
    /\ post # <<>>
    /\ LET m == Head(post)
       IN \/ /\ m.from = "dialog"
             /\ dialog' = DialogAfter(m) /\ UNCHANGED fontHook
          \/ /\ m.from = "font"
             /\ fontHook' = [fontHook EXCEPT !.pending = @ - 1] /\ UNCHANGED dialog
          \/ /\ m.kind = "changed"
             /\ dialog' = IF dialog.pending > 0 THEN dialog ELSE [dialog EXCEPT !.shown = m.val]
             /\ fontHook' = IF fontHook.pending > 0 THEN fontHook
                            ELSE [fontHook EXCEPT !.shown = m.val.font]
    /\ post' = Tail(post)
    /\ UNCHANGED <<file, current, writing, usageSnap, reading, issued, acked, failed>>

-----------------------------------------------------------------------------
(* The file is read again.                                                   *)

NoneUnderWay == writing = <<>> /\ reading = <<>>

\* readState() of a poll, a push or the phone: it reads, and assigns what it has read.
PeekBegins ==
    /\ reading = <<>>
    /\ Peeks \/ writing = <<>>
    /\ reading' = <<AsRead(file)>>
    /\ UNCHANGED <<file, current, writing, usageSnap, post, dialog, fontHook, issued, acked,
                   failed>>

PeekEnds ==
    /\ reading # <<>>
    /\ current' = reading[1]
    /\ reading' = <<>>
    /\ UNCHANGED <<file, writing, usageSnap, post, dialog, fontHook, issued, acked, failed>>

\* The window is loaded again: readStateSync; what was posted to the old page is lost.
ReloadWindow ==
    /\ Peeks \/ NoneUnderWay
    /\ file' = AfterRead(file)
    /\ current' = AsRead(file)
    /\ dialog' = [shown |-> current', seq |-> 0, pending |-> 0]
    /\ fontHook' = [shown |-> current'.font, pending |-> 0]
    /\ post' = <<>>
    /\ writing' = [i \in DOMAIN writing |-> IF Invoked(writing[i])
                                           THEN [writing[i] EXCEPT !.from = "gone"]
                                           ELSE writing[i]]
    /\ UNCHANGED <<usageSnap, reading, issued, acked, failed>>

\* The application ends, whatever it was writing, and starts again.
Relaunch ==
    /\ file' = AfterRead(file)
    /\ current' = AsRead(file) /\ usageSnap' = current'.usage
    /\ dialog' = [shown |-> current', seq |-> 0, pending |-> 0]
    /\ fontHook' = [shown |-> current'.font, pending |-> 0]
    /\ writing' = <<>> /\ post' = <<>> /\ reading' = <<>> /\ failed' = FALSE
    /\ UNCHANGED <<issued, acked>>

SettingsNext ==
    \/ \E k \in Setting : DialogPatch(k)
    \/ FontPatch \/ \E from \in {"popover", "quiet"} : HostPatch(from)
    \/ Persisted \/ PersistRejected \/ Receive
    \/ PeekBegins \/ PeekEnds \/ ReloadWindow \/ Relaunch

-----------------------------------------------------------------------------
Valued == [Setting -> 0..MaxPatches]

SettingsTypeOK ==
    /\ file \in [kind : {"ok", "unknown"}, val : Valued]
    /\ current \in Valued /\ acked \in Valued
    /\ \A i \in DOMAIN writing :
         writing[i] \in [key : Setting, val : Valued, seq : 0..MaxPatches,
                         from : {"dialog", "font", "popover", "quiet", "gone"}]
    /\ dialog \in [shown : Valued, seq : 0..MaxPatches, pending : 0..MaxPatches]
    /\ fontHook \in [shown : 0..MaxPatches, pending : 0..MaxPatches]

\* A patch that was acknowledged is never lost: neither the file nor what the next patch
\* is merged into goes back behind it (usage-settings-bridge.ts, "a partial patch can't
\* clobber the other two fields").
PatchesAreKept ==
    \A k \in Setting : /\ acked[k] <= current[k]
                       /\ file.kind = "ok" => acked[k] <= file.val[k]

\* When nothing is under way and no write was refused, the dialog, the font menu, the
\* bridge and the file agree.
SettingsAgree ==
    writing = <<>> /\ post = <<>> /\ reading = <<>> /\ ~failed =>
        /\ file.kind = "ok" => file.val = current
        /\ \A k \in Setting \ {"notice"} : dialog.shown[k] = current[k]
        /\ fontHook.shown = current.font
        /\ usageSnap = current.usage
        /\ dialog.pending = 0 /\ fontHook.pending = 0

\* Nothing the user set is shown to them with an older value again, unless a patch could
\* not be written or the window is loaded afresh.
NeverRewound ==
    [][\/ \A k \in Setting : dialog.shown[k] <= dialog'.shown[k]
       \/ failed \/ ReloadWindow \/ Relaunch]_settingsVars

\* Patches are kept, everybody ends up with the same settings, and none is rewound.
SettingsAreHonest == []PatchesAreKept /\ []SettingsAgree /\ NeverRewound
=================================================================================
