------------------------------- MODULE AgentSkills -------------------------------
(***************************************************************************)
(* Connecting the agents: the install of the bundled skills and of the     *)
(* registration of the MCP server, the rows that show it, the strip that   *)
(* reminds of it, and the tour of the first launch.                        *)
(* src/services/review/agent-skill-installer/, the agentInstall handlers   *)
(* of src/electron/main/ipc.ts, AgentInstallModal.tsx,                     *)
(* IncompleteInstallBanner.tsx, use-agent-install-status.ts and            *)
(* use-install-gap-dismissal.ts of src/src/features/review, and            *)
(* src/src/features/onboarding.                                            *)
(*                                                                         *)
(* One agent, which registers servers with a command of its own (claude,   *)
(* codex) or in a file of its user (ezio).  A version is 0 when the skill  *)
(* is absent, 1 when older than the bundled one or not marked, 2 when it   *)
(* is that one, 3 when newer.  Any read of a file may fail, whatever is in *)
(* it; localStorage works.  `topic` says what a behaviour is about.        *)
(* Auxiliary: touched (somebody else changed the disk since the install     *)
(* began), installing.blind (the skill at hand could not be read), theirs  *)
(* (the user added a server), silenced (the gap that was dismissed),       *)
(* tour.fresh, tour.done, and tour.missed (what an older profile saved was *)
(* not read).                                                              *)
(***************************************************************************)
EXTENDS Naturals, Sequences, FiniteSets, SequencesExt

CONSTANTS Agents,       \* those that the strip may miss
          MaxListing,   \* bound: listings of the providers under way
          MaxHands,     \* bound: changes by somebody else
          Meddles,      \* BOOLEAN: they come between the read and the write of a file
          Overtakes,    \* BOOLEAN: a listing answers before one that was asked earlier
          Early,        \* BOOLEAN: the strip is mounted before the first listing came
          Interrupts    \* BOOLEAN: the app is left while the tour waits

ASSUME ListingAssumption == MaxListing \in Nat

VARIABLES skills,    \* skill -> version
          reg,       \* the registration: "none", or of the url of an "old" run or of "now"
          mcpJson,   \* ezio's file: [is, others]
          backup,    \* a backup has the servers of the user
          cli,       \* [kind, found, override, up]: the agent, and whether our server is
          installing, \* the install under way
          rows,      \* the provider in the window: [known, available, installed, ticked]
          lookups,   \* lookups under way: those asked have no answer yet
          outcome,   \* the line under the provider: "none", "ok" or "failed"
          hands, touched, theirs,
          gap,       \* agents that are there and not connected
          strip,     \* [on, sig, mem]: the signature and the dismissal it renders
          dismissal, \* localStorage
          silenced,
          tour,      \* onboarding: [up, seen, read, checked, view, anchor, force, fresh, done, missed]
          profile,   \* [seen, saved]: localStorage, and whether the file holds a workspace
          topic

skillVars == <<skills, reg, mcpJson, backup, cli, installing, rows, lookups, outcome, hands,
               touched, theirs>>
stripVars == <<gap, strip, dismissal, silenced>>
tourVars == <<tour, profile>>
installVars == <<skillVars, stripVars, tourVars, topic>>

Skills == 1..2
Bundled == 2
NoRow == [known |-> FALSE, available |-> FALSE, installed |-> FALSE, ticked |-> FALSE]
NoJob == [at |-> "idle", i |-> 1, override |-> "none", others |-> FALSE, ok |-> FALSE,
          blind |-> FALSE]

InstallInit ==
    /\ \E v \in 0..3 : skills = [s \in Skills |-> IF s = 1 THEN v ELSE 0]
    /\ \E k \in {"command", "file"}, f, u \in BOOLEAN :
         cli = [kind |-> k, found |-> f, override |-> "none", up |-> u]
    /\ reg \in {"none", "old"} /\ mcpJson = [is |-> "absent", others |-> FALSE] /\ backup = FALSE
    /\ installing = NoJob /\ rows = NoRow
    /\ lookups = <<>> /\ outcome = "none"
    /\ hands = 0 /\ touched = FALSE /\ theirs = FALSE
    /\ gap \in SUBSET Agents /\ strip = [on |-> FALSE, known |-> FALSE, sig |-> {}, mem |-> {}]
    /\ dismissal = {} /\ silenced = {}
    /\ \E s \in BOOLEAN :
         /\ profile = [seen |-> FALSE, saved |-> s]
         /\ tour = [up |-> FALSE, seen |-> FALSE, read |-> "none", checked |-> FALSE, view |-> FALSE,
                    anchor |-> FALSE, force |-> FALSE, fresh |-> ~s, done |-> FALSE, missed |-> FALSE]
    /\ topic \in {"install", "strip", "tour"}
    /\ topic # "install" => skills[1] = 0 /\ cli.kind = "file" /\ cli.found /\ cli.up /\ reg = "none"
    /\ topic # "strip" => gap = {}
    /\ topic # "tour" => ~profile.saved

-----------------------------------------------------------------------------
(* The providers.                                                            *)

\* detectCliPath: an override that exists, or what is found without.
Detected(override) == override = "there" \/ cli.found

\* listProviders
Row == [known |-> TRUE, available |-> Detected(cli.override), installed |-> skills[1] # 0,
        ticked |-> FALSE]

Unanswered == [is |-> "asked", row |-> NoRow, awaited |-> FALSE]

LookupFrame == UNCHANGED <<skills, reg, mcpJson, backup, hands, touched, theirs, stripVars,
                           tourVars, topic>>

\* refresh(), when the app is rendered and whenever the dialog opens.
RefreshProviders ==
    /\ topic = "install" /\ Len(lookups) < MaxListing
    /\ lookups' = Append(lookups, Unanswered)
    /\ UNCHANGED <<cli, installing, rows, outcome>> /\ LookupFrame

\* The disk is read, sooner or later.
ListingReads(i) ==
    /\ lookups[i].is = "asked"
    /\ lookups' = [lookups EXCEPT ![i].is = "read", ![i].row = Row]
    /\ UNCHANGED <<cli, installing, rows, outcome>> /\ LookupFrame

\* The answer replaces what is shown, but for the box that may be ticked by now; the one
\* that an install waited for ends it.
ListingArrives(i) ==
    /\ lookups[i].is = "read" /\ (Overtakes \/ i = 1)
    /\ rows' = [lookups[i].row EXCEPT !.ticked = rows.ticked \/ lookups[i].row.available]
    /\ lookups' = RemoveAt(lookups, i)
    /\ IF lookups[i].awaited
       THEN /\ installing' = NoJob
            /\ outcome' = IF installing.ok THEN "ok" ELSE "failed"
       ELSE UNCHANGED <<installing, outcome>>
    /\ UNCHANGED cli /\ LookupFrame

\* setOverride, of a file that is there: the answer is a listing of its own.
Locate ==
    /\ topic = "install" /\ rows.known /\ ~rows.available /\ installing.at = "idle"
    /\ Len(lookups) < MaxListing
    /\ cli' = [cli EXCEPT !.override = "there"]
    /\ lookups' = Append(lookups, Unanswered)
    /\ UNCHANGED <<installing, rows, outcome>> /\ LookupFrame

-----------------------------------------------------------------------------
(* Install.                                                                  *)

InstallFrame == UNCHANGED <<rows, outcome, hands, theirs, stripVars, tourVars, topic>>

\* The results wait for a listing.
Finishes(ok) ==
    /\ installing' = [installing EXCEPT !.at = "list", !.ok = ok]
    /\ lookups' = Append(lookups, [Unanswered EXCEPT !.awaited = TRUE])

\* With no server to register nothing is done.
BeginInstall ==
    /\ topic = "install" /\ installing.at = "idle" /\ rows.ticked /\ Len(lookups) < MaxListing
    /\ touched' = FALSE
    /\ IF cli.up
       THEN installing' = [NoJob EXCEPT !.at = "detect", !.override = cli.override] /\ UNCHANGED lookups
       ELSE Finishes(FALSE)
    /\ UNCHANGED <<skills, reg, mcpJson, backup, cli>> /\ InstallFrame

\* The overrides were loaded when the install began; the bundled skills are loaded now.
Detect(loaded) ==
    /\ installing.at = "detect"
    /\ IF loaded /\ Detected(IF cli.override = "there" THEN installing.override ELSE "none")
       THEN installing' = [installing EXCEPT !.at = "read"] /\ UNCHANGED lookups
       ELSE Finishes(FALSE)
    /\ UNCHANGED <<skills, reg, mcpJson, backup, cli, touched>> /\ InstallFrame

Onwards == IF installing.i < Cardinality(Skills) THEN [installing EXCEPT !.at = "read", !.i = @ + 1]
           ELSE [installing EXCEPT !.at = IF cli.kind = "command" THEN "remove" ELSE "readJson"]

\* Mutant: a skill that differs is replaced.
WritesOver(v) == v # Bundled

\* decideSkillAction
Writes(v) == v < Bundled

\* guardedWriteSkill, up to the write: a skill that cannot be read counts as absent.
ReadSkill(readable) ==
    /\ installing.at = "read"
    /\ installing' = IF ~readable \/ Writes(skills[installing.i])
                     THEN [installing EXCEPT !.at = "write", !.blind = ~readable] ELSE Onwards
    /\ UNCHANGED <<skills, reg, mcpJson, backup, cli, touched, lookups>> /\ InstallFrame

WriteSkill(ok) ==
    /\ installing.at = "write"
    /\ IF ok THEN /\ skills' = [skills EXCEPT ![installing.i] = Bundled]
                  /\ installing' = Onwards /\ UNCHANGED lookups
       ELSE Finishes(FALSE) /\ UNCHANGED skills
    /\ UNCHANGED <<reg, mcpJson, backup, cli, touched>> /\ InstallFrame

\* `mcp remove`, whether it works or not.
RemoveServer(ok) ==
    /\ installing.at = "remove"
    /\ reg' = IF ok THEN "none" ELSE reg
    /\ installing' = [installing EXCEPT !.at = "add"]
    /\ UNCHANGED <<skills, mcpJson, backup, cli, touched, lookups>> /\ InstallFrame

\* `mcp add` refuses a name it has.
AddServer(ok) ==
    /\ installing.at = "add"
    /\ ok => reg = "none"
    /\ reg' = IF ok THEN "now" ELSE reg
    /\ Finishes(ok)
    /\ UNCHANGED <<skills, mcpJson, backup, cli, touched>> /\ InstallFrame

\* readMcpJson: a file that cannot be parsed is moved away; one that cannot be read, or
\* moved, ends the install.
ReadMcpJson(ok) ==
    /\ installing.at = "readJson"
    /\ CASE ok /\ mcpJson.is = "bad" ->
              /\ mcpJson' = [is |-> "absent", others |-> FALSE]
              /\ backup' = (backup \/ mcpJson.others)
              /\ reg' = "none"
              /\ installing' = [installing EXCEPT !.at = "writeJson", !.others = FALSE]
              /\ UNCHANGED lookups
         [] ok /\ mcpJson.is # "bad" ->
              /\ installing' = [installing EXCEPT !.at = "writeJson", !.others = mcpJson.others]
              /\ UNCHANGED <<mcpJson, backup, reg, lookups>>
         [] OTHER -> Finishes(FALSE) /\ UNCHANGED <<mcpJson, backup, reg>>
    /\ UNCHANGED <<skills, cli, touched>> /\ InstallFrame

WriteMcpJson(ok) ==
    /\ installing.at = "writeJson"
    /\ IF ok THEN mcpJson' = [is |-> "ok", others |-> installing.others] /\ reg' = "now"
       ELSE UNCHANGED <<mcpJson, reg>>
    /\ Finishes(ok)
    /\ UNCHANGED <<skills, backup, cli, touched>> /\ InstallFrame

-----------------------------------------------------------------------------
(* Others: the user and the agent.                                           *)

Hand ==
    /\ topic = "install" /\ hands < MaxHands
    /\ hands' = hands + 1 /\ touched' = TRUE
    /\ UNCHANGED <<backup, installing, rows, lookups, outcome, stripVars, tourVars, topic>>

\* A newer skill is put there, or the skill removed.
HandOnSkill(s, v) ==
    /\ Meddles \/ installing.at # "write"
    /\ skills' = [skills EXCEPT ![s] = v]
    /\ UNCHANGED <<reg, mcpJson, cli, theirs>> /\ Hand

\* A server is added to the file, or a mistake made in it.
HandOnJson(is) ==
    /\ cli.kind = "file" /\ (Meddles \/ installing.at # "writeJson")
    /\ mcpJson.is # "bad"
    /\ mcpJson' = [is |-> is, others |-> TRUE] /\ theirs' = TRUE
    /\ UNCHANGED <<skills, reg, cli>> /\ Hand

\* The command is removed, and the file that was located.
HandOnCli ==
    /\ cli' = [cli EXCEPT !.found = FALSE, !.override = "none"]
    /\ UNCHANGED <<skills, reg, mcpJson, theirs>> /\ Hand

-----------------------------------------------------------------------------
(* The strip that says what is not connected.                                *)

\* installGapSignature, of the providers: none before the first listing.
StripShows == strip.on /\ strip.sig # {} /\ strip.sig # strip.mem

\* reconcileDismissed, with every render: nothing missing forgets what was dismissed.
StripRendered(st) ==
    /\ strip' = IF st.on /\ st.sig = {} THEN [st EXCEPT !.mem = {}] ELSE st
    /\ dismissal' = IF st.on /\ st.sig = {} THEN {} ELSE dismissal

\* The app starts, and its window asks for the providers.
StripLaunch ==
    /\ topic = "strip"
    /\ strip' = [on |-> FALSE, known |-> FALSE, sig |-> {}, mem |-> {}]
    /\ UNCHANGED <<skillVars, gap, dismissal, silenced, tourVars, topic>>

StripMounts ==
    /\ topic = "strip" /\ ~strip.on /\ (Early \/ strip.known)
    /\ StripRendered([strip EXCEPT !.on = TRUE, !.mem = dismissal])
    /\ silenced' = IF strip.known /\ strip.sig = {} THEN {} ELSE silenced
    /\ UNCHANGED <<skillVars, gap, tourVars, topic>>

\* Providers that came; a strip that is there hears of nothing missing.
StripHears ==
    /\ topic = "strip"
    /\ StripRendered([strip EXCEPT !.known = TRUE, !.sig = gap])
    /\ silenced' = IF strip.on /\ gap = {} THEN {} ELSE silenced
    /\ UNCHANGED <<skillVars, gap, tourVars, topic>>

StripDismissed ==
    /\ StripShows
    /\ strip' = [strip EXCEPT !.mem = strip.sig]
    /\ dismissal' = strip.sig /\ silenced' = strip.sig
    /\ UNCHANGED <<skillVars, gap, tourVars, topic>>

GapChanges(g) ==
    /\ topic = "strip"
    /\ gap' = g
    /\ UNCHANGED <<skillVars, strip, dismissal, silenced, tourVars, topic>>

-----------------------------------------------------------------------------
(* The tour.                                                                 *)

\* computeTourVisible
TourVisible ==
    /\ tour.up /\ tour.view
    /\ tour.force \/ (tour.checked /\ tour.anchor /\ ~tour.seen)

\* readRestoreState is asked for once the app is rendered.
TourLaunch ==
    /\ topic = "tour" /\ ~tour.up
    /\ tour' = [tour EXCEPT !.up = TRUE, !.seen = profile.seen, !.read = "asked", !.checked = FALSE,
                            !.view = FALSE, !.anchor = FALSE, !.force = FALSE,
                            !.missed = @ /\ ~profile.saved]
    /\ UNCHANGED <<skillVars, stripVars, profile, topic>>

\* readState: nothing comes of a file that cannot be read or has an unknown version, and one
\* that is no JSON is replaced by an empty one.
TourRead(file) ==
    /\ tour.read = "asked"
    /\ tour' = [tour EXCEPT !.read = IF file = "fine" /\ profile.saved THEN "some" ELSE "none yet",
                            !.missed = @ \/ file # "fine"]
    /\ profile' = [profile EXCEPT !.saved = @ /\ file # "bad"]
    /\ UNCHANGED <<skillVars, stripVars, topic>>

\* shouldRetroMark
Retro == ~profile.seen /\ tour.read = "some"

\* The migration: whoever has workspaces and no mark had the app before the tour; checked
\* even when the read has failed.
TourMarked ==
    /\ tour.read \in {"some", "none yet"}
    /\ profile' = [profile EXCEPT !.seen = @ \/ Retro]
    /\ tour' = [tour EXCEPT !.read = "none", !.checked = TRUE, !.seen = @ \/ Retro]
    /\ UNCHANGED <<skillVars, stripVars, topic>>

\* A repository is loaded or closed; its sidebar is painted, with the first anchor or not yet.
TourView(anchor) ==
    /\ tour.up
    /\ tour' = [tour EXCEPT !.view = ~@, !.anchor = ~tour.view /\ anchor]
    /\ UNCHANGED <<skillVars, stripVars, profile, topic>>

TourMeasured ==
    /\ tour.view /\ ~tour.anchor
    /\ tour' = [tour EXCEPT !.anchor = TRUE]
    /\ UNCHANGED <<skillVars, stripVars, profile, topic>>

WorkspaceSaved ==
    /\ tour.view /\ (Interrupts \/ tour.checked)
    /\ profile' = [profile EXCEPT !.saved = TRUE]
    /\ UNCHANGED <<skillVars, stripVars, tour, topic>>

\* finish: the last step, or Skip.
TourFinished ==
    /\ TourVisible
    /\ profile' = [profile EXCEPT !.seen = TRUE]
    /\ tour' = [tour EXCEPT !.seen = TRUE, !.force = FALSE, !.done = TRUE]
    /\ UNCHANGED <<skillVars, stripVars, topic>>

ReplayTour ==
    /\ tour.up
    /\ tour' = [tour EXCEPT !.force = TRUE]
    /\ UNCHANGED <<skillVars, stripVars, profile, topic>>

TourLeft ==
    /\ tour.up /\ (Interrupts \/ tour.seen \/ ~profile.saved \/ ~tour.fresh)
    /\ tour' = [tour EXCEPT !.up = FALSE, !.read = "none", !.view = FALSE, !.anchor = FALSE]
    /\ UNCHANGED <<skillVars, stripVars, profile, topic>>

InstallNext ==
    \/ RefreshProviders \/ Locate \/ BeginInstall
    \/ \E i \in 1..Len(lookups) : ListingReads(i) \/ ListingArrives(i)
    \/ \E ok \in BOOLEAN : Detect(ok) \/ WriteSkill(ok) \/ RemoveServer(ok) \/ AddServer(ok)
                          \/ ReadSkill(ok) \/ ReadMcpJson(ok) \/ WriteMcpJson(ok)
    \/ \E s \in Skills : \E v \in {0, 3} : HandOnSkill(s, v)
    \/ \E is \in {"ok", "bad"} : HandOnJson(is)
    \/ HandOnCli
    \/ StripLaunch \/ StripMounts \/ StripHears \/ StripDismissed
    \/ \E g \in SUBSET Agents : GapChanges(g)
    \/ \E file \in {"fine", "unread", "bad"} : TourRead(file)
    \/ TourLaunch \/ TourMarked \/ TourMeasured \/ WorkspaceSaved \/ TourFinished
    \/ ReplayTour \/ TourLeft
    \/ \E anchor \in BOOLEAN : TourView(anchor)

-----------------------------------------------------------------------------
InstallTypeOK ==
    /\ skills \in [Skills -> 0..3] /\ reg \in {"none", "old", "now"}
    /\ mcpJson.is \in {"absent", "ok", "bad"} /\ backup \in BOOLEAN
    /\ Len(lookups) <= MaxListing + 1 /\ outcome \in {"none", "ok", "failed"}
    /\ dismissal \subseteq Agents /\ strip.mem \subseteq Agents
    /\ profile \in [seen : BOOLEAN, saved : BOOLEAN]

\* An install that said it went well left both skills, no older than the bundled ones, and
\* the server registered with the address of this run, unless others changed it since.
OkIsInstalled ==
    outcome = "ok" /\ installing.at = "idle" /\ ~touched =>
      reg = "now" /\ \A s \in Skills : skills[s] >= Bundled

\* The servers of the user are in their file, or in a backup of it.
TheirsAreKept == theirs => mcpJson.others \/ backup

\* What was dismissed stays away through any number of starts, until it was seen resolved;
\* another gap is shown.
DismissalHolds == strip.on /\ strip.known => (StripShows <=> strip.sig \notin {{}, silenced})

\* A profile is only marked as having seen the tour when it has, or is older than the tour.
\* One that is older is left alone, in every start in which what it saved could be read,
\* also after starts in which it could not.
TourIsFair ==
    /\ profile.seen => tour.done \/ ~tour.fresh
    /\ TourVisible /\ ~tour.force => tour.fresh \/ tour.done \/ tour.missed

\* No skill is ever replaced by an older one but the skill at hand, when it could not be read.
SkillsAreSafe ==
    [][\A s \in Skills : skills'[s] < skills[s] =>
         skills'[s] = 0 \/ (installing.blind /\ s = installing.i)]_skills

\* What the four above say of a state, and that of every step.
FirstStepsAreSafe == OkIsInstalled /\ TheirsAreKept /\ DismissalHolds /\ TourIsFair
InstallIsSafe == []FirstStepsAreSafe /\ SkillsAreSafe
=================================================================================
