---------------------------- MODULE DesktopProofs ----------------------------
(***************************************************************************)
(* Proofs about Desktop: the switch and the feed of a plugin (Plugins),    *)
(* the ledger and the budget of token usage (Usage), the review comments   *)
(* (ReviewComments), the saved workspaces at a start (WorkspaceStartup),   *)
(* the settings (Settings), the agents' bridges (AgentBridges), the        *)
(* install of the skills (AgentSkills), the consent, outbox and worker of  *)
(* the insights (Insights) and the editor, the window and its quits        *)
(* (DesktopShell), for any agents, logs, comments, spans, texts,           *)
(* repositories and bounds.                                                *)
(*                                                                         *)
(* Each part has an inductive invariant of its own, and a section that     *)
(* proves it inductive over that part's steps; the last section puts them  *)
(* together for the program, whose every step moves one part.              *)
(***************************************************************************)
EXTENDS Desktop, SequenceTheorems, FiniteSetTheorems, TLAPS


-----------------------------------------------------------------------------
(* The plugin: its switch, its chain, its feed.                              *)

Switches == [disk : BOOLEAN, memory : BOOLEAN, mute : BOOLEAN, writes : Nat]
Chains == [jobs : Nat, waits : BOOLEAN, enabled : BOOLEAN \cup {Unknown},
           hit : Results \cup {Unknown}]
PlugEntries == [probe : Results \cup {Unknown}, running : BOOLEAN, degraded : BOOLEAN]
Feeds == [live : BOOLEAN, reads : Nat, dialing : Nat, held : BOOLEAN, open : Nat,
          dead : BOOLEAN, shown : {"nothing", "polling", "socket"}]

\* What the proofs need of the types; the bounds play no part.
SwitchTypes ==
    /\ config \in Switches /\ chain \in Chains /\ entry \in PlugEntries
    /\ quitting \in BOOLEAN

FeedTypes == feed \in Feeds /\ (feed.held => feed.open > 0)

\* A file that says something else than the memory has a report under way that is not the
\* one to be ignored.
FileInv ==
    /\ config.mute => config.writes > 0
    /\ config.disk # config.memory => config.writes > (IF config.mute THEN 1 ELSE 0)

\* The last reconciliation of the chain works with the switch as it is.
ChainInv ==
    /\ chain.waits => chain.jobs > 0 /\ chain.enabled \in BOOLEAN
    /\ chain.waits /\ chain.jobs = 1 => chain.enabled = config.memory
    /\ entry.running => entry.probe = "installed" /\ ~entry.degraded
    /\ chain.jobs = 0 /\ ~quitting =>
         (entry.running <=> (config.memory /\ entry.probe = "installed" /\ ~entry.degraded))

SwitchInv == SwitchTypes /\ FileInv /\ ChainInv

\* One attach at most is under way, and none once a socket is held.
FeedInv ==
    /\ feed.dialing <= 1
    /\ feed.dialing > 0 => ~feed.held
    /\ FeedIsHonest

LEMMA PluginsStart == PluginsInit => SwitchInv /\ FeedTypes /\ FeedInv
<1> SUFFICES ASSUME PluginsInit PROVE SwitchInv /\ FeedTypes /\ FeedInv  OBVIOUS
<1>1. config \in Switches /\ quitting \in BOOLEAN
  <2>1. PICK on \in BOOLEAN :
           config = [disk |-> on, memory |-> on, mute |-> FALSE, writes |-> 0]
    BY DEF PluginsInit
  <2> QED  BY <2>1 DEF PluginsInit, Switches
<1>2. chain \in Chains  BY DEF PluginsInit, Chains
<1>3. entry \in PlugEntries  BY DEF PluginsInit, PlugEntries
<1>4. FeedTypes  BY DEF PluginsInit, Feeds, FeedTypes
<1>5. FileInv /\ ChainInv  BY DEF PluginsInit, FileInv, ChainInv
<1>6. FeedInv  BY DEF PluginsInit, FeedInv, FeedIsHonest
<1> QED  BY <1>1, <1>2, <1>3, <1>4, <1>5, <1>6 DEF SwitchInv, SwitchTypes

\* The end of a reconciliation: its job leaves the chain, and the plugin runs if the switch
\* that it read and the probe say so, and it started.
LEMMA ReconciledSwitch ==
    ASSUME SwitchInv, NEW found \in Results, chain.waits, Reconciled(found), JobDone,
           UNCHANGED <<config, quitting>>
    PROVE  SwitchInv'
<1> USE DEF SwitchInv, SwitchTypes
<1>2. chain' \in Chains /\ ~chain'.waits /\ chain'.jobs = chain.jobs - 1  BY DEF Chains, JobDone, ChainInv
<1>3. chain'.jobs = 0 => chain.enabled = config.memory
  BY <1>2 DEF ChainInv, Chains
<1>4. ASSUME chain.enabled, found = "installed", NEW up \in BOOLEAN,
             entry' = [probe |-> found, running |-> up, degraded |-> ~up]
      PROVE  SwitchInv'  BY <1>2, <1>3, <1>4 DEF ChainInv, FileInv, PlugEntries
<1>5. CASE /\ ~(chain.enabled /\ found = "installed") /\ entry.running
           /\ entry' = [entry EXCEPT !.probe = found, !.running = FALSE]
  BY <1>2, <1>3, <1>5 DEF ChainInv, FileInv, PlugEntries
<1>6. CASE /\ (chain.enabled /\ found = "installed") = entry.running
           /\ entry' = [entry EXCEPT !.probe = found]
  BY <1>2, <1>3, <1>6 DEF ChainInv, FileInv, PlugEntries, Chains
<1>7. CASE entry' = [probe |-> found, running |-> TRUE, degraded |-> FALSE]
           /\ chain.enabled /\ found = "installed"
  BY <1>4, <1>7
<1>8. CASE entry' = [probe |-> found, running |-> FALSE, degraded |-> TRUE]
           /\ chain.enabled /\ found = "installed"
  BY <1>4, <1>8
<1> QED  BY <1>5, <1>6, <1>7, <1>8 DEF Reconciled

LEMMA RejectedSwitch ==
    ASSUME SwitchInv, chain.waits, Rejected, JobDone, UNCHANGED <<config, quitting>>
    PROVE  SwitchInv'
<1> USE DEF SwitchInv, SwitchTypes
<1> QED  BY DEF Rejected, ChainInv, FileInv, PlugEntries, Chains, JobDone

LEMMA SwitchStep == SwitchInv /\ [PluginsNext]_pluginVars => SwitchInv'
<1> SUFFICES ASSUME SwitchInv, [PluginsNext]_pluginVars PROVE SwitchInv'  OBVIOUS
<1> USE DEF SwitchInv, SwitchTypes
<1>0. /\ config.writes + 1 \in Nat /\ chain.jobs + 1 \in Nat
      /\ config.writes > 0 => config.writes - 1 \in Nat
  BY DEF Switches, Chains
<1>a. Queued \in Chains /\ Queued.jobs = chain.jobs + 1 /\ Queued.waits = chain.waits
      /\ Queued.enabled = chain.enabled
  BY <1>0 DEF Queued, Chains
<1>1. ASSUME NEW on \in BOOLEAN, SetEnabled(on) PROVE SwitchInv'
  <2>1. config' \in Switches /\ config'.disk = on /\ config'.memory = on
        /\ config'.writes = config.writes + 1
    BY <1>0, <1>1 DEF SetEnabled, Switches
  <2> QED  BY <1>a, <1>1, <2>1 DEF SetEnabled, FileInv, ChainInv, Switches, Chains
<1>2. CASE EditFile
  <2>1. config' \in Switches  BY <1>0, <1>2 DEF EditFile, Switches
  <2> QED  BY <1>2, <2>1 DEF EditFile, FileInv, ChainInv, Switches
<1>3. CASE WatchEvent
  <2>1. CASE config.mute
    <3>1. config' \in Switches  BY <1>0, <1>3, <2>1 DEF WatchEvent, Switches
    <3>2. /\ config'.disk = config.disk /\ config'.memory = config.memory /\ ~config'.mute
          /\ config'.writes = config.writes - 1
      BY <1>3, <2>1 DEF WatchEvent, Switches
    <3>3. FileInv'  BY <2>1, <3>1, <3>2 DEF FileInv, Switches
    <3> QED  BY <1>3, <2>1, <3>1, <3>2, <3>3 DEF WatchEvent, ChainInv
  <2>2. CASE ~config.mute
    <3>1. config' \in Switches  BY <1>0, <1>3, <2>2 DEF WatchEvent, Switches
    <3>2. config'.memory = config'.disk /\ ~config'.mute
      BY <1>3, <2>2 DEF WatchEvent, Switches
    <3> QED
      BY <1>a, <1>3, <2>2, <3>1, <3>2 DEF WatchEvent, FileInv, ChainInv, Switches, Chains
  <2> QED  BY <2>1, <2>2
<1>4. CASE Reprobe  BY <1>a, <1>4 DEF Reprobe, FileInv, ChainInv, Chains
<1>5. CASE Reconcile  BY <1>5 DEF Reconcile, FileInv, ChainInv, Switches, Chains
<1>6. CASE Probed
  <2>2. CASE Rejected  BY <1>6, <2>2, RejectedSwitch DEF Probed
  <2>3. ASSUME NEW found \in Results, Reconciled(found) PROVE SwitchInv'
    BY <1>6, <2>3, ReconciledSwitch DEF Probed
  <2> QED  BY <1>6, <2>2, <2>3 DEF Probed, Chains
<1>7. CASE Expire \/ BinaryChanges  BY <1>7 DEF Expire, BinaryChanges, FileInv, ChainInv
<1>8. CASE ReadStore \/ Publish  BY <1>8 DEF ReadStore, Publish, FileInv, ChainInv
<1>9. CASE Attached \/ NotAttached \/ SocketCloses \/ RetryTimer
  BY <1>9 DEF Attached, NotAttached, SocketCloses, RetryTimer, FileInv, ChainInv
<1>10. CASE StopAll  BY <1>10 DEF StopAll, FileInv, ChainInv, PlugEntries
<1>11. CASE UNCHANGED pluginVars  BY <1>11 DEF pluginVars, FileInv, ChainInv
<1> QED
  BY <1>1, <1>2, <1>3, <1>4, <1>5, <1>6, <1>7, <1>8, <1>9, <1>10, <1>11 DEF PluginsNext

\* The methods of the driver keep the feed what it is.
LEMMA StartedFeed ==
    ASSUME FeedTypes, feed' = Started
    PROVE  FeedTypes' /\ (FeedInv /\ ~entry.running /\ entry'.running => FeedInv')
<1>1. feed.reads + 1 \in Nat  BY DEF FeedTypes, Feeds
<1> QED  BY <1>1 DEF FeedTypes, Feeds, Started, FeedInv, FeedIsHonest

LEMMA StoppedFeed ==
    ASSUME FeedTypes, feed' = Stopped
    PROVE  FeedTypes' /\ (FeedInv /\ entry'.running = FALSE => FeedInv')
<1>1. feed.held => feed.open - 1 \in Nat  BY DEF FeedTypes, Feeds
<1>2. feed' \in Feeds /\ feed'.held = FALSE /\ feed'.live = FALSE /\ feed'.shown = "nothing"
      /\ feed'.dialing = feed.dialing
      /\ feed'.open = IF feed.held THEN feed.open - 1 ELSE feed.open
  BY <1>1 DEF FeedTypes, Feeds, Stopped
<1>4. ASSUME FeedInv, entry'.running = FALSE PROVE FeedInv'
  <2>2. feed'.open = 0  BY <1>2, <1>4 DEF FeedInv, FeedIsHonest
  <2> QED  BY <1>2, <1>4, <2>2 DEF FeedInv, FeedIsHonest
<1> QED  BY <1>2, <1>4 DEF FeedTypes

LEMMA FeedStep ==
    ASSUME FeedTypes, SwitchInv, [PluginsNext]_pluginVars
    PROVE  FeedTypes' /\ (Eager = FALSE /\ FeedInv => FeedInv')
<1> DEFINE Follows == FeedTypes' /\ (Eager = FALSE /\ FeedInv => FeedInv')
<1>0. entry \in PlugEntries  BY DEF SwitchInv, SwitchTypes
<1>1. /\ feed.dialing + 1 \in Nat /\ feed.open + 1 \in Nat /\ feed.reads + 1 \in Nat
      /\ feed.dialing > 0 => feed.dialing - 1 \in Nat
      /\ feed.reads > 0 => feed.reads - 1 \in Nat
      /\ feed.open > 0 => feed.open - 1 \in Nat
  BY DEF FeedTypes, Feeds
<1>2. CASE feed' = feed /\ entry'.running = entry.running
  BY <1>2 DEF FeedTypes, FeedInv, FeedIsHonest
<1>3. ASSUME NEW on \in BOOLEAN, SetEnabled(on) PROVE Follows  BY <1>2, <1>3 DEF SetEnabled
<1>4. CASE EditFile \/ WatchEvent \/ Reprobe \/ Reconcile \/ Expire \/ BinaryChanges
  BY <1>2, <1>4 DEF EditFile, WatchEvent, Reprobe, Reconcile, Expire, BinaryChanges
<1>5. CASE Probed
  <2>1. CASE Rejected
    <3>1. entry'.running = FALSE  BY <2>1 DEF Rejected
    <3> QED  BY <1>2, <2>1, <3>1, StoppedFeed, <1>0 DEF Rejected, PlugEntries
  <2>2. ASSUME NEW found, Reconciled(found) PROVE Follows
    <3>1. CASE ~entry.running /\ feed' = Started /\ entry'.running
      BY <3>1, StartedFeed
    <3>2. CASE entry'.running = FALSE /\ feed' = Stopped  BY <3>2, StoppedFeed
    <3>3. CASE feed' = feed /\ entry'.running = entry.running  BY <1>2, <3>3
    <3>4. CASE /\ ~entry.running
               /\ entry' = [probe |-> found, running |-> TRUE, degraded |-> FALSE]
               /\ feed' = Started
      BY <3>1, <3>4
    <3>7. CASE /\ ~entry.running
               /\ entry' = [probe |-> found, running |-> FALSE, degraded |-> TRUE]
               /\ UNCHANGED feed
      BY <1>0, <3>3, <3>7 DEF PlugEntries
    <3>5. CASE /\ entry.running
               /\ entry' = [entry EXCEPT !.probe = found, !.running = FALSE]
               /\ feed' = Stopped
      BY <1>0, <3>2, <3>5 DEF PlugEntries
    <3>6. CASE entry' = [entry EXCEPT !.probe = found] /\ UNCHANGED feed
      BY <1>0, <3>3, <3>6 DEF PlugEntries
    <3> QED  BY <2>2, <3>4, <3>5, <3>6, <3>7 DEF Reconciled
  <2> QED  BY <1>5, <2>1, <2>2 DEF Probed
<1>6. CASE ReadStore  BY <1>1, <1>6 DEF ReadStore, FeedTypes, Feeds, FeedInv, FeedIsHonest
<1>7. CASE Publish
  <2>1. feed' \in Feeds  BY <1>1, <1>7 DEF Publish, FeedTypes, Feeds
  <2> QED  BY <1>7, <2>1 DEF Publish, Quiet, FeedTypes, Feeds, FeedInv, FeedIsHonest
<1>8. CASE Attached
  <2>1. feed' \in Feeds  BY <1>1, <1>8 DEF Attached, FeedTypes, Feeds
  <2> QED  BY <1>8, <2>1 DEF Attached, FeedTypes, Feeds, FeedInv, FeedIsHonest
<1>9. CASE NotAttached
  <2>1. feed' \in Feeds  BY <1>1, <1>9 DEF NotAttached, FeedTypes, Feeds
  <2> QED  BY <1>9, <2>1 DEF NotAttached, FeedTypes, Feeds, FeedInv, FeedIsHonest
<1>10. CASE SocketCloses
  <2>1. feed' \in Feeds  BY <1>1, <1>10 DEF SocketCloses, FeedTypes, Feeds
  <2> QED  BY <1>10, <2>1 DEF SocketCloses, FeedTypes, Feeds, FeedInv, FeedIsHonest
<1>11. CASE RetryTimer
  BY <1>11 DEF RetryTimer, FeedTypes, Feeds, FeedInv, FeedIsHonest
<1>12. CASE StopAll
  <2>2. CASE feed' = Stopped  BY <1>0, <1>12, <2>2, StoppedFeed DEF StopAll, PlugEntries
  <2>3. CASE feed' = feed /\ ~entry.running  BY <1>0, <1>2, <1>12, <2>3 DEF PlugEntries, StopAll
  <2> QED  BY <1>12, <2>2, <2>3 DEF StopAll
<1>13. CASE UNCHANGED pluginVars  BY <1>2, <1>13 DEF pluginVars
<1> QED
  BY <1>3, <1>4, <1>5, <1>6, <1>7, <1>8, <1>9, <1>10, <1>11, <1>12, <1>13 DEF PluginsNext

LEMMA SwitchInvIsObeyed == SwitchInv => SwitchIsObeyed
  BY DEF SwitchInv, SwitchTypes, Switches, Chains, PlugEntries, FileInv, ChainInv,
         SwitchIsObeyed, Status


-----------------------------------------------------------------------------
(* Token usage: the ledger, and the budget of the forks.                     *)

LedgerEntries == [off : Nat, fresh : BOOLEAN, part : {Sealed} \cup Int]
Ledgers == [ledger : [Log -> Int], cache : [Log -> {Absent} \cup LedgerEntries]]
Passes == [todo : Seq(Log), sealed : BOOLEAN, rebuilt : BOOLEAN, first : BOOLEAN]

UsageTypes ==
    /\ lines \in [Log -> Nat]
    /\ mem \in Ledgers /\ saved \in Ledgers
    /\ pass # Absent => pass \in Passes

\* An entry e for a log of n lines, of which g are in the ledger: all that lies before the
\* offset.  One that is not fresh has something to read or its log was rotated away; what is
\* dropped from a sealed one was read to its end.
ExactEntry(e, g, n) ==
    IF e = Absent THEN g = 0
    ELSE /\ g = e.off
         /\ IF e.fresh THEN e.off = n ELSE e.off < n \/ n = 0
         /\ IF e.part = Sealed THEN e.off >= n ELSE e.part = e.off

Exact(s) == \A f \in Log : ExactEntry(s.cache[f], s.ledger[f], lines[f])

LedgerInv == UsageTypes /\ Exact(mem) /\ Exact(saved)

Hosts == [enabled : BOOLEAN, proc : {Absent, "forked", "up"}, reforks : Nat,
          gaveUp : BOOLEAN, asked : BOOLEAN, forks : Nat]

BudgetInv ==
    /\ host \in Hosts
    /\ host.reforks <= MaxReforks
    /\ host.forks <= host.reforks + 1
    /\ host.proc = Absent <=> (~host.enabled \/ host.gaveUp)
    /\ host.asked => host.proc # Absent

LEMMA FreshIsExact ==
    ASSUME lines \in [Log -> Nat]
    PROVE  /\ Fresh \in Ledgers
           /\ Exact(Fresh)
<1> QED  BY DEF Exact, ExactEntry, Fresh, Ledgers

LEMMA UsageStart == UsageInit => LedgerInv /\ BudgetInv
<1> SUFFICES ASSUME UsageInit PROVE LedgerInv /\ BudgetInv  OBVIOUS
<1> QED  BY FreshIsExact, HostAssumption DEF UsageInit, BudgetInv, Hosts, LedgerInv, UsageTypes

\* A log that was written to has an entry that is not fresh any more.
LEMMA AgedEntry ==
    ASSUME NEW s \in Ledgers,
           NEW f \in Log
    PROVE  /\ Aged(s, f) \in Ledgers
           /\ Aged(s, f).ledger = s.ledger
           /\ \A g \in Log \ {f} : Aged(s, f).cache[g] = s.cache[g]
           /\ s.cache[f] = Absent => Aged(s, f).cache[f] = Absent
           /\ s.cache[f] # Absent =>
                /\ Aged(s, f).cache[f] # Absent /\ ~Aged(s, f).cache[f].fresh
                /\ Aged(s, f).cache[f].off = s.cache[f].off
                /\ Aged(s, f).cache[f].part = s.cache[f].part
<1>1. CASE s.cache[f] = Absent  BY <1>1 DEF Aged
<1>2. CASE s.cache[f] # Absent
  <2> DEFINE e == [s.cache[f] EXCEPT !.fresh = FALSE]
             c == [s.cache EXCEPT ![f] = e]
  <2>2. /\ e \in LedgerEntries /\ e.fresh = FALSE /\ e.off = s.cache[f].off
        /\ e.part = s.cache[f].part  BY <1>2 DEF LedgerEntries, Ledgers
  <2>3. e # Absent  BY <2>2, EntryAssumption DEF LedgerEntries
  <2>4. Aged(s, f) = [s EXCEPT !.cache = c]  BY <1>2 DEF Aged
  <2> HIDE DEF e
  <2>5. /\ c \in [Log -> {Absent} \cup LedgerEntries] /\ c[f] = e
        /\ \A g \in Log \ {f} : c[g] = s.cache[g]
    BY <2>2 DEF Ledgers
  <2> HIDE DEF c
  <2>6. /\ Aged(s, f) \in Ledgers
        /\ Aged(s, f).ledger = s.ledger /\ Aged(s, f).cache = c
    BY <2>4, <2>5 DEF Ledgers
  <2> QED  BY <1>2, <2>2, <2>3, <2>5, <2>6
<1> QED  BY <1>1, <1>2

LEMMA AgedIsExact ==
    ASSUME NEW s \in Ledgers,
           lines \in [Log -> Nat], Exact(s), NEW f \in Log, NEW n \in Nat,
           lines' = [lines EXCEPT ![f] = n],
           \/ n = 0
           \/ n = lines[f] + 1 /\ ~Behind(s, f) /\ ~IsSealed(s, f)
    PROVE  \A g \in Log : ExactEntry(Aged(s, f).cache[g], Aged(s, f).ledger[g], lines'[g])
<1>1. ASSUME NEW g \in Log \ {f}
      PROVE ExactEntry(Aged(s, f).cache[g], Aged(s, f).ledger[g], lines'[g])
  BY <1>1, AgedEntry DEF Exact
<1>2. ExactEntry(Aged(s, f).cache[f], Aged(s, f).ledger[f], n)
  <2>1. CASE s.cache[f] = Absent  BY <2>1, AgedEntry DEF Exact, ExactEntry
  <2>2. CASE s.cache[f] # Absent
    <3>3. CASE n = 0  BY <2>2, <3>3, AgedEntry DEF ExactEntry, LedgerEntries, Exact, Ledgers
    <3>4. CASE n = lines[f] + 1 /\ ~Behind(s, f) /\ ~IsSealed(s, f)
      BY <2>2, <3>4, AgedEntry DEF ExactEntry, LedgerEntries, Behind, IsSealed, Exact, Ledgers
    <3> QED  BY <3>3, <3>4
  <2> QED  BY <2>1, <2>2
<1> QED  BY <1>1, <1>2

\* What a log is worth once it was read to its end.
LEMMA ReadToEnd ==
    ASSUME UsageTypes, Exact(mem), NEW f \in Log,
           ~(mem.cache[f] # Absent /\ mem.cache[f].fresh),
           ~(IsSealed(mem, f) /\ Behind(mem, f))
    PROVE  /\ EntryOf(f).gain \in Int /\ EntryOf(f).part = lines[f]
           /\ mem.ledger[f] + EntryOf(f).gain = lines[f]
<1>1. lines[f] \in Nat /\ mem.ledger[f] \in Int
      /\ ExactEntry(mem.cache[f], mem.ledger[f], lines[f])
  BY DEF UsageTypes, Exact, Ledgers
<1>2. CASE mem.cache[f] = Absent  BY <1>1, <1>2 DEF EntryOf, ExactEntry
<1>3. CASE mem.cache[f] # Absent
  <2> DEFINE e == mem.cache[f]
  <2>1. e \in LedgerEntries  BY <1>3 DEF UsageTypes, Ledgers
  <2>2. e.off \in Nat /\ (e.part # Sealed => e.part \in Int)  BY <2>1 DEF LedgerEntries
  <2>3. CASE e.off <= lines[f] /\ e.part = Sealed
    BY <1>1, <1>3, <2>1, <2>2, <2>3 DEF EntryOf, ExactEntry, LedgerEntries
  <2>4. CASE e.off <= lines[f] /\ e.part # Sealed
    BY <1>1, <1>3, <2>1, <2>2, <2>4 DEF EntryOf, ExactEntry, LedgerEntries
  <2>5. CASE e.off > lines[f]
    <3>1. e.part # Sealed  BY <1>3, <2>5 DEF IsSealed, Behind
    <3> QED  BY <1>1, <1>3, <2>1, <2>2, <2>5, <3>1 DEF EntryOf, ExactEntry, LedgerEntries
  <2> QED  BY <1>1, <2>2, <2>3, <2>4, <2>5
<1> QED  BY <1>2, <1>3

LEMMA ProcessIsExact ==
    ASSUME UsageTypes, Exact(mem), NEW f \in Log, Process(f),
           ~(IsSealed(mem, f) /\ Behind(mem, f)), lines' = lines
    PROVE  mem' \in Ledgers /\ Exact(mem)'
<1>1. CASE UNCHANGED mem  BY <1>1 DEF UsageTypes, Exact, Ledgers
<1>2. CASE mem' # mem
  <2> DEFINE e == [off |-> lines[f], fresh |-> TRUE, part |-> EntryOf(f).part]
             led == [mem.ledger EXCEPT ![f] = @ + EntryOf(f).gain]
             cac == [mem.cache EXCEPT ![f] = e]
  <2>1. /\ ~(mem.cache[f] # Absent /\ mem.cache[f].fresh)
        /\ mem' = [ledger |-> led, cache |-> cac]
    BY <1>2 DEF Process, Unreadable
  <2>2. /\ EntryOf(f).gain \in Int /\ EntryOf(f).part = lines[f]
        /\ mem.ledger[f] + EntryOf(f).gain = lines[f]
    BY <2>1, ReadToEnd
  <2>3. lines[f] \in Nat  BY DEF UsageTypes
  <2>4. e \in LedgerEntries /\ e # Absent /\ e.part # Sealed /\ e.off = lines[f]
        /\ e.fresh = TRUE /\ e.part = e.off
    <3>1. e \in LedgerEntries  BY <2>2, <2>3 DEF LedgerEntries
    <3>3. e.part # Sealed  BY <2>2, <2>3, EntryAssumption
    <3> QED  BY <2>2, <3>1, EntryAssumption, <3>3 DEF LedgerEntries
  <2> HIDE DEF e
  <2>6. /\ led \in [Log -> Int] /\ led[f] = lines[f]
        /\ \A g \in Log \ {f} : led[g] = mem.ledger[g]
    BY <2>2, <2>3 DEF UsageTypes, Ledgers
  <2>7. /\ cac \in [Log -> {Absent} \cup LedgerEntries] /\ cac[f] = e
        /\ \A g \in Log \ {f} : cac[g] = mem.cache[g]
    BY <2>4 DEF UsageTypes, Ledgers
  <2> HIDE DEF led, cac
  <2>8. mem' \in Ledgers /\ mem'.ledger = led /\ mem'.cache = cac
    BY <2>1, <2>6, <2>7 DEF Ledgers
  <2>9. \A g \in Log : ExactEntry(cac[g], led[g], lines[g])  BY <2>3, <2>4, <2>6, <2>7 DEF Exact, ExactEntry
  <2> QED  BY <2>8, <2>9 DEF Exact
<1> QED  BY <1>1, <1>2

\* A sweep goes on with the logs that are left.
LEMMA TodoShrinks ==
    ASSUME UsageTypes, pass # Absent, pass.todo # <<>>, NEW sealed \in BOOLEAN
    PROVE  /\ Head(pass.todo) \in Log
           /\ [pass EXCEPT !.todo = Tail(pass.todo)] \in Passes
           /\ [pass EXCEPT !.todo = Tail(pass.todo), !.sealed = sealed] \in Passes
<1>2. Head(pass.todo) \in Log /\ Tail(pass.todo) \in Seq(Log)  BY DEF UsageTypes, Passes
<1> QED  BY <1>2 DEF Passes, UsageTypes

LEMMA NewPassTyped == ASSUME NEW b \in BOOLEAN PROVE NewPass(b) \in Passes
  BY LogsAssumption DEF NewPass, Passes, Log

LEMMA IdlePass == ASSUME Idle PROVE pass' # Absent => pass' \in Passes
  BY NewPassTyped DEF Idle

LEMMA LedgerStep ==
    ASSUME Reseal = FALSE, Regrow = FALSE, LedgerInv, [UsageNext]_usageVars
    PROVE  LedgerInv'
<1> USE DEF LedgerInv
<1>1. ASSUME NEW f \in Log, AppendLine(f) \/ Rotate(f) PROVE LedgerInv'
  <2>1. lines[f] \in Nat /\ lines \in [Log -> Nat]  BY DEF UsageTypes
  <2>3. PICK m \in Nat :
            /\ lines' = [lines EXCEPT ![f] = m]
            /\ \/ m = 0
               \/ /\ m = lines[f] + 1
                  /\ ~Behind(mem, f) /\ ~IsSealed(mem, f)
                  /\ ~Behind(saved, f) /\ ~IsSealed(saved, f)
    BY <1>1, <2>1 DEF AppendLine, Rotate
  <2>4. mem' = Aged(mem, f) /\ saved' = Aged(saved, f) /\ pass' = pass
    BY <1>1 DEF AppendLine, Rotate
  <2>5. mem' \in Ledgers /\ saved' \in Ledgers  BY <2>4, AgedEntry DEF UsageTypes
  <2>6. Exact(mem)'  BY <2>1, <2>3, <2>4, AgedIsExact DEF UsageTypes, Exact
  <2>7. Exact(saved)'  BY <2>1, <2>3, <2>4, AgedIsExact DEF UsageTypes, Exact
  <2>8. lines' \in [Log -> Nat]  BY <2>1, <2>3
  <2> QED  BY <2>4, <2>5, <2>6, <2>7, <2>8 DEF UsageTypes
<1>2. ASSUME UNCHANGED <<lines, mem, saved>>, pass' # Absent => pass' \in Passes
      PROVE  LedgerInv'
  BY <1>2 DEF UsageTypes, Exact
<1>3. ASSUME NEW f \in Log, Spoil(f) PROVE LedgerInv'
  BY <1>2, <1>3 DEF Spoil, UsageTypes
<1>4. CASE Sweep  BY <1>2, <1>4, NewPassTyped DEF Sweep, UsageTypes
<1>5. CASE ScanLog
  <2> DEFINE f == Head(pass.todo)
  <2>4. CASE UNCHANGED mem  BY <1>2, <1>5, TodoShrinks, <2>4 DEF ScanLog
  <2>5. CASE Process(f) /\ ~(IsSealed(mem, f) /\ Behind(mem, f))
    BY <1>5, TodoShrinks, <2>5, ProcessIsExact DEF UsageTypes, Exact, ScanLog
  <2> QED  BY <1>5, <2>4, <2>5 DEF ScanLog
<1>6. ASSUME UNCHANGED <<lines, saved>>, mem' \in {saved, Fresh},
             pass' # Absent => pass' \in Passes
      PROVE  LedgerInv'
  <2>2. mem' \in Ledgers /\ Exact(mem)'
    <3>1. CASE mem' = saved  BY <1>6, <3>1 DEF UsageTypes, Exact
    <3>2. CASE mem' = Fresh  BY <1>6, <3>2, FreshIsExact DEF Exact, UsageTypes
    <3> QED  BY <1>6, <3>1, <3>2
  <2> QED  BY <1>6, <2>2 DEF UsageTypes, Exact
<1>7. CASE ScanFails \/ PersistFails
  BY <1>6, <1>7, IdlePass DEF ScanFails, PersistFails, Reloaded
<1>8. CASE Rebuild  BY <1>6, <1>8, LogsAssumption DEF Rebuild, UsageTypes, Passes, Log
<1>9. CASE Persist
  <2>1. PICK old \in SUBSET {f \in Log : mem.cache[f] # Absent} :
            /\ \A f \in old : mem.cache[f].off >= lines[f]
            /\ mem' = [mem EXCEPT !.cache =
                  [f \in Log |-> IF f \in old THEN [@[f] EXCEPT !.part = Sealed] ELSE @[f]]]
    BY <1>9 DEF Persist
  <2> DEFINE cac == [f \in Log |-> IF f \in old THEN [mem.cache[f] EXCEPT !.part = Sealed]
                                   ELSE mem.cache[f]]
  <2>3. ASSUME NEW f \in Log
        PROVE  cac[f] \in {Absent} \cup LedgerEntries
               /\ ExactEntry(cac[f], mem.ledger[f], lines[f])
    <3>2. CASE f \notin old  BY <3>2 DEF Exact, UsageTypes, Ledgers
    <3>3. CASE f \in old
      <4> DEFINE e == [mem.cache[f] EXCEPT !.part = Sealed]
      <4>2. /\ e \in LedgerEntries /\ e.part = Sealed /\ e.off = mem.cache[f].off
            /\ e.fresh = mem.cache[f].fresh  BY <2>1, <3>3 DEF LedgerEntries, Exact, UsageTypes, Ledgers
      <4>3. cac[f] = e  BY <3>3
      <4> HIDE DEF e, cac
      <4>4. Absent \notin LedgerEntries  BY EntryAssumption DEF LedgerEntries
      <4>5. ExactEntry(e, mem.ledger[f], lines[f])
        BY <2>1, <3>3, <4>2, <4>4 DEF ExactEntry, Exact, UsageTypes, Ledgers
      <4> QED  BY <4>2, <4>3, <4>5
    <3> QED  BY <3>2, <3>3
  <2>4. mem' = [mem EXCEPT !.cache = cac] /\ cac = [f \in Log |-> cac[f]]  BY <2>1
  <2> HIDE DEF cac
  <2>5. mem' \in Ledgers /\ mem'.ledger = mem.ledger /\ mem'.cache = cac
    BY <2>3, <2>4 DEF UsageTypes, Ledgers
  <2>6. Exact(mem)'  BY <1>9, IdlePass, <2>3, <2>5 DEF Exact, Persist
  <2>7. Exact(saved)'  BY <1>9, IdlePass, <2>6 DEF Exact, Persist
  <2> QED  BY <1>9, IdlePass, <2>5, <2>6, <2>7 DEF UsageTypes, Persist
<1>10. CASE Spawned  BY <1>6, <1>10, NewPassTyped DEF Spawned
<1>11. CASE Exit  BY <1>6, <1>11 DEF Exit, Forgotten
<1>12. CASE QueryRange  BY <1>2, <1>12 DEF QueryRange, UsageTypes
<1>13. ASSUME NEW on \in BOOLEAN, SetTelemetry(on) PROVE LedgerInv'
  <2>1. CASE on  BY <1>2, <1>13, <2>1 DEF SetTelemetry, UsageTypes
  <2>2. CASE ~on  BY <1>6, <1>13, <2>2 DEF SetTelemetry, Forgotten
  <2> QED  BY <2>1, <2>2
<1>14. CASE UNCHANGED usageVars  BY <1>2, <1>14 DEF usageVars, UsageTypes
<1> QED
  BY <1>1, <1>3, <1>4, <1>5, <1>7, <1>8, <1>9, <1>10, <1>11, <1>12, <1>13, <1>14
     DEF UsageNext

LEMMA BudgetStep == BudgetInv /\ [UsageNext]_usageVars => BudgetInv'
<1> SUFFICES ASSUME BudgetInv, [UsageNext]_usageVars PROVE BudgetInv'  OBVIOUS
<1> USE HostAssumption DEF BudgetInv
<1>0. host.reforks + 1 \in Nat /\ host.forks + 1 \in Nat /\ host.forks \in Nat
  BY DEF Hosts
<1>1. CASE UNCHANGED host  BY <1>1
<1>2. ASSUME host' = [host EXCEPT !.reforks = 0, !.forks = 0] PROVE BudgetInv'
  <2>1. host' \in Hosts  BY <1>2 DEF Hosts
  <2> QED  BY <1>2, <2>1 DEF Hosts
<1>3. CASE Persist  BY <1>1, <1>2, <1>3 DEF Persist
<1>4. CASE Spawned  BY <1>4 DEF Spawned, Hosts
<1>5. CASE Exit
  <2>1. CASE host.reforks >= MaxReforks  BY <1>5, <2>1 DEF Hosts, Exit
  <2>2. CASE ~(host.reforks >= MaxReforks)
    <3>2. host' \in Hosts  BY <1>0, <1>5, <2>2 DEF Hosts, Exit, Forked
    <3>4. host.enabled /\ ~host.gaveUp  BY <1>5 DEF Exit, Hosts
    <3>5. host'.reforks <= MaxReforks /\ host'.forks <= host'.reforks + 1  BY <2>2, <1>5 DEF Hosts, Exit, Forked
    <3> QED  BY <3>2, <1>5, <2>2, <3>4, <3>5 DEF Hosts, Exit, Forked
  <2> QED  BY <2>1, <2>2
<1>6. ASSUME NEW on \in BOOLEAN, SetTelemetry(on) PROVE BudgetInv'
  <2>1. CASE ~on  BY <1>6, <2>1 DEF Hosts, SetTelemetry
  <2>2. CASE on /\ host.enabled  BY <1>1, <1>6, <2>2 DEF SetTelemetry, MayStart, Hosts
  <2>3. CASE on /\ ~host.enabled
    <3> DEFINE h == [host EXCEPT !.enabled = TRUE, !.reforks = 0, !.gaveUp = FALSE, !.forks = 0]
    <3>1. host' = [h EXCEPT !.proc = "forked", !.forks = @ + 1]
      BY <1>6, <2>3 DEF SetTelemetry, MayStart, Forked, Hosts
    <3>2. h \in Hosts /\ h.enabled /\ ~h.gaveUp /\ h.reforks = 0 /\ h.forks = 0
      BY DEF Hosts
    <3> HIDE DEF h
    <3>4. host' = [h EXCEPT !.proc = "forked", !.forks = 1]  BY <3>1, <3>2
    <3>5. host' \in Hosts  BY <3>2, <3>4 DEF Hosts
    <3> QED  BY <3>2, <3>4, <3>5 DEF Hosts
  <2> QED  BY <2>1, <2>2, <2>3
<1>7. CASE QueryRange  BY <1>7 DEF QueryRange, Hosts
<1>8. ASSUME NEW f \in Log, AppendLine(f) \/ Rotate(f) \/ Spoil(f) PROVE BudgetInv'
  BY <1>1, <1>8 DEF AppendLine, Rotate, Spoil
<1>9. CASE Sweep \/ ScanLog \/ ScanFails \/ Rebuild \/ PersistFails
  BY <1>1, <1>9 DEF Sweep, ScanLog, ScanFails, Rebuild, PersistFails
<1>10. CASE UNCHANGED usageVars  BY <1>1, <1>10 DEF usageVars
<1> QED  BY <1>3, <1>4, <1>5, <1>6, <1>7, <1>8, <1>9, <1>10 DEF UsageNext

LEMMA LedgerInvIsExact == LedgerInv => LedgerIsExact
<1> SUFFICES ASSUME LedgerInv, NEW s \in {mem, saved}, NEW f \in Log
             PROVE  /\ s.ledger[f] = IF s.cache[f] = Absent THEN 0 ELSE s.cache[f].off
                    /\ s.cache[f] # Absent /\ s.cache[f].fresh => s.cache[f].off = lines[f]
  BY DEF LedgerIsExact
<1> QED  BY DEF ExactEntry, LedgerInv, Exact

LEMMA BudgetInvIsHonest == BudgetInv => BudgetIsHonest
  BY HostAssumption DEF BudgetInv, BudgetIsHonest, Hosts


-----------------------------------------------------------------------------
(* The review comments.                                                      *)

Remark == [at : Places, status : {"open", "addressed"}, text : {"first", "other"}]
Offers == {<<>>} \cup (Comments \X Remark)
SavesUnderWay == [all : AllComments, offer : Offers]
Notices == {[kind |-> "changed"]} \cup [kind : {"list"}, all : AllComments]

ReviewTypes ==
    /\ comments \in AllComments /\ savedOnes \in AllComments
    /\ saves \in Seq(SavesUnderWay)
    /\ inbox \in Seq(Notices)
    /\ pane \in [at : Places, shown : AllComments]
    /\ undo \in Offers

\* One save at most is under way, of the comments as they are.
SavesInv ==
    \/ saves = <<>> /\ (refused \/ savedOnes = comments)
    \/ Len(saves) = 1 /\ saves[1].all = comments

\* The pane will be right: it is, or the last list that is on its way is, or one will be
\* asked for, or a save will tell of it.
PaneInv ==
    \/ saves # <<>> \/ refused
    \/ inbox = <<>> /\ pane.shown = Here(comments, pane.at)
    \/ inbox # <<>> /\ inbox[Len(inbox)].kind = "changed"
    \/ inbox # <<>> /\ inbox[Len(inbox)] = Listed(pane.at)

LEMMA HereTyped ==
    ASSUME NEW all \in AllComments, NEW p
    PROVE  Here(all, p) \in AllComments
  BY DEF Here, AllComments

LEMMA ListedTyped ==
    ASSUME comments \in AllComments, NEW p
    PROVE  Listed(p) \in Notices /\ Listed(p).kind = "list" /\ Listed(p).all = Here(comments, p)
  BY HereTyped DEF Listed, Notices

LEMMA ReviewStart == ReviewInit => ReviewTypes /\ SavesInv /\ PaneInv
<1> SUFFICES ASSUME ReviewInit PROVE ReviewTypes /\ SavesInv /\ PaneInv  OBVIOUS
<1> QED
  BY PlacesAssumption DEF ReviewInit, SavesInv, PaneInv, Here, NoComments, AllComments, ReviewTypes, Offers

\* One save less.
LEMMA SaveLeaves ==
    ASSUME saves \in Seq(SavesUnderWay), NEW i \in DOMAIN saves
    PROVE  /\ Without(i) \in Seq(SavesUnderWay)
           /\ Len(saves) = 1 => Without(i) = <<>>
<1>3. Without(i) \in [1..(Len(saves) - 1) -> SavesUnderWay]  BY DEF Without
<1>5. Len(saves) = 1 => Len(Without(i)) = 0  BY <1>3, SeqDef, LenProperties
<1> QED  BY <1>3, SeqDef, <1>5, EmptySeq

\* A change of the comments, and the save that begins.
LEMMA ChangeKeeps ==
    ASSUME ReviewTypes, NEW all \in AllComments, NEW offer \in Offers,
           SaveComments(all, offer), undo' \in Offers
    PROVE  /\ ReviewTypes'
           /\ Piles = FALSE => SavesInv' /\ PaneInv'
<1> DEFINE one == [all |-> all, offer |-> offer]
<1> HIDE DEF one
<1>3. saves' \in Seq(SavesUnderWay) /\ Len(saves') = Len(saves) + 1
      /\ saves'[Len(saves) + 1] = one  BY DEF ReviewTypes, SaveComments, one, SavesUnderWay
<1>5. Piles = FALSE => Len(saves') = 1 /\ saves'[1].all = comments'
  BY <1>3 DEF SaveComments, one, SavesUnderWay
<1> QED  BY <1>3, <1>5 DEF SavesInv, PaneInv, ReviewTypes, SaveComments, one

LEMMA ReviewStep ==
    ASSUME ReviewTypes, [ReviewNext]_reviewVars
    PROVE  /\ ReviewTypes'
           /\ Piles = FALSE /\ SavesInv /\ PaneInv => SavesInv' /\ PaneInv'
<1> DEFINE Goal == /\ ReviewTypes'
                   /\ Piles = FALSE /\ SavesInv /\ PaneInv => SavesInv' /\ PaneInv'
<1>0. comments \in AllComments /\ pane.at \in Places /\ pane.shown \in AllComments
  BY DEF ReviewTypes
<1>a. <<>> \in Offers  BY DEF Offers
<1>1. ASSUME NEW all \in AllComments, Change(all) PROVE Goal
  BY <1>1, <1>a, ChangeKeeps DEF Change, ReviewTypes
<1>2. ASSUME UNCHANGED <<comments, savedOnes, saves, inbox, pane, changes, refused>>,
             undo' \in Offers
      PROVE  Goal
  BY <1>2 DEF ReviewTypes, SavesInv, PaneInv, Here, Listed
<1>3. ASSUME NEW c \in Comments, Create(c) PROVE Goal  BY <1>1, <1>3, <1>0 DEF Create, AllComments
<1>4. ASSUME NEW c \in Comments, MarkAddressed(c) PROVE Goal
  BY <1>1, <1>4, <1>0 DEF MarkAddressed, AllComments, Remark
<1>5. ASSUME NEW c \in Comments, Toggle(c) PROVE Goal
  <2>1. CASE pane.shown[c].status = "open"  BY <1>4, <1>5, <2>1 DEF Toggle
  <2>2. CASE pane.shown[c].status # "open"
    <3>2. [comments[c] EXCEPT !.status = "open"] \in Remark  BY <1>0, <1>5, <2>2 DEF Remark, Toggle, AllComments
    <3> QED  BY <1>1, <1>5, <2>2, <1>0, <3>2 DEF Toggle, AllComments, Remark
  <2> QED  BY <2>1, <2>2
<1>6. ASSUME NEW c \in Comments, Rewrite(c) PROVE Goal  BY <1>1, <1>6, <1>0 DEF Rewrite, AllComments, Remark
<1>7. ASSUME NEW c \in Comments, Delete(c) PROVE Goal
  <2> DEFINE offer == <<c, pane.shown[c]>>
  <2>1. offer \in Offers  BY <1>0, <1>7 DEF Delete, Offers, AllComments, Remark
  <2>2. CASE comments[c] # NoComment
    <3>2. SaveComments([comments EXCEPT ![c] = NoComment], offer) /\ undo' \in Offers
      BY <1>7, <2>2 DEF Delete, ReviewTypes
    <3> HIDE DEF offer
    <3> QED  BY <2>1, <1>0, <3>2, ChangeKeeps DEF AllComments
  <2>3. CASE comments[c] = NoComment  BY <1>2, <1>7, <2>1, <2>3 DEF Delete
  <2> QED  BY <2>2, <2>3
<1>8. CASE Undo
  <2>1. undo \in Comments \X Remark /\ undo' \in Offers
    BY <1>a, <1>8 DEF Undo, ReviewTypes, Offers
  <2>2. CASE comments[undo[1]] = NoComment
    <3>1. [comments EXCEPT ![undo[1]] = undo[2]] \in AllComments
      BY <1>0, <2>1 DEF AllComments, Remark
    <3>2. SaveComments([comments EXCEPT ![undo[1]] = undo[2]], <<>>)
      BY <1>8, <2>2 DEF Undo
    <3> QED  BY <1>a, <2>1, <3>1, <3>2, ChangeKeeps
  <2>3. CASE comments[undo[1]] # NoComment  BY <1>2, <1>8, <2>1, <2>3 DEF Undo
  <2> QED  BY <2>2, <2>3
<1>9. CASE UndoExpires  BY <1>a, <1>2, <1>9 DEF UndoExpires
<1>10. CASE ClearAddressed  BY <1>1, <1>10, <1>0 DEF ClearAddressed, AllComments
<1>11. ASSUME NEW p \in Places, RemovePlace(p) PROVE Goal  BY <1>1, <1>11, <1>0 DEF RemovePlace, AllComments
<1>12. ASSUME NEW p \in Places, NEW q \in Places, Rebase(p, q) PROVE Goal
  BY <1>1, <1>12, <1>0 DEF Rebase, AllComments, Remark
<1>13. ASSUME NEW p \in Places, Select(p) PROVE Goal
  <2>2. inbox' = Append(inbox, Listed(p)) /\ pane' = [pane EXCEPT !.at = p]
        /\ UNCHANGED <<comments, savedOnes, saves, undo, refused>>
    BY <1>13 DEF Select
  <2>3. inbox' \in Seq(Notices) /\ Len(inbox') = Len(inbox) + 1 /\ Len(inbox) \in Nat
        /\ inbox'[Len(inbox')] = Listed(p)  BY <1>0, ListedTyped, <2>2 DEF ReviewTypes
  <2>5. ReviewTypes'  BY <2>2, <2>3, <1>0 DEF ReviewTypes
  <2>6. Listed(pane.at)' = Listed(p)  BY <2>2, <1>0 DEF Listed, Here, ReviewTypes
  <2>7. inbox' # <<>>  BY <2>3
  <2> QED  BY <2>2, <2>3, <2>5, <2>6, <2>7 DEF SavesInv, PaneInv
<1>14. ASSUME NEW i \in DOMAIN saves, Saved(i) \/ SaveRejected(i) PROVE Goal
  <2>1. saves' = Without(i) /\ UNCHANGED <<comments, pane>>
    BY <1>14 DEF Saved, SaveRejected
  <2>3. saves[i] \in SavesUnderWay  BY DEF ReviewTypes
  <2>5. CASE Saved(i)
    <3> DEFINE m == [kind |-> "changed"]
    <3>1. m \in Notices /\ m.kind = "changed"  BY DEF Notices
    <3> HIDE DEF m
    <3>3. inbox' \in Seq(Notices) /\ inbox' # <<>> /\ inbox'[Len(inbox')].kind = "changed"
      BY <3>1, <2>5 DEF ReviewTypes, Saved, m
    <3>4. undo' \in Offers  BY <2>3, <2>5 DEF Saved, ReviewTypes, SavesUnderWay
    <3>5. ReviewTypes'  BY <2>1, SaveLeaves, <2>3, <2>5, <3>3, <3>4 DEF ReviewTypes, SavesUnderWay, Saved, m
    <3>6. SavesInv => SavesInv'  BY <2>1, SaveLeaves, <2>5 DEF SavesInv, ReviewTypes, Saved, m
    <3> QED  BY <3>3, <3>5, <3>6 DEF PaneInv
  <2>6. CASE SaveRejected(i)  BY <2>6, <2>1, SaveLeaves DEF PaneInv, SaveRejected, ReviewTypes, SavesInv
  <2> QED  BY <1>14, <2>5, <2>6
<1>15. CASE Heard
  <2> DEFINE m == Head(inbox)
  <2>1. inbox # <<>> /\ UNCHANGED <<comments, savedOnes, saves, undo, refused>>
    BY <1>15 DEF Heard
  <2>2. inbox \in Seq(Notices) /\ m \in Notices /\ Tail(inbox) \in Seq(Notices)
        /\ Len(Tail(inbox)) = Len(inbox) - 1 /\ m = inbox[1] /\ Len(inbox) \in Nat
    BY <2>1 DEF ReviewTypes
  <2>4. CASE m.kind = "changed" /\ inbox' = Append(Tail(inbox), Listed(pane.at)) /\ pane' = pane
    <3>1. inbox' \in Seq(Notices) /\ inbox' # <<>> /\ inbox'[Len(inbox')] = Listed(pane.at)
      BY <2>2, <1>0, ListedTyped, <2>4
    <3> QED  BY <2>1, <2>4, <3>1 DEF ReviewTypes, SavesInv, PaneInv, Listed, Here
  <2>5. CASE m.kind = "list" /\ pane' = [pane EXCEPT !.shown = m.all] /\ inbox' = Tail(inbox)
    <3>1. m.all \in AllComments  BY <2>2, <2>5 DEF Notices
    <3>2. pane' \in [at : Places, shown : AllComments] /\ pane'.at = pane.at
          /\ pane'.shown = m.all
      BY <2>5, <3>1 DEF ReviewTypes
    <3>3. ReviewTypes'  BY <2>1, <2>2, <2>5, <3>2 DEF ReviewTypes
    <3>4. SavesInv => SavesInv'  BY <2>1 DEF SavesInv
    <3>5. Listed(pane.at)' = Listed(pane.at) /\ Here(comments, pane.at)' = Here(comments, pane.at)
      BY <2>1, <3>2 DEF Listed, Here
    <3>6. CASE Len(inbox) = 1
      <4>1. inbox' = <<>>  BY <2>2, <2>5, <3>6
      <4>2. inbox[Len(inbox)] = m  BY <2>2, <3>6
      <4>3. Listed(pane.at).all = Here(comments, pane.at)  BY <1>0, ListedTyped
      <4> QED  BY <2>1, <2>5, <3>2, <3>3, <3>4, <3>5, <4>1, <4>2, <4>3 DEF PaneInv
    <3>7. CASE Len(inbox) # 1
      <4>1. inbox' # <<>> /\ inbox'[Len(inbox')] = inbox[Len(inbox)]
        <5>2. Len(inbox') \in 1..Len(inbox') /\ Len(inbox) > 1  BY <2>1, <2>2, <3>7, <2>5, EmptySeq
        <5>4. inbox'[Len(inbox')] = inbox[Len(inbox)]  BY <2>2, <2>5, <5>2, <2>1
        <5> QED  BY <5>4, <5>2, EmptySeq
      <4> QED  BY <2>1, <3>3, <3>4, <3>5, <4>1 DEF PaneInv
    <3> QED  BY <3>6, <3>7
  <2> QED  BY <1>15, <2>4, <2>5 DEF Heard
<1>16. CASE StartAgain
  <2> DEFINE m == [kind |-> "list", all |-> Here(savedOnes, pane.at)]
  <2>2. m \in Notices  BY HereTyped DEF Notices, ReviewTypes
  <2>3. comments' = savedOnes /\ savedOnes' = savedOnes /\ saves' = <<>> /\ undo' = <<>>
        /\ inbox' = <<m>> /\ pane' = [pane EXCEPT !.shown = NoComments]
    BY <1>16 DEF StartAgain
  <2>5. Listed(pane.at)' = m  BY <2>3 DEF Listed, ReviewTypes, NoComments, AllComments
  <2> HIDE DEF m
  <2>6. inbox' \in Seq(Notices) /\ inbox' # <<>> /\ inbox'[Len(inbox')] = m
    BY <2>2, <2>3
  <2>7. ReviewTypes'  BY <1>a, <2>3, <2>6 DEF ReviewTypes, NoComments, AllComments
  <2> QED  BY <2>3, <2>5, <2>6, <2>7 DEF SavesInv, PaneInv
<1>17. CASE UNCHANGED reviewVars  BY <1>2, <1>17 DEF reviewVars, ReviewTypes
<1> QED
  BY <1>3, <1>4, <1>5, <1>6, <1>7, <1>8, <1>9, <1>10, <1>11, <1>12, <1>13, <1>14, <1>15,
     <1>16, <1>17 DEF ReviewNext

\* A step takes an open comment away only with its worktree, its own deletion or a restart.
LEMMA NoneVanishesStep ==
    ASSUME ReviewTypes, ReviewNext, NEW c \in Comments,
           comments[c] # NoComment, comments'[c] = NoComment
    PROVE  \/ comments[c].status = "addressed" /\ comments[c].at = pane.at
           \/ Delete(c) \/ StartAgain
           \/ \E p \in Places : comments[c].at = p /\ RemovePlace(p)
<1> DEFINE Fine == \/ comments[c].status = "addressed" /\ comments[c].at = pane.at
                   \/ Delete(c) \/ StartAgain
                   \/ \E p \in Places : comments[c].at = p /\ RemovePlace(p)
<1>0. comments \in AllComments /\ comments[c] \in Remark /\ pane.at \in Places
  BY DEF ReviewTypes, AllComments, Remark
<1>a. NoComment \notin Remark  BY CommentAssumption DEF Remark
<1>1. comments' # comments  OBVIOUS
<1>2. ASSUME NEW d \in Comments, Create(d) PROVE Fine
  <2> DEFINE new == [at |-> pane.at, status |-> "open", text |-> "first"]
  <2> HIDE DEF new
  <2> QED  BY <1>0, <1>a, <1>2 DEF AllComments, Create, Change, SaveComments, Remark
<1>3. ASSUME NEW d \in Comments, NEW new \in Remark, comments' = [comments EXCEPT ![d] = new]
      PROVE  Fine
  BY <1>0, <1>a, <1>3 DEF AllComments
<1>4. ASSUME NEW d \in Comments, MarkAddressed(d) PROVE Fine
  BY <1>3, <1>0, <1>4 DEF MarkAddressed, Change, SaveComments, Remark, AllComments
<1>5. ASSUME NEW d \in Comments, Toggle(d) PROVE Fine
  <2>1. CASE pane.shown[d].status = "open"  BY <1>4, <1>5, <2>1 DEF Toggle
  <2>2. CASE pane.shown[d].status # "open"
    BY <1>3, <1>0, <1>5, <2>2 DEF Toggle, Change, SaveComments, Remark, AllComments
  <2> QED  BY <2>1, <2>2
<1>6. ASSUME NEW d \in Comments, Rewrite(d) PROVE Fine
  BY <1>3, <1>0, <1>6 DEF Rewrite, Change, SaveComments, Remark, AllComments
<1>7. ASSUME NEW d \in Comments, Delete(d) PROVE Fine  BY <1>7, <1>0, <1>1 DEF AllComments, Delete, SaveComments
<1>8. CASE Undo  BY <1>3, <1>8, <1>1 DEF Undo, ReviewTypes, Offers, SaveComments
<1>9. CASE ClearAddressed  BY <1>9 DEF Clearable, ClearAddressed, Change, SaveComments
<1>10. ASSUME NEW p \in Places, RemovePlace(p) PROVE Fine  BY <1>10 DEF RemovePlace, Change, SaveComments
<1>11. ASSUME NEW p \in Places, NEW q \in Places, Rebase(p, q) PROVE Fine
  BY <1>a, <1>11, <1>0 DEF Rebase, Change, SaveComments, Remark
<1>12. CASE StartAgain  BY <1>12
<1>13. ASSUME NEW i \in DOMAIN saves, Saved(i) \/ SaveRejected(i) PROVE Fine
  BY <1>1, <1>13 DEF Saved, SaveRejected
<1>14. ASSUME NEW p \in Places, Select(p) PROVE Fine  BY <1>1, <1>14 DEF Select
<1>15. CASE Heard \/ UndoExpires  BY <1>1, <1>15 DEF Heard, UndoExpires
<1> QED
  BY <1>2, <1>4, <1>5, <1>6, <1>7, <1>8, <1>9, <1>10, <1>11, <1>12, <1>13, <1>14, <1>15
     DEF ReviewNext


-----------------------------------------------------------------------------
(* The saved workspaces at startup.                                          *)

Snapshots == [repo : Repos, trees : SUBSET Trees]
Lines == [live : BOOLEAN, trees : SUBSET Trees]
Asking == {"prompt", "cleaning", "restoring"}

StartupTypes ==
    /\ stateFile \in StateFiles /\ stateWrites \in Seq(StateFiles)
    /\ first \in {NoRepo} \cup Snapshots
    /\ rest \in Sessions /\ pend \in Sessions /\ boot \in Sessions
    /\ sidebar \in [Repos -> {NoRepo} \cup Lines]
    /\ activeRepo \in Repos \cup {NoRepo}
    /\ mode \in Asking \cup {"loading", "ready"}

\* What the parts of startup rely on: while the user is asked the file is as it was read, the
\* snapshots are what it says, and nothing is open or written but the fallback.
ModeInv ==
    /\ mode = "loading" => phase = "unread" /\ stateWrites = <<>>
    /\ mode \in Asking =>
         /\ first \in Snapshots
         /\ boot = stateFile.has /\ first.trees = boot[first.repo]
         /\ rest = [r \in Repos |-> IF r = first.repo THEN {} ELSE boot[r]]
    /\ mode \in {"prompt", "restoring"} => stateWrites = <<>>
    /\ mode # "ready" => sidebar = Shut /\ loadingRepo = {} /\ phase # "restored"
    /\ mode \in {"ready", "cleaning"} => phase \in {"declined", "restored"}
    /\ \A r \in loadingRepo : r \in Repos /\ sidebar[r] = NoRepo

\* As long as nothing is open, the snapshot is in the file and in whatever is written.
FallbackInv ==
    Open = {} /\ first # NoRepo =>
        /\ first.trees \subseteq stateFile.has[first.repo]
        /\ \A i \in DOMAIN stateWrites : first.trees \subseteq stateWrites[i].has[first.repo]

\* Once the workspaces are back, what the file held is in it, in the window, and in whatever
\* is written.
RestoredInv ==
    phase = "restored" =>
        /\ first \in Snapshots /\ sidebar[first.repo] # NoRepo
        /\ \A r \in Repos :
             /\ boot[r] \subseteq stateFile.has[r]
             /\ boot[r] \subseteq Kept(sidebar, pend)[r]
             /\ \A i \in DOMAIN stateWrites : boot[r] \subseteq stateWrites[i].has[r]

StartupInv == StartupTypes /\ ModeInv /\ FallbackInv /\ RestoredInv

LEMMA StartupStart == StartupInit => StartupInv
<1> SUFFICES ASSUME StartupInit PROVE StartupInv  OBVIOUS
<1>1. PICK has \in [Repos -> {{}, Trees}], a \in Repos :
          stateFile = [active |-> IF has[a] = {} THEN NoRepo ELSE a, has |-> has]
  BY DEF StartupInit
<1> QED
  BY <1>1 DEF StartupInit, StartupInv, ModeInv, FallbackInv, RestoredInv, Asking, StartupTypes, Nil, Sessions,
     Shut, StateFiles

\* A write that is queued, and one that is done.
LEMMA WriteQueued ==
    ASSUME stateWrites \in Seq(StateFiles), NEW w \in StateFiles,
           stateWrites' = Append(stateWrites, w)
    PROVE  /\ stateWrites' \in Seq(StateFiles)
           /\ \A i \in DOMAIN stateWrites' :
                stateWrites'[i] = w \/ (i \in DOMAIN stateWrites /\ stateWrites'[i] = stateWrites[i])
  OBVIOUS

LEMMA WriteDone ==
    ASSUME stateWrites \in Seq(StateFiles), stateWrites # <<>>
    PROVE  /\ Head(stateWrites) = stateWrites[1] /\ 1 \in DOMAIN stateWrites
           /\ Head(stateWrites) \in StateFiles
           /\ Tail(stateWrites) \in Seq(StateFiles)
           /\ \A i \in DOMAIN Tail(stateWrites) :
                i + 1 \in DOMAIN stateWrites /\ Tail(stateWrites)[i] = stateWrites[i + 1]
<1>1. Len(stateWrites) \in Nat /\ Len(stateWrites) # 0  BY EmptySeq
<1>2. DOMAIN stateWrites = 1..Len(stateWrites) /\ 1 \in DOMAIN stateWrites  BY <1>1
<1>3. Tail(stateWrites) \in Seq(StateFiles) /\ Len(Tail(stateWrites)) = Len(stateWrites) - 1
      /\ DOMAIN Tail(stateWrites) = 1..(Len(stateWrites) - 1)
  BY <1>1
<1>4. \A i \in 1..(Len(stateWrites) - 1) : i + 1 \in 1..Len(stateWrites)  BY <1>1
<1>5. \A i \in 1..(Len(stateWrites) - 1) : Tail(stateWrites)[i] = stateWrites[i + 1]
  BY <1>1
<1> QED  BY <1>1, <1>2, <1>3, <1>4, <1>5

LEMMA FallbackTyped ==
    ASSUME NEW f \in {NoRepo} \cup Snapshots
    PROVE  /\ Fallback(f) \in Sessions
           /\ [active |-> NoRepo, has |-> Fallback(f)] \in StateFiles
           /\ f # NoRepo => f.repo \in Repos /\ Fallback(f)[f.repo] = f.trees
<1> QED  BY DEF Fallback, StateFiles, Sessions, Snapshots

LEMMA LinesTyped ==
    ASSUME NEW trees \in SUBSET Trees
    PROVE  /\ Live(trees) \in Lines /\ Live(trees) # NoRepo /\ Live(trees).trees = trees
           /\ Dormant(trees) \in Lines /\ Dormant(trees) # NoRepo /\ Dormant(trees).trees = trees
<1>1. Live(trees) \in Lines /\ Live(trees).trees = trees  BY DEF Live, Lines
<1>2. Dormant(trees) \in Lines /\ Dormant(trees).trees = trees  BY DEF Dormant, Lines
<1> QED  BY <1>1, <1>2, NoRepoAssumption DEF Lines

LEMMA KeptTyped ==
    ASSUME sidebar \in [Repos -> {NoRepo} \cup Lines], pend \in Sessions
    PROVE  Kept(sidebar, pend) \in Sessions
<1> SUFFICES ASSUME NEW r \in Repos, sidebar[r] # NoRepo
             PROVE  sidebar[r].trees \cup pend[r] \in SUBSET Trees
  BY DEF Kept, Sessions
<1> QED  BY DEF Lines, Sessions

\* The queue grows by the fallback while nothing is open.
LEMMA FallbackWritten ==
    ASSUME StartupInv, WriteFallback(first), sidebar = Shut, phase' # "restored",
           UNCHANGED <<stateFile, first, rest, sidebar, pend, activeRepo, boot>>
    PROVE  stateWrites' \in Seq(StateFiles) /\ FallbackInv' /\ RestoredInv'
<1> QED
  BY FallbackTyped, WriteQueued DEF StartupInv, FallbackInv, RestoredInv, Open, WriteFallback, StartupTypes,
     Shut

LEMMA StartupStep ==
    ASSUME Reopens = FALSE, StartupInv, [StartupNext]_startupVars
    PROVE  StartupInv'
<1>0. /\ StartupTypes /\ ModeInv /\ FallbackInv /\ RestoredInv
      /\ stateFile.has \in Sessions /\ stateWrites \in Seq(StateFiles)
  BY DEF StartupInv, StartupTypes, StateFiles
<1>1. ASSUME NEW pref, ReadState(pref) PROVE StartupInv'
  <2> DEFINE snap == [repo |-> Picked, trees |-> stateFile.has[Picked]]
             others == [r \in Repos |-> IF r = Picked THEN {} ELSE stateFile.has[r]]
  <2>1. /\ boot' = stateFile.has
        /\ first' = IF Picked = NoRepo THEN NoRepo ELSE snap
        /\ rest' = others
        /\ UNCHANGED <<sidebar, pend, activeRepo, stateFile, stateWrites, loadingRepo>>
        /\ mode = "loading"
    BY <1>1 DEF ReadState, Page
  <2>2. /\ mode' \in {"ready", "restoring", "prompt"}
        /\ mode' # "ready" => Picked # NoRepo
        /\ phase' = IF mode' = "ready" THEN "declined" ELSE "undecided"
    BY <1>1 DEF ReadState, Page
  <2>4. Picked # NoRepo => snap \in Snapshots /\ snap # NoRepo
    BY <1>0, NoRepoAssumption DEF Snapshots, Sessions, Picked, Held, StartupTypes, StateFiles
  <2>7. sidebar = Shut /\ loadingRepo = {} /\ stateWrites = <<>>
    BY <1>0, <2>1 DEF ModeInv
  <2>8. ModeInv'
    <3>1. mode' # "ready" => first' = snap /\ first'.repo = Picked
                             /\ first'.trees = stateFile.has[Picked]
      BY <2>1, <2>2
    <3> QED  BY <2>1, <2>2, <2>4, <2>7, <3>1 DEF ModeInv, Asking
  <2>9. FallbackInv'  BY <2>1, <2>7 DEF FallbackInv
  <2> QED
    BY <1>0, <2>1, <2>2, <2>4, <2>8, <2>9 DEF StartupInv, RestoredInv, StartupTypes, Asking, StateFiles,
       Sessions
<1>2. CASE StartClean
  <2>5. ModeInv'  BY <1>0, <1>2 DEF ModeInv, Asking, StartClean
  <2> QED  BY <1>2, <1>0, FallbackWritten, <2>5 DEF StartupInv, StartupTypes, Asking, StartClean, ModeInv
<1>3. CASE Agree
  BY <1>0, <1>3 DEF StartupInv, Agree, StartupTypes, ModeInv, Asking, FallbackInv, Open, RestoredInv
<1>4. CASE RestoreSucceeds
  <2> DEFINE r == first.repo
             bar == [q \in Repos |-> IF q = r THEN Live(Filled(first.trees))
                                ELSE IF rest[q] # {} THEN Dormant(rest[q]) ELSE sidebar[q]]
             waiting == [q \in Repos |-> IF q = r THEN LeftWaiting(first.trees) ELSE {}]
  <2>1. /\ mode = "restoring" /\ mode' = "ready" /\ first' = first /\ rest' = rest
        /\ sidebar' = bar /\ pend' = waiting /\ activeRepo' = r /\ phase' = "restored"
        /\ UNCHANGED <<stateFile, stateWrites, loadingRepo, boot>>
    BY <1>4 DEF RestoreSucceeds, Page
  <2>2. /\ first \in Snapshots /\ boot = stateFile.has /\ first.trees = boot[r]
        /\ rest = [q \in Repos |-> IF q = r THEN {} ELSE boot[q]]
        /\ stateWrites = <<>> /\ sidebar = Shut /\ loadingRepo = {}
    BY <1>0, <2>1 DEF ModeInv, Asking
  <2>3. r \in Repos /\ first.trees \in SUBSET Trees /\ boot \in Sessions
    BY <1>0, <2>2 DEF Snapshots
  <2>4. \A trees \in SUBSET Trees :
          /\ Live(trees) \in Lines /\ Live(trees) # NoRepo /\ Live(trees).trees = trees
          /\ Dormant(trees) \in Lines /\ Dormant(trees) # NoRepo /\ Dormant(trees).trees = trees
    BY LinesTyped
  <2>5. Filled(first.trees) \in SUBSET Trees /\ LeftWaiting(first.trees) \in SUBSET Trees
        /\ Filled(first.trees) \cup LeftWaiting(first.trees) = first.trees
    BY <2>3, ChosenAssumption DEF Filled, LeftWaiting
  <2>6. /\ bar \in [Repos -> {NoRepo} \cup Lines] /\ bar[r] # NoRepo
        /\ bar[r].trees = Filled(first.trees)
        /\ \A q \in Repos \ {r} : boot[q] # {} => bar[q] # NoRepo /\ bar[q].trees = boot[q]
    <3>2. bar \in [Repos -> {NoRepo} \cup Lines]  BY <2>4, <2>5, <1>0 DEF StartupTypes, Sessions
    <3>3. bar[r] = Live(Filled(first.trees))  BY <2>3
    <3>4. \A q \in Repos \ {r} : boot[q] # {} => bar[q] = Dormant(boot[q]) /\ boot[q] \in SUBSET Trees
      BY <2>2, <2>3 DEF Sessions
    <3> QED  BY <2>4, <2>5, <3>2, <3>3, <3>4
  <2>7. waiting \in Sessions /\ waiting[r] = LeftWaiting(first.trees)
    BY <2>3, <2>5 DEF Sessions
  <2> HIDE DEF bar, waiting, r
  <2>8. StartupTypes'
    BY <1>0, <2>1, <2>2, <2>3, <2>6, <2>7 DEF StartupTypes, Asking
  <2>10. FallbackInv'  BY <2>1, <2>3, <2>6 DEF FallbackInv, Open
  <2>12. RestoredInv'  BY <2>1, <2>2, <2>3, <2>6, <2>5, <2>7 DEF RestoredInv, r, Kept
  <2> QED  BY <2>8, <2>1, <2>2, <2>10, <2>12 DEF StartupInv, ModeInv, Asking
<1>5. CASE RestoreFails
  <2>5. ModeInv'  BY <1>0, <1>5 DEF ModeInv, Asking, RestoreFails
  <2> QED  BY <1>5, <1>0, FallbackWritten, <2>5 DEF StartupInv, StartupTypes, Asking, RestoreFails, ModeInv
<1>6. CASE PersistEffect
  <2>1. /\ mode = "ready" /\ stateWrites' = Append(stateWrites, Persistable)
        /\ UNCHANGED <<stateFile, mode, first, rest, sidebar, pend, activeRepo, loadingRepo,
                       boot, phase>>
    BY <1>6 DEF PersistEffect, EffectDue
  <2>2. Persistable \in StateFiles
        /\ Persistable.has = IF Open = {} THEN Fallback(first) ELSE Kept(sidebar, pend)
    BY <1>0, FallbackTyped, KeptTyped DEF Persistable, StateFiles, StartupTypes
  <2>3. stateWrites' \in Seq(StateFiles)
        /\ \A i \in DOMAIN stateWrites' :
             \/ stateWrites'[i] = Persistable
             \/ i \in DOMAIN stateWrites /\ stateWrites'[i] = stateWrites[i]
    BY <1>0, <2>1, <2>2, WriteQueued
  <2>5. ModeInv'  BY <1>0, <2>1 DEF ModeInv, Asking
  <2>6. FallbackInv'
    <3>1. first # NoRepo => Fallback(first)[first.repo] = first.trees
      BY <1>0, FallbackTyped DEF StartupTypes
    <3> QED  BY <1>0, <2>1, <2>2, <2>3, <3>1 DEF FallbackInv, Open
  <2>7. RestoredInv'
    <3>1. phase = "restored" => Open # {}
      BY <1>0 DEF RestoredInv, Open, Snapshots
    <3> QED  BY <1>0, <2>1, <2>2, <2>3, <3>1 DEF RestoredInv
  <2> QED  BY <1>0, <2>1, <2>3, <2>5, <2>6, <2>7 DEF StartupInv, StartupTypes
<1>7. ASSUME NEW kept \in BOOLEAN, mode # "cleaning", Written(kept) PROVE StartupInv'
  <2>1. /\ stateWrites # <<>> /\ stateWrites' = Tail(stateWrites)
        /\ stateFile' = stateFile \/ stateFile' = Head(stateWrites)
        /\ UNCHANGED <<mode, first, rest, sidebar, pend, activeRepo, loadingRepo, boot, phase>>
    BY <1>7 DEF Written
  <2>4. ModeInv'  BY <1>0, <2>1, <1>7 DEF ModeInv, Asking, StartupTypes
  <2>5. FallbackInv'  BY <1>0, <2>1, WriteDone DEF FallbackInv, Open
  <2>6. RestoredInv'  BY <1>0, <2>1, WriteDone DEF RestoredInv
  <2> QED  BY <1>0, <2>1, WriteDone, <2>4, <2>5, <2>6 DEF StartupInv, StartupTypes
<1>8. ASSUME NEW kept \in BOOLEAN, Cleaned(kept) PROVE StartupInv'
  <2>1. /\ mode = "cleaning" /\ Len(stateWrites) = 1 /\ stateWrites' = <<>>
        /\ stateFile' = IF kept THEN Head(stateWrites) ELSE stateFile
        /\ mode' = IF kept THEN "ready" ELSE "prompt"
        /\ UNCHANGED <<first, rest, sidebar, pend, activeRepo, loadingRepo, boot, phase>>
    BY <1>8 DEF Cleaned
  <2>2. stateWrites # <<>>  BY <1>0, <2>1, EmptySeq
  <2>3. StartupTypes'  BY <1>0, <2>1, <2>2, WriteDone DEF StartupTypes, Asking
  <2>5. FallbackInv'  BY <1>0, <2>1, <2>2, WriteDone DEF FallbackInv, Open
  <2>6. RestoredInv'  BY <1>0, <2>1 DEF RestoredInv, ModeInv
  <2> QED  BY <2>3, <1>0, <2>1, <2>5, <2>6 DEF StartupInv, ModeInv, Asking
<1>9. ASSUME NEW r \in Repos, LoadPath(r) \/ LoadRejected(r) PROVE StartupInv'
  <2>4. FallbackInv' /\ RestoredInv'  BY <1>0, <1>9 DEF FallbackInv, RestoredInv, Open, LoadPath, LoadRejected
  <2> QED  BY <1>0, <1>9, <2>4 DEF StartupInv, StartupTypes, LoadPath, LoadRejected, ModeInv, Open
<1>10. ASSUME NEW r \in Repos, Loaded(r) PROVE StartupInv'
  <2>1. /\ r \in loadingRepo /\ sidebar[r] = NoRepo /\ r \notin Open /\ mode = "ready"
        /\ loadingRepo' = {}
        /\ UNCHANGED <<stateFile, stateWrites, boot, phase>>
    BY <1>0, <1>10 DEF Loaded, ModeInv, Open
  <2>3. PICK one \in SUBSET Trees, two \in SUBSET Trees :
            /\ sidebar' = [sidebar EXCEPT ![r] = Live(one)] /\ pend' = [pend EXCEPT ![r] = two]
            /\ mode' = mode /\ first' = first /\ rest' = rest /\ activeRepo' = r
    <3>1. CASE first # NoRepo /\ first.repo = r
      BY <1>10, <2>1, <3>1, <1>0, ChosenAssumption DEF Reattached, Page, Loaded, Filled, LeftWaiting,
         StartupTypes, Snapshots
    <3>2. CASE ~(first # NoRepo /\ first.repo = r)  BY <1>10, <2>1, <3>2 DEF LoadedAsNew, Page, Loaded, IsLive
    <3> QED  BY <3>1, <3>2
  <2>5. sidebar' \in [Repos -> {NoRepo} \cup Lines] /\ pend' \in Sessions
        /\ sidebar'[r] # NoRepo  BY <1>0, <2>3, LinesTyped DEF StartupTypes, Sessions
  <2>6. \A q \in Repos \ {r} : sidebar'[q] = sidebar[q] /\ pend'[q] = pend[q]
    BY <1>0, <2>3 DEF StartupTypes, Sessions
  <2>8. ModeInv'  BY <1>0, <2>1, <2>3 DEF ModeInv, Asking
  <2>9. FallbackInv'  BY <2>5 DEF FallbackInv, Open
  <2>10. RestoredInv'
    <3> SUFFICES ASSUME phase = "restored" PROVE RestoredInv'  BY <2>1 DEF RestoredInv
    <3>1. /\ first \in Snapshots /\ sidebar[first.repo] # NoRepo /\ first.repo \in Repos
          /\ boot[r] \subseteq Kept(sidebar, pend)[r]
      BY <1>0 DEF RestoredInv, Snapshots
    <3>2. first.repo # r /\ boot[r] = {}  BY <2>1, <3>1 DEF Kept
    <3>4. \A q \in Repos : boot'[q] \subseteq Kept(sidebar, pend)'[q]
      BY <1>0, <2>1, <3>2, <2>6 DEF RestoredInv, Kept
    <3> QED  BY <1>0, <2>1, <2>3, <2>6, <3>1, <3>2, <3>4 DEF RestoredInv
  <2> QED  BY <1>0, <2>1, <2>3, <2>5, <2>8, <2>9, <2>10 DEF StartupInv, StartupTypes
<1>11. ASSUME NEW t \in Trees, Visit(t) PROVE StartupInv'
  <2> DEFINE r == activeRepo
  <2>1. /\ r \in Repos /\ sidebar[r] \in Lines /\ sidebar[r] # NoRepo
    BY <1>0, <1>11 DEF Visit, IsLive, Open, StartupTypes
  <2>2. /\ sidebar' = [sidebar EXCEPT ![r].trees = @ \cup {t}]
        /\ pend' = [pend EXCEPT ![r] = @ \ {t}]
        /\ UNCHANGED <<stateFile, stateWrites, mode, first, rest, activeRepo, loadingRepo,
                       boot, phase>>
    BY <1>11 DEF Visit
  <2> DEFINE line == [sidebar[r] EXCEPT !.trees = @ \cup {t}]
  <2>4. line \in Lines /\ line # NoRepo /\ line.trees = sidebar[r].trees \cup {t}
    BY <2>1, NoRepoAssumption DEF Lines
  <2>5. sidebar' = [sidebar EXCEPT ![r] = line]  BY <2>2
  <2> HIDE DEF line, r
  <2>6. /\ sidebar' \in [Repos -> {NoRepo} \cup Lines] /\ sidebar'[r] = line
        /\ \A q \in Repos \ {r} : sidebar'[q] = sidebar[q]  BY <2>1, <1>0, <2>4, <2>5 DEF StartupTypes
  <2>7. /\ pend' \in Sessions /\ pend'[r] = pend[r] \ {t}
        /\ \A q \in Repos \ {r} : pend'[q] = pend[q]  BY <2>1, <2>2, <1>0 DEF Sessions, StartupTypes
  <2>11. ModeInv'
    <3>1. mode = "ready"  BY <1>0, <2>1 DEF ModeInv, Shut
    <3> QED  BY <1>0, <2>2, <2>1, <2>4, <2>6, <3>1 DEF ModeInv, Asking
  <2>12. FallbackInv'  BY <1>0, <2>2, <2>1, <2>4, <2>6 DEF FallbackInv, Open
  <2>13. RestoredInv'  BY <1>0, <2>2, <2>1, <2>4, <2>6, <2>7 DEF RestoredInv, Snapshots, Kept
  <2> QED  BY <1>0, <2>2, <2>6, <2>7, <2>11, <2>12, <2>13 DEF StartupInv, StartupTypes
<1>12. ASSUME NEW reload \in BOOLEAN, Restart(reload) PROVE StartupInv'
  BY <1>12, <1>0 DEF StartupInv, ModeInv, FallbackInv, RestoredInv, Asking, Restart, Page, StartupTypes, Nil,
     Sessions, Shut
<1>13. CASE UNCHANGED startupVars
  BY <1>0, <1>13 DEF StartupInv, StartupTypes, ModeInv, FallbackInv, RestoredInv, Open, startupVars
<1> QED
  BY <1>1, <1>2, <1>3, <1>4, <1>5, <1>6, <1>7, <1>8, <1>9, <1>10, <1>11, <1>12, <1>13
     DEF StartupNext

LEMMA StartupIsSafe == StartupInv => SavedIsKept
<1> SUFFICES ASSUME StartupInv PROVE SavedIsKept  OBVIOUS
<1> QED
  BY DEF SavedIsKept, StartupInv, RestoredInv, RestoredIsKept, ModeInv, NothingBeforeDecision, Asking,
     StartupTypes, FallbackInv, DeclinedIsKept


-----------------------------------------------------------------------------
(* The settings.                                                             *)

SettingVals == [Setting -> Nat]
PatchesUnderWay == [key : Setting, val : SettingVals, seq : Nat,
                    from : {"dialog", "font", "popover", "quiet", "gone"}]
SettingsNews == [kind : {"changed", "merged", "failed"}, from : {"main", "dialog", "font"},
                 seq : Nat, val : SettingVals]

NoNewer(a, b) == \A k \in Setting : a[k] <= b[k]

SettingsTypes ==
    /\ file \in [kind : {"ok", "unknown"}, val : SettingVals]
    /\ current \in SettingVals /\ acked \in SettingVals /\ usageSnap \in Nat
    /\ writing \in Seq(PatchesUnderWay) /\ post \in Seq(SettingsNews)
    /\ dialog \in [shown : SettingVals, seq : Nat, pending : Int]
    /\ fontHook \in [shown : Nat, pending : Int]
    /\ issued \in Nat /\ failed \in BOOLEAN
    /\ reading = <<>> \/ (writing = <<>> /\ reading = <<AsRead(file)>>)

\* What is acknowledged is on disk, what is on disk is in every patch that waits, and each of
\* these in the next and in the service.
PatchInv ==
    /\ NoNewer(acked, AsRead(file)) /\ NoNewer(AsRead(file), current)
    /\ \A k \in Setting : current[k] <= issued
    /\ \A i \in DOMAIN writing :
         NoNewer(AsRead(file), writing[i].val) /\ NoNewer(writing[i].val, current)
    /\ \A i, j \in DOMAIN writing : i < j => NoNewer(writing[i].val, writing[j].val)

\* What the i-th patch was merged into, if all before it are kept.
Before(i) == IF i = 1 THEN AsRead(file) ELSE writing[i - 1].val

\* A patch changes one setting, and the service is the last one.
DiskInv ==
    /\ current = IF writing = <<>> THEN AsRead(file) ELSE writing[Len(writing)].val
    /\ \A i \in DOMAIN writing :
         /\ \A k \in Setting \ {writing[i].key} : writing[i].val[k] = Before(i)[k]
         /\ writing[i].from = "quiet" => writing[i].key = "notice"
    /\ usageSnap = AsRead(file).usage

\* The main process's own patches show nobody anything new.
QuietInv ==
    /\ (\A i \in DOMAIN writing : writing[i].from = "quiet") =>
         \A k \in {"font", "usage"} : AsRead(file)[k] = current[k]
    /\ \A i \in DOMAIN writing :
         (\A j \in DOMAIN writing : j > i => writing[j].from = "quiet") =>
            \A k \in {"font", "usage"} : writing[i].val[k] = current[k]

\* What is posted was on disk, in this order; an answer comes behind the news of what it
\* answers, and the last of them shows what is on disk.
PostInv ==
    /\ \A i \in DOMAIN post : /\ NoNewer(post[i].val, AsRead(file))
                              /\ post[i].kind = IF post[i].from = "main" THEN "changed" ELSE "merged"
                              /\ post[i].from # "main" /\ i > 1 =>
                                   post[i - 1].from = "main" /\ post[i - 1].val = post[i].val
    /\ \A i, j \in DOMAIN post : i < j => NoNewer(post[i].val, post[j].val)
    /\ post # <<>> => \A k \in {"font", "usage"} : post[Len(post)].val[k] = AsRead(file)[k]

\* The patches of the dialog that have no answer are the last ones, in order.
Outstanding == (dialog.seq - dialog.pending + 1)..dialog.seq

SeqInv ==
    /\ \A i \in DOMAIN post : post[i].from = "dialog" => post[i].seq \in Outstanding
    /\ \A i \in DOMAIN writing : writing[i].from = "dialog" => writing[i].seq \in Outstanding
    /\ \A n \in Outstanding :
         \/ \E i \in DOMAIN post : post[i].from = "dialog" /\ post[i].seq = n
         \/ \E i \in DOMAIN writing : writing[i].from = "dialog" /\ writing[i].seq = n
    /\ \A i, j \in DOMAIN post :
         i < j /\ post[i].from = "dialog" /\ post[j].from = "dialog" => post[i].seq < post[j].seq
    /\ \A i, j \in DOMAIN writing :
         i < j /\ writing[i].from = "dialog" /\ writing[j].from = "dialog" => writing[i].seq < writing[j].seq
    /\ \A i \in DOMAIN post, j \in DOMAIN writing :
         post[i].from = "dialog" /\ writing[j].from = "dialog" => post[i].seq < writing[j].seq
    /\ dialog.pending >= 0

\* What the dialog shows is never newer than what it may adopt.
ShownInv ==
    /\ NoNewer(dialog.shown, current)
    /\ \A i \in DOMAIN post :
         \/ dialog.pending = 0
         \/ post[i].from = "dialog" /\ post[i].seq = dialog.seq
         => NoNewer(dialog.shown, post[i].val)
    /\ \A i \in DOMAIN writing :
         \/ dialog.pending = 0
         \/ writing[i].from = "dialog" /\ writing[i].seq = dialog.seq
         => NoNewer(dialog.shown, writing[i].val)

FontsOf(s) == {i \in DOMAIN s : s[i].from = "font"}

\* The font menu counts its patches, and shows the last of them.
FontInv ==
    /\ fontHook.pending = Cardinality(FontsOf(post)) + Cardinality(FontsOf(writing))
    /\ FontsOf(writing) = {} =>
         \A i \in FontsOf(post) : (\A j \in FontsOf(post) : j <= i) => fontHook.shown = post[i].val.font
    /\ \A i \in FontsOf(writing) :
         (\A j \in FontsOf(writing) : j <= i) => fontHook.shown = writing[i].val.font

\* With no patch left to be told of, whoever has no more news to come shows what is there.
HeardInv ==
    (\A i \in DOMAIN writing : writing[i].from = "quiet") =>
        /\ post = <<>> \/ (Len(post) = 1 /\ post[1].from = "font") =>
             \A k \in {"font", "usage"} : dialog.shown[k] = current[k]
        /\ post = <<>> \/ (Len(post) = 1 /\ post[1].from = "dialog") =>
             fontHook.shown = current.font

SettingsInv ==
    /\ SettingsTypes /\ PatchInv
    /\ failed = FALSE => DiskInv /\ QuietInv /\ PostInv /\ SeqInv /\ ShownInv /\ FontInv /\ HeardInv

LEMMA NoNewerOrder ==
    ASSUME NEW a \in SettingVals, NEW b \in SettingVals, NEW c \in SettingVals
    PROVE  NoNewer(a, a) /\ (NoNewer(a, b) /\ NoNewer(b, c) => NoNewer(a, c))
<1> QED  BY DEF NoNewer, SettingVals

LEMMA AsReadTyped ==
    ASSUME NEW f \in [kind : {"ok", "unknown"}, val : SettingVals]
    PROVE  AsRead(f) \in SettingVals /\ AfterRead(f) = f
<1> QED  BY DEF AsRead, AfterRead, Defaults, SettingVals

\* Which patches and which answers are of the font menu.
LEMMA FontsAppended ==
    ASSUME NEW S, NEW s \in Seq(S), NEW x \in S
    PROVE  FontsOf(Append(s, x)) = IF x.from = "font" THEN FontsOf(s) \cup {Len(s) + 1} ELSE FontsOf(s)
<1> QED  BY AppendProperties, LenProperties DEF FontsOf

LEMMA FontsCounted ==
    ASSUME NEW S, NEW s \in Seq(S)
    PROVE  /\ IsFiniteSet(FontsOf(s)) /\ Cardinality(FontsOf(s)) \in Nat
           /\ Len(s) + 1 \notin FontsOf(s) /\ Len(s) + 2 \notin FontsOf(s)
           /\ (Cardinality(FontsOf(s)) = 0 <=> FontsOf(s) = {})
<1>1. DOMAIN s = 1..Len(s) /\ Len(s) \in Nat  BY LenProperties
<1>2. IsFiniteSet(1..Len(s))  BY <1>1, FS_Interval
<1>3. FontsOf(s) \in SUBSET (1..Len(s))  BY <1>1 DEF FontsOf
<1>4. IsFiniteSet(FontsOf(s))  BY <1>2, <1>3, FS_Subset
<1>5. Cardinality(FontsOf(s)) \in Nat  BY <1>4, FS_CardinalityType
<1>6. Cardinality(FontsOf(s)) = 0 <=> FontsOf(s) = {}  BY <1>4, FS_EmptySet
<1> QED  BY <1>1, <1>3, <1>4, <1>5, <1>6

LEMMA FontsOfNone ==
    ASSUME NEW S
    PROVE  FontsOf(<<>>) = {} /\ Cardinality({}) = 0
<1> QED  BY EmptySeq, LenProperties, FS_EmptySet DEF FontsOf

LEMMA FontsLeft ==
    ASSUME NEW S, NEW s \in Seq(S), s # <<>>
    PROVE  /\ FontsOf(Tail(s)) = {i \in 1..(Len(s) - 1) : i + 1 \in FontsOf(s)}
           /\ Cardinality(FontsOf(Tail(s))) =
                Cardinality(FontsOf(s)) - (IF s[1].from = "font" THEN 1 ELSE 0)
<1>3. FontsOf(Tail(s)) = {i \in 1..(Len(s) - 1) : i + 1 \in FontsOf(s)}
  BY HeadTailProperties, LenProperties, EmptySeq DEF FontsOf
<1> DEFINE others == FontsOf(s) \ {1}
           up == [i \in FontsOf(Tail(s)) |-> i + 1]
<1>4. IsFiniteSet(FontsOf(s)) /\ IsFiniteSet(FontsOf(Tail(s)))  BY HeadTailProperties, FontsCounted
<1>5. Cardinality(others) = IF 1 \in FontsOf(s) THEN Cardinality(FontsOf(s)) - 1 ELSE Cardinality(FontsOf(s))
  BY <1>4, FS_RemoveElement
<1>6. 1 \in FontsOf(s) <=> s[1].from = "font"  BY HeadTailProperties, LenProperties, EmptySeq DEF FontsOf
<1>7. Cardinality(FontsOf(s)) \in Nat  BY FontsCounted
<1>8. \A j \in others : j - 1 \in FontsOf(Tail(s)) /\ (j - 1) + 1 = j
  BY <1>3, HeadTailProperties, LenProperties, EmptySeq DEF FontsOf
<1>9. up \in Bijection(FontsOf(Tail(s)), others)
  <2>3. \A i, j \in FontsOf(Tail(s)) : up[i] = up[j] => i = j  BY <1>3
  <2> QED  BY <1>3, <2>3, <1>8 DEF Bijection, Injection, Surjection, IsInjective
<1>10. Cardinality(others) = Cardinality(FontsOf(Tail(s)))  BY <1>4, <1>9, FS_Bijection DEF ExistsBijection
<1> QED  BY <1>3, <1>5, <1>6, <1>7, <1>10
-----------------------------------------------------------------------------
\* A page that is new, with nothing under way.
Afresh ==
    /\ SettingsTypes /\ writing = <<>> /\ post = <<>>
    /\ current = AsRead(file) /\ usageSnap = AsRead(file).usage
    /\ dialog = [shown |-> current, seq |-> 0, pending |-> 0]
    /\ fontHook = [shown |-> current.font, pending |-> 0]

Agreed == DiskInv /\ QuietInv /\ PostInv /\ SeqInv /\ ShownInv /\ FontInv /\ HeardInv

LEMMA AfreshHolds == Afresh => Agreed
<1> SUFFICES ASSUME Afresh PROVE Agreed  OBVIOUS
<1>3. DiskInv /\ QuietInv /\ PostInv  BY EmptySeq, LenProperties DEF Afresh, DiskInv, QuietInv, PostInv
<1>4. SeqInv  BY EmptySeq, LenProperties DEF Afresh, SeqInv, Outstanding
<1>5. ShownInv  BY EmptySeq, LenProperties, NoNewerOrder DEF Afresh, ShownInv, SettingsTypes
<1>6. FontInv
  <2>2. fontHook.pending = 0 /\ Cardinality(FontsOf(post)) = 0 /\ Cardinality(FontsOf(writing)) = 0
    BY FontsOfNone DEF Afresh
  <2> QED  BY FontsOfNone, <2>2 DEF FontInv, Afresh
<1>7. HeardInv  BY DEF Afresh, HeardInv
<1> QED  BY <1>3, <1>4, <1>5, <1>6, <1>7 DEF Agreed

LEMMA SettingsStart == SettingsInit => SettingsInv
<1> SUFFICES ASSUME SettingsInit PROVE SettingsInv  OBVIOUS
<1>1. Defaults \in SettingVals /\ \A k \in Setting : Defaults[k] = 0  BY DEF Defaults, SettingVals
<1>2. PICK kind \in {"missing", "corrupt", "unknown", "ok"} :
        file = AfterRead([kind |-> kind, val |-> Defaults])
  BY DEF SettingsInit
<1>3. file \in [kind : {"ok", "unknown"}, val : SettingVals] /\ file.val = Defaults
  BY <1>1, <1>2 DEF AfterRead, Readable
<1>4. current = Defaults /\ AsRead(file) = Defaults /\ current.font = 0 /\ current.usage = 0
  BY <1>1, <1>3 DEF SettingsInit, AsRead, Setting
<1>5. <<>> \in Seq(PatchesUnderWay) /\ <<>> \in Seq(SettingsNews) /\ DOMAIN <<>> = {}
  BY EmptySeq, LenProperties
<1>6. SettingsTypes
  <2>1. /\ usageSnap = 0 /\ issued = 0 /\ failed = FALSE /\ acked = Defaults /\ reading = <<>>
        /\ writing = <<>> /\ post = <<>>
    BY <1>4 DEF SettingsInit
  <2>3. dialog \in [shown : SettingVals, seq : Nat, pending : Int]  BY <1>1, <1>4 DEF SettingsInit
  <2>5. fontHook \in [shown : Nat, pending : Int]  BY <1>4 DEF SettingsInit
  <2> QED  BY <1>1, <1>3, <1>4, <1>5, <2>1, <2>3, <2>5 DEF SettingsTypes
<1>8. Afresh  BY <1>4, <1>6 DEF SettingsInit, Afresh
<1> QED  BY <1>6, <1>1, <1>4, <1>5, <1>8, AfreshHolds DEF SettingsInv, Agreed, SettingsInit, PatchInv, NoNewer

\* A patch is newer than all there is.
LEMMA Merges ==
    ASSUME Peeks = FALSE, SettingsTypes, PatchInv, NEW k \in Setting, NEW seq \in Nat,
           NEW from \in {"dialog", "font", "popover", "quiet"}, Merge(k, from, seq)
    PROVE  /\ PatchInv' /\ issued' = issued + 1 /\ reading = <<>>
           /\ current' \in SettingVals /\ NoNewer(current, current') /\ current'[k] = issued + 1
           /\ \A j \in Setting \ {k} : current'[j] = current[j]
           /\ [key |-> k, val |-> current', from |-> from, seq |-> seq] \in PatchesUnderWay
           /\ writing' = Append(writing, [key |-> k, val |-> current', from |-> from, seq |-> seq])
           /\ writing' \in Seq(PatchesUnderWay) /\ Len(writing') = Len(writing) + 1
           /\ Len(writing) \in Nat
           /\ DOMAIN writing = 1..Len(writing) /\ DOMAIN writing' = 1..(Len(writing) + 1)
           /\ \A i \in DOMAIN writing : writing'[i] = writing[i]
           /\ writing'[Len(writing) + 1].key = k /\ writing'[Len(writing) + 1].val = current'
           /\ writing'[Len(writing) + 1].from = from /\ writing'[Len(writing) + 1].seq = seq
           /\ file' = file /\ usageSnap' = usageSnap /\ post' = post
           /\ reading' = reading /\ acked' = acked /\ failed' = failed
<1> DEFINE w == [key |-> k, val |-> current', from |-> from, seq |-> seq]
<1>1. /\ issued' = issued + 1 /\ reading = <<>>
      /\ current' = [current EXCEPT ![k] = issued + 1]
      /\ writing' = Append(writing, w)
      /\ UNCHANGED <<file, usageSnap, post, reading, acked, failed>>
  BY DEF Merge
<1>2. issued \in Nat /\ issued + 1 \in Nat /\ current \in SettingVals
  BY DEF SettingsTypes
<1>3. current' \in SettingVals /\ current'[k] = issued + 1 /\ \A j \in Setting \ {k} : current'[j] = current[j]
  BY <1>1, <1>2 DEF SettingVals
<1>5. NoNewer(current, current') /\ \A j \in Setting : current'[j] <= issued + 1
  BY <1>2, <1>3 DEF NoNewer, PatchInv, SettingVals
<1>6. w \in PatchesUnderWay  BY <1>3 DEF PatchesUnderWay
<1>7. w.key = k /\ w.val = current' /\ w.from = from /\ w.seq = seq  OBVIOUS
<1> HIDE DEF w
<1>8. /\ writing' \in Seq(PatchesUnderWay) /\ Len(writing') = Len(writing) + 1
      /\ \A i \in 1..Len(writing) : writing'[i] = writing[i]
      /\ writing'[Len(writing) + 1] = w
  BY <1>1, <1>6, AppendProperties DEF SettingsTypes
<1>9. /\ Len(writing) \in Nat /\ DOMAIN writing = 1..Len(writing)
      /\ DOMAIN writing' = 1..(Len(writing) + 1)
  BY <1>8, LenProperties DEF SettingsTypes
<1>10. PatchInv'
  <2>2. \A i \in DOMAIN writing : writing[i].val \in SettingVals
    <3>1. \A i \in DOMAIN writing : writing[i] \in PatchesUnderWay
      BY LenProperties DEF SettingsTypes
    <3> QED  BY <3>1 DEF PatchesUnderWay
  <2>3. NoNewer(acked', AsRead(file')) /\ NoNewer(AsRead(file'), current')
    BY <1>1, <1>2, <1>3, <1>5, AsReadTyped, NoNewerOrder DEF PatchInv, SettingsTypes
  <2>6. \A i \in DOMAIN writing' : NoNewer(AsRead(file'), writing'[i].val) /\ NoNewer(writing'[i].val, current')
    <3> SUFFICES ASSUME NEW i \in DOMAIN writing'
                 PROVE  NoNewer(AsRead(file'), writing'[i].val) /\ NoNewer(writing'[i].val, current')
      OBVIOUS
    <3>1. CASE i \in DOMAIN writing
      BY <1>8, <1>9, <1>1, AsReadTyped, <1>2, <1>3, <1>5, <2>2, NoNewerOrder, <3>1 DEF SettingsTypes, PatchInv
    <3>2. CASE i = Len(writing) + 1  BY <1>7, <1>8, <2>3, <1>3, NoNewerOrder, <3>2
    <3> QED  BY <1>9, <3>1, <3>2
  <2>7. \A i, j \in DOMAIN writing' : i < j => NoNewer(writing'[i].val, writing'[j].val)
    <3> SUFFICES ASSUME NEW i \in DOMAIN writing', NEW j \in DOMAIN writing', i < j
                 PROVE  NoNewer(writing'[i].val, writing'[j].val)
      OBVIOUS
    <3>2. CASE j \in DOMAIN writing  BY <1>8, <1>9, <3>2 DEF PatchInv
    <3>3. CASE j = Len(writing) + 1
      BY <1>7, <1>8, <1>2, <1>3, <1>5, <2>2, NoNewerOrder, <1>9, <3>3 DEF PatchInv
    <3> QED  BY <1>9, <3>2, <3>3
  <2> QED  BY <1>1, <1>5, <2>3, <2>6, <2>7 DEF PatchInv
<1> QED  BY <1>1, <1>3, <1>5, <1>6, <1>7, <1>8, <1>9, <1>10 DEF w

\* What the queues hold.
LEMMA Queues ==
    ASSUME SettingsTypes
    PROVE  /\ Len(writing) \in Nat /\ DOMAIN writing = 1..Len(writing)
           /\ Len(post) \in Nat /\ DOMAIN post = 1..Len(post)
           /\ (writing = <<>> <=> Len(writing) = 0) /\ (post = <<>> <=> Len(post) = 0)
           /\ \A i \in DOMAIN writing :
                /\ writing[i] \in PatchesUnderWay /\ writing[i].key \in Setting
                /\ writing[i].val \in SettingVals /\ writing[i].seq \in Nat
                /\ writing[i].from \in {"dialog", "font", "popover", "quiet", "gone"}
           /\ \A i \in DOMAIN post :
                /\ post[i] \in SettingsNews /\ post[i].val \in SettingVals /\ post[i].seq \in Nat
                /\ post[i].from \in {"main", "dialog", "font"}
                /\ post[i].kind \in {"changed", "merged", "failed"}
           /\ AsRead(file) \in SettingVals
<1>1. writing \in Seq(PatchesUnderWay) /\ post \in Seq(SettingsNews)  BY DEF SettingsTypes
<1>2. Len(writing) \in Nat /\ DOMAIN writing = 1..Len(writing) /\ (writing = <<>> <=> Len(writing) = 0)
  BY <1>1, LenProperties, EmptySeq
<1>3. Len(post) \in Nat /\ DOMAIN post = 1..Len(post) /\ (post = <<>> <=> Len(post) = 0)
  BY <1>1, LenProperties, EmptySeq
<1>4. \A i \in DOMAIN writing : writing[i] \in PatchesUnderWay  BY <1>1, <1>2
<1>5. \A i \in DOMAIN post : post[i] \in SettingsNews  BY <1>1, <1>3
<1>6. \A w \in PatchesUnderWay :
        /\ w.key \in Setting /\ w.val \in SettingVals /\ w.seq \in Nat
        /\ w.from \in {"dialog", "font", "popover", "quiet", "gone"}
  BY DEF PatchesUnderWay
<1>7. \A m \in SettingsNews :
        /\ m.val \in SettingVals /\ m.seq \in Nat /\ m.from \in {"main", "dialog", "font"}
        /\ m.kind \in {"changed", "merged", "failed"}
  BY DEF SettingsNews
<1>8. AsRead(file) \in SettingVals  BY AsReadTyped DEF SettingsTypes
<1> QED  BY <1>2, <1>3, <1>4, <1>5, <1>6, <1>7, <1>8

\* The patch is the n-th of those that wait, and the last.
Waits(n, k, seq, from) ==
    /\ \A j \in Setting \ {k} : current'[j] = current[j]
    /\ current' \in SettingVals /\ NoNewer(current, current') /\ current'[k] = issued + 1
    /\ Len(writing') = n /\ Len(writing) = n - 1 /\ n >= 1
    /\ DOMAIN writing = 1..(n - 1) /\ DOMAIN writing' = 1..n
    /\ \A i \in DOMAIN writing : writing'[i] = writing[i]
    /\ writing'[n].key = k /\ writing'[n].val = current' /\ writing'[n].from = from
    /\ writing'[n].seq = seq
    /\ file' = file /\ usageSnap' = usageSnap /\ post' = post

LEMMA MergedLast ==
    ASSUME Peeks = FALSE, SettingsTypes, PatchInv, NEW k \in Setting, NEW seq \in Nat,
           NEW from \in {"dialog", "font", "popover", "quiet"}, Merge(k, from, seq),
           NEW n \in Nat, n = Len(writing) + 1
    PROVE  Waits(n, k, seq, from)
<1>1. Len(writing) \in Nat  BY Queues
<1>2. DOMAIN writing = 1..Len(writing) /\ DOMAIN writing' = 1..(Len(writing) + 1)  BY Merges, ZenonT(60)
<1>3. /\ writing'[Len(writing) + 1].key = k /\ writing'[Len(writing) + 1].val = current'
      /\ writing'[Len(writing) + 1].from = from /\ writing'[Len(writing) + 1].seq = seq
  BY Merges, ZenonT(60)
<1>4. \A j \in Setting \ {k} : current'[j] = current[j]  BY Merges, ZenonT(60)
<1>5. \A i \in DOMAIN writing : writing'[i] = writing[i]  BY Merges, ZenonT(60)
<1>6. /\ current' \in SettingVals /\ NoNewer(current, current') /\ current'[k] = issued + 1
      /\ Len(writing') = Len(writing) + 1
  BY Merges, ZenonT(60)
<1>7. file' = file /\ usageSnap' = usageSnap /\ post' = post
  BY Merges, ZenonT(60)
<1> QED  BY <1>1, <1>2, <1>3, <1>4, <1>5, <1>6, <1>7 DEF Waits

\* Who makes a patch, and what they show of it.
Patch(k, seq, from) ==
    /\ Merge(k, from, seq)
    /\ \/ /\ from = "dialog" /\ k # "notice" /\ seq = dialog.seq + 1
          /\ dialog' = [shown |-> [dialog.shown EXCEPT ![k] = issued + 1],
                        seq |-> dialog.seq + 1, pending |-> dialog.pending + 1]
          /\ UNCHANGED fontHook
       \/ /\ from = "font" /\ k = "font" /\ seq = 0
          /\ fontHook' = [shown |-> issued + 1, pending |-> fontHook.pending + 1]
          /\ UNCHANGED dialog
       \/ /\ from = "popover" /\ k = "usage" /\ seq = 0
          /\ UNCHANGED <<dialog, fontHook>>
       \/ /\ from = "quiet" /\ k = "notice" /\ seq = 0
          /\ UNCHANGED <<dialog, fontHook>>

\* What a patch of the dialog makes of it.
LEMMA DialogPatched ==
    ASSUME SettingsTypes, NEW k \in Setting,
           dialog' = [shown |-> [dialog.shown EXCEPT ![k] = issued + 1],
                      seq |-> dialog.seq + 1, pending |-> dialog.pending + 1]
    PROVE  /\ dialog' \in [shown : SettingVals, seq : Nat, pending : Int]
           /\ dialog'.shown[k] = issued + 1
           /\ \A j \in Setting \ {k} : dialog'.shown[j] = dialog.shown[j]
           /\ dialog'.seq = dialog.seq + 1 /\ dialog'.pending = dialog.pending + 1
<1> DEFINE u == [dialog.shown EXCEPT ![k] = issued + 1]
<1>3. dialog' = [shown |-> u, seq |-> dialog.seq + 1, pending |-> dialog.pending + 1]  OBVIOUS
<1> HIDE DEF u
<1>4. dialog.seq + 1 \in Nat /\ dialog.pending + 1 \in Int  BY DEF SettingsTypes
<1>5. dialog' \in [shown : SettingVals, seq : Nat, pending : Int]  BY <1>3, <1>4 DEF SettingVals, SettingsTypes
<1>6. dialog'.shown = u /\ dialog'.seq = dialog.seq + 1 /\ dialog'.pending = dialog.pending + 1
  BY <1>3
<1> QED  BY <1>5, <1>6 DEF SettingVals, SettingsTypes

LEMMA PatchTyped ==
    ASSUME Peeks = FALSE, SettingsTypes, PatchInv, NEW k \in Setting, NEW seq \in Nat,
           NEW from \in {"dialog", "font", "popover", "quiet"}, Patch(k, seq, from)
    PROVE  SettingsTypes'
<1>2. /\ issued' = issued + 1 /\ current' \in SettingVals /\ writing' \in Seq(PatchesUnderWay)
      /\ reading = <<>> /\ UNCHANGED <<file, usageSnap, post, reading, acked, failed>>  BY Merges DEF Patch
<1>3. dialog' \in [shown : SettingVals, seq : Nat, pending : Int]
  <2>1. CASE from = "dialog"  BY <2>1, DialogPatched DEF Patch
  <2>2. CASE from # "dialog"  BY <2>2 DEF Patch, SettingsTypes
  <2> QED  BY <2>1, <2>2
<1>4. fontHook' \in [shown : Nat, pending : Int]
  <2>1. CASE from = "font"  BY <2>1 DEF SettingsTypes, Patch
  <2>2. CASE from # "font"  BY <2>2 DEF Patch, SettingsTypes
  <2> QED  BY <2>1, <2>2
<1> QED  BY <1>2, <1>3, <1>4 DEF SettingsTypes

\* A patch waits behind the others, and the service is the last of them.
LEMMA PatchWaits ==
    ASSUME Peeks = FALSE, SettingsTypes, PatchInv, DiskInv, QuietInv, PostInv,
           NEW k \in Setting, NEW seq \in Nat,
           NEW from \in {"dialog", "font", "popover", "quiet"}, Patch(k, seq, from)
    PROVE  DiskInv' /\ QuietInv' /\ PostInv'
<1>0. PICK n \in Nat : n = Len(writing) + 1  BY Queues
<1>w. Waits(n, k, seq, from)  BY <1>0, MergedLast DEF Patch
<1>2. /\ \A j \in Setting \ {k} : current'[j] = current[j]
      /\ Len(writing') = n /\ Len(writing) = n - 1 /\ n >= 1
      /\ DOMAIN writing = 1..(n - 1) /\ DOMAIN writing' = 1..n
      /\ \A i \in DOMAIN writing : writing'[i] = writing[i]
      /\ writing'[n].key = k /\ writing'[n].val = current' /\ writing'[n].from = from
      /\ writing'[n].seq = seq
      /\ file' = file /\ usageSnap' = usageSnap /\ post' = post
  BY <1>w DEF Waits
<1>4. AsRead(file') = AsRead(file)  BY <1>2
<1>6. n = Len(writing) + 1 /\ n \in DOMAIN writing' /\ n >= 1  BY <1>0, <1>2
<1>8. DiskInv'
  <2>2. ASSUME NEW i \in DOMAIN writing', i # n
        PROVE  /\ Before(i)' = Before(i)
    <3>2. CASE i = 1  BY <1>4, <3>2 DEF Before
    <3>3. CASE i # 1  BY <1>2, <3>3, <1>6, <2>2 DEF Before
    <3> QED  BY <3>2, <3>3
  <2>3. Before(n)' = current
    <3>1. CASE writing = <<>>  BY Queues, <1>4, <1>6, <3>1 DEF Before, DiskInv
    <3>2. CASE writing # <<>>  BY <1>2, <3>2, Queues, <1>6 DEF DiskInv, Before
    <3> QED  BY <3>1, <3>2
  <2>4. \A i \in DOMAIN writing' :
          /\ \A j \in Setting \ {writing'[i].key} : writing'[i].val[j] = Before(i)'[j]
          /\ writing'[i].from = "quiet" => writing'[i].key = "notice"
    <3> SUFFICES ASSUME NEW i \in DOMAIN writing'
                 PROVE  /\ \A j \in Setting \ {writing'[i].key} : writing'[i].val[j] = Before(i)'[j]
                        /\ writing'[i].from = "quiet" => writing'[i].key = "notice"
      OBVIOUS
    <3>1. CASE i = n  BY <1>2, <2>3, <3>1 DEF Patch
    <3>2. CASE i # n  BY <1>2, <1>6, <3>2, <2>2 DEF DiskInv
    <3> QED  BY <3>1, <3>2
  <2>5. usageSnap' = AsRead(file').usage  BY <1>2, <1>4 DEF DiskInv
  <2> QED  BY <1>0, <1>2, EmptySeq, <2>4, <2>5 DEF DiskInv
<1>9. QuietInv'
  <2>1. ASSUME from = "quiet"
        PROVE  current'["font"] = current["font"] /\ current'["usage"] = current["usage"]
    BY <1>2, <2>1 DEF Setting, Patch
  <2>2. (\A i \in DOMAIN writing' : writing'[i].from = "quiet") =>
          \A j \in {"font", "usage"} : AsRead(file')[j] = current'[j]
    <3> SUFFICES ASSUME \A i \in DOMAIN writing' : writing'[i].from = "quiet"
                 PROVE  \A j \in {"font", "usage"} : AsRead(file')[j] = current'[j]
      OBVIOUS
    <3>2. \A i \in DOMAIN writing : writing[i].from = "quiet"  BY <1>2, <1>6
    <3> QED  BY <1>4, <2>1, <1>2, <1>6, <3>2 DEF QuietInv
  <2>3. ASSUME NEW i \in DOMAIN writing', \A j \in DOMAIN writing' : j > i => writing'[j].from = "quiet"
        PROVE  \A j \in {"font", "usage"} : writing'[i].val[j] = current'[j]
    <3>1. CASE i = n  BY <1>2, <3>1
    <3>2. CASE i # n
      <4>1. i \in DOMAIN writing /\ i < n /\ writing'[i] = writing[i]  BY <1>2, <1>6, <3>2
      <4>3. \A j \in DOMAIN writing : j > i => writing[j].from = "quiet"  BY <2>3, <1>2, <1>6
      <4> QED  BY <2>1, <4>1, <1>2, <1>6, <2>3, <4>3 DEF QuietInv
    <3> QED  BY <3>1, <3>2
  <2> QED  BY <2>2, <2>3 DEF QuietInv
<1> QED  BY <1>8, <1>9, <1>2, <1>4 DEF PostInv

\* The dialog waits for one more answer, the last.
LEMMA PatchAwaited ==
    ASSUME Peeks = FALSE, SettingsTypes, PatchInv, SeqInv, ShownInv,
           NEW k \in Setting, NEW seq \in Nat,
           NEW from \in {"dialog", "font", "popover", "quiet"}, Patch(k, seq, from)
    PROVE  SeqInv' /\ ShownInv'
<1>0. PICK n \in Nat : n = Len(writing) + 1  BY Queues
<1> DEFINE asks == IF from = "dialog" THEN {seq} ELSE {}
<1>w. Waits(n, k, seq, from)  BY <1>0, MergedLast DEF Patch
<1>2. /\ \A j \in Setting \ {k} : current'[j] = current[j]
      /\ current' \in SettingVals /\ NoNewer(current, current') /\ current'[k] = issued + 1
      /\ Len(writing) = n - 1 /\ n >= 1
      /\ DOMAIN writing = 1..(n - 1) /\ DOMAIN writing' = 1..n
      /\ \A i \in DOMAIN writing : writing'[i] = writing[i]
      /\ writing'[n].val = current' /\ writing'[n].from = from /\ writing'[n].seq = seq
      /\ post' = post
  BY <1>w DEF Waits
<1>4. \A i \in DOMAIN writing' : i = n \/ (i \in DOMAIN writing /\ i < n /\ writing'[i] = writing[i])  BY <1>2
<1>5. dialog.seq \in Nat /\ dialog.pending \in Int /\ dialog.pending >= 0 /\ dialog.shown \in SettingVals
  BY DEF SettingsTypes, SeqInv
<1>6. \A i \in Outstanding : i \in Int /\ i <= dialog.seq  BY <1>5 DEF Outstanding
<1>7. Outstanding' = Outstanding \cup asks /\ dialog'.pending >= 0
  <2>1. CASE from = "dialog"
    <3>2. Outstanding' = (dialog.seq - dialog.pending + 1)..(dialog.seq + 1)
      BY <1>5, <2>1, DialogPatched DEF Outstanding, Patch
    <3> QED  BY <1>5, <2>1, DialogPatched, <3>2 DEF Outstanding, Patch
  <2>2. CASE from # "dialog"  BY <1>5, <2>2 DEF Outstanding, Patch
  <2> QED  BY <2>1, <2>2
<1>8. from = "dialog" => seq = dialog.seq + 1  BY DEF Patch
<1>9. SeqInv'
  <2>1. \A i \in DOMAIN post' : post'[i].from = "dialog" => post'[i].seq \in Outstanding'
    BY <1>2, <1>7 DEF SeqInv
  <2>2. \A i \in DOMAIN writing' : writing'[i].from = "dialog" => writing'[i].seq \in Outstanding'
    BY <1>2, <1>4, <1>7 DEF SeqInv
  <2>3. \A m \in Outstanding' :
          \/ \E i \in DOMAIN post' : post'[i].from = "dialog" /\ post'[i].seq = m
          \/ \E i \in DOMAIN writing' : writing'[i].from = "dialog" /\ writing'[i].seq = m
    <3> SUFFICES ASSUME NEW m \in Outstanding',
                        ~\E i \in DOMAIN post' : post'[i].from = "dialog" /\ post'[i].seq = m
                 PROVE  \E i \in DOMAIN writing' : writing'[i].from = "dialog" /\ writing'[i].seq = m
      OBVIOUS
    <3>1. CASE m \in Outstanding
      <4>1. PICK i \in DOMAIN writing : writing[i].from = "dialog" /\ writing[i].seq = m
        BY <1>2, <3>1 DEF SeqInv
      <4> QED  BY <1>2, <4>1
    <3>2. CASE from = "dialog" /\ m = seq  BY <1>2, <3>2
    <3> QED  BY <1>7, <3>1, <3>2
  <2>4. \A i, j \in DOMAIN post' :
          i < j /\ post'[i].from = "dialog" /\ post'[j].from = "dialog" => post'[i].seq < post'[j].seq
    BY <1>2 DEF SeqInv
  <2>5. ASSUME NEW i \in DOMAIN writing', NEW j \in DOMAIN writing',
               i < j, writing'[i].from = "dialog", writing'[j].from = "dialog"
        PROVE  writing'[i].seq < writing'[j].seq
    <3>1. i \in DOMAIN writing /\ writing'[i] = writing[i]
      BY <1>2, <1>4, <2>5
    <3>2. CASE j = n
      <4>1. writing[i].seq \in Outstanding  BY <2>5, <3>1 DEF SeqInv
      <4> QED  BY <1>2, <1>5, <1>6, <1>8, <2>5, <3>1, <3>2, <4>1
    <3>3. CASE j # n  BY <1>4, <2>5, <3>1, <3>3 DEF SeqInv
    <3> QED  BY <3>2, <3>3
  <2>6. ASSUME NEW i \in DOMAIN post', NEW j \in DOMAIN writing',
               post'[i].from = "dialog", writing'[j].from = "dialog"
        PROVE  post'[i].seq < writing'[j].seq
    <3>1. i \in DOMAIN post /\ post'[i] = post[i]  BY <1>2
    <3>2. CASE j = n
      <4>1. post[i].seq \in Outstanding  BY <2>6, <3>1 DEF SeqInv
      <4> QED  BY <1>2, <1>5, <1>6, <1>8, <2>6, <3>1, <3>2, <4>1
    <3>3. CASE j # n  BY <1>4, <2>6, <3>1, <3>3 DEF SeqInv
    <3> QED  BY <3>2, <3>3
  <2> QED  BY <1>7, <2>1, <2>2, <2>3, <2>4, <2>5, <2>6 DEF SeqInv
<1>10. ShownInv'
  <2>5. CASE from = "dialog"
    <3>1. /\ dialog'.seq = dialog.seq + 1 /\ dialog'.pending # 0 /\ k \in Setting
          /\ dialog'.shown[k] = issued + 1
          /\ \A j \in Setting \ {k} : dialog'.shown[j] = dialog.shown[j]
      BY <1>5, <2>5, DialogPatched DEF Patch
    <3>2. NoNewer(dialog'.shown, current')
      <4>2. \A j \in Setting \ {k} : dialog.shown[j] <= current[j]  BY DEF ShownInv, NoNewer
      <4> QED  BY <1>2, <3>1, <4>2 DEF NoNewer, SettingsTypes
    <3>3. \A i \in DOMAIN post' : ~(post'[i].from = "dialog" /\ post'[i].seq = dialog'.seq)
      BY <1>2, <1>5, <1>6, Queues, <3>1 DEF SeqInv
    <3>4. \A i \in DOMAIN writing : ~(writing[i].from = "dialog" /\ writing[i].seq = dialog'.seq)
      BY <1>5, <1>6, Queues, <3>1 DEF SeqInv
    <3> QED  BY <3>1, <3>2, <3>3, <1>2, <1>4, <3>4 DEF ShownInv
  <2>6. CASE from # "dialog"
    <3>3. \A i \in DOMAIN post' :
            \/ dialog'.pending = 0
            \/ post'[i].from = "dialog" /\ post'[i].seq = dialog'.seq
            => NoNewer(dialog'.shown, post'[i].val)  BY <1>2, <2>6 DEF ShownInv, Patch
    <3>4. \A i \in DOMAIN writing' :
            \/ dialog'.pending = 0
            \/ writing'[i].from = "dialog" /\ writing'[i].seq = dialog'.seq
            => NoNewer(dialog'.shown, writing'[i].val)
      <4> SUFFICES ASSUME NEW i \in DOMAIN writing',
                          \/ dialog.pending = 0
                          \/ writing'[i].from = "dialog" /\ writing'[i].seq = dialog.seq
                   PROVE  NoNewer(dialog.shown, writing'[i].val)  BY <2>6 DEF Patch
      <4>1. CASE i = n  BY <1>2, <1>5, NoNewerOrder, <4>1 DEF ShownInv, SettingsTypes
      <4>2. CASE i # n  BY <1>4, <4>2 DEF ShownInv
      <4> QED  BY <4>1, <4>2
    <3> QED  BY <2>6, <1>2, <1>5, NoNewerOrder, <3>3, <3>4 DEF ShownInv, Patch, SettingsTypes
  <2> QED  BY <2>5, <2>6
<1> QED  BY <1>9, <1>10

\* The font menu counts one more patch if it is its own, and nobody has heard of it yet.
LEMMA PatchCounted ==
    ASSUME Peeks = FALSE, SettingsTypes, PatchInv, FontInv, HeardInv,
           NEW k \in Setting, NEW seq \in Nat,
           NEW from \in {"dialog", "font", "popover", "quiet"}, Patch(k, seq, from)
    PROVE  FontInv' /\ HeardInv'
<1>0. PICK n \in Nat : n = Len(writing) + 1  BY Queues
<1> DEFINE w == [key |-> k, val |-> current', from |-> from, seq |-> seq]
<1>1. Merge(k, from, seq)  BY DEF Patch
<1>w. Waits(n, k, seq, from)  BY <1>0, <1>1, MergedLast
<1>2. /\ \A j \in Setting \ {k} : current'[j] = current[j]
      /\ current'[k] = issued + 1
      /\ Len(writing) = n - 1 /\ n >= 1
      /\ DOMAIN writing = 1..(n - 1) /\ DOMAIN writing' = 1..n
      /\ \A i \in DOMAIN writing : writing'[i] = writing[i]
      /\ writing'[n].val = current' /\ writing'[n].from = from
      /\ post' = post
  BY <1>w DEF Waits
<1>3. w.from = from /\ w \in PatchesUnderWay /\ writing' = Append(writing, w)
  BY <1>1, Merges
<1> HIDE DEF w
<1>5. FontsOf(writing') = IF from = "font" THEN FontsOf(writing) \cup {n} ELSE FontsOf(writing)
  BY <1>2, <1>3, FontsAppended DEF SettingsTypes
<1>6. /\ IsFiniteSet(FontsOf(writing)) /\ n \notin FontsOf(writing)
      /\ Cardinality(FontsOf(writing)) \in Nat /\ Cardinality(FontsOf(post)) \in Nat
  BY <1>0, FontsCounted DEF SettingsTypes
<1>8. \A i \in FontsOf(writing) : i \in DOMAIN writing /\ writing'[i] = writing[i] /\ i < n
  BY <1>2 DEF FontsOf
<1>9. n \in DOMAIN writing' /\ n \in Int /\ \A i \in DOMAIN writing : i \in DOMAIN writing'
  BY <1>2
<1>10. FontInv'
  <2>1. CASE from = "font"
    <3>3. Cardinality(FontsOf(writing')) = Cardinality(FontsOf(writing)) + 1
      BY <1>5, <1>6, <2>1, FS_AddElement
    <3>4. fontHook'.pending = Cardinality(FontsOf(post')) + Cardinality(FontsOf(writing'))
      BY <1>6, <1>2, <2>1, <3>3 DEF FontInv, Patch
    <3>6. \A i \in FontsOf(writing') : (\A j \in FontsOf(writing') : j <= i) => i = n
      <4> SUFFICES ASSUME NEW i \in FontsOf(writing'), n <= i PROVE i = n  BY <1>5, <2>1
      <4> QED  BY <1>2, <1>5, <1>8, <1>9, <2>1 DEF FontsOf
    <3>7. fontHook'.shown = writing'[n].val.font  BY <1>2, <2>1 DEF Patch
    <3> QED  BY <3>4, <1>5, <2>1, <3>6, <3>7 DEF FontInv
  <2>2. CASE from # "font"  BY <1>2, <1>8, <1>5, <2>2 DEF FontInv, Patch
  <2> QED  BY <2>1, <2>2
<1>11. HeardInv'
  <2> SUFFICES ASSUME \A i \in DOMAIN writing' : writing'[i].from = "quiet"
               PROVE  /\ post' = <<>> \/ (Len(post') = 1 /\ post'[1].from = "font") =>
                           \A j \in {"font", "usage"} : dialog'.shown[j] = current'[j]
                      /\ post' = <<>> \/ (Len(post') = 1 /\ post'[1].from = "dialog") =>
                           fontHook'.shown = current'.font
    BY DEF HeardInv
  <2> QED  BY <1>2, <1>9 DEF HeardInv, Setting, Patch
<1> QED  BY <1>10, <1>11

\* The first of those that wait leaves.
LEMMA WritingLeaves ==
    ASSUME SettingsTypes, writing # <<>>, writing' = Tail(writing)
    PROVE  /\ Len(writing) >= 1 /\ 1 \in DOMAIN writing /\ Head(writing) = writing[1]
           /\ DOMAIN writing' = 1..(Len(writing) - 1) /\ writing' \in Seq(PatchesUnderWay)
           /\ (writing' = <<>> <=> Len(writing) = 1) /\ Len(writing') = Len(writing) - 1
           /\ \A i \in DOMAIN writing' : i + 1 \in DOMAIN writing /\ i + 1 > 1 /\ writing'[i] = writing[i + 1]
           /\ \A i \in DOMAIN writing : i # 1 => i - 1 \in DOMAIN writing' /\ writing'[i - 1] = writing[i]
<1>2. /\ writing' \in Seq(PatchesUnderWay) /\ Len(writing') = Len(writing) - 1
      /\ \A i \in 1..Len(writing') : writing'[i] = writing[i + 1]
      /\ Head(writing) = writing[1]  BY HeadTailProperties DEF SettingsTypes
<1> QED  BY <1>2, Queues, LenProperties, EmptySeq

\* The first of those that were sent is received.
LEMMA PostLeaves ==
    ASSUME SettingsTypes, post # <<>>, post' = Tail(post)
    PROVE  /\ Len(post) >= 1 /\ 1 \in DOMAIN post /\ Head(post) = post[1]
           /\ DOMAIN post' = 1..(Len(post) - 1) /\ post' \in Seq(SettingsNews)
           /\ (post' = <<>> <=> Len(post) = 1) /\ Len(post') = Len(post) - 1
           /\ \A i \in DOMAIN post' : i + 1 \in DOMAIN post /\ i + 1 > 1 /\ post'[i] = post[i + 1]
           /\ \A i \in DOMAIN post : i # 1 => i - 1 \in DOMAIN post' /\ post'[i - 1] = post[i]
<1>4. DOMAIN post' = 1..Len(post') /\ (post' = <<>> <=> Len(post') = 0)
  BY HeadTailProperties, LenProperties, EmptySeq DEF SettingsTypes
<1> QED  BY HeadTailProperties, Queues, <1>4 DEF SettingsTypes

\* The patches that still wait were made in order, and keep it.
LEMMA LeavingKeepsPatches ==
    ASSUME SettingsTypes, PatchInv, writing # <<>>, writing' = Tail(writing),
           current' = current, issued' = issued,
           NoNewer(acked', AsRead(file')), NoNewer(AsRead(file'), writing[1].val),
           AsRead(file') \in SettingVals
    PROVE  PatchInv'
<1>1. /\ 1 \in DOMAIN writing /\ DOMAIN writing' = 1..(Len(writing) - 1)
      /\ \A i \in DOMAIN writing' : i + 1 \in DOMAIN writing /\ i + 1 > 1 /\ writing'[i] = writing[i + 1]
  BY WritingLeaves
<1>5. \A i \in DOMAIN writing' : NoNewer(AsRead(file'), writing'[i].val) /\ NoNewer(writing'[i].val, current')
  <2> SUFFICES ASSUME NEW i \in DOMAIN writing'
               PROVE  NoNewer(AsRead(file'), writing'[i].val) /\ NoNewer(writing'[i].val, current')
    OBVIOUS
  <2>3. NoNewer(AsRead(file'), writing[i + 1].val)  BY <1>1, Queues, NoNewerOrder DEF PatchInv
  <2> QED  BY <1>1, <2>3 DEF PatchInv
<1>6. \A i, j \in DOMAIN writing' : i < j => NoNewer(writing'[i].val, writing'[j].val)
  <2> SUFFICES ASSUME NEW i \in DOMAIN writing', NEW j \in DOMAIN writing', i < j
               PROVE  NoNewer(writing'[i].val, writing'[j].val)
    OBVIOUS
  <2> QED  BY <1>1, Queues DEF PatchInv
<1> QED  BY <1>1, Queues, NoNewerOrder, <1>5, <1>6 DEF PatchInv, SettingsTypes

\* How much is said of a patch that is on disk: the news, and the answer behind it.
Says(t, w) ==
    /\ t \in {0, 1, 2} /\ (t = 2 <=> Invoked(w)) /\ (t = 0 <=> w.from = "quiet")
    /\ Len(post') = Len(post) + t /\ DOMAIN post' = 1..(Len(post) + t)
    /\ post' \in Seq(SettingsNews)
    /\ \A i \in DOMAIN post : post'[i] = post[i]
    /\ t > 0 => post'[Len(post) + 1] = Changed(w.val)
    /\ t = 2 => post'[Len(post) + 2] = Reply("merged", w)
    /\ FontsOf(post') = IF w.from = "font" THEN FontsOf(post) \cup {Len(post) + 2} ELSE FontsOf(post)

LEMMA Telling ==
    ASSUME SettingsTypes, NEW w \in PatchesUnderWay, post' = post \o Told(w)
    PROVE  \E t \in {0, 1, 2} : Says(t, w)
<1> DEFINE news == Changed(w.val)
           answer == Reply("merged", w)
<1>2. news \in SettingsNews /\ news.from = "main"  BY DEF SettingsNews, Changed, PatchesUnderWay
<1>3. Invoked(w) => answer \in SettingsNews /\ answer.from = w.from
  BY DEF SettingsNews, Reply, Invoked, PatchesUnderWay
<1>4. post \in Seq(SettingsNews) /\ Len(post) \in Nat /\ DOMAIN post = 1..Len(post)
  BY Queues DEF SettingsTypes
<1> HIDE DEF news, answer
<1>5. CASE Invoked(w)
  <2> DEFINE told == Append(post, news)
  <2>3. post' = Append(told, answer)  BY <1>2, <1>3, <1>4, <1>5 DEF Told, news, answer, Invoked
  <2>4. /\ told \in Seq(SettingsNews) /\ Len(told) = Len(post) + 1
        /\ \A i \in 1..Len(post) : told[i] = post[i]
        /\ told[Len(post) + 1] = news
    BY <1>2, <1>4, AppendProperties
  <2>5. FontsOf(told) = FontsOf(post)  BY <1>2, <1>4, FontsAppended
  <2> HIDE DEF told
  <2>7. FontsOf(post') = IF w.from = "font" THEN FontsOf(post) \cup {Len(post) + 2} ELSE FontsOf(post)
    <3>1. FontsOf(Append(told, answer)) =
            IF answer.from = "font" THEN FontsOf(told) \cup {Len(told) + 1} ELSE FontsOf(told)
      BY <1>3, <1>5, <2>4, FontsAppended
    <3>2. Len(told) + 1 = Len(post) + 2  BY <1>4, <2>4
    <3> QED  BY <1>3, <1>5, <2>3, <2>5, <3>1, <3>2
  <2>10. w.from # "quiet"  BY <1>5 DEF Invoked
  <2>11. Says(2, w)
    BY <1>5, <1>3, <2>3, <2>4, AppendProperties, <2>7, <1>4, LenProperties, <2>10 DEF Says, news, answer
  <2> QED  BY <2>11
<1>6. CASE w.from \in {"popover", "gone"}
  <2>3. post' = Append(post, news)  BY <1>2, <1>4, <1>6 DEF Told, news, Invoked
  <2>5. FontsOf(post') = FontsOf(post)  BY <1>2, <1>4, <2>3, FontsAppended
  <2>6. DOMAIN post' = 1..(Len(post) + 1)  BY <1>2, <1>4, <2>3, AppendProperties, LenProperties
  <2>7. Says(1, w)  BY <1>4, <1>6, <1>2, <2>3, AppendProperties, <2>5, <2>6 DEF Says, news, Invoked
  <2> QED  BY <2>7
<1>7. CASE w.from = "quiet"  BY <1>4, <1>7 DEF Says, Invoked, Told
<1> QED  BY <1>5, <1>6, <1>7 DEF Invoked, PatchesUnderWay

\* The write of the first that waits.
LEMMA PersistedPatches ==
    ASSUME SettingsTypes, PatchInv, Persisted
    PROVE  /\ SettingsTypes' /\ PatchInv' /\ AsRead(file') = writing[1].val
           /\ writing # <<>> /\ writing' = Tail(writing)
           /\ NoNewer(AsRead(file), writing[1].val)
           /\ writing[1] \in PatchesUnderWay /\ \E t \in {0, 1, 2} : Says(t, writing[1])
<1>1. writing # <<>> /\ writing' = Tail(writing)  BY DEF Persisted
<1>2. 1 \in DOMAIN writing /\ Head(writing) = writing[1] /\ writing' \in Seq(PatchesUnderWay)
  BY <1>1, WritingLeaves
<1> DEFINE w == writing[1]
<1>3. /\ file' = [kind |-> "ok", val |-> w.val]
      /\ post' = post \o Told(w)
      /\ usageSnap' = IF w.from # "quiet" /\ w.key = "usage" THEN w.val.usage ELSE usageSnap
      /\ acked' = [acked EXCEPT ![w.key] = w.val[w.key]]
      /\ current' = current /\ dialog' = dialog /\ fontHook' = fontHook /\ reading' = reading
      /\ issued' = issued /\ failed' = failed
  BY <1>2 DEF Persisted
<1>4. w \in PatchesUnderWay /\ w.key \in Setting /\ w.val \in SettingVals  BY <1>2, Queues
<1>5. NoNewer(AsRead(file), w.val)  BY <1>2 DEF PatchInv
<1> HIDE DEF w
<1>6. AsRead(file') = w.val  BY <1>3 DEF AsRead
<1>7. file' \in [kind : {"ok", "unknown"}, val : SettingVals]  BY <1>3, <1>4
<1>9. acked' \in SettingVals /\ acked'[w.key] = w.val[w.key] /\ \A k \in Setting \ {w.key} : acked'[k] = acked[k]
  BY <1>3, <1>4 DEF SettingVals, SettingsTypes
<1>10. NoNewer(acked', AsRead(file'))
  <2>1. NoNewer(acked, w.val)  BY <1>4, <1>5, Queues, NoNewerOrder DEF PatchInv, SettingsTypes
  <2> QED  BY <1>6, <1>4, <1>9, <2>1 DEF NoNewer, SettingVals
<1>12. PatchInv'  BY <1>1, <1>3, <1>4, <1>6, <1>10, NoNewerOrder, LeavingKeepsPatches DEF w
<1>13. PICK t \in {0, 1, 2} : Says(t, w)  BY <1>3, <1>4, Telling
<1>14. SettingsTypes'
  <2>1. usageSnap' \in Nat  BY <1>3, <1>4 DEF SettingsTypes, Setting, SettingVals
  <2>2. reading' = <<>>  BY <1>1, <1>3 DEF SettingsTypes
  <2>3. post' \in Seq(SettingsNews)  BY <1>13 DEF Says
  <2> QED  BY <1>2, <1>3, <1>7, <1>9, <2>1, <2>2, <2>3 DEF SettingsTypes
<1> QED  BY <1>1, <1>4, <1>5, <1>6, <1>12, <1>13, <1>14 DEF w

\* What is on disk next is what the others are merged into.
LEMMA PersistedDisk ==
    ASSUME SettingsTypes, PatchInv, DiskInv, QuietInv, Persisted
    PROVE  DiskInv' /\ QuietInv'
<1>1. writing # <<>> /\ writing' = Tail(writing) /\ AsRead(file') = writing[1].val
  BY PersistedPatches
<1>2. /\ Len(writing) >= 1 /\ 1 \in DOMAIN writing /\ Head(writing) = writing[1]
      /\ DOMAIN writing' = 1..(Len(writing) - 1)
      /\ (writing' = <<>> <=> Len(writing) = 1) /\ Len(writing') = Len(writing) - 1
      /\ \A i \in DOMAIN writing' : i + 1 \in DOMAIN writing /\ i + 1 > 1 /\ writing'[i] = writing[i + 1]
      /\ \A i \in DOMAIN writing : i # 1 => i - 1 \in DOMAIN writing' /\ writing'[i - 1] = writing[i]
  BY <1>1, WritingLeaves
<1>4. /\ current' = current
      /\ usageSnap' = IF writing[1].from # "quiet" /\ writing[1].key = "usage"
                      THEN writing[1].val.usage ELSE usageSnap
  BY <1>2 DEF Persisted
<1>5. DiskInv'
  <2>1. current' = IF writing' = <<>> THEN AsRead(file') ELSE writing'[Len(writing')].val
    <3>1. current = writing[Len(writing)].val  BY <1>1 DEF DiskInv
    <3>2. CASE writing' = <<>>  BY <1>1, <1>2, <1>4, <3>1, <3>2
    <3>3. CASE writing' # <<>>
      <4>2. writing'[Len(writing) - 1] = writing[Len(writing)]  BY <1>2, Queues, <3>3
      <4> QED  BY <1>2, <1>4, <3>1, <3>3, <4>2
    <3> QED  BY <3>2, <3>3
  <2>2. ASSUME NEW i \in DOMAIN writing'
        PROVE  /\ \A k \in Setting \ {writing'[i].key} : writing'[i].val[k] = Before(i)'[k]
               /\ writing'[i].from = "quiet" => writing'[i].key = "notice"
    <3>2. Before(i)' = Before(i + 1)
      <4>2. CASE i = 1  BY <1>1, <1>2, <4>2 DEF Before
      <4>3. CASE i # 1  BY <1>2, <4>3 DEF Before
      <4> QED  BY <4>2, <4>3
    <3> QED  BY <1>2, <3>2 DEF DiskInv
  <2>3. usageSnap' = AsRead(file').usage
    <3>3. usageSnap = AsRead(file)["usage"]  BY DEF DiskInv
    <3>4. CASE writing[1].key = "usage"  BY <1>1, <1>4, <1>2, <3>4 DEF DiskInv
    <3>5. CASE writing[1].key # "usage"
      <4>1. writing[1].val["usage"] = AsRead(file)["usage"]  BY <1>2, <3>5 DEF Setting, DiskInv, Before
      <4> QED  BY <1>1, <1>4, <3>3, <3>5, <4>1
    <3> QED  BY <3>4, <3>5
  <2> QED  BY <2>1, <2>2, <2>3 DEF DiskInv
<1>6. QuietInv'
  <2>1. ASSUME \A i \in DOMAIN writing' : writing'[i].from = "quiet"
        PROVE  \A k \in {"font", "usage"} : AsRead(file')[k] = current'[k]
    <3>1. \A j \in DOMAIN writing : j > 1 => writing[j].from = "quiet"  BY <1>2, Queues, <2>1
    <3> QED  BY <1>1, <1>4, <1>2, <3>1 DEF QuietInv
  <2>2. ASSUME NEW i \in DOMAIN writing', \A j \in DOMAIN writing' : j > i => writing'[j].from = "quiet"
        PROVE  \A k \in {"font", "usage"} : writing'[i].val[k] = current'[k]
    <3>2. \A j \in DOMAIN writing : j > i + 1 => writing[j].from = "quiet"
      <4> SUFFICES ASSUME NEW j \in DOMAIN writing, j > i + 1 PROVE writing[j].from = "quiet"
        OBVIOUS
      <4> QED  BY <2>2, <1>2, Queues
    <3> QED  BY <1>4, <1>2, <3>2 DEF QuietInv
  <2> QED  BY <2>1, <2>2 DEF QuietInv
<1> QED  BY <1>5, <1>6

\* What is posted of a write.
LEMMA PersistedNews ==
    ASSUME SettingsTypes, PatchInv, Persisted, NEW n \in Nat, n = Len(post)
    PROVE  \E t \in {0, 1, 2} :
             /\ (t = 2 <=> writing[1].from \in {"dialog", "font"}) /\ (t = 0 <=> writing[1].from = "quiet")
             /\ DOMAIN post = 1..n /\ DOMAIN post' = 1..(n + t) /\ Len(post') = n + t
             /\ \A i \in DOMAIN post : i \in DOMAIN post' /\ i <= n /\ post'[i] = post[i]
             /\ t > 0 => /\ n + 1 \in DOMAIN post'
                         /\ post'[n + 1].from = "main" /\ post'[n + 1].kind = "changed"
                         /\ post'[n + 1].val = writing[1].val
             /\ t = 2 => /\ n + 2 \in DOMAIN post'
                         /\ post'[n + 2].from = writing[1].from /\ post'[n + 2].kind = "merged"
                         /\ post'[n + 2].val = writing[1].val /\ post'[n + 2].seq = writing[1].seq
             /\ \A i \in DOMAIN post' :
                  i \in DOMAIN post \/ (t > 0 /\ i = n + 1) \/ (t = 2 /\ i = n + 2)
             /\ FontsOf(post') = IF writing[1].from = "font" THEN FontsOf(post) \cup {n + 2} ELSE FontsOf(post)
<1>1. PICK t \in {0, 1, 2} : Says(t, writing[1])  BY PersistedPatches
<1>2. DOMAIN post = 1..n  BY Queues
<1>3. /\ t = 2 <=> writing[1].from \in {"dialog", "font"}
      /\ t = 0 <=> writing[1].from = "quiet"
      /\ DOMAIN post' = 1..(n + t) /\ Len(post') = n + t
      /\ \A i \in DOMAIN post : post'[i] = post[i]
      /\ t > 0 => post'[n + 1] = Changed(writing[1].val)
      /\ t = 2 => post'[n + 2] = Reply("merged", writing[1])
      /\ FontsOf(post') = IF writing[1].from = "font" THEN FontsOf(post) \cup {n + 2} ELSE FontsOf(post)
  BY <1>1 DEF Says, Invoked
<1>4. \A i \in DOMAIN post : i \in DOMAIN post' /\ i <= n  BY <1>2, <1>3
<1>5. \A i \in DOMAIN post' : i \in DOMAIN post \/ (t > 0 /\ i = n + 1) \/ (t = 2 /\ i = n + 2)
  BY <1>2, <1>3
<1>6. t > 0 => /\ n + 1 \in DOMAIN post'
               /\ post'[n + 1].from = "main" /\ post'[n + 1].kind = "changed"
               /\ post'[n + 1].val = writing[1].val
  BY <1>3 DEF Changed
<1>7. t = 2 => /\ n + 2 \in DOMAIN post'
               /\ post'[n + 2].from = writing[1].from /\ post'[n + 2].kind = "merged"
               /\ post'[n + 2].val = writing[1].val /\ post'[n + 2].seq = writing[1].seq
  BY <1>3 DEF Reply
<1> QED  BY <1>2, <1>3, <1>4, <1>5, <1>6, <1>7

LEMMA PersistedPosted ==
    ASSUME SettingsTypes, PatchInv, DiskInv, PostInv, Persisted
    PROVE  PostInv'
<1>0. PICK n \in Nat : n = Len(post)  BY Queues
<1>1. /\ AsRead(file') = writing[1].val /\ NoNewer(AsRead(file), writing[1].val)
      /\ writing[1] \in PatchesUnderWay /\ writing # <<>> /\ 1 \in DOMAIN writing
  BY PersistedPatches, WritingLeaves
<1> DEFINE new == writing[1].val
<1>2. PICK t \in {0, 1, 2} :
             /\ (t = 2 <=> writing[1].from \in {"dialog", "font"}) /\ (t = 0 <=> writing[1].from = "quiet")
             /\ DOMAIN post = 1..n /\ DOMAIN post' = 1..(n + t) /\ Len(post') = n + t
             /\ \A i \in DOMAIN post : i \in DOMAIN post' /\ i <= n /\ post'[i] = post[i]
             /\ t > 0 => /\ n + 1 \in DOMAIN post'
                         /\ post'[n + 1].from = "main" /\ post'[n + 1].kind = "changed"
                         /\ post'[n + 1].val = new
             /\ t = 2 => /\ n + 2 \in DOMAIN post'
                         /\ post'[n + 2].from = writing[1].from /\ post'[n + 2].kind = "merged"
                         /\ post'[n + 2].val = new /\ post'[n + 2].seq = writing[1].seq
             /\ \A i \in DOMAIN post' :
                  i \in DOMAIN post \/ (t > 0 /\ i = n + 1) \/ (t = 2 /\ i = n + 2)
  BY <1>0, PersistedNews
<1> HIDE DEF new
<1>5. NoNewer(new, new) /\ NoNewer(AsRead(file), new) /\ AsRead(file') = new
  BY <1>1, Queues, NoNewerOrder DEF new
<1>7. \A i \in DOMAIN post' : NoNewer(post'[i].val, AsRead(file'))
  BY <1>2, <1>5, <1>1, Queues, NoNewerOrder DEF PostInv
<1>8. \A i \in DOMAIN post' : post'[i].kind = IF post'[i].from = "main" THEN "changed" ELSE "merged"
  <2> SUFFICES ASSUME NEW i \in DOMAIN post'
               PROVE  post'[i].kind = IF post'[i].from = "main" THEN "changed" ELSE "merged"
    OBVIOUS
  <2>1. CASE i \in DOMAIN post  BY <1>2, <2>1 DEF PostInv
  <2>2. CASE t > 0 /\ i = n + 1  BY <1>2, <2>2
  <2>3. CASE t = 2 /\ i = n + 2  BY <1>2, <2>3
  <2> QED  BY <1>2, <2>1, <2>2, <2>3
<1>9. \A i \in DOMAIN post' :
        post'[i].from # "main" /\ i > 1 => post'[i - 1].from = "main" /\ post'[i - 1].val = post'[i].val
  <2> SUFFICES ASSUME NEW i \in DOMAIN post', post'[i].from # "main", i > 1
               PROVE  post'[i - 1].from = "main" /\ post'[i - 1].val = post'[i].val
    OBVIOUS
  <2>1. CASE i \in DOMAIN post  BY <1>2, <2>1 DEF PostInv
  <2>2. CASE t > 0 /\ i = n + 1  BY <1>2, <2>2
  <2>3. CASE t = 2 /\ i = n + 2  BY <1>2, <2>3
  <2> QED  BY <1>2, <2>1, <2>2, <2>3
<1>10. \A i, j \in DOMAIN post' : i < j => NoNewer(post'[i].val, post'[j].val)
  <2> SUFFICES ASSUME NEW i \in DOMAIN post', NEW j \in DOMAIN post', i < j
               PROVE  NoNewer(post'[i].val, post'[j].val)
    OBVIOUS
  <2>1. CASE j \in DOMAIN post  BY <1>2, <2>1 DEF PostInv
  <2>2. CASE j \notin DOMAIN post  BY <1>2, <2>2, <1>5, <1>7
  <2> QED  BY <2>1, <2>2
<1>11. post' # <<>> => \A k \in {"font", "usage"} : post'[Len(post')].val[k] = AsRead(file')[k]
  <2>1. CASE t = 0
    <3>1. post' = post /\ writing[1].from = "quiet"
      BY <1>2, <2>1, <1>1, WritingLeaves DEF SettingsTypes, Persisted, Told, Invoked
    <3> QED  BY <1>5, <3>1, <1>1 DEF PostInv, Setting, DiskInv, Before
  <2>2. CASE t = 1  BY <1>2, <1>5, <2>2
  <2>3. CASE t = 2  BY <1>2, <1>5, <2>3
  <2> QED  BY <2>1, <2>2, <2>3
<1> QED  BY <1>7, <1>8, <1>9, <1>10, <1>11 DEF PostInv

\* A patch of the dialog is on its way back.
LEMMA PersistedAwaited ==
    ASSUME SettingsTypes, PatchInv, SeqInv, ShownInv, Persisted
    PROVE  SeqInv' /\ ShownInv'
<1>0. PICK n \in Nat : n = Len(post)  BY Queues
<1>1. /\ writing # <<>> /\ writing' = Tail(writing)
      /\ writing[1] \in PatchesUnderWay /\ current' = current /\ dialog' = dialog
  BY PersistedPatches DEF Persisted
<1>2. /\ 1 \in DOMAIN writing
      /\ \A i \in DOMAIN writing' : i + 1 \in DOMAIN writing /\ i + 1 > 1 /\ writing'[i] = writing[i + 1]
      /\ \A i \in DOMAIN writing : i # 1 => i - 1 \in DOMAIN writing' /\ writing'[i - 1] = writing[i]
      /\ DOMAIN writing' = 1..(Len(writing) - 1)
  BY <1>1, WritingLeaves
<1>3. PICK t \in {0, 1, 2} :
             /\ (t = 2 <=> writing[1].from \in {"dialog", "font"})
             /\ DOMAIN post = 1..n /\ DOMAIN post' = 1..(n + t)
             /\ \A i \in DOMAIN post : i \in DOMAIN post' /\ i <= n /\ post'[i] = post[i]
             /\ t > 0 => /\ n + 1 \in DOMAIN post'
                         /\ post'[n + 1].from = "main"
                         /\ post'[n + 1].val = writing[1].val
             /\ t = 2 => /\ n + 2 \in DOMAIN post'
                         /\ post'[n + 2].from = writing[1].from
                         /\ post'[n + 2].val = writing[1].val /\ post'[n + 2].seq = writing[1].seq
             /\ \A i \in DOMAIN post' :
                  i \in DOMAIN post \/ (t > 0 /\ i = n + 1) \/ (t = 2 /\ i = n + 2)
  BY <1>0, PersistedNews
<1>4. Outstanding' = Outstanding  BY <1>1 DEF Outstanding
\* An answer to the dialog is an old one, or that to the patch that was written.
<1>5. \A i \in DOMAIN post' : post'[i].from = "dialog" =>
        \/ i \in DOMAIN post /\ post'[i] = post[i]
        \/ /\ t = 2 /\ i = n + 2 /\ writing[1].from = "dialog" /\ post'[i].seq = writing[1].seq
           /\ post'[i].val = writing[1].val
  <2> SUFFICES ASSUME NEW i \in DOMAIN post', post'[i].from = "dialog", i \notin DOMAIN post
               PROVE  /\ t = 2 /\ i = n + 2 /\ writing[1].from = "dialog" /\ post'[i].seq = writing[1].seq
                      /\ post'[i].val = writing[1].val
    BY <1>3
  <2> QED  BY <1>3
<1>6. SeqInv'
  <2>1. \A i \in DOMAIN post' : post'[i].from = "dialog" => post'[i].seq \in Outstanding'
    BY <1>2, <1>4, <1>5 DEF SeqInv
  <2>2. \A i \in DOMAIN writing' : writing'[i].from = "dialog" => writing'[i].seq \in Outstanding'
    BY <1>2, <1>4 DEF SeqInv
  <2>3. \A m \in Outstanding' :
          \/ \E i \in DOMAIN post' : post'[i].from = "dialog" /\ post'[i].seq = m
          \/ \E i \in DOMAIN writing' : writing'[i].from = "dialog" /\ writing'[i].seq = m
    <3> SUFFICES ASSUME NEW m \in Outstanding
                 PROVE  \/ \E i \in DOMAIN post' : post'[i].from = "dialog" /\ post'[i].seq = m
                        \/ \E i \in DOMAIN writing' : writing'[i].from = "dialog" /\ writing'[i].seq = m
      BY <1>4
    <3>1. CASE \E i \in DOMAIN post : post[i].from = "dialog" /\ post[i].seq = m  BY <1>3, <3>1
    <3>2. CASE \E i \in DOMAIN writing : writing[i].from = "dialog" /\ writing[i].seq = m
      <4>1. PICK i \in DOMAIN writing : writing[i].from = "dialog" /\ writing[i].seq = m  BY <3>2
      <4>2. CASE i = 1  BY <1>3, <4>1, <4>2
      <4>3. CASE i # 1  BY <4>1, <1>2, <4>3
      <4> QED  BY <4>2, <4>3
    <3> QED  BY <3>1, <3>2 DEF SeqInv
  <2>4. \A i, j \in DOMAIN post' :
          i < j /\ post'[i].from = "dialog" /\ post'[j].from = "dialog" => post'[i].seq < post'[j].seq
    <3> SUFFICES ASSUME NEW i \in DOMAIN post', NEW j \in DOMAIN post',
                        i < j, post'[i].from = "dialog", post'[j].from = "dialog"
                 PROVE  post'[i].seq < post'[j].seq
      OBVIOUS
    <3>3. CASE j \in DOMAIN post /\ post'[j] = post[j]  BY <1>5, <1>3, <3>3 DEF SeqInv
    <3>4. CASE writing[1].from = "dialog" /\ post'[j].seq = writing[1].seq  BY <1>2, <1>5, <1>3, <3>4 DEF SeqInv
    <3> QED  BY <1>5, <3>3, <3>4
  <2>5. \A i, j \in DOMAIN writing' :
          i < j /\ writing'[i].from = "dialog" /\ writing'[j].from = "dialog" => writing'[i].seq < writing'[j].seq
    <3> SUFFICES ASSUME NEW i \in DOMAIN writing', NEW j \in DOMAIN writing',
                        i < j, writing'[i].from = "dialog", writing'[j].from = "dialog"
                 PROVE  writing'[i].seq < writing'[j].seq
      OBVIOUS
    <3> QED  BY <1>2 DEF SeqInv
  <2>6. \A i \in DOMAIN post', j \in DOMAIN writing' :
          post'[i].from = "dialog" /\ writing'[j].from = "dialog" => post'[i].seq < writing'[j].seq
    <3> SUFFICES ASSUME NEW i \in DOMAIN post', NEW j \in DOMAIN writing',
                        post'[i].from = "dialog", writing'[j].from = "dialog"
                 PROVE  post'[i].seq < writing'[j].seq
      OBVIOUS
    <3>2. CASE i \in DOMAIN post /\ post'[i] = post[i]  BY <1>2, <3>2 DEF SeqInv
    <3>3. CASE writing[1].from = "dialog" /\ post'[i].seq = writing[1].seq  BY <1>2, <3>3 DEF SeqInv
    <3> QED  BY <1>5, <3>2, <3>3
  <2>7. dialog'.pending >= 0  BY <1>1 DEF SeqInv
  <2> QED  BY <2>1, <2>2, <2>3, <2>4, <2>5, <2>6, <2>7 DEF SeqInv
<1>7. ShownInv'
  <2>2. ASSUME NEW i \in DOMAIN post',
               \/ dialog.pending = 0
               \/ post'[i].from = "dialog" /\ post'[i].seq = dialog.seq
        PROVE  NoNewer(dialog.shown, post'[i].val)
    <3>1. CASE i \in DOMAIN post  BY <1>3, <2>2, <3>1 DEF ShownInv
    <3>2. CASE i \notin DOMAIN post /\ dialog.pending = 0  BY <1>3, <3>2, <1>2 DEF ShownInv
    <3>3. CASE i \notin DOMAIN post /\ post'[i].from = "dialog" /\ post'[i].seq = dialog.seq
      BY <1>2, <1>5, <3>3 DEF ShownInv
    <3> QED  BY <2>2, <3>1, <3>2, <3>3
  <2>3. ASSUME NEW i \in DOMAIN writing',
               \/ dialog.pending = 0
               \/ writing'[i].from = "dialog" /\ writing'[i].seq = dialog.seq
        PROVE  NoNewer(dialog.shown, writing'[i].val)
    BY <1>2, <2>3 DEF ShownInv
  <2> QED  BY <1>1, <2>2, <2>3 DEF ShownInv
<1> QED  BY <1>6, <1>7

\* The font menu counts a patch that was written by the answer to it.
LEMMA PersistedCounted ==
    ASSUME SettingsTypes, PatchInv, FontInv, HeardInv, Persisted
    PROVE  FontInv' /\ HeardInv'
<1>0. PICK n \in Nat : n = Len(post)  BY Queues
<1>1. /\ writing # <<>> /\ writing' = Tail(writing) /\ writing[1] \in PatchesUnderWay
      /\ current' = current /\ dialog' = dialog /\ fontHook' = fontHook
  BY PersistedPatches DEF Persisted
<1>2. /\ 1 \in DOMAIN writing /\ DOMAIN writing = 1..Len(writing) /\ Len(writing) \in Nat
      /\ \A i \in DOMAIN writing' : i + 1 \in DOMAIN writing /\ i + 1 > 1 /\ writing'[i] = writing[i + 1]
      /\ \A i \in DOMAIN writing : i # 1 => i - 1 \in DOMAIN writing' /\ writing'[i - 1] = writing[i]
      /\ DOMAIN writing' = 1..(Len(writing) - 1)
  BY <1>1, WritingLeaves, Queues
<1>3. PICK t \in {0, 1, 2} :
             /\ (t = 2 <=> writing[1].from \in {"dialog", "font"}) /\ (t = 0 <=> writing[1].from = "quiet")
             /\ DOMAIN post = 1..n /\ DOMAIN post' = 1..(n + t) /\ Len(post') = n + t
             /\ \A i \in DOMAIN post : i \in DOMAIN post' /\ i <= n /\ post'[i] = post[i]
             /\ t > 0 => post'[n + 1].from = "main"
             /\ t = 2 => /\ n + 2 \in DOMAIN post'
                         /\ post'[n + 2].from = writing[1].from
                         /\ post'[n + 2].val = writing[1].val
             /\ FontsOf(post') = IF writing[1].from = "font" THEN FontsOf(post) \cup {n + 2} ELSE FontsOf(post)
  BY <1>0, PersistedNews
<1>4. writing \in Seq(PatchesUnderWay) /\ post \in Seq(SettingsNews) /\ post' \in Seq(SettingsNews)
  BY PersistedPatches DEF SettingsTypes
<1>5. /\ FontsOf(writing') = {i \in 1..(Len(writing) - 1) : i + 1 \in FontsOf(writing)}
      /\ Cardinality(FontsOf(writing')) =
           Cardinality(FontsOf(writing)) - (IF writing[1].from = "font" THEN 1 ELSE 0)
  BY <1>1, <1>4, FontsLeft
<1>6. /\ IsFiniteSet(FontsOf(post)) /\ Cardinality(FontsOf(post)) \in Nat
      /\ n + 2 \notin FontsOf(post) /\ Cardinality(FontsOf(writing)) \in Nat
  BY <1>0, <1>4, FontsCounted
<1>11. FontInv'
  <2>1. fontHook'.pending = Cardinality(FontsOf(post')) + Cardinality(FontsOf(writing'))
    <3>1. CASE writing[1].from = "font"
      <4>0. FontsOf(post') = FontsOf(post) \cup {n + 2}  BY <1>3, <3>1
      <4>1. Cardinality(FontsOf(post')) = Cardinality(FontsOf(post)) + 1
        BY <1>6, <4>0, FS_AddElement
      <4> QED  BY <1>1, <1>5, <1>6, <3>1, <4>1 DEF FontInv
    <3>2. CASE writing[1].from # "font"  BY <1>1, <1>3, <1>5, <1>6, <3>2 DEF FontInv
    <3> QED  BY <3>1, <3>2
  <2>2. ASSUME FontsOf(writing') = {}, NEW i \in FontsOf(post'), \A j \in FontsOf(post') : j <= i
        PROVE  fontHook'.shown = post'[i].val.font
    <3>2. CASE writing[1].from = "font"
      <4>1. 1 \in FontsOf(writing) /\ \A j \in FontsOf(writing) : j <= 1  BY <1>2, <2>2, <3>2 DEF FontsOf
      <4>4. i = n + 2  BY <1>3, <3>2, <2>2 DEF FontsOf
      <4> QED  BY <1>1, <4>1, <4>4, <1>3, <3>2 DEF FontInv
    <3>3. CASE writing[1].from # "font"
      <4>1. FontsOf(writing) = {}  BY <1>2, <2>2, <3>3 DEF FontsOf
      <4> QED  BY <1>1, <4>1, <1>3, <2>2, <3>3 DEF FontInv, FontsOf
    <3> QED  BY <3>2, <3>3
  <2>3. ASSUME NEW i \in FontsOf(writing'), \A j \in FontsOf(writing') : j <= i
        PROVE  fontHook'.shown = writing'[i].val.font
    <3>3. \A j \in FontsOf(writing) : j <= i + 1
      <4> SUFFICES ASSUME NEW j \in FontsOf(writing) PROVE j <= i + 1  OBVIOUS
      <4>1. CASE j = 1  BY <1>2, <1>5, <4>1
      <4>2. CASE j # 1  BY <1>2, <1>5, <2>3, <4>2 DEF FontsOf
      <4> QED  BY <4>1, <4>2
    <3> QED  BY <1>1, <1>5, <1>2, <3>3 DEF FontInv
  <2> QED  BY <2>1, <2>2, <2>3 DEF FontInv
<1>12. HeardInv'
  <2> SUFFICES ASSUME \A i \in DOMAIN writing' : writing'[i].from = "quiet"
               PROVE  /\ post' = <<>> \/ (Len(post') = 1 /\ post'[1].from = "font") =>
                           \A k \in {"font", "usage"} : dialog'.shown[k] = current'[k]
                      /\ post' = <<>> \/ (Len(post') = 1 /\ post'[1].from = "dialog") =>
                           fontHook'.shown = current'.font
    BY DEF HeardInv
  <2>1. ASSUME post' = <<>> \/ (Len(post') = 1 /\ post'[1].from # "main")
        PROVE  /\ \A i \in DOMAIN writing : writing[i].from = "quiet"
               /\ post = post'
    <3>1. t = 0
      <4>2. CASE post' = <<>>  BY <1>3, EmptySeq, <4>2
      <4>3. CASE Len(post') = 1 /\ post'[1].from # "main"
        <5>3. ASSUME t = 1 PROVE FALSE  BY <4>3, <1>3, <5>3
        <5> QED  BY <1>3, <4>3, <5>3
      <4> QED  BY <2>1, <4>2, <4>3
    <3>3. \A i \in DOMAIN writing : writing[i].from = "quiet"
      <4> SUFFICES ASSUME NEW i \in DOMAIN writing, i # 1 PROVE writing[i].from = "quiet"  BY <1>3, <3>1
      <4> QED  BY <1>2
    <3>4. ~Invoked(writing[1]) /\ Told(writing[1]) = <<>>  BY <1>3, <3>1 DEF Told, Invoked
    <3> QED  BY <1>4, <3>3, <1>1, <3>4, WritingLeaves DEF Persisted
  <2>2. ASSUME post' = <<>> \/ (Len(post') = 1 /\ post'[1].from = "font")
        PROVE  \A k \in {"font", "usage"} : dialog'.shown[k] = current'[k]  BY <1>1, <2>1, <2>2 DEF HeardInv
  <2>3. ASSUME post' = <<>> \/ (Len(post') = 1 /\ post'[1].from = "dialog")
        PROVE  fontHook'.shown = current'.font  BY <1>1, <2>1, <2>3 DEF HeardInv
  <2> QED  BY <2>2, <2>3
<1> QED  BY <1>11, <1>12

\* A patch that could not be written: what was acknowledged is on disk all the same.
LEMMA RejectedPatches ==
    ASSUME SettingsTypes, PatchInv, PersistRejected
    PROVE  SettingsTypes' /\ PatchInv' /\ failed' = TRUE
<1>2. 1 \in DOMAIN writing /\ Head(writing) = writing[1] /\ writing' \in Seq(PatchesUnderWay)
  BY WritingLeaves DEF PersistRejected
<1>3. post' \in Seq(SettingsNews)
  BY <1>2, Queues, AppendProperties DEF PersistRejected, Invoked, Reply, SettingsNews, SettingsTypes
<1>4. PatchInv'  BY <1>2, Queues, LeavingKeepsPatches DEF PatchInv, PersistRejected
<1> QED  BY <1>4, <1>2, <1>3 DEF SettingsTypes, PersistRejected

\* Whoever receives a message of the main process, and what becomes of it.
LEMMA Received ==
    ASSUME SettingsTypes, PostInv, Receive
    PROVE  /\ post # <<>> /\ post' = Tail(post) /\ Head(post) = post[1]
           /\ file' = file /\ current' = current /\ writing' = writing /\ usageSnap' = usageSnap
           /\ reading' = reading /\ issued' = issued /\ acked' = acked /\ failed' = failed
           /\ \/ /\ post[1].from = "dialog" /\ post[1].kind = "merged" /\ fontHook' = fontHook
                 /\ dialog' = DialogAfter(post[1])
              \/ /\ post[1].from = "font" /\ dialog' = dialog
                 /\ fontHook' = [shown |-> fontHook.shown, pending |-> fontHook.pending - 1]
              \/ /\ post[1].from = "main"
                 /\ dialog' = IF dialog.pending > 0 THEN dialog
                              ELSE [shown |-> post[1].val, seq |-> dialog.seq, pending |-> dialog.pending]
                 /\ fontHook' = IF fontHook.pending > 0 THEN fontHook
                                ELSE [shown |-> post[1].val.font, pending |-> fontHook.pending]
<1>1. post # <<>> /\ post' = Tail(post)  BY DEF Receive
<1>2. Head(post) = post[1] /\ 1 \in DOMAIN post  BY <1>1, PostLeaves
<1>9. [fontHook EXCEPT !.shown = post[1].val.font] = [shown |-> post[1].val.font, pending |-> fontHook.pending]
  BY DEF SettingsTypes
<1>10. CASE post[1].from = "dialog" /\ dialog' = DialogAfter(post[1]) /\ fontHook' = fontHook
  BY <1>1, <1>2, <1>10 DEF Receive, PostInv
<1>11. CASE /\ post[1].from = "font" /\ dialog' = dialog
            /\ fontHook' = [fontHook EXCEPT !.pending = fontHook.pending - 1]
  BY <1>1, <1>2, <1>11 DEF Receive, SettingsTypes
<1>12. CASE /\ post[1].kind = "changed"
            /\ dialog' = IF dialog.pending > 0 THEN dialog ELSE [dialog EXCEPT !.shown = post[1].val]
            /\ fontHook' = IF fontHook.pending > 0 THEN fontHook
                           ELSE [fontHook EXCEPT !.shown = post[1].val.font]
  BY <1>1, <1>2, <1>9, <1>12 DEF Receive, PostInv, SettingsTypes
<1> QED  BY <1>2, <1>10, <1>11, <1>12 DEF Receive

\* What an answer makes of the dialog.
LEMMA AnswerTaken ==
    ASSUME SettingsTypes, NEW m \in SettingsNews
    PROVE  /\ DialogAfter(m) \in [shown : SettingVals, seq : Nat, pending : Int]
           /\ DialogAfter(m).seq = dialog.seq /\ DialogAfter(m).pending = dialog.pending - 1
           /\ DialogAfter(m).shown = IF m.kind = "merged" /\ m.seq = dialog.seq /\ dialog.pending - 1 = 0
                                     THEN m.val ELSE dialog.shown
<1> DEFINE d == [shown |-> dialog.shown, seq |-> dialog.seq, pending |-> dialog.pending - 1]
           u == [shown |-> m.val, seq |-> dialog.seq, pending |-> dialog.pending - 1]
<1>3. [dialog EXCEPT !.pending = dialog.pending - 1] = d  BY DEF SettingsTypes
<1>4. DialogAfter(m) = IF m.kind = "merged" /\ m.seq = dialog.seq /\ dialog.pending - 1 = 0 THEN u ELSE d
  <2>1. DialogAfter(m) = IF m.kind = "merged" /\ m.seq = d.seq /\ d.pending = 0
                         THEN [d EXCEPT !.shown = m.val] ELSE d
    BY <1>3 DEF DialogAfter
  <2> QED  BY <2>1
<1>5. /\ d \in [shown : SettingVals, seq : Nat, pending : Int]
      /\ u \in [shown : SettingVals, seq : Nat, pending : Int]  BY DEF SettingsTypes, SettingsNews
<1>6. /\ d.shown = dialog.shown /\ d.seq = dialog.seq /\ d.pending = dialog.pending - 1
      /\ u.shown = m.val /\ u.seq = dialog.seq /\ u.pending = dialog.pending - 1
  OBVIOUS
<1> HIDE DEF d, u
<1> QED  BY <1>4, <1>5, <1>6

LEMMA ReceivedPatches ==
    ASSUME SettingsTypes, PatchInv, Receive
    PROVE  SettingsTypes' /\ PatchInv' /\ failed' = failed
<1>1. /\ post # <<>> /\ post' = Tail(post)
      /\ UNCHANGED <<file, current, writing, usageSnap, reading, issued, acked, failed>>
  BY DEF Receive
<1>3. post[1] \in SettingsNews /\ post[1].val \in SettingVals  BY <1>1, PostLeaves, Queues
<1>4. dialog \in [shown : SettingVals, seq : Nat, pending : Int]  BY DEF SettingsTypes
<1>5. fontHook \in [shown : Nat, pending : Int] /\ fontHook.pending - 1 \in Int  BY DEF SettingsTypes
<1>7. dialog' \in [shown : SettingVals, seq : Nat, pending : Int] /\ fontHook' \in [shown : Nat, pending : Int]
  <2>1. CASE dialog' = DialogAfter(post[1]) /\ fontHook' = fontHook
    BY <1>3, <1>5, <2>1, AnswerTaken
  <2>2. CASE dialog' = dialog /\ fontHook' = [fontHook EXCEPT !.pending = fontHook.pending - 1]
    BY <1>4, <1>5, <2>2
  <2>3. CASE /\ dialog' = IF dialog.pending > 0 THEN dialog ELSE [dialog EXCEPT !.shown = post[1].val]
             /\ fontHook' = IF fontHook.pending > 0 THEN fontHook
                            ELSE [fontHook EXCEPT !.shown = post[1].val.font]
    <3>1. [dialog EXCEPT !.shown = post[1].val] \in [shown : SettingVals, seq : Nat, pending : Int]
      BY <1>3, <1>4
    <3>2. [fontHook EXCEPT !.shown = post[1].val.font] \in [shown : Nat, pending : Int]
      BY <1>5, <1>3 DEF SettingVals, Setting
    <3> QED  BY <1>4, <1>5, <2>3, <3>1, <3>2
  <2> QED  BY <2>1, <2>2, <2>3, <1>1, PostLeaves DEF Receive
<1> QED  BY <1>1, PostLeaves, <1>7 DEF PatchInv, SettingsTypes

\* What was sent next was on disk later.
LEMMA ReceivedPosted ==
    ASSUME SettingsTypes, PatchInv, DiskInv, QuietInv, PostInv, Receive
    PROVE  DiskInv' /\ QuietInv' /\ PostInv'
<1>1. /\ post # <<>> /\ post' = Tail(post) /\ file' = file /\ current' = current /\ writing' = writing
      /\ usageSnap' = usageSnap
  BY Received
<1>2. /\ DOMAIN post' = 1..(Len(post) - 1) /\ (post' = <<>> <=> Len(post) = 1) /\ Len(post') = Len(post) - 1
      /\ \A i \in DOMAIN post' : i + 1 \in DOMAIN post /\ i + 1 > 1 /\ post'[i] = post[i + 1]
      /\ \A i \in DOMAIN post : i # 1 => i - 1 \in DOMAIN post' /\ post'[i - 1] = post[i]
  BY <1>1, PostLeaves
<1>4. DiskInv' /\ QuietInv'  BY <1>1 DEF DiskInv, Before, QuietInv
<1>5. \A i \in DOMAIN post' : /\ NoNewer(post'[i].val, AsRead(file'))
                              /\ post'[i].kind = IF post'[i].from = "main" THEN "changed" ELSE "merged"
  BY <1>1, <1>2 DEF PostInv
<1>6. \A i \in DOMAIN post' :
        post'[i].from # "main" /\ i > 1 => post'[i - 1].from = "main" /\ post'[i - 1].val = post'[i].val
  <2> SUFFICES ASSUME NEW i \in DOMAIN post', post'[i].from # "main", i > 1
               PROVE  post'[i - 1].from = "main" /\ post'[i - 1].val = post'[i].val
    OBVIOUS
  <2> QED  BY <1>2, <1>1, Queues DEF PostInv
<1>7. \A i, j \in DOMAIN post' : i < j => NoNewer(post'[i].val, post'[j].val)
  <2> SUFFICES ASSUME NEW i \in DOMAIN post', NEW j \in DOMAIN post', i < j
               PROVE  NoNewer(post'[i].val, post'[j].val)
    OBVIOUS
  <2>1. i + 1 < j + 1  BY <1>2
  <2> QED  BY <1>2, <2>1 DEF PostInv
<1>8. post' # <<>> => \A k \in {"font", "usage"} : post'[Len(post')].val[k] = AsRead(file')[k]
  <2> SUFFICES ASSUME post' # <<>>
               PROVE  \A k \in {"font", "usage"} : post'[Len(post')].val[k] = AsRead(file')[k]
    OBVIOUS
  <2> QED  BY <1>1, <1>2, Queues DEF PostInv
<1> QED  BY <1>4, <1>5, <1>6, <1>7, <1>8 DEF PostInv

\* The answer that comes is the one to the oldest patch that has none.
LEMMA OldestAnswered ==
    ASSUME SettingsTypes, SeqInv, post # <<>>, post[1].from = "dialog"
    PROVE  /\ post[1].seq = dialog.seq - dialog.pending + 1 /\ dialog.pending >= 1
           /\ \A i \in DOMAIN post : i > 1 /\ post[i].from = "dialog" => post[1].seq < post[i].seq
           /\ \A i \in DOMAIN writing : writing[i].from = "dialog" => post[1].seq < writing[i].seq
<1>1. 1 \in DOMAIN post /\ \A i \in DOMAIN post : i \in Nat /\ i >= 1  BY Queues
<1>4. post[1].seq \in Outstanding /\ post[1].seq \in Nat  BY <1>1, Queues DEF SeqInv
<1>7. \A m \in Outstanding : post[1].seq <= m
  <2> SUFFICES ASSUME NEW m \in Outstanding PROVE post[1].seq <= m  OBVIOUS
  <2>1. CASE \E i \in DOMAIN post : post[i].from = "dialog" /\ post[i].seq = m
    <3>1. PICK i \in DOMAIN post : post[i].from = "dialog" /\ post[i].seq = m  BY <2>1
    <3>2. CASE i = 1  BY <1>4, <3>1, <3>2
    <3>3. CASE i # 1  BY <1>4, <1>1, <3>1, <3>3 DEF SeqInv, Outstanding
    <3> QED  BY <3>2, <3>3
  <2>2. CASE \E i \in DOMAIN writing : writing[i].from = "dialog" /\ writing[i].seq = m
    BY <1>4, <1>1, <2>2 DEF SeqInv, Outstanding
  <2> QED  BY <2>1, <2>2 DEF SeqInv
<1>8. post[1].seq = dialog.seq - dialog.pending + 1
  <2>1. post[1].seq <= dialog.seq - dialog.pending + 1  BY <1>4, <1>7 DEF Outstanding, SettingsTypes, SeqInv
  <2> QED  BY <1>4, <2>1 DEF SettingsTypes, SeqInv, Outstanding
<1> QED  BY <1>1, <1>4, <1>8 DEF SeqInv, Outstanding, SettingsTypes

\* What the dialog shows and awaits when a message was received.
LEMMA DialogHears ==
    ASSUME SettingsTypes, PostInv, SeqInv, Receive
    PROVE  /\ dialog'.seq = dialog.seq
           /\ dialog'.pending = IF post[1].from = "dialog" THEN dialog.pending - 1 ELSE dialog.pending
           /\ \/ dialog'.shown = dialog.shown
              \/ /\ dialog'.shown = post[1].val
                 /\ \/ dialog.pending = 0
                    \/ post[1].from = "dialog" /\ post[1].seq = dialog.seq
           /\ post[1].from = "dialog" =>
                /\ dialog.pending >= 1 /\ post[1].seq = dialog.seq - dialog.pending + 1
                /\ dialog'.pending = 0 => dialog'.shown = post[1].val
           /\ post[1].from = "main" /\ dialog.pending = 0 => dialog'.shown = post[1].val
           /\ post[1].from = "font" => dialog'.shown = dialog.shown
<1>1. /\ post # <<>> /\ Head(post) = post[1]
      /\ \/ /\ post[1].from = "dialog" /\ post[1].kind = "merged" /\ fontHook' = fontHook
            /\ dialog' = DialogAfter(post[1])
         \/ /\ post[1].from = "font" /\ dialog' = dialog
         \/ /\ post[1].from = "main"
            /\ dialog' = IF dialog.pending > 0 THEN dialog
                         ELSE [shown |-> post[1].val, seq |-> dialog.seq, pending |-> dialog.pending]
  BY Received
<1>2. 1 \in DOMAIN post /\ post[1] \in SettingsNews /\ post[1].seq \in Nat  BY <1>1, Queues
<1>3. dialog.seq \in Nat /\ dialog.pending \in Int /\ dialog.pending >= 0  BY DEF SettingsTypes, SeqInv
<1>4. CASE post[1].from = "dialog"
  <2>1. post[1].kind = "merged" /\ dialog' = DialogAfter(post[1])  BY <1>1, <1>4
  <2>2. /\ dialog'.seq = dialog.seq /\ dialog'.pending = dialog.pending - 1
        /\ dialog'.shown = IF post[1].kind = "merged" /\ post[1].seq = dialog.seq /\ dialog.pending - 1 = 0
                           THEN post[1].val ELSE dialog.shown
    BY <1>2, <2>1, AnswerTaken
  <2>3. post[1].seq = dialog.seq - dialog.pending + 1 /\ dialog.pending >= 1
    BY <1>1, <1>4, OldestAnswered
  <2> QED  BY <1>2, <1>3, <1>4, <2>1, <2>2, <2>3
<1>5. CASE post[1].from = "font"  BY <1>5, <1>1
<1>6. CASE post[1].from = "main"
  <2>2. CASE dialog.pending > 0  BY <1>6, <1>1, <2>2
  <2>3. CASE dialog.pending = 0  BY <1>6, <2>3, <1>1
  <2> QED  BY <1>3, <2>2, <2>3
<1> QED  BY <1>1, <1>4, <1>5, <1>6

LEMMA ReceivedAwaited ==
    ASSUME SettingsTypes, PatchInv, PostInv, SeqInv, ShownInv, Receive
    PROVE  SeqInv' /\ ShownInv'
<1>1. post # <<>> /\ post' = Tail(post) /\ file' = file /\ current' = current /\ writing' = writing
  BY Received
<1>2. /\ 1 \in DOMAIN post /\ \A i \in DOMAIN post : i \in Nat /\ i >= 1
      /\ \A i \in DOMAIN post' : i + 1 \in DOMAIN post /\ i + 1 > 1 /\ post'[i] = post[i + 1] /\ i \in Nat
      /\ \A i \in DOMAIN post : i # 1 => i - 1 \in DOMAIN post' /\ post'[i - 1] = post[i]
  BY <1>1, PostLeaves, Queues
<1>3. /\ dialog'.seq = dialog.seq
      /\ dialog'.pending = IF post[1].from = "dialog" THEN dialog.pending - 1 ELSE dialog.pending
      /\ \/ dialog'.shown = dialog.shown
         \/ /\ dialog'.shown = post[1].val
            /\ \/ dialog.pending = 0
               \/ post[1].from = "dialog" /\ post[1].seq = dialog.seq
      /\ post[1].from = "dialog" =>
           /\ dialog.pending >= 1 /\ post[1].seq = dialog.seq - dialog.pending + 1
           /\ dialog'.pending = 0 => dialog'.shown = post[1].val
  BY DialogHears
<1>4. dialog.seq \in Nat /\ dialog.pending \in Int /\ dialog.pending >= 0  BY DEF SettingsTypes, SeqInv
<1>5. Outstanding' = IF post[1].from = "dialog" THEN Outstanding \ {post[1].seq} ELSE Outstanding
  <2>1. CASE post[1].from = "dialog"  BY <1>3, <1>4, <2>1 DEF Outstanding
  <2>2. CASE post[1].from # "dialog"  BY <1>3, <2>2 DEF Outstanding
  <2> QED  BY <2>1, <2>2
<1>8. SeqInv'
  <2>1. \A i \in DOMAIN post' : post'[i].from = "dialog" => post'[i].seq \in Outstanding'
    <3> SUFFICES ASSUME NEW i \in DOMAIN post', post'[i].from = "dialog"
                 PROVE  post'[i].seq \in Outstanding'
      OBVIOUS
    <3>3. post[1].from = "dialog" => post[1].seq # post[i + 1].seq  BY <1>1, OldestAnswered, <1>2, Queues
    <3> QED  BY <1>5, <1>2, <3>3 DEF SeqInv
  <2>2. \A i \in DOMAIN writing' : writing'[i].from = "dialog" => writing'[i].seq \in Outstanding'
    <3> SUFFICES ASSUME NEW i \in DOMAIN writing, writing[i].from = "dialog"
                 PROVE  writing[i].seq \in Outstanding'
      BY <1>1
    <3> QED  BY <1>5, <1>1, OldestAnswered, <1>2, Queues DEF SeqInv
  <2>3. \A m \in Outstanding' :
          \/ \E i \in DOMAIN post' : post'[i].from = "dialog" /\ post'[i].seq = m
          \/ \E i \in DOMAIN writing' : writing'[i].from = "dialog" /\ writing'[i].seq = m
    <3> SUFFICES ASSUME NEW m \in Outstanding'
                 PROVE  \/ \E i \in DOMAIN post' : post'[i].from = "dialog" /\ post'[i].seq = m
                        \/ \E i \in DOMAIN writing : writing[i].from = "dialog" /\ writing[i].seq = m
      BY <1>1
    <3>2. ASSUME NEW i \in DOMAIN post, post[i].from = "dialog" /\ post[i].seq = m
          PROVE  \E j \in DOMAIN post' : post'[j].from = "dialog" /\ post'[j].seq = m  BY <1>2, <3>2, <1>5
    <3> QED  BY <1>5, <3>2 DEF SeqInv
  <2>4. \A i, j \in DOMAIN post' :
          i < j /\ post'[i].from = "dialog" /\ post'[j].from = "dialog" => post'[i].seq < post'[j].seq
    <3> SUFFICES ASSUME NEW i \in DOMAIN post', NEW j \in DOMAIN post',
                        i < j, post'[i].from = "dialog", post'[j].from = "dialog"
                 PROVE  post'[i].seq < post'[j].seq
      OBVIOUS
    <3> QED  BY <1>2 DEF SeqInv
  <2>5. \A i, j \in DOMAIN writing' :
          i < j /\ writing'[i].from = "dialog" /\ writing'[j].from = "dialog" => writing'[i].seq < writing'[j].seq
    BY <1>1 DEF SeqInv
  <2>6. \A i \in DOMAIN post', j \in DOMAIN writing' :
          post'[i].from = "dialog" /\ writing'[j].from = "dialog" => post'[i].seq < writing'[j].seq
    BY <1>1, <1>2 DEF SeqInv
  <2>7. dialog'.pending >= 0  BY <1>3, <1>4
  <2> QED  BY <2>1, <2>2, <2>3, <2>4, <2>5, <2>6, <2>7 DEF SeqInv
<1>9. ShownInv'
  <2>4. \A i \in DOMAIN writing : NoNewer(post[1].val, writing[i].val)
    BY <1>2, Queues, NoNewerOrder DEF PatchInv, SettingsTypes, PostInv
  <2>5. CASE dialog'.shown = post[1].val
    <3>1. \A i \in DOMAIN post' : NoNewer(dialog'.shown, post'[i].val)  BY <1>2, <2>5 DEF PostInv
    <3>3. NoNewer(dialog'.shown, current')
      BY <1>1, <1>2, Queues, NoNewerOrder, <2>5 DEF PatchInv, SettingsTypes, PostInv
    <3> QED  BY <3>1, <1>1, <2>4, <2>5, <3>3 DEF ShownInv
  <2>6. CASE dialog'.shown # post[1].val
    <3>1. dialog'.shown = dialog.shown /\ (dialog'.pending = 0 => dialog.pending = 0)
      BY <1>3, <1>4, <2>6
    <3>3. \A i \in DOMAIN writing' :
            \/ dialog'.pending = 0
            \/ writing'[i].from = "dialog" /\ writing'[i].seq = dialog'.seq
            => NoNewer(dialog'.shown, writing'[i].val)
      BY <1>1, <1>3, <3>1 DEF ShownInv
    <3>4. NoNewer(dialog'.shown, current')  BY <1>1, <3>1 DEF ShownInv
    <3> QED  BY <1>2, <1>3, <3>1, <3>3, <3>4 DEF ShownInv
  <2> QED  BY <2>5, <2>6
<1> QED  BY <1>8, <1>9

\* What the font menu shows and counts when a message was received.
LEMMA FontHears ==
    ASSUME SettingsTypes, PostInv, FontInv, Receive
    PROVE  /\ fontHook'.pending = IF post[1].from = "font" THEN fontHook.pending - 1 ELSE fontHook.pending
           /\ \/ fontHook'.shown = fontHook.shown
              \/ fontHook'.shown = post[1].val.font /\ fontHook.pending = 0
           /\ post[1].from = "main" /\ fontHook.pending = 0 => fontHook'.shown = post[1].val.font
           /\ post[1].from # "main" => fontHook'.shown = fontHook.shown
           /\ fontHook.pending \in Nat
<1>2. fontHook.pending \in Nat  BY FontsCounted DEF FontInv, SettingsTypes
<1>3. CASE post[1].from = "dialog" /\ fontHook' = fontHook  BY <1>2, <1>3
<1>4. CASE post[1].from = "font" /\ fontHook' = [shown |-> fontHook.shown, pending |-> fontHook.pending - 1]
  BY <1>2, <1>4
<1>5. CASE /\ post[1].from = "main"
           /\ fontHook' = IF fontHook.pending > 0 THEN fontHook
                          ELSE [shown |-> post[1].val.font, pending |-> fontHook.pending]
  <2>1. CASE fontHook.pending > 0  BY <1>2, <1>5, <2>1
  <2>2. CASE fontHook.pending = 0  BY <1>2, <1>5, <2>2
  <2> QED  BY <1>2, <2>1, <2>2
<1> QED  BY Received, <1>3, <1>4, <1>5

LEMMA ReceivedCounted ==
    ASSUME SettingsTypes, PostInv, FontInv, Receive
    PROVE  FontInv'
<1>1. post # <<>> /\ post' = Tail(post) /\ writing' = writing
  BY Received
<1>2. /\ 1 \in DOMAIN post /\ DOMAIN post = 1..Len(post) /\ Len(post) \in Nat
      /\ \A i \in DOMAIN post' : i + 1 \in DOMAIN post /\ i + 1 > 1 /\ post'[i] = post[i + 1]
      /\ \A i \in DOMAIN post : i # 1 => i - 1 \in DOMAIN post' /\ post'[i - 1] = post[i]
      /\ DOMAIN post' = 1..(Len(post) - 1)
  BY <1>1, PostLeaves, Queues
<1>4. /\ FontsOf(post') = {i \in 1..(Len(post) - 1) : i + 1 \in FontsOf(post)}
      /\ Cardinality(FontsOf(post')) =
           Cardinality(FontsOf(post)) - (IF post[1].from = "font" THEN 1 ELSE 0)
  BY <1>1, FontsLeft DEF SettingsTypes
<1>5. /\ Cardinality(FontsOf(post)) \in Nat /\ Cardinality(FontsOf(writing)) \in Nat
      /\ (Cardinality(FontsOf(post)) = 0 <=> FontsOf(post) = {})
      /\ (Cardinality(FontsOf(writing)) = 0 <=> FontsOf(writing) = {})  BY FontsCounted DEF SettingsTypes
<1>8. FontsOf(post) # {} \/ FontsOf(writing) # {} => fontHook'.shown = fontHook.shown
  <2>1. fontHook.pending = 0 => FontsOf(post) = {} /\ FontsOf(writing) = {}  BY <1>5 DEF FontInv
  <2> QED  BY FontHears, <2>1
<1>9. fontHook'.pending = Cardinality(FontsOf(post')) + Cardinality(FontsOf(writing'))
  BY <1>1, <1>4, <1>5, FontHears DEF FontInv
<1>10. ASSUME FontsOf(writing) = {}, NEW i \in FontsOf(post'), \A j \in FontsOf(post') : j <= i
       PROVE  fontHook'.shown = post'[i].val.font
  <2>1. i + 1 \in FontsOf(post) /\ i \in Nat /\ i >= 1  BY <1>4
  <2>2. post'[i] = post[i + 1]  BY <1>2, <1>4
  <2>3. \A j \in FontsOf(post) : j <= i + 1
    <3> SUFFICES ASSUME NEW j \in FontsOf(post) PROVE j <= i + 1  OBVIOUS
    <3>1. j \in Nat /\ j >= 1 /\ j <= Len(post) /\ (j - 1) + 1 = j  BY <1>2 DEF FontsOf
    <3>2. CASE j = 1  BY <2>1, <3>2
    <3>3. CASE j # 1  BY <2>1, <3>1, <1>10, <1>2, <1>4, <3>3
    <3> QED  BY <3>2, <3>3
  <2>5. fontHook'.shown = fontHook.shown  BY <1>8, <2>1
  <2> QED  BY <2>2, <1>10, <2>1, <2>3, <2>5 DEF FontInv
<1>11. ASSUME NEW i \in FontsOf(writing), \A j \in FontsOf(writing) : j <= i
       PROVE  fontHook'.shown = writing[i].val.font
  BY <1>8, <1>11 DEF FontInv
<1> QED  BY <1>1, <1>9, <1>10, <1>11 DEF FontInv

\* With only quiet patches left, a dialog that hears the last news shows what is there.
LEMMA ReceivedHeard ==
    ASSUME SettingsTypes, QuietInv, PostInv, SeqInv, FontInv, HeardInv, Receive
    PROVE  HeardInv'
<1> SUFFICES ASSUME \A i \in DOMAIN writing' : writing'[i].from = "quiet"
             PROVE  /\ post' = <<>> \/ (Len(post') = 1 /\ post'[1].from = "font") =>
                         \A k \in {"font", "usage"} : dialog'.shown[k] = current'[k]
                    /\ post' = <<>> \/ (Len(post') = 1 /\ post'[1].from = "dialog") =>
                         fontHook'.shown = current'.font
  BY DEF HeardInv
<1>1. post # <<>> /\ post' = Tail(post) /\ writing' = writing /\ current' = current  BY Received
<1>2. \A i \in DOMAIN writing : writing[i].from = "quiet"  BY <1>1
<1>5. /\ 1 \in DOMAIN post /\ DOMAIN post = 1..Len(post) /\ Len(post) \in Nat
      /\ Len(post') = Len(post) - 1 /\ (post' = <<>> <=> Len(post) = 1)
      /\ \A i \in DOMAIN post' : i + 1 \in DOMAIN post /\ post'[i] = post[i + 1]
      /\ DOMAIN post' = 1..(Len(post) - 1)
  BY <1>1, PostLeaves, Queues
\* Of one message that is left, or of two of which the second is an answer, all show
\* what is on disk.
<1>7. ASSUME \/ Len(post) = 1
             \/ Len(post) = 2 /\ post[2].from # "main"
      PROVE  /\ \A k \in {"font", "usage"} : post[1].val[k] = current[k]
             /\ Len(post) = 2 => post[1].from = "main"
  <2>1. CASE Len(post) = 1  BY <1>1, <1>2, <2>1 DEF PostInv, QuietInv
  <2>2. CASE Len(post) = 2 /\ post[2].from # "main"  BY <1>2, <1>1, <2>2, <1>5 DEF QuietInv, PostInv
  <2> QED  BY <1>7, <2>1, <2>2
<1>8. /\ dialog'.pending = IF post[1].from = "dialog" THEN dialog.pending - 1 ELSE dialog.pending
      /\ post[1].from = "dialog" =>
           /\ dialog.pending >= 1 /\ post[1].seq = dialog.seq - dialog.pending + 1
           /\ dialog'.pending = 0 => dialog'.shown = post[1].val
      /\ post[1].from = "main" /\ dialog.pending = 0 => dialog'.shown = post[1].val
      /\ post[1].from = "font" => dialog'.shown = dialog.shown
  BY DialogHears
<1>9. dialog.seq \in Nat /\ dialog.pending \in Int /\ dialog.pending >= 0  BY DEF SettingsTypes, SeqInv
<1>12. ASSUME post' = <<>> \/ (Len(post') = 1 /\ post'[1].from = "font")
       PROVE  \A k \in {"font", "usage"} : dialog'.shown[k] = current'[k]
  <2>1. \/ Len(post) = 1
        \/ Len(post) = 2 /\ post[2].from = "font"
    <3>1. CASE post' = <<>>  BY <1>5, <3>1
    <3>2. CASE Len(post') = 1 /\ post'[1].from = "font"  BY <3>2, <1>5
    <3> QED  BY <1>12, <3>1, <3>2
  <2>2. /\ \A k \in {"font", "usage"} : post[1].val[k] = current[k]
        /\ Len(post) = 2 => post[1].from = "main"
    BY <1>7, <2>1
  <2>4. CASE post[1].from = "dialog"
    <3>1. dialog.seq = dialog.seq - dialog.pending + 1
      <4>2. PICK i \in DOMAIN post : post[i].from = "dialog" /\ post[i].seq = dialog.seq
        BY <1>2, <1>8, <1>9, <2>4 DEF SeqInv, Outstanding
      <4> QED  BY <1>8, <1>5, <2>1, <2>4, <4>2
    <3>2. dialog'.pending = 0  BY <1>8, <1>9, <2>4, <3>1
    <3> QED  BY <1>1, <1>8, <2>2, <2>4, <3>2
  <2>5. CASE post[1].from = "main"
    <3>1. dialog.pending = 0
      <4> SUFFICES ASSUME dialog.pending > 0 PROVE FALSE  BY <1>9
      <4>1. PICK i \in DOMAIN post : post[i].from = "dialog" /\ post[i].seq = dialog.seq
        BY <1>9, <1>2 DEF Outstanding, SeqInv
      <4> QED  BY <1>5, <2>1, <2>5, <4>1
    <3> QED  BY <1>1, <1>8, <2>2, <2>5, <3>1
  <2>6. CASE post[1].from = "font"  BY <1>1, <1>8, <2>6, <1>2, <2>1, <2>2 DEF HeardInv
  <2> QED  BY <1>5, Queues, <2>4, <2>5, <2>6
<1>13. ASSUME post' = <<>> \/ (Len(post') = 1 /\ post'[1].from = "dialog")
       PROVE  fontHook'.shown = current'.font
  <2>1. \/ Len(post) = 1
        \/ Len(post) = 2 /\ post[2].from = "dialog"
    <3>1. CASE post' = <<>>  BY <1>5, <3>1
    <3>2. CASE Len(post') = 1 /\ post'[1].from = "dialog"  BY <3>2, <1>5
    <3> QED  BY <1>13, <3>1, <3>2
  <2>2. /\ post[1].val.font = current.font
        /\ Len(post) = 2 => post[1].from = "main"
    BY <1>7, <2>1
  <2>3. /\ post[1].from = "main" /\ fontHook.pending = 0 => fontHook'.shown = post[1].val.font
        /\ post[1].from # "main" => fontHook'.shown = fontHook.shown
    BY FontHears
  <2>4. CASE post[1].from = "main"
    <3>1. FontsOf(post) = {}  BY <1>5, <2>1, <2>4 DEF FontsOf
    <3>2. Cardinality({}) = 0  BY FontsOfNone
    <3>3. fontHook.pending = Cardinality(FontsOf(post)) + Cardinality(FontsOf(writing))  BY DEF FontInv
    <3>4. fontHook.pending = 0  BY <1>2, <3>1, <3>2, <3>3 DEF FontsOf
    <3> QED  BY <1>1, <2>2, <2>3, <2>4, <3>4
  <2>5. CASE post[1].from = "dialog"  BY <1>1, <2>3, <2>5, <1>2, <2>1, <2>2 DEF HeardInv
  <2>6. CASE post[1].from = "font"
    <3>3. fontHook.shown = post[1].val.font  BY <1>2, <1>5, <2>6, <2>1, <2>2 DEF FontInv, FontsOf
    <3> QED  BY <1>1, <2>2, <2>3, <2>6, <3>3
  <2> QED  BY <1>5, Queues, <2>4, <2>5, <2>6
<1> QED  BY <1>12, <1>13

-----------------------------------------------------------------------------
\* A read of the file finds what the service has.
LEMMA PeekKeepsSettings ==
    ASSUME Peeks = FALSE, SettingsInv, PeekBegins \/ PeekEnds
    PROVE  SettingsInv' /\ dialog' = dialog
<1>1. SettingsTypes /\ PatchInv /\ (failed = FALSE => Agreed)  BY DEF SettingsInv, Agreed
<1>3. CASE PeekBegins
  <2>4. failed = FALSE => Agreed'
    BY <1>1, <1>3 DEF Agreed, DiskInv, Before, QuietInv, PostInv, SeqInv, Outstanding, ShownInv, FontInv,
       HeardInv, PeekBegins
  <2> QED  BY <1>3, <1>1, <2>4 DEF SettingsInv, Agreed, SettingsTypes, PeekBegins, PatchInv
<1>4. CASE PeekEnds
  <2>1. /\ writing = <<>> /\ reading = <<AsRead(file)>> /\ current' = AsRead(file) /\ reading' = <<>>
        /\ UNCHANGED <<file, writing, usageSnap, post, dialog, fontHook, issued, acked, failed>>
    BY <1>1, <1>4 DEF PeekEnds, SettingsTypes
  <2>3. PatchInv'
    <3>1. NoNewer(AsRead(file), AsRead(file)) /\ NoNewer(AsRead(file), current)
      BY <1>1, Queues, NoNewerOrder DEF PatchInv
    <3>2. \A k \in Setting : AsRead(file)[k] <= issued
      BY <1>1, Queues, <3>1 DEF NoNewer, PatchInv, SettingsTypes, SettingVals
    <3>3. DOMAIN writing = {}  BY <2>1, EmptySeq, LenProperties
    <3> QED  BY <1>1, <2>1, <3>1, <3>2, <3>3 DEF PatchInv
  <2>5. failed = FALSE => Agreed'
    BY <1>1, <2>1 DEF Agreed, DiskInv, Before, QuietInv, PostInv, SeqInv, Outstanding, ShownInv, FontInv,
       HeardInv
  <2> QED  BY <2>1, <1>1, Queues, <2>3, <2>5 DEF SettingsInv, Agreed, SettingsTypes
<1> QED  BY <1>3, <1>4

\* The window, or all of the application, starts afresh with what is on disk.
LEMMA AfreshKeeps ==
    ASSUME Peeks = FALSE, SettingsInv, ReloadWindow \/ Relaunch
    PROVE  SettingsInv'
<1>1. SettingsTypes /\ PatchInv /\ (failed = FALSE => Agreed)  BY DEF SettingsInv, Agreed
<1>2. AsRead(file) \in SettingVals /\ AfterRead(file) = file  BY <1>1, AsReadTyped DEF SettingsTypes
<1>3. DOMAIN <<>> = {} /\ Len(<<>>) = 0  BY EmptySeq, LenProperties
<1>4. writing' = <<>> /\ reading' = <<>>
  <2>1. CASE ReloadWindow  BY <2>1, <1>3 DEF ReloadWindow, NoneUnderWay
  <2>2. CASE Relaunch  BY <2>2 DEF Relaunch
  <2> QED  BY <2>1, <2>2
<1>5. /\ file' = file /\ current' = AsRead(file) /\ post' = <<>> /\ issued' = issued /\ acked' = acked
      /\ dialog' = [shown |-> current', seq |-> 0, pending |-> 0]
      /\ fontHook' = [shown |-> current'.font, pending |-> 0]
  BY <1>2 DEF ReloadWindow, Relaunch
<1>8. SettingsTypes'
  <2>1. dialog' \in [shown : SettingVals, seq : Nat, pending : Int]  BY <1>2, <1>5
  <2>2. fontHook' \in [shown : Nat, pending : Int]  BY <1>5, <1>2 DEF SettingVals, Setting
  <2>3. usageSnap' \in Nat /\ failed' \in BOOLEAN
    BY <1>1, <1>5, <1>2 DEF SettingsTypes, ReloadWindow, Relaunch, SettingVals, Setting
  <2>4. writing' \in Seq(PatchesUnderWay) /\ post' \in Seq(SettingsNews)  BY <1>4, <1>5, EmptySeq
  <2> QED  BY <1>1, <1>2, <1>4, <1>5, <2>1, <2>2, <2>3, <2>4 DEF SettingsTypes
<1>9. PatchInv'
  <2>1. NoNewer(AsRead(file), AsRead(file)) /\ NoNewer(AsRead(file), current)
    BY <1>1, <1>2, NoNewerOrder DEF PatchInv
  <2>2. \A k \in Setting : AsRead(file)[k] <= issued
    BY <1>1, <1>2, <2>1 DEF SettingsTypes, SettingVals, NoNewer, PatchInv
  <2> QED  BY <1>1, <1>3, <1>4, <1>5, <2>1, <2>2 DEF PatchInv
<1>10. failed' = FALSE => usageSnap' = AsRead(file).usage
  BY <1>1, <1>5 DEF Agreed, DiskInv, ReloadWindow, Relaunch
<1>12. Afresh' => Agreed'  BY AfreshHolds, PTL
<1> QED  BY <1>8, <1>9, <1>4, <1>5, <1>10, <1>12 DEF SettingsInv, Agreed, Afresh

\* What every patch keeps, and that it rewinds nothing.
LEMMA PatchKeepsSettings ==
    ASSUME Peeks = FALSE, SettingsInv, NEW k \in Setting, NEW seq \in Nat,
           NEW from \in {"dialog", "font", "popover", "quiet"}, Patch(k, seq, from)
    PROVE  SettingsInv' /\ (failed = FALSE => NoNewer(dialog.shown, dialog'.shown))
<1>1. SettingsTypes /\ PatchInv /\ (failed = FALSE => Agreed)  BY DEF SettingsInv, Agreed
<1>3. failed' = failed /\ PatchInv'  BY <1>1, Merges DEF Patch
<1>5. failed = FALSE => Agreed'
  <2> SUFFICES ASSUME Agreed PROVE Agreed'  BY <1>1
  <2> QED  BY <1>1, PatchWaits, PatchAwaited, PatchCounted DEF Agreed
<1>6. failed = FALSE => NoNewer(dialog.shown, dialog'.shown)
  <2>1. CASE from = "dialog"
    <3>4. \A j \in Setting : dialog.shown[j] \in Nat /\ current[j] \in Nat
      BY <1>1 DEF SettingVals, SettingsTypes
    <3>5. failed = FALSE => dialog.shown[k] <= issued + 1
      BY SMTT(30), <1>1, <3>4 DEF SettingsTypes, Agreed, ShownInv, NoNewer, PatchInv
    <3> QED  BY <1>1, <2>1, DialogPatched, <3>4, <3>5 DEF NoNewer, Patch
  <2>2. CASE from # "dialog"  BY <1>1, <2>2, NoNewerOrder DEF SettingsTypes, Patch
  <2> QED  BY <2>1, <2>2
<1> QED  BY <1>3, <1>1, PatchTyped, <1>5, <1>6 DEF SettingsInv, Agreed

\* One step of the settings.
LEMMA SettingsStep ==
    ASSUME Peeks = FALSE, SettingsInv, [SettingsNext]_settingsVars
    PROVE  /\ SettingsInv'
           /\ NoNewer(dialog.shown, dialog'.shown) \/ failed \/ ReloadWindow \/ Relaunch
<1>1. SettingsTypes /\ PatchInv /\ (failed = FALSE => Agreed)  BY DEF SettingsInv, Agreed
<1>2. dialog.shown \in SettingVals /\ dialog.seq \in Nat /\ failed \in BOOLEAN  BY <1>1 DEF SettingsTypes
<1>3. NoNewer(dialog.shown, dialog.shown)  BY <1>2, NoNewerOrder
<1>4. ASSUME NEW k \in Setting, DialogPatch(k)
      PROVE  SettingsInv' /\ (failed = FALSE => NoNewer(dialog.shown, dialog'.shown))
  <2>1. dialog.seq + 1 \in Nat  BY <1>2
  <2> QED  BY <2>1, <1>4, PatchKeepsSettings DEF DialogPatch, Patch
<1>5. ASSUME FontPatch
      PROVE  SettingsInv' /\ (failed = FALSE => NoNewer(dialog.shown, dialog'.shown))
  BY <1>5, PatchKeepsSettings DEF FontPatch, Patch, Setting
<1>6. ASSUME NEW from \in {"popover", "quiet"}, HostPatch(from)
      PROVE  SettingsInv' /\ (failed = FALSE => NoNewer(dialog.shown, dialog'.shown))
  <2>1. CASE from = "popover"  BY <1>6, <2>1, PatchKeepsSettings DEF HostPatch, Patch, Setting
  <2>2. CASE from = "quiet"  BY <1>6, <2>2, PatchKeepsSettings DEF HostPatch, Patch, Setting
  <2> QED  BY <2>1, <2>2
<1>7. ASSUME Persisted PROVE SettingsInv' /\ dialog' = dialog
  <2>2. dialog' = dialog /\ failed' = failed  BY <1>7 DEF Persisted
  <2>3. failed = FALSE => Agreed'
    <3> SUFFICES ASSUME Agreed PROVE Agreed'  BY <1>1
    <3>2. PostInv'  BY <1>1, <1>7, PersistedPosted DEF Agreed
    <3>3. SeqInv' /\ ShownInv'  BY <1>1, <1>7, PersistedAwaited DEF Agreed
    <3>4. FontInv' /\ HeardInv'  BY <1>1, <1>7, PersistedCounted DEF Agreed
    <3> QED  BY <1>1, <1>7, PersistedDisk, <3>2, <3>3, <3>4 DEF Agreed
  <2> QED  BY <1>1, <1>7, PersistedPatches, <2>2, <2>3 DEF SettingsInv, Agreed
<1>8. ASSUME PersistRejected PROVE SettingsInv' /\ dialog' = dialog
  BY <1>1, <1>8, RejectedPatches DEF SettingsInv, PersistRejected
<1>9. ASSUME Receive
      PROVE  SettingsInv' /\ (failed = FALSE => NoNewer(dialog.shown, dialog'.shown))
  <2>2. failed = FALSE => Agreed'
    <3> SUFFICES ASSUME Agreed PROVE Agreed'  BY <1>1
    <3>2. SeqInv' /\ ShownInv'  BY <1>1, <1>9, ReceivedAwaited DEF Agreed
    <3>3. FontInv'  BY <1>1, <1>9, ReceivedCounted DEF Agreed
    <3>4. HeardInv'  BY <1>1, <1>9, ReceivedHeard DEF Agreed
    <3> QED  BY <1>1, <1>9, ReceivedPosted, <3>2, <3>3, <3>4 DEF Agreed
  <2>3. failed = FALSE => NoNewer(dialog.shown, dialog'.shown)
    <3> SUFFICES ASSUME Agreed PROVE NoNewer(dialog.shown, dialog'.shown)  BY <1>1
    <3>2. 1 \in DOMAIN post  BY <1>1, <1>9, Queues DEF Receive
    <3> QED  BY <1>3, <1>1, <1>9, DialogHears, <3>2 DEF Agreed, ShownInv
  <2> QED  BY <1>1, <1>9, ReceivedPatches, <2>2, <2>3 DEF SettingsInv, Agreed
<1>10. ASSUME PeekBegins \/ PeekEnds PROVE SettingsInv' /\ dialog' = dialog
  BY <1>10, PeekKeepsSettings
<1>11. ASSUME ReloadWindow \/ Relaunch PROVE SettingsInv'
  BY <1>11, AfreshKeeps
<1>12. ASSUME UNCHANGED settingsVars PROVE SettingsInv' /\ dialog' = dialog
  <2>4. failed = FALSE => Agreed'
    BY <1>1, <1>12 DEF Agreed, DiskInv, Before, QuietInv, PostInv, SeqInv, Outstanding, ShownInv, FontInv,
       HeardInv, settingsVars
  <2> QED  BY <1>12, <1>1, <2>4 DEF SettingsInv, Agreed, SettingsTypes, settingsVars, PatchInv
<1> QED  BY <1>2, <1>3, <1>4, <1>5, <1>6, <1>7, <1>8, <1>9, <1>10, <1>11, <1>12 DEF SettingsNext

\* When nothing is under way and nothing was refused, everybody shows what is on disk.
LEMMA SettingsHold == SettingsInv => PatchesAreKept /\ SettingsAgree
<1> SUFFICES ASSUME SettingsInv PROVE PatchesAreKept /\ SettingsAgree  OBVIOUS
<1>5. ASSUME writing = <<>>, post = <<>>, reading = <<>>, ~failed
      PROVE  /\ file.kind = "ok" => file.val = current
             /\ \A k \in Setting \ {"notice"} : dialog.shown[k] = current[k]
             /\ fontHook.shown = current.font
             /\ usageSnap = current.usage
             /\ dialog.pending = 0 /\ fontHook.pending = 0
  <2>1. Agreed  BY <1>5 DEF SettingsTypes, SettingsInv, Agreed
  <2>2. DOMAIN writing = {} /\ DOMAIN post = {}  BY <1>5, EmptySeq, LenProperties
  <2>3. current = AsRead(file) /\ usageSnap = AsRead(file).usage  BY <1>5, <2>1 DEF Agreed, DiskInv
  <2>5. fontHook.shown = current.font  BY <1>5, <2>1, <2>2 DEF Agreed, HeardInv
  <2>6. dialog.pending = 0  BY <2>1, <2>2 DEF Outstanding, SettingsTypes, Agreed, SeqInv, SettingsInv
  <2>7. fontHook.pending = 0
    <3>2. Cardinality(FontsOf(post)) = 0 /\ Cardinality(FontsOf(writing)) = 0  BY <1>5, FontsOfNone
    <3> QED  BY <2>1, <3>2 DEF Agreed, FontInv
  <2>8. \A k \in Setting \ {"notice"} : dialog.shown[k] = current[k]
    BY <1>5, <2>1, <2>2 DEF Setting, Agreed, HeardInv
  <2> QED  BY <2>3, <2>5, <2>6, <2>7, <2>8 DEF AsRead
<1> QED
  BY Queues, NoNewerOrder, <1>5 DEF PatchesAreKept, NoNewer, AsRead, SettingsAgree, PatchInv, SettingsTypes,
     SettingsInv, Agreed


-----------------------------------------------------------------------------
(* The agents' calls.                                                        *)

LookingUp == {"look", "ride", "list", "refresh"}
Asks == [step : LookingUp \cup {"idle", "sent", "ok", "error", "no_worktree"},
         tool : {"read", "write"}, path : Paths, again : BOOLEAN,
         on : 0..MaxListings, must : SUBSET Calls, there : BOOLEAN]
ListingsOf == [nr : 1..MaxListings, saw : SUBSET Paths]
Answers == [kind : {"ready", "goodbye"}] \cup
           [kind : {"ok", "error"}, call : Calls, note : SUBSET Calls]

BridgeTypes ==
    /\ registered \in SUBSET Paths /\ known \in SUBSET Paths
    /\ listings \in Seq(ListingsOf) /\ listed \in 0..MaxListings
    /\ ask \in [Calls -> Asks]
    /\ pendingCalls \in SUBSET Calls
    /\ toPage \in Seq(Calls) /\ toMain \in Seq(Answers)
    /\ page \in [up : BOOLEAN, nr : Nat \ {0}]
    /\ marks \in [Paths -> SUBSET Calls] /\ savedMarks \in [Paths -> SUBSET Calls]
    /\ forgotten \in SUBSET Calls

\* The listings end in the order they began.
ListingInv ==
    /\ \A i \in DOMAIN listings : listings[i].nr <= listed
    /\ \A i, j \in DOMAIN listings : i < j => listings[i].nr < listings[j].nr

\* A worktree that has been there since the call is registered, and the call that listed again
\* on its account finds it: every listing that has begun since saw it.
Finds(a) ==
    /\ a.step = "no_worktree" => a.there = FALSE
    /\ a.there = TRUE =>
         /\ a.path \in registered
         /\ a.again = TRUE => /\ a.path \in known
                             /\ \A i \in DOMAIN listings : a.path \in listings[i].saw
         /\ a.step = "refresh" =>
              /\ a.on <= listed
              /\ \A i \in DOMAIN listings : listings[i].nr >= a.on => a.path \in listings[i].saw
              /\ \/ \E i \in DOMAIN listings : listings[i].nr = a.on
                 \/ a.path \in known /\ \A i \in DOMAIN listings : listings[i].nr > a.on

LookInv == \A c \in Calls : Finds(ask[c])

\* Those that wait for the window are the ones with a timer.
WaitInv ==
    /\ \A c \in Calls : ask[c].step = "sent" <=> c \in pendingCalls
    /\ disposed => pendingCalls = {}

\* What a call has done, or must find, is in the session or went with a page; an answer on
\* its way says no more than that.
SessionInv ==
    /\ \A c \in Calls :
         /\ ask[c].step = "ok" /\ ask[c].tool = "write" => c \in marks[ask[c].path] \cup forgotten
         /\ ask[c].step = "ok" => ask[c].must \subseteq forgotten
         /\ ask[c].must \subseteq marks[ask[c].path] \cup forgotten
         /\ ask[c].tool = "write" => ask[c].must = {}
    /\ \A i \in DOMAIN toPage : ask[toPage[i]].step # "idle"
    /\ \A i \in DOMAIN toMain : toMain[i].kind = "ok" =>
         LET c == toMain[i].call IN
         /\ ask[c].step # "idle"
         /\ ask[c].tool = "write" => c \in marks[ask[c].path] \cup forgotten
         /\ ask[c].must \subseteq toMain[i].note \cup forgotten

BridgeInv == BridgeTypes /\ ListingInv /\ LookInv /\ WaitInv /\ SessionInv

LEMMA BridgesStart == BridgesInit => BridgeInv
<1> SUFFICES ASSUME BridgesInit PROVE BridgeInv  OBVIOUS
<1>3. BridgeTypes  BY PathsAssumption, ListingsAssumption DEF BridgesInit, BridgeTypes, NoMarks, Asks, LookingUp
<1> QED
  BY <1>3 DEF BridgesInit, BridgeInv, ListingInv, LookInv, Finds, WaitInv, SessionInv

-----------------------------------------------------------------------------
LEMMA CallChanges ==
    ASSUME ask \in [Calls -> Asks], NEW c \in Calls, NEW a \in Asks, ask' = [ask EXCEPT ![c] = a]
    PROVE  /\ ask' \in [Calls -> Asks] /\ ask'[c] = a
           /\ \A d \in Calls \ {c} : ask'[d] = ask[d]
  OBVIOUS

\* The ways a call is looked up.
Looks(c, a) ==
    \/ /\ ask[c].step = "refresh" /\ ~Running(ask[c].on)
       /\ a.step = "look" /\ a.again = TRUE /\ a.there = ask[c].there /\ a.must = ask[c].must
       /\ UNCHANGED <<listings, listed, pendingCalls, toPage>>
    \/ /\ a.step = "error" /\ a.again = FALSE /\ a.there = ask[c].there /\ a.must = {}
       /\ UNCHANGED <<listings, listed, pendingCalls, toPage>>
    \/ /\ ~disposed
       /\ a.step = "sent" /\ a.again = FALSE /\ a.there = FALSE /\ a.must = ask[c].must
       /\ pendingCalls' = pendingCalls \cup {c} /\ toPage' = Append(toPage, c)
       /\ UNCHANGED <<listings, listed>>
    \/ /\ a.step = "ride" /\ a.again = ask[c].again /\ a.there = ask[c].there
       /\ a.must = ask[c].must
       /\ UNCHANGED <<listings, listed, pendingCalls, toPage>>
    \/ /\ ask[c].again = TRUE /\ ask[c].path \notin known
       /\ a.step = "no_worktree" /\ a.again = FALSE /\ a.there = ask[c].there /\ a.must = {}
       /\ UNCHANGED <<listings, listed, pendingCalls, toPage>>
    \/ /\ BeginListing
       /\ a.step \in {"list", "refresh"} /\ a.again = ask[c].again /\ a.on = listed + 1
       /\ a.there = ask[c].there /\ a.must = ask[c].must
       /\ UNCHANGED <<pendingCalls, toPage>>

LEMMA RoomFor ==
    ASSUME BridgeTypes, Room
    PROVE  listed + 1 \in 1..MaxListings
  BY ListingsAssumption DEF BridgeTypes, Room

LEMMA LookUpCases ==
    ASSUME BridgeTypes, NEW c \in Calls, LookUp(c)
    PROVE  /\ UNCHANGED <<registered, known, ready, disposed, toMain, page, marks, savedMarks, forgotten>>
           /\ ask[c].step \in LookingUp
           /\ \E a \in Asks : /\ ask' = [ask EXCEPT ![c] = a]
                              /\ a.tool = ask[c].tool /\ a.path = ask[c].path
                              /\ Looks(c, a)
<1>0. ask \in [Calls -> Asks] /\ ask[c] \in Asks /\ 0 \in 0..MaxListings
  BY ListingsAssumption DEF BridgeTypes
<1>1. UNCHANGED <<registered, known, ready, disposed, toMain, page, marks, savedMarks, forgotten>>
  BY DEF LookUp, Forward, Missed, NotKnown, BeginListing, resolverVars, windowVars
<1>2. ask[c].step \in LookingUp  BY DEF LookUp, LookingUp
<1>3. ASSUME NEW step \in {"error", "no_worktree"}
      PROVE  LET a == Failed(ask[c], step)
             IN /\ a \in Asks /\ a.step = step /\ a.again = FALSE /\ a.there = ask[c].there
                /\ a.must = {} /\ a.tool = ask[c].tool /\ a.path = ask[c].path
  BY <1>0 DEF Failed, Asks
<1>4. CASE ask[c].step = "refresh"
  <2> DEFINE a == [ask[c] EXCEPT !.step = "look", !.again = TRUE]
  <2>1. a \in Asks /\ a.tool = ask[c].tool /\ a.path = ask[c].path
    BY <1>0 DEF Asks, LookingUp
  <2>2. a.step = "look" /\ a.again = TRUE /\ a.there = ask[c].there /\ a.must = ask[c].must
    BY <1>0 DEF Asks
  <2>3. ask' = [ask EXCEPT ![c] = a] /\ ~Running(ask[c].on)
        /\ UNCHANGED <<resolverVars, pendingCalls, windowVars>>
    BY <1>0, <1>4 DEF LookUp
  <2> HIDE DEF a
  <2> QED  BY <1>1, <1>2, <1>4, <2>1, <2>2, <2>3 DEF Looks, resolverVars, windowVars
<1>5. CASE ask[c].step # "refresh" /\ ask[c].path \in known
  <2>2. UNCHANGED <<listings, listed>>  BY <1>5 DEF Forward, resolverVars, LookUp
  <2>3. CASE disposed \/ ~ready
    <3>1. ask' = [ask EXCEPT ![c] = Failed(ask[c], "error")] /\ UNCHANGED <<pendingCalls, toPage>>
      BY <1>0, <1>5, <2>3 DEF Forward, Moved, LookUp
    <3> QED  BY <1>1, <1>2, <1>3, <2>2, <3>1 DEF Looks
  <2>4. CASE ~(disposed \/ ~ready)
    <3> DEFINE a == [ask[c] EXCEPT !.step = "sent", !.again = FALSE, !.on = 0, !.there = FALSE]
    <3>1. a \in Asks /\ a.tool = ask[c].tool /\ a.path = ask[c].path
      BY <1>0 DEF Asks, LookingUp
    <3>2. a.step = "sent" /\ a.again = FALSE /\ a.there = FALSE /\ a.must = ask[c].must
      BY <1>0 DEF Asks
    <3>3. ask' = [ask EXCEPT ![c] = a] /\ pendingCalls' = pendingCalls \cup {c}
          /\ toPage' = Append(toPage, c)  BY <1>0, <1>5, <2>4 DEF Forward, LookUp
    <3> HIDE DEF a
    <3> QED  BY <1>1, <1>2, <2>2, <2>4, <3>1, <3>2, <3>3 DEF Looks
  <2> QED  BY <2>3, <2>4
<1>6. CASE ask[c].step # "refresh" /\ ask[c].path \notin known
  <2>0. UNCHANGED <<pendingCalls, toPage>>  BY <1>6 DEF LookUp, windowVars
  <2>1. ASSUME Missed(c)
        PROVE  \E a \in Asks : /\ ask' = [ask EXCEPT ![c] = a]
                               /\ a.tool = ask[c].tool /\ a.path = ask[c].path
                               /\ Looks(c, a)
    <3>1. CASE ask[c].again
      <4>1. ask' = [ask EXCEPT ![c] = Failed(ask[c], "no_worktree")] /\ UNCHANGED <<listings, listed>>
        BY <1>0, <2>1, <3>1 DEF Missed, Moved
      <4>2. ask[c].again = TRUE  BY <3>1, <1>0 DEF Asks
      <4> QED  BY <1>3, <1>6, <2>0, <4>1, <4>2 DEF Looks
    <3>2. CASE ~ask[c].again
      <4> DEFINE a == [ask[c] EXCEPT !.step = "refresh", !.on = listed + 1]
      <4>1. BeginListing /\ ask' = [ask EXCEPT ![c] = a]
        BY <1>0, <2>1, <3>2 DEF Missed, BeginListing
      <4>2. listed + 1 \in 0..MaxListings  BY <4>1, RoomFor DEF BeginListing
      <4>3. a \in Asks /\ a.tool = ask[c].tool /\ a.path = ask[c].path
        BY <1>0, <4>2 DEF Asks, LookingUp
      <4>4. a.step = "refresh" /\ a.again = ask[c].again /\ a.on = listed + 1
            /\ a.there = ask[c].there /\ a.must = ask[c].must
        BY <1>0 DEF Asks
      <4> HIDE DEF a
      <4> QED  BY <2>0, <4>1, <4>3, <4>4 DEF Looks
    <3> QED  BY <3>1, <3>2
  <2>2. ASSUME NotKnown(c)
        PROVE  \E a \in Asks : /\ ask' = [ask EXCEPT ![c] = a]
                               /\ a.tool = ask[c].tool /\ a.path = ask[c].path
                               /\ Looks(c, a)
    <3>1. CASE Missed(c)  BY <3>1, <2>1
    <3>2. CASE ~Missed(c)
      <4> DEFINE a == [ask[c] EXCEPT !.step = "list", !.on = listed + 1]
      <4>1. BeginListing /\ ask' = [ask EXCEPT ![c] = a]
        BY <1>0, <2>2, <3>2 DEF NotKnown, BeginListing
      <4>2. listed + 1 \in 0..MaxListings  BY <4>1, RoomFor DEF BeginListing
      <4>3. a \in Asks /\ a.tool = ask[c].tool /\ a.path = ask[c].path
        BY <1>0, <4>2 DEF Asks, LookingUp
      <4>4. a.step = "list" /\ a.again = ask[c].again /\ a.on = listed + 1
            /\ a.there = ask[c].there /\ a.must = ask[c].must
        BY <1>0 DEF Asks
      <4> HIDE DEF a
      <4> QED  BY <2>0, <4>1, <4>3, <4>4 DEF Looks
    <3> QED  BY <3>1, <3>2
  <2>3. CASE ask[c].step = "look" /\ InFlight # 0
    <3> DEFINE a == [ask[c] EXCEPT !.step = "ride", !.on = InFlight]
    <3>1. ask' = [ask EXCEPT ![c] = a] /\ UNCHANGED <<listings, listed>>
      BY <1>0, <1>6, <2>3 DEF LookUp, resolverVars
    <3>3. a \in Asks /\ a.tool = ask[c].tool /\ a.path = ask[c].path
      BY <1>0, ListingsAssumption DEF Asks, LookingUp, InFlight, BridgeTypes
    <3>4. a.step = "ride" /\ a.again = ask[c].again /\ a.there = ask[c].there /\ a.must = ask[c].must
      BY <1>0 DEF Asks
    <3> HIDE DEF a
    <3> QED  BY <1>1, <1>2, <2>0, <3>1, <3>3, <3>4 DEF Looks
  <2>4. CASE ask[c].step = "list"  BY <1>1, <1>2, <2>1, <1>6, <2>4 DEF LookUp
  <2>5. CASE ~(ask[c].step = "look" /\ InFlight # 0) /\ ask[c].step # "list"
    BY <1>1, <1>2, <2>2, <1>6, <2>5 DEF LookUp
  <2> QED  BY <2>3, <2>4, <2>5
<1> QED  BY <1>4, <1>5, <1>6

-----------------------------------------------------------------------------
\* A listing begins.
LEMMA ListingBegins ==
    ASSUME BridgeTypes, ListingInv, NEW saw \in SUBSET Paths, listed + 1 \in 1..MaxListings,
           listed' = listed + 1,
           listings' = Append(listings, [nr |-> listed + 1, saw |-> saw])
    PROVE  /\ listings' \in Seq(ListingsOf) /\ listed' \in 0..MaxListings
           /\ ListingInv'
           /\ \A i \in DOMAIN listings : i \in DOMAIN listings' /\ listings'[i] = listings[i]
           /\ \A i \in DOMAIN listings' :
                \/ i \in DOMAIN listings /\ listings'[i] = listings[i]
                \/ listings'[i].nr = listed + 1 /\ listings'[i].saw = saw
           /\ \E i \in DOMAIN listings' : listings'[i].nr = listed + 1
<1> DEFINE new == [nr |-> listed + 1, saw |-> saw]
<1>1. new \in ListingsOf /\ new.nr = listed + 1 /\ new.saw = saw  BY DEF ListingsOf
<1> HIDE DEF new
<1>3. /\ listings' \in Seq(ListingsOf) /\ Len(listings) \in Nat /\ Len(listings') = Len(listings) + 1
      /\ DOMAIN listings = 1..Len(listings) /\ DOMAIN listings' = 1..Len(listings')
      /\ \A i \in 1..Len(listings) : listings'[i] = listings[i]
      /\ listings'[Len(listings) + 1] = new  BY <1>1, AppendProperties, LenProperties DEF BridgeTypes, new
<1>4. \A i \in DOMAIN listings' : i \in DOMAIN listings \/ i = Len(listings) + 1  BY <1>3
<1>5. \A i \in DOMAIN listings : listings[i] \in ListingsOf /\ listings[i].nr \in Nat
  <2>1. \A i \in DOMAIN listings : listings[i] \in ListingsOf  BY <1>3 DEF BridgeTypes, new
  <2> QED  BY <2>1 DEF ListingsOf
<1>6. ListingInv'
  <2>2. ASSUME NEW i \in DOMAIN listings', NEW j \in DOMAIN listings', i < j
        PROVE  listings'[i].nr < listings'[j].nr
    <3>1. i \in DOMAIN listings  BY <1>3, <2>2
    <3>2. CASE j \in DOMAIN listings  BY <1>3, <2>2, <3>1, <3>2 DEF ListingInv
    <3>3. CASE j = Len(listings) + 1
      <4>1. listings[i].nr <= listed /\ listings[i].nr \in Nat  BY <1>5, <3>1 DEF ListingInv
      <4> QED  BY <1>1, <1>3, <3>1, <3>3, <4>1 DEF BridgeTypes
    <3> QED  BY <1>4, <3>2, <3>3
  <2> QED  BY <1>1, <1>3, <1>4, <1>5, <2>2 DEF ListingInv, BridgeTypes
<1>7. Len(listings) + 1 \in DOMAIN listings'  BY <1>3
<1> QED  BY <1>1, <1>3, <1>4, <1>6, <1>7

\* One ends: the first.
LEMMA ListingLeaves ==
    ASSUME BridgeTypes, ListingInv, 1 \in DOMAIN listings, listings' = RemoveAt(listings, 1),
           UNCHANGED listed
    PROVE  /\ listings' \in Seq(ListingsOf) /\ ListingInv'
           /\ listings[1] \in ListingsOf
           /\ \A i \in DOMAIN listings' :
                 /\ i + 1 \in DOMAIN listings /\ listings'[i] = listings[i + 1]
                 /\ listings'[i].nr > listings[1].nr
           /\ \A i \in DOMAIN listings :
                 i # 1 => \E j \in DOMAIN listings' : listings'[j] = listings[i]
<1>1. /\ listings \in Seq(ListingsOf) /\ Len(listings) \in Nat /\ DOMAIN listings = 1..Len(listings)
      /\ listings # <<>>
  BY LenProperties DEF BridgeTypes
<1>2. listings' = Tail(listings)
  <2>3. listings' = <<>> \o SubSeq(listings, 2, Len(listings))  BY SubSeqEmpty DEF RemoveAt
  <2> QED  BY <1>1, TailIsSubSeq, HeadTailProperties, <2>3, ConcatEmptySeq
<1>3. /\ listings' \in Seq(ListingsOf) /\ Len(listings') = Len(listings) - 1
      /\ \A i \in 1..Len(listings') : listings'[i] = listings[i + 1]
      /\ DOMAIN listings' = 1..Len(listings')
  BY <1>1, <1>2, HeadTailProperties, LenProperties
<1>4. \A i \in DOMAIN listings' : i \in 1..(Len(listings) - 1) /\ i + 1 \in DOMAIN listings
                                  /\ listings'[i] = listings[i + 1]
  BY <1>1, <1>3
<1>5. listings[1] \in ListingsOf  BY <1>1
<1>6. ListingInv'  BY <1>4 DEF ListingInv
<1>7. \A i \in DOMAIN listings' : listings'[i].nr > listings[1].nr
  <2> SUFFICES ASSUME NEW i \in DOMAIN listings' PROVE listings'[i].nr > listings[1].nr  OBVIOUS
  <2>2. listings[1].nr < listings[i + 1].nr  BY <1>1, <1>4 DEF ListingInv
  <2> QED  BY <1>1, <1>4, <2>2 DEF ListingsOf
<1>8. ASSUME NEW i \in DOMAIN listings, i # 1
      PROVE  \E j \in DOMAIN listings' : listings'[j] = listings[i]
  <2>1. i - 1 \in DOMAIN listings'  BY <1>1, <1>3, <1>8
  <2> QED  BY <1>1, <1>4, <2>1
<1> QED  BY <1>3, <1>4, <1>5, <1>6, <1>7, <1>8

-----------------------------------------------------------------------------
LEMMA LookUpStep ==
    ASSUME BridgeInv, NEW c \in Calls, LookUp(c)
    PROVE  BridgeInv'
<1>0. BridgeTypes /\ ListingInv /\ LookInv /\ WaitInv /\ SessionInv  BY DEF BridgeInv
<1>1. /\ UNCHANGED <<registered, known, ready, disposed, toMain, page, marks, savedMarks, forgotten>>
      /\ ask[c].step \in LookingUp
  BY <1>0, LookUpCases
<1>2. PICK a \in Asks : /\ ask' = [ask EXCEPT ![c] = a]
                       /\ a.tool = ask[c].tool /\ a.path = ask[c].path
                       /\ Looks(c, a)
  BY <1>0, LookUpCases
<1>3. /\ ask' \in [Calls -> Asks] /\ ask'[c] = a
      /\ \A d \in Calls \ {c} : ask'[d] = ask[d]
  BY <1>0, <1>2, CallChanges DEF BridgeTypes
<1>4. ask[c].step \notin {"idle", "sent", "ok", "no_worktree"}  BY <1>1 DEF LookingUp
<1>5. /\ a.must \in {ask[c].must, {}}
      /\ a.there = TRUE => ask[c].there = TRUE
      /\ a.step \notin {"idle", "ok"}
  BY <1>0, <1>2 DEF Looks, BridgeTypes, Asks
<1>6. SessionInv'
  <2>2. \A i \in DOMAIN toPage' : toPage'[i] = c \/ (i \in DOMAIN toPage /\ toPage'[i] = toPage[i])
    <3>1. toPage \in Seq(Calls)  BY <1>0 DEF BridgeTypes
    <3> QED  BY <1>2, <3>1 DEF Looks
  <2>3. \A i \in DOMAIN toPage' : toPage'[i] \in Calls /\ ask'[toPage'[i]].step # "idle"
    <3> SUFFICES ASSUME NEW i \in DOMAIN toPage'
                 PROVE  toPage'[i] \in Calls /\ ask'[toPage'[i]].step # "idle"
      OBVIOUS
    <3> QED  BY <1>3, <1>5, <2>2, <1>0 DEF SessionInv, BridgeTypes
  <2>7. ASSUME NEW i \in DOMAIN toMain, toMain[i].kind = "ok"
        PROVE  LET d == toMain[i].call IN
               /\ ask'[d].step # "idle"
               /\ ask'[d].tool = "write" => d \in marks[ask'[d].path] \cup forgotten
               /\ ask'[d].must \subseteq toMain[i].note \cup forgotten
    <3> DEFINE d == toMain[i].call
    <3>2. /\ ask[d].step # "idle"
          /\ ask[d].tool = "write" => d \in marks[ask[d].path] \cup forgotten
          /\ ask[d].must \subseteq toMain[i].note \cup forgotten
      BY <1>0, <2>7 DEF SessionInv
    <3> HIDE DEF d
    <3>3. /\ ask'[d].step # "idle" /\ ask'[d].tool = ask[d].tool /\ ask'[d].path = ask[d].path
          /\ ask'[d].must \subseteq ask[d].must  BY <1>2, <1>3, <1>5, <1>0, <2>7, <3>2 DEF Answers, BridgeTypes
    <3> QED  BY <3>2, <3>3 DEF d
  <2> QED  BY <1>1, <2>3, <1>0, <1>2, <1>3, <1>5, <2>7 DEF SessionInv
<1>7. WaitInv'
  <2>1. CASE a.step = "sent"
    <3>1. ~disposed /\ pendingCalls' = pendingCalls \cup {c}  BY <1>2, <2>1 DEF Looks
    <3> QED  BY <1>0, <1>1, <1>3, <2>1, <3>1 DEF WaitInv
  <2>2. CASE a.step # "sent"
    <3>1. pendingCalls' = pendingCalls  BY <1>2, <2>2 DEF Looks
    <3> QED  BY <1>0, <1>1, <1>3, <1>4, <2>2, <3>1 DEF WaitInv
  <2> QED  BY <2>1, <2>2
<1>8. pendingCalls' \in SUBSET Calls /\ toPage' \in Seq(Calls)
  <2>4. Append(toPage, c) \in Seq(Calls)  BY <1>0, AppendProperties DEF BridgeTypes
  <2> QED  BY <1>2, <1>0, <2>4 DEF Looks, BridgeTypes
<1>9. CASE UNCHANGED <<listings, listed>>
  <2>1. BridgeTypes'  BY <1>0, <1>1, <1>3, <1>8, <1>9 DEF BridgeTypes
  <2>2. ListingInv'  BY <1>0, <1>9 DEF ListingInv
  <2>3. LookInv'
    <3> SUFFICES ASSUME NEW d \in Calls PROVE Finds(ask[d])'  BY DEF LookInv
    <3>1. CASE d # c  BY <1>0, <1>1, <1>9, <1>3, <3>1 DEF LookInv, Finds
    <3>2. CASE d = c
      <4>0. ask'[d] = a  BY <1>3, <3>2
      <4>1. ask[c].there = TRUE => ask[c].path \in registered
        BY <1>0 DEF LookInv, Finds
      <4>4. CASE ask[c].step = "refresh" /\ ~Running(ask[c].on)
                 /\ a.step = "look" /\ a.again = TRUE /\ a.there = ask[c].there
        <5>1. ask[c].there = TRUE =>
                /\ ask[c].path \in known
                /\ \A i \in DOMAIN listings : listings[i].nr > ask[c].on
                /\ \A i \in DOMAIN listings :
                      listings[i].nr >= ask[c].on => ask[c].path \in listings[i].saw
          BY <1>0, <4>4 DEF LookInv, Finds, Running
        <5>2. \A i \in DOMAIN listings : listings[i] \in ListingsOf  BY <1>0 DEF BridgeTypes
        <5>5. \A i \in DOMAIN listings : listings[i].nr > ask[c].on => listings[i].nr >= ask[c].on
          BY <5>2, <1>0 DEF BridgeTypes, Asks, ListingsOf
        <5> QED  BY <1>1, <1>2, <1>9, <4>0, <4>1, <4>4, <5>1, <5>5 DEF Finds
      <4>5. CASE a.again = FALSE /\ a.step \in {"sent", "error"}
        BY <1>1, <1>2, <1>5, <1>9, <4>0, <4>1, <4>5 DEF Finds
      <4>6. CASE a.step = "ride" /\ a.again = ask[c].again /\ a.there = ask[c].there
        BY <1>1, <1>2, <1>9, <4>0, <4>1, <1>0, <4>6 DEF Finds, LookInv
      <4>7. CASE /\ ask[c].again = TRUE /\ ask[c].path \notin known
                 /\ a.step = "no_worktree" /\ a.again = FALSE /\ a.there = ask[c].there
        BY <4>0, <4>7, <1>0 DEF Finds, BridgeTypes, Asks, LookInv
      <4>8. ~BeginListing  BY <1>9, <1>0 DEF BeginListing, BridgeTypes
      <4> QED  BY <1>2, <4>4, <4>5, <4>6, <4>7, <4>8 DEF Looks
    <3> QED  BY <3>1, <3>2
  <2> QED  BY <1>6, <1>7, <2>1, <2>2, <2>3 DEF BridgeInv
<1>10. CASE ~UNCHANGED <<listings, listed>>
  <2>1. /\ BeginListing /\ a.step \in {"list", "refresh"} /\ a.again = ask[c].again
        /\ a.on = listed + 1 /\ a.there = ask[c].there
    BY <1>2, <1>10 DEF Looks
  <2>5. /\ listings' \in Seq(ListingsOf) /\ listed' \in 0..MaxListings
        /\ ListingInv'
        /\ \A i \in DOMAIN listings : i \in DOMAIN listings' /\ listings'[i] = listings[i]
        /\ \A i \in DOMAIN listings' :
             \/ i \in DOMAIN listings /\ listings'[i] = listings[i]
             \/ listings'[i].nr = listed + 1 /\ listings'[i].saw = registered
        /\ \E i \in DOMAIN listings' : listings'[i].nr = listed + 1
    BY <1>0, <2>1, RoomFor, ListingBegins DEF BeginListing, BridgeTypes
  <2>6. BridgeTypes'  BY <1>0, <1>1, <1>3, <1>8, <2>5 DEF BridgeTypes
  <2>7. LookInv'  
    <3> SUFFICES ASSUME NEW d \in Calls PROVE Finds(ask[d])'  BY DEF LookInv
    <3>1. CASE d # c
      <4>1. ask'[d] = ask[d]  BY <1>3, <3>1
      <4>3. Finds(ask[d])  BY <1>0 DEF LookInv
      <4>4. ask[d].on <= listed => ask[d].on <= listed' /\ listed + 1 > ask[d].on
        BY <2>1, <1>0 DEF BridgeTypes, Asks, BeginListing
      <4> QED  BY <1>1, <2>5, <4>1, <4>3, <4>4 DEF Finds
    <3>2. CASE d = c
      <4>0. ask'[d] = a  BY <1>3, <3>2
      <4>1. ask[c].there = TRUE =>
              /\ ask[c].path \in registered
              /\ ask[c].again = TRUE => /\ ask[c].path \in known
                                       /\ \A i \in DOMAIN listings : ask[c].path \in listings[i].saw
        BY <1>0 DEF LookInv, Finds
      <4>2. ASSUME NEW i \in DOMAIN listings', listings'[i].nr >= listed + 1
            PROVE  listings'[i].saw = registered
        <5>1. i \in DOMAIN listings => listings[i] \in ListingsOf /\ listings[i].nr <= listed
          BY <1>0 DEF ListingInv, BridgeTypes
        <5>3. i \in DOMAIN listings => ~(listings[i].nr >= listed + 1)
          BY <5>1, <1>0 DEF ListingsOf, BridgeTypes
        <5> QED  BY <2>5, <4>2, <5>3
      <4>3. a.on <= listed'  BY <1>0, <2>1 DEF BridgeTypes, BeginListing
      <4> QED  BY <1>1, <1>2, <2>1, <2>5, <4>0, <4>1, <4>2, <4>3 DEF Finds
    <3> QED  BY <3>1, <3>2
  <2> QED  BY <1>6, <1>7, <2>5, <2>6, <2>7 DEF BridgeInv
<1> QED  BY <1>9, <1>10

-----------------------------------------------------------------------------
\* Steps that add nothing to what was done, asked or answered.
LEMMA SessionFrame ==
    ASSUME BridgeTypes, SessionInv,
           \A d \in Calls :
             /\ ask'[d].tool = ask[d].tool /\ ask'[d].path = ask[d].path
             /\ ask'[d].must \subseteq ask[d].must
             /\ ask'[d].step = "idle" => ask[d].step = "idle"
             /\ ask'[d].step = "ok" => ask[d].step = "ok",
           forgotten \subseteq forgotten',
           \A p \in Paths : marks[p] \cup forgotten \subseteq marks'[p] \cup forgotten',
           \A i \in DOMAIN toPage' : \E j \in DOMAIN toPage : toPage'[i] = toPage[j],
           \A i \in DOMAIN toMain' :
             toMain'[i].kind = "ok" => \E j \in DOMAIN toMain : toMain'[i] = toMain[j]
    PROVE  SessionInv'
<1>1. ASSUME NEW d \in Calls
      PROVE  /\ ask'[d].step = "ok" /\ ask'[d].tool = "write" => d \in marks'[ask'[d].path] \cup forgotten'
             /\ ask'[d].step = "ok" => ask'[d].must \subseteq forgotten'
             /\ ask'[d].must \subseteq marks'[ask'[d].path] \cup forgotten'
             /\ ask'[d].tool = "write" => ask'[d].must = {}  BY DEF SessionInv, BridgeTypes, Asks
<1>2. ASSUME NEW i \in DOMAIN toPage'
      PROVE  ask'[toPage'[i]].step # "idle"
  <2>1. PICK j \in DOMAIN toPage : toPage'[i] = toPage[j]  OBVIOUS
  <2>2. toPage[j] \in Calls  BY DEF BridgeTypes
  <2> QED  BY <2>1, <2>2 DEF SessionInv
<1>3. ASSUME NEW i \in DOMAIN toMain', toMain'[i].kind = "ok"
      PROVE  LET c == toMain'[i].call IN
             /\ ask'[c].step # "idle"
             /\ ask'[c].tool = "write" => c \in marks'[ask'[c].path] \cup forgotten'
             /\ ask'[c].must \subseteq toMain'[i].note \cup forgotten'
  <2>1. PICK j \in DOMAIN toMain : toMain'[i] = toMain[j]  BY <1>3
  <2> DEFINE c == toMain[j].call
  <2>3. c \in Calls  BY SMTT(30), <1>3, <2>1 DEF Answers, BridgeTypes
  <2>4. /\ ask[c].step # "idle"
        /\ ask[c].tool = "write" => c \in marks[ask[c].path] \cup forgotten
        /\ ask[c].must \subseteq toMain[j].note \cup forgotten
    BY <1>3, <2>1 DEF SessionInv
  <2> HIDE DEF c
  <2>6. /\ ask'[c].step # "idle"
        /\ ask'[c].tool = "write" => c \in marks'[ask'[c].path] \cup forgotten'
        /\ ask'[c].must \subseteq toMain[j].note \cup forgotten'  BY <2>3, <2>4 DEF BridgeTypes, Asks
  <2> QED  BY <2>1, <2>6 DEF c
<1> QED  BY <1>1, <1>2, <1>3 DEF SessionInv

\* Steps after which a call looks for what it looked for, or for nothing.
LEMMA LookFrame ==
    ASSUME LookInv, UNCHANGED <<registered, known, listings, listed>>,
           \A d \in Calls :
             \/ ask'[d] = ask[d]
             \/ ask'[d].there = FALSE
             \/ /\ ask'[d].step \notin {"refresh", "no_worktree"} /\ ask'[d].again = FALSE
                /\ ask'[d].path = ask[d].path /\ ask'[d].there = ask[d].there
             \/ /\ ask'[d].step \notin {"refresh", "no_worktree"} /\ ask'[d].again = FALSE
                /\ ask'[d].path \in registered
    PROVE  LookInv'
<1> SUFFICES ASSUME NEW d \in Calls PROVE Finds(ask[d])'  BY DEF LookInv
<1> QED  BY DEF Finds, LookInv

LEMMA ListingFrame ==
    ASSUME BridgeTypes, ListingInv, UNCHANGED <<listings, listed>>
    PROVE  ListingInv'
  BY DEF ListingInv

\* A call that fails.
LEMMA FailedTyped ==
    ASSUME NEW a \in Asks, NEW step \in {"error", "no_worktree"}
    PROVE  /\ Failed(a, step) \in Asks /\ Failed(a, step).step = step
           /\ Failed(a, step).again = FALSE /\ Failed(a, step).there = a.there
           /\ Failed(a, step).tool = a.tool /\ Failed(a, step).path = a.path
           /\ Failed(a, step).must = {}
<1>1. 0 \in 0..MaxListings  BY ListingsAssumption
<1> QED  BY <1>1 DEF Failed, Asks

LEMMA RejectStep ==
    ASSUME BridgeInv, NEW cs \in SUBSET pendingCalls, RejectCalls(cs),
           UNCHANGED <<registered, known, listings, listed, page, marks, savedMarks, forgotten>>,
           toPage' \in Seq(Calls), toMain' \in Seq(Answers),
           disposed' => disposed \/ cs = pendingCalls,
           \A i \in DOMAIN toPage' : \E j \in DOMAIN toPage : toPage'[i] = toPage[j],
           \A i \in DOMAIN toMain' : \E j \in DOMAIN toMain : toMain'[i] = toMain[j]
    PROVE  BridgeInv'
<1>0. BridgeTypes /\ ListingInv /\ LookInv /\ WaitInv /\ SessionInv  BY DEF BridgeInv
<1>2. ask' = [c \in Calls |-> IF c \in cs THEN Failed(ask[c], "error") ELSE ask[c]]
      /\ pendingCalls' = pendingCalls \ cs
  BY DEF RejectCalls
<1>4. \A c \in Calls : /\ Failed(ask[c], "error") \in Asks
                       /\ Failed(ask[c], "error").step = "error"
                       /\ Failed(ask[c], "error").again = FALSE
                       /\ Failed(ask[c], "error").there = ask[c].there
                       /\ Failed(ask[c], "error").tool = ask[c].tool
                       /\ Failed(ask[c], "error").path = ask[c].path
                       /\ Failed(ask[c], "error").must = {}  BY <1>0, FailedTyped DEF BridgeTypes
<1>6. BridgeTypes'  BY <1>0, <1>2, <1>4 DEF BridgeTypes
<1>7. ListingInv'  BY <1>0, ListingFrame
<1>8. LookInv'  BY <1>0, <1>2, <1>4, LookFrame
<1>9. WaitInv'  BY <1>0, <1>2, <1>4 DEF WaitInv
<1>10. SessionInv'  BY <1>0, <1>2, <1>4, SessionFrame
<1> QED  BY <1>6, <1>7, <1>8, <1>9, <1>10 DEF BridgeInv

LEMMA RegisterStep ==
    ASSUME BridgeInv, NEW p \in Paths, NEW inside \in BOOLEAN, Register(p, inside)
    PROVE  BridgeInv'
<1>0. BridgeTypes /\ ListingInv /\ LookInv /\ WaitInv /\ SessionInv  BY DEF BridgeInv
<1>1. UNCHANGED <<known, ready, pendingCalls, toPage, toMain, page, marks, savedMarks, forgotten,
                  disposed>>
  BY DEF Register, windowVars
<1>2. registered' \in SUBSET Paths /\ \A q \in Paths \ {p} : q \in registered => q \in registered'
  BY <1>0 DEF Register, BridgeTypes
<1>4. ask \in [Calls -> Asks] /\ \A c \in Calls : ask[c] \in Asks  BY <1>0 DEF BridgeTypes
<1>5. ASSUME NEW a \in Asks
      PROVE  LET b == [a EXCEPT !.there = FALSE]
             IN b \in Asks /\ b.there = FALSE /\ b.step = a.step /\ b.tool = a.tool
                /\ b.path = a.path /\ b.must = a.must
  BY DEF Asks
<1>7. \A d \in Calls : /\ ask'[d].step = ask[d].step /\ ask'[d].tool = ask[d].tool
                       /\ ask'[d].path = ask[d].path /\ ask'[d].must = ask[d].must
                       /\ ask'[d].there = FALSE \/ (ask'[d] = ask[d] /\ ask[d].path \in Paths \ {p})
  <2> SUFFICES ASSUME NEW d \in Calls
               PROVE  /\ ask'[d].step = ask[d].step /\ ask'[d].tool = ask[d].tool
                      /\ ask'[d].path = ask[d].path /\ ask'[d].must = ask[d].must
                      /\ ask'[d].there = FALSE \/ (ask'[d] = ask[d] /\ ask[d].path \in Paths \ {p})
    OBVIOUS
  <2>1. CASE ask[d].path = p  BY <1>4, <1>5, <2>1 DEF Register
  <2>2. CASE ask[d].path # p  BY <2>2, <1>4 DEF Asks, Register
  <2> QED  BY <2>1, <2>2
<1>8. WaitInv'  BY <1>0, <1>1, <1>7 DEF WaitInv
<1>9. SessionInv'  BY <1>0, <1>1, <1>7, SessionFrame
<1>11. CASE UNCHANGED <<listed, listings>>
  <2>1. BridgeTypes'  BY <1>0, <1>1, <1>2, <1>4, <1>5, <1>11 DEF BridgeTypes, Register
  <2>2. ListingInv'  BY <1>0, <1>11, ListingFrame
  <2>3. LookInv'
    <3> SUFFICES ASSUME NEW d \in Calls PROVE Finds(ask[d])'  BY DEF LookInv
    <3>1. Finds(ask[d])  BY <1>0 DEF LookInv
    <3> QED  BY <1>1, <1>2, <1>7, <1>11, <3>1 DEF Finds
  <2> QED  BY <1>8, <1>9, <2>1, <2>2, <2>3 DEF BridgeInv
<1>12. CASE /\ listed + 1 \in 1..MaxListings /\ listed' = listed + 1
            /\ listings' = Append(listings, [nr |-> listed + 1, saw |-> registered'])
  <2>1. /\ listings' \in Seq(ListingsOf) /\ listed' \in 0..MaxListings
        /\ ListingInv'
        /\ \A i \in DOMAIN listings : i \in DOMAIN listings' /\ listings'[i] = listings[i]
        /\ \A i \in DOMAIN listings' :
             \/ i \in DOMAIN listings /\ listings'[i] = listings[i]
             \/ listings'[i].nr = listed + 1 /\ listings'[i].saw = registered'
    BY <1>0, <1>2, <1>12, ListingBegins
  <2>2. BridgeTypes'  BY <1>0, <1>1, <1>2, <1>4, <1>5, <2>1 DEF BridgeTypes, Register
  <2>3. LookInv'
    <3> SUFFICES ASSUME NEW d \in Calls PROVE Finds(ask[d])'  BY DEF LookInv
    <3>1. Finds(ask[d])  BY <1>0 DEF LookInv
    <3>3. ask[d].on <= listed => ask[d].on <= listed' /\ listed + 1 > ask[d].on
      BY <1>12, <1>4, <1>0 DEF BridgeTypes, Asks
    <3> QED  BY <1>1, <1>2, <1>7, <2>1, <3>1, <3>3 DEF Finds
  <2> QED  BY <1>8, <1>9, <2>1, <2>2, <2>3 DEF BridgeInv
<1> QED  BY <1>0, RoomFor, <1>11, <1>12 DEF Register

LEMMA ListingEndStep ==
    ASSUME BridgeInv, Jumbled = FALSE, NEW i \in DOMAIN listings, ListingEnds(i)
    PROVE  BridgeInv'
<1>0. BridgeTypes /\ ListingInv /\ LookInv /\ WaitInv /\ SessionInv  BY DEF BridgeInv
<1>1. /\ 1 \in DOMAIN listings /\ listings' = RemoveAt(listings, 1)
      /\ known' \in {listings[1].saw, registered}
      /\ UNCHANGED <<registered, listed, ask, ready, pendingCalls, toPage, toMain, page, marks,
                     savedMarks, forgotten, disposed>>
  BY DEF ListingEnds, windowVars
<1>2. /\ listings' \in Seq(ListingsOf) /\ ListingInv'
      /\ listings[1] \in ListingsOf
      /\ \A j \in DOMAIN listings' :
            /\ j + 1 \in DOMAIN listings /\ listings'[j] = listings[j + 1]
            /\ listings'[j].nr > listings[1].nr
      /\ \A j \in DOMAIN listings :
            j # 1 => \E k \in DOMAIN listings' : listings'[k] = listings[j]
  BY <1>0, <1>1, ListingLeaves
<1>4. BridgeTypes'  BY <1>0, <1>1, <1>2 DEF BridgeTypes, ListingsOf
<1>5. WaitInv'  BY <1>0, <1>1 DEF WaitInv
<1>6. SessionInv'  BY <1>0, <1>1, SessionFrame
<1>7. LookInv'
  <2> SUFFICES ASSUME NEW d \in Calls PROVE Finds(ask[d])'  BY DEF LookInv
  <2>1. Finds(ask[d])  BY <1>0 DEF LookInv
  <2>2. ask[d].there = TRUE => ask[d].path \in registered  BY <2>1 DEF Finds
  <2>3. ASSUME ask[d].there = TRUE, ask[d].again = TRUE
        PROVE  /\ ask[d].path \in known'
               /\ \A j \in DOMAIN listings' : ask[d].path \in listings'[j].saw
    <3>1. \A j \in DOMAIN listings : ask[d].path \in listings[j].saw  BY <2>1, <2>3 DEF Finds
    <3> QED  BY <1>1, <1>2, <2>2, <2>3, <3>1
  <2>4. ASSUME ask[d].there = TRUE, ask[d].step = "refresh"
        PROVE  /\ ask[d].on <= listed
               /\ \A j \in DOMAIN listings' :
                    listings'[j].nr >= ask[d].on => ask[d].path \in listings'[j].saw
               /\ \/ \E j \in DOMAIN listings' : listings'[j].nr = ask[d].on
                  \/ ask[d].path \in known' /\ \A j \in DOMAIN listings' : listings'[j].nr > ask[d].on
    <3>1. /\ ask[d].on <= listed
          /\ \A j \in DOMAIN listings : listings[j].nr >= ask[d].on => ask[d].path \in listings[j].saw
          /\ \/ \E j \in DOMAIN listings : listings[j].nr = ask[d].on
             \/ ask[d].path \in known /\ \A j \in DOMAIN listings : listings[j].nr > ask[d].on
      BY <2>1, <2>4 DEF Finds
    <3>3. ask[d].on \in Nat /\ listings[1].nr \in Nat
      BY <1>0, <1>2 DEF BridgeTypes, Asks, ListingsOf
    <3>4. CASE listings[1].nr >= ask[d].on
      <4>2. \A j \in DOMAIN listings' : listings'[j].nr > ask[d].on
        <5> SUFFICES ASSUME NEW j \in DOMAIN listings' PROVE listings'[j].nr > ask[d].on
          OBVIOUS
        <5>1. listings'[j] \in ListingsOf  BY <1>2
        <5> QED  BY <1>2, <3>3, <3>4, <5>1 DEF ListingsOf
      <4> QED  BY <3>1, <1>2, <1>1, <2>2, <2>4, <3>4, <4>2
    <3>5. CASE ~(listings[1].nr >= ask[d].on)
      <4>2. PICK j \in DOMAIN listings : listings[j].nr = ask[d].on  BY <1>1, <3>1, <3>3, <3>5
      <4>4. PICK k \in DOMAIN listings' : listings'[k] = listings[j]  BY <1>2, <3>3, <3>5, <4>2
      <4> QED  BY <3>1, <1>2, <4>2, <4>4
    <3> QED  BY <3>4, <3>5
  <2>5. ask[d].step = "no_worktree" => ask[d].there = FALSE  BY <2>1 DEF Finds
  <2> QED  BY <1>1, <2>2, <2>3, <2>4, <2>5 DEF Finds
<1> QED  BY <1>2, <1>4, <1>5, <1>6, <1>7 DEF BridgeInv

LEMMA CallStep ==
    ASSUME BridgeInv, NEW c \in Calls, NEW tool \in {"read", "write"}, NEW p \in Paths,
           Call(c, tool, p)
    PROVE  BridgeInv'
<1>0. BridgeTypes /\ ListingInv /\ LookInv /\ WaitInv /\ SessionInv  BY DEF BridgeInv
<1> DEFINE finds == {d \in marks[p] : tool = "read" /\ ask[d].step = "ok"}
           a == [step |-> "look", tool |-> tool, path |-> p, again |-> FALSE,
                 on |-> 0, there |-> p \in registered, must |-> finds]
<1>1. /\ ask[c].step = "idle" /\ ask' = [ask EXCEPT ![c] = a]
      /\ UNCHANGED <<registered, known, listings, listed, ready, pendingCalls, toPage, toMain, page,
                     marks, savedMarks, forgotten, disposed>>
  BY DEF Call, resolverVars, windowVars
<1>3. a \in Asks
  <2>2. finds \in SUBSET Calls  BY <1>0 DEF BridgeTypes
  <2> HIDE DEF finds
  <2> QED  BY ListingsAssumption, <2>2 DEF Asks, LookingUp
<1>4. /\ a.step = "look" /\ a.tool = tool /\ a.path = p /\ a.again = FALSE /\ a.must = finds
      /\ a.there = (p \in registered)
  OBVIOUS
<1>5. finds \subseteq marks[p] /\ (tool = "write" => finds = {})  OBVIOUS
<1> HIDE DEF finds, a
<1>6. /\ ask' \in [Calls -> Asks] /\ ask'[c] = a
      /\ \A d \in Calls \ {c} : ask'[d] = ask[d]
  BY <1>0, <1>1, <1>3, CallChanges DEF BridgeTypes
<1>7. BridgeTypes'  BY <1>0, <1>1, <1>6 DEF BridgeTypes
<1>8. ListingInv'  BY <1>0, <1>1, ListingFrame
<1>9. LookInv'
  <2>1. a.there = FALSE \/ a.path \in registered  BY <1>4, <1>3 DEF Asks
  <2> QED  BY <1>0, <1>1, <1>4, <1>6, <2>1, LookFrame
<1>10. WaitInv'  BY <1>0, <1>1, <1>4, <1>6 DEF WaitInv
<1>11. SessionInv'
  <2>2. \A i \in DOMAIN toPage : ask'[toPage[i]].step # "idle"
    <3>1. \A i \in DOMAIN toPage : toPage[i] \in Calls  BY <1>0 DEF BridgeTypes
    <3> QED  BY <1>0, <1>4, <1>6, <3>1 DEF SessionInv
  <2>3. ASSUME NEW i \in DOMAIN toMain, toMain[i].kind = "ok"
        PROVE  LET d == toMain[i].call IN
               /\ ask'[d].step # "idle"
               /\ ask'[d].tool = "write" => d \in marks[ask'[d].path] \cup forgotten
               /\ ask'[d].must \subseteq toMain[i].note \cup forgotten
    <3> DEFINE d == toMain[i].call
    <3>3. /\ ask[d].step # "idle"
          /\ ask[d].tool = "write" => d \in marks[ask[d].path] \cup forgotten
          /\ ask[d].must \subseteq toMain[i].note \cup forgotten
      BY <1>0, <2>3 DEF SessionInv
    <3> HIDE DEF d
    <3>4. ask'[d] = ask[d]  BY <1>1, <1>6, <2>3, <1>0, <3>3 DEF Answers, BridgeTypes
    <3> QED  BY <3>3, <3>4 DEF d
  <2> QED  BY <1>1, <1>0, <1>4, <1>5, <1>6, <2>2, <2>3 DEF SessionInv
<1> QED  BY <1>7, <1>8, <1>9, <1>10, <1>11 DEF BridgeInv

-----------------------------------------------------------------------------
\* What the window sends is at the end of the line.
LEMMA AnswerSent ==
    ASSUME toMain \in Seq(Answers), NEW m \in Answers, toMain' = Append(toMain, m)
    PROVE  /\ toMain' \in Seq(Answers)
           /\ \A i \in DOMAIN toMain' :
                toMain'[i] = m \/ (i \in DOMAIN toMain /\ toMain'[i] = toMain[i])
  OBVIOUS

LEMMA HandleStep ==
    ASSUME BridgeInv, NEW found \in BOOLEAN, Handle(found)
    PROVE  BridgeInv'
<1>0. BridgeTypes /\ ListingInv /\ LookInv /\ WaitInv /\ SessionInv  BY DEF BridgeInv
<1> DEFINE c == Head(toPage)
           p == ask[c].path
           kind == IF found THEN "ok" ELSE "error"
           note == IF found /\ ask[c].tool = "read" THEN marks[p] ELSE {}
           m == [kind |-> kind, call |-> c, note |-> note]
<1>1. /\ toPage # <<>> /\ toPage' = Tail(toPage)
      /\ marks' = IF found /\ ask[c].tool = "write" THEN [marks EXCEPT ![p] = @ \cup {c}] ELSE marks
      /\ toMain' = Append(toMain, m)
      /\ UNCHANGED <<registered, known, listings, listed, ask, ready, pendingCalls, page, savedMarks,
                     disposed, forgotten>>
  BY DEF Handle, resolverVars
<1>3. c \in Calls /\ ask[c].step # "idle"
  <2>1. 1 \in DOMAIN toPage  BY <1>0, <1>1, LenProperties, EmptySeq DEF BridgeTypes
  <2> QED  BY <1>0, <1>1, LenProperties, EmptySeq, <2>1 DEF SessionInv, BridgeTypes
<1>5. note \in SUBSET Calls /\ kind \in {"ok", "error"}  BY <1>0, <1>3 DEF BridgeTypes, Asks
<1>6. m \in Answers /\ m.kind = kind /\ m.call = c /\ m.note = note
  <2> HIDE DEF note, kind, c
  <2> QED  BY <1>3, <1>5 DEF Answers
<1>7. /\ kind = "ok" /\ ask[c].tool = "write" => c \in marks'[p]
      /\ kind = "ok" /\ ask[c].tool = "read" => note = marks[p]
      /\ marks' \in [Paths -> SUBSET Calls]
      /\ \A q \in Paths : marks[q] \subseteq marks'[q]  BY <1>0, <1>1, <1>3 DEF BridgeTypes, Asks
<1> HIDE DEF m, note, kind, p, c
<1>9. /\ toPage' \in Seq(Calls)
      /\ \A i \in DOMAIN toPage' : i + 1 \in DOMAIN toPage /\ toPage'[i] = toPage[i + 1]
  BY <1>1, <1>0, LenProperties, EmptySeq DEF BridgeTypes
<1>10. BridgeTypes'  BY <1>0, <1>1, <1>7, <1>6, AnswerSent, <1>9 DEF BridgeTypes
<1>11. ListingInv'  BY <1>0, <1>1, ListingFrame
<1>12. LookInv'  BY <1>0, <1>1, LookFrame
<1>13. WaitInv'  BY <1>0, <1>1 DEF WaitInv
<1>14. SessionInv'
  <2>1. ASSUME NEW d \in Calls
        PROVE  /\ ask[d].step = "ok" /\ ask[d].tool = "write" => d \in marks'[ask[d].path] \cup forgotten
               /\ ask[d].step = "ok" => ask[d].must \subseteq forgotten
               /\ ask[d].must \subseteq marks'[ask[d].path] \cup forgotten
               /\ ask[d].tool = "write" => ask[d].must = {}  BY <1>0, <1>7 DEF SessionInv, BridgeTypes, Asks
  <2>3. ASSUME NEW i \in DOMAIN toMain', toMain'[i].kind = "ok"
        PROVE  LET d == toMain'[i].call IN
               /\ ask[d].step # "idle"
               /\ ask[d].tool = "write" => d \in marks'[ask[d].path] \cup forgotten
               /\ ask[d].must \subseteq toMain'[i].note \cup forgotten
    <3>1. CASE toMain'[i] = m
      <4>1. ask[c].must \subseteq note \cup forgotten
        <5>1. CASE ask[c].tool = "write"  BY <2>1, <1>3, <5>1
        <5>2. CASE ask[c].tool = "read"
          <6>2. ask[c].must \subseteq marks[p] \cup forgotten  BY <1>0, <1>3 DEF SessionInv, p
          <6> QED  BY <1>6, <1>7, <2>3, <3>1, <5>2, <6>2
        <5> QED  BY <1>0, <1>3, <5>1, <5>2 DEF BridgeTypes, Asks
      <4>2. ask[c].tool = "write" => c \in marks'[ask[c].path] \cup forgotten
        BY <1>6, <1>7, <2>3, <3>1 DEF p
      <4> QED  BY <1>3, <1>6, <3>1, <4>1, <4>2
    <3>2. CASE i \in DOMAIN toMain /\ toMain'[i] = toMain[i]
      <4> DEFINE d == toMain[i].call
      <4>2. d \in Calls  BY <2>3, <3>2, <1>0 DEF Answers, BridgeTypes
      <4> HIDE DEF d
      <4>4. marks[ask[d].path] \subseteq marks'[ask[d].path]
        BY <1>0, <1>7, <4>2 DEF BridgeTypes, Asks
      <4> QED  BY <3>2, <1>0, <2>3, <4>4 DEF d, SessionInv
    <3> QED  BY <1>0, <1>1, <1>6, AnswerSent, <3>1, <3>2 DEF BridgeTypes
  <2> QED  BY <1>1, <2>1, <1>0, <1>9, <2>3 DEF SessionInv
<1> QED  BY <1>10, <1>11, <1>12, <1>13, <1>14 DEF BridgeInv

LEMMA MainHearsStep ==
    ASSUME BridgeInv, MainHears
    PROVE  BridgeInv'
<1>0. BridgeTypes /\ ListingInv /\ LookInv /\ WaitInv /\ SessionInv  BY DEF BridgeInv
<1> DEFINE m == Head(toMain)
<1>1. /\ toMain # <<>> /\ ~disposed /\ toMain' = Tail(toMain)
      /\ UNCHANGED <<registered, known, listings, listed, toPage, page, marks, savedMarks, disposed,
                     forgotten>>
  BY DEF MainHears, resolverVars
<1>4. /\ toMain' \in Seq(Answers)
      /\ \A i \in DOMAIN toMain' : \E j \in DOMAIN toMain : toMain'[i] = toMain[j]
  BY <1>1, <1>0, LenProperties, EmptySeq DEF BridgeTypes
<1>5. toPage \in Seq(Calls) /\ pendingCalls \subseteq Calls /\ ask \in [Calls -> Asks]
  BY <1>0 DEF BridgeTypes
<1>7. CASE UNCHANGED <<ask, pendingCalls>>
  <2>1. BridgeTypes'  BY <1>0, <1>1, <1>4, <1>7 DEF BridgeTypes
  <2>2. ListingInv'  BY <1>0, <1>1, ListingFrame
  <2>3. LookInv'  BY <1>0, <1>1, <1>7, LookFrame
  <2>4. WaitInv'  BY <1>0, <1>1, <1>7 DEF WaitInv
  <2>5. SessionInv'  BY <1>0, <1>1, <1>4, <1>7, SessionFrame
  <2> QED  BY <2>1, <2>2, <2>3, <2>4, <2>5 DEF BridgeInv
<1>8. CASE RejectCalls(pendingCalls)
  BY <1>1, <1>4, <1>5, <1>8, RejectStep
<1>9. CASE /\ m.kind \in {"ok", "error"} /\ m.call \in pendingCalls
           /\ ask' = [ask EXCEPT ![m.call] = Replied(@, m)]
           /\ pendingCalls' = pendingCalls \ {m.call}
  <2> DEFINE c == m.call
             a == Replied(ask[c], m)
  <2>1. c \in Calls /\ ask[c].step = "sent" /\ ask[c] \in Asks
    BY <1>0, <1>5, <1>9 DEF WaitInv
  <2>2. ask' = [ask EXCEPT ![c] = a]  BY <1>9
  <2>3. /\ a \in Asks /\ a.tool = ask[c].tool /\ a.path = ask[c].path /\ a.there = ask[c].there
        /\ a.step = (IF m.kind = "ok" THEN "ok" ELSE "error")
        /\ a.must = (IF m.kind = "ok" THEN ask[c].must \ m.note ELSE {})
        /\ m.kind # "ok" => a.again = FALSE
        /\ m.kind = "ok" => a.again = ask[c].again
    <3>1. CASE m.kind = "ok"  BY <2>1, <3>1 DEF Asks, Replied
    <3>2. CASE m.kind # "ok"  BY <2>1, <3>2, FailedTyped DEF Replied
    <3> QED  BY <3>1, <3>2
  <2> HIDE DEF a
  <2>4. /\ ask' \in [Calls -> Asks] /\ ask'[c] = a
        /\ \A d \in Calls \ {c} : ask'[d] = ask[d]
    BY <1>5, <2>1, <2>2, <2>3, CallChanges
  <2>5. BridgeTypes'  BY <1>0, <1>1, <1>4, <1>9, <2>4 DEF BridgeTypes
  <2>6. ListingInv'  BY <1>0, <1>1, ListingFrame
  <2>7. LookInv'
    <3> SUFFICES ASSUME NEW d \in Calls PROVE Finds(ask[d])'  BY DEF LookInv
    <3>1. Finds(ask[d])  BY <1>0 DEF LookInv
    <3>2. CASE d = c
      <4>1. ask'[d] = a  BY <2>4, <3>2
      <4>2. a.step \notin {"no_worktree", "refresh"}  BY <2>3
      <4> QED  BY <1>1, <2>3, <3>1, <3>2, <4>1, <4>2 DEF Finds
    <3>3. CASE d # c  BY <1>1, <2>4, <3>1, <3>3 DEF Finds
    <3> QED  BY <3>2, <3>3
  <2>8. WaitInv'  BY <1>0, <1>1, <1>9, <2>3, <2>4 DEF WaitInv
  <2>9. SessionInv'
    <3>1. m.kind = "ok" =>
            /\ ask[c].tool = "write" => c \in marks[ask[c].path] \cup forgotten
            /\ ask[c].must \subseteq m.note \cup forgotten
      BY <1>0, <1>1, LenProperties, EmptySeq DEF SessionInv, BridgeTypes
    <3>2. ASSUME NEW d \in Calls
          PROVE  /\ ask'[d].step = "ok" /\ ask'[d].tool = "write" => d \in marks[ask'[d].path] \cup forgotten
                 /\ ask'[d].step = "ok" => ask'[d].must \subseteq forgotten
                 /\ ask'[d].must \subseteq marks[ask'[d].path] \cup forgotten
                 /\ ask'[d].tool = "write" => ask'[d].must = {}
      <4>1. CASE d = c
        <5>1. ask'[d] = a  BY <2>4, <4>1
        <5>2. /\ ask[c].must \subseteq marks[ask[c].path] \cup forgotten
              /\ ask[c].tool = "write" => ask[c].must = {}
          BY <1>0, <2>1 DEF SessionInv
        <5> QED  BY <2>3, <3>1, <4>1, <5>1, <5>2
      <4>2. CASE d # c  BY <1>0, <2>4, <4>2 DEF SessionInv
      <4> QED  BY <4>1, <4>2
    <3>5. ASSUME NEW i \in DOMAIN toMain', toMain'[i].kind = "ok"
          PROVE  LET d == toMain'[i].call IN
                 /\ ask'[d].step # "idle"
                 /\ ask'[d].tool = "write" => d \in marks[ask'[d].path] \cup forgotten
                 /\ ask'[d].must \subseteq toMain'[i].note \cup forgotten
      <4> DEFINE d == toMain'[i].call
      <4>1. PICK j \in DOMAIN toMain : toMain'[i] = toMain[j]  BY <1>4
      <4>3. d \in Calls  BY <3>5, <4>1, <1>0, <1>1, LenProperties, EmptySeq DEF Answers, BridgeTypes
      <4>4. /\ ask[d].step # "idle"
            /\ ask[d].tool = "write" => d \in marks[ask[d].path] \cup forgotten
            /\ ask[d].must \subseteq toMain'[i].note \cup forgotten
        BY <1>0, <3>5, <4>1 DEF SessionInv
      <4> HIDE DEF d
      <4>5. /\ ask'[d].step # "idle"
            /\ ask'[d].tool = "write" => d \in marks[ask'[d].path] \cup forgotten
            /\ ask'[d].must \subseteq toMain'[i].note \cup forgotten  BY <2>3, <2>4, <4>3, <4>4
      <4> QED  BY <4>5 DEF d
    <3> QED  BY <1>1, <3>2, <1>0, <2>3, <2>4, <1>5, <3>5 DEF SessionInv
  <2> QED  BY <2>5, <2>6, <2>7, <2>8, <2>9 DEF BridgeInv
<1> QED  BY <1>7, <1>8, <1>9 DEF MainHears, AllRejected

\* Steps of the window that answer nothing.
LEMMA WindowStep ==
    ASSUME BridgeInv,
           UNCHANGED <<registered, known, listings, listed, ask, pendingCalls, disposed>>,
           toPage' \in {toPage, <<>>},
           toMain' = toMain \/ \E k \in {"ready", "goodbye"} : toMain' = Append(toMain, [kind |-> k]),
           page' \in [up : BOOLEAN, nr : Nat \ {0}],
           marks' \in [Paths -> SUBSET Calls], savedMarks' \in [Paths -> SUBSET Calls],
           forgotten' \in SUBSET Calls, forgotten \subseteq forgotten',
           \A p \in Paths : marks[p] \cup forgotten \subseteq marks'[p] \cup forgotten'
    PROVE  BridgeInv'
<1>0. BridgeTypes /\ ListingInv /\ LookInv /\ WaitInv /\ SessionInv  BY DEF BridgeInv
<1>1. /\ toMain' \in Seq(Answers)
      /\ \A i \in DOMAIN toMain' :
            toMain'[i].kind = "ok" => \E j \in DOMAIN toMain : toMain'[i] = toMain[j]
  <2>2. ASSUME NEW k \in {"ready", "goodbye"}, toMain' = Append(toMain, [kind |-> k])
        PROVE  /\ toMain' \in Seq(Answers)
               /\ \A i \in DOMAIN toMain' :
                     toMain'[i].kind = "ok" => \E j \in DOMAIN toMain : toMain'[i] = toMain[j]
    BY <1>0, <2>2, AnswerSent DEF BridgeTypes, Answers
  <2> QED  BY <1>0, <2>2 DEF BridgeTypes
<1>2. /\ toPage' \in Seq(Calls)
      /\ \A i \in DOMAIN toPage' : \E j \in DOMAIN toPage : toPage'[i] = toPage[j]
  <2>3. CASE toPage' = toPage  BY <1>0, <2>3 DEF BridgeTypes
  <2>4. CASE toPage' = <<>>  BY EmptySeq, LenProperties, <2>4
  <2> QED  BY <2>3, <2>4
<1>3. BridgeTypes'  BY <1>0, <1>1, <1>2 DEF BridgeTypes
<1>4. ListingInv'  BY <1>0, ListingFrame
<1>5. LookInv'  BY <1>0, LookFrame
<1>6. WaitInv'  BY <1>0 DEF WaitInv
<1>7. SessionInv'  BY <1>0, <1>1, <1>2, SessionFrame
<1> QED  BY <1>3, <1>4, <1>5, <1>6, <1>7 DEF BridgeInv

LEMMA BridgesStep ==
    ASSUME Jumbled = FALSE, BridgeInv, [BridgesNext]_bridgeVars
    PROVE  BridgeInv'
<1>0. BridgeTypes  BY DEF BridgeInv
<1>1. ASSUME NEW c \in Calls, LookUp(c) PROVE BridgeInv'  BY <1>1, LookUpStep
<1>2. ASSUME NEW p \in Paths, NEW inside \in BOOLEAN, Register(p, inside) PROVE BridgeInv'
  BY <1>2, RegisterStep
<1>3. ASSUME NEW i \in DOMAIN listings, ListingEnds(i) PROVE BridgeInv'
  BY <1>3, ListingEndStep
<1>4. ASSUME NEW c \in Calls, NEW p \in Paths, NEW tool \in {"read", "write"}, Call(c, tool, p)
      PROVE  BridgeInv'
  BY <1>4, CallStep
<1>5. ASSUME NEW c \in Calls, BridgeTimeout(c) PROVE BridgeInv'
  BY <1>5, <1>0, RejectStep DEF BridgeTimeout, resolverVars, windowVars, BridgeTypes
<1>6. CASE PageIsUp  BY <1>0, <1>6, WindowStep DEF BridgeTypes, PageIsUp, resolverVars
<1>7. CASE SaveMarks  BY <1>0, <1>7, WindowStep DEF BridgeTypes, SaveMarks, resolverVars
<1>8. CASE MainHears  BY <1>8, MainHearsStep
<1>9. CASE Dispose  BY <1>9, EmptySeq, RejectStep DEF Dispose, AllRejected, resolverVars
<1>10. ASSUME NEW found \in BOOLEAN, Handle(found) PROVE BridgeInv'
  BY <1>10, HandleStep
<1>11. ASSUME NEW goodbye \in BOOLEAN, NewPage(goodbye) PROVE BridgeInv'
  <2>1. /\ page' = [up |-> FALSE, nr |-> page.nr + 1] /\ toPage' = <<>>
        /\ toMain' = toMain \/ toMain' = Append(toMain, [kind |-> "goodbye"])
        /\ marks' = savedMarks
        /\ forgotten' = forgotten \cup UNION {marks[p] \ savedMarks[p] : p \in Paths}
        /\ UNCHANGED <<registered, known, listings, listed, ask, pendingCalls, savedMarks, disposed>>
    BY <1>11 DEF NewPage, resolverVars
  <2>2. page' \in [up : BOOLEAN, nr : Nat \ {0}]  BY <2>1, <1>0 DEF BridgeTypes
  <2>3. forgotten' \in SUBSET Calls  BY <1>0, <2>1 DEF BridgeTypes
  <2>4. \A p \in Paths : marks[p] \cup forgotten \subseteq marks'[p] \cup forgotten'
    BY <2>1
  <2>5. marks' \in [Paths -> SUBSET Calls] /\ savedMarks' \in [Paths -> SUBSET Calls]
    BY <1>0, <2>1 DEF BridgeTypes
  <2> QED  BY <2>1, <2>2, <2>3, <2>4, <2>5, WindowStep
<1>12. CASE UNCHANGED bridgeVars  BY <1>0, <1>12, WindowStep DEF BridgeTypes, bridgeVars
<1> QED
  BY <1>1, <1>2, <1>3, <1>4, <1>5, <1>6, <1>7, <1>8, <1>9, <1>10, <1>11, <1>12
     DEF BridgesNext, WindowNext

LEMMA BridgeInvIsAnswered == BridgeInv => AgentsAreAnswered /\ BridgesTypeOK
<1> SUFFICES ASSUME BridgeInv PROVE AgentsAreAnswered /\ BridgesTypeOK  OBVIOUS
<1>0. BridgeTypes /\ ListingInv /\ LookInv /\ WaitInv /\ SessionInv  BY DEF BridgeInv
<1>4. BridgesTypeOK
  <2>1. \A i \in DOMAIN listings : listings[i] \in [nr : 1..MaxListings, saw : SUBSET Paths]
    <3>1. \A i \in DOMAIN listings : listings[i] \in ListingsOf  BY <1>0 DEF BridgeTypes
    <3> QED  BY <3>1 DEF ListingsOf
  <2> QED  BY <1>0, <2>1 DEF BridgesTypeOK, BridgeTypes, Asks, LookingUp
<1> QED
  BY <1>0, <1>4 DEF AgentsAreAnswered, WaitInv, SomebodyAnswers, SessionInv, OkIsInSession, ReadIsFresh,
     LookInv, Finds, KnownIsFound


-----------------------------------------------------------------------------
(* The install, the strip and the tour.                                      *)

ProviderRows == [known : BOOLEAN, available : BOOLEAN, installed : BOOLEAN, ticked : BOOLEAN]
ProviderLookups == [is : {"asked", "read"}, row : ProviderRows, awaited : BOOLEAN]
InstallJobs == [at : {"idle", "detect", "read", "write", "remove", "add", "readJson", "writeJson", "list"},
                i : Skills, override : {"none", "there"}, others : BOOLEAN, ok : BOOLEAN, blind : BOOLEAN]

SkillTypes ==
    /\ skills \in [Skills -> 0..3] /\ reg \in {"none", "old", "now"}
    /\ mcpJson \in [is : {"absent", "ok", "bad"}, others : BOOLEAN] /\ backup \in BOOLEAN
    /\ cli \in [kind : {"command", "file"}, found : BOOLEAN, override : {"none", "there"}, up : BOOLEAN]
    /\ installing \in InstallJobs
    /\ rows \in ProviderRows
    /\ lookups \in Seq(ProviderLookups)
    /\ Len(lookups) <= MaxListing + 1
    /\ installing.at # "list" => Len(lookups) <= MaxListing
    /\ outcome \in {"none", "ok", "failed"}
    /\ touched \in BOOLEAN /\ theirs \in BOOLEAN

InstalledAll == reg = "now" /\ \A s \in Skills : skills[s] >= Bundled

\* How far the install has come, as long as nobody else changed anything.
ProgressInv ==
    touched = FALSE =>
        /\ installing.at = "detect" => installing.i = 1
        /\ installing.at = "write" /\ installing.i = 2 => skills[1] >= Bundled
        /\ installing.at = "read" /\ installing.i = 2 => skills[1] >= Bundled
        /\ installing.at \in {"remove", "add", "readJson", "writeJson"} =>
             \A s \in Skills : skills[s] >= Bundled
        /\ installing.at = "list" /\ installing.ok = TRUE => InstalledAll
        /\ installing.at = "idle" /\ outcome = "ok" => InstalledAll

\* Whoever waits for a listing waits for one.
AwaitInv ==
    /\ \A i \in DOMAIN lookups : lookups[i].awaited = TRUE => installing.at = "list"
    /\ \A i, j \in DOMAIN lookups : lookups[i].awaited = TRUE /\ lookups[j].awaited = TRUE => i = j

\* What an install is about to write over is what it has read, if it could.
WriteInv == installing.at = "write" => installing.blind = TRUE \/ skills[installing.i] < Bundled

TheirsInv ==
    /\ TheirsAreKept
    /\ installing.at = "writeJson" => installing.others = mcpJson.others

StripInv ==
    /\ gap \subseteq Agents /\ dismissal \subseteq Agents
    /\ strip \in [on : BOOLEAN, known : BOOLEAN, sig : SUBSET Agents, mem : SUBSET Agents]
    /\ dismissal = silenced
    /\ strip.on = TRUE => strip.known = TRUE /\ strip.mem = dismissal

Tours == [up : BOOLEAN, seen : BOOLEAN, read : {"none", "asked", "some", "none yet"},
          checked : BOOLEAN, view : BOOLEAN, anchor : BOOLEAN, force : BOOLEAN,
          fresh : BOOLEAN, done : BOOLEAN, missed : BOOLEAN]

TourTypes == tour \in Tours /\ profile \in [seen : BOOLEAN, saved : BOOLEAN]

TourInv ==
    /\ tour.read # "none" => tour.up = TRUE /\ tour.checked = FALSE
    /\ tour.view = TRUE => tour.up = TRUE
    /\ tour.up = TRUE => tour.seen = profile.seen
    /\ tour.fresh = FALSE /\ tour.missed = FALSE => profile.saved = TRUE /\ tour.read # "none yet"
    /\ tour.fresh = FALSE /\ tour.missed = FALSE /\ tour.up = TRUE /\ tour.checked = TRUE => tour.seen = TRUE
    /\ tour.fresh = TRUE /\ profile.saved = TRUE =>
         profile.seen = TRUE \/ (tour.up = TRUE /\ tour.checked = TRUE /\ tour.read = "none")
    /\ tour.fresh = TRUE /\ tour.read = "some" => profile.seen = TRUE
    /\ profile.seen = TRUE => tour.done = TRUE \/ tour.fresh = FALSE

JobInv == SkillTypes /\ ProgressInv /\ AwaitInv

LEMMA InstallStart ==
    InstallInit => JobInv /\ WriteInv /\ TheirsInv /\ StripInv /\ TourTypes /\ TourInv
<1> SUFFICES ASSUME InstallInit
             PROVE  JobInv /\ WriteInv /\ TheirsInv /\ StripInv /\ TourTypes /\ TourInv
  OBVIOUS
<1>3. skills \in [Skills -> 0..3]  BY DEF InstallInit
<1>4. SkillTypes
  <2>1. cli \in [kind : {"command", "file"}, found : BOOLEAN, override : {"none", "there"}, up : BOOLEAN]
    BY DEF InstallInit
  <2>2. mcpJson \in [is : {"absent", "ok", "bad"}, others : BOOLEAN] /\ reg \in {"none", "old", "now"}
    BY DEF InstallInit
  <2>3. lookups \in Seq(ProviderLookups) /\ Len(lookups) <= MaxListing
    BY EmptySeq, LenProperties, ListingAssumption DEF InstallInit
  <2>4. installing \in InstallJobs /\ rows \in ProviderRows
    BY DEF InstallInit, NoRow, ProviderRows, NoJob, InstallJobs, Skills
  <2>5. Len(lookups) <= MaxListing + 1  BY <2>3, EmptySeq, LenProperties, ListingAssumption DEF InstallInit
  <2> QED  BY <1>3, <2>1, <2>2, <2>3, <2>4, <2>5 DEF InstallInit, SkillTypes
<1>5. ProgressInv /\ WriteInv /\ TheirsInv
  BY DEF InstallInit, ProgressInv, WriteInv, TheirsInv, TheirsAreKept, NoRow, ProviderRows, NoJob, InstallJobs,
     Skills
<1>6. AwaitInv  BY EmptySeq, LenProperties DEF InstallInit, AwaitInv
<1>7. StripInv  BY DEF InstallInit, StripInv
<1>8. TourTypes
  BY DEF InstallInit, TourTypes, Tours
<1>9. TourInv
  <2>1. PICK s \in BOOLEAN :
          /\ profile = [seen |-> FALSE, saved |-> s]
          /\ tour = [up |-> FALSE, seen |-> FALSE, read |-> "none", checked |-> FALSE, view |-> FALSE,
                    anchor |-> FALSE, force |-> FALSE, fresh |-> ~s, done |-> FALSE, missed |-> FALSE]
    BY DEF InstallInit
  <2> QED  BY <2>1 DEF TourInv
<1> QED  BY <1>4, <1>5, <1>6, <1>7, <1>8, <1>9 DEF JobInv

-----------------------------------------------------------------------------
\* A behaviour is about one thing; a step about another leaves it alone.
SkillNext ==
    \/ RefreshProviders \/ Locate \/ BeginInstall
    \/ \E i \in 1..Len(lookups) : ListingReads(i) \/ ListingArrives(i)
    \/ \E ok \in BOOLEAN : Detect(ok) \/ WriteSkill(ok) \/ RemoveServer(ok) \/ AddServer(ok)
                          \/ ReadSkill(ok) \/ ReadMcpJson(ok) \/ WriteMcpJson(ok)
    \/ \E s \in Skills : \E v \in {0, 3} : HandOnSkill(s, v)
    \/ \E is \in {"ok", "bad"} : HandOnJson(is)
    \/ HandOnCli

StripNext == \/ StripLaunch \/ StripMounts \/ StripHears \/ StripDismissed
             \/ \E g \in SUBSET Agents : GapChanges(g)

TourNext == \/ \E got \in {"fine", "unread", "bad"} : TourRead(got)
            \/ TourLaunch \/ TourMarked \/ TourMeasured \/ WorkspaceSaved \/ TourFinished
            \/ ReplayTour \/ TourLeft
            \/ \E anchor \in BOOLEAN : TourView(anchor)

LEMMA InstallSteps ==
    ASSUME [InstallNext]_installVars
    PROVE  /\ SkillNext \/ UNCHANGED skillVars
           /\ StripNext \/ UNCHANGED stripVars
           /\ TourNext \/ UNCHANGED tourVars
<1>1. CASE SkillNext
  BY <1>1 DEF SkillNext, RefreshProviders, Locate, BeginInstall, ReadSkill, ReadMcpJson, ListingReads,
     ListingArrives, Detect, WriteSkill, RemoveServer, AddServer, WriteMcpJson, HandOnSkill, HandOnJson,
     HandOnCli, Hand, InstallFrame, LookupFrame
<1>2. CASE StripNext  BY <1>2 DEF StripNext, StripLaunch, StripMounts, StripHears, StripDismissed, GapChanges
<1>3. CASE TourNext
  BY <1>3 DEF TourNext, TourLaunch, TourRead, TourMarked, TourMeasured, WorkspaceSaved, TourFinished,
     ReplayTour, TourLeft, TourView
<1>4. CASE UNCHANGED installVars
  BY <1>4 DEF installVars
<1> QED  BY <1>1, <1>2, <1>3, <1>4 DEF InstallNext, SkillNext, StripNext, TourNext

-----------------------------------------------------------------------------
LEMMA StripStep ==
    ASSUME Early = FALSE, StripInv, [InstallNext]_installVars
    PROVE  StripInv'
<1>0. /\ gap \subseteq Agents /\ dismissal \subseteq Agents /\ dismissal = silenced
      /\ strip \in [on : BOOLEAN, known : BOOLEAN, sig : SUBSET Agents, mem : SUBSET Agents]
      /\ strip.on = TRUE => strip.known = TRUE /\ strip.mem = dismissal
  BY DEF StripInv
<1>1. CASE StripLaunch  BY <1>0, <1>1 DEF StripLaunch, StripInv
<1>2. CASE StripMounts
  <2> DEFINE st == [strip EXCEPT !.on = TRUE, !.mem = dismissal]
  <2>1. /\ st \in [on : BOOLEAN, known : BOOLEAN, sig : SUBSET Agents, mem : SUBSET Agents]
        /\ st.on = TRUE /\ st.known = strip.known /\ st.sig = strip.sig /\ st.mem = dismissal
    BY <1>0
  <2> HIDE DEF st
  <2>3. CASE st.sig = {}  BY <1>0, <2>1, <1>2, <2>3 DEF StripInv, StripRendered, StripMounts
  <2>4. CASE st.sig # {}  BY <1>0, <2>1, <1>2, <2>4 DEF StripInv, StripRendered, StripMounts
  <2> QED  BY <2>3, <2>4
<1>3. CASE StripHears
  <2> DEFINE st == [strip EXCEPT !.known = TRUE, !.sig = gap]
  <2>1. /\ st \in [on : BOOLEAN, known : BOOLEAN, sig : SUBSET Agents, mem : SUBSET Agents]
        /\ st.on = strip.on /\ st.known = TRUE /\ st.sig = gap /\ st.mem = strip.mem
    BY <1>0
  <2> HIDE DEF st
  <2>3. CASE st.on /\ st.sig = {}  BY <1>0, <2>1, <1>3, <2>3 DEF StripInv, StripRendered, StripHears
  <2>4. CASE ~(st.on /\ st.sig = {})  BY <1>0, <2>1, <1>3, <2>4 DEF StripInv, StripRendered, StripHears
  <2> QED  BY <2>3, <2>4
<1>4. CASE StripDismissed  BY <1>0, <1>4 DEF StripDismissed, StripShows, StripInv
<1>5. ASSUME NEW g \in SUBSET Agents, GapChanges(g) PROVE StripInv'
  BY <1>0, <1>5 DEF GapChanges, StripInv
<1>6. CASE UNCHANGED stripVars  BY <1>0, <1>6 DEF stripVars, StripInv
<1> QED  BY <1>1, <1>2, <1>3, <1>4, <1>5, <1>6, InstallSteps DEF StripNext

LEMMA StripInvHolds == StripInv => DismissalHolds
  BY DEF StripInv, DismissalHolds, StripShows

-----------------------------------------------------------------------------
LEMMA TourStep ==
    ASSUME Interrupts = FALSE, TourTypes, TourInv, [InstallNext]_installVars
    PROVE  TourTypes' /\ TourInv'
<1>0. tour \in Tours /\ profile \in [seen : BOOLEAN, saved : BOOLEAN]  BY DEF TourTypes
<1>1. CASE TourLaunch  BY <1>0, <1>1 DEF TourInv, TourLaunch, Tours, TourTypes
<1>2. ASSUME NEW got \in {"fine", "unread", "bad"}, TourRead(got) PROVE TourTypes' /\ TourInv'
  <2>1. /\ tour' = [tour EXCEPT !.read = IF got = "fine" /\ profile.saved THEN "some" ELSE "none yet",
                                !.missed = tour.missed \/ got # "fine"]
        /\ profile' = [profile EXCEPT !.saved = profile.saved /\ got # "bad"]
        /\ tour.read = "asked"
    BY <1>2 DEF TourRead
  <2> QED  BY <1>0, <2>1 DEF TourInv, TourTypes, Tours
<1>3. CASE TourMarked
  <2>1. /\ tour.read \in {"some", "none yet"}
        /\ profile' = [profile EXCEPT !.seen = @ \/ Retro]
        /\ tour' = [tour EXCEPT !.read = "none", !.checked = TRUE, !.seen = @ \/ Retro]
    BY <1>3 DEF TourMarked
  <2>4. TourTypes'  BY <1>0, <2>1 DEF TourTypes, Tours, Retro
  <2>5. /\ tour'.read = "none" /\ tour'.checked = TRUE /\ tour'.view = tour.view /\ tour'.seen = (tour.seen \/ Retro)
        /\ tour'.up = tour.up /\ tour'.fresh = tour.fresh /\ tour'.done = tour.done
        /\ tour'.missed = tour.missed /\ profile'.seen = (profile.seen \/ Retro) /\ profile'.saved = profile.saved
    BY <1>0, <2>1 DEF Tours
  <2>6. tour.up = TRUE /\ tour.seen = profile.seen  BY <2>1 DEF TourInv
  <2>7. tour.fresh = FALSE /\ tour.missed = FALSE => tour'.seen = TRUE  BY <2>1, <1>0, <2>5, <2>6 DEF TourInv, Retro, Tours
  <2>8. profile'.seen = TRUE => tour.done = TRUE \/ tour.fresh = FALSE
    <3>1. CASE Retro  BY <1>0, <3>1 DEF TourInv, Retro, Tours
    <3>2. CASE ~Retro  BY <1>0, <2>5, <3>2 DEF TourInv, Tours, Retro
    <3> QED  BY <3>1, <3>2
  <2>9. tour'.seen = profile'.seen  BY <2>5, <2>6
  <2> QED  BY <2>4, <2>5, <2>6, <2>7, <2>8, <2>9 DEF TourInv
<1>4. CASE TourMeasured  BY <1>4, <1>0 DEF TourInv, TourMeasured, TourTypes, Tours
<1>5. CASE WorkspaceSaved  BY <1>0, <1>5 DEF TourInv, WorkspaceSaved, Tours, TourTypes
<1>6. CASE TourFinished  BY <1>0, <1>6 DEF TourInv, TourTypes, Tours, TourFinished
<1>7. CASE ReplayTour  BY <1>7, <1>0 DEF TourInv, ReplayTour, TourTypes, Tours
<1>8. CASE TourLeft  BY <1>0, <1>8 DEF TourInv, TourLeft, Tours, TourTypes
<1>9. ASSUME NEW anchor \in BOOLEAN, TourView(anchor) PROVE TourTypes' /\ TourInv'
  <2> DEFINE an == ~tour.view /\ anchor
  <2> HIDE DEF an
  <2> QED  BY <1>0, <1>9 DEF TourInv, TourView, Tours, TourTypes
<1>10. CASE UNCHANGED tourVars
  BY <1>10 DEF tourVars, TourTypes, TourInv
<1> QED
  BY <1>1, <1>2, <1>3, <1>4, <1>5, <1>6, <1>7, <1>8, <1>9, <1>10, InstallSteps DEF TourNext

LEMMA TourInvIsFair == TourTypes /\ TourInv => TourIsFair
<1> SUFFICES ASSUME TourTypes, TourInv PROVE TourIsFair  OBVIOUS
<1> QED  BY DEF TourIsFair, TourInv, TourTypes, Tours, TourVisible

-----------------------------------------------------------------------------
\* One lookup more, and one less.
LEMMA LookupAdded ==
    ASSUME lookups \in Seq(ProviderLookups), NEW l \in ProviderLookups, lookups' = Append(lookups, l)
    PROVE  /\ lookups' \in Seq(ProviderLookups)
           /\ Len(lookups) \in Nat /\ Len(lookups') = Len(lookups) + 1
           /\ \A i \in DOMAIN lookups' :
                \/ i \in DOMAIN lookups /\ lookups'[i] = lookups[i]
                \/ i = Len(lookups) + 1 /\ lookups'[i] = l
  BY AppendProperties, LenProperties

LEMMA LookupGone ==
    ASSUME lookups \in Seq(ProviderLookups), NEW i \in DOMAIN lookups, lookups' = RemoveAt(lookups, i)
    PROVE  /\ lookups' \in Seq(ProviderLookups)
           /\ Len(lookups) \in Nat \ {0} /\ Len(lookups') = Len(lookups) - 1
           /\ \A k \in DOMAIN lookups' :
                LET j == IF k < i THEN k ELSE k + 1
                IN j \in DOMAIN lookups /\ j # i /\ lookups'[k] = lookups[j]
<1> DEFINE n == Len(lookups)
           a == SubSeq(lookups, 1, i - 1)
           b == SubSeq(lookups, i + 1, n)
<1>1. n \in Nat /\ DOMAIN lookups = 1..n /\ i \in 1..n /\ lookups \in [1..n -> ProviderLookups]
  BY LenProperties
<1>2. /\ a \in Seq(ProviderLookups) /\ Len(a) = i - 1
      /\ \A k \in 1..(i - 1) : a[k] = lookups[k]
  <2>6. \A k \in 1..(i - 1) : 1 + k - 1 = k  BY <1>1
  <2> QED  BY <1>1, SubSeqProperties, <2>6
<1>3. /\ b \in Seq(ProviderLookups) /\ Len(b) = n - i
      /\ \A k \in 1..(n - i) : b[k] = lookups[i + k]
  <2>6. \A k \in 1..(n - i) : (i + 1) + k - 1 = i + k  BY <1>1
  <2> QED  BY <1>1, SubSeqProperties, <2>6
<1>4. lookups' = a \o b  BY DEF RemoveAt
<1> HIDE DEF a, b
<1>5. /\ a \o b \in Seq(ProviderLookups)
      /\ Len(a \o b) = Len(a) + Len(b)
      /\ \A k \in 1..(Len(a) + Len(b)) : (a \o b)[k] = IF k <= Len(a) THEN a[k] ELSE b[k - Len(a)]
  BY <1>2, <1>3, ConcatProperties
<1> HIDE DEF n
<1>6. /\ lookups' \in Seq(ProviderLookups) /\ Len(lookups') = n - 1
      /\ \A k \in 1..(n - 1) : lookups'[k] = IF k <= i - 1 THEN a[k] ELSE b[k - (i - 1)]
  <2>1. (i - 1) + (n - i) = n - 1  BY <1>1
  <2> QED  BY <1>2, <1>3, <1>4, <1>5, <2>1
<1>7. DOMAIN lookups' = 1..(n - 1)  BY <1>6, LenProperties
<1>8. ASSUME NEW k \in 1..(n - 1)
      PROVE  LET j == IF k < i THEN k ELSE k + 1
             IN j \in 1..n /\ j # i /\ lookups'[k] = lookups[j]
  <2>1. CASE k < i
    <3>1. k <= i - 1 /\ k \in 1..(i - 1)  BY <1>1, <2>1
    <3> QED  BY <1>1, <1>2, <1>6, <2>1, <3>1
  <2>2. CASE ~(k < i)
    <3>3. b[k - (i - 1)] = lookups[k + 1]  BY <1>3, <1>1, <2>2
    <3> QED  BY <1>1, <2>2, <1>6, <3>3
  <2> QED  BY <2>1, <2>2
<1>9. n = Len(lookups) /\ n # 0  BY <1>1 DEF n
<1> QED  BY <1>1, <1>6, <1>7, <1>8, <1>9

\* What the listings say is of no account to the install.
LEMMA UnansweredTyped ==
    /\ Unanswered \in ProviderLookups /\ Unanswered.awaited = FALSE
    /\ [Unanswered EXCEPT !.awaited = TRUE] \in ProviderLookups
    /\ [Unanswered EXCEPT !.awaited = TRUE].awaited = TRUE
  BY DEF Unanswered, NoRow, ProviderLookups, ProviderRows

LEMMA RowTyped ==
    ASSUME SkillTypes
    PROVE  Row \in ProviderRows
<1> QED  BY DEF Row, ProviderRows, SkillTypes, Detected

\* The install ends: somebody waits, at the end of the line.
LEMMA FinishStep ==
    ASSUME SkillTypes, AwaitInv, NEW ok \in BOOLEAN, Finishes(ok), installing.at # "list"
    PROVE  /\ installing' \in InstallJobs /\ installing'.at = "list" /\ installing'.ok = ok
           /\ lookups' \in Seq(ProviderLookups) /\ Len(lookups') <= MaxListing + 1
           /\ AwaitInv'
<1> DEFINE l == [Unanswered EXCEPT !.awaited = TRUE]
<1>1. l \in ProviderLookups /\ l.awaited = TRUE  BY UnansweredTyped
<1>2. installing' = [installing EXCEPT !.at = "list", !.ok = ok] /\ lookups' = Append(lookups, l)
  BY DEF Finishes
<1> HIDE DEF l
<1>5. Len(lookups') <= MaxListing + 1  BY <1>1, <1>2, LookupAdded, ListingAssumption DEF SkillTypes
<1>7. \A i \in DOMAIN lookups' : lookups'[i].awaited = TRUE => i = Len(lookups) + 1
  BY <1>1, <1>2, LookupAdded DEF AwaitInv, SkillTypes
<1> QED  BY <1>2, <1>1, LookupAdded, <1>5, <1>7 DEF AwaitInv, SkillTypes, InstallJobs

\* A step of the install that begins or ends no listing.
LEMMA WorkStep ==
    ASSUME SkillTypes, AwaitInv, installing.at # "list", UNCHANGED lookups,
           installing' \in InstallJobs
    PROVE  /\ lookups' \in Seq(ProviderLookups) /\ Len(lookups') <= MaxListing + 1
           /\ installing'.at # "list" => Len(lookups') <= MaxListing
           /\ AwaitInv'
<1> QED  BY DEF SkillTypes, AwaitInv

\* After the skill at hand comes the next one, or the server.
LEMMA OnwardsTyped ==
    ASSUME installing \in InstallJobs
    PROVE  /\ Onwards \in InstallJobs
           /\ Onwards.at \in {"read", "remove", "readJson"}
           /\ Onwards.at = "read" => installing.i = 1 /\ Onwards.i = 2
           /\ Onwards.at # "read" => installing.i = 2
<1>1. Cardinality(Skills) = 2
  <2>1. \A a, b \in Int : Cardinality(a..b) = IF a > b THEN 0 ELSE b - a + 1  BY FS_Interval
  <2>2. 1 \in Int /\ 2 \in Int /\ ~(1 > 2) /\ 2 - 1 + 1 = 2  OBVIOUS
  <2>3. Cardinality(1..2) = IF 1 > 2 THEN 0 ELSE 2 - 1 + 1  BY <2>1, <2>2, Zenon
  <2> QED  BY <2>2, <2>3 DEF Skills
<1>3. CASE installing.i = 1
  <2>2. Onwards = [installing EXCEPT !.at = "read", !.i = 2]  BY <1>1, <1>3 DEF Onwards
  <2>3. 2 \in Skills  BY DEF Skills
  <2> QED  BY <1>3, <2>2, <2>3 DEF InstallJobs
<1>4. CASE installing.i = 2  BY <1>4, <1>1 DEF InstallJobs, Onwards
<1> QED  BY <1>3, <1>4 DEF InstallJobs, Skills

LEMMA JobStep ==
    ASSUME JobInv, [InstallNext]_installVars
    PROVE  JobInv'
<1>0. /\ SkillTypes /\ ProgressInv /\ AwaitInv
      /\ installing \in InstallJobs /\ lookups \in Seq(ProviderLookups)
      /\ Len(lookups) \in Nat /\ DOMAIN lookups = 1..Len(lookups)  BY LenProperties DEF SkillTypes, JobInv
<1>1. ASSUME lookups' = Append(lookups, Unanswered), Len(lookups) < MaxListing,
             UNCHANGED <<skills, reg, mcpJson, backup, installing, rows, outcome, touched, theirs>>,
             cli' = cli \/ cli' = [cli EXCEPT !.override = "there"]
      PROVE  JobInv'
  <2>4. SkillTypes'  BY <1>0, <1>1, UnansweredTyped, LookupAdded, ListingAssumption DEF SkillTypes
  <2> QED  BY <2>4, <1>0, <1>1, UnansweredTyped, LookupAdded DEF JobInv, ProgressInv, InstalledAll, AwaitInv
<1>2. CASE RefreshProviders  BY <1>1, <1>2 DEF RefreshProviders, LookupFrame
<1>3. CASE Locate  BY <1>1, <1>3 DEF Locate, LookupFrame
<1>4. ASSUME NEW i \in 1..Len(lookups), ListingReads(i) PROVE JobInv'
  <2> DEFINE l == [lookups[i] EXCEPT !.is = "read", !.row = Row]
  <2>1. /\ lookups' = [lookups EXCEPT ![i] = l]
        /\ UNCHANGED <<skills, reg, mcpJson, backup, cli, installing, rows, outcome, touched, theirs>>
    BY <1>4, <1>0 DEF ListingReads, LookupFrame
  <2>2. lookups[i] \in ProviderLookups  BY <1>0
  <2>3. l \in ProviderLookups /\ l.awaited = lookups[i].awaited
    BY <1>0, <2>2, RowTyped DEF ProviderLookups
  <2> HIDE DEF l
  <2>7. AwaitInv'  BY <1>0, <2>1, <2>3, ExceptSeq, LenProperties DEF AwaitInv
  <2> QED  BY <1>0, <2>1, <2>3, ExceptSeq, <2>7 DEF JobInv, ProgressInv, InstalledAll, SkillTypes
<1>5. ASSUME NEW i \in 1..Len(lookups), ListingArrives(i) PROVE JobInv'
  <2>1. /\ lookups' = RemoveAt(lookups, i)
        /\ rows' = [lookups[i].row EXCEPT !.ticked = rows.ticked \/ lookups[i].row.available]
        /\ UNCHANGED <<skills, reg, mcpJson, backup, cli, touched, theirs>>
        /\ IF lookups[i].awaited
           THEN installing' = NoJob /\ outcome' = IF installing.ok THEN "ok" ELSE "failed"
           ELSE UNCHANGED <<installing, outcome>>
    BY <1>5 DEF ListingArrives, LookupFrame
  <2>2. lookups[i] \in ProviderLookups  BY <1>0
  <2>3. rows' \in ProviderRows  BY <2>1, <2>2, <1>0 DEF ProviderRows, SkillTypes, ProviderLookups
  <2>4. /\ lookups' \in Seq(ProviderLookups)
        /\ Len(lookups) \in Nat \ {0} /\ Len(lookups') = Len(lookups) - 1
        /\ \A k \in DOMAIN lookups' :
             LET j == IF k < i THEN k ELSE k + 1
             IN j \in DOMAIN lookups /\ j # i /\ lookups'[k] = lookups[j]
    BY <1>0, <2>1, LookupGone
  <2>6. NoJob \in InstallJobs /\ NoJob.at = "idle"  BY DEF NoJob, InstallJobs, Skills
  <2>7. lookups[i].awaited \in BOOLEAN /\ installing.ok \in BOOLEAN
    BY <1>0, <2>2 DEF ProviderLookups, InstallJobs
  <2>9. AwaitInv'
    <3>1. \A k, m \in DOMAIN lookups' :
             k # m => \E j, h \in DOMAIN lookups : /\ j # h /\ lookups'[k] = lookups[j]
                                                 /\ lookups'[m] = lookups[h]
      <4> SUFFICES ASSUME NEW k \in DOMAIN lookups', NEW m \in DOMAIN lookups', k # m
                   PROVE  \E j, h \in DOMAIN lookups : /\ j # h /\ lookups'[k] = lookups[j]
                                                     /\ lookups'[m] = lookups[h]
        OBVIOUS
      <4> DEFINE j == IF k < i THEN k ELSE k + 1
                 h == IF m < i THEN m ELSE m + 1
      <4> QED  BY <2>4, LenProperties
    <3>2. \A k, m \in DOMAIN lookups' :
             lookups'[k].awaited = TRUE /\ lookups'[m].awaited = TRUE => k = m
      BY <1>0, <3>1 DEF AwaitInv
    <3>3. ASSUME NEW k \in DOMAIN lookups', lookups'[k].awaited = TRUE
          PROVE  installing'.at = "list"
      <4>1. PICK j \in DOMAIN lookups : j # i /\ lookups'[k] = lookups[j]  BY <2>4
      <4>2. lookups[i].awaited = FALSE  BY <1>0, <2>7, <3>3, <4>1 DEF AwaitInv
      <4> QED  BY <1>0, <2>1, <3>3, <4>1, <4>2 DEF AwaitInv
    <3> QED  BY <3>2, <3>3 DEF AwaitInv
  <2>10. ProgressInv'
    <3>1. CASE lookups[i].awaited = TRUE
      <4>1. installing.at = "list"  BY <1>0, <3>1 DEF AwaitInv
      <4>2. installing' = NoJob /\ (outcome' = "ok" => installing.ok = TRUE)
        BY <2>1, <2>7, <3>1
      <4> QED  BY <1>0, <2>1, <2>6, <4>1, <4>2 DEF ProgressInv, InstalledAll
    <3>2. CASE lookups[i].awaited = FALSE
      BY <1>0, <2>1, <3>2 DEF ProgressInv, InstalledAll
    <3> QED  BY <2>7, <3>1, <3>2
  <2> QED  BY <1>0, <2>1, <2>3, <2>4, ListingAssumption, <2>6, <2>9, <2>10 DEF JobInv, SkillTypes
<1>6. CASE BeginInstall
  <2>1. /\ installing.at = "idle" /\ touched' = FALSE
        /\ UNCHANGED <<skills, reg, mcpJson, backup, cli, rows, outcome, theirs>>
    BY <1>6 DEF BeginInstall, InstallFrame
  <2>2. CASE cli.up
    <3>2. installing' \in InstallJobs /\ installing'.at = "detect" /\ installing'.i = 1
      <4>1. NoJob \in InstallJobs /\ NoJob.i = 1  BY DEF NoJob, InstallJobs, Skills
      <4>2. cli.override \in {"none", "there"}  BY <1>0 DEF SkillTypes
      <4> QED  BY <1>6, <2>2, <4>1, <4>2 DEF InstallJobs, BeginInstall
    <3>4. SkillTypes'  BY <1>0, <2>1, <3>2, <1>6, <2>2, WorkStep DEF SkillTypes, BeginInstall
    <3>5. ProgressInv'  BY <3>2 DEF ProgressInv
    <3> QED  BY <1>0, <2>1, <1>6, <2>2, <3>2, WorkStep, <3>4, <3>5 DEF JobInv, BeginInstall
  <2>3. CASE ~cli.up
    <3>3. SkillTypes'  BY <1>0, <2>1, <1>6, <2>3, FinishStep DEF SkillTypes, BeginInstall
    <3>4. ProgressInv'  BY <1>0, <2>1, <1>6, <2>3, FinishStep DEF ProgressInv, BeginInstall
    <3> QED  BY <1>0, <2>1, <1>6, <2>3, FinishStep, <3>3, <3>4 DEF JobInv, BeginInstall
  <2> QED  BY <2>2, <2>3
<1>7. ASSUME NEW ok \in BOOLEAN, Finishes(ok), installing.at # "list",
             UNCHANGED <<backup, cli, rows, outcome, touched, theirs>>,
             skills' = skills, reg' \in {"none", "old", "now"},
             mcpJson' \in [is : {"absent", "ok", "bad"}, others : BOOLEAN],
             ok = TRUE /\ touched = FALSE => reg' = "now" /\ \A s \in Skills : skills[s] >= Bundled
      PROVE  JobInv'
  <2>2. SkillTypes'  BY <1>0, <1>7, FinishStep DEF SkillTypes
  <2>3. ProgressInv'  BY <1>7, <1>0, FinishStep DEF ProgressInv, InstalledAll
  <2> QED  BY <1>0, <1>7, FinishStep, <2>2, <2>3 DEF JobInv
<1>8. ASSUME UNCHANGED <<lookups, cli, rows, outcome, touched, theirs>>,
             installing.at # "list", installing.at # "idle",
             installing' \in InstallJobs, installing'.at \notin {"list", "idle", "detect"},
             skills' \in [Skills -> 0..3], reg' \in {"none", "old", "now"},
             mcpJson' \in [is : {"absent", "ok", "bad"}, others : BOOLEAN], backup' \in BOOLEAN,
             touched = FALSE =>
               /\ installing'.at \in {"read", "write"} /\ installing'.i = 2 => skills'[1] >= Bundled
               /\ installing'.at \in {"remove", "add", "readJson", "writeJson"} =>
                    \A s \in Skills : skills'[s] >= Bundled
      PROVE  JobInv'
  <2>2. SkillTypes'  BY <1>0, <1>8, WorkStep DEF SkillTypes
  <2>3. ProgressInv'  BY <1>8 DEF ProgressInv
  <2> QED  BY <1>0, <1>8, WorkStep, <2>2, <2>3 DEF JobInv
<1>9. ASSUME NEW loaded \in BOOLEAN, Detect(loaded) PROVE JobInv'
  <2>1. /\ installing.at = "detect"
        /\ UNCHANGED <<skills, reg, mcpJson, backup, cli, touched, rows, outcome, theirs>>
    BY <1>9 DEF Detect, InstallFrame
  <2>2. CASE installing' = [installing EXCEPT !.at = "read"] /\ UNCHANGED lookups
    <3>1. installing' \in InstallJobs /\ installing'.at = "read" /\ installing'.i = installing.i
      BY <1>0, <2>2 DEF InstallJobs
    <3>3. /\ skills' \in [Skills -> 0..3] /\ reg' \in {"none", "old", "now"}
          /\ mcpJson' \in [is : {"absent", "ok", "bad"}, others : BOOLEAN] /\ backup' \in BOOLEAN
      BY <1>0, <2>1 DEF SkillTypes
    <3>4. installing'.at \notin {"list", "idle", "detect", "write", "remove", "add", "readJson", "writeJson"}
      BY <3>1
    <3>5. touched = FALSE => installing'.i # 2  BY <3>1, <1>0, <2>1 DEF ProgressInv
    <3>6. UNCHANGED <<lookups, cli, rows, outcome, touched, theirs>>  BY <2>1, <2>2
    <3> QED  BY <1>8, <2>1, <3>1, <3>3, <3>4, <3>5, <3>6
  <2>3. CASE Finishes(FALSE)  BY <1>0, <1>7, <2>1, <2>3 DEF SkillTypes
  <2> QED  BY <1>9, <2>2, <2>3 DEF Detect
<1>10. ASSUME NEW readable \in BOOLEAN, ReadSkill(readable) PROVE JobInv'
  <2>1. /\ installing.at = "read"
        /\ UNCHANGED <<skills, reg, mcpJson, backup, cli, touched, lookups, rows, outcome, theirs>>
        /\ installing' = IF ~readable \/ Writes(skills[installing.i])
                         THEN [installing EXCEPT !.at = "write", !.blind = ~readable] ELSE Onwards
    BY <1>10 DEF ReadSkill, InstallFrame
  <2>2. touched = FALSE /\ installing.i = 2 => skills[1] >= Bundled  BY <1>0, <2>1 DEF ProgressInv
  <2>4. CASE ~readable \/ Writes(skills[installing.i])
    <3>1. installing' \in InstallJobs /\ installing'.at = "write" /\ installing'.i = installing.i
      BY <1>0, <2>1, <2>4 DEF InstallJobs
    <3> QED  BY <1>0, <1>8, <2>1, <2>2, <3>1 DEF SkillTypes
  <2>5. CASE ~(~readable \/ Writes(skills[installing.i]))
    <3>1. installing' = Onwards /\ skills[installing.i] >= Bundled
      BY <2>1, <1>0, <2>5 DEF Writes, Bundled, SkillTypes, InstallJobs, Skills
    <3>2. /\ installing' \in InstallJobs /\ installing'.at \in {"read", "remove", "readJson"}
          /\ installing'.at = "read" => installing.i = 1 /\ installing'.i = 2
          /\ installing'.at # "read" => installing.i = 2
      BY <1>0, <3>1, OnwardsTyped
    <3>3. touched = FALSE /\ installing.i = 2 => \A s \in Skills : skills[s] >= Bundled
      BY <2>2, <1>0, <3>1 DEF SkillTypes, InstallJobs, Skills
    <3> QED  BY <1>0, <1>8, <2>1, <3>1, <3>2, <3>3 DEF SkillTypes
  <2> QED  BY <2>4, <2>5
<1>11. ASSUME NEW ok \in BOOLEAN, WriteSkill(ok) PROVE JobInv'
  <2>1. /\ installing.at = "write"
        /\ UNCHANGED <<reg, mcpJson, backup, cli, touched, rows, outcome, theirs>>
    BY <1>11 DEF WriteSkill, InstallFrame
  <2>2. CASE ok
    <3>1. skills' = [skills EXCEPT ![installing.i] = Bundled] /\ installing' = Onwards /\ UNCHANGED lookups
      BY <1>11, <2>2 DEF WriteSkill
    <3>3. /\ skills' \in [Skills -> 0..3] /\ skills'[installing.i] = Bundled
          /\ \A s \in Skills : s # installing.i => skills'[s] = skills[s]
      BY <3>1, <1>0 DEF SkillTypes, InstallJobs, Skills, Bundled
    <3>4. /\ installing' \in InstallJobs /\ installing'.at \in {"read", "remove", "readJson"}
          /\ installing'.at = "read" => installing.i = 1 /\ installing'.i = 2
          /\ installing'.at # "read" => installing.i = 2
      BY <1>0, <3>1, OnwardsTyped
    <3>6. touched = FALSE /\ installing.i = 2 => \A s \in Skills : skills'[s] >= Bundled
      BY <1>0, <2>1, <3>3 DEF ProgressInv, SkillTypes, InstallJobs, Skills, Bundled
    <3>7. installing.i = 1 => skills'[1] >= Bundled  BY <3>3 DEF Bundled
    <3> QED  BY <1>0, <1>8, <2>1, <3>1, <3>3, <3>4, <3>6, <3>7 DEF SkillTypes
  <2>3. CASE ~ok  BY <1>0, <1>7, <2>1, <1>11, <2>3 DEF SkillTypes, WriteSkill
  <2> QED  BY <2>2, <2>3
<1>12. ASSUME NEW ok \in BOOLEAN, RemoveServer(ok) PROVE JobInv'
  <2>1. /\ installing.at = "remove" /\ installing' = [installing EXCEPT !.at = "add"]
        /\ reg' = IF ok THEN "none" ELSE reg
        /\ UNCHANGED <<skills, mcpJson, backup, cli, touched, lookups, rows, outcome, theirs>>
    BY <1>12 DEF RemoveServer, InstallFrame
  <2>2. installing' \in InstallJobs /\ installing'.at = "add"  BY <1>0, <2>1 DEF InstallJobs
  <2>3. touched = FALSE => \A s \in Skills : skills[s] >= Bundled  BY <1>0, <2>1 DEF ProgressInv
  <2>4. reg' \in {"none", "old", "now"}  BY <1>0, <2>1 DEF SkillTypes
  <2> QED  BY <1>0, <1>8, <2>1, <2>2, <2>3, <2>4 DEF SkillTypes
<1>13. ASSUME NEW ok \in BOOLEAN, AddServer(ok) PROVE JobInv'
  <2>1. /\ installing.at = "add" /\ Finishes(ok)
        /\ reg' = IF ok THEN "now" ELSE reg
        /\ UNCHANGED <<skills, mcpJson, backup, cli, touched, rows, outcome, theirs>>
    BY <1>13 DEF AddServer, InstallFrame
  <2>2. touched = FALSE => \A s \in Skills : skills[s] >= Bundled  BY <1>0, <2>1 DEF ProgressInv
  <2>3. reg' \in {"none", "old", "now"}  BY <1>0, <2>1 DEF SkillTypes
  <2> QED  BY <1>0, <1>7, <2>1, <2>2, <2>3 DEF SkillTypes
<1>14. ASSUME NEW ok \in BOOLEAN, ReadMcpJson(ok) PROVE JobInv'
  <2>1. installing.at = "readJson" /\ UNCHANGED <<skills, cli, touched, rows, outcome, theirs>>
    BY <1>14 DEF ReadMcpJson, InstallFrame
  <2>5. touched = FALSE => \A s \in Skills : skills[s] >= Bundled  BY <1>0, <2>1 DEF ProgressInv
  <2>6. CASE Finishes(FALSE) /\ UNCHANGED <<mcpJson, backup, reg>>
    BY <1>0, <1>7, <2>1, <2>6 DEF SkillTypes
  <2>7. CASE ok = TRUE /\ mcpJson.is = "bad"
    <3>1. /\ mcpJson' = [is |-> "absent", others |-> FALSE] /\ reg' = "none"
          /\ backup' = (backup \/ mcpJson.others) /\ UNCHANGED lookups
          /\ installing' = [installing EXCEPT !.at = "writeJson", !.others = FALSE]
      BY <1>14, <2>7 DEF ReadMcpJson
    <3>2. (backup \/ mcpJson.others) \in BOOLEAN  BY <1>0 DEF SkillTypes
    <3>3. backup' \in BOOLEAN  BY <3>1, <3>2, Zenon
    <3>4. installing' \in InstallJobs /\ installing'.at = "writeJson"  BY <1>0, <3>1 DEF InstallJobs
    <3> QED  BY <1>0, <1>8, <2>1, <2>5, <3>1, <3>3, <3>4 DEF SkillTypes
  <2>8. CASE ok = TRUE /\ mcpJson.is # "bad"
    <3>1. /\ installing' = [installing EXCEPT !.at = "writeJson", !.others = mcpJson.others]
          /\ UNCHANGED <<mcpJson, backup, reg, lookups>>
      BY <1>14, <2>8 DEF ReadMcpJson
    <3>4. installing' \in InstallJobs /\ installing'.at = "writeJson"  BY <1>0, <3>1 DEF InstallJobs, SkillTypes
    <3> QED  BY <1>0, <1>8, <2>1, <2>5, <3>1, <3>4 DEF SkillTypes
  <2> QED  BY <1>14, <2>6, <2>7, <2>8 DEF ReadMcpJson
<1>15. ASSUME NEW ok \in BOOLEAN, WriteMcpJson(ok) PROVE JobInv'
  <2>1. /\ installing.at = "writeJson" /\ Finishes(ok)
        /\ IF ok THEN mcpJson' = [is |-> "ok", others |-> installing.others] /\ reg' = "now"
           ELSE UNCHANGED <<mcpJson, reg>>
        /\ UNCHANGED <<skills, backup, cli, touched, rows, outcome, theirs>>
    BY <1>15 DEF WriteMcpJson, InstallFrame
  <2>2. touched = FALSE => \A s \in Skills : skills[s] >= Bundled  BY <1>0, <2>1 DEF ProgressInv
  <2>4. /\ reg' \in {"none", "old", "now"} /\ (ok => reg' = "now")
        /\ mcpJson' \in [is : {"absent", "ok", "bad"}, others : BOOLEAN]
    BY <1>0, <2>1 DEF SkillTypes, InstallJobs
  <2> QED  BY <1>0, <1>7, <2>1, <2>2, <2>4 DEF SkillTypes
<1>16. ASSUME UNCHANGED <<reg, backup, installing, rows, lookups, outcome>>, touched' = TRUE,
              skills' \in [Skills -> 0..3], theirs' \in BOOLEAN,
              mcpJson' \in [is : {"absent", "ok", "bad"}, others : BOOLEAN],
              cli' \in [kind : {"command", "file"}, found : BOOLEAN, override : {"none", "there"}, up : BOOLEAN]
       PROVE  JobInv'  BY <1>0, <1>16 DEF JobInv, SkillTypes, ProgressInv, AwaitInv
<1>17. ASSUME NEW s \in Skills, NEW v \in {0, 3}, HandOnSkill(s, v) PROVE JobInv'
  BY <1>0, <1>16, <1>17 DEF SkillTypes, HandOnSkill, Hand
<1>18. ASSUME NEW is \in {"ok", "bad"}, HandOnJson(is) PROVE JobInv'
  BY <1>0, <1>16, <1>18 DEF HandOnJson, Hand, SkillTypes
<1>19. CASE HandOnCli  BY <1>0, <1>16, <1>19 DEF HandOnCli, Hand, SkillTypes
<1>20. CASE UNCHANGED skillVars
  BY <1>0, <1>20 DEF JobInv, skillVars, SkillTypes, ProgressInv, InstalledAll, AwaitInv
<1> QED
  BY <1>2, <1>3, <1>4, <1>5, <1>6, <1>9, <1>10, <1>11, <1>12, <1>13, <1>14, <1>15, <1>17, <1>18, <1>19,
     <1>20, InstallSteps DEF SkillNext

LEMMA JobInvIsInstalled == JobInv => OkIsInstalled /\ (StripInv /\ TourTypes => InstallTypeOK)
<1> QED  BY DEF JobInv, SkillTypes, StripInv, TourTypes, InstallTypeOK, ProgressInv, OkIsInstalled, InstalledAll

\* Whatever is written was older when it was read, if it was, and, with nobody in between,
\* still is.
LEMMA WriteStep ==
    ASSUME Meddles = FALSE, JobInv, WriteInv, TheirsInv, [InstallNext]_installVars
    PROVE  /\ WriteInv' /\ TheirsInv'
           /\ \A s \in Skills : skills'[s] < skills[s] =>
                skills'[s] = 0 \/ (installing.blind /\ s = installing.i)
<1>0. /\ installing \in InstallJobs /\ skills \in [Skills -> 0..3]
      /\ mcpJson \in [is : {"absent", "ok", "bad"}, others : BOOLEAN] /\ backup \in BOOLEAN
      /\ theirs \in BOOLEAN
  BY DEF JobInv, SkillTypes
<1> DEFINE Goal == /\ WriteInv' /\ TheirsInv'
                   /\ \A s \in Skills : skills'[s] < skills[s] =>
                        skills'[s] = 0 \/ (installing.blind /\ s = installing.i)
<1>1. ASSUME UNCHANGED <<skills, mcpJson, backup, theirs>>,
             installing' = installing \/ installing'.at \notin {"write", "writeJson"}
      PROVE  Goal  BY <1>1, <1>0 DEF WriteInv, TheirsInv, TheirsAreKept
<1>2. ASSUME NEW ok, Finishes(ok) PROVE installing'.at = "list"
  BY <1>0, <1>2 DEF Finishes, InstallJobs
<1>5. CASE \/ RefreshProviders \/ Locate \/ \E i \in 1..Len(lookups) : ListingReads(i)
  BY <1>1, <1>5 DEF RefreshProviders, Locate, ListingReads, LookupFrame
<1>6. ASSUME NEW i \in 1..Len(lookups), ListingArrives(i) PROVE Goal
  BY <1>1, <1>6 DEF ListingArrives, LookupFrame, NoJob
<1>7. CASE BeginInstall  BY <1>1, <1>7, <1>2 DEF BeginInstall, InstallFrame, NoJob
<1>8. ASSUME NEW loaded \in BOOLEAN, Detect(loaded) PROVE Goal
  BY <1>1, <1>8, <1>0, <1>2 DEF Detect, InstallFrame, InstallJobs
<1>9. ASSUME NEW readable \in BOOLEAN, ReadSkill(readable) PROVE Goal
  <2>2. CASE ~readable \/ Writes(skills[installing.i])
    <3>1. /\ UNCHANGED <<skills, mcpJson, backup, theirs>>
          /\ installing' = [installing EXCEPT !.at = "write", !.blind = ~readable]
      BY <1>9, <2>2 DEF ReadSkill, InstallFrame
    <3>2. installing'.at = "write" /\ installing'.i = installing.i /\ installing'.blind = ~readable
      BY <1>0, <3>1 DEF InstallJobs
    <3>3. ~readable \/ skills[installing.i] < Bundled
      BY <2>2 DEF Writes
    <3>4. WriteInv'  BY <3>1, <3>2, <3>3 DEF WriteInv
    <3>5. TheirsInv'  BY <3>1, <3>2 DEF TheirsInv, TheirsAreKept
    <3>6. \A s \in Skills : ~(skills'[s] < skills[s])  BY <1>0, <3>1
    <3> QED  BY <3>4, <3>5, <3>6
  <2>3. CASE ~(~readable \/ Writes(skills[installing.i]))  BY <1>1, <1>0, OnwardsTyped, <1>9, <2>3 DEF ReadSkill, InstallFrame
  <2> QED  BY <2>2, <2>3
<1>10. ASSUME NEW ok \in BOOLEAN, WriteSkill(ok) PROVE Goal
  <2>1. UNCHANGED <<mcpJson, backup, theirs>> /\ installing.at = "write"
    BY <1>10 DEF WriteSkill, InstallFrame
  <2>2. CASE ok
    <3>1. skills' = [skills EXCEPT ![installing.i] = Bundled] /\ installing' = Onwards
      BY <1>10, <2>2 DEF WriteSkill
    <3>5. \A s \in Skills : skills'[s] < skills[s] => installing.blind /\ s = installing.i  BY <1>0, <3>1, <2>1 DEF InstallJobs, Bundled, WriteInv
    <3> QED  BY <1>0, OnwardsTyped, <2>1, <3>1, <3>5 DEF WriteInv, TheirsInv, TheirsAreKept
  <2>3. CASE ~ok
    BY <1>1, <1>2, <1>10, <2>1, <2>3 DEF WriteSkill
  <2> QED  BY <2>2, <2>3
<1>11. ASSUME NEW ok \in BOOLEAN, RemoveServer(ok) PROVE Goal
  BY <1>1, <1>11, <1>0 DEF RemoveServer, InstallFrame, InstallJobs
<1>12. ASSUME NEW ok \in BOOLEAN, AddServer(ok) PROVE Goal  BY <1>1, <1>2, <1>12 DEF AddServer, InstallFrame
<1>13. ASSUME NEW ok \in BOOLEAN, ReadMcpJson(ok) PROVE Goal
  <2>1. UNCHANGED <<skills, theirs>> /\ mcpJson.others \in BOOLEAN
    BY <1>0, <1>13 DEF ReadMcpJson, InstallFrame
  <2>2. \A s \in Skills : ~(skills'[s] < skills[s])  BY <1>0, <2>1
  <2>3. CASE ok = TRUE /\ mcpJson.is = "bad"
    <3>1. /\ mcpJson' = [is |-> "absent", others |-> FALSE] /\ backup' = (backup \/ mcpJson.others)
          /\ installing' = [installing EXCEPT !.at = "writeJson", !.others = FALSE]
      BY <1>13, <2>3 DEF ReadMcpJson
    <3>2. installing'.at = "writeJson" /\ installing'.others = FALSE /\ mcpJson'.others = FALSE
      BY <1>0, <3>1 DEF InstallJobs
    <3> QED  BY <1>0, <2>1, <2>2, <3>1, <3>2 DEF WriteInv, TheirsInv, TheirsAreKept
  <2>4. CASE ok = TRUE /\ mcpJson.is # "bad"
    <3>2. installing'.at = "writeJson" /\ installing'.others = mcpJson.others
      BY <1>0, <1>13, <2>4 DEF InstallJobs, ReadMcpJson
    <3> QED  BY <2>1, <2>2, <1>13, <2>4, <3>2 DEF WriteInv, TheirsInv, TheirsAreKept, ReadMcpJson
  <2>5. CASE Finishes(FALSE) /\ UNCHANGED <<mcpJson, backup, reg>>  BY <1>1, <1>2, <2>1, <2>5
  <2> QED  BY <1>13, <2>3, <2>4, <2>5 DEF ReadMcpJson
<1>14. ASSUME NEW ok \in BOOLEAN, WriteMcpJson(ok) PROVE Goal
  BY <1>2, <1>14, <1>0 DEF WriteInv, TheirsInv, TheirsAreKept, WriteMcpJson, InstallFrame
<1>15. ASSUME NEW s \in Skills, NEW v \in {0, 3}, HandOnSkill(s, v) PROVE Goal
  BY <1>15, <1>0 DEF WriteInv, TheirsInv, TheirsAreKept, HandOnSkill, Hand
<1>16. ASSUME NEW is \in {"ok", "bad"}, HandOnJson(is) PROVE Goal
  <2>2. \A z \in Skills : ~(skills'[z] < skills[z])  BY <1>0, <1>16 DEF HandOnJson, Hand
  <2> QED  BY <1>16, <2>2 DEF WriteInv, TheirsInv, TheirsAreKept, HandOnJson, Hand
<1>17. CASE HandOnCli  BY <1>1, <1>17 DEF HandOnCli, Hand
<1>18. CASE UNCHANGED skillVars  BY <1>1, <1>18 DEF skillVars
<1> QED
  BY <1>5, <1>6, <1>7, <1>8, <1>9, <1>10, <1>11, <1>12, <1>13, <1>14, <1>15, <1>16, <1>17, <1>18,
     InstallSteps DEF SkillNext

-----------------------------------------------------------------------------
(* Insights: consent, the outbox, the worker and the wipe.                   *)

Commands == [kind : {"config", "event", "close"}, span : 0..MaxSpans]
Reports == [kind : {"status", "ack", "closed"}, span : 0..MaxSpans]

\* A worker is new until it spawned; its configuration comes first; it answers a close when
\* it has closed its store.
Orderly(w) ==
    /\ w.spawned = FALSE => w = NewWorker
    /\ \A i \in 1..Len(w.wire) : w.wire[i].kind = "config" => i = 1 /\ w.back = <<>>
    /\ \A i \in 1..Len(w.back) : w.back[i].kind = "closed" => w.db = "closed"

\* A worker that writes, and was not told to stop.
Clean(w) == w.db # "closed" /\ \A i \in 1..Len(w.wire) : w.wire[i].kind # "close"

\* Nothing on its way to a worker is older than a wipe.
Past(w, k) == \A i \in 1..Len(w.wire) : w.wire[i].kind = "event" => w.wire[i].span > k

\* A span is stored or the worker is told of it before it is told to close.
Tells(w, s, n) ==
    \/ n \in s
    \/ /\ w.db # "closed"
       /\ \E i \in 1..Len(w.wire) :
            /\ w.wire[i].kind = "event" /\ w.wire[i].span = n
            /\ \A j \in 1..Len(w.wire) : j < i => w.wire[j].kind # "close"

LinkInv == worker # NoWorker => Orderly(worker) /\ (worker.spawned = TRUE => pending = 0)

ToldInv == worker # NoWorker /\ worker.spawned = TRUE /\ job \in {"none", "drain"} =>
               \A n \in outbox : Tells(worker, store, n)

\* What a transition under way has switched.
AwayInv ==
    /\ consent.wiping = TRUE <=> job \in {"wipe", "rm"}
    /\ consent.wiping = TRUE => outbox = {} /\ consent.armed = FALSE
    /\ job = "drain" => consent.enabled = FALSE /\ consent.armed = FALSE
    /\ consent.armed = TRUE => consent.enabled = TRUE
    /\ job = "rm" => worker = NoWorker
    /\ job # "wipe" /\ worker = NoWorker => pending = 0

\* Between two transitions.
RestInv == job = "none" =>
    /\ worker # NoWorker /\ consent.enabled = FALSE => consent.drained = TRUE
    /\ worker # NoWorker /\ consent.enabled = TRUE => Clean(worker) /\ pending = 0
    /\ queue = <<>> /\ consent.enabled = TRUE =>
         consent.armed = TRUE /\ (worker = NoWorker => consent.reforks = MaxBoots)
    /\ queue = <<>> /\ consent.enabled = FALSE =>
         worker = NoWorker /\ consent.armed = FALSE /\ outbox = {}

\* What was wiped is gone.
GoneInv ==
    /\ \A n \in store \cup outbox : n > wiped
    /\ worker # NoWorker => Past(worker, wiped)

InsightsInv == InsightsTypeOK /\ LinkInv /\ ToldInv /\ AwayInv /\ RestInv /\ GoneInv

-----------------------------------------------------------------------------
\* The fields of a worker, the messages on its way among them.
LEMMA WorkerIs ==
    ASSUME NEW w \in Workers
    PROVE  /\ w # NoWorker /\ w.spawned \in BOOLEAN /\ w.db \in {"unopened", "open", "closed"}
           /\ w.wire \in Seq(Commands) /\ Len(w.wire) \in Nat /\ DOMAIN w.wire = 1..Len(w.wire)
           /\ w.back \in Seq(Reports) /\ Len(w.back) \in Nat /\ DOMAIN w.back = 1..Len(w.back)
<1>1. w.wire \in Seq(Commands) /\ w.back \in Seq(Reports)  BY DEF Workers, Commands, Reports
<1>2. w # NoWorker  BY InsightsAssumption
<1> QED  BY <1>1, <1>2, LenProperties DEF Workers

\* A worker that was forked: nothing is on its way.
LEMMA NewWorkerIs ==
    /\ NewWorker \in Workers /\ NewWorker # NoWorker /\ NewWorker.spawned = FALSE
    /\ NewWorker.wire = <<>> /\ NewWorker.back = <<>> /\ NewWorker.db = "unopened"
    /\ Len(NewWorker.wire) = 0 /\ Len(NewWorker.back) = 0
    /\ Orderly(NewWorker) /\ Clean(NewWorker) /\ \A k : Past(NewWorker, k)
<1>1. <<>> \in Seq(Commands) /\ <<>> \in Seq(Reports) /\ Len(<<>>) = 0  BY EmptySeq
<1>2. NewWorker \in Workers  BY <1>1 DEF NewWorker, Workers, Commands, Reports
<1>3. /\ NewWorker.spawned = FALSE /\ NewWorker.wire = <<>> /\ NewWorker.back = <<>>
      /\ NewWorker.db = "unopened"
  BY DEF NewWorker
<1> QED  BY <1>1, <1>2, <1>3, WorkerIs DEF Orderly, Clean, Past

\* A message to a worker that spawned.
LEMMA SentIs ==
    ASSUME NEW w \in Workers, w.spawned = TRUE, Orderly(w), NEW m \in Commands, m.kind # "config"
    PROVE  /\ Sent(w, m) \in Workers /\ Sent(w, m).spawned = TRUE /\ Sent(w, m).db = w.db
           /\ Orderly(Sent(w, m))
           /\ \A k : Past(w, k) /\ (m.kind = "event" => m.span > k) => Past(Sent(w, m), k)
           /\ \A s, n : Tells(w, s, n) => Tells(Sent(w, m), s, n)
           /\ Clean(w) /\ m.kind = "event" =>
                Clean(Sent(w, m)) /\ \A s : Tells(Sent(w, m), s, m.span)
<1> DEFINE v == Sent(w, m)
           k == Len(w.wire)
<1>1. /\ v \in Workers /\ v.spawned = TRUE /\ v.db = w.db /\ v.back = w.back
      /\ v.wire = Append(w.wire, m)
  <2>1. Append(w.wire, m) \in Seq(Commands)  BY WorkerIs, AppendProperties
  <2> QED  BY <2>1 DEF Sent, Workers, Commands
<1>2. k \in Nat /\ Len(v.wire) = k + 1 /\ v.wire[k + 1] = m /\ \A i \in 1..k : v.wire[i] = w.wire[i]
  BY <1>1, WorkerIs, AppendProperties
<1>3. \A i \in 1..Len(v.wire) : i \in 1..k \/ i = k + 1  BY <1>2
<1>4. 1..k \subseteq 1..Len(v.wire) /\ k + 1 \in 1..Len(v.wire)  BY <1>2
<1> HIDE DEF v, k
<1>5. Orderly(v)
  <2>1. \A i \in 1..k : w.wire[i].kind = "config" => i = 1 /\ w.back = <<>>  BY DEF Orderly, k
  <2>2. \A i \in 1..Len(v.wire) : v.wire[i].kind = "config" => i = 1 /\ v.back = <<>>
    BY <1>1, <1>2, <1>3, <2>1
  <2> QED  BY <1>1, <2>2 DEF Orderly
<1>6. ASSUME NEW j, Past(w, j), m.kind = "event" => m.span > j PROVE Past(v, j)
  BY <1>2, <1>3, <1>6 DEF Past, k
<1>7. ASSUME NEW s, NEW n, Tells(w, s, n) PROVE Tells(v, s, n)
  <2>1. CASE n \in s  BY <2>1 DEF Tells
  <2>2. CASE w.db # "closed" /\
             \E i \in 1..k : /\ w.wire[i].kind = "event" /\ w.wire[i].span = n
                             /\ \A j \in 1..k : j < i => w.wire[j].kind # "close"
    <3>1. PICK i \in 1..k : /\ w.wire[i].kind = "event" /\ w.wire[i].span = n
                            /\ \A j \in 1..k : j < i => w.wire[j].kind # "close"
      BY <2>2
    <3>2. \A j \in 1..Len(v.wire) : j < i => j \in 1..k  BY <1>2
    <3> QED  BY <1>1, <1>2, <1>4, <2>2, <3>1, <3>2 DEF Tells
  <2> QED  BY <1>7, <2>1, <2>2 DEF Tells, k
<1>8. ASSUME Clean(w), m.kind = "event" PROVE Clean(v) /\ \A s : Tells(v, s, m.span)
  <2>1. \A i \in 1..k : w.wire[i].kind # "close"  BY <1>8 DEF Clean, k
  <2>2. \A i \in 1..Len(v.wire) : v.wire[i].kind # "close"  BY <1>2, <1>3, <1>8, <2>1
  <2> QED  BY <1>1, <1>2, <1>4, <1>8, <2>2 DEF Clean, Tells
<1> QED  BY <1>1, <1>5, <1>6, <1>7, <1>8 DEF v

\* The outbox in the order of capture: every span of it and no other.
LEMMA ReplayIs ==
    ASSUME outbox \subseteq 1..MaxSpans
    PROVE  /\ Cardinality(outbox) \in Nat
           /\ \A i \in 1..Cardinality(outbox) :
                \E n \in outbox : Replay[i] = SpanMessage("event", n)
           /\ \A n \in outbox : \E i \in 1..Cardinality(outbox) : Replay[i] = SpanMessage("event", n)
           /\ Replay \in Seq(Commands) /\ Len(Replay) = Cardinality(outbox)
<1> DEFINE c == Cardinality(outbox)
           Upto(n) == {m \in outbox : m <= n}
           r == [n \in outbox |-> Rank(n)]
<1>1. IsFiniteSet(outbox) /\ c \in Nat
  <2>1. IsFiniteSet(1..MaxSpans)  BY InsightsAssumption, FS_Interval
  <2>2. outbox \in SUBSET (1..MaxSpans)  OBVIOUS
  <2> QED  BY <2>1, <2>2, FS_Subset, FS_CardinalityType
<1>2. \A n \in outbox : n \in Nat /\ n \in 1..MaxSpans  BY InsightsAssumption
<1>3. ASSUME NEW n \in outbox PROVE IsFiniteSet(Upto(n)) /\ Rank(n) \in 1..c
  <2>1. Upto(n) \in SUBSET outbox /\ n \in Upto(n)  BY <1>2
  <2>2. IsFiniteSet(Upto(n)) /\ Cardinality(Upto(n)) <= c  BY <1>1, <2>1, FS_Subset
  <2>3. Cardinality(Upto(n)) \in Nat /\ Cardinality(Upto(n)) # 0
    BY <2>1, <2>2, FS_CardinalityType, FS_EmptySet
  <2> QED  BY <1>1, <2>2, <2>3 DEF Rank
<1>4. ASSUME NEW n \in outbox, NEW m \in outbox, Rank(n) = Rank(m), n < m PROVE FALSE
  <2>0. n \in Nat /\ m \in Nat /\ n <= m /\ m <= m /\ ~(m <= n)  BY <1>2, <1>4
  <2>a. \A x \in outbox : x <= n => x <= m  BY <1>2, <1>4
  <2>1. Upto(n) \in SUBSET Upto(m) /\ m \in Upto(m) /\ m \notin Upto(n)  BY <2>0, <2>a
  <2> QED  BY <1>3, <1>4, <2>1, FS_Subset DEF Rank
<1>5. \A n, m \in outbox : Rank(n) = Rank(m) => n = m  BY <1>2, <1>4
<1>6. r \in Injection(outbox, 1..c)  BY <1>3, <1>5 DEF Injection, IsInjective
<1>7. IsFiniteSet(1..c) /\ Cardinality(1..c) = c  BY <1>1, FS_Interval
<1>8. r \in Surjection(outbox, 1..c)  BY <1>6, <1>7, FS_Injection
<1>9. \A i \in 1..c : \E n \in outbox : Rank(n) = i  BY <1>8 DEF Surjection
<1> DEFINE At(i) == CHOOSE n \in outbox : Rank(n) = i
<1>10. \A i \in 1..c : At(i) \in outbox /\ Rank(At(i)) = i  BY <1>9
<1>11. \A n \in outbox : Rank(n) \in 1..c /\ At(Rank(n)) = n  BY <1>3, <1>5, <1>10
<1>12. \A i \in 1..c : Replay[i] = SpanMessage("event", At(i))  BY DEF Replay
<1>13. \A i \in 1..c : SpanMessage("event", At(i)) \in Commands
  <2>1. \A n \in outbox : n \in 0..MaxSpans  BY <1>2, InsightsAssumption
  <2> QED  BY <1>10, <2>1 DEF SpanMessage, Commands
<1> HIDE DEF At
<1>14. Replay \in [1..c -> Commands]  BY <1>12, <1>13 DEF Replay, At
<1>15. Replay \in Seq(Commands) /\ Len(Replay) = c  BY <1>1, <1>14, SeqDef, LenProperties
<1> QED  BY <1>1, <1>10, <1>11, <1>12, <1>15

\* What a worker that spawned is sent: its configuration, the outbox, and the closes that wait.
LEMMA GreetedIs ==
    ASSUME outbox \subseteq 1..MaxSpans, pending \in Nat,
           NEW w, w = [NewWorker EXCEPT !.spawned = TRUE, !.wire = Greeting]
    PROVE  /\ w \in Workers /\ w.spawned = TRUE /\ Orderly(w)
           /\ \A k : (\A n \in outbox : n > k) => Past(w, k)
           /\ \A s : \A n \in outbox : Tells(w, s, n)
           /\ pending = 0 => Clean(w)
<1> DEFINE c == Cardinality(outbox)
           intro == <<Message("config")>>
           body == intro \o Replay
<1>1. /\ c \in Nat /\ Replay \in Seq(Commands) /\ Len(Replay) = c
      /\ \A i \in 1..c : \E n \in outbox : Replay[i] = SpanMessage("event", n)
      /\ \A n \in outbox : \E i \in 1..c : Replay[i] = SpanMessage("event", n)
  BY ReplayIs
<1>2. /\ Message("config") \in Commands /\ Message("close") \in Commands
      /\ Message("config").kind = "config" /\ Message("close").kind = "close"
      /\ \A n : SpanMessage("event", n).kind = "event" /\ SpanMessage("event", n).span = n
  BY InsightsAssumption DEF Message, SpanMessage, Commands
<1>3. /\ Waiting \in Seq(Commands) /\ Len(Waiting) = pending
      /\ \A i \in 1..pending : Waiting[i].kind = "close"
  <2>1. Waiting \in [1..pending -> Commands]  BY <1>2 DEF Waiting
  <2> QED  BY <1>2, <2>1, SeqDef, LenProperties DEF Waiting
<1>4. intro \in Seq(Commands) /\ Len(intro) = 1 /\ intro[1] = Message("config")  BY <1>2
<1>b. body = intro \o Replay  OBVIOUS
<1> HIDE DEF intro, c, body
<1>d. Replay \in Seq(Commands) /\ Len(Replay) = c /\ c \in Nat  BY <1>1
<1>5. /\ body \in Seq(Commands) /\ Len(body) = 1 + c /\ body[1] = Message("config")
      /\ \A i \in 1..c : body[i + 1] = Replay[i]
  <2>1. body \in Seq(Commands) /\ Len(body) = 1 + c  BY <1>d, <1>4, <1>b, ConcatProperties
  <2>a. \A i \in 1..(Len(intro) + Len(Replay)) :
           body[i] = IF i <= Len(intro) THEN intro[i] ELSE Replay[i - Len(intro)]
    BY <1>d, <1>4, <1>b, ConcatProperties
  <2>2. body[1] = intro[1]
    <3>1. 1 \in 1..(Len(intro) + Len(Replay)) /\ 1 <= Len(intro)  BY <1>d, <1>4
    <3> QED  BY <2>a, <3>1
  <2>3. ASSUME NEW i \in 1..c PROVE body[i + 1] = Replay[i]
    <3>1. /\ i + 1 \in 1..(Len(intro) + Len(Replay)) /\ ~(i + 1 <= Len(intro))
          /\ (i + 1) - Len(intro) = i
      BY <1>d, <1>4
    <3> QED  BY <2>a, <3>1
  <2> QED  BY <1>4, <2>1, <2>2, <2>3
<1>6. /\ Greeting \in Seq(Commands) /\ Len(Greeting) = 1 + c + pending
      /\ \A i \in 1..(1 + c) : Greeting[i] = body[i]
      /\ \A i \in 1..pending : Greeting[1 + c + i].kind = "close"
  <2>0. Greeting = body \o Waiting  BY DEF Greeting, body, intro
  <2>1. Greeting \in Seq(Commands) /\ Len(Greeting) = 1 + c + pending
    BY <1>1, <1>3, <1>5, <2>0, ConcatProperties
  <2>2. \A i \in 1..(1 + c) : Greeting[i] = body[i]
    <3>1. \A i \in 1..(1 + c) : i \in 1..(Len(body) + Len(Waiting)) /\ i <= Len(body)  BY <1>1, <1>3, <1>5
    <3> QED  BY <1>3, <1>5, <2>0, <3>1, ConcatProperties
  <2>3. ASSUME NEW i \in 1..pending PROVE Greeting[1 + c + i] = Waiting[i]
    <3>1. /\ 1 + c + i \in 1..(Len(body) + Len(Waiting)) /\ ~(1 + c + i <= Len(body))
          /\ (1 + c + i) - Len(body) = i
      BY <1>1, <1>3, <1>5
    <3> QED  BY <1>3, <1>5, <2>0, <3>1, ConcatProperties
  <2> QED  BY <1>3, <2>1, <2>2, <2>3
<1>7. \A i \in 1..Len(Greeting) :
         \/ i = 1 /\ Greeting[i].kind = "config"
         \/ \E n \in outbox : i - 1 \in 1..c /\ Greeting[i].kind = "event" /\ Greeting[i].span = n
         \/ i > 1 + c /\ pending # 0 /\ Greeting[i].kind = "close"
  <2> SUFFICES ASSUME NEW i \in 1..Len(Greeting)
               PROVE  \/ i = 1 /\ Greeting[i].kind = "config"
                      \/ \E n \in outbox : i - 1 \in 1..c /\ Greeting[i].kind = "event" /\ Greeting[i].span = n
                      \/ i > 1 + c /\ pending # 0 /\ Greeting[i].kind = "close"
    OBVIOUS
  <2>1. CASE i = 1
    <3>1. 1 \in 1..(1 + c)  BY <1>1
    <3> QED  BY <1>2, <1>5, <1>6, <2>1, <3>1
  <2>2. CASE i # 1 /\ i <= 1 + c
    <3>1. i - 1 \in 1..c /\ (i - 1) + 1 = i /\ i \in 1..(1 + c)  BY <1>1, <1>6, <2>2
    <3>2. Greeting[i] = Replay[i - 1]  BY <1>5, <1>6, <3>1
    <3> QED  BY <1>1, <1>2, <3>1, <3>2
  <2>3. CASE i > 1 + c
    <3>1. i - (1 + c) \in 1..pending /\ 1 + c + (i - (1 + c)) = i  BY <1>1, <1>6, <2>3
    <3> QED  BY <1>6, <2>3, <3>1
  <2> QED  BY <1>1, <1>6, <2>1, <2>2, <2>3
<1>8. w.wire = Greeting /\ w.spawned = TRUE /\ w.back = <<>> /\ w.db = "unopened" /\ w \in Workers
  BY <1>6, EmptySeq DEF NewWorker, Workers, Commands
<1>9. Len(<<>>) = 0  BY EmptySeq
<1>10. Orderly(w)  BY <1>7, <1>8, <1>9 DEF Orderly
<1>11. ASSUME NEW k, \A n \in outbox : n > k PROVE Past(w, k)  BY <1>7, <1>8, <1>11 DEF Past
<1>12. ASSUME NEW n \in outbox PROVE \A s : Tells(w, s, n)
  <2>1. PICK i \in 1..c : Replay[i] = SpanMessage("event", n)  BY <1>1
  <2>0. c \in Nat /\ pending \in Nat /\ Len(Greeting) = 1 + c + pending  BY <1>1, <1>6
  <2>2. i + 1 \in 1..(1 + c) /\ i + 1 \in 1..Len(Greeting)
    <3>1. i + 1 \in 1..(1 + c)  BY <2>0
    <3>2. i + 1 \in 1..(1 + c + pending)  BY <2>0
    <3> QED  BY <2>0, <3>1, <3>2
  <2>3. Greeting[i + 1].kind = "event" /\ Greeting[i + 1].span = n  BY <1>2, <1>5, <1>6, <2>1, <2>2
  <2>4. \A j \in 1..Len(Greeting) : j < i + 1 => Greeting[j].kind # "close"
    <3>1. \A j \in 1..Len(Greeting) : j < i + 1 => ~(j > 1 + c)  BY <1>1, <1>6, <2>2
    <3> QED  BY <1>7, <3>1
  <2> QED  BY <1>8, <2>2, <2>3, <2>4 DEF Tells
<1>13. pending = 0 => Clean(w)  BY <1>7, <1>8 DEF Clean
<1> QED  BY <1>8, <1>10, <1>11, <1>12, <1>13

\* A worker that has taken a message is at one of its ends.
LEMMA TakenIs ==
    ASSUME NEW w \in Workers, Orderly(w), w.wire # <<>>, NEW v, NEW s, NEW t,
           \/ /\ w.wire[1].kind = "config"
              /\ v = [w EXCEPT !.wire = Tail(@), !.db = "open", !.back = @ \o <<Message("status")>>]
              /\ t = s
           \/ /\ w.wire[1].kind = "event" /\ w.db = "open"
              /\ v = [w EXCEPT !.wire = Tail(@), !.db = "open",
                               !.back = @ \o <<SpanMessage("ack", w.wire[1].span)>>]
              /\ t = s \cup {w.wire[1].span}
           \/ /\ w.wire[1].kind = "event" /\ w.db = "closed"
              /\ v = [w EXCEPT !.wire = Tail(@), !.db = "closed", !.back = @ \o <<>>]
              /\ t = s
           \/ /\ w.wire[1].kind = "close"
              /\ v = [w EXCEPT !.wire = Tail(@), !.db = "closed", !.back = @ \o <<Message("closed")>>]
              /\ t = s
    PROVE  /\ v \in Workers /\ w.spawned = TRUE /\ v.spawned = TRUE /\ Orderly(v)
           /\ \A k : Past(w, k) => Past(v, k)
           /\ \A n : Tells(w, s, n) => Tells(v, t, n)
           /\ Clean(w) => Clean(v)
<1> DEFINE k == Len(w.wire)
           b == Len(w.back)
           m == w.wire[1]
<1>1. /\ w.wire \in Seq(Commands) /\ k \in Nat /\ k >= 1 /\ m \in Commands
      /\ w.back \in Seq(Reports) /\ b \in Nat /\ w.spawned \in BOOLEAN
      /\ w.db \in {"unopened", "open", "closed"}
  <2>1. w.wire \in Seq(Commands) /\ k \in Nat /\ k # 0  BY WorkerIs, EmptySeq
  <2>2. 1 \in 1..k  BY <2>1
  <2> QED  BY <2>1, <2>2, WorkerIs, ElementOfSeq
<1>2. /\ Tail(w.wire) \in Seq(Commands) /\ Len(Tail(w.wire)) = k - 1
      /\ \A i \in 1..(k - 1) : Tail(w.wire)[i] = w.wire[i + 1] /\ i + 1 \in 1..k
  BY <1>1, HeadTailProperties
<1>3. w.spawned = TRUE  BY <1>1, NewWorkerIs DEF Orderly
<1>4. /\ v.wire = Tail(w.wire) /\ v.spawned = w.spawned
      /\ v.db = IF m.kind = "config" THEN "open" ELSE IF m.kind = "close" THEN "closed" ELSE w.db
      /\ v = [w EXCEPT !.wire = v.wire, !.db = v.db, !.back = v.back]
      /\ m.kind = "event" => w.db # "unopened"
      /\ t = IF m.kind = "event" /\ w.db = "open" THEN s \cup {m.span} ELSE s
      /\ \/ v.back = w.back \o <<>>
         \/ v.back = w.back \o <<Message("status")>>
         \/ v.back = w.back \o <<SpanMessage("ack", m.span)>>
         \/ m.kind = "close" /\ v.back = w.back \o <<Message("closed")>>
  BY <1>1 DEF Workers
<1>5. \E x \in Reports : \/ v.back = w.back
                         \/ v.back = Append(w.back, x) /\ (x.kind = "closed" => m.kind = "close")
  <2>1. /\ Message("status") \in Reports /\ Message("closed") \in Reports
        /\ SpanMessage("ack", m.span) \in Reports
        /\ Message("status").kind = "status" /\ SpanMessage("ack", m.span).kind = "ack"
    BY <1>1, InsightsAssumption DEF Message, SpanMessage, Reports, Commands
  <2>2. w.back \o <<>> = w.back  BY <1>1, ConcatEmptySeq
  <2>3. \A x \in Reports : w.back \o <<x>> = Append(w.back, x)  BY <1>1, AppendIsConcat
  <2> QED  BY <1>4, <2>1, <2>2, <2>3
<1>6. PICK x \in Reports : \/ v.back = w.back
                           \/ v.back = Append(w.back, x) /\ (x.kind = "closed" => m.kind = "close")
  BY <1>5
<1>7. /\ Append(w.back, x) \in Seq(Reports) /\ Len(Append(w.back, x)) = b + 1
      /\ Append(w.back, x)[b + 1] = x /\ \A i \in 1..b : Append(w.back, x)[i] = w.back[i]
  BY <1>1, AppendProperties
<1>8. v \in Workers
  <2>1. v.back \in Seq(Reports) /\ v.db \in {"unopened", "open", "closed"}  BY <1>1, <1>4, <1>6, <1>7
  <2> QED  BY <1>2, <1>4, <2>1 DEF Workers, Commands, Reports
<1>9. 1 \in 1..k /\ \A i \in 1..(k - 1) : i + 1 # 1  BY <1>1
<1>10. Orderly(v)
  <2>1. ASSUME NEW i \in 1..Len(v.wire) PROVE v.wire[i].kind # "config"
    BY <1>2, <1>4, <1>9 DEF Orderly
  <2>2. m.kind = "config" => w.back = <<>>  BY <1>9 DEF Orderly
  <2>3. \A i \in 1..Len(v.back) : v.back[i].kind = "closed" => v.db = "closed"
    <3>1. \A i \in 1..b : w.back[i].kind = "closed" => w.db = "closed" /\ m.kind # "config"
      BY <2>2, EmptySeq DEF Orderly
    <3>2. CASE v.back = w.back  BY <1>4, <3>1, <3>2
    <3>3. CASE v.back = Append(w.back, x) /\ (x.kind = "closed" => m.kind = "close")
      <4>1. \A i \in 1..Len(v.back) : i \in 1..b \/ i = b + 1  BY <1>1, <1>7, <3>3
      <4> QED  BY <1>4, <1>7, <3>1, <3>3, <4>1
    <3> QED  BY <1>6, <3>2, <3>3
  <2> QED  BY <1>3, <1>4, <2>1, <2>3 DEF Orderly
<1>11. ASSUME NEW j, Past(w, j) PROVE Past(v, j)  BY <1>2, <1>4, <1>11 DEF Past
<1>12. ASSUME NEW n, Tells(w, s, n) PROVE Tells(v, t, n)
  <2>1. CASE n \in s  BY <1>4, <2>1 DEF Tells
  <2>2. CASE w.db # "closed" /\
             \E i \in 1..k : /\ w.wire[i].kind = "event" /\ w.wire[i].span = n
                             /\ \A j \in 1..k : j < i => w.wire[j].kind # "close"
    <3>1. PICK i \in 1..k : /\ w.wire[i].kind = "event" /\ w.wire[i].span = n
                            /\ \A j \in 1..k : j < i => w.wire[j].kind # "close"
      BY <2>2
    <3>2. CASE i = 1  BY <1>1, <1>4, <2>2, <3>1, <3>2 DEF Tells
    <3>3. CASE i # 1
      <4>1. i - 1 \in 1..(k - 1) /\ (i - 1) + 1 = i /\ 1 < i  BY <1>1, <3>3
      <4>2. m.kind # "close"  BY <1>9, <3>1, <4>1
      <4>3. v.db # "closed"  BY <1>1, <1>4, <2>2, <4>2
      <4>4. v.wire[i - 1] = w.wire[i]  BY <1>2, <1>4, <4>1
      <4>5. \A j \in 1..(k - 1) : j < i - 1 => j + 1 < i /\ v.wire[j] = w.wire[j + 1] /\ j + 1 \in 1..k
        BY <1>1, <1>2, <1>4
      <4> QED  BY <1>2, <1>4, <3>1, <4>1, <4>3, <4>4, <4>5 DEF Tells
    <3> QED  BY <3>2, <3>3
  <2> QED  BY <1>12, <2>1, <2>2 DEF Tells
<1>13. Clean(w) => Clean(v)  BY <1>2, <1>4, <1>9 DEF Clean
<1> QED  BY <1>3, <1>4, <1>8, <1>10, <1>11, <1>12, <1>13

\* The host has heard a report.
LEMMA HeardReport ==
    ASSUME NEW w \in Workers, Orderly(w), w.back # <<>>, NEW v, v = [w EXCEPT !.back = Tail(@)]
    PROVE  /\ v \in Workers /\ w.spawned = TRUE /\ v.spawned = TRUE /\ v.wire = w.wire /\ v.db = w.db
           /\ Orderly(v) /\ Head(w.back) \in Reports
           /\ Head(w.back).kind = "closed" => w.db = "closed"
<1> DEFINE b == Len(w.back)
<1>1. w.back \in Seq(Reports) /\ b \in Nat /\ b >= 1 /\ w.spawned \in BOOLEAN  BY WorkerIs, EmptySeq
<1>2. /\ Tail(w.back) \in Seq(Reports) /\ Len(Tail(w.back)) = b - 1
      /\ \A i \in 1..(b - 1) : Tail(w.back)[i] = w.back[i + 1] /\ i + 1 \in 1..b
      /\ Head(w.back) = w.back[1] /\ 1 \in 1..b /\ Head(w.back) \in Reports
  BY <1>1, HeadTailProperties
<1>3. w.spawned = TRUE  BY <1>1, NewWorkerIs DEF Orderly
<1>4. v \in Workers /\ v.back = Tail(w.back) /\ v.wire = w.wire /\ v.db = w.db /\ v.spawned = w.spawned
  BY <1>2 DEF Workers, Reports
<1>5. \A i \in 1..Len(w.wire) : w.wire[i].kind # "config"  BY DEF Orderly
<1>6. \A i \in 1..Len(v.back) : v.back[i].kind = "closed" => v.db = "closed"
  BY <1>2, <1>4 DEF Orderly
<1> QED  BY <1>2, <1>3, <1>4, <1>5, <1>6 DEF Orderly

-----------------------------------------------------------------------------
(* Insights, action by action.                                              *)

Consents == [enabled : BOOLEAN, armed : BOOLEAN, wiping : BOOLEAN, drained : BOOLEAN,
             reforks : 0..MaxBoots]

\* The types, field by field.
LEMMA InsightsTypes ==
    ASSUME InsightsInv
    PROVE  /\ consent \in Consents /\ consent.enabled \in BOOLEAN /\ consent.armed \in BOOLEAN
           /\ consent.wiping \in BOOLEAN /\ consent.drained \in BOOLEAN
           /\ consent.reforks \in 0..MaxBoots
           /\ queue \in Seq({"on", "off", "wipe"}) /\ Len(queue) \in Nat /\ Len(queue) <= MaxTransitions
           /\ job \in {"none", "drain", "wipe", "rm"} /\ closer \in BOOLEAN /\ stray \in BOOLEAN
           /\ outbox \subseteq 1..MaxSpans /\ pending \in Nat /\ store \subseteq 1..MaxSpans
           /\ captured \in 0..MaxSpans /\ wiped \in 0..captured
           /\ captured \in Nat /\ wiped \in Nat /\ wiped <= captured
           /\ worker \in Workers \cup {NoWorker}
           /\ worker # NoWorker => worker \in Workers /\ worker.spawned \in BOOLEAN
           /\ MaxSpans \in Nat /\ MaxBoots \in Nat
<1>1. consent \in Consents  BY DEF InsightsInv, InsightsTypeOK, Consents
<1> QED  BY <1>1, InsightsAssumption, WorkerIs, LenProperties DEF InsightsInv, InsightsTypeOK, Consents

\* Consent is off, and nothing was captured.
LEMMA InsightsStart == InsightsInit => InsightsInv
<1> SUFFICES ASSUME InsightsInit PROVE InsightsInv  OBVIOUS
<1>1. <<>> \in Seq({"on", "off", "wipe"}) /\ Len(<<>>) = 0  BY EmptySeq
<1>2. consent \in Consents  BY InsightsAssumption DEF InsightsInit, Consents
<1>3. InsightsTypeOK
  <2>1. queue \in Seq({"on", "off", "wipe"}) /\ Len(queue) <= MaxTransitions
    BY <1>1, InsightsAssumption DEF InsightsInit
  <2>2. /\ outbox \subseteq 1..MaxSpans /\ pending \in Nat /\ store \subseteq 1..MaxSpans
        /\ captured \in 0..MaxSpans /\ wiped \in 0..captured
    BY InsightsAssumption DEF InsightsInit
  <2> QED  BY <1>2, <2>1, <2>2 DEF InsightsInit, InsightsTypeOK, Consents
<1> QED  BY <1>3 DEF InsightsInit, InsightsInv, LinkInv, ToldInv, AwayInv, RestInv, GoneInv

\* A span of an armed collector joins the outbox and the wire.
LEMMA CaptureKeeps == InsightsInv /\ Capture => InsightsInv'
<1> SUFFICES ASSUME InsightsInv, Capture PROVE InsightsInv'  OBVIOUS
<1> DEFINE n == captured + 1
           m == SpanMessage("event", n)
<1>1. /\ job = "none" /\ queue = <<>> /\ consent.wiping = FALSE /\ consent.enabled = TRUE
      /\ consent.armed = TRUE
  BY InsightsTypes DEF Capture, Settled, InsightsInv, AwayInv
<1>2. /\ n \in 1..MaxSpans /\ n \in Nat /\ n > wiped /\ captured' = n
      /\ m \in Commands /\ m.kind = "event" /\ m.span = n
  BY InsightsTypes DEF Capture, SpanMessage, Commands
<1>3. /\ outbox' = outbox \cup {n}
      /\ worker' = IF worker # NoWorker /\ worker.spawned THEN Sent(worker, m) ELSE worker
      /\ UNCHANGED <<consent, queue, job, closer, stray, pending, store, wiped>>
  BY <1>1 DEF Capture, Produce
<1> HIDE DEF m, n
<1>4. CASE worker # NoWorker /\ worker.spawned = TRUE
  <2>1. worker' = Sent(worker, m)  BY <1>3, <1>4
  <2>2. worker \in Workers /\ Orderly(worker) /\ Clean(worker) /\ Past(worker, wiped) /\ pending = 0
    BY <1>1, <1>4, InsightsTypes DEF InsightsInv, LinkInv, RestInv, GoneInv
  <2>3. /\ worker' \in Workers /\ worker' # NoWorker /\ worker'.spawned = TRUE /\ Orderly(worker')
        /\ Past(worker', wiped) /\ Clean(worker') /\ Tells(worker', store, n)
        /\ \A x : Tells(worker, store, x) => Tells(worker', store, x)
    <3>1. m.kind # "config" /\ (m.kind = "event" => m.span > wiped)  BY <1>2
    <3>2. /\ worker' \in Workers /\ worker'.spawned = TRUE /\ Orderly(worker') /\ Past(worker', wiped)
          /\ \A x : Tells(worker, store, x) => Tells(worker', store, x)
          /\ Clean(worker') /\ \A s : Tells(worker', s, m.span)
      BY <1>2, <1>4, <2>1, <2>2, <3>1, SentIs
    <3> QED  BY <1>2, <3>2, WorkerIs
  <2>4. \A x \in outbox : Tells(worker, store, x)  BY <1>1, <1>4 DEF InsightsInv, ToldInv
  <2>5. InsightsTypeOK'  BY <1>2, <1>3, <2>3, InsightsTypes DEF InsightsInv, InsightsTypeOK
  <2>6. LinkInv' /\ AwayInv' /\ RestInv'
    BY <1>1, <1>3, <1>4, <2>2, <2>3 DEF InsightsInv, LinkInv, AwayInv, RestInv
  <2>7. ToldInv' /\ GoneInv'
    BY <1>2, <1>3, <2>3, <2>4 DEF InsightsInv, ToldInv, GoneInv
  <2> QED  BY <2>5, <2>6, <2>7 DEF InsightsInv
<1>5. CASE worker = NoWorker \/ worker.spawned = FALSE
  <2>1. worker' = worker  BY <1>3, <1>5
  <2>2. InsightsTypeOK'  BY <1>2, <1>3, <2>1, InsightsTypes DEF InsightsInv, InsightsTypeOK
  <2> QED  BY <1>1, <1>2, <1>3, <1>5, <2>1, <2>2
           DEF InsightsInv, LinkInv, ToldInv, AwayInv, RestInv, GoneInv
<1> QED  BY <1>4, <1>5, InsightsTypes

\* A transition that waits changes nothing yet.
LEMMA RequestKeeps ==
    ASSUME InsightsInv, NEW k \in {"on", "off", "wipe"}, Request(k) PROVE InsightsInv'
<1>1. /\ queue' \in Seq({"on", "off", "wipe"}) /\ Len(queue') <= MaxTransitions /\ queue' # <<>>
  BY InsightsTypes, AppendProperties, InsightsAssumption DEF Request
<1>2. UNCHANGED <<consent, job, closer, stray, outbox, pending, worker, store, captured, wiped>>
  BY DEF Request
<1>3. InsightsTypeOK'  BY <1>1, <1>2 DEF InsightsInv, InsightsTypeOK
<1> QED  BY <1>1, <1>2, <1>3 DEF InsightsInv, LinkInv, ToldInv, AwayInv, RestInv, GoneInv

\* Consent is given: a worker is forked or stays.
LEMMA TurnOnKeeps ==
    ASSUME InsightsInv, job = "none", queue' \in Seq({"on", "off", "wipe"}),
           Len(queue') <= MaxTransitions, TurnOn
    PROVE  InsightsInv'
<1>1. /\ consent' \in Consents /\ consent'.enabled = TRUE /\ consent'.armed = TRUE
      /\ consent'.wiping = consent.wiping
      /\ UNCHANGED <<job, stray, outbox, store, captured, wiped>>
  BY InsightsTypes DEF TurnOn, Consents
<1>2. consent.wiping = FALSE  BY InsightsTypes DEF InsightsInv, AwayInv
<1>3. CASE worker # NoWorker /\ consent.drained = FALSE
  <2>1. worker' = worker /\ pending' = pending /\ closer' = closer
    BY <1>3 DEF TurnOn, StartedOver
  <2>2. Clean(worker) /\ pending = 0  BY <1>3, InsightsTypes DEF InsightsInv, RestInv
  <2>3. InsightsTypeOK'  BY <1>1, <2>1 DEF InsightsInv, InsightsTypeOK, Consents
  <2> QED  BY <1>1, <1>2, <1>3, <2>1, <2>2, <2>3
           DEF InsightsInv, LinkInv, ToldInv, AwayInv, RestInv, GoneInv
<1>4. CASE worker = NoWorker \/ consent.drained = TRUE
  <2>1. worker' = NewWorker /\ pending' = 0 /\ closer' \in BOOLEAN
    BY <1>4, InsightsTypes DEF TurnOn, StartedOver, InsightsInv, AwayInv
  <2>2. InsightsTypeOK'  BY <1>1, <2>1, NewWorkerIs DEF InsightsInv, InsightsTypeOK, Consents
  <2> QED  BY <1>1, <1>2, <2>1, <2>2, NewWorkerIs
           DEF InsightsInv, LinkInv, ToldInv, AwayInv, RestInv, GoneInv
<1> QED  BY <1>3, <1>4, InsightsTypes

\* Consent is withdrawn: the worker, if there is one, is told to close behind its spans.
LEMMA TurnOffKeeps ==
    ASSUME InsightsInv, job = "none", queue' \in Seq({"on", "off", "wipe"}),
           Len(queue') <= MaxTransitions, TurnOff
    PROVE  InsightsInv'
<1>1. consent.wiping = FALSE  BY InsightsTypes DEF InsightsInv, AwayInv
<1>2. /\ consent' \in Consents /\ consent'.enabled = FALSE /\ consent'.wiping = FALSE
      /\ consent'.armed = FALSE /\ UNCHANGED <<stray, store, wiped>>
  <2>1. \A d \in BOOLEAN :
          LET c == [consent EXCEPT !.enabled = FALSE, !.armed = FALSE, !.drained = d]
          IN  c \in Consents /\ c.enabled = FALSE /\ c.wiping = FALSE /\ c.armed = FALSE
    BY <1>1, InsightsTypes DEF Consents
  <2>2. [consent EXCEPT !.enabled = FALSE, !.armed = FALSE]
        = [consent EXCEPT !.enabled = FALSE, !.armed = FALSE, !.drained = consent.drained]
    BY InsightsTypes DEF Consents
  <2> QED  BY <2>1, <2>2, InsightsTypes DEF TurnOff
<1>3. captured' \in 0..MaxSpans /\ captured <= captured'  BY InsightsTypes DEF TurnOff
<1>4. CASE StopCapture /\ job' = job
  <2>1. worker' = NoWorker /\ pending' = 0 /\ closer' = FALSE /\ outbox' = {}  BY <1>4 DEF StopCapture
  <2>2. wiped' \in 0..captured'  BY <1>2, <1>3, InsightsTypes
  <2>3. InsightsTypeOK'
    BY <1>2, <1>3, <1>4, <2>1, <2>2, InsightsTypes DEF InsightsInv, InsightsTypeOK, Consents
  <2> QED  BY <1>1, <1>2, <1>4, <2>1, <2>3, InsightsTypes
           DEF InsightsInv, LinkInv, ToldInv, AwayInv, RestInv, GoneInv
<1> DEFINE n == captured + 1
           m == SpanMessage("event", n)
<1>5. CASE /\ worker # NoWorker /\ captured < MaxSpans /\ captured' = n /\ outbox' = outbox \cup {n}
           /\ consent.armed /\ job' = "drain" /\ closer' = TRUE
           /\ IF worker.spawned THEN worker' = Sent(Sent(worker, m), Message("close")) /\ UNCHANGED pending
                                ELSE pending' = pending + 1 /\ UNCHANGED worker
  <2>1. /\ n \in 1..MaxSpans /\ n \in Nat /\ n > wiped /\ captured' = n /\ outbox' = outbox \cup {n}
        /\ m \in Commands /\ m.kind = "event" /\ m.span = n
        /\ Message("close") \in Commands /\ Message("close").kind = "close"
    BY <1>5, InsightsTypes DEF SpanMessage, Message, Commands
  <2>2. worker \in Workers /\ Orderly(worker) /\ Past(worker, wiped)
    BY <1>5, InsightsTypes DEF InsightsInv, LinkInv, GoneInv
  <2>3. /\ job' = "drain" /\ closer' = TRUE /\ worker # NoWorker
        /\ worker.spawned = TRUE => worker' = Sent(Sent(worker, m), Message("close")) /\ pending' = pending
        /\ worker.spawned = FALSE => pending' = pending + 1 /\ worker' = worker
    BY <1>5
  <2> HIDE DEF n, m
  <2>4. CASE worker.spawned = FALSE
    <3>1. InsightsTypeOK'
      BY <1>2, <2>1, <2>2, <2>3, <2>4, InsightsTypes DEF InsightsInv, InsightsTypeOK, Consents
    <3> QED  BY <1>1, <1>2, <1>3, <2>1, <2>2, <2>3, <2>4, <3>1, InsightsTypes
             DEF InsightsInv, LinkInv, ToldInv, AwayInv, RestInv, GoneInv
  <2>5. CASE worker.spawned = TRUE
    <3> DEFINE u == Sent(worker, m)
               v == Sent(u, Message("close"))
    <3>1. Clean(worker) /\ pending = 0
      BY <1>5, <2>3, InsightsTypes DEF InsightsInv, AwayInv, RestInv
    <3>2. /\ u \in Workers /\ u.spawned = TRUE /\ Orderly(u) /\ Past(u, wiped)
          /\ \A x : Tells(worker, store, x) => Tells(u, store, x)
          /\ Tells(u, store, n)
      <4>1. m.kind # "config" /\ (m.kind = "event" => m.span > wiped)  BY <2>1
      <4>2. /\ u \in Workers /\ u.spawned = TRUE /\ Orderly(u) /\ Past(u, wiped)
            /\ \A x : Tells(worker, store, x) => Tells(u, store, x)
            /\ \A s : Tells(u, s, m.span)
        BY <2>1, <2>2, <2>5, <3>1, <4>1, SentIs
      <4> QED  BY <2>1, <4>2
    <3> HIDE DEF u
    <3>3. /\ v \in Workers /\ v.spawned = TRUE /\ Orderly(v) /\ Past(v, wiped)
          /\ \A x : Tells(u, store, x) => Tells(v, store, x)
      BY <2>1, <3>2, SentIs
    <3>4. worker' = v /\ pending' = pending  BY <2>3, <2>5 DEF u
    <3> HIDE DEF v
    <3>5. v # NoWorker  BY <3>3, WorkerIs
    <3>6. \A x \in outbox : Tells(worker, store, x)
      BY <2>3, <2>5 DEF InsightsInv, ToldInv
    <3>7. InsightsTypeOK'
      BY <1>2, <2>1, <2>3, <3>3, <3>4, InsightsTypes DEF InsightsInv, InsightsTypeOK, Consents
    <3>8. LinkInv' /\ AwayInv' /\ RestInv'
      BY <1>2, <2>3, <3>1, <3>3, <3>4, <3>5 DEF LinkInv, AwayInv, RestInv
    <3>9. ToldInv' /\ GoneInv'
      BY <1>2, <2>1, <2>3, <3>2, <3>3, <3>4, <3>5, <3>6 DEF ToldInv, InsightsInv, GoneInv
    <3> QED  BY <3>7, <3>8, <3>9 DEF InsightsInv
  <2> QED  BY <2>2, <2>4, <2>5, WorkerIs
<1> QED  BY <1>4, <1>5 DEF TurnOff

\* A wipe empties the outbox before the worker closes.
LEMMA DeleteAllKeeps ==
    ASSUME InsightsInv, job = "none", queue' \in Seq({"on", "off", "wipe"}),
           Len(queue') <= MaxTransitions, DeleteAll
    PROVE  InsightsInv'
<1>1. /\ consent' \in Consents /\ consent'.wiping = TRUE /\ consent'.armed = FALSE
      /\ outbox' = {} /\ UNCHANGED <<stray, store, captured, wiped>>
  BY InsightsTypes DEF DeleteAll, Discard, Consents
<1>2. CASE worker = NoWorker
  <2>1. job' = "rm" /\ closer' = closer /\ pending' = pending /\ worker' = worker
    BY <1>2 DEF DeleteAll
  <2>2. pending = 0  BY <1>2 DEF InsightsInv, AwayInv
  <2>3. InsightsTypeOK'  BY <1>1, <2>1 DEF InsightsInv, InsightsTypeOK, Consents
  <2> QED  BY <1>1, <1>2, <2>1, <2>2, <2>3 DEF InsightsInv, LinkInv, ToldInv, AwayInv, RestInv, GoneInv
<1>3. CASE worker # NoWorker
  <2>1. job' = "wipe" /\ closer' = TRUE /\ PostClose  BY <1>3 DEF DeleteAll
  <2>2. worker \in Workers /\ Orderly(worker) /\ Past(worker, wiped)
    BY <1>3, InsightsTypes DEF InsightsInv, LinkInv, GoneInv
  <2>3. Message("close") \in Commands /\ Message("close").kind = "close"
    BY InsightsAssumption DEF Message, Commands
  <2>4. /\ worker' \in Workers /\ Orderly(worker') /\ Past(worker', wiped) /\ worker' # NoWorker
        /\ pending' \in Nat /\ (worker'.spawned = TRUE => pending' = 0)
    <3>1. CASE worker.spawned = TRUE
      <4>1. worker' = Sent(worker, Message("close")) /\ pending' = pending  BY <2>1, <3>1 DEF PostClose
      <4>2. worker' \in Workers /\ Orderly(worker') /\ Past(worker', wiped)
        BY <2>2, <2>3, <3>1, <4>1, SentIs
      <4> QED  BY <1>3, <3>1, <4>1, <4>2, InsightsTypes, WorkerIs DEF InsightsInv, LinkInv
    <3>2. CASE worker.spawned = FALSE
      <4>1. worker' = worker /\ pending' = pending + 1  BY <2>1, <3>2 DEF PostClose
      <4> QED  BY <1>3, <2>2, <3>2, <4>1, InsightsTypes
    <3> QED  BY <1>3, <3>1, <3>2, InsightsTypes
  <2>5. InsightsTypeOK'  BY <1>1, <2>1, <2>4 DEF InsightsInv, InsightsTypeOK, Consents
  <2> QED  BY <1>1, <2>1, <2>4, <2>5 DEF InsightsInv, LinkInv, ToldInv, AwayInv, RestInv, GoneInv
<1> QED  BY <1>2, <1>3

\* The next transition.
LEMMA RunJobKeeps == InsightsInv /\ RunJob => InsightsInv'
<1> SUFFICES ASSUME InsightsInv, RunJob PROVE InsightsInv'  OBVIOUS
<1>1. queue' \in Seq({"on", "off", "wipe"}) /\ Len(queue') <= MaxTransitions /\ job = "none"
  BY InsightsTypes, HeadTailProperties, InsightsAssumption DEF RunJob
<1> QED  BY <1>1, TurnOnKeeps, TurnOffKeeps, DeleteAllKeeps DEF RunJob

\* An await that ended leaves the worker of a drain that was superseded, or none.
LEMMA AwaitedKeeps ==
    ASSUME InsightsInv, NEW w, NEW c \in Consents, Awaited(w, c),
           UNCHANGED <<queue, store, captured, wiped>>, stray' \in BOOLEAN,
           c.enabled = consent.enabled, c.armed = consent.armed, c.wiping = consent.wiping,
           w = NoWorker <=> worker = NoWorker,
           w # NoWorker => /\ w \in Workers /\ w.spawned = worker.spawned /\ w.wire = worker.wire
                           /\ w.db = worker.db /\ Orderly(w)
    PROVE  InsightsInv'
<1>1. CASE job = "wipe"
  <2>1. /\ worker' = NoWorker /\ pending' = 0 /\ closer' = FALSE /\ outbox' = outbox /\ job' = "rm"
        /\ consent' = [c EXCEPT !.drained = FALSE]
    BY <1>1 DEF Awaited, ReadyToWipe
  <2>2. /\ consent' \in Consents /\ consent'.enabled = consent.enabled
        /\ consent'.armed = consent.armed /\ consent'.wiping = consent.wiping
    BY <2>1 DEF Consents
  <2>3. InsightsTypeOK'  BY <2>1, <2>2 DEF InsightsInv, InsightsTypeOK, Consents
  <2> QED  BY <1>1, <2>1, <2>2, <2>3 DEF InsightsInv, LinkInv, ToldInv, AwayInv, RestInv, GoneInv
<1>2. CASE job = "drain"
  <2>0. Drained(w, c) /\ job' = "none"  BY <1>2 DEF Awaited
  <2>1. /\ consent' \in Consents /\ consent'.enabled = consent.enabled
        /\ consent'.armed = consent.armed /\ consent'.wiping = consent.wiping
        /\ queue # <<>> => consent'.drained = TRUE
    BY <2>0 DEF Drained, Consents
  <2>2. /\ consent.enabled = FALSE /\ consent.armed = FALSE /\ consent.wiping = FALSE
    BY <1>2, InsightsTypes DEF InsightsInv, AwayInv
  <2>3. CASE queue = <<>>
    <3>1. worker' = NoWorker /\ pending' = 0 /\ closer' = FALSE /\ outbox' = {}
      BY <2>0, <2>3 DEF Drained, StopCapture
    <3>2. InsightsTypeOK'  BY <2>0, <2>1, <3>1 DEF InsightsInv, InsightsTypeOK, Consents
    <3> QED  BY <2>0, <2>1, <2>2, <3>1, <3>2
             DEF InsightsInv, LinkInv, ToldInv, AwayInv, RestInv, GoneInv
  <2>4. CASE queue # <<>>
    <3>1. worker' = w /\ closer' = FALSE /\ pending' = pending /\ outbox' = outbox
      BY <2>0, <2>4 DEF Drained
    <3>2. InsightsTypeOK'  BY <2>0, <2>1, <3>1 DEF InsightsInv, InsightsTypeOK, Consents
    <3>3. LinkInv' /\ AwayInv' /\ RestInv'
      BY <1>2, <2>0, <2>1, <2>2, <2>4, <3>1 DEF InsightsInv, LinkInv, AwayInv, RestInv
    <3>4. ToldInv' /\ GoneInv'
      BY <1>2, <2>0, <3>1 DEF InsightsInv, ToldInv, GoneInv, Tells, Past
    <3> QED  BY <3>2, <3>3, <3>4 DEF InsightsInv
  <2> QED  BY <2>3, <2>4
<1> QED  BY <1>1, <1>2 DEF Awaited

\* The await of a close ends by its timer;
LEMMA CloseTimerKeeps == InsightsInv /\ CloseTimer => InsightsInv'
<1> SUFFICES ASSUME InsightsInv, CloseTimer PROVE InsightsInv'  OBVIOUS
<1> QED  BY AwaitedKeeps, InsightsTypes DEF CloseTimer, InsightsInv, LinkInv

\* or a timer of an await that ended before fires.
LEMMA StrayTimerKeeps == InsightsInv /\ StrayTimer => InsightsInv'
  BY DEF StrayTimer, InsightsInv, InsightsTypeOK, LinkInv, ToldInv, AwayInv, RestInv, GoneInv

\* The store is gone, and nothing that was captured before is on its way.
LEMMA RemovedKeeps == InsightsInv /\ Removed => InsightsInv'
<1> SUFFICES ASSUME InsightsInv, Removed PROVE InsightsInv'  OBVIOUS
<1>1. /\ job = "rm" /\ job' = "none" /\ worker = NoWorker /\ pending = 0 /\ outbox = {}
      /\ consent.armed = FALSE /\ UNCHANGED <<queue, closer, stray, outbox, pending, captured>>
  BY InsightsTypes DEF Removed, InsightsInv, AwayInv
<1>2. store' \subseteq store /\ wiped' \in 0..captured /\ \A n \in store' : n > wiped'
  BY InsightsTypes DEF Removed, InsightsInv, GoneInv
<1>3. /\ consent' \in Consents /\ consent'.wiping = FALSE /\ consent'.enabled = consent.enabled
      /\ consent'.armed = (queue = <<>> /\ consent.enabled)
  BY <1>1, InsightsTypes DEF Removed, Consents
<1>4. CASE queue = <<>> /\ consent.enabled = TRUE
  <2>1. worker' = NewWorker  BY <1>1, <1>4 DEF Removed, StartedOver
  <2>2. InsightsTypeOK'
    BY <1>1, <1>2, <1>3, <2>1, NewWorkerIs DEF InsightsInv, InsightsTypeOK, Consents
  <2> QED  BY <1>1, <1>2, <1>3, <1>4, <2>1, <2>2, NewWorkerIs
           DEF InsightsInv, LinkInv, ToldInv, AwayInv, RestInv, GoneInv
<1>5. CASE ~(queue = <<>> /\ consent.enabled = TRUE)
  <2>1. worker' = NoWorker /\ consent'.armed = FALSE  BY <1>1, <1>3, <1>5, InsightsTypes DEF Removed
  <2>2. InsightsTypeOK'
    BY <1>1, <1>2, <1>3, <2>1 DEF InsightsInv, InsightsTypeOK, Consents
  <2> QED  BY <1>1, <1>2, <1>3, <1>5, <2>1, <2>2, InsightsTypes
           DEF InsightsInv, LinkInv, ToldInv, AwayInv, RestInv, GoneInv
<1> QED  BY <1>4, <1>5

\* The worker is sent what waited for it.
LEMMA WorkerSpawnsKeeps == InsightsInv /\ WorkerSpawns => InsightsInv'
<1> SUFFICES ASSUME InsightsInv, WorkerSpawns PROVE InsightsInv'  OBVIOUS
<1>1. /\ worker # NoWorker /\ worker = NewWorker
      /\ worker' = [NewWorker EXCEPT !.spawned = TRUE, !.wire = Greeting] /\ pending' = 0
      /\ UNCHANGED <<consent, queue, job, closer, stray, outbox, store, captured, wiped>>
  BY InsightsTypes DEF WorkerSpawns, InsightsInv, LinkInv, Orderly
<1>2. /\ worker' \in Workers /\ worker'.spawned = TRUE /\ Orderly(worker')
      /\ \A k : (\A n \in outbox : n > k) => Past(worker', k)
      /\ \A s : \A n \in outbox : Tells(worker', s, n)
      /\ pending = 0 => Clean(worker')
  BY <1>1, InsightsTypes, GreetedIs
<1>3. worker' # NoWorker  BY <1>2, WorkerIs
<1>4. InsightsTypeOK'  BY <1>1, <1>2 DEF InsightsInv, InsightsTypeOK
<1>5. LinkInv' /\ AwayInv' /\ RestInv'
  BY <1>1, <1>2, <1>3 DEF InsightsInv, LinkInv, AwayInv, RestInv
<1>6. ToldInv' /\ GoneInv'
  BY <1>1, <1>2, <1>3 DEF InsightsInv, ToldInv, GoneInv
<1> QED  BY <1>4, <1>5, <1>6 DEF InsightsInv

\* It takes a message: a span moves from the wire to the store.
LEMMA WorkerTakesKeeps == InsightsInv /\ WorkerTakes => InsightsInv'
<1> SUFFICES ASSUME InsightsInv, WorkerTakes PROVE InsightsInv'  OBVIOUS
<1> DEFINE m == worker.wire[1]
<1>1. /\ worker # NoWorker /\ worker \in Workers /\ worker.wire # <<>> /\ Orderly(worker)
      /\ Past(worker, wiped)
      /\ UNCHANGED <<consent, queue, job, closer, stray, outbox, pending, captured, wiped>>
  BY InsightsTypes DEF WorkerTakes, InsightsInv, LinkInv, GoneInv
<1>2. 1 \in 1..Len(worker.wire) /\ Head(worker.wire) = m /\ m \in Commands
  <2>1. worker.wire \in Seq(Commands)  BY <1>1, WorkerIs
  <2>2. 1 \in 1..Len(worker.wire) /\ Head(worker.wire) = m  BY <1>1, <2>1, HeadTailProperties, EmptySeq
  <2> QED  BY <2>1, <2>2, ElementOfSeq
<1>3. \/ /\ m.kind = "config"
         /\ worker' = [worker EXCEPT !.wire = Tail(@), !.db = "open", !.back = @ \o <<Message("status")>>]
         /\ store' = store
      \/ /\ m.kind = "event" /\ worker.db = "open"
         /\ worker' = [worker EXCEPT !.wire = Tail(@), !.db = "open",
                                     !.back = @ \o <<SpanMessage("ack", m.span)>>]
         /\ store' = store \cup {m.span}
      \/ /\ m.kind = "event" /\ worker.db = "closed"
         /\ worker' = [worker EXCEPT !.wire = Tail(@), !.db = "closed", !.back = @ \o <<>>]
         /\ store' = store
      \/ /\ m.kind = "close"
         /\ worker' = [worker EXCEPT !.wire = Tail(@), !.db = "closed",
                                     !.back = @ \o <<Message("closed")>>]
         /\ store' = store
  BY <1>2 DEF WorkerTakes
<1>4. /\ worker' \in Workers /\ worker.spawned = TRUE /\ worker'.spawned = TRUE /\ Orderly(worker')
      /\ \A k : Past(worker, k) => Past(worker', k)
      /\ \A n : Tells(worker, store, n) => Tells(worker', store', n)
      /\ Clean(worker) => Clean(worker')
  BY <1>1, <1>3, TakenIs
<1>5. worker' # NoWorker  BY <1>4, WorkerIs
<1>6. m.kind = "event" => m.span > wiped /\ m.span \in 1..MaxSpans
  BY <1>1, <1>2, InsightsTypes DEF Past, Commands
<1>7. store' \subseteq 1..MaxSpans /\ \A n \in store' : n > wiped
  BY <1>3, <1>6, InsightsTypes DEF InsightsInv, GoneInv
<1> HIDE DEF m
<1>8. InsightsTypeOK'  BY <1>1, <1>4, <1>7 DEF InsightsInv, InsightsTypeOK
<1>9. LinkInv' /\ AwayInv' /\ RestInv'
  BY <1>1, <1>4, <1>5 DEF InsightsInv, LinkInv, AwayInv, RestInv
<1>10. ToldInv' /\ GoneInv'
  BY <1>1, <1>4, <1>5, <1>7 DEF InsightsInv, ToldInv, GoneInv
<1> QED  BY <1>8, <1>9, <1>10 DEF InsightsInv

\* The host hears an acknowledgement, or that the worker closed.
LEMMA HostTakesKeeps == InsightsInv /\ HostTakes => InsightsInv'
<1> SUFFICES ASSUME InsightsInv, HostTakes PROVE InsightsInv'  OBVIOUS
<1> DEFINE m == Head(worker.back)
           w == [worker EXCEPT !.back = Tail(@)]
           c == [consent EXCEPT !.reforks = 0]
<1>1. worker # NoWorker /\ worker \in Workers /\ worker.back # <<>> /\ Orderly(worker)
  BY InsightsTypes DEF HostTakes, InsightsInv, LinkInv
<1>2. /\ w \in Workers /\ worker.spawned = TRUE /\ w.spawned = TRUE /\ w.wire = worker.wire
      /\ w.db = worker.db /\ Orderly(w)
  BY <1>1, HeardReport
<1>3. w # NoWorker  BY <1>2, WorkerIs
<1>4. /\ c \in Consents /\ c.enabled = consent.enabled /\ c.armed = consent.armed
      /\ c.wiping = consent.wiping /\ c.drained = consent.drained /\ c.reforks = 0
  BY InsightsTypes DEF Consents
<1>5. UNCHANGED <<queue, store, captured, wiped>>  BY DEF HostTakes
<1>6. \/ Awaited(w, c) /\ stray' = TRUE
      \/ /\ outbox' \subseteq outbox /\ consent' = c /\ worker' = w
         /\ UNCHANGED <<job, closer, stray, pending>>
  BY DEF HostTakes
<1> HIDE DEF w, c, m
<1>7. CASE Awaited(w, c) /\ stray' = TRUE
  BY <1>1, <1>2, <1>3, <1>4, <1>5, <1>7, AwaitedKeeps
<1>8. CASE /\ outbox' \subseteq outbox /\ consent' = c /\ worker' = w
           /\ UNCHANGED <<job, closer, stray, pending>>
  <2>1. InsightsTypeOK'  BY <1>2, <1>4, <1>5, <1>8 DEF InsightsInv, InsightsTypeOK, Consents
  <2>2. LinkInv' /\ AwayInv' /\ RestInv'
    BY <1>1, <1>2, <1>3, <1>4, <1>5, <1>8 DEF InsightsInv, LinkInv, AwayInv, RestInv, Clean
  <2>3. ToldInv' /\ GoneInv'
    BY <1>1, <1>2, <1>3, <1>5, <1>8 DEF InsightsInv, ToldInv, GoneInv, Tells, Past
  <2> QED  BY <2>1, <2>2, <2>3 DEF InsightsInv
<1> QED  BY <1>6, <1>7, <1>8

\* The worker dies: a new one gets the outbox again.
LEMMA WorkerExitsKeeps == EarlyExit = FALSE /\ InsightsInv /\ WorkerExits => InsightsInv'
<1> SUFFICES ASSUME EarlyExit = FALSE, InsightsInv, WorkerExits PROVE InsightsInv'  OBVIOUS
<1>1. /\ worker # NoWorker /\ (consent.enabled = TRUE \/ worker.spawned = TRUE)
      /\ UNCHANGED <<queue, job, closer, stray, outbox, pending, store, captured, wiped>>
  BY InsightsTypes DEF WorkerExits
<1>2. job # "wipe" => pending = 0 /\ job # "rm"
  BY <1>1, InsightsTypes DEF InsightsInv, LinkInv, AwayInv, RestInv
<1>3. CASE consent.enabled = TRUE /\ consent.reforks < MaxBoots
  <2>1. /\ worker' = NewWorker /\ consent' \in Consents /\ consent'.enabled = TRUE
        /\ consent'.armed = consent.armed /\ consent'.wiping = consent.wiping
    BY <1>3, InsightsTypes DEF WorkerExits, BudgetLeft, Consents
  <2>2. InsightsTypeOK'  BY <1>1, <2>1, NewWorkerIs DEF InsightsInv, InsightsTypeOK, Consents
  <2>3. job # "rm"  BY <1>2
  <2> QED  BY <1>1, <1>2, <1>3, <2>1, <2>2, <2>3, NewWorkerIs
           DEF InsightsInv, LinkInv, ToldInv, AwayInv, RestInv, GoneInv
<1>4. CASE ~(consent.enabled = TRUE /\ consent.reforks < MaxBoots)
  <2>1. worker' = NoWorker /\ consent' = consent  BY <1>4, InsightsTypes DEF WorkerExits, BudgetLeft
  <2>2. InsightsTypeOK'  BY <1>1, <2>1 DEF InsightsInv, InsightsTypeOK
  <2>3. consent.enabled = TRUE => consent.reforks = MaxBoots  BY <1>4, InsightsTypes
  <2> QED  BY <1>1, <1>2, <2>1, <2>2, <2>3, InsightsTypes
           DEF InsightsInv, LinkInv, ToldInv, AwayInv, RestInv, GoneInv
<1> QED  BY <1>3, <1>4

\* Every step.
LEMMA InsightsStep == EarlyExit = FALSE /\ InsightsInv /\ [InsightsNext]_insightsVars => InsightsInv'
<1>1. InsightsInv /\ UNCHANGED insightsVars => InsightsInv'
  BY DEF insightsVars, InsightsInv, InsightsTypeOK, LinkInv, ToldInv, AwayInv, RestInv, GoneInv
<1> QED
  BY <1>1, CaptureKeeps, RequestKeeps, RunJobKeeps, CloseTimerKeeps, StrayTimerKeeps, RemovedKeeps,
     WorkerSpawnsKeeps, WorkerTakesKeeps, HostTakesKeeps, WorkerExitsKeeps DEF InsightsNext

\* The invariant is stronger than what it is for.
LEMMA InsightsInvIsFaithful == InsightsInv => InsightsAreFaithful
<1> SUFFICES ASSUME InsightsInv PROVE InsightsAreFaithful  OBVIOUS
<1>1. worker # NoWorker =>
         /\ worker \in Workers /\ Orderly(worker) /\ Past(worker, wiped)
         /\ DOMAIN worker.wire = 1..Len(worker.wire)
         /\ worker.back \in Seq(Reports)
  BY InsightsTypes, WorkerIs DEF InsightsInv, LinkInv, GoneInv
<1>2. WipedIsGone  BY <1>1 DEF WipedIsGone, InsightsInv, GoneInv, Past
<1>3. ConsentHolds
  <2> SUFFICES ASSUME job = "none", queue = <<>>
               PROVE  IF consent.enabled THEN IsCapturing ELSE IsQuiet
    BY DEF ConsentHolds
  <2>1. CASE consent.enabled = TRUE
    <3>1. worker # NoWorker => Message("close") \notin ToSet(worker.wire)
      BY <1>1, <2>1 DEF InsightsInv, RestInv, Clean, ToSet, Message
    <3> QED  BY <2>1, <3>1 DEF InsightsInv, RestInv, Clean, IsCapturing
  <2>2. CASE consent.enabled = FALSE  BY <2>2 DEF InsightsInv, RestInv, IsQuiet
  <2> QED  BY <2>1, <2>2, InsightsTypes
<1>4. DrainKeepsRows
  <2> SUFFICES ASSUME job = "drain", worker # NoWorker, worker.back # <<>>,
                      Head(worker.back) = Message("closed")
               PROVE  outbox \subseteq store
    BY DEF DrainKeepsRows
  <2> DEFINE v == [worker EXCEPT !.back = Tail(@)]
  <2>1. v = [worker EXCEPT !.back = Tail(@)]  OBVIOUS
  <2> HIDE DEF v
  <2>2. worker.spawned = TRUE /\ worker.db = "closed"
    <3>1. Head(worker.back).kind = "closed"  BY DEF Message
    <3>2. worker \in Workers /\ Orderly(worker) /\ worker.back # <<>>  BY <1>1
    <3> QED  BY <2>1, <3>1, <3>2, HeardReport
  <2> QED  BY <2>2 DEF InsightsInv, ToldInv, Tells
<1> QED  BY <1>2, <1>3, <1>4 DEF InsightsAreFaithful

-----------------------------------------------------------------------------
(* The inline editor and the window around it.                               *)

\* What each time of modification stands for: of the file as the editor knows it, as a
\* reload or a save found it, and as the conflict was with.
Editing ==
    /\ editor.mtime <= disk.mtime /\ (disk.mtime = editor.mtime => disk.text = editor.base)
    /\ opening # Nothing => opening.mtime <= disk.mtime
    /\ editor.conflict # Nothing =>
         /\ editor.conflict.mtime <= disk.mtime
         /\ disk.mtime = editor.conflict.mtime => disk.text = editor.conflict.text
    /\ save # Nothing =>
         /\ save.mtime <= disk.mtime
         /\ save.at = "stat" /\ disk.mtime = save.mtime => disk.text = save.over
         /\ save.at = "write" => disk.text = save.over
         /\ save.at = "restat" => disk.text = save.text

EditorInv == EditorTypeOK /\ Editing

Prompting == {Nothing, "sent", "asked"}
Quits == [quitting : BOOLEAN, armed : BOOLEAN]
Apps == [services : BOOLEAN, dashboard : BOOLEAN, running : BOOLEAN]

\* A quit under way has stopped the services or asks, if it is not one for an update that
\* was called off.
Quitting ==
    /\ window = "gone" => app.services = FALSE
    /\ quit.quitting = TRUE /\ app.services = TRUE => quit.armed = TRUE /\ prompt # Nothing
    /\ platform = "darwin" /\ window = "gone" /\ alive = TRUE => ~dirty

\* One install is deferred at most, and none once its observer is there.
Installing ==
    /\ updater.deferred \in {0, 1}
    /\ updater.observers = IF quit.armed = TRUE THEN 1 ELSE 0
    /\ quit.armed = TRUE \/ updater.latch = FALSE => updater.deferred = 0

ShellInv == ShellTypeOK /\ Editing /\ Quitting /\ Installing

\* The editor has loaded nothing, the window is shown.
LEMMA ShellStart == ShellInit => ShellInv
<1> SUFFICES ASSUME ShellInit PROVE ShellInv  OBVIOUS
<1>1. EditorTypeOK /\ Editing
  BY ShellAssumption DEF ShellInit, EditorInit, EditorTypeOK, Editing, Files, Openings
<1>2. /\ window = "shown" /\ platform \in Platforms /\ alive = TRUE /\ dirtyBit = FALSE
      /\ prompt = Nothing /\ quit = [quitting |-> FALSE, armed |-> FALSE]
      /\ updater = [latch |-> FALSE, deferred |-> 0, observers |-> 0]
      /\ app = [services |-> TRUE, dashboard |-> FALSE, running |-> TRUE]
  BY DEF ShellInit
<1> QED  BY <1>1, <1>2 DEF ShellInv, ShellTypeOK, Quitting, Installing

\* Who asks, and what is in the buffer, is nothing to a save.
LEMMA BufferKeeps ==
    ASSUME EditorInv, NEW b \in 0..MaxTexts, NEW a \in {Nothing, "close", "switch"},
           editor' = [editor EXCEPT !.buffer = b, !.asker = a],
           UNCHANGED <<disk, texts, opening, save>>
    PROVE  EditorInv'
  BY DEF EditorInv, EditorTypeOK, Editing

\* A save goes by the time the editor knows.
LEMMA RunSaveKeeps ==
    ASSUME EditorInv, RunSave(editor.mtime, editor.base),
           UNCHANGED <<disk, texts, editor, opening>>
    PROVE  EditorInv'
  BY ShellAssumption DEF EditorInv, EditorTypeOK, Editing, RunSave, Savings, Files

\* The editor's own steps.
LEMMA EditorStep == Race = FALSE /\ EditorInv /\ EditorNext => EditorInv'
<1> SUFFICES ASSUME Race = FALSE, EditorInv, EditorNext PROVE EditorInv'  OBVIOUS
<1> USE ShellAssumption DEF EditorInv, EditorTypeOK, Files, Openings, Savings
<1>1. CASE OpenStat  BY <1>1 DEF OpenStat, Editing
<1>2. CASE OpenRead  BY <1>2 DEF OpenRead, Editing
<1>3. CASE OpenFails  BY <1>3 DEF OpenFails, Editing
<1>4. CASE Type
  <2>1. PICK b \in 0..MaxTexts : editor' = [editor EXCEPT !.buffer = b]  BY <1>4 DEF Type
  <2>2. texts' \in 0..MaxTexts /\ UNCHANGED <<disk, opening, save>>  BY <1>4 DEF Type
  <2> QED  BY <2>1, <2>2 DEF Editing
<1>5. CASE AgentWrites
  <2>1. texts' \in 0..MaxTexts /\ disk' \in Files /\ disk'.mtime = disk.mtime + 1
    BY <1>5 DEF AgentWrites
  <2>2. save # Nothing => save.at = "stat"  BY <1>5 DEF AgentWrites, Saving
  <2>3. UNCHANGED <<editor, opening, save>>  BY <1>5 DEF AgentWrites
  <2> QED  BY <2>1, <2>2, <2>3 DEF Editing
<1>6. CASE Save  BY <1>6, RunSaveKeeps DEF Save
<1>7. CASE SaveStat  BY <1>7 DEF SaveStat, Saving, MayWrite, Editing
<1>8. CASE SaveWrite
  <2>1. /\ save # Nothing /\ save.at = "write" /\ disk' \in Files
        /\ disk'.mtime = disk.mtime + 1 /\ disk'.text = save.text
        /\ save' = [save EXCEPT !.at = "restat"] /\ UNCHANGED <<texts, editor, opening>>
    BY <1>8 DEF SaveWrite, Saving
  <2> QED  BY <2>1 DEF Editing
<1>9. CASE Overwrite  BY <1>9 DEF Overwrite, RunSave, Editing
<1>10. CASE Reload  BY <1>10 DEF Reload, Editing
<1>11. CASE CancelConflict  BY <1>11 DEF CancelConflict, Editing
<1> QED
  BY <1>1, <1>2, <1>3, <1>4, <1>5, <1>6, <1>7, <1>8, <1>9, <1>10, <1>11 DEF EditorNext

\* A save that ends well leaves the editor with what is on the disk, and one that conflicts
\* with the time it met.
LEMMA SaveEndsKeeps ==
    ASSUME EditorInv, SaveEnds
    PROVE  EditorInv' /\ (SavedWell => ~dirty')
<1> USE ShellAssumption DEF EditorInv, EditorTypeOK, Files, Savings
<1>1. save # Nothing /\ save' = Nothing /\ UNCHANGED <<disk, texts, opening>>
  BY DEF SaveEnds, SavedWell, SaveConflicts, SaveFails, Saving
<1>2. CASE /\ save.at = "restat"
           /\ editor' = [editor EXCEPT !.buffer = save.text, !.pristine = save.text,
                                       !.mtime = disk.mtime, !.base = save.text,
                                       !.asker = Nothing]
  <2>1. disk.text = save.text  BY <1>1, <1>2 DEF Editing
  <2>2. editor'.buffer = editor'.pristine  BY <1>2
  <2>3. Editing'  BY <1>1, <1>2, <2>1 DEF Editing
  <2>4. EditorTypeOK'  BY <1>1, <1>2
  <2> QED  BY <2>2, <2>3, <2>4 DEF dirty
<1>3. CASE /\ save.at # "restat"
           /\ editor' = [editor EXCEPT !.conflict = [mtime |-> disk.mtime, text |-> disk.text],
                                       !.asker = Nothing]
  <2>1. Editing'  BY <1>1, <1>3 DEF Editing
  <2> QED  BY <1>1, <1>3, <2>1 DEF SavedWell
<1>4. CASE save.at # "restat" /\ editor' = [editor EXCEPT !.asker = Nothing]
  <2>1. Editing'  BY <1>1, <1>4 DEF Editing
  <2> QED  BY <1>1, <1>4, <2>1 DEF SavedWell
<1> QED  BY <1>2, <1>3, <1>4 DEF SaveEnds, SavedWell, SaveConflicts, SaveFails

-----------------------------------------------------------------------------
\* A window that goes stops the services.
LEMMA GoneIs ==
    ASSUME NEW q, NEW a, NEW ends, Gone(q, a, ends)
    PROVE  window' = "gone" /\ prompt' = Nothing /\ app' \in Apps /\ app'.services = FALSE
<1> DEFINE on == a.running /\ platform = "darwin" /\ ~ends /\ ~q.armed
<1>1. on \in BOOLEAN  OBVIOUS
<1>2. app' = [services |-> FALSE, dashboard |-> FALSE, running |-> on]  BY DEF Gone
<1>3. window' = "gone" /\ prompt' = Nothing  BY DEF Gone
<1> HIDE DEF on
<1> QED  BY <1>1, <1>2, <1>3 DEF Apps

\* A window that is asked to close.
LEMMA AskedIs ==
    ASSUME ShellInv, window # "gone", NEW q \in Quits, NEW a \in Apps, NEW ends \in BOOLEAN,
           AskToClose(q, a, ends)
    PROVE  /\ window' \in {"shown", "hidden", "gone"} /\ prompt' \in Prompting /\ app' \in Apps
           /\ window' = "gone" => app'.services = FALSE
           /\ app'.services = TRUE => a.services = TRUE
           /\ q.quitting = TRUE /\ app'.services = TRUE => prompt' # Nothing
           /\ platform = "darwin" /\ window' = "gone" => dirtyBit = FALSE
<1> USE ShellAssumption DEF Apps, Quits, Prompting
<1>0. prompt \in Prompting /\ window \in {"shown", "hidden", "gone"} /\ dirtyBit \in BOOLEAN
  BY DEF ShellInv, ShellTypeOK
<1>1. CASE Prompts(q)  BY <1>0, <1>1 DEF AskToClose, Prompts
<1>2. CASE ~Prompts(q) /\ Hides(q)  BY <1>0, <1>2 DEF AskToClose, Hides
<1>3. CASE ~Prompts(q) /\ ~Hides(q)
  <2>1. window' = "gone" /\ prompt' = Nothing /\ app'.services = FALSE /\ app' \in Apps
    BY <1>3, GoneIs DEF AskToClose
  <2>2. platform = "darwin" => dirtyBit = FALSE  BY <1>0, <1>3 DEF Prompts, Hides
  <2> QED  BY <2>1, <2>2
<1> QED  BY <1>1, <1>2, <1>3

\* While a close does not overtake the dirty bit, who acts on a text that is not saved finds
\* the bit set.
LEMMA BitIsTrue ==
    ASSUME ShellInv, Lag = FALSE, UserActs, dirtyBit = FALSE, alive = TRUE
    PROVE  ~dirty
  BY DEF UserActs

\* While that is so, a window that is asked to close loses no text.
LEMMA AskedKeeps ==
    ASSUME ShellInv, Lag = FALSE, UserActs, window # "gone", NEW a \in Apps, NEW ends \in BOOLEAN,
           quit' \in Quits, AskToClose(quit', a, ends),
           quit'.quitting = TRUE /\ a.services = TRUE => quit'.armed = TRUE,
           UNCHANGED <<editorVars, platform, alive, dirtyBit>>
    PROVE  /\ window' \in {"shown", "hidden", "gone"} /\ prompt' \in Prompting /\ app' \in Apps
           /\ Quitting'
<1>1. /\ window' \in {"shown", "hidden", "gone"} /\ prompt' \in Prompting /\ app' \in Apps
      /\ window' = "gone" => app'.services = FALSE
      /\ app'.services = TRUE => a.services = TRUE
      /\ quit'.quitting = TRUE /\ app'.services = TRUE => prompt' # Nothing
      /\ platform = "darwin" /\ window' = "gone" => dirtyBit = FALSE
  BY AskedIs
<1>2. ASSUME platform = "darwin", window' = "gone", alive = TRUE PROVE ~dirty'
  <2>1. ~dirty  BY <1>1, <1>2, BitIsTrue
  <2> QED  BY <2>1 DEF dirty, editorVars
<1>3. platform' = platform /\ alive' = alive  OBVIOUS
<1> QED  BY <1>1, <1>2, <1>3 DEF Quitting

\* The dialog's answer: main hears of a close, and only a close that goes on takes the window.
LEMMA ResolvedIs ==
    ASSUME ShellInv, window # "gone", NEW p, Resolve(p)
    PROVE  /\ window' \in {"shown", "hidden", "gone"} /\ prompt' \in Prompting /\ app' \in Apps
           /\ quit' \in Quits /\ quit'.armed = quit.armed
           /\ window' = "gone" => app'.services = FALSE /\ p
           /\ quit'.quitting = TRUE /\ app'.services = TRUE => quit'.armed = TRUE /\ prompt' # Nothing
<1> USE ShellAssumption DEF Apps, Quits, Prompting
<1>0. /\ prompt \in Prompting /\ window \in {"shown", "hidden"} /\ app \in Apps /\ quit \in Quits
      /\ quit.quitting = TRUE /\ app.services = TRUE => quit.armed = TRUE /\ prompt # Nothing
  BY DEF ShellInv, ShellTypeOK, Quitting
<1>1. CASE editor.asker # "close"  BY <1>0, <1>1 DEF Resolve
<1>2. CASE editor.asker = "close" /\ prompt # Nothing /\ p
  BY <1>0, <1>2, GoneIs DEF Resolve, ConfirmClose
<1>3. CASE editor.asker = "close" /\ ~(prompt # Nothing /\ p)
  <2>1. prompt' = Nothing /\ UNCHANGED <<window, app>>
    BY <1>3 DEF Resolve, ConfirmClose
  <2>2. quit' = IF prompt # Nothing /\ quit.armed THEN [quit EXCEPT !.quitting = FALSE] ELSE quit
    BY <1>3 DEF Resolve, ConfirmClose
  <2> QED  BY <1>0, <2>1, <2>2
<1> QED  BY <1>1, <1>2, <1>3

\* Every step.
LEMMA ShellStep ==
    Race = FALSE /\ Slow = FALSE /\ Lag = FALSE /\ Stacks = FALSE /\ ShellInv /\ [ShellNext]_shellVars =>
        ShellInv'
<1> SUFFICES ASSUME Race = FALSE, Slow = FALSE, Lag = FALSE, Stacks = FALSE, ShellInv,
                    [ShellNext]_shellVars
             PROVE  ShellInv'
  OBVIOUS
<1>0. /\ EditorInv /\ platform \in Platforms /\ window \in {"shown", "hidden", "gone"}
      /\ alive \in BOOLEAN /\ dirtyBit \in BOOLEAN /\ prompt \in Prompting /\ quit \in Quits
      /\ updater \in [latch : BOOLEAN, deferred : Nat, observers : Nat] /\ app \in Apps
  BY DEF ShellInv, ShellTypeOK, EditorInv, Prompting, Quits, Apps
<1> DEFINE Windowed == /\ platform' \in Platforms /\ window' \in {"shown", "hidden", "gone"}
                       /\ alive' \in BOOLEAN /\ dirtyBit' \in BOOLEAN /\ prompt' \in Prompting
                       /\ quit' \in Quits /\ app' \in Apps /\ Quitting'
           Updated == updater' \in [latch : BOOLEAN, deferred : Nat, observers : Nat] /\ Installing'
<1>a. EditorInv' /\ Windowed /\ Updated => ShellInv'
  BY DEF ShellInv, ShellTypeOK, EditorInv, Prompting, Quits, Apps
<1>b. UNCHANGED editorVars => EditorInv' /\ dirty' = dirty
  BY <1>0 DEF editorVars, EditorInv, EditorTypeOK, Editing, dirty
<1>c. UNCHANGED updater /\ quit'.armed = quit.armed => Updated
  BY <1>0 DEF ShellInv, Installing
<1>1. CASE Edit
  <2>1. EditorInv'  BY <1>0, <1>1, EditorStep DEF Edit
  <2>2. window # "gone" /\ UNCHANGED <<platform, window, alive, dirtyBit, prompt, quit, updater, app>>
    BY <1>1 DEF Edit, Present
  <2> QED  BY <1>0, <1>a, <1>c, <2>1, <2>2 DEF ShellInv, Quitting
<1>2. CASE PushDirty
  <2>1. /\ UNCHANGED <<editorVars, platform, window, alive, prompt, quit, updater, app>>
        /\ window # "gone" /\ dirtyBit' = dirty
    BY <1>2 DEF PushDirty, Present
  <2>2. dirtyBit' \in BOOLEAN  BY <1>0, <2>1 DEF dirty, EditorInv, EditorTypeOK
  <2> QED  BY <1>0, <1>a, <1>b, <1>c, <2>1, <2>2 DEF ShellInv, Quitting
<1>3. CASE Switch
  <2>1. /\ editor' = [editor EXCEPT !.asker = "switch"] /\ UNCHANGED <<disk, texts, opening, save>>
        /\ UNCHANGED <<platform, window, alive, dirtyBit, prompt, quit, updater, app>>
        /\ window # "gone"
    BY <1>3 DEF Switch, Present
  <2>2. editor' = [editor EXCEPT !.buffer = editor.buffer, !.asker = "switch"]
    BY <1>0, <2>1 DEF EditorInv, EditorTypeOK
  <2>3. EditorInv'
    BY <1>0, <2>1, <2>2, BufferKeeps DEF EditorInv, EditorTypeOK
  <2> QED  BY <1>0, <1>a, <1>c, <2>1, <2>3 DEF ShellInv, Quitting
<1>4. CASE CloseButton
  <2>1. /\ UserActs /\ window # "gone" /\ AskToClose(quit, app, FALSE)
        /\ UNCHANGED <<editorVars, platform, alive, dirtyBit, quit, updater>>
    BY <1>4 DEF CloseButton
  <2>2. Windowed
    <3>1. quit' = quit /\ (quit.quitting = TRUE /\ app.services = TRUE => quit.armed = TRUE)
      BY <2>1 DEF ShellInv, Quitting
    <3> QED  BY <1>0, <2>1, <3>1, AskedKeeps
  <2> QED  BY <1>a, <1>b, <1>c, <2>1, <2>2
<1>5. CASE Quit
  <2> DEFINE stopped == [app EXCEPT !.services = FALSE, !.dashboard = FALSE]
  <2>1. /\ UserActs /\ quit' = [quit EXCEPT !.quitting = TRUE]
        /\ UNCHANGED <<editorVars, platform, alive, dirtyBit, updater>>
    BY <1>5 DEF Quit
  <2>2. stopped \in Apps /\ stopped.services = FALSE  BY <1>0 DEF Apps
  <2>3. quit' \in Quits /\ quit'.armed = quit.armed  BY <1>0, <2>1 DEF Quits
  <2>4. Windowed
    <3>1. CASE window = "gone"
      <4>1. app' = [stopped EXCEPT !.running = FALSE] /\ UNCHANGED <<window, prompt>>
        BY <1>5, <3>1 DEF Quit
      <4>2. app' \in Apps /\ app'.services = FALSE  BY <2>2, <4>1 DEF Apps
      <4> QED  BY <1>0, <1>b, <2>1, <2>3, <4>1, <4>2 DEF ShellInv, Quitting
    <3>2. CASE window # "gone"
      <4>1. AskToClose(quit', stopped, TRUE)  BY <1>5, <3>2 DEF Quit
      <4> HIDE DEF stopped
      <4> QED  BY <1>0, <2>1, <2>2, <2>3, <3>2, <4>1, AskedKeeps
    <3> QED  BY <3>1, <3>2
  <2> QED  BY <1>a, <1>b, <1>c, <2>1, <2>3, <2>4
<1>6. CASE Activate
  <2>1. /\ window = "hidden" /\ window' = "shown"
        /\ UNCHANGED <<editorVars, platform, alive, dirtyBit, prompt, quit, updater, app>>
    BY <1>6 DEF Activate
  <2> QED  BY <1>0, <1>a, <1>b, <1>c, <2>1 DEF ShellInv, Quitting
<1>7. CASE OpenDashboard \/ CloseDashboard
  <2>1. /\ app' = [app EXCEPT !.dashboard = TRUE] \/ app' = [app EXCEPT !.dashboard = FALSE]
        /\ UNCHANGED <<editorVars, platform, window, alive, dirtyBit, prompt, quit, updater>>
    BY <1>7 DEF OpenDashboard, CloseDashboard
  <2>2. app' \in Apps /\ app'.services = app.services  BY <1>0, <2>1 DEF Apps
  <2> QED  BY <1>0, <1>a, <1>b, <1>c, <2>1, <2>2 DEF ShellInv, Quitting
<1>8. CASE RequestClose
  <2>1. /\ window # "gone" /\ prompt = "sent"
        /\ UNCHANGED <<disk, texts, opening, save, platform, alive, dirtyBit, updater>>
    BY <1>8 DEF RequestClose, Present
  <2>2. CASE dirty
    <3>1. /\ editor' = [editor EXCEPT !.asker = "close"] /\ prompt' = "asked"
          /\ UNCHANGED <<window, app, quit>>
      BY <1>8, <2>2 DEF RequestClose
    <3>2. editor' = [editor EXCEPT !.buffer = editor.buffer, !.asker = "close"]
      BY <1>0, <3>1 DEF EditorInv, EditorTypeOK
    <3>3. EditorInv'
      BY <1>0, <2>1, <3>2, BufferKeeps DEF EditorInv, EditorTypeOK
    <3>4. Windowed
      BY <1>0, <2>1, <3>1, ShellAssumption DEF ShellInv, Quitting, Prompting
    <3> QED  BY <1>a, <1>c, <2>1, <3>1, <3>3, <3>4
  <2>3. CASE ~dirty
    <3>1. Gone(quit, app, FALSE) /\ UNCHANGED <<editor, quit>>
      BY <1>8, <2>3 DEF RequestClose
    <3>2. EditorInv' /\ dirty' = dirty  BY <1>b, <2>1, <3>1 DEF editorVars
    <3>3. window' = "gone" /\ prompt' = Nothing /\ app' \in Apps /\ app'.services = FALSE
      BY <3>1, GoneIs
    <3>4. Windowed  BY <1>0, <2>1, <2>3, <3>1, <3>2, <3>3 DEF Quitting, Prompting
    <3> QED  BY <1>a, <1>c, <2>1, <3>1, <3>2, <3>4
  <2> QED  BY <2>2, <2>3
<1>9. CASE AnswerDiscard
  <2>1. /\ window # "gone" /\ editor' = Discarded /\ Resolve(TRUE)
        /\ UNCHANGED <<disk, texts, opening, save, platform, alive, dirtyBit, updater>>
    BY <1>9 DEF AnswerDiscard, Present
  <2>2. EditorInv' /\ ~dirty'
    BY <1>0, <2>1, BufferKeeps DEF Discarded, EditorInv, EditorTypeOK, dirty
  <2> HIDE DEF Resolve
  <2>3. Windowed /\ quit'.armed = quit.armed
    BY <1>0, <2>1, <2>2, ResolvedIs DEF Quitting
  <2> QED  BY <1>a, <1>c, <2>1, <2>2, <2>3
<1>10. CASE AnswerCancel
  <2>1. /\ window # "gone" /\ editor' = [editor EXCEPT !.asker = Nothing] /\ Resolve(FALSE)
        /\ UNCHANGED <<disk, texts, opening, save, platform, alive, dirtyBit, updater>>
    BY <1>10 DEF AnswerCancel, Present
  <2>2. editor' = [editor EXCEPT !.buffer = editor.buffer, !.asker = Nothing]
    BY <1>0, <2>1 DEF EditorInv, EditorTypeOK
  <2>3. EditorInv'  BY <1>0, <2>1, <2>2, BufferKeeps DEF EditorInv, EditorTypeOK
  <2>4. Windowed /\ quit'.armed = quit.armed
    BY <1>0, <2>1, ResolvedIs DEF Quitting
  <2> QED  BY <1>a, <1>c, <2>1, <2>3, <2>4
<1>11. CASE AnswerSave
  <2>1. /\ window # "gone" /\ RunSave(editor.mtime, editor.base)
        /\ UNCHANGED <<disk, texts, editor, opening, platform, window, alive, dirtyBit, prompt,
                       quit, updater, app>>
    BY <1>11 DEF AnswerSave, Present
  <2>2. EditorInv'  BY <1>0, <2>1, RunSaveKeeps
  <2> QED  BY <1>0, <1>a, <1>c, <2>1, <2>2 DEF ShellInv, Quitting
<1>12. CASE SaveReturns
  <2>1. /\ window # "gone" /\ SaveEnds /\ Resolve(SavedWell)
        /\ UNCHANGED <<platform, alive, dirtyBit, updater>>
    BY <1>12 DEF SaveReturns, Present
  <2>2. EditorInv' /\ (SavedWell => ~dirty')  BY <1>0, <2>1, SaveEndsKeeps
  <2>3. Windowed /\ quit'.armed = quit.armed
    <3>1. /\ window' \in {"shown", "hidden", "gone"} /\ prompt' \in Prompting /\ app' \in Apps
          /\ quit' \in Quits /\ quit'.armed = quit.armed
          /\ window' = "gone" => app'.services = FALSE /\ SavedWell
          /\ quit'.quitting = TRUE /\ app'.services = TRUE =>
               quit'.armed = TRUE /\ prompt' # Nothing
      BY <2>1, ResolvedIs
    <3> QED  BY <1>0, <2>1, <2>2, <3>1 DEF Quitting
  <2> QED  BY <1>a, <1>c, <2>1, <2>2, <2>3
<1>13. CASE PromptTimer
  <2>1. /\ alive # TRUE /\ Gone(quit, app, FALSE)
        /\ UNCHANGED <<editorVars, platform, alive, dirtyBit, quit, updater>>
    BY <1>13 DEF PromptTimer
  <2>2. window' = "gone" /\ prompt' = Nothing /\ app' \in Apps /\ app'.services = FALSE
    BY <2>1, GoneIs
  <2> QED  BY <1>0, <1>a, <1>b, <1>c, <2>1, <2>2 DEF Quitting, Prompting
<1>14. CASE RendererDies
  <2>1. /\ window # "gone" /\ alive' = FALSE
        /\ UNCHANGED <<editorVars, platform, window, dirtyBit, prompt, quit, updater, app>>
    BY <1>14 DEF RendererDies, Present
  <2> QED  BY <1>0, <1>a, <1>b, <1>c, <2>1 DEF ShellInv, Quitting
<1>15. CASE InstallUpdate
  <2>1. /\ window # "gone" /\ UserActs /\ UNCHANGED <<editorVars, platform, alive, dirtyBit>>
    BY <1>15 DEF InstallUpdate, Present
  <2>2. CASE quit.armed = TRUE
    <3>1. /\ quit' = [quit EXCEPT !.quitting = TRUE] /\ AskToClose(quit', app, FALSE)
          /\ UNCHANGED updater
      BY <1>15, <2>2 DEF InstallUpdate
    <3>2. quit' \in Quits /\ quit'.armed = TRUE  BY <1>0, <2>2, <3>1 DEF Quits
    <3>3. Windowed  BY <1>0, <2>1, <3>1, <3>2, AskedKeeps
    <3> QED  BY <1>a, <1>b, <1>c, <2>1, <2>2, <3>1, <3>2, <3>3
  <2>3. CASE quit.armed = FALSE
    <3>1. /\ updater.latch = FALSE /\ updater' = [updater EXCEPT !.latch = TRUE, !.deferred = @ + 1]
          /\ UNCHANGED <<window, prompt, quit, app>>
      BY <1>0, <1>15, <2>3 DEF InstallUpdate
    <3>2. Updated
      <4>1. updater.deferred = 0 /\ updater.observers = 0
        BY <2>3, <3>1 DEF ShellInv, Installing
      <4>2. updater' = [updater EXCEPT !.latch = TRUE, !.deferred = 1]  BY <3>1, <4>1
      <4>3. /\ updater' \in [latch : BOOLEAN, deferred : Nat, observers : Nat]
            /\ updater'.latch = TRUE /\ updater'.deferred = 1 /\ updater'.observers = 0
        BY <1>0, <4>1, <4>2
      <4>4. quit'.armed = FALSE  BY <2>3, <3>1
      <4> QED  BY <4>3, <4>4 DEF Installing
    <3>3. Windowed  BY <1>0, <1>b, <2>1, <3>1 DEF ShellInv, Quitting
    <3> QED  BY <1>a, <1>b, <2>1, <3>2, <3>3
  <2> QED  BY <1>0, <2>2, <2>3 DEF Quits
<1>16. CASE NativeQuit
  <2> DEFINE next == IF platform = "darwin" THEN app
                     ELSE [app EXCEPT !.services = FALSE, !.dashboard = FALSE]
  <2>1. /\ window # "gone" /\ updater.deferred > 0 /\ UserActs
        /\ quit' = [quitting |-> TRUE, armed |-> TRUE]
        /\ updater' = [updater EXCEPT !.deferred = 0, !.observers = @ + updater.deferred]
        /\ AskToClose(quit', next, TRUE)
        /\ UNCHANGED <<editorVars, platform, alive, dirtyBit>>
    BY <1>16 DEF NativeQuit
  <2>2. next \in Apps  BY <1>0 DEF Apps
  <2>3. quit' \in Quits /\ quit'.armed = TRUE  BY <2>1 DEF Quits
  <2>4. Updated
    <3>1. updater.deferred = 1 /\ updater.observers = 0
      BY <1>0, <2>1 DEF ShellInv, Installing
    <3>2. updater' = [updater EXCEPT !.deferred = 0, !.observers = 1]  BY <2>1, <3>1
    <3> QED  BY <1>0, <2>3, <3>2 DEF Installing
  <2> HIDE DEF next
  <2>5. Windowed  BY <1>0, <2>1, <2>2, <2>3, AskedKeeps
  <2> QED  BY <1>a, <1>b, <2>1, <2>4, <2>5
<1>17. CASE UpdaterError
  <2>1. /\ updater' = [updater EXCEPT !.latch = FALSE, !.deferred = 0]
        /\ UNCHANGED <<editorVars, platform, window, alive, dirtyBit, prompt, quit, app>>
    BY <1>17 DEF UpdaterError
  <2>2. Updated  BY <1>0, <2>1 DEF ShellInv, Installing
  <2> QED  BY <1>0, <1>a, <1>b, <2>1, <2>2 DEF ShellInv, Quitting
<1>18. CASE UNCHANGED shellVars
  BY <1>0, <1>a, <1>b, <1>c, <1>18 DEF shellVars, ShellInv, Quitting
<1> QED
  BY <1>1, <1>2, <1>3, <1>4, <1>5, <1>6, <1>7, <1>8, <1>9, <1>10, <1>11, <1>12, <1>13, <1>14,
     <1>15, <1>16, <1>17, <1>18 DEF ShellNext

\* The invariant is stronger than what it is for.
LEMMA ShellInvIsOrderly ==
    ShellInv => QuitIsOrderly /\ (SaveWrite => disk.text = save.over)
<1> SUFFICES ASSUME ShellInv PROVE QuitIsOrderly /\ (SaveWrite => disk.text = save.over)
  OBVIOUS
<1>1. alive \in BOOLEAN /\ quit \in Quits /\ app \in Apps
  BY DEF ShellInv, ShellTypeOK, Quits, Apps
<1>2. QuitAsksFirst  BY <1>1 DEF ShellInv, Quitting, QuitAsksFirst, UnsavedIsKept
<1>3. ObserverOnce  BY <1>1 DEF ShellInv, Installing, ObserverOnce, Quits
<1>4. CancelledUpdateHides  BY <1>1 DEF ShellInv, Quitting, CancelledUpdateHides, Quits, Apps
<1>5. SaveWrite => disk.text = save.over  BY DEF ShellInv, Editing, SaveWrite, Saving
<1> QED  BY <1>2, <1>3, <1>4, <1>5 DEF QuitIsOrderly

-----------------------------------------------------------------------------
(* The main process.  A step of one part leaves the others alone.          *)

LEMMA PartStart ==
    Init => /\ PluginsInit /\ UsageInit /\ ReviewInit /\ StartupInit /\ BridgesInit /\ InstallInit
            /\ SettingsInit /\ InsightsInit /\ ShellInit
  BY DEF Init

LEMMA PartSteps ==
    ASSUME [Next]_vars
    PROVE  /\ [PluginsNext]_pluginVars /\ [UsageNext]_usageVars /\ [ReviewNext]_reviewVars
           /\ [StartupNext]_startupVars /\ [BridgesNext]_bridgeVars /\ [InstallNext]_installVars
           /\ [SettingsNext]_settingsVars /\ [InsightsNext]_insightsVars
           /\ [ShellNext]_shellVars
<1>1. CASE Next  BY <1>1 DEF Next, Others
<1>2. CASE UNCHANGED vars  BY <1>2 DEF vars
<1> QED  BY <1>1, <1>2

\* Theorem: however the config file, the toggle, the timers of the probe and the binary
\* interleave, with all at rest a plugin runs if and only if the file on disk enables it and
\* its binary answers (reconcile, setEnabled).
THEOREM SwitchCorrect == Spec => []SwitchIsObeyed
<1>1. Init => SwitchInv  BY PartStart, PluginsStart
<1>2. SwitchInv /\ [Next]_vars => SwitchInv'  BY PartSteps, SwitchStep
<1> QED  BY <1>1, <1>2, SwitchInvIsObeyed, PTL DEF Spec

\* Theorem: and its feed lives with it: one that was stopped shows nothing, holds no
\* connection and has at most one, as long as no snapshot of the store is answered while a
\* socket is dialled (reconcile, stopAll and the feed they start and stop).
THEOREM PluginCorrect == Eager = FALSE => (Spec => []PluginIsHonest)
<1> SUFFICES ASSUME Eager = FALSE PROVE Spec => []PluginIsHonest  OBVIOUS
<1> DEFINE PluginInv == SwitchInv /\ FeedTypes /\ FeedInv
<1>1. Init => PluginInv  BY PartStart, PluginsStart
<1>2. PluginInv /\ [Next]_vars => PluginInv'  BY PartSteps, SwitchStep, FeedStep
<1>3. PluginInv => PluginIsHonest  BY SwitchInvIsObeyed DEF FeedInv, PluginIsHonest
<1> QED  BY <1>1, <1>2, <1>3, PTL DEF Spec

\* Theorem: whatever settings are written and whenever the worker dies, it is forked no more
\* often than its budget before it is ready, and a host without a worker leaves no read
\* waiting, and is switched off or has given up (usage-host.ts).
THEOREM BudgetCorrect == Spec => []BudgetIsHonest
<1>1. Init => BudgetInv  BY PartStart, UsageStart
<1>2. BudgetInv /\ [Next]_vars => BudgetInv'  BY PartSteps, BudgetStep
<1> QED  BY <1>1, <1>2, BudgetInvIsHonest, PTL DEF Spec

\* Theorem: for any logs, spoilt ones too, through appends, rotations, sweeps cut short,
\* crashes and rebuilds, the ledger counts every line once, in memory and on disk, as long as
\* a log that was sealed grows no more and a rotated one not behind an offset (sweep.ts).
THEOREM UsageCorrect == Reseal = FALSE /\ Regrow = FALSE => (Spec => []UsageIsExact)
<1> SUFFICES ASSUME Reseal = FALSE, Regrow = FALSE PROVE Spec => []UsageIsExact  OBVIOUS
<1>1. Init => LedgerInv /\ BudgetInv  BY PartStart, UsageStart
<1>2. LedgerInv /\ BudgetInv /\ [Next]_vars => (LedgerInv /\ BudgetInv)'
  BY PartSteps, LedgerStep, BudgetStep
<1>3. LedgerInv /\ BudgetInv => UsageIsExact  BY LedgerInvIsExact, BudgetInvIsHonest DEF UsageIsExact
<1> QED  BY <1>1, <1>2, <1>3, PTL DEF Spec

\* Theorem: whatever is turned on, off and wiped, and whenever the worker dies or is slow to
\* close: nothing that was wiped is in the store, in the outbox or on its way there; between
\* transitions nobody collects without consent, and with it spans reach a worker that can
\* write while its budget lasts; and when a worker answers a drain, the outbox is stored; as
\* long as no worker dies before it spawned while consent is off (insights-host.ts).
THEOREM InsightsCorrect == EarlyExit = FALSE => (Spec => []InsightsAreFaithful)
<1> SUFFICES ASSUME EarlyExit = FALSE PROVE Spec => []InsightsAreFaithful  OBVIOUS
<1>1. Init => InsightsInv  BY PartStart, InsightsStart
<1>2. InsightsInv /\ [Next]_vars => InsightsInv'  BY PartSteps, InsightsStep
<1> QED  BY <1>1, <1>2, InsightsInvIsFaithful, PTL DEF Spec

\* Theorem: no token is counted twice or forgotten, and no span is kept after a wipe, without
\* consent or lost in a drain, under the hypotheses of the two before (sweep.ts,
\* insights-host.ts).
THEOREM TelemetryCorrect ==
    Reseal = FALSE /\ Regrow = FALSE /\ EarlyExit = FALSE => (Spec => []TelemetryIsExact)
<1>1. UsageIsExact /\ InsightsAreFaithful => TelemetryIsExact  BY DEF TelemetryIsExact
<1> QED  BY <1>1, UsageCorrect, InsightsCorrect, PTL

\* Theorem: whatever is typed, saved, quit and updated, in the editor, in the dialogs or by an
\* agent: no window goes with a text nobody saved or discarded on a Mac, the updater's observer
\* is registered once, a quit for an update that was called off hides again, and a save
\* replaces only what the user had seen or agreed to overwrite; as long as nobody writes
\* between two system calls of a save, the user answers in time, no close overtakes the dirty
\* bit and an updater error ends the deferred install (close-gate.ts, lifecycle.ts,
\* update-service.ts, InlineEditor.tsx, file-service.ts).
THEOREM ClosingCorrect ==
    Race = FALSE /\ Slow = FALSE /\ Lag = FALSE /\ Stacks = FALSE =>
        (Spec => []QuitIsOrderly /\ NoBlindOverwrite)
<1> SUFFICES ASSUME Race = FALSE, Slow = FALSE, Lag = FALSE, Stacks = FALSE
             PROVE  Spec => []QuitIsOrderly /\ NoBlindOverwrite
  OBVIOUS
<1>1. Init => ShellInv  BY PartStart, ShellStart
<1>2. ShellInv /\ [Next]_vars => ShellInv'  BY PartSteps, ShellStep
<1>3. ShellInv => QuitIsOrderly /\ [SaveWrite => disk.text = save.over]_editorVars
  BY ShellInvIsOrderly
<1> QED  BY <1>1, <1>2, <1>3, PTL DEF Spec, NoBlindOverwrite

\* Theorem: an open comment goes only with its worktree, by its own deletion or a restart of
\* the app (bulkRemoveAddressed, deleteComment).
THEOREM CommentsStay == Spec => NoneVanishes
<1> DEFINE Stays ==
      \A c \in Comments :
         comments[c] # NoComment /\ comments'[c] = NoComment =>
           \/ comments[c].status = "addressed" /\ comments[c].at = pane.at
           \/ Delete(c) \/ StartAgain
           \/ \E p \in Places : comments[c].at = p /\ RemovePlace(p)
<1>1. Init => ReviewTypes  BY PartStart, ReviewStart
<1>2. ReviewTypes /\ [Next]_vars => ReviewTypes'  BY PartSteps, ReviewStep
<1>3. ReviewTypes /\ [Next]_vars => [Stays]_reviewVars
  <2> SUFFICES ASSUME ReviewTypes, [Next]_vars, ~UNCHANGED reviewVars PROVE Stays  OBVIOUS
  <2> QED  BY PartSteps, NoneVanishesStep
<1>4. NoneVanishes <=> [][Stays]_reviewVars  BY DEF NoneVanishes
<1> HIDE DEF Stays
<1> QED  BY <1>1, <1>2, <1>3, <1>4, PTL DEF Spec

\* Theorem: for any comments and worktrees, the file holds what the store answered for, the
\* pane shows what the store has once its news are read, no open comment vanishes, and an
\* agent gets the true answer about its worktree; as long as a change waits for the save
\* of the last one and listings of worktrees end in the order they began
\* (review-comment-store.ts, ai14all-mcp-server.ts and its bridges).
THEOREM ReviewsCorrect == Piles = FALSE /\ Jumbled = FALSE => (Spec => ReviewsAreShared)
<1> SUFFICES ASSUME Piles = FALSE, Jumbled = FALSE PROVE Spec => ReviewsAreShared  OBVIOUS
<1> DEFINE ReviewInv == ReviewTypes /\ SavesInv /\ PaneInv
<1>1. Init => ReviewInv  BY PartStart, ReviewStart
<1>2. ReviewInv /\ [Next]_vars => ReviewInv'  BY PartSteps, ReviewStep
<1>3. ReviewInv => SavedIsHeld /\ PaneFollows  BY EmptySeq DEF SavesInv, PaneInv, SavedIsHeld, PaneFollows
<1>4. Init => BridgeInv  BY PartStart, BridgesStart
<1>5. BridgeInv /\ [Next]_vars => BridgeInv'  BY PartSteps, BridgesStep
<1>6. BridgeInv => AgentsAreAnswered  BY BridgeInvIsAnswered
<1>7. Spec => []SavedIsHeld /\ []PaneFollows
  BY <1>1, <1>2, <1>3, PTL DEF Spec
<1>8. Spec => []AgentsAreAnswered
  BY <1>4, <1>5, <1>6, PTL DEF Spec
<1> QED  BY <1>7, <1>8, CommentsStay DEF ReviewsAreShared, ReviewsAreHonest

\* Theorem: for any repositories and worktrees, whatever fails while the saved workspaces are
\* offered, restored, declined or cleaned, and whenever the app ends, the file holds every
\* saved session that waits for its worktree or for a decision, as long as the picker loads no
\* repository that is open (workspace-persistence-service.ts, App.tsx).
THEOREM StartupCorrect == Reopens = FALSE => (Spec => []SavedIsKept)
<1> SUFFICES ASSUME Reopens = FALSE PROVE Spec => []SavedIsKept  OBVIOUS
<1>1. Init => StartupInv  BY PartStart, StartupStart
<1>2. StartupInv /\ [Next]_vars => StartupInv'  BY PartSteps, StartupStep
<1> QED  BY <1>1, <1>2, StartupIsSafe, PTL DEF Spec

\* Theorem: whatever read or write fails, an install that said it went well did both, it
\* replaces no skill that it could read by an older one and loses no server of the user; the
\* strip is dismissed for the gap that was seen; and an older profile is shown the tour only
\* in a start that could not read what it saved, or once that is lost; as long as nobody
\* writes a file between the installer's read and its write, the strip waits for the first
\* listing, and the app is not left while a new user's tour waits to be seen
\* (guardedWriteSkill, readMcpJson, reconcileDismissed, shouldRetroMark).
THEOREM InstallCorrect ==
    Meddles = FALSE /\ Early = FALSE /\ Interrupts = FALSE => (Spec => InstallIsSafe)
<1> SUFFICES ASSUME Meddles = FALSE, Early = FALSE, Interrupts = FALSE
             PROVE  Spec => InstallIsSafe
  OBVIOUS
<1> DEFINE FirstInv == JobInv /\ WriteInv /\ TheirsInv /\ StripInv /\ TourTypes /\ TourInv
           NoneOlder == \A s \in Skills : skills'[s] < skills[s] =>
                          skills'[s] = 0 \/ (installing.blind /\ s = installing.i)
<1>1. Init => FirstInv  BY PartStart, InstallStart
<1>2. FirstInv /\ [Next]_vars => FirstInv'  BY PartSteps, JobStep, WriteStep, StripStep, TourStep
<1>3. FirstInv => FirstStepsAreSafe
  BY JobInvIsInstalled, StripInvHolds, TourInvIsFair DEF TheirsInv, FirstStepsAreSafe
<1>4. FirstInv /\ [Next]_vars => [NoneOlder]_skills  BY PartSteps, WriteStep
<1>5. SkillsAreSafe <=> [][NoneOlder]_skills  BY DEF SkillsAreSafe
<1> HIDE DEF FirstInv, NoneOlder
<1> QED  BY <1>1, <1>2, <1>3, <1>4, <1>5, PTL DEF Spec, InstallIsSafe

\* Theorem: whoever patches the settings and however the writes, the answers and the news of
\* them interleave, no acknowledged patch is lost, with nothing under way and no write refused
\* the dialog, the font menu, the usage bridge and the file agree, and the dialog never shows
\* an older value again; as long as no read of the file overlaps a write
\* (settings-service.ts, use-settings.tsx, use-terminal-font-size.ts).
THEOREM SettingsCorrect == Peeks = FALSE => (Spec => SettingsAreHonest)
<1> SUFFICES ASSUME Peeks = FALSE PROVE Spec => SettingsAreHonest  OBVIOUS
<1> DEFINE NotBack == \/ \A k \in Setting : dialog.shown[k] <= dialog'.shown[k]
                      \/ failed \/ ReloadWindow \/ Relaunch
<1>1. Init => SettingsInv  BY PartStart, SettingsStart
<1>2. SettingsInv /\ [Next]_vars => SettingsInv'  BY PartSteps, SettingsStep
<1>3. SettingsInv /\ [Next]_vars => [NotBack]_settingsVars
  <2> SUFFICES ASSUME SettingsInv, [Next]_vars PROVE NotBack  OBVIOUS
  <2> QED  BY PartSteps, SettingsStep DEF NoNewer
<1>4. NeverRewound <=> [][NotBack]_settingsVars  BY DEF NeverRewound
<1> HIDE DEF NotBack
<1> QED  BY <1>1, <1>2, <1>3, <1>4, SettingsHold, PTL DEF Spec, SettingsAreHonest

\* Theorem: what is on disk holds what the user set and every saved session that waits, under
\* the conditions of the two theorems above.
THEOREM StateCorrect == Peeks = FALSE /\ Reopens = FALSE => (Spec => StateIsKept)
  BY StartupCorrect, SettingsCorrect DEF StateIsKept

==============================================================================
