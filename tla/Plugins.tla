--------------------------------- MODULE Plugins ---------------------------------
(***************************************************************************)
(* One ecosystem plugin: its switch in config.toml, the probe of its       *)
(* binary, the registry's chain of reconciliations and, for whisper, the   *)
(* event socket of a collab.  src/services/plugins/plugin-registry.ts,     *)
(* plugin-config.ts, capability-probe-service.ts, plugin-ipc.ts and        *)
(* whisper/whisper-driver.ts.                                              *)
(*                                                                         *)
(* The watcher of the file reports every write once, in its own time, and  *)
(* `writes` counts the reports to come; the TTL of the cache and the 30 s  *)
(* after a failed attach pass at any time.                                 *)
(***************************************************************************)
EXTENDS Integers

CONSTANTS Unknown,     \* nothing probed, nothing captured
          MaxWrites,   \* bound: reports of the watcher under way
          MaxJobs,     \* bound: reconciliations in the chain
          MaxReads,    \* bound: snapshots of the whisper store under way
          Eager        \* BOOLEAN: a snapshot may come while a socket is attached

VARIABLES config,      \* [disk, memory, mute, writes]: the switch and its watcher
          binary,      \* what a probe finds: "installed", "missing" or "broken"
          cache,       \* Unknown, "busy" or the cached result
          chain,       \* [jobs, waits, enabled, hit]: the reconciliation at work, those behind
          entry,       \* [probe, running, degraded]
          feed,        \* [live, reads, dialing, held, open, dead, shown]: whisper
          quitting     \* before-quit has been handled

pluginVars == <<config, binary, cache, chain, entry, feed, quitting>>

Results == {"installed", "missing"}
Quiet == feed.dialing = 0 \/ Eager

PluginsInit ==
    /\ \E on \in BOOLEAN :
         config = [disk |-> on, memory |-> on, mute |-> FALSE, writes |-> 0]
    /\ binary \in Results
    /\ cache = Unknown
    /\ chain = [jobs |-> 1, waits |-> FALSE, enabled |-> Unknown, hit |-> Unknown]
    /\ entry = [probe |-> Unknown, running |-> FALSE, degraded |-> FALSE]
    /\ feed = [live |-> FALSE, reads |-> 0, dialing |-> 0, held |-> FALSE, open |-> 0,
               dead |-> FALSE, shown |-> "nothing"]
    /\ quitting = FALSE

-----------------------------------------------------------------------------
(* The whisper driver and one collab.                                        *)

\* start(): the watcher of the store reads at once.
Started == [feed EXCEPT !.live = TRUE, !.reads = @ + 1]

\* stop(): the clients of the map are closed, the lens is cleared.
Stopped == [feed EXCEPT !.live = FALSE, !.held = FALSE, !.dead = FALSE,
                        !.open = IF feed.held THEN @ - 1 ELSE @,
                        !.shown = "nothing"]

\* tick() or refresh(): the store is read.
ReadStore ==
    /\ feed.live /\ feed.reads < MaxReads /\ Quiet
    /\ feed' = [feed EXCEPT !.reads = @ + 1]
    /\ UNCHANGED <<config, binary, cache, chain, entry, quitting>>

\* publish(): the collab is attached when it is neither held nor given up.
Publish ==
    /\ feed.reads > 0
    /\ feed' = IF ~feed.live THEN [feed EXCEPT !.reads = @ - 1]
               ELSE [feed EXCEPT !.reads = @ - 1,
                                 !.dialing = IF feed.held \/ feed.dead \/ ~Quiet
                                             THEN @ ELSE @ + 1,
                                 !.shown = IF feed.held THEN "socket" ELSE "polling"]
    /\ UNCHANGED <<config, binary, cache, chain, entry, quitting>>

\* attachSocket(), after the await: the hello came, and finds a stopped driver.
Attached ==
    /\ feed.dialing > 0
    /\ feed' = IF feed.live
               THEN [feed EXCEPT !.dialing = @ - 1, !.held = TRUE, !.open = @ + 1]
               ELSE [feed EXCEPT !.dialing = @ - 1]
    /\ UNCHANGED <<config, binary, cache, chain, entry, quitting>>

\* ... or there is no socket, no hello in time or the wrong version.
NotAttached ==
    /\ feed.dialing > 0
    /\ feed' = [feed EXCEPT !.dialing = @ - 1, !.dead = TRUE]
    /\ UNCHANGED <<config, binary, cache, chain, entry, quitting>>

\* onClose: the daemon is gone or talks garbage.
SocketCloses ==
    /\ feed.open > 0
    /\ feed' = [feed EXCEPT !.open = @ - 1, !.held = FALSE, !.dead = TRUE]
    /\ UNCHANGED <<config, binary, cache, chain, entry, quitting>>

RetryTimer ==
    /\ feed.dead
    /\ feed' = [feed EXCEPT !.dead = FALSE]
    /\ UNCHANGED <<config, binary, cache, chain, entry, quitting>>

-----------------------------------------------------------------------------
(* The configuration.                                                        *)

\* Mutant: a change during a reconciliation is left to that reconciliation.
QueuedUnlessBusy == [chain EXCEPT !.jobs = IF @ > 0 THEN @ ELSE 1]

\* queueReconcileAll.
Queued == [chain EXCEPT !.jobs = @ + 1]

\* PLUGINS_SET_ENABLED: the cache is dropped, the line is edited in the text of the
\* file, and the report of this write is to be ignored.
SetEnabled(on) ==
    /\ chain.jobs < MaxJobs /\ config.writes < MaxWrites
    /\ cache' = Unknown
    /\ config' = [config EXCEPT !.disk = on, !.memory = on, !.mute = TRUE, !.writes = @ + 1]
    /\ chain' = Queued
    /\ UNCHANGED <<binary, entry, feed, quitting>>

\* The user edits config.toml.
EditFile ==
    /\ config.writes < MaxWrites
    /\ config' = [config EXCEPT !.disk = ~@, !.writes = @ + 1]
    /\ UNCHANGED <<binary, cache, chain, entry, feed, quitting>>

\* The callback of the watcher.
WatchEvent ==
    /\ config.writes > 0
    /\ IF config.mute
       THEN /\ config' = [config EXCEPT !.mute = FALSE, !.writes = @ - 1]
            /\ UNCHANGED chain
       ELSE /\ chain.jobs < MaxJobs
            /\ config' = [config EXCEPT !.memory = config.disk, !.writes = @ - 1]
            /\ chain' = Queued
    /\ UNCHANGED <<binary, cache, entry, feed, quitting>>

\* PLUGINS_REPROBE and the focus of the window.
Reprobe ==
    /\ chain.jobs < MaxJobs
    /\ cache' = Unknown
    /\ chain' = Queued
    /\ UNCHANGED <<config, binary, entry, feed, quitting>>

-----------------------------------------------------------------------------
(* The chain.                                                                *)

\* statusOf, for the card of the plugin.
Status ==
    CASE entry.degraded -> "degraded"
      [] ~entry.degraded /\ entry.probe # "installed" -> "not-installed"
      [] OTHER -> IF config.memory /\ entry.running THEN "on" ELSE "off"

\* reconcile(), up to the probe: the switch is read, the cache may answer.
Reconcile ==
    /\ chain.jobs > 0 /\ ~chain.waits
    /\ chain' = [chain EXCEPT !.waits = TRUE, !.enabled = config.memory,
                              !.hit = IF cache \in Results THEN cache ELSE Unknown]
    /\ cache' = IF cache = Unknown THEN "busy" ELSE cache
    /\ UNCHANGED <<config, binary, entry, feed, quitting>>

\* The job of the chain that ends.
JobDone == chain' = [jobs |-> chain.jobs - 1, waits |-> FALSE, enabled |-> Unknown,
                     hit |-> Unknown]

\* ... after the probe: the driver is started or stopped.
Reconciled(found) ==
    /\ cache' = IF cache = "busy" THEN found ELSE cache
    /\ \/ /\ chain.enabled /\ found = "installed" /\ ~entry.running
          /\ \/ /\ entry' = [probe |-> found, running |-> TRUE, degraded |-> FALSE]
                /\ feed' = Started
             \/ /\ entry' = [probe |-> found, running |-> FALSE, degraded |-> TRUE]
                /\ UNCHANGED feed
       \/ /\ ~(chain.enabled /\ found = "installed") /\ entry.running
          /\ entry' = [entry EXCEPT !.probe = found, !.running = FALSE]
          /\ feed' = Stopped
       \/ /\ (chain.enabled /\ found = "installed") = entry.running
          /\ entry' = [entry EXCEPT !.probe = found]
          /\ UNCHANGED feed

\* ... the probe rejects: the plugin is stopped, and the promise leaves the cache.
Rejected ==
    /\ cache' = IF cache = "busy" THEN Unknown ELSE cache
    /\ entry' = [probe |-> Unknown, running |-> FALSE, degraded |-> TRUE]
    /\ feed' = IF entry.running THEN Stopped ELSE feed

Probed ==
    /\ chain.waits
    /\ feed.reads < MaxReads
    /\ \/ chain.hit # Unknown /\ Reconciled(chain.hit)
       \/ chain.hit = Unknown /\ binary \in Results /\ Reconciled(binary)
       \/ chain.hit = Unknown /\ binary = "broken" /\ Rejected
    /\ JobDone
    /\ UNCHANGED <<config, binary, quitting>>

\* The 60 s of a cached result; something is installed or removed.
Expire ==
    /\ cache \in Results
    /\ cache' = Unknown
    /\ UNCHANGED <<config, binary, chain, entry, feed, quitting>>

BinaryChanges ==
    /\ binary' \in (Results \cup {"broken"}) \ {binary}
    /\ UNCHANGED <<config, cache, chain, entry, feed, quitting>>

\* stopAll() of before-quit, beside the chain.
StopAll ==
    /\ ~quitting
    /\ quitting' = TRUE
    /\ entry' = [entry EXCEPT !.running = FALSE]
    /\ feed' = IF entry.running THEN Stopped ELSE feed
    /\ UNCHANGED <<config, binary, cache, chain>>

PluginsNext ==
    \/ \E on \in BOOLEAN : SetEnabled(on)
    \/ EditFile \/ WatchEvent \/ Reprobe
    \/ Reconcile \/ Probed \/ Expire \/ BinaryChanges
    \/ ReadStore \/ Publish \/ Attached \/ NotAttached \/ SocketCloses \/ RetryTimer
    \/ StopAll

-----------------------------------------------------------------------------
PluginsTypeOK ==
    /\ config \in [disk : BOOLEAN, memory : BOOLEAN, mute : BOOLEAN, writes : 0..MaxWrites]
    /\ binary \in Results \cup {"broken"}
    /\ cache \in Results \cup {Unknown, "busy"}
    /\ chain \in [jobs : 0..MaxJobs, waits : BOOLEAN, enabled : BOOLEAN \cup {Unknown},
                  hit : Results \cup {Unknown}]
    /\ entry \in [probe : Results \cup {Unknown}, running : BOOLEAN, degraded : BOOLEAN]
    /\ feed \in [live : BOOLEAN, reads : 0..MaxReads, dialing : Nat, held : BOOLEAN,
                 open : Nat, dead : BOOLEAN, shown : {"nothing", "polling", "socket"}]
    /\ quitting \in BOOLEAN

\* At rest the switch of the file is the one in memory, and the plugin runs exactly when
\* it is switched on, found and not degraded, which is what its card says; whatever was
\* toggled, edited or installed while a probe was under way (pending, reconcile).
SwitchIsObeyed ==
    chain.jobs = 0 /\ config.writes = 0 /\ ~quitting =>
      /\ config.memory = config.disk
      /\ entry.running <=> (config.memory /\ entry.probe = "installed" /\ ~entry.degraded)
      /\ entry.running <=> Status = "on"

\* The feed of whisper lives with its plugin, a stopped feed shows nothing and holds no
\* socket, however an attach or a read was under way, and no client is ever left open
\* outside the map (attachSocket, publish and stop).
FeedIsHonest ==
    /\ feed.live = entry.running
    /\ ~feed.live => feed.shown = "nothing" /\ ~feed.held
    /\ feed.open = (IF feed.held THEN 1 ELSE 0)

\* The plugin is what its switch says and its feed lives with it.
PluginIsHonest == SwitchIsObeyed /\ FeedIsHonest
=============================================================================
