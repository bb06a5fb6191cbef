# ai-14all in TLA+

ai-14all is an Electron desktop app that runs coding agents in terminals, one
session per Git worktree, and lets a paired phone follow and act on them over
XBP. This directory is its verification project: TLA+ modules translated from the
source, TLC configurations that check them on small instances, and theorems
checked by TLAPS.

Paths are relative to the repository root (`PROJECT.json` prefixes them with `src/`).

## How to read the modules

The main process, each worker and the renderer are JavaScript: a handler runs to
completion and nothing interleaves with it. So **one action is one event-loop task**
with every call it makes into other components, and a task splits in two actions
only where the code awaits, arms a timer, or sends to another process. A timer is
a flag that says it is armed and an action that fires it at any later moment (the
models have no clock: a property proved for every firing time covers the
configured ones). A test seam of the code is not modelled. Each module's header names its sources; `PROJECT.json`'s `map` names the
lines of the definitions; a small helper that lies within the lines of the definitions that use it is not listed again. Operators that appear under "Mutant:" are bugs that the
checks must catch; no specification uses them.

## Inventory

| component | state | operations | hard behaviours | what makes it correct |
|---|---|---|---|---|
| PTY inspect registry (`services/pty-inspect/pty-subscription-registry.ts`) | active subscription, watched agent, frozen size cap, requested/applied phone size, owner, gate, debounce and grace timers | subscribe, unsubscribe, pull, watch, resize, desktop focus/blur/keystroke/disconnect | phone calls, desktop input, agent exit and rebind, two timers, in any order | one owner of each terminal's size; a terminal the phone gave up returns to the desktop's size; nothing survives a detach |
| Agent catalog (`agent-pty-catalog.ts`, `pty-inspect-service.ts`) | agent → entry (terminal, live, rebind intent, deferred exit), mirror per terminal | upsert, remove, rebindIntent, terminal exit | a restart's new terminal, the old one's late exit, and the renderer's publications race | an entry that is live has a running terminal; an exit is published once |
| Terminals (`services/terminals`) | PTYs with their size, the desktop's wish, watch gates, output batches | create, write, resize, close, exit, dispose, watch resize/restore | exit while mirrors drain; sizes wished for while the phone owns | the desktop size is restored exactly |
| PTY mirror and serializer (`pty-mirror.ts`, `pty-serializer.ts`, `pty-cursor.ts`) | xterm buffer, epoch, watermark, line stamps, trim count; the phone's cursors | write, resize, tick, pages forward/backward/tail | rows change between two pages, scroll out, wrap, are cleared; replaced mirrors | the phone ends with the host's rows, whatever it missed |
| XBP host service (`xbp-host-service.ts`, `xbp-pairing-host.ts`) | enabled, LAN listener, pairing host, offer and its timer, paired device, kill switch | start, stop, setEnabled, startPairing, confirm, cancel, forget, applyRelayBaseUrl | awaits in start and stop; files and memory change one after the other | a disabled bridge does not listen; forgetting revokes everything |
| Relay registration (`relay-registration.ts`) | base URL, state, socket, backoff timer, challenge flag | setBaseUrl, stop, socket events, backoff | late events of sockets that were replaced; failures at every step | one registration at a time, never two timers, always retries |
| Attachable transport (`attachable-transport.ts`, `lan-websocket-transport.ts`) | sockets, active socket, generations | attach, frame, close | several sockets of one peer, close of the active one | a reply goes to a socket that is open |
| Peer session and capabilities (`xbp-peer-session.ts`, `xbp-acting-executor.ts`, `xbp-pty-input-executor.ts`, `xbp-grants.ts`) | attached peer, grants, last authenticated connection | attach, detach, dispatch of capabilities | replayed commands, act guards, kill switch | an act runs once, only when granted |
| Push-wake (`push-wake-*.ts`, `xbp-push-token-*.ts`) | persisted seen-state, coalescing window, push token | tick, register, deregister, send | crash between persist and send; token replaced during a send | one ping per transition at most; a token is dropped only when it is dead |
| Samantha connector (`services/plugins/samantha`) | driver generation, connection, backoff, idempotency cache, command client | start, stop, rebuild, dispatch, reconnect | rebuilds in flight during stop; retried commands | one connection; a command runs once |
| Plugin registry (`services/plugins`) | manifest, config.toml, per-plugin status, serialized chain, whisper's sockets | boot, enable, disable, refresh, stopAll, probe, config edited | a switch during a probe, a socket that attaches late, an echo of one's own write | a plugin ends in the state of its switch |
| Workspace persistence (`services/workspace`, `use-startup-restore.ts`, `use-workspace-persistence.ts`) | the file, what waits to be restored, queued writes | load, restore, decline, write | a write before the decision; worktrees nobody visited | no saved session is written away |
| Close gate, lifecycle, updater (`electron/main/close-gate.ts`, `lifecycle.ts`, `services/update-service.ts`) | two quit flags, pending prompt and its timer, installed listeners | close, quit, confirm, install, detach | a crashed renderer, a cancelled install, the red button | unsaved files are asked about; a quit ends |
| Inline editor (`InlineEditor.tsx`, `file-service.ts`) | buffer, modification time, dialogs | open, type, save, overwrite, reload | an agent writes the file meanwhile | nothing is overwritten unseen |
| Usage (`services/usage`, `usage-host.ts`, `usage-worker.ts`) | offsets, ledger, fork budget | sweep, save, fork, kill, read | worker dies between read and save; logs are sealed, truncated, unreadable | no token counted twice or lost |
| Insights (`services/insights`, `insights-host.ts`, dashboard) | consent, outbox, store, worker, notice, pending fetches | record, drain, wipe, fork, fetch | consent flips during a drain; worker dies; slow answers | nothing kept without consent; nothing shown of another range |
| MCP server and bridges (`services/mcp`, `worktree-path-resolver.ts`) | pending requests with timeouts, registered windows, listings | tool call, reply, reload, list | reply after timeout, reload, cooldown of listings | each call gets its one true answer |
| Review comments (`services/review`) | comments in memory and in a file, the pane's list | add, edit, clear, address, remove worktree | agent and user write at once; a failing save | no comment vanishes |
| Agent skills and first run (`agent-skill-installer`, onboarding) | skills, registrations, strip, tour | install, probe, dismiss, tour | a step of the install fails; a newer skill is there; a read fails | a skill that can be read is never downgraded; "installed" means it is |
| Review panel (`ReviewArea`, loaders, `use-git-actions.ts`, `features/review`, `features/git`) | summary, diff, history, remote state, editors, threads, drafts, marks | select, load, commit, push, discard, jump, comment | answers of an earlier selection, editors that leave | what is shown is of the selection, in its diff |
| Worktree dialogs (`worktree-service.ts`, `use-worktree-actions.ts`) | previews, four git commands, shells of the worktree | create, remove | others run git meanwhile; a command fails, the rollback too | rolled back, unless that is refused; nothing removed that was not confirmed |
| Code navigation (`electron/code-nav`, `features/code-nav`) | mirror, keys, refresh, models, queries, history | ingest, refresh, look up, search, back | crash during an ingest, events while refreshing | rows shown are of the index that is current |
| Workflows (`services/plugins/whisper`, `features/workflows`, archive) | snapshots, chains, orders, watermark, log files | read, push, tell, archive, roll | torn snapshots, a phase without a timestamp, a full log | what is shown and kept is what happened |
| Shells, attention, launch, workspaces, panes (renderer `src/`) | the reducer's state, bindings, mounts, registry of workspaces, xterm | dispatch, exit, restart, mount, hydrate, watch | IPC answers out of order, renders in between | a running shell is reachable; a dot is true; nothing is overbooked or lost |
| Settings (`settings-service.ts`, bridges, `use-settings.tsx`) | file, broadcasts, dialogs | patch, read, relaunch | a read during a write, answers out of order | all show what was set last |
| Shared contracts, preload, scripts, tests | none | none | none | not modelled: declarations, build tooling and test code |

**How they interact.** The phone reaches the peer session through the transport; the
peer session calls the registry, the executors and the push-token store. The registry
drives terminals through the terminal service and reads rows from the catalog's mirrors.
The renderer publishes agents to the catalog over IPC and reports focus, blur, size and
keystrokes; the terminal service reports data and exits to the renderer and the catalog.
The push-wake watcher polls the session report and sends through Expo. Workers (usage,
insights) are separate processes the main process forks, feeds and kills. Agents reach the
renderer through the MCP server and its bridges, which wait for the window's answer; the
renderer reads git, files, comments, settings and code navigation by IPC calls that may be
answered in another order than they were made.

## Modules

| module | models | extends |
|---|---|---|
| `PtySubscriptionRegistry` | `terminal-service.ts` (geometry and life of PTYs) and `pty-subscription-registry.ts` | |
| `PtyInspect` | the above with catalog, phone, renderer and PTYs | `PtySubscriptionRegistry` |
| `ViewportOwnership` | abstract: who owns a terminal's size | instantiated by `PtyInspect` |
| `PtyRows` | mirror; pages, cursors, hints and the phone's copy | |
| `PushWake` | push token and Expo sends; watcher, detectors, state file | |
| `XbpBridge` | `xbp-host-service.ts` | |
| `PhoneLink` | control channel at the relay; transport, listener and accept dials | |
| `SamanthaLink` | the Samantha driver and its command socket | |
| `RemoteCommands` | commands of Samantha and acts of the phone: grants, guards, audit, once only | `SamanthaLink` |
| `RemoteControl` | the two side by side | `RemoteCommands` |
| `Plugins`, `DesktopShell`, `Usage`, `Insights`, `Settings`, `WorkspaceStartup`, `ReviewComments`, `AgentBridges`, `AgentSkills` | a component each of the main process with the part of the window that talks to it | |
| `Desktop` | the nine side by side | all of them |
| `WorkspaceSession`, `TerminalRuntime` | layouts, planner and reducer; the shells of a worktree | the one before |
| `SidebarAgents`, `WorkspaceLifecycle` | the dot of a worktree, mounts and launches; the workspaces | |
| `Renderer` | these side by side | |
| `ReviewFlow`, `ReviewScreen`, `Worktrees`, `TerminalPanes`, `InsightsDashboard`, `CodeNav`, `WorkflowLens` | a screen each with the service behind it | |
| `Workbench` | the seven side by side | all of them |
| `MC*` | constants of the instances TLC checks, where a `.cfg` cannot hold them | the module they name |
| `*Proofs` | theorems | the module they name |

**Side by side.** `Desktop`, `Renderer`, `Workbench` and `RemoteControl` compose modules whose
components share no variables. Their variable `part` is chosen at the start and names the one
that moves; the others stay in one of their initial states. A safety property of a
component is then checked over all its behaviours, and the state space is a sum and
not a product. Components that do interact (catalog, registry and terminals;
transport and registration; switch and audit of both remote paths; editor and
close gate; inventory and shells) are in one module or one extends the other, with their
product explored.

### PtySubscriptionRegistry, PtyInspect (the core)

`PtySubscriptionRegistry` has the terminals: whether each runs, its real size, the size its
desktop pane wants, and the gate that suspends auto-fit while a phone owns it;
and the registry: the subscription, the watch (agent,
frozen cap, requested and applied size, owner) and its two timers. `PtyInspect`
composes them with the catalog, the phone, the renderer and the PTYs; its `Next` has
one action per capability handler, IPC handler, PTY event and timer.

Correspondence: `entries[a]` is the catalog's `Map`, `intent` its `rebindIntent` with
`deferredExit`; `drains[t]` is the promise a terminal's exit awaits (`mirror.drain()`);
`watch` is the registry's `watch` object and its two timers are the flags `debounce` and `grace` in it.
`told` is not in the code: it records what the renderer knew when it last published,
because its publications are computed from its own, later, view. `stopped` is the phone's
last word about a watch and serves properties only.

Abstractions: a geometry is one number; terminals are numbered in the order they are
created, and `AgentOf` fixes which agent each is created for; a failing PTY resize,
provider and labels of an entry, and the disposal of all terminals at quit are left out.
The phone may call anything at any time while it is paired and online.

`ViewportOwnership` is the abstract promise: every running terminal has one owner, desktop
or phone, and its size follows the owner. `PtyInspect` implements it
(`ImplementsOwnership`, by the refinement mapping at the end of `PtyInspect`).

Two environment flags separate the normal behaviour from the races that break it:
`RestartOverlap` (a second restart is announced while one is pending) and `StalePublish`
(a publication sent before the renderer learned of an exit). The invariants of
`pty_restart` hold with both on, and the theorems either way; `LiveIsHonest` holds only with
both off, as in `pty_switch`.

### PtyRows

The module has the mirror as a record and its methods as operators. xterm is
external: rows are texts, output is up to two controls (a line that scrolls, a line
rewritten, clear scrollback, reset, switch of the alternate screen) parsed in one
task together with the write callback, so the reset barrier is never seen pending. A
fingerprint is the row itself: hash collisions are not modelled. Over it come the
serializer's pages and cursors, the hints, and the phone, external, as the contract sees
it: it keeps rows by line, evicts at an epoch change and pages while there is more.
A hint is a wake-up without content. Two flags separate the behaviours that break a
property: `ScrollBusy` (the phone scrolls up between an output and the interval that
would hint it) and `Reruns` (the host restarts under a cursor the phone kept; without
it, it restarts only under a phone that has none).

### PushWake

The sender is the token's slot (a file, so it survives) and the send in flight with
the attempts it has left. Expo is external: it answers with a receipt, with
`DeviceNotRegistered` for a device that is gone, or not at all.
The watcher: `mem` its state, `disk` the state file, `phase` the await its
tick is at. A tick is cut at its awaits (whisper's states, the session report, the
send); comparing with what was seen, the gates (connected, coalesced, no token), the
save and the start of the send are one task, as in the code. `Restart` is a crash between
any two tasks. A failed save, a blank, rejected or throwing read and an unreadable state
file are disjuncts, bounded together by `MaxTrouble`.

Not in the code: `spent` (what stands on disk as it now is), `carried` (the events of the
send in flight) and `pinged` (when the last attempt was made); only properties read them.
Abstractions: the clock never goes back; a snapshot names each id once; `halted` is the
same as `done`, and one status stands for those the detector excludes; a state file that
cannot be read also forgets which chains were seen, as `load` does. Audit records, a load
that throws because encryption is unavailable and the stop at quit are left out.

### XbpBridge

The life of the bridge. `call[c]` is the await a `setEnabled` call is suspended at (crypto
backend, listen, close); everything else is one task. `lan` is the listener the service
holds while `listeners` are those that are open. The pairing host is a record: its token,
the peer that waits for confirmation, the SAS. A process starts with the boot's call in
flight (`booting`): without the setting no service is made and there is nothing to model; the
settings' handlers are registered when that call has ended. `Restart` is a new process. `wanted`, `dropped` and `unsaved` are for properties:
what the last toggle asked, the offers made before a forget, cancel or stop, and whether
the confirmed device failed to be written.

`DiskFails` lets `paired-device.enc` fail to be read or written; it is on. `Overlap` (a
toggle while another is in flight) and `ApplyBusy` (the relay setting changes meanwhile)
are off in `xbp_bridge`: with either, properties break (see Findings).
Left out: status texts and `lastError`, audit, what the session dispatches, the clears of
the push token (they are `PushWake`'s `Revoke`), a file that cannot be deleted.

### PhoneLink

The control channel is the class of `relay-registration.ts`, method by method: base, state, socket in use, backoff
timer. The WebSocket library and the relay are external: a socket that is closed by the
host delivers frames until its close event, and the relay sends any frame at any time.
With it go the bridge's other connections: LAN links, the dials a registration's
`incoming-session` asks for, the attachable transport over all of them with its
generations, and the stamp by which push wakes are suppressed. `start` is one step and
`stop` two, cut where it awaits the listener.

`proved` (sockets on which a challenge was answered), `caller` (the link of the stamp's
call) and a link's `end`, `at` and `token` are for properties. Left out: the length of the
backoff, audit, the stamp's reset at forget and re-pair. `DialLate` lets a dial open
while `stop` awaits the listener; it is off (see Findings).

### SamanthaLink, RemoteCommands, RemoteControl

`drv` is the driver's closure (stopped, registered, the body and signal last sent, the stage
of a rebuild, timers), `cl` the command client with its socket and retry timer, `wire` what has become
of each socket, `samantha` what she knows: she is external, may die, forget and refuse. A rebuild
is cut at each HTTP request. `RemoteCommands` adds commands by `requestId` through the
idempotent dispatcher, whose cache is bounded by `MaxCached`, and the acts of a phone over
the peer session, with grants, kill switch and re-pairing between the awaits of an act; both write
a start and a result entry to `trail`. `runs` counts what really acted, `samantha.early` that an
event came before its snapshot: both are for properties. `StopBusy` lets `stop()` come while
a request is awaited (on); `EarlyClick` reconnects before the first registration (off).

### Desktop

`Plugins`: one plugin, its switch in `config.toml`, the watcher's echo, the serialized chain of
reconciliations, the probe's await, a driver with whisper's socket. `DesktopShell` has the
two flags of a quit, the gate's prompt with its 5 s timer, the detached window
and, behind the prompt, the file in the inline editor with agents that write it. `Usage`: logs are numbers of
lines, a sweep is cut at each log and at the save; the worker may die between any two.
`Insights`: spans are numbers, the outbox is acknowledged by the worker, and the transitions
of consent are a queue of jobs. `Settings`: values are patch numbers, so "older" has a
meaning. `WorkspaceStartup`: file, sidebar, pending sessions and the queue of writes from the
boot to the first decision and after. `ReviewComments`: the store in memory, the saves with one
temporary file, the pane's list. `AgentBridges`: calls of agents, requests to a window that may
reload, listings of worktrees with their cooldown. `AgentSkills`: installs, probes, the strip and the tour; any read
of a skill, of the MCP file or of the restore state may fail.
Auxiliaries: `must`, `there` and `forgotten` in `AgentBridges` (what the truth was when a call was made); `installing.blind` (the skill at
hand could not be read) and `tour.missed` (what an older profile saved was not read) in `AgentSkills`.

### Renderer

`WorkspaceSession` is the reducer with its layouts and planner, as operators on a session record;
`TerminalRuntime` adds the calls to the main process, the bindings of the last render and the
PTYs. `SidebarAgents` has the reports of an agent, the classifier and the mute of the heuristics, and
the launches: the cap of two agents of a collab, the window of a mount and the queue behind it. `WorkspaceLifecycle`: the registry of workspaces, background hydration, activation, removal and
what the persist effect would write. `swallowed` in `SidebarAgents` is for properties.

### Workbench

`ReviewFlow`: the six loaders with a request in flight each, and the git actions between. `ReviewScreen`:
its `surface` is what moves of the middle of the panel (marks, threads, jumps, draft, portal);
editors with the registry that finds them by path, threads mounted in them, and the
portal's transition and timer; `landed`, `draft.on` and `portal.asked` are for properties.
`Worktrees`: create and remove as git commands that others run between. `TerminalPanes`: the bytes of
a pane through the phone's watch (freeze, narrow bytes, replay). `InsightsDashboard`: fetches by
range with their two steps and the first-capture notice. `CodeNav`: its `scope` is what moves
(index, keys, lookup, search, history); `deeds`, `behind`, `unheard`, `sure` and `origin` are for properties.
`WorkflowLens`: its `matter` is what moves (the view of a run, orders to whisper, the archive, the log of
the dots).

Flags of these modules that are FALSE in the runs are listed under Findings with what they break.

## Runs

Twelve runs; `tlc -config <cfg> <module>` with the module of `PROJECT.json`. `phone_link` uses the
symmetry of relays, sockets and links (no definition names one of them, and the run has no
liveness).

| run | instance | what it shows |
|---|---|---|
| `pty_restart` | 1 agent, 2 terminals (one restart), 2 desktop and 2 phone sizes around the floor, both race flags on | gate, sizes, pane and watch stay consistent in every interleaving |
| `pty_switch` | 2 agents with a terminal each, flags off, fairness | the phone moves subscription and watch independently; a stop and a held-back exit are always on their way and arrive; `ViewportOwnership` is implemented |
| `pty_rows` | 2 texts, heights 1 and 2, 1 row of scrollback, pages of 2, 2 outputs, fairness | nothing is missed, lines keep their numbers, no change without a hint, the phone catches up |
| `push_wake` | 1 session, workflow, chain and token, 2 changes, 2 troubles, window of 2, fairness | one ping per transition over crashes and failures; attempts a window apart; every transition is settled |
| `xbp_bridge` | 2 phones, 2 relay URLs, 2 offers, 7 tasks | pairing, revocation, kill switch and registration agree with the file and the toggle |
| `phone_link` | 2 relays, 2 control sockets, 2 links, 3 generations | one control channel; registered means proved; tokens go to their relay; no push is suppressed for a stranger's link; no leak |
| `phone_link_retry` | 1 link, 2 generations, fairness | a configured host goes on until it is registered |
| `remote_control` | 2 worlds, 2 sockets, 3 troubles; 2 commands with 1 cached result, 1 act of a phone, 2 grant sets, fairness | events after snapshots; one act per `requestId`; an audit pair around every act; her snapshot catches up |
| `renderer` | 3 terminals (the six panes are never full: that is what the proof is for), 2 shells (an agent and a plain one), 2 layouts' worth of panes, 2 worktrees, 3 workspaces, fairness | running shells are reachable, dots are true, the cap of agents holds, nothing saved is lost, restoring ends |
| `desktop` | the nine components of `Desktop`, two of everything that can differ | see the properties named below |
| `workbench` | the seven of `Workbench`, two worktrees, files, ranges and stores | what the screens show and keep is true |
| `startup_reopen` | `desktop` with `Reopens` | violation (see Findings) |

The properties of `desktop`: `PluginIsHonest` (a plugin ends in the state of its switch, no socket
outlives it), `TelemetryIsExact` (no token twice, nothing without consent), `StateIsKept` (settings
and saved workspaces), `InstallIsSafe` (skills and first steps), `ClosingIsSafe` (unsaved files, quitting,
updates), `ReviewsAreShared` (comments, and the calls of agents). Of `workbench`: `ReviewIsTrue`,
`PanesAreFaithful`, `RecordsAreTrue` (dashboard and workflows), `NavIsHonest`, `WorktreesAreSafe`. Each is a
conjunction of named parts, defined in the module of its component and commented there.

Every property of a passing run has a mutant (`PROJECT.json`), a definition with a plausible
bug, under which TLC finds that property violated.

**Deadlock.** `desktop`, `renderer` and `workbench` switch the check off: an app that nobody touches, or
whose bounds are used up, stops. The other runs check it.

**Why the bounds are enough.** Two terminals of one agent are a restart, two agents are a
switch; the code relates no more than the old and the new one. Desktop and phone sizes
lie on both sides of the floor and of each other, so every branch of the cap is taken. One row of
scrollback with two heights makes rows scroll out, come back and be trimmed, and a page
is shorter than the buffer. `MaxOutput` counts the outputs; a hint, a tick and a page fit
between any two. `push_wake` needs two changes (a transition and its undoing) and two
troubles (a failure and the crash after it); a window of 2 with a clock up to 2 has an
attempt inside and one at the end. Seven tasks are enough to enable, disable, enable
again, restart, and change relay and kill switch between. Two control sockets are
the one in use and the one it replaced; three generations are a reconnect and a stale
stamp after it. `remote_control`: one cached result and two commands make an eviction. `renderer`: three
terminals are two panes and a replacement; three workspaces are the active one, the one being
hydrated and one that waits. `desktop`: two logs, one of them unreadable at times, with lines
before and after a save; two patches under way and a third; two comments, two agents, two calls with a
reload. `workbench`: two loads under way of each kind, two ranges and their switch, one commit with both files
and one with a single file, three remarks in different places, a budget of two log files.
Flags are environment choices, not bounds: a flag that is FALSE leaves out a race that breaks
a property, and Findings says which.

## Fairness

- `PtyInspect`: weak fairness of the two timers (`setTimeout` fires), of a drain that was
  started (the promise of `mirror.drain()` settles) and of the renderer's release of a
  rebind intent once its restart is over. The phone, other publications and the PTYs are
  never obliged to act.
- `PtyRows`: weak fairness of the subscription's interval, of a hint that is due, and of the
  phone's next forward pull.
- `PushWake`: the interval ticks (weak), reads are not blank or rejected for ever (strong:
  they may fail any number of times between), and a send ends (its fetch has a timeout
  and its attempts a bound).
- `PhoneLink`: the backoff timer fires, a closing handshake ends (weak); a relay that is dialled again
  and again some time opens, challenges and registers (strong). The environment owes
  the last: a relay that always refuses is never registered at.
- `RemoteControl`: debounce, retry and keep-alive timers fire, requests are answered or refused, sockets
  that close report it (weak). Triggers faster than the debounce's second would starve it: the
  property says "once the worktrees stay as they are".
- `Renderer`: React renders what was dispatched, the main process answers a restart, the effect
  of the background hydration runs and its calls are answered (weak).
- `Desktop`: the close gate's 5 s timer fires (weak).

The other modules have no fairness: their properties are safety.

## Findings

`startup_reopen`: picking the folder of a workspace that is dormant in the sidebar registers it as
live with an empty state and prunes what waits for it; the next write drops its saved sessions. `App.tsx:781`
says that dormant workspaces keep their snapshot.

Further disagreements met while modelling. The models have the behaviour, behind a flag (named
with the property it breaks when TRUE) or always; they have no run of their own.

Phone and terminals:

- A dropped socket restores nothing: `attachable-transport.ts:40` forgets the socket, only
  `XbpPeerSession.detach` (forget, re-pair, stop) restores the desktop's size. The design says a network
  drop restores at once.
- `agent-pty-catalog.ts:136`: a second rebind intent drops a held-back exit, and the entry stays live
  without a terminal (`LiveIsHonest`, `RestartOverlap`); `:119`: an upsert sent before the renderer
  learned of the exit revives the entry (`LiveIsHonest`, `StalePublish`).
- `pty-subscription-registry.ts:691`: `notifyDesktopBlur` hands the terminal to the phone with the last
  applied size, although a newer request was cleared by a keystroke.
- `pty-subscription-registry.ts:624`: a backward pull drops the result of `mirror.tick()`, the interval then
  finds nothing dirty and sends no hint (`HintCoversChange`, `ScrollBusy`).
- `pty-serializer.ts:191`: a cursor of an earlier run of the host whose epoch happens to match is
  continued (`CursorOfThisRun`, `Reruns`).
- `push-wake-sender.ts:64`: `DeviceNotRegistered` clears the slot even when a new token was registered
  meanwhile; `:39`: later attempts go to the token the send began with, also after it was revoked.
- `xbp-host-service.ts:547`: switching the bridge off while `start()` awaits lets `start()` go on, and it
  listens although it was switched off (`DisabledIsQuiet`, `Overlap`); `:538`: `applyRelayBaseUrl` while
  `stop()` awaits starts a registration that nothing ends (`RegistrationFollows`, `ApplyBusy`); `:519`: an
  accept dial that opens while `stop()` awaits is attached to a closed transport and stays open
  (`NoLeakedLink`, `DialLate`).
- `attachable-transport.ts:43`: when the active link closes while another is attached, `active` is null and
  replies are lost until the other link sends a frame.
- `TerminalPane.tsx:241`: a remounted pane replays narrow bytes the design keeps out of a frozen view; `:391`: a
  change of the font size while frozen is not sent (`SizeIsSent`, `Zooms`).

Samantha: `samantha-driver.ts:335` the answer to a register that was in flight at `stop()` registers the stopped driver, opens its
socket and sends a snapshot, which nothing takes back before the next start (`StopBusy`; no property forbids it); a click on reconnect before the first registration opens a socket (`PlaneFollowsRegistration`,
`EarlyClick`); a throw in `prepare` settles without an audit entry; the health stays "connected" when
`scheduleReconnect` returns early.

Main process:

- `settings-service.ts:73`: a patch is merged into a file that is being replaced (`PatchesAreKept`, `Peeks`). A
  file of a newer version is served as defaults "without overwriting", but the next write overwrites it; so
  does the review-comment store. `firstRun` is read by `createUsageSettingsBridge` before the preload, so the
  legacy font size is never migrated.
- Startup: a read error of the workspace file is treated as "ready" and overwritten; a failed restore and
  "start clean" drop the other saved workspaces; an active workspace missing from the list loses all.
- Text typed while a save is under way is replaced by the text saved when it ends (`InlineEditor.tsx:340`); no doc speaks of it and no
  property does. An agent that writes between two system calls of a save (`Race`),
  a user who thinks longer than the gate's 5 s (`Slow`), a dirty bit that a close overtakes (`Lag`) or an updater error that
  leaves a deferred install alive (`Stacks`) break `ClosingIsSafe`. After a cancelled Cmd-Q the services stay stopped.
  With the red button on Windows, `close-gate.ts:93` asks nobody about a buffer typed after the save began, against
  the design of the inline editor ("main prevents close").
- Plugins: a snapshot of the store that comes while a socket is attached leaks that socket (`PluginIsHonest`, `Eager`); `plugin-config.ts:96`
  promises to ignore only its own echo, but an external edit coalesced with it is ignored too.
- Usage: a log that grows after its last read, is sealed and then truncated is counted twice (`Reseal`); a rotated log that outgrows its
  offset is not noticed (`Regrow`): both break `LedgerIsExact`.
- Insights: a `closeStore` meant for a dead worker reaches the next one, which then answers a disable that was not its
  own (`ConsentHolds`, `EarlyExit`). An unrelated `setEnabled(true)` resurrects an abandoned worker.
- Review comments: saves that overlap share one temporary file, and an older list can be written last (`SavedIsHeld`,
  `Piles`). Bridges: listings that cross (`Jumbled`). A request that timed out may still have happened.
- Skills: a skill that is there but cannot be read counts as absent, so a newer one is replaced by the bundled one
  (`skill-version.ts:103`): `SkillsAreSafe` speaks of the skills that could be read, which `installing.blind` tells. A read of the restore
  state that fails (`use-onboarding.ts:94`) or gives the default (`workspace-persistence-service.ts:90`, `:100`) marks nobody as
  older, and the migration counts as checked: the tour opens for a user who had the app before it. `TourIsFair` says so, and that the
  next start that can read leaves them alone. An edit between read and write is lost (`Meddles`); a slow listing overwrites a newer one (`Overtakes`); the
  strip's dismissal is erased when the banner mounts before the first listing (`Early`); a tour that is interrupted
  is not shown again (`Interrupts`).

Renderer:

- Starting two shells in one slot overwrites a pane (`Hasty`). The add button counts the shells that are shown (`App.tsx:604`), not those on their
  way: of two added while five are shown the second finds six panes taken, `registerProcess` is a no-op
  (`workspace-state.ts:995`), and its terminal runs where nobody sees it (`ShellsAreReachable`, `Hasty`; TLC shows it with seven terminals). An event of an inactive workspace finds an old shadow of its
  state and undoes newer ones (`Stale`, `use-active-workspace.ts:55`); a refresh after a switch of workspaces registers state under the old id (`NothingSavedIsLost`,
  `Overlap`); a change of worktrees while a mount settles (`Roams`) or a mount that outlives its timers (`Slow`) breaks `NeverOverbooked`.
- Review panel: the selected commit is captured when the fetch starts (`ReviewIsCurrent`, `Nimble`); a draft and the
  discard dialog survive a switch of worktrees and act on the new one; a jump resolves in the editor of another
  view of the same path (`ScreenIsTrue`, `Crosswise`); collapsing twice within 300 ms leaves a timer that closes the
  re-opened panel (`Hurried`).
- Worktrees: a creation whose rollback fails leaves its branch, and the dialog says that it "has been removed" (`worktree-service.ts:366`
  swallows the failure): `OnlyRefusedIsLeft` says that nothing else is left. A look for the branch that fails finds none. A default shell started while its worktree is removed is orphaned (`Late`); a worktree dirtied after the
  preview is removed by force; a failing `branch -D` reports an error after the tree is gone.
- Dashboard: an acknowledged notice may come back (`Quick`); today's two reads may be torn by the end of the usage worker.
- Code navigation: a store that returns to an older fingerprint (`Returns`), a batch that joins a refresh (`Joins`), a
  gate checked before an await (`GateRaces`), a late model of an old provisioner (`Swaps`), symbol results that cross
  (`Crosses`).
- Workflows: a state pushed before the session exists is lost (`Deaf`); two orders at once (`Talks`), one of which rejects
  (`Leaves`); a write stamped before an archived one (`Tardy`); a status that returns (`Reverts`); a freed number of a log file
  that is reused (`Reuses`).

## Proofs

For all sets, agents, terminals, sockets and bounds, from the named constant assumptions of the
modules alone (that numbers are natural, sets are disjoint from their "none" values); each
hypothesis beyond them is part of the theorem.

| theorem | states | argument |
|---|---|---|
| `PtyInspectProofs!TypeCorrect`, `GateCorrect`, `DesktopSizeCorrect` | `TypeOK`, `GateFollowsWatch`, `DesktopSizeRestored` | `IInv` |
| `PtyInspectProofs!ViewportCorrect` | `ViewportIsHonest` | `HInv` |
| `PtyInspectProofs!OwnershipCorrect` | `ImplementsOwnership` | `HInv`, step by step |
| `PtyInspectProofs!RowsTypeCorrect`, `LinesKeepTheirNumbers`, `CopyCorrect`, `RowsCorrect` | `RowsTypeOK` and `LineIdentity` without hypotheses; three parts of `RowsAreHonest` if no restart meets a kept cursor, all of it if nobody scrolls up over output | `RowsTypeInv`, `CopyInv`, `RowsInv` |
| `PushWakeProofs!TypeCorrect`, `PersistenceCorrect`, `TransitionCorrect`, `WindowCorrect`, `PingsCorrect` | `TypeOK`; `PingsAreAccounted` and its three parts | `IInv` |
| `XbpProofs!PhoneTypeCorrect`, `ChannelCorrect`, `LinksCorrect` | `PhoneTypeOK`; the parts of `LinksAreHonest`, and all of it if no dial opens late | `LinksInv` |
| `XbpProofs!TypeCorrect`, `PairingCorrect`, `AttachmentCorrect`, `BridgeCorrect` | `TypeOK`; the parts of `BridgeIsHonest`, and all of it if toggles do not overlap | `TypeInv`, `PairInv`, `ToggleInv`, `RegistrationInv` |
| `RendererProofs!ShellsCorrect`, `StepsCorrect`, `TypeCorrect` | `ShellsAreReachable`, `StepsUndoNothing`, `TypeOK`, each under the run's hypotheses | `ShellsInv`, and the invariants below |
| `RendererProofs!AttentionCorrect`, `LaunchCorrect`, `WorkspacesCorrect`, `WorkspacesStayLive` | `DotIsHonest`, `NeverOverbooked`, `NothingSavedIsLost`, the last two under the runs' hypotheses; no hydration downgrades a live workspace | `AttentionInv`, `LaunchInv`, `WorkspacesInv` |
| `DesktopProofs!SwitchCorrect`, `PluginCorrect`, `BudgetCorrect`, `UsageCorrect`, `InsightsCorrect`, `TelemetryCorrect`, `ClosingCorrect`, `CommentsStay`, `ReviewsCorrect`, `StartupCorrect`, `SettingsCorrect`, `StateCorrect`, `InstallCorrect` | `PluginIsHonest`, `UsageIsExact` and `InsightsAreFaithful`, together `TelemetryIsExact`, the safety of `ClosingIsSafe` (`QuitIsOrderly`, `NoBlindOverwrite`), `ReviewsAreShared`, `StateIsKept` and its parts, `InstallIsSafe`, each under the run's hypotheses; the switch, the budget and the comments' part without any | an invariant per part |
| `WorkbenchProofs!TreesCorrect`, `WorktreesCorrect`, `StreamCorrect`, `PanesCorrect` | `WorktreesAreSafe` and `PanesAreFaithful` under the run's hypotheses, all but `NoneOrphaned` and `SizeIsSent` without any | `TreeInv`, `SessionsInv`; `WatchInv`, `StreamInv` |
| `WorkbenchProofs!ReviewCorrect` | `ReviewIsTrue` under the run's hypotheses | `FlowInv`, `ReviewScreenInv` |
| `RecordsProofs!RecordsCorrect` | `RecordsAreTrue` under the run's hypotheses | `DashInv`, `LensInv` |
| `RecordsProofs!NavCorrect` | `NavIsHonest` under the run's hypotheses | `NavInv` |
| `RemoteControlProofs!TypeCorrect`, `CommandsCorrect`, `EventsCorrect`, `StampCorrect`, `RemoteCorrect` | `TypeOK`; the parts of `RemoteIsAccounted`, and all of it if Reconnect is not clicked too early | `RemoteIInv` |

**PtyInspect.** The registry's methods are operators on *viewport records* (gate, sizes,
subscription, watch, what the renderer was told), so the invariant is made of predicates
on such a record, with one lemma per method and then one step per action, which installs the record
a method returns or changes a session. `Sound`: a gated terminal is held by the phone through the watch, a running
one that is held is gated, one that is not gated has the desktop's size, and the watched
terminal was created. Neither property is inductive alone: a restore is right only because the
gate is closed for the watched terminal at most, and a step that starts a terminal only because
an uncreated one is not watched. `Honest`: every pane and `lastEmitted` were told what the
watch is (`ToldOf`), and pending and applied sizes lie between the floor and the snapshot, the applied one
being the real one unless a resize is forced (`Real`). What is inductive here is that
a reclaimed watch is always forced: that is what makes the repetition check of the debounce safe after the desktop
took the terminal back. `Follows`: watch and subscription belong to live entries and an attached phone; it
is derived from `Keeps`, which says that a method leaves the watch's agent and terminal as they
are or ends the watch. In the refinement a created, ended and fitted terminal is the abstract `Start`, `End` and `Fit`; every other step
is a `HandOver` to whatever is gated after it, and that follows from the invariant before and after alone.

**PtyRows.** Its proofs are in the same module, after those of PtyInspect. A mirror is in order (`Settled`) when its counters
follow its buffer; each control of the emulator keeps that or leaves the reset barrier up, so a write, which lowers it at its end, keeps it, and
if it starts no epoch the new mirror extends the old one (`Extends`): rows above the viewport, stamps and fingerprints stay, and what is
new lies below. Of the phone, `CopyFollows` says that each row from `since` on is in its copy as the last tick saw it, or is
*pending*: after the cursor in the order of the pages. The rows that a write changes are the ones that the next tick stamps above every cursor, so
they become pending; a forward page serves the first of what is pending in that order, so what it leaves is pending after its last row.
`TokenFollows` (the older rows go on where the copy begins) makes backfill complete. `HintFollows`: as long as a subscribed phone has not been
told, it is complete but for what the next tick stamps; a scroll-up over output takes that tick, hence `ScrollBusy = FALSE`,
and epochs grow over rebinds only, hence `Reruns = FALSE`; the Findings describe both.

**PushWake.** A ping is unique because all that a detector compares the present with
shows what is spent as it is: the memory, the file and the pass of the tick in flight
(`SpentInv`). Two attempts are apart because file and loaded memory hold the last one (`PingInv`), which
needs `PersistedBeforeSend` over a crash.

**PhoneLink.** The socket in use was dialled at the configured relay and a registered one was
proved (`RelayInv`); generations are never given out twice while a transport lives, so a link with
the stamp's generation is the one that left it (`StampInv`). `ChannelCorrect` needs no hypothesis; only `NoLeakedLink` needs
`DialLate = FALSE`, and Findings tells of the case.

**XbpBridge.** `PairInv` holds whatever overlaps. `ToggleInv` has a line for each thing that a call of
`setEnabled` relies on after an await; it needs `Overlap = FALSE`, and `RegistrationInv` also
`ApplyBusy = FALSE`. Without them TLC finds the violations that Findings describes, so the theorems have no
weaker hypotheses.

**Renderer.** The parts share no variable, so each has an invariant of its own and a step of one leaves the others' alone.
`ShellsInv` says what a handler may still rely on when its answer comes: a new shell's terminal was asked for by it alone and
its process is not there yet (`Landing`), a shell that closes or restarts has no terminal that runs (`Closing`, `Restarting`), one that comes back is bound to
none (`ComingBack`), no two handlers work on one process or wait for one terminal (`FlowsAreApart`), and there is a pane for each
shell on its way (`RoomIsKept`). `PanesAreSound` is what the reducer keeps: each action has a lemma that says which
shells it shows afterwards, and in which order (`OrderIsKept`). Under these lie the planner's (`PlacedIs`: a free slot, or the first new one of the next layout;
`PackIs`: compaction loses nothing; `ReorganizedIs`: a close leaves a slot for each that stays) and the catalog's (every layout is on the shelf of its
size, and each shelf but the first starts with equal panes). They need that two terminals can be asked for, and that `None` is no number and no layout
(`ShellsAssumption`). `Hasty = FALSE` is where a click does not meet another one's handler; Findings tells what happens else.
`AttentionInv` is inductive as the run checks it; what its proof needs are lemmas on the strongest attention of
panes that are added, removed and changed. `LaunchInv`: an agent that mounts is alone, in the selected worktree, and what
the coordinator saw when it opened (`window`) is still true, so the place is free. A user who selects another worktree meanwhile
(`Roams`) or a mount slower than the timer (`Slow`) makes it false, hence `LaunchCorrect`'s hypotheses. `WorkspacesInv`: live
entries, the shadow and the copy that a handler took before its await (`CallOK`) hold every session that
is not pending, and one click's handler is under way at most; two at once (`Overlap`) or an event for an inactive
workspace that finds an old shadow (`Stale`) break it, and Findings tells what is lost. It is also what shows that
a hydration which comes late finds nothing to downgrade (`WorkspacesStayLive`).

**Desktop.** Its parts share nothing, as Renderer's. The switch of a plugin is right at rest because a file that says something
else than the memory has a report on its way that is not the one to be ignored (`FileInv`), and the last reconciliation of
the chain works with the switch as it is (`ChainInv`); the feed has one dial under way at most only if `Eager = FALSE`.
`LedgerInv` says of each log, in memory and in the saved ledger alike, that what is counted is what lies before its offset
(`ExactEntry`), so a crash between the two loses work and no lines. Of the insights, `ToldInv` says that a span of the outbox is
stored already or its worker was told of it before it was told to close (`Tells`), so the answer to a drain comes when the outbox is stored; that no worker writes beyond a
close, and that none waits unspawned while consent is off (`RestInv`), needs `EarlyExit = FALSE`. `GoneInv` holds because a wipe empties the outbox before it waits and stops the worker behind it.
Of the editor, `Editing` says which text each modification time stands for: if the file still has the time the editor, a conflict or a save knows, it holds
the text the user agreed to replace; an agent that writes inside a save breaks that (`Race`). `Quitting` and `Installing` bind the flags of a quit to the
prompt, the services and the deferred installs (`Slow`, `Lag` and `Stacks` are where they come apart).
`SavesInv` and `PaneInv` say where the news of a change is
as long as the pane does not show it: in the save, in the inbox, or still to be asked for. `ModeInv` says what the window's copies
hold of the file while the question stands, and `FallbackInv` and `RestoredInv` that every write that waits keeps the sessions.
The settings are ordered by when they were set: acknowledged, on disk, in each patch that waits and in the service, each is no older than
the one before (`PatchInv`, which holds whatever fails). While no write was refused, the numbers of the dialog's unanswered patches are the last
`pending` of its sequence and lie in the two queues in order (`SeqInv`), so the answer to the last of them is the one that finds nothing
pending; the font menu counts its own in the queues (`FontInv`); and whoever has no more news to come shows what is there (`HeardInv`).
`Finds` relates a call that looks a worktree up to the listing it waits for: one that began after the call saw what was there
when it was made; `SessionInv` says that what a call was answered for is in the window's session or went with an old page.
Of the install, `ProgressInv` holds as long as nobody else touched the disk, `AwaitInv` says that the listing that ends it is the one it
asked for, and `WriteInv` (what is about to be written was read as older) is where `Meddles = FALSE` comes in.

**Workbench.** `GitInv` says whose a fresh branch is: the creation's that made it and has still to add or to undo it, so a rollback by name
removes nobody else's. `SessionsInv` (the terminals of a worktree that is being removed are closed from the first step on) needs `Late = FALSE`.
Of a pane, `StreamInv` numbers what the window has heard: the wire holds what follows, in order, the replay buffer the last of it, and screen and
pleat together all since the pane's first. `WatchInv` speaks of places on the wire with no news of the phone between them (`Calm`): the last news are how the phone
stands, the seed is the truth unless news come behind it, and output behind an `owned` is narrow. `sawLive` is what makes the seed safe: a pane that has not
heard of the phone is not frozen yet.
Of the review panel, `FlowInv` says that a load under way is for the worktree, the file and the commit that are selected now, and was asked late enough
to see the last change that has to be shown; what is shown with no load under way is then current. A commit that is picked out of a history that is being read
again (`Nimble`) is what it does not cover. `ReviewScreenInv` bounds the registry by the editors on the screen (`Slots`) and keeps the threads in step with it;
a jump that waits holds the selection it made, which `Crosswise` would change, and an open portal has one timer at most, unless `Hurried`.
That needs that there is a checkout (`CheckoutAssumption`) and that files and views are told apart (`ScreenAssumption`).
Of the dashboard, `ReadsInv` keeps of each fetch what was asked, answered or lost in which half; what the reads of a quiet fetch gave is what the
stores hold until they move (`ReadsTrue`), and one fetch at most counts, the one for the range that is picked (`OneCounts`). `NoticeInv`: an announcement that is on
its way or made is of a pending capture, and a banner that is silent about one still has an answer or a push to come; an acknowledgement that
overtakes one (`Quick`) breaks it.
Of the workflows, `FeedInv` says that a snapshot which is still fresh has read what is there (`SnapOK`) and that a session which is not there has no
reason, nor a state it was not told of (`HereOK`; `Deaf` breaks it). `CommandInv`: one command of each kind is this dialog's at most. A run only goes forward,
so in the archive its observations stand in its order and none is ahead of it (`InOrder`); what is missing was stamped at the watermark or later
(`NothingMissed`). Hence the view's latest revision, the last inserted of the latest stamp, is the last observation, and that is the run. `Tardy` and `Reverts`
break each of the two. The log's files are in the order of their records' numbers (`FilesInOrder`), so that what the budget or the
age evicts is always the oldest; renaming keeps the order because the free number is above the others unless one was given back (`Reuses`), and there is one
by the pigeonhole principle. The budget is a natural number (`BudgetAssumption`).
Of code navigation, `SkipInv` says that the mirror's sidecar is no newer than the index (`Bar`), and that a mirror which does not hold what its sidecar
says has one that is older, so the next ingest is not passed over: from the moment an ingest empties the mirror until it writes the sidecar, the sidecar is
older than what it reads (`IngestInv`), wherever it is cut. A tree that comes back to an old version (`Returns`) breaks that order. `FollowInv` follows a
change through the batch, the refresh and the ingest: which of them still has to bring it (`Joins` loses one). `StatusInv`, `KeysInv` and
`SearchInv` say what is shown, known or found when nothing is under way. `Owns` holds of the models after every touch, also after the row by row
recursion of `RowsTouched`, whose existence and invariant follow from a least counterexample. There is a worktree, a version and an index to begin with,
and the history keeps a place at least (`IndexAssumption`, `ProvisionAssumption`, `HistoryAssumption`).

**RemoteControl.** `LinkInv` has two parts that are not about types: a rebuild that sends has gathered something
(`DriverOK`), and if Samantha knows the host, a driver that keeps the body of its last snapshot, or posts, has shown her
one since she did (`Shown`). Each answer of the rebuild is one step; the lemmas under it say what a pass,
a retry and the end of a pass make of any driver, so it does not matter which request was awaited when Samantha died or the
driver stopped. `PlaneFollowsRegistration` holds beside it but not under `ReconnectNow` of an unregistered driver, so
only `RemoteCorrect` has the hypothesis `EarlyClick = FALSE`. `RemoteInv` ties a command's place in
the cache to how often it has acted and to what the audit says (`EntryOK`, `RequestOK`); that a command that expires
is waited for by nobody, and that no request is a command (`JobsAssumption`), make it inductive.

**Only model-checked.** Liveness (`PromisesAreKept`, `RowsArrive`, `TransitionsSettle`, `KeepsTrying`,
`CatchesUp`, `RestoringFinishes`, `CloseSettles` in `ClosingIsSafe`) is beyond the prover. Safety without a theorem: `TypeOK`
of Desktop and Workbench, of which the invariants say what the theorems need.

## Not modelled

- Data that no property tells apart: styled runs, labels, snippets, log texts, audit records' fields, diffs, ranking of
  symbols, the parsing of providers' logs, SQL, the sealed frames of the protocol (external, vendored).
- Pure I/O and presentation: listing and searching files, the append-only logs, preload, menus, palettes, shortcuts,
  the file tree, the plugin and update panels, layout and style.
- The disposal of all terminals at quit, the capture file and the batching of output.
- `WorkspacePersistenceCoordinator`: only tests use it.
- Failures of calls that the models let succeed: localStorage in onboarding and the strip, the listing that follows a failed
  creation or removal, a `git worktree add` that fails after it made the worktree, `rmSync` and `statSync` of the attention log
  (`agent-attention-logger.ts:467`), a `getWatchState` that is rejected.
- Details of modelled components that their sections name.

## How to run

    tlasany PtyInspect.tla
    tlc -workers 2 -config PtyRestart.cfg MCPtyInspect
    tlapm PtyInspectProofs.tla

`PROJECT.json` lists the components, runs, mutants, the map of definitions to
source lines, findings, hazards and theorems.
