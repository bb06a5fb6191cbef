--------------------------------- MODULE CodeNav ---------------------------------
(***************************************************************************)
(* Code navigation: the mirror of ai-cortex's index and its refresh, the   *)
(* keys of the worktrees, the lookups of the editor and the models they    *)
(* provision, the symbol search and the history.  src/electron/code-nav,   *)
(* the code-nav part of src/electron/main/ipc.ts,                          *)
(* src/services/plugins/cortex/ and src/src/features/code-nav.             *)
(*                                                                         *)
(* `scope` says what a behaviour is about.  The fingerprint of an index is *)
(* the version of the tree that was indexed; 0 is a mirror without rows    *)
(* and a sidecar that is not there.  The main process does an ingest in    *)
(* one go, which another program or a crash still cuts: `ingest` is where  *)
(* it is.  Auxiliary: deeds (bound), behind (the index need not follow the *)
(* tree), unheard (the status changed and nobody was told), sure (the      *)
(* sidecars that the scan which cleared last has listed).                  *)
(***************************************************************************)
EXTENDS Naturals, Sequences, FiniteSets, SequencesExt

CONSTANTS MaxTree,    \* bound: versions of the tree
          MaxDeeds,   \* bound: deeds of the user and faults
          MaxIndex,   \* bound: indexes that the lookups see
          MaxQuery,   \* bound: the queries
          MaxSent,    \* bound: searches under way
          Returns,    \* BOOLEAN: the tree returns to a version it had, or the store goes mid-read
          Joins,      \* BOOLEAN: a batch fires while a refresh runs
          GateRaces,  \* BOOLEAN: the plugin is switched while an answer is under way
          Sheets,     \* the worktrees
          Sources,    \* the files of one
          NoSource,   \* model value
          ModelCap,   \* models that a provisioner keeps
          BackCap,    \* locations that the history keeps
          Swaps,      \* BOOLEAN: the provisioner is replaced while a lookup is under way
          Crosses     \* BOOLEAN: a search answers after a newer one

ASSUME IndexAssumption == MaxTree \in Nat \ {0} /\ MaxIndex \in Nat \ {0}
ASSUME ProvisionAssumption == Sources \in Seq(ToSet(Sources)) /\ ModelCap \in Nat
ASSUME HistoryAssumption == Sheets # {} /\ BackCap \in Nat \ {0}

VARIABLES cortex,     \* [tool, enabled, running, due]: the program, the switch, the driver
          tree, indexed, \* indexed: [keyed, is, fp]
          mirror,     \* [is, of, label]: the mirror, what it holds and its sidecar
          marker, ingest, rehydrate, deeds,
          watch,      \* [is, timer]: "no", "asked" or "on"
          navView,    \* [mounted, shown, loading]: the status in the Symbols pane
          behind, unheard,
          resolver,   \* [cache, loaded, rested]
          sidecars, scans, cleared, sure,
          rowCache,   \* the row caches: [kind, sheet, of]
          lookup,     \* lookups of the editor: [at, kind, sheet, left, prov]
          models,     \* [host, owned, prov]: the models, and the provisioner's
          navGate,    \* [on, told, index]: the switch, and the version of the mirror
          search,     \* [on, query, timer, sent, results, failed]
          nav         \* [sheet, at, transient, origin, back, forward]

indexVars == <<cortex, tree, indexed, mirror, marker, ingest, rehydrate, deeds, watch, navView,
               behind, unheard>>
keyVars == <<resolver, sidecars, scans, cleared, sure>>
lookupVars == <<rowCache, lookup, models, navGate>>
VARIABLE scope
navVars == <<indexVars, keyVars, lookupVars, search, nav, scope>>

Tools == {"absent", "json", "old", "ok"}
Reasons == {"cortex-disabled", "no-cortex", "unsupported-schema", "not-indexed"}
NoIngest == [at |-> "no", why |-> "watch", fp |-> 0, graph |-> 0]
FirstSheet == CHOOSE s \in Sheets : TRUE
NoScan == [at |-> "no", left |-> {}, sheet |-> FirstSheet]
NoLookup == [at |-> "no", kind |-> "links", sheet |-> FirstSheet, left |-> {}, prov |-> 0]

NavInit ==
    /\ scope \in {"index", "keys", "lookup", "search", "history"}
    /\ \E t \in Tools : cortex = [tool |-> t, enabled |-> TRUE, running |-> t # "absent",
                                   due |-> FALSE]
    /\ tree = 1 /\ \E k \in BOOLEAN : indexed = [keyed |-> k, is |-> "none", fp |-> 0]
    /\ mirror = [is |-> FALSE, of |-> 0, label |-> 0] /\ marker = "none"
    /\ ingest = NoIngest /\ rehydrate = "no" /\ deeds = 0
    /\ watch = [is |-> "no", timer |-> FALSE]
    /\ navView = [mounted |-> FALSE, shown |-> "unknown", loading |-> FALSE]
    /\ behind = TRUE /\ unheard = FALSE
    /\ resolver = [cache |-> {}, loaded |-> FALSE, rested |-> TRUE]
    /\ sidecars \in SUBSET Sheets /\ scans = [i \in 1..2 |-> NoScan] /\ cleared = 1 /\ sure = {}
    /\ rowCache = {} /\ lookup = [i \in 1..2 |-> NoLookup]
    /\ models = [host |-> {}, owned |-> <<>>, prov |-> 1]
    /\ navGate = [on |-> TRUE, told |-> TRUE, index |-> 1]
    /\ search = [on |-> TRUE, query |-> 1, timer |-> scope = "search", sent |-> <<>>,
                 results |-> IF scope = "search" THEN 0 ELSE 1, failed |-> FALSE]
    /\ nav = [sheet |-> FirstSheet, at |-> [s \in Sheets |-> NoSource],
              transient |-> [s \in Sheets |-> FALSE], origin |-> [s \in Sheets |-> NoSource],
              back |-> [s \in Sheets |-> <<>>], forward |-> [s \in Sheets |-> <<>>]]
    /\ scope # "index" => cortex.tool = "ok" /\ indexed.keyed
    /\ scope # "keys" => sidecars = {}

-----------------------------------------------------------------------------
(* The status, and the events that have it loaded again.                    *)

\* getWorktreeStatus behind its gate: the keys, the mirror, the marker.
StatusBehindGate ==
    CASE ~indexed.keyed -> "unknown"
      [] indexed.keyed /\ mirror.is -> "available"
      [] indexed.keyed /\ ~mirror.is /\ marker # "none" -> marker
      [] OTHER -> "not-indexed"
MainStatus == IF cortex.enabled THEN StatusBehindGate ELSE "cortex-disabled"

\* load: the gate is looked at first, the rest when the keys are there.
StatusReloaded(v, gate) ==
    IF ~v.mounted THEN v
    ELSE IF gate THEN [v EXCEPT !.loading = TRUE] ELSE [v EXCEPT !.shown = "cortex-disabled"]

IndexIdle == ingest.at = "no"
Deed == scope = "index" /\ deeds < MaxDeeds /\ deeds' = deeds + 1

StatusAnswered(more) ==
    /\ IndexIdle /\ navView.loading
    /\ navView' = [navView EXCEPT !.shown = StatusBehindGate, !.loading = more]
    /\ UNCHANGED <<cortex, tree, indexed, mirror, marker, ingest, rehydrate, deeds, watch, behind,
                   unheard>>

\* The symbols are opened over a worktree: the status is loaded and the watch asked for.
SymbolsOpened ==
    /\ scope = "index" /\ IndexIdle /\ ~navView.mounted /\ watch.is = "no"
    /\ navView' = StatusReloaded([navView EXCEPT !.mounted = TRUE, !.shown = "unknown"], cortex.enabled)
    /\ watch' = [is |-> "asked", timer |-> FALSE]
    /\ behind' = TRUE /\ unheard' = FALSE
    /\ UNCHANGED <<cortex, tree, indexed, mirror, marker, ingest, rehydrate, deeds>>

SymbolsClosed ==
    /\ IndexIdle /\ navView.mounted /\ watch.is # "asked"
    /\ navView' = [mounted |-> FALSE, shown |-> "unknown", loading |-> FALSE]
    /\ watch' = [is |-> "no", timer |-> FALSE]
    /\ UNCHANGED <<cortex, tree, indexed, mirror, marker, ingest, rehydrate, deeds, behind, unheard>>

-----------------------------------------------------------------------------
(* The ingest.                                                              *)

\* reconcileAvailability, of an ingest that was not possible.
Unavailable(reason) ==
    /\ marker' = reason /\ navView' = StatusReloaded(navView, cortex.enabled)
    /\ unheard' = FALSE /\ behind' = TRUE

\* What follows an ingest: the watch is on, or the refresh over.
Follows(why) ==
    /\ watch' = IF why = "watch" THEN [watch EXCEPT !.is = "on"] ELSE watch
    /\ rehydrate' = IF why = "watch" THEN rehydrate ELSE "no"

\* ingestCortexStore: the head, the version, the sidecar.
StartIngest(why) ==
    \/ /\ indexed.is = "none" /\ Unavailable("no-cortex") /\ Follows(why)
       /\ UNCHANGED <<mirror, ingest>>
    \/ /\ indexed.is = "old" /\ Unavailable("unsupported-schema") /\ Follows(why)
       /\ UNCHANGED <<mirror, ingest>>
    \/ /\ indexed.is = "ok" /\ mirror.is /\ mirror.label = indexed.fp
       /\ marker' = "none" /\ Follows(why)
       /\ UNCHANGED <<mirror, ingest, navView, unheard, behind>>
    \/ /\ indexed.is = "ok" /\ ~(mirror.is /\ mirror.label = indexed.fp)
       /\ ingest' = [at |-> "graph", why |-> why, fp |-> indexed.fp, graph |-> 0]
       /\ UNCHANGED <<mirror, marker, watch, rehydrate, navView, unheard, behind>>

IngestFrame == UNCHANGED <<cortex, tree, indexed, deeds>>

\* Mutant: the sidecar is written with the tables, before the rows.
GraphReadLabels ==
    /\ ingest.at = "graph" /\ indexed.is # "old"
    /\ ingest' = [ingest EXCEPT !.at = "fill", !.graph = IF indexed.is = "ok" THEN indexed.fp ELSE 0]
    /\ mirror' = [is |-> TRUE, of |-> 0, label |-> ingest.fp]
    /\ UNCHANGED <<marker, watch, rehydrate, navView, unheard, behind>> /\ IngestFrame

\* readGraph opens the store again; then the mirror is emptied.
GraphRead ==
    /\ ingest.at = "graph" /\ indexed.is # "old"
    /\ ingest' = [ingest EXCEPT !.at = "fill", !.graph = IF indexed.is = "ok" THEN indexed.fp ELSE 0]
    /\ mirror' = [mirror EXCEPT !.is = TRUE, !.of = 0]
    /\ UNCHANGED <<marker, watch, rehydrate, navView, unheard, behind>> /\ IngestFrame

MirrorFilled ==
    /\ ingest.at = "fill"
    /\ mirror' = [mirror EXCEPT !.of = ingest.graph]
    /\ ingest' = [ingest EXCEPT !.at = "label"]
    /\ UNCHANGED <<marker, watch, rehydrate, navView, unheard, behind>> /\ IngestFrame

\* The sidecar, and reconcileAvailability.
Labelled ==
    /\ ingest.at = "label"
    /\ mirror' = [mirror EXCEPT !.label = ingest.fp]
    /\ marker' = "none" /\ navView' = StatusReloaded(navView, cortex.enabled) /\ unheard' = FALSE
    /\ Follows(ingest.why) /\ ingest' = NoIngest
    /\ UNCHANGED behind /\ IngestFrame

\* It throws: the refresh is rejected, or the watch refused and not asked for again.
IngestThrows ==
    /\ Deed /\ ingest.at # "no" /\ ingest' = NoIngest
    /\ watch' = IF ingest.why = "watch" THEN [watch EXCEPT !.is = "no"] ELSE watch
    /\ rehydrate' = IF ingest.why = "watch" THEN rehydrate ELSE "no"
    /\ behind' = TRUE /\ unheard' = TRUE
    /\ UNCHANGED <<cortex, tree, indexed, mirror, marker, navView>>

\* watchWorktree, when the keys are there.
WatchAnswered ==
    /\ IndexIdle /\ watch.is = "asked" /\ indexed.keyed /\ StartIngest("watch")
    /\ IngestFrame

WatchRefused ==
    /\ IndexIdle /\ watch.is = "asked" /\ ~indexed.keyed
    /\ watch' = [watch EXCEPT !.is = "no"]
    /\ UNCHANGED <<cortex, tree, indexed, mirror, marker, ingest, rehydrate, deeds, navView, behind,
                   unheard>>

-----------------------------------------------------------------------------
(* The refresh.                                                             *)

\* refresh: nothing while off, and a refresh that runs serves both.
Refreshes ==
    \/ /\ ~cortex.enabled /\ behind' = TRUE /\ UNCHANGED rehydrate
    \/ /\ cortex.enabled /\ rehydrate = "no"
       /\ rehydrate' = IF cortex.tool = "absent" THEN "absent" ELSE "spawned"
       /\ behind' = FALSE
    \/ /\ Joins /\ cortex.enabled /\ rehydrate # "no" /\ UNCHANGED <<rehydrate, behind>>

BatchFires ==
    /\ IndexIdle /\ watch.timer /\ watch' = [watch EXCEPT !.timer = FALSE]
    /\ Refreshes
    /\ UNCHANGED <<cortex, tree, indexed, mirror, marker, ingest, deeds, navView, unheard>>

RefreshAsked ==
    /\ Deed /\ IndexIdle /\ navView.mounted /\ indexed.keyed /\ navView.shown = "available"
    /\ Refreshes
    /\ UNCHANGED <<cortex, tree, indexed, mirror, marker, ingest, watch, navView, unheard>>

\* What ai-cortex writes: before 0.13 no indexed.
IndexWritten == [keyed |-> TRUE,
            is |-> IF cortex.tool = "json" THEN indexed.is ELSE cortex.tool,
            fp |-> IF cortex.tool = "json" THEN indexed.fp ELSE tree]

Rehydrated ==
    /\ rehydrate = "spawned" /\ cortex.tool # "absent"
    /\ indexed' = IndexWritten /\ rehydrate' = "indexed"
    /\ UNCHANGED <<cortex, tree, mirror, marker, ingest, deeds, watch, navView, behind, unheard>>

RehydrateExits ==
    /\ IndexIdle /\ rehydrate = "indexed" /\ StartIngest("refresh")
    /\ IngestFrame

\* ENOENT.
RehydrateMissing ==
    /\ IndexIdle /\ rehydrate = "absent" /\ Unavailable("no-cortex") /\ rehydrate' = "no"
    /\ UNCHANGED <<mirror, ingest, watch>> /\ IngestFrame

\* Another exit: a toast, and nothing is marked.
RehydrateFails ==
    /\ Deed /\ IndexIdle /\ rehydrate \in {"spawned", "indexed"}
    /\ rehydrate' = "no" /\ behind' = TRUE
    /\ UNCHANGED <<cortex, tree, indexed, mirror, marker, ingest, watch, navView, unheard>>

-----------------------------------------------------------------------------
(* The user, the files and the switch.                                      *)

\* A source file changes; the watcher holds it for 500 ms.
FileChanges(to) ==
    /\ scope = "index" /\ to \in 1..MaxTree /\ (to = tree + 1 \/ (Returns /\ to # tree))
    /\ tree' = to /\ watch' = [watch EXCEPT !.timer = watch.is = "on"]
    /\ behind' = (behind \/ watch.is # "on")
    /\ UNCHANGED <<cortex, indexed, mirror, marker, ingest, rehydrate, deeds, navView, unheard>>

\* ai-cortex is run by somebody else.
IndexedOutside ==
    /\ Deed /\ cortex.tool # "absent" /\ indexed # IndexWritten /\ indexed' = IndexWritten
    /\ UNCHANGED <<cortex, tree, mirror, marker, ingest, rehydrate, watch, navView, behind,
                   unheard>>

StoreRemoved ==
    /\ Deed /\ indexed.is # "none" /\ (Returns \/ IndexIdle)
    /\ indexed' = [indexed EXCEPT !.is = "none", !.fp = 0]
    /\ UNCHANGED <<cortex, tree, mirror, marker, ingest, rehydrate, watch, navView, behind,
                   unheard>>

ToolReplaced(t) ==
    /\ Deed /\ t # cortex.tool /\ t \in {"absent", "ok"} /\ rehydrate = "no"
    /\ cortex' = [cortex EXCEPT !.tool = t]
    /\ UNCHANGED <<tree, indexed, mirror, marker, ingest, rehydrate, watch, navView, behind, unheard>>

CortexSwitched ==
    /\ Deed /\ IndexIdle /\ (GateRaces \/ ~navView.loading)
    /\ cortex' = [cortex EXCEPT !.enabled = ~cortex.enabled, !.due = TRUE]
    /\ UNCHANGED <<tree, indexed, mirror, marker, ingest, rehydrate, watch, navView, behind, unheard>>

\* The registry starts or stops the driver, which announces it; it does neither when the
\* program is not there, or the switch is back.
DriverFollows ==
    LET runs == cortex.enabled /\ cortex.tool # "absent"
    IN  /\ IndexIdle /\ cortex.due
        /\ cortex' = [cortex EXCEPT !.due = FALSE, !.running = runs]
        /\ IF cortex.running # runs
           THEN navView' = StatusReloaded(navView, cortex.enabled) /\ unheard' = FALSE
           ELSE unheard' = TRUE /\ UNCHANGED navView
        /\ UNCHANGED <<tree, indexed, mirror, marker, ingest, rehydrate, deeds, watch, behind>>

\* The app ends wherever it is, and starts again.
NavCrash ==
    /\ Deed /\ ingest' = NoIngest /\ rehydrate' = "no"
    /\ watch' = [is |-> "no", timer |-> FALSE]
    /\ navView' = [mounted |-> FALSE, shown |-> "unknown", loading |-> FALSE]
    /\ cortex' = [cortex EXCEPT !.running = cortex.enabled /\ cortex.tool # "absent", !.due = FALSE]
    /\ behind' = TRUE /\ unheard' = FALSE
    /\ UNCHANGED <<tree, indexed, mirror, marker>>

IndexNext ==
    /\ \/ \E more \in BOOLEAN : StatusAnswered(more)
       \/ SymbolsOpened \/ SymbolsClosed \/ GraphRead \/ MirrorFilled \/ Labelled \/ IngestThrows
       \/ WatchAnswered \/ WatchRefused \/ BatchFires \/ RefreshAsked \/ Rehydrated
       \/ RehydrateExits \/ RehydrateMissing \/ RehydrateFails
       \/ \E to \in 1..MaxTree : FileChanges(to)
       \/ IndexedOutside \/ StoreRemoved \/ (\E t \in Tools : ToolReplaced(t))
       \/ CortexSwitched \/ DriverFollows \/ NavCrash
    /\ UNCHANGED <<keyVars, lookupVars, search, nav, scope>>

-----------------------------------------------------------------------------
(* The keys of the worktrees.  A scan forgets what is known and lists the    *)
(* sidecars of ai-cortex one by one.                                        *)

ScanBegins(i) ==
    /\ resolver' = [resolver EXCEPT !.cache = {}] /\ cleared' = i

\* resolve: nothing was scanned yet, or the worktree is not known and 2 s have passed.
ResolveKeys(i, s) ==
    /\ scope = "keys" /\ scans[i].at = "no"
    /\ ~resolver.loaded \/ (s \notin resolver.cache /\ resolver.rested)
    /\ ScanBegins(i)
    /\ scans' = [scans EXCEPT ![i] = [at |-> "begun", left |-> {}, sheet |-> s]]
    /\ UNCHANGED <<sidecars, sure>>

\* readdir
ScanLists(i) ==
    /\ scans[i].at = "begun"
    /\ scans' = [scans EXCEPT ![i].at = "reading", ![i].left = sidecars]
    /\ sure' = IF cleared = i THEN sidecars ELSE sure
    /\ UNCHANGED <<resolver, sidecars, cleared>>

\* A sidecar that is gone by now is passed over.
ScanReads(i, s) ==
    /\ scans[i].at = "reading" /\ s \in scans[i].left
    /\ scans' = [scans EXCEPT ![i].left = @ \ {s}]
    /\ resolver' = [resolver EXCEPT !.cache = IF s \in sidecars THEN @ \union {s} ELSE @]
    /\ UNCHANGED <<sidecars, cleared, sure>>

\* It is over; the caller that only had nothing loaded may scan once more.
ScanEnds(i, again) ==
    /\ scans[i].at = "reading" /\ scans[i].left = {}
    /\ again => resolver.rested /\ scans[i].sheet \notin resolver.cache
    /\ IF again
       THEN ScanBegins(i) /\ scans' = [scans EXCEPT ![i].at = "begun"]
       ELSE /\ resolver' = [resolver EXCEPT !.loaded = TRUE, !.rested = FALSE]
            /\ scans' = [scans EXCEPT ![i] = NoScan] /\ UNCHANGED cleared
    /\ UNCHANGED <<sidecars, sure>>

\* ai-cortex has no directory yet.
ScanFindsNothing(i) ==
    /\ scans[i].at = "begun" /\ sidecars = {}
    /\ resolver' = [resolver EXCEPT !.loaded = TRUE]
    /\ scans' = [scans EXCEPT ![i] = NoScan]
    /\ sure' = IF cleared = i THEN {} ELSE sure
    /\ UNCHANGED <<sidecars, cleared>>

ThrottlePasses ==
    /\ resolver.loaded /\ ~resolver.rested /\ resolver' = [resolver EXCEPT !.rested = TRUE]
    /\ UNCHANGED <<sidecars, scans, cleared, sure>>

SidecarsChange(s) ==
    /\ scope = "keys"
    /\ sidecars' = IF s \in sidecars THEN sidecars \ {s} ELSE sidecars \union {s}
    /\ sure' = sure \ {s}
    /\ UNCHANGED <<resolver, scans, cleared>>

KeysNext ==
    /\ \/ \E i \in 1..2 :
            \/ \E s \in Sheets : ResolveKeys(i, s) \/ ScanReads(i, s)
            \/ ScanLists(i) \/ ScanFindsNothing(i) \/ \E again \in BOOLEAN : ScanEnds(i, again)
       \/ ThrottlePasses \/ \E s \in Sheets : SidecarsChange(s)
    /\ UNCHANGED <<indexVars, lookupVars, search, nav, scope>>

-----------------------------------------------------------------------------
(* The lookups of the editor.                                               *)

Cached(kind, s) == {c \in rowCache : c.kind = kind /\ c.sheet = s}

\* touch, own and evict: the models of the provisioner, the oldest first.
Touch(m, f) ==
    IF Contains(m.owned, f)
    THEN [m EXCEPT !.owned = Append(RemoveAt(@, CHOOSE k \in DOMAIN m.owned : m.owned[k] = f), f)]
    ELSE m
Own(m, f) ==
    LET kept == Append(m.owned, f)
        over == Len(kept) > ModelCap
    IN  [m EXCEPT !.owned = IF over THEN Tail(kept) ELSE kept,
                  !.host = (@ \union {f}) \ (IF over THEN {Head(kept)} ELSE {})]
DisposeAll(m) == [m EXCEPT !.host = @ \ ToSet(m.owned), !.owned = <<>>]

\* ensureModel of every row, up to its read: in the order of the rows, those that are there
\* are touched.
RowsTouched(m) ==
    LET upTo[n \in 0..Len(Sources)] ==
          IF n = 0 THEN m
          ELSE IF Sources[n] \in m.host THEN Touch(upTo[n - 1], Sources[n]) ELSE upTo[n - 1]
    IN  upTo[Len(Sources)]

Provisions(i, rows) ==
    IF rows
    THEN /\ models' = RowsTouched(models)
         /\ lookup' = [lookup EXCEPT
                          ![i].at = IF ToSet(Sources) \ models.host = {} THEN "no" ELSE "models",
                          ![i].kind = "definition", ![i].sheet = nav.sheet,
                          ![i].left = ToSet(Sources) \ models.host, ![i].prov = models.prov]
    ELSE lookup' = [lookup EXCEPT ![i] = NoLookup] /\ UNCHANGED models

\* provideDefinition, provideLinks: the cache, or the main process, whose gate is first.
LookupAsked(i, kind) ==
    /\ scope = "lookup" /\ lookup[i].at = "no" /\ (i = 1 => kind = "definition")
    /\ \/ \E c \in Cached(kind, nav.sheet) :
            /\ Provisions(i, kind = "definition" /\ c.of # 0) /\ UNCHANGED rowCache
       \/ /\ Cached(kind, nav.sheet) = {}
          /\ lookup' = [lookup EXCEPT ![i] = [at |-> IF navGate.on THEN "asked" ELSE "no",
                kind |-> kind, sheet |-> nav.sheet, left |-> {}, prov |-> models.prov]]
          /\ rowCache' = IF navGate.on THEN rowCache
                         ELSE rowCache \union {[kind |-> kind, sheet |-> nav.sheet, of |-> 0]}
          /\ UNCHANGED models
    /\ UNCHANGED <<navGate, nav>>

\* The answer takes the place of one that is cached.
Caches(i, of) ==
    rowCache' = (rowCache \ Cached(lookup[i].kind, lookup[i].sheet))
                  \union {[kind |-> lookup[i].kind, sheet |-> lookup[i].sheet, of |-> of]}

LookupAnswered(i) ==
    /\ lookup[i].at = "asked" /\ Caches(i, navGate.index)
    /\ Provisions(i, lookup[i].kind = "definition" /\ lookup[i].prov = models.prov)
    /\ UNCHANGED <<navGate, nav>>

\* Without keys or a mirror: the links are cached as none.
LookupRefused(i) ==
    /\ lookup[i].at = "asked"
    /\ IF lookup[i].kind = "links" THEN Caches(i, 0) ELSE UNCHANGED rowCache
    /\ lookup' = [lookup EXCEPT ![i] = NoLookup] /\ UNCHANGED <<models, navGate, nav>>

\* A file was read: it may be there by now, and it may not be a text.
ModelRead(i, f, text) ==
    /\ lookup[i].at = "models" /\ f \in lookup[i].left
    /\ models' = CASE ~text -> models
                    [] text /\ f \in models.host -> Touch(models, f)
                    [] text /\ f \notin models.host /\ lookup[i].prov = models.prov -> Own(models, f)
                    [] OTHER -> [models EXCEPT !.host = @ \union {f}]
    /\ \/ lookup[i].left = {f} /\ lookup' = [lookup EXCEPT ![i] = NoLookup]
       \/ lookup[i].left # {f} /\ lookup' = [lookup EXCEPT ![i].left = @ \ {f}]
    /\ UNCHANGED <<rowCache, navGate, nav>>

\* Another worktree: the providers are registered anew.
SheetSwitched(s) ==
    /\ scope = "lookup" /\ s # nav.sheet
    /\ Swaps \/ \A i \in 1..2 : lookup[i].kind = "definition" => lookup[i].at = "no"
    /\ nav' = [nav EXCEPT !.sheet = s]
    /\ models' = [DisposeAll(models) EXCEPT !.prov = 3 - @]
    /\ UNCHANGED <<rowCache, lookup, navGate>>

\* worktreeIndexRefreshed, and the announcement of the plugin's driver.
IndexChanges ==
    /\ scope = "lookup" /\ navGate.index < MaxIndex
    /\ navGate' = [navGate EXCEPT !.index = @ + 1]
    /\ rowCache' = {} /\ models' = DisposeAll(models)
    /\ UNCHANGED <<lookup, nav>>

GateSwitches ==
    /\ scope = "lookup" /\ navGate.told /\ (GateRaces \/ \A i \in 1..2 : lookup[i].at # "asked")
    /\ navGate' = [navGate EXCEPT !.on = ~navGate.on, !.told = FALSE]
    /\ UNCHANGED <<rowCache, lookup, models, nav>>

GateAnnounced ==
    /\ ~navGate.told /\ navGate' = [navGate EXCEPT !.told = TRUE] /\ rowCache' = {}
    /\ UNCHANGED <<lookup, models, nav>>

RowsExpire(c) == /\ rowCache' = rowCache \ {c} /\ UNCHANGED <<lookup, models, navGate, nav>>

LookupNext ==
    /\ \/ \E i \in 1..2 :
            \/ \E kind \in {"definition", "links"} : LookupAsked(i, kind)
            \/ LookupAnswered(i) \/ LookupRefused(i)
            \/ \E f \in ToSet(Sources), text \in BOOLEAN : ModelRead(i, f, text)
       \/ (\E s \in Sheets : SheetSwitched(s)) \/ IndexChanges \/ GateSwitches \/ GateAnnounced
       \/ \E c \in rowCache : RowsExpire(c)
    /\ UNCHANGED <<indexVars, keyVars, search, scope>>

-----------------------------------------------------------------------------
(* The symbol search.                                                       *)

QueryTyped(q) ==
    /\ scope = "search" /\ q # search.query
    /\ search' = [search EXCEPT !.query = q, !.timer = search.on]

\* 80 ms later.
SearchSent ==
    /\ search.timer /\ Len(search.sent) < MaxSent
    /\ search' = [search EXCEPT !.timer = FALSE, !.sent = Append(@, search.query)]

SearchAnswered(n) ==
    /\ n \in DOMAIN search.sent /\ (Crosses \/ n = 1)
    /\ search' = [search EXCEPT !.sent = RemoveAt(@, n), !.results = search.sent[n],
                               !.failed = FALSE]

SearchFails(n) ==
    /\ n \in DOMAIN search.sent /\ (Crosses \/ n = 1)
    /\ search' = [search EXCEPT !.sent = RemoveAt(@, n), !.failed = TRUE]

\* The status says unavailable, or available again.
SearchStopped ==
    /\ scope = "search" /\ search.on
    /\ search' = [search EXCEPT !.on = FALSE, !.timer = FALSE, !.results = 0]

SearchResumed ==
    /\ scope = "search" /\ ~search.on /\ search' = [search EXCEPT !.on = TRUE, !.timer = TRUE]

SearchNext ==
    /\ \/ \E q \in 1..MaxQuery : QueryTyped(q)
       \/ SearchSent \/ (\E n \in 1..MaxSent : SearchAnswered(n) \/ SearchFails(n))
       \/ SearchStopped \/ SearchResumed
    /\ UNCHANGED <<indexVars, keyVars, lookupVars, nav, scope>>

-----------------------------------------------------------------------------
(* The jumps and the history of a worktree.                                 *)

\* NavHistory.push
Pushed(h, s) ==
    LET full == Append(h.back[s], h.at[s])
    IN  [h EXCEPT !.back[s] = IF Len(full) > BackCap THEN Tail(full) ELSE full,
                  !.forward[s] = <<>>]

ShouldPush(h, s) == h.at[s] # NoSource /\ ~h.transient[s]

\* navigate, to a place of the active worktree; a place of another one is refused.
Navigate(f, source) ==
    LET s == nav.sheet
        h == IF ShouldPush(nav, s) THEN Pushed(nav, s) ELSE nav
    IN  /\ scope = "history"
        /\ nav' = [h EXCEPT !.at[s] = f, !.transient[s] = source = "definition",
                            !.origin[s] = IF nav.transient[s] THEN @ ELSE nav.at[s]]

\* session/selectFile, session/selectChangedFile
FileOpened(f) ==
    /\ scope = "history"
    /\ nav' = [nav EXCEPT !.at[nav.sheet] = f, !.transient[nav.sheet] = FALSE]

HistoryBack ==
    LET s == nav.sheet
        rest == Front(nav.back[s])
        top == Last(nav.back[s])
    IN  /\ scope = "history" /\ nav.back[s] # <<>>
        /\ nav' = [nav EXCEPT !.back[s] = rest, !.transient[s] = FALSE,
                              !.at[s] = IF rest = <<>> THEN top ELSE Last(rest),
                              !.forward[s] = IF rest = <<>> THEN @ ELSE Append(@, top)]

HistoryForward ==
    LET s == nav.sheet
    IN  /\ scope = "history" /\ nav.forward[s] # <<>>
        /\ nav' = [nav EXCEPT !.forward[s] = Front(@), !.transient[s] = FALSE,
                              !.at[s] = Last(nav.forward[s]),
                              !.back[s] = Append(@, Last(nav.forward[s]))]

SheetShown(s) ==
    /\ scope = "history" /\ s # nav.sheet /\ nav' = [nav EXCEPT !.sheet = s]

HistoryNext ==
    /\ \/ \E f \in ToSet(Sources) :
            \/ \E source \in {"definition", "link", "palette"} : Navigate(f, source)
       \/ \E f \in ToSet(Sources) \union {NoSource} : FileOpened(f)
       \/ HistoryBack \/ HistoryForward \/ \E s \in Sheets : SheetShown(s)
    /\ UNCHANGED <<indexVars, keyVars, lookupVars, search, scope>>

NavNext == IndexNext \/ KeysNext \/ LookupNext \/ SearchNext \/ HistoryNext

-----------------------------------------------------------------------------
NavTypeOK ==
    /\ cortex.tool \in Tools /\ tree \in 1..MaxTree /\ indexed.is \in {"none", "old", "ok"}
    /\ mirror.of \in 0..MaxTree /\ marker \in Reasons \union {"none"}
    /\ ingest.at \in {"no", "graph", "fill", "label"}
    /\ rehydrate \in {"no", "spawned", "indexed", "absent"}
    /\ navView.shown \in Reasons \union {"unknown", "available"}
    /\ resolver.cache \subseteq Sheets /\ \A c \in rowCache : c.of \in 0..MaxIndex

\* An ingest that is passed over, the sidecar being that of the store, leaves a mirror that
\* holds what the store holds; an ingest that was cut is done again.
SkipIsRight ==
    (IndexIdle /\ mirror.is /\ indexed.is = "ok" /\ mirror.label = indexed.fp)
      => mirror.of = mirror.label

\* What the Symbols pane says is what the main process would say, once nothing is under way.
StatusIsTrue ==
    (navView.mounted /\ ~navView.loading /\ IndexIdle /\ ~cortex.due
       /\ ~unheard /\ navView.shown # "unknown") => navView.shown = MainStatus

\* With the batches and the refresh over, the mirror is that of the tree that is watched.
IndexFollows ==
    (watch.is = "on" /\ ~watch.timer /\ rehydrate = "no" /\ IndexIdle /\ ~behind)
      => mirror.of = tree

\* With no scan under way every worktree is known that the scan which cleared last has listed.
KeysAreKnown ==
    (resolver.loaded /\ \A i \in 1..2 : scans[i].at = "no") => sure \subseteq resolver.cache

\* Rows are those of the mirror as it is, and none while the plugin is off.
RowsAreCurrent ==
    \A c \in rowCache : c.of \in {0, navGate.index} /\ (navGate.told /\ ~navGate.on => c.of = 0)

\* The provisioned models are those the provisioner owns, once each and no more than it keeps.
ModelsAreOwned ==
    /\ models.host = ToSet(models.owned) /\ Len(models.owned) <= ModelCap
    /\ IsInjective(models.owned)

\* The symbols are those of the query once nothing is under way.
SymbolsAreOfQuery ==
    (search.on /\ ~search.timer /\ search.sent = <<>> /\ ~search.failed)
      => search.results = search.query

\* However many definitions were looked into, the way back leads where the reader was before.
WayBack ==
    \A s \in Sheets : (nav.transient[s] /\ nav.origin[s] # NoSource)
      => (nav.back[s] # <<>> /\ Last(nav.back[s]) = nav.origin[s])

\* Code navigation is honest: the index, the keys, the lookups, the search and the way back.
NavIsHonest ==
    /\ SkipIsRight /\ StatusIsTrue /\ IndexFollows /\ KeysAreKnown /\ RowsAreCurrent
    /\ ModelsAreOwned /\ SymbolsAreOfQuery /\ WayBack
===================================================================================
