---------------------------- MODULE InsightsDashboard ----------------------------
(***************************************************************************)
(* What the dashboard of insights shows of the two stores, and the notice  *)
(* of the first capture.                                                   *)
(* src/src/features/insights/useInsightsDashboardData.ts, bucketEdges.ts,  *)
(* workspaceRows.ts, InsightsDashboard.tsx and InsightsOverlay.tsx; the    *)
(* reads of src/electron/main/services/insights-host.ts and usage-host.ts, *)
(* src/services/usage/range.ts, src/electron/main/insights-ipc.ts; the     *)
(* notice of insights-host.ts and src/src/app/components/InsightsNotice.tsx.*)
(*                                                                         *)
(* There are three days: the last is today, the last two are within the    *)
(* week, the first is long ago.  A store is the set of days it has         *)
(* something of.  `about` says which of the two, the reads or the notice, a *)
(* behaviour is about.  Auxiliary: cycle.quiet (the stores did not change  *)
(* since the cycle began), board.quiet, board.truth (what they held when   *)
(* it ended) and board.failed (the stores a read of which failed).         *)
(***************************************************************************)
EXTENDS Naturals, FiniteSets, FiniteSetsExt

CONSTANTS MaxFetches,   \* bound: fetches
          MaxStoreMoves,\* bound: changes of the stores
          MaxTimeouts,  \* bound: reads that fail
          Ranges,       \* those the user picks: a subset of {"today", "7d", "all"}
          MaxPushes,    \* bound: notices on their way
          Quick         \* BOOLEAN: the notice is acknowledged while another is on its way

VARIABLES stores,   \* [tokens, app, usageOn, insightsOn, wiping]
          cycles,   \* the fetches under way
          screen,   \* [on, range]
          board,    \* what the last fetch left on the screen
          spent,    \* [fetches, moves, timeouts]
          notice,   \* in the main process: [worker, seen, sent, acked, stored, saving]
          banner,   \* [on, show, answer]
          pushes,   \* insights:notice events on their way
          about

dashVars == <<stores, cycles, screen, board, spent, notice, banner, pushes, about>>

Days == 1..3
Recent == {2, 3}
First(days) == IF days = {} THEN 0 ELSE Min(days)

NotAsked == [is |-> "none", days |-> {}, first |-> 0]
Asked == [NotAsked EXCEPT !.is = "asked"]
Failure == [NotAsked EXCEPT !.is = "failed"]
Off == [NotAsked EXCEPT !.is = "off"]
Data(days, all) == [is |-> "ok", days |-> days, first |-> First(all)]

NoReads == [anchors |-> NotAsked, probe |-> NotAsked, tile |-> NotAsked,
            activity |-> NotAsked, total |-> NotAsked]

Void == [tokens |-> {}, app |-> {}]
FreshScreen == [status |-> "loading", source |-> "none", range |-> "7d", tokens |-> {}, table |-> {},
           chart |-> {}, focused |-> {}, disabled |-> FALSE, domain |-> Recent,
           truth |-> Void, quiet |-> FALSE, failed |-> {}]

DashInit ==
    /\ \E some \in BOOLEAN :
         stores = [tokens |-> IF some THEN {1, 3} ELSE {}, app |-> IF some THEN {2} ELSE {}, usageOn |-> TRUE, insightsOn |-> TRUE, wiping |-> FALSE]
    /\ cycles = {} /\ screen = [on |-> FALSE, range |-> "7d"] /\ board = FreshScreen
    /\ spent = [fetches |-> 0, moves |-> 0, timeouts |-> 0]
    /\ notice = [worker |-> FALSE, seen |-> FALSE, sent |-> FALSE, acked |-> FALSE,
                 stored |-> FALSE, saving |-> FALSE]
    /\ banner = [on |-> FALSE, show |-> FALSE, answer |-> "none"]
    /\ pushes = 0
    /\ about \in {"reads", "notice"}

noticeVars == <<notice, banner, pushes>>

-----------------------------------------------------------------------------
(* Reads, in the main process.                                               *)

\* usage.queryRange: no worker, no usage.
AskUsage == IF stores.usageOn THEN Asked ELSE Off

\* query, queryAppTimeSeries, coverageAnchors: refused during a wipe, empty with no worker.
AskInsights == CASE stores.wiping -> Failure
                 [] ~stores.wiping /\ ~stores.insightsOn -> Data({}, {})
                 [] OTHER -> Asked

\* domainForRange; the weeks of `all` start with the oldest that any store has.
DomainOf(range, firsts) ==
    IF range = "all" /\ firsts \ {0} # {} THEN Recent \cup Min(firsts \ {0})..3 ELSE Recent

\* tileWindowFor
TileWindow(range, domain) == IF range = "today" THEN {3} ELSE domain

\* What a worker answers; probe, tile and total are reads of usage.
ReadAnswer(c, k) ==
    CASE k = "anchors" -> Data({}, stores.app)
      [] k = "probe" -> Data(stores.tokens \cap Recent, stores.tokens)
      [] k = "tile" -> Data(stores.tokens \cap {3}, stores.tokens)
      [] k = "activity" -> Data(stores.app \cap c.domain, stores.app)
      [] k = "total" -> Data(stores.tokens \cap c.domain, stores.tokens)

SetRead(c, k, r) == (cycles \ {c}) \cup {[c EXCEPT !.reads[k] = r]}

\* A worker answers in turn.
Answer(c, k) ==
    /\ c.reads[k] = Asked
    /\ k = "tile" => c.reads.probe # Asked
    /\ cycles' = SetRead(c, k, ReadAnswer(c, k))
    /\ UNCHANGED <<stores, screen, board, spent, noticeVars, about>>

\* QUERY_TIMEOUT_MS, RANGE_TIMEOUT_MS, queryError; nothing else settles a read that was
\* posted to a worker of insights that was stopped.
TimesOut(c, k) ==
    /\ \/ c.reads[k] = Asked /\ spent.timeouts < MaxTimeouts /\ spent' = [spent EXCEPT !.timeouts = @ + 1]
       \/ c.reads[k].is = "lost" /\ UNCHANGED spent
    /\ cycles' = SetRead(c, k, Failure)
    /\ UNCHANGED <<stores, screen, board, noticeVars, about>>

-----------------------------------------------------------------------------
(* fetchAll.                                                                 *)

\* ++generationRef.current: whatever is under way will be discarded.
Superseded == {[c EXCEPT !.mine = FALSE] : c \in cycles}

\* Up to its first await.
FetchAll(range) ==
    /\ spent.fetches < MaxFetches
    /\ spent' = [spent EXCEPT !.fetches = @ + 1]
    /\ cycles' = Superseded \cup
         {[range |-> range, step |-> 1, mine |-> TRUE, quiet |-> TRUE, domain |-> Recent,
           reads |-> [NoReads EXCEPT !.anchors = AskInsights, !.probe = AskUsage,
                                     !.tile = IF range = "today" THEN AskUsage ELSE NotAsked]]}

OpenScreen ==
    /\ about = "reads" /\ ~screen.on
    /\ screen' = [on |-> TRUE, range |-> "7d"] /\ board' = FreshScreen
    /\ FetchAll("7d")
    /\ UNCHANGED <<stores, noticeVars, about>>

CloseScreen ==
    /\ screen.on
    /\ screen' = [screen EXCEPT !.on = FALSE] /\ board' = FreshScreen
    /\ cycles' = Superseded
    /\ UNCHANGED <<stores, spent, noticeVars, about>>

PickRange(range) ==
    /\ screen.on /\ range # screen.range
    /\ screen' = [screen EXCEPT !.range = range]
    /\ FetchAll(range)
    /\ UNCHANGED <<stores, board, noticeVars, about>>

\* The poll of 30 s while the window is seen, and retry.
Refetch ==
    /\ screen.on
    /\ FetchAll(screen.range)
    /\ UNCHANGED <<stores, screen, board, noticeVars, about>>

Is(c, k, what) == c.reads[k].is = what
ReadsSettled(c) == \A k \in DOMAIN c.reads : ~Is(c, k, "asked") /\ ~Is(c, k, "lost")
FailedStores(c) ==
    {IF k \in {"anchors", "activity"} THEN "insights" ELSE "usage" : k \in {j \in DOMAIN c.reads : Is(c, j, "failed")}}

\* Of the reads that failed, the first that is looked at.
Blamed(c) == IF Is(c, "anchors", "failed") \/ Is(c, "activity", "failed") THEN "insights" ELSE "usage"

Truth == [tokens |-> IF stores.usageOn THEN stores.tokens ELSE {},
          app |-> IF stores.insightsOn THEN stores.app ELSE {}]

Land(c, s) == /\ cycles' = cycles \ {c}
               /\ board' = IF c.mine THEN s ELSE board

\* After the await; what was board before is out of sight until a fetch ends well.
FetchFails(c) ==
    /\ ReadsSettled(c) /\ FailedStores(c) # {}
    /\ Land(c, [FreshScreen EXCEPT !.status = "error", !.source = Blamed(c), !.range = c.range,
                              !.failed = FailedStores(c)])
    /\ UNCHANGED <<stores, screen, spent, noticeVars, about>>

\* The domain is known, and with it what else to read; whether the fetch was superseded is
\* only looked at where it ends.
FetchGoesOn(c) ==
    /\ c.step = 1 /\ ReadsSettled(c) /\ FailedStores(c) = {}
    /\ LET d == DomainOf(c.range, {c.reads.anchors.first, c.reads.probe.first})
           more == c.range = "all" /\ ~Is(c, "probe", "off")
       IN cycles' = (cycles \ {c}) \cup
            {[c EXCEPT !.step = 2, !.domain = d,
                       !.reads.activity = AskInsights,
                       !.reads.total = IF more THEN AskUsage ELSE NotAsked]}
    /\ UNCHANGED <<stores, screen, board, spent, noticeVars, about>>

\* The read that the tiles and the table are made of.
TileRead(c) == CASE c.range = "today" -> c.reads.tile
                 [] c.range = "all" /\ ~Is(c, "total", "none") -> c.reads.total
                 [] OTHER -> c.reads.probe

FetchEnds(c) ==
    /\ c.step = 2 /\ ReadsSettled(c) /\ FailedStores(c) = {}
    /\ LET disabled == Is(c, "probe", "off") \/ Is(c, "total", "off")
           tiles == TileRead(c)
           chart == IF c.range = "all" THEN tiles ELSE c.reads.probe
           window == TileWindow(c.range, c.domain)
           isEmpty == c.reads.anchors.first = 0 /\ (disabled \/ c.reads.probe.first = 0)
       IN Land(c, [status |-> IF isEmpty THEN "empty" ELSE "live", source |-> "none",
                    range |-> c.range, disabled |-> disabled, domain |-> c.domain,
                    tokens |-> tiles.days \cap window, table |-> tiles.days,
                    chart |-> chart.days, focused |-> c.reads.activity.days \cap window,
                    truth |-> IF c.quiet THEN Truth ELSE Void, quiet |-> c.quiet, failed |-> {}])
    /\ UNCHANGED <<stores, screen, spent, noticeVars, about>>

-----------------------------------------------------------------------------
(* The stores change.                                                        *)

\* A read of usage that waits for a worker that went is settled; one of insights is lost.
Displaced(c, off, lost) ==
    [c EXCEPT !.quiet = FALSE,
              !.reads = [k \in DOMAIN c.reads |->
                 CASE off /\ c.reads[k] = Asked /\ k \in {"probe", "tile", "total"} -> Off
                   [] lost /\ c.reads[k] = Asked /\ k \in {"anchors", "activity"} ->
                        [NotAsked EXCEPT !.is = "lost"]
                   [] OTHER -> c.reads[k]]]

StoresBecome(s, off, lost) ==
    /\ about = "reads" /\ spent.moves < MaxStoreMoves
    /\ spent' = [spent EXCEPT !.moves = @ + 1]
    /\ stores' = s
    /\ cycles' = {Displaced(c, off, lost) : c \in cycles}
    /\ UNCHANGED <<screen, board, noticeVars, about>>

LedgerGrows == stores.usageOn /\ StoresBecome([stores EXCEPT !.tokens = @ \cup {3}], FALSE, FALSE)
CaptureGrows == /\ stores.insightsOn
                /\ StoresBecome([stores EXCEPT !.app = @ \cup {3}], FALSE, FALSE)
UsageSwitched == StoresBecome([stores EXCEPT !.usageOn = ~@], stores.usageOn, FALSE)
InsightsSwitched ==
    /\ ~stores.wiping
    /\ StoresBecome([stores EXCEPT !.insightsOn = ~@], FALSE, stores.insightsOn)
WipeBegins ==
    /\ stores.insightsOn /\ ~stores.wiping
    /\ StoresBecome([stores EXCEPT !.wiping = TRUE], FALSE, FALSE)

\* The worker was stopped, the files removed, and a new one forked.
WipeEnds ==
    /\ stores.wiping
    /\ stores' = [stores EXCEPT !.wiping = FALSE, !.app = {}]
    /\ cycles' = {Displaced(c, FALSE, TRUE) : c \in cycles}
    /\ UNCHANGED <<screen, board, spent, noticeVars, about>>

readVars == <<stores, cycles, screen, board, spent>>

-----------------------------------------------------------------------------
(* The notice of the first capture.                                          *)

WorkerOn ==
    /\ about = "notice" /\ ~notice.worker
    /\ notice' = [notice EXCEPT !.worker = TRUE]
    /\ UNCHANGED <<readVars, banner, pushes, about>>

\* stopWorker
WorkerOff ==
    /\ notice.worker
    /\ notice' = [notice EXCEPT !.worker = FALSE, !.sent = FALSE]
    /\ UNCHANGED <<readVars, banner, pushes, about>>

\* The status after a tick that found, or had found, a capture; maybeDeliverNotice.
Tick ==
    /\ notice.worker /\ pushes < MaxPushes
    /\ LET quietly == notice.sent \/ notice.acked \/ notice.stored
       IN /\ pushes' = IF quietly THEN pushes ELSE pushes + 1
          /\ notice' = [notice EXCEPT !.seen = TRUE, !.sent = @ \/ ~quietly]
    /\ UNCHANGED <<readVars, banner, about>>

\* The event reaches the banner, or nobody.
PushArrives ==
    /\ pushes > 0
    /\ pushes' = pushes - 1
    /\ banner' = [banner EXCEPT !.show = @ \/ banner.on]
    /\ UNCHANGED <<readVars, notice, about>>

BannerMounts ==
    /\ about = "notice" /\ ~banner.on
    /\ banner' = [on |-> TRUE, show |-> FALSE, answer |-> "asked"]
    /\ UNCHANGED <<readVars, notice, pushes, about>>

BannerUnmounts ==
    /\ banner.on
    /\ banner' = [on |-> FALSE, show |-> FALSE, answer |-> "none"]
    /\ UNCHANGED <<readVars, notice, pushes, about>>

\* isNoticePending
Pending == notice.seen /\ ~notice.acked /\ ~notice.stored

PendingAnswered ==
    /\ banner.answer = "asked"
    /\ banner' = [banner EXCEPT !.answer = IF Pending THEN "yes" ELSE "no"]
    /\ UNCHANGED <<readVars, notice, pushes, about>>

AnswerArrives ==
    /\ banner.answer \in {"yes", "no"}
    /\ banner' = [banner EXCEPT !.answer = "none", !.show = @ \/ banner.answer = "yes"]
    /\ UNCHANGED <<readVars, notice, pushes, about>>

\* ackAndClose, with ackNotice.
Acknowledge ==
    /\ banner.show /\ (Quick \/ (pushes = 0 /\ banner.answer = "none"))
    /\ banner' = [banner EXCEPT !.show = FALSE]
    /\ notice' = [notice EXCEPT !.acked = TRUE, !.sent = TRUE, !.saving = TRUE]
    /\ UNCHANGED <<readVars, pushes, about>>

NoticeStored(kept) ==
    /\ notice.saving
    /\ notice' = [notice EXCEPT !.saving = FALSE, !.stored = @ \/ kept]
    /\ UNCHANGED <<readVars, banner, pushes, about>>

AppRestarts ==
    /\ about = "notice"
    /\ notice' = [notice EXCEPT !.worker = FALSE, !.seen = FALSE, !.sent = FALSE, !.acked = FALSE,
                                !.saving = FALSE]
    /\ banner' = [on |-> FALSE, show |-> FALSE, answer |-> "none"] /\ pushes' = 0
    /\ UNCHANGED <<readVars, about>>

DashNext ==
    \/ OpenScreen \/ CloseScreen \/ Refetch
    \/ \E r \in Ranges : PickRange(r)
    \/ \E c \in cycles : FetchFails(c) \/ FetchGoesOn(c) \/ FetchEnds(c)
    \/ \E c \in cycles : \E k \in DOMAIN c.reads : Answer(c, k) \/ TimesOut(c, k)
    \/ LedgerGrows \/ CaptureGrows \/ UsageSwitched \/ InsightsSwitched \/ WipeBegins \/ WipeEnds
    \/ WorkerOn \/ WorkerOff \/ Tick \/ PushArrives \/ BannerMounts \/ BannerUnmounts
    \/ PendingAnswered \/ AnswerArrives \/ Acknowledge \/ AppRestarts
    \/ \E kept \in BOOLEAN : NoticeStored(kept)

-----------------------------------------------------------------------------
DashTypeOK ==
    /\ stores.tokens \subseteq Days /\ stores.app \subseteq Days
    /\ Cardinality(cycles) <= MaxFetches
    /\ screen.range \in Ranges /\ board.status \in {"loading", "live", "empty", "error"}
    /\ board.source \in {"none", "insights", "usage"}
    /\ banner.answer \in {"none", "asked", "yes", "no"} /\ pushes \in 0..MaxPushes

\* Once no fetch that counts is under way, what is on the screen is of the range that is
\* picked, or says that it failed, and blames a store that did.
FetchSettles ==
    screen.on /\ (\A c \in cycles : ~c.mine) =>
      /\ board.status # "loading" /\ board.range = screen.range
      /\ board.status = "error" => board.source \in board.failed

\* The tiles and the table agree always; and when the stores stood still, with the ledger:
\* over the window of the range, and for `all` over everything that was ever counted.
FiguresAreTrue ==
    board.status = "live" =>
      /\ board.tokens = board.table
      /\ board.quiet =>
           /\ board.tokens = board.truth.tokens \cap TileWindow(board.range, board.domain)
           /\ board.chart = board.truth.tokens \cap board.domain
           /\ board.focused = board.truth.app \cap TileWindow(board.range, board.domain)
           /\ board.range = "all" => board.tokens = board.truth.tokens

\* "No insights data yet" is only said when there is none.
EmptyIsEmpty ==
    board.status = "empty" /\ board.quiet => board.truth = Void

\* A capture that was never acknowledged is announced by the banner once its questions are
\* answered, whenever it was mounted; one that was acknowledged never is again.
NoticeIsSeen ==
    banner.on /\ pushes = 0 /\ banner.answer = "none" => (banner.show <=> Pending)

DashboardIsHonest == FetchSettles /\ FiguresAreTrue /\ EmptyIsEmpty /\ NoticeIsSeen
=================================================================================
