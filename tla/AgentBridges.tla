------------------------------- MODULE AgentBridges -------------------------------
(***************************************************************************)
(* What an agent asks of the window through the MCP server: it reads or    *)
(* appends to the note of its session, reports its status or registers     *)
(* itself to be resumed.  src/services/mcp/ai14all-mcp-server.ts, the      *)
(* three bridges beside it (session-note-bridge.ts,                        *)
(* agent-attention-bridge.ts, agent-resume-bridge.ts, alike but for their  *)
(* messages), src/services/review/worktree-path-resolver.ts and, in the    *)
(* renderer, note-bridge-receiver.ts, use-note-bridge-receiver.ts,         *)
(* agent-attention-renderer-bridge.ts and use-agent-resume-bridge.ts.      *)
(*                                                                         *)
(* A call looks its worktree up, is forwarded and answered.  Of the tools  *)
(* that change the session ("write") only the mark they leave in it is     *)
(* kept: the call itself.  Auxiliary: what a call must find, and once it   *)
(* is answered what it did not (`must`),                                   *)
(* whether its path was registered all the time (`there`), and the marks   *)
(* that went with a page before they were saved (`forgotten`).             *)
(***************************************************************************)
EXTENDS Integers, Sequences, FiniteSets, SequencesExt

CONSTANTS MaxCalls,     \* bound: calls of the agents, numbered in their order
          Paths,        \* the worktrees they are made for
          MaxListings,  \* bound: listings of the worktrees, with the pages loaded again
          MaxPages,     \* bound: pages loaded
          Jumbled       \* BOOLEAN: a listing ends before one that began earlier

ASSUME PathsAssumption == Paths # {}
ASSUME ListingsAssumption == MaxListings \in Nat

VARIABLES registered,   \* the worktrees of the repositories that are open
          known,        \* canonicalToId
          listings,     \* re-lists under way, in the order they began
          listed,       \* re-lists begun so far; the last one is inFlight
          ask,          \* call -> [step, tool, path, again, on, must, there]
          ready,        \* rendererReady
          pendingCalls, \* the bridges' pending: an armed timer each
          toPage, toMain,
          page,         \* [up, nr]: whether the receivers are installed
          marks, savedMarks,    \* path -> the calls that left a mark: window, file
          disposed, forgotten

Calls == 1..MaxCalls

bridgeVars == <<registered, known, listings, listed, ask, ready, pendingCalls, toPage,
                toMain, page, marks, savedMarks, disposed, forgotten>>

resolverVars == <<registered, known, listings, listed>>
windowVars == <<toPage, toMain, page, marks, savedMarks, forgotten>>

NoMarks == [p \in Paths |-> {}]

BridgesInit ==
    /\ registered \in SUBSET Paths /\ known = registered
    /\ listings = <<>> /\ listed = 0
    /\ ask = [c \in Calls |-> [step |-> "idle", tool |-> "read", path |-> CHOOSE p \in Paths : TRUE,
                               again |-> FALSE, on |-> 0, must |-> {}, there |-> FALSE]]
    /\ ready = FALSE /\ pendingCalls = {} /\ toPage = <<>> /\ toMain = <<>>
    /\ page = [up |-> FALSE, nr |-> 1]
    /\ marks = NoMarks /\ savedMarks = NoMarks
    /\ disposed = FALSE /\ forgotten = {}

-----------------------------------------------------------------------------
(* The resolver.                                                             *)

\* A page that is loaded again takes the place of a listing.
Room == listed + page.nr <= MaxListings

\* refresh() and populate() up to the listing of the repositories.
BeginListing ==
    /\ Room
    /\ listed' = listed + 1
    /\ listings' = Append(listings, [nr |-> listed + 1, saw |-> registered])

\* A repository is opened or a worktree created in the app, or one goes: all of them are
\* listed again.  Of what git does elsewhere the app hears nothing.
Register(p, inside) ==
    /\ registered' = IF p \in registered THEN registered \ {p} ELSE registered \cup {p}
    /\ IF inside
       THEN /\ Room
            /\ listed' = listed + 1
            /\ listings' = Append(listings, [nr |-> listed + 1, saw |-> registered'])
       ELSE UNCHANGED <<listed, listings>>
    /\ ask' = [c \in Calls |-> IF ask[c].path = p THEN [ask[c] EXCEPT !.there = FALSE] ELSE ask[c]]
    /\ UNCHANGED <<known, ready, pendingCalls, windowVars, disposed>>

\* A listing ends; git may have answered it before or after the latest change.
ListingEnds(i) ==
    /\ i \in DOMAIN listings
    /\ Jumbled \/ i = 1
    /\ known' \in {listings[i].saw, registered}
    /\ listings' = RemoveAt(listings, i)
    /\ UNCHANGED <<registered, listed, ask, ready, pendingCalls, windowVars, disposed>>

Running(nr) == \E i \in DOMAIN listings : listings[i].nr = nr
InFlight == IF Running(listed) THEN listed ELSE 0

-----------------------------------------------------------------------------
(* A call on its way to the window.                                          *)

\* A call that failed found nothing.
Failed(a, step) == [a EXCEPT !.step = step, !.again = FALSE, !.on = 0, !.must = {}]

Moved(c, step) == ask' = [ask EXCEPT ![c] = Failed(@, step)]

\* A tool is called.
Call(c, tool, p) ==
    /\ ask[c].step = "idle" /\ \A d \in 1..(c - 1) : ask[d].step # "idle"
    /\ ask' = [ask EXCEPT ![c] = [step |-> "look", tool |-> tool, path |-> p, again |-> FALSE,
                 on |-> 0, there |-> p \in registered,
                 must |-> {d \in marks[p] : tool = "read" /\ ask[d].step = "ok"}]]
    /\ UNCHANGED <<resolverVars, ready, pendingCalls, windowVars, disposed>>

\* send() of a bridge.
Forward(c) ==
    /\ UNCHANGED <<resolverVars, toMain, page, marks, savedMarks, forgotten>>
    /\ IF disposed \/ ~ready
       THEN Moved(c, "error") /\ UNCHANGED <<pendingCalls, toPage>>
       ELSE /\ ask' = [ask EXCEPT ![c].step = "sent", ![c].again = FALSE, ![c].on = 0,
                                    ![c].there = FALSE]
            /\ pendingCalls' = pendingCalls \cup {c}
            /\ toPage' = Append(toPage, c)

\* resolve() answers null: resolveWithRefresh lists once more, and gives up.
Missed(c) ==
    IF ask[c].again
    THEN /\ Moved(c, "no_worktree")
         /\ UNCHANGED <<registered, known, listings, listed>>
    ELSE /\ BeginListing
         /\ ask' = [ask EXCEPT ![c].step = "refresh", ![c].on = listed']
         /\ UNCHANGED <<registered, known>>

\* resolve() has no listing to ride on: it begins one, unless the last one began less than
\* refreshCooldownMs ago.
NotKnown(c) ==
    \/ listed > 0 /\ Missed(c)
    \/ /\ BeginListing
       /\ ask' = [ask EXCEPT ![c].step = "list", ![c].on = listed']
       /\ UNCHANGED <<registered, known>>

\* resolve() goes on: the path is canonical, or the listing it awaits has ended.
LookUp(c) ==
    /\ ask[c].step \in {"look", "ride", "list", "refresh"}
    /\ ~Running(ask[c].on)
    /\ UNCHANGED <<ready, disposed>>
    /\ \/ /\ ask[c].step = "refresh"
          /\ ask' = [ask EXCEPT ![c].step = "look", ![c].again = TRUE]
          /\ UNCHANGED <<resolverVars, pendingCalls, windowVars>>
       \/ /\ ask[c].step # "refresh" /\ ask[c].path \in known
          /\ Forward(c)
       \/ /\ ask[c].step # "refresh" /\ ask[c].path \notin known
          /\ UNCHANGED <<pendingCalls, windowVars>>
          /\ CASE ask[c].step = "look" /\ InFlight # 0 ->
                     /\ ask' = [ask EXCEPT ![c].step = "ride", ![c].on = InFlight]
                     /\ UNCHANGED resolverVars
               [] ask[c].step = "list" -> Missed(c)
               [] OTHER -> NotKnown(c)

-----------------------------------------------------------------------------
(* The window.                                                               *)

\* Startup is over and the receivers are installed.
PageIsUp ==
    /\ ~page.up
    /\ page' = [page EXCEPT !.up = TRUE]
    /\ toMain' = Append(toMain, [kind |-> "ready"])
    /\ UNCHANGED <<resolverVars, ask, ready, pendingCalls, toPage, marks, savedMarks, disposed,
                   forgotten>>

\* handleRequest: a session of the worktree, or the process of the terminal, is found in some
\* workspace or not.
Handle(found) ==
    /\ toPage # <<>> /\ page.up
    /\ LET c == Head(toPage)
           p == ask[c].path
       IN /\ marks' = IF found /\ ask[c].tool = "write" THEN [marks EXCEPT ![p] = @ \cup {c}]
                      ELSE marks
          /\ toMain' = Append(toMain, [kind |-> IF found THEN "ok" ELSE "error", call |-> c,
                                       note |-> IF found /\ ask[c].tool = "read" THEN marks[p]
                                                ELSE {}])
    /\ toPage' = Tail(toPage)
    /\ UNCHANGED <<resolverVars, ask, ready, pendingCalls, page, savedMarks, disposed, forgotten>>

\* The workspaces are written.
SaveMarks ==
    /\ savedMarks # marks
    /\ savedMarks' = marks
    /\ UNCHANGED <<resolverVars, ask, ready, pendingCalls, toPage, toMain, page, marks, disposed,
                   forgotten>>

\* The window is loaded again, with a goodbye, or its renderer crashes and is replaced.
NewPage(goodbye) ==
    /\ page.nr < MaxPages /\ Room
    /\ page' = [up |-> FALSE, nr |-> page.nr + 1]
    /\ toPage' = <<>>
    /\ toMain' = IF goodbye /\ page.up THEN Append(toMain, [kind |-> "goodbye"]) ELSE toMain
    /\ marks' = savedMarks
    /\ forgotten' = forgotten \cup UNION {marks[p] \ savedMarks[p] : p \in Paths}
    /\ UNCHANGED <<resolverVars, ask, ready, pendingCalls, savedMarks, disposed>>

-----------------------------------------------------------------------------
(* The answers.                                                              *)

RejectCalls(cs) ==
    /\ ask' = [c \in Calls |-> IF c \in cs THEN Failed(ask[c], "error") ELSE ask[c]]
    /\ pendingCalls' = pendingCalls \ cs

\* Every call that is pending is rejected.
AllRejected == RejectCalls(pendingCalls)

\* replyHandler settles the call with what the window answered.
Replied(a, m) ==
    IF m.kind = "ok" THEN [a EXCEPT !.step = "ok", !.must = @ \ m.note] ELSE Failed(a, "error")

MainHears ==
    /\ toMain # <<>> /\ ~disposed
    /\ LET m == Head(toMain)
       IN \/ /\ m.kind = "ready"
             /\ ready' = TRUE /\ UNCHANGED <<ask, pendingCalls>>
          \/ /\ m.kind = "goodbye"
             /\ ready' = FALSE /\ AllRejected
          \/ /\ m.kind \in {"ok", "error"} /\ UNCHANGED ready
             /\ IF m.call \in pendingCalls
                THEN /\ ask' = [ask EXCEPT ![m.call] = Replied(@, m)]
                     /\ pendingCalls' = pendingCalls \ {m.call}
                ELSE UNCHANGED <<ask, pendingCalls>>
    /\ toMain' = Tail(toMain)
    /\ UNCHANGED <<resolverVars, toPage, page, marks, savedMarks, disposed, forgotten>>

\* Five seconds without an answer.
BridgeTimeout(c) ==
    /\ c \in pendingCalls
    /\ RejectCalls({c})
    /\ UNCHANGED <<resolverVars, ready, windowVars, disposed>>

\* before-quit; the window goes with it.
Dispose ==
    /\ ~disposed /\ disposed' = TRUE
    /\ AllRejected
    /\ toPage' = <<>> /\ toMain' = <<>>
    /\ UNCHANGED <<resolverVars, ready, page, marks, savedMarks, forgotten>>

WindowNext ==
    \/ \E p \in Paths, inside \in BOOLEAN : Register(p, inside)
    \/ \E i \in DOMAIN listings : ListingEnds(i)
    \/ \E c \in Calls : \/ \E p \in Paths, tool \in {"read", "write"} : Call(c, tool, p)
                        \/ BridgeTimeout(c)
    \/ PageIsUp \/ SaveMarks \/ MainHears \/ Dispose
    \/ \E found \in BOOLEAN : Handle(found)
    \/ \E goodbye \in BOOLEAN : NewPage(goodbye)

BridgesNext ==
    \/ \E c \in Calls : LookUp(c)
    \/ ~disposed /\ WindowNext

-----------------------------------------------------------------------------
BridgesTypeOK ==
    /\ registered \subseteq Paths /\ known \subseteq Paths
    /\ \A i \in DOMAIN listings : listings[i] \in [nr : 1..MaxListings, saw : SUBSET Paths]
    /\ listed \in 0..MaxListings
    /\ ask \in [Calls -> [step : {"idle", "look", "ride", "list", "refresh", "sent", "ok",
                                  "error", "no_worktree"},
                          tool : {"read", "write"}, path : Paths, again : BOOLEAN,
                          on : 0..MaxListings, must : SUBSET Calls, there : BOOLEAN]]
    /\ pendingCalls \subseteq Calls
    /\ marks \in [Paths -> SUBSET Calls] /\ savedMarks \in [Paths -> SUBSET Calls]

\* Every call that was forwarded has its timer, so that the agent is answered whatever
\* becomes of the window; none is left when the bridges are disposed of.
SomebodyAnswers ==
    /\ \A c \in Calls : ask[c].step = "sent" <=> c \in pendingCalls
    /\ disposed => pendingCalls = {}

\* An agent that is told its section was appended, or its status taken, finds it in the
\* session, unless the page went before the workspaces were written.
OkIsInSession ==
    \A c \in Calls : ask[c].step = "ok" /\ ask[c].tool = "write" =>
                       c \in marks[ask[c].path] \cup forgotten

\* What is read holds everything that had been acknowledged when it was asked for ("Useful
\* before appending to avoid duplicates").
ReadIsFresh ==
    \A c \in Calls : ask[c].step = "ok" => ask[c].must \subseteq forgotten

\* A worktree that is registered when a tool is called, and stays, is found, in spite of the
\* cooldown (worktree-path-resolver.ts, "it must ride that listing rather than fast-fail").
KnownIsFound == \A c \in Calls : ask[c].step = "no_worktree" => ~ask[c].there

\* Agents are answered, truly.
AgentsAreAnswered == SomebodyAnswers /\ OkIsInSession /\ ReadIsFresh /\ KnownIsFound
=================================================================================
