------------------------------- MODULE TerminalPanes -------------------------------
(***************************************************************************)
(* What a pane shows of its terminal:                                      *)
(* src/src/features/terminals/components/TerminalPane.tsx and              *)
(* PhoneWatchPleat.tsx, hooks/use-phone-watch-state.ts and                 *)
(* use-terminal-session.ts, logic/replay-buffer.ts, the subscription of    *)
(* src/src/app/hooks/use-terminal-runtime.ts, TerminalPanel.tsx, and what  *)
(* src/electron/main/ipc.ts sends them.                                    *)
(*                                                                         *)
(* The output of the terminal is a sequence of numbered chunks; those it   *)
(* makes while a phone owns its geometry are narrow.  A size is that of    *)
(* the box of the pane and of the font, which together give the columns    *)
(* and rows.  `followed` says which of the two a behaviour is about, for   *)
(* neither depends on the other.  xterm.from and xterm.aside are auxiliary:  *)
(* the first chunk that the pane has to show, and those that it put aside  *)
(* for the pleat.                                                          *)
(***************************************************************************)
EXTENDS Integers, FiniteSets, Sequences, SequencesExt

CONSTANTS MaxChunks,   \* bound: chunks of output
          MaxWatches,  \* bound: watches by a phone
          MaxWire,     \* bound: events on their way to the window
          MaxMoves,    \* bound: mounts, unmounts and dismissals, in a stream
          MaxReplay,   \* REPLAY_LIMIT
          Zooms        \* BOOLEAN: the size of the font changes under a pane

ASSUME ReplayAssumption == MaxReplay \in Nat

VARIABLES tty,       \* in the main process: [made, narrow, exited, size]
          phone,     \* the watch: [owner, since]
          wire,      \* the events on their way to the window
          replay,    \* the replay buffer
          status,    \* of the session in the window: "running" or "exited"
          xterm,     \* the mounted pane, if any
          pleat,     \* [from, open, bytes]; from is 0 when there is none
          box, font, \* the size of the pane on the screen
          moves, followed

paneVars == <<tty, phone, wire, replay, status, xterm, pleat, box, font, moves, followed>>

NoSeed == [state |-> "none", owned |-> FALSE, since |-> 0, behind |-> 0]
NoPane == [on |-> FALSE, visible |-> FALSE, fit |-> FALSE, observed |-> FALSE, size |-> <<0, 0>>,
           screen |-> <<>>, pending |-> <<>>, frozen |-> FALSE, sawLive |-> FALSE,
           seed |-> NoSeed, from |-> 1, aside |-> {}]
NoPleat == [from |-> 0, open |-> FALSE, bytes |-> <<>>]

PanesInit ==
    /\ tty = [made |-> 0, narrow |-> {}, exited |-> FALSE, size |-> <<0, 0>>]
    /\ phone = [owner |-> "none", since |-> 0]
    /\ wire = <<>> /\ replay = <<>> /\ status = "running"
    /\ xterm = NoPane /\ pleat = NoPleat
    /\ box = 1 /\ font = 1 /\ moves = 0
    /\ followed \in {"stream", "size"}

-----------------------------------------------------------------------------
(* The main process.                                                         *)

Event(what, n) == [what |-> what, n |-> n]
Send(e) == Len(wire) < MaxWire /\ wire' = Append(wire, e)

Outputs ==
    /\ followed = "stream" /\ ~tty.exited /\ tty.made < MaxChunks
    /\ LET n == tty.made + 1
       IN /\ tty' = [tty EXCEPT !.made = n,
                                !.narrow = IF phone.owner = "phone" THEN @ \cup {n} ELSE @]
          /\ Send(Event("output", n))
    /\ UNCHANGED <<phone, replay, status, xterm, pleat, box, font, moves, followed>>

\* Of the terminals that end, those that no phone has watched are followed.
Exits ==
    /\ ~tty.exited /\ phone.since = 0
    /\ tty' = [tty EXCEPT !.exited = TRUE]
    /\ Send(Event("exit", 0))
    /\ UNCHANGED <<phone, replay, status, xterm, pleat, box, font, moves, followed>>

\* emitWatchOwned: a watch starts, the phone gets it back, or turns.
PhoneOwns ==
    /\ followed = "stream" /\ ~tty.exited
    /\ \/ phone.owner = "none" /\ phone.since < MaxWatches
          /\ phone' = [owner |-> "phone", since |-> phone.since + 1]
       \/ phone.owner # "none" /\ phone' = [phone EXCEPT !.owner = "phone"]
    /\ Send(Event("owned", phone'.since))
    /\ UNCHANGED <<tty, replay, status, xterm, pleat, box, font, moves, followed>>

\* emitWatchEnded: a key on the desktop reclaims the terminal, or the watch stops, be it
\* reclaimed already or not.
PhoneYields ==
    /\ \/ phone.owner = "phone" /\ phone' = [phone EXCEPT !.owner = "desktop"]
       \/ phone.owner # "none" /\ phone' = [phone EXCEPT !.owner = "none"]
    /\ Send(Event("ended", phone.since))
    /\ UNCHANGED <<tty, replay, status, xterm, pleat, box, font, moves, followed>>

-----------------------------------------------------------------------------
(* The pane.                                                                 *)

Move == IF followed = "size" THEN UNCHANGED moves ELSE moves < MaxMoves /\ moves' = moves + 1

Highest(a, b) == IF a > b THEN a ELSE b
OnWire == {wire[i].n : i \in {j \in 1..Len(wire) : wire[j].what = "output"}}
Delivered == tty.made - Cardinality(OnWire)

\* The fresh terminal is written what the replay buffer has; getWatchState is asked for.
Mount ==
    /\ ~xterm.on /\ Move
    /\ xterm' = [NoPane EXCEPT !.on = TRUE, !.visible = TRUE, !.fit = followed = "size",
                              !.observed = followed = "size", !.screen = replay,
                              !.seed.state = IF followed = "stream" THEN "asked" ELSE "none",
                              !.from = IF status = "exited" THEN Delivered + 1
                                       ELSE Highest(1, Delivered - MaxReplay + 1)]
    /\ pleat' = NoPleat
    /\ UNCHANGED <<tty, phone, wire, replay, status, box, font, followed>>

Unmount ==
    /\ xterm.on /\ Move
    /\ xterm' = NoPane /\ pleat' = NoPleat
    /\ UNCHANGED <<tty, phone, wire, replay, status, box, font, followed>>

\* fit(), and the size is sent to the main process.
Fitted == [xterm EXCEPT !.size = <<box, font>>]
FitAndSend(p) ==
    /\ xterm' = [p EXCEPT !.size = <<box, font>>]
    /\ tty' = [tty EXCEPT !.size = <<box, font>>]

\* The frame after the mount, for what ran when it was mounted; with a later exit the
\* main process ignores the size.
InitialFit ==
    /\ xterm.fit
    /\ FitAndSend([xterm EXCEPT !.fit = FALSE])
    /\ UNCHANGED <<phone, wire, replay, status, pleat, box, font, moves, followed>>

\* The callback of the ResizeObserver.
Observed ==
    /\ xterm.observed
    /\ IF xterm.visible /\ status = "running"
       THEN FitAndSend([xterm EXCEPT !.observed = FALSE])
       ELSE xterm' = [xterm EXCEPT !.observed = FALSE] /\ UNCHANGED tty
    /\ UNCHANGED <<phone, wire, replay, status, pleat, box, font, moves, followed>>

BoxChanges ==
    /\ followed = "size" /\ Move
    /\ box' = 3 - box
    /\ xterm' = [xterm EXCEPT !.observed = xterm.on]
    /\ UNCHANGED <<tty, phone, wire, replay, status, pleat, font, followed>>

\* The effect of the font fits the terminal, and sends nothing.
FontChanges ==
    /\ followed = "size" /\ Zooms /\ Move
    /\ font' = 3 - font
    /\ xterm' = IF xterm.on /\ xterm.visible /\ status = "running"
               THEN [xterm EXCEPT !.size = <<box, font'>>] ELSE xterm
    /\ UNCHANGED <<tty, phone, wire, replay, status, pleat, box, followed>>

Hide ==
    /\ followed = "size" /\ xterm.on /\ xterm.visible /\ Move
    /\ xterm' = [xterm EXCEPT !.visible = FALSE]
    /\ UNCHANGED <<tty, phone, wire, replay, status, pleat, box, font, followed>>

\* Shown again, a running pane is fitted at once; the refit of the header does the same.
Show ==
    /\ xterm.on /\ ~xterm.visible /\ Move
    /\ IF status = "running" THEN FitAndSend([xterm EXCEPT !.visible = TRUE])
       ELSE xterm' = [xterm EXCEPT !.visible = TRUE] /\ UNCHANGED tty
    /\ UNCHANGED <<phone, wire, replay, status, pleat, box, font, followed>>

\* Output is written once a frame, or sooner when there is much of it.
Frame ==
    /\ xterm.pending # <<>>
    /\ xterm' = [xterm EXCEPT !.screen = @ \o xterm.pending, !.pending = <<>>]
    /\ UNCHANGED <<tty, phone, wire, replay, status, pleat, box, font, moves, followed>>

-----------------------------------------------------------------------------
(* usePhoneWatchState.                                                       *)

\* applyEvent
Owned(p, since) ==
    /\ xterm' = [p EXCEPT !.frozen = TRUE]
    /\ pleat' = [from |-> since, open |-> TRUE,
                 bytes |-> IF pleat.from = since THEN pleat.bytes ELSE <<>>]

Ended(p) ==
    /\ xterm' = [p EXCEPT !.frozen = FALSE]
    /\ pleat' = [pleat EXCEPT !.open = FALSE]

\* getWatchState, in the main process.  Its answer comes behind the events that were sent
\* before it, at once or later.
SeedTaken ==
    /\ xterm.seed.state = "asked"
    /\ xterm' = [xterm EXCEPT !.seed = [state |-> "taken", owned |-> phone.owner = "phone",
                                      since |-> phone.since, behind |-> Len(wire)]]
    /\ UNCHANGED <<tty, phone, wire, replay, status, pleat, box, font, moves, followed>>

\* Mutant: the seed counts whatever was heard since.
SeedAnyway(p) == p.seed.owned

\* A seed that came after an event of the same terminal is stale.
SeedCounts(p) == p.seed.owned /\ ~p.sawLive

SeedArrives ==
    /\ xterm.seed.state = "taken" /\ xterm.seed.behind = 0
    /\ LET p == [xterm EXCEPT !.seed = NoSeed]
       IN IF SeedCounts(xterm) THEN Owned(p, xterm.seed.since) ELSE xterm' = p /\ UNCHANGED pleat
    /\ UNCHANGED <<tty, phone, wire, replay, status, box, font, moves, followed>>

DismissPleat ==
    /\ pleat.from # 0 /\ Move
    /\ pleat' = NoPleat
    /\ UNCHANGED <<tty, phone, wire, replay, status, xterm, box, font, followed>>

-----------------------------------------------------------------------------
(* The events in the window.                                                 *)

\* The pane, one event later.
Onward == [xterm EXCEPT !.seed.behind = IF @ > 0 THEN @ - 1 ELSE 0]

\* recordReplayOutput
Recorded(n) ==
    LET all == Append(replay, n)
    IN IF Len(all) > MaxReplay THEN Tail(all) ELSE all

\* The handler of the pane: put aside while it is frozen, else written with the next frame.
Shown(n) ==
    \/ ~xterm.on /\ UNCHANGED <<xterm, pleat>>
    \/ /\ xterm.on /\ xterm.frozen
       /\ xterm' = [Onward EXCEPT !.aside = @ \cup {n}]
       /\ pleat' = [pleat EXCEPT !.bytes = Append(@, n)]
    \/ /\ xterm.on /\ ~xterm.frozen
       /\ xterm' = [Onward EXCEPT !.pending = Append(@, n)]
       /\ UNCHANGED pleat

HearOutput(e) ==
    /\ e.what = "output"
    /\ replay' = Recorded(e.n)
    /\ Shown(e.n)
    /\ UNCHANGED status

\* A terminal that ended has nothing to replay.
HearExit(e) ==
    /\ e.what = "exit"
    /\ status' = "exited" /\ replay' = <<>>
    /\ xterm' = Onward
    /\ UNCHANGED pleat

HearWatch(e) ==
    /\ e.what \in {"owned", "ended"}
    /\ IF ~xterm.on THEN UNCHANGED <<xterm, pleat>>
       ELSE LET p == [Onward EXCEPT !.sawLive = TRUE]
            IN \/ e.what = "owned" /\ Owned(p, e.n)
               \/ e.what = "ended" /\ Ended(p)
    /\ UNCHANGED <<replay, status>>

Hear ==
    /\ wire # <<>>
    /\ wire' = Tail(wire)
    /\ HearOutput(Head(wire)) \/ HearExit(Head(wire)) \/ HearWatch(Head(wire))
    /\ UNCHANGED <<tty, phone, box, font, moves, followed>>

PanesNext ==
    \/ Outputs \/ Exits \/ PhoneOwns \/ PhoneYields
    \/ Mount \/ Unmount \/ InitialFit \/ Observed \/ BoxChanges \/ FontChanges
    \/ Hide \/ Show \/ Frame \/ SeedTaken \/ SeedArrives \/ DismissPleat \/ Hear

-----------------------------------------------------------------------------
PanesTypeOK ==
    /\ tty.made \in 0..MaxChunks /\ tty.narrow \subseteq 1..MaxChunks
    /\ phone.owner \in {"none", "phone", "desktop"} /\ phone.since \in 0..MaxWatches
    /\ Len(wire) <= MaxWire /\ Len(replay) <= MaxReplay
    /\ status \in {"running", "exited"}
    /\ box \in 1..2 /\ font \in 1..2 /\ moves \in 0..MaxMoves

\* However often a pane was unmounted, hidden and frozen, its output is in order, once, and
\* without a gap: what it shows and what it put aside are all that came since its first.
OutputIsWhole ==
    xterm.on =>
      LET out == xterm.screen \o xterm.pending
      IN /\ \A i \in 1..Len(out) - 1 : out[i] < out[i + 1]
         /\ ToSet(out) \cup xterm.aside = xterm.from..Delivered
         /\ ToSet(out) \cap xterm.aside = {}

\* Once every event has come and no seed is on its way, a pane is frozen exactly while the
\* phone owns its terminal, and its pleat is open with it unless it was dismissed.
FreezeIsHonest ==
    xterm.on /\ wire = <<>> /\ xterm.seed.state = "none" =>
      /\ xterm.frozen <=> phone.owner = "phone"
      /\ pleat.open => xterm.frozen /\ pleat.from = phone.since

\* A pleat previews nothing but what came during the watches of the phone.
PleatIsNarrow == ToSet(pleat.bytes) \subseteq tty.narrow

\* Once a pane that is seen and runs has no callback due, the main process has its size.
SizeIsSent ==
    followed = "size" /\ xterm.on /\ xterm.visible /\ ~xterm.fit /\ ~xterm.observed /\ status = "running" =>
      xterm.size = <<box, font>> /\ tty.size = xterm.size

PanesAreFaithful == OutputIsWhole /\ FreezeIsHonest /\ PleatIsNarrow /\ SizeIsSent
===================================================================================
