-------------------------------- MODULE PtyRows --------------------------------
(***************************************************************************)
(* The headless copy of one agent's terminal, from which the phone is      *)
(* served rows (src/services/pty-inspect/pty-mirror.ts), and the phone's   *)
(* view of it: pty-serializer.ts (pages and cursors), pullRows and the     *)
(* hints of pty-subscription-registry.ts over the mirror of the agent's    *)
(* catalog entry.                                                          *)
(*                                                                         *)
(* A mirror is a record m; a method of the code is an operator from a      *)
(* mirror to a mirror.  Rows have absolute line numbers within an epoch; a *)
(* row that changes gets a stamp, the watermark of the tick that noticed   *)
(* it.  The terminal emulator (xterm) is external: its buffer is a         *)
(* sequence of rows, a row is one text, and a fingerprint is the text      *)
(* itself (a collision of the hash is not modelled).                       *)
(*                                                                         *)
(* The phone is external and modelled from the contract the serializer     *)
(* serves: it keeps the rows of the current epoch, asks for the newest     *)
(* rows when it opens the terminal (tail), for older ones when its user    *)
(* scrolls up (before), and for what changed when it is hinted (cursor),   *)
(* page after page while there is more.  A pull is one step: the host      *)
(* serves it in one task.                                                  *)
(***************************************************************************)
EXTENDS Naturals, Sequences, FiniteSets

-----------------------------------------------------------------------------
(* The mirror.                                                             *)

CONSTANTS Texts,       \* what a row can show
          Blank,       \* an empty row
          Heights,     \* terminal heights (rows)
          FirstHeight, \* TERMINAL_SPAWN_ROWS
          Scrollback   \* TERMINAL_SCROLLBACK_ROWS

ASSUME HeightAssumption == Heights \subseteq Nat \ {0} /\ FirstHeight \in Heights
ASSUME ScrollbackAssumption == Scrollback \in Nat

Row == Texts \cup {Blank}

BlankRows(n) == [i \in 1..n |-> Blank]

\* Partial functions from line numbers.
NoLines == [line \in {} |-> 0]
Without(f, line) == [x \in DOMAIN f \ {line} |-> f[x]]

MirrorTypeOK(m) ==
    /\ m.buf \in Seq(Row) /\ m.normal \in Seq(Row)
    /\ m.height \in Heights
    /\ Len(m.buf) >= m.height
    /\ Len(m.buf) <= IF m.alt THEN m.height ELSE Scrollback + m.height
    /\ m.epoch \in Nat \ {0}
    /\ {m.watermark, m.scrolled, m.trimmed, m.top} \subseteq Nat
    /\ {m.alt, m.wrote, m.resetting} \subseteq BOOLEAN
    /\ ~m.resetting
    \* no stamp is of the future or of a row beyond the buffer
    /\ \A line \in DOMAIN m.stamps :
          /\ m.stamps[line] \in 1..m.watermark
          /\ line < m.trimmed + Len(m.buf)

NewMirror(epoch) ==
    [buf |-> BlankRows(FirstHeight), normal |-> <<>>, height |-> FirstHeight, alt |-> FALSE,
     epoch |-> epoch, watermark |-> 0, scrolled |-> 0, trimmed |-> 0, top |-> 0,
     stamps |-> NoLines, prints |-> NoLines, wrote |-> FALSE, resetting |-> FALSE]

-----------------------------------------------------------------------------
(* Lines.                                                                  *)

First(m) == m.trimmed
Last(m) == m.trimmed + Len(m.buf) - 1
RowAt(m, line) == m.buf[line - m.trimmed + 1]
Retained(m) == Len(m.buf) - m.height        \* rows above the viewport
ViewTop(m) == m.trimmed + Retained(m)
Stamp(m, line) == IF line \in DOMAIN m.stamps THEN m.stamps[line] ELSE 0

-----------------------------------------------------------------------------
(* Epochs.                                                                 *)

\* Mutant: the scroll counter starts from zero, whatever the buffer retains.
BumpFromZero(m) ==
    [m EXCEPT !.epoch = @ + 1, !.watermark = 0, !.scrolled = 0, !.trimmed = 0,
              !.stamps = NoLines, !.prints = NoLines, !.top = Retained(m)]

\* Mutant: the stamps of the former epoch are kept.
BumpKeepingStamps(m) ==
    [m EXCEPT !.epoch = @ + 1, !.watermark = 0, !.scrolled = Retained(m), !.trimmed = 0,
              !.prints = NoLines, !.top = Retained(m)]

\* bumpEpoch
BumpEpoch(m) ==
    [m EXCEPT !.epoch = @ + 1, !.watermark = 0, !.scrolled = Retained(m), !.trimmed = 0,
              !.stamps = NoLines, !.prints = NoLines, !.top = Retained(m)]

\* setEpochFloor
SetEpochFloor(m, floor) == IF floor >= m.epoch THEN [m EXCEPT !.epoch = floor + 1] ELSE m

-----------------------------------------------------------------------------
(* What the parser does to the buffer, with the mirror's own handlers.     *)

\* One line scrolls in (onScroll): a full buffer drops its first row.
Scroll(m, text) ==
    LET full == Len(m.buf) = (IF m.alt THEN 0 ELSE Scrollback) + m.height
        moved == [m EXCEPT !.buf = Append(IF full THEN Tail(@) ELSE @, text),
                           !.scrolled = @ + 1]
    IN  IF moved.scrolled > Scrollback
        THEN [moved EXCEPT !.trimmed = @ + 1,
                           !.stamps = Without(@, m.trimmed),
                           !.prints = Without(@, m.trimmed)]
        ELSE moved

\* A row of the viewport is rewritten in place.
Rewrite(m, row, text) == [m EXCEPT !.buf[Retained(m) + row] = text]

\* onBufferChange: a full-screen program enters or leaves the alternate screen.
SwitchScreen(m) ==
    BumpEpoch(IF m.alt
              THEN [m EXCEPT !.alt = FALSE, !.buf = m.normal, !.normal = <<>>]
              ELSE [m EXCEPT !.alt = TRUE, !.buf = BlankRows(m.height), !.normal = m.buf])

\* armReset: a hard reset (RIS) clears the buffer, ED 3 its scrollback; the epoch
\* stays until the write has been parsed.  (A reset inside the alternate screen,
\* which would leave it as well, is not modelled.)
HardReset(m) == [m EXCEPT !.resetting = TRUE, !.buf = BlankRows(m.height)]
ClearScrollback(m) ==
    [m EXCEPT !.resetting = TRUE, !.buf = SubSeq(@, Retained(m) + 1, Len(@))]

AfterControl(m) ==
    {Scroll(m, text) : text \in Texts}
    \cup {Rewrite(m, row, text) : row \in 1..m.height, text \in Texts}
    \cup {SwitchScreen(m)}
    \cup (IF m.alt THEN {} ELSE {HardReset(m), ClearScrollback(m)})

\* The completion callback of a write: settleReset, then the rows may be dirty.
WriteDone(m) ==
    LET settled == IF m.resetting THEN BumpEpoch([m EXCEPT !.resetting = FALSE]) ELSE m
    IN  [settled EXCEPT !.wrote = TRUE]

\* write: the emulator parses a chunk, up to two controls of it here, and calls
\* back in the same task.
AfterWrite(m) ==
    {WriteDone(n) : n \in AfterControl(m) \cup UNION {AfterControl(k) : k \in AfterControl(m)}}

\* resize: the emulator keeps the newest rows.
FitRows(rows, height, capacity) ==
    LET padded == rows \o BlankRows(IF Len(rows) < height THEN height - Len(rows) ELSE 0)
        excess == IF Len(padded) > capacity THEN Len(padded) - capacity ELSE 0
    IN  SubSeq(padded, excess + 1, Len(padded))

ResizeMirror(m, height) ==
    BumpEpoch([m EXCEPT
        !.height = height,
        !.buf = FitRows(@, height, (IF m.alt THEN 0 ELSE Scrollback) + height),
        !.normal = IF m.alt THEN FitRows(@, height, Scrollback + height) ELSE @])

-----------------------------------------------------------------------------
(* The tick.                                                               *)

\* Mutant: rows that left the viewport since the last tick are not looked at.
DirtyInView(m) ==
    {line \in ViewTop(m)..Last(m) : line \notin DOMAIN m.prints \/ m.prints[line] # RowAt(m, line)}

\* Rows that left the viewport since the last tick, and rows of the viewport
\* whose fingerprint changed.
Dirty(m) ==
    {line \in m.top..(ViewTop(m) - 1) : line >= m.trimmed}
    \cup {line \in ViewTop(m)..Last(m) :
             line \notin DOMAIN m.prints \/ m.prints[line] # RowAt(m, line)}

\* Does a tick stamp anything?
Stamps(m) == ~m.resetting /\ m.wrote /\ Dirty(m) # {}

\* tick
Tick(m) ==
    LET looked == [m EXCEPT !.wrote = FALSE, !.top = ViewTop(m),
                            !.prints = [line \in ViewTop(m)..Last(m) |-> RowAt(m, line)]]
    IN  IF m.resetting \/ ~m.wrote THEN m
        ELSE IF Dirty(m) = {} THEN looked
        ELSE [looked EXCEPT
                 !.watermark = @ + 1,
                 !.stamps = [line \in DOMAIN m.stamps \cup Dirty(m) |->
                                IF line \in Dirty(m) THEN m.watermark + 1 ELSE m.stamps[line]]]

-----------------------------------------------------------------------------
(* The pages and the phone.                                                *)

CONSTANTS Cap,        \* rows in a page
          TailSize,   \* rows asked for with tail
          NoCursor,   \* no cursor, no token
          MaxOutput,  \* bound: outputs, resizes and rebinds
          ScrollBusy, \* may a scroll-up come between an output and its tick
          Reruns      \* may the host restart under the phone's cursor

ASSUME CapAssumption == Cap \in Nat \ {0} /\ TailSize \in Nat \ {0}
ASSUME BoundAssumption == MaxOutput \in Nat
ASSUME RowFlagAssumption == ScrollBusy \in BOOLEAN /\ Reruns \in BOOLEAN

VARIABLES mirror,     \* the mirror of the entry
          run,        \* how many mirrors the entry has had
          subscribed, \* is the agent the active subscription
          hint,       \* is the subscription's hint coalescer armed
          cursor,     \* the phone's resume cursor
          before,     \* the phone's token for older rows
          copy,       \* the rows the phone has, by line
          since,      \* the oldest line the phone was served up to
          seen,       \* the mirror the copy is of
          owed,       \* the phone was hinted, or there was more
          outputs

hostVars == <<mirror, run>>
heldVars == <<cursor, before, copy, since, seen, owed>>
rowsVars == <<hostVars, subscribed, hint, heldVars, outputs>>

Cursors == [epoch : Nat, watermark : Nat, line : Nat]

ASSUME CursorAssumption == NoCursor \notin Cursors

RowsTypeOK ==
    /\ MirrorTypeOK(mirror)
    /\ subscribed \in BOOLEAN /\ hint \in BOOLEAN /\ owed \in BOOLEAN
    /\ cursor \in Cursors \cup {NoCursor}
    /\ before \in Cursors \cup {NoCursor}
    /\ \A line \in DOMAIN copy : line \in Nat /\ copy[line] \in Row
    /\ since \in Nat
    /\ seen \in 0..run
    /\ outputs \in 0..MaxOutput
    \* a hint is only ever armed for a subscription
    /\ hint => subscribed

RowsInit ==
    /\ mirror = NewMirror(1)
    /\ run = 1
    /\ subscribed = FALSE
    /\ hint = FALSE
    /\ cursor = NoCursor
    /\ before = NoCursor
    /\ copy = NoLines
    /\ since = 0
    /\ seen = 0
    /\ owed = FALSE
    /\ outputs = 0

-----------------------------------------------------------------------------
(* Pages.                                                                  *)

\* A cursor that is answered with a fresh snapshot.
Fresh(m, c) ==
    \/ c = NoCursor
    \/ c.epoch # m.epoch
    \/ c.line < First(m)
    \/ c.line > Last(m)
    \/ c.watermark > m.watermark

\* The order of a forward page: by stamp, then by line.
Precedes(m, x, y) ==
    \/ Stamp(m, x) < Stamp(m, y)
    \/ Stamp(m, x) = Stamp(m, y) /\ x < y

Candidates(m, c) ==
    IF Fresh(m, c) THEN First(m)..Last(m)
    ELSE {line \in First(m)..Last(m) :
             \/ Stamp(m, line) > c.watermark
             \/ Stamp(m, line) = c.watermark /\ line > c.line}

ForwardLines(m, c) ==
    LET all == Candidates(m, c)
    IN  {line \in all : Cardinality({x \in all : Precedes(m, x, line)}) < Cap}

\* The cursor a forward page of these lines resumes at.
ResumeAfter(m, c, lines) ==
    IF lines = {} THEN c
    ELSE LET line == CHOOSE x \in lines : \A y \in lines \ {x} : Precedes(m, y, x)
         IN  [epoch |-> m.epoch, watermark |-> Stamp(m, line), line |-> line]

FromNow(m) == [epoch |-> m.epoch, watermark |-> m.watermark, line |-> Last(m)]

Lesser(x, y) == IF x < y THEN x ELSE y
MinOf(lines) == CHOOSE x \in lines : \A y \in lines : x <= y

TailLines(m) ==
    LET n == Lesser(TailSize, Cap)
    IN  {line \in First(m)..Last(m) : line + n > Last(m)}

BackwardLines(m, token) ==
    IF token.epoch # m.epoch \/ token.line <= First(m) \/ token.line > Last(m) THEN {}
    ELSE {line \in First(m)..Last(m) : line < token.line /\ line + Cap >= token.line}

\* cursorBefore, computed from the rows of any page.
Older(m, lines) ==
    IF m.alt \/ lines = {} \/ MinOf(lines) <= First(m) THEN NoCursor
    ELSE [epoch |-> m.epoch, watermark |-> 0, line |-> MinOf(lines)]

-----------------------------------------------------------------------------
(* The terminal.                                                           *)

Spend == outputs < MaxOutput /\ outputs' = outputs + 1

\* An epoch bump of the mirror triggers the subscription's coalescer.
Trigger(m) == hint' = (hint \/ (subscribed /\ m.epoch # mirror.epoch))

Output ==
    /\ Spend
    /\ mirror' \in AfterWrite(mirror)
    /\ Trigger(mirror')
    /\ UNCHANGED <<run, subscribed, heldVars>>

ResizeTerminal ==
    /\ Spend
    /\ \E height \in Heights :
          /\ mirror' = ResizeMirror(mirror, height)
          /\ Trigger(mirror')
    /\ UNCHANGED <<run, subscribed, heldVars>>

\* The entry is rebound to a replacement terminal, whose mirror has output of its
\* own and may have gone through epochs already.
Rebound ==
    /\ Spend
    /\ \E epoch \in 1..2, text \in Texts :
          mirror' = WriteDone(Scroll(SetEpochFloor(NewMirror(epoch), mirror.epoch), text))
    /\ run' = run + 1
    /\ hint' = subscribed
    /\ UNCHANGED <<subscribed, heldVars>>

\* A new serializer run: the host restarts, or the entry is removed and admitted
\* again.  The subscription ends; the phone keeps its cursor.
Rerun ==
    /\ Reruns \/ cursor = NoCursor
    /\ Spend
    /\ \E text \in Texts : mirror' = WriteDone(Scroll(NewMirror(1), text))
    /\ run' = run + 1
    /\ subscribed' = FALSE
    /\ hint' = FALSE
    /\ UNCHANGED heldVars

-----------------------------------------------------------------------------
(* The subscription.                                                       *)

\* The phone pulls once it is subscribed.
SubscribeRows ==
    /\ ~subscribed
    /\ subscribed' = TRUE
    /\ owed' = TRUE
    /\ UNCHANGED <<hostVars, hint, cursor, before, copy, since, seen, outputs>>

UnsubscribeRows ==
    /\ subscribed
    /\ subscribed' = FALSE
    /\ hint' = FALSE
    /\ UNCHANGED <<hostVars, heldVars, outputs>>

\* The subscription's interval.
Interval ==
    /\ subscribed
    /\ mirror.wrote
    /\ mirror' = Tick(mirror)
    /\ hint' = (hint \/ Stamps(mirror))
    /\ UNCHANGED <<run, subscribed, heldVars, outputs>>

HintFires ==
    /\ hint
    /\ hint' = FALSE
    /\ owed' = TRUE
    /\ UNCHANGED <<hostVars, subscribed, cursor, before, copy, since, seen, outputs>>

-----------------------------------------------------------------------------
(* Pulls.  The rows of another epoch than the phone's replace its copy, and *)
(* rows before trimmedBefore are evicted.                                  *)

Serve(m, lines, same) ==
    /\ mirror' = m
    /\ seen' = run
    /\ copy' = [line \in {x \in DOMAIN copy : same /\ x >= First(m)} \cup lines |->
                   IF line \in lines THEN RowAt(m, line) ELSE copy[line]]
    /\ UNCHANGED <<run, subscribed, hint, outputs>>

PullForward ==
    LET m == Tick(mirror)
        lines == ForwardLines(m, cursor)
        same == cursor # NoCursor /\ cursor.epoch = m.epoch
    IN  /\ owed
        /\ Serve(m, lines, same)
        /\ cursor' = ResumeAfter(m, cursor, lines)
        /\ since' = IF same THEN since ELSE First(m)
        /\ before' = IF same THEN before ELSE NoCursor
        /\ owed' = (lines # Candidates(m, cursor))

\* The phone opens the terminal.
PullTail ==
    LET m == Tick(mirror)
    IN  /\ cursor = NoCursor
        /\ Serve(m, TailLines(m), FALSE)
        /\ cursor' = FromNow(m)
        /\ since' = MinOf(TailLines(m))
        /\ before' = Older(m, TailLines(m))
        /\ UNCHANGED owed

\* The phone's user scrolls up.  A page of another epoch is not used.
PullBackward ==
    LET m == Tick(mirror)
        lines == BackwardLines(m, before)
    IN  /\ before # NoCursor
        /\ ScrollBusy \/ ~subscribed \/ ~mirror.wrote
        /\ IF m.epoch = cursor.epoch
           THEN Serve(m, lines, TRUE)
           ELSE mirror' = m /\ UNCHANGED <<run, subscribed, hint, outputs, copy, seen>>
        /\ since' = IF lines = {} THEN since ELSE MinOf(lines)
        /\ before' = Older(m, lines)
        /\ UNCHANGED <<cursor, owed>>

\* The phone closes the terminal.
Forget ==
    /\ ~subscribed
    /\ cursor # NoCursor
    /\ cursor' = NoCursor
    /\ before' = NoCursor
    /\ copy' = NoLines
    /\ since' = 0
    /\ seen' = 0
    /\ owed' = FALSE
    /\ UNCHANGED <<hostVars, subscribed, hint, outputs>>

-----------------------------------------------------------------------------
RowsNext ==
    \/ Output
    \/ ResizeTerminal
    \/ Rebound
    \/ Rerun
    \/ SubscribeRows
    \/ UnsubscribeRows
    \/ Interval
    \/ HintFires
    \/ PullForward
    \/ PullTail
    \/ PullBackward
    \/ Forget

RowsSpec == RowsInit /\ [][RowsNext]_rowsVars

\* Timers fire, and a hinted phone pulls.
RowsFairness ==
    /\ WF_rowsVars(Interval)
    /\ WF_rowsVars(HintFires)
    /\ WF_rowsVars(PullForward)

FairRowsSpec == RowsSpec /\ RowsFairness

-----------------------------------------------------------------------------
(* Properties.                                                             *)

Quiet == ~mirror.wrote

Drained == ~Fresh(mirror, cursor) /\ Candidates(mirror, cursor) = {}

Shows(line) == line \in DOMAIN copy /\ copy[line] = RowAt(mirror, line)

(* Once the mirror is quiet and the phone has pulled until there is no more,
   every retained row from the oldest one it was served is on the phone as
   it is on the host: through paging in stamp order, rows rewritten between
   two pages, bursts larger than the viewport, trims and epochs.           *)
NothingMissed ==
    Quiet /\ Drained => \A line \in First(mirror)..Last(mirror) : line >= since => Shows(line)

(* A line that has left the viewport keeps its number for as long as the
   epoch and the buffer last: the trim count never drifts.                 *)
LineIdentity ==
    [][mirror'.epoch = mirror.epoch /\ run' = run =>
          \A line \in First(mirror)..(ViewTop(mirror) - 1) :
             line >= First(mirror') => RowAt(mirror', line) = RowAt(mirror, line)]_rowsVars

(* A cursor is only ever continued on the mirror it came from: a new mirror
   of the agent is a new epoch.                                            *)
CursorOfThisRun == ~Fresh(mirror, cursor) => seen = run

(* When the phone was served the last older page, it has everything.       *)
BackfillComplete ==
    cursor # NoCursor /\ before = NoCursor /\ cursor.epoch = mirror.epoch /\ ~mirror.alt
       => since <= First(mirror)

(* A subscribed phone that has not seen everything was hinted or will be.  *)
HintCoversChange ==
    subscribed => Drained \/ owed \/ hint \/ ~Quiet

(* What the phone holds is what the host has: all of it up to its cursor, from
   the run it came from, and with a hint of whatever it lacks.             *)
RowsAreHonest ==
    /\ NothingMissed
    /\ BackfillComplete
    /\ CursorOfThisRun
    /\ HintCoversChange

(* When the terminal falls silent, a phone that stays subscribed ends up with
   all of it.                                                              *)
CatchesUp == subscribed ~> ~subscribed \/ (Quiet /\ Drained)

(* The phone catches up, by line numbers that never change their meaning.  *)
RowsArrive == LineIdentity /\ CatchesUp
=============================================================================
