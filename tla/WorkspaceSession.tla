-------------------------- MODULE WorkspaceSession --------------------------
(***************************************************************************)
(* The panes and shells of one worktree in the renderer: the catalog of    *)
(* grid layouts, the planner that says where a new shell goes and how the  *)
(* panes close up, and the reducer over them.                              *)
(* src/src/features/terminals/logic/terminal-layouts.ts,                   *)
(* src/src/features/terminals/logic/terminal-layout-planner.ts,            *)
(* src/src/features/workspace/logic/workspace-state.ts.                    *)
(*                                                                         *)
(* A cell is the rectangle <<first column, last column, first row, last    *)
(* row>> a slot takes in the CSS grid.  A slot sequence holds processes    *)
(* and None.                                                               *)
(*                                                                         *)
(* A session s is a record: layout (terminalLayoutId), slots               *)
(* (slotProcessIds), active, floating (floatingShellIds) and procs, which  *)
(* maps each process to the terminal it is bound to and its status; which  *)
(* popover is unfolded is left out.  processSessionIds is                  *)
(* Running(s.slots).  Attention is the subject of SidebarAgents.           *)
(***************************************************************************)
EXTENDS Naturals, SequencesExt

-----------------------------------------------------------------------------
(* The layouts and the planner.                                            *)

CONSTANT None          \* an empty slot

Turned(cells) == [i \in DOMAIN cells |->
                    <<cells[i][3], cells[i][4], cells[i][1], cells[i][2]>>]

Row(n) == [i \in 1..n |-> <<i, i + 1, 1, 2>>]

Master(n) == << <<1, 2, 1, n>> >> \o [i \in 1..(n - 1) |-> <<2, 3, i, i + 1>>]

DoubleMaster(n) ==
    IF n = 5 THEN << <<1, 2, 1, 4>>, <<1, 2, 4, 7>>,
                     <<2, 3, 1, 3>>, <<2, 3, 3, 5>>, <<2, 3, 5, 7>> >>
             ELSE << <<1, 2, 1, 3>>, <<1, 2, 3, 5>> >>
                  \o [i \in 1..4 |-> <<2, 3, i, i + 1>>]

Grid(columns, rows) ==
    [i \in 1..(columns * rows) |->
        LET c == ((i - 1) % columns) + 1
            r == ((i - 1) \div columns) + 1
        IN  <<c, c + 1, r, r + 1>>]

Laid(name, count, orient, dist, cells) ==
    [id |-> name, slotCount |-> count, orientation |-> orient,
     distribution |-> dist, slotPlacements |-> cells]

\* A shape and the same shape turned.
Family(v, h, count, dist, cells) ==
    << Laid(v, count, "vertical", dist, cells), Laid(h, count, "horizontal", dist, Turned(cells)) >>

UpToFour ==
    << << Laid("1", 1, "none", "single", Row(1)) >>,
       Family("2-v", "2-h", 2, "equal", Row(2)),
       Family("3-v", "3-h", 3, "equal", Row(3)) \o Family("3-vm", "3-hm", 3, "master", Master(3)),
       Family("4-v", "4-h", 4, "equal", Row(4)) \o Family("4-vm", "4-hm", 4, "master", Master(4))
       \o << Laid("4-grid", 4, "none", "grid", Grid(2, 2)) >> >>

OfFive ==
    Family("5-v", "5-h", 5, "equal", Row(5)) \o Family("5-vm", "5-hm", 5, "master", Master(5))
    \o Family("5-vdm", "5-hdm", 5, "double-master", DoubleMaster(5))

OfSix ==
    Family("6-v", "6-h", 6, "equal", Row(6)) \o Family("6-vm", "6-hm", 6, "master", Master(6))
    \o Family("6-vdm", "6-hdm", 6, "double-master", DoubleMaster(6))
    \o << Laid("6-grid23", 6, "none", "grid", Grid(3, 2)),
          Laid("6-grid32", 6, "none", "grid", Grid(2, 3)) >>

\* The layouts with n slots, in the order of the catalog.
WithSlots(n) == IF n \in 1..4 THEN UpToFour[n] ELSE IF n = 5 THEN OfFive
                ELSE IF n = 6 THEN OfSix ELSE <<>>

Catalog == UNION {Range(WithSlots(n)) : n \in 1..6}

LAYOUT_IDS == {d.id : d \in Catalog}

TERMINAL_LAYOUTS == [name \in LAYOUT_IDS |-> CHOOSE d \in Catalog : d.id = name]

SlotCount(name) == TERMINAL_LAYOUTS[name].slotCount

Placements(name) == TERMINAL_LAYOUTS[name].slotPlacements

\* The sequence without its empty places.
Running(slots) ==
    LET upTo[n \in 0..Len(slots)] ==
            IF n = 0 THEN <<>>
            ELSE IF slots[n] = None THEN upTo[n - 1] ELSE Append(upTo[n - 1], slots[n])
    IN  upTo[Len(slots)]

Padded(running, n) == [i \in 1..n |-> IF i <= Len(running) THEN running[i] ELSE None]

\* Mutant: the panes are sorted by process.
compactSorted(slots, name) ==
    Padded(SetToSortSeq(Range(Running(slots)), <), SlotCount(name))

compactIntoLayout(slots, name) == Padded(Running(slots), SlotCount(name))

\* The layout one bucket up, or None: the first of the same shape, else of
\* equal panes of the same orientation (vertical when there is none).
Bigger(cur, layouts) ==
    LET turn == IF cur.orientation = "none" THEN "vertical" ELSE cur.orientation
        exact == {i \in DOMAIN layouts : /\ layouts[i].orientation = cur.orientation
                                         /\ layouts[i].distribution = cur.distribution}
        equal == {i \in DOMAIN layouts : /\ layouts[i].orientation = turn
                                         /\ layouts[i].distribution = "equal"}
        fit == IF exact # {} THEN exact ELSE equal
    IN  IF fit = {} THEN None
        ELSE layouts[CHOOSE i \in fit : \A j \in fit : i <= j].id

resolvePromotedLayout(name) ==
    Bigger(TERMINAL_LAYOUTS[name], WithSlots(SlotCount(name) + 1))

Planned(name, slots, promoted) ==
    LET gaps == {i \in DOMAIN slots : slots[i] = None}
    IN  IF gaps # {}
        THEN [kind |-> "fill", layout |-> name,
              slot |-> CHOOSE i \in gaps : \A j \in gaps : i <= j]
        ELSE IF Len(Running(slots)) >= 6 \/ promoted = None
        THEN [kind |-> "full", layout |-> name, slot |-> 0]
        ELSE [kind |-> "promote", layout |-> promoted, slot |-> Len(slots) + 1]

\* Where an added shell goes: [kind, layout, slot].
planAddPlacement(name, slots) == Planned(name, slots, resolvePromotedLayout(name))

\* a lies before, after or across b on the axis whose range starts at k.
relate(a, b, k) == IF a[k + 1] <= b[k] THEN "before"
                   ELSE IF b[k + 1] <= a[k] THEN "after" ELSE "overlap"

scoreCandidate(cells, candidate) ==
    LET kept(k) == {q \in (DOMAIN cells) \X (DOMAIN cells) :
                       /\ q[1] < q[2]
                       /\ relate(cells[q[1]], cells[q[2]], k)
                            = relate(candidate[q[1]], candidate[q[2]], k)}
    IN  Cardinality(kept(1)) + Cardinality(kept(3))

shareBand(cells, k) ==
    \E u \in 1..6 : \A i \in DOMAIN cells : cells[i][k] <= u /\ u < cells[i][k + 1]

\* The first of the layouts whose panes lie to each other as the cells do most.
Nearest(cells, layouts) ==
    LET score == [i \in DOMAIN layouts |-> scoreCandidate(cells, layouts[i].slotPlacements)]
    IN  CHOOSE i \in DOMAIN layouts :
            \A j \in DOMAIN layouts : score[j] < score[i] \/ (score[j] = score[i] /\ i <= j)

\* That layout if it keeps them all, else equal panes along their axis.
Fitted(cells, d) ==
    LET n == Len(cells)
        turn == IF shareBand(cells, 3) \/ ~shareBand(cells, 1) THEN "vertical" ELSE "horizontal"
    IN  IF scoreCandidate(cells, d.slotPlacements) = n * (n - 1) THEN d.id
        ELSE (CHOOSE e \in Range(WithSlots(n)) :
                 e.orientation = turn /\ e.distribution = "equal").id

BestOf(cells, layouts) == Fitted(cells, layouts[Nearest(cells, layouts)])

\* kept: the slots of the layout that still hold a shell, in order.
resolveReorganizedLayout(name, kept) ==
    IF Len(kept) <= 1 THEN "1"
    ELSE BestOf([i \in DOMAIN kept |-> Placements(name)[kept[i]]], WithSlots(Len(kept)))

-----------------------------------------------------------------------------
(* The reducer.                                                            *)

CONSTANT MaxFloating     \* MAX_FLOATING_SHELLS

createSession == [layout |-> "1", slots |-> <<None>>, active |-> None,
                  floating |-> <<>>, procs |-> <<>>]

Born(t) == [term |-> t, status |-> "running"]

FirstOf(slots) == IF Running(slots) = <<>> THEN None ELSE Running(slots)[1]

\* The slots, and the layout, after p took the place it was planned.
Put(s, p, name, i) ==
    LET base == IF name = s.layout THEN s.slots ELSE compactIntoLayout(s.slots, name)
    IN  [s EXCEPT !.layout = name, !.slots = [base EXCEPT ![i] = p], !.active = p]

WithProcess(s, p, t) ==
    [s EXCEPT !.procs = [q \in DOMAIN s.procs \cup {p} |-> IF q = p THEN Born(t) ELSE s.procs[q]]]

\* s as it is, or with p put into next where it was planned.
PutPlanned(s, next, p, plan) ==
    IF plan.kind = "full" THEN s ELSE Put(next, p, plan.layout, plan.slot)

registerProcess(s, p, t) ==
    PutPlanned(s, WithProcess(s, p, t), p, planAddPlacement(s.layout, s.slots))

placeProcessInNewSlot(s, p, t, name, i) == Put(WithProcess(s, p, t), p, name, i)

\* Mutant: the slots are not refitted to the layout.
setLayoutOnly(s, name) == [s EXCEPT !.layout = name]

setTerminalLayout(s, name) ==
    IF SlotCount(name) < Len(Running(s.slots)) THEN s
    ELSE [s EXCEPT !.layout = name, !.slots = compactIntoLayout(s.slots, name),
                   !.active = IF s.active \in Range(s.slots) THEN s.active
                             ELSE FirstOf(s.slots)]

swapTerminalSlots(s, i, j) ==
    [s EXCEPT !.slots = [s.slots EXCEPT ![i] = s.slots[j], ![j] = s.slots[i]]]

replaceProcessTerminal(s, p, t) ==
    IF p \in DOMAIN s.procs THEN [s EXCEPT !.procs[p].term = t] ELSE s

\* Mutant: the terminal the status was reported for is not compared.
updateAnyStatus(s, p, status, only) ==
    IF p \notin DOMAIN s.procs THEN s ELSE [s EXCEPT !.procs[p].status = status]

\* only is the terminal the status was reported for, or None.
updateProcessStatus(s, p, status, only) ==
    IF p \notin DOMAIN s.procs \/ only \notin {None, s.procs[p].term} THEN s
    ELSE [s EXCEPT !.procs[p].status = status]

\* The occupied slot nearest to from, the next one before the previous one.
nearestOccupiedSlot(slots, from) ==
    LET held == {i \in DOMAIN slots : slots[i] # None}
        Far(i) == IF i > from THEN 2 * (i - from) - 1 ELSE 2 * (from - i)
    IN  IF held = {} THEN None
        ELSE slots[CHOOSE i \in held : \A j \in held : Far(i) <= Far(j)]

\* The numbers of the slots that hold a shell, in order.
Occupied(slots) == Running([i \in DOMAIN slots |-> IF slots[i] = None THEN None ELSE i])

Emptied(slots, p) == [i \in DOMAIN slots |-> IF slots[i] = p THEN None ELSE slots[i]]

Without(s, p) == [q \in DOMAIN s.procs \ {p} |-> s.procs[q]]

\* slots are those p left behind, and name the layout they now ask for.
CloseInto(s, p, slots, name) ==
    LET at == {i \in DOMAIN s.slots : s.slots[i] = p}
    IN  [s EXCEPT
            !.layout = name,
            !.slots = compactIntoLayout(slots, name),
            !.procs = Without(s, p),
            !.active = IF Running(slots) = <<>> THEN None
                       ELSE IF s.active # p THEN s.active
                       ELSE IF at = {} THEN FirstOf(slots)
                       ELSE nearestOccupiedSlot(slots, CHOOSE i \in at : TRUE)]

closeProcess(s, p) ==
    CloseInto(s, p, Emptied(s.slots, p),
              resolveReorganizedLayout(s.layout, Occupied(Emptied(s.slots, p))))

Held(s, p) == p \in Range(s.floating)

registerFloatingShell(s, p, t) ==
    IF Len(s.floating) >= MaxFloating THEN s
    ELSE [WithProcess(s, p, t) EXCEPT !.floating = Append(@, p)]

Unfloated(s, p) == [s EXCEPT !.floating = Running(Emptied(s.floating, p))]

closeFloatingShell(s, p) ==
    IF ~Held(s, p) THEN s
    ELSE [Unfloated(s, p) EXCEPT !.procs = Without(s, p)]

pinFloatingShellToSlot(s, p) ==
    IF ~Held(s, p) \/ p \notin DOMAIN s.procs THEN s
    ELSE PutPlanned(s, Unfloated(s, p), p, planAddPlacement(s.layout, s.slots))

\* What is persisted of a session, and the session restored from it: the
\* shells in its panes, bound to no terminal yet.  old: a snapshot written
\* before there were layouts keeps one shell.
Snapshot(s) == [layout |-> s.layout, slots |-> s.slots, active |-> s.active]

restorePersistedSession(snap, old) ==
    LET ids == Range(Running(snap.slots))
        one == IF snap.active \in ids THEN snap.active ELSE FirstOf(snap.slots)
        slots == IF old THEN <<one>> ELSE snap.slots
        kept == Range(slots) \ {None}
    IN  [createSession EXCEPT
            !.layout = IF old THEN "1" ELSE snap.layout,
            !.slots = slots,
            !.active = IF snap.active \in kept THEN snap.active ELSE FirstOf(slots),
            !.procs = [p \in kept |-> [term |-> None, status |-> "restarting"]]]
=============================================================================
