----------------------------- MODULE RecordsProofs -----------------------------
(***************************************************************************)
(* Proofs about Workbench: what it shows of what was recorded, and how it  *)
(* finds its way in the code.  The figures of the dashboard                *)
(* (InsightsDashboard) rest on an invariant about the reads of its         *)
(* fetches, the workflows of whisper (WorkflowLens) on one about the order *)
(* of what is read, stamped and written, code navigation (CodeNav) on one  *)
(* about the versions its mirror has and is labelled with, for any bounds  *)
(* and whatever reads fail.  The last section puts them together for the   *)
(* program, whose every step moves one part.                               *)
(***************************************************************************)
EXTENDS Workbench, SequenceTheorems, FiniteSetTheorems, TLAPS

-----------------------------------------------------------------------------
(* The dashboard.                                                          *)

ReadKinds == {"anchors", "probe", "tile", "activity", "total"}
Outcomes == {"none", "asked", "ok", "failed", "lost", "off"}
DashReads == [is : Outcomes, days : SUBSET Days, first : 0..3]
PickedRanges == Ranges \cup {"7d"}
DashCycles == [range : PickedRanges, step : 1..2, mine : BOOLEAN, quiet : BOOLEAN,
               domain : SUBSET Days, reads : [ReadKinds -> DashReads]]

StoresOK == stores \in [tokens : SUBSET Days, app : SUBSET Days, usageOn : BOOLEAN,
                        insightsOn : BOOLEAN, wiping : BOOLEAN]

\* A read that was not answered has no days; one of insights is on its way, answered or lost,
\* one of usage may be off.
ReadsFit(c) ==
    /\ \A k \in ReadKinds : c.reads[k].is # "ok" => c.reads[k].days = {} /\ c.reads[k].first = 0
    /\ c.reads["anchors"].is \in {"asked", "ok", "failed", "lost"}
    /\ c.reads["activity"].is \in {"none", "asked", "ok", "failed", "lost"}
    /\ \A k \in {"probe", "tile", "total"} : c.reads[k].is # "lost"
    /\ c.reads["probe"].is # "none"
    /\ c.reads["tile"].is = "none" <=> c.range # "today"

\* In the second half of a fetch the domain is known, and all that is needed is asked for.
HalvesFit(c) ==
    /\ c.step = 1 => c.domain = Recent /\ c.reads["activity"].is = "none" /\ c.reads["total"].is = "none"
    /\ c.step = 2 =>
         /\ c.reads["anchors"].is = "ok" /\ c.reads["probe"].is \in {"ok", "off"}
         /\ c.reads["activity"].is # "none"
         /\ c.domain = DomainOf(c.range, {c.reads["anchors"].first, c.reads["probe"].first})
         /\ c.reads["total"].is = "none" => c.range # "all" \/ c.reads["probe"].is = "off"
    /\ c.reads["total"].is # "none" => c.range = "all"

\* What was read lies within what was asked for.
DaysFit(c) ==
    /\ c.reads["probe"].days \subseteq Recent /\ c.reads["tile"].days \subseteq {3}
    /\ c.reads["total"].days \subseteq c.domain

\* What was read is still there as long as the stores stand still.
ReadsTrue(c) ==
    /\ \A k \in {"anchors", "activity"} : c.reads[k].is = "asked" => stores.insightsOn
    /\ \A k \in {"probe", "tile", "total"} :
         /\ c.reads[k].is \in {"asked", "ok"} => stores.usageOn
         /\ c.reads[k].is = "off" => ~stores.usageOn
    /\ c.reads["anchors"].is = "ok" => c.reads["anchors"].first = First(Truth.app)
    /\ c.reads["activity"].is = "ok" => c.reads["activity"].days = Truth.app \cap c.domain
    /\ c.reads["probe"].is = "ok" => /\ c.reads["probe"].days = stores.tokens \cap Recent
                                     /\ c.reads["probe"].first = First(stores.tokens)
    /\ c.reads["tile"].is = "ok" => c.reads["tile"].days = stores.tokens \cap {3}
    /\ c.reads["total"].is = "ok" => c.reads["total"].days = stores.tokens \cap c.domain

CycleOK(c) == /\ c \in DashCycles /\ ReadsFit(c) /\ HalvesFit(c) /\ DaysFit(c)
              /\ c.quiet => ReadsTrue(c)

\* One fetch at most counts, that for the range that is picked.
OneCounts ==
    /\ \A c \in cycles : c.mine => screen.on /\ c.range = screen.range
    /\ \A c, d \in cycles : c.mine /\ d.mine => c = d

ScreenOK == screen \in [on : BOOLEAN, range : PickedRanges]

ReadsInv == /\ StoresOK /\ ScreenOK /\ (\A c \in cycles : CycleOK(c)) /\ OneCounts
            /\ FetchSettles /\ FiguresAreTrue /\ EmptyIsEmpty

\* An announcement on its way, or made, is of a capture that was never acknowledged.
NoticeInv ==
    /\ notice \in [worker : BOOLEAN, seen : BOOLEAN, sent : BOOLEAN, acked : BOOLEAN,
                   stored : BOOLEAN, saving : BOOLEAN]
    /\ banner \in [on : BOOLEAN, show : BOOLEAN, answer : {"none", "asked", "yes", "no"}]
    /\ pushes \in Nat
    /\ pushes > 0 \/ banner.answer = "yes" \/ banner.show => Pending
    /\ notice.saving => notice.acked
    /\ notice.sent => notice.seen \/ notice.acked \/ notice.stored
    /\ ~banner.on => banner.answer = "none" /\ ~banner.show
    /\ banner.on /\ Pending /\ ~banner.show => pushes > 0 \/ banner.answer \in {"asked", "yes"}

DashInv == ReadsInv /\ NoticeInv

LEMMA FirstIs ==
  ASSUME NEW D \in SUBSET Days
  PROVE  /\ First(D) \in 0..3 /\ (First(D) = 0 <=> D = {})
         /\ \A d \in D : First(D) <= d
<1>1. CASE D = {}
  BY <1>1 DEF First
<1>2. CASE D # {}
  <2>1. \E x \in D : \A y \in D : x <= y
    <3>1. \A d \in D : d = 1 \/ d = 2 \/ d = 3
      BY DEF Days
    <3>2. CASE 1 \in D
      BY <3>1, <3>2
    <3>3. CASE 1 \notin D /\ 2 \in D
      BY <3>1, <3>3
    <3>4. CASE 1 \notin D /\ 2 \notin D  BY <1>2, <3>1, <3>4
    <3> QED
      BY <3>2, <3>3, <3>4
  <2>3. First(D) = Min(D) /\ Min(D) \in 1..3  BY <1>2, <2>1 DEF First, Days, Min
  <2> QED  BY <1>2, <2>1, <2>3 DEF Min
<1> QED
  BY <1>1, <1>2

LEMMA DomainIs ==
  ASSUME NEW range, NEW a \in 0..3, NEW b \in 0..3
  PROVE  /\ DomainOf(range, {a, b}) \in SUBSET Days /\ Recent \subseteq DomainOf(range, {a, b})
         /\ range # "all" => DomainOf(range, {a, b}) = Recent
         /\ range = "all" => \A d \in Days : (a # 0 /\ a <= d) \/ (b # 0 /\ b <= d) =>
                               d \in DomainOf(range, {a, b})
<1> DEFINE F == {a, b} \ {0}
<1>1. CASE range = "all" /\ F # {}
  <2>3. DomainOf(range, {a, b}) = Recent \cup Min(F)..3
    BY <1>1 DEF DomainOf
  <2> HIDE DEF F
  <2>5. Recent \cup Min(F)..3 \in SUBSET Days  BY <1>1 DEF Days, Recent, F, Min
  <2>6. \A d \in Days : (a # 0 /\ a <= d) \/ (b # 0 /\ b <= d) => d \in Min(F)..3  BY <1>1 DEF Days, F, Min
  <2> QED
    BY <1>1, <2>3, <2>5, <2>6
<1>2. CASE ~(range = "all" /\ F # {})  BY <1>2 DEF Recent, Days, DomainOf
<1> QED
  BY <1>1, <1>2

\* What is right of a fetch depends on the stores alone.
LEMMA SameStores ==
  ASSUME stores' = stores, NEW c
  PROVE  CycleOK(c)' <=> CycleOK(c)
  BY DEF CycleOK, ReadsTrue, Truth

LEMMA StoresAre ==
  ASSUME StoresOK
  PROVE  /\ stores.tokens \in SUBSET Days /\ stores.app \in SUBSET Days
         /\ stores.usageOn \in BOOLEAN /\ stores.insightsOn \in BOOLEAN /\ stores.wiping \in BOOLEAN
         /\ Truth.tokens \in SUBSET Days /\ Truth.app \in SUBSET Days
  BY DEF StoresOK, Truth

\* A fetch that goes on stays what it is on the screen.
LEMMA FetchReplaced ==
  ASSUME ReadsInv, NEW c \in cycles, NEW d, CycleOK(d), d.mine = c.mine, d.range = c.range,
         cycles' = (cycles \ {c}) \cup {d}, UNCHANGED <<stores, screen, board>>
  PROVE  ReadsInv'
<1>2. ASSUME NEW e \in cycles'
      PROVE  CycleOK(e)'
  BY <1>2, SameStores DEF ReadsInv
<1>4. FetchSettles'  BY DEF ReadsInv, FetchSettles
<1> QED  BY <1>2, <1>4 DEF ReadsInv, StoresOK, ScreenOK, FiguresAreTrue, EmptyIsEmpty, OneCounts

\* A fetch that is over takes the screen if it counts.
LEMMA FetchLands ==
  ASSUME ReadsInv, NEW c \in cycles, NEW s, Land(c, s), UNCHANGED <<stores, screen>>,
         s.range = c.range, s.status \in {"live", "empty", "error"},
         s.status = "error" => s.source \in s.failed,
         s.status = "live" =>
           /\ s.tokens = s.table
           /\ s.quiet =>
                /\ s.tokens = s.truth.tokens \cap TileWindow(s.range, s.domain)
                /\ s.chart = s.truth.tokens \cap s.domain
                /\ s.focused = s.truth.app \cap TileWindow(s.range, s.domain)
                /\ s.range = "all" => s.tokens = s.truth.tokens,
         s.status = "empty" /\ s.quiet => s.truth = Void
  PROVE  ReadsInv'
<1>1. StoresOK' /\ ScreenOK'
  BY DEF ReadsInv, StoresOK, ScreenOK
<1>2. cycles' = cycles \ {c} /\ board' = IF c.mine THEN s ELSE board
  BY DEF Land
<1>3. ASSUME NEW e \in cycles'
      PROVE  CycleOK(e)'
  BY <1>2, <1>3, SameStores DEF ReadsInv
<1>4. OneCounts'
  BY <1>2 DEF ReadsInv, OneCounts
<1>5. CASE c.mine
  <2>2. FetchSettles'  BY <1>2, <1>5 DEF FetchSettles, ReadsInv, OneCounts
  <2>3. FiguresAreTrue' /\ EmptyIsEmpty'
    BY <1>2, <1>5 DEF FiguresAreTrue, EmptyIsEmpty, TileWindow, ReadsInv, OneCounts
  <2> QED
    BY <1>1, <1>3, <1>4, <2>2, <2>3 DEF ReadsInv
<1>6. CASE ~c.mine
  <2>3. FetchSettles'  BY <1>2, <1>6 DEF ReadsInv, FetchSettles
  <2>4. FiguresAreTrue' /\ EmptyIsEmpty'  BY <1>2, <1>6 DEF ReadsInv, FiguresAreTrue, EmptyIsEmpty
  <2> QED
    BY <1>1, <1>3, <1>4, <2>3, <2>4 DEF ReadsInv
<1> QED
  BY <1>5, <1>6

LEMMA ReadSet ==
  ASSUME NEW c \in DashCycles, NEW k \in ReadKinds, NEW r \in DashReads
  PROVE  LET d == [c EXCEPT !.reads[k] = r]
         IN  /\ d \in DashCycles /\ d.reads = [c.reads EXCEPT ![k] = r]
             /\ d.range = c.range /\ d.step = c.step /\ d.mine = c.mine /\ d.quiet = c.quiet
             /\ d.domain = c.domain /\ d.reads[k] = r
             /\ \A j \in ReadKinds \ {k} : d.reads[j] = c.reads[j]
<1> DEFINE d == [c EXCEPT !.reads[k] = r]
<1>4. [c.reads EXCEPT ![k] = r][k] = r /\ \A j \in ReadKinds \ {k} : [c.reads EXCEPT ![k] = r][j] = c.reads[j]
  BY DEF DashCycles
<1>5. ASSUME NEW q \in [ReadKinds -> DashReads]
      PROVE  LET e == [c EXCEPT !.reads = q]
             IN  /\ e \in DashCycles /\ e.reads = q /\ e.range = c.range /\ e.step = c.step
                 /\ e.mine = c.mine /\ e.quiet = c.quiet /\ e.domain = c.domain
  BY DEF DashCycles
<1> HIDE DEF d
<1> QED  BY <1>4, <1>5 DEF d, DashCycles

LEMMA AnswerIs ==
  ASSUME StoresOK, NEW c \in DashCycles, NEW k \in ReadKinds
  PROVE  ReadAnswer(c, k) \in DashReads /\ ReadAnswer(c, k).is = "ok"
<1>2. ASSUME NEW D \in SUBSET Days, NEW all \in SUBSET Days
      PROVE  Data(D, all) \in DashReads /\ Data(D, all).is = "ok"
  BY FirstIs DEF Data, DashReads, Outcomes
<1> QED  BY StoresAre, <1>2 DEF ReadAnswer, ReadKinds

\* A read is answered, or gives up.
LEMMA ReadSettles ==
  ASSUME StoresOK, NEW c, CycleOK(c), NEW k \in ReadKinds, NEW r \in DashReads,
         \/ r = ReadAnswer(c, k) /\ c.reads[k] = Asked
         \/ r = Failure /\ (c.reads[k] = Asked \/ c.reads[k].is = "lost")
  PROVE  LET d == [c EXCEPT !.reads[k] = r]
         IN  CycleOK(d) /\ d.mine = c.mine /\ d.range = c.range
<1> DEFINE d == [c EXCEPT !.reads[k] = r]
<1>0. c \in DashCycles /\ ReadsFit(c) /\ HalvesFit(c) /\ DaysFit(c) /\ (c.quiet => ReadsTrue(c))
  BY DEF CycleOK
<1>1. /\ d \in DashCycles /\ d.range = c.range /\ d.step = c.step /\ d.mine = c.mine /\ d.quiet = c.quiet
      /\ d.domain = c.domain /\ d.reads[k] = r
      /\ \A j \in ReadKinds \ {k} : d.reads[j] = c.reads[j]
  BY <1>0, ReadSet
<1>3. r.is \in {"ok", "failed"} /\ (r.is # "ok" => r.days = {} /\ r.first = 0)
  BY <1>0, AnswerIs DEF Failure, NotAsked
<1> HIDE DEF d
<1>6. c.step \in 1..2
  BY <1>0 DEF DashCycles
<1>7. ReadsFit(d)  BY <1>0, <1>1, <1>3 DEF ReadsFit, ReadKinds, Asked, NotAsked
<1>8. HalvesFit(d)  BY <1>0, <1>1, <1>3, <1>6 DEF HalvesFit, ReadKinds, Asked, NotAsked
<1>9. DaysFit(d)  BY <1>0, <1>1, <1>3 DEF DaysFit, ReadKinds, ReadAnswer, Data, Failure, NotAsked, Asked
<1>10. ASSUME d.quiet PROVE ReadsTrue(d)
  <2>1. ReadsTrue(c)
    BY <1>0, <1>1, <1>10
  <2>2. r.is = "ok" => /\ k \in {"probe", "tile", "total"} => stores.usageOn
                       /\ k \in {"anchors", "activity"} => stores.insightsOn
    BY <2>1 DEF ReadsTrue, ReadKinds, Failure, NotAsked, Asked
  <2>6. /\ d.reads["anchors"].is = "ok" => d.reads["anchors"].first = First(Truth.app)
        /\ d.reads["activity"].is = "ok" => d.reads["activity"].days = Truth.app \cap d.domain
    BY <1>1, <1>3, <2>1, <2>2 DEF ReadsTrue, ReadKinds, Truth, ReadAnswer, Data, Failure, NotAsked, Asked
  <2>7. /\ d.reads["probe"].is = "ok" => /\ d.reads["probe"].days = stores.tokens \cap Recent
                                         /\ d.reads["probe"].first = First(stores.tokens)
        /\ d.reads["tile"].is = "ok" => d.reads["tile"].days = stores.tokens \cap {3}
        /\ d.reads["total"].is = "ok" => d.reads["total"].days = stores.tokens \cap d.domain
    BY <1>1, <1>3, <2>1 DEF ReadsTrue, ReadKinds, ReadAnswer, Data, Failure, NotAsked, Asked
  <2> QED  BY <1>1, <1>3, <2>1, <2>2, <2>6, <2>7 DEF ReadsTrue, ReadKinds
<1> QED
  BY <1>1, <1>7, <1>8, <1>9, <1>10 DEF CycleOK, d

LEMMA ReadsMove ==
  ASSUME ReadsInv, NEW c \in cycles, NEW k \in DOMAIN c.reads, Answer(c, k) \/ TimesOut(c, k)
  PROVE  ReadsInv'
<1>2. \E r \in DashReads :
        /\ cycles' = SetRead(c, k, r)
        /\ \/ r = ReadAnswer(c, k) /\ c.reads[k] = Asked
           \/ r = Failure /\ (c.reads[k] = Asked \/ c.reads[k].is = "lost")
  <2>1. CASE Answer(c, k)  BY <2>1, AnswerIs DEF Answer, ReadsInv, CycleOK, DashCycles
  <2>2. CASE TimesOut(c, k)  BY <2>2 DEF TimesOut, Failure, NotAsked, DashReads, Outcomes
  <2> QED
    BY <2>1, <2>2
<1>3. PICK r \in DashReads :
        /\ cycles' = SetRead(c, k, r)
        /\ \/ r = ReadAnswer(c, k) /\ c.reads[k] = Asked
           \/ r = Failure /\ (c.reads[k] = Asked \/ c.reads[k].is = "lost")
  BY <1>2
<1> DEFINE d == [c EXCEPT !.reads[k] = r]
<1>4. CycleOK(d) /\ d.mine = c.mine /\ d.range = c.range  BY <1>3, ReadSettles DEF ReadsInv, CycleOK, DashCycles
<1>5. cycles' = (cycles \ {c}) \cup {d} /\ UNCHANGED <<stores, screen, board>>
  BY <1>3 DEF SetRead, Answer, TimesOut
<1> HIDE DEF d
<1> QED
  BY <1>4, <1>5, FetchReplaced

LEMMA AsksAre ==
  ASSUME StoresOK
  PROVE  /\ AskUsage \in DashReads /\ AskUsage.days = {} /\ AskUsage.first = 0
         /\ AskUsage.is = IF stores.usageOn THEN "asked" ELSE "off"
         /\ AskInsights \in DashReads /\ AskInsights.days = {} /\ AskInsights.first = 0
         /\ AskInsights.is \in {"asked", "ok", "failed"}
         /\ AskInsights.is = "asked" => stores.insightsOn
         /\ AskInsights.is = "ok" => ~stores.insightsOn
<1>3. AskUsage = IF stores.usageOn THEN Asked ELSE Off
  BY DEF AskUsage
<1>4. \/ AskInsights = Failure
      \/ AskInsights = Data({}, {}) /\ ~stores.insightsOn
      \/ AskInsights = Asked /\ stores.insightsOn
  BY StoresAre DEF AskInsights
<1> QED  BY <1>3, <1>4 DEF Asked, Off, Failure, NotAsked, DashReads, Outcomes, Data, First

NewFetch(range) ==
    [range |-> range, step |-> 1, mine |-> TRUE, quiet |-> TRUE, domain |-> Recent,
     reads |-> [NoReads EXCEPT !.anchors = AskInsights, !.probe = AskUsage,
                               !.tile = IF range = "today" THEN AskUsage ELSE NotAsked]]

LEMMA NewFetchIs ==
  ASSUME StoresOK, NEW range \in PickedRanges
  PROVE  CycleOK(NewFetch(range)) /\ NewFetch(range).mine = TRUE /\ NewFetch(range).range = range
<1> DEFINE n == NewFetch(range)
           q == [NoReads EXCEPT !.anchors = AskInsights, !.probe = AskUsage,
                               !.tile = IF range = "today" THEN AskUsage ELSE NotAsked]
<1>1. NotAsked \in DashReads /\ NotAsked.is = "none" /\ NotAsked.days = {} /\ NotAsked.first = 0
  BY DEF NotAsked, DashReads, Outcomes
<1>2. /\ DOMAIN q = ReadKinds /\ q["anchors"] = AskInsights /\ q["probe"] = AskUsage
      /\ q["tile"] = (IF range = "today" THEN AskUsage ELSE NotAsked)
      /\ q["activity"] = NotAsked /\ q["total"] = NotAsked
  BY DEF NoReads, ReadKinds
<1>4. q \in [ReadKinds -> DashReads]
  <2>1. q = [k \in ReadKinds |-> q[k]]
    BY DEF NoReads, ReadKinds
  <2> HIDE DEF q
  <2> QED  BY <1>1, <1>2, AsksAre, <2>1 DEF ReadKinds
<1>5. n.reads = q /\ n.range = range /\ n.step = 1 /\ n.mine = TRUE /\ n.quiet = TRUE /\ n.domain = Recent
  BY DEF NewFetch
<1>6. n \in DashCycles
  BY <1>4 DEF NewFetch, DashCycles, Recent, Days
<1> HIDE DEF q, n
<1>7. ReadsFit(n)
  BY <1>1, <1>2, <1>5, AsksAre DEF ReadsFit, ReadKinds
<1>8. HalvesFit(n) /\ DaysFit(n)
  BY <1>1, <1>2, <1>5, AsksAre DEF HalvesFit, DaysFit
<1>9. ReadsTrue(n)
  <2>1. AskInsights.is = "ok" => AskInsights.first = First(Truth.app)
    BY AsksAre DEF Truth, First
  <2> QED
    BY <1>1, <1>2, <1>5, <2>1, AsksAre, StoresAre DEF ReadsTrue
<1> QED
  BY <1>5, <1>6, <1>7, <1>8, <1>9 DEF CycleOK, n

LEMMA Dropped ==
  ASSUME NEW c, CycleOK(c)
  PROVE  LET d == [c EXCEPT !.mine = FALSE] IN CycleOK(d) /\ d.mine = FALSE
<1> DEFINE d == [c EXCEPT !.mine = FALSE]
<1>2. /\ d \in DashCycles /\ d.mine = FALSE /\ d.reads = c.reads /\ d.range = c.range /\ d.step = c.step
      /\ d.quiet = c.quiet /\ d.domain = c.domain  BY DEF DashCycles, CycleOK
<1> HIDE DEF d
<1> QED  BY <1>2 DEF CycleOK, d, ReadsFit, HalvesFit, DaysFit, ReadsTrue

LEMMA FetchBegins ==
  ASSUME ReadsInv, NEW range \in PickedRanges, FetchAll(range), stores' = stores,
         screen' = [on |-> TRUE, range |-> range],
         board' = board \/ board' = FreshScreen
  PROVE  ReadsInv'
<1>0. StoresOK /\ StoresOK' /\ ScreenOK'
  BY DEF ReadsInv, StoresOK, ScreenOK
<1>3. \A d \in Superseded : CycleOK(d) /\ d.mine = FALSE
  BY Dropped DEF Superseded, ReadsInv
<1>4. ASSUME NEW e \in cycles'
      PROVE  CycleOK(e)'  BY <1>0, NewFetchIs, <1>3, <1>4, SameStores DEF FetchAll, NewFetch
<1>5. \A e \in cycles' : e.mine => e = NewFetch(range)  BY <1>3 DEF FetchAll, NewFetch
<1>6. OneCounts'  BY <1>0, NewFetchIs, <1>5 DEF OneCounts
<1>7. FetchSettles'
  <2>1. NewFetch(range) \in cycles' /\ NewFetch(range).mine  BY <1>0, NewFetchIs DEF FetchAll, NewFetch
  <2> QED
    BY <2>1 DEF FetchSettles
<1>8. FiguresAreTrue' /\ EmptyIsEmpty'
  <2>1. CASE board' = board
    BY <2>1 DEF ReadsInv, FiguresAreTrue, EmptyIsEmpty
  <2>2. CASE board' = FreshScreen  BY <2>2 DEF FiguresAreTrue, EmptyIsEmpty, FreshScreen
  <2> QED
    BY <2>1, <2>2
<1> QED
  BY <1>0, <1>4, <1>6, <1>7, <1>8 DEF ReadsInv

LEMMA ScreenMoves ==
  ASSUME ReadsInv, OpenScreen \/ CloseScreen \/ Refetch \/ \E r \in Ranges : PickRange(r)
  PROVE  ReadsInv'
<1>0. screen = [on |-> screen.on, range |-> screen.range] /\ screen.range \in PickedRanges /\ screen.on \in BOOLEAN
  BY DEF ReadsInv, ScreenOK
<1>1. CASE OpenScreen
  BY <1>1, FetchBegins DEF OpenScreen, PickedRanges
<1>2. CASE Refetch
  BY <1>0, <1>2, FetchBegins DEF Refetch
<1>3. ASSUME NEW r \in Ranges, PickRange(r)
      PROVE  ReadsInv'  BY <1>3, <1>0, FetchBegins DEF PickRange, PickedRanges
<1>4. CASE CloseScreen
  <2>1. cycles' = Superseded /\ screen'.on = FALSE /\ stores' = stores /\ board' = FreshScreen
    BY <1>0, <1>4 DEF CloseScreen
  <2>2. StoresOK' /\ ScreenOK'
    BY <1>0, <1>4 DEF CloseScreen, ReadsInv, StoresOK, ScreenOK
  <2>4. ASSUME NEW e \in cycles'
        PROVE  CycleOK(e)'  BY <2>1, Dropped, <2>4, SameStores DEF Superseded, ReadsInv
  <2>5. OneCounts'  BY <2>1, Dropped DEF OneCounts, Superseded, ReadsInv
  <2>6. FetchSettles'
    BY <2>1 DEF FetchSettles
  <2>7. FiguresAreTrue' /\ EmptyIsEmpty'
    BY <2>1 DEF FiguresAreTrue, EmptyIsEmpty, FreshScreen
  <2> QED
    BY <2>2, <2>4, <2>5, <2>6, <2>7 DEF ReadsInv
<1> QED
  BY <1>1, <1>2, <1>3, <1>4

LEMMA SettledIs ==
  ASSUME NEW c, CycleOK(c), ReadsSettled(c)
  PROVE  /\ \A k \in ReadKinds : c.reads[k].is \notin {"asked", "lost"}
         /\ FailedStores(c) = {} => \A k \in ReadKinds : c.reads[k].is # "failed"
         /\ FailedStores(c) # {} => Blamed(c) \in FailedStores(c)
<1>3. FailedStores(c) = {IF k \in {"anchors", "activity"} THEN "insights" ELSE "usage" : k \in {j \in ReadKinds : c.reads[j].is = "failed"}}
  BY DEF FailedStores, Is, CycleOK, DashCycles
<1>5. FailedStores(c) # {} => Blamed(c) \in FailedStores(c)
  <2>1. CASE c.reads["anchors"].is = "failed"
    BY <1>3, <2>1 DEF Blamed, Is, ReadKinds
  <2>2. CASE c.reads["activity"].is = "failed"
    BY <1>3, <2>2 DEF Blamed, Is, ReadKinds
  <2>3. CASE c.reads["anchors"].is # "failed" /\ c.reads["activity"].is # "failed"
    <3> SUFFICES ASSUME FailedStores(c) # {} PROVE "usage" \in FailedStores(c)  BY <2>3 DEF Blamed, Is
    <3>2. PICK k \in ReadKinds : c.reads[k].is = "failed"
      BY <1>3
    <3> QED  BY <1>3, <3>2, <2>3
  <2> QED
    BY <2>1, <2>2, <2>3
<1> QED  BY <1>3, <1>5 DEF ReadsSettled, Is, CycleOK, DashCycles

LEMMA FailKeeps ==
  ASSUME ReadsInv, NEW c \in cycles, FetchFails(c)
  PROVE  ReadsInv'
<1> DEFINE s == [FreshScreen EXCEPT !.status = "error", !.source = Blamed(c), !.range = c.range,
                                    !.failed = FailedStores(c)]
<1>1. CycleOK(c) /\ ReadsSettled(c) /\ FailedStores(c) # {} /\ Land(c, s) /\ UNCHANGED <<stores, screen>>
  BY DEF ReadsInv, FetchFails
<1>3. s.status = "error" /\ s.range = c.range /\ s.source = Blamed(c) /\ s.failed = FailedStores(c)
  BY DEF FreshScreen
<1> HIDE DEF s
<1> QED  BY <1>1, SettledIs, <1>3, FetchLands

SecondHalf(c, x, y) == [c EXCEPT !.step = 2, !.domain = x, !.reads = y]

LEMMA HalvesMeet ==
  ASSUME NEW c \in DashCycles, NEW x \in SUBSET Days, NEW y \in [ReadKinds -> DashReads]
  PROVE  LET e == SecondHalf(c, x, y)
         IN  /\ e \in DashCycles /\ e.reads = y /\ e.step = 2 /\ e.domain = x /\ e.range = c.range
             /\ e.mine = c.mine /\ e.quiet = c.quiet
<1>0. 2 \in 1..2
  OBVIOUS
<1> QED  BY <1>0 DEF SecondHalf, DashCycles

LEMMA GoesOnKeeps ==
  ASSUME ReadsInv, NEW c \in cycles, FetchGoesOn(c)
  PROVE  ReadsInv'
<1> DEFINE a == c.reads["anchors"].first
           b == c.reads["probe"].first
           dom == DomainOf(c.range, {a, b})
           more == c.range = "all" /\ c.reads["probe"].is # "off"
           total == IF more THEN AskUsage ELSE NotAsked
           q == [c.reads EXCEPT !["activity"] = AskInsights, !["total"] = total]
           d == SecondHalf(c, dom, q)
<1>0. /\ StoresOK /\ CycleOK(c) /\ c \in DashCycles /\ ReadsFit(c) /\ HalvesFit(c) /\ DaysFit(c)
      /\ (c.quiet => ReadsTrue(c)) /\ c.step = 1 /\ ReadsSettled(c) /\ FailedStores(c) = {}
      /\ c.reads \in [ReadKinds -> DashReads]
  BY DEF ReadsInv, CycleOK, FetchGoesOn, DashCycles
<1>1. cycles' = (cycles \ {c}) \cup {d} /\ UNCHANGED <<stores, screen, board>>
  BY DEF FetchGoesOn, Is, SecondHalf
<1>3. c.reads["anchors"].is = "ok" /\ c.reads["probe"].is \in {"ok", "off"}
      /\ c.reads["activity"].is = "none" /\ c.reads["total"].is = "none"
  BY <1>0, SettledIs DEF ReadsFit, HalvesFit, ReadKinds, Outcomes, DashReads
<1>5. dom \in SUBSET Days  BY <1>0, DomainIs DEF ReadKinds, DashReads
<1>6. /\ NotAsked \in DashReads /\ NotAsked.is = "none" /\ NotAsked.days = {} /\ NotAsked.first = 0
      /\ total \in DashReads /\ total.days = {} /\ total.first = 0
      /\ total.is \in {"none", "asked", "off"} /\ (total.is # "none" <=> more)
      /\ total.is = "asked" => stores.usageOn
      /\ total.is = "off" => ~stores.usageOn
  <2> HIDE DEF more
  <2>2. CASE more  BY <1>0, <2>2, AsksAre DEF NotAsked, DashReads, Outcomes
  <2>3. CASE ~more  BY <2>3 DEF NotAsked, DashReads, Outcomes
  <2> QED
    BY <2>2, <2>3
<1>7. more <=> c.range = "all" /\ c.reads["probe"].is # "off"
  OBVIOUS
<1> HIDE DEF dom, total, more
<1>8. /\ q \in [ReadKinds -> DashReads] /\ q["activity"] = AskInsights /\ q["total"] = total
      /\ q["anchors"] = c.reads["anchors"] /\ q["probe"] = c.reads["probe"] /\ q["tile"] = c.reads["tile"]
  BY <1>0, <1>6, AsksAre DEF ReadKinds
<1> HIDE DEF q
<1>9. /\ d \in DashCycles /\ d.reads = q /\ d.step = 2 /\ d.domain = dom /\ d.range = c.range
      /\ d.mine = c.mine /\ d.quiet = c.quiet
  BY <1>0, <1>5, <1>8, HalvesMeet
<1> HIDE DEF d
<1>11. HalvesFit(d)
  <2>1. d.domain = DomainOf(d.range, {d.reads["anchors"].first, d.reads["probe"].first})
    BY <1>8, <1>9 DEF dom
  <2>2. d.reads["activity"].is # "none"
    BY <1>0, <1>8, <1>9, AsksAre
  <2> QED
    BY <1>3, <1>6, <1>7, <1>8, <1>9, <2>1, <2>2 DEF HalvesFit
<1>13. d.quiet => ReadsTrue(d)
  <2> SUFFICES ASSUME c.quiet PROVE ReadsTrue(d)
    BY <1>9
  <2>1. AskInsights.is = "ok" => AskInsights.days = Truth.app \cap dom
    BY <1>0, AsksAre DEF Truth
  <2> QED
    BY <1>0, <1>6, <1>8, <1>9, <2>1, AsksAre DEF ReadsTrue
<1>14. CycleOK(d)
  BY <1>9, <1>0, <1>3, <1>6, <1>8, AsksAre, <1>11, <1>13 DEF CycleOK, ReadsFit, ReadKinds, DaysFit
<1> QED
  BY <1>1, <1>9, <1>14, FetchReplaced

LEMMA EndKeeps ==
  ASSUME ReadsInv, NEW c \in cycles, FetchEnds(c)
  PROVE  ReadsInv'
<1> DEFINE disabled == Is(c, "probe", "off") \/ Is(c, "total", "off")
           tiles == TileRead(c)
           chart == IF c.range = "all" THEN tiles ELSE c.reads.probe
           window == TileWindow(c.range, c.domain)
           isEmpty == c.reads.anchors.first = 0 /\ (disabled \/ c.reads.probe.first = 0)
           truth == IF c.quiet THEN Truth ELSE Void
           s == [status |-> IF isEmpty THEN "empty" ELSE "live", source |-> "none",
                 range |-> c.range, disabled |-> disabled, domain |-> c.domain,
                 tokens |-> tiles.days \cap window, table |-> tiles.days,
                 chart |-> chart.days, focused |-> c.reads.activity.days \cap window,
                 truth |-> truth, quiet |-> c.quiet, failed |-> {}]
<1>0. /\ StoresOK /\ CycleOK(c) /\ c \in DashCycles /\ ReadsFit(c) /\ HalvesFit(c) /\ DaysFit(c)
      /\ (c.quiet => ReadsTrue(c)) /\ c.step = 2 /\ ReadsSettled(c) /\ FailedStores(c) = {}
      /\ c.reads \in [ReadKinds -> DashReads]
  BY DEF ReadsInv, CycleOK, FetchEnds, DashCycles
<1>1. Land(c, s) /\ UNCHANGED <<stores, screen>>
  BY DEF FetchEnds
<1>2. \A k \in ReadKinds : c.reads[k].is \in {"none", "ok", "off"}  BY <1>0, SettledIs DEF Outcomes, DashReads
<1>3. /\ c.reads["anchors"].is = "ok" /\ c.reads["probe"].is \in {"ok", "off"}
      /\ c.reads["activity"].is = "ok"
      /\ c.reads["total"].is = "none" => c.range # "all" \/ c.reads["probe"].is = "off"
      /\ c.domain = DomainOf(c.range, {c.reads["anchors"].first, c.reads["probe"].first})
      /\ c.reads["tile"].is = "none" <=> c.range # "today"
      /\ c.reads["total"].is # "none" => c.range = "all"
  BY <1>0, <1>2 DEF HalvesFit, ReadsFit, ReadKinds
<1>4. \A k \in ReadKinds : c.reads[k].is # "ok" => c.reads[k].days = {} /\ c.reads[k].first = 0
  BY <1>0 DEF ReadsFit
<1>5. /\ c.reads["anchors"].first \in 0..3 /\ c.reads["probe"].first \in 0..3
      /\ Recent \subseteq c.domain /\ (c.range # "all" => c.domain = Recent)
  <2> DEFINE x == c.reads["anchors"].first
             y == c.reads["probe"].first
  <2>2. c.domain = DomainOf(c.range, {x, y})
    BY <1>3
  <2>3. x \in 0..3 /\ y \in 0..3  BY <1>0 DEF ReadKinds, DashReads
  <2> HIDE DEF x, y
  <2>4. Recent \subseteq DomainOf(c.range, {x, y}) /\ (c.range # "all" => DomainOf(c.range, {x, y}) = Recent)
    BY <2>3, DomainIs
  <2> QED  BY <1>0, <2>2, <2>4 DEF ReadKinds, DashReads
<1>6. /\ c.range = "today" => tiles = c.reads["tile"] /\ window = {3}
      /\ c.range = "all" => window = c.domain /\ tiles = IF c.reads["total"].is # "none" THEN c.reads["total"] ELSE c.reads["probe"]
      /\ c.range \notin {"today", "all"} => tiles = c.reads["probe"] /\ window = Recent
  BY <1>5 DEF TileRead, TileWindow, Is
<1>7. chart = (IF c.range = "all" THEN tiles ELSE c.reads["probe"])
      /\ isEmpty = (c.reads["anchors"].first = 0 /\ (disabled \/ c.reads["probe"].first = 0))
      /\ disabled = (c.reads["probe"].is = "off" \/ c.reads["total"].is = "off")
  BY DEF Is
<1>8. /\ s.status = (IF isEmpty THEN "empty" ELSE "live") /\ s.range = c.range /\ s.domain = c.domain
      /\ s.tokens = tiles.days \cap window /\ s.table = tiles.days /\ s.chart = chart.days
      /\ s.focused = c.reads["activity"].days \cap window /\ s.truth = truth /\ s.quiet = c.quiet
  OBVIOUS
<1>9. c.quiet => truth = Truth
  OBVIOUS
<1>10. TileWindow(s.range, s.domain) = window
  BY <1>8
<1> HIDE DEF tiles, window, chart, isEmpty, disabled, truth, s
<1>11. tiles.days \subseteq window
  BY <1>0, <1>3, <1>4, <1>6 DEF DaysFit, ReadKinds
<1>12. ASSUME c.quiet
       PROVE  /\ tiles.days = Truth.tokens \cap window /\ chart.days = Truth.tokens \cap c.domain
              /\ c.reads["activity"].days \cap window = Truth.app \cap window
              /\ c.range = "all" => Truth.tokens \subseteq c.domain
              /\ isEmpty => Truth.tokens = {} /\ Truth.app = {}
  <2>0. ReadsTrue(c)
    BY <1>0, <1>12
  <2>1. /\ c.reads["probe"].days = Truth.tokens \cap Recent
        /\ c.reads["tile"].is # "none" => c.reads["tile"].days = Truth.tokens \cap {3}
        /\ c.reads["total"].is # "none" => c.reads["total"].days = Truth.tokens \cap c.domain
        /\ c.reads["probe"].first = First(Truth.tokens)
        /\ c.reads["probe"].is = "off" => Truth.tokens = {}
    <3>1. First({}) = 0
      BY DEF First
    <3>2. \A k \in {"probe", "tile", "total"} : /\ c.reads[k].is = "ok" => Truth.tokens = stores.tokens
                                                /\ c.reads[k].is = "off" => Truth.tokens = {}
      BY <2>0 DEF ReadsTrue, Truth
    <3> QED
      BY <1>2, <1>3, <1>4, <2>0, <3>1, <3>2 DEF ReadsTrue, ReadKinds
  <2>2. c.reads["activity"].days = Truth.app \cap c.domain /\ c.reads["anchors"].first = First(Truth.app)
    BY <1>3, <2>0 DEF ReadsTrue
  <2>4. tiles.days = Truth.tokens \cap window
    BY <1>3, <1>6, <2>1
  <2>5. chart.days = Truth.tokens \cap c.domain
    BY <1>3, <1>5, <1>6, <1>7, <2>1, <2>4
  <2>7. c.reads["activity"].days \cap window = Truth.app \cap window  BY <2>2, <1>5, <1>6 DEF Recent
  <2>8. c.range = "all" => Truth.tokens \subseteq c.domain
    <3> SUFFICES ASSUME c.range = "all", NEW t \in Truth.tokens PROVE t \in c.domain
      OBVIOUS
    <3> DEFINE x == c.reads["anchors"].first
               y == c.reads["probe"].first
    <3>2. c.domain = DomainOf(c.range, {x, y}) /\ x \in 0..3 /\ y \in 0..3 /\ y # 0 /\ y <= t /\ t \in Days
      BY <1>3, <1>5, <2>1, <1>0, StoresAre, FirstIs
    <3> HIDE DEF x, y
    <3>3. t \in DomainOf(c.range, {x, y})
      BY <3>2, DomainIs
    <3> QED
      BY <3>2, <3>3
  <2>9. isEmpty => Truth.tokens = {} /\ Truth.app = {}
    <3>1. First(Truth.tokens) = 0 => Truth.tokens = {}  BY <1>0, StoresAre, FirstIs
    <3>2. First(Truth.app) = 0 => Truth.app = {}  BY <1>0, StoresAre, FirstIs
    <3>3. disabled => Truth.tokens = {}
      BY <1>7, <2>0 DEF ReadsTrue, Truth
    <3> QED
      BY <1>7, <2>1, <2>2, <3>1, <3>2, <3>3
  <2> QED
    BY <2>4, <2>5, <2>7, <2>8, <2>9
<1>13. s.status = "live" =>
         /\ s.tokens = s.table
         /\ s.quiet =>
              /\ s.tokens = s.truth.tokens \cap TileWindow(s.range, s.domain)
              /\ s.chart = s.truth.tokens \cap s.domain
              /\ s.focused = s.truth.app \cap TileWindow(s.range, s.domain)
              /\ s.range = "all" => s.tokens = s.truth.tokens
  <2>2. s.quiet => /\ s.tokens = s.truth.tokens \cap TileWindow(s.range, s.domain)
                   /\ s.chart = s.truth.tokens \cap s.domain
                   /\ s.focused = s.truth.app \cap TileWindow(s.range, s.domain)
    BY <1>8, <1>9, <1>10, <1>12
  <2>3. s.quiet /\ s.range = "all" => s.tokens = s.truth.tokens
    BY <1>6, <1>8, <1>9, <1>12
  <2> QED  BY <1>8, <1>11, <2>2, <2>3
<1>14. s.status = "empty" /\ s.quiet => s.truth = Void  BY <1>8, <1>9, <1>12 DEF Truth, Void
<1>15. s.status \in {"live", "empty", "error"} /\ s.status # "error" /\ s.range = c.range
  BY <1>8
<1> QED
  BY <1>1, <1>13, <1>14, <1>15, FetchLands

\* What a read is after a store moved: off, lost or as it was.
DisplacedRead(c, k, off, lost) ==
    CASE off /\ c.reads[k] = Asked /\ k \in {"probe", "tile", "total"} -> Off
      [] lost /\ c.reads[k] = Asked /\ k \in {"anchors", "activity"} ->
           [NotAsked EXCEPT !.is = "lost"]
      [] OTHER -> c.reads[k]

LEMMA DisplacedReadIs ==
  ASSUME NEW c \in DashCycles, NEW k \in ReadKinds, NEW off \in BOOLEAN, NEW lost \in BOOLEAN
  PROVE  LET r == DisplacedRead(c, k, off, lost)
         IN  /\ r \in DashReads
             /\ \/ r = c.reads[k]
                \/ /\ r.is = "off" /\ c.reads[k].is = "asked" /\ r.days = {} /\ r.first = 0
                   /\ k \in {"probe", "tile", "total"}
                \/ /\ r.is = "lost" /\ c.reads[k].is = "asked" /\ r.days = {} /\ r.first = 0
                   /\ k \in {"anchors", "activity"}
<1>2. Off \in DashReads /\ Off.is = "off" /\ Off.days = {} /\ Off.first = 0
  BY DEF Off, NotAsked, DashReads, Outcomes
<1>3. LET l == [NotAsked EXCEPT !.is = "lost"] IN l \in DashReads /\ l.is = "lost" /\ l.days = {} /\ l.first = 0
  BY DEF NotAsked, DashReads, Outcomes
<1>5. CASE off /\ c.reads[k] = Asked /\ k \in {"probe", "tile", "total"}
  <2>1. DisplacedRead(c, k, off, lost) = Off
    BY <1>5 DEF DisplacedRead
  <2> QED  BY <1>2, <1>5, <2>1 DEF Asked, NotAsked
<1>6. CASE ~(off /\ c.reads[k] = Asked /\ k \in {"probe", "tile", "total"}) /\ lost /\ c.reads[k] = Asked /\ k \in {"anchors", "activity"}
  <2>1. DisplacedRead(c, k, off, lost) = [NotAsked EXCEPT !.is = "lost"]
    BY <1>6 DEF DisplacedRead
  <2> QED  BY <1>3, <1>6, <2>1 DEF Asked, NotAsked
<1>7. CASE ~(off /\ c.reads[k] = Asked /\ k \in {"probe", "tile", "total"}) /\ ~(lost /\ c.reads[k] = Asked /\ k \in {"anchors", "activity"})
  BY <1>7 DEF DashCycles, DisplacedRead
<1> QED
  BY <1>5, <1>6, <1>7

LEMMA DisplacedIs ==
  ASSUME NEW c, CycleOK(c), NEW off \in BOOLEAN, NEW lost \in BOOLEAN
  PROVE  LET d == Displaced(c, off, lost)
         IN  /\ d.mine = c.mine /\ d.range = c.range /\ d.quiet = FALSE
             /\ d \in DashCycles /\ ReadsFit(d) /\ HalvesFit(d) /\ DaysFit(d)
<1> DEFINE q == [k \in ReadKinds |-> DisplacedRead(c, k, off, lost)]
           d == Displaced(c, off, lost)
<1>0. c \in DashCycles /\ ReadsFit(c) /\ HalvesFit(c) /\ DaysFit(c) /\ DOMAIN c.reads = ReadKinds
  BY DEF CycleOK, DashCycles
<1>1. d = [c EXCEPT !.quiet = FALSE, !.reads = q]
  BY <1>0 DEF Displaced, DisplacedRead
<1>2. q \in [ReadKinds -> DashReads]
  BY <1>0, DisplacedReadIs
<1>3. \A k \in ReadKinds :
        \/ q[k] = c.reads[k]
        \/ /\ q[k].is = "off" /\ c.reads[k].is = "asked" /\ q[k].days = {} /\ q[k].first = 0
           /\ k \in {"probe", "tile", "total"}
        \/ /\ q[k].is = "lost" /\ c.reads[k].is = "asked" /\ q[k].days = {} /\ q[k].first = 0
           /\ k \in {"anchors", "activity"}
  BY <1>0, DisplacedReadIs
<1> HIDE DEF q, d
<1>4. /\ d.mine = c.mine /\ d.range = c.range /\ d.quiet = FALSE /\ d.reads = q /\ d.step = c.step
      /\ d.domain = c.domain  BY <1>1, <1>0 DEF DashCycles
<1>5. d \in DashCycles
  <2>3. d = [[c EXCEPT !.quiet = FALSE] EXCEPT !.reads = q]
    BY <1>1, Zenon
  <2> QED  BY <1>0, <1>2, <2>3 DEF DashCycles
<1>6. ReadsFit(d)
  BY <1>0, <1>3, <1>4 DEF ReadsFit, ReadKinds
<1>7. HalvesFit(d)
  BY <1>0, <1>3, <1>4 DEF HalvesFit, ReadKinds
<1>8. DaysFit(d)
  BY <1>0, <1>3, <1>4 DEF DaysFit, ReadKinds
<1> QED
  BY <1>4, <1>5, <1>6, <1>7, <1>8 DEF d

LEMMA StoresShift ==
  ASSUME ReadsInv, StoresOK', NEW off \in BOOLEAN, NEW lost \in BOOLEAN,
         cycles' = {Displaced(c, off, lost) : c \in cycles}, UNCHANGED <<screen, board>>
  PROVE  ReadsInv'
<1>3. \A c \in cycles : LET d == Displaced(c, off, lost)
                        IN  /\ d.mine = c.mine /\ d.range = c.range /\ d.quiet = FALSE
                            /\ d \in DashCycles /\ ReadsFit(d) /\ HalvesFit(d) /\ DaysFit(d)
  BY DisplacedIs DEF ReadsInv
<1>4. ASSUME NEW e \in cycles'
      PROVE  CycleOK(e)'
  <2>1. e \in DashCycles /\ ReadsFit(e) /\ HalvesFit(e) /\ DaysFit(e) /\ e.quiet = FALSE  BY <1>3, <1>4
  <2> QED
    BY <2>1 DEF CycleOK
<1>5. OneCounts'  BY <1>3 DEF ReadsInv, OneCounts
<1>6. (\A e \in cycles' : ~e.mine) => \A c \in cycles : ~c.mine  BY <1>3
<1> QED  BY <1>4, <1>5, <1>6 DEF ReadsInv, FetchSettles, ScreenOK, FiguresAreTrue, EmptyIsEmpty

LEMMA StoresMove ==
  ASSUME ReadsInv, LedgerGrows \/ CaptureGrows \/ UsageSwitched \/ InsightsSwitched \/ WipeBegins \/ WipeEnds
  PROVE  ReadsInv'
<1>0. /\ stores \in [tokens : SUBSET Days, app : SUBSET Days, usageOn : BOOLEAN,
                     insightsOn : BOOLEAN, wiping : BOOLEAN]
      /\ stores.usageOn \in BOOLEAN /\ stores.insightsOn \in BOOLEAN /\ 3 \in Days
  BY DEF ReadsInv, StoresOK, Days
<1>1. ASSUME NEW s, NEW off \in BOOLEAN, NEW lost \in BOOLEAN, StoresBecome(s, off, lost),
             s \in [tokens : SUBSET Days, app : SUBSET Days, usageOn : BOOLEAN,
                    insightsOn : BOOLEAN, wiping : BOOLEAN]
      PROVE  ReadsInv'
  BY <1>1, StoresShift DEF StoresBecome, StoresOK
<1>2. CASE LedgerGrows
  BY <1>0, <1>1, <1>2 DEF LedgerGrows
<1>3. CASE CaptureGrows
  BY <1>0, <1>1, <1>3 DEF CaptureGrows
<1>4. CASE UsageSwitched
  BY <1>0, <1>1, <1>4 DEF UsageSwitched
<1>5. CASE InsightsSwitched
  BY <1>0, <1>1, <1>5 DEF InsightsSwitched
<1>6. CASE WipeBegins
  BY <1>0, <1>1, <1>6 DEF WipeBegins
<1>7. CASE WipeEnds  BY <1>7, <1>0, StoresShift DEF WipeEnds, StoresOK
<1> QED
  BY <1>2, <1>3, <1>4, <1>5, <1>6, <1>7

-----------------------------------------------------------------------------
(* The notice.                                                             *)

LEMMA NoticeMoves ==
  ASSUME NoticeInv, Quick = FALSE,
         \/ WorkerOn \/ WorkerOff \/ Tick \/ PushArrives \/ BannerMounts \/ BannerUnmounts
         \/ PendingAnswered \/ AnswerArrives \/ Acknowledge \/ AppRestarts
         \/ \E kept \in BOOLEAN : NoticeStored(kept)
  PROVE  NoticeInv'
<1> DEFINE Notices == [worker : BOOLEAN, seen : BOOLEAN, sent : BOOLEAN, acked : BOOLEAN,
                       stored : BOOLEAN, saving : BOOLEAN]
           Banners == [on : BOOLEAN, show : BOOLEAN, answer : {"none", "asked", "yes", "no"}]
<1>0. notice \in Notices /\ banner \in Banners /\ pushes \in Nat
  BY DEF NoticeInv
<1>1. CASE WorkerOn  BY <1>1, <1>0 DEF WorkerOn, NoticeInv, Pending
<1>2. CASE WorkerOff  BY <1>2, <1>0 DEF WorkerOff, NoticeInv, Pending
<1>3. CASE Tick
  <2> DEFINE quietly == notice.sent \/ notice.acked \/ notice.stored
  <2>1. /\ notice' \in Notices /\ notice'.seen = TRUE /\ notice'.sent = (notice.sent \/ ~quietly)
        /\ notice'.saving = notice.saving /\ notice'.acked = notice.acked /\ notice'.stored = notice.stored
    BY <1>0, <1>3 DEF Tick
  <2>3. CASE quietly  BY <2>1, <1>3, <2>3 DEF NoticeInv, Tick, Pending
  <2>4. CASE ~quietly  BY <2>1, <1>3, <1>0, <2>4 DEF NoticeInv, Tick, Pending
  <2> QED
    BY <2>3, <2>4
<1>4. CASE PushArrives  BY <1>0, <1>4 DEF NoticeInv, PushArrives, Pending
<1>5. CASE BannerMounts  BY <1>5 DEF NoticeInv, BannerMounts, Pending
<1>6. CASE BannerUnmounts  BY <1>6 DEF NoticeInv, BannerUnmounts, Pending
<1>7. CASE PendingAnswered  BY <1>7, <1>0 DEF NoticeInv, PendingAnswered, Pending
<1>8. CASE AnswerArrives  BY <1>8, <1>0 DEF NoticeInv, AnswerArrives, Pending
<1>9. CASE Acknowledge
  <2>2. /\ banner' \in Banners /\ banner'.on = banner.on /\ banner'.answer = "none" /\ banner'.show = FALSE
    BY <1>0, <1>9 DEF Acknowledge
  <2>3. notice' \in Notices /\ notice'.acked = TRUE /\ ~Pending'
    BY <1>0, <1>9 DEF Acknowledge, Pending
  <2> QED  BY <1>9, <2>2, <2>3 DEF NoticeInv, Acknowledge
<1>10. CASE AppRestarts
  <2>1. /\ notice' \in Notices /\ notice'.sent = FALSE /\ notice'.saving = FALSE /\ notice'.seen = FALSE
        /\ banner' \in Banners /\ banner'.on = FALSE /\ banner'.show = FALSE /\ banner'.answer = "none"
        /\ pushes' = 0
    BY <1>0, <1>10 DEF AppRestarts
  <2> QED
    BY <2>1 DEF NoticeInv, Pending
<1>11. ASSUME NEW kept \in BOOLEAN, NoticeStored(kept)
       PROVE  NoticeInv'
  <2>3. notice.acked = TRUE /\ ~Pending /\ ~Pending'  BY <1>0, <1>11 DEF NoticeInv, Pending, NoticeStored
  <2> QED  BY <1>0, <1>11, <2>3 DEF NoticeInv, NoticeStored
<1> QED
  BY <1>1, <1>2, <1>3, <1>4, <1>5, <1>6, <1>7, <1>8, <1>9, <1>10, <1>11

-----------------------------------------------------------------------------
(* Together.                                                               *)

LEMMA DashStarts == DashInit => DashInv
<1> SUFFICES ASSUME DashInit PROVE DashInv
  OBVIOUS
<1>3. ReadsInv
  BY DEF ReadsInv, OneCounts, FetchSettles, FiguresAreTrue, EmptyIsEmpty, DashInit, StoresOK, Days, ScreenOK,
     PickedRanges, FreshScreen
<1> QED  BY <1>3 DEF DashInv, DashInit, NoticeInv, Pending

LEMMA DashStep ==
  ASSUME DashInv, Quick = FALSE, DashNext \/ UNCHANGED dashVars
  PROVE  DashInv'
<1>1. UNCHANGED readVars => (ReadsInv => ReadsInv')
  <2> SUFFICES ASSUME UNCHANGED readVars, ReadsInv PROVE ReadsInv'
    OBVIOUS
  <2> QED
    BY SameStores DEF readVars, ReadsInv, StoresOK, ScreenOK, OneCounts, FetchSettles, FiguresAreTrue,
       EmptyIsEmpty
<1>2. UNCHANGED noticeVars => (NoticeInv => NoticeInv')
  BY DEF noticeVars, NoticeInv, Pending
<1>3. CASE UNCHANGED dashVars
  BY <1>1, <1>2, <1>3 DEF dashVars, readVars, noticeVars, DashInv
<1>4. CASE \/ WorkerOn \/ WorkerOff \/ Tick \/ PushArrives \/ BannerMounts \/ BannerUnmounts
           \/ PendingAnswered \/ AnswerArrives \/ Acknowledge \/ AppRestarts
           \/ \E kept \in BOOLEAN : NoticeStored(kept)
  BY <1>1, <1>4, NoticeMoves DEF DashInv, WorkerOn, WorkerOff, Tick, PushArrives, BannerMounts, BannerUnmounts,
     PendingAnswered, AnswerArrives, Acknowledge, AppRestarts, NoticeStored
<1>5. CASE OpenScreen \/ CloseScreen \/ Refetch \/ \E r \in Ranges : PickRange(r)
  BY <1>2, <1>5, ScreenMoves DEF DashInv, OpenScreen, CloseScreen, Refetch, PickRange
<1>6. CASE LedgerGrows \/ CaptureGrows \/ UsageSwitched \/ InsightsSwitched \/ WipeBegins \/ WipeEnds
  BY <1>2, <1>6, StoresMove DEF DashInv, LedgerGrows, CaptureGrows, UsageSwitched, InsightsSwitched, WipeBegins,
     WipeEnds, StoresBecome
<1>7. ASSUME NEW c \in cycles, FetchFails(c) \/ FetchGoesOn(c) \/ FetchEnds(c)
      PROVE  DashInv'
  <2>2. UNCHANGED noticeVars
    BY <1>7 DEF FetchFails, FetchGoesOn, FetchEnds
  <2> QED  BY <1>2, <1>7, FailKeeps, GoesOnKeeps, EndKeeps, <2>2 DEF DashInv
<1>8. ASSUME NEW c \in cycles, NEW k \in DOMAIN c.reads, Answer(c, k) \/ TimesOut(c, k)
      PROVE  DashInv'  BY <1>2, <1>8, ReadsMove DEF DashInv, Answer, TimesOut
<1> QED
  BY <1>3, <1>4, <1>5, <1>6, <1>7, <1>8 DEF DashNext

LEMMA DashHolds == DashInv => DashboardIsHonest
  BY DEF DashInv, ReadsInv, NoticeInv, NoticeIsSeen, DashboardIsHonest

-----------------------------------------------------------------------------
(* The workflows on the screen.                                            *)

WhisperStates == [here : BOOLEAN, beats : BOOLEAN, flow : Floating, chain : Nat]
Snapshots == [at : {"asked", "half"}, fresh : BOOLEAN, beats : BOOLEAN, flow : Floating]
AskedFor == [state : {"quiet", "waiting", "ready"}, chain : Nat]

FeedTypes ==
    /\ collab \in [live : BOOLEAN, known : BOOLEAN, beats : BOOLEAN, flow : Floating \ {"none"},
                   chain : Nat \ {0}, escalated : BOOLEAN, changes : Nat, faults : Nat]
    /\ snaps \in Seq(Snapshots)
    /\ workflowLens \in [prev : WhisperStates, shown : WhisperStates, stale : BOOLEAN, fresh : BOOLEAN]
    /\ attn \in [here : BOOLEAN, reason : AskedFor, seen : BOOLEAN, retired : BOOLEAN]

\* What whisper's store says now.
StoreState ==
    IF ~(collab.live /\ collab.known) THEN NoState
    ELSE [here |-> TRUE, beats |-> collab.beats, flow |-> collab.flow,
          chain |-> IF collab.escalated THEN collab.chain ELSE 0]

\* What a snapshot that is still fresh has read is what is there.
SnapOK(s) ==
    s.fresh => /\ collab.live
               /\ s.at = "half" => collab.known /\ s.beats = collab.beats /\ s.flow = collab.flow

LensOK == workflowLens.fresh =>
            workflowLens.shown = StoreState /\ workflowLens.prev = workflowLens.shown /\ ~workflowLens.stale

\* A session that is not there has no reason, nor anything that its first state is due to.
HereOK ==
    ~attn.here => /\ attn.reason = NoReason /\ ~attn.seen
                  /\ collab.known => ~workflowLens.prev.here

FeedInv == /\ FeedTypes /\ (\A i \in DOMAIN snaps : SnapOK(snaps[i])) /\ LensOK /\ HereOK
           /\ AttentionFollows

-----------------------------------------------------------------------------
(* The dialog.                                                             *)

Commands == [tell : BOOLEAN, mine : BOOLEAN, at : {"asked", "runs"}]
WaitedFor(tells) == \E i \in DOMAIN orders : orders[i].mine /\ orders[i].tell = tells

CommandInv ==
    /\ orders \in Seq(Commands)
    /\ dialog \in [open : BOOLEAN, busy : BOOLEAN, hint : BOOLEAN,
                   status : {"running", "halted", "done"}, gone : {FALSE}]
    /\ dialog.busy = WaitedFor(FALSE) /\ dialog.hint = WaitedFor(TRUE)
    /\ ~dialog.open => \A i \in DOMAIN orders : ~orders[i].mine
    /\ \A i, j \in DOMAIN orders :
         orders[i].mine /\ orders[j].mine /\ orders[i].tell = orders[j].tell => i = j

-----------------------------------------------------------------------------
(* The archive.                                                            *)

RunStates == [status : {"running", "paused", "done"}, at : Nat, phase : {"open", "passed"},
              phaseAt : Nat]
Observations == [run : 1..2, status : {"running", "paused", "done"}, phase : {"open", "passed"},
             ts : Nat, end : Nat]

\* Runs only go forward.
StatusRank(s) == IF s = "running" THEN 0 ELSE IF s = "paused" THEN 1 ELSE 2
PhaseRank(p) == IF p = "open" THEN 0 ELSE 1
UpTo(o, ts, s, p) ==
    o.ts <= ts /\ StatusRank(o.status) <= StatusRank(s) /\ PhaseRank(o.phase) <= PhaseRank(p)

OnRecord(r) == \E i \in DOMAIN archive : /\ archive[i].run = r /\ archive[i].status = wruns[r].status
                                         /\ archive[i].phase = wruns[r].phase

ArchiveTypes ==
    /\ wruns \in [1..2 -> RunStates] /\ archive \in Seq(Observations)
    /\ clock \in Nat /\ watermark \in Nat /\ watermark <= clock /\ filed \in BOOLEAN
    /\ \A r \in 1..2 : wruns[r].at <= clock /\ wruns[r].phaseAt <= clock

\* The observations of a run are in its order, and none is ahead of it.
InOrder ==
    /\ \A i \in DOMAIN archive : LET w == wruns[archive[i].run] IN UpTo(archive[i], w.at, w.status, w.phase)
    /\ \A i, j \in DOMAIN archive : i < j /\ archive[i].run = archive[j].run =>
         UpTo(archive[i], archive[j].ts, archive[j].status, archive[j].phase)

\* What is not in the archive yet is above the watermark.
NothingMissed ==
    /\ \A r \in 1..2 : OnRecord(r) \/ ChangedSince(r)
    /\ filed => \A r \in 1..2 : OnRecord(r)

ArchiveInv == ArchiveTypes /\ InOrder /\ NothingMissed

-----------------------------------------------------------------------------
(* The log.                                                                *)

Dots == {"idle", "ready", "actionRequired"}
LogRecords == [n : Nat \ {0}, before : Dots \cup {NoDot}, after : Dots]
LogFiles == [day : Nat, roll : Nat, rec : LogRecords]

\* Files are ordered as their records.
FilesInOrder(F) ==
    \A f, g \in F : /\ f.rec.n = g.rec.n => f = g
                    /\ Older(f, g) <=> f.rec.n < g.rec.n

\* From the oldest that is kept on, all are.
NoGap(F, last) ==
    \A f \in F : f.rec.n <= last /\ \A n \in f.rec.n..last : \E g \in F : g.rec.n = n

\* Each record goes on where the one before left off.
Linked(F) == \A f, g \in F : g.rec.n = f.rec.n + 1 => g.rec.before \in {f.rec.after, NoDot}

LogTypes ==
    /\ log \in [files : SUBSET LogFiles, day : Nat, prev : Dots \cup {NoDot}, dot : Dots, written : Nat,
                disabled : BOOLEAN]
    /\ IsFiniteSet(log.files) /\ \A f \in log.files : f.day <= log.day

LastLinks == \A f \in log.files : f.rec.n = log.written => log.disabled \/ log.prev \in {f.rec.after, NoDot}

LogWithin ==
    /\ Cardinality(log.files) <= Budget + Cardinality({f.day : f \in log.files})
    /\ ~log.disabled /\ Base = {} /\ (\E f \in log.files : f.day = log.day) =>
         Cardinality(log.files) <= Budget

LogInv == LogTypes /\ FilesInOrder(log.files) /\ NoGap(log.files, log.written) /\ Linked(log.files)
          /\ LastLinks /\ LogWithin

LensInv == FeedInv /\ CommandInv /\ ArchiveInv /\ LogInv

\* What is left of a sequence when one element goes.
LEMMA RemoveOne ==
  ASSUME NEW S, NEW s \in Seq(S), NEW i \in DOMAIN s
  PROVE  /\ RemoveAt(s, i) \in Seq(S) /\ Len(RemoveAt(s, i)) = Len(s) - 1
         /\ \A j \in DOMAIN RemoveAt(s, i) : RemoveAt(s, i)[j] = IF j < i THEN s[j] ELSE s[j + 1]
         /\ \A j \in DOMAIN s : j < i => j \in DOMAIN RemoveAt(s, i) /\ RemoveAt(s, i)[j] = s[j]
         /\ \A j \in DOMAIN s : j > i => j - 1 \in DOMAIN RemoveAt(s, i) /\ RemoveAt(s, i)[j - 1] = s[j]
<1> DEFINE a == SubSeq(s, 1, i - 1)
           b == SubSeq(s, i + 1, Len(s))
<1>1. Len(s) \in Nat /\ i \in 1..Len(s) /\ DOMAIN s = 1..Len(s)
  OBVIOUS
<1>2. a \in Seq(S) /\ Len(a) = i - 1 /\ \A j \in 1..(i - 1) : a[j] = s[j]
  BY <1>1
<1>3. b \in Seq(S) /\ Len(b) = Len(s) - i /\ \A j \in 1..(Len(s) - i) : b[j] = s[i + j]
  BY <1>1
<1>4. RemoveAt(s, i) = a \o b
  BY DEF RemoveAt
<1> HIDE DEF a, b
<1> DEFINE c == a \o b
<1>5. c \in Seq(S) /\ Len(c) = Len(s) - 1 /\ DOMAIN c = 1..(Len(s) - 1)
  <2>1. c \in Seq(S) /\ Len(c) = Len(a) + Len(b)
    BY <1>2, <1>3, ConcatProperties
  <2> HIDE DEF c
  <2> QED
    BY <1>1, <1>2, <1>3, <2>1
<1>6. \A j \in 1..(Len(s) - 1) : c[j] = IF j < i THEN a[j] ELSE b[j - (i - 1)]
  BY <1>1, <1>2, <1>3
<1> HIDE DEF c
<1>7. \A j \in 1..(Len(s) - 1) : c[j] = IF j < i THEN s[j] ELSE s[j + 1]
  <2> TAKE j \in 1..(Len(s) - 1)
  <2>1. CASE j < i
    BY <1>1, <1>2, <1>6, <2>1
  <2>2. CASE j >= i
    <3>1. j - (i - 1) \in 1..(Len(s) - i) /\ i + (j - (i - 1)) = j + 1
      BY <1>1, <2>2
    <3>2. b[j - (i - 1)] = s[i + (j - (i - 1))]
      BY <1>3, <3>1
    <3> QED
      BY <1>1, <1>6, <2>2, <3>1, <3>2
  <2> QED
    BY <1>1, <2>1, <2>2
<1>8. \A j \in 1..Len(s) : j < i => j \in 1..(Len(s) - 1)
  BY <1>1
<1>9. \A j \in 1..Len(s) : j > i => j - 1 \in 1..(Len(s) - 1) /\ ~(j - 1 < i) /\ (j - 1) + 1 = j
  BY <1>1
<1> QED
  BY <1>1, <1>4, <1>5, <1>7, <1>8, <1>9 DEF c

-----------------------------------------------------------------------------
(* The lens.                                                               *)

LEMMA ReasonIs ==
  ASSUME NEW s \in WhisperStates
  PROVE  /\ AttentionFor(s) \in AskedFor
         /\ AttentionFor(s).state \in {"quiet", "waiting", "ready"}
         /\ AttentionFor(s).state = "quiet" => AttentionFor(s) = NoReason
         /\ ~s.here => AttentionFor(s) = NoReason
BY DEF AttentionFor, AskedFor, NoReason, WhisperStates

LEMMA NoStateIs == /\ NoState \in WhisperStates /\ ~NoState.here /\ NoReason \in AskedFor
                   /\ AttentionFor(NoState) = NoReason
BY DEF NoState, WhisperStates, NoReason, AskedFor, Floating, AttentionFor

\* A state that is pushed is shown and kept, unless the workflow is gone; its reason is taken.
LEMMA StatePushedIs ==
  ASSUME FeedTypes, AttentionFollows, NEW n \in WhisperStates, NEW fresh \in BOOLEAN,
         StatePushed(n, fresh), ~attn.here => attn.reason = NoReason /\ ~attn.seen
  PROVE  /\ workflowLens' \in [prev : WhisperStates, shown : WhisperStates, stale : BOOLEAN, fresh : BOOLEAN]
         /\ attn' \in [here : BOOLEAN, reason : AskedFor, seen : BOOLEAN, retired : BOOLEAN]
         /\ attn'.here = attn.here
         /\ ~attn'.here => attn'.reason = NoReason /\ ~attn'.seen
         /\ AttentionFollows'
         /\ workflowLens'.prev = n /\ workflowLens'.fresh = fresh
         /\ (n.here /\ n.beats /\ n.flow = "none") \/ (workflowLens'.shown = n /\ ~workflowLens'.stale)
<1> DEFINE p == workflowLens.prev
           stale == n.here /\ n.beats /\ n.flow = "none" /\ p.here /\ p.flow # "none"
           w == [prev |-> n, shown |-> IF stale THEN p ELSE n, stale |-> stale, fresh |-> fresh]
           was == AttentionFor(p)
           is == AttentionFor(n)
<1>1. p \in WhisperStates
  BY DEF FeedTypes
<1>2. workflowLens' = w /\ Dispatch(p, n)
  BY DEF StatePushed
<1>3. w \in [prev : WhisperStates, shown : WhisperStates, stale : BOOLEAN, fresh : BOOLEAN]
  <2>1. stale \in BOOLEAN
    OBVIOUS
  <2> HIDE DEF stale, p
  <2> QED
    BY <1>1, <2>1
<1>4. w.prev = n /\ w.fresh = fresh /\ (stale \/ (w.shown = n /\ ~w.stale))
  OBVIOUS
<1>5. was \in AskedFor /\ is \in AskedFor
  BY <1>1, ReasonIs
<1>7. attn.here => attn.reason = (IF attn.seen THEN NoReason ELSE was)
  BY DEF AttentionFollows
<1> DEFINE is2 == AttentionFor(workflowLens'.prev)
<1>9. /\ attn' \in [here : BOOLEAN, reason : AskedFor, seen : BOOLEAN, retired : BOOLEAN]
      /\ attn'.here = attn.here
      /\ ~attn'.here => attn'.reason = NoReason /\ ~attn'.seen
      /\ attn'.here => attn'.reason = (IF attn'.seen THEN NoReason ELSE is)
  <2> HIDE DEF p, w
  <2>1. CASE ~attn.here \/ was = is
    <3>1. attn' = attn
      BY <1>2, <2>1 DEF Dispatch
    <3> QED  BY <1>7, <2>1, <3>1 DEF FeedTypes
  <2>2. CASE attn.here /\ was # is /\ is = NoReason
    <3>1. attn' = [attn EXCEPT !.reason = NoReason, !.seen = FALSE]
      BY <1>2, <2>2 DEF Dispatch
    <3> HIDE DEF was, is
    <3> QED  BY NoStateIs, <2>2, <3>1 DEF FeedTypes
  <2>3. CASE attn.here /\ was # is /\ is # NoReason
    <3>1. attn' = [attn EXCEPT !.reason = is, !.seen = FALSE, !.retired = FALSE]
      BY <1>2, <2>3 DEF Dispatch, Report
    <3> HIDE DEF was, is
    <3> QED  BY <1>5, <2>3, <3>1 DEF FeedTypes
  <2> QED
    BY <2>1, <2>2, <2>3
<1>10. AttentionFollows'  BY <1>2, <1>4, <1>9 DEF AttentionFollows
<1> HIDE DEF is, was
<1> QED
  BY <1>2, <1>3, <1>4, <1>9, <1>10

\* What a step does to the store that outdates every read.
LEMMA ChangeKeeps ==
  ASSUME FeedTypes, NEW c, Change(c), c.changes = collab.changes,
         c \in [live : BOOLEAN, known : BOOLEAN, beats : BOOLEAN, flow : Floating \ {"none"},
                chain : Nat \ {0}, escalated : BOOLEAN, changes : Nat, faults : Nat],
         attn' \in [here : BOOLEAN, reason : AskedFor, seen : BOOLEAN, retired : BOOLEAN]
  PROVE  /\ FeedTypes' /\ (\A i \in DOMAIN snaps' : SnapOK(snaps[i])') /\ LensOK'
         /\ workflowLens'.prev = workflowLens.prev
         /\ collab'.known = c.known
<1>3. snaps' \in Seq(Snapshots) /\ \A i \in DOMAIN snaps' : snaps'[i].fresh = FALSE
  <2>2. \A i \in DOMAIN snaps : [snaps[i] EXCEPT !.fresh = FALSE] \in Snapshots
                              /\ [snaps[i] EXCEPT !.fresh = FALSE].fresh = FALSE
    <3> TAKE i \in DOMAIN snaps
    <3>1. snaps[i] \in Snapshots  BY DEF FeedTypes
    <3> QED
      BY <3>1 DEF Snapshots
  <2>3. DOMAIN snaps = 1..Len(snaps) /\ Len(snaps) \in Nat  BY DEF FeedTypes
  <2>4. [i \in 1..Len(snaps) |-> [snaps[i] EXCEPT !.fresh = FALSE]] \in Seq(Snapshots)
    BY <2>2, <2>3
  <2> QED  BY <2>2, <2>3, <2>4 DEF Change, Outdated
<1>4. /\ workflowLens' \in [prev : WhisperStates, shown : WhisperStates, stale : BOOLEAN, fresh : BOOLEAN]
      /\ workflowLens'.fresh = FALSE /\ workflowLens'.prev = workflowLens.prev
  BY DEF FeedTypes, Change, Outdated
<1> QED  BY <1>3, <1>4 DEF FeedTypes, SnapOK, LensOK, Change, Outdated

CollabStates == [live : BOOLEAN, known : BOOLEAN, beats : BOOLEAN, flow : Floating \ {"none"},
                 chain : Nat \ {0}, escalated : BOOLEAN, changes : Nat, faults : Nat]
AttnStates == [here : BOOLEAN, reason : AskedFor, seen : BOOLEAN, retired : BOOLEAN]

\* A write of whisper.
LEMMA WriteKeeps ==
  ASSUME FeedInv, NEW c \in CollabStates, Change(c), c.changes = collab.changes,
         c.known = collab.known, UNCHANGED attn
  PROVE  FeedInv'
<1>4. AttentionFollows'  BY ChangeKeeps DEF FeedInv, AttentionFollows, CollabStates, AttnStates, FeedTypes
<1> QED  BY ChangeKeeps, <1>4 DEF FeedInv, HereOK, CollabStates, AttnStates, FeedTypes

LEMMA WhisperWritesKeeps == FeedInv /\ WhisperWrites => FeedInv'
<1> SUFFICES ASSUME FeedInv, WhisperWrites PROVE FeedInv'
  OBVIOUS
<1>0. collab \in CollabStates /\ UNCHANGED attn
  BY DEF FeedInv, FeedTypes, CollabStates, WhisperWrites
<1> DEFINE Like(c) == c \in CollabStates /\ c.changes = collab.changes /\ c.known = collab.known
<1>2. ASSUME NEW c, Like(c), NEW f \in Floating \ {"none"} PROVE Like([c EXCEPT !.flow = f])
  BY <1>2 DEF CollabStates
<1>3. ASSUME NEW c, Like(c), NEW b \in BOOLEAN PROVE Like([c EXCEPT !.escalated = b])
  BY <1>3 DEF CollabStates
<1>4. ASSUME NEW c, Like(c), NEW b \in BOOLEAN PROVE Like([c EXCEPT !.live = b])
  BY <1>4 DEF CollabStates
<1>5. ASSUME NEW c, Like(c) PROVE Like([c EXCEPT !.beats = ~@])
  BY <1>5 DEF CollabStates
<1>6. Like(NewChain(collab))
  <2> DEFINE k == collab.chain + 1
             n == [collab EXCEPT !.chain = k, !.escalated = FALSE]
  <2>1. k \in Nat \ {0}
    BY <1>0 DEF CollabStates
  <2>2. NewChain(collab) = n
    BY <1>0 DEF NewChain, CollabStates
  <2> HIDE DEF k
  <2> QED  BY <2>2, <1>0, <2>1 DEF CollabStates
<1>8. PICK c : Like(c) /\ Change(c)
  <2>1. Like([NewChain(collab) EXCEPT !.flow = "running"])  BY <1>2, <1>6 DEF Floating
  <2>2. Like([collab EXCEPT !.escalated = TRUE])  BY <1>0, <1>3
  <2>3. \A f \in {"running", "halted", "done"} : Like([collab EXCEPT !.flow = f])  BY <1>0, <1>2 DEF Floating
  <2>4. Like([collab EXCEPT !.beats = ~@]) /\ Like([collab EXCEPT !.live = FALSE])  BY <1>0, <1>4, <1>5
  <2> HIDE DEF Like
  <2> QED
    BY <1>6, <2>1, <2>2, <2>3, <2>4 DEF WhisperWrites
<1> QED
  BY <1>0, <1>8, WriteKeeps

LEMMA WorktreeGoesKeeps == FeedInv /\ WorktreeGoes => FeedInv'
<1> SUFFICES ASSUME FeedInv, WorktreeGoes PROVE FeedInv'
  OBVIOUS
<1> DEFINE c == [collab EXCEPT !.known = FALSE]
<1>1. c \in CollabStates /\ c.changes = collab.changes /\ c.known = FALSE
  BY DEF FeedInv, FeedTypes, CollabStates
<1>2. Change(c) /\ attn' = [here |-> FALSE, reason |-> NoReason, seen |-> FALSE, retired |-> FALSE]
  BY DEF WorktreeGoes
<1> HIDE DEF c
<1>3. attn' \in AttnStates /\ ~attn'.here /\ attn'.reason = NoReason /\ ~attn'.seen
  BY <1>2, NoStateIs DEF AttnStates
<1>4. /\ FeedTypes' /\ (\A i \in DOMAIN snaps' : SnapOK(snaps[i])') /\ LensOK'
      /\ collab'.known = c.known
  BY <1>1, <1>2, <1>3, ChangeKeeps DEF FeedInv, CollabStates, AttnStates
<1> QED  BY <1>4, <1>1, <1>3 DEF FeedInv, HereOK, AttentionFollows

LEMMA WorktreeComesKeeps == FeedInv /\ Deaf = FALSE /\ WorktreeComes => FeedInv'
<1> SUFFICES ASSUME FeedInv, Deaf = FALSE, WorktreeComes PROVE FeedInv'
  OBVIOUS
<1> DEFINE c == [collab EXCEPT !.known = TRUE]
<1>1. c \in CollabStates /\ c.changes = collab.changes
  BY DEF FeedInv, FeedTypes, CollabStates
<1>2. Change(c) /\ UNCHANGED attn /\ ~workflowLens.prev.here
  BY DEF WorktreeComes
<1> HIDE DEF c
<1>4. /\ FeedTypes' /\ (\A i \in DOMAIN snaps' : SnapOK(snaps[i])') /\ LensOK'
      /\ workflowLens'.prev = workflowLens.prev
  BY <1>1, <1>2, ChangeKeeps DEF FeedInv, CollabStates, AttnStates, FeedTypes
<1> QED  BY <1>4, <1>2 DEF FeedInv, HereOK, AttentionFollows

LEMMA HydratedKeeps == FeedInv /\ Hydrated => FeedInv'
<1> SUFFICES ASSUME FeedInv, Hydrated PROVE FeedInv'
  OBVIOUS
<1>3. attn' \in AttnStates /\ attn'.here /\ attn'.reason = NoReason
  BY DEF AttnStates, FeedInv, FeedTypes, HereOK, Hydrated
<1>4. AttentionFor(workflowLens.prev) = NoReason /\ workflowLens' = workflowLens
  BY ReasonIs DEF FeedInv, FeedTypes, HereOK, AttnStates, Hydrated
<1>5. HereOK' /\ AttentionFollows'  BY <1>3, <1>4 DEF HereOK, AttentionFollows
<1> QED  BY <1>5, <1>3 DEF FeedInv, FeedTypes, SnapOK, LensOK, StoreState, AttnStates, Hydrated

\* What the user and the agents do leaves the reads alone.
LEMMA SidebarKeeps ==
  ASSUME FeedInv, UNCHANGED <<collab, snaps, workflowLens>>, attn' \in AttnStates, attn.here, attn'.here,
         attn'.reason = (IF attn'.seen THEN NoReason ELSE AttentionFor(workflowLens.prev))
  PROVE  FeedInv'
<1> QED  BY DEF FeedInv, FeedTypes, SnapOK, LensOK, StoreState, AttnStates, HereOK, AttentionFollows

LEMMA SidebarStep ==
  FeedInv /\ ((\E v \in {"waiting", "ready"} : AgentSays(v)) \/ ShellPrompts \/ Ages \/ Views) => FeedInv'
<1> SUFFICES ASSUME FeedInv, (\E v \in {"waiting", "ready"} : AgentSays(v)) \/ ShellPrompts \/ Ages \/ Views
             PROVE  FeedInv'
  OBVIOUS
<1>1. UNCHANGED <<collab, snaps, workflowLens>> /\ attn.here
  BY DEF AgentSays, ShellPrompts, Ages, Views, Sidebar
<1>2. attn \in AttnStates /\ attn.reason = (IF attn.seen THEN NoReason ELSE AttentionFor(workflowLens.prev))
  BY <1>1 DEF FeedInv, FeedTypes, AttentionFollows, AttnStates
<1> DEFINE Fine(a) == /\ a \in AttnStates /\ a.here
                      /\ a.reason = (IF a.seen THEN NoReason ELSE AttentionFor(workflowLens.prev))
<1>3. Fine(attn) /\ \A b \in BOOLEAN : Fine([attn EXCEPT !.retired = b])
  BY <1>1, <1>2 DEF AttnStates
<1>4. Fine([attn EXCEPT !.reason = NoReason, !.seen = @ \/ attn.reason # NoReason])
  <2> DEFINE b == attn.seen \/ attn.reason # NoReason
             n == [attn EXCEPT !.reason = NoReason, !.seen = b]
  <2>1. b \in BOOLEAN
    OBVIOUS
  <2>2. ~b => AttentionFor(workflowLens.prev) = NoReason
    BY <1>2
  <2> HIDE DEF b
  <2>5. Fine(n)  BY <2>2, <1>1, <1>2, <2>1, NoStateIs DEF AttnStates
  <2> QED  BY <1>2, <2>5 DEF AttnStates
<1>5. Fine(attn')
  <2>1. CASE \E v \in {"waiting", "ready"} : AgentSays(v)
    <3>1. PICK v : attn' = [attn EXCEPT !.retired = @ \/ v = "ready"]
      BY <2>1 DEF AgentSays
    <3>2. PICK b \in BOOLEAN : attn' = [attn EXCEPT !.retired = b]
      BY <3>1
    <3> HIDE DEF Fine
    <3> QED
      BY <1>3, <3>2
  <2>2. CASE ShellPrompts \/ Ages
    <3> HIDE DEF Fine
    <3> QED  BY <1>3, <2>2 DEF ShellPrompts, Ages
  <2>3. CASE Views
    <3> HIDE DEF Fine
    <3> QED  BY <1>4, <2>3 DEF Views
  <2> QED
    BY <2>1, <2>2, <2>3
<1> QED
  BY <1>1, <1>5, SidebarKeeps

LEMMA SnapsShrink ==
  ASSUME snaps \in Seq(Snapshots), \A j \in DOMAIN snaps : SnapOK(snaps[j]), NEW i \in DOMAIN snaps
  PROVE  /\ RemoveAt(snaps, i) \in Seq(Snapshots)
         /\ \A j \in DOMAIN RemoveAt(snaps, i) : SnapOK(RemoveAt(snaps, i)[j])
<1> DEFINE t == RemoveAt(snaps, i)
<1> HIDE DEF t
<1>2. \A j \in DOMAIN t : j \in DOMAIN snaps /\ j + 1 \in DOMAIN snaps  BY RemoveOne DEF t
<1>3. \A j \in DOMAIN t : t[j] = snaps[j] \/ t[j] = snaps[j + 1]  BY RemoveOne DEF t
<1>4. \A j \in DOMAIN t : SnapOK(t[j])
  BY <1>2, <1>3
<1> QED  BY RemoveOne, <1>4 DEF t

\* A state that is pushed with the store unchanged.
LEMMA StatePushKeeps ==
  ASSUME FeedInv, NEW n \in WhisperStates, NEW fresh \in BOOLEAN, StatePushed(n, fresh),
         NEW f \in Nat, collab' = [collab EXCEPT !.faults = f],
         snaps' \in Seq(Snapshots), \A j \in DOMAIN snaps' : SnapOK(snaps'[j]),
         fresh => n = StoreState,
         n.here /\ ~attn.here => ~collab.known
  PROVE  FeedInv'
<1>2. /\ workflowLens' \in [prev : WhisperStates, shown : WhisperStates, stale : BOOLEAN, fresh : BOOLEAN]
      /\ attn' \in [here : BOOLEAN, reason : AskedFor, seen : BOOLEAN, retired : BOOLEAN]
      /\ attn'.here = attn.here
      /\ ~attn'.here => attn'.reason = NoReason /\ ~attn'.seen
      /\ AttentionFollows'
      /\ workflowLens'.prev = n /\ workflowLens'.fresh = fresh
      /\ (n.here /\ n.beats /\ n.flow = "none") \/ (workflowLens'.shown = n /\ ~workflowLens'.stale)
  BY StatePushedIs DEF FeedInv, HereOK
<1>4. /\ collab' \in CollabStates /\ collab'.live = collab.live /\ collab'.known = collab.known
      /\ collab'.beats = collab.beats /\ collab'.flow = collab.flow /\ collab'.chain = collab.chain
      /\ collab'.escalated = collab.escalated  BY DEF CollabStates, FeedInv, FeedTypes
<1>5. FeedTypes'
  BY <1>2, <1>4 DEF FeedTypes, CollabStates
<1>6. \A i \in DOMAIN snaps' : SnapOK(snaps[i])'
  BY <1>4 DEF SnapOK
<1>8. LensOK'
  <2>2. fresh => ~(n.here /\ n.flow = "none")  BY DEF StoreState, NoState, CollabStates, FeedInv, FeedTypes
  <2> QED  BY <1>2, <1>4, <2>2 DEF LensOK, StoreState
<1>9. HereOK'
  BY <1>2, <1>4 DEF HereOK
<1> QED
  BY <1>2, <1>5, <1>6, <1>8, <1>9 DEF FeedInv

LEMMA SnapBeginsKeeps == FeedInv /\ SnapBegins => FeedInv'
<1> SUFFICES ASSUME FeedInv, SnapBegins PROVE FeedInv'
  OBVIOUS
<1>1. collab \in CollabStates /\ snaps \in Seq(Snapshots) /\ \A j \in DOMAIN snaps : SnapOK(snaps[j])
  BY DEF FeedInv, FeedTypes, CollabStates
<1>2. CASE /\ collab.live
           /\ snaps' = Append(snaps, [at |-> "asked", fresh |-> TRUE, beats |-> FALSE, flow |-> "none"])
           /\ UNCHANGED <<collab, workflowLens, attn, others>>
  <2> DEFINE s == [at |-> "asked", fresh |-> TRUE, beats |-> FALSE, flow |-> "none"]
  <2>1. s \in Snapshots /\ SnapOK(s)
    BY <1>2 DEF Snapshots, SnapOK, Floating
  <2> HIDE DEF s
  <2>3. snaps' \in Seq(Snapshots) /\ \A j \in DOMAIN snaps' : SnapOK(snaps'[j])  BY <1>1, <2>1, <1>2 DEF s
  <2>6. AttentionFollows'  BY <1>2 DEF FeedInv, AttentionFollows
  <2> QED  BY <1>2, <2>3, <2>6 DEF FeedInv, FeedTypes, LensOK, HereOK, StoreState, SnapOK
<1>3. CASE ~collab.live /\ StatePushed(NoState, TRUE) /\ UNCHANGED <<collab, snaps>>
  <2>1. collab' = [collab EXCEPT !.faults = collab.faults] /\ collab.faults \in Nat
    BY <1>1, <1>3 DEF CollabStates
  <2>2. NoState = StoreState
    BY <1>3 DEF StoreState
  <2>3. snaps' \in Seq(Snapshots) /\ \A j \in DOMAIN snaps' : SnapOK(snaps'[j])
    BY <1>1, <1>3
  <2> QED
    BY <1>3, <2>1, <2>2, <2>3, NoStateIs, StatePushKeeps
<1>4. CASE Fault(1) /\ StatePushed(NoState, FALSE) /\ UNCHANGED snaps
  <2>1. collab' = [collab EXCEPT !.faults = collab.faults + 1] /\ collab.faults + 1 \in Nat
    BY <1>1, <1>4 DEF CollabStates, Fault
  <2>3. snaps' \in Seq(Snapshots) /\ \A j \in DOMAIN snaps' : SnapOK(snaps'[j])
    BY <1>1, <1>4
  <2> QED
    BY <1>4, <2>1, <2>3, NoStateIs, StatePushKeeps
<1> QED
  BY <1>2, <1>3, <1>4 DEF SnapBegins

\* A snapshot's first two reads.
LEMMA HalfKeeps ==
  ASSUME FeedInv, NEW i \in DOMAIN snaps, NEW beats \in BOOLEAN, NEW flow \in Floating, NEW fresh \in BOOLEAN,
         collab.known, snaps[i].fresh \/ ~fresh, fresh => beats = collab.beats /\ flow = collab.flow,
         snaps' = [snaps EXCEPT ![i] = [at |-> "half", fresh |-> fresh, beats |-> beats, flow |-> flow]],
         NEW f \in Nat, collab' = [collab EXCEPT !.faults = f], UNCHANGED <<workflowLens, attn>>
  PROVE  FeedInv'
<1> DEFINE s == [at |-> "half", fresh |-> fresh, beats |-> beats, flow |-> flow]
<1>2. /\ collab' \in CollabStates /\ collab'.live = collab.live /\ collab'.known = collab.known
      /\ collab'.beats = collab.beats /\ collab'.flow = collab.flow /\ collab'.chain = collab.chain
      /\ collab'.escalated = collab.escalated  BY DEF CollabStates, FeedInv, FeedTypes
<1>3. s \in Snapshots /\ SnapOK(s)  BY DEF Snapshots, SnapOK, FeedInv, FeedTypes, CollabStates
<1> HIDE DEF s
<1>5. snaps' \in Seq(Snapshots) /\ \A j \in DOMAIN snaps' : SnapOK(snaps'[j])
  BY <1>3 DEF FeedInv, FeedTypes, CollabStates, s
<1>8. LensOK' /\ HereOK'  BY <1>2 DEF FeedInv, LensOK, HereOK, StoreState
<1>9. FeedTypes'
  BY <1>2, <1>5 DEF FeedInv, FeedTypes, CollabStates
<1>10. AttentionFollows'  BY DEF FeedInv, AttentionFollows
<1> QED  BY <1>2, <1>5, <1>8, <1>9, <1>10 DEF FeedInv, SnapOK

\* The two ways those reads end.
HalfRead(x, b, f) == [x EXCEPT !.at = "half", !.beats = b, !.flow = f]
LostRead(x, b) == [x EXCEPT !.at = "half", !.beats = b, !.flow = "none", !.fresh = FALSE]
AtHalf(fresh, b, f) == [at |-> "half", fresh |-> fresh, beats |-> b, flow |-> f]

LEMMA AtHalfIs ==
  ASSUME NEW x \in Snapshots, NEW b \in BOOLEAN, NEW f \in Floating
  PROVE  HalfRead(x, b, f) = AtHalf(x.fresh, b, f) /\ LostRead(x, b) = AtHalf(FALSE, b, "none")
<1> "none" \in Floating
  BY DEF Floating
<1> DEFINE y1 == AtHalf(x.fresh, b, f)
           z1 == HalfRead(x, b, f)
           y2 == AtHalf(FALSE, b, "none")
           z2 == LostRead(x, b)
<1>1. y1 \in Snapshots /\ y2 \in Snapshots
  BY DEF AtHalf, Snapshots
<1>2. z1 \in Snapshots /\ z1.at = "half" /\ z1.fresh = x.fresh /\ z1.beats = b /\ z1.flow = f
  BY DEF Snapshots, HalfRead
<1>3. z2 \in Snapshots /\ z2.at = "half" /\ z2.fresh = FALSE /\ z2.beats = b /\ z2.flow = "none"
  BY DEF Snapshots, LostRead
<1>4. /\ y1.at = "half" /\ y1.fresh = x.fresh /\ y1.beats = b /\ y1.flow = f
      /\ y2.at = "half" /\ y2.fresh = FALSE /\ y2.beats = b /\ y2.flow = "none"
  BY DEF AtHalf
<1> HIDE DEF y1, z1, y2, z2
<1>5. y1 = z1 /\ y2 = z2
  BY <1>1, <1>2, <1>3, <1>4 DEF Snapshots
<1> QED
  BY <1>5 DEF y1, z1, y2, z2

LEMMA SnapResolvesKeeps ==
  ASSUME FeedInv, NEW i, SnapResolves(i) PROVE FeedInv'
<1>1. collab \in CollabStates /\ snaps \in Seq(Snapshots) /\ \A j \in DOMAIN snaps : SnapOK(snaps[j])
  BY DEF FeedInv, FeedTypes, CollabStates
<1>2. i \in DOMAIN snaps /\ snaps[i] \in Snapshots
  <2>1. i \in DOMAIN snaps
    BY DEF SnapResolves, Reading
  <2> QED
    BY <1>1, <2>1
<1>3. collab.flow \in Floating /\ "none" \in Floating /\ collab.beats \in BOOLEAN /\ collab.faults \in Nat
      /\ collab.faults + 1 \in Nat
  BY <1>1 DEF CollabStates, Floating
<1>4. CASE ~collab.known /\ snaps' = RemoveAt(snaps, i) /\ StatePushed(NoState, snaps[i].fresh) /\ UNCHANGED collab
  <2>1. collab' = [collab EXCEPT !.faults = collab.faults]
    BY <1>1, <1>4 DEF CollabStates
  <2>2. NoState = StoreState
    BY <1>4 DEF StoreState
  <2>3. snaps' \in Seq(Snapshots) /\ \A j \in DOMAIN snaps' : SnapOK(snaps'[j])
    BY <1>1, <1>2, <1>4, SnapsShrink
  <2>4. snaps[i].fresh \in BOOLEAN
    BY <1>2 DEF Snapshots
  <2> QED
    BY <1>3, <1>4, <2>1, <2>2, <2>3, <2>4, NoStateIs, StatePushKeeps
<1>5. CASE /\ collab.known
           /\ snaps' = [snaps EXCEPT ![i].at = "half", ![i].beats = collab.beats, ![i].flow = collab.flow]
           /\ UNCHANGED <<collab, workflowLens, attn, others>>
  <2> DEFINE fresh == snaps[i].fresh
  <2>1. collab' = [collab EXCEPT !.faults = collab.faults]
    BY <1>1, <1>5 DEF CollabStates
  <2>2. fresh \in BOOLEAN
    BY <1>2 DEF Snapshots
  <2>3. snaps' = [snaps EXCEPT ![i] = [at |-> "half", fresh |-> fresh, beats |-> collab.beats, flow |-> collab.flow]]
    <3>1. snaps' = [snaps EXCEPT ![i] = HalfRead(snaps[i], collab.beats, collab.flow)]
      BY <1>1, <1>2, <1>5 DEF HalfRead
    <3> QED
      BY <1>2, <1>3, <3>1, AtHalfIs DEF AtHalf
  <2> QED
    BY <1>2, <1>3, <1>5, <2>1, <2>2, <2>3, HalfKeeps
<1>6. CASE /\ collab.known /\ Fault(1)
           /\ \E both \in BOOLEAN :
                snaps' = [snaps EXCEPT ![i].at = "half", ![i].beats = collab.beats /\ ~both,
                                       ![i].flow = "none", ![i].fresh = FALSE]
           /\ UNCHANGED <<workflowLens, attn, others>>
  <2>1. PICK b \in BOOLEAN : snaps' = [snaps EXCEPT ![i].at = "half", ![i].beats = b,
                                                    ![i].flow = "none", ![i].fresh = FALSE]
    BY <1>3, <1>6
  <2>2. snaps' = [snaps EXCEPT ![i] = [at |-> "half", fresh |-> FALSE, beats |-> b, flow |-> "none"]]
    BY <1>2, <1>3, <1>1, <2>1, AtHalfIs DEF AtHalf, LostRead
  <2>3. collab' = [collab EXCEPT !.faults = collab.faults + 1]
    BY <1>1, <1>6 DEF CollabStates, Fault
  <2> QED
    BY <1>2, <1>3, <1>6, <2>2, <2>3, HalfKeeps
<1> QED
  BY <1>4, <1>5, <1>6 DEF SnapResolves

LEMMA SnapEndsKeeps ==
  ASSUME FeedInv, Deaf = FALSE, NEW i, SnapEnds(i) PROVE FeedInv'
<1>1. collab \in CollabStates /\ snaps \in Seq(Snapshots) /\ \A j \in DOMAIN snaps : SnapOK(snaps[j])
  BY DEF FeedInv, FeedTypes, CollabStates
<1>2. i \in DOMAIN snaps /\ snaps[i] \in Snapshots /\ snaps[i].at = "half" /\ SnapOK(snaps[i])
  BY <1>1 DEF SnapEnds, Reading
<1> DEFINE State(c) == [here |-> TRUE, beats |-> snaps[i].beats, flow |-> snaps[i].flow, chain |-> c]
<1>4. snaps' \in Seq(Snapshots) /\ \A j \in DOMAIN snaps' : SnapOK(snaps'[j])
  BY <1>1, <1>2, SnapsShrink DEF SnapEnds
<1>5. ~attn.here => ~collab.known
  BY DEF SnapEnds
<1>6. CASE StatePushed(State(Escalated), snaps[i].fresh) /\ UNCHANGED collab
  <2>2. snaps[i].fresh \in BOOLEAN
    BY <1>2 DEF Snapshots
  <2>3. snaps[i].fresh => State(Escalated) = StoreState
    BY <1>2 DEF SnapOK, StoreState, Escalated
  <2>4. collab' = [collab EXCEPT !.faults = collab.faults] /\ collab.faults \in Nat
    BY <1>1, <1>6 DEF CollabStates
  <2>5. State(Escalated) \in WhisperStates  BY <1>2, <1>1 DEF Snapshots, WhisperStates, Escalated, CollabStates
  <2> HIDE DEF State
  <2> QED
    BY <1>4, <1>5, <1>6, <2>2, <2>3, <2>4, <2>5, StatePushKeeps
<1>7. CASE Fault(1) /\ StatePushed(State(0), FALSE)
  <2>1. collab' = [collab EXCEPT !.faults = collab.faults + 1] /\ collab.faults + 1 \in Nat
    BY <1>1, <1>7 DEF CollabStates, Fault
  <2>2. State(0) \in WhisperStates  BY <1>2 DEF Snapshots, WhisperStates
  <2> HIDE DEF State
  <2> QED
    BY <1>4, <1>5, <1>7, <2>1, <2>2, StatePushKeeps
<1> QED
  BY <1>6, <1>7 DEF SnapEnds

\* No step of whisper, of the reads or of the user breaks the invariant of the lens.
LEMMA FeedStep ==
  ASSUME FeedInv, Deaf = FALSE, FeedNext \/ UNCHANGED feedVars PROVE FeedInv'
<1>1. CASE UNCHANGED feedVars
  <2>2. AttentionFollows'  BY <1>1 DEF FeedInv, AttentionFollows, feedVars
  <2> QED  BY <1>1, <2>2 DEF FeedInv, FeedTypes, SnapOK, LensOK, HereOK, StoreState, feedVars
<1>2. CASE FeedNext
  BY <1>2, WhisperWritesKeeps, WorktreeGoesKeeps, WorktreeComesKeeps, HydratedKeeps, SnapBeginsKeeps,
     SnapResolvesKeeps, SnapEndsKeeps, SidebarStep DEF FeedNext
<1> QED
  BY <1>1, <1>2

LEMMA FeedHolds == FeedInv => AttentionFollows /\ LensCatchesUp
<1> SUFFICES ASSUME FeedInv PROVE LensCatchesUp
  BY DEF FeedInv
<1> SUFFICES ASSUME workflowLens.fresh PROVE LensCatchesUp
  BY DEF LensCatchesUp
<1>1. workflowLens.shown = StoreState /\ workflowLens.prev = workflowLens.shown /\ ~workflowLens.stale
  BY DEF FeedInv, LensOK
<1>4. workflowLens.shown = IF ~(collab.live /\ collab.known) THEN NoState
                           ELSE [here |-> TRUE, beats |-> collab.beats, flow |-> collab.flow,
                                 chain |-> IF collab.escalated THEN collab.chain ELSE 0]
  BY <1>1 DEF StoreState
<1>5. ASSUME workflowLens.shown.here, collab.beats, collab.flow = "running", ~collab.escalated
      PROVE  Dot # "actionRequired"
  <2>2. attn.reason = NoReason  BY <1>1, <1>4, <1>5 DEF AttentionFollows, HereOK, FeedInv, AttentionFor, NoState
  <2> QED  BY <2>2, <1>4, <1>5 DEF Dot, NoReason, Suppressed, NoState
<1>6. ASSUME workflowLens.shown.here, attn.here, ~attn.seen, ~attn.retired,
             collab.escalated \/ collab.flow = "halted"
      PROVE  Dot = "actionRequired"
  <2>2. attn.reason.state = "waiting"
    BY <1>6, <1>1, <1>4 DEF AttentionFollows, FeedInv, AttentionFor, NoState, CollabStates, FeedTypes,
       AttnStates
  <2> QED
    BY <1>6, <2>2 DEF Dot
<1> QED
  BY <1>1, <1>4, <1>5, <1>6 DEF LensCatchesUp

LEMMA FeedStarts == LensInit => FeedInv
<1> SUFFICES ASSUME LensInit PROVE FeedInv
  OBVIOUS
<1>3. AttentionFollows  BY NoStateIs DEF AttentionFollows, LensInit
<1> QED  BY NoStateIs, <1>3 DEF FeedInv, LensOK, HereOK, SnapOK, LensInit, FeedTypes, Floating

-----------------------------------------------------------------------------
(* The dialog and its commands.                                            *)

Dialogs == [open : BOOLEAN, busy : BOOLEAN, hint : BOOLEAN,
            status : {"running", "halted", "done"}, gone : {FALSE}]
Awaited(o, tells) == \E i \in DOMAIN o : o[i].mine /\ o[i].tell = tells
AtMostOne(o) == \A i, j \in DOMAIN o : o[i].mine /\ o[j].mine /\ o[i].tell = o[j].tell => i = j
NoneMine(o) == \A i \in DOMAIN o : ~o[i].mine

\* The parts of the invariant, of a dialog and its commands.
DialogFits(d, o) ==
    /\ o \in Seq(Commands) /\ d \in Dialogs
    /\ d.busy = Awaited(o, FALSE) /\ d.hint = Awaited(o, TRUE)
    /\ ~d.open => NoneMine(o)
    /\ AtMostOne(o)

LEMMA CommandInvIs == (CommandInv <=> DialogFits(dialog, orders)) /\ (CommandInv' <=> DialogFits(dialog', orders'))
BY DEF CommandInv, DialogFits, WaitedFor, Awaited, AtMostOne, NoneMine, Dialogs

\* A new command.
LEMMA CommandSent ==
  ASSUME NEW o \in Seq(Commands), NEW t \in BOOLEAN, ~Awaited(o, t), AtMostOne(o)
  PROVE  LET p == Append(o, [tell |-> t, mine |-> TRUE, at |-> "asked"])
         IN  /\ p \in Seq(Commands) /\ AtMostOne(p) /\ Awaited(p, t)
             /\ Awaited(p, ~t) = Awaited(o, ~t)
<1> DEFINE c == [tell |-> t, mine |-> TRUE, at |-> "asked"]
           p == Append(o, c)
<1>1. c \in Commands /\ c.tell = t /\ c.mine
  BY DEF Commands
<1> HIDE DEF c
<1>2. p \in Seq(Commands) /\ Len(p) = Len(o) + 1 /\ Len(o) \in Nat /\ DOMAIN o = 1..Len(o) /\ DOMAIN p = 1..Len(p)
      /\ p[Len(p)] = c /\ \A i \in 1..Len(o) : p[i] = o[i]
  BY <1>1
<1> HIDE DEF p
<1>8. AtMostOne(p)
  <2> SUFFICES ASSUME NEW i \in DOMAIN p, NEW j \in DOMAIN p, p[i].mine, p[j].mine, p[i].tell = p[j].tell
               PROVE  i = j
    BY DEF AtMostOne
  <2>1. CASE i \in DOMAIN o /\ j \in DOMAIN o
    BY <1>2, <2>1 DEF AtMostOne
  <2>2. CASE i = Len(p) /\ j \in DOMAIN o  BY <1>1, <1>2, <2>2 DEF Awaited
  <2>3. CASE j = Len(p) /\ i \in DOMAIN o  BY <1>1, <1>2, <2>3 DEF Awaited
  <2> QED  BY <1>2, <2>1, <2>2, <2>3
<1>9. Awaited(p, ~t) = Awaited(o, ~t)
  <2>2. Awaited(o, ~t) => Awaited(p, ~t)  BY <1>2 DEF Awaited
  <2> QED  BY <1>1, <1>2, <2>2 DEF Awaited
<1> QED  BY <1>2, <1>1, <1>8, <1>9 DEF p, c, Awaited

\* A command that ends.
LEMMA OrderGone ==
  ASSUME NEW o \in Seq(Commands), NEW i \in DOMAIN o, AtMostOne(o)
  PROVE  LET p == RemoveAt(o, i)
         IN  /\ p \in Seq(Commands) /\ AtMostOne(p)
             /\ NoneMine(o) => NoneMine(p)
             /\ \A t \in BOOLEAN : Awaited(p, t) = (Awaited(o, t) /\ ~(o[i].mine /\ o[i].tell = t))
<1> DEFINE p == RemoveAt(o, i)
<1>1. /\ p \in Seq(Commands) /\ Len(p) = Len(o) - 1
      /\ \A j \in DOMAIN p : p[j] = IF j < i THEN o[j] ELSE o[j + 1]
      /\ \A j \in DOMAIN o : j < i => j \in DOMAIN p /\ p[j] = o[j]
      /\ \A j \in DOMAIN o : j > i => j - 1 \in DOMAIN p /\ p[j - 1] = o[j]
  BY RemoveOne
<1> HIDE DEF p
<1> DEFINE g(j) == IF j < i THEN j ELSE j + 1
<1>3. \A j \in DOMAIN p : g(j) \in DOMAIN o /\ g(j) # i /\ p[j] = o[g(j)]  BY <1>1
<1>4. \A j, k \in DOMAIN p : g(j) = g(k) => j = k  BY <1>1
<1>5. \A j \in DOMAIN o : j # i => \E k \in DOMAIN p : p[k] = o[j]
  <2> TAKE j \in DOMAIN o
  <2> HAVE j # i
  <2>1. j < i \/ j > i  BY <1>1
  <2> QED
    BY <1>1, <2>1
<1> HIDE DEF g
<1>7. NoneMine(o) => NoneMine(p)
  BY <1>3 DEF NoneMine
<1>8. \A t \in BOOLEAN : Awaited(p, t) = (Awaited(o, t) /\ ~(o[i].mine /\ o[i].tell = t))
  <2> TAKE t \in BOOLEAN
  <2>1. ASSUME Awaited(p, t) PROVE Awaited(o, t) /\ ~(o[i].mine /\ o[i].tell = t)
    <3>1. PICK j \in DOMAIN p : p[j].mine /\ p[j].tell = t
      BY <2>1 DEF Awaited
    <3> QED  BY <1>3, <3>1 DEF Awaited, AtMostOne
  <2>2. ASSUME Awaited(o, t), ~(o[i].mine /\ o[i].tell = t) PROVE Awaited(p, t)
    <3>1. PICK j \in DOMAIN o : o[j].mine /\ o[j].tell = t
      BY <2>2 DEF Awaited
    <3> QED  BY <1>5, <3>1, <2>2 DEF Awaited
  <2> QED  BY <2>1, <2>2 DEF Awaited
<1> QED  BY <1>1, <1>3, <1>4, <1>7, <1>8 DEF p, AtMostOne

LEMMA OpenKeeps == CommandInv /\ (OpenDialog \/ StatusMoves) => CommandInv'
<1> SUFFICES ASSUME DialogFits(dialog, orders), OpenDialog \/ StatusMoves
             PROVE  DialogFits(dialog', orders')
  BY CommandInvIs
<1>3. dialog' \in Dialogs /\ dialog'.busy = dialog.busy /\ dialog'.hint = dialog.hint /\ dialog'.open
  <2>1. CASE OpenDialog  BY <2>1 DEF OpenDialog, Dialogs, DialogFits
  <2>2. CASE StatusMoves
    <3>1. PICK s \in {"running", "halted", "done"} : dialog' = [dialog EXCEPT !.status = s]
      BY <2>2 DEF StatusMoves
    <3> QED  BY <3>1, <2>2 DEF Dialogs, DialogFits, StatusMoves
  <2> QED
    BY <2>1, <2>2
<1> QED  BY <1>3 DEF DialogFits, OpenDialog, StatusMoves

LEMMA CloseKeeps == CommandInv /\ CloseDialog => CommandInv'
<1> SUFFICES ASSUME DialogFits(dialog, orders), CloseDialog PROVE DialogFits(dialog', orders')
  BY CommandInvIs
<1>3. orders' \in Seq(Commands) /\ NoneMine(orders')
  <2>2. \A i \in DOMAIN orders : [orders[i] EXCEPT !.mine = FALSE] \in Commands /\ ~[orders[i] EXCEPT !.mine = FALSE].mine
    <3> TAKE i \in DOMAIN orders
    <3>1. orders[i] \in Commands  BY DEF DialogFits
    <3> QED
      BY <3>1 DEF Commands
  <2>3. DOMAIN orders = 1..Len(orders) /\ Len(orders) \in Nat  BY DEF DialogFits
  <2>4. [i \in 1..Len(orders) |-> [orders[i] EXCEPT !.mine = FALSE]] \in Seq(Commands)
    BY <2>2, <2>3
  <2> QED  BY <2>2, <2>3, <2>4 DEF NoneMine, CloseDialog
<1> QED  BY <1>3 DEF DialogFits, NoneMine, AtMostOne, Awaited, Dialogs, CloseDialog

LEMMA SendKeeps ==
  ASSUME CommandInv, Talks = FALSE, Tell \/ \E kind \in {"pause", "resume", "cancel", "recover"} : Press(kind)
  PROVE  CommandInv'
<1> SUFFICES ASSUME DialogFits(dialog, orders) PROVE DialogFits(dialog', orders')
  BY CommandInvIs
<1>1. /\ orders \in Seq(Commands) /\ dialog \in Dialogs /\ AtMostOne(orders) /\ dialog.open
      /\ dialog.busy = Awaited(orders, FALSE) /\ dialog.hint = Awaited(orders, TRUE)
  BY DEF DialogFits, Tell, Press
<1>2. CASE Tell
  <2>1. ~Awaited(orders, TRUE)
    BY <1>2 DEF Tell, Awaited
  <2>3. orders' \in Seq(Commands) /\ AtMostOne(orders') /\ Awaited(orders', TRUE)
        /\ Awaited(orders', FALSE) = Awaited(orders, FALSE)
    BY <1>1, <2>1, <1>2, CommandSent, ~TRUE = FALSE DEF Tell, SendOrder
  <2>5. Awaited(orders', TRUE) = TRUE
    BY <2>3 DEF Awaited
  <2> QED  BY <1>1, <2>3, <1>2, <2>5 DEF DialogFits, Dialogs, Tell, SendOrder
<1>3. CASE \E kind \in {"pause", "resume", "cancel", "recover"} : Press(kind)
  <2>3. orders' \in Seq(Commands) /\ AtMostOne(orders') /\ Awaited(orders', FALSE)
        /\ Awaited(orders', TRUE) = Awaited(orders, TRUE)
    BY <1>1, <1>3, CommandSent, ~FALSE = TRUE DEF Press, SendOrder
  <2>5. Awaited(orders', FALSE) = TRUE
    BY <2>3 DEF Awaited
  <2> QED  BY <1>1, <2>3, <1>3, <2>5 DEF DialogFits, Dialogs, Press, SendOrder
<1> QED
  BY <1>2, <1>3

LEMMA OrderStartsKeeps ==
  ASSUME CommandInv, NEW i, OrderStarts(i) PROVE CommandInv'
<1> SUFFICES ASSUME DialogFits(dialog, orders) PROVE DialogFits(dialog', orders')
  BY CommandInvIs
<1>1. orders \in Seq(Commands) /\ dialog \in Dialogs /\ dialog.gone = FALSE
  BY DEF DialogFits, Dialogs
<1>2. i \in DOMAIN orders /\ orders' = [orders EXCEPT ![i].at = "runs"] /\ dialog' = dialog
  BY <1>1 DEF OrderStarts
<1>3. orders[i] \in Commands
  BY <1>1, <1>2
<1>4. /\ orders' \in Seq(Commands) /\ DOMAIN orders' = DOMAIN orders
      /\ \A j \in DOMAIN orders : orders'[j].mine = orders[j].mine /\ orders'[j].tell = orders[j].tell
  <2> DEFINE c == [orders[i] EXCEPT !.at = "runs"]
  <2>1. c \in Commands /\ c.mine = orders[i].mine /\ c.tell = orders[i].tell
    BY <1>3 DEF Commands
  <2>2. orders' = [orders EXCEPT ![i] = c]
    BY <1>1, <1>2
  <2> HIDE DEF c
  <2>3. orders' \in Seq(Commands) /\ DOMAIN orders' = DOMAIN orders
    BY <1>1, <1>2, <2>1, <2>2
  <2> QED
    BY <1>1, <1>2, <2>1, <2>2, <2>3
<1>5. \A t \in BOOLEAN : Awaited(orders', t) = Awaited(orders, t)
  BY <1>4 DEF Awaited
<1>6. AtMostOne(orders) => AtMostOne(orders')
  BY <1>4 DEF AtMostOne
<1>7. NoneMine(orders) => NoneMine(orders')
  BY <1>4 DEF NoneMine
<1> QED
  BY <1>2, <1>4, <1>5, <1>6, <1>7 DEF DialogFits

LEMMA OrderEndsKeeps ==
  ASSUME CommandInv, NEW i, OrderEnds(i) PROVE CommandInv'
<1> SUFFICES ASSUME DialogFits(dialog, orders) PROVE DialogFits(dialog', orders')
  BY CommandInvIs
<1>1. /\ orders \in Seq(Commands) /\ dialog \in Dialogs /\ AtMostOne(orders)
      /\ dialog.busy = Awaited(orders, FALSE) /\ dialog.hint = Awaited(orders, TRUE)
      /\ ~dialog.open => NoneMine(orders)
  BY DEF DialogFits
<1>2. /\ i \in DOMAIN orders /\ orders' = RemoveAt(orders, i)
      /\ dialog' = IF orders[i].mine THEN Released(orders[i]) ELSE dialog
  BY DEF OrderEnds
<1>3. /\ orders' \in Seq(Commands) /\ AtMostOne(orders') /\ (NoneMine(orders) => NoneMine(orders'))
      /\ \A t \in BOOLEAN : Awaited(orders', t) = (Awaited(orders, t) /\ ~(orders[i].mine /\ orders[i].tell = t))
  BY <1>1, <1>2, OrderGone
<1>4. orders[i] \in Commands
  BY <1>1, <1>2
<1>6. CASE ~orders[i].mine
  <2>2. Awaited(orders', TRUE) = Awaited(orders, TRUE) /\ Awaited(orders', FALSE) = Awaited(orders, FALSE)
    BY <1>2, <1>3, <1>6 DEF Awaited
  <2> QED  BY <1>1, <1>3, <1>2, <1>6, <2>2 DEF DialogFits
<1>7. CASE orders[i].mine /\ orders[i].tell = TRUE
  <2>3. Awaited(orders', TRUE) = FALSE /\ Awaited(orders', FALSE) = Awaited(orders, FALSE)
    BY <1>3, <1>7 DEF Awaited
  <2> QED  BY <1>1, <1>3, <1>2, <1>7, <2>3 DEF DialogFits, Dialogs, Released
<1>8. CASE orders[i].mine /\ orders[i].tell = FALSE
  <2>3. Awaited(orders', FALSE) = FALSE /\ Awaited(orders', TRUE) = Awaited(orders, TRUE)
    BY <1>3, <1>8 DEF Awaited
  <2> QED  BY <1>1, <1>3, <1>2, <1>8, <2>3 DEF DialogFits, Dialogs, Released
<1> QED  BY <1>4, <1>6, <1>7, <1>8 DEF Commands

\* No step of the user or of a command breaks the invariant of the dialog.
LEMMA DialogStep ==
  ASSUME CommandInv, Talks = FALSE, Leaves = FALSE, DialogNext \/ UNCHANGED dialogVars PROVE CommandInv'
<1>1. CASE UNCHANGED dialogVars
  BY <1>1 DEF dialogVars, CommandInv, WaitedFor
<1>2. CASE DialogNext
  <2>1. ~WorktreeLeaves
    BY DEF WorktreeLeaves
  <2> QED
    BY <1>2, <2>1, OpenKeeps, CloseKeeps, SendKeeps, OrderStartsKeeps, OrderEndsKeeps DEF DialogNext
<1> QED
  BY <1>1, <1>2

LEMMA DialogHolds == CommandInv => DialogIsHonest
BY DEF CommandInv, DialogIsHonest, WaitedFor

LEMMA DialogStarts == LensInit => CommandInv
BY DEF LensInit, CommandInv, ClosedDialog, WaitedFor

\* Sets of numbers have a least element, those that are bounded a greatest one.
LEMMA LeastOf ==
  ASSUME NEW T \in SUBSET Nat, T # {}
  PROVE  /\ Min(T) \in T /\ \A y \in T : Min(T) <= y
<1>2. PICK x \in T : \A y \in T : ~(<<y, x>> \in OpToRel(<, Nat))  BY NatLessThanWellFounded, WFMin
<1>3. \A y \in T : x <= y
  <2>1. \A y \in T : ~(y < x)
    BY <1>2 DEF OpToRel
  <2> QED
    BY <2>1
<1> DEFINE P(z) == z \in T /\ \A y \in T : z <= y
<1> QED  BY <1>3 DEF Min

LEMMA GreatestOf ==
  ASSUME NEW T \in SUBSET Nat, T # {}, NEW n \in Nat, \A x \in T : x <= n
  PROVE  /\ Max(T) \in T /\ \A y \in T : y <= Max(T)
<1> DEFINE D == {n - x : x \in T}
<1>1. D \in SUBSET Nat /\ D # {}
  <2>2. \A d \in D : d \in Nat  OBVIOUS
  <2> QED
    BY <2>2
<1> DEFINE d == Min(D)
<1>2. d \in D /\ \A e \in D : d <= e
  <2> HIDE DEF D
  <2> QED
    BY <1>1, LeastOf
<1> HIDE DEF d
<1>3. PICK x \in T : d = n - x
  BY <1>2
<1>4. \A y \in T : x >= y
  BY <1>2, <1>3
<1>7. Max(T) \in T /\ \A y \in T : Max(T) >= y  BY <1>4 DEF Max
<1> QED  BY <1>7

-----------------------------------------------------------------------------
(* The archive of the runs.                                                *)

LEMMA RanksAre == /\ \A s \in {"running", "paused", "done"} : StatusRank(s) \in 0..2
                  /\ \A s, t \in {"running", "paused", "done"} : StatusRank(s) = StatusRank(t) => s = t
                  /\ \A p \in {"open", "passed"} : PhaseRank(p) \in 0..1
                  /\ \A p, q \in {"open", "passed"} : PhaseRank(p) = PhaseRank(q) => p = q
BY DEF StatusRank, PhaseRank

LEMMA ObservedIs ==
  ASSUME wruns \in [1..2 -> RunStates], NEW r \in 1..2
  PROVE  /\ Observation(r) \in Observations /\ Observation(r).run = r /\ Observation(r).status = wruns[r].status
         /\ Observation(r).phase = wruns[r].phase /\ Observation(r).ts = wruns[r].at
BY DEF Observation, Observations, RunStates

\* An observation that is known is one of its content.
LEMMA KnownIs ==
  ASSUME wruns \in [1..2 -> RunStates], archive \in Seq(Observations), NEW r \in 1..2, Known(Observation(r))
  PROVE  OnRecord(r)
<1> DEFINE o == Observation(r)
<1>1. o \in Observations /\ o.run = r /\ o.status = wruns[r].status /\ o.phase = wruns[r].phase
  BY ObservedIs
<1>2. Known(o)
  OBVIOUS
<1> HIDE DEF o
<1>3. PICK i \in DOMAIN archive : [archive[i] EXCEPT !.ts = o.ts] = o
  BY <1>2 DEF Known
<1> QED  BY <1>1, <1>3 DEF OnRecord, Observations

\* The run moves on: nothing in the archive is ahead of it.
LEMMA StampedKeeps ==
  ASSUME ArchiveInv, NEW r \in 1..2, NEW w \in RunStates, NEW t \in Nat, t >= clock, t <= w.at \/ t <= w.phaseAt,
         w.at <= t, w.phaseAt <= t, wruns[r].at <= w.at,
         StatusRank(wruns[r].status) <= StatusRank(w.status), PhaseRank(wruns[r].phase) <= PhaseRank(w.phase),
         Stamped([wruns EXCEPT ![r] = w], t)
  PROVE  ArchiveInv'
<1>1. /\ wruns \in [1..2 -> RunStates] /\ archive \in Seq(Observations)
      /\ clock \in Nat /\ watermark \in Nat /\ watermark <= clock
      /\ \A q \in 1..2 : wruns[q].at <= clock /\ wruns[q].phaseAt <= clock
  BY DEF ArchiveInv, ArchiveTypes
<1>2. /\ wruns' = [wruns EXCEPT ![r] = w] /\ clock' = (IF t > clock THEN t ELSE clock) /\ filed' = FALSE
      /\ archive' = archive /\ watermark' = watermark
  BY DEF Stamped
<1>3. wruns' \in [1..2 -> RunStates] /\ wruns'[r] = w /\ \A q \in 1..2 : q # r => wruns'[q] = wruns[q]
  BY <1>1, <1>2
<1>4. clock' = t
  BY <1>1, <1>2
<1>5. ArchiveTypes'
  <2>1. \A q \in 1..2 : wruns'[q].at <= t /\ wruns'[q].phaseAt <= t
    <3> TAKE q \in 1..2
    <3>1. CASE q = r
      BY <1>3, <3>1
    <3>2. CASE q # r  BY <1>1, <1>3, <3>2 DEF RunStates
    <3> QED
      BY <3>1, <3>2
  <2>2. watermark <= t
    BY <1>1
  <2> QED
    BY <1>1, <1>2, <1>3, <1>4, <2>1, <2>2 DEF ArchiveTypes
<1>6. InOrder'
  <2>1. \A i \in DOMAIN archive : archive[i] \in Observations /\ UpTo(archive[i], wruns[archive[i].run].at, wruns[archive[i].run].status, wruns[archive[i].run].phase)
    BY <1>1 DEF ArchiveInv, InOrder
  <2>2. \A i \in DOMAIN archive : UpTo(archive[i], wruns'[archive[i].run].at, wruns'[archive[i].run].status, wruns'[archive[i].run].phase)
    <3> TAKE i \in DOMAIN archive
    <3> DEFINE q == archive[i].run
    <3>2. UpTo(archive[i], wruns[q].at, wruns[q].status, wruns[q].phase)
      BY <2>1
    <3>3. CASE q # r  BY <1>3, <2>1, <3>2, <3>3 DEF Observations
    <3>4. CASE q = r
      <4>0. archive[i].run = r
        BY <3>4
      <4> HIDE DEF q
      <4>3. /\ w.at \in Nat /\ wruns[r].at \in Nat /\ w.status \in {"running", "paused", "done"}
            /\ wruns[r].status \in {"running", "paused", "done"}
            /\ w.phase \in {"open", "passed"} /\ wruns[r].phase \in {"open", "passed"}  BY <1>1 DEF RunStates
      <4>4. /\ StatusRank(archive[i].status) \in 0..2 /\ StatusRank(w.status) \in 0..2 /\ StatusRank(wruns[r].status) \in 0..2
            /\ PhaseRank(archive[i].phase) \in 0..1 /\ PhaseRank(w.phase) \in 0..1 /\ PhaseRank(wruns[r].phase) \in 0..1
        BY <2>1, <4>3, RanksAre DEF Observations
      <4>5. UpTo(archive[i], w.at, w.status, w.phase)  BY <3>2, <3>4, <2>1, <4>3, <4>4 DEF UpTo, Observations
      <4> QED
        BY <1>3, <4>0, <4>5
    <3> QED
      BY <3>3, <3>4
  <2> QED  BY <1>2, <2>2 DEF InOrder, ArchiveInv
<1>7. NothingMissed'
  <2>1. \A q \in 1..2 : OnRecord(q)' \/ ChangedSince(q)'
    <3> TAKE q \in 1..2
    <3>1. CASE q = r
      <4>1. w.at \in Nat /\ w.phaseAt \in Nat
        BY DEF RunStates
      <4> QED
        BY <1>1, <1>2, <1>3, <3>1, <4>1 DEF ChangedSince
    <3>2. CASE q # r  BY <1>2, <1>3, <3>2 DEF OnRecord, ChangedSince, ArchiveInv, NothingMissed
    <3> QED
      BY <3>1, <3>2
  <2> QED
    BY <1>2, <2>1 DEF NothingMissed
<1> QED
  BY <1>5, <1>6, <1>7 DEF ArchiveInv

\* The run after a move, and after the end of its phase.
Moved(w, s, t) == [w EXCEPT !.status = s, !.at = t]
PhaseDone(w, t) == [w EXCEPT !.phase = "passed", !.phaseAt = t]

LEMMA MovedIs ==
  ASSUME NEW w \in RunStates, NEW s \in {"running", "paused", "done"}, NEW t \in Nat
  PROVE  /\ Moved(w, s, t) \in RunStates /\ Moved(w, s, t).status = s /\ Moved(w, s, t).at = t
BY DEF Moved, RunStates

LEMMA PhaseDoneIs ==
  ASSUME NEW w \in RunStates, NEW t \in Nat
  PROVE  /\ PhaseDone(w, t) \in RunStates /\ PhaseDone(w, t).status = w.status /\ PhaseDone(w, t).at = w.at
         /\ PhaseDone(w, t).phase = "passed" /\ PhaseDone(w, t).phaseAt = t
BY DEF PhaseDone, RunStates

LEMMA StampsAre ==
  ASSUME clock \in Nat, Tardy = FALSE
  PROVE  \A t \in Stamps : t \in Nat /\ t >= clock
BY DEF Stamps

LEMMA RunStep ==
  ASSUME ArchiveInv, Tardy = FALSE, Reverts = FALSE, NEW r \in 1..2, RunMoves(r) \/ PhaseEnds(r)
  PROVE  ArchiveInv'
<1>1. /\ wruns \in [1..2 -> RunStates] /\ clock \in Nat /\ wruns[r] \in RunStates
      /\ wruns[r].at <= clock /\ wruns[r].phaseAt <= clock
  BY DEF ArchiveInv, ArchiveTypes
<1>2. wruns[r].at \in Nat /\ wruns[r].phaseAt \in Nat /\ wruns[r].status \in {"running", "paused", "done"}
      /\ wruns[r].phase \in {"open", "passed"}
  BY <1>1 DEF RunStates
<1>3. CASE RunMoves(r)
  <2>1. PICK s \in {"running", "paused", "done"}, t \in Stamps :
          (s # "running" \/ Reverts) /\ Stamped([wruns EXCEPT ![r].status = s, ![r].at = t], t)
    BY <1>3 DEF RunMoves
  <2>3. t \in Nat /\ t >= clock
    BY <1>1, StampsAre
  <2> DEFINE w == Moved(wruns[r], s, t)
  <2>4. w \in RunStates /\ w.status = s /\ w.at = t /\ w.phase = wruns[r].phase /\ w.phaseAt = wruns[r].phaseAt
    <3>2. wruns[r] \in RunStates /\ t \in Nat
      BY <1>1, <2>3
    <3>4. /\ Moved(wruns[r], s, t) \in RunStates /\ Moved(wruns[r], s, t).status = s
          /\ Moved(wruns[r], s, t).at = t  BY <2>1, <3>2, MovedIs
    <3> QED  BY <3>2, <3>4 DEF Moved, RunStates
  <2>5. [wruns EXCEPT ![r].status = s, ![r].at = t] = [wruns EXCEPT ![r] = w]
    BY <1>1 DEF Moved
  <2> HIDE DEF w
  <2>6. Stamped([wruns EXCEPT ![r] = w], t)
    BY <2>1, <2>5
  <2>8. PhaseRank(wruns[r].phase) <= PhaseRank(w.phase)
    BY <1>2, <2>4, RanksAre
  <2>9. t <= w.at /\ w.at <= t /\ w.phaseAt <= t /\ wruns[r].at <= w.at
    BY <1>1, <1>2, <2>3, <2>4
  <2>10. StatusRank(wruns[r].status) <= StatusRank(w.status)  BY <2>4, <1>2, <2>1, <1>3 DEF StatusRank, RunMoves
  <2> QED
    BY <2>3, <2>4, <2>6, <2>8, <2>9, <2>10, StampedKeeps
<1>4. CASE PhaseEnds(r)
  <2>1. PICK t \in Stamps : Stamped([wruns EXCEPT ![r].phase = "passed", ![r].phaseAt = t], t)
    BY <1>4 DEF PhaseEnds
  <2>3. t \in Nat /\ t >= clock
    BY <1>1, StampsAre
  <2> DEFINE w == PhaseDone(wruns[r], t)
  <2>4. w \in RunStates /\ w.status = wruns[r].status /\ w.at = wruns[r].at /\ w.phase = "passed" /\ w.phaseAt = t
    BY <1>1, <2>3, PhaseDoneIs
  <2>5. [wruns EXCEPT ![r].phase = "passed", ![r].phaseAt = t] = [wruns EXCEPT ![r] = w]
    BY <1>1 DEF PhaseDone
  <2> HIDE DEF w
  <2>6. Stamped([wruns EXCEPT ![r] = w], t)
    BY <2>1, <2>5
  <2>7. StatusRank(wruns[r].status) <= StatusRank(w.status)
    BY <1>2, <2>4, RanksAre
  <2>8. PhaseRank(wruns[r].phase) <= PhaseRank(w.phase)  BY <1>4, <2>4 DEF PhaseRank, PhaseEnds
  <2>9. t <= w.phaseAt /\ w.at <= t /\ w.phaseAt <= t /\ wruns[r].at <= w.at
    BY <1>1, <1>2, <2>3, <2>4
  <2> QED
    BY <2>3, <2>4, <2>6, <2>7, <2>8, <2>9, StampedKeeps
<1> QED
  BY <1>3, <1>4

LEMMA DeletedKeeps == ArchiveInv /\ ArchiveDeleted => ArchiveInv'
<1> SUFFICES ASSUME ArchiveInv, ArchiveDeleted PROVE ArchiveInv'
  OBVIOUS
<1>1. archive' = <<>> /\ watermark' = 0 /\ filed' = FALSE /\ wruns' = wruns /\ clock' = clock
  BY DEF ArchiveDeleted
<1>2. ArchiveTypes /\ wruns \in [1..2 -> RunStates]
  BY DEF ArchiveInv, ArchiveTypes
<1>3. ArchiveTypes' /\ InOrder'
  <2>1. archive' \in Seq(Observations) /\ DOMAIN archive' = {}
    BY <1>1
  <2>2. InOrder'
    BY <2>1 DEF InOrder
  <2>3. clock \in Nat /\ 0 <= clock /\ \A r \in 1..2 : wruns[r].at <= clock /\ wruns[r].phaseAt <= clock
    BY <1>2 DEF ArchiveTypes
  <2> QED
    BY <1>1, <1>2, <2>1, <2>2, <2>3 DEF ArchiveTypes
<1> QED  BY <1>3, <1>1, <1>2 DEF ArchiveInv, NothingMissed, ChangedSince, RunStates

\* The archive is in the order of the runs; it has what a run is now.
Ordered(a) ==
    /\ \A i \in DOMAIN a : UpTo(a[i], wruns[a[i].run].at, wruns[a[i].run].status, wruns[a[i].run].phase)
    /\ \A i, j \in DOMAIN a : i < j /\ a[i].run = a[j].run => UpTo(a[i], a[j].ts, a[j].status, a[j].phase)
Holds(a, r) == \E i \in DOMAIN a : a[i].run = r /\ a[i].status = wruns[r].status /\ a[i].phase = wruns[r].phase

LEMMA Inserted ==
  ASSUME wruns \in [1..2 -> RunStates], NEW a \in Seq(Observations), Ordered(a), NEW r \in 1..2, NEW n,
         n = <<>> \/ n = <<Observation(r)>>
  PROVE  /\ a \o n \in Seq(Observations) /\ Ordered(a \o n)
         /\ \A q \in 1..2 : Holds(a, q) => Holds(a \o n, q)
         /\ n = <<Observation(r)>> => Holds(a \o n, r)
<1>1. CASE n = <<>>  BY <1>1
<1>2. CASE n = <<Observation(r)>>
  <2> DEFINE o == Observation(r)
             c == Append(a, o)
  <2>1. /\ o \in Observations /\ o.run = r /\ o.status = wruns[r].status /\ o.phase = wruns[r].phase /\ o.ts = wruns[r].at
    BY ObservedIs
  <2> HIDE DEF o
  <2>2. a \o n = c
    BY <1>2 DEF o
  <2>3. c \in Seq(Observations) /\ Len(c) = Len(a) + 1 /\ Len(a) \in Nat /\ DOMAIN a = 1..Len(a) /\ DOMAIN c = 1..Len(c)
        /\ c[Len(c)] = o /\ \A i \in 1..Len(a) : c[i] = a[i]
    BY <2>1
  <2> HIDE DEF c
  <2>5. \A i \in DOMAIN a : i \in DOMAIN c /\ c[i] = a[i] /\ i < Len(c)
    BY <2>3
  <2>7. UpTo(o, wruns[r].at, wruns[r].status, wruns[r].phase)  BY <2>1, RanksAre DEF UpTo, RunStates
  <2>9. \A i, j \in DOMAIN c : i < j /\ c[i].run = c[j].run => UpTo(c[i], c[j].ts, c[j].status, c[j].phase)
    <3> SUFFICES ASSUME NEW i \in DOMAIN c, NEW j \in DOMAIN c, i < j, c[i].run = c[j].run
                 PROVE  UpTo(c[i], c[j].ts, c[j].status, c[j].phase)
      OBVIOUS
    <3>2. CASE j \in DOMAIN a  BY <2>5, <2>3, <3>2 DEF Ordered
    <3>3. CASE j = Len(c)
      <4>2. UpTo(a[i], wruns[r].at, wruns[r].status, wruns[r].phase)  BY <2>3, <2>1, <2>5, <3>3 DEF Ordered
      <4> QED  BY <2>1, <2>3, <2>5, <3>3, <4>2
    <3> QED  BY <2>3, <3>2, <3>3
  <2>10. Ordered(c)  BY <2>1, <2>3, <2>5, <2>7, <2>9 DEF Ordered
  <2>11. \A q \in 1..2 : Holds(a, q) => Holds(c, q)
    BY <2>5 DEF Holds
  <2>12. Holds(c, r)  BY <2>1, <2>3 DEF Holds
  <2> QED
    BY <2>2, <2>3, <2>10, <2>11, <2>12
<1> QED
  BY <1>1, <1>2

LEMMA OnceKeeps == ArchiveInv /\ ArchiveOnce => ArchiveInv'
<1> SUFFICES ASSUME ArchiveInv, ArchiveOnce PROVE ArchiveInv'
  OBVIOUS
<1>1. /\ wruns \in [1..2 -> RunStates] /\ archive \in Seq(Observations) /\ clock \in Nat /\ watermark \in Nat
      /\ watermark <= clock /\ \A r \in 1..2 : wruns[r].at <= clock /\ wruns[r].phaseAt <= clock
  BY DEF ArchiveInv, ArchiveTypes
<1> DEFINE touched == {r \in 1..2 : ChangedSince(r)}
           newest == {watermark} \cup {wruns[r].at : r \in touched} \cup {wruns[r].phaseAt : r \in touched}
<1>2. /\ archive' = archive \o News(1) \o News(2) /\ watermark' = Max(newest) /\ filed' = TRUE
      /\ wruns' = wruns /\ clock' = clock
  BY DEF ArchiveOnce
<1>3. watermark' \in Nat /\ watermark' <= clock
  <2>2. newest \in SUBSET Nat /\ \A x \in newest : x <= clock  BY <1>1 DEF RunStates
  <2>3. newest # {}
    OBVIOUS
  <2> HIDE DEF newest
  <2>4. Max(newest) \in newest
    BY <1>1, <2>2, <2>3, GreatestOf
  <2> QED
    BY <1>2, <2>2, <2>4
<1> DEFINE a == archive \o News(1)
           b == a \o News(2)
<1>6. /\ a \in Seq(Observations) /\ Ordered(a)
      /\ \A q \in 1..2 : Holds(archive, q) => Holds(a, q)
      /\ News(1) = <<Observation(1)>> => Holds(a, 1)
  BY <1>1, Inserted, 1 \in 1..2 DEF News, ArchiveInv, InOrder, Ordered
<1> HIDE DEF a
<1>7. /\ b \in Seq(Observations) /\ Ordered(b)
      /\ \A q \in 1..2 : Holds(a, q) => Holds(b, q)
      /\ News(2) = <<Observation(2)>> => Holds(b, 2)  BY <1>1, <1>6, Inserted, 2 \in 1..2 DEF News
<1>8. archive' = b
  BY <1>2 DEF a
<1> HIDE DEF b
<1>9. \A r \in 1..2 : Holds(b, r)
  <2> TAKE r \in 1..2
  <2>1. CASE OnRecord(r)
    BY <1>6, <1>7, <2>1 DEF OnRecord, Holds
  <2>2. CASE ~OnRecord(r)
    <3>3. News(r) = <<Observation(r)>>  BY <2>2, <1>1, KnownIs DEF News, ArchiveInv, NothingMissed
    <3> QED  BY <1>6, <1>7, <3>3
  <2> QED
    BY <2>1, <2>2
<1>11. InOrder'
  BY <1>2, <1>7, <1>8 DEF InOrder, Ordered
<1>12. NothingMissed'
  <2>1. \A r \in 1..2 : OnRecord(r)'
    <3> TAKE r \in 1..2
    <3>1. PICK i \in DOMAIN b : b[i].run = r /\ b[i].status = wruns[r].status /\ b[i].phase = wruns[r].phase
      BY <1>9 DEF Holds
    <3> QED  BY <1>8, <3>1, <1>2 DEF OnRecord
  <2> QED
    BY <2>1 DEF NothingMissed
<1> QED  BY <1>1, <1>2, <1>3, <1>7, <1>8, <1>11, <1>12 DEF ArchiveInv, ArchiveTypes

\* No write of whisper and no tick breaks the invariant of the archive.
LEMMA ArchiveStep ==
  ASSUME ArchiveInv, Tardy = FALSE, Reverts = FALSE, ArchiveNext \/ UNCHANGED archiveVars PROVE ArchiveInv'
<1>1. CASE UNCHANGED archiveVars
  BY <1>1 DEF archiveVars, ArchiveInv, ArchiveTypes, InOrder, NothingMissed, OnRecord, ChangedSince
<1>2. CASE ArchiveNext
  BY <1>2, RunStep, OnceKeeps, DeletedKeeps DEF ArchiveNext
<1> QED
  BY <1>1, <1>2

\* The latest observation of a run is the last one, and that is the run.
LEMMA ArchiveHolds == ArchiveInv => ArchiveCatchesUp
<1> SUFFICES ASSUME ArchiveInv, filed, NEW r \in 1..2
             PROVE  /\ \E i \in DOMAIN archive : archive[i].run = r
                    /\ Revision(r).status = wruns[r].status /\ Revision(r).phase = wruns[r].phase
  BY DEF ArchiveCatchesUp
<1>1. wruns \in [1..2 -> RunStates] /\ archive \in Seq(Observations) /\ Ordered(archive) /\ Holds(archive, r)
  BY DEF ArchiveInv, ArchiveTypes, InOrder, NothingMissed, OnRecord, Holds, Ordered
<1>2. PICK i \in DOMAIN archive : archive[i].run = r /\ archive[i].status = wruns[r].status /\ archive[i].phase = wruns[r].phase
  BY <1>1 DEF Holds
<1> DEFINE mine == {j \in DOMAIN archive : archive[j].run = r}
           latest == {j \in mine : \A k \in mine : archive[k].ts <= archive[j].ts}
           m == Max(mine)
<1>3. DOMAIN archive = 1..Len(archive) /\ Len(archive) \in Nat
  BY <1>1
<1>4. mine \in SUBSET Nat /\ mine # {} /\ i \in mine /\ \A j \in mine : j <= Len(archive)
  BY <1>2, <1>3
<1>5. m \in mine /\ \A j \in mine : j <= m
  <2> HIDE DEF mine
  <2> QED
    BY <1>3, <1>4, GreatestOf
<1>6. \A j \in mine : archive[j] \in Observations /\ archive[j].run = r /\ j \in DOMAIN archive
  BY <1>1
<1> HIDE DEF m
<1>8. \A j \in mine : /\ archive[j].ts <= archive[m].ts
                      /\ StatusRank(archive[j].status) <= StatusRank(archive[m].status)
                      /\ PhaseRank(archive[j].phase) <= PhaseRank(archive[m].phase)
  <2> TAKE j \in mine
  <2>1. CASE j = m  BY <1>6, <2>1, RanksAre DEF Observations
  <2>2. CASE j # m
    <3>2. UpTo(archive[j], archive[m].ts, archive[m].status, archive[m].phase)
      BY <1>1, <1>5, <1>6, <1>4, <2>2 DEF Ordered
    <3> QED
      BY <3>2 DEF UpTo
  <2> QED
    BY <2>1, <2>2
<1>9. m \in latest /\ latest \in SUBSET Nat /\ latest # {} /\ \A j \in latest : j <= m
  BY <1>4, <1>5, <1>8
<1>10. Max(latest) \in latest /\ \A j \in latest : j <= Max(latest)
  <2> HIDE DEF latest, mine
  <2> QED  BY <1>9, <1>4, <1>5, GreatestOf
<1>11. Max(latest) = m
  <2>1. Max(latest) \in Nat /\ m \in Nat /\ m <= Max(latest) /\ Max(latest) <= m
    BY <1>9, <1>10
  <2> QED
    BY <2>1
<1>14. StatusRank(archive[m].status) = StatusRank(wruns[r].status) /\ PhaseRank(archive[m].phase) = PhaseRank(wruns[r].phase)
  <2>2. /\ StatusRank(archive[m].status) <= StatusRank(wruns[r].status)
        /\ PhaseRank(archive[m].phase) <= PhaseRank(wruns[r].phase)  BY <1>1, <1>5, <1>6 DEF UpTo, Ordered
  <2>3. /\ StatusRank(archive[m].status) \in 0..2 /\ PhaseRank(archive[m].phase) \in 0..1
        /\ StatusRank(archive[i].status) \in 0..2 /\ PhaseRank(archive[i].phase) \in 0..1
    BY <1>4, <1>5, <1>6, RanksAre DEF Observations
  <2> QED  BY <1>2, <1>4, <1>8, <2>2, <2>3
<1>15. archive[m].status = wruns[r].status /\ archive[m].phase = wruns[r].phase
  BY <1>14, <1>2, <1>4, <1>5, <1>6, RanksAre DEF Observations
<1> QED  BY <1>2, <1>11, <1>15 DEF Revision

LEMMA ArchiveStarts == LensInit => ArchiveInv
<1> SUFFICES ASSUME LensInit PROVE ArchiveInv
  OBVIOUS
<1>1. /\ wruns = [r \in 1..2 |-> [status |-> "running", at |-> 1, phase |-> "open", phaseAt |-> 1]]
      /\ clock = 1 /\ archive = <<>> /\ watermark = 0 /\ filed = FALSE
  BY DEF LensInit
<1>3. wruns \in [1..2 -> RunStates]  BY <1>1 DEF RunStates
<1>6. ArchiveTypes
  <2>2. \A r \in 1..2 : wruns[r].at <= clock /\ wruns[r].phaseAt <= clock  BY <1>1
  <2>3. archive \in Seq(Observations)  BY <1>1
  <2>4. clock \in Nat /\ watermark \in Nat /\ watermark <= clock  BY <1>1
  <2>5. filed \in BOOLEAN  BY <1>1
  <2> QED
    BY <1>3, <2>2, <2>3, <2>4, <2>5 DEF ArchiveTypes
<1>8. NothingMissed  BY <1>1 DEF NothingMissed, ChangedSince
<1> QED  BY <1>6, <1>1, <1>8 DEF ArchiveInv, InOrder

-----------------------------------------------------------------------------
(* The log of the dots.                                                    *)

\* Files as the log keeps them.
Shelved(F, day, last) ==
    /\ F \in SUBSET LogFiles /\ IsFiniteSet(F) /\ (\A f \in F : f.day <= day)
    /\ FilesInOrder(F) /\ NoGap(F, last) /\ Linked(F)

LEMMA FileIs ==
  ASSUME NEW f \in LogFiles
  PROVE  /\ f.day \in Nat /\ f.roll \in Nat /\ f.rec \in LogRecords /\ f.rec.n \in Nat \ {0}
         /\ f.rec.before \in Dots \cup {NoDot} /\ f.rec.after \in Dots
BY DEF LogFiles, LogRecords

\* What is left when the oldest go.
LEMMA UpperKeeps ==
  ASSUME NEW F, NEW day \in Nat, NEW last \in Nat, Shelved(F, day, last), NEW U \in SUBSET F,
         \A f \in U : \A g \in F : f.rec.n <= g.rec.n => g \in U
  PROVE  Shelved(U, day, last)
<1>3. NoGap(U, last)
  <2> SUFFICES ASSUME NEW f \in U PROVE f.rec.n <= last /\ \A n \in f.rec.n..last : \E g \in U : g.rec.n = n
    BY DEF NoGap
  <2>2. \A n \in f.rec.n..last : \E g \in U : g.rec.n = n
    <3> TAKE n \in f.rec.n..last
    <3>1. PICK g \in F : g.rec.n = n  BY DEF Shelved, NoGap
    <3> QED  BY <3>1
  <2> QED  BY <2>2 DEF Shelved, NoGap
<1> QED  BY FS_Subset, <1>3 DEF Shelved, FilesInOrder, Linked

\* A nonempty set of files has an oldest one.
LEMMA OldestFile ==
  ASSUME NEW F \in SUBSET LogFiles, F # {}
  PROVE  \E f \in F : \A g \in F : f.rec.n <= g.rec.n
<1> DEFINE N == {f.rec.n : f \in F}
<1>1. N \in SUBSET Nat /\ N # {}  BY FileIs
<1>2. Min(N) \in N /\ \A y \in N : Min(N) <= y
  <2> HIDE DEF N
  <2> QED
    BY <1>1, LeastOf
<1>3. PICK f \in F : f.rec.n = Min(N)
  BY <1>2
<1> QED
  BY <1>2, <1>3

LEMMA WithinIs ==
  ASSUME NEW F, NEW day \in Nat, NEW last \in Nat, Shelved(F, day, last)
  PROVE  Shelved(Within(F), day, last) /\ Cardinality(Within(F)) <= Budget /\ Within(F) \in SUBSET F
<1> DEFINE After(f) == {g \in F : ~Older(g, f)}
           W == Within(F)
<1>1. W = {f \in F : Cardinality(After(f)) <= Budget}
  BY DEF Within
<1>2. F \in SUBSET LogFiles /\ IsFiniteSet(F) /\ \A f, g \in F : Older(f, g) <=> f.rec.n < g.rec.n
  BY DEF Shelved, FilesInOrder
<1>4. \A f, g \in F : f.rec.n <= g.rec.n => After(g) \in SUBSET After(f)
  <2> SUFFICES ASSUME NEW f \in F, NEW g \in F, f.rec.n <= g.rec.n, NEW h \in After(g) PROVE h \in After(f)
    OBVIOUS
  <2>2. ~(h.rec.n < f.rec.n)  BY <1>2, FileIs
  <2> QED  BY <1>2, <2>2
<1>5. \A f \in F : IsFiniteSet(After(f)) /\ Cardinality(After(f)) \in Nat
  <2> TAKE f \in F
  <2>1. After(f) \in SUBSET F
    OBVIOUS
  <2> HIDE DEF After
  <2> QED  BY <1>2, <2>1, FS_Subset, FS_CardinalityType
<1> HIDE DEF After
<1>7. \A f \in W : \A g \in F : f.rec.n <= g.rec.n => g \in W
  <2> SUFFICES ASSUME NEW f \in W, NEW g \in F, f.rec.n <= g.rec.n PROVE g \in W
    OBVIOUS
  <2> QED  BY <1>1, <1>5, <1>4, FS_Subset, BudgetAssumption
<1> HIDE DEF W
<1>10. Cardinality(W) <= Budget
  <2>1. CASE W = {}
    BY <2>1, FS_EmptySet, BudgetAssumption
  <2>2. CASE W # {}
    <3>2. PICK f \in W : \A g \in W : f.rec.n <= g.rec.n  BY <2>2, <1>2, <1>1, OldestFile
    <3>3. f \in F /\ Cardinality(After(f)) <= Budget
      BY <1>1
    <3>4. W \in SUBSET After(f)
      <4> SUFFICES ASSUME NEW g \in W PROVE g \in After(f)
        OBVIOUS
      <4>1. g \in F /\ f.rec.n <= g.rec.n  BY <1>1, <3>2
      <4> QED  BY <1>2, <3>3, <4>1, FileIs DEF After
    <3>5. Cardinality(W) <= Cardinality(After(f)) /\ IsFiniteSet(W)
      BY <1>5, <3>3, <3>4, FS_Subset
    <3>6. Cardinality(W) \in Nat
      BY <3>5, FS_CardinalityType
    <3> QED
      BY <1>5, <3>3, <3>5, <3>6, BudgetAssumption
  <2> QED
    BY <2>1, <2>2
<1> QED  BY <1>1, <1>7, UpperKeeps, <1>10 DEF W

LEMMA RecentIs ==
  ASSUME NEW F, NEW day \in Nat, NEW last \in Nat, Shelved(F, day, last)
  PROVE  Shelved({f \in F : f.day + 1 >= day}, day, last)
<1> DEFINE U == {f \in F : f.day + 1 >= day}
<1>1. \A f \in U : \A g \in F : f.rec.n <= g.rec.n => g \in U
  <2> SUFFICES ASSUME NEW f \in U, NEW g \in F, f.rec.n <= g.rec.n PROVE g.day + 1 >= day
    OBVIOUS
  <2>3. f = g \/ Older(f, g)  BY FileIs DEF Shelved, FilesInOrder
  <2> QED  BY FileIs, <2>3 DEF Older, Shelved, FilesInOrder
<1>2. U \in SUBSET F
  OBVIOUS
<1> HIDE DEF U
<1> QED  BY <1>1, <1>2, UpperKeeps DEF U

\* There is a number that is free.
LEMMA FreeRollIs ==
  ASSUME log.files \in SUBSET LogFiles, IsFiniteSet(log.files)
  PROVE  FreeRoll \in Nat \ {0} /\ FreeRoll \notin Rolls
<1> DEFINE c == Cardinality(log.files) + 1
           T == (1..c) \ Rolls
<1>1. Cardinality(log.files) \in Nat
  BY FS_CardinalityType
<1>2. T # {}
  <2> SUFFICES ASSUME T = {} PROVE FALSE
    OBVIOUS
  <2> DEFINE h == [k \in 1..c |-> CHOOSE f \in log.files : f.roll = k]
  <2>2. \A k \in 1..c : h[k] \in log.files /\ h[k].roll = k  BY <1>1 DEF Rolls
  <2>3. h \in [1..c -> log.files]
    BY <2>2
  <2> HIDE DEF h
  <2>5. Cardinality(log.files) < Cardinality(1..c)  BY <1>1, FS_Interval
  <2>6. \E x, y \in 1..c : x # y /\ h[x] = h[y]
    <3> DEFINE S == 1..c
               G == log.files
    <3>1. IsFiniteSet(S) /\ IsFiniteSet(G) /\ Cardinality(G) < Cardinality(S) /\ h \in [S -> G]
      BY <2>3, <1>1, FS_Interval, <2>5
    <3> HIDE DEF S, G
    <3>2. \E x, y \in S : x # y /\ h[x] = h[y]
      BY <3>1, FS_PigeonHole
    <3> QED
      BY <3>2 DEF S
  <2> QED
    BY <2>2, <2>6
<1>3. T \in SUBSET Nat
  BY <1>1
<1>5. Min(T) \in T
  <2> HIDE DEF T
  <2> QED
    BY <1>2, <1>3, LeastOf
<1> QED  BY <1>1, <1>5 DEF FreeRoll

\* The file that is written to is the last one.
LEMMA BaseIs ==
  ASSUME log.files \in SUBSET LogFiles, FilesInOrder(log.files), \A f \in log.files : f.day <= log.day,
         NEW b \in Base
  PROVE  /\ b \in log.files /\ b.day = log.day /\ b.roll = 0 /\ Base = {b}
         /\ \A g \in log.files \ {b} : /\ Older(g, b) /\ g.rec.n < b.rec.n
                                       /\ g.day < log.day \/ (g.day = log.day /\ g.roll # 0)
<1>1. b \in log.files /\ b.day = log.day /\ b.roll = 0
  BY DEF Base
<1>3. \A g \in Base : g = b
  <2> TAKE g \in Base
  <2>1. g \in log.files /\ g.day = b.day /\ g.roll = 0
    BY <1>1 DEF Base
  <2>3. ~(g.rec.n < b.rec.n) /\ ~(b.rec.n < g.rec.n)  BY <1>1, <2>1, FileIs DEF FilesInOrder, Older
  <2> QED  BY <1>1, <2>1, FileIs, <2>3 DEF FilesInOrder
<1>4. \A g \in log.files \ {b} : /\ Older(g, b) /\ g.rec.n < b.rec.n
                                 /\ g.day < log.day \/ (g.day = log.day /\ g.roll # 0)
  <2> TAKE g \in log.files \ {b}
  <2>1. g \in log.files /\ g \notin Base
    BY <1>3
  <2>2. g.day \in Nat /\ g.day <= log.day /\ b.day \in Nat  BY <1>1, FileIs, <2>1
  <2>4. Older(g, b)  BY <1>1, <2>1, <2>2 DEF Older, Base
  <2>5. g.rec.n < b.rec.n
    BY <1>1, <2>1, <2>4 DEF FilesInOrder
  <2> QED  BY <1>1, <2>1, <2>2, <2>4, <2>5 DEF Base
<1> QED
  BY <1>1, <1>3, <1>4

LEMMA LogInvIs ==
  ASSUME LogInv
  PROVE  /\ Shelved(log.files, log.day, log.written)
         /\ log.files \in SUBSET LogFiles /\ IsFiniteSet(log.files)
         /\ log.day \in Nat /\ log.written \in Nat /\ log.prev \in Dots \cup {NoDot} /\ log.disabled \in BOOLEAN
         /\ Cardinality(log.files) \in Nat
         /\ FilesInOrder(log.files) /\ \A f \in log.files : f.day <= log.day
BY FS_CardinalityType DEF LogInv, LogTypes, Shelved

\* The full file with its number.
Renamed(b) == [b EXCEPT !.roll = FreeRoll]

LEMMA RenamedIs ==
  ASSUME NEW b \in LogFiles, FreeRoll \in Nat
  PROVE  /\ Renamed(b) \in LogFiles /\ Renamed(b).day = b.day /\ Renamed(b).rec = b.rec
         /\ Renamed(b).roll = FreeRoll
BY DEF Renamed, LogFiles

\* The full file is renamed, then the oldest go.
LEMMA RenamedKeeps ==
  ASSUME LogInv, NEW b \in Base, \A k \in Rolls : k < FreeRoll
  PROVE  LET R == (log.files \ Base) \cup {[f EXCEPT !.roll = FreeRoll] : f \in Base}
         IN  /\ Shelved(R, log.day, log.written)
             /\ \A f \in R : f.day = log.day => f.roll # 0
             /\ \A f \in R : \E g \in log.files : g.rec = f.rec
<1>1. /\ Shelved(log.files, log.day, log.written) /\ log.files \in SUBSET LogFiles /\ IsFiniteSet(log.files)
      /\ FilesInOrder(log.files) /\ \A f \in log.files : f.day <= log.day
  BY LogInvIs
<1>2. FreeRoll \in Nat \ {0} /\ FreeRoll \notin Rolls
  BY <1>1, FreeRollIs
<1>3. /\ b \in log.files /\ b.day = log.day /\ b.roll = 0 /\ Base = {b}
      /\ \A g \in log.files \ {b} : /\ Older(g, b) /\ g.rec.n < b.rec.n
                                    /\ g.day < log.day \/ (g.day = log.day /\ g.roll # 0)
  BY <1>1, BaseIs
<1> DEFINE b2 == Renamed(b)
           R == (log.files \ {b}) \cup {b2}
<1>4. b2 \in LogFiles /\ b2.day = log.day /\ b2.rec = b.rec /\ b2.roll = FreeRoll
  BY <1>1, <1>2, <1>3, RenamedIs
<1>5. R = (log.files \ Base) \cup {[f EXCEPT !.roll = FreeRoll] : f \in Base}
  BY <1>3 DEF Renamed
<1> HIDE DEF b2
<1>6. R \in SUBSET LogFiles /\ IsFiniteSet(R)
  <2>1. IsFiniteSet(log.files \ {b})
    BY <1>1, FS_RemoveElement
  <2> QED
    BY <1>1, <1>4, <2>1, FS_AddElement
<1>7. /\ \A f \in R : \E g \in log.files : g.rec = f.rec
      /\ \A g \in log.files : \E f \in R : g.rec = f.rec
  BY <1>3, <1>4
<1>8. \A f \in R : f.day <= log.day /\ (f.day = log.day => f.roll # 0)
  <2> TAKE f \in R
  <2>1. CASE f = b2  BY <1>2, <1>4, <2>1, LogInvIs
  <2>2. CASE f \in log.files \ {b}  BY <1>1, <1>3, <2>2, FileIs, LogInvIs
  <2> QED
    BY <2>1, <2>2
<1>9. \A g \in log.files \ {b} : g.rec.n < b2.rec.n /\ Older(g, b2) /\ ~Older(b2, g) /\ g.rec.n \in Nat /\ b2.rec.n \in Nat
  <2> TAKE g \in log.files \ {b}
  <2>2. g.day = log.day => g.roll < FreeRoll /\ g.roll # 0
    <3>1. g.day = log.day => g.roll \in Rolls
      BY DEF Rolls
    <3> QED  BY <1>3, <1>1, <1>4, FileIs, LogInvIs, <3>1
  <2>3. Older(g, b2) /\ ~Older(b2, g)  BY <1>2, <1>3, <1>4, <1>1, FileIs, LogInvIs, <2>2 DEF Older
  <2> QED  BY <1>3, <1>4, <1>1, FileIs, LogInvIs, <2>3
<1>10. FilesInOrder(R)
  <2> SUFFICES ASSUME NEW f \in R, NEW g \in R
               PROVE  (f.rec.n = g.rec.n => f = g) /\ (Older(f, g) <=> f.rec.n < g.rec.n)
    BY DEF FilesInOrder
  <2>1. CASE f # b2 /\ g # b2
    BY <1>1, <2>1 DEF FilesInOrder
  <2>2. CASE f # b2 /\ g = b2
    BY <1>9, <2>2
  <2>3. CASE f = b2 /\ g # b2
    BY <1>9, <2>3
  <2>4. CASE f = b2 /\ g = b2  BY <2>4, <1>2, <1>4, FileIs DEF Older
  <2> QED
    BY <2>1, <2>2, <2>3, <2>4
<1> HIDE DEF R
<1>11. NoGap(R, log.written)  BY <1>7, <1>1 DEF NoGap, Shelved
<1>12. Linked(R)
  <2> SUFFICES ASSUME NEW f \in R, NEW g \in R, g.rec.n = f.rec.n + 1
               PROVE  g.rec.before \in {f.rec.after, NoDot}
    BY DEF Linked
  <2>2. PICK f1 \in log.files, g1 \in log.files : f1.rec = f.rec /\ g1.rec = g.rec
    BY <1>7
  <2> QED  BY <2>2, <1>1 DEF Linked, Shelved
<1>13. Shelved(R, log.day, log.written)
  BY <1>6, <1>8, <1>10, <1>11, <1>12 DEF Shelved
<1> QED
  BY <1>5, <1>7, <1>8, <1>13

LEMMA RolledKeeps ==
  ASSUME LogInv, Base = {} \/ \A k \in Rolls : k < FreeRoll
  PROVE  /\ Shelved(RolledOver, log.day, log.written)
         /\ \A f \in RolledOver : f.day = log.day => f.roll # 0
         /\ \A f \in RolledOver : \E g \in log.files : g.rec = f.rec
         /\ Base # {} => Cardinality(RolledOver) <= Budget
         /\ Base = {} => RolledOver = log.files
<1>1. CASE Base = {}  BY <1>1, LogInvIs DEF RolledOver, Base
<1>2. CASE Base # {}
  <2>1. PICK b \in Base : TRUE
    BY <1>2
  <2> DEFINE R == (log.files \ Base) \cup {[f EXCEPT !.roll = FreeRoll] : f \in Base}
  <2>2. /\ Shelved(R, log.day, log.written)
        /\ \A f \in R : f.day = log.day => f.roll # 0
        /\ \A f \in R : \E g \in log.files : g.rec = f.rec
    BY <1>2, <2>1, RenamedKeeps
  <2>3. RolledOver = Within(R)
    BY <1>2 DEF RolledOver
  <2> HIDE DEF R
  <2>4. Shelved(Within(R), log.day, log.written) /\ Cardinality(Within(R)) <= Budget /\ Within(R) \in SUBSET R
    BY <2>2, WithinIs, LogInvIs
  <2> QED
    BY <1>2, <2>2, <2>3, <2>4
<1> QED
  BY <1>1, <1>2

\* The days of the files are few.
LEMMA DaysAre ==
  ASSUME NEW F \in SUBSET LogFiles, NEW day \in Nat, \A f \in F : f.day <= day
  PROVE  /\ IsFiniteSet({f.day : f \in F}) /\ Cardinality({f.day : f \in F}) \in Nat
         /\ F # {} => Cardinality({f.day : f \in F}) >= 1
<1> DEFINE D == {f.day : f \in F}
<1>1. D \in SUBSET (0..day)  BY FileIs
<1> HIDE DEF D
<1>3. IsFiniteSet(D)  BY <1>1, FS_BoundedSetOfNaturals
<1>5. D # {} => Cardinality(D) # 0
  BY <1>3, FS_EmptySet
<1> QED  BY <1>3, FS_CardinalityType, <1>5 DEF D

\* A new record on top of the others.
LEMMA AddedKeeps ==
  ASSUME NEW F, NEW day \in Nat, NEW last \in Nat, Shelved(F, day, last),
         \A f \in F : f.day = day => f.roll # 0,
         NEW d \in Dots, NEW p \in Dots \cup {NoDot},
         \A f \in F : f.rec.n = last => p \in {f.rec.after, NoDot}
  PROVE  LET x == [day |-> day, roll |-> 0, rec |-> [n |-> last + 1, before |-> p, after |-> d]]
         IN  /\ Shelved(F \cup {x}, day, last + 1)
             /\ \A f \in F \cup {x} : f.rec.n = last + 1 => f.rec.after = d
             /\ x \notin F
<1> DEFINE x == [day |-> day, roll |-> 0, rec |-> [n |-> last + 1, before |-> p, after |-> d]]
           G == F \cup {x}
<1>1. F \in SUBSET LogFiles /\ IsFiniteSet(F) /\ FilesInOrder(F) /\ NoGap(F, last) /\ Linked(F)
      /\ \A f \in F : f.day <= day
  BY DEF Shelved
<1>2. x \in LogFiles /\ x.day = day /\ x.roll = 0 /\ x.rec.n = last + 1 /\ x.rec.before = p /\ x.rec.after = d
  BY DEF LogFiles, LogRecords
<1> HIDE DEF x
<1>3. \A f \in F : f.day \in Nat /\ f.roll \in Nat /\ f.rec.n \in Nat \ {0} /\ f.rec.n <= last /\ f.rec.n # last + 1 /\ f.rec.n < last + 1
  <2> TAKE f \in F
  <2> QED  BY <1>1, FileIs DEF NoGap
<1>6. \A f \in F : Older(f, x) /\ ~Older(x, f)
  BY <1>1, <1>2, <1>3 DEF Older
<1>8. FilesInOrder(G)
  <2> SUFFICES ASSUME NEW f \in G, NEW g \in G
               PROVE  (f.rec.n = g.rec.n => f = g) /\ (Older(f, g) <=> f.rec.n < g.rec.n)
    BY DEF FilesInOrder
  <2>1. CASE f \in F /\ g \in F
    BY <1>1, <2>1 DEF FilesInOrder
  <2>2. CASE f \in F /\ g = x
    BY <1>2, <1>3, <1>6, <2>2
  <2>3. CASE f = x /\ g \in F
    <3>1. ~(x.rec.n < g.rec.n)
      BY <1>2, <1>3, <2>3
    <3> QED
      BY <1>2, <1>3, <1>6, <2>3, <3>1
  <2>4. CASE f = x /\ g = x  BY <1>2, <2>4 DEF Older
  <2> QED
    BY <2>1, <2>2, <2>3, <2>4
<1>9. NoGap(G, last + 1)
  <2> SUFFICES ASSUME NEW f \in G PROVE f.rec.n <= last + 1 /\ \A n \in f.rec.n..(last + 1) : \E g \in G : g.rec.n = n
    BY DEF NoGap
  <2>2. \A n \in f.rec.n..(last + 1) : \E g \in G : g.rec.n = n
    <3> TAKE n \in f.rec.n..(last + 1)
    <3>1. CASE n = last + 1
      BY <1>2, <3>1
    <3>2. CASE n # last + 1  BY <1>1, <1>2, <1>3, <3>2 DEF NoGap
    <3> QED
      BY <3>1, <3>2
  <2> QED  BY <1>2, <1>3, <2>2
<1>10. Linked(G)
  <2> SUFFICES ASSUME NEW f \in G, NEW g \in G, g.rec.n = f.rec.n + 1
               PROVE  g.rec.before \in {f.rec.after, NoDot}
    BY DEF Linked
  <2>2. CASE g \in F  BY <1>1, <1>2, <1>3, <2>2 DEF Linked
  <2>3. CASE g = x  BY <1>2, <1>3, <2>3
  <2> QED
    BY <2>2, <2>3
<1>12. Shelved(G, day, last + 1)  BY <1>1, <1>2, FS_AddElement, <1>8, <1>9, <1>10 DEF Shelved
<1> QED  BY <1>2, <1>3, <1>12 DEF x

\* The log after another dot, with what is kept of its files.
Written(l, d, files) == [l EXCEPT !.dot = d, !.prev = d, !.written = @ + 1, !.files = files]
GivenUp(l, d, files) == [l EXCEPT !.dot = d, !.prev = d, !.disabled = TRUE, !.files = files]
Reopened(l, files) == [l EXCEPT !.files = files, !.prev = NoDot, !.disabled = FALSE]
Logs == [files : SUBSET LogFiles, day : Nat, prev : Dots \cup {NoDot}, dot : Dots, written : Nat,
         disabled : BOOLEAN]

LEMMA WrittenIs ==
  ASSUME NEW l \in Logs, NEW d \in Dots, NEW F \in SUBSET LogFiles
  PROVE  /\ Written(l, d, F) \in Logs /\ Written(l, d, F).files = F /\ Written(l, d, F).day = l.day
         /\ Written(l, d, F).prev = d /\ Written(l, d, F).written = l.written + 1
         /\ Written(l, d, F).disabled = l.disabled
<1> DEFINE k == l.written + 1
           m == [l EXCEPT !.dot = d, !.prev = d, !.written = k, !.files = F]
<1>1. k \in Nat
  BY DEF Logs
<1> HIDE DEF k
<1>5. m \in Logs  BY <1>1 DEF Logs
<1> QED  BY <1>5 DEF k, Written, Logs

LEMMA GivenUpIs ==
  ASSUME NEW l \in Logs, NEW d \in Dots, NEW F \in SUBSET LogFiles
  PROVE  /\ GivenUp(l, d, F) \in Logs /\ GivenUp(l, d, F).files = F /\ GivenUp(l, d, F).day = l.day
         /\ GivenUp(l, d, F).prev = d /\ GivenUp(l, d, F).written = l.written
         /\ GivenUp(l, d, F).disabled = TRUE
<1> QED  BY DEF GivenUp, Logs

LEMMA ReopenedIs ==
  ASSUME NEW l \in Logs, NEW F \in SUBSET LogFiles
  PROVE  /\ Reopened(l, F) \in Logs /\ Reopened(l, F).files = F /\ Reopened(l, F).day = l.day
         /\ Reopened(l, F).prev = NoDot /\ Reopened(l, F).written = l.written
<1> QED  BY DEF Reopened, Logs


LEMMA DotRecorded ==
  ASSUME LogInv, Base = {} \/ \A k \in Rolls : k < FreeRoll, NEW d \in Dots, ~log.disabled,
         log' = Written(log, d, RolledOver \cup
                  {[day |-> log.day, roll |-> 0, rec |-> [n |-> log.written + 1, before |-> log.prev, after |-> d]]})
  PROVE  LogInv'
<1> DEFINE x == [day |-> log.day, roll |-> 0, rec |-> [n |-> log.written + 1, before |-> log.prev, after |-> d]]
           R == RolledOver
           F == R \cup {x}
<1>1. /\ log.day \in Nat /\ log.written \in Nat /\ log.prev \in Dots \cup {NoDot} /\ log \in Logs
      /\ Cardinality(log.files) \in Nat
  BY LogInvIs DEF LogInv, LogTypes, Logs
<1>2. /\ Shelved(R, log.day, log.written)
      /\ \A f \in R : f.day = log.day => f.roll # 0
      /\ \A f \in R : \E g \in log.files : g.rec = f.rec
      /\ Base # {} => Cardinality(R) <= Budget
      /\ Base = {} => R = log.files
  BY RolledKeeps
<1>3. \A f \in R : f.rec.n = log.written => log.prev \in {f.rec.after, NoDot}
  <2> SUFFICES ASSUME NEW f \in R, f.rec.n = log.written PROVE log.prev \in {f.rec.after, NoDot}
    OBVIOUS
  <2>1. PICK g \in log.files : g.rec = f.rec
    BY <1>2
  <2> QED  BY <2>1 DEF LastLinks, LogInv
<1> HIDE DEF R
<1>4. /\ Shelved(F, log.day, log.written + 1)
      /\ \A f \in F : f.rec.n = log.written + 1 => f.rec.after = d
      /\ x \notin R
  BY <1>1, <1>2, <1>3, AddedKeeps
<1>5. x.day = log.day /\ x.roll = 0 /\ x \in F
  OBVIOUS
<1> HIDE DEF x
<1>6. F \in SUBSET LogFiles /\ IsFiniteSet(R) /\ R \in SUBSET LogFiles /\ (\A f \in F : f.day <= log.day)
  BY <1>2, <1>4 DEF Shelved
<1>7. Cardinality(F) = Cardinality(R) + 1 /\ Cardinality(R) \in Nat
  BY <1>4, <1>6, FS_AddElement, FS_CardinalityType
<1>8. log' = Written(log, d, F)
  BY DEF R, x
<1> HIDE DEF F
<1>9. log' \in Logs /\ log'.files = F /\ log'.day = log.day /\ log'.prev = d /\ log'.written = log.written + 1
      /\ log'.disabled = log.disabled
  BY <1>1, <1>6, <1>8, WrittenIs
<1>10. Cardinality(F) <= Budget + Cardinality({f.day : f \in F})
  <2> DEFINE D == {f.day : f \in F}
             C == {f.day : f \in log.files}
  <2>1. Cardinality(D) \in Nat /\ Cardinality(D) >= 1 /\ IsFiniteSet(D)  BY <1>1, <1>6, <1>5, DaysAre
  <2>2. CASE Base # {}
    BY <1>2, <1>7, <2>1, <2>2, BudgetAssumption
  <2>3. CASE Base = {} /\ \E f \in log.files : f.day = log.day
    BY <1>7, <2>1, <1>2, <2>3, BudgetAssumption DEF LogInv, LogWithin
  <2>4. CASE Base = {} /\ ~\E f \in log.files : f.day = log.day
    <3>1. R = log.files
      BY <1>2, <2>4
    <3>2. Cardinality(R) <= Budget + Cardinality(C)
      BY <3>1 DEF LogInv, LogWithin
    <3>3. IsFiniteSet(C) /\ Cardinality(C) \in Nat
      BY <1>1, <1>6, <3>1, DaysAre, LogInvIs
    <3>4. D = C \cup {log.day}
      BY <1>5, <3>1 DEF F
    <3>5. log.day \notin C
      BY <2>4
    <3> HIDE DEF C, D
    <3>6. Cardinality(D) = Cardinality(C) + 1
      BY <3>3, <3>4, <3>5, FS_AddElement
    <3>7. Cardinality(F) <= Budget + Cardinality(D)
      BY <1>7, <3>1, <3>2, <3>3, <3>6, BudgetAssumption
    <3> QED
      BY <3>7 DEF D
  <2> QED
    BY <2>2, <2>3, <2>4
<1>11. LogWithin'  BY <1>9, <1>10, <1>5 DEF LogWithin, Base
<1> QED  BY <1>9, <1>11, <1>4 DEF LogInv, LogTypes, Logs, Shelved, LastLinks

LEMMA DotLost ==
  ASSUME LogInv, Base = {} \/ \A k \in Rolls : k < FreeRoll, NEW d \in Dots,
         NEW F, F = log.files \/ F = RolledOver, log' = GivenUp(log, d, F)
  PROVE  LogInv'
<1>1. log.day \in Nat /\ log.written \in Nat /\ log \in Logs
  BY LogInvIs DEF LogInv, LogTypes, Logs
<1>2. Shelved(F, log.day, log.written) /\ Cardinality(F) <= Budget + Cardinality({f.day : f \in F})
  <2>1. CASE F = log.files
    BY <2>1, LogInvIs DEF LogInv, LogWithin
  <2>2. CASE F = RolledOver /\ F # log.files
    <3> DEFINE D == {f.day : f \in F}
    <3>3. Cardinality(F) \in Nat /\ Cardinality(D) \in Nat
      BY <1>1, <2>2, RolledKeeps, FS_CardinalityType, DaysAre DEF Shelved
    <3> HIDE DEF D
    <3> QED  BY <2>2, RolledKeeps, <3>3, BudgetAssumption DEF D
  <2> QED
    BY <2>1, <2>2
<1>3. F \in SUBSET LogFiles
  BY <1>2 DEF Shelved
<1>4. log' \in Logs /\ log'.files = F /\ log'.day = log.day /\ log'.prev = d /\ log'.written = log.written
      /\ log'.disabled = TRUE
  BY ZenonT(60), <1>1, <1>3, GivenUpIs
<1> QED  BY <1>4, <1>2 DEF LogInv, LogTypes, Logs, Shelved, LogWithin, LastLinks

LEMMA DotMovesKeeps ==
  ASSUME LogInv, Reuses = FALSE, DotMoves PROVE LogInv'
<1>2. PICK d \in Dots :
         \/ /\ ~log.disabled
            /\ log' = [log EXCEPT !.dot = d, !.prev = d, !.written = @ + 1,
                                  !.files = RolledOver \cup
                                    {[day |-> log.day, roll |-> 0,
                                      rec |-> [n |-> log.written + 1, before |-> log.prev,
                                               after |-> d]]}]
         \/ \E kept \in {log.files, IF log.disabled THEN log.files ELSE RolledOver} :
              log' = [log EXCEPT !.dot = d, !.prev = d, !.disabled = TRUE, !.files = kept]
  BY DEF DotMoves, Dots
<1>3. CASE /\ ~log.disabled
           /\ log' = [log EXCEPT !.dot = d, !.prev = d, !.written = @ + 1,
                                 !.files = RolledOver \cup
                                   {[day |-> log.day, roll |-> 0,
                                     rec |-> [n |-> log.written + 1, before |-> log.prev,
                                              after |-> d]]}]  BY <1>3, DotRecorded DEF Written, DotMoves
<1>4. CASE \E kept \in {log.files, IF log.disabled THEN log.files ELSE RolledOver} :
              log' = [log EXCEPT !.dot = d, !.prev = d, !.disabled = TRUE, !.files = kept]
  <2>1. PICK F : (F = log.files \/ F = RolledOver) /\ log' = [log EXCEPT !.dot = d, !.prev = d, !.disabled = TRUE, !.files = F]
    BY <1>4
  <2> QED  BY <2>1, DotLost DEF DotMoves, GivenUp
<1> QED
  BY <1>2, <1>3, <1>4

LEMMA NextDayKeeps == LogInv /\ NextDay => LogInv'
<1> SUFFICES ASSUME LogInv, NextDay PROVE LogInv'
  OBVIOUS
<1>4. \A f \in log.files : f.day \in Nat /\ f.day <= log.day /\ f.day <= log.day + 1 /\ f.day # log.day + 1
  <2> TAKE f \in log.files
  <2>2. f.day \in Nat  BY LogInvIs, FileIs DEF Shelved
  <2> QED  BY LogInvIs, <2>2 DEF Shelved
<1>5. Shelved(log.files, log.day, log.written)'  BY LogInvIs, <1>4 DEF Shelved, Logs, NextDay, LogInv, LogTypes
<1>7. LastLinks'  BY DEF LastLinks, LogInv, Logs, NextDay, LogTypes
<1> QED  BY <1>5, <1>4, <1>7 DEF LogInv, LogTypes, Logs, Shelved, LogWithin, NextDay

LEMMA LogReopensKeeps == LogInv /\ LogReopens => LogInv'
<1> SUFFICES ASSUME LogInv, LogReopens PROVE LogInv'
  OBVIOUS
<1> DEFINE U == {f \in log.files : f.day + 1 >= log.day}
           F == Within(U)
<1>1. log' = Reopened(log, F) /\ log \in Logs
  BY DEF LogReopens, LogInv, LogTypes, Logs, Reopened
<1>3. Shelved(U, log.day, log.written)  BY LogInvIs, RecentIs
<1> HIDE DEF U
<1>4. Shelved(F, log.day, log.written) /\ Cardinality(F) <= Budget  BY LogInvIs, <1>3, WithinIs
<1> HIDE DEF F
<1>6. log' \in Logs /\ log'.files = F /\ log'.day = log.day /\ log'.prev = NoDot /\ log'.written = log.written
  BY <1>1, <1>4, ReopenedIs DEF Shelved
<1>7. Cardinality(F) <= Budget + Cardinality({f.day : f \in F})
  <2> DEFINE D == {f.day : f \in F}
  <2>1. Cardinality(F) \in Nat /\ Cardinality(D) \in Nat
    BY LogInvIs, <1>4, FS_CardinalityType, DaysAre DEF Shelved
  <2> HIDE DEF D
  <2> QED  BY <1>4, <2>1, BudgetAssumption DEF D
<1> QED  BY <1>6, <1>4, <1>7 DEF LogInv, LogTypes, Logs, Shelved, LogWithin, LastLinks

\* No dot, day or restart breaks the invariant of the log.
LEMMA LogStep ==
  ASSUME LogInv, Reuses = FALSE, LogNext \/ UNCHANGED log PROVE LogInv'
<1>1. CASE UNCHANGED log
  BY <1>1 DEF LogInv, LogTypes, LastLinks, LogWithin, Base
<1>2. CASE LogNext
  BY <1>2, DotMovesKeeps, NextDayKeeps, LogReopensKeeps DEF LogNext
<1> QED
  BY <1>1, <1>2

\* The numbers of the records that are kept are the last ones.
LEMMA LogHolds == LogInv => LogKeepsTheLatest
<1> SUFFICES ASSUME LogInv PROVE LogKeepsTheLatest
  OBVIOUS
<1> DEFINE F == log.files
           recs == {f.rec : f \in F}
           N == {r.n : r \in recs}
           w == log.written
           c == Cardinality(recs)
<1>1. /\ F \in SUBSET LogFiles /\ IsFiniteSet(F) /\ Cardinality(F) \in Nat /\ w \in Nat
      /\ FilesInOrder(F) /\ NoGap(F, w) /\ Linked(F) /\ \A f \in F : f.day <= log.day
      /\ log.day \in Nat
  BY LogInvIs DEF Shelved
<1>2. Cardinality(F) <= Budget + Cardinality({f.day : f \in F})
  BY DEF LogInv, LogWithin
<1> HIDE DEF F, w
<1>5. IsFiniteSet(recs) /\ Cardinality(recs) <= Cardinality(F) /\ Cardinality(recs) \in Nat
  <2> DEFINE h == [f \in F |-> f.rec]
  <2>1. h \in Surjection(F, recs)
    BY DEF Surjection
  <2> HIDE DEF h, recs
  <2> QED  BY <1>1, <2>1, FS_Surjection, FS_CardinalityType
<1>6. N = {n \in 1..w : n > w - c}
  <2>1. CASE F = {}
    <3>3. {n \in 1..w : n > w - c} = {}  BY <1>1, <2>1, FS_EmptySet
    <3> QED  BY <2>1, <3>3
  <2>2. CASE F # {}
    <3>1. PICK b \in F : \A g \in F : b.rec.n <= g.rec.n
      BY <1>1, <2>2, OldestFile
    <3> DEFINE m == b.rec.n
    <3>2. m \in Nat \ {0} /\ m <= w  BY <1>1, FileIs DEF NoGap
    <3>3. N = m..w
      <4>1. \A r \in recs : r.n \in m..w  BY <1>1, FileIs, <3>1, <3>2 DEF NoGap
      <4>3. \A n \in m..w : n \in N  BY <1>1, <3>1 DEF NoGap
      <4>4. \A n \in N : n \in m..w
        BY <4>1
      <4> HIDE DEF N, m
      <4> QED
        BY <4>3, <4>4
    <3> HIDE DEF m
    <3> DEFINE h == [r \in recs |-> r.n]
    <3>4. h \in Bijection(recs, N)
      <4>1. \A r, q \in recs : r.n = q.n => r = q
        BY <1>1 DEF FilesInOrder
      <4> HIDE DEF recs
      <4>2. h \in [recs -> N]
        OBVIOUS
      <4>3. \A n \in N : \E r \in recs : h[r] = n
        OBVIOUS
      <4>4. \A r, q \in recs : h[r] = h[q] => r = q
        BY <4>1
      <4> HIDE DEF h, N
      <4>5. h \in Surjection(recs, N)
        BY <4>2, <4>3 DEF Surjection
      <4>6. h \in Injection(recs, N)
        BY <4>2, <4>4 DEF Injection, IsInjective
      <4> QED
        BY <4>5, <4>6 DEF Bijection
    <3> HIDE DEF h, N, recs
    <3>6. Cardinality(m..w) = w - m + 1
      <4>2. m \in Int /\ w \in Int /\ ~(m > w)
        BY <1>1, <3>2
      <4> QED  BY FS_Interval, <4>2
    <3>7. c = w - m + 1  BY <3>3, <1>5, <3>4, FS_Bijection, <3>6 DEF ExistsBijection
    <3> HIDE DEF c
    <3>9. m..w = {n \in 1..w : n > w - c}  BY <1>1, <3>2, <3>7
    <3> QED
      BY <3>3, <3>9
  <2> QED
    BY <2>1, <2>2
<1>8. Cardinality(recs) <= Budget + Cardinality({f.day : f \in F})
  <2> DEFINE d == Cardinality({f.day : f \in F})
  <2> HIDE DEF c, d, recs
  <2>1. Cardinality(F) <= Budget + d /\ d \in Nat  BY <1>2, <1>1, DaysAre DEF d
  <2> QED  BY <1>1, <1>5, <2>1, BudgetAssumption DEF d
<1> QED  BY <1>6, <1>1, <1>8 DEF F, w, LogKeepsTheLatest, Linked

LEMMA LogStarts == LensInit => LogInv
<1> SUFFICES ASSUME LensInit PROVE LogInv
  OBVIOUS
<1>3. LogTypes  BY FS_EmptySet DEF LogTypes, Dots, LensInit
<1>5. LogWithin
  <2>1. Cardinality(log.files) = 0 /\ Cardinality({f.day : f \in log.files}) = 0  BY FS_EmptySet DEF LensInit
  <2> QED
    BY <2>1, BudgetAssumption DEF LogWithin
<1> QED  BY <1>3, <1>5 DEF LogInv, FilesInOrder, NoGap, Linked, LastLinks, LensInit

-----------------------------------------------------------------------------
(* The four of them.                                                       *)

LEMMA LensStarts == LensInit => LensInv
BY FeedStarts, DialogStarts, ArchiveStarts, LogStarts DEF LensInv

\* A step of one leaves the others alone.
LEMMA LensStep ==
  ASSUME LensInv, Deaf = FALSE, Talks = FALSE, Leaves = FALSE, Tardy = FALSE, Reverts = FALSE, Reuses = FALSE,
         LensNext \/ UNCHANGED lensVars
  PROVE  LensInv'
<1>1. FeedNext \/ UNCHANGED feedVars
  BY DEF LensNext, lensVars, feedVars, DialogNext, OpenDialog, CloseDialog, StatusMoves, WorktreeLeaves, Tell, Press,
     SendOrder, OrderStarts, OrderEnds, ArchiveNext, RunMoves, PhaseEnds, Stamped, ArchiveOnce, ArchiveDeleted,
     LogNext, DotMoves, NextDay, LogReopens
<1>2. DialogNext \/ UNCHANGED dialogVars
  BY DEF LensNext, lensVars, dialogVars, FeedNext, WhisperWrites, WorktreeGoes, WorktreeComes, Change, Hydrated, SnapBegins,
     SnapResolves, SnapEnds, AgentSays, ShellPrompts, Ages, Views, Sidebar, ArchiveNext, RunMoves, PhaseEnds,
     Stamped, ArchiveOnce, ArchiveDeleted, LogNext, DotMoves, NextDay, LogReopens
<1>3. ArchiveNext \/ UNCHANGED archiveVars
  BY DEF LensNext, lensVars, archiveVars, FeedNext, WhisperWrites, WorktreeGoes, WorktreeComes, Change, Hydrated, SnapBegins,
     SnapResolves, SnapEnds, AgentSays, ShellPrompts, Ages, Views, Sidebar, DialogNext, OpenDialog, CloseDialog,
     StatusMoves, WorktreeLeaves, Tell, Press, SendOrder, OrderStarts, OrderEnds, LogNext, DotMoves, NextDay, LogReopens
<1>4. LogNext \/ UNCHANGED log
  BY DEF LensNext, lensVars, FeedNext, WhisperWrites, WorktreeGoes, WorktreeComes, Change, Hydrated, SnapBegins,
     SnapResolves, SnapEnds, AgentSays, ShellPrompts, Ages, Views, Sidebar, DialogNext, OpenDialog, CloseDialog,
     StatusMoves, WorktreeLeaves, Tell, Press, SendOrder, OrderStarts, OrderEnds, ArchiveNext, RunMoves, PhaseEnds,
     Stamped, ArchiveOnce, ArchiveDeleted
<1> QED
  BY <1>1, <1>2, <1>3, <1>4, FeedStep, DialogStep, ArchiveStep, LogStep DEF LensInv

LEMMA LensHolds == LensInv => LensIsTrue
BY FeedHolds, DialogHolds, ArchiveHolds, LogHolds DEF LensInv, LensIsTrue

-----------------------------------------------------------------------------
(* Code navigation: the index.                                             *)

NavViews == [mounted : BOOLEAN, shown : Reasons \cup {"unknown", "available"}, loading : BOOLEAN]
Ingests == [at : {"no", "graph", "fill", "label"}, why : {"watch", "refresh"},
            fp : 0..MaxTree, graph : 0..MaxTree]

IndexTypes ==
    /\ cortex \in [tool : Tools, enabled : BOOLEAN, running : BOOLEAN, due : BOOLEAN]
    /\ tree \in 1..MaxTree
    /\ indexed \in [keyed : BOOLEAN, is : {"none", "old", "ok"}, fp : 0..MaxTree]
    /\ mirror \in [is : BOOLEAN, of : 0..MaxTree, label : 0..MaxTree]
    /\ marker \in Reasons \cup {"none"}
    /\ ingest \in Ingests
    /\ rehydrate \in {"no", "spawned", "indexed", "absent"}
    /\ watch \in [is : {"no", "asked", "on"}, timer : BOOLEAN]
    /\ navView \in NavViews
    /\ behind \in BOOLEAN /\ unheard \in BOOLEAN

LEMMA ReloadedIs ==
  ASSUME NEW v \in NavViews, NEW g \in BOOLEAN
  PROVE  /\ StatusReloaded(v, g) \in NavViews
         /\ StatusReloaded(v, g).mounted = v.mounted
         /\ v.mounted = FALSE => StatusReloaded(v, g) = v
         /\ v.mounted = TRUE /\ g = TRUE => StatusReloaded(v, g).loading = TRUE
         /\ v.mounted = TRUE /\ g = FALSE =>
              StatusReloaded(v, g).loading = v.loading /\ StatusReloaded(v, g).shown = "cortex-disabled"
  BY DEF StatusReloaded, NavViews, Reasons

LEMMA BehindGateIs == ASSUME IndexTypes PROVE StatusBehindGate \in Reasons \cup {"unknown", "available"}
  BY DEF IndexTypes, StatusBehindGate, Reasons

LEMMA IndexWrittenIs ==
  ASSUME IndexTypes, cortex.tool # "absent"
  PROVE  IndexWritten \in [keyed : BOOLEAN, is : {"none", "old", "ok"}, fp : 0..MaxTree]
  BY IndexAssumption DEF IndexTypes, IndexWritten, Tools

LEMMA UnavailableTypes ==
  ASSUME IndexTypes, NEW r \in Reasons, Unavailable(r)
  PROVE  marker' \in Reasons \cup {"none"} /\ navView' \in NavViews /\ behind' \in BOOLEAN /\ unheard' \in BOOLEAN
<1> QED  BY ReloadedIs DEF IndexTypes, Unavailable

LEMMA FollowsTypes ==
  ASSUME IndexTypes, NEW w \in {"watch", "refresh"}, Follows(w)
  PROVE  /\ watch' \in [is : {"no", "asked", "on"}, timer : BOOLEAN]
         /\ rehydrate' \in {"no", "spawned", "indexed", "absent"}
  BY DEF IndexTypes, Follows

LEMMA StartTypes ==
  ASSUME IndexTypes, NEW w \in {"watch", "refresh"}, StartIngest(w), IngestFrame
  PROVE  IndexTypes'
<1>1. CASE indexed.is = "none" /\ Unavailable("no-cortex") /\ Follows(w) /\ UNCHANGED <<mirror, ingest>>
  BY <1>1, UnavailableTypes, FollowsTypes DEF IndexTypes, IngestFrame, Reasons
<1>2. CASE indexed.is = "old" /\ Unavailable("unsupported-schema") /\ Follows(w) /\ UNCHANGED <<mirror, ingest>>
  BY <1>2, UnavailableTypes, FollowsTypes DEF IndexTypes, IngestFrame, Reasons
<1>3. CASE /\ marker' = "none" /\ Follows(w)
           /\ UNCHANGED <<mirror, ingest, navView, unheard, behind>>
  BY <1>3, FollowsTypes DEF IndexTypes, IngestFrame
<1>4. CASE /\ ingest' = [at |-> "graph", why |-> w, fp |-> indexed.fp, graph |-> 0]
           /\ UNCHANGED <<mirror, marker, watch, rehydrate, navView, unheard, behind>>
  BY <1>4, IndexAssumption DEF IndexTypes, IngestFrame, Ingests
<1> QED
  BY <1>1, <1>2, <1>3, <1>4 DEF StartIngest

LEMMA IndexTypesStep ==
  ASSUME IndexTypes, IndexNext
  PROVE  IndexTypes'
<1>0. cortex.enabled \in BOOLEAN /\ navView \in NavViews /\ NoIngest \in Ingests
  BY IndexAssumption DEF IndexTypes, NoIngest, Ingests
<1>1. ASSUME NEW more \in BOOLEAN, StatusAnswered(more) PROVE IndexTypes'
  <2>1. navView' \in NavViews
    BY <1>0, <1>1, BehindGateIs DEF StatusAnswered, NavViews
  <2> QED
    BY <1>1, <2>1 DEF StatusAnswered, IndexTypes
<1>2. CASE SymbolsOpened
  <2> DEFINE v == [navView EXCEPT !.mounted = TRUE, !.shown = "unknown"]
  <2>1. v \in NavViews
    BY <1>0 DEF NavViews
  <2>2. navView' \in NavViews
    BY <1>0, <1>2, <2>1, ReloadedIs DEF SymbolsOpened
  <2> HIDE DEF v
  <2> QED
    BY <1>2, <2>2 DEF SymbolsOpened, IndexTypes
<1>3. CASE SymbolsClosed
  BY <1>3 DEF SymbolsClosed, IndexTypes, NavViews
<1>4. CASE GraphRead
  <2>1. indexed.fp \in 0..MaxTree /\ 0 \in 0..MaxTree
    BY IndexAssumption DEF IndexTypes
  <2>2. ingest' \in Ingests
    BY <1>4, <2>1 DEF GraphRead, IndexTypes, Ingests
  <2>3. mirror' \in [is : BOOLEAN, of : 0..MaxTree, label : 0..MaxTree]
    BY <1>4, <2>1 DEF GraphRead, IndexTypes
  <2> QED
    BY <1>4, <2>2, <2>3 DEF GraphRead, IndexTypes, IngestFrame
<1>5. CASE MirrorFilled
  BY <1>5 DEF MirrorFilled, IndexTypes, Ingests, IngestFrame
<1>6. CASE Labelled
  <2>2. watch' \in [is : {"no", "asked", "on"}, timer : BOOLEAN] /\ rehydrate' \in {"no", "spawned", "indexed", "absent"}
    BY <1>6, FollowsTypes DEF Labelled, IndexTypes, Ingests
  <2> QED  BY <1>0, <1>6, ReloadedIs, <2>2 DEF Labelled, IndexTypes, Ingests, IngestFrame
<1>7. CASE IngestThrows
  BY <1>0, <1>7 DEF IngestThrows, IndexTypes
<1>8. CASE WatchAnswered
  BY <1>8, StartTypes DEF WatchAnswered
<1>9. CASE WatchRefused
  BY <1>9 DEF WatchRefused, IndexTypes
<1>10. CASE BatchFires
  BY <1>10 DEF BatchFires, Refreshes, IndexTypes
<1>11. CASE RefreshAsked
  BY ZenonT(60), <1>11 DEF RefreshAsked, Refreshes, IndexTypes
<1>12. CASE Rehydrated
  BY <1>12, IndexWrittenIs DEF Rehydrated, IndexTypes
<1>13. CASE RehydrateExits
  BY <1>13, StartTypes DEF RehydrateExits
<1>14. CASE RehydrateMissing
  BY <1>14, UnavailableTypes DEF RehydrateMissing, IndexTypes, Reasons, IngestFrame
<1>15. CASE RehydrateFails
  BY <1>15 DEF RehydrateFails, IndexTypes
<1>16. ASSUME NEW to \in 1..MaxTree, FileChanges(to) PROVE IndexTypes'
  <2>1. watch' \in [is : {"no", "asked", "on"}, timer : BOOLEAN]
    BY <1>16 DEF FileChanges, IndexTypes
  <2> QED
    BY <1>16, <2>1 DEF FileChanges, IndexTypes
<1>17. CASE IndexedOutside
  BY <1>17, IndexWrittenIs DEF IndexedOutside, IndexTypes
<1>18. CASE StoreRemoved
  <2>1. 0 \in 0..MaxTree
    BY IndexAssumption
  <2>2. indexed' \in [keyed : BOOLEAN, is : {"none", "old", "ok"}, fp : 0..MaxTree]
    BY <1>18, <2>1 DEF StoreRemoved, IndexTypes
  <2> QED
    BY <1>18, <2>2 DEF StoreRemoved, IndexTypes
<1>19. ASSUME NEW t \in Tools, ToolReplaced(t) PROVE IndexTypes'
  BY <1>19 DEF ToolReplaced, IndexTypes
<1>20. CASE CortexSwitched
  <2>1. cortex' \in [tool : Tools, enabled : BOOLEAN, running : BOOLEAN, due : BOOLEAN]
    BY <1>20 DEF CortexSwitched, IndexTypes
  <2> QED
    BY <1>20, <2>1 DEF CortexSwitched, IndexTypes
<1>21. CASE DriverFollows
  <2> DEFINE runs == cortex.enabled /\ cortex.tool # "absent"
  <2>1. runs \in BOOLEAN
    OBVIOUS
  <2>3. navView' \in NavViews /\ unheard' \in BOOLEAN
    BY <1>0, <1>21, ReloadedIs DEF DriverFollows
  <2>4. UNCHANGED <<tree, indexed, mirror, marker, ingest, rehydrate, watch, behind>>
    BY <1>21 DEF DriverFollows
  <2> HIDE DEF runs
  <2> QED  BY <2>1, <1>21, <2>3, <2>4 DEF IndexTypes, DriverFollows
<1>22. CASE NavCrash  BY <1>0, <1>22 DEF NavCrash, IndexTypes, NavViews
<1> QED
  BY <1>1, <1>2, <1>3, <1>4, <1>5, <1>6, <1>7, <1>8, <1>9, <1>10, <1>11, <1>12, <1>13, <1>14, <1>15,
     <1>16, <1>17, <1>18, <1>19, <1>20, <1>21, <1>22 DEF IndexNext

-----------------------------------------------------------------------------
(* The sidecar of the mirror.                                              *)

\* The version that the next ingest finds at least.
Bar == IF indexed.is = "none" THEN tree ELSE indexed.fp

IndexedInv ==
    /\ indexed.is = "ok" => cortex.tool \in {"ok", "absent"}
    /\ indexed.is # "none" => 1 <= indexed.fp /\ indexed.fp <= tree
IngestInv ==
    /\ ingest.at # "no" =>
         indexed.is = "ok" /\ 1 <= ingest.fp /\ ingest.fp <= indexed.fp /\ mirror.label < ingest.fp
    /\ ingest.at \in {"fill", "label"} =>
         mirror.is = TRUE /\ ingest.fp <= ingest.graph /\ ingest.graph <= indexed.fp
    /\ ingest.at = "label" => mirror.of = ingest.graph
MirrorInv ==
    /\ mirror.label <= Bar
    /\ mirror.is = FALSE => mirror.label = 0
    /\ mirror.is = TRUE => mirror.of = mirror.label \/ mirror.label < Bar
SkipInv == IndexedInv /\ IngestInv /\ MirrorInv

LEMMA SkipHolds == ASSUME IndexTypes, SkipInv PROVE SkipIsRight
  BY DEF IndexTypes, SkipInv, MirrorInv, Bar, SkipIsRight

\* The index is written again: what it holds is never older.
LEMMA IndexRises ==
  ASSUME IndexTypes, IndexedInv, cortex.tool # "absent", indexed' = IndexWritten,
         UNCHANGED <<cortex, tree>>
  PROVE  /\ IndexedInv' /\ Bar <= Bar' /\ Bar \in 0..MaxTree /\ Bar' \in 0..MaxTree
         /\ indexed.is = "ok" => indexed'.is = "ok" /\ indexed.fp <= indexed'.fp
<1>2. CASE cortex.tool = "json"
  BY IndexWrittenIs, <1>2, IndexAssumption DEF IndexTypes, IndexedInv, IndexWritten, Bar
<1>3. CASE cortex.tool # "json"
  BY IndexWrittenIs, <1>3, IndexAssumption DEF IndexTypes, IndexedInv, Bar, IndexWritten, Tools
<1> QED
  BY <1>2, <1>3

LEMMA SkipOfIndexed ==
  ASSUME IndexTypes, SkipInv, cortex.tool # "absent", indexed' = IndexWritten,
         UNCHANGED <<cortex, tree, mirror, ingest>>
  PROVE  SkipInv'
<1>3. mirror.label \in Nat /\ mirror'.label = mirror.label
  BY DEF IndexTypes
<1>4. MirrorInv'  BY IndexRises, <1>3 DEF MirrorInv, SkipInv
<1>5. indexed'.fp \in Nat /\ indexed.fp \in Nat /\ ingest.fp \in Nat /\ ingest.graph \in Nat
  BY IndexWrittenIs DEF IndexTypes, Ingests
<1>6. IngestInv'  BY IndexRises, <1>5 DEF IngestInv, SkipInv
<1> QED  BY IndexRises, <1>4, <1>6 DEF SkipInv

LEMMA SkipOfStart ==
  ASSUME IndexTypes, SkipInv, NEW w \in {"watch", "refresh"}, ingest.at = "no", StartIngest(w), IngestFrame
  PROVE  SkipInv'
<1>1. CASE UNCHANGED <<mirror, ingest>>
  BY <1>1 DEF IngestFrame, SkipInv, IndexedInv, IngestInv, MirrorInv, Bar
<1>2. CASE /\ indexed.is = "ok" /\ ~(mirror.is /\ mirror.label = indexed.fp)
           /\ ingest' = [at |-> "graph", why |-> w, fp |-> indexed.fp, graph |-> 0]
           /\ UNCHANGED mirror
  <2>3. IngestInv'  BY <1>2 DEF IngestInv, IngestFrame, IndexTypes, SkipInv, IndexedInv, MirrorInv, Bar
  <2> QED
    BY <1>2, <2>3 DEF IngestFrame, SkipInv, IndexedInv, MirrorInv, Bar
<1> QED
  BY <1>1, <1>2 DEF StartIngest

LEMMA SkipStep ==
  ASSUME Returns = FALSE, IndexTypes, SkipInv, IndexNext
  PROVE  SkipInv'
<1> USE DEF SkipInv
<1>1. ASSUME UNCHANGED <<cortex, tree, indexed, mirror, ingest>> PROVE SkipInv'
  BY <1>1 DEF IndexedInv, IngestInv, MirrorInv, Bar
<1>2. \/ \E more \in BOOLEAN : StatusAnswered(more)
      \/ SymbolsOpened \/ SymbolsClosed \/ WatchRefused \/ BatchFires \/ RefreshAsked
      \/ RehydrateMissing \/ RehydrateFails
      => SkipInv'
  BY <1>1 DEF StatusAnswered, SymbolsOpened, SymbolsClosed, WatchRefused, BatchFires, RefreshAsked,
              RehydrateMissing, RehydrateFails, IngestFrame
<1>3. /\ indexed.fp \in Nat /\ tree \in Nat /\ mirror.label \in Nat /\ mirror.of \in Nat
      /\ ingest.fp \in Nat /\ ingest.graph \in Nat /\ mirror.is \in BOOLEAN
  BY DEF IndexTypes, Ingests
<1>4. CASE GraphRead
  BY <1>3, <1>4 DEF GraphRead, IndexedInv, IngestInv, MirrorInv, Bar, IngestFrame, IndexTypes, Ingests
<1>5. CASE MirrorFilled
  BY <1>3, <1>5 DEF MirrorFilled, IndexedInv, IngestInv, MirrorInv, Bar, IngestFrame, IndexTypes, Ingests
<1>6. CASE Labelled
  BY <1>3, <1>6 DEF Labelled, IndexedInv, IngestInv, MirrorInv, Bar, IngestFrame, IndexTypes, NoIngest
<1>7. ASSUME ingest' = NoIngest, UNCHANGED <<tree, indexed, mirror>>, cortex'.tool = cortex.tool
      PROVE SkipInv'
  BY <1>7 DEF NoIngest, IndexedInv, IngestInv, MirrorInv, Bar
<1>8. CASE IngestThrows
  BY <1>7, <1>8 DEF IngestThrows
<1>9. CASE WatchAnswered
  BY <1>9, SkipOfStart DEF WatchAnswered, IndexIdle
<1>10. CASE Rehydrated
  BY <1>10, SkipOfIndexed DEF Rehydrated
<1>11. CASE RehydrateExits
  BY <1>11, SkipOfStart DEF RehydrateExits, IndexIdle
<1>12. ASSUME NEW to \in 1..MaxTree, FileChanges(to) PROVE SkipInv'
  BY <1>3, <1>12 DEF IndexedInv, IngestInv, MirrorInv, Bar, FileChanges
<1>13. CASE IndexedOutside
  BY <1>13, SkipOfIndexed DEF IndexedOutside
<1>14. CASE StoreRemoved
  BY <1>3, <1>14 DEF IndexedInv, IngestInv, MirrorInv, Bar, StoreRemoved, IndexIdle, IndexTypes
<1>15. ASSUME NEW t \in Tools, ToolReplaced(t) PROVE SkipInv'
  BY <1>15 DEF IndexedInv, IngestInv, MirrorInv, Bar, ToolReplaced, IndexTypes
<1>16. ASSUME cortex'.tool = cortex.tool, UNCHANGED <<tree, indexed, mirror, ingest>> PROVE SkipInv'
  BY <1>16 DEF IndexedInv, IngestInv, MirrorInv, Bar
<1>17. CASE CortexSwitched
  BY <1>16, <1>17 DEF CortexSwitched, IndexTypes
<1>18. CASE DriverFollows
  BY <1>16, <1>18 DEF DriverFollows, IndexTypes
<1>19. CASE NavCrash
  BY <1>7, <1>19 DEF NavCrash, IndexTypes
<1> QED
  BY <1>2, <1>4, <1>5, <1>6, <1>8, <1>9, <1>10, <1>11, <1>12, <1>13, <1>14, <1>15, <1>17, <1>18,
     <1>19 DEF IndexNext

-----------------------------------------------------------------------------
(* The status in the Symbols pane.                                         *)

Settled == navView.mounted = TRUE /\ navView.loading = FALSE /\ ingest.at = "no"
             /\ cortex.due = FALSE /\ unheard = FALSE
StatusInv ==
    /\ navView.loading = TRUE => cortex.enabled = TRUE
    /\ Settled => navView.shown \in {"unknown", MainStatus}

LEMMA StatusHolds == ASSUME IndexTypes, StatusInv PROVE StatusIsTrue
<1> QED  BY DEF StatusInv, Settled, StatusIsTrue, IndexIdle, IndexTypes, NavViews

\* The status is loaded again: it is under way, or it is that the plugin is off.
LEMMA StatusOfReload ==
  ASSUME IndexTypes, StatusInv, NEW v \in NavViews, v.mounted = TRUE => v.loading = navView.loading,
         v.mounted = FALSE => v.loading = FALSE \/ v = navView,
         navView' = StatusReloaded(v, cortex.enabled), cortex'.enabled = cortex.enabled
  PROVE  StatusInv'
<1>1. cortex.enabled \in BOOLEAN /\ v.mounted \in BOOLEAN /\ v.loading \in BOOLEAN
  BY DEF IndexTypes, NavViews
<1>2. CASE v.mounted = FALSE
  BY <1>1, <1>2, ReloadedIs DEF StatusInv, Settled
<1>3. CASE v.mounted = TRUE /\ cortex.enabled = TRUE
  BY <1>1, <1>3, ReloadedIs DEF StatusInv, Settled
<1>4. CASE v.mounted = TRUE /\ cortex.enabled = FALSE  BY <1>4, <1>1, ReloadedIs DEF StatusInv, MainStatus
<1> QED
  BY <1>1, <1>2, <1>3, <1>4

LEMMA StatusOfIndexed ==
  ASSUME IndexTypes, StatusInv, indexed' = IndexWritten,
         UNCHANGED <<cortex, mirror, marker, ingest, navView, unheard>>
  PROVE  StatusInv'
<1>2. CASE indexed.keyed = TRUE
  BY <1>2 DEF StatusInv, Settled, MainStatus, StatusBehindGate, IndexWritten, IndexTypes
<1>3. CASE indexed.keyed = FALSE
  <2>3. Settled' = Settled
    BY DEF Settled
  <2> QED  BY <1>3, <2>3 DEF StatusInv, MainStatus, StatusBehindGate, IndexWritten, IndexTypes
<1> QED  BY <1>2, <1>3 DEF IndexWritten, IndexTypes

LEMMA StatusOfUnavailable ==
  ASSUME IndexTypes, StatusInv, NEW r \in Reasons, Unavailable(r), IngestFrame PROVE StatusInv'
<1> QED  BY StatusOfReload DEF Unavailable, IngestFrame, IndexTypes, NavViews

LEMMA StatusOfStart ==
  ASSUME IndexTypes, StatusInv, NEW w \in {"watch", "refresh"}, StartIngest(w), IngestFrame
  PROVE  StatusInv'
<1>1. CASE indexed.is = "none" /\ Unavailable("no-cortex")
  BY <1>1, StatusOfUnavailable DEF Reasons
<1>2. CASE indexed.is = "old" /\ Unavailable("unsupported-schema")
  BY <1>2, StatusOfUnavailable DEF Reasons
<1>3. CASE mirror.is /\ UNCHANGED <<mirror, ingest, navView, unheard>>
  BY <1>3 DEF IngestFrame, StatusInv, Settled, MainStatus, StatusBehindGate
<1>4. CASE /\ ingest' = [at |-> "graph", why |-> w, fp |-> indexed.fp, graph |-> 0]
           /\ UNCHANGED <<navView>>  BY <1>4 DEF StatusInv, Settled, IngestFrame
<1> QED
  BY <1>1, <1>2, <1>3, <1>4 DEF StartIngest

LEMMA StatusStep ==
  ASSUME GateRaces = FALSE, IndexTypes, SkipInv, StatusInv, IndexNext
  PROVE  StatusInv'
<1> USE DEF IndexIdle
<1>0. /\ cortex.enabled \in BOOLEAN /\ navView \in NavViews /\ navView.mounted \in BOOLEAN
      /\ navView.loading \in BOOLEAN
  BY DEF IndexTypes, NavViews
<1>a. ASSUME UNCHANGED <<mirror, marker, ingest, navView, unheard>>, cortex'.enabled = cortex.enabled,
             cortex'.due = cortex.due, indexed'.keyed = indexed.keyed
      PROVE  StatusInv'
  BY <1>a DEF StatusInv, Settled, MainStatus, StatusBehindGate
<1>b. ASSUME UNCHANGED navView, cortex'.enabled = cortex.enabled,
             ingest'.at # "no" \/ unheard' = TRUE \/ cortex'.due = TRUE
      PROVE  StatusInv'
  BY <1>b DEF StatusInv, Settled
<1>c. ASSUME navView'.mounted = FALSE, navView'.loading = FALSE PROVE StatusInv'
  BY <1>c DEF StatusInv, Settled
<1>1. ASSUME NEW more \in BOOLEAN, StatusAnswered(more) PROVE StatusInv'
  BY <1>0, <1>1 DEF StatusInv, MainStatus, StatusBehindGate, StatusAnswered, NavViews
<1>2. CASE SymbolsOpened
  <2> DEFINE v == [navView EXCEPT !.mounted = TRUE, !.shown = "unknown"]
  <2>1. v \in NavViews /\ v.mounted = TRUE /\ v.loading = navView.loading
    BY <1>0 DEF NavViews
  <2>2. navView' = StatusReloaded(v, cortex.enabled) /\ cortex' = cortex
    BY <1>2 DEF SymbolsOpened
  <2> HIDE DEF v
  <2> QED
    BY <2>1, <2>2, StatusOfReload
<1>3. CASE SymbolsClosed
  BY <1>3, <1>c DEF SymbolsClosed
<1>4. CASE GraphRead  BY <1>4, <1>b DEF GraphRead, IngestFrame, IndexTypes, Ingests
<1>5. CASE MirrorFilled  BY <1>5, <1>b DEF MirrorFilled, IngestFrame, IndexTypes, Ingests
<1>6. CASE Labelled
  BY <1>0, <1>6, StatusOfReload DEF Labelled, IngestFrame
<1>7. CASE IngestThrows
  BY <1>7, <1>b DEF IngestThrows
<1>8. CASE WatchAnswered
  BY <1>8, StatusOfStart DEF WatchAnswered
<1>9. CASE WatchRefused \/ BatchFires \/ RefreshAsked \/ RehydrateFails \/ \E to \in 1..MaxTree : FileChanges(to)
  BY <1>9, <1>a DEF WatchRefused, BatchFires, RefreshAsked, RehydrateFails, FileChanges
<1>10. CASE Rehydrated \/ IndexedOutside
  BY <1>10, StatusOfIndexed DEF Rehydrated, IndexedOutside
<1>11. CASE RehydrateExits
  BY <1>11, StatusOfStart DEF RehydrateExits
<1>12. CASE RehydrateMissing
  BY <1>12, StatusOfUnavailable DEF RehydrateMissing, Reasons
<1>13. CASE StoreRemoved  BY <1>13, <1>a DEF StoreRemoved, IndexTypes
<1>14. ASSUME NEW t \in Tools, ToolReplaced(t) PROVE StatusInv'  BY <1>14, <1>a DEF ToolReplaced, IndexTypes
<1>15. CASE CortexSwitched  BY <1>0, <1>15 DEF StatusInv, Settled, CortexSwitched, IndexTypes
<1>16. CASE DriverFollows
  <2>2. CASE navView' = StatusReloaded(navView, cortex.enabled)
    BY <1>0, <1>16, <2>2, StatusOfReload DEF DriverFollows, IndexTypes
  <2>3. CASE unheard' = TRUE /\ UNCHANGED navView  BY <1>b, <1>16, <2>3 DEF DriverFollows, IndexTypes
  <2> QED
    BY <1>16, <2>2, <2>3 DEF DriverFollows
<1>17. CASE NavCrash
  BY <1>17, <1>c DEF NavCrash
<1> QED
  BY <1>1, <1>2, <1>3, <1>4, <1>5, <1>6, <1>7, <1>8, <1>9, <1>10, <1>11, <1>12, <1>13, <1>14, <1>15,
     <1>16, <1>17 DEF IndexNext

-----------------------------------------------------------------------------
(* The mirror follows the tree that is watched.                            *)

\* The index has to follow, and no batch is held back.
Calm == behind = FALSE /\ watch.timer = FALSE /\ watch.is # "no"

IngestsFor ==
    /\ ingest.at # "no" /\ ingest.why = "refresh" => rehydrate = "indexed"
    /\ ingest.at # "no" /\ ingest.why = "watch" => watch.is = "asked"
FollowInv ==
    /\ IngestsFor
    /\ Calm /\ rehydrate = "no" /\ ingest.at \in {"no", "graph"} => mirror.of = tree
    /\ Calm /\ rehydrate \in {"no", "indexed"} /\ indexed.is = "ok" => indexed.fp = tree
    /\ Calm /\ ingest.at \in {"fill", "label"} /\ (ingest.why = "refresh" \/ rehydrate = "no")
         => ingest.graph = tree

LEMMA FollowHolds == ASSUME IndexTypes, FollowInv PROVE IndexFollows
<1> QED  BY DEF FollowInv, Calm, IndexFollows, IndexIdle, IndexTypes

LEMMA FollowOfIndexed ==
  ASSUME IndexTypes, IndexedInv, FollowInv, cortex.tool # "absent", indexed' = IndexWritten,
         rehydrate' = rehydrate \/ (rehydrate = "spawned" /\ rehydrate' = "indexed"),
         UNCHANGED <<tree, mirror, ingest, watch, behind>>
  PROVE  FollowInv'
<1>3. ingest.why \in {"watch", "refresh"}
  BY DEF IndexTypes, Ingests
<1> QED  BY <1>3 DEF FollowInv, IngestsFor, IndexTypes, IndexedInv, IndexWritten, Tools, Calm

LEMMA FollowOfStart ==
  ASSUME IndexTypes, SkipInv, FollowInv, NEW w \in {"watch", "refresh"}, ingest.at = "no",
         w = "watch" => watch.is = "asked", w = "refresh" => rehydrate = "indexed",
         StartIngest(w), IngestFrame
  PROVE  FollowInv'
<1>1. CASE behind' = TRUE /\ UNCHANGED ingest
  BY <1>1 DEF FollowInv, IngestsFor, Calm
<1>2. CASE /\ indexed.is = "ok" /\ mirror.is /\ mirror.label = indexed.fp
           /\ Follows(w) /\ UNCHANGED <<mirror, ingest, behind>>
  <2>3. CASE w = "watch"  BY <1>2, <2>3 DEF Follows, IngestFrame, FollowInv, IngestsFor, Calm, IndexTypes
  <2>4. CASE w = "refresh"
    <3>2. UNCHANGED <<mirror, ingest, indexed, tree>> /\ rehydrate' = "no"
      BY <1>2, <2>4 DEF Follows, IngestFrame
    <3> QED
      BY <1>2, SkipHolds, <2>4, <3>2 DEF FollowInv, IngestsFor, SkipIsRight, IndexIdle, Calm, Follows,
         IndexTypes
  <2> QED
    BY <2>3, <2>4
<1>3. CASE /\ ingest' = [at |-> "graph", why |-> w, fp |-> indexed.fp, graph |-> 0]
           /\ UNCHANGED <<mirror, watch, rehydrate, behind>>
  BY <1>3 DEF FollowInv, IngestsFor, Calm, IngestFrame
<1> QED
  BY <1>1, <1>2, <1>3 DEF StartIngest, Unavailable

LEMMA FollowOfRefresh ==
  ASSUME Joins = FALSE, IndexTypes, FollowInv, Refreshes, ingest.at = "no", UNCHANGED ingest
  PROVE  FollowInv'
<1>1. CASE behind' = TRUE
  BY <1>1 DEF FollowInv, IngestsFor, Calm
<1>2. CASE rehydrate' \in {"absent", "spawned"}
  BY <1>2 DEF FollowInv, IngestsFor
<1> QED
  BY <1>1, <1>2 DEF Refreshes

LEMMA FollowStep ==
  ASSUME Returns = FALSE, Joins = FALSE, IndexTypes, SkipInv, FollowInv, IndexNext
  PROVE  FollowInv'
<1> USE DEF IndexIdle
<1>a. ASSUME UNCHANGED <<tree, indexed, mirror, ingest, rehydrate, watch, behind>> PROVE FollowInv'
  BY <1>a DEF FollowInv, IngestsFor, Calm
<1>b. ASSUME ingest'.at = "no", behind' = TRUE \/ watch'.is = "no" PROVE FollowInv'
  BY <1>b DEF FollowInv, IngestsFor, Calm
<1>d. NoIngest.at = "no"
  BY DEF NoIngest
<1>e. ingest.why \in {"watch", "refresh"} /\ watch \in [is : {"no", "asked", "on"}, timer : BOOLEAN]
  BY DEF IndexTypes, Ingests
<1>1. (\E more \in BOOLEAN : StatusAnswered(more)) \/ (\E t \in Tools : ToolReplaced(t))
        \/ CortexSwitched \/ DriverFollows => FollowInv'
  BY <1>a DEF StatusAnswered, ToolReplaced, CortexSwitched, DriverFollows
<1>2. CASE SymbolsOpened \/ RehydrateFails \/ RehydrateMissing
  BY <1>b, <1>2 DEF SymbolsOpened, RehydrateFails, RehydrateMissing, Unavailable
<1>2a. CASE SymbolsClosed \/ WatchRefused
  <2>1. ingest'.at = "no" /\ watch'.is = "no"
    BY <1>2a, <1>e DEF SymbolsClosed, WatchRefused
  <2> QED
    BY <1>b, <2>1
<1>3. IngestThrows \/ NavCrash => FollowInv'
  BY <1>b, <1>d DEF IngestThrows, NavCrash
<1>4. CASE GraphRead
  BY <1>4 DEF FollowInv, IngestsFor, GraphRead, IngestFrame, SkipInv, IngestInv, IndexTypes, Ingests, Calm
<1>5. CASE MirrorFilled  BY <1>5 DEF FollowInv, IngestsFor, MirrorFilled, IngestFrame, IndexTypes, Ingests, Calm
<1>6. CASE Labelled
  <2>1. /\ ingest'.at = "no" /\ ingest.at = "label" /\ mirror.of = ingest.graph /\ mirror'.of = mirror.of
        /\ UNCHANGED <<tree, indexed, behind>>
    BY <1>6, <1>d DEF Labelled, IngestFrame, SkipInv, IngestInv, IndexTypes
  <2>2. CASE ingest.why = "watch"
    <3>2. Calm' => Calm  BY <2>1, <1>6, <1>e, <2>2 DEF Calm, Labelled, Follows, FollowInv, IngestsFor
    <3> QED  BY <2>1, <1>6, <1>e, <2>2, <3>2 DEF FollowInv, IngestsFor, Labelled, Follows
  <2>3. CASE ingest.why = "refresh"  BY <2>1, <2>3, <1>6 DEF FollowInv, IngestsFor, Labelled, Follows, Calm
  <2> QED
    BY <1>e, <2>2, <2>3
<1>7. CASE WatchAnswered
  BY <1>7, FollowOfStart DEF WatchAnswered
<1>8. CASE RehydrateExits
  BY <1>8, FollowOfStart DEF RehydrateExits
<1>9. CASE BatchFires \/ RefreshAsked
  BY <1>9, FollowOfRefresh DEF BatchFires, RefreshAsked
<1>10. CASE Rehydrated \/ IndexedOutside
  BY <1>10, FollowOfIndexed DEF Rehydrated, IndexedOutside, SkipInv
<1>11. ASSUME NEW to \in 1..MaxTree, FileChanges(to) PROVE FollowInv'
  BY <1>11, <1>e DEF FollowInv, IngestsFor, FileChanges, Calm
<1>12. CASE StoreRemoved  BY <1>12 DEF FollowInv, IngestsFor, StoreRemoved, IndexTypes, Calm
<1> QED
  BY <1>1, <1>2, <1>2a, <1>3, <1>4, <1>5, <1>6, <1>7, <1>8, <1>9, <1>10, <1>11, <1>12 DEF IndexNext

-----------------------------------------------------------------------------
(* The keys of the worktrees.                                              *)

KeyTypes ==
    /\ resolver \in [cache : SUBSET Sheets, loaded : BOOLEAN, rested : BOOLEAN]
    /\ scans \in [1..2 -> [at : {"no", "begun", "reading"}, left : SUBSET Sheets, sheet : Sheets]]
    /\ cleared \in 1..2 /\ sidecars \in SUBSET Sheets
KeysInv ==
    /\ KeyTypes /\ sure \subseteq sidecars
    /\ scans[cleared].at = "reading" => sure \subseteq resolver.cache \cup scans[cleared].left
    /\ scans[cleared].at = "no" => sure \subseteq resolver.cache

LEMMA KeysHold == ASSUME KeysInv PROVE KeysAreKnown
  BY DEF KeysInv, KeyTypes, KeysAreKnown

LEMMA FirstSheetIs == FirstSheet \in Sheets
  BY HistoryAssumption DEF FirstSheet

LEMMA NoScanIs == NoScan \in [at : {"no", "begun", "reading"}, left : SUBSET Sheets, sheet : Sheets] /\ NoScan.at = "no"
  BY FirstSheetIs DEF NoScan

LEMMA KeyTypesStep == ASSUME KeyTypes, KeysNext PROVE KeyTypes'
<1>1. ASSUME NEW i \in 1..2, NEW s \in Sheets, ResolveKeys(i, s) PROVE KeyTypes'
  BY <1>1 DEF ResolveKeys, ScanBegins, KeyTypes
<1>2. ASSUME NEW i \in 1..2, NEW s \in Sheets, ScanReads(i, s) PROVE KeyTypes'  BY <1>2 DEF ScanReads, KeyTypes
<1>3. ASSUME NEW i \in 1..2, ScanLists(i) PROVE KeyTypes'
  BY <1>3 DEF ScanLists, KeyTypes
<1>4. ASSUME NEW i \in 1..2, ScanFindsNothing(i) PROVE KeyTypes'
  BY <1>4, NoScanIs DEF ScanFindsNothing, KeyTypes
<1>5. ASSUME NEW i \in 1..2, NEW again \in BOOLEAN, ScanEnds(i, again) PROVE KeyTypes'
  <2>1. CASE again
    BY <1>5, <2>1 DEF ScanEnds, ScanBegins, KeyTypes
  <2>2. CASE ~again  BY <1>5, <2>2, NoScanIs DEF ScanEnds, KeyTypes
  <2> QED
    BY <2>1, <2>2
<1>6. CASE ThrottlePasses
  BY <1>6 DEF ThrottlePasses, KeyTypes
<1>7. ASSUME NEW s \in Sheets, SidecarsChange(s) PROVE KeyTypes'
  BY <1>7 DEF SidecarsChange, KeyTypes
<1> QED
  BY <1>1, <1>2, <1>3, <1>4, <1>5, <1>6, <1>7 DEF KeysNext

LEMMA KeysStep == ASSUME KeysInv, KeysNext PROVE KeysInv'
<1>0. KeyTypes' /\ KeyTypes
  BY KeyTypesStep DEF KeysInv
<1>1. ASSUME NEW i \in 1..2, NEW s \in Sheets, ResolveKeys(i, s) PROVE KeysInv'
  BY <1>0, <1>1 DEF KeysInv, ResolveKeys, ScanBegins, KeyTypes
<1>2. ASSUME NEW i \in 1..2, NEW s \in Sheets, ScanReads(i, s) PROVE KeysInv'
  <2>3. cleared \in 1..2
    BY <1>0 DEF KeyTypes
  <2> QED  BY <1>0, <1>2, <2>3 DEF KeysInv, ScanReads, KeyTypes
<1>3. ASSUME NEW i \in 1..2, ScanLists(i) PROVE KeysInv'  BY <1>0, <1>3 DEF KeysInv, ScanLists, KeyTypes
<1>4. ASSUME NEW i \in 1..2, ScanFindsNothing(i) PROVE KeysInv'
  BY <1>0, <1>4, NoScanIs DEF KeysInv, ScanFindsNothing, KeyTypes
<1>5. ASSUME NEW i \in 1..2, NEW again \in BOOLEAN, ScanEnds(i, again) PROVE KeysInv'
  <2>1. CASE again  BY <1>0, <1>5, <2>1 DEF KeysInv, ScanEnds, KeyTypes, ScanBegins
  <2>2. CASE ~again
    <3>1. /\ scans'[i].at = "no" /\ \A j \in 1..2 : j # i => scans'[j] = scans[j]
          /\ resolver'.cache = resolver.cache /\ UNCHANGED cleared
      BY <1>0, <1>5, <2>2, NoScanIs DEF ScanEnds, KeyTypes
    <3> QED  BY <1>0, <1>5, <3>1 DEF KeysInv, ScanEnds, KeyTypes
  <2> QED
    BY <2>1, <2>2
<1>6. CASE ThrottlePasses  BY <1>0, <1>6 DEF KeysInv, ThrottlePasses, KeyTypes
<1>7. ASSUME NEW s \in Sheets, SidecarsChange(s) PROVE KeysInv'  BY <1>0, <1>7 DEF KeysInv, SidecarsChange
<1> QED
  BY <1>1, <1>2, <1>3, <1>4, <1>5, <1>6, <1>7 DEF KeysNext

-----------------------------------------------------------------------------
(* The symbol search and the history.                                      *)

SearchInv ==
    /\ search \in [on : BOOLEAN, query : Nat, timer : BOOLEAN, sent : Seq(Nat), results : Nat,
                   failed : BOOLEAN]
    /\ search.timer = TRUE => search.on = TRUE
    /\ search.on = TRUE /\ search.timer = FALSE =>
         IF search.sent = <<>> THEN search.failed = TRUE \/ search.results = search.query
         ELSE search.sent[Len(search.sent)] = search.query

LEMMA SearchHolds == ASSUME SearchInv PROVE SymbolsAreOfQuery
  BY DEF SearchInv, SymbolsAreOfQuery

\* An answer takes the oldest search off: the newest is the same.
LEMMA OldestAnswered ==
  ASSUME NEW s \in Seq(Nat), 1 \in DOMAIN s
  PROVE  /\ RemoveAt(s, 1) \in Seq(Nat) /\ s[1] \in Nat /\ s # <<>>
         /\ RemoveAt(s, 1) = <<>> => s[Len(s)] = s[1]
         /\ RemoveAt(s, 1) # <<>> => RemoveAt(s, 1)[Len(RemoveAt(s, 1))] = s[Len(s)]
<1> DEFINE r == RemoveAt(s, 1)
<1>1. r \in Seq(Nat) /\ Len(r) = Len(s) - 1 /\ \A j \in DOMAIN s : j > 1 => j - 1 \in DOMAIN r /\ r[j - 1] = s[j]
  BY RemoveOne
<1>2. Len(s) \in Nat /\ Len(s) >= 1 /\ DOMAIN s = 1..Len(s) /\ s[1] \in Nat /\ s # <<>>
  OBVIOUS
<1> HIDE DEF r
<1>3. CASE r = <<>>  BY <1>1, <1>2, <1>3 DEF r
<1>4. CASE r # <<>>
  <2>1. Len(s) > 1 /\ Len(r) = Len(s) - 1
    BY <1>1, <1>2, <1>4
  <2>3. r[Len(s) - 1] = s[Len(s)]  BY <1>1, <2>1, <1>2
  <2> QED  BY <1>1, <1>2, <1>4, <2>1, <2>3 DEF r
<1> QED
  BY <1>3, <1>4

LEMMA SearchStep == ASSUME Crosses = FALSE, SearchInv, SearchNext PROVE SearchInv'
<1> DEFINE Searches == [on : BOOLEAN, query : Nat, timer : BOOLEAN, sent : Seq(Nat), results : Nat,
                        failed : BOOLEAN]
<1>0. /\ search \in Searches /\ search.sent \in Seq(Nat) /\ search.query \in Nat /\ search.on \in BOOLEAN
      /\ search.timer \in BOOLEAN
  BY DEF SearchInv
<1>1. ASSUME NEW q \in 1..MaxQuery, QueryTyped(q) PROVE SearchInv'
  <2>1. q \in Nat
    OBVIOUS
  <2> QED  BY <1>0, <2>1, <1>1 DEF SearchInv, QueryTyped
<1>2. CASE SearchSent
  <2> DEFINE s == Append(search.sent, search.query)
  <2>1. s \in Seq(Nat) /\ s # <<>> /\ s[Len(s)] = search.query  BY <1>0, AppendProperties
  <2> HIDE DEF s
  <2> QED  BY <1>0, <2>1, <1>2 DEF SearchInv, SearchSent, s
<1>3. ASSUME NEW n \in 1..MaxSent, SearchAnswered(n) \/ SearchFails(n) PROVE SearchInv'
  <2> DEFINE s == search.sent
             r == RemoveAt(s, 1)
  <2>1. /\ r \in Seq(Nat) /\ s[1] \in Nat /\ s # <<>>
        /\ r = <<>> => s[Len(s)] = s[1]
        /\ r # <<>> => r[Len(r)] = s[Len(s)]  BY <1>0, <1>3, OldestAnswered DEF SearchAnswered, SearchFails
  <2>2. search.on = TRUE /\ search.timer = FALSE => s[Len(s)] = search.query
    BY <2>1 DEF SearchInv
  <2>3. \/ search' = [search EXCEPT !.sent = r, !.results = s[1], !.failed = FALSE]
        \/ search' = [search EXCEPT !.sent = r, !.failed = TRUE]  BY <1>3 DEF SearchAnswered, SearchFails
  <2> HIDE DEF r, s
  <2>4. /\ search' \in Searches /\ search'.sent = r /\ UNCHANGED <<search.on, search.timer, search.query>>
        /\ search'.failed = TRUE \/ search'.results = s[1]
    BY <1>0, <2>1, <2>3
  <2> QED
    BY <2>1, <2>2, <2>4 DEF SearchInv
<1>4. CASE SearchStopped  BY <1>0, <1>4 DEF SearchInv, SearchStopped
<1>5. CASE SearchResumed  BY <1>0, <1>5 DEF SearchInv, SearchResumed
<1> QED
  BY <1>1, <1>2, <1>3, <1>4, <1>5 DEF SearchNext

Places == ToSet(Sources) \cup {NoSource}
Histories == [sheet : Sheets, at : [Sheets -> Places], transient : [Sheets -> BOOLEAN],
              origin : [Sheets -> Places], back : [Sheets -> Seq(Places)],
              forward : [Sheets -> Seq(Places)]]
HistoryInv == nav \in Histories /\ WayBack

\* NavHistory.push: the place is the last of the way back, and no other worktree is touched.
LEMMA PushedIs ==
  ASSUME NEW h \in Histories, NEW s \in Sheets
  PROVE  /\ Pushed(h, s) \in Histories
         /\ Pushed(h, s).back[s] # <<>> /\ Last(Pushed(h, s).back[s]) = h.at[s]
         /\ \A t \in Sheets : t # s => Pushed(h, s).back[t] = h.back[t]
         /\ Pushed(h, s).sheet = h.sheet /\ Pushed(h, s).at = h.at
         /\ Pushed(h, s).transient = h.transient /\ Pushed(h, s).origin = h.origin
<1> DEFINE full == Append(h.back[s], h.at[s])
           kept == IF Len(full) > BackCap THEN Tail(full) ELSE full
<1>1. h.back[s] \in Seq(Places) /\ h.at[s] \in Places
  BY DEF Histories
<1>2. full \in Seq(Places) /\ full # <<>> /\ Len(full) = Len(h.back[s]) + 1 /\ full[Len(full)] = h.at[s]
  BY <1>1, AppendProperties
<1>3. Pushed(h, s) = [h EXCEPT !.back[s] = kept, !.forward[s] = <<>>]
  BY DEF Pushed
<1>4. kept \in Seq(Places) /\ kept # <<>> /\ kept[Len(kept)] = h.at[s]
  <2> HIDE DEF full
  <2>1. CASE Len(full) > BackCap
    <3> DEFINE l == Len(full)
               rest == Tail(full)
    <3>3. rest[l - 1] = full[(l - 1) + 1] /\ (l - 1) + 1 = l
      BY <1>2, <2>1, HistoryAssumption, HeadTailProperties
    <3>4. rest # <<>> /\ rest[Len(rest)] = full[Len(full)]
      BY <1>2, <2>1, HistoryAssumption, HeadTailProperties, <3>3
    <3> QED  BY <1>2, <2>1, HistoryAssumption, HeadTailProperties, <3>4
  <2>2. CASE ~(Len(full) > BackCap)
    BY <1>2, <2>2
  <2> QED
    BY <2>1, <2>2
<1> HIDE DEF kept, full
<1>5. Pushed(h, s) \in Histories
  <2> DEFINE b == [h.back EXCEPT ![s] = kept]
             g == [h.forward EXCEPT ![s] = <<>>]
  <2>1. b \in [Sheets -> Seq(Places)]
    BY <1>4 DEF Histories
  <2>3. g \in [Sheets -> Seq(Places)]  BY DEF Histories
  <2>4. Pushed(h, s) = [h EXCEPT !.back = b, !.forward = g]
    BY <1>3 DEF Histories
  <2> HIDE DEF b, g
  <2> QED
    BY <2>1, <2>3, <2>4 DEF Histories
<1> QED
  BY <1>3, <1>4, <1>5 DEF Histories, Last

LEMMA HistoryStep == ASSUME HistoryInv, HistoryNext PROVE HistoryInv'
<1>0. /\ nav \in Histories /\ nav.sheet \in Sheets /\ NoSource \in Places /\ ToSet(Sources) \subseteq Places
      /\ nav.transient \in [Sheets -> BOOLEAN]
  BY DEF HistoryInv, Histories, Places
<1>a. ASSUME NEW n \in Histories, n.transient[nav.sheet] = FALSE, nav' = n,
             \A t \in Sheets : t # nav.sheet =>
               n.transient[t] = nav.transient[t] /\ n.origin[t] = nav.origin[t] /\ n.back[t] = nav.back[t]
      PROVE  HistoryInv'
  BY <1>a DEF HistoryInv, WayBack
<1>1. ASSUME NEW f \in ToSet(Sources), NEW source \in {"definition", "link", "palette"}, Navigate(f, source)
      PROVE  HistoryInv'
  <2> DEFINE s == nav.sheet
             h == IF ShouldPush(nav, s) THEN Pushed(nav, s) ELSE nav
             o == IF nav.transient[s] THEN nav.origin[s] ELSE nav.at[s]
             d == source = "definition"
  <2>1. /\ h \in Histories /\ \A t \in Sheets : t # s => h.back[t] = nav.back[t]
        /\ h.transient = nav.transient /\ h.origin = nav.origin
        /\ nav.transient[s] = FALSE /\ nav.at[s] # NoSource => h.back[s] # <<>> /\ Last(h.back[s]) = nav.at[s]
        /\ nav.transient[s] = TRUE => h = nav
    BY <1>0, PushedIs DEF ShouldPush
  <2>2. o \in Places /\ d \in BOOLEAN
    BY <1>0 DEF Histories
  <2>3. nav' = [h EXCEPT !.at[s] = f, !.transient[s] = d, !.origin[s] = o]  BY <2>1, <1>1 DEF Navigate
  <2> HIDE DEF h, d
  <2>4. nav' \in Histories
    <3> HIDE DEF o, s
    <3>1. s \in Sheets
      BY <1>0 DEF s
    <3> QED
      BY <1>0, <2>1, <2>2, <2>3, <3>1 DEF Histories
  <2>6. ASSUME NEW t \in Sheets, nav'.transient[t], nav'.origin[t] # NoSource
        PROVE  nav'.back[t] # <<>> /\ Last(nav'.back[t]) = nav'.origin[t]
    <3>1. CASE t # s  BY <2>6, <1>0, <2>1, <2>3, <3>1 DEF HistoryInv, WayBack, Histories
    <3>2. CASE t = s
      <4>2. CASE nav.transient[s] = TRUE  BY <2>1, <2>3, <2>6, <3>2, <4>2 DEF HistoryInv, WayBack, Histories
      <4>3. CASE nav.transient[s] = FALSE  BY <2>1, <2>3, <2>6, <3>2, <4>3 DEF Histories
      <4> QED
        BY <1>0, <4>2, <4>3
    <3> QED
      BY <3>1, <3>2
  <2> QED
    BY <2>4, <2>6 DEF HistoryInv, WayBack
<1>2. ASSUME NEW f \in ToSet(Sources) \union {NoSource}, FileOpened(f) PROVE HistoryInv'
  <2> DEFINE n == [nav EXCEPT !.at[nav.sheet] = f, !.transient[nav.sheet] = FALSE]
  <2>3. n \in Histories  BY <1>0 DEF Histories, Places
  <2> QED  BY <1>0, <1>a, <1>2, <2>3 DEF Histories, FileOpened
<1>3. CASE HistoryBack
  <2> DEFINE s == nav.sheet
             rest == Front(nav.back[s])
             top == Last(nav.back[s])
             a == IF rest = <<>> THEN top ELSE Last(rest)
             g == IF rest = <<>> THEN nav.forward[s] ELSE Append(nav.forward[s], top)
             n == [nav EXCEPT !.back[s] = rest, !.transient[s] = FALSE, !.at[s] = a, !.forward[s] = g]
  <2>2. rest \in Seq(Places) /\ top \in Places  BY <1>0, <1>3 DEF Front, Last, HistoryBack, Histories
  <2>3. a \in Places /\ g \in Seq(Places)  BY <1>0, <1>3, <2>2 DEF Last, HistoryBack, Histories
  <2>4. nav' = n
    BY <1>3 DEF HistoryBack
  <2> HIDE DEF rest, a, g
  <2>5. n \in Histories
    BY <1>0, <2>2, <2>3 DEF Histories
  <2> QED
    BY <1>0, <1>a, <2>4, <2>5 DEF Histories
<1>4. CASE HistoryForward
  <2> DEFINE s == nav.sheet
             p == Last(nav.forward[s])
             g == Front(nav.forward[s])
             b == Append(nav.back[s], p)
             n == [nav EXCEPT !.forward[s] = g, !.transient[s] = FALSE, !.at[s] = p, !.back[s] = b]
  <2>2. g \in Seq(Places) /\ p \in Places  BY <1>0, <1>4 DEF Front, Last, HistoryForward, Histories
  <2>3. b \in Seq(Places)  BY <1>0, <1>4, <2>2 DEF HistoryForward, Histories
  <2>4. nav' = n
    BY <1>4 DEF HistoryForward
  <2> HIDE DEF p, g, b
  <2>5. n \in Histories
    BY <1>0, <2>2, <2>3 DEF Histories
  <2> QED
    BY <1>0, <1>a, <2>4, <2>5 DEF Histories
<1>5. ASSUME NEW t \in Sheets, SheetShown(t) PROVE HistoryInv'
  BY <1>0, <1>5 DEF HistoryInv, WayBack, Histories, SheetShown
<1> QED
  BY <1>1, <1>2, <1>3, <1>4, <1>5 DEF HistoryNext

-----------------------------------------------------------------------------
(* The models of the editor.                                               *)

SourceFiles == ToSet(Sources)
Provisioners == [host : SUBSET SourceFiles, owned : Seq(SourceFiles), prov : 1..2]

\* The models that are there are those that are owned, once each and within the cap.
Owns(m) ==
    /\ m \in Provisioners
    /\ m.host = ToSet(m.owned) /\ Len(m.owned) <= ModelCap /\ IsInjective(m.owned)

LEMMA OwnsIs == ASSUME NEW m \in Provisioners PROVE m.owned \in Seq(SourceFiles) /\ m.host \in SUBSET SourceFiles
  BY DEF Provisioners

LEMMA TouchOwns ==
  ASSUME NEW m, Owns(m), NEW f \in m.host
  PROVE  Owns(Touch(m, f)) /\ Touch(m, f).host = m.host /\ Touch(m, f).prov = m.prov
<1>1. /\ m \in Provisioners /\ m.owned \in Seq(SourceFiles) /\ m.host = ToSet(m.owned) /\ f \in SourceFiles
      /\ Len(m.owned) <= ModelCap /\ IsInjective(m.owned)
  BY OwnsIs DEF Owns
<1> DEFINE s == m.owned
           k == CHOOSE j \in DOMAIN s : s[j] = f
           r == RemoveAt(s, k)
           t == Append(r, f)
<1>2. Contains(s, f) /\ k \in DOMAIN s /\ s[k] = f
  BY <1>1 DEF ToSet, Contains
<1> HIDE DEF k
<1>3. /\ r \in Seq(SourceFiles) /\ Len(r) = Len(s) - 1
      /\ \A j \in DOMAIN r : r[j] = IF j < k THEN s[j] ELSE s[j + 1]
      /\ \A j \in DOMAIN s : j < k => j \in DOMAIN r /\ r[j] = s[j]
      /\ \A j \in DOMAIN s : j > k => j - 1 \in DOMAIN r /\ r[j - 1] = s[j]
  BY <1>1, <1>2, RemoveOne
<1>4. Touch(m, f) = [m EXCEPT !.owned = t]
  BY <1>2 DEF Touch, k
<1>5. s \in Seq(SourceFiles) /\ Len(s) \in Nat /\ DOMAIN s = 1..Len(s) /\ k \in 1..Len(s)
  BY <1>1, <1>2
<1> HIDE DEF r
<1>6. /\ t \in Seq(SourceFiles) /\ Len(t) = Len(s) /\ t[Len(s)] = f
      /\ \A j \in 1..(Len(s) - 1) : t[j] = r[j]
  BY <1>1, <1>3, <1>5
<1> HIDE DEF t
<1>7. DOMAIN t = 1..Len(s) /\ DOMAIN r = 1..(Len(s) - 1)
  BY <1>3, <1>5, <1>6
<1>8. \A j \in 1..(Len(s) - 1) : r[j] # f /\ (\E i \in 1..Len(s) : r[j] = s[i] /\ i # k /\ i = IF j < k THEN j ELSE j + 1)
  <2> SUFFICES ASSUME NEW j \in 1..(Len(s) - 1)
               PROVE  r[j] # f /\ (\E i \in 1..Len(s) : r[j] = s[i] /\ i # k /\ i = IF j < k THEN j ELSE j + 1)
    OBVIOUS
  <2> DEFINE i == IF j < k THEN j ELSE j + 1
  <2>1. i \in 1..Len(s) /\ i # k
    BY <1>5
  <2>3. s[i] # s[k]
    BY <1>1, <1>5, <2>1 DEF IsInjective
  <2> QED  BY <1>2, <2>1, <1>3, <1>7, <2>3
<1>9. ToSet(t) = ToSet(s)
  <2>1. ASSUME NEW j \in 1..Len(s) PROVE t[j] \in ToSet(s)
    <3>1. CASE j = Len(s)  BY <1>5, <1>2, <1>6, <3>1 DEF ToSet
    <3>2. CASE j # Len(s)
      <4>2. PICK i \in 1..Len(s) : r[j] = s[i]  BY <1>8, <1>5, <2>1, <3>2
      <4> QED  BY <1>5, <1>6, <2>1, <3>2, <4>2 DEF ToSet
    <3> QED
      BY <3>1, <3>2
  <2>2. ASSUME NEW i \in 1..Len(s) PROVE s[i] \in ToSet(t)
    <3>1. CASE i = k
      BY <1>2, <1>5, <1>6, <1>7, <3>1 DEF ToSet
    <3>2. CASE i < k  BY <1>5, <1>6, <1>7, <1>3, <3>2 DEF ToSet
    <3>3. CASE i > k
      <4>2. i - 1 \in DOMAIN t /\ t[i - 1] = s[i]  BY <1>5, <1>6, <1>7, <1>3, <3>3
      <4> QED
        BY <4>2 DEF ToSet
    <3> QED
      BY <1>5, <3>1, <3>2, <3>3
  <2> QED  BY <1>7, <2>1, <1>5, <2>2 DEF ToSet
<1>10. IsInjective(t)
  <2> SUFFICES ASSUME NEW a \in 1..Len(s), NEW b \in 1..Len(s), t[a] = t[b] PROVE a = b
    BY <1>7 DEF IsInjective
  <2>1. CASE a = Len(s) \/ b = Len(s)
    BY <1>5, <1>6, <1>8, <2>1
  <2>2. CASE a \in 1..(Len(s) - 1) /\ b \in 1..(Len(s) - 1)
    <3>2. PICK i \in 1..Len(s) : r[a] = s[i] /\ i = IF a < k THEN a ELSE a + 1
      BY <1>8, <2>2
    <3>3. PICK j \in 1..Len(s) : r[b] = s[j] /\ j = IF b < k THEN b ELSE b + 1
      BY <1>8, <2>2
    <3>4. i = j  BY <1>1, <1>5, <1>6, <2>2, <3>2, <3>3 DEF IsInjective
    <3> QED
      BY <1>5, <2>2, <3>2, <3>3, <3>4
  <2> QED
    BY <1>5, <2>1, <2>2
<1>11. Touch(m, f) \in Provisioners /\ Touch(m, f).owned = t /\ Touch(m, f).host = m.host /\ Touch(m, f).prov = m.prov
  BY <1>1, <1>4, <1>6 DEF Provisioners
<1> QED
  BY <1>1, <1>6, <1>9, <1>10, <1>11 DEF Owns

LEMMA OwnOwns ==
  ASSUME NEW m, Owns(m), NEW f \in SourceFiles, f \notin m.host
  PROVE  Owns(Own(m, f)) /\ Own(m, f).prov = m.prov
<1>1. /\ m \in Provisioners /\ m.owned \in Seq(SourceFiles) /\ m.host = ToSet(m.owned)
      /\ Len(m.owned) <= ModelCap /\ IsInjective(m.owned) /\ m.host \in SUBSET SourceFiles
  BY OwnsIs DEF Owns
<1> DEFINE s == m.owned
           t == Append(s, f)
           over == Len(t) > ModelCap
           kept == IF over THEN Tail(t) ELSE t
           there == (m.host \cup {f}) \ (IF over THEN {Head(t)} ELSE {})
<1>2. Own(m, f) = [m EXCEPT !.owned = kept, !.host = there]
  BY DEF Own
<1>3. s \in Seq(SourceFiles) /\ Len(s) \in Nat /\ DOMAIN s = 1..Len(s) /\ \A i \in 1..Len(s) : s[i] # f
  BY <1>1 DEF ToSet
<1>4. /\ t \in Seq(SourceFiles) /\ t # <<>> /\ Len(t) = Len(s) + 1 /\ t[Len(s) + 1] = f
      /\ \A i \in 1..Len(s) : t[i] = s[i]
  BY <1>3, AppendProperties
<1> HIDE DEF t
<1>5. DOMAIN t = 1..(Len(s) + 1)
  BY <1>3, <1>4
<1>6. IsInjective(t)
  <2> SUFFICES ASSUME NEW a \in 1..(Len(s) + 1), NEW b \in 1..(Len(s) + 1), t[a] = t[b] PROVE a = b
    BY <1>5 DEF IsInjective
  <2>1. CASE a \in 1..Len(s) /\ b \in 1..Len(s)
    BY <1>1, <1>3, <1>4, <2>1 DEF IsInjective
  <2>2. CASE a = Len(s) + 1 \/ b = Len(s) + 1
    BY <1>3, <1>4, <2>2
  <2> QED
    BY <1>3, <2>1, <2>2
<1>7. ToSet(t) = m.host \cup {f}
  <2>4. ToSet(t) \subseteq ToSet(s) \cup {f}  BY <1>5, <1>3, <1>4 DEF ToSet
  <2>5. ToSet(s) \subseteq ToSet(t)  BY <1>3, <1>4, <1>5 DEF ToSet
  <2> QED  BY <1>1, <1>3, <1>4, <1>5, <2>4, <2>5 DEF ToSet
<1>8. CASE ~over
  <2>1. Own(m, f) \in Provisioners /\ Own(m, f).owned = t /\ Own(m, f).host = m.host \cup {f} /\ Own(m, f).prov = m.prov
    <3>1. kept = t /\ there = m.host \cup {f} /\ m.host \cup {f} \in SUBSET SourceFiles
      BY <1>1, <1>8
    <3> HIDE DEF kept, there
    <3> QED
      BY <1>1, <1>2, <1>4, <3>1 DEF Provisioners
  <2> QED
    BY <1>3, <1>4, <1>6, <1>7, <1>8, <2>1, ProvisionAssumption DEF Owns
<1>9. CASE over
  <2> DEFINE u == Tail(t)
  <2>1. /\ u \in Seq(SourceFiles) /\ Len(u) = Len(s) /\ Head(t) = t[1] /\ Head(t) \in SourceFiles
        /\ \A i \in 1..Len(s) : u[i] = t[i + 1]
    BY <1>3, <1>4, HeadTailProperties
  <2> HIDE DEF u
  <2>3. IsInjective(u)
    <3> SUFFICES ASSUME NEW a \in 1..Len(s), NEW b \in 1..Len(s), u[a] = u[b] PROVE a = b
      BY <1>3, <2>1 DEF IsInjective
    <3>1. a + 1 \in DOMAIN t /\ b + 1 \in DOMAIN t /\ t[a + 1] = t[b + 1]
      BY <1>3, <1>5, <2>1
    <3> QED  BY <1>6, <3>1 DEF IsInjective
  <2>4. ToSet(u) = ToSet(t) \ {t[1]}
    <3>1. \A i \in 1..Len(s) : u[i] \in ToSet(t) /\ u[i] # t[1]
      BY <1>3, <1>5, <1>6, <2>1 DEF ToSet, IsInjective
    <3>2. ASSUME NEW i \in 1..(Len(s) + 1), t[i] # t[1] PROVE t[i] \in ToSet(u)
      <4>2. u[i - 1] = t[i]  BY <2>1, <1>3, <3>2
      <4> QED  BY <1>3, <2>1, <3>2, <4>2 DEF ToSet
    <3>3. ToSet(u) \subseteq ToSet(t) \ {t[1]}  BY <1>3, <2>1, <3>1 DEF ToSet
    <3> QED  BY <3>3, <1>5, <3>2 DEF ToSet
  <2>5. there = (m.host \cup {f}) \ {t[1]} /\ kept = u
    BY <1>9, <2>1 DEF u
  <2> HIDE DEF there, kept
  <2>6. there \in SUBSET SourceFiles
    BY <1>1, <2>5
  <2>7. Own(m, f) \in Provisioners /\ Own(m, f).owned = u /\ Own(m, f).host = there /\ Own(m, f).prov = m.prov
    BY <1>1, <1>2, <2>1, <2>5, <2>6 DEF Provisioners
  <2> QED
    BY <1>1, <1>7, <2>1, <2>3, <2>4, <2>5, <2>7 DEF Owns
<1> QED
  BY <1>8, <1>9

LEMMA DisposedOwns ==
  ASSUME NEW m, Owns(m)
  PROVE  /\ Owns(DisposeAll(m)) /\ DisposeAll(m).prov = m.prov /\ DisposeAll(m) \in Provisioners
         /\ DisposeAll(m).host = {} /\ DisposeAll(m).owned = <<>>
<1>2. <<>> \in Seq(SourceFiles) /\ ToSet(<<>>) = {} /\ Len(<<>>) <= ModelCap /\ IsInjective(<<>>)
  BY ProvisionAssumption DEF ToSet, IsInjective
<1>3. DisposeAll(m) = [m EXCEPT !.host = {}, !.owned = <<>>]  BY DEF DisposeAll, Owns
<1>4. DisposeAll(m) \in Provisioners /\ DisposeAll(m).host = {} /\ DisposeAll(m).owned = <<>> /\ DisposeAll(m).prov = m.prov
  BY <1>2, <1>3 DEF Provisioners, Owns
<1> QED
  BY <1>2, <1>4 DEF Owns

\* The models after the first n rows: `g` is the recursive function of RowsTouched, up to k.
TouchRow(m, g, n) == IF Sources[n] \in m.host THEN Touch(g[n - 1], Sources[n]) ELSE g[n - 1]
TouchRows(m, g, k) == g = [n \in 0..k |-> IF n = 0 THEN m ELSE TouchRow(m, g, n)]

LEMMA TouchedIsLast ==
  ASSUME NEW m
  PROVE  RowsTouched(m) = (CHOOSE g : TouchRows(m, g, Len(Sources)))[Len(Sources)]
  BY DEF RowsTouched, TouchRows, TouchRow

LEMMA TouchRowsExtend ==
  ASSUME NEW m, NEW x \in Nat, x # 0, NEW g, TouchRows(m, g, x - 1)
  PROVE  \E h : TouchRows(m, h, x)
<1> DEFINE h == [n \in 0..x |-> IF n = x THEN TouchRow(m, g, x) ELSE g[n]]
<1>2. h[x] = TouchRow(m, g, x) /\ \A n \in 0..(x - 1) : h[n] = g[n]
  OBVIOUS
<1>3. h = [n \in 0..x |-> h[n]]
  OBVIOUS
<1> HIDE DEF h
<1>4. \A n \in 1..x : TouchRow(m, h, n) = TouchRow(m, g, n)
  <2> SUFFICES ASSUME NEW n \in 1..x PROVE TouchRow(m, h, n) = TouchRow(m, g, n)
    OBVIOUS
  <2> QED  BY <1>2 DEF TouchRow
<1>5. \A n \in 0..x : h[n] = IF n = 0 THEN m ELSE TouchRow(m, h, n)
  <2> SUFFICES ASSUME NEW n \in 0..x PROVE h[n] = IF n = 0 THEN m ELSE TouchRow(m, h, n)
    OBVIOUS
  <2>1. CASE n = 0  BY <1>2, <2>1 DEF TouchRows
  <2>2. CASE n = x  BY <2>2, <1>2, <1>4
  <2>3. CASE n # 0 /\ n # x
    <3>2. h[n] = g[n] /\ g[n] = TouchRow(m, g, n) /\ TouchRow(m, h, n) = TouchRow(m, g, n)
      BY <1>2, <1>4, <2>3 DEF TouchRows
    <3> QED
      BY <2>3, <3>2
  <2> QED
    BY <2>1, <2>2, <2>3
<1> QED  BY <1>3, <1>5 DEF TouchRows

LEMMA TouchRowsExist == ASSUME NEW m, NEW k \in Nat PROVE \E g : TouchRows(m, g, k)
<1> DEFINE T == {x \in Nat : ~\E g : TouchRows(m, g, x)}
<1> SUFFICES ASSUME T # {} PROVE FALSE
  OBVIOUS
<1> DEFINE x == Min(T)
<1>3. x # 0
  <2> DEFINE g == [n \in 0..0 |-> m]
  <2>1. g = [n \in 0..0 |-> IF n = 0 THEN m ELSE TouchRow(m, g, n)]  OBVIOUS
  <2> QED  BY LeastOf, <2>1 DEF TouchRows
<1>4. x - 1 \in Nat /\ x - 1 \notin T
  <2>1. x - 1 \in Nat /\ ~(x <= x - 1)  BY LeastOf, <1>3
  <2> QED  BY LeastOf, <2>1
<1>5. PICK g : TouchRows(m, g, x - 1)
  BY <1>4
<1> QED  BY LeastOf, <1>3, <1>5, TouchRowsExtend

\* Touching the rows that are there changes no more than the order of the models.
LEMMA TouchedOwns ==
  ASSUME NEW m, Owns(m)
  PROVE  Owns(RowsTouched(m)) /\ RowsTouched(m).host = m.host /\ RowsTouched(m).prov = m.prov
<1> DEFINE N == Len(Sources)
           f == CHOOSE g : TouchRows(m, g, N)
           Keeps(w) == Owns(w) /\ w.host = m.host /\ w.prov = m.prov
           T == {x \in 0..N : ~Keeps(f[x])}
<1>1. N \in Nat
  BY ProvisionAssumption
<1>2. TouchRows(m, f, N)
  BY <1>1, TouchRowsExist
<1> HIDE DEF f
<1>3. \A n \in 0..N : f[n] = IF n = 0 THEN m ELSE TouchRow(m, f, n)
  <2> HIDE DEF N
  <2> QED
    BY <1>2 DEF TouchRows
<1> HIDE DEF N
<1>4. T = {}
  <2> SUFFICES ASSUME T # {} PROVE FALSE
    OBVIOUS
  <2> DEFINE x == Min(T)
  <2>2. x \in T /\ \A y \in T : x <= y  BY <1>1, LeastOf
  <2> HIDE DEF x
  <2>3. x \in 0..N /\ ~Keeps(f[x])
    BY <2>2
  <2>4. x # 0  BY <1>3, <2>3, <1>1
  <2>6. Keeps(f[x - 1])  BY <2>2, <1>1, <2>3, <2>4
  <2> DEFINE w == f[x - 1]
             s == Sources[x]
  <2>8. CASE s \in m.host
    <3>1. f[x] = Touch(w, s)  BY <1>3, <2>3, <2>4, <2>8 DEF TouchRow
    <3>2. Owns(w) /\ w.host = m.host /\ w.prov = m.prov /\ s \in w.host
      BY <2>6, <2>8
    <3> HIDE DEF w, s
    <3>3. Keeps(Touch(w, s))
      BY <3>2, TouchOwns
    <3> QED
      BY <2>3, <3>1, <3>3
  <2>9. CASE s \notin m.host  BY <2>3, <2>6, <1>3, <2>4, <2>9 DEF TouchRow
  <2> QED
    BY <2>8, <2>9
<1> QED  BY <1>4, <1>1, TouchedIsLast DEF f, N

-----------------------------------------------------------------------------
(* The lookups.                                                            *)

Lookups == [at : {"no", "asked", "models"}, kind : {"definition", "links"}, sheet : Sheets,
            left : SUBSET SourceFiles, prov : 0..2]
LookupTypes ==
    /\ lookup \in [1..2 -> Lookups]
    /\ navGate \in [on : BOOLEAN, told : BOOLEAN, index : 1..MaxIndex]
    /\ nav.sheet \in Sheets

\* An answer is waited for only while the plugin is on, and models only of the provisioner
\* that is.
Waits(l, on, prov) ==
    /\ l.at = "asked" => on = TRUE
    /\ l.at = "models" => l.kind = "definition" /\ l.prov = prov
RowsInv ==
    \A c \in rowCache : c.of \in {0, navGate.index} /\ (navGate.told = TRUE /\ navGate.on = FALSE => c.of = 0)
LookupInv ==
    /\ LookupTypes /\ Owns(models) /\ RowsInv
    /\ \A i \in 1..2 : Waits(lookup[i], navGate.on, models.prov)

LEMMA LookupsHold == ASSUME LookupInv PROVE RowsAreCurrent /\ ModelsAreOwned
<1> QED  BY DEF LookupInv, RowsInv, Owns, RowsAreCurrent, ModelsAreOwned, LookupTypes

LEMMA NoLookupIs == NoLookup \in Lookups /\ NoLookup.at = "no"
  BY FirstSheetIs DEF NoLookup, Lookups

LEMMA WaitsKept ==
  ASSUME LookupInv, NEW i \in 1..2, NEW l \in Lookups, lookup' = [lookup EXCEPT ![i] = l],
         Waits(l, navGate.on, models.prov), navGate' = navGate, models'.prov = models.prov
  PROVE  lookup' \in [1..2 -> Lookups] /\ \A j \in 1..2 : Waits(lookup'[j], navGate'.on, models'.prov)
  BY DEF LookupInv, LookupTypes

\* The models of an answer that is still of the provisioner.
LEMMA ProvisionsKeep ==
  ASSUME LookupInv, NEW i \in 1..2, NEW rows, Provisions(i, rows), navGate' = navGate
  PROVE  /\ Owns(models') /\ lookup' \in [1..2 -> Lookups]
         /\ \A j \in 1..2 : Waits(lookup'[j], navGate'.on, models'.prov)
<1>0. Owns(models) /\ lookup \in [1..2 -> Lookups] /\ models.prov \in 1..2 /\ nav.sheet \in Sheets
      /\ lookup[i] \in Lookups
  BY DEF LookupInv, LookupTypes, Owns, Provisioners
<1>1. CASE rows
  <2> DEFINE rest == SourceFiles \ models.host
             seen == IF rest = {} THEN "no" ELSE "models"
             l == [lookup[i] EXCEPT !.at = seen, !.kind = "definition", !.sheet = nav.sheet,
                                    !.left = rest, !.prov = models.prov]
  <2>1. models' = RowsTouched(models) /\ lookup' = [lookup EXCEPT ![i] = l]
    BY <1>0, <1>1 DEF Provisions, SourceFiles
  <2>2. seen \in {"no", "models"} /\ rest \in SUBSET SourceFiles
    OBVIOUS
  <2>3. l \in Lookups /\ l.at = seen /\ l.kind = "definition" /\ l.prov = models.prov
    <3> DEFINE o == lookup[i]
               s == nav.sheet
               p == models.prov
    <3>1. o \in Lookups /\ s \in Sheets /\ p \in 0..2 /\ seen \in {"no", "asked", "models"}
      BY <1>0, <2>2
    <3>2. l = [o EXCEPT !.at = seen, !.kind = "definition", !.sheet = s, !.left = rest, !.prov = p]
      OBVIOUS
    <3> HIDE DEF seen, rest, o, l, s, p
    <3>3. l \in Lookups
      BY <2>2, <3>1, <3>2 DEF Lookups
    <3> QED  BY <3>3, <3>1, <3>2 DEF p, Lookups
  <2> HIDE DEF l
  <2>4. Waits(l, navGate.on, models.prov)
    BY <2>2, <2>3 DEF Waits
  <2>5. Owns(models') /\ models'.prov = models.prov
    BY <1>0, <2>1, TouchedOwns
  <2> QED
    BY <2>1, <2>3, <2>4, <2>5, WaitsKept
<1>2. CASE ~rows
  <2>1. lookup' = [lookup EXCEPT ![i] = NoLookup] /\ models' = models
    BY <1>2 DEF Provisions
  <2>2. Waits(NoLookup, navGate.on, models.prov)
    BY NoLookupIs DEF Waits
  <2> QED
    BY <1>0, <2>1, <2>2, NoLookupIs, WaitsKept
<1> QED
  BY <1>1, <1>2

LEMMA ModelReadKeeps ==
  ASSUME LookupInv, NEW i \in 1..2, NEW f \in SourceFiles, NEW text \in BOOLEAN, ModelRead(i, f, text)
  PROVE  LookupInv'
<1>0. /\ Owns(models) /\ lookup[i] \in Lookups /\ lookup[i].at = "models" /\ lookup[i].prov = models.prov
      /\ lookup[i].kind = "definition" /\ navGate' = navGate /\ rowCache' = rowCache /\ nav' = nav
  BY DEF LookupInv, LookupTypes, ModelRead, Waits
<1>1. Owns(models') /\ models'.prov = models.prov
  <2>1. CASE ~text
    BY <1>0, <2>1 DEF ModelRead
  <2>2. CASE text /\ f \in models.host  BY <1>0, <2>2, TouchOwns DEF ModelRead
  <2>3. CASE text /\ f \notin models.host  BY <1>0, <2>3, OwnOwns DEF ModelRead
  <2> QED
    BY <2>1, <2>2, <2>3
<1> DEFINE rest == lookup[i].left \ {f}
           l == IF lookup[i].left = {f} THEN NoLookup ELSE [lookup[i] EXCEPT !.left = rest]
<1>2. lookup' = [lookup EXCEPT ![i] = l]
  <2>1. CASE lookup[i].left = {f}
    BY <2>1 DEF ModelRead
  <2>2. CASE lookup[i].left # {f}
    <3> DEFINE o == lookup[i]
               e == [o EXCEPT !.left = rest]
    <3> QED  BY <2>2 DEF ModelRead
  <2> QED
    BY <2>1, <2>2
<1>3. rest \in SUBSET SourceFiles
  BY <1>0 DEF Lookups
<1>4. l \in Lookups /\ (l.at = "no" \/ (l.at = "models" /\ l.kind = "definition" /\ l.prov = models.prov))
  <2>1. CASE lookup[i].left = {f}
    BY <2>1, NoLookupIs
  <2>2. CASE lookup[i].left # {f}
    <3> DEFINE o == lookup[i]
    <3>1. l = [o EXCEPT !.left = rest]
      BY <2>2
    <3>2. o \in Lookups /\ o.at = "models" /\ o.kind = "definition" /\ o.prov = models.prov
      BY <1>0
    <3> HIDE DEF rest, o, l
    <3> QED
      BY <1>3, <3>1, <3>2 DEF Lookups
  <2> QED
    BY <2>1, <2>2
<1> HIDE DEF l
<1> QED  BY <1>0, <1>1, <1>2, <1>4, WaitsKept DEF LookupInv, LookupTypes, RowsInv, Waits

LEMMA LookupAskedKeeps ==
  ASSUME LookupInv, NEW i \in 1..2, NEW kind \in {"definition", "links"}, LookupAsked(i, kind)
  PROVE  LookupInv'
<1>1. ASSUME NEW c, Provisions(i, kind = "definition" /\ c.of # 0), rowCache' = rowCache PROVE LookupInv'
  BY <1>1, ProvisionsKeep DEF LookupInv, LookupTypes, RowsInv, LookupAsked, Owns, Provisioners
<1>2. ASSUME lookup' = [lookup EXCEPT ![i] = [at |-> IF navGate.on THEN "asked" ELSE "no",
                kind |-> kind, sheet |-> nav.sheet, left |-> {}, prov |-> models.prov]],
             rowCache' = IF navGate.on THEN rowCache
                         ELSE rowCache \union {[kind |-> kind, sheet |-> nav.sheet, of |-> 0]},
             models' = models
      PROVE  LookupInv'
  <2> DEFINE l == [at |-> IF navGate.on THEN "asked" ELSE "no", kind |-> kind, sheet |-> nav.sheet,
                   left |-> {}, prov |-> models.prov]
  <2>2. lookup' = [lookup EXCEPT ![i] = l]
    BY <1>2
  <2> HIDE DEF l
  <2>3. lookup' \in [1..2 -> Lookups] /\ \A j \in 1..2 : Waits(lookup'[j], navGate'.on, models'.prov)
    BY <1>2, <2>2, WaitsKept DEF Lookups, Waits, LookupAsked, LookupInv, LookupTypes, Owns, Provisioners
  <2> QED  BY <1>2, <2>3 DEF LookupInv, LookupTypes, RowsInv, LookupAsked, Owns, Provisioners
<1> QED
  BY <1>1, <1>2 DEF LookupAsked

LEMMA CachesKeep ==
  ASSUME LookupInv, NEW i \in 1..2, NEW of, Caches(i, of), navGate' = navGate,
         of = 0 \/ (of = navGate.index /\ navGate.on = TRUE)
  PROVE  RowsInv'
<1> QED  BY DEF LookupInv, RowsInv, Caches

LEMMA LookupStep ==
  ASSUME Swaps = FALSE, GateRaces = FALSE, LookupInv, LookupNext
  PROVE  LookupInv'
<1>0. Owns(models) /\ models \in Provisioners /\ models.prov \in 1..2 /\ nav.sheet \in Sheets /\ LookupTypes
  BY DEF LookupInv, LookupTypes, Owns, Provisioners
<1>1. ASSUME NEW i \in 1..2, NEW kind \in {"definition", "links"}, LookupAsked(i, kind) PROVE LookupInv'
  BY <1>1, LookupAskedKeeps
<1>2. ASSUME NEW i \in 1..2, LookupAnswered(i) PROVE LookupInv'
  BY <1>0, <1>2, CachesKeep, ProvisionsKeep DEF LookupInv, LookupTypes, LookupAnswered, Waits
<1>3. ASSUME NEW i \in 1..2, LookupRefused(i) PROVE LookupInv'
  <2>4. lookup' \in [1..2 -> Lookups] /\ \A j \in 1..2 : Waits(lookup'[j], navGate'.on, models'.prov)
    BY <1>3, NoLookupIs, WaitsKept DEF LookupRefused, Waits
  <2> QED  BY <1>0, <1>3, CachesKeep, <2>4 DEF LookupInv, LookupTypes, LookupRefused, RowsInv
<1>4. ASSUME NEW i \in 1..2, NEW f \in ToSet(Sources), NEW text \in BOOLEAN, ModelRead(i, f, text)
      PROVE  LookupInv'
  BY <1>4, ModelReadKeeps DEF SourceFiles
<1>5. ASSUME NEW s \in Sheets, SheetSwitched(s) PROVE LookupInv'
  <2> DEFINE d == DisposeAll(models)
             p == 3 - models.prov
  <2>1. Owns(d) /\ d.prov = models.prov /\ d \in Provisioners /\ p \in 1..2
    BY <1>0, DisposedOwns
  <2>2. models' = [d EXCEPT !.prov = p]
    BY <1>5, <2>1 DEF SheetSwitched
  <2> HIDE DEF d, p
  <2>3. Owns(models') /\ models'.prov = p
    BY <2>1, <2>2 DEF Owns, Provisioners
  <2>6. UNCHANGED <<rowCache, lookup, navGate>>
    BY <1>5 DEF SheetSwitched
  <2> QED  BY <2>3, <1>5, <1>0, <2>6 DEF LookupInv, LookupTypes, RowsInv, Waits, SheetSwitched
<1>6. CASE IndexChanges
  <2>3. navGate' \in [on : BOOLEAN, told : BOOLEAN, index : 1..MaxIndex] /\ navGate'.on = navGate.on
    BY <1>6, IndexAssumption DEF IndexChanges, LookupInv, LookupTypes
  <2>4. rowCache' = {} /\ UNCHANGED <<lookup, nav>>
    BY <1>6 DEF IndexChanges
  <2> QED  BY <1>0, <1>6, DisposedOwns, <2>3, <2>4 DEF LookupInv, LookupTypes, RowsInv, IndexChanges
<1>7. CASE GateSwitches
  <2> DEFINE n == ~navGate.on
  <2>2. n \in BOOLEAN
    OBVIOUS
  <2> HIDE DEF n
  <2>4. /\ navGate' \in [on : BOOLEAN, told : BOOLEAN, index : 1..MaxIndex] /\ navGate'.told = FALSE
        /\ navGate'.index = navGate.index  BY <1>0, <2>2, <1>7 DEF LookupTypes, n, GateSwitches
  <2> QED  BY <1>0, <2>4, <1>7 DEF LookupInv, LookupTypes, RowsInv, Waits, GateSwitches
<1>8. CASE GateAnnounced  BY <1>0, <1>8 DEF LookupInv, LookupTypes, RowsInv, GateAnnounced
<1>9. ASSUME NEW c \in rowCache, RowsExpire(c) PROVE LookupInv'
  BY <1>0, <1>9 DEF LookupInv, LookupTypes, RowsInv, RowsExpire
<1> QED
  BY <1>1, <1>2, <1>3, <1>4, <1>5, <1>6, <1>7, <1>8, <1>9 DEF LookupNext

-----------------------------------------------------------------------------
(* Code navigation as a whole.                                             *)

IndexInv == IndexTypes /\ SkipInv /\ StatusInv /\ FollowInv
NavInv == IndexInv /\ KeysInv /\ LookupInv /\ SearchInv /\ HistoryInv

LEMMA NavHolds == ASSUME NavInv PROVE NavIsHonest
  BY SkipHolds, StatusHolds, FollowHolds, KeysHold, LookupsHold, SearchHolds
     DEF NavInv, IndexInv, HistoryInv, NavIsHonest

LEMMA NavStarts == ASSUME NavInit PROVE NavInv
<1>1. 0 \in 0..MaxTree /\ 1 \in 1..MaxTree /\ 1 \in 1..MaxIndex /\ NoIngest \in Ingests
  BY IndexAssumption DEF NoIngest, Ingests
<1>3. IndexTypes
  <2>1. cortex \in [tool : Tools, enabled : BOOLEAN, running : BOOLEAN, due : BOOLEAN]
    BY DEF NavInit
  <2>2. indexed \in [keyed : BOOLEAN, is : {"none", "old", "ok"}, fp : 0..MaxTree]
    BY <1>1 DEF NavInit
  <2>3. mirror \in [is : BOOLEAN, of : 0..MaxTree, label : 0..MaxTree]
    BY <1>1 DEF NavInit
  <2>4. watch \in [is : {"no", "asked", "on"}, timer : BOOLEAN] /\ navView \in NavViews
    BY DEF NavInit, NavViews
  <2> QED
    BY <1>1, <2>1, <2>2, <2>3, <2>4 DEF NavInit, IndexTypes
<1>4. SkipInv  BY DEF NavInit, SkipInv, IndexedInv, IngestInv, MirrorInv, Bar, NoIngest
<1>5. StatusInv /\ FollowInv  BY DEF NavInit, StatusInv, Settled, FollowInv, IngestsFor, Calm, NoIngest
<1>6. KeysInv
  BY NoScanIs DEF NavInit, KeysInv, KeyTypes
<1>7. Owns(models)  BY ProvisionAssumption DEF Owns, Provisioners, ToSet, IsInjective, NavInit
<1>8. nav \in Histories /\ WayBack  BY FirstSheetIs DEF Histories, WayBack, NavInit, Places
<1>9. LookupInv  BY <1>7, <1>1, <1>8, NoLookupIs DEF LookupInv, LookupTypes, RowsInv, Waits, NavInit, Histories
<1>10. SearchInv
  <2>3. CASE scope = "search"
    <3>1. search = [on |-> TRUE, query |-> 1, timer |-> TRUE, sent |-> <<>>, results |-> 0, failed |-> FALSE]
      BY <2>3 DEF NavInit
    <3> QED  BY <3>1 DEF SearchInv
  <2>4. CASE scope # "search"  BY <2>4 DEF SearchInv, NavInit
  <2> QED
    BY <2>3, <2>4
<1> QED
  BY <1>3, <1>4, <1>5, <1>6, <1>8, <1>9, <1>10 DEF NavInv, IndexInv, HistoryInv

LEMMA IndexFrame == ASSUME IndexInv, UNCHANGED indexVars PROVE IndexInv'
  BY DEF indexVars, IndexInv, IndexTypes, SkipInv, IndexedInv, IngestInv, MirrorInv, Bar, StatusInv, Settled,
         MainStatus, StatusBehindGate, FollowInv, IngestsFor, Calm

LEMMA KeysFrame == ASSUME KeysInv, UNCHANGED keyVars PROVE KeysInv'
  BY DEF keyVars, KeysInv, KeyTypes

LEMMA LookupFrame == ASSUME LookupInv, UNCHANGED lookupVars, nav'.sheet \in Sheets PROVE LookupInv'
  BY DEF lookupVars, LookupInv, LookupTypes, RowsInv

LEMMA HistoryFrame == ASSUME HistoryInv, nav' = nav PROVE HistoryInv'
  BY DEF HistoryInv, WayBack

\* The lookups only change the worktree that is shown.
LEMMA HistoryOfLookups == ASSUME HistoryInv, LookupNext PROVE HistoryInv'
<1>2. ASSUME NEW s \in Sheets, nav' = [nav EXCEPT !.sheet = s] PROVE HistoryInv'
  BY <1>2 DEF HistoryInv, WayBack, Histories
<1> QED
  BY <1>2, HistoryFrame DEF LookupNext, LookupAsked, LookupAnswered, LookupRefused, ModelRead, SheetSwitched,
     IndexChanges, GateSwitches, GateAnnounced, RowsExpire

LEMMA NavStep ==
  ASSUME NavInv, Returns = FALSE, Joins = FALSE, GateRaces = FALSE, Swaps = FALSE, Crosses = FALSE,
         NavNext \/ UNCHANGED navVars
  PROVE  NavInv'
<1>0. IndexInv /\ KeysInv /\ LookupInv /\ SearchInv /\ HistoryInv /\ nav.sheet \in Sheets
  BY DEF NavInv, LookupInv, LookupTypes
<1>1. CASE IndexNext
  <2>1. IndexInv'
    BY <1>0, <1>1, IndexTypesStep, SkipStep, StatusStep, FollowStep DEF IndexInv
  <2>2. UNCHANGED <<keyVars, lookupVars, search, nav>>
    BY <1>1 DEF IndexNext
  <2>3. SearchInv'
    BY <1>0, <2>2 DEF SearchInv
  <2> QED
    BY <1>0, <2>1, <2>2, <2>3, KeysFrame, LookupFrame, HistoryFrame DEF NavInv
<1>2. CASE KeysNext
  <2>1. UNCHANGED <<indexVars, lookupVars, search, nav>>
    BY <1>2 DEF KeysNext
  <2>2. SearchInv'
    BY <1>0, <2>1 DEF SearchInv
  <2> QED
    BY <1>0, <1>2, <2>1, <2>2, KeysStep, IndexFrame, LookupFrame, HistoryFrame DEF NavInv
<1>3. CASE LookupNext
  <2>1. UNCHANGED <<indexVars, keyVars, search>>
    BY <1>3 DEF LookupNext
  <2>2. SearchInv'
    BY <1>0, <2>1 DEF SearchInv
  <2> QED
    BY <1>0, <1>3, <2>1, <2>2, LookupStep, IndexFrame, KeysFrame, HistoryOfLookups DEF NavInv
<1>4. CASE SearchNext
  <2>1. UNCHANGED <<indexVars, keyVars, lookupVars, nav>>
    BY <1>4 DEF SearchNext
  <2> QED
    BY <1>0, <1>4, <2>1, SearchStep, IndexFrame, KeysFrame, LookupFrame, HistoryFrame DEF NavInv
<1>5. CASE HistoryNext
  <2>1. UNCHANGED <<indexVars, keyVars, lookupVars, search>>
    BY <1>5 DEF HistoryNext
  <2>2. HistoryInv' /\ nav'.sheet \in Sheets
    BY <1>0, <1>5, HistoryStep DEF HistoryInv, Histories
  <2>3. SearchInv'
    BY <1>0, <2>1 DEF SearchInv
  <2> QED
    BY <1>0, <2>1, <2>2, <2>3, IndexFrame, KeysFrame, LookupFrame DEF NavInv
<1>6. CASE UNCHANGED navVars
  <2>1. UNCHANGED <<indexVars, keyVars, lookupVars, search, nav>>
    BY <1>6 DEF navVars
  <2>2. SearchInv'
    BY <1>0, <2>1 DEF SearchInv
  <2> QED
    BY <1>0, <2>1, <2>2, IndexFrame, KeysFrame, LookupFrame, HistoryFrame DEF NavInv
<1> QED
  BY <1>1, <1>2, <1>3, <1>4, <1>5, <1>6 DEF NavNext

-----------------------------------------------------------------------------
(* The program.                                                            *)

\* A step of the program moves one part and leaves the others as they are.
LEMMA WorkSteps ==
  ASSUME [Next]_vars
  PROVE  /\ DashNext \/ UNCHANGED dashVars
         /\ LensNext \/ UNCHANGED lensVars
         /\ NavNext \/ UNCHANGED navVars
<1>1. CASE UNCHANGED vars
  BY <1>1 DEF vars
<1>2. CASE Next
  BY <1>2 DEF Next, Others
<1> QED
  BY <1>1, <1>2

LEMMA WorkStarts == Init => DashInit /\ LensInit /\ NavInit
  BY DEF Init

\* Theorem: for any bounds, and whatever reads fail, once no fetch counts any more the
\* dashboard shows the range that is picked, or blames a store that failed; its tiles, table
\* and chart are the ledger's if the stores stood still, it is empty only if they are, and a
\* capture that was not acknowledged is announced.  And the lens, its dialog, the archive and
\* the log of any budget follow whisper: each ends with what it did last, and nothing older
\* takes its place.  It needs that a notice is not acknowledged while another is on its
\* way, that states wait for the workspace, tells for the one before and a dialog for its
\* worktree, that whisper stamps its writes in their order and takes none back, and that no
\* number of an evicted file is given again (use-insights-dashboard, whisper-state,
\* WorkflowDetail, archiveOnce, agent-attention-logger).
THEOREM RecordsCorrect ==
  Quick = FALSE /\ Deaf = FALSE /\ Talks = FALSE /\ Leaves = FALSE /\ Tardy = FALSE
    /\ Reverts = FALSE /\ Reuses = FALSE => (Spec => []RecordsAreTrue)
<1> SUFFICES ASSUME Quick = FALSE, Deaf = FALSE, Talks = FALSE, Leaves = FALSE, Tardy = FALSE,
                    Reverts = FALSE, Reuses = FALSE
             PROVE  Spec => []RecordsAreTrue
  OBVIOUS
<1>1. Init => DashInv /\ LensInv
  BY WorkStarts, DashStarts, LensStarts
<1>2. DashInv /\ LensInv /\ [Next]_vars => DashInv' /\ LensInv'
  BY WorkSteps, DashStep, LensStep
<1>3. DashInv /\ LensInv => RecordsAreTrue
  BY DashHolds, LensHolds DEF RecordsAreTrue
<1> QED
  BY <1>1, <1>2, <1>3, PTL DEF Spec

\* Theorem: for any worktrees, files, queries and caps: an ingest is passed over only if the
\* mirror holds what the store holds, through cuts and crashes; once nothing is under way the
\* Symbols pane says what the main process would, and the mirror is that of the tree that is
\* watched; a worktree the last scan listed is known; the cached rows are those of the mirror
\* as it is; the provisioner keeps its models once each and within its cap; the symbols are
\* those of the query, and the way back leads where the reader was before the definitions.
\* It needs that the tree does not return to a version it had, that no batch joins a refresh
\* that runs, that the plugin is not switched and the provisioner not replaced while an answer
\* is under way, and that searches answer in order (cortex-store-to-mirror, cortex-refresh,
\* cortex-key-resolver, model-provisioner, use-symbol-search, nav-history).
THEOREM NavCorrect ==
  Returns = FALSE /\ Joins = FALSE /\ GateRaces = FALSE /\ Swaps = FALSE /\ Crosses = FALSE
    => (Spec => []NavIsHonest)
<1> SUFFICES ASSUME Returns = FALSE, Joins = FALSE, GateRaces = FALSE, Swaps = FALSE, Crosses = FALSE
             PROVE  Spec => []NavIsHonest
  OBVIOUS
<1>1. Init => NavInv
  BY WorkStarts, NavStarts
<1>2. NavInv /\ [Next]_vars => NavInv'
  BY WorkSteps, NavStep
<1>3. NavInv => NavIsHonest
  BY NavHolds
<1> QED
  BY <1>1, <1>2, <1>3, PTL DEF Spec

===============================================================================
