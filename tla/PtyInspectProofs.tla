--------------------------- MODULE PtyInspectProofs ---------------------------
(***************************************************************************)
(* Proofs about PtyInspect, for every set of agents and terminals and      *)
(* every geometry, and about PtyRows, for every page, tail and scrollback  *)
(* size and every number of outputs.  The two modules share no state: the  *)
(* first follows which terminal a phone watches, the second what it is     *)
(* served of one.                                                          *)
(*                                                                         *)
(* The methods of the registry are operators on viewport records, so the   *)
(* inductive invariant is made of predicates on such a record, with one    *)
(* lemma per method: Sound (gate and sizes), Honest (sizes applied and     *)
(* events told), and Keeps for what a method may do to the watch and the   *)
(* subscription, from which Follows (the catalog) is derived.  An action   *)
(* preserves them because it installs the record a method returns, or      *)
(* because it changes a session the way they allow.                        *)
(***************************************************************************)
EXTENDS PtyInspect, PtyRows, SequenceTheorems, FiniteSetTheorems, TLAPS

ViewportType ==
    [gate : SUBSET Terms, size : [Terms -> Sizes],
     active : Agents \cup {NoAgent}, watch : Watches \cup {NoWatch},
     emitted : Events, pane : [Terms -> Events]]

Created(t) == session[t] # "none"

Holds(v, t) == v.watch # NoWatch /\ v.watch.term = t /\ v.watch.owner = "phone"

\* The desktop's half of the state, which the registry only reads.
DesktopOK ==
    /\ session \in [Terms -> {"none", "running", "exited"}]
    /\ desk \in [Terms -> Sizes]
    /\ \A t \in Terms : desk[t] # NoSize <=> Running(t)

Sound(v) ==
    /\ v \in ViewportType
    /\ \A t \in v.gate : Holds(v, t)
    /\ \A t \in Terms : Holds(v, t) /\ Running(t) => t \in v.gate
    /\ \A t \in Terms : Running(t) /\ t \notin v.gate => v.size[t] = desk[t]
    /\ v.watch # NoWatch => Created(v.watch.term)

\* The rest of TypeOK; a catalog entry is bound to a terminal that was created.
CatalogTypeOK ==
    /\ entries \in [Agents -> Entries \cup {NoEntry}]
    /\ \A a \in Agents : Known(a) => Created(entries[a].term)
    /\ drains \in [Terms -> {"none", "bound", "orphan"}]
    /\ told \in SUBSET Terms
    /\ paired \in BOOLEAN
    /\ online \in BOOLEAN
    /\ stopped \in BOOLEAN

IInv == DesktopOK /\ CatalogTypeOK /\ Sound(Viewport)

-----------------------------------------------------------------------------
(* The methods of the registry.                                            *)

LEMMA EndedType == Ended \in Events
  BY DEF Ended, Events, Sizes

LEMMA EventType ==
  ASSUME NEW w \in Watches
  PROVE  OwnedEvent(w) \in Events
  BY DEF OwnedEvent, Events, Watches

LEMMA ClampType ==
  ASSUME NEW pre \in Nat, NEW cols \in Nat
  PROVE  ClampToPreWatch(pre, cols) \in Nat
  BY FloorAssumption DEF ClampToPreWatch, AtMost, AtLeast

LEMMA PreWatchType ==
  ASSUME DesktopOK, NEW t \in Terms
  PROVE  PreWatch(t) \in Nat
  BY SizeAssumption DEF PreWatch, GetDesktopGeometry, DesktopOK, Sizes

\* Telling the renderer leaves everything but emitted and pane alone.
LEMMA EmitOwnedSound ==
  ASSUME NEW v, Sound(v), v.watch # NoWatch
  PROVE  /\ Sound(EmitWatchOwned(v))
         /\ EmitWatchOwned(v).watch = v.watch
         /\ EmitWatchOwned(v).gate = v.gate
         /\ EmitWatchOwned(v).size = v.size
         /\ EmitWatchOwned(v).active = v.active
<1> v.watch \in Watches /\ OwnedEvent(v.watch) \in Events
  BY EventType DEF Sound, ViewportType
<1> QED
  BY DEF Sound, ViewportType, EmitWatchOwned, Holds, Watches

\* Giving terminal t back to the desktop, when no other terminal is gated, leaves
\* every running terminal as the desktop wants it.
LEMMA Released ==
  ASSUME DesktopOK, NEW v \in ViewportType, NEW t \in Terms,
         v.gate \subseteq {t},
         \A x \in Terms : Running(x) /\ x # t => v.size[x] = desk[x]
  PROVE  LET r == EmitWatchEnded(RestoreDesktopGeometry(v, t), t)
         IN  /\ r \in ViewportType
             /\ r.gate = {}
             /\ \A x \in Terms : Running(x) => r.size[x] = desk[x]
             /\ r.watch = v.watch
             /\ r.active = v.active
<1> DEFINE u == RestoreDesktopGeometry(v, t)
           r == EmitWatchEnded(u, t)
<1>1. u \in ViewportType /\ u.watch = v.watch /\ u.active = v.active
  BY DEF RestoreDesktopGeometry, ApplyWatchResize, ViewportType, DesktopOK
<1>2. u.gate = {}
  BY DEF RestoreDesktopGeometry, ApplyWatchResize, ViewportType
<1>3. \A x \in Terms : Running(x) => u.size[x] = desk[x]
  BY DEF RestoreDesktopGeometry, ApplyWatchResize, ViewportType, DesktopOK
<1> HIDE DEF u
<1>4. r \in ViewportType
  BY <1>1, EndedType DEF ViewportType, EmitWatchEnded
<1>5. r.watch = u.watch /\ r.active = u.active /\ r.gate = u.gate /\ r.size = u.size
  BY <1>1 DEF ViewportType, EmitWatchEnded
<1> QED
  BY <1>1, <1>2, <1>3, <1>4, <1>5 DEF u

\* What Sound says of the terminal a watch is on, and of the others.
LEMMA SoundWatch ==
  ASSUME NEW v, Sound(v), v.watch # NoWatch
  PROVE  /\ v \in ViewportType
         /\ v.watch \in Watches
         /\ v.watch.term \in Terms
         /\ Created(v.watch.term)
         /\ v.gate \subseteq {v.watch.term}
         /\ v.watch.owner = "desktop" => v.gate = {}
         /\ \A x \in Terms : Running(x) /\ x # v.watch.term => v.size[x] = desk[x]
  BY DEF Sound, Holds, ViewportType, Watches, Owners

LEMMA SoundIdle ==
  ASSUME NEW v, Sound(v), v.watch = NoWatch
  PROVE  /\ v \in ViewportType
         /\ v.gate = {}
         /\ \A x \in Terms : Running(x) => v.size[x] = desk[x]
  BY DEF Sound, Holds, ViewportType

LEMMA RestoreSound ==
  ASSUME DesktopOK, NEW v, Sound(v)
  PROVE  /\ Sound(ExecuteWatchRestore(v))
         /\ ExecuteWatchRestore(v).watch = NoWatch
         /\ ExecuteWatchRestore(v).active = v.active
<1>1. CASE v.watch = NoWatch
  BY <1>1 DEF ExecuteWatchRestore
<1>2. CASE v.watch # NoWatch
  <2> DEFINE t == v.watch.term
             u == [v EXCEPT !.watch = NoWatch]
             r == EmitWatchEnded(RestoreDesktopGeometry(u, t), t)
  <2>1. /\ u \in ViewportType /\ u.gate = v.gate /\ u.size = v.size
        /\ u.watch = NoWatch /\ u.active = v.active
    BY <1>2, SoundWatch DEF ViewportType
  <2>2. /\ r \in ViewportType /\ r.gate = {} /\ r.watch = NoWatch /\ r.active = v.active
        /\ \A x \in Terms : Running(x) => r.size[x] = desk[x]
    <3> HIDE DEF u
    <3> QED
      BY <1>2, <2>1, SoundWatch, Released
  <2>3. ExecuteWatchRestore(v) = r
    BY <1>2 DEF ExecuteWatchRestore
  <2> HIDE DEF r
  <2> QED
    BY <2>2, <2>3 DEF Sound, Holds
<1> QED
  BY <1>1, <1>2

\* A watch may change in every way that keeps its terminal and its owner.
LEMMA SameHolderSound ==
  ASSUME NEW v, Sound(v), v.watch # NoWatch,
         NEW w \in Watches, w.term = v.watch.term, w.owner = v.watch.owner
  PROVE  Sound([v EXCEPT !.watch = w])
<1> QED  BY WatchAssumption DEF Sound, Holds, ViewportType

LEMMA GraceSound ==
  ASSUME NEW v, Sound(v)
  PROVE  Sound(ScheduleWatchGraceRestore(v))
<1>1. CASE v.watch = NoWatch
  BY <1>1 DEF ScheduleWatchGraceRestore
<1>2. CASE v.watch # NoWatch
  <2> DEFINE w == [v.watch EXCEPT !.grace = TRUE]
  <2>1. /\ w \in Watches
        /\ w.term = v.watch.term
        /\ w.owner = v.watch.owner
    BY <1>2 DEF Sound, ViewportType, Watches
  <2>2. ScheduleWatchGraceRestore(v) = [v EXCEPT !.watch = w]
    BY <1>2 DEF ScheduleWatchGraceRestore, Sound, ViewportType
  <2> HIDE DEF w
  <2> QED
    BY <1>2, <2>1, <2>2, SameHolderSound
<1> QED
  BY <1>1, <1>2

\* The subscription may be replaced at will.
LEMMA ActiveSound ==
  ASSUME NEW v, Sound(v), NEW a \in Agents \cup {NoAgent}
  PROVE  Sound([v EXCEPT !.active = a])
  BY DEF Sound, Holds, ViewportType

LEMMA DropSound ==
  ASSUME DesktopOK, NEW v, Sound(v), NEW op
  PROVE  Sound(Drop(v, op))
<1> DEFINE ended == [v EXCEPT !.active = NoAgent]
<1> QED  BY ActiveSound, RestoreSound, GraceSound DEF Drop

LEMMA TeardownSound ==
  ASSUME DesktopOK, NEW v, Sound(v)
  PROVE  Sound(Teardown(v)) /\ Teardown(v).watch = NoWatch
  BY DropSound, RestoreSound DEF Teardown

LEMMA SessionGoneSound ==
  ASSUME DesktopOK, NEW v, Sound(v), NEW a
  PROVE  Sound(OnSessionGone(v, a))
<1> DEFINE dropped == IF v.active = a THEN Drop(v, "teardown") ELSE v
<1> HIDE DEF dropped
<1> QED  BY DropSound, RestoreSound DEF OnSessionGone, dropped

LEMMA SubscribeSound ==
  ASSUME DesktopOK, NEW v, Sound(v), NEW a \in Agents
  PROVE  Sound(SubscribeTo(v, a))
  BY DropSound, ActiveSound DEF SubscribeTo

LEMMA UnsubscribeSound ==
  ASSUME DesktopOK, NEW v, Sound(v), NEW a \in Agents, NEW known \in BOOLEAN
  PROVE  Sound(UnsubscribeFrom(v, a, known))
  BY DropSound, GraceSound, RestoreSound DEF UnsubscribeFrom

\* A record whose watch is owned by the phone and gated on its terminal is sound
\* when every other terminal is as the desktop wants it.
LEMMA OwnedSound ==
  ASSUME NEW v \in ViewportType, v.watch \in Watches,
         v.gate = {v.watch.term}, v.watch.owner = "phone", Created(v.watch.term),
         \A t \in Terms : Running(t) /\ t # v.watch.term => v.size[t] = desk[t]
  PROVE  Sound(v)
  BY WatchAssumption DEF Sound, Holds, Watches

\* So is one whose watch the desktop has reclaimed.
LEMMA ReclaimedSound ==
  ASSUME NEW v \in ViewportType, v.watch \in Watches,
         v.gate = {}, v.watch.owner = "desktop", Created(v.watch.term),
         \A t \in Terms : Running(t) => v.size[t] = desk[t]
  PROVE  Sound(v)
  BY DEF Sound, Holds, ViewportType

\* Gating the terminal of the watch, at any size, and installing a watch w on it.
LEMMA TakeSound ==
  ASSUME NEW v \in ViewportType,
         NEW w \in Watches, w.owner = "phone", Created(w.term),
         v.gate \subseteq {w.term},
         \A t \in Terms : Running(t) /\ t # w.term => v.size[t] = desk[t]
  PROVE  /\ Sound(EmitWatchOwned([SetPhoneOwned(v, w.term) EXCEPT !.watch = w]))
         /\ \A cols \in Nat : Sound(EmitWatchOwned(
                [ApplyWatchResize(SetPhoneOwned(v, w.term), w.term, cols)
                    EXCEPT !.watch = w]))
<1>0. w # NoWatch /\ w.term \in Terms
  BY WatchAssumption DEF Watches
<1> DEFINE g == [SetPhoneOwned(v, w.term) EXCEPT !.watch = w]
<1>1. /\ g \in ViewportType
      /\ g.watch = w
      /\ g.gate = {w.term}
      /\ g.size = v.size
  BY <1>0 DEF SetPhoneOwned, ViewportType
<1>2. Sound(EmitWatchOwned(g))
  <2> HIDE DEF g
  <2> QED  BY <1>0, <1>1, OwnedSound, EmitOwnedSound
<1>3. ASSUME NEW cols \in Nat
      PROVE  Sound(EmitWatchOwned([ApplyWatchResize(SetPhoneOwned(v, w.term), w.term, cols)
                                      EXCEPT !.watch = w]))
  <2> DEFINE h == [ApplyWatchResize(SetPhoneOwned(v, w.term), w.term, cols)
                      EXCEPT !.watch = w]
  <2>1. /\ h \in ViewportType
        /\ h.watch = w
        /\ h.gate = {w.term}
        /\ \A t \in Terms : t # w.term => h.size[t] = v.size[t]
    BY <1>0 DEF SetPhoneOwned, ApplyWatchResize, ViewportType, Sizes
  <2> HIDE DEF h
  <2>3. Sound(EmitWatchOwned(h))  BY <1>0, <2>1, OwnedSound, EmitOwnedSound
  <2> QED
    BY <2>3 DEF h
<1> QED
  BY <1>2, <1>3

LEMMA SetViewportSound ==
  ASSUME DesktopOK, NEW v, Sound(v), NEW a \in Agents, NEW t \in Terms, Created(t),
         NEW cols \in Nat
  PROVE  Sound(SetViewport(v, a, t, cols))
<1> DEFINE kept == IF v.watch = NoWatch \/ Watching(v, a) THEN v ELSE ExecuteWatchRestore(v)
           w == IF Watching(kept, a) THEN kept.watch ELSE NewWatch(a, t)
           asked == [w EXCEPT !.owner = "phone", !.grace = FALSE, !.requested = cols,
                              !.pending = ClampToPreWatch(w.pre, cols), !.debounce = TRUE]
<1>1. Sound(kept) /\ (kept.watch = NoWatch \/ Watching(kept, a))
  BY RestoreSound
<1> HIDE DEF kept
<1>2. w \in Watches /\ Created(w.term)
  BY <1>1, PreWatchType, SoundWatch DEF Watching, NewWatch, Watches, Owners, Sizes
<1>3. asked \in Watches /\ asked.term = w.term /\ asked.owner = "phone"
  BY <1>2, ClampType DEF Watches, Owners, Sizes
<1>4. SetViewport(v, a, t, cols) =
        EmitWatchOwned([(IF Watching(kept, a) /\ w.owner = "phone" THEN kept
                         ELSE SetPhoneOwned(kept, w.term)) EXCEPT !.watch = asked])
  BY DEF SetViewport, kept
<1>5. CASE Watching(kept, a) /\ w.owner = "phone"
  <2>1. w = kept.watch /\ kept.watch # NoWatch
    BY <1>5 DEF Watching
  <2> HIDE DEF w
  <2> HIDE DEF asked
  <2>2. Sound([kept EXCEPT !.watch = asked])
    BY <1>1, <1>3, <1>5, <2>1, SameHolderSound
  <2>3. [kept EXCEPT !.watch = asked].watch # NoWatch
    BY <1>1, <1>3, WatchAssumption DEF Sound, ViewportType
  <2> QED
    BY <1>4, <1>5, <2>2, <2>3, EmitOwnedSound
<1>6. CASE ~(Watching(kept, a) /\ w.owner = "phone")
  <2>1. /\ kept \in ViewportType
        /\ kept.gate \subseteq {w.term}
        /\ \A x \in Terms : Running(x) /\ x # w.term => kept.size[x] = desk[x]
    BY <1>1, <1>6, SoundWatch, SoundIdle DEF Watching
  <2> HIDE DEF w
  <2> HIDE DEF asked
  <2> QED  BY <1>3, <1>4, <1>6, <1>2, <2>1, TakeSound
<1> QED
  BY <1>5, <1>6

LEMMA MigrateSound ==
  ASSUME DesktopOK, NEW v, Sound(v), v.watch # NoWatch, NEW t \in Terms, Created(t)
  PROVE  Sound(MigrateWatchToRebound(v, t))
<1> DEFINE old == v.watch
           r == EmitWatchEnded(RestoreDesktopGeometry(v, old.term), old.term)
           moved == [old EXCEPT !.term = t, !.pre = PreWatch(t), !.applied = NoSize,
                                !.pending = NoSize, !.debounce = FALSE, !.force = FALSE]
           narrow == ClampToPreWatch(moved.pre, old.requested)
<1>1. old \in Watches /\ old.term \in Terms
  BY SoundWatch
<1>2. moved \in Watches /\ moved.term = t /\ moved.owner = old.owner /\ moved.pre \in Nat
  BY <1>1, PreWatchType DEF Watches, Sizes
<1>3. /\ r \in ViewportType /\ r.gate = {}
      /\ \A x \in Terms : Running(x) => r.size[x] = desk[x]
  BY <1>1, SoundWatch, Released
<1>4. CASE t = old.term
  BY <1>4, RestoreSound DEF MigrateWatchToRebound
<1>5. CASE t # old.term /\ old.owner = "desktop"
  <2>1. MigrateWatchToRebound(v, t) = [r EXCEPT !.watch = moved]
    BY <1>5 DEF MigrateWatchToRebound
  <2> HIDE DEF r, moved
  <2>2. /\ [r EXCEPT !.watch = moved] \in ViewportType
        /\ [r EXCEPT !.watch = moved].watch = moved
        /\ [r EXCEPT !.watch = moved].gate = {}
        /\ [r EXCEPT !.watch = moved].size = r.size
    BY <1>2, <1>3 DEF ViewportType
  <2> QED
    BY <1>2, <1>3, <1>5, <2>1, <2>2, ReclaimedSound
<1>6. CASE t # old.term /\ old.owner # "desktop" /\ old.requested = NoSize
  <2>1. MigrateWatchToRebound(v, t) =
          EmitWatchOwned([SetPhoneOwned(r, moved.term) EXCEPT !.watch = moved])
    BY <1>2, <1>6 DEF MigrateWatchToRebound
  <2>2. moved.owner = "phone"
    BY <1>1, <1>2, <1>6 DEF Watches, Owners
  <2> HIDE DEF r, moved
  <2> QED
    BY <1>2, <1>3, <2>1, <2>2, TakeSound
<1>7. CASE t # old.term /\ old.owner # "desktop" /\ old.requested # NoSize
  <2> DEFINE w == [moved EXCEPT !.applied = narrow]
  <2>1. narrow \in Nat  BY <1>2, <1>1, <1>7, ClampType DEF Watches, Sizes
  <2>2. w \in Watches /\ w.owner = "phone" /\ w.term = t
    <3> HIDE DEF narrow, moved
    <3> QED  BY <1>2, <2>1, <1>1, <1>7 DEF Watches, Sizes, Owners
  <2>3. MigrateWatchToRebound(v, t) =
          EmitWatchOwned([ApplyWatchResize(SetPhoneOwned(r, w.term), w.term, narrow)
                             EXCEPT !.watch = w])
    BY <1>7, <2>2 DEF MigrateWatchToRebound
  <2> HIDE DEF r, w, narrow, moved
  <2> QED
    BY <1>3, <2>1, <2>2, <2>3, TakeSound
<1> QED
  BY <1>4, <1>5, <1>6, <1>7

LEMMA ReboundSound ==
  ASSUME DesktopOK, NEW v, Sound(v), NEW a, NEW t \in Terms, Created(t)
  PROVE  Sound(OnRebound(v, a, t))
  BY MigrateSound DEF OnRebound, Watching

LEMMA DebounceSound ==
  ASSUME DesktopOK, NEW v, Sound(v), v.watch # NoWatch
  PROVE  Sound(FireDebounce(v))
<1> DEFINE w == v.watch
           quiet == [w EXCEPT !.debounce = FALSE, !.pending = NoSize]
           spent == [quiet EXCEPT !.force = FALSE]
           applied == [quiet EXCEPT !.force = FALSE, !.applied = w.pending]
           resized == ApplyWatchResize(v, w.term, w.pending)
<1>1. /\ w \in Watches /\ w.term \in Terms /\ v \in ViewportType
  BY SoundWatch
<1>2. /\ quiet \in Watches /\ spent \in Watches /\ applied \in Watches
      /\ quiet.term = w.term /\ spent.term = w.term /\ applied.term = w.term
      /\ quiet.owner = w.owner /\ spent.owner = w.owner /\ applied.owner = w.owner
  BY <1>1 DEF Watches, Sizes
<1>3. CASE w.pending = NoSize \/ w.owner # "phone"
  <2> HIDE DEF quiet
  <2> QED  BY <1>2, <1>3, SameHolderSound DEF FireDebounce, quiet
<1>4. CASE w.pending # NoSize /\ w.owner = "phone" /\ ~w.force /\ w.applied = w.pending
  <2> HIDE DEF quiet, spent
  <2> QED  BY <1>2, <1>4, SameHolderSound DEF FireDebounce, quiet, spent
<1>5. CASE w.pending # NoSize /\ w.owner = "phone" /\ ~(~w.force /\ w.applied = w.pending)
  <2>1. FireDebounce(v) = [resized EXCEPT !.watch = applied]
    BY <1>5 DEF FireDebounce
  <2>2. Sound(resized) /\ resized.watch = w
    <3>2. resized \in ViewportType /\ resized.watch = w /\ resized.gate = v.gate
      BY <1>1 DEF ApplyWatchResize, ViewportType, Watches
    <3>3. \A x \in Terms : x # w.term => resized.size[x] = v.size[x]
      BY <1>1 DEF ApplyWatchResize, ViewportType
    <3> HIDE DEF resized
    <3> QED  BY <3>2, <3>3, <1>1, <1>5 DEF Sound, Holds
  <2> HIDE DEF quiet, applied, resized
  <2> QED
    BY <1>2, <2>1, <2>2, SameHolderSound
<1> QED
  BY <1>3, <1>4, <1>5

LEMMA KeystrokeSound ==
  ASSUME DesktopOK, NEW v, Sound(v), NEW t \in Terms
  PROVE  Sound(NotifyDesktopKeystroke(v, t))
<1> DEFINE w == v.watch
           reclaimed == [w EXCEPT !.owner = "desktop", !.force = TRUE, !.debounce = FALSE,
                                  !.pending = IF w.debounce THEN NoSize ELSE @]
           u == [v EXCEPT !.watch = reclaimed]
           r == EmitWatchEnded(RestoreDesktopGeometry(u, t), t)
<1>1. CASE w = NoWatch \/ w.term # t \/ w.owner # "phone"
  BY <1>1 DEF NotifyDesktopKeystroke
<1>2. CASE w # NoWatch /\ w.term = t /\ w.owner = "phone"
  <2>1. /\ reclaimed \in Watches /\ reclaimed.owner = "desktop"
        /\ reclaimed.term = t /\ Created(t)
    BY <1>2, SoundWatch DEF Watches, Owners, Sizes
  <2>2. /\ u \in ViewportType /\ u.gate = v.gate /\ u.size = v.size /\ u.watch = reclaimed
    <3> HIDE DEF reclaimed
    <3> QED
      BY <1>2, <2>1, SoundWatch DEF ViewportType
  <2>3. /\ r \in ViewportType /\ r.gate = {} /\ r.watch = reclaimed
        /\ \A x \in Terms : Running(x) => r.size[x] = desk[x]
    <3> HIDE DEF u, reclaimed
    <3> QED
      BY <1>2, <2>2, SoundWatch, Released
  <2>4. NotifyDesktopKeystroke(v, t) = r
    BY <1>2 DEF NotifyDesktopKeystroke
  <2> HIDE DEF r, reclaimed
  <2> QED
    BY <2>1, <2>3, <2>4, ReclaimedSound
<1> QED
  BY <1>1, <1>2

LEMMA BlurSound ==
  ASSUME DesktopOK, NEW v, Sound(v), NEW t \in Terms
  PROVE  Sound(NotifyDesktopBlur(v, t))
<1> DEFINE w == v.watch
           target == IF w.applied # NoSize THEN w.applied
                     ELSE IF w.requested # NoSize THEN ClampToPreWatch(w.pre, w.requested)
                     ELSE NoSize
           owned == [w EXCEPT !.owner = "phone"]
           narrowed == [owned EXCEPT !.applied = target, !.force = FALSE]
<1>1. CASE w = NoWatch \/ w.term # t \/ w.owner # "desktop" \/ v.active # w.agent
  BY <1>1 DEF NotifyDesktopBlur
<1>2. CASE ~(w = NoWatch \/ w.term # t \/ w.owner # "desktop" \/ v.active # w.agent)
  <2>1. w \in Watches /\ w.term = t /\ Created(t)
    BY <1>2, SoundWatch
  <2>2. target \in Sizes
    BY <2>1, ClampType DEF Watches, Sizes
  <2>3. /\ owned \in Watches /\ owned.term = t /\ owned.owner = "phone"
        /\ narrowed \in Watches /\ narrowed.term = t /\ narrowed.owner = "phone"
    <3> HIDE DEF target
    <3> QED
      BY <2>1, <2>2 DEF Watches, Owners
  <2>4. /\ v \in ViewportType /\ v.gate \subseteq {t}
        /\ \A x \in Terms : Running(x) /\ x # t => v.size[x] = desk[x]
    BY <1>2, <2>1, SoundWatch
  <2>5. CASE target = NoSize
    <3>1. NotifyDesktopBlur(v, t) =
            EmitWatchOwned([SetPhoneOwned(v, owned.term) EXCEPT !.watch = owned])
      BY <1>2, <2>3, <2>5 DEF NotifyDesktopBlur
    <3> HIDE DEF owned
    <3> QED
      BY <2>1, <2>3, <2>4, <3>1, TakeSound
  <2>6. CASE target # NoSize
    <3>1. NotifyDesktopBlur(v, t) =
            EmitWatchOwned([ApplyWatchResize(SetPhoneOwned(v, narrowed.term), narrowed.term, target)
                               EXCEPT !.watch = narrowed])
      BY <1>2, <2>3, <2>6 DEF NotifyDesktopBlur
    <3>2. target \in Nat
      BY <2>2, <2>6 DEF Sizes
    <3> HIDE DEF narrowed, target
    <3> QED
      BY <2>1, <2>3, <2>4, <3>1, <3>2, TakeSound
  <2> QED
    BY <2>5, <2>6
<1> QED
  BY <1>1, <1>2

-----------------------------------------------------------------------------
(* The invariant is inductive.                                             *)

LEMMA InitIInv == Init => IInv
<1> SUFFICES ASSUME Init PROVE IInv
  OBVIOUS
<1> USE DEF Init, TerminalInit, RegistryInit
<1> QED
  BY EndedType DEF IInv, DesktopOK, Running, Sizes, CatalogTypeOK, Known, Sound, Holds, Viewport, ViewportType

\* Installing a sound record, with the sessions untouched.
LEMMA BecomesSound ==
  ASSUME DesktopOK, NEW v, Sound(v), Becomes(v), UNCHANGED <<session, desk>>
  PROVE  DesktopOK' /\ Sound(Viewport)'
<1> QED  BY DEF DesktopOK, Running, Sound, Holds, Becomes, Viewport, ViewportType, Created

\* Leaving the viewport variables and the sessions untouched.
LEMMA UntouchedSound ==
  ASSUME DesktopOK, Sound(Viewport), UNCHANGED <<terminalVars, registryVars>>
  PROVE  DesktopOK' /\ Sound(Viewport)'
<1> QED  BY BecomesSound DEF terminalVars, Becomes, Viewport, registryVars

\* publishExit: the entry is marked and the registry told.
LEMMA PublishIInv ==
  ASSUME IInv, NEW a \in Agents, Known(a), PublishExit(a), UNCHANGED <<session, desk>>
  PROVE  /\ DesktopOK' /\ Sound(Viewport)'
         /\ entries' \in [Agents -> Entries \cup {NoEntry}]
         /\ \A x \in Agents : Known(x)' => Created(entries[x].term)'
<1>1. entries[a] \in Entries /\ entries \in [Agents -> Entries \cup {NoEntry}]
  BY DEF IInv, CatalogTypeOK, Known
<1>2. CASE entries[a].live
  <2>1. DesktopOK' /\ Sound(Viewport)'
    BY <1>2, SessionGoneSound, BecomesSound DEF PublishExit, IInv
  <2>2. entries' = [entries EXCEPT ![a] = [@ EXCEPT !.live = FALSE, !.intent = "none"]]
    BY <1>1, <1>2 DEF PublishExit, Entries
  <2>3. [entries[a] EXCEPT !.live = FALSE, !.intent = "none"] \in Entries
    BY <1>1 DEF Entries, Intents
  <2>4. [entries[a] EXCEPT !.live = FALSE, !.intent = "none"].term = entries[a].term
    BY <1>1 DEF Entries
  <2> QED
    BY <1>1, <2>1, <2>2, <2>3, <2>4 DEF IInv, CatalogTypeOK, Known, Created
<1>3. CASE ~entries[a].live
  <2>1. DesktopOK' /\ Sound(Viewport)'
    BY <1>3, UntouchedSound DEF PublishExit, IInv, terminalVars
  <2>2. entries' = [entries EXCEPT ![a] = [@ EXCEPT !.intent = "none"]]
    BY <1>1, <1>3 DEF PublishExit, Entries
  <2>3. [entries[a] EXCEPT !.intent = "none"] \in Entries
    BY <1>1 DEF Entries, Intents
  <2>4. [entries[a] EXCEPT !.intent = "none"].term = entries[a].term
    BY <1>1 DEF Entries
  <2> QED
    BY <1>1, <2>1, <2>2, <2>3, <2>4 DEF IInv, CatalogTypeOK, Known, Created
<1> QED
  BY <1>2, <1>3

\* One entry is replaced.
LEMMA EntryIInv ==
  ASSUME IInv, NEW a \in Agents, NEW e \in Entries, Created(e.term),
         entries' = [entries EXCEPT ![a] = e], UNCHANGED session
  PROVE  /\ entries' \in [Agents -> Entries \cup {NoEntry}]
         /\ \A x \in Agents : Known(x)' => Created(entries[x].term)'
  BY DEF IInv, CatalogTypeOK, Known, Created

LEMMA TerminalStepIInv ==
  ASSUME IInv, NEW t \in Terms, TerminalStep(t)
  PROVE  IInv'
<1> USE DEF IInv
<1>0. AgentOf[t] \in Agents
  BY AgentOfAssumption
<1>1. CASE CreateTerminal(t)
  <2>1. /\ session[t] = "none"
        /\ session' = [session EXCEPT ![t] = "running"]
        /\ desk' = [desk EXCEPT ![t] = SpawnSize]
        /\ Viewport' = [Viewport EXCEPT !.size[t] = SpawnSize]
        /\ UNCHANGED <<catalogVars, phoneVars>>
    BY <1>1 DEF CreateTerminal, Create, Viewport, registryVars
  <2>7. Viewport'.watch = Viewport.watch /\ Viewport'.gate = Viewport.gate
    BY <2>1 DEF Viewport
  <2>8. Viewport'.size = [Viewport.size EXCEPT ![t] = SpawnSize]
    BY <2>1 DEF Viewport
  <2>9. Sound(Viewport)'
    BY <2>1, SizeAssumption, <2>7, <2>8 DEF Sound, Holds, ViewportType, Running, DesktopOK, Created, Sizes
  <2> QED
    BY <2>1, SizeAssumption, <2>9 DEF DesktopOK, Running, Sizes, CatalogTypeOK, catalogVars, phoneVars, Known,
       Created
<1>2. CASE ExitTerminal(t)
  <2>0. /\ session' = [session EXCEPT ![t] = "exited"]
        /\ desk' = [desk EXCEPT ![t] = NoSize]
        /\ gate' = gate \ {t}
        /\ UNCHANGED <<size, registryVars, entries, told, phoneVars>>
    BY <1>2 DEF ExitTerminal, PtyExit
  <2>1. /\ session' = [session EXCEPT ![t] = "exited"]
        /\ desk' = [desk EXCEPT ![t] = NoSize]
        /\ Viewport' = [Viewport EXCEPT !.gate = @ \ {t}]
        /\ UNCHANGED <<entries, told, phoneVars>>
    <3>1. UNCHANGED <<size, active, watch, emitted, pane>>
      BY <2>0 DEF registryVars
    <3> QED  BY SMTT(30), <2>0, <3>1 DEF Viewport
  <2>7. Sound(Viewport)'  BY <2>1 DEF Sound, Holds, Running, DesktopOK, Created, ViewportType, Viewport
  <2> QED
    BY <1>2, <2>1, <2>7 DEF DesktopOK, Running, Sizes, CatalogTypeOK, ExitTerminal, phoneVars, Known, Created
<1>3. CASE DrainedBound(t)
  <2>1. PICK a \in Agents : /\ Bound(a, t)
                            /\ \/ /\ entries[a].intent # "none"
                                  /\ entries' = [entries EXCEPT ![a].intent = "deferred"]
                                  /\ UNCHANGED <<gate, size, registryVars>>
                               \/ PublishExit(a)
    BY <1>3 DEF DrainedBound
  <2>4. CASE entries' = [entries EXCEPT ![a].intent = "deferred"] /\ UNCHANGED <<gate, size, registryVars>>
    <3>2. /\ [entries[a] EXCEPT !.intent = "deferred"] \in Entries
          /\ Created([entries[a] EXCEPT !.intent = "deferred"].term)
      BY <2>1 DEF Entries, Intents, CatalogTypeOK, Bound, Known
    <3>3. CatalogTypeOK'  BY <1>3, <2>4, <3>2, EntryIInv DEF CatalogTypeOK, phoneVars, DrainedBound
    <3> QED  BY <1>3, <2>4, <3>3, UntouchedSound DEF terminalVars, DrainedBound
  <2>5. CASE PublishExit(a)
    BY <1>3, <2>1, <2>5, PublishIInv DEF CatalogTypeOK, phoneVars, DrainedBound, Bound, Known
  <2> QED
    BY <2>1, <2>4, <2>5
<1>4. CASE DrainedRebound(t)
  BY <1>4, UntouchedSound DEF DrainedRebound, CatalogTypeOK, phoneVars, Known, Created, terminalVars
<1>5. CASE DrainedOrphan(t)
  BY <1>5, SessionGoneSound, BecomesSound DEF DrainedOrphan, CatalogTypeOK, phoneVars, Known, Created
<1>6. CASE \E live \in BOOLEAN : Admit(t, live)
  <2>1. PICK live \in BOOLEAN : Admit(t, live)
    BY <1>6
  <2> DEFINE e == [term |-> t, live |-> live, intent |-> "none"]
  <2>2. e \in Entries /\ Created(e.term)
    BY <2>1 DEF Admit, Entries, Intents, Running, Created
  <2>3. CatalogTypeOK'
    <3> HIDE DEF e
    <3>1. entries' = [entries EXCEPT ![AgentOf[t]] = e]
      BY <2>1 DEF Admit, e
    <3> QED
      BY <1>0, <2>1, <2>2, <3>1, EntryIInv DEF Admit, CatalogTypeOK, phoneVars, terminalVars
  <2> QED
    BY <2>1, <2>3, UntouchedSound DEF Admit
<1>7. CASE Rebind(t)
  <2> DEFINE e == [term |-> t, live |-> TRUE, intent |-> "none"]
  <2>1. e \in Entries /\ Created(e.term) /\ Created(t)
    BY <1>7 DEF Rebind, Entries, Intents, Running, Created
  <2>2. CatalogTypeOK'
    <3> HIDE DEF e
    <3>1. entries' = [entries EXCEPT ![AgentOf[t]] = e]
      BY <1>7 DEF Rebind, e
    <3> QED
      BY <1>0, <1>7, <2>1, <3>1, EntryIInv DEF Rebind, CatalogTypeOK, phoneVars
  <2> QED  BY <2>2, <1>7, <2>1, ReboundSound, BecomesSound DEF Rebind
<1>8. CASE RendererLearns(t)
  BY <1>8, UntouchedSound DEF RendererLearns, CatalogTypeOK, phoneVars, Known, Created, terminalVars
<1>9. CASE \E cols \in DesktopSizes : DesktopFit(t, cols)
  <2>1. PICK cols \in DesktopSizes : DesktopFit(t, cols)
    BY <1>9
  <2>7. Sound(Viewport)'
    BY SizeAssumption, <2>1 DEF Sound, Holds, Running, Created, ViewportType, DesktopOK, Viewport, registryVars,
       Sizes, DesktopFit, Resize
  <2> QED
    BY <2>1, SizeAssumption, <2>7 DEF CatalogTypeOK, catalogVars, phoneVars, Known, Created, DesktopOK, Running,
       Sizes, DesktopFit, Resize
<1>10. CASE Keystroke(t)
  BY <1>10, KeystrokeSound, BecomesSound DEF Keystroke, CatalogTypeOK, catalogVars, phoneVars, Known, Created
<1>11. CASE PaneBlur(t)
  BY <1>11, BlurSound, BecomesSound DEF PaneBlur, CatalogTypeOK, catalogVars, phoneVars, Known, Created
<1> QED
  BY <1>1, <1>2, <1>3, <1>4, <1>5, <1>6, <1>7, <1>8, <1>9, <1>10, <1>11 DEF TerminalStep

LEMMA AgentStepIInv ==
  ASSUME IInv, NEW a \in Agents, AgentStep(a)
  PROVE  IInv'
<1> USE DEF IInv
<1>0. Known(a) => entries[a] \in Entries /\ entries[a].term \in Terms /\ Created(entries[a].term)
  BY DEF CatalogTypeOK, Known, Entries
<1>1. CASE Republish(a)
  <2> DEFINE e == [entries[a] EXCEPT !.live = TRUE]
  <2>2. CatalogTypeOK'
    <3>1. entries' = [entries EXCEPT ![a] = e]
      BY <1>1 DEF Republish
    <3> HIDE DEF e
    <3> QED  BY <1>1, <1>0, <3>1, EntryIInv DEF Republish, CatalogTypeOK, phoneVars, terminalVars, Entries
  <2> QED
    BY <1>1, <2>2, UntouchedSound DEF Republish
<1>2. CASE Remove(a)
  BY <1>2, SessionGoneSound, BecomesSound DEF Remove, CatalogTypeOK, Known, Created, phoneVars
<1>3. CASE RebindIntent(a)
  <2> DEFINE e == [entries[a] EXCEPT !.intent = "armed"]
  <2>2. CatalogTypeOK'
    <3>1. entries' = [entries EXCEPT ![a] = e]
      BY <1>3 DEF RebindIntent
    <3> HIDE DEF e
    <3> QED
      BY <1>3, <1>0, <3>1, EntryIInv DEF RebindIntent, CatalogTypeOK, phoneVars, terminalVars, Entries, Intents
  <2> QED
    BY <1>3, <2>2, UntouchedSound DEF RebindIntent
<1>4. CASE ReleaseIntent(a)
  <2>1. Known(a) /\ UNCHANGED <<session, desk, drains, told, phoneVars>>
    BY <1>4 DEF ReleaseIntent
  <2>2. CASE PublishExit(a)
    BY <2>1, <2>2, PublishIInv DEF CatalogTypeOK, phoneVars
  <2>3. CASE ~PublishExit(a)
    <3> DEFINE e == [entries[a] EXCEPT !.intent = "none"]
    <3>1. e \in Entries /\ Created(e.term)
      BY <1>0, <2>1 DEF Entries, Intents
    <3>2. entries' = [entries EXCEPT ![a] = e] /\ UNCHANGED <<gate, size, registryVars>>
      BY <1>4, <2>3 DEF ReleaseIntent
    <3>3. CatalogTypeOK'
      <4> HIDE DEF e
      <4> QED
        BY <2>1, <3>1, <3>2, EntryIInv DEF CatalogTypeOK, phoneVars
    <3> QED
      BY <2>1, <3>2, <3>3, UntouchedSound DEF terminalVars
  <2> QED
    BY <2>2, <2>3
<1>5. CASE Subscribe(a)
  BY <1>5, SubscribeSound, BecomesSound DEF Subscribe, CatalogTypeOK, catalogVars, phoneVars, Known, Created
<1>6. CASE Unsubscribe(a)
  BY <1>6, UnsubscribeSound, BecomesSound DEF Unsubscribe, CatalogTypeOK, catalogVars, Known, Created, Watching
<1>7. CASE \E cols \in PhoneSizes : SetWatchViewport(a, cols)
  <2>1. PICK cols \in PhoneSizes : SetWatchViewport(a, cols)
    BY <1>7
  <2> QED
    BY <2>1, <1>0, PhoneAssumption, SetViewportSound, BecomesSound DEF SetWatchViewport, CatalogTypeOK,
       catalogVars, Known, Created
<1> QED
  BY <1>1, <1>2, <1>3, <1>4, <1>5, <1>6, <1>7 DEF AgentStep

LEMMA HostStepIInv ==
  ASSUME IInv, HostStep
  PROVE  IInv'
<1> USE DEF IInv
<1>1. CASE SocketOpens
  BY <1>1, UntouchedSound DEF SocketOpens, CatalogTypeOK, catalogVars, Known, Created, terminalVars
<1>2. CASE SocketCloses
  BY <1>2, UntouchedSound DEF SocketCloses, CatalogTypeOK, catalogVars, Known, Created, terminalVars
<1>3. CASE Detach  BY <1>3, TeardownSound, BecomesSound DEF Detach, CatalogTypeOK, catalogVars, Known, Created
<1>4. CASE Attach
  BY <1>4, TeardownSound, BecomesSound, UntouchedSound DEF Attach, CatalogTypeOK, catalogVars, Known, Created,
     terminalVars
<1>5. CASE AppBlur
  BY <1>5, SoundWatch, BlurSound, BecomesSound DEF AppBlur, CatalogTypeOK, catalogVars, phoneVars, Known,
     Created, Viewport
<1>6. CASE DebounceFires
  BY <1>6, DebounceSound, BecomesSound DEF DebounceFires, CatalogTypeOK, catalogVars, phoneVars, Known, Created,
     Viewport
<1>7. CASE GraceFires
  BY <1>7, RestoreSound, BecomesSound DEF GraceFires, CatalogTypeOK, catalogVars, phoneVars, Known, Created
<1> QED
  BY <1>1, <1>2, <1>3, <1>4, <1>5, <1>6, <1>7 DEF HostStep

LEMMA StutterIInv == IInv /\ UNCHANGED vars => IInv'
<1> SUFFICES ASSUME IInv, UNCHANGED vars PROVE IInv'
  OBVIOUS
<1> QED  BY UntouchedSound DEF IInv, vars, CatalogTypeOK, catalogVars, phoneVars, terminalVars, Known, Created

LEMMA InductiveInvariant == Spec => []IInv
<1>1. IInv /\ [Next]_vars => IInv'
  BY TerminalStepIInv, AgentStepIInv, HostStepIInv, StutterIInv DEF Next
<1> QED
  BY <1>1, InitIInv, PTL DEF Spec

-----------------------------------------------------------------------------
(* The watch in flight is honest.                                          *)

\* What the panes were told, if the watch is w.
ToldOf(v, w) ==
    LET owned == w # NoWatch /\ w.owner = "phone"
    IN  /\ v.emitted = IF owned THEN OwnedEvent(w) ELSE Ended
        /\ \A t \in Terms : v.pane[t] = IF owned /\ w.term = t THEN OwnedEvent(w) ELSE Ended

Clamped(w, cols) == AtMost(Floor, w.pre) <= cols /\ cols <= w.pre

\* The sizes of a watch: what the phone waits for and what it got.
Real(v) ==
    v.watch # NoWatch =>
       /\ v.watch.pending # NoSize => Clamped(v.watch, v.watch.pending)
       /\ v.watch.applied # NoSize =>
             /\ Clamped(v.watch, v.watch.applied)
             /\ v.watch.owner = "desktop" => v.watch.force
             /\ v.watch.owner = "phone" /\ ~v.watch.force /\ Running(v.watch.term) =>
                   v.size[v.watch.term] = v.watch.applied

Sized(v) == \A t \in Terms : Running(t) => v.size[t] # NoSize

Honest(v) == ToldOf(v, v.watch) /\ Real(v) /\ Sized(v)

\* The catalog's half: the watch and the subscription are of live entries of a phone
\* that is attached.
Follows(v) ==
    /\ v.watch # NoWatch =>
          Bound(v.watch.agent, v.watch.term) /\ entries[v.watch.agent].live /\ paired
    /\ v.active # NoAgent => Known(v.active) /\ entries[v.active].live /\ paired

HInv == IInv /\ Honest(Viewport) /\ Follows(Viewport)

LEMMA ClampBounds ==
  ASSUME NEW w \in Watches, NEW cols \in Nat
  PROVE  /\ ClampToPreWatch(w.pre, cols) \in Nat
         /\ Clamped(w, ClampToPreWatch(w.pre, cols))
<1> w.pre \in Nat
  BY DEF Watches
<1> QED
  BY FloorAssumption DEF Clamped, ClampToPreWatch, AtMost, AtLeast

\* The gated terminal is the only one whose size is not the desktop's.
LEMMA SizedFromGate ==
  ASSUME DesktopOK, NEW v, Sound(v), \A t \in v.gate : Running(t) => v.size[t] # NoSize
  PROVE  Sized(v)
  BY DEF Sized, Sound, DesktopOK

LEMMA OwnedIsNotEnded ==
  ASSUME NEW w
  PROVE  OwnedEvent(w) # Ended
<1> QED  BY DEF OwnedEvent, Ended

\* emitWatchOwned swallows nothing that matters.
LEMMA EmitOwnedTold ==
  ASSUME NEW v \in ViewportType, v.watch \in Watches, v.watch.owner = "phone",
         NEW w, ToldOf(v, w), w = NoWatch \/ w.owner # "phone" \/ w.term = v.watch.term
  PROVE  ToldOf(EmitWatchOwned(v), v.watch)
<1>2. CASE OwnedEvent(v.watch) = v.emitted
  BY WatchAssumption, <1>2, OwnedIsNotEnded DEF ToldOf, Watches, EmitWatchOwned
<1>3. CASE OwnedEvent(v.watch) # v.emitted
  <2> DEFINE r == EmitWatchOwned(v)
  <2>1. /\ r.emitted = OwnedEvent(v.watch)
        /\ r.pane = [v.pane EXCEPT ![v.watch.term] = OwnedEvent(v.watch)]
    BY <1>3 DEF EmitWatchOwned, ViewportType
  <2>3. v.pane \in [Terms -> Events]
    BY DEF ViewportType
  <2> HIDE DEF r
  <2>4. \A t \in Terms : r.pane[t] = IF v.watch.term = t THEN OwnedEvent(v.watch) ELSE Ended
    BY WatchAssumption, <2>1, <2>3 DEF Watches, ToldOf
  <2> QED  BY WatchAssumption, <2>1, <2>4 DEF ToldOf, r, Watches
<1> QED
  BY <1>2, <1>3

\* emitWatchEnded, after the terminal was given back.
LEMMA EmitEndedTold ==
  ASSUME NEW v \in ViewportType, NEW t \in Terms,
         NEW w, ToldOf(v, w), w = NoWatch \/ w.owner # "phone" \/ w.term = t
  PROVE  ToldOf(EmitWatchEnded(RestoreDesktopGeometry(v, t), t), NoWatch)
<1> DEFINE u == RestoreDesktopGeometry(v, t)
           r == EmitWatchEnded(u, t)
<1>1. u.pane = v.pane /\ u \in [gate : SUBSET Terms, size : [Terms -> Sizes \cup {desk[t]}],
            active : Agents \cup {NoAgent}, watch : Watches \cup {NoWatch},
            emitted : Events, pane : [Terms -> Events]]
  BY DEF RestoreDesktopGeometry, ApplyWatchResize, ViewportType
<1> HIDE DEF u
<1>2. r.emitted = Ended /\ r.pane = [v.pane EXCEPT ![t] = Ended]
  BY <1>1 DEF EmitWatchEnded
<1> HIDE DEF r
<1>5. ToldOf(r, NoWatch)  BY <1>2 DEF ToldOf, ViewportType
<1> QED
  BY <1>5 DEF r, u

\* A watch may change in every way that keeps its holder, its bounds and its event.
LEMMA SameHolderHonest ==
  ASSUME NEW v, Sound(v), Honest(v), v.watch # NoWatch,
         NEW w \in Watches, w.term = v.watch.term, w.owner = v.watch.owner,
         w.owner = "phone" => OwnedEvent(w) = OwnedEvent(v.watch),
         Real([v EXCEPT !.watch = w])
  PROVE  Honest([v EXCEPT !.watch = w])
<1> DEFINE r == [v EXCEPT !.watch = w]
<1>1. r.watch = w /\ r.size = v.size /\ r.emitted = v.emitted /\ r.pane = v.pane /\ w # NoWatch
  BY WatchAssumption DEF Sound, ViewportType
<1> HIDE DEF r
<1>4. Sized(r)
  BY <1>1 DEF Honest, Sized
<1> QED  BY <1>1, <1>4 DEF Honest, r, ToldOf

LEMMA RestoreHonest ==
  ASSUME DesktopOK, NEW v, Sound(v), Honest(v)
  PROVE  Honest(ExecuteWatchRestore(v))
<1>1. CASE v.watch = NoWatch
  BY <1>1 DEF ExecuteWatchRestore
<1>2. CASE v.watch # NoWatch
  <2> DEFINE t == v.watch.term
             u == [v EXCEPT !.watch = NoWatch]
             r == ExecuteWatchRestore(v)
  <2>1. /\ u \in ViewportType /\ t \in Terms /\ u.emitted = v.emitted /\ u.pane = v.pane
    BY <1>2, SoundWatch DEF ViewportType
  <2>2. r = EmitWatchEnded(RestoreDesktopGeometry(u, t), t)
    BY <1>2 DEF ExecuteWatchRestore
  <2> HIDE DEF u, r
  <2>5. ToldOf(r, NoWatch)  BY <2>1, <2>2, EmitEndedTold DEF Honest, ToldOf
  <2> QED  BY RestoreSound, <2>5, SizedFromGate, SoundIdle DEF Honest, Real, r
<1> QED
  BY <1>1, <1>2

LEMMA GraceHonest ==
  ASSUME NEW v, Sound(v), Honest(v)
  PROVE  Honest(ScheduleWatchGraceRestore(v))
<1>1. CASE v.watch = NoWatch
  BY <1>1 DEF ScheduleWatchGraceRestore
<1>2. CASE v.watch # NoWatch
  <2> DEFINE w == [v.watch EXCEPT !.grace = TRUE]
  <2>1. /\ w \in Watches /\ w.term = v.watch.term /\ w.owner = v.watch.owner
        /\ w.pending = v.watch.pending /\ w.applied = v.watch.applied
        /\ w.pre = v.watch.pre /\ w.force = v.watch.force
    BY <1>2 DEF Sound, ViewportType, Watches
  <2>2. ScheduleWatchGraceRestore(v) = [v EXCEPT !.watch = w]
    BY <1>2 DEF ScheduleWatchGraceRestore, Sound, ViewportType
  <2> HIDE DEF w
  <2>3. OwnedEvent(w) = OwnedEvent(v.watch)
    BY <2>1 DEF OwnedEvent
  <2>5. Real([v EXCEPT !.watch = w])  BY <1>2, <2>1 DEF Honest, Real, Clamped, Sound, ViewportType
  <2> QED
    BY <1>2, <2>1, <2>2, <2>3, <2>5, SameHolderHonest
<1> QED
  BY <1>1, <1>2

LEMMA ActiveHonest ==
  ASSUME NEW v, Sound(v), Honest(v), NEW a
  PROVE  Honest([v EXCEPT !.active = a])
<1> DEFINE r == [v EXCEPT !.active = a]
<1> HIDE DEF r
<1> QED  BY DEF r, Honest, ToldOf, Real, Sized, Sound, ViewportType

LEMMA DropHonest ==
  ASSUME DesktopOK, NEW v, Sound(v), Honest(v), NEW op
  PROVE  Honest(Drop(v, op))
<1> DEFINE ended == [v EXCEPT !.active = NoAgent]
<1> HIDE DEF ended
<1> QED  BY ActiveSound, ActiveHonest, RestoreHonest, GraceHonest DEF Drop, ended

LEMMA TeardownHonest ==
  ASSUME DesktopOK, NEW v, Sound(v), Honest(v)
  PROVE  Honest(Teardown(v))
  BY DropSound, DropHonest, RestoreHonest DEF Teardown

LEMMA SessionGoneHonest ==
  ASSUME DesktopOK, NEW v, Sound(v), Honest(v), NEW a
  PROVE  Honest(OnSessionGone(v, a))
<1> DEFINE dropped == IF v.active = a THEN Drop(v, "teardown") ELSE v
<1> HIDE DEF dropped
<1> QED  BY DropSound, DropHonest, RestoreHonest DEF OnSessionGone, dropped

LEMMA SubscribeHonest ==
  ASSUME DesktopOK, NEW v, Sound(v), Honest(v), NEW a \in Agents
  PROVE  Honest(SubscribeTo(v, a))
  BY DropSound, DropHonest, ActiveHonest DEF SubscribeTo

LEMMA UnsubscribeHonest ==
  ASSUME DesktopOK, NEW v, Sound(v), Honest(v), NEW a, NEW known
  PROVE  Honest(UnsubscribeFrom(v, a, known))
  BY DropHonest, GraceHonest, RestoreHonest DEF UnsubscribeFrom

\* Telling the renderer leaves everything else alone.
LEMMA EmitOwnedFields ==
  ASSUME NEW v \in ViewportType
  PROVE  /\ EmitWatchOwned(v).watch = v.watch
         /\ EmitWatchOwned(v).gate = v.gate
         /\ EmitWatchOwned(v).size = v.size
         /\ EmitWatchOwned(v).active = v.active
  BY DEF ViewportType, EmitWatchOwned

\* The phone's watch w is installed on u, which is v but for the gate, the watch and the
\* size of its terminal.
LEMMA TakeHonest ==
  ASSUME NEW v, Sized(v), NEW x, ToldOf(v, x),
         NEW w \in Watches, w.owner = "phone",
         x = NoWatch \/ x.owner # "phone" \/ x.term = w.term,
         NEW u \in ViewportType, u.watch = w, u.emitted = v.emitted, u.pane = v.pane,
         \A t \in Terms : t # w.term => u.size[t] = v.size[t],
         Running(w.term) => u.size[w.term] # NoSize,
         Real(u)
  PROVE  Honest(EmitWatchOwned(u))
<1> QED  BY EmitOwnedTold, EmitOwnedFields DEF Honest, Real, Sized, ToldOf

LEMMA SetViewportHonest ==
  ASSUME DesktopOK, NEW v, Sound(v), Honest(v), NEW a \in Agents, NEW t \in Terms, Created(t),
         NEW cols \in Nat
  PROVE  Honest(SetViewport(v, a, t, cols))
<1> DEFINE kept == IF v.watch = NoWatch \/ Watching(v, a) THEN v ELSE ExecuteWatchRestore(v)
           w == IF Watching(kept, a) THEN kept.watch ELSE NewWatch(a, t)
           asked == [w EXCEPT !.owner = "phone", !.grace = FALSE, !.requested = cols,
                              !.pending = ClampToPreWatch(w.pre, cols), !.debounce = TRUE]
           gated == IF Watching(kept, a) /\ w.owner = "phone" THEN kept
                    ELSE SetPhoneOwned(kept, w.term)
           u == [gated EXCEPT !.watch = asked]
<1>1. Sound(kept) /\ Honest(kept) /\ (kept.watch = NoWatch \/ Watching(kept, a))
  BY RestoreSound, RestoreHonest
<1>2. SetViewport(v, a, t, cols) = EmitWatchOwned(u)
  BY DEF SetViewport
<1> HIDE DEF kept
<1>4. w \in Watches  BY <1>1, PreWatchType, SoundWatch DEF Watching, NewWatch, Watches, Owners, Sizes
<1>6. /\ asked \in Watches /\ asked.term = w.term /\ asked.owner = "phone"
      /\ asked.pre = w.pre /\ asked.applied = w.applied /\ asked.force = w.force
      /\ asked.pending = ClampToPreWatch(w.pre, cols)  BY <1>4, ClampBounds DEF Watches, Owners, Sizes
<1>7. /\ u \in ViewportType /\ u.watch = asked /\ u.emitted = kept.emitted /\ u.pane = kept.pane
      /\ u.size = kept.size
  <2> HIDE DEF w, asked
  <2> QED  BY <1>6, <1>1, <1>4 DEF SetPhoneOwned, ViewportType, Watches, Sound
<1>8. /\ w.applied # NoSize =>
           /\ kept.watch = w /\ kept.watch # NoWatch /\ Clamped(w, w.applied)
           /\ w.owner = "desktop" => w.force
           /\ w.owner = "phone" /\ ~w.force /\ Running(w.term) => kept.size[w.term] = w.applied
      /\ w.owner \in {"phone", "desktop"}
  BY <1>1, PreWatchType, <1>4 DEF Honest, Real, Watching, Watches, Owners, NewWatch, Sizes
<1>9. kept.watch = NoWatch \/ kept.watch.term = w.term
  BY <1>1 DEF Watching
<1> HIDE DEF u, asked, w
<1>11. Real(u)  BY <1>4, ClampBounds, <1>6, <1>7, <1>8, WatchAssumption DEF Real, Clamped
<1>14. Running(w.term) => u.size[w.term] # NoSize  BY <1>7, <1>1, <1>4 DEF Sized, Watches, Honest
<1>15. Honest(EmitWatchOwned(u))  BY <1>6, <1>7, <1>9, <1>11, <1>1, <1>14, TakeHonest DEF Honest
<1> QED
  BY <1>2, <1>15

LEMMA MigrateHonest ==
  ASSUME DesktopOK, NEW v, Sound(v), Honest(v), v.watch # NoWatch, NEW t \in Terms, Created(t)
  PROVE  Honest(MigrateWatchToRebound(v, t))
<1> DEFINE old == v.watch
           r == EmitWatchEnded(RestoreDesktopGeometry(v, old.term), old.term)
           moved == [old EXCEPT !.term = t, !.pre = PreWatch(t), !.applied = NoSize,
                                !.pending = NoSize, !.debounce = FALSE, !.force = FALSE]
           narrow == ClampToPreWatch(moved.pre, old.requested)
<1>1. old \in Watches /\ old.term \in Terms /\ v \in ViewportType
  BY SoundWatch
<1>2. /\ moved \in Watches /\ moved.term = t /\ moved.owner = old.owner /\ moved.pre \in Nat
      /\ moved.applied = NoSize /\ moved.pending = NoSize /\ moved # NoWatch
  BY <1>1, PreWatchType, WatchAssumption DEF Watches, Sizes
<1>3. /\ r \in ViewportType /\ r.gate = {}
      /\ \A x \in Terms : Running(x) => r.size[x] = desk[x]
  BY <1>1, SoundWatch, Released
<1>4. ToldOf(r, NoWatch)
  BY <1>1, EmitEndedTold DEF Honest
<1>5. Sized(r)
  BY <1>3 DEF Sized, DesktopOK
<1>6. CASE t = old.term
  BY <1>6, RestoreHonest DEF MigrateWatchToRebound
<1>7. CASE t # old.term /\ old.owner = "desktop"
  <2>1. MigrateWatchToRebound(v, t) = [r EXCEPT !.watch = moved]
    BY <1>7 DEF MigrateWatchToRebound
  <2> HIDE DEF r, moved
  <2> DEFINE u == [r EXCEPT !.watch = moved]
  <2>2. u.watch = moved /\ u.size = r.size /\ u.emitted = r.emitted /\ u.pane = r.pane
    BY <1>3 DEF ViewportType
  <2> HIDE DEF u
  <2> QED  BY <2>1, <1>2, <1>4, <1>5, <1>7, <2>2 DEF u, Honest, ToldOf, Real, Sized
<1>8. CASE t # old.term /\ old.owner # "desktop" /\ old.requested = NoSize
  <2> DEFINE u == [SetPhoneOwned(r, t) EXCEPT !.watch = moved]
  <2>1. MigrateWatchToRebound(v, t) = EmitWatchOwned(u)
    BY <1>8 DEF MigrateWatchToRebound
  <2>2. moved.owner = "phone"
    BY <1>1, <1>2, <1>8 DEF Watches, Owners
  <2> HIDE DEF r, moved
  <2>3. /\ u \in ViewportType /\ u.watch = moved /\ u.size = r.size
        /\ u.emitted = r.emitted /\ u.pane = r.pane
    BY <1>2, <1>3 DEF SetPhoneOwned, ViewportType
  <2> HIDE DEF u
  <2>4. Real(u)
    BY <1>2, <2>3 DEF Real
  <2>5. Running(t) => u.size[t] # NoSize
    BY <1>5, <2>3 DEF Sized
  <2> QED
    BY <1>2, <1>4, <1>5, <2>1, <2>2, <2>3, <2>4, <2>5, TakeHonest
<1>9. CASE t # old.term /\ old.owner # "desktop" /\ old.requested # NoSize
  <2> DEFINE w == [moved EXCEPT !.applied = narrow]
             u == [ApplyWatchResize(SetPhoneOwned(r, t), t, narrow) EXCEPT !.watch = w]
  <2>1. MigrateWatchToRebound(v, t) = EmitWatchOwned(u)
    BY <1>9 DEF MigrateWatchToRebound
  <2>3. narrow \in Nat /\ Clamped(moved, narrow)  BY <1>2, <1>1, <1>9, ClampBounds DEF Watches, Sizes
  <2> HIDE DEF narrow, moved, r
  <2>5. /\ w \in Watches /\ w.owner = "phone" /\ w.term = t /\ w.applied = narrow
        /\ w.pending = NoSize /\ w.pre = moved.pre /\ w # NoWatch
    BY <1>2, <2>3, <1>1, <1>9, WatchAssumption DEF Watches, Sizes, Owners
  <2> HIDE DEF w
  <2>6. /\ u \in ViewportType /\ u.watch = w /\ u.emitted = r.emitted /\ u.pane = r.pane
        /\ \A x \in Terms : x # t => u.size[x] = r.size[x]
        /\ Running(t) => u.size[t] = narrow
    BY <1>3, <2>3, <2>5 DEF SetPhoneOwned, ApplyWatchResize, ViewportType, Sizes
  <2> HIDE DEF u
  <2>7. Real(u)
    BY <2>3, <2>5, <2>6 DEF Real, Clamped
  <2>8. Running(t) => u.size[t] # NoSize
    BY <2>3, <2>6, SizeAssumption
  <2> QED
    BY <1>4, <1>5, <2>1, <2>5, <2>6, <2>7, <2>8, TakeHonest
<1> QED
  BY <1>6, <1>7, <1>8, <1>9

LEMMA ReboundHonest ==
  ASSUME DesktopOK, NEW v, Sound(v), Honest(v), NEW a, NEW t \in Terms, Created(t)
  PROVE  Honest(OnRebound(v, a, t))
  BY MigrateHonest DEF OnRebound, Watching

LEMMA DebounceHonest ==
  ASSUME DesktopOK, NEW v, Sound(v), Honest(v), v.watch # NoWatch
  PROVE  Honest(FireDebounce(v))
<1> DEFINE w == v.watch
           quiet == [w EXCEPT !.debounce = FALSE, !.pending = NoSize]
           settled == [quiet EXCEPT !.force = FALSE]
           applied == [quiet EXCEPT !.force = FALSE, !.applied = w.pending]
           resized == ApplyWatchResize(v, w.term, w.pending)
<1>1. /\ w \in Watches /\ w.term \in Terms /\ v \in ViewportType
  BY SoundWatch
<1>2. /\ quiet \in Watches /\ quiet.term = w.term /\ quiet.owner = w.owner /\ quiet.pre = w.pre
      /\ quiet.pending = NoSize /\ quiet.applied = w.applied /\ quiet.force = w.force
  BY <1>1 DEF Watches, Sizes
<1>3. /\ settled \in Watches /\ settled.term = w.term /\ settled.owner = w.owner
      /\ settled.pre = w.pre /\ settled.pending = NoSize /\ settled.applied = w.applied
      /\ settled.force = FALSE
  BY <1>1 DEF Watches, Sizes
<1>4. /\ applied \in Watches /\ applied.term = w.term /\ applied.owner = w.owner
      /\ applied.pre = w.pre /\ applied.pending = NoSize /\ applied.applied = w.pending
  BY <1>1 DEF Watches, Sizes
<1>5. /\ ToldOf(v, w) /\ Sized(v) /\ Real(v)
      /\ \A n \in Watches : [v EXCEPT !.watch = n].watch = n /\ [v EXCEPT !.watch = n].size = v.size
  BY <1>1 DEF Honest, ViewportType
<1>6. CASE w.pending = NoSize \/ w.owner # "phone"
  <2>1. FireDebounce(v) = [v EXCEPT !.watch = quiet]
    BY <1>6 DEF FireDebounce
  <2> HIDE DEF quiet
  <2>2. quiet.owner = "phone" => OwnedEvent(quiet) = OwnedEvent(w)
    BY <1>2, <1>6 DEF OwnedEvent
  <2>3. Real([v EXCEPT !.watch = quiet])
    BY <1>2, <1>5 DEF Real, Clamped
  <2> QED
    BY <1>2, <2>1, <2>2, <2>3, SameHolderHonest
<1>7. CASE w.pending # NoSize /\ w.owner = "phone" /\ ~w.force /\ w.applied = w.pending
  <2>1. FireDebounce(v) = [v EXCEPT !.watch = settled]
    BY <1>7 DEF FireDebounce
  <2> HIDE DEF settled
  <2>2. OwnedEvent(settled) = OwnedEvent(w)
    BY <1>3, <1>7 DEF OwnedEvent
  <2>3. Real([v EXCEPT !.watch = settled])
    BY <1>3, <1>5, <1>7 DEF Real, Clamped
  <2> QED
    BY <1>3, <2>1, <2>2, <2>3, SameHolderHonest
<1>8. CASE w.pending # NoSize /\ w.owner = "phone" /\ ~(~w.force /\ w.applied = w.pending)
  <2> DEFINE u == [resized EXCEPT !.watch = applied]
  <2>1. FireDebounce(v) = u
    BY <1>8 DEF FireDebounce
  <2> HIDE DEF applied
  <2>3. /\ u.watch = applied /\ u.emitted = v.emitted /\ u.pane = v.pane
        /\ \A x \in Terms : x # w.term => u.size[x] = v.size[x]
        /\ Running(w.term) => u.size[w.term] = w.pending
    BY <1>1, <1>4 DEF ApplyWatchResize, ViewportType, Watches
  <2> HIDE DEF u, resized
  <2>5. ToldOf(u, applied)  BY <1>4, <1>5, <1>8, <2>3, WatchAssumption DEF ToldOf, OwnedEvent
  <2>6. Real(u)
    BY <1>4, <1>5, <1>8, <2>3 DEF Real, Clamped
  <2>7. Sized(u)
    BY <1>5, <1>8, <2>3 DEF Sized
  <2> QED
    BY <2>1, <2>3, <2>5, <2>6, <2>7 DEF Honest
<1> QED
  BY <1>6, <1>7, <1>8

LEMMA KeystrokeHonest ==
  ASSUME DesktopOK, NEW v, Sound(v), Honest(v), NEW t \in Terms
  PROVE  Honest(NotifyDesktopKeystroke(v, t))
<1> DEFINE w == v.watch
           reclaimed == [w EXCEPT !.owner = "desktop", !.force = TRUE, !.debounce = FALSE,
                                  !.pending = IF w.debounce THEN NoSize ELSE @]
           u == [v EXCEPT !.watch = reclaimed]
           r == EmitWatchEnded(RestoreDesktopGeometry(u, t), t)
<1>1. CASE w = NoWatch \/ w.term # t \/ w.owner # "phone"
  BY <1>1 DEF NotifyDesktopKeystroke
<1>2. CASE w # NoWatch /\ w.term = t /\ w.owner = "phone"
  <2>1. /\ reclaimed \in Watches /\ reclaimed.owner = "desktop" /\ reclaimed.force = TRUE
        /\ reclaimed.pending \in {NoSize, w.pending} /\ reclaimed.applied = w.applied
        /\ reclaimed.pre = w.pre
    BY <1>2, SoundWatch DEF Watches, Owners, Sizes
  <2>2. NotifyDesktopKeystroke(v, t) = r
    BY <1>2 DEF NotifyDesktopKeystroke
  <2> HIDE DEF reclaimed
  <2>3. /\ u \in ViewportType /\ u.watch = reclaimed /\ u.gate = v.gate /\ u.size = v.size
        /\ u.emitted = v.emitted /\ u.pane = v.pane
    BY <1>2, <2>1, SoundWatch DEF ViewportType
  <2> HIDE DEF u
  <2>4. /\ r.watch = reclaimed
        /\ \A x \in Terms : Running(x) => r.size[x] = desk[x]
    BY <1>2, <2>3, SoundWatch, Released
  <2>6. ToldOf(r, NoWatch)  BY <1>2, <2>3, EmitEndedTold DEF Honest, ToldOf
  <2> HIDE DEF r
  <2>7. ToldOf(r, reclaimed)
    BY <2>1, <2>6 DEF ToldOf
  <2>8. Real(r)
    BY <1>2, <2>1, <2>4 DEF Honest, Real, Clamped
  <2>9. Sized(r)
    BY <2>4 DEF Sized, DesktopOK
  <2> QED
    BY <2>2, <2>4, <2>7, <2>8, <2>9 DEF Honest
<1> QED
  BY <1>1, <1>2

LEMMA BlurHonest ==
  ASSUME DesktopOK, NEW v, Sound(v), Honest(v), NEW t \in Terms
  PROVE  Honest(NotifyDesktopBlur(v, t))
<1> DEFINE w == v.watch
           target == IF w.applied # NoSize THEN w.applied
                     ELSE IF w.requested # NoSize THEN ClampToPreWatch(w.pre, w.requested)
                     ELSE NoSize
           owned == [w EXCEPT !.owner = "phone"]
           narrowed == [owned EXCEPT !.applied = target, !.force = FALSE]
<1>1. CASE w = NoWatch \/ w.term # t \/ w.owner # "desktop" \/ v.active # w.agent
  BY <1>1 DEF NotifyDesktopBlur
<1>2. CASE ~(w = NoWatch \/ w.term # t \/ w.owner # "desktop" \/ v.active # w.agent)
  <2>1. w \in Watches /\ w.term = t /\ v \in ViewportType
    BY <1>2, SoundWatch
  <2>2. ToldOf(v, w) /\ Sized(v) /\ Real(v)
    BY DEF Honest
  <2>4. target # NoSize => target \in Nat /\ Clamped(w, target)
    <3>1. CASE w.applied # NoSize  BY <1>2, <2>2, <2>1, <3>1 DEF Real, Sizes, Watches
    <3>2. CASE w.applied = NoSize /\ w.requested # NoSize  BY <2>1, <3>2, ClampBounds DEF Sizes, Watches
    <3> QED
      BY <3>1, <3>2
  <2>5. target = NoSize => w.applied = NoSize
    OBVIOUS
  <2> HIDE DEF target
  <2>6. CASE target = NoSize
    <3> DEFINE u == [SetPhoneOwned(v, t) EXCEPT !.watch = owned]
    <3>1. NotifyDesktopBlur(v, t) = EmitWatchOwned(u)
      BY <1>2, <2>6 DEF NotifyDesktopBlur, target
    <3>2. /\ owned \in Watches /\ owned.term = t /\ owned.owner = "phone"
          /\ owned.applied = NoSize /\ owned.pending = w.pending /\ owned.pre = w.pre
      BY <2>1, <2>5, <2>6 DEF Watches, Owners
    <3> HIDE DEF owned
    <3>3. /\ u \in ViewportType /\ u.watch = owned /\ u.size = v.size
          /\ u.emitted = v.emitted /\ u.pane = v.pane
      BY <2>1, <3>2 DEF SetPhoneOwned, ViewportType
    <3> HIDE DEF u
    <3>4. Real(u)
      BY <1>2, <2>2, <3>2, <3>3 DEF Real, Clamped
    <3>5. Running(t) => u.size[t] # NoSize
      BY <2>2, <3>3 DEF Sized
    <3> QED
      BY <1>2, <2>2, <3>1, <3>2, <3>3, <3>4, <3>5, TakeHonest
  <2>7. CASE target # NoSize
    <3> DEFINE u == [ApplyWatchResize(SetPhoneOwned(v, t), t, target) EXCEPT !.watch = narrowed]
    <3>1. NotifyDesktopBlur(v, t) = EmitWatchOwned(u)
      BY <1>2, <2>7 DEF NotifyDesktopBlur, target
    <3>2. /\ narrowed \in Watches /\ narrowed.term = t /\ narrowed.owner = "phone"
          /\ narrowed.applied = target /\ narrowed.pending = w.pending /\ narrowed.pre = w.pre
          /\ narrowed # NoWatch
      BY ZenonT(60), <2>1, <2>4, <2>7, WatchAssumption DEF Watches, Owners, Sizes
    <3> HIDE DEF narrowed
    <3>3. /\ u \in ViewportType /\ u.watch = narrowed /\ u.emitted = v.emitted /\ u.pane = v.pane
          /\ \A x \in Terms : x # t => u.size[x] = v.size[x]
          /\ Running(t) => u.size[t] = target
      BY <2>1, <2>4, <2>7, <3>2 DEF SetPhoneOwned, ApplyWatchResize, ViewportType, Sizes
    <3> HIDE DEF u
    <3>4. Real(u)
      BY <1>2, <2>2, <2>4, <2>7, <3>2, <3>3 DEF Real, Clamped
    <3> QED
      BY <1>2, <2>2, <2>7, <3>1, <3>2, <3>3, <3>4, TakeHonest
  <2> QED
    BY <2>6, <2>7
<1> QED
  BY <1>1, <1>2

-----------------------------------------------------------------------------
(* What a method keeps: the watch and the subscription stay what they are  *)
(* or end.                                                                 *)

Keeps(v, r) ==
    /\ r.watch # NoWatch =>
          /\ v.watch # NoWatch
          /\ r.watch.agent = v.watch.agent
          /\ r.watch.term = v.watch.term
    /\ r.active # NoAgent => r.active = v.active

Free(v) == v.watch = NoWatch /\ v.active = NoAgent

LEMMA KeepsTransitive ==
  ASSUME NEW u, NEW v, NEW w, Keeps(u, v), Keeps(v, w)
  PROVE  Keeps(u, w)
  BY DEF Keeps

LEMMA RestoreKeeps ==
  ASSUME DesktopOK, NEW v, Sound(v)
  PROVE  Keeps(v, ExecuteWatchRestore(v))
  BY RestoreSound DEF Keeps

LEMMA GraceKeeps ==
  ASSUME NEW v, Sound(v)
  PROVE  Keeps(v, ScheduleWatchGraceRestore(v))
<1>1. CASE v.watch = NoWatch
  BY <1>1 DEF ScheduleWatchGraceRestore, Keeps
<1>2. CASE v.watch # NoWatch
  <2> DEFINE w == [v.watch EXCEPT !.grace = TRUE]
             r == [v EXCEPT !.watch = w]
  <2>2. w.agent = v.watch.agent /\ w.term = v.watch.term  BY <1>2, SoundWatch DEF Watches
  <2>3. ScheduleWatchGraceRestore(v) = r  BY <1>2, SoundWatch DEF ScheduleWatchGraceRestore, ViewportType
  <2> HIDE DEF w
  <2>4. r.watch = w /\ r.active = v.active  BY <1>2, SoundWatch DEF ViewportType
  <2> QED
    BY <1>2, <2>2, <2>3, <2>4 DEF Keeps
<1> QED
  BY <1>1, <1>2

\* drop ends the subscription, and never the watch of another agent.
LEMMA DropKeeps ==
  ASSUME DesktopOK, NEW v, Sound(v), NEW op
  PROVE  /\ Keeps(v, Drop(v, op))
         /\ Drop(v, op).active = NoAgent
<1> DEFINE ended == [v EXCEPT !.active = NoAgent]
<1>1. Sound(ended)
  BY ActiveSound
<1>2. ended.watch = v.watch /\ ended.active = NoAgent
  BY DEF Sound, ViewportType
<1> HIDE DEF ended
<1>4. /\ Keeps(ended, ExecuteWatchRestore(ended))
      /\ Keeps(ended, ScheduleWatchGraceRestore(ended))
  BY <1>1, RestoreKeeps, GraceKeeps
<1>5. /\ Keeps(v, ExecuteWatchRestore(ended)) /\ ExecuteWatchRestore(ended).active = NoAgent
      /\ Keeps(v, ScheduleWatchGraceRestore(ended))
      /\ ScheduleWatchGraceRestore(ended).active = NoAgent  BY <1>2, <1>4, KeepsTransitive DEF Keeps
<1>6. v.active = NoAgent => Keeps(v, v)
  BY DEF Keeps
<1> QED  BY <1>2, <1>5, <1>6 DEF Drop, ended, Keeps

LEMMA TeardownKeeps ==
  ASSUME DesktopOK, NEW v, Sound(v)
  PROVE  Free(Teardown(v))
<1> QED  BY DropSound, DropKeeps, RestoreSound DEF Teardown, Free

\* Nothing is held for an agent that is gone.
LEMMA SessionGoneKeeps ==
  ASSUME DesktopOK, NEW v, Sound(v), NEW a \in Agents
  PROVE  /\ Keeps(v, OnSessionGone(v, a))
         /\ ~Watching(OnSessionGone(v, a), a)
         /\ OnSessionGone(v, a).active # a
<1> DEFINE dropped == IF v.active = a THEN Drop(v, "teardown") ELSE v
<1> HIDE DEF dropped
<1> QED
  BY DropSound, DropKeeps, AgentAssumption, RestoreKeeps, RestoreSound, KeepsTransitive DEF OnSessionGone,
     dropped, Watching, Keeps

LEMMA SubscribeKeeps ==
  ASSUME DesktopOK, NEW v, Sound(v), NEW a \in Agents
  PROVE  /\ SubscribeTo(v, a).active = a
         /\ SubscribeTo(v, a).watch # NoWatch =>
               /\ v.watch # NoWatch
               /\ SubscribeTo(v, a).watch.agent = v.watch.agent
               /\ SubscribeTo(v, a).watch.term = v.watch.term
<1> QED  BY DropSound, DropKeeps DEF Keeps, SubscribeTo, Sound, ViewportType

LEMMA UnsubscribeKeeps ==
  ASSUME DesktopOK, NEW v, Sound(v), NEW a \in Agents, NEW known \in BOOLEAN
  PROVE  Keeps(v, UnsubscribeFrom(v, a, known))
<1> QED  BY DropKeeps, GraceKeeps, RestoreKeeps DEF UnsubscribeFrom, Keeps

\* Telling the renderer keeps the watch and the subscription.
LEMMA EmitOwnedKeeps ==
  ASSUME NEW v \in ViewportType
  PROVE  EmitWatchOwned(v).watch = v.watch /\ EmitWatchOwned(v).active = v.active
  BY DEF EmitWatchOwned, ViewportType

LEMMA SetViewportKeeps ==
  ASSUME DesktopOK, NEW v, Sound(v), NEW a \in Agents, NEW t \in Terms, Created(t),
         NEW cols \in Nat
  PROVE  LET r == SetViewport(v, a, t, cols)
         IN  /\ r.watch.agent = a
             /\ r.watch.term = IF Watching(v, a) THEN v.watch.term ELSE t
             /\ r.active = v.active
<1> DEFINE kept == IF v.watch = NoWatch \/ Watching(v, a) THEN v ELSE ExecuteWatchRestore(v)
           w == IF Watching(kept, a) THEN kept.watch ELSE NewWatch(a, t)
           asked == [w EXCEPT !.owner = "phone", !.grace = FALSE, !.requested = cols,
                              !.pending = ClampToPreWatch(w.pre, cols), !.debounce = TRUE]
           gated == IF Watching(kept, a) /\ w.owner = "phone" THEN kept
                    ELSE SetPhoneOwned(kept, w.term)
           u == [gated EXCEPT !.watch = asked]
<1>1. Sound(kept) /\ kept.active = v.active
  BY RestoreSound
<1>2. SetViewport(v, a, t, cols) = EmitWatchOwned(u)
  BY DEF SetViewport
<1>3. Watching(kept, a) = Watching(v, a) /\ (Watching(v, a) => kept = v)
  BY RestoreSound DEF Watching
<1> HIDE DEF kept
<1>5. w \in Watches /\ w.agent = a /\ w.term = IF Watching(v, a) THEN v.watch.term ELSE t
  BY <1>1, <1>3, PreWatchType, SoundWatch DEF Watching, NewWatch, Watches, Owners, Sizes
<1>6. asked \in Watches /\ asked.agent = w.agent /\ asked.term = w.term
  BY <1>5, ClampType DEF Watches, Owners, Sizes
<1> HIDE DEF w, asked
<1>8. u \in ViewportType /\ u.watch = asked /\ u.active = kept.active
  BY <1>6, <1>1, <1>5 DEF SetPhoneOwned, ViewportType, Watches, Sound
<1> HIDE DEF u
<1> QED
  BY <1>1, <1>2, <1>5, <1>6, <1>8, EmitOwnedKeeps

\* The watch moves to the terminal the entry is bound to now.
LEMMA MigrateKeeps ==
  ASSUME DesktopOK, NEW v, Sound(v), v.watch # NoWatch, NEW t \in Terms, t # v.watch.term
  PROVE  LET r == MigrateWatchToRebound(v, t)
         IN  /\ r.watch.agent = v.watch.agent
             /\ r.watch.term = t
             /\ r.active = v.active
<1> DEFINE old == v.watch
           r == EmitWatchEnded(RestoreDesktopGeometry(v, old.term), old.term)
           moved == [old EXCEPT !.term = t, !.pre = PreWatch(t), !.applied = NoSize,
                                !.pending = NoSize, !.debounce = FALSE, !.force = FALSE]
           narrow == ClampToPreWatch(moved.pre, old.requested)
           w == [moved EXCEPT !.applied = narrow]
<1>2. moved \in Watches /\ moved.term = t /\ moved.agent = old.agent /\ moved.pre \in Nat
  BY SoundWatch, PreWatchType DEF Watches, Sizes
<1>3. r \in ViewportType /\ r.active = v.active  BY SoundWatch, Released
<1>4. CASE old.owner = "desktop"
  <2>1. MigrateWatchToRebound(v, t) = [r EXCEPT !.watch = moved]
    BY <1>4 DEF MigrateWatchToRebound
  <2> HIDE DEF r, moved
  <2> QED
    BY <1>2, <1>3, <2>1 DEF ViewportType
<1>5. CASE old.owner # "desktop" /\ old.requested = NoSize
  <2> DEFINE u == [SetPhoneOwned(r, t) EXCEPT !.watch = moved]
  <2>1. MigrateWatchToRebound(v, t) = EmitWatchOwned(u)
    BY <1>5 DEF MigrateWatchToRebound
  <2> HIDE DEF r, moved
  <2>2. u \in ViewportType /\ u.watch = moved /\ u.active = r.active
    BY <1>2, <1>3 DEF SetPhoneOwned, ViewportType
  <2> HIDE DEF u
  <2> QED
    BY <1>2, <1>3, <2>1, <2>2, EmitOwnedKeeps
<1>6. CASE old.owner # "desktop" /\ old.requested # NoSize
  <2> DEFINE u == [ApplyWatchResize(SetPhoneOwned(r, t), t, narrow) EXCEPT !.watch = w]
  <2>1. MigrateWatchToRebound(v, t) = EmitWatchOwned(u)
    BY <1>6 DEF MigrateWatchToRebound
  <2>3. narrow \in Nat  BY <1>2, SoundWatch, <1>6, ClampType DEF Watches, Sizes
  <2> HIDE DEF narrow, moved, r
  <2>4. w \in Watches /\ w.term = t /\ w.agent = old.agent
    BY <1>2, <2>3 DEF Watches, Sizes
  <2> HIDE DEF w
  <2>5. u \in ViewportType /\ u.watch = w /\ u.active = r.active
    BY <1>3, <2>3, <2>4 DEF SetPhoneOwned, ApplyWatchResize, ViewportType, Sizes
  <2> HIDE DEF u
  <2> QED
    BY <1>3, <2>1, <2>4, <2>5, EmitOwnedKeeps
<1> QED
  BY <1>4, <1>5, <1>6

LEMMA DebounceKeeps ==
  ASSUME NEW v, Sound(v), v.watch # NoWatch
  PROVE  Keeps(v, FireDebounce(v))
<1> DEFINE w == v.watch
           quiet == [w EXCEPT !.debounce = FALSE, !.pending = NoSize]
           settled == [quiet EXCEPT !.force = FALSE]
           applied == [quiet EXCEPT !.force = FALSE, !.applied = w.pending]
           resized == ApplyWatchResize(v, w.term, w.pending)
<1>2. \A x \in {quiet, settled, applied} : x.agent = w.agent /\ x.term = w.term  BY SoundWatch DEF Watches
<1>3. \A x : /\ [v EXCEPT !.watch = x].watch = x /\ [v EXCEPT !.watch = x].active = v.active
             /\ [resized EXCEPT !.watch = x].watch = x
             /\ [resized EXCEPT !.watch = x].active = v.active  BY SoundWatch DEF ApplyWatchResize, ViewportType
<1>4. FireDebounce(v) \in {[v EXCEPT !.watch = quiet], [v EXCEPT !.watch = settled],
                           [resized EXCEPT !.watch = applied]}
  BY DEF FireDebounce
<1> HIDE DEF quiet, settled, applied, resized
<1> QED
  BY ZenonT(60), <1>2, <1>3, <1>4 DEF Keeps

LEMMA KeystrokeKeeps ==
  ASSUME DesktopOK, NEW v, Sound(v), NEW t \in Terms
  PROVE  Keeps(v, NotifyDesktopKeystroke(v, t))
<1> DEFINE w == v.watch
           reclaimed == [w EXCEPT !.owner = "desktop", !.force = TRUE, !.debounce = FALSE,
                                  !.pending = IF w.debounce THEN NoSize ELSE @]
           u == [v EXCEPT !.watch = reclaimed]
           r == EmitWatchEnded(RestoreDesktopGeometry(u, t), t)
<1>1. CASE w = NoWatch \/ w.term # t \/ w.owner # "phone"
  BY <1>1 DEF NotifyDesktopKeystroke, Keeps
<1>2. CASE w # NoWatch /\ w.term = t /\ w.owner = "phone"
  <2>1. reclaimed \in Watches /\ reclaimed.agent = w.agent /\ reclaimed.term = w.term
    BY <1>2, SoundWatch DEF Watches, Owners, Sizes
  <2>2. NotifyDesktopKeystroke(v, t) = r
    BY <1>2 DEF NotifyDesktopKeystroke
  <2> HIDE DEF reclaimed
  <2>3. u \in ViewportType /\ u.watch = reclaimed /\ u.gate = v.gate /\ u.size = v.size
        /\ u.active = v.active
    BY <1>2, <2>1, SoundWatch DEF ViewportType
  <2> HIDE DEF u
  <2>4. r.watch = reclaimed /\ r.active = v.active
    BY <1>2, <2>3, SoundWatch, Released
  <2> HIDE DEF r
  <2> QED
    BY <1>2, <2>1, <2>2, <2>4 DEF Keeps
<1> QED
  BY <1>1, <1>2

LEMMA BlurKeeps ==
  ASSUME DesktopOK, NEW v, Sound(v), NEW t \in Terms
  PROVE  Keeps(v, NotifyDesktopBlur(v, t))
<1> DEFINE w == v.watch
           target == IF w.applied # NoSize THEN w.applied
                     ELSE IF w.requested # NoSize THEN ClampToPreWatch(w.pre, w.requested)
                     ELSE NoSize
           owned == [w EXCEPT !.owner = "phone"]
           narrowed == [owned EXCEPT !.applied = target, !.force = FALSE]
<1>1. CASE w = NoWatch \/ w.term # t \/ w.owner # "desktop" \/ v.active # w.agent
  BY <1>1 DEF NotifyDesktopBlur, Keeps
<1>2. CASE ~(w = NoWatch \/ w.term # t \/ w.owner # "desktop" \/ v.active # w.agent)
  <2>1. w \in Watches /\ v \in ViewportType /\ w.applied \in Sizes /\ w.requested \in Sizes
        /\ w.pre \in Nat
    BY <1>2, SoundWatch DEF Watches
  <2>2. target \in Sizes
    BY <2>1, ClampType DEF Sizes
  <2> HIDE DEF target
  <2>3. CASE target = NoSize
    <3> DEFINE u == [SetPhoneOwned(v, t) EXCEPT !.watch = owned]
    <3>1. NotifyDesktopBlur(v, t) = EmitWatchOwned(u)
      BY <1>2, <2>3 DEF NotifyDesktopBlur, target
    <3>2. owned \in Watches /\ owned.agent = w.agent /\ owned.term = w.term
      BY <2>1 DEF Watches, Owners
    <3> HIDE DEF owned
    <3>3. u \in ViewportType /\ u.watch = owned /\ u.active = v.active
      BY <2>1, <3>2 DEF SetPhoneOwned, ViewportType
    <3> HIDE DEF u
    <3> QED
      BY <1>2, <3>1, <3>2, <3>3, EmitOwnedKeeps DEF Keeps
  <2>4. CASE target # NoSize
    <3> DEFINE u == [ApplyWatchResize(SetPhoneOwned(v, t), t, target) EXCEPT !.watch = narrowed]
    <3>1. NotifyDesktopBlur(v, t) = EmitWatchOwned(u)
      BY <1>2, <2>4 DEF NotifyDesktopBlur, target
    <3>2. narrowed \in Watches /\ narrowed.agent = w.agent /\ narrowed.term = w.term
      BY <2>1, <2>2 DEF Watches, Owners
    <3> HIDE DEF narrowed
    <3>3. u \in ViewportType /\ u.watch = narrowed /\ u.active = v.active
      BY <2>1, <2>2, <3>2 DEF SetPhoneOwned, ApplyWatchResize, ViewportType
    <3> HIDE DEF u
    <3> QED
      BY <1>2, <3>1, <3>2, <3>3, EmitOwnedKeeps DEF Keeps
  <2> QED
    BY <2>3, <2>4
<1> QED
  BY <1>1, <1>2

-----------------------------------------------------------------------------
(* The strengthened invariant is inductive.                                *)

\* Installing an honest record, with the sessions untouched.
LEMMA BecomesHonest ==
  ASSUME NEW v \in ViewportType, Honest(v), Becomes(v), UNCHANGED session
  PROVE  Viewport' = v /\ Honest(Viewport)'
<1> QED  BY DEF Honest, Real, Sized, ToldOf, Becomes, Viewport, ViewportType, Running

\* ... a record that keeps the watch and the subscription, or ends them, follows
\* the catalog when the entries it still uses stay live and bound as they are.
LEMMA KeepsFollows ==
  ASSUME Follows(Viewport), NEW v, Keeps(Viewport, v), Viewport' = v,
         \A a \in Agents : (Watching(v, a) \/ v.active = a) /\ Known(a) /\ entries[a].live =>
            /\ entries'[a] # NoEntry
            /\ entries'[a].live
            /\ entries'[a].term = entries[a].term,
         v.watch # NoWatch => v.watch.agent \in Agents,
         v.active # NoAgent => v.active \in Agents,
         paired' = paired
  PROVE  Follows(Viewport)'
  BY DEF Follows, Keeps, Watching, Known, Bound

LEMMA FreeFollows ==
  ASSUME NEW v, Free(v), Viewport' = v
  PROVE  Follows(Viewport)'
  BY DEF Follows, Free

\* What the agents of a record are.
LEMMA RecordAgents ==
  ASSUME NEW v \in ViewportType
  PROVE  /\ v.watch # NoWatch => v.watch.agent \in Agents
         /\ v.active # NoAgent => v.active \in Agents
  BY DEF ViewportType, Watches

\* A method that only keeps, and touches neither the catalog nor the pairing.
LEMMA KeptStep ==
  ASSUME HInv, NEW v, Sound(v), Honest(v), Keeps(Viewport, v), Becomes(v),
         UNCHANGED <<session, entries, paired>>
  PROVE  Honest(Viewport)' /\ Follows(Viewport)'
<1> QED  BY BecomesHonest, RecordAgents, KeepsFollows DEF Sound, HInv, Known

\* The catalog changes, and no live entry is lost or rebound.
LEMMA CatalogStep ==
  ASSUME HInv, UNCHANGED <<session, gate, size, registryVars, paired>>,
         \A a \in Agents : Known(a) /\ entries[a].live =>
            /\ entries'[a] # NoEntry
            /\ entries'[a].live
            /\ entries'[a].term = entries[a].term
  PROVE  Honest(Viewport)' /\ Follows(Viewport)'
<1> QED
  BY BecomesHonest, RecordAgents, KeepsFollows DEF HInv, Becomes, Viewport, registryVars, IInv, Sound, Keeps

\* The session of an agent is gone: its entry is removed or no longer live.
LEMMA GoneStep ==
  ASSUME HInv, NEW a \in Agents, Becomes(OnSessionGone(Viewport, a)),
         UNCHANGED <<session, paired>>,
         \A x \in Agents \ {a} : entries'[x] = entries[x]
  PROVE  Honest(Viewport)' /\ Follows(Viewport)'
<1> DEFINE v == OnSessionGone(Viewport, a)
<1>1. Sound(v) /\ Honest(v)
  BY SessionGoneSound, SessionGoneHonest DEF HInv, IInv
<1>2. Keeps(Viewport, v) /\ ~Watching(v, a) /\ v.active # a
  BY SessionGoneKeeps DEF HInv, IInv
<1>3. v \in ViewportType /\ Becomes(v)
  BY <1>1 DEF Sound
<1> HIDE DEF v
<1>5. Follows(Viewport)'  BY <1>2, <1>3, <1>1, BecomesHonest, RecordAgents, KeepsFollows DEF HInv, Known
<1> QED  BY <1>1, <1>3, BecomesHonest, <1>5

\* publishExit
LEMMA PublishHonest ==
  ASSUME HInv, NEW a \in Agents, Known(a), PublishExit(a), UNCHANGED <<session, paired>>
  PROVE  Honest(Viewport)' /\ Follows(Viewport)'
<1>2. CASE entries[a].live  BY <1>2, GoneStep DEF PublishExit, HInv, IInv, CatalogTypeOK, Known
<1>3. CASE ~entries[a].live  BY <1>3, CatalogStep DEF PublishExit, Known, HInv, IInv, CatalogTypeOK
<1> QED
  BY <1>2, <1>3

LEMMA InitHInv == Init => HInv
<1> SUFFICES ASSUME Init PROVE HInv
  OBVIOUS
<1> QED
  BY InitIInv DEF HInv, Follows, Init, RegistryInit, Viewport, Honest, ToldOf, Real, Sized, TerminalInit,
     Running

\* What a session does, on the desktop's side, to the watch in flight.
LEMMA SessionStep ==
  ASSUME HInv, UNCHANGED <<registryVars, entries, paired>>,
         Sized(Viewport)',
         watch # NoWatch /\ watch.owner = "phone" /\ session'[watch.term] = "running" =>
            Running(watch.term) /\ size'[watch.term] = size[watch.term]
  PROVE  Honest(Viewport)' /\ Follows(Viewport)'
<1>4. Real(Viewport)'  BY DEF HInv, Honest, Real, Running, Viewport, registryVars
<1> QED  BY <1>4 DEF Honest, HInv, ToldOf, Viewport, registryVars, Follows, Bound, Known

LEMMA TerminalStepHonest ==
  ASSUME HInv, NEW t \in Terms, TerminalStep(t)
  PROVE  Honest(Viewport)' /\ Follows(Viewport)'
<1>0. /\ AgentOf[t] \in Agents /\ DesktopOK /\ Sound(Viewport) /\ Honest(Viewport)
      /\ entries \in [Agents -> Entries \cup {NoEntry}]
      /\ Viewport.watch = watch /\ Viewport.gate = gate /\ Viewport.size = size
      /\ size \in [Terms -> Sizes]
  BY AgentOfAssumption DEF HInv, IInv, CatalogTypeOK, Viewport, Sound, ViewportType
<1>w. watch # NoWatch => watch.term \in Terms /\ Created(watch.term)
  BY <1>0, SoundWatch
<1>1. CASE CreateTerminal(t)
  <2>1. /\ ~Created(t) /\ session' = [session EXCEPT ![t] = "running"]
        /\ size' = [size EXCEPT ![t] = SpawnSize]
        /\ UNCHANGED <<registryVars, entries, paired>>
    BY <1>1 DEF CreateTerminal, Create, Created, catalogVars, phoneVars
  <2>2. \A x \in Terms : x # t => (Running(x)' <=> Running(x)) /\ size'[x] = size[x]
    BY <2>1, <1>0 DEF Running, DesktopOK
  <2>4. Sized(Viewport)'  BY <1>0, <2>1, <2>2, SizeAssumption DEF Sized, Honest, Viewport
  <2>5. watch # NoWatch => watch.term # t
    BY <1>w, <2>1
  <2> QED
    BY <1>w, <2>1, <2>2, <2>4, <2>5, SessionStep DEF Running
<1>2. CASE ExitTerminal(t)
  <2>1. /\ session' = [session EXCEPT ![t] = "exited"] /\ size' = size
        /\ UNCHANGED <<registryVars, entries, paired>>
    BY <1>2 DEF ExitTerminal, PtyExit, phoneVars
  <2>2. \A x \in Terms : Running(x)' => Running(x)
    BY <2>1, <1>0 DEF Running, DesktopOK
  <2>3. Sized(Viewport)'
    BY <1>0, <2>1, <2>2 DEF Sized, Honest, Viewport
  <2> QED
    BY <1>w, <2>1, <2>2, <2>3, SessionStep DEF Running
<1>3. CASE DrainedBound(t)
  <2>1. PICK a \in Agents : /\ Bound(a, t)
                            /\ \/ /\ entries[a].intent # "none"
                                  /\ entries' = [entries EXCEPT ![a].intent = "deferred"]
                                  /\ UNCHANGED <<gate, size, registryVars>>
                               \/ PublishExit(a)
    BY <1>3 DEF DrainedBound
  <2>2. UNCHANGED <<session, paired>> /\ Known(a) /\ entries[a] \in Entries
    BY <1>0, <1>3, <2>1 DEF DrainedBound, phoneVars, Bound, Known
  <2>3. CASE entries' = [entries EXCEPT ![a].intent = "deferred"] /\ UNCHANGED <<gate, size, registryVars>>
    <3>1. /\ [entries[a] EXCEPT !.intent = "deferred"].live = entries[a].live
          /\ [entries[a] EXCEPT !.intent = "deferred"].term = entries[a].term
          /\ [entries[a] EXCEPT !.intent = "deferred"] \in Entries
      BY <2>2 DEF Entries, Intents
    <3>2. entries' = [entries EXCEPT ![a] = [entries[a] EXCEPT !.intent = "deferred"]]
      BY <2>3
    <3> QED
      BY <1>0, <2>2, <2>3, <3>1, <3>2, EntryAssumption, CatalogStep DEF Known
  <2> QED
    BY <2>1, <2>2, <2>3, PublishHonest
<1>4. CASE DrainedRebound(t)
  BY <1>4, CatalogStep DEF DrainedRebound, terminalVars, phoneVars, Known
<1>5. CASE DrainedOrphan(t)
  BY <1>0, <1>5, GoneStep DEF DrainedOrphan, phoneVars
<1>6. CASE \E live \in BOOLEAN : Admit(t, live)
  <2>1. PICK live \in BOOLEAN : Admit(t, live)
    BY <1>6
  <2> QED  BY <1>0, <2>1, CatalogStep DEF terminalVars, phoneVars, Known, Admit
<1>7. CASE Rebind(t)
  <2> DEFINE a == AgentOf[t]
             e == [term |-> t, live |-> TRUE, intent |-> "none"]
             v == OnRebound(Viewport, a, t)
  <2>1. /\ Known(a) /\ entries[a].term < t /\ Created(t) /\ Becomes(v)
        /\ entries' = [entries EXCEPT ![a] = e]
        /\ UNCHANGED <<session, paired>>
    BY <1>7 DEF Rebind, phoneVars, Running, Created
  <2>4. Viewport' = v /\ Honest(Viewport)'  BY <2>1, <1>0, ReboundSound, ReboundHonest, BecomesHonest DEF Sound
  <2>5. /\ entries'[a] = e /\ e # NoEntry
        /\ \A x \in Agents : x # a => entries'[x] = entries[x]
    <3>1. e \in Entries
      BY DEF Entries, Intents
    <3> HIDE DEF e
    <3> QED
      BY <1>0, <2>1, <3>1, EntryAssumption
  <2>6. e.term = t /\ e.live
    OBVIOUS
  <2>8. CASE Watching(Viewport, a)
    <3>2. Viewport.watch # NoWatch /\ Viewport.watch.agent = a /\ Viewport.watch.term # t /\ paired
      BY <2>1, <1>0, TermsAssumption, <2>8 DEF HInv, Follows, Watching, Bound, Entries, Known
    <3>3. v.watch.agent = a /\ v.watch.term = t /\ v.active = Viewport.active
      BY <1>0, <2>1, <2>8, <3>2, MigrateKeeps DEF OnRebound
    <3> HIDE DEF v, e
    <3>4. Viewport.active # NoAgent => Viewport.active \in Agents
      BY <1>0, RecordAgents DEF Sound
    <3> QED
      BY <1>0, <2>1, <2>4, <2>5, <2>6, <3>2, <3>3, <3>4 DEF HInv, Follows, Bound, Known
  <2>9. CASE ~Watching(Viewport, a)
    <3>1. v = Viewport
      BY <2>9 DEF OnRebound
    <3>2. /\ Viewport.active # NoAgent => Viewport.active \in Agents
          /\ Viewport.watch # NoWatch => Viewport.watch.agent \in Agents
      BY <1>0, RecordAgents DEF Sound
    <3> HIDE DEF v, e
    <3> QED
      BY <2>1, <2>4, <2>5, <2>6, <2>9, <3>1, <3>2 DEF HInv, Follows, Bound, Known, Watching
  <2> QED
    BY <2>4, <2>8, <2>9
<1>8. CASE RendererLearns(t)
  BY <1>8, CatalogStep DEF RendererLearns, terminalVars, phoneVars, Known
<1>9. CASE \E cols \in DesktopSizes : DesktopFit(t, cols)
  <2>1. PICK cols \in DesktopSizes : DesktopFit(t, cols)
    BY <1>9
  <2>3. /\ session' = session
        /\ size' = IF t \in gate THEN size ELSE [size EXCEPT ![t] = cols]
        /\ UNCHANGED <<registryVars, entries, paired>>
    BY <2>1 DEF DesktopFit, Resize, catalogVars, phoneVars
  <2>4. \A x : Running(x)' <=> Running(x)
    BY <2>3 DEF Running
  <2>6. Sized(Viewport)'  BY <1>0, SizeAssumption, <2>4, <2>3 DEF Sized, Honest, Viewport
  <2>8. watch # NoWatch /\ watch.owner = "phone" /\ Running(watch.term) =>
           size'[watch.term] = size[watch.term]  BY <1>0, <1>w, <2>3 DEF Sound, Holds
  <2> QED
    BY <2>3, <2>4, <2>6, <2>8, SessionStep DEF Running
<1>10. CASE Keystroke(t)
  <2>1. /\ Becomes(NotifyDesktopKeystroke(Viewport, t)) /\ UNCHANGED <<session, entries, paired>>
    BY <1>10 DEF Keystroke, catalogVars, phoneVars
  <2> QED
    BY <1>0, <2>1, KeystrokeSound, KeystrokeHonest, KeystrokeKeeps, KeptStep
<1>11. CASE PaneBlur(t)
  <2>1. /\ Becomes(NotifyDesktopBlur(Viewport, t)) /\ UNCHANGED <<session, entries, paired>>
    BY <1>11 DEF PaneBlur, catalogVars, phoneVars
  <2> QED
    BY <1>0, <2>1, BlurSound, BlurHonest, BlurKeeps, KeptStep
<1> QED
  BY <1>1, <1>2, <1>3, <1>4, <1>5, <1>6, <1>7, <1>8, <1>9, <1>10, <1>11 DEF TerminalStep

LEMMA AgentStepHonest ==
  ASSUME HInv, NEW a \in Agents, AgentStep(a)
  PROVE  Honest(Viewport)' /\ Follows(Viewport)'
<1>0. /\ DesktopOK /\ Sound(Viewport) /\ Honest(Viewport) /\ Viewport \in ViewportType
      /\ entries \in [Agents -> Entries \cup {NoEntry}]
      /\ Viewport.active # NoAgent => Viewport.active \in Agents
      /\ Viewport.watch # NoWatch => Viewport.watch.agent \in Agents
  BY RecordAgents DEF HInv, IInv, CatalogTypeOK, Sound
<1>e. Known(a) => entries[a] \in Entries /\ entries[a].term \in Terms /\ Created(entries[a].term)
  BY DEF HInv, IInv, CatalogTypeOK, Known, Entries
<1>f. ASSUME Known(a),
             \/ entries' = [entries EXCEPT ![a].live = TRUE]
             \/ \E i \in Intents : entries' = [entries EXCEPT ![a].intent = i]
      PROVE  \A x \in Agents : Known(x) /\ entries[x].live =>
                entries'[x] # NoEntry /\ entries'[x].live /\ entries'[x].term = entries[x].term
  <2>1. PICK e \in Entries : /\ entries' = [entries EXCEPT ![a] = e]
                             /\ entries[a].live => e.live
                             /\ e.term = entries[a].term
    <3>1. CASE entries' = [entries EXCEPT ![a].live = TRUE]
      <4> DEFINE e == [entries[a] EXCEPT !.live = TRUE]
      <4> HIDE DEF e
      <4> QED  BY <1>e, <1>f, <3>1 DEF Entries
    <3>2. ASSUME NEW i \in Intents, entries' = [entries EXCEPT ![a].intent = i]
          PROVE  \E e \in Entries : /\ entries' = [entries EXCEPT ![a] = e]
                                    /\ entries[a].live => e.live
                                    /\ e.term = entries[a].term
      <4> DEFINE e == [entries[a] EXCEPT !.intent = i]
      <4> HIDE DEF e
      <4> QED  BY <1>e, <1>f, <3>2 DEF Entries
    <3> QED
      BY <1>f, <3>1, <3>2
  <2> QED  BY <2>1, <1>0, EntryAssumption DEF Known
<1>1. CASE Republish(a)
  BY <1>1, <1>f, CatalogStep DEF Republish, terminalVars, phoneVars
<1>2. CASE Remove(a)
  BY <1>0, <1>2, GoneStep DEF Remove, phoneVars
<1>3. CASE RebindIntent(a)  BY <1>3, <1>f, CatalogStep DEF RebindIntent, terminalVars, phoneVars, Intents
<1>4. CASE ReleaseIntent(a)
  <2>1. Known(a) /\ UNCHANGED <<session, paired>>
    BY <1>4 DEF ReleaseIntent, phoneVars
  <2>2. CASE PublishExit(a)
    BY <2>1, <2>2, PublishHonest
  <2>3. CASE ~PublishExit(a)
    <3>1. entries' = [entries EXCEPT ![a].intent = "none"] /\ UNCHANGED <<gate, size, registryVars>>
      BY <1>4, <2>3 DEF ReleaseIntent
    <3>2. "none" \in Intents
      BY DEF Intents
    <3> QED
      BY <1>f, <2>1, <3>1, <3>2, CatalogStep
  <2> QED
    BY <2>2, <2>3
<1>5. CASE Subscribe(a)
  <2> DEFINE v == SubscribeTo(Viewport, a)
  <2>1. Becomes(v) /\ paired /\ Known(a) /\ entries[a].live /\ UNCHANGED <<session, entries, paired>>
    BY <1>5 DEF Subscribe, Reachable, catalogVars, phoneVars
  <2>2. Sound(v) /\ Honest(v) /\ v \in ViewportType
    BY <1>0, SubscribeSound, SubscribeHonest DEF Sound
  <2>3. /\ v.active = a
        /\ v.watch # NoWatch => /\ Viewport.watch # NoWatch
                                /\ v.watch.agent = Viewport.watch.agent
                                /\ v.watch.term = Viewport.watch.term
    BY <1>0, SubscribeKeeps
  <2> HIDE DEF v
  <2> QED  BY <2>1, <2>3, <2>2, BecomesHonest DEF HInv, Follows, Bound, Known
<1>6. CASE Unsubscribe(a)
  <2>1. Known(a) \in BOOLEAN
    BY DEF Known
  <2>2. Becomes(UnsubscribeFrom(Viewport, a, Known(a))) /\ UNCHANGED <<session, entries, paired>>
    BY <1>6 DEF Unsubscribe, catalogVars
  <2> QED
    BY <1>0, <2>1, <2>2, UnsubscribeSound, UnsubscribeHonest, UnsubscribeKeeps, KeptStep
<1>7. CASE \E cols \in PhoneSizes : SetWatchViewport(a, cols)
  <2>1. PICK cols \in PhoneSizes : SetWatchViewport(a, cols)
    BY <1>7
  <2> DEFINE t == entries[a].term
             v == SetViewport(Viewport, a, t, cols)
  <2>2. /\ Becomes(v) /\ paired /\ Known(a) /\ entries[a].live /\ cols \in Nat
        /\ UNCHANGED <<session, entries, paired>>
    BY <2>1, PhoneAssumption DEF SetWatchViewport, Reachable, catalogVars
  <2>3. Sound(v) /\ Honest(v) /\ v \in ViewportType
    BY <1>0, <1>e, <2>2, SetViewportSound, SetViewportHonest DEF Sound
  <2>4. /\ v.watch.agent = a
        /\ v.watch.term = IF Watching(Viewport, a) THEN Viewport.watch.term ELSE t
        /\ v.active = Viewport.active
    BY <1>0, <1>e, <2>2, SetViewportKeeps
  <2> HIDE DEF v
  <2>6. v.watch.term = t
    BY <2>4 DEF HInv, Follows, Bound, Watching
  <2> QED  BY <2>2, <2>4, <2>3, BecomesHonest, <2>6 DEF HInv, Follows, Bound, Known
<1> QED
  BY <1>1, <1>2, <1>3, <1>4, <1>5, <1>6, <1>7 DEF AgentStep

LEMMA HostStepHonest ==
  ASSUME HInv, HostStep
  PROVE  Honest(Viewport)' /\ Follows(Viewport)'
<1>0. /\ DesktopOK /\ Sound(Viewport) /\ Honest(Viewport) /\ Viewport \in ViewportType
      /\ Viewport.watch = watch
  BY DEF HInv, IInv, Sound, Viewport
<1>t. ASSUME Becomes(Teardown(Viewport)), UNCHANGED session
      PROVE  Honest(Viewport)' /\ Follows(Viewport)'
  <2>2. Viewport' = Teardown(Viewport) /\ Honest(Viewport)'
    BY <1>t, <1>0, TeardownSound, TeardownHonest, TeardownKeeps, BecomesHonest DEF Sound
  <2> QED  BY <1>0, TeardownSound, TeardownHonest, TeardownKeeps, <2>2, FreeFollows DEF Sound
<1>1. CASE SocketOpens
  BY <1>1, CatalogStep DEF SocketOpens, terminalVars, catalogVars, Known
<1>2. CASE SocketCloses
  BY <1>2, CatalogStep DEF SocketCloses, terminalVars, catalogVars, Known
<1>3. CASE Detach
  BY <1>3, <1>t DEF Detach
<1>4. CASE Attach
  <2>1. CASE paired
    BY <1>4, <1>t, <2>1 DEF Attach
  <2>2. CASE ~paired
    BY <2>2, <1>0, <1>4, BecomesHonest, FreeFollows DEF HInv, Follows, Free, Attach, Becomes, Viewport,
       registryVars
  <2> QED
    BY <2>1, <2>2
<1>5. CASE AppBlur
  <2>1. /\ Becomes(NotifyDesktopBlur(Viewport, watch.term)) /\ UNCHANGED <<session, entries, paired>>
        /\ watch.term \in Terms
    BY <1>0, <1>5, SoundWatch DEF AppBlur, catalogVars, phoneVars
  <2> QED
    BY <1>0, <2>1, BlurSound, BlurHonest, BlurKeeps, KeptStep
<1>6. CASE DebounceFires
  <2>1. /\ Becomes(FireDebounce(Viewport)) /\ UNCHANGED <<session, entries, paired>>
        /\ Viewport.watch # NoWatch
    BY <1>0, <1>6 DEF DebounceFires, catalogVars, phoneVars
  <2> QED
    BY <1>0, <2>1, DebounceSound, DebounceHonest, DebounceKeeps, KeptStep
<1>7. CASE GraceFires
  <2>1. Becomes(ExecuteWatchRestore(Viewport)) /\ UNCHANGED <<session, entries, paired>>
    BY <1>7 DEF GraceFires, catalogVars, phoneVars
  <2> QED
    BY <1>0, <2>1, RestoreSound, RestoreHonest, RestoreKeeps, KeptStep
<1> QED
  BY <1>1, <1>2, <1>3, <1>4, <1>5, <1>6, <1>7 DEF HostStep

LEMMA StutterHonest ==
  ASSUME HInv, UNCHANGED vars
  PROVE  Honest(Viewport)' /\ Follows(Viewport)'
  BY CatalogStep DEF vars, terminalVars, catalogVars, phoneVars, Known

LEMMA HonestInvariant == Spec => []HInv
<1>1. HInv /\ [Next]_vars => HInv'
  <2> SUFFICES ASSUME HInv, [Next]_vars PROVE HInv'
    OBVIOUS
  <2>2. Honest(Viewport)' /\ Follows(Viewport)'
    BY TerminalStepHonest, AgentStepHonest, HostStepHonest, StutterHonest DEF Next
  <2> QED  BY TerminalStepIInv, AgentStepIInv, HostStepIInv, StutterIInv, <2>2 DEF HInv, Next
<1> QED
  BY <1>1, InitHInv, PTL DEF Spec

-----------------------------------------------------------------------------
(* The abstract specification.                                             *)

\* What the invariant says of the sizes of the running terminals.
LedgerOK ==
    /\ gate \subseteq Terms
    /\ \A t \in Terms : Running(t) => size[t] \in Nat
    /\ \A t \in Terms : Running(t) /\ t \notin gate => size[t] = desk[t]
    /\ \A t, u \in gate : t = u
    /\ \A t \in gate : Created(t)

LEMMA RunningSizes == HInv => LedgerOK
<1> SUFFICES ASSUME HInv PROVE LedgerOK
  OBVIOUS
<1>1. /\ DesktopOK /\ Sound(Viewport) /\ Sized(Viewport) /\ Viewport \in ViewportType
      /\ Viewport.size = size /\ Viewport.gate = gate
  BY DEF HInv, IInv, Honest, Sound, Viewport
<1>2. size \in [Terms -> Sizes] /\ gate \subseteq Terms
  BY <1>1 DEF ViewportType
<1>3. \A t \in Terms : Running(t) => size[t] \in Nat
  BY <1>1, <1>2 DEF Sized, Sizes
<1>4. \A t \in gate : Viewport.watch # NoWatch /\ Viewport.watch.term = t
  BY <1>1 DEF Sound, Holds
<1>5. \A t \in gate : Created(t)
  BY <1>1, <1>4 DEF Sound
<1> QED
  BY <1>1, <1>2, <1>3, <1>4, <1>5 DEF LedgerOK, Sound

\* Whatever leaves the sessions and the desktop's wishes alone hands viewports over.
LEMMA HandOverStep ==
  ASSUME LedgerOK, LedgerOK', UNCHANGED <<session, desk>>
  PROVE  Ownership!Next
<1>1. PICK held \in SUBSET Terms : \A t \in Terms : t \in held <=> t \in gate' /\ Running(t)
  <2> WITNESS {t \in Terms : t \in gate' /\ Running(t)} \in SUBSET Terms
  <2> QED
    OBVIOUS
<1> QED  BY <1>1 DEF Ownership!Next, Ownership!HandOver, Ownership!Alive, LedgerOK, Running

LEMMA StartStep ==
  ASSUME IInv, LedgerOK, NEW t \in Terms, CreateTerminal(t)
  PROVE  Ownership!Next
<1>3. t \notin gate /\ SpawnSize \in Nat  BY SizeAssumption DEF LedgerOK, Created, CreateTerminal, Create
<1>4. /\ Running(t)' /\ ~Running(t) /\ desk'[t] = SpawnSize /\ size'[t] = SpawnSize
      /\ \A x \in Terms : x # t =>
            (Running(x)' <=> Running(x)) /\ desk'[x] = desk[x] /\ size'[x] = size[x]
  BY DEF Running, IInv, DesktopOK, Sound, ViewportType, Viewport, CreateTerminal, Create
<1>5. Ownership!Start(t)  BY <1>3, <1>4 DEF Ownership!Start, Ownership!Alive, CreateTerminal, Create
<1> QED
  BY <1>5 DEF Ownership!Next

LEMMA EndStep ==
  ASSUME IInv, NEW t \in Terms, ExitTerminal(t)
  PROVE  Ownership!Next
<1> QED  BY DEF Ownership!Next, Ownership!End, Ownership!Alive, ExitTerminal, PtyExit, Running, IInv, DesktopOK

LEMMA FitStep ==
  ASSUME IInv, NEW t \in Terms, NEW cols \in DesktopSizes, DesktopFit(t, cols)
  PROVE  Ownership!Next
<1>1. desk \in [Terms -> Sizes] /\ size \in [Terms -> Sizes] /\ cols \in Nat
  BY SizeAssumption DEF IInv, DesktopOK, Sound, ViewportType, Viewport
<1>3. /\ \A x \in Terms : Running(x)' <=> Running(x)
      /\ desk'[t] = cols /\ \A x \in Terms : x # t => desk'[x] = desk[x]
      /\ size'[t] = (IF t \in gate THEN size[t] ELSE cols)
      /\ \A x \in Terms : x # t => size'[x] = size[x]  BY <1>1 DEF Running, DesktopFit, Resize
<1>4. Ownership!Fit(t)  BY <1>1, <1>3 DEF Ownership!Fit, Ownership!Alive, DesktopFit, Resize
<1> QED
  BY <1>4 DEF Ownership!Next

LEMMA StepMaps ==
  ASSUME HInv, HInv', [Next]_vars
  PROVE  [Ownership!Next]_Ownership!vars
<1>0. IInv /\ LedgerOK /\ LedgerOK'
  <2>1. HInv' => LedgerOK'
    BY RunningSizes, PTL
  <2> QED
    BY <2>1, RunningSizes DEF HInv
<1>1. CASE UNCHANGED <<session, desk>>
  BY <1>0, <1>1, HandOverStep
<1>2. ASSUME NEW t \in Terms, TerminalStep(t)
      PROVE  Ownership!Next
  <2>1. CASE CreateTerminal(t)
    BY <1>0, <2>1, StartStep
  <2>2. CASE ExitTerminal(t)
    BY <1>0, <2>2, EndStep
  <2>3. CASE \E cols \in DesktopSizes : DesktopFit(t, cols)
    BY <1>0, <2>3, FitStep
  <2>4. CASE ~(CreateTerminal(t) \/ ExitTerminal(t) \/ \E cols \in DesktopSizes : DesktopFit(t, cols))
    BY <1>0, <1>2, <2>4, HandOverStep DEF TerminalStep, DrainedBound, DrainedRebound, DrainedOrphan, Admit,
       Rebind, RendererLearns, Keystroke, PaneBlur, terminalVars
  <2> QED
    BY <2>1, <2>2, <2>3, <2>4
<1>3. ASSUME NEW a \in Agents, AgentStep(a)
      PROVE  UNCHANGED <<session, desk>>
  BY <1>3 DEF AgentStep, Republish, Remove, RebindIntent, ReleaseIntent, Subscribe, Unsubscribe,
       SetWatchViewport, terminalVars
<1>4. HostStep => UNCHANGED <<session, desk>>
  BY DEF HostStep, SocketOpens, SocketCloses, Detach, Attach, AppBlur, DebounceFires,
       GraceFires, terminalVars
<1>5. UNCHANGED vars => UNCHANGED <<session, desk>>
  BY DEF vars, terminalVars
<1> QED
  BY <1>1, <1>2, <1>3, <1>4, <1>5 DEF Next

-----------------------------------------------------------------------------
(* The theorems.                                                           *)

(* Every variable keeps its type, and the terminal service keeps a desired
   geometry for exactly the terminals that run: onExit deletes what create
   and resize record.                                                      *)
THEOREM TypeCorrect == Spec => []TypeOK
<1>1. IInv => TypeOK
  BY DEF IInv, DesktopOK, CatalogTypeOK, Sound, ViewportType, Viewport, TypeOK,
         TerminalTypeOK, RegistryTypeOK, Running
<1> QED
  BY <1>1, InductiveInvariant, PTL

(* Desktop auto-fit is suspended for a running terminal exactly while the
   phone owns it through the watch in flight: setPhoneOwned and
   restoreDesktopGeometry stay paired in every method of the registry.     *)
THEOREM GateCorrect == Spec => []GateFollowsWatch
<1>1. IInv => GateFollowsWatch
  BY DEF IInv, Sound, Holds, Viewport, GateFollowsWatch, PhoneOwns
<1> QED
  BY <1>1, InductiveInvariant, PTL

(* A running terminal that the phone does not own has the size its desktop
   pane wants now.                                                         *)
THEOREM DesktopSizeCorrect == Spec => []DesktopSizeRestored
<1>1. IInv => DesktopSizeRestored
  BY DEF IInv, Sound, Viewport, DesktopSizeRestored
<1> QED
  BY <1>1, InductiveInvariant, PTL

(* The watch in flight is honest, whatever keystrokes, blurs, restarts, exits
   and re-pairings come between: the size the registry believes applied is
   the real one, the watch is that of a live catalog entry and of the
   terminal it is bound to, and every pane was told the truth although
   emitWatchOwned deduplicates its events.                                 *)
THEOREM ViewportCorrect == Spec => []ViewportIsHonest
<1>1. HInv => ViewportIsHonest
  <2> SUFFICES ASSUME HInv PROVE ViewportIsHonest
    OBVIOUS
  <2>3. PaneShowsOwner  BY DEF HInv, Honest, ToldOf, PaneShowsOwner, PhoneOwns, Viewport
  <2> QED
    BY <2>3 DEF ViewportIsHonest, HInv, Honest, Real, Clamped, AppliedIsReal, Viewport, Follows,
       WatchFollowsEntry
<1> QED
  BY <1>1, HonestInvariant, PTL

(* Subscriptions, watches, timers and catalog entries implement the promise of
   ViewportOwnership: a phone holds at most one viewport, every other running
   PTY has the size its desktop pane wants, and only the desktop changes what
   it wants.  Creating, ending and fitting a terminal are the abstract Start,
   End and Fit; every other step is a HandOver.                            *)
THEOREM OwnershipCorrect == Spec => ImplementsOwnership
<1>1. Init => Ownership!Init
  BY DEF Init, TerminalInit, Running, Ownership!Init
<1>2. HInv /\ HInv' /\ [Next]_vars => [Ownership!Next]_Ownership!vars
  BY StepMaps
<1>3. Ownership!Init /\ [][Ownership!Next]_Ownership!vars => ImplementsOwnership
  BY DEF ImplementsOwnership, Ownership!Spec
<1> QED
  BY <1>1, <1>2, <1>3, HonestInvariant, PTL DEF Spec

-----------------------------------------------------------------------------
(* The phone's rows (PtyRows).  A write is a composition of the emulator's *)
(* controls, a tick and a page are operators from a mirror, and each has a *)
(* lemma about every mirror that is in order (Settled).  RowsInv says of   *)
(* the phone that its copy, from `since' on, is as the last tick saw it or *)
(* is pending after its cursor (CopyOf), and of the host that a phone that *)
(* lacks something is due a hint (Covered).                                *)

LineMaps(S) == UNION {[D -> S] : D \in SUBSET Nat}

Mirrors ==
    [buf : Seq(Row), normal : Seq(Row), height : Heights, alt : BOOLEAN,
     epoch : Nat \ {0}, watermark : Nat, scrolled : Nat, trimmed : Nat, top : Nat,
     stamps : LineMaps(Nat), prints : LineMaps(Row), wrote : BOOLEAN, resetting : BOOLEAN]

Capacity(m) == (IF m.alt THEN 0 ELSE Scrollback) + m.height

\* The buffer has the rows of a terminal of its height.
Fits(m) ==
    /\ m \in Mirrors
    /\ Len(m.buf) >= m.height
    /\ Len(m.buf) <= Capacity(m)
    /\ m.alt => Len(m.normal) >= m.height /\ Len(m.normal) <= Scrollback + m.height

\* The counters follow the buffer, and nothing is noted of a row that is not there.
Counts(m) ==
    /\ m.top <= ViewTop(m)
    /\ ~m.alt => m.scrolled = m.trimmed + Retained(m)
    /\ ~m.alt /\ Retained(m) < Scrollback => m.trimmed = 0
    /\ \A line \in DOMAIN m.stamps :
          m.stamps[line] >= 1 /\ m.stamps[line] <= m.watermark /\ line <= Last(m)
    /\ \A line \in DOMAIN m.prints : line <= Last(m)

\* A mirror in the middle of a write; the barrier of a reset is up or it is in order.
Parsing(m) == Fits(m) /\ (m.resetting = FALSE => Counts(m))

\* The lines the last tick looked at, and what it saw there.
Ticked(m) == {line \in First(m)..Last(m) : line < m.top \/ line \in DOMAIN m.prints}
Noted(m, line) == IF line < m.top THEN RowAt(m, line) ELSE m.prints[line]

Settled(m) ==
    /\ Parsing(m)
    /\ m.resetting = FALSE
    /\ m.wrote = FALSE => \A line \in Ticked(m) : Noted(m, line) = RowAt(m, line)

\* What a write that starts no epoch keeps of a mirror.
Extends(m, n) ==
    /\ n.epoch = m.epoch /\ n.watermark = m.watermark /\ n.top = m.top /\ n.alt = m.alt
    /\ First(n) >= First(m) /\ Last(n) >= Last(m)
    /\ Last(n) = Last(m) => First(n) = First(m)
    /\ \A line \in First(m)..(ViewTop(m) - 1) : line >= First(n) => RowAt(n, line) = RowAt(m, line)
    /\ ViewTop(n) >= ViewTop(m)
    /\ \A line \in Nat : line >= First(n) =>
          /\ Stamp(n, line) = Stamp(m, line)
          /\ line \in DOMAIN n.prints <=> line \in DOMAIN m.prints
          /\ line \in DOMAIN n.prints => n.prints[line] = m.prints[line]

-----------------------------------------------------------------------------
Same == cursor # NoCursor /\ cursor.epoch = mirror.epoch

Pending(m, c, line) ==
    \/ Stamp(m, line) > c.watermark
    \/ Stamp(m, line) = c.watermark /\ line > c.line

\* A copy has the rows up to a cursor: those of the last tick, and all of them
\* once the mirror is quiet.
CopyOf(m, c, held, from) ==
    /\ c.watermark <= m.watermark
    /\ \A line \in Ticked(m) : line >= from =>
          Pending(m, c, line) \/ (line \in DOMAIN held /\ held[line] = Noted(m, line))
    /\ m.wrote = FALSE =>
          \A line \in First(m)..Last(m) : line >= from =>
             Pending(m, c, line) \/ (line \in DOMAIN held /\ held[line] = RowAt(m, line))

Complete(m, c) == Fresh(m, c) = FALSE /\ Candidates(m, c) = {}

\* The phone has everything, or it was hinted, or the next tick has something to
\* tell it: a row that no tick has looked at yet.
Covered(m, c, due) ==
    \/ due = TRUE
    \/ m.wrote = TRUE /\ Last(m) \notin DOMAIN m.prints
    \/ Complete(m, c)

CopyFollows == Same => seen = run /\ CopyOf(mirror, cursor, copy, since)

\* The token goes on where the copy begins.
TokenFollows ==
    /\ before # NoCursor => cursor # NoCursor /\ before.epoch = cursor.epoch
    /\ Same /\ before # NoCursor => before.line = since /\ since <= Last(mirror)
    /\ Same /\ before = NoCursor /\ mirror.alt = FALSE => since <= First(mirror)

HintFollows == subscribed = TRUE => Covered(mirror, cursor, owed \/ hint)

RestOfTypeOK ==
    /\ run \in Nat
    /\ subscribed \in BOOLEAN /\ hint \in BOOLEAN /\ owed \in BOOLEAN
    /\ cursor \in Cursors \cup {NoCursor}
    /\ before \in Cursors \cup {NoCursor}
    /\ DOMAIN copy \subseteq Nat
    /\ \A line \in DOMAIN copy : copy[line] \in Row
    /\ since \in Nat
    /\ seen \in 0..run
    /\ outputs \in 0..MaxOutput
    /\ hint => subscribed

RowsTypeInv == RestOfTypeOK /\ Settled(mirror)

EpochFollows == cursor # NoCursor => cursor.epoch <= mirror.epoch

CopyInv ==
    /\ RowsTypeInv
    /\ EpochFollows
    /\ CopyFollows
    /\ TokenFollows

RowsInv == CopyInv /\ HintFollows

-----------------------------------------------------------------------------
(* Lines.                                                                  *)

LEMMA LineMapOf ==
  ASSUME NEW S, NEW f \in LineMaps(S)
  PROVE  DOMAIN f \subseteq Nat /\ f \in [DOMAIN f -> S]
  BY DEF LineMaps

LEMMA LineMapIs ==
  ASSUME NEW S, NEW D \in SUBSET Nat, NEW f \in [D -> S]
  PROVE  f \in LineMaps(S)
  BY DEF LineMaps

LEMMA NoLinesIs ==
  ASSUME NEW S
  PROVE  NoLines \in LineMaps(S) /\ DOMAIN NoLines = {}
<1>1. NoLines \in [{} -> S] /\ DOMAIN NoLines = {}
  BY DEF NoLines
<1> QED
  BY <1>1, LineMapIs

LEMMA WithoutIs ==
  ASSUME NEW S, NEW f \in LineMaps(S), NEW l
  PROVE  /\ Without(f, l) \in LineMaps(S)
         /\ DOMAIN Without(f, l) = DOMAIN f \ {l}
         /\ \A x \in DOMAIN f \ {l} : Without(f, l)[x] = f[x]
<1>3. Without(f, l) \in LineMaps(S)  BY LineMapOf, LineMapIs DEF Without
<1> QED  BY LineMapOf, <1>3 DEF Without

LEMMA BlankRowsAre ==
  ASSUME NEW n \in Nat
  PROVE  BlankRows(n) \in Seq(Row) /\ Len(BlankRows(n)) = n
  BY DEF BlankRows, Row

\* What the lengths and the counters of a mirror are.
LEMMA FitsNumbers ==
  ASSUME NEW m, Fits(m)
  PROVE  /\ Len(m.buf) \in Nat /\ m.height \in Nat /\ m.height >= 1 /\ m.height \in Heights
         /\ m.trimmed \in Nat /\ m.scrolled \in Nat /\ m.top \in Nat /\ m.watermark \in Nat
         /\ m.epoch \in Nat /\ m.epoch >= 1
         /\ Retained(m) \in Nat /\ Retained(m) = Len(m.buf) - m.height
         /\ ViewTop(m) \in Nat /\ ViewTop(m) = m.trimmed + Len(m.buf) - m.height
         /\ Last(m) \in Nat /\ Last(m) = m.trimmed + Len(m.buf) - 1
         /\ First(m) \in Nat /\ First(m) = m.trimmed
         /\ First(m) <= ViewTop(m) /\ ViewTop(m) <= Last(m)
         /\ \A line \in First(m)..Last(m) : RowAt(m, line) \in Row
<1>1. m.buf \in Seq(Row) /\ m.height \in Heights /\ {m.trimmed, m.scrolled, m.top, m.watermark} \subseteq Nat
      /\ m.epoch \in Nat \ {0} /\ Len(m.buf) >= m.height
  BY DEF Fits, Mirrors
<1>2. Len(m.buf) \in Nat /\ m.buf \in [1..Len(m.buf) -> Row]
  BY <1>1, LenProperties
<1>h. \A n \in Nat \ {0} : n \in Nat /\ n >= 1
  OBVIOUS
<1>3. m.height \in Nat /\ m.height >= 1
  <2>1. m.height \in Nat \ {0}
    BY <1>1, HeightAssumption, Zenon
  <2> QED
    BY <2>1, <1>h, Zenon
<1>4. \A line \in First(m)..Last(m) : RowAt(m, line) \in Row
  <2> TAKE line \in First(m)..Last(m)
  <2> QED  BY <1>1, <1>2 DEF RowAt, First, Last
<1>5. m.epoch \in Nat /\ m.epoch >= 1
  BY <1>1, <1>h, Zenon
<1>6. m.trimmed \in Nat /\ m.scrolled \in Nat /\ m.top \in Nat /\ m.watermark \in Nat /\ m.height \in Heights
  BY <1>1, Zenon
<1>7. Retained(m) \in Nat /\ Retained(m) = Len(m.buf) - m.height
  BY <1>1, <1>2, <1>3 DEF Retained
<1> QED
  BY SMTT(30), <1>1, <1>2, <1>3, <1>4, <1>5, <1>6, <1>7 DEF First, Last, ViewTop

-----------------------------------------------------------------------------
(* The mirror.                                                             *)

LEMMA BumpIs ==
  ASSUME NEW m, Fits(m)
  PROVE  /\ Fits(BumpEpoch(m)) /\ Counts(BumpEpoch(m))
         /\ BumpEpoch(m).epoch = m.epoch + 1
         /\ BumpEpoch(m).resetting = m.resetting
         /\ BumpEpoch(m).wrote = m.wrote
         /\ \A line \in Ticked(BumpEpoch(m)) : Noted(BumpEpoch(m), line) = RowAt(BumpEpoch(m), line)
<1> DEFINE n == BumpEpoch(m)
<1>1. m \in Mirrors /\ Retained(m) \in Nat /\ m.epoch + 1 \in Nat \ {0}
  BY FitsNumbers DEF Fits
<1>3. /\ n \in Mirrors
      /\ n.buf = m.buf /\ n.normal = m.normal /\ n.height = m.height /\ n.alt = m.alt
      /\ n.epoch = m.epoch + 1 /\ n.watermark = 0 /\ n.scrolled = Retained(m) /\ n.trimmed = 0
      /\ n.top = Retained(m) /\ n.stamps = NoLines /\ n.prints = NoLines
      /\ n.wrote = m.wrote /\ n.resetting = m.resetting  BY <1>1, NoLinesIs DEF BumpEpoch, Mirrors
<1> HIDE DEF n
<1>5. Retained(n) = Retained(m) /\ ViewTop(n) = Retained(m)
  BY <1>1, <1>3 DEF Retained, ViewTop
<1>6. Counts(n)  BY <1>1, NoLinesIs, <1>3, <1>5 DEF Counts
<1> QED  BY <1>3, <1>6, NoLinesIs DEF n, Fits, Capacity, Ticked, Noted

LEMMA ScrollFields ==
  ASSUME NEW m, Fits(m), NEW text \in Texts
  PROVE  LET n == Scroll(m, text)
             full == Len(m.buf) = Capacity(m)
             trims == m.scrolled + 1 > Scrollback
         IN  /\ n \in Mirrors
             /\ n.normal = m.normal /\ n.height = m.height /\ n.alt = m.alt /\ n.epoch = m.epoch
             /\ n.watermark = m.watermark /\ n.top = m.top
             /\ n.wrote = m.wrote /\ n.resetting = m.resetting
             /\ n.scrolled = m.scrolled + 1
             /\ n.trimmed = IF trims THEN m.trimmed + 1 ELSE m.trimmed
             /\ n.stamps = IF trims THEN Without(m.stamps, m.trimmed) ELSE m.stamps
             /\ n.prints = IF trims THEN Without(m.prints, m.trimmed) ELSE m.prints
             /\ Len(n.buf) = IF full THEN Len(m.buf) ELSE Len(m.buf) + 1
             /\ \A i \in 1..(Len(n.buf) - 1) : n.buf[i] = IF full THEN m.buf[i + 1] ELSE m.buf[i]
<1> DEFINE full == Len(m.buf) = Capacity(m)
           trims == m.scrolled + 1 > Scrollback
           kept == IF full THEN Tail(m.buf) ELSE m.buf
           moved == [m EXCEPT !.buf = Append(kept, text), !.scrolled = m.scrolled + 1]
           n == Scroll(m, text)
<1>0. n = IF moved.scrolled > Scrollback
          THEN [moved EXCEPT !.trimmed = @ + 1, !.stamps = Without(@, m.trimmed),
                             !.prints = Without(@, m.trimmed)]
          ELSE moved
  BY Zenon DEF Scroll, Capacity
<1>1. m \in Mirrors /\ m.buf \in Seq(Row) /\ Len(m.buf) >= 1 /\ Len(m.buf) \in Nat
      /\ m.trimmed \in Nat /\ m.scrolled \in Nat
  BY FitsNumbers DEF Fits, Mirrors
<1>3. /\ kept \in Seq(Row) /\ Len(kept) = (IF full THEN Len(m.buf) - 1 ELSE Len(m.buf))
      /\ \A i \in 1..Len(kept) : kept[i] = IF full THEN m.buf[i + 1] ELSE m.buf[i]
  <2>1. CASE full  BY <1>1, <2>1, HeadTailProperties
  <2>2. CASE ~full
    BY <1>1, <2>2
  <2> QED
    BY <2>1, <2>2
<1> HIDE DEF kept
<1> DEFINE b == Append(kept, text)
<1>6. /\ Len(b) = (IF full THEN Len(m.buf) ELSE Len(m.buf) + 1)
      /\ \A i \in 1..(Len(b) - 1) : b[i] = IF full THEN m.buf[i + 1] ELSE m.buf[i]
  BY <1>1, <1>3, AppendProperties, LenProperties DEF Row
<1> HIDE DEF b, full
<1>7. m.scrolled + 1 \in Nat /\ m.trimmed + 1 \in Nat
  BY <1>1
<1>8. /\ moved \in Mirrors
      /\ moved.buf = b /\ moved.scrolled = m.scrolled + 1
      /\ moved.normal = m.normal /\ moved.height = m.height /\ moved.alt = m.alt
      /\ moved.epoch = m.epoch /\ moved.watermark = m.watermark /\ moved.top = m.top
      /\ moved.wrote = m.wrote /\ moved.resetting = m.resetting
      /\ moved.trimmed = m.trimmed /\ moved.stamps = m.stamps /\ moved.prints = m.prints
  BY <1>1, <1>3, AppendProperties, <1>7 DEF Mirrors, b, Row
<1> HIDE DEF moved
<1>9. Without(m.stamps, m.trimmed) \in LineMaps(Nat) /\ Without(m.prints, m.trimmed) \in LineMaps(Row)
  BY <1>1, WithoutIs DEF Mirrors
<1>10. CASE trims
  <2>1. n = [moved EXCEPT !.trimmed = m.trimmed + 1, !.stamps = Without(m.stamps, m.trimmed),
                          !.prints = Without(m.prints, m.trimmed)]
    BY <1>0, <1>8, <1>10 DEF Mirrors
  <2> HIDE DEF n
  <2> QED
    BY ZenonT(60), <1>6, <1>7, <1>8, <1>9, <1>10, <2>1 DEF Mirrors, n, full
<1>11. CASE ~trims  BY <1>6, <1>8, <1>11, <1>0 DEF full
<1> QED
  BY <1>10, <1>11

\* A line that scrolls in keeps the numbers of the others.
LEMMA ScrollIs ==
  ASSUME NEW m, Parsing(m), NEW text \in Texts
  PROVE  /\ Parsing(Scroll(m, text))
         /\ Scroll(m, text).resetting = m.resetting
         /\ Scroll(m, text).wrote = m.wrote
         /\ Scroll(m, text).epoch = m.epoch
         /\ m.resetting = FALSE => Extends(m, Scroll(m, text))
<1> DEFINE n == Scroll(m, text)
           full == Len(m.buf) = Capacity(m)
           trims == m.scrolled + 1 > Scrollback
<1>0. Fits(m)
  BY DEF Parsing
<1>1. /\ n \in Mirrors
      /\ n.normal = m.normal /\ n.height = m.height /\ n.alt = m.alt /\ n.epoch = m.epoch
      /\ n.watermark = m.watermark /\ n.top = m.top
      /\ n.wrote = m.wrote /\ n.resetting = m.resetting
      /\ n.scrolled = m.scrolled + 1
      /\ n.trimmed = (IF trims THEN m.trimmed + 1 ELSE m.trimmed)
      /\ n.stamps = (IF trims THEN Without(m.stamps, m.trimmed) ELSE m.stamps)
      /\ n.prints = (IF trims THEN Without(m.prints, m.trimmed) ELSE m.prints)
      /\ Len(n.buf) = (IF full THEN Len(m.buf) ELSE Len(m.buf) + 1)
      /\ \A i \in 1..(Len(n.buf) - 1) : n.buf[i] = IF full THEN m.buf[i + 1] ELSE m.buf[i]
  BY <1>0, ScrollFields
<1> HIDE DEF n
<1>2. /\ Len(m.buf) \in Nat /\ m.height \in Nat /\ m.height >= 1
      /\ m.trimmed \in Nat /\ m.scrolled \in Nat /\ m.top \in Nat /\ m.watermark \in Nat
      /\ Len(m.buf) >= m.height /\ Len(m.buf) <= Capacity(m)
      /\ m.alt = FALSE => Capacity(m) = Scrollback + m.height
      /\ m.alt = TRUE => Capacity(m) = m.height
      /\ m.alt = FALSE \/ m.alt = TRUE
  <2>1. m \in Mirrors /\ Len(m.buf) >= m.height /\ Len(m.buf) <= Capacity(m)
    BY <1>0 DEF Fits
  <2>2. m.alt \in BOOLEAN
    BY <2>1 DEF Mirrors
  <2> QED
    BY <1>0, <2>1, <2>2, FitsNumbers, ScrollbackAssumption DEF Capacity
<1>3. Capacity(n) = Capacity(m)
  BY <1>1 DEF Capacity
<1>a. /\ n.height = m.height /\ n.alt = m.alt /\ n.scrolled = m.scrolled + 1
      /\ n.top = m.top /\ n.watermark = m.watermark
      /\ trims => n.trimmed = m.trimmed + 1
      /\ ~trims => n.trimmed = m.trimmed
      /\ full => Len(n.buf) = Len(m.buf)
      /\ ~full => Len(n.buf) = Len(m.buf) + 1
  BY <1>1, Zenon
<1>4. Fits(n)
  <2>2. Len(n.buf) >= n.height /\ Len(n.buf) <= Capacity(n)
    <3>1. CASE full
      BY <1>a, <1>2, <1>3, <3>1
    <3>2. CASE ~full
      BY <1>a, <1>2, <1>3, <3>2, ScrollbackAssumption
    <3> QED
      BY <3>1, <3>2
  <2> QED  BY <1>1, <1>0, <2>2 DEF Fits
<1>5. /\ DOMAIN m.stamps \subseteq Nat /\ DOMAIN m.prints \subseteq Nat
      /\ DOMAIN n.stamps = (IF trims THEN DOMAIN m.stamps \ {m.trimmed} ELSE DOMAIN m.stamps)
      /\ DOMAIN n.prints = (IF trims THEN DOMAIN m.prints \ {m.trimmed} ELSE DOMAIN m.prints)
      /\ \A x \in DOMAIN n.stamps : n.stamps[x] = m.stamps[x] /\ m.stamps[x] \in Nat
      /\ \A x \in DOMAIN n.prints : n.prints[x] = m.prints[x]
  <2>3. CASE trims
    <3>2. /\ DOMAIN n.stamps = DOMAIN m.stamps \ {m.trimmed}
          /\ \A x \in DOMAIN m.stamps \ {m.trimmed} : n.stamps[x] = m.stamps[x]  BY <1>1, <2>3 DEF Without
    <3>3. /\ DOMAIN n.prints = DOMAIN m.prints \ {m.trimmed}
          /\ \A x \in DOMAIN m.prints \ {m.trimmed} : n.prints[x] = m.prints[x]  BY <1>1, <2>3 DEF Without
    <3> QED  BY <1>0, LineMapOf, <2>3, <3>2, <3>3 DEF Fits, Mirrors
  <2>4. CASE ~trims  BY <1>1, <1>0, LineMapOf, <2>4 DEF Fits, Mirrors
  <2> QED
    BY <2>3, <2>4
<1> SUFFICES ASSUME m.resetting = FALSE
             PROVE  Counts(n) /\ Extends(m, n)
  BY <1>1, <1>4 DEF Parsing, n
<1>7. First(n) = n.trimmed /\ First(m) = m.trimmed
  BY <1>0, <1>4, FitsNumbers
<1>l. Last(n) = n.trimmed + Len(n.buf) - 1 /\ Last(m) = m.trimmed + Len(m.buf) - 1
  BY <1>0, <1>4, FitsNumbers
<1>v. ViewTop(n) = n.trimmed + Len(n.buf) - n.height /\ ViewTop(m) = m.trimmed + Len(m.buf) - m.height
  BY <1>0, <1>4, FitsNumbers
<1>r. Retained(n) = Len(n.buf) - n.height /\ Retained(m) = Len(m.buf) - m.height
  BY <1>0, <1>4, FitsNumbers
<1>i. /\ Last(n) \in Nat /\ Last(m) \in Nat /\ ViewTop(n) \in Nat /\ ViewTop(m) \in Nat
      /\ Retained(n) \in Nat /\ Retained(m) \in Nat /\ First(n) \in Nat /\ First(m) \in Nat
  BY <1>0, <1>4, FitsNumbers
<1>8. m.top <= ViewTop(m)
      /\ (m.alt = FALSE => m.scrolled = m.trimmed + Retained(m))
      /\ (m.alt = FALSE /\ Retained(m) < Scrollback => m.trimmed = 0)
      /\ (\A line \in DOMAIN m.stamps :
          m.stamps[line] >= 1 /\ m.stamps[line] <= m.watermark /\ line <= Last(m))
      /\ (\A line \in DOMAIN m.prints : line <= Last(m))  BY DEF Counts, Parsing
\* Off the alternate screen a line is trimmed exactly when the buffer is full.
<1>n. /\ n.height \in Nat /\ n.trimmed \in Nat /\ Len(n.buf) \in Nat /\ n.height = m.height
      /\ m.trimmed \in Nat /\ Len(m.buf) \in Nat /\ m.height \in Nat
      /\ n.scrolled = m.scrolled + 1 /\ m.scrolled \in Nat /\ n.top = m.top /\ m.top \in Nat
  BY <1>a, <1>1, LenProperties, <1>2 DEF Mirrors
<1>9. m.alt = FALSE => (trims <=> full)
  <2> SUFFICES ASSUME m.alt = FALSE
               PROVE  trims <=> full
    OBVIOUS
  <2>1. Capacity(m) = Scrollback + m.height /\ m.scrolled = m.trimmed + Retained(m)
    BY <1>2, <1>8
  <2>2. CASE full
    BY <1>2, <1>r, <2>1, <2>2, ScrollbackAssumption
  <2>3. CASE ~full
    <3>1. Retained(m) < Scrollback
      BY SMTT(30), <1>2, <1>r, <2>1, <2>3, ScrollbackAssumption
    <3>2. m.trimmed = 0
      BY <1>8, <3>1
    <3> QED
      BY <1>i, <2>1, <2>3, <3>1, <3>2, ScrollbackAssumption
  <2> QED
    BY <2>2, <2>3
<1>10. m.alt = TRUE => full /\ ViewTop(m) = First(m)
  BY <1>2, <1>7, <1>v
<1>11. \/ /\ n.trimmed = m.trimmed + 1 /\ Len(n.buf) = Len(m.buf) /\ full
       \/ /\ n.trimmed = m.trimmed /\ Len(n.buf) = Len(m.buf) + 1 /\ ~full
          /\ m.alt = FALSE /\ m.trimmed = 0
       \/ /\ n.trimmed = m.trimmed /\ Len(n.buf) = Len(m.buf) /\ m.alt = TRUE /\ full
  <2>1. CASE m.alt = TRUE
    BY <1>a, <1>10, <2>1
  <2>2. CASE m.alt = FALSE /\ full
    BY <1>a, <1>9, <2>2
  <2>3. CASE m.alt = FALSE /\ ~full
    <3>3. Retained(m) < Scrollback  BY <1>n, <1>r, <1>2, <2>3, ScrollbackAssumption
    <3> QED
      BY <1>a, <1>8, <1>9, <2>3, <3>3
  <2> QED
    BY <1>2, <2>1, <2>2, <2>3
<1> HIDE DEF full, trims
<1>15. /\ m.alt = FALSE => n.scrolled = n.trimmed + Retained(n)
       /\ m.alt = FALSE /\ Retained(n) < Scrollback => n.trimmed = 0
       /\ n.top <= ViewTop(n)
       /\ ViewTop(n) >= ViewTop(m) /\ Last(n) >= Last(m) /\ First(n) >= First(m)
       /\ Last(n) = Last(m) => First(n) = First(m)
       /\ \A line \in First(m)..(ViewTop(m) - 1) : line >= First(n) => RowAt(n, line) = RowAt(m, line)
  <2>t. n.top <= ViewTop(m)
    BY <1>n, <1>8
  <2>1. CASE n.trimmed = m.trimmed + 1 /\ Len(n.buf) = Len(m.buf) /\ full
    <3>v. ViewTop(n) = ViewTop(m) + 1
      BY <1>n, <1>v, <2>1
    <3>l. Last(n) = Last(m) + 1
      BY <1>n, <1>l, <2>1
    <3>f. First(n) = First(m) + 1
      BY <1>n, <1>7, <2>1
    <3>1. m.alt = FALSE => n.scrolled = n.trimmed + Retained(n)  BY <1>n, <1>i, <1>8, <2>1, <1>r
    <3>2. m.alt = FALSE => Retained(n) >= Scrollback
      <4>1. Len(m.buf) = Capacity(m)
        BY <2>1 DEF full
      <4> QED
        BY <1>n, <1>2, <1>r, <2>1, <4>1, ScrollbackAssumption
    <3>3. \A line \in First(m)..(ViewTop(m) - 1) : line >= First(n) => RowAt(n, line) = RowAt(m, line)
      <4> SUFFICES ASSUME NEW line \in First(m)..(ViewTop(m) - 1), line >= First(n)
                   PROVE  RowAt(n, line) = RowAt(m, line)
        OBVIOUS
      <4>0. line \in Int /\ line < ViewTop(m) /\ line >= n.trimmed
        BY <1>i, <1>7
      <4>1. line < m.trimmed + Len(m.buf) - m.height
        BY <4>0, <1>v
      <4>2. line - n.trimmed + 1 \in 1..(Len(n.buf) - 1)
        BY SMTT(30), <1>n, <2>1, <4>0, <4>1
      <4>4. n.buf[line - n.trimmed + 1] = m.buf[line - n.trimmed + 1 + 1]
        BY <1>1, <2>1, <4>2
      <4> QED  BY <1>n, <2>1, <4>0, <4>4 DEF RowAt
    <3>4. /\ n.top <= ViewTop(n)
          /\ ViewTop(n) >= ViewTop(m) /\ Last(n) >= Last(m) /\ First(n) >= First(m)
          /\ Last(n) = Last(m) => First(n) = First(m)
      BY SMTT(30), <1>n, <1>i, <2>t, <3>v, <3>l, <3>f
    <3> QED  BY <3>1, <3>3, <3>4, <1>i, <3>2, ScrollbackAssumption
  <2>2. CASE n.trimmed = m.trimmed /\ Len(n.buf) = Len(m.buf) + 1 /\ ~full
             /\ m.alt = FALSE /\ m.trimmed = 0
    <3>v. ViewTop(n) = ViewTop(m) + 1
      BY <1>n, <1>v, <2>2
    <3>f. First(n) = First(m)
      BY <1>n, <1>7, <2>2
    <3>r. Retained(n) = Retained(m) + 1
      BY <1>n, <1>r, <2>2
    <3>3. \A line \in First(m)..(ViewTop(m) - 1) : line >= First(n) => RowAt(n, line) = RowAt(m, line)
      <4> SUFFICES ASSUME NEW line \in First(m)..(ViewTop(m) - 1), line >= First(n)
                   PROVE  RowAt(n, line) = RowAt(m, line)
        OBVIOUS
      <4>1. line < m.trimmed + Len(m.buf) - m.height  BY <1>i, <1>7, <1>v
      <4> QED  BY <2>2, <1>1, <1>n, <1>2, <1>i, <1>7, <4>1 DEF RowAt
    <3>4. /\ n.top <= ViewTop(n)
          /\ ViewTop(n) >= ViewTop(m) /\ Last(n) >= Last(m) /\ First(n) >= First(m)
          /\ Last(n) = Last(m) => First(n) = First(m)  BY SMTT(30), <1>n, <1>i, <2>t, <3>v, <1>l, <2>2, <3>f
    <3> QED  BY <1>n, <1>i, <1>8, <2>2, <3>r, <3>3, <3>4
  <2>3. CASE n.trimmed = m.trimmed /\ Len(n.buf) = Len(m.buf) /\ m.alt = TRUE /\ full
    <3>v. ViewTop(n) = ViewTop(m)
      BY <1>n, <1>v, <2>3
    <3>l. Last(n) = Last(m)
      BY <1>n, <1>l, <2>3
    <3>f. First(n) = First(m)
      BY <1>n, <1>7, <2>3
    <3>2. First(m)..(ViewTop(m) - 1) = {}
      BY <1>i, <1>10, <2>3
    <3> QED
      BY <1>i, <2>t, <2>3, <3>v, <3>l, <3>f, <3>2
  <2> QED
    BY <1>11, <2>1, <2>2, <2>3
<1>16. Counts(n)
  <2>1. Last(n) \in Nat /\ Last(m) \in Nat
    BY <1>0, <1>4, FitsNumbers
  <2>2. \A line \in DOMAIN n.stamps :
          n.stamps[line] >= 1 /\ n.stamps[line] <= n.watermark /\ line <= Last(n)
    <3> SUFFICES ASSUME NEW line \in DOMAIN n.stamps
                 PROVE  n.stamps[line] >= 1 /\ n.stamps[line] <= n.watermark /\ line <= Last(n)
      OBVIOUS
    <3>1. line \in DOMAIN m.stamps /\ n.stamps[line] = m.stamps[line] /\ line \in Nat
      BY <1>5
    <3> QED
      BY <1>a, <1>8, <1>15, <2>1, <3>1
  <2> QED  BY <1>a, <1>15, <2>2, <1>5, <1>8, <2>1 DEF Counts
<1>17. \A line \in Nat : line >= First(n) =>
          /\ Stamp(n, line) = Stamp(m, line)
          /\ line \in DOMAIN n.prints <=> line \in DOMAIN m.prints
          /\ line \in DOMAIN n.prints => n.prints[line] = m.prints[line]
  <2> SUFFICES ASSUME NEW line \in Nat, line >= First(n)
               PROVE  /\ Stamp(n, line) = Stamp(m, line)
                      /\ line \in DOMAIN n.prints <=> line \in DOMAIN m.prints
                      /\ line \in DOMAIN n.prints => n.prints[line] = m.prints[line]
    OBVIOUS
  <2>2. line \in DOMAIN n.stamps <=> line \in DOMAIN m.stamps  BY <1>5, <1>a, <1>n, <1>7
  <2> QED  BY <1>5, <1>a, <1>n, <1>7, <2>2 DEF Stamp
<1> QED  BY <1>16, <1>1, <1>15, <1>17 DEF Extends

LEMMA RewriteIs ==
  ASSUME NEW m, Parsing(m), NEW row \in 1..m.height, NEW text \in Texts
  PROVE  /\ Parsing(Rewrite(m, row, text))
         /\ Rewrite(m, row, text).resetting = m.resetting
         /\ Rewrite(m, row, text).wrote = m.wrote
         /\ Rewrite(m, row, text).epoch = m.epoch
         /\ m.resetting = FALSE => Extends(m, Rewrite(m, row, text))
<1> DEFINE n == Rewrite(m, row, text)
           at == Retained(m) + row
           b == [m.buf EXCEPT ![at] = text]
<1>0. Fits(m) /\ m \in Mirrors /\ m.buf \in Seq(Row)
  BY DEF Parsing, Fits, Mirrors
<1>1. /\ Len(m.buf) \in Nat /\ m.height \in Nat /\ m.height >= 1 /\ m.trimmed \in Nat
      /\ Retained(m) = Len(m.buf) - m.height /\ Retained(m) \in Nat
      /\ First(m) = m.trimmed /\ ViewTop(m) = m.trimmed + Len(m.buf) - m.height
  BY <1>0, FitsNumbers
<1>3. b \in Seq(Row) /\ Len(b) = Len(m.buf) /\ \A j \in 1..Len(m.buf) : j # at => b[j] = m.buf[j]
  BY <1>0, <1>1, ExceptSeq DEF Row
<1>4. n = [m EXCEPT !.buf = b]
  BY <1>0 DEF Rewrite, Mirrors
<1> HIDE DEF b
<1>5. /\ n \in Mirrors /\ n.buf = b
      /\ n.normal = m.normal /\ n.height = m.height /\ n.alt = m.alt /\ n.epoch = m.epoch
      /\ n.watermark = m.watermark /\ n.scrolled = m.scrolled /\ n.trimmed = m.trimmed /\ n.top = m.top
      /\ n.stamps = m.stamps /\ n.prints = m.prints
      /\ n.wrote = m.wrote /\ n.resetting = m.resetting
  BY <1>0, <1>3, <1>4 DEF Mirrors
<1> HIDE DEF n
<1>7. First(n) = First(m) /\ Last(n) = Last(m) /\ ViewTop(n) = ViewTop(m) /\ Retained(n) = Retained(m)
  BY <1>3, <1>5 DEF First, Last, ViewTop, Retained
<1>8. Counts(m) => Counts(n)
  <2>1. SUFFICES ASSUME Counts(m) PROVE Counts(n)
    OBVIOUS
  <2>3. /\ ~n.alt => n.scrolled = n.trimmed + Retained(n)
        /\ ~n.alt /\ Retained(n) < Scrollback => n.trimmed = 0
    BY <1>5, <1>7, <2>1 DEF Counts
  <2>4. \A line \in DOMAIN n.stamps :
           n.stamps[line] >= 1 /\ n.stamps[line] <= n.watermark /\ line <= Last(n)
    BY <1>5, <1>7, <2>1 DEF Counts
  <2>5. \A line \in DOMAIN n.prints : line <= Last(n)
    BY <1>5, <1>7, <2>1 DEF Counts
  <2> QED  BY <1>5, <1>7, <2>1, <2>3, <2>4, <2>5 DEF Counts
<1>9. \A line \in First(m)..(ViewTop(m) - 1) : RowAt(n, line) = RowAt(m, line)
  <2> SUFFICES ASSUME NEW line \in First(m)..(ViewTop(m) - 1)
               PROVE  RowAt(n, line) = RowAt(m, line)
    OBVIOUS
  <2>1. line - m.trimmed + 1 \in 1..Len(m.buf) /\ line - m.trimmed + 1 # at
    BY SMTT(30), <1>1
  <2> QED
    BY <1>3, <1>5, <2>1 DEF RowAt
<1>11. Extends(m, n)  BY <1>5, <1>7, <1>9, <1>0, FitsNumbers DEF Extends, Stamp
<1> QED  BY <1>5, <1>0, <1>3, <1>8, <1>11 DEF Parsing, n, Fits, Capacity

LEMMA SwitchIs ==
  ASSUME NEW m, Fits(m)
  PROVE  /\ Parsing(SwitchScreen(m))
         /\ SwitchScreen(m).resetting = m.resetting
         /\ SwitchScreen(m).wrote = m.wrote
         /\ SwitchScreen(m).epoch = m.epoch + 1
<1>3. <<>> \in Seq(Row) /\ BlankRows(m.height) \in Seq(Row) /\ Len(BlankRows(m.height)) = m.height
  BY FitsNumbers, BlankRowsAre DEF Fits
<1>4. CASE m.alt = TRUE
  <2> DEFINE n == [m EXCEPT !.alt = FALSE, !.buf = m.normal, !.normal = <<>>]
  <2>1. /\ n \in Mirrors /\ n.buf = m.normal /\ n.alt = FALSE /\ n.height = m.height
        /\ n.resetting = m.resetting /\ n.wrote = m.wrote /\ n.epoch = m.epoch  BY <1>3 DEF Mirrors, Fits
  <2>2. SwitchScreen(m) = BumpEpoch(n)
    BY <1>4 DEF SwitchScreen
  <2> HIDE DEF n
  <2> QED  BY <2>1, <2>2, FitsNumbers, <1>4, BumpIs DEF Parsing, Fits, Capacity
<1>5. CASE m.alt = FALSE
  <2> DEFINE n == [m EXCEPT !.alt = TRUE, !.buf = BlankRows(m.height), !.normal = m.buf]
  <2>1. /\ n \in Mirrors /\ n.buf = BlankRows(m.height) /\ n.alt = TRUE /\ n.height = m.height
        /\ n.normal = m.buf
        /\ n.resetting = m.resetting /\ n.wrote = m.wrote /\ n.epoch = m.epoch  BY <1>3 DEF Mirrors, Fits
  <2>2. SwitchScreen(m) = BumpEpoch(n)
    BY <1>5 DEF SwitchScreen
  <2> HIDE DEF n
  <2>4. Fits(n)  BY FitsNumbers, <1>3, <2>1, <1>5 DEF Fits, Capacity
  <2> QED
    BY <2>1, <2>2, <2>4, BumpIs DEF Parsing
<1> QED  BY <1>4, <1>5 DEF Fits, Mirrors

LEMMA HardResetIs ==
  ASSUME NEW m, Fits(m), m.alt = FALSE
  PROVE  /\ Parsing(HardReset(m))
         /\ HardReset(m).resetting = TRUE
         /\ HardReset(m).wrote = m.wrote
         /\ HardReset(m).epoch = m.epoch
<1>2. BlankRows(m.height) \in Seq(Row) /\ Len(BlankRows(m.height)) = m.height
  BY FitsNumbers, BlankRowsAre DEF Fits
<1> DEFINE n == HardReset(m)
<1>3. /\ n \in Mirrors /\ n.buf = BlankRows(m.height) /\ n.alt = FALSE /\ n.height = m.height
      /\ n.resetting = TRUE /\ n.wrote = m.wrote /\ n.epoch = m.epoch
  BY FitsNumbers, <1>2 DEF HardReset, Mirrors, Fits
<1> HIDE DEF n
<1>4. Capacity(n) = Scrollback + m.height
  BY <1>3 DEF Capacity
<1>5. Fits(n)  BY FitsNumbers, <1>2, <1>3, <1>4, ScrollbackAssumption DEF Fits
<1> QED
  BY <1>3, <1>5 DEF Parsing, n

LEMMA ClearScrollbackIs ==
  ASSUME NEW m, Fits(m), m.alt = FALSE
  PROVE  /\ Parsing(ClearScrollback(m))
         /\ ClearScrollback(m).resetting = TRUE
         /\ ClearScrollback(m).wrote = m.wrote
         /\ ClearScrollback(m).epoch = m.epoch
<1>1. /\ m \in Mirrors /\ m.height \in Nat /\ m.buf \in Seq(Row) /\ Len(m.buf) \in Nat
      /\ Len(m.buf) >= m.height /\ m.height >= 1
      /\ Retained(m) \in Nat /\ Retained(m) = Len(m.buf) - m.height
  BY FitsNumbers DEF Fits, Mirrors
<1> DEFINE b == SubSeq(m.buf, Retained(m) + 1, Len(m.buf))
           n == ClearScrollback(m)
<1>2. b \in Seq(Row) /\ Len(b) = m.height  BY <1>1, LenProperties, SubSeqProperties
<1>3. n = [m EXCEPT !.resetting = TRUE, !.buf = b]
  BY <1>1 DEF ClearScrollback, Mirrors
<1> HIDE DEF b
<1>4. /\ n \in Mirrors /\ n.buf = b /\ n.alt = FALSE /\ n.height = m.height
      /\ n.resetting = TRUE /\ n.wrote = m.wrote /\ n.epoch = m.epoch
  BY <1>1, <1>2, <1>3 DEF Mirrors
<1> HIDE DEF n
<1>6. Fits(n)  BY <1>1, <1>2, <1>4, ScrollbackAssumption DEF Fits, Capacity
<1> QED
  BY <1>4, <1>6 DEF Parsing, n

-----------------------------------------------------------------------------
(* A write.                                                                *)

\* A mirror on its way from m through the controls of a write.
Leads(m, n) ==
    /\ Parsing(n)
    /\ n.wrote = m.wrote
    /\ n.epoch >= m.epoch
    /\ m.resetting = TRUE => n.resetting = TRUE
    /\ n.resetting = FALSE /\ n.epoch = m.epoch => Extends(m, n)

\* A control that keeps the barrier, or that raises it or starts an epoch.
LEMMA KeepsLeads ==
  ASSUME NEW m, Fits(m), NEW n, Parsing(n), n.wrote = m.wrote, n.epoch = m.epoch,
         n.resetting = m.resetting, m.resetting = FALSE => Extends(m, n)
  PROVE  Leads(m, n)
<1> QED  BY FitsNumbers DEF Leads

LEMMA ArmedLeads ==
  ASSUME NEW m, Fits(m), NEW n, Parsing(n), n.wrote = m.wrote, n.epoch = m.epoch,
         n.resetting = TRUE
  PROVE  Leads(m, n)
<1> QED  BY FitsNumbers DEF Leads

LEMMA ControlLeads ==
  ASSUME NEW m, Parsing(m), NEW n \in AfterControl(m)
  PROVE  Leads(m, n)
<1>0. Fits(m) /\ m.epoch \in Nat /\ m.resetting \in BOOLEAN /\ m.alt \in BOOLEAN
  BY FitsNumbers DEF Parsing, Fits, Mirrors
<1>1. CASE \E text \in Texts : n = Scroll(m, text)
  <2>1. PICK text \in Texts : n = Scroll(m, text)
    BY <1>1
  <2> QED  BY <1>0, <2>1, ScrollIs, KeepsLeads
<1>2. CASE \E row \in 1..m.height, text \in Texts : n = Rewrite(m, row, text)
  <2>1. PICK row \in 1..m.height, text \in Texts : n = Rewrite(m, row, text)
    BY <1>2
  <2> QED  BY <1>0, <2>1, RewriteIs, KeepsLeads
<1>3. CASE n = SwitchScreen(m)
  BY <1>0, <1>3, SwitchIs DEF Leads
<1>4. CASE m.alt = FALSE /\ n = HardReset(m)  BY <1>0, <1>4, HardResetIs, ArmedLeads
<1>5. CASE m.alt = FALSE /\ n = ClearScrollback(m)  BY <1>0, <1>5, ClearScrollbackIs, ArmedLeads
<1>7. \/ \E text \in Texts : n = Scroll(m, text)
      \/ \E row \in 1..m.height, text \in Texts : n = Rewrite(m, row, text)
      \/ n = SwitchScreen(m)
      \/ (m.alt = FALSE /\ n = HardReset(m))
      \/ (m.alt = FALSE /\ n = ClearScrollback(m))  BY <1>0 DEF AfterControl
<1> QED
  BY <1>1, <1>2, <1>3, <1>4, <1>5, <1>7, Zenon

LEMMA ExtendsTransitive ==
  ASSUME NEW m, NEW k, NEW n, Fits(m), Fits(k), Fits(n), Extends(m, k), Extends(k, n)
  PROVE  Extends(m, n)
<1>4. \A line \in First(m)..(ViewTop(m) - 1) : line >= First(n) => RowAt(n, line) = RowAt(m, line)
  <2> SUFFICES ASSUME NEW line \in First(m)..(ViewTop(m) - 1), line >= First(n)
               PROVE  RowAt(n, line) = RowAt(m, line)
    OBVIOUS
  <2>1. line >= First(k) /\ line \in First(k)..(ViewTop(k) - 1)  BY FitsNumbers DEF Extends
  <2> QED  BY <2>1 DEF Extends
<1>5. \A line \in Nat : line >= First(n) =>
          /\ Stamp(n, line) = Stamp(m, line)
          /\ line \in DOMAIN n.prints <=> line \in DOMAIN m.prints
          /\ line \in DOMAIN n.prints => n.prints[line] = m.prints[line]
  <2> SUFFICES ASSUME NEW line \in Nat, line >= First(n)
               PROVE  /\ Stamp(n, line) = Stamp(m, line)
                      /\ line \in DOMAIN n.prints <=> line \in DOMAIN m.prints
                      /\ line \in DOMAIN n.prints => n.prints[line] = m.prints[line]
    OBVIOUS
  <2> QED  BY FitsNumbers DEF Extends
<1> QED  BY SMTT(30), FitsNumbers, <1>4, <1>5 DEF Extends

LEMMA LeadsTransitive ==
  ASSUME NEW m, NEW k, NEW n, Parsing(m), Leads(m, k), Leads(k, n)
  PROVE  Leads(m, n)
<1>1. /\ Fits(m) /\ Fits(k) /\ Fits(n)
      /\ m.epoch \in Nat /\ k.epoch \in Nat /\ n.epoch \in Nat
      /\ k.resetting \in BOOLEAN
  BY FitsNumbers DEF Leads, Parsing, Fits, Mirrors
<1>4. ASSUME n.resetting = FALSE, n.epoch = m.epoch
      PROVE  Extends(m, n)
  <2>1. k.epoch = m.epoch /\ n.epoch = k.epoch  BY <1>1, <1>4 DEF Leads
  <2>2. k.resetting = FALSE
    BY <1>1, <1>4 DEF Leads
  <2> QED
    BY <1>1, <1>4, <2>1, <2>2, ExtendsTransitive DEF Leads
<1>5. n.epoch >= m.epoch  BY <1>1 DEF Leads
<1> QED  BY <1>4, <1>5 DEF Leads

\* A write starts an epoch, or it extends what was there.
LEMMA WriteIs ==
  ASSUME NEW m, Settled(m), NEW n \in AfterWrite(m)
  PROVE  /\ Settled(n)
         /\ n.wrote = TRUE
         /\ n.epoch >= m.epoch
         /\ n.epoch = m.epoch => Extends(m, n)
<1>1. PICK k : Leads(m, k) /\ n = WriteDone(k)
  <2>0. Parsing(m)
    BY DEF Settled
  <2>1. CASE \E k \in AfterControl(m) : n = WriteDone(k)
    BY <2>0, <2>1, ControlLeads
  <2>2. CASE \E j \in AfterControl(m) : \E k \in AfterControl(j) : n = WriteDone(k)
    <3>1. PICK j \in AfterControl(m) : \E k \in AfterControl(j) : n = WriteDone(k)
      BY <2>2
    <3>2. PICK k \in AfterControl(j) : n = WriteDone(k)
      BY <3>1
    <3>3. Leads(m, j)
      BY <2>0, ControlLeads
    <3>4. Leads(j, k)
      BY <3>3, ControlLeads DEF Leads
    <3> QED
      BY <2>0, <3>2, <3>3, <3>4, LeadsTransitive
  <2> QED
    BY <2>1, <2>2 DEF AfterWrite
<1>2. Parsing(k) /\ Fits(k) /\ k \in Mirrors /\ k.resetting \in BOOLEAN /\ k.epoch \in Nat
      /\ m.epoch \in Nat /\ k.epoch >= m.epoch
  BY <1>1, FitsNumbers DEF Leads, Parsing, Fits, Mirrors, Settled
<1>3. CASE k.resetting = TRUE
  <2> DEFINE j == [k EXCEPT !.resetting = FALSE]
             b == BumpEpoch(j)
  <2>1. /\ j \in Mirrors /\ j.buf = k.buf /\ j.alt = k.alt /\ j.height = k.height
        /\ j.normal = k.normal /\ j.epoch = k.epoch /\ j.resetting = FALSE
    BY <1>2 DEF Mirrors
  <2>2. n = [b EXCEPT !.wrote = TRUE]
    BY <1>1, <1>3 DEF WriteDone
  <2> HIDE DEF j
  <2>4. /\ Fits(b) /\ Counts(b) /\ b.epoch = j.epoch + 1 /\ b.resetting = FALSE
    BY <2>1, <1>2, BumpIs DEF Fits, Capacity
  <2> HIDE DEF b
  <2>5. /\ n \in Mirrors /\ n.wrote = TRUE /\ n.epoch = b.epoch /\ n.resetting = FALSE
        /\ n.buf = b.buf /\ n.alt = b.alt /\ n.height = b.height /\ n.normal = b.normal
        /\ n.top = b.top /\ n.scrolled = b.scrolled /\ n.trimmed = b.trimmed
        /\ n.stamps = b.stamps /\ n.prints = b.prints /\ n.watermark = b.watermark
    BY <2>2, <2>4 DEF Fits, Mirrors
  <2>9. n.epoch >= m.epoch /\ n.epoch # m.epoch
    <3>1. n.epoch \in Nat  BY <2>4, <2>5, FitsNumbers DEF Fits, Capacity
    <3> QED  BY <1>2, <2>1, <2>4, <2>5, <3>1
  <2> QED  BY <2>5, <2>4, <2>9 DEF Settled, Parsing, Fits, Capacity, Counts, ViewTop, Retained, Last
<1>4. CASE k.resetting = FALSE
  <2>2. /\ n \in Mirrors /\ n.wrote = TRUE /\ n.epoch = k.epoch /\ n.resetting = FALSE
        /\ n.buf = k.buf /\ n.alt = k.alt /\ n.height = k.height /\ n.normal = k.normal
        /\ n.top = k.top /\ n.scrolled = k.scrolled /\ n.trimmed = k.trimmed
        /\ n.stamps = k.stamps /\ n.prints = k.prints /\ n.watermark = k.watermark
    BY <1>2, <1>4, <1>1 DEF Mirrors, WriteDone
  <2>3. Fits(n)
    BY <1>2, <2>2 DEF Fits, Capacity
  <2>4. Counts(n)
    BY <1>2, <1>4, <2>2 DEF Parsing, Counts, ViewTop, Retained, Last
  <2>5. n.epoch = m.epoch => Extends(m, n)
    BY <2>2, <1>1, <1>4 DEF Extends, First, Last, ViewTop, Retained, RowAt, Stamp, Leads
  <2> QED
    BY <1>2, <2>2, <2>3, <2>4, <2>5 DEF Settled, Parsing
<1> QED
  BY <1>2, <1>3, <1>4

-----------------------------------------------------------------------------
(* Resizes, rebinds and new runs.                                          *)

LEMMA FitRowsIs ==
  ASSUME NEW rows \in Seq(Row), NEW height \in Nat, NEW capacity \in Nat, capacity >= height
  PROVE  /\ FitRows(rows, height, capacity) \in Seq(Row)
         /\ Len(FitRows(rows, height, capacity)) >= height
         /\ Len(FitRows(rows, height, capacity)) <= capacity
<1> DEFINE more == IF Len(rows) < height THEN height - Len(rows) ELSE 0
           padded == rows \o BlankRows(more)
           excess == IF Len(padded) > capacity THEN Len(padded) - capacity ELSE 0
           kept == SubSeq(padded, excess + 1, Len(padded))
<1>2. BlankRows(more) \in Seq(Row) /\ Len(BlankRows(more)) = more  BY LenProperties, BlankRowsAre
<1>3. padded \in Seq(Row) /\ Len(padded) = Len(rows) + more
  BY <1>2, ConcatProperties
<1>4. Len(padded) \in Nat /\ Len(padded) >= height  BY LenProperties, <1>3
<1> HIDE DEF padded, more
<1>5. excess \in Nat /\ excess <= Len(padded) /\ Len(padded) - excess <= capacity
      /\ Len(padded) - excess >= height
  BY <1>4
<1> HIDE DEF excess
<1>6. \A i \in (excess + 1)..Len(padded) : padded[i] \in Row  BY <1>4, <1>5, <1>3, LenProperties
<1>8. Len(kept) = Len(padded) - excess  BY <1>4, <1>5, <1>6, SubSeqProperties
<1>9. FitRows(rows, height, capacity) = kept
  BY Zenon DEF FitRows, kept, padded, excess, more
<1> QED  BY <1>5, <1>4, <1>6, SubSeqProperties, <1>8, <1>9

LEMMA ResizeIs ==
  ASSUME NEW m, Settled(m), NEW height \in Heights
  PROVE  /\ Settled(ResizeMirror(m, height))
         /\ ResizeMirror(m, height).epoch = m.epoch + 1
<1>0. /\ Fits(m) /\ m \in Mirrors /\ m.buf \in Seq(Row) /\ m.normal \in Seq(Row)
      /\ m.alt \in BOOLEAN /\ m.resetting = FALSE
  BY DEF Settled, Parsing, Fits, Mirrors
<1>1. height \in Nat /\ Scrollback + height \in Nat /\ Scrollback + height >= height
      /\ 0 + height = height
  BY HeightAssumption, ScrollbackAssumption
<1> DEFINE b == FitRows(m.buf, height, (IF m.alt THEN 0 ELSE Scrollback) + height)
           k == IF m.alt THEN FitRows(m.normal, height, Scrollback + height) ELSE m.normal
           n == [m EXCEPT !.height = height, !.buf = b, !.normal = k]
<1>2. b \in Seq(Row) /\ Len(b) >= height
      /\ (m.alt = TRUE => Len(b) <= height) /\ (m.alt = FALSE => Len(b) <= Scrollback + height)
  <2>1. CASE m.alt = TRUE
    <3>1. b = FitRows(m.buf, height, height)
      BY <1>1, <2>1
    <3> QED
      BY <1>0, <1>1, <2>1, <3>1, FitRowsIs
  <2>2. CASE m.alt = FALSE
    <3>1. b = FitRows(m.buf, height, Scrollback + height)
      BY <1>1, <2>2
    <3> QED
      BY <1>0, <1>1, <2>2, <3>1, FitRowsIs
  <2> QED
    BY <1>0, <2>1, <2>2
<1>3. k \in Seq(Row) /\ (m.alt = TRUE => Len(k) >= height /\ Len(k) <= Scrollback + height)
  <2>1. CASE m.alt = TRUE
    BY <1>0, <1>1, <2>1, FitRowsIs
  <2>2. CASE m.alt = FALSE
    BY <1>0, <2>2
  <2> QED
    BY <1>0, <2>1, <2>2
<1>4. ResizeMirror(m, height) = BumpEpoch(n)
  BY <1>0, Zenon DEF ResizeMirror
<1> HIDE DEF b, k
<1>5. /\ n \in Mirrors /\ n.height = height /\ n.buf = b /\ n.normal = k /\ n.alt = m.alt
      /\ n.epoch = m.epoch /\ n.resetting = FALSE
  BY <1>0, <1>2, <1>3 DEF Mirrors
<1> HIDE DEF n
<1>7. Fits(n)
  <2>1. Len(n.buf) <= Capacity(n)  BY <1>0, <1>2, <1>5, <1>1 DEF Capacity
  <2> QED
    BY <1>0, <1>2, <1>3, <1>5, <2>1 DEF Fits
<1> QED
  BY <1>4, <1>5, <1>7, BumpIs DEF Settled, Parsing

LEMMA NewMirrorIs ==
  ASSUME NEW epoch \in Nat \ {0}
  PROVE  /\ Settled(NewMirror(epoch))
         /\ NewMirror(epoch).epoch = epoch
         /\ NewMirror(epoch).alt = FALSE
         /\ DOMAIN NewMirror(epoch).prints = {}
<1> DEFINE n == NewMirror(epoch)
<1>1. FirstHeight \in Heights /\ FirstHeight \in Nat /\ FirstHeight >= 1
  BY HeightAssumption
<1>2. BlankRows(FirstHeight) \in Seq(Row) /\ Len(BlankRows(FirstHeight)) = FirstHeight
  BY <1>1, BlankRowsAre
<1>3. <<>> \in Seq(Row) /\ NoLines \in LineMaps(Nat) /\ NoLines \in LineMaps(Row) /\ DOMAIN NoLines = {}
  BY NoLinesIs
<1>4. /\ n \in Mirrors
      /\ n.buf = BlankRows(FirstHeight) /\ n.height = FirstHeight /\ n.alt = FALSE
      /\ n.epoch = epoch /\ n.watermark = 0 /\ n.scrolled = 0 /\ n.trimmed = 0 /\ n.top = 0
      /\ n.stamps = NoLines /\ n.prints = NoLines /\ n.resetting = FALSE
  BY <1>1, <1>2, <1>3 DEF NewMirror, Mirrors
<1> HIDE DEF n
<1>6. Fits(n)  BY <1>1, <1>2, <1>4, ScrollbackAssumption DEF Fits, Capacity
<1>8. Counts(n)  BY <1>3, <1>4, <1>1, <1>2 DEF Counts, Retained, ViewTop
<1>9. \A line \in Ticked(n) : Noted(n, line) = RowAt(n, line)
  BY <1>3, <1>4 DEF Ticked, Noted
<1> QED
  BY <1>3, <1>4, <1>6, <1>8, <1>9 DEF n, Settled, Parsing

\* The mirror of a replacement terminal.
LEMMA ReplacementIs ==
  ASSUME NEW epoch \in Nat \ {0}, NEW floor \in Nat, NEW text \in Texts
  PROVE  /\ Settled(WriteDone(Scroll(SetEpochFloor(NewMirror(epoch), floor), text)))
         /\ WriteDone(Scroll(SetEpochFloor(NewMirror(epoch), floor), text)).epoch > floor
<1> DEFINE j == NewMirror(epoch)
           m == SetEpochFloor(j, floor)
           n == WriteDone(Scroll(m, text))
<1>1. Settled(j) /\ j.epoch = epoch /\ j \in Mirrors
  BY NewMirrorIs DEF Settled, Parsing, Fits
<1> HIDE DEF j
<1>2. Settled(m) /\ m.epoch > floor
  <2>1. CASE floor >= epoch
    <3>3. /\ m \in Mirrors /\ m.epoch = floor + 1
          /\ m.buf = j.buf /\ m.alt = j.alt /\ m.height = j.height /\ m.normal = j.normal
          /\ m.top = j.top /\ m.scrolled = j.scrolled /\ m.trimmed = j.trimmed
          /\ m.stamps = j.stamps /\ m.prints = j.prints /\ m.watermark = j.watermark
          /\ m.resetting = j.resetting /\ m.wrote = j.wrote  BY SMTT(30), <1>1, <2>1 DEF Mirrors, SetEpochFloor
    <3> HIDE DEF m
    <3>4. Fits(j) /\ Counts(j) /\ j.resetting = FALSE
      BY <1>1 DEF Settled, Parsing
    <3>5. Fits(m)
      BY <3>3, <3>4 DEF Fits, Capacity
    <3>6. Counts(m)
      BY <3>3, <3>4 DEF Counts, ViewTop, Retained, Last
    <3>8. m.wrote = FALSE => \A line \in Ticked(m) : Noted(m, line) = RowAt(m, line)
      BY <1>1, <3>3 DEF Settled, Ticked, Noted, RowAt, First, Last
    <3>9. m.epoch > floor
      BY <3>3
    <3> QED
      BY <3>3, <3>4, <3>5, <3>6, <3>8, <3>9 DEF Settled, Parsing
  <2>2. CASE ~(floor >= epoch)  BY <1>1, <2>2 DEF SetEpochFloor
  <2> QED
    BY <2>1, <2>2
<1> HIDE DEF m
<1>3. n \in AfterWrite(m)  BY DEF AfterWrite, AfterControl
<1>4. Settled(n) /\ n.epoch >= m.epoch
  BY <1>2, <1>3, WriteIs
<1>6. n.epoch > floor  BY <1>2, <1>4, FitsNumbers DEF Settled, Parsing
<1> QED
  BY <1>4, <1>6 DEF m, j

LEMMA FirstRunIs ==
  ASSUME NEW text \in Texts
  PROVE  Settled(WriteDone(Scroll(NewMirror(1), text)))
<1> DEFINE m == NewMirror(1)
<1>1. Settled(m)
  <2>1. 1 \in Nat \ {0}
    OBVIOUS
  <2> QED
    BY <2>1, NewMirrorIs
<1> HIDE DEF m
<1>2. WriteDone(Scroll(m, text)) \in AfterWrite(m)  BY DEF AfterWrite, AfterControl
<1> QED  BY <1>1, <1>2, WriteIs DEF m

-----------------------------------------------------------------------------
(* The tick.                                                               *)

LEMMA StampType ==
  ASSUME NEW m, Settled(m), NEW line
  PROVE  Stamp(m, line) \in Nat /\ Stamp(m, line) <= m.watermark
<1> QED  BY LineMapOf DEF Stamp, Settled, Parsing, Fits, Mirrors, Counts

LEMMA DirtyIs ==
  ASSUME NEW m, Settled(m)
  PROVE  /\ Dirty(m) \subseteq First(m)..Last(m)
         /\ \A line \in First(m)..Last(m) : line \notin Dirty(m) =>
               line \in Ticked(m) /\ Noted(m, line) = RowAt(m, line)
         /\ Last(m) \notin DOMAIN m.prints => Last(m) \in Dirty(m)
<1>2. /\ First(m) \in Nat /\ Last(m) \in Nat /\ ViewTop(m) \in Nat /\ m.trimmed \in Nat /\ m.top \in Nat
      /\ First(m) = m.trimmed /\ First(m) <= ViewTop(m) /\ ViewTop(m) <= Last(m)
  BY FitsNumbers DEF Settled, Parsing
<1>3. m.top <= ViewTop(m)  BY DEF Counts, Settled, Parsing
<1>5. ASSUME NEW line \in First(m)..Last(m), line \notin Dirty(m)
      PROVE  line \in Ticked(m) /\ Noted(m, line) = RowAt(m, line)
  <2>1. CASE line < ViewTop(m)  BY <1>5, <1>2, <2>1 DEF Ticked, Noted, Dirty
  <2>2. CASE ~(line < ViewTop(m))
    <3>2. line \in DOMAIN m.prints /\ m.prints[line] = RowAt(m, line)  BY <1>5, <1>2, <1>3, <2>2 DEF Dirty
    <3> QED  BY <1>5, <1>2, <1>3, <2>2, <3>2 DEF Ticked, Noted
  <2> QED
    BY <2>1, <2>2
<1> QED  BY <1>2, <1>5 DEF Dirty

\* The rows stay; those that are dirty have a new stamp.
Retouched(m, n) ==
    \A line \in First(m)..Last(m) :
       IF line \in Dirty(m)
       THEN Stamp(n, line) = m.watermark + 1 /\ n.watermark = m.watermark + 1
       ELSE Stamp(n, line) = Stamp(m, line)

SameRows(m, n) ==
    /\ n.epoch = m.epoch /\ n.alt = m.alt
    /\ First(n) = First(m) /\ Last(n) = Last(m) /\ ViewTop(n) = ViewTop(m)
    /\ \A line : RowAt(n, line) = RowAt(m, line)

LEMMA TickIs ==
  ASSUME NEW m, Settled(m)
  PROVE  /\ Settled(Tick(m))
         /\ Tick(m).wrote = FALSE
         /\ SameRows(m, Tick(m))
         /\ Tick(m).watermark >= m.watermark
         /\ m.wrote = FALSE => Tick(m) = m
         /\ m.wrote = TRUE => Retouched(m, Tick(m))
         /\ Stamps(m) = FALSE =>
               Tick(m).watermark = m.watermark /\ \A line : Stamp(Tick(m), line) = Stamp(m, line)
         /\ (m.wrote = TRUE /\ Last(m) \notin DOMAIN m.prints) => Stamps(m)
<1> DEFINE n == Tick(m)
<1>0. /\ Fits(m) /\ Counts(m) /\ m \in Mirrors /\ m.resetting = FALSE /\ m.wrote \in BOOLEAN
      /\ m.watermark \in Nat
  BY DEF Settled, Parsing, Fits, Mirrors
<1>1. /\ First(m) \in Nat /\ Last(m) \in Nat /\ ViewTop(m) \in Nat /\ m.top \in Nat
      /\ First(m) = m.trimmed /\ First(m) <= ViewTop(m) /\ ViewTop(m) <= Last(m)
      /\ \A line \in First(m)..Last(m) : RowAt(m, line) \in Row
  BY <1>0, FitsNumbers
<1>3. (m.wrote = TRUE /\ Last(m) \notin DOMAIN m.prints) => Stamps(m)
  BY <1>0, DirtyIs DEF Stamps
<1>4. CASE m.wrote = FALSE
  <2>1. n = m
    BY <1>4 DEF Tick
  <2> QED
    BY <1>0, <1>4, <2>1 DEF SameRows
<1>5. CASE m.wrote = TRUE
  <2> DEFINE prints == [line \in ViewTop(m)..Last(m) |-> RowAt(m, line)]
             k == [m EXCEPT !.wrote = FALSE, !.top = ViewTop(m), !.prints = prints]
             marks == [line \in DOMAIN m.stamps \cup Dirty(m) |->
                         IF line \in Dirty(m) THEN m.watermark + 1 ELSE m.stamps[line]]
  <2>1. n = IF Dirty(m) = {} THEN k
            ELSE [k EXCEPT !.watermark = @ + 1, !.stamps = marks]
    BY <1>0, <1>5, Zenon DEF Tick
  <2>2. prints \in LineMaps(Row) /\ DOMAIN prints = ViewTop(m)..Last(m)
        /\ \A line \in ViewTop(m)..Last(m) : prints[line] = RowAt(m, line)
    <3>1. ViewTop(m)..Last(m) \in SUBSET Nat
      BY <1>1
    <3>2. prints \in [ViewTop(m)..Last(m) -> Row]
      BY <1>1
    <3> QED
      BY <3>1, <3>2, LineMapIs
  <2>3. /\ DOMAIN m.stamps \subseteq Nat /\ m.stamps \in [DOMAIN m.stamps -> Nat]
    BY <1>0, LineMapOf DEF Mirrors
  <2>4. marks \in LineMaps(Nat) /\ DOMAIN marks = DOMAIN m.stamps \cup Dirty(m)
        /\ (\A line \in Dirty(m) : marks[line] = m.watermark + 1)
        /\ (\A line \in DOMAIN m.stamps \ Dirty(m) : marks[line] = m.stamps[line])
    <3>1. DOMAIN m.stamps \cup Dirty(m) \in SUBSET Nat  BY <1>1, DirtyIs, <2>3
    <3>2. marks \in [DOMAIN m.stamps \cup Dirty(m) -> Nat]
      BY <1>0, <2>3
    <3> QED  BY <3>1, <3>2, LineMapIs
  <2> HIDE DEF prints, marks
  <2>5. /\ k \in Mirrors
        /\ k.buf = m.buf /\ k.normal = m.normal /\ k.height = m.height /\ k.alt = m.alt
        /\ k.epoch = m.epoch /\ k.watermark = m.watermark /\ k.scrolled = m.scrolled
        /\ k.trimmed = m.trimmed /\ k.top = ViewTop(m) /\ k.stamps = m.stamps /\ k.prints = prints
        /\ k.wrote = FALSE /\ k.resetting = FALSE
    BY <1>0, <1>1, <2>2 DEF Mirrors
  <2> HIDE DEF k
  <2>6. m.watermark + 1 \in Nat
    BY <1>0
  <2>7. /\ n \in Mirrors
        /\ n.buf = m.buf /\ n.normal = m.normal /\ n.height = m.height /\ n.alt = m.alt
        /\ n.epoch = m.epoch /\ n.scrolled = m.scrolled
        /\ n.trimmed = m.trimmed /\ n.top = ViewTop(m) /\ n.prints = prints
        /\ n.wrote = FALSE /\ n.resetting = FALSE
        /\ Dirty(m) = {} => n.stamps = m.stamps /\ n.watermark = m.watermark
        /\ Dirty(m) # {} => n.stamps = marks /\ n.watermark = m.watermark + 1
    <3>1. CASE Dirty(m) = {}
      BY <2>1, <2>5, <3>1
    <3>2. CASE Dirty(m) # {}
      <4>1. n = [k EXCEPT !.watermark = m.watermark + 1, !.stamps = marks]
        BY <2>1, <2>5, <3>2 DEF Mirrors
      <4> HIDE DEF n
      <4> QED
        BY <2>4, <2>5, <2>6, <3>2, <4>1 DEF Mirrors
    <3> QED
      BY <3>1, <3>2
  <2> HIDE DEF n
  <2>8. SameRows(m, n) /\ Retained(n) = Retained(m)
    BY <2>7 DEF SameRows, First, Last, ViewTop, Retained, RowAt
  <2>10. n.watermark >= m.watermark /\ n.watermark \in Nat
    BY <1>0, <2>7
  <2>11. \A line : Stamp(n, line) = IF line \in Dirty(m) THEN m.watermark + 1 ELSE Stamp(m, line)
    <3>1. CASE Dirty(m) = {}
      BY <2>7, <3>1 DEF Stamp
    <3>2. CASE Dirty(m) # {}
      BY <2>4, <2>7, <3>2 DEF Stamp
    <3> QED
      BY <3>1, <3>2
  <2>12. Counts(n)
    <3>2. /\ n.alt = FALSE => n.scrolled = n.trimmed + Retained(n)
          /\ n.alt = FALSE /\ Retained(n) < Scrollback => n.trimmed = 0
      BY <1>0, <2>7, <2>8 DEF Counts
    <3>3. ASSUME NEW line \in DOMAIN n.stamps
          PROVE  n.stamps[line] >= 1 /\ n.stamps[line] <= n.watermark /\ line <= Last(n)
      <4>1. CASE Dirty(m) = {}  BY <2>7, <2>8, <3>3, <1>0, <2>3, <4>1 DEF SameRows, Counts
      <4>2. CASE Dirty(m) # {} /\ line \in Dirty(m)
        <5>2. line <= Last(n)  BY <1>1, DirtyIs, <2>8, <4>2 DEF SameRows
        <5> QED  BY <1>0, <2>4, <2>7, <4>2, <5>2
      <4>3. CASE Dirty(m) # {} /\ line \notin Dirty(m)
        <5>1. line \in DOMAIN m.stamps /\ n.stamps[line] = m.stamps[line]
          BY <2>4, <2>7, <3>3, <4>3
        <5>2. m.stamps[line] <= n.watermark  BY <1>0, <2>10, <2>3, <5>1 DEF Counts
        <5> QED  BY <2>8, <1>0, <2>3, <5>1, <5>2 DEF SameRows, Counts
      <4> QED
        BY <4>1, <4>2, <4>3
    <3>4. \A line \in DOMAIN n.prints : line <= Last(n)
      BY <1>1, <2>2, <2>7, <2>8 DEF SameRows
    <3> QED  BY <1>1, <2>7, <2>8, <3>2, <3>3, <3>4 DEF Counts, SameRows
  <2>13. \A line \in Ticked(n) : Noted(n, line) = RowAt(n, line)
    <3> SUFFICES ASSUME NEW line \in Ticked(n)
                 PROVE  Noted(n, line) = RowAt(n, line)
      OBVIOUS
    <3>1. CASE line < n.top
      BY <3>1 DEF Noted
    <3>2. CASE ~(line < n.top)
      <4>1. line \in DOMAIN n.prints
        BY <3>2 DEF Ticked
      <4> QED
        BY <2>2, <2>7, <2>8, <3>2, <4>1 DEF Noted, SameRows
    <3> QED
      BY <3>1, <3>2
  <2>14. Settled(n)  BY <2>7, <1>0, <2>12, <2>13 DEF Settled, Parsing, Fits, Capacity
  <2>15. Retouched(m, n)
    BY <2>7, <2>11 DEF Retouched
  <2>16. Stamps(m) = FALSE => n.watermark = m.watermark /\ \A line : Stamp(n, line) = Stamp(m, line)
    BY <1>0, <1>5, <2>7, <2>11 DEF Stamps
  <2> QED
    BY <1>3, <1>5, <2>7, <2>8, <2>10, <2>14, <2>15, <2>16 DEF n
<1> QED
  BY <1>0, <1>4, <1>5

-----------------------------------------------------------------------------
(* Pages.                                                                  *)

LEMMA LeastNat ==
  ASSUME NEW T \in SUBSET Nat, T # {}
  PROVE  \E x \in T : \A y \in T : x <= y
<1>2. PICK x \in T : \A y \in T : ~(<<y, x>> \in OpToRel(<, Nat))  BY NatLessThanWellFounded, WFMin
<1>3. \A y \in T : ~(y < x)
  BY <1>2 DEF OpToRel
<1> QED
  BY <1>3

LEMMA GreatestBelow ==
  ASSUME NEW T \in SUBSET Nat, T # {}, NEW n \in Nat, \A x \in T : x <= n
  PROVE  \E x \in T : \A y \in T : y <= x
<1> DEFINE D == {n - x : x \in T}
<1>1. D \in SUBSET Nat /\ D # {}
  <2>2. \A d \in D : d \in Nat  OBVIOUS
  <2> QED
    BY <2>2
<1>2. PICK d \in D : \A e \in D : d <= e
  BY <1>1, LeastNat, Zenon
<1>3. PICK x \in T : d = n - x
  BY <1>2
<1>4. \A y \in T : y <= x
  BY <1>2, <1>3
<1> QED
  BY <1>4

\* Stamps and lines order the rows.
LEMMA PrecedesIs ==
  ASSUME NEW m, Settled(m), NEW x \in Nat, NEW y \in Nat
  PROVE  /\ x # y => Precedes(m, x, y) \/ Precedes(m, y, x)
         /\ ~(Precedes(m, x, y) /\ Precedes(m, y, x))
         /\ \A z \in Nat : Precedes(m, x, y) /\ Precedes(m, y, z) => Precedes(m, x, z)
<1> QED  BY StampType DEF Precedes

\* The last row of a page.
LEMMA LastOfPage ==
  ASSUME NEW m, Settled(m), NEW S \in SUBSET (First(m)..Last(m)), S # {}
  PROVE  \E x \in S : \A y \in S \ {x} : Precedes(m, y, x)
<1> DEFINE W == {Stamp(m, x) : x \in S}
<1>3. W \in SUBSET Nat /\ W # {} /\ \A w \in W : w <= m.watermark
  BY StampType
<1>4. PICK w \in W : \A v \in W : v <= w  BY FitsNumbers, <1>3, GreatestBelow DEF Settled, Parsing
<1> DEFINE L == {x \in S : Stamp(m, x) = w}
<1>5. L \in SUBSET Nat /\ L # {} /\ \A x \in L : x <= Last(m)  BY FitsNumbers, <1>4 DEF Settled, Parsing
<1>6. PICK x \in L : \A y \in L : y <= x  BY FitsNumbers, <1>5, GreatestBelow DEF Settled, Parsing
<1>7. \A y \in S \ {x} : Precedes(m, y, x)
  <2> SUFFICES ASSUME NEW y \in S \ {x}
               PROVE  Precedes(m, y, x)
    OBVIOUS
  <2>2. CASE Stamp(m, y) = w
    <3>1. y <= x /\ y # x /\ y \in Nat /\ x \in Nat  BY FitsNumbers, <1>6, <2>2 DEF Settled, Parsing
    <3> QED  BY <1>3, <1>4, <1>6, StampType, <2>2, <3>1 DEF Precedes
  <2>3. CASE Stamp(m, y) # w  BY <1>3, <1>4, <1>6, StampType, <2>3 DEF Precedes
  <2> QED
    BY <2>2, <2>3
<1> QED
  BY <1>6, <1>7

LEMMA FirstOfPage ==
  ASSUME NEW m, Settled(m), NEW S \in SUBSET (First(m)..Last(m)), S # {}
  PROVE  \E x \in S : \A y \in S : ~Precedes(m, y, x)
<1>2. S \in SUBSET Nat  BY FitsNumbers DEF Settled, Parsing
<1> DEFINE W == {Stamp(m, x) : x \in S}
<1>3. W \in SUBSET Nat /\ W # {}
  BY StampType
<1>4. PICK w \in W : \A v \in W : w <= v
  BY <1>3, LeastNat, Zenon
<1> DEFINE L == {x \in S : Stamp(m, x) = w}
<1>5. L \in SUBSET Nat /\ L # {}
  BY <1>2, <1>4
<1>6. PICK x \in L : \A y \in L : x <= y
  BY <1>5, LeastNat, Zenon
<1>7. \A y \in S : ~Precedes(m, y, x)
  <2> SUFFICES ASSUME NEW y \in S
               PROVE  ~Precedes(m, y, x)
    OBVIOUS
  <2>2. CASE Stamp(m, y) = w
    <3>1. x <= y /\ y \in Nat /\ x \in Nat
      BY <1>2, <1>6, <2>2
    <3> QED  BY <1>3, <1>4, <1>6, StampType, <2>2, <3>1 DEF Precedes
  <2>3. CASE Stamp(m, y) # w  BY <1>3, <1>4, <1>6, StampType, <2>3 DEF Precedes
  <2> QED
    BY <2>2, <2>3
<1> QED
  BY <1>6, <1>7

LEMMA CandidatesAre ==
  ASSUME NEW m, Settled(m), NEW c
  PROVE  /\ Candidates(m, c) \subseteq First(m)..Last(m)
         /\ Fresh(m, c) => Candidates(m, c) = First(m)..Last(m) /\ Candidates(m, c) # {}
         /\ Fresh(m, c) = FALSE =>
               \A x \in First(m)..Last(m) : x \in Candidates(m, c) <=> Pending(m, c, x)
<1> QED  BY FitsNumbers DEF Candidates, Pending, Settled, Parsing

\* What precedes a row of a page is on the page.
LEMMA PageIs ==
  ASSUME NEW m, Settled(m), NEW c
  PROVE  /\ ForwardLines(m, c) \subseteq Candidates(m, c)
         /\ Candidates(m, c) # {} => ForwardLines(m, c) # {}
         /\ \A x \in Candidates(m, c) \ ForwardLines(m, c) : \A y \in ForwardLines(m, c) : Precedes(m, y, x)
<1> DEFINE all == Candidates(m, c)
           below(x) == {y \in all : Precedes(m, y, x)}
<1>0. First(m) \in Nat /\ Last(m) \in Nat /\ Cap \in Nat /\ Cap >= 1
  <2>2. Cap \in Nat \ {0}
    BY CapAssumption, Zenon
  <2> QED  BY FitsNumbers, <2>2 DEF Settled, Parsing
<1>1. all \subseteq First(m)..Last(m) /\ all \subseteq Nat
  <2>1. all \subseteq First(m)..Last(m)
    BY CandidatesAre, Zenon
  <2>2. First(m)..Last(m) \subseteq Nat
    BY <1>0
  <2> QED
    BY <2>1, <2>2, Zenon
<1>2. IsFiniteSet(First(m)..Last(m))
  <2>1. \A a, b \in Int : IsFiniteSet(a..b)
    BY FS_Interval, Zenon
  <2> QED
    BY <1>0, <2>1
<1> HIDE DEF all
<1>4. \A x : IsFiniteSet(below(x)) /\ Cardinality(below(x)) \in Nat
  BY <1>1, <1>2, FS_Subset, FS_CardinalityType
<1>5. ForwardLines(m, c) = {x \in all : Cardinality(below(x)) < Cap}
  BY DEF ForwardLines, all
<1>6. all # {} => ForwardLines(m, c) # {}
  <2> SUFFICES ASSUME all # {}
               PROVE  ForwardLines(m, c) # {}
    OBVIOUS
  <2>1. PICK x \in all : \A y \in all : ~Precedes(m, y, x)
    BY <1>1, FirstOfPage
  <2> QED  BY <1>0, <1>5, <2>1, FS_EmptySet
<1>7. ASSUME NEW x \in all \ ForwardLines(m, c), NEW y \in ForwardLines(m, c)
      PROVE  Precedes(m, y, x)
  <2>2. Cardinality(below(y)) < Cap /\ ~(Cardinality(below(x)) < Cap)  BY <1>5, <1>7, <1>1
  <2>3. CASE Precedes(m, x, y)
    <3>1. below(x) \subseteq below(y)  BY <1>1, <1>5, <1>7, <2>3, PrecedesIs
    <3> QED  BY <1>0, <1>4, <2>2, <3>1, FS_Subset
  <2> QED  BY <1>1, <1>5, <1>7, <2>3, PrecedesIs
<1> QED
  BY <1>5, <1>6, <1>7 DEF all

\* The cursor that follows a page: it is good, what is left of the page comes after it, and
\* nothing does once the page took everything.
LEMMA ResumeIs ==
  ASSUME NEW m, Settled(m), NEW c \in Cursors \cup {NoCursor}, ForwardLines(m, c) # {}
  PROVE  LET d == ResumeAfter(m, c, ForwardLines(m, c))
         IN  /\ d \in Cursors /\ d.epoch = m.epoch /\ d.watermark <= m.watermark
             /\ Fresh(m, d) = FALSE
             /\ \A x \in Candidates(m, c) \ ForwardLines(m, c) : Pending(m, d, x)
             /\ ForwardLines(m, c) = Candidates(m, c) => Candidates(m, d) = {}
<1> DEFINE lines == ForwardLines(m, c)
           all == Candidates(m, c)
           d == ResumeAfter(m, c, lines)
<1>0. /\ First(m) \in Nat /\ Last(m) \in Nat /\ m.epoch \in Nat /\ m.watermark \in Nat
      /\ \A x \in First(m)..Last(m) : x \in Nat
  BY FitsNumbers DEF Settled, Parsing
<1>1. lines \subseteq all /\ all \subseteq First(m)..Last(m)
  BY PageIs, CandidatesAre, Zenon
<1>2. \A x \in all \ lines : \A y \in lines : Precedes(m, y, x)
  BY PageIs, Zenon
<1>3. PICK x \in lines : /\ \A y \in lines \ {x} : Precedes(m, y, x)
                         /\ d = [epoch |-> m.epoch, watermark |-> Stamp(m, x), line |-> x]
  <2>1. lines \in SUBSET (First(m)..Last(m))
    BY <1>1, Zenon
  <2>2. \E x \in lines : \A y \in lines \ {x} : Precedes(m, y, x)
    BY <2>1, LastOfPage, Zenon
  <2> DEFINE x == CHOOSE x \in lines : \A y \in lines \ {x} : Precedes(m, y, x)
  <2>3. x \in lines /\ \A y \in lines \ {x} : Precedes(m, y, x)
    BY <2>2
  <2>4. d = [epoch |-> m.epoch, watermark |-> Stamp(m, x), line |-> x]
    BY DEF ResumeAfter
  <2> HIDE DEF x, lines, d
  <2> QED
    BY <2>3, <2>4
<1> HIDE DEF lines, all, d
<1>4. x \in First(m)..Last(m) /\ x \in Nat /\ Stamp(m, x) \in Nat /\ Stamp(m, x) <= m.watermark
  BY <1>0, <1>1, StampType
<1>5. d \in Cursors /\ d.epoch = m.epoch /\ d.watermark = Stamp(m, x) /\ d.line = x
  BY <1>0, <1>3, <1>4 DEF Cursors
<1>7. Fresh(m, d) = FALSE  BY <1>0, <1>4, <1>5, CursorAssumption DEF Fresh
<1>9. \A y \in all \ lines : Pending(m, d, y)
  <2> SUFFICES ASSUME NEW y \in all \ lines
               PROVE  Pending(m, d, y)
    OBVIOUS
  <2>1. y \in Nat
    BY <1>0, <1>1
  <2> QED  BY <1>2, <1>4, <1>5, StampType, <2>1 DEF Pending, Precedes
<1>10. ASSUME lines = all
       PROVE  Candidates(m, d) = {}
  <2> SUFFICES ASSUME NEW y \in Candidates(m, d)
               PROVE  FALSE
    OBVIOUS
  <2>1. y \in First(m)..Last(m) /\ y \in Nat
    BY <1>0, CandidatesAre
  <2>2. Precedes(m, x, y)  BY <1>7, <1>4, <1>5, StampType, <2>1, CandidatesAre DEF Pending, Precedes
  <2>3. y \notin lines
    <3>2. y \in lines \ {x} => Precedes(m, y, x)
      BY <1>3
    <3>3. ~(Precedes(m, x, y) /\ Precedes(m, y, x))
      BY <1>4, <2>1, PrecedesIs
    <3> QED  BY <2>2, <1>4, PrecedesIs, <3>2, <3>3
  <2>5. Fresh(m, c) = FALSE
    <3>1. Fresh(m, c) => all = First(m)..Last(m)
      BY CandidatesAre, Zenon DEF all
    <3>2. Fresh(m, c) \in BOOLEAN
      BY DEF Fresh
    <3> QED  BY <2>1, <1>10, <2>3, <3>1, <3>2
  <2>7. Pending(m, c, x) /\ ~Pending(m, c, y)  BY <1>4, <2>1, <1>10, <2>3, <2>5, CandidatesAre DEF all
  <2>9. c.watermark \in Nat /\ c.line \in Nat  BY <2>5 DEF Cursors, Fresh
  <2>10. Stamp(m, y) \in Nat
    BY StampType
  <2> QED
    BY <1>4, <2>1, <2>2, <2>7, <2>9, <2>10 DEF Pending, Precedes
<1>11. d.watermark <= m.watermark
  BY <1>4, <1>5
<1> QED
  BY <1>5, <1>7, <1>9, <1>10, <1>11 DEF lines, all, d

LEMMA FromNowIs ==
  ASSUME NEW m, Settled(m)
  PROVE  /\ FromNow(m) \in Cursors /\ FromNow(m).epoch = m.epoch /\ FromNow(m).watermark = m.watermark
         /\ Fresh(m, FromNow(m)) = FALSE
         /\ Candidates(m, FromNow(m)) = {}
<1> DEFINE d == FromNow(m)
<1>1. d \in Cursors /\ d.epoch = m.epoch /\ d.watermark = m.watermark /\ d.line = Last(m)
  BY FitsNumbers DEF FromNow, Cursors, Settled, Parsing
<1> HIDE DEF d
<1>3. Fresh(m, d) = FALSE  BY FitsNumbers, <1>1, CursorAssumption DEF Fresh, Settled, Parsing
<1>4. ASSUME NEW y \in Candidates(m, d)
      PROVE  FALSE
  <2>1. y \in First(m)..Last(m) /\ Pending(m, d, y)
    BY <1>3, CandidatesAre
  <2>2. Stamp(m, y) \in Nat /\ Stamp(m, y) <= m.watermark
    BY StampType
  <2> QED  BY FitsNumbers, <1>1, <2>1, <2>2 DEF Pending, Settled, Parsing
<1> QED
  BY <1>1, <1>3, <1>4 DEF d

LEMMA MinOfIs ==
  ASSUME NEW S \in SUBSET Nat, S # {}
  PROVE  MinOf(S) \in S /\ \A y \in S : MinOf(S) <= y
<1>1. \E x \in S : \A y \in S : x <= y
  BY LeastNat, Zenon
<1> QED
  BY <1>1 DEF MinOf

LEMMA TailIs ==
  ASSUME NEW m, Settled(m)
  PROVE  /\ TailLines(m) \subseteq First(m)..Last(m)
         /\ TailLines(m) # {}
         /\ MinOf(TailLines(m)) \in First(m)..Last(m)
         /\ \A line \in First(m)..Last(m) : line >= MinOf(TailLines(m)) => line \in TailLines(m)
<1> DEFINE n == Lesser(TailSize, Cap)
           S == TailLines(m)
<1>1. n \in Nat /\ n >= 1
  <2>1. \A k \in Nat \ {0} : k \in Nat /\ k >= 1
    OBVIOUS
  <2>2. Cap \in Nat \ {0} /\ TailSize \in Nat \ {0}
    BY CapAssumption, Zenon
  <2>3. Cap \in Nat /\ Cap >= 1 /\ TailSize \in Nat /\ TailSize >= 1
    BY <2>1, <2>2, Zenon
  <2> QED
    BY <2>3 DEF Lesser
<1>2. S = {line \in First(m)..Last(m) : line + n > Last(m)}
  BY Zenon DEF TailLines
<1> HIDE DEF n, S
<1>3. Last(m) \in S /\ S \in SUBSET Nat  BY FitsNumbers, <1>1, <1>2 DEF Settled, Parsing
<1>4. MinOf(S) \in S
  BY <1>3, MinOfIs
<1>5. \A line \in First(m)..Last(m) : line >= MinOf(S) => line \in S
  BY FitsNumbers, <1>1, <1>2, <1>3, <1>4 DEF Settled, Parsing
<1> QED
  BY <1>2, <1>3, <1>4, <1>5 DEF S

LEMMA BackwardIs ==
  ASSUME NEW m, Settled(m), NEW token \in Cursors
  PROVE  LET S == BackwardLines(m, token)
         IN  /\ S \subseteq First(m)..Last(m)
             /\ S # {} => /\ token.epoch = m.epoch
                          /\ MinOf(S) \in First(m)..Last(m) /\ MinOf(S) < token.line
                          /\ \A line \in First(m)..Last(m) :
                                line >= MinOf(S) /\ line < token.line => line \in S
             /\ S = {} => token.epoch # m.epoch \/ token.line <= First(m) \/ token.line > Last(m)
<1> DEFINE S == BackwardLines(m, token)
<1>1. Cap \in Nat /\ Cap >= 1
  <2>1. Cap \in Nat \ {0}
    BY CapAssumption, Zenon
  <2> QED
    BY <2>1
<1>3. CASE token.epoch # m.epoch \/ token.line <= First(m) \/ token.line > Last(m)
  BY <1>3 DEF BackwardLines
<1>4. CASE ~(token.epoch # m.epoch \/ token.line <= First(m) \/ token.line > Last(m))
  <2>1. S = {line \in First(m)..Last(m) : line < token.line /\ line + Cap >= token.line}
    BY <1>4 DEF BackwardLines
  <2> HIDE DEF S
  <2>2. token.line - 1 \in S /\ S \in SUBSET Nat  BY FitsNumbers, <1>1, <1>4, <2>1 DEF Settled, Parsing, Cursors
  <2>4. MinOf(S) \in First(m)..Last(m) /\ MinOf(S) < token.line /\ MinOf(S) + Cap >= token.line
    BY <2>1, <2>2, MinOfIs
  <2>5. \A line \in First(m)..Last(m) : line >= MinOf(S) /\ line < token.line => line \in S
    BY FitsNumbers, <1>1, <2>1, <2>4 DEF Settled, Parsing, Cursors
  <2> QED  BY <1>4, <2>4, <2>5, <2>1, <2>2 DEF S
<1> QED
  BY <1>3, <1>4

LEMMA OlderIs ==
  ASSUME NEW m, Settled(m), NEW S, S \subseteq First(m)..Last(m)
  PROVE  /\ Older(m, S) \in Cursors \cup {NoCursor}
         /\ Older(m, S) # NoCursor =>
               Older(m, S).epoch = m.epoch /\ Older(m, S).line = MinOf(S) /\ S # {}
         /\ (Older(m, S) = NoCursor /\ m.alt = FALSE /\ S # {}) => MinOf(S) <= First(m)
<1>1. CASE m.alt = TRUE \/ S = {} \/ MinOf(S) <= First(m)
  BY <1>1 DEF Older
<1>2. CASE ~(m.alt = TRUE \/ S = {} \/ MinOf(S) <= First(m))
  <2>2. S \in SUBSET Nat /\ S # {}  BY FitsNumbers, <1>2 DEF Settled, Parsing
  <2>3. MinOf(S) \in Nat
    BY <2>2, MinOfIs
  <2>5. Older(m, S) \in Cursors  BY FitsNumbers, <2>3, <1>2 DEF Cursors, Settled, Parsing, Older, Fits, Mirrors
  <2> QED  BY <2>2, <1>2, <2>5, CursorAssumption DEF Older, Settled, Parsing, Fits, Mirrors
<1> QED
  BY <1>1, <1>2


-----------------------------------------------------------------------------
(* What a write and a tick leave of the copy and of the hint.              *)

\* The numbers of a mirror that is in order.
LEMMA SettledNumbers ==
  ASSUME NEW m, Settled(m)
  PROVE  /\ First(m) \in Nat /\ Last(m) \in Nat /\ ViewTop(m) \in Nat /\ m.top \in Nat
         /\ First(m) <= ViewTop(m) /\ ViewTop(m) <= Last(m) /\ m.top <= ViewTop(m)
         /\ m.epoch \in Nat /\ m.epoch >= 1 /\ m.watermark \in Nat
         /\ m.alt \in BOOLEAN /\ m.wrote \in BOOLEAN
         /\ \A line \in DOMAIN m.prints : line <= Last(m)
         /\ \A line \in First(m)..Last(m) : RowAt(m, line) \in Row
<1> QED  BY FitsNumbers DEF Counts, Settled, Parsing, Fits, Mirrors

LEMMA WrittenCopy ==
  ASSUME NEW m, NEW n, Settled(m), Settled(n), Extends(m, n), n.wrote = TRUE,
         NEW c, NEW held, NEW from, CopyOf(m, c, held, from)
  PROVE  CopyOf(n, c, held, from)
<1>1. /\ First(m) \in Nat /\ Last(m) \in Nat /\ ViewTop(m) \in Nat /\ m.top \in Nat
      /\ ViewTop(m) <= Last(m) /\ m.top <= ViewTop(m)
      /\ \A line \in DOMAIN m.prints : line <= Last(m)
  BY SettledNumbers
<1>3. /\ n.watermark = m.watermark /\ n.top = m.top /\ First(n) >= First(m)
      /\ \A line \in First(m)..(ViewTop(m) - 1) : line >= First(n) => RowAt(n, line) = RowAt(m, line)
  BY DEF Extends
<1>4. ASSUME NEW line \in Nat, line >= First(n)
      PROVE  /\ Stamp(n, line) = Stamp(m, line)
             /\ line \in DOMAIN n.prints <=> line \in DOMAIN m.prints
             /\ line \in DOMAIN n.prints => n.prints[line] = m.prints[line]
  BY <1>4 DEF Extends
<1>5. ASSUME NEW line \in Ticked(n), line >= from
      PROVE  Pending(n, c, line) \/ (line \in DOMAIN held /\ held[line] = Noted(n, line))
  <2>1. line \in Nat /\ line >= First(n) /\ (line < m.top \/ line \in DOMAIN n.prints)
    BY SettledNumbers, <1>3 DEF Ticked
  <2>2. line <= Last(m) /\ line >= First(m)
    <3>1. CASE line < m.top  BY <1>1, SettledNumbers, <1>3, <2>1, <3>1
    <3>2. CASE line \in DOMAIN n.prints  BY <1>1, SettledNumbers, <1>3, <1>4, <2>1, <3>2
    <3> QED
      BY <2>1, <3>1, <3>2
  <2>4. Noted(n, line) = Noted(m, line)
    <3>1. CASE line < m.top  BY <1>3, <2>1, <3>1, <1>1, <2>2 DEF Noted
    <3>2. CASE ~(line < m.top)
      BY <1>3, <1>4, <2>1, <3>2 DEF Noted
    <3> QED
      BY <3>1, <3>2
  <2> QED  BY <2>4, <1>5, <1>1, <1>4, <2>1, <2>2 DEF Pending, CopyOf, Ticked
<1> QED  BY <1>5, <1>3 DEF CopyOf

LEMMA WrittenHint ==
  ASSUME NEW m, NEW n, Settled(m), Settled(n), Extends(m, n), n.wrote = TRUE,
         NEW c \in Cursors \cup {NoCursor}, NEW due, Covered(m, c, due)
  PROVE  Covered(n, c, due)
<1>1. /\ First(m) \in Nat /\ Last(m) \in Nat /\ Last(m) >= First(m)
      /\ \A line \in DOMAIN m.prints : line <= Last(m)
  BY SettledNumbers
<1>2. First(n) \in Nat /\ Last(n) \in Nat /\ Last(n) >= First(n)
  BY SettledNumbers
<1>3. /\ n.epoch = m.epoch /\ n.watermark = m.watermark
      /\ Last(n) >= Last(m) /\ (Last(n) = Last(m) => First(n) = First(m))
  BY DEF Extends
<1>5. CASE Last(n) > Last(m)  BY <1>2, <1>1, <1>5 DEF Covered, Extends
<1>6. CASE Last(n) = Last(m)
  <2>2. CASE due = TRUE
    BY <2>2 DEF Covered
  <2>3. CASE Last(m) \notin DOMAIN m.prints  BY <1>2, <1>6, <2>3 DEF Covered, Extends
  <2>4. CASE Complete(m, c)
    <3>2. ASSUME NEW line \in Candidates(n, c)
          PROVE  FALSE
      <4>1. line \in First(n)..Last(n) /\ Pending(n, c, line)
        BY <1>3, <1>6, <2>4, CandidatesAre DEF Complete, Fresh
      <4>3. Pending(m, c, line)  BY <4>1, <1>2 DEF Pending, Extends
      <4> QED  BY <2>4, <1>6, <1>3, <4>1, <4>3, CandidatesAre DEF Complete
    <3> QED  BY <1>3, <1>6, <2>4, <3>2 DEF Covered, Complete, Fresh
  <2> QED
    BY <2>2, <2>3, <2>4 DEF Covered
<1> QED
  BY <1>1, <1>2, <1>3, <1>5, <1>6

LEMMA TickedCopy ==
  ASSUME NEW m, Settled(m), NEW c \in Cursors, NEW held, NEW from, CopyOf(m, c, held, from)
  PROVE  CopyOf(Tick(m), c, held, from)
<1> DEFINE n == Tick(m)
<1>1. /\ Settled(n) /\ n.wrote = FALSE /\ SameRows(m, n) /\ n.watermark >= m.watermark
      /\ m.wrote = FALSE => n = m
      /\ m.wrote = TRUE => Retouched(m, n)
  BY TickIs
<1> HIDE DEF n
<1>4. CASE m.wrote = FALSE
  BY <1>1, <1>4 DEF n
<1>5. CASE m.wrote = TRUE
  <2>2. ASSUME NEW line \in First(n)..Last(n), line >= from
        PROVE  Pending(n, c, line) \/ (line \in DOMAIN held /\ held[line] = RowAt(n, line))
    <3>1. line \in First(m)..Last(m) /\ RowAt(n, line) = RowAt(m, line)
      BY <1>1 DEF SameRows
    <3>2. CASE line \in Dirty(m)
      BY <1>1, SettledNumbers, <1>5, <3>1, <3>2 DEF Pending, Cursors, CopyOf, Retouched
    <3>3. CASE line \notin Dirty(m)
      <4>2. Stamp(n, line) = Stamp(m, line)
        BY <1>1, <1>5, <3>1, <3>3 DEF Retouched
      <4>3. Pending(m, c, line) \/ (line \in DOMAIN held /\ held[line] = Noted(m, line))
        BY <2>2, <3>1, <3>3, DirtyIs DEF CopyOf
      <4> QED  BY <3>1, <3>3, DirtyIs, <4>2, <4>3 DEF Pending
    <3> QED
      BY <3>2, <3>3
  <2>3. ASSUME NEW line \in Ticked(n), line >= from
        PROVE  Pending(n, c, line) \/ (line \in DOMAIN held /\ held[line] = Noted(n, line))
    BY <2>2, <2>3, <1>1 DEF Settled, Ticked
  <2> QED  BY <2>2, <2>3, <1>1, SettledNumbers DEF CopyOf, n, Cursors
<1> QED  BY <1>1, SettledNumbers, <1>4, <1>5 DEF Cursors

LEMMA TickedHint ==
  ASSUME NEW m, Settled(m), NEW c \in Cursors \cup {NoCursor}, NEW due, Covered(m, c, due)
  PROVE  Covered(Tick(m), c, due) \/ Stamps(m) = TRUE
<1> DEFINE n == Tick(m)
<1>1. /\ Settled(n) /\ n.wrote = FALSE /\ SameRows(m, n)
      /\ Stamps(m) = FALSE => n.watermark = m.watermark /\ \A line : Stamp(n, line) = Stamp(m, line)
      /\ (m.wrote = TRUE /\ Last(m) \notin DOMAIN m.prints) => Stamps(m)
  BY TickIs
<1> HIDE DEF n
<1>3. SUFFICES ASSUME Stamps(m) = FALSE
               PROVE  Covered(n, c, due)  BY SettledNumbers DEF n, Stamps
<1>4. CASE due = TRUE
  BY <1>4 DEF Covered
<1>5. CASE Complete(m, c)
  <2>2. Fresh(n, c) = FALSE  BY <1>5, <1>1, <1>3 DEF Complete, Fresh, SameRows
  <2>3. ASSUME NEW line \in Candidates(n, c)
        PROVE  FALSE
    <3>1. line \in First(n)..Last(n) /\ Pending(n, c, line)
      BY <1>1, <2>2, CandidatesAre
    <3>3. line \in Candidates(m, c)  BY <1>5, <1>1, <1>3, <3>1, CandidatesAre DEF Complete, SameRows, Pending
    <3> QED
      BY <1>5, <3>3 DEF Complete
  <2> QED
    BY <2>2, <2>3 DEF Covered, Complete
<1> QED
  BY <1>1, <1>3, <1>4, <1>5 DEF Covered


-----------------------------------------------------------------------------
(* The types, the mirror's with them: whatever the flags are.              *)

\* The copy after a page.
Served(m, lines, same, held) ==
    [line \in {x \in DOMAIN held : same /\ x >= First(m)} \cup lines |->
        IF line \in lines THEN RowAt(m, line) ELSE held[line]]

LEMMA ServedIs ==
  ASSUME NEW m, Settled(m), NEW lines, lines \subseteq First(m)..Last(m), NEW same, NEW held,
         DOMAIN held \subseteq Nat, \A line \in DOMAIN held : held[line] \in Row
  PROVE  /\ DOMAIN Served(m, lines, same, held) \subseteq Nat
         /\ \A line \in DOMAIN Served(m, lines, same, held) : Served(m, lines, same, held)[line] \in Row
<1> DEFINE D == {x \in DOMAIN held : same /\ x >= First(m)} \cup lines
           s == Served(m, lines, same, held)
<1>2. DOMAIN s = D /\ \A line \in D : s[line] = IF line \in lines THEN RowAt(m, line) ELSE held[line]
  BY DEF Served
<1>3. D \subseteq Nat
  <2>1. First(m)..Last(m) \subseteq Nat  BY SettledNumbers
  <2> QED
    BY <2>1
<1> HIDE DEF s
<1>4. \A line \in D : s[line] \in Row
  <2> TAKE line \in D
  <2>1. CASE line \in lines  BY SettledNumbers, <1>2, <2>1
  <2>2. CASE line \notin lines
    BY <1>2, <2>2
  <2> QED
    BY <2>1, <2>2
<1> QED
  BY <1>2, <1>3, <1>4 DEF s

LEMMA RowsInitIs == RowsInit => RowsInv
<1> SUFFICES ASSUME RowsInit PROVE RowsInv
  OBVIOUS
<1>1. Settled(mirror)
  <2>1. 1 \in Nat \ {0}
    OBVIOUS
  <2> QED
    BY <2>1, NewMirrorIs DEF RowsInit
<1>2. RestOfTypeOK
  <2>1. DOMAIN copy = {}
    BY NoLinesIs DEF RowsInit
  <2>2. 0 \in 0..MaxOutput
    BY BoundAssumption
  <2>3. /\ run = 1 /\ subscribed = FALSE /\ hint = FALSE /\ owed = FALSE /\ seen = 0 /\ since = 0
        /\ cursor = NoCursor /\ before = NoCursor /\ outputs = 0
    BY DEF RowsInit
  <2>4. seen \in 0..run /\ run \in Nat /\ since \in Nat
    BY <2>3
  <2>5. hint \in BOOLEAN /\ subscribed \in BOOLEAN /\ owed \in BOOLEAN /\ (hint => subscribed)
    BY <2>3
  <2> QED
    BY <2>1, <2>2, <2>3, <2>4, <2>5 DEF RestOfTypeOK
<1> QED
  BY <1>1, <1>2 DEF RowsInv, CopyInv, RowsTypeInv, RowsInit, EpochFollows, CopyFollows, Same, HintFollows,
     TokenFollows

LEMMA RowsTypeStep == RowsTypeInv /\ [RowsNext]_rowsVars => RowsTypeInv'
<1> SUFFICES ASSUME RowsTypeInv, [RowsNext]_rowsVars
             PROVE  RowsTypeInv'
  OBVIOUS
<1>0. RestOfTypeOK /\ Settled(mirror)
  BY DEF RowsTypeInv
<1>s. ASSUME Spend
      PROVE  outputs' \in 0..MaxOutput
  BY <1>0, <1>s, BoundAssumption DEF Spend, RestOfTypeOK
<1>t. Settled(Tick(mirror))
  BY <1>0, TickIs
<1>c. ASSUME NEW lines, lines \subseteq First(Tick(mirror))..Last(Tick(mirror)), NEW same,
             copy' = Served(Tick(mirror), lines, same, copy)
      PROVE  DOMAIN copy' \subseteq Nat /\ \A line \in DOMAIN copy' : copy'[line] \in Row
  <2>1. DOMAIN copy \subseteq Nat /\ \A line \in DOMAIN copy : copy[line] \in Row
    BY <1>0 DEF RestOfTypeOK
  <2> QED
    BY <1>t, <1>c, <2>1, ServedIs, Zenon
<1>1. CASE Output  BY <1>0, <1>1, WriteIs, <1>s DEF RowsTypeInv, Output, RestOfTypeOK, heldVars, Trigger
<1>2. CASE ResizeTerminal
  <2>1. PICK height \in Heights : mirror' = ResizeMirror(mirror, height) /\ Trigger(mirror')
    BY <1>2 DEF ResizeTerminal
  <2> QED  BY <1>0, <2>1, ResizeIs, <1>2, <1>s DEF RowsTypeInv, ResizeTerminal, RestOfTypeOK, heldVars, Trigger
<1>3. CASE Rebound
  <2>1. PICK epoch \in 1..2, text \in Texts :
           mirror' = WriteDone(Scroll(SetEpochFloor(NewMirror(epoch), mirror.epoch), text))
    BY <1>3 DEF Rebound
  <2>3. Settled(mirror')  BY <2>1, <1>0, SettledNumbers, ReplacementIs
  <2> QED  BY <2>3, <1>0, <1>3, <1>s DEF RowsTypeInv, Rebound, RestOfTypeOK, heldVars
<1>4. CASE Rerun
  <2>1. PICK text \in Texts : mirror' = WriteDone(Scroll(NewMirror(1), text))
    BY <1>4 DEF Rerun
  <2>3. run' \in Nat /\ seen' \in 0..run' /\ UNCHANGED heldVars
    BY <1>0, <1>4 DEF Rerun, RestOfTypeOK, heldVars
  <2>5. RestOfTypeOK'  BY <1>0, <2>3, <1>4, <1>s DEF RestOfTypeOK, heldVars, Rerun
  <2> QED  BY <2>1, FirstRunIs, <2>5 DEF RowsTypeInv
<1>5. CASE SubscribeRows
  BY <1>0, <1>5 DEF SubscribeRows, RowsTypeInv, RestOfTypeOK, hostVars
<1>6. CASE UnsubscribeRows
  BY <1>0, <1>6 DEF UnsubscribeRows, RowsTypeInv, RestOfTypeOK, hostVars, heldVars
<1>7. CASE Interval
  BY <1>t, <1>7, <1>0, SettledNumbers DEF RowsTypeInv, Interval, RestOfTypeOK, heldVars, Stamps
<1>8. CASE HintFires
  BY <1>0, <1>8 DEF HintFires, RowsTypeInv, RestOfTypeOK, hostVars
<1>9. CASE PullForward
  <2> DEFINE m == Tick(mirror)
             lines == ForwardLines(m, cursor)
             same == cursor # NoCursor /\ cursor.epoch = m.epoch
  <2>3. cursor' \in Cursors \cup {NoCursor}
    <3>1. CASE lines = {}
      BY <1>0, <1>9, <3>1 DEF PullForward, ResumeAfter, RestOfTypeOK
    <3>2. CASE lines # {}
      BY <1>0, <1>t, <1>9, <3>2, ResumeIs DEF PullForward, RestOfTypeOK
    <3> QED
      BY <3>1, <3>2
  <2>7. seen' = run /\ run' = run /\ subscribed' = subscribed /\ hint' = hint /\ outputs' = outputs
    BY <1>9 DEF PullForward, Serve
  <2>8. DOMAIN copy' \subseteq Nat /\ \A line \in DOMAIN copy' : copy'[line] \in Row
    BY <1>c, <1>t, PageIs, CandidatesAre, <1>9 DEF PullForward, Serve, Served
  <2>9. RestOfTypeOK'  BY <1>0, <2>3, <1>9, <1>t, SettledNumbers, <2>7, <2>8 DEF RestOfTypeOK, PullForward
  <2> QED  BY <1>t, <1>9, <2>9 DEF RowsTypeInv, PullForward, Serve, Served
<1>10. CASE PullTail
  <2> DEFINE m == Tick(mirror)
             lines == TailLines(m)
  <2>3. cursor' \in Cursors \cup {NoCursor}
    BY <1>t, <1>10, FromNowIs DEF PullTail
  <2>5. before' \in Cursors \cup {NoCursor}  BY <1>t, <1>10, TailIs, SettledNumbers, OlderIs DEF PullTail
  <2>6. seen' = run /\ run' = run /\ subscribed' = subscribed /\ hint' = hint /\ outputs' = outputs
        /\ owed' = owed
    BY <1>10 DEF PullTail, Serve
  <2>7. DOMAIN copy' \subseteq Nat /\ \A line \in DOMAIN copy' : copy'[line] \in Row
    BY <1>c, <1>t, TailIs, SettledNumbers, <1>10 DEF PullTail, Serve, Served
  <2>8. RestOfTypeOK'
    BY <1>0, <2>3, <1>10, <1>t, TailIs, SettledNumbers, <2>5, <2>6, <2>7 DEF RestOfTypeOK, PullTail
  <2> QED  BY <1>t, <1>10, <2>8 DEF RowsTypeInv, PullTail, Serve, Served
<1>11. CASE PullBackward
  <2> DEFINE m == Tick(mirror)
             lines == BackwardLines(m, before)
  <2>1. lines \subseteq First(m)..Last(m) /\ (lines # {} => MinOf(lines) \in First(m)..Last(m))
    BY <1>t, <1>0, <1>11, BackwardIs DEF PullBackward, RestOfTypeOK
  <2>3. since' \in Nat
    <3>1. CASE lines = {}
      BY <1>0, <1>11, <3>1 DEF PullBackward, RestOfTypeOK
    <3>2. CASE lines # {}  BY <1>11, <3>2, <1>t, <2>1, SettledNumbers DEF PullBackward
    <3> QED
      BY <3>1, <3>2
  <2>5. /\ DOMAIN copy' \subseteq Nat
        /\ \A line \in DOMAIN copy' : copy'[line] \in Row
        /\ seen' \in 0..run
    <3>1. CASE m.epoch = cursor.epoch
      <4>2. run \in 0..run
        BY <1>0 DEF RestOfTypeOK
      <4> QED  BY <1>c, <2>1, <1>11, <3>1, <4>2 DEF PullBackward, Serve, Served
    <3>2. CASE m.epoch # cursor.epoch
      BY <1>0, <1>11, <3>2 DEF PullBackward, RestOfTypeOK
    <3> QED
      BY <3>1, <3>2
  <2> QED  BY <1>t, <1>11, <1>0, <2>3, <2>1, OlderIs, <2>5 DEF RowsTypeInv, PullBackward, Serve, RestOfTypeOK
<1>12. CASE Forget
  <2>2. 0 \in 0..run
    BY <1>0 DEF RestOfTypeOK
  <2> QED  BY <1>0, <1>12, NoLinesIs, <2>2 DEF Forget, RowsTypeInv, hostVars, RestOfTypeOK
<1>13. CASE UNCHANGED rowsVars
  BY <1>0, <1>13 DEF RowsTypeInv, RestOfTypeOK, rowsVars, hostVars, heldVars
<1> QED
  BY <1>1, <1>2, <1>3, <1>4, <1>5, <1>6, <1>7, <1>8, <1>9, <1>10, <1>11, <1>12, <1>13 DEF RowsNext

\* The types that TLC checks are part of it.
LEMMA RowsTypesAre == RowsTypeInv => RowsTypeOK
<1> SUFFICES ASSUME RowsTypeInv PROVE RowsTypeOK
  OBVIOUS
<1>1. Fits(mirror) /\ Counts(mirror) /\ mirror \in Mirrors /\ mirror.resetting = FALSE
  BY DEF Settled, Parsing, Fits, RowsTypeInv
<1>5. \A line \in DOMAIN mirror.stamps :
          /\ mirror.stamps[line] \in 1..mirror.watermark
          /\ line < mirror.trimmed + Len(mirror.buf)
  <2> TAKE line \in DOMAIN mirror.stamps
  <2>2. line \in Nat /\ mirror.stamps[line] \in Nat  BY <1>1, LineMapOf DEF Mirrors
  <2> QED  BY <1>1, FitsNumbers, <2>2 DEF Counts
<1> QED
  BY <1>1, <1>5, FitsNumbers DEF RowsTypeOK, RestOfTypeOK, RowsTypeInv, MirrorTypeOK, Mirrors, Fits, Capacity

(* Whatever the emulator is fed, however the terminal is resized, rebound or
   restarted and whatever is pulled in between: the buffer is as long as a
   terminal of its height can be, no write leaves the reset barrier up, and
   no stamp is of the future or of a row that is not there.                *)
THEOREM RowsTypeCorrect == RowsSpec => []RowsTypeOK
<1>1. RowsInit => RowsTypeInv
  BY RowsInitIs DEF RowsInv, CopyInv
<1>2. RowsTypeInv /\ [RowsNext]_rowsVars => RowsTypeInv'
  BY RowsTypeStep
<1>3. RowsTypeInv => RowsTypeOK
  BY RowsTypesAre
<1> QED
  BY <1>1, <1>2, <1>3, PTL DEF RowsSpec

(* As long as the epoch and the mirror last, a row that has left the viewport
   keeps its number and its text: no write, no trim and no tick renumbers or
   rewrites what a phone may already have (pty-mirror.ts: onScroll, tick). *)
THEOREM LinesKeepTheirNumbers == RowsSpec => LineIdentity
<1> DEFINE Step == mirror'.epoch = mirror.epoch /\ run' = run =>
                      \A line \in First(mirror)..(ViewTop(mirror) - 1) :
                         line >= First(mirror') => RowAt(mirror', line) = RowAt(mirror, line)
<1>1. ASSUME RowsTypeInv, [RowsNext]_rowsVars
      PROVE  Step
  <2>0. Settled(mirror) /\ run \in Nat /\ mirror.epoch \in Nat
    BY <1>1, SettledNumbers DEF RowsTypeInv, RestOfTypeOK
  <2>1. CASE Output
    BY <2>0, <2>1, WriteIs DEF Output, Extends
  <2>2. CASE ResizeTerminal
    BY <2>0, <2>2, ResizeIs DEF ResizeTerminal
  <2>3. CASE Rebound \/ Rerun
    BY <2>0, <2>3 DEF Rebound, Rerun
  <2>4. CASE mirror' = mirror
    BY <2>4
  <2>5. CASE mirror' = Tick(mirror)
    BY <2>0, <2>5, TickIs DEF SameRows
  <2> QED
    BY <1>1, <2>1, <2>2, <2>3, <2>4, <2>5
       DEF RowsNext, SubscribeRows, UnsubscribeRows, Interval, HintFires, PullForward, PullTail,
           PullBackward, Forget, Serve, rowsVars, hostVars
<1>2. RowsInit => RowsTypeInv
  BY RowsInitIs DEF RowsInv, CopyInv
<1>3. RowsTypeInv /\ [RowsNext]_rowsVars => RowsTypeInv'
  BY RowsTypeStep
<1>4. RowsTypeInv /\ [RowsNext]_rowsVars => [Step]_rowsVars
  BY <1>1
<1> QED
  BY <1>2, <1>3, <1>4, PTL DEF RowsSpec, LineIdentity


-----------------------------------------------------------------------------
(* What the phone holds, action by action.                                 *)

\* A new epoch: the phone's cursor is of none that the mirror has.
LEMMA NewEpoch ==
  ASSUME CopyInv, RowsTypeInv', UNCHANGED heldVars, mirror'.epoch > mirror.epoch,
         subscribed' = TRUE => hint' = TRUE
  PROVE  CopyInv' /\ (HintFollows => HintFollows')
<1>4. cursor # NoCursor => cursor.epoch # mirror'.epoch /\ cursor.epoch <= mirror'.epoch
  BY SettledNumbers DEF Cursors, CopyInv, RowsTypeInv, RestOfTypeOK, EpochFollows
<1> QED
  BY SettledNumbers, <1>4 DEF CopyInv, HintFollows, Covered, EpochFollows, CopyFollows, TokenFollows, Same,
     heldVars, RowsTypeInv, RestOfTypeOK

LEMMA OutputStep ==
  ASSUME CopyInv, RowsTypeInv', Output
  PROVE  CopyInv' /\ (HintFollows => HintFollows')
<1>0. /\ Settled(mirror) /\ EpochFollows /\ CopyFollows /\ TokenFollows
      /\ cursor \in Cursors \cup {NoCursor} /\ hint \in BOOLEAN /\ subscribed \in BOOLEAN
      /\ owed \in BOOLEAN /\ since \in Nat
  BY DEF CopyInv, RowsTypeInv, RestOfTypeOK
<1>1. /\ Settled(mirror') /\ mirror'.wrote = TRUE /\ mirror'.epoch >= mirror.epoch
      /\ mirror'.epoch = mirror.epoch => Extends(mirror, mirror')
  BY <1>0, WriteIs DEF Output
<1>3. hint' = (hint \/ (subscribed /\ mirror'.epoch # mirror.epoch)) /\ UNCHANGED <<run, subscribed, heldVars>>
  BY DEF Output, Trigger
<1>4. CASE mirror'.epoch > mirror.epoch
  <2>1. (mirror'.epoch # mirror.epoch) = TRUE  BY <1>0, <1>1, SettledNumbers, <1>4
  <2>2. subscribed' = TRUE => hint' = TRUE
    BY <1>0, <1>3, <2>1, Zenon
  <2> QED
    BY <1>3, <1>4, <2>2, NewEpoch
<1>5. CASE mirror'.epoch = mirror.epoch
  <2>1. Extends(mirror, mirror')
    BY <1>1, <1>5
  <2>2. /\ cursor' = cursor /\ before' = before /\ copy' = copy /\ since' = since /\ seen' = seen
        /\ owed' = owed /\ run' = run /\ subscribed' = subscribed
    BY <1>3 DEF heldVars
  <2>5. CopyFollows'
    <3>1. SUFFICES ASSUME Same
                   PROVE  seen = run /\ CopyOf(mirror', cursor, copy, since)
      BY <1>5, <2>2 DEF CopyFollows, Same
    <3>2. seen = run /\ CopyOf(mirror, cursor, copy, since)
      BY <1>0, <3>1 DEF CopyFollows
    <3> QED
      BY <1>0, <1>1, <2>1, <3>2, WrittenCopy
  <2>6. TokenFollows'
    <3>1. First(mirror') >= First(mirror) /\ Last(mirror') >= Last(mirror) /\ mirror'.alt = mirror.alt
      BY <2>1 DEF Extends
    <3>3. Same' <=> Same
      BY <1>5, <2>2 DEF Same
    <3>4. since <= Last(mirror) => since <= Last(mirror')  BY <1>0, <3>1, <1>1, SettledNumbers
    <3>5. since <= First(mirror) => since <= First(mirror')  BY <1>0, <3>1, <1>1, SettledNumbers
    <3> QED
      BY <1>0, <2>2, <3>1, <3>3, <3>4, <3>5 DEF TokenFollows
  <2>7. HintFollows => HintFollows'
    <3>1. SUFFICES ASSUME HintFollows, subscribed = TRUE
                   PROVE  Covered(mirror', cursor, owed \/ hint)  BY <2>2, <1>0, <1>3, <1>5 DEF HintFollows
    <3>2. Covered(mirror, cursor, owed \/ hint)
      BY <3>1 DEF HintFollows
    <3> QED
      BY <1>0, <1>1, <2>1, <3>2, WrittenHint
  <2> QED  BY <1>0, <1>5, <2>2, <2>5, <2>6, <2>7 DEF CopyInv, EpochFollows
<1> QED  BY <1>1, <1>0, SettledNumbers, <1>4, <1>5

LEMMA ResizeStep ==
  ASSUME CopyInv, RowsTypeInv', ResizeTerminal
  PROVE  CopyInv' /\ (HintFollows => HintFollows')
<1>0. Settled(mirror) /\ mirror.epoch \in Nat /\ subscribed \in BOOLEAN /\ hint \in BOOLEAN
  BY SettledNumbers DEF CopyInv, RowsTypeInv, RestOfTypeOK
<1>1. PICK height \in Heights : mirror' = ResizeMirror(mirror, height) /\ Trigger(mirror')
  BY DEF ResizeTerminal
<1>3. subscribed' = subscribed /\ UNCHANGED heldVars
  BY DEF ResizeTerminal
<1>4. subscribed' = TRUE => hint' = TRUE
  <2>1. (mirror'.epoch # mirror.epoch) = TRUE  BY <1>0, <1>1, ResizeIs
  <2>2. hint' = (hint \/ (subscribed /\ mirror'.epoch # mirror.epoch))
    BY <1>1 DEF Trigger
  <2> QED
    BY <1>0, <1>3, <2>1, <2>2, Zenon
<1>5. mirror'.epoch > mirror.epoch  BY <1>0, <1>1, ResizeIs
<1> QED
  BY <1>3, <1>4, <1>5, NewEpoch

LEMMA ReboundStep ==
  ASSUME CopyInv, RowsTypeInv', Rebound
  PROVE  CopyInv' /\ (HintFollows => HintFollows')
<1>0. Settled(mirror) /\ mirror.epoch \in Nat /\ subscribed \in BOOLEAN /\ hint \in BOOLEAN
  BY SettledNumbers DEF CopyInv, RowsTypeInv, RestOfTypeOK
<1>1. PICK epoch \in 1..2, text \in Texts :
         mirror' = WriteDone(Scroll(SetEpochFloor(NewMirror(epoch), mirror.epoch), text))
  BY DEF Rebound
<1>2. mirror'.epoch > mirror.epoch
  <2>1. epoch \in Nat \ {0}
    OBVIOUS
  <2> QED
    BY <1>0, <1>1, <2>1, ReplacementIs, Zenon
<1> QED  BY <1>2, NewEpoch DEF Rebound

\* A restart that the phone has no cursor across.
LEMMA RerunStep ==
  ASSUME Reruns = FALSE, CopyInv, RowsTypeInv', Rerun
  PROVE  CopyInv' /\ (HintFollows => HintFollows')
<1> QED  BY DEF CopyInv, EpochFollows, CopyFollows, TokenFollows, HintFollows, Same, Rerun, heldVars

LEMMA SubscriptionStep ==
  ASSUME CopyInv, RowsTypeInv', SubscribeRows \/ UnsubscribeRows \/ HintFires \/ UNCHANGED rowsVars
  PROVE  CopyInv' /\ (HintFollows => HintFollows')
<1>3. HintFollows => HintFollows'
  <2>1. CASE UnsubscribeRows
    BY <2>1 DEF UnsubscribeRows, HintFollows
  <2>2. CASE SubscribeRows \/ HintFires  BY <2>2 DEF HintFollows, Covered, SubscribeRows, HintFires
  <2>3. CASE UNCHANGED rowsVars
    BY <2>3 DEF HintFollows, rowsVars, heldVars, SubscribeRows, UnsubscribeRows, HintFires, hostVars
  <2> QED
    BY <2>1, <2>2, <2>3
<1> QED
  BY <1>3 DEF CopyInv, EpochFollows, CopyFollows, TokenFollows, Same, SubscribeRows, UnsubscribeRows, HintFires,
     rowsVars, hostVars, heldVars

LEMMA IntervalStep ==
  ASSUME CopyInv, RowsTypeInv', Interval
  PROVE  CopyInv' /\ (HintFollows => HintFollows')
<1> DEFINE m == Tick(mirror)
<1>0. /\ Settled(mirror) /\ EpochFollows /\ CopyFollows /\ TokenFollows
      /\ cursor \in Cursors \cup {NoCursor} /\ hint \in BOOLEAN /\ owed \in BOOLEAN
  BY DEF CopyInv, RowsTypeInv, RestOfTypeOK
<1>1. /\ mirror' = m /\ hint' = (hint \/ Stamps(mirror)) /\ run' = run /\ subscribed' = subscribed
      /\ cursor' = cursor /\ before' = before /\ copy' = copy /\ since' = since /\ seen' = seen
      /\ owed' = owed
  BY DEF Interval, heldVars
<1>3. /\ m.epoch = mirror.epoch /\ m.alt = mirror.alt /\ First(m) = First(mirror)
      /\ Last(m) = Last(mirror)  BY <1>0, TickIs DEF SameRows
<1>5. CopyFollows'
  <2>1. SUFFICES ASSUME Same
                 PROVE  seen = run /\ CopyOf(m, cursor, copy, since)
    BY <1>1, <1>3 DEF CopyFollows, Same
  <2> QED  BY <1>0, <2>1, TickedCopy DEF CopyFollows, Same
<1>6. TokenFollows'
  BY <1>0, <1>1, <1>3 DEF TokenFollows, Same
<1>7. HintFollows => HintFollows'
  <2>1. SUFFICES ASSUME HintFollows, subscribed = TRUE
                 PROVE  Covered(m, cursor, owed \/ hint \/ Stamps(mirror))
    BY <1>1 DEF HintFollows
  <2>4. CASE Stamps(mirror) = TRUE
    BY <2>4 DEF Covered
  <2>5. CASE Covered(m, cursor, owed \/ hint)
    BY <2>5 DEF Covered
  <2> QED  BY <1>0, <2>1, TickedHint, <2>4, <2>5 DEF HintFollows
<1> QED  BY <1>0, <1>1, <1>3, <1>5, <1>6, <1>7 DEF CopyInv, EpochFollows

LEMMA ForgetStep ==
  ASSUME CopyInv, RowsTypeInv', Forget
  PROVE  CopyInv' /\ (HintFollows => HintFollows')
<1> QED
  BY DEF CopyInv, EpochFollows, CopyFollows, TokenFollows, HintFollows, Same, Forget, RowsTypeInv, RestOfTypeOK


-----------------------------------------------------------------------------
(* The pulls.                                                              *)

\* The copy that a page leaves shows a row of the page, and a row it had.
LEMMA ServedShows ==
  ASSUME NEW m, NEW lines, NEW same, NEW held, NEW line \in Nat, line >= First(m),
         \/ line \in lines
         \/ same = TRUE /\ line \in DOMAIN held /\ held[line] = RowAt(m, line)
  PROVE  LET copied == Served(m, lines, same, held)
         IN  line \in DOMAIN copied /\ copied[line] = RowAt(m, line)
  BY DEF Served

\* Once the mirror has ticked, the rows show as they are.
LEMMA QuietCopy ==
  ASSUME NEW m, Settled(m), m.wrote = FALSE, NEW c, NEW held, NEW from, c.watermark <= m.watermark,
         \A line \in First(m)..Last(m) : line >= from =>
            Pending(m, c, line) \/ (line \in DOMAIN held /\ held[line] = RowAt(m, line))
  PROVE  CopyOf(m, c, held, from)
<1>1. ASSUME NEW line \in Ticked(m), line >= from
      PROVE  Pending(m, c, line) \/ (line \in DOMAIN held /\ held[line] = Noted(m, line))
  BY <1>1 DEF Settled, Ticked
<1> QED
  BY <1>1 DEF CopyOf

LEMMA PullForwardStep ==
  ASSUME CopyInv, RowsTypeInv', PullForward
  PROVE  CopyInv' /\ (HintFollows => HintFollows')
<1> DEFINE m == Tick(mirror)
           lines == ForwardLines(m, cursor)
           same == cursor # NoCursor /\ cursor.epoch = m.epoch
<1>0. /\ Settled(mirror) /\ EpochFollows /\ CopyFollows /\ TokenFollows
      /\ cursor \in Cursors \cup {NoCursor} /\ since \in Nat
  BY DEF CopyInv, RowsTypeInv, RestOfTypeOK
<1>1. /\ mirror' = m /\ run' = run /\ seen' = run /\ subscribed' = subscribed /\ hint' = hint
      /\ copy' = Served(m, lines, same, copy)
      /\ cursor' = ResumeAfter(m, cursor, lines)
      /\ since' = IF same THEN since ELSE First(m)
      /\ before' = IF same THEN before ELSE NoCursor
      /\ owed' = (lines # Candidates(m, cursor))
  BY DEF PullForward, Serve, Served
<1>2. /\ Settled(m) /\ m.wrote = FALSE /\ SameRows(mirror, m)
  BY <1>0, TickIs
<1>3. m.epoch = mirror.epoch /\ m.alt = mirror.alt /\ First(m) = First(mirror) /\ Last(m) = Last(mirror)
  BY <1>2 DEF SameRows
<1>4. First(m) \in Nat /\ Last(m) \in Nat /\ m.epoch \in Nat /\ m.watermark \in Nat
  BY <1>2, SettledNumbers
<1>7. /\ cursor' \in Cursors /\ cursor'.epoch = m.epoch /\ cursor'.watermark <= m.watermark
      /\ cursor' # NoCursor
      /\ Fresh(m, cursor') = FALSE
      /\ lines = {} => cursor' = cursor /\ Same /\ Candidates(m, cursor) = {}
      /\ \A x \in Candidates(m, cursor) \ lines : Pending(m, cursor', x)
      /\ owed' = FALSE => Candidates(m, cursor') = {}
  <2>1. CASE lines = {}
    <3>1. Candidates(m, cursor) = {} /\ Fresh(m, cursor) = FALSE /\ cursor' = cursor
      BY <1>1, <1>2, PageIs, CandidatesAre, <2>1 DEF ResumeAfter, Fresh
    <3>2. cursor # NoCursor /\ cursor.epoch = m.epoch /\ ~(cursor.watermark > m.watermark)
      BY <3>1 DEF Fresh
    <3>3. cursor \in Cursors /\ cursor.watermark \in Nat
      BY <1>0, <3>2 DEF Cursors
    <3>4. cursor.watermark <= m.watermark
      BY <1>4, <3>2, <3>3
    <3> QED
      BY <1>3, <3>1, <3>2, <3>3, <3>4 DEF Same
  <2>2. CASE lines # {}
    <3>2. owed' = FALSE => lines = Candidates(m, cursor)
      BY <1>1
    <3> QED  BY <2>2, <1>0, <1>1, <1>2, ResumeIs, <3>2, CursorAssumption
  <2> QED
    BY <2>1, <2>2
<1> HIDE DEF m, lines
<1>9. CopyFollows'
  <2>1. SUFFICES CopyOf(m, cursor', copy', since')
    BY <1>1 DEF CopyFollows
  <2>2. ASSUME NEW line \in First(m)..Last(m), line >= since'
        PROVE  Pending(m, cursor', line) \/ (line \in DOMAIN copy' /\ copy'[line] = RowAt(m, line))
    <3>0. line \in Nat /\ line >= First(m)
      BY <1>4
    <3>1. CASE line \in lines
      BY <1>1, <3>0, <3>1, ServedShows, Zenon
    <3>2. CASE line \in Candidates(m, cursor) \ lines
      BY <1>7, <3>2
    <3>3. CASE line \notin Candidates(m, cursor)
      <4>2. same = TRUE /\ cursor \in Cursors  BY <1>0, <1>2, PageIs, CandidatesAre, <3>3 DEF Fresh
      <4>6. ~Pending(m, cursor, line)  BY <1>2, <3>3, PageIs, CandidatesAre DEF Fresh
      <4>7. line \in DOMAIN copy /\ copy[line] = RowAt(m, line)
        BY <1>2, <1>0, <4>2, <1>3, TickedCopy, <1>1, <2>2, <4>6 DEF CopyOf, m, CopyFollows, Same
      <4> QED
        BY <1>1, <3>0, <4>2, <4>7, ServedShows, Zenon
    <3> QED
      BY <3>1, <3>2, <3>3
  <2> QED
    BY <1>2, <1>7, <2>2, QuietCopy
<1>10. TokenFollows'
  <2>1. CASE same  BY <1>0, <1>1, <1>3, <1>7, <2>1 DEF TokenFollows, Same
  <2>2. CASE ~same  BY <1>1, <1>4, <2>2 DEF TokenFollows, Same
  <2> QED
    BY <2>1, <2>2
<1>11. HintFollows'
  <2>1. CASE owed' = FALSE
    BY <1>1, <1>7, <2>1 DEF HintFollows, Covered, Complete
  <2>2. CASE owed' = TRUE
    BY <2>2 DEF HintFollows, Covered
  <2> QED
    BY <1>1, <2>1, <2>2
<1> QED  BY <1>1, <1>4, <1>7, <1>9, <1>10, <1>11 DEF CopyInv, EpochFollows

LEMMA PullTailStep ==
  ASSUME CopyInv, RowsTypeInv', PullTail
  PROVE  CopyInv' /\ (HintFollows => HintFollows')
<1> DEFINE m == Tick(mirror)
           lines == TailLines(m)
<1>1. /\ mirror' = m /\ run' = run /\ seen' = run
      /\ copy' = Served(m, lines, FALSE, copy)
      /\ cursor' = FromNow(m) /\ since' = MinOf(lines) /\ before' = Older(m, lines)
  BY DEF PullTail, Serve, Served
<1>2. Settled(m) /\ m.wrote = FALSE  BY TickIs DEF CopyInv, RowsTypeInv
<1>3. First(m) \in Nat /\ Last(m) \in Nat /\ m.epoch \in Nat /\ m.watermark \in Nat /\ m.alt \in BOOLEAN
  BY <1>2, SettledNumbers
<1>4. /\ cursor' \in Cursors /\ cursor'.epoch = m.epoch /\ cursor'.watermark = m.watermark
      /\ Complete(m, cursor')
  BY <1>1, <1>2, FromNowIs DEF Complete
<1>5. cursor' # NoCursor
  BY <1>4, CursorAssumption
<1>6. /\ lines \subseteq First(m)..Last(m) /\ lines # {} /\ MinOf(lines) \in First(m)..Last(m)
      /\ \A line \in First(m)..Last(m) : line >= MinOf(lines) => line \in lines
  BY <1>2, TailIs
<1> HIDE DEF m, lines
<1>8. CopyFollows'
  <2>1. SUFFICES CopyOf(m, cursor', copy', since')
    BY <1>1 DEF CopyFollows
  <2>2. ASSUME NEW line \in First(m)..Last(m), line >= since'
        PROVE  line \in DOMAIN copy' /\ copy'[line] = RowAt(m, line)
    <3>1. line \in lines /\ line \in Nat /\ line >= First(m)
      BY <1>1, <1>3, <1>6, <2>2
    <3> QED
      BY <1>1, <3>1, ServedShows, Zenon
  <2>3. cursor'.watermark <= m.watermark
    BY <1>3, <1>4
  <2> QED
    BY <1>2, <2>2, <2>3, QuietCopy
<1>9. TokenFollows'
  <2>1. /\ before' # NoCursor => before'.epoch = m.epoch /\ before'.line = MinOf(lines)
        /\ before' = NoCursor /\ m.alt = FALSE => MinOf(lines) <= First(m)
    BY <1>1, <1>2, <1>6, OlderIs
  <2>2. since' <= Last(m)
    BY <1>1, <1>3, <1>6
  <2> QED
    BY <1>1, <1>4, <1>5, <2>1, <2>2 DEF TokenFollows, Same
<1>10. HintFollows'
  BY <1>1, <1>4 DEF HintFollows, Covered
<1> QED  BY <1>1, <1>3, <1>4, <1>8, <1>9, <1>10 DEF CopyInv, EpochFollows

\* The user scrolls up; for the hint, while no output waits for its tick.
LEMMA PullBackwardStep ==
  ASSUME CopyInv, RowsTypeInv', PullBackward
  PROVE  CopyInv' /\ (ScrollBusy = FALSE /\ HintFollows => HintFollows')
<1> DEFINE m == Tick(mirror)
           lines == BackwardLines(m, before)
<1>0. /\ Settled(mirror) /\ EpochFollows /\ CopyFollows /\ TokenFollows
      /\ cursor \in Cursors \cup {NoCursor} /\ before \in Cursors \cup {NoCursor} /\ since \in Nat
      /\ subscribed \in BOOLEAN
  BY DEF CopyInv, RowsTypeInv, RestOfTypeOK
<1>1. /\ mirror' = m /\ run' = run /\ subscribed' = subscribed /\ hint' = hint
      /\ cursor' = cursor /\ owed' = owed
      /\ since' = IF lines = {} THEN since ELSE MinOf(lines)
      /\ before' = Older(m, lines)
      /\ before # NoCursor
      /\ ScrollBusy = FALSE => ~subscribed \/ ~mirror.wrote
  BY DEF PullBackward, Serve
<1>2. Settled(m) /\ m.wrote = FALSE /\ SameRows(mirror, m) /\ (mirror.wrote = FALSE => m = mirror)
  BY <1>0, TickIs
<1>4. First(m) \in Nat /\ Last(m) \in Nat /\ m.watermark \in Nat /\ m.alt \in BOOLEAN
      /\ mirror.wrote \in BOOLEAN
  BY <1>0, <1>2, SettledNumbers
<1>5. cursor # NoCursor /\ before.epoch = cursor.epoch /\ cursor \in Cursors /\ before \in Cursors
  BY <1>0, <1>1 DEF TokenFollows
<1>6. /\ lines \subseteq First(m)..Last(m)
      /\ lines # {} => /\ before.epoch = m.epoch
                       /\ MinOf(lines) \in First(m)..Last(m) /\ MinOf(lines) < before.line
                       /\ \A line \in First(m)..Last(m) :
                             line >= MinOf(lines) /\ line < before.line => line \in lines
      /\ lines = {} => before.epoch # m.epoch \/ before.line <= First(m) \/ before.line > Last(m)
  BY <1>2, <1>5, BackwardIs
<1>7. /\ before' # NoCursor => before'.epoch = m.epoch /\ before'.line = MinOf(lines) /\ lines # {}
      /\ before' = NoCursor /\ m.alt = FALSE /\ lines # {} => MinOf(lines) <= First(m)
  BY <1>1, <1>2, <1>6, OlderIs
<1>8. EpochFollows'  BY <1>0, <1>1, <1>2 DEF EpochFollows, SameRows
<1>9. ASSUME ScrollBusy = FALSE, HintFollows
      PROVE  HintFollows'
  <2>1. CASE subscribed = FALSE
    BY <1>1, <2>1 DEF HintFollows
  <2>2. CASE subscribed = TRUE  BY <1>1, <1>9, <1>2, <1>4, <2>2 DEF HintFollows
  <2> QED
    BY <1>0, <2>1, <2>2
<1>10. CASE cursor.epoch = m.epoch
  <2>1. copy' = Served(m, lines, TRUE, copy) /\ seen' = run
    BY <1>10 DEF PullBackward, Serve, Served
  <2>3. CopyOf(m, cursor, copy, since)  BY <1>0, <1>5, <1>2, <1>10, TickedCopy DEF CopyFollows, Same, SameRows
  <2>4. before.line = since /\ since <= Last(m) /\ before.line \in Nat
    BY <1>0, <1>1, <1>2, <1>5, <1>10 DEF TokenFollows, Cursors, SameRows, Same
  <2> HIDE DEF m, lines
  <2>6. CopyFollows'
    <3>1. SUFFICES CopyOf(m, cursor, copy', since')
      BY <1>1, <2>1 DEF CopyFollows
    <3>2. ASSUME NEW line \in First(m)..Last(m), line >= since'
          PROVE  Pending(m, cursor, line) \/ (line \in DOMAIN copy' /\ copy'[line] = RowAt(m, line))
      <4>0. line \in Nat /\ line >= First(m)
        BY <1>4
      <4>1. CASE line < since
        <5>2. line \in lines  BY <1>6, <2>4, <3>2, <4>1, <1>1, <4>0, <1>0
        <5> QED
          BY <2>1, <4>0, <5>2, ServedShows, Zenon
      <4>2. CASE line >= since
        <5>2. CASE line \in DOMAIN copy /\ copy[line] = RowAt(m, line)
          BY <2>1, <4>0, <5>2, ServedShows, Zenon
        <5> QED  BY <1>2, <2>3, <4>2, <5>2 DEF CopyOf
      <4> QED
        BY <1>0, <4>0, <4>1, <4>2
    <3> QED  BY <1>2, <3>2, <2>3, QuietCopy DEF CopyOf
  <2>7. TokenFollows'
    <3>1. CASE lines = {}
      <4>1. before' = NoCursor /\ since' = since
        BY <1>1, <1>7, <3>1
      <4> QED  BY <1>1, <1>4, <1>5, <1>6, <1>10, <2>4, <3>1, <4>1 DEF TokenFollows, Same
    <3>2. CASE lines # {}
      <4>1. since' = MinOf(lines) /\ MinOf(lines) <= Last(m)
        BY <1>1, <1>4, <1>6, <3>2
      <4> QED
        BY <1>1, <1>5, <1>7, <1>10, <3>2, <4>1 DEF TokenFollows, Same
    <3> QED
      BY <3>1, <3>2
  <2> QED
    BY <1>8, <1>9, <2>6, <2>7 DEF CopyInv
<1>11. CASE cursor.epoch # m.epoch
  <2>2. before' = NoCursor  BY <1>7, <1>5, <1>6, <1>11
  <2> QED  BY <1>8, <1>9, <1>1, <1>11, <2>2 DEF CopyInv, CopyFollows, TokenFollows, Same
<1> QED
  BY <1>10, <1>11

-----------------------------------------------------------------------------
(* The phone's rows.                                                       *)

LEMMA CopyStep ==
  ASSUME Reruns = FALSE
  PROVE  CopyInv /\ [RowsNext]_rowsVars =>
            CopyInv' /\ (ScrollBusy = FALSE /\ HintFollows => HintFollows')
<1> SUFFICES ASSUME CopyInv, [RowsNext]_rowsVars
             PROVE  CopyInv' /\ (ScrollBusy = FALSE /\ HintFollows => HintFollows')
  OBVIOUS
<1>1. RowsTypeInv'
  BY RowsTypeStep DEF CopyInv
<1> QED
  BY <1>1, OutputStep, ResizeStep, ReboundStep, RerunStep, SubscriptionStep, IntervalStep,
     PullForwardStep, PullTailStep, PullBackwardStep, ForgetStep DEF RowsNext

LEMMA CopyIsHonest == CopyInv => NothingMissed /\ BackfillComplete /\ CursorOfThisRun
<1> SUFFICES ASSUME CopyInv PROVE NothingMissed /\ BackfillComplete /\ CursorOfThisRun
  OBVIOUS
<1>0. /\ Settled(mirror) /\ CopyFollows /\ TokenFollows
  BY DEF CopyInv, RowsTypeInv, RestOfTypeOK
<1>2. ASSUME ~Fresh(mirror, cursor)
      PROVE  Same /\ Fresh(mirror, cursor) = FALSE
  BY <1>2 DEF Fresh, Same
<1>3. NothingMissed
  <2>1. SUFFICES ASSUME mirror.wrote = FALSE, Drained,
                        NEW line \in First(mirror)..Last(mirror), line >= since
                 PROVE  line \in DOMAIN copy /\ copy[line] = RowAt(mirror, line)
    BY <1>0, SettledNumbers DEF NothingMissed, Quiet, Shows
  <2> QED  BY <1>0, <2>1, <1>2, CandidatesAre DEF CopyFollows, CopyOf, Drained
<1> QED
  BY <1>3, <1>0, SettledNumbers, <1>2 DEF CursorOfThisRun, CopyFollows, BackfillComplete, TokenFollows, Same

LEMMA HintIsHonest == RowsInv => HintCoversChange
<1> SUFFICES ASSUME RowsInv PROVE HintCoversChange
  OBVIOUS
<1>0. HintFollows /\ subscribed \in BOOLEAN /\ owed \in BOOLEAN /\ hint \in BOOLEAN
  BY DEF RowsInv, CopyInv, RowsTypeInv, RestOfTypeOK
<1>1. SUFFICES ASSUME subscribed = TRUE
               PROVE  Drained \/ owed \/ hint \/ ~Quiet
  BY <1>0 DEF HintCoversChange
<1>3. CASE (owed \/ hint) = TRUE
  BY <1>0, <1>3, Zenon
<1>4. CASE mirror.wrote = TRUE
  BY <1>4 DEF Quiet
<1>5. CASE Complete(mirror, cursor)
  BY <1>5 DEF Complete, Drained
<1> QED  BY <1>0, <1>1, <1>3, <1>4, <1>5 DEF Covered, HintFollows

(* Once the mirror is quiet and a phone has pulled until there is no more, it
   has every retained row from the oldest it was served, as the host has it;
   its last older page leaves nothing out; and a cursor never goes on with the
   rows of another mirror: whatever is written, resized, rebound, trimmed and
   paged in between.  A host that restarts under a phone that keeps its cursor
   is left out: its epochs start again, and TLC finds the copy that is wrong. *)
THEOREM CopyCorrect ==
  ASSUME Reruns = FALSE
  PROVE  RowsSpec => [](NothingMissed /\ BackfillComplete /\ CursorOfThisRun)
<1>1. RowsInit => CopyInv
  BY RowsInitIs DEF RowsInv
<1>2. CopyInv /\ [RowsNext]_rowsVars => CopyInv'
  BY CopyStep
<1>3. CopyInv => NothingMissed /\ BackfillComplete /\ CursorOfThisRun
  BY CopyIsHonest
<1> QED
  BY <1>1, <1>2, <1>3, PTL DEF RowsSpec

(* And a subscribed phone that lacks something was hinted or will be, unless its
   user scrolls up between an output and its tick: the pull then takes the tick
   that would have hinted it, as TLC finds.                                *)
THEOREM RowsCorrect ==
  ASSUME ScrollBusy = FALSE, Reruns = FALSE
  PROVE  RowsSpec => []RowsAreHonest
<1>1. RowsInit => RowsInv
  BY RowsInitIs
<1>2. RowsInv /\ [RowsNext]_rowsVars => RowsInv'
  BY CopyStep DEF RowsInv
<1>3. RowsInv => RowsAreHonest
  BY CopyIsHonest, HintIsHonest DEF RowsInv, RowsAreHonest
<1> QED
  BY <1>1, <1>2, <1>3, PTL DEF RowsSpec
=============================================================================
