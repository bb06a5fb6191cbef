---------------------------- MODULE RendererProofs ----------------------------
(***************************************************************************)
(* Proofs about Renderer: the shells of a worktree (TerminalRuntime over   *)
(* WorkspaceSession), the dot of a worktree and the start of agents        *)
(* (SidebarAgents) and the workspaces (WorkspaceLifecycle), for any        *)
(* shells, worktrees and workspaces.                                       *)
(*                                                                         *)
(* Each part has an inductive invariant of its own.  That of the dot is    *)
(* the property itself; that of the launches says that one mount is under  *)
(* way, in the window it opened; that of the workspaces follows the shadow *)
(* and the copy a handler holds while it awaits; that of the shells says   *)
(* what each handler in flight may still rely on when its answer comes,    *)
(* and that a pane is left for each shell on its way.  What it takes to    *)
(* get there is lemmas about the catalog of layouts, the planner and the   *)
(* reducer: none of them loses, doubles or reorders a shell.               *)
(***************************************************************************)
EXTENDS Renderer, TLAPS, FiniteSetTheorems, WellFoundedInduction

-----------------------------------------------------------------------------
(* The attention of a worktree.                                            *)

\* Panes as they may be: shells by name, each with a state.
Panes(sh) == DOMAIN sh \subseteq Shells /\ \A p \in DOMAIN sh : sh[p] \in ShellStates

Sessions == [attention : 0..2, reporting : BOOLEAN, swallowed : BOOLEAN]

\* The strongest of the attentions of some shells is one of the three.
LEMMA StrongestIsThere ==
    ASSUME NEW S \in SUBSET (0..2), 0 \in S
    PROVE  Max(S) \in 0..2
<1>1. \E x \in S : \A y \in S : x >= y
  <2>1. CASE 2 \in S  BY <2>1
  <2>2. CASE 2 \notin S /\ 1 \in S  BY <2>2
  <2>3. CASE 2 \notin S /\ 1 \notin S  BY <2>3
  <2> QED  BY <2>1, <2>2, <2>3
<1> QED  BY <1>1 DEF Max

LEMMA DotIsTyped ==
    ASSUME NEW sh, Panes(sh)
    PROVE  Recalculated(sh) \in 0..2
<1> QED  BY StrongestIsThere DEF Recalculated, Panes, ShellStates

\* Shells with the attention they had make the dot what it was.
LEMMA SameAttention ==
    ASSUME NEW one, NEW two, DOMAIN one = DOMAIN two,
           \A p \in DOMAIN one : one[p].attention = two[p].attention
    PROVE  Recalculated(one) = Recalculated(two)
<1> QED  BY DEF Recalculated

\* The session after the dot was recalculated.
LEMMA PlainIsHonest ==
    ASSUME sess \in Sessions, NEW sh, Panes(sh)
    PROVE  /\ Plain(sh) \in Sessions
           /\ Plain(sh).attention = Recalculated(sh)
           /\ Plain(sh).reporting = sess.reporting
           /\ Plain(sh).swallowed = sess.swallowed
<1> QED  BY DotIsTyped DEF Plain, Sessions

LEMMA DepartedIsHonest ==
    ASSUME NEW base \in Sessions, NEW sh
    PROVE  /\ Departed(base, sh) \in Sessions
           /\ Departed(base, sh).attention = base.attention
           /\ Departed(base, sh).reporting => RunningAgent(sh)
<1> QED  BY DEF Departed, Sessions, RunningAgent

\* What is heard of a shell, from its output and at its end.
LEMMA AttentionIsTyped ==
    /\ \A v : Attention(v) \in 0..2
    /\ \A a, b \in 0..2 : Stronger(a, b) \in 0..2
    /\ \A r : Ranked(r) \in 0..2
  BY DEF Attention, Stronger, Ranked

LEMMA RecordedIsTyped ==
    ASSUME NEW r \in ShellStates, NEW incoming \in 0..2,
           NEW verdict \in Verdicts \cup {Quiet}, NEW viewed \in BOOLEAN
    PROVE  /\ Recorded(r, incoming, verdict, viewed) \in ShellStates
           /\ Recorded(r, incoming, verdict, viewed).status = r.status
           /\ Recorded(r, incoming, verdict, viewed).agent = r.agent
<1> QED  BY AttentionIsTyped DEF Recorded, ShellStates

LEMMA ReportedIsTyped ==
    ASSUME NEW r \in ShellStates, NEW verdict \in {"ready", "failed"}
    PROVE  Reported(r, verdict) \in ShellStates
<1> DEFINE n == [r EXCEPT !.lifecycle = verdict]
<1>1. n \in ShellStates  BY DEF ShellStates
<1>2. Stronger(Ranked(n), n.attention) \in 0..2  BY <1>1, AttentionIsTyped DEF ShellStates
<1>3. [n EXCEPT !.attention = Stronger(Ranked(n), @)] \in ShellStates
  <2> HIDE DEF n
  <2> QED  BY <1>1, <1>2 DEF ShellStates
<1> QED  BY <1>3 DEF Reported

AttentionInv == Panes(shells) /\ sess \in Sessions /\ DotIsStrongest /\ MutedByAnAgent

\* A step that recalculates the dot, and leaves who runs and who reports as they are.
LEMMA Recalculation ==
    ASSUME AttentionInv, NEW sh, Panes(sh), Update(sh, Plain(sh)),
           RunningAgent(shells) => RunningAgent(sh)
    PROVE  AttentionInv'
<1>1. shells' = sh /\ sess' = Plain(sh)  BY DEF Update
<1>3. DotIsStrongest'  BY <1>1, PlainIsHonest DEF DotIsStrongest, AttentionInv
<1>4. MutedByAnAgent'  BY <1>1, PlainIsHonest DEF AttentionInv, MutedByAnAgent
<1>5. Panes(shells)'  BY <1>1
<1> QED  BY <1>1, PlainIsHonest, <1>3, <1>4, <1>5 DEF AttentionInv

\* One shell is replaced by another that runs an agent if it did.
LEMMA OneShell ==
    ASSUME Panes(shells), NEW p \in DOMAIN shells, NEW n \in ShellStates
    PROVE  /\ Panes([shells EXCEPT ![p] = n])
           /\ (shells[p].status = "running" /\ shells[p].agent
                 => n.status = "running" /\ n.agent)
              => (RunningAgent(shells) => RunningAgent([shells EXCEPT ![p] = n]))
           /\ n.attention = shells[p].attention
              => Recalculated([shells EXCEPT ![p] = n]) = Recalculated(shells)
<1> DEFINE sh == [shells EXCEPT ![p] = n]
<1>1. /\ DOMAIN sh = DOMAIN shells
      /\ sh[p] = n
      /\ \A q \in DOMAIN shells \ {p} : sh[q] = shells[q]
  OBVIOUS
<1> HIDE DEF sh
<1>3. ASSUME shells[p].status = "running" /\ shells[p].agent => n.status = "running" /\ n.agent,
             RunningAgent(shells)
      PROVE  RunningAgent(sh)
  <2>1. PICK q \in DOMAIN shells : shells[q].status = "running" /\ shells[q].agent
    BY <1>3 DEF RunningAgent
  <2> QED  BY <2>1, <1>1, <1>3 DEF RunningAgent
<1>4. ASSUME n.attention = shells[p].attention
      PROVE  Recalculated(sh) = Recalculated(shells)  BY <1>1, <1>4, SameAttention
<1> QED  BY <1>1, <1>3, <1>4 DEF sh, Panes

LEMMA RegisterStep ==
    ASSUME AttentionInv, NEW p \in Shells, Register(p)
    PROVE  AttentionInv'
<1> DEFINE sh == [q \in DOMAIN shells \cup {p} |-> IF q = p THEN NewShell(p, FALSE) ELSE shells[q]]
<1>1. p \notin DOMAIN shells /\ Update(sh, Plain(sh))  BY DEF Register
<1>3. /\ DOMAIN sh = DOMAIN shells \cup {p}
      /\ \A q \in DOMAIN sh : sh[q] \in ShellStates
      /\ \A q \in DOMAIN shells : sh[q] = shells[q]  BY <1>1 DEF AttentionInv, Panes, NewShell, ShellStates
<1> HIDE DEF sh
<1>5. RunningAgent(shells) => RunningAgent(sh)  BY <1>3 DEF RunningAgent
<1> QED  BY <1>1, <1>3, <1>5, Recalculation DEF AttentionInv, Panes

LEMMA OutputStep ==
    ASSUME AttentionInv, NEW p \in DOMAIN shells, NEW verdict \in Verdicts \cup {Quiet},
           NEW viewed \in BOOLEAN, NEW legacy \in 0..2, Output(p, legacy, verdict, viewed)
    PROVE  AttentionInv'
<1> DEFINE r == shells[p]
           incoming == Stronger(IF r.agent /\ sess.reporting THEN 1 ELSE legacy, Attention(verdict))
           base == Recorded(r, incoming, verdict, viewed)
           heard == [base EXCEPT !.done = IF verdict = Quiet THEN @ ELSE verdict = "ready"]
           sh == [shells EXCEPT ![p] = heard]
<1>1. Update(sh, Plain(sh))  BY DEF Output
<1>3. incoming \in 0..2  BY AttentionIsTyped
<1> HIDE DEF incoming
<1>4. base \in ShellStates /\ base.status = r.status /\ base.agent = r.agent
  BY <1>3, RecordedIsTyped DEF AttentionInv, Panes
<1> HIDE DEF base, r
<1>5. heard \in ShellStates /\ heard.status = r.status /\ heard.agent = r.agent
  BY <1>4 DEF ShellStates
<1> HIDE DEF heard
<1> QED  BY <1>1, <1>5, OneShell, Recalculation DEF AttentionInv, r

LEMMA ExitStep ==
    ASSUME AttentionInv, NEW p \in DOMAIN shells, NEW clean \in BOOLEAN, Exit(p, clean)
    PROVE  AttentionInv'
<1> DEFINE r == shells[p]
           over == [r EXCEPT !.status = "exited", !.agent = FALSE, !.done = FALSE]
           said == IF ~r.agent THEN over
                   ELSE IF ~clean THEN Reported(over, "failed")
                   ELSE IF r.done THEN Reported(over, "ready") ELSE over
           sh == [shells EXCEPT ![p] = said]
           base == IF said = over THEN sess ELSE Plain(sh)
<1>1. Update(sh, Departed(base, sh))  BY DEF Exit
<1>3. over \in ShellStates /\ over.attention = r.attention  BY DEF ShellStates, AttentionInv, Panes
<1> HIDE DEF over
<1>4. said \in ShellStates  BY <1>3, ReportedIsTyped
<1> HIDE DEF said
<1>5. Panes(sh)  BY <1>4, OneShell DEF AttentionInv
<1>6. said = over => Recalculated(sh) = Recalculated(shells)
  BY <1>3, <1>4, OneShell DEF AttentionInv, r
<1> HIDE DEF sh
<1>7. base \in Sessions /\ base.attention = Recalculated(sh)
  BY <1>5, <1>6, PlainIsHonest DEF AttentionInv, DotIsStrongest
<1> HIDE DEF base
<1>8. shells' = sh /\ sess' = Departed(base, sh)  BY <1>1 DEF Update
<1>9. /\ sess' \in Sessions
      /\ sess'.attention = Recalculated(sh)
      /\ sess'.reporting => RunningAgent(sh)
  BY <1>7, <1>8, DepartedIsHonest
<1> QED  BY <1>5, <1>8, <1>9 DEF AttentionInv, DotIsStrongest, MutedByAnAgent

LEMMA RestartStep ==
    ASSUME AttentionInv, NEW p \in DOMAIN shells, Restart(p)
    PROVE  AttentionInv'
<1> DEFINE r == shells[p]
           n == [r EXCEPT !.status = "running", !.agent = p \in AgentCommand \/ r.titled, !.done = FALSE]
           sh == [shells EXCEPT ![p] = n]
<1>2. n \in ShellStates /\ n.attention = r.attention  BY DEF ShellStates, AttentionInv, Panes
<1>4. shells' = sh /\ sess' = [sess EXCEPT !.swallowed = @ \/ (sess.reporting /\ ~RunningAgent(sh))]
  BY DEF Restart, Update
<1> HIDE DEF n
<1>5. Panes(sh) /\ Recalculated(sh) = Recalculated(shells)
  BY <1>2, OneShell DEF AttentionInv
<1> HIDE DEF sh
<1>7. /\ sess' \in Sessions
      /\ sess'.attention = sess.attention
      /\ sess'.reporting = sess.reporting
      /\ sess'.reporting => RunningAgent(sh) \/ sess'.swallowed
  BY <1>4 DEF AttentionInv, Sessions, RunningAgent
<1> QED  BY <1>4, <1>5, <1>7 DEF AttentionInv, DotIsStrongest, MutedByAnAgent

LEMMA RetitleStep ==
    ASSUME AttentionInv, NEW p \in DOMAIN shells, Retitle(p)
    PROVE  AttentionInv'
<1> DEFINE r == shells[p]
           n == [r EXCEPT !.titled = ~@, !.agent = @ \/ ~r.titled]
           sh == [shells EXCEPT ![p] = n]
<1>2. /\ n \in ShellStates
      /\ n.attention = r.attention
      /\ n.status = r.status
      /\ r.agent => n.agent  BY DEF ShellStates, AttentionInv, Panes
<1>3. shells' = sh /\ sess' = sess  BY DEF Retitle, Update
<1> HIDE DEF n
<1>4. /\ Panes(sh)
      /\ Recalculated(sh) = Recalculated(shells)
      /\ RunningAgent(shells) => RunningAgent(sh)
  BY <1>2, OneShell DEF AttentionInv
<1> HIDE DEF sh
<1> QED  BY <1>3, <1>4 DEF AttentionInv, DotIsStrongest, MutedByAnAgent

LEMMA ReportStep ==
    ASSUME AttentionInv, NEW verdict \in Verdicts, Report(verdict)
    PROVE  AttentionInv'
<1> DEFINE Quieter(r) == IF r.terminal = Quiet THEN r
                         ELSE [[r EXCEPT !.terminal = Quiet] EXCEPT
                                  !.attention = Ranked([r EXCEPT !.terminal = Quiet])]
           quietened == [p \in DOMAIN shells |-> Quieter(shells[p])]
           sh == IF verdict = "failed" THEN shells ELSE quietened
           next == [Plain(sh) EXCEPT !.reporting = @ \/ RunningAgent(shells)]
<1>1. shells' = sh /\ sess' = next  BY DEF Report, Update
<1>2. ASSUME NEW r \in ShellStates
      PROVE  Quieter(r) \in ShellStates /\ Quieter(r).status = r.status /\ Quieter(r).agent = r.agent
  <2> DEFINE n == [r EXCEPT !.terminal = Quiet]
  <2>1. n \in ShellStates /\ n.status = r.status /\ n.agent = r.agent  BY DEF ShellStates
  <2> HIDE DEF n
  <2>3. LET m == [n EXCEPT !.attention = Ranked(n)]
        IN  m \in ShellStates /\ m.status = r.status /\ m.agent = r.agent
    BY <2>1, AttentionIsTyped DEF ShellStates
  <2> QED  BY <2>3 DEF n
<1>3. /\ DOMAIN sh = DOMAIN shells
      /\ \A p \in DOMAIN shells : /\ sh[p] \in ShellStates
                                  /\ sh[p].status = shells[p].status
                                  /\ sh[p].agent = shells[p].agent
  <2> HIDE DEF Quieter
  <2> QED  BY <1>2 DEF AttentionInv, Panes
<1> HIDE DEF sh
<1>5. RunningAgent(sh) = RunningAgent(shells)  BY <1>3 DEF RunningAgent
<1>7. /\ Plain(sh) \in Sessions
      /\ Plain(sh).attention = Recalculated(sh)
      /\ Plain(sh).reporting = sess.reporting
      /\ Plain(sh).swallowed = sess.swallowed  BY <1>3, PlainIsHonest DEF AttentionInv, Panes
<1>8. /\ next \in Sessions
      /\ next.attention = Recalculated(sh)
      /\ next.reporting => sess.reporting \/ RunningAgent(sh)
      /\ next.swallowed = sess.swallowed  BY <1>5, <1>7 DEF Sessions, RunningAgent
<1> HIDE DEF next
<1> QED  BY <1>1, <1>3, <1>5, <1>8 DEF AttentionInv, DotIsStrongest, MutedByAnAgent, Panes

LEMMA ViewStep ==
    ASSUME AttentionInv, NEW p \in DOMAIN shells, View(p)
    PROVE  AttentionInv'
<1> DEFINE r == shells[p]
           n == [r EXCEPT !.attention = 0]
           sh == [shells EXCEPT ![p] = n]
<1>2. n \in ShellStates /\ n.status = r.status /\ n.agent = r.agent  BY DEF ShellStates, AttentionInv, Panes
<1>4. Update(sh, Plain(sh))  BY DEF View
<1> HIDE DEF n
<1> QED  BY <1>4, <1>2, OneShell, Recalculation DEF AttentionInv

LEMMA ClearStep ==
    ASSUME AttentionInv, NEW p \in DOMAIN shells, NEW sticky \in BOOLEAN, Clear(p, sticky)
    PROVE  AttentionInv'
<1> DEFINE Keep(v) == IF ~sticky /\ v = "failed" THEN v ELSE Quiet
           r == shells[p]
           m == [r EXCEPT !.terminal = Keep(@), !.lifecycle = Keep(@)]
           n == [m EXCEPT !.attention = Ranked(m)]
           sh == [shells EXCEPT ![p] = n]
<1>2. Update(sh, Plain(sh))  BY DEF Clear
<1>3. m \in ShellStates /\ m.status = r.status /\ m.agent = r.agent  BY DEF ShellStates, AttentionInv, Panes
<1> HIDE DEF m
<1>5. n \in ShellStates /\ n.status = r.status /\ n.agent = r.agent  BY <1>3, AttentionIsTyped DEF ShellStates
<1> HIDE DEF n
<1> QED  BY <1>2, <1>5, OneShell, Recalculation DEF AttentionInv

LEMMA CloseStep ==
    ASSUME AttentionInv, NEW p \in DOMAIN shells, Close(p)
    PROVE  AttentionInv'
<1> DEFINE sh == [q \in DOMAIN shells \ {p} |-> shells[q]]
<1>1. shells' = sh /\ sess' = Departed(Plain(sh), sh)  BY DEF Close, Update
<1>2. Panes(sh)  BY DEF AttentionInv, Panes
<1> HIDE DEF sh
<1>3. Plain(sh) \in Sessions /\ Plain(sh).attention = Recalculated(sh)
  BY <1>2, PlainIsHonest DEF AttentionInv
<1>4. /\ sess' \in Sessions
      /\ sess'.attention = Recalculated(sh)
      /\ sess'.reporting => RunningAgent(sh)
  BY <1>1, <1>3, DepartedIsHonest
<1> QED  BY <1>1, <1>2, <1>4 DEF AttentionInv, DotIsStrongest, MutedByAnAgent

LEMMA AttentionStart == AttentionInit => AttentionInv
<1> SUFFICES ASSUME AttentionInit PROVE AttentionInv  OBVIOUS
<1>4. Max({0}) = 0  BY DEF Max
<1>5. Recalculated(shells) = 0  BY <1>4 DEF Recalculated, AttentionInit
<1> QED  BY <1>5 DEF AttentionInit, AttentionInv, Sessions, DotIsStrongest, MutedByAnAgent, Panes

LEMMA AttentionStep == AttentionInv /\ [AttentionNext]_avars => AttentionInv'
<1> SUFFICES ASSUME AttentionInv, [AttentionNext]_avars PROVE AttentionInv'  OBVIOUS
<1>1. CASE UNCHANGED avars
  BY <1>1 DEF avars, AttentionInv, Panes, DotIsStrongest, Recalculated, MutedByAnAgent, RunningAgent
<1>2. ASSUME NEW p \in Shells, Register(p) PROVE AttentionInv'  BY <1>2, RegisterStep
<1>3. ASSUME NEW p \in DOMAIN shells, NEW verdict \in Verdicts \cup {Quiet}, NEW viewed \in BOOLEAN,
             NEW legacy \in Readings(verdict, viewed), Output(p, legacy, verdict, viewed)
      PROVE  AttentionInv'  BY <1>3, OutputStep DEF Readings
<1>4. ASSUME NEW p \in DOMAIN shells, NEW clean \in BOOLEAN, Exit(p, clean) PROVE AttentionInv'
  BY <1>4, ExitStep
<1>5. ASSUME NEW p \in DOMAIN shells, Restart(p) PROVE AttentionInv'  BY <1>5, RestartStep
<1>6. ASSUME NEW p \in DOMAIN shells, Retitle(p) PROVE AttentionInv'  BY <1>6, RetitleStep
<1>7. ASSUME NEW p \in DOMAIN shells, View(p) PROVE AttentionInv'  BY <1>7, ViewStep
<1>8. ASSUME NEW p \in DOMAIN shells, Close(p) PROVE AttentionInv'  BY <1>8, CloseStep
<1>9. ASSUME NEW p \in DOMAIN shells, NEW sticky \in BOOLEAN, Clear(p, sticky) PROVE AttentionInv'
  BY <1>9, ClearStep
<1>10. ASSUME NEW verdict \in Verdicts, Report(verdict) PROVE AttentionInv'  BY <1>10, ReportStep
<1> QED  BY <1>1, <1>2, <1>3, <1>4, <1>5, <1>6, <1>7, <1>8, <1>9, <1>10 DEF AttentionNext

-----------------------------------------------------------------------------
(* The start of agents.                                                    *)

\* One mount is under way at most, in the worktree that is shown, in the window it opened
\* and in a collab with room for it.
LaunchInv ==
    /\ LaunchTypeOK
    /\ \A w \in Trees : mounts[w] # 0 =>
          mounts[w] = 1 /\ w = at /\ window = lens[w].bound /\ liveBound(w) < Cap

LEMMA LaunchIsSafe == LaunchInv => LaunchTypeOK /\ NeverOverbooked
<1> SUFFICES ASSUME LaunchInv PROVE NeverOverbooked  BY DEF LaunchInv
<1> SUFFICES ASSUME NEW w \in Trees PROVE liveBound(w) + mounts[w] <= Cap
  BY DEF NeverOverbooked
<1> QED  BY DEF LaunchInv, Cap, LaunchTypeOK, liveBound

\* A mount that begins where none is open, and where there is room.
LEMMA MountStep ==
    ASSUME LaunchInv, ~mountInFlight, liveBound(at) < Cap, Mount, UNCHANGED <<at, lens>>,
           queued' \in {Unset} \cup Trees
    PROVE  LaunchInv'
<1>1. at \in Trees /\ lens[at].bound \in 0..Cap /\ mounts \in [Trees -> Nat]
  BY DEF LaunchInv, LaunchTypeOK
<1>2. \A w \in Trees : mounts[w] = 0
  <2> SUFFICES ASSUME NEW w \in Trees, mounts[w] # 0 PROVE FALSE  OBVIOUS
  <2> QED  BY UnsetAssumption DEF mountInFlight, LaunchInv, LaunchTypeOK, Cap
<1>3. mounts' = [mounts EXCEPT ![at] = 1] /\ window' = lens[at].bound
  <2>1. mounts[at] + 1 = 1  BY <1>1, <1>2
  <2> QED  BY <1>1, <2>1 DEF Mount
<1>6. ASSUME NEW w \in Trees, mounts'[w] # 0
      PROVE  mounts'[w] = 1 /\ w = at' /\ window' = lens'[w].bound /\ liveBound(w)' < Cap
  BY <1>1, <1>2, <1>3, <1>6 DEF liveBound
<1> QED  BY <1>1, <1>3, <1>6 DEF LaunchInv, LaunchTypeOK

\* A step that leaves the lens, the mounts and the worktree alone, and the window too
\* unless nothing is mounted.
LEMMA SettledStep ==
    ASSUME LaunchInv, UNCHANGED <<at, lens, mounts>>, queued' \in {Unset} \cup Trees,
           window' \in {Unset} \cup 0..Cap,
           window' = window \/ mounts[at] = 0
    PROVE  LaunchInv'
<1>2. ASSUME NEW w \in Trees, mounts'[w] # 0
      PROVE  mounts'[w] = 1 /\ w = at' /\ window' = lens'[w].bound /\ liveBound(w)' < Cap
  BY <1>2 DEF LaunchInv, liveBound
<1> QED  BY <1>2 DEF LaunchInv, LaunchTypeOK

LEMMA BindsStep ==
    ASSUME LaunchInv, NEW w \in Trees, Binds(w)
    PROVE  LaunchInv'
<1>2. /\ mounts' \in [Trees -> Nat]
      /\ \A v \in Trees : mounts'[v] = 0
  <2>2. \A v \in Trees : v # w => mounts[v] = 0  BY DEF LaunchInv, Binds, LaunchTypeOK
  <2> QED  BY <2>2 DEF LaunchInv, LaunchTypeOK, Binds
<1>3. lens' \in [Trees -> [alive : BOOLEAN, bound : 0..Cap]]
  <2>2. liveBound(w) + 1 \in 0..Cap  BY DEF liveBound, Cap, LaunchInv, LaunchTypeOK, Binds
  <2>3. [alive |-> TRUE, bound |-> liveBound(w) + 1] \in [alive : BOOLEAN, bound : 0..Cap]
    BY <2>2
  <2> QED  BY <2>3 DEF Binds, LaunchInv, LaunchTypeOK
<1> QED  BY <1>2, <1>3 DEF LaunchInv, LaunchTypeOK, Binds

LEMMA CollabEndsStep ==
    ASSUME LaunchInv, NEW w \in Trees, CollabEnds(w)
    PROVE  LaunchInv'
<1>4. \A v \in Trees : liveBound(v) < Cap => liveBound(v)' < Cap
  BY DEF Cap, liveBound, LaunchInv, LaunchTypeOK, CollabEnds
<1> QED  BY <1>4 DEF LaunchInv, LaunchTypeOK, CollabEnds

LEMMA LaunchStart == LaunchInit => LaunchInv
<1> SUFFICES ASSUME LaunchInit PROVE LaunchInv  OBVIOUS
<1>1. /\ [alive |-> FALSE, bound |-> 0] \in [alive : BOOLEAN, bound : 0..Cap]
      /\ [alive |-> FALSE, bound |-> Cap] \in [alive : BOOLEAN, bound : 0..Cap]
  BY DEF Cap
<1> QED  BY <1>1 DEF LaunchInit, LaunchInv, LaunchTypeOK

LEMMA LaunchStep ==
    ASSUME LaunchInv, [LaunchNext]_launchVars, Roams = FALSE, Slow = FALSE
    PROVE  LaunchInv'
<1>1. CASE UNCHANGED launchVars
  BY <1>1 DEF launchVars, LaunchInv, LaunchTypeOK, liveBound
<1>2. CASE launchAgent
  <2>1. UNCHANGED <<at, lens>>  BY <1>2 DEF launchAgent
  <2>2. CASE decideLaunch = "mount" /\ Mount /\ UNCHANGED queued
    <3>1. ~mountInFlight /\ liveBound(at) < Cap  BY <2>2 DEF decideLaunch
    <3>2. queued' \in {Unset} \cup Trees  BY <2>2 DEF LaunchInv, LaunchTypeOK
    <3> QED  BY <2>1, <2>2, <3>1, <3>2, MountStep
  <2>3. CASE queued' = at /\ UNCHANGED <<mounts, window>>
    BY <2>1, <2>3, SettledStep DEF LaunchInv, LaunchTypeOK
  <2> QED  BY <1>2, <2>2, <2>3 DEF launchAgent
<1>3. CASE CancelDeferred
  BY <1>3, SettledStep DEF CancelDeferred, LaunchInv, LaunchTypeOK
<1>4. CASE DeferredReady
  BY <1>4, MountStep DEF DeferredReady
<1>5. CASE DeferredTimeout
  BY <1>5, SettledStep DEF DeferredTimeout, LaunchInv, LaunchTypeOK
<1>6. CASE MountSettles
  <2>1. mounts[at] = 0
    <3> SUFFICES ASSUME mounts[at] # 0 PROVE FALSE  OBVIOUS
    <3> QED  BY <1>6 DEF MountSettles, LaunchInv, LaunchTypeOK, Cap
  <2> QED  BY <1>6, <2>1, SettledStep DEF MountSettles, LaunchInv, LaunchTypeOK
<1>7. ASSUME NEW w \in Trees, Binds(w) PROVE LaunchInv'  BY <1>7, BindsStep
<1>8. ASSUME NEW w \in Trees, CollabEnds(w) PROVE LaunchInv'  BY <1>8, CollabEndsStep
<1>9. ASSUME NEW w \in Trees, ShowWorktree(w) PROVE LaunchInv'
  <2>2. \A v \in Trees : mounts[v] = 0
    <3> SUFFICES ASSUME NEW v \in Trees, mounts[v] # 0 PROVE FALSE  OBVIOUS
    <3> QED  BY <1>9, UnsetAssumption DEF ShowWorktree, mountInFlight, LaunchInv, LaunchTypeOK, Cap
  <2> QED  BY <1>9, <2>2 DEF LaunchInv, LaunchTypeOK, ShowWorktree, mountInFlight
<1> QED  BY <1>1, <1>2, <1>3, <1>4, <1>5, <1>6, <1>7, <1>8, <1>9 DEF LaunchNext

-----------------------------------------------------------------------------
(* The workspaces.                                                         *)

\* What a workspace holds is its own, and a session it does not hold still waits.
Holds(w, st, waits) ==
    /\ st \in States
    /\ st.own = w
    /\ \A i \in Worktrees : st.at[i] = "blank" => <<w, i>> \in waits

RegOK(r) == r \in [Workspaces -> [known : BOOLEAN, live : States \cup {Nobody}, err : BOOLEAN]]

Clicks == {Nobody} \cup (Worktrees \X SUBSET (Workspaces \X Worktrees))

CallOK(c) ==
    /\ c.ws \in Workspaces /\ c.wt \in Worktrees
    /\ c.kind \in {"activate", "recreate", "refresh", "hydrate"}
    /\ c.kind \in {"activate", "recreate"} => c.then \in Clicks
    /\ c.kind = "recreate" /\ c.local # Nobody =>
          c.ws = active /\ Holds(c.ws, c.local, pending)
    /\ c.kind = "refresh" => c.ws = active

\* The active workspace is live, the shadow is of it, and no workspace lacks a session.
HoldingInv ==
    /\ RegOK(reg)
    /\ active \in Workspaces /\ reg[active].known /\ Live(active)
    /\ shadow \in [ws : Workspaces, st : States]
    /\ shadow.ws = active /\ Holds(active, shadow.st, pending)
    /\ inactive \in [Workspaces -> States \cup {Nobody}]
    /\ pending \subseteq Workspaces \X Worktrees
    /\ \A w \in Workspaces : reg[w].known /\ Live(w) => Holds(w, reg[w].live, pending)

\* One handler of a click is under way at most.
CallsInv ==
    /\ \A c \in calls : CallOK(c)
    /\ \A c, d \in calls : c.kind # "hydrate" /\ d.kind # "hydrate" => c = d

WorkspacesInv == HoldingInv /\ CallsInv

LEMMA WorkspacesAreSafe == WorkspacesInv => LifecycleTypeOK /\ NothingSavedIsLost
<1> SUFFICES ASSUME WorkspacesInv PROVE LifecycleTypeOK /\ NothingSavedIsLost  OBVIOUS
<1>2. ASSUME NEW w \in Known, NEW i \in Worktrees PROVE Persisted(w, i) # "blank"
  <2>2. CASE <<w, i>> \in pending \/ ~Live(w)  BY <2>2 DEF Persisted
  <2>3. CASE <<w, i>> \notin pending /\ Live(w)  BY <2>3 DEF Persisted, Holds, WorkspacesInv, HoldingInv, Known
  <2> QED  BY <2>2, <2>3
<1> QED  BY <1>2 DEF NothingSavedIsLost, WorkspacesInv, HoldingInv, LifecycleTypeOK, RegOK, Known

\* What is brought back of a workspace is its own.
LEMMA RestoredHolds ==
    ASSUME NEW w \in Workspaces, NEW waits, <<w, 2>> \in waits
    PROVE  Holds(w, Restored(w), waits) /\ Restored(w) \in States /\ Restored(w) # Nobody
<1> DEFINE two == <<"blank", "blank">>
           kept == [two EXCEPT ![1] = "saved"]
<1>1. /\ kept \in [Worktrees -> {"blank", "saved", "used"}]
      /\ kept[1] = "saved"
  BY DEF Worktrees
<1>2. Restored(w) = [own |-> w, sel |-> 1, at |-> kept]  BY DEF Restored, Blank
<1> HIDE DEF kept
<1>3. Restored(w) \in States  BY <1>1, <1>2 DEF States, Worktrees
<1>4. \A i \in Worktrees : kept[i] = "blank" => <<w, i>> \in waits  BY <1>1 DEF Worktrees
<1> QED  BY <1>2, <1>3, <1>4, NobodyAssumption DEF Holds

\* A worktree that is brought back, bound or used only holds more.
LEMMA FilledHolds ==
    ASSUME NEW w, NEW st, NEW waits, Holds(w, st, waits), NEW i \in Worktrees,
           NEW v \in {"saved", "used"}
    PROVE  Holds(w, [st EXCEPT !.at[i] = v], waits)
<1> DEFINE u == [st EXCEPT !.at[i] = v]
<1> HIDE DEF u
<1> QED  BY DEF Holds, u, States

LEMMA BoundHolds ==
    ASSUME NEW w, NEW st, NEW waits, Holds(w, st, waits), NEW v, NEW i \in Worktrees
    PROVE  Holds(w, Bound(st, v, i), waits)
  BY FilledHolds DEF Bound

LEMMA HoldsMore ==
    ASSUME NEW w, NEW st, NEW few, NEW many, Holds(w, st, few),
           \A i \in Worktrees : <<w, i>> \in few => <<w, i>> \in many
    PROVE  Holds(w, st, many)
  BY DEF Holds

LEMMA LifecycleStart == LifecycleInit => WorkspacesInv
<1> SUFFICES ASSUME LifecycleInit PROVE WorkspacesInv  OBVIOUS
<1>1. PICK w \in Workspaces :
          /\ active = w
          /\ reg = [v \in Workspaces |-> IF v = w THEN LiveWith(Restored(w)) ELSE Dormant]
          /\ shadow = [ws |-> w, st |-> Restored(w)]
          /\ inactive = [v \in Workspaces |-> Nobody]
          /\ pending = {<<w, 2>>}
          /\ calls = {Recreating(w, 1)}
  BY DEF LifecycleInit
<1>2. Holds(w, Restored(w), pending) /\ Restored(w) \in States /\ Restored(w) # Nobody
  BY <1>1, RestoredHolds
<1>3. /\ RegOK(reg) /\ reg[w].live = Restored(w) /\ reg[w].known
      /\ \A v \in Workspaces : v # w => reg[v].live = Nobody
  BY <1>1, <1>2 DEF RegOK, LiveWith, Dormant
<1>4. \A v \in Workspaces : reg[v].known /\ Live(v) => Holds(v, reg[v].live, pending)
  BY <1>2, <1>3 DEF Live
<1>6. \A c \in calls : CallOK(c)  BY <1>1 DEF CallOK, Recreating, Call, Worktrees, Clicks
<1>7. pending \subseteq Workspaces \X Worktrees  BY <1>1 DEF Worktrees
<1>8. shadow \in [ws : Workspaces, st : States] /\ shadow.ws = w /\ shadow.st = Restored(w)
  BY <1>1, <1>2
<1>9. inactive \in [Workspaces -> States \cup {Nobody}]  BY <1>1
<1>10. \A c, d \in calls : c.kind # "hydrate" /\ d.kind # "hydrate" => c = d  BY <1>1
<1> QED  BY <1>1, <1>2, <1>3, <1>4, <1>6, <1>7, <1>8, <1>9, <1>10 DEF WorkspacesInv, HoldingInv, CallsInv, Live

\* Nothing but hydrations under way.
OnlyHydrations(cs) == \A c \in cs : c.kind = "hydrate" /\ c.ws \in Workspaces /\ c.wt \in Worktrees

LEMMA HydrationsStay ==
    ASSUME NEW cs, OnlyHydrations(cs)
    PROVE  \A c \in cs : CallOK(c) /\ CallOK(c)'
  BY DEF OnlyHydrations, CallOK

LEMMA OthersHydrate ==
    ASSUME WorkspacesInv, NEW c \in calls, c.kind # "hydrate"
    PROVE  OnlyHydrations(calls \ {c})
<1> SUFFICES ASSUME NEW d \in calls \ {c}
             PROVE d.kind = "hydrate" /\ d.ws \in Workspaces /\ d.wt \in Worktrees
  BY DEF OnlyHydrations
<1> QED  BY DEF CallOK, WorkspacesInv, CallsInv

LEMMA CalmHydrates ==
    ASSUME WorkspacesInv, Calm, Overlap = FALSE
    PROVE  OnlyHydrations(calls)
<1> QED  BY DEF OnlyHydrations, Calm, CallOK, WorkspacesInv, CallsInv

LEMMA CallsHydrate == OnlyHydrations(calls') => CallsInv'
<1> SUFFICES ASSUME OnlyHydrations(calls') PROVE CallsInv'  OBVIOUS
<1> QED  BY HydrationsStay DEF CallsInv, OnlyHydrations

\* The handlers under way, when one of them belongs to a click.
LEMMA CallsWith ==
    ASSUME NEW others, OnlyHydrations(others), NEW mine, CallOK(mine)',
           \A c \in calls' : c \in others \/ c = mine
    PROVE  CallsInv'
<1> QED  BY HydrationsStay DEF CallsInv, OnlyHydrations

\* handleSelectWorktree, over a shadow of the workspace that is active from now on and a
\* registry that holds what it should.
LEMMA SelectStep ==
    ASSUME NEW w \in Workspaces, NEW i \in Worktrees, NEW clicked, NEW sh, NEW r, NEW others,
           SelectWorktree(w, i, clicked, sh, r, others),
           RegOK(r), r[w].known,
           sh.ws = w, sh \in [ws : Workspaces, st : States], Holds(w, sh.st, pending),
           \A v \in Workspaces : v # w /\ r[v].known /\ r[v].live # Nobody
                                   => Holds(v, r[v].live, pending),
           pending \subseteq Workspaces \X Worktrees, OnlyHydrations(others),
           active' = w, inactive' \in [Workspaces -> States \cup {Nobody}]
    PROVE  WorkspacesInv'
<1> DEFINE fires == <<w, i>> \in clicked
           st == [sh.st EXCEPT !.sel = i, !.at[i] = IF fires /\ sh.st.own = w THEN "saved" ELSE @]
<1>1. /\ shadow' = [sh EXCEPT !.st = st]
      /\ reg' = IF r[sh.ws].known THEN [r EXCEPT ![sh.ws].live = st] ELSE r
      /\ pending' = IF fires THEN pending \ {<<w, i>>} ELSE pending
      /\ calls' = others \cup (IF fires THEN {Recreating(w, i)} ELSE {})
  BY DEF SelectWorktree, Dispatched
<1>3. /\ st \in States /\ st.own = w
      /\ \A j \in Worktrees : st.at[j] = IF j = i /\ fires THEN "saved" ELSE sh.st.at[j]  BY DEF States, Holds
<1> HIDE DEF st
<1>7. /\ RegOK(reg') /\ reg'[w].live = st /\ reg'[w].known
      /\ \A v \in Workspaces : v # w => reg'[v] = r[v]  BY <1>3, <1>1 DEF RegOK
<1>8. \A v \in Workspaces : reg'[v].known /\ reg'[v].live # Nobody => Holds(v, reg'[v].live, pending')
  <2> SUFFICES ASSUME NEW v \in Workspaces, reg'[v].known, reg'[v].live # Nobody
               PROVE  Holds(v, reg'[v].live, pending')
    OBVIOUS
  <2>1. CASE v = w  BY <2>1, <1>1, <1>3, <1>7 DEF Holds
  <2>2. CASE v # w  BY <2>2, <1>7, <1>1, HoldsMore
  <2> QED  BY <2>1, <2>2
<1>9. st # Nobody  BY <1>3, NobodyAssumption
<1>10. pending' \subseteq Workspaces \X Worktrees  BY <1>1
<1>11. CallOK(Recreating(w, i))'  BY DEF Recreating, Call, CallOK, Clicks
<1>12. \A c \in calls' : c \in others \/ c = Recreating(w, i)  BY <1>1
<1>13. HoldingInv'
  BY <1>1, <1>3, <1>7, <1>8, <1>9, <1>10, <1>11, <1>12 DEF WorkspacesInv, HoldingInv, Live, Holds
<1> QED  BY <1>13, <1>11, <1>12, CallsWith DEF WorkspacesInv

LEMMA ClickWorktreeStep ==
    ASSUME WorkspacesInv, NEW w \in Workspaces, NEW i \in Worktrees, ClickWorktree(w, i),
           Overlap = FALSE
    PROVE  WorkspacesInv'
<1>2. OnlyHydrations(calls)  BY CalmHydrates DEF ClickWorktree
<1>3. reg[w].known /\ inactive' \in [Workspaces -> States \cup {Nobody}]
  BY DEF Known, WorkspacesInv, HoldingInv, ClickWorktree
<1>4. CASE w = active
  <2>1. SelectWorktree(w, i, pending, shadow, reg, calls) /\ active' = w
    BY <1>4 DEF ClickWorktree
  <2>2. /\ shadow.ws = w /\ shadow \in [ws : Workspaces, st : States]
        /\ Holds(w, shadow.st, pending)
        /\ RegOK(reg)
        /\ pending \subseteq Workspaces \X Worktrees
        /\ \A v \in Workspaces : v # w /\ reg[v].known /\ reg[v].live # Nobody
                                   => Holds(v, reg[v].live, pending)
    BY <1>4 DEF WorkspacesInv, HoldingInv, Live
  <2> QED  BY <1>2, <1>3, <2>1, <2>2, SelectStep
<1>5. CASE w # active /\ Live(w)
  <2> DEFINE sh == [ws |-> w, st |-> reg[w].live]
  <2>1. SelectWorktree(w, i, pending, sh, reg, calls) /\ active' = w
    BY <1>5 DEF ClickWorktree
  <2>3. /\ sh.ws = w /\ sh \in [ws : Workspaces, st : States]
        /\ Holds(w, sh.st, pending)  BY <1>3, <1>5 DEF WorkspacesInv, HoldingInv, Holds
  <2>4. /\ RegOK(reg)
        /\ pending \subseteq Workspaces \X Worktrees
        /\ \A v \in Workspaces : v # w /\ reg[v].known /\ reg[v].live # Nobody
                                   => Holds(v, reg[v].live, pending)
    BY DEF WorkspacesInv, HoldingInv, Live
  <2> HIDE DEF sh
  <2> QED  BY <1>2, <1>3, <2>1, <2>3, <2>4, SelectStep
<1>6. CASE w # active /\ ~Live(w)
  <2>1. PICK c : /\ c = Call("activate", w, <<i, pending \cap {<<w, i>>}>>, Nobody)
                 /\ calls' = calls \cup {c}
                 /\ UNCHANGED <<reg, active, shadow, pending, inactive>>
    BY <1>6 DEF ClickWorktree
  <2>2. CallOK(c)'
    BY <2>1 DEF Call, CallOK, Clicks, WorkspacesInv, HoldingInv, Worktrees
  <2>6. CallsInv'  BY <1>2, <2>2, <2>1, CallsWith
  <2> QED  BY <1>2, <2>1, <2>2, <2>6 DEF WorkspacesInv, HoldingInv, Live
<1> QED  BY <1>4, <1>5, <1>6

LEMMA ClickWorkspaceStep ==
    ASSUME WorkspacesInv, NEW w \in Workspaces, ClickWorkspace(w), Overlap = FALSE
    PROVE  WorkspacesInv'
<1>1. Calm /\ w \in Known /\ UNCHANGED <<reg, inactive, pending>>  BY DEF ClickWorkspace
<1>2. OnlyHydrations(calls) /\ reg[w].known  BY <1>1, CalmHydrates DEF Known
<1>4. CASE Live(w)
  <2>2. Holds(w, reg[w].live, pending) /\ reg[w].live \in States
    BY <1>2, <1>4 DEF WorkspacesInv, HoldingInv, Holds
  <2>3. shadow' \in [ws : Workspaces, st : States] /\ shadow'.ws = w /\ shadow'.st = reg[w].live
    BY <1>4, <2>2 DEF ClickWorkspace
  <2>4. HoldingInv'  BY <1>1, <1>2, <1>4, <2>2, <2>3 DEF WorkspacesInv, HoldingInv, Live, ClickWorkspace
  <2> QED  BY <2>4, <1>2, <1>4, CallsHydrate DEF WorkspacesInv, ClickWorkspace
<1>5. CASE ~Live(w)
  <2> DEFINE c == Call("activate", w, Nobody, Nobody)
  <2>1. calls' = calls \cup {c} /\ UNCHANGED <<active, shadow>>  BY <1>5 DEF ClickWorkspace
  <2>2. CallOK(c)'  BY DEF Call, CallOK, Clicks, Worktrees
  <2> HIDE DEF c
  <2>3. HoldingInv'  BY <1>1, <1>2, <2>1, <2>2 DEF WorkspacesInv, HoldingInv, Live
  <2>4. CallsInv'  BY <1>1, <1>2, <2>1, <2>2, CallsWith DEF WorkspacesInv, HoldingInv, Live
  <2> QED  BY <2>3, <2>4 DEF WorkspacesInv
<1> QED  BY <1>4, <1>5

LEMMA ActivatedStep ==
    ASSUME WorkspacesInv, NEW c \in calls, Activated(c)
    PROVE  WorkspacesInv'
<1> DEFINE w == c.ws
           d == Call("recreate", w, c.then, Restored(w))
<1>1. /\ c.kind = "activate"
      /\ reg' = [reg EXCEPT ![w] = LiveWith(Restored(w))]
      /\ active' = w
      /\ shadow' = [ws |-> w, st |-> Restored(w)]
      /\ pending' = {p \in pending : p[1] # w} \cup {<<w, i>> : i \in {2}}
      /\ calls' = (calls \ {c}) \cup {d}
      /\ UNCHANGED inactive
  BY DEF Activated, Repend
<1>3. w \in Workspaces /\ c.then \in Clicks  BY <1>1 DEF CallOK, WorkspacesInv, CallsInv
<1> HIDE DEF w
<1>5. Holds(w, Restored(w), pending') /\ Restored(w) \in States /\ Restored(w) # Nobody
  BY <1>3, <1>1, RestoredHolds
<1>6. pending' \subseteq Workspaces \X Worktrees  BY <1>1, <1>3 DEF WorkspacesInv, HoldingInv, Worktrees
<1>7. /\ RegOK(reg') /\ reg'[w] = LiveWith(Restored(w))
      /\ \A v \in Workspaces : v # w => reg'[v] = reg[v]
  BY <1>1, <1>3, <1>5 DEF RegOK, WorkspacesInv, HoldingInv, LiveWith
<1>8. reg'[w].known /\ reg'[w].live = Restored(w)  BY <1>7 DEF LiveWith
<1>9. \A v \in Workspaces : reg'[v].known /\ reg'[v].live # Nobody => Holds(v, reg'[v].live, pending')
  <2> SUFFICES ASSUME NEW v \in Workspaces, reg'[v].known, reg'[v].live # Nobody
               PROVE  Holds(v, reg'[v].live, pending')
    OBVIOUS
  <2>1. CASE v = w  BY <2>1, <1>5, <1>8
  <2>2. CASE v # w  BY <2>2, <1>7, <1>1, HoldsMore DEF WorkspacesInv, HoldingInv, Live
  <2> QED  BY <2>1, <2>2
<1>10. CallOK(d)'
  BY <1>1, <1>3, <1>5 DEF d, Call, CallOK, Worktrees
<1>11. shadow' \in [ws : Workspaces, st : States] /\ shadow'.ws = w /\ shadow'.st = Restored(w)
  BY <1>1, <1>3, <1>5
<1> HIDE DEF d
<1>12. HoldingInv'
  BY <1>1, <1>3, OthersHydrate, <1>5, <1>6, <1>7, <1>8, <1>9, <1>10, <1>11 DEF WorkspacesInv, HoldingInv, Live
<1>13. CallsInv'  BY <1>1, <1>3, OthersHydrate, <1>5, <1>6, <1>7, <1>8, <1>9, <1>10, <1>11, CallsWith
<1> QED  BY <1>12, <1>13 DEF WorkspacesInv

LEMMA CallFailsStep ==
    ASSUME WorkspacesInv, NEW c \in calls, CallFails(c)
    PROVE  WorkspacesInv'
<1> QED  BY DEF WorkspacesInv, HoldingInv, CallsInv, Live, CallFails, CallOK

\* The shadow and the registry both take what the active workspace holds now.
LEMMA DispatchStep ==
    ASSUME WorkspacesInv, NEW st, Holds(active, st, pending), Dispatched(shadow, reg, st),
           UNCHANGED <<active, pending>>, inactive' \in [Workspaces -> States \cup {Nobody}],
           OnlyHydrations(calls')
    PROVE  WorkspacesInv'
<1>1. st \in States /\ st # Nobody  BY NobodyAssumption DEF Holds
<1>3. shadow' \in [ws : Workspaces, st : States] /\ shadow'.ws = active /\ shadow'.st = st
  BY <1>1 DEF WorkspacesInv, HoldingInv, Dispatched
<1>4. /\ RegOK(reg') /\ reg'[active].live = st /\ reg'[active].known
      /\ \A v \in Workspaces : v # active => reg'[v] = reg[v]
  BY <1>1 DEF RegOK, WorkspacesInv, HoldingInv, Dispatched
<1>5. \A v \in Workspaces : reg'[v].known /\ reg'[v].live # Nobody => Holds(v, reg'[v].live, pending')
  <2> SUFFICES ASSUME NEW v \in Workspaces, reg'[v].known, reg'[v].live # Nobody
               PROVE  Holds(v, reg'[v].live, pending)
    OBVIOUS
  <2> QED  BY <1>4 DEF WorkspacesInv, HoldingInv, Live
<1>7. CallsInv'
  BY CallsHydrate
<1> QED  BY <1>1, <1>3, <1>4, <1>5, <1>7 DEF WorkspacesInv, HoldingInv, Live

LEMMA ShellsBoundStep ==
    ASSUME WorkspacesInv, NEW c \in calls, ShellsBound(c)
    PROVE  WorkspacesInv'
<1>4. Holds(active, Bound(shadow.st, c.ws, c.wt), pending)
  BY BoundHolds DEF WorkspacesInv, HoldingInv, CallsInv, CallOK
<1> QED  BY OthersHydrate, <1>4, DispatchStep DEF WorkspacesInv, HoldingInv, CallsInv, ShellsBound

LEMMA ShellsBoundScopedStep ==
    ASSUME WorkspacesInv, NEW c \in calls, ShellsBoundScoped(c)
    PROVE  WorkspacesInv'
<1> DEFINE w == c.ws
           st == Bound(c.local, w, c.wt)
           r == IF reg[w].known THEN [reg EXCEPT ![w].live = st] ELSE reg
<1>1. c.kind = "recreate" /\ c.local # Nobody /\ UNCHANGED <<active, inactive>>
  BY DEF ShellsBoundScoped
<1>2. /\ w = active /\ c.wt \in Worktrees /\ c.then \in Clicks
      /\ Holds(active, c.local, pending)
  BY <1>1 DEF WorkspacesInv, CallsInv, CallOK
<1>3. OnlyHydrations(calls \ {c})  BY <1>1, OthersHydrate
<1>4. Holds(active, st, pending) /\ st \in States /\ st # Nobody
  <2>1. Holds(active, st, pending)  BY <1>2, BoundHolds
  <2> QED  BY <2>1, NobodyAssumption DEF Holds
<1> HIDE DEF st
<1>5. /\ RegOK(r) /\ r[active].live = st /\ r[active].known
      /\ \A v \in Workspaces : v # active => r[v] = reg[v]
  BY <1>2, <1>4 DEF RegOK, WorkspacesInv, HoldingInv
<1>6. \A v \in Workspaces : r[v].known /\ r[v].live # Nobody => Holds(v, r[v].live, pending)
  BY <1>4, <1>5 DEF WorkspacesInv, HoldingInv, Live
<1>7. CASE c.then = Nobody
  <2>1. reg' = r /\ calls' = calls \ {c} /\ UNCHANGED <<shadow, pending>>
    BY <1>7 DEF ShellsBoundScoped, st
  <2> HIDE DEF r
  <2>3. HoldingInv'  BY <1>1, <1>3, <1>4, <1>5, <2>1, <1>6 DEF WorkspacesInv, HoldingInv, Live
  <2> QED  BY <2>3, <1>3, <2>1, CallsHydrate DEF WorkspacesInv
<1>8. CASE c.then # Nobody
  <2>1. SelectWorktree(active, c.then[1], c.then[2], shadow, r, calls \ {c})
    BY <1>2, <1>8 DEF ShellsBoundScoped, st
  <2>2. c.then[1] \in Worktrees  BY <1>2, <1>8 DEF Clicks
  <2> HIDE DEF r
  <2>3. /\ active \in Workspaces
        /\ shadow.ws = active /\ shadow \in [ws : Workspaces, st : States]
        /\ Holds(active, shadow.st, pending)
        /\ pending \subseteq Workspaces \X Worktrees
        /\ active' = active
        /\ inactive' \in [Workspaces -> States \cup {Nobody}]
    BY <1>1 DEF WorkspacesInv, HoldingInv
  <2> QED  BY <1>3, <1>5, <1>6, <2>1, <2>2, <2>3, SelectStep
<1> QED  BY <1>7, <1>8

\* The calls of a state that keeps the active workspace and what waits, hydrations aside.
LEMMA CallsStay ==
    ASSUME WorkspacesInv, active' = active, pending \subseteq pending',
           calls' \subseteq calls \cup {Call("hydrate", w, Nobody, Nobody) : w \in Workspaces}
    PROVE  /\ \A c \in calls' : CallOK(c)'
           /\ \A c, d \in calls' : c.kind # "hydrate" /\ d.kind # "hydrate" => c = d
<1>1. ASSUME NEW c \in calls' PROVE CallOK(c)'
  <2>1. CASE c \in calls  BY <2>1, HoldsMore DEF CallOK, WorkspacesInv, CallsInv
  <2>2. CASE c \notin calls
    <3>1. PICK w \in Workspaces : c = Call("hydrate", w, Nobody, Nobody)  BY <2>2
    <3> QED  BY <3>1 DEF Call, CallOK, Worktrees
  <2> QED  BY <2>1, <2>2
<1>2. ASSUME NEW c \in calls', NEW d \in calls', c.kind # "hydrate", d.kind # "hydrate" PROVE c = d
  BY <1>2 DEF WorkspacesInv, CallsInv, Call
<1> QED  BY <1>1, <1>2

LEMMA HydrateStep ==
    ASSUME WorkspacesInv, Hydrate
    PROVE  WorkspacesInv'
<1>1. PICK w \in pickNextHydration : calls' = calls \cup {Call("hydrate", w, Nobody, Nobody)}
  BY DEF Hydrate
<1>4. /\ \A c \in calls' : CallOK(c)'
      /\ \A c, d \in calls' : c.kind # "hydrate" /\ d.kind # "hydrate" => c = d
  BY <1>1, CallsStay DEF Hydrate, pickNextHydration, Workspaces, Range
<1> QED  BY <1>4 DEF WorkspacesInv, HoldingInv, CallsInv, Live, Hydrate

LEMMA HydratedStep ==
    ASSUME WorkspacesInv, NEW c \in calls, Hydrated(c)
    PROVE  WorkspacesInv'
<1> DEFINE w == c.ws
<1>1. /\ c.kind = "hydrate"
      /\ calls' = calls \ {c}
      /\ UNCHANGED <<active, shadow, inactive>>
  BY DEF Hydrated
<1>2. w \in Workspaces  BY DEF WorkspacesInv, CallsInv, CallOK
<1>3. CASE Live(w)  BY <1>1, <1>3 DEF WorkspacesInv, HoldingInv, CallsInv, Live, Hydrated, CallOK
<1>4. CASE ~Live(w)
  <2> HIDE DEF w
  <2>2. pending' \subseteq Workspaces \X Worktrees /\ pending \subseteq pending'
    BY <1>2, <1>4 DEF WorkspacesInv, HoldingInv, Hydrated, w
  <2>3. Holds(w, Restored(w), pending') /\ Restored(w) \in States /\ Restored(w) # Nobody
    BY <1>2, <1>4, RestoredHolds DEF Worktrees, Hydrated, w
  <2>4. /\ RegOK(reg') /\ reg'[w] = LiveWith(Restored(w))
        /\ \A v \in Workspaces : v # w => reg'[v] = reg[v]
    <3>1. LiveWith(Restored(w)) \in [known : BOOLEAN, live : States \cup {Nobody}, err : BOOLEAN]
      BY <2>3 DEF LiveWith
    <3> QED  BY <1>2, <1>4, <3>1 DEF RegOK, WorkspacesInv, HoldingInv, Hydrated, w
  <2>6. \A v \in Workspaces : reg'[v].known /\ reg'[v].live # Nobody => Holds(v, reg'[v].live, pending')
    <3> SUFFICES ASSUME NEW v \in Workspaces, reg'[v].known, reg'[v].live # Nobody
                 PROVE  Holds(v, reg'[v].live, pending')
      OBVIOUS
    <3>1. CASE v = w  BY <3>1, <2>3, <2>4 DEF LiveWith
    <3>2. CASE v # w  BY <3>2, <2>4, <2>2, HoldsMore DEF WorkspacesInv, HoldingInv, Live
    <3> QED  BY <3>1, <3>2
  <2>8. reg'[active] = reg[active]  BY <2>4, <1>4 DEF WorkspacesInv, HoldingInv
  <2>9. Holds(active, shadow.st, pending')  BY <2>2, HoldsMore DEF WorkspacesInv, HoldingInv
  <2>10. /\ \A d \in calls' : CallOK(d)'
         /\ \A d, e \in calls' : d.kind # "hydrate" /\ e.kind # "hydrate" => d = e
    BY <1>1, <2>2, CallsStay
  <2> QED  BY <1>1, <2>2, <2>4, <2>6, <2>8, <2>9, <2>10 DEF WorkspacesInv, HoldingInv, CallsInv, Live
<1> QED  BY <1>3, <1>4

LEMMA HydrationFailsStep ==
    ASSUME WorkspacesInv, NEW c \in calls, HydrationFails(c)
    PROVE  WorkspacesInv'
<1> DEFINE w == c.ws
<1>1. /\ calls' = calls \ {c}
      /\ reg' = IF Live(w) THEN reg ELSE [reg EXCEPT ![w] = [Dormant EXCEPT !.err = TRUE]]
      /\ UNCHANGED <<active, shadow, inactive, pending>>
  BY DEF HydrationFails
<1>2. w \in Workspaces  BY DEF WorkspacesInv, CallsInv, CallOK
<1> HIDE DEF w
<1>3. /\ \A d \in calls' : CallOK(d)'
      /\ \A d, e \in calls' : d.kind # "hydrate" /\ e.kind # "hydrate" => d = e
  BY <1>1, CallsStay
<1>4. CASE Live(w)  BY <1>1, <1>3, <1>4 DEF WorkspacesInv, HoldingInv, CallsInv, Live
<1>5. CASE ~Live(w)
  <2> DEFINE e == [Dormant EXCEPT !.err = TRUE]
  <2>1. e \in [known : BOOLEAN, live : States \cup {Nobody}, err : BOOLEAN] /\ e.live = Nobody
    BY DEF Dormant
  <2> HIDE DEF e
  <2>2. /\ RegOK(reg') /\ reg'[w] = e
        /\ \A v \in Workspaces : v # w => reg'[v] = reg[v]
    BY <1>1, <1>2, <1>5, <2>1 DEF RegOK, WorkspacesInv, HoldingInv, e
  <2>3. w # active  BY <1>5 DEF WorkspacesInv, HoldingInv
  <2>4. \A v \in Workspaces : reg'[v].known /\ reg'[v].live # Nobody => Holds(v, reg'[v].live, pending)
    BY <2>1, <2>2 DEF WorkspacesInv, HoldingInv, CallsInv, Live
  <2> QED  BY <1>1, <1>3, <2>2, <2>3, <2>4 DEF WorkspacesInv, HoldingInv, CallsInv, Live
<1> QED  BY <1>4, <1>5

LEMMA UseWorktreeStep ==
    ASSUME WorkspacesInv, UseWorktree, Overlap = FALSE
    PROVE  WorkspacesInv'
<1> DEFINE i == shadow.st.sel
           st == [shadow.st EXCEPT !.at[i] = "used"]
<1>1. /\ Calm
      /\ Dispatched(shadow, reg, st)
      /\ inactive' = [inactive EXCEPT ![active] = Nobody]
      /\ UNCHANGED <<active, pending, calls>>
  BY DEF UseWorktree
<1>3. Holds(active, st, pending)  BY FilledHolds DEF WorkspacesInv, HoldingInv, States
<1> HIDE DEF st, i
<1>4. OnlyHydrations(calls')  BY <1>1, CalmHydrates
<1>5. inactive' \in [Workspaces -> States \cup {Nobody}]  BY <1>1 DEF WorkspacesInv, HoldingInv
<1> QED  BY <1>1, <1>3, <1>4, <1>5, DispatchStep

LEMMA BackgroundEventStep ==
    ASSUME WorkspacesInv, NEW w \in Workspaces, BackgroundEvent(w), Stale = FALSE
    PROVE  WorkspacesInv'
<1> DEFINE base == IF inactive[w] # Nobody THEN inactive[w] ELSE reg[w].live
<1> HIDE DEF base
<1>3. reg' = reg  BY DEF WorkspacesInv, HoldingInv, CallsInv, RegOK, BackgroundEvent
<1>4. inactive' \in [Workspaces -> States \cup {Nobody}]
  BY DEF WorkspacesInv, HoldingInv, CallsInv, RegOK, BackgroundEvent
<1> QED  BY <1>3, <1>4 DEF WorkspacesInv, HoldingInv, CallsInv, Live, CallOK, BackgroundEvent

LEMMA RefreshWorktreesStep ==
    ASSUME WorkspacesInv, RefreshWorktrees, Overlap = FALSE
    PROVE  WorkspacesInv'
<1>1. PICK c : /\ c = Call("refresh", active, Nobody, Nobody)
               /\ calls' = {c}
               /\ UNCHANGED <<reg, active, shadow, inactive, pending>>
  BY DEF RefreshWorktrees
<1>2. CallOK(c)'  BY <1>1 DEF Call, CallOK, Worktrees, WorkspacesInv, HoldingInv
<1>3. OnlyHydrations({})  BY DEF OnlyHydrations
<1>5. HoldingInv'  BY <1>1, <1>2, <1>3 DEF WorkspacesInv, HoldingInv, Live
<1> QED  BY <1>5, <1>1, <1>2, <1>3, CallsWith DEF WorkspacesInv

LEMMA RefreshedStep ==
    ASSUME WorkspacesInv, NEW c \in calls, Refreshed(c)
    PROVE  WorkspacesInv'
<1> DEFINE st == reg[active].live
<1>1. c.kind = "refresh" /\ calls' = calls \ {c} /\ UNCHANGED <<active, inactive, pending>>
  BY DEF Refreshed
<1>3. Holds(active, st, pending) /\ st # Nobody  BY DEF WorkspacesInv, HoldingInv, CallsInv, Live
<1>5. reg' = reg  BY <1>1, <1>3 DEF WorkspacesInv, HoldingInv, RegOK, Refreshed, Holds, CallsInv, CallOK
<1>6. shadow' \in [ws : Workspaces, st : States] /\ shadow'.ws = active /\ shadow'.st = st
  BY <1>3, <1>1 DEF WorkspacesInv, HoldingInv, CallsInv, Holds, Refreshed, CallOK
<1> HIDE DEF st
<1>7. \A d \in calls' : CallOK(d)'  BY <1>1 DEF WorkspacesInv, HoldingInv, CallsInv, CallOK
<1> QED  BY <1>1, <1>3, <1>5, <1>6, <1>7 DEF WorkspacesInv, HoldingInv, CallsInv, Live

LEMMA RemoveWorkspaceStep ==
    ASSUME WorkspacesInv, NEW w \in Workspaces, RemoveWorkspace(w)
    PROVE  WorkspacesInv'
<1> DEFINE e == [reg[w] EXCEPT !.known = FALSE, !.live = Nobody]
<1>2. e \in [known : BOOLEAN, live : States \cup {Nobody}, err : BOOLEAN] /\ e.live = Nobody
  BY DEF WorkspacesInv, HoldingInv, RegOK
<1>3. reg' = [reg EXCEPT ![w] = e]  BY DEF WorkspacesInv, HoldingInv, RegOK, RemoveWorkspace
<1> HIDE DEF e
<1>4. /\ RegOK(reg') /\ reg'[w] = e
      /\ \A v \in Workspaces : v # w => reg'[v] = reg[v]
  BY <1>2, <1>3 DEF RegOK, WorkspacesInv, HoldingInv
<1>6. \A c \in calls' : CallOK(c)'  BY DEF WorkspacesInv, HoldingInv, CallsInv, CallOK, RemoveWorkspace
<1> QED  BY <1>4, <1>2, <1>6 DEF WorkspacesInv, HoldingInv, CallsInv, Live, RemoveWorkspace

LEMMA LifecycleStep ==
    ASSUME WorkspacesInv, [LifecycleNext]_lvars, Overlap = FALSE, Stale = FALSE
    PROVE  WorkspacesInv'
<1>1. CASE UNCHANGED lvars  BY <1>1 DEF lvars, WorkspacesInv, HoldingInv, CallsInv, Live, CallOK
<1>2. ASSUME NEW w \in Workspaces, NEW i \in Worktrees, ClickWorktree(w, i) PROVE WorkspacesInv'
  BY <1>2, ClickWorktreeStep
<1>3. ASSUME NEW w \in Workspaces, ClickWorkspace(w) PROVE WorkspacesInv'
  BY <1>3, ClickWorkspaceStep
<1>4. ASSUME NEW w \in Workspaces, BackgroundEvent(w) PROVE WorkspacesInv'
  BY <1>4, BackgroundEventStep
<1>5. ASSUME NEW w \in Workspaces, RemoveWorkspace(w) PROVE WorkspacesInv'
  BY <1>5, RemoveWorkspaceStep
<1>6. ASSUME NEW c \in calls, Answered(c) PROVE WorkspacesInv'
  BY <1>6, ActivatedStep, ShellsBoundStep, ShellsBoundScopedStep, RefreshedStep DEF Answered
<1>7. ASSUME NEW c \in calls, CallFails(c) PROVE WorkspacesInv'  BY <1>7, CallFailsStep
<1>8. ASSUME NEW c \in calls, Hydrated(c) PROVE WorkspacesInv'  BY <1>8, HydratedStep
<1>9. ASSUME NEW c \in calls, HydrationFails(c) PROVE WorkspacesInv'  BY <1>9, HydrationFailsStep
<1>10. CASE Hydrate  BY <1>10, HydrateStep
<1>11. CASE UseWorktree  BY <1>11, UseWorktreeStep
<1>12. CASE RefreshWorktrees  BY <1>12, RefreshWorktreesStep
<1> QED
  BY <1>1, <1>2, <1>3, <1>4, <1>5, <1>6, <1>7, <1>8, <1>9, <1>10, <1>11, <1>12 DEF LifecycleNext

\* A workspace that is live and stays is live after any step.
LEMMA StaysLive ==
    ASSUME WorkspacesInv, WorkspacesInv', LifecycleNext, Overlap = FALSE, Stale = FALSE,
           NEW w \in Workspaces, Live(w)
    PROVE  reg'[w].live # Nobody \/ ~reg'[w].known
<1> DEFINE Stays == reg'[w].live # Nobody \/ ~reg'[w].known
<1>1. active \in Workspaces /\ reg'[active'].live # Nobody
  BY DEF WorkspacesInv, HoldingInv, Live
<1>2. reg \in [Workspaces -> [known : BOOLEAN, live : States \cup {Nobody}, err : BOOLEAN]]
  BY DEF WorkspacesInv, HoldingInv, RegOK
<1>3. ASSUME reg' = reg \/ w = active' PROVE Stays  BY <1>1, <1>3 DEF Live
<1>4. ASSUME NEW v \in Workspaces, NEW i, NEW clicked, NEW sh, NEW others, NEW r,
             SelectWorktree(v, i, clicked, sh, r, others), sh.ws = active', r[w] = reg[w],
             r \in [Workspaces -> [known : BOOLEAN, live : States \cup {Nobody}, err : BOOLEAN]]
      PROVE  Stays  BY <1>1, <1>4 DEF Live, SelectWorktree, Dispatched
<1>5. ASSUME NEW v \in Workspaces, NEW i \in Worktrees, ClickWorktree(v, i) PROVE Stays
  <2>1. CASE v = active
    <3>2. shadow.ws = active  BY DEF WorkspacesInv, HoldingInv
    <3> QED  BY <1>2, <1>4, <1>5, <2>1, <3>2 DEF ClickWorktree
  <2>2. CASE v # active /\ Live(v)  BY <1>2, <1>4, <1>5, <2>2 DEF ClickWorktree
  <2>3. CASE v # active /\ ~Live(v)  BY <1>3, <1>5, <2>3 DEF ClickWorktree
  <2> QED  BY <2>1, <2>2, <2>3
<1>6. ASSUME NEW v \in Workspaces, ClickWorkspace(v) PROVE Stays  BY <1>3, <1>6 DEF ClickWorkspace
<1>7. ASSUME NEW v \in Workspaces, BackgroundEvent(v) PROVE Stays  BY <1>7, <1>2 DEF Live, BackgroundEvent
<1>8. ASSUME NEW v \in Workspaces, RemoveWorkspace(v) PROVE Stays  BY <1>2, <1>8 DEF Live, RemoveWorkspace
<1>9. ASSUME NEW c \in calls, Activated(c) PROVE Stays  BY <1>1, <1>9 DEF Live, Activated
<1>10. ASSUME NEW c \in calls, ShellsBound(c) PROVE Stays
  BY <1>1, <1>10 DEF Live, ShellsBound, WorkspacesInv, HoldingInv, Dispatched
<1>11. ASSUME NEW c \in calls, ShellsBoundScoped(c) PROVE Stays
  <2> SUFFICES ASSUME w # active' PROVE reg'[w] = reg[w]  BY <1>1 DEF Live
  <2> QED
    BY <1>1, <1>2, <1>11 DEF ShellsBoundScoped, SelectWorktree, Dispatched, WorkspacesInv, HoldingInv, CallsInv,
       CallOK
<1>12. ASSUME NEW c \in calls, Refreshed(c) PROVE Stays
  BY <1>1, <1>12, <1>2 DEF Live, Refreshed, WorkspacesInv, CallsInv, CallOK
<1>13. ASSUME NEW c \in calls, CallFails(c) PROVE Stays  BY <1>3, <1>13 DEF CallFails
<1>14. ASSUME NEW c \in calls, Hydrated(c) \/ HydrationFails(c) PROVE Stays
  BY <1>2, <1>14 DEF Live, Hydrated, HydrationFails
<1>15. CASE Hydrate \/ RefreshWorktrees  BY <1>3, <1>15 DEF Hydrate, RefreshWorktrees
<1>16. CASE UseWorktree  BY <1>1, <1>16 DEF Live, UseWorktree, WorkspacesInv, HoldingInv, Dispatched
<1> QED
  BY <1>5, <1>6, <1>7, <1>8, <1>9, <1>10, <1>11, <1>12, <1>13, <1>14, <1>15, <1>16
  DEF LifecycleNext, Answered

-----------------------------------------------------------------------------
(* The shells of a worktree: what is left of a sequence without its empty   *)
(* places.                                                                  *)

\* A set of numbers has a least one.
LEMMA LeastOf ==
    ASSUME NEW T \in SUBSET Nat, T # {}
    PROVE  \E x \in T : \A y \in T : x <= y
<1>2. PICK x \in T : \A y \in T : ~(<<y, x>> \in OpToRel(<, Nat))  BY NatLessThanWellFounded, WFMin
<1>3. \A y \in T : ~(y < x)  BY <1>2 DEF OpToRel
<1> QED  BY <1>3

\* The places of s with something in them, up to the nth, in their order are those r names.
Follows(s, n, r, pos) ==
    /\ pos \in [1..Len(r) -> 1..n]
    /\ \A k, l \in 1..Len(r) : k < l => pos[k] < pos[l]
    /\ \A k \in 1..Len(r) : r[k] = s[pos[k]] /\ r[k] # None
    /\ \A i \in 1..n : s[i] # None => \E k \in 1..Len(r) : pos[k] = i

\* The recursive function of Running, up to k.
RunStep(s, g, n) == IF s[n] = None THEN g[n - 1] ELSE Append(g[n - 1], s[n])
RunsUpTo(s, g, k) == g = [n \in 0..k |-> IF n = 0 THEN <<>> ELSE RunStep(s, g, n)]

\* What Running returns: its recursive function at the end.
LEMMA RunningIsLast ==
    ASSUME NEW s
    PROVE  Running(s) = (CHOOSE g : RunsUpTo(s, g, Len(s)))[Len(s)]
  BY DEF Running, RunsUpTo, RunStep

\* One more place.
LEMMA RunsExtend ==
    ASSUME NEW s, NEW x \in Nat, x # 0, NEW g, RunsUpTo(s, g, x - 1)
    PROVE  \E h : RunsUpTo(s, h, x)
<1> DEFINE h == [n \in 0..x |-> IF n = x THEN RunStep(s, g, x) ELSE g[n]]
<1>1. \A n \in 0..(x - 1) : g[n] = IF n = 0 THEN <<>> ELSE RunStep(s, g, n)  BY DEF RunsUpTo
<1>2. h[x] = RunStep(s, g, x) /\ \A n \in 0..(x - 1) : h[n] = g[n]  OBVIOUS
<1>3. h = [n \in 0..x |-> h[n]]  OBVIOUS
<1> HIDE DEF h
<1>4. \A n \in 1..x : RunStep(s, h, n) = RunStep(s, g, n)
  <2> SUFFICES ASSUME NEW n \in 1..x PROVE RunStep(s, h, n) = RunStep(s, g, n)  OBVIOUS
  <2> QED  BY <1>2 DEF RunStep
<1>5. \A n \in 0..x : h[n] = IF n = 0 THEN <<>> ELSE RunStep(s, h, n)
  <2> SUFFICES ASSUME NEW n \in 0..x PROVE h[n] = IF n = 0 THEN <<>> ELSE RunStep(s, h, n)  OBVIOUS
  <2>1. CASE n = 0  BY <1>1, <1>2, <2>1
  <2>2. CASE n = x  BY <1>2, <1>4, <2>2
  <2>3. CASE n # 0 /\ n # x
    <3>1. n \in 0..(x - 1) /\ n \in 1..x  BY <2>3
    <3> QED  BY <1>1, <1>2, <1>4, <2>3, <3>1
  <2> QED  BY <2>1, <2>2, <2>3
<1> QED  BY <1>3, <1>5 DEF RunsUpTo

\* The recursive function is there for every length: no number is the first without it.
LEMMA RunsExist ==
    ASSUME NEW s, NEW n \in Nat
    PROVE  \E g : RunsUpTo(s, g, n)
<1> DEFINE T == {k \in Nat : ~\E g : RunsUpTo(s, g, k)}
<1>1. T = {}
  <2> SUFFICES ASSUME T # {} PROVE FALSE  OBVIOUS
  <2>1. PICK x \in T : \A y \in T : x <= y  BY LeastOf
  <2>3. x # 0
    <3>1. SUFFICES \E g : RunsUpTo(s, g, 0)  BY <2>1
    <3> DEFINE g == [k \in 0..0 |-> <<>>]
    <3>2. g = [k \in 0..0 |-> IF k = 0 THEN <<>> ELSE RunStep(s, g, k)]
      <4> HIDE DEF RunStep
      <4> QED  OBVIOUS
    <3> QED  BY <3>2 DEF RunsUpTo
  <2>5. PICK g : RunsUpTo(s, g, x - 1)  BY <2>1, <2>3
  <2> QED  BY <2>1, <2>3, <2>5, RunsExtend
<1> QED  BY <1>1

\* A shell in the next place is the next one that is left.
LEMMA FollowsMore ==
    ASSUME NEW s, NEW V, NEW r \in Seq(V), NEW pos, NEW n \in Nat, s[n + 1] \in V, s[n + 1] # None,
           Follows(s, n, r, pos)
    PROVE  \E more : Follows(s, n + 1, Append(r, s[n + 1]), more)
<1> DEFINE l == Len(r)
           q == Append(r, s[n + 1])
           more == [k \in 1..(l + 1) |-> IF k = l + 1 THEN n + 1 ELSE pos[k]]
<1>1. l \in Nat /\ Len(q) = l + 1 /\ q[l + 1] = s[n + 1] /\ \A k \in 1..l : q[k] = r[k]  OBVIOUS
<1>3. more[l + 1] = n + 1 /\ \A k \in 1..l : more[k] = pos[k]  BY <1>1
<1>4. more \in [1..(l + 1) -> 1..(n + 1)]  BY <1>1 DEF Follows
<1> HIDE DEF more, q
<1>5. \A k, m \in 1..(l + 1) : k < m => more[k] < more[m]
  <2> SUFFICES ASSUME NEW k \in 1..(l + 1), NEW m \in 1..(l + 1), k < m
               PROVE  more[k] < more[m]  OBVIOUS
  <2>2. pos[k] \in 1..n  BY <1>1 DEF Follows
  <2>3. CASE m = l + 1  BY <1>3, <1>1, <2>2, <2>3
  <2>4. CASE m # l + 1
    <3>1. m \in 1..l  BY <1>1, <2>4
    <3> QED  BY <1>3, <1>1, <3>1 DEF Follows
  <2> QED  BY <2>3, <2>4
<1>6. \A k \in 1..(l + 1) : q[k] = s[more[k]] /\ q[k] # None
  <2> SUFFICES ASSUME NEW k \in 1..(l + 1) PROVE q[k] = s[more[k]] /\ q[k] # None  OBVIOUS
  <2>1. CASE k = l + 1  BY <1>1, <1>3, <2>1
  <2>2. CASE k # l + 1  BY <1>1, <1>3, <2>2 DEF Follows
  <2> QED  BY <2>1, <2>2
<1>7. \A i \in 1..(n + 1) : s[i] # None => \E k \in 1..(l + 1) : more[k] = i
  <2> SUFFICES ASSUME NEW i \in 1..(n + 1), s[i] # None PROVE \E k \in 1..(l + 1) : more[k] = i  OBVIOUS
  <2>1. CASE i = n + 1  BY <1>3, <2>1, <1>1
  <2>2. CASE i # n + 1
    <3>2. PICK k \in 1..l : pos[k] = i  BY <2>2 DEF Follows
    <3> QED  BY <1>3, <3>2, <1>1
  <2> QED  BY <2>1, <2>2
<1> QED  BY <1>1, <1>4, <1>5, <1>6, <1>7 DEF Follows, q

\* Running keeps the shells and their order, wherever the gaps are.
LEMMA RunningFollows ==
    ASSUME NEW V, NEW s \in Seq(V \cup {None})
    PROVE  Running(s) \in Seq(V) /\ \E pos : Follows(s, Len(s), Running(s), pos)
<1> DEFINE N == Len(s)
           g == CHOOSE h : RunsUpTo(s, h, N)
           Good(n) == g[n] \in Seq(V) /\ \E pos : Follows(s, n, g[n], pos)
           T == {n \in 0..N : ~Good(n)}
<1>1. N \in Nat /\ \A i \in 1..N : s[i] \in V \cup {None}  OBVIOUS
<1>2. RunsUpTo(s, g, N)  BY <1>1, RunsExist
<1>3. Running(s) = g[N]  BY RunningIsLast
<1> HIDE DEF g, N
<1>4. \A n \in 0..N : g[n] = IF n = 0 THEN <<>> ELSE RunStep(s, g, n)  BY <1>2 DEF RunsUpTo
<1>5. T = {}
  <2> SUFFICES ASSUME T # {} PROVE FALSE  OBVIOUS
  <2>1. PICK x \in T : \A y \in T : x <= y
    <3>1. T \in SUBSET Nat  BY <1>1
    <3> QED  BY <3>1, LeastOf
  <2>2. x \in 0..N /\ ~Good(x)  BY <2>1
  <2>3. x # 0
    <3> SUFFICES ASSUME x = 0 PROVE FALSE  OBVIOUS
    <3>2. Follows(s, 0, <<>>, <<>>)  BY DEF Follows
    <3>3. <<>> \in Seq(V)  OBVIOUS
    <3> QED  BY <2>2, <1>4, <3>2, <3>3
  <2> DEFINE n == x - 1
  <2>4. n \in Nat /\ n \in 0..N /\ n + 1 = x /\ x \in 1..N  BY <1>1, <2>2, <2>3
  <2>5. Good(n)  BY <2>1, <2>4
  <2> HIDE DEF n
  <2>6. PICK pos : Follows(s, n, g[n], pos)  BY <2>5
  <2>7. g[x] = IF s[x] = None THEN g[n] ELSE Append(g[n], s[x])  BY <1>4, <2>2, <2>3, <2>4 DEF RunStep
  <2>8. CASE s[x] = None
    <3>2. Follows(s, x, g[n], pos)  BY <2>6, <2>4, <2>8 DEF Follows
    <3> QED  BY <2>2, <2>5, <2>7, <2>8, <3>2
  <2>9. CASE s[x] # None
    <3>1. g[x] = Append(g[n], s[x])  BY <2>7, <2>9
    <3>3. \E more : Follows(s, n + 1, Append(g[n], s[n + 1]), more)
      BY <2>4, <2>5, <2>6, <2>9, <1>1, FollowsMore
    <3>4. Append(g[n], s[x]) \in Seq(V)  BY <2>5, <1>1, <2>4, <2>9
    <3> QED  BY <2>2, <2>4, <3>1, <3>3, <3>4
  <2> QED  BY <2>8, <2>9
<1> QED  BY <1>3, <1>5, <1>1 DEF N

\* No shell is there twice.
Once(slots) == \A i, j \in DOMAIN slots : slots[i] = slots[j] /\ slots[i] # None => i = j

Occupants(s) == {i \in DOMAIN s : s[i] # None}

\* As many shells are left as places hold one.
LEMMA RunningCounts ==
    ASSUME NEW V, NEW s \in Seq(V \cup {None})
    PROVE  /\ Len(Running(s)) = Cardinality(Occupants(s))
           /\ IsFiniteSet(Occupants(s))
<1> DEFINE r == Running(s)
           N == Len(s)
           H == Occupants(s)
<1>2. PICK pos : Follows(s, N, r, pos)  BY RunningFollows
<1>3. N \in Nat /\ DOMAIN s = 1..N  OBVIOUS
<1> HIDE DEF r, N
<1>5. pos \in [1..Len(r) -> H]
  <2>2. \A k \in 1..Len(r) : pos[k] \in H  BY <1>2, <1>3 DEF Follows, Occupants
  <2> QED  BY <1>2, <2>2 DEF Follows
<1>6. \A k, l \in 1..Len(r) : pos[k] = pos[l] => k = l
  <2> SUFFICES ASSUME NEW k \in 1..Len(r), NEW l \in 1..Len(r), pos[k] = pos[l] PROVE k = l  OBVIOUS
  <2>2. ~(k < l) /\ ~(l < k)  BY <1>2 DEF Follows
  <2> QED  BY RunningFollows, <2>2
<1>9. ExistsBijection(1..Len(r), H)
  BY <1>5, <1>6, <1>2, <1>3 DEF ExistsBijection, Bijection, Injection, Surjection, IsInjective, Follows,
     Occupants
<1> QED  BY RunningFollows, <1>9, FS_CountingElements, FS_NatBijection DEF r

\* What is left holds no gap and nothing else than the shells.
LEMMA RunningIs ==
    ASSUME NEW V, NEW s \in Seq(V \cup {None})
    PROVE  /\ Running(s) \in Seq(V)
           /\ \A k \in 1..Len(Running(s)) : Running(s)[k] # None
           /\ Range(Running(s)) = Range(s) \ {None}
           /\ Len(Running(s)) <= Len(s)
           /\ None \in Range(s) => Len(Running(s)) < Len(s)
           /\ None \notin Range(s) => Len(Running(s)) = Len(s)
<1> DEFINE r == Running(s)
           N == Len(s)
           H == Occupants(s)
<1>1. r \in Seq(V) /\ \E pos : Follows(s, N, r, pos)  BY RunningFollows
<1>2. PICK pos : Follows(s, N, r, pos)  BY <1>1
<1>3. N \in Nat /\ DOMAIN s = 1..N  OBVIOUS
<1>4. Len(r) = Cardinality(H) /\ IsFiniteSet(H)  BY RunningCounts
<1> HIDE DEF r, N
<1>5. Len(r) \in Nat /\ DOMAIN r = 1..Len(r)  BY <1>1
<1>6. Range(r) = Range(s) \ {None}
  <2>4. \A v : v \in Range(s) <=> \E i \in DOMAIN s : s[i] = v  BY DEF Range
  <2>5. \A v \in Range(r) : v \in Range(s) \ {None}  BY <1>2, <1>3, <1>5, <2>4 DEF Follows, Range
  <2>6. \A v \in Range(s) \ {None} : v \in Range(r)  BY <1>2, <1>3, <1>5, <2>4 DEF Follows, Range
  <2> QED  BY <2>5, <2>6
<1>8. IsFiniteSet(1..N) /\ Cardinality(1..N) = N  BY <1>3, FS_Interval
<1>9. Cardinality(H) <= N /\ (Cardinality(H) = N => H = 1..N)  BY <1>8, <1>3, FS_Subset DEF Occupants
<1>10. None \in Range(s) => Len(r) < N
  <2>1. None \in Range(s) => H # 1..N  BY <1>3 DEF Occupants, Range
  <2> QED  BY <1>3, <1>4, <1>5, <1>9, <2>1
<1>11. None \notin Range(s) => Len(r) = N  BY <1>4, <1>8, <1>3 DEF Occupants, Range
<1>12. \A k \in 1..Len(r) : r[k] # None  BY <1>2 DEF Follows
<1> QED  BY <1>1, <1>4, <1>6, <1>9, <1>10, <1>11, <1>12 DEF r, N

\* What was there once is there once, in the order it had.
LEMMA RunningKeepsOrder ==
    ASSUME NEW V, NEW s \in Seq(V \cup {None}), Once(s)
    PROVE  /\ Once(Running(s))
           /\ \A p, q \in V : p # None /\ q # None /\ Before(s, p, q) => Before(Running(s), p, q)
           /\ Len(Running(s)) = Cardinality(Range(s) \ {None})
           /\ IsFiniteSet(Range(s) \ {None})
<1> DEFINE r == Running(s)
           N == Len(s)
<1>1. r \in Seq(V) /\ \E pos : Follows(s, N, r, pos)  BY RunningFollows
<1>2. PICK pos : Follows(s, N, r, pos)  BY <1>1
<1>3. N \in Nat /\ DOMAIN s = 1..N  OBVIOUS
<1> HIDE DEF r, N
<1>4. Len(r) \in Nat /\ DOMAIN r = 1..Len(r)  BY <1>1
<1>5. \A k \in 1..Len(r) : pos[k] \in 1..N /\ r[k] = s[pos[k]] /\ r[k] # None  BY <1>2 DEF Follows
<1>7. Once(r)
  <2> SUFFICES ASSUME NEW k \in 1..Len(r), NEW l \in 1..Len(r), r[k] = r[l] PROVE k = l
    BY <1>4 DEF Once
  <2>2. pos[k] \in Nat  BY <1>5
  <2>3. ~(k < l) /\ ~(l < k)  BY <1>2, <1>3, <1>5, <2>2 DEF Follows, Once
  <2> QED  BY <1>4, <2>3
<1>8. ASSUME NEW p \in V, NEW q \in V, p # None, q # None, Before(s, p, q)
      PROVE  Before(r, p, q)
  <2>1. PICK i \in 1..N, j \in 1..N : i < j /\ s[i] = p /\ s[j] = q  BY <1>3, <1>8 DEF Before
  <2>2. PICK k \in 1..Len(r) : pos[k] = i  BY <1>2, <1>8, <2>1 DEF Follows
  <2>3. PICK l \in 1..Len(r) : pos[l] = j  BY <1>2, <1>8, <2>1 DEF Follows
  <2>4. ~(l < k) /\ k # l  BY <2>1, <2>2, <2>3, <1>2 DEF Follows
  <2> QED  BY <1>4, <2>4, <1>5, <2>1, <2>2, <2>3 DEF Before
<1>9. Range(r) = Range(s) \ {None}  BY RunningIs DEF r
<1> DEFINE B == Range(s) \ {None}
<1>10. r \in Bijection(1..Len(r), B)
  <2>1. r \in [1..Len(r) -> B]
    <3>3. \A k \in 1..Len(r) : r[k] \in B  BY <1>9, <1>4 DEF Range
    <3> HIDE DEF B
    <3> QED  BY <1>1, <3>3
  <2>3. \A b \in B : \E k \in 1..Len(r) : r[k] = b  BY <1>4, <1>9 DEF Range
  <2> QED  BY <2>1, <1>4, <1>5, <1>7, <2>3 DEF Bijection, Injection, Surjection, IsInjective, Once
<1> QED  BY <1>7, <1>8, <1>4, <1>10, FS_CountingElements, FS_NatBijection DEF r, ExistsBijection

\* The shells in the first panes of n, as they were packed.
LEMMA PaddedIs ==
    ASSUME NEW V, NEW r \in Seq(V), \A k \in 1..Len(r) : r[k] # None, Once(r),
           NEW n \in Nat, Len(r) <= n
    PROVE  /\ Padded(r, n) \in [1..n -> V \cup {None}]
           /\ Range(Padded(r, n)) \ {None} = Range(r)
           /\ Len(r) < n => None \in Range(Padded(r, n)) /\ Padded(r, n)[n] = None
           /\ Len(r) = n => Padded(r, n) = r
           /\ Once(Padded(r, n))
           /\ \A p, q : Before(r, p, q) => Before(Padded(r, n), p, q)
<1> DEFINE w == Padded(r, n)
<1>1. Len(r) \in Nat /\ DOMAIN r = 1..Len(r)  OBVIOUS
<1>2. w = [i \in 1..n |-> IF i <= Len(r) THEN r[i] ELSE None]  BY DEF Padded
<1> HIDE DEF w
<1>3. DOMAIN w = 1..n /\ \A i \in 1..n : w[i] = IF i <= Len(r) THEN r[i] ELSE None  BY <1>2
<1>6. w \in [1..n -> V \cup {None}]  BY <1>2, <1>1
<1>7. Range(w) \ {None} = Range(r)  BY <1>1, <1>3 DEF Range
<1>8. Len(r) < n => None \in Range(w) /\ w[n] = None  BY <1>3, <1>1 DEF Range
<1>9. Len(r) = n => w = r
  <2>1. SUFFICES ASSUME Len(r) = n PROVE w = r  OBVIOUS
  <2> QED  BY <1>6, <1>3, <2>1
<1>10. Once(w)
  <2> SUFFICES ASSUME NEW i \in 1..n, NEW j \in 1..n, w[i] = w[j], w[i] # None PROVE i = j
    BY <1>3 DEF Once
  <2>1. i \in 1..Len(r) /\ j \in 1..Len(r)  BY <1>3, <1>1
  <2> QED  BY <1>1, <1>3, <2>1 DEF Once
<1>11. \A p, q : Before(r, p, q) => Before(w, p, q)  BY <1>1, <1>3 DEF Before
<1> QED  BY <1>6, <1>7, <1>8, <1>9, <1>10, <1>11 DEF w

-----------------------------------------------------------------------------
(* The layouts.                                                             *)

Shapes == {"single", "equal", "master", "double-master", "grid"}

\* Layouts of n slots, by their names.
Laids(n, ids, C) ==
    [id : ids, slotCount : {n}, orientation : {"none", "vertical", "horizontal"},
     distribution : Shapes, slotPlacements : C]

IdsOf(n) ==
    IF n = 1 THEN {"1"} ELSE IF n = 2 THEN {"2-v", "2-h"}
    ELSE IF n = 3 THEN {"3-v", "3-h", "3-vm", "3-hm"}
    ELSE IF n = 4 THEN {"4-v", "4-h", "4-vm", "4-hm", "4-grid"}
    ELSE IF n = 5 THEN {"5-v", "5-h", "5-vm", "5-hm", "5-vdm", "5-hdm"}
    ELSE {"6-v", "6-h", "6-vm", "6-hm", "6-vdm", "6-hdm", "6-grid23", "6-grid32"}

\* No layout has two sizes.
LEMMA IdsAreApart ==
    \A n, m \in 1..6 : IdsOf(n) \cap IdsOf(m) # {} => n = m
<1> SUFFICES ASSUME NEW n \in 1..6, NEW m \in 1..6, n < m PROVE IdsOf(n) \cap IdsOf(m) = {}
  OBVIOUS
<1>1. CASE n = 1  BY <1>1 DEF IdsOf
<1>2. CASE n = 2  BY <1>2 DEF IdsOf
<1>3. CASE n = 3  BY <1>3 DEF IdsOf
<1>4. CASE n = 4  BY <1>4 DEF IdsOf
<1>5. CASE n = 5  BY <1>5 DEF IdsOf
<1>6. CASE n = 6  BY <1>6
<1> QED  BY <1>1, <1>2, <1>3, <1>4, <1>5, <1>6

\* The layouts of n slots start with the equal panes, side by side and stacked.
Equals(layouts) ==
    /\ Len(layouts) >= 2
    /\ layouts[1].orientation = "vertical" /\ layouts[1].distribution = "equal"
    /\ layouts[2].orientation = "horizontal" /\ layouts[2].distribution = "equal"

\* A shape and the same shape turned.
LEMMA FamilyIs ==
    ASSUME NEW n, NEW ids, NEW C, NEW v \in ids, NEW h \in ids, NEW dist \in Shapes,
           NEW cells \in C, Turned(cells) \in C
    PROVE  /\ Family(v, h, n, dist, cells) \in Seq(Laids(n, ids, C))
           /\ dist = "equal" => Equals(Family(v, h, n, dist, cells))
<1> DEFINE a == Laid(v, n, "vertical", dist, cells)
           b == Laid(h, n, "horizontal", dist, Turned(cells))
<1>1. a \in Laids(n, ids, C) /\ a.orientation = "vertical" /\ a.distribution = dist  BY DEF Laid, Laids, Shapes
<1>2. b \in Laids(n, ids, C) /\ b.orientation = "horizontal" /\ b.distribution = dist  BY DEF Laid, Laids, Shapes
<1>3. Family(v, h, n, dist, cells) = <<a, b>>  BY DEF Family
<1> HIDE DEF a, b
<1>4. <<a, b>> \in Seq(Laids(n, ids, C))  BY <1>1, <1>2
<1>5. dist = "equal" => Equals(<<a, b>>)  BY <1>1, <1>2 DEF Equals
<1> QED  BY <1>3, <1>4, <1>5

\* What a joined shelf starts with.
LEMMA Joined ==
    ASSUME NEW V, NEW a \in Seq(V), NEW b \in Seq(V), Len(a) >= 2
    PROVE  /\ a \o b \in Seq(V) /\ Len(a \o b) >= 2
           /\ (a \o b)[1] = a[1] /\ (a \o b)[2] = a[2]
<1> QED  OBVIOUS

\* The shelf of each size holds layouts of that size.
LEMMA ShelfIs ==
    ASSUME NEW n \in 1..6
    PROVE  /\ \E C : WithSlots(n) \in Seq(Laids(n, IdsOf(n), C))
           /\ n # 1 => Equals(WithSlots(n))
<1>1. CASE n = 1
  <2> DEFINE C == {Row(1)}
             d == Laid("1", 1, "none", "single", Row(1))
  <2>1. WithSlots(n) = <<d>>  BY <1>1 DEF WithSlots, UpToFour
  <2>2. d \in Laids(n, IdsOf(n), C)  BY <1>1 DEF Laid, Laids, IdsOf, Shapes
  <2> HIDE DEF d, C
  <2>3. <<d>> \in Seq(Laids(n, IdsOf(n), C))  BY <2>2
  <2> QED  BY <1>1, <2>1, <2>3
<1>2. CASE n = 2
  <2> DEFINE C == {Row(2), Turned(Row(2))}
             V == Laids(2, IdsOf(2), C)
  <2>2. "2-v" \in IdsOf(2) /\ "2-h" \in IdsOf(2)  BY DEF IdsOf
  <2>3. Row(2) \in C /\ Turned(Row(2)) \in C  OBVIOUS
  <2> HIDE DEF C
  <2>4. WithSlots(n) \in Seq(V) /\ Equals(WithSlots(n))
    BY <1>2, <2>2, <2>3, FamilyIs DEF Shapes, WithSlots, UpToFour
  <2> QED  BY <1>2, <2>4
<1>3. CASE n = 3
  <2> DEFINE C == {Row(3), Turned(Row(3)), Master(3), Turned(Master(3))}
             V == Laids(3, IdsOf(3), C)
             a == Family("3-v", "3-h", 3, "equal", Row(3))
             b == Family("3-vm", "3-hm", 3, "master", Master(3))
  <2>1. WithSlots(n) = a \o b  BY <1>3 DEF WithSlots, UpToFour
  <2>2. {"3-v", "3-h", "3-vm", "3-hm"} \subseteq IdsOf(3)  BY DEF IdsOf
  <2>3. Row(3) \in C /\ Turned(Row(3)) \in C /\ Master(3) \in C /\ Turned(Master(3)) \in C  OBVIOUS
  <2> HIDE DEF C
  <2>4. a \in Seq(V) /\ Equals(a)
    <3>1. a \in Seq(V)  BY <2>2, <2>3, FamilyIs DEF Shapes
    <3>2. Equals(a)  BY <2>2, <2>3, FamilyIs DEF Shapes
    <3> QED  BY <3>1, <3>2
  <2>5. b \in Seq(V)  BY <2>2, <2>3, FamilyIs DEF Shapes
  <2> HIDE DEF a, b, V
  <2>7. WithSlots(n) \in Seq(Laids(3, IdsOf(3), C)) /\ Equals(WithSlots(n))
    BY <2>1, <2>4, <2>5, Joined DEF V, Equals
  <2> QED  BY <1>3, <2>7
<1>4. CASE n = 4
  <2> DEFINE C == {Row(4), Turned(Row(4)), Master(4), Turned(Master(4)), Grid(2, 2)}
             V == Laids(4, IdsOf(4), C)
             a == Family("4-v", "4-h", 4, "equal", Row(4))
             b == Family("4-vm", "4-hm", 4, "master", Master(4))
             d == Laid("4-grid", 4, "none", "grid", Grid(2, 2))
  <2>1. WithSlots(n) = (a \o b) \o <<d>>  BY <1>4 DEF WithSlots, UpToFour
  <2>2. {"4-v", "4-h", "4-vm", "4-hm", "4-grid"} \subseteq IdsOf(4)  BY DEF IdsOf
  <2>3. /\ Row(4) \in C /\ Turned(Row(4)) \in C /\ Master(4) \in C /\ Turned(Master(4)) \in C
        /\ Grid(2, 2) \in C
    OBVIOUS
  <2> HIDE DEF C
  <2>4. a \in Seq(V) /\ Equals(a)  BY <2>2, <2>3, FamilyIs DEF Shapes
  <2>5. b \in Seq(V)  BY <2>2, <2>3, FamilyIs DEF Shapes
  <2>6. d \in V  BY <2>2, <2>3 DEF Laid, Laids, Shapes
  <2> HIDE DEF a, b, d, V
  <2>7. a \o b \in Seq(V) /\ Equals(a \o b)
    <3>1. Len(a) >= 2  BY <2>4 DEF Equals
    <3> QED  BY <2>4, <2>5, <3>1, Joined DEF Equals
  <2>8. (a \o b) \o <<d>> \in Seq(V) /\ Equals((a \o b) \o <<d>>)  BY <2>7, <2>6, Joined DEF Equals
  <2> QED  BY <1>4, <2>1, <2>8 DEF V
<1>5. CASE n = 5
  <2> DEFINE C == {Row(5), Turned(Row(5)), Master(5), Turned(Master(5)),
                   DoubleMaster(5), Turned(DoubleMaster(5))}
             V == Laids(5, IdsOf(5), C)
             a == Family("5-v", "5-h", 5, "equal", Row(5))
             b == Family("5-vm", "5-hm", 5, "master", Master(5))
             d == Family("5-vdm", "5-hdm", 5, "double-master", DoubleMaster(5))
  <2>1. WithSlots(n) = (a \o b) \o d  BY <1>5 DEF WithSlots, OfFive
  <2>2. {"5-v", "5-h", "5-vm", "5-hm", "5-vdm", "5-hdm"} \subseteq IdsOf(5)  BY DEF IdsOf
  <2>3. /\ Row(5) \in C /\ Turned(Row(5)) \in C /\ Master(5) \in C /\ Turned(Master(5)) \in C
        /\ DoubleMaster(5) \in C /\ Turned(DoubleMaster(5)) \in C
    OBVIOUS
  <2> HIDE DEF C
  <2>4. a \in Seq(V) /\ Equals(a)  BY <2>2, <2>3, FamilyIs DEF Shapes
  <2>5. b \in Seq(V)  BY <2>2, <2>3, FamilyIs DEF Shapes
  <2>6. d \in Seq(V)  BY <2>2, <2>3, FamilyIs DEF Shapes
  <2> HIDE DEF a, b, d, V
  <2>7. a \o b \in Seq(V) /\ Equals(a \o b)
    <3>1. Len(a) >= 2  BY <2>4 DEF Equals
    <3> QED  BY <2>4, <2>5, <3>1, Joined DEF Equals
  <2>8. (a \o b) \o d \in Seq(V) /\ Equals((a \o b) \o d)  BY <2>6, <2>7, Joined DEF Equals
  <2> QED  BY <1>5, <2>1, <2>8 DEF V
<1>6. CASE n = 6
  <2> DEFINE C == {Row(6), Turned(Row(6)), Master(6), Turned(Master(6)),
                   DoubleMaster(6), Turned(DoubleMaster(6)), Grid(3, 2), Grid(2, 3)}
             V == Laids(6, IdsOf(6), C)
             a == Family("6-v", "6-h", 6, "equal", Row(6))
             b == Family("6-vm", "6-hm", 6, "master", Master(6))
             d == Family("6-vdm", "6-hdm", 6, "double-master", DoubleMaster(6))
             g == Laid("6-grid23", 6, "none", "grid", Grid(3, 2))
             h == Laid("6-grid32", 6, "none", "grid", Grid(2, 3))
  <2>1. WithSlots(n) = ((a \o b) \o d) \o <<g, h>>  BY <1>6 DEF WithSlots, OfSix
  <2>2. {"6-v", "6-h", "6-vm", "6-hm", "6-vdm", "6-hdm", "6-grid23", "6-grid32"} \subseteq IdsOf(6)
    BY DEF IdsOf
  <2>3. /\ Row(6) \in C /\ Turned(Row(6)) \in C /\ Master(6) \in C /\ Turned(Master(6)) \in C
        /\ DoubleMaster(6) \in C /\ Turned(DoubleMaster(6)) \in C
        /\ Grid(3, 2) \in C /\ Grid(2, 3) \in C
    OBVIOUS
  <2> HIDE DEF C
  <2>4. a \in Seq(V) /\ Equals(a)  BY <2>2, <2>3, FamilyIs DEF Shapes
  <2>5. b \in Seq(V)  BY <2>2, <2>3, FamilyIs DEF Shapes
  <2>6. d \in Seq(V)  BY <2>2, <2>3, FamilyIs DEF Shapes
  <2>7. g \in V /\ h \in V  BY <2>2, <2>3 DEF Laid, Laids, Shapes
  <2> HIDE DEF a, b, d, g, h, V
  <2>8. a \o b \in Seq(V) /\ Equals(a \o b)
    <3>1. Len(a) >= 2  BY <2>4 DEF Equals
    <3> QED  BY <2>4, <2>5, <3>1, Joined DEF Equals
  <2>9. (a \o b) \o d \in Seq(V) /\ Equals((a \o b) \o d)  BY <2>6, <2>8, Joined DEF Equals
  <2>10. ((a \o b) \o d) \o <<g, h>> \in Seq(V) /\ Equals(((a \o b) \o d) \o <<g, h>>)
    BY <2>9, <2>7, Joined DEF Equals
  <2> QED  BY <1>6, <2>1, <2>10 DEF V
<1> QED  BY <1>1, <1>2, <1>3, <1>4, <1>5, <1>6

\* Every layout has as many slots as the shelf it stands on.
LEMMA CatalogIs ==
    /\ \A name \in LAYOUT_IDS : /\ SlotCount(name) \in 1..6
                                /\ TERMINAL_LAYOUTS[name].orientation
                                     \in {"none", "vertical", "horizontal"}
    /\ \A n \in 1..6 : \A d \in Range(WithSlots(n)) : d.id \in LAYOUT_IDS /\ SlotCount(d.id) = n
<1>1. ASSUME NEW n \in 1..6, NEW d \in Range(WithSlots(n))
      PROVE  d.id \in IdsOf(n) /\ d.slotCount = n /\ d.orientation \in {"none", "vertical", "horizontal"}
  <2>1. PICK C : WithSlots(n) \in Seq(Laids(n, IdsOf(n), C))  BY ShelfIs
  <2>2. d \in Laids(n, IdsOf(n), C)  BY <1>1, <2>1 DEF Range
  <2> QED  BY <2>2 DEF Laids
<1>2. ASSUME NEW name \in LAYOUT_IDS
      PROVE  \E n \in 1..6 : /\ name \in IdsOf(n) /\ SlotCount(name) = n
                             /\ TERMINAL_LAYOUTS[name].orientation
                                  \in {"none", "vertical", "horizontal"}
  <2> DEFINE d == CHOOSE d \in Catalog : d.id = name
  <2>2. d \in Catalog /\ d.id = name  BY DEF LAYOUT_IDS
  <2>3. TERMINAL_LAYOUTS[name] = d  BY DEF TERMINAL_LAYOUTS
  <2> HIDE DEF d
  <2>4. PICK n \in 1..6 : d \in Range(WithSlots(n))  BY <2>2 DEF Catalog
  <2>5. name \in IdsOf(n) /\ d.slotCount = n /\ d.orientation \in {"none", "vertical", "horizontal"}
    BY <1>1, <2>2, <2>4
  <2> QED  BY <2>3, <2>5 DEF SlotCount
<1>3. ASSUME NEW n \in 1..6, NEW d \in Range(WithSlots(n))
      PROVE  d.id \in LAYOUT_IDS /\ SlotCount(d.id) = n
  <2>2. PICK m \in 1..6 : d.id \in IdsOf(m) /\ SlotCount(d.id) = m  BY <1>2 DEF LAYOUT_IDS, Catalog
  <2> QED  BY <2>2, <1>1, IdsAreApart DEF LAYOUT_IDS, Catalog
<1> QED  BY <1>2, <1>3

\* No shelf is empty.
LEMMA ShelfIsThere ==
    ASSUME NEW n \in 1..6
    PROVE  /\ Len(WithSlots(n)) \in Nat /\ DOMAIN WithSlots(n) = 1..Len(WithSlots(n))
           /\ n # 1 => Len(WithSlots(n)) >= 2
           /\ \A i \in DOMAIN WithSlots(n) : WithSlots(n)[i] \in Range(WithSlots(n))
<1>1. PICK C : WithSlots(n) \in Seq(Laids(n, IdsOf(n), C))  BY ShelfIs
<1>2. n # 1 => Len(WithSlots(n)) >= 2  BY ShelfIs DEF Equals
<1> QED  BY <1>1, <1>2 DEF Range

\* The layout of one pane.
LEMMA One == "1" \in LAYOUT_IDS /\ SlotCount("1") = 1
<1> DEFINE d == Laid("1", 1, "none", "single", Row(1))
<1>3. d \in Range(WithSlots(1))
  <2> HIDE DEF d
  <2> QED  BY DEF Range, d, WithSlots, UpToFour
<1> QED  BY <1>3, CatalogIs DEF Laid

\* A layout with less than six slots grows by one.
LEMMA PromotedIs ==
    ASSUME NEW name \in LAYOUT_IDS, SlotCount(name) <= 5
    PROVE  /\ resolvePromotedLayout(name) \in LAYOUT_IDS
           /\ SlotCount(resolvePromotedLayout(name)) = SlotCount(name) + 1
<1> DEFINE n == SlotCount(name) + 1
           W == WithSlots(n)
           cur == TERMINAL_LAYOUTS[name]
           turn == IF cur.orientation = "none" THEN "vertical" ELSE cur.orientation
           exact == {i \in DOMAIN W : /\ W[i].orientation = cur.orientation
                                      /\ W[i].distribution = cur.distribution}
           equal == {i \in DOMAIN W : /\ W[i].orientation = turn
                                      /\ W[i].distribution = "equal"}
           fit == IF exact # {} THEN exact ELSE equal
           first == CHOOSE i \in fit : \A j \in fit : i <= j
<1>1. n \in 1..6 /\ n # 1  BY CatalogIs
<1>2. turn \in {"vertical", "horizontal"}  BY CatalogIs
<1>3. resolvePromotedLayout(name) = IF fit = {} THEN None ELSE W[first].id
  BY DEF resolvePromotedLayout, Bigger
<1> HIDE DEF n, cur, turn
<1>4. Len(W) \in Nat /\ DOMAIN W = 1..Len(W) /\ Len(W) >= 2
      /\ \A i \in DOMAIN W : W[i] \in Range(W)
  BY <1>1, ShelfIsThere
<1>5. Equals(W)  BY <1>1, ShelfIs
<1> HIDE DEF W
<1>6. equal # {}
  <2>1. 1 \in DOMAIN W /\ 2 \in DOMAIN W  BY <1>4
  <2> QED  BY <1>2, <1>5, <2>1 DEF Equals
<1>7. fit # {} /\ fit \in SUBSET Nat /\ fit \subseteq DOMAIN W  BY <1>4, <1>6
<1> HIDE DEF fit
<1>8. first \in fit  BY <1>7, LeastOf
<1>9. W[first] \in Range(WithSlots(n))  BY <1>4, <1>7, <1>8 DEF W
<1> QED  BY <1>3, <1>7, <1>1, <1>9, CatalogIs DEF n

\* The score of a candidate counts pairs of panes, twice at most.
LEMMA ScoreIs ==
    ASSUME NEW cells, NEW n \in Nat, DOMAIN cells = 1..n
    PROVE  \E B \in Nat : \A candidate : /\ scoreCandidate(cells, candidate) \in Nat
                                         /\ scoreCandidate(cells, candidate) <= B
<1> DEFINE P == (1..n) \X (1..n)
<1>1. IsFiniteSet(P)
  <2>1. IsFiniteSet(1..n)  BY FS_Interval
  <2> QED  BY <2>1, FS_Product
<1>2. Cardinality(P) \in Nat  BY <1>1, FS_CardinalityType
<1>3. ASSUME NEW candidate
      PROVE  /\ scoreCandidate(cells, candidate) \in Nat
             /\ scoreCandidate(cells, candidate) <= Cardinality(P) + Cardinality(P)
  <2> DEFINE kept(k) == {q \in (DOMAIN cells) \X (DOMAIN cells) :
                           /\ q[1] < q[2]
                           /\ relate(cells[q[1]], cells[q[2]], k)
                                = relate(candidate[q[1]], candidate[q[2]], k)}
  <2>1. scoreCandidate(cells, candidate) = Cardinality(kept(1)) + Cardinality(kept(3))
    BY DEF scoreCandidate
  <2>2. kept(1) \in SUBSET P /\ kept(3) \in SUBSET P  OBVIOUS
  <2> HIDE DEF kept, P
  <2> QED  BY <1>2, <2>1, <1>1, <2>2, FS_Subset, FS_CardinalityType
<1> QED  BY <1>3, <1>2

\* Some candidate scores best, and the first of those is taken.
LEMMA NearestIs ==
    ASSUME NEW cells, NEW n \in Nat, DOMAIN cells = 1..n,
           NEW layouts, NEW l \in Nat, l # 0, DOMAIN layouts = 1..l
    PROVE  Nearest(cells, layouts) \in DOMAIN layouts
<1> DEFINE score == [i \in DOMAIN layouts |-> scoreCandidate(cells, layouts[i].slotPlacements)]
           best(i) == \A j \in DOMAIN layouts :
                         score[j] < score[i] \/ (score[j] = score[i] /\ i <= j)
<1>1. Nearest(cells, layouts) = CHOOSE i \in DOMAIN layouts : best(i)  BY DEF Nearest
<1>2. PICK B \in Nat : \A candidate : /\ scoreCandidate(cells, candidate) \in Nat
                                      /\ scoreCandidate(cells, candidate) <= B
  BY ScoreIs
<1>3. \A i \in 1..l : score[i] \in Nat /\ score[i] <= B  BY <1>2
<1> HIDE DEF score
<1> DEFINE T == {B - score[i] : i \in 1..l}
<1>4. T \in SUBSET Nat /\ T # {}  BY <1>3
<1>5. PICK m \in T : \A y \in T : m <= y  BY <1>4, LeastOf
<1> DEFINE I == {i \in 1..l : B - score[i] = m}
<1>6. I \in SUBSET Nat /\ I # {}  BY <1>5
<1>7. PICK i \in I : \A j \in I : i <= j  BY <1>6, LeastOf
<1>8. best(i)
  <2> SUFFICES ASSUME NEW j \in 1..l PROVE score[j] < score[i] \/ (score[j] = score[i] /\ i <= j)
    OBVIOUS
  <2>2. m <= B - score[j] /\ m = B - score[i]  BY <1>5, <1>7
  <2>3. score[j] <= score[i]  BY <1>3, <1>7, <2>2
  <2> QED  BY <1>3, <1>7, <2>3
<1> HIDE DEF best
<1> QED  BY <1>1, <1>7, <1>8

\* A closed pane leaves a layout with a slot for each shell that stays.
LEMMA ReorganizedIs ==
    ASSUME NEW name, NEW kept \in Seq(Nat), Len(kept) <= 6
    PROVE  /\ resolveReorganizedLayout(name, kept) \in LAYOUT_IDS
           /\ SlotCount(resolveReorganizedLayout(name, kept)) = IF Len(kept) <= 1 THEN 1 ELSE Len(kept)
<1> DEFINE n == Len(kept)
           cells == [i \in DOMAIN kept |-> Placements(name)[kept[i]]]
           W == WithSlots(n)
<1>1. n \in Nat /\ n <= 6 /\ DOMAIN kept = 1..n  OBVIOUS
<1>2. CASE n <= 1  BY <1>2, One DEF resolveReorganizedLayout
<1>3. CASE ~(n <= 1)
  <2>1. n \in 1..6 /\ n # 1
    <3> HIDE DEF n
    <3> QED  BY <1>1, <1>3
  <2>2. DOMAIN cells = 1..n /\ Len(cells) = n
    <3>4. DOMAIN cells = 1..n  BY <1>1
    <3> HIDE DEF cells, n
    <3> QED  BY <1>1, <3>4
  <2>3. resolveReorganizedLayout(name, kept) = BestOf(cells, W)
    BY <1>3 DEF resolveReorganizedLayout
  <2> DEFINE d == W[Nearest(cells, W)]
  <2>4. BestOf(cells, W) = Fitted(cells, d)  BY DEF BestOf
  <2> HIDE DEF cells, n
  <2>5. Len(W) \in Nat /\ DOMAIN W = 1..Len(W) /\ Len(W) >= 2
        /\ \A i \in DOMAIN W : W[i] \in Range(W)
    BY <2>1, ShelfIsThere
  <2>6. Equals(W)  BY <2>1, ShelfIs
  <2> HIDE DEF W
  <2>7. Nearest(cells, W) \in DOMAIN W
    <3>1. Len(W) # 0  BY <2>5
    <3> QED  BY <1>1, <2>2, <2>5, <3>1, NearestIs
  <2>8. d \in Range(W)  BY <2>5, <2>7
  <2> HIDE DEF d
  <2> DEFINE turn == IF shareBand(cells, 3) \/ ~shareBand(cells, 1) THEN "vertical" ELSE "horizontal"
             equal == CHOOSE e \in Range(W) : e.orientation = turn /\ e.distribution = "equal"
  <2>9. equal \in Range(W)
    <3>1. turn \in {"vertical", "horizontal"}  OBVIOUS
    <3> HIDE DEF turn
    <3>2. 1 \in DOMAIN W /\ 2 \in DOMAIN W  BY <2>5
    <3>3. \E e \in Range(W) : e.orientation = turn /\ e.distribution = "equal"
      BY <2>5, <2>6, <3>1, <3>2 DEF Equals
    <3> QED  BY <3>3
  <2>10. Fitted(cells, d) \in {d.id, equal.id}  BY <2>2 DEF Fitted, W
  <2>11. Fitted(cells, d) \in LAYOUT_IDS /\ SlotCount(Fitted(cells, d)) = n
    <3>1. \A e \in Range(W) : e.id \in LAYOUT_IDS /\ SlotCount(e.id) = n  BY <2>1, CatalogIs DEF W
    <3> HIDE DEF equal
    <3> QED  BY <2>8, <2>9, <2>10, <3>1
  <2> QED  BY <1>3, <2>3, <2>4, <2>11 DEF n
<1> QED  BY <1>2, <1>3

-----------------------------------------------------------------------------
(* The reducer over the panes.                                              *)

Places == Seq(Terms \cup {None})

\* An empty slot is no terminal.
LEMMA NoneIsNoTerm == Terms \subseteq Nat /\ None \notin Terms /\ None \notin Nat
  BY ShellsAssumption DEF Terms

\* A free place is taken.
LEMMA FillIs ==
    ASSUME NEW base \in Places, Once(base), NEW i \in DOMAIN base, base[i] = None,
           NEW p \in Terms, p \notin Range(base), NEW w, w = [base EXCEPT ![i] = p]
    PROVE  /\ w \in Places /\ Len(w) = Len(base) /\ Once(w)
           /\ Range(w) \ {None} = (Range(base) \ {None}) \cup {p}
           /\ p \in Range(w)
           /\ \A a, b \in Terms : Before(base, a, b) => Before(w, a, b)
<1>3. w \in Places /\ Len(w) = Len(base)  BY DEF Places
<1>4. w[i] = p /\ \A j \in DOMAIN base : j # i => w[j] = base[j]  BY DEF Places
<1>6. p # None  BY NoneIsNoTerm
<1>8. Once(w)
  <2> SUFFICES ASSUME NEW j \in DOMAIN base, NEW k \in DOMAIN base, w[j] = w[k], w[j] # None
               PROVE  j = k  BY DEF Once
  <2>1. CASE j = i  BY <1>4, <2>1 DEF Range
  <2>2. CASE k = i  BY <1>4, <2>2 DEF Range
  <2>3. CASE j # i /\ k # i  BY <1>4, <2>3 DEF Once
  <2> QED  BY <2>1, <2>2, <2>3
<1>9. Range(w) \ {None} = (Range(base) \ {None}) \cup {p}
  <2>3. \A v \in Range(w) \ {None} : v \in (Range(base) \ {None}) \cup {p}  BY <1>4 DEF Range
  <2>4. \A v \in Range(base) \ {None} : v \in Range(w)  BY <1>4 DEF Range
  <2>6. \A v \in (Range(base) \ {None}) \cup {p} : v \in Range(w) \ {None}  BY <2>4, <1>4, <1>6 DEF Range
  <2> QED  BY <2>3, <2>6
<1>10. \A a, b \in Terms : Before(base, a, b) => Before(w, a, b)  BY <1>4, NoneIsNoTerm DEF Before
<1>11. p \in Range(w)  BY <1>6, <1>9
<1> QED  BY <1>3, <1>8, <1>9, <1>10, <1>11

\* The shells are packed into the first places of a layout.
LEMMA PackIs ==
    ASSUME NEW slots \in Places, Once(slots), NEW name \in LAYOUT_IDS,
           Len(Running(slots)) <= SlotCount(name)
    PROVE  /\ compactIntoLayout(slots, name) \in Places
           /\ Len(compactIntoLayout(slots, name)) = SlotCount(name)
           /\ Once(compactIntoLayout(slots, name))
           /\ Range(compactIntoLayout(slots, name)) \ {None} = Range(slots) \ {None}
           /\ Len(Running(slots)) < SlotCount(name)
                => compactIntoLayout(slots, name)[SlotCount(name)] = None
           /\ \A a, b \in Terms : Before(slots, a, b) => Before(compactIntoLayout(slots, name), a, b)
<1> DEFINE r == Running(slots)
           n == SlotCount(name)
           w == Padded(r, n)
<1>1. w = compactIntoLayout(slots, name)  BY DEF compactIntoLayout
<1>2. n \in Nat  BY CatalogIs
<1>3. r \in Seq(Terms) /\ (\A k \in 1..Len(r) : r[k] # None) /\ Range(r) = Range(slots) \ {None}
  BY RunningIs DEF Places
<1>4. Once(r) /\ \A p, q \in Terms : p # None /\ q # None /\ Before(slots, p, q) => Before(r, p, q)
  BY RunningKeepsOrder DEF Places
<1>5. Len(r) <= n  OBVIOUS
<1> HIDE DEF r, n
<1>6. /\ w \in [1..n -> Terms \cup {None}]
      /\ Range(w) \ {None} = Range(r)
      /\ Len(r) < n => w[n] = None
      /\ Once(w)
      /\ \A p, q : Before(r, p, q) => Before(w, p, q)
  BY <1>2, <1>3, <1>4, <1>5, PaddedIs
<1> HIDE DEF w
<1>7. w \in Places /\ Len(w) = n  BY <1>2, <1>6 DEF Places
<1>8. \A a, b \in Terms : Before(slots, a, b) => Before(w, a, b)  BY <1>4, <1>6, NoneIsNoTerm
<1>9. Range(w) \ {None} = Range(slots) \ {None}  BY <1>3, <1>6
<1> QED  BY <1>1, <1>6, <1>7, <1>8, <1>9 DEF r, n

\* The place an added shell gets, if less than six are there.
GridIsSound(layout, slots) == layout \in LAYOUT_IDS /\ slots \in Places /\ Len(slots) = SlotCount(layout) /\ Once(slots)

Taken(s, p, plan) ==
    [(IF plan.layout = s.layout THEN s.slots ELSE compactIntoLayout(s.slots, plan.layout))
        EXCEPT ![plan.slot] = p]

\* An added shell gets a free slot, or the first free one of the next layout.
LEMMA PlacedIs ==
    ASSUME NEW s, GridIsSound(s.layout, s.slots), NEW p \in Terms, p \notin Range(s.slots),
           Len(Running(s.slots)) < 6,
           NEW plan, plan = planAddPlacement(s.layout, s.slots)
    PROVE  /\ plan.kind # "full"
           /\ GridIsSound(plan.layout, Taken(s, p, plan))
           /\ Range(Taken(s, p, plan)) \ {None} = (Range(s.slots) \ {None}) \cup {p}
           /\ p \in Range(Taken(s, p, plan))
           /\ \A a, b \in Terms : Before(s.slots, a, b) => Before(Taken(s, p, plan), a, b)
<1> DEFINE name == s.layout
           slots == s.slots
           gaps == {i \in DOMAIN slots : slots[i] = None}
           first == CHOOSE i \in gaps : \A j \in gaps : i <= j
           promoted == resolvePromotedLayout(name)
<1>1. name \in LAYOUT_IDS /\ slots \in Places /\ Len(slots) = SlotCount(name) /\ Once(slots)
  BY DEF GridIsSound
<1>2. Len(slots) \in Nat /\ DOMAIN slots = 1..Len(slots)  BY <1>1 DEF Places
<1>3. plan = IF gaps # {} THEN [kind |-> "fill", layout |-> name, slot |-> first]
             ELSE IF Len(Running(slots)) >= 6 \/ promoted = None
             THEN [kind |-> "full", layout |-> name, slot |-> 0]
             ELSE [kind |-> "promote", layout |-> promoted, slot |-> Len(slots) + 1]
  BY DEF planAddPlacement, Planned
<1>5. CASE gaps # {}
  <2>1. gaps \in SUBSET Nat  BY <1>2
  <2>3. first \in gaps  BY <1>5, <2>1, LeastOf
  <2> HIDE DEF first
  <2>5. Taken(s, p, plan) = [slots EXCEPT ![first] = p]  BY <1>3, <1>5 DEF Taken
  <2>6. first \in DOMAIN slots /\ slots[first] = None  BY <2>3
  <2> HIDE DEF gaps, name, slots
  <2>7. p \notin Range(slots)  BY DEF slots
  <2> DEFINE w == [slots EXCEPT ![first] = p]
  <2>8. /\ w \in Places /\ Len(w) = Len(slots) /\ Once(w)
        /\ Range(w) \ {None} = (Range(slots) \ {None}) \cup {p}
        /\ p \in Range(w)
        /\ \A a, b \in Terms : Before(slots, a, b) => Before(w, a, b)
    <3>1. w = [slots EXCEPT ![first] = p]  OBVIOUS
    <3> HIDE DEF w
    <3> QED  BY <1>1, <2>6, <2>7, <3>1, FillIs
  <2> HIDE DEF w
  <2> QED  BY <1>1, <1>3, <1>5, <2>5, <2>8 DEF GridIsSound, w, slots
<1>6. CASE gaps = {}
  <2>2. /\ Len(Running(slots)) = Len(slots)
        /\ Running(slots) \in Seq(Terms)  BY <1>1, <1>6, RunningIs DEF Places, Range
  <2> DEFINE n == SlotCount(name)
  <2>3. n <= 5 /\ n \in Nat  BY <1>1, <1>2, <2>2
  <2>4. promoted \in LAYOUT_IDS /\ SlotCount(promoted) = n + 1  BY <1>1, <2>3, PromotedIs
  <2>6. ~(Len(Running(slots)) >= 6)  BY <1>2, <2>2
  <2> HIDE DEF promoted
  <2>7. plan.kind = "promote" /\ plan.layout = promoted /\ plan.slot = n + 1
    BY <1>1, <1>3, <1>6, <2>4, <2>3, ShellsAssumption, <2>6
  <2> DEFINE base == compactIntoLayout(slots, promoted)
  <2>8. Taken(s, p, plan) = [base EXCEPT ![n + 1] = p]  BY <2>4, <2>3, ShellsAssumption, <2>7 DEF Taken
  <2> HIDE DEF gaps, name, slots
  <2>9. /\ base \in Places /\ Len(base) = n + 1 /\ Once(base)
        /\ Range(base) \ {None} = Range(slots) \ {None}
        /\ base[n + 1] = None
        /\ \A a, b \in Terms : Before(slots, a, b) => Before(base, a, b)
    <3>1. Len(Running(slots)) < SlotCount(promoted)  BY <1>1, <2>2, <2>3, <2>4
    <3> HIDE DEF base
    <3> QED  BY <1>1, <1>2, <2>2, <2>3, <2>4, <3>1, PackIs DEF base
  <2> HIDE DEF base
  <2>11. p \notin Range(base)  BY NoneIsNoTerm, <2>9 DEF slots
  <2> DEFINE w == [base EXCEPT ![n + 1] = p]
  <2>12. /\ w \in Places /\ Len(w) = Len(base) /\ Once(w)
        /\ Range(w) \ {None} = (Range(base) \ {None}) \cup {p}
        /\ p \in Range(w)
        /\ \A a, b \in Terms : Before(base, a, b) => Before(w, a, b)
    <3> DEFINE i == n + 1
    <3>2. i \in DOMAIN base /\ base[i] = None /\ w = [base EXCEPT ![i] = p]  BY <2>9, <2>3 DEF Places
    <3> HIDE DEF w, i
    <3> QED  BY <2>9, <2>11, <3>2, FillIs
  <2> HIDE DEF w
  <2>13. Range(w) \ {None} = (Range(slots) \ {None}) \cup {p}  BY <2>9, <2>12
  <2>14. \A a, b \in Terms : Before(slots, a, b) => Before(w, a, b)  BY <2>9, <2>12
  <2>15. GridIsSound(promoted, w)  BY <2>4, <2>9, <2>12 DEF GridIsSound
  <2> QED  BY <2>7, <2>8, <2>12, <2>13, <2>14, <2>15 DEF w, slots
<1> QED  BY <1>5, <1>6

Statuses == {"running", "restarting", "exited", "error"}
Bonds == [term : Terms \cup {None}, status : Statuses]

ShellSessions ==
    [layout : LAYOUT_IDS, slots : Places, active : Terms \cup {None}, floating : Seq(Terms),
     procs : UNION {[P -> Bonds] : P \in SUBSET Terms}]

Shown(s) == Range(s.slots) \ {None}
Tray(s) == Range(s.floating)

\* Every shell has one pane or one place in the tray, and a pane has the focus.
PanesAreSound(s) ==
    /\ s \in ShellSessions
    /\ GridIsSound(s.layout, s.slots)
    /\ Len(s.floating) <= MaxFloating /\ Once(s.floating)
    /\ Shown(s) \cap Tray(s) = {}
    /\ DOMAIN s.procs = Shown(s) \cup Tray(s)
    /\ s.active \in Range(s.slots)
    /\ s.active = None => Shown(s) = {}

\* n has the panes of s.
SamePanes(s, n) ==
    n.layout = s.layout /\ n.slots = s.slots /\ n.active = s.active /\ n.floating = s.floating

\* The shells in the panes of s that n shows are in the order they had.
OrderIsKept(s, n) ==
    \A a, b \in Terms : a \in Shown(n) /\ b \in Shown(n) /\ Before(s.slots, a, b) => Before(n.slots, a, b)

\* A session maps some terminals to what they are bound to.
LEMMA ProcsAreTyped ==
    ASSUME NEW s \in ShellSessions
    PROVE  /\ DOMAIN s.procs \in SUBSET Terms
           /\ s.procs \in [DOMAIN s.procs -> Bonds]
<1>1. PICK P \in SUBSET Terms : s.procs \in [P -> Bonds]  BY DEF ShellSessions
<1> QED  BY <1>1

\* The shells of a session are terminals.
LEMMA ShownAreTerms ==
    ASSUME NEW s \in ShellSessions
    PROVE  /\ Shown(s) \subseteq Terms /\ Tray(s) \subseteq Terms
           /\ Len(s.slots) \in Nat /\ DOMAIN s.slots = 1..Len(s.slots)
           /\ s.slots \in [1..Len(s.slots) -> Terms \cup {None}]
           /\ Len(s.floating) \in Nat /\ DOMAIN s.floating = 1..Len(s.floating)
<1> QED  BY DEF Shown, Tray, Range, ShellSessions, Places

\* The panes are counted by the shells they show.
LEMMA ShownAreCounted ==
    ASSUME NEW s, PanesAreSound(s)
    PROVE  /\ Len(Running(s.slots)) = Cardinality(Shown(s)) /\ IsFiniteSet(Shown(s))
           /\ Cardinality(Shown(s)) \in Nat
<1> QED  BY RunningKeepsOrder, FS_CardinalityType DEF Shown, PanesAreSound, GridIsSound, Places

\* A process is added and no pane changes.
LEMMA WithProcessIs ==
    ASSUME NEW s \in ShellSessions, NEW p \in Terms, NEW t \in Terms, p \notin DOMAIN s.procs
    PROVE  LET n == WithProcess(s, p, t) IN
           /\ n \in ShellSessions
           /\ SamePanes(s, n)
           /\ DOMAIN n.procs = DOMAIN s.procs \cup {p}
           /\ n.procs[p] = Born(t)
           /\ \A q \in DOMAIN s.procs : n.procs[q] = s.procs[q]
<1> DEFINE f == [q \in DOMAIN s.procs \cup {p} |-> IF q = p THEN Born(t) ELSE s.procs[q]]
           n == WithProcess(s, p, t)
<1>3. f = [x \in DOMAIN s.procs \cup {p} |-> IF x = p THEN Born(t) ELSE s.procs[x]]
  OBVIOUS
<1>4. n = [s EXCEPT !.procs = f]  BY DEF WithProcess
<1> HIDE DEF f, n
<1>5. f \in [DOMAIN s.procs \cup {p} -> Bonds]
  <2>1. \A x \in DOMAIN s.procs \cup {p} : (IF x = p THEN Born(t) ELSE s.procs[x]) \in Bonds
    BY ProcsAreTyped DEF Born, Bonds, Statuses
  <2> QED  BY <1>3, <2>1
<1>6. f \in UNION {[P -> Bonds] : P \in SUBSET Terms}  BY <1>5, ProcsAreTyped
<1>7. n \in ShellSessions /\ n.procs = f  BY <1>4, <1>6 DEF ShellSessions
<1>8. SamePanes(s, n)  BY <1>4 DEF ShellSessions, SamePanes
<1>9. DOMAIN f = DOMAIN s.procs \cup {p}  BY <1>3
<1>10. f[p] = Born(t) /\ \A q \in DOMAIN s.procs : f[q] = s.procs[q]  BY <1>3
<1>11. \A q \in DOMAIN s.procs : n.procs[q] = s.procs[q]  BY <1>7, <1>10
<1> QED  BY <1>7, <1>8, <1>9, <1>10, <1>11 DEF n

\* A shell whose place was planned: base has its process, and its panes and tray are those of s
\* without it.
LEMMA SeatedIs ==
    ASSUME NEW s, PanesAreSound(s), NEW base \in ShellSessions, NEW p \in Terms,
           base.layout = s.layout, base.slots = s.slots,
           Len(base.floating) <= MaxFloating, Once(base.floating),
           p \notin Range(s.slots), p \notin Tray(base),
           Tray(base) \cap Shown(s) = {},
           DOMAIN base.procs = Shown(s) \cup Tray(base) \cup {p},
           Len(Running(s.slots)) < 6
    PROVE  LET n == PutPlanned(s, base, p, planAddPlacement(s.layout, s.slots)) IN
           /\ PanesAreSound(n)
           /\ n.procs = base.procs /\ n.floating = base.floating
           /\ Shown(n) = Shown(s) \cup {p}
           /\ OrderIsKept(s, n)
<1> DEFINE plan == planAddPlacement(s.layout, s.slots)
           n == PutPlanned(s, base, p, plan)
           w == Taken(s, p, plan)
<1>2. /\ plan.kind # "full"
      /\ GridIsSound(plan.layout, w)
      /\ Range(w) \ {None} = (Range(s.slots) \ {None}) \cup {p}
      /\ p \in Range(w)
      /\ \A a, b \in Terms : Before(s.slots, a, b) => Before(w, a, b)
  <2>1. plan = planAddPlacement(s.layout, s.slots)  OBVIOUS
  <2> HIDE DEF plan
  <2> QED  BY <2>1, PlacedIs DEF PanesAreSound
<1> HIDE DEF plan
<1>3. n = [base EXCEPT !.layout = plan.layout, !.slots = w, !.active = p]
  BY <1>2 DEF PutPlanned, Put, Taken
<1> HIDE DEF w, n
<1>4. n \in ShellSessions /\ n.layout = plan.layout /\ n.slots = w /\ n.active = p
      /\ n.procs = base.procs /\ n.floating = base.floating
  BY <1>2, <1>3 DEF ShellSessions, GridIsSound
<1>8. Shown(n) \cap Tray(n) = {}  BY <1>2, <1>4 DEF Shown, Tray
<1>9. DOMAIN n.procs = Shown(n) \cup Tray(n)  BY <1>4, <1>2 DEF Shown, Tray
<1>10. PanesAreSound(n)  BY <1>4, <1>2, NoneIsNoTerm, <1>8, <1>9 DEF PanesAreSound
<1> QED  BY <1>4, <1>2, <1>10 DEF n, plan, Shown, Tray, OrderIsKept

\* What a process becomes when n follows s with p, bound to t, added.
IsBornIn(s, n, p, t) ==
    /\ DOMAIN n.procs = DOMAIN s.procs \cup {p}
    /\ n.procs[p] = Born(t)
    /\ \A q \in DOMAIN s.procs : n.procs[q] = s.procs[q]

\* registerProcess, while less than six panes are taken.
LEMMA RegisteredIs ==
    ASSUME NEW s, PanesAreSound(s), NEW p \in Terms, NEW t \in Terms, p \notin DOMAIN s.procs,
           Len(Running(s.slots)) < 6
    PROVE  LET n == registerProcess(s, p, t) IN
           /\ PanesAreSound(n) /\ IsBornIn(s, n, p, t)
           /\ Shown(n) = Shown(s) \cup {p} /\ Tray(n) = Tray(s)
           /\ OrderIsKept(s, n)
<1> DEFINE base == WithProcess(s, p, t)
           n == registerProcess(s, p, t)
<1>2. base \in ShellSessions /\ SamePanes(s, base) /\ IsBornIn(s, base, p, t)
  BY WithProcessIs DEF IsBornIn, PanesAreSound
<1>3. n = PutPlanned(s, base, p, planAddPlacement(s.layout, s.slots))  BY DEF registerProcess
<1> HIDE DEF base, n
<1>4. /\ base.layout = s.layout /\ base.slots = s.slots /\ base.floating = s.floating
      /\ Tray(base) = Tray(s)
  BY <1>2 DEF SamePanes, Tray
<1>6. p \notin Range(s.slots) /\ p \notin Tray(base)  BY <1>4, NoneIsNoTerm DEF Shown, PanesAreSound
<1>7. DOMAIN base.procs = Shown(s) \cup Tray(base) \cup {p}  BY <1>2, <1>4 DEF IsBornIn, PanesAreSound
<1>8. Len(base.floating) <= MaxFloating /\ Once(base.floating) /\ Tray(base) \cap Shown(s) = {}
  BY <1>4 DEF PanesAreSound
<1>9. /\ PanesAreSound(n) /\ n.procs = base.procs /\ n.floating = base.floating
      /\ Shown(n) = Shown(s) \cup {p} /\ OrderIsKept(s, n)
  BY <1>2, <1>3, <1>4, <1>6, <1>7, <1>8, SeatedIs
<1> QED  BY <1>9, <1>2, <1>4 DEF n, IsBornIn, Tray

\* placeProcessInNewSlot, into a slot that is still free.
LEMMA PlacedInSlotIs ==
    ASSUME NEW s, PanesAreSound(s), NEW p \in Terms, NEW t \in Terms, p \notin DOMAIN s.procs,
           NEW i \in DOMAIN s.slots, s.slots[i] = None
    PROVE  LET n == placeProcessInNewSlot(s, p, t, s.layout, i) IN
           /\ PanesAreSound(n) /\ IsBornIn(s, n, p, t)
           /\ Shown(n) = Shown(s) \cup {p} /\ Tray(n) = Tray(s)
           /\ OrderIsKept(s, n)
<1> DEFINE base == WithProcess(s, p, t)
           n == placeProcessInNewSlot(s, p, t, s.layout, i)
           w == [s.slots EXCEPT ![i] = p]
<1>1. s \in ShellSessions /\ GridIsSound(s.layout, s.slots)
      /\ DOMAIN s.procs = Shown(s) \cup Tray(s) /\ Shown(s) \cap Tray(s) = {}
  BY DEF PanesAreSound
<1>2. base \in ShellSessions /\ SamePanes(s, base) /\ IsBornIn(s, base, p, t)
  BY <1>1, WithProcessIs DEF IsBornIn
<1>3. n = [base EXCEPT !.layout = s.layout, !.slots = w, !.active = p]
  <2> HIDE DEF base
  <2> QED  BY <1>2 DEF placeProcessInNewSlot, Put, base, SamePanes
<1> HIDE DEF base, n
<1>4. p # None  BY NoneIsNoTerm
<1>6. /\ w \in Places /\ Len(w) = Len(s.slots) /\ Once(w)
      /\ Range(w) \ {None} = (Range(s.slots) \ {None}) \cup {p}
      /\ p \in Range(w)
      /\ \A a, b \in Terms : Before(s.slots, a, b) => Before(w, a, b)
  <2>1. w = [s.slots EXCEPT ![i] = p]  OBVIOUS
  <2> HIDE DEF w
  <2> QED  BY <1>1, <1>4, <2>1, FillIs DEF GridIsSound, Shown
<1> HIDE DEF w
<1>7. n \in ShellSessions /\ n.layout = s.layout /\ n.slots = w /\ n.active = p
      /\ n.procs = base.procs /\ n.floating = base.floating
  BY <1>1, <1>2, <1>3, <1>6 DEF ShellSessions
<1>9. Shown(n) = Shown(s) \cup {p} /\ Tray(n) = Tray(s)  BY <1>6, <1>7, <1>2 DEF Shown, Tray, SamePanes
<1>12. DOMAIN n.procs = Shown(n) \cup Tray(n) /\ Shown(n) \cap Tray(n) = {}
  BY <1>1, <1>9, <1>2, <1>7 DEF IsBornIn
<1>13. PanesAreSound(n)  BY <1>4, <1>6, <1>7, <1>2, <1>1, <1>12 DEF PanesAreSound, SamePanes, GridIsSound
<1>14. OrderIsKept(s, n)  BY <1>6, <1>7 DEF OrderIsKept
<1> QED  BY <1>9, <1>2, <1>7, <1>13, <1>14 DEF n, IsBornIn

\* registerFloatingShell, while the tray has a place.
LEMMA FloatedIs ==
    ASSUME NEW s, PanesAreSound(s), NEW p \in Terms, NEW t \in Terms, p \notin DOMAIN s.procs,
           Len(s.floating) < MaxFloating
    PROVE  LET n == registerFloatingShell(s, p, t) IN
           /\ PanesAreSound(n) /\ IsBornIn(s, n, p, t)
           /\ Shown(n) = Shown(s) /\ Tray(n) = Tray(s) \cup {p}
           /\ n.slots = s.slots /\ n.layout = s.layout
<1> DEFINE base == WithProcess(s, p, t)
           n == registerFloatingShell(s, p, t)
           w == Append(s.floating, p)
           l == Len(s.floating)
<1>1. s \in ShellSessions /\ GridIsSound(s.layout, s.slots) /\ Once(s.floating)
      /\ DOMAIN s.procs = Shown(s) \cup Tray(s) /\ Shown(s) \cap Tray(s) = {}
  BY DEF PanesAreSound
<1>2. base \in ShellSessions /\ SamePanes(s, base) /\ IsBornIn(s, base, p, t)
  BY <1>1, WithProcessIs DEF IsBornIn
<1>3. s.floating \in Seq(Terms) /\ l \in Nat /\ DOMAIN s.floating = 1..l
  BY <1>1 DEF ShellSessions
<1>4. n = [base EXCEPT !.floating = w]
  <2> HIDE DEF base
  <2> QED  BY <1>3, ShellsAssumption, <1>2 DEF registerFloatingShell, base, SamePanes
<1> HIDE DEF base, n
<1>5. w \in Seq(Terms) /\ Len(w) = l + 1 /\ w[l + 1] = p /\ \A k \in 1..l : w[k] = s.floating[k]
  BY <1>3
<1> HIDE DEF w
<1>7. \A k \in 1..(l + 1) : k = l + 1 \/ k \in 1..l  BY <1>3
<1>9. Once(w)
  <2> SUFFICES ASSUME NEW j \in 1..(l + 1), NEW k \in 1..(l + 1), w[j] = w[k] PROVE j = k
    BY <1>3, <1>5 DEF Once
  <2>1. CASE j = l + 1  BY <1>5, <1>7, <1>1, <1>3, <2>1 DEF Tray, Range
  <2>2. CASE k = l + 1  BY <1>5, <1>7, <1>1, <1>3, <2>2 DEF Tray, Range
  <2>3. CASE j \in 1..l /\ k \in 1..l
    <3>1. s.floating[j] = s.floating[k] /\ s.floating[j] \in Terms  BY <1>3, <1>5, <2>3
    <3>2. s.floating[j] # None  BY <3>1, NoneIsNoTerm
    <3> QED  BY <1>1, <1>3, <2>3, <3>1, <3>2 DEF Once
  <2> QED  BY <1>7, <2>1, <2>2, <2>3
<1>10. Range(w) = Range(s.floating) \cup {p}
  <2>2. \A v : v \in Range(s.floating) <=> \E k \in 1..l : s.floating[k] = v  BY <1>3 DEF Range
  <2>3. l + 1 \in 1..(l + 1) /\ \A k \in 1..l : k \in 1..(l + 1)  BY <1>3
  <2>4. \A v \in Range(w) : v \in Range(s.floating) \cup {p}  BY <1>5, <1>7, <1>3, <2>2 DEF Range
  <2>5. \A v \in Range(s.floating) \cup {p} : v \in Range(w)  BY <1>5, <1>3, <2>2, <2>3 DEF Range
  <2> QED  BY <2>4, <2>5
<1>11. n \in ShellSessions /\ n.layout = base.layout /\ n.slots = base.slots /\ n.active = base.active
       /\ n.procs = base.procs /\ n.floating = w
  BY <1>2, <1>4, <1>5 DEF ShellSessions
<1>12. n.layout = s.layout /\ n.slots = s.slots /\ n.active = s.active  BY <1>2, <1>11 DEF SamePanes
<1>13. Shown(n) = Shown(s) /\ Tray(n) = Tray(s) \cup {p}  BY <1>10, <1>11, <1>12 DEF Shown, Tray
<1>15. DOMAIN n.procs = Shown(n) \cup Tray(n) /\ Shown(n) \cap Tray(n) = {}
  BY <1>1, <1>13, <1>2, <1>11 DEF IsBornIn
<1>16. Len(n.floating) <= MaxFloating  BY <1>3, <1>5, <1>11, ShellsAssumption
<1>17. PanesAreSound(n)
  <2>1. s.active \in Range(s.slots) /\ (s.active = None => Shown(s) = {})  BY DEF PanesAreSound
  <2> QED  BY <1>1, <1>9, <1>11, <1>12, <1>13, <1>15, <1>16, <2>1 DEF PanesAreSound
<1> QED  BY <1>12, <1>13, <1>2, <1>11, <1>17 DEF n, IsBornIn

\* What is said of a process: its terminal or its status changes, and no pane.
LEMMA SaidIs ==
    ASSUME NEW s, PanesAreSound(s), NEW n, NEW f \in [DOMAIN s.procs -> Bonds],
           n = [s EXCEPT !.procs = f]
    PROVE  PanesAreSound(n) /\ SamePanes(s, n) /\ n.procs = f
           /\ Shown(n) = Shown(s) /\ Tray(n) = Tray(s)
<1>1. s \in ShellSessions  BY DEF PanesAreSound
<1>4. n \in ShellSessions /\ n.procs = f /\ SamePanes(s, n)
  <2>2. SamePanes(s, n)  BY <1>1 DEF ShellSessions, SamePanes
  <2> QED  BY <1>1, ProcsAreTyped, <2>2 DEF ShellSessions
<1>7. PanesAreSound(n)  BY <1>4 DEF PanesAreSound, SamePanes, Shown, Tray
<1> QED  BY <1>4, <1>7 DEF SamePanes, Shown, Tray

\* The processes of n are those of s, p alone bound to `term` with `status`.
IsOnlySaid(s, n, p, term, status) ==
    /\ DOMAIN n.procs = DOMAIN s.procs
    /\ n.procs[p].term = term /\ n.procs[p].status = status
    /\ \A q \in DOMAIN s.procs \ {p} : n.procs[q] = s.procs[q]

\* updateProcessStatus, for the terminal the process is bound to.
LEMMA StatusIs ==
    ASSUME NEW s, PanesAreSound(s), NEW p \in DOMAIN s.procs, NEW status \in Statuses,
           NEW only, only = None \/ only = s.procs[p].term
    PROVE  LET n == updateProcessStatus(s, p, status, only) IN
           /\ PanesAreSound(n) /\ SamePanes(s, n)
           /\ Shown(n) = Shown(s) /\ Tray(n) = Tray(s)
           /\ IsOnlySaid(s, n, p, s.procs[p].term, status)
<1> DEFINE f == [s.procs EXCEPT ![p].status = status]
           n == [s EXCEPT !.procs = f]
<1>3. updateProcessStatus(s, p, status, only) = n  BY DEF updateProcessStatus
<1>5. f \in [DOMAIN s.procs -> Bonds]  BY ProcsAreTyped DEF Bonds, PanesAreSound
<1>6. f[p].term = s.procs[p].term /\ f[p].status = status /\ \A q \in DOMAIN s.procs \ {p} : f[q] = s.procs[q]
  BY ProcsAreTyped DEF Bonds, PanesAreSound
<1>7. DOMAIN f = DOMAIN s.procs  OBVIOUS
<1> HIDE DEF f
<1>8. PanesAreSound(n) /\ SamePanes(s, n) /\ n.procs = f /\ Shown(n) = Shown(s) /\ Tray(n) = Tray(s)
  <2>1. n = [s EXCEPT !.procs = f]  OBVIOUS
  <2> HIDE DEF n
  <2> QED  BY <1>5, <2>1, SaidIs
<1> HIDE DEF n
<1> QED  BY <1>3, <1>8, <1>6, <1>7 DEF IsOnlySaid

\* replaceProcessTerminal.
LEMMA TerminalIs ==
    ASSUME NEW s, PanesAreSound(s), NEW p \in DOMAIN s.procs, NEW t \in Terms
    PROVE  LET n == replaceProcessTerminal(s, p, t) IN
           /\ PanesAreSound(n) /\ SamePanes(s, n)
           /\ Shown(n) = Shown(s) /\ Tray(n) = Tray(s)
           /\ IsOnlySaid(s, n, p, t, s.procs[p].status)
<1> DEFINE f == [s.procs EXCEPT ![p].term = t]
           n == [s EXCEPT !.procs = f]
<1>3. replaceProcessTerminal(s, p, t) = n  BY DEF replaceProcessTerminal
<1>5. f \in [DOMAIN s.procs -> Bonds]  BY ProcsAreTyped DEF Bonds, PanesAreSound
<1>6. f[p].term = t /\ f[p].status = s.procs[p].status /\ \A q \in DOMAIN s.procs \ {p} : f[q] = s.procs[q]
  BY ProcsAreTyped DEF Bonds, PanesAreSound
<1>7. DOMAIN f = DOMAIN s.procs  OBVIOUS
<1> HIDE DEF f
<1>8. PanesAreSound(n) /\ SamePanes(s, n) /\ n.procs = f /\ Shown(n) = Shown(s) /\ Tray(n) = Tray(s)
  <2>1. n = [s EXCEPT !.procs = f]  OBVIOUS
  <2> HIDE DEF n
  <2> QED  BY <1>5, <2>1, SaidIs
<1> HIDE DEF n
<1> QED  BY <1>3, <1>8, <1>6, <1>7 DEF IsOnlySaid

\* Both, as a restarted or restored shell needs them.
LEMMA ReboundIs ==
    ASSUME PanesAreSound(session), NEW p \in DOMAIN session.procs, NEW t \in Terms, NEW status \in Statuses
    PROVE  LET n == Rebound(p, t, status) IN
           /\ PanesAreSound(n) /\ SamePanes(session, n)
           /\ Shown(n) = Shown(session) /\ Tray(n) = Tray(session)
           /\ IsOnlySaid(session, n, p, t, status)
<1> DEFINE m == replaceProcessTerminal(session, p, t)
           n == updateProcessStatus(m, p, status, None)
<1>1. /\ PanesAreSound(m) /\ SamePanes(session, m)
      /\ Shown(m) = Shown(session) /\ Tray(m) = Tray(session)
      /\ IsOnlySaid(session, m, p, t, session.procs[p].status)
  BY TerminalIs
<1> HIDE DEF m
<1>3. /\ PanesAreSound(n) /\ SamePanes(m, n)
      /\ Shown(n) = Shown(m) /\ Tray(n) = Tray(m)
      /\ IsOnlySaid(m, n, p, m.procs[p].term, status)  BY <1>1, StatusIs DEF IsOnlySaid
<1> HIDE DEF n
<1>4. IsOnlySaid(session, n, p, t, status)  BY <1>1, <1>3 DEF IsOnlySaid
<1>5. SamePanes(session, n)  BY <1>1, <1>3 DEF SamePanes
<1>6. Rebound(p, t, status) = n  BY DEF Rebound, n, m
<1> QED  BY <1>1, <1>3, <1>4, <1>5, <1>6

\* At most six panes, and no more shells than panes.
LEMMA SlotsAreFew ==
    ASSUME NEW s, PanesAreSound(s)
    PROVE  /\ SlotCount(s.layout) \in 1..6 /\ Len(s.slots) = SlotCount(s.layout)
           /\ Len(Running(s.slots)) <= SlotCount(s.layout)
<1> QED  BY RunningIs, CatalogIs DEF PanesAreSound, GridIsSound, Places

\* A layout that is picked takes the shells as they are ordered.
LEMMA LaidOutIs ==
    ASSUME NEW s, PanesAreSound(s), NEW name \in LAYOUT_IDS, SlotCount(name) >= Len(Running(s.slots))
    PROVE  LET n == setTerminalLayout(s, name) IN
           /\ PanesAreSound(n)
           /\ n.procs = s.procs /\ Shown(n) = Shown(s) /\ Tray(n) = Tray(s)
           /\ OrderIsKept(s, n)
<1> DEFINE n == setTerminalLayout(s, name)
           w == compactIntoLayout(s.slots, name)
           c == SlotCount(name)
<1>1. s \in ShellSessions /\ GridIsSound(s.layout, s.slots) /\ s.active \in Range(s.slots)
  BY DEF PanesAreSound
<1>2. Len(Running(s.slots)) \in Nat /\ c \in 1..6  BY ShownAreCounted, CatalogIs, FS_CardinalityType
<1>3. Len(Running(s.slots)) <= c /\ ~(c < Len(Running(s.slots)))
  <2> HIDE DEF c
  <2> QED  BY <1>2 DEF c
<1>4. n = [s EXCEPT !.layout = name, !.slots = w, !.active = s.active]
  BY <1>1, <1>3 DEF setTerminalLayout
<1>5. /\ w \in Places /\ Len(w) = c /\ Once(w)
      /\ Range(w) \ {None} = Range(s.slots) \ {None}
      /\ Len(Running(s.slots)) < c => w[c] = None
      /\ \A a, b \in Terms : Before(s.slots, a, b) => Before(w, a, b)
  BY <1>1, <1>3, PackIs DEF GridIsSound
<1> HIDE DEF n, w, c
<1>6. n \in ShellSessions /\ n.layout = name /\ n.slots = w /\ n.active = s.active
      /\ n.procs = s.procs /\ n.floating = s.floating
  BY <1>1, <1>4, <1>5 DEF ShellSessions
<1>9. s.active \in Range(w)
  <2>1. CASE s.active # None  BY <1>1, <1>5, <2>1
  <2>2. CASE s.active = None  BY <2>2, <1>5, <1>2 DEF Range, Places, Shown, PanesAreSound
  <2> QED  BY <2>1, <2>2
<1>10. PanesAreSound(n)  BY <1>6, <1>5, <1>9 DEF PanesAreSound, Shown, Tray, GridIsSound, c
<1> QED  BY <1>6, <1>5, <1>10 DEF n, Shown, Tray, OrderIsKept

\* Two panes that change places hold what they held.
LEMMA SwappedIs ==
    ASSUME NEW s, PanesAreSound(s), NEW i \in DOMAIN s.slots, NEW j \in DOMAIN s.slots
    PROVE  LET n == swapTerminalSlots(s, i, j) IN
           /\ PanesAreSound(n)
           /\ n.procs = s.procs /\ Shown(n) = Shown(s) /\ Tray(n) = Tray(s)
<1> DEFINE n == swapTerminalSlots(s, i, j)
           w == [s.slots EXCEPT ![i] = s.slots[j], ![j] = s.slots[i]]
<1>1. s \in ShellSessions /\ GridIsSound(s.layout, s.slots)  BY DEF PanesAreSound
<1>3. n = [s EXCEPT !.slots = w]  BY DEF swapTerminalSlots
<1>4. w[i] = s.slots[j] /\ w[j] = s.slots[i] /\ \A k \in DOMAIN s.slots \ {i, j} : w[k] = s.slots[k]
  BY <1>1, ShownAreTerms
<1>5. w \in [1..Len(s.slots) -> Terms \cup {None}] /\ DOMAIN w = DOMAIN s.slots  BY <1>1, ShownAreTerms
<1> HIDE DEF w, n
<1>6. w \in Places /\ Len(w) = Len(s.slots)  BY <1>1, ShownAreTerms, <1>5 DEF Places
<1>7. Range(w) = Range(s.slots)
  <2>2. \A v : v \in Range(s.slots) <=> \E k \in DOMAIN s.slots : s.slots[k] = v  BY DEF Range
  <2>3. \A k \in DOMAIN s.slots : w[k] \in Range(s.slots)  BY <1>4, <2>2
  <2>4. \A k \in DOMAIN s.slots : s.slots[k] \in Range(w)  BY <1>4, <1>5 DEF Range
  <2> QED  BY <1>5, <2>2, <2>3, <2>4 DEF Range
<1>8. Once(w)
  <2> DEFINE from == [k \in DOMAIN s.slots |-> IF k = i THEN j ELSE IF k = j THEN i ELSE k]
  <2>1. \A k \in DOMAIN s.slots : from[k] \in DOMAIN s.slots /\ w[k] = s.slots[from[k]]  BY <1>4
  <2>2. \A k, l \in DOMAIN s.slots : from[k] = from[l] => k = l  OBVIOUS
  <2> HIDE DEF from
  <2>4. ASSUME NEW k \in DOMAIN s.slots, NEW l \in DOMAIN s.slots, w[k] = w[l], w[k] # None
        PROVE  k = l
    <3>1. s.slots[from[k]] = s.slots[from[l]] /\ s.slots[from[k]] # None
          /\ from[k] \in DOMAIN s.slots /\ from[l] \in DOMAIN s.slots
      BY <2>1, <2>4
    <3>2. from[k] = from[l]  BY <1>1, <3>1 DEF Once, GridIsSound
    <3> QED  BY <2>2, <3>2
  <2> QED  BY <1>5, <2>4 DEF Once
<1>9. n \in ShellSessions /\ n.layout = s.layout /\ n.slots = w /\ n.active = s.active
      /\ n.procs = s.procs /\ n.floating = s.floating
  BY <1>1, <1>3, <1>6 DEF ShellSessions
<1>11. GridIsSound(n.layout, n.slots)  BY <1>1, <1>6, <1>8, <1>9 DEF GridIsSound
<1> QED  BY <1>9, <1>7, <1>11 DEF n, Shown, Tray, PanesAreSound

\* A pane that gets the focus.
LEMMA SelectedIs ==
    ASSUME NEW s, PanesAreSound(s), NEW p \in DOMAIN s.procs, p \in Range(s.slots)
    PROVE  LET n == [s EXCEPT !.active = p] IN
           /\ PanesAreSound(n)
           /\ n.procs = s.procs /\ n.slots = s.slots /\ Shown(n) = Shown(s) /\ Tray(n) = Tray(s)
<1> DEFINE n == [s EXCEPT !.active = p]
<1>2. n \in ShellSessions /\ n.layout = s.layout /\ n.slots = s.slots /\ n.active = p
      /\ n.procs = s.procs /\ n.floating = s.floating
  BY ProcsAreTyped, NoneIsNoTerm DEF ShellSessions, PanesAreSound
<1> HIDE DEF n
<1>3. Shown(n) = Shown(s) /\ Tray(n) = Tray(s)  BY <1>2 DEF Shown, Tray
<1>4. PanesAreSound(n)  BY ProcsAreTyped, NoneIsNoTerm, <1>2, <1>3 DEF PanesAreSound
<1> QED  BY <1>2, <1>3, <1>4 DEF n

\* A sequence that loses p.
LEMMA EmptiedIs ==
    ASSUME NEW slots \in Places, Once(slots), NEW p \in Terms
    PROVE  /\ Emptied(slots, p) \in Places /\ Len(Emptied(slots, p)) = Len(slots)
           /\ Once(Emptied(slots, p))
           /\ Range(Emptied(slots, p)) \ {None} = Range(slots) \ {None, p}
           /\ \A a, b \in Terms \ {p} : Before(slots, a, b) => Before(Emptied(slots, p), a, b)
<1> DEFINE w == Emptied(slots, p)
<1>2. w = [i \in DOMAIN slots |-> IF slots[i] = p THEN None ELSE slots[i]]  BY DEF Emptied
<1> HIDE DEF w
<1>3. DOMAIN w = DOMAIN slots /\ \A i \in DOMAIN slots : w[i] = IF slots[i] = p THEN None ELSE slots[i]
  BY <1>2
<1>4. w \in [1..Len(slots) -> Terms \cup {None}]
  <2>1. \A i \in 1..Len(slots) : (IF slots[i] = p THEN None ELSE slots[i]) \in Terms \cup {None}  BY DEF Places
  <2> QED  BY <1>2, <2>1 DEF Places
<1>7. Range(w) \ {None} = Range(slots) \ {None, p}
  <2>3. \A v \in Range(w) \ {None} : v \in Range(slots) \ {None, p}  BY <1>3 DEF Range
  <2>4. \A v \in Range(slots) \ {None, p} : v \in Range(w) \ {None}  BY <1>3 DEF Range
  <2> QED  BY <2>3, <2>4
<1>8. \A a, b \in Terms \ {p} : Before(slots, a, b) => Before(w, a, b)  BY <1>3 DEF Before
<1> QED  BY <1>4, <1>3, <1>7, <1>8 DEF w, Once, Places

\* As many slots are occupied as shells are shown.
LEMMA OccupiedIs ==
    ASSUME NEW slots \in Places
    PROVE  /\ Occupied(slots) \in Seq(Nat)
           /\ Len(Occupied(slots)) = Len(Running(slots))
<1> DEFINE w == [i \in DOMAIN slots |-> IF slots[i] = None THEN None ELSE i]
<1>3. w \in Seq(Nat \cup {None})  BY DEF Places
<1>4. Occupants(w) = Occupants(slots)
  <2>1. \A i \in DOMAIN slots : w[i] # None <=> slots[i] # None  BY NoneIsNoTerm DEF Places
  <2>2. DOMAIN w = DOMAIN slots  OBVIOUS
  <2> HIDE DEF w
  <2> QED  BY <2>1, <2>2 DEF Occupants
<1>5. Occupied(slots) = Running(w)  BY DEF Occupied
<1> HIDE DEF w
<1>7. Len(Running(slots)) = Cardinality(Occupants(slots))  BY RunningCounts DEF Places
<1> QED  BY <1>4, <1>5, <1>3, RunningIs, RunningCounts, <1>7

\* The focus goes to a slot that holds a shell.
LEMMA NearestOccupiedIs ==
    ASSUME NEW slots \in Places, NEW from \in DOMAIN slots, Range(slots) \ {None} # {}
    PROVE  nearestOccupiedSlot(slots, from) \in Range(slots) \ {None}
<1> DEFINE held == {i \in DOMAIN slots : slots[i] # None}
           Far(i) == IF i > from THEN 2 * (i - from) - 1 ELSE 2 * (from - i)
           T == {Far(i) : i \in held}
           k == CHOOSE i \in held : \A j \in held : Far(i) <= Far(j)
<1>3. \A i \in held : Far(i) \in Nat
  <2> SUFFICES ASSUME NEW i \in held PROVE Far(i) \in Nat  OBVIOUS
  <2> QED  BY DEF Places
<1>4. nearestOccupiedSlot(slots, from) = slots[k]  BY DEF nearestOccupiedSlot, Range
<1> HIDE DEF Far
<1>5. T \in SUBSET Nat /\ T # {}  BY <1>3 DEF Range
<1>6. PICK m \in T : \A y \in T : m <= y  BY <1>5, LeastOf
<1>8. k \in held  BY <1>6
<1> HIDE DEF k
<1> QED  BY <1>4, <1>8 DEF Range

\* The processes of n are those of s but p.
IsGoneFrom(s, n, p) ==
    /\ DOMAIN n.procs = DOMAIN s.procs \ {p}
    /\ \A q \in DOMAIN s.procs \ {p} : n.procs[q] = s.procs[q]

\* A process is removed.
LEMMA WithoutIs ==
    ASSUME NEW s \in ShellSessions, NEW p
    PROVE  /\ Without(s, p) \in UNION {[P -> Bonds] : P \in SUBSET Terms}
           /\ DOMAIN Without(s, p) = DOMAIN s.procs \ {p}
           /\ \A q \in DOMAIN s.procs \ {p} : Without(s, p)[q] = s.procs[q]
<1>2. Without(s, p) \in [DOMAIN s.procs \ {p} -> Bonds]  BY ProcsAreTyped DEF Without
<1>3. DOMAIN s.procs \ {p} \in SUBSET Terms  BY ProcsAreTyped
<1> QED  BY <1>2, <1>3 DEF Without

\* A pane that closes.
LEMMA ClosedIs ==
    ASSUME NEW s, PanesAreSound(s), NEW p \in Shown(s)
    PROVE  LET n == closeProcess(s, p) IN
           /\ PanesAreSound(n) /\ IsGoneFrom(s, n, p)
           /\ Shown(n) = Shown(s) \ {p} /\ Tray(n) = Tray(s)
           /\ OrderIsKept(s, n)
<1> DEFINE n == closeProcess(s, p)
           E == Emptied(s.slots, p)
           name == resolveReorganizedLayout(s.layout, Occupied(E))
           w == compactIntoLayout(E, name)
           spots == {i \in DOMAIN s.slots : s.slots[i] = p}
           act == IF Running(E) = <<>> THEN None
                  ELSE IF s.active # p THEN s.active
                  ELSE IF spots = {} THEN FirstOf(E)
                  ELSE nearestOccupiedSlot(E, CHOOSE i \in spots : TRUE)
           c == SlotCount(name)
           l == Len(Running(E))
<1>1. /\ s \in ShellSessions /\ s.slots \in Places /\ Once(s.slots) /\ GridIsSound(s.layout, s.slots)
      /\ s.active \in Range(s.slots)
      /\ DOMAIN s.procs = Shown(s) \cup Tray(s) /\ Shown(s) \cap Tray(s) = {}
  BY DEF PanesAreSound, GridIsSound
<1>3. /\ E \in Places /\ Len(E) = Len(s.slots) /\ Once(E)
      /\ Range(E) \ {None} = Shown(s) \ {p}
      /\ \A a, b \in Terms \ {p} : Before(s.slots, a, b) => Before(E, a, b)
  <2>1. Range(s.slots) \ {None, p} = Shown(s) \ {p}  BY DEF Shown
  <2> QED  BY <1>1, ShownAreTerms, NoneIsNoTerm, <2>1, EmptiedIs
<1>4. n = [s EXCEPT !.layout = name, !.slots = w, !.procs = Without(s, p), !.active = act]
  BY DEF closeProcess, CloseInto
<1>6. DOMAIN E = DOMAIN s.slots  BY DEF Emptied
<1> HIDE DEF E, n
<1>7. l \in Nat /\ l <= 6 /\ Running(E) \in Seq(Terms) /\ Range(Running(E)) = Shown(s) \ {p}
  <2>3. Len(E) \in 1..6  BY <1>3, SlotsAreFew
  <2>4. l \in Nat /\ l <= 6
    <3>1. Len(Running(E)) <= Len(E)  BY <1>3, RunningIs DEF Places
    <3> DEFINE b == Len(E)
    <3>2. b \in 1..6 /\ l <= b /\ l \in Nat  BY <1>3, RunningIs, <2>3, <3>1 DEF Places
    <3> HIDE DEF b, l
    <3> QED  BY <3>2
  <2> QED  BY <1>3, RunningIs, <2>4 DEF Places
<1>8. Occupied(E) \in Seq(Nat) /\ Len(Occupied(E)) = l  BY <1>3, OccupiedIs
<1> HIDE DEF l
<1>9. name \in LAYOUT_IDS /\ c = IF l <= 1 THEN 1 ELSE l  BY <1>7, <1>8, ReorganizedIs
<1> HIDE DEF name, c
<1>11. /\ w \in Places /\ Len(w) = c /\ Once(w)
       /\ Range(w) \ {None} = Range(E) \ {None}
       /\ l < c => w[c] = None
       /\ \A a, b \in Terms : Before(E, a, b) => Before(w, a, b)
  <2>1. Len(Running(E)) <= SlotCount(name)  BY <1>7, <1>9 DEF l, c
  <2> QED  BY <1>3, <1>9, <2>1, PackIs DEF l, c
<1> HIDE DEF w, spots
<1>12. act \in Range(w) /\ (act = None => Shown(s) \ {p} = {}) /\ act \in Terms \cup {None}
  <2>1. CASE Running(E) = <<>>
    <3>3. w[c] = None /\ c \in DOMAIN w
      <4>1. l < c  BY <1>7, <1>9, <2>1 DEF l, Range
      <4>2. DOMAIN w = 1..c  BY <1>11 DEF Places
      <4> QED  BY <1>7, <1>9, <1>11, <4>1, <4>2
    <3>4. None \in Range(w)  BY <3>3 DEF Range
    <3> QED  BY <2>1, <1>7, <3>4 DEF l, Range
  <2>2. CASE Running(E) # <<>>
    <3>1. Shown(s) \ {p} # {}  BY <1>7, <2>2 DEF Range
    <3>2. SUFFICES act \in Shown(s) \ {p}  BY <1>3, <1>11, <1>1, ShownAreTerms, NoneIsNoTerm
    <3>3. CASE s.active # p  BY <1>1, <3>3, <2>2, <3>1 DEF Shown, PanesAreSound
    <3>4. CASE s.active = p
      <4>1. spots # {}  BY DEF Range, spots, Shown
      <4> DEFINE from == CHOOSE i \in spots : TRUE
      <4>2. from \in DOMAIN E  BY <1>6, <4>1 DEF spots
      <4>3. act = nearestOccupiedSlot(E, from)  BY <2>2, <3>4, <4>1
      <4> HIDE DEF from
      <4> QED  BY <1>3, <3>1, <4>2, <4>3, NearestOccupiedIs
    <3> QED  BY <3>3, <3>4
  <2> QED  BY <2>1, <2>2
<1> HIDE DEF act
<1>13. n \in ShellSessions /\ n.layout = name /\ n.slots = w /\ n.active = act
       /\ n.procs = Without(s, p) /\ n.floating = s.floating
  BY <1>1, <1>4, <1>9, <1>11, <1>12, WithoutIs DEF ShellSessions
<1>15. IsGoneFrom(s, n, p)
  <2> DEFINE f == Without(s, p)
  <2>1. DOMAIN f = DOMAIN s.procs \ {p} /\ \A q \in DOMAIN s.procs \ {p} : f[q] = s.procs[q]
    BY <1>1, WithoutIs
  <2>2. n.procs = f  BY <1>13
  <2> HIDE DEF f
  <2> QED  BY <2>1, <2>2 DEF IsGoneFrom
<1>17. GridIsSound(n.layout, n.slots)  BY <1>9, <1>11, <1>13 DEF GridIsSound, c
<1>18. PanesAreSound(n)
  BY <1>12, <1>13, <1>3, <1>11, <1>1, <1>15, <1>17 DEF PanesAreSound, IsGoneFrom, Shown, Tray
<1>19. OrderIsKept(s, n)
  <2> SUFFICES ASSUME NEW a \in Terms, NEW b \in Terms, a \in Shown(n), b \in Shown(n),
                      Before(s.slots, a, b)
               PROVE  Before(n.slots, a, b)
    BY DEF OrderIsKept
  <2> QED  BY <1>3, <1>11, <1>13 DEF Shown, Tray
<1> QED  BY <1>3, <1>11, <1>13, <1>15, <1>18, <1>19 DEF n, Shown, Tray

\* The tray without p.
LEMMA UnfloatedIs ==
    ASSUME NEW s, PanesAreSound(s), NEW p \in Tray(s)
    PROVE  LET n == Unfloated(s, p) IN
           /\ n \in ShellSessions
           /\ n.layout = s.layout /\ n.slots = s.slots /\ n.active = s.active /\ n.procs = s.procs
           /\ Once(n.floating) /\ Len(n.floating) <= MaxFloating
           /\ Tray(n) = Tray(s) \ {p}
<1> DEFINE n == Unfloated(s, p)
           E == Emptied(s.floating, p)
           r == Running(E)
<1>1. s \in ShellSessions /\ Once(s.floating) /\ Len(s.floating) <= MaxFloating  BY DEF PanesAreSound
<1>4. s.floating \in Places
  <2>2. s.floating \in [1..Len(s.floating) -> Terms \cup {None}]  BY <1>1 DEF ShellSessions
  <2> QED  BY <1>1, <2>2 DEF Places, ShellSessions
<1>5. /\ E \in Places /\ Len(E) = Len(s.floating) /\ Once(E)
      /\ Range(E) \ {None} = Range(s.floating) \ {None, p}  BY <1>1, ShownAreTerms, <1>4, EmptiedIs
<1>7. n = [s EXCEPT !.floating = r]  BY DEF Unfloated
<1> HIDE DEF n, E
<1>8. r \in Seq(Terms) /\ Range(r) = Range(E) \ {None} /\ Len(r) <= Len(E) /\ Once(r)
  BY <1>5, RunningIs, RunningKeepsOrder DEF Places
<1>9. Len(r) \in Nat  BY <1>8
<1> HIDE DEF r
<1>10. n \in ShellSessions /\ n.layout = s.layout /\ n.slots = s.slots /\ n.active = s.active
       /\ n.procs = s.procs /\ n.floating = r
  BY <1>1, <1>7, <1>8 DEF ShellSessions
<1>11. Tray(n) = Tray(s) \ {p}  BY <1>5, <1>1, ShownAreTerms, NoneIsNoTerm, <1>8, <1>10 DEF Tray
<1>12. Len(n.floating) <= MaxFloating  BY <1>1, <1>5, <1>8, <1>9, <1>10, ShellsAssumption DEF ShellSessions
<1> QED  BY <1>8, <1>10, <1>11, <1>12 DEF n

\* A floating shell that closes; one that was pinned meanwhile stays.
LEMMA FloatClosedIs ==
    ASSUME NEW s, PanesAreSound(s), NEW p \in Tray(s)
    PROVE  LET n == closeFloatingShell(s, p) IN
           /\ PanesAreSound(n) /\ IsGoneFrom(s, n, p)
           /\ Shown(n) = Shown(s) /\ Tray(n) = Tray(s) \ {p}
           /\ n.slots = s.slots /\ n.layout = s.layout
<1> DEFINE base == Unfloated(s, p)
           n == closeFloatingShell(s, p)
<1>1. /\ s \in ShellSessions /\ GridIsSound(s.layout, s.slots)
      /\ DOMAIN s.procs = Shown(s) \cup Tray(s) /\ Shown(s) \cap Tray(s) = {}
      /\ s.active \in Range(s.slots) /\ (s.active = None => Shown(s) = {})
  BY DEF PanesAreSound
<1>2. /\ base \in ShellSessions
      /\ base.layout = s.layout /\ base.slots = s.slots /\ base.active = s.active /\ base.procs = s.procs
      /\ Once(base.floating) /\ Len(base.floating) <= MaxFloating
      /\ Tray(base) = Tray(s) \ {p}
  BY UnfloatedIs
<1>3. n = [base EXCEPT !.procs = Without(s, p)]  BY DEF closeFloatingShell, Held, Tray
<1> HIDE DEF n, base
<1>4. n \in ShellSessions /\ n.layout = s.layout /\ n.slots = s.slots /\ n.active = s.active
      /\ n.procs = Without(s, p) /\ n.floating = base.floating
  BY <1>1, <1>2, <1>3, WithoutIs DEF ShellSessions
<1>6. IsGoneFrom(s, n, p)
  <2> DEFINE f == Without(s, p)
  <2>1. DOMAIN f = DOMAIN s.procs \ {p} /\ \A q \in DOMAIN s.procs \ {p} : f[q] = s.procs[q]
    BY <1>1, WithoutIs
  <2>2. n.procs = f  BY <1>4
  <2> HIDE DEF f
  <2> QED  BY <2>1, <2>2 DEF IsGoneFrom
<1>7. DOMAIN n.procs = Shown(n) \cup Tray(n) /\ Shown(n) \cap Tray(n) = {}
  BY <1>1, <1>2, <1>4, <1>6 DEF IsGoneFrom, Shown, Tray
<1>8. PanesAreSound(n)  BY <1>1, <1>2, <1>4, <1>7 DEF PanesAreSound, Shown, Tray
<1> QED  BY <1>4, <1>2, <1>6, <1>8 DEF n, Shown, Tray

\* A floating shell that is pinned.
LEMMA PinnedIs ==
    ASSUME NEW s, PanesAreSound(s), NEW p \in Tray(s), Len(Running(s.slots)) < 6
    PROVE  LET n == pinFloatingShellToSlot(s, p) IN
           /\ PanesAreSound(n) /\ n.procs = s.procs
           /\ Shown(n) = Shown(s) \cup {p} /\ Tray(n) = Tray(s) \ {p}
           /\ OrderIsKept(s, n)
<1> DEFINE base == Unfloated(s, p)
           n == pinFloatingShellToSlot(s, p)
<1>1. /\ s \in ShellSessions
      /\ DOMAIN s.procs = Shown(s) \cup Tray(s) /\ Shown(s) \cap Tray(s) = {}
  BY DEF PanesAreSound
<1>2. p \in Terms /\ p # None  BY <1>1, ShownAreTerms, NoneIsNoTerm
<1>3. /\ base \in ShellSessions
      /\ base.layout = s.layout /\ base.slots = s.slots /\ base.active = s.active /\ base.procs = s.procs
      /\ Once(base.floating) /\ Len(base.floating) <= MaxFloating
      /\ Tray(base) = Tray(s) \ {p}
  BY UnfloatedIs
<1>4. n = PutPlanned(s, base, p, planAddPlacement(s.layout, s.slots))
  BY <1>1 DEF pinFloatingShellToSlot, Held, Tray
<1> HIDE DEF n, base
<1>5. p \notin Range(s.slots)  BY <1>1, <1>2 DEF Shown
<1>6. DOMAIN base.procs = Shown(s) \cup Tray(base) \cup {p}  BY <1>1, <1>3
<1>7. p \notin Tray(base) /\ Tray(base) \cap Shown(s) = {}  BY <1>1, <1>3
<1>8. /\ PanesAreSound(n) /\ n.procs = base.procs /\ n.floating = base.floating
      /\ Shown(n) = Shown(s) \cup {p} /\ OrderIsKept(s, n)
  BY <1>2, <1>3, <1>4, <1>5, <1>6, <1>7, SeatedIs
<1> QED  BY <1>3, <1>8 DEF n, Tray

-----------------------------------------------------------------------------
(* The invariant of the shells.                                             *)

TermStates == {"unborn", "asked", "live", "dying", "gone"}
Begun == {"live", "dying", "gone"}

TermOf(p) == session.procs[p].term

\* No terminal runs for p.
Over(p) == TermOf(p) = None \/ terms[TermOf(p)] # "live"

\* A process is bound to a terminal that was there.
ProcsAreBegun ==
    \A p \in Procs : terms[p] \in Begun /\ (TermOf(p) # None => terms[TermOf(p)] \in Begun)

\* A new shell is on its way; into a slot, alone.
Landing(f) ==
    /\ f.kind \in {"add", "slot", "float"}
    /\ f.proc = f.term /\ f.term \in Terms /\ terms[f.term] = "asked"
    /\ f.proc \notin Procs
    /\ f.kind = "slot" => /\ flows = {f}
                          /\ f.aim[1] = session.layout
                          /\ f.aim[2] \in DOMAIN session.slots /\ session.slots[f.aim[2]] = None

\* A shell closes, its terminal stopped.
Closing(f) ==
    /\ f.kind \in {"close", "closeFloat"}
    /\ f.proc \in Procs /\ Over(f.proc)
    /\ f.term \in Terms /\ terms[f.term] \in Begun
    /\ f.kind = "close" => f.proc \in Shown(session)

\* A shell waits for the end of its terminal or for the next one.
Restarting(f) ==
    /\ f.kind = "restart"
    /\ f.proc \in Procs /\ Over(f.proc)
    /\ f.term = None \/ (f.term \in Terms /\ terms[f.term] = "asked")

\* The shells of a saved worktree that are still to be bound.
ComingBack(f) ==
    /\ f.kind = "recreate" /\ f.proc = None
    /\ f.aim \in Seq(Terms) /\ Once(f.aim)
    /\ \A p \in Range(f.aim) : p \in Procs /\ TermOf(p) = None
    /\ f.term = None \/ (/\ f.term \in Terms /\ terms[f.term] = "asked"
                         /\ f.aim # <<>> /\ terms[Head(f.aim)] # "live")

FlowIsSound(f) ==
    /\ f = Asked(f.kind, f.proc, f.term, f.aim)
    /\ Landing(f) \/ Closing(f) \/ Restarting(f) \/ ComingBack(f)

FlowsAreSound == \A f \in flows : FlowIsSound(f)

\* No two handlers are at work on a process or wait for a terminal, and none on a shell of
\* a worktree that still comes back.
FlowsAreApart ==
    \A f, g \in flows :
        /\ f.proc = g.proc => f = g
        /\ f.term = g.term /\ f.term \in Terms /\ terms[f.term] = "asked" => f = g
        /\ f.kind = "recreate" => g.kind \notin {"close", "closeFloat", "restart"}

\* There is a pane for each shell on its way, and for the default shell.
Adds(fl) == {f \in fl : f.kind = "add"}

RoomIsKept ==
    /\ IsFiniteSet(flows)
    /\ Cardinality(Shown(session)) + Cardinality(Adds(flows)) <= 6
    /\ ~ensured => Cardinality(Adds(flows)) <= 5

ShellsTyped ==
    /\ terms \in [Terms -> TermStates]
    /\ ensured \in BOOLEAN
    /\ DOMAIN seen \subseteq Terms

ShellsInv ==
    /\ ShellsTyped /\ PanesAreSound(session) /\ ProcsAreBegun
    /\ FlowsAreSound /\ FlowsAreApart /\ RoomIsKept
    /\ EndedIsOver /\ EveryTerminalIsReachable

-----------------------------------------------------------------------------
(* What a step leaves alone.                                                *)

\* A terminal that was there runs only if it did.
TermsGoOn ==
    /\ terms' \in [Terms -> TermStates]
    /\ \A t \in Terms : terms[t] \in Begun =>
          terms'[t] \in Begun /\ (terms'[t] = "live" => terms[t] = "live")

\* What a sound session says of its processes.
LEMMA ProcsAreTerms ==
    ASSUME PanesAreSound(session)
    PROVE  /\ Procs \in SUBSET Terms /\ session \in ShellSessions
           /\ Procs = Shown(session) \cup Tray(session)
           /\ \A p \in Procs : /\ session.procs[p] \in Bonds
                               /\ TermOf(p) \in Terms \cup {None}
                               /\ session.procs[p].status \in Statuses
<1>3. \A p \in Procs : session.procs[p] \in Bonds  BY ProcsAreTyped DEF Procs, PanesAreSound
<1> QED  BY ProcsAreTyped, <1>3 DEF Bonds, TermOf, PanesAreSound, Procs

\* A handler whose terminal and process are left alone.
LEMMA FlowStays ==
    ASSUME ShellsInv, NEW f \in flows, TermsGoOn,
           f.term \in Terms /\ terms[f.term] = "asked" => terms'[f.term] = "asked",
           f.proc \in Procs => f.proc \in Procs' /\ TermOf(f.proc)' = TermOf(f.proc),
           f.proc \in Terms \ Procs => f.proc \notin Procs',
           f.kind = "recreate" => \A p \in Range(f.aim) : p \in Procs' /\ TermOf(p)' = TermOf(p),
           f.kind = "slot" => flows' = {f} /\ session'.layout = session.layout
                              /\ session'.slots = session.slots,
           f.kind = "close" => f.proc \in Shown(session')
    PROVE  FlowIsSound(f)'
<1>1. FlowIsSound(f)  BY DEF ShellsInv, FlowsAreSound
<1>2. f = Asked(f.kind, f.proc, f.term, f.aim)  BY <1>1 DEF FlowIsSound
<1>5. ASSUME f.proc \in Procs, Over(f.proc) PROVE Over(f.proc)'
  <2>2. CASE TermOf(f.proc) = None  BY <1>5, <2>2 DEF Over
  <2>3. CASE TermOf(f.proc) # None
    <3>1. TermOf(f.proc) \in Terms /\ terms[TermOf(f.proc)] \in Begun
      BY ProcsAreTerms, <1>5, <2>3 DEF ShellsInv, ProcsAreBegun
    <3> QED  BY <1>5, <3>1, <2>3 DEF Over, TermsGoOn
  <2> QED  BY <2>2, <2>3
<1>6. CASE Landing(f)  BY <1>2, <1>6 DEF FlowIsSound, Landing
<1>7. CASE Closing(f)  BY <1>2, <1>5, <1>7 DEF FlowIsSound, Closing, TermsGoOn
<1>8. CASE Restarting(f)  BY <1>2, <1>5, <1>8 DEF FlowIsSound, Restarting
<1>9. CASE ComingBack(f)
  <2>2. f.term # None => terms'[Head(f.aim)] # "live"
    <3> SUFFICES ASSUME f.term # None PROVE terms'[Head(f.aim)] # "live"  OBVIOUS
    <3>1. f.aim \in Seq(Terms) /\ f.aim # <<>> /\ terms[Head(f.aim)] # "live"
      BY <1>9 DEF ComingBack
    <3>3. Head(f.aim) \in Procs  BY <1>9, <3>1 DEF ComingBack, Range
    <3> QED  BY ProcsAreTerms, <3>1, <3>3 DEF TermsGoOn, ShellsInv, ProcsAreBegun
  <2> QED  BY <1>2, <1>9, <2>2 DEF FlowIsSound, ComingBack
<1> QED  BY <1>1, <1>6, <1>7, <1>8, <1>9 DEF FlowIsSound

\* The shells on their way, as handlers come and go.
LEMMA AddsWith ==
    ASSUME NEW fl, IsFiniteSet(fl), NEW g
    PROVE  /\ IsFiniteSet(fl \cup {g}) /\ IsFiniteSet(fl \ {g})
           /\ IsFiniteSet(Adds(fl)) /\ Cardinality(Adds(fl)) \in Nat
           /\ g.kind = "add" /\ g \notin fl => Cardinality(Adds(fl \cup {g})) = Cardinality(Adds(fl)) + 1
           /\ g.kind # "add" => Adds(fl \cup {g}) = Adds(fl)
           /\ g.kind # "add" => Adds(fl \ {g}) = Adds(fl)
           /\ g.kind = "add" /\ g \in fl => Cardinality(Adds(fl \ {g})) = Cardinality(Adds(fl)) - 1
           /\ Cardinality(Adds(fl \ {g})) \in Nat /\ Cardinality(Adds(fl \ {g})) <= Cardinality(Adds(fl))
<1>1. IsFiniteSet(fl \cup {g}) /\ IsFiniteSet(fl \ {g})  BY FS_AddElement, FS_RemoveElement
<1>3. IsFiniteSet(Adds(fl)) /\ Cardinality(Adds(fl)) \in Nat  BY FS_Subset, FS_CardinalityType DEF Adds
<1>4. ASSUME g.kind = "add", g \notin fl
      PROVE  Cardinality(Adds(fl \cup {g})) = Cardinality(Adds(fl)) + 1
  <2>1. Adds(fl \cup {g}) = Adds(fl) \cup {g} /\ g \notin Adds(fl)  BY <1>4 DEF Adds
  <2> QED  BY <1>3, <2>1, FS_AddElement
<1>5. g.kind # "add" => Adds(fl \cup {g}) = Adds(fl)  BY DEF Adds
<1>6. g.kind # "add" => Adds(fl \ {g}) = Adds(fl)  BY DEF Adds
<1>7. ASSUME g.kind = "add", g \in fl
      PROVE  Cardinality(Adds(fl \ {g})) = Cardinality(Adds(fl)) - 1
  <2>1. Adds(fl \ {g}) = Adds(fl) \ {g} /\ g \in Adds(fl)  BY <1>7 DEF Adds
  <2> QED  BY <1>3, <2>1, FS_RemoveElement
<1>8. Cardinality(Adds(fl \ {g})) \in Nat /\ Cardinality(Adds(fl \ {g})) <= Cardinality(Adds(fl))
  BY <1>3, FS_Subset, FS_CardinalityType DEF Adds
<1> QED  BY <1>1, <1>3, <1>4, <1>5, <1>6, <1>7, <1>8

-----------------------------------------------------------------------------
(* How the parts of the invariant go on.                                    *)

\* p was given terminals that were there, and is shown as ended only when its last one is.
Fits(p) ==
    /\ terms[p] \in Begun
    /\ TermOf(p) # None => terms[TermOf(p)] \in Begun
    /\ session.procs[p].status \in {"exited", "error"} =>
          TermOf(p) = None \/ terms[TermOf(p)] \in {"gone", "dying"}

\* Every process fits.
LEMMA TheyFit ==
    ASSUME ShellsInv
    PROVE  \A p \in Procs : Fits(p)
BY DEF ShellsInv, ProcsAreBegun, EndedIsOver, Fits, TermOf

\* Nothing else is asked of a process.
LEMMA FittingIsAll ==
    ASSUME \A p \in Procs' : Fits(p)'
    PROVE  ProcsAreBegun' /\ EndedIsOver'
<1> QED  BY DEF ProcsAreBegun, Fits, EndedIsOver, TermOf

\* A process that is left alone.
LEMMA FitStays ==
    ASSUME ShellsInv, TermsGoOn, NEW p \in Procs, session'.procs[p] = session.procs[p]
    PROVE  Fits(p)'
<1>2. Fits(p)  BY TheyFit
<1>4. terms'[p] \in Begun  BY ProcsAreTerms, <1>2 DEF Fits, TermsGoOn, ShellsInv
<1>5. CASE TermOf(p) = None  BY <1>4, <1>5 DEF Fits, TermOf
<1>6. CASE TermOf(p) # None
  <2>2. terms'[TermOf(p)] \in Begun /\ (terms'[TermOf(p)] = "live" => terms[TermOf(p)] = "live")
    BY ProcsAreTerms, <1>2, <1>6 DEF TermsGoOn, Fits, ShellsInv
  <2> QED  BY <1>4, <2>2, <1>2, <1>6 DEF Fits, TermOf, Begun
<1> QED  BY <1>5, <1>6

\* Handlers end.
LEMMA ApartFewer ==
    ASSUME ShellsInv, flows' \subseteq flows,
           \A f \in flows' : f.term \in Terms /\ terms'[f.term] = "asked" => terms[f.term] = "asked"
    PROVE  FlowsAreApart'
BY DEF ShellsInv, FlowsAreApart

\* A handler goes on as g.
LEMMA ApartMore ==
    ASSUME ShellsInv, NEW fl \in SUBSET flows, NEW g, flows' = fl \cup {g},
           \A f \in fl : f.term \in Terms /\ terms'[f.term] = "asked" => terms[f.term] = "asked",
           \A f \in fl : f.proc # g.proc,
           g.term \in Terms /\ terms'[g.term] = "asked" => \A f \in fl : f.term # g.term,
           g.kind = "recreate" => \A f \in fl : f.kind \notin {"close", "closeFloat", "restart"},
           g.kind \in {"close", "closeFloat", "restart"} => \A f \in fl : f.kind # "recreate"
    PROVE  FlowsAreApart'
<1> SUFFICES ASSUME NEW f \in flows', NEW h \in flows'
             PROVE  /\ f.proc = h.proc => f = h
                    /\ f.term = h.term /\ f.term \in Terms /\ terms'[f.term] = "asked" => f = h
                    /\ f.kind = "recreate" => h.kind \notin {"close", "closeFloat", "restart"}
  BY DEF FlowsAreApart
<1>2. CASE f \in fl /\ h \in fl  BY <1>2 DEF FlowsAreApart, ShellsInv
<1>3. CASE f \in fl /\ h = g  BY <1>3
<1>4. CASE f = g /\ h \in fl  BY <1>4
<1>5. CASE f = g /\ h = g  BY <1>5
<1> QED  BY <1>2, <1>3, <1>4, <1>5

\* What the parts of a handler are.
LEMMA FlowIs ==
    ASSUME ShellsInv, NEW f \in flows
    PROVE  /\ f = Asked(f.kind, f.proc, f.term, f.aim)
           /\ f.proc \in Terms \cup {None} /\ f.term \in Terms \cup {None}
           /\ Landing(f) \/ Closing(f) \/ Restarting(f) \/ ComingBack(f)
           /\ f.term # None => terms[f.term] # "unborn"
           /\ f.proc # None => f.proc \in Terms /\ terms[f.proc] # "unborn"
           /\ f.kind = "slot" => flows = {f}
           /\ f.kind = "recreate" => ComingBack(f)
           /\ f.kind \in {"add", "slot", "float"} => Landing(f)
           /\ f.kind \in {"close", "closeFloat"} => Closing(f)
           /\ f.kind = "restart" => Restarting(f)
<1>1. FlowIsSound(f)  BY DEF ShellsInv, FlowsAreSound
<1>2. Procs \in SUBSET Terms /\ \A p \in Procs : terms[p] \in Begun
  BY ProcsAreTerms DEF ShellsInv, ProcsAreBegun
<1>3. CASE Landing(f)  BY <1>1, <1>2, <1>3 DEF Landing, FlowIsSound
<1>4. CASE Closing(f)  BY <1>1, <1>2, <1>4 DEF Closing, FlowIsSound, Begun
<1>5. CASE Restarting(f)  BY <1>1, <1>2, <1>5 DEF Restarting, FlowIsSound, Begun
<1>6. CASE ComingBack(f)  BY <1>1, <1>2, <1>6 DEF ComingBack, FlowIsSound
<1> QED  BY <1>1, <1>3, <1>4, <1>5, <1>6 DEF FlowIsSound

\* A fresh terminal is nobody's yet.
LEMMA FreshIs ==
    ASSUME ShellsInv, NEW t \in Fresh
    PROVE  /\ t \in Terms /\ terms[t] = "unborn" /\ t \notin Procs
           /\ \A f \in flows : f.proc # t /\ f.term # t
           /\ Ask(t) => /\ TermsGoOn /\ terms'[t] = "asked"
                        /\ \A u \in Terms \ {t} : terms'[u] = terms[u]
<1>3. \A f \in flows : f.proc # t /\ f.term # t  BY FlowIs, NoneIsNoTerm DEF Fresh, ShellsInv, ShellsTyped
<1>4. ASSUME Ask(t)
      PROVE  TermsGoOn /\ terms'[t] = "asked" /\ \A u \in Terms \ {t} : terms'[u] = terms[u]
  BY <1>4 DEF Ask, TermsGoOn, TermStates, Begun, Fresh, ShellsInv, ShellsTyped
<1> QED  BY <1>3, <1>4 DEF ShellsInv, ProcsAreBegun, Begun, Fresh, ShellsTyped

\* No other handler is there while a shell goes into a slot.
LEMMA NoSlotFlow ==
    ASSUME ShellsInv, NEW f \in flows, f.kind # "slot"
    PROVE  \A g \in flows : g.kind # "slot"
BY FlowIs

-----------------------------------------------------------------------------
(* A new terminal is asked for.                                             *)

\* The handler g waits for a fresh terminal; no pane and no binding changes.
LEMMA AskedIs ==
    ASSUME ShellsInv, NEW t \in Fresh, Ask(t),
           session' = session, seen' = seen, ensured' \in BOOLEAN,
           NEW fl \in SUBSET flows, NEW g, flows' = fl \cup {g}, g.term = t,
           \A f \in fl : f.kind # "slot" /\ f.proc # g.proc,
           g.kind \notin {"close", "closeFloat"},
           \A f \in flows \ fl : f.kind = "recreate" => g.kind = "recreate" /\ g.aim = f.aim,
           g.kind = "recreate" => \A f \in fl : f.kind \notin {"close", "closeFloat", "restart"},
           g.kind = "restart" => \A f \in fl : f.kind # "recreate",
           FlowIsSound(g)', RoomIsKept'
    PROVE  ShellsInv'
<1>1. /\ t \in Terms /\ terms[t] = "unborn" /\ t \notin Procs
      /\ \A f \in flows : f.proc # t /\ f.term # t
      /\ TermsGoOn /\ terms'[t] = "asked" /\ \A u \in Terms \ {t} : terms'[u] = terms[u]
  BY FreshIs
<1>2. PanesAreSound(session)'  BY DEF ShellsInv
<1>3. Procs' = Procs /\ \A p \in Procs : TermOf(p)' = TermOf(p) /\ session'.procs[p] = session.procs[p]
  BY DEF Procs, TermOf
<1>4. ProcsAreBegun' /\ EndedIsOver'  BY <1>1, <1>3, FitStays, FittingIsAll
<1>5. ShellsTyped'
  BY <1>1 DEF ShellsInv, ShellsTyped, TermsGoOn
<1>6. FlowsAreSound'
  <2>1. ASSUME NEW f \in fl PROVE FlowIsSound(f)'
    <3>1. f.term \in Terms /\ terms[f.term] = "asked" => terms'[f.term] = "asked"  BY <1>1
    <3>2. f.kind = "recreate" => \A p \in Range(f.aim) : p \in Procs' /\ TermOf(p)' = TermOf(p)
      BY <1>3, FlowIs DEF ComingBack
    <3>3. f.kind = "close" => f.proc \in Shown(session')
      BY FlowIs DEF Closing
    <3>4. f.kind # "slot" /\ f \in flows  OBVIOUS
    <3> QED  BY <1>1, <1>3, <3>1, <3>2, <3>3, <3>4, FlowStays
  <2> QED  BY <2>1 DEF FlowsAreSound
<1>7. FlowsAreApart'
  <2>1. \A f \in fl : f.term \in Terms /\ terms'[f.term] = "asked" => terms[f.term] = "asked"  BY <1>1
  <2>2. \A f \in fl : f.proc # g.proc /\ f.term # g.term  BY <1>1
  <2> QED  BY <2>1, <2>2, ApartMore
<1>8. EveryTerminalIsReachable'
  <2> SUFFICES ASSUME NEW u \in Terms, terms'[u] = "live"
               PROVE  \/ \E p \in Procs' : session'.procs[p].term = u
                      \/ \E f \in flows' : f.kind = "recreate" /\ u \in Range(f.aim)
    BY DEF EveryTerminalIsReachable
  <2>2. CASE \E p \in Procs : session.procs[p].term = u  BY <1>3, <2>2
  <2>3. CASE \E f \in flows : f.kind = "recreate" /\ u \in Range(f.aim)
    <3>1. PICK f \in flows : f.kind = "recreate" /\ u \in Range(f.aim)  BY <2>3
    <3>2. CASE f \in fl  BY <3>1, <3>2
    <3>3. CASE f \notin fl  BY <3>1, <3>3
    <3> QED  BY <3>2, <3>3
  <2> QED  BY <1>1, <2>2, <2>3 DEF ShellsInv, EveryTerminalIsReachable
<1> QED  BY <1>2, <1>4, <1>5, <1>6, <1>7, <1>8 DEF ShellsInv

\* What the user waits for.
LEMMA WaitsAre ==
    ASSUME Hasty = FALSE
    PROVE  /\ Waits({"add"}) = Adds(flows)
           /\ Patient => \A f \in flows : f.kind # "slot"
           /\ Room => /\ Cardinality(Adds(flows)) < 5
                      /\ Len(Running(session.slots)) + Cardinality(Adds(flows)) < 6
<1> QED  BY DEF Room, Waits, Adds, Patient

\* The room there is.
LEMMA RoomIs ==
    ASSUME ShellsInv
    PROVE  /\ IsFiniteSet(flows) /\ Cardinality(Adds(flows)) \in Nat
           /\ Len(Running(session.slots)) = Cardinality(Shown(session))
           /\ Cardinality(Shown(session)) \in Nat
           /\ Cardinality(Shown(session)) + Cardinality(Adds(flows)) <= 6
           /\ ~ensured => Cardinality(Adds(flows)) <= 5
<1>3. Cardinality(Adds(flows)) \in Nat  BY FS_Subset, FS_CardinalityType DEF Adds, RoomIsKept, ShellsInv
<1> QED  BY <1>3, ShownAreCounted DEF RoomIsKept, ShellsInv

\* A shell that is added, floats or goes into a slot.
LEMMA NewFlowIs ==
    ASSUME ShellsInv, NEW t \in Fresh, Ask(t), NEW kind \in {"add", "slot", "float"}, NEW aim,
           session' = session, seen' = seen, ensured' \in BOOLEAN,
           flows' = flows \cup {Asked(kind, t, t, aim)},
           \A f \in flows : f.kind # "slot",
           kind = "slot" => /\ flows = {} /\ aim[1] = session.layout
                            /\ aim[2] \in DOMAIN session.slots /\ session.slots[aim[2]] = None,
           kind = "add" => Cardinality(Shown(session)) + Cardinality(Adds(flows)) + 1 <= 6,
           kind = "add" /\ ~ensured' => Cardinality(Adds(flows)) + 1 <= 5,
           ~ensured' => ~ensured
    PROVE  ShellsInv'
<1> DEFINE g == Asked(kind, t, t, aim)
<1>1. g.kind = kind /\ g.proc = t /\ g.term = t /\ g.aim = aim /\ g = Asked(g.kind, g.proc, g.term, g.aim)
  BY DEF Asked
<1> HIDE DEF g
<1>2. /\ t \in Terms /\ terms[t] = "unborn" /\ t \notin Procs
      /\ \A f \in flows : f.proc # t /\ f.term # t
      /\ terms'[t] = "asked"
  BY FreshIs
<1>3. flows' = flows \cup {g}  BY DEF g
<1>5. FlowIsSound(g)'
  <2>2. kind = "slot" => flows' = {g}  BY <1>3
  <2>3. Landing(g)'  BY <1>1, <1>2, <2>2 DEF Landing, Procs
  <2> QED  BY <1>1, <2>3 DEF FlowIsSound
<1>6. RoomIsKept'
  <2>1. /\ IsFiniteSet(flows) /\ Cardinality(Adds(flows)) \in Nat
        /\ Cardinality(Shown(session)) \in Nat
        /\ Cardinality(Shown(session)) + Cardinality(Adds(flows)) <= 6
        /\ ~ensured => Cardinality(Adds(flows)) <= 5
    BY RoomIs
  <2>2. /\ IsFiniteSet(flows')
        /\ kind = "add" => Cardinality(Adds(flows')) = Cardinality(Adds(flows)) + 1
        /\ kind # "add" => Adds(flows') = Adds(flows)  BY <1>1, <1>3, <1>2, <2>1, AddsWith
  <2>4. CASE kind = "add"
    <3> DEFINE a == Cardinality(Adds(flows)) b == Cardinality(Adds(flows')) c == Cardinality(Shown(session))
    <3>2. a \in Nat /\ c \in Nat /\ b = a + 1 /\ c + a + 1 <= 6 /\ (~ensured' => a + 1 <= 5)
      BY <2>1, <2>4, <2>2
    <3>3. c + b <= 6 /\ (~ensured' => b <= 5)
      <4> HIDE DEF a, b, c
      <4> QED  BY <3>2
    <3> QED  BY <2>2, <3>3 DEF RoomIsKept
  <2>5. CASE kind # "add"  BY <2>1, <2>2, <2>5 DEF RoomIsKept
  <2> QED  BY <2>4, <2>5
<1>7. g.kind \notin {"close", "closeFloat", "recreate", "restart"}  BY <1>1
<1>8. \A f \in flows : f.proc # g.proc  BY <1>1, <1>2
<1>9. flows \in SUBSET flows /\ g.term = t  BY <1>1
<1> QED  BY <1>3, <1>5, <1>6, <1>7, <1>8, <1>9, AskedIs

\* Into the first free pane, which is left for it.
LEMMA AddShellStep ==
    ASSUME Hasty = FALSE, ShellsInv, AddShell
    PROVE  ShellsInv'
<1>1. PICK t \in Fresh : Ask(t) /\ flows' = flows \cup {Asked("add", t, t, None)}  BY DEF AddShell
<1>2. /\ session' = session /\ seen' = seen /\ ensured' = ensured /\ Patient /\ Room  BY DEF AddShell, User
<1>3. ensured \in BOOLEAN  BY DEF ShellsInv, ShellsTyped
<1>4. \A f \in flows : f.kind # "slot"  BY <1>2, WaitsAre
<1>5. /\ Cardinality(Shown(session)) + Cardinality(Adds(flows)) + 1 <= 6
      /\ Cardinality(Adds(flows)) + 1 <= 5
  <2> DEFINE a == Cardinality(Adds(flows)) c == Cardinality(Shown(session))
  <2>3. a < 5 /\ c + a < 6  BY <1>2, WaitsAre, RoomIs
  <2> HIDE DEF a, c
  <2> QED  BY RoomIs, <2>3 DEF a, c
<1> QED  BY <1>1, <1>2, <1>3, <1>4, <1>5, NewFlowIs

\* Into the slot that was clicked.
LEMMA StartShellInSlotStep ==
    ASSUME Hasty = FALSE, ShellsInv, NEW i \in DOMAIN session.slots, StartShellInSlot(i)
    PROVE  ShellsInv'
<1> DEFINE aim == <<session.layout, i>>
<1>1. PICK t \in Fresh : Ask(t) /\ flows' = flows \cup {Asked("slot", t, t, aim)}
  BY DEF StartShellInSlot
<1>2. /\ session' = session /\ seen' = seen /\ ensured' = ensured /\ flows = {} /\ session.slots[i] = None
  BY DEF StartShellInSlot
<1>3. ensured \in BOOLEAN  BY DEF ShellsInv, ShellsTyped
<1>4. aim[1] = session.layout /\ aim[2] = i  OBVIOUS
<1> HIDE DEF aim
<1> QED  BY <1>1, <1>2, <1>3, <1>4, NewFlowIs

\* Into the tray.
LEMMA AddFloatingShellStep ==
    ASSUME Hasty = FALSE, ShellsInv, AddFloatingShell
    PROVE  ShellsInv'
<1>1. PICK t \in Fresh : Ask(t) /\ flows' = flows \cup {Asked("float", t, t, None)}
  BY DEF AddFloatingShell
<1>2. session' = session /\ seen' = seen /\ ensured' = ensured /\ Patient  BY DEF AddFloatingShell, User
<1>3. ensured \in BOOLEAN  BY DEF ShellsInv, ShellsTyped
<1>4. \A f \in flows : f.kind # "slot"  BY <1>2, WaitsAre
<1> QED  BY <1>1, <1>2, <1>3, <1>4, NewFlowIs

\* The default shell finds every pane free.
LEMMA DefaultShellStep ==
    ASSUME Hasty = FALSE, ShellsInv, DefaultShell
    PROVE  ShellsInv'
<1>1. PICK t \in Fresh : Ask(t) /\ flows' = flows \cup {Asked("add", t, t, None)}  BY DEF DefaultShell
<1>2. /\ session' = session /\ seen' = seen /\ ensured' = TRUE /\ ~ensured /\ Patient
      /\ Running(session.slots) = <<>>
  BY DEF DefaultShell
<1>3. \A f \in flows : f.kind # "slot"  BY <1>2, WaitsAre
<1>6. Cardinality(Shown(session)) + Cardinality(Adds(flows)) + 1 <= 6  BY <1>2, RoomIs
<1> QED  BY <1>1, <1>2, <1>3, <1>6, NewFlowIs

-----------------------------------------------------------------------------
(* The panes stay as they are.                                              *)

\* No pane is taken.
LEMMA RoomFewer ==
    ASSUME ShellsInv, ensured' = ensured, IsFiniteSet(flows'), Adds(flows') \subseteq Adds(flows),
           Shown(session') \subseteq Shown(session)
    PROVE  RoomIsKept'
<1>3. IsFiniteSet(Adds(flows))  BY ShownAreCounted, FS_Subset DEF ShellsInv, RoomIsKept, Adds
<1> DEFINE a == Cardinality(Adds(flows)) b == Cardinality(Adds(flows'))
           c == Cardinality(Shown(session)) d == Cardinality(Shown(session'))
<1>4. a \in Nat /\ b \in Nat /\ b <= a  BY <1>3, FS_Subset, FS_CardinalityType
<1>5. c \in Nat /\ d \in Nat /\ d <= c
  BY ShownAreCounted, FS_Subset, FS_CardinalityType DEF ShellsInv, RoomIsKept
<1>6. c + a <= 6 /\ (~ensured => a <= 5)  BY DEF ShellsInv, RoomIsKept
<1>7. d + b <= 6 /\ (~ensured' => b <= 5)
  <2> HIDE DEF a, b, c, d
  <2> QED  BY <1>4, <1>5, <1>6
<1> QED  BY <1>7 DEF RoomIsKept

\* No session changes; handlers may end, and terminals too.
LEMMA QuietIs ==
    ASSUME ShellsInv, session' = session, ensured' = ensured, DOMAIN seen' \subseteq Terms, TermsGoOn,
           \A t \in Terms : /\ terms'[t] = "asked" => terms[t] = "asked"
                            /\ terms'[t] = "live" => terms[t] = "live",
           flows' \in SUBSET flows,
           \A f \in flows' : f.term \in Terms /\ terms[f.term] = "asked" => terms'[f.term] = "asked",
           \A f \in flows \ flows' : f.kind = "recreate" => f.aim = <<>>
    PROVE  ShellsInv'
<1>1. PanesAreSound(session)'  BY DEF ShellsInv
<1>2. Procs' = Procs /\ \A p \in Procs : TermOf(p)' = TermOf(p) /\ session'.procs[p] = session.procs[p]
  BY DEF Procs, TermOf
<1>3. ProcsAreBegun' /\ EndedIsOver'  BY <1>2, FitStays, FittingIsAll
<1>4. ShellsTyped'  BY DEF ShellsInv, ShellsTyped, TermsGoOn
<1>5. FlowsAreSound'
  <2> SUFFICES ASSUME NEW f \in flows' PROVE FlowIsSound(f)'  BY DEF FlowsAreSound
  <2>1. f \in flows  OBVIOUS
  <2>2. f.kind = "recreate" => \A p \in Range(f.aim) : p \in Procs' /\ TermOf(p)' = TermOf(p)
    BY <1>2, <2>1, FlowIs DEF ComingBack
  <2>3. f.kind = "close" => f.proc \in Shown(session')  BY <2>1, FlowIs DEF Closing
  <2>4. f.kind = "slot" => flows' = {f}  BY <2>1, FlowIs
  <2> QED  BY <1>2, <2>1, <2>2, <2>3, <2>4, FlowStays
<1>6. FlowsAreApart'  BY ApartFewer
<1>7. RoomIsKept'  BY RoomIs, FS_Subset, RoomFewer DEF Adds
<1>8. EveryTerminalIsReachable'
  <2> SUFFICES ASSUME NEW u \in Terms, terms'[u] = "live"
               PROVE  \/ \E p \in Procs' : session'.procs[p].term = u
                      \/ \E f \in flows' : f.kind = "recreate" /\ u \in Range(f.aim)
    BY DEF EveryTerminalIsReachable
  <2>1. CASE \E p \in Procs : session.procs[p].term = u  BY <1>2, <2>1
  <2>2. CASE \E f \in flows : f.kind = "recreate" /\ u \in Range(f.aim)
    <3>1. PICK f \in flows : f.kind = "recreate" /\ u \in Range(f.aim)  BY <2>2
    <3> QED  BY <3>1 DEF Range
  <2> QED  BY <2>1, <2>2 DEF ShellsInv, EveryTerminalIsReachable
<1> QED  BY <1>1, <1>3, <1>4, <1>5, <1>6, <1>7, <1>8 DEF ShellsInv

\* terminals.stop.
LEMMA StopIs ==
    ASSUME ShellsInv, NEW t, Stop(t)
    PROVE  /\ TermsGoOn
           /\ \A u \in Terms : /\ terms'[u] = "asked" <=> terms[u] = "asked"
                               /\ terms'[u] = "live" => terms[u] = "live" /\ u # t
<1>2. CASE t \in Terms /\ terms[t] = "live"
  BY <1>2 DEF TermsGoOn, TermStates, Begun, ShellsInv, ShellsTyped, Stop
<1>3. CASE ~(t \in Terms /\ terms[t] = "live")
  BY <1>3 DEF TermsGoOn, TermStates, Begun, ShellsInv, ShellsTyped, Stop
<1> QED  BY <1>2, <1>3

\* A terminal that was asked for or ran is over.
LEMMA OverIs ==
    ASSUME ShellsInv, NEW t \in Terms, terms[t] \in {"asked", "live", "dying"},
           terms' = [terms EXCEPT ![t] = "gone"]
    PROVE  /\ TermsGoOn /\ terms'[t] = "gone"
           /\ \A u \in Terms \ {t} : terms'[u] = terms[u]
BY DEF ShellsInv, ShellsTyped, TermsGoOn, TermStates, Begun

\* terminals.create fails.
LEMMA NotCreatedStep ==
    ASSUME ShellsInv, NEW f \in flows, NotCreated(f)
    PROVE  ShellsInv'
<1>1. /\ f.kind \in {"add", "slot", "float"} /\ terms' = [terms EXCEPT ![f.term] = "gone"]
      /\ flows' = flows \ {f} /\ session' = session /\ seen' = seen /\ ensured' = ensured
  BY DEF NotCreated
<1>3. TermsGoOn /\ terms'[f.term] = "gone" /\ \A u \in Terms \ {f.term} : terms'[u] = terms[u]
  BY <1>1, FlowIs, OverIs DEF Landing
<1>5. \A g \in flows' : g.term \in Terms /\ terms[g.term] = "asked" => terms'[g.term] = "asked"
  BY <1>3, <1>1, FlowIs DEF ShellsInv, FlowsAreApart, Landing
<1>6. \A t \in Terms : /\ terms'[t] = "asked" => terms[t] = "asked"
                       /\ terms'[t] = "live" => terms[t] = "live"
  BY <1>3
<1>7. DOMAIN seen' \subseteq Terms  BY <1>1 DEF ShellsInv, ShellsTyped
<1>8. \A g \in flows \ flows' : g.kind = "recreate" => g.aim = <<>>  BY <1>1
<1> QED  BY <1>1, <1>3, <1>5, <1>6, <1>7, <1>8, QuietIs

\* A shell is stopped and keeps its pane.
LEMMA StopShellStep ==
    ASSUME ShellsInv, NEW p \in Procs, StopShell(p)
    PROVE  ShellsInv'
<1>3. DOMAIN seen' \subseteq Terms  BY DEF ShellsInv, ShellsTyped, StopShell
<1> QED  BY StopIs, <1>3, QuietIs DEF StopShell

\* No terminal changes.
LEMMA NothingEnds ==
    ASSUME ShellsInv, terms' = terms
    PROVE  TermsGoOn
BY DEF ShellsInv, ShellsTyped, TermsGoOn

\* The loop of a saved worktree is through.
LEMMA AllRecreatedStep ==
    ASSUME ShellsInv, NEW f \in flows, AllRecreated(f)
    PROVE  ShellsInv'
<1>3. DOMAIN seen' \subseteq Terms  BY DEF ShellsInv, ShellsTyped, AllRecreated
<1> QED  BY NothingEnds, <1>3, QuietIs DEF AllRecreated

\* React renders.
LEMMA RenderStep ==
    ASSUME ShellsInv, Render
    PROVE  ShellsInv'
<1>3. DOMAIN seen' \subseteq Terms  BY ProcsAreTerms DEF Bindings, Procs, Render, ShellsInv
<1> QED  BY NothingEnds, <1>3, QuietIs DEF Render

\* A shell's terminal is stopped and a handler waits for the answer.
LEMMA StoppingIs ==
    ASSUME ShellsInv, NEW p \in Procs, NEW t, Stop(t), TermOf(p) # None => TermOf(p) = t,
           \A f \in flows : f.proc # p /\ f.kind # "recreate" /\ f.kind # "slot",
           NEW g, g = Asked(g.kind, p, g.term, g.aim), g.proc = p,
           \/ /\ g.kind \in {"close", "closeFloat"} /\ g.term = t /\ t \in Terms /\ terms[t] = "live"
              /\ g.kind = "close" => p \in Shown(session)
           \/ g.kind = "restart" /\ g.term = None,
           flows' = flows \cup {g}, session' = session, seen' = seen, ensured' = ensured
    PROVE  ShellsInv'
<1>1. /\ TermsGoOn
      /\ \A u \in Terms : /\ terms'[u] = "asked" <=> terms[u] = "asked"
                          /\ terms'[u] = "live" => terms[u] = "live" /\ u # t
  BY StopIs
<1>2. PanesAreSound(session)'  BY DEF ShellsInv
<1>3. Procs' = Procs /\ \A q \in Procs : TermOf(q)' = TermOf(q) /\ session'.procs[q] = session.procs[q]
  BY DEF Procs, TermOf
<1>4. ProcsAreBegun' /\ EndedIsOver'  BY <1>1, <1>3, FitStays, FittingIsAll
<1>5. ShellsTyped'  BY <1>1 DEF ShellsInv, ShellsTyped, TermsGoOn
<1>6. Over(p)'
  <2>2. CASE TermOf(p) = None  BY <1>3, <2>2 DEF Over
  <2>3. CASE TermOf(p) # None  BY <1>1, <1>3, ProcsAreTerms, <2>3 DEF Over, ShellsInv
  <2> QED  BY <2>2, <2>3
<1>7. FlowIsSound(g)'
  <2>1. CASE g.kind = "restart" /\ g.term = None  BY <1>3, <1>6, <2>1 DEF FlowIsSound, Restarting
  <2>2. CASE /\ g.kind \in {"close", "closeFloat"} /\ g.term = t /\ t \in Terms /\ terms[t] = "live"
             /\ g.kind = "close" => p \in Shown(session)
    <3>3. Closing(g)'  BY <1>3, <1>6, <2>2, <1>1 DEF Closing, TermsGoOn, Begun
    <3> QED  BY <3>3 DEF FlowIsSound
  <2> QED  BY <2>1, <2>2
<1>8. FlowsAreSound'
  <2>1. ASSUME NEW f \in flows PROVE FlowIsSound(f)'
    <3>1. f.term \in Terms /\ terms[f.term] = "asked" => terms'[f.term] = "asked"  BY <1>1
    <3>2. f.kind = "close" => f.proc \in Shown(session')  BY FlowIs DEF Closing
    <3>3. f.kind # "slot" /\ f.kind # "recreate"  OBVIOUS
    <3> QED  BY <1>1, <1>3, <3>1, <3>2, <3>3, FlowStays
  <2> QED  BY <1>7, <2>1 DEF FlowsAreSound
<1>9. FlowsAreApart'
  <2>1. g.kind # "recreate" /\ \A f \in flows : f.proc # g.proc  OBVIOUS
  <2>2. ~(g.term \in Terms /\ terms'[g.term] = "asked")
    <3>1. CASE g.term = None  BY <3>1, NoneIsNoTerm
    <3>2. CASE g.term = t /\ terms[t] = "live"  BY <1>1, <3>2
    <3> QED  BY <3>1, <3>2
  <2>3. \A f \in flows : f.term \in Terms /\ terms'[f.term] = "asked" => terms[f.term] = "asked"  BY <1>1
  <2>4. flows \in SUBSET flows  OBVIOUS
  <2> QED  BY <2>1, <2>2, <2>3, <2>4, ApartMore
<1>10. RoomIsKept'  BY RoomIs, FS_AddElement, RoomFewer DEF Adds
<1>11. EveryTerminalIsReachable'
  BY <1>1, <1>3 DEF ShellsInv, EveryTerminalIsReachable
<1> QED  BY <1>2, <1>4, <1>5, <1>8, <1>9, <1>10, <1>11 DEF ShellsInv

\* What the last render bound.
LEMMA SeenIs ==
    ASSUME Rendered
    PROVE  DOMAIN seen = Procs /\ \A p \in Procs : seen[p] = TermOf(p)
BY DEF Rendered, Bindings, Procs, TermOf

\* A shell that is clicked has no handler at work on it.
LEMMA SettledIs ==
    ASSUME Hasty = FALSE, User, NEW p, Settled(p)
    PROVE  Rendered /\ \A f \in flows : f.proc # p /\ f.kind # "recreate" /\ f.kind # "slot"
<1> QED  BY WaitsAre DEF Settled, User

\* A restart stops the old terminal first.
LEMMA RestartShellStep ==
    ASSUME Hasty = FALSE, ShellsInv, NEW p \in Procs, RestartShell(p)
    PROVE  ShellsInv'
<1> DEFINE g == Asked("restart", p, None, None)
<1>1. /\ User /\ Settled(p) /\ Stop(seen[p]) /\ flows' = flows \cup {g}
      /\ session' = session /\ seen' = seen /\ ensured' = ensured
  BY DEF RestartShell
<1>2. g = Asked(g.kind, p, g.term, g.aim) /\ g.proc = p /\ g.kind = "restart" /\ g.term = None  BY DEF Asked
<1> HIDE DEF g
<1>3. Rendered /\ \A f \in flows : f.proc # p /\ f.kind # "recreate" /\ f.kind # "slot"
  BY <1>1, SettledIs
<1> DEFINE t == seen[p]
<1>5. Stop(t) /\ (TermOf(p) # None => TermOf(p) = t)  BY <1>1, <1>3, SeenIs
<1> HIDE DEF t
<1> QED  BY <1>1, <1>2, <1>3, <1>5, StoppingIs

-----------------------------------------------------------------------------
(* A pane or a place in the tray is given up.                               *)

\* p leaves the session, no terminal of its own running; its handler, if any, ends.
LEMMA LeavingIs ==
    ASSUME ShellsInv, NEW p \in Procs, Over(p),
           PanesAreSound(session'), IsGoneFrom(session, session', p),
           Shown(session') = Shown(session) \ {p},
           flows' \in SUBSET flows, \A f \in flows' : f.proc # p /\ f.kind # "recreate" /\ f.kind # "slot",
           \A f \in flows \ flows' : f.kind # "recreate",
           terms' = terms, seen' = seen, ensured' = ensured
    PROVE  ShellsInv'
<1>1. TermsGoOn  BY NothingEnds
<1>2. Procs' = Procs \ {p} /\ \A q \in Procs \ {p} : session'.procs[q] = session.procs[q]
  BY DEF Procs, IsGoneFrom
<1>3. \A q \in Procs \ {p} : q \in Procs' /\ TermOf(q)' = TermOf(q)  BY <1>2 DEF TermOf
<1>4. PanesAreSound(session)'  OBVIOUS
<1>5. ProcsAreBegun' /\ EndedIsOver'  BY <1>1, <1>2, FitStays, FittingIsAll
<1>6. ShellsTyped'  BY DEF ShellsInv, ShellsTyped
<1>7. FlowsAreSound'
  <2> SUFFICES ASSUME NEW f \in flows' PROVE FlowIsSound(f)'  BY DEF FlowsAreSound
  <2>1. f \in flows /\ f.proc # p /\ f.kind # "recreate" /\ f.kind # "slot"  OBVIOUS
  <2>2. f.kind = "close" => f.proc \in Shown(session')  BY <2>1, FlowIs DEF Closing
  <2> QED  BY <1>1, <1>2, <1>3, <2>1, <2>2, FlowStays
<1>8. FlowsAreApart'  BY ApartFewer
<1>9. RoomIsKept'  BY RoomIs, FS_Subset, RoomFewer DEF Adds
<1>10. EveryTerminalIsReachable'
  <2> SUFFICES ASSUME NEW u \in Terms, terms[u] = "live"
               PROVE  \E q \in Procs' : session'.procs[q].term = u
    BY DEF EveryTerminalIsReachable
  <2>2. PICK q \in Procs : session.procs[q].term = u  BY DEF ShellsInv, EveryTerminalIsReachable
  <2> QED  BY <1>2, <2>2, NoneIsNoTerm DEF Over, TermOf
<1> QED  BY <1>4, <1>5, <1>6, <1>7, <1>8, <1>9, <1>10 DEF ShellsInv

\* The pane or the place that is closed is gone, and nothing else.
LEMMA ClosedOneIs ==
    ASSUME ShellsInv, NEW p \in Procs, NEW kind \in {"close", "closeFloat"},
           IF kind = "close" THEN p \in Shown(session) ELSE p \in Tray(session)
    PROVE  LET n == Closed(p, kind) IN
           /\ PanesAreSound(n) /\ IsGoneFrom(session, n, p)
           /\ Shown(n) = Shown(session) \ {p}
           /\ OrderIsKept(session, n)
<1>2. CASE kind = "close"  BY <1>2, ClosedIs DEF ShellsInv, Closed
<1>3. CASE kind = "closeFloat"
  <2> DEFINE n == closeFloatingShell(session, p)
  <2>1. Closed(p, kind) = n /\ p \in Tray(session)  BY <1>3 DEF Closed
  <2>2. /\ PanesAreSound(n) /\ IsGoneFrom(session, n, p)
        /\ Shown(n) = Shown(session) /\ n.slots = session.slots  BY <2>1, FloatClosedIs DEF ShellsInv
  <2> HIDE DEF n
  <2>3. p \notin Shown(session)  BY <2>1 DEF PanesAreSound, ShellsInv
  <2> QED  BY <2>1, <2>2, <2>3 DEF OrderIsKept
<1> QED  BY <1>2, <1>3

\* A running shell is stopped first, another one closes at once.
LEMMA CloseShellStep ==
    ASSUME Hasty = FALSE, ShellsInv, NEW p \in Procs, NEW kind \in {"close", "closeFloat"},
           CloseShell(p, kind)
    PROVE  ShellsInv' /\ OrderIsKept(session, session')
<1> DEFINE t == seen[p]
<1>1. /\ User /\ Settled(p) /\ (kind = "closeFloat") = Held(session, p)
      /\ seen' = seen /\ ensured' = ensured
  BY DEF CloseShell
<1>2. Rendered /\ \A f \in flows : f.proc # p /\ f.kind # "recreate" /\ f.kind # "slot"
  BY <1>1, SettledIs
<1>3. t = TermOf(p)  BY <1>2, SeenIs
<1>6. CASE t # None /\ terms[t] = "live"
  <2> DEFINE g == Asked(kind, p, t, None)
  <2>1. Stop(t) /\ flows' = flows \cup {g} /\ session' = session  BY <1>6 DEF CloseShell
  <2>2. g = Asked(g.kind, p, g.term, g.aim) /\ g.proc = p /\ g.kind = kind /\ g.term = t  BY DEF Asked
  <2>3. t \in Terms  BY <1>3, ProcsAreTerms, <1>6 DEF ShellsInv
  <2> HIDE DEF g, t
  <2>4. ShellsInv'
    BY <1>1, <1>2, <1>3, ProcsAreTerms, <1>6, <2>1, <2>2, <2>3, StoppingIs DEF Held, Tray, ShellsInv
  <2> QED  BY <2>1, <2>4 DEF OrderIsKept
<1>7. CASE ~(t # None /\ terms[t] = "live")
  <2>1. session' = Closed(p, kind) /\ terms' = terms /\ flows' = flows  BY <1>7 DEF CloseShell, Dispatch
  <2>2. /\ PanesAreSound(session') /\ IsGoneFrom(session, session', p)
        /\ Shown(session') = Shown(session) \ {p}
        /\ OrderIsKept(session, session')  BY <1>1, ProcsAreTerms, <2>1, ClosedOneIs DEF Held, Tray, ShellsInv
  <2>3. Over(p)  BY <1>3, <1>7 DEF Over
  <2> QED  BY <1>1, <1>2, <2>1, <2>2, <2>3, LeavingIs
<1> QED  BY <1>6, <1>7

\* The stop was answered.
LEMMA StoppedStep ==
    ASSUME Hasty = FALSE, ShellsInv, NEW f \in flows, Stopped(f)
    PROVE  ShellsInv' /\ OrderIsKept(session, session')
<1>1. CASE f.kind \in {"close", "closeFloat"}
  <2> DEFINE p == f.proc
  <2>1. /\ session' = Closed(p, f.kind) /\ flows' = flows \ {f}
        /\ terms' = terms /\ seen' = seen /\ ensured' = ensured
    BY <1>1 DEF Stopped, Dispatch
  <2>3. p \in Procs /\ Over(p) /\ (f.kind = "close" => p \in Shown(session))  BY <1>1, FlowIs DEF Closing
  <2>4. \A g \in flows' : g.proc # p  BY <2>1 DEF ShellsInv, FlowsAreApart
  <2>5. \A g \in flows : g.kind # "recreate"  BY <1>1 DEF ShellsInv, FlowsAreApart
  <2>6. \A g \in flows : g.kind # "slot"  BY <1>1, NoSlotFlow
  <2> HIDE DEF p
  <2>7. CASE f.kind = "close" \/ p \in Tray(session)
    <3>1. /\ PanesAreSound(session') /\ IsGoneFrom(session, session', p)
          /\ Shown(session') = Shown(session) \ {p}
          /\ OrderIsKept(session, session')
      BY <1>1, <2>1, <2>3, <2>7, ClosedOneIs
    <3> QED  BY <2>1, <2>3, <2>4, <2>5, <2>6, <3>1, LeavingIs
  \* It was pinned meanwhile: it stays in its pane.
  <2>8. CASE f.kind = "closeFloat" /\ p \notin Tray(session)
    <3>1. session' = session  BY <2>1, <2>8 DEF Closed, closeFloatingShell, Held, Tray
    <3>4. \A g \in flows \ flows' : g.kind # "recreate"  BY <2>5
    <3>5. ShellsInv'  BY <2>1, <3>1, NothingEnds, <3>4, QuietIs DEF ShellsInv, ShellsTyped
    <3> QED  BY <3>1, <3>5 DEF OrderIsKept
  <2> QED  BY <1>1, <2>7, <2>8
<1>2. CASE f.kind = "restart"
  <2>1. /\ f.term = None /\ session' = session /\ seen' = seen /\ ensured' = ensured
        /\ \/ \E t \in Fresh :
                /\ Ask(t)
                /\ flows' = (flows \ {f}) \cup {[f EXCEPT !.term = t]}
           \/ flows' = flows \ {f} /\ terms' = terms
    BY <1>2 DEF Stopped
  <2>3. CASE flows' = flows \ {f} /\ terms' = terms
    <3>3. ShellsInv'  BY <1>2, <2>1, <2>3, NothingEnds, QuietIs DEF ShellsInv, ShellsTyped
    <3> QED  BY <2>1, <3>3 DEF OrderIsKept
  <2>4. ASSUME NEW t \in Fresh, Ask(t), flows' = (flows \ {f}) \cup {[f EXCEPT !.term = t]}
        PROVE  ShellsInv'
    <3> DEFINE g == [f EXCEPT !.term = t] fl == flows \ {f}
    <3>2. /\ g.kind = "restart" /\ g.proc = f.proc /\ g.term = t
          /\ g = Asked(g.kind, g.proc, g.term, g.aim)  BY <1>2, FlowIs DEF Asked
    <3>3. flows' = fl \cup {g} /\ fl \in SUBSET flows  BY <2>4
    <3>4. \A h \in fl : h.kind # "slot" /\ h.kind # "recreate" /\ h.proc # f.proc
      BY <1>2, NoSlotFlow DEF ShellsInv, FlowsAreApart
    <3>5. \A h \in flows \ fl : h.kind = "restart"  BY <1>2
    <3> HIDE DEF g, fl
    <3>8. FlowIsSound(g)'
      <4>1. f.proc \in Procs' /\ TermOf(f.proc)' = TermOf(f.proc) /\ Over(f.proc)
        BY <2>1, <1>2, FlowIs DEF Restarting, Procs, TermOf
      <4>3. Over(f.proc)'
        <5>1. CASE TermOf(f.proc) = None  BY <4>1, <5>1 DEF Over
        <5>2. CASE TermOf(f.proc) # None
          <6>1. TermOf(f.proc) \in Terms /\ terms[TermOf(f.proc)] \in Begun /\ terms[TermOf(f.proc)] # "live"
            BY <4>1, <1>2, FlowIs, ProcsAreTerms, <5>2 DEF Over, Restarting, ShellsInv, ProcsAreBegun
          <6> QED  BY <4>1, <2>4, FreshIs, <6>1 DEF Over, TermsGoOn
        <5> QED  BY <5>1, <5>2
      <4> QED  BY <3>2, <2>4, FreshIs, <4>1, <4>3 DEF FlowIsSound, Restarting
    <3>9. RoomIsKept'
      <4>2. Adds(flows') \subseteq Adds(flows)  BY <3>3, <3>2 DEF Adds
      <4> QED  BY <2>1, <3>3, RoomIs, FS_Subset, FS_AddElement, <4>2, RoomFewer
    <3>10. ensured' \in BOOLEAN  BY <2>1 DEF ShellsInv, ShellsTyped
    <3> QED  BY <2>1, <2>4, <3>2, <3>3, <3>4, <3>5, <3>8, <3>9, <3>10, AskedIs
  <2> QED  BY <2>1, <2>3, <2>4 DEF OrderIsKept
<1> QED  BY <1>1, <1>2 DEF Stopped

-----------------------------------------------------------------------------
(* A new shell takes its place.                                             *)

\* An asked terminal runs, or is torn down at once.
LEMMA LiveIs ==
    ASSUME ShellsInv, NEW t \in Terms, terms[t] = "asked", NEW state \in {"live", "dying"},
           terms' = [terms EXCEPT ![t] = state]
    PROVE  /\ TermsGoOn /\ terms'[t] = state
           /\ \A u \in Terms \ {t} : terms'[u] = terms[u]
BY DEF ShellsInv, ShellsTyped, TermsGoOn, TermStates, Begun

\* The others wait for other terminals.
LEMMA OthersWait ==
    ASSUME ShellsInv, NEW f \in flows, f.term \in Terms, terms[f.term] = "asked"
    PROVE  \A g \in flows \ {f} : g.term # f.term
BY DEF ShellsInv, FlowsAreApart

\* The shell has its pane or its place, and its terminal runs.
LEMMA BornIs ==
    ASSUME ShellsInv, NEW f \in flows, Landing(f),
           PanesAreSound(session'), IsBornIn(session, session', f.proc, f.term),
           Shown(session) \subseteq Shown(session'),
           f.kind # "slot" => \A g \in flows : g.kind # "slot",
           terms' = [terms EXCEPT ![f.term] = "live"], flows' = flows \ {f},
           seen' = seen, ensured' = ensured, RoomIsKept'
    PROVE  ShellsInv'
<1> DEFINE p == f.proc
<1>1. /\ p = f.term /\ p \in Terms /\ terms[p] = "asked" /\ p \notin Procs
      /\ f.kind = "slot" => flows = {f}
  BY DEF Landing
<1>2. TermsGoOn /\ terms'[p] = "live" /\ \A u \in Terms \ {p} : terms'[u] = terms[u]
  BY <1>1, LiveIs
<1>3. \A g \in flows' : g.term # p /\ g.proc # p /\ g.kind # "slot"
  BY <1>1, OthersWait DEF ShellsInv, FlowsAreApart
<1> HIDE DEF p
<1>4. /\ Procs' = Procs \cup {p} /\ session'.procs[p] = Born(p)
      /\ \A q \in Procs : session'.procs[q] = session.procs[q] /\ TermOf(q)' = TermOf(q)
  BY <1>1 DEF Procs, IsBornIn, TermOf, p
<1>6. PanesAreSound(session)'  OBVIOUS
<1>7. ProcsAreBegun' /\ EndedIsOver'
  <2>1. Fits(p)'  BY <1>1, <1>2, <1>4 DEF Fits, Begun, TermOf, Born
  <2> QED  BY <1>4, <2>1, <1>2, FitStays, FittingIsAll
<1>8. ShellsTyped'  BY <1>2 DEF ShellsInv, ShellsTyped, TermsGoOn
<1>9. FlowsAreSound'
  <2> SUFFICES ASSUME NEW g \in flows' PROVE FlowIsSound(g)'  BY DEF FlowsAreSound
  <2>1. g \in flows /\ g.proc # p /\ g.term # p /\ g.kind # "slot"  BY <1>3
  <2>2. g.term \in Terms /\ terms[g.term] = "asked" => terms'[g.term] = "asked"  BY <1>2, <2>1
  <2>3. g.kind = "recreate" => \A q \in Range(g.aim) : q \in Procs' /\ TermOf(q)' = TermOf(q)
    BY <1>4, <2>1, FlowIs DEF ComingBack
  <2>4. g.kind = "close" => g.proc \in Shown(session')  BY <2>1, FlowIs DEF Closing
  <2> QED  BY <1>2, <1>4, <2>1, <2>2, <2>3, <2>4, FlowStays
<1>10. FlowsAreApart'  BY <1>2, <1>3, ApartFewer
<1>11. EveryTerminalIsReachable'
  <2> SUFFICES ASSUME NEW u \in Terms, terms'[u] = "live"
               PROVE  \/ \E q \in Procs' : session'.procs[q].term = u
                      \/ \E g \in flows' : g.kind = "recreate" /\ u \in Range(g.aim)
    BY DEF EveryTerminalIsReachable
  <2>1. CASE u = p  BY <1>4, <2>1 DEF TermOf, Born
  <2>2. CASE u # p
    <3>2. CASE \E q \in Procs : session.procs[q].term = u  BY <1>4, <3>2
    <3>3. CASE \E g \in flows : g.kind = "recreate" /\ u \in Range(g.aim)  BY <3>3 DEF Landing
    <3> QED  BY <1>2, <2>2, <3>2, <3>3 DEF ShellsInv, EveryTerminalIsReachable
  <2> QED  BY <2>1, <2>2
<1> QED  BY <1>6, <1>7, <1>8, <1>9, <1>10, <1>11 DEF ShellsInv

\* The three ways a shell lands.
LEMMA CreatedStep ==
    ASSUME ShellsInv, NEW f \in flows, Created(f)
    PROVE  ShellsInv' /\ OrderIsKept(session, session')
<1> DEFINE p == f.proc
           a == Cardinality(Adds(flows)) b == Cardinality(Adds(flows'))
           c == Cardinality(Shown(session)) d == Cardinality(Shown(session'))
<1>1. /\ f.kind \in {"add", "slot", "float"} /\ Landed(f)
      /\ flows' = flows \ {f} /\ seen' = seen /\ ensured' = ensured
  BY DEF Created
<1>2. Landing(f)  BY <1>1, FlowIs
<1>3. p = f.term /\ p \in Terms /\ terms[p] = "asked" /\ p \notin DOMAIN session.procs
  BY <1>2 DEF Landing, Procs
<1>4. /\ IsFiniteSet(flows) /\ a \in Nat /\ c \in Nat /\ c + a <= 6 /\ (~ensured => a <= 5)
      /\ Len(Running(session.slots)) = c
  BY RoomIs
<1>5. /\ IsFiniteSet(flows')
      /\ f.kind # "add" => Adds(flows') = Adds(flows)
      /\ f.kind = "add" => b = a - 1
      /\ b \in Nat /\ b <= a
  BY <1>1, <1>4, AddsWith
<1>6. PanesAreSound(session)  BY DEF ShellsInv
<1>7. p \notin Shown(session) /\ IsFiniteSet(Shown(session))
  BY <1>3, <1>6, ShownAreCounted DEF PanesAreSound
<1>8. CASE f.kind = "add"
  <2>1. /\ session' = registerProcess(session, p, p)
        /\ terms' = [terms EXCEPT ![f.term] = "live"]
    BY <1>1, <1>3, <1>8 DEF Landed, Dispatch
  <2>2. c + b + 1 <= 6 /\ c < 6
    <3> HIDE DEF a, b, c
    <3> QED  BY <1>4, <1>5, <1>8
  <2>3. /\ PanesAreSound(session') /\ IsBornIn(session, session', p, p)
        /\ Shown(session') = Shown(session) \cup {p}
        /\ OrderIsKept(session, session')
    <3>1. Len(Running(session.slots)) < 6  BY <1>4, <2>2
    <3> HIDE DEF p
    <3> QED  BY <1>3, <1>6, <2>1, <3>1, RegisteredIs
  <2>4. RoomIsKept'
    <3>1. d = c + 1  BY <1>7, <2>3, FS_AddElement
    <3>2. d + b <= 6 /\ (~ensured' => b <= 5)
      <4> HIDE DEF a, b, c, d
      <4> QED  BY <1>1, <1>4, <1>5, <2>2, <3>1
    <3> QED  BY <1>5, <3>2 DEF RoomIsKept
  <2> QED  BY <2>3, <1>1, <1>2, <1>3, <2>1, <2>4, <1>8, NoSlotFlow, BornIs
<1>9. CASE f.kind = "slot"
  <2> DEFINE i == f.aim[2]
  <2>3. session' = placeProcessInNewSlot(session, p, p, session.layout, i)
        /\ i \in DOMAIN session.slots /\ session.slots[i] = None
    BY <1>1, <1>3, <1>9, <1>2 DEF Landed, Dispatch, Landing
  <2>4. /\ PanesAreSound(session') /\ IsBornIn(session, session', p, p)
        /\ Shown(session') = Shown(session) \cup {p}
        /\ OrderIsKept(session, session')
    <3> HIDE DEF p, i
    <3> QED  BY <1>3, <1>6, <2>3, PlacedInSlotIs
  <2>5. RoomIsKept'
    <3>2. Adds(flows') = {}  BY <1>1, <1>2, <1>9 DEF Adds, Landing
    <3>3. b = 0  BY <3>2, FS_EmptySet
    <3>4. d <= 6 /\ d \in Nat
      <4>2. Len(Running(session'.slots)) = d /\ d \in Nat  BY <2>4, ShownAreCounted
      <4> HIDE DEF d
      <4> QED  BY <2>4, SlotsAreFew, <4>2
    <3>5. d + b <= 6 /\ b <= 5
      <4> HIDE DEF b, d
      <4> QED  BY <3>3, <3>4
    <3> QED  BY <1>5, <3>5 DEF RoomIsKept
  <2> QED  BY <2>4, <1>1, <1>2, <1>3, <1>9, <2>5, BornIs DEF Landed, Dispatch
<1>10. CASE f.kind = "float"
  <2>2. CASE Len(session.floating) >= MaxFloating
    <3>1. /\ session' = session /\ terms' = [terms EXCEPT ![f.term] = "dying"]
      BY <1>1, <1>10, <2>2 DEF Landed, Dispatch, registerFloatingShell
    <3>5. \A t \in Terms : /\ terms'[t] = "asked" => terms[t] = "asked"
                           /\ terms'[t] = "live" => terms[t] = "live"  BY <1>3, <3>1, LiveIs
    <3>6. \A g \in flows' : g.term \in Terms /\ terms[g.term] = "asked" => terms'[g.term] = "asked"
      BY <1>3, <3>1, LiveIs, <1>1, OthersWait
    <3>7. ShellsInv'  BY <1>1, <1>10, <3>1, <1>3, LiveIs, <3>5, <3>6, QuietIs DEF ShellsInv, ShellsTyped
    <3> QED  BY <3>1, <3>7 DEF OrderIsKept
  <2>3. CASE ~(Len(session.floating) >= MaxFloating)
    <3>1. /\ session' = registerFloatingShell(session, p, p)
          /\ terms' = [terms EXCEPT ![f.term] = "live"]
      BY <1>1, <1>3, <1>10, <2>3 DEF Landed, Dispatch
    <3>2. Len(session.floating) < MaxFloating  BY <2>3, <1>6, ShownAreTerms, ShellsAssumption DEF PanesAreSound
    <3>3. /\ PanesAreSound(session') /\ IsBornIn(session, session', p, p)
          /\ Shown(session') = Shown(session) /\ session'.slots = session.slots
      <4> HIDE DEF p
      <4> QED  BY <1>3, <1>6, <3>1, <3>2, FloatedIs
    <3>6. ShellsInv'  BY <1>1, <1>2, <1>3, <1>10, NoSlotFlow, <3>1, <3>3, <1>5, RoomFewer, BornIs DEF Adds
    <3> QED  BY <3>3, <3>6 DEF OrderIsKept
  <2> QED  BY <2>2, <2>3
<1> QED  BY <1>1, <1>8, <1>9, <1>10

-----------------------------------------------------------------------------
(* A process is bound again, or its status changes; no pane does.           *)

\* What holds of all the others when p is said to be bound or to be over.
LEMMA SaidStep ==
    ASSUME ShellsInv, NEW p \in Procs, PanesAreSound(session'), SamePanes(session, session'),
           DOMAIN session'.procs = DOMAIN session.procs,
           \A q \in Procs \ {p} : session'.procs[q] = session.procs[q],
           TermsGoOn, Fits(p)', seen' = seen, ensured' = ensured,
           NEW fl \in SUBSET flows, IsFiniteSet(flows'), Adds(flows') \subseteq Adds(flows),
           \A g \in fl : /\ g.term \in Terms /\ terms[g.term] = "asked" => terms'[g.term] = "asked"
                         /\ g.kind = "slot" => flows' = {g},
           TermOf(p)' = TermOf(p) \/ \A g \in fl : g.proc # p /\ g.kind # "recreate"
    PROVE  /\ ShellsTyped' /\ PanesAreSound(session)' /\ ProcsAreBegun' /\ EndedIsOver' /\ RoomIsKept'
           /\ \A g \in fl : FlowIsSound(g)'
           /\ Procs' = Procs /\ \A q \in Procs \ {p} : TermOf(q)' = TermOf(q)
<1>1. Procs' = Procs /\ \A q \in Procs \ {p} : TermOf(q)' = TermOf(q)  BY DEF Procs, TermOf
<1>2. PanesAreSound(session)'  OBVIOUS
<1>3. ProcsAreBegun' /\ EndedIsOver'  BY <1>1, FitStays, FittingIsAll
<1>4. ShellsTyped'  BY DEF ShellsInv, ShellsTyped, TermsGoOn
<1>6. RoomIsKept'  BY RoomFewer DEF SamePanes, Shown
<1>7. ASSUME NEW g \in fl PROVE FlowIsSound(g)'
  <2>1. g.proc \in Procs => TermOf(g.proc)' = TermOf(g.proc)  BY <1>1
  <2>2. g.kind = "recreate" => \A q \in Range(g.aim) : q \in Procs' /\ TermOf(q)' = TermOf(q)
    BY <1>1, FlowIs DEF ComingBack
  <2>3. g.kind = "close" => g.proc \in Shown(session')  BY FlowIs DEF Closing, SamePanes, Shown
  <2>4. g \in flows  OBVIOUS
  <2> QED  BY <1>1, <2>1, <2>2, <2>3, <2>4, FlowStays DEF SamePanes
<1> QED  BY <1>1, <1>2, <1>3, <1>4, <1>6, <1>7

\* A rebound process runs.
LEMMA ReboundFits ==
    ASSUME ShellsInv, TermsGoOn, NEW p \in Procs, NEW t \in Terms, terms'[t] \in Begun,
           session'.procs[p].term = t, session'.procs[p].status = "running"
    PROVE  Fits(p)'
<1> QED  BY ProcsAreTerms, TheyFit DEF Fits, TermOf, TermsGoOn, ShellsInv

\* Panes that do not move keep their order.
LEMMA SamePanesInOrder ==
    ASSUME NEW s, NEW n, SamePanes(s, n)
    PROVE  OrderIsKept(s, n)
BY DEF SamePanes, OrderIsKept

\* The next terminal of a restarted shell is there.
LEMMA RestartedStep ==
    ASSUME ShellsInv, NEW f \in flows, Restarted(f)
    PROVE  ShellsInv' /\ OrderIsKept(session, session')
<1> DEFINE p == f.proc t == f.term fl == flows \ {f}
<1>1. /\ f.kind = "restart" /\ t # None /\ flows' = fl /\ terms' = [terms EXCEPT ![t] = "live"]
      /\ session' = Rebound(p, t, "running") /\ seen' = seen /\ ensured' = ensured
  BY DEF Restarted, Dispatch
<1>3. p \in Procs /\ Over(p) /\ t \in Terms /\ terms[t] = "asked"  BY <1>1, FlowIs DEF Restarting
<1>4. \A g \in fl : g.proc # p /\ g.kind # "recreate" /\ g.kind # "slot" /\ g.term # t
  <2>1. \A g \in fl : g.proc # p /\ g.kind # "recreate"  BY <1>1 DEF ShellsInv, FlowsAreApart
  <2> QED  BY <1>1, <1>3, <2>1, NoSlotFlow, OthersWait
<1>5. fl \in SUBSET flows /\ IsFiniteSet(fl) /\ Adds(fl) \subseteq Adds(flows)
  BY RoomIs, FS_RemoveElement DEF Adds
<1>7. PanesAreSound(session) /\ p \in DOMAIN session.procs  BY <1>3 DEF ShellsInv, Procs
<1> HIDE DEF p, t, fl
<1>8. /\ PanesAreSound(session') /\ SamePanes(session, session')
      /\ IsOnlySaid(session, session', p, t, "running")
  <2>1. "running" \in Statuses  BY DEF Statuses
  <2> QED  BY <1>1, <1>3, <1>7, <2>1, ReboundIs
<1>9. /\ DOMAIN session'.procs = DOMAIN session.procs
      /\ session'.procs[p].term = t /\ session'.procs[p].status = "running"
      /\ \A q \in Procs \ {p} : session'.procs[q] = session.procs[q]
  BY <1>8 DEF IsOnlySaid, Procs
<1>10. TermsGoOn /\ terms'[t] = "live" /\ \A u \in Terms \ {t} : terms'[u] = terms[u]
  BY <1>1, <1>3, LiveIs
<1>11. Fits(p)'
  <2>1. terms'[t] \in Begun  BY <1>10 DEF Begun
  <2> QED  BY <1>3, <1>9, <1>10, <2>1, ReboundFits
<1>13. /\ ShellsTyped' /\ PanesAreSound(session)' /\ ProcsAreBegun' /\ EndedIsOver' /\ RoomIsKept'
       /\ \A g \in fl : FlowIsSound(g)'
       /\ Procs' = Procs /\ \A q \in Procs \ {p} : TermOf(q)' = TermOf(q)
  BY <1>1, <1>3, <1>4, <1>5, <1>8, <1>9, <1>10, <1>11, SaidStep
<1>14. FlowsAreSound'  BY <1>1, <1>13 DEF FlowsAreSound
<1>15. FlowsAreApart'  BY <1>1, <1>5, <1>4, <1>10, ApartFewer
<1>16. EveryTerminalIsReachable'
  <2> SUFFICES ASSUME NEW u \in Terms, terms'[u] = "live"
               PROVE  \E q \in Procs' : session'.procs[q].term = u
    BY DEF EveryTerminalIsReachable
  <2>1. CASE u = t  BY <1>3, <1>9, <1>13, <2>1
  <2>2. CASE u # t
    <3>1. terms[u] = "live"  BY <1>10, <2>2
    <3>2. PICK q \in Procs : session.procs[q].term = u
      BY <1>1, <3>1 DEF ShellsInv, EveryTerminalIsReachable, FlowsAreApart
    <3> QED  BY <1>9, <1>13, <3>2, <1>3, <3>1, NoneIsNoTerm DEF Over, TermOf
  <2> QED  BY <2>1, <2>2
<1>17. OrderIsKept(session, session')  BY <1>8, SamePanesInOrder
<1> QED  BY <1>13, <1>14, <1>15, <1>16, <1>17 DEF ShellsInv

-----------------------------------------------------------------------------
(* The loop over the shells of a saved worktree.                            *)

\* The list without its head.
LEMMA TailIs ==
    ASSUME NEW aim \in Seq(Terms), aim # <<>>, Once(aim)
    PROVE  /\ Head(aim) \in Terms /\ Head(aim) \in Range(aim)
           /\ Tail(aim) \in Seq(Terms) /\ Once(Tail(aim))
           /\ Range(Tail(aim)) = Range(aim) \ {Head(aim)}
<1> DEFINE l == Len(aim)
<1>1. l \in Nat /\ l # 0 /\ aim \in [1..l -> Terms] /\ DOMAIN aim = 1..l  OBVIOUS
<1>2. /\ Head(aim) = aim[1] /\ Tail(aim) \in Seq(Terms)
      /\ Len(Tail(aim)) = l - 1 /\ DOMAIN Tail(aim) = 1..(l - 1)
      /\ \A k \in 1..(l - 1) : Tail(aim)[k] = aim[k + 1]
  OBVIOUS
<1> HIDE DEF l
<1>4. Once(Tail(aim))
  <2> SUFFICES ASSUME NEW i \in 1..(l - 1), NEW j \in 1..(l - 1), Tail(aim)[i] = Tail(aim)[j]
               PROVE  i = j
    BY <1>2 DEF Once
  <2>2. i + 1 = j + 1  BY <1>1, NoneIsNoTerm, <1>2 DEF Once
  <2> QED  BY <1>1, <2>2
<1>7. ASSUME NEW v PROVE v \in Range(Tail(aim)) <=> v \in Range(aim) \ {aim[1]}
  <2>1. ASSUME v \in Range(Tail(aim)) PROVE v \in Range(aim) \ {aim[1]}
    <3>1. PICK k \in 1..(l - 1) : aim[k + 1] = v  BY <1>2, <2>1 DEF Range
    <3>3. v # aim[1]  BY <1>1, NoneIsNoTerm, <3>1 DEF Once
    <3> QED  BY <1>1, <3>1, <3>3 DEF Range
  <2>2. ASSUME v \in Range(aim) \ {aim[1]} PROVE v \in Range(Tail(aim))
    <3>1. PICK k \in 1..l : aim[k] = v  BY <1>1, <2>2 DEF Range
    <3>3. k - 1 \in 1..(l - 1) /\ aim[(k - 1) + 1] = v  BY <1>1, <3>1, <2>2
    <3> QED  BY <1>2, <3>3 DEF Range
  <2> QED  BY <2>1, <2>2
<1>9. Head(aim) \in Terms /\ Head(aim) \in Range(aim)  BY <1>1, <1>2 DEF Range
<1> QED  BY <1>2, <1>4, <1>7, <1>9

\* The head of the list is done with: bound to the terminal it adopted or was given, or broken.
LEMMA DoneIs ==
    ASSUME ShellsInv, NEW f \in flows, f.kind = "recreate", f.aim # <<>>,
           NEW p, p = Head(f.aim),
           PanesAreSound(session'), SamePanes(session, session'),
           DOMAIN session'.procs = DOMAIN session.procs,
           \A q \in Procs \ {p} : session'.procs[q] = session.procs[q],
           TermsGoOn, Fits(p)', seen' = seen, ensured' = ensured,
           \A u \in Terms : /\ terms'[u] = "asked" <=> terms[u] = "asked" /\ u # f.term
                            /\ terms'[u] = "live" /\ terms[u] # "live" => session'.procs[p].term = u,
           terms'[p] = "live" => session'.procs[p].term = p,
           flows' = (flows \ {f}) \cup {Asked("recreate", None, None, Tail(f.aim))}
    PROVE  ShellsInv'
<1> DEFINE g == Asked("recreate", None, None, Tail(f.aim)) fl == flows \ {f}
<1>1. g.kind = "recreate" /\ g.proc = None /\ g.term = None /\ g.aim = Tail(f.aim)
      /\ g = Asked(g.kind, g.proc, g.term, g.aim)
  BY DEF Asked
<1>2. /\ ComingBack(f) /\ f.proc = None /\ f.aim \in Seq(Terms) /\ Once(f.aim)
      /\ \A q \in Range(f.aim) : q \in Procs /\ TermOf(q) = None
  BY FlowIs DEF ComingBack
<1>4. p \in Procs /\ TermOf(p) = None  BY <1>2, TailIs
<1>5. \A h \in fl : /\ h.kind \notin {"recreate", "slot", "close", "closeFloat", "restart"}
                    /\ h.proc # None /\ h.proc # p /\ h.term # f.term
  <2>3. \A h \in fl : h.kind # "recreate"  BY <1>2, FlowIs DEF ComingBack, ShellsInv, FlowsAreApart
  <2>4. ASSUME NEW h \in fl PROVE h.proc # p /\ h.term # f.term
    <3>1. Landing(h)  BY <1>2, <2>3, FlowIs DEF Closing, Restarting, ComingBack, ShellsInv, FlowsAreApart
    <3> QED  BY <1>4, <3>1 DEF Landing, ShellsInv, FlowsAreApart
  <2> QED  BY <1>2, NoSlotFlow, <2>3, <2>4 DEF ShellsInv, FlowsAreApart
<1>6. fl \in SUBSET flows /\ flows' = fl \cup {g}  OBVIOUS
<1>7. IsFiniteSet(flows') /\ Adds(flows') \subseteq Adds(flows)
  <2>1. IsFiniteSet(fl)  BY RoomIs, FS_RemoveElement
  <2> HIDE DEF g
  <2> QED  BY <1>1, <1>6, <2>1, FS_AddElement DEF Adds
<1> HIDE DEF g, fl
<1>8. \A h \in fl : /\ h.term \in Terms /\ terms[h.term] = "asked" => terms'[h.term] = "asked"
                    /\ h.kind = "slot" => flows' = {h}
  BY <1>5
<1>9. \A h \in fl : h.proc # p /\ h.kind # "recreate"  BY <1>5
<1>10. /\ ShellsTyped' /\ PanesAreSound(session)' /\ ProcsAreBegun' /\ EndedIsOver' /\ RoomIsKept'
       /\ \A h \in fl : FlowIsSound(h)'
       /\ Procs' = Procs /\ \A q \in Procs \ {p} : TermOf(q)' = TermOf(q)
  BY <1>4, <1>6, <1>7, <1>8, <1>9, SaidStep
<1>11. FlowsAreSound'
  <2>2. ComingBack(g)'  BY <1>1, <1>2, TailIs, <1>10 DEF ComingBack
  <2> QED  BY <1>6, <1>10, <1>1, <2>2 DEF FlowsAreSound, FlowIsSound
<1>12. FlowsAreApart'
  <2>1. \A h \in fl : h.term \in Terms /\ terms'[h.term] = "asked" => terms[h.term] = "asked"  OBVIOUS
  <2>2. \A h \in fl : h.proc # g.proc  BY <1>1, <1>5
  <2>3. ~(g.term \in Terms)  BY <1>1, NoneIsNoTerm
  <2>4. g.kind = "recreate" /\ \A h \in fl : h.kind \notin {"close", "closeFloat", "restart"}  BY <1>1, <1>5
  <2> QED  BY ZenonT(60), <1>6, <2>1, <2>2, <2>3, <2>4, ApartMore
<1>13. EveryTerminalIsReachable'
  <2> SUFFICES ASSUME NEW u \in Terms, terms'[u] = "live"
               PROVE  \/ \E q \in Procs' : session'.procs[q].term = u
                      \/ \E h \in flows' : h.kind = "recreate" /\ u \in Range(h.aim)
    BY DEF EveryTerminalIsReachable
  <2>1. CASE terms[u] # "live"  BY <1>4, <1>10, <2>1
  <2>2. CASE \E q \in Procs : session.procs[q].term = u
    <3>1. PICK q \in Procs : session.procs[q].term = u  BY <2>2
    <3> QED  BY <1>10, <3>1, <1>4, NoneIsNoTerm DEF TermOf
  <2>3. CASE \E h \in flows : h.kind = "recreate" /\ u \in Range(h.aim)
    <3>1. PICK h \in flows : h.kind = "recreate" /\ u \in Range(h.aim)  BY <2>3
    <3>3. CASE u = p  BY <1>4, <1>10, <3>3
    <3>4. CASE u # p
      <4>1. u \in Range(g.aim)  BY <1>1, <1>2, TailIs, <3>1, <1>5, <3>4 DEF fl
      <4> QED  BY <1>1, <4>1, <1>6
    <3> QED  BY <3>3, <3>4
  <2> QED  BY <2>1, <2>2, <2>3 DEF ShellsInv, EveryTerminalIsReachable
<1> QED  BY <1>10, <1>11, <1>12, <1>13 DEF ShellsInv

\* A handler of the loop, done with its head.
LEMMA DoneAimIs ==
    ASSUME NEW f, f = Asked("recreate", None, f.term, f.aim)
    PROVE  /\ [f EXCEPT !.term = None, !.aim = Tail(@)] = Asked("recreate", None, None, Tail(f.aim))
           /\ f.term = None => [f EXCEPT !.aim = Tail(@)] = Asked("recreate", None, None, Tail(f.aim))
<1> DEFINE t == f.term aim == f.aim w == Tail(f.aim) done == Asked("recreate", None, None, w)
           R(T, A) == [kind : {"recreate"}, proc : {None}, term : T, aim : A]
<1>1. f \in R({t}, {aim}) /\ done \in R({None}, {w})  BY DEF Asked
<1> HIDE DEF t, aim, w, done
<1>2. \A x, y \in R({None}, {w}) : x = y
  <2>1. ASSUME NEW x \in R({None}, {w})
        PROVE  x = [kind |-> "recreate", proc |-> None, term |-> None, aim |-> w]  OBVIOUS
  <2> QED  BY <2>1
<1>3. [f EXCEPT !.term = None, !.aim = w] \in R({None}, {w})  BY <1>1
<1>4. t = None => [f EXCEPT !.aim = w] \in R({None}, {w})  BY <1>1
<1> HIDE DEF R
<1> QED  BY <1>1, <1>2, <1>3, <1>4 DEF t, w, done

\* The new terminal of a restored shell is there.
LEMMA RecreatedStep ==
    ASSUME ShellsInv, NEW f \in flows, Recreated(f)
    PROVE  ShellsInv' /\ OrderIsKept(session, session')
<1> DEFINE p == Head(f.aim) t == f.term
<1>1. /\ f.kind = "recreate" /\ t # None
      /\ flows' = (flows \ {f}) \cup {[f EXCEPT !.term = None, !.aim = Tail(@)]}
      /\ terms' = [terms EXCEPT ![t] = "live"]
      /\ session' = Rebound(p, t, "running") /\ seen' = seen /\ ensured' = ensured
  BY DEF Recreated, Dispatch
<1>3. /\ f.proc = None /\ f.aim \in Seq(Terms) /\ Once(f.aim) /\ f.aim # <<>>
      /\ \A q \in Range(f.aim) : q \in Procs /\ TermOf(q) = None
      /\ t \in Terms /\ terms[t] = "asked" /\ terms[p] # "live"  BY <1>1, FlowIs DEF ComingBack
<1>4. p \in Terms /\ p \in Procs  BY <1>3, TailIs
<1>5. flows' = (flows \ {f}) \cup {Asked("recreate", None, None, Tail(f.aim))}  BY <1>1, FlowIs, <1>3, DoneAimIs
<1>6. PanesAreSound(session) /\ p \in DOMAIN session.procs  BY <1>4 DEF ShellsInv, Procs
<1> HIDE DEF p, t
<1>7. /\ PanesAreSound(session') /\ SamePanes(session, session')
      /\ IsOnlySaid(session, session', p, t, "running")
  <2>1. "running" \in Statuses  BY DEF Statuses
  <2> QED  BY <1>1, <1>3, <1>6, <2>1, ReboundIs
<1>8. /\ DOMAIN session'.procs = DOMAIN session.procs
      /\ session'.procs[p].term = t /\ session'.procs[p].status = "running"
      /\ \A q \in Procs \ {p} : session'.procs[q] = session.procs[q]
  BY <1>7 DEF IsOnlySaid, Procs
<1>9. TermsGoOn /\ terms'[t] = "live" /\ \A u \in Terms \ {t} : terms'[u] = terms[u]
  BY <1>1, <1>3, LiveIs
<1>10. Fits(p)'
  <2>1. terms'[t] \in Begun  BY <1>9 DEF Begun
  <2> QED  BY <1>3, <1>4, <1>8, <1>9, <2>1, ReboundFits
<1>11. terms'[p] = "live" => session'.procs[p].term = p
  <2>1. CASE p = t  BY <1>8, <2>1
  <2>2. CASE p # t  BY <1>3, <1>4, <1>9, <2>2
  <2> QED  BY <2>1, <2>2
<1>12. \A u \in Terms : /\ terms'[u] = "asked" <=> terms[u] = "asked" /\ u # f.term
                        /\ terms'[u] = "live" /\ terms[u] # "live" => session'.procs[p].term = u
  BY <1>3, <1>8, <1>9 DEF t
<1>13. ShellsInv'
  <2>1. p = Head(f.aim)  BY DEF p
  <2> QED  BY <1>1, <1>3, <1>5, <1>7, <1>8, <1>9, <1>10, <1>11, <1>12, <2>1, DoneIs
<1> QED  BY <1>7, <1>13, SamePanesInOrder

\* The head of the list is adopted, asked for or broken.
LEMMA RecreateStep ==
    ASSUME ShellsInv, NEW f \in flows, Recreate(f)
    PROVE  ShellsInv' /\ OrderIsKept(session, session')
<1> DEFINE p == Head(f.aim) done == (flows \ {f}) \cup {[f EXCEPT !.aim = Tail(@)]}
<1>1. /\ f.kind = "recreate" /\ f.term = None /\ f.aim # <<>> /\ seen' = seen /\ ensured' = ensured
  BY DEF Recreate
<1>2. \/ /\ terms[p] = "live"
         /\ session' = Rebound(p, p, "running") /\ flows' = done /\ terms' = terms
      \/ /\ terms[p] # "live" /\ session' = session
         /\ \E t \in Fresh : Ask(t) /\ flows' = (flows \ {f}) \cup {[f EXCEPT !.term = t]}
      \/ /\ terms[p] # "live" /\ session' = updateProcessStatus(session, p, "error", None)
         /\ flows' = done /\ terms' = terms
  BY DEF Recreate, Dispatch
<1>4. /\ f.proc = None /\ f.aim \in Seq(Terms) /\ Once(f.aim)
      /\ \A q \in Range(f.aim) : q \in Procs /\ TermOf(q) = None  BY <1>1, FlowIs DEF ComingBack
<1>5. p \in Terms /\ p \in Procs /\ TermOf(p) = None  BY <1>1, <1>4, TailIs
<1>6. done = (flows \ {f}) \cup {Asked("recreate", None, None, Tail(f.aim))}  BY <1>1, FlowIs, <1>4, DoneAimIs
<1>7. PanesAreSound(session) /\ p \in DOMAIN session.procs  BY <1>5 DEF ShellsInv, Procs
<1> HIDE DEF p, done
<1>9. ASSUME terms' = terms PROVE TermsGoOn  BY <1>9, NothingEnds
<1>10. ASSUME terms' = terms
       PROVE  \A u \in Terms : /\ terms'[u] = "asked" <=> terms[u] = "asked" /\ u # f.term
                               /\ terms'[u] = "live" /\ terms[u] # "live" => session'.procs[p].term = u
  BY <1>1, <1>10, NoneIsNoTerm
<1>11. CASE /\ terms[p] = "live"
            /\ session' = Rebound(p, p, "running") /\ flows' = done /\ terms' = terms
  <2>1. /\ PanesAreSound(session') /\ SamePanes(session, session')
        /\ IsOnlySaid(session, session', p, p, "running")
    <3>1. "running" \in Statuses  BY DEF Statuses
    <3> QED  BY <1>5, <1>7, <1>11, <3>1, ReboundIs
  <2>2. /\ DOMAIN session'.procs = DOMAIN session.procs
        /\ session'.procs[p].term = p /\ session'.procs[p].status = "running"
        /\ \A q \in Procs \ {p} : session'.procs[q] = session.procs[q]
    BY <2>1 DEF IsOnlySaid, Procs
  <2>3. TermsGoOn  BY <1>9, <1>11
  <2>4. Fits(p)'
    <3>1. terms'[p] \in Begun  BY <1>11 DEF Begun
    <3> QED  BY <1>5, <2>2, <2>3, <3>1, ReboundFits
  <2> QED  BY <2>1, <1>1, <1>6, <1>10, <1>11, <2>2, <2>3, <2>4, DoneIs, SamePanesInOrder DEF p
<1>12. CASE /\ terms[p] # "live" /\ session' = updateProcessStatus(session, p, "error", None)
            /\ flows' = done /\ terms' = terms
  <2>2. /\ DOMAIN session'.procs = DOMAIN session.procs
        /\ session'.procs[p].term = None /\ session'.procs[p].status = "error"
        /\ \A q \in Procs \ {p} : session'.procs[q] = session.procs[q]
    BY <1>5, <1>7, <1>12, StatusIs DEF IsOnlySaid, Procs, TermOf, Statuses
  <2>3. TermsGoOn  BY <1>9, <1>12
  <2>4. Fits(p)'  BY <2>2, <1>12, <1>5, TheyFit DEF Fits, TermOf
  <2>5. terms'[p] = "live" => session'.procs[p].term = p  BY <1>12
  <2>6. ShellsInv'  BY <1>1, <1>6, <1>10, <1>12, <1>7, StatusIs, <2>2, <2>3, <2>4, <2>5, DoneIs DEF p, Statuses
  <2> QED  BY <1>7, <1>12, StatusIs, <2>6, SamePanesInOrder DEF Statuses
<1>13. ASSUME NEW t \in Fresh, Ask(t), session' = session, terms[p] # "live",
              flows' = (flows \ {f}) \cup {[f EXCEPT !.term = t]}
       PROVE  ShellsInv' /\ OrderIsKept(session, session')
  <2> DEFINE g == [f EXCEPT !.term = t] fl == flows \ {f}
  <2>1. /\ g.kind = "recreate" /\ g.proc = None /\ g.term = t /\ g.aim = f.aim
        /\ g = Asked(g.kind, g.proc, g.term, g.aim)  BY <1>1, FlowIs, <1>4 DEF Asked
  <2>2. flows' = fl \cup {g} /\ fl \in SUBSET flows  BY <1>13
  <2>3. /\ \A h \in fl : h.kind # "slot" /\ h.proc # None
        /\ \A h \in fl : h.kind \notin {"close", "closeFloat", "restart"}
    BY <1>1, <1>4, NoSlotFlow DEF ShellsInv, FlowsAreApart
  <2>4. \A h \in flows \ fl : h = f  OBVIOUS
  <2> HIDE DEF g, fl
  <2>6. FlowIsSound(g)'
    <3>2. terms'[Head(g.aim)] # "live"  BY <1>5, <1>13, <2>1, FreshIs DEF p
    <3>3. ComingBack(g)'  BY <1>1, <1>4, <2>1, <1>13, FreshIs, <3>2 DEF ComingBack, Procs, TermOf
    <3> QED  BY <2>1, <3>3 DEF FlowIsSound
  <2>7. RoomIsKept'
    <3>1. IsFiniteSet(flows')  BY <2>2, RoomIs, FS_Subset, FS_AddElement
    <3>2. Adds(flows') \subseteq Adds(flows)  BY <2>1, <2>2 DEF Adds
    <3> QED  BY <1>1, <1>13, <3>1, <3>2, RoomFewer
  <2>8. ensured' \in BOOLEAN  BY <1>1 DEF ShellsInv, ShellsTyped
  <2>9. ShellsInv'
    BY <1>1, <1>13, <2>1, <2>2, <2>3, <2>4, <2>6, <2>7, <2>8, AskedIs
  <2> QED  BY <1>13, <2>9 DEF OrderIsKept
<1> QED  BY <1>2, <1>11, <1>12, <1>13

-----------------------------------------------------------------------------
(* A terminal ends.                                                         *)

\* The process of the last render is told, if it is still bound to that terminal.
LEMMA TerminalEndsStep ==
    ASSUME ShellsInv, NEW t \in Terms, TerminalEnds(t)
    PROVE  ShellsInv' /\ OrderIsKept(session, session')
<1>1. /\ terms[t] \in {"live", "dying"} /\ terms' = [terms EXCEPT ![t] = "gone"]
      /\ seen' = seen /\ flows' = flows /\ ensured' = ensured
  BY DEF TerminalEnds
<1>3. TermsGoOn /\ terms'[t] = "gone" /\ \A u \in Terms \ {t} : terms'[u] = terms[u]
  BY <1>1, OverIs
<1>4. \A u \in Terms : /\ terms'[u] = "asked" <=> terms[u] = "asked"
                       /\ terms'[u] = "live" => terms[u] = "live"
  BY <1>1, <1>3
<1>6. CASE session' = session  BY <1>6, <1>1, <1>3, <1>4, QuietIs DEF OrderIsKept, ShellsInv, ShellsTyped
<1>7. ASSUME NEW p, session' = updateProcessStatus(session, p, "exited", t)
      PROVE  ShellsInv' /\ OrderIsKept(session, session')
  <2>1. CASE p \notin Procs \/ t \notin {None, TermOf(p)}
    BY <1>6, <1>7, <2>1 DEF updateProcessStatus, Procs, TermOf
  <2>2. CASE p \in Procs /\ t \in {None, TermOf(p)}
    <3>2. /\ PanesAreSound(session') /\ SamePanes(session, session')
          /\ IsOnlySaid(session, session', p, session.procs[p].term, "exited")
      <4>1. "exited" \in Statuses  BY DEF Statuses
      <4> QED  BY <1>7, <2>2, NoneIsNoTerm, <4>1, StatusIs DEF ShellsInv, Procs, TermOf
    <3>4. Fits(p)'
      <4>2. terms'[p] \in Begun  BY <1>3, <2>2, ProcsAreTerms, TheyFit DEF TermsGoOn, ShellsInv, Fits
      <4> QED  BY <1>3, <2>2, NoneIsNoTerm, <3>2, <4>2 DEF Fits, TermOf, Begun, IsOnlySaid, Procs, ShellsInv
    <3>6. \A g \in flows : /\ g.term \in Terms /\ terms[g.term] = "asked" => terms'[g.term] = "asked"
                           /\ g.kind = "slot" => flows' = {g}
      BY <1>1, <1>4, FlowIs
    <3>7. /\ ShellsTyped' /\ PanesAreSound(session)' /\ ProcsAreBegun' /\ EndedIsOver' /\ RoomIsKept'
          /\ \A g \in flows : FlowIsSound(g)'
          /\ Procs' = Procs /\ \A q \in Procs \ {p} : TermOf(q)' = TermOf(q)
      BY <1>1, <1>3, <2>2, <3>2, NoneIsNoTerm, <3>4, RoomIs, <3>6, SaidStep DEF IsOnlySaid, Procs, TermOf,
         ShellsInv
    <3>10. EveryTerminalIsReachable'
      <4>1. \A q \in Procs : session'.procs[q].term = session.procs[q].term
        BY <2>2, NoneIsNoTerm, <3>2, <3>7 DEF ShellsInv, Procs, TermOf, IsOnlySaid
      <4> QED  BY <1>1, <1>4, <3>7, <4>1 DEF ShellsInv, EveryTerminalIsReachable
    <3>11. ShellsInv'  BY <3>7, <1>1, <1>4, ApartFewer, <3>10 DEF ShellsInv, FlowsAreSound
    <3> QED  BY <3>2, <3>11, SamePanesInOrder
  <2> QED  BY <2>1, <2>2
<1> QED  BY <1>6, <1>7 DEF TerminalEnds, Dispatch

-----------------------------------------------------------------------------
(* Panes move, and the processes stay.                                      *)

\* No process and no handler changes.
LEMMA MovedIs ==
    ASSUME ShellsInv, PanesAreSound(session'), session'.procs = session.procs,
           Shown(session) \subseteq Shown(session'),
           Cardinality(Shown(session')) + Cardinality(Adds(flows)) <= 6,
           \A f \in flows : f.kind # "slot",
           terms' = terms, flows' = flows, seen' = seen, ensured' = ensured
    PROVE  ShellsInv'
<1>1. TermsGoOn  BY NothingEnds
<1>2. Procs' = Procs /\ \A q \in Procs : TermOf(q)' = TermOf(q) /\ session'.procs[q] = session.procs[q]
  BY DEF Procs, TermOf
<1>3. PanesAreSound(session)'  OBVIOUS
<1>4. ProcsAreBegun' /\ EndedIsOver'  BY <1>1, <1>2, FitStays, FittingIsAll
<1>5. ShellsTyped'  BY DEF ShellsInv, ShellsTyped
<1>6. FlowsAreSound'
  <2> SUFFICES ASSUME NEW f \in flows PROVE FlowIsSound(f)'  BY DEF FlowsAreSound
  <2>1. f.kind = "close" => f.proc \in Shown(session')  BY FlowIs DEF Closing
  <2>2. f.kind = "recreate" => \A q \in Range(f.aim) : q \in Procs' /\ TermOf(q)' = TermOf(q)
    BY <1>2, FlowIs DEF ComingBack
  <2> QED  BY <1>1, <1>2, <2>1, <2>2, FlowStays
<1>7. FlowsAreApart'  BY DEF ShellsInv, FlowsAreApart
<1>8. RoomIsKept'  BY DEF ShellsInv, RoomIsKept
<1>9. EveryTerminalIsReachable'  BY <1>2 DEF ShellsInv, EveryTerminalIsReachable
<1> QED  BY <1>3, <1>4, <1>5, <1>6, <1>7, <1>8, <1>9 DEF ShellsInv

\* The layout dialog.
LEMMA PickLayoutStep ==
    ASSUME Hasty = FALSE, ShellsInv, NEW name \in Picks, PickLayout(name)
    PROVE  ShellsInv' /\ OrderIsKept(session, session')
<1>4. /\ PanesAreSound(session') /\ session'.procs = session.procs
      /\ Shown(session') = Shown(session) /\ OrderIsKept(session, session')
  BY ShellsAssumption, LaidOutIs DEF PickLayout, Dispatch, ShellsInv
<1>5. Cardinality(Shown(session')) + Cardinality(Adds(flows)) <= 6  BY <1>4, RoomIs
<1>6. ShellsInv'  BY WaitsAre, <1>4, <1>5, MovedIs DEF PickLayout, Dispatch, User
<1> QED  BY <1>4, <1>6

\* A shell goes to the first pane.
LEMMA PromoteSlotStep ==
    ASSUME Hasty = FALSE, ShellsInv, NEW i \in DOMAIN session.slots, PromoteSlot(i)
    PROVE  ShellsInv'
<1>1. /\ User /\ session' = swapTerminalSlots(session, i, 1)
      /\ terms' = terms /\ flows' = flows /\ seen' = seen /\ ensured' = ensured
  BY DEF PromoteSlot, Dispatch
<1>2. \A f \in flows : f.kind # "slot"  BY <1>1, WaitsAre DEF User
<1>4. 1 \in DOMAIN session.slots  BY ShownAreTerms DEF PanesAreSound, ShellsInv
<1>5. /\ PanesAreSound(session') /\ session'.procs = session.procs
      /\ Shown(session') = Shown(session)  BY <1>1, <1>4, SwappedIs DEF ShellsInv
<1>6. Cardinality(Shown(session')) + Cardinality(Adds(flows)) <= 6  BY <1>5, RoomIs
<1> QED  BY <1>1, <1>2, <1>5, <1>6, MovedIs

\* A pane gets the focus.
LEMMA SelectProcessStep ==
    ASSUME Hasty = FALSE, ShellsInv, NEW p \in Procs, SelectProcess(p)
    PROVE  ShellsInv' /\ OrderIsKept(session, session')
<1>4. /\ PanesAreSound(session') /\ session'.procs = session.procs
      /\ Shown(session') = Shown(session) /\ session'.slots = session.slots
  BY SelectedIs DEF SelectProcess, Dispatch, ShellsInv, Procs
<1>5. Cardinality(Shown(session')) + Cardinality(Adds(flows)) <= 6  BY <1>4, RoomIs
<1>6. ShellsInv'  BY WaitsAre, <1>4, <1>5, MovedIs DEF SelectProcess, Dispatch, User
<1> QED  BY <1>4, <1>6 DEF OrderIsKept

\* A floating shell takes a pane.
LEMMA PinFloatingShellStep ==
    ASSUME Hasty = FALSE, ShellsInv, NEW p \in Procs, PinFloatingShell(p)
    PROVE  ShellsInv' /\ OrderIsKept(session, session')
<1>1. /\ User /\ Len(Running(session.slots)) < 6 /\ Room
      /\ session' = pinFloatingShellToSlot(session, p)
      /\ terms' = terms /\ flows' = flows /\ seen' = seen /\ ensured' = ensured
  BY DEF PinFloatingShell, Dispatch
<1> DEFINE a == Cardinality(Adds(flows)) c == Cardinality(Shown(session)) d == Cardinality(Shown(session'))
<1>4. a \in Nat /\ c \in Nat /\ c + a < 6  BY <1>1, WaitsAre, RoomIs
<1>5. CASE p \in Tray(session)
  <2>1. /\ PanesAreSound(session') /\ session'.procs = session.procs
        /\ Shown(session') = Shown(session) \cup {p} /\ OrderIsKept(session, session')
    BY <1>1, <1>5, PinnedIs DEF ShellsInv
  <2>2. d + a <= 6
    <3>1. p \notin Shown(session) /\ IsFiniteSet(Shown(session))
      BY <1>5, ShownAreCounted DEF PanesAreSound, ShellsInv
    <3>2. d = c + 1  BY <2>1, <3>1, FS_AddElement
    <3> HIDE DEF a, c, d
    <3> QED  BY <1>4, <3>2
  <2> QED  BY <2>1, <1>1, WaitsAre, <2>2, MovedIs DEF User
<1>6. CASE p \notin Tray(session)
  <2>1. session' = session  BY <1>1, <1>6 DEF pinFloatingShellToSlot, Held, Tray
  <2>2. d + a <= 6
    <3>1. d = c  BY <2>1
    <3> HIDE DEF a, c, d
    <3> QED  BY <1>4, <3>1
  <2>3. ShellsInv'  BY <1>1, WaitsAre, <2>1, <2>2, MovedIs DEF User, ShellsInv
  <2> QED  BY <2>1, <2>3 DEF OrderIsKept
<1> QED  BY <1>5, <1>6

-----------------------------------------------------------------------------
(* Where it starts.                                                         *)

\* The layout of the saved worktree.
LEMMA Three == "3-v" \in LAYOUT_IDS /\ SlotCount("3-v") = 3
<1> DEFINE C == {Row(3), Turned(Row(3)), Master(3), Turned(Master(3))}
           V == Laids(3, IdsOf(3), C)
           a == Family("3-v", "3-h", 3, "equal", Row(3))
           b == Family("3-vm", "3-hm", 3, "master", Master(3))
           d == Laid("3-v", 3, "vertical", "equal", Row(3))
<1>1. WithSlots(3) = a \o b  BY DEF WithSlots, UpToFour
<1>2. {"3-v", "3-h", "3-vm", "3-hm"} \subseteq IdsOf(3)  BY DEF IdsOf
<1>3. Row(3) \in C /\ Turned(Row(3)) \in C /\ Master(3) \in C /\ Turned(Master(3)) \in C  OBVIOUS
<1> HIDE DEF C
<1>4. a \in Seq(V) /\ b \in Seq(V)
  <2>1. a \in Seq(V)  BY <1>2, <1>3, FamilyIs DEF Shapes
  <2>2. b \in Seq(V)  BY <1>2, <1>3, FamilyIs DEF Shapes
  <2> QED  BY <2>1, <2>2
<1>5. Len(a) >= 2
  <2>1. Equals(a)  BY <1>2, <1>3, FamilyIs DEF Shapes
  <2> QED  BY <2>1 DEF Equals
<1>6. a[1] = d /\ d.id = "3-v"  BY DEF Family, Laid
<1> HIDE DEF a, b, V, d
<1>7. (a \o b)[1] = d /\ 1 \in DOMAIN (a \o b)  BY <1>6, <1>4, <1>5, Joined
<1> QED  BY <1>6, <1>1, <1>7, CatalogIs DEF Range

\* A worktree without shells.
LEMMA EmptySessionIsSound == PanesAreSound(createSession)
<1> DEFINE s == createSession
<1>1. /\ s.layout = "1" /\ s.slots = <<None>> /\ s.active = None
      /\ s.floating = <<>> /\ s.procs = <<>>
  BY DEF createSession
<1>2. s.slots \in Places /\ Len(s.slots) = 1 /\ s.slots[1] = None /\ DOMAIN s.slots = {1}
  BY <1>1 DEF Places
<1>3. s.procs \in UNION {[P -> Bonds] : P \in SUBSET Terms} /\ DOMAIN s.procs = {}
  <2>1. <<>> \in [{} -> Bonds]  OBVIOUS
  <2> QED  BY <1>1, <2>1
<1>4. s.floating \in Seq(Terms) /\ Len(s.floating) = 0 /\ DOMAIN s.floating = {}  BY <1>1
<1>5. s \in ShellSessions
  <2>1. s = [layout |-> "1", slots |-> <<None>>, active |-> None,
             floating |-> <<>>, procs |-> <<>>]  BY DEF createSession
  <2> HIDE DEF s
  <2>3. s = [layout |-> s.layout, slots |-> s.slots, active |-> s.active,
             floating |-> s.floating, procs |-> s.procs]  BY <1>1, <2>1
  <2>4. s.layout \in LAYOUT_IDS /\ s.active \in Terms \cup {None}  BY <1>1, One
  <2> QED  BY <1>2, <1>3, <1>4, <2>3, <2>4 DEF ShellSessions
<1> HIDE DEF s
<1>6. GridIsSound(s.layout, s.slots)  BY <1>1, <1>2, One DEF GridIsSound, Once
<1>7. Range(s.slots) = {None} /\ Tray(s) = {} /\ Once(s.floating)
  BY <1>2, <1>4 DEF Range, Tray, Once
<1>8. Len(s.floating) <= MaxFloating  BY <1>4, ShellsAssumption
<1> QED  BY <1>1, <1>3, <1>5, <1>6, <1>7, <1>8 DEF PanesAreSound, Shown, s

\* A worktree that was saved with two.
LEMMA SavedSessionIsSound ==
    ASSUME NEW snap \in Saved
    PROVE  LET s == restorePersistedSession(snap, FALSE) IN
           /\ snap.slots = <<1, None, 2>>
           /\ PanesAreSound(s)
           /\ DOMAIN s.procs = {1, 2}
           /\ \A p \in {1, 2} : s.procs[p] = [term |-> None, status |-> "restarting"]
           /\ Running(snap.slots) \in Seq(Terms) /\ Once(Running(snap.slots))
           /\ Range(Running(snap.slots)) = {1, 2}
<1> DEFINE slots == <<1, None, 2>>
           procs == [p \in {1, 2} |-> [term |-> None, status |-> "restarting"]]
           s == restorePersistedSession(snap, FALSE)
<1>1. snap.layout = "3-v" /\ snap.slots = slots /\ snap.active = 2  BY DEF Saved
<1>2. 1 \in Terms /\ 2 \in Terms  BY ShellsAssumption DEF Terms
<1>3. None # 1 /\ None # 2  BY ShellsAssumption
<1>4. /\ slots \in Places /\ Len(slots) = 3 /\ DOMAIN slots = 1..3
      /\ slots[1] = 1 /\ slots[2] = None /\ slots[3] = 2
  BY <1>2 DEF Places
<1> HIDE DEF slots
<1>5. Range(slots) = {1, None, 2}  BY <1>4 DEF Range
<1>7. Once(slots)  BY <1>3, <1>4 DEF Once
<1>8. Running(slots) \in Seq(Terms) /\ Range(Running(slots)) = {1, 2}  BY <1>4, <1>3, <1>5, RunningIs DEF Places
<1>9. Once(Running(slots))  BY <1>4, <1>7, RunningKeepsOrder DEF Places
<1>10. /\ s.layout = "3-v" /\ s.slots = slots /\ s.active = 2
       /\ s.floating = <<>> /\ s.procs = procs
       /\ s = [layout |-> s.layout, slots |-> s.slots, active |-> s.active,
               floating |-> s.floating, procs |-> s.procs]
  <2> DEFINE front == IF 2 \in {1, 2} THEN 2 ELSE FirstOf(slots)
             c == createSession
             n == [c EXCEPT !.layout = "3-v", !.slots = slots, !.active = front, !.procs = procs]
             R(L, S, A, P) == [layout : L, slots : S, active : A, floating : {<<>>}, procs : P]
  <2>1. s = n
    <3> HIDE DEF procs
    <3> QED  BY <1>1, <1>3, <1>5 DEF restorePersistedSession, procs
  <2>2. front = 2  OBVIOUS
  <2>3. c \in R({"1"}, {<<None>>}, {None}, {<<>>})  BY DEF createSession
  <2> HIDE DEF procs, s, front, c
  <2>4. n \in R({"3-v"}, {slots}, {front}, {procs})  BY <2>3
  <2> HIDE DEF n
  <2>5. /\ n.layout = "3-v" /\ n.slots = slots /\ n.active = front /\ n.floating = <<>> /\ n.procs = procs
        /\ n = [layout |-> n.layout, slots |-> n.slots, active |-> n.active,
                floating |-> n.floating, procs |-> n.procs]
    BY <2>4
  <2> QED  BY <2>1, <2>2, <2>5
<1>11. procs \in UNION {[P -> Bonds] : P \in SUBSET Terms} /\ DOMAIN procs = {1, 2}
  <2>2. procs \in [{1, 2} -> Bonds]  BY DEF Bonds, Statuses
  <2> QED  BY <2>2, <1>2
<1>12. <<>> \in Seq(Terms) /\ Len(<<>>) = 0  OBVIOUS
<1>13. DOMAIN s.procs = {1, 2} /\ \A p \in {1, 2} : s.procs[p] = [term |-> None, status |-> "restarting"]
  BY <1>10
<1> HIDE DEF procs, s
<1>14. s \in ShellSessions
  BY <1>2, <1>4, <1>10, <1>11, <1>12, Three DEF ShellSessions
<1>16. Tray(s) = {} /\ Once(s.floating) /\ Len(s.floating) <= MaxFloating
  BY <1>10, ShellsAssumption DEF Tray, Once, Range
<1>17. Shown(s) = {1, 2} /\ s.active \in Range(s.slots) /\ s.active # None  BY <1>3, <1>5, <1>10 DEF Shown
<1>18. PanesAreSound(s)  BY <1>13, <1>14, <1>4, <1>7, <1>10, Three, <1>16, <1>17 DEF PanesAreSound, GridIsSound
<1> QED  BY <1>1, <1>13, <1>18, <1>8, <1>9 DEF s, slots

\* No shell is on its way at the start.
LEMMA NothingIsShown ==
    ASSUME NEW fl, fl = {} \/ \E f : fl = {f} /\ f.kind = "recreate"
    PROVE  IsFiniteSet(fl) /\ Cardinality(Adds(fl)) = 0
<1>1. IsFiniteSet(fl)  BY FS_EmptySet, FS_Singleton
<1> QED  BY <1>1, FS_EmptySet DEF Adds

\* The invariant holds at the start.
LEMMA ShellsStart ==
    ASSUME Hasty = FALSE, ShellsInit
    PROVE  ShellsInv
<1>2. ASSUME PanesAreSound(session) PROVE Procs \in SUBSET Terms /\ DOMAIN seen \subseteq Terms
  BY <1>2, ProcsAreTerms DEF Bindings, Procs, ShellsInit
<1>3. ASSUME PanesAreSound(session), flows = {} \/ \E f : flows = {f} /\ f.kind = "recreate"
      PROVE  RoomIsKept
  <2> DEFINE c == Cardinality(Shown(session))
  <2>2. /\ SlotCount(session.layout) \in 1..6
        /\ Len(Running(session.slots)) <= SlotCount(session.layout)
        /\ Len(Running(session.slots)) = c /\ c \in Nat
    BY <1>3, SlotsAreFew, ShownAreCounted
  <2>3. c <= 6
    <3> HIDE DEF c
    <3> QED  BY <2>2
  <2>4. c + 0 <= 6
    <3> HIDE DEF c
    <3> QED  BY <2>2, <2>3
  <2> QED  BY <1>3, NothingIsShown, <2>4 DEF RoomIsKept
<1>4. CASE /\ session = createSession /\ terms = [t \in Terms |-> "unborn"] /\ flows = {}
  <2>1. PanesAreSound(session)  BY <1>4, EmptySessionIsSound
  <2>3. ProcsAreBegun /\ EndedIsOver  BY <1>4 DEF ProcsAreBegun, EndedIsOver, Procs, createSession
  <2>4. EveryTerminalIsReachable  BY <1>4 DEF EveryTerminalIsReachable
  <2>5. FlowsAreSound /\ FlowsAreApart  BY <1>4 DEF FlowsAreSound, FlowsAreApart
  <2>6. ShellsTyped  BY <1>2, <1>4, <2>1 DEF ShellsTyped, TermStates, ShellsInit
  <2>7. RoomIsKept  BY <1>3, <1>4, <2>1
  <2> QED  BY <2>1, <2>3, <2>4, <2>5, <2>6, <2>7 DEF ShellsInv
<1>5. ASSUME NEW snap \in Saved, NEW alive \in SUBSET Range(Running(snap.slots)),
             session = restorePersistedSession(snap, FALSE),
             terms = [t \in Terms |-> IF t \in alive THEN "live"
                                      ELSE IF t \in Range(Running(snap.slots)) THEN "gone"
                                      ELSE "unborn"],
             flows = {Asked("recreate", None, None, Running(snap.slots))}
      PROVE  ShellsInv
  <2> DEFINE ids == Running(snap.slots)
             f == Asked("recreate", None, None, ids)
  <2>1. /\ PanesAreSound(session) /\ Procs = {1, 2}
        /\ \A p \in {1, 2} : session.procs[p] = [term |-> None, status |-> "restarting"]
        /\ ids \in Seq(Terms) /\ Once(ids) /\ Range(ids) = {1, 2}
    BY <1>5, SavedSessionIsSound DEF Procs
  <2>2. f.kind = "recreate" /\ f.proc = None /\ f.term = None /\ f.aim = ids
        /\ f = Asked(f.kind, f.proc, f.term, f.aim)
    BY DEF Asked
  <2>3. flows = {f} /\ Range(ids) = {1, 2} /\ alive \in SUBSET {1, 2}  BY <1>5, <2>1
  <2>5. /\ terms \in [Terms -> TermStates] /\ \A p \in {1, 2} : terms[p] \in Begun
        /\ \A t \in Terms : terms[t] = "live" => t \in {1, 2}  BY <1>5, <2>1, <2>3, <1>2 DEF TermStates, Begun
  <2> HIDE DEF f, ids
  <2>7. ProcsAreBegun /\ EndedIsOver  BY <2>1, <2>5 DEF ProcsAreBegun, EndedIsOver, TermOf
  <2>8. EveryTerminalIsReachable  BY <2>2, <2>3, <2>5 DEF EveryTerminalIsReachable
  <2>9. FlowsAreSound  BY <2>2, <2>3, <2>1 DEF FlowsAreSound, FlowIsSound, ComingBack, TermOf
  <2>10. FlowsAreApart  BY <2>2, <2>3 DEF FlowsAreApart
  <2>11. ShellsTyped  BY <1>2, <2>1, <2>5 DEF ShellsTyped, ShellsInit
  <2>12. RoomIsKept  BY <1>3, <2>1, <2>2, <2>3
  <2> QED  BY <2>1, <2>7, <2>8, <2>9, <2>10, <2>11, <2>12 DEF ShellsInv
<1> QED  BY <1>4, <1>5 DEF ShellsInit

\* Every step keeps the invariant, and all but one the order of the panes.
LEMMA ShellsStep ==
    ASSUME Hasty = FALSE, ShellsInv, [ShellsNext]_svars
    PROVE  /\ ShellsInv'
           /\ \/ \E i \in DOMAIN session.slots : PromoteSlot(i)
              \/ OrderIsKept(session, session')
<1>1. ASSUME session' = session PROVE OrderIsKept(session, session')  BY <1>1 DEF OrderIsKept
<1>2. CASE UNCHANGED svars
  <2>3. ShellsInv'  BY <1>2, NothingEnds, QuietIs DEF svars, ShellsInv, ShellsTyped
  <2> QED  BY <1>1, <1>2, <2>3 DEF svars
<1>3. CASE AddShell  BY <1>1, <1>3, AddShellStep DEF AddShell
<1>4. CASE AddFloatingShell  BY <1>1, <1>4, AddFloatingShellStep DEF AddFloatingShell
<1>5. CASE DefaultShell  BY <1>1, <1>5, DefaultShellStep DEF DefaultShell
<1>6. CASE Render  BY <1>1, <1>6, RenderStep DEF Render
<1>7. ASSUME NEW i \in DOMAIN session.slots, StartShellInSlot(i) PROVE ShellsInv' /\ OrderIsKept(session, session')
  BY <1>1, <1>7, StartShellInSlotStep DEF StartShellInSlot
<1>8. ASSUME NEW i \in DOMAIN session.slots, PromoteSlot(i) PROVE ShellsInv'
  BY <1>8, PromoteSlotStep
<1>9. ASSUME NEW f \in flows, Answer(f) PROVE ShellsInv' /\ OrderIsKept(session, session')
  <2>1. CASE Created(f)  BY <2>1, CreatedStep
  <2>2. CASE Stopped(f)  BY <2>2, StoppedStep
  <2>3. CASE Restarted(f)  BY <2>3, RestartedStep
  <2>4. CASE Recreate(f)  BY <2>4, RecreateStep
  <2>5. CASE Recreated(f)  BY <2>5, RecreatedStep
  <2>6. CASE AllRecreated(f)  BY <1>1, <2>6, AllRecreatedStep DEF AllRecreated
  <2> QED  BY <1>9, <2>1, <2>2, <2>3, <2>4, <2>5, <2>6 DEF Answer
<1>10. ASSUME NEW f \in flows, NotCreated(f) PROVE ShellsInv' /\ OrderIsKept(session, session')
  BY <1>1, <1>10, NotCreatedStep DEF NotCreated
<1>11. ASSUME NEW p \in Procs, NEW kind \in {"close", "closeFloat"}, CloseShell(p, kind)
       PROVE  ShellsInv' /\ OrderIsKept(session, session')
  BY <1>11, CloseShellStep
<1>12. ASSUME NEW p \in Procs, StopShell(p) PROVE ShellsInv' /\ OrderIsKept(session, session')
  BY <1>1, <1>12, StopShellStep DEF StopShell
<1>13. ASSUME NEW p \in Procs, RestartShell(p) PROVE ShellsInv' /\ OrderIsKept(session, session')
  BY <1>1, <1>13, RestartShellStep DEF RestartShell
<1>14. ASSUME NEW p \in Procs, PinFloatingShell(p) PROVE ShellsInv' /\ OrderIsKept(session, session')
  BY <1>14, PinFloatingShellStep
<1>15. ASSUME NEW p \in Procs, SelectProcess(p) PROVE ShellsInv' /\ OrderIsKept(session, session')
  BY <1>15, SelectProcessStep
<1>16. ASSUME NEW name \in Picks, PickLayout(name) PROVE ShellsInv' /\ OrderIsKept(session, session')
  BY <1>16, PickLayoutStep
<1>17. ASSUME NEW t \in Terms, TerminalEnds(t) PROVE ShellsInv' /\ OrderIsKept(session, session')
  BY <1>17, TerminalEndsStep
<1> QED
  BY <1>2, <1>3, <1>4, <1>5, <1>6, <1>7, <1>8, <1>9, <1>10, <1>11, <1>12, <1>13, <1>14, <1>15,
     <1>16, <1>17 DEF ShellsNext, Procs

-----------------------------------------------------------------------------
(* What the invariant is for.                                               *)

\* A sequence that names nothing twice is as long as the set it names.
LEMMA OnceCounts ==
    ASSUME NEW r \in Seq(Terms), Once(r)
    PROVE  Cardinality(Range(r)) = Len(r) /\ IsFiniteSet(Range(r))
<1>1. r \in [1..Len(r) -> Terms] /\ Len(r) \in Nat /\ DOMAIN r = 1..Len(r)  OBVIOUS
<1> DEFINE l == Len(r) D == 1..l R == Range(r)
<1>2. \A v : v \in R <=> \E k \in D : r[k] = v  BY <1>1 DEF Range
<1>4. IsFiniteSet(D) /\ Cardinality(D) = l
  <2>1. l \in Int /\ 1 \in Int /\ (1 > l => l = 0)  BY <1>1
  <2> QED  BY <1>1, <2>1, FS_Interval
<1>5. ExistsBijection(D, R)
  <2>1. r \in [D -> R]  BY <1>1, <1>2
  <2> HIDE DEF D, R
  <2>2. r \in Bijection(D, R)
    BY <1>2, <1>1, NoneIsNoTerm, <2>1 DEF Bijection, Injection, Surjection, IsInjective, Once
  <2> QED  BY <2>2 DEF ExistsBijection
<1> HIDE DEF D, R, l
<1> QED  BY <1>4, <1>5, FS_Bijection DEF R, l

\* The invariant is what was promised, and more.
LEMMA ShellsAreSafe ==
    ASSUME ShellsInv
    PROVE  ShellsTypeOK /\ ShellsAreReachable
<1>1. PanesAreSound(session) /\ ShellsTyped /\ EndedIsOver /\ EveryTerminalIsReachable  BY DEF ShellsInv
<1>4. Range(session.slots) \subseteq Terms \cup {None}  BY <1>1, ShownAreTerms DEF Shown, PanesAreSound
<1>5. ShellsTypeOK
  BY <1>1, ProcsAreTerms, <1>4 DEF ShellsTypeOK, ShellsTyped, TermStates, GridIsSound, PanesAreSound, TermOf,
     Statuses
<1>6. Len(Running(session.slots)) + Len(session.floating) = Cardinality(Procs)
  <2> DEFINE A == Shown(session) B == Tray(session)
  <2>1. Len(Running(session.slots)) = Cardinality(A) /\ IsFiniteSet(A)  BY <1>1, ShownAreCounted
  <2>2. Len(session.floating) = Cardinality(B) /\ IsFiniteSet(B)
    BY <1>1, OnceCounts DEF PanesAreSound, Tray, ShellSessions
  <2>3. A \cap B = {} /\ Procs = A \cup B  BY <1>1, ProcsAreTerms DEF PanesAreSound, TermOf, Statuses
  <2> HIDE DEF A, B
  <2>5. Cardinality(Procs) = Cardinality(A) + Cardinality(B) - Cardinality(A \cap B)
    BY <2>1, <2>2, <2>3, FS_Union
  <2>7. Cardinality(Procs) = Cardinality(A) + Cardinality(B)
    <3> DEFINE a == Cardinality(A) b == Cardinality(B) n == Cardinality(Procs) z == Cardinality(A \cap B)
    <3>1. n = a + b - z /\ z = 0 /\ a \in Nat /\ b \in Nat
      BY <2>1, <2>2, FS_CardinalityType, <2>5, <2>3, FS_EmptySet
    <3> HIDE DEF a, b, n, z
    <3> QED  BY <3>1 DEF a, b, n
  <2> QED  BY <2>1, <2>2, <2>7
<1> QED
  BY <1>1, <1>5, ProcsAreTerms, <1>6 DEF ShellsAreReachable, EveryShellHasAPane, PanesAreSound, Shown, Tray,
     TermOf, Statuses

-----------------------------------------------------------------------------
(* The renderer.  A step of one part leaves the others alone.              *)

\* The shells, whatever part is at work.
LEMMA ShellsHold ==
    Hasty = FALSE => (Spec => []ShellsInv)
<1> SUFFICES ASSUME Hasty = FALSE PROVE Spec => []ShellsInv  OBVIOUS
<1>1. Init => ShellsInv  BY ShellsStart DEF Init
<1>2. ShellsInv /\ [Next]_vars => ShellsInv'  BY ShellsStep DEF Next, vars, svars
<1> QED  BY <1>1, <1>2, PTL DEF Spec

\* Theorem: for any number of terminals, places in the tray and handlers in flight, and in
\* whatever order calls are answered or fail, terminals end and renders come, every shell has
\* one pane or one place in the tray, none is shown as ended while it runs, and every terminal
\* that runs can be reached; as long as a click leaves alone the shell that another click is at
\* work on, and leaves a pane for each shell on its way (use-process-actions.ts,
\* use-terminal-runtime.ts, workspace-state.ts).
THEOREM ShellsCorrect ==
    Hasty = FALSE => (Spec => []ShellsAreReachable)
<1> SUFFICES ASSUME Hasty = FALSE PROVE Spec => []ShellsAreReachable  OBVIOUS
<1>1. ShellsInv => ShellsAreReachable  BY ShellsAreSafe
<1> QED  BY <1>1, ShellsHold, PTL

\* The order of the panes, whatever part is at work.
LEMMA OrderHolds ==
    Hasty = FALSE => (Spec => PanesKeepOrder)
<1> SUFFICES ASSUME Hasty = FALSE PROVE Spec => PanesKeepOrder  OBVIOUS
<1> DEFINE Kept == \/ \E i \in DOMAIN session.slots : PromoteSlot(i)
                   \/ LET stay == (Range(session.slots) \cap Range(session'.slots)) \ {None}
                      IN  \A p, q \in stay : Before(session.slots, p, q) => Before(session'.slots, p, q)
<1>1. ShellsInv /\ [Next]_vars => [Kept]_svars
  <2> SUFFICES ASSUME ShellsInv, [Next]_vars PROVE [Kept]_svars  OBVIOUS
  <2>4. Shown(session') \subseteq Terms
    BY ShellsStep, ShownAreTerms DEF ShellsInv, PanesAreSound, Next, vars, svars
  <2>5. ASSUME OrderIsKept(session, session') PROVE Kept  BY <2>4, <2>5 DEF OrderIsKept, Shown
  <2> QED  BY ShellsStep, <2>5 DEF Next, vars, svars
<1>2. Spec => []ShellsInv  BY ShellsHold
<1> QED  BY <1>1, <1>2, PTL DEF Spec, PanesKeepOrder

\* Theorem: whatever the terminals print, the agents report, and the user views, restarts
\* and closes, the dot of a worktree is the strongest attention of the shells in its panes,
\* and its heuristics stay muted only for an agent that runs (or after a restart whose exit
\* was dropped): recordProcessOutput, reportProcessAgentAttention and their like.
THEOREM AttentionCorrect == Spec => []DotIsHonest
<1>1. Init => AttentionInv  BY AttentionStart DEF Init
<1>2. AttentionInv /\ [Next]_vars => AttentionInv'  BY AttentionStep DEF Next, vars, avars
<1>3. AttentionInv => DotIsHonest  BY DEF AttentionInv, DotIsHonest
<1> QED  BY <1>1, <1>2, <1>3, PTL DEF Spec

\* Theorem: for any number of worktrees, and clicks as fast as they come, a collab is never
\* given more agents than its two places, as long as the user stays with the worktree while a
\* mount settles and a mount settles before the timers (decideLaunch, advanceMountPending).
THEOREM LaunchCorrect ==
    Roams = FALSE /\ Slow = FALSE => (Spec => [](LaunchTypeOK /\ NeverOverbooked))
<1> SUFFICES ASSUME Roams = FALSE, Slow = FALSE
             PROVE  Spec => [](LaunchTypeOK /\ NeverOverbooked)
  OBVIOUS
<1>1. Init => LaunchInv  BY LaunchStart DEF Init
<1>2. LaunchInv /\ [Next]_vars => LaunchInv'  BY LaunchStep DEF Next, vars, launchVars
<1>3. LaunchInv => LaunchTypeOK /\ NeverOverbooked  BY LaunchIsSafe
<1> QED  BY <1>1, <1>2, <1>3, PTL DEF Spec

LEMMA WorkspacesHold ==
    Overlap = FALSE /\ Stale = FALSE => (Spec => []WorkspacesInv)
<1> SUFFICES ASSUME Overlap = FALSE, Stale = FALSE PROVE Spec => []WorkspacesInv  OBVIOUS
<1>1. Init => WorkspacesInv  BY LifecycleStart DEF Init
<1>2. WorkspacesInv /\ [Next]_vars => WorkspacesInv'  BY LifecycleStep DEF Next, vars, lvars
<1> QED  BY <1>1, <1>2, PTL DEF Spec

\* Theorem: for any list of workspaces, whatever order they are hydrated, activated, visited,
\* refreshed and removed in, and whichever of that fails, the next write holds every saved
\* session, as long as a click waits for the last one's answer and no event of an inactive
\* workspace finds an old shadow (buildSavedWorkspace, mergePendingIntoSaved).
THEOREM WorkspacesCorrect ==
    Overlap = FALSE /\ Stale = FALSE => (Spec => [](LifecycleTypeOK /\ NothingSavedIsLost))
<1> SUFFICES ASSUME Overlap = FALSE, Stale = FALSE
             PROVE  Spec => [](LifecycleTypeOK /\ NothingSavedIsLost)
  OBVIOUS
<1> QED  BY WorkspacesHold, WorkspacesAreSafe, PTL

\* Theorem: under the same clicks, a workspace that is live stays live until it is removed; a
\* hydration that comes or fails late never downgrades it (hydrateWorkspace).
THEOREM WorkspacesStayLive ==
    Overlap = FALSE /\ Stale = FALSE => (Spec => NeverDowngraded)
<1> SUFFICES ASSUME Overlap = FALSE, Stale = FALSE PROVE Spec => NeverDowngraded  OBVIOUS
<1> DEFINE Kept == \A w \in Workspaces : Live(w) => reg'[w].live # Nobody \/ ~reg'[w].known
<1>1. WorkspacesInv /\ WorkspacesInv' /\ [Next]_vars => [Kept]_lvars  BY StaysLive DEF Next, vars, lvars
<1>2. Spec => []WorkspacesInv  BY WorkspacesHold
<1> QED  BY <1>1, <1>2, PTL DEF Spec, NeverDowngraded

\* Theorem: under the same clicks, no step moves a shell past another one but the promotion to
\* the first pane: adding, closing, pinning and refitting keep the panes' order
\* (compactIntoLayout); and no live workspace is downgraded.
THEOREM StepsCorrect ==
    Hasty = FALSE /\ Overlap = FALSE /\ Stale = FALSE => (Spec => StepsUndoNothing)
<1> SUFFICES ASSUME Hasty = FALSE, Overlap = FALSE, Stale = FALSE PROVE Spec => StepsUndoNothing  OBVIOUS
<1> QED  BY OrderHolds, WorkspacesStayLive DEF StepsUndoNothing

\* Theorem: every variable of the renderer keeps to what the code can put there: no slot beyond
\* the layout, no process without a terminal of its own, no window of a mount without its
\* baseline, no workspace outside the list.
THEOREM TypeCorrect ==
    Hasty = FALSE /\ Roams = FALSE /\ Slow = FALSE /\ Overlap = FALSE /\ Stale = FALSE
        => (Spec => []TypeOK)
<1> SUFFICES ASSUME Hasty = FALSE, Roams = FALSE, Slow = FALSE, Overlap = FALSE, Stale = FALSE
             PROVE  Spec => []TypeOK
  OBVIOUS
<1> DEFINE PartOK == part \in {"shells", "attention", "launch", "workspaces"}
<1>1. Spec => []ShellsInv  BY ShellsHold
<1>2. Spec => []WorkspacesInv  BY WorkspacesHold
<1>3. Spec => [](LaunchTypeOK /\ NeverOverbooked)  BY LaunchCorrect
<1>4. Init => AttentionInv /\ PartOK  BY AttentionStart DEF Init
<1>5. AttentionInv /\ PartOK /\ [Next]_vars => AttentionInv' /\ PartOK'  BY AttentionStep DEF Next, vars, avars
<1>7. ShellsInv /\ WorkspacesInv /\ LaunchTypeOK /\ AttentionInv /\ PartOK => TypeOK
  BY ShellsAreSafe, WorkspacesAreSafe DEF TypeOK, AttentionInv, AttentionTypeOK, Panes, Sessions
<1> QED  BY <1>1, <1>2, <1>3, <1>4, <1>5, <1>7, PTL DEF Spec
=============================================================================
