---------------------------- MODULE WorkbenchProofs ----------------------------
(***************************************************************************)
(* Proofs about Workbench: making and removing worktrees (Worktrees), what *)
(* a pane shows of its terminal (TerminalPanes), what the review panel     *)
(* reads of git (ReviewFlow) and where it shows remarks (ReviewScreen),    *)
(* for any names and bounds, whatever others do with git and however often *)
(* a phone watches.                                                        *)
(*                                                                         *)
(* The branches and the calls that are under way have one inductive        *)
(* invariant with the dialogs, the sessions another that rests on it.  The *)
(* watch of a terminal and its output have one each, about the events on   *)
(* the wire to the window.  The reads of the review panel rest on one      *)
(* invariant about the loads that are under way, its editors, threads and  *)
(* portal on another about what is registered.  The last section puts      *)
(* them together for the program, whose every step moves one part.         *)
(***************************************************************************)
EXTENDS Workbench, SequenceTheorems, FiniteSetTheorems, TLAPS

-----------------------------------------------------------------------------
(* Worktrees.                                                              *)

Branches == {"none", "fresh", "left", "used", "theirs"}
Sessions == [known : BOOLEAN, recorded : BOOLEAN, running : BOOLEAN]
Creators == [open : BOOLEAN, name : Names \cup {NoName}, base : BOOLEAN, timer : BOOLEAN,
             asked : Requests \cup {NoName}, loading : BOOLEAN,
             preview : Requests \cup {NoName}, busy : BOOLEAN]
Removers == [open : BOOLEAN, target : Names \cup {NoName}, asked : BOOLEAN,
             preview : Names \cup {NoName}, busy : BOOLEAN]

\* A branch that has been made is still its creation's to undo, and nobody else's.
GitInv ==
    /\ git \in [Names -> [branch : Branches, tree : BOOLEAN]]
    /\ creating \in Creations \cup {NoName}
    /\ \A n \in Names : git[n].branch \in {"none", "fresh"} => git[n].tree = FALSE
    /\ \A n \in Names : git[n].branch = "fresh" =>
          creating # NoName /\ creating.name = n /\ creating.made = TRUE /\ creating.step \in {"add", "undo"}
    /\ Creating("undo") => creating.made = TRUE
    /\ Creating("add") \/ Creating("undo") =>
          (creating.made = TRUE => git[creating.name].branch # "theirs")

\* The dialogs show nothing when they are closed, what is looked up is what they ask about
\* now, and one call of each is under way at most.
DialogInv ==
    /\ creator \in Creators /\ remover \in Removers
    /\ creator.open = FALSE => creator.timer = FALSE /\ creator.asked = NoName /\ creator.preview = NoName
    /\ creator.asked # NoName => creator.asked = [name |-> creator.name, base |-> creator.base]
    /\ (creator.timer = FALSE /\ creator.asked = NoName /\ creator.preview # NoName) =>
          creator.preview = [name |-> creator.name, base |-> creator.base]
    /\ remover.open = FALSE => remover.asked = FALSE /\ remover.preview = NoName
    /\ remover.preview \in {NoName, remover.target}
    /\ creating # NoName => creator.busy = TRUE
    /\ removing # NoName => remover.busy = TRUE
    /\ removing \in Removals \cup {NoName}

TreeInv == GitInv /\ DialogInv

\* The terminals of a worktree are closed before it is removed.
SessionsInv ==
    /\ sessionOf \in [Names -> Sessions]
    /\ \A n \in Names : sessionOf[n].running = TRUE => sessionOf[n].known = TRUE /\ sessionOf[n].recorded = TRUE
    /\ (Removing("tree") \/ Removing("branch")) => sessionOf[removing.name].running = FALSE

LEMMA NamesAre ==
  /\ \A n \in Names : n # NoName
  /\ \A c \in Creations : c # NoName
  /\ \A r \in Removals : r # NoName
  /\ \A q \in Requests : q # NoName
  BY NameAssumption

LEMMA TreesInitIs == TreesInit => TreeInv /\ SessionsInv
<1> SUFFICES ASSUME TreesInit PROVE TreeInv /\ SessionsInv
  OBVIOUS
<1> QED
  BY DEF TreeInv, TreesInit, GitInv, Branches, Creating, DialogInv, NoDialog, NoRemoval, Creators, Removers,
     SessionsInv, NoSession, Sessions, Removing

-----------------------------------------------------------------------------
(* git.                                                                    *)

\* Git as it was, and a creation that is over or where it was.
LEMMA GitStays ==
  ASSUME TreeInv, git' = git, creating' = creating
  PROVE  GitInv'
  BY DEF TreeInv, GitInv, Creating

LEMMA TouchedIs ==
  ASSUME NEW b \in Branches
  PROVE  Touched(b) \in Branches /\ Touched(b) # "fresh" /\ (b = "none" <=> Touched(b) = "none")
         /\ (b = "theirs" <=> Touched(b) = "theirs")
  BY DEF Touched, Branches

\* Others at work in one worktree.
LEMMA OthersStep ==
  ASSUME TreeInv, NEW n \in Names, OthersBranch(n) \/ OthersAdd(n) \/ OthersRemove(n)
  PROVE  GitInv'
<1>0. GitInv /\ creating' = creating
  BY DEF TreeInv, OthersBranch, OthersAdd, OthersRemove
<1>1. CASE OthersBranch(n)  BY <1>0, <1>1 DEF GitInv, Creating, Creations, OthersBranch, Branches
<1>2. CASE OthersAdd(n) \/ OthersRemove(n)
  <2>1. PICK on \in BOOLEAN : git' = [git EXCEPT ![n] = [branch |-> Touched(git[n].branch), tree |-> on]]
    BY <1>2 DEF OthersAdd, OthersRemove
  <2> QED  BY <1>0, <1>2, TouchedIs, <2>1 DEF GitInv, Creating, Creations, OthersAdd, OthersRemove
<1> QED
  BY <1>1, <1>2

\* A creation, from one git command to the next.
LEMMA CreationStep ==
  ASSUME TreeInv, ConfirmCreate \/ CheckCreate \/ MakeBranch \/ AddTree \/ UndoBranch \/ Created
  PROVE  GitInv'
<1>0. GitInv /\ DialogInv
  BY DEF TreeInv
<1>1. CASE ConfirmCreate  BY <1>0, <1>1 DEF GitInv, Creating, ConfirmCreate, DialogInv, Creators, Creations
<1>2. ASSUME creating # NoName
      PROVE  creating \in Creations /\ creating.name \in Names
  BY <1>0, <1>2 DEF GitInv, Creations
<1>3. CASE CheckCreate
  <2>1. git' = git /\ creating # NoName /\ creating.step = "check"
    BY <1>3 DEF Creating, CheckCreate
  <2>2. \A n \in Names : git[n].branch # "fresh"
    BY <1>0, <2>1 DEF GitInv
  <2>3. CASE creating' = NoName  BY <1>0, <2>1, <2>3, <2>2 DEF GitInv, Creating
  <2>4. ASSUME NEW b \in BOOLEAN, creating' = [creating EXCEPT !.made = b, !.step = "branch"]
        PROVE  GitInv'
    <3>1. creating' \in Creations /\ creating'.step = "branch"
      BY <1>2, <2>1, <2>4 DEF Creations
    <3> QED
      BY <1>0, <2>1, <2>2, <3>1 DEF GitInv, Creating
  <2>5. \/ creating' = NoName
        \/ \E b \in BOOLEAN : creating' = [creating EXCEPT !.made = b, !.step = "branch"]
    BY <1>3 DEF CheckCreate, CreateFails
  <2> QED
    BY <2>3, <2>4, <2>5
<1>4. CASE MakeBranch
  <2>2. \A n \in Names : git[n].branch # "fresh"  BY <1>0, <1>4 DEF GitInv, Creating, MakeBranch
  <2>3. creating \in Creations /\ creating.name \in Names  BY <1>2, <1>4 DEF Creating, MakeBranch
  <2>4. CASE creating.made = FALSE /\ creating' = [creating EXCEPT !.step = "add"] /\ git' = git
    BY <1>0, <2>2, <2>4, <2>3 DEF GitInv, Creating, Creations
  <2>5. CASE /\ creating.made = TRUE /\ git[creating.name].branch = "none"
             /\ git' = [git EXCEPT ![creating.name].branch = "fresh"]
             /\ creating' = [creating EXCEPT !.step = "add"]
    <3>1. creating' \in Creations /\ creating'.made = TRUE /\ creating'.step = "add"
          /\ creating'.name = creating.name
      BY <2>3, <2>5 DEF Creations
    <3>2. git' \in [Names -> [branch : Branches, tree : BOOLEAN]]
      BY <1>0, <2>3, <2>5 DEF GitInv, Branches
    <3>3. /\ git'[creating.name].branch = "fresh" /\ git'[creating.name].tree = git[creating.name].tree
          /\ \A k \in Names \ {creating.name} : git'[k] = git[k]
      BY <1>0, <2>3, <2>5 DEF GitInv
    <3> QED
      BY <1>0, <2>2, <2>3, <2>5, <3>1, <3>2, <3>3, NamesAre DEF GitInv, Creating
  <2>6. CASE git' = git /\ creating' = NoName
    BY <1>0, <2>2, <2>6 DEF GitInv, Creating
  <2>7. creating.made \in BOOLEAN
    BY <2>3 DEF Creations
  <2> QED
    BY <1>4, <2>4, <2>5, <2>6, <2>7 DEF MakeBranch, CreateFails
<1>5. CASE AddTree
  <2>1. Creating("add")
    BY <1>5 DEF AddTree
  <2>2. creating \in Creations /\ creating.name \in Names /\ creating.made \in BOOLEAN
    BY <1>2, <2>1 DEF Creating, Creations
  <2>3. CASE /\ git[creating.name].branch # "none"
             /\ git' = [git EXCEPT ![creating.name] = [branch |-> Touched(git[creating.name].branch), tree |-> TRUE]]
             /\ creating' = [creating EXCEPT !.step = "list"]
    <3>1. creating' \in Creations /\ creating'.step = "list"
      BY <2>2, <2>3 DEF Creations
    <3>2. Touched(git[creating.name].branch) \in Branches \ {"fresh", "none"}
      BY <1>0, <2>2, <2>3, TouchedIs DEF GitInv
    <3>3. git' \in [Names -> [branch : Branches, tree : BOOLEAN]]
      BY <1>0, <2>2, <2>3, <3>2 DEF GitInv
    <3>4. /\ git'[creating.name].branch = Touched(git[creating.name].branch)
          /\ \A k \in Names \ {creating.name} : git'[k] = git[k]
      BY <1>0, <2>2, <2>3 DEF GitInv
    <3> QED
      BY <1>0, <2>2, <3>1, <3>2, <3>3, <3>4 DEF GitInv, Creating
  <2>4. CASE creating.made = TRUE /\ creating' = [creating EXCEPT !.step = "undo"] /\ git' = git
    <3>1. creating' \in Creations /\ creating'.step = "undo" /\ creating'.made = TRUE
          /\ creating'.name = creating.name
      BY <2>2, <2>4 DEF Creations
    <3> QED
      BY <1>0, <2>1, <2>2, <2>4, <3>1, NamesAre DEF GitInv, Creating
  <2>5. CASE creating.made = FALSE /\ git' = git /\ creating' = NoName
    BY <1>0, <2>5 DEF GitInv, Creating
  <2> QED
    BY <1>5, <2>2, <2>3, <2>4, <2>5 DEF AddTree, CreateFails
<1>6. CASE UndoBranch
  <2>2. creating \in Creations /\ creating.name \in Names  BY <1>2, <1>6 DEF Creating, UndoBranch
  <2> DEFINE n == creating.name
             kept == IF git[n].branch = "fresh" THEN "left" ELSE git[n].branch
  <2>3. PICK b \in {kept, "none"} : /\ git' = [git EXCEPT ![n].branch = b] /\ creating' = NoName
                                    /\ b = "none" => git[n].tree = FALSE
    BY <1>0, <1>6, <2>2 DEF UndoBranch, CreateFails, GitInv
  <2>4. b \in Branches  BY <1>0, <2>2 DEF Branches, GitInv
  <2>5. b # "fresh" /\ (b = "none" => git[n].tree = FALSE)  BY <2>3
  <2>6. git' \in [Names -> [branch : Branches, tree : BOOLEAN]]
    BY <1>0, <2>2, <2>3, <2>4 DEF GitInv
  <2>7. /\ git'[n].branch = b /\ git'[n].tree = git[n].tree
        /\ \A k \in Names \ {n} : git'[k] = git[k]
    BY <1>0, <2>2, <2>3 DEF GitInv
  <2>8. \A k \in Names : git'[k].branch # "fresh"
    BY <1>0, <2>5, <2>7 DEF GitInv
  <2> QED
    BY <1>0, <2>3, <2>5, <2>6, <2>7, <2>8 DEF GitInv, Creating
<1>7. CASE Created  BY <1>0, <1>7 DEF GitInv, Creating, Created, CreateFails
<1> QED
  BY <1>1, <1>3, <1>4, <1>5, <1>6, <1>7

\* A removal.
LEMMA RemovalStep ==
  ASSUME TreeInv, RemoveTree \/ RemoveBranch
  PROVE  GitInv'
<1>0. GitInv /\ DialogInv /\ creating' = creating
  BY DEF TreeInv, RemoveTree, RemoveBranch
<1>1. removing \in Removals /\ removing.name \in Names
  BY <1>0 DEF RemoveTree, RemoveBranch, Removing, DialogInv, Removals
<1>2. CASE git' = git
  BY <1>0, <1>2, GitStays DEF TreeInv
<1>3. CASE git' = [git EXCEPT ![removing.name].tree = FALSE]
  BY <1>0, <1>1, <1>3 DEF GitInv, Creating, Creations
<1>4. CASE ~git[removing.name].tree /\ git' = [git EXCEPT ![removing.name].branch = "none"]
  <2>1. git' \in [Names -> [branch : Branches, tree : BOOLEAN]]
    BY <1>0, <1>1, <1>4 DEF GitInv, Branches
  <2>2. \A k \in Names : git'[k].tree = git[k].tree
           /\ git'[k].branch = IF k = removing.name THEN "none" ELSE git[k].branch
    BY <1>0, <1>1, <1>4 DEF GitInv
  <2> QED
    BY <1>0, <1>1, <1>4, <2>1, <2>2 DEF GitInv, Creating, Creations
<1> QED
  BY <1>2, <1>3, <1>4 DEF RemoveTree, RemoveBranch

LEMMA GitStep ==
  ASSUME TreeInv, TreesNext \/ UNCHANGED treeVars
  PROVE  GitInv'
<1>1. CASE \E n \in Names : OthersBranch(n) \/ OthersAdd(n) \/ OthersRemove(n)
  BY <1>1, OthersStep
<1>2. CASE ConfirmCreate \/ CheckCreate \/ MakeBranch \/ AddTree \/ UndoBranch \/ Created
  BY <1>2, CreationStep
<1>3. CASE RemoveTree \/ RemoveBranch
  BY <1>3, RemovalStep
<1>4. CASE git' = git /\ creating' = creating
  BY <1>4, GitStays
<1> QED
  BY <1>1, <1>2, <1>3, <1>4
     DEF TreesNext, StartTerminal, TypeName, OpenRemove, OriginPruned, Relist, OpenCreate, BasesListed,
         CloseCreate, DebounceEnds, Previewed, CloseRemove, RemovePreviewed, ConfirmRemove,
         CloseProcesses, treeVars

-----------------------------------------------------------------------------
(* The dialogs.                                                            *)

\* A dialog as the effect of the preview leaves it.
Previews(d) ==
    /\ d.open = FALSE => d.timer = FALSE /\ d.asked = NoName /\ d.preview = NoName
    /\ d.asked # NoName => d.asked = [name |-> d.name, base |-> d.base]
    /\ (d.timer = FALSE /\ d.asked = NoName /\ d.preview # NoName) =>
          d.preview = [name |-> d.name, base |-> d.base]

LEMMA EffectIs ==
  ASSUME NEW d \in Creators
  PROVE  PreviewEffect(d) \in Creators /\ Previews(PreviewEffect(d)) /\ PreviewEffect(d).busy = d.busy
<1>1. CASE d.open /\ d.name # NoName  BY <1>1 DEF Creators, Previews, PreviewEffect
<1>2. CASE ~(d.open /\ d.name # NoName)  BY <1>2 DEF Creators, Previews, PreviewEffect
<1> QED
  BY <1>1, <1>2

LEMMA CreatorStep ==
  ASSUME TreeInv, TreesNext \/ UNCHANGED treeVars
  PROVE  /\ creator' \in Creators /\ Previews(creator')
         /\ creating' # NoName => creator'.busy = TRUE
<1>0. creator \in Creators /\ Previews(creator) /\ (creating # NoName => creator.busy = TRUE)
      /\ creating \in Creations \cup {NoName}
  BY DEF TreeInv, DialogInv, GitInv, Previews
<1>1. CASE creator' = creator /\ (creating' # NoName => creating # NoName)
  BY <1>0, <1>1
<1>2. CASE OpenCreate  BY <1>0, <1>2 DEF Previews, OpenCreate, Creators
<1>3. CASE BasesListed
  <2> DEFINE d == [creator EXCEPT !.base = TRUE]
  <2>1. d \in Creators /\ d.busy = creator.busy
    BY <1>0 DEF Creators
  <2> QED
    BY <1>0, <1>3, <2>1, EffectIs DEF BasesListed
<1>4. ASSUME NEW n \in Names, TypeName(n)
      PROVE  creator' \in Creators /\ Previews(creator') /\ (creating' # NoName => creator'.busy = TRUE)
  <2> DEFINE d == [creator EXCEPT !.name = n]
  <2> QED  BY <1>0, <1>4, EffectIs DEF TypeName, Creators
<1>5. CASE CloseCreate
  <2> DEFINE d == [creator EXCEPT !.open = FALSE, !.name = NoName, !.base = FALSE]
  <2>1. d \in Creators /\ d.busy = creator.busy
    BY <1>0 DEF Creators
  <2> QED
    BY <1>0, <1>5, <2>1, EffectIs DEF CloseCreate
<1>6. CASE DebounceEnds
  <2>1. creator' = [creator EXCEPT !.timer = FALSE, !.loading = TRUE,
                                   !.asked = [name |-> creator.name, base |-> creator.base]]
        /\ creating' = creating
    BY <1>6 DEF DebounceEnds
  <2>3. creator' \in Creators /\ creator'.busy = creator.busy  BY <1>0, <2>1 DEF Creators, Requests
  <2>5. creator'.open = TRUE /\ creator'.asked = [name |-> creator'.name, base |-> creator'.base]
    BY <1>0, <2>1, <1>6 DEF Creators, DebounceEnds, Previews
  <2>6. creator'.asked # NoName  BY <2>1, <1>0, NamesAre DEF Creators, Requests
  <2> QED
    BY <1>0, <2>1, <2>3, <2>5, <2>6 DEF Previews
<1>7. ASSUME NEW answers \in BOOLEAN, Previewed(answers)
      PROVE  creator' \in Creators /\ Previews(creator') /\ (creating' # NoName => creator'.busy = TRUE)
  <2>1. PICK found \in {creator.asked, NoName} :
           creator' = [creator EXCEPT !.asked = NoName, !.loading = FALSE, !.preview = found]
    BY <1>7 DEF Previewed
  <2> QED  BY <1>0, <1>7, <2>1 DEF Previews, Previewed, Creators
<1>8. CASE ConfirmCreate  BY <1>0, <1>8 DEF Creators, Previews, ConfirmCreate
<1>9. CASE creating' = NoName /\ creator' = [creator EXCEPT !.busy = FALSE]
  BY <1>0, <1>9 DEF Creators, Previews
<1>10. CASE Created
  <2>1. CASE creator' = PreviewEffect([creator EXCEPT !.open = FALSE, !.name = NoName,
                                                      !.base = FALSE, !.busy = FALSE])
             /\ creating' = NoName
    <3> DEFINE d == [creator EXCEPT !.open = FALSE, !.name = NoName, !.base = FALSE, !.busy = FALSE]
    <3>1. d \in Creators
      BY <1>0 DEF Creators
    <3> QED
      BY <2>1, <3>1, EffectIs
  <2> QED
    BY <1>9, <1>10, <2>1 DEF Created, CreateFails
<1>11. CASE CheckCreate \/ MakeBranch \/ AddTree \/ UndoBranch
  BY <1>1, <1>9, <1>11 DEF CheckCreate, MakeBranch, AddTree, UndoBranch, CreateFails, Creating
<1> QED
  BY <1>1, <1>2, <1>3, <1>4, <1>5, <1>6, <1>7, <1>8, <1>10, <1>11
     DEF TreesNext, OthersBranch, OthersAdd, OthersRemove, StartTerminal, OpenRemove, OriginPruned, Relist,
         CloseRemove, RemovePreviewed, ConfirmRemove, CloseProcesses, RemoveTree, RemoveBranch, treeVars

\* The dialog that removes, with its call.
Removal(r, call) ==
    /\ r \in Removers
    /\ r.open = FALSE => r.asked = FALSE /\ r.preview = NoName
    /\ r.preview \in {NoName, r.target}
    /\ call # NoName => r.busy = TRUE
    /\ call \in Removals \cup {NoName}

LEMMA RemoverStep ==
  ASSUME TreeInv, TreesNext \/ UNCHANGED treeVars
  PROVE  Removal(remover', removing')
<1>0. Removal(remover, removing)
  BY DEF TreeInv, DialogInv, Removal
<1>1. CASE remover' = remover /\ removing' = removing
  BY <1>0, <1>1
<1>2. ASSUME NEW n \in Names, OpenRemove(n)
      PROVE  Removal(remover', removing')  BY <1>0, <1>2 DEF Removal, Removers, OpenRemove
<1>3. CASE CloseRemove  BY <1>0, <1>3 DEF Removal, Removers, NoRemoval, CloseRemove
<1>4. ASSUME NEW answers \in BOOLEAN, RemovePreviewed(answers)
      PROVE  Removal(remover', removing')
  <2>1. PICK found \in {remover.target, NoName} :
           remover' = [remover EXCEPT !.asked = FALSE, !.preview = found]
    BY <1>4 DEF RemovePreviewed
  <2> QED  BY <1>0, <2>1, <1>4 DEF Removal, Removers, RemovePreviewed
<1>5. CASE ConfirmRemove  BY <1>0, <1>5 DEF Removal, Removers, ConfirmRemove, Removals
<1>6. CASE removing' = NoName /\ remover' = [remover EXCEPT !.busy = FALSE]
  BY <1>0, <1>6 DEF Removal, Removers
<1>7. CASE removing' = NoName /\ remover' = NoRemoval
  BY <1>7 DEF Removal, Removers, NoRemoval
<1>8. CASE remover' = remover /\ removing # NoName
           /\ \E step \in {"tree", "branch"} : removing' = [removing EXCEPT !.step = step]
  BY <1>0, <1>8 DEF Removal, Removals
<1> QED
  BY <1>1, <1>2, <1>3, <1>4, <1>5, <1>6, <1>7, <1>8
     DEF TreesNext, OthersBranch, OthersAdd, OthersRemove, StartTerminal, OriginPruned, Relist,
         OpenCreate, BasesListed, TypeName, CloseCreate, DebounceEnds, Previewed, ConfirmCreate,
         CheckCreate, MakeBranch, AddTree, UndoBranch, Created, CloseProcesses, RemoveTree,
         RemoveBranch, RemoveFails, Removing, treeVars

LEMMA TreeStep == TreeInv /\ (TreesNext \/ UNCHANGED treeVars) => TreeInv'
<1> SUFFICES ASSUME TreeInv, TreesNext \/ UNCHANGED treeVars
             PROVE  TreeInv'
  OBVIOUS
<1> QED  BY GitStep, CreatorStep, RemoverStep DEF TreeInv, DialogInv, Previews, Removal

-----------------------------------------------------------------------------
(* The sessions.                                                           *)

LEMMA RelistedIs ==
  ASSUME SessionsInv, NEW now, NEW skip, \A n \in skip \cap Names : sessionOf[n].running = FALSE
  PROVE  LET s == Relisted(now, skip)
         IN  /\ s \in [Names -> Sessions]
             /\ \A n \in Names : s[n].running = TRUE =>
                   s[n].known = TRUE /\ s[n].recorded = TRUE /\ sessionOf[n].running = TRUE
<1> DEFINE s == Relisted(now, skip)
<1>1. ASSUME NEW n \in Names
      PROVE  s[n] \in Sessions
             /\ (s[n].running = TRUE => s[n].known = TRUE /\ s[n].recorded = TRUE /\ sessionOf[n].running = TRUE)
  <2>1. CASE n \in LiveTrees(now)  BY <2>1 DEF Sessions, SessionsInv, Relisted
  <2>2. CASE n \notin LiveTrees(now)
    <3>2. s[n].running = FALSE
      <4>1. CASE sessionOf[n].running = FALSE  BY <2>2, <4>1 DEF NoSession, Relisted
      <4>2. CASE sessionOf[n].running = TRUE  BY <2>2, <4>2 DEF NoSession, Relisted, SessionsInv
      <4> QED  BY <4>1, <4>2 DEF Sessions, SessionsInv
    <3> QED  BY <2>2, <3>2 DEF NoSession, Sessions, Relisted
  <2> QED
    BY <2>1, <2>2
<1> QED
  BY <1>1 DEF Relisted

\* The worktrees are listed again, and nothing was removed but what had no terminal.
LEMMA RelistStep ==
  ASSUME TreeInv, SessionsInv, NEW now, NEW skip, sessionOf' = Relisted(now, skip),
         \A n \in skip \cap Names : sessionOf[n].running = FALSE,
         removing' \in {removing, NoName}
  PROVE  SessionsInv'
<1>1. /\ sessionOf' \in [Names -> Sessions]
      /\ \A n \in Names : sessionOf'[n].running = TRUE =>
            sessionOf'[n].known = TRUE /\ sessionOf'[n].recorded = TRUE /\ sessionOf[n].running = TRUE
  BY RelistedIs
<1>2. (Removing("tree") \/ Removing("branch"))' => sessionOf'[removing'.name].running = FALSE
  <2>1. SUFFICES ASSUME removing' # NoName, removing'.step \in {"tree", "branch"}
                 PROVE  sessionOf'[removing'.name].running = FALSE
    BY DEF Removing
  <2>3. sessionOf[removing.name].running = FALSE
    BY <2>1 DEF SessionsInv, Removing, TreeInv, DialogInv, Removals
  <2>4. sessionOf'[removing.name].running \in BOOLEAN  BY <1>1, <2>1 DEF Sessions, TreeInv, DialogInv, Removals
  <2> QED  BY <1>1, <2>1, <2>3, <2>4 DEF TreeInv, DialogInv, Removals
<1> QED
  BY <1>1, <1>2 DEF SessionsInv

LEMMA SessionsStep ==
  ASSUME Late = FALSE
  PROVE  TreeInv /\ SessionsInv /\ (TreesNext \/ UNCHANGED treeVars) => SessionsInv'
<1> SUFFICES ASSUME TreeInv, SessionsInv, TreesNext \/ UNCHANGED treeVars
             PROVE  SessionsInv'
  OBVIOUS
<1>0. /\ sessionOf \in [Names -> Sessions]
      /\ \A n \in Names : sessionOf[n].running = TRUE => sessionOf[n].known = TRUE /\ sessionOf[n].recorded = TRUE
      /\ removing \in Removals \cup {NoName}
  BY DEF SessionsInv, TreeInv, DialogInv
<1>r. ASSUME removing # NoName
      PROVE  removing \in Removals /\ removing.name \in Names
  BY <1>0, <1>r DEF Removals
<1>1. CASE sessionOf' = sessionOf /\ removing' = removing
  BY <1>1 DEF SessionsInv, Removing
<1>2. CASE sessionOf' = Relisted(git', {}) /\ removing' \in {removing, NoName}
  <2>1. \A n \in {} \cap Names : sessionOf[n].running = FALSE
    OBVIOUS
  <2> QED
    BY <1>2, <2>1, RelistStep, Zenon
<1>3. ASSUME NEW n \in Names, StartTerminal(n)
      PROVE  SessionsInv'
  <2>1. /\ sessionOf' = [sessionOf EXCEPT ![n].recorded = TRUE, ![n].running = TRUE] /\ removing' = removing
        /\ sessionOf[n].known /\ (removing # NoName => removing.name # n)
    BY <1>3 DEF StartTerminal
  <2>3. sessionOf' \in [Names -> Sessions]
    BY <1>0, <2>1 DEF Sessions
  <2>4. /\ sessionOf'[n].known = TRUE /\ sessionOf'[n].recorded = TRUE
        /\ \A k \in Names \ {n} : sessionOf'[k] = sessionOf[k]  BY <1>0, <2>1 DEF Sessions
  <2>5. Removing("tree") \/ Removing("branch") => sessionOf'[removing.name] = sessionOf[removing.name]
    BY <1>r, <2>1, <2>4 DEF Removing
  <2> QED
    BY <1>0, <2>1, <2>3, <2>4, <2>5 DEF SessionsInv, Removing
<1>4. CASE CloseProcesses
  <2> DEFINE n == removing.name
  <2>4. sessionOf' = [sessionOf EXCEPT ![n].recorded = FALSE, ![n].running = FALSE]
    BY <1>4, <1>0, <1>r DEF CloseProcesses, Sessions, Removing
  <2>5. sessionOf' \in [Names -> Sessions]
    BY <1>0, <2>4 DEF Sessions
  <2>7. removing'.name = n  BY <1>4, <1>r DEF Removals, CloseProcesses, Removing
  <2> QED  BY <1>0, <2>5, <1>4, <1>r, <2>4, <2>7 DEF SessionsInv, Removing, Sessions, CloseProcesses
<1>5. CASE ConfirmRemove  BY <1>0, <1>5 DEF SessionsInv, Removing, ConfirmRemove
<1>6. CASE RemoveTree
  <2>1. CASE sessionOf' = sessionOf /\ removing' = [removing EXCEPT !.step = "branch"]
    <3>3. sessionOf[removing.name].running = FALSE  BY <1>6, <1>r DEF SessionsInv, Removing, RemoveTree
    <3> QED  BY <1>0, <2>1, <1>6, <1>r, <3>3 DEF SessionsInv, Removing, Removals, RemoveTree
  <2> QED
    BY <1>2, <1>6, <2>1 DEF RemoveTree, RemoveFails
<1>7. CASE RemoveBranch
  <2>1. CASE sessionOf' = Relisted(git', {removing.name}) /\ removing' = NoName
    <3>1. \A n \in {removing.name} \cap Names : sessionOf[n].running = FALSE
      BY <1>7 DEF RemoveBranch, SessionsInv
    <3>2. removing' \in {removing, NoName}
      BY <2>1
    <3> QED
      BY <2>1, <3>1, <3>2, RelistStep, Zenon
  <2> QED
    BY <1>2, <1>7, <2>1 DEF RemoveBranch, RemoveFails
<1>8. CASE Relist
  <2>1. sessionOf' = Relisted(git, {}) /\ removing' = removing
    BY <1>8 DEF Relist
  <2>2. \A n \in {} \cap Names : sessionOf[n].running = FALSE
    OBVIOUS
  <2>3. removing' \in {removing, NoName}
    BY <2>1
  <2> QED
    BY <2>1, <2>2, <2>3, RelistStep, Zenon
<1>9. CASE CheckCreate \/ MakeBranch \/ AddTree \/ UndoBranch
  BY <1>1, <1>2, <1>9 DEF CheckCreate, MakeBranch, AddTree, UndoBranch, CreateFails
<1>10. CASE Created
  <2>1. CASE sessionOf' = Relisted(git, {}) /\ removing' = removing
    <3>1. \A n \in {} \cap Names : sessionOf[n].running = FALSE
      OBVIOUS
    <3>2. removing' \in {removing, NoName}
      BY <2>1
    <3> QED
      BY <2>1, <3>1, <3>2, RelistStep, Zenon
  <2> QED
    BY <1>2, <1>10, <2>1 DEF Created, CreateFails
<1> QED
  BY <1>1, <1>3, <1>4, <1>5, <1>6, <1>7, <1>8, <1>9, <1>10
     DEF TreesNext, OthersBranch, OthersAdd, OthersRemove, TypeName, OpenRemove, OriginPruned,
         OpenCreate, BasesListed, CloseCreate, DebounceEnds, Previewed, ConfirmCreate,
         CloseRemove, RemovePreviewed, treeVars

-----------------------------------------------------------------------------
(* What the worktrees promise.                                             *)

LEMMA TreesAreSafe == TreeInv => OnlyRefusedIsLeft /\ PreviewsFit
<1> SUFFICES ASSUME TreeInv PROVE OnlyRefusedIsLeft /\ PreviewsFit
  OBVIOUS
<1> QED  BY DEF TreeInv, GitInv, OnlyRefusedIsLeft, DialogInv, PreviewsFit, Creators

LEMMA NobodyOrphaned == SessionsInv => NoneOrphaned
  BY DEF SessionsInv, NoneOrphaned, Sessions

LEMMA SparedStep ==
  ASSUME TreeInv, TreesNext \/ UNCHANGED treeVars, NEW n \in Names,
         git[n].branch = "theirs", git'[n].branch # "theirs"
  PROVE  removing # NoName /\ removing.name = n
<1>0. GitInv /\ DialogInv
  BY DEF TreeInv
<1>1. CASE \E k \in Names : OthersBranch(k) \/ OthersAdd(k) \/ OthersRemove(k)
  <2>1. PICK k \in Names : OthersBranch(k) \/ OthersAdd(k) \/ OthersRemove(k)
    BY <1>1
  <2> QED  BY <1>0, <2>1 DEF GitInv, OthersBranch, OthersAdd, OthersRemove, Branches, Touched
<1>2. CASE MakeBranch \/ AddTree  BY <1>0, <1>2 DEF GitInv, MakeBranch, AddTree, Branches, Touched
<1>3. CASE UndoBranch  BY <1>0, <1>3 DEF GitInv, UndoBranch, Creating
<1>4. CASE RemoveTree \/ RemoveBranch  BY <1>0, <1>4 DEF RemoveTree, RemoveBranch, Removing, DialogInv, GitInv
<1>5. CASE git' = git
  BY <1>5
<1> QED
  BY <1>1, <1>2, <1>3, <1>4, <1>5
     DEF TreesNext, StartTerminal, TypeName, OpenRemove, OriginPruned, Relist, OpenCreate, BasesListed,
         CloseCreate, DebounceEnds, Previewed, CloseRemove, RemovePreviewed, ConfirmRemove,
         CloseProcesses, ConfirmCreate, CheckCreate, Created, treeVars

-----------------------------------------------------------------------------
(* The panes.                                                              *)

Watches == {"owned", "ended"}
WireEvents == [what : Watches \cup {"output", "exit"}, n : Nat]
PaneSizes == Nat \X Nat
Ttys == [made : Nat, narrow : SUBSET Nat, exited : BOOLEAN, size : PaneSizes]
Phones == [owner : {"none", "phone", "desktop"}, since : Nat]
Seeds == [state : {"none", "asked", "taken"}, owned : BOOLEAN, since : Nat, behind : Nat]
Xterms == [on : BOOLEAN, visible : BOOLEAN, fit : BOOLEAN, observed : BOOLEAN, size : PaneSizes,
           screen : Seq(Nat), pending : Seq(Nat), frozen : BOOLEAN, sawLive : BOOLEAN,
           seed : Seeds, from : Nat, aside : SUBSET Nat]
Pleats == [from : Nat, open : BOOLEAN, bytes : Seq(Nat)]

PaneTypes ==
    /\ tty \in Ttys /\ phone \in Phones /\ wire \in Seq(WireEvents)
    /\ replay \in Seq(Nat) /\ status \in {"running", "exited"}
    /\ xterm \in Xterms /\ pleat \in Pleats
    /\ box \in 1..2 /\ font \in 1..2 /\ followed \in {"stream", "size"}

\* No watch starts or ends strictly between two places on the wire.
Calm(w, i, j) == \A k \in 1..Len(w) : i < k /\ k < j => w[k].what \notin Watches

\* The last news of the phone on the wire are how it stands.
PhoneInv ==
    /\ followed = "size" => phone.owner = "none"
    /\ \A j \in 1..Len(wire) : wire[j].what \in Watches /\ Calm(wire, j, Len(wire) + 1) =>
          (wire[j].what = "owned" <=> phone.owner = "phone") /\ wire[j].n = phone.since

\* The seed is behind what was sent before it, and is the truth unless news came later.
SeedInv ==
    xterm.on = TRUE =>
      /\ xterm.sawLive = FALSE /\ xterm.seed.state # "none" =>
            xterm.frozen = FALSE /\ pleat.open = FALSE
      /\ xterm.seed.state = "taken" => xterm.seed.behind <= Len(wire)
      /\ (xterm.seed.state = "taken" /\ xterm.sawLive = FALSE
            /\ Calm(wire, xterm.seed.behind, Len(wire) + 1)) =>
            (xterm.seed.owned = TRUE <=> phone.owner = "phone") /\ xterm.seed.since = phone.since

\* With no news on the wire, a pane that has heard of the phone, or asked, knows how it stands.
FreezeInv ==
    (xterm.on = TRUE /\ Calm(wire, 0, Len(wire) + 1) /\ (xterm.sawLive = TRUE \/ xterm.seed.state = "none")) =>
      /\ xterm.frozen = TRUE <=> phone.owner = "phone"
      /\ pleat.open = TRUE => xterm.frozen = TRUE /\ pleat.from = phone.since

\* Output behind a watch on the wire, behind a frozen pane or behind a seed that says the
\* phone owns the terminal is narrow.
NarrowInv ==
    /\ \A i, j \in 1..Len(wire) :
          (j < i /\ wire[j].what = "owned" /\ wire[i].what = "output" /\ Calm(wire, j, i)) =>
             wire[i].n \in tty.narrow
    /\ (xterm.on = TRUE /\ xterm.frozen = TRUE) =>
          \A i \in 1..Len(wire) : wire[i].what = "output" /\ Calm(wire, 0, i) => wire[i].n \in tty.narrow
    /\ (xterm.on = TRUE /\ xterm.seed.state = "taken" /\ xterm.seed.owned = TRUE /\ xterm.sawLive = FALSE) =>
          \A i \in 1..Len(wire) :
             (xterm.seed.behind < i /\ wire[i].what = "output" /\ Calm(wire, xterm.seed.behind, i)) =>
                wire[i].n \in tty.narrow
    /\ \A i \in 1..Len(pleat.bytes) : pleat.bytes[i] \in tty.narrow

WatchInv == PaneTypes /\ PhoneInv /\ SeedInv /\ FreezeInv /\ NarrowInv

Rising(s) == \A i, j \in 1..Len(s) : i < j => s[i] < s[j]

\* The outputs on the wire are those behind the first d, in order.
WireInv(d) ==
    /\ d <= tty.made
    /\ \A i \in 1..Len(wire) : wire[i].what = "output" => wire[i].n \in d + 1..tty.made
    /\ \A n \in d + 1..tty.made : \E i \in 1..Len(wire) : wire[i].what = "output" /\ wire[i].n = n
    /\ \A i, j \in 1..Len(wire) : 
          (i < j /\ wire[i].what = "output" /\ wire[j].what = "output") => wire[i].n < wire[j].n

\* Nothing follows the exit.
ExitInv(d) ==
    /\ \A i \in 1..Len(wire) : wire[i].what = "exit" =>
          tty.exited = TRUE /\ \A j \in 1..Len(wire) : i < j => wire[j].what # "output"
    /\ status = "exited" => tty.exited = TRUE /\ d = tty.made

\* The replay buffer has the last of what came.
ReplayInv(d) ==
    /\ status = "exited" => replay = <<>>
    /\ status = "running" =>
          /\ Len(replay) = IF d > MaxReplay THEN MaxReplay ELSE d
          /\ \A i \in 1..Len(replay) : replay[i] = d - Len(replay) + i

\* The pane has all that came since its first, in order.
ScreenInv(d) ==
    xterm.on = TRUE =>
      LET out == xterm.screen \o xterm.pending
      IN /\ Rising(out)
         /\ ToSet(out) \cup xterm.aside = xterm.from..d
         /\ ToSet(out) \cap xterm.aside = {}
         /\ xterm.from \in 1..d + 1

StreamInv == \E d \in Nat : WireInv(d) /\ ExitInv(d) /\ ReplayInv(d) /\ ScreenInv(d)

LEMMA PanesStart == PanesInit => WatchInv /\ StreamInv
<1> SUFFICES ASSUME PanesInit PROVE WatchInv /\ StreamInv
  OBVIOUS
<1>0. /\ tty = [made |-> 0, narrow |-> {}, exited |-> FALSE, size |-> <<0, 0>>]
      /\ phone = [owner |-> "none", since |-> 0]
      /\ wire = <<>> /\ replay = <<>> /\ status = "running" /\ pleat = NoPleat
      /\ box = 1 /\ font = 1 /\ followed \in {"stream", "size"} /\ xterm = NoPane
  BY DEF PanesInit
<1>1. NoPane \in Xterms /\ NoPane.on = FALSE
  BY DEF NoPane, NoSeed, Xterms, Seeds, PaneSizes
<1>3. PaneTypes  BY <1>0, <1>1 DEF PaneTypes, Ttys, Phones, PaneSizes, NoPleat, Pleats
<1>5. NarrowInv  BY <1>0, <1>1 DEF NarrowInv, NoPleat, Pleats
<1>6. WireInv(0) /\ ExitInv(0) /\ ReplayInv(0) /\ ScreenInv(0)
  BY <1>0, <1>1, ReplayAssumption DEF WireInv, ExitInv, ReplayInv, ScreenInv
<1> QED  BY <1>3, <1>0, <1>1, <1>5, <1>6 DEF WatchInv, StreamInv, PhoneInv, SeedInv, FreezeInv

\* Nothing that the watch is about changes.
LEMMA WatchStays ==
  ASSUME WatchInv, UNCHANGED <<wire, phone, pleat, followed>>, tty'.narrow = tty.narrow,
         xterm'.on = xterm.on, xterm'.frozen = xterm.frozen, xterm'.sawLive = xterm.sawLive,
         xterm'.seed = xterm.seed
  PROVE  PhoneInv' /\ SeedInv' /\ FreezeInv' /\ NarrowInv'
<1>4. NarrowInv'
  BY DEF WatchInv, NarrowInv, Calm
<1> QED  BY <1>4 DEF WatchInv, PhoneInv, Calm, SeedInv, FreezeInv

\* Nothing that the output is about changes.
LEMMA StreamStays ==
  ASSUME StreamInv, UNCHANGED <<wire, replay, status>>, tty'.made = tty.made, tty'.exited = tty.exited,
         xterm'.on = xterm.on, xterm'.from = xterm.from, xterm'.aside = xterm.aside,
         xterm'.screen \o xterm'.pending = xterm.screen \o xterm.pending
  PROVE  StreamInv'
<1>1. PICK d \in Nat : WireInv(d) /\ ExitInv(d) /\ ReplayInv(d) /\ ScreenInv(d)
  BY DEF StreamInv
<1>2. WireInv(d)'
  BY <1>1 DEF WireInv
<1>3. ExitInv(d)'
  BY <1>1 DEF ExitInv
<1>4. ReplayInv(d)'
  BY <1>1 DEF ReplayInv
<1>5. ScreenInv(d)'
  BY <1>1 DEF ScreenInv
<1> QED
  BY <1>1, <1>2, <1>3, <1>4, <1>5 DEF StreamInv

\* The size of a pane is no concern of the stream.
SizeSteps == InitialFit \/ Observed \/ BoxChanges \/ FontChanges \/ Hide \/ Show \/ UNCHANGED paneVars

LEMMA SizeStep ==
  ASSUME PaneTypes, SizeSteps
  PROVE  /\ UNCHANGED <<wire, phone, pleat, followed, replay, status>>
         /\ tty' \in Ttys /\ tty'.made = tty.made /\ tty'.exited = tty.exited /\ tty'.narrow = tty.narrow
         /\ xterm' \in Xterms /\ xterm'.on = xterm.on /\ xterm'.frozen = xterm.frozen
         /\ xterm'.sawLive = xterm.sawLive /\ xterm'.seed = xterm.seed /\ xterm'.from = xterm.from
         /\ xterm'.aside = xterm.aside /\ xterm'.screen = xterm.screen /\ xterm'.pending = xterm.pending
         /\ box' \in 1..2 /\ font' \in 1..2
<1>0. tty \in Ttys /\ xterm \in Xterms /\ box \in 1..2 /\ font \in 1..2
  BY DEF PaneTypes
<1>1. UNCHANGED <<wire, phone, pleat, followed, replay, status>> /\ box' \in 1..2 /\ font' \in 1..2
  BY <1>0 DEF SizeSteps, InitialFit, Observed, BoxChanges, FontChanges, Hide, Show, FitAndSend, paneVars
<1>3. tty' \in Ttys /\ tty'.made = tty.made /\ tty'.exited = tty.exited /\ tty'.narrow = tty.narrow
  BY <1>0 DEF Ttys, PaneSizes, SizeSteps, InitialFit, Observed, BoxChanges, FontChanges, Hide, Show, FitAndSend,
     paneVars
<1>4. \E s \in PaneSizes, v, f, o \in BOOLEAN :
         xterm' = [xterm EXCEPT !.size = s, !.visible = v, !.fit = f, !.observed = o]
  <2> DEFINE Kept(s, v, f, o) == xterm' = [xterm EXCEPT !.size = s, !.visible = v, !.fit = f, !.observed = o]
  <2>0. <<box, font>> \in PaneSizes /\ xterm.size \in PaneSizes /\ xterm.visible \in BOOLEAN
        /\ xterm.fit \in BOOLEAN /\ xterm.observed \in BOOLEAN /\ xterm.on \in BOOLEAN
        /\ <<box, font'>> \in PaneSizes
    BY <1>0, <1>1 DEF Xterms, PaneSizes
  <2>1. CASE InitialFit
    <3>1. Kept(<<box, font>>, xterm.visible, FALSE, xterm.observed)
      BY <1>0, <2>1 DEF InitialFit, FitAndSend, Xterms
    <3> QED  BY <2>0, <3>1
  <2>2. CASE Observed
    <3>1. \/ Kept(<<box, font>>, xterm.visible, xterm.fit, FALSE)
          \/ Kept(xterm.size, xterm.visible, xterm.fit, FALSE)
      BY <1>0, <2>2 DEF Observed, FitAndSend, Xterms
    <3> QED  BY <2>0, <3>1
  <2>3. CASE BoxChanges
    <3>1. Kept(xterm.size, xterm.visible, xterm.fit, xterm.on)
      BY <1>0, <2>3 DEF BoxChanges, Xterms
    <3> QED  BY <2>0, <3>1
  <2>4. CASE FontChanges
    <3>1. \/ Kept(<<box, font'>>, xterm.visible, xterm.fit, xterm.observed)
          \/ Kept(xterm.size, xterm.visible, xterm.fit, xterm.observed)
      BY <1>0, <2>4 DEF FontChanges, Xterms
    <3> QED  BY <2>0, <3>1
  <2>5. CASE Hide
    <3>1. Kept(xterm.size, FALSE, xterm.fit, xterm.observed)
      BY <1>0, <2>5 DEF Hide, Xterms
    <3> QED  BY <2>0, <3>1
  <2>6. CASE Show
    <3>1. \/ Kept(<<box, font>>, TRUE, xterm.fit, xterm.observed)
          \/ Kept(xterm.size, TRUE, xterm.fit, xterm.observed)
      BY <1>0, <2>6 DEF Show, FitAndSend, Xterms
    <3> QED  BY <2>0, <3>1
  <2>7. CASE UNCHANGED paneVars
    <3>1. Kept(xterm.size, xterm.visible, xterm.fit, xterm.observed)
      BY <1>0, <2>7 DEF paneVars, Xterms
    <3> QED  BY <2>0, <3>1
  <2> QED
    BY <2>1, <2>2, <2>3, <2>4, <2>5, <2>6, <2>7 DEF SizeSteps
<1>5. PICK s \in PaneSizes, v, f, o \in BOOLEAN :
         xterm' = [xterm EXCEPT !.size = s, !.visible = v, !.fit = f, !.observed = o]
  BY <1>4
<1> QED  BY <1>1, <1>3, <1>0, <1>5 DEF Xterms

LEMMA SizeKeeps ==
  ASSUME WatchInv, StreamInv, SizeSteps
  PROVE  WatchInv' /\ StreamInv'
<1>3. StreamInv'  BY SizeStep, StreamStays DEF WatchInv
<1> QED  BY SizeStep, WatchStays, <1>3 DEF WatchInv, PaneTypes

\* A frame moves what is pending to the screen.
LEMMA FrameKeeps ==
  ASSUME WatchInv, StreamInv, Frame
  PROVE  WatchInv' /\ StreamInv'
<1>1. UNCHANGED <<tty, phone, wire, replay, status, pleat, box, font, followed>>
  BY DEF Frame
<1>4. xterm.screen \o xterm.pending \in Seq(Nat) /\ <<>> \in Seq(Nat)  BY DEF Xterms, WatchInv, PaneTypes
<1>5. /\ xterm' \in Xterms /\ xterm'.on = xterm.on /\ xterm'.frozen = xterm.frozen
      /\ xterm'.sawLive = xterm.sawLive /\ xterm'.seed = xterm.seed /\ xterm'.from = xterm.from
      /\ xterm'.aside = xterm.aside /\ xterm'.screen = xterm.screen \o xterm.pending
      /\ xterm'.pending = <<>>  BY <1>4 DEF Xterms, WatchInv, PaneTypes, Frame
<1>7. PaneTypes'  BY <1>1, <1>5 DEF PaneTypes, WatchInv
<1>9. StreamInv'  BY <1>1, <1>5, <1>4, StreamStays
<1> QED  BY <1>7, <1>1, <1>5, WatchStays, <1>9 DEF WatchInv

-----------------------------------------------------------------------------
(* What is sent to the window.                                             *)

\* One event more.
Sent(e) ==
    /\ Len(wire') = Len(wire) + 1 /\ wire'[Len(wire) + 1] = e
    /\ \A i \in 1..Len(wire) : wire'[i] = wire[i]

LEMMA SendIs ==
  ASSUME PaneTypes, NEW e \in WireEvents, Send(e)
  PROVE  wire' \in Seq(WireEvents) /\ Sent(e) /\ Len(wire) \in Nat
  BY DEF PaneTypes, Send, Sent

\* Up to the end of what was sent before, nothing is new.
LEMMA CalmStays ==
  ASSUME PaneTypes, NEW e, Sent(e), NEW i \in Nat, NEW j \in Nat, j <= Len(wire) + 1
  PROVE  Calm(wire', i, j) <=> Calm(wire, i, j)
  BY SMTT(30) DEF PaneTypes, Sent, Calm

LEMMA CalmSent ==
  ASSUME PaneTypes, NEW e, Sent(e), NEW i \in Nat, i <= Len(wire)
  PROVE  Calm(wire', i, Len(wire') + 1) <=> (Calm(wire, i, Len(wire) + 1) /\ e.what \notin Watches)
  BY DEF PaneTypes, Sent, Calm

\* Output or an exit is sent.
LEMMA PlainSent ==
  ASSUME WatchInv, NEW e \in WireEvents, Sent(e), e.what \notin Watches,
         UNCHANGED <<phone, pleat, followed, xterm>>,
         tty.narrow \subseteq tty'.narrow,
         e.what = "output" /\ phone.owner = "phone" => e.n \in tty'.narrow
  PROVE  PhoneInv' /\ SeedInv' /\ FreezeInv' /\ NarrowInv'
<1>0. /\ PaneTypes /\ Len(wire) \in Nat /\ xterm \in Xterms /\ pleat \in Pleats
      /\ Len(wire') = Len(wire) + 1 /\ wire'[Len(wire) + 1] = e
      /\ \A i \in 1..Len(wire) : wire'[i] = wire[i]
      /\ xterm.seed.behind \in Nat
  <2>1. Len(wire) \in Nat  BY LenProperties DEF WatchInv, PaneTypes
  <2>2. xterm.seed.behind \in Nat  BY DEF WatchInv, PaneTypes, Xterms, Seeds
  <2> QED  BY <2>1, <2>2 DEF WatchInv, PaneTypes, Sent
<1>1. PhoneInv'
  <2>1. ASSUME NEW j \in 1..Len(wire'), wire'[j].what \in Watches, Calm(wire', j, Len(wire') + 1)
        PROVE  (wire'[j].what = "owned" <=> phone.owner = "phone") /\ wire'[j].n = phone.since
    BY <2>1, <1>0, CalmSent DEF WatchInv, PhoneInv
  <2> QED
    BY <2>1 DEF WatchInv, PhoneInv
<1>2. SeedInv'  BY <1>0, CalmSent DEF WatchInv, SeedInv
<1>4. NarrowInv'
  <2>a. ASSUME NEW i \in 1..Len(wire'), wire'[i].what = "output", i \notin 1..Len(wire)
        PROVE  i = Len(wire) + 1 /\ e.what = "output" /\ wire'[i] = e
    BY <1>0, <2>a
  <2>1. ASSUME NEW i \in 1..Len(wire'), NEW j \in 1..Len(wire'), j < i, wire'[j].what = "owned",
               wire'[i].what = "output", Calm(wire', j, i)
        PROVE  wire'[i].n \in tty'.narrow
    <3>1. j \in 1..Len(wire) /\ wire'[j] = wire[j] /\ i \in Nat /\ i <= Len(wire) + 1 /\ j \in Nat
      BY <1>0, <2>1
    <3>3. CASE i \in 1..Len(wire)
      <4>2. wire[i].n \in tty.narrow  BY <2>1, <3>1, <1>0, CalmStays, <3>3 DEF WatchInv, NarrowInv
      <4> QED  BY <1>0, <2>1, <3>1, <3>3, <4>2
    <3>4. CASE i \notin 1..Len(wire)  BY <2>a, <2>1, <3>4, <3>1, <1>0, CalmStays DEF WatchInv, PhoneInv, Watches
    <3> QED
      BY <3>3, <3>4
  <2>2. ASSUME xterm.on = TRUE, xterm.frozen = TRUE, NEW i \in 1..Len(wire'),
               wire'[i].what = "output", Calm(wire', 0, i)
        PROVE  wire'[i].n \in tty'.narrow
    <3>3. CASE i \in 1..Len(wire)  BY <1>0, <2>2, <3>3, CalmStays DEF WatchInv, NarrowInv
    <3>4. CASE i \notin 1..Len(wire)
      <4>3. phone.owner = "phone"  BY <2>2, <1>0, CalmStays, <2>a, <3>4 DEF WatchInv, FreezeInv, SeedInv, Xterms
      <4> QED  BY <2>a, <2>2, <3>4, <4>3
    <3> QED
      BY <3>3, <3>4
  <2>3. ASSUME xterm.on = TRUE, xterm.seed.state = "taken", xterm.seed.owned = TRUE, xterm.sawLive = FALSE,
               NEW i \in 1..Len(wire'), xterm.seed.behind < i, wire'[i].what = "output",
               Calm(wire', xterm.seed.behind, i)
        PROVE  wire'[i].n \in tty'.narrow
    <3>3. CASE i \in 1..Len(wire)  BY <1>0, <2>3, <3>3, CalmStays DEF WatchInv, NarrowInv
    <3>4. CASE i \notin 1..Len(wire)  BY <2>a, <2>3, <3>4, <1>0, CalmStays DEF WatchInv, SeedInv
    <3> QED
      BY <3>3, <3>4
  <2> QED  BY <2>1, <2>2, <2>3 DEF NarrowInv, WatchInv
<1> QED  BY <1>1, <1>2, <1>0, CalmSent, <1>4 DEF WatchInv, FreezeInv

\* News of the phone are sent.
LEMMA NewsSent ==
  ASSUME WatchInv, NEW e \in WireEvents, Sent(e), e.what \in Watches, UNCHANGED <<tty, pleat, followed, xterm>>,
         followed # "size", e.what = "owned" <=> phone'.owner = "phone", e.n = phone'.since
  PROVE  PhoneInv' /\ SeedInv' /\ FreezeInv' /\ NarrowInv'
<1>0. /\ PaneTypes /\ Len(wire) \in Nat /\ xterm \in Xterms
      /\ Len(wire') = Len(wire) + 1 /\ wire'[Len(wire) + 1] = e
      /\ \A i \in 1..Len(wire) : wire'[i] = wire[i]
      /\ xterm.seed.behind \in Nat
  <2>1. Len(wire) \in Nat  BY LenProperties DEF WatchInv, PaneTypes
  <2>2. xterm.seed.behind \in Nat  BY DEF WatchInv, PaneTypes, Xterms, Seeds
  <2> QED  BY <2>1, <2>2 DEF WatchInv, PaneTypes, Sent
<1>1. PhoneInv'
  <2>1. ASSUME NEW j \in 1..Len(wire'), wire'[j].what \in Watches, Calm(wire', j, Len(wire') + 1)
        PROVE  (wire'[j].what = "owned" <=> phone'.owner = "phone") /\ wire'[j].n = phone'.since
    BY <1>0, CalmSent, <2>1
  <2> QED
    BY <2>1 DEF WatchInv, PhoneInv
<1>2. SeedInv'  BY <1>0, CalmSent DEF WatchInv, SeedInv
<1>4. NarrowInv'
  <2>1. ASSUME NEW i \in 1..Len(wire'), wire'[i].what = "output"
        PROVE  i \in 1..Len(wire) /\ wire'[i] = wire[i] /\ wire[i].what = "output" /\ i \in Nat /\ i <= Len(wire) + 1
    BY <1>0, <2>1 DEF Watches
  <2>2. ASSUME NEW i \in 1..Len(wire'), wire'[i].what = "output", NEW j \in 1..Len(wire'), j < i
        PROVE  j \in 1..Len(wire) /\ wire'[j] = wire[j] /\ j \in Nat
    BY <1>0, <2>1, <2>2
  <2>4. (xterm.on = TRUE /\ xterm.frozen = TRUE) =>
          \A i \in 1..Len(wire') : wire'[i].what = "output" /\ Calm(wire', 0, i) => wire'[i].n \in tty.narrow
    BY <1>0, CalmStays, <2>1 DEF WatchInv, NarrowInv
  <2>5. (xterm.on = TRUE /\ xterm.seed.state = "taken" /\ xterm.seed.owned = TRUE /\ xterm.sawLive = FALSE) =>
          \A i \in 1..Len(wire') :
             (xterm.seed.behind < i /\ wire'[i].what = "output" /\ Calm(wire', xterm.seed.behind, i)) =>
                wire'[i].n \in tty.narrow  BY <1>0, CalmStays, <2>1 DEF WatchInv, NarrowInv
  <2> QED  BY <1>0, CalmStays, <2>1, <2>2, <2>4, <2>5 DEF WatchInv, NarrowInv
<1> QED  BY <1>1, <1>2, <1>0, CalmSent, <1>4 DEF FreezeInv

\* Something else than output is sent: the order holds.
LEMMA OrderSent ==
  ASSUME PaneTypes, NEW d \in Nat, WireInv(d), NEW e \in WireEvents, Sent(e), e.what # "output",
         tty'.made = tty.made
  PROVE  WireInv(d)'
<1>1. ASSUME NEW i \in 1..Len(wire'), wire'[i].what = "output"
      PROVE  i \in 1..Len(wire) /\ wire'[i] = wire[i] /\ wire[i].what = "output"  BY <1>1 DEF PaneTypes, Sent
<1>3. ASSUME NEW n \in d + 1..tty.made
      PROVE  \E i \in 1..Len(wire') : wire'[i].what = "output" /\ wire'[i].n = n
  <2>1. PICK i \in 1..Len(wire) : wire[i].what = "output" /\ wire[i].n = n
    BY DEF WireInv
  <2> QED  BY <2>1 DEF PaneTypes, Sent
<1> QED  BY <1>1, <1>3 DEF WireInv

LEMMA OutputsKeep ==
  ASSUME WatchInv, StreamInv, Outputs
  PROVE  WatchInv' /\ StreamInv'
<1> DEFINE n == tty.made + 1
           e == [what |-> "output", n |-> n]
<1>0. /\ PaneTypes /\ tty \in Ttys /\ tty.made \in Nat /\ tty.narrow \in SUBSET Nat /\ n \in Nat
      /\ tty.exited \in BOOLEAN /\ xterm \in Xterms /\ Len(wire) \in Nat
  BY DEF WatchInv, PaneTypes, Ttys
<1>1. UNCHANGED <<phone, replay, status, xterm, pleat, box, font, followed>> /\ tty.exited = FALSE
  BY <1>0 DEF Outputs
<1>3. tty' \in Ttys /\ tty'.made = n /\ tty'.exited = tty.exited
      /\ tty'.narrow = IF phone.owner = "phone" THEN tty.narrow \cup {n} ELSE tty.narrow
  BY <1>0 DEF Ttys, Outputs
<1>4. e \in WireEvents /\ e.what = "output" /\ e.n = n /\ "output" \notin Watches
  BY <1>0 DEF WireEvents, Watches
<1>6. wire' \in Seq(WireEvents) /\ Sent(e)  BY <1>0, <1>4, SendIs DEF Outputs, Event
<1> HIDE DEF e
<1>8. PhoneInv' /\ SeedInv' /\ FreezeInv' /\ NarrowInv'
  BY <1>1, <1>3, <1>4, <1>6, PlainSent
<1>9. StreamInv'
  <2>1. PICK d \in Nat : WireInv(d) /\ ExitInv(d) /\ ReplayInv(d) /\ ScreenInv(d)
    BY DEF StreamInv
  <2>0. /\ Len(wire') = Len(wire) + 1 /\ wire'[Len(wire) + 1] = e
        /\ \A i \in 1..Len(wire) : wire'[i] = wire[i]
    BY <1>6 DEF Sent
  <2>2. WireInv(d)'
    <3>1. d <= n /\ \A i \in 1..Len(wire) : wire[i].what = "output" => wire[i].n \in d + 1..tty.made
      BY <1>0, <2>1 DEF WireInv
    <3>2. \A i \in 1..Len(wire') : wire'[i].what = "output" => wire'[i].n \in d + 1..n
      BY <1>0, <1>4, <2>0, <2>1, <3>1 DEF WireInv
    <3>3. ASSUME NEW k \in d + 1..n
          PROVE  \E i \in 1..Len(wire') : wire'[i].what = "output" /\ wire'[i].n = k
      <4>1. CASE k = n
        BY <1>0, <1>4, <2>0, <4>1
      <4>2. CASE k # n
        <5>2. PICK i \in 1..Len(wire) : wire[i].what = "output" /\ wire[i].n = k
          BY <2>1, <1>0, <3>3, <4>2 DEF WireInv
        <5> QED
          BY <1>0, <2>0, <5>2
      <4> QED
        BY <4>1, <4>2
    <3>4. ASSUME NEW i \in 1..Len(wire'), NEW j \in 1..Len(wire'), i < j,
                 wire'[i].what = "output", wire'[j].what = "output"
          PROVE  wire'[i].n < wire'[j].n
      <4>2. CASE j \in 1..Len(wire)  BY <2>0, <2>1, <3>4, <1>0, <3>1, <4>2 DEF WireInv
      <4>3. CASE j \notin 1..Len(wire)  BY <1>0, <1>4, <2>0, <3>4, <3>1, <4>3
      <4> QED
        BY <4>2, <4>3
    <3> QED
      BY <1>3, <3>1, <3>2, <3>3, <3>4 DEF WireInv
  <2>3. ExitInv(d)'  BY <1>1, <2>1, <1>0, <1>4, <2>0 DEF ExitInv
  <2> QED  BY <2>2, <2>3, <1>1, <2>1 DEF StreamInv, ReplayInv, ScreenInv
<1> QED  BY <1>0, <1>1, <1>3, <1>6, <1>8, <1>9 DEF WatchInv, PaneTypes

LEMMA ExitsKeep ==
  ASSUME WatchInv, StreamInv, Exits
  PROVE  WatchInv' /\ StreamInv'
<1> DEFINE e == [what |-> "exit", n |-> 0]
<1>0. /\ PaneTypes /\ tty \in Ttys /\ tty.made \in Nat /\ tty.exited = FALSE /\ Len(wire) \in Nat
  BY DEF WatchInv, PaneTypes, Ttys, Exits
<1>1. UNCHANGED <<phone, replay, status, xterm, pleat, box, font, followed>>
  BY DEF Exits
<1>3. tty' \in Ttys /\ tty'.made = tty.made /\ tty'.exited = TRUE /\ tty'.narrow = tty.narrow
  BY <1>0 DEF Ttys, Exits
<1>4. e \in WireEvents /\ e.what = "exit" /\ e.what # "output" /\ e.what \notin Watches
  BY DEF WireEvents, Watches
<1>6. wire' \in Seq(WireEvents) /\ Sent(e)  BY <1>0, <1>4, SendIs DEF Exits, Event
<1> HIDE DEF e
<1>8. PhoneInv' /\ SeedInv' /\ FreezeInv' /\ NarrowInv'
  BY <1>0, <1>1, <1>3, <1>4, <1>6, PlainSent DEF WatchInv
<1>9. StreamInv'
  <2>1. PICK d \in Nat : WireInv(d) /\ ExitInv(d) /\ ReplayInv(d) /\ ScreenInv(d)
    BY DEF StreamInv
  <2>3. ExitInv(d)'
    <3>2. ASSUME NEW i \in 1..Len(wire'), wire'[i].what = "exit", NEW j \in 1..Len(wire'), i < j
          PROVE  FALSE  BY <1>0, <1>6, <2>1, <3>2 DEF Sent, ExitInv
    <3> QED  BY <1>1, <1>3, <3>2, <2>1 DEF ExitInv
  <2> QED  BY <1>0, <1>3, <1>4, <1>6, <2>1, OrderSent, <2>3, <1>1 DEF StreamInv, ReplayInv, ScreenInv
<1> QED  BY <1>0, <1>1, <1>3, <1>6, <1>8, <1>9 DEF WatchInv, PaneTypes

\* The news of the phone.
LEMMA NewsKeep ==
  ASSUME WatchInv, StreamInv, PhoneOwns \/ PhoneYields
  PROVE  WatchInv' /\ StreamInv'
<1> DEFINE e == [what |-> IF PhoneOwns THEN "owned" ELSE "ended", n |-> phone'.since]
<1>0. /\ PaneTypes /\ Len(wire) \in Nat /\ phone \in Phones
  BY DEF WatchInv, PaneTypes
<1>1. UNCHANGED <<tty, replay, status, xterm, pleat, box, font, followed>>
  BY DEF PhoneOwns, PhoneYields
<1>3. phone' \in Phones /\ phone'.since \in Nat  BY <1>0 DEF Phones, PhoneOwns, PhoneYields
<1>4. e \in WireEvents /\ e.what # "output" /\ e.what # "exit" /\ e.what \in Watches /\ e.n = phone'.since
  BY <1>3 DEF WireEvents, Watches
<1>5. Send(e) /\ followed # "size" /\ (e.what = "owned" <=> phone'.owner = "phone")
  <2>1. CASE PhoneOwns  BY <2>1, <1>0 DEF PhoneOwns, Phones, Event
  <2>2. CASE PhoneYields  BY <1>0, <2>2 DEF WatchInv, PhoneInv, PhoneYields, Phones, PhoneOwns, Event
  <2> QED
    BY <2>1, <2>2
<1> HIDE DEF e
<1>6. wire' \in Seq(WireEvents) /\ Sent(e)
  BY <1>0, <1>4, <1>5, SendIs
<1>8. PhoneInv' /\ SeedInv' /\ FreezeInv' /\ NarrowInv'
  BY <1>1, <1>4, <1>5, <1>6, NewsSent
<1>9. StreamInv'
  <2>1. PICK d \in Nat : WireInv(d) /\ ExitInv(d) /\ ReplayInv(d) /\ ScreenInv(d)
    BY DEF StreamInv
  <2>0. /\ Len(wire') = Len(wire) + 1 /\ wire'[Len(wire) + 1] = e
        /\ \A i \in 1..Len(wire) : wire'[i] = wire[i]
    BY <1>6 DEF Sent
  <2>3. ExitInv(d)'
    <3>1. ASSUME NEW i \in 1..Len(wire'), wire'[i].what = "exit"
          PROVE  tty.exited = TRUE /\ \A j \in 1..Len(wire') : i < j => wire'[j].what # "output"
      <4>1. i \in 1..Len(wire) /\ wire[i].what = "exit"
        BY <1>0, <1>4, <2>0, <3>1
      <4> QED
        BY <1>0, <1>4, <2>0, <2>1, <4>1 DEF ExitInv
    <3> QED
      BY <1>1, <2>1, <3>1 DEF ExitInv
  <2>4. ReplayInv(d)' /\ ScreenInv(d)'
    BY <1>1, <2>1 DEF ReplayInv, ScreenInv
  <2> QED  BY <1>0, <1>1, <1>4, <1>6, <2>1, OrderSent, <2>3, <2>4 DEF StreamInv
<1> QED  BY <1>0, <1>1, <1>3, <1>6, <1>8, <1>9 DEF WatchInv, PaneTypes

-----------------------------------------------------------------------------
(* A pane comes, goes, and asks how the phone stands.                      *)

LEMMA DeliveredIs ==
  ASSUME PaneTypes, NEW d \in Nat, WireInv(d)
  PROVE  Delivered = d
<1>0. tty.made \in Nat /\ d <= tty.made
  BY DEF PaneTypes, Ttys, WireInv
<1>1. OnWire = d + 1..tty.made
  BY DEF OnWire, WireInv
<1>2. \A a, b \in Int : Cardinality(a..b) = IF a > b THEN 0 ELSE b - a + 1
  BY FS_Interval
<1>3. Cardinality(d + 1..tty.made) = tty.made - d
  <2> DEFINE low == d + 1
             top == tty.made
  <2>1. low \in Int /\ top \in Int
    BY <1>0
  <2>2. Cardinality(low..top) = IF low > top THEN 0 ELSE top - low + 1
    BY <1>2, <2>1, Zenon
  <2> QED  BY <2>2, <1>0
<1> QED
  BY <1>0, <1>1, <1>3 DEF Delivered

LEMMA MountKeeps ==
  ASSUME WatchInv, StreamInv, Mount
  PROVE  WatchInv' /\ StreamInv'
<1> DEFINE start == IF status = "exited" THEN Delivered + 1 ELSE Highest(1, Delivered - MaxReplay + 1)
           ask == IF followed = "stream" THEN "asked" ELSE "none"
           seed == [state |-> ask, owned |-> FALSE, since |-> 0, behind |-> 0]
           sized == (followed = "size")
           p == [on |-> TRUE, visible |-> TRUE, fit |-> sized, observed |-> sized, size |-> <<0, 0>>,
                 screen |-> replay, pending |-> <<>>, frozen |-> FALSE, sawLive |-> FALSE,
                 seed |-> seed, from |-> start, aside |-> {}]
<1>0. /\ PaneTypes /\ replay \in Seq(Nat) /\ MaxReplay \in Nat
      /\ UNCHANGED <<tty, phone, wire, replay, status, box, font, followed>>
      /\ status \in {"running", "exited"} /\ followed \in {"stream", "size"} /\ sized \in BOOLEAN
  BY ReplayAssumption DEF WatchInv, PaneTypes, Mount
<1>1. xterm' = p
  BY ZenonT(60) DEF Mount, NoPane, NoSeed
<1>2. pleat' = [from |-> 0, open |-> FALSE, bytes |-> <<>>]
  BY DEF Mount, NoPleat
<1>3. PICK d \in Nat : WireInv(d) /\ ExitInv(d) /\ ReplayInv(d) /\ ScreenInv(d)
  BY DEF StreamInv
<1>5. start \in Nat /\ start \in 1..d + 1 /\ (status = "exited" => start = d + 1)
      /\ (status = "running" => start = IF d > MaxReplay THEN d - MaxReplay + 1 ELSE 1)
  BY <1>0, <1>3, DeliveredIs DEF Highest
<1> HIDE DEF start
<1>7. p \in Xterms /\ pleat' \in Pleats  BY <1>0, <1>2, <1>5 DEF Xterms, Pleats, PaneSizes, Seeds
<1>8. PaneTypes'
  BY <1>0, <1>1, <1>7 DEF PaneTypes
<1>9. /\ xterm'.on = TRUE /\ xterm'.frozen = FALSE /\ xterm'.sawLive = FALSE /\ xterm'.seed.state = ask
      /\ xterm'.from = start /\ xterm'.aside = {} /\ xterm'.screen = replay /\ xterm'.pending = <<>>
      /\ pleat'.open = FALSE /\ pleat'.bytes = <<>>
  BY <1>1, <1>2
<1>10. PhoneInv'
  BY <1>0 DEF WatchInv, PhoneInv, Calm
<1>11. SeedInv'
  BY <1>9 DEF SeedInv
<1>12. FreezeInv'  BY <1>0, <1>9 DEF FreezeInv, WatchInv, PhoneInv
<1>13. NarrowInv'
  BY <1>0, <1>9 DEF WatchInv, NarrowInv, Calm
<1>14. WireInv(d)' /\ ExitInv(d)' /\ ReplayInv(d)'
  BY <1>0, <1>3 DEF WireInv, ExitInv, ReplayInv
<1>15. ScreenInv(d)'
  <2>1. xterm'.screen \o xterm'.pending = replay
    BY <1>0, <1>9
  <2>2. CASE status = "exited"
    <3>2. Rising(replay) /\ ToSet(replay) = {}  BY <1>3, <2>2 DEF Rising, ToSet, ReplayInv
    <3>3. ToSet(replay) \cup {} = start..d
      BY <1>5, <2>2, <3>2
    <3> QED
      BY <1>5, <1>9, <2>1, <3>2, <3>3 DEF ScreenInv
  <2>3. CASE status = "running"
    <3>1. /\ Len(replay) = IF d > MaxReplay THEN MaxReplay ELSE d
          /\ \A i \in 1..Len(replay) : replay[i] = d - Len(replay) + i
      BY <1>3, <2>3 DEF ReplayInv
    <3>2. Rising(replay)
      <4>1. ASSUME NEW i \in 1..Len(replay), NEW j \in 1..Len(replay), i < j
            PROVE  replay[i] < replay[j]
        <5>1. replay[i] = d - Len(replay) + i /\ replay[j] = d - Len(replay) + j /\ Len(replay) \in Nat
          BY <1>0, <3>1, <4>1
        <5> QED
          BY <4>1, <5>1
      <4> QED
        BY <4>1 DEF Rising
    <3>4. ASSUME NEW k \in start..d
          PROVE  k \in ToSet(replay)
      <4>1. k - d + Len(replay) \in 1..Len(replay) /\ replay[k - d + Len(replay)] = k
        BY <3>1, <1>0, <1>5, <2>3, <3>4
      <4> QED  BY <1>0, <1>5, <2>3, <3>1, <4>1 DEF ToSet
    <3>5. ASSUME NEW k \in ToSet(replay)
          PROVE  k \in start..d  BY <3>1, <1>0, <1>5, <2>3, <3>5 DEF ToSet
    <3> QED
      BY <1>5, <1>9, <2>1, <3>2, <3>4, <3>5 DEF ScreenInv
  <2> QED
    BY <1>0, <2>2, <2>3
<1> QED
  BY <1>8, <1>10, <1>11, <1>12, <1>13, <1>14, <1>15 DEF WatchInv, StreamInv

LEMMA UnmountKeeps ==
  ASSUME WatchInv, StreamInv, Unmount
  PROVE  WatchInv' /\ StreamInv'
<1>0. /\ PaneTypes /\ UNCHANGED <<tty, phone, wire, replay, status, box, font, followed>>
  BY DEF WatchInv, Unmount
<1>3. PaneTypes'  BY <1>0 DEF PaneTypes, NoPane, NoSeed, NoPleat, Pleats, Xterms, Seeds, PaneSizes, Unmount
<1>4. xterm'.on = FALSE /\ pleat'.bytes = <<>>
  BY DEF NoPane, NoSeed, NoPleat, Pleats, Xterms, Seeds, PaneSizes, Unmount
<1>6. NarrowInv'
  BY <1>0, <1>4 DEF WatchInv, NarrowInv, Calm
<1>7. PICK d \in Nat : WireInv(d) /\ ExitInv(d) /\ ReplayInv(d) /\ ScreenInv(d)
  BY DEF StreamInv
<1>8. WireInv(d)' /\ ExitInv(d)' /\ ReplayInv(d)' /\ ScreenInv(d)'
  BY <1>0, <1>4, <1>7 DEF WireInv, ExitInv, ReplayInv, ScreenInv
<1> QED  BY <1>3, <1>0, <1>4, <1>6, <1>8 DEF WatchInv, StreamInv, PhoneInv, SeedInv, FreezeInv, Calm

LEMMA AskKeeps ==
  ASSUME WatchInv, StreamInv, SeedTaken
  PROVE  WatchInv' /\ StreamInv'
<1> DEFINE seed == [state |-> "taken", owned |-> (phone.owner = "phone"), since |-> phone.since,
                    behind |-> Len(wire)]
<1>0. /\ PaneTypes /\ xterm \in Xterms /\ phone \in Phones /\ Len(wire) \in Nat
      /\ UNCHANGED <<tty, phone, wire, replay, status, pleat, box, font, followed>>
      /\ xterm.seed.state = "asked"
  BY DEF WatchInv, PaneTypes, SeedTaken
<1>1. xterm' = [xterm EXCEPT !.seed = seed]
  BY DEF SeedTaken
<1>2. seed \in Seeds /\ seed.state = "taken" /\ (seed.owned = TRUE <=> phone.owner = "phone")
      /\ seed.since = phone.since /\ seed.behind = Len(wire)
  BY <1>0 DEF Seeds, Phones
<1> HIDE DEF seed
<1>3. /\ xterm' \in Xterms /\ xterm'.on = xterm.on /\ xterm'.frozen = xterm.frozen
      /\ xterm'.sawLive = xterm.sawLive /\ xterm'.seed = seed /\ xterm'.from = xterm.from
      /\ xterm'.aside = xterm.aside /\ xterm'.screen = xterm.screen /\ xterm'.pending = xterm.pending
  BY <1>0, <1>1, <1>2 DEF Xterms
<1>4. PaneTypes'
  BY <1>0, <1>3 DEF PaneTypes
<1>5. PhoneInv'
  BY <1>0 DEF WatchInv, PhoneInv, Calm
<1>6. SeedInv'
  BY <1>0, <1>2, <1>3 DEF WatchInv, SeedInv, Calm
<1>7. FreezeInv'
  BY <1>0, <1>2, <1>3 DEF WatchInv, FreezeInv, Calm
<1>8. NarrowInv'
  BY <1>0, <1>2, <1>3 DEF WatchInv, NarrowInv, Calm
<1>9. StreamInv'
  BY <1>0, <1>3, StreamStays
<1> QED
  BY <1>4, <1>5, <1>6, <1>7, <1>8, <1>9 DEF WatchInv

\* A pane freezes, and the pleat of the watch opens.
LEMMA OwnedIs ==
  ASSUME PaneTypes, NEW p \in Xterms, NEW since \in Nat, Owned(p, since)
  PROVE  /\ xterm' \in Xterms /\ xterm'.on = p.on /\ xterm'.frozen = TRUE
         /\ xterm'.sawLive = p.sawLive /\ xterm'.seed = p.seed /\ xterm'.from = p.from
         /\ xterm'.aside = p.aside /\ xterm'.screen = p.screen /\ xterm'.pending = p.pending
         /\ pleat' \in Pleats /\ pleat'.from = since /\ pleat'.open = TRUE
         /\ (pleat'.bytes = pleat.bytes \/ pleat'.bytes = <<>>)
<1>3. pleat' \in Pleats /\ pleat'.from = since /\ pleat'.open = TRUE
      /\ (pleat'.bytes = pleat.bytes \/ pleat'.bytes = <<>>)  BY DEF Pleats, Owned, PaneTypes
<1> QED  BY <1>3 DEF Xterms, Owned, PaneTypes

LEMMA SeedKeeps ==
  ASSUME WatchInv, StreamInv, SeedArrives
  PROVE  WatchInv' /\ StreamInv'
<1> DEFINE p == [xterm EXCEPT !.seed = NoSeed]
<1>0. /\ PaneTypes /\ xterm \in Xterms /\ pleat \in Pleats /\ xterm.seed \in Seeds
      /\ UNCHANGED <<tty, phone, wire, replay, status, box, font, followed>>
      /\ xterm.seed.state = "taken" /\ xterm.seed.behind = 0
  BY DEF WatchInv, PaneTypes, SeedArrives, Xterms
<1>1. NoSeed \in Seeds /\ NoSeed.state = "none"
  BY DEF NoSeed, Seeds
<1>2. /\ p \in Xterms /\ p.on = xterm.on /\ p.frozen = xterm.frozen /\ p.sawLive = xterm.sawLive
      /\ p.seed = NoSeed /\ p.from = xterm.from
      /\ p.aside = xterm.aside /\ p.screen = xterm.screen /\ p.pending = xterm.pending
  BY <1>0, <1>1 DEF Xterms
<1>3. \/ SeedCounts(xterm) /\ Owned(p, xterm.seed.since)
      \/ ~SeedCounts(xterm) /\ xterm' = p /\ pleat' = pleat
  BY DEF SeedArrives
<1> HIDE DEF p
<1>4. CASE SeedCounts(xterm) /\ Owned(p, xterm.seed.since)
  <2>0. xterm.seed.owned = TRUE /\ xterm.sawLive = FALSE /\ xterm.seed.since \in Nat
    BY <1>0, <1>4 DEF SeedCounts, Xterms, Seeds
  <2>1. /\ xterm' \in Xterms /\ xterm'.on = xterm.on /\ xterm'.frozen = TRUE
        /\ xterm'.sawLive = FALSE /\ xterm'.seed = NoSeed /\ xterm'.from = xterm.from
        /\ xterm'.aside = xterm.aside /\ xterm'.screen = xterm.screen /\ xterm'.pending = xterm.pending
        /\ pleat' \in Pleats /\ pleat'.from = xterm.seed.since /\ pleat'.open = TRUE
        /\ (pleat'.bytes = pleat.bytes \/ pleat'.bytes = <<>>)
    BY <1>0, <1>2, <1>4, <2>0, OwnedIs
  <2>2. PaneTypes'
    BY <1>0, <2>1 DEF PaneTypes
  <2>3. PhoneInv'
    BY <1>0 DEF WatchInv, PhoneInv, Calm
  <2>4. SeedInv'
    BY <1>1, <2>1 DEF SeedInv
  <2>5. FreezeInv'  BY <1>0, <2>1, <2>0 DEF FreezeInv, Calm, WatchInv, SeedInv
  <2>6. NarrowInv'  BY <1>0, <1>1, <2>1, <2>0 DEF WatchInv, NarrowInv, Calm
  <2>7. StreamInv'
    BY <1>0, <2>1, StreamStays
  <2> QED
    BY <2>2, <2>3, <2>4, <2>5, <2>6, <2>7 DEF WatchInv
<1>5. CASE ~SeedCounts(xterm) /\ xterm' = p /\ pleat' = pleat
  <2>1. /\ xterm' \in Xterms /\ xterm'.on = xterm.on /\ xterm'.frozen = xterm.frozen
        /\ xterm'.sawLive = xterm.sawLive /\ xterm'.seed = NoSeed /\ xterm'.from = xterm.from
        /\ xterm'.aside = xterm.aside /\ xterm'.screen = xterm.screen /\ xterm'.pending = xterm.pending
    BY <1>2, <1>5
  <2>2. PaneTypes'
    BY <1>0, <1>5, <2>1 DEF PaneTypes
  <2>3. PhoneInv'
    BY <1>0 DEF WatchInv, PhoneInv, Calm
  <2>4. SeedInv'
    BY <1>1, <2>1 DEF SeedInv
  <2>5. FreezeInv'
    <3>1. CASE xterm.sawLive = TRUE
      BY <1>0, <1>5, <2>1, <3>1 DEF WatchInv, FreezeInv, Calm
    <3>2. CASE xterm.sawLive = FALSE
      <4>1. xterm.on = TRUE => xterm.frozen = FALSE /\ pleat.open = FALSE
        BY <1>0, <3>2 DEF WatchInv, SeedInv
      <4>2. (xterm.on = TRUE /\ Calm(wire, 0, Len(wire) + 1)) => phone.owner # "phone"
        BY <1>0, <1>5, <3>2 DEF WatchInv, SeedInv, SeedCounts, Xterms, Seeds
      <4> QED
        BY <1>0, <1>5, <2>1, <4>1, <4>2 DEF FreezeInv, Calm
    <3> QED
      BY <1>0, <3>1, <3>2 DEF Xterms
  <2>6. NarrowInv'
    BY <1>0, <1>1, <1>5, <2>1 DEF WatchInv, NarrowInv, Calm
  <2>7. StreamInv'
    BY <1>0, <2>1, StreamStays
  <2> QED
    BY <2>2, <2>3, <2>4, <2>5, <2>6, <2>7 DEF WatchInv
<1> QED
  BY <1>3, <1>4, <1>5

LEMMA DismissKeeps ==
  ASSUME WatchInv, StreamInv, DismissPleat
  PROVE  WatchInv' /\ StreamInv'
<1>0. PaneTypes /\ UNCHANGED <<tty, phone, wire, replay, status, xterm, box, font, followed>>
  BY DEF WatchInv, DismissPleat
<1>1. pleat' \in Pleats /\ pleat'.open = FALSE /\ pleat'.bytes = <<>>
  BY DEF DismissPleat, NoPleat, Pleats
<1>2. PaneTypes'
  BY <1>0, <1>1 DEF PaneTypes
<1>3. PhoneInv'
  BY <1>0 DEF WatchInv, PhoneInv, Calm
<1>4. SeedInv'
  BY <1>0, <1>1 DEF WatchInv, SeedInv, Calm
<1>5. FreezeInv'
  BY <1>0, <1>1 DEF WatchInv, FreezeInv, Calm
<1>6. NarrowInv'
  BY <1>0, <1>1 DEF WatchInv, NarrowInv, Calm
<1>7. StreamInv'
  BY <1>0, StreamStays
<1> QED
  BY <1>2, <1>3, <1>4, <1>5, <1>6, <1>7 DEF WatchInv

-----------------------------------------------------------------------------
(* What the window hears.                                                  *)

\* The first event leaves the wire.
LEMMA HeardIs ==
  ASSUME PaneTypes, wire # <<>>, wire' = Tail(wire)
  PROVE  /\ Len(wire) \in Nat /\ Len(wire) >= 1 /\ Len(wire') = Len(wire) - 1
         /\ \A i \in 1..Len(wire') : wire'[i] = wire[i + 1] /\ i + 1 \in 1..Len(wire)
         /\ wire' \in Seq(WireEvents) /\ Head(wire) = wire[1] /\ wire[1] \in WireEvents
  BY DEF PaneTypes

LEMMA CalmHeard ==
  ASSUME PaneTypes, wire # <<>>, wire' = Tail(wire)
  PROVE  /\ \A i, j \in Nat : Calm(wire', i, j) <=> Calm(wire, i + 1, j + 1)
         /\ wire[1].what \notin Watches => \A j \in Nat : Calm(wire, 1, j) <=> Calm(wire, 0, j)
         /\ Calm(wire, 0, 1)
<1>0. /\ Len(wire) \in Nat /\ Len(wire) >= 1 /\ Len(wire') = Len(wire) - 1
      /\ \A i \in 1..Len(wire') : wire'[i] = wire[i + 1] /\ i + 1 \in 1..Len(wire)
  BY HeardIs
<1>1. ASSUME NEW i \in Nat, NEW j \in Nat, Calm(wire, i + 1, j + 1)
      PROVE  Calm(wire', i, j)
  BY <1>0, <1>1 DEF Calm
<1>2. ASSUME NEW i \in Nat, NEW j \in Nat, Calm(wire', i, j)
      PROVE  Calm(wire, i + 1, j + 1)
  <2>1. ASSUME NEW k \in 1..Len(wire), i + 1 < k, k < j + 1
        PROVE  wire[k].what \notin Watches  BY <1>2, <1>0, <2>1 DEF Calm
  <2> QED
    BY <2>1 DEF Calm
<1>3. wire[1].what \notin Watches => \A j \in Nat : Calm(wire, 1, j) <=> Calm(wire, 0, j)
  BY <1>0 DEF Calm
<1>4. Calm(wire, 0, 1)
  BY <1>0 DEF Calm
<1> QED
  BY <1>1, <1>2, <1>3, <1>4

LEMMA PhoneHeard ==
  ASSUME WatchInv, wire # <<>>, wire' = Tail(wire), UNCHANGED <<phone, followed>>
  PROVE  PhoneInv'
<1>1. ASSUME NEW j \in 1..Len(wire'), wire'[j].what \in Watches, Calm(wire', j, Len(wire') + 1)
      PROVE  (wire'[j].what = "owned" <=> phone.owner = "phone") /\ wire'[j].n = phone.since
  <2>1. Calm(wire, j + 1, Len(wire') + 1 + 1)  BY HeardIs, CalmHeard, <1>1 DEF WatchInv
  <2>2. Len(wire') + 1 + 1 = Len(wire) + 1 /\ wire'[j] = wire[j + 1] /\ j + 1 \in 1..Len(wire)
    BY HeardIs, CalmHeard DEF WatchInv
  <2> QED
    BY <1>1, <2>1, <2>2 DEF WatchInv, PhoneInv
<1> QED
  BY <1>1 DEF WatchInv, PhoneInv

\* What is narrow behind a watch stays so.
LEMMA BehindHeard ==
  ASSUME WatchInv, wire # <<>>, wire' = Tail(wire), UNCHANGED tty
  PROVE  \A i, j \in 1..Len(wire') :
            (j < i /\ wire'[j].what = "owned" /\ wire'[i].what = "output" /\ Calm(wire', j, i)) =>
               wire'[i].n \in tty'.narrow
<1>1. ASSUME NEW i \in 1..Len(wire'), NEW j \in 1..Len(wire'), j < i, wire'[j].what = "owned",
             wire'[i].what = "output", Calm(wire', j, i)
      PROVE  wire'[i].n \in tty.narrow  BY <1>1, HeardIs, CalmHeard DEF WatchInv, NarrowInv
<1> QED
  BY <1>1

Later(b) == IF b > 0 THEN b - 1 ELSE 0

\* The pane goes on as it is.
LEMMA PlainHeard ==
  ASSUME WatchInv, wire # <<>>, wire' = Tail(wire), wire[1].what \notin Watches,
         UNCHANGED <<tty, phone, followed>>, xterm'.on = xterm.on,
         pleat'.open = pleat.open, pleat'.from = pleat.from,
         \A i \in 1..Len(pleat'.bytes) : pleat'.bytes[i] \in tty.narrow,
         xterm.on = TRUE =>
           /\ xterm'.frozen = xterm.frozen /\ xterm'.sawLive = xterm.sawLive
           /\ xterm'.seed.state = xterm.seed.state /\ xterm'.seed.owned = xterm.seed.owned
           /\ xterm'.seed.since = xterm.seed.since /\ xterm'.seed.behind = Later(xterm.seed.behind)
  PROVE  PhoneInv' /\ SeedInv' /\ FreezeInv' /\ NarrowInv'
<1>0. /\ PaneTypes /\ Len(wire) \in Nat /\ Len(wire) >= 1 /\ Len(wire') = Len(wire) - 1
      /\ \A i \in 1..Len(wire') : wire'[i] = wire[i + 1] /\ i + 1 \in 1..Len(wire)
  BY HeardIs DEF WatchInv
<1>c. /\ \A i, j \in Nat : Calm(wire', i, j) <=> Calm(wire, i + 1, j + 1)
      /\ \A j \in Nat : Calm(wire, 1, j) <=> Calm(wire, 0, j)
  BY CalmHeard DEF WatchInv
<1>b. xterm.seed.behind \in Nat
  BY <1>0 DEF PaneTypes, Xterms, Seeds
<1>d. \A j \in Nat : Calm(wire', Later(xterm.seed.behind), j) <=> Calm(wire, xterm.seed.behind, j + 1)
  <2>1. CASE xterm.seed.behind = 0
    <3>1. Later(xterm.seed.behind) = 0
      BY <2>1 DEF Later
    <3>2. \A j \in Nat : Calm(wire', 0, j) <=> Calm(wire, 1, j + 1)
      BY <1>c
    <3>3. \A j \in Nat : Calm(wire, 1, j + 1) <=> Calm(wire, 0, j + 1)
      BY <1>c
    <3> QED
      BY <2>1, <3>1, <3>2, <3>3
  <2>2. CASE xterm.seed.behind # 0
    <3>1. Later(xterm.seed.behind) \in Nat /\ Later(xterm.seed.behind) + 1 = xterm.seed.behind
      BY <1>b, <2>2 DEF Later
    <3> QED
      BY <1>c, <3>1
  <2> QED
    BY <2>1, <2>2
<1>2. SeedInv'
  <2>1. Calm(wire', Later(xterm.seed.behind), Len(wire') + 1) <=> Calm(wire, xterm.seed.behind, Len(wire) + 1)
    BY <1>d, <1>0
  <2> QED  BY <2>1, <1>0, <1>b DEF WatchInv, SeedInv, Later
<1>3. FreezeInv'  BY <1>0, <1>c DEF WatchInv, FreezeInv
<1>4. NarrowInv'
  <2>2. ASSUME xterm.on = TRUE, xterm.frozen = TRUE, NEW i \in 1..Len(wire'),
               wire'[i].what = "output", Calm(wire', 0, i)
        PROVE  wire'[i].n \in tty.narrow
    <3>1. Calm(wire, 0, i + 1) /\ wire'[i] = wire[i + 1] /\ i + 1 \in 1..Len(wire)
      BY <1>0, <1>c, <2>2
    <3> QED
      BY <2>2, <3>1 DEF WatchInv, NarrowInv
  <2>3. ASSUME xterm.on = TRUE, xterm.seed.state = "taken", xterm.seed.owned = TRUE, xterm.sawLive = FALSE,
               NEW i \in 1..Len(wire'), Later(xterm.seed.behind) < i, wire'[i].what = "output",
               Calm(wire', Later(xterm.seed.behind), i)
        PROVE  wire'[i].n \in tty.narrow
    <3>1. Calm(wire, xterm.seed.behind, i + 1) /\ wire'[i] = wire[i + 1] /\ i + 1 \in 1..Len(wire)
      BY <1>0, <1>d, <2>3
    <3> QED  BY <2>3, <3>1, <1>b DEF WatchInv, NarrowInv, Later
  <2> QED  BY BehindHeard, <2>2, <2>3 DEF NarrowInv
<1> QED  BY PhoneHeard, <1>2, <1>3, <1>4

\* The pane hears of the phone, or there is none.
LEMMA NewsHeard ==
  ASSUME WatchInv, wire # <<>>, wire' = Tail(wire), wire[1].what \in Watches,
         UNCHANGED <<tty, phone, followed>>, xterm'.on = xterm.on,
         \A i \in 1..Len(pleat'.bytes) : pleat'.bytes[i] \in tty.narrow,
         xterm.on = TRUE =>
           /\ xterm'.sawLive = TRUE /\ (xterm'.frozen = TRUE <=> wire[1].what = "owned")
           /\ pleat'.open = TRUE => wire[1].what = "owned" /\ pleat'.from = wire[1].n
           /\ xterm'.seed.state = xterm.seed.state /\ xterm'.seed.behind = Later(xterm.seed.behind)
  PROVE  PhoneInv' /\ SeedInv' /\ FreezeInv' /\ NarrowInv'
<1>0. /\ PaneTypes /\ Len(wire) \in Nat /\ Len(wire) >= 1 /\ Len(wire') = Len(wire) - 1
      /\ \A i \in 1..Len(wire') : wire'[i] = wire[i + 1] /\ i + 1 \in 1..Len(wire)
      /\ \A i, j \in Nat : Calm(wire', i, j) <=> Calm(wire, i + 1, j + 1)
  BY HeardIs, CalmHeard DEF WatchInv
<1>b. xterm.seed.behind \in Nat
  BY <1>0 DEF PaneTypes, Xterms, Seeds
<1>2. SeedInv'
  <2>1. (xterm.on = TRUE /\ xterm.seed.state = "taken") => Later(xterm.seed.behind) <= Len(wire')
    BY SMTT(30), <1>0, <1>b DEF WatchInv, SeedInv, Later
  <2> QED
    BY <2>1 DEF SeedInv
<1>3. FreezeInv'
  <2>1. ASSUME xterm.on = TRUE, Calm(wire', 0, Len(wire') + 1)
        PROVE  (wire[1].what = "owned" <=> phone.owner = "phone") /\ wire[1].n = phone.since
    BY <1>0, <2>1 DEF WatchInv, PhoneInv
  <2> QED
    BY <2>1 DEF FreezeInv
<1>4. NarrowInv'
  <2>2. ASSUME wire[1].what = "owned", NEW i \in 1..Len(wire'),
               wire'[i].what = "output", Calm(wire', 0, i)
        PROVE  wire'[i].n \in tty.narrow
    <3>1. /\ Calm(wire, 1, i + 1) /\ wire'[i] = wire[i + 1] /\ i + 1 \in 1..Len(wire)
          /\ 1 \in 1..Len(wire) /\ 1 < i + 1
      BY <1>0, <2>2
    <3> QED
      BY <2>2, <3>1 DEF WatchInv, NarrowInv
  <2> QED  BY BehindHeard, <2>2 DEF NarrowInv
<1> QED  BY PhoneHeard, <1>2, <1>3, <1>4

LEMMA OnwardIs ==
  ASSUME PaneTypes
  PROVE  /\ Onward \in Xterms /\ Onward.on = xterm.on /\ Onward.frozen = xterm.frozen
         /\ Onward.sawLive = xterm.sawLive /\ Onward.from = xterm.from
         /\ Onward.aside = xterm.aside /\ Onward.screen = xterm.screen /\ Onward.pending = xterm.pending
         /\ Onward.seed.state = xterm.seed.state /\ Onward.seed.owned = xterm.seed.owned
         /\ Onward.seed.since = xterm.seed.since /\ Onward.seed.behind = Later(xterm.seed.behind)
<1> DEFINE s == [xterm.seed EXCEPT !.behind = Later(xterm.seed.behind)]
<1>0. xterm \in Xterms /\ xterm.seed \in Seeds /\ xterm.seed.behind \in Nat
  BY DEF PaneTypes, Xterms, Seeds
<1>2. Onward = [xterm EXCEPT !.seed = s]
  BY <1>0 DEF Onward, Later, Xterms
<1>3. s \in Seeds /\ s.state = xterm.seed.state /\ s.owned = xterm.seed.owned
      /\ s.since = xterm.seed.since /\ s.behind = Later(xterm.seed.behind)  BY <1>0 DEF Seeds, Later
<1> HIDE DEF s
<1> QED
  BY <1>0, <1>2, <1>3 DEF Xterms

\* Output comes in order.
LEMMA OrderHeard ==
  ASSUME PaneTypes, NEW d \in Nat, WireInv(d), wire # <<>>, wire' = Tail(wire), UNCHANGED tty
  PROVE  /\ wire[1].what # "output" => WireInv(d)'
         /\ wire[1].what = "output" => wire[1].n = d + 1 /\ d + 1 <= tty.made /\ WireInv(d + 1)'
<1>0. /\ Len(wire) \in Nat /\ Len(wire) >= 1 /\ Len(wire') = Len(wire) - 1 /\ tty.made \in Nat
      /\ \A i \in 1..Len(wire') : wire'[i] = wire[i + 1] /\ i + 1 \in 1..Len(wire)
  BY HeardIs DEF PaneTypes, Ttys
<1>1. \A i, j \in 1..Len(wire') :
        (i < j /\ wire'[i].what = "output" /\ wire'[j].what = "output") => wire'[i].n < wire'[j].n
  <2>1. ASSUME NEW i \in 1..Len(wire'), NEW j \in 1..Len(wire'), i < j,
               wire'[i].what = "output", wire'[j].what = "output"
        PROVE  wire'[i].n < wire'[j].n  BY <2>1, <1>0 DEF WireInv
  <2> QED
    BY <2>1
<1>2. \A i \in 1..Len(wire') : wire'[i].what = "output" => wire'[i].n \in d + 1..tty.made
  BY <1>0 DEF WireInv
<1>3. ASSUME NEW i \in 1..Len(wire), i # 1
      PROVE  i - 1 \in 1..Len(wire') /\ wire'[i - 1] = wire[i]
  BY <1>0, <1>3
<1>4. CASE wire[1].what # "output"
  <2>1. ASSUME NEW n \in d + 1..tty.made
        PROVE  \E i \in 1..Len(wire') : wire'[i].what = "output" /\ wire'[i].n = n
    <3>1. PICK i \in 1..Len(wire) : wire[i].what = "output" /\ wire[i].n = n
      BY DEF WireInv
    <3> QED  BY <3>1, <1>3, <1>4
  <2>2. d <= tty.made
    BY DEF WireInv
  <2> QED
    BY <1>1, <1>2, <1>4, <2>1, <2>2 DEF WireInv
<1>5. CASE wire[1].what = "output"
  <2>1. 1 \in 1..Len(wire) /\ wire[1].n \in d + 1..tty.made
    BY <1>0, <1>5 DEF WireInv
  <2>3. PICK i \in 1..Len(wire) : wire[i].what = "output" /\ wire[i].n = d + 1  BY <1>0, <2>1 DEF WireInv
  <2>5. wire[1].n = d + 1  BY <2>1, <2>3, <1>0, <1>5 DEF WireInv
  <2>6. ASSUME NEW k \in 1..Len(wire'), wire'[k].what = "output"
        PROVE  wire'[k].n \in d + 1 + 1..tty.made
    <3>2. wire[1].n < wire[k + 1].n  BY <1>5, <2>1, <2>6, <1>0 DEF WireInv
    <3>3. wire[k + 1].n \in d + 1..tty.made  BY <1>2, <2>6, <1>0
    <3> QED  BY <2>5, <1>0, <2>6, <3>2, <3>3
  <2>7. ASSUME NEW n \in d + 1 + 1..tty.made
        PROVE  \E k \in 1..Len(wire') : wire'[k].what = "output" /\ wire'[k].n = n
    <3>2. PICK k \in 1..Len(wire) : wire[k].what = "output" /\ wire[k].n = n  BY <1>0, <2>7 DEF WireInv
    <3> QED  BY <3>2, <1>3, <2>5, <1>0, <2>7
  <2>8. d + 1 <= tty.made  BY <1>0, <2>1
  <2> QED
    BY <1>1, <1>5, <2>5, <2>6, <2>7, <2>8 DEF WireInv
<1> QED
  BY <1>4, <1>5

LEMMA ExitHeard ==
  ASSUME PaneTypes, NEW d \in Nat, ExitInv(d), wire # <<>>, wire' = Tail(wire), UNCHANGED tty
  PROVE  \A i \in 1..Len(wire') : wire'[i].what = "exit" =>
           tty.exited = TRUE /\ \A j \in 1..Len(wire') : i < j => wire'[j].what # "output"
<1>1. ASSUME NEW i \in 1..Len(wire'), wire'[i].what = "exit"
      PROVE  tty.exited = TRUE /\ \A j \in 1..Len(wire') : i < j => wire'[j].what # "output"
  <2>3. ASSUME NEW j \in 1..Len(wire'), i < j
        PROVE  wire'[j].what # "output"  BY HeardIs, <1>1, <2>3 DEF ExitInv
  <2> QED  BY HeardIs, <1>1, <2>3 DEF ExitInv
<1> QED
  BY <1>1

\* The buffer keeps the last of the output.
LEMMA RecordedIs ==
  ASSUME PaneTypes, NEW d \in Nat, ReplayInv(d), status = "running",
         replay' = Recorded(d + 1), status' = status
  PROVE  replay' \in Seq(Nat) /\ ReplayInv(d + 1)'
<1> DEFINE all == Append(replay, d + 1)
<1>0. /\ replay \in Seq(Nat) /\ MaxReplay \in Nat /\ Len(replay) \in Nat
      /\ Len(replay) = IF d > MaxReplay THEN MaxReplay ELSE d
      /\ \A i \in 1..Len(replay) : replay[i] = d - Len(replay) + i
  BY ReplayAssumption DEF PaneTypes, ReplayInv
<1>1. all \in Seq(Nat) /\ Len(all) = Len(replay) + 1
      /\ \A i \in 1..Len(replay) : all[i] = replay[i]
  BY <1>0
<1>2. \A i \in 1..Len(all) : all[i] = d - Len(replay) + i
  <2>1. ASSUME NEW i \in 1..Len(all)
        PROVE  all[i] = d - Len(replay) + i
    <3>1. CASE i \in 1..Len(replay)
      BY <1>0, <1>1, <3>1
    <3>2. CASE i = Len(replay) + 1  BY <1>0, <3>2
    <3> QED
      BY <1>0, <1>1, <2>1, <3>1, <3>2
  <2> QED
    BY <2>1
<1>3. replay' = IF Len(all) > MaxReplay THEN Tail(all) ELSE all
  BY DEF Recorded
<1> HIDE DEF all
<1>4. CASE Len(all) > MaxReplay
  <2>a. Tail(all) \in Seq(Nat) /\ Len(Tail(all)) = Len(all) - 1
        /\ \A i \in 1..Len(Tail(all)) : Tail(all)[i] = all[i + 1]  BY <1>1, <1>0, <1>3, <1>4
  <2>b. Len(all) - 1 = Len(replay)
    BY <1>0, <1>1
  <2>2. replay' \in Seq(Nat) /\ Len(replay') = Len(replay) /\ \A i \in 1..Len(replay') : replay'[i] = all[i + 1]
    BY <1>0, <1>1, <1>3, <1>4, <2>a, <2>b
  <2>3. \A i \in 1..Len(replay') : replay'[i] = d + 1 - Len(replay') + i
    <3>1. ASSUME NEW i \in 1..Len(replay')
          PROVE  replay'[i] = d + 1 - Len(replay') + i
      <4>1. i + 1 \in 1..Len(all) /\ i \in Nat
        BY <1>0, <1>1, <2>2
      <4>2. replay'[i] = d - Len(replay) + (i + 1)
        BY <1>2, <2>2, <4>1
      <4>3. Len(replay) \in Nat /\ Len(replay') = Len(replay)
        BY <1>0, <2>2
      <4>4. d - Len(replay) + (i + 1) = d + 1 - Len(replay) + i
        BY <4>1, <4>3
      <4> QED
        BY <4>2, <4>3, <4>4, Zenon
    <3> QED
      BY <3>1
  <2> QED  BY <2>2, <2>3, <1>0, <1>1, <1>4 DEF ReplayInv
<1>5. CASE ~(Len(all) > MaxReplay)
  <2>1. replay' = all
    BY <1>3, <1>5
  <2>2. \A i \in 1..Len(replay') : replay'[i] = d + 1 - Len(replay') + i
    <3>1. ASSUME NEW i \in 1..Len(all)
          PROVE  all[i] = d + 1 - Len(all) + i
      <4>1. all[i] = d - Len(replay) + i /\ i \in Nat
        BY <1>2
      <4> QED
        BY <1>0, <1>1, <4>1
    <3> QED
      BY <2>1, <3>1
  <2> QED  BY <1>1, <2>1, <2>2, <1>0, <1>5 DEF ReplayInv
<1> QED
  BY <1>4, <1>5

\* What a pane holds, with one more put aside or behind the rest.
LEMMA OneMore ==
  ASSUME NEW s \in Seq(Nat), NEW p \in Seq(Nat), NEW n \in Nat
  PROVE  LET out == s \o p
             more == s \o Append(p, n)
         IN  /\ out \in Seq(Nat) /\ more = Append(out, n) /\ ToSet(more) = ToSet(out) \cup {n}
             /\ (Rising(out) /\ \A k \in ToSet(out) : k < n) => Rising(more)
<1> DEFINE out == s \o p
           more == s \o Append(p, n)
<1>3. /\ Len(more) = Len(out) + 1 /\ \A i \in 1..Len(out) : more[i] = out[i]
      /\ DOMAIN more = 1..Len(more) /\ DOMAIN out = 1..Len(out) /\ Len(out) \in Nat  OBVIOUS
<1>4. more[Len(out) + 1] = n  OBVIOUS
<1> HIDE DEF out, more
<1>5. ToSet(more) = ToSet(out) \cup {n}
  <2>1. ASSUME NEW k \in ToSet(more)
        PROVE  k \in ToSet(out) \cup {n}
    <3>1. PICK i \in 1..Len(more) : k = more[i]
      BY <1>3, <2>1 DEF ToSet
    <3>2. CASE i \in 1..Len(out)
      BY <1>3, <3>1, <3>2 DEF ToSet
    <3>3. CASE i = Len(out) + 1
      BY <1>4, <3>1, <3>3
    <3> QED
      BY <1>3, <3>1, <3>2, <3>3
  <2>2. ASSUME NEW k \in ToSet(out)
        PROVE  k \in ToSet(more)
    <3>1. PICK i \in 1..Len(out) : k = out[i]
      BY <1>3, <2>2 DEF ToSet
    <3> QED  BY <1>3, <3>1 DEF ToSet
  <2>3. n \in ToSet(more)
    <3>1. Len(out) + 1 \in 1..Len(more)
      BY <1>3
    <3> QED
      BY <1>3, <1>4, <3>1 DEF ToSet
  <2> QED
    BY <2>1, <2>2, <2>3
<1>6. ASSUME Rising(out), \A k \in ToSet(out) : k < n
      PROVE  Rising(more)
  <2>1. ASSUME NEW i \in 1..Len(more), NEW j \in 1..Len(more), i < j
        PROVE  more[i] < more[j]
    <3>1. i \in 1..Len(out) /\ more[i] = out[i]
      BY <1>3, <2>1
    <3>2. CASE j \in 1..Len(out)
      BY <1>3, <1>6, <2>1, <3>1, <3>2 DEF Rising
    <3>3. CASE j = Len(out) + 1
      <4>1. out[i] \in ToSet(out)
        BY <1>3, <3>1 DEF ToSet
      <4> QED
        BY <1>4, <1>6, <3>1, <3>3, <4>1
    <3> QED
      BY <1>3, <2>1, <3>2, <3>3
  <2> QED
    BY <2>1 DEF Rising
<1> QED  BY <1>5, <1>6 DEF out, more

LEMMA HearOutputKeeps ==
  ASSUME WatchInv, StreamInv, wire # <<>>, wire' = Tail(wire), HearOutput(Head(wire)),
         UNCHANGED <<tty, phone, box, font, followed>>
  PROVE  WatchInv' /\ StreamInv'
<1> DEFINE n == wire[1].n
<1>0. /\ PaneTypes /\ Len(wire) \in Nat /\ Len(wire) >= 1 /\ wire' \in Seq(WireEvents)
      /\ wire[1] \in WireEvents /\ Head(wire) = wire[1] /\ 1 \in 1..Len(wire)
  BY HeardIs DEF WatchInv
<1>1. /\ wire[1].what = "output" /\ replay' = Recorded(n) /\ Shown(n) /\ status' = status
      /\ "output" \notin Watches
  BY <1>0 DEF HearOutput, Watches
<1>2. PICK d \in Nat : WireInv(d) /\ ExitInv(d) /\ ReplayInv(d) /\ ScreenInv(d)
  BY DEF StreamInv
<1>3. n = d + 1 /\ d + 1 <= tty.made /\ WireInv(d + 1)'
  BY <1>0, <1>1, <1>2, OrderHeard
<1>5. replay' \in Seq(Nat) /\ ReplayInv(d + 1)'
  BY <1>0, <1>1, <1>2, <1>3, RecordedIs DEF ExitInv, PaneTypes, Ttys
<1>6. ExitInv(d + 1)'  BY <1>0, <1>2, <1>1, <1>3, ExitHeard DEF ExitInv, PaneTypes, Ttys
<1>7. /\ xterm \in Xterms /\ pleat \in Pleats /\ xterm.screen \in Seq(Nat) /\ xterm.pending \in Seq(Nat)
      /\ xterm.aside \in SUBSET Nat /\ pleat.bytes \in Seq(Nat) /\ n \in Nat /\ xterm.on \in BOOLEAN
      /\ xterm.frozen \in BOOLEAN
  BY <1>0, <1>2, <1>3 DEF PaneTypes, Xterms, Pleats
<1>8. \A i \in 1..Len(pleat.bytes) : pleat.bytes[i] \in tty.narrow
  BY DEF WatchInv, NarrowInv
<1> HIDE DEF n
<1>9. CASE ~xterm.on /\ UNCHANGED <<xterm, pleat>>
  <2>1. PaneTypes'
    BY <1>0, <1>1, <1>5, <1>9 DEF PaneTypes
  <2>2. PhoneInv' /\ SeedInv' /\ FreezeInv' /\ NarrowInv'
    BY <1>0, <1>1, <1>8, <1>9, PlainHeard
  <2>3. ScreenInv(d + 1)'
    BY <1>9 DEF ScreenInv
  <2> QED
    BY <1>3, <1>5, <1>6, <2>1, <2>2, <2>3 DEF WatchInv, StreamInv
<1>10. CASE /\ xterm.on /\ xterm.frozen
            /\ xterm' = [Onward EXCEPT !.aside = @ \cup {n}]
            /\ pleat' = [pleat EXCEPT !.bytes = Append(@, n)]
  <2>1. /\ xterm' \in Xterms /\ xterm'.on = xterm.on /\ xterm'.frozen = xterm.frozen
        /\ xterm'.sawLive = xterm.sawLive /\ xterm'.from = xterm.from
        /\ xterm'.aside = xterm.aside \cup {n} /\ xterm'.screen = xterm.screen /\ xterm'.pending = xterm.pending
        /\ xterm'.seed = Onward.seed
    <3>4. /\ xterm' \in Xterms /\ xterm'.on = Onward.on /\ xterm'.frozen = Onward.frozen
          /\ xterm'.sawLive = Onward.sawLive /\ xterm'.from = Onward.from
          /\ xterm'.aside = xterm.aside \cup {n} /\ xterm'.screen = Onward.screen
          /\ xterm'.pending = Onward.pending /\ xterm'.seed = Onward.seed
      BY <1>0, <1>10, OnwardIs, <1>7 DEF Xterms
    <3> QED
      BY <1>0, <3>4, OnwardIs
  <2>2. /\ pleat' \in Pleats /\ pleat'.open = pleat.open /\ pleat'.from = pleat.from
        /\ pleat'.bytes = Append(pleat.bytes, n)
    <3>1. pleat' = [pleat EXCEPT !.bytes = Append(pleat.bytes, n)] /\ Append(pleat.bytes, n) \in Seq(Nat)
      BY <1>7, <1>10
    <3> QED
      BY <1>7, <3>1 DEF Pleats
  <2>3. n \in tty.narrow
    <3>1. Calm(wire, 0, 1)
      BY <1>0, CalmHeard
    <3> QED
      BY <1>0, <1>1, <1>7, <1>10, <3>1 DEF WatchInv, NarrowInv, n
  <2>4. \A i \in 1..Len(pleat'.bytes) : pleat'.bytes[i] \in tty.narrow
    BY <1>7, <1>8, <2>2, <2>3
  <2>5. PaneTypes'
    BY <1>0, <1>1, <1>5, <2>1, <2>2 DEF PaneTypes
  <2>6. PhoneInv' /\ SeedInv' /\ FreezeInv' /\ NarrowInv'
    <3>1. /\ xterm'.seed.state = xterm.seed.state /\ xterm'.seed.owned = xterm.seed.owned
          /\ xterm'.seed.since = xterm.seed.since /\ xterm'.seed.behind = Later(xterm.seed.behind)
      BY <1>0, <2>1, OnwardIs
    <3> QED
      BY <1>0, <1>1, <2>1, <2>2, <2>4, <3>1, PlainHeard
  <2>7. ScreenInv(d + 1)'
    <3> DEFINE out == xterm.screen \o xterm.pending
    <3>1. /\ Rising(out) /\ ToSet(out) \cup xterm.aside = xterm.from..d
          /\ ToSet(out) \cap xterm.aside = {} /\ xterm.from \in 1..d + 1
      BY <1>2, <1>7, <1>10 DEF ScreenInv
    <3>2. xterm'.screen \o xterm'.pending = out
      BY <2>1
    <3> HIDE DEF out
    <3>3. xterm.from..d + 1 = (xterm.from..d) \cup {d + 1} /\ d + 1 \notin xterm.from..d
          /\ xterm.from \in 1..d + 1 + 1
      BY <3>1
    <3>4. ToSet(out) \cup (xterm.aside \cup {n}) = xterm.from..d + 1
      BY <1>3, <3>1, <3>3
    <3>5. ToSet(out) \cap (xterm.aside \cup {n}) = {}
      BY <1>3, <3>1, <3>3
    <3> QED
      BY <2>1, <3>1, <3>2, <3>3, <3>4, <3>5 DEF ScreenInv
  <2> QED
    BY <1>3, <1>5, <1>6, <2>5, <2>6, <2>7 DEF WatchInv, StreamInv
<1>11. CASE /\ xterm.on /\ ~xterm.frozen
            /\ xterm' = [Onward EXCEPT !.pending = Append(@, n)]
            /\ UNCHANGED pleat
  <2>1. /\ xterm' \in Xterms /\ xterm'.on = xterm.on /\ xterm'.frozen = xterm.frozen
        /\ xterm'.sawLive = xterm.sawLive /\ xterm'.from = xterm.from
        /\ xterm'.aside = xterm.aside /\ xterm'.screen = xterm.screen
        /\ xterm'.pending = Append(xterm.pending, n) /\ xterm'.seed = Onward.seed
    <3>2. Append(xterm.pending, n) \in Seq(Nat)
      BY <1>7
    <3>4. /\ xterm' \in Xterms /\ xterm'.on = Onward.on /\ xterm'.frozen = Onward.frozen
          /\ xterm'.sawLive = Onward.sawLive /\ xterm'.from = Onward.from
          /\ xterm'.aside = Onward.aside /\ xterm'.screen = Onward.screen
          /\ xterm'.pending = Append(xterm.pending, n) /\ xterm'.seed = Onward.seed
      BY <1>0, <1>11, OnwardIs, <3>2 DEF Xterms
    <3> QED
      BY <1>0, <3>4, OnwardIs
  <2>2. PaneTypes'
    BY <1>0, <1>1, <1>5, <1>7, <1>11, <2>1 DEF PaneTypes
  <2>3. PhoneInv' /\ SeedInv' /\ FreezeInv' /\ NarrowInv'
    <3>1. /\ xterm'.seed.state = xterm.seed.state /\ xterm'.seed.owned = xterm.seed.owned
          /\ xterm'.seed.since = xterm.seed.since /\ xterm'.seed.behind = Later(xterm.seed.behind)
      BY <1>0, <2>1, OnwardIs
    <3> QED
      BY <1>0, <1>1, <1>8, <1>11, <2>1, <3>1, PlainHeard
  <2>4. ScreenInv(d + 1)'
    <3> DEFINE out == xterm.screen \o xterm.pending
               more == xterm.screen \o Append(xterm.pending, n)
    <3>1. /\ Rising(out) /\ ToSet(out) \cup xterm.aside = xterm.from..d
          /\ ToSet(out) \cap xterm.aside = {} /\ xterm.from \in 1..d + 1
      BY <1>2, <1>7, <1>11 DEF ScreenInv
    <3>2. xterm'.screen \o xterm'.pending = more
      BY <2>1
    <3>3. ToSet(more) = ToSet(out) \cup {n} /\ ((Rising(out) /\ \A k \in ToSet(out) : k < n) => Rising(more))
      BY <1>7, OneMore
    <3> HIDE DEF out, more
    <3>4. xterm.from..d + 1 = (xterm.from..d) \cup {d + 1} /\ d + 1 \notin xterm.from..d
          /\ xterm.from \in 1..d + 1 + 1 /\ \A k \in xterm.from..d : k < d + 1
      BY <3>1
    <3>5. Rising(more)
      BY <1>3, <3>1, <3>3, <3>4
    <3>6. ToSet(more) \cup xterm.aside = xterm.from..d + 1
      BY <1>3, <3>1, <3>3, <3>4
    <3>7. ToSet(more) \cap xterm.aside = {}
      BY <1>3, <3>1, <3>3, <3>4
    <3> QED
      BY <2>1, <3>2, <3>4, <3>5, <3>6, <3>7 DEF ScreenInv
  <2> QED
    BY <1>3, <1>5, <1>6, <2>2, <2>3, <2>4 DEF WatchInv, StreamInv
<1> QED
  BY <1>1, <1>9, <1>10, <1>11 DEF Shown

LEMMA HearExitKeeps ==
  ASSUME WatchInv, StreamInv, wire # <<>>, wire' = Tail(wire), HearExit(Head(wire)),
         UNCHANGED <<tty, phone, box, font, followed>>
  PROVE  WatchInv' /\ StreamInv'
<1>0. /\ PaneTypes /\ Len(wire) \in Nat /\ Len(wire) >= 1 /\ wire' \in Seq(WireEvents)
      /\ wire[1] \in WireEvents /\ Head(wire) = wire[1] /\ 1 \in 1..Len(wire)
  BY HeardIs DEF WatchInv
<1>1. /\ wire[1].what = "exit" /\ replay' = <<>> /\ status' = "exited" /\ xterm' = Onward /\ pleat' = pleat
      /\ wire[1].what \notin Watches /\ wire[1].what # "output"
  BY <1>0 DEF HearExit, Watches
<1>2. PICK d \in Nat : WireInv(d) /\ ExitInv(d) /\ ReplayInv(d) /\ ScreenInv(d)
  BY DEF StreamInv
<1>4. PaneTypes'  BY <1>0, <1>1, OnwardIs DEF PaneTypes
<1>6. PhoneInv' /\ SeedInv' /\ FreezeInv' /\ NarrowInv'
  BY <1>0, <1>1, OnwardIs, PlainHeard DEF WatchInv, NarrowInv
<1>7. WireInv(d)'
  BY <1>0, <1>1, <1>2, OrderHeard
<1>8. ExitInv(d)'
  <2>1. \A j \in 1..Len(wire) : wire[j].what # "output"
    BY <1>0, <1>1, <1>2 DEF ExitInv
  <2>2. d = tty.made
    <3>1. tty.made \in Nat /\ d <= tty.made
      BY <1>0, <1>2 DEF PaneTypes, Ttys, WireInv
    <3>2. d + 1 \notin d + 1..tty.made
      BY <1>2, <2>1 DEF WireInv
    <3> QED
      BY <3>1, <3>2
  <2>3. tty.exited = TRUE
    BY <1>0, <1>1, <1>2 DEF ExitInv
  <2> QED
    BY <1>0, <1>2, <2>2, <2>3, ExitHeard DEF ExitInv
<1>9. ReplayInv(d)'
  BY <1>1 DEF ReplayInv
<1>10. ScreenInv(d)'  BY <1>2, <1>0, <1>1, OnwardIs DEF ScreenInv
<1> QED
  BY <1>4, <1>6, <1>7, <1>8, <1>9, <1>10 DEF WatchInv, StreamInv

LEMMA HearWatchKeeps ==
  ASSUME WatchInv, StreamInv, wire # <<>>, wire' = Tail(wire), HearWatch(Head(wire)),
         UNCHANGED <<tty, phone, box, font, followed>>
  PROVE  WatchInv' /\ StreamInv'
<1>0. /\ PaneTypes /\ Len(wire) \in Nat /\ Len(wire) >= 1 /\ wire' \in Seq(WireEvents)
      /\ wire[1] \in WireEvents /\ Head(wire) = wire[1] /\ 1 \in 1..Len(wire) /\ wire[1].n \in Nat
      /\ xterm \in Xterms /\ pleat \in Pleats
  BY HeardIs DEF WatchInv, WireEvents, PaneTypes
<1>1. /\ wire[1].what \in Watches /\ wire[1].what # "output" /\ UNCHANGED <<replay, status>>
  BY <1>0 DEF HearWatch, Watches
<1>2. PICK d \in Nat : WireInv(d) /\ ExitInv(d) /\ ReplayInv(d) /\ ScreenInv(d)
  BY DEF StreamInv
<1>3. WireInv(d)' /\ ReplayInv(d)'
  BY <1>0, <1>1, <1>2, OrderHeard DEF ReplayInv
<1>4. ExitInv(d)'
  BY <1>0, <1>1, <1>2, ExitHeard DEF ExitInv
<1>6. CASE ~xterm.on
  <2>2. PaneTypes'  BY <1>0, <1>1, <1>6 DEF PaneTypes, HearWatch
  <2>3. PhoneInv' /\ SeedInv' /\ FreezeInv' /\ NarrowInv'
    BY <1>0, <1>1, <1>6, NewsHeard DEF WatchInv, NarrowInv, HearWatch
  <2>4. ScreenInv(d)'  BY <1>6 DEF ScreenInv, HearWatch
  <2> QED
    BY <1>3, <1>4, <2>2, <2>3, <2>4 DEF WatchInv, StreamInv
<1>7. CASE xterm.on
  <2> DEFINE p == [Onward EXCEPT !.sawLive = TRUE]
  <2>1. /\ p \in Xterms /\ p.on = xterm.on /\ p.sawLive = TRUE /\ p.from = xterm.from
        /\ p.aside = xterm.aside /\ p.screen = xterm.screen /\ p.pending = xterm.pending
        /\ p.seed = Onward.seed  BY <1>0, OnwardIs DEF Xterms
  <2>2. \/ wire[1].what = "owned" /\ Owned(p, wire[1].n)
        \/ wire[1].what = "ended" /\ Ended(p)
    BY <1>0, <1>7 DEF HearWatch
  <2> HIDE DEF p
  <2>3. /\ xterm' \in Xterms /\ xterm'.on = p.on /\ xterm'.sawLive = p.sawLive
        /\ xterm'.seed = p.seed /\ xterm'.from = p.from /\ xterm'.aside = p.aside
        /\ xterm'.screen = p.screen /\ xterm'.pending = p.pending
        /\ (xterm'.frozen = TRUE <=> wire[1].what = "owned") /\ pleat' \in Pleats
        /\ (pleat'.open = TRUE => wire[1].what = "owned" /\ pleat'.from = wire[1].n)
        /\ (pleat'.bytes = pleat.bytes \/ pleat'.bytes = <<>>)
    <3>1. CASE wire[1].what = "owned" /\ Owned(p, wire[1].n)
      BY <1>0, <2>1, <3>1, OwnedIs
    <3>2. CASE wire[1].what = "ended" /\ Ended(p)  BY <3>2, <1>0, <2>1 DEF Pleats, Ended, Xterms
    <3> QED
      BY <2>2, <3>1, <3>2
  <2>4. PaneTypes'
    BY <1>0, <1>1, <2>3 DEF PaneTypes
  <2>5. \A i \in 1..Len(pleat'.bytes) : pleat'.bytes[i] \in tty.narrow  BY <2>3 DEF WatchInv, NarrowInv
  <2>7. PhoneInv' /\ SeedInv' /\ FreezeInv' /\ NarrowInv'  BY <1>0, <1>1, <2>1, <2>3, <2>5, OnwardIs, NewsHeard
  <2>8. ScreenInv(d)'
    BY <1>2, <1>7, <2>1, <2>3 DEF ScreenInv
  <2> QED
    BY <1>3, <1>4, <2>4, <2>7, <2>8 DEF WatchInv, StreamInv
<1> QED
  BY <1>6, <1>7

-----------------------------------------------------------------------------
(* What the panes promise.                                                 *)

LEMMA PaneStep == WatchInv /\ StreamInv /\ (PanesNext \/ UNCHANGED paneVars) => WatchInv' /\ StreamInv'
<1> SUFFICES ASSUME WatchInv, StreamInv, PanesNext \/ UNCHANGED paneVars
             PROVE  WatchInv' /\ StreamInv'
  OBVIOUS
<1>1. CASE SizeSteps
  BY <1>1, SizeKeeps
<1>2. CASE Hear
  BY <1>2, HearOutputKeeps, HearExitKeeps, HearWatchKeeps DEF Hear
<1>3. CASE Outputs \/ Exits \/ PhoneOwns \/ PhoneYields
  BY <1>3, OutputsKeep, ExitsKeep, NewsKeep
<1>4. CASE Mount \/ Unmount \/ Frame \/ SeedTaken \/ SeedArrives \/ DismissPleat
  BY <1>4, MountKeeps, UnmountKeeps, FrameKeeps, AskKeeps, SeedKeeps, DismissKeeps
<1> QED
  BY <1>1, <1>2, <1>3, <1>4 DEF PanesNext, SizeSteps

LEMMA OutputHolds == WatchInv /\ StreamInv => OutputIsWhole
<1> SUFFICES ASSUME WatchInv, StreamInv, xterm.on
             PROVE  LET out == xterm.screen \o xterm.pending
                    IN /\ \A i \in 1..Len(out) - 1 : out[i] < out[i + 1]
                       /\ ToSet(out) \cup xterm.aside = xterm.from..Delivered
                       /\ ToSet(out) \cap xterm.aside = {}
  BY DEF OutputIsWhole
<1> DEFINE out == xterm.screen \o xterm.pending
<1>1. PICK d \in Nat : WireInv(d) /\ ScreenInv(d)
  BY DEF StreamInv
<1>3. /\ Rising(out) /\ ToSet(out) \cup xterm.aside = xterm.from..d /\ ToSet(out) \cap xterm.aside = {}
  BY <1>1 DEF ScreenInv, WatchInv, PaneTypes, Xterms
<1>a. out \in Seq(Nat)  BY DEF WatchInv, PaneTypes, Xterms
<1> HIDE DEF out
<1>5. \A i \in 1..Len(out) - 1 : out[i] < out[i + 1]  BY <1>3, <1>a DEF Rising
<1> QED  BY <1>1, DeliveredIs, <1>3, <1>5 DEF out, WatchInv, PaneTypes, Xterms

LEMMA FreezeHolds == WatchInv => FreezeIsHonest /\ PleatIsNarrow
<1> SUFFICES ASSUME WatchInv PROVE FreezeIsHonest /\ PleatIsNarrow
  OBVIOUS
<1>0. xterm \in Xterms /\ pleat \in Pleats /\ pleat.bytes \in Seq(Nat) /\ xterm.on \in BOOLEAN
      /\ xterm.frozen \in BOOLEAN /\ pleat.open \in BOOLEAN
  BY DEF WatchInv, PaneTypes, Xterms, Pleats
<1>1. ASSUME xterm.on, wire = <<>>, xterm.seed.state = "none"
      PROVE  (xterm.frozen <=> phone.owner = "phone") /\ (pleat.open => xterm.frozen /\ pleat.from = phone.since)
  <2>2. /\ xterm.frozen = TRUE <=> phone.owner = "phone"
        /\ pleat.open = TRUE => xterm.frozen = TRUE /\ pleat.from = phone.since
    BY <1>0, <1>1 DEF WatchInv, FreezeInv, Calm
  <2> QED
    BY <1>0, <2>2
<1> QED  BY <1>1, <1>0 DEF FreezeIsHonest, WatchInv, NarrowInv, PleatIsNarrow, ToSet

\* What the size of a pane is about.
Sized(q) == [on |-> q.on, visible |-> q.visible, fit |-> q.fit, observed |-> q.observed, size |-> q.size]

LEMMA SizedStays ==
  ASSUME PaneTypes, Frame \/ SeedTaken \/ SeedArrives \/ DismissPleat \/ Hear
  PROVE  Sized(xterm') = Sized(xterm) /\ UNCHANGED <<tty, box, font>> /\ status' \in {status, "exited"}
<1>0. xterm \in Xterms /\ xterm.seed \in Seeds
  BY DEF PaneTypes, Xterms
<1>1. ASSUME NEW q \in Xterms, NEW seed, NEW b \in BOOLEAN, NEW s, NEW a
      PROVE  /\ Sized([q EXCEPT !.seed = seed]) = Sized(q) /\ Sized([q EXCEPT !.frozen = b]) = Sized(q)
             /\ Sized([q EXCEPT !.sawLive = b]) = Sized(q) /\ Sized([q EXCEPT !.aside = a]) = Sized(q)
             /\ Sized([q EXCEPT !.pending = s]) = Sized(q) /\ Sized([q EXCEPT !.screen = s]) = Sized(q)
  BY DEF Sized, Xterms
<1>2. Onward \in Xterms /\ Sized(Onward) = Sized(xterm)  BY <1>0, <1>1, OnwardIs DEF Onward, Later, Xterms
<1>3. ASSUME NEW q \in Xterms, NEW n, Owned(q, n) \/ Ended(q)
      PROVE  Sized(xterm') = Sized(q)
  BY <1>1, <1>3 DEF Owned, Ended
<1>4. CASE Frame
  <2> DEFINE out == xterm.screen \o xterm.pending
  <2> HIDE DEF out
  <2> QED  BY <1>4, <1>0 DEF Frame, Sized, Xterms
<1>5. CASE SeedTaken
  BY <1>0, <1>1, <1>5 DEF SeedTaken
<1>6. CASE SeedArrives
  <2> DEFINE p == [xterm EXCEPT !.seed = NoSeed]
  <2>1. p \in Xterms /\ Sized(p) = Sized(xterm)
    BY <1>0, <1>1 DEF Xterms, NoSeed, Seeds
  <2>2. Owned(p, xterm.seed.since) \/ xterm' = p
    BY <1>6 DEF SeedArrives
  <2> HIDE DEF p
  <2> QED  BY <1>6, <1>3, <2>1, <2>2 DEF SeedArrives
<1>7. CASE DismissPleat
  BY <1>7 DEF DismissPleat
<1>8. CASE Hear
  <2>2. CASE HearOutput(Head(wire))
    <3> DEFINE a == Onward.aside \cup {Head(wire).n}
               s == Append(Onward.pending, Head(wire).n)
    <3>1. xterm' = xterm \/ xterm' = [Onward EXCEPT !.aside = a] \/ xterm' = [Onward EXCEPT !.pending = s]
      BY <1>2, <2>2 DEF HearOutput, Shown, Xterms
    <3> HIDE DEF a, s
    <3>2. Sized([Onward EXCEPT !.aside = a]) = Sized(Onward)
      BY <1>1, <1>2, Zenon
    <3>3. Sized([Onward EXCEPT !.pending = s]) = Sized(Onward)
      BY <1>1, <1>2, Zenon
    <3>4. Sized(xterm') = Sized(xterm)
      BY <1>2, <3>1, <3>2, <3>3, Zenon
    <3> QED  BY <1>8, <3>4 DEF Hear, HearOutput, HearExit, HearWatch
  <2>3. CASE HearExit(Head(wire))  BY <1>2, <1>8, <2>3 DEF HearExit, Hear, HearOutput, HearWatch
  <2>4. CASE HearWatch(Head(wire))
    <3> DEFINE p == [Onward EXCEPT !.sawLive = TRUE]
    <3>1. p \in Xterms /\ Sized(p) = Sized(xterm)
      BY <1>1, <1>2 DEF Xterms
    <3>2. xterm' = xterm \/ Owned(p, Head(wire).n) \/ Ended(p)
      BY <2>4 DEF HearWatch
    <3> HIDE DEF p
    <3> QED  BY <1>3, <1>8, <3>1, <3>2 DEF Hear, HearOutput, HearExit, HearWatch
  <2> QED
    BY <1>8, <2>2, <2>3, <2>4 DEF Hear
<1> QED
  BY <1>4, <1>5, <1>6, <1>7, <1>8

\* Whoever changes the box, the visibility or the status of a pane leaves a callback due or
\* sends the size.
LEMMA SizeSentStep ==
  ASSUME Zooms = FALSE
  PROVE  PaneTypes /\ SizeIsSent /\ (PanesNext \/ UNCHANGED paneVars) => SizeIsSent'
<1> SUFFICES ASSUME PaneTypes, SizeIsSent, PanesNext \/ UNCHANGED paneVars
             PROVE  SizeIsSent'
  OBVIOUS
<1>0. xterm \in Xterms /\ tty \in Ttys /\ PaneTypes
  BY DEF PaneTypes
<1>f. followed' = followed
  BY DEF PanesNext, Outputs, Exits, PhoneOwns, PhoneYields, Mount, Unmount, InitialFit, Observed,
         BoxChanges, FontChanges, Hide, Show, Frame, SeedTaken, SeedArrives, DismissPleat, Hear, paneVars
<1>1. ASSUME Sized(xterm') = Sized(xterm), tty'.size = tty.size, UNCHANGED <<box, font>>,
             status' \in {status, "exited"}
      PROVE  SizeIsSent'  BY <1>1, <1>f DEF SizeIsSent, Sized
<1>2. CASE Frame \/ SeedTaken \/ SeedArrives \/ DismissPleat \/ Hear
  BY <1>0, <1>1, <1>2, SizedStays
<1>3. CASE UNCHANGED paneVars
  BY <1>1, <1>3 DEF paneVars, Sized
<1>4. CASE Outputs \/ PhoneOwns \/ PhoneYields \/ Exits
  BY <1>1, <1>0, <1>4 DEF Outputs, PhoneOwns, PhoneYields, Exits, Ttys
<1>5. CASE Mount  BY <1>f, <1>5 DEF SizeIsSent, Mount, NoPane
<1>6. CASE Unmount  BY <1>6 DEF SizeIsSent, Unmount, NoPane
<1>7. ASSUME NEW p \in Xterms, FitAndSend(p), UNCHANGED <<box, font>>
      PROVE  SizeIsSent'  BY <1>7, <1>0 DEF SizeIsSent, FitAndSend, Xterms, Ttys
<1>8. CASE InitialFit
  <2> DEFINE p == [xterm EXCEPT !.fit = FALSE]
  <2>1. p \in Xterms
    BY <1>0 DEF Xterms
  <2>2. FitAndSend(p) /\ UNCHANGED <<box, font>>
    BY <1>8 DEF InitialFit
  <2> HIDE DEF p
  <2> QED
    BY <1>7, <2>1, <2>2
<1>9. CASE Observed
  <2> DEFINE p == [xterm EXCEPT !.observed = FALSE]
  <2>1. p \in Xterms /\ p.visible = xterm.visible
    BY <1>0 DEF Xterms
  <2>2. \/ FitAndSend(p) /\ UNCHANGED <<box, font>>
        \/ ~(xterm.visible /\ status = "running") /\ xterm' = p /\ status' = status
    BY <1>9 DEF Observed
  <2> HIDE DEF p
  <2>3. CASE ~(xterm.visible /\ status = "running") /\ xterm' = p /\ status' = status
    BY <2>1, <2>3 DEF SizeIsSent
  <2> QED
    BY <1>7, <2>1, <2>2, <2>3
<1>10. CASE BoxChanges  BY <1>0, <1>10 DEF SizeIsSent, Xterms, BoxChanges
<1>11. CASE FontChanges
  BY <1>11 DEF FontChanges
<1>12. CASE Hide  BY <1>0, <1>12 DEF SizeIsSent, Hide, Xterms
<1>13. CASE Show
  <2> DEFINE p == [xterm EXCEPT !.visible = TRUE]
  <2>1. p \in Xterms
    BY <1>0 DEF Xterms
  <2>2. \/ FitAndSend(p) /\ UNCHANGED <<box, font>>
        \/ status # "running" /\ status' = status
    BY <1>13 DEF Show
  <2> HIDE DEF p
  <2>3. CASE status # "running" /\ status' = status
    BY <2>3 DEF SizeIsSent
  <2> QED
    BY <1>7, <2>1, <2>2, <2>3
<1> QED
  BY <1>2, <1>3, <1>4, <1>5, <1>6, <1>8, <1>9, <1>10, <1>11, <1>12, <1>13 DEF PanesNext

-----------------------------------------------------------------------------
(* What the review shows of git.                                           *)

FlowTrees == [files : [Files -> Nat], log : SUBSET Nat, lead : {"even", "ahead", "diverged"},
              stamp : Nat]
FlowSessions == [summary : (SUBSET Files) \cup {Blank}, stale : BOOLEAN,
                 path : Files \cup {Blank}, commit : Nat \cup {Blank}]
FlowLoads == [what : {"summary", "diff", "history", "detail", "status"}, tree : Checkouts,
              key : Files \cup Nat \cup {Blank}, asked : FlowTrees]
DiffsShown == [tree : Checkouts, path : Files, stamp : Nat, stale : BOOLEAN]
HistoriesShown == [tree : Checkouts, log : SUBSET Nat, stamp : Nat, stale : BOOLEAN]
StatusesShown == [tree : Checkouts, lead : {"even", "ahead", "diverged"}, stamp : Nat]
FlowScreens == [diff : DiffsShown \cup {Blank}, history : HistoriesShown \cup {Blank},
                detail : Nat \cup {Blank}, status : StatusesShown \cup {Blank}]

FlowTypes ==
    /\ at \in [Checkouts -> FlowTrees]
    /\ tab \in {"changes", "history", "remote"} /\ active \in Checkouts
    /\ session \in [Checkouts -> FlowSessions]
    /\ shown \in FlowScreens
    /\ loads \subseteq FlowLoads
    /\ discarding \in [tree : Checkouts, file : Files] \cup {Blank}
    /\ pushing \in [tree : Checkouts, force : BOOLEAN] \cup {Blank}
    /\ edits \in Nat /\ due \in Nat

Loading(kind) == \E l \in loads : l.what = kind

\* No change is later than the last, and the active worktree is no older than the last
\* refresh.
StampsInv ==
    /\ \A t \in Checkouts : at[t].stamp <= edits
    /\ due <= at[active].stamp

\* A load is for what is selected now, one of its kind is under way at most, and what a
\* refresh reads was asked for after what it is due to show.
LoadsInv ==
    /\ \A l, m \in loads : l.what = m.what => l = m
    /\ \A l \in loads :
         /\ l.tree = active
         /\ l.what \in {"summary", "history", "status"} => l.asked.stamp >= due
         /\ l.what = "history" => l.key = session[active].commit
         /\ l.what = "detail" => l.key = session[active].commit
         /\ l.what = "diff" =>
              /\ l.key = session[active].path /\ ReadsDiff(session[active])
              /\ l.asked.stamp >= due \/ Loading("summary") \/ session[active].stale

\* The diff that is shown is of a change that is selected; unless it is being read again, it
\* is of this worktree, and no older than the last refresh unless that is under way or failed.
DiffInv ==
    /\ shown.diff # Blank => ReadsDiff(session[active])
    /\ shown.diff # Blank /\ ~Loading("diff") =>
         /\ shown.diff.path = session[active].path
         /\ shown.diff.stale = FALSE =>
              /\ shown.diff.tree = active
              /\ shown.diff.stamp >= due \/ Loading("summary") \/ session[active].stale

HistoryInv ==
    /\ ~Loading("history") /\ shown.history # Blank /\ shown.history.stale = FALSE =>
         /\ shown.history.tree = active /\ shown.history.stamp >= due
         /\ session[active].commit # Blank => session[active].commit \in shown.history.log
    /\ ~Loading("detail") => shown.detail \in {Blank, session[active].commit}

StatusInv ==
    ~Loading("status") /\ shown.status # Blank =>
        shown.status.tree = active /\ shown.status.stamp >= due

\* Each tab has loads of its own.
TabInv ==
    /\ tab # "changes" => shown.diff = Blank /\ ~Loading("summary") /\ ~Loading("diff")
    /\ tab # "history" => /\ shown.history = Blank /\ shown.detail = Blank
                          /\ ~Loading("history") /\ ~Loading("detail")
    /\ tab # "remote" => shown.status = Blank /\ ~Loading("status")

FlowInv == FlowTypes /\ StampsInv /\ LoadsInv /\ DiffInv /\ HistoryInv /\ StatusInv /\ TabInv

LEMMA FlowStarts == FlowInit => FlowInv
<1> SUFFICES ASSUME FlowInit PROVE FlowInv
  OBVIOUS
<1>1. active \in Checkouts /\ tab \in {"changes", "history", "remote"}
  BY CheckoutAssumption DEF FlowInit, Keys
<1>3. at \in [Checkouts -> FlowTrees] /\ \A t \in Checkouts : at[t].stamp = 1
  BY DEF FlowInit, FirstChange, FlowTrees
<1>4. /\ session \in [Checkouts -> FlowSessions] /\ session[active].path = Blank
      /\ session[active].commit = Blank
  <2>1. NothingSelected \in FlowSessions /\ NothingSelected.path = Blank /\ NothingSelected.commit = Blank
    <3> DEFINE changes == (SUBSET Files) \cup {Blank}
    <3> HIDE DEF changes
    <3> QED  BY DEF NothingSelected, FlowSessions, changes
  <2> QED
    BY <1>1, <2>1 DEF FlowInit
<1>5. PICK l : /\ loads = {l} /\ l \in FlowLoads /\ l.tree = active /\ l.key = Blank
               /\ l.asked.stamp = 1 /\ l.what = Keys[tab]
  <2> DEFINE l == Load(Keys[tab], active, Blank, at[active])
  <2>3. /\ l \in FlowLoads /\ l.tree = active /\ l.key = Blank /\ l.asked = at[active]
        /\ l.what = Keys[tab]  BY <1>1, <1>3 DEF Load, FlowLoads, Keys
  <2> QED  BY <1>1, <1>3, <1>4, <2>3 DEF FlowInit, Keyed
<1>7. shown \in FlowScreens /\ shown.diff = Blank /\ shown.history = Blank /\ shown.detail = Blank
      /\ shown.status = Blank
  BY DEF FlowInit, FlowScreens
<1>8. edits = 1 /\ due = 1 /\ discarding = Blank /\ pushing = Blank
  BY DEF FlowInit
<1>10. StampsInv /\ LoadsInv  BY <1>1, <1>3, <1>4, <1>5, <1>8 DEF StampsInv, LoadsInv, Keys
<1>11. DiffInv /\ HistoryInv /\ StatusInv /\ TabInv
  BY <1>1, <1>5, <1>7 DEF DiffInv, HistoryInv, StatusInv, TabInv, Loading, Keys
<1> QED  BY <1>1, <1>3, <1>4, <1>5, <1>7, <1>8, <1>10, <1>11 DEF FlowInv, FlowTypes

-----------------------------------------------------------------------------
(* The effects.                                                            *)

LEMMA LoadIs ==
  ASSUME NEW what \in {"summary", "diff", "history", "detail", "status"}, NEW t \in Checkouts,
         NEW key \in Files \cup Nat \cup {Blank}, NEW reading \in FlowTrees
  PROVE  /\ Load(what, t, key, reading) \in FlowLoads
         /\ Load(what, t, key, reading).what = what /\ Load(what, t, key, reading).tree = t
         /\ Load(what, t, key, reading).key = key /\ Load(what, t, key, reading).asked = reading
  BY DEF Load, FlowLoads

\* The diff is asked for anew, or cleared; the other loads go on.
LEMMA DiffEffectIs ==
  ASSUME FlowTypes, NEW t \in Checkouts, NEW sessions \in [Checkouts -> FlowSessions],
         NEW ls \in SUBSET FlowLoads, DiffEffect(t, sessions, ls)
  PROVE  /\ loads' \subseteq FlowLoads /\ shown' \in FlowScreens
         /\ shown'.history = shown.history /\ shown'.detail = shown.detail
         /\ shown'.status = shown.status
         /\ \A l \in loads' : l.what = "diff" =>
               /\ ReadsDiff(sessions[t]) /\ l.tree = t /\ l.key = sessions[t].path
               /\ l.asked = at[t]
         /\ \A l, m \in loads' : l.what = "diff" /\ m.what = "diff" => l = m
         /\ \A l : l.what # "diff" => (l \in loads' <=> l \in ls)
         /\ shown'.diff # Blank => ReadsDiff(sessions[t]) /\ \E l \in loads' : l.what = "diff"
<1> DEFINE new == Load("diff", t, sessions[t].path, at[t])
<1>2. /\ new \in FlowLoads /\ new.what = "diff" /\ new.tree = t /\ new.key = sessions[t].path
      /\ new.asked = at[t]
  <2>2. sessions[t].path \in Files \cup Nat \cup {Blank}  BY DEF FlowTypes, FlowSessions
  <2> QED  BY <2>2, LoadIs DEF FlowTypes, FlowSessions
<1> HIDE DEF new
<1>4. CASE ReadsDiff(sessions[t])  BY <1>2, <1>4 DEF FlowTypes, DiffEffect, Rerun, new
<1>5. CASE ~ReadsDiff(sessions[t])  BY <1>5 DEF DiffEffect, Rerun, FlowScreens, FlowTypes
<1> QED
  BY <1>4, <1>5

\* So is the detail of the selected commit.
LEMMA DetailEffectIs ==
  ASSUME FlowTypes, NEW t \in Checkouts, NEW sessions \in [Checkouts -> FlowSessions],
         NEW ls \in SUBSET FlowLoads, DetailEffect(t, sessions, ls)
  PROVE  /\ loads' \subseteq FlowLoads /\ shown' \in FlowScreens
         /\ shown'.history = shown.history /\ shown'.diff = shown.diff
         /\ shown'.status = shown.status
         /\ \A l \in loads' : l.what = "detail" => l.tree = t /\ l.key = sessions[t].commit
         /\ \A l, m \in loads' : l.what = "detail" /\ m.what = "detail" => l = m
         /\ \A l : l.what # "detail" => (l \in loads' <=> l \in ls)
         /\ shown'.detail # Blank => \E l \in loads' : l.what = "detail"
<1> DEFINE c == sessions[t].commit
           new == Load("detail", t, c, at[t])
<1>1. c \in Nat \cup {Blank} /\ at[t] \in FlowTrees
  BY DEF FlowTypes, FlowSessions
<1>2. new \in FlowLoads /\ new.what = "detail" /\ new.tree = t /\ new.key = c
  <2>1. "detail" \in {"summary", "diff", "history", "detail", "status"}
    OBVIOUS
  <2> HIDE DEF c
  <2> QED  BY <1>1, <2>1, LoadIs
<1>4. /\ loads' = {l \in ls : l.what \notin {"detail"}} \cup (IF c # Blank THEN {new} ELSE {})
      /\ shown' = IF c # Blank THEN shown ELSE [shown EXCEPT !.detail = Blank]
  BY DEF DetailEffect, Rerun
<1> HIDE DEF new, c
<1>5. CASE c # Blank  BY <1>2, <1>4, <1>5 DEF c, FlowTypes
<1>6. CASE c = Blank
  <2>2. /\ shown' \in FlowScreens /\ shown'.detail = Blank /\ shown'.history = shown.history
        /\ shown'.diff = shown.diff /\ shown'.status = shown.status  BY <1>4, <1>6 DEF FlowScreens, FlowTypes
  <2> QED  BY <1>4, <1>6, <2>2
<1> QED
  BY <1>5, <1>6

\* What a refresh asks for.
LEMMA KeyedIs ==
  ASSUME FlowTypes, NEW t \in Checkouts, NEW reading \in FlowTrees
  PROVE  \E new \in FlowLoads :
           /\ Keyed(t, reading) = {new} /\ new.what = Keys[tab] /\ new.tree = t
           /\ new.asked = reading
           /\ tab = "history" => new.key = session[t].commit
<1> DEFINE k == IF tab = "history" THEN session[t].commit ELSE Blank
           new == Load(Keys[tab], t, k, reading)
<1>3. k \in Files \cup Nat \cup {Blank}  BY DEF FlowTypes, FlowSessions
<1>4. Keyed(t, reading) = {new}
  BY DEF Keyed
<1>5. new \in FlowLoads /\ new.what = Keys[tab] /\ new.tree = t /\ new.key = k /\ new.asked = reading
  <2> HIDE DEF k
  <2> QED  BY <1>3, LoadIs DEF FlowTypes, Keys
<1>6. tab = "history" => new.key = session[t].commit
  BY <1>5
<1> HIDE DEF new, k
<1> QED
  BY <1>4, <1>5, <1>6

LEMMA KeysAre ==
  /\ tab = "changes" => Keys[tab] = "summary"
  /\ tab = "history" => Keys[tab] = "history"
  /\ tab = "remote" => Keys[tab] = "status"
  BY DEF Keys

-----------------------------------------------------------------------------
(* Worktrees change, and are read again.                                   *)

LEMMA AlterIs ==
  ASSUME FlowTypes, StampsInv, NEW t \in Checkouts, NEW w \in FlowTrees, Alter(t, w)
  PROVE  /\ at' \in [Checkouts -> FlowTrees] /\ edits' \in Nat
         /\ \A s \in Checkouts : at'[s].stamp <= edits' /\ at[s].stamp <= at'[s].stamp
<1>1. edits \in Nat /\ at \in [Checkouts -> FlowTrees]
  BY DEF FlowTypes
<1>2. [w EXCEPT !.stamp = edits + 1] \in FlowTrees /\ [w EXCEPT !.stamp = edits + 1].stamp = edits + 1
  BY <1>1 DEF FlowTrees
<1>3. at' = [at EXCEPT ![t] = [w EXCEPT !.stamp = edits + 1]] /\ edits' = edits + 1
  BY DEF Alter
<1>4. at' \in [Checkouts -> FlowTrees]
  BY <1>1, <1>2, <1>3
<1>5. /\ at'[t].stamp = edits + 1
      /\ \A s \in Checkouts \ {t} : at'[s] = at[s]
  BY <1>1, <1>2, <1>3
<1>6. \A s \in Checkouts : at[s].stamp \in Nat /\ at[s].stamp <= edits
  BY <1>1 DEF FlowTrees, StampsInv
<1> QED
  BY <1>1, <1>3, <1>4, <1>5, <1>6

\* What the review shows stays, whatever happens to the worktrees.
LEMMA AsShown ==
  ASSUME FlowInv, UNCHANGED <<tab, active, session, shown, loads, due>>,
         at' \in [Checkouts -> FlowTrees], edits' \in Nat,
         \A s \in Checkouts : at'[s].stamp <= edits' /\ at[s].stamp <= at'[s].stamp,
         discarding' \in [tree : Checkouts, file : Files] \cup {Blank},
         pushing' \in [tree : Checkouts, force : BOOLEAN] \cup {Blank}
  PROVE  FlowInv'
<1>4. HistoryInv' /\ StatusInv' /\ TabInv'
  BY DEF FlowInv, HistoryInv, StatusInv, TabInv, Loading
<1> QED  BY <1>4 DEF FlowInv, FlowTypes, StampsInv, FlowTrees, LoadsInv, DiffInv, Loading, ReadsDiff

LEMMA SameTrees ==
  ASSUME FlowInv, UNCHANGED <<at, edits>>
  PROVE  /\ at' \in [Checkouts -> FlowTrees] /\ edits' \in Nat
         /\ \A s \in Checkouts : at'[s].stamp <= edits' /\ at[s].stamp <= at'[s].stamp
<1> QED  BY DEF FlowInv, FlowTypes, StampsInv, FlowTrees

\* The review reads the active worktree again, as it is after the step.
LEMMA BumpedKeeps ==
  ASSUME FlowInv, Bumped(at'[active]), UNCHANGED <<tab, active, session, shown>>,
         at' \in [Checkouts -> FlowTrees], edits' \in Nat,
         \A s \in Checkouts : at'[s].stamp <= edits' /\ at[s].stamp <= at'[s].stamp,
         discarding' \in [tree : Checkouts, file : Files] \cup {Blank},
         pushing' \in [tree : Checkouts, force : BOOLEAN] \cup {Blank}
  PROVE  FlowInv'
<1>0. /\ FlowTypes /\ active \in Checkouts /\ tab \in {"changes", "history", "remote"}
      /\ at'[active] \in FlowTrees /\ loads \subseteq FlowLoads
  BY DEF FlowInv, FlowTypes
<1>1. PICK new \in FlowLoads :
           /\ Keyed(active, at'[active]) = {new} /\ new.what = Keys[tab] /\ new.tree = active
           /\ new.asked = at'[active]
           /\ tab = "history" => new.key = session[active].commit
  BY <1>0, KeyedIs
<1>2. /\ loads' = {l \in loads : l.what # Keys[tab]} \cup {new} /\ due' = at'[active].stamp
      /\ due' \in Nat
  BY <1>0, <1>1 DEF Bumped, Rerun, FlowTrees
<1>3. FlowTypes'  BY <1>0, <1>2 DEF FlowTypes
<1>4. StampsInv'
  BY <1>0, <1>2 DEF StampsInv, FlowTrees
<1>5. CASE tab = "changes"
  <2>2. /\ loads' = {l \in loads : l.what # "summary"} \cup {new} /\ new.what = "summary"
        /\ new.asked.stamp = due'
    <3>1. Keys[tab] = "summary"
      BY <1>5, KeysAre
    <3>2. loads' = {l \in loads : l.what # "summary"} \cup {new}
      BY <1>2, <3>1
    <3> QED
      BY <1>1, <1>2, <1>5, <3>1, <3>2
  <2>3. LoadsInv'
    <3>1. \A l \in loads' : l = new \/ (l \in loads /\ l.what = "diff")
      BY <1>0, <1>5, <2>2 DEF FlowInv, TabInv, Loading, FlowLoads
    <3>2. Loading("summary")'
      BY <2>2 DEF Loading
    <3>3. \A l, m \in loads' : l.what = m.what => l = m
      BY <2>2, <3>1 DEF FlowInv, LoadsInv
    <3> QED
      BY <1>1, <1>2, <2>2, <3>1, <3>2, <3>3 DEF FlowInv, LoadsInv
  <2>4. DiffInv'  BY <2>2 DEF FlowInv, DiffInv, Loading
  <2>5. HistoryInv' /\ StatusInv' /\ TabInv'
    BY <1>5, <1>0, <2>2 DEF FlowInv, HistoryInv, StatusInv, TabInv, Loading, FlowLoads
  <2> QED
    BY <1>3, <1>4, <2>3, <2>4, <2>5 DEF FlowInv
<1>6. CASE tab = "history"
  <2>2. /\ loads' = {l \in loads : l.what # "history"} \cup {new} /\ new.what = "history"
        /\ new.asked.stamp = due' /\ new.key = session[active].commit
    <3>1. Keys[tab] = "history"
      BY <1>6, KeysAre
    <3>2. loads' = {l \in loads : l.what # "history"} \cup {new}
      BY <1>2, <3>1
    <3> QED
      BY <1>1, <1>2, <1>6, <3>1, <3>2
  <2>3. LoadsInv'
    <3>1. \A l \in loads' : l = new \/ (l \in loads /\ l.what = "detail")
      BY <1>0, <1>6, <2>2 DEF FlowInv, TabInv, Loading, FlowLoads
    <3>2. \A l, m \in loads' : l.what = m.what => l = m
      BY <2>2, <3>1 DEF FlowInv, LoadsInv
    <3> QED
      BY <1>1, <1>2, <2>2, <3>1, <3>2 DEF FlowInv, LoadsInv
  <2>4. HistoryInv'  BY <2>2 DEF FlowInv, HistoryInv, Loading
  <2>5. DiffInv' /\ StatusInv' /\ TabInv'
    BY <1>6, <1>0, <2>2 DEF FlowInv, DiffInv, StatusInv, TabInv, Loading, FlowLoads
  <2> QED
    BY <1>3, <1>4, <2>3, <2>4, <2>5 DEF FlowInv
<1>7. CASE tab = "remote"
  <2>1. \A l \in loads : l.what = "status"
    BY <1>0, <1>7 DEF FlowInv, TabInv, Loading, FlowLoads
  <2>2. loads' = {new} /\ new.what = "status" /\ new.asked.stamp = due'
    <3>1. Keys[tab] = "status"
      BY <1>7, KeysAre
    <3>2. loads' = {l \in loads : l.what # "status"} \cup {new}
      BY <1>2, <3>1
    <3> QED
      BY <1>1, <1>2, <2>1, <3>1, <3>2
  <2>4. DiffInv' /\ HistoryInv' /\ StatusInv' /\ TabInv'
    BY <1>7, <2>2 DEF FlowInv, DiffInv, HistoryInv, StatusInv, TabInv, Loading
  <2> QED  BY <1>3, <1>4, <1>1, <1>2, <2>2, <2>4 DEF FlowInv, LoadsInv
<1> QED
  BY <1>0, <1>5, <1>6, <1>7

LEMMA AgentKeeps ==
  ASSUME FlowInv, NEW t \in Checkouts,
         (\E f \in Files : AgentEdits(t, f)) \/ (\E amend \in BOOLEAN : AgentCommits(t, amend))
  PROVE  FlowInv'
<1>0. FlowTypes /\ StampsInv /\ at[t] \in FlowTrees /\ edits \in Nat
  BY DEF FlowInv, FlowTypes
<1>1. PICK w \in FlowTrees : Alter(t, w)
  <2>1. CASE \E f \in Files : AgentEdits(t, f)
    <3>1. PICK f \in Files, v \in Nat : Alter(t, [at[t] EXCEPT !.files[f] = v])
      <4>1. PICK f \in Files : AgentEdits(t, f)
        BY <2>1
      <4>2. PICK v \in {0, edits + 1} : Alter(t, [at[t] EXCEPT !.files[f] = v])
        BY <4>1 DEF AgentEdits
      <4> QED
        BY <1>0, <4>2
    <3> QED  BY <3>1, <1>0 DEF FlowTrees
  <2>2. CASE \E amend \in BOOLEAN : AgentCommits(t, amend)
    <3>1. PICK amend \in BOOLEAN : AgentCommits(t, amend)
      BY <2>2
    <3> DEFINE last == CHOOSE c \in at[t].log : \A d \in at[t].log : d <= c
               lead == IF at[t].lead # "even" THEN at[t].lead ELSE IF amend THEN "diverged" ELSE "ahead"
               newlog == (IF amend THEN at[t].log \ {last} ELSE at[t].log) \cup {edits + 1}
    <3>3. lead \in {"even", "ahead", "diverged"} /\ newlog \in SUBSET Nat
      <4> HIDE DEF last
      <4> QED
        BY <1>0 DEF FlowTrees
    <3> HIDE DEF lead, newlog
    <3>5. [at[t] EXCEPT !.log = newlog] \in FlowTrees
      BY <1>0, <3>3 DEF FlowTrees
    <3> QED  BY <3>1, <1>0, <3>3, <3>5 DEF FlowTrees, AgentCommits
  <2> QED
    BY <2>1, <2>2
<1>4. /\ discarding' \in [tree : Checkouts, file : Files] \cup {Blank}
      /\ pushing' \in [tree : Checkouts, force : BOOLEAN] \cup {Blank}
  BY <1>0 DEF FlowTypes, AgentEdits, AgentCommits
<1> QED  BY <1>0, <1>1, AlterIs, <1>4, AsShown DEF AgentEdits, AgentCommits

LEMMA RefreshKeeps ==
  ASSUME FlowInv, Refresh
  PROVE  FlowInv'
<1> QED  BY SameTrees, BumpedKeeps DEF Refresh, FlowInv, FlowTypes

LEMMA DialogsKeep ==
  ASSUME FlowInv, (\E f \in Files : ConfirmDiscard(f)) \/ Push
  PROVE  FlowInv'
<1>3. /\ discarding' \in [tree : Checkouts, file : Files] \cup {Blank}
      /\ pushing' \in [tree : Checkouts, force : BOOLEAN] \cup {Blank}
  <2>2. CASE \E f \in Files : ConfirmDiscard(f)  BY <2>2 DEF ConfirmDiscard, FlowTypes, FlowInv
  <2>3. CASE Push  BY <2>3 DEF FlowTypes, FlowInv, Push, Forced
  <2> QED
    BY <2>2, <2>3
<1> QED  BY SameTrees, <1>3, AsShown DEF ConfirmDiscard, Push

LEMMA DiscardKeeps ==
  ASSUME FlowInv, DiscardEnds
  PROVE  FlowInv'
<1> DEFINE t == discarding.tree
           f == discarding.file
<1>0. FlowTypes /\ StampsInv /\ discarding # Blank /\ t \in Checkouts /\ f \in Files
  BY DEF FlowInv, FlowTypes, DiscardEnds
<1>1. UNCHANGED <<tab, active, session, shown, pushing>> /\ discarding' = Blank
  BY DEF DiscardEnds
<1>2. /\ discarding' \in [tree : Checkouts, file : Files] \cup {Blank}
      /\ pushing' \in [tree : Checkouts, force : BOOLEAN] \cup {Blank}
  BY <1>0, <1>1 DEF FlowTypes
<1>3. CASE Alter(t, [at[t] EXCEPT !.files[f] = 0]) /\ Bumped(at'[active])
  <2>2. /\ at' \in [Checkouts -> FlowTrees] /\ edits' \in Nat
        /\ \A s \in Checkouts : at'[s].stamp <= edits' /\ at[s].stamp <= at'[s].stamp
    <3> HIDE DEF t, f
    <3> QED  BY <1>0, <1>3, AlterIs DEF FlowTypes, FlowTrees
  <2> QED
    BY <1>1, <1>2, <1>3, <2>2, BumpedKeeps
<1>4. CASE UNCHANGED <<at, edits, loads, due>>
  <2>1. /\ at' \in [Checkouts -> FlowTrees] /\ edits' \in Nat
        /\ \A s \in Checkouts : at'[s].stamp <= edits' /\ at[s].stamp <= at'[s].stamp
    BY <1>4, SameTrees
  <2> QED
    BY <1>1, <1>2, <1>4, <2>1, AsShown
<1> QED
  BY <1>3, <1>4 DEF DiscardEnds

LEMMA PushKeeps ==
  ASSUME FlowInv, PushEnds
  PROVE  FlowInv'
<1> DEFINE t == pushing.tree
<1>0. FlowTypes /\ StampsInv /\ pushing # Blank /\ t \in Checkouts
  BY DEF FlowInv, FlowTypes, PushEnds
<1>1. UNCHANGED <<tab, active, session, shown, discarding>> /\ pushing' = Blank
  BY DEF PushEnds
<1>2. /\ discarding' \in [tree : Checkouts, file : Files] \cup {Blank}
      /\ pushing' \in [tree : Checkouts, force : BOOLEAN] \cup {Blank}
  BY <1>0, <1>1 DEF FlowTypes
<1>3. CASE Alter(t, [at[t] EXCEPT !.lead = "even"]) /\ Bumped(at'[active])
  <2>1. [at[t] EXCEPT !.lead = "even"] \in FlowTrees
    BY ZenonT(60), <1>0 DEF FlowTypes, FlowTrees
  <2>2. /\ at' \in [Checkouts -> FlowTrees] /\ edits' \in Nat
        /\ \A s \in Checkouts : at'[s].stamp <= edits' /\ at[s].stamp <= at'[s].stamp
    <3> HIDE DEF t
    <3> QED
      BY <1>0, <1>3, <2>1, AlterIs
  <2> QED
    BY <1>1, <1>2, <1>3, <2>2, BumpedKeeps
<1>4. CASE UNCHANGED <<at, edits, loads, due>>
  <2>1. /\ at' \in [Checkouts -> FlowTrees] /\ edits' \in Nat
        /\ \A s \in Checkouts : at'[s].stamp <= edits' /\ at[s].stamp <= at'[s].stamp
    BY <1>4, SameTrees
  <2> QED
    BY <1>1, <1>2, <1>4, <2>1, AsShown
<1> QED
  BY <1>3, <1>4 DEF PushEnds

-----------------------------------------------------------------------------
(* Selecting.                                                              *)

LEMMA SelectTreeKeeps ==
  ASSUME FlowInv, NEW t \in Checkouts, SelectTree(t)
  PROVE  FlowInv'
<1>0. /\ FlowTypes /\ tab \in {"changes", "history", "remote"} /\ loads \subseteq FlowLoads
      /\ at[t] \in FlowTrees /\ session \in [Checkouts -> FlowSessions] /\ StampsInv
  BY DEF FlowInv, FlowTypes
<1>1. UNCHANGED <<at, tab, session, discarding, pushing, edits>> /\ active' = t /\ due' = at[t].stamp
  BY DEF SelectTree
<1>2. PICK new \in FlowLoads :
           /\ Keyed(t, at[t]) = {new} /\ new.what = Keys[tab] /\ new.tree = t
           /\ new.asked = at[t]
           /\ tab = "history" => new.key = session[t].commit
  BY <1>0, KeyedIs
<1> DEFINE ls == {l \in loads : l.what # Keys[tab]} \cup {new}
<1>3. Selected(t, session, ls) /\ ls \in SUBSET FlowLoads
  BY <1>0, <1>2 DEF SelectTree, Rerun
<1>4. due' \in Nat /\ StampsInv'
  BY <1>0, <1>1 DEF StampsInv, FlowTrees
<1>5. ASSUME loads' \subseteq FlowLoads, shown' \in FlowScreens
      PROVE  FlowTypes'
  BY <1>0, <1>1, <1>4, <1>5 DEF FlowTypes
<1>6. CASE tab = "changes"
  <2>3. \A l \in ls : l = new \/ (l.what = "diff" /\ l \in loads)
    BY <1>0, <1>6, <1>3, KeysAre DEF FlowInv, TabInv, Loading, FlowLoads, Selected
  <2>4. new \in ls /\ new.what = "summary"  BY <1>2, <1>3, <1>6, KeysAre DEF Selected
  <2> HIDE DEF ls
  <2>5. /\ loads' \subseteq FlowLoads /\ shown' \in FlowScreens
        /\ shown'.history = shown.history /\ shown'.detail = shown.detail
        /\ shown'.status = shown.status
        /\ \A l \in loads' : l.what = "diff" =>
               /\ ReadsDiff(session[t]) /\ l.tree = t /\ l.key = session[t].path
               /\ l.asked = at[t]
        /\ \A l, m \in loads' : l.what = "diff" /\ m.what = "diff" => l = m
        /\ \A l : l.what # "diff" => (l \in loads' <=> l \in ls)
        /\ shown'.diff # Blank => ReadsDiff(session[t]) /\ \E l \in loads' : l.what = "diff"
    BY <1>0, <1>3, <1>6, KeysAre, DiffEffectIs DEF Selected
  <2>6. \A l \in loads' : l = new \/ l.what = "diff"
    BY <2>3, <2>5
  <2>7. at[t].stamp \in Nat
    BY <1>0 DEF FlowTrees
  <2>8. LoadsInv'
    <3>1. \A l, m \in loads' : l.what = m.what => l = m
      BY <2>4, <2>5, <2>6
    <3> QED
      BY <1>1, <1>2, <2>4, <2>5, <2>6, <2>7, <3>1 DEF LoadsInv
  <2>9. DiffInv'  BY <1>1, <2>5 DEF DiffInv, Loading
  <2>10. HistoryInv' /\ StatusInv' /\ TabInv'
    BY <1>1, <1>6, <2>4, <2>5, <2>6 DEF FlowInv, HistoryInv, StatusInv, TabInv, Loading
  <2> QED
    BY <1>4, <1>5, <2>5, <2>8, <2>9, <2>10 DEF FlowInv
<1>7. CASE tab = "history"
  <2>3. \A l \in ls : l = new \/ (l.what = "detail" /\ l \in loads)
    BY <1>0, <1>7, <1>3, KeysAre DEF FlowInv, TabInv, Loading, FlowLoads, Selected
  <2>4. new \in ls /\ new.what = "history" /\ new.key = session[t].commit
    BY <1>2, <1>7, <1>3, KeysAre DEF Selected
  <2> HIDE DEF ls
  <2>5. /\ loads' \subseteq FlowLoads /\ shown' \in FlowScreens
        /\ shown'.history = shown.history /\ shown'.diff = shown.diff
        /\ shown'.status = shown.status
        /\ \A l \in loads' : l.what = "detail" => l.tree = t /\ l.key = session[t].commit
        /\ \A l, m \in loads' : l.what = "detail" /\ m.what = "detail" => l = m
        /\ \A l : l.what # "detail" => (l \in loads' <=> l \in ls)
        /\ shown'.detail # Blank => \E l \in loads' : l.what = "detail"
    BY <1>0, <1>3, <1>7, KeysAre, DetailEffectIs DEF Selected
  <2>6. \A l \in loads' : l = new \/ l.what = "detail"
    BY <2>3, <2>5
  <2>7. at[t].stamp \in Nat
    BY <1>0 DEF FlowTrees
  <2>8. LoadsInv'
    <3>1. \A l, m \in loads' : l.what = m.what => l = m
      BY <2>4, <2>5, <2>6
    <3> QED
      BY <1>1, <1>2, <2>4, <2>5, <2>6, <2>7, <3>1 DEF LoadsInv
  <2>9. HistoryInv'  BY <2>4, <2>5 DEF HistoryInv, Loading
  <2>10. DiffInv' /\ StatusInv' /\ TabInv'
    BY <1>1, <1>7, <2>4, <2>5, <2>6 DEF FlowInv, DiffInv, StatusInv, TabInv, Loading
  <2> QED
    BY <1>4, <1>5, <2>5, <2>8, <2>9, <2>10 DEF FlowInv
<1>8. CASE tab = "remote"
  <2>3. loads' = {new} /\ new.what = "status"
    BY <1>2, <1>0, <1>8, <1>3, KeysAre DEF FlowInv, TabInv, Loading, FlowLoads, Selected
  <2>5. LoadsInv'  BY <1>1, <1>2, <2>3, <1>0 DEF LoadsInv, FlowTrees
  <2>6. DiffInv' /\ HistoryInv' /\ StatusInv' /\ TabInv'
    BY <1>1, <1>8, <1>3, KeysAre, <2>3 DEF FlowInv, DiffInv, HistoryInv, StatusInv, TabInv, Loading, Selected
  <2>7. loads' \subseteq FlowLoads /\ shown' \in FlowScreens
    BY <1>0, <1>3, <1>8, KeysAre, <2>3 DEF FlowTypes, Selected
  <2> QED
    BY <1>4, <1>5, <2>5, <2>6, <2>7 DEF FlowInv
<1> QED
  BY <1>0, <1>6, <1>7, <1>8

LEMMA SelectFileKeeps ==
  ASSUME FlowInv, NEW f \in Files, SelectFile(f)
  PROVE  FlowInv'
<1>0. /\ FlowTypes /\ active \in Checkouts /\ loads \subseteq FlowLoads /\ StampsInv
      /\ at[active] \in FlowTrees /\ session \in [Checkouts -> FlowSessions]
  BY DEF FlowInv, FlowTypes
<1>1. /\ UNCHANGED <<at, tab, active, discarding, pushing, edits, due>> /\ tab = "changes"
      /\ session' = [session EXCEPT ![active].path = f] /\ DiffEffect(active, session', loads)
  BY DEF SelectFile
<1>2. /\ session' \in [Checkouts -> FlowSessions] /\ session'[active].path = f
      /\ session'[active].summary = session[active].summary
      /\ session'[active].stale = session[active].stale
      /\ session'[active].commit = session[active].commit
  BY <1>0, <1>1 DEF FlowSessions
<1>3. /\ loads' \subseteq FlowLoads /\ shown' \in FlowScreens
      /\ shown'.history = shown.history /\ shown'.detail = shown.detail
      /\ shown'.status = shown.status
      /\ \A l \in loads' : l.what = "diff" =>
               /\ ReadsDiff(session'[active]) /\ l.tree = active /\ l.key = session'[active].path
               /\ l.asked = at[active]
      /\ \A l, m \in loads' : l.what = "diff" /\ m.what = "diff" => l = m
      /\ \A l : l.what # "diff" => (l \in loads' <=> l \in loads)
      /\ shown'.diff # Blank => ReadsDiff(session'[active]) /\ \E l \in loads' : l.what = "diff"
  BY <1>0, <1>1, <1>2, DiffEffectIs
<1>5. LoadsInv'
  <2>1. due <= at[active].stamp
    BY <1>0 DEF StampsInv
  <2>2. \A l, m \in loads' : l.what = m.what => l = m
    BY <1>3 DEF FlowInv, LoadsInv
  <2>3. \A l \in loads' : l.what # "diff" => l \in loads /\ l.tree = active
    BY <1>3 DEF FlowInv, LoadsInv
  <2> QED
    BY <1>1, <1>2, <1>3, <2>1, <2>2, <2>3 DEF FlowInv, LoadsInv
<1>6. DiffInv'  BY <1>1, <1>3 DEF DiffInv, Loading
<1>7. HistoryInv' /\ StatusInv' /\ TabInv'
  BY <1>1, <1>2, <1>3 DEF FlowInv, HistoryInv, StatusInv, TabInv, Loading
<1> QED  BY <1>0, <1>1, <1>2, <1>3, <1>5, <1>6, <1>7 DEF FlowInv, FlowTypes, StampsInv

LEMMA SelectCommitKeeps ==
  ASSUME FlowInv, Nimble = FALSE, NEW c \in InHistory \cup {Blank}, SelectCommit(c)
  PROVE  FlowInv'
<1>0. /\ FlowTypes /\ active \in Checkouts /\ loads \subseteq FlowLoads /\ StampsInv
      /\ session \in [Checkouts -> FlowSessions]
  BY DEF FlowInv, FlowTypes
<1>1. /\ UNCHANGED <<at, tab, active, discarding, pushing, edits, due>> /\ tab = "history"
      /\ session' = [session EXCEPT ![active].commit = c] /\ DetailEffect(active, session', loads)
      /\ \A l \in loads : l.what # "history"
  BY DEF SelectCommit
<1>2. /\ session' \in [Checkouts -> FlowSessions] /\ session'[active].commit = c
      /\ session'[active].path = session[active].path
      /\ session'[active].summary = session[active].summary
      /\ session'[active].stale = session[active].stale
  BY <1>0, <1>1 DEF FlowSessions, FlowTypes, FlowScreens, HistoriesShown, InHistory
<1>3. /\ loads' \subseteq FlowLoads /\ shown' \in FlowScreens
      /\ shown'.history = shown.history /\ shown'.diff = shown.diff
      /\ shown'.status = shown.status
      /\ \A l \in loads' : l.what = "detail" => l.tree = active /\ l.key = session'[active].commit
      /\ \A l, m \in loads' : l.what = "detail" /\ m.what = "detail" => l = m
      /\ \A l : l.what # "detail" => (l \in loads' <=> l \in loads)
      /\ shown'.detail # Blank => \E l \in loads' : l.what = "detail"
  BY ZenonT(60), <1>0, <1>1, <1>2, DetailEffectIs
<1>6. LoadsInv'  BY <1>1, <1>3 DEF LoadsInv, FlowInv, TabInv, Loading, FlowTypes, FlowLoads
<1>7. HistoryInv'
  <2>1. ~Loading("history")
    BY <1>1 DEF Loading
  <2>2. shown.history # Blank /\ c # Blank => c \in shown.history.log
    BY DEF InHistory
  <2>3. shown'.detail # Blank => Loading("detail")'
    BY <1>3 DEF Loading
  <2> QED
    BY <1>1, <1>2, <1>3, <2>1, <2>2, <2>3 DEF FlowInv, HistoryInv
<1>8. DiffInv' /\ StatusInv' /\ TabInv'
  BY <1>1, <1>2, <1>3 DEF FlowInv, DiffInv, StatusInv, TabInv, Loading, FlowTypes, FlowLoads
<1> QED  BY <1>0, <1>1, <1>2, <1>3, <1>6, <1>7, <1>8 DEF FlowInv, FlowTypes, StampsInv

-----------------------------------------------------------------------------
(* The answers.                                                            *)

\* What a load finds.
LEMMA ReadingIs ==
  ASSUME FlowInv, NEW l \in loads, NEW reading \in {l.asked, at[l.tree]}
  PROVE  /\ reading \in FlowTrees /\ l \in FlowLoads /\ l.tree = active
         /\ ChangesIn(reading) \in SUBSET Files
         /\ l.what \in {"summary", "history", "status"} => reading.stamp >= due
         /\ l.what = "diff" => /\ l.key = session[active].path /\ ReadsDiff(session[active])
                               /\ reading.stamp >= due \/ Loading("summary") \/ session[active].stale
<1>1. /\ l \in FlowLoads /\ active \in Checkouts /\ at[active] \in FlowTrees /\ due \in Nat
      /\ l.tree = active /\ due <= at[active].stamp
  BY DEF FlowInv, FlowTypes, LoadsInv, StampsInv
<1>2. /\ l.what \in {"summary", "history", "status"} => l.asked.stamp >= due
      /\ l.what = "diff" => /\ l.key = session[active].path /\ ReadsDiff(session[active])
                            /\ l.asked.stamp >= due \/ Loading("summary") \/ session[active].stale
  BY DEF FlowInv, LoadsInv
<1>3. l.asked \in FlowTrees
  BY <1>1 DEF FlowLoads
<1>4. at[active].stamp \in Nat /\ at[active].stamp >= due
  BY <1>1 DEF FlowTrees
<1>5. ChangesIn(reading) \in SUBSET Files
  BY DEF ChangesIn
<1> QED
  BY <1>1, <1>2, <1>3, <1>4, <1>5

\* Nothing but the loads, what is shown and the session of the active worktree moves.
LEMMA AnsweredTypes ==
  ASSUME FlowInv, UNCHANGED <<at, tab, active, discarding, pushing, edits, due>>,
         session' \in [Checkouts -> FlowSessions], shown' \in FlowScreens, loads' \subseteq FlowLoads
  PROVE  FlowTypes' /\ StampsInv'
  BY DEF FlowInv, FlowTypes, StampsInv

LEMMA SummaryKeeps ==
  ASSUME FlowInv, NEW l \in loads, UNCHANGED <<at, tab, active, discarding, pushing, edits, due>>,
         l.what = "summary", NEW reading \in {l.asked, at[l.tree]}, SummaryRead(l, reading)
  PROVE  FlowInv'
<1>0. /\ FlowTypes /\ active \in Checkouts /\ loads \subseteq FlowLoads /\ tab = "changes"
      /\ at[active] \in FlowTrees /\ session \in [Checkouts -> FlowSessions] /\ l.tree = active
      /\ ChangesIn(reading) \in SUBSET Files
  BY ReadingIs DEF FlowInv, FlowTypes, TabInv, Loading
<1>2. Summarised(session[active], reading) \in FlowSessions
  <2>1. session[active] \in FlowSessions
    BY <1>0
  <2> DEFINE changes == ChangesIn(reading)
             p == IF session[active].path \in changes THEN session[active].path ELSE Blank
             subsets == (SUBSET Files) \cup {Blank}
  <2>3. Summarised(session[active], reading) = [session[active] EXCEPT !.summary = changes, !.stale = FALSE, !.path = p]
    BY DEF Summarised
  <2>4. changes \in subsets
    BY <1>0
  <2> HIDE DEF changes, p, subsets
  <2> QED  BY <2>1, <1>0, <2>3, <2>4 DEF FlowSessions, p, subsets, changes
<1>3. session' \in [Checkouts -> FlowSessions] /\ session'[active].commit = session[active].commit
  BY <1>0, <1>2 DEF SummaryRead, Rest, Summarised, FlowSessions
<1> DEFINE rest == loads \ {l}
<1>4. /\ loads' \subseteq FlowLoads /\ shown' \in FlowScreens
      /\ shown'.history = shown.history /\ shown'.detail = shown.detail
      /\ shown'.status = shown.status
      /\ \A m \in loads' : m.what = "diff" =>
               /\ ReadsDiff(session'[active]) /\ m.tree = active /\ m.key = session'[active].path
               /\ m.asked = at[active]
      /\ \A k, m \in loads' : k.what = "diff" /\ m.what = "diff" => k = m
      /\ \A m : m.what # "diff" => (m \in loads' <=> m \in rest)
      /\ shown'.diff # Blank => ReadsDiff(session'[active]) /\ \E m \in loads' : m.what = "diff"
  <2>1. rest \in SUBSET FlowLoads /\ DiffEffect(active, session', rest)  BY <1>0 DEF SummaryRead, Rest
  <2> HIDE DEF rest
  <2> QED
    BY <1>0, <1>3, <2>1, DiffEffectIs
<1>7. LoadsInv'
  BY <1>4, <1>0 DEF LoadsInv, FlowInv, TabInv, Loading, FlowLoads, FlowTypes, StampsInv, FlowTrees
<1>8. DiffInv'  BY <1>4 DEF DiffInv, Loading
<1>9. HistoryInv' /\ StatusInv' /\ TabInv'
  BY <1>0, <1>3, <1>4 DEF FlowInv, HistoryInv, StatusInv, TabInv, Loading, LoadsInv, FlowLoads
<1> QED  BY <1>3, <1>4, AnsweredTypes, <1>7, <1>8, <1>9 DEF FlowInv

LEMMA SummaryFailureKeeps ==
  ASSUME FlowInv, NEW l \in loads, UNCHANGED <<at, tab, active, discarding, pushing, edits, due>>,
         l.what = "summary", SummaryFails(l)
  PROVE  FlowInv'
<1>0. /\ FlowTypes /\ active \in Checkouts /\ loads \subseteq FlowLoads /\ tab = "changes"
      /\ session \in [Checkouts -> FlowSessions] /\ l.tree = active /\ shown \in FlowScreens
  BY DEF FlowInv, FlowTypes, TabInv, Loading, LoadsInv
<1>1. /\ session' = [session EXCEPT ![active].stale = (session[active].summary # Blank)]
      /\ loads' = loads \ {l} /\ shown' = shown
  BY <1>0 DEF SummaryFails, Rest
<1>2. /\ session' \in [Checkouts -> FlowSessions] /\ session'[active].commit = session[active].commit
      /\ session'[active].path = session[active].path
      /\ session'[active].summary = session[active].summary
      /\ session'[active].stale = (session[active].summary # Blank)
  <2> DEFINE b == session[active].summary # Blank
  <2>2. session' = [session EXCEPT ![active].stale = b] /\ b \in BOOLEAN  BY <1>1
  <2> HIDE DEF b
  <2> QED  BY <1>0, <2>2 DEF b, FlowSessions
<1>6. LoadsInv'  BY <1>2, <1>0, <1>1 DEF FlowInv, LoadsInv, ReadsDiff, TabInv, Loading, FlowLoads
<1>7. DiffInv'  BY <1>1, <1>2, <1>0 DEF FlowInv, DiffInv, ReadsDiff, Loading
<1>8. HistoryInv' /\ StatusInv' /\ TabInv'
  BY <1>0, <1>1, <1>2 DEF FlowInv, HistoryInv, StatusInv, TabInv, Loading, LoadsInv, FlowLoads
<1> QED  BY <1>0, <1>1, <1>2, AnsweredTypes, <1>6, <1>7, <1>8 DEF FlowInv

LEMMA DiffKeeps ==
  ASSUME FlowInv, NEW l \in loads, UNCHANGED <<at, tab, active, discarding, pushing, edits, due>>,
         l.what = "diff",
         DiffFails(l) \/ \E reading \in {l.asked, at[l.tree]} : DiffRead(l, reading)
  PROVE  FlowInv'
<1>0. /\ FlowTypes /\ active \in Checkouts /\ loads \subseteq FlowLoads /\ tab = "changes"
      /\ session \in [Checkouts -> FlowSessions] /\ l.tree = active /\ shown \in FlowScreens
  BY DEF FlowInv, FlowTypes, TabInv, Loading, LoadsInv
<1>1. loads' = loads \ {l} /\ session' = session
  BY DEF DiffFails, DiffRead, Rest
<1>3. PICK d \in DiffsShown \cup {Blank} :
          /\ shown' = [shown EXCEPT !.diff = d]
          /\ d # Blank => /\ d.path = l.key
                          /\ d.stale = FALSE => /\ d.tree = active
                                                /\ d.stamp >= due \/ Loading("summary") \/ session[active].stale
  <2>1. CASE DiffFails(l)
    <3> DEFINE d == IF shown.diff # Blank /\ shown.diff.path = l.key
                    THEN [shown.diff EXCEPT !.stale = TRUE] ELSE Blank
    <3>1. shown' = [shown EXCEPT !.diff = d]
      BY <2>1 DEF DiffFails
    <3>2. CASE shown.diff # Blank /\ shown.diff.path = l.key
      <4>2. d \in DiffsShown /\ d.stale = TRUE /\ d.path = l.key  BY <3>2, <1>0 DEF DiffsShown, FlowScreens
      <4> HIDE DEF d
      <4> QED
        BY <3>1, <4>2
    <3>3. CASE ~(shown.diff # Blank /\ shown.diff.path = l.key)
      <4>1. d = Blank
        BY <3>3
      <4> HIDE DEF d
      <4> QED
        BY <3>1, <4>1
    <3> QED
      BY <3>2, <3>3
  <2>2. CASE \E reading \in {l.asked, at[l.tree]} : DiffRead(l, reading)
    <3>1. PICK reading \in {l.asked, at[l.tree]} : DiffRead(l, reading)
      BY <2>2
    <3> DEFINE d == DiffOf(l, reading)
    <3>2. shown' = [shown EXCEPT !.diff = d] /\ l.key \in Files
      BY <3>1 DEF DiffRead, ChangesIn
    <3>4. d \in DiffsShown /\ d.path = l.key /\ d.tree = active /\ d.stamp = reading.stamp
      BY <1>0, <3>2, ReadingIs DEF DiffOf, DiffsShown, FlowTrees
    <3> HIDE DEF d
    <3> QED  BY <3>2, ReadingIs, <3>4
  <2> QED
    BY <2>1, <2>2
<1>7. DiffInv'  BY <1>1, <1>3, <1>0 DEF DiffInv, FlowInv, LoadsInv, Loading, FlowScreens
<1>8. HistoryInv' /\ StatusInv' /\ TabInv'
  BY <1>0, <1>1, <1>3 DEF FlowInv, HistoryInv, StatusInv, TabInv, Loading, LoadsInv, FlowScreens
<1> QED  BY <1>0, <1>3, <1>1, AnsweredTypes, <1>7, <1>8 DEF FlowInv, LoadsInv, Loading, FlowScreens

LEMMA HistoryKeeps ==
  ASSUME FlowInv, NEW l \in loads, UNCHANGED <<at, tab, active, discarding, pushing, edits, due>>,
         l.what = "history", NEW reading \in {l.asked, at[l.tree]}, HistoryRead(l, reading)
  PROVE  FlowInv'
<1> DEFINE gone == l.key # Blank /\ l.key \notin reading.log
           h == HistoryOf(l, reading)
<1>0. /\ FlowTypes /\ active \in Checkouts /\ loads \subseteq FlowLoads /\ tab = "history"
      /\ session \in [Checkouts -> FlowSessions] /\ l.tree = active /\ shown \in FlowScreens
      /\ l.key = session[active].commit /\ \A m \in loads : m.what = "history" => m = l
  BY DEF FlowInv, FlowTypes, TabInv, Loading, LoadsInv
<1>1. reading \in FlowTrees /\ reading.stamp >= due
  BY ReadingIs
<1>2. h \in HistoriesShown /\ h.tree = active /\ h.log = reading.log /\ h.stamp = reading.stamp
  BY <1>0, <1>1 DEF HistoryOf, HistoriesShown, FlowTrees
<1>4. CASE gone
  <2>1. /\ session' = [session EXCEPT ![active].commit = Blank]
        /\ shown' = [shown EXCEPT !.history = h, !.detail = Blank]
        /\ loads' = {m \in loads \ {l} : m.what \notin {"detail"}}
    BY <1>4 DEF HistoryRead, Rerun, Rest
  <2>2. loads' = {}  BY <1>0, <2>1 DEF FlowInv, TabInv, Loading, FlowLoads
  <2> HIDE DEF h
  <2>7. HistoryInv'  BY <1>1, <1>2, <1>0, <2>1 DEF HistoryInv, FlowSessions, FlowScreens
  <2>8. DiffInv' /\ StatusInv' /\ TabInv'
    BY <1>0, <2>2, <1>2, <2>1 DEF FlowInv, DiffInv, StatusInv, TabInv, Loading, FlowScreens
  <2> QED  BY ZenonT(60), <2>2, <1>0, <2>1, <1>2, AnsweredTypes, <2>7, <2>8 DEF FlowInv, LoadsInv, FlowSessions, FlowScreens
<1>5. CASE ~gone
  <2>1. /\ session' = session /\ shown' = [shown EXCEPT !.history = h, !.detail = shown.detail]
        /\ loads' = loads \ {l}
    BY <1>5 DEF HistoryRead, Rest
  <2>2. session[active].commit # Blank => session[active].commit \in reading.log
    BY <1>0, <1>5
  <2> HIDE DEF h, gone
  <2>3. /\ shown' \in FlowScreens /\ shown'.history = h /\ shown'.detail = shown.detail
        /\ shown'.diff = shown.diff /\ shown'.status = shown.status
    BY <1>0, <1>2, <2>1 DEF FlowScreens
  <2>4. \A m \in loads' : m \in loads /\ m.what = "detail"
    BY <1>0, <2>1 DEF FlowInv, TabInv, Loading, FlowLoads
  <2>5. FlowTypes' /\ StampsInv'  BY <2>3, <1>0, <2>1, AnsweredTypes
  <2>7. HistoryInv'
    <3>1. Loading("detail") <=> Loading("detail")'
      BY <1>0, <2>1, <2>4 DEF Loading
    <3>2. ~Loading("detail") => shown.detail \in {Blank, session[active].commit}
      BY DEF FlowInv, HistoryInv
    <3> QED
      BY <1>1, <1>2, <2>1, <2>2, <2>3, <3>1, <3>2 DEF HistoryInv
  <2>8. DiffInv' /\ StatusInv' /\ TabInv'
    BY <1>0, <2>1, <2>3, <2>4 DEF FlowInv, DiffInv, StatusInv, TabInv, Loading
  <2> QED  BY <2>5, <2>1, <2>4, <2>7, <2>8 DEF FlowInv, LoadsInv
<1> QED
  BY <1>4, <1>5

LEMMA HistoryFailureKeeps ==
  ASSUME FlowInv, NEW l \in loads, UNCHANGED <<at, tab, active, discarding, pushing, edits, due>>,
         l.what = "history", HistoryFails(l)
  PROVE  FlowInv'
<1> DEFINE h == IF shown.history = Blank THEN Blank ELSE [shown.history EXCEPT !.stale = TRUE]
<1>0. /\ FlowTypes /\ active \in Checkouts /\ loads \subseteq FlowLoads /\ tab = "history"
      /\ session \in [Checkouts -> FlowSessions] /\ shown \in FlowScreens
  BY DEF FlowInv, FlowTypes, TabInv, Loading
<1>1. /\ session' = session /\ loads' = loads \ {l} /\ shown' = [shown EXCEPT !.history = h]
  BY DEF HistoryFails, Rest
<1>2. h = Blank \/ (h \in HistoriesShown /\ h.stale = TRUE)  BY <1>0 DEF HistoriesShown, FlowScreens
<1> HIDE DEF h
<1>3. /\ shown' \in FlowScreens /\ shown'.history = h /\ shown'.detail = shown.detail
      /\ shown'.diff = shown.diff /\ shown'.status = shown.status
  BY <1>0, <1>1, <1>2 DEF FlowScreens
<1>4. FlowTypes' /\ StampsInv'  BY <1>3, <1>0, <1>1, AnsweredTypes
<1>5. LoadsInv'  BY <1>1, <1>0 DEF FlowInv, LoadsInv, TabInv, Loading
<1>6. HistoryInv'
  <2>1. Loading("detail") <=> Loading("detail")'
    BY <1>1 DEF Loading
  <2>2. ~Loading("detail") => shown.detail \in {Blank, session[active].commit}
    BY DEF FlowInv, HistoryInv
  <2> QED
    BY <1>1, <1>2, <1>3, <2>1, <2>2 DEF HistoryInv
<1> QED  BY <1>4, <1>5, <1>6, <1>0, <1>1, <1>3 DEF FlowInv, DiffInv, StatusInv, TabInv, Loading

LEMMA DetailKeeps ==
  ASSUME FlowInv, NEW l \in loads, UNCHANGED <<at, tab, active, discarding, pushing, edits, due>>,
         l.what = "detail", NEW detail \in {Blank, l.key}, DetailShown(l, detail)
  PROVE  FlowInv'
<1>0. /\ FlowTypes /\ active \in Checkouts /\ loads \subseteq FlowLoads /\ tab = "history"
      /\ session \in [Checkouts -> FlowSessions] /\ shown \in FlowScreens
      /\ l.key = session[active].commit
  BY DEF FlowInv, FlowTypes, TabInv, Loading, LoadsInv
<1>1. /\ session' = session /\ loads' = loads \ {l} /\ shown' = [shown EXCEPT !.detail = detail]
  BY DEF DetailShown, Rest
<1>3. /\ shown' \in FlowScreens /\ shown'.history = shown.history /\ shown'.detail = detail
      /\ shown'.diff = shown.diff /\ shown'.status = shown.status  BY <1>0, <1>1 DEF FlowScreens, FlowSessions
<1>4. FlowTypes' /\ StampsInv'  BY <1>3, <1>0, <1>1, AnsweredTypes
<1>5. LoadsInv'  BY <1>1, <1>0 DEF FlowInv, LoadsInv, TabInv, Loading
<1>6. HistoryInv'  BY <1>1, <1>0, <1>3 DEF FlowInv, HistoryInv, FlowSessions, Loading
<1> QED  BY <1>4, <1>5, <1>6, <1>0, <1>1, <1>3 DEF FlowInv, DiffInv, StatusInv, TabInv, Loading

LEMMA StatusKeeps ==
  ASSUME FlowInv, NEW l \in loads, UNCHANGED <<at, tab, active, discarding, pushing, edits, due>>,
         l.what = "status",
         NEW stat \in StatusesShown \cup {Blank},
         stat # Blank => stat.tree = active /\ stat.stamp >= due,
         StatusShown(l, stat)
  PROVE  FlowInv'
<1>0. /\ FlowTypes /\ active \in Checkouts /\ loads \subseteq FlowLoads /\ tab = "remote"
      /\ session \in [Checkouts -> FlowSessions] /\ shown \in FlowScreens
  BY DEF FlowInv, FlowTypes, TabInv, Loading
<1>1. /\ session' = session /\ loads' = loads \ {l} /\ shown' = [shown EXCEPT !.status = stat]
  BY DEF StatusShown, Rest
<1>2. /\ shown' \in FlowScreens /\ shown'.history = shown.history /\ shown'.detail = shown.detail
      /\ shown'.diff = shown.diff /\ shown'.status = stat  BY <1>0, <1>1 DEF FlowScreens
<1>3. FlowTypes' /\ StampsInv'  BY <1>2, <1>0, <1>1, AnsweredTypes
<1>5. LoadsInv'  BY <1>1, <1>0 DEF FlowInv, LoadsInv, TabInv, Loading
<1>7. DiffInv' /\ HistoryInv' /\ TabInv'
  BY <1>0, <1>1, <1>2 DEF FlowInv, DiffInv, HistoryInv, TabInv, Loading
<1> QED  BY <1>3, <1>5, <1>1, <1>2, <1>7 DEF FlowInv, StatusInv

LEMMA AnswerKeeps ==
  ASSUME FlowInv, NEW l \in loads, LoadEnds(l)
  PROVE  FlowInv'
<1>0. UNCHANGED <<at, tab, active, discarding, pushing, edits, due>>
  BY DEF LoadEnds
<1>1. CASE Fails(l)
  <2>1. CASE l.what = "summary" /\ SummaryFails(l)
    BY <1>0, <2>1, SummaryFailureKeeps
  <2>2. CASE l.what = "diff" /\ DiffFails(l)
    BY <1>0, <2>2, DiffKeeps
  <2>3. CASE l.what = "history" /\ HistoryFails(l)
    BY <1>0, <2>3, HistoryFailureKeeps
  <2>4. CASE l.what = "detail" /\ DetailShown(l, IF shown.detail = l.key THEN l.key ELSE Blank)
    <3> DEFINE detail == IF shown.detail = l.key THEN l.key ELSE Blank
    <3> HIDE DEF detail
    <3> QED  BY <1>0, <2>4, DetailKeeps
  <2>5. CASE l.what = "status" /\ StatusShown(l, Blank)  BY <1>0, <2>5, StatusKeeps
  <2> QED
    BY <1>1, <2>1, <2>2, <2>3, <2>4, <2>5 DEF Fails
<1>2. ASSUME NEW reading \in {l.asked, at[l.tree]}, Read(l, reading)
      PROVE  FlowInv'
  <2>1. CASE l.what = "summary" /\ SummaryRead(l, reading)
    BY <1>0, <2>1, SummaryKeeps
  <2>2. CASE l.what = "diff" /\ DiffRead(l, reading)
    BY <1>0, <2>2, DiffKeeps
  <2>3. CASE l.what = "history" /\ HistoryRead(l, reading)
    BY <1>0, <2>3, HistoryKeeps
  <2>4. CASE l.what = "detail" /\ DetailShown(l, l.key)  BY <1>0, <2>4, DetailKeeps
  <2>5. CASE l.what = "status" /\ StatusShown(l, StatusOf(l, reading))
    <3> DEFINE stat == StatusOf(l, reading)
    <3>2. stat \in StatusesShown /\ stat.tree = active /\ stat.stamp >= due
      BY <2>5, ReadingIs DEF StatusOf, StatusesShown, FlowTrees, FlowInv, FlowTypes
    <3>3. stat \in StatusesShown \cup {Blank} /\ StatusShown(l, stat)
      BY <2>5, <3>2
    <3> HIDE DEF stat
    <3> QED
      BY <1>0, <2>5, <3>2, <3>3, StatusKeeps
  <2> QED
    BY <1>2, <2>1, <2>2, <2>3, <2>4, <2>5 DEF Read
<1> QED
  BY <1>1, <1>2 DEF LoadEnds

LEMMA FlowStep ==
  ASSUME FlowInv, FlowNext \/ UNCHANGED flowVars, Nimble = FALSE
  PROVE  FlowInv'
<1>1. CASE UNCHANGED flowVars
  <2>4. HistoryInv' /\ StatusInv' /\ TabInv'
    BY <1>1 DEF FlowInv, HistoryInv, StatusInv, TabInv, Loading, flowVars
  <2> QED  BY <1>1, <2>4 DEF FlowInv, FlowTypes, StampsInv, flowVars, LoadsInv, DiffInv, Loading, ReadsDiff
<1>2. CASE \E t \in Checkouts : SelectTree(t)
  BY <1>2, SelectTreeKeeps
<1>3. CASE \/ \E t \in Checkouts, f \in Files : AgentEdits(t, f)
           \/ \E t \in Checkouts, amend \in BOOLEAN : AgentCommits(t, amend)
  BY <1>3, AgentKeeps
<1>4. CASE \E f \in Files : SelectFile(f)
  BY <1>4, SelectFileKeeps
<1>5. CASE (\E f \in Files : ConfirmDiscard(f)) \/ Push
  BY <1>5, DialogsKeep
<1>6. CASE \E c \in InHistory \cup {Blank} : SelectCommit(c)
  BY <1>6, SelectCommitKeeps
<1>7. CASE \E l \in loads : LoadEnds(l)
  BY <1>7, AnswerKeeps
<1>8. CASE Refresh
  BY <1>8, RefreshKeeps
<1>9. CASE DiscardEnds
  BY <1>9, DiscardKeeps
<1>10. CASE PushEnds
  BY <1>10, PushKeeps
<1> QED
  BY <1>1, <1>2, <1>3, <1>4, <1>5, <1>6, <1>7, <1>8, <1>9, <1>10 DEF FlowNext

LEMMA FlowHolds ==
  ASSUME FlowInv
  PROVE  FlowTypeOK /\ ReviewIsCurrent
<1>1. FlowTypeOK
  <2>3. due \in 0..edits  BY DEF FlowTypes, FlowInv, StampsInv, FlowTrees
  <2> QED  BY <2>3 DEF FlowTypeOK, FlowTypes, FlowLoads, Keys, FlowSessions, FlowInv
<1>2. ASSUME AllLoaded
      PROVE  \A kind : ~Loading(kind)
  BY <1>2 DEF AllLoaded, Loading
<1>6. /\ shown.diff # Blank => shown.diff.stale \in BOOLEAN
      /\ shown.history # Blank => shown.history.stale \in BOOLEAN
      /\ session[active].stale \in BOOLEAN
  BY DEF FlowScreens, DiffsShown, HistoriesShown, FlowSessions, FlowInv, FlowTypes
<1>7. ShownFollows  BY <1>2, <1>6 DEF ShownFollows, FlowInv, DiffInv, HistoryInv, StatusInv
<1>8. ShownIsFresh  BY <1>2, <1>6 DEF ShownIsFresh, FlowInv, DiffInv, HistoryInv, StatusInv
<1> QED
  BY <1>1, <1>7, <1>8, <1>2, <1>6 DEF ReviewIsCurrent, SelectionIsListed, ReadsDiff, FlowInv, DiffInv,
     HistoryInv

-----------------------------------------------------------------------------
(* The review panel.                                                       *)

Selections == [mode : {"changes", "commits"}, changed : Docs \cup {NoDoc},
               sha : Commits \cup {0}, page : Docs \cup {NoDoc}]
Loadings == [diff : Docs \cup {NoDoc}, text : Nat, detail : Commits \cup {0}]
Stacks == [sha : Commits \cup {0}, opened : SUBSET Docs,
           cells : [Docs -> {"idle", "loading", "ready", "error"}]]
Editors == [doc : Docs, view : Commits \cup {0}]
Drafts == [place : [doc : Docs \cup {NoDoc}, view : Commits \cup {0}],
           on : [doc : Docs \cup {NoDoc}, view : Commits \cup {0}],
           phase : {"none", "begun", "typed", "saving"}]
Portals == [open : BOOLEAN, leaving : BOOLEAN, entry : BOOLEAN, ref : BOOLEAN, timers : Nat,
            hears : Nat, asked : BOOLEAN]
ThreadStates == {"none", "strip", "shown", "editing", "typed", "saving"}
Statuses == {"open", "addressed", "gone"}

\* The viewer: its selections, loads and editors.
ViewerTypes ==
    /\ picked \in Selections /\ loaded \in Loadings /\ asks \in [diff : BOOLEAN, detail : BOOLEAN]
    /\ stack \in Stacks /\ registry \subseteq Editors
    /\ texts \in [Docs -> Nat \ {0}] /\ hashes \in [Docs -> Nat]
    /\ threads \in [Remarks -> ThreadStates]

\* The rest of the panel.
PanelTypes ==
    /\ surface \in {"marks", "threads", "jumps", "draft", "portal"}
    /\ marks \in [Docs -> Nat] /\ remarks \in [Remarks -> Statuses]
    /\ focused \in Remarks \cup {NoRemark} /\ jumps \subseteq Remarks /\ landed \in BOOLEAN
    /\ draft \in Drafts /\ portal \in Portals /\ turns \in 0..MaxTurns

\* A page is selected in the commit that is shown, or in one none is shown of yet.
PageFits(p, l) == l.detail \notin {0, p.sha} => p.page = NoDoc

\* A diff that is shown has a content.
HasText(l) == l.diff # NoDoc => l.text # 0

\* A stack is of the commit that is shown, and without one nothing is open.
StackFits(p, l, s) == s.sha = IF p.mode = "commits" THEN l.detail ELSE 0
EmptyIfNone(s) == s.sha = 0 => s.opened = {}

\* A registered editor is on the screen, and its content is known.
EditorsInv ==
    /\ registry \subseteq Slots(picked, loaded, stack)
    /\ \A e \in registry : hashes[e.doc] = ContentOf(e)

ViewerInv ==
    /\ PageFits(picked, loaded) /\ HasText(loaded)
    /\ asks.diff = TRUE => picked.changed # NoDoc
    /\ StackFits(picked, loaded, stack) /\ EmptyIfNone(stack)
    /\ EditorsInv /\ ThreadsInPlace

\* While a jump waits for its editor, what it selected stays selected.
JumpsInv ==
    \A r \in jumps : LET to == PlaceOf[r] IN
        IF to.view = 0 THEN picked.mode = "changes" /\ picked.changed = to.doc
        ELSE picked.mode = "commits" /\ picked.sha = to.view /\ picked.page = to.doc

\* The one timer there can be is remembered by the portal that was asked to leave.
PortalInv ==
    /\ portal.timers = IF portal.ref = TRUE THEN 1 ELSE 0
    /\ portal.ref = TRUE => portal.open = TRUE
    /\ portal.open = TRUE => portal.asked = portal.ref

ReviewScreenInv ==
    /\ ViewerTypes /\ PanelTypes /\ ViewerInv /\ JumpsInv /\ PortalInv
    /\ DraftsAreAnchored /\ landed = TRUE

-----------------------------------------------------------------------------
(* Editors and threads.                                                    *)

LEMMA EditorIs ==
  ASSUME NEW d \in Docs, NEW v \in Commits \cup {0}
  PROVE  Editor(d, v) \in Editors /\ Editor(d, v).doc = d /\ Editor(d, v).view = v
  BY DEF Editor, Editors

LEMMA EditorsAre ==
  ASSUME NEW e \in Editors
  PROVE  e = Editor(e.doc, e.view) /\ e.doc \in Docs /\ e.view \in Commits \cup {0}
  BY DEF Editor, Editors

LEMMA PlacesAre ==
  ASSUME NEW r \in Remarks
  PROVE  PlaceOf[r] \in Editors
  BY ScreenAssumption DEF Editors, Commits

LEMMA CommitsAre == \A c \in Commits : c \in Nat /\ c # 0 /\ HeldBy[c] \in SUBSET Docs
  BY ScreenAssumption DEF Commits

\* The editors of a viewer are those of the diff that is shown, or of the files of one commit.
LEMMA SlotsAre ==
  ASSUME NEW p \in Selections, NEW l \in Loadings, NEW s \in Stacks, EmptyIfNone(s)
  PROVE  /\ Slots(p, l, s) \subseteq Editors
         /\ \A e \in Slots(p, l, s) :
              /\ p.mode = "changes" => e.view = 0 /\ e.doc = l.diff
              /\ p.mode # "changes" => e.view = s.sha /\ s.sha \in Commits
<1>1. CASE p.mode = "changes"  BY <1>1, EditorIs DEF Slots, ChangesEditor
<1>2. CASE p.mode # "changes"
  <2>1. Slots(p, l, s) = {Editor(d, s.sha) : d \in {x \in s.opened : s.cells[x] = "ready"}}
    BY <1>2 DEF Slots, StackEditors
  <2>2. s.sha \in Commits \cup {0} /\ s.opened \in SUBSET Docs
    BY DEF Stacks
  <2>3. \A d \in Docs : Editor(d, s.sha) \in Editors /\ Editor(d, s.sha).view = s.sha
    BY <2>2, EditorIs
  <2>4. s.opened # {} => s.sha \in Commits
    BY <2>2 DEF EmptyIfNone
  <2> QED
    BY <1>2, <2>1, <2>2, <2>3, <2>4
<1> QED
  BY <1>1, <1>2

\* An editor of the current file on the screen is the one the comments of that file and view
\* belong to.
LEMMA HostIs ==
  ASSUME NEW p \in Selections, NEW l \in Loadings, NEW s \in Stacks, EmptyIfNone(s),
         StackFits(p, l, s), PageFits(p, l),
         NEW e \in Slots(p, l, s), e.doc = Current(p)
  PROVE  e.view = ViewOf(p) /\ e = Editor(Current(p), ViewOf(p))
<1>1. e \in Editors /\ (p.mode = "changes" => e.view = 0) /\ (p.mode # "changes" => e.view = s.sha /\ s.sha \in Commits)
  BY SlotsAre
<1>2. e.doc \in Docs /\ e = Editor(e.doc, e.view) /\ e.doc # NoDoc
  BY <1>1, EditorsAre, ScreenAssumption
<1>3. CASE p.mode = "changes"
  BY <1>1, <1>2, <1>3 DEF ViewOf
<1>4. CASE p.mode # "changes"
  <2>1. p.mode = "commits" /\ p.page # NoDoc /\ ViewOf(p) = p.sha
    BY <1>2, <1>4 DEF Selections, Current, ViewOf
  <2>2. s.sha = l.detail /\ l.detail # 0
    BY <1>1, <1>4, <2>1, CommitsAre DEF StackFits
  <2> QED
    BY <1>1, <1>2, <1>4, <2>1, <2>2 DEF PageFits
<1> QED
  BY <1>3, <1>4

\* A thread is mounted for a comment of the current file, and only where it belongs.
LEMMA MountedIs ==
  ASSUME ViewerTypes,
         NEW p \in Selections, NEW l \in Loadings, NEW s \in Stacks, EmptyIfNone(s),
         StackFits(p, l, s), PageFits(p, l), NEW reg \in SUBSET Slots(p, l, s),
         NEW stat \in [Remarks -> Statuses]
  PROVE  /\ Mounted(reg, p, stat) \in [Remarks -> ThreadStates]
         /\ \A r \in Remarks : Mounted(reg, p, stat)[r] # "none" <=>
              stat[r] # "gone" /\ PlaceOf[r] \in reg /\ Current(p) = PlaceOf[r].doc
<1> DEFINE m == Mounted(reg, p, stat)
           kept(r) == threads[r] # "none" /\ Host(reg, p) = Host(registry, picked)
<1>4. \A r \in Remarks : m[r] \in ThreadStates
                         /\ (m[r] # "none" <=> ~(r \notin Inline(p) \/ stat[r] = "gone" \/ Host(reg, p) = {}))
  <2> TAKE r \in Remarks
  <2>2. m[r] = IF r \notin Inline(p) \/ stat[r] = "gone" \/ Host(reg, p) = {} THEN "none"
               ELSE IF kept(r)
                    THEN IF threads[r] = "strip" /\ stat[r] = "open" THEN "shown" ELSE threads[r]
                    ELSE Fresh(stat[r])  BY DEF Mounted
  <2>3. kept(r) => threads[r] # "none"
    OBVIOUS
  <2> HIDE DEF m, kept
  <2> QED  BY <2>2, <2>3 DEF ThreadStates, ViewerTypes, Fresh
<1>5. ASSUME NEW r \in Remarks
      PROVE  (r \in Inline(p) /\ Host(reg, p) # {}) <=> (PlaceOf[r] \in reg /\ Current(p) = PlaceOf[r].doc)
  <2>2. ASSUME r \in Inline(p), Host(reg, p) # {}
        PROVE  PlaceOf[r] \in reg /\ Current(p) = PlaceOf[r].doc
    <3>1. PICK e \in reg : e.doc = Current(p)
      BY <2>2 DEF Host
    <3> QED  BY <3>1, HostIs, <2>2 DEF Inline
  <2>3. ASSUME PlaceOf[r] \in reg, Current(p) = PlaceOf[r].doc
        PROVE  r \in Inline(p) /\ Host(reg, p) # {}  BY <2>3, HostIs DEF Inline, Host
  <2> QED
    BY <2>2, <2>3
<1>6. m \in [Remarks -> ThreadStates]
  <2>1. DOMAIN m = Remarks /\ m = [r \in Remarks |-> m[r]]  BY DEF Mounted
  <2> HIDE DEF m
  <2> QED
    BY <1>4, <2>1
<1> HIDE DEF m, kept
<1> QED  BY <1>6, <1>4, <1>5 DEF m

\* The stack after a render.
LEMMA StackedIs ==
  ASSUME ViewerTypes, NEW p \in Selections, NEW l \in Loadings, NEW s \in Stacks
  PROVE  /\ Stacked(p, l, s) \in Stacks /\ StackFits(p, l, Stacked(p, l, s))
         /\ EmptyIfNone(Stacked(p, l, s))
<1>0. /\ l.detail \in Commits \cup {0} /\ p.page \in Docs \cup {NoDoc} /\ s.opened \in SUBSET Docs
      /\ s.cells \in [Docs -> {"idle", "loading", "ready", "error"}]
      /\ p.mode \in {"changes", "commits"}
  BY DEF Loadings, Selections, Stacks
<1>1. CASE p.mode # "commits" \/ l.detail = 0  BY <1>1 DEF StackFits, EmptyIfNone, Stacked, NoStack, Stacks
<1>2. CASE p.mode = "commits" /\ l.detail # 0
  <2> DEFINE held == HeldBy[l.detail]
             same == s.sha = l.detail
             opened == IF ~same THEN ({p.page} \cap Docs) \cup (IF Cardinality(held) = 1 THEN held ELSE {})
                       ELSE s.opened \cup (IF p.page # picked.page THEN {p.page} \cap Docs ELSE {})
             cells == IF same THEN s.cells ELSE NoStack.cells
             next == [d \in Docs |-> IF d \in opened \cap held /\ cells[d] = "idle"
                                     THEN "loading" ELSE cells[d]]
  <2>1. Stacked(p, l, s) = [sha |-> l.detail, opened |-> opened, cells |-> next]
    BY <1>2 DEF Stacked
  <2>2. held \in SUBSET Docs /\ l.detail \in Commits /\ l.detail # 0
    BY <1>0, <1>2, CommitsAre
  <2>3. opened \in SUBSET Docs
    <3> HIDE DEF held, same
    <3> QED
      BY <1>0, <2>2
  <2>4. cells \in [Docs -> {"idle", "loading", "ready", "error"}]
    BY <1>0 DEF NoStack
  <2>5. next \in [Docs -> {"idle", "loading", "ready", "error"}]
    <3> HIDE DEF opened, held, cells
    <3> QED
      BY <2>4
  <2> HIDE DEF opened, held, cells, next
  <2> QED  BY <1>2, <2>2, <2>1, <2>3, <2>5 DEF StackFits, EmptyIfNone, Stacks
<1> QED
  BY <1>0, <1>1, <1>2

-----------------------------------------------------------------------------
(* A render.                                                               *)

LEMMA RenderKeeps ==
  ASSUME ViewerTypes, PanelTypes, ViewerInv, NEW p \in Selections, NEW l \in Loadings, NEW s \in Stacks,
         EmptyIfNone(s), PageFits(p, l), HasText(l), Render(p, l, s), remarks' = remarks,
         texts' \in [Docs -> Nat \ {0}], asks' \in [diff : BOOLEAN, detail : BOOLEAN],
         asks'.diff = TRUE => p.changed # NoDoc
  PROVE  ViewerTypes' /\ ViewerInv'
<1> DEFINE now == Stacked(p, l, s)
           reg == registry \cap Slots(p, l, now)
<1>0. /\ picked' = p /\ loaded' = l /\ stack' = now /\ registry' = reg
      /\ hashes' = [d \in Docs |-> IF p.mode = "changes" /\ l.diff = d THEN l.text ELSE hashes[d]]
      /\ threads' = Mounted(reg, p, remarks)
  BY DEF Render, StillRegistered
<1>1. now \in Stacks /\ StackFits(p, l, now) /\ EmptyIfNone(now)
  BY StackedIs
<1> HIDE DEF now
<1>2. reg \in SUBSET Slots(p, l, now) /\ reg \subseteq registry
  OBVIOUS
<1>3. /\ Slots(p, l, now) \subseteq Editors
      /\ \A e \in Slots(p, l, now) :
              /\ p.mode = "changes" => e.view = 0 /\ e.doc = l.diff
              /\ p.mode # "changes" => e.view = now.sha /\ now.sha \in Commits
  BY <1>1, SlotsAre
<1>4. remarks \in [Remarks -> Statuses] /\ hashes \in [Docs -> Nat] /\ l.text \in Nat
  BY DEF PanelTypes, ViewerTypes, Loadings
<1> HIDE DEF reg
<1>5. /\ threads' \in [Remarks -> ThreadStates]
      /\ \A r \in Remarks : threads'[r] # "none" <=>
              remarks[r] # "gone" /\ PlaceOf[r] \in reg /\ Current(p) = PlaceOf[r].doc
  BY <1>0, <1>1, <1>2, <1>4, MountedIs
<1>6. ViewerTypes'
  <2>1. hashes' \in [Docs -> Nat]
    BY <1>0, <1>4
  <2> QED
    BY <1>0, <1>1, <1>2, <1>3, <1>5, <2>1 DEF ViewerTypes
<1>7. EditorsInv'
  <2>2. ASSUME NEW e \in reg
        PROVE  hashes'[e.doc] = ContentOf(e)'
    <3>2. CASE p.mode = "changes"  BY <1>0, <1>2, <1>3, EditorsAre, <3>2 DEF ContentOf, ViewerInv, EditorsInv
    <3>3. CASE p.mode # "changes"
      <4>1. e.view = now.sha /\ now.sha # 0
        BY <1>2, <1>3, <3>3, CommitsAre
      <4> QED  BY <1>0, <1>2, <1>3, EditorsAre, <3>3, <4>1 DEF ContentOf, ViewerInv, EditorsInv
    <3> QED
      BY <3>2, <3>3
  <2> QED  BY <1>0, <1>2, <2>2 DEF EditorsInv
<1>8. ThreadsInPlace'
  BY <1>0, <1>5 DEF ThreadsInPlace
<1>9. PageFits(picked, loaded)' /\ HasText(loaded)' /\ StackFits(picked, loaded, stack)' /\ EmptyIfNone(stack)'
  BY <1>0, <1>1 DEF PageFits, HasText, StackFits, EmptyIfNone
<1> QED
  BY <1>0, <1>6, <1>7, <1>8, <1>9 DEF ViewerInv

\* An editor comes on.
LEMMA EditorMountKeeps ==
  ASSUME ViewerTypes, PanelTypes, ViewerInv, EditorMounts, remarks' = remarks
  PROVE  ViewerTypes' /\ ViewerInv'
<1>0. /\ picked \in Selections /\ loaded \in Loadings /\ stack \in Stacks /\ registry \subseteq Editors
      /\ hashes \in [Docs -> Nat] /\ remarks \in [Remarks -> Statuses]
      /\ PageFits(picked, loaded) /\ StackFits(picked, loaded, stack) /\ EmptyIfNone(stack)
  BY DEF ViewerTypes, PanelTypes, ViewerInv
<1>1. PICK e \in Slots(picked, loaded, stack) \ registry :
         /\ registry' = registry \cup {e} /\ hashes' = [hashes EXCEPT ![e.doc] = ContentOf(e)]
         /\ threads' = Mounted(registry', picked, remarks)
         /\ UNCHANGED <<picked, loaded, asks, texts, stack>>
  BY DEF EditorMounts, RecordsContent
<1>2. e \in Editors /\ Slots(picked, loaded, stack) \subseteq Editors
  BY <1>0, <1>1, SlotsAre
<1>3. e.doc \in Docs /\ e = Editor(e.doc, e.view) /\ ContentOf(e) \in Nat
  BY <1>0, <1>2, EditorsAre, CommitsAre DEF ContentOf, Loadings
<1>4. registry' \in SUBSET Slots(picked, loaded, stack)
  BY <1>1 DEF ViewerInv, EditorsInv
<1>5. /\ threads' \in [Remarks -> ThreadStates]
      /\ \A r \in Remarks : threads'[r] # "none" <=>
              remarks[r] # "gone" /\ PlaceOf[r] \in registry' /\ Current(picked) = PlaceOf[r].doc
  BY SMTT(30), <1>0, <1>1, <1>4, MountedIs
<1>7. EditorsInv'
  <2>1. ASSUME NEW f \in registry'
        PROVE  hashes'[f.doc] = ContentOf(f)'
    <3>1. ContentOf(f)' = ContentOf(f)
      BY <1>1 DEF ContentOf
    <3>2. f \in Editors /\ f \in Slots(picked, loaded, stack) /\ f.doc \in Docs
      BY <1>2, <1>4, <2>1, EditorsAre
    <3>3. CASE f.doc = e.doc
      <4>1. f = e
        <5>2. f = Editor(f.doc, f.view)
          BY <3>2, EditorsAre
        <5> QED  BY <1>3, <3>3, <1>0, <1>1, <3>2, SlotsAre, <5>2
      <4> QED
        BY <1>0, <1>1, <1>3, <3>1, <4>1
    <3>4. CASE f.doc # e.doc
      <4>2. hashes[f.doc] = ContentOf(f)  BY <1>1, <2>1, <3>4 DEF ViewerInv, EditorsInv
      <4> QED
        BY <1>0, <1>1, <3>1, <3>2, <3>4, <4>2
    <3> QED
      BY <3>3, <3>4
  <2> QED  BY <1>4, <2>1, <1>1 DEF EditorsInv, Slots, ChangesEditor, StackEditors
<1> QED
  BY <1>1, <1>0, <1>2, <1>3, <1>5, <1>7 DEF ViewerInv, PageFits, HasText, StackFits, EmptyIfNone,
     ThreadsInPlace, Current, ViewerTypes

\* A selection of the user.
LEMMA ChooseKeeps ==
  ASSUME ViewerTypes, PanelTypes, ViewerInv, NEW p \in Selections, Choose(p), remarks' = remarks,
         loaded.detail = 0 \/ p.sha = 0 \/ loaded.detail = p.sha \/ p.page = NoDoc
  PROVE  ViewerTypes' /\ ViewerInv' /\ picked' = p
<1> DEFINE l == IF p.sha = 0 THEN [loaded EXCEPT !.detail = 0] ELSE loaded
<1>1. Render(p, l, stack) /\ texts' = texts /\ Asks(p)
  BY DEF Choose
<1>2. l \in Loadings /\ l.diff = loaded.diff /\ l.text = loaded.text
      /\ (p.sha = 0 => l.detail = 0) /\ (p.sha # 0 => l.detail = loaded.detail)
  BY DEF Loadings, ViewerTypes, ViewerInv
<1> HIDE DEF l
<1>4. asks' \in [diff : BOOLEAN, detail : BOOLEAN] /\ (asks'.diff = TRUE => p.changed # NoDoc)
  <2> DEFINE a == p.changed # NoDoc /\ (asks.diff \/ p.changed # picked.changed)
             b == p.sha # 0 /\ (asks.detail \/ p.sha # picked.sha)
  <2> HIDE DEF a, b
  <2> QED  BY <1>1 DEF Asks
<1>5. texts' \in [Docs -> Nat \ {0}]  BY <1>1 DEF ViewerTypes, ViewerInv
<1>6. ViewerTypes' /\ ViewerInv'
  BY <1>1, <1>2, <1>4, <1>5, RenderKeeps DEF PageFits, HasText, ViewerTypes, ViewerInv
<1> QED
  BY <1>1, <1>6 DEF Render

LEMMA SelectionsAre ==
  ASSUME picked \in Selections, NEW d \in Docs, NEW c \in Commits
  PROVE  /\ PickChanged(d) \in Selections /\ PickChanged(d).mode = "changes"
         /\ PickChanged(d).changed = d /\ PickChanged(d).sha = picked.sha
         /\ PickChanged(d).page = picked.page
         /\ PickCommit(c) \in Selections /\ PickCommit(c).mode = "commits"
         /\ PickCommit(c).changed = picked.changed /\ PickCommit(c).sha = c
         /\ PickCommit(c).page = NoDoc
         /\ PickPage(d) \in Selections /\ PickPage(d).mode = "commits"
         /\ PickPage(d).changed = picked.changed /\ PickPage(d).sha = picked.sha
         /\ PickPage(d).page = d
  BY DEF PickChanged, PickCommit, PickPage, Selections

-----------------------------------------------------------------------------
(* The viewer.                                                             *)

\* No file is named nothing, and a waiting jump keeps the user's hands off.
LEMMA FreeIs ==
  ASSUME Crosswise = FALSE, Free
  PROVE  jumps = {} /\ turns < MaxTurns
  BY DEF Free

LEMMA TurnIs ==
  ASSUME turns \in 0..MaxTurns, turns < MaxTurns, turns' = turns + 1
  PROVE  turns' \in 0..MaxTurns
  BY ScreenAssumption

LEMMA PicksKeep ==
  ASSUME ViewerTypes, PanelTypes, ViewerInv, Crosswise = FALSE, Picks, remarks' = remarks
  PROVE  ViewerTypes' /\ ViewerInv' /\ jumps = {} /\ turns' \in 0..MaxTurns
<1>0. /\ picked \in Selections /\ loaded \in Loadings /\ PageFits(picked, loaded)
      /\ picked.sha \in Commits \cup {0} /\ picked.page \in Docs \cup {NoDoc}
      /\ picked.changed \in Docs \cup {NoDoc} /\ loaded.detail \in Commits \cup {0}
  BY DEF ViewerTypes, ViewerInv, Selections, Loadings
<1>1. jumps = {} /\ turns' \in 0..MaxTurns
  BY FreeIs, TurnIs DEF Picks, Turn, PanelTypes
<1>2. ASSUME NEW d \in Docs, Choose(PickChanged(d))
      PROVE  ViewerTypes' /\ ViewerInv'
  <2> DEFINE p == PickChanged(d)
  <2>1. p \in Selections /\ p.sha = picked.sha /\ p.page = picked.page /\ Choose(p)
    BY <1>0, <1>2, SelectionsAre DEF PickChanged, Selections
  <2>2. loaded.detail = 0 \/ p.sha = 0 \/ loaded.detail = p.sha \/ p.page = NoDoc
    <3> HIDE DEF p
    <3> QED
      BY <1>0, <2>1 DEF PageFits
  <2> HIDE DEF p
  <2> QED
    BY <2>1, <2>2, ChooseKeeps
<1>3. ASSUME NEW c \in Commits, Choose(PickCommit(c))
      PROVE  ViewerTypes' /\ ViewerInv'
  <2> DEFINE p == PickCommit(c)
  <2> HIDE DEF p
  <2> QED  BY <1>0, <1>3, ChooseKeeps DEF PickCommit, Selections
<1>4. ASSUME loaded.detail # 0, loaded.detail = picked.sha, NEW d \in HeldBy[loaded.detail],
             Choose(PickPage(d))
      PROVE  ViewerTypes' /\ ViewerInv'
  <2> DEFINE p == PickPage(d)
  <2> HIDE DEF p
  <2> QED  BY <1>4, <1>0, CommitsAre, ChooseKeeps DEF PickPage, Selections
<1>5. ASSUME NEW m \in {"changes", "commits"}, Choose([picked EXCEPT !.mode = m])
      PROVE  ViewerTypes' /\ ViewerInv'
  <2> DEFINE p == [picked EXCEPT !.mode = m]
  <2> HIDE DEF p
  <2> QED  BY <1>0, <1>5, ChooseKeeps DEF PageFits, Selections
<1>6. ASSUME Choose([picked EXCEPT !.sha = 0, !.page = NoDoc])
      PROVE  ViewerTypes' /\ ViewerInv'
  <2> DEFINE p == [picked EXCEPT !.sha = 0, !.page = NoDoc]
  <2> HIDE DEF p
  <2> QED  BY <1>0, <1>6, ChooseKeeps DEF Selections
<1>7. \/ \E d \in Docs : Choose(PickChanged(d))
      \/ \E c \in Commits : Choose(PickCommit(c))
      \/ /\ loaded.detail # 0 /\ loaded.detail = picked.sha
         /\ \E d \in HeldBy[loaded.detail] : Choose(PickPage(d))
      \/ \E m \in {"changes", "commits"} : Choose([picked EXCEPT !.mode = m])
      \/ Choose([picked EXCEPT !.sha = 0, !.page = NoDoc])
  BY DEF Picks
<1> QED
  BY <1>1, <1>2, <1>3, <1>4, <1>5, <1>6, <1>7

LEMMA LoadsKeep ==
  ASSUME ViewerTypes, PanelTypes, ViewerInv, DiffLoads \/ DetailLoads \/ DocChanges \/ CellLoads,
         remarks' = remarks
  PROVE  ViewerTypes' /\ ViewerInv' /\ picked' = picked
<1>0. /\ picked \in Selections /\ loaded \in Loadings /\ PageFits(picked, loaded) /\ HasText(loaded)
      /\ stack \in Stacks /\ EmptyIfNone(stack) /\ texts \in [Docs -> Nat \ {0}]
      /\ picked.sha \in Commits \cup {0} /\ picked.changed \in Docs \cup {NoDoc}
      /\ asks \in [diff : BOOLEAN, detail : BOOLEAN] /\ (asks.diff = TRUE => picked.changed # NoDoc)
  BY DEF ViewerTypes, ViewerInv, Selections
<1>1. CASE DiffLoads
  <2>2. PICK l \in Loadings : Render(picked, l, stack) /\ l.detail = loaded.detail /\ HasText(l)
    <3>1. CASE Render(picked, [loaded EXCEPT !.diff = picked.changed, !.text = texts[picked.changed]], stack)
      <4> DEFINE l == [loaded EXCEPT !.diff = picked.changed, !.text = texts[picked.changed]]
      <4>2. l \in Loadings /\ l.detail = loaded.detail /\ l.text # 0  BY <1>0, <1>1 DEF Loadings, DiffLoads
      <4>3. Render(picked, l, stack) /\ HasText(l)
        BY <3>1, <4>2 DEF HasText
      <4> HIDE DEF l
      <4> QED
        BY <4>2, <4>3
    <3>2. CASE Render(picked, [loaded EXCEPT !.diff = NoDoc, !.text = 0], stack)
      <4> DEFINE l == [loaded EXCEPT !.diff = NoDoc, !.text = 0]
      <4>1. l \in Loadings /\ l.detail = loaded.detail /\ l.diff = NoDoc /\ Render(picked, l, stack)
        BY <1>0, <3>2 DEF Loadings
      <4> HIDE DEF l
      <4> QED
        BY <4>1 DEF HasText
    <3> QED
      BY <1>1, <3>1, <3>2 DEF DiffLoads
  <2>3. PageFits(picked, l) /\ texts' \in [Docs -> Nat \ {0}] /\ asks' \in [diff : BOOLEAN, detail : BOOLEAN]
        /\ (asks'.diff = TRUE => picked.changed # NoDoc)  BY <1>0, <1>1, <2>2 DEF PageFits, DiffLoads
  <2>4. picked' = picked
    BY <2>2 DEF Render
  <2> QED
    BY <1>0, <2>2, <2>3, <2>4, RenderKeeps
<1>2. CASE DetailLoads
  <2>2. PICK v \in {picked.sha, 0} : Render(picked, [loaded EXCEPT !.detail = v], stack)
    BY <1>2 DEF DetailLoads
  <2> DEFINE l == [loaded EXCEPT !.detail = v]
  <2>3. l \in Loadings /\ l.detail = v /\ l.diff = loaded.diff /\ l.text = loaded.text
        /\ Render(picked, l, stack)
    BY <1>0, <2>2 DEF Loadings
  <2> HIDE DEF l
  <2>4. PageFits(picked, l) /\ HasText(l) /\ texts' \in [Docs -> Nat \ {0}]
        /\ asks' \in [diff : BOOLEAN, detail : BOOLEAN] /\ (asks'.diff = TRUE => picked.changed # NoDoc)
    BY <1>0, <1>2, <2>2, <2>3 DEF PageFits, HasText, DetailLoads
  <2>5. picked' = picked
    BY <2>3 DEF Render
  <2> QED
    BY <1>0, <2>3, <2>4, <2>5, RenderKeeps
<1>3. CASE DocChanges
  <2>1. PICK d \in Docs : texts' = [texts EXCEPT ![d] = texts[d] + 1]
    BY <1>3 DEF DocChanges
  <2> DEFINE a == picked.changed # NoDoc
  <2>4. asks' \in [diff : BOOLEAN, detail : BOOLEAN] /\ (asks'.diff = TRUE => picked.changed # NoDoc)
    <3> HIDE DEF a
    <3> QED  BY <1>0, <1>3 DEF DocChanges
  <2> QED
    BY <1>3, <2>4, <1>0, <2>1 DEF ViewerInv, PageFits, HasText, StackFits, EmptyIfNone, EditorsInv,
       ThreadsInPlace, Slots, ChangesEditor, StackEditors, ContentOf, Current, DocChanges, ViewerTypes
<1>4. CASE CellLoads
  <2>1. PICK d \in Docs, outcome \in {"ready", "error"} :
           Render(picked, loaded, [stack EXCEPT !.cells[d] = outcome]) /\ UNCHANGED <<asks, texts>>
    BY <1>4 DEF CellLoads
  <2> DEFINE s == [stack EXCEPT !.cells[d] = outcome]
  <2>2. s \in Stacks /\ s.sha = stack.sha /\ s.opened = stack.opened /\ Render(picked, loaded, s)
    BY <1>0, <2>1 DEF Stacks
  <2> HIDE DEF s
  <2>3. EmptyIfNone(s) /\ picked' = picked
    BY <1>0, <2>2 DEF EmptyIfNone, Render
  <2>4. texts' \in [Docs -> Nat \ {0}] /\ asks' \in [diff : BOOLEAN, detail : BOOLEAN]
        /\ (asks'.diff = TRUE => picked.changed # NoDoc)
    BY <1>0, <2>1
  <2> QED
    BY <1>0, <2>2, <2>3, <2>4, RenderKeeps
<1> QED
  BY <1>1, <1>2, <1>3, <1>4

LEMMA TogglesKeep ==
  ASSUME ViewerTypes, PanelTypes, ViewerInv, Crosswise = FALSE, SectionToggles, remarks' = remarks
  PROVE  ViewerTypes' /\ ViewerInv' /\ jumps = {} /\ turns' \in 0..MaxTurns
<1>0. /\ picked \in Selections /\ loaded \in Loadings /\ PageFits(picked, loaded) /\ HasText(loaded)
      /\ stack \in Stacks /\ texts \in [Docs -> Nat \ {0}] /\ stack.sha \in Commits
      /\ asks \in [diff : BOOLEAN, detail : BOOLEAN] /\ (asks.diff = TRUE => picked.changed # NoDoc)
  BY DEF ViewerTypes, ViewerInv, Stacks, SectionToggles
<1>1. jumps = {} /\ turns' \in 0..MaxTurns
  BY FreeIs, TurnIs DEF SectionToggles, Turn, PanelTypes
<1>2. PICK d \in HeldBy[stack.sha] :
         Render(picked, loaded, [stack EXCEPT !.opened = (stack.opened \ {d}) \cup ({d} \ stack.opened)])
  BY DEF SectionToggles
<1> DEFINE o == (stack.opened \ {d}) \cup ({d} \ stack.opened)
           s == [stack EXCEPT !.opened = o]
<1> HIDE DEF o
<1>4. s \in Stacks /\ s.sha = stack.sha /\ Render(picked, loaded, s)  BY <1>0, <1>2, CommitsAre DEF Stacks, o
<1> HIDE DEF s
<1>5. EmptyIfNone(s) /\ picked' = picked /\ UNCHANGED <<asks, texts>>
  BY <1>0, <1>4, CommitsAre DEF EmptyIfNone, Render, SectionToggles
<1>6. texts' \in [Docs -> Nat \ {0}] /\ asks' \in [diff : BOOLEAN, detail : BOOLEAN]
      /\ (asks'.diff = TRUE => picked.changed # NoDoc)
  BY <1>0, <1>5
<1> QED
  BY <1>0, <1>1, <1>4, <1>5, <1>6, RenderKeeps

\* The viewer is as it was.
LEMMA ViewerStays ==
  ASSUME ViewerTypes, ViewerInv, UNCHANGED <<viewerVars, remarks>>
  PROVE  ViewerTypes' /\ ViewerInv'
<1> QED
  BY DEF ViewerTypes, ViewerInv, PageFits, HasText, StackFits, EmptyIfNone, viewerVars, EditorsInv,
     ThreadsInPlace, Slots, ChangesEditor, StackEditors, ContentOf, Current

\* So is what is beside it.
LEMMA PortalStays ==
  ASSUME PortalInv, portal' = portal
  PROVE  PortalInv'
  BY DEF PortalInv

LEMMA DraftStays ==
  ASSUME DraftsAreAnchored, draft' = draft
  PROVE  DraftsAreAnchored'
  BY DEF DraftsAreAnchored

LEMMA JumpsStay ==
  ASSUME JumpsInv, jumps' \subseteq jumps, picked' = picked \/ jumps = {}
  PROVE  JumpsInv'
  BY DEF JumpsInv

LEMMA ViewerStepKeeps ==
  ASSUME ReviewScreenInv, Crosswise = FALSE, ViewerStep
  PROVE  ReviewScreenInv'
<1>0. UNCHANGED <<marks, remarks, focused, jumps, landed, draft, portal, surface>>
      /\ ViewerTypes /\ PanelTypes /\ ViewerInv
  BY DEF ViewerStep, ReviewScreenInv
<1>1. ViewerTypes' /\ ViewerInv' /\ turns' \in 0..MaxTurns /\ (picked' = picked \/ jumps = {})
  <2>1. CASE Picks
    BY <1>0, <2>1, PicksKeep
  <2>2. CASE SectionToggles
    BY <1>0, <2>2, TogglesKeep
  <2>3. CASE (DiffLoads \/ DetailLoads \/ DocChanges \/ CellLoads) /\ UNCHANGED turns
    BY <1>0, <2>3, LoadsKeep DEF PanelTypes
  <2>4. CASE EditorMounts /\ UNCHANGED turns  BY <1>0, <2>4, EditorMountKeeps DEF PanelTypes, EditorMounts
  <2> QED
    BY <2>1, <2>2, <2>3, <2>4 DEF ViewerStep
<1>2. PanelTypes'
  BY <1>0, <1>1 DEF PanelTypes
<1> QED
  BY <1>0, <1>1, <1>2, PortalStays, DraftStays, JumpsStay DEF ReviewScreenInv

LEMMA ReopenKeeps ==
  ASSUME ReviewScreenInv, Crosswise = FALSE, PanelReopens
  PROVE  ReviewScreenInv'
<1>0. /\ registry' = {} /\ threads' = [r \in Remarks |-> "none"] /\ focused' = NoRemark
      /\ hashes' = [d \in Docs |-> IF picked.mode = "changes" /\ loaded.diff = d
                                   THEN loaded.text ELSE 0]
      /\ stack' = Stacked(picked, loaded, NoStack) /\ jumps' = {}
      /\ UNCHANGED <<picked, loaded, asks, texts, marks, remarks, landed, draft, portal, surface>>
      /\ Free /\ turns' = turns + 1
  BY DEF PanelReopens, Turn
<1>4. threads' \in [Remarks -> ThreadStates] /\ hashes' \in [Docs -> Nat]
  BY <1>0 DEF ThreadStates, Loadings, ReviewScreenInv, ViewerTypes
<1>5. ViewerTypes' /\ PanelTypes'
  BY <1>0, StackedIs, FreeIs, TurnIs, <1>4 DEF ViewerTypes, PanelTypes, NoStack, Stacks, ReviewScreenInv
<1>6. EditorsInv' /\ ThreadsInPlace' /\ JumpsInv'
  BY <1>0 DEF EditorsInv, ThreadsInPlace, JumpsInv
<1>7. ViewerInv'
  BY <1>0, StackedIs, <1>6 DEF ViewerInv, PageFits, HasText, StackFits, EmptyIfNone, NoStack, Stacks,
     ReviewScreenInv, ViewerTypes
<1> QED
  BY <1>0, <1>5, <1>6, <1>7, PortalStays, DraftStays DEF ReviewScreenInv

-----------------------------------------------------------------------------
(* Marks and threads.                                                      *)

LEMMA ContentIs ==
  ASSUME ViewerTypes
  PROVE  CurrentContent \in Nat
<1>4. loaded.text \in Nat  BY DEF Loadings, ViewerTypes
<1> QED  BY EditorsAre, CommitsAre, <1>4 DEF CurrentContent, ContentOf, Loadings, ViewerTypes, Host

LEMMA ViewedKeeps ==
  ASSUME ReviewScreenInv, Crosswise = FALSE, TogglesViewed
  PROVE  ReviewScreenInv'
<1> DEFINE d == Current(picked)
           c == CurrentContent
<1>0. UNCHANGED <<viewerVars, remarks, focused, jumps, landed, draft, portal, surface>>
      /\ marks' = [marks EXCEPT ![d] = IF marks[d] = c THEN 0 ELSE c]
      /\ Free /\ turns' = turns + 1
  BY DEF TogglesViewed, Turn
<1>1. ViewerTypes /\ PanelTypes /\ ViewerInv /\ c \in Nat
  BY ContentIs DEF ReviewScreenInv
<1>2. marks' \in [Docs -> Nat]
  <2> HIDE DEF d, c
  <2> QED
    BY <1>0, <1>1 DEF PanelTypes
<1>4. PanelTypes'  BY <1>0, <1>1, <1>2, FreeIs, TurnIs DEF PanelTypes
<1>5. ViewerTypes' /\ ViewerInv' /\ picked' = picked
  BY <1>0, <1>1, ViewerStays DEF viewerVars
<1> QED
  BY <1>0, <1>4, <1>5, PortalStays, DraftStays, JumpsStay DEF ReviewScreenInv

\* A comment changes, and the threads with it.
LEMMA BecomesKeeps ==
  ASSUME ViewerTypes, PanelTypes, ViewerInv, NEW r \in Remarks, NEW stat \in Statuses,
         Becomes(r, stat), UNCHANGED <<picked, loaded, asks, texts, stack, registry, hashes>>
  PROVE  ViewerTypes' /\ ViewerInv' /\ remarks' \in [Remarks -> Statuses]
<1>2. remarks' \in [Remarks -> Statuses]  BY DEF Becomes, ViewerTypes, ViewerInv, EditorsInv, PanelTypes
<1>3. /\ threads' \in [Remarks -> ThreadStates]
      /\ \A q \in Remarks : threads'[q] # "none" <=>
              remarks'[q] # "gone" /\ PlaceOf[q] \in registry /\ Current(picked) = PlaceOf[q].doc
  <2> DEFINE now == remarks'
  <2>1. threads' = Mounted(registry, picked, now) /\ now \in [Remarks -> Statuses]  BY <1>2 DEF Becomes
  <2> HIDE DEF now
  <2> QED  BY <2>1, MountedIs DEF now, ViewerTypes, ViewerInv, EditorsInv, PanelTypes
<1> QED
  BY <1>2, <1>3 DEF ViewerInv, PageFits, HasText, StackFits, EmptyIfNone, ViewerTypes, ThreadsInPlace, Current,
     EditorsInv, Slots, ChangesEditor, StackEditors, ContentOf

\* A thread that is mounted moves, and stays mounted.
LEMMA ThreadKeeps ==
  ASSUME ViewerTypes, ViewerInv, NEW r \in Remarks, NEW from, NEW to \in ThreadStates \ {"none"},
         "none" \notin from, Thread(r, from, to),
         UNCHANGED <<picked, loaded, asks, texts, stack, registry, hashes, remarks>>
  PROVE  ViewerTypes' /\ ViewerInv'
<1>4. EditorsInv'
  BY DEF ViewerInv, EditorsInv, Slots, ChangesEditor, StackEditors, ContentOf
<1> QED
  BY <1>4 DEF ViewerInv, PageFits, HasText, StackFits, EmptyIfNone, ViewerTypes, Thread, ThreadsInPlace, Current

LEMMA RemarksKeep ==
  ASSUME ReviewScreenInv, Crosswise = FALSE, RemarkMoves
  PROVE  ReviewScreenInv'
<1>0. UNCHANGED <<picked, loaded, asks, texts, stack, registry, hashes, marks, focused, jumps, landed,
                  draft, portal, surface>> /\ Free /\ turns' = turns + 1
  BY DEF RemarkMoves, Turn
<1>2. PICK r \in Remarks, stat \in Statuses : Becomes(r, stat)
  <2>1. PICK r \in Remarks :
            (\E s \in {Toggled(r), "gone"} : Becomes(r, s)) \/ (\E s \in {"open", "addressed"} : Becomes(r, s))
    BY DEF RemarkMoves
  <2> QED  BY <2>1 DEF Statuses, Toggled
<1>3. ViewerTypes' /\ ViewerInv' /\ remarks' \in [Remarks -> Statuses]
  BY <1>0, <1>2, BecomesKeeps DEF ReviewScreenInv
<1>5. PanelTypes'  BY <1>0, <1>3, FreeIs, TurnIs DEF PanelTypes, ReviewScreenInv
<1> QED
  BY <1>0, <1>3, <1>5, PortalStays, DraftStays, JumpsStay DEF ReviewScreenInv

LEMMA ThreadsKeep ==
  ASSUME ReviewScreenInv, ThreadActs
  PROVE  ReviewScreenInv'
<1>0. UNCHANGED <<picked, loaded, asks, texts, stack, registry, hashes, marks, remarks, focused,
                  jumps, landed, draft, portal, turns, surface>>
  BY DEF ThreadActs
<1>1. ViewerTypes /\ PanelTypes /\ ViewerInv
  BY DEF ReviewScreenInv
<1>2. PICK r \in Remarks, from \in SUBSET (ThreadStates \ {"none"}), to \in ThreadStates \ {"none"} :
         Thread(r, from, to)
  BY DEF ThreadActs, SaveSettles, ThreadStates
<1>3. ViewerTypes' /\ ViewerInv'
  <2>1. "none" \notin from
    BY <1>2
  <2> QED
    BY <1>0, <1>1, <1>2, <2>1, ThreadKeeps
<1>4. PanelTypes'
  BY <1>0, <1>1 DEF PanelTypes
<1> QED
  BY <1>0, <1>3, <1>4, PortalStays, DraftStays, JumpsStay DEF ReviewScreenInv

LEMMA KeysKeep ==
  ASSUME ReviewScreenInv, Crosswise = FALSE, KeysAct
  PROVE  ReviewScreenInv'
<1>0. UNCHANGED <<picked, loaded, asks, texts, stack, registry, hashes, marks, jumps, landed,
                  draft, portal, surface>> /\ Free /\ turns' = turns + 1
  BY DEF KeysAct, Turn
<1>1. ViewerTypes /\ PanelTypes /\ ViewerInv
  BY DEF ReviewScreenInv
<1>2. ViewerTypes' /\ ViewerInv' /\ remarks' \in [Remarks -> Statuses] /\ focused' \in Remarks \cup {NoRemark}
  <2>0. focused \in Remarks \cup {NoRemark} /\ remarks \in [Remarks -> Statuses]
    BY <1>1 DEF PanelTypes
  <2>1. CASE FocusMoves /\ UNCHANGED <<remarks, threads>>
    <3>1. focused' \in Remarks
      BY <2>1 DEF FocusMoves, Inline
    <3>2. UNCHANGED <<viewerVars, remarks>>
      BY <1>0, <2>1 DEF viewerVars
    <3> QED
      BY <1>1, <2>0, <2>1, <3>1, <3>2, ViewerStays
  <2>2. CASE /\ focused # NoRemark /\ Thread(focused, {"shown"}, "editing")
             /\ UNCHANGED <<remarks, focused>>
    <3>1. focused \in Remarks /\ "none" \notin {"shown"} /\ "editing" \in ThreadStates \ {"none"}
      BY <2>0, <2>2 DEF ThreadStates
    <3> QED
      BY <1>0, <1>1, <2>0, <2>2, <3>1, ThreadKeeps
  <2>3. CASE focused # NoRemark /\ Becomes(focused, Toggled(focused)) /\ UNCHANGED focused
    <3>1. focused \in Remarks /\ Toggled(focused) \in Statuses
      BY <2>0, <2>3 DEF Toggled, Statuses
    <3> QED
      BY <1>0, <1>1, <2>0, <2>3, <3>1, BecomesKeeps
  <2> QED
    BY <2>1, <2>2, <2>3 DEF KeysAct
<1>4. PanelTypes'  BY <1>0, <1>1, <1>2, FreeIs, TurnIs DEF PanelTypes
<1> QED
  BY <1>0, <1>2, <1>4, PortalStays, DraftStays, JumpsStay DEF ReviewScreenInv

-----------------------------------------------------------------------------
(* Jumps and drafts.                                                       *)

\* The editor that is registered for the file of a comment is its own, while a jump to it
\* waits.
LEMMA FoundIs ==
  ASSUME ViewerTypes, ViewerInv, JumpsInv, NEW r \in jumps, jumps \subseteq Remarks, Found(r) # {}
  PROVE  PlaceOf[r] \in Found(r)
<1> DEFINE to == PlaceOf[r]
<1>1. PICK e \in registry : e.doc = to.doc
  BY DEF Found
<1>3. Current(picked) = to.doc /\ ViewOf(picked) = to.view  BY DEF Current, ViewOf, JumpsInv
<1>4. e = Editor(Current(picked), ViewOf(picked))
  BY PlacesAre, <1>1, <1>3, HostIs DEF ViewerTypes, ViewerInv, EditorsInv
<1> QED  BY <1>1, PlacesAre, EditorsAre, <1>3, <1>4 DEF Found, ViewerTypes, ViewerInv, EditorsInv

LEMMA JumpBeginKeeps ==
  ASSUME ReviewScreenInv, Crosswise = FALSE, JumpBegins
  PROVE  ReviewScreenInv'
<1>0. UNCHANGED <<marks, remarks, draft, portal, surface>> /\ Free /\ turns' = turns + 1
  BY DEF JumpBegins, Turn
<1>1. ViewerTypes /\ PanelTypes /\ ViewerInv /\ picked \in Selections /\ jumps = {} /\ PageFits(picked, loaded)
  BY <1>0, FreeIs DEF ReviewScreenInv, ViewerTypes, ViewerInv
<1>3. PICK r \in Remarks :
        /\ Found(r) \subseteq {PlaceOf[r]}
        /\ loaded.detail \in {0, PlaceOf[r].view} \/ PlaceOf[r].view = 0
        /\ IF PlaceOf[r].view = 0 THEN Choose(PickChanged(PlaceOf[r].doc))
           ELSE Choose([PickCommit(PlaceOf[r].view) EXCEPT !.page = PlaceOf[r].doc])
        /\ IF Found(r) # {} THEN Lands(r) /\ UNCHANGED jumps
           ELSE jumps' = jumps \cup {r} /\ UNCHANGED <<focused, landed>>
  BY DEF JumpBegins
<1> DEFINE to == PlaceOf[r]
<1>4. to \in Editors /\ to.doc \in Docs /\ to.view \in Commits \cup {0}
  BY PlacesAre, EditorsAre
<1> HIDE DEF to
<1>5. PICK p \in Selections : /\ Choose(p) /\ (loaded.detail = 0 \/ p.sha = 0 \/ loaded.detail = p.sha \/ p.page = NoDoc)
                              /\ IF to.view = 0 THEN p.mode = "changes" /\ p.changed = to.doc
                                 ELSE p.mode = "commits" /\ p.sha = to.view /\ p.page = to.doc
  <2>1. CASE to.view = 0
    <3> DEFINE p == PickChanged(to.doc)
    <3>1. Choose(p)
      BY <1>3, <2>1 DEF to
    <3>2. p \in Selections /\ p.sha = picked.sha /\ p.page = picked.page /\ p.mode = "changes" /\ p.changed = to.doc
      BY <1>1, <1>4 DEF PickChanged, Selections
    <3> HIDE DEF p
    <3> QED
      BY <1>1, <2>1, <3>1, <3>2 DEF PageFits
  <2>2. CASE to.view # 0
    <3> DEFINE p == [PickCommit(to.view) EXCEPT !.page = to.doc]
    <3>1. Choose(p)
      BY <1>3, <2>2 DEF to
    <3>2. p \in Selections /\ p.sha = to.view /\ p.page = to.doc /\ p.mode = "commits"
      <4>2. PickCommit(to.view) \in Selections /\ PickCommit(to.view).mode = "commits" /\ PickCommit(to.view).sha = to.view
        BY <1>1, <1>4, <2>2 DEF PickCommit, Selections
      <4> DEFINE q == PickCommit(to.view)
      <4> HIDE DEF q
      <4> QED  BY <1>4, <4>2 DEF q, Selections
    <3> HIDE DEF p
    <3> QED  BY <2>2, <3>1, <3>2, <1>3 DEF to
  <2> QED
    BY <2>1, <2>2
<1>6. ViewerTypes' /\ ViewerInv' /\ picked' = p
  BY <1>0, <1>1, <1>5, ChooseKeeps
<1>7. landed' = TRUE /\ focused' \in Remarks \cup {NoRemark} /\ jumps' \subseteq {r}
  <2>1. focused \in Remarks \cup {NoRemark} /\ landed = TRUE
    BY DEF ReviewScreenInv, PanelTypes
  <2>2. CASE Found(r) # {}
    <3>1. PlaceOf[r] \in Found(r)
      BY <1>3, <2>2
    <3> QED
      BY <1>1, <1>3, <2>1, <2>2, <3>1 DEF Lands
  <2>3. CASE Found(r) = {}
    BY <1>1, <1>3, <2>1, <2>3
  <2> QED
    BY <2>2, <2>3
<1>8. JumpsInv'
  BY <1>5, <1>6, <1>7 DEF JumpsInv, to
<1>9. PanelTypes'  BY <1>0, <1>1, FreeIs, TurnIs, <1>7 DEF PanelTypes
<1> QED
  BY <1>0, <1>6, <1>7, <1>8, <1>9, PortalStays, DraftStays DEF ReviewScreenInv

LEMMA JumpEndKeeps ==
  ASSUME ReviewScreenInv, JumpEnds
  PROVE  ReviewScreenInv'
<1>0. UNCHANGED <<viewerVars, marks, remarks, draft, portal, turns, surface>>
  BY DEF JumpEnds
<1>1. ViewerTypes /\ PanelTypes /\ ViewerInv /\ JumpsInv /\ jumps \subseteq Remarks /\ landed = TRUE
      /\ focused \in Remarks \cup {NoRemark}
  BY DEF ReviewScreenInv, PanelTypes
<1>2. PICK r \in jumps : jumps' = jumps \ {r} /\ ((Found(r) # {} /\ Lands(r)) \/ UNCHANGED <<focused, landed>>)
  BY DEF JumpEnds
<1>3. landed' = TRUE /\ focused' \in Remarks \cup {NoRemark}
  <2>1. CASE Found(r) # {} /\ Lands(r)  BY <1>1, <2>1, FoundIs DEF Lands
  <2>2. CASE UNCHANGED <<focused, landed>>
    BY <1>1, <2>2
  <2> QED
    BY <1>2, <2>1, <2>2
<1>4. ViewerTypes' /\ ViewerInv' /\ picked' = picked
  BY <1>0, <1>1, ViewerStays DEF viewerVars
<1>5. PanelTypes'
  BY <1>0, <1>1, <1>2, <1>3 DEF PanelTypes
<1>6. JumpsInv'
  BY <1>1, <1>2, <1>4, JumpsStay
<1> QED
  BY <1>0, <1>3, <1>4, <1>5, <1>6, PortalStays, DraftStays DEF ReviewScreenInv

\* A draft is begun in a registered editor, whose view is the one that is selected.
LEMMA DraftStartKeeps ==
  ASSUME ReviewScreenInv, Crosswise = FALSE, DraftStarts
  PROVE  ReviewScreenInv'
<1>0. UNCHANGED <<marks, remarks, focused, jumps, landed, portal, surface>> /\ Free /\ turns' = turns + 1
      /\ loaded.detail \in {0, picked.sha}
  BY DEF DraftStarts, Turn
<1>1. /\ ViewerTypes /\ PanelTypes /\ ViewerInv /\ jumps = {} /\ picked \in Selections /\ loaded \in Loadings
      /\ stack \in Stacks /\ EmptyIfNone(stack) /\ StackFits(picked, loaded, stack)
      /\ registry \subseteq Slots(picked, loaded, stack) /\ PageFits(picked, loaded)
  BY <1>0, FreeIs DEF ReviewScreenInv, ViewerTypes, ViewerInv, EditorsInv
<1>3. PICK e \in registry : /\ GlyphStarts(e) \/ PillStarts(e)
                            /\ draft' = [place |-> DraftPlace(e), on |-> e, phase |-> "begun"]
  BY DEF DraftStarts
<1>5. e.view = ViewOf(picked)
  <2>1. CASE picked.mode = "changes"
    BY <1>1, <2>1, SlotsAre DEF ViewOf
  <2>2. CASE picked.mode # "changes"
    <3>2. stack.sha = loaded.detail /\ loaded.detail # 0
      BY <1>1, <2>2, SlotsAre, CommitsAre DEF StackFits, Selections
    <3> QED  BY <1>0, <2>2, <1>1, SlotsAre, <3>2 DEF ViewOf, Selections
  <2> QED
    BY <2>1, <2>2
<1>7. draft' \in Drafts /\ DraftsAreAnchored'
  BY <1>1, SlotsAre, EditorsAre, <1>3, <1>5 DEF Drafts, Editors, DraftsAreAnchored, DraftPlace
<1>8. ViewerTypes' /\ ViewerInv'
  <2>1. CASE PillStarts(e)
    BY <1>0, <1>1, <2>1, ViewerStays DEF PillStarts
  <2>2. CASE GlyphStarts(e)
    <3>1. PICK p \in Selections : Choose(p) /\ p.sha = picked.sha
      <4>1. PickChanged(e.doc) \in Selections /\ PickChanged(e.doc).sha = picked.sha
        BY <1>1, SlotsAre, EditorsAre DEF PickChanged, Selections
      <4>2. PickPage(e.doc) \in Selections /\ PickPage(e.doc).sha = picked.sha
        BY <1>1, SlotsAre, EditorsAre DEF PickPage, Selections
      <4> QED  BY <4>1, <4>2, <2>2 DEF GlyphStarts
    <3> QED
      BY <1>0, <1>1, <3>1, ChooseKeeps
  <2> QED
    BY <1>3, <2>1, <2>2
<1>9. PanelTypes'  BY <1>0, <1>1, FreeIs, TurnIs, <1>7 DEF PanelTypes
<1>10. JumpsInv' /\ landed' = TRUE
  BY <1>0, <1>1 DEF JumpsInv, ReviewScreenInv
<1> QED
  BY <1>0, <1>7, <1>8, <1>9, <1>10, PortalStays DEF ReviewScreenInv

LEMMA DraftKeeps ==
  ASSUME ReviewScreenInv, DraftActs
  PROVE  ReviewScreenInv'
<1>0. UNCHANGED <<viewerVars, marks, remarks, focused, jumps, landed, portal, turns, surface>>
  BY DEF DraftActs
<1>3. draft' \in Drafts /\ DraftsAreAnchored'
  <2>1. CASE draft' = NoDraft
    BY <2>1 DEF NoDraft, Drafts, DraftsAreAnchored, Editor
  <2>2. CASE draft.phase # "none" /\ \E phase \in {"typed", "saving"} : draft' = [draft EXCEPT !.phase = phase]
    <3>1. PICK phase \in {"typed", "saving"} : draft' = [draft EXCEPT !.phase = phase]
      BY <2>2
    <3> QED  BY <2>2, <3>1 DEF DraftsAreAnchored, Drafts, ReviewScreenInv, PanelTypes
  <2> QED  BY <2>1, <2>2 DEF DraftActs, DraftShows, DraftSaved
<1>4. ViewerTypes' /\ ViewerInv' /\ picked' = picked
  BY <1>0, ViewerStays DEF viewerVars, ReviewScreenInv, PanelTypes
<1>5. PanelTypes'  BY <1>0, <1>3 DEF PanelTypes, ReviewScreenInv
<1> QED
  BY <1>0, <1>3, <1>4, <1>5, PortalStays, JumpsStay DEF ReviewScreenInv

-----------------------------------------------------------------------------
(* The portal.                                                             *)

LEMMA PortalKeeps ==
  ASSUME ReviewScreenInv, NEW p \in Portals, PortalMoves(p), turns' \in 0..MaxTurns,
         p.timers = IF p.ref = TRUE THEN 1 ELSE 0,
         p.ref = TRUE => p.open = TRUE,
         p.open = TRUE => p.asked = p.ref
  PROVE  ReviewScreenInv'
<1>0. portal' = p /\ UNCHANGED <<viewerVars, marks, remarks, focused, jumps, landed, draft, surface>>
  BY DEF PortalMoves
<1>2. ViewerTypes' /\ ViewerInv' /\ picked' = picked  BY <1>0, ViewerStays DEF viewerVars, ReviewScreenInv
<1>3. PanelTypes'  BY <1>0 DEF PanelTypes, ReviewScreenInv
<1>4. PortalInv'
  BY <1>0 DEF PortalInv
<1> QED
  BY <1>0, <1>2, <1>3, <1>4, DraftStays, JumpsStay DEF ReviewScreenInv

LEMMA UnmountedIs ==
  ASSUME NEW p \in Portals, p.ref = TRUE => p.timers = 1, p.ref = FALSE => p.timers = 0
  PROVE  /\ Unmounts(p) \in Portals /\ Unmounts(p).timers = 0 /\ Unmounts(p).ref = FALSE
         /\ Unmounts(p).open = FALSE
<1> DEFINE n == IF p.ref THEN p.timers - 1 ELSE p.timers
<1>2. n = 0  BY DEF Portals
<1>3. Unmounts(p) = [p EXCEPT !.open = FALSE, !.entry = FALSE, !.leaving = FALSE, !.ref = FALSE,
                              !.hears = 0, !.asked = FALSE, !.timers = n]
  BY DEF Unmounts
<1> HIDE DEF n
<1> DEFINE u == [p EXCEPT !.open = FALSE, !.entry = FALSE, !.leaving = FALSE, !.ref = FALSE,
                          !.hears = 0, !.asked = FALSE, !.timers = 0]
<1>5. u \in Portals
  BY DEF Portals
<1> HIDE DEF u
<1> QED  BY <1>2, <1>3, <1>5 DEF u, Portals

LEMMA PortalSteps ==
  ASSUME ReviewScreenInv, Hurried = FALSE,
         PortalOpens \/ FrameComes \/ Collapses \/ TimerFires \/ TransitionEnds \/ ClosesAtOnce
  PROVE  ReviewScreenInv'
<1>0. /\ portal \in Portals /\ turns \in 0..MaxTurns /\ portal.ref \in BOOLEAN /\ portal.open \in BOOLEAN
      /\ portal.timers \in Nat /\ portal.hears \in Nat /\ portal.timers = (IF portal.ref = TRUE THEN 1 ELSE 0)
      /\ (portal.ref = TRUE => portal.open = TRUE) /\ (portal.open = TRUE => portal.asked = portal.ref)
  BY DEF ReviewScreenInv, PanelTypes, PortalInv, Portals
<1>1. CASE PortalOpens
  <2> DEFINE p == [portal EXCEPT !.open = TRUE, !.leaving = TRUE, !.entry = TRUE, !.ref = FALSE,
                                 !.hears = 0, !.asked = FALSE]
  <2>1. PortalMoves(p) /\ turns' \in 0..MaxTurns /\ portal.open = FALSE
    BY <1>0, <1>1, TurnIs DEF PortalOpens, Turn
  <2>2. p \in Portals /\ p.timers = portal.timers /\ p.ref = FALSE /\ p.open = TRUE /\ p.asked = FALSE
    BY <1>0 DEF Portals
  <2> HIDE DEF p
  <2> QED
    BY <1>0, <2>1, <2>2, PortalKeeps
<1>2. CASE FrameComes
  <2> DEFINE p == [portal EXCEPT !.entry = FALSE, !.leaving = FALSE]
  <2>1. PortalMoves(p) /\ turns' \in 0..MaxTurns
    BY <1>0, <1>2 DEF FrameComes
  <2>2. p \in Portals /\ p.timers = portal.timers /\ p.ref = portal.ref /\ p.open = portal.open
        /\ p.asked = portal.asked
    BY <1>0 DEF Portals
  <2> HIDE DEF p
  <2> QED
    BY <1>0, <2>1, <2>2, PortalKeeps
<1>3. CASE Collapses
  <2> DEFINE n == portal.timers + 1
             h == portal.hears + 1
             p == [portal EXCEPT !.entry = FALSE, !.leaving = TRUE, !.ref = TRUE,
                                 !.timers = n, !.hears = h, !.asked = TRUE]
  <2>1. PortalMoves(p) /\ turns' \in 0..MaxTurns /\ portal.ref = FALSE /\ portal.open = TRUE
    BY <1>0, <1>3, TurnIs DEF Collapses, Turn
  <2>3. n \in Nat /\ h \in Nat /\ n = 1
    BY <1>0, <2>1
  <2> HIDE DEF n, h
  <2>2. p \in Portals /\ p.timers = n /\ p.ref = TRUE /\ p.open = portal.open /\ p.asked = TRUE
    BY <1>0, <2>3 DEF Portals
  <2> HIDE DEF p
  <2> QED
    BY <1>0, <2>1, <2>2, <2>3, PortalKeeps
<1>4. CASE TimerFires
  <2> DEFINE n == portal.timers - 1
             q == [portal EXCEPT !.timers = n, !.ref = FALSE]
             p == Unmounts(q)
  <2>1. PortalMoves(p) /\ turns' \in 0..MaxTurns /\ portal.timers > 0
    BY <1>0, <1>4 DEF TimerFires
  <2>2. n = 0
    BY <1>0, <2>1
  <2> HIDE DEF n
  <2>3. q \in Portals /\ q.timers = 0 /\ q.ref = FALSE
    BY <1>0, <2>2 DEF Portals
  <2> HIDE DEF q
  <2>4. p \in Portals /\ p.timers = 0 /\ p.ref = FALSE /\ p.open = FALSE
    BY <2>3, UnmountedIs
  <2> HIDE DEF p
  <2> QED
    BY <2>1, <2>4, PortalKeeps
<1>5. CASE PortalMoves(Unmounts(portal)) /\ turns' \in 0..MaxTurns
  <2> DEFINE p == Unmounts(portal)
  <2>2. PortalMoves(p)
    BY <1>5
  <2> HIDE DEF p
  <2> QED  BY <1>5, <1>0, UnmountedIs, <2>2, PortalKeeps
<1>6. CASE TransitionEnds
  <2>1. CASE portal.ref = TRUE
    BY <1>0, <1>5, <1>6, <2>1 DEF TransitionEnds
  <2>2. CASE portal.ref = FALSE
    <3> DEFINE p == [portal EXCEPT !.hears = 0]
    <3>1. PortalMoves(p) /\ turns' \in 0..MaxTurns
      BY <1>0, <1>6, <2>2 DEF TransitionEnds
    <3>2. p \in Portals /\ p.timers = portal.timers /\ p.ref = portal.ref /\ p.open = portal.open
          /\ p.asked = portal.asked
      BY <1>0 DEF Portals
    <3> HIDE DEF p
    <3> QED
      BY <1>0, <3>1, <3>2, PortalKeeps
  <2> QED
    BY <1>0, <2>1, <2>2
<1>7. CASE ClosesAtOnce  BY <1>5, <1>0, <1>7, TurnIs DEF ClosesAtOnce, Turn
<1> QED
  BY <1>1, <1>2, <1>3, <1>4, <1>6, <1>7

-----------------------------------------------------------------------------
(* The panel.                                                              *)

LEMMA ScreenStarts == ScreenInit => ReviewScreenInv
<1> SUFFICES ASSUME ScreenInit PROVE ReviewScreenInv
  OBVIOUS
<1>4. ViewerTypes
  <2>2. texts \in [Docs -> Nat \ {0}]  BY ScreenAssumption, FS_CardinalityType DEF Commits, ScreenInit
  <2> QED  BY <2>2 DEF ViewerTypes, ThreadStates, NoStack, Stacks, Selections, Loadings, ScreenInit
<1>6. PanelTypes
  BY ScreenAssumption DEF ScreenInit, PanelTypes, Statuses, Shut, Portals, NoDraft, Drafts, Editor
<1> QED
  BY <1>4, <1>6 DEF ReviewScreenInv, ScreenInit, Shut, NoDraft, PortalInv, JumpsInv, DraftsAreAnchored,
     ViewerInv, PageFits, HasText, StackFits, EmptyIfNone, EditorsInv, ThreadsInPlace, NoStack, Stacks

LEMMA ScreenStep ==
  ASSUME ReviewScreenInv, ScreenNext \/ UNCHANGED screenVars, Crosswise = FALSE, Hurried = FALSE
  PROVE  ReviewScreenInv'
<1>1. CASE UNCHANGED screenVars
  <2>1. UNCHANGED <<viewerVars, marks, remarks, focused, jumps, landed, draft, portal, turns, surface>>
    BY <1>1 DEF screenVars
  <2>2. ViewerTypes' /\ ViewerInv' /\ picked' = picked
    BY <2>1, ViewerStays DEF ReviewScreenInv, viewerVars
  <2>3. PanelTypes'
    BY <2>1 DEF ReviewScreenInv, PanelTypes
  <2> QED
    BY <2>1, <2>2, <2>3, PortalStays, DraftStays, JumpsStay DEF ReviewScreenInv
<1>2. CASE ScreenNext
  BY <1>2, ViewerStepKeeps, ReopenKeeps, ViewedKeeps, RemarksKeep, ThreadsKeep, KeysKeep,
     JumpBeginKeeps, JumpEndKeeps, DraftStartKeeps, DraftKeeps, PortalSteps DEF ScreenNext
<1> QED
  BY <1>1, <1>2

LEMMA ScreenHolds ==
  ASSUME ReviewScreenInv
  PROVE  ScreenTypeOK /\ ScreenIsTrue
<1>0. /\ ViewerTypes /\ PanelTypes /\ picked \in Selections /\ loaded \in Loadings /\ stack \in Stacks
      /\ EmptyIfNone(stack) /\ EditorsInv /\ HasText(loaded) /\ registry \subseteq Editors
      /\ marks \in [Docs -> Nat] /\ hashes \in [Docs -> Nat]
  BY DEF ReviewScreenInv, ViewerTypes, PanelTypes, ViewerInv
<1>1. ScreenTypeOK
  BY <1>0 DEF ScreenTypeOK, ViewerTypes, PanelTypes, Selections, Stacks, Editors, Statuses, ThreadStates,
     Loadings, Drafts, Portals
<1>2. EditorsAreOnScreen
  <2>1. ASSUME NEW e \in registry, NEW f \in registry, e.doc = f.doc
        PROVE  e = f  BY <2>1, <1>0, SlotsAre, EditorsAre DEF EditorsInv
  <2> QED
    BY <1>0, <2>1 DEF EditorsAreOnScreen, EditorsInv
<1>3. MarksAreTrue
  <2>1. ASSUME NEW e \in registry
        PROVE  Viewed(e.doc) <=> marks[e.doc] = ContentOf(e)
    <3>1. e \in Editors /\ e \in Slots(picked, loaded, stack) /\ e.doc \in Docs /\ e.doc # NoDoc
          /\ e.view \in Commits \cup {0} /\ hashes[e.doc] = ContentOf(e)
      BY <1>0, EditorsAre, ScreenAssumption DEF EditorsInv
    <3>2. ContentOf(e) # 0
      <4>1. CASE e.view = 0
        <5>1. picked.mode = "changes"  BY <4>1, <1>0, <3>1, SlotsAre, CommitsAre
        <5> QED  BY <1>0, <3>1, <4>1, <5>1, SlotsAre DEF HasText, ContentOf
      <4>2. CASE e.view # 0
        BY <4>2 DEF ContentOf
      <4> QED
        BY <4>1, <4>2
    <3> QED
      BY <3>1, <3>2 DEF Viewed
  <2> QED
    BY <2>1 DEF MarksAreTrue
<1> QED
  BY <1>1, <1>2, <1>3, <1>0 DEF ReviewScreenInv, ViewerInv, ScreenIsTrue, PortalIsQuiet, PortalInv, Portals,
     PanelTypes

-----------------------------------------------------------------------------
(* The program.                                                            *)

\* A step of the program moves one part and leaves the others as they are.
LEMMA WorkSteps ==
  ASSUME [Next]_vars
  PROVE  /\ TreesNext \/ UNCHANGED treeVars
         /\ PanesNext \/ UNCHANGED paneVars
         /\ FlowNext \/ UNCHANGED flowVars
         /\ ScreenNext \/ UNCHANGED screenVars
<1>1. CASE UNCHANGED vars
  BY <1>1 DEF vars
<1>2. CASE Next
  BY <1>2 DEF Next, Others
<1> QED
  BY <1>1, <1>2

LEMMA WorkStarts == Init => TreesInit /\ PanesInit /\ FlowInit /\ ScreenInit
  BY DEF Init

\* Theorem: however others run git, and whichever of its commands fail, a creation that failed
\* leaves no branch behind but one that its rollback could not remove, each dialog previews
\* what it is asked to do, and a branch that others made goes only with the removal of its
\* worktree (worktree-service.ts, NewWorktreeDialog.tsx).
THEOREM TreesCorrect == Spec => []OnlyRefusedIsLeft /\ []PreviewsFit /\ OthersAreSpared
<1> DEFINE Spared == \A n \in Names : git[n].branch = "theirs" /\ git'[n].branch # "theirs" =>
                        removing # NoName /\ removing.name = n
<1>1. Init => TreeInv
  BY WorkStarts, TreesInitIs
<1>2. TreeInv /\ [Next]_vars => TreeInv'
  BY WorkSteps, TreeStep
<1>3. TreeInv /\ [Next]_vars => [Spared]_treeVars
  BY WorkSteps, SparedStep
<1>4. OthersAreSpared <=> [][Spared]_treeVars
  BY DEF OthersAreSpared
<1> HIDE DEF Spared
<1> QED
  BY <1>1, <1>2, <1>3, <1>4, TreesAreSafe, PTL DEF Spec

\* Theorem: as long as no terminal starts in a worktree that is being removed, none runs on
\* in a worktree that the window does not show any more, along with the above
\* (refreshWorktreeInventory, closeProcessesForWorktree).
THEOREM WorktreesCorrect == Late = FALSE => (Spec => WorktreesAreSafe)
<1> SUFFICES ASSUME Late = FALSE PROVE Spec => WorktreesAreSafe
  OBVIOUS
<1>1. Init => TreeInv /\ SessionsInv
  BY WorkStarts, TreesInitIs
<1>2. TreeInv /\ SessionsInv /\ [Next]_vars => TreeInv' /\ SessionsInv'
  BY WorkSteps, TreeStep, SessionsStep
<1>3. Spec => []NoneOrphaned
  BY <1>1, <1>2, NobodyOrphaned, PTL DEF Spec
<1> QED
  BY <1>3, TreesCorrect DEF WorktreesAreSafe

\* Theorem: for any sizes of the wire and of the replay buffer, however a pane is mounted,
\* hidden and unmounted while the terminal writes and exits and phones watch it, its output is
\* in order, once and without a gap; once every event and the seed have come it is frozen
\* exactly while the phone owns the terminal; and a pleat previews nothing but what came
\* during the watches (TerminalPane.tsx, use-phone-watch-state.ts, replay-buffer.ts).
THEOREM StreamCorrect == Spec => [](OutputIsWhole /\ FreezeIsHonest /\ PleatIsNarrow)
<1>1. Init => WatchInv /\ StreamInv
  BY WorkStarts, PanesStart
<1>2. WatchInv /\ StreamInv /\ [Next]_vars => WatchInv' /\ StreamInv'
  BY WorkSteps, PaneStep
<1>3. WatchInv /\ StreamInv => OutputIsWhole /\ FreezeIsHonest /\ PleatIsNarrow
  BY OutputHolds, FreezeHolds
<1> QED
  BY <1>1, <1>2, <1>3, PTL DEF Spec

\* Theorem: along with the above, as long as the size of the font does not change under a
\* pane, the main process has the size of every pane that is seen, runs and has no callback
\* due (TerminalPane.tsx: fit, the ResizeObserver, the effect of visible).
THEOREM PanesCorrect == Zooms = FALSE => (Spec => []PanesAreFaithful)
<1> SUFFICES ASSUME Zooms = FALSE PROVE Spec => []PanesAreFaithful
  OBVIOUS
<1>1. Init => PaneTypes /\ SizeIsSent  BY WorkStarts, PanesStart DEF SizeIsSent, WatchInv, PanesInit, NoPane
<1>2. Init => WatchInv /\ StreamInv
  BY WorkStarts, PanesStart
<1>3. WatchInv /\ StreamInv /\ [Next]_vars => WatchInv' /\ StreamInv'
  BY WorkSteps, PaneStep
<1>4. WatchInv /\ SizeIsSent /\ [Next]_vars => SizeIsSent'
  BY WorkSteps, SizeSentStep DEF WatchInv
<1>5. WatchInv /\ StreamInv /\ SizeIsSent => PanesAreFaithful
  BY OutputHolds, FreezeHolds DEF PanesAreFaithful
<1> QED
  BY <1>1, <1>2, <1>3, <1>4, <1>5, PTL DEF Spec

\* Theorem: for any checkouts, files, commits and comments, in whatever order git answers,
\* once nothing is loading the review panel shows what git has now of the worktree and the
\* file or commit that are selected; its registry, threads, marks and drafts belong to the
\* diffs on the screen, jumps end in the diff of their comment, and its portal closes exactly
\* when asked.  It needs that no commit is selected while the history is read, that jumps and
\* acts on a comment do not cross diffs of one file, and that a portal that leaves is not
\* collapsed again (use-review-loaders, DiffViewerPane, InlineMountsBridge, queue-jump,
\* ReviewExpandedPortal).
THEOREM ReviewCorrect ==
  Nimble = FALSE /\ Crosswise = FALSE /\ Hurried = FALSE => (Spec => []ReviewIsTrue)
<1> SUFFICES ASSUME Nimble = FALSE, Crosswise = FALSE, Hurried = FALSE
             PROVE  Spec => []ReviewIsTrue
  OBVIOUS
<1>1. Init => FlowInv /\ ReviewScreenInv
  BY WorkStarts, FlowStarts, ScreenStarts
<1>2. FlowInv /\ ReviewScreenInv /\ [Next]_vars => FlowInv' /\ ReviewScreenInv'
  BY WorkSteps, FlowStep, ScreenStep
<1>3. FlowInv /\ ReviewScreenInv => ReviewIsTrue
  BY FlowHolds, ScreenHolds DEF ReviewIsTrue
<1> QED
  BY <1>1, <1>2, <1>3, PTL DEF Spec

===============================================================================
