-------------------------- MODULE WorkspacesProofs --------------------------
(***************************************************************************)
(* Proofs about Workspaces, for any sessions, names, trees the user has    *)
(* and bounds.                                                             *)
(*                                                                         *)
(* The invariant is the ownership the code keeps only in the order of its  *)
(* calls: at each point of a creation or a deletion it says what the       *)
(* session may have, so that whoever is done has nothing.                  *)
(***************************************************************************)
EXTENDS Workspaces, TLAPS

TreeType == [on : BOOLEAN, branch : BOOLEAN, by : Sessions \cup {Nobody},
             head : {"own", "other"}, dirty : Nat, ahead : Nat,
             upstream : {"none", "tracked", "gone"}]
MakeType == [pc : MakePc, name : Names \cup {"none"},
             strategy : {"none", "new", "existing", "planning"}]
DeleteType == [pc : DelPc, remove : BOOLEAN, changes : Nat, commits : Nat,
               status : {"none", "seen", "failed"},
               log : {"none", "seen", "pruned", "elsewhere", "failed"}]

\* Where the creation has made the tree, or found it.
MadePc == {"validate", "room", "files", "insert", "undo_room", "undo_files", "undo_tree"}
Late == {"contract", "draft"}

\* Where the deletion asks git about the tree.
Asking == {"status", "upstream", "commits"}

\* The row of a session tells where its calls may be.
Creation(s) ==
    /\ make[s].pc \notin Late \cup {"over"} => row[s] = "none"
    /\ make[s].pc \in Late => row[s] # "none"
    /\ make[s].pc = "inspect" => make[s].strategy # "none"
    /\ make[s].pc \in {"check", "add", "validate"} => make[s].strategy = "new"
    /\ make[s].pc \in {"select", "clone"} => make[s].strategy # "new"
    /\ make[s].pc = "add" => make[s].name \in Names

\* A deletion goes on to remove only what the session has made; a tree that
\* it does not remove is kept.
Deletion(s) ==
    /\ del[s].pc \in Asking \cup {"rows"} => row[s] = "ended"
    /\ del[s].pc \in {"workspace", "tree", "files"} => row[s] = "gone"
    /\ del[s].pc \in Asking \/ del[s].remove => make[s].strategy = "new"
    /\ del[s].pc \in Asking \cup {"idle"} => ~del[s].remove
    /\ del[s].pc \in {"workspace", "tree"} => del[s].remove \/ s \in kept

\* What git has said stays true of what was there when it was asked: changes
\* and commits that the tree has now are younger than the answer.
Found(s) ==
    /\ del[s].changes <= work /\ del[s].commits <= work
    /\ del[s].pc \in {"upstream", "commits"} \/ del[s].remove =>
          (del[s].status = "seen" /\ Tree(s).dirty # 0 => Tree(s).dirty > del[s].changes)
    /\ del[s].remove =>
          (del[s].log = "seen" /\ Tree(s).ahead # 0 => Tree(s).ahead > del[s].commits)

\* What a session has of each kind, it has at these points only.
Owns(s) ==
    /\ s \in rooms => make[s].pc \in {"files", "insert", "undo_room"} \/ Stands(s)
    /\ s \in files => \/ make[s].pc \in {"insert", "undo_room", "undo_files"} \/ Stands(s)
                      \/ del[s].pc \in {"workspace", "tree", "files"}
    /\ s \in spaces => \/ make[s].pc \in MadePc \/ Stands(s)
                       \/ del[s].pc = "workspace"
    /\ \A n \in Names : tree[n].by = s =>
          \/ s \in kept
          \/ /\ make[s].strategy = "new" /\ make[s].name = n
             /\ make[s].pc \in MadePc \/ Stands(s) \/ del[s].pc \in {"workspace", "tree"}

\* The tree that a session asked to be made is not one the user had.
Claims(s) ==
    make[s].strategy = "new" /\ (make[s].pc \in MadePc \/ row[s] # "none") =>
        /\ make[s].name \in Names
        /\ ~(tree[make[s].name].on /\ tree[make[s].name].by = Nobody)

Whole(s) == /\ Creation(s) /\ Deletion(s) /\ Claims(s) /\ Found(s)
            /\ s \notin excused => Owns(s)

Inv == TypeOK /\ WorkIsKept /\ \A s \in Sessions : Whole(s)

-----------------------------------------------------------------------------
(* Facts that every step uses.                                             *)

LEMMA Pieces ==
    ASSUME TypeOK
    PROVE  /\ tree \in [Names -> TreeType] /\ make \in [Sessions -> MakeType]
           /\ del \in [Sessions -> DeleteType]
           /\ row \in [Sessions -> {"none", "live", "ended", "gone"}]
           /\ rooms \subseteq Sessions /\ files \subseteq Sessions
           /\ spaces \subseteq Sessions /\ drafts \subseteq Sessions /\ work \in Nat
BY DEF TypeOK, TreeType, MakeType, DeleteType

LEMMA TypeNext ==
    ASSUME tree' \in [Names -> TreeType], make' \in [Sessions -> MakeType],
           del' \in [Sessions -> DeleteType],
           row' \in [Sessions -> {"none", "live", "ended", "gone"}],
           rooms' \subseteq Sessions, files' \subseteq Sessions,
           spaces' \subseteq Sessions, drafts' \subseteq Sessions, work' \in Nat
    PROVE  TypeOK'
BY DEF TypeOK, TreeType, MakeType, DeleteType

LEMMA NoTreeType ==
    /\ NoTree \in TreeType /\ NoTree.on = FALSE /\ NoTree.by = Nobody
    /\ NoTree.dirty = 0 /\ NoTree.ahead = 0
BY DEF NoTree, TreeType

LEMMA CutType ==
    ASSUME NEW by \in Sessions \cup {Nobody}
    PROVE  Cut(by) \in TreeType /\ Cut(by).by = by /\ Cut(by).dirty = 0 /\ Cut(by).ahead = 0
BY DEF Cut, NoTree, TreeType

\* What a step for session s may do to the trees of the others: nothing
\* becomes theirs, nothing becomes a tree the user had, and no work is done.
TreesOfOthersStay(s) ==
    \A n \in Names :
        /\ tree'[n].by \in {tree[n].by, s, Nobody}
        /\ tree'[n].on /\ tree'[n].by = Nobody => tree[n].on /\ tree[n].by = Nobody
        /\ tree'[n].dirty \in {0, tree[n].dirty} /\ tree'[n].ahead \in {0, tree[n].ahead}

\* The answers stand as long as no work is done.
LEMMA FoundStays ==
    ASSUME TypeOK, NEW q \in Sessions, NEW s \in Sessions, Deletion(q), Claims(q), Found(q),
           del'[q] = del[q], make'[q].name = make[q].name, work' = work, TreesOfOthersStay(s)
    PROVE  Found(q)'
<1>1. del[q].pc \in {"upstream", "commits"} \/ del[q].remove => make[q].name \in Names
  BY Pieces DEF Deletion, Claims, Asking, DeleteType, DelPc
<1> QED
  BY <1>1 DEF Found, Tree, TreesOfOthersStay

\* A step for one session keeps what is said of the others.
LEMMA SessionStep ==
    ASSUME Inv, NEW s \in Sessions, TypeOK', WorkIsKept',
           \A q \in Sessions \ {s} : /\ make'[q] = make[q] /\ del'[q] = del[q]
                                     /\ row'[q] = row[q]
                                     /\ q \in rooms' => q \in rooms
                                     /\ q \in files' => q \in files
                                     /\ q \in spaces' => q \in spaces,
           excused \subseteq excused', kept \subseteq kept',
           TreesOfOthersStay(s), work' = work, Whole(s)'
    PROVE  Inv'
<1>1. ASSUME NEW q \in Sessions PROVE Whole(q)'
  <2>1. CASE q = s
    BY <2>1
  <2>2. CASE q # s
    <3>1. /\ make'[q] = make[q] /\ del'[q] = del[q] /\ row'[q] = row[q]
          /\ Whole(q)
      BY <2>2 DEF Inv
    <3>2. Creation(q)'
      BY <3>1 DEF Whole, Creation
    <3>3. Deletion(q)'
      BY <3>1 DEF Whole, Deletion
    <3>4. Claims(q)'
      BY <3>1 DEF Whole, Claims, TreesOfOthersStay
    <3>6. Found(q)'
      BY <3>1, FoundStays DEF Whole, Inv
    <3>5. q \notin excused' => Owns(q)'
      <4>1. \A n \in Names : tree'[n].by = q => tree[n].by = q
        BY <2>2, WorkspacesAssumption DEF TreesOfOthersStay
      <4> QED
        BY <2>2, <3>1, <4>1 DEF Whole, Owns, Stands
    <3> QED
      BY <3>2, <3>3, <3>4, <3>5, <3>6 DEF Whole
  <2> QED
    BY <2>1, <2>2
<1> QED
  BY <1>1 DEF Inv

\* The call goes on from one step to another.
LEMMA GoesMake ==
    ASSUME TypeOK, NEW s \in Sessions, NEW pc \in MakePc, Goes(s, pc)
    PROVE  /\ make' \in [Sessions -> MakeType] /\ make'[s].pc = pc
           /\ make'[s].name = make[s].name /\ make'[s].strategy = make[s].strategy
           /\ \A q \in Sessions \ {s} : make'[q] = make[q]
<1> DEFINE m == [make[s] EXCEPT !.pc = pc]
<1>1. make' = [make EXCEPT ![s] = m] /\ make[s] \in MakeType
  BY Pieces DEF Goes
<1>2. m \in MakeType /\ m.pc = pc /\ m.name = make[s].name /\ m.strategy = make[s].strategy
  BY <1>1 DEF MakeType
<1> HIDE DEF m
<1> QED
  BY <1>1, <1>2, Pieces

LEMMA GoesDel ==
    ASSUME TypeOK, NEW s \in Sessions, NEW pc \in DelPc, del' = [del EXCEPT ![s].pc = pc]
    PROVE  /\ del' \in [Sessions -> DeleteType] /\ del'[s].pc = pc
           /\ del'[s].remove = del[s].remove
           /\ del'[s].status = del[s].status /\ del'[s].changes = del[s].changes
           /\ del'[s].log = del[s].log /\ del'[s].commits = del[s].commits
           /\ \A q \in Sessions \ {s} : del'[q] = del[q]
<1> DEFINE d == [del[s] EXCEPT !.pc = pc]
<1>1. del' = [del EXCEPT ![s] = d] /\ del[s] \in DeleteType
  BY Pieces
<1>2. /\ d \in DeleteType /\ d.pc = pc /\ d.remove = del[s].remove
      /\ d.status = del[s].status /\ d.changes = del[s].changes
      /\ d.log = del[s].log /\ d.commits = del[s].commits
  BY <1>1 DEF DeleteType
<1> HIDE DEF d
<1> QED
  BY <1>1, <1>2, Pieces

\* The removal of a tree: it is gone, or somebody is excused for what is left.
LEMMA RemovesTree ==
    ASSUME TypeOK, NEW n \in Names, NEW by \in Sessions, Removes(n, by)
    PROVE  /\ tree' \in [Names -> TreeType] /\ excused \subseteq excused'
           /\ TreesOfOthersStay(by)
           /\ \A k \in Names \ {n} : tree'[k] = tree[k]
           /\ by \notin excused' => tree'[n].by = Nobody
           /\ tree[n].by # Nobody \/ ~tree[n].on => ~(tree'[n].on /\ tree'[n].by = Nobody)
<1>1. CASE tree' = [tree EXCEPT ![n] = NoTree] /\ UNCHANGED excused
  BY <1>1, NoTreeType, Pieces DEF TreesOfOthersStay
<1>2. ASSUME NEW t \in TreeType, tree' = [tree EXCEPT ![n] = t],
             t.by = tree[n].by, t.on => tree[n].on,
             t.dirty \in {0, tree[n].dirty}, t.ahead \in {0, tree[n].ahead},
             excused' = excused \cup {by, tree[n].by}
      PROVE  /\ tree' \in [Names -> TreeType] /\ excused \subseteq excused'
             /\ TreesOfOthersStay(by)
             /\ \A k \in Names \ {n} : tree'[k] = tree[k]
             /\ by \notin excused' => tree'[n].by = Nobody
             /\ tree[n].by # Nobody \/ ~tree[n].on => ~(tree'[n].on /\ tree'[n].by = Nobody)
  BY <1>2, Pieces DEF TreesOfOthersStay
<1>3. CASE /\ tree' = [tree EXCEPT ![n] = [@ EXCEPT !.on = FALSE, !.dirty = 0, !.head = "own"]]
           /\ excused' = excused \cup {by, tree[n].by}
  <2> DEFINE t == [tree[n] EXCEPT !.on = FALSE, !.dirty = 0, !.head = "own"]
  <2>1. tree' = [tree EXCEPT ![n] = t]
    BY <1>3, Pieces
  <2>2. /\ t \in TreeType /\ ~t.on /\ t.by = tree[n].by /\ t.dirty = 0
        /\ t.ahead = tree[n].ahead
    BY Pieces DEF TreeType
  <2> HIDE DEF t
  <2> QED
    BY <1>2, <1>3, <2>1, <2>2
<1>4. CASE /\ tree' = [tree EXCEPT ![n] = [@ EXCEPT !.branch = FALSE, !.ahead = 0]]
           /\ excused' = excused \cup {by, tree[n].by}
  <2> DEFINE t == [tree[n] EXCEPT !.branch = FALSE, !.ahead = 0]
  <2>1. tree' = [tree EXCEPT ![n] = t]
    BY <1>4, Pieces
  <2>2. /\ t \in TreeType /\ t.on = tree[n].on /\ t.by = tree[n].by
        /\ t.dirty = tree[n].dirty /\ t.ahead = 0
    BY Pieces DEF TreeType
  <2> HIDE DEF t
  <2> QED
    BY <1>2, <1>4, <2>1, <2>2
<1>5. CASE UNCHANGED tree /\ excused' = excused \cup {by, tree[n].by}
  <2>1. tree' = [tree EXCEPT ![n] = tree[n]] /\ tree[n] \in TreeType
    BY <1>5, Pieces
  <2> QED
    BY <1>2, <1>5, <2>1
<1> QED
  BY <1>1, <1>3, <1>4, <1>5 DEF Removes

LEMMA InitInv == Init => Inv
<1> SUFFICES ASSUME Init PROVE Inv
  OBVIOUS
<1>1. TypeOK
  <2>1. tree \in [Names -> TreeType]
    BY NoTreeType, CutType DEF Init
  <2>2. make \in [Sessions -> MakeType] /\ del \in [Sessions -> DeleteType]
    BY DEF Init, NoCall, NoDelete, MakeType, MakePc, DelPc, DeleteType
  <2> QED
    BY <2>1, <2>2 DEF Init, TypeOK, TreeType, MakeType, DeleteType
<1>2. WorkIsKept
  BY DEF Init, WorkIsKept
<1>3. ASSUME NEW s \in Sessions PROVE Whole(s)
  <2>1. make[s] = NoCall /\ del[s] = NoDelete /\ row[s] = "none"
    BY DEF Init
  <2>2. ASSUME NEW n \in Names PROVE tree[n].by = Nobody
    BY NoTreeType, CutType DEF Init
  <2>3. s # Nobody /\ s \notin rooms \cup files \cup spaces
    BY WorkspacesAssumption DEF Init
  <2> QED
    BY <2>1, <2>2, <2>3
       DEF Whole, Creation, Deletion, Claims, Found, Owns, NoCall, NoDelete, MadePc, Late, Asking,
           Init
<1> QED
  BY <1>1, <1>2, <1>3 DEF Inv

-----------------------------------------------------------------------------
(* The creation of a session.                                              *)

\* A step of a creation leaves every deletion as it is.
LEMMA MakeStep ==
    ASSUME Inv, NEW s \in Sessions,
           make' \in [Sessions -> MakeType], \A q \in Sessions \ {s} : make'[q] = make[q],
           tree' \in [Names -> TreeType], TreesOfOthersStay(s),
           row' \in [Sessions -> {"none", "live", "ended", "gone"}],
           \A q \in Sessions \ {s} : row'[q] = row[q],
           rooms' \subseteq rooms \cup {s}, files' \subseteq files \cup {s},
           spaces' \subseteq spaces \cup {s}, drafts' \subseteq drafts,
           UNCHANGED <<del, kept, lost, work>>, excused \subseteq excused',
           \/ row[s] = "none"
           \/ /\ row'[s] = row[s]
              /\ make'[s].strategy = make[s].strategy /\ make'[s].name = make[s].name,
           Creation(s)', Claims(s)', s \notin excused' => Owns(s)'
    PROVE  Inv'
<1>1. TypeOK /\ Whole(s)
  BY DEF Inv
<1>2. TypeOK'
  BY <1>1, Pieces, TypeNext
<1>3. Deletion(s)'
  BY <1>1, Pieces DEF Whole, Deletion, DeleteType, DelPc, Asking
<1>6. Found(s)'
  <2>1. CASE row[s] = "none"
    <3>1. del[s].pc \notin {"upstream", "commits"} /\ ~del[s].remove
      BY <1>1, <2>1, Pieces DEF Whole, Deletion, DeleteType, DelPc, Asking
    <3> QED
      BY <1>1, <3>1 DEF Whole, Found
  <2>2. CASE row[s] # "none"
    BY <1>1, <2>2, FoundStays DEF Whole
  <2> QED
    BY <2>1, <2>2
<1>4. Whole(s)'
  BY <1>3, <1>6 DEF Whole
<1>5. WorkIsKept'
  BY DEF Inv, WorkIsKept
<1> QED
  BY <1>2, <1>4, <1>5, SessionStep

\* Most steps only go on.
LEMMA GoesStep ==
    ASSUME Inv, NEW s \in Sessions, NEW pc \in MakePc, Goes(s, pc),
           UNCHANGED <<row, rooms, disk, del, kept, lost, work>>, drafts' \subseteq drafts,
           excused \subseteq excused',
           Creation(s)', Claims(s)', s \notin excused' => Owns(s)'
    PROVE  Inv'
<1>1. TypeOK
  BY DEF Inv
<1>2. TreesOfOthersStay(s)
  BY DEF disk, TreesOfOthersStay
<1> QED
  BY <1>1, <1>2, Pieces, GoesMake, MakeStep DEF disk

LEMMA Facts ==
    ASSUME Inv, NEW s \in Sessions
    PROVE  /\ TypeOK /\ Creation(s) /\ Deletion(s) /\ Claims(s) /\ Found(s)
           /\ s \notin excused => Owns(s)
           /\ make[s].pc \in MakePc
           /\ row[s] \in {"none", "live", "ended", "gone"}
BY Pieces DEF Inv, Whole, MakeType

\* A call that ends has nothing, unless its session stands.
LEMMA OverStep ==
    ASSUME Inv, NEW s \in Sessions, Goes(s, "over"), UNCHANGED <<row, rooms, disk, del, kept, lost, work>>,
           drafts' \subseteq drafts, excused \subseteq excused',
           s \in excused' \/ make[s].pc \in {"inspect", "check", "add", "select", "clone"} \cup Late
    PROVE  Inv'
<1> USE Facts
<1>1. /\ make'[s].pc = "over" /\ make'[s].name = make[s].name
      /\ make'[s].strategy = make[s].strategy
  BY GoesMake DEF MakePc
<1>2. Creation(s)'
  BY <1>1 DEF Creation, Late
<1>3. Claims(s)'
  BY <1>1 DEF Claims, disk, MadePc
<1>4. s \notin excused' => Owns(s)'
  BY <1>1 DEF Owns, MadePc, Stands, Late, disk
<1> QED
  BY <1>2, <1>3, <1>4, GoesStep DEF MakePc

LEMMA AskInv == ASSUME Inv, NEW s \in Sessions, Ask(s) PROVE Inv'
<1> USE Facts
<1>1. PICK strategy \in {"new", "existing", "planning"}, n \in Names \cup {"none"} :
         make' = [make EXCEPT ![s] = [pc |-> "inspect", strategy |-> strategy, name |-> n]]
  BY DEF Ask
<1>2. /\ make[s].pc = "idle" /\ row[s] = "none"
      /\ UNCHANGED <<rows, disk, del, kept, excused, lost, work>>
  BY DEF Ask
<1>3. [pc |-> "inspect", strategy |-> strategy, name |-> n] \in MakeType
  BY DEF MakeType, MakePc
<1>4. /\ make' \in [Sessions -> MakeType] /\ \A q \in Sessions \ {s} : make'[q] = make[q]
      /\ make'[s].pc = "inspect" /\ make'[s].strategy = strategy
  BY <1>1, <1>3, Pieces
<1>5. Creation(s)' /\ Claims(s)'
  BY <1>2, <1>4 DEF Creation, Claims, MadePc, Late, rows
<1>6. s \notin excused' => Owns(s)'
  BY <1>2, <1>4 DEF Owns, MadePc, Stands, Deletion, DeleteType, disk, rows
<1>7. TreesOfOthersStay(s)
  BY <1>2 DEF TreesOfOthersStay, disk
<1> QED
  BY <1>2, <1>4, <1>5, <1>6, <1>7, Pieces, MakeStep DEF rows, disk

LEMMA InspectInv == ASSUME Inv, NEW s \in Sessions, Inspect(s) PROVE Inv'
<1> USE Facts
<1>1. make[s].pc = "inspect" /\ UNCHANGED <<rows, disk, del, kept, excused, lost, work>>
  BY DEF Inspect
<1>2. CASE Goes(s, "over")
  BY <1>1, <1>2, OverStep DEF rows
<1>3. ASSUME NEW pc \in {"check", "select", "clone"}, Goes(s, pc),
             make[s].strategy = "new" <=> pc = "check"
      PROVE  Inv'
  <2>1. /\ make'[s].pc = pc /\ make'[s].name = make[s].name
        /\ make'[s].strategy = make[s].strategy
    BY <1>3, GoesMake DEF MakePc
  <2>2. Creation(s)' /\ Claims(s)'
    BY <1>1, <1>3, <2>1 DEF Creation, Claims, MadePc, Late, rows
  <2>3. s \notin excused' => Owns(s)'
    BY <1>1, <2>1 DEF Owns, MadePc, Stands, disk, rows
  <2> QED
    BY <1>1, <1>3, <2>2, <2>3, GoesStep DEF MakePc, rows
<1>4. CASE Goes(s, FirstStep(make[s].strategy))
  <2>1. make[s].strategy \in {"none", "new", "existing", "planning"}
    BY Pieces DEF MakeType
  <2>2. CASE make[s].strategy = "new"
    BY <1>3, <1>4, <2>2 DEF FirstStep
  <2>3. CASE make[s].strategy = "existing"
    BY <1>3, <1>4, <2>3 DEF FirstStep
  <2>4. CASE make[s].strategy = "planning"
    BY <1>3, <1>4, <2>4 DEF FirstStep
  <2> QED
    BY <1>1, <2>1, <2>2, <2>3, <2>4 DEF Creation
<1> QED
  BY <1>2, <1>4 DEF Inspect

LEMMA CheckInv == ASSUME Inv, NEW s \in Sessions, Check(s) PROVE Inv'
<1> USE Facts
<1>1. make[s].pc = "check" /\ UNCHANGED <<rows, disk, del, kept, excused, lost, work>>
  BY DEF Check
<1>2. CASE Goes(s, "over")
  BY <1>1, <1>2, OverStep DEF rows
<1>3. ASSUME NEW n \in Names, make' = [make EXCEPT ![s].pc = "add", ![s].name = n]
      PROVE  Inv'
  <2> DEFINE m == [make[s] EXCEPT !.pc = "add", !.name = n]
  <2>1. m \in MakeType /\ m.pc = "add" /\ m.name = n /\ m.strategy = make[s].strategy
    BY Pieces DEF MakeType, MakePc
  <2>2. make' = [make EXCEPT ![s] = m]
    BY <1>3, Pieces
  <2> HIDE DEF m
  <2>3. /\ make' \in [Sessions -> MakeType] /\ \A q \in Sessions \ {s} : make'[q] = make[q]
        /\ make'[s].pc = "add" /\ make'[s].name = n /\ make'[s].strategy = make[s].strategy
    BY <2>1, <2>2, Pieces
  <2>4. Creation(s)' /\ Claims(s)'
    BY <1>1, <2>3 DEF Creation, Claims, MadePc, Late, rows
  <2>5. s \notin excused' => Owns(s)'
    BY <1>1, <2>3 DEF Owns, Creation, Deletion, DeleteType, MadePc, Stands, Late, disk, rows
  <2>6. TreesOfOthersStay(s)
    BY <1>1 DEF TreesOfOthersStay, disk
  <2>7. row[s] = "none" /\ row'[s] = row[s]
    BY <1>1 DEF Creation, Late, rows
  <2> QED
    BY <1>1, <2>3, <2>4, <2>5, <2>6, <2>7, Pieces, MakeStep DEF rows, disk
<1> QED
  BY <1>2, <1>3 DEF Check

\* git makes the tree under a name that is free, or fails half way.
LEMMA AddTreeInv == ASSUME Inv, NEW s \in Sessions, AddTree(s) PROVE Inv'
<1> USE Facts
<1> DEFINE n == make[s].name
<1>1. /\ make[s].pc = "add" /\ make[s].strategy = "new" /\ n \in Names /\ row[s] = "none"
      /\ UNCHANGED <<rows, files, spaces, del, kept, lost, work>>
  BY DEF AddTree, Creation, Late
<1>2. CASE Free(n) /\ tree' = [tree EXCEPT ![n] = Cut(s)] /\ Goes(s, "validate")
           /\ UNCHANGED excused
  <2>1. /\ make'[s].pc = "validate" /\ make'[s].name = n
        /\ make'[s].strategy = "new" /\ make' \in [Sessions -> MakeType]
        /\ \A q \in Sessions \ {s} : make'[q] = make[q]
    BY <1>1, <1>2, GoesMake DEF MakePc
  <2>2. /\ tree' \in [Names -> TreeType] /\ tree'[n].by = s
        /\ tree'[n].dirty = 0 /\ tree'[n].ahead = 0
        /\ \A k \in Names \ {n} : tree'[k] = tree[k]
    BY <1>1, <1>2, CutType, Pieces
  <2>3. TreesOfOthersStay(s)
    BY <2>2, WorkspacesAssumption DEF TreesOfOthersStay
  <2>4. Creation(s)'
    BY <1>1, <2>1 DEF Creation, Late, rows
  <2>5. Claims(s)'
    BY <1>1, <2>1, <2>2, WorkspacesAssumption DEF Claims
  <2>6. s \notin excused' => Owns(s)'
    BY <1>1, <1>2, <2>1, <2>2 DEF Owns, Creation, Deletion, MadePc, Stands, Late, rows
  <2> QED
    BY <1>1, <1>2, <2>1, <2>2, <2>3, <2>4, <2>5, <2>6, Pieces, MakeStep DEF rows
<1>3. CASE ~Free(n) /\ (Goes(s, "check") \/ Goes(s, "over")) /\ UNCHANGED <<tree, excused>>
  <2>1. CASE Goes(s, "over")
    BY <1>1, <1>3, <2>1, OverStep DEF rows, disk
  <2>2. CASE Goes(s, "check")
    <3>1. /\ make'[s].pc = "check" /\ make'[s].name = n
          /\ make'[s].strategy = "new"
      BY <1>1, <2>2, GoesMake DEF MakePc
    <3>2. Creation(s)' /\ Claims(s)'
      BY <1>1, <3>1 DEF Creation, Claims, MadePc, Late, rows
    <3>3. s \notin excused' => Owns(s)'
      BY <1>1, <1>3, <3>1 DEF Owns, MadePc, Stands, rows
    <3> QED
      BY <1>1, <1>3, <2>2, <3>2, <3>3, GoesStep DEF MakePc, rows, disk
  <2> QED
    BY <1>3, <2>1, <2>2
<1>4. ASSUME NEW pc \in {"check", "over"}, Goes(s, pc), Free(n),
             tree' = [tree EXCEPT ![n].branch = TRUE, ![n].by = s],
             excused' = excused \cup {s}
      PROVE  Inv'
  <2> DEFINE t == [tree[n] EXCEPT !.branch = TRUE, !.by = s]
  <2>1. /\ t \in TreeType /\ t.by = s
        /\ t.dirty = tree[n].dirty /\ t.ahead = tree[n].ahead
    BY <1>1, Pieces DEF TreeType
  <2>2. tree' = [tree EXCEPT ![n] = t]
    BY <1>1, <1>4, Pieces
  <2> HIDE DEF t
  <2>3. /\ tree' \in [Names -> TreeType] /\ TreesOfOthersStay(s)
    BY <1>1, <2>1, <2>2, Pieces, WorkspacesAssumption DEF TreesOfOthersStay
  <2>4. /\ make'[s].pc = pc /\ make' \in [Sessions -> MakeType]
        /\ make'[s].strategy = "new"
        /\ \A q \in Sessions \ {s} : make'[q] = make[q]
        /\ excused \subseteq excused' /\ s \in excused'
    BY <1>1, <1>4, GoesMake DEF MakePc
  <2>5. Creation(s)' /\ Claims(s)'
    BY <1>1, <2>4 DEF Creation, Claims, MadePc, Late, rows
  <2> QED
    BY <1>1, <2>3, <2>4, <2>5, Pieces, MakeStep DEF rows
<1> QED
  BY <1>2, <1>3, <1>4 DEF AddTree

LEMMA ValidateInv == ASSUME Inv, NEW s \in Sessions, Validate(s) PROVE Inv'
<1> USE Facts
<1>1. make[s].pc = "validate" /\ UNCHANGED <<rows, disk, del, kept, lost, work>>
  BY DEF Validate
<1>2. CASE FailsWith(s)
  BY <1>1, <1>2, OverStep DEF FailsWith, rows
<1>3. CASE Goes(s, "room") /\ UNCHANGED excused
  <2>1. /\ make'[s].pc = "room" /\ make'[s].name = make[s].name
        /\ make'[s].strategy = make[s].strategy
    BY <1>3, GoesMake DEF MakePc
  <2>2. Creation(s)'
    BY <1>1, <2>1 DEF Creation, Late, rows
  <2>3. Claims(s)'
    BY <1>1, <2>1 DEF Claims, MadePc, disk
  <2>4. s \notin excused' => Owns(s)'
    BY <1>1, <1>3, <2>1 DEF Owns, MadePc, Stands, disk, rows
  <2> QED
    BY <1>1, <1>3, <2>2, <2>3, <2>4, GoesStep DEF MakePc, rows
<1> QED
  BY <1>2, <1>3 DEF Validate

\* A tree that was selected is nobody's claim.
LEMMA SelectInv == ASSUME Inv, NEW s \in Sessions, Select(s) PROVE Inv'
<1> USE Facts
<1>1. /\ make[s].pc = "select" /\ make[s].strategy # "new"
      /\ UNCHANGED <<rows, disk, del, kept, excused, lost, work>>
  BY DEF Select, Creation
<1>2. CASE Goes(s, "over")
  BY <1>1, <1>2, OverStep DEF rows
<1>3. CASE Goes(s, "room")
  <2>1. make'[s].pc = "room" /\ make'[s].strategy = make[s].strategy
    BY <1>3, GoesMake DEF MakePc
  <2>2. Creation(s)' /\ Claims(s)'
    BY <1>1, <2>1 DEF Creation, Claims, Late, rows
  <2>3. s \notin excused' => Owns(s)'
    BY <1>1, <2>1 DEF Owns, MadePc, Stands, disk, rows
  <2> QED
    BY <1>1, <1>3, <2>2, <2>3, GoesStep DEF MakePc, rows
<1> QED
  BY <1>2, <1>3 DEF Select

LEMMA CloneWorkspaceInv == ASSUME Inv, NEW s \in Sessions, CloneWorkspace(s) PROVE Inv'
<1> USE Facts
<1>1. /\ make[s].pc = "clone" /\ make[s].strategy # "new" /\ row[s] = "none"
      /\ UNCHANGED <<rows, tree, files, del, kept, lost, work>>
  BY DEF CloneWorkspace, Creation, Late
<1>2. TreesOfOthersStay(s)
  BY <1>1 DEF TreesOfOthersStay
<1>3. CASE Goes(s, "over") /\ UNCHANGED <<spaces, excused>>
  BY <1>1, <1>3, OverStep DEF rows, disk
<1>4. CASE spaces' = spaces \cup {s} /\ FailsWith(s)
  <2>1. /\ make'[s].pc = "over" /\ make' \in [Sessions -> MakeType]
        /\ \A q \in Sessions \ {s} : make'[q] = make[q]
        /\ excused \subseteq excused' /\ s \in excused'
    BY <1>4, GoesMake DEF MakePc, FailsWith
  <2>2. Creation(s)' /\ Claims(s)'
    BY <1>1, <2>1 DEF Creation, Claims, MadePc, Late, rows
  <2> QED
    BY <1>1, <1>2, <1>4, <2>1, <2>2, Pieces, MakeStep DEF rows
<1>5. CASE spaces' = spaces \cup {s} /\ Goes(s, "room") /\ UNCHANGED excused
  <2>1. /\ make'[s].pc = "room" /\ make' \in [Sessions -> MakeType]
        /\ \A q \in Sessions \ {s} : make'[q] = make[q]
        /\ make'[s].strategy = make[s].strategy
    BY <1>5, GoesMake DEF MakePc
  <2>2. Creation(s)' /\ Claims(s)'
    BY <1>1, <2>1 DEF Creation, Claims, Late, rows
  <2>3. s \notin excused' => Owns(s)'
    BY <1>1, <1>5, <2>1 DEF Owns, MadePc, Stands, rows
  <2> QED
    BY <1>1, <1>2, <1>5, <2>1, <2>2, <2>3, Pieces, MakeStep DEF rows
<1> QED
  BY <1>3, <1>4, <1>5 DEF CloneWorkspace

\* The room comes before the row of its session.
LEMMA CreateRoomInv == ASSUME Inv, NEW s \in Sessions, CreateRoom(s) PROVE Inv'
<1> USE Facts
<1>1. /\ make[s].pc = "room" /\ row[s] = "none"
      /\ UNCHANGED <<row, drafts, disk, del, kept, excused, lost, work>>
  BY DEF CreateRoom, Creation, Late
<1>2. TreesOfOthersStay(s)
  BY <1>1 DEF TreesOfOthersStay, disk
<1>3. ASSUME NEW pc \in {"files", "undo_tree"}, Goes(s, pc), rooms' \subseteq rooms \cup {s},
             pc = "files" \/ rooms' = rooms
      PROVE  Inv'
  <2>1. /\ make'[s].pc = pc /\ make' \in [Sessions -> MakeType]
        /\ \A q \in Sessions \ {s} : make'[q] = make[q]
        /\ make'[s].strategy = make[s].strategy /\ make'[s].name = make[s].name
    BY <1>3, GoesMake DEF MakePc
  <2>2. Creation(s)' /\ Claims(s)'
    BY <1>1, <1>3, <2>1 DEF Creation, Claims, Late, MadePc, disk
  <2>3. s \notin excused' => Owns(s)'
    BY <1>1, <1>3, <2>1 DEF Owns, MadePc, Stands, disk
  <2> QED
    BY <1>1, <1>2, <1>3, <2>1, <2>2, <2>3, Pieces, MakeStep DEF disk
<1> QED
  BY <1>3 DEF CreateRoom

LEMMA WriteRoomFilesInv == ASSUME Inv, NEW s \in Sessions, WriteRoomFiles(s) PROVE Inv'
<1> USE Facts
<1>1. /\ make[s].pc = "files" /\ row[s] = "none" /\ files' = files \cup {s}
      /\ UNCHANGED <<rows, tree, spaces, del, kept, lost, work>>
  BY DEF WriteRoomFiles, Creation, Late
<1>2. TreesOfOthersStay(s)
  BY <1>1 DEF TreesOfOthersStay
<1>3. ASSUME NEW pc \in {"insert", "undo_tree"}, Goes(s, pc), excused \subseteq excused',
             (pc = "insert" /\ excused' = excused) \/ s \in excused'
      PROVE  Inv'
  <2>1. /\ make'[s].pc = pc /\ make' \in [Sessions -> MakeType]
        /\ \A q \in Sessions \ {s} : make'[q] = make[q]
        /\ make'[s].strategy = make[s].strategy /\ make'[s].name = make[s].name
    BY <1>3, GoesMake DEF MakePc
  <2>2. Creation(s)' /\ Claims(s)'
    BY <1>1, <1>3, <2>1 DEF Creation, Claims, Late, MadePc, rows
  <2>3. s \notin excused' => Owns(s)'
    BY <1>1, <1>3, <2>1 DEF Owns, MadePc, Stands, rows
  <2> QED
    BY <1>1, <1>2, <1>3, <2>1, <2>2, <2>3, Pieces, MakeStep DEF rows
<1> QED
  BY <1>3 DEF WriteRoomFiles

\* With the row of the session, everything it has is its own.
LEMMA InsertInv == ASSUME Inv, NEW s \in Sessions, Insert(s) PROVE Inv'
<1> USE Facts
<1>1. /\ make[s].pc = "insert" /\ row[s] = "none"
      /\ UNCHANGED <<rooms, drafts, disk, del, kept, excused, lost, work>>
  BY DEF Insert, Creation, Late
<1>2. TreesOfOthersStay(s)
  BY <1>1 DEF TreesOfOthersStay, disk
<1>3. ASSUME NEW pc \in {"contract", "undo_room"}, Goes(s, pc),
             NEW r \in {"none", "live"}, row' = [row EXCEPT ![s] = r],
             r = "live" <=> pc = "contract"
      PROVE  Inv'
  <2>1. /\ make'[s].pc = pc /\ make' \in [Sessions -> MakeType]
        /\ \A q \in Sessions \ {s} : make'[q] = make[q]
        /\ make'[s].strategy = make[s].strategy /\ make'[s].name = make[s].name
    BY <1>3, GoesMake DEF MakePc
  <2>2. /\ row' \in [Sessions -> {"none", "live", "ended", "gone"}] /\ row'[s] = r
        /\ \A q \in Sessions \ {s} : row'[q] = row[q]
    BY <1>3, Pieces
  <2>3. Creation(s)' /\ Claims(s)'
    BY <1>1, <1>3, <2>1, <2>2 DEF Creation, Claims, Late, MadePc, disk
  <2>4. s \notin excused' => Owns(s)'
    BY <1>1, <1>3, <2>1, <2>2 DEF Owns, MadePc, Stands, disk
  <2> QED
    BY <1>1, <1>2, <1>3, <2>1, <2>2, <2>3, <2>4, Pieces, MakeStep DEF disk
<1>4. row = [row EXCEPT ![s] = "none"]
  BY <1>1, Pieces
<1> QED
  BY <1>3, <1>4 DEF Insert

\* The rows of the room go, or the session is excused for what is left.
LEMMA UndoRoomInv == ASSUME Inv, NEW s \in Sessions, UndoRoom(s) PROVE Inv'
<1> USE Facts
<1>1. /\ make[s].pc = "undo_room" /\ row[s] = "none"
      /\ UNCHANGED <<row, drafts, disk, del, kept, lost, work>>
  BY DEF UndoRoom, Creation, Late
<1>2. CASE rooms' = rooms \ {s} /\ Goes(s, "undo_files") /\ UNCHANGED excused
  <2>1. TreesOfOthersStay(s)
    BY <1>1 DEF TreesOfOthersStay, disk
  <2>2. /\ make'[s].pc = "undo_files" /\ make' \in [Sessions -> MakeType]
        /\ \A q \in Sessions \ {s} : make'[q] = make[q]
        /\ make'[s].strategy = make[s].strategy /\ make'[s].name = make[s].name
    BY <1>2, GoesMake DEF MakePc
  <2>3. Creation(s)' /\ Claims(s)'
    BY <1>1, <2>2 DEF Creation, Claims, Late, MadePc, disk
  <2>4. s \notin excused' => Owns(s)'
    BY <1>1, <1>2, <2>2 DEF Owns, MadePc, Stands, disk
  <2> QED
    BY <1>1, <1>2, <2>1, <2>2, <2>3, <2>4, Pieces, MakeStep DEF disk
<1>3. CASE FailsWith(s) /\ UNCHANGED rooms
  BY <1>1, <1>3, OverStep DEF FailsWith
<1> QED
  BY <1>2, <1>3 DEF UndoRoom

LEMMA UndoFilesInv == ASSUME Inv, NEW s \in Sessions, UndoFiles(s) PROVE Inv'
<1> USE Facts
<1>1. /\ make[s].pc = "undo_files" /\ row[s] = "none"
      /\ UNCHANGED <<rows, tree, spaces, del, kept, lost, work>>
  BY DEF UndoFiles, Creation, Late
<1>2. CASE files' = files \ {s} /\ Goes(s, "undo_tree") /\ UNCHANGED excused
  <2>1. TreesOfOthersStay(s)
    BY <1>1 DEF TreesOfOthersStay
  <2>2. /\ make'[s].pc = "undo_tree" /\ make' \in [Sessions -> MakeType]
        /\ \A q \in Sessions \ {s} : make'[q] = make[q]
        /\ make'[s].strategy = make[s].strategy /\ make'[s].name = make[s].name
    BY <1>2, GoesMake DEF MakePc
  <2>3. Creation(s)' /\ Claims(s)'
    BY <1>1, <2>2 DEF Creation, Claims, Late, MadePc, rows
  <2>4. s \notin excused' => Owns(s)'
    BY <1>1, <1>2, <2>2 DEF Owns, MadePc, Stands, rows
  <2> QED
    BY <1>1, <1>2, <2>1, <2>2, <2>3, <2>4, Pieces, MakeStep DEF rows
<1>3. CASE FailsWith(s) /\ UNCHANGED files
  BY <1>1, <1>3, OverStep DEF FailsWith, rows, disk
<1> QED
  BY <1>2, <1>3 DEF UndoFiles

\* The last of the undoing: a tree that was made goes, or is excused.
LEMMA UndoTreeInv == ASSUME Inv, NEW s \in Sessions, UndoTree(s) PROVE Inv'
<1> USE Facts
<1>1. /\ make[s].pc = "undo_tree" /\ row[s] = "none" /\ spaces' = spaces \ {s}
      /\ UNCHANGED <<rows, files, del, kept, lost, work>>
  BY DEF UndoTree, Creation, Late
<1>2. /\ make'[s].pc = "over" /\ make' \in [Sessions -> MakeType]
      /\ \A q \in Sessions \ {s} : make'[q] = make[q]
      /\ make'[s].strategy = make[s].strategy /\ make'[s].name = make[s].name
  BY GoesMake DEF MakePc, UndoTree
<1>3. Creation(s)' /\ Claims(s)'
  BY <1>1, <1>2 DEF Creation, Claims, Late, MadePc, rows
<1>4. /\ tree' \in [Names -> TreeType] /\ TreesOfOthersStay(s) /\ excused \subseteq excused'
      /\ s \notin excused' =>
            \A n \in Names : tree'[n].by = s => s \in kept
  <2>1. CASE make[s].strategy = "new"
    <3>1. make[s].name \in Names /\ Removes(make[s].name, s)
      BY <1>1, <2>1 DEF UndoTree, Claims, MadePc
    <3>2. /\ tree' \in [Names -> TreeType] /\ TreesOfOthersStay(s) /\ excused \subseteq excused'
          /\ \A k \in Names \ {make[s].name} : tree'[k] = tree[k]
          /\ s \notin excused' => tree'[make[s].name].by = Nobody
      BY <3>1, RemovesTree
    <3>3. ASSUME s \notin excused', NEW n \in Names, tree'[n].by = s PROVE s \in kept
      <4>1. s \notin excused /\ n # make[s].name /\ tree[n].by = s
        BY <3>2, <3>3, WorkspacesAssumption
      <4> QED
        BY <4>1 DEF Owns
    <3> QED
      BY <3>2, <3>3
  <2>2. CASE make[s].strategy # "new"
    <3>1. UNCHANGED <<tree, excused>>
      BY <2>2 DEF UndoTree
    <3>2. TreesOfOthersStay(s)
      BY <3>1 DEF TreesOfOthersStay
    <3>3. s \notin excused' => \A n \in Names : tree'[n].by = s => s \in kept
      BY <2>2, <3>1 DEF Owns
    <3> QED
      BY <3>1, <3>2, <3>3, Pieces
  <2> QED
    BY <2>1, <2>2
<1>5. s \notin excused' => Owns(s)'
  BY <1>1, <1>2, <1>4 DEF Owns, Stands, MadePc, rows
<1> QED
  BY <1>1, <1>2, <1>3, <1>4, <1>5, Pieces, MakeStep DEF rows

LEMMA IssueContractInv == ASSUME Inv, NEW s \in Sessions, IssueContract(s) PROVE Inv'
<1> USE Facts
<1>1. make[s].pc = "contract" /\ UNCHANGED <<rows, disk, del, kept, excused, lost, work>>
  BY DEF IssueContract
<1>2. CASE Goes(s, "over")
  BY <1>1, <1>2, OverStep DEF Late, rows
<1>3. CASE Goes(s, "draft")
  <2>1. /\ make'[s].pc = "draft" /\ make'[s].name = make[s].name
        /\ make'[s].strategy = make[s].strategy
    BY <1>3, GoesMake DEF MakePc
  <2>2. Creation(s)' /\ Claims(s)'
    BY <1>1, <2>1 DEF Creation, Claims, Late, MadePc, rows, disk
  <2>3. s \notin excused' => Owns(s)'
    BY <1>1, <2>1 DEF Owns, MadePc, Stands, disk, rows
  <2> QED
    BY <1>1, <1>3, <2>2, <2>3, GoesStep DEF MakePc, rows
<1> QED
  BY <1>2, <1>3 DEF IssueContract

LEMMA DeleteDraftInv == ASSUME Inv, NEW s \in Sessions, DeleteDraft(s) PROVE Inv'
BY OverStep DEF DeleteDraft, Late

-----------------------------------------------------------------------------
(* The deletion of a session.                                              *)

\* A step of a deletion leaves every creation as it is.
LEMMA DeleteStep ==
    ASSUME Inv, NEW s \in Sessions,
           del' \in [Sessions -> DeleteType], \A q \in Sessions \ {s} : del'[q] = del[q],
           tree' \in [Names -> TreeType], TreesOfOthersStay(s),
           row' \in [Sessions -> {"none", "live", "ended", "gone"}],
           \A q \in Sessions \ {s} : row'[q] = row[q],
           row[s] # "none", row'[s] # "none",
           rooms' \subseteq rooms, files' \subseteq files, spaces' \subseteq spaces,
           UNCHANGED <<make, drafts, work>>, excused \subseteq excused', kept \subseteq kept',
           WorkIsKept', Deletion(s)', Found(s)', s \notin excused' => Owns(s)'
    PROVE  Inv'
<1>1. TypeOK /\ Creation(s) /\ Claims(s)
  BY Facts
<1>2. TypeOK'
  BY <1>1, Pieces, TypeNext
<1>3. Creation(s)'
  BY <1>1 DEF Creation
<1>4. Claims(s)'
  BY <1>1 DEF Claims, TreesOfOthersStay
<1>5. Whole(s)'
  BY <1>3, <1>4 DEF Whole
<1> QED
  BY <1>2, <1>5, SessionStep

LEMMA FinishInv == ASSUME Inv, NEW s \in Sessions, Finish(s) PROVE Inv'
<1> USE Facts
<1>1. /\ row[s] = "live" /\ row' = [row EXCEPT ![s] = "ended"]
      /\ UNCHANGED <<rooms, drafts, disk, make, del, kept, excused, lost, work>>
  BY DEF Finish
<1>2. /\ row' \in [Sessions -> {"none", "live", "ended", "gone"}] /\ row'[s] = "ended"
      /\ \A q \in Sessions \ {s} : row'[q] = row[q]
  BY <1>1, Pieces
<1>3. Deletion(s)' /\ Found(s)'
  BY <1>1, <1>2 DEF Deletion, Found, Tree, Asking, disk
<1>4. s \notin excused' => Owns(s)'
  BY <1>1, <1>2 DEF Owns, Stands, disk
<1>5. TreesOfOthersStay(s) /\ WorkIsKept'
  BY <1>1 DEF TreesOfOthersStay, WorkIsKept, Inv, disk
<1> QED
  BY <1>1, <1>2, <1>3, <1>4, <1>5, Pieces, DeleteStep DEF disk

\* A question to git changes the call of the deletion only.
LEMMA ReadsInv ==
    ASSUME Inv, NEW s \in Sessions, NEW d \in DeleteType, Reads(s, d), row[s] = "ended",
           d.pc \in Asking \cup {"rows"}, d.pc \in Asking => ~d.remove,
           d.pc \in Asking \/ d.remove => make[s].strategy = "new",
           d.changes <= work, d.commits <= work,
           d.pc \in {"upstream", "commits"} \/ d.remove =>
              (d.status = "seen" /\ Tree(s).dirty # 0 => Tree(s).dirty > d.changes),
           d.remove => (d.log = "seen" /\ Tree(s).ahead # 0 => Tree(s).ahead > d.commits)
    PROVE  Inv'
<1> USE Facts
<1>1. /\ del' = [del EXCEPT ![s] = d]
      /\ UNCHANGED <<rows, disk, make, kept, excused, lost, work>>
  BY DEF Reads
<1>2. /\ del' \in [Sessions -> DeleteType] /\ \A q \in Sessions \ {s} : del'[q] = del[q]
      /\ del'[s] = d
  BY <1>1, Pieces
<1>3. Deletion(s)'
  BY <1>1, <1>2 DEF Deletion, Asking, rows
<1>4. Found(s)'
  BY <1>1, <1>2 DEF Found, Tree, disk
<1>5. s \notin excused' => Owns(s)'
  BY <1>1, <1>2 DEF Owns, Stands, Asking, rows, disk
<1>6. TreesOfOthersStay(s) /\ WorkIsKept'
  BY <1>1 DEF TreesOfOthersStay, WorkIsKept, Inv, disk
<1> QED
  BY <1>1, <1>2, <1>3, <1>4, <1>5, <1>6, Pieces, DeleteStep DEF rows, disk

LEMMA ReadForDeleteInv == ASSUME Inv, NEW s \in Sessions, ReadForDelete(s) PROVE Inv'
<1> USE Facts
<1>1. PICK pc \in {"status", "rows"} :
         /\ row[s] = "ended" /\ Reads(s, [NoDelete EXCEPT !.pc = pc])
         /\ pc = "status" => make[s].strategy = "new"
  BY DEF ReadForDelete
<1> DEFINE d == [NoDelete EXCEPT !.pc = pc]
<1>2. /\ d \in DeleteType /\ d.pc = pc /\ ~d.remove /\ d.changes = 0 /\ d.commits = 0
  BY DEF NoDelete, DeleteType, DelPc
<1>3. Reads(s, d) /\ 0 <= work
  BY <1>1, Pieces
<1> HIDE DEF d
<1> QED
  BY <1>1, <1>2, <1>3, ReadsInv DEF Asking

\* The tree has no changes now, or git cannot tell.
LEMMA ReadStatusInv == ASSUME Inv, NEW s \in Sessions, ReadStatus(s) PROVE Inv'
<1> USE Facts
<1>1. PICK pc \in {"upstream", "rows"}, status \in {"seen", "failed"} :
         /\ Reads(s, [del[s] EXCEPT !.pc = pc, !.status = status, !.changes = work])
         /\ pc = "upstream" /\ status = "seen" => Tree(s).dirty = 0
  BY DEF ReadStatus
<1> DEFINE d == [del[s] EXCEPT !.pc = pc, !.status = status, !.changes = work]
<1>2. /\ del[s].pc = "status" /\ row[s] = "ended" /\ make[s].strategy = "new"
      /\ ~del[s].remove /\ del[s].commits <= work /\ work \in Nat
  BY Pieces DEF ReadStatus, Deletion, Asking, Found
<1>3. /\ d \in DeleteType /\ d.pc = pc /\ d.remove = del[s].remove /\ d.status = status
      /\ d.changes = work /\ d.commits = del[s].commits
  BY <1>2, Pieces DEF DeleteType, DelPc
<1>4. Reads(s, d)
  BY <1>1
<1> HIDE DEF d
<1> QED
  BY <1>1, <1>2, <1>3, <1>4, ReadsInv DEF Asking

LEMMA ReadUpstreamInv == ASSUME Inv, NEW s \in Sessions, ReadUpstream(s) PROVE Inv'
<1> USE Facts
<1>1. PICK pc \in {"commits", "rows"} : Reads(s, [del[s] EXCEPT !.pc = pc])
  BY DEF ReadUpstream
<1> DEFINE d == [del[s] EXCEPT !.pc = pc]
<1>2. /\ del[s].pc = "upstream" /\ row[s] = "ended" /\ make[s].strategy = "new"
      /\ ~del[s].remove /\ del[s].changes <= work /\ del[s].commits <= work
      /\ del[s].status = "seen" /\ Tree(s).dirty # 0 => Tree(s).dirty > del[s].changes
  BY DEF ReadUpstream, Deletion, Asking, Found
<1>3. /\ d \in DeleteType /\ d.pc = pc /\ d.remove = del[s].remove
      /\ d.status = del[s].status /\ d.changes = del[s].changes /\ d.commits = del[s].commits
  BY Pieces DEF DeleteType, DelPc
<1>4. Reads(s, d)
  BY <1>1
<1> HIDE DEF d
<1> QED
  BY <1>1, <1>2, <1>3, <1>4, ReadsInv DEF Asking

\* A tree is taken away when its branch has nothing to push, or git says of
\* another branch, or of none, that it has not.
LEMMA ReadCommitsInv == ASSUME Inv, NEW s \in Sessions, ReadCommits(s) PROVE Inv'
<1> USE Facts
<1>1. PICK log \in {Log(Tree(s)), "failed"}, remove \in BOOLEAN :
         /\ log = "seen" => (remove <=> Tree(s).ahead = 0)
         /\ Reads(s, [del[s] EXCEPT !.pc = "rows", !.remove = remove, !.log = log,
                                    !.commits = work])
  BY DEF ReadCommits
<1> DEFINE d == [del[s] EXCEPT !.pc = "rows", !.remove = remove, !.log = log, !.commits = work]
<1>2. /\ del[s].pc = "commits" /\ row[s] = "ended" /\ make[s].strategy = "new"
      /\ del[s].changes <= work /\ work \in Nat
      /\ del[s].status = "seen" /\ Tree(s).dirty # 0 => Tree(s).dirty > del[s].changes
  BY Pieces DEF ReadCommits, Deletion, Asking, Found
<1>3. log \in {"none", "seen", "pruned", "elsewhere", "failed"}
  BY DEF Log
<1>4. /\ d \in DeleteType /\ d.pc = "rows" /\ d.remove = remove /\ d.log = log
      /\ d.status = del[s].status /\ d.changes = del[s].changes /\ d.commits = work
  BY <1>2, <1>3, Pieces DEF DeleteType, DelPc
<1>5. Reads(s, d)
  BY <1>1
<1> HIDE DEF d
<1> QED
  BY <1>1, <1>2, <1>4, <1>5, ReadsInv DEF Asking

\* From here on only the call of the deletion knows what is left.
LEMMA DeleteRowsInv == ASSUME Inv, NEW s \in Sessions, DeleteRows(s) PROVE Inv'
<1> USE Facts
<1>1. /\ del[s].pc = "rows" /\ row[s] = "ended"
      /\ UNCHANGED <<drafts, disk, make, excused, lost, work>>
  BY DEF DeleteRows, Deletion
<1>2. TreesOfOthersStay(s) /\ WorkIsKept'
  BY <1>1 DEF TreesOfOthersStay, WorkIsKept, Inv, disk
<1>3. CASE /\ del' = [del EXCEPT ![s].pc = "workspace"]
           /\ row' = [row EXCEPT ![s] = "gone"] /\ rooms' = rooms \ {s}
           /\ kept' = IF del[s].remove THEN kept ELSE kept \cup {s}
  <2>1. /\ del' \in [Sessions -> DeleteType] /\ del'[s].pc = "workspace"
        /\ del'[s].remove = del[s].remove
        /\ del'[s].status = del[s].status /\ del'[s].changes = del[s].changes
        /\ del'[s].log = del[s].log /\ del'[s].commits = del[s].commits
        /\ \A q \in Sessions \ {s} : del'[q] = del[q]
    BY <1>3, GoesDel DEF DelPc
  <2>2. /\ row' \in [Sessions -> {"none", "live", "ended", "gone"}] /\ row'[s] = "gone"
        /\ \A q \in Sessions \ {s} : row'[q] = row[q]
    BY <1>3, Pieces
  <2>3. kept \subseteq kept' /\ (del[s].remove \/ s \in kept')
    BY <1>3
  <2>4. Deletion(s)'
    BY <1>1, <2>1, <2>2, <2>3 DEF Deletion, Asking
  <2>5. Found(s)'
    BY <1>1, <2>1 DEF Found, Tree, disk
  <2>6. s \notin excused' => Owns(s)'
    BY <1>1, <1>3, <2>1, <2>2, <2>3 DEF Owns, Stands, disk
  <2> QED
    BY <1>1, <1>2, <1>3, <2>1, <2>2, <2>3, <2>4, <2>5, <2>6, Pieces, DeleteStep DEF disk
<1>4. CASE del' = [del EXCEPT ![s] = NoDelete] /\ UNCHANGED <<row, rooms, kept>>
  <2>1. /\ del' \in [Sessions -> DeleteType] /\ del'[s] = NoDelete
        /\ \A q \in Sessions \ {s} : del'[q] = del[q]
    BY <1>4, Pieces DEF NoDelete, DeleteType, DelPc
  <2>2. Deletion(s)' /\ Found(s)'
    BY <1>1, <2>1, Pieces DEF Deletion, Found, NoDelete, Asking
  <2>3. s \notin excused' => Owns(s)'
    BY <1>1, <1>4, <2>1 DEF Owns, Stands, disk
  <2> QED
    BY <1>1, <1>2, <1>4, <2>1, <2>2, <2>3, Pieces, DeleteStep DEF disk
<1> QED
  BY <1>3, <1>4 DEF DeleteRows

LEMMA RemoveWorkspaceInv == ASSUME Inv, NEW s \in Sessions, RemoveWorkspace(s) PROVE Inv'
<1> USE Facts
<1>1. /\ del[s].pc = "workspace" /\ row[s] = "gone" /\ spaces' = spaces \ {s}
      /\ del' = [del EXCEPT ![s].pc = "tree"]
      /\ UNCHANGED <<rows, tree, files, make, kept, excused, lost, work>>
  BY DEF RemoveWorkspace, Deletion
<1>2. /\ del' \in [Sessions -> DeleteType] /\ del'[s].pc = "tree"
      /\ del'[s].remove = del[s].remove
      /\ del'[s].status = del[s].status /\ del'[s].changes = del[s].changes
      /\ del'[s].log = del[s].log /\ del'[s].commits = del[s].commits
      /\ \A q \in Sessions \ {s} : del'[q] = del[q]
  BY <1>1, GoesDel DEF DelPc
<1>3. Deletion(s)' /\ Found(s)'
  BY <1>1, <1>2 DEF Deletion, Found, Tree, Asking, rows
<1>4. s \notin excused' => Owns(s)'
  BY <1>1, <1>2 DEF Owns, Stands, rows
<1>5. TreesOfOthersStay(s) /\ WorkIsKept'
  BY <1>1 DEF TreesOfOthersStay, WorkIsKept, Inv
<1> QED
  BY <1>1, <1>2, <1>3, <1>4, <1>5, Pieces, DeleteStep DEF rows

\* What goes with the tree is younger than what git had said of it, or git had
\* not said it of this tree's branch.
LEMMA RemoveTreeInv == ASSUME Inv, NEW s \in Sessions, RemoveTree(s) PROVE Inv'
<1> USE Facts
<1> DEFINE n == make[s].name
<1>1. /\ del[s].pc = "tree" /\ row[s] = "gone" /\ del' = [del EXCEPT ![s].pc = "files"]
      /\ UNCHANGED <<rows, files, spaces, make, kept, work>>
  BY DEF RemoveTree, Deletion
<1>2. /\ del' \in [Sessions -> DeleteType] /\ del'[s].pc = "files"
      /\ del'[s].remove = del[s].remove
      /\ del'[s].status = del[s].status /\ del'[s].changes = del[s].changes
      /\ del'[s].log = del[s].log /\ del'[s].commits = del[s].commits
      /\ \A q \in Sessions \ {s} : del'[q] = del[q]
  BY <1>1, GoesDel DEF DelPc
<1>3. Deletion(s)'
  BY <1>1, <1>2 DEF Deletion, Asking, rows
<1>4. /\ tree' \in [Names -> TreeType] /\ TreesOfOthersStay(s) /\ excused \subseteq excused'
      /\ s \notin excused' =>
            \A k \in Names : tree'[k].by = s => s \in kept
      /\ WorkIsKept'
  <2>1. CASE del[s].remove
    <3>1. n \in Names /\ Removes(n, s)
      BY <1>1, <2>1 DEF RemoveTree, Deletion, Claims
    <3>2. /\ tree' \in [Names -> TreeType] /\ TreesOfOthersStay(s) /\ excused \subseteq excused'
          /\ \A k \in Names \ {n} : tree'[k] = tree[k]
          /\ s \notin excused' => tree'[n].by = Nobody
      BY <3>1, RemovesTree
    <3>3. ASSUME s \notin excused', NEW k \in Names, tree'[k].by = s PROVE s \in kept
      <4>1. s \notin excused /\ k # n /\ tree[k].by = s
        BY <3>2, <3>3, WorkspacesAssumption
      <4> QED
        BY <4>1 DEF Owns
    <3>4. "seen" \notin Loss(s, Tree(s), tree'[n])
      <4>1. /\ Tree(s).dirty \in Nat /\ Tree(s).ahead \in Nat
            /\ del[s].changes \in Nat /\ del[s].commits \in Nat
        BY <3>1, Pieces DEF Tree, TreeType, DeleteType
      <4>2. "seen" \notin Said(Tree(s).dirty, del[s].changes, del[s].status)
        BY <2>1, <4>1 DEF Said, Found
      <4>3. "seen" \notin Said(Tree(s).ahead, del[s].commits, del[s].log)
        BY <2>1, <4>1 DEF Said, Found
      <4> QED
        BY <4>2, <4>3 DEF Loss
    <3>5. WorkIsKept'
      BY <2>1, <3>4 DEF RemoveTree, WorkIsKept, Inv
    <3> QED
      BY <3>2, <3>3, <3>5
  <2>2. CASE ~del[s].remove
    <3>1. UNCHANGED <<tree, excused, lost>> /\ s \in kept
      BY <1>1, <2>2 DEF RemoveTree, Deletion
    <3>2. TreesOfOthersStay(s) /\ WorkIsKept'
      BY <3>1 DEF TreesOfOthersStay, WorkIsKept, Inv
    <3> QED
      BY <3>1, <3>2, Pieces
  <2> QED
    BY <2>1, <2>2
<1>6. Found(s)'
  <2>1. del[s].remove => n \in Names
    BY <1>1 DEF Deletion, Claims
  <2> QED
    BY <1>1, <1>2, <1>4, <2>1 DEF Found, Tree, TreesOfOthersStay
<1>5. s \notin excused' => Owns(s)'
  BY <1>1, <1>2, <1>4 DEF Owns, Stands, rows
<1> QED
  BY <1>1, <1>2, <1>3, <1>4, <1>5, <1>6, Pieces, DeleteStep DEF rows

LEMMA RemoveFilesInv == ASSUME Inv, NEW s \in Sessions, RemoveFiles(s) PROVE Inv'
<1> USE Facts
<1>1. /\ del[s].pc = "files" /\ row[s] = "gone" /\ files' = files \ {s}
      /\ del' = [del EXCEPT ![s] = NoDelete]
      /\ UNCHANGED <<rows, tree, spaces, make, kept, excused, lost, work>>
  BY DEF RemoveFiles, Deletion
<1>2. /\ del' \in [Sessions -> DeleteType] /\ del'[s] = NoDelete
      /\ \A q \in Sessions \ {s} : del'[q] = del[q]
  BY <1>1, Pieces DEF NoDelete, DeleteType, DelPc
<1>3. Deletion(s)' /\ Found(s)'
  BY <1>1, <1>2, Pieces DEF Deletion, Found, NoDelete, Asking, rows
<1>4. s \notin excused' => Owns(s)'
  BY <1>1, <1>2 DEF Owns, Stands, rows
<1>5. TreesOfOthersStay(s) /\ WorkIsKept'
  BY <1>1 DEF TreesOfOthersStay, WorkIsKept, Inv
<1> QED
  BY <1>1, <1>2, <1>3, <1>4, <1>5, Pieces, DeleteStep DEF rows

-----------------------------------------------------------------------------
(* What happens from outside.                                              *)

\* Work in a tree makes it nobody else's; the user may remove it.
LEMMA WorksInv == ASSUME Inv, NEW n \in Names, Works(n) PROVE Inv'
<1>1. TypeOK /\ work \in Nat
  BY Pieces DEF Inv
<1> DEFINE Kept(t) == t = NoTree \/ (t.by = tree[n].by /\ t.on = tree[n].on)
           Young(t) == /\ t.dirty \in {0, tree[n].dirty, work + 1}
                       /\ t.ahead \in {0, tree[n].ahead, work + 1}
<1>2. \E t \in TreeType : tree' = [tree EXCEPT ![n] = t] /\ Kept(t) /\ Young(t)
  <2>1. ASSUME NEW dirty \in {0, tree[n].dirty, work + 1},
               NEW ahead \in {0, tree[n].ahead, work + 1},
               NEW upstream \in {"none", "tracked", "gone"}, NEW head \in {"own", "other"},
               tree' = [tree EXCEPT ![n] = [tree[n] EXCEPT !.dirty = dirty, !.ahead = ahead,
                                                           !.upstream = upstream, !.head = head]]
        PROVE  \E t \in TreeType : tree' = [tree EXCEPT ![n] = t] /\ Kept(t) /\ Young(t)
    <3> DEFINE t == [tree[n] EXCEPT !.dirty = dirty, !.ahead = ahead, !.upstream = upstream,
                                    !.head = head]
    <3>1. dirty \in Nat /\ ahead \in Nat
      BY <1>1, Pieces DEF TreeType
    <3>2. t \in TreeType /\ t.by = tree[n].by /\ t.on = tree[n].on
      BY <1>1, <3>1, Pieces DEF TreeType
    <3>3. t.dirty = dirty /\ t.ahead = ahead
      BY <1>1, Pieces DEF TreeType
    <3>4. tree' = [tree EXCEPT ![n] = t]
      BY <2>1
    <3> HIDE DEF t
    <3> QED
      BY <3>2, <3>3, <3>4
  <2>2. /\ tree[n] \in TreeType /\ tree[n].dirty \in Nat /\ tree[n].ahead \in Nat
        /\ tree[n].upstream \in {"none", "tracked", "gone"} /\ tree[n].head \in {"own", "other"}
        /\ Since(tree[n].dirty) \in {tree[n].dirty, work + 1}
        /\ Since(tree[n].ahead) \in {tree[n].ahead, work + 1}
    BY <1>1, Pieces DEF TreeType, Works, Since
  <2>3. CASE tree' = [tree EXCEPT ![n].dirty = Since(@)]
    <3>1. tree' = [tree EXCEPT ![n] = [tree[n] EXCEPT !.dirty = Since(tree[n].dirty), !.ahead = tree[n].ahead,
                                                      !.upstream = tree[n].upstream, !.head = tree[n].head]]
      BY <1>1, <2>2, <2>3, Pieces DEF TreeType
    <3> QED
      BY <2>1, <2>2, <3>1
  <2>4. CASE tree' = [tree EXCEPT ![n].dirty = 0, ![n].ahead = Since(@)]
    <3>1. tree' = [tree EXCEPT ![n] = [tree[n] EXCEPT !.dirty = 0, !.ahead = Since(tree[n].ahead),
                                                      !.upstream = tree[n].upstream, !.head = tree[n].head]]
      BY <1>1, <2>2, <2>4, Pieces DEF TreeType
    <3> QED
      BY <2>1, <2>2, <3>1
  <2>5. CASE tree' = [tree EXCEPT ![n].dirty = 0, ![n].ahead = @]
    <3>1. tree' = [tree EXCEPT ![n] = [tree[n] EXCEPT !.dirty = 0, !.ahead = tree[n].ahead,
                                                      !.upstream = tree[n].upstream, !.head = tree[n].head]]
      BY <1>1, <2>2, <2>5, Pieces DEF TreeType
    <3> QED
      BY <2>1, <2>2, <3>1
  <2>6. CASE tree' = [tree EXCEPT ![n].upstream = "tracked", ![n].ahead = 0]
    <3>1. tree' = [tree EXCEPT ![n] = [tree[n] EXCEPT !.dirty = tree[n].dirty, !.ahead = 0,
                                                      !.upstream = "tracked", !.head = tree[n].head]]
      BY <1>1, <2>2, <2>6, Pieces DEF TreeType
    <3> QED
      BY <2>1, <2>2, <3>1
  <2>7. CASE tree' = [tree EXCEPT ![n].upstream = "gone"]
    <3>1. tree' = [tree EXCEPT ![n] = [tree[n] EXCEPT !.dirty = tree[n].dirty, !.ahead = tree[n].ahead,
                                                      !.upstream = "gone", !.head = tree[n].head]]
      BY <1>1, <2>2, <2>7, Pieces DEF TreeType
    <3> QED
      BY <2>1, <2>2, <3>1
  <2>8. ASSUME NEW head \in {"own", "other"}, tree' = [tree EXCEPT ![n].head = head]
        PROVE  \E t \in TreeType : tree' = [tree EXCEPT ![n] = t] /\ Kept(t) /\ Young(t)
    <3>1. tree' = [tree EXCEPT ![n] = [tree[n] EXCEPT !.dirty = tree[n].dirty,
                                                      !.ahead = tree[n].ahead,
                                                      !.upstream = tree[n].upstream, !.head = head]]
      BY <1>1, <2>2, <2>8, Pieces DEF TreeType
    <3> QED
      BY <2>1, <2>2, <3>1
  <2>9. CASE tree' = [tree EXCEPT ![n] = NoTree]
    BY <2>9, NoTreeType
  <2> QED
    BY <2>3, <2>4, <2>5, <2>6, <2>7, <2>8, <2>9 DEF Works
<1>3. UNCHANGED <<rows, files, spaces, make, del, kept, excused, lost>> /\ work' = work + 1
  BY DEF Works
<1>4. /\ tree' \in [Names -> TreeType]
      /\ \A k \in Names : /\ tree'[k].by \in {tree[k].by, Nobody}
                          /\ tree'[k].on /\ tree'[k].by = Nobody
                               => tree[k].on /\ tree[k].by = Nobody
                          /\ tree'[k].dirty \in {0, tree[k].dirty, work + 1}
                          /\ tree'[k].ahead \in {0, tree[k].ahead, work + 1}
  <2>1. PICK t \in TreeType : tree' = [tree EXCEPT ![n] = t] /\ Kept(t) /\ Young(t)
    BY <1>2
  <2> QED
    BY <1>1, <2>1, NoTreeType, Pieces
<1>5. TypeOK'
  BY <1>1, <1>3, <1>4, Pieces, TypeNext DEF rows
<1>6. ASSUME NEW s \in Sessions PROVE Whole(s)'
  <2>1. Creation(s)' /\ Deletion(s)'
    BY <1>3, Facts DEF Creation, Deletion, rows
  <2>2. Claims(s)'
    BY <1>3, <1>4, Facts DEF Claims, rows
  <2>3. s \notin excused' => Owns(s)'
    <3>1. \A k \in Names : tree'[k].by = s => tree[k].by = s
      BY <1>4, WorkspacesAssumption
    <3> QED
      BY <1>3, <3>1, Facts DEF Owns, Stands, rows
  <2>4. Found(s)'
    <3>1. /\ make'[s] = make[s] /\ del'[s] = del[s]
          /\ del[s].changes \in Nat /\ del[s].commits \in Nat
      BY <1>1, <1>3, Pieces DEF DeleteType
    <3>2. del[s].pc \in {"upstream", "commits"} \/ del[s].remove => make[s].name \in Names
      BY <1>1, Pieces, Facts DEF Deletion, Claims, Asking, DeleteType, DelPc
    <3>3. del'[s].changes <= work' /\ del'[s].commits <= work'
      BY <1>1, <1>3, <3>1, Facts DEF Found
    <3>4. ASSUME make[s].name \in Names,
                 del[s].status = "seen" /\ Tree(s).dirty # 0 => Tree(s).dirty > del[s].changes
          PROVE  (del[s].status = "seen" /\ Tree(s).dirty # 0 => Tree(s).dirty > del[s].changes)'
      BY <1>1, <1>3, <1>4, <3>1, <3>4, Facts DEF Found, Tree
    <3>5. ASSUME make[s].name \in Names,
                 del[s].log = "seen" /\ Tree(s).ahead # 0 => Tree(s).ahead > del[s].commits
          PROVE  (del[s].log = "seen" /\ Tree(s).ahead # 0 => Tree(s).ahead > del[s].commits)'
      BY <1>1, <1>3, <1>4, <3>1, <3>5, Facts DEF Found, Tree
    <3> QED
      BY <3>1, <3>2, <3>3, <3>4, <3>5, Facts DEF Found
  <2> QED
    BY <2>1, <2>2, <2>3, <2>4 DEF Whole
<1> QED
  BY <1>3, <1>5, <1>6 DEF Inv, WorkIsKept

LEMMA CrashInv == ASSUME Inv, NEW s \in Sessions, Crash(s) PROVE Inv'
<1> USE Facts
<1>1. CASE Goes(s, "over") /\ UNCHANGED del
  BY <1>1, OverStep DEF Crash, rows
<1>2. CASE del[s].pc # "idle" /\ del' = [del EXCEPT ![s] = NoDelete] /\ UNCHANGED make
  <2>1. /\ del' \in [Sessions -> DeleteType] /\ del'[s] = NoDelete
        /\ \A q \in Sessions \ {s} : del'[q] = del[q]
    BY <1>2, Pieces DEF NoDelete, DeleteType, DelPc
  <2>2. row[s] # "none"
    BY <1>2, Pieces DEF Deletion, DeleteType, DelPc, Asking
  <2>3. Deletion(s)' /\ Found(s)'
    BY <2>1, Pieces DEF Deletion, Found, NoDelete, Asking, Crash
  <2>4. TreesOfOthersStay(s) /\ WorkIsKept' /\ s \in excused' /\ excused \subseteq excused'
    BY DEF TreesOfOthersStay, WorkIsKept, Inv, Crash, disk
  <2> QED
    BY <1>2, <2>1, <2>2, <2>3, <2>4, Pieces, DeleteStep DEF Crash, rows, disk
<1> QED
  BY <1>1, <1>2 DEF Crash

LEMMA StutterInv == ASSUME Inv, UNCHANGED vars PROVE Inv'
<1>1. TypeOK'
  BY Pieces, TypeNext DEF Inv, vars, rows, disk
<1>2. ASSUME NEW s \in Sessions PROVE Whole(s)'
  BY Facts DEF Whole, Creation, Deletion, Claims, Found, Tree, Owns, Stands, vars, rows, disk
<1> QED
  BY <1>1, <1>2 DEF Inv, WorkIsKept, vars

-----------------------------------------------------------------------------
(* The theorems.                                                           *)

LEMMA StepInv == Inv /\ [Next]_vars => Inv'
<1> SUFFICES ASSUME Inv, [Next]_vars PROVE Inv'
  OBVIOUS
<1>1. ASSUME NEW s \in Sessions, Make(s) PROVE Inv'
  BY <1>1, AskInv, InspectInv, CheckInv, AddTreeInv, ValidateInv, SelectInv, CloneWorkspaceInv,
     CreateRoomInv, WriteRoomFilesInv, InsertInv, UndoRoomInv, UndoFilesInv, UndoTreeInv,
     IssueContractInv, DeleteDraftInv DEF Make
<1>2. ASSUME NEW s \in Sessions, Delete(s) PROVE Inv'
  BY <1>2, ReadForDeleteInv, ReadStatusInv, ReadUpstreamInv, ReadCommitsInv, DeleteRowsInv,
     RemoveWorkspaceInv, RemoveTreeInv, RemoveFilesInv DEF Delete
<1>3. ASSUME NEW s \in Sessions, Finish(s) \/ Crash(s) PROVE Inv'
  BY <1>3, FinishInv, CrashInv
<1>4. ASSUME NEW n \in Names, Works(n) PROVE Inv'
  BY <1>4, WorksInv
<1>5. CASE UNCHANGED vars
  BY <1>5, StutterInv
<1> QED
  BY <1>1, <1>2, <1>3, <1>4, <1>5 DEF Next

\* At every point of every creation and deletion, a session has what the
\* invariant lets it have.
THEOREM InvHolds == Spec => []Inv
<1>1. Init => Inv
  BY InitInv
<1>2. Inv /\ [Next]_vars => Inv'
  BY StepInv
<1> QED
  BY <1>1, <1>2, PTL DEF Spec

\* The variables have their types, for any sessions, names and bounds.
THEOREM TypeCorrect == Spec => []TypeOK
<1>1. Inv => TypeOK
  BY DEF Inv
<1> QED
  BY <1>1, InvHolds, PTL

\* A session that was refused or deleted leaves nothing behind but the tree
\* that was kept, unless a crash, a failure of git, or one of the undoing
\* itself is to blame.
THEOREM NothingLeaks == Spec => []NothingIsLeft
<1>1. Inv => NothingIsLeft
  <2> SUFFICES ASSUME Inv, NEW s \in Sessions, ~Stands(s), ~UnderWay(s), s \notin excused
               PROVE  /\ s \notin rooms \cup files \cup spaces
                      /\ s \notin kept => \A n \in Names : tree[n].by # s
    BY DEF NothingIsLeft
  <2>1. make[s].pc \notin MadePc /\ del[s].pc = "idle"
    BY DEF UnderWay, MadePc
  <2> QED
    BY <2>1, Facts DEF Owns, MadePc
<1> QED
  BY <1>1, InvHolds, PTL

\* delete_session takes no change away that was there when it asked for the
\* changes, and no commit that was there when it asked for the commits, if git
\* answered of the branch that goes: whatever is done in the trees, by whomever,
\* between its questions and the removal.
THEOREM NoWorkIsLost == Spec => []WorkIsKept
<1>1. Inv => WorkIsKept
  BY DEF Inv
<1> QED
  BY <1>1, InvHolds, PTL

\* A tree the user had before goes by the user's hand only.
THEOREM UserTreesAreSafe == Spec => UserTreesStay
<1>1. ASSUME Inv, [Next]_vars, NEW n \in UserTrees, tree[n].on, tree[n].by = Nobody
      PROVE  tree'[n].on \/ work' # work
  <2>1. n \in Names /\ TypeOK
    BY <1>1, WorkspacesAssumption DEF Inv
  <2>2. ASSUME NEW s \in Sessions, make[s].strategy = "new",
               make[s].pc \in MadePc \/ row[s] # "none", Removes(make[s].name, s)
        PROVE  tree'[n].on
    <3>1. make[s].name \in Names /\ n # make[s].name
      BY <1>1, <2>2, Facts DEF Claims
    <3> QED
      BY <1>1, <2>1, <2>2, <3>1, RemovesTree
  <2>3. ASSUME NEW s \in Sessions, UndoTree(s) PROVE tree'[n].on
    BY <1>1, <2>2, <2>3 DEF UndoTree, MadePc
  <2>4. ASSUME NEW s \in Sessions, RemoveTree(s) PROVE tree'[n].on
    <3>1. CASE del[s].remove
      <4>1. make[s].strategy = "new" /\ row[s] # "none" /\ Removes(make[s].name, s)
        BY <1>1, <2>4, <3>1, Facts DEF RemoveTree, Deletion
      <4> QED
        BY <2>2, <4>1
    <3>2. CASE ~del[s].remove
      BY <1>1, <2>4, <3>2 DEF RemoveTree
    <3> QED
      BY <3>1, <3>2
  <2>5. ASSUME NEW s \in Sessions, AddTree(s) PROVE tree'[n].on
    <3>1. ASSUME Free(make[s].name) PROVE n # make[s].name
      BY <1>1, <3>1 DEF Free
    <3> QED
      BY <1>1, <2>1, <2>5, <3>1, Pieces DEF AddTree
  <2>6. ASSUME NEW s \in Sessions, Make(s), ~AddTree(s), ~UndoTree(s) PROVE tree' = tree
    BY <2>6 DEF Make, Ask, Inspect, Check, Validate, Select, CloneWorkspace, CreateRoom,
       WriteRoomFiles, Insert, UndoRoom, UndoFiles, IssueContract, DeleteDraft, disk
  <2>7. ASSUME NEW s \in Sessions, Delete(s), ~RemoveTree(s) PROVE tree' = tree
    BY <2>7 DEF Delete, ReadForDelete, ReadStatus, ReadUpstream, ReadCommits, Reads, DeleteRows,
       RemoveWorkspace, RemoveFiles, disk
  <2>8. ASSUME NEW s \in Sessions, Finish(s) \/ Crash(s) PROVE tree' = tree
    BY <2>8 DEF Finish, Crash, disk
  <2>9. ASSUME NEW k \in Names, Works(k) PROVE work' # work
    BY <1>1, <2>9, Pieces DEF Works, Inv
  <2>10. CASE UNCHANGED vars
    BY <1>1, <2>10 DEF vars, disk
  <2> QED
    BY <1>1, <2>3, <2>4, <2>5, <2>6, <2>7, <2>8, <2>9, <2>10 DEF Next
<1>2. Inv /\ [Next]_vars
        => [\A n \in UserTrees : tree[n].on /\ tree[n].by = Nobody =>
              \/ tree'[n].on
              \/ work' # work]_vars
  BY <1>1
<1> QED
  BY <1>2, InvHolds, PTL DEF Spec, UserTreesStay
=============================================================================
