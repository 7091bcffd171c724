----------------------------- MODULE Workspaces -----------------------------
(***************************************************************************)
(* What a session has outside its rows: a git worktree on a branch of its  *)
(* own (session/worktree.py), or the clone a planning session reads        *)
(* (session/planning.py), and the files of its room.  The module follows   *)
(* the creation of sessions (manager.create, called by the wizard) and     *)
(* their deletion (manager.delete_session) through every call of git and   *)
(* every transaction, while agents and the user work in the same trees.    *)
(*                                                                         *)
(* A tree's content is what the deletion asks about it: since when are     *)
(* there changes that are not committed, since when does its branch have   *)
(* commits that its upstream has not, does that upstream exist, and is the *)
(* branch the one that is checked out?                                     *)
(***************************************************************************)
EXTENDS Naturals, FiniteSets

CONSTANTS
    Sessions,           \* the sessions somebody asks for
    Names,              \* of worktrees, and of their branches
    UserTrees,          \* the worktrees the user has already
    Nobody,             \* not a session: whoever made those
    MaxOutside          \* bound: what is done in the trees, and ends of a process

ASSUME WorkspacesAssumption ==
    /\ Nobody \notin Sessions /\ Sessions # {}
    /\ UserTrees \subseteq Names
    /\ MaxOutside \in Nat

VARIABLES
    tree,               \* the worktrees and branches of the repository
    row,                \* the sessions table
    rooms,              \* the rooms table: the sessions whose room has a row
    files,              \* the sessions whose room has its files
    spaces,             \* the sessions whose planning workspace is on disk
    drafts,             \* the wizard's drafts
    make,               \* the call that creates each session
    del,                \* the call that deletes it
    kept,               \* history: the trees a deletion kept on purpose
    excused,            \* history: the sessions a crash or a failure left things of
    lost,               \* history: what git had said of the work that went with a tree
    work,               \* what has been done in the trees so far
    crashes

rows == <<row, rooms, drafts>>
disk == <<tree, files, spaces>>
vars == <<rows, disk, make, del, kept, excused, lost, work, crashes>>

\* A tree is on disk, has a branch, and was made by somebody; HEAD is on that
\* branch or another; when its oldest change, and its branch's oldest commit
\* that is nowhere else, were made.
NoTree == [on |-> FALSE, branch |-> FALSE, by |-> Nobody, head |-> "own",
           dirty |-> 0, ahead |-> 0, upstream |-> "none"]
Cut(by) == [NoTree EXCEPT !.on = TRUE, !.branch = TRUE, !.by = by]
NoCall == [pc |-> "idle", strategy |-> "none", name |-> "none"]
NoDelete == [pc |-> "idle", remove |-> FALSE, status |-> "none", changes |-> 0,
             log |-> "none", commits |-> 0]

Init ==
    /\ tree = [n \in Names |-> IF n \in UserTrees THEN Cut(Nobody) ELSE NoTree]
    /\ row = [s \in Sessions |-> "none"] /\ rooms = {} /\ files = {} /\ spaces = {}
    /\ drafts = Sessions
    /\ make = [s \in Sessions |-> NoCall] /\ del = [s \in Sessions |-> NoDelete]
    /\ kept = {} /\ excused = {} /\ lost = {} /\ work = 0 /\ crashes = 0

-----------------------------------------------------------------------------
(* The creation of a session.                                              *)

Goes(s, pc) == make' = [make EXCEPT ![s].pc = pc]

\* A call fails and leaves what it has made so far.
FailsWith(s) == Goes(s, "over") /\ excused' = excused \cup {s}

\* list_worktrees: any tree of the repository but the primary one, whoever
\* made it and whatever session works in it.
Selectable(n) == tree[n].on

\* The wizard asks for a fresh tree, one that exists, or a plan.
Ask(s) ==
    /\ make[s].pc = "idle" /\ row[s] = "none"
    /\ \E strategy \in {"new", "existing", "planning"}, n \in Names \cup {"none"} :
          /\ strategy = "existing" <=> n # "none"
          /\ strategy = "existing" => Selectable(n)
          /\ make' = [make EXCEPT ![s] = [pc |-> "inspect", strategy |-> strategy,
                                          name |-> n]]
    /\ UNCHANGED <<rows, disk, del, kept, excused, lost, work, crashes>>

\* inspect_repository changes nothing; an unusable one is refused.
FirstStep(strategy) ==
    [new |-> "check", existing |-> "select", planning |-> "clone"][strategy]

Inspect(s) ==
    /\ make[s].pc = "inspect"
    /\ Goes(s, "over") \/ Goes(s, FirstStep(make[s].strategy))
    /\ UNCHANGED <<rows, disk, del, kept, excused, lost, work, crashes>>

Free(n) == ~tree[n].on /\ ~tree[n].branch

\* worktree.create: a name that neither a directory nor a branch has.
Check(s) ==
    /\ make[s].pc = "check"
    /\ \/ \E n \in Names : /\ Free(n)
                           /\ make' = [make EXCEPT ![s].pc = "add", ![s].name = n]
       \/ Goes(s, "over")               \* the name is taken, or none is found
    /\ UNCHANGED <<rows, disk, del, kept, excused, lost, work, crashes>>

\* git worktree add -b: refused when the name has been taken since; git may
\* fail once the branch is made, which stays.  Unless the name was given,
\* another is tried.
AddTree(s) ==
    LET n == make[s].name IN
    /\ make[s].pc = "add"
    /\ \/ /\ Free(n) /\ tree' = [tree EXCEPT ![n] = Cut(s)]
          /\ Goes(s, "validate") /\ UNCHANGED excused
       \/ /\ ~Free(n) /\ UNCHANGED <<tree, excused>>
          /\ Goes(s, "check") \/ Goes(s, "over")
       \/ /\ Free(n) /\ tree' = [tree EXCEPT ![n].branch = TRUE, ![n].by = s]
          /\ Goes(s, "check") \/ Goes(s, "over")
          /\ excused' = excused \cup {s}
    /\ UNCHANGED <<rows, files, spaces, del, kept, lost, work, crashes>>

\* worktree.validate of the new tree.  create has no handler around it.
Validate(s) ==
    /\ make[s].pc = "validate"
    /\ \/ tree[make[s].name].on /\ Goes(s, "room") /\ UNCHANGED excused
       \/ FailsWith(s)
    /\ UNCHANGED <<rows, disk, del, kept, lost, work, crashes>>

\* worktree.validate of the tree the user selected.
Select(s) ==
    /\ make[s].pc = "select"
    /\ \/ tree[make[s].name].on /\ Goes(s, "room")
       \/ Goes(s, "over")
    /\ UNCHANGED <<rows, disk, del, kept, excused, lost, work, crashes>>

\* planning.create_workspace.  The clone may come without its head.
CloneWorkspace(s) ==
    /\ make[s].pc = "clone"
    /\ \/ spaces' = spaces \cup {s} /\ Goes(s, "room") /\ UNCHANGED excused
       \/ spaces' = spaces \cup {s} /\ FailsWith(s)
       \/ Goes(s, "over") /\ UNCHANGED <<spaces, excused>>
    /\ UNCHANGED <<rows, tree, files, del, kept, lost, work, crashes>>

\* broker.create_room: the rows in one transaction.
CreateRoom(s) ==
    /\ make[s].pc = "room"
    /\ \/ rooms' = rooms \cup {s} /\ Goes(s, "files")
       \/ Goes(s, "undo_tree") /\ UNCHANGED rooms
    /\ UNCHANGED <<row, drafts, disk, del, kept, excused, lost, work, crashes>>

\* Then its ledger and its directory: if they fail the tree goes and the
\* rows stay.
WriteRoomFiles(s) ==
    /\ make[s].pc = "files" /\ files' = files \cup {s}
    /\ \/ Goes(s, "insert") /\ UNCHANGED excused
       \/ Goes(s, "undo_tree") /\ excused' = excused \cup {s}
    /\ UNCHANGED <<rows, tree, spaces, del, kept, lost, work, crashes>>

\* Mutant: the tree goes, the room is forgotten.
InsertOrUndoTree(s) ==
    /\ make[s].pc = "insert"
    /\ \/ row' = [row EXCEPT ![s] = "live"] /\ Goes(s, "contract")
       \/ Goes(s, "undo_tree") /\ UNCHANGED row
    /\ UNCHANGED <<rooms, drafts, disk, del, kept, excused, lost, work, crashes>>

\* _insert, refused by the index on promotions or by a busy database.
Insert(s) ==
    /\ make[s].pc = "insert"
    /\ \/ row' = [row EXCEPT ![s] = "live"] /\ Goes(s, "contract")
       \/ Goes(s, "undo_room") /\ UNCHANGED row
    /\ UNCHANGED <<rooms, drafts, disk, del, kept, excused, lost, work, crashes>>

\* The room's rows go in a transaction: the database that refused the row may
\* refuse that too, which ends the undoing.
UndoRoom(s) ==
    /\ make[s].pc = "undo_room"
    /\ \/ rooms' = rooms \ {s} /\ Goes(s, "undo_files") /\ UNCHANGED excused
       \/ FailsWith(s) /\ UNCHANGED rooms
    /\ UNCHANGED <<row, drafts, disk, del, kept, lost, work, crashes>>

UndoFiles(s) ==
    /\ make[s].pc = "undo_files"
    /\ \/ files' = files \ {s} /\ Goes(s, "undo_tree") /\ UNCHANGED excused
       \/ FailsWith(s) /\ UNCHANGED files
    /\ UNCHANGED <<rows, tree, spaces, del, kept, lost, work, crashes>>

-----------------------------------------------------------------------------
(* worktree.remove, by force and with the branch.                          *)

\* The tree and then its branch go, or git refuses the one or the other: a
\* branch that is checked out is not deleted.
Removes(n, by) ==
    \/ tree' = [tree EXCEPT ![n] = NoTree] /\ UNCHANGED excused
    \/ /\ \/ tree' = [tree EXCEPT ![n] = [@ EXCEPT !.on = FALSE, !.dirty = 0, !.head = "own"]]
          \/ /\ tree[n].head = "other"
             /\ tree' = [tree EXCEPT ![n] = [@ EXCEPT !.branch = FALSE, !.ahead = 0]]
          \/ UNCHANGED tree
       /\ excused' = excused \cup {by, tree[n].by}

\* Mutant: whatever tree the session got is removed.
UndoAnyTree(s) ==
    /\ make[s].pc = "undo_tree" /\ Goes(s, "over")
    /\ IF make[s].name \in Names
       THEN Removes(make[s].name, s) ELSE UNCHANGED <<tree, excused>>
    /\ spaces' = spaces \ {s}
    /\ UNCHANGED <<rows, files, del, kept, lost, work, crashes>>

\* Only what this call has made goes.
UndoTree(s) ==
    /\ make[s].pc = "undo_tree" /\ Goes(s, "over")
    /\ IF make[s].strategy = "new"
       THEN Removes(make[s].name, s) ELSE UNCHANGED <<tree, excused>>
    /\ spaces' = spaces \ {s}
    /\ UNCHANGED <<rows, files, del, kept, lost, work, crashes>>

\* The plan or the gates, and the first contract; a failure leaves the
\* session to be set up, or deleted, as it is.
IssueContract(s) ==
    /\ make[s].pc = "contract"
    /\ \/ row[s] # "gone" /\ Goes(s, "draft")
       \/ Goes(s, "over")
    /\ UNCHANGED <<rows, disk, del, kept, excused, lost, work, crashes>>

DeleteDraft(s) ==
    /\ make[s].pc = "draft" /\ Goes(s, "over") /\ drafts' = drafts \ {s}
    /\ UNCHANGED <<row, rooms, disk, del, kept, excused, lost, work, crashes>>

-----------------------------------------------------------------------------
(* The deletion of a session.                                              *)

\* The session is stopped, or ends otherwise.
Finish(s) ==
    /\ row[s] = "live" /\ row' = [row EXCEPT ![s] = "ended"]
    /\ UNCHANGED <<rooms, drafts, disk, make, del, kept, excused, lost, work, crashes>>

Tree(s) == tree[make[s].name]

Reads(s, d) ==
    /\ del' = [del EXCEPT ![s] = d]
    /\ UNCHANGED <<rows, disk, make, kept, excused, lost, work, crashes>>

\* delete_session asks for the tree, unless it was selected ...
ReadForDelete(s) ==
    /\ row[s] = "ended" /\ del[s].pc = "idle"
    /\ Reads(s, [NoDelete EXCEPT
                   !.pc = IF make[s].strategy = "new" /\ Tree(s).on THEN "status" ELSE "rows"])

\* Mutant: the changes are not looked at.
ReadNoStatus(s) ==
    /\ del[s].pc = "status"
    /\ Reads(s, [del[s] EXCEPT !.pc = "upstream", !.status = "seen", !.changes = work])

\* ... for changes; when git fails there are none ...
ReadStatus(s) ==
    /\ del[s].pc = "status"
    /\ \/ /\ Tree(s).on
          /\ Reads(s, [del[s] EXCEPT !.pc = IF Tree(s).dirty = 0 THEN "upstream" ELSE "rows",
                                     !.status = "seen", !.changes = work])
       \/ Reads(s, [del[s] EXCEPT !.pc = "upstream", !.status = "failed", !.changes = work])

\* ... for the upstream of whatever branch HEAD is on: of one that is gone git
\* prints the name, of none it prints nothing, nor when it fails ...
Upstreams(t) ==
    {"none"} \cup (IF ~t.on THEN {}
                  ELSE IF t.head = "own" THEN {t.upstream} ELSE {"tracked", "gone"})

ReadUpstream(s) ==
    /\ del[s].pc = "upstream"
    /\ \E upstream \in Upstreams(Tree(s)) :
          Reads(s, [del[s] EXCEPT !.pc = IF upstream = "none" THEN "rows" ELSE "commits"])

\* ... and for the commits of HEAD that it has not.  When git fails, as it does
\* of an upstream that is gone, there are none.
Log(t) == CASE t.on /\ t.head = "own" /\ t.upstream = "tracked" -> "seen"
            [] t.on /\ t.head = "own" /\ t.upstream # "tracked" -> "pruned"
            [] t.on /\ t.head = "other" -> "elsewhere"
            [] OTHER -> "failed"

ReadCommits(s) ==
    /\ del[s].pc = "commits"
    /\ \E log \in {Log(Tree(s)), "failed"}, remove \in BOOLEAN :
          /\ log = "seen" => (remove <=> Tree(s).ahead = 0)
          /\ log \in {"pruned", "failed"} => remove
          /\ Reads(s, [del[s] EXCEPT !.pc = "rows", !.remove = remove, !.log = log,
                                     !.commits = work])

\* The rows of the session and of its room, in one transaction.
DeleteRows(s) ==
    /\ del[s].pc = "rows"
    /\ \/ /\ del' = [del EXCEPT ![s].pc = "workspace"]
          /\ row' = [row EXCEPT ![s] = "gone"] /\ rooms' = rooms \ {s}
          /\ kept' = IF del[s].remove THEN kept ELSE kept \cup {s}
       \/ del' = [del EXCEPT ![s] = NoDelete] /\ UNCHANGED <<row, rooms, kept>>   \* refused
    /\ UNCHANGED <<drafts, disk, make, excused, lost, work, crashes>>

RemoveWorkspace(s) ==
    /\ del[s].pc = "workspace" /\ spaces' = spaces \ {s}
    /\ del' = [del EXCEPT ![s].pc = "tree"]
    /\ UNCHANGED <<rows, tree, files, make, kept, excused, lost, work, crashes>>

\* What git had said of the work of a tree and of a branch that go: of that
\* which was there when it was asked.
Said(stamp, asked, answer) ==
    IF stamp = 0 THEN {} ELSE {IF stamp <= asked THEN answer ELSE "late"}

Loss(s, t, after) ==
    (IF t.on /\ ~after.on THEN Said(t.dirty, del[s].changes, del[s].status) ELSE {})
    \cup
    (IF t.branch /\ ~after.branch THEN Said(t.ahead, del[s].commits, del[s].log) ELSE {})

RemoveTree(s) ==
    /\ del[s].pc = "tree" /\ del' = [del EXCEPT ![s].pc = "files"]
    /\ IF del[s].remove
       THEN /\ Removes(make[s].name, s)
            /\ lost' = lost \cup Loss(s, Tree(s), tree'[make[s].name])
       ELSE UNCHANGED <<tree, excused, lost>>
    /\ UNCHANGED <<rows, files, spaces, make, kept, work, crashes>>

RemoveFiles(s) ==
    /\ del[s].pc = "files" /\ files' = files \ {s} /\ del' = [del EXCEPT ![s] = NoDelete]
    /\ UNCHANGED <<rows, tree, spaces, make, kept, excused, lost, work, crashes>>

-----------------------------------------------------------------------------
(* What happens in the trees: agents of any session, running or not, and   *)
(* the user.                                                               *)

\* Done now, unless the like was done before.
Since(stamp) == IF stamp = 0 THEN work' ELSE stamp

Works(n) ==
    LET t == tree[n] IN
    /\ work + crashes < MaxOutside /\ work' = work + 1
    /\ t.on
    /\ \/ tree' = [tree EXCEPT ![n].dirty = Since(@)]                        \* edit
       \/ tree' = [tree EXCEPT ![n].dirty = 0,                              \* commit
                               ![n].ahead = IF t.head = "own" THEN Since(@) ELSE @]
       \/ tree' = [tree EXCEPT ![n].upstream = "tracked", ![n].ahead = 0]   \* push
       \/ /\ t.upstream = "tracked"     \* the remote branch goes, and a fetch prunes it
          /\ tree' = [tree EXCEPT ![n].upstream = "gone"]
       \/ \E head \in {"own", "other"} \ {t.head} :     \* another branch is checked out
             tree' = [tree EXCEPT ![n].head = head]
       \/ tree' = [tree EXCEPT ![n] = NoTree]           \* the user removes it by hand
    /\ UNCHANGED <<rows, files, spaces, make, del, kept, excused, lost, crashes>>

\* The process that creates or deletes the session ends.
Crash(s) ==
    /\ work + crashes < MaxOutside /\ crashes' = crashes + 1
    /\ excused' = excused \cup {s}
    /\ \/ make[s].pc \notin {"idle", "over"} /\ Goes(s, "over") /\ UNCHANGED del
       \/ del[s].pc # "idle" /\ del' = [del EXCEPT ![s] = NoDelete] /\ UNCHANGED make
    /\ UNCHANGED <<rows, disk, kept, lost, work>>

Make(s) == \/ Ask(s) \/ Inspect(s) \/ Check(s) \/ AddTree(s) \/ Validate(s) \/ Select(s)
           \/ CloneWorkspace(s) \/ CreateRoom(s) \/ WriteRoomFiles(s)
           \/ Insert(s) \/ UndoRoom(s) \/ UndoFiles(s) \/ UndoTree(s)
           \/ IssueContract(s) \/ DeleteDraft(s)

Delete(s) == \/ ReadForDelete(s) \/ ReadStatus(s) \/ ReadUpstream(s) \/ ReadCommits(s)
             \/ DeleteRows(s) \/ RemoveWorkspace(s) \/ RemoveTree(s) \/ RemoveFiles(s)

Next == \/ \E s \in Sessions : Make(s) \/ Finish(s) \/ Delete(s) \/ Crash(s)
        \/ \E n \in Names : Works(n)

Spec == Init /\ [][Next]_vars

-----------------------------------------------------------------------------
(* What the code must keep.                                                *)

MakePc == {"idle", "inspect", "check", "add", "validate", "select", "clone", "room", "files",
           "insert", "undo_room", "undo_files", "undo_tree", "contract", "draft", "over"}

DelPc == {"idle", "status", "upstream", "commits", "rows", "workspace", "tree", "files"}

TypeOK ==
    /\ work \in Nat
    /\ tree \in [Names -> [on : BOOLEAN, branch : BOOLEAN, by : Sessions \cup {Nobody},
                           head : {"own", "other"}, dirty : Nat, ahead : Nat,
                           upstream : {"none", "tracked", "gone"}]]
    /\ row \in [Sessions -> {"none", "live", "ended", "gone"}]
    /\ rooms \subseteq Sessions /\ files \subseteq Sessions
    /\ spaces \subseteq Sessions /\ drafts \subseteq Sessions
    /\ make \in [Sessions -> [pc : MakePc, name : Names \cup {"none"},
                              strategy : {"none", "new", "existing", "planning"}]]
    /\ del \in [Sessions -> [pc : DelPc, remove : BOOLEAN, changes : Nat, commits : Nat,
                             status : {"none", "seen", "failed"},
                             log : {"none", "seen", "pruned", "elsewhere", "failed"}]]

\* A session that was refused leaks nothing, and one that was deleted leaves
\* at most the tree that was kept on purpose.
Stands(s) == row[s] \in {"live", "ended"}
UnderWay(s) == make[s].pc \notin {"idle", "over"} \/ del[s].pc # "idle"

NothingIsLeft ==
    \A s \in Sessions :
        ~Stands(s) /\ ~UnderWay(s) /\ s \notin excused =>
            /\ s \notin rooms \cup files \cup spaces
            /\ s \notin kept => \A n \in Names : tree[n].by # s

\* A tree the user had before is never removed by Synchri: only by the user.
UserTreesStay ==
    [][\A n \in UserTrees : tree[n].on /\ tree[n].by = Nobody =>
          \/ tree'[n].on
          \/ work' # work]_vars

\* When the tree and the branch of a deleted session go, no change goes that
\* was there when the deletion asked for changes, and no commit that was there
\* when it asked for commits, whatever was done between its questions: unless
\* git could not say (failed), said it of another branch (elsewhere) or of an
\* upstream that had been pruned.
WorkIsKept == "seen" \notin lost

-----------------------------------------------------------------------------
(* What a doc or a message says and the code does not do.                  *)

\* "Remove a finished session from Synchri without ever losing git history"
\* (manager.py, delete_session): a pruned upstream has not the commits.
HistoryIsKept == "pruned" \notin lost

\* "its branch has an upstream with no unpushed commits" (manager.py,
\* delete_session): the branch that is deleted, not the one that is checked out.
BranchIsPushed == "elsewhere" \notin lost

\* "The loser must leak nothing" (manager.py, create): a refused row takes the
\* room with it.
LoserLeaksNothing ==
    [][\A s \in Sessions :
          make[s].pc = "undo_room" /\ make'[s].pc = "over" /\ crashes' = crashes
             => s \notin rooms']_vars

\* "you selected it yourself, so Synchri never removes it" (manager.py,
\* delete_session): a live session keeps the tree that was selected for it.
SelectedTreesStay ==
    [][\A s \in Sessions :
          (/\ row[s] = "live" /\ make[s].strategy = "existing" /\ tree[make[s].name].on
           /\ \E d \in Sessions : del[d].pc = "tree") =>
             \/ tree'[make[s].name].on
             \/ work' # work]_vars
=============================================================================
