------------------------------ MODULE Records ------------------------------
(***************************************************************************)
(* How a room's records are written: the database transactions of threads  *)
(* that share a connection and of processes that share the database        *)
(* (storage/db.py), and what is kept in files beside it: the shared memory *)
(* ledger, edited by memory_write and memory_remove inside a transaction   *)
(* and by every handoff after its commit, the transcript, and the search   *)
(* index that follows the messages (session/deliberation.py).              *)
(*                                                                         *)
(* A send writes its files when its own block has ended.  One that another *)
(* transaction makes (SessionManager._send_phase_task) has ended its block *)
(* and not committed: its line goes into the transcript first.             *)
(*                                                                         *)
(* A file is replaced as a whole (config.write_private) or appended to.    *)
(* A message, an entry or an event is the number of the call that makes it.*)
(***************************************************************************)
EXTENDS Naturals, Sequences, FiniteSets

CONSTANTS
    Threads,            \* callers
    Connections,        \* one per process that has several callers
    Conn,               \* the connection each thread uses
    NoThread, NoConnection,
    Cap,                \* entries a section of the ledger keeps
    Silent,             \* messages with no text (a pass may have none)
    MaxCalls,           \* bound: calls made
    MaxCrashes          \* bound: ends of a process

ASSUME RecordsAssumption ==
    /\ Conn \in [Threads -> Connections]
    /\ NoThread \notin Threads /\ NoConnection \notin Connections
    /\ Cap \in Nat \ {0} /\ Silent \subseteq Nat
    /\ MaxCalls \in Nat /\ MaxCrashes \in Nat

VARIABLES
    db,                 \* what is committed: messages, events and the index
    draft,              \* what the open transaction has made of it
    writer,             \* the connection that holds the write lock
    lock,               \* the thread that holds the lock of each connection
    ledger,             \* the memory file
    mirror,             \* the transcript file
    call,               \* what each thread is doing
    made, crashes,      \* calls and crashes so far
    ok, refused,        \* history: the messages whose call returned, or raised
    broken,             \* history: the messages whose call raised after its commit
    early,              \* history: the messages whose line another transaction wrote
    lost                \* history: of each loss of an entry, who saved meanwhile

base == <<db, draft, writer, lock>>
filed == <<ledger, mirror>>
answered == <<ok, refused, broken>>
vars == <<base, filed, call, made, crashes, answered, early, lost>>

Kinds == {"send", "add", "remove", "export", "search"}
NoRows == [messages |-> <<>>, events |-> {}, index |-> {}, mark |-> 0]
Idle == [pc |-> "idle", kind |-> "send", id |-> 0, depth |-> 0, outer |-> FALSE,
         wrapped |-> FALSE, mark |-> 0, copy |-> <<>>, since |-> {}]

Init ==
    /\ db = NoRows /\ draft = NoRows /\ writer = NoConnection
    /\ lock = [c \in Connections |-> NoThread]
    /\ ledger = <<>> /\ mirror = <<>> /\ call = [t \in Threads |-> Idle]
    /\ made = 0 /\ crashes = 0 /\ ok = {} /\ refused = {} /\ broken = {}
    /\ early = {} /\ lost = {}

Elements(s) == {s[i] : i \in 1..Len(s)}
At(t, pc) == call[t].pc = pc
Goes(t, pc) == call' = [call EXCEPT ![t].pc = pc]

\* A call returns, or raises to its caller.
Sent(t) == IF call[t].kind = "send" THEN {call[t].id} ELSE {}
Returns(t) == /\ call' = [call EXCEPT ![t] = Idle]
              /\ ok' = ok \cup Sent(t) /\ UNCHANGED <<refused, broken>>
Raises(t) == /\ call' = [call EXCEPT ![t] = Idle]
             /\ refused' = refused \cup Sent(t) /\ UNCHANGED <<ok, broken>>

-----------------------------------------------------------------------------
(* Transactions.                                                           *)

\* Mutant: any transaction of the connection is one's own.
InTransaction(t) == writer = Conn[t]

\* A block of the thread that owns the transaction is part of it.
Nested(t) == lock[Conn[t]] = t

\* A call begins; a composed one opens its transaction before the broker does.
Begin(t) ==
    /\ At(t, "idle") /\ made < MaxCalls /\ made' = made + 1
    /\ \E kind \in Kinds, wrapped \in BOOLEAN :
          /\ wrapped => kind = "send"
          /\ call' = [call EXCEPT ![t] =
                        [Idle EXCEPT !.pc = IF kind = "export" THEN "read" ELSE "enter",
                                     !.kind = kind, !.id = made', !.wrapped = wrapped]]
    /\ UNCHANGED <<base, filed, crashes, answered, early, lost>>

\* _owned_transaction: nest, or wait for the connection.
Enter(t) ==
    /\ At(t, "enter")
    /\ \/ /\ Nested(t) /\ UNCHANGED lock
          /\ call' = [call EXCEPT ![t].pc = "in", ![t].depth = @ + 1]
       \/ /\ ~Nested(t) /\ lock[Conn[t]] = NoThread
          /\ lock' = [lock EXCEPT ![Conn[t]] = t]
          /\ Goes(t, "begin")
    /\ UNCHANGED <<db, draft, writer, filed, made, crashes, answered, early, lost>>

Frees(t) == lock' = [lock EXCEPT ![Conn[t]] = NoThread]

\* Mutant: a database that stays busy leaves the connection locked.
BeginOrGiveUp(t) ==
    /\ At(t, "begin")
    /\ \/ /\ writer = NoConnection /\ writer' = Conn[t] /\ draft' = db
          /\ call' = [call EXCEPT ![t].depth = 1, ![t].outer = TRUE,
                        ![t].pc = IF call[t].wrapped THEN "enter" ELSE "in"]
          /\ UNCHANGED answered
       \/ /\ writer # NoConnection /\ Raises(t) /\ UNCHANGED <<writer, draft>>
    /\ UNCHANGED <<db, lock, filed, made, crashes, early, lost>>

\* BEGIN IMMEDIATE, or the database stays busy for too long.
BeginImmediate(t) ==
    /\ At(t, "begin")
    /\ \/ /\ writer = NoConnection /\ writer' = Conn[t] /\ draft' = db
          /\ call' = [call EXCEPT ![t].depth = 1, ![t].outer = TRUE,
                        ![t].pc = IF call[t].wrapped THEN "enter" ELSE "in"]
          /\ UNCHANGED <<lock, answered>>
       \/ /\ writer # NoConnection /\ Frees(t) /\ Raises(t)
          /\ UNCHANGED <<writer, draft>>
    /\ UNCHANGED <<db, filed, made, crashes, early, lost>>

\* A block ends.  The send of a composed call goes to its files with the outer
\* block still open; the outermost block commits, and only then a send that is
\* a call of its own does.
Exit(t) ==
    /\ At(t, "exit")
    /\ \/ /\ call[t].depth > 1
          /\ call' = [call EXCEPT ![t].depth = @ - 1, ![t].pc = "mirror"]
          /\ UNCHANGED <<db, writer, lock, answered>>
       \/ /\ call[t].depth = 1
          /\ IF call[t].outer THEN db' = draft /\ writer' = NoConnection /\ Frees(t)
             ELSE UNCHANGED <<db, writer, lock>>
          /\ IF call[t].kind = "send" /\ ~call[t].wrapped
             THEN /\ call' = [call EXCEPT ![t].depth = 0, ![t].outer = FALSE, ![t].pc = "mirror"]
                  /\ UNCHANGED answered
             ELSE Returns(t)
    /\ UNCHANGED <<draft, filed, made, crashes, early, lost>>

\* Anything in the block raises: no such message, no right to write, no such
\* entry, a paused room, a file that cannot be written.
Fails(t) ==
    /\ \/ call[t].pc \in {"in", "scan", "log", "exit"}
       \/ At(t, "save") /\ call[t].kind # "send"
    /\ Raises(t)
    /\ IF call[t].outer THEN writer' = NoConnection /\ Frees(t) ELSE UNCHANGED <<writer, lock>>
    /\ UNCHANGED <<db, draft, filed, made, crashes, early, lost>>

\* _run_after_commit catches an OSError only: a memory file that is not UTF-8
\* (LedgerStore.load) raises out of a send that is committed.
FailsAfterCommit(t) ==
    /\ At(t, "handoff")
    /\ call' = [call EXCEPT ![t] = Idle]
    /\ broken' = broken \cup Sent(t)
    /\ UNCHANGED <<base, filed, made, crashes, ok, refused, early, lost>>

-----------------------------------------------------------------------------
(* The body of each call.                                                  *)

\* _append_message and its event.
AppendMessage(t) ==
    /\ At(t, "in") /\ call[t].kind = "send"
    /\ draft' = [draft EXCEPT !.messages = Append(@, call[t].id)]
    /\ Goes(t, "exit")
    /\ UNCHANGED <<db, writer, lock, filed, made, crashes, answered, early, lost>>

\* Mutant: the file is read before the transaction.
LoadLedgerEarly(t) ==
    /\ \/ /\ At(t, "enter") /\ call[t].kind \in {"add", "remove"}
          /\ call' = [call EXCEPT ![t].copy = ledger]
       \/ At(t, "in") /\ call[t].kind \in {"add", "remove"} /\ Goes(t, "save")
       \/ At(t, "handoff") /\ call' = [call EXCEPT ![t].pc = "save", ![t].copy = ledger, ![t].since = {}]
    /\ UNCHANGED <<base, filed, made, crashes, answered, early, lost>>

\* LedgerStore.load, by an edit in its transaction and by a handoff after it.
LoadLedger(t) ==
    /\ \/ At(t, "in") /\ call[t].kind \in {"add", "remove"}
       \/ At(t, "handoff")
    /\ call' = [call EXCEPT ![t].pc = "save", ![t].copy = ledger, ![t].since = {}]
    /\ UNCHANGED <<base, filed, made, crashes, answered, early, lost>>

\* add_entry: the newest entries stay.
Added(copy, entry) ==
    LET all == Append(copy, entry) IN
    IF Len(all) > Cap THEN SubSeq(all, Len(all) - Cap + 1, Len(all)) ELSE all

\* remove_entry, by the number it had when somebody looked.
Removed(copy, i) == [j \in 1..Len(copy) - 1 |-> IF j < i THEN copy[j] ELSE copy[j + 1]]

\* What an edit puts in the place of the file.
Edits(t) ==
    IF call[t].kind = "remove" THEN {Removed(call[t].copy, i) : i \in 1..Len(call[t].copy)}
    ELSE {Added(call[t].copy, [id |-> call[t].id, kind |-> call[t].kind])}

\* The entries that this copy has never seen go.
Overwritten(t) == Elements(ledger) \ Elements(call[t].copy)

\* Whoever has loaded the file and not saved it yet is overtaken; the kinds of
\* call that did so are remembered (history).
Overtaking(t, next) ==
    [u \in Threads |-> IF u = t THEN next
                       ELSE IF At(u, "save")
                       THEN [call[u] EXCEPT !.since = @ \cup {call[t].kind}]
                       ELSE call[u]]

SaveLedger(t) ==
    /\ At(t, "save")
    /\ \/ /\ \E edited \in Edits(t) : ledger' = edited
          /\ lost' = IF Overwritten(t) = {} THEN lost
                     ELSE lost \cup {{call[t].kind} \cup call[t].since}
          /\ IF call[t].kind = "send"
             THEN call' = Overtaking(t, Idle) /\ ok' = ok \cup Sent(t)
             ELSE call' = Overtaking(t, [call[t] EXCEPT !.pc = "log"]) /\ UNCHANGED ok
          /\ UNCHANGED <<refused, broken>>
       \/ /\ call[t].kind = "send" /\ Returns(t)       \* an OSError: a warning
          /\ UNCHANGED <<ledger, lost>>
    /\ UNCHANGED <<base, mirror, made, crashes, early>>

\* The event of an edit, once the file has it.
LogEdit(t) ==
    /\ At(t, "log") /\ draft' = [draft EXCEPT !.events = @ \cup {call[t].id}]
    /\ Goes(t, "exit")
    /\ UNCHANGED <<db, writer, lock, filed, made, crashes, answered, early, lost>>

\* transcript.append; an OSError is a warning.  Then the handoff, if the
\* message has one; the human's message of a composed call has none.
AppendLine(t) ==
    /\ At(t, "mirror")
    /\ mirror' = Append(mirror, call[t].id) \/ UNCHANGED mirror
    /\ IF call[t].outer THEN Goes(t, "exit") /\ UNCHANGED answered
       ELSE Returns(t) \/ (Goes(t, "handoff") /\ UNCHANGED answered)
    /\ early' = IF call[t].wrapped THEN early \cup {call[t].id} ELSE early
    /\ UNCHANGED <<base, ledger, made, crashes, lost>>

\* transcript.rebuild: a statement waits for the connection, not for others.
ReadMessages(t) ==
    /\ At(t, "read") /\ lock[Conn[t]] = NoThread
    /\ call' = [call EXCEPT ![t].pc = "rebuild", ![t].copy = db.messages]
    /\ UNCHANGED <<base, filed, made, crashes, answered, early, lost>>

RewriteLines(t) ==
    /\ At(t, "rebuild") /\ mirror' = call[t].copy /\ Returns(t)
    /\ UNCHANGED <<base, ledger, made, crashes, early, lost>>

\* Mutant: the watermark is read before the transaction.
ReadMarkEarly(t) ==
    /\ call[t].kind = "search"
    /\ \/ /\ At(t, "enter") /\ call[t].since = {}
          /\ call' = [call EXCEPT ![t].mark = db.mark, ![t].since = {"search"}]
       \/ At(t, "in") /\ call[t].since # {} /\ Goes(t, "scan")
    /\ UNCHANGED <<base, filed, made, crashes, answered, early, lost>>

\* reindex: the watermark,
ReadMark(t) ==
    /\ At(t, "in") /\ call[t].kind = "search"
    /\ call' = [call EXCEPT ![t].pc = "scan", ![t].mark = draft.mark]
    /\ UNCHANGED <<base, filed, made, crashes, answered, early, lost>>

\* the messages behind it, put one by one unless they have no text, and the
\* watermark moves to the last of them.
Reindex(t) ==
    /\ At(t, "scan")
    /\ LET behind == {draft.messages[i] : i \in call[t].mark + 1..Len(draft.messages)} IN
       draft' = [draft EXCEPT
                   !.index = @ \cup {[message |-> m, by |-> call[t].id] : m \in behind \ Silent},
                   !.mark = Len(draft.messages)]
    /\ Goes(t, "exit")
    /\ UNCHANGED <<db, writer, lock, filed, made, crashes, answered, early, lost>>

\* A process ends with all its threads; SQLite rolls its transaction back.
Crash(c) ==
    /\ crashes < MaxCrashes /\ crashes' = crashes + 1
    /\ call' = [t \in Threads |-> IF Conn[t] = c THEN Idle ELSE call[t]]
    /\ lock' = [lock EXCEPT ![c] = NoThread]
    /\ writer' = IF writer = c THEN NoConnection ELSE writer
    /\ UNCHANGED <<db, draft, filed, made, answered, early, lost>>

Step(t) == \/ Enter(t) \/ BeginImmediate(t) \/ Exit(t) \/ Fails(t) \/ FailsAfterCommit(t)
           \/ AppendMessage(t) \/ AppendLine(t) \/ LoadLedger(t) \/ SaveLedger(t) \/ LogEdit(t)
           \/ ReadMessages(t) \/ RewriteLines(t) \/ ReadMark(t) \/ Reindex(t)

Next == (\E t \in Threads : Begin(t) \/ Step(t)) \/ (\E c \in Connections : Crash(c))

Spec == Init /\ [][Next]_vars

-----------------------------------------------------------------------------
(* What the code must keep.                                                *)

\* A message whose call returned is committed, and one whose call raised in its
\* transaction is not, whatever the other threads of the connection were doing.
SentIsKept ==
    /\ ok \cup broken \subseteq Elements(db.messages)
    /\ refused \cap Elements(db.messages) = {}

\* Edits of the ledger under the write lock never cost each other an entry:
\* if one is lost, a handoff lost it or saved the file meanwhile.
EditsAreSerial == \A kinds \in lost : "send" \in kinds

\* Every line of the transcript is a committed message, but for the lines that a
\* send inside another transaction has written.
MirrorIsHonest == Elements(mirror) \ Elements(db.messages) \subseteq early

\* The index has every message with a text up to its watermark, once.
IndexFollows ==
    /\ {e.message : e \in db.index} = {db.messages[i] : i \in 1..db.mark} \ Silent
    /\ \A e, f \in db.index : e.message = f.message => e = f

\* Both: what is derived from the messages tells of nothing else, and of each
\* of them once, whoever searches at the same time.
DerivedFollows == MirrorIsHonest /\ IndexFollows

\* Threads and processes never all wait for each other: as long as a call is
\* under way, one of them can go on.
SomebodyGoesOn == (\E t \in Threads : ~At(t, "idle")) => \E t \in Threads : ENABLED Step(t)

-----------------------------------------------------------------------------
(* What a comment says and the code does not do.                           *)

\* "serializes concurrent ledger edits between processes even though the
\* ledger itself is a file" (broker.py, memory_write).
LedgerEditsSerialize == lost = {}

\* "The mirror is written after the transaction commits" (transcript.py): every
\* line is a committed message.
MirrorAfterCommit == Elements(mirror) \subseteq Elements(db.messages)

\* "A failure here must not make a successful, durable orchestration operation
\* look like it failed" (broker.py, _run_after_commit).
DurableLooksDurable == broken = {}
=============================================================================
