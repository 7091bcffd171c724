--------------------------- MODULE RecordsProofs ---------------------------
(***************************************************************************)
(* Proofs about Records, for any threads, connections and bounds.          *)
(*                                                                         *)
(* The invariant says where a thread is with its transaction: who is       *)
(* inside holds the lock and is the writer, what it has drafted is what is *)
(* committed and its own message, and that message is new.  A thread that  *)
(* writes a line inside another transaction is inside, too: its message is *)
(* not committed, and `early' has it.                                      *)
(***************************************************************************)
EXTENDS Records, SequenceTheorems, TLAPS

\* The types.  What a thread has read is the ledger or the messages.
Entry == [id : Nat, kind : Kinds]
Pc == {"idle", "enter", "begin", "in", "scan", "save", "log", "exit", "mirror", "handoff",
       "read", "rebuild"}
Rows == [messages : Seq(Nat), events : SUBSET Nat, index : SUBSET [message : Nat, by : Nat],
         mark : Nat]
CallRow == [pc : Pc, kind : Kinds, id : Nat, depth : {0, 1, 2}, outer : BOOLEAN,
            wrapped : BOOLEAN, mark : Nat, copy : Seq(Entry) \cup Seq(Nat), since : SUBSET Kinds]

TypeOK ==
    /\ db \in Rows /\ draft \in Rows
    /\ writer \in Connections \cup {NoConnection}
    /\ lock \in [Connections -> Threads \cup {NoThread}]
    /\ ledger \in Seq(Entry) /\ mirror \in Seq(Nat)
    /\ call \in [Threads -> CallRow]
    /\ made \in Nat /\ crashes \in Nat /\ ok \subseteq Nat /\ refused \subseteq Nat
    /\ broken \subseteq Nat /\ early \subseteq Nat
    /\ lost \subseteq SUBSET Kinds

\* The thread has the transaction open.
Inside(t) == \/ At(t, "enter") /\ call[t].depth = 1
             \/ call[t].pc \in {"in", "scan", "log", "exit"}
             \/ At(t, "mirror") /\ call[t].outer
             \/ At(t, "save") /\ call[t].kind # "send"

\* A message that is not committed yet, and one that is.
Before(t) == /\ call[t].kind = "send"
             /\ \/ call[t].pc \in {"enter", "begin", "in", "exit"}
                \/ At(t, "mirror") /\ call[t].outer
After(t) == /\ call[t].kind = "send" /\ call[t].pc \in {"mirror", "handoff", "save"}
            /\ ~call[t].outer

Stages ==
    \A t \in Threads :
        /\ call[t].pc \in {"mirror", "handoff"} => call[t].kind = "send"
        /\ call[t].pc \in {"read", "rebuild"} => call[t].kind = "export"
        /\ call[t].wrapped => call[t].kind = "send"
        /\ call[t].pc = "log" => call[t].kind # "send"
        /\ call[t].pc = "enter" => call[t].depth \in {0, 1}
        /\ call[t].pc = "enter" /\ call[t].depth = 1 => call[t].wrapped
        /\ call[t].pc = "in" /\ call[t].kind # "send" => call[t].depth = 1
        /\ call[t].pc = "scan" => call[t].kind = "search"
        /\ call[t].pc # "idle" /\ call[t].depth = 2 => call[t].wrapped
        /\ call[t].pc = "mirror" /\ call[t].outer => call[t].wrapped /\ call[t].depth = 1
        /\ call[t].pc = "handoff" => ~call[t].outer
        /\ call[t].pc = "save" /\ call[t].kind = "send" => ~call[t].outer

\* One transaction at a time, and its thread holds the connection.
Locks ==
    \A t \in Threads :
        /\ Inside(t) => /\ lock[Conn[t]] = t /\ writer = Conn[t]
                        /\ call[t].outer /\ call[t].depth # 0
        /\ At(t, "begin") => lock[Conn[t]] = t
        /\ lock[Conn[t]] = t => Inside(t) \/ At(t, "begin")

Drafts ==
    \A t \in Threads : Inside(t) =>
        /\ draft.messages = IF call[t].pc \in {"exit", "mirror"} /\ call[t].kind = "send"
                            THEN Append(db.messages, call[t].id) ELSE db.messages
        /\ At(t, "scan") => call[t].mark = draft.mark

\* No message is there twice, and the index has those up to the mark.
Follows(rows) ==
    /\ rows.mark \in 0..Len(rows.messages)
    /\ \A i, j \in 1..Len(rows.messages) : rows.messages[i] = rows.messages[j] => i = j
    /\ {e.message : e \in rows.index} = {rows.messages[i] : i \in 1..rows.mark} \ Silent
    /\ \A e, f \in rows.index : e.message = f.message => e = f

Known == Elements(db.messages) \cup ok \cup refused \cup broken

\* Messages are numbered as the calls are made, and each call has its own.
Dated == Known \subseteq 0..made /\ \A t \in Threads : call[t].id \in 0..made

Fresh ==
    \A t \in Threads : /\ Before(t) => call[t].id \notin Known
                       /\ After(t) => call[t].id \in Elements(db.messages)

Distinct ==
    \A t, u \in Threads : Before(t) /\ Before(u) /\ t # u => call[t].id # call[u].id

Copies ==
    \A t \in Threads :
        /\ At(t, "rebuild") => /\ call[t].copy \in Seq(Nat)
                               /\ Elements(call[t].copy) \subseteq Elements(db.messages)
        /\ At(t, "save") => /\ call[t].copy \in Seq(Entry)
                            /\ call[t].since = {} => call[t].copy = ledger
                            /\ call[t].kind # "send" => call[t].since \subseteq {"send"}

Inv ==
    /\ TypeOK /\ Stages /\ Locks /\ Drafts /\ Follows(db) /\ Follows(draft)
    /\ Dated /\ Fresh /\ Distinct /\ Copies /\ SentIsKept /\ EditsAreSerial /\ MirrorIsHonest

-----------------------------------------------------------------------------
(* Sequences.                                                              *)

LEMMA ElementsAppend ==
    ASSUME NEW S, NEW s \in Seq(S), NEW x \in S
    PROVE  Elements(Append(s, x)) = Elements(s) \cup {x}
<1>1. Len(s) \in Nat
  OBVIOUS
<1>2. Len(Append(s, x)) = Len(s) + 1 /\ Append(s, x)[Len(s) + 1] = x
      /\ \A i \in 1..Len(s) : Append(s, x)[i] = s[i]
  BY AppendProperties
<1>3. 1..Len(s) + 1 = (1..Len(s)) \cup {Len(s) + 1}
  BY <1>1
<1> QED
  BY <1>2, <1>3, Zenon DEF Elements

\* A new message behind the mark changes nothing for the index.
LEMMA AppendFollows ==
    ASSUME NEW rows \in Rows, Follows(rows), NEW x \in Nat \ Elements(rows.messages),
           NEW next \in Rows, next.messages = Append(rows.messages, x),
           next.mark = rows.mark, next.index = rows.index
    PROVE  Follows(next)
<1> DEFINE s == rows.messages
           t == next.messages
<1>1. s \in Seq(Nat) /\ Len(s) \in Nat /\ rows.mark \in 0..Len(s)
  BY DEF Rows, Follows
<1>2. Len(t) = Len(s) + 1 /\ t[Len(s) + 1] = x /\ \A i \in 1..Len(s) : t[i] = s[i]
  BY <1>1, AppendProperties
<1>3. \A i \in 1..Len(s) : s[i] # x
  BY DEF Elements
<1>4. ASSUME NEW i \in 1..Len(t), NEW j \in 1..Len(t), t[i] = t[j] PROVE i = j
  <2>1. i \in 1..Len(s) \/ i = Len(s) + 1
    BY <1>1, <1>2
  <2>2. j \in 1..Len(s) \/ j = Len(s) + 1
    BY <1>1, <1>2
  <2> QED
    BY <1>2, <1>3, <1>4, <2>1, <2>2 DEF Follows
<1>5. {t[i] : i \in 1..next.mark} = {s[i] : i \in 1..rows.mark}
  <2>1. \A i \in 1..rows.mark : t[i] = s[i]
    BY <1>1, <1>2
  <2> QED
    BY <2>1
<1>6. next.mark \in 0..Len(t)
  BY <1>1, <1>2
<1> QED
  BY <1>4, <1>5, <1>6 DEF Follows

LEMMA FollowsNext == (Follows(db)' <=> Follows(db')) /\ (Follows(draft)' <=> Follows(draft'))
BY DEF Follows

-----------------------------------------------------------------------------
(* Only one thread's call changes in most steps.                           *)

Alone(t) ==
    /\ call' \in [Threads -> CallRow]
    /\ \A u \in Threads : u # t => call'[u] = call[u]

Kept(t) ==
    /\ call'[t].kind = call[t].kind /\ call'[t].id = call[t].id
    /\ call'[t].outer = call[t].outer /\ call'[t].wrapped = call[t].wrapped
    /\ call'[t].mark = call[t].mark /\ call'[t].copy = call[t].copy
    /\ call'[t].since = call[t].since

LEMMA IdleRow == Idle \in CallRow
<1>1. <<>> \in Seq(Nat)
  OBVIOUS
<1> QED
  BY <1>1 DEF Idle, CallRow, Pc, Kinds

\* A call that goes to its next stage changes nothing else.
LEMMA GoesTo ==
    ASSUME TypeOK, NEW t \in Threads, NEW pc \in Pc, Goes(t, pc)
    PROVE  /\ Alone(t) /\ Kept(t)
           /\ call'[t].pc = pc /\ call'[t].depth = call[t].depth
<1>1. call[t] \in CallRow
  BY DEF TypeOK
<1>2. [call[t] EXCEPT !.pc = pc] \in CallRow
  BY <1>1 DEF CallRow
<1>3. call' = [call EXCEPT ![t] = [call[t] EXCEPT !.pc = pc]]
  BY DEF Goes
<1> QED
  BY <1>1, <1>2, <1>3 DEF TypeOK, Alone, Kept, CallRow

LEMMA Stops ==
    ASSUME TypeOK, NEW t \in Threads, call' = [call EXCEPT ![t] = Idle]
    PROVE  /\ Alone(t) /\ call'[t].pc = "idle"
           /\ call'[t].id = 0 /\ ~call'[t].wrapped
<1>1. Idle.pc = "idle" /\ Idle.id = 0 /\ ~Idle.wrapped
  BY DEF Idle
<1> QED
  BY <1>1, IdleRow DEF TypeOK, Alone

\* No two threads have a transaction open.
LEMMA OneTransaction ==
    ASSUME Inv, NEW t \in Threads, NEW u \in Threads, Inside(t), Inside(u)
    PROVE  t = u
BY RecordsAssumption DEF Inv, Locks

\* What a thread does outside its transaction disturbs no transaction.
LEMMA Outside ==
    ASSUME Inv, NEW t \in Threads, Alone(t), UNCHANGED <<db, draft, writer, lock>>,
           ~Inside(t), lock[Conn[t]] # t, ~Inside(t)', ~At(t, "begin")'
    PROVE  Locks' /\ Drafts'
<1>1. \A u \in Threads : u # t => /\ call'[u] = call[u]
                                  /\ Inside(u)' <=> Inside(u)
                                  /\ At(u, "begin")' <=> At(u, "begin")
  BY DEF Alone, Inside, At
<1>2. Locks'
  <2>1. SUFFICES ASSUME NEW u \in Threads
                 PROVE  /\ Inside(u)' => /\ lock'[Conn[u]] = u /\ writer' = Conn[u]
                                         /\ call'[u].outer /\ call'[u].depth # 0
                        /\ At(u, "begin")' => lock'[Conn[u]] = u
                        /\ lock'[Conn[u]] = u => Inside(u)' \/ At(u, "begin")'
    BY DEF Locks
  <2> QED
    BY <1>1 DEF Inv, Locks
<1>3. Drafts'
  <2>1. SUFFICES ASSUME NEW u \in Threads, Inside(u)'
                 PROVE  /\ draft'.messages =
                              IF call'[u].pc \in {"exit", "mirror"} /\ call'[u].kind = "send"
                              THEN Append(db'.messages, call'[u].id) ELSE db'.messages
                        /\ At(u, "scan")' => call'[u].mark = draft'.mark
    BY DEF Drafts
  <2>2. Inside(u) /\ call'[u] = call[u]
    BY <1>1, <2>1
  <2>3. /\ draft.messages = IF call[u].pc \in {"exit", "mirror"} /\ call[u].kind = "send"
                            THEN Append(db.messages, call[u].id) ELSE db.messages
        /\ At(u, "scan") => call[u].mark = draft.mark
    BY <2>2 DEF Inv, Drafts
  <2> QED
    BY <2>2, <2>3 DEF At
<1> QED
  BY <1>2, <1>3

\* A thread that frees its connection, and ends its transaction if it has one.
LEMMA LetsGo ==
    ASSUME Inv, NEW t \in Threads, Alone(t), lock[Conn[t]] = t,
           lock' = [lock EXCEPT ![Conn[t]] = NoThread],
           writer' = IF Inside(t) THEN NoConnection ELSE writer,
           ~Inside(t)', ~At(t, "begin")'
    PROVE  Locks'
<1>1. \A u \in Threads : u # t => /\ call'[u] = call[u]
                                  /\ Inside(u)' <=> Inside(u)
                                  /\ At(u, "begin")' <=> At(u, "begin")
  BY DEF Alone, Inside, At
<1>2. \A u \in Threads : lock'[Conn[u]] = IF Conn[u] = Conn[t] THEN NoThread ELSE lock[Conn[u]]
  BY RecordsAssumption DEF Inv, TypeOK
<1>3. \A u \in Threads : u # t /\ lock[Conn[u]] = u => Conn[u] # Conn[t]
  OBVIOUS
<1>4. \A u \in Threads : u # t /\ Inside(u) => ~Inside(t)
  BY OneTransaction
<1>5. SUFFICES ASSUME NEW u \in Threads
               PROVE  /\ Inside(u)' => /\ lock'[Conn[u]] = u /\ writer' = Conn[u]
                                       /\ call'[u].outer /\ call'[u].depth # 0
                      /\ At(u, "begin")' => lock'[Conn[u]] = u
                      /\ lock'[Conn[u]] = u => Inside(u)' \/ At(u, "begin")'
  BY DEF Locks
<1>6. CASE u = t
  BY <1>2, <1>6, RecordsAssumption
<1>7. CASE u # t
  BY <1>1, <1>2, <1>3, <1>4, <1>7, RecordsAssumption DEF Inv, Locks
<1> QED
  BY <1>6, <1>7

\* A step inside or outside the transactions, which leaves everybody there.
LEMMA StayThere ==
    ASSUME Inv, UNCHANGED <<writer, lock>>,
           \A u \in Threads : /\ Inside(u)' <=> Inside(u)
                              /\ At(u, "begin")' <=> At(u, "begin")
                              /\ Inside(u) => call'[u].outer /\ call'[u].depth # 0
    PROVE  Locks'
<1>1. SUFFICES ASSUME NEW u \in Threads
               PROVE  /\ Inside(u)' => /\ lock'[Conn[u]] = u /\ writer' = Conn[u]
                                       /\ call'[u].outer /\ call'[u].depth # 0
                      /\ At(u, "begin")' => lock'[Conn[u]] = u
                      /\ lock'[Conn[u]] = u => Inside(u)' \/ At(u, "begin")'
  BY DEF Locks
<1> QED
  BY DEF Inv, Locks

\* A call begins.
LEMMA BeginKeeps == ASSUME Inv, NEW t \in Threads, Begin(t) PROVE Inv'
<1>1. PICK kind \in Kinds, wrapped \in BOOLEAN :
        /\ wrapped => kind = "send"
        /\ call' = [call EXCEPT ![t] =
                      [Idle EXCEPT !.pc = IF kind = "export" THEN "read" ELSE "enter",
                                   !.kind = kind, !.id = made', !.wrapped = wrapped]]
  BY DEF Begin
<1>2. made \in Nat /\ made' = made + 1 /\ call[t].pc = "idle"
      /\ UNCHANGED <<db, draft, writer, lock, ledger, mirror, crashes, ok, refused,
                     broken, early, lost>>
  BY DEF Begin, base, filed, answered, Inv, TypeOK, At
<1> DEFINE row == [Idle EXCEPT !.pc = IF kind = "export" THEN "read" ELSE "enter",
                               !.kind = kind, !.id = made', !.wrapped = wrapped]
<1>3. row \in CallRow
  <2>1. made' \in Nat /\ kind \in Kinds /\ wrapped \in BOOLEAN
    BY <1>2
  <2> QED
    BY <2>1, IdleRow DEF CallRow, Pc
<1>4. /\ row.id = made + 1 /\ row.depth = 0 /\ (row.wrapped => row.kind = "send")
      /\ row.pc \in {"read", "enter"} /\ (row.pc = "read" => row.kind = "export")
  BY <1>1, <1>2 DEF Idle
<1> HIDE DEF row
<1>5. Alone(t) /\ call'[t] = row
  BY <1>1, <1>3 DEF row, Alone, Inv, TypeOK
<1>6. Known' = Known /\ 0..made \subseteq 0..made' /\ made' \in 0..made'
  BY <1>2 DEF Known
<1>10. TypeOK'
  BY <1>2, <1>4, <1>5 DEF Inv, TypeOK, Alone
<1>11. Stages'
  BY <1>2, <1>4, <1>5 DEF Inv, Stages, At, Alone, Kept
<1>12. Locks'
  BY <1>2, <1>4, <1>5, RecordsAssumption
     DEF Inv, Locks, Inside, At, Alone, Kept, Stages, TypeOK
<1>13. Drafts'
  BY <1>2, <1>4, <1>5, RecordsAssumption
     DEF Inv, Drafts, Inside, At, Locks, Alone, Kept, TypeOK
<1>14. Follows(db)' /\ Follows(draft)'
  BY <1>2, <1>4, <1>5, FollowsNext DEF Inv
<1>15. Dated'
  BY <1>2, <1>4, <1>5, <1>6 DEF Inv, Dated, Alone
<1>16. Fresh'
  BY <1>2, <1>4, <1>5 DEF Inv, Dated, Fresh, Known, Before, After, At, Alone, Kept
<1>17. Distinct'
  BY <1>2, <1>4, <1>5 DEF Inv, Dated, Distinct, Before, At, Alone, Kept
<1>18. Copies'
  BY <1>2, <1>4, <1>5 DEF Inv, Copies, At, Alone
<1>19. SentIsKept'
  BY <1>2, <1>4, <1>5 DEF Inv, SentIsKept, Fresh, Before, At, Known
<1>20. EditsAreSerial'
  BY <1>2, <1>4, <1>5 DEF Inv, EditsAreSerial
<1>21. MirrorIsHonest'
  BY <1>2, <1>4, <1>5 DEF Inv, MirrorIsHonest
<1> QED
  BY <1>10, <1>11, <1>12, <1>13, <1>14, <1>15, <1>16, <1>17, <1>18, <1>19, <1>20, <1>21
     DEF Inv

\* A block is entered.
LEMMA EnterKeeps == ASSUME Inv, NEW t \in Threads, Enter(t) PROVE Inv'
<1>1. At(t, "enter")
      /\ UNCHANGED <<db, draft, writer, ledger, mirror, made, crashes, ok, refused,
                     broken, early, lost>>
  BY DEF Enter, filed, answered
<1>2. CASE /\ Nested(t) /\ UNCHANGED lock
           /\ call' = [call EXCEPT ![t].pc = "in", ![t].depth = @ + 1]
  <2>1. Inside(t) /\ call[t].depth = 1 /\ call[t].wrapped /\ call[t].kind = "send"
        /\ call[t] \in CallRow
    BY <1>1, <1>2 DEF Inv, Locks, Nested, Inside, At, Stages, TypeOK
  <2> DEFINE row == [call[t] EXCEPT !.pc = "in", !.depth = @ + 1]
  <2>2. /\ row \in CallRow /\ row.kind = call[t].kind /\ row.id = call[t].id
        /\ row.outer = call[t].outer /\ row.wrapped = call[t].wrapped
        /\ row.mark = call[t].mark /\ row.copy = call[t].copy /\ row.since = call[t].since
        /\ row.depth = 2 /\ row.pc = "in"
    <3>1. call[t].depth + 1 = 2
      BY <2>1
    <3> QED
      BY <2>1, <3>1 DEF CallRow, Pc
  <2>3. call' = [call EXCEPT ![t] = row]
    BY <1>2
  <2> HIDE DEF row
  <2>4. Alone(t) /\ Kept(t) /\ call'[t].pc = "in" /\ call'[t].depth = 2
    BY <2>2, <2>3 DEF Alone, Kept, Inv, TypeOK
  <2>10. TypeOK'
    BY <1>1, <1>2, <2>1, <2>4 DEF Inv, TypeOK, Alone
  <2>11. Stages'
    BY <1>1, <1>2, <2>1, <2>4 DEF Inv, Stages, At, Alone, Kept
  <2>12. Locks'
    BY <1>1, <1>2, <2>1, <2>4, RecordsAssumption
       DEF Inv, Locks, Inside, At, Alone, Kept, Stages, TypeOK
  <2>13. Drafts'
    BY <1>1, <1>2, <2>1, <2>4, RecordsAssumption
       DEF Inv, Drafts, Inside, At, Locks, Alone, Kept, TypeOK
  <2>14. Follows(db)' /\ Follows(draft)'
    BY <1>1, <1>2, <2>1, <2>4, FollowsNext DEF Inv
  <2>15. Dated'
    BY <1>1, <1>2, <2>1, <2>4 DEF Inv, Dated, Known, Alone, Kept
  <2>16. Fresh'
    BY <1>1, <1>2, <2>1, <2>4 DEF Inv, Fresh, Known, Before, After, At, Alone, Kept
  <2>17. Distinct'
    BY <1>1, <1>2, <2>1, <2>4 DEF Inv, Dated, Distinct, Before, At, Alone, Kept
  <2>18. Copies'
    BY <1>1, <1>2, <2>1, <2>4 DEF Inv, Copies, At, Alone
  <2>19. SentIsKept'
    BY <1>1, <1>2, <2>1, <2>4 DEF Inv, SentIsKept, Fresh, Before, At, Known
  <2>20. EditsAreSerial'
    BY <1>1, <1>2, <2>1, <2>4 DEF Inv, EditsAreSerial
  <2>21. MirrorIsHonest'
    BY <1>1, <1>2, <2>1, <2>4 DEF Inv, MirrorIsHonest
  <2> QED
    BY <2>10, <2>11, <2>12, <2>13, <2>14, <2>15, <2>16, <2>17, <2>18, <2>19, <2>20, <2>21
       DEF Inv
<1>3. CASE /\ ~Nested(t) /\ lock[Conn[t]] = NoThread
           /\ lock' = [lock EXCEPT ![Conn[t]] = t]
           /\ Goes(t, "begin")
  <2>1. Alone(t) /\ Kept(t) /\ call'[t].pc = "begin" /\ call'[t].depth = call[t].depth
    BY <1>3, GoesTo DEF Inv, Pc
  <2>2. ~Inside(t)
    BY <1>3, RecordsAssumption DEF Inv, Locks
  <2>10. TypeOK'
    BY <1>1, <1>3, <2>1, <2>2 DEF Inv, TypeOK, Alone
  <2>11. Stages'
    BY <1>1, <1>3, <2>1, <2>2 DEF Inv, Stages, At, Alone, Kept
  <2>12. Locks'
    BY <1>1, <1>3, <2>1, <2>2, RecordsAssumption
       DEF Inv, Locks, Inside, At, Alone, Kept, Stages, TypeOK
  <2>13. Drafts'
    BY <1>1, <1>3, <2>1, <2>2, RecordsAssumption
       DEF Inv, Drafts, Inside, At, Locks, Alone, Kept, TypeOK
  <2>14. Follows(db)' /\ Follows(draft)'
    BY <1>1, <1>3, <2>1, <2>2, FollowsNext DEF Inv
  <2>15. Dated'
    BY <1>1, <1>3, <2>1, <2>2 DEF Inv, Dated, Known, Alone, Kept
  <2>16. Fresh'
    BY <1>1, <1>3, <2>1, <2>2 DEF Inv, Fresh, Known, Before, After, At, Alone, Kept
  <2>17. Distinct'
    BY <1>1, <1>3, <2>1, <2>2 DEF Inv, Dated, Distinct, Before, At, Alone, Kept
  <2>18. Copies'
    BY <1>1, <1>3, <2>1, <2>2 DEF Inv, Copies, At, Alone
  <2>19. SentIsKept'
    BY <1>1, <1>3, <2>1, <2>2 DEF Inv, SentIsKept, Fresh, Before, At, Known
  <2>20. EditsAreSerial'
    BY <1>1, <1>3, <2>1, <2>2 DEF Inv, EditsAreSerial
  <2>21. MirrorIsHonest'
    BY <1>1, <1>3, <2>1, <2>2 DEF Inv, MirrorIsHonest
  <2> QED
    BY <2>10, <2>11, <2>12, <2>13, <2>14, <2>15, <2>16, <2>17, <2>18, <2>19, <2>20, <2>21
       DEF Inv
<1> QED
  BY <1>2, <1>3 DEF Enter

\* A transaction begins, or the database stays busy.
LEMMA BeginImmediateKeeps == ASSUME Inv, NEW t \in Threads, BeginImmediate(t) PROVE Inv'
<1>1. At(t, "begin") /\ lock[Conn[t]] = t
      /\ UNCHANGED <<db, ledger, mirror, made, crashes, early, lost>>
  BY DEF BeginImmediate, filed, answered, Inv, Locks
<1>2. CASE /\ writer = NoConnection /\ writer' = Conn[t] /\ draft' = db
           /\ call' = [call EXCEPT ![t].depth = 1, ![t].outer = TRUE,
                         ![t].pc = IF call[t].wrapped THEN "enter" ELSE "in"]
           /\ UNCHANGED <<lock, ok, refused, broken>>
  <2>1. call[t] \in CallRow
    BY DEF Inv, TypeOK
  <2> DEFINE row == [call[t] EXCEPT !.depth = 1, !.outer = TRUE,
                       !.pc = IF call[t].wrapped THEN "enter" ELSE "in"]
  <2>2. /\ row \in CallRow /\ row.kind = call[t].kind /\ row.id = call[t].id /\ row.outer
        /\ row.wrapped = call[t].wrapped /\ row.copy = call[t].copy /\ row.depth = 1
        /\ row.pc = IF call[t].wrapped THEN "enter" ELSE "in"
    BY <2>1 DEF CallRow, Pc
  <2>3. call' = [call EXCEPT ![t] = row]
    BY <1>2
  <2> HIDE DEF row
  <2>4. Alone(t) /\ call'[t] = row
    BY <2>2, <2>3 DEF Alone, Inv, TypeOK
  <2>5. \A u \in Threads : ~Inside(u)
    BY <1>2, RecordsAssumption DEF Inv, Locks
  <2>10. TypeOK'
    BY <1>1, <1>2, <2>2, <2>4, <2>5, RecordsAssumption DEF Inv, TypeOK, Alone
  <2>11. Stages'
    BY <1>1, <1>2, <2>2, <2>4, <2>5 DEF Inv, Stages, At, Alone, Kept
  <2>12. Locks'
    BY <1>1, <1>2, <2>2, <2>4, <2>5, RecordsAssumption
       DEF Inv, Locks, Inside, At, Alone, Kept, Stages, TypeOK
  <2>13. Drafts'
    BY <1>1, <1>2, <2>2, <2>4, <2>5, RecordsAssumption
       DEF Inv, Drafts, Inside, At, Locks, Alone, Kept, TypeOK
  <2>14. Follows(db)' /\ Follows(draft)'
    BY <1>1, <1>2, <2>2, <2>4, <2>5, FollowsNext DEF Inv
  <2>15. Dated'
    BY <1>1, <1>2, <2>2, <2>4, <2>5 DEF Inv, Dated, Known, Alone, Kept
  <2>16. Fresh'
    BY <1>1, <1>2, <2>2, <2>4, <2>5 DEF Inv, Fresh, Known, Before, After, At, Alone, Kept
  <2>17. Distinct'
    BY <1>1, <1>2, <2>2, <2>4, <2>5 DEF Inv, Dated, Distinct, Before, At, Alone, Kept
  <2>18. Copies'
    BY <1>1, <1>2, <2>2, <2>4, <2>5 DEF Inv, Copies, At, Alone
  <2>19. SentIsKept'
    BY <1>1, <1>2, <2>2, <2>4, <2>5 DEF Inv, SentIsKept, Fresh, Before, At, Known
  <2>20. EditsAreSerial'
    BY <1>1, <1>2, <2>2, <2>4, <2>5 DEF Inv, EditsAreSerial
  <2>21. MirrorIsHonest'
    BY <1>1, <1>2, <2>2, <2>4, <2>5 DEF Inv, MirrorIsHonest
  <2> QED
    BY <2>10, <2>11, <2>12, <2>13, <2>14, <2>15, <2>16, <2>17, <2>18, <2>19, <2>20, <2>21
       DEF Inv
<1>3. CASE /\ writer # NoConnection /\ Frees(t) /\ Raises(t)
           /\ UNCHANGED <<writer, draft>>
  <2>1. Alone(t) /\ call'[t].pc = "idle" /\ call'[t].id = 0 /\ ~call'[t].wrapped
    BY <1>3, Stops DEF Inv, Raises
  <2>2. /\ lock' = [lock EXCEPT ![Conn[t]] = NoThread]
        /\ refused' = refused \cup (IF call[t].kind = "send" THEN {call[t].id} ELSE {})
        /\ UNCHANGED <<ok, broken>> /\ call[t].id \in Nat
    BY <1>3 DEF Frees, Raises, Sent, Inv, TypeOK, CallRow
  <2>3. ~Inside(t)
    BY <1>1 DEF Inside, At
  <2>4. UNCHANGED writer
    BY <1>3
  <2>10. TypeOK'
    BY <1>1, <1>3, <2>1, <2>2, <2>3 DEF Inv, TypeOK, Alone
  <2>11. Stages'
    BY <1>1, <1>3, <2>1, <2>2, <2>3 DEF Inv, Stages, At, Alone, Kept
  <2>12. Locks'
    BY <1>1, <2>1, <2>2, <2>3, <2>4, LetsGo DEF Inside, At
  <2>13. Drafts'
    BY <1>1, <1>3, <2>1, <2>2, <2>3, RecordsAssumption
       DEF Inv, Drafts, Inside, At, Locks, Alone, Kept, TypeOK
  <2>14. Follows(db)' /\ Follows(draft)'
    BY <1>1, <1>3, <2>1, <2>2, <2>3, FollowsNext DEF Inv
  <2>15. Dated'
    <3>1. Known' \subseteq Known \cup {call[t].id} /\ call[t].id \in 0..made /\ 0 \in 0..made
      BY <1>1, <2>2 DEF Known, Inv, Dated, TypeOK
    <3> QED
      BY <1>1, <2>1, <3>1 DEF Inv, Dated, Alone
  <2>16. Fresh'
    BY <1>1, <1>3, <2>1, <2>2, <2>3
       DEF Inv, Fresh, Known, Before, After, At, Alone, Kept, Distinct
  <2>17. Distinct'
    BY <1>1, <1>3, <2>1, <2>2, <2>3 DEF Inv, Dated, Distinct, Before, At, Alone, Kept
  <2>18. Copies'
    BY <1>1, <1>3, <2>1, <2>2, <2>3 DEF Inv, Copies, At, Alone
  <2>19. SentIsKept'
    BY <1>1, <1>3, <2>1, <2>2, <2>3 DEF Inv, SentIsKept, Fresh, Before, At, Known
  <2>20. EditsAreSerial'
    BY <1>1, <1>3, <2>1, <2>2, <2>3 DEF Inv, EditsAreSerial
  <2>21. MirrorIsHonest'
    BY <1>1, <1>3, <2>1, <2>2, <2>3 DEF Inv, MirrorIsHonest
  <2> QED
    BY <2>10, <2>11, <2>12, <2>13, <2>14, <2>15, <2>16, <2>17, <2>18, <2>19, <2>20, <2>21
       DEF Inv
<1> QED
  BY <1>2, <1>3 DEF BeginImmediate, answered

\* A block ends.
LEMMA ExitKeeps == ASSUME Inv, NEW t \in Threads, Exit(t) PROVE Inv'
<1>1. /\ At(t, "exit") /\ Inside(t) /\ call[t] \in CallRow /\ call[t].depth # 0
      /\ call[t].outer /\ lock[Conn[t]] = t /\ writer = Conn[t]
      /\ UNCHANGED <<draft, ledger, mirror, made, crashes, early, lost>>
  BY DEF Exit, Inside, At, Inv, Locks, TypeOK, filed
<1>2. CASE call[t].depth > 1
  <2>1. /\ call' = [call EXCEPT ![t].depth = @ - 1, ![t].pc = "mirror"]
        /\ UNCHANGED <<db, writer, lock, ok, refused, broken>>
    BY <1>2 DEF Exit, answered
  <2>2. call[t].depth = 2 /\ call[t].wrapped /\ call[t].kind = "send"
    BY <1>1, <1>2 DEF CallRow, Inv, Stages, At
  <2> DEFINE row == [call[t] EXCEPT !.depth = @ - 1, !.pc = "mirror"]
  <2>3. /\ row \in CallRow /\ row.kind = call[t].kind /\ row.id = call[t].id
        /\ row.outer = call[t].outer /\ row.wrapped = call[t].wrapped
        /\ row.depth = 1 /\ row.pc = "mirror"
    <3>1. call[t].depth - 1 = 1
      BY <2>2
    <3> QED
      BY <1>1, <3>1 DEF CallRow, Pc
  <2>4. call' = [call EXCEPT ![t] = row]
    BY <2>1
  <2> HIDE DEF row
  <2>5. Alone(t) /\ call'[t] = row
    BY <2>3, <2>4 DEF Alone, Inv, TypeOK
  <2>10. TypeOK'
    BY <1>1, <2>1, <2>2, <2>3, <2>5 DEF Inv, TypeOK, Alone
  <2>11. Stages'
    BY <1>1, <2>1, <2>2, <2>3, <2>5 DEF Inv, Stages, At, Alone, Kept
  <2>12. Locks'
    BY <1>1, <2>1, <2>2, <2>3, <2>5, RecordsAssumption
       DEF Inv, Locks, Inside, At, Alone, Kept, Stages, TypeOK
  <2>13. Drafts'
    BY <1>1, <2>1, <2>2, <2>3, <2>5, RecordsAssumption
       DEF Inv, Drafts, Inside, At, Locks, Alone, Kept, TypeOK
  <2>14. Follows(db)' /\ Follows(draft)'
    BY <1>1, <2>1, <2>2, <2>3, <2>5, FollowsNext DEF Inv
  <2>15. Dated'
    BY <1>1, <2>1, <2>2, <2>3, <2>5 DEF Inv, Dated, Known, Alone, Kept, TypeOK
  <2>16. Fresh'
    BY <1>1, <2>1, <2>2, <2>3, <2>5 DEF Inv, Fresh, Known, Before, After, At, Alone, Kept, Stages
  <2>17. Distinct'
    BY <1>1, <2>1, <2>2, <2>3, <2>5 DEF Inv, Dated, Distinct, Before, At, Alone, Kept
  <2>18. Copies'
    BY <1>1, <2>1, <2>2, <2>3, <2>5 DEF Inv, Copies, At, Alone
  <2>19. SentIsKept'
    BY <1>1, <2>1, <2>2, <2>3, <2>5 DEF Inv, SentIsKept, Fresh, Before, After, At, Known
  <2>20. EditsAreSerial'
    BY <1>1, <2>1, <2>2, <2>3, <2>5 DEF Inv, EditsAreSerial
  <2>21. MirrorIsHonest'
    BY <1>1, <2>1, <2>2, <2>3, <2>5 DEF Inv, MirrorIsHonest
  <2> QED
    BY <2>10, <2>11, <2>12, <2>13, <2>14, <2>15, <2>16, <2>17, <2>18, <2>19, <2>20, <2>21
       DEF Inv
<1>3. ASSUME call[t].depth = 1
      PROVE  /\ db' = draft /\ writer' = NoConnection
             /\ lock' = [lock EXCEPT ![Conn[t]] = NoThread]
             /\ \A u \in Threads : u # t => ~Inside(u)
  <2>1. \A u \in Threads : u # t => ~Inside(u)
    BY <1>1, OneTransaction
  <2> QED
    BY <1>1, <1>3, <2>1 DEF Exit, Frees
<1>4. ASSUME call[t].depth = 1, call[t].kind = "send"
      PROVE  Elements(db'.messages) = Elements(db.messages) \cup {call[t].id}
  <2>1. db'.messages = Append(db.messages, call[t].id) /\ db.messages \in Seq(Nat)
        /\ call[t].id \in Nat
    BY <1>1, <1>3, <1>4 DEF Inv, Drafts, TypeOK, Rows, CallRow, At
  <2> QED
    BY <2>1, ElementsAppend
<1>5. CASE call[t].depth = 1 /\ call[t].kind = "send" /\ ~call[t].wrapped
  <2> DEFINE row == [call[t] EXCEPT !.depth = 0, !.outer = FALSE, !.pc = "mirror"]
  <2>1. /\ row \in CallRow /\ row.kind = call[t].kind /\ row.id = call[t].id /\ ~row.outer
        /\ row.wrapped = call[t].wrapped /\ row.depth = 0 /\ row.pc = "mirror"
    BY <1>1 DEF CallRow, Pc
  <2>2. call' = [call EXCEPT ![t] = row] /\ UNCHANGED <<ok, refused, broken>>
    <3>1. ~(call[t].depth > 1)
      BY <1>5
    <3> QED
      BY <1>5, <3>1, Zenon DEF Exit, answered
  <2> HIDE DEF row
  <2>3. Alone(t) /\ call'[t] = row
    BY <2>1, <2>2 DEF Alone, Inv, TypeOK
  <2>4. Known' = Known \cup {call[t].id}
    BY <1>4, <1>5, <2>2 DEF Known
  <2>10. TypeOK'
    BY <1>1, <1>3, <1>4, <1>5, <2>1, <2>2, <2>3, <2>4 DEF Inv, TypeOK, Alone
  <2>11. Stages'
    BY <1>1, <1>3, <1>4, <1>5, <2>1, <2>2, <2>3, <2>4 DEF Inv, Stages, At, Alone, Kept
  <2>12. Locks'
    BY <1>1, <1>3, <1>5, <2>1, <2>3, LetsGo DEF Inside, At
  <2>13. Drafts'
    BY <1>1, <1>3, <1>4, <1>5, <2>1, <2>2, <2>3, <2>4, RecordsAssumption
       DEF Inv, Drafts, Inside, At, Locks, Alone, Kept, TypeOK
  <2>14. Follows(db)' /\ Follows(draft)'
    BY <1>1, <1>3, <1>4, <1>5, <2>1, <2>2, <2>3, <2>4, FollowsNext DEF Inv
  <2>15. Dated'
    BY <1>1, <1>3, <1>4, <1>5, <2>1, <2>2, <2>3, <2>4 DEF Inv, Dated, Known, Alone, Kept, TypeOK
  <2>16. Fresh'
    BY <1>1, <1>3, <1>4, <1>5, <2>1, <2>2, <2>3, <2>4
       DEF Inv, Fresh, Before, After, At, Alone, Distinct
  <2>17. Distinct'
    BY <1>1, <1>3, <1>4, <1>5, <2>1, <2>2, <2>3, <2>4
       DEF Inv, Dated, Distinct, Before, At, Alone, Kept
  <2>18. Copies'
    BY <1>1, <1>3, <1>4, <1>5, <2>1, <2>2, <2>3, <2>4 DEF Inv, Copies, At, Alone
  <2>19. SentIsKept'
    BY <1>1, <1>3, <1>4, <1>5, <2>1, <2>2, <2>3, <2>4
       DEF Inv, SentIsKept, Fresh, Before, After, At, Known
  <2>20. EditsAreSerial'
    BY <1>1, <1>3, <1>4, <1>5, <2>1, <2>2, <2>3, <2>4 DEF Inv, EditsAreSerial
  <2>21. MirrorIsHonest'
    BY <1>1, <1>3, <1>4, <1>5, <2>1, <2>2, <2>3, <2>4 DEF Inv, MirrorIsHonest
  <2> QED
    BY <2>10, <2>11, <2>12, <2>13, <2>14, <2>15, <2>16, <2>17, <2>18, <2>19, <2>20, <2>21
       DEF Inv
<1>6. CASE call[t].depth = 1 /\ call[t].kind = "send" /\ call[t].wrapped
  <2>1. /\ Alone(t) /\ call'[t].pc = "idle" /\ call'[t].id = 0 /\ ~call'[t].wrapped
        /\ ok' = ok \cup {call[t].id} /\ UNCHANGED <<refused, broken>>
    <3>1. Returns(t) /\ Sent(t) = {call[t].id}
      BY <1>6 DEF Exit, Sent
    <3> QED
      BY <3>1, Stops DEF Returns, Inv
  <2>2. Known' = Known \cup {call[t].id} /\ 0 \in 0..made /\ call[t].id \in Nat
    BY <1>1, <1>4, <1>6, <2>1 DEF Known, Inv, TypeOK, CallRow
  <2>10. TypeOK'
    BY <1>1, <1>3, <1>4, <1>6, <2>1, <2>2 DEF Inv, TypeOK, Alone
  <2>11. Stages'
    BY <1>1, <1>3, <1>4, <1>6, <2>1, <2>2 DEF Inv, Stages, At, Alone, Kept
  <2>12. Locks'
    BY <1>1, <1>3, <1>6, <2>1, LetsGo DEF Inside, At
  <2>13. Drafts'
    BY <1>1, <1>3, <1>4, <1>6, <2>1, <2>2, RecordsAssumption
       DEF Inv, Drafts, Inside, At, Locks, Alone, Kept, TypeOK
  <2>14. Follows(db)' /\ Follows(draft)'
    BY <1>1, <1>3, <1>4, <1>6, <2>1, <2>2, FollowsNext DEF Inv
  <2>15. Dated'
    BY <1>1, <2>1, <2>2 DEF Inv, Dated, Alone
  <2>16. Fresh'
    BY <1>1, <1>3, <1>4, <1>6, <2>1, <2>2
       DEF Inv, Fresh, Before, After, At, Alone, Distinct
  <2>17. Distinct'
    BY <1>1, <1>3, <1>4, <1>6, <2>1, <2>2 DEF Inv, Dated, Distinct, Before, At, Alone, Kept
  <2>18. Copies'
    BY <1>1, <1>3, <1>4, <1>6, <2>1, <2>2 DEF Inv, Copies, At, Alone
  <2>19. SentIsKept'
    BY <1>1, <1>3, <1>4, <1>6, <2>1, <2>2 DEF Inv, SentIsKept, Fresh, Before, After, At, Known
  <2>20. EditsAreSerial'
    BY <1>1, <1>3, <1>4, <1>6, <2>1, <2>2 DEF Inv, EditsAreSerial
  <2>21. MirrorIsHonest'
    BY <1>1, <1>3, <1>4, <1>6, <2>1, <2>2 DEF Inv, MirrorIsHonest
  <2> QED
    BY <2>10, <2>11, <2>12, <2>13, <2>14, <2>15, <2>16, <2>17, <2>18, <2>19, <2>20, <2>21
       DEF Inv
<1>7. CASE call[t].depth = 1 /\ call[t].kind # "send"
  <2>1. /\ Alone(t) /\ call'[t].pc = "idle" /\ call'[t].id = 0 /\ ~call'[t].wrapped
        /\ UNCHANGED <<ok, refused, broken>>
    <3>1. Returns(t) /\ Sent(t) = {}
      BY <1>7 DEF Exit, Sent
    <3> QED
      BY <3>1, Stops DEF Returns, Inv
  <2>2. db'.messages = db.messages
    BY <1>1, <1>3, <1>7 DEF Inv, Drafts
  <2>3. Elements(db'.messages) = Elements(db.messages) /\ Known' = Known /\ 0 \in 0..made
    BY <2>1, <2>2 DEF Known, Inv, TypeOK
  <2>10. TypeOK'
    BY <1>1, <1>3, <1>7, <2>1, <2>3 DEF Inv, TypeOK, Alone
  <2>11. Stages'
    BY <1>1, <1>3, <1>7, <2>1, <2>3 DEF Inv, Stages, At, Alone, Kept
  <2>12. Locks'
    BY <1>1, <1>3, <1>7, <2>1, LetsGo DEF Inside, At
  <2>13. Drafts'
    BY <1>1, <1>3, <1>7, <2>1, <2>3, RecordsAssumption
       DEF Inv, Drafts, Inside, At, Locks, Alone, Kept, TypeOK
  <2>14. Follows(db)' /\ Follows(draft)'
    BY <1>1, <1>3, <1>7, <2>1, <2>3, FollowsNext DEF Inv
  <2>15. Dated'
    BY <1>1, <1>3, <1>7, <2>1, <2>3 DEF Inv, Dated, Known, Alone, Kept, TypeOK
  <2>16. Fresh'
    BY <1>1, <1>3, <1>7, <2>1, <2>3
       DEF Inv, Fresh, Known, Before, After, At, Alone, Kept, Stages
  <2>17. Distinct'
    BY <1>1, <1>3, <1>7, <2>1, <2>3 DEF Inv, Dated, Distinct, Before, At, Alone, Kept
  <2>18. Copies'
    BY <1>1, <1>3, <1>7, <2>1, <2>3 DEF Inv, Copies, At, Alone
  <2>19. SentIsKept'
    BY <1>1, <1>3, <1>7, <2>1, <2>3 DEF Inv, SentIsKept, Fresh, Before, After, At, Known
  <2>20. EditsAreSerial'
    BY <1>1, <1>3, <1>7, <2>1, <2>3 DEF Inv, EditsAreSerial
  <2>21. MirrorIsHonest'
    BY <1>1, <1>3, <1>7, <2>1, <2>3 DEF Inv, MirrorIsHonest
  <2> QED
    BY <2>10, <2>11, <2>12, <2>13, <2>14, <2>15, <2>16, <2>17, <2>18, <2>19, <2>20, <2>21
       DEF Inv
<1> QED
  BY <1>1, <1>2, <1>5, <1>6, <1>7 DEF CallRow

\* A body raises.
LEMMA FailsKeeps == ASSUME Inv, NEW t \in Threads, Fails(t) PROVE Inv'
<1>1. Inside(t) /\ call[t].id \in Nat
  BY DEF Fails, Inside, At, Inv, TypeOK, CallRow
<1>2. call[t].outer /\ writer = Conn[t]
  BY <1>1 DEF Inv, Locks
<1>3. writer' = NoConnection /\ lock' = [lock EXCEPT ![Conn[t]] = NoThread]
      /\ UNCHANGED <<db, draft, ledger, mirror, made, crashes, early, lost, ok, broken>>
  BY <1>2 DEF Fails, Frees, Raises, filed, answered
<1>4. Alone(t) /\ call'[t].pc = "idle" /\ call'[t].id = 0 /\ ~call'[t].wrapped
  BY Stops DEF Fails, Raises, Inv
<1>5. \A u \in Threads : u # t => ~Inside(u)
  BY <1>1, OneTransaction
<1>6. refused' = refused \/ (refused' = refused \cup {call[t].id} /\ Before(t))
  BY DEF Fails, Raises, Sent, Before, At, Inv, Stages
<1>7. lock[Conn[t]] = t
  BY <1>1 DEF Inv, Locks
<1>10. TypeOK'
  BY <1>1, <1>3, <1>4, <1>5, <1>6 DEF Inv, TypeOK, Alone
<1>11. Stages'
  BY <1>1, <1>3, <1>4, <1>5, <1>6 DEF Inv, Stages, At, Alone, Kept
<1>12. Locks'
  BY <1>1, <1>2, <1>3, <1>4, <1>7, LetsGo DEF Inside, At
<1>13. Drafts'
  BY <1>4, <1>5 DEF Drafts, Inside, At, Alone
<1>14. Follows(db)' /\ Follows(draft)'
  BY <1>1, <1>3, <1>4, <1>5, <1>6, FollowsNext DEF Inv
<1>15. Dated'
  <2>1. Known' \subseteq Known \cup {call[t].id} /\ call[t].id \in 0..made
    BY <1>3, <1>6 DEF Known, Inv, Dated
  <2> QED
    BY <1>3, <1>4, <2>1 DEF Inv, Dated, TypeOK, Alone
<1>16. Fresh'
  BY <1>1, <1>3, <1>4, <1>5, <1>6
     DEF Inv, Fresh, Known, Before, After, At, Alone, Kept, Distinct
<1>17. Distinct'
  BY <1>1, <1>3, <1>4, <1>5, <1>6 DEF Inv, Dated, Distinct, Before, At, Alone, Kept
<1>18. Copies'
  BY <1>1, <1>3, <1>4, <1>5, <1>6 DEF Inv, Copies, At, Alone
<1>19. SentIsKept'
  BY <1>1, <1>3, <1>4, <1>5, <1>6 DEF Inv, SentIsKept, Fresh, Before, At, Known
<1>20. EditsAreSerial'
  BY <1>1, <1>3, <1>4, <1>5, <1>6 DEF Inv, EditsAreSerial
<1>21. MirrorIsHonest'
  BY <1>1, <1>3, <1>4, <1>5, <1>6 DEF Inv, MirrorIsHonest
<1> QED
  BY <1>10, <1>11, <1>12, <1>13, <1>14, <1>15, <1>16, <1>17, <1>18, <1>19, <1>20, <1>21
     DEF Inv

LEMMA FailsAfterCommitKeeps == ASSUME Inv, NEW t \in Threads, FailsAfterCommit(t) PROVE Inv'
<1>1. /\ At(t, "handoff") /\ After(t) /\ ~Inside(t) /\ lock[Conn[t]] # t /\ call[t].id \in Nat
      /\ UNCHANGED <<db, draft, writer, lock, ledger, mirror, made, crashes, ok, refused,
                     early, lost>>
  BY DEF FailsAfterCommit, base, filed, Inv, Stages, Locks, Inside, After, At, TypeOK, CallRow
<1>2. /\ Alone(t) /\ call'[t].pc = "idle" /\ call'[t].id = 0 /\ ~call'[t].wrapped
      /\ broken' = broken \cup {call[t].id}
  BY <1>1, Stops DEF FailsAfterCommit, Inv, Sent, After
<1>3. call[t].id \in Elements(db.messages) /\ Known' = Known /\ 0 \in 0..made
  BY <1>1, <1>2 DEF Inv, Fresh, Known, TypeOK
<1>10. TypeOK'
  BY <1>1, <1>2, <1>3 DEF Inv, TypeOK, Alone
<1>11. Stages'
  BY <1>1, <1>2, <1>3 DEF Inv, Stages, At, Alone, Kept
<1>12. Locks'
  BY <1>1, <1>2, Outside DEF Inside, At
<1>13. Drafts'
  BY <1>1, <1>2, Outside DEF Inside, At
<1>14. Follows(db)' /\ Follows(draft)'
  BY <1>1, <1>2, <1>3, FollowsNext DEF Inv
<1>15. Dated'
  BY <1>1, <1>2, <1>3 DEF Inv, Dated, Alone
<1>16. Fresh'
  BY <1>1, <1>2, <1>3 DEF Inv, Fresh, Known, Before, After, At, Alone, Kept, Stages
<1>17. Distinct'
  BY <1>1, <1>2, <1>3 DEF Inv, Dated, Distinct, Before, At, Alone, Kept
<1>18. Copies'
  BY <1>1, <1>2, <1>3 DEF Inv, Copies, At, Alone
<1>19. SentIsKept'
  BY <1>1, <1>2, <1>3 DEF Inv, SentIsKept, Fresh, Before, After, At, Known
<1>20. EditsAreSerial'
  BY <1>1, <1>2, <1>3 DEF Inv, EditsAreSerial
<1>21. MirrorIsHonest'
  BY <1>1, <1>2, <1>3 DEF Inv, MirrorIsHonest
<1> QED
  BY <1>10, <1>11, <1>12, <1>13, <1>14, <1>15, <1>16, <1>17, <1>18, <1>19, <1>20, <1>21
     DEF Inv

\* The bodies of the calls.
LEMMA AppendMessageKeeps == ASSUME Inv, NEW t \in Threads, AppendMessage(t) PROVE Inv'
<1>1. /\ At(t, "in") /\ call[t].kind = "send" /\ Inside(t) /\ call[t].id \in Nat
      /\ UNCHANGED <<db, writer, lock, ledger, mirror, made, crashes, ok, refused,
                     broken, early, lost>>
  BY DEF AppendMessage, Inside, At, filed, answered, Inv, TypeOK, CallRow
<1>2. Alone(t) /\ Kept(t) /\ call'[t].pc = "exit" /\ call'[t].depth = call[t].depth
  BY GoesTo DEF AppendMessage, Inv, Pc
<1>3. draft' = [draft EXCEPT !.messages = Append(draft.messages, call[t].id)]
      /\ draft \in Rows
  BY DEF AppendMessage, Inv, TypeOK
<1>4. draft' \in Rows /\ draft'.messages = Append(draft.messages, call[t].id)
      /\ draft'.mark = draft.mark /\ draft'.index = draft.index
  <2>1. draft.messages \in Seq(Nat)
    BY <1>3 DEF Rows
  <2>2. Append(draft.messages, call[t].id) \in Seq(Nat)
    BY <1>1, <2>1, AppendProperties
  <2> QED
    BY <1>3, <2>2 DEF Rows
<1>5. \A u \in Threads : u # t => ~Inside(u)
  BY <1>1, OneTransaction
<1>6. draft.messages = db.messages
  BY <1>1 DEF Inv, Drafts, At
<1>7. Follows(draft')
  <2>1. call[t].id \in Nat \ Elements(draft.messages)
    BY <1>1, <1>6 DEF Inv, Fresh, Before, Known, At
  <2> QED
    BY <1>3, <1>4, <2>1, AppendFollows DEF Inv
<1>10. TypeOK'
  BY <1>1, <1>2, <1>4, <1>5, <1>7 DEF Inv, TypeOK, Alone
<1>11. Stages'
  BY <1>1, <1>2, <1>4, <1>5, <1>7 DEF Inv, Stages, At, Alone, Kept
<1>12. Locks'
  BY <1>1, <1>2, <1>4, <1>5, <1>7, RecordsAssumption
     DEF Inv, Locks, Inside, At, Alone, Kept, Stages, TypeOK
<1>13. Drafts'
  <2>1. \A u \in Threads : Inside(u)' => u = t
    BY <1>2, <1>5 DEF Inside, At, Alone
  <2>2. draft'.messages = Append(db'.messages, call'[t].id)
    BY <1>1, <1>2, <1>4, <1>6 DEF Kept
  <2>3. call'[t].pc = "exit" /\ call'[t].kind = "send" /\ ~At(t, "scan")'
    BY <1>1, <1>2 DEF At, Kept
  <2> QED
    BY <2>1, <2>2, <2>3 DEF Drafts
<1>14. Follows(db)' /\ Follows(draft)'
  BY <1>1, <1>2, <1>4, <1>5, <1>7, FollowsNext DEF Inv
<1>15. Dated'
  BY <1>1, <1>2, <1>4, <1>5, <1>7 DEF Inv, Dated, Known, Alone, Kept, TypeOK
<1>16. Fresh'
  BY <1>1, <1>2, <1>4, <1>5, <1>7 DEF Inv, Fresh, Known, Before, After, At, Alone, Kept, Stages
<1>17. Distinct'
  BY <1>1, <1>2, <1>4, <1>5, <1>7 DEF Inv, Dated, Distinct, Before, At, Alone, Kept
<1>18. Copies'
  BY <1>1, <1>2, <1>4, <1>5, <1>7 DEF Inv, Copies, At, Alone
<1>19. SentIsKept'
  BY <1>1, <1>2, <1>4, <1>5, <1>7 DEF Inv, SentIsKept, Fresh, Before, After, At, Known
<1>20. EditsAreSerial'
  BY <1>1, <1>2, <1>4, <1>5, <1>7 DEF Inv, EditsAreSerial
<1>21. MirrorIsHonest'
  BY <1>1, <1>2, <1>4, <1>5, <1>7 DEF Inv, MirrorIsHonest
<1> QED
  BY <1>10, <1>11, <1>12, <1>13, <1>14, <1>15, <1>16, <1>17, <1>18, <1>19, <1>20, <1>21
     DEF Inv

LEMMA LoadLedgerKeeps == ASSUME Inv, NEW t \in Threads, LoadLedger(t) PROVE Inv'
<1>1. UNCHANGED <<db, draft, writer, lock, ledger, mirror, made, crashes, ok, refused,
                  broken, early, lost>>
  BY DEF LoadLedger, base, filed, answered
<1>2. \/ At(t, "in") /\ call[t].kind # "send" /\ call[t].depth = 1
      \/ At(t, "handoff") /\ call[t].kind = "send"
  BY DEF LoadLedger, Inv, Stages, At
<1>3. call[t] \in CallRow /\ ledger \in Seq(Entry)
  BY DEF Inv, TypeOK
<1> DEFINE row == [call[t] EXCEPT !.pc = "save", !.copy = ledger, !.since = {}]
<1>4. /\ row \in CallRow /\ row.pc = "save" /\ row.kind = call[t].kind /\ row.id = call[t].id
      /\ row.outer = call[t].outer /\ row.wrapped = call[t].wrapped /\ row.copy = ledger
      /\ row.since = {} /\ row.depth = call[t].depth
  BY <1>3 DEF CallRow, Pc
<1>5. call' = [call EXCEPT ![t] = row]
  BY DEF LoadLedger
<1> HIDE DEF row
<1>6. Alone(t) /\ call'[t] = row
  BY <1>4, <1>5 DEF Alone, Inv, TypeOK
<1>10. TypeOK'
  BY <1>1, <1>2, <1>3, <1>4, <1>6 DEF Inv, TypeOK, Alone
<1>11. Stages'
  BY <1>1, <1>2, <1>3, <1>4, <1>6 DEF Inv, Stages, At, Alone, Kept
<1>12. Locks'
  BY <1>1, <1>2, <1>3, <1>4, <1>6, RecordsAssumption
     DEF Inv, Locks, Inside, At, Alone, Kept, Stages, TypeOK
<1>13. Drafts'
  BY <1>1, <1>2, <1>3, <1>4, <1>6, RecordsAssumption
     DEF Inv, Drafts, Inside, At, Locks, Alone, Kept, TypeOK
<1>14. Follows(db)' /\ Follows(draft)'
  BY <1>1, <1>2, <1>3, <1>4, <1>6, FollowsNext DEF Inv
<1>15. Dated'
  BY <1>1, <1>2, <1>3, <1>4, <1>6 DEF Inv, Dated, Known, Alone, Kept
<1>16. Fresh'
  BY <1>1, <1>2, <1>3, <1>4, <1>6 DEF Inv, Fresh, Known, Before, After, At, Alone, Kept
<1>17. Distinct'
  BY <1>1, <1>2, <1>3, <1>4, <1>6 DEF Inv, Dated, Distinct, Before, At, Alone, Kept
<1>18. Copies'
  BY <1>1, <1>2, <1>3, <1>4, <1>6 DEF Inv, Copies, At, Alone
<1>19. SentIsKept'
  BY <1>1, <1>2, <1>3, <1>4, <1>6 DEF Inv, SentIsKept, Fresh, Before, At, Known
<1>20. EditsAreSerial'
  BY <1>1, <1>2, <1>3, <1>4, <1>6 DEF Inv, EditsAreSerial
<1>21. MirrorIsHonest'
  BY <1>1, <1>2, <1>3, <1>4, <1>6 DEF Inv, MirrorIsHonest
<1> QED
  BY <1>10, <1>11, <1>12, <1>13, <1>14, <1>15, <1>16, <1>17, <1>18, <1>19, <1>20, <1>21
     DEF Inv

\* An edit and the file it makes.
LEMMA EditsType ==
    ASSUME Inv, NEW t \in Threads, At(t, "save"), NEW edited \in Edits(t)
    PROVE  edited \in Seq(Entry)
<1> DEFINE copy == call[t].copy
<1>1. copy \in Seq(Entry) /\ call[t] \in CallRow
  BY DEF Inv, Copies, TypeOK
<1>2. CASE call[t].kind = "remove"
  <2>1. PICK i \in 1..Len(copy) : edited = Removed(copy, i)
    BY <1>2 DEF Edits
  <2>2. Len(copy) \in Nat /\ Len(copy) - 1 \in Nat
    BY <1>1, <2>1
  <2>3. edited \in [1..Len(copy) - 1 -> Entry]
    BY <1>1, <2>1, <2>2 DEF Removed
  <2> QED
    BY <2>2, <2>3, IsASeq
<1>3. CASE call[t].kind # "remove"
  <2> DEFINE entry == [id |-> call[t].id, kind |-> call[t].kind]
             all   == Append(copy, entry)
  <2>1. entry \in Entry
    BY <1>1 DEF CallRow, Entry
  <2>2. all \in Seq(Entry) /\ Len(all) \in Nat
    BY <1>1, <2>1, AppendProperties
  <2>3. edited = IF Len(all) > Cap THEN SubSeq(all, Len(all) - Cap + 1, Len(all)) ELSE all
    BY <1>3 DEF Edits, Added
  <2> HIDE DEF all
  <2>4. CASE Len(all) > Cap
    <3>1. Len(all) - Cap + 1 \in Int /\ Len(all) \in Int /\ Len(all) - Cap + 1 >= 1
      BY <2>2, <2>4, RecordsAssumption
    <3>2. \A i \in Len(all) - Cap + 1..Len(all) : all[i] \in Entry
      BY <2>2, <3>1
    <3> QED
      BY <2>3, <2>4, <3>1, <3>2, SubSeqProperties
  <2> QED
    BY <2>2, <2>3, <2>4
<1> QED
  BY <1>2, <1>3

LEMMA SaveLedgerKeeps == ASSUME Inv, NEW t \in Threads, SaveLedger(t) PROVE Inv'
<1>1. /\ At(t, "save") /\ call[t] \in CallRow /\ call \in [Threads -> CallRow]
      /\ UNCHANGED <<db, draft, writer, lock, mirror, made, crashes, early>>
  BY DEF SaveLedger, base, Inv, TypeOK
<1>2. CASE ledger' = ledger /\ lost' = lost /\ Returns(t) /\ call[t].kind = "send"
  <2>1. Alone(t) /\ call'[t].pc = "idle" /\ call'[t].id = 0 /\ ~call'[t].wrapped
        /\ ok' = ok \cup {call[t].id} /\ refused' = refused /\ broken' = broken
        /\ call[t].id \in Nat
    BY <1>1, <1>2, Stops DEF Inv, Returns, Sent, CallRow
  <2>2. call[t].id \in Elements(db.messages) /\ Known' = Known
    BY <1>1, <1>2, <2>1 DEF Inv, Fresh, After, At, Known, Stages
  <2>3. ~Inside(t) /\ lock[Conn[t]] # t
    BY <1>1, <1>2 DEF Inv, Locks, Inside, At
  <2>10. TypeOK'
    BY <1>1, <1>2, <2>1, <2>2 DEF Inv, TypeOK, Alone
  <2>11. Stages'
    BY <1>1, <1>2, <2>1, <2>2 DEF Inv, Stages, At, Alone, Kept
  <2>12. Locks'
    BY <1>1, <2>1, <2>3, Outside DEF Inside, At
  <2>13. Drafts'
    BY <1>1, <2>1, <2>3, Outside DEF Inside, At
  <2>14. Follows(db)' /\ Follows(draft)'
    BY <1>1, <1>2, <2>1, <2>2, FollowsNext DEF Inv
  <2>15. Dated'
    BY <1>1, <1>2, <2>1, <2>2 DEF Inv, Dated, Known, Alone, Kept, TypeOK
  <2>16. Fresh'
    BY <1>1, <1>2, <2>1, <2>2 DEF Inv, Fresh, Known, Before, After, At, Alone, Kept
  <2>17. Distinct'
    BY <1>1, <1>2, <2>1, <2>2 DEF Inv, Dated, Distinct, Before, At, Alone, Kept
  <2>18. Copies'
    BY <1>1, <1>2, <2>1, <2>2 DEF Inv, Copies, At, Alone
  <2>19. SentIsKept'
    BY <1>1, <1>2, <2>1, <2>2 DEF Inv, SentIsKept, Fresh, Before, At, Known
  <2>20. EditsAreSerial'
    BY <1>1, <1>2, <2>1, <2>2 DEF Inv, EditsAreSerial
  <2>21. MirrorIsHonest'
    BY <1>1, <1>2, <2>1, <2>2 DEF Inv, MirrorIsHonest
  <2> QED
    BY <2>10, <2>11, <2>12, <2>13, <2>14, <2>15, <2>16, <2>17, <2>18, <2>19, <2>20, <2>21
       DEF Inv
<1>3. ASSUME NEW edited \in Edits(t), ledger' = edited,
             NEW next \in CallRow, call' = Overtaking(t, next),
             next.id \in {0, call[t].id}, ~next.wrapped, next.outer \/ next.pc = "idle",
             next.kind = call[t].kind, next.depth = call[t].depth \/ next.pc = "idle",
             next.pc = IF call[t].kind = "send" THEN "idle" ELSE "log",
             lost' = IF Overwritten(t) = {} THEN lost
                     ELSE lost \cup {{call[t].kind} \cup call[t].since},
             ok' = ok \cup Sent(t), refused' = refused, broken' = broken
      PROVE  Inv'
  <2>1. ledger' \in Seq(Entry)
    BY <1>1, <1>3, EditsType
  <2>2. \A u \in Threads : call[u] \in CallRow
    BY <1>1
  <2>3. \A u \in Threads :
          [call[u] EXCEPT !.since = @ \cup {call[t].kind}] \in CallRow
    BY <2>2 DEF CallRow
  <2>4. call' = [u \in Threads |-> IF u = t THEN next
                                   ELSE IF At(u, "save")
                                   THEN [call[u] EXCEPT !.since = @ \cup {call[t].kind}]
                                   ELSE call[u]]
    BY <1>3 DEF Overtaking
  <2>5. call' \in [Threads -> CallRow] /\ call'[t] = next
    BY <1>3, <2>2, <2>3, <2>4
  <2>6. \A u \in Threads : u # t =>
          /\ call'[u].pc = call[u].pc /\ call'[u].kind = call[u].kind
          /\ call'[u].id = call[u].id /\ call'[u].depth = call[u].depth
          /\ call'[u].outer = call[u].outer /\ call'[u].wrapped = call[u].wrapped
          /\ call'[u].mark = call[u].mark /\ call'[u].copy = call[u].copy
          /\ At(u, "save") => call'[u].since = call[u].since \cup {call[t].kind}
    BY <2>2, <2>4 DEF CallRow
  <2>7. ok' = ok \/ (ok' = ok \cup {call[t].id} /\ call[t].id \in Elements(db.messages))
    BY <1>1, <1>3 DEF Sent, Inv, Fresh, After, At, Stages
  <2>8. Known' = Known
    BY <1>1, <1>3, <2>7 DEF Known
  <2>9. call[t].since = {} => Overwritten(t) = {}
    BY <1>1 DEF Inv, Copies, Overwritten
  <2>10. TypeOK'
    <3>1. call[t].id \in Nat /\ {call[t].kind} \cup call[t].since \in SUBSET Kinds
      BY <1>1 DEF CallRow
    <3>2. lost' \subseteq SUBSET Kinds /\ ok' \subseteq Nat
      BY <1>3, <2>7, <3>1 DEF Inv, TypeOK
    <3> QED
      BY <1>1, <1>3, <2>1, <2>5, <3>2 DEF Inv, TypeOK
  <2>11. Stages'
    BY <1>1, <1>3, <2>1, <2>5, <2>6, <2>7, <2>8, <2>9 DEF Inv, Stages, At, Alone, Kept
  <2>12. Locks'
    <3>1. ASSUME NEW u \in Threads
          PROVE  /\ Inside(u)' <=> Inside(u)
                 /\ At(u, "begin")' <=> At(u, "begin")
                 /\ Inside(u) => call'[u].outer /\ call'[u].depth # 0
      <4>1. CASE u = t
        BY <1>1, <1>3, <2>5, <4>1 DEF Inv, Locks, Inside, At
      <4>2. CASE u # t
        BY <2>6, <4>2 DEF Inv, Locks, Inside, At
      <4> QED
        BY <4>1, <4>2
    <3> QED
      BY <1>1, <3>1, StayThere
  <2>13. Drafts'
    <3>1. ASSUME NEW u \in Threads, Inside(u)'
          PROVE  /\ Inside(u) /\ call'[u].kind = call[u].kind
                 /\ call[u].pc \in {"exit", "mirror"} => call'[u].id = call[u].id
                 /\ call'[u].pc = "scan" => call[u].pc = "scan" /\ call'[u].mark = call[u].mark
                 /\ call'[u].pc \in {"exit", "mirror"} <=> call[u].pc \in {"exit", "mirror"}
      <4>1. CASE u = t
        BY <1>1, <1>3, <2>5, <3>1, <4>1 DEF Inside, At
      <4>2. CASE u # t
        BY <2>6, <3>1, <4>2 DEF Inside, At
      <4> QED
        BY <4>1, <4>2
    <3> QED
      BY <1>1, <3>1 DEF Inv, Drafts, At
  <2>14. Follows(db)' /\ Follows(draft)'
    BY <1>1, <1>3, <2>1, <2>5, <2>6, <2>7, <2>8, <2>9, FollowsNext DEF Inv
  <2>15. Dated'
    <3>1. 0 \in 0..made /\ call[t].id \in 0..made
      BY DEF Inv, Dated, TypeOK
    <3>2. \A u \in Threads : call'[u].id \in 0..made
      BY <1>3, <2>5, <2>6, <3>1 DEF Inv, Dated
    <3> QED
      BY <1>1, <2>8, <3>2 DEF Inv, Dated
  <2>16. Fresh'
    BY <1>1, <1>3, <2>1, <2>5, <2>6, <2>7, <2>8, <2>9
       DEF Inv, Fresh, Known, Before, After, At, Alone, Kept
  <2>17. Distinct'
    BY <1>1, <1>3, <2>1, <2>5, <2>6, <2>7, <2>8, <2>9
       DEF Inv, Dated, Distinct, Before, At, Alone, Kept
  <2>18. Copies'
    <3>1. SUFFICES ASSUME NEW u \in Threads
                   PROVE  /\ At(u, "rebuild")' =>
                               /\ call'[u].copy \in Seq(Nat)
                               /\ Elements(call'[u].copy) \subseteq Elements(db.messages)
                          /\ At(u, "save")' =>
                               /\ call'[u].copy \in Seq(Entry)
                               /\ call'[u].since = {} => call'[u].copy = ledger'
                               /\ call'[u].kind # "send" => call'[u].since \subseteq {"send"}
      BY <1>1 DEF Copies
    <3>2. CASE u = t
      BY <1>3, <2>5, <3>2 DEF At
    <3>3. CASE u # t /\ At(u, "save")
      <4>1. call'[u].kind # "send" => call[t].kind = "send"
        BY <1>1, <2>6, <3>3, OneTransaction DEF Inside, At
      <4>2. call[t].kind \in call'[u].since
        BY <2>6, <3>3
      <4>3. call'[u].kind # "send" => call'[u].since \subseteq {"send"}
        BY <2>6, <3>3, <4>1 DEF Inv, Copies
      <4>4. call'[u].copy \in Seq(Entry) /\ call'[u].pc = "save"
        BY <2>6, <3>3 DEF Inv, Copies, At
      <4> QED
        BY <4>2, <4>3, <4>4 DEF At
    <3>4. CASE u # t /\ ~At(u, "save")
      BY <2>6, <3>4 DEF Inv, Copies, At
    <3> QED
      BY <3>2, <3>3, <3>4
  <2>19. SentIsKept'
    BY <1>1, <1>3, <2>1, <2>5, <2>6, <2>7, <2>8, <2>9
       DEF Inv, SentIsKept, Fresh, Before, At, Known
  <2>20. EditsAreSerial'
    <3>1. CASE Overwritten(t) = {}
      BY <1>3, <3>1 DEF Inv, EditsAreSerial
    <3>2. CASE Overwritten(t) # {}
      <4>1. "send" \in {call[t].kind} \cup call[t].since
        BY <1>1, <2>9, <3>2 DEF Inv, Copies
      <4> QED
        BY <1>3, <3>2, <4>1 DEF Inv, EditsAreSerial
    <3> QED
      BY <3>1, <3>2
  <2>21. MirrorIsHonest'
    BY <1>1, <1>3, <2>1, <2>5, <2>6, <2>7, <2>8, <2>9 DEF Inv, MirrorIsHonest
  <2> QED
    BY <2>10, <2>11, <2>12, <2>13, <2>14, <2>15, <2>16, <2>17, <2>18, <2>19, <2>20, <2>21
       DEF Inv
<1>4. CASE /\ \E edited \in Edits(t) : ledger' = edited
           /\ lost' = IF Overwritten(t) = {} THEN lost
                      ELSE lost \cup {{call[t].kind} \cup call[t].since}
           /\ IF call[t].kind = "send"
              THEN call' = Overtaking(t, Idle) /\ ok' = ok \cup Sent(t)
              ELSE call' = Overtaking(t, [call[t] EXCEPT !.pc = "log"]) /\ UNCHANGED ok
           /\ UNCHANGED <<refused, broken>>
  <2>1. PICK edited \in Edits(t) : ledger' = edited
    BY <1>4
  <2>2. CASE call[t].kind = "send"
    <3>1. /\ Idle.kind = "send" /\ Idle.id = 0 /\ ~Idle.wrapped /\ Idle.pc = "idle"
      BY DEF Idle
    <3>2. call' = Overtaking(t, Idle) /\ ok' = ok \cup Sent(t) /\ refused' = refused /\ broken' = broken
      BY <1>4, <2>2
    <3> QED
      BY <1>3, <1>4, <2>1, <2>2, <3>1, <3>2, IdleRow
  <2>3. CASE call[t].kind # "send"
    <3> DEFINE next == [call[t] EXCEPT !.pc = "log"]
    <3>1. /\ next \in CallRow /\ next.kind = call[t].kind /\ next.id = call[t].id
          /\ next.pc = "log" /\ next.wrapped = call[t].wrapped /\ next.outer = call[t].outer
          /\ next.depth = call[t].depth
      BY <1>1 DEF CallRow, Pc
    <3>2. ~call[t].wrapped /\ call[t].outer
      BY <1>1, <2>3 DEF Inv, Stages, Locks, Inside
    <3>3. call' = Overtaking(t, next) /\ ok' = ok \cup Sent(t) /\ refused' = refused /\ broken' = broken
      BY <1>4, <2>3 DEF Sent
    <3> HIDE DEF next
    <3> QED
      BY <1>3, <1>4, <2>1, <2>3, <3>1, <3>2, <3>3
  <2> QED
    BY <2>2, <2>3
<1> QED
  BY <1>2, <1>4 DEF SaveLedger, Returns

LEMMA LogEditKeeps == ASSUME Inv, NEW t \in Threads, LogEdit(t) PROVE Inv'
<1>1. /\ At(t, "log") /\ Inside(t) /\ call[t].kind # "send"
      /\ UNCHANGED <<db, writer, lock, ledger, mirror, made, crashes, ok, refused,
                     broken, early, lost>>
  BY DEF LogEdit, Inside, At, filed, answered, Inv, Stages
<1>2. Alone(t) /\ Kept(t) /\ call'[t].pc = "exit" /\ call'[t].depth = call[t].depth
  BY GoesTo DEF LogEdit, Inv, Pc
<1>3. /\ draft' \in Rows /\ draft'.messages = draft.messages
      /\ draft'.mark = draft.mark /\ draft'.index = draft.index
  <2>1. draft \in Rows /\ call[t].id \in Nat
    BY DEF Inv, TypeOK, CallRow
  <2>2. draft' = [draft EXCEPT !.events = draft.events \cup {call[t].id}]
    BY DEF LogEdit
  <2> QED
    BY <2>1, <2>2 DEF Rows
<1>4. Follows(draft')
  BY <1>3 DEF Inv, Follows
<1>10. TypeOK'
  BY <1>1, <1>2, <1>3 DEF Inv, TypeOK, Alone
<1>11. Stages'
  BY <1>1, <1>2, <1>3 DEF Inv, Stages, At, Alone, Kept
<1>12. Locks'
  BY <1>1, <1>2, <1>3, RecordsAssumption
     DEF Inv, Locks, Inside, At, Alone, Kept, Stages, TypeOK
<1>13. Drafts'
  BY <1>1, <1>2, <1>3, RecordsAssumption
     DEF Inv, Drafts, Inside, At, Locks, Alone, Kept, TypeOK
<1>14. Follows(db)' /\ Follows(draft)'
  BY <1>1, <1>2, <1>4, FollowsNext DEF Inv
<1>15. Dated'
  BY <1>1, <1>2, <1>3 DEF Inv, Dated, Known, Alone, Kept
<1>16. Fresh'
  BY <1>1, <1>2, <1>3 DEF Inv, Fresh, Known, Before, After, At, Alone, Kept
<1>17. Distinct'
  BY <1>1, <1>2, <1>3 DEF Inv, Dated, Distinct, Before, At, Alone, Kept
<1>18. Copies'
  BY <1>1, <1>2, <1>3 DEF Inv, Copies, At, Alone
<1>19. SentIsKept'
  BY <1>1, <1>2, <1>3 DEF Inv, SentIsKept, Fresh, Before, At, Known
<1>20. EditsAreSerial'
  BY <1>1, <1>2, <1>3 DEF Inv, EditsAreSerial
<1>21. MirrorIsHonest'
  BY <1>1, <1>2, <1>3 DEF Inv, MirrorIsHonest
<1> QED
  BY <1>10, <1>11, <1>12, <1>13, <1>14, <1>15, <1>16, <1>17, <1>18, <1>19, <1>20, <1>21
     DEF Inv

\* The line of a message that is committed.
LEMMA AppendLineKeeps == ASSUME Inv, NEW t \in Threads, AppendLine(t) PROVE Inv'
<1>1. /\ At(t, "mirror") /\ call[t].kind = "send" /\ call[t].id \in Nat
      /\ UNCHANGED <<db, draft, writer, lock, ledger, made, crashes, lost>>
  BY DEF AppendLine, At, base, Inv, Stages, TypeOK, CallRow
<1>2. call[t].id \in Elements(db.messages) \cup early'
  BY <1>1 DEF AppendLine, Inv, Stages, Fresh, After, At
<1>3. early \subseteq early' /\ early' \subseteq Nat
  BY <1>1 DEF AppendLine, Inv, TypeOK
<1>4. mirror' \in Seq(Nat) /\ MirrorIsHonest'
  <2>1. mirror \in Seq(Nat) /\ Elements(mirror) \ Elements(db.messages) \subseteq early
    BY DEF Inv, TypeOK, MirrorIsHonest
  <2>2. mirror' \in Seq(Nat) /\ Elements(mirror') \subseteq Elements(mirror) \cup {call[t].id}
    <3>1. CASE mirror' = mirror
      BY <2>1, <3>1
    <3>2. CASE mirror' = Append(mirror, call[t].id)
      BY <1>1, <2>1, <3>2, AppendProperties, ElementsAppend
    <3> QED
      BY <3>1, <3>2 DEF AppendLine
  <2>3. Elements(mirror') \ Elements(db'.messages) \subseteq early'
    BY <1>1, <1>2, <1>3, <2>1, <2>2
  <2> QED
    BY <2>2, <2>3 DEF MirrorIsHonest
<1>5. CASE call[t].outer
  <2>1. /\ Alone(t) /\ Kept(t) /\ call'[t].pc = "exit" /\ call'[t].depth = call[t].depth
        /\ UNCHANGED <<ok, refused, broken>>
    BY <1>5, GoesTo DEF AppendLine, answered, Inv, Pc
  <2>2. Inside(t) /\ call[t].depth = 1
    BY <1>1, <1>5 DEF Inside, Inv, Stages, At
  <2>10. TypeOK'
    BY <1>1, <1>3, <1>4, <1>5, <2>1, <2>2 DEF Inv, TypeOK, Alone
  <2>11. Stages'
    BY <1>1, <1>3, <1>4, <1>5, <2>1, <2>2 DEF Inv, Stages, At, Alone, Kept
  <2>12. Locks'
    <3>1. ASSUME NEW u \in Threads
          PROVE  /\ Inside(u)' <=> Inside(u)
                 /\ At(u, "begin")' <=> At(u, "begin")
                 /\ Inside(u) => call'[u].outer /\ call'[u].depth # 0
      <4>1. CASE u = t
        BY <1>1, <1>5, <2>1, <2>2, <4>1 DEF Inv, Locks, Inside, At, Kept
      <4>2. CASE u # t
        BY <2>1, <4>2 DEF Inv, Locks, Inside, At, Alone
      <4> QED
        BY <4>1, <4>2
    <3> QED
      BY <1>1, <3>1, StayThere
  <2>13. Drafts'
    BY <1>1, <1>5, <2>1, <2>2, OneTransaction DEF Inv, Drafts, Inside, At, Alone, Kept
  <2>14. Follows(db)' /\ Follows(draft)'
    BY <1>1, <1>3, <1>4, <1>5, <2>1, <2>2, FollowsNext DEF Inv
  <2>15. Dated'
    BY <1>1, <1>3, <1>4, <1>5, <2>1, <2>2 DEF Inv, Dated, Known, Alone, Kept, TypeOK
  <2>16. Fresh'
    BY <1>1, <1>3, <1>4, <1>5, <2>1, <2>2
       DEF Inv, Fresh, Known, Before, After, At, Alone, Kept, Stages
  <2>17. Distinct'
    BY <1>1, <1>3, <1>4, <1>5, <2>1, <2>2 DEF Inv, Dated, Distinct, Before, At, Alone, Kept
  <2>18. Copies'
    BY <1>1, <1>3, <1>4, <1>5, <2>1, <2>2 DEF Inv, Copies, At, Alone
  <2>19. SentIsKept'
    BY <1>1, <1>3, <1>4, <1>5, <2>1, <2>2 DEF Inv, SentIsKept, Fresh, Before, After, At, Known
  <2>20. EditsAreSerial'
    BY <1>1, <1>3, <1>4, <1>5, <2>1, <2>2 DEF Inv, EditsAreSerial
  <2>21. MirrorIsHonest'
    BY <1>4
  <2> QED
    BY <2>10, <2>11, <2>12, <2>13, <2>14, <2>15, <2>16, <2>17, <2>18, <2>19, <2>20, <2>21
       DEF Inv
<1>6. CASE ~call[t].outer
  <2>1. ~Inside(t) /\ lock[Conn[t]] # t /\ After(t)
    BY <1>1, <1>6 DEF Inv, Locks, Inside, After, At
  <2>2. CASE Returns(t)
    <3>1. /\ Alone(t) /\ call'[t].pc = "idle" /\ call'[t].id = 0 /\ ~call'[t].wrapped
          /\ ok' = ok \cup {call[t].id} /\ UNCHANGED <<refused, broken>>
      BY <1>1, <2>2, Stops DEF Inv, Returns, Sent
    <3>2. /\ call[t].id \in Elements(db.messages) /\ 0 \in 0..made
          /\ ok' \cup broken \subseteq Known /\ Known' = Known
      BY <1>1, <2>1, <3>1 DEF Known, Inv, Fresh, TypeOK
    <3>10. TypeOK'
      BY <1>1, <1>3, <1>4, <2>1, <3>1, <3>2 DEF Inv, TypeOK, Alone
    <3>11. Stages'
      BY <1>1, <1>3, <1>4, <2>1, <3>1, <3>2 DEF Inv, Stages, At, Alone, Kept
    <3>12. Locks'
      BY <1>1, <2>1, <3>1, Outside DEF Inside, At
    <3>13. Drafts'
      BY <1>1, <2>1, <3>1, Outside DEF Inside, At
    <3>14. Follows(db)' /\ Follows(draft)'
      BY <1>1, <1>3, <1>4, <2>1, <3>1, <3>2, FollowsNext DEF Inv
    <3>15. Dated'
      BY <1>1, <3>1, <3>2 DEF Inv, Dated, Alone
    <3>16. Fresh'
      BY <1>1, <1>3, <1>4, <2>1, <3>1, <3>2
         DEF Inv, Fresh, Known, Before, After, At, Alone, Kept, Stages
    <3>17. Distinct'
      BY <1>1, <1>3, <1>4, <2>1, <3>1, <3>2 DEF Inv, Dated, Distinct, Before, At, Alone, Kept
    <3>18. Copies'
      BY <1>1, <1>3, <1>4, <2>1, <3>1, <3>2 DEF Inv, Copies, At, Alone
    <3>19. SentIsKept'
      BY <1>1, <1>3, <1>4, <2>1, <3>1, <3>2 DEF Inv, SentIsKept, Fresh, Before, After, At, Known
    <3>20. EditsAreSerial'
      BY <1>1, <1>3, <1>4, <2>1, <3>1, <3>2 DEF Inv, EditsAreSerial
    <3>21. MirrorIsHonest'
      BY <1>4
    <3> QED
      BY <3>10, <3>11, <3>12, <3>13, <3>14, <3>15, <3>16, <3>17, <3>18, <3>19, <3>20, <3>21
         DEF Inv
  <2>3. CASE Goes(t, "handoff") /\ UNCHANGED answered
    <3>1. /\ Alone(t) /\ Kept(t) /\ call'[t].pc = "handoff" /\ call'[t].depth = call[t].depth
          /\ UNCHANGED <<ok, refused, broken>>
      BY <2>3, GoesTo DEF Inv, Pc, answered
    <3>10. TypeOK'
      BY <1>1, <1>3, <1>4, <1>6, <2>1, <3>1 DEF Inv, TypeOK, Alone
    <3>11. Stages'
      BY <1>1, <1>3, <1>4, <1>6, <2>1, <3>1 DEF Inv, Stages, At, Alone, Kept
    <3>12. Locks'
      BY <1>1, <1>6, <2>1, <3>1, Outside DEF Inside, At
    <3>13. Drafts'
      BY <1>1, <1>6, <2>1, <3>1, Outside DEF Inside, At
    <3>14. Follows(db)' /\ Follows(draft)'
      BY <1>1, <1>3, <1>4, <1>6, <2>1, <3>1, FollowsNext DEF Inv
    <3>15. Dated'
      BY <1>1, <1>3, <1>4, <1>6, <2>1, <3>1 DEF Inv, Dated, Known, Alone, Kept, TypeOK
    <3>16. Fresh'
      BY <1>1, <1>3, <1>4, <1>6, <2>1, <3>1
         DEF Inv, Fresh, Known, Before, After, At, Alone, Kept, Stages
    <3>17. Distinct'
      BY <1>1, <1>3, <1>4, <1>6, <2>1, <3>1 DEF Inv, Dated, Distinct, Before, At, Alone, Kept
    <3>18. Copies'
      BY <1>1, <1>3, <1>4, <1>6, <2>1, <3>1 DEF Inv, Copies, At, Alone
    <3>19. SentIsKept'
      BY <1>1, <1>3, <1>4, <1>6, <2>1, <3>1 DEF Inv, SentIsKept, Fresh, Before, After, At, Known
    <3>20. EditsAreSerial'
      BY <1>1, <1>3, <1>4, <1>6, <2>1, <3>1 DEF Inv, EditsAreSerial
    <3>21. MirrorIsHonest'
      BY <1>4
    <3> QED
      BY <3>10, <3>11, <3>12, <3>13, <3>14, <3>15, <3>16, <3>17, <3>18, <3>19, <3>20, <3>21
         DEF Inv
  <2> QED
    BY <1>6, <2>2, <2>3 DEF AppendLine
<1> QED
  BY <1>5, <1>6

\* The transcript is made anew.
LEMMA ReadMessagesKeeps == ASSUME Inv, NEW t \in Threads, ReadMessages(t) PROVE Inv'
<1>1. /\ At(t, "read") /\ call[t].kind = "export"
      /\ ~Inside(t) /\ lock[Conn[t]] # t
      /\ UNCHANGED <<db, draft, writer, lock, ledger, mirror, made, crashes, ok, refused,
                     broken, early, lost>>
  BY DEF ReadMessages, At, Inside, Locks, base, filed, answered, Inv, Stages
<1>2. call[t] \in CallRow /\ db.messages \in Seq(Nat)
  BY DEF Inv, TypeOK, Rows
<1> DEFINE row == [call[t] EXCEPT !.pc = "rebuild", !.copy = db.messages]
<1>3. /\ row \in CallRow /\ row.pc = "rebuild" /\ row.kind = call[t].kind
      /\ row.id = call[t].id /\ row.wrapped = call[t].wrapped /\ row.depth = call[t].depth
      /\ row.copy = db.messages
  BY <1>2 DEF CallRow, Pc
<1>4. call' = [call EXCEPT ![t] = row]
  BY DEF ReadMessages
<1> HIDE DEF row
<1>5. Alone(t) /\ call'[t] = row
  BY <1>3, <1>4 DEF Alone, Inv, TypeOK
<1>10. TypeOK'
  BY <1>1, <1>2, <1>3, <1>5 DEF Inv, TypeOK, Alone
<1>11. Stages'
  BY <1>1, <1>2, <1>3, <1>5 DEF Inv, Stages, At, Alone, Kept
<1>12. Locks'
  BY <1>1, <1>3, <1>5, Outside DEF Inside, At
<1>13. Drafts'
  BY <1>1, <1>3, <1>5, Outside DEF Inside, At
<1>14. Follows(db)' /\ Follows(draft)'
  BY <1>1, <1>2, <1>3, <1>5, FollowsNext DEF Inv
<1>15. Dated'
  BY <1>1, <1>2, <1>3, <1>5 DEF Inv, Dated, Known, Alone, Kept
<1>16. Fresh'
  BY <1>1, <1>2, <1>3, <1>5 DEF Inv, Fresh, Known, Before, After, At, Alone, Kept
<1>17. Distinct'
  BY <1>1, <1>2, <1>3, <1>5 DEF Inv, Dated, Distinct, Before, At, Alone, Kept
<1>18. Copies'
  BY <1>1, <1>2, <1>3, <1>5 DEF Inv, Copies, At, Alone
<1>19. SentIsKept'
  BY <1>1, <1>2, <1>3, <1>5 DEF Inv, SentIsKept, Fresh, Before, At, Known
<1>20. EditsAreSerial'
  BY <1>1, <1>2, <1>3, <1>5 DEF Inv, EditsAreSerial
<1>21. MirrorIsHonest'
  BY <1>1, <1>2, <1>3, <1>5 DEF Inv, MirrorIsHonest
<1> QED
  BY <1>10, <1>11, <1>12, <1>13, <1>14, <1>15, <1>16, <1>17, <1>18, <1>19, <1>20, <1>21
     DEF Inv

LEMMA RewriteLinesKeeps == ASSUME Inv, NEW t \in Threads, RewriteLines(t) PROVE Inv'
<1>1. /\ At(t, "rebuild") /\ call[t].kind = "export"
      /\ ~Inside(t) /\ lock[Conn[t]] # t
      /\ UNCHANGED <<db, draft, writer, lock, ledger, made, crashes, early, lost>>
  BY DEF RewriteLines, At, Inside, Locks, base, Inv, Stages
<1>2. Alone(t) /\ call'[t].pc = "idle" /\ call'[t].id = 0 /\ ~call'[t].wrapped
      /\ ok' = ok /\ refused' = refused /\ broken' = broken
  BY <1>1, Stops DEF RewriteLines, Returns, Sent, Inv
<1>3. mirror' \in Seq(Nat) /\ Elements(mirror') \subseteq Elements(db.messages)
  BY <1>1 DEF RewriteLines, Inv, Copies
<1>4. Elements(mirror') \ Elements(db'.messages) \subseteq early'
  BY <1>1, <1>3
<1>5. Known' = Known /\ 0 \in 0..made
  BY <1>1, <1>2 DEF Known, Inv, TypeOK
<1>10. TypeOK'
  BY <1>1, <1>2, <1>3, <1>4, <1>5 DEF Inv, TypeOK, Alone
<1>11. Stages'
  BY <1>1, <1>2, <1>3, <1>4, <1>5 DEF Inv, Stages, At, Alone, Kept
<1>12. Locks'
  BY <1>1, <1>2, Outside DEF Inside, At
<1>13. Drafts'
  BY <1>1, <1>2, Outside DEF Inside, At
<1>14. Follows(db)' /\ Follows(draft)'
  BY <1>1, <1>2, <1>3, <1>4, <1>5, FollowsNext DEF Inv
<1>15. Dated'
  BY <1>1, <1>2, <1>3, <1>4, <1>5 DEF Inv, Dated, Known, Alone, Kept
<1>16. Fresh'
  BY <1>1, <1>2, <1>3, <1>4, <1>5 DEF Inv, Fresh, Known, Before, After, At, Alone, Kept
<1>17. Distinct'
  BY <1>1, <1>2, <1>3, <1>4, <1>5 DEF Inv, Dated, Distinct, Before, At, Alone, Kept
<1>18. Copies'
  BY <1>1, <1>2, <1>3, <1>4, <1>5 DEF Inv, Copies, At, Alone
<1>19. SentIsKept'
  BY <1>1, <1>2, <1>3, <1>4, <1>5 DEF Inv, SentIsKept, Fresh, Before, At, Known
<1>20. EditsAreSerial'
  BY <1>1, <1>2, <1>3, <1>4, <1>5 DEF Inv, EditsAreSerial
<1>21. MirrorIsHonest'
  BY <1>1, <1>2, <1>3, <1>4, <1>5 DEF Inv, MirrorIsHonest
<1> QED
  BY <1>10, <1>11, <1>12, <1>13, <1>14, <1>15, <1>16, <1>17, <1>18, <1>19, <1>20, <1>21
     DEF Inv

\* The index follows the messages.
LEMMA ReadMarkKeeps == ASSUME Inv, NEW t \in Threads, ReadMark(t) PROVE Inv'
<1>1. /\ At(t, "in") /\ call[t].kind = "search" /\ Inside(t) /\ call[t].depth = 1
      /\ UNCHANGED <<db, draft, writer, lock, ledger, mirror, made, crashes, ok, refused,
                     broken, early, lost>>
  BY DEF ReadMark, base, filed, answered, Inside, At, Inv, Stages
<1>2. call[t] \in CallRow /\ draft.mark \in Nat
  BY DEF Inv, TypeOK, Rows
<1> DEFINE row == [call[t] EXCEPT !.pc = "scan", !.mark = draft.mark]
<1>3. /\ row \in CallRow /\ row.pc = "scan" /\ row.kind = call[t].kind /\ row.id = call[t].id
      /\ row.outer = call[t].outer /\ row.wrapped = call[t].wrapped
      /\ row.depth = call[t].depth /\ row.mark = draft.mark
  BY <1>2 DEF CallRow, Pc
<1>4. call' = [call EXCEPT ![t] = row]
  BY DEF ReadMark
<1> HIDE DEF row
<1>5. Alone(t) /\ call'[t] = row
  BY <1>3, <1>4 DEF Alone, Inv, TypeOK
<1>10. TypeOK'
  BY <1>1, <1>2, <1>3, <1>5 DEF Inv, TypeOK, Alone
<1>11. Stages'
  BY <1>1, <1>2, <1>3, <1>5 DEF Inv, Stages, At, Alone, Kept
<1>12. Locks'
  BY <1>1, <1>2, <1>3, <1>5, RecordsAssumption
     DEF Inv, Locks, Inside, At, Alone, Kept, Stages, TypeOK
<1>13. Drafts'
  BY <1>1, <1>2, <1>3, <1>5, RecordsAssumption
     DEF Inv, Drafts, Inside, At, Locks, Alone, Kept, TypeOK
<1>14. Follows(db)' /\ Follows(draft)'
  BY <1>1, <1>2, <1>3, <1>5, FollowsNext DEF Inv
<1>15. Dated'
  BY <1>1, <1>2, <1>3, <1>5 DEF Inv, Dated, Known, Alone, Kept, TypeOK
<1>16. Fresh'
  BY <1>1, <1>2, <1>3, <1>5 DEF Inv, Fresh, Known, Before, After, At, Alone, Kept, Stages
<1>17. Distinct'
  BY <1>1, <1>2, <1>3, <1>5 DEF Inv, Dated, Distinct, Before, At, Alone, Kept
<1>18. Copies'
  BY <1>1, <1>2, <1>3, <1>5 DEF Inv, Copies, At, Alone
<1>19. SentIsKept'
  BY <1>1, <1>2, <1>3, <1>5 DEF Inv, SentIsKept, Fresh, Before, After, At, Known
<1>20. EditsAreSerial'
  BY <1>1, <1>2, <1>3, <1>5 DEF Inv, EditsAreSerial
<1>21. MirrorIsHonest'
  BY <1>1, <1>2, <1>3, <1>5 DEF Inv, MirrorIsHonest
<1> QED
  BY <1>10, <1>11, <1>12, <1>13, <1>14, <1>15, <1>16, <1>17, <1>18, <1>19, <1>20, <1>21
     DEF Inv

LEMMA ReindexKeeps == ASSUME Inv, NEW t \in Threads, Reindex(t) PROVE Inv'
<1>0. At(t, "scan") /\ Inside(t)
  BY DEF Reindex, Inside, At
<1>1. /\ At(t, "scan") /\ call[t].kind = "search" /\ Inside(t)
      /\ call[t].id \in Nat /\ call[t].mark = draft.mark
      /\ UNCHANGED <<db, writer, lock, ledger, mirror, made, crashes, ok, refused, broken,
                     early, lost>>
  <2>1. call[t].kind = "search" /\ call[t].mark = draft.mark
    BY <1>0 DEF Inv, Stages, Drafts, At
  <2>2. call[t].id \in Nat
    BY DEF Inv, TypeOK, CallRow
  <2> QED
    BY <1>0, <2>1, <2>2 DEF Reindex, filed, answered
<1>2. Alone(t) /\ Kept(t) /\ call'[t].pc = "exit" /\ call'[t].depth = call[t].depth
  BY GoesTo DEF Reindex, Inv, Pc
<1> DEFINE sent   == draft.messages
           behind == {sent[i] : i \in draft.mark + 1..Len(sent)}
           put    == {[message |-> m, by |-> call[t].id] : m \in behind \ Silent}
<1>3. /\ draft \in Rows /\ sent \in Seq(Nat) /\ Len(sent) \in Nat
      /\ draft.mark \in 0..Len(sent)
  BY DEF Inv, TypeOK, Rows, Follows
<1>4. behind \subseteq Nat
  BY <1>3
<1>5. /\ draft' \in Rows /\ draft'.messages = sent /\ draft'.mark = Len(sent)
      /\ draft'.index = draft.index \cup put
  <2>1. put \subseteq [message : Nat, by : Nat]
    BY <1>1, <1>4
  <2>2. draft' = [draft EXCEPT !.index = @ \cup put, !.mark = Len(sent)]
    BY <1>1 DEF Reindex
  <2> HIDE DEF put
  <2> QED
    BY <1>3, <2>1, <2>2 DEF Rows
<1>6. Follows(draft')
  <2>1. {e.message : e \in put} = behind \ Silent
    <3>1. \A e \in put : e.message \in behind \ Silent
      OBVIOUS
    <3>2. \A m \in behind \ Silent : [message |-> m, by |-> call[t].id] \in put
      OBVIOUS
    <3> QED
      BY <3>1, <3>2
  <2>2. {e.message : e \in draft.index} = {sent[i] : i \in 1..draft.mark} \ Silent
    BY DEF Inv, Follows
  <2>3. \A i, j \in 1..Len(sent) : sent[i] = sent[j] => i = j
    BY DEF Inv, Follows
  <2>4. {sent[i] : i \in 1..Len(sent)} = {sent[i] : i \in 1..draft.mark} \cup behind
    <3>1. 1..Len(sent) = (1..draft.mark) \cup (draft.mark + 1..Len(sent))
      BY <1>3
    <3> QED
      BY <3>1, Zenon
  <2>5. {sent[i] : i \in 1..draft.mark} \cap behind = {}
    BY <1>3, <2>3
  <2>6. \A e, f \in put : e.message = f.message => e = f
    OBVIOUS
  <2> HIDE DEF put, behind
  <2>7. {e.message : e \in draft.index \cup put} = {sent[i] : i \in 1..Len(sent)} \ Silent
    <3>1. {e.message : e \in draft.index \cup put}
            = {e.message : e \in draft.index} \cup {e.message : e \in put}
      OBVIOUS
    <3> QED
      BY <2>1, <2>2, <2>4, <3>1, Zenon
  <2>8. \A e, f \in draft.index \cup put : e.message = f.message => e = f
    <3>1. \A e \in draft.index, f \in put : e.message # f.message
      <4>1. \A e \in draft.index : e.message \in {sent[i] : i \in 1..draft.mark}
        BY <2>2, Zenon
      <4>2. \A f \in put : f.message \in behind
        BY <2>1, Zenon
      <4> QED
        BY <2>5, <4>1, <4>2, Zenon
    <3>2. \A e, f \in draft.index : e.message = f.message => e = f
      BY DEF Inv, Follows
    <3> QED
      BY <2>6, <3>1, <3>2, Zenon
  <2>9. draft'.mark \in 0..Len(draft'.messages)
    BY <1>3, <1>5
  <2> QED
    BY <1>5, <2>3, <2>7, <2>8, <2>9 DEF Follows
<1> HIDE DEF sent, behind, put
<1>7. draft'.messages = draft.messages
  BY <1>5 DEF sent
<1>10. TypeOK'
  BY <1>1, <1>2, <1>5, <1>6, <1>7 DEF Inv, TypeOK, Alone
<1>11. Stages'
  BY <1>1, <1>2, <1>5, <1>6, <1>7 DEF Inv, Stages, At, Alone, Kept
<1>12. Locks'
  <2>1. ASSUME NEW u \in Threads
        PROVE  /\ Inside(u)' <=> Inside(u)
               /\ At(u, "begin")' <=> At(u, "begin")
               /\ Inside(u) => call'[u].outer /\ call'[u].depth # 0
    BY <1>1, <1>2 DEF Inv, Locks, Inside, At, Alone, Kept
  <2> QED
    BY <1>1, <2>1, StayThere
<1>13. Drafts'
  <2>1. \A u \in Threads : u # t => ~Inside(u)
    BY <1>1, OneTransaction
  <2>2. draft'.messages = db'.messages /\ call'[t].kind # "send" /\ ~At(t, "scan")'
    BY <1>1, <1>2, <1>7 DEF Inv, Drafts, Kept, At
  <2> QED
    BY <1>2, <2>1, <2>2 DEF Drafts, Inside, At, Alone
<1>14. Follows(db)' /\ Follows(draft)'
  BY <1>1, <1>2, <1>5, <1>6, <1>7, FollowsNext DEF Inv
<1>15. Dated'
  BY <1>1, <1>2, <1>5, <1>6, <1>7 DEF Inv, Dated, Known, Alone, Kept, TypeOK
<1>16. Fresh'
  BY <1>1, <1>2, <1>5, <1>6, <1>7 DEF Inv, Fresh, Known, Before, After, At, Alone, Kept, Stages
<1>17. Distinct'
  BY <1>1, <1>2, <1>5, <1>6, <1>7 DEF Inv, Dated, Distinct, Before, At, Alone, Kept
<1>18. Copies'
  BY <1>1, <1>2, <1>5, <1>6, <1>7 DEF Inv, Copies, At, Alone
<1>19. SentIsKept'
  BY <1>1, <1>2, <1>5, <1>6, <1>7 DEF Inv, SentIsKept, Fresh, Before, After, At, Known
<1>20. EditsAreSerial'
  BY <1>1, <1>2, <1>5, <1>6, <1>7 DEF Inv, EditsAreSerial
<1>21. MirrorIsHonest'
  BY <1>1, <1>2, <1>5, <1>6, <1>7 DEF Inv, MirrorIsHonest
<1> QED
  BY <1>10, <1>11, <1>12, <1>13, <1>14, <1>15, <1>16, <1>17, <1>18, <1>19, <1>20, <1>21
     DEF Inv

-----------------------------------------------------------------------------
(* The end of a process, and the theorems.                                 *)

LEMMA CrashKeeps == ASSUME Inv, NEW c \in Connections, Crash(c) PROVE Inv'
<1>1. /\ lock' = [lock EXCEPT ![c] = NoThread]
      /\ writer' = IF writer = c THEN NoConnection ELSE writer
      /\ UNCHANGED <<db, draft, ledger, mirror, made, ok, refused,
                     broken, early, lost>>
      /\ crashes' \in Nat
  BY DEF Crash, filed, answered, Inv, TypeOK
<1>2. call' = [t \in Threads |-> IF Conn[t] = c THEN Idle ELSE call[t]]
  BY DEF Crash
<1>3. Idle.pc = "idle" /\ Idle.id = 0 /\ ~Idle.wrapped
  BY DEF Idle
<1>4. call' \in [Threads -> CallRow]
  BY <1>2, IdleRow DEF Inv, TypeOK
<1>5. \A t \in Threads :
         IF Conn[t] = c THEN call'[t].pc = "idle" /\ call'[t].id = 0 /\ ~call'[t].wrapped
         ELSE call'[t] = call[t]
  BY <1>2, <1>3
<1>10. TypeOK'
  BY <1>1, <1>4, <1>5 DEF Inv, TypeOK, Alone
<1>11. Stages'
  BY <1>1, <1>4, <1>5 DEF Inv, Stages, At, Alone, Kept
<1>12. Locks'
  BY <1>1, <1>4, <1>5, RecordsAssumption
     DEF Inv, Locks, Inside, At, Alone, Kept, Stages, TypeOK
<1>13. Drafts'
  BY <1>1, <1>4, <1>5, RecordsAssumption
     DEF Inv, Drafts, Inside, At, Locks, Alone, Kept, TypeOK
<1>14. Follows(db)' /\ Follows(draft)'
  BY <1>1, <1>4, <1>5, FollowsNext DEF Inv
<1>15. Dated'
  <2>1. Known' = Known /\ 0 \in 0..made
    BY <1>1 DEF Known, Inv, TypeOK
  <2>2. \A t \in Threads : call'[t].id \in 0..made
    BY <1>5, <2>1 DEF Inv, Dated
  <2> QED
    BY <1>1, <2>1, <2>2 DEF Inv, Dated
<1>16. Fresh'
  BY <1>1, <1>4, <1>5 DEF Inv, Fresh, Known, Before, After, At, Alone, Kept
<1>17. Distinct'
  BY <1>1, <1>4, <1>5 DEF Inv, Dated, Distinct, Before, At, Alone, Kept
<1>18. Copies'
  BY <1>1, <1>4, <1>5 DEF Inv, Copies, At, Alone
<1>19. SentIsKept'
  BY <1>1, <1>4, <1>5 DEF Inv, SentIsKept, Fresh, Before, At, Known
<1>20. EditsAreSerial'
  BY <1>1, <1>4, <1>5 DEF Inv, EditsAreSerial
<1>21. MirrorIsHonest'
  BY <1>1, <1>4, <1>5 DEF Inv, MirrorIsHonest
<1> QED
  BY <1>10, <1>11, <1>12, <1>13, <1>14, <1>15, <1>16, <1>17, <1>18, <1>19, <1>20, <1>21
     DEF Inv

LEMMA InitInv == Init => Inv
<1> SUFFICES ASSUME Init PROVE Inv
  OBVIOUS
<1>1. <<>> \in Seq(Nat) /\ <<>> \in Seq(Entry) /\ Len(<<>>) = 0 /\ Elements(<<>>) = {}
  BY DEF Elements
<1>2. NoRows.messages = <<>> /\ NoRows.index = {} /\ NoRows.mark = 0 /\ NoRows \in Rows
  BY <1>1 DEF NoRows, Rows
<1>3. Idle.pc = "idle" /\ Idle.id = 0 /\ ~Idle.wrapped
  BY DEF Idle
<1>4. TypeOK
  BY <1>1, <1>2, IdleRow, RecordsAssumption DEF Init, TypeOK
<1>5. \A t \in Threads : call[t].pc = "idle" /\ call[t].id = 0 /\ ~call[t].wrapped
  BY <1>3 DEF Init
<1>6. Stages /\ Locks /\ Drafts
  BY <1>5, RecordsAssumption DEF Init, Stages, Locks, Drafts, Inside, At
<1>8. Follows(db) /\ Follows(draft)
  BY <1>1, <1>2 DEF Init, Follows
<1>9. Known = {}
  BY <1>1, <1>2 DEF Init, Known
<1>10. Dated /\ Fresh /\ Distinct /\ Copies
  BY <1>5, <1>9 DEF Init, Dated, Fresh, Distinct, Before, After, Copies, At
<1>11. SentIsKept /\ EditsAreSerial /\ MirrorIsHonest
  BY <1>1, <1>2 DEF Init, SentIsKept, EditsAreSerial, MirrorIsHonest
<1> QED
  BY <1>4, <1>6, <1>8, <1>10, <1>11 DEF Inv

LEMMA NextInv == Inv /\ [Next]_vars => Inv'
<1> SUFFICES ASSUME Inv, [Next]_vars PROVE Inv'
  OBVIOUS
<1>1. ASSUME NEW t \in Threads, Begin(t) \/ Step(t) PROVE Inv'
  BY <1>1, BeginKeeps, EnterKeeps, BeginImmediateKeeps, ExitKeeps, FailsKeeps,
     FailsAfterCommitKeeps, AppendMessageKeeps, LoadLedgerKeeps, SaveLedgerKeeps,
     LogEditKeeps, AppendLineKeeps, ReadMessagesKeeps, RewriteLinesKeeps, ReadMarkKeeps, ReindexKeeps DEF Step
<1>2. ASSUME NEW c \in Connections, Crash(c) PROVE Inv'
  BY <1>2, CrashKeeps
<1>3. CASE UNCHANGED vars
  <2>1. UNCHANGED <<db, draft, writer, lock, ledger, mirror, call, made, crashes, ok,
                    refused, broken, early, lost>>
    BY <1>3 DEF vars, base, filed, answered
  <2>2. TypeOK' /\ Stages' /\ Locks' /\ Drafts'
    BY <2>1 DEF Inv, TypeOK, Stages, Locks, Drafts, Inside, At
  <2>3. Follows(db)' /\ Follows(draft)' /\ Dated' /\ Fresh' /\ Distinct'
    BY <2>1, FollowsNext DEF Inv, Dated, Fresh, Distinct, Known, Before, After, At
  <2>4. Copies' /\ SentIsKept' /\ EditsAreSerial' /\ MirrorIsHonest'
    BY <2>1 DEF Inv, Copies, At, SentIsKept, EditsAreSerial, MirrorIsHonest
  <2> QED
    BY <2>2, <2>3, <2>4 DEF Inv
<1> QED
  BY <1>1, <1>2, <1>3 DEF Next

LEMMA InvHolds == Spec => []Inv
BY InitInv, NextInv, PTL DEF Spec

\* What returned is committed and what raised in its transaction is not, however
\* the blocks of one connection nest and whoever crashes (storage/db.py,
\* transaction); what raised after its commit is committed (broker.py,
\* _run_after_commit).
THEOREM SentIsKeptHolds == Spec => []SentIsKept
<1>1. Inv => SentIsKept
  BY DEF Inv
<1> QED
  BY <1>1, InvHolds, PTL

\* Two edits under the write lock never cost each other an entry of the shared
\* memory (broker.py, memory_write).
THEOREM EditsAreSerialHolds == Spec => []EditsAreSerial
<1>1. Inv => EditsAreSerial
  BY DEF Inv
<1> QED
  BY <1>1, InvHolds, PTL

\* A line of the transcript is a committed message or was written by a send
\* inside another transaction, and searches of several threads put each message
\* behind the watermark into the index once (storage/transcript.py,
\* session/deliberation.py).
THEOREM DerivedFollowsHolds == Spec => []DerivedFollows
<1>1. Inv => DerivedFollows
  BY DEF Inv, DerivedFollows, IndexFollows, Follows
<1> QED
  BY <1>1, InvHolds, PTL
=============================================================================
