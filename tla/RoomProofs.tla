----------------------------- MODULE RoomProofs -----------------------------
(***************************************************************************)
(* Proofs about Room, for any participants, tasks and turn limits.         *)
(*                                                                         *)
(* Each scheduler operator gets lemmas that say what it keeps of a room:   *)
(* its types, the agreement of turn and queue, the order of the queue and  *)
(* who is in it; an action composes a few of them.  MCRoom is extended for *)
(* JoinedSpec alone, the room everybody has joined.                        *)
(***************************************************************************)
EXTENDS MCRoom, TLAPS

USE DEF DirectAddress, Handoff, Queued, Optional

LEMMA EnqueueType ==
    ASSUME NEW r \in RoomRow, NEW p \in Participants, NEW pr \in Priority,
           NEW bl \in BOOLEAN, NEW t \in TaskRef, NEW ask \in Address
    PROVE  Enqueue(r, p, pr, bl, t, ask) \in RoomRow
<1> DEFINE old   == r.entry[p]
           fresh == [live |-> "waiting", priority |-> pr, blocking |-> bl,
                     task |-> t, ask |-> ask]
           kept  == [fresh EXCEPT !.priority = old.priority,
                                  !.task = IF t = None THEN old.task ELSE t]
<1>1. old \in Entry \cup {None} /\ fresh \in Entry
  BY DEF RoomRow, Entry, Address, TaskRef
<1>2. ASSUME old # None
      PROVE  kept \in Entry
  BY <1>1, <1>2 DEF Entry, TaskRef
<1>3. AtBack(r, p) \in SUBSET (Participants \X Participants)
  BY DEF AtBack, Without, Waiting, RoomRow
<1> DEFINE back == AtBack(r, p)
<1>4. ASSUME NEW x \in Entry
      PROVE  [r.entry EXCEPT ![p] = x] \in [Participants -> Entry \cup {None}]
  BY DEF RoomRow
<1>5. CASE old = None \/ (old.live = "waiting" /\ pr < old.priority)
  <2> DEFINE queue == [r.entry EXCEPT ![p] = fresh]
  <2>1. queue \in [Participants -> Entry \cup {None}]
    BY <1>1, <1>4
  <2>2. Enqueue(r, p, pr, bl, t, ask) = [r EXCEPT !.entry = queue, !.before = back]
    BY <1>5 DEF Enqueue, RoomRow
  <2> HIDE DEF queue, back, fresh, old
  <2> QED
    BY <1>3, <2>1, <2>2 DEF RoomRow, back
<1>6. CASE ~(old = None \/ (old.live = "waiting" /\ pr < old.priority))
  <2> DEFINE queue == [r.entry EXCEPT ![p] = kept]
  <2>1. Enqueue(r, p, pr, bl, t, ask) \in {[r EXCEPT !.entry = queue], r}
    BY <1>6 DEF Enqueue, RoomRow
  <2>2. queue \in [Participants -> Entry \cup {None}]
    BY <1>2, <1>4, <1>6
  <2> HIDE DEF queue, kept, fresh, old
  <2> QED
    BY <2>1, <2>2 DEF RoomRow
<1> QED
  BY <1>5, <1>6

LEMMA DequeueType ==
    ASSUME NEW r \in RoomRow, NEW p \in Participants
    PROVE  Dequeue(r, p) \in RoomRow
BY DEF RoomRow, Dequeue, Without

LEMMA ClearQueueType ==
    ASSUME NEW r \in RoomRow
    PROVE  ClearQueue(r) \in RoomRow
BY DEF RoomRow, ClearQueue

LEMMA EndTurnType ==
    ASSUME NEW r \in RoomRow, r.turn # None
    PROVE  EndTurn(r) \in RoomRow
BY DEF RoomRow, EndTurn, Turn

LEMMA ActivateNextType ==
    ASSUME NEW r \in RoomRow
    PROVE  ActivateNext(r) \in RoomRow
<1> DEFINE h == CHOOSE x \in Peek(r) : TRUE
           e == r.entry[h]
           t == [p |-> h, blocking |-> e.blocking, task |-> e.task, ask |-> e.ask]
           a == [e EXCEPT !.live = "active"]
<1>1. CASE r.status = "active" /\ ~r.awaiting /\ r.turn = None /\ Peek(r) # {}
  <2>1. h \in Peek(r)
    BY <1>1
  <2>2. h \in Participants /\ e \in Entry
    BY <2>1 DEF Peek, Waiting, RoomRow
  <2>3. t \in Turn /\ a \in Entry
    BY <2>2 DEF Turn, Entry
  <2>4. Without(r, {h}) \in SUBSET (Participants \X Participants)
    BY DEF Without, RoomRow
  <2>5. [r.entry EXCEPT ![h] = a] \in [Participants -> Entry \cup {None}]
    BY <2>2, <2>3 DEF RoomRow
  <2>6. ActivateNext(r) = [r EXCEPT !.turn = t, !.entry = [r.entry EXCEPT ![h] = a],
                                    !.before = Without(r, {h})]
    BY <1>1 DEF ActivateNext, StartTurn, RoomRow
  <2> HIDE DEF t, a, e, h
  <2> QED
    BY <2>3, <2>4, <2>5, <2>6 DEF RoomRow
<1>2. CASE ~(r.status = "active" /\ ~r.awaiting /\ r.turn = None /\ Peek(r) # {})
  BY <1>2 DEF ActivateNext
<1> QED
  BY <1>1, <1>2

LEMMA BudgetType ==
    ASSUME NEW r \in RoomRow
    PROVE  RecordAgentTurn(r) \in RoomRow /\ ResetAgentTurnBudget(r) \in RoomRow
<1> DEFINE spent == r.count + 1 >= r.max
<1>1. spent \in BOOLEAN
  OBVIOUS
<1>2. RecordAgentTurn(r) = [r EXCEPT !.count = r.count + 1, !.awaiting = spent]
  BY DEF RecordAgentTurn, RoomRow
<1>3. r.count + 1 \in Nat
  BY DEF RoomRow
<1> HIDE DEF spent
<1>4. RecordAgentTurn(r) \in RoomRow
  BY <1>1, <1>2, <1>3 DEF RoomRow
<1>5. ResetAgentTurnBudget(r) \in RoomRow
  BY DEF ResetAgentTurnBudget, RoomRow
<1> QED
  BY <1>4, <1>5

-----------------------------------------------------------------------------
(***************************************************************************)
(* The inductive invariant.  Good(r, m) says what every scheduler call     *)
(* preserves of a room r whose membership is m: r is well typed, turn and  *)
(* queue agree, those outside hold nothing, and the flag awaiting_human    *)
(* agrees with the counter.                                                *)
(***************************************************************************)
FloorMatches(r) ==
    /\ \A p \in Participants :
          (r.entry[p] # None /\ r.entry[p].live = "active") =>
              /\ Holds(r, p)
              /\ r.turn.blocking = r.entry[p].blocking
              /\ r.turn.task = r.entry[p].task
              /\ r.turn.ask = r.entry[p].ask
    /\ (r.turn # None /\ r.turn.blocking) =>
          /\ r.entry[r.turn.p] # None
          /\ r.entry[r.turn.p].live = "active"

MembersOnly(r, m) ==
    \A p \in Participants : m[p] # "active" => r.entry[p] = None /\ ~Holds(r, p)

Spent(r) == r.awaiting <=> r.count >= r.max

Good(r, m) == r \in RoomRow /\ FloorMatches(r) /\ MembersOnly(r, m) /\ Spent(r)

\* r and s differ in nothing but their queue.
SameFloor(r, s) ==
    /\ r.turn = s.turn /\ r.status = s.status
    /\ r.count = s.count /\ r.max = s.max /\ r.awaiting = s.awaiting

LEMMA EnqueueGood ==
    ASSUME NEW r, NEW m, Good(r, m), NEW p \in Participants, m[p] = "active",
           NEW pr \in Priority, NEW bl \in BOOLEAN, NEW t \in TaskRef, NEW ask \in Address
    PROVE  LET s == Enqueue(r, p, pr, bl, t, ask)
           IN  Good(s, m) /\ SameFloor(s, r)
<1> DEFINE s == Enqueue(r, p, pr, bl, t, ask)
<1>0. r \in RoomRow /\ s \in RoomRow
  BY EnqueueType DEF Good
<1>1. SameFloor(s, r)
  BY <1>0 DEF Enqueue, SameFloor, RoomRow
<1>2. \A q \in Participants \ {p} : s.entry[q] = r.entry[q]
  BY <1>0 DEF Enqueue, RoomRow
<1>3. \/ s.entry[p] = r.entry[p]
      \/ /\ r.entry[p] = None \/ r.entry[p].live = "waiting"
         /\ s.entry[p].live = "waiting" /\ s.entry[p] # None
  <2> DEFINE old   == r.entry[p]
             fresh == [live |-> "waiting", priority |-> pr,
                       blocking |-> bl, task |-> t, ask |-> ask]
             raised == [fresh EXCEPT !.priority = old.priority,
                                     !.task = IF t = None THEN old.task ELSE t]
  <2>1. old \in Entry \cup {None} /\ fresh \in Entry
    BY <1>0 DEF RoomRow, Entry, Address, TaskRef
  <2>2. CASE old = None \/ (old.live = "waiting" /\ pr < old.priority)
    <3>1. s.entry[p] = fresh
      BY <1>0, <2>2 DEF Enqueue, RoomRow
    <3> QED
      BY <2>1, <2>2, <3>1, NoneAssumption
  <2>3. CASE /\ ~(old = None \/ (old.live = "waiting" /\ pr < old.priority))
             /\ old.live = "waiting" /\ bl /\ ~old.blocking
    <3>1. s.entry[p] = raised
      BY <1>0, <2>3 DEF Enqueue, RoomRow
    <3>2. raised \in Entry /\ raised.live = "waiting"
      BY <2>1, <2>3 DEF Entry, Address, TaskRef
    <3>3. s.entry[p] # None
      BY <3>1, <3>2, NoneAssumption
    <3>4. s.entry[p].live = "waiting"
      BY <3>1, <3>2
    <3> HIDE DEF s, fresh, raised
    <3> QED
      BY <2>3, <3>3, <3>4
  <2>4. CASE /\ ~(old = None \/ (old.live = "waiting" /\ pr < old.priority))
             /\ ~(old.live = "waiting" /\ bl /\ ~old.blocking)
    BY <2>4 DEF Enqueue
  <2> HIDE DEF s, old, fresh, raised
  <2> QED
    BY <2>2, <2>3, <2>4
<1> HIDE DEF s
<1>4. FloorMatches(s)
  BY <1>0, <1>1, <1>2, <1>3 DEF Good, FloorMatches, SameFloor, Holds, RoomRow, Turn
<1>5. MembersOnly(s, m)
  BY <1>0, <1>1, <1>2 DEF Good, MembersOnly, SameFloor, Holds
<1>6. Spent(s)
  BY <1>1 DEF Good, Spent, SameFloor
<1> QED
  BY <1>0, <1>1, <1>4, <1>5, <1>6 DEF Good, s

\* Dropping the entry of somebody that does not hold the floor.
LEMMA DequeueGood ==
    ASSUME NEW r, NEW m, Good(r, m), NEW p \in Participants, ~Holds(r, p)
    PROVE  Good(Dequeue(r, p), m) /\ SameFloor(Dequeue(r, p), r) /\ Dequeue(r, p).entry[p] = None
<1> DEFINE s == Dequeue(r, p)
<1>0. r \in RoomRow /\ s \in RoomRow
  BY DequeueType DEF Good
<1>1. SameFloor(s, r)
  BY <1>0 DEF Dequeue, SameFloor, RoomRow
<1>2. s.entry[p] = None /\ \A q \in Participants \ {p} : s.entry[q] = r.entry[q]
  BY <1>0 DEF Dequeue, RoomRow
<1> HIDE DEF s
<1>3. FloorMatches(s)
  BY <1>0, <1>1, <1>2 DEF Good, FloorMatches, SameFloor, Holds, RoomRow, Turn
<1>4. MembersOnly(s, m)
  BY <1>0, <1>1, <1>2 DEF Good, MembersOnly, SameFloor, Holds
<1>5. Spent(s)
  BY <1>1 DEF Good, Spent, SameFloor
<1> QED
  BY <1>0, <1>1, <1>2, <1>3, <1>4, <1>5 DEF Good, s

LEMMA ClearQueueGood ==
    ASSUME NEW r, NEW m, Good(r, m)
    PROVE  Good(ClearQueue(r), m) /\ SameFloor(ClearQueue(r), r)
<1> DEFINE s == ClearQueue(r)
<1>0. r \in RoomRow /\ s \in RoomRow
  BY ClearQueueType DEF Good
<1>1. SameFloor(s, r)
  BY <1>0 DEF ClearQueue, SameFloor, RoomRow
<1>2. \A q \in Participants :
         /\ q \in Waiting(r) => s.entry[q] = None
         /\ q \notin Waiting(r) => s.entry[q] = r.entry[q]
  BY <1>0 DEF ClearQueue, RoomRow
<1> HIDE DEF s
<1>3. FloorMatches(s)
  <2>1. \A q \in Participants :
           (s.entry[q] # None /\ s.entry[q].live = "active") => s.entry[q] = r.entry[q]
    BY <1>2
  <2>2. \A q \in Participants :
           (r.entry[q] # None /\ r.entry[q].live = "active") => s.entry[q] = r.entry[q]
    BY <1>2 DEF Waiting
  <2>3. r.turn # None => r.turn.p \in Participants
    BY <1>0 DEF RoomRow, Turn
  <2> QED
    BY <1>1, <2>1, <2>2, <2>3 DEF Good, FloorMatches, SameFloor, Holds
<1>4. MembersOnly(s, m)
  BY <1>0, <1>1, <1>2 DEF Good, MembersOnly, SameFloor, Holds, Waiting
<1>5. Spent(s)
  BY <1>1 DEF Good, Spent, SameFloor
<1> QED
  BY <1>0, <1>1, <1>3, <1>4, <1>5 DEF Good, s

\* Ending a turn empties the floor, whoever m says is still in the room.
LEMMA EndTurnGood ==
    ASSUME NEW r, NEW m, Good(r, m), r.turn # None
    PROVE  LET s == EndTurn(r)
           IN  /\ Good(s, m) /\ s.turn = None
               /\ s.status = r.status /\ s.count = r.count /\ s.max = r.max
<1> DEFINE s == EndTurn(r)
<1>0. r \in RoomRow /\ s \in RoomRow /\ r.turn.p \in Participants
  <2>1. r \in RoomRow
    BY DEF Good
  <2>2. EndTurn(r) \in RoomRow
    BY <2>1, EndTurnType
  <2>3. r.turn \in Turn
    BY <2>1 DEF RoomRow
  <2> QED
    BY <2>1, <2>2, <2>3 DEF Turn
<1> DEFINE h == r.turn.p
           x == IF r.entry[h] # None /\ r.entry[h].live = "active" THEN None ELSE r.entry[h]
<1>a. s = [r EXCEPT !.turn = None, !.entry[h] = x]
  BY <1>0 DEF EndTurn
<1>b. ASSUME NEW g \in Participants, NEW y,
             s = [r EXCEPT !.turn = None, !.entry[g] = y]
      PROVE  /\ s.turn = None /\ s.entry = [r.entry EXCEPT ![g] = y] /\ s.status = r.status
             /\ s.count = r.count /\ s.max = r.max /\ s.awaiting = r.awaiting
  <2> HIDE DEF s
  <2> QED
    BY <1>0, <1>b DEF RoomRow
<1> HIDE DEF s
<1>1. /\ s.turn = None /\ s.status = r.status
      /\ s.count = r.count /\ s.max = r.max /\ s.awaiting = r.awaiting
  BY <1>0, <1>a, <1>b
<1>2. /\ \A q \in Participants \ {r.turn.p} : s.entry[q] = r.entry[q]
      /\ s.entry[r.turn.p] = IF r.entry[r.turn.p] # None /\ r.entry[r.turn.p].live = "active"
                             THEN None ELSE r.entry[r.turn.p]
  <2>1. h \in Participants
    BY <1>0
  <2>2. r.entry \in [Participants -> Entry \cup {None}]
    BY <1>0 DEF RoomRow
  <2>3. s.entry = [r.entry EXCEPT ![h] = x]
    BY <2>1, <1>a, <1>b
  <2>4. /\ \A q \in Participants \ {h} : s.entry[q] = r.entry[q]
        /\ s.entry[h] = x
    <3> HIDE DEF h, x
    <3> QED
      BY <2>1, <2>2, <2>3
  <2> QED
    BY <2>4
<1>3. FloorMatches(s)
  BY <1>0, <1>1, <1>2 DEF Good, FloorMatches, Holds, RoomRow, Turn
<1>4. MembersOnly(s, m)
  BY <1>0, <1>1, <1>2 DEF Good, MembersOnly, Holds
<1>5. Spent(s)
  BY <1>1 DEF Good, Spent
<1> QED
  BY <1>0, <1>1, <1>3, <1>4, <1>5 DEF Good, s

LEMMA StartTurnGood ==
    ASSUME NEW r, NEW m, Good(r, m), NEW p \in Participants, m[p] = "active", r.turn = None
    PROVE  LET s == StartTurn(r, p, FALSE, None, None)
           IN  Good(s, m) /\ Holds(s, p) /\ s.status = r.status
<1> DEFINE t == [p |-> p, blocking |-> FALSE, task |-> None, ask |-> None]
           s == [r EXCEPT !.turn = t]
<1>0. r \in RoomRow /\ t \in Turn /\ t # None
  <2>1. r \in RoomRow
    BY DEF Good
  <2>2. t \in Turn
    BY DEF Turn
  <2> HIDE DEF t
  <2> QED
    BY <2>1, <2>2, NoneAssumption
<1> HIDE DEF t
<1>1. /\ s \in RoomRow /\ s.turn = t /\ s.entry = r.entry /\ s.status = r.status
      /\ s.count = r.count /\ s.max = r.max /\ s.awaiting = r.awaiting
  BY <1>0 DEF RoomRow
<1> HIDE DEF s
<1>2. t.p = p /\ ~t.blocking
  BY DEF t
<1>3. FloorMatches(s)
  BY <1>1, <1>2 DEF Good, FloorMatches, Holds
<1>4. MembersOnly(s, m)
  BY <1>1, <1>2 DEF Good, MembersOnly, Holds
<1>5. Spent(s)
  BY <1>1 DEF Good, Spent
<1>6. Good(s, m) /\ Holds(s, p)
  BY <1>0, <1>1, <1>2, <1>3, <1>4, <1>5 DEF Good, Holds
<1> QED
  BY <1>1, <1>6 DEF StartTurn, s, t

\* Activation changes nothing while somebody holds the floor.
LEMMA ActivateNextGood ==
    ASSUME NEW r, NEW m, Good(r, m)
    PROVE  LET s == ActivateNext(r)
           IN  Good(s, m) /\ s.status = r.status /\ (r.turn # None => s = r)
<1> DEFINE s == ActivateNext(r)
           h == CHOOSE x \in Peek(r) : TRUE
           e == r.entry[h]
<1>0. r \in RoomRow /\ s \in RoomRow
  BY ActivateNextType DEF Good
<1>1. CASE r.status = "active" /\ ~r.awaiting /\ r.turn = None /\ Peek(r) # {}
  <2>1. h \in Peek(r)
    BY <1>1
  <2>2. h \in Participants /\ e \in Entry /\ e # None
    BY <1>0, <2>1 DEF Peek, Waiting, RoomRow
  <2>3. /\ s.turn = [p |-> h, blocking |-> e.blocking, task |-> e.task, ask |-> e.ask]
        /\ s.status = r.status /\ s.count = r.count /\ s.max = r.max /\ s.awaiting = r.awaiting
        /\ s.entry = [r.entry EXCEPT ![h] = [e EXCEPT !.live = "active"]]
    BY <1>0, <1>1 DEF ActivateNext, StartTurn, RoomRow
  <2> DEFINE t == [p |-> h, blocking |-> e.blocking, task |-> e.task, ask |-> e.ask]
             a == [e EXCEPT !.live = "active"]
  <2>4. /\ t \in Turn /\ t.p = h /\ t.blocking = e.blocking /\ t.task = e.task /\ t.ask = e.ask
        /\ a \in Entry /\ a.live = "active"
        /\ a.blocking = e.blocking /\ a.task = e.task /\ a.ask = e.ask
    BY <2>2 DEF Turn, Entry
  <2>5. /\ s.turn = t /\ s.entry[h] = a
        /\ \A q \in Participants \ {h} : s.entry[q] = r.entry[q]
    BY <1>0, <2>2, <2>3 DEF RoomRow
  <2>6. t # None /\ a # None
    BY <2>4, NoneAssumption
  <2> HIDE DEF t, a, s, h
  <2>7. FloorMatches(s)
    BY <1>0, <1>1, <2>2, <2>4, <2>5, <2>6 DEF Good, FloorMatches, Holds
  <2>8. MembersOnly(s, m)
    BY <1>0, <1>1, <2>2, <2>4, <2>5, <2>6 DEF Good, MembersOnly, Holds
  <2>9. Spent(s)
    BY <2>3 DEF Good, Spent
  <2> QED
    BY <1>0, <1>1, <2>3, <2>7, <2>8, <2>9 DEF Good, s
<1>2. CASE ~(r.status = "active" /\ ~r.awaiting /\ r.turn = None /\ Peek(r) # {})
  BY <1>2 DEF ActivateNext
<1>3. r.turn # None => s = r
  BY DEF ActivateNext
<1> QED
  BY <1>1, <1>2, <1>3

\* Counting a turn and resetting the count keep flag and counter in step.
LEMMA BudgetGood ==
    ASSUME NEW r, NEW m, Good(r, m)
    PROVE  /\ Good(RecordAgentTurn(r), m)
           /\ RecordAgentTurn(r).turn = r.turn /\ RecordAgentTurn(r).status = r.status
           /\ Good(ResetAgentTurnBudget(r), m)
           /\ ResetAgentTurnBudget(r).turn = r.turn /\ ResetAgentTurnBudget(r).status = r.status
<1> DEFINE s == RecordAgentTurn(r)
           z == ResetAgentTurnBudget(r)
<1>0. r \in RoomRow /\ s \in RoomRow /\ z \in RoomRow
  BY BudgetType DEF Good
<1>1. /\ s.turn = r.turn /\ s.entry = r.entry /\ s.status = r.status
      /\ s.count = r.count + 1 /\ s.max = r.max /\ s.awaiting = (r.count + 1 >= r.max)
  BY <1>0 DEF RecordAgentTurn, RoomRow
<1>2. /\ z.turn = r.turn /\ z.entry = r.entry /\ z.status = r.status
      /\ z.count = 0 /\ z.max = r.max /\ z.awaiting = FALSE
  BY <1>0 DEF ResetAgentTurnBudget, RoomRow
<1> HIDE DEF s, z
<1>3. FloorMatches(s) /\ FloorMatches(z)
  BY <1>1, <1>2 DEF Good, FloorMatches, Holds
<1>4. MembersOnly(s, m) /\ MembersOnly(z, m)
  BY <1>1, <1>2 DEF Good, MembersOnly, Holds
<1>5. Spent(s)
  BY <1>1 DEF Spent
<1>6. Spent(z)
  <2>1. r.max \in Nat /\ r.max > 0
    <3>1. r.max \in Budgets
      BY <1>0 DEF RoomRow
    <3>2. r.max \in Nat /\ r.max # 0
      BY <3>1, BudgetAssumption
    <3> QED
      BY <3>2
  <2> QED
    BY <1>2, <2>1 DEF Spent
<1> QED
  BY <1>0, <1>1, <1>2, <1>3, <1>4, <1>5, <1>6 DEF Good, s, z

-----------------------------------------------------------------------------
NotesInFloor(r, N) == \A p \in N : Holds(r, p) /\ r.status = "active"

Inv ==
    /\ Good(room, member)
    /\ member \in [Participants -> {"absent", "active", "removed"}]
    /\ NotesInFloor(room, notes)
    /\ notes \subseteq Participants
    /\ invited \subseteq Participants
    /\ tasks \in [Tasks -> Task]

LEMMA InitInv == Init => Inv
<1> SUFFICES ASSUME Init PROVE Inv
  OBVIOUS
<1>1. PICK m \in Budgets :
         room = [status |-> "active", turn |-> None,
                 entry |-> [p \in Participants |-> None], before |-> {},
                 count |-> 0, max |-> m, awaiting |-> FALSE]
  BY DEF Init
<1>2. room \in RoomRow
  BY <1>1 DEF RoomRow
<1>3. FloorMatches(room) /\ MembersOnly(room, member)
  BY <1>1 DEF FloorMatches, MembersOnly, Holds
<1>4. Spent(room)
  <2>1. m \in Nat /\ m # 0
    BY BudgetAssumption
  <2> QED
    BY <1>1, <2>1 DEF Spent
<1>5. member \in [Participants -> {"absent", "active", "removed"}]
  BY DEF Init
<1>6. tasks \in [Tasks -> Task]
  BY DEF Init, Task
<1>7. notes = {} /\ invited \subseteq Participants
  BY DEF Init, Participants
<1> QED
  BY <1>2, <1>3, <1>4, <1>5, <1>6, <1>7 DEF Inv, Good, NotesInFloor

LEMMA TaskTypes ==
    ASSUME NEW ts \in [Tasks -> Task], NEW t \in TaskRef, NEW q \in Participants
    PROVE  /\ t # None => OpenTask(ts, t, q) \in [Tasks -> Task]
           /\ t # None => CloseTask(ts, t, q) \in [Tasks -> Task]
           /\ PassTask(ts, t) \in [Tasks -> Task]
           /\ CancelOpenTasks(ts) \in [Tasks -> Task]
BY DEF Task, TaskRef, OpenTask, CloseTask, PassTask, CancelOpenTasks

\* The reviewer owed a turn is an active participant, or nobody.
LEMMA ReviewerActive ==
    ASSUME NEW turn, RequiredReviewer(turn) # None
    PROVE  RequiredReviewer(turn) \in Participants /\ member[RequiredReviewer(turn)] = "active"
BY DEF RequiredReviewer, IsActive

LEMMA MembershipStep == Inv /\ Membership => Inv'
<1> SUFFICES ASSUME Inv, Membership PROVE Inv'
  OBVIOUS
<1>1. ASSUME NEW h \in Humans, NEW p \in Participants, CreateInvite(h, p) PROVE Inv'
  BY <1>1 DEF Inv, CreateInvite
<1>2. ASSUME NEW h \in Humans, NEW p \in Participants, RevokeInvite(h, p) PROVE Inv'
  BY <1>2 DEF Inv, RevokeInvite
<1>3. ASSUME NEW p \in Participants, InviteExpires(p) PROVE Inv'
  BY <1>3 DEF Inv, InviteExpires
<1>4. ASSUME NEW p \in Participants, Join(p) PROVE Inv'
  <2>1. Good(room, member')
    BY <1>4 DEF Inv, Join, Good, MembersOnly
  <2> QED
    BY <1>4, <2>1 DEF Inv, Join
<1>5. ASSUME NEW h \in Humans, NEW p \in Participants, RemoveParticipant(h, p) PROVE Inv'
  <2> DEFINE r1 == IF Holds(room, p) THEN EndTurn(room) ELSE room
             r2 == Dequeue(r1, p)
  <2>1. Good(r1, member) /\ ~Holds(r1, p) /\ r1.status = room.status
        /\ (~Holds(room, p) => r1 = room)
    BY EndTurnGood DEF Inv, Holds
  <2>2. Good(r2, member) /\ SameFloor(r2, r1) /\ r2.entry[p] = None
    BY <2>1, DequeueGood
  <2>3. Good(r2, member')
    BY <1>5, <2>1, <2>2 DEF RemoveParticipant, Good, MembersOnly, SameFloor, Holds, Inv
  <2>4. Good(room', member') /\ room'.status = r2.status /\ (r2.turn # None => room' = r2)
    BY <1>5, <2>3, ActivateNextGood DEF RemoveParticipant
  <2>5. \A q \in notes' : q # p /\ Holds(room, q) /\ room.status = "active"
    BY <1>5 DEF RemoveParticipant, Inv, NotesInFloor
  <2>6. NotesInFloor(room', notes')
    BY <2>1, <2>2, <2>4, <2>5 DEF NotesInFloor, Holds, SameFloor
  <2> QED
    BY <1>5, <2>4, <2>5, <2>6 DEF RemoveParticipant, Inv
<1> QED
  BY <1>1, <1>2, <1>3, <1>4, <1>5 DEF Membership

LEMMA ControlStep == Inv /\ Control => Inv'
<1> SUFFICES ASSUME Inv, Control PROVE Inv'
  OBVIOUS
<1>1. ASSUME NEW h \in Humans, PauseRoom(h) PROVE Inv'
  <2>1. Good(room', member)
    BY <1>1 DEF PauseRoom, Inv, Good, RoomRow, FloorMatches, MembersOnly, Holds, Spent
  <2> QED
    BY <1>1, <2>1 DEF PauseRoom, Inv, NotesInFloor
<1>2. ASSUME NEW h \in Humans, ResumeRoom(h) PROVE Inv'
  <2> DEFINE r1 == [room EXCEPT !.status = "active"]
  <2>1. Good(r1, member) /\ r1.turn = room.turn /\ r1.status = "active"
    BY DEF Inv, Good, RoomRow, FloorMatches, MembersOnly, Holds, Spent
  <2>2. Good(room', member) /\ room'.status = "active" /\ (r1.turn # None => room'.turn = room.turn)
    BY <1>2, <2>1, ActivateNextGood DEF ResumeRoom
  <2>3. NotesInFloor(room', notes)
    BY <2>1, <2>2 DEF Inv, NotesInFloor, Holds
  <2> QED
    BY <1>2, <2>2, <2>3 DEF ResumeRoom, Inv
<1>3. ASSUME NEW h \in Humans, StopRoom(h) PROVE Inv'
  <2> DEFINE r1 == IF room.turn # None THEN EndTurn(room) ELSE room
             r2 == ClearQueue(r1)
  <2>1. Good(r1, member) /\ r1.turn = None
    BY EndTurnGood DEF Inv
  <2>2. Good(r2, member) /\ r2.turn = None
    BY <2>1, ClearQueueGood DEF SameFloor
  <2> HIDE DEF r1, r2
  <2>3. room' = [r2 EXCEPT !.status = "stopped", !.turn = None]
    BY <1>3 DEF StopRoom, r1, r2
  <2>4. Good(room', member)
    BY <2>2, <2>3 DEF Good, RoomRow, FloorMatches, MembersOnly, Holds, Spent
  <2>5. tasks' \in [Tasks -> Task]
    BY <1>3 DEF StopRoom, Inv, Task, CancelOpenTasks
  <2> QED
    BY <1>3, <2>4, <2>5 DEF StopRoom, Inv, NotesInFloor
<1>4. ASSUME NEW h \in Humans, NEW m \in Budgets, SetRoomConfig(h, m) PROVE Inv'
  <2> DEFINE spent == room.count >= m
  <2>1. room' = [room EXCEPT !.max = m, !.awaiting = spent] /\ spent \in BOOLEAN
    BY <1>4 DEF SetRoomConfig
  <2> HIDE DEF spent
  <2>2. /\ room' \in RoomRow /\ room'.turn = room.turn /\ room'.entry = room.entry
        /\ room'.status = room.status /\ room'.count = room.count
        /\ room'.max = m /\ room'.awaiting = spent
    BY <2>1 DEF Inv, Good, RoomRow
  <2>3. FloorMatches(room') /\ MembersOnly(room', member) /\ NotesInFloor(room', notes)
    BY <2>2 DEF Inv, Good, FloorMatches, MembersOnly, NotesInFloor, Holds
  <2>4. Spent(room')
    BY <2>2 DEF Spent, spent
  <2> QED
    BY <1>4, <2>2, <2>3, <2>4 DEF SetRoomConfig, Inv, Good
<1> QED
  BY <1>1, <1>2, <1>3, <1>4 DEF Control

LEMMA NoteStep ==
    ASSUME Inv, NEW p \in Participants, PublishActivity(p) \/ ClearActivity(p)
    PROVE  Inv'
<1>1. CASE PublishActivity(p)
  <2>1. Holds(room, p) /\ room.status = "active"
    BY <1>1 DEF PublishActivity, Sendable, Mutable, Inv, Good, RoomRow
  <2> QED
    BY <1>1, <2>1 DEF PublishActivity, Inv, NotesInFloor
<1>2. CASE ClearActivity(p)
  BY <1>2 DEF ClearActivity, Inv, NotesInFloor
<1> QED
  BY <1>1, <1>2

\* Nobody but the floor's holder has a note; when the floor is empty there is
\* none.
LEMMA OnlyHoldersNote ==
    ASSUME Inv
    PROVE  /\ room.turn = None => notes = {}
           /\ \A p \in Participants : Holds(room, p) => notes \ {p} = {}
BY DEF Inv, NotesInFloor, Holds

LEMMA GiveUpStep ==
    ASSUME Inv, NEW p \in Participants, GiveUpSlot(p)
    PROVE  Inv'
<1> DEFINE r1 == Dequeue(room, p)
<1>1. Good(r1, member) /\ SameFloor(r1, room)
  BY DequeueGood DEF GiveUpSlot, Inv
<1>2. Good(room', member) /\ room'.status = r1.status /\ (r1.turn # None => room' = r1)
  BY <1>1, ActivateNextGood DEF GiveUpSlot
<1>3. NotesInFloor(room', notes')
  BY <1>1, <1>2 DEF GiveUpSlot, Inv, NotesInFloor, Holds, SameFloor
<1> QED
  BY <1>2, <1>3 DEF GiveUpSlot, Inv

LEMMA RequestStep ==
    ASSUME Inv, NEW p \in Participants, NEW b \in {Queued, Optional}, RequestFloor(p, b)
    PROVE  Inv'
<1> DEFINE r1 == Enqueue(room, p, b, FALSE, None, None)
<1>0. member[p] = "active" /\ b \in Priority /\ None \in TaskRef /\ None \in Address
  BY DEF RequestFloor, Sendable, IsActive, Priority, TaskRef, Address
<1>1. Good(r1, member) /\ SameFloor(r1, room)
  BY <1>0, EnqueueGood DEF Inv
<1>2. Good(room', member) /\ room'.status = r1.status /\ (r1.turn # None => room' = r1)
  BY <1>1, ActivateNextGood DEF RequestFloor
<1>3. NotesInFloor(room', notes')
  BY <1>1, <1>2 DEF RequestFloor, Inv, NotesInFloor, Holds, SameFloor
<1> QED
  BY <1>2, <1>3 DEF RequestFloor, Inv

LEMMA PassStep ==
    ASSUME Inv, NEW p \in Participants, PassTurn(p)
    PROVE  Inv'
<1> DEFINE reviewer == RequiredReviewer(room.turn)
           r1 == EndTurn(room)
           r2 == IF p \in Agents THEN RecordAgentTurn(r1) ELSE r1
           r3 == IF reviewer # None
                 THEN Enqueue(r2, reviewer, Handoff, TRUE, room.turn.task, None)
                 ELSE r2
<1>1. Holds(room, p) /\ room.turn # None /\ room.turn \in Turn /\ room.turn.task \in TaskRef
  BY DEF PassTurn, Holds, Inv, Good, RoomRow, Turn, TaskRef
<1>2. Good(r1, member)
  BY <1>1, EndTurnGood DEF Inv
<1> HIDE DEF r1
<1>3. Good(r2, member)
  BY <1>2, BudgetGood
<1> HIDE DEF r2
<1>4. Good(r3, member)
  <2>1. CASE reviewer # None
    <3>1. reviewer \in Participants /\ member[reviewer] = "active"
      BY <2>1, ReviewerActive
    <3>2. Handoff \in Priority /\ None \in Address
      BY DEF Priority, Address
    <3> HIDE DEF reviewer
    <3> QED
      BY <1>1, <1>3, <2>1, <3>1, <3>2, EnqueueGood
  <2>2. CASE reviewer = None
    BY <1>3, <2>2
  <2> QED
    BY <2>1, <2>2
<1>5. room' = ActivateNext(r3)
  BY DEF PassTurn, r1, r2
<1> HIDE DEF r3
<1>6. Good(room', member)
  BY <1>4, <1>5, ActivateNextGood
<1>7. notes' = {}
  BY <1>1, OnlyHoldersNote DEF PassTurn
<1>8. tasks' \in [Tasks -> Task]
  BY <1>1, TaskTypes DEF PassTurn, Inv
<1> QED
  BY <1>6, <1>7, <1>8 DEF PassTurn, Inv, NotesInFloor

LEMMA HumanStep ==
    ASSUME Inv, NEW h \in Humans, NEW to \in Address, NEW reviewer \in Address,
           NEW t \in TaskRef, NEW isTask \in BOOLEAN, SendAsHuman(h, to, reviewer, t, isTask)
    PROVE  Inv'
<1> DEFINE interrupted == room.turn
           r1 == IF interrupted # None THEN EndTurn(room) ELSE room
           r2 == IF to # None THEN ClearQueue(r1) ELSE r1
           r3 == ResetAgentTurnBudget(r2)
           r4 == IF to # None
                 THEN Enqueue(r3, to, DirectAddress, TRUE, t, reviewer)
                 ELSE IF interrupted # None /\ IsActive(interrupted.p)
                 THEN Enqueue(r3, interrupted.p, DirectAddress,
                              interrupted.blocking, interrupted.task, interrupted.ask)
                 ELSE r3
<1>1. Good(r1, member)
  BY EndTurnGood DEF Inv
<1> HIDE DEF r1
<1>2. Good(r2, member)
  BY <1>1, ClearQueueGood
<1> HIDE DEF r2
<1>3. Good(r3, member)
  BY <1>2, BudgetGood
<1> HIDE DEF r3
<1>4. DirectAddress \in Priority
  BY DEF Priority
<1>5. Good(r4, member)
  <2>1. CASE to # None
    <3>1. to \in Participants /\ member[to] = "active"
      BY <2>1 DEF SendAsHuman, Addressable, IsActive
    <3> QED
      BY <1>3, <1>4, <2>1, <3>1, EnqueueGood
  <2>2. CASE to = None /\ interrupted # None /\ IsActive(interrupted.p)
    <3>1. /\ interrupted.p \in Participants /\ member[interrupted.p] = "active"
          /\ interrupted.blocking \in BOOLEAN
          /\ interrupted.task \in TaskRef /\ interrupted.ask \in Address
      BY <2>2 DEF IsActive, Inv, Good, RoomRow, Turn, TaskRef, Address
    <3> QED
      BY <1>3, <1>4, <2>2, <3>1, EnqueueGood
  <2>3. CASE to = None /\ ~(interrupted # None /\ IsActive(interrupted.p))
    BY <1>3, <2>3
  <2> QED
    BY <2>1, <2>2, <2>3
<1>6. room' = ActivateNext(r4)
  BY DEF SendAsHuman, r1, r2, r3
<1> HIDE DEF r4
<1>7. Good(room', member)
  BY <1>5, <1>6, ActivateNextGood
<1>8. notes' = {}
  <2>1. CASE to # None
    BY <2>1 DEF SendAsHuman
  <2>2. CASE to = None /\ interrupted # None
    <3>1. notes' = notes \ {interrupted.p}
      BY <2>2 DEF SendAsHuman
    <3>2. Holds(room, interrupted.p) /\ interrupted.p \in Participants
      BY <2>2 DEF Holds, Inv, Good, RoomRow, Turn
    <3> QED
      BY <3>1, <3>2, OnlyHoldersNote
  <2>3. CASE to = None /\ interrupted = None
    BY <2>3, OnlyHoldersNote DEF SendAsHuman
  <2> QED
    BY <2>1, <2>2, <2>3
<1>9. tasks' \in [Tasks -> Task]
  <2>1. CASE isTask
    BY <2>1, TaskTypes DEF SendAsHuman, Inv, Addressable, IsActive
  <2>2. CASE ~isTask
    BY <2>2 DEF SendAsHuman, Inv
  <2> QED
    BY <2>1, <2>2
<1> QED
  BY <1>7, <1>8, <1>9 DEF SendAsHuman, Inv, NotesInFloor

LEMMA AgentStep ==
    ASSUME Inv, NEW p \in Agents, NEW to \in Address,
           NEW how \in {"plain", "target", "handoff"}, NEW t \in TaskRef,
           NEW isTask \in BOOLEAN, NEW done \in BOOLEAN, NEW hold \in BOOLEAN,
           SendAsAgent(p, to, how, t, isTask, done, hold)
    PROVE  Inv'
<1> DEFINE r0       == AcquireFloor(p)
           reviewer == RequiredReviewer(r0.turn)
           target   == IF reviewer = None /\ how = "target" THEN to ELSE None
           handoff  == IF reviewer # None THEN reviewer
                       ELSE IF how = "handoff" THEN to ELSE None
           r1 == IF hold THEN r0 ELSE RecordAgentTurn(EndTurn(r0))
           r2 == IF target # None
                 THEN Enqueue(r1, target, DirectAddress, TRUE, t, None)
                 ELSE IF handoff # None
                 THEN Enqueue(r1, handoff, Handoff, TRUE, t, None)
                 ELSE r1
           opened == IF isTask /\ target # None THEN OpenTask(tasks, t, target) ELSE tasks
<1>1. p \in Participants /\ member[p] = "active" /\ room.status = "active" /\ ~room.awaiting
  BY DEF SendAsAgent, Sendable, IsActive, Mutable, Inv, Good, RoomRow
<1>2. Good(r0, member) /\ r0.turn # None
  <2>1. CASE Holds(room, p)
    BY <2>1 DEF AcquireFloor, Holds, Inv
  <2>2. CASE ~Holds(room, p) /\ Waiting(room) # {}
    <3>1. room.turn = None /\ Peek(room) # {}
      BY <2>2 DEF SendAsAgent, MayAcquireFloor
    <3>2. Good(ActivateNext(room), member)
      BY ActivateNextGood DEF Inv
    <3>3. ActivateNext(room).turn # None
      <4> DEFINE x == CHOOSE x \in Peek(room) : TRUE
                 e == room.entry[x]
                 tn == [p |-> x, blocking |-> e.blocking, task |-> e.task, ask |-> e.ask]
      <4>1. x \in Participants /\ e \in Entry
        BY <3>1 DEF Peek, Waiting, Inv, Good, RoomRow
      <4>2. tn \in Turn
        BY <4>1 DEF Turn, Entry
      <4>3. ActivateNext(room).turn = tn
        BY <1>1, <3>1 DEF ActivateNext, StartTurn, Inv, Good, RoomRow
      <4> HIDE DEF tn
      <4> QED
        BY <4>2, <4>3, NoneAssumption
    <3> QED
      BY <2>2, <3>2, <3>3 DEF AcquireFloor
  <2>3. CASE ~Holds(room, p) /\ Waiting(room) = {}
    <3>1. room.turn = None
      BY <2>3 DEF SendAsAgent, MayAcquireFloor
    <3>2. r0 = StartTurn(room, p, FALSE, None, None)
      BY <2>3 DEF AcquireFloor
    <3>3. Good(room, member)
      BY DEF Inv
    <3> HIDE DEF r0
    <3>4. Good(r0, member) /\ Holds(r0, p)
      BY <1>1, <3>1, <3>2, <3>3, StartTurnGood
    <3> QED
      BY <3>4 DEF Holds
  <2> QED
    BY <2>1, <2>2, <2>3
<1> HIDE DEF r0
<1>3. Good(r1, member)
  BY <1>2, EndTurnGood, BudgetGood
<1>4. /\ target # None => target \in Participants /\ member[target] = "active"
      /\ handoff # None => handoff \in Participants /\ member[handoff] = "active"
  BY ReviewerActive DEF SendAsAgent, Addressable, IsActive
<1> HIDE DEF r1, target, handoff
<1>5. Good(r2, member)
  <2>1. DirectAddress \in Priority /\ Handoff \in Priority /\ None \in Address
    BY DEF Priority, Address
  <2> QED
    BY <1>3, <1>4, <2>1, EnqueueGood
<1>6. room' = ActivateNext(r2)
  BY DEF SendAsAgent, r0, r1, target, handoff
<1> HIDE DEF r2
<1>7. Good(room', member)
  BY <1>5, <1>6, ActivateNextGood
<1>8. notes' = {}
  BY <1>1, OnlyHoldersNote DEF SendAsAgent, MayAcquireFloor, Holds
<1>9. opened \in [Tasks -> Task]
  BY <1>4, TaskTypes DEF SendAsAgent, Inv
<1>10. tasks' = IF done THEN CloseTask(opened, t, p) ELSE opened
  BY DEF SendAsAgent, r0, target
<1> HIDE DEF opened
<1>11. tasks' \in [Tasks -> Task]
  BY <1>1, <1>9, <1>10, TaskTypes DEF SendAsAgent
<1> QED
  BY <1>7, <1>8, <1>11 DEF SendAsAgent, Inv, NotesInFloor

-----------------------------------------------------------------------------
LEMMA InvStep == Inv /\ [Next]_vars => Inv'
<1> SUFFICES ASSUME Inv, [Next]_vars PROVE Inv'
  OBVIOUS
<1>1. CASE Membership
  BY <1>1, MembershipStep
<1>2. CASE Control
  BY <1>2, ControlStep
<1>3. ASSUME NEW p \in Agents, Speak(p) PROVE Inv'
  BY <1>3, AgentStep DEF Speak
<1>4. ASSUME NEW p \in Agents, PublishActivity(p) PROVE Inv'
  BY <1>4, NoteStep DEF Participants
<1>5. ASSUME NEW h \in Humans, HumanSpeaks(h) PROVE Inv'
  BY <1>5, HumanStep DEF HumanSpeaks
<1>6. ASSUME NEW p \in Participants, PassTurn(p) PROVE Inv'
  BY <1>6, PassStep
<1>7. ASSUME NEW p \in Participants, GiveUpSlot(p) PROVE Inv'
  BY <1>7, GiveUpStep
<1>8. ASSUME NEW p \in Participants, ClearActivity(p) PROVE Inv'
  BY <1>8, NoteStep
<1>9. ASSUME NEW p \in Participants, NEW b \in {Queued, Optional}, RequestFloor(p, b)
      PROVE Inv'
  BY <1>9, RequestStep
<1>10. CASE UNCHANGED vars
  BY <1>10 DEF vars, Inv, Good, RoomRow, FloorMatches, MembersOnly, Spent, NotesInFloor, Holds
<1> QED
  BY <1>1, <1>2, <1>3, <1>4, <1>5, <1>6, <1>7, <1>8, <1>9, <1>10 DEF Next

THEOREM InvHolds == Spec => []Inv
<1> QED
  BY InitInv, InvStep, PTL DEF Spec

\* Type correctness of the room, for any participants, tasks and limits.
THEOREM TypeCorrect == Spec => []TypeOK
<1>1. Inv => TypeOK
  BY DEF Inv, TypeOK, Good
<1> QED
  BY <1>1, InvHolds, PTL

\* The turns and queue_entries tables never disagree about the floor.
THEOREM FloorAgreement == Spec => []FloorMatchesQueue
<1>1. Inv => FloorMatchesQueue
  BY DEF Inv, Good, FloorMatches, FloorMatchesQueue
<1> QED
  BY <1>1, InvHolds, PTL

\* A participant that has not joined, or was removed, holds nothing.
THEOREM OutsidersExcluded == Spec => []OutsidersHoldNothing
<1>1. Inv => OutsidersHoldNothing
  BY DEF Inv, Good, MembersOnly, OutsidersHoldNothing, NotesInFloor
<1> QED
  BY <1>1, InvHolds, PTL

\* A live work note is the floor holder's.
THEOREM NotesFollowTheFloor == Spec => []NoteIsHolders
<1>1. Inv => NoteIsHolders
  BY DEF Inv, NotesInFloor, NoteIsHolders
<1> QED
  BY <1>1, InvHolds, PTL

\* The room waits for its human exactly when the turn limit is spent.
THEOREM AwaitingExact == Spec => []AwaitingIffSpent
<1>1. Inv => AwaitingIffSpent
  BY DEF Inv, Good, Spent, AwaitingIffSpent
<1> QED
  BY <1>1, InvHolds, PTL
-----------------------------------------------------------------------------
(***************************************************************************)
(* The end of the room.  Every scheduler operator is a chain of EXCEPTs on *)
(* the room's row that leaves its status alone, so only StopRoom stops.    *)
(***************************************************************************)
HasStatus(r, s) == "status" \in DOMAIN r /\ r.status = s

LEMMA StatusKept ==
    ASSUME NEW r, NEW s, HasStatus(r, s)
    PROVE  /\ HasStatus(EndTurn(r), s)
           /\ HasStatus(ActivateNext(r), s)
           /\ HasStatus(RecordAgentTurn(r), s)
           /\ HasStatus(ResetAgentTurnBudget(r), s)
           /\ HasStatus(ClearQueue(r), s)
           /\ \A p : HasStatus(Dequeue(r, p), s)
           /\ \A p, pr, bl, t, ask : HasStatus(Enqueue(r, p, pr, bl, t, ask), s)
           /\ \A p, bl, t, ask : HasStatus(StartTurn(r, p, bl, t, ask), s)
<1>1. HasStatus(EndTurn(r), s)
  BY DEF HasStatus, EndTurn
<1>2. HasStatus(ActivateNext(r), s)
  BY DEF HasStatus, ActivateNext, StartTurn
<1>3. HasStatus(RecordAgentTurn(r), s) /\ HasStatus(ResetAgentTurnBudget(r), s)
  BY DEF HasStatus, RecordAgentTurn, ResetAgentTurnBudget
<1>4. HasStatus(ClearQueue(r), s)
  BY DEF HasStatus, ClearQueue
<1>5. \A p : HasStatus(Dequeue(r, p), s)
  BY DEF HasStatus, Dequeue
<1>6. \A p, pr, bl, t, ask : HasStatus(Enqueue(r, p, pr, bl, t, ask), s)
  BY DEF HasStatus, Enqueue
<1>7. \A p, bl, t, ask : HasStatus(StartTurn(r, p, bl, t, ask), s)
  BY DEF HasStatus, StartTurn
<1> QED
  BY <1>1, <1>2, <1>3, <1>4, <1>5, <1>6, <1>7

LEMMA RoomHasStatus == Inv => HasStatus(room, room.status)
BY DEF Inv, Good, RoomRow, HasStatus

LEMMA MembershipKeepsStatus ==
    ASSUME Inv, NEW h \in Humans, NEW p \in Participants, RemoveParticipant(h, p)
    PROVE  room'.status = room.status
<1> DEFINE r1 == IF Holds(room, p) THEN EndTurn(room) ELSE room
           r2 == Dequeue(r1, p)
<1>1. HasStatus(r1, room.status)
  BY RoomHasStatus, StatusKept
<1> HIDE DEF r1
<1>2. HasStatus(r2, room.status)
  BY <1>1, StatusKept
<1>3. room' = ActivateNext(r2)
  BY DEF RemoveParticipant, r1
<1> HIDE DEF r2
<1> QED
  BY <1>2, <1>3, StatusKept DEF HasStatus

LEMMA QueueKeepsStatus ==
    ASSUME Inv, NEW p \in Participants, NEW b \in {Queued, Optional},
           GiveUpSlot(p) \/ RequestFloor(p, b)
    PROVE  room'.status = room.status
<1> PICK r1 : HasStatus(r1, room.status) /\ room' = ActivateNext(r1)
  BY RoomHasStatus, StatusKept DEF GiveUpSlot, RequestFloor
<1> QED
  BY StatusKept DEF HasStatus

LEMMA PassKeepsStatus ==
    ASSUME Inv, NEW p \in Participants, PassTurn(p)
    PROVE  room'.status = room.status
<1> DEFINE r1 == EndTurn(room)
           r2 == IF p \in Agents THEN RecordAgentTurn(r1) ELSE r1
<1>1. HasStatus(r1, room.status)
  BY RoomHasStatus, StatusKept
<1> HIDE DEF r1
<1>2. HasStatus(r2, room.status)
  BY <1>1, StatusKept
<1>3. \E r3 : (r3 = r2 \/ \E q, k, t : r3 = Enqueue(r2, q, k, TRUE, t, None))
               /\ room' = ActivateNext(r3)
  BY DEF PassTurn, r1
<1> HIDE DEF r2
<1>4. PICK r3 : HasStatus(r3, room.status) /\ room' = ActivateNext(r3)
  BY <1>2, <1>3, StatusKept
<1> QED
  BY <1>4, StatusKept DEF HasStatus

LEMMA HumanKeepsStatus ==
    ASSUME Inv, NEW h, NEW to, NEW reviewer, NEW t, NEW isTask,
           SendAsHuman(h, to, reviewer, t, isTask)
    PROVE  room'.status = room.status
<1> DEFINE r1 == IF room.turn # None THEN EndTurn(room) ELSE room
           r2 == IF to # None THEN ClearQueue(r1) ELSE r1
           r3 == ResetAgentTurnBudget(r2)
<1>1. HasStatus(r1, room.status)
  BY RoomHasStatus, StatusKept
<1> HIDE DEF r1
<1>2. HasStatus(r2, room.status)
  BY <1>1, StatusKept
<1> HIDE DEF r2
<1>3. HasStatus(r3, room.status)
  BY <1>2, StatusKept
<1>4. \E r4 : (r4 = r3 \/ \E q, k, b, u, ask : r4 = Enqueue(r3, q, k, b, u, ask))
               /\ room' = ActivateNext(r4)
  BY DEF SendAsHuman, r1, r2
<1> HIDE DEF r3
<1>5. PICK r4 : HasStatus(r4, room.status) /\ room' = ActivateNext(r4)
  BY <1>3, <1>4, StatusKept
<1> QED
  BY <1>5, StatusKept DEF HasStatus

LEMMA AgentKeepsStatus ==
    ASSUME Inv, NEW p, NEW to, NEW how, NEW t, NEW isTask, NEW done, NEW hold,
           SendAsAgent(p, to, how, t, isTask, done, hold)
    PROVE  room'.status = room.status
<1> DEFINE r0 == AcquireFloor(p)
           r1 == IF hold THEN r0 ELSE RecordAgentTurn(EndTurn(r0))
<1>1. HasStatus(r0, room.status)
  BY RoomHasStatus, StatusKept DEF AcquireFloor
<1> HIDE DEF r0
<1>2. HasStatus(EndTurn(r0), room.status)
  BY <1>1, StatusKept
<1>3. HasStatus(r1, room.status)
  BY <1>1, <1>2, StatusKept
<1>4. \E r2 : (r2 = r1 \/ \E q, k, b, u, ask : r2 = Enqueue(r1, q, k, b, u, ask))
               /\ room' = ActivateNext(r2)
  BY DEF SendAsAgent, r0
<1> HIDE DEF r1
<1>5. PICK r2 : HasStatus(r2, room.status) /\ room' = ActivateNext(r2)
  BY <1>3, <1>4, StatusKept
<1> QED
  BY <1>5, StatusKept DEF HasStatus

\* Stopping empties the room: the floor, the queue, notes, invites and tasks.
LEMMA StopEmpties ==
    ASSUME Inv, NEW h \in Humans, StopRoom(h)
    PROVE  StoppedIsEmpty'
<1> DEFINE r1 == IF room.turn # None THEN EndTurn(room) ELSE room
           r2 == ClearQueue(r1)
<1>1. Good(r1, member) /\ r1.turn = None
  BY EndTurnGood DEF Inv
<1> HIDE DEF r1
<1>2. Good(r2, member) /\ r2.turn = None
  BY <1>1, ClearQueueGood DEF SameFloor
<1>3. \A p \in Participants : r2.entry[p] = None
  <2>1. TAKE p \in Participants
  <2>2. r2.entry[p] = IF p \in Waiting(r1) THEN None ELSE r1.entry[p]
    BY <1>1 DEF ClearQueue, Good, RoomRow
  <2>3. CASE r1.entry[p] = None
    BY <2>2, <2>3
  <2>4. CASE r1.entry[p] # None
    <3>1. r1.entry[p] \in Entry
      BY <1>1, <2>4 DEF Good, RoomRow
    <3>2. r1.entry[p].live # "active"
      BY <1>1, <2>4 DEF Good, FloorMatches, Holds
    <3>3. p \in Waiting(r1)
      BY <2>4, <3>1, <3>2 DEF Waiting, Entry
    <3> QED
      BY <2>2, <3>3
  <2> QED
    BY <2>3, <2>4
<1>4. room' = [r2 EXCEPT !.status = "stopped", !.turn = None]
  BY DEF StopRoom, r1
<1> HIDE DEF r2
<1>5. room'.turn = None /\ room'.entry = r2.entry
  BY <1>2, <1>4 DEF Good, RoomRow
<1>6. \A t \in Tasks : tasks'[t].status # "open"
  <2>1. tasks \in [Tasks -> Task] /\ tasks' = CancelOpenTasks(tasks)
    BY DEF StopRoom, Inv
  <2> QED
    BY <2>1 DEF CancelOpenTasks, Task
<1> QED
  BY <1>3, <1>5, <1>6 DEF StoppedIsEmpty, StopRoom

\* What is left to do in a stopped room, an invite to revoke or expire or a
\* note to take down, has nothing to work on.
LEMMA StoppedStands ==
    ASSUME Inv, StoppedIsEmpty, room.status = "stopped", Next
    PROVE  UNCHANGED vars
<1>1. ~Mutable /\ notes = {} /\ invited = {}
  BY DEF Mutable, StoppedIsEmpty
<1>2. ~Membership
  BY <1>1 DEF Membership, CreateInvite, RevokeInvite, RemoveParticipant, InviteExpires, Join
<1>3. ~Control
  BY <1>1 DEF Control, PauseRoom, ResumeRoom, StopRoom, SetRoomConfig
<1>4. \A p : ~Sendable(p)
  BY <1>1 DEF Sendable
<1>5. \A p \in Agents : ~Speak(p) /\ ~PublishActivity(p)
  <2>1. ASSUME NEW p, NEW to, NEW how, NEW t, NEW isTask, NEW done, NEW hold,
               SendAsAgent(p, to, how, t, isTask, done, hold)
        PROVE  Sendable(p)
    BY <2>1 DEF SendAsAgent
  <2>2. ASSUME NEW p \in Agents, Speak(p) PROVE Sendable(p)
    BY <2>1, <2>2 DEF Speak
  <2> QED
    BY <1>4, <2>2 DEF PublishActivity
<1>6. \A h \in Humans : ~HumanSpeaks(h)
  BY <1>4 DEF HumanSpeaks, SendAsHuman
<1>7. \A p \in Participants : ~PassTurn(p) /\ ~GiveUpSlot(p) /\ ~ClearActivity(p)
  BY <1>1, <1>4 DEF PassTurn, GiveUpSlot, ClearActivity
<1>8. \A p \in Participants, b \in {Queued, Optional} : ~RequestFloor(p, b)
  BY <1>4 DEF RequestFloor
<1> QED
  BY <1>2, <1>3, <1>5, <1>6, <1>7, <1>8 DEF Next

LEMMA StoppedStep == Inv /\ StoppedIsEmpty /\ [Next]_vars => StoppedIsEmpty'
<1> SUFFICES ASSUME Inv, StoppedIsEmpty, [Next]_vars, room'.status = "stopped"
             PROVE  StoppedIsEmpty'
  BY DEF StoppedIsEmpty
<1>1. CASE UNCHANGED vars
  BY <1>1 DEF vars, StoppedIsEmpty
<1>2. CASE room.status = "stopped" /\ Next
  BY <1>1, <1>2, StoppedStands
<1>3. CASE room.status # "stopped" /\ Next
  <2>1. ASSUME Membership PROVE FALSE
    BY <1>3, <2>1, MembershipKeepsStatus
       DEF Membership, CreateInvite, RevokeInvite, InviteExpires, Join
  <2>2. ASSUME Control PROVE StoppedIsEmpty'
    <3>1. ASSUME NEW h \in Humans, StopRoom(h) PROVE StoppedIsEmpty'
      BY <3>1, StopEmpties
    <3>2. ASSUME NEW h \in Humans, PauseRoom(h) PROVE FALSE
      BY <1>3, <3>2 DEF PauseRoom, Inv, Good, RoomRow
    <3>3. ASSUME NEW h \in Humans, ResumeRoom(h) PROVE FALSE
      <4> DEFINE r1 == [room EXCEPT !.status = "active"]
      <4>1. HasStatus(r1, "active") /\ room' = ActivateNext(r1)
        BY <3>3 DEF ResumeRoom, Inv, Good, RoomRow, HasStatus
      <4> HIDE DEF r1
      <4> QED
        BY <4>1, StatusKept DEF HasStatus
    <3>4. ASSUME NEW h \in Humans, NEW m \in Budgets, SetRoomConfig(h, m) PROVE FALSE
      BY <1>3, <3>4 DEF SetRoomConfig, Inv, Good, RoomRow
    <3> QED
      BY <2>2, <3>1, <3>2, <3>3, <3>4 DEF Control
  <2>3. ASSUME NEW p \in Agents, Speak(p) PROVE FALSE
    BY <1>3, <2>3, AgentKeepsStatus DEF Speak
  <2>4. ASSUME NEW h \in Humans, HumanSpeaks(h) PROVE FALSE
    BY <1>3, <2>4, HumanKeepsStatus DEF HumanSpeaks
  <2>5. ASSUME NEW p \in Participants, PassTurn(p) PROVE FALSE
    BY <1>3, <2>5, PassKeepsStatus
  <2>6. ASSUME NEW p \in Participants, NEW b \in {Queued, Optional},
               GiveUpSlot(p) \/ RequestFloor(p, b)
        PROVE  FALSE
    BY <1>3, <2>6, QueueKeepsStatus
  <2>7. ASSUME NEW p \in Participants, PublishActivity(p) \/ ClearActivity(p) PROVE FALSE
    BY <1>3, <2>7 DEF PublishActivity, ClearActivity
  <2> QED
    BY <1>3, <2>1, <2>2, <2>3, <2>4, <2>5, <2>6, <2>7 DEF Next, Participants
<1> QED
  BY <1>1, <1>2, <1>3

\* A stopped room keeps nothing live: no floor, ask, note, invite or task.
THEOREM StoppedRoomIsEmpty == Spec => []StoppedIsEmpty
<1>1. Init => StoppedIsEmpty
  BY DEF Init, StoppedIsEmpty
<1> QED
  BY <1>1, InvHolds, StoppedStep, PTL DEF Spec

\* Nothing outside the membership, and nothing after the end.
THEOREM RoomIsClosed == Spec => []NothingOutside
<1> QED
  BY OutsidersExcluded, NotesFollowTheFloor, StoppedRoomIsEmpty, PTL DEF NothingOutside

\* A stopped room stays stopped, whoever calls what.
THEOREM RoomEndsForGood == Spec => StoppedIsFinal
<1>1. Inv /\ StoppedIsEmpty /\ [Next]_vars => [room.status # "stopped"]_vars
  BY StoppedStands
<1> QED
  BY <1>1, InvHolds, StoppedRoomIsEmpty, PTL DEF Spec, StoppedIsFinal

-----------------------------------------------------------------------------
(***************************************************************************)
(* The order of the queue.  Chain(B, W): B orders W strictly, and every    *)
(* group of W has a first member, as numbers drawn from a growing counter  *)
(* do.  It survives taking members away and adding one at the end, and it  *)
(* is what makes the queue have a head however many are waiting.           *)
(***************************************************************************)
Chain(B, W) ==
    /\ B \subseteq W \X W
    /\ \A p, q \in W : <<p, q>> \in B => <<q, p>> \notin B
    /\ \A S \in SUBSET W : S # {} => \E p \in S : \A q \in S \ {p} : <<p, q>> \in B

Ordered(r) == Chain(r.before, Waiting(r))

\* Those who stay keep the order they had.
LEMMA ChainShrinks ==
    ASSUME NEW B, NEW W, NEW V, V \subseteq W, Chain(B, W)
    PROVE  Chain({e \in B : e[1] \in V /\ e[2] \in V}, V)
<1> DEFINE C == {e \in B : e[1] \in V /\ e[2] \in V}
<1>1. B \subseteq W \X W
  BY DEF Chain
<1>2. C \subseteq V \X V
  BY <1>1
<1>3. \A p, q \in V : <<p, q>> \in C <=> <<p, q>> \in B
  OBVIOUS
<1> HIDE DEF C
<1>4. \A p, q \in V : <<p, q>> \in C => <<q, p>> \notin C
  BY <1>3 DEF Chain
<1>5. ASSUME NEW S \in SUBSET V, S # {}
      PROVE  \E p \in S : \A q \in S \ {p} : <<p, q>> \in C
  <2>1. S \in SUBSET W
    OBVIOUS
  <2>2. PICK p \in S : \A q \in S \ {p} : <<p, q>> \in B
    BY <1>5, <2>1 DEF Chain
  <2> QED
    BY <1>3, <2>2
<1>6. Chain(C, V)
  BY <1>2, <1>4, <1>5 DEF Chain
<1> QED
  BY <1>6 DEF C

\* A newcomer goes behind everybody.
LEMMA ChainGrows ==
    ASSUME NEW B, NEW W, NEW p, p \notin W, Chain(B, W)
    PROVE  Chain(B \cup (W \X {p}), W \cup {p})
<1> DEFINE C == B \cup (W \X {p})
           V == W \cup {p}
<1>1. B \subseteq W \X W
  BY DEF Chain
<1>2. C \subseteq V \X V
  BY <1>1
<1>3. \A x, y : <<x, y>> \in C <=> <<x, y>> \in B \/ (x \in W /\ y = p)
  OBVIOUS
<1>4. \A x, y : <<x, y>> \in B => x \in W /\ y \in W
  BY <1>1
<1> HIDE DEF C
<1>5. \A x, y \in V : <<x, y>> \in C => <<y, x>> \notin C
  BY <1>3, <1>4 DEF Chain
<1>6. ASSUME NEW S \in SUBSET V, S # {}
      PROVE  \E x \in S : \A y \in S \ {x} : <<x, y>> \in C
  <2>1. CASE S \cap W = {}
    <3>1. S = {p}
      BY <1>6, <2>1
    <3> QED
      BY <3>1
  <2>2. CASE S \cap W # {}
    <3>1. S \cap W \in SUBSET W
      OBVIOUS
    <3>2. PICK x \in S \cap W : \A y \in (S \cap W) \ {x} : <<x, y>> \in B
      BY <2>2, <3>1 DEF Chain
    <3>3. \A y \in S \ {x} : <<x, y>> \in C
      BY <1>3, <3>2
    <3> QED
      BY <3>2, <3>3
  <2> QED
    BY <2>1, <2>2
<1>7. Chain(C, V)
  BY <1>2, <1>5, <1>6 DEF Chain
<1> QED
  BY <1>7 DEF C

\* A queue that holds somebody has a head, and only one.
LEMMA HeadExists ==
    ASSUME NEW r \in RoomRow, Ordered(r), Waiting(r) # {}
    PROVE  Peek(r) # {}
<1> DEFINE At(k) == {p \in Waiting(r) : r.entry[p].priority = k}
<1>1. \A p \in Waiting(r) : r.entry[p].priority \in {1, 2, 3, 4}
  BY DEF Waiting, RoomRow, Entry, Priority
<1>2. ASSUME NEW k \in {1, 2, 3, 4}, At(k) # {},
             \A p \in Waiting(r) : r.entry[p].priority >= k
      PROVE  Peek(r) # {}
  <2>1. PICK p \in At(k) : \A q \in At(k) \ {p} : <<p, q>> \in r.before
    BY <1>2 DEF Ordered, Chain
  <2>2. p \in Waiting(r) /\ r.entry[p].priority = k
    BY <2>1
  <2>3. ASSUME NEW q \in Waiting(r) \ {p}
        PROVE  Ahead(r, p, q)
    <3>1. CASE r.entry[q].priority = k
      BY <2>1, <2>2, <3>1 DEF Ahead
    <3>2. CASE r.entry[q].priority # k
      BY <1>1, <1>2, <2>2, <3>2 DEF Ahead
    <3> QED
      BY <3>1, <3>2
  <2>4. p \in Peek(r)
    BY <2>2, <2>3 DEF Peek, Waiting
  <2> QED
    BY <2>4
<1>3. \E k \in {1, 2, 3, 4} : At(k) # {} /\ \A p \in Waiting(r) : r.entry[p].priority >= k
  <2>1. CASE At(1) # {}
    BY <1>1, <2>1
  <2>2. CASE At(1) = {} /\ At(2) # {}
    BY <1>1, <2>2
  <2>3. CASE At(1) = {} /\ At(2) = {} /\ At(3) # {}
    BY <1>1, <2>3
  <2>4. CASE At(1) = {} /\ At(2) = {} /\ At(3) = {}
    BY <1>1, <2>4
  <2> QED
    BY <2>1, <2>2, <2>3, <2>4
<1> QED
  BY <1>2, <1>3

LEMMA HeadUnique ==
    ASSUME NEW r \in RoomRow, Ordered(r), NEW p \in Peek(r), NEW q \in Peek(r)
    PROVE  p = q
<1> SUFFICES ASSUME p # q PROVE FALSE
  OBVIOUS
<1>1. p \in Waiting(r) /\ q \in Waiting(r) /\ Ahead(r, p, q) /\ Ahead(r, q, p)
  BY DEF Peek
<1>2. r.entry[p].priority \in Nat /\ r.entry[q].priority \in Nat
  BY <1>1 DEF Waiting, RoomRow, Entry, Priority
<1> QED
  BY <1>1, <1>2 DEF Ahead, Ordered, Chain

-----------------------------------------------------------------------------
(***************************************************************************)
(* What each scheduler operator does to the queue.  Leaves(r, s, L): the   *)
(* entries of L are gone from the queue, the others stand as they stood.   *)
(***************************************************************************)
Leaves(r, s, L) ==
    /\ Waiting(s) = Waiting(r) \ L
    /\ \A q \in Waiting(s) : s.entry[q] = r.entry[q]
    /\ s.before = {e \in r.before : e[1] \in Waiting(s) /\ e[2] \in Waiting(s)}

\* p asks: its entry is new or stronger and goes to the back of its class, or
\* it keeps its place, or nothing changes.
Asks(r, s, p, pr, ask) ==
    /\ \A q \in Participants \ {p} : s.entry[q] = r.entry[q]
    /\ s.turn = r.turn
    /\ \/ /\ p \in Waiting(s) /\ s.entry[p].priority = pr /\ s.entry[p].ask = ask
          /\ r.entry[p] = None \/ (p \in Waiting(r) /\ pr < r.entry[p].priority)
          /\ s.before = AtBack(r, p)
       \/ /\ p \in Waiting(r) /\ p \in Waiting(s) /\ s.entry[p].ask = ask
          /\ s.entry[p].priority = r.entry[p].priority /\ ~(pr < r.entry[p].priority)
          /\ s.before = r.before
       \/ /\ s = r /\ r.entry[p] # None
          /\ p \in Waiting(r) => ~(pr < r.entry[p].priority)

LEMMA LeavesOrdered ==
    ASSUME NEW r, NEW s, NEW L, Ordered(r), Leaves(r, s, L)
    PROVE  Ordered(s)
BY ChainShrinks DEF Leaves, Ordered

LEMMA LeavesTwice ==
    ASSUME NEW r, NEW s, NEW u, NEW L, NEW M, Leaves(r, s, L), Leaves(s, u, M)
    PROVE  Leaves(r, u, L \cup M)
<1>1. Waiting(u) = Waiting(r) \ (L \cup M) /\ Waiting(u) \subseteq Waiting(s)
  BY DEF Leaves
<1>2. \A q \in Waiting(u) : u.entry[q] = r.entry[q]
  BY <1>1 DEF Leaves
<1>3. u.before = {e \in r.before : e[1] \in Waiting(u) /\ e[2] \in Waiting(u)}
  <2>1. /\ s.before = {e \in r.before : e[1] \in Waiting(s) /\ e[2] \in Waiting(s)}
        /\ u.before = {e \in s.before : e[1] \in Waiting(u) /\ e[2] \in Waiting(u)}
    BY DEF Leaves
  <2> HIDE DEF Waiting
  <2> QED
    BY <1>1, <2>1
<1> QED
  BY <1>1, <1>2, <1>3 DEF Leaves

\* The operators that leave the queue alone, and what may be said of the rest.
LEMMA SameQueue ==
    ASSUME NEW r, NEW s, Ordered(r), s.entry = r.entry, s.before = r.before
    PROVE  Leaves(r, s, {})
<1>1. Waiting(s) = Waiting(r)
  BY DEF Waiting
<1>2. r.before \subseteq Waiting(r) \X Waiting(r)
  BY DEF Ordered, Chain
<1> QED
  BY <1>1, <1>2 DEF Leaves

LEMMA DequeueLeaves ==
    ASSUME NEW r \in RoomRow, Ordered(r), NEW p \in Participants
    PROVE  Leaves(r, Dequeue(r, p), {p})
<1> DEFINE s == Dequeue(r, p)
<1>1. s.entry = [r.entry EXCEPT ![p] = None] /\ s.before = Without(r, {p})
  BY DEF Dequeue, RoomRow
<1> HIDE DEF s
<1>2. s.entry[p] = None /\ \A q \in Participants \ {p} : s.entry[q] = r.entry[q]
  BY <1>1 DEF RoomRow
<1>3. Waiting(s) = Waiting(r) \ {p}
  BY <1>2 DEF Waiting
<1>4. \A q \in Waiting(s) : s.entry[q] = r.entry[q]
  BY <1>2 DEF Waiting
<1>5. r.before \subseteq Waiting(r) \X Waiting(r)
  BY DEF Ordered, Chain
<1>6. s.before = {e \in r.before : e[1] \in Waiting(s) /\ e[2] \in Waiting(s)}
  BY <1>1, <1>3, <1>5 DEF Without
<1> QED
  BY <1>3, <1>4, <1>6 DEF Leaves, s

LEMMA ClearQueueLeaves ==
    ASSUME NEW r \in RoomRow
    PROVE  Leaves(r, ClearQueue(r), Participants)
<1> DEFINE s == ClearQueue(r)
<1>1. s.before = {}
  BY DEF ClearQueue, RoomRow
<1>2. \A q \in Participants :
         s.entry[q] = IF q \in Waiting(r) THEN None ELSE r.entry[q]
  BY DEF ClearQueue, RoomRow
<1> HIDE DEF s
<1>3. Waiting(s) = {} /\ Waiting(r) \subseteq Participants
  BY <1>2 DEF Waiting
<1> QED
  BY <1>1, <1>3 DEF Leaves, s

LEMMA EndTurnLeaves ==
    ASSUME NEW r \in RoomRow, Ordered(r), r.turn # None
    PROVE  Leaves(r, EndTurn(r), {})
<1> DEFINE s == EndTurn(r)
           h == r.turn.p
           x == IF r.entry[h] # None /\ r.entry[h].live = "active" THEN None ELSE r.entry[h]
<1>1. h \in Participants
  BY DEF RoomRow, Turn
<1>2. s = [r EXCEPT !.turn = None, !.entry[h] = x]
  BY DEF EndTurn
<1>3. s.before = r.before /\ s.entry = [r.entry EXCEPT ![h] = x]
  <2> HIDE DEF x, h, s
  <2> QED
    BY <1>1, <1>2 DEF RoomRow
<1>4. s.entry[h] = x /\ \A q \in Participants \ {h} : s.entry[q] = r.entry[q]
  <2> HIDE DEF x, h, s
  <2> QED
    BY <1>1, <1>3 DEF RoomRow
<1> HIDE DEF s
<1>5. Waiting(s) = Waiting(r)
  BY <1>1, <1>4 DEF Waiting
<1>6. \A q \in Waiting(s) : s.entry[q] = r.entry[q]
  BY <1>4, <1>5 DEF Waiting
<1>7. r.before \subseteq Waiting(r) \X Waiting(r)
  BY DEF Ordered, Chain
<1> QED
  BY <1>3, <1>5, <1>6, <1>7 DEF Leaves, s

\* Activation takes the head off the queue, and gives it the floor.
LEMMA ActivateNextLeaves ==
    ASSUME NEW r \in RoomRow, Ordered(r), r.status = "active", ~r.awaiting, r.turn = None,
           Waiting(r) # {}
    PROVE  \E h \in Peek(r) :
              LET s == ActivateNext(r)
              IN  /\ Leaves(r, s, {h})
                  /\ s.turn # None /\ s.turn.p = h /\ s.turn.ask = r.entry[h].ask
                  /\ s.entry[h] # None /\ s.entry[h].priority = r.entry[h].priority
                  /\ s.entry[h].live = "active"
<1> DEFINE s == ActivateNext(r)
           h == CHOOSE x \in Peek(r) : TRUE
           e == r.entry[h]
           t == [p |-> h, blocking |-> e.blocking, task |-> e.task, ask |-> e.ask]
           a == [e EXCEPT !.live = "active"]
<1>1. Peek(r) # {} /\ h \in Peek(r)
  BY HeadExists
<1>2. h \in Participants /\ h \in Waiting(r) /\ e \in Entry
  BY <1>1 DEF Peek, Waiting, RoomRow
<1>3. /\ t \in Turn /\ t.p = h /\ t.ask = e.ask
      /\ a \in Entry /\ a.live = "active" /\ a.priority = e.priority
  BY <1>2 DEF Turn, Entry
<1>4. s = [r EXCEPT !.turn = t, !.entry = [r.entry EXCEPT ![h] = a],
                    !.before = Without(r, {h})]
  BY <1>1 DEF ActivateNext, StartTurn, RoomRow
<1>5. t # None /\ a # None
  BY <1>3, NoneAssumption
<1> HIDE DEF t, a, e, h, s
<1>6. s.turn = t /\ s.entry = [r.entry EXCEPT ![h] = a] /\ s.before = Without(r, {h})
  BY <1>4 DEF RoomRow
<1>7. s.entry[h] = a /\ \A q \in Participants \ {h} : s.entry[q] = r.entry[q]
  BY <1>2, <1>6 DEF RoomRow
<1>8. Waiting(s) = Waiting(r) \ {h}
  BY <1>2, <1>3, <1>7 DEF Waiting
<1>9. \A q \in Waiting(s) : s.entry[q] = r.entry[q]
  BY <1>7, <1>8 DEF Waiting
<1>10. r.before \subseteq Waiting(r) \X Waiting(r)
  BY DEF Ordered, Chain
<1>11. s.before = {x \in r.before : x[1] \in Waiting(s) /\ x[2] \in Waiting(s)}
  BY <1>6, <1>8, <1>10 DEF Without
<1>12. Leaves(r, s, {h})
  BY <1>8, <1>9, <1>11 DEF Leaves
<1> QED
  BY <1>1, <1>3, <1>5, <1>6, <1>7, <1>12 DEF s, e

LEMMA EnqueueAsks ==
    ASSUME NEW r \in RoomRow, NEW p \in Participants, NEW pr \in Priority,
           NEW bl \in BOOLEAN, NEW t \in TaskRef, NEW ask \in Address
    PROVE  Asks(r, Enqueue(r, p, pr, bl, t, ask), p, pr, ask)
<1> DEFINE s     == Enqueue(r, p, pr, bl, t, ask)
           old   == r.entry[p]
           fresh == [live |-> "waiting", priority |-> pr, blocking |-> bl,
                     task |-> t, ask |-> ask]
           kept  == [fresh EXCEPT !.priority = old.priority,
                                  !.task = IF t = None THEN old.task ELSE t]
<1> SUFFICES Asks(r, s, p, pr, ask)
  OBVIOUS
<1>1. old \in Entry \cup {None} /\ fresh \in Entry
  BY DEF RoomRow, Entry, Address, TaskRef
<1>2. ASSUME NEW x \in Entry, NEW b, s = [r EXCEPT !.entry = [r.entry EXCEPT ![p] = x], !.before = b]
      PROVE  /\ \A q \in Participants \ {p} : s.entry[q] = r.entry[q]
             /\ s.entry[p] = x /\ s.before = b /\ s.turn = r.turn
             /\ x.live = "waiting" => p \in Waiting(s)
  <2> HIDE DEF s
  <2>1. /\ \A q \in Participants \ {p} : s.entry[q] = r.entry[q]
        /\ s.entry[p] = x /\ s.before = b /\ s.turn = r.turn
    BY <1>2 DEF RoomRow
  <2> QED
    BY <2>1, NoneAssumption DEF Waiting
<1>3. CASE old = None \/ (old.live = "waiting" /\ pr < old.priority)
  <2>1. s = [r EXCEPT !.entry = [r.entry EXCEPT ![p] = fresh], !.before = AtBack(r, p)]
    BY <1>3 DEF Enqueue, RoomRow
  <2>2. /\ \A q \in Participants \ {p} : s.entry[q] = r.entry[q]
        /\ s.entry[p] = fresh /\ s.before = AtBack(r, p) /\ s.turn = r.turn
        /\ fresh.live = "waiting" => p \in Waiting(s)
    <3> HIDE DEF s, fresh
    <3> QED
      BY <1>1, <1>2, <2>1
  <2>3. fresh.live = "waiting" /\ fresh.priority = pr /\ fresh.ask = ask
    OBVIOUS
  <2>4. old # None => (p \in Waiting(r) /\ pr < old.priority)
    BY <1>3 DEF Waiting
  <2> HIDE DEF s, fresh
  <2> QED
    BY <2>2, <2>3, <2>4 DEF Asks
<1>4. CASE /\ ~(old = None \/ (old.live = "waiting" /\ pr < old.priority))
           /\ old.live = "waiting" /\ bl /\ ~old.blocking
  <2>1. kept \in Entry /\ kept.live = "waiting" /\ kept.priority = old.priority /\ kept.ask = ask
    BY <1>1, <1>4 DEF Entry, TaskRef
  <2>2. s = [r EXCEPT !.entry = [r.entry EXCEPT ![p] = kept], !.before = r.before]
    <3>1. s = [r EXCEPT !.entry = [r.entry EXCEPT ![p] = kept]]
      BY <1>4 DEF Enqueue, RoomRow
    <3> DEFINE queue == [r.entry EXCEPT ![p] = kept]
    <3> HIDE DEF queue, s
    <3>2. s = [r EXCEPT !.entry = queue]
      BY <3>1 DEF queue
    <3>3. [r EXCEPT !.entry = queue] = [r EXCEPT !.entry = queue, !.before = r.before]
      BY DEF RoomRow
    <3> QED
      BY <3>2, <3>3 DEF queue
  <2>3. /\ \A q \in Participants \ {p} : s.entry[q] = r.entry[q]
        /\ s.entry[p] = kept /\ s.before = r.before /\ s.turn = r.turn
        /\ p \in Waiting(s)
    <3> HIDE DEF s, kept
    <3> QED
      BY <1>2, <2>1, <2>2
  <2>4. p \in Waiting(r) /\ ~(pr < old.priority)
    BY <1>4 DEF Waiting
  <2> HIDE DEF s, kept
  <2> QED
    BY <2>1, <2>3, <2>4 DEF Asks
<1>5. CASE /\ ~(old = None \/ (old.live = "waiting" /\ pr < old.priority))
           /\ ~(old.live = "waiting" /\ bl /\ ~old.blocking)
  <2>1. s = r
    BY <1>5 DEF Enqueue
  <2>2. r.entry[p] # None /\ (p \in Waiting(r) => ~(pr < r.entry[p].priority))
    BY <1>5 DEF Waiting
  <2> HIDE DEF s
  <2> QED
    BY <2>1, <2>2 DEF Asks
<1> HIDE DEF s, fresh, kept
<1> QED
  BY <1>3, <1>4, <1>5

-----------------------------------------------------------------------------
(***************************************************************************)
(* What a handler may do to those who were waiting and still are.          *)
(***************************************************************************)
Overtakes(r, s, p, q) == Ahead(r, p, q) /\ ~Ahead(s, p, q)

Fair(r, s) ==
    /\ Ordered(s)
    /\ \A p, q \in Waiting(r) \cap Waiting(s) :
          Overtakes(r, s, p, q) => s.entry[q].priority < r.entry[q].priority
    /\ \A q \in Waiting(r) \cap Waiting(s) : s.entry[q].priority <= r.entry[q].priority

\* A floor newly granted went to one nobody left waiting was ahead of.
Served(r, s) ==
    (s.turn # None /\ s.turn # r.turn) =>
       LET h == s.turn.p
       IN  \A q \in (Waiting(r) \cap Waiting(s)) \ {h} :
              /\ s.entry[h] # None
              /\ s.entry[h].priority <= r.entry[q].priority

\* WorkConserving, of one room row.
Busy(r) == (r.status = "active" /\ ~r.awaiting /\ r.turn = None) => Waiting(r) = {}

LEMMA Ranks ==
    ASSUME NEW r \in RoomRow, NEW p \in Waiting(r)
    PROVE  r.entry[p] \in Entry /\ r.entry[p].priority \in Nat /\ p \in Participants
BY DEF Waiting, RoomRow, Entry, Priority

LEMMA LeavesFair ==
    ASSUME NEW r \in RoomRow, NEW s, NEW L, Ordered(r), Leaves(r, s, L)
    PROVE  Fair(r, s)
<1>1. Ordered(s)
  BY LeavesOrdered
<1>2. \A p, q \in Waiting(s) : <<p, q>> \in r.before => <<p, q>> \in s.before
  BY DEF Leaves
<1>3. \A q \in Waiting(s) : s.entry[q] = r.entry[q]
  BY DEF Leaves
<1>4. \A p, q \in Waiting(s) : Ahead(r, p, q) => Ahead(s, p, q)
  BY <1>2, <1>3 DEF Ahead
<1>5. \A q \in Waiting(r) \cap Waiting(s) : s.entry[q].priority <= r.entry[q].priority
  BY <1>3, Ranks
<1> QED
  BY <1>1, <1>4, <1>5 DEF Fair, Overtakes

\* One who is granted the floor or leaves overtakes nobody.
LEMMA FairThenLeaves ==
    ASSUME NEW r \in RoomRow, NEW u \in RoomRow, NEW s, NEW L, Fair(r, u), Leaves(u, s, L)
    PROVE  Fair(r, s)
<1>1. Ordered(s)
  BY LeavesOrdered DEF Fair
<1>2. Waiting(s) \subseteq Waiting(u) /\ \A q \in Waiting(s) : s.entry[q] = u.entry[q]
  BY DEF Leaves
<1>3. \A p, q \in Waiting(s) : <<p, q>> \in u.before => <<p, q>> \in s.before
  BY DEF Leaves
<1>4. \A p, q \in Waiting(s) : Ahead(u, p, q) => Ahead(s, p, q)
  BY <1>2, <1>3 DEF Ahead
<1> QED
  BY <1>1, <1>2, <1>4 DEF Fair, Overtakes

LEMMA AsksOrdered ==
    ASSUME NEW r \in RoomRow, NEW s \in RoomRow, NEW p \in Participants, NEW pr, NEW ask,
           Ordered(r), Asks(r, s, p, pr, ask)
    PROVE  Ordered(s)
<1>1. CASE p \in Waiting(s) /\ s.before = AtBack(r, p)
  <2> DEFINE V == Waiting(r) \ {p}
             B == {e \in r.before : e[1] \in V /\ e[2] \in V}
  <2>1. Waiting(s) = V \cup {p}
    BY <1>1 DEF Asks, Waiting
  <2>2. r.before \subseteq Waiting(r) \X Waiting(r)
    BY DEF Ordered, Chain
  <2>3. s.before = B \cup (V \X {p})
    BY <1>1, <2>2 DEF AtBack, Without
  <2>4. Chain(B, V)
    BY ChainShrinks DEF Ordered
  <2> HIDE DEF V, B
  <2>5. p \notin V
    BY DEF V
  <2> QED
    BY <2>1, <2>3, <2>4, <2>5, ChainGrows DEF Ordered
<1>2. CASE p \in Waiting(r) /\ p \in Waiting(s) /\ s.before = r.before
  <2>1. Waiting(s) = Waiting(r)
    BY <1>2 DEF Asks, Waiting
  <2> QED
    BY <1>2, <2>1 DEF Ordered
<1>3. CASE s = r
  BY <1>3
<1> QED
  BY <1>1, <1>2, <1>3 DEF Asks

\* An ask, made after some have left: either whoever asks had not left, or it
\* is a direct address and finds the queue empty.
LEMMA AsksFair ==
    ASSUME NEW r \in RoomRow, NEW u \in RoomRow, NEW s \in RoomRow,
           NEW p \in Participants, NEW pr \in Priority, NEW ask, NEW L,
           Ordered(r), Leaves(r, u, L), Asks(u, s, p, pr, ask),
           p \notin L \/ (Waiting(u) = {} /\ pr = DirectAddress)
    PROVE  Fair(r, s)
<1>1. Ordered(u) /\ Ordered(s)
  BY LeavesOrdered, AsksOrdered
<1>2. Waiting(s) \subseteq Waiting(u) \cup {p} /\ Waiting(u) \subseteq Waiting(r)
  BY DEF Asks, Waiting, Leaves
<1>3. \A q \in Waiting(u) : u.entry[q] = r.entry[q]
  BY DEF Leaves
<1>4. \A x, y \in Waiting(u) : <<x, y>> \in r.before => <<x, y>> \in u.before
  BY DEF Leaves
<1>5. CASE p \notin L
  <2>1. Waiting(r) \cap Waiting(s) \subseteq Waiting(u)
    BY <1>2, <1>5 DEF Leaves
  <2>2. pr \in Nat /\ \A q \in Waiting(u) : u.entry[q].priority \in Nat
    BY Ranks DEF Priority
  <2>3. ASSUME NEW x \in Waiting(u), NEW y \in Waiting(u), Ahead(u, x, y)
        PROVE  Ahead(s, x, y) \/ s.entry[y].priority < u.entry[y].priority
    <3>0. x \in Participants /\ y \in Participants
      BY DEF Waiting
    <3>1. CASE p \in Waiting(s) /\ s.entry[p].priority = pr /\ s.before = AtBack(u, p)
               /\ (u.entry[p] = None \/ (p \in Waiting(u) /\ pr < u.entry[p].priority))
      <4>1. CASE y = p
        BY <3>1, <4>1 DEF Waiting
      <4>2. CASE x = p /\ y # p
        <5>1. s.entry[y] = u.entry[y] /\ s.entry[x].priority = pr /\ pr < u.entry[x].priority
          BY <3>0, <3>1, <4>2 DEF Asks, Waiting
        <5>2. u.entry[x].priority <= u.entry[y].priority
          BY <2>2, <2>3 DEF Ahead
        <5>3. s.entry[x].priority < s.entry[y].priority
          BY <2>2, <5>1, <5>2
        <5> QED
          BY <5>3 DEF Ahead
      <4>3. CASE x # p /\ y # p
        <5>1. s.entry[y] = u.entry[y] /\ s.entry[x] = u.entry[x]
          BY <3>0, <4>3 DEF Asks
        <5>2. <<x, y>> \in u.before => <<x, y>> \in s.before
          BY <3>1, <4>3 DEF AtBack, Without
        <5> QED
          BY <2>3, <5>1, <5>2 DEF Ahead
      <4> QED
        BY <4>1, <4>2, <4>3
    <3>2. CASE /\ p \in Waiting(u) /\ p \in Waiting(s)
               /\ s.entry[p].priority = u.entry[p].priority /\ s.before = u.before
      <4>1. \A q \in Participants : s.entry[q].priority = u.entry[q].priority
        BY <3>2 DEF Asks
      <4> QED
        BY <2>3, <3>0, <3>2, <4>1 DEF Ahead
    <3>3. CASE s = u
      BY <2>3, <3>3
    <3> QED
      BY <3>1, <3>2, <3>3 DEF Asks
  <2>4. \A x, y \in Waiting(u) : Ahead(r, x, y) => Ahead(u, x, y)
    BY <1>3, <1>4 DEF Ahead
  <2>5. \A q \in Waiting(u) : s.entry[q].priority <= u.entry[q].priority
    <3>1. TAKE q \in Waiting(u)
    <3>2. q \in Participants /\ u.entry[q] # None
      BY DEF Waiting
    <3>3. \/ s.entry[q].priority = u.entry[q].priority
          \/ s.entry[q].priority = pr /\ pr < u.entry[q].priority
      <4>1. CASE q = p
        BY <4>1 DEF Asks, Waiting
      <4>2. CASE q # p
        BY <3>2, <4>2 DEF Asks
      <4> QED
        BY <4>1, <4>2
    <3> QED
      BY <2>2, <3>3
  <2> QED
    BY <1>1, <1>3, <2>1, <2>3, <2>4, <2>5 DEF Fair, Overtakes
<1>6. CASE Waiting(u) = {} /\ pr = DirectAddress
  <2>1. Waiting(r) \cap Waiting(s) \subseteq {p}
    BY <1>2, <1>6
  <2>2. ASSUME NEW q \in Waiting(r) PROVE ~Ahead(r, q, q)
    BY Ranks DEF Ahead, Ordered, Chain
  <2>3. \A q \in Waiting(r) \cap Waiting(s) : s.entry[q].priority <= r.entry[q].priority
    <3>1. SUFFICES ASSUME p \in Waiting(r), p \in Waiting(s)
                   PROVE  s.entry[p].priority <= r.entry[p].priority
      BY <2>1
    <3>2. s.entry[p].priority = 1
      BY <1>6, <3>1 DEF Asks
    <3>3. r.entry[p].priority \in {1, 2, 3, 4}
      BY <3>1, Ranks DEF Entry, Priority
    <3> QED
      BY <3>2, <3>3
  <2> QED
    BY <1>1, <2>1, <2>2, <2>3 DEF Fair, Overtakes
<1> QED
  BY <1>5, <1>6

-----------------------------------------------------------------------------
(***************************************************************************)
(* The handlers.  Each changes the queue by leaves and at most one ask,    *)
(* then activates; Settles says what that is worth.                        *)
(***************************************************************************)
LEMMA Settles ==
    ASSUME NEW r \in RoomRow, NEW u \in RoomRow, Fair(r, u), u.turn = None \/ Served(r, u)
    PROVE  LET s == ActivateNext(u)
           IN  Fair(r, s) /\ Served(r, s) /\ Busy(s)
<1> DEFINE s == ActivateNext(u)
<1>1. Ordered(u)
  BY DEF Fair
<1>2. CASE u.status = "active" /\ ~u.awaiting /\ u.turn = None /\ Waiting(u) # {}
  <2>1. PICK h \in Peek(u) :
           /\ Leaves(u, s, {h}) /\ s.turn # None /\ s.turn.p = h
           /\ s.entry[h] # None /\ s.entry[h].priority = u.entry[h].priority
    BY <1>1, <1>2, ActivateNextLeaves
  <2> HIDE DEF s
  <2>2. Fair(r, s)
    BY <2>1, FairThenLeaves
  <2>3. ASSUME NEW q \in (Waiting(r) \cap Waiting(s)) \ {h}
        PROVE  s.entry[h].priority <= r.entry[q].priority
    <3>1. h \in Waiting(u) /\ q \in Waiting(u) /\ Ahead(u, h, q)
      BY <2>1 DEF Peek, Leaves
    <3>2. u.entry[q].priority <= r.entry[q].priority
      BY <3>1 DEF Fair
    <3>3. /\ u.entry[h].priority \in Nat /\ u.entry[q].priority \in Nat
          /\ r.entry[q].priority \in Nat
      BY <3>1, Ranks
    <3>4. u.entry[h].priority <= u.entry[q].priority
      BY <3>1, <3>3 DEF Ahead
    <3> QED
      BY <2>1, <3>2, <3>3, <3>4
  <2>4. Served(r, s)
    BY <2>1, <2>3 DEF Served
  <2>5. Busy(s)
    BY <2>1 DEF Busy
  <2> QED
    BY <2>2, <2>4, <2>5 DEF s
<1>3. CASE ~(u.status = "active" /\ ~u.awaiting /\ u.turn = None /\ Waiting(u) # {})
  <2>1. Peek(u) # {} => Waiting(u) # {}
    BY DEF Peek
  <2>2. s = u
    BY <1>3, <2>1 DEF ActivateNext
  <2> HIDE DEF s
  <2>3. Served(r, u)
    BY DEF Served
  <2>4. Busy(u)
    BY <1>3 DEF Busy
  <2> QED
    BY <2>2, <2>3, <2>4 DEF s
<1> QED
  BY <1>2, <1>3

\* A step of the room as a whole: nobody that keeps waiting is passed by, and
\* the floor is not left idle, unless a human changes the turn limit.
NewLimit == \E h \in Humans, m \in Budgets \ {room.max} : SetRoomConfig(h, m)

FairStep ==
    /\ Fair(room, room')
    /\ Served(room, room')
    /\ Busy(room) => Busy(room') \/ NewLimit

LEMMA SettledStep ==
    ASSUME room \in RoomRow, NEW u \in RoomRow, Fair(room, u),
           u.turn \in {None, room.turn}, room' = ActivateNext(u)
    PROVE  FairStep
<1>1. u.turn = None \/ Served(room, u)
  BY DEF Served
<1> QED
  BY <1>1, Settles DEF FairStep

LEMMA Unmoved ==
    ASSUME NEW r \in RoomRow, NEW s, Ordered(r),
           s.entry = r.entry, s.before = r.before, s.turn = r.turn
    PROVE  Fair(r, s) /\ Served(r, s)
BY SameQueue, LeavesFair DEF Served

LEMMA MembershipFair ==
    ASSUME room \in RoomRow, Ordered(room), Membership
    PROVE  FairStep
<1>1. CASE room' = room
  BY <1>1, Unmoved DEF FairStep, Busy
<1>2. ASSUME NEW h \in Humans, NEW p \in Participants, RemoveParticipant(h, p)
      PROVE  FairStep
  <2> DEFINE r1 == IF Holds(room, p) THEN EndTurn(room) ELSE room
             r2 == Dequeue(r1, p)
  <2>1. r1 \in RoomRow /\ Leaves(room, r1, {}) /\ r1.turn \in {None, room.turn}
    <3>1. CASE Holds(room, p)
      BY <3>1, EndTurnType, EndTurnLeaves DEF Holds, EndTurn, RoomRow
    <3>2. CASE ~Holds(room, p)
      BY <3>2, SameQueue
    <3> QED
      BY <3>1, <3>2
  <2>2. room' = ActivateNext(r2)
    BY <1>2 DEF RemoveParticipant
  <2> HIDE DEF r1
  <2>3. r2 \in RoomRow /\ Leaves(r1, r2, {p}) /\ r2.turn = r1.turn
    <3>1. Ordered(r1)
      BY <2>1, LeavesOrdered
    <3>2. r2.turn = r1.turn
      BY <2>1 DEF Dequeue, RoomRow
    <3> QED
      BY <2>1, <3>1, <3>2, DequeueType, DequeueLeaves
  <2>4. Leaves(room, r2, {} \cup {p})
    BY <2>1, <2>3, LeavesTwice
  <2> HIDE DEF r2
  <2>5. Fair(room, r2)
    BY <2>4, LeavesFair
  <2> QED
    BY <2>1, <2>2, <2>3, <2>5, SettledStep
<1> QED
  BY <1>1, <1>2 DEF Membership, CreateInvite, RevokeInvite, InviteExpires, Join

LEMMA ControlFair ==
    ASSUME room \in RoomRow, Ordered(room), Spent(room), Control
    PROVE  FairStep
<1>1. ASSUME NEW h \in Humans, PauseRoom(h) PROVE FairStep
  <2>1. /\ room'.entry = room.entry /\ room'.before = room.before /\ room'.turn = room.turn
        /\ room'.status = "paused"
    BY <1>1 DEF PauseRoom, RoomRow
  <2> QED
    BY <2>1, Unmoved DEF FairStep, Busy
<1>2. ASSUME NEW h \in Humans, ResumeRoom(h) PROVE FairStep
  <2> DEFINE u == [room EXCEPT !.status = "active"]
  <2>1. /\ u \in RoomRow /\ u.entry = room.entry /\ u.before = room.before
        /\ u.turn = room.turn
    BY DEF RoomRow
  <2>2. room' = ActivateNext(u)
    BY <1>2 DEF ResumeRoom
  <2> HIDE DEF u
  <2>3. Fair(room, u)
    BY <2>1, Unmoved
  <2> QED
    BY <2>1, <2>2, <2>3, SettledStep
<1>3. ASSUME NEW h \in Humans, StopRoom(h) PROVE FairStep
  <2> DEFINE r1 == IF room.turn # None THEN EndTurn(room) ELSE room
             r2 == ClearQueue(r1)
  <2>1. r1 \in RoomRow /\ Leaves(room, r1, {})
    <3>1. CASE room.turn # None
      BY <3>1, EndTurnType, EndTurnLeaves
    <3>2. CASE room.turn = None
      BY <3>2, SameQueue
    <3> QED
      BY <3>1, <3>2
  <2>2. room' = [r2 EXCEPT !.status = "stopped", !.turn = None]
    BY <1>3 DEF StopRoom
  <2> HIDE DEF r1
  <2>3. r2 \in RoomRow /\ Leaves(r1, r2, Participants)
    BY <2>1, ClearQueueType, ClearQueueLeaves
  <2>4. Leaves(room, r2, {} \cup Participants)
    BY <2>1, <2>3, LeavesTwice
  <2>5. Ordered(r2)
    BY <2>4, LeavesOrdered
  <2> HIDE DEF r2
  <2>6. /\ room'.entry = r2.entry /\ room'.before = r2.before /\ room'.turn = None
        /\ room'.status = "stopped"
    BY <2>2, <2>3 DEF RoomRow
  <2>7. Leaves(r2, room', {})
    BY <2>5, <2>6, SameQueue
  <2>8. Leaves(room, room', ({} \cup Participants) \cup {})
    BY <2>4, <2>7, LeavesTwice
  <2> QED
    BY <2>6, <2>8, LeavesFair DEF FairStep, Served, Busy
<1>4. ASSUME NEW h \in Humans, NEW m \in Budgets, SetRoomConfig(h, m) PROVE FairStep
  <2> DEFINE spent == room.count >= m
  <2>1. room' = [room EXCEPT !.max = m, !.awaiting = spent]
    BY <1>4 DEF SetRoomConfig
  <2> HIDE DEF spent
  <2>2. /\ room'.entry = room.entry /\ room'.before = room.before /\ room'.turn = room.turn
        /\ room'.status = room.status /\ room'.awaiting = spent
    BY <2>1 DEF RoomRow
  <2>3. CASE m = room.max
    <3>1. room'.awaiting = room.awaiting
      <4>1. spent <=> room.awaiting
        BY <2>3 DEF spent, Spent
      <4>2. spent \in BOOLEAN /\ room.awaiting \in BOOLEAN
        BY DEF spent, RoomRow
      <4> QED
        BY <2>2, <4>1, <4>2
    <3>2. Waiting(room') = Waiting(room)
      BY <2>2 DEF Waiting
    <3> QED
      BY <2>2, <3>1, <3>2, Unmoved DEF FairStep, Busy
  <2>4. CASE m # room.max
    <3>1. NewLimit
      BY <1>4, <2>4 DEF NewLimit
    <3> QED
      BY <2>2, <3>1, Unmoved DEF FairStep
  <2> QED
    BY <2>3, <2>4
<1> QED
  BY <1>1, <1>2, <1>3, <1>4 DEF Control

LEMMA GiveUpFair ==
    ASSUME room \in RoomRow, Ordered(room), NEW p \in Participants, GiveUpSlot(p)
    PROVE  FairStep
<1> DEFINE u == Dequeue(room, p)
<1>1. u \in RoomRow /\ Leaves(room, u, {p})
  BY DequeueType, DequeueLeaves
<1>2. u.turn = room.turn /\ room' = ActivateNext(u)
  BY DEF GiveUpSlot, Dequeue, RoomRow
<1> HIDE DEF u
<1>3. Fair(room, u)
  BY <1>1, LeavesFair
<1> QED
  BY <1>1, <1>2, <1>3, SettledStep

LEMMA RequestFair ==
    ASSUME room \in RoomRow, Ordered(room), NEW p \in Participants,
           NEW b \in {Queued, Optional}, RequestFloor(p, b)
    PROVE  FairStep
<1> DEFINE u == Enqueue(room, p, b, FALSE, None, None)
<1>1. b \in Priority /\ None \in TaskRef /\ None \in Address
  BY DEF Priority, TaskRef, Address
<1>2. u \in RoomRow /\ Asks(room, u, p, b, None) /\ room' = ActivateNext(u)
  BY <1>1, EnqueueType, EnqueueAsks DEF RequestFloor
<1> HIDE DEF u
<1>3. Fair(room, u)
  BY <1>1, <1>2, SameQueue, AsksFair
<1>4. u.turn = room.turn
  BY <1>2 DEF Asks
<1> QED
  BY <1>2, <1>3, <1>4, SettledStep

LEMMA PassFair ==
    ASSUME room \in RoomRow, Ordered(room), NEW p \in Participants, PassTurn(p)
    PROVE  FairStep
<1> DEFINE reviewer == RequiredReviewer(room.turn)
           r1 == EndTurn(room)
           r2 == IF p \in Agents THEN RecordAgentTurn(r1) ELSE r1
           r3 == IF reviewer # None
                 THEN Enqueue(r2, reviewer, Handoff, TRUE, room.turn.task, None)
                 ELSE r2
<1>1. room.turn # None /\ room.turn.task \in TaskRef
  BY DEF PassTurn, Holds, RoomRow, Turn, TaskRef
<1>2. r1 \in RoomRow /\ Leaves(room, r1, {}) /\ r1.turn = None
  BY <1>1, EndTurnType, EndTurnLeaves DEF EndTurn, RoomRow
<1>3. room' = ActivateNext(r3)
  BY DEF PassTurn
<1> HIDE DEF r1
<1>4. r2 \in RoomRow /\ r2.entry = r1.entry /\ r2.before = r1.before /\ r2.turn = None
  <2>1. /\ RecordAgentTurn(r1).entry = r1.entry /\ RecordAgentTurn(r1).before = r1.before
        /\ RecordAgentTurn(r1).turn = None
    BY <1>2 DEF RecordAgentTurn, RoomRow
  <2> QED
    BY <1>2, <2>1, BudgetType
<1> HIDE DEF r2
<1>5. Leaves(room, r2, {})
  BY <1>2, <1>4, LeavesOrdered, SameQueue, LeavesTwice
<1>6. r3 \in RoomRow /\ Fair(room, r3) /\ r3.turn = None
  <2>1. CASE reviewer = None
    BY <1>4, <1>5, <2>1, LeavesFair
  <2>2. CASE reviewer # None
    <3>1. reviewer \in Participants
      BY <2>2, ReviewerActive
    <3>2. Handoff \in Priority /\ None \in Address
      BY DEF Priority, Address
    <3> HIDE DEF reviewer
    <3>3. r3 \in RoomRow /\ Asks(r2, r3, reviewer, Handoff, None)
      BY <1>1, <1>4, <2>2, <3>1, <3>2, EnqueueType, EnqueueAsks
    <3> HIDE DEF r3
    <3>4. r3.turn = None
      BY <1>4, <3>3 DEF Asks
    <3> QED
      BY <1>4, <1>5, <3>1, <3>2, <3>3, <3>4, AsksFair
  <2> QED
    BY <2>1, <2>2
<1> HIDE DEF r3
<1> QED
  BY <1>3, <1>6, SettledStep

LEMMA HumanFair ==
    ASSUME room \in RoomRow, Ordered(room), NEW h \in Humans, NEW to \in Address,
           NEW reviewer \in Address, NEW t \in TaskRef, NEW isTask \in BOOLEAN,
           SendAsHuman(h, to, reviewer, t, isTask)
    PROVE  FairStep
<1> DEFINE interrupted == room.turn
           r1 == IF interrupted # None THEN EndTurn(room) ELSE room
           r2 == IF to # None THEN ClearQueue(r1) ELSE r1
           r3 == ResetAgentTurnBudget(r2)
           r4 == IF to # None
                 THEN Enqueue(r3, to, DirectAddress, TRUE, t, reviewer)
                 ELSE IF interrupted # None /\ IsActive(interrupted.p)
                 THEN Enqueue(r3, interrupted.p, DirectAddress,
                              interrupted.blocking, interrupted.task, interrupted.ask)
                 ELSE r3
<1>1. r1 \in RoomRow /\ Leaves(room, r1, {}) /\ r1.turn = None
  <2>1. CASE room.turn # None
    BY <2>1, EndTurnType, EndTurnLeaves DEF EndTurn, RoomRow
  <2>2. CASE room.turn = None
    BY <2>2, SameQueue
  <2> QED
    BY <2>1, <2>2
<1>2. room' = ActivateNext(r4)
  BY DEF SendAsHuman
<1> HIDE DEF r1
<1>3. /\ r2 \in RoomRow /\ r2.turn = None
      /\ to = None => Leaves(room, r2, {})
      /\ to # None => Leaves(room, r2, Participants)
  <2>1. CASE to = None
    BY <1>1, <2>1
  <2>2. CASE to # None
    <3>1. r2 \in RoomRow /\ r2.turn = None
      BY <1>1, <2>2, ClearQueueType DEF ClearQueue, RoomRow
    <3>2. Leaves(room, r2, {} \cup Participants)
      BY <1>1, <2>2, ClearQueueLeaves, LeavesTwice
    <3>3. {} \cup Participants = Participants
      OBVIOUS
    <3> QED
      BY <2>2, <3>1, <3>2, <3>3
  <2> QED
    BY <2>1, <2>2
<1> HIDE DEF r2
<1> DEFINE gone == IF to = None THEN {} ELSE Participants
<1>4. Leaves(room, r2, gone)
  BY <1>3
<1>5. r3 \in RoomRow /\ r3.entry = r2.entry /\ r3.before = r2.before /\ r3.turn = None
  BY <1>3, BudgetType DEF ResetAgentTurnBudget, RoomRow
<1> HIDE DEF r3, gone
<1>6. Leaves(room, r3, gone)
  <2>1. Leaves(room, r3, gone \cup {})
    BY <1>4, <1>5, LeavesOrdered, SameQueue, LeavesTwice
  <2>2. gone \cup {} = gone
    OBVIOUS
  <2> QED
    BY <2>1, <2>2
<1>7. DirectAddress \in Priority
  BY DEF Priority
<1>8. r4 \in RoomRow /\ Fair(room, r4) /\ r4.turn = None
  <2>1. CASE to # None
    <3>1. to \in Participants
      BY <2>1 DEF Address
    <3>2. r4 \in RoomRow /\ Asks(r3, r4, to, DirectAddress, reviewer)
      BY <1>5, <1>7, <2>1, <3>1, EnqueueType, EnqueueAsks
    <3> HIDE DEF r4
    <3>3. Waiting(r3) = {}
      BY <1>6, <2>1 DEF Leaves, gone, Waiting
    <3>4. r4.turn = None
      BY <1>5, <3>2 DEF Asks
    <3> QED
      BY <1>5, <1>6, <1>7, <3>1, <3>2, <3>3, <3>4, AsksFair
  <2>2. CASE to = None /\ interrupted # None /\ IsActive(interrupted.p)
    <3>1. /\ interrupted.p \in Participants /\ interrupted.blocking \in BOOLEAN
          /\ interrupted.task \in TaskRef /\ interrupted.ask \in Address
      BY <2>2 DEF IsActive, RoomRow, Turn, TaskRef, Address
    <3>2. r4 = Enqueue(r3, interrupted.p, DirectAddress,
                       interrupted.blocking, interrupted.task, interrupted.ask)
      BY <2>2
    <3> HIDE DEF r4
    <3>3. r4 \in RoomRow /\ Asks(r3, r4, interrupted.p, DirectAddress, interrupted.ask)
      BY <1>5, <1>7, <3>1, <3>2, EnqueueType, EnqueueAsks
    <3>4. r4.turn = None
      BY <1>5, <3>3 DEF Asks
    <3>5. interrupted.p \notin gone
      BY <2>2 DEF gone
    <3> QED
      BY <1>5, <1>6, <1>7, <3>1, <3>3, <3>4, <3>5, AsksFair
  <2>3. CASE to = None /\ ~(interrupted # None /\ IsActive(interrupted.p))
    BY <1>5, <1>6, <2>3, LeavesFair
  <2> QED
    BY <2>1, <2>2, <2>3
<1> HIDE DEF r4
<1> QED
  BY <1>2, <1>8, SettledStep

\* The floor an agent speaks from: its own, the head's, or a volunteer's.
LEMMA AcquireServes ==
    ASSUME room \in RoomRow, Ordered(room), NEW p \in Participants,
           MayAcquireFloor(p), room.status = "active", ~room.awaiting
    PROVE  LET s == AcquireFloor(p)
           IN  /\ s \in RoomRow /\ s.turn # None /\ s.turn.p = p
               /\ Served(room, s)
               /\ \E L \in SUBSET {p} : Leaves(room, s, L)
<1> DEFINE s == AcquireFloor(p)
<1>1. CASE Holds(room, p)
  <2>1. s = room
    BY <1>1 DEF AcquireFloor
  <2>2. Leaves(room, room, {})
    BY SameQueue
  <2> HIDE DEF s
  <2> QED
    BY <1>1, <2>1, <2>2 DEF Holds, Served, s
<1>2. CASE ~Holds(room, p) /\ Waiting(room) # {}
  <2>1. room.turn = None /\ p \in Peek(room) /\ s = ActivateNext(room)
    BY <1>2 DEF MayAcquireFloor, AcquireFloor
  <2> HIDE DEF s
  <2>2. s \in RoomRow /\ Served(room, s)
    <3>1. Fair(room, room)
      BY SameQueue, LeavesFair
    <3> QED
      BY <2>1, <3>1, Settles, ActivateNextType
  <2>3. PICK h \in Peek(room) : Leaves(room, s, {h}) /\ s.turn # None /\ s.turn.p = h
    BY <1>2, <2>1, ActivateNextLeaves
  <2>4. h = p
    BY <2>1, <2>3, HeadUnique
  <2> QED
    BY <2>2, <2>3, <2>4 DEF s
<1>3. CASE ~Holds(room, p) /\ Waiting(room) = {}
  <2>1. room.turn = None /\ s = StartTurn(room, p, FALSE, None, None)
    BY <1>3 DEF MayAcquireFloor, AcquireFloor
  <2> DEFINE t == [p |-> p, blocking |-> FALSE, task |-> None, ask |-> None]
  <2>2. t \in Turn /\ t.p = p
    BY DEF Turn
  <2>3. s = [room EXCEPT !.turn = t]
    BY <2>1 DEF StartTurn
  <2> HIDE DEF s, t
  <2>4. s \in RoomRow /\ s.turn = t /\ s.entry = room.entry /\ s.before = room.before
    BY <2>2, <2>3 DEF RoomRow
  <2>5. t # None
    BY <2>2, NoneAssumption
  <2>6. Leaves(room, s, {})
    BY <2>4, SameQueue
  <2> QED
    BY <1>3, <2>2, <2>4, <2>5, <2>6 DEF Served, s
<1> QED
  BY <1>1, <1>2, <1>3

LEMMA AgentFair ==
    ASSUME room \in RoomRow, Ordered(room), NEW p \in Agents, NEW to \in Address,
           NEW how \in {"plain", "target", "handoff"}, NEW t \in TaskRef,
           NEW isTask \in BOOLEAN, NEW done \in BOOLEAN, NEW hold \in BOOLEAN,
           SendAsAgent(p, to, how, t, isTask, done, hold)
    PROVE  FairStep
<1> DEFINE r0       == AcquireFloor(p)
           reviewer == RequiredReviewer(r0.turn)
           target   == IF reviewer = None /\ how = "target" THEN to ELSE None
           handoff  == IF reviewer # None THEN reviewer
                       ELSE IF how = "handoff" THEN to ELSE None
           r1 == IF hold THEN r0 ELSE RecordAgentTurn(EndTurn(r0))
           r2 == IF target # None
                 THEN Enqueue(r1, target, DirectAddress, TRUE, t, None)
                 ELSE IF handoff # None
                 THEN Enqueue(r1, handoff, Handoff, TRUE, t, None)
                 ELSE r1
<1>1. p \in Participants /\ room.status = "active" /\ ~room.awaiting /\ MayAcquireFloor(p)
  BY DEF SendAsAgent, Sendable, IsActive, Mutable, RoomRow
<1>2. room' = ActivateNext(r2)
  BY DEF SendAsAgent
<1>3. /\ r0 \in RoomRow /\ r0.turn # None /\ r0.turn.p = p /\ Served(room, r0)
      /\ \E L \in SUBSET {p} : Leaves(room, r0, L)
  BY <1>1, AcquireServes
<1>4. PICK L \in SUBSET {p} : Leaves(room, r0, L)
  BY <1>3
<1> HIDE DEF r0
<1>5. /\ target # None => target \in Participants \ {p}
      /\ handoff # None => handoff \in Participants \ {p}
  <2>1. reviewer # None => reviewer \in Participants \ {p}
    BY <1>3, ReviewerActive DEF RequiredReviewer
  <2>2. how # "plain" => to \in Participants \ {p}
    BY DEF SendAsAgent, Addressable, IsActive
  <2> QED
    BY <2>1, <2>2
<1>6. /\ r1 \in RoomRow /\ Leaves(room, r1, L)
      /\ r1.turn = None \/ r1 = r0
  <2>1. CASE hold
    BY <1>3, <1>4, <2>1
  <2>2. CASE ~hold
    <3> DEFINE e == EndTurn(r0)
    <3>1. Ordered(r0)
      BY <1>4, LeavesOrdered
    <3>2. e \in RoomRow /\ Leaves(r0, e, {}) /\ e.turn = None
      BY <1>3, <3>1, EndTurnType, EndTurnLeaves DEF EndTurn, RoomRow
    <3>3. r1 = RecordAgentTurn(e)
      BY <2>2
    <3> HIDE DEF e, r1
    <3>4. /\ r1 \in RoomRow /\ r1.entry = e.entry /\ r1.before = e.before /\ r1.turn = None
      BY <3>2, <3>3, BudgetType DEF RecordAgentTurn, RoomRow
    <3>5. Ordered(e) /\ Leaves(room, e, L \cup {})
      BY <1>4, <3>1, <3>2, LeavesOrdered, LeavesTwice
    <3>6. Leaves(room, r1, (L \cup {}) \cup {})
      BY <3>4, <3>5, SameQueue, LeavesTwice
    <3>7. (L \cup {}) \cup {} = L
      OBVIOUS
    <3> QED
      BY <3>4, <3>6, <3>7
  <2> QED
    BY <2>1, <2>2
<1> HIDE DEF r1, target, handoff
<1>7. DirectAddress \in Priority /\ Handoff \in Priority /\ None \in Address
  BY DEF Priority, Address
<1>8. r2 = r1 \/ \E q \in Participants \ {p}, pr \in Priority :
                    r2 = Enqueue(r1, q, pr, TRUE, t, None)
  BY <1>5, <1>7
<1> HIDE DEF r2
<1>9. r2 \in RoomRow /\ Fair(room, r2) /\ (r2.turn = None \/ Served(room, r2))
  <2>1. CASE r2 = r1
    BY <1>3, <1>6, <2>1, LeavesFair
  <2>2. ASSUME NEW q \in Participants \ {p}, NEW pr \in Priority,
               r2 = Enqueue(r1, q, pr, TRUE, t, None)
        PROVE  r2 \in RoomRow /\ Fair(room, r2) /\ (r2.turn = None \/ Served(room, r2))
    <3>1. r2 \in RoomRow /\ Asks(r1, r2, q, pr, None)
      BY <1>6, <1>7, <2>2, EnqueueType, EnqueueAsks
    <3>2. Fair(room, r2)
      BY <1>6, <3>1, AsksFair
    <3>3. r2.turn = r1.turn /\ r2.entry[p] = r1.entry[p]
      BY <1>1, <3>1 DEF Asks
    <3>4. Waiting(r2) \subseteq Waiting(r1) \cup {q}
      BY <3>1 DEF Asks, Waiting
    <3>5. Waiting(room) \cap Waiting(r2) \subseteq Waiting(r1)
      BY <1>6, <3>4 DEF Leaves
    <3>6. r1 = r0 => Served(room, r2)
      BY <1>3, <3>3, <3>5 DEF Served
    <3> QED
      BY <1>6, <3>1, <3>2, <3>3, <3>6
  <2> QED
    BY <1>8, <2>1, <2>2
<1> QED
  BY <1>2, <1>9, Settles DEF FairStep

-----------------------------------------------------------------------------
LEMMA FairNext ==
    ASSUME Inv, Ordered(room), [Next]_vars
    PROVE  FairStep
<1>0. room \in RoomRow /\ Spent(room)
  BY DEF Inv, Good
<1>1. CASE Membership
  BY <1>0, <1>1, MembershipFair
<1>2. CASE Control
  BY <1>0, <1>2, ControlFair
<1>3. ASSUME NEW p \in Agents, Speak(p) PROVE FairStep
  BY <1>0, <1>3, AgentFair DEF Speak
<1>4. ASSUME room' = room PROVE FairStep
  BY <1>0, <1>4, Unmoved DEF FairStep, Busy
<1>5. ASSUME NEW h \in Humans, HumanSpeaks(h) PROVE FairStep
  BY <1>0, <1>5, HumanFair DEF HumanSpeaks
<1>6. ASSUME NEW p \in Participants, PassTurn(p) PROVE FairStep
  BY <1>0, <1>6, PassFair
<1>7. ASSUME NEW p \in Participants, GiveUpSlot(p) PROVE FairStep
  BY <1>0, <1>7, GiveUpFair
<1>8. ASSUME NEW p \in Participants, PublishActivity(p) \/ ClearActivity(p) PROVE FairStep
  BY <1>4, <1>8 DEF PublishActivity, ClearActivity
<1>9. ASSUME NEW p \in Participants, NEW b \in {Queued, Optional}, RequestFloor(p, b)
      PROVE FairStep
  BY <1>0, <1>9, RequestFair
<1> QED
  BY <1>1, <1>2, <1>3, <1>4, <1>5, <1>6, <1>7, <1>8, <1>9 DEF Next, vars, Participants

RoomOrdered == Ordered(room)

LEMMA InitOrdered == Init => RoomOrdered
<1> SUFFICES ASSUME Init PROVE RoomOrdered
  OBVIOUS
<1>1. Waiting(room) = {} /\ room.before = {}
  BY DEF Init, Waiting
<1> QED
  BY <1>1 DEF RoomOrdered, Ordered, Chain

LEMMA OrderedHolds == Spec => []RoomOrdered
<1>1. Inv /\ RoomOrdered /\ [Next]_vars => RoomOrdered'
  BY FairNext DEF FairStep, Fair, RoomOrdered
<1> QED
  BY InitOrdered, InvHolds, <1>1, PTL DEF Spec

\* The waiting entries are in a strict total order, and a queue that holds
\* anybody has a head, for any number of participants.
LEMMA QueueIsOrdered == Spec => []QueueOrdered
<1>1. Inv /\ RoomOrdered => QueueOrdered
  <2> SUFFICES ASSUME Inv, RoomOrdered PROVE QueueOrdered
    OBVIOUS
  <2> DEFINE W == Waiting(room)
  <2>1. Chain(room.before, W) /\ room \in RoomRow
    BY DEF RoomOrdered, Ordered, Inv, Good
  <2>2. ASSUME NEW p \in W, NEW q \in W, p # q
        PROVE  (<<p, q>> \in room.before) # (<<q, p>> \in room.before)
    <3>1. \E x \in {p, q} : \A y \in {p, q} \ {x} : <<x, y>> \in room.before
      BY <2>1, {p, q} \in SUBSET W, {p, q} # {} DEF Chain
    <3>2. ~(<<p, q>> \in room.before /\ <<q, p>> \in room.before)
      BY <2>1 DEF Chain
    <3> QED
      BY <2>2, <3>1, <3>2
  <2>3. W # {} => Peek(room) # {}
    BY <2>1, HeadExists DEF RoomOrdered
  <2>4. room.before \subseteq W \X W
    BY <2>1 DEF Chain
  <2> QED
    BY <2>2, <2>3, <2>4 DEF QueueOrdered
<1> QED
  BY <1>1, InvHolds, OrderedHolds, PTL

\* One entry overtakes another only by a strictly stronger ask for its
\* participant, and the floor goes to nobody past one who was waiting.
THEOREM NobodyIsPassedBy == Spec => QueueIsFair
<1>1. Inv /\ RoomOrdered /\ [Next]_vars =>
         [\A p, q \in Waiting(room) \cap Waiting(room)' :
             Ahead(room, p, q) /\ ~Ahead(room', p, q) =>
                 room'.entry[q].priority < room.entry[q].priority]_vars
  <2> SUFFICES ASSUME Inv, RoomOrdered, [Next]_vars
               PROVE  \A p, q \in Waiting(room) \cap Waiting(room)' :
                         Ahead(room, p, q) /\ ~Ahead(room', p, q) =>
                             room'.entry[q].priority < room.entry[q].priority
    OBVIOUS
  <2>1. Waiting(room)' = Waiting(room')
    BY DEF Waiting
  <2> QED
    BY <2>1, FairNext DEF RoomOrdered, FairStep, Fair, Overtakes
<1>2. Inv /\ RoomOrdered /\ [Next]_vars =>
         [(room'.turn # None /\ room'.turn # room.turn) =>
             LET h == room'.turn.p
             IN  \A q \in (Waiting(room) \cap Waiting(room')) \ {h} :
                    /\ room'.entry[h] # None
                    /\ room'.entry[h].priority <= room.entry[q].priority]_vars
  BY FairNext DEF RoomOrdered, FairStep, Served
<1>3. Spec => OvertakingNeedsStrongerAsk
  BY <1>1, InvHolds, OrderedHolds, PTL DEF Spec, OvertakingNeedsStrongerAsk
<1>4. Spec => GrantGoesToTheHead
  BY <1>2, InvHolds, OrderedHolds, PTL DEF Spec, GrantGoesToTheHead
<1> QED
  BY <1>3, <1>4, QueueIsOrdered, PTL DEF QueueIsFair

\* A room that works conservatively goes on to: only a human that changes the
\* turn limit can leave the floor empty before a queue.
THEOREM OnlyANewLimitIdles ==
    Spec => [][WorkConserving => WorkConserving' \/ NewLimit]_vars
<1>1. Inv /\ RoomOrdered /\ [Next]_vars => [WorkConserving => WorkConserving' \/ NewLimit]_vars
  <2> SUFFICES ASSUME Inv, RoomOrdered, [Next]_vars
               PROVE  WorkConserving => WorkConserving' \/ NewLimit
    OBVIOUS
  <2>1. WorkConserving = Busy(room) /\ WorkConserving' = Busy(room')
    BY DEF WorkConserving, Busy, Waiting
  <2> QED
    BY <2>1, FairNext DEF RoomOrdered, FairStep
<1> QED
  BY <1>1, InvHolds, OrderedHolds, PTL DEF Spec

\* There is one turn limit to choose from: no step is a NewLimit.
OneLimit == \A m, n \in Budgets : m = n

\* Then an active room that does not wait for its human never leaves the floor
\* empty before a queue.
THEOREM FloorIsNotIdle == OneLimit => (Spec => []WorkConserving)
<1> SUFFICES ASSUME OneLimit PROVE Spec => []WorkConserving
  OBVIOUS
<1>1. Init => WorkConserving
  BY DEF Init, WorkConserving, Waiting
<1>2. Inv /\ RoomOrdered /\ WorkConserving /\ [Next]_vars => WorkConserving'
  <2> SUFFICES ASSUME Inv, RoomOrdered, WorkConserving, [Next]_vars
               PROVE  WorkConserving'
    OBVIOUS
  <2>1. ~NewLimit
    BY DEF OneLimit, NewLimit, Inv, Good, RoomRow
  <2>2. WorkConserving = Busy(room) /\ WorkConserving' = Busy(room')
    BY DEF WorkConserving, Busy, Waiting
  <2> QED
    BY <2>1, <2>2, FairNext DEF RoomOrdered, FairStep
<1> QED
  BY <1>1, <1>2, InvHolds, OrderedHolds, PTL DEF Spec

-----------------------------------------------------------------------------
(***************************************************************************)
(* A turn ends by its holder or by a human, blocking or not.               *)
(***************************************************************************)
LEMMA BusyFloorStays ==
    ASSUME NEW u \in RoomRow, u.turn # None
    PROVE  ActivateNext(u) = u
BY DEF ActivateNext

LEMMA QueueKeepsTurn ==
    ASSUME room \in RoomRow, room.turn # None, NEW p \in Participants,
           NEW b \in {Queued, Optional}, GiveUpSlot(p) \/ RequestFloor(p, b)
    PROVE  room'.turn = room.turn
<1>1. b \in Priority /\ None \in TaskRef /\ None \in Address
  BY DEF Priority, TaskRef, Address
<1>2. CASE GiveUpSlot(p)
  <2>1. Dequeue(room, p) \in RoomRow /\ Dequeue(room, p).turn = room.turn
    BY DequeueType DEF Dequeue, RoomRow
  <2> QED
    BY <1>2, <2>1, BusyFloorStays DEF GiveUpSlot
<1>3. CASE RequestFloor(p, b)
  <2> DEFINE u == Enqueue(room, p, b, FALSE, None, None)
  <2>1. u \in RoomRow /\ Asks(room, u, p, b, None) /\ room' = ActivateNext(u)
    BY <1>1, <1>3, EnqueueType, EnqueueAsks DEF RequestFloor
  <2> HIDE DEF u
  <2>2. u.turn = room.turn
    BY <2>1 DEF Asks
  <2> QED
    BY <2>1, <2>2, BusyFloorStays
<1> QED
  BY <1>2, <1>3

\* A human that speaks starts the count anew.
HasCount(r, n) == "count" \in DOMAIN r /\ r.count = n

LEMMA CountKept ==
    ASSUME NEW r, NEW n, HasCount(r, n)
    PROVE  /\ HasCount(EndTurn(r), n)
           /\ HasCount(ActivateNext(r), n)
           /\ HasCount(ClearQueue(r), n)
           /\ \A p : HasCount(Dequeue(r, p), n)
           /\ \A p, pr, bl, t, ask : HasCount(Enqueue(r, p, pr, bl, t, ask), n)
<1>1. HasCount(EndTurn(r), n)
  BY DEF HasCount, EndTurn
<1>2. HasCount(ActivateNext(r), n)
  BY DEF HasCount, ActivateNext, StartTurn
<1>3. HasCount(ClearQueue(r), n) /\ \A p : HasCount(Dequeue(r, p), n)
  BY DEF HasCount, ClearQueue, Dequeue
<1>4. \A p, pr, bl, t, ask : HasCount(Enqueue(r, p, pr, bl, t, ask), n)
  BY DEF HasCount, Enqueue
<1> QED
  BY <1>1, <1>2, <1>3, <1>4

LEMMA HumanResets ==
    ASSUME room \in RoomRow, NEW h, NEW to, NEW reviewer, NEW t, NEW isTask,
           SendAsHuman(h, to, reviewer, t, isTask)
    PROVE  room'.count = 0
<1> DEFINE r1 == IF room.turn # None THEN EndTurn(room) ELSE room
           r2 == IF to # None THEN ClearQueue(r1) ELSE r1
           r3 == ResetAgentTurnBudget(r2)
<1>1. r2 \in RoomRow
  BY EndTurnType, ClearQueueType
<1> HIDE DEF r2
<1>2. HasCount(r3, 0)
  BY <1>1 DEF HasCount, ResetAgentTurnBudget, RoomRow
<1>3. \E r4 : (r4 = r3 \/ \E q, k, b, u, ask : r4 = Enqueue(r3, q, k, b, u, ask))
               /\ room' = ActivateNext(r4)
  BY DEF SendAsHuman, r2
<1> HIDE DEF r3
<1>4. PICK r4 : HasCount(r4, 0) /\ room' = ActivateNext(r4)
  BY <1>2, <1>3, CountKept
<1> QED
  BY <1>4, CountKept DEF HasCount

\* How the turn of p may end.
EndsBy(p) ==
    \/ PassTurn(p)
    \/ \E h \in Humans : StopRoom(h) \/ RemoveParticipant(h, p)
    \/ \E h \in Humans : room'.count = 0 /\ HumanSpeaks(h)
    \/ p \in Agents /\ Speak(p)

LEMMA TurnEnds ==
    ASSUME room \in RoomRow, room.turn # None, room'.turn # room.turn, [Next]_vars
    PROVE  EndsBy(room.turn.p)
<1> DEFINE p == room.turn.p
<1>1. \A q : Holds(room, q) => q = p
  BY DEF Holds
<1>2. CASE Membership
  <2>1. PICK h \in Humans, q \in Participants : RemoveParticipant(h, q)
    BY <1>2 DEF Membership, CreateInvite, RevokeInvite, InviteExpires, Join
  <2>2. CASE q # p
    <3>1. ~Holds(room, q)
      BY <1>1, <2>2
    <3>2. room' = ActivateNext(Dequeue(room, q))
      BY <2>1, <3>1 DEF RemoveParticipant
    <3>3. Dequeue(room, q) \in RoomRow /\ Dequeue(room, q).turn = room.turn
      BY DequeueType DEF Dequeue, RoomRow
    <3> QED
      BY <3>2, <3>3, BusyFloorStays
  <2> QED
    BY <2>1, <2>2 DEF EndsBy
<1>3. CASE Control
  <2>1. ASSUME NEW h \in Humans, ResumeRoom(h) PROVE FALSE
    <3> DEFINE u == [room EXCEPT !.status = "active"]
    <3>1. u \in RoomRow /\ u.turn = room.turn /\ room' = ActivateNext(u)
      BY <2>1 DEF ResumeRoom, RoomRow
    <3> HIDE DEF u
    <3> QED
      BY <3>1, BusyFloorStays
  <2>2. ASSUME NEW h \in Humans, PauseRoom(h) \/ \E m \in Budgets : SetRoomConfig(h, m)
        PROVE  FALSE
    BY <2>2 DEF PauseRoom, SetRoomConfig, RoomRow
  <2> QED
    BY <1>3, <2>1, <2>2 DEF Control, EndsBy
<1>4. ASSUME NEW q \in Agents, Speak(q) PROVE EndsBy(p)
  <2>1. Holds(room, q)
    BY <1>4 DEF Speak, SendAsAgent, MayAcquireFloor
  <2> QED
    BY <1>1, <1>4, <2>1 DEF EndsBy
<1>5. ASSUME room' = room PROVE FALSE
  BY <1>5
<1>6. ASSUME NEW h \in Humans, HumanSpeaks(h) PROVE EndsBy(p)
  <2>1. room'.count = 0
    BY <1>6, HumanResets DEF HumanSpeaks
  <2> QED
    BY <1>6, <2>1 DEF EndsBy
<1>7. ASSUME NEW q \in Participants, PassTurn(q) PROVE EndsBy(p)
  <2>1. q = p
    BY <1>1, <1>7 DEF PassTurn
  <2> QED
    BY <1>7, <2>1 DEF EndsBy
<1>8. ASSUME NEW q \in Participants, NEW b \in {Queued, Optional},
             GiveUpSlot(q) \/ RequestFloor(q, b)
      PROVE  FALSE
  BY <1>8, QueueKeepsTurn
<1>9. ASSUME NEW q \in Participants, PublishActivity(q) \/ ClearActivity(q) PROVE FALSE
  BY <1>9 DEF PublishActivity, ClearActivity
<1> HIDE DEF p
<1> QED
  BY <1>2, <1>3, <1>4, <1>5, <1>6, <1>7, <1>8, <1>9 DEF Next, vars, Participants, p

\* A blocking turn is ended by its holder or by a human, never by another
\* agent or by what happens in the queue.
THEOREM BlockingTurnsStand == Spec => BlockingTurnProtected
<1>1. Inv /\ [Next]_vars =>
         [(room.turn # None /\ room.turn.blocking /\ room'.turn # room.turn) =>
             LET p == room.turn.p
             IN  \/ PassTurn(p)
                 \/ \E h \in Humans : StopRoom(h) \/ RemoveParticipant(h, p)
                 \/ \E h \in Humans : room'.count = 0 /\ HumanSpeaks(h)
                 \/ p \in Agents /\ Speak(p)]_vars
  BY TurnEnds DEF Inv, Good, EndsBy
<1> QED
  BY <1>1, InvHolds, PTL DEF Spec, BlockingTurnProtected

-----------------------------------------------------------------------------
(***************************************************************************)
(* The review a human direction orders.  While a directed turn is owed to  *)
(* a reviewer, or the direction still waits, nobody but that reviewer has  *)
(* an ask as strong as a handoff; so the handoff the lead's message turns  *)
(* into is first in line.                                                  *)
(***************************************************************************)
Owed(m, a, p) == a \in Participants /\ m[a] = "active" /\ a # p

Behind(r, q, a) ==
    /\ r.entry[q].priority >= Handoff
    /\ q # a => r.entry[q].priority > Handoff

QuietTurn(r, m) ==
    (r.turn # None /\ Owed(m, r.turn.ask, r.turn.p)) =>
        \A q \in Waiting(r) : Behind(r, q, r.turn.ask)

QuietQueue(r, m) ==
    \A p \in Waiting(r) :
        Owed(m, r.entry[p].ask, p) =>
            /\ r.turn = None
            /\ r.entry[p].priority = DirectAddress
            /\ \A q \in Waiting(r) \ {p} : Behind(r, q, r.entry[p].ask)

Quiet(r, m) == QuietTurn(r, m) /\ QuietQueue(r, m)

\* Nobody who waits was asked on a reviewer's behalf.
NoneDirected(r, m) == \A p \in Waiting(r) : ~Owed(m, r.entry[p].ask, p)

LEMMA OwedIsRequired ==
    ASSUME NEW turn
    PROVE  /\ RequiredReviewer(turn) # None => /\ RequiredReviewer(turn) = turn.ask
                                               /\ Owed(member, turn.ask, turn.p)
           /\ Owed(member, turn.ask, turn.p) => RequiredReviewer(turn) = turn.ask
           /\ ~Owed(member, turn.ask, turn.p) => RequiredReviewer(turn) = None
BY DEF RequiredReviewer, IsActive, Owed

LEMMA LeavesQuiet ==
    ASSUME NEW r, NEW s, NEW L, NEW m, Leaves(r, s, L), Quiet(r, m),
           s.turn \in {None, r.turn}
    PROVE  Quiet(s, m)
<1>1. Waiting(s) \subseteq Waiting(r) /\ \A q \in Waiting(s) : s.entry[q] = r.entry[q]
  BY DEF Leaves
<1>2. QuietTurn(s, m)
  BY <1>1 DEF Quiet, QuietTurn, Behind
<1>3. QuietQueue(s, m)
  BY <1>1 DEF Quiet, QuietQueue, Behind
<1> QED
  BY <1>2, <1>3 DEF Quiet

LEMMA LeavesNoneDirected ==
    ASSUME NEW r, NEW s, NEW L, NEW m, Leaves(r, s, L), NoneDirected(r, m)
    PROVE  NoneDirected(s, m)
BY DEF Leaves, NoneDirected

LEMMA AskNoneDirected ==
    ASSUME NEW r, NEW s, NEW p \in Participants, NEW pr, NEW m,
           NoneDirected(r, m), Asks(r, s, p, pr, None)
    PROVE  NoneDirected(s, m)
<1>1. ~Owed(m, None, p)
  BY NoneAssumption DEF Owed
<1>2. ASSUME NEW q \in Waiting(s), q # p PROVE ~Owed(m, s.entry[q].ask, q)
  BY <1>2 DEF Asks, NoneDirected, Waiting
<1>3. p \in Waiting(s) => ~Owed(m, s.entry[p].ask, p)
  BY <1>1 DEF Asks, NoneDirected
<1> QED
  BY <1>2, <1>3 DEF NoneDirected

\* A directed turn found nobody directed waiting.
LEMMA DirectedAlone ==
    ASSUME NEW r, NEW m, Quiet(r, m), r.turn # None
    PROVE  NoneDirected(r, m)
BY DEF Quiet, QuietQueue, NoneDirected

LEMMA ActivateQuiet ==
    ASSUME NEW r \in RoomRow, NEW m, Ordered(r), Quiet(r, m)
    PROVE  Quiet(ActivateNext(r), m)
<1> DEFINE s == ActivateNext(r)
<1>1. CASE r.status = "active" /\ ~r.awaiting /\ r.turn = None /\ Waiting(r) # {}
  <2>1. PICK h \in Peek(r) :
           Leaves(r, s, {h}) /\ s.turn # None /\ s.turn.p = h /\ s.turn.ask = r.entry[h].ask
    BY <1>1, ActivateNextLeaves
  <2> HIDE DEF s
  <2>2. h \in Waiting(r)
    BY DEF Peek
  <2>3. Waiting(s) = Waiting(r) \ {h} /\ \A q \in Waiting(s) : s.entry[q] = r.entry[q]
    BY <2>1 DEF Leaves
  <2>4. QuietTurn(s, m)
    BY <2>1, <2>2, <2>3 DEF Quiet, QuietQueue, QuietTurn, Behind
  <2>5. ASSUME NEW p \in Waiting(s), Owed(m, s.entry[p].ask, p) PROVE FALSE
    <3>1. p \in Waiting(r) \ {h} /\ s.entry[p] = r.entry[p]
      BY <2>3
    <3>2. r.entry[p].priority = 1 /\ r.entry[h].priority >= 2
      BY <2>2, <2>5, <3>1 DEF Quiet, QuietQueue, Behind
    <3>3. Ahead(r, h, p)
      BY <3>1 DEF Peek
    <3>4. r.entry[h].priority \in Nat
      BY <2>2, Ranks
    <3> QED
      BY <3>2, <3>3, <3>4 DEF Ahead
  <2> QED
    BY <2>4, <2>5 DEF Quiet, QuietQueue, s
<1>2. CASE ~(r.status = "active" /\ ~r.awaiting /\ r.turn = None /\ Waiting(r) # {})
  <2>1. Peek(r) # {} => Waiting(r) # {}
    BY DEF Peek
  <2>2. s = r
    BY <1>2, <2>1 DEF ActivateNext
  <2> HIDE DEF s
  <2> QED
    BY <2>2 DEF s
<1> QED
  BY <1>1, <1>2

\* With the floor empty, nobody directed, nothing is owed.
LEMMA IdleQuiet ==
    ASSUME NEW r, NEW m, NoneDirected(r, m), r.turn = None
    PROVE  Quiet(r, m)
BY DEF Quiet, QuietTurn, QuietQueue, NoneDirected

\* The reviewer's handoff, made on an empty floor with all others behind it.
LEMMA ReviewerIsNext ==
    ASSUME NEW r \in RoomRow, NEW u \in RoomRow, NEW m, NEW a \in Participants,
           Ordered(r), FloorMatches(r), r.turn = None,
           \A q \in Waiting(r) : Behind(r, q, a), Asks(r, u, a, Handoff, None)
    PROVE  \/ Holds(ActivateNext(u), a)
           \/ ActivateNext(u).turn = None /\ Peek(ActivateNext(u)) = {a}
<1>1. Ordered(u) /\ u.turn = None
  BY AsksOrdered DEF Asks
<1>2. a \in Waiting(u) /\ u.entry[a].priority = Handoff
  <2>1. CASE a \in Waiting(r)
    <3>1. r.entry[a].priority >= 2 /\ r.entry[a].priority \in Nat
      BY <2>1, Ranks DEF Behind
    <3> QED
      BY <2>1, <3>1 DEF Asks
  <2>2. CASE a \notin Waiting(r)
    <3>1. r.entry[a] = None
      <4>1. r.entry[a] # None => r.entry[a] \in Entry /\ r.entry[a].live # "active"
        BY DEF FloorMatches, Holds, RoomRow
      <4> QED
        BY <2>2, <4>1 DEF Waiting, Entry
    <3> QED
      BY <2>2, <3>1 DEF Asks
  <2> QED
    BY <2>1, <2>2
<1>3. ASSUME NEW q \in Waiting(u) \ {a} PROVE Ahead(u, a, q)
  <2>1. q \in Waiting(r) /\ u.entry[q] = r.entry[q]
    BY DEF Asks, Waiting
  <2>2. u.entry[q].priority > 2
    BY <2>1 DEF Behind
  <2>3. u.entry[q].priority \in Nat
    BY Ranks
  <2> QED
    BY <1>2, <2>2, <2>3 DEF Ahead
<1>4. Peek(u) = {a}
  <2>1. a \in Peek(u)
    BY <1>2, <1>3 DEF Peek
  <2> QED
    BY <1>1, <2>1, HeadUnique
<1>5. CASE u.status = "active" /\ ~u.awaiting
  BY <1>1, <1>2, <1>4, <1>5, ActivateNextLeaves DEF Holds
<1>6. CASE ~(u.status = "active" /\ ~u.awaiting)
  BY <1>1, <1>4, <1>6 DEF ActivateNext
<1> QED
  BY <1>5, <1>6

\* ReviewFollowsLead, of one step, and the invariant after it.
Followed ==
    LET reviewer == RequiredReviewer(room.turn)
    IN  (room'.count = room.count + 1 /\ room.turn # None /\ reviewer # None)
           => \/ Holds(room', reviewer)
              \/ room'.turn = None /\ Peek(room') = {reviewer}

ReviewStep == Quiet(room', member') /\ Followed

LEMMA Uncounted ==
    ASSUME room \in RoomRow, HasCount(room', room.count)
    PROVE  Followed
BY DEF RoomRow, HasCount, Followed

LEMMA RoomHasCount == room \in RoomRow => HasCount(room, room.count)
BY DEF RoomRow, HasCount

LEMMA MembershipReview ==
    ASSUME room \in RoomRow, Ordered(room), Quiet(room, member),
           member \in [Participants -> {"absent", "active", "removed"}],
           \A p \in Participants : member[p] # "absent", Membership
    PROVE  ReviewStep /\ \A p \in Participants : member'[p] # "absent"
<1>1. ASSUME NEW h \in Humans, NEW p \in Participants, RevokeInvite(h, p) \/ InviteExpires(p)
      PROVE  ReviewStep /\ \A q \in Participants : member'[q] # "absent"
  <2>1. room' = room /\ member' = member
    BY <1>1 DEF RevokeInvite, InviteExpires
  <2>2. HasCount(room', room.count)
    BY <2>1, RoomHasCount
  <2> QED
    BY <2>1, <2>2, Uncounted DEF ReviewStep
<1>2. ASSUME NEW h \in Humans, NEW p \in Participants, CreateInvite(h, p) \/ Join(p)
      PROVE  FALSE
  BY <1>2 DEF CreateInvite, Join
<1>3. ASSUME NEW h \in Humans, NEW p \in Participants, RemoveParticipant(h, p)
      PROVE  ReviewStep /\ \A q \in Participants : member'[q] # "absent"
  <2> DEFINE r1 == IF Holds(room, p) THEN EndTurn(room) ELSE room
             r2 == Dequeue(r1, p)
  <2>1. r1 \in RoomRow /\ Leaves(room, r1, {}) /\ r1.turn \in {None, room.turn}
    <3>1. CASE Holds(room, p)
      BY <3>1, EndTurnType, EndTurnLeaves DEF Holds, EndTurn, RoomRow
    <3>2. CASE ~Holds(room, p)
      BY <3>2, SameQueue
    <3> QED
      BY <3>1, <3>2
  <2>2. HasCount(r1, room.count)
    BY RoomHasCount, CountKept
  <2>3. room' = ActivateNext(r2)
    BY <1>3 DEF RemoveParticipant
  <2> HIDE DEF r1
  <2>4. r2 \in RoomRow /\ Leaves(r1, r2, {p}) /\ r2.turn = r1.turn
    <3>1. Ordered(r1)
      BY <2>1, LeavesOrdered
    <3>2. r2.turn = r1.turn
      BY <2>1 DEF Dequeue, RoomRow
    <3> QED
      BY <2>1, <3>1, <3>2, DequeueType, DequeueLeaves
  <2>5. HasCount(r2, room.count)
    BY <2>2, CountKept
  <2>6. Leaves(room, r2, {} \cup {p})
    BY <2>1, <2>4, LeavesTwice
  <2> HIDE DEF r2
  <2>7. Quiet(r2, member) /\ Ordered(r2)
    BY <2>1, <2>4, <2>6, LeavesQuiet, LeavesOrdered
  <2>8. member' = [member EXCEPT ![p] = "removed"]
    BY <1>3 DEF RemoveParticipant
  <2>9. \A a, q : Owed(member', a, q) => Owed(member, a, q)
    BY <2>8 DEF Owed
  <2>10. Quiet(r2, member')
    BY <2>7, <2>9 DEF Quiet, QuietTurn, QuietQueue
  <2>11. Quiet(room', member') /\ HasCount(room', room.count)
    BY <2>3, <2>4, <2>5, <2>7, <2>10, ActivateQuiet, CountKept
  <2> QED
    BY <2>8, <2>11, Uncounted DEF ReviewStep
<1> QED
  BY <1>1, <1>2, <1>3, OwnerAssumption DEF Membership

LEMMA ControlReview ==
    ASSUME room \in RoomRow, Ordered(room), Quiet(room, member), Control
    PROVE  ReviewStep /\ member' = member
<1>1. ASSUME NEW h \in Humans, PauseRoom(h) \/ \E m \in Budgets : SetRoomConfig(h, m)
      PROVE  ReviewStep /\ member' = member
  <2>1. /\ room'.entry = room.entry /\ room'.before = room.before /\ room'.turn = room.turn
        /\ HasCount(room', room.count) /\ member' = member
    <3>1. CASE PauseRoom(h)
      BY <3>1 DEF PauseRoom, RoomRow, HasCount
    <3>2. ASSUME NEW m \in Budgets, SetRoomConfig(h, m)
          PROVE  /\ room'.entry = room.entry /\ room'.before = room.before
                 /\ room'.turn = room.turn
                 /\ HasCount(room', room.count) /\ member' = member
      BY <3>2 DEF SetRoomConfig, RoomRow, HasCount
    <3> QED
      BY <1>1, <3>1, <3>2
  <2>2. Leaves(room, room', {})
    BY <2>1, SameQueue
  <2> QED
    BY <2>1, <2>2, LeavesQuiet, Uncounted DEF ReviewStep
<1>2. ASSUME NEW h \in Humans, ResumeRoom(h) PROVE ReviewStep /\ member' = member
  <2> DEFINE u == [room EXCEPT !.status = "active"]
  <2>1. /\ u \in RoomRow /\ u.entry = room.entry /\ u.before = room.before
        /\ u.turn = room.turn /\ HasCount(u, room.count)
    BY DEF RoomRow, HasCount
  <2>2. room' = ActivateNext(u) /\ member' = member
    BY <1>2 DEF ResumeRoom
  <2> HIDE DEF u
  <2>3. Leaves(room, u, {})
    BY <2>1, SameQueue
  <2>4. Quiet(u, member) /\ Ordered(u)
    BY <2>1, <2>3, LeavesQuiet, LeavesOrdered
  <2> QED
    BY <2>1, <2>2, <2>4, ActivateQuiet, CountKept, Uncounted DEF ReviewStep
<1>3. ASSUME NEW h \in Humans, StopRoom(h) PROVE ReviewStep /\ member' = member
  <2> DEFINE r1 == IF room.turn # None THEN EndTurn(room) ELSE room
             r2 == ClearQueue(r1)
  <2>1. r1 \in RoomRow /\ HasCount(r1, room.count)
    BY EndTurnType, RoomHasCount, CountKept
  <2>2. room' = [r2 EXCEPT !.status = "stopped", !.turn = None] /\ member' = member
    BY <1>3 DEF StopRoom
  <2> HIDE DEF r1
  <2>3. r2 \in RoomRow /\ Leaves(r1, r2, Participants) /\ HasCount(r2, room.count)
    BY <2>1, ClearQueueType, ClearQueueLeaves, CountKept
  <2> HIDE DEF r2
  <2>4. room'.turn = None /\ room'.entry = r2.entry /\ HasCount(room', room.count)
    BY <2>2, <2>3 DEF RoomRow, HasCount
  <2>5. Waiting(room') = {}
    BY <2>3, <2>4 DEF Waiting, Leaves
  <2>6. NoneDirected(room', member)
    BY <2>5 DEF NoneDirected
  <2> QED
    BY <2>2, <2>4, <2>6, IdleQuiet, Uncounted DEF ReviewStep
<1> QED
  BY <1>1, <1>2, <1>3 DEF Control

LEMMA GiveUpReview ==
    ASSUME room \in RoomRow, Ordered(room), Quiet(room, member),
           NEW p \in Participants, GiveUpSlot(p)
    PROVE  ReviewStep
<1> DEFINE u == Dequeue(room, p)
<1>1. u \in RoomRow /\ Leaves(room, u, {p}) /\ HasCount(u, room.count)
  BY DequeueType, DequeueLeaves, RoomHasCount, CountKept
<1>2. u.turn = room.turn /\ room' = ActivateNext(u) /\ member' = member
  BY DEF GiveUpSlot, Dequeue, RoomRow
<1> HIDE DEF u
<1>3. Quiet(u, member) /\ Ordered(u)
  BY <1>1, <1>2, LeavesQuiet, LeavesOrdered
<1> QED
  BY <1>1, <1>2, <1>3, ActivateQuiet, CountKept, Uncounted DEF ReviewStep

LEMMA RequestReview ==
    ASSUME room \in RoomRow, Ordered(room), Quiet(room, member),
           NEW p \in Participants, NEW b \in {Queued, Optional}, RequestFloor(p, b)
    PROVE  ReviewStep
<1> DEFINE u == Enqueue(room, p, b, FALSE, None, None)
<1>1. b \in Priority /\ None \in TaskRef /\ None \in Address
  BY DEF Priority, TaskRef, Address
<1>2. /\ u \in RoomRow /\ Asks(room, u, p, b, None) /\ HasCount(u, room.count)
      /\ room' = ActivateNext(u) /\ member' = member
  BY <1>1, EnqueueType, EnqueueAsks, RoomHasCount, CountKept DEF RequestFloor
<1> HIDE DEF u
<1>3. Ordered(u) /\ u.turn = room.turn
  BY <1>2, AsksOrdered DEF Asks
<1>4. \A q \in Waiting(u) \ {p} : q \in Waiting(room) /\ u.entry[q] = room.entry[q]
  BY <1>2 DEF Asks, Waiting
<1>5. p \in Waiting(u) =>
         \/ u.entry[p].priority > 2
         \/ p \in Waiting(room) /\ u.entry[p].priority = room.entry[p].priority
  BY <1>2 DEF Asks
<1>6. ASSUME NEW a, NEW q \in Waiting(u), q \in Waiting(room) => Behind(room, q, a)
      PROVE  Behind(u, q, a)
  <2>1. u.entry[q].priority \in Nat
    BY <1>2, Ranks
  <2> QED
    BY <1>4, <1>5, <1>6, <2>1 DEF Behind
<1>7. ~Owed(member, None, p)
  BY NoneAssumption DEF Owed
<1>8. ASSUME NEW q \in Waiting(u), Owed(member, u.entry[q].ask, q)
      PROVE  q \in Waiting(room) /\ u.entry[q] = room.entry[q]
  <2>1. CASE q # p
    BY <1>4, <2>1
  <2>2. CASE q = p
    BY <1>2, <1>7, <1>8, <2>2 DEF Asks
  <2> QED
    BY <2>1, <2>2
<1>9. QuietTurn(u, member)
  BY <1>3, <1>6 DEF Quiet, QuietTurn
<1>10. QuietQueue(u, member)
  BY <1>3, <1>6, <1>8 DEF Quiet, QuietQueue
<1> QED
  BY <1>2, <1>3, <1>9, <1>10, ActivateQuiet, CountKept, Uncounted DEF ReviewStep, Quiet

LEMMA PassReview ==
    ASSUME room \in RoomRow, Ordered(room), Quiet(room, member), Good(room, member),
           NEW p \in Participants, PassTurn(p)
    PROVE  ReviewStep
<1> DEFINE reviewer == RequiredReviewer(room.turn)
           r1 == EndTurn(room)
           r2 == IF p \in Agents THEN RecordAgentTurn(r1) ELSE r1
           r3 == IF reviewer # None
                 THEN Enqueue(r2, reviewer, Handoff, TRUE, room.turn.task, None)
                 ELSE r2
<1>1. room.turn # None /\ room.turn.task \in TaskRef
  BY DEF PassTurn, Holds, RoomRow, Turn, TaskRef
<1>2. r1 \in RoomRow /\ Leaves(room, r1, {}) /\ r1.turn = None /\ Good(r1, member)
  <2>1. Good(r1, member) /\ r1.turn = None
    BY <1>1, EndTurnGood
  <2> QED
    BY <1>1, <2>1, EndTurnType, EndTurnLeaves
<1>3. room' = ActivateNext(r3) /\ member' = member
  BY DEF PassTurn
<1> HIDE DEF r1
<1>4. /\ r2 \in RoomRow /\ r2.entry = r1.entry /\ r2.before = r1.before /\ r2.turn = None
      /\ Good(r2, member)
  <2>1. /\ RecordAgentTurn(r1).entry = r1.entry /\ RecordAgentTurn(r1).before = r1.before
        /\ RecordAgentTurn(r1).turn = None
    BY <1>2 DEF RecordAgentTurn, RoomRow
  <2> QED
    BY <1>2, <2>1, BudgetType, BudgetGood
<1> HIDE DEF r2
<1>5. Leaves(room, r2, {}) /\ Ordered(r2) /\ Leaves(r1, r2, {})
  BY <1>2, <1>4, LeavesOrdered, SameQueue, LeavesTwice
<1>6. NoneDirected(r2, member)
  BY <1>1, <1>5, DirectedAlone, LeavesNoneDirected
<1>7. CASE reviewer = None
  <2>1. r3 = r2
    BY <1>7
  <2>2. Quiet(r2, member)
    BY <1>4, <1>6, IdleQuiet
  <2> HIDE DEF r3
  <2>3. Quiet(room', member')
    BY <1>3, <1>4, <1>5, <2>1, <2>2, ActivateQuiet
  <2> QED
    BY <1>7, <2>3 DEF ReviewStep, Followed
<1>8. CASE reviewer # None
  <2>1. reviewer \in Participants /\ reviewer = room.turn.ask /\ Owed(member, room.turn.ask, room.turn.p)
    BY <1>8, ReviewerActive, OwedIsRequired
  <2>2. \A q \in Waiting(room) : Behind(room, q, reviewer)
    BY <1>1, <2>1 DEF Quiet, QuietTurn
  <2>3. \A q \in Waiting(r2) : Behind(r2, q, reviewer)
    BY <1>5, <2>2 DEF Leaves, Behind
  <2>4. Handoff \in Priority /\ None \in Address
    BY DEF Priority, Address
  <2> HIDE DEF reviewer
  <2>5. r3 \in RoomRow /\ Asks(r2, r3, reviewer, Handoff, None)
    BY <1>1, <1>4, <1>8, <2>1, <2>4, EnqueueType, EnqueueAsks
  <2> HIDE DEF r3
  <2>6. \/ Holds(room', reviewer)
        \/ room'.turn = None /\ Peek(room') = {reviewer}
    BY <1>3, <1>4, <1>5, <2>1, <2>3, <2>5, ReviewerIsNext DEF Good
  <2>7. r3.turn = None /\ Ordered(r3) /\ NoneDirected(r3, member)
    <3>1. r3.turn = None
      BY <1>4, <2>5 DEF Asks
    <3>2. Ordered(r3)
      BY <1>4, <1>5, <2>1, <2>5, AsksOrdered
    <3> QED
      BY <1>6, <2>1, <2>5, <3>1, <3>2, AskNoneDirected
  <2>8. Quiet(room', member')
    BY <1>3, <2>5, <2>7, IdleQuiet, ActivateQuiet
  <2> QED
    BY <2>6, <2>8 DEF ReviewStep, Followed, reviewer
<1> QED
  BY <1>7, <1>8

LEMMA HumanReview ==
    ASSUME room \in RoomRow, Ordered(room), Quiet(room, member),
           NEW h \in Humans, NEW to \in Address,
           NEW reviewer \in Address, NEW t \in TaskRef, NEW isTask \in BOOLEAN,
           SendAsHuman(h, to, reviewer, t, isTask)
    PROVE  ReviewStep
<1> DEFINE interrupted == room.turn
           r1 == IF interrupted # None THEN EndTurn(room) ELSE room
           r2 == IF to # None THEN ClearQueue(r1) ELSE r1
           r3 == ResetAgentTurnBudget(r2)
           r4 == IF to # None
                 THEN Enqueue(r3, to, DirectAddress, TRUE, t, reviewer)
                 ELSE IF interrupted # None /\ IsActive(interrupted.p)
                 THEN Enqueue(r3, interrupted.p, DirectAddress,
                              interrupted.blocking, interrupted.task, interrupted.ask)
                 ELSE r3
<1>0. Followed
  <2>1. room'.count = 0 /\ room.count \in Nat
    BY HumanResets DEF RoomRow
  <2> QED
    BY <2>1 DEF Followed
<1>1. r1 \in RoomRow /\ Leaves(room, r1, {}) /\ r1.turn = None
  <2>1. CASE room.turn # None
    BY <2>1, EndTurnType, EndTurnLeaves DEF EndTurn, RoomRow
  <2>2. CASE room.turn = None
    BY <2>2, SameQueue
  <2> QED
    BY <2>1, <2>2
<1>2. room' = ActivateNext(r4) /\ member' = member
  BY DEF SendAsHuman
<1> HIDE DEF r1
<1>3. DirectAddress \in Priority
  BY DEF Priority
<1>4. ASSUME r4 \in RoomRow, Ordered(r4), Quiet(r4, member) PROVE ReviewStep
  <2> HIDE DEF r4
  <2> QED
    BY <1>0, <1>2, <1>4, ActivateQuiet DEF ReviewStep
<1>5. CASE to # None
  <2>1. r2 \in RoomRow /\ r2.turn = None /\ Waiting(r2) = {} /\ r2.before = {}
    <3>1. r2 = ClearQueue(r1)
      BY <1>5
    <3>2. r2 \in RoomRow /\ Leaves(r1, r2, Participants)
      BY <1>1, <3>1, ClearQueueType, ClearQueueLeaves
    <3>3. r2.turn = None /\ r2.before = {}
      BY <1>1, <3>1 DEF ClearQueue, RoomRow
    <3> QED
      BY <3>2, <3>3 DEF Leaves, Waiting
  <2> HIDE DEF r2
  <2>2. /\ r3 \in RoomRow /\ r3.entry = r2.entry /\ r3.before = r2.before /\ r3.turn = None
    BY <2>1, BudgetType DEF ResetAgentTurnBudget, RoomRow
  <2> HIDE DEF r3
  <2>3. Waiting(r3) = {} /\ Ordered(r3)
    BY <2>1, <2>2 DEF Waiting, Ordered, Chain
  <2>4. r4 = Enqueue(r3, to, DirectAddress, TRUE, t, reviewer) /\ to \in Participants
    BY <1>5 DEF Address
  <2> HIDE DEF r4
  <2>5. r4 \in RoomRow /\ Asks(r3, r4, to, DirectAddress, reviewer)
    BY <1>3, <2>2, <2>4, EnqueueType, EnqueueAsks
  <2>6. Ordered(r4) /\ r4.turn = None
    <3>1. r4.turn = None
      BY <2>2, <2>5 DEF Asks
    <3> QED
      BY <2>2, <2>3, <2>4, <2>5, <3>1, AsksOrdered
  <2>7. Waiting(r4) \subseteq {to} /\ \A q \in Waiting(r4) : r4.entry[q].priority = 1
    BY <2>3, <2>5 DEF Asks, Waiting
  <2>8. Quiet(r4, member)
    BY <2>6, <2>7 DEF Quiet, QuietTurn, QuietQueue
  <2> QED
    BY <1>4, <2>5, <2>6, <2>8
<1>6. CASE to = None
  <2>1. r2 = r1
    BY <1>6
  <2> HIDE DEF r2
  <2>2. /\ r3 \in RoomRow /\ r3.entry = r1.entry /\ r3.before = r1.before /\ r3.turn = None
    BY <1>1, <2>1, BudgetType DEF ResetAgentTurnBudget, RoomRow
  <2> HIDE DEF r3
  <2>3. Leaves(room, r3, {}) /\ Ordered(r3)
    <3>1. Ordered(r1)
      BY <1>1, LeavesOrdered
    <3>2. Leaves(r1, r3, {})
      BY <2>2, <3>1, SameQueue
    <3>3. Leaves(room, r3, {} \cup {})
      BY <1>1, <3>2, LeavesTwice
    <3> QED
      BY <3>1, <3>2, <3>3, LeavesOrdered
  <2>4. CASE ~(interrupted # None /\ IsActive(interrupted.p))
    <3>1. r4 = r3
      BY <1>6, <2>4
    <3>2. Quiet(r3, member)
      BY <2>2, <2>3, LeavesQuiet
    <3> QED
      BY <1>4, <2>2, <2>3, <3>1, <3>2
  <2>5. CASE interrupted # None /\ IsActive(interrupted.p)
    <3> DEFINE p == interrupted.p
               ask == interrupted.ask
    <3>1. /\ p \in Participants /\ interrupted.blocking \in BOOLEAN
          /\ interrupted.task \in TaskRef /\ ask \in Address
      BY <2>5 DEF IsActive, RoomRow, Turn, TaskRef, Address
    <3>2. r4 = Enqueue(r3, p, DirectAddress, interrupted.blocking, interrupted.task, ask)
      BY <1>6, <2>5
    <3>3. NoneDirected(r3, member)
      BY <2>3, <2>5, DirectedAlone, LeavesNoneDirected
    <3>4. Owed(member, ask, p) => \A q \in Waiting(r3) : Behind(r3, q, ask)
      BY <2>3, <2>5 DEF Quiet, QuietTurn, Leaves, Behind
    <3> HIDE DEF r4, p, ask
    <3>5. r4 \in RoomRow /\ Asks(r3, r4, p, DirectAddress, ask)
      BY <1>3, <2>2, <3>1, <3>2, EnqueueType, EnqueueAsks
    <3>6. Ordered(r4) /\ r4.turn = None
      BY <2>2, <2>3, <3>1, <3>5, AsksOrdered DEF Asks
    <3>7. \A q \in Waiting(r4) \ {p} : q \in Waiting(r3) /\ r4.entry[q] = r3.entry[q]
      BY <3>5 DEF Asks, Waiting
    <3>8. ASSUME p \in Waiting(r4), Owed(member, r4.entry[p].ask, p)
          PROVE  r4.entry[p].ask = ask /\ r4.entry[p].priority = 1
      <4>1. ~(r4 = r3)
        BY <3>3, <3>8 DEF NoneDirected
      <4>2. CASE r4.entry[p].priority = 1 /\ r4.entry[p].ask = ask
        BY <4>2
      <4>3. CASE /\ p \in Waiting(r3) /\ r4.entry[p].ask = ask
                 /\ r4.entry[p].priority = r3.entry[p].priority /\ ~(1 < r3.entry[p].priority)
        <5>1. r3.entry[p].priority \in {1, 2, 3, 4}
          BY <2>2, <4>3, Ranks DEF Entry, Priority
        <5> QED
          BY <4>3, <5>1
      <4> QED
        BY <3>5, <4>1, <4>2, <4>3 DEF Asks
    <3>9. ASSUME NEW q \in Waiting(r4), Owed(member, r4.entry[q].ask, q)
          PROVE  /\ r4.entry[q].priority = 1
                 /\ \A z \in Waiting(r4) \ {q} : Behind(r4, z, r4.entry[q].ask)
      <4>1. q = p
        BY <3>3, <3>7, <3>9 DEF NoneDirected
      <4>2. r4.entry[p].ask = ask /\ r4.entry[p].priority = 1 /\ Owed(member, ask, p)
        BY <3>8, <3>9, <4>1
      <4> QED
        BY <3>4, <3>7, <4>1, <4>2 DEF Behind
    <3>10. Quiet(r4, member)
      BY <3>6, <3>9 DEF Quiet, QuietTurn, QuietQueue
    <3> QED
      BY <1>4, <3>5, <3>6, <3>10
  <2> QED
    BY <2>4, <2>5
<1> QED
  BY <1>5, <1>6

LEMMA AgentReview ==
    ASSUME room \in RoomRow, Ordered(room), Quiet(room, member), Good(room, member),
           NEW p \in Agents, NEW to \in Address,
           NEW how \in {"plain", "target", "handoff"}, NEW t \in TaskRef,
           NEW isTask \in BOOLEAN, NEW done \in BOOLEAN, NEW hold \in BOOLEAN,
           SendAsAgent(p, to, how, t, isTask, done, hold)
    PROVE  ReviewStep
<1> DEFINE r0       == AcquireFloor(p)
           reviewer == RequiredReviewer(r0.turn)
           target   == IF reviewer = None /\ how = "target" THEN to ELSE None
           handoff  == IF reviewer # None THEN reviewer
                       ELSE IF how = "handoff" THEN to ELSE None
           r1 == IF hold THEN r0 ELSE RecordAgentTurn(EndTurn(r0))
           r2 == IF target # None
                 THEN Enqueue(r1, target, DirectAddress, TRUE, t, None)
                 ELSE IF handoff # None
                 THEN Enqueue(r1, handoff, Handoff, TRUE, t, None)
                 ELSE r1
<1>1. /\ p \in Participants /\ member[p] = "active"
      /\ room.status = "active" /\ ~room.awaiting /\ MayAcquireFloor(p)
  BY DEF SendAsAgent, Sendable, IsActive, Mutable, RoomRow
<1>2. room' = ActivateNext(r2) /\ member' = member
  BY DEF SendAsAgent
<1>3. room.turn # None => r0 = room
  BY <1>1 DEF MayAcquireFloor, AcquireFloor
<1>4. r0 \in RoomRow /\ r0.turn # None /\ r0.turn.p = p
  BY <1>1, AcquireServes
<1>5. Ordered(r0) /\ Quiet(r0, member)
  <2>1. CASE Holds(room, p)
    BY <2>1 DEF AcquireFloor
  <2>2. CASE ~Holds(room, p) /\ Waiting(room) # {}
    <3>1. room.turn = None /\ r0 = ActivateNext(room)
      BY <1>1, <2>2 DEF AcquireFloor, MayAcquireFloor
    <3> HIDE DEF r0
    <3>2. Fair(room, room)
      BY SameQueue, LeavesFair
    <3>3. Fair(room, r0)
      BY <3>1, <3>2, Settles
    <3> QED
      BY <3>1, <3>3, ActivateQuiet DEF Fair
  <2>3. CASE ~Holds(room, p) /\ Waiting(room) = {}
    <3>1. r0 = StartTurn(room, p, FALSE, None, None)
      BY <2>3 DEF AcquireFloor
    <3>2. r0.entry = room.entry /\ r0.before = room.before
      BY <3>1 DEF StartTurn, RoomRow
    <3> HIDE DEF r0
    <3>3. Leaves(room, r0, {}) /\ Waiting(r0) = {}
      BY <2>3, <3>2, SameQueue DEF Leaves
    <3>4. Ordered(r0)
      BY <3>3, LeavesOrdered
    <3> QED
      BY <3>3, <3>4 DEF Quiet, QuietTurn, QuietQueue
  <2> QED
    BY <2>1, <2>2, <2>3
<1> HIDE DEF r0
<1>6. NoneDirected(r0, member)
  BY <1>4, <1>5, DirectedAlone
<1>7. /\ target # None => target \in Participants
      /\ handoff # None => handoff \in Participants
  BY ReviewerActive DEF SendAsAgent, Addressable, IsActive
<1>8. /\ r1 \in RoomRow /\ Leaves(r0, r1, {}) /\ Ordered(r1)
      /\ r1.turn = (IF hold THEN r0.turn ELSE None)
  <2>1. CASE hold
    BY <1>4, <1>5, <2>1, SameQueue
  <2>2. CASE ~hold
    <3> DEFINE e == EndTurn(r0)
    <3>1. e \in RoomRow /\ Leaves(r0, e, {}) /\ e.turn = None
      BY <1>4, <1>5, EndTurnType, EndTurnLeaves DEF EndTurn, RoomRow
    <3>2. r1 = RecordAgentTurn(e)
      BY <2>2
    <3> HIDE DEF e, r1
    <3>3. r1 \in RoomRow /\ r1.entry = e.entry /\ r1.before = e.before /\ r1.turn = None
      BY <3>1, <3>2, BudgetType DEF RecordAgentTurn, RoomRow
    <3>4. Ordered(e)
      BY <1>5, <3>1, LeavesOrdered
    <3>5. Leaves(e, r1, {})
      BY <3>3, <3>4, SameQueue
    <3>6. Leaves(r0, r1, {} \cup {})
      BY <3>1, <3>5, LeavesTwice
    <3> QED
      BY <2>2, <3>3, <3>4, <3>5, <3>6, LeavesOrdered
  <2> QED
    BY <2>1, <2>2
<1>9. NoneDirected(r1, member)
  BY <1>6, <1>8, LeavesNoneDirected
<1>10. DirectAddress \in Priority /\ Handoff \in Priority /\ None \in Address
  BY DEF Priority, Address
<1>11. CASE reviewer = None
  <2>1. r2 = r1 \/ \E q \in Participants, pr \in Priority : r2 = Enqueue(r1, q, pr, TRUE, t, None)
    BY <1>7, <1>10, <1>11
  <2> HIDE DEF r1, r2
  <2>2. r2 \in RoomRow /\ Ordered(r2) /\ r2.turn = r1.turn /\ NoneDirected(r2, member)
    <3>1. CASE r2 = r1
      BY <1>8, <1>9, <3>1
    <3>2. ASSUME NEW q \in Participants, NEW pr \in Priority,
                 r2 = Enqueue(r1, q, pr, TRUE, t, None)
          PROVE  r2 \in RoomRow /\ Ordered(r2) /\ r2.turn = r1.turn /\ NoneDirected(r2, member)
      <4>1. r2 \in RoomRow /\ Asks(r1, r2, q, pr, None)
        BY <1>8, <1>10, <3>2, EnqueueType, EnqueueAsks
      <4>2. r2.turn = r1.turn
        BY <4>1 DEF Asks
      <4> QED
        BY <1>8, <1>9, <4>1, <4>2, AsksOrdered, AskNoneDirected
    <3> QED
      BY <2>1, <3>1, <3>2
  <2>3. ~Owed(member, r0.turn.ask, r0.turn.p)
    BY <1>4, <1>11, OwedIsRequired, NoneAssumption DEF Owed
  <2>4. Quiet(r2, member)
    BY <1>8, <2>2, <2>3 DEF Quiet, QuietTurn, QuietQueue, NoneDirected
  <2>5. Quiet(room', member')
    BY <1>2, <2>2, <2>4, ActivateQuiet
  <2>6. Followed
    <3>1. room.turn # None => RequiredReviewer(room.turn) = None
      BY <1>3, <1>11
    <3> QED
      BY <3>1 DEF Followed
  <2> QED
    BY <2>5, <2>6 DEF ReviewStep
<1>12. CASE reviewer # None
  <2>1. reviewer \in Participants /\ reviewer = r0.turn.ask /\ Owed(member, r0.turn.ask, r0.turn.p)
    BY <1>12, ReviewerActive, OwedIsRequired
  <2>2. \A q \in Waiting(r0) : Behind(r0, q, reviewer)
    BY <1>4, <1>5, <2>1 DEF Quiet, QuietTurn
  <2>3. r2 = Enqueue(r1, reviewer, Handoff, TRUE, t, None)
    BY <1>12
  <2> HIDE DEF r1, r2
  <2>4. \A q \in Waiting(r1) : Behind(r1, q, reviewer)
    BY <1>8, <2>2 DEF Leaves, Behind
  <2>5. r2 \in RoomRow /\ Asks(r1, r2, reviewer, Handoff, None)
    BY <1>8, <1>10, <2>1, <2>3, EnqueueType, EnqueueAsks
  <2>6. Ordered(r2) /\ NoneDirected(r2, member)
    BY <1>8, <1>9, <2>1, <2>5, AsksOrdered, AskNoneDirected
  <2>7. r2.turn = r1.turn
    BY <2>5 DEF Asks
  <2>8. \A q \in Waiting(r2) : Behind(r2, q, r0.turn.ask)
    <3> TAKE q \in Waiting(r2)
    <3>1. CASE q = reviewer
      <4>1. \/ r2.entry[q].priority = 2
            \/ q \in Waiting(r1) /\ r2.entry[q].priority = r1.entry[q].priority
        BY <2>5, <3>1 DEF Asks
      <4> QED
        BY <2>1, <2>4, <3>1, <4>1 DEF Behind
    <3>2. CASE q # reviewer
      <4>1. q \in Waiting(r1) /\ r2.entry[q] = r1.entry[q]
        BY <2>5, <3>2 DEF Asks, Waiting
      <4> QED
        BY <2>1, <2>4, <4>1 DEF Behind
    <3> QED
      BY <3>1, <3>2
  <2>9. Quiet(r2, member)
    BY <1>8, <2>6, <2>7, <2>8 DEF Quiet, QuietTurn, QuietQueue, NoneDirected
  <2>10. Quiet(room', member')
    BY <1>2, <2>5, <2>6, <2>9, ActivateQuiet
  <2>11. Followed
    <3> SUFFICES ASSUME room.turn # None, room'.count = room.count + 1
                 PROVE  \/ Holds(room', RequiredReviewer(room.turn))
                        \/ /\ room'.turn = None
                           /\ Peek(room') = {RequiredReviewer(room.turn)}
      BY DEF Followed
    <3>1. r0 = room
      BY <1>3
    <3>2. CASE hold
      <4>1. HasCount(r1, room.count)
        BY <3>1, <3>2, RoomHasCount DEF r1
      <4>2. HasCount(room', room.count)
        BY <1>2, <2>3, <4>1, CountKept
      <4> QED
        BY <4>2 DEF HasCount, RoomRow
    <3>3. CASE ~hold
      <4>1. r1.turn = None /\ FloorMatches(r1)
        <5>1. Good(EndTurn(room), member)
          BY EndTurnGood
        <5>2. Good(r1, member)
          BY <3>1, <3>3, <5>1, BudgetGood DEF r1
        <5> QED
          BY <1>8, <3>3, <5>2 DEF Good
      <4>2. \/ Holds(room', reviewer)
            \/ room'.turn = None /\ Peek(room') = {reviewer}
        <5> HIDE DEF reviewer
        <5> QED
          BY <1>2, <1>8, <2>1, <2>4, <2>5, <4>1, ReviewerIsNext
      <4> QED
        BY <3>1, <4>2
    <3> QED
      BY <3>2, <3>3
  <2> QED
    BY <2>10, <2>11 DEF ReviewStep
<1> QED
  BY <1>11, <1>12

-----------------------------------------------------------------------------
\* The invariant the review needs.
ReviewInv ==
    /\ Inv
    /\ RoomOrdered
    /\ Quiet(room, member)
    /\ \A p \in Participants : member[p] # "absent"

LEMMA ReviewNext ==
    ASSUME ReviewInv, [Next]_vars
    PROVE  ReviewStep /\ \A p \in Participants : member'[p] # "absent"
<1>0. /\ room \in RoomRow /\ Good(room, member) /\ Ordered(room) /\ Quiet(room, member)
      /\ member \in [Participants -> {"absent", "active", "removed"}]
      /\ \A p \in Participants : member[p] # "absent"
  BY DEF ReviewInv, Inv, Good, RoomOrdered
<1>1. CASE Membership
  BY <1>0, <1>1, MembershipReview
<1>2. CASE Control
  BY <1>0, <1>2, ControlReview
<1>3. ASSUME NEW p \in Agents, Speak(p) PROVE ReviewStep /\ member' = member
  <2>1. member' = member
    BY <1>3 DEF Speak, SendAsAgent
  <2> QED
    BY <1>0, <1>3, <2>1, AgentReview DEF Speak
<1>4. ASSUME room' = room, member' = member PROVE ReviewStep
  <2>1. HasCount(room', room.count)
    BY <1>0, <1>4, RoomHasCount
  <2> QED
    BY <1>0, <1>4, <2>1, Uncounted DEF ReviewStep
<1>5. ASSUME NEW h \in Humans, HumanSpeaks(h) PROVE ReviewStep /\ member' = member
  <2>1. member' = member
    BY <1>5 DEF HumanSpeaks, SendAsHuman
  <2> QED
    BY <1>0, <1>5, <2>1, HumanReview DEF HumanSpeaks
<1>6. ASSUME NEW p \in Participants, PassTurn(p) PROVE ReviewStep /\ member' = member
  BY <1>0, <1>6, PassReview DEF PassTurn
<1>7. ASSUME NEW p \in Participants, GiveUpSlot(p) PROVE ReviewStep /\ member' = member
  BY <1>0, <1>7, GiveUpReview DEF GiveUpSlot
<1>8. ASSUME NEW p \in Participants, PublishActivity(p) \/ ClearActivity(p)
      PROVE  ReviewStep /\ member' = member
  BY <1>4, <1>8 DEF PublishActivity, ClearActivity
<1>9. ASSUME NEW p \in Participants, NEW b \in {Queued, Optional}, RequestFloor(p, b)
      PROVE  ReviewStep /\ member' = member
  BY <1>0, <1>9, RequestReview DEF RequestFloor
<1>10. ASSUME member' = member PROVE \A p \in Participants : member'[p] # "absent"
  BY <1>0, <1>10
<1>11. CASE UNCHANGED vars
  BY <1>4, <1>10, <1>11 DEF vars
<1> QED
  BY <1>1, <1>2, <1>3, <1>5, <1>6, <1>7, <1>8, <1>9, <1>10, <1>11 DEF Next, Participants

LEMMA JoinedSteps == JoinedNext => Next
<1> SUFFICES ASSUME JoinedNext PROVE Next
  OBVIOUS
<1>1. \A h \in Humans : Directs(h) => HumanSpeaks(h)
  <2>1. ASSUME NEW h \in Humans, Comment(h) PROVE HumanSpeaks(h)
    BY <2>1 DEF Comment, HumanSpeaks, Address, TaskRef
  <2> QED
    BY <2>1 DEF Directs, HumanSpeaks, Address, Participants
<1> QED
  BY <1>1 DEF JoinedNext, Next

LEMMA JoinedStart == JoinedInit => ReviewInv
<1> SUFFICES ASSUME JoinedInit PROVE ReviewInv
  OBVIOUS
<1>1. PICK m \in Budgets :
         room = [status |-> "active", turn |-> None,
                 entry |-> [p \in Participants |-> None], before |-> {},
                 count |-> 0, max |-> m, awaiting |-> FALSE]
  BY DEF JoinedInit
<1>2. room \in RoomRow
  BY <1>1 DEF RoomRow
<1>3. FloorMatches(room) /\ MembersOnly(room, member)
  BY <1>1 DEF FloorMatches, MembersOnly, Holds
<1>4. Spent(room)
  <2>1. m \in Nat /\ m # 0
    BY BudgetAssumption
  <2> QED
    BY <1>1, <2>1 DEF Spent
<1>5. /\ member \in [Participants -> {"absent", "active", "removed"}]
      /\ \A p \in Participants : member[p] # "absent"
  BY DEF JoinedInit
<1>6. tasks \in [Tasks -> Task]
  BY DEF JoinedInit, Task
<1>7. notes = {} /\ invited \subseteq Participants
  BY DEF JoinedInit
<1>8. Inv
  BY <1>2, <1>3, <1>4, <1>5, <1>6, <1>7 DEF Inv, Good, NotesInFloor
<1>9. Waiting(room) = {} /\ room.before = {} /\ room.turn = None
  BY <1>1 DEF Waiting
<1>10. RoomOrdered /\ Quiet(room, member)
  BY <1>9 DEF RoomOrdered, Ordered, Chain, Quiet, QuietTurn, QuietQueue
<1> QED
  BY <1>5, <1>8, <1>10 DEF ReviewInv

\* Once everybody has joined: when the lead's turn on a human direction ends by
\* its message or pass, the reviewer the direction named has the floor next or
\* is first in line for it.  The direction may name anybody in the room.
THEOREM ReviewerSpeaksNext == JoinedInit /\ [][Next]_vars => ReviewFollowsLead
<1>1. ReviewInv /\ [Next]_vars => ReviewInv'
  <2> SUFFICES ASSUME ReviewInv, [Next]_vars PROVE ReviewInv'
    OBVIOUS
  <2>1. Inv'
    BY InvStep DEF ReviewInv
  <2>2. RoomOrdered'
    BY FairNext DEF ReviewInv, RoomOrdered, FairStep, Fair
  <2> QED
    BY <2>1, <2>2, ReviewNext DEF ReviewInv, ReviewStep
<1>2. ReviewInv /\ [Next]_vars =>
         [LET reviewer == RequiredReviewer(room.turn)
          IN  (room'.count = room.count + 1 /\ room.turn # None /\ reviewer # None)
                 => \/ Holds(room', reviewer)
                    \/ room'.turn = None /\ Peek(room') = {reviewer}]_vars
  BY ReviewNext DEF ReviewStep, Followed
<1> QED
  BY <1>1, <1>2, JoinedStart, PTL DEF ReviewFollowsLead

\* The same of the runs TLC checks, where a direction names an agent.
THEOREM JoinedReview == JoinedSpec => ReviewFollowsLead
<1>1. [JoinedNext]_vars => [Next]_vars
  BY JoinedSteps
<1> QED
  BY <1>1, ReviewerSpeaksNext, PTL DEF JoinedSpec

-----------------------------------------------------------------------------
(***************************************************************************)
(* Two step properties no run repeats.                                     *)
(***************************************************************************)
\* While a room waits for its human the scheduler grants nothing.
LEMMA WaitingGrantsNothing ==
    ASSUME NEW u, u.awaiting
    PROVE  ActivateNext(u) = u
BY DEF ActivateNext

Silenced == room'.turn \in {room.turn, None} /\ room'.count = room.count

LEMMA HumanLifts ==
    ASSUME room \in RoomRow, NEW h \in Humans, NEW to \in Address,
           NEW reviewer \in Address, NEW t \in TaskRef, NEW isTask \in BOOLEAN,
           SendAsHuman(h, to, reviewer, t, isTask)
    PROVE  ~room'.awaiting
<1> DEFINE r1 == IF room.turn # None THEN EndTurn(room) ELSE room
           r2 == IF to # None THEN ClearQueue(r1) ELSE r1
           r3 == ResetAgentTurnBudget(r2)
           Open(r) == "awaiting" \in DOMAIN r /\ ~r.awaiting
<1>1. r2 \in RoomRow
  BY EndTurnType, ClearQueueType
<1> HIDE DEF r2
<1>2. Open(r3)
  BY <1>1 DEF ResetAgentTurnBudget, RoomRow
<1>3. \E r4 : (r4 = r3 \/ \E q, k, b, u, ask : r4 = Enqueue(r3, q, k, b, u, ask))
               /\ room' = ActivateNext(r4)
  BY DEF SendAsHuman, r2
<1> HIDE DEF r3
<1>4. ASSUME NEW q, NEW k, NEW b, NEW u, NEW ask
      PROVE  Open(Enqueue(r3, q, k, b, u, ask))
  BY <1>2 DEF Enqueue
<1>5. ASSUME NEW r, Open(r) PROVE Open(ActivateNext(r))
  BY <1>5 DEF ActivateNext, StartTurn
<1> HIDE DEF Open
<1>6. PICK r4 : Open(r4) /\ room' = ActivateNext(r4)
  BY <1>2, <1>3, <1>4
<1> QED
  BY <1>5, <1>6 DEF Open

LEMMA SilencedStep ==
    ASSUME room \in RoomRow, room.awaiting, room'.awaiting, [Next]_vars
    PROVE  Silenced
<1>0. room.count \in Nat /\ HasCount(room, room.count)
  BY RoomHasCount DEF RoomRow
<1>1. ASSUME room' = room PROVE Silenced
  BY <1>1 DEF Silenced
<1>2. ASSUME NEW u \in RoomRow, room' = ActivateNext(u), u.awaiting = room.awaiting,
             u.turn \in {room.turn, None}, u.count = room.count
      PROVE  Silenced
  BY <1>2, WaitingGrantsNothing DEF Silenced
<1>3. CASE Membership
  <2>1. ASSUME NEW h \in Humans, NEW p \in Participants, RemoveParticipant(h, p)
        PROVE  Silenced
    <3> DEFINE r1 == IF Holds(room, p) THEN EndTurn(room) ELSE room
               r2 == Dequeue(r1, p)
    <3>1. /\ r1 \in RoomRow /\ r1.turn \in {room.turn, None}
          /\ r1.awaiting = room.awaiting /\ r1.count = room.count
      <4>1. CASE Holds(room, p)
        BY <4>1, EndTurnType DEF Holds, EndTurn, RoomRow
      <4>2. CASE ~Holds(room, p)
        BY <4>2
      <4> QED
        BY <4>1, <4>2
    <3>2. room' = ActivateNext(r2)
      BY <2>1 DEF RemoveParticipant
    <3> HIDE DEF r1
    <3>3. /\ r2 \in RoomRow /\ r2.turn = r1.turn
          /\ r2.awaiting = r1.awaiting /\ r2.count = r1.count
      BY <3>1, DequeueType DEF Dequeue, RoomRow
    <3> HIDE DEF r2
    <3> QED
      BY <1>2, <3>1, <3>2, <3>3
  <2> QED
    BY <1>1, <1>3, <2>1 DEF Membership, CreateInvite, RevokeInvite, InviteExpires, Join
<1>4. CASE Control
  <2>1. ASSUME NEW h \in Humans, PauseRoom(h) \/ \E m \in Budgets : SetRoomConfig(h, m)
        PROVE  Silenced
    BY <2>1 DEF PauseRoom, SetRoomConfig, RoomRow, Silenced
  <2>2. ASSUME NEW h \in Humans, ResumeRoom(h) PROVE Silenced
    <3> DEFINE u == [room EXCEPT !.status = "active"]
    <3>1. /\ u \in RoomRow /\ u.turn = room.turn /\ u.awaiting = room.awaiting
          /\ u.count = room.count /\ room' = ActivateNext(u)
      BY <2>2 DEF ResumeRoom, RoomRow
    <3> HIDE DEF u
    <3> QED
      BY <1>2, <3>1
  <2>3. ASSUME NEW h \in Humans, StopRoom(h) PROVE Silenced
    <3> DEFINE r1 == IF room.turn # None THEN EndTurn(room) ELSE room
               r2 == ClearQueue(r1)
    <3>1. r2 \in RoomRow /\ HasCount(r2, room.count)
      BY <1>0, EndTurnType, ClearQueueType, CountKept
    <3>2. room' = [r2 EXCEPT !.status = "stopped", !.turn = None]
      BY <2>3 DEF StopRoom
    <3> HIDE DEF r2
    <3> QED
      BY <3>1, <3>2 DEF RoomRow, HasCount, Silenced
  <2> QED
    BY <1>4, <2>1, <2>2, <2>3 DEF Control
<1>5. ASSUME NEW p \in Agents, Sendable(p) PROVE FALSE
  BY <1>5 DEF Sendable
<1>6. ASSUME NEW p \in Agents, Speak(p) PROVE FALSE
  BY <1>5, <1>6 DEF Speak, SendAsAgent
<1>7. ASSUME NEW h \in Humans, HumanSpeaks(h) PROVE FALSE
  BY <1>7, HumanLifts DEF HumanSpeaks
<1>8. ASSUME NEW p \in Participants, PassTurn(p) PROVE Silenced
  <2> DEFINE r1 == EndTurn(room)
  <2>1. room.turn # None /\ p \notin Agents
    BY <1>5, <1>8 DEF PassTurn, Holds
  <2>2. /\ r1 \in RoomRow /\ r1.turn = None
        /\ r1.awaiting = room.awaiting /\ r1.count = room.count
    BY <2>1, EndTurnType DEF EndTurn, RoomRow
  <2>3. \/ room' = ActivateNext(r1)
        \/ /\ RequiredReviewer(room.turn) # None
           /\ room' = ActivateNext(Enqueue(r1, RequiredReviewer(room.turn), Handoff, TRUE,
                                           room.turn.task, None))
    BY <1>8, <2>1 DEF PassTurn
  <2> HIDE DEF r1
  <2>4. CASE room' = ActivateNext(r1)
    BY <1>2, <2>2, <2>4
  <2>5. ASSUME NEW q \in Participants, NEW t \in TaskRef,
               room' = ActivateNext(Enqueue(r1, q, Handoff, TRUE, t, None))
        PROVE  Silenced
    <3> DEFINE u == Enqueue(r1, q, Handoff, TRUE, t, None)
    <3>1. Handoff \in Priority /\ None \in Address
      BY DEF Priority, Address
    <3>2. u \in RoomRow
      BY <2>2, <3>1, EnqueueType
    <3>3. u.turn = r1.turn /\ u.awaiting = r1.awaiting /\ u.count = r1.count
      BY <2>2 DEF Enqueue, RoomRow
    <3> HIDE DEF u
    <3> QED
      BY <1>2, <2>2, <2>5, <3>2, <3>3 DEF u
  <2>6. room.turn.task \in TaskRef
    BY <2>1 DEF RoomRow, Turn, TaskRef
  <2> QED
    BY <2>3, <2>4, <2>5, <2>6, ReviewerActive
<1>9. ASSUME NEW p \in Participants, GiveUpSlot(p) PROVE Silenced
  <2> DEFINE u == Dequeue(room, p)
  <2>1. /\ u \in RoomRow /\ u.turn = room.turn /\ u.awaiting = room.awaiting
        /\ u.count = room.count /\ room' = ActivateNext(u)
    BY <1>9, DequeueType DEF GiveUpSlot, Dequeue, RoomRow
  <2> HIDE DEF u
  <2> QED
    BY <1>2, <2>1
<1>10. ASSUME NEW p \in Participants, NEW b \in {Queued, Optional}, RequestFloor(p, b)
       PROVE  Silenced
  <2> DEFINE u == Enqueue(room, p, b, FALSE, None, None)
  <2>1. b \in Priority /\ None \in TaskRef /\ None \in Address
    BY DEF Priority, TaskRef, Address
  <2>2. u \in RoomRow /\ room' = ActivateNext(u)
    BY <1>10, <2>1, EnqueueType DEF RequestFloor
  <2>3. u.turn = room.turn /\ u.awaiting = room.awaiting /\ u.count = room.count
    BY DEF Enqueue, RoomRow
  <2> HIDE DEF u
  <2> QED
    BY <1>2, <2>2, <2>3
<1>11. ASSUME NEW p \in Participants, PublishActivity(p) \/ ClearActivity(p) PROVE Silenced
  BY <1>1, <1>11 DEF PublishActivity, ClearActivity
<1> QED
  BY <1>1, <1>3, <1>4, <1>6, <1>7, <1>8, <1>9, <1>10, <1>11 DEF Next, vars, Participants

\* While the room waits for its human, no turn is granted and none counted.
THEOREM AwaitingIsSilence == Spec => AwaitingSilencesAgents
<1>1. Inv /\ [Next]_vars =>
         [room.awaiting /\ room'.awaiting =>
             room'.turn \in {room.turn, None} /\ room'.count = room.count]_vars
  BY SilencedStep DEF Inv, Good, Silenced
<1> QED
  BY <1>1, InvHolds, PTL DEF Spec, AwaitingSilencesAgents

\* What may become of the task rows in one step.
TasksMove(ts, us) ==
    \A t \in Tasks : ts[t].status # "absent" =>
        /\ us[t].assigned = ts[t].assigned
        /\ us[t].status \in {"absent", "open"} => us[t] = ts[t]

LEMMA TaskMoves ==
    ASSUME NEW ts \in [Tasks -> Task], NEW t \in TaskRef, NEW q \in Participants
    PROVE  /\ TasksMove(ts, ts)
           /\ t # None => TasksMove(ts, OpenTask(ts, t, q))
           /\ t # None => TasksMove(ts, CloseTask(ts, t, q))
           /\ TasksMove(ts, PassTask(ts, t))
           /\ TasksMove(ts, CancelOpenTasks(ts))
<1>1. TasksMove(ts, ts)
  BY DEF TasksMove
<1>2. t # None => TasksMove(ts, OpenTask(ts, t, q)) /\ TasksMove(ts, CloseTask(ts, t, q))
  BY DEF TaskRef, TasksMove, OpenTask, CloseTask, Task
<1>3. TasksMove(ts, PassTask(ts, t))
  BY DEF TaskRef, TasksMove, PassTask, Task
<1>4. TasksMove(ts, CancelOpenTasks(ts))
  BY DEF TasksMove, CancelOpenTasks, Task
<1> QED
  BY <1>1, <1>2, <1>3, <1>4

LEMMA TasksMoveTwice ==
    ASSUME NEW ts, NEW us, NEW ws, TasksMove(ts, us), TasksMove(us, ws),
           \A t \in Tasks : ts[t].status # "absent" => us[t].status # "absent"
    PROVE  TasksMove(ts, ws)
BY DEF TasksMove

\* A task is opened once, keeps its assignee, and is never opened again.
THEOREM TasksMoveForward == Spec => TaskMovesForward
<1>1. ASSUME Inv, [Next]_vars PROVE TasksMove(tasks, tasks')
  <2>0. tasks \in [Tasks -> Task]
    BY <1>1 DEF Inv
  <2>1. ASSUME tasks' = tasks PROVE TasksMove(tasks, tasks')
    BY <2>1 DEF TasksMove
  <2>2. ASSUME NEW h \in Humans, StopRoom(h) PROVE TasksMove(tasks, tasks')
    BY <2>0, <2>2, TaskMoves, OwnerAssumption DEF StopRoom, TaskRef, Participants
  <2>3. ASSUME NEW p \in Participants, PassTurn(p) PROVE TasksMove(tasks, tasks')
    <3>1. room.turn.task \in TaskRef
      BY <1>1, <2>3 DEF PassTurn, Holds, Inv, Good, RoomRow, Turn, TaskRef
    <3> QED
      BY <2>0, <2>3, <3>1, TaskMoves DEF PassTurn
  <2>4. ASSUME NEW h \in Humans, NEW to \in Address, NEW reviewer \in Address,
               NEW t \in TaskRef, NEW isTask \in BOOLEAN, SendAsHuman(h, to, reviewer, t, isTask)
        PROVE  TasksMove(tasks, tasks')
    <3>1. CASE isTask
      BY <2>0, <2>4, <3>1, TaskMoves DEF SendAsHuman, Address
    <3>2. CASE ~isTask
      BY <2>1, <2>4, <3>2 DEF SendAsHuman
    <3> QED
      BY <3>1, <3>2
  <2>5. ASSUME NEW p \in Agents, NEW to \in Address,
               NEW how \in {"plain", "target", "handoff"}, NEW t \in TaskRef,
               NEW isTask \in BOOLEAN, NEW done \in BOOLEAN, NEW hold \in BOOLEAN,
               SendAsAgent(p, to, how, t, isTask, done, hold)
        PROVE  TasksMove(tasks, tasks')
    <3>1. PICK target \in Address :
             LET opened == IF isTask /\ target # None THEN OpenTask(tasks, t, target) ELSE tasks
             IN  tasks' = IF done THEN CloseTask(opened, t, p) ELSE opened
      BY <2>5 DEF SendAsAgent, Address
    <3> DEFINE opened == IF isTask /\ target # None THEN OpenTask(tasks, t, target) ELSE tasks
    <3>2. (isTask => t # None) /\ (done => t # None) /\ p \in Participants
      BY <2>5 DEF SendAsAgent, Participants
    <3>3. /\ opened \in [Tasks -> Task] /\ TasksMove(tasks, opened)
          /\ \A x \in Tasks : tasks[x].status # "absent" => opened[x].status # "absent"
      <4>1. CASE isTask /\ target # None
        <5>1. target \in Participants
          BY <4>1 DEF Address
        <5>2. \A x \in Tasks : tasks[x].status # "absent" => OpenTask(tasks, t, target)[x] = tasks[x]
          BY <2>0, <3>2, <4>1 DEF OpenTask, TaskRef
        <5> QED
          BY <2>0, <3>2, <4>1, <5>1, <5>2, TaskTypes, TaskMoves
      <4>2. CASE ~(isTask /\ target # None)
        BY <2>0, <4>2 DEF TasksMove
      <4> QED
        BY <4>1, <4>2
    <3>4. tasks' = IF done THEN CloseTask(opened, t, p) ELSE opened
      BY <3>1
    <3> HIDE DEF opened
    <3>5. done => TasksMove(opened, CloseTask(opened, t, p))
      BY <3>2, <3>3, TaskMoves
    <3> QED
      BY <3>3, <3>4, <3>5, TasksMoveTwice
  <2>6. CASE Membership
    BY <2>1, <2>6 DEF Membership, CreateInvite, RevokeInvite, InviteExpires, Join, RemoveParticipant
  <2>7. CASE Control
    BY <2>1, <2>2, <2>7 DEF Control, PauseRoom, ResumeRoom, SetRoomConfig
  <2>8. ASSUME NEW p \in Participants, NEW b \in {Queued, Optional},
               \/ GiveUpSlot(p) \/ RequestFloor(p, b)
               \/ PublishActivity(p) \/ ClearActivity(p)
        PROVE  TasksMove(tasks, tasks')
    BY <2>1, <2>8 DEF GiveUpSlot, RequestFloor, PublishActivity, ClearActivity
  <2>9. ASSUME NEW h \in Humans, HumanSpeaks(h) PROVE TasksMove(tasks, tasks')
    BY <2>4, <2>9 DEF HumanSpeaks
  <2>10. ASSUME NEW p \in Agents, Speak(p) PROVE TasksMove(tasks, tasks')
    BY <2>5, <2>10 DEF Speak
  <2>11. CASE UNCHANGED vars
    BY <2>1, <2>11 DEF vars
  <2> QED
    BY <1>1, <2>3, <2>6, <2>7, <2>8, <2>9, <2>10, <2>11 DEF Next, Participants
<1>2. Inv /\ [Next]_vars =>
         [\A t \in Tasks : tasks[t].status # "absent" =>
             /\ tasks'[t].assigned = tasks[t].assigned
             /\ tasks'[t].status \in {"absent", "open"} => tasks'[t] = tasks[t]]_vars
  BY <1>1 DEF TasksMove
<1> QED
  BY <1>2, InvHolds, PTL DEF Spec, TaskMovesForward

-----------------------------------------------------------------------------
(***************************************************************************)
(* The room is a Floor.  Every handler threads the room through a few      *)
(* scheduler calls and ends with ActivateNext(u): what u keeps of the      *)
(* status, the budget and the turn decides which step of Floor it takes.   *)
(***************************************************************************)
LEMMA FloorSeen ==
    ASSUME NEW turn \in Turn \cup {None}
    PROVE  /\ FloorOf(turn) \in F!Floors
           /\ turn = None <=> FloorOf(turn) = "none"
           /\ turn # None => FloorOf(turn) \in F!Speakers
           /\ \A other \in Turn : turn # None /\ turn.p = other.p => FloorOf(turn) = FloorOf(other)
<1>1. ASSUME turn = None
      PROVE  FloorOf(turn) = "none"
  BY <1>1 DEF FloorOf
<1>2. ASSUME turn # None
      PROVE  FloorOf(turn) \in F!Speakers
  BY <1>2 DEF FloorOf, F!Speakers
<1>3. "none" \notin F!Speakers
  BY ManagedAssumption DEF F!Speakers
<1>4. \A other \in Turn : turn # None /\ turn.p = other.p => FloorOf(turn) = FloorOf(other)
  BY NoneAssumption DEF FloorOf
<1> QED
  BY <1>1, <1>2, <1>3, <1>4 DEF F!Floors

\* A grant of the scheduler is one of Floor.
LEMMA FloorGiven ==
    ASSUME NEW u \in RoomRow, room' = ActivateNext(u)
    PROVE  F!Becomes(u.status, u.awaiting, FloorOf(u.turn))
<1>1. CASE u.status = "active" /\ ~u.awaiting /\ u.turn = None /\ Peek(u) # {}
  <2> DEFINE x == CHOOSE x \in Peek(u) : TRUE
             e == u.entry[x]
             tn == [p |-> x, blocking |-> e.blocking, task |-> e.task, ask |-> e.ask]
  <2>1. x \in Participants /\ e \in Entry
    BY <1>1 DEF Peek, Waiting, RoomRow
  <2>2. tn \in Turn
    BY <2>1 DEF Turn, Entry
  <2>3. room'.turn = tn /\ room'.status = u.status /\ room'.awaiting = u.awaiting
    BY <1>1 DEF ActivateNext, StartTurn, RoomRow
  <2> HIDE DEF tn
  <2>4. FloorOf(tn) \in F!Speakers /\ FloorOf(u.turn) = "none"
    BY <1>1, <2>2, FloorSeen, NoneAssumption DEF RoomRow
  <2>5. View' = [status |-> u.status, awaiting |-> u.awaiting, floor |-> FloorOf(tn)]
    BY <2>3 DEF View, FloorOf
  <2> QED
    BY <1>1, <2>4, <2>5 DEF F!Becomes
<1>2. CASE ~(u.status = "active" /\ ~u.awaiting /\ u.turn = None /\ Peek(u) # {})
  <2>1. room' = u
    BY <1>2 DEF ActivateNext
  <2>2. View' = [status |-> u.status, awaiting |-> u.awaiting, floor |-> FloorOf(u.turn)]
    BY <2>1 DEF View, FloorOf
  <2> QED
    BY <2>2 DEF F!Becomes
<1> QED
  BY <1>1, <1>2

\* What the observer sees of a well-typed room.
LEMMA FloorFields ==
    ASSUME room \in RoomRow
    PROVE  /\ View.status = room.status /\ View.awaiting = room.awaiting
           /\ View.floor = FloorOf(room.turn)
           /\ View = [status |-> room.status, awaiting |-> room.awaiting,
                            floor |-> FloorOf(room.turn)]
           /\ F!Live <=> Mutable
BY DEF View, F!Live, Mutable

LEMMA MembershipKeepsFloor ==
    ASSUME Inv, NEW h \in Humans, NEW p \in Participants, RemoveParticipant(h, p)
    PROVE  F!Leave \/ F!Queue
<1> DEFINE r1 == IF Holds(room, p) THEN EndTurn(room) ELSE room
           r2 == Dequeue(r1, p)
<1>0. room \in RoomRow /\ Mutable
  BY DEF Inv, Good, RemoveParticipant
<1>1. /\ r1 \in RoomRow /\ r1.status = room.status /\ r1.awaiting = room.awaiting
      /\ \/ r1.turn = None /\ room.turn # None
         \/ r1.turn = room.turn
  <2>1. CASE Holds(room, p)
    BY <1>0, <2>1, EndTurnType DEF Holds, EndTurn, RoomRow
  <2>2. CASE ~Holds(room, p)
    BY <1>0, <2>2
  <2> QED
    BY <2>1, <2>2
<1>2. room' = ActivateNext(r2)
  BY DEF RemoveParticipant
<1> HIDE DEF r1
<1>3. /\ r2 \in RoomRow /\ r2.turn = r1.turn
      /\ r2.status = r1.status /\ r2.awaiting = r1.awaiting
  BY <1>1, DequeueType DEF Dequeue, RoomRow
<1> HIDE DEF r2
<1>4. F!Becomes(room.status, room.awaiting, FloorOf(r1.turn))
  BY <1>1, <1>2, <1>3, FloorGiven
<1>5. CASE r1.turn = room.turn
  BY <1>0, <1>4, <1>5, FloorFields DEF F!Queue
<1>6. CASE r1.turn = None /\ room.turn # None
  <2>1. FloorOf(r1.turn) = "none" /\ FloorOf(room.turn) # "none"
    BY <1>0, <1>6, FloorSeen DEF RoomRow
  <2> QED
    BY <1>0, <1>4, <2>1, FloorFields DEF F!Leave
<1> QED
  BY <1>1, <1>5, <1>6

LEMMA ControlKeepsFloor ==
    ASSUME Inv, Control
    PROVE  F!Pause \/ F!Resume \/ F!Stop \/ F!NewLimit
<1>0. room \in RoomRow
  BY DEF Inv, Good
<1>1. ASSUME NEW h \in Humans, PauseRoom(h) PROVE F!Pause
  BY <1>0, <1>1, FloorFields DEF PauseRoom, F!Pause, View, RoomRow
<1>2. ASSUME NEW h \in Humans, ResumeRoom(h) PROVE F!Resume
  <2> DEFINE u == [room EXCEPT !.status = "active"]
  <2>1. /\ u \in RoomRow /\ u.turn = room.turn /\ u.awaiting = room.awaiting
        /\ u.status = "active" /\ room' = ActivateNext(u) /\ Mutable
    BY <1>0, <1>2 DEF ResumeRoom, RoomRow
  <2> HIDE DEF u
  <2>2. F!Becomes("active", room.awaiting, FloorOf(room.turn))
    BY <2>1, FloorGiven
  <2> QED
    BY <1>0, <2>1, <2>2, FloorFields DEF F!Resume
<1>3. ASSUME NEW h \in Humans, StopRoom(h) PROVE F!Stop
  <2> DEFINE r1 == IF room.turn # None THEN EndTurn(room) ELSE room
             r2 == ClearQueue(r1)
  <2>1. r1 \in RoomRow /\ r1.awaiting = room.awaiting
    BY <1>0, EndTurnType DEF EndTurn, RoomRow
  <2>2. room' = [r2 EXCEPT !.status = "stopped", !.turn = None] /\ Mutable
    BY <1>3 DEF StopRoom
  <2> HIDE DEF r1
  <2>3. r2 \in RoomRow /\ r2.awaiting = room.awaiting
    BY <2>1, ClearQueueType DEF ClearQueue, RoomRow
  <2> HIDE DEF r2
  <2>4. room'.status = "stopped" /\ room'.turn = None /\ room'.awaiting = room.awaiting
    BY <2>2, <2>3 DEF RoomRow
  <2>5. View' = [status |-> "stopped", awaiting |-> room.awaiting, floor |-> "none"]
    BY <2>4 DEF View, FloorOf
  <2> QED
    BY <1>0, <2>2, <2>5, FloorFields DEF F!Stop
<1>4. ASSUME NEW h \in Humans, NEW m \in Budgets, SetRoomConfig(h, m) PROVE F!NewLimit
  <2>1. /\ room'.status = room.status /\ room'.turn = room.turn
        /\ room'.awaiting \in BOOLEAN /\ Mutable
    BY <1>0, <1>4 DEF SetRoomConfig, RoomRow
  <2> QED
    BY <1>0, <2>1, FloorFields DEF F!NewLimit, View
<1> QED
  BY <1>1, <1>2, <1>3, <1>4 DEF Control

LEMMA QueueKeepsFloor ==
    ASSUME Inv, NEW p \in Participants, NEW b \in {Queued, Optional},
           GiveUpSlot(p) \/ RequestFloor(p, b)
    PROVE  F!Queue
<1>0. room \in RoomRow /\ Mutable
  BY DEF Inv, Good, GiveUpSlot, RequestFloor, Sendable
<1>1. ASSUME NEW u \in RoomRow, room' = ActivateNext(u), u.turn = room.turn,
             u.awaiting = room.awaiting, u.status = room.status
      PROVE  F!Queue
  <2>1. F!Becomes(room.status, room.awaiting, FloorOf(room.turn))
    BY <1>1, FloorGiven
  <2> QED
    BY <1>0, <2>1, FloorFields DEF F!Queue
<1>2. CASE GiveUpSlot(p)
  <2> DEFINE u == Dequeue(room, p)
  <2>1. /\ u \in RoomRow /\ u.turn = room.turn /\ u.awaiting = room.awaiting
        /\ u.status = room.status /\ room' = ActivateNext(u)
    BY <1>0, <1>2, DequeueType DEF GiveUpSlot, Dequeue, RoomRow
  <2> HIDE DEF u
  <2> QED
    BY <1>1, <2>1
<1>3. CASE RequestFloor(p, b)
  <2> DEFINE u == Enqueue(room, p, b, FALSE, None, None)
  <2>1. b \in Priority /\ None \in TaskRef /\ None \in Address
    BY DEF Priority, TaskRef, Address
  <2>2. u \in RoomRow /\ room' = ActivateNext(u)
    BY <1>0, <1>3, <2>1, EnqueueType DEF RequestFloor
  <2>3. u.turn = room.turn /\ u.awaiting = room.awaiting /\ u.status = room.status
    BY <1>0 DEF Enqueue, RoomRow
  <2> HIDE DEF u
  <2> QED
    BY <1>1, <2>2, <2>3
<1> QED
  BY <1>2, <1>3

LEMMA PassKeepsFloor ==
    ASSUME Inv, NEW p \in Participants, PassTurn(p)
    PROVE  F!Leave \/ \E q \in F!Speakers : F!Speaks(q)
<1> DEFINE reviewer == RequiredReviewer(room.turn)
           r1 == EndTurn(room)
           r2 == IF p \in Agents THEN RecordAgentTurn(r1) ELSE r1
           r3 == IF reviewer # None
                 THEN Enqueue(r2, reviewer, Handoff, TRUE, room.turn.task, None)
                 ELSE r2
<1>0. /\ room \in RoomRow /\ room.turn # None /\ room.turn.task \in TaskRef
      /\ room.turn \in Turn /\ Sendable(p)
  BY DEF PassTurn, Holds, Inv, Good, RoomRow, Turn, TaskRef
<1>1. room' = ActivateNext(r3)
  BY DEF PassTurn
<1>2. r1 \in RoomRow /\ r1.turn = None /\ r1.status = room.status /\ r1.awaiting = room.awaiting
  BY <1>0, EndTurnType DEF EndTurn, RoomRow
<1> HIDE DEF r1
<1>3. /\ r2 \in RoomRow /\ r2.turn = None /\ r2.status = room.status
      /\ p \notin Agents => r2.awaiting = room.awaiting
  BY <1>2, BudgetType DEF RecordAgentTurn, RoomRow
<1> HIDE DEF r2
<1>4. /\ r3 \in RoomRow /\ r3.turn = None /\ r3.status = room.status
      /\ r3.awaiting = r2.awaiting
  <2>1. CASE reviewer = None
    BY <1>3, <2>1
  <2>2. CASE reviewer # None
    <3>1. reviewer \in Participants /\ Handoff \in Priority /\ None \in Address
      BY <2>2, ReviewerActive DEF Priority, Address
    <3> HIDE DEF reviewer
    <3>2. r3 = Enqueue(r2, reviewer, Handoff, TRUE, room.turn.task, None)
      BY <2>2
    <3> HIDE DEF r3
    <3>3. r3 \in RoomRow
      BY <1>0, <1>3, <3>1, <3>2, EnqueueType
    <3>4. r3.turn = r2.turn /\ r3.status = r2.status /\ r3.awaiting = r2.awaiting
      BY <1>3, <3>2 DEF Enqueue, RoomRow
    <3> QED
      BY <1>3, <3>3, <3>4
  <2> QED
    BY <2>1, <2>2
<1> HIDE DEF r3
<1>5. F!Becomes(room.status, r2.awaiting, "none")
  <2>1. FloorOf(r3.turn) = "none"
    BY <1>4 DEF FloorOf
  <2> QED
    BY <1>1, <1>4, <2>1, FloorGiven
<1>6. FloorOf(room.turn) \in F!Speakers /\ FloorOf(room.turn) # "none"
  BY <1>0, FloorSeen DEF RoomRow
<1>7. CASE p \notin Agents
  <2>1. F!Becomes(View.status, View.awaiting, "none") /\ View.floor # "none" /\ F!Live
    BY <1>0, <1>3, <1>5, <1>6, <1>7, FloorFields DEF Sendable
  <2> QED
    BY <2>1 DEF F!Leave
<1>8. CASE p \in Agents
  <2>1. room.status = "active" /\ ~room.awaiting
    BY <1>0, <1>8 DEF Sendable, Mutable, RoomRow
  <2>2. r2.awaiting \in BOOLEAN
    BY <1>3 DEF RoomRow
  <2>3. F!Speaks(FloorOf(room.turn))
    BY <1>0, <1>5, <2>1, <2>2, FloorFields DEF F!Speaks
  <2> QED
    BY <1>6, <2>3
<1> QED
  BY <1>7, <1>8

LEMMA AgentKeepsFloor ==
    ASSUME Inv, RoomOrdered, NEW p \in Agents, NEW to \in Address,
           NEW how \in {"plain", "target", "handoff"}, NEW t \in TaskRef,
           NEW isTask \in BOOLEAN, NEW done \in BOOLEAN, NEW hold \in BOOLEAN,
           SendAsAgent(p, to, how, t, isTask, done, hold)
    PROVE  \E q \in F!Speakers : F!Speaks(q)
<1> DEFINE r0       == AcquireFloor(p)
           reviewer == RequiredReviewer(r0.turn)
           target   == IF reviewer = None /\ how = "target" THEN to ELSE None
           handoff  == IF reviewer # None THEN reviewer
                       ELSE IF how = "handoff" THEN to ELSE None
           r1 == IF hold THEN r0 ELSE RecordAgentTurn(EndTurn(r0))
           r2 == IF target # None
                 THEN Enqueue(r1, target, DirectAddress, TRUE, t, None)
                 ELSE IF handoff # None
                 THEN Enqueue(r1, handoff, Handoff, TRUE, t, None)
                 ELSE r1
<1>0. room \in RoomRow /\ Ordered(room)
  BY DEF Inv, Good, RoomOrdered
<1>1. p \in Participants /\ room.status = "active" /\ ~room.awaiting /\ MayAcquireFloor(p)
  BY <1>0 DEF SendAsAgent, Sendable, IsActive, Mutable, RoomRow
<1>2. room' = ActivateNext(r2)
  BY DEF SendAsAgent
<1>3. r0 \in RoomRow /\ r0.turn # None /\ r0.turn.p = p
  BY <1>0, <1>1, AcquireServes
<1>4. r0.status = "active" /\ r0.awaiting = FALSE
  BY <1>0, <1>1 DEF AcquireFloor, ActivateNext, StartTurn, RoomRow
<1> HIDE DEF r0
<1>5. /\ target # None => target \in Participants
      /\ handoff # None => handoff \in Participants
  BY ReviewerActive DEF SendAsAgent, Addressable, IsActive
<1>6. /\ r1 \in RoomRow /\ r1.status = "active"
      /\ r1.turn = None \/ (r1.turn = r0.turn /\ r1.awaiting = FALSE)
  <2>1. CASE hold
    BY <1>3, <1>4, <2>1
  <2>2. CASE ~hold
    <3> DEFINE e == EndTurn(r0)
    <3>1. e \in RoomRow /\ e.turn = None /\ e.status = "active"
      BY <1>3, <1>4, EndTurnType DEF EndTurn, RoomRow
    <3>2. r1 = RecordAgentTurn(e)
      BY <2>2
    <3> HIDE DEF e, r1
    <3> QED
      BY <3>1, <3>2, BudgetType DEF RecordAgentTurn, RoomRow
  <2> QED
    BY <2>1, <2>2
<1> HIDE DEF r1, target, handoff
<1>7. r2 = r1 \/ \E q \in Participants, pr \in Priority :
                    r2 = Enqueue(r1, q, pr, TRUE, t, None)
  BY <1>5 DEF Priority
<1> HIDE DEF r2
<1>8. /\ r2 \in RoomRow /\ r2.status = "active" /\ r2.awaiting = r1.awaiting
      /\ r2.turn = r1.turn
  <2>1. CASE r2 = r1
    BY <1>6, <2>1
  <2>2. ASSUME NEW q \in Participants, NEW pr \in Priority,
               r2 = Enqueue(r1, q, pr, TRUE, t, None)
        PROVE  /\ r2 \in RoomRow /\ r2.status = "active" /\ r2.awaiting = r1.awaiting
               /\ r2.turn = r1.turn
    <3>1. None \in Address
      BY DEF Address
    <3> QED
      BY <1>6, <2>2, <3>1, EnqueueType DEF Enqueue, RoomRow
  <2> QED
    BY <1>7, <2>1, <2>2
<1>9. F!Becomes("active", r2.awaiting, FloorOf(r2.turn)) /\ r2.awaiting \in BOOLEAN
  BY <1>2, <1>8, FloorGiven DEF RoomRow
<1>10. FloorOf(r0.turn) \in F!Speakers /\ FloorOf(room.turn) \in {FloorOf(r0.turn), "none"}
  <2>1. r0.turn \in Turn /\ room.turn \in Turn \cup {None}
    BY <1>0, <1>3 DEF RoomRow
  <2>2. room.turn = None \/ (room.turn # None /\ room.turn.p = p)
    BY <1>1 DEF MayAcquireFloor, Holds
  <2> QED
    BY <1>3, <2>1, <2>2, FloorSeen
<1>11. \E awaiting \in BOOLEAN : F!Becomes("active", awaiting, "none")
  <2>1. CASE r1.turn = None
    <3>1. FloorOf(r2.turn) = "none"
      BY <1>8, <2>1 DEF FloorOf
    <3> QED
      BY <1>9, <3>1
  <2>2. CASE r1.turn = r0.turn /\ r1.awaiting = FALSE
    <3>1. F!Becomes("active", FALSE, FloorOf(r0.turn))
      BY <1>8, <1>9, <2>2
    <3>2. F!Becomes("active", FALSE, "none")
      BY <1>10, <3>1 DEF F!Becomes
    <3> QED
      BY <3>2
  <2> QED
    BY <1>6, <2>1, <2>2
<1>12. F!Speaks(FloorOf(r0.turn))
  BY <1>0, <1>1, <1>10, <1>11, FloorFields DEF F!Speaks
<1> QED
  BY <1>10, <1>12

LEMMA HumanKeepsFloor ==
    ASSUME Inv, RoomOrdered, NEW h \in Humans, NEW to \in Address,
           NEW reviewer \in Address, NEW t \in TaskRef, NEW isTask \in BOOLEAN,
           SendAsHuman(h, to, reviewer, t, isTask)
    PROVE  F!Comment \/ \E q \in F!Speakers : F!Redirect(q)
<1> DEFINE interrupted == room.turn
           r1 == IF interrupted # None THEN EndTurn(room) ELSE room
           r2 == IF to # None THEN ClearQueue(r1) ELSE r1
           r3 == ResetAgentTurnBudget(r2)
           r4 == IF to # None
                 THEN Enqueue(r3, to, DirectAddress, TRUE, t, reviewer)
                 ELSE IF interrupted # None /\ IsActive(interrupted.p)
                 THEN Enqueue(r3, interrupted.p, DirectAddress,
                              interrupted.blocking, interrupted.task, interrupted.ask)
                 ELSE r3
<1>0. room \in RoomRow /\ Ordered(room) /\ Mutable /\ DirectAddress \in Priority
  BY DEF Inv, Good, RoomOrdered, SendAsHuman, Sendable, Priority
<1>1. room' = ActivateNext(r4)
  BY DEF SendAsHuman
<1>2. r1 \in RoomRow /\ FloorMatches(r1) /\ Ordered(r1) /\ r1.turn = None /\ r1.status = room.status
  <2>1. CASE interrupted # None
    <3>1. Good(r1, member) /\ r1.turn = None /\ r1.status = room.status
      BY <2>1, EndTurnGood DEF Inv
    <3>2. Leaves(room, r1, {})
      BY <1>0, <2>1, EndTurnLeaves
    <3> QED
      BY <1>0, <3>1, <3>2, LeavesOrdered DEF Good
  <2>2. CASE interrupted = None
    BY <1>0, <2>2 DEF Inv, Good
  <2> QED
    BY <2>1, <2>2
<1> HIDE DEF r1
\* Then the message decides: u is the room it leaves, without a speaker.
<1>3. ASSUME NEW u \in RoomRow, Ordered(u), u = r4, u.turn = None, ~u.awaiting,
             u.status = room.status
      PROVE  /\ F!Becomes(room.status, FALSE, "none")
             /\ room.status = "active" /\ Waiting(u) # {} =>
                    \E q \in Waiting(u) : room'.turn \in Turn /\ room'.turn.p = q
             /\ room.status # "active" => room'.turn = None
             /\ room'.status = room.status /\ room'.awaiting = FALSE
  <2>1. F!Becomes(u.status, u.awaiting, FloorOf(u.turn)) /\ room' = ActivateNext(u)
    BY <1>1, <1>3, FloorGiven
  <2>2. u.awaiting = FALSE /\ FloorOf(u.turn) = "none"
    BY <1>3 DEF RoomRow, FloorOf
  <2>3. ASSUME room.status = "active", Waiting(u) # {}
        PROVE  \E q \in Waiting(u) : room'.turn \in Turn /\ room'.turn.p = q
    <3>1. PICK q \in Peek(u) : room'.turn # None /\ room'.turn.p = q
      BY <1>3, <2>1, <2>3, ActivateNextLeaves
    <3>2. room' \in RoomRow
      BY <2>1, ActivateNextType
    <3> QED
      BY <3>1, <3>2 DEF Peek, RoomRow
  <2>4. ASSUME room.status # "active" PROVE room' = u
    BY <1>3, <2>1, <2>4 DEF ActivateNext
  <2>5. room'.status = room.status /\ room'.awaiting = FALSE
    BY <1>3, <2>1, <2>2 DEF ActivateNext, StartTurn, RoomRow
  <2> QED
    BY <1>3, <2>1, <2>2, <2>3, <2>4, <2>5
<1>4. CASE to # None
  <2>1. r2 = ClearQueue(r1) /\ to \in Participants
    BY <1>4 DEF Address
  <2> HIDE DEF r2
  <2>2. /\ r2 \in RoomRow /\ r2.turn = None /\ r2.status = room.status
        /\ Waiting(r2) = {} /\ r2.before = {} /\ \A q \in Participants : r2.entry[q] = None
    <3>1. r2 \in RoomRow /\ r2.turn = None /\ r2.status = room.status /\ r2.before = {}
      BY <1>2, <2>1, ClearQueueType DEF ClearQueue, RoomRow
    <3>2. ASSUME NEW q \in Participants PROVE r2.entry[q] = None
      <4>1. r2.entry[q] = IF q \in Waiting(r1) THEN None ELSE r1.entry[q]
        BY <1>2, <2>1 DEF ClearQueue, RoomRow
      <4>2. r1.entry[q] # None /\ r1.entry[q].live = "active" => FALSE
        BY <1>2 DEF FloorMatches, Holds
      <4>3. r1.entry[q] # None => r1.entry[q].live \in {"waiting", "active"}
        BY <1>2 DEF RoomRow, Entry
      <4> QED
        BY <4>1, <4>2, <4>3 DEF Waiting
    <3> QED
      BY <3>1, <3>2 DEF Waiting
  <2>3. /\ r3 \in RoomRow /\ r3.entry = r2.entry /\ r3.before = r2.before /\ r3.turn = None
        /\ r3.awaiting = FALSE /\ r3.status = room.status
    BY <2>2, BudgetType DEF ResetAgentTurnBudget, RoomRow
  <2> HIDE DEF r3
  <2>4. Waiting(r3) = {} /\ Ordered(r3)
    BY <2>2, <2>3 DEF Waiting, Ordered, Chain
  <2>5. r4 = Enqueue(r3, to, DirectAddress, TRUE, t, reviewer)
    BY <1>4
  <2> HIDE DEF r4
  <2>6. r4 \in RoomRow /\ Asks(r3, r4, to, DirectAddress, reviewer)
    BY <1>0, <2>1, <2>3, <2>5, EnqueueType, EnqueueAsks
  <2>7. r4.awaiting = FALSE /\ r4.status = room.status /\ r4.turn = None
    BY <2>3, <2>5 DEF Enqueue, RoomRow
  <2>8. Ordered(r4)
    BY <2>1, <2>3, <2>4, <2>6, AsksOrdered
  <2>9. Waiting(r4) = {to}
    BY <2>1, <2>2, <2>3, <2>4, <2>6 DEF Asks, Waiting
  <2>10. /\ room.status = "active" => room'.turn \in Turn /\ room'.turn.p = to
         /\ room.status # "active" => room'.turn = None
         /\ room'.status = room.status /\ room'.awaiting = FALSE
    BY <1>3, <2>6, <2>7, <2>8, <2>9
  <2> DEFINE q == IF to \in Managed THEN to ELSE "outside"
  <2>11. /\ room.status = "active" => FloorOf(room'.turn) = q
         /\ room.status # "active" => FloorOf(room'.turn) = "none"
    BY <2>10, NoneAssumption DEF FloorOf
  <2>12. View' = [status |-> room.status, awaiting |-> FALSE,
                  floor |-> IF room.status = "active" THEN q ELSE "none"]
    BY <2>10, <2>11 DEF View, FloorOf
  <2> HIDE DEF q
  <2>13. F!Redirect(q)
    BY <1>0, <2>12, FloorFields DEF F!Redirect
  <2>14. q \in F!Speakers
    BY DEF F!Speakers, q
  <2> QED
    BY <2>13, <2>14
<1>5. CASE to = None
  <2>1. r2 = r1
    BY <1>5
  <2> HIDE DEF r2
  <2>2. /\ r3 \in RoomRow /\ r3.entry = r1.entry /\ r3.before = r1.before /\ r3.turn = None
        /\ r3.awaiting = FALSE /\ r3.status = room.status
    BY <1>2, <2>1, BudgetType DEF ResetAgentTurnBudget, RoomRow
  <2> HIDE DEF r3
  <2>3. Ordered(r3)
    BY <1>2, <2>2, SameQueue, LeavesOrdered
  <2>4. ASSUME F!Becomes(room.status, FALSE, "none"),
               room.status = "active" /\ room.turn # None =>
                   FloorOf(room'.turn) # "none"
        PROVE  F!Comment
    <3>1. View'.floor = FloorOf(room'.turn)
      BY DEF View, FloorOf
    <3>2. FloorOf(room.turn) # "none" => room.turn # None
      BY DEF FloorOf
    <3> QED
      BY <1>0, <2>4, <3>1, <3>2, FloorFields DEF F!Comment
  <2>5. CASE interrupted = None
    <3>1. r4 = r3
      BY <1>5, <2>5
    <3>2. F!Becomes(room.status, FALSE, "none")
      BY <1>3, <2>2, <2>3, <3>1
    <3> QED
      BY <2>4, <2>5, <3>2
  <2>6. CASE interrupted # None
    <3> DEFINE p == interrupted.p
               ask == interrupted.ask
               bl == interrupted.blocking
               task == interrupted.task
    <3>1. /\ p \in Participants /\ bl \in BOOLEAN /\ task \in TaskRef /\ ask \in Address
      BY <1>0, <2>6 DEF RoomRow, Turn, TaskRef, Address
    <3>2. IsActive(p)
      BY <2>6, <3>1 DEF Inv, Good, MembersOnly, Holds, IsActive
    <3>3. r4 = Enqueue(r3, p, DirectAddress, bl, task, ask)
      BY <1>5, <2>6, <3>2
    <3> HIDE DEF r4, p, ask, bl, task
    <3>4. r4 \in RoomRow /\ Asks(r3, r4, p, DirectAddress, ask)
      BY <1>0, <2>2, <3>1, <3>3, EnqueueType, EnqueueAsks
    <3>5. r4.awaiting = FALSE /\ r4.status = room.status /\ r4.turn = None
      BY <2>2, <3>3 DEF Enqueue, RoomRow
    <3>6. Ordered(r4)
      BY <2>2, <2>3, <3>1, <3>4, AsksOrdered
    <3>7. p \in Waiting(r4)
      <4>1. r3.entry[p] = None \/ r3.entry[p].live = "waiting"
        BY <1>2, <2>2, <3>1 DEF FloorMatches, Holds, RoomRow, Entry
      <4> QED
        BY <3>1, <3>4, <4>1 DEF Asks, Waiting
    <3>8. /\ F!Becomes(room.status, FALSE, "none")
          /\ room.status = "active" => room'.turn \in Turn
      BY <1>3, <3>4, <3>5, <3>6, <3>7
    <3>9. room.status = "active" => FloorOf(room'.turn) # "none"
      BY <3>8, FloorSeen, NoneAssumption
    <3> QED
      BY <2>4, <3>8, <3>9
  <2> QED
    BY <2>5, <2>6
<1> QED
  BY <1>4, <1>5

LEMMA FloorStep == Inv /\ RoomOrdered /\ [Next]_vars => [F!Next]_View
<1> SUFFICES ASSUME Inv, RoomOrdered, [Next]_vars PROVE F!Next \/ UNCHANGED View
  OBVIOUS
<1>1. ASSUME room' = room PROVE UNCHANGED View
  BY <1>1 DEF View, FloorOf
<1>2. ASSUME F!Human PROVE F!Next
  BY <1>2 DEF F!Next
<1>3. ASSUME NEW q \in F!Speakers, F!Speaks(q) PROVE F!Next
  BY <1>3 DEF F!Next
<1>4. CASE Membership
  <2>1. ASSUME NEW h \in Humans, NEW p \in Participants, RemoveParticipant(h, p)
        PROVE  F!Next
    BY <1>2, <2>1, MembershipKeepsFloor DEF F!Human
  <2> QED
    BY <1>1, <1>4, <2>1 DEF Membership, CreateInvite, RevokeInvite, InviteExpires, Join
<1>5. CASE Control
  BY <1>2, <1>5, ControlKeepsFloor DEF F!Human
<1>6. ASSUME NEW p \in Agents, Speak(p) PROVE F!Next
  BY <1>3, <1>6, AgentKeepsFloor DEF Speak
<1>7. ASSUME NEW h \in Humans, HumanSpeaks(h) PROVE F!Next
  BY <1>2, <1>7, HumanKeepsFloor DEF HumanSpeaks, F!Human
<1>8. ASSUME NEW p \in Participants, PassTurn(p) PROVE F!Next
  BY <1>2, <1>3, <1>8, PassKeepsFloor DEF F!Human
<1>9. ASSUME NEW p \in Participants, NEW b \in {Queued, Optional},
             GiveUpSlot(p) \/ RequestFloor(p, b)
      PROVE  F!Next
  BY <1>2, <1>9, QueueKeepsFloor DEF F!Human
<1>10. ASSUME NEW p \in Participants, PublishActivity(p) \/ ClearActivity(p)
       PROVE  UNCHANGED View
  BY <1>1, <1>10 DEF PublishActivity, ClearActivity
<1> QED
  BY <1>1, <1>4, <1>5, <1>6, <1>7, <1>8, <1>9, <1>10 DEF Next, vars, Participants

\* Whoever watches a room sees a Floor: one speaker, whom only its own word, a human,
\* or its removal takes the floor from; and nobody is given it while the room is
\* paused, stopped or waits for its human.
THEOREM RoomImplementsFloor == Spec => FloorSpec
<1>1. Init => F!Init
  BY DEF Init, F!Init, View, FloorOf
<1> QED
  BY <1>1, FloorStep, InvHolds, OrderedHolds, PTL DEF Spec, FloorSpec, F!Spec
=============================================================================
