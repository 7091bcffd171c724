-------------------------------- MODULE Room --------------------------------
(***************************************************************************)
(* One Synchri room: the broker's operations and the turn scheduler.       *)
(*                                                                         *)
(* Every broker operation runs inside one BEGIN IMMEDIATE transaction      *)
(* (storage/db.py), so an operation is one atomic action here.  An action  *)
(* is the whole handler: it threads the room record through the scheduler  *)
(* calls the handler makes, in the order it makes them, and ends with the  *)
(* trailing ActivateNext where the code has one.                           *)
(*                                                                         *)
(* Data kept: who is asked, how strongly, whether the ask blocks, the task *)
(* it carries and the reviewer a human direction names.  Text, ids and     *)
(* timestamps are dropped.  enqueue_seq is kept as the order it induces on *)
(* waiting entries, which is all the scheduler reads of it.                *)
(***************************************************************************)
EXTENDS Naturals, FiniteSets

CONSTANTS
    Agents,     \* participants of kind "agent"
    Managed,    \* the agents one server's registry runs
    Humans,     \* participants of kind "human"
    Owner,      \* the human who created the room
    Tasks,      \* task ids
    Budgets,    \* values of max_consecutive_agent_turns the human may set
    None        \* SQL NULL

Participants == Agents \cup Humans

ASSUME OwnerAssumption == Owner \in Humans
ASSUME KindAssumption  == Agents \cap Humans = {}
ASSUME ManagedAssumption ==
    Managed \subseteq Agents /\ {"none", "outside"} \cap Managed = {}
ASSUME BudgetAssumption == Budgets # {} /\ Budgets \subseteq Nat \ {0}

(***************************************************************************)
(* Types.  Priority is the scheduler's bucket: the lowest number wins.     *)
(***************************************************************************)
DirectAddress == 1
Handoff       == 2
Queued        == 3
Optional      == 4
Priority      == {DirectAddress, Handoff, Queued, Optional}

\* A turn: its holder, the blocking flag, the task it works on, and the
\* reviewer named by the human direction it answers (None: no direction).
Turn == [p : Participants, blocking : BOOLEAN,
         task : Tasks \cup {None}, ask : Participants \cup {None}]

\* A live queue entry: still waiting, or the one the active turn came from.
Entry == [live : {"waiting", "active"}, priority : Priority,
          blocking : BOOLEAN,
          task : Tasks \cup {None}, ask : Participants \cup {None}]

\* NULL is no participant, task or row.
ASSUME NoneAssumption == None \notin Participants \cup Tasks \cup Turn \cup Entry

RoomRow == [status   : {"active", "paused", "stopped"},
            turn     : Turn \cup {None},
            entry    : [Participants -> Entry \cup {None}],
            before   : SUBSET (Participants \X Participants),
            count    : Nat,
            max      : Budgets,
            awaiting : BOOLEAN]

Task == [status   : {"absent", "open", "completed", "passed", "cancelled"},
         assigned : Participants \cup {None}]

VARIABLES
    room,       \* the rooms row, the active turn and the live queue entries
    member,     \* participant |-> "absent", "active" or "removed"
    invited,    \* names that hold a live invite
    notes,      \* participants with a live work note (agent_activity)
    tasks       \* task id |-> its row

vars == <<room, member, invited, notes, tasks>>

TypeOK ==
    /\ room \in RoomRow
    /\ member \in [Participants -> {"absent", "active", "removed"}]
    /\ invited \subseteq Participants
    /\ notes \subseteq Participants
    /\ tasks \in [Tasks -> Task]

-----------------------------------------------------------------------------
(***************************************************************************)
(* The queue.  room.before holds <<p, q>> when the waiting entry of p has  *)
(* the smaller enqueue_seq.                                                *)
(***************************************************************************)
Waiting(r) == {p \in Participants : r.entry[p] # None /\ r.entry[p].live = "waiting"}

\* Mutant: the latest arrival first.
AheadLatestFirst(r, p, q) ==
    \/ r.entry[p].priority < r.entry[q].priority
    \/ r.entry[p].priority = r.entry[q].priority /\ <<q, p>> \in r.before

Ahead(r, p, q) ==
    \/ r.entry[p].priority < r.entry[q].priority
    \/ r.entry[p].priority = r.entry[q].priority /\ <<p, q>> \in r.before

\* The head of the queue, as a set of at most one participant.
Peek(r) == {p \in Waiting(r) : \A q \in Waiting(r) \ {p} : Ahead(r, p, q)}

Without(r, S) == {e \in r.before : e[1] \notin S /\ e[2] \notin S}

\* The order once p takes a fresh enqueue_seq.
AtBack(r, p) == Without(r, {p}) \cup ((Waiting(r) \ {p}) \X {p})

\* Mutant: an ask of equal priority counts as a fresh one.
EnqueueRefreshing(r, p, priority, blocking, task, ask) ==
    LET old == r.entry[p]
    IN  IF old = None \/ (old.live = "waiting" /\ priority <= old.priority)
        THEN [r EXCEPT !.entry[p] = [live |-> "waiting", priority |-> priority,
                                     blocking |-> blocking, task |-> task, ask |-> ask],
                       !.before = AtBack(r, p)]
        ELSE r

Enqueue(r, p, priority, blocking, task, ask) ==
    LET old   == r.entry[p]
        fresh == [live |-> "waiting", priority |-> priority,
                  blocking |-> blocking, task |-> task, ask |-> ask]
    IN  IF old = None \/ (old.live = "waiting" /\ priority < old.priority)
        THEN [r EXCEPT !.entry[p] = fresh, !.before = AtBack(r, p)]
        ELSE IF old.live = "waiting" /\ blocking /\ ~old.blocking
        THEN [r EXCEPT !.entry[p] =
                 [fresh EXCEPT !.priority = old.priority,
                               !.task = IF task = None THEN old.task ELSE task]]
        ELSE r

Dequeue(r, p) == [r EXCEPT !.entry[p] = None, !.before = Without(r, {p})]

ClearQueue(r) ==
    [r EXCEPT !.entry = [p \in Participants |->
                            IF p \in Waiting(r) THEN None ELSE @[p]],
              !.before = {}]

(***************************************************************************)
(* The floor and the autonomy budget.                                      *)
(***************************************************************************)
Holds(r, p) == r.turn # None /\ r.turn.p = p

StartTurn(r, p, blocking, task, ask) ==
    [r EXCEPT !.turn = [p |-> p, blocking |-> blocking, task |-> task, ask |-> ask]]

\* Mutants: only the participant column is cleared; the entry stays active.
EndTurnHalfCleared(r) == [r EXCEPT !.turn.p = None]

EndTurnLeavesEntry(r) == [r EXCEPT !.turn = None]

EndTurn(r) ==
    LET h == r.turn.p
    IN  [r EXCEPT !.turn = None,
                  !.entry[h] = IF @ # None /\ @.live = "active" THEN None ELSE @]

\* Mutant: a paused room still grants the floor.
ActivateNextPaused(r) ==
    IF r.status # "stopped" /\ ~r.awaiting /\ r.turn = None /\ Peek(r) # {}
    THEN LET h == CHOOSE h \in Peek(r) : TRUE
             e == r.entry[h]
         IN  [StartTurn(r, h, e.blocking, e.task, e.ask)
                EXCEPT !.entry[h] = [e EXCEPT !.live = "active"],
                       !.before = Without(r, {h})]
    ELSE r

ActivateNext(r) ==
    IF r.status = "active" /\ ~r.awaiting /\ r.turn = None /\ Peek(r) # {}
    THEN LET h == CHOOSE h \in Peek(r) : TRUE
             e == r.entry[h]
         IN  [StartTurn(r, h, e.blocking, e.task, e.ask)
                EXCEPT !.entry[h] = [e EXCEPT !.live = "active"],
                       !.before = Without(r, {h})]
    ELSE r

RecordAgentTurn(r) ==
    [r EXCEPT !.count = @ + 1, !.awaiting = (r.count + 1 >= r.max)]

ResetAgentTurnBudget(r) == [r EXCEPT !.count = 0, !.awaiting = FALSE]

(***************************************************************************)
(* Tasks.                                                                  *)
(***************************************************************************)

OpenTask(ts, t, q) ==
    IF ts[t].status = "absent"
    THEN [ts EXCEPT ![t] = [status |-> "open", assigned |-> q]]
    ELSE ts

CloseTask(ts, t, p) ==
    IF ts[t].status = "open" /\ ts[t].assigned = p
    THEN [ts EXCEPT ![t].status = "completed"]
    ELSE ts

PassTask(ts, t) ==
    IF t # None /\ ts[t].status # "absent"
    THEN [ts EXCEPT ![t].status = "passed"]
    ELSE ts

CancelOpenTasks(ts) ==
    [t \in Tasks |-> IF ts[t].status = "open"
                     THEN [ts[t] EXCEPT !.status = "cancelled"]
                     ELSE ts[t]]

(***************************************************************************)
(* Authorisation.                                                          *)
(***************************************************************************)
IsActive(p) == p \in Participants /\ member[p] = "active"

Mutable == room.status # "stopped"

HumanMay(h) == h \in Humans /\ IsActive(h)

Sendable(p) ==
    /\ IsActive(p)
    /\ Mutable
    /\ p \in Agents => room.status # "paused" /\ ~room.awaiting

\* When an agent may speak: it holds the floor, heads the queue, or
\* volunteers when there is neither a speaker nor a queue.
MayAcquireFloor(p) ==
    \/ Holds(room, p)
    \/ room.turn = None /\ (p \in Peek(room) \/ Waiting(room) = {})

AcquireFloor(p) ==
    IF Holds(room, p) THEN room
    ELSE IF Waiting(room) # {} THEN ActivateNext(room)
    ELSE StartTurn(room, p, FALSE, None, None)

\* The reviewer a human direction owes the next turn to, or None.
RequiredReviewer(turn) ==
    IF IsActive(turn.ask) /\ turn.ask # turn.p THEN turn.ask ELSE None
-----------------------------------------------------------------------------
(***************************************************************************)
(* Membership.  An invite is kept as "this name may join now": one live    *)
(* invite per name, spent by joining, by revocation or by expiry.          *)
(***************************************************************************)
CreateInvite(h, p) ==
    /\ HumanMay(h) /\ Mutable
    /\ member[p] = "absent"
    /\ invited' = invited \cup {p}
    /\ UNCHANGED <<room, member, notes, tasks>>

RevokeInvite(h, p) ==
    /\ HumanMay(h)
    /\ p \in invited
    /\ invited' = invited \ {p}
    /\ UNCHANGED <<room, member, notes, tasks>>

\* The clock passes expires_at.
InviteExpires(p) ==
    /\ p \in invited
    /\ invited' = invited \ {p}
    /\ UNCHANGED <<room, member, notes, tasks>>

Join(p) ==
    /\ Mutable
    /\ member[p] = "absent"
    /\ p \in invited
    /\ member' = [member EXCEPT ![p] = "active"]
    /\ invited' = invited \ {p}
    /\ UNCHANGED <<room, notes, tasks>>

\* Mutants: the queue entry survives its participant; the freed floor is left.
RemoveParticipantKeepsEntry(h, p) ==
    /\ HumanMay(h) /\ Mutable
    /\ member[p] = "active" /\ p # Owner
    /\ member' = [member EXCEPT ![p] = "removed"]
    /\ notes' = notes \ {p}
    /\ room' = ActivateNext(IF Holds(room, p) THEN EndTurn(room) ELSE room)
    /\ UNCHANGED <<invited, tasks>>

RemoveParticipantIdle(h, p) ==
    /\ HumanMay(h) /\ Mutable
    /\ member[p] = "active" /\ p # Owner
    /\ member' = [member EXCEPT ![p] = "removed"]
    /\ notes' = notes \ {p}
    /\ room' = Dequeue(IF Holds(room, p) THEN EndTurn(room) ELSE room, p)
    /\ UNCHANGED <<invited, tasks>>

RemoveParticipant(h, p) ==
    /\ HumanMay(h) /\ Mutable
    /\ member[p] = "active" /\ p # Owner
    /\ member' = [member EXCEPT ![p] = "removed"]
    /\ notes' = notes \ {p}
    /\ LET r1 == IF Holds(room, p) THEN EndTurn(room) ELSE room
       IN  room' = ActivateNext(Dequeue(r1, p))
    /\ UNCHANGED <<invited, tasks>>

(***************************************************************************)
(* Messages.                                                               *)
(***************************************************************************)
Addressable(p, to) == to # p /\ IsActive(to)

\* h speaks.  With an addressee it is a redirect: the queue is dropped and
\* the addressee asked, on behalf of the reviewer the direction names.
\* Without one it is a comment: the interrupted speaker is asked again.
SendAsHuman(h, to, reviewer, t, isTask) ==
    /\ h \in Humans /\ Sendable(h)
    /\ to # None => Addressable(h, to)
    /\ to = None => reviewer = None
    /\ isTask => to # None /\ t # None
    /\ LET interrupted == room.turn
           r1 == IF interrupted # None THEN EndTurn(room) ELSE room
           r2 == IF to # None THEN ClearQueue(r1) ELSE r1
           r3 == ResetAgentTurnBudget(r2)
           r4 == IF to # None
                 THEN Enqueue(r3, to, DirectAddress, TRUE, t, reviewer)
                 ELSE IF interrupted # None /\ IsActive(interrupted.p)
                 THEN Enqueue(r3, interrupted.p, DirectAddress,
                              interrupted.blocking, interrupted.task, interrupted.ask)
                 ELSE r3
       IN  /\ room' = ActivateNext(r4)
           /\ notes' = IF to # None THEN {}
                       ELSE IF interrupted # None THEN notes \ {interrupted.p}
                       ELSE notes
    /\ tasks' = IF isTask THEN OpenTask(tasks, t, to) ELSE tasks
    /\ UNCHANGED <<member, invited>>

\* p speaks, addressing to directly (how = "target"), deferring to it
\* ("handoff") or neither ("plain"); hold keeps the floor.  A lead that
\* answers a human direction hands off to the reviewer whatever it asked.
SendAsAgent(p, to, how, t, isTask, done, hold) ==
    /\ p \in Agents /\ Sendable(p)
    /\ how # "plain" => Addressable(p, to)
    /\ how = "plain" => to = None
    /\ isTask => how = "target" /\ t # None
    /\ done => t # None
    /\ MayAcquireFloor(p)
    /\ LET r0       == AcquireFloor(p)
           reviewer == RequiredReviewer(r0.turn)
           target   == IF reviewer = None /\ how = "target" THEN to ELSE None
           handoff  == IF reviewer # None THEN reviewer
                       ELSE IF how = "handoff" THEN to ELSE None
           r1 == IF hold THEN r0 ELSE RecordAgentTurn(EndTurn(r0))
           r2 == IF target # None
                 THEN Enqueue(r1, target, DirectAddress, TRUE, t, None)
                 ELSE IF handoff # None
                 THEN Enqueue(r1, handoff, Handoff, TRUE, t, None)
                 ELSE r1
           opened == IF isTask /\ target # None THEN OpenTask(tasks, t, target) ELSE tasks
       IN  /\ room' = ActivateNext(r2)
           /\ tasks' = IF done THEN CloseTask(opened, t, p) ELSE opened
    /\ notes' = notes \ {p}
    /\ UNCHANGED <<member, invited>>

\* Mutants: a pass skips the review it owes; a pass is not counted.
PassTurnSkipsReview(p) ==
    /\ Sendable(p) /\ Holds(room, p)
    /\ LET r1 == EndTurn(room)
       IN  room' = ActivateNext(IF p \in Agents THEN RecordAgentTurn(r1) ELSE r1)
    /\ tasks' = PassTask(tasks, room.turn.task)
    /\ notes' = notes \ {p}
    /\ UNCHANGED <<member, invited>>

PassTurnUncounted(p) ==
    /\ Sendable(p) /\ Holds(room, p)
    /\ room' = ActivateNext(EndTurn(room))
    /\ tasks' = PassTask(tasks, room.turn.task)
    /\ notes' = notes \ {p}
    /\ UNCHANGED <<member, invited>>

PassTurn(p) ==
    /\ Sendable(p)
    /\ Holds(room, p)
    /\ LET reviewer == RequiredReviewer(room.turn)
           r1 == EndTurn(room)
           r2 == IF p \in Agents THEN RecordAgentTurn(r1) ELSE r1
           r3 == IF reviewer # None
                 THEN Enqueue(r2, reviewer, Handoff, TRUE, room.turn.task, None)
                 ELSE r2
       IN  room' = ActivateNext(r3)
    /\ tasks' = PassTask(tasks, room.turn.task)
    /\ notes' = notes \ {p}
    /\ UNCHANGED <<member, invited>>

\* p passes without holding the floor: it only gives up its queue slot.
GiveUpSlot(p) ==
    /\ Sendable(p)
    /\ ~Holds(room, p) /\ room.entry[p] # None
    /\ room' = ActivateNext(Dequeue(room, p))
    /\ notes' = notes \ {p}
    /\ UNCHANGED <<member, invited, tasks>>

RequestFloor(p, priority) ==
    /\ Sendable(p)
    /\ priority \in {Queued, Optional}
    /\ room' = ActivateNext(Enqueue(room, p, priority, FALSE, None, None))
    /\ UNCHANGED <<member, invited, notes, tasks>>

(***************************************************************************)
(* Live work notes.                                                        *)
(***************************************************************************)
PublishActivity(p) ==
    /\ p \in Agents /\ Sendable(p)
    /\ Holds(room, p)
    /\ notes' = notes \cup {p}
    /\ UNCHANGED <<room, member, invited, tasks>>

\* The participant clears its note, or the note outlives its TTL.
ClearActivity(p) ==
    /\ p \in notes
    /\ notes' = notes \ {p}
    /\ UNCHANGED <<room, member, invited, tasks>>

(***************************************************************************)
(* Room control.                                                           *)
(***************************************************************************)

PauseRoom(h) ==
    /\ HumanMay(h) /\ Mutable
    /\ room' = [room EXCEPT !.status = "paused"]
    /\ notes' = {}
    /\ UNCHANGED <<member, invited, tasks>>

ResumeRoom(h) ==
    /\ HumanMay(h) /\ Mutable
    /\ room' = ActivateNext([room EXCEPT !.status = "active"])
    /\ UNCHANGED <<member, invited, notes, tasks>>

StopRoom(h) ==
    /\ HumanMay(h) /\ Mutable
    /\ LET r1 == IF room.turn # None THEN EndTurn(room) ELSE room
       IN  room' = [ClearQueue(r1) EXCEPT !.status = "stopped", !.turn = None]
    /\ notes' = {}
    /\ tasks' = CancelOpenTasks(tasks)
    /\ invited' = {}
    /\ UNCHANGED member

SetRoomConfig(h, m) ==
    /\ HumanMay(h) /\ Mutable
    /\ room' = [room EXCEPT !.max = m, !.awaiting = (room.count >= m)]
    /\ UNCHANGED <<member, invited, notes, tasks>>
-----------------------------------------------------------------------------
(***************************************************************************)
(* What turn/wait reports to a polling participant.                        *)
(***************************************************************************)
TurnState(p) ==
    IF member[p] # "active" THEN "removed"
    ELSE IF room.status = "stopped" THEN "stopped"
    ELSE IF Holds(room, p) \/ p \in Humans THEN "your_turn"
    ELSE IF room.status = "paused" THEN "paused"
    ELSE IF room.awaiting THEN "awaiting_human"
    ELSE IF room.turn # None THEN "blocked"
    ELSE IF p \in Waiting(room) THEN "waiting"
    ELSE "idle"

-----------------------------------------------------------------------------
(***************************************************************************)
(* create_room: the owner is in, every named agent holds an invite.        *)
(***************************************************************************)
Init ==
    /\ \E m \in Budgets :
          room = [status |-> "active", turn |-> None,
                  entry |-> [p \in Participants |-> None], before |-> {},
                  count |-> 0, max |-> m, awaiting |-> FALSE]
    /\ member = [p \in Participants |-> IF p = Owner THEN "active" ELSE "absent"]
    /\ invited \in SUBSET Agents
    /\ notes = {}
    /\ tasks = [t \in Tasks |-> [status |-> "absent", assigned |-> None]]

Address == Participants \cup {None}
TaskRef == Tasks \cup {None}

Speak(p) ==
    \E to \in Address, how \in {"plain", "target", "handoff"}, t \in TaskRef,
       isTask, done, hold \in BOOLEAN : SendAsAgent(p, to, how, t, isTask, done, hold)

HumanSpeaks(h) ==
    \E to \in Address, reviewer \in Address, t \in TaskRef, isTask \in BOOLEAN :
        SendAsHuman(h, to, reviewer, t, isTask)

Membership ==
    \/ \E h \in Humans, p \in Participants :
          CreateInvite(h, p) \/ RevokeInvite(h, p) \/ RemoveParticipant(h, p)
    \/ \E p \in Participants : InviteExpires(p) \/ Join(p)

Control ==
    \E h \in Humans :
        \/ PauseRoom(h) \/ ResumeRoom(h) \/ StopRoom(h)
        \/ \E m \in Budgets : SetRoomConfig(h, m)

Next ==
    \/ Membership
    \/ Control
    \/ \E p \in Agents : Speak(p) \/ PublishActivity(p)
    \/ \E h \in Humans : HumanSpeaks(h)
    \/ \E p \in Participants :
          \/ PassTurn(p) \/ GiveUpSlot(p) \/ ClearActivity(p)
          \/ \E b \in {Queued, Optional} : RequestFloor(p, b)

Spec == Init /\ [][Next]_vars

(***************************************************************************)
(* Fairness.  The runner (or the terminal) behind whoever has the floor    *)
(* ends the turn: the conductor posts an answer, a pass or, on a failure,  *)
(* gives the turn up, each within its timeout.  The human answers a room   *)
(* that waits for it, or that gave it the floor, and does not leave a room *)
(* paused for ever.                                                        *)
(***************************************************************************)
EndsTurn(p) ==
    /\ Holds(room, p)
    /\ \/ PassTurn(p)
       \/ \E to \in Address, how \in {"plain", "target", "handoff"} :
             SendAsAgent(p, to, how, None, FALSE, FALSE, FALSE)

Comment(h) == SendAsHuman(h, None, None, None, FALSE)

Fairness ==
    /\ \A p \in Agents : SF_vars(EndsTurn(p))
    /\ \A h \in Humans : SF_vars((room.awaiting \/ Holds(room, h)) /\ Comment(h))
    /\ WF_vars(room.status = "paused" /\ \E h \in Humans : ResumeRoom(h))

-----------------------------------------------------------------------------
(***************************************************************************)
(* Properties.                                                             *)
(***************************************************************************)

\* The queue order is a strict total order on the waiting entries
\* (architecture.md, invariant 4).
QueueOrdered ==
    LET W == Waiting(room)
    IN  /\ room.before \subseteq W \X W
        /\ \A p, q \in W : p # q => (<<p, q>> \in room.before) # (<<q, p>> \in room.before)
        /\ W # {} => Peek(room) # {}

\* turns and queue_entries are two tables kept in step by hand.  An entry is
\* active only while its participant holds the floor, and then both agree on
\* the ask; a blocking turn is never a volunteer's.
FloorMatchesQueue ==
    /\ \A p \in Participants :
          (room.entry[p] # None /\ room.entry[p].live = "active") =>
              /\ Holds(room, p)
              /\ room.turn.blocking = room.entry[p].blocking
              /\ room.turn.task = room.entry[p].task
              /\ room.turn.ask = room.entry[p].ask
    /\ (room.turn # None /\ room.turn.blocking) =>
          /\ room.entry[room.turn.p] # None
          /\ room.entry[room.turn.p].live = "active"

\* A participant that is not in the room holds nothing in it: no floor, no
\* queue entry, no work note, and it can be neither promoted nor resumed.
OutsidersHoldNothing ==
    \A p \in Participants :
        member[p] # "active" =>
            room.entry[p] = None /\ ~Holds(room, p) /\ p \notin notes

\* A live work note is always the floor holder's (publish_activity checks it,
\* and every way of losing the floor must take the note down).
NoteIsHolders == \A p \in notes : Holds(room, p) /\ room.status = "active"

\* The stored flag awaiting_human agrees with the counter after all four
\* writers of either: the turn counter, the human reset, config and creation.
AwaitingIffSpent == room.awaiting <=> room.count >= room.max

\* Stopping leaves nothing live behind.
StoppedIsEmpty ==
    room.status = "stopped" =>
        /\ room.turn = None
        /\ \A p \in Participants : room.entry[p] = None
        /\ notes = {} /\ invited = {}
        /\ \A t \in Tasks : tasks[t].status # "open"

\* All three: the rows of a room tell of nobody who is not in it, and of nothing
\* after its end, whatever the order of joins, removals, pauses and the stop.
NothingOutside == OutsidersHoldNothing /\ NoteIsHolders /\ StoppedIsEmpty

\* A stopped room accepts no mutation (architecture.md, invariant 9).
StoppedIsFinal == [][room.status # "stopped"]_vars

\* While the room waits for its human no turn is granted or counted; a turn
\* in progress may only be closed.
AwaitingSilencesAgents ==
    [][room.awaiting /\ room'.awaiting =>
          room'.turn \in {room.turn, None} /\ room'.count = room.count]_vars

\* One waiting entry overtakes another only through a strictly stronger ask
\* for its participant: repeated or weaker asks never move anybody.
OvertakingNeedsStrongerAsk ==
    [][\A p, q \in Waiting(room) \cap Waiting(room)' :
          Ahead(room, p, q) /\ ~Ahead(room', p, q) =>
              room'.entry[q].priority < room.entry[q].priority]_vars

\* A participant is granted the floor only ahead of everybody who was waiting:
\* no one left waiting had a stronger ask, and nobody volunteers past a queue.
GrantGoesToTheHead ==
    [][(room'.turn # None /\ room'.turn # room.turn) =>
          LET h == room'.turn.p
          IN  \A q \in (Waiting(room) \cap Waiting(room')) \ {h} :
                 /\ room'.entry[h] # None
                 /\ room'.entry[h].priority <= room.entry[q].priority]_vars

\* All three: nobody is passed by in the queue, nor by it.
QueueIsFair == []QueueOrdered /\ OvertakingNeedsStrongerAsk /\ GrantGoesToTheHead

\* When the lead's turn on a human direction ends with its own message or
\* pass, the named reviewer has the floor next or is first in line for it.
ReviewFollowsLead ==
    [][LET reviewer == RequiredReviewer(room.turn)
       IN  (room'.count = room.count + 1 /\ room.turn # None /\ reviewer # None)
              => \/ Holds(room', reviewer)
                 \/ room'.turn = None /\ Peek(room') = {reviewer}]_vars

\* A blocking turn ends only by its holder's message or pass, a human
\* message, a stop or the holder's removal: no operation of another agent, and
\* no change of the queue, takes the floor from it (architecture.md, invariant
\* 3, with removal, which the code adds).
BlockingTurnProtected ==
    [][(room.turn # None /\ room.turn.blocking /\ room'.turn # room.turn) =>
          LET p == room.turn.p
          IN  \/ PassTurn(p)
              \/ \E h \in Humans : StopRoom(h) \/ RemoveParticipant(h, p)
              \/ \E h \in Humans : room'.count = 0 /\ HumanSpeaks(h)
              \/ p \in Agents /\ Speak(p)]_vars

\* Work conservation, with the turn limit left alone (SetRoomConfig may
\* raise it without activating anybody): an active room that is not waiting for
\* its human never leaves the floor empty while somebody is queued, so every
\* handler that can free the floor or open the room must end by activating the
\* head.
WorkConserving ==
    (room.status = "active" /\ ~room.awaiting /\ room.turn = None) => Waiting(room) = {}

\* What an observer that tells only the managed agents apart sees of the room ...
FloorOf(turn) ==
    IF turn = None THEN "none" ELSE IF turn.p \in Managed THEN turn.p ELSE "outside"

View == [status |-> room.status, awaiting |-> room.awaiting, floor |-> FloorOf(room.turn)]

F == INSTANCE Floor WITH room <- View

\* ... is a Floor, whoever is managed: one speaker at a time, no floor given in a
\* room that is paused, stopped or waiting for its human, and a redirected
\* agent next, whatever the handlers did to the queue and the budget on the way.
FloorSpec == F!Spec

\* A task is opened once, keeps its assignee, and is never opened again.
TaskMovesForward ==
    [][\A t \in Tasks : tasks[t].status # "absent" =>
          /\ tasks'[t].assigned = tasks[t].assigned
          /\ tasks'[t].status \in {"absent", "open"} => tasks'[t] = tasks[t]]_vars

\* No direct address is starved: whoever is asked directly gets the floor, or
\* the human clears the queue, removes it or stops the room, or it gives the
\* slot up -- in any case its entry does not wait for ever.
DirectAddressServed ==
    \A p \in Participants :
        (p \in Waiting(room) /\ room.entry[p].priority = DirectAddress)
            ~> (p \notin Waiting(room))

\* The loop breaker: unless a human keeps resetting the counter, agents that
\* address each other run out of turns and none holds the floor any more.
AgentsYieldTheRoom ==
    \/ []<><<room.count > 0 /\ room'.count = 0>>_vars
    \/ <>[](room.turn = None \/ room.turn.p \in Humans)
=============================================================================
