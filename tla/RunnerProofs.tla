---------------------------- MODULE RunnerProofs ----------------------------
(***************************************************************************)
(* Proofs about Runner, for any agents, threads, limit and requests.       *)
(*                                                                         *)
(* At most one thread is alive, so whatever a worker does is about the     *)
(* only one.  What makes NobodyWaitsAlone inductive is Heard: a cancel     *)
(* event is only set while a request is under way, the session is not      *)
(* active, the room is stopped, or the wait for the worker was given up.   *)
(***************************************************************************)
EXTENDS Runner, TLAPS

WorkerRow == [pc : WorkerPc, speaker : Managed \cup {"none"},
              result : Failures \cup {"ok", "cancelled"}, strikes : [Managed -> 0..Limit]]
RoomRow == [status : {"active", "paused", "stopped"}, awaiting : BOOLEAN, floor : F!Floors]
CallRow == [pc : CallPc, agent : Managed \cup {"none"}]

\* Nobody but a worker that supervises an agent speaks of one.
Speaks ==
    \A t \in Threads :
        worker[t].pc \in {"turn", "invoke", "post", "trip", "revive", "escalate"}
            => worker[t].speaker \in Managed

Settled == \A c \in Calls : call[c].pc = "cancel" => session = "finished"

Busy == \E c \in Calls : call[c].pc # "idle"
Heard == cancel = "set" => \/ Busy \/ unheard
                           \/ session # "active" \/ room.status = "stopped"
Waits == Waiting => Attended \/ Told \/ unheard

Inv == TypeOK /\ Speaks /\ SingleWorker /\ Settled /\ Heard /\ Waits /\ DropIsTold

-----------------------------------------------------------------------------
(* A step of one thread, and of one request.                               *)

Alone(t) ==
    /\ worker' \in [Threads -> WorkerRow]
    /\ \A u \in Threads : u # t => worker'[u] = worker[u]

LEMMA GoesTo ==
    ASSUME TypeOK, NEW t \in Threads, NEW pc \in WorkerPc, Goes(t, pc)
    PROVE  /\ Alone(t) /\ worker'[t].pc = pc
           /\ worker'[t].speaker = worker[t].speaker
           /\ worker'[t].strikes = worker[t].strikes
<1>1. worker \in [Threads -> WorkerRow]
  BY DEF TypeOK, WorkerRow
<1>2. [worker[t] EXCEPT !.pc = pc] \in WorkerRow
  BY <1>1 DEF WorkerRow
<1>3. worker' = [worker EXCEPT ![t] = [worker[t] EXCEPT !.pc = pc]]
  BY DEF Goes
<1> QED
  BY <1>1, <1>2, <1>3 DEF Alone, WorkerRow

LEMMA CleanCount == Clean \in [Managed -> 0..Limit]
  BY RunnerAssumption DEF Clean

LEMMA DeadRow ==
    ASSUME NEW pc \in WorkerPc, NEW count \in [Managed -> 0..Limit]
    PROVE  /\ [Dead EXCEPT !.pc = pc, !.strikes = count] \in WorkerRow
           /\ [Dead EXCEPT !.pc = pc] \in WorkerRow /\ Dead \in WorkerRow
           /\ Clean \in [Managed -> 0..Limit]
<1>1. Clean \in [Managed -> 0..Limit]
  BY RunnerAssumption DEF Clean
<1>2. "ok" \in Failures \cup {"ok", "cancelled"} /\ "dead" \in WorkerPc
  BY DEF WorkerPc
<1> QED
  BY <1>1, <1>2 DEF Dead, WorkerRow

LEMMA ReportRow == [Dead EXCEPT !.pc = "report"] \in WorkerRow /\ Dead \in WorkerRow
<1>1. "report" \in WorkerPc
  BY DEF WorkerPc
<1> QED
  BY <1>1, DeadRow, CleanCount

LEMMA LoopsTo ==
    ASSUME TypeOK, NEW t \in Threads, NEW count \in [Managed -> 0..Limit], Loops(t, count)
    PROVE  Alone(t) /\ worker'[t].pc = "check" /\ worker'[t].strikes = count
<1> DEFINE row == [Dead EXCEPT !.pc = "check", !.strikes = count]
<1>1. row \in WorkerRow /\ row.pc = "check" /\ row.strikes = count
  BY DeadRow DEF WorkerPc, Dead
<1>2. worker' = [worker EXCEPT ![t] = row] /\ worker \in [Threads -> WorkerRow]
  BY DEF Loops, TypeOK, WorkerRow
<1> HIDE DEF row
<1> QED
  BY <1>1, <1>2 DEF Alone

LEMMA CompletesTo ==
    ASSUME TypeOK, NEW t \in Threads, NEW count \in [Managed -> 0..Limit],
           worker' = [worker EXCEPT ![t] = [Dead EXCEPT !.pc = "complete", !.strikes = count]]
    PROVE  Alone(t) /\ worker'[t].pc = "complete" /\ worker'[t].strikes = count
<1> DEFINE row == [Dead EXCEPT !.pc = "complete", !.strikes = count]
<1>1. row \in WorkerRow /\ row.pc = "complete" /\ row.strikes = count
  BY DeadRow DEF WorkerPc, Dead
<1>2. worker' = [worker EXCEPT ![t] = row] /\ worker \in [Threads -> WorkerRow]
  BY DEF TypeOK, WorkerRow
<1> HIDE DEF row
<1> QED
  BY <1>1, <1>2 DEF Alone

CallStep(c) ==
    /\ call' \in [Calls -> CallRow]
    /\ \A d \in Calls : d # c => call'[d] = call[d]

LEMMA CallMoves ==
    ASSUME TypeOK, NEW c \in Calls, NEW pc \in CallPc, CallAt(c, pc)
    PROVE  CallStep(c) /\ call'[c].pc = pc
<1>1. call \in [Calls -> CallRow]
  BY DEF TypeOK, CallRow
<1>2. [call[c] EXCEPT !.pc = pc] \in CallRow /\ [call[c] EXCEPT !.pc = pc].pc = pc
  BY <1>1 DEF CallRow
<1>3. call' = [call EXCEPT ![c] = [call[c] EXCEPT !.pc = pc]]
  BY DEF CallAt
<1> QED
  BY <1>1, <1>2, <1>3 DEF CallStep

LEMMA CallStops ==
    ASSUME TypeOK, NEW c \in Calls, CallEnds(c)
    PROVE  CallStep(c) /\ call'[c].pc = "idle"
<1>1. IdleCall \in CallRow /\ IdleCall.pc = "idle"
  BY DEF IdleCall, CallRow, CallPc
<1>2. call \in [Calls -> CallRow] /\ call' = [call EXCEPT ![c] = IdleCall]
  BY DEF TypeOK, CallRow, CallEnds
<1> QED
  BY <1>1, <1>2 DEF CallStep

LEMMA OneAlive ==
    ASSUME Inv, NEW t \in Threads, worker[t].pc # "dead"
    PROVE  \A u \in Threads : u # t => worker[u].pc = "dead"
BY DEF Inv, SingleWorker, Live

\* A worker that stays at work: somebody attends to the room, unless it was
\* told to end.
LEMMA AtWork ==
    ASSUME Inv, NEW t \in Threads, Alone(t), worker[t].pc # "dead",
           worker'[t].pc \notin {"dead", "report", "ending"},
           UNCHANGED <<cancel, call, unheard>>,
           room.status = "stopped" => room'.status = "stopped",
           session' \in {session, "finished"}
    PROVE  SingleWorker' /\ Settled' /\ Heard' /\ Waits'
<1>1. \A u \in Threads : u # t => worker'[u].pc = "dead"
  BY OneAlive DEF Alone
<1>2. SingleWorker'
  BY <1>1 DEF SingleWorker, Live
<1>3. Settled'
  BY DEF Inv, Settled
<1>4. Heard'
  BY DEF Inv, Heard, Busy
<1>5. Waits'
  <2>1. CASE cancel = "set"
    BY <1>4, <2>1 DEF Heard, Waits, Waiting, Attended, Busy
  <2>2. CASE cancel # "set"
    <3>1. t \in Attentive'
      BY <2>2 DEF Attentive, Live
    <3> QED
      BY <3>1 DEF Waits, Attended
  <2> QED
    BY <2>1, <2>2
<1> QED
  BY <1>2, <1>3, <1>4, <1>5

\* A worker that ends attends to nothing.
LEMMA AtItsEnd ==
    ASSUME Inv, NEW t \in Threads, Alone(t), worker[t].pc # "dead",
           UNCHANGED <<session, room, call, unheard>>, cancel' \in {cancel, "none"},
           \/ worker[t].pc \in {"report", "ending"} /\ told' = told
           \/ cancel = "set" \/ ~Waiting \/ Told'
    PROVE  SingleWorker' /\ Settled' /\ Heard' /\ Waits'
<1>1. \A u \in Threads : u # t => worker'[u].pc = "dead" /\ worker[u].pc = "dead"
  BY OneAlive DEF Alone
<1>2. SingleWorker'
  BY <1>1 DEF SingleWorker, Live
<1>3. Settled'
  BY DEF Inv, Settled
<1>4. Heard'
  BY DEF Inv, Heard, Busy
<1>5. Waits'
  <2>1. Busy' = Busy /\ Waiting' = Waiting
    BY DEF Busy, Waiting
  <2>2. CASE cancel = "set"
    BY <2>1, <2>2 DEF Inv, Heard, Waits, Waiting, Attended, Busy
  <2>3. CASE worker[t].pc \in {"report", "ending"} /\ told' = told
    <3>1. Attentive = {}
      BY <1>1, <2>3 DEF Attentive, Live
    <3> QED
      BY <2>1, <2>3, <3>1 DEF Inv, Waits, Attended, Busy, Told
  <2>4. CASE ~Waiting \/ Told'
    BY <2>1, <2>4 DEF Waits
  <2> QED
    BY <2>2, <2>3, <2>4
<1> QED
  BY <1>2, <1>3, <1>4, <1>5

\* A conductor is built.
LEMMA DriveKeeps == ASSUME Inv, NEW t \in Threads, Drive(t) PROVE Inv'
<1>1. worker[t].pc = "drive"
      /\ UNCHANGED <<session, room, cancel, restarting, strikes, replaced, dropped, told,
                     call, asked, elsewhere, crashes, lost, burnt, unheard>>
  BY DEF Drive, durable, counts
<1>2. Alone(t) /\ worker'[t].pc = "check"
  BY LoopsTo DEF Drive, Inv, TypeOK
<1>3. TypeOK'
  BY <1>1, <1>2 DEF Inv, TypeOK, Alone, WorkerRow, RoomRow
<1>4. Speaks'
  BY <1>1, <1>2 DEF Inv, Speaks, Alone
<1>5. SingleWorker' /\ Settled' /\ Heard' /\ Waits'
  BY <1>1, <1>2, AtWork
<1>6. DropIsTold'
  BY <1>1, <1>2 DEF Inv, DropIsTold, Live, Alone
<1> QED
  BY <1>3, <1>4, <1>5, <1>6 DEF Inv

\* The loop looks at the room.
LEMMA CheckKeeps == ASSUME Inv, NEW t \in Threads, Check(t) PROVE Inv'
<1>1. worker[t].pc = "check"
      /\ UNCHANGED <<session, room, cancel, restarting, strikes, replaced, dropped, told,
                     call, asked, elsewhere, crashes, lost, burnt, unheard>>
  BY DEF Check, durable, counts
<1>2. worker \in [Threads -> WorkerRow]
  BY DEF Inv, TypeOK, WorkerRow
<1>3. CASE /\ \/ cancel = "set" \/ room.status # "active" \/ room.awaiting
              \/ room.floor = "none" \/ (room.floor = "outside" /\ ~Mixed)
           /\ worker' = [worker EXCEPT ![t] = [Dead EXCEPT !.pc = "report"]]
  <2>1. [Dead EXCEPT !.pc = "report"] \in WorkerRow
    BY DeadRow DEF WorkerPc, Inv, TypeOK
  <2>2. Alone(t) /\ worker'[t].pc = "report"
    BY <1>2, <1>3, <2>1 DEF Alone, Dead
  <2>3. cancel = "set" \/ ~Waiting
    BY <1>3, RunnerAssumption DEF Waiting
  <2>4. TypeOK'
    BY <1>1, <2>2, <2>3 DEF Inv, TypeOK, Alone, WorkerRow, RoomRow
  <2>5. Speaks'
    BY <1>1, <2>2, <2>3 DEF Inv, Speaks, Alone
  <2>6. SingleWorker' /\ Settled' /\ Heard' /\ Waits'
    BY <1>1, <2>2, <2>3, AtItsEnd
  <2>7. DropIsTold'
    BY <1>1, <2>2, <2>3 DEF Inv, DropIsTold, Live, Alone
  <2> QED
    BY <2>4, <2>5, <2>6, <2>7 DEF Inv
<1>4. CASE room.floor = "outside" /\ Goes(t, "poll")
  <2>1. Alone(t) /\ worker'[t].pc = "poll" /\ worker'[t].speaker = worker[t].speaker
    BY <1>4, GoesTo DEF Inv, WorkerPc
  <2>2. TypeOK'
    BY <1>1, <2>1 DEF Inv, TypeOK, Alone, WorkerRow, RoomRow
  <2>3. Speaks'
    BY <1>1, <2>1 DEF Inv, Speaks, Alone
  <2>4. SingleWorker' /\ Settled' /\ Heard' /\ Waits'
    BY <1>1, <2>1, AtWork
  <2>5. DropIsTold'
    BY <1>1, <2>1 DEF Inv, DropIsTold, Live, Alone
  <2> QED
    BY <2>2, <2>3, <2>4, <2>5 DEF Inv
<1>5. CASE /\ room.floor \in Managed
           /\ worker' = [worker EXCEPT ![t].pc = "turn", ![t].speaker = room.floor]
  <2>1. [worker[t] EXCEPT !.pc = "turn", !.speaker = room.floor] \in WorkerRow
    BY <1>2, <1>5 DEF WorkerRow, WorkerPc
  <2>2. Alone(t) /\ worker'[t].pc = "turn" /\ worker'[t].speaker \in Managed
    BY <1>2, <1>5, <2>1 DEF Alone, WorkerRow
  <2>3. TypeOK'
    BY <1>1, <2>2 DEF Inv, TypeOK, Alone, WorkerRow, RoomRow
  <2>4. Speaks'
    BY <1>1, <2>2 DEF Inv, Speaks, Alone
  <2>5. SingleWorker' /\ Settled' /\ Heard' /\ Waits'
    BY <1>1, <2>2, AtWork
  <2>6. DropIsTold'
    BY <1>1, <2>2 DEF Inv, DropIsTold, Live, Alone
  <2> QED
    BY <2>3, <2>4, <2>5, <2>6 DEF Inv
<1> QED
  BY <1>3, <1>4, <1>5 DEF Check

\* A mixed team's worker waits.
LEMMA PollKeeps == ASSUME Inv, NEW t \in Threads, Poll(t) PROVE Inv'
<1>1. worker[t].pc = "poll"
      /\ UNCHANGED <<session, room, cancel, restarting, strikes, replaced, dropped, told,
                     call, asked, elsewhere, crashes, lost, burnt, unheard>>
  BY DEF Poll, durable, counts
<1>2. CASE (cancel = "set" \/ session # "active") /\ Goes(t, "report")
  <2>1. Alone(t) /\ worker'[t].pc = "report" /\ worker'[t].speaker = worker[t].speaker
    BY <1>2, GoesTo DEF Inv, WorkerPc
  <2>2. cancel = "set" \/ ~Waiting
    BY <1>2 DEF Waiting
  <2>3. TypeOK'
    BY <1>1, <2>1, <2>2 DEF Inv, TypeOK, Alone, WorkerRow, RoomRow
  <2>4. Speaks'
    BY <1>1, <2>1, <2>2 DEF Inv, Speaks, Alone
  <2>5. SingleWorker' /\ Settled' /\ Heard' /\ Waits'
    BY <1>1, <2>1, <2>2, AtItsEnd
  <2>6. DropIsTold'
    BY <1>1, <2>1, <2>2 DEF Inv, DropIsTold, Live, Alone
  <2> QED
    BY <2>3, <2>4, <2>5, <2>6 DEF Inv
<1>3. CASE Goes(t, "drive")
  <2>1. Alone(t) /\ worker'[t].pc = "drive" /\ worker'[t].speaker = worker[t].speaker
    BY <1>3, GoesTo DEF Inv, WorkerPc
  <2>2. TypeOK'
    BY <1>1, <2>1 DEF Inv, TypeOK, Alone, WorkerRow, RoomRow
  <2>3. Speaks'
    BY <1>1, <2>1 DEF Inv, Speaks, Alone
  <2>4. SingleWorker' /\ Settled' /\ Heard' /\ Waits'
    BY <1>1, <2>1, AtWork
  <2>5. DropIsTold'
    BY <1>1, <2>1 DEF Inv, DropIsTold, Live, Alone
  <2> QED
    BY <2>2, <2>3, <2>4, <2>5 DEF Inv
<1> QED
  BY <1>2, <1>3 DEF Poll

\* An agent is invoked, if it still has the floor.
LEMMA TakeTurnKeeps == ASSUME Inv, NEW t \in Threads, TakeTurn(t) PROVE Inv'
<1>1. worker[t].pc = "turn"
      /\ UNCHANGED <<session, room, cancel, restarting, strikes, replaced, told, call,
                     asked, elsewhere, crashes, lost, burnt, unheard>>
  BY DEF TakeTurn, durable, counts
<1>2. CASE Goes(t, "invoke") /\ dropped' = dropped \ {worker[t].speaker}
  <2>1. Alone(t) /\ worker'[t].pc = "invoke" /\ worker'[t].speaker = worker[t].speaker
    BY <1>2, GoesTo DEF Inv, WorkerPc
  <2>2. TypeOK'
    BY <1>1, <1>2, <2>1 DEF Inv, TypeOK, Alone, WorkerRow, RoomRow
  <2>3. Speaks'
    BY <1>1, <1>2, <2>1 DEF Inv, Speaks, Alone
  <2>4. SingleWorker' /\ Settled' /\ Heard' /\ Waits'
    BY <1>1, <1>2, <2>1, AtWork
  <2>5. DropIsTold'
    BY <1>1, <1>2, <2>1 DEF Inv, DropIsTold, Live, Alone
  <2> QED
    BY <2>2, <2>3, <2>4, <2>5 DEF Inv
<1>3. CASE Loops(t, worker[t].strikes) /\ UNCHANGED dropped
  <2>1. Alone(t) /\ worker'[t].pc = "check"
    BY <1>3, LoopsTo DEF Inv, TypeOK
  <2>2. TypeOK'
    BY <1>1, <1>3, <2>1 DEF Inv, TypeOK, Alone, WorkerRow, RoomRow
  <2>3. Speaks'
    BY <1>1, <1>3, <2>1 DEF Inv, Speaks, Alone
  <2>4. SingleWorker' /\ Settled' /\ Heard' /\ Waits'
    BY <1>1, <1>3, <2>1, AtWork
  <2>5. DropIsTold'
    BY <1>1, <1>3, <2>1 DEF Inv, DropIsTold, Live, Alone
  <2> QED
    BY <2>2, <2>3, <2>4, <2>5 DEF Inv
<1> QED
  BY <1>2, <1>3 DEF TakeTurn

\* Its process ended.
LEMMA ReturnKeeps == ASSUME Inv, NEW t \in Threads, Return(t) PROVE Inv'
<1>1. worker[t].pc = "invoke"
      /\ UNCHANGED <<session, room, cancel, restarting, replaced, dropped, told, call,
                     asked, elsewhere, crashes, lost, unheard>>
  BY DEF Return, durable, counts
<1>2. PICK result \in Failures \cup {"ok", "cancelled"} :
        /\ worker' = [worker EXCEPT ![t].pc = "post", ![t].result = result]
        /\ strikes' = CASE result = "ok" -> [strikes EXCEPT ![worker[t].speaker] = 0]
                        [] result \in Failures ->
                             [strikes EXCEPT ![worker[t].speaker] = AddStrike(@)]
                        [] OTHER -> strikes
        /\ burnt' = IF result = "ok" THEN [burnt EXCEPT ![worker[t].speaker] = 0] ELSE burnt
  BY DEF Return
<1>3. worker \in [Threads -> WorkerRow] /\ strikes \in [Managed -> 0..Limit]
      /\ worker[t].speaker \in Managed
  BY <1>1 DEF Inv, TypeOK, WorkerRow, Speaks
<1>4. [worker[t] EXCEPT !.pc = "post", !.result = result] \in WorkerRow
  BY <1>3 DEF WorkerRow, WorkerPc
<1>5. Alone(t) /\ worker'[t].pc = "post" /\ worker'[t].speaker \in Managed
  BY <1>2, <1>3, <1>4 DEF Alone, WorkerRow
<1>6. strikes' \in [Managed -> 0..Limit]
  <2>1. 0 \in 0..Limit /\ AddStrike(strikes[worker[t].speaker]) \in 0..Limit
    BY <1>3, RunnerAssumption DEF AddStrike
  <2>2. strikes' \in {[strikes EXCEPT ![worker[t].speaker] = 0], strikes,
                      [strikes EXCEPT ![worker[t].speaker] = AddStrike(@)]}
    BY <1>2
  <2> QED
    BY <1>3, <2>1, <2>2
<1>7. burnt' \in [Managed -> Nat]
  <2>1. burnt \in [Managed -> Nat]
    BY DEF Inv, TypeOK
  <2> QED
    BY <1>2, <2>1
<1>8. TypeOK'
  BY <1>1, <1>5, <1>6, <1>7 DEF Inv, TypeOK, Alone, WorkerRow, RoomRow
<1>9. Speaks'
  BY <1>1, <1>5, <1>6, <1>7 DEF Inv, Speaks, Alone
<1>10. SingleWorker' /\ Settled' /\ Heard' /\ Waits'
  BY <1>1, <1>5, <1>6, <1>7, AtWork
<1>11. DropIsTold'
  BY <1>1, <1>5, <1>6, <1>7 DEF Inv, DropIsTold, Live, Alone
<1> QED
  BY <1>8, <1>9, <1>10, <1>11 DEF Inv

\* Nothing is posted.
LEMMA PostRefusedKeeps == ASSUME Inv, NEW t \in Threads, PostRefused(t) PROVE Inv'
<1>1. worker[t].pc = "post"
      /\ UNCHANGED <<session, room, cancel, restarting, strikes, replaced, dropped, told,
                     call, asked, elsewhere, crashes, lost, burnt, unheard>>
  BY DEF PostRefused, durable, counts
<1>2. Alone(t) /\ worker'[t].pc = "check"
  BY LoopsTo DEF PostRefused, Inv, TypeOK
<1>3. TypeOK'
  BY <1>1, <1>2 DEF Inv, TypeOK, Alone, WorkerRow, RoomRow
<1>4. Speaks'
  BY <1>1, <1>2 DEF Inv, Speaks, Alone
<1>5. SingleWorker' /\ Settled' /\ Heard' /\ Waits'
  BY <1>1, <1>2, AtWork
<1>6. DropIsTold'
  BY <1>1, <1>2 DEF Inv, DropIsTold, Live, Alone
<1> QED
  BY <1>3, <1>4, <1>5, <1>6 DEF Inv

\* What the steps of Floor keep: the types, and the end of the room.
LEMMA FloorMoves ==
    ASSUME TypeOK, F!Next
    PROVE  room' \in RoomRow /\ room.status # "stopped"
<1>1. room \in RoomRow
  BY DEF TypeOK, RoomRow
<1>2. ASSUME NEW status \in {"active", "paused", "stopped"}, NEW awaiting \in BOOLEAN,
             NEW kept \in F!Floors, F!Becomes(status, awaiting, kept)
      PROVE  room' \in RoomRow
  BY <1>2 DEF F!Becomes, F!Floors, RoomRow
<1>3. "none" \in F!Floors
  BY DEF F!Floors
<1>4. ASSUME NEW p \in F!Speakers, F!Speaks(p)
      PROVE  room' \in RoomRow /\ room.status # "stopped"
  BY <1>2, <1>3, <1>4 DEF F!Speaks
<1>5. ASSUME NEW p \in F!Speakers, F!Redirect(p)
      PROVE  room' \in RoomRow /\ room.status # "stopped"
  BY <1>1, <1>5 DEF F!Redirect, F!Live, F!Floors, RoomRow
<1>6. CASE F!Comment \/ F!Leave \/ F!Queue \/ F!Resume
  BY <1>1, <1>2, <1>3, <1>6 DEF F!Comment, F!Leave, F!Queue, F!Resume, F!Live, RoomRow
<1>7. CASE F!Pause \/ F!NewLimit
  BY <1>1, <1>7 DEF F!Pause, F!NewLimit, F!Live, RoomRow
<1>8. CASE F!Stop
  BY <1>1, <1>8 DEF F!Stop, F!Live, F!Floors, RoomRow
<1> QED
  BY <1>4, <1>5, <1>6, <1>7, <1>8 DEF F!Next, F!Human

LEMMA SpeaksMoves ==
    ASSUME NEW p \in Managed, F!Speaks(p)
    PROVE  F!Next
BY DEF F!Next, F!Speakers

LEMMA RedirectMoves ==
    ASSUME NEW p \in F!Speakers, F!Redirect(p)
    PROVE  F!Next
BY DEF F!Next, F!Human

LEMMA StopsRoomMoves ==
    ASSUME TypeOK, StopsRoom
    PROVE  room' \in RoomRow /\ room'.status = "stopped" /\ [F!Next]_room
<1>1. CASE F!Stop
  <2>1. F!Next
    BY <1>1 DEF F!Next, F!Human
  <2> QED
    BY <1>1, <2>1, FloorMoves DEF F!Stop
<1>2. CASE room.status = "stopped" /\ UNCHANGED room
  BY <1>2 DEF TypeOK, RoomRow
<1> QED
  BY <1>1, <1>2 DEF StopsRoom

\* An answer is posted.
LEMMA PostAnswerKeeps == ASSUME Inv, NEW t \in Threads, PostAnswer(t) PROVE Inv'
<1>1. worker[t].pc = "post"
      /\ UNCHANGED <<session, cancel, restarting, strikes, replaced, dropped, told, call, asked,
                     elsewhere, crashes, lost, burnt, unheard>>
  BY DEF PostAnswer, durable, counts
<1> DEFINE count == [worker[t].strikes EXCEPT ![worker[t].speaker] = 0]
<1>2. count \in [Managed -> 0..Limit]
  <2>1. worker[t].strikes \in [Managed -> 0..Limit]
    BY DEF Inv, TypeOK
  <2>2. 0 \in 0..Limit
    BY RunnerAssumption
  <2> QED
    BY <2>1, <2>2
<1>3. Loops(t, count)
      \/ worker' = [worker EXCEPT ![t] = [Dead EXCEPT !.pc = "complete", !.strikes = count]]
  BY DEF PostAnswer
<1> HIDE DEF count
<1>4. Alone(t) /\ worker'[t].pc \in {"check", "complete"}
  BY <1>2, <1>3, LoopsTo, CompletesTo DEF Inv
<1>5. room' \in RoomRow /\ room.status # "stopped"
  BY <1>1, SpeaksMoves, FloorMoves DEF PostAnswer, Inv, Speaks
<1>6. TypeOK'
  BY <1>1, <1>4, <1>5 DEF Inv, TypeOK, Alone, WorkerRow, RoomRow
<1>7. Speaks'
  BY <1>1, <1>4 DEF Inv, Speaks, Alone
<1>8. SingleWorker' /\ Settled' /\ Heard' /\ Waits'
  BY <1>1, <1>4, <1>5, AtWork
<1>9. DropIsTold'
  BY <1>1, <1>4 DEF Inv, DropIsTold, Live, Alone
<1> QED
  BY <1>6, <1>7, <1>8, <1>9 DEF Inv

\* The session ends with the answer, or goes on.
LEMMA CompleteKeeps == ASSUME Inv, NEW t \in Threads, Complete(t) PROVE Inv'
<1>1. worker[t].pc = "complete"
      /\ UNCHANGED <<cancel, restarting, strikes, replaced, dropped, told, call, asked,
                     elsewhere, crashes, lost, burnt, unheard>>
  BY DEF Complete, durable, counts
<1>2. Alone(t) /\ worker'[t].pc = "check"
  BY LoopsTo DEF Complete, Inv, TypeOK
<1>3. /\ room' \in RoomRow /\ session' \in {session, "finished"}
      /\ room.status = "stopped" => room'.status = "stopped"
  <2>1. CASE session' = "finished" /\ StopsRoom
    BY <2>1, StopsRoomMoves DEF Inv
  <2>2. CASE UNCHANGED <<session, room>>
    BY <2>2 DEF Inv, TypeOK, RoomRow
  <2> QED
    BY <2>1, <2>2 DEF Complete
<1>4. TypeOK'
  BY <1>1, <1>2, <1>3 DEF Inv, TypeOK, Alone, WorkerRow, RoomRow
<1>5. Speaks'
  BY <1>1, <1>2 DEF Inv, Speaks, Alone
<1>6. SingleWorker' /\ Settled' /\ Heard' /\ Waits'
  BY <1>1, <1>2, <1>3, AtWork
<1>7. DropIsTold'
  BY <1>1, <1>2 DEF Inv, DropIsTold, Live, Alone
<1> QED
  BY <1>4, <1>5, <1>6, <1>7 DEF Inv

\* A failure is posted, and counted.
LEMMA PostFailureKeeps == ASSUME Inv, NEW t \in Threads, PostFailure(t) PROVE Inv'
<1>1. worker[t].pc = "post"
      /\ UNCHANGED <<session, cancel, restarting, strikes, replaced, dropped, told, call,
                     asked, elsewhere, crashes, lost, unheard>>
  BY DEF PostFailure, durable, counts
<1>2. room.status # "stopped" /\ room' \in RoomRow
  BY <1>1, SpeaksMoves, FloorMoves DEF PostFailure, Inv, Speaks
<1> DEFINE p == worker[t].speaker
           count == AddStrike(worker[t].strikes[p])
<1>3. p \in Managed /\ worker[t].strikes \in [Managed -> 0..Limit]
  BY <1>1 DEF Inv, Speaks, TypeOK
<1>4. burnt' \in [Managed -> Nat]
  BY <1>3 DEF PostFailure, Inv, TypeOK
<1>5. count \in 0..Limit
  BY <1>3, RunnerAssumption DEF AddStrike
<1>6. [worker[t].strikes EXCEPT ![p] = count] \in [Managed -> 0..Limit]
  BY <1>3, <1>5
<1>7. Goes(t, "trip") \/ Loops(t, [worker[t].strikes EXCEPT ![p] = count])
  BY DEF PostFailure
<1> HIDE DEF count
<1>8. /\ Alone(t) /\ worker'[t].pc \in {"check", "trip"}
      /\ worker'[t].pc = "trip" => worker'[t].speaker = p
  BY <1>6, <1>7, GoesTo, LoopsTo DEF Inv, WorkerPc
<1>9. TypeOK'
  BY <1>1, <1>2, <1>3, <1>4, <1>8 DEF Inv, TypeOK, Alone, WorkerRow, RoomRow
<1>10. Speaks'
  BY <1>1, <1>2, <1>3, <1>4, <1>8 DEF Inv, Speaks, Alone
<1>11. SingleWorker' /\ Settled' /\ Heard' /\ Waits'
  BY <1>1, <1>2, <1>3, <1>4, <1>8, AtWork
<1>12. DropIsTold'
  BY <1>1, <1>2, <1>3, <1>4, <1>8 DEF Inv, DropIsTold, Live, Alone
<1> QED
  BY <1>9, <1>10, <1>11, <1>12 DEF Inv

\* One replacement.
LEMMA ReplaceKeeps == ASSUME Inv, NEW t \in Threads, Replace(t) PROVE Inv'
<1>1. worker[t].pc = "trip"
      /\ UNCHANGED <<session, room, cancel, restarting, dropped, told, call, asked,
                     elsewhere, crashes, lost, burnt, unheard>>
  BY DEF Replace, durable, counts
<1>2. Alone(t) /\ worker'[t].pc = "revive" /\ worker'[t].speaker = worker[t].speaker
  BY GoesTo DEF Replace, Inv, WorkerPc
<1>3. worker[t].speaker \in Managed
  BY <1>1 DEF Inv, Speaks
<1>4. strikes' \in [Managed -> 0..Limit] /\ replaced' \subseteq Managed
  BY <1>3, RunnerAssumption DEF Replace, Inv, TypeOK
<1>5. TypeOK'
  BY <1>1, <1>2, <1>3, <1>4 DEF Inv, TypeOK, Alone, WorkerRow, RoomRow
<1>6. Speaks'
  BY <1>1, <1>2, <1>3, <1>4 DEF Inv, Speaks, Alone
<1>7. SingleWorker' /\ Settled' /\ Heard' /\ Waits'
  BY <1>1, <1>2, <1>3, <1>4, AtWork
<1>8. DropIsTold'
  BY <1>1, <1>2, <1>3, <1>4 DEF Inv, DropIsTold, Live, Alone
<1> QED
  BY <1>5, <1>6, <1>7, <1>8 DEF Inv

\* Its task wakes the room.
LEMMA ReviveKeeps == ASSUME Inv, NEW t \in Threads, Revive(t) PROVE Inv'
<1>1. worker[t].pc = "revive"
      /\ UNCHANGED <<session, cancel, restarting, replaced, told, call, asked, elsewhere,
                     crashes, lost, burnt, unheard>>
  BY DEF Revive, durable, counts
<1>2. Alone(t) /\ worker'[t].pc = "drive" /\ worker'[t].speaker = worker[t].speaker
  BY GoesTo DEF Revive, Inv, WorkerPc
<1>3. worker[t].speaker \in Managed
  BY <1>1 DEF Inv, Speaks
<1>4. strikes' \in [Managed -> 0..Limit] /\ dropped' \subseteq dropped
  <2>1. 0 \in 0..Limit
    BY RunnerAssumption
  <2>2. strikes' = [strikes EXCEPT ![worker[t].speaker] = 0]
        /\ dropped' = dropped \ {worker[t].speaker}
    BY DEF Revive
  <2> QED
    BY <2>1, <2>2 DEF Inv, TypeOK
<1>5. (room.status = "stopped" => room'.status = "stopped") /\ room' \in RoomRow
  <2>1. CASE room' = room
    BY <2>1 DEF Inv, TypeOK, RoomRow
  <2>2. CASE F!Redirect(worker[t].speaker)
    BY <1>3, <2>2, RedirectMoves, FloorMoves DEF Inv, F!Speakers
  <2> QED
    BY <2>1, <2>2 DEF Revive
<1>6. TypeOK'
  BY <1>1, <1>2, <1>3, <1>4, <1>5 DEF Inv, TypeOK, Alone, WorkerRow, RoomRow
<1>7. Speaks'
  BY <1>1, <1>2, <1>3, <1>4, <1>5 DEF Inv, Speaks, Alone
<1>8. SingleWorker' /\ Settled' /\ Heard' /\ Waits'
  BY <1>1, <1>2, <1>3, <1>4, <1>5, AtWork
<1>9. DropIsTold'
  BY <1>1, <1>2, <1>3, <1>4, <1>5 DEF Inv, DropIsTold, Live, Alone
<1> QED
  BY <1>6, <1>7, <1>8, <1>9 DEF Inv

\* The human decides: the agent is dropped ...
LEMMA GiveUpKeeps == ASSUME Inv, NEW t \in Threads, GiveUp(t) PROVE Inv'
<1>1. worker[t].pc = "trip"
      /\ UNCHANGED <<session, room, cancel, restarting, strikes, replaced, told, call,
                     asked, elsewhere, crashes, lost, burnt, unheard>>
  BY DEF GiveUp, durable, counts
<1>2. Alone(t) /\ worker'[t].pc = "escalate" /\ worker'[t].speaker = worker[t].speaker
  BY GoesTo DEF GiveUp, Inv, WorkerPc
<1>3. worker[t].speaker \in Managed
  BY <1>1 DEF Inv, Speaks
<1>4. dropped' \subseteq dropped \cup {worker[t].speaker}
  BY DEF GiveUp
<1>5. TypeOK'
  BY <1>1, <1>2, <1>3, <1>4 DEF Inv, TypeOK, Alone, WorkerRow, RoomRow
<1>6. Speaks'
  BY <1>1, <1>2, <1>3, <1>4 DEF Inv, Speaks, Alone
<1>7. SingleWorker' /\ Settled' /\ Heard' /\ Waits'
  BY <1>1, <1>2, <1>3, <1>4, AtWork
<1>8. DropIsTold'
  BY <1>1, <1>2, <1>3, <1>4 DEF Inv, DropIsTold, Live, Alone
<1> QED
  BY <1>5, <1>6, <1>7, <1>8 DEF Inv

\* ... and the human is told.
LEMMA EscalateKeeps == ASSUME Inv, NEW t \in Threads, Escalate(t) PROVE Inv'
<1>1. worker[t].pc = "escalate"
      /\ UNCHANGED <<session, room, cancel, restarting, strikes, replaced, dropped, call,
                     asked, elsewhere, crashes, lost, burnt, unheard>>
  BY DEF Escalate, durable, counts
<1>2. told' = [told EXCEPT ![worker[t].speaker] = "open"] /\ worker[t].speaker \in Managed
      /\ told \in [Managed -> {"no", "open", "closed"}] /\ worker \in [Threads -> WorkerRow]
  BY <1>1 DEF Escalate, Inv, Speaks, TypeOK, WorkerRow
<1>3. [Dead EXCEPT !.pc = "report"] \in WorkerRow
  BY DeadRow DEF WorkerPc, Inv, TypeOK
<1>4. Alone(t) /\ worker'[t].pc = "report"
  BY <1>2, <1>3 DEF Escalate, Alone, Dead
<1>5. Told'
  BY <1>2 DEF Told
<1>6. TypeOK'
  BY <1>1, <1>2, <1>4, <1>5 DEF Inv, TypeOK, Alone, WorkerRow, RoomRow
<1>7. Speaks'
  BY <1>1, <1>2, <1>4, <1>5 DEF Inv, Speaks, Alone
<1>8. SingleWorker' /\ Settled' /\ Heard' /\ Waits'
  BY <1>1, <1>2, <1>4, <1>5, AtItsEnd
<1>9. DropIsTold'
  BY <1>1, <1>2, <1>4, <1>5 DEF Inv, DropIsTold, Live, Alone
<1> QED
  BY <1>6, <1>7, <1>8, <1>9 DEF Inv

\* It shows why it stopped.
LEMMA ReportKeeps == ASSUME Inv, NEW t \in Threads, Report(t) PROVE Inv'
<1>1. worker[t].pc = "report"
      /\ UNCHANGED <<session, room, restarting, strikes, replaced, dropped, told, call,
                     asked, elsewhere, crashes, lost, burnt, unheard>>
  BY DEF Report, durable, counts
<1>2. Alone(t) /\ worker'[t].pc = "ending" /\ worker'[t].speaker = worker[t].speaker
      /\ cancel' = "none"
  BY GoesTo DEF Report, Inv, WorkerPc
<1>3. TypeOK'
  BY <1>1, <1>2 DEF Inv, TypeOK, Alone, WorkerRow, RoomRow
<1>4. Speaks'
  BY <1>1, <1>2 DEF Inv, Speaks, Alone
<1>5. SingleWorker' /\ Settled' /\ Heard' /\ Waits'
  BY <1>1, <1>2, AtItsEnd
<1>6. DropIsTold'
  BY <1>1, <1>2 DEF Inv, DropIsTold, Live, Alone
<1> QED
  BY <1>3, <1>4, <1>5, <1>6 DEF Inv

\* Its thread ends.
LEMMA EndKeeps == ASSUME Inv, NEW t \in Threads, End(t) PROVE Inv'
<1>1. worker[t].pc = "ending"
      /\ UNCHANGED <<session, room, cancel, restarting, strikes, replaced, dropped, told,
                     call, asked, elsewhere, crashes, lost, burnt, unheard>>
  BY DEF End, durable, counts
<1>2. Alone(t) /\ worker'[t].pc = "dead"
  <2>1. Dead \in WorkerRow /\ Dead.pc = "dead" /\ worker \in [Threads -> WorkerRow]
    BY DeadRow DEF Inv, TypeOK, WorkerRow, WorkerPc, Dead
  <2> QED
    BY <2>1 DEF End, Alone
<1>3. TypeOK'
  BY <1>1, <1>2 DEF Inv, TypeOK, Alone, WorkerRow, RoomRow
<1>4. Speaks'
  BY <1>1, <1>2 DEF Inv, Speaks, Alone
<1>5. SingleWorker' /\ Settled' /\ Heard' /\ Waits'
  BY <1>1, <1>2, AtItsEnd
<1>6. DropIsTold'
  BY <1>1, <1>2 DEF Inv, DropIsTold, Live, Alone
<1> QED
  BY <1>3, <1>4, <1>5, <1>6 DEF Inv

-----------------------------------------------------------------------------
(* The requests: no worker moves, unless one is spawned.                   *)

\* A request that is under way attends to the room; one that ends has left a
\* worker that does, or says that none did.
LEMMA CallKeeps ==
    ASSUME Inv, NEW c \in Calls, CallStep(c), worker' = worker,
           call'[c].pc = "cancel" => session' = "finished",
           session = "finished" => session' = "finished",
           \/ call'[c].pc # "idle"
           \/ unheard'
           \/ session' # "active" \/ room'.status = "stopped"
           \/ Attentive # {} /\ cancel' = cancel
    PROVE  Speaks' /\ SingleWorker' /\ Settled' /\ Heard' /\ Waits'
<1>1. Speaks' /\ SingleWorker'
  BY DEF Inv, Speaks, SingleWorker, Live
<1>2. Settled'
  BY DEF Inv, Settled, CallStep
<1>3. CASE Attentive # {} /\ cancel' = cancel
  <2>1. Attentive' # {} /\ cancel' # "set"
    BY <1>3 DEF Attentive, Live
  <2> QED
    BY <1>1, <1>2, <2>1 DEF Heard, Waits, Attended
<1>4. CASE call'[c].pc # "idle" \/ unheard' \/ session' # "active" \/ room'.status = "stopped"
  BY <1>1, <1>2, <1>4 DEF Heard, Waits, Busy, Attended, Waiting
<1> QED
  BY <1>3, <1>4

\* A message.
LEMMA MessageKeeps == ASSUME Inv, NEW c \in Calls, Message(c) PROVE Inv'
<1>1. UNCHANGED <<session, worker, cancel, restarting, strikes, replaced, dropped, told,
                  elsewhere, crashes, lost, unheard>>
      /\ asked' \in Nat /\ burnt' \in [Managed -> Nat]
  BY DEF Message, Asks, durable, Inv, TypeOK, Clean
<1>2. CallStep(c) /\ call'[c].pc = "wake"
  BY CallMoves DEF Message, Inv, CallPc
<1>3. room' \in RoomRow
  BY RedirectMoves, FloorMoves DEF Message, Inv
<1>4. TypeOK'
  BY <1>1, <1>2, <1>3 DEF Inv, TypeOK, CallStep, CallRow, RoomRow
<1>5. Speaks' /\ SingleWorker' /\ Settled' /\ Heard' /\ Waits'
  BY <1>1, <1>2, <1>3, CallKeeps
<1>6. DropIsTold'
  BY <1>1, <1>2, <1>3 DEF Inv, DropIsTold, Live
<1> QED
  BY <1>4, <1>5, <1>6 DEF Inv

\* Is the session active?
LEMMA WakeKeeps == ASSUME Inv, NEW c \in Calls, Wake(c) PROVE Inv'
<1>1. UNCHANGED <<session, room, worker, cancel, restarting, strikes, replaced, dropped,
                  told, asked, elsewhere, crashes, lost, burnt, unheard>>
  BY DEF Wake, durable, counts
<1>2. CASE session = "active" /\ CallAt(c, "lookup")
  <2>1. CallStep(c) /\ call'[c].pc = "lookup"
    BY <1>2, CallMoves DEF Inv, CallPc
  <2>2. TypeOK'
    BY <1>1, <2>1 DEF Inv, TypeOK, CallStep, CallRow, RoomRow
  <2>3. Speaks' /\ SingleWorker' /\ Settled' /\ Heard' /\ Waits'
    BY <1>1, <2>1, CallKeeps
  <2>4. DropIsTold'
    BY <1>1, <2>1 DEF Inv, DropIsTold, Live
  <2> QED
    BY <2>2, <2>3, <2>4 DEF Inv
<1>3. CASE session # "active" /\ CallEnds(c)
  <2>1. CallStep(c) /\ call'[c].pc = "idle"
    BY <1>3, CallStops DEF Inv
  <2>2. TypeOK'
    BY <1>1, <1>3, <2>1 DEF Inv, TypeOK, CallStep, CallRow, RoomRow
  <2>3. Speaks' /\ SingleWorker' /\ Settled' /\ Heard' /\ Waits'
    BY <1>1, <1>3, <2>1, CallKeeps
  <2>4. DropIsTold'
    BY <1>1, <1>3, <2>1 DEF Inv, DropIsTold, Live
  <2> QED
    BY <2>2, <2>3, <2>4 DEF Inv
<1> QED
  BY <1>2, <1>3 DEF Wake

\* A CLI is not ready, or the database refuses a statement of the request.
LEMMA CallGivesUp ==
    ASSUME Inv, NEW c \in Calls, NotReady(c),
           UNCHANGED <<session, room, worker, cancel, strikes, replaced, dropped, told,
                       asked, elsewhere, crashes, lost, burnt>>,
           restarting' \subseteq Managed
    PROVE  Inv'
<1>1. CallEnds(c) /\ unheard' = (unheard \/ Attentive = {})
  BY DEF NotReady
<1>2. CallStep(c) /\ call'[c].pc = "idle" /\ unheard' \in BOOLEAN
  BY <1>1, CallStops DEF Inv, TypeOK
<1>3. TypeOK'
  BY <1>2 DEF Inv, TypeOK, CallStep, CallRow, RoomRow
<1>4. Speaks' /\ SingleWorker' /\ Settled' /\ Heard' /\ Waits'
  BY <1>1, <1>2, CallKeeps
<1>5. DropIsTold'
  BY DEF Inv, DropIsTold, Live
<1> QED
  BY <1>3, <1>4, <1>5 DEF Inv

LEMMA CallRaisesKeeps == ASSUME Inv, NEW c \in Calls, CallRaises(c) PROVE Inv'
<1>1. NotReady(c) /\ restarting' \subseteq Managed
      /\ UNCHANGED <<session, room, worker, cancel, strikes, replaced, dropped, told,
                     asked, elsewhere, crashes, lost, burnt>>
  BY DEF CallRaises, NotReady, durable, counts, Inv, TypeOK
<1> QED
  BY <1>1, CallGivesUp

\* Is a worker about to end?
LEMMA LookupKeeps == ASSUME Inv, NEW c \in Calls, Lookup(c) PROVE Inv'
<1>1. UNCHANGED <<session, room, worker, cancel, restarting, strikes, replaced, dropped,
                  told, asked, elsewhere, crashes, lost, burnt>>
  BY DEF Lookup, durable, counts
<1>2. CASE /\ CallAt(c, IF Live # {} /\ cancel = "set" THEN "join" ELSE "spawn")
           /\ UNCHANGED unheard
  <2>1. CallStep(c) /\ call'[c].pc \in {"join", "spawn"}
    BY <1>2, CallMoves DEF Inv, CallPc
  <2>2. TypeOK'
    BY <1>1, <1>2, <2>1 DEF Inv, TypeOK, CallStep, CallRow, RoomRow
  <2>3. Speaks' /\ SingleWorker' /\ Settled' /\ Heard' /\ Waits'
    BY <1>1, <1>2, <2>1, CallKeeps
  <2>4. DropIsTold'
    BY <1>1, <2>1 DEF Inv, DropIsTold, Live
  <2> QED
    BY <2>2, <2>3, <2>4 DEF Inv
<1>3. CASE NotReady(c)
  BY <1>1, <1>3, CallGivesUp DEF Inv, TypeOK
<1> QED
  BY <1>2, <1>3 DEF Lookup

\* The wait for its end.
LEMMA JoinKeeps == ASSUME Inv, NEW c \in Calls, Join(c) PROVE Inv'
<1>1. UNCHANGED <<session, room, worker, cancel, restarting, strikes, replaced, dropped,
                  told, asked, elsewhere, crashes, lost, burnt, unheard>>
  BY DEF Join, durable, counts
<1>2. CallStep(c) /\ call'[c].pc = "spawn"
  BY CallMoves DEF Join, Inv, CallPc
<1>3. TypeOK'
  BY <1>1, <1>2 DEF Inv, TypeOK, CallStep, CallRow, RoomRow
<1>4. Speaks' /\ SingleWorker' /\ Settled' /\ Heard' /\ Waits'
  BY <1>1, <1>2, CallKeeps
<1>5. DropIsTold'
  BY <1>1, <1>2 DEF Inv, DropIsTold, Live
<1> QED
  BY <1>3, <1>4, <1>5 DEF Inv

\* A worker is alive: it is trusted.
LEMMA SpawnRefusedKeeps == ASSUME Inv, NEW c \in Calls, SpawnRefused(c) PROVE Inv'
<1>1. UNCHANGED <<session, room, worker, cancel, restarting, strikes, replaced, dropped,
                  told, asked, elsewhere, crashes, lost, burnt>>
  BY DEF SpawnRefused, durable, counts
<1>2. CallStep(c) /\ call'[c].pc = "idle" /\ unheard' = (unheard \/ Attentive = {})
  BY CallStops DEF SpawnRefused, Inv
<1>3. unheard' \in BOOLEAN
  BY <1>2 DEF Inv, TypeOK
<1>4. TypeOK'
  BY <1>1, <1>2, <1>3 DEF Inv, TypeOK, CallStep, CallRow, RoomRow
<1>5. Speaks' /\ SingleWorker' /\ Settled' /\ Heard' /\ Waits'
  BY <1>1, <1>2, <1>3, CallKeeps
<1>6. DropIsTold'
  BY <1>1, <1>2, <1>3 DEF Inv, DropIsTold, Live
<1> QED
  BY <1>4, <1>5, <1>6 DEF Inv

\* A worker is spawned where none is alive.
LEMMA SpawnKeeps == ASSUME Inv, NEW c \in Calls, Spawn(c) PROVE Inv'
<1>1. UNCHANGED <<session, room, restarting, strikes, replaced, dropped, told, asked,
                  elsewhere, crashes, lost>>
      /\ Live = {} /\ cancel' = "clear" /\ ~unheard'
      /\ unheard' \in BOOLEAN
  BY DEF Spawn, Spawnable, durable, counts
<1>2. CallStep(c) /\ call'[c].pc = "idle"
  BY CallStops DEF Spawn, Inv
<1>3. PICK t \in Threads : worker' = [worker EXCEPT ![t] = Fresh]
  BY DEF Spawn, AnyOf
<1>4. Fresh \in WorkerRow /\ Fresh.pc = "drive" /\ burnt' \in [Managed -> Nat]
  <2>1. Clean \in [Managed -> Nat]
    BY DEF Clean
  <2> QED
    BY <2>1, DeadRow DEF Fresh, Dead, WorkerPc, Spawn, Inv, TypeOK
<1>5. Alone(t) /\ worker'[t].pc = "drive"
  BY <1>3, <1>4 DEF Inv, TypeOK, WorkerRow, Alone
<1>6. \A u \in Threads : worker[u].pc = "dead"
  BY <1>1 DEF Live
<1>7. TypeOK'
  BY <1>1, <1>2, <1>4, <1>5 DEF Inv, TypeOK, CallStep, CallRow, Alone, WorkerRow
<1>8. Speaks' /\ SingleWorker' /\ Settled'
  BY <1>1, <1>2, <1>5, <1>6 DEF Inv, Speaks, SingleWorker, Live, Settled, Alone, CallStep
<1>9. Heard' /\ Waits'
  <2>1. t \in Attentive'
    BY <1>1, <1>5 DEF Attentive, Live
  <2> QED
    BY <1>1, <2>1 DEF Heard, Waits, Attended
<1>10. DropIsTold'
  BY <1>1, <1>5, <1>6 DEF Inv, DropIsTold, Live, Alone
<1> QED
  BY <1>7, <1>8, <1>9, <1>10 DEF Inv

\* A pause: the worker is told first ...
LEMMA PauseKeeps == ASSUME Inv, NEW c \in Calls, Pause(c) PROVE Inv'
<1>1. UNCHANGED <<session, room, worker, restarting, strikes, replaced, dropped, told,
                  elsewhere, crashes, lost, unheard>>
      /\ asked' \in Nat /\ burnt' \in [Managed -> Nat]
  BY DEF Pause, Asks, durable, Inv, TypeOK, Clean
<1>2. CallStep(c) /\ call'[c].pc = "pause_room"
  BY CallMoves DEF Pause, Inv, CallPc
<1>3. cancel' \in {"none", "clear", "set"}
  BY DEF Pause, SetCancel
<1>4. TypeOK'
  BY <1>1, <1>2, <1>3 DEF Inv, TypeOK, CallStep, CallRow, RoomRow
<1>5. Speaks' /\ SingleWorker' /\ Settled' /\ Heard' /\ Waits'
  BY <1>1, <1>2, <1>3, CallKeeps
<1>6. DropIsTold'
  BY <1>1, <1>2, <1>3 DEF Inv, DropIsTold, Live
<1> QED
  BY <1>4, <1>5, <1>6 DEF Inv

\* ... then the room, then the session.
LEMMA PauseRoomKeeps == ASSUME Inv, NEW c \in Calls, PauseRoom(c) PROVE Inv'
<1>1. UNCHANGED <<session, worker, cancel, restarting, strikes, replaced, dropped, told,
                  asked, elsewhere, crashes, lost, burnt, unheard>>
  BY DEF PauseRoom, durable, counts
<1>2. CASE room.status = "stopped" /\ CallEnds(c) /\ UNCHANGED room
  <2>1. CallStep(c) /\ call'[c].pc = "idle"
    BY <1>2, CallStops DEF Inv
  <2>2. TypeOK'
    BY <1>1, <1>2, <2>1 DEF Inv, TypeOK, CallStep, CallRow, RoomRow
  <2>3. Speaks' /\ SingleWorker' /\ Settled' /\ Heard' /\ Waits'
    BY <1>1, <1>2, <2>1, CallKeeps
  <2>4. DropIsTold'
    BY <1>1, <1>2, <2>1 DEF Inv, DropIsTold, Live
  <2> QED
    BY <2>2, <2>3, <2>4 DEF Inv
<1>3. CASE CallAt(c, "pause") /\ F!Pause
  <2>1. CallStep(c) /\ call'[c].pc = "pause"
    BY <1>3, CallMoves DEF Inv, CallPc
  <2>2. room' \in RoomRow
    BY <1>3, FloorMoves DEF Inv, F!Next, F!Human
  <2>3. TypeOK'
    BY <1>1, <2>1, <2>2 DEF Inv, TypeOK, CallStep, CallRow, RoomRow
  <2>4. Speaks' /\ SingleWorker' /\ Settled' /\ Heard' /\ Waits'
    BY <1>1, <2>1, <2>2, CallKeeps
  <2>5. DropIsTold'
    BY <1>1, <2>1, <2>2 DEF Inv, DropIsTold, Live
  <2> QED
    BY <2>3, <2>4, <2>5 DEF Inv
<1> QED
  BY <1>2, <1>3 DEF PauseRoom

\* The session is paused.
LEMMA PauseSessionKeeps == ASSUME Inv, NEW c \in Calls, PauseSession(c) PROVE Inv'
<1>1. UNCHANGED <<room, worker, cancel, restarting, strikes, replaced, dropped, told,
                  asked, elsewhere, crashes, lost, burnt, unheard>>
  BY DEF PauseSession, durable, counts
<1>2. CallStep(c) /\ call'[c].pc = "idle" /\ session' \in {"paused", "finished"}
      /\ (session = "finished" => session' = "finished")
  BY CallStops DEF PauseSession, Inv, TypeOK
<1>3. TypeOK'
  BY <1>1, <1>2 DEF Inv, TypeOK, CallStep, CallRow, RoomRow
<1>4. Speaks' /\ SingleWorker' /\ Settled' /\ Heard' /\ Waits'
  BY <1>1, <1>2, CallKeeps
<1>5. DropIsTold'
  BY <1>1, <1>2 DEF Inv, DropIsTold, Live
<1> QED
  BY <1>3, <1>4, <1>5 DEF Inv

\* A resume: the room ...
LEMMA ResumeKeeps == ASSUME Inv, NEW c \in Calls, Resume(c) PROVE Inv'
<1>1. UNCHANGED <<session, worker, cancel, restarting, strikes, replaced, dropped, told,
                  elsewhere, crashes, lost, unheard>>
      /\ asked' \in Nat /\ burnt' \in [Managed -> Nat]
  BY DEF Resume, Asks, durable, Inv, TypeOK, Clean
<1>2. CallStep(c) /\ call'[c].pc = "resume"
  BY CallMoves DEF Resume, Inv, CallPc
<1>3. room' \in RoomRow
  BY FloorMoves DEF Resume, Inv, F!Next, F!Human
<1>4. TypeOK'
  BY <1>1, <1>2, <1>3 DEF Inv, TypeOK, CallStep, CallRow, RoomRow
<1>5. Speaks' /\ SingleWorker' /\ Settled' /\ Heard' /\ Waits'
  BY <1>1, <1>2, <1>3, CallKeeps
<1>6. DropIsTold'
  BY <1>1, <1>2, <1>3 DEF Inv, DropIsTold, Live
<1> QED
  BY <1>4, <1>5, <1>6 DEF Inv

\* ... then the session, if it was paused.
LEMMA ResumeSessionKeeps == ASSUME Inv, NEW c \in Calls, ResumeSession(c) PROVE Inv'
<1>1. UNCHANGED <<room, worker, cancel, restarting, strikes, replaced, dropped, told,
                  asked, elsewhere, crashes, lost, burnt>>
  BY DEF ResumeSession, durable, counts
<1>2. CASE session = "paused" /\ session' = "active" /\ CallAt(c, "lookup") /\ UNCHANGED unheard
  <2>1. CallStep(c) /\ call'[c].pc = "lookup"
    BY <1>2, CallMoves DEF Inv, CallPc
  <2>2. TypeOK'
    BY <1>1, <1>2, <2>1 DEF Inv, TypeOK, CallStep, CallRow, RoomRow
  <2>3. Speaks' /\ SingleWorker' /\ Settled' /\ Heard' /\ Waits'
    BY <1>1, <1>2, <2>1, CallKeeps
  <2>4. DropIsTold'
    BY <1>1, <1>2, <2>1 DEF Inv, DropIsTold, Live
  <2> QED
    BY <2>2, <2>3, <2>4 DEF Inv
<1>3. CASE CallEnds(c) /\ UNCHANGED session /\ unheard' = (unheard \/ Attentive = {})
  <2>1. CallStep(c) /\ call'[c].pc = "idle" /\ unheard' \in BOOLEAN
    BY <1>3, CallStops DEF Inv, TypeOK
  <2>2. TypeOK'
    BY <1>1, <1>3, <2>1 DEF Inv, TypeOK, CallStep, CallRow, RoomRow
  <2>3. Speaks' /\ SingleWorker' /\ Settled' /\ Heard' /\ Waits'
    BY <1>1, <1>3, <2>1, CallKeeps
  <2>4. DropIsTold'
    BY <1>1, <1>3, <2>1 DEF Inv, DropIsTold, Live
  <2> QED
    BY <2>2, <2>3, <2>4 DEF Inv
<1> QED
  BY <1>2, <1>3 DEF ResumeSession

\* What a restart forgives.
LEMMA ForgivenType ==
    ASSUME Inv, NEW agents \in SUBSET Managed, Forgiven(agents)
    PROVE  /\ strikes' \in [Managed -> 0..Limit] /\ dropped' \subseteq dropped
           /\ told' \in [Managed -> {"no", "open", "closed"}] /\ replaced' = replaced
           /\ \A p \in Managed : told[p] # "no" => told'[p] # "no"
<1>1. strikes' \in [Managed -> 0..Limit]
  BY RunnerAssumption DEF Forgiven, Inv, TypeOK
<1>2. told' \in [Managed -> {"no", "open", "closed"}]
      /\ \A p \in Managed : told[p] # "no" => told'[p] # "no"
  BY DEF Forgiven, Inv, TypeOK
<1> QED
  BY <1>1, <1>2 DEF Forgiven

\* A restart.
LEMMA RestartKeeps == ASSUME Inv, NEW c \in Calls, Restart(c) PROVE Inv'
<1>1. UNCHANGED <<session, room, worker, cancel, restarting, elsewhere, crashes, lost, unheard>>
      /\ asked' \in Nat /\ burnt' \in [Managed -> Nat]
  BY DEF Restart, Asks, durable, Inv, TypeOK, Clean
<1>2. CallStep(c) /\ call'[c].pc = "cancel_for_restart"
  BY CallMoves DEF Restart, Inv, CallPc
<1>3. Forgiven(Managed)
  BY DEF Restart
<1>4. dropped \subseteq Managed
  BY DEF Inv, TypeOK
<1>5. TypeOK'
  BY <1>1, <1>2, <1>3, <1>4, ForgivenType DEF Inv, TypeOK, CallStep, CallRow, RoomRow
<1>6. Speaks' /\ SingleWorker' /\ Settled' /\ Heard' /\ Waits'
  BY <1>1, <1>2, <1>3, <1>4, ForgivenType, CallKeeps
<1>7. DropIsTold'
  BY <1>1, <1>2, <1>3, <1>4, ForgivenType DEF Inv, DropIsTold, Live
<1> QED
  BY <1>5, <1>6, <1>7 DEF Inv

\* It cancels the worker ...
LEMMA CancelForRestartKeeps == ASSUME Inv, NEW c \in Calls, CancelForRestart(c) PROVE Inv'
<1>1. UNCHANGED <<session, room, worker, restarting, strikes, replaced, dropped, told,
                  asked, elsewhere, crashes, lost, burnt>>
  BY DEF CancelForRestart, durable, counts
<1>2. CASE SetCancel /\ CallAt(c, "join_for_restart") /\ UNCHANGED unheard
  <2>1. CallStep(c) /\ call'[c].pc = "join_for_restart"
    BY <1>2, CallMoves DEF Inv, CallPc
  <2>2. cancel' \in {"none", "clear", "set"}
    BY <1>2 DEF SetCancel, Inv, TypeOK
  <2>3. TypeOK'
    BY <1>1, <1>2, <2>1, <2>2 DEF Inv, TypeOK, CallStep, CallRow, RoomRow
  <2>4. Speaks' /\ SingleWorker' /\ Settled' /\ Heard' /\ Waits'
    BY <1>1, <2>1, CallKeeps
  <2>5. DropIsTold'
    BY <1>1 DEF Inv, DropIsTold, Live
  <2> QED
    BY <2>3, <2>4, <2>5 DEF Inv
<1>3. CASE NotReady(c) /\ UNCHANGED cancel
  BY <1>1, <1>3, CallGivesUp DEF Inv, TypeOK
<1> QED
  BY <1>2, <1>3 DEF CancelForRestart

\* ... and waits for its end.
LEMMA JoinForRestartKeeps == ASSUME Inv, NEW c \in Calls, JoinForRestart(c) PROVE Inv'
<1>1. UNCHANGED <<session, room, worker, cancel, restarting, strikes, replaced, dropped,
                  told, asked, elsewhere, crashes, lost, burnt>>
  BY DEF JoinForRestart, durable, counts
<1>2. CASE CallAt(c, "spawn") /\ UNCHANGED unheard
  <2>1. CallStep(c) /\ call'[c].pc = "spawn"
    BY <1>2, CallMoves DEF Inv, CallPc
  <2>2. TypeOK'
    BY <1>1, <1>2, <2>1 DEF Inv, TypeOK, CallStep, CallRow, RoomRow
  <2>3. Speaks' /\ SingleWorker' /\ Settled' /\ Heard' /\ Waits'
    BY <1>1, <1>2, <2>1, CallKeeps
  <2>4. DropIsTold'
    BY <1>1, <1>2, <2>1 DEF Inv, DropIsTold, Live
  <2> QED
    BY <2>2, <2>3, <2>4 DEF Inv
<1>3. CASE CallEnds(c) /\ unheard' = TRUE
  <2>1. CallStep(c) /\ call'[c].pc = "idle" /\ unheard' /\ unheard' \in BOOLEAN
    BY <1>3, CallStops DEF Inv
  <2>2. TypeOK'
    BY <1>1, <2>1 DEF Inv, TypeOK, CallStep, CallRow, RoomRow
  <2>3. Speaks' /\ SingleWorker' /\ Settled' /\ Heard' /\ Waits'
    BY <1>1, <2>1, CallKeeps
  <2>4. DropIsTold'
    BY <1>1, <2>1 DEF Inv, DropIsTold, Live
  <2> QED
    BY <2>2, <2>3, <2>4 DEF Inv
<1> QED
  BY <1>2, <1>3 DEF JoinForRestart

\* A restart of one agent.
LEMMA RestartAgentKeeps == ASSUME Inv, NEW c \in Calls, RestartAgent(c) PROVE Inv'
<1>1. UNCHANGED <<session, room, worker, cancel, elsewhere, crashes, lost, unheard>>
      /\ asked' \in Nat /\ burnt' \in [Managed -> Nat]
  BY DEF RestartAgent, Asks, durable, Inv, TypeOK, Clean
<1>2. PICK p \in Managed :
        /\ Forgiven({p})
        /\ \/ session # "active" /\ UNCHANGED <<call, restarting>>
           \/ /\ session = "active" /\ restarting' = restarting \cup {p}
              /\ call' = [call EXCEPT ![c] = [pc |-> "unwind", agent |-> p]]
  BY DEF RestartAgent
<1>3. dropped \subseteq Managed /\ restarting' \subseteq Managed
  BY <1>2 DEF Inv, TypeOK
<1>4. call'[c].pc # "cancel" /\ CallStep(c) /\ (call'[c].pc # "idle" \/ session # "active")
  <2>1. call \in [Calls -> CallRow] /\ call[c].pc = "idle"
    BY DEF Inv, TypeOK, CallRow, RestartAgent, Asks
  <2>2. [pc |-> "unwind", agent |-> p] \in CallRow
    BY DEF CallRow, CallPc
  <2> QED
    BY <1>2, <2>1, <2>2 DEF CallStep
<1>5. TypeOK'
  BY <1>1, <1>2, <1>3, <1>4, ForgivenType DEF Inv, TypeOK, CallStep, CallRow, RoomRow
<1>6. Speaks' /\ SingleWorker' /\ Settled' /\ Heard' /\ Waits'
  BY <1>1, <1>2, <1>3, <1>4, ForgivenType, CallKeeps
<1>7. DropIsTold'
  BY <1>1, <1>2, <1>3, <1>4, ForgivenType DEF Inv, DropIsTold, Live
<1> QED
  BY <1>5, <1>6, <1>7 DEF Inv

\* The signal is taken down.
LEMMA UnwindKeeps == ASSUME Inv, NEW c \in Calls, Unwind(c) PROVE Inv'
<1>1. UNCHANGED <<session, room, worker, cancel, strikes, replaced, dropped, told, asked,
                  elsewhere, crashes, lost, burnt>>
  BY DEF Unwind, durable, counts
<1>2. restarting' \subseteq Managed
  BY DEF Unwind, Inv, TypeOK
<1>3. CASE CallAt(c, "spawn") /\ UNCHANGED unheard
  <2>1. CallStep(c) /\ call'[c].pc = "spawn"
    BY <1>3, CallMoves DEF Inv, CallPc
  <2>2. TypeOK'
    BY <1>1, <1>2, <1>3, <2>1 DEF Inv, TypeOK, CallStep, CallRow, RoomRow
  <2>3. Speaks' /\ SingleWorker' /\ Settled' /\ Heard' /\ Waits'
    BY <1>1, <1>2, <1>3, <2>1, CallKeeps
  <2>4. DropIsTold'
    BY <1>1, <1>2, <1>3, <2>1 DEF Inv, DropIsTold, Live
  <2> QED
    BY <2>2, <2>3, <2>4 DEF Inv
<1>4. CASE CallEnds(c) /\ unheard' = (unheard \/ Attentive = {})
  <2>1. CallStep(c) /\ call'[c].pc = "idle" /\ unheard' \in BOOLEAN
    BY <1>4, CallStops DEF Inv, TypeOK
  <2>2. TypeOK'
    BY <1>1, <1>2, <1>4, <2>1 DEF Inv, TypeOK, CallStep, CallRow, RoomRow
  <2>3. Speaks' /\ SingleWorker' /\ Settled' /\ Heard' /\ Waits'
    BY <1>1, <1>2, <1>4, <2>1, CallKeeps
  <2>4. DropIsTold'
    BY <1>1, <1>2, <1>4, <2>1 DEF Inv, DropIsTold, Live
  <2> QED
    BY <2>2, <2>3, <2>4 DEF Inv
<1>5. CASE NotReady(c)
  BY <1>1, <1>2, <1>5, CallGivesUp
<1> QED
  BY <1>3, <1>4, <1>5 DEF Unwind

\* The stop: the rows ...
LEMMA StopKeeps == ASSUME Inv, NEW c \in Calls, Stop(c) PROVE Inv'
<1>1. UNCHANGED <<worker, cancel, restarting, strikes, replaced, dropped, told, elsewhere,
                  crashes, lost, unheard>>
      /\ asked' \in Nat /\ burnt' \in [Managed -> Nat]
  BY DEF Stop, Asks, durable, Inv, TypeOK, Clean
<1>2. CallStep(c) /\ call'[c].pc = "cancel" /\ session' = "finished"
  BY CallMoves DEF Stop, Inv, CallPc
<1>3. room' \in RoomRow
  BY StopsRoomMoves DEF Stop, Inv
<1>4. TypeOK'
  BY <1>1, <1>2, <1>3 DEF Inv, TypeOK, CallStep, CallRow, RoomRow
<1>5. Speaks' /\ SingleWorker' /\ Settled' /\ Heard' /\ Waits'
  BY <1>1, <1>2, <1>3, CallKeeps
<1>6. DropIsTold'
  BY <1>1, <1>2, <1>3 DEF Inv, DropIsTold, Live
<1> QED
  BY <1>4, <1>5, <1>6 DEF Inv

\* ... then the worker.
LEMMA StopWorkerKeeps == ASSUME Inv, NEW c \in Calls, StopWorker(c) PROVE Inv'
<1>1. UNCHANGED <<session, room, worker, restarting, strikes, replaced, dropped, told,
                  asked, elsewhere, crashes, lost, burnt, unheard>>
  BY DEF StopWorker, durable, counts
<1>2. CallStep(c) /\ call'[c].pc = "idle" /\ session = "finished"
  BY CallStops DEF StopWorker, Inv, Settled
<1>3. cancel' \in {"none", "clear", "set"}
  BY DEF StopWorker, SetCancel, Inv, TypeOK
<1>4. TypeOK'
  BY <1>1, <1>2, <1>3 DEF Inv, TypeOK, CallStep, CallRow, RoomRow
<1>5. Speaks' /\ SingleWorker' /\ Settled' /\ Heard' /\ Waits'
  BY <1>1, <1>2, <1>3, CallKeeps
<1>6. DropIsTold'
  BY <1>1, <1>2, <1>3 DEF Inv, DropIsTold, Live
<1> QED
  BY <1>4, <1>5, <1>6 DEF Inv

-----------------------------------------------------------------------------
(* The world outside, and the theorems.                                    *)

LEMMA ElsewhereKeeps == ASSUME Inv, Elsewhere PROVE Inv'
<1>1. UNCHANGED <<session, worker, cancel, restarting, strikes, replaced, dropped, told,
                  asked, crashes, lost, burnt, call>>
  BY DEF Elsewhere, durable
<1>2. F!Next
  BY DEF Elsewhere, F!Next, F!Speakers
<1>3. room' \in RoomRow /\ room.status # "stopped"
  BY <1>2, FloorMoves DEF Inv
<1>4. /\ unheard' = (unheard \/ (Attentive = {} /\ Waiting'))
      /\ unheard' \in BOOLEAN /\ elsewhere' \in Nat
  BY DEF Elsewhere, Inv, TypeOK
<1>5. TypeOK'
  BY <1>1, <1>3, <1>4 DEF Inv, TypeOK, RoomRow
<1>6. Speaks' /\ SingleWorker' /\ Settled' /\ DropIsTold'
  BY <1>1 DEF Inv, Speaks, SingleWorker, Live, Settled, DropIsTold
<1>7. Heard'
  BY <1>1, <1>3, <1>4 DEF Inv, Heard, Busy
<1>8. Attentive' = Attentive
  BY <1>1 DEF Attentive, Live
<1>9. Waits'
  BY <1>4, <1>8 DEF Waits, Attended
<1> QED
  BY <1>5, <1>6, <1>7, <1>9 DEF Inv

\* Whoever was about to escalate is a managed agent.
LEMMA EscalatingType == Inv => \A threads \in SUBSET Threads : Escalating(threads) \subseteq Managed
BY DEF Inv, Speaks, Escalating

\* The thread of a worker ends by what was raised in it.
LEMMA RaiseKeeps == ASSUME Inv, NEW t \in Threads, Raise(t) PROVE Inv'
<1>1. worker[t].pc \notin {"dead", "report", "ending"}
      /\ UNCHANGED <<session, room, restarting, strikes, replaced, dropped, told, call,
                     asked, elsewhere, crashes, burnt>>
      /\ cancel' = "none" /\ unheard' = TRUE /\ lost' = lost \cup Escalating({t})
  BY DEF Raise, durable
<1>2. Alone(t) /\ worker'[t].pc = "ending"
  <2>1. [Dead EXCEPT !.pc = "ending"] \in WorkerRow
    BY DeadRow, CleanCount DEF WorkerPc
  <2>2. worker' = [worker EXCEPT ![t] = [Dead EXCEPT !.pc = "ending"]]
        /\ worker \in [Threads -> WorkerRow]
    BY DEF Raise, Inv, TypeOK, WorkerRow
  <2> QED
    BY <2>1, <2>2 DEF Alone, Dead
<1>3. lost' \subseteq Managed
  BY <1>1, EscalatingType DEF Inv, TypeOK
<1>4. TypeOK'
  BY <1>1, <1>2, <1>3 DEF Inv, TypeOK, Alone, WorkerRow, RoomRow
<1>5. \A u \in Threads : u # t => worker[u].pc = "dead" /\ worker'[u] = worker[u]
  BY <1>1, <1>2, OneAlive DEF Alone
<1>6. Speaks' /\ SingleWorker' /\ Settled' /\ Heard' /\ Waits'
  BY <1>1, <1>2, <1>5 DEF Inv, Speaks, SingleWorker, Live, Settled, Heard, Waits
<1>7. DropIsTold'
  <2> SUFFICES ASSUME NEW p \in dropped, told[p] = "no" PROVE p \in lost'
    BY <1>1 DEF DropIsTold
  <2>1. CASE p \in lost
    BY <1>1, <2>1
  <2>2. CASE p \notin lost
    <3>1. PICK u \in Live : worker[u].pc = "escalate" /\ worker[u].speaker = p
      BY <2>2 DEF Inv, DropIsTold
    <3>2. u = t
      BY <1>5, <3>1 DEF Live
    <3> QED
      BY <1>1, <3>1, <3>2 DEF Escalating
  <2> QED
    BY <2>1, <2>2
<1> QED
  BY <1>4, <1>6, <1>7 DEF Inv

LEMMA CrashKeeps == ASSUME Inv, Crash PROVE Inv'
<1>1. UNCHANGED <<session, room, strikes, replaced, dropped, told, asked, elsewhere, burnt>>
      /\ cancel' = "none" /\ restarting' = {} /\ unheard' = TRUE
      /\ crashes' \in Nat /\ lost' = lost \cup Escalating(Threads)
  BY DEF Crash, durable, Inv, TypeOK
<1>2. worker' \in [Threads -> WorkerRow] /\ \A t \in Threads : worker'[t].pc = "dead"
  BY DeadRow DEF Crash, Dead, Inv, TypeOK, WorkerPc
<1>3. call' \in [Calls -> CallRow] /\ \A c \in Calls : call'[c].pc = "idle"
  BY DEF Crash, IdleCall, CallRow, CallPc
<1>4. lost' \subseteq Managed
  BY <1>1, EscalatingType DEF Inv, TypeOK
<1>5. TypeOK'
  BY <1>1, <1>2, <1>3, <1>4 DEF Inv, TypeOK, WorkerRow, CallRow
<1>6. Speaks' /\ SingleWorker' /\ Settled'
  BY <1>2, <1>3 DEF Speaks, SingleWorker, Live, Settled
<1>7. Heard' /\ Waits'
  BY <1>1 DEF Heard, Waits
<1>8. DropIsTold'
  <2> SUFFICES ASSUME NEW p \in dropped, told[p] = "no", p \notin lost
               PROVE  p \in Escalating(Threads)
    BY <1>1 DEF DropIsTold
  <2>1. PICK u \in Live : worker[u].pc = "escalate" /\ worker[u].speaker = p
    BY DEF Inv, DropIsTold
  <2> QED
    BY <2>1 DEF Escalating, Live
<1> QED
  BY <1>5, <1>6, <1>7, <1>8 DEF Inv

LEMMA InitInv == Init => Inv
<1> SUFFICES ASSUME Init PROVE Inv
  OBVIOUS
<1> DEFINE first == AnyOf(Threads)
<1>1. first \in Threads
  BY RunnerAssumption DEF AnyOf
<1>2. Clean \in [Managed -> 0..Limit] /\ Clean \in [Managed -> Nat]
  BY RunnerAssumption DEF Clean
<1>3. Dead \in WorkerRow /\ Dead.pc = "dead" /\ Fresh \in WorkerRow /\ Fresh.pc = "drive"
  BY <1>2, DeadRow DEF Dead, Fresh, WorkerPc
<1> HIDE DEF first
<1>4. worker \in [Threads -> WorkerRow] /\ worker[first].pc = "drive"
      /\ \A t \in Threads : t # first => worker[t].pc = "dead"
  BY <1>1, <1>3 DEF Init, first
<1>5. call \in [Calls -> CallRow] /\ \A c \in Calls : call[c].pc = "idle"
  BY DEF Init, IdleCall, CallRow, CallPc
<1>6. room \in RoomRow
  BY DEF Init, F!Floors, F!Speakers, RoomRow
<1>7. TypeOK
  BY <1>2, <1>4, <1>5, <1>6 DEF Init, TypeOK, WorkerRow, CallRow, RoomRow
<1>8. Speaks /\ SingleWorker /\ Settled
  BY <1>4, <1>5 DEF Speaks, SingleWorker, Live, Settled
<1>9. first \in Attentive
  BY <1>1, <1>4 DEF Init, Attentive, Live
<1>10. Heard /\ Waits /\ DropIsTold
  BY <1>9 DEF Init, Heard, Waits, Attended, DropIsTold
<1> QED
  BY <1>7, <1>8, <1>10 DEF Inv

LEMMA NextInv == Inv /\ [Next]_vars => Inv'
<1> SUFFICES ASSUME Inv, [Next]_vars PROVE Inv'
  OBVIOUS
<1>1. ASSUME NEW t \in Threads, Worker(t) \/ Raise(t) PROVE Inv'
  BY <1>1, RaiseKeeps, DriveKeeps, CheckKeeps, PollKeeps, TakeTurnKeeps, ReturnKeeps,
     PostRefusedKeeps, PostAnswerKeeps, CompleteKeeps, PostFailureKeeps, ReplaceKeeps, ReviveKeeps,
     GiveUpKeeps, EscalateKeeps, ReportKeeps, EndKeeps DEF Worker
<1>2. ASSUME NEW c \in Calls, Request(c) \/ Call(c) \/ CallRaises(c) PROVE Inv'
  BY <1>2, CallRaisesKeeps, MessageKeeps, PauseKeeps, ResumeKeeps, RestartKeeps, RestartAgentKeeps,
     StopKeeps, WakeKeeps, LookupKeeps, JoinKeeps, SpawnKeeps, SpawnRefusedKeeps,
     PauseRoomKeeps, PauseSessionKeeps, ResumeSessionKeeps, CancelForRestartKeeps,
     JoinForRestartKeeps, UnwindKeeps, StopWorkerKeeps DEF Request, Call
<1>3. CASE Elsewhere \/ Crash
  BY <1>3, ElsewhereKeeps, CrashKeeps
<1>4. CASE UNCHANGED vars
  <2>1. UNCHANGED <<call, session, room, worker, cancel, restarting, strikes, replaced,
                    dropped, told, asked, elsewhere, crashes, lost, burnt, unheard>>
    BY <1>4 DEF vars, durable, counts
  <2>2. TypeOK' /\ Speaks' /\ SingleWorker' /\ Settled' /\ DropIsTold'
    BY <2>1 DEF Inv, TypeOK, Speaks, SingleWorker, Live, Settled, DropIsTold
  <2>3. Heard' /\ Waits'
    BY <2>1 DEF Inv, Heard, Busy, Waits, Waiting, Attended, Attentive, Live, Told
  <2> QED
    BY <2>2, <2>3 DEF Inv
<1> QED
  BY <1>1, <1>2, <1>3, <1>4 DEF Next

LEMMA InvHolds == Spec => []Inv
BY InitInv, NextInv, PTL DEF Spec

\* However requests race, at most one worker supervises the session: the test
\* for a live one and the spawn are under one lock (managed.py, _spawn).
THEOREM OneWorker == Spec => []SingleWorker
<1>1. Inv => SingleWorker
  BY DEF Inv
<1> QED
  BY <1>1, InvHolds, PTL

\* An agent that has the floor is worked on, or the human was told, or its
\* supervision ended in a way the code has no answer to; no agent is dropped
\* silently, unless its worker died before it said so (conductor.py, managed.py).
THEOREM NobodyIsForgotten == Spec => []NobodyWaitsAlone
<1>1. Inv => NobodyWaitsAlone
  BY DEF Inv, Waits, NobodyWaitsAlone
<1> QED
  BY <1>1, InvHolds, PTL

-----------------------------------------------------------------------------
(* The breaker.  What an agent has burnt is bounded by its durable strikes *)
(* and by those the worker counts, each one short of a failure that a      *)
(* restart forgave while it was posted; the replacement adds a limit.      *)

Allowance(p) == IF p \in replaced THEN Limit ELSE 0
Spent(p, n) == burnt[p] <= n + Allowance(p)
Within(p) == Spent(p, 1 + strikes[p]) /\ Spent(p, Limit)

Starting == {"drive", "revive"}
Looping == {"check", "poll", "turn", "invoke", "post", "complete"}

Burns(t) ==
    /\ worker[t].pc \in Starting \cup Looping => \A p \in Managed : Within(p)
    /\ worker[t].pc \in Looping => \A p \in Managed : Spent(p, 1 + worker[t].strikes[p])
    /\ worker[t].pc = "post" =>
          /\ worker[t].result = "ok" => burnt[worker[t].speaker] = 0
          /\ worker[t].result \in Failures =>
                Spent(worker[t].speaker, strikes[worker[t].speaker])
    /\ worker[t].pc = "trip" =>
          /\ \A p \in Managed \ {worker[t].speaker} : Within(p)
          /\ Spent(worker[t].speaker, Limit + 1)
    /\ worker[t].pc = "revive" =>
          worker[t].speaker \in replaced /\ burnt[worker[t].speaker] <= Limit + 1

Breaker == BreakerHolds /\ \A t \in Threads : Burns(t)
Both == Inv /\ Breaker

LEMMA Numbers ==
    ASSUME Inv
    PROVE  /\ Limit \in Nat /\ Limit >= 1
           /\ \A p \in Managed : /\ burnt[p] \in Nat /\ strikes[p] \in 0..Limit
                                 /\ strikes[p] \in Nat
                                 /\ \A t \in Threads : /\ worker[t].strikes[p] \in 0..Limit
                                                       /\ worker[t].strikes[p] \in Nat
<1>1. Limit \in Nat /\ Limit >= 1
  BY RunnerAssumption
<1>2. \A p \in Managed : burnt[p] \in Nat /\ strikes[p] \in 0..Limit
  BY DEF Inv, TypeOK
<1>3. \A p \in Managed, t \in Threads : worker[t].strikes[p] \in 0..Limit
  BY DEF Inv, TypeOK
<1>4. 0..Limit \subseteq Nat
  BY <1>1
<1> QED
  BY <1>1, <1>2, <1>3, <1>4

\* When the human acts, the count starts anew.
LEMMA Forgotten ==
    ASSUME Both, Inv', burnt' = Clean, replaced' = replaced,
           \A t \in Threads : worker'[t].pc = "revive" => worker'[t] = worker[t]
    PROVE  Breaker'
<1>1. Limit \in Nat /\ Limit >= 1
  BY RunnerAssumption
<1>2. \A p \in Managed : burnt'[p] = 0 /\ Allowance(p)' \in Nat
  BY <1>1 DEF Clean, Allowance
<1>3. \A p \in Managed : strikes'[p] \in Nat /\ \A t \in Threads : worker'[t].strikes[p] \in Nat
  BY <1>1 DEF Inv, TypeOK
<1>4. \A p \in Managed : /\ Within(p)' /\ Spent(p, Limit + 1)' /\ Spent(p, strikes[p])'
                         /\ \A t \in Threads : Spent(p, 1 + worker[t].strikes[p])'
  BY <1>1, <1>2, <1>3 DEF Within, Spent
<1>5. \A p \in Managed : burnt'[p] <= Limit + 1 /\ burnt'[p] <= 2 * Limit + 1
  BY <1>1, <1>2
<1>6. \A t \in Threads : worker'[t].pc \in {"post", "trip", "revive"}
                            => worker'[t].speaker \in Managed
  BY DEF Inv, Speaks
<1>7. ASSUME NEW t \in Threads PROVE Burns(t)'
  BY <1>2, <1>4, <1>5, <1>6 DEF Burns, Both, Breaker
<1> QED
  BY <1>5, <1>7 DEF Breaker, BreakerHolds

\* The other threads are not alive.
LEMMA OfTheOne ==
    ASSUME Both, NEW t \in Threads, worker[t].pc # "dead", Alone(t), BreakerHolds', Burns(t)'
    PROVE  Breaker'
<1>1. \A u \in Threads : u # t => worker'[u].pc = "dead"
  BY OneAlive DEF Alone, Both
<1>2. \A u \in Threads : u # t => Burns(u)'
  BY <1>1 DEF Burns, Starting, Looping
<1> QED
  BY <1>2 DEF Breaker

\* Steps that burn nothing.
LEMMA BurnsNothing ==
    ASSUME Both, NEW t \in Threads, worker[t].pc # "dead", Alone(t),
           UNCHANGED <<burnt, strikes, replaced>>,
           worker'[t].pc \notin {"post", "trip", "revive"},
           worker'[t].pc \in Starting \cup Looping => worker[t].pc \in Starting \cup Looping,
           worker'[t].pc \in Looping =>
               \A p \in Managed : Spent(p, 1 + worker'[t].strikes[p])
    PROVE  Breaker'
<1>1. BreakerHolds'
  BY DEF Both, Breaker, BreakerHolds
<1>2. \A p \in Managed, n \in Nat : (Within(p) => Within(p)') /\ Allowance(p)' = Allowance(p)
  BY DEF Within, Spent, Allowance
<1>3. Burns(t)'
  BY <1>2 DEF Both, Breaker, Burns, Spent
<1> QED
  BY <1>1, <1>3, OfTheOne

LEMMA DriveBurns == ASSUME Both, NEW t \in Threads, Drive(t) PROVE Breaker'
<1>1. worker[t].pc = "drive" /\ UNCHANGED <<burnt, strikes, replaced>>
  BY DEF Drive, durable
<1>2. Alone(t) /\ worker'[t].pc = "check" /\ worker'[t].strikes = strikes
  BY LoopsTo DEF Drive, Both, Inv, TypeOK
<1>3. \A p \in Managed : Spent(p, 1 + strikes[p])
  BY <1>1 DEF Both, Breaker, Burns, Starting, Within
<1> QED
  BY <1>1, <1>2, <1>3, BurnsNothing DEF Starting, Looping

LEMMA LoopBurns ==
    ASSUME Both, NEW t \in Threads, Check(t) \/ Poll(t) \/ TakeTurn(t)
    PROVE  Breaker'
<1>1. worker[t].pc \in {"check", "poll", "turn"} /\ UNCHANGED <<burnt, strikes, replaced>>
  BY DEF Check, Poll, TakeTurn, durable
<1>2. worker \in [Threads -> WorkerRow] /\ worker[t].strikes \in [Managed -> 0..Limit]
  BY DEF Both, Inv, TypeOK, WorkerRow
<1>3. \A p \in Managed : Spent(p, 1 + worker[t].strikes[p])
  BY <1>1 DEF Both, Breaker, Burns, Looping
<1>4. CASE \E pc \in {"poll", "report", "drive", "invoke"} : Goes(t, pc)
  <2>1. PICK pc \in {"poll", "report", "drive", "invoke"} : Goes(t, pc)
    BY <1>4
  <2>2. Alone(t) /\ worker'[t].pc = pc /\ worker'[t].strikes = worker[t].strikes
    BY <2>1, GoesTo DEF Both, Inv, WorkerPc
  <2> QED
    BY <1>1, <1>3, <2>1, <2>2, BurnsNothing DEF Starting, Looping
<1>5. CASE Loops(t, worker[t].strikes)
  <2>1. Alone(t) /\ worker'[t].pc = "check" /\ worker'[t].strikes = worker[t].strikes
    BY <1>2, <1>5, LoopsTo DEF Both, Inv
  <2> QED
    BY <1>1, <1>3, <2>1, BurnsNothing DEF Starting, Looping
<1>6. CASE worker' = [worker EXCEPT ![t] = [Dead EXCEPT !.pc = "report"]]
  <2>1. [Dead EXCEPT !.pc = "report"] \in WorkerRow
    BY ReportRow
  <2>2. Alone(t) /\ worker'[t].pc = "report"
    BY <1>2, <1>6, <2>1 DEF Alone, Dead
  <2> QED
    BY <1>1, <2>2, BurnsNothing DEF Starting, Looping
<1>7. CASE /\ room.floor \in Managed
           /\ worker' = [worker EXCEPT ![t].pc = "turn", ![t].speaker = room.floor]
  <2>1. [worker[t] EXCEPT !.pc = "turn", !.speaker = room.floor] \in WorkerRow
    BY <1>2, <1>7 DEF WorkerRow, WorkerPc
  <2>2. Alone(t) /\ worker'[t].pc = "turn" /\ worker'[t].strikes = worker[t].strikes
    BY <1>2, <1>7, <2>1 DEF Alone, WorkerRow
  <2> QED
    BY <1>1, <1>3, <2>2, BurnsNothing DEF Starting, Looping
<1> QED
  BY <1>4, <1>5, <1>6, <1>7 DEF Check, Poll, TakeTurn

LEMMA ReturnBurns == ASSUME Both, NEW t \in Threads, Return(t) PROVE Breaker'
<1> DEFINE p == worker[t].speaker
<1>1. worker[t].pc = "invoke" /\ replaced' = replaced /\ p \in Managed
  BY DEF Return, Both, Inv, Speaks
<1>2. PICK result \in Failures \cup {"ok", "cancelled"} :
        /\ worker' = [worker EXCEPT ![t].pc = "post", ![t].result = result]
        /\ strikes' = CASE result = "ok" -> [strikes EXCEPT ![p] = 0]
                        [] result \in Failures -> [strikes EXCEPT ![p] = AddStrike(@)]
                        [] OTHER -> strikes
        /\ burnt' = IF result = "ok" THEN [burnt EXCEPT ![p] = 0] ELSE burnt
  BY DEF Return
<1>3. worker \in [Threads -> WorkerRow] /\ strikes \in [Managed -> 0..Limit]
      /\ burnt \in [Managed -> Nat]
  BY DEF Both, Inv, TypeOK, WorkerRow
<1>4. [worker[t] EXCEPT !.pc = "post", !.result = result] \in WorkerRow
  BY <1>3 DEF WorkerRow, WorkerPc
<1>5. /\ Alone(t) /\ worker'[t].pc = "post" /\ worker'[t].speaker = p
      /\ worker'[t].strikes = worker[t].strikes /\ worker'[t].result = result
  BY <1>2, <1>3, <1>4 DEF Alone, WorkerRow
<1>6. /\ \A q \in Managed : Within(q) /\ Spent(q, 1 + worker[t].strikes[q])
      /\ \A q \in Managed : burnt[q] <= 2 * Limit + 1
  BY <1>1 DEF Both, Breaker, Burns, Looping, BreakerHolds
<1>7. \A q \in Managed : /\ burnt[q] \in Nat /\ strikes[q] \in 0..Limit
                         /\ worker[t].strikes[q] \in Nat /\ Allowance(q) \in Nat
                         /\ Allowance(q)' = Allowance(q)
  BY <1>1, Numbers DEF Both, Allowance
<1>8. Limit \in Nat /\ "ok" \notin Failures /\ "cancelled" \notin Failures
  BY RunnerAssumption DEF Failures, LadderKinds
<1>9. CASE result = "ok"
  <2>1. strikes' = [strikes EXCEPT ![p] = 0] /\ burnt' = [burnt EXCEPT ![p] = 0]
    BY <1>2, <1>8, <1>9
  <2>2. /\ burnt'[p] = 0 /\ strikes'[p] = 0
        /\ \A q \in Managed : q # p => burnt'[q] = burnt[q] /\ strikes'[q] = strikes[q]
    BY <1>1, <1>3, <2>1
  <2>3. \A q \in Managed : Within(q)' /\ burnt'[q] <= burnt[q]
    BY <1>6, <1>7, <1>8, <2>2 DEF Within, Spent
  <2>4. \A q \in Managed : burnt[q] <= 1 + worker[t].strikes[q] + Allowance(q)
    BY <1>6 DEF Spent
  <2>5. \A q \in Managed : /\ burnt'[q] <= 1 + worker[t].strikes[q] + Allowance(q)
                           /\ burnt'[q] <= 2 * Limit + 1
    <3>1. SUFFICES ASSUME NEW q \in Managed
                   PROVE  /\ burnt'[q] <= 1 + worker[t].strikes[q] + Allowance(q)
                          /\ burnt'[q] <= 2 * Limit + 1
      OBVIOUS
    <3>2. CASE q = p
      BY <1>7, <1>8, <2>2, <3>2
    <3>3. CASE q # p
      BY <1>6, <2>2, <2>4, <3>3
    <3> QED
      BY <3>2, <3>3
  <2>6. \A q \in Managed : burnt'[q] <= 1 + worker'[t].strikes[q] + Allowance(q)'
    BY <1>5, <1>7, <2>5
  <2>7. Burns(t)'
    BY <1>5, <1>8, <1>9, <2>2, <2>3, <2>6 DEF Burns, Looping, Spent
  <2> QED
    BY <1>1, <1>5, <2>5, <2>7, OfTheOne DEF BreakerHolds
<1>10. CASE result # "ok"
  <2>1. burnt' = burnt
    BY <1>2, <1>10
  <2>2. strikes' = IF result \in Failures THEN [strikes EXCEPT ![p] = AddStrike(@)]
                   ELSE strikes
    BY <1>2, <1>10
  <2>3. /\ \A q \in Managed : q # p => strikes'[q] = strikes[q]
        /\ strikes'[p] = IF result \in Failures THEN AddStrike(strikes[p]) ELSE strikes[p]
    BY <1>1, <1>3, <2>2
  <2>4. \A q \in Managed : Within(q)' /\ Spent(q, 1 + worker[t].strikes[q])'
    BY <1>5, <1>6, <1>7, <1>8, <2>1, <2>3 DEF Within, Spent, AddStrike
  <2>5. result \in Failures => Spent(p, strikes[p])'
    BY <1>1, <1>5, <1>6, <1>7, <1>8, <2>1, <2>3 DEF Within, Spent, AddStrike
  <2>6. Burns(t)'
    BY <1>5, <1>10, <2>4, <2>5 DEF Burns, Looping
  <2> QED
    BY <1>1, <1>5, <1>6, <2>1, <2>6, OfTheOne DEF BreakerHolds
<1> QED
  BY <1>9, <1>10

LEMMA PostBurnsNothing ==
    ASSUME Both, NEW t \in Threads, PostRefused(t) \/ PostAnswer(t) \/ Complete(t)
    PROVE  Breaker'
<1> DEFINE p == worker[t].speaker
<1>1. worker[t].pc \in {"post", "complete"} /\ UNCHANGED <<burnt, strikes, replaced>>
  BY DEF PostRefused, PostAnswer, Complete, durable
<1>2. worker[t].strikes \in [Managed -> 0..Limit] /\ 0 \in 0..Limit
  BY RunnerAssumption DEF Both, Inv, TypeOK
<1>3. \A q \in Managed : Spent(q, 1 + worker[t].strikes[q])
  BY <1>1 DEF Both, Breaker, Burns, Looping
<1>4. CASE PostRefused(t) \/ Complete(t)
  <2>1. Alone(t) /\ worker'[t].pc = "check" /\ worker'[t].strikes = worker[t].strikes
    BY <1>2, <1>4, LoopsTo DEF PostRefused, Complete, Both, Inv
  <2> QED
    BY <1>1, <1>3, <2>1, BurnsNothing DEF Starting, Looping
<1>5. CASE PostAnswer(t)
  <2>1. [worker[t].strikes EXCEPT ![p] = 0] \in [Managed -> 0..Limit]
    BY <1>2
  <2>2. /\ Alone(t) /\ worker'[t].pc \in {"check", "complete"}
        /\ worker'[t].strikes = [worker[t].strikes EXCEPT ![p] = 0]
    BY <1>5, <2>1, LoopsTo, CompletesTo DEF PostAnswer, Both, Inv
  <2>3. burnt[p] = 0 /\ Allowance(p) \in Nat
    BY <1>5, RunnerAssumption DEF PostAnswer, Both, Breaker, Burns, Allowance
  <2>4. \A q \in Managed : Spent(q, 1 + worker'[t].strikes[q])
    <3>1. Spent(p, 1 + 0)
      BY <2>3 DEF Spent
    <3>2. \A q \in Managed : worker'[t].strikes[q] = IF q = p THEN 0 ELSE worker[t].strikes[q]
      BY <1>2, <2>2
    <3> QED
      BY <1>3, <3>1, <3>2
  <2> QED
    BY <1>1, <2>2, <2>4, BurnsNothing DEF Starting, Looping
<1> QED
  BY <1>4, <1>5

\* A failure that does not trip the breaker is below the limit.
LEMMA PostFailureBurns ==
    ASSUME Both, NEW t \in Threads, NEW p \in Managed, p = worker[t].speaker, PostFailure(t)
    PROVE  Breaker'
<1> DEFINE count == AddStrike(worker[t].strikes[p])
<1>1. worker[t].pc = "post" /\ worker[t].result \in Failures
      /\ UNCHANGED <<strikes, replaced>> /\ p \in Managed
      /\ burnt' = [burnt EXCEPT ![p] = @ + 1]
  BY DEF PostFailure, durable, Both, Inv, Speaks
<1>2. /\ Limit \in Nat /\ Limit >= 1
      /\ \A q \in Managed : /\ burnt[q] \in Nat /\ strikes[q] \in Nat
                            /\ worker[t].strikes[q] \in 0..Limit /\ Allowance(q) \in Nat
                            /\ Allowance(q) <= Limit /\ Allowance(q)' = Allowance(q)
  BY <1>1, Numbers DEF Both, Allowance
<1>3. /\ \A q \in Managed : Within(q) /\ Spent(q, 1 + worker[t].strikes[q])
      /\ Spent(p, strikes[p]) /\ \A q \in Managed : burnt[q] <= 2 * Limit + 1
  BY <1>1 DEF Both, Breaker, Burns, Looping, BreakerHolds
<1>4. burnt'[p] = burnt[p] + 1 /\ \A q \in Managed : q # p => burnt'[q] = burnt[q]
  BY <1>1, <1>2 DEF Both, Inv, TypeOK
<1>5. BreakerHolds'
  BY <1>2, <1>3, <1>4 DEF BreakerHolds, Within, Spent
<1>6. \A q \in Managed : q # p => Within(q)' /\ Spent(q, 1 + worker[t].strikes[q])
  BY <1>1, <1>2, <1>3, <1>4 DEF Within, Spent
<1>7. count \in 0..Limit /\ count \in Nat
  BY <1>1, <1>2 DEF AddStrike
<1>8. worker[t].strikes \in [Managed -> 0..Limit]
  BY DEF Both, Inv, TypeOK
<1>9. CASE Trips(worker[t].result, count)
  <2>1. Goes(t, "trip")
    BY <1>9 DEF PostFailure
  <2>2. Alone(t) /\ worker'[t].pc = "trip" /\ worker'[t].speaker = p
    BY <2>1, GoesTo DEF Both, Inv, WorkerPc
  <2>3. Spent(p, Limit + 1)'
    BY <1>1, <1>2, <1>3, <1>4 DEF Within, Spent
  <2>4. Burns(t)'
    BY <1>6, <2>2, <2>3 DEF Burns, Starting, Looping
  <2> QED
    BY <1>1, <1>5, <2>2, <2>4, OfTheOne
<1>10. CASE ~Trips(worker[t].result, count)
  <2> DEFINE counted == [worker[t].strikes EXCEPT ![p] = count]
  <2>1. Loops(t, counted)
    BY <1>10 DEF PostFailure
  <2>2. counted \in [Managed -> 0..Limit]
    BY <1>7, <1>8
  <2>3. Alone(t) /\ worker'[t].pc = "check" /\ worker'[t].strikes = counted
    BY <2>1, <2>2, LoopsTo DEF Both, Inv
  <2>4. count < Limit
    BY <1>2, <1>7, <1>10 DEF Trips
  <2>5. count = worker[t].strikes[p] + 1
    BY <1>1, <1>2, <2>4 DEF AddStrike
  <2>6. Within(p)' /\ burnt'[p] <= 1 + count + Allowance(p)'
    BY <1>1, <1>2, <1>3, <1>4, <2>4, <2>5 DEF Within, Spent
  <2>7. \A q \in Managed : worker'[t].strikes[q] = IF q = p THEN count ELSE worker[t].strikes[q]
    BY <1>8, <2>3
  <2> HIDE DEF count, counted
  <2>8. \A q \in Managed : burnt'[q] <= 1 + worker'[t].strikes[q] + Allowance(q)'
    <3>1. SUFFICES ASSUME NEW q \in Managed
                   PROVE  burnt'[q] <= 1 + worker'[t].strikes[q] + Allowance(q)'
      OBVIOUS
    <3>2. CASE q = p
      BY <2>6, <2>7, <3>2
    <3>3. CASE q # p
      BY <1>2, <1>4, <1>6, <2>7, <3>3 DEF Spent
    <3> QED
      BY <3>2, <3>3
  <2>9. Burns(t)'
    BY <1>6, <2>3, <2>6, <2>8 DEF Burns, Starting, Looping, Spent
  <2> QED
    BY <1>1, <1>5, <2>3, <2>9, OfTheOne
<1> QED
  BY <1>9, <1>10

\* The replacement is granted once: what it allows was not spent yet.
LEMMA ReplaceBurns ==
    ASSUME Both, NEW t \in Threads, NEW p \in Managed, p = worker[t].speaker, Replace(t)
    PROVE  Breaker'
<1>1. worker[t].pc = "trip" /\ p \in Managed /\ p \notin replaced /\ burnt' = burnt
      /\ replaced' = replaced \cup {p} /\ strikes' = [strikes EXCEPT ![p] = 0]
  BY DEF Replace, Both, Inv, Speaks
<1>2. Alone(t) /\ worker'[t].pc = "revive" /\ worker'[t].speaker = p
  BY GoesTo DEF Replace, Both, Inv, WorkerPc
<1>3. /\ Limit \in Nat /\ Limit >= 1
      /\ \A q \in Managed : burnt[q] \in Nat /\ strikes[q] \in Nat
  BY Numbers DEF Both
<1>4. strikes'[p] = 0 /\ \A q \in Managed : q # p => strikes'[q] = strikes[q]
  BY <1>1 DEF Both, Inv, TypeOK
<1>5. /\ Allowance(p)' = Limit /\ Allowance(p) = 0
      /\ \A q \in Managed : q # p => Allowance(q)' = Allowance(q)
  BY <1>1 DEF Allowance
<1>6. /\ \A q \in Managed : q # p => Within(q)
      /\ Spent(p, Limit + 1)
  BY <1>1 DEF Both, Breaker, Burns
<1>7. \A q \in Managed : Within(q)'
  <2>1. Within(p)'
    BY <1>1, <1>3, <1>4, <1>5, <1>6 DEF Within, Spent
  <2>2. \A q \in Managed : q # p => Within(q)'
    BY <1>1, <1>4, <1>5, <1>6 DEF Within, Spent
  <2> QED
    BY <2>1, <2>2
<1>8. burnt'[p] <= Limit + 1
  BY <1>1, <1>3, <1>5, <1>6 DEF Spent
<1>9. Burns(t)'
  BY <1>1, <1>2, <1>7, <1>8 DEF Burns, Looping
<1>10. BreakerHolds'
  BY <1>1 DEF Both, Breaker, BreakerHolds
<1> QED
  BY <1>1, <1>2, <1>9, <1>10, OfTheOne

LEMMA ReviveBurns ==
    ASSUME Both, NEW t \in Threads, NEW p \in Managed, p = worker[t].speaker, Revive(t)
    PROVE  Breaker'
<1>1. /\ worker[t].pc = "revive" /\ UNCHANGED <<burnt, replaced>> /\ Goes(t, "drive")
      /\ strikes' = [strikes EXCEPT ![p] = 0]
  <2>1. strikes' = [strikes EXCEPT ![worker[t].speaker] = 0]
    BY DEF Revive
  <2>2. worker[t].pc = "revive" /\ UNCHANGED <<burnt, replaced>> /\ Goes(t, "drive")
    BY DEF Revive
  <2> QED
    BY <2>1, <2>2
<1>2. Alone(t) /\ worker'[t].pc = "drive"
  BY <1>1, GoesTo DEF Both, Inv, WorkerPc
<1>3. /\ p \in replaced /\ burnt[p] <= Limit + 1 /\ \A q \in Managed : Within(q)
  BY <1>1 DEF Both, Breaker, Burns, Starting
<1>4. /\ Limit \in Nat /\ Limit >= 1
      /\ \A q \in Managed : burnt[q] \in Nat /\ strikes[q] \in Nat
  BY Numbers DEF Both
<1>5. strikes'[p] = 0 /\ \A q \in Managed : q # p => strikes'[q] = strikes[q]
  BY <1>1 DEF Both, Inv, TypeOK
<1>6. Allowance(p)' = Limit /\ \A q \in Managed : Allowance(q)' = Allowance(q)
  BY <1>1, <1>3 DEF Allowance
<1>7. \A q \in Managed : Within(q)'
  <2>1. Within(p)'
    BY <1>1, <1>3, <1>4, <1>5, <1>6 DEF Within, Spent
  <2>2. \A q \in Managed : q # p => Within(q)'
    BY <1>1, <1>3, <1>5, <1>6 DEF Within, Spent
  <2> QED
    BY <2>1, <2>2
<1>8. Burns(t)'
  BY <1>2, <1>7 DEF Burns, Looping
<1>9. BreakerHolds'
  BY <1>1 DEF Both, Breaker, BreakerHolds
<1> QED
  BY <1>1, <1>2, <1>8, <1>9, OfTheOne

LEMMA EndingBurns ==
    ASSUME Both, NEW t \in Threads,
           GiveUp(t) \/ Escalate(t) \/ Report(t) \/ End(t) \/ Raise(t)
    PROVE  Breaker'
<1>1. worker[t].pc # "dead" /\ UNCHANGED <<burnt, strikes, replaced>>
  BY DEF GiveUp, Escalate, Report, End, Raise, durable
<1>2. worker \in [Threads -> WorkerRow] /\ [Dead EXCEPT !.pc = "report"] \in WorkerRow
      /\ Dead \in WorkerRow /\ [Dead EXCEPT !.pc = "ending"] \in WorkerRow
  <2>1. worker \in [Threads -> WorkerRow]
    BY DEF Both, Inv, TypeOK, WorkerRow
  <2>2. [Dead EXCEPT !.pc = "ending"] \in WorkerRow
    BY DeadRow, CleanCount DEF WorkerPc
  <2> QED
    BY <2>1, <2>2, ReportRow
<1>3. Alone(t) /\ worker'[t].pc \in {"escalate", "report", "ending", "dead"}
  <2>1. CASE GiveUp(t) \/ Report(t)
    BY <2>1, GoesTo DEF GiveUp, Report, Both, Inv, WorkerPc
  <2>2. CASE Escalate(t) \/ End(t)
    BY <1>2, <2>2 DEF Escalate, End, Alone, Dead
  <2>3. CASE Raise(t)
    BY <1>2, <2>3 DEF Raise, Alone, Dead
  <2> QED
    BY <2>1, <2>2, <2>3
<1> QED
  BY <1>1, <1>3, BurnsNothing DEF Starting, Looping

LEMMA AskingBurns ==
    ASSUME Both, Inv', NEW c \in Calls, Request(c) PROVE Breaker'
<1>1. burnt' = Clean
  <2>1. \E request \in Requests : Asks(c, request)
    <3>1. CASE Message(c)
      BY <3>1 DEF Message, Asks
    <3>2. CASE Resume(c)
      BY <3>2 DEF Resume, Asks
    <3>3. CASE RestartAgent(c)
      BY <3>3 DEF RestartAgent, Asks
    <3>4. CASE Pause(c) \/ Restart(c) \/ Stop(c)
      BY <3>4 DEF Pause, Restart, Stop, Asks
    <3> QED
      BY <3>1, <3>2, <3>3, <3>4 DEF Request
  <2> QED
    BY <2>1 DEF Asks
<1>2. UNCHANGED <<worker, replaced>>
  <2>1. CASE Message(c)
    BY <2>1 DEF Message, durable
  <2>2. CASE Resume(c)
    BY <2>2 DEF Resume, durable
  <2>3. CASE RestartAgent(c)
    BY <2>3 DEF RestartAgent, Forgiven
  <2>4. CASE Pause(c) \/ Restart(c) \/ Stop(c)
    BY <2>4 DEF Pause, Restart, Stop, Forgiven, durable
  <2> QED
    BY <2>1, <2>2, <2>3, <2>4 DEF Request
<1> QED
  BY <1>1, <1>2, Forgotten

LEMMA CallBurns ==
    ASSUME Both, Inv', NEW c \in Calls, Call(c) \/ CallRaises(c)
    PROVE  Breaker'
<1>1. CASE Spawn(c)
  <2>1. burnt' = Clean /\ replaced' = replaced
    BY <1>1 DEF Spawn, durable
  <2>2. \A t \in Threads : worker'[t].pc # "revive"
    <3>1. \A t \in Threads : worker[t].pc = "dead"
      BY <1>1 DEF Spawn, Spawnable, Live
    <3> QED
      BY <1>1, <3>1 DEF Spawn, Fresh, Dead, Both, Inv, TypeOK
  <2> QED
    BY <2>1, <2>2, Forgotten
<1>2. CASE ~Spawn(c)
  <2>1. UNCHANGED <<worker, burnt, strikes, replaced>>
    BY <1>2 DEF Call, Wake, Lookup, Join, SpawnRefused, PauseRoom, PauseSession,
       ResumeSession,
       CancelForRestart, JoinForRestart, Unwind, StopWorker, CallRaises, durable
  <2> QED
    BY <2>1 DEF Both, Breaker, BreakerHolds, Burns, Within, Spent, Allowance
<1> QED
  BY <1>1, <1>2

LEMMA BothHold == Spec => []Both
<1>1. Init => Both
  <2> SUFFICES ASSUME Init PROVE Both
    OBVIOUS
  <2>1. Inv
    BY InitInv
  <2>2. Limit \in Nat /\ \A p \in Managed : burnt[p] = 0 /\ strikes[p] = 0
    BY RunnerAssumption DEF Init, Clean
  <2>3. \A p \in Managed : Within(p)
    BY <2>2 DEF Init, Within, Spent, Allowance
  <2>4. \A t \in Threads : worker[t].pc \in {"drive", "dead"}
    BY DEF Init, Fresh, Dead
  <2>5. \A t \in Threads : Burns(t)
    BY <2>3, <2>4 DEF Burns, Looping
  <2>6. BreakerHolds
    BY <2>2 DEF BreakerHolds
  <2> QED
    BY <2>1, <2>5, <2>6 DEF Both, Breaker
<1>2. Both /\ [Next]_vars => Both'
  <2> SUFFICES ASSUME Both, [Next]_vars PROVE Both'
    OBVIOUS
  <2>1. Inv'
    BY NextInv DEF Both
  <2>2. ASSUME NEW t \in Threads, Worker(t) \/ Raise(t) PROVE Breaker'
    <3>1. worker[t].pc \in {"post", "trip", "revive"} => worker[t].speaker \in Managed
      BY DEF Both, Inv, Speaks
    <3>2. PostFailure(t) \/ Replace(t) \/ Revive(t) => worker[t].speaker \in Managed
      BY <3>1 DEF PostFailure, Replace, Revive
    <3> QED
      BY <2>2, <3>2, DriveBurns, LoopBurns, ReturnBurns, PostBurnsNothing, PostFailureBurns,
         ReplaceBurns, ReviveBurns, EndingBurns DEF Worker
  <2>3. ASSUME NEW c \in Calls, Request(c) \/ Call(c) \/ CallRaises(c) PROVE Breaker'
    BY <2>1, <2>3, AskingBurns, CallBurns
  <2>4. CASE Elsewhere \/ UNCHANGED vars
    <3>1. UNCHANGED <<worker, burnt, strikes, replaced>>
      <4>1. CASE Elsewhere
        BY <4>1 DEF Elsewhere, durable
      <4>2. CASE UNCHANGED vars
        BY <4>2 DEF vars, durable
      <4> QED
        BY <2>4, <4>1, <4>2
    <3> QED
      BY <2>1, <3>1 DEF Both, Breaker, BreakerHolds, Burns, Within, Spent, Allowance
  <2>5. CASE Crash
    <3>1. UNCHANGED <<burnt, strikes, replaced>>
          /\ \A t \in Threads : worker'[t].pc = "dead"
      BY <2>5 DEF Crash, durable, Dead
    <3> QED
      BY <2>1, <3>1 DEF Both, Breaker, BreakerHolds, Burns, Starting, Looping
  <2> QED
    BY <2>1, <2>2, <2>3, <2>4, <2>5 DEF Next, Both
<1> QED
  BY <1>1, <1>2, PTL DEF Spec

\* An agent that never answers is invoked in vain at most twice its limit and
\* once more until the human acts (conductor.py, recovery.py).
THEOREM BreakerStands == Spec => []BreakerHolds
<1>1. Both => BreakerHolds
  BY DEF Both, Breaker
<1> QED
  BY <1>1, BothHold, PTL

-----------------------------------------------------------------------------
(* The worker, the human's requests and the terminal keep to the floor.    *)

LEMMA WorkerRespectsFloor ==
    ASSUME Inv, NEW t \in Threads, Worker(t) \/ Raise(t)
    PROVE  [F!Next]_room
<1>1. worker[t].pc \in {"post", "revive"} => worker[t].speaker \in Managed
  BY DEF Inv, Speaks
<1>2. CASE PostAnswer(t) \/ PostFailure(t)
  BY <1>1, <1>2, SpeaksMoves DEF PostAnswer, PostFailure
<1>3. CASE Revive(t)
  BY <1>1, <1>3, RedirectMoves DEF Revive, F!Speakers
<1>4. CASE Complete(t)
  BY <1>4, StopsRoomMoves DEF Complete, Inv
<1>5. CASE ~(PostAnswer(t) \/ PostFailure(t) \/ Revive(t) \/ Complete(t))
  BY <1>5 DEF Worker, Drive, Check, Poll, TakeTurn, Return, PostRefused, Replace, GiveUp,
     Escalate, Report, End, Raise
<1> QED
  BY <1>2, <1>3, <1>4, <1>5

LEMMA CallRespectsFloor ==
    ASSUME Inv, NEW c \in Calls, Request(c) \/ Call(c) \/ CallRaises(c)
    PROVE  [F!Next]_room
<1>1. CASE Message(c)
  BY <1>1, RedirectMoves DEF Message
<1>2. CASE PauseRoom(c) \/ Resume(c)
  BY <1>2 DEF PauseRoom, Resume, F!Next, F!Human
<1>3. CASE Stop(c)
  BY <1>3, StopsRoomMoves DEF Stop, Inv
<1>4. CASE ~(Message(c) \/ PauseRoom(c) \/ Resume(c) \/ Stop(c))
  BY <1>4 DEF Request, Call, Pause, Restart, RestartAgent, Wake, Lookup, Join, Spawn,
     SpawnRefused, PauseSession, ResumeSession, CancelForRestart, JoinForRestart, Unwind,
     StopWorker, CallRaises
<1> QED
  BY <1>1, <1>2, <1>3, <1>4

\* Whatever a worker posts late and a request redirects, the room it meets moves
\* only as Floor lets it, which is what Room promises: nobody posts out of turn,
\* into a room that is paused, stopped or waiting for its human, and no stopped
\* room comes back (conductor.py, broker.py).
THEOREM RunnerRespectsFloor == Spec => [][F!Next]_room
<1>1. Inv /\ [Next]_vars => [F!Next]_room
  <2> SUFFICES ASSUME Inv, [Next]_vars PROVE [F!Next]_room
    OBVIOUS
  <2>1. CASE Elsewhere
    BY <2>1 DEF Elsewhere, F!Next, F!Speakers
  <2>2. CASE Crash \/ UNCHANGED vars
    BY <2>2 DEF Crash, vars
  <2> QED
    BY <2>1, <2>2, WorkerRespectsFloor, CallRespectsFloor DEF Next
<1> QED
  BY <1>1, InvHolds, PTL DEF Spec
=============================================================================
