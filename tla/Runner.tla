------------------------------- MODULE Runner -------------------------------
(***************************************************************************)
(* The managed runner of one active session: the registry of worker        *)
(* threads (runner/managed.py), the supervision loop and circuit breaker   *)
(* each worker runs (runner/conductor.py), and the human's requests that   *)
(* wake, cancel or restart them (ui/api.py).                               *)
(*                                                                         *)
(* The room is what a worker reads of it: its status, whether it awaits    *)
(* the human, and who has the floor.  It moves as Floor lets it, which is  *)
(* what Room promises: a post, a human's request and whatever happens at a *)
(* terminal are steps of Floor.  Phases shown to the human, prompts,       *)
(* replies and process groups are dropped.                                 *)
(***************************************************************************)
EXTENDS Naturals, FiniteSets

CONSTANTS
    Managed,            \* the agents this registry supervises
    Mixed,              \* does the team have agents it does not?
    Threads,            \* worker threads
    Calls,              \* request threads of the local server
    Limit,              \* consecutive failures that trip the breaker
    Requests,           \* what the human asks for
    JoinsTimeOut,       \* may a worker outlive the wait for its end?
    MaxRequests,        \* bound: requests of the human, and crashes of the server
    MaxElsewhere        \* bound: steps of the room from outside this server

ASSUME RunnerAssumption ==
    /\ Managed # {} /\ IsFiniteSet(Managed) /\ Threads # {}
    /\ {"outside", "none"} \cap Managed = {}
    /\ Mixed \in BOOLEAN /\ JoinsTimeOut \in BOOLEAN
    /\ Limit \in Nat \ {0}
    /\ Requests \subseteq {"message", "pause", "resume", "restart",
                           "restart_agent", "stop"}
    /\ MaxRequests \in Nat /\ MaxElsewhere \in Nat

VARIABLES
    session,            \* the status of the session
    room,               \* the status of its room, and the floor
    worker,             \* the worker threads
    cancel,             \* the session's cancel event: none, clear or set
    restarting,         \* the agents whose own cancel event is set
    strikes,            \* consecutive_failures of each agent, durable
    replaced,           \* agents that had their automatic replacement
    dropped,            \* agents that were dropped
    told,               \* the escalation about each agent: no, open, closed
    call,               \* the requests under way
    asked, elsewhere, crashes,
    burnt,              \* history: failed turns since the human acted or the
                        \* agent answered
    unheard,            \* history: supervision was left without a worker that
                        \* will look, by a gap of the code, since the last spawn
    lost                \* history: agents whose escalation a dying worker lost

durable == <<strikes, replaced, dropped, told>>
counts == <<asked, elsewhere, crashes, lost>>
vars == <<session, room, worker, cancel, restarting, durable, call, counts,
          burnt, unheard>>

\* The room, and what becomes of it.
F == INSTANCE Floor

Clean == [p \in Managed |-> 0]
Dead == [pc |-> "dead", speaker |-> "none", result |-> "ok", strikes |-> Clean]
Fresh == [Dead EXCEPT !.pc = "drive"]
IdleCall == [pc |-> "idle", agent |-> "none"]

\* How an invocation fails: "broken" (a crash, or no answer in time), which the
\* ladder of replacements is for, or "refused" (by the sign-in or the provider).
LadderKinds == {"broken"}
Failures == LadderKinds \cup {"refused"}

\* Threads have no identity: a new one is any that is not alive.
AnyOf(threads) == CHOOSE t \in threads : TRUE

Live == {t \in Threads : worker[t].pc # "dead"}

\* A worker that has decided to end, or is about to see its cancel event,
\* does not look at the room again.
Attentive == {t \in Live : cancel # "set" /\ worker[t].pc \notin {"report", "ending"}}

\* The session was just activated: by its worker, or by the human, whose
\* request will wake one.
Init ==
    /\ session = "active"
    /\ room \in [status : {"active"}, awaiting : {FALSE}, floor : Managed]
    /\ worker = [u \in Threads |-> IF u = AnyOf(Threads) THEN Fresh ELSE Dead]
    /\ cancel = "clear" /\ restarting = {}
    /\ strikes = Clean /\ replaced = {} /\ dropped = {}
    /\ told = [p \in Managed |-> "no"]
    /\ call = [c \in Calls |-> IdleCall]
    /\ asked = 0 /\ elsewhere = 0 /\ crashes = 0
    /\ burnt = Clean /\ unheard = FALSE /\ lost = {}

-----------------------------------------------------------------------------
(* The worker.                                                             *)

Goes(t, pc) == worker' = [worker EXCEPT ![t].pc = pc]

\* Back in the loop, with the strikes of this run.
Loops(t, count) ==
    worker' = [worker EXCEPT ![t] = [Dead EXCEPT !.pc = "check", !.strikes = count]]

AddStrike(n) == IF n < Limit THEN n + 1 ELSE n  \* only compared with Limit

\* _drive builds a conductor: its strikes start from the durable ones.
Drive(t) ==
    /\ worker[t].pc = "drive"
    /\ Loops(t, strikes)
    /\ UNCHANGED <<session, room, cancel, restarting, durable, call, counts,
                   burnt, unheard>>

\* The loop: the cancel event first, then the state of the room.
Check(t) ==
    /\ worker[t].pc = "check"
    /\ \/ /\ \/ cancel = "set" \/ room.status # "active" \/ room.awaiting
             \/ room.floor = "none" \/ (room.floor = "outside" /\ ~Mixed)
          /\ worker' = [worker EXCEPT ![t] = [Dead EXCEPT !.pc = "report"]]
       \/ /\ cancel # "set" /\ room.status = "active" /\ ~room.awaiting
          /\ \/ (room.floor = "outside" /\ Mixed) /\ Goes(t, "poll")
             \/ /\ room.floor \in Managed
                /\ worker' = [worker EXCEPT ![t].pc = "turn", ![t].speaker = room.floor]
    /\ UNCHANGED <<session, room, cancel, restarting, durable, call, counts,
                   burnt, unheard>>

\* Mutant: it waits for the end of the session.
PollForTheEnd(t) ==
    /\ worker[t].pc = "poll"
    /\ cancel = "set" \/ session # "active" \/ room.status # "active"
    /\ Goes(t, "report")
    /\ UNCHANGED <<session, room, cancel, restarting, durable, call, counts,
                   burnt, unheard>>

\* A mixed team's worker stays while an outsider has the floor.
Poll(t) ==
    /\ worker[t].pc = "poll"
    /\ \/ (cancel = "set" \/ session # "active") /\ Goes(t, "report")
       \/ /\ cancel # "set" /\ session = "active"
          /\ room.status # "active" \/ room.awaiting \/ room.floor # "outside"
          /\ Goes(t, "drive")
    /\ UNCHANGED <<session, room, cancel, restarting, durable, call, counts,
                   burnt, unheard>>

HasFloor(p) == room.status = "active" /\ ~room.awaiting /\ room.floor = p

\* _take_turn looks again: a human may have taken the floor meanwhile.  An
\* agent that is invoked is active again, dropped or not.
TakeTurn(t) ==
    LET p == worker[t].speaker IN
    /\ worker[t].pc = "turn"
    /\ \/ HasFloor(p) /\ Goes(t, "invoke") /\ dropped' = dropped \ {p}
       \/ ~HasFloor(p) /\ Loops(t, worker[t].strikes) /\ UNCHANGED dropped
    /\ UNCHANGED <<session, room, cancel, restarting, strikes, replaced, told,
                   call, counts, burnt, unheard>>

\* The session's event or the agent's own.
Cancelled(p) == cancel = "set" \/ p \in restarting

\* The agent's process ended.  An answer that came while a cancel event was
\* set is no answer; a time-out is one.  The bridge keeps the strikes.
Return(t) ==
    LET p == worker[t].speaker IN
    /\ worker[t].pc = "invoke"
    /\ \E result \in Failures \cup {"ok", "cancelled"} :
          /\ IF Cancelled(p) THEN result \in {"cancelled", "broken"}
                             ELSE result # "cancelled"
          /\ worker' = [worker EXCEPT ![t].pc = "post", ![t].result = result]
          /\ strikes' = CASE result = "ok" -> [strikes EXCEPT ![p] = 0]
                          [] result \in Failures -> [strikes EXCEPT ![p] = AddStrike(@)]
                          [] OTHER -> strikes
          /\ burnt' = IF result = "ok" THEN [burnt EXCEPT ![p] = 0] ELSE burnt
    /\ UNCHANGED <<session, room, cancel, restarting, replaced, dropped, told,
                   call, counts, unheard>>

\* Nothing is posted for a cancelled invocation, and the room may refuse a
\* post; neither counts.
PostRefused(t) ==
    LET p == worker[t].speaker IN
    /\ worker[t].pc = "post"
    /\ worker[t].result \in {"cancelled", "ok"} \/ ~HasFloor(p)
    /\ Loops(t, worker[t].strikes)
    /\ UNCHANGED <<session, room, cancel, restarting, durable, call, counts,
                   burnt, unheard>>

\* An answer is posted, and may ask to complete the session ...
PostAnswer(t) ==
    LET p == worker[t].speaker
        count == [worker[t].strikes EXCEPT ![p] = 0]
    IN  /\ worker[t].pc = "post" /\ worker[t].result = "ok" /\ HasFloor(p)
        /\ F!Speaks(p)
        /\ \/ Loops(t, count)
           \/ worker' = [worker EXCEPT ![t] = [Dead EXCEPT !.pc = "complete", !.strikes = count]]
        /\ UNCHANGED <<session, cancel, restarting, durable, call, counts, burnt, unheard>>

StopsRoom == F!Stop \/ (room.status = "stopped" /\ UNCHANGED room)

\* ... which the session accepts, and stops its room in the same transaction, or
\* refuses.
Complete(t) ==
    /\ worker[t].pc = "complete" /\ Loops(t, worker[t].strikes)
    /\ \/ session # "finished" /\ session' = "finished" /\ StopsRoom
       \/ UNCHANGED <<session, room>>
    /\ UNCHANGED <<cancel, restarting, durable, call, counts, burnt, unheard>>

\* Does this failure stop the supervision of p?
Trips(kind, count) == kind \notin LadderKinds \/ count >= Limit

\* A failure is posted; the breaker counts it.
PostFailure(t) ==
    LET p == worker[t].speaker
        count == AddStrike(worker[t].strikes[p])
    IN  /\ worker[t].pc = "post" /\ worker[t].result \in Failures /\ HasFloor(p)
        /\ F!Speaks(p)
        /\ burnt' = [burnt EXCEPT ![p] = @ + 1]
        /\ IF Trips(worker[t].result, count)
           THEN Goes(t, "trip")
           ELSE Loops(t, [worker[t].strikes EXCEPT ![p] = count])
        /\ UNCHANGED <<session, cancel, restarting, durable, call, counts, unheard>>

\* Mutant: the replacement is not recorded.
ReplaceAgain(t) ==
    LET p == worker[t].speaker IN
    /\ worker[t].pc = "trip" /\ worker[t].result \in LadderKinds /\ p \notin replaced
    /\ strikes' = [strikes EXCEPT ![p] = 0]
    /\ Goes(t, "revive")
    /\ UNCHANGED <<session, room, cancel, restarting, replaced, dropped, told, call,
                   counts, burnt, unheard>>

\* One replacement for a failure of the ladder ...
Replace(t) ==
    LET p == worker[t].speaker IN
    /\ worker[t].pc = "trip" /\ worker[t].result \in LadderKinds /\ p \notin replaced
    /\ replaced' = replaced \cup {p} /\ strikes' = [strikes EXCEPT ![p] = 0]
    /\ Goes(t, "revive")
    /\ UNCHANGED <<session, room, cancel, restarting, dropped, told, call, counts,
                   burnt, unheard>>

\* Mutant: the worker leaves the replacement to the next one.
ReviveAndEnd(t) ==
    LET p == worker[t].speaker IN
    /\ worker[t].pc = "revive" /\ Goes(t, "report")
    /\ strikes' = [strikes EXCEPT ![p] = 0]
    /\ dropped' = dropped \ {p}
    /\ F!Redirect(p) \/ UNCHANGED room
    /\ UNCHANGED <<session, cancel, restarting, replaced, told, call, counts,
                   burnt, unheard>>

\* ... whose task wakes a room that idled, and for which the worker goes on.  The
\* room refuses the task when it is stopped or the agent was removed from it.
Revive(t) ==
    LET p == worker[t].speaker IN
    /\ worker[t].pc = "revive" /\ Goes(t, "drive")
    /\ strikes' = [strikes EXCEPT ![p] = 0]
    /\ dropped' = dropped \ {p}
    /\ F!Redirect(p) \/ UNCHANGED room
    /\ UNCHANGED <<session, cancel, restarting, replaced, told, call, counts,
                   burnt, unheard>>

\* Every other failure is the human's: the agent's state, then the escalation.
GiveUp(t) ==
    LET p == worker[t].speaker IN
    /\ worker[t].pc = "trip"
    /\ worker[t].result \notin LadderKinds \/ p \in replaced
    /\ dropped' = IF worker[t].result \in LadderKinds THEN dropped \cup {p} ELSE dropped
    /\ Goes(t, "escalate")
    /\ UNCHANGED <<session, room, cancel, restarting, strikes, replaced, told,
                   call, counts, burnt, unheard>>

Escalate(t) ==
    /\ worker[t].pc = "escalate"
    /\ worker' = [worker EXCEPT ![t] = [Dead EXCEPT !.pc = "report"]]
    /\ told' = [told EXCEPT ![worker[t].speaker] = "open"]
    /\ UNCHANGED <<session, room, cancel, restarting, strikes, replaced, dropped,
                   call, counts, burnt, unheard>>

\* The worker shows why it stopped and discards the cancel event; its thread
\* is alive for a while longer.
Report(t) ==
    /\ worker[t].pc = "report" /\ Goes(t, "ending")
    /\ cancel' = "none"
    /\ UNCHANGED <<session, room, restarting, durable, call, counts, burnt, unheard>>

End(t) ==
    /\ worker[t].pc = "ending"
    /\ worker' = [worker EXCEPT ![t] = Dead]
    /\ UNCHANGED <<session, room, cancel, restarting, durable, call, counts,
                   burnt, unheard>>

\* Agents whose drop a worker among threads was about to escalate.
Escalating(threads) ==
    {worker[t].speaker : t \in {u \in threads : worker[u].pc = "escalate"}}

\* Whatever is raised in the thread, by the database or by an agent without a
\* command, ends it; only a phase is shown, and nothing is escalated.
Raise(t) ==
    /\ worker[t].pc \notin {"dead", "report", "ending"}
    /\ worker' = [worker EXCEPT ![t] = [Dead EXCEPT !.pc = "ending"]]
    /\ cancel' = "none" /\ unheard' = TRUE
    /\ lost' = lost \cup Escalating({t})
    /\ UNCHANGED <<session, room, restarting, durable, call, asked, elsewhere,
                   crashes, burnt>>

-----------------------------------------------------------------------------
(* The human's requests.                                                   *)

CallAt(c, pc) == call' = [call EXCEPT ![c].pc = pc]
CallEnds(c) == call' = [call EXCEPT ![c] = IdleCall]

\* Neither do request threads.
Asks(c, request) ==
    /\ call[c].pc = "idle" /\ c = AnyOf({d \in Calls : call[d].pc = "idle"})
    /\ request \in Requests /\ asked + crashes < MaxRequests /\ asked' = asked + 1
    /\ burnt' = Clean
    /\ UNCHANGED <<elsewhere, crashes, lost>>

\* A message is always for somebody.
Message(c) ==
    /\ Asks(c, "message") /\ CallAt(c, "wake")
    /\ \E p \in F!Speakers : F!Redirect(p)
    /\ UNCHANGED <<session, worker, cancel, restarting, durable, unheard>>

\* The registry is only asked to resume a session that is active.
Wake(c) ==
    /\ call[c].pc = "wake"
    /\ IF session = "active" THEN CallAt(c, "lookup") ELSE CallEnds(c)
    /\ UNCHANGED <<session, room, worker, cancel, restarting, durable, counts,
                   burnt, unheard>>

\* The registry looks at the agents' CLIs again before it starts a worker, and
\* does nothing when one is not ready.
NotReady(c) == CallEnds(c) /\ unheard' = (unheard \/ Attentive = {})

\* resume waits for a worker that was told to end, not for any other.
Lookup(c) ==
    /\ call[c].pc = "lookup"
    /\ \/ /\ CallAt(c, IF Live # {} /\ cancel = "set" THEN "join" ELSE "spawn")
          /\ UNCHANGED unheard
       \/ NotReady(c)
    /\ UNCHANGED <<session, room, worker, cancel, restarting, durable, counts, burnt>>

Join(c) ==
    /\ call[c].pc = "join" /\ (Live = {} \/ JoinsTimeOut)
    /\ CallAt(c, "spawn")
    /\ UNCHANGED <<session, room, worker, cancel, restarting, durable, counts,
                   burnt, unheard>>

\* Mutant: nobody looks whether a worker is alive.
AlwaysSpawnable == TRUE

\* Under the lock: one worker at a time.
Spawnable == Live = {}

Spawn(c) ==
    /\ call[c].pc = "spawn" /\ Spawnable /\ CallEnds(c)
    /\ Threads \ Live # {} /\ worker' = [worker EXCEPT ![AnyOf(Threads \ Live)] = Fresh]
    /\ cancel' = "clear" /\ burnt' = Clean /\ unheard' = FALSE
    /\ UNCHANGED <<session, room, restarting, durable, counts>>

\* A worker that is alive is left to it, even if it will not look again.
SpawnRefused(c) ==
    /\ call[c].pc = "spawn" /\ ~Spawnable /\ CallEnds(c)
    /\ unheard' = (unheard \/ Attentive = {})
    /\ UNCHANGED <<session, room, worker, cancel, restarting, durable, counts, burnt>>

SetCancel == cancel' = IF cancel = "none" THEN "none" ELSE "set"

Pause(c) ==
    /\ Asks(c, "pause") /\ SetCancel /\ CallAt(c, "pause_room")
    /\ UNCHANGED <<session, room, worker, restarting, durable, unheard>>

PauseRoom(c) ==
    /\ call[c].pc = "pause_room"
    /\ \/ room.status = "stopped" /\ CallEnds(c) /\ UNCHANGED room
       \/ F!Pause /\ CallAt(c, "pause")
    /\ UNCHANGED <<session, worker, cancel, restarting, durable, counts, burnt, unheard>>

PauseSession(c) ==
    /\ call[c].pc = "pause" /\ CallEnds(c)
    /\ session' = IF session = "active" THEN "paused" ELSE session
    /\ UNCHANGED <<room, worker, cancel, restarting, durable, counts, burnt, unheard>>

\* The room resumes first, then the session.
Resume(c) ==
    /\ Asks(c, "resume") /\ F!Resume /\ CallAt(c, "resume")
    /\ UNCHANGED <<session, worker, cancel, restarting, durable, unheard>>

\* The registry is not asked when the session was not paused: half a pause,
\* cut off by a crash, is resumed only by half.
ResumeSession(c) ==
    /\ call[c].pc = "resume"
    /\ \/ /\ session = "paused" /\ session' = "active" /\ CallAt(c, "lookup")
          /\ UNCHANGED unheard
       \/ /\ session # "paused" /\ CallEnds(c) /\ UNCHANGED session
          /\ unheard' = (unheard \/ Attentive = {})
    /\ UNCHANGED <<room, worker, cancel, restarting, durable, counts, burnt>>

Forgiven(agents) ==
    /\ strikes' = [p \in Managed |-> IF p \in agents THEN 0 ELSE strikes[p]]
    /\ dropped' = dropped \ agents
    /\ told' = [p \in Managed |-> IF told[p] = "open" THEN "closed" ELSE told[p]]
    /\ UNCHANGED replaced

\* Restart: every agent starts afresh, and every escalation is closed.
Restart(c) ==
    /\ Asks(c, "restart") /\ session = "active"
    /\ Forgiven(Managed) /\ CallAt(c, "cancel_for_restart")
    /\ UNCHANGED <<session, room, worker, cancel, restarting, unheard>>

\* The CLIs are looked at before the worker is told to end, not after.
CancelForRestart(c) ==
    /\ call[c].pc = "cancel_for_restart"
    /\ \/ SetCancel /\ CallAt(c, "join_for_restart") /\ UNCHANGED unheard
       \/ NotReady(c) /\ UNCHANGED cancel
    /\ UNCHANGED <<session, room, worker, restarting, durable, counts, burnt>>

\* A worker that outlives the wait is not doubled; the session is then left
\* "stopping".
JoinForRestart(c) ==
    /\ call[c].pc = "join_for_restart"
    /\ \/ Live = {} /\ CallAt(c, "spawn") /\ UNCHANGED unheard
       \/ Live # {} /\ JoinsTimeOut /\ CallEnds(c) /\ unheard' = TRUE
    /\ UNCHANGED <<session, room, worker, cancel, restarting, durable, counts, burnt>>

\* Restart of one agent: the escalations of all of them are closed.
RestartAgent(c) ==
    /\ Asks(c, "restart_agent")
    /\ \E p \in Managed :
          /\ Forgiven({p})
          /\ \/ session # "active" /\ UNCHANGED <<call, restarting>>
             \/ /\ session = "active" /\ restarting' = restarting \cup {p}
                /\ call' = [call EXCEPT ![c] = [pc |-> "unwind", agent |-> p]]
    /\ UNCHANGED <<session, room, worker, cancel, unheard>>

\* The signal is taken down after the invocation ended, or after a while; a
\* worker that is alive is trusted to invoke the agent again.
Unwind(c) ==
    /\ call[c].pc = "unwind"
    /\ \/ JoinsTimeOut
       \/ \A t \in Live : worker[t].pc = "invoke" => worker[t].speaker # call[c].agent
    /\ restarting' = restarting \ {call[c].agent}
    /\ \/ Live = {} /\ CallAt(c, "spawn") /\ UNCHANGED unheard
       \/ Live # {} /\ CallEnds(c) /\ unheard' = (unheard \/ Attentive = {})
       \/ NotReady(c)
    /\ UNCHANGED <<session, room, worker, cancel, durable, counts, burnt>>

\* Stop: the rows first, in one transaction, then the worker.
Stop(c) ==
    /\ Asks(c, "stop") /\ session # "finished"
    /\ session' = "finished" /\ StopsRoom /\ CallAt(c, "cancel")
    /\ UNCHANGED <<worker, cancel, restarting, durable, unheard>>

StopWorker(c) ==
    /\ call[c].pc = "cancel" /\ SetCancel /\ CallEnds(c)
    /\ UNCHANGED <<session, room, worker, restarting, durable, counts, burnt, unheard>>

\* The database may refuse any statement of a request, which ends it there.
CallRaises(c) ==
    /\ call[c].pc \in {"wake", "pause_room", "pause", "resume"}
    /\ CallEnds(c) /\ unheard' = (unheard \/ Attentive = {})
    /\ UNCHANGED <<session, room, worker, cancel, restarting, durable, counts, burnt>>

-----------------------------------------------------------------------------
\* A managed agent has the floor of a live room.
Waiting == session = "active" /\ room.status = "active" /\ ~room.awaiting
           /\ room.floor \in Managed

\* At a terminal an agent that is not managed speaks, or the human does anything
\* to the room; nobody tells the registry.
Elsewhere ==
    /\ elsewhere < MaxElsewhere /\ elsewhere' = elsewhere + 1
    /\ F!Speaks("outside") \/ F!Human
    /\ room' # room
    /\ UNCHANGED <<session, worker, cancel, restarting, durable, call, asked,
                   crashes, lost, burnt>>
    /\ unheard' = (unheard \/ (Attentive = {} /\ Waiting'))

\* The server dies, and starts again without workers.
Crash ==
    /\ asked + crashes < MaxRequests /\ crashes' = crashes + 1
    /\ worker' = [t \in Threads |-> Dead] /\ cancel' = "none" /\ restarting' = {}
    /\ call' = [c \in Calls |-> IdleCall] /\ unheard' = TRUE
    /\ lost' = lost \cup Escalating(Threads)
    /\ UNCHANGED <<session, room, durable, asked, elsewhere, burnt>>

Worker(t) ==
    \/ Drive(t) \/ Check(t) \/ Poll(t) \/ TakeTurn(t) \/ Return(t)
    \/ PostRefused(t) \/ PostAnswer(t) \/ Complete(t) \/ PostFailure(t)
    \/ Replace(t) \/ Revive(t) \/ GiveUp(t) \/ Escalate(t) \/ Report(t) \/ End(t)

Request(c) ==
    \/ Message(c) \/ Pause(c) \/ Resume(c) \/ Restart(c) \/ RestartAgent(c) \/ Stop(c)

Call(c) ==
    \/ Wake(c) \/ Lookup(c) \/ Join(c) \/ Spawn(c) \/ SpawnRefused(c)
    \/ PauseRoom(c) \/ PauseSession(c) \/ ResumeSession(c)
    \/ CancelForRestart(c) \/ JoinForRestart(c) \/ Unwind(c) \/ StopWorker(c)

Next == \/ \E t \in Threads : Worker(t) \/ Raise(t)
        \/ \E c \in Calls : Request(c) \/ Call(c) \/ CallRaises(c)
        \/ Elsewhere \/ Crash

\* Some worker runs, if one can, and some request; an invocation ends, by its
\* time-out at the latest.  Each of their steps moves its own program counter.
Fairness == /\ WF_worker(\E t \in Threads : Worker(t))
            /\ WF_call(\E c \in Calls : Call(c))

Spec == Init /\ [][Next]_vars
LiveSpec == Spec /\ Fairness

-----------------------------------------------------------------------------
(* What the code must keep.                                                *)

WorkerPc == {"dead", "drive", "check", "poll", "turn", "invoke", "post", "complete",
             "trip", "revive", "escalate", "report", "ending"}
CallPc == {"idle", "wake", "lookup", "join", "spawn", "pause_room", "pause",
           "resume", "cancel_for_restart", "join_for_restart", "unwind", "cancel"}

TypeOK ==
    /\ session \in {"active", "paused", "finished"}
    /\ room \in [status : {"active", "paused", "stopped"}, awaiting : BOOLEAN,
                 floor : F!Floors]
    /\ worker \in [Threads -> [pc : WorkerPc, speaker : Managed \cup {"none"},
                               result : Failures \cup {"ok", "cancelled"},
                               strikes : [Managed -> 0..Limit]]]
    /\ cancel \in {"none", "clear", "set"}
    /\ restarting \subseteq Managed /\ replaced \subseteq Managed
    /\ dropped \subseteq Managed
    /\ strikes \in [Managed -> 0..Limit]
    /\ told \in [Managed -> {"no", "open", "closed"}]
    /\ call \in [Calls -> [pc : CallPc, agent : Managed \cup {"none"}]]
    /\ asked \in Nat /\ elsewhere \in Nat /\ crashes \in Nat
    /\ burnt \in [Managed -> Nat] /\ unheard \in BOOLEAN /\ lost \subseteq Managed

\* However requests race, one worker supervises the session: two would take
\* the floor of the same agent and post for it twice.
SingleWorker == \A t, u \in Live : t = u

\* Between two acts of the human an agent that never answers burns its
\* strikes, one automatic replacement and the strikes of that, and no more,
\* however often the worker starts its loop anew: one more only for a failure
\* that was being posted while a restart forgave it.
BreakerHolds == \A p \in Managed : burnt[p] <= 2 * Limit + 1

\* An agent that is dropped was escalated, or is about to be, unless the worker
\* died in between.
DropIsTold ==
    \A p \in dropped :
        \/ told[p] # "no" \/ p \in lost
        \/ \E t \in Live : worker[t].pc = "escalate" /\ worker[t].speaker = p

Told == \E p \in Managed : told[p] = "open"
Attended == Attentive # {} \/ \E c \in Calls : call[c].pc # "idle"

\* While an agent has the floor somebody is at work on it, unless the human
\* was told that an agent failed, or supervision ended in one of the ways the
\* code has no answer to (unheard); and no agent is dropped without telling the
\* human.
NobodyWaitsAlone == (Waiting => Attended \/ Told \/ unheard) /\ DropIsTold

\* ... and it is invoked in the end, whatever the other agents did.
Invoked(p) == \E t \in Live : worker[t].pc = "invoke" /\ worker[t].speaker = p

FloorIsServed ==
    \A p \in Managed :
        (Waiting /\ room.floor = p)
            ~> (Invoked(p) \/ ~(Waiting /\ room.floor = p) \/ Told \/ unheard
                \/ cancel = "set")

-----------------------------------------------------------------------------
(* What a comment says and the code does not do.                           *)

\* "Once this reply returns the floor to a managed participant, pick the
\* durable session back up without asking the human to restart anything"
\* (ui/api.py, message).
ReplyIsPickedUp == Waiting => Attended \/ Told
=============================================================================
