------------------------------- MODULE MCRoom -------------------------------
(***************************************************************************)
(* Small rooms for TLC.                                                    *)
(***************************************************************************)
EXTENDS Room, TLC

AgentSymmetry == Permutations(Agents)

\* The room once everybody invited at creation has joined, before anyone
\* spoke: reached from Init by one Join per agent.
JoinedInit ==
    /\ \E m \in Budgets :
          room = [status |-> "active", turn |-> None,
                  entry |-> [p \in Participants |-> None], before |-> {},
                  count |-> 0, max |-> m, awaiting |-> FALSE]
    /\ member = [p \in Participants |-> "active"]
    /\ invited = {}
    /\ notes = {}
    /\ tasks = [t \in Tasks |-> [status |-> "absent", assigned |-> None]]

\* A human's comment, or a direction as the program gives it: the reviewer it
\* names, if any, is an agent other than the lead (ui/api.py, manager.py, planning.py
\* and managed.py pair them; only a hand-made --meta would name another).
Directs(h) ==
    \/ Comment(h)
    \/ \E to \in Participants, t \in TaskRef, isTask \in BOOLEAN :
          \E reviewer \in (Agents \ {to}) \cup {None} : SendAsHuman(h, to, reviewer, t, isTask)

\* Every step but those that only publish or drop a work note, which no guard reads.
\* That an agent may speak is asked first, to spare TLC its arguments.
JoinedNext ==
    \/ Membership
    \/ Control
    \/ \E p \in Agents : MayAcquireFloor(p) /\ Speak(p)
    \/ \E h \in Humans : Directs(h)
    \/ \E p \in Participants :
          \/ PassTurn(p) \/ GiveUpSlot(p)
          \/ \E b \in {Queued, Optional} : RequestFloor(p, b)

JoinedSpec == JoinedInit /\ [][JoinedNext]_vars

\* For the liveness run: every step but a direction that names a reviewer.
LiveNext ==
    \/ Membership
    \/ Control
    \/ \E p \in Agents : Speak(p) \/ PublishActivity(p)
    \/ \E h \in Humans, to \in Address : SendAsHuman(h, to, None, None, FALSE)
    \/ \E p \in Participants :
          \/ PassTurn(p) \/ GiveUpSlot(p) \/ ClearActivity(p)
          \/ \E b \in {Queued, Optional} : RequestFloor(p, b)

LiveSpec == Init /\ [][LiveNext]_vars /\ Fairness
=============================================================================
