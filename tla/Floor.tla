-------------------------------- MODULE Floor --------------------------------
(***************************************************************************)
(* The floor of a room, without the queue behind it: what Room promises to *)
(* whoever watches the room, and all that Runner knows of one.  One        *)
(* participant at a time has the floor; only it may speak, or an agent     *)
(* that volunteers when nobody has it; and nobody is given the floor of a  *)
(* room that is paused, stopped or waiting for its human.                  *)
(*                                                                         *)
(* A participant that is not managed by the observer is "outside".         *)
(***************************************************************************)
EXTENDS Naturals

CONSTANT Managed        \* the agents the observer tells apart

VARIABLE room           \* [status, awaiting, floor]

Speakers == Managed \cup {"outside"}
Floors == Speakers \cup {"none"}

Init == room = [status |-> "active", awaiting |-> FALSE, floor |-> "none"]

Live == room.status # "stopped"

\* Every handler ends by giving a free floor to the head of a queue the
\* observer does not see, if the room it leaves lets agents speak.
Becomes(status, awaiting, kept) ==
    \E f \in {kept} \cup
             (IF kept = "none" /\ status = "active" /\ ~awaiting THEN Speakers ELSE {}) :
        room' = [status |-> status, awaiting |-> awaiting, floor |-> f]

\* An agent's message or pass ends its turn, counts it, and may be the last
\* one before the human must answer; or the message keeps the floor.
Speaks(p) ==
    /\ room.status = "active" /\ ~room.awaiting /\ room.floor \in {p, "none"}
    /\ \E awaiting \in BOOLEAN : Becomes("active", awaiting, "none")

\* A human's message to p: the queue is dropped, so p is next.
Redirect(p) ==
    /\ Live
    /\ room' = [status |-> room.status, awaiting |-> FALSE,
                floor |-> IF room.status = "active" THEN p ELSE "none"]

\* A human's message to nobody: whoever it interrupted is asked again.
Comment ==
    /\ Live
    /\ Becomes(room.status, FALSE, "none")
    /\ room.status = "active" /\ room.floor # "none" => room'.floor # "none"

\* A human passes, or the speaker is removed.
Leave == Live /\ room.floor # "none" /\ Becomes(room.status, room.awaiting, "none")

\* The queue changes, by a request, a withdrawal or a removal.
Queue == Live /\ Becomes(room.status, room.awaiting, room.floor)

Pause == Live /\ room' = [room EXCEPT !.status = "paused"]

Resume == Live /\ Becomes("active", room.awaiting, room.floor)

\* A new turn limit opens or closes the room to the agents, and activates nobody.
NewLimit == Live /\ \E awaiting \in BOOLEAN : room' = [room EXCEPT !.awaiting = awaiting]

Stop ==
    /\ Live
    /\ room' = [status |-> "stopped", awaiting |-> room.awaiting, floor |-> "none"]

Human == \/ \E p \in Speakers : Redirect(p)
         \/ Comment \/ Leave \/ Queue \/ Pause \/ Resume \/ NewLimit \/ Stop

Next == Human \/ \E p \in Speakers : Speaks(p)

Spec == Init /\ [][Next]_room
=============================================================================
