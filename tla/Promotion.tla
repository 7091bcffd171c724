------------------------------ MODULE Promotion ------------------------------
(***************************************************************************)
(* What the approval of a plan promises, without the calls, retries and    *)
(* crashes that keep the promise (Planning shows how the code does it).    *)
(* A plan is approved once, at one revision; the approved plan is promoted *)
(* once, into one coordination session; and a side task the human captures *)
(* meanwhile is kept, in order, and moves to that session with the         *)
(* promotion, in the same step.                                            *)
(***************************************************************************)
EXTENDS Naturals, Sequences

CONSTANTS
    Captures,               \* the side tasks the human may capture
    Revisions               \* the revisions that may be approved

VARIABLES
    stage,                  \* planning, approved or promoted
    approved,               \* the revision that was approved, 0 before
    planningBox,            \* the dropbox of the planning session
    queue,                  \* the captures that wait for the promotion
    coordinationBox         \* the dropbox of the coordination session

vars == <<stage, approved, planningBox, queue, coordinationBox>>

Held(x) == \E box \in {planningBox, queue, coordinationBox} :
              \E i \in 1..Len(box) : box[i] = x

Init ==
    /\ stage = "planning" /\ approved = 0
    /\ planningBox = <<>> /\ queue = <<>> /\ coordinationBox = <<>>

\* A capture is filed where the stage says; an end of either session may
\* refuse it, but nothing files it twice.
Capture(x) ==
    /\ ~Held(x)
    /\ \/ /\ stage = "planning"
          /\ planningBox' = Append(planningBox, x)
          /\ UNCHANGED <<queue, coordinationBox>>
       \/ /\ stage = "approved"
          /\ queue' = Append(queue, x)
          /\ UNCHANGED <<planningBox, coordinationBox>>
       \/ /\ stage = "promoted"
          /\ coordinationBox' = Append(coordinationBox, x)
          /\ UNCHANGED <<planningBox, queue>>
    /\ UNCHANGED <<stage, approved>>

Approve(r) ==
    /\ stage = "planning"
    /\ stage' = "approved" /\ approved' = r
    /\ UNCHANGED <<planningBox, queue, coordinationBox>>

Promote ==
    /\ stage = "approved"
    /\ stage' = "promoted"
    /\ coordinationBox' = coordinationBox \o queue
    /\ queue' = <<>>
    /\ UNCHANGED <<approved, planningBox>>

Next ==
    \/ \E x \in Captures : Capture(x)
    \/ \E r \in Revisions : Approve(r)
    \/ Promote

Spec == Init /\ [][Next]_vars
=============================================================================
