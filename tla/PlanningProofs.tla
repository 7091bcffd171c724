--------------------------- MODULE PlanningProofs ---------------------------
(***************************************************************************)
(* Proofs about Planning, for any number of request threads, captures,     *)
(* revisions, objections and crashes.                                      *)
(*                                                                         *)
(* After the types come two inductive invariants: Provisioning (what the   *)
(* promotion, the linked session and the requests that work on them know   *)
(* of each other) and Texts (what an approved text, and a request about to *)
(* approve one, rest on).  With them every step of the approval requests,  *)
(* the retries and the crashes is a step of Promotion or stutters on it.   *)
(***************************************************************************)
EXTENDS Planning, FiniteSetTheorems, SequenceTheorems, TLAPS

(***************************************************************************)
(* Types.                                                                  *)
(***************************************************************************)
LEMMA TurnsBound == MaxTurns \in Nat
<1>1. Cardinality(Calls) \in Nat
    BY FS_CardinalityType, PlanningAssumption
<1>2. MaxResumes \in Nat
    BY <1>1 DEF MaxResumes
<1> QED
    BY <1>2, PlanningAssumption DEF MaxTurns, Allowance

\* Every field of a request, so that one EXCEPT at a time can be typed.
LEMMA RequestFields ==
    ASSUME NEW r \in Request
    PROVE  /\ r.pc \in CallPc /\ r.saw \in Status /\ r.revision \in Nat
           /\ r.sha \in Nat /\ r.objection \in Nat /\ r.target \in Nat
           /\ r.contract \in BOOLEAN
BY DEF Request

LEMMA IdleRequest == IdleCall \in Request /\ IdleCall.pc = "idle"
BY DEF IdleCall, Request, CallPc, Status, Active

\* A request moves on, whatever it carries.
LEMMA RequestMoves ==
    ASSUME call \in [Calls -> Request], NEW c \in Calls, NEW r \in Request,
           call' = [call EXCEPT ![c] = r]
    PROVE  /\ call' \in [Calls -> Request] /\ call'[c] = r
           /\ \A d \in Calls \ {c} : call'[d] = call[d]
OBVIOUS

LEMMA RequestGoes ==
    ASSUME call \in [Calls -> Request], NEW c \in Calls, NEW pc \in CallPc
    PROVE  /\ CallAt(c, pc) =>
                /\ call' \in [Calls -> Request]
                /\ call'[c] = [call[c] EXCEPT !.pc = pc]
                /\ \A d \in Calls \ {c} : call'[d] = call[d]
           /\ Goes(c, pc) =>
                /\ call' \in [Calls -> Request]
                /\ call'[c] = [IdleCall EXCEPT !.pc = pc]
                /\ \A d \in Calls \ {c} : call'[d] = call[d]
           /\ CallEnds(c) =>
                /\ call' \in [Calls -> Request] /\ call'[c] = IdleCall
                /\ \A d \in Calls \ {c} : call'[d] = call[d]
<1>1. [call[c] EXCEPT !.pc = pc] \in Request
    BY DEF Request
<1>2. [IdleCall EXCEPT !.pc = pc] \in Request
    BY IdleRequest DEF Request
<1>3. CallAt(c, pc) => call' = [call EXCEPT ![c] = [call[c] EXCEPT !.pc = pc]]
    BY DEF CallAt
<1> QED
    BY <1>1, <1>2, <1>3, IdleRequest DEF Goes, CallEnds

\* However a request moves on, unless to a reservation, none is made ready.
LEMMA RequestLeaves ==
    ASSUME call \in [Calls -> Request], NEW c \in Calls,
           CallEnds(c) \/ \E pc \in CallPc \ {"reserve"} : CallAt(c, pc) \/ Goes(c, pc)
    PROVE  \A d \in Calls : call'[d] = call[d] \/ call'[d].pc # "reserve"
<1>1. call'[c].pc # "reserve" /\ \A d \in Calls \ {c} : call'[d] = call[d]
    <2>1. CASE CallEnds(c)
        <3>1. call'[c] = IdleCall /\ \A d \in Calls \ {c} : call'[d] = call[d]
            BY <2>1, IdleRequest DEF CallEnds
        <3> QED
            BY <3>1, IdleRequest
    <2>2. ASSUME NEW pc \in CallPc, pc # "reserve", CallAt(c, pc) \/ Goes(c, pc)
          PROVE  call'[c].pc # "reserve" /\ \A d \in Calls \ {c} : call'[d] = call[d]
        <3>1. [call[c] EXCEPT !.pc = pc].pc = pc /\ [IdleCall EXCEPT !.pc = pc].pc = pc
            BY DEF Request, IdleCall
        <3> QED
            BY <2>2, <3>1, RequestGoes
    <2> QED
        BY <2>1, <2>2
<1> QED
    BY <1>1

LEMMA RequestAdopts ==
    ASSUME call \in [Calls -> Request], NEW c \in Calls, NEW n \in Nat,
           NEW has \in BOOLEAN, Adopt(c, n, has)
    PROVE  /\ call' \in [Calls -> Request]
           /\ call'[c] = [call[c] EXCEPT !.pc = "gates", !.target = n,
                                         !.contract = has]
           /\ \A d \in Calls \ {c} : call'[d] = call[d]
<1>1. [call[c] EXCEPT !.pc = "gates", !.target = n, !.contract = has] \in Request
    BY DEF Request, CallPc
<1>2. call' = [call EXCEPT ![c] = [call[c] EXCEPT !.pc = "gates", !.target = n,
                                                  !.contract = has]]
    BY DEF Adopt
<1> QED
    BY <1>1, <1>2

\* The plan's row, one field at a time.
LEMMA PlanMoves ==
    ASSUME NEW row \in PlanRow
    PROVE  /\ \A s \in Status : [row EXCEPT !.status = s] \in PlanRow
           /\ \A r \in Nat : [row EXCEPT !.revision = r] \in PlanRow
           /\ \A t \in Nat : [row EXCEPT !.sha = t] \in PlanRow
           /\ \A n \in Nat : [row EXCEPT !.resumes = n] \in PlanRow
           /\ \A t \in Nat : [row EXCEPT !.turns = t] \in PlanRow
BY DEF PlanRow

LEMMA Raised ==
    ASSUME NEW os \in Seq(Objection), NEW kind \in Kinds
    PROVE  Raise(os, kind) \in Seq(Objection)
BY DEF Raise, Objection

LEMMA ObjectionMoves ==
    ASSUME NEW o \in Objection, NEW status \in {"open", "resolved", "waived"}
    PROVE  [o EXCEPT !.status = status] \in Objection
BY DEF Objection

LEMMA Settled ==
    ASSUME NEW os \in Seq(Objection), NEW settled
    PROVE  Resolve(os, settled) \in Seq(Objection)
<1> DEFINE Moved(o) == [o EXCEPT !.status = "resolved"]
<1>1. \A o \in Objection : Moved(o) \in Objection
    BY ObjectionMoves
<1>2. Resolve(os, settled) = [o \in 1..Len(os) |-> IF o \in settled THEN Moved(os[o]) ELSE os[o]]
    BY Zenon DEF Resolve
<1> HIDE DEF Moved
<1>3. Resolve(os, settled) \in [1..Len(os) -> Objection]
    BY <1>1, <1>2
<1> QED
    BY <1>3

\* One element of a sequence is replaced.
LEMMA Replaced ==
    ASSUME NEW S, NEW s \in Seq(S), NEW n, NEW e,
           n \in 1..Len(s) => e \in S
    PROVE  /\ [s EXCEPT ![n] = e] \in Seq(S)
           /\ Len([s EXCEPT ![n] = e]) = Len(s)
           /\ \A m \in 1..Len(s) : [s EXCEPT ![n] = e][m] = IF m = n THEN e ELSE s[m]
<1>1. s \in [1..Len(s) -> S] /\ Len(s) \in Nat
    OBVIOUS
<1>2. [s EXCEPT ![n] = e] \in [1..Len(s) -> S]
    BY <1>1
<1> QED
    BY <1>1, <1>2

LEMMA Waived ==
    ASSUME NEW os \in Seq(Objection), NEW o
    PROVE  [os EXCEPT ![o].status = "waived"] \in Seq(Objection)
<1> DEFINE e == [os[o] EXCEPT !.status = "waived"]
<1>1. o \in 1..Len(os) => e \in Objection
    <2>1. o \in 1..Len(os) => os[o] \in Objection
        OBVIOUS
    <2> QED
        BY <2>1, ObjectionMoves
<1>2. [os EXCEPT ![o].status = "waived"] = [os EXCEPT ![o] = e]
    OBVIOUS
<1> HIDE DEF e
<1> QED
    BY <1>1, <1>2, Replaced

\* The linked session, one field at a time.
LEMMA LinkedRow ==
    ASSUME NEW row \in Linked
    PROVE  /\ [row EXCEPT !.gates = TRUE] \in Linked
           /\ [row EXCEPT !.contract = TRUE] \in Linked
           /\ [row EXCEPT !.stopped = TRUE] \in Linked
           /\ \A q \in Seq(Captures) : [row EXCEPT !.drops = q] \in Linked
           /\ row.drops \in Seq(Captures) /\ row.contract \in BOOLEAN
BY DEF Linked

LEMMA FirstLinked == linked \in Seq(Linked) /\ linked # <<>> =>
                         1 \in 1..Len(linked) /\ linked[1] \in Linked
OBVIOUS

LEMMA OneLinked == linked \in Seq(Linked) /\ Len(linked) = 1 =>
                       1 \in 1..Len(linked) /\ linked[1] \in Linked
OBVIOUS

LEMMA OnlyLinked ==
    linked \in Seq(Linked) /\ linked # <<>> /\ Len(linked) <= 1 =>
        Len(linked) = 1 /\ linked[1] \in Linked /\ linked[1].contract \in BOOLEAN
<1>1. ASSUME linked \in Seq(Linked), linked # <<>>, Len(linked) <= 1
      PROVE  Len(linked) = 1
    <2>1. Len(linked) \in Nat /\ Len(linked) # 0
        BY <1>1
    <2>2. \A n \in Nat : n # 0 /\ n <= 1 => n = 1
        OBVIOUS
    <2> QED
        BY <1>1, <2>1, <2>2, Zenon
<1> QED
    BY <1>1, OneLinked, LinkedRow

LEMMA Extended ==
    ASSUME NEW S, NEW s \in Seq(S), NEW e \in S
    PROVE  /\ Append(s, e) \in Seq(S)
           /\ \A n \in 1..Len(s) : n \in 1..Len(Append(s, e)) /\ Append(s, e)[n] = s[n]
OBVIOUS

LEMMA FreshLinked ==
    [gates |-> FALSE, contract |-> FALSE, stopped |-> FALSE, drops |-> <<>>] \in Linked
<1>1. <<>> \in Seq(Captures)
    OBVIOUS
<1> QED
    BY <1>1 DEF Linked

LEMMA LinkedMoves ==
    ASSUME linked \in Seq(Linked), NEW n \in 1..Len(linked), NEW row \in Linked,
           linked' = [linked EXCEPT ![n] = row]
    PROVE  /\ linked' \in Seq(Linked) /\ Len(linked') = Len(linked)
           /\ \A m \in 1..Len(linked) : linked'[m] = IF m = n THEN row ELSE linked[m]
BY Replaced

(***************************************************************************)
(* What the approval requests know.                                        *)
(***************************************************************************)
Finishing == {"gates", "contract", "finalize"}
Promoting == {"provision", "create"} \cup Finishing

\* A request works on the one linked session, and at each of its steps that
\* session has what the steps before it made.
Knows(r) ==
    /\ r.pc = "reserve" => r.revision # 0
    /\ r.pc \in Promoting => Reserved
    /\ r.pc \in Finishing => r.target = 1 /\ Len(linked) = 1
    /\ r.pc \in {"gates", "contract"} /\ r.contract => linked[1].contract
    /\ r.pc \in {"contract", "finalize"} => linked[1].gates
    /\ r.pc = "finalize" => linked[1].contract

Provisioning ==
    /\ Len(linked) <= 1
    /\ ~Reserved => linked = <<>> /\ pending = <<>>
    /\ promotion.coordination \in {0, 1}
    /\ Promoted => Len(linked) = 1 /\ linked[1].gates /\ linked[1].contract
                   /\ pending = <<>>
    /\ \A c \in Calls : Knows(call[c])

THEOREM InitialTypes == Init => TypeOK /\ Provisioning
<1> SUFFICES ASSUME Init PROVE TypeOK /\ Provisioning
    OBVIOUS
<1> USE DEF Init
<1>1. plan \in PlanRow /\ plan.turns <= MaxTurns
    BY TurnsBound DEF PlanRow, Status, Active
<1>2. call \in [Calls -> Request] /\ \A c \in Calls : call[c].pc = "idle"
    BY IdleRequest
<1>3. worker \in [pc : {"idle", "exhaust", "escalate", "read", "write"}, resumes : Nat]
    BY DEF IdleWorker
<1>4. promotion \in [revision : Nat, sha : Nat, coordination : Nat]
    BY DEF NoPromotion
<1>5. Len(bodies) = plan.revision /\ bodies \in Seq(BOOLEAN)
    OBVIOUS
<1>6. objections \in Seq(Objection) /\ pending \in Seq(Captures)
      /\ drops \in Seq(Captures) /\ linked \in Seq(Linked)
    OBVIOUS
<1>7. TypeOK
    BY <1>1, <1>2, <1>3, <1>4, <1>5, <1>6 DEF TypeOK
<1>8. Provisioning
    BY <1>2 DEF Provisioning, Knows, Finishing, Promoting, Reserved, Promoted, NoPromotion
<1> QED
    BY <1>7, <1>8

\* The worker's steps type what they write.
LEMMA WorkerTypes ==
    ASSUME TypeOK, Worker PROVE TypeOK'
<1> USE DEF TypeOK, loop, approval
<1>1. CASE TurnReturns
    <2> DEFINE turns == IF plan.turns < MaxTurns THEN plan.turns + 1 ELSE plan.turns
    <2>1. plan.turns \in Nat /\ MaxTurns \in Nat
        BY TurnsBound DEF PlanRow
    <2>2. turns \in Nat /\ turns <= MaxTurns
        BY <2>1
    <2>3. plan' = plan \/ plan' = [plan EXCEPT !.turns = turns]
        BY <1>1 DEF TurnReturns
    <2>4. worker' = [worker EXCEPT !.pc = "read"] \/ worker' = [worker EXCEPT !.pc = "exhaust"]
        BY <1>1 DEF TurnReturns, WorkerAt
    <2> HIDE DEF turns
    <2>5. plan' \in PlanRow /\ plan'.turns <= MaxTurns /\ plan'.revision = plan.revision
        BY <2>2, <2>3, PlanMoves DEF PlanRow
    <2> QED
        BY <2>4, <2>5, <1>1 DEF TurnReturns
<1>2. CASE Exhaust
    <2>1. plan' = plan \/ plan' = [plan EXCEPT !.status = "needs_human_resolution"]
        BY <1>2 DEF Exhaust
    <2>2. plan' \in PlanRow /\ plan'.turns = plan.turns /\ plan'.revision = plan.revision
        BY <2>1 DEF PlanRow, Status, Active
    <2>3. spent' \subseteq Nat
        BY <1>2 DEF Exhaust, PlanRow
    <2>4. worker' = [worker EXCEPT !.pc = "read"] \/ worker' = [worker EXCEPT !.pc = "escalate"]
        BY <1>2 DEF Exhaust, WorkerAt
    <2> QED
        BY <2>2, <2>3, <2>4, <1>2 DEF Exhaust
<1>3. CASE Escalate
    BY <1>3 DEF Escalate, WorkerAt
<1>4. CASE ReadForTurn
    BY <1>4 DEF ReadForTurn, IdleWorker, PlanRow
<1>5. CASE PlannerReplies
    <2>1. objections' \in Seq(Objection)
        <3>1. PICK settled \in SUBSET OpenAt(objections), fork \in BOOLEAN :
                 objections' = IF fork THEN Raise(Resolve(objections, settled), "fork")
                                       ELSE Resolve(objections, settled)
            BY <1>5 DEF PlannerReplies
        <3> QED
            BY <3>1, Settled, Raised DEF Kinds
    <2>2. worker' \in [pc : {"idle", "exhaust", "escalate", "read", "write"}, resumes : Nat]
        BY <1>5 DEF PlannerReplies, IdleWorker
    <2>3. CASE UNCHANGED <<plan, bodies, spent, exhausted>>
        BY <2>1, <2>2, <2>3, <1>5 DEF PlannerReplies
    <2>4. CASE ~UNCHANGED <<plan, bodies, spent, exhausted>>
        <3> DEFINE r == plan.revision + 1
                   over == r >= RevisionBudget * Allowance(worker.resumes)
                   s == IF over THEN "needs_human_resolution" ELSE "awaiting_review"
        <3>1. /\ \E valid \in BOOLEAN : bodies' = Append(bodies, valid)
              /\ plan' = [plan EXCEPT !.revision = r, !.status = s]
              /\ spent' = spent \cup {r} \/ spent' = spent
              /\ exhausted' = (exhausted \/ over)
            BY <1>5, <2>4 DEF PlannerReplies
        <3>2. r \in Nat /\ s \in Status
            BY DEF PlanRow, Status, Active
        <3>3. exhausted' \in BOOLEAN
            BY <3>1
        <3> HIDE DEF s, over
        <3>4. plan' \in PlanRow /\ plan'.turns = plan.turns /\ plan'.revision = r
            BY <3>1, <3>2 DEF PlanRow
        <3>5. bodies' \in Seq(BOOLEAN) /\ Len(bodies') = r
            <4>1. PICK valid \in BOOLEAN : bodies' = Append(bodies, valid)
                BY <3>1
            <4> QED
                BY <4>1
        <3>6. spent' \subseteq Nat
            BY <3>1, <3>2
        <3> QED
            BY <2>1, <2>2, <3>3, <3>4, <3>5, <3>6, <1>5 DEF PlannerReplies
    <2> QED
        BY <2>3, <2>4
<1>6. CASE ReviewerReplies
    <2>1. PICK raised \in SUBSET Concerns :
             LET fork == IF "fork" \in raised THEN Raise(objections, "fork")
                                              ELSE objections
                 block == IF "blocking" \in raised THEN Raise(fork, "blocking")
                                                   ELSE fork
                 os == IF "advisory" \in raised THEN Raise(block, "advisory")
                                                ELSE block
             IN  /\ objections' = os
                 /\ \/ UNCHANGED <<plan, closed>>
                    \/ \E verdict \in {"approve", "revise"} : CloseReview(verdict, os)
        BY <1>6 DEF ReviewerReplies
    <2>2. objections' \in Seq(Objection)
        BY <2>1, Raised DEF Kinds
    <2>3. \/ UNCHANGED <<plan, closed>>
          \/ /\ plan' = [plan EXCEPT !.status = "ready"]
             /\ closed' = closed \cup {plan.revision}
          \/ plan' = [plan EXCEPT !.status = "under_revision"] /\ closed' = closed
        BY <2>1 DEF CloseReview
    <2>4. plan' \in PlanRow /\ plan'.turns = plan.turns /\ plan'.revision = plan.revision
        BY <2>3 DEF PlanRow, Status, Active
    <2>5. closed' \subseteq Nat
        BY <2>3 DEF PlanRow
    <2>6. worker' \in [pc : {"idle", "exhaust", "escalate", "read", "write"}, resumes : Nat]
        BY <1>6 DEF ReviewerReplies, IdleWorker
    <2> QED
        BY <2>2, <2>4, <2>5, <2>6, <1>6 DEF ReviewerReplies
<1> QED
    BY <1>1, <1>2, <1>3, <1>4, <1>5, <1>6 DEF Worker

\* So do the human's controls.
LEMMA ControlTypes ==
    ASSUME TypeOK, NEW c \in Calls, Control(c) PROVE TypeOK'
<1> USE DEF TypeOK, loop, approval
<1>1. CASE ReadForReopen(c)
    <2>1. "reopen" \in CallPc
        BY DEF CallPc
    <2> QED
        BY <1>1, <2>1, RequestGoes DEF ReadForReopen
<1>2. CASE Reopen(c)
    <2>1. plan' = [plan EXCEPT !.status = "under_revision"]
        BY <1>2 DEF Reopen
    <2>2. plan' \in PlanRow /\ plan'.turns = plan.turns /\ plan'.revision = plan.revision
        BY <2>1 DEF PlanRow, Status, Active
    <2>3. "idle" \in CallPc
        BY DEF CallPc
    <2>4. call' \in [Calls -> Request]
        BY <1>2, <2>3, RequestGoes DEF Reopen
    <2> QED
        BY <1>2, <2>2, <2>4 DEF Reopen
<1>3. CASE ReadForWaive(c)
    <2>1. PICK o \in OpenAt(objections) :
             call' = [call EXCEPT ![c] = [IdleCall EXCEPT !.pc = "waive",
                          !.saw = plan.status, !.revision = plan.revision,
                          !.objection = o]]
        BY <1>3 DEF ReadForWaive
    <2>2. o \in Nat /\ plan.status \in Status /\ plan.revision \in Nat
        BY <2>1 DEF OpenAt, PlanRow
    <2>3. [IdleCall EXCEPT !.pc = "waive", !.saw = plan.status,
                           !.revision = plan.revision, !.objection = o] \in Request
        BY <2>2 DEF IdleCall, Request, CallPc
    <2>4. call' \in [Calls -> Request]
        BY <2>1, <2>3, RequestMoves
    <2> QED
        BY <1>3, <2>4 DEF ReadForWaive
<1>4. CASE Waive(c)
    <2>1. objections' \in Seq(Objection)
        BY <1>4, Waived DEF Waive
    <2>2. \/ plan' = plan
          \/ plan' = [plan EXCEPT !.status = "awaiting_review"]
          \/ plan' = [plan EXCEPT !.status = "drafting"]
        BY <1>4 DEF Waive
    <2>3. plan' \in PlanRow /\ plan'.turns = plan.turns /\ plan'.revision = plan.revision
        BY <2>2 DEF PlanRow, Status, Active
    <2>4. "idle" \in CallPc
        BY DEF CallPc
    <2>5. call' \in [Calls -> Request]
        BY <1>4, <2>4, RequestGoes DEF Waive
    <2> QED
        BY <1>4, <2>1, <2>3, <2>5 DEF Waive
<1>5. CASE ReadForResume(c)
    <2>1. "resume" \in CallPc
        BY DEF CallPc
    <2> QED
        BY <1>5, <2>1, RequestGoes DEF ReadForResume
<1>6. CASE ResumeBudget(c)
    <2> DEFINE more == plan.resumes + 1
    <2>0. more \in Nat
        BY DEF PlanRow
    <2>1. plan' = [plan EXCEPT !.resumes = more, !.status = "under_revision"]
        BY <1>6 DEF ResumeBudget
    <2> HIDE DEF more
    <2>2. plan' \in PlanRow /\ plan'.turns = plan.turns /\ plan'.revision = plan.revision
        BY <2>0, <2>1 DEF PlanRow, Status, Active
    <2>3. "idle" \in CallPc
        BY DEF CallPc
    <2>4. call' \in [Calls -> Request]
        BY <1>6, <2>3, RequestGoes DEF ResumeBudget
    <2> QED
        BY <1>6, <2>2, <2>4 DEF ResumeBudget
<1> QED
    BY <1>1, <1>2, <1>3, <1>4, <1>5, <1>6 DEF Control

\* And the requests that approve.
LEMMA ApprovalTypes ==
    ASSUME TypeOK, Provisioning, NEW c \in Calls, Approval(c) PROVE TypeOK'
<1> USE DEF TypeOK, loop, approval
<1>0. {"idle", "drift", "reserve", "provision", "create", "gates", "contract",
       "finalize"} \subseteq CallPc
    BY DEF CallPc
<1>1. CASE ReadForApprove(c)
    <2>1. CASE Goes(c, "drift") \/ Goes(c, "provision")
        BY <1>0, <1>1, <2>1, RequestGoes DEF ReadForApprove
    <2>2. CASE call' = [call EXCEPT ![c] = [IdleCall EXCEPT !.pc = "reserve",
                            !.revision = plan.revision, !.sha = plan.sha]]
        <3>1. [IdleCall EXCEPT !.pc = "reserve", !.revision = plan.revision,
                               !.sha = plan.sha] \in Request
            BY IdleRequest DEF IdleCall, Request, CallPc, PlanRow
        <3>2. call' \in [Calls -> Request]
            BY <2>2, <3>1, RequestMoves
        <3> QED
            BY <1>1, <3>2 DEF ReadForApprove
    <2> QED
        BY <1>1, <2>1, <2>2 DEF ReadForApprove
<1>2. CASE ReturnForDrift(c)
    <2>1. plan' = [plan EXCEPT !.status = "under_revision", !.sha = tip]
        BY <1>2 DEF ReturnForDrift
    <2>2. plan' \in PlanRow /\ plan'.turns = plan.turns /\ plan'.revision = plan.revision
        BY <2>1 DEF PlanRow, Status, Active
    <2>3. call' \in [Calls -> Request]
        BY <1>0, <1>2, RequestGoes DEF ReturnForDrift
    <2>4. objections' \in Seq(Objection)
        BY <1>2, Raised DEF ReturnForDrift, Kinds
    <2> QED
        BY <1>2, <2>2, <2>3, <2>4 DEF ReturnForDrift
<1>3. CASE Reserve(c)
    <2>1. plan' = [plan EXCEPT !.status = "approved"]
        BY <1>3 DEF Reserve
    <2>2. plan' \in PlanRow /\ plan'.turns = plan.turns /\ plan'.revision = plan.revision
        BY <2>1 DEF PlanRow, Status
    <2>3. call' \in [Calls -> Request]
        BY <1>0, <1>3, RequestGoes DEF Reserve
    <2>4. promotion' \in [revision : Nat, sha : Nat, coordination : Nat]
        BY <1>3, RequestFields DEF Reserve
    <2> QED
        BY <1>3, <2>2, <2>3, <2>4 DEF Reserve
<1>4. CASE PlanMoved(c)
    BY <1>0, <1>4, RequestGoes DEF PlanMoved
<1>5. CASE Provision(c)
    <2>1. CASE linked # <<>>
        <3>1. linked[1].contract \in BOOLEAN
            BY <2>1, FirstLinked, LinkedRow
        <3>2. Adopt(c, 1, linked[1].contract)
            BY <1>5, <2>1 DEF Provision
        <3> QED
            BY <1>5, <3>1, <3>2, RequestAdopts DEF Provision
    <2>2. CASE linked = <<>>
        BY <1>0, <1>5, <2>2, RequestGoes DEF Provision
    <2> QED
        BY <2>1, <2>2
<1>6. CASE Create(c)
    <2>1. CASE Linkable
        <3>1. Adopt(c, Len(linked) + 1, FALSE)
            BY <1>6, <2>1 DEF Create
        <3>2. linked' \in Seq(Linked)
            <4> DEFINE row == [gates |-> FALSE, contract |-> FALSE,
                               stopped |-> FALSE, drops |-> <<>>]
            <4>1. linked' = Append(linked, row)
                BY <1>6, <2>1 DEF Create
            <4>2. row \in Linked
                BY FreshLinked
            <4> HIDE DEF row
            <4> QED
                BY <4>1, <4>2
        <3>3. Len(linked) + 1 \in Nat
            OBVIOUS
        <3>4. call' \in [Calls -> Request]
            BY <3>1, <3>3, RequestAdopts
        <3> QED
            BY <1>6, <3>2, <3>4 DEF Create
    <2>2. CASE ~Linkable
        <3>1. linked[1].contract \in BOOLEAN
            BY <2>2, FirstLinked, LinkedRow DEF Linkable
        <3>2. Adopt(c, 1, linked[1].contract) /\ linked' = linked
            BY <1>6, <2>2 DEF Create
        <3> QED
            BY <1>6, <3>1, <3>2, RequestAdopts DEF Create
    <2> QED
        BY <2>1, <2>2
<1>7. CASE CreateFails(c)
    BY <1>0, <1>7, RequestGoes DEF CreateFails
<1>8. CASE CompleteGates(c)
    <2>1. call[c].target \in 1..Len(linked)
        BY <1>8 DEF CompleteGates, Provisioning, Knows, Finishing
    <2>2. linked' = [linked EXCEPT ![call[c].target] = [linked[call[c].target] EXCEPT !.gates = TRUE]]
        BY <1>8 DEF CompleteGates
    <2>3. linked' \in Seq(Linked)
        <3>1. linked[call[c].target] \in Linked
            BY <2>1
        <3> QED
            BY <2>1, <2>2, <3>1, LinkedRow, LinkedMoves
    <2> QED
        BY <1>0, <1>8, <2>3, RequestGoes DEF CompleteGates
<1>9. CASE CompleteContract(c)
    <2>1. call[c].target \in 1..Len(linked)
        BY <1>9 DEF CompleteContract, Provisioning, Knows, Finishing
    <2>2. \/ linked' = linked
          \/ linked' = [linked EXCEPT ![call[c].target] = [linked[call[c].target] EXCEPT !.contract = TRUE]]
        BY <1>9 DEF CompleteContract
    <2>3. linked' \in Seq(Linked)
        <3>1. linked[call[c].target] \in Linked
            BY <2>1
        <3> QED
            BY <2>1, <2>2, <3>1, LinkedRow, LinkedMoves
    <2>4. call' \in [Calls -> Request]
        BY <1>0, <1>9, RequestGoes DEF CompleteContract
    <2> QED
        BY <1>9, <2>3, <2>4 DEF CompleteContract
<1>10. CASE Finalize(c)
    <2>1. call[c].target \in 1..Len(linked)
        BY <1>10 DEF Finalize, Provisioning, Knows, Finishing
    <2> DEFINE n == call[c].target
               q == linked[n].drops \o pending
    <2>2. linked' = [linked EXCEPT ![n] = [linked[n] EXCEPT !.drops = q]]
        BY <1>10 DEF Finalize
    <2>3. linked[n] \in Linked
        BY <2>1
    <2>4. q \in Seq(Captures)
        <3>1. linked[n].drops \in Seq(Captures)
            BY <2>3, LinkedRow
        <3> QED
            BY <3>1
    <2> HIDE DEF q
    <2>5. linked' \in Seq(Linked)
        BY <2>1, <2>2, <2>3, <2>4, LinkedRow, LinkedMoves
    <2>6. promotion' \in [revision : Nat, sha : Nat, coordination : Nat]
        <3>1. promotion' = [promotion EXCEPT !.coordination = n] /\ n \in Nat
            BY <1>10, <2>1 DEF Finalize
        <3> QED
            BY <3>1
    <2>7. call' \in [Calls -> Request]
        BY <1>0, <1>10, RequestGoes DEF Finalize
    <2> QED
        BY <1>10, <2>5, <2>6, <2>7 DEF Finalize
<1>11. CASE FinalizeRefused(c)
    BY <1>0, <1>11, RequestGoes DEF FinalizeRefused
<1> QED
    BY <1>1, <1>2, <1>3, <1>4, <1>5, <1>6, <1>7, <1>8, <1>9, <1>10, <1>11 DEF Approval

LEMMA CaptureTypes ==
    ASSUME TypeOK, Provisioning, NEW x \in Captures, Capture(x) PROVE TypeOK'
<1> USE DEF TypeOK, loop, approval
<1>1. plan' = plan \/ plan' = [plan EXCEPT !.status = "under_revision"]
    BY DEF Capture
<1>2. plan' \in PlanRow /\ plan'.turns = plan.turns /\ plan'.revision = plan.revision
    BY <1>1 DEF PlanRow, Status, Active
<1>3. drops' \in Seq(Captures) /\ pending' \in Seq(Captures)
    <2>1. /\ drops' = drops \/ drops' = Append(drops, x)
          /\ pending' = pending \/ pending' = Append(pending, x)
        BY DEF Capture
    <2>2. drops \in Seq(Captures) /\ pending \in Seq(Captures)
        OBVIOUS
    <2>3. Append(drops, x) \in Seq(Captures) /\ Append(pending, x) \in Seq(Captures)
        BY <2>2, Extended
    <2> QED
        BY ONLY <2>1, <2>2, <2>3
<1>4. linked' \in Seq(Linked)
    <2> DEFINE n == promotion.coordination
               q == Append(linked[n].drops, x)
    <2>1. \/ linked' = linked
          \/ Promoted /\ linked' = [linked EXCEPT ![n] = [linked[n] EXCEPT !.drops = q]]
        BY DEF Capture
    <2>2. CASE Promoted
        <3>0. n = 1 /\ Len(linked) = 1
            BY <2>2 DEF Provisioning, Promoted
        <3>1. n \in 1..Len(linked) /\ linked[n] \in Linked
            BY <3>0, OneLinked
        <3>2. linked[n].drops \in Seq(Captures)
            BY <3>1, LinkedRow
        <3>3. q \in Seq(Captures)
            BY <3>2
        <3> HIDE DEF q
        <3> QED
            BY <2>1, <3>1, <3>3, LinkedRow, LinkedMoves
    <2> QED
        BY <2>1, <2>2
<1> QED
    BY <1>2, <1>3, <1>4 DEF Capture

LEMMA OtherTypes ==
    ASSUME TypeOK, StopCoordination \/ SourceMoves \/ Crash \/ UNCHANGED vars
    PROVE  TypeOK'
<1> USE DEF TypeOK, loop, approval
<1>1. CASE StopCoordination
    <2>1. PICK n \in 1..Len(linked) :
             linked' = [linked EXCEPT ![n] = [linked[n] EXCEPT !.stopped = TRUE]]
        BY <1>1 DEF StopCoordination
    <2>2. linked[n] \in Linked
        OBVIOUS
    <2>3. linked' \in Seq(Linked)
        BY <2>1, <2>2, LinkedRow, LinkedMoves
    <2> QED
        BY <1>1, <2>3 DEF StopCoordination
<1>2. CASE SourceMoves
    BY <1>2 DEF SourceMoves
<1>3. CASE Crash
    BY <1>3, IdleRequest DEF Crash, IdleWorker
<1>4. CASE UNCHANGED vars
    BY <1>4 DEF vars
<1> QED
    BY <1>1, <1>2, <1>3, <1>4

LEMMA TypesKept ==
    ASSUME TypeOK, Provisioning, [Next]_vars PROVE TypeOK'
BY WorkerTypes, ControlTypes, ApprovalTypes, CaptureTypes, OtherTypes DEF Next

(***************************************************************************)
(* The promotion and its requests.                                         *)
(***************************************************************************)
\* A step that leaves the promotion and the linked session alone keeps what
\* the requests know, if the one that moves does.
LEMMA QuietProvisioning ==
    ASSUME TypeOK, Provisioning, promotion' = promotion, linked' = linked,
           (~Promoted /\ Reserved) \/ pending' = pending,
           \A c \in Calls : \/ call'[c] = call[c]
                            \/ call'[c].pc \notin Promoting \cup {"reserve"}
                            \/ call'[c].pc = "reserve" /\ call'[c].revision # 0
                            \/ /\ call'[c].pc \in {"provision", "create"} /\ Reserved
    PROVE  Provisioning'
<1>1. \A c \in Calls : Knows(call[c])'
    BY DEF Provisioning, Knows, Finishing, Promoting, Reserved
<1> QED
    BY <1>1 DEF Provisioning, Reserved, Promoted

LEMMA IdleKnowsNothing ==
    /\ IdleCall.pc \notin Promoting \cup {"reserve"}
    /\ \A pc \in CallPc : [IdleCall EXCEPT !.pc = pc].pc = pc
BY DEF IdleCall, Promoting, Finishing

LEMMA WorkerProvisioning ==
    ASSUME TypeOK, Provisioning, Worker PROVE Provisioning'
<1>1. UNCHANGED <<promotion, pending, linked, call>>
    BY DEF Worker, TurnReturns, Exhaust, Escalate, ReadForTurn, PlannerReplies,
           ReviewerReplies, approval
<1> QED
    BY <1>1, QuietProvisioning

LEMMA ControlProvisioning ==
    ASSUME TypeOK, Provisioning, NEW c \in Calls, Control(c) PROVE Provisioning'
<1>1. UNCHANGED <<promotion, pending, linked>>
    BY DEF Control, ReadForReopen, Reopen, ReadForWaive, Waive, ReadForResume,
           ResumeBudget, approval
<1>2. /\ call'[c].pc \in {"reopen", "waive", "resume", "idle"}
      /\ \A d \in Calls \ {c} : call'[d] = call[d]
    <2>0. call \in [Calls -> Request] /\ {"reopen", "waive", "resume", "idle"} \subseteq CallPc
        BY DEF TypeOK, CallPc
    <2>1. CASE Goes(c, "reopen") \/ Goes(c, "resume")
        BY <2>0, <2>1, RequestGoes, IdleKnowsNothing
    <2>2. CASE CallEnds(c)
        BY <2>0, <2>2, RequestGoes, IdleRequest
    <2>3. CASE ReadForWaive(c)
        <3>1. PICK o \in OpenAt(objections) :
                 call' = [call EXCEPT ![c] = [IdleCall EXCEPT !.pc = "waive",
                              !.saw = plan.status, !.revision = plan.revision,
                              !.objection = o]]
            BY <2>3 DEF ReadForWaive
        <3> QED
            BY <2>0, <3>1 DEF IdleCall
    <2> QED
        BY <2>1, <2>2, <2>3 DEF Control, ReadForReopen, Reopen, Waive, ReadForResume,
           ResumeBudget
<1> QED
    BY <1>1, <1>2, QuietProvisioning DEF Promoting, Finishing

\* A request adopts the linked session as it is.
LEMMA Adopted ==
    ASSUME TypeOK, Provisioning, NEW c \in Calls, Reserved, linked # <<>>,
           Adopt(c, 1, linked[1].contract), UNCHANGED <<promotion, pending, linked>>
    PROVE  Provisioning'
<1>0. call \in [Calls -> Request] /\ linked \in Seq(Linked) /\ Len(linked) <= 1
    BY DEF TypeOK, Provisioning
<1>1. Len(linked) = 1 /\ linked[1].contract \in BOOLEAN
    BY <1>0, OnlyLinked
<1>2. /\ call'[c] = [call[c] EXCEPT !.pc = "gates", !.target = 1,
                                    !.contract = linked[1].contract]
      /\ \A d \in Calls \ {c} : call'[d] = call[d]
    <2> DEFINE r == [call[c] EXCEPT !.pc = "gates", !.target = 1,
                                    !.contract = linked[1].contract]
    <2>1. call' = [call EXCEPT ![c] = r]
        BY Zenon DEF Adopt
    <2> HIDE DEF r
    <2>2. call'[c] = r /\ \A d \in Calls \ {c} : call'[d] = call[d]
        BY <1>0, <2>1
    <2> QED
        BY <2>2 DEF r
<1>3. /\ call'[c].pc = "gates" /\ call'[c].target = 1
      /\ call'[c].contract = linked[1].contract
    BY <1>0, <1>2 DEF Request
<1>4. \A d \in Calls : Knows(call[d])'
    BY <1>1, <1>2, <1>3 DEF Provisioning, Knows, Promoting, Finishing, Reserved
<1> QED
    BY <1>4 DEF Provisioning, Reserved, Promoted

LEMMA ApprovalProvisioning ==
    ASSUME TypeOK, Provisioning, NEW c \in Calls, Approval(c) PROVE Provisioning'
<1> USE DEF Promoting, Finishing
<1>0. call \in [Calls -> Request]
      /\ {"idle", "drift", "reserve", "provision", "create", "gates", "contract",
          "finalize"} \subseteq CallPc
    BY DEF CallPc, TypeOK
<1>1. CASE ReadForApprove(c)
    <2> DEFINE r == [IdleCall EXCEPT !.pc = "reserve", !.revision = plan.revision,
                                     !.sha = plan.sha]
    <2>1. UNCHANGED <<promotion, pending, linked>>
        BY <1>1 DEF ReadForApprove, approval
    <2>2. \/ Goes(c, "drift")
          \/ Reserved /\ Goes(c, "provision")
          \/ plan.revision > 0 /\ call' = [call EXCEPT ![c] = r]
        BY <1>1 DEF ReadForApprove
    <2>3. CASE Goes(c, "drift")
        <3>1. call'[c].pc = "drift" /\ \A d \in Calls \ {c} : call'[d] = call[d]
            BY <1>0, <2>3, RequestGoes, IdleKnowsNothing
        <3> QED
            BY <2>1, <3>1, QuietProvisioning
    <2>4. CASE Reserved /\ Goes(c, "provision")
        <3>1. call'[c].pc = "provision" /\ \A d \in Calls \ {c} : call'[d] = call[d]
            BY <1>0, <2>4, RequestGoes, IdleKnowsNothing
        <3> QED
            BY <2>1, <2>4, <3>1, QuietProvisioning
    <2>5. CASE plan.revision > 0 /\ call' = [call EXCEPT ![c] = r]
        <3>1. r.pc = "reserve" /\ r.revision = plan.revision
            BY DEF IdleCall
        <3> HIDE DEF r
        <3>2. call'[c] = r /\ \A d \in Calls \ {c} : call'[d] = call[d]
            BY <1>0, <2>5
        <3>3. plan.revision # 0
            BY <2>5 DEF TypeOK, PlanRow
        <3> QED
            BY <2>1, <3>1, <3>2, <3>3, QuietProvisioning
    <2> QED
        BY <2>2, <2>3, <2>4, <2>5
<1>2. CASE ReturnForDrift(c) \/ PlanMoved(c) \/ CreateFails(c) \/ FinalizeRefused(c)
    <2>1. UNCHANGED <<promotion, pending, linked>> /\ CallEnds(c)
        BY <1>2 DEF ReturnForDrift, PlanMoved, CreateFails, FinalizeRefused, approval
    <2> QED
        BY <1>0, <2>1, RequestGoes, QuietProvisioning, IdleKnowsNothing
<1>3. CASE Reserve(c)
    <2>1. ~Reserved /\ linked = <<>> /\ pending = <<>> /\ UNCHANGED <<linked, pending>>
        BY <1>3 DEF Reserve, Provisioning
    <2>2. call[c].revision # 0
        BY <1>3 DEF Reserve, Provisioning, Knows
    <2>3. promotion'.revision = call[c].revision /\ promotion'.coordination = 0
        BY <1>3 DEF Reserve
    <2>4. Reserved' /\ ~Promoted'
        BY <2>2, <2>3 DEF Reserved, Promoted, NoPromotion
    <2>5. call'[c].pc = "provision" /\ \A d \in Calls \ {c} : call'[d] = call[d]
        BY <1>0, <1>3, RequestGoes, IdleKnowsNothing DEF Reserve
    <2>6. \A d \in Calls : Knows(call[d])'
        BY <2>1, <2>4, <2>5 DEF Provisioning, Knows
    <2> QED
        BY <2>1, <2>3, <2>4, <2>6 DEF Provisioning
<1>4. CASE Provision(c)
    <2>1. UNCHANGED <<promotion, pending, linked>> /\ Reserved
        BY <1>4 DEF Provision, approval, Provisioning, Knows
    <2>2. CASE linked = <<>>
        <3>1. CallAt(c, "create")
            BY <1>4, <2>2 DEF Provision
        <3>2. call'[c].pc = "create" /\ \A d \in Calls \ {c} : call'[d] = call[d]
            <4>1. call[c] \in Request
                BY <1>0
            <4>2. [call[c] EXCEPT !.pc = "create"].pc = "create"
                BY <4>1 DEF Request
            <4> QED
                BY <1>0, <3>1, <4>2, RequestGoes
        <3> QED
            BY <2>1, <3>2, QuietProvisioning
    <2>3. CASE linked # <<>>
        <3>1. Adopt(c, 1, linked[1].contract)
            BY <1>4, <2>3 DEF Provision
        <3> QED
            BY <2>1, <2>3, <3>1, Adopted
    <2> QED
        BY <2>2, <2>3
<1>5. CASE Create(c)
    <2>1. CASE Linkable
        <3> DEFINE row == [gates |-> FALSE, contract |-> FALSE,
                           stopped |-> FALSE, drops |-> <<>>]
        <3>1. /\ linked' = Append(linked, row) /\ linked = <<>>
              /\ Adopt(c, Len(linked) + 1, FALSE)
              /\ UNCHANGED <<promotion, pending>>
            BY <1>5, <2>1 DEF Create, Linkable
        <3>2. Len(linked) + 1 = 1
            BY <3>1
        <3>3. Reserved /\ ~Promoted
            BY <1>5, <3>1 DEF Create, Provisioning, Knows
        <3> HIDE DEF row
        <3>4. Len(linked') = 1
            BY <3>1
        <3>5. /\ call'[c] = [call[c] EXCEPT !.pc = "gates", !.target = 1,
                                            !.contract = FALSE]
              /\ \A d \in Calls \ {c} : call'[d] = call[d]
            <4>1. Adopt(c, 1, FALSE) /\ 1 \in Nat /\ FALSE \in BOOLEAN
                BY <3>1, <3>2
            <4> QED
                BY <1>0, <4>1, RequestAdopts
        <3>6. call'[c].pc = "gates" /\ call'[c].target = 1 /\ call'[c].contract = FALSE
            BY <1>0, <3>5 DEF Request
        <3>7. \A d \in Calls : call[d].pc \notin Finishing
            BY <3>1 DEF Provisioning, Knows
        <3>8. \A d \in Calls : Knows(call[d])'
            BY <3>1, <3>3, <3>4, <3>5, <3>6, <3>7 DEF Provisioning, Knows, Reserved
        <3> QED
            BY <3>1, <3>3, <3>4, <3>8 DEF Provisioning, Reserved, Promoted
    <2>2. CASE ~Linkable
        <3>1. Adopt(c, 1, linked[1].contract) /\ UNCHANGED <<promotion, pending, linked>>
            BY <1>5, <2>2 DEF Create
        <3>2. Reserved
            BY <1>5 DEF Create, Provisioning, Knows
        <3> QED
            BY <2>2, <3>1, <3>2, Adopted DEF Linkable
    <2> QED
        BY <2>1, <2>2
<1>6. CASE CompleteGates(c)
    <2>1. call[c].target = 1 /\ Len(linked) = 1 /\ Reserved
        BY <1>6 DEF CompleteGates, Provisioning, Knows
    <2>2. linked' = [linked EXCEPT ![1] = [linked[1] EXCEPT !.gates = TRUE]]
          /\ UNCHANGED <<promotion, pending>> /\ CallAt(c, "contract")
        BY <1>6, <2>1 DEF CompleteGates
    <2>3. linked \in Seq(Linked) /\ linked[1] \in Linked /\ call[c] \in Request
        <3>1. linked \in Seq(Linked)
            BY DEF TypeOK
        <3> QED
            BY <1>0, <2>1, <3>1, OneLinked
    <2>4. Len(linked') = 1 /\ linked'[1] = [linked[1] EXCEPT !.gates = TRUE]
        BY <2>1, <2>2, <2>3, LinkedRow, LinkedMoves
    <2>5. linked'[1].gates /\ linked'[1].contract = linked[1].contract
        BY <2>3, <2>4 DEF Linked
    <2>6. /\ call'[c] = [call[c] EXCEPT !.pc = "contract"]
          /\ \A d \in Calls \ {c} : call'[d] = call[d]
        BY <1>0, <2>2, RequestGoes
    <2>7. call'[c].pc = "contract" /\ call'[c].target = 1 /\ call'[c].contract = call[c].contract
        BY <2>1, <2>3, <2>6 DEF Request
    <2>8. \A d \in Calls : Knows(call[d])'
        <3>1. Reserved' /\ (call[c].contract => linked'[1].contract)
            BY <1>6, <2>1, <2>2, <2>5 DEF CompleteGates, Provisioning, Knows, Reserved
        <3>2. Knows(call[c])'
            BY <2>4, <2>5, <2>7, <3>1 DEF Knows
        <3>3. \A d \in Calls \ {c} : Knows(call[d])'
            BY <2>4, <2>5, <2>6, <3>1 DEF Provisioning, Knows
        <3> QED
            BY <3>2, <3>3
    <2> QED
        BY <2>1, <2>2, <2>4, <2>5, <2>8 DEF Provisioning, Reserved, Promoted
<1>7. CASE CompleteContract(c)
    <2>1. /\ call[c].target = 1 /\ Len(linked) = 1 /\ Reserved /\ linked[1].gates
          /\ call[c].contract => linked[1].contract
        BY <1>7 DEF CompleteContract, Provisioning, Knows
    <2>2. UNCHANGED <<promotion, pending>>
        BY <1>7 DEF CompleteContract
    <2>3. linked \in Seq(Linked) /\ linked[1] \in Linked /\ call[c] \in Request
        <3>1. linked \in Seq(Linked)
            BY DEF TypeOK
        <3> QED
            BY <1>0, <2>1, <3>1, OneLinked
    <2>4. CASE CallEnds(c) /\ linked' = linked
        BY <1>0, <2>2, <2>4, RequestGoes, QuietProvisioning, IdleKnowsNothing
    <2>5. CASE /\ CallAt(c, "finalize")
               /\ linked' = [linked EXCEPT ![1] = [linked[1] EXCEPT !.contract = TRUE]]
        <3>1. Len(linked') = 1 /\ linked'[1] = [linked[1] EXCEPT !.contract = TRUE]
            BY <2>1, <2>3, <2>5, LinkedRow, LinkedMoves
        <3>2. linked'[1].contract /\ linked'[1].gates
            BY <2>1, <2>3, <3>1 DEF Linked
        <3>3. /\ call'[c] = [call[c] EXCEPT !.pc = "finalize"]
              /\ \A d \in Calls \ {c} : call'[d] = call[d]
            BY <1>0, <2>5, RequestGoes
        <3>4. call'[c].pc = "finalize" /\ call'[c].target = 1
            BY <2>1, <2>3, <3>3 DEF Request
        <3>5. \A d \in Calls : Knows(call[d])'
            <4>1. Reserved'
                BY <2>1, <2>2 DEF Reserved
            <4>2. Knows(call[c])'
                BY <3>1, <3>2, <3>4, <4>1 DEF Knows
            <4>3. \A d \in Calls \ {c} : Knows(call[d])'
                BY <3>1, <3>2, <3>3, <4>1 DEF Provisioning, Knows
            <4> QED
                BY <4>2, <4>3
        <3> QED
            BY <2>1, <2>2, <3>1, <3>2, <3>5 DEF Provisioning, Reserved, Promoted
    <2> QED
        BY <1>7, <2>1, <2>4, <2>5 DEF CompleteContract
<1>8. CASE Finalize(c)
    <2>1. /\ call[c].target = 1 /\ Len(linked) = 1 /\ Reserved
          /\ linked[1].gates /\ linked[1].contract
        BY <1>8 DEF Finalize, Provisioning, Knows
    <2>2. /\ CallEnds(c) /\ pending' = <<>>
          /\ promotion' = [promotion EXCEPT !.coordination = 1]
        BY <1>8, <2>1 DEF Finalize
    <2>3. linked \in Seq(Linked) /\ linked[1] \in Linked /\ pending \in Seq(Captures)
        <3>1. linked \in Seq(Linked) /\ pending \in Seq(Captures)
            BY DEF TypeOK
        <3> QED
            BY <2>1, <3>1, OneLinked
    <2> DEFINE q == linked[1].drops \o pending
    <2>4. linked' = [linked EXCEPT ![1] = [linked[1] EXCEPT !.drops = q]]
        BY <1>8, <2>1 DEF Finalize
    <2>5. q \in Seq(Captures)
        <3>1. linked[1].drops \in Seq(Captures)
            BY <2>3, LinkedRow
        <3> QED
            BY <2>3, <3>1
    <2> HIDE DEF q
    <2>6. Len(linked') = 1 /\ linked'[1] = [linked[1] EXCEPT !.drops = q]
        BY <2>1, <2>3, <2>4, <2>5, LinkedRow, LinkedMoves
    <2>7. linked'[1].gates /\ linked'[1].contract
        BY <2>1, <2>3, <2>6 DEF Linked
    <2>8. promotion'.coordination = 1 /\ promotion'.revision = promotion.revision
        BY <2>2 DEF TypeOK
    <2>9. Reserved' /\ Promoted'
        BY <2>8 DEF Reserved, Promoted, NoPromotion
    <2>10. /\ call'[c] = IdleCall
           /\ \A d \in Calls \ {c} : call'[d] = call[d]
        BY <1>0, <2>2, RequestGoes
    <2>11. \A d \in Calls : Knows(call[d])'
        BY <2>1, <2>6, <2>7, <2>9, <2>10, IdleKnowsNothing DEF Provisioning, Knows
    <2> QED
        BY <2>2, <2>6, <2>7, <2>8, <2>9, <2>11 DEF Provisioning
<1> QED
    BY <1>1, <1>2, <1>3, <1>4, <1>5, <1>6, <1>7, <1>8 DEF Approval

\* A step that changes the linked session, but not what the requests know of it.
LEMMA LinkedKept ==
    ASSUME TypeOK, Provisioning, UNCHANGED <<promotion, pending, call>>,
           NEW n \in 1..Len(linked), NEW row \in Linked,
           row.gates = linked[n].gates, row.contract = linked[n].contract,
           linked' = [linked EXCEPT ![n] = row]
    PROVE  Provisioning'
<1>0. linked \in Seq(Linked) /\ Len(linked) <= 1
    BY DEF TypeOK, Provisioning
<1>1. n = 1 /\ Len(linked) = 1
    <2>1. Len(linked) \in Nat /\ n \in Nat /\ 1 <= n /\ n <= Len(linked)
        BY <1>0
    <2>2. \A a, b \in Nat : 1 <= a /\ a <= b /\ b <= 1 => a = 1 /\ b = 1
        OBVIOUS
    <2> QED
        BY <1>0, <2>1, <2>2, Zenon
<1>2. Len(linked') = 1 /\ linked'[1] = row
    BY <1>0, <1>1, LinkedMoves
<1>3. Reserved
    <2>1. linked # <<>>
        BY <1>1
    <2> QED
        BY <2>1 DEF Provisioning
<1>4. \A c \in Calls : Knows(call[c])'
    BY <1>1, <1>2, <1>3 DEF Provisioning, Knows, Reserved
<1> QED
    BY <1>1, <1>2, <1>3, <1>4 DEF Provisioning, Reserved, Promoted

LEMMA CaptureProvisioning ==
    ASSUME TypeOK, Provisioning, NEW x \in Captures, Capture(x) PROVE Provisioning'
<1>1. UNCHANGED <<promotion, call>>
    BY DEF Capture
<1>2. CASE UNCHANGED <<pending, linked>>
    BY <1>1, <1>2, QuietProvisioning
<1>3. CASE Reserved /\ ~Promoted /\ linked' = linked
    BY <1>1, <1>3, QuietProvisioning
<1>4. CASE Promoted /\ pending' = pending
           /\ linked' = [linked EXCEPT ![promotion.coordination].drops = Append(@, x)]
    <2>1. promotion.coordination = 1 /\ Len(linked) = 1
        BY <1>4 DEF Provisioning, Promoted
    <2>2. linked \in Seq(Linked)
        BY DEF TypeOK
    <2>3. 1 \in 1..Len(linked) /\ linked[1] \in Linked
        BY <2>1, <2>2, OneLinked
    <2> DEFINE q == Append(linked[1].drops, x)
               row == [linked[1] EXCEPT !.drops = q]
    <2>4. linked' = [linked EXCEPT ![1] = row]
        BY <1>4, <2>1
    <2>5. q \in Seq(Captures)
        BY <2>3, LinkedRow, Extended
    <2> HIDE DEF q
    <2>6. row \in Linked /\ row.gates = linked[1].gates /\ row.contract = linked[1].contract
        BY <2>3, <2>5 DEF Linked
    <2> HIDE DEF row
    <2> QED
        BY <1>1, <1>4, <2>3, <2>4, <2>6, LinkedKept
<1> QED
    BY <1>2, <1>3, <1>4 DEF Capture

LEMMA OtherProvisioning ==
    ASSUME TypeOK, Provisioning, StopCoordination \/ SourceMoves \/ Crash \/ UNCHANGED vars
    PROVE  Provisioning'
<1>1. CASE StopCoordination
    <2>1. PICK n \in 1..Len(linked) :
             linked' = [linked EXCEPT ![n] = [linked[n] EXCEPT !.stopped = TRUE]]
        BY <1>1 DEF StopCoordination
    <2>2. linked \in Seq(Linked)
        BY DEF TypeOK
    <2>3. linked[n] \in Linked
        BY <2>2
    <2> DEFINE row == [linked[n] EXCEPT !.stopped = TRUE]
    <2>4. row \in Linked /\ row.gates = linked[n].gates /\ row.contract = linked[n].contract
        BY <2>3 DEF Linked
    <2>5. linked' = [linked EXCEPT ![n] = row]
        BY <2>1
    <2> HIDE DEF row
    <2> QED
        BY <1>1, <2>4, <2>5, LinkedKept DEF StopCoordination
<1>2. CASE SourceMoves \/ UNCHANGED vars
    BY <1>2, QuietProvisioning DEF SourceMoves, vars, approval
<1>3. CASE Crash
    <2>1. \A c \in Calls : call'[c] = IdleCall
        BY <1>3 DEF Crash
    <2> QED
        BY <1>3, <2>1, IdleKnowsNothing, QuietProvisioning DEF Crash, approval
<1> QED
    BY <1>1, <1>2, <1>3

LEMMA ProvisioningKept ==
    ASSUME TypeOK, Provisioning, [Next]_vars PROVE Provisioning'
BY WorkerProvisioning, ControlProvisioning, ApprovalProvisioning,
   CaptureProvisioning, OtherProvisioning DEF Next

THEOREM ProvisioningStands == Spec => [](TypeOK /\ Provisioning)
<1>1. TypeOK /\ Provisioning /\ [Next]_vars => (TypeOK /\ Provisioning)'
    BY TypesKept, ProvisioningKept
<1> QED
    BY <1>1, InitialTypes, PTL DEF Spec

\* Every row and every request of planning mode keeps its type.
THEOREM TypesStand == Spec => []TypeOK
BY ProvisioningStands, PTL

\* However many approvals race, fail, are retried or crash, there is at most
\* one coordination session, and a promotion names it.
THEOREM OneCoordinationStands == Spec => []OneCoordination
<1>1. Provisioning => OneCoordination
    BY DEF Provisioning, OneCoordination, Promoted
<1> QED
    BY <1>1, ProvisioningStands, PTL

\* No promotion names a session without the gates and the contract.
THEOREM PromotedSessionsAreProvisioned == Spec => []PromotedIsProvisioned
<1>1. Provisioning => PromotedIsProvisioned
    BY DEF Provisioning, PromotedIsProvisioned, Promoted
<1> QED
    BY <1>1, ProvisioningStands, PTL

\* Both: an approved plan has one coordination session, and one that is fit to work.
THEOREM PromotionHappensOnce == Spec => []PromotedOnce
<1> QED
  BY OneCoordinationStands, PromotedSessionsAreProvisioned, PTL DEF PromotedOnce

(***************************************************************************)
(* The approved text.                                                      *)
(***************************************************************************)
\* A revision the human may approve: written, with valid criteria, and
\* closed by a review or left by a spent budget.
Agreed(r) == r \in 1..Len(bodies) /\ bodies[r] /\ r \in closed \cup spent

Texts ==
    /\ plan.revision <= MaxRevisions
    /\ plan.status = "ready" => plan.revision \in closed
    /\ plan.status = "needs_human_resolution" => plan.revision \in spent
    /\ \A c \in Calls : call[c].pc = "reserve" => Agreed(call[c].revision)
    /\ Reserved => Agreed(promotion.revision)
    /\ Reserved /\ plan.status = "approved" => promotion.revision = plan.revision

LEMMA StillThere ==
    ASSUME NEW s \in Seq(BOOLEAN), NEW e \in BOOLEAN
    PROVE  \A n \in 1..Len(s) : Append(s, e)[n] = s[n]
BY Extended

\* What was agreed stays agreed.
LEMMA AgreedStays ==
    ASSUME bodies \in Seq(BOOLEAN), closed \subseteq closed', spent \subseteq spent',
           bodies' = bodies \/ \E valid \in BOOLEAN : bodies' = Append(bodies, valid),
           NEW r, Agreed(r)
    PROVE  Agreed(r)'
<1>1. r \in 1..Len(bodies) /\ bodies[r] /\ r \in closed' \cup spent'
    BY DEF Agreed
<1>2. CASE bodies' = bodies
    BY <1>1, <1>2 DEF Agreed
<1>3. ASSUME NEW valid \in BOOLEAN, bodies' = Append(bodies, valid)
      PROVE  Agreed(r)'
    <2>1. Len(bodies) \in Nat /\ Len(Append(bodies, valid)) = Len(bodies) + 1
        OBVIOUS
    <2>2. r \in 1..Len(Append(bodies, valid))
        BY <1>1, <2>1
    <2>3. Append(bodies, valid)[r] = bodies[r]
        BY <1>1, <1>3, StillThere, Zenon
    <2> QED
        BY <1>1, <1>3, <2>2, <2>3 DEF Agreed
<1> QED
    BY <1>2, <1>3

\* Every step but the reservation: the texts grow, a status the human may
\* approve has the reason for it, and nothing becomes approved.
LEMMA TextsStay ==
    ASSUME TypeOK, Texts, closed \subseteq closed', spent \subseteq spent',
           bodies' = bodies \/ \E valid \in BOOLEAN : bodies' = Append(bodies, valid),
           plan'.revision <= MaxRevisions,
           plan'.status = "ready" => plan'.revision \in closed',
           plan'.status = "needs_human_resolution" => plan'.revision \in spent',
           plan'.status = "approved" =>
               plan.status = "approved" /\ plan'.revision = plan.revision,
           promotion'.revision = promotion.revision, Reserved' => Reserved,
           \A c \in Calls : \/ call'[c] = call[c] \/ call'[c].pc # "reserve"
                            \/ Agreed(call'[c].revision)
    PROVE  Texts'
<1>1. \A r : Agreed(r) => Agreed(r)'
    BY AgreedStays DEF TypeOK
<1>2. \A c \in Calls : call'[c].pc = "reserve" => Agreed(call'[c].revision)
    BY DEF Texts
<1>3. \A c \in Calls : (call[c].pc = "reserve" => Agreed(call[c].revision))'
    BY <1>1, <1>2
<1>4. Reserved' => Agreed(promotion.revision)'
    BY <1>1 DEF Texts
<1> QED
    BY <1>3, <1>4 DEF Texts

LEMMA QuietTexts ==
    ASSUME TypeOK, Texts, UNCHANGED <<bodies, closed, spent, plan, promotion>>,
           \A c \in Calls : call'[c] = call[c] \/ call'[c].pc # "reserve"
    PROVE  Texts'
BY TextsStay DEF Texts, Reserved

\* The plan goes to a status that nobody may approve it in.
LEMMA PlanReturns ==
    ASSUME TypeOK, Texts, UNCHANGED <<bodies, closed, spent, promotion>>,
           plan'.revision = plan.revision,
           plan'.status \in {"drafting", "awaiting_review", "under_revision"},
           \A c \in Calls : call'[c] = call[c] \/ call'[c].pc # "reserve"
    PROVE  Texts'
BY TextsStay DEF Texts, Reserved

LEMMA WorkerTexts ==
    ASSUME TypeOK, Texts, Worker PROVE Texts'
<1>0. /\ plan \in PlanRow /\ bodies \in Seq(BOOLEAN) /\ plan.revision \in Nat
      /\ Len(bodies) = plan.revision
    BY DEF TypeOK, PlanRow
<1>1. CASE TurnReturns
    <2>1. UNCHANGED <<bodies, closed, spent, promotion, call>>
        BY <1>1 DEF TurnReturns, approval
    <2>2. plan'.status = plan.status /\ plan'.revision = plan.revision
        BY <1>0, <1>1 DEF TurnReturns, PlanRow
    <2> QED
        BY <2>1, <2>2, TextsStay DEF Texts, Reserved
<1>2. CASE Exhaust
    <2>1. UNCHANGED <<bodies, closed, promotion, call>>
        BY <1>2 DEF Exhaust, approval
    <2>2. \/ UNCHANGED <<plan, spent>>
          \/ /\ plan'.status = "needs_human_resolution" /\ plan'.revision = plan.revision
             /\ spent' = spent \cup {plan.revision}
        BY <1>0, <1>2 DEF Exhaust, PlanRow
    <2> QED
        BY <2>1, <2>2, TextsStay DEF Texts, Reserved
<1>3. CASE Escalate \/ ReadForTurn
    BY <1>3, QuietTexts DEF Escalate, ReadForTurn, loop, approval
<1>4. CASE PlannerReplies
    <2>1. UNCHANGED <<closed, promotion, call>>
        BY <1>4 DEF PlannerReplies, approval
    <2>2. CASE UNCHANGED <<plan, bodies, spent>>
        BY <2>1, <2>2, QuietTexts
    <2>3. CASE ~UNCHANGED <<plan, bodies, spent>>
        <3> DEFINE r == plan.revision + 1
        <3>1. plan.revision < MaxRevisions /\ \E valid \in BOOLEAN : bodies' = Append(bodies, valid)
            BY <1>4, <2>3 DEF PlannerReplies
        <3>2. PICK over \in BOOLEAN :
                 /\ plan' = [plan EXCEPT !.revision = r, !.status =
                               IF over THEN "needs_human_resolution" ELSE "awaiting_review"]
                 /\ spent' = IF over THEN spent \cup {r} ELSE spent
            BY <1>4, <2>3 DEF PlannerReplies
        <3>3. /\ plan'.revision = r
              /\ plan'.status = IF over THEN "needs_human_resolution" ELSE "awaiting_review"
            BY <1>0, <3>2 DEF PlanRow
        <3>4. plan'.revision <= MaxRevisions
            BY <1>0, <3>1, <3>3, PlanningAssumption
        <3> QED
            BY <2>1, <3>1, <3>2, <3>3, <3>4, TextsStay DEF Reserved
    <2> QED
        BY <2>2, <2>3
<1>5. CASE ReviewerReplies
    <2>1. UNCHANGED <<bodies, spent, promotion, call>>
        BY <1>5 DEF ReviewerReplies, approval
    <2>2. CASE UNCHANGED <<plan, closed>>
        BY <2>1, <2>2, QuietTexts
    <2>3. CASE ~UNCHANGED <<plan, closed>>
        <3>1. \/ /\ plan' = [plan EXCEPT !.status = "ready"]
                 /\ closed' = closed \cup {plan.revision}
              \/ /\ plan' = [plan EXCEPT !.status = "under_revision"]
                 /\ closed' = closed
            BY <1>5, <2>3 DEF ReviewerReplies, CloseReview
        <3>2. \/ /\ plan'.status = "ready" /\ plan'.revision = plan.revision
                 /\ closed' = closed \cup {plan.revision}
              \/ /\ plan'.status = "under_revision" /\ plan'.revision = plan.revision
                 /\ closed' = closed
            BY <1>0, <3>1 DEF PlanRow
        <3> QED
            BY <2>1, <3>2, TextsStay DEF Texts, Reserved
    <2> QED
        BY <2>2, <2>3
<1> QED
    BY <1>1, <1>2, <1>3, <1>4, <1>5 DEF Worker

LEMMA ControlTexts ==
    ASSUME TypeOK, Texts, NEW c \in Calls, Control(c) PROVE Texts'
<1>0. plan \in PlanRow /\ call \in [Calls -> Request]
    BY DEF TypeOK
<1>1. UNCHANGED <<bodies, closed, spent, promotion>>
    BY DEF Control, ReadForReopen, Reopen, ReadForWaive, Waive, ReadForResume,
           ResumeBudget, loop, approval
<1>2. \A d \in Calls : call'[d] = call[d] \/ call'[d].pc # "reserve"
    <2>0. {"reopen", "waive", "resume", "idle"} \subseteq CallPc
        BY DEF CallPc
    <2>1. CASE Goes(c, "reopen") \/ Goes(c, "resume")
        BY <1>0, <2>0, <2>1, RequestLeaves
    <2>2. CASE CallEnds(c)
        BY <1>0, <2>2, RequestLeaves
    <2>3. CASE ReadForWaive(c)
        <3>1. PICK o \in OpenAt(objections) :
                 call' = [call EXCEPT ![c] = [IdleCall EXCEPT !.pc = "waive",
                              !.saw = plan.status, !.revision = plan.revision,
                              !.objection = o]]
            BY <2>3 DEF ReadForWaive
        <3> QED
            BY <1>0, <3>1 DEF IdleCall
    <2> QED
        BY <2>1, <2>2, <2>3 DEF Control, ReadForReopen, Reopen, Waive, ReadForResume,
           ResumeBudget
<1>3. \/ plan' = plan
      \/ /\ plan'.status \in {"drafting", "awaiting_review", "under_revision"}
         /\ plan'.revision = plan.revision
    BY <1>0 DEF Control, ReadForReopen, Reopen, ReadForWaive, Waive, ReadForResume,
           ResumeBudget, loop, PlanRow
<1> QED
    BY <1>1, <1>2, <1>3, QuietTexts, PlanReturns

LEMMA ApprovalTexts ==
    ASSUME TypeOK, Provisioning, Texts, NEW c \in Calls, Approval(c) PROVE Texts'
<1>0. /\ plan \in PlanRow /\ call \in [Calls -> Request]
      /\ Len(bodies) = plan.revision /\ plan.revision \in Nat
      /\ {"idle", "drift", "reserve", "provision", "create", "gates", "contract",
          "finalize"} \subseteq CallPc
    BY DEF TypeOK, PlanRow, CallPc
<1>1. CASE ReadForApprove(c)
    <2> DEFINE r == [IdleCall EXCEPT !.pc = "reserve", !.revision = plan.revision,
                                     !.sha = plan.sha]
    <2>1. UNCHANGED <<plan, bodies, closed, spent, promotion>>
        BY <1>1 DEF ReadForApprove, loop, approval
    <2>2. \/ Goes(c, "drift") \/ Goes(c, "provision")
          \/ /\ plan.status \in Approvable /\ plan.revision > 0
             /\ ValidCriteria(plan.revision) /\ call' = [call EXCEPT ![c] = r]
        BY <1>1 DEF ReadForApprove
    <2>3. CASE Goes(c, "drift") \/ Goes(c, "provision")
        <3>1. call'[c].pc # "reserve" /\ \A d \in Calls \ {c} : call'[d] = call[d]
            BY <1>0, <2>3, RequestGoes, IdleKnowsNothing
        <3> QED
            BY <2>1, <3>1, QuietTexts
    <2>4. CASE /\ plan.status \in Approvable /\ plan.revision > 0
               /\ ValidCriteria(plan.revision) /\ call' = [call EXCEPT ![c] = r]
        <3>1. r.revision = plan.revision
            BY DEF IdleCall
        <3> HIDE DEF r
        <3>2. call'[c] = r /\ \A d \in Calls \ {c} : call'[d] = call[d]
            BY <1>0, <2>4
        <3>3. plan.revision \in 1..Len(bodies)
            BY <1>0, <2>4
        <3>4. Agreed(plan.revision)
            BY <2>4, <3>3 DEF Agreed, Texts, Approvable, ValidCriteria
        <3>5. \A d \in Calls : call'[d] = call[d] \/ Agreed(call'[d].revision)
            BY <3>1, <3>2, <3>4
        <3> QED
            BY <2>1, <3>5, TextsStay DEF Texts, Reserved
    <2> QED
        BY <2>2, <2>3, <2>4
<1>2. CASE ReturnForDrift(c)
    <2>1. UNCHANGED <<bodies, closed, spent, promotion>> /\ CallEnds(c)
        BY <1>2 DEF ReturnForDrift, approval
    <2>2. plan'.status = "under_revision" /\ plan'.revision = plan.revision
        BY <1>0, <1>2 DEF ReturnForDrift, PlanRow
    <2>3. \A d \in Calls : call'[d] = call[d] \/ call'[d].pc # "reserve"
        BY <1>0, <2>1, RequestLeaves
    <2> QED
        BY <2>1, <2>2, <2>3, PlanReturns
<1>3. CASE Reserve(c)
    <2>1. /\ UNCHANGED <<bodies, closed, spent>> /\ Goes(c, "provision")
          /\ promotion'.revision = call[c].revision
          /\ plan.revision = call[c].revision /\ call[c].pc = "reserve"
        BY <1>3 DEF Reserve, SamePlan
    <2>2. plan'.status = "approved" /\ plan'.revision = plan.revision
        BY <1>0, <1>3 DEF Reserve, PlanRow
    <2>3. \A d \in Calls : call'[d] = call[d] \/ call'[d].pc # "reserve"
        BY <1>0, <2>1, RequestLeaves
    <2>4. \A q : Agreed(q) => Agreed(q)'
        BY <2>1 DEF Agreed
    <2>5. Agreed(promotion.revision)'
        BY <2>1, <2>4 DEF Texts
    <2>6. \A d \in Calls : (call[d].pc = "reserve" => Agreed(call[d].revision))'
        BY <2>3, <2>4 DEF Texts
    <2> QED
        BY <2>1, <2>2, <2>5, <2>6 DEF Texts
<1>4. CASE PlanMoved(c) \/ CreateFails(c) \/ FinalizeRefused(c)
    <2>1. UNCHANGED <<plan, bodies, closed, spent, promotion>> /\ CallEnds(c)
        BY <1>4 DEF PlanMoved, CreateFails, FinalizeRefused, loop, approval
    <2> QED
        BY <1>0, <2>1, RequestGoes, QuietTexts, IdleKnowsNothing
<1>5. CASE Provision(c) \/ Create(c)
    <2>1. UNCHANGED <<plan, bodies, closed, spent, promotion>>
        BY <1>5 DEF Provision, Create, loop, approval
    <2>2. CallAt(c, "create") \/ \E n, has : Adopt(c, n, has)
        BY <1>5 DEF Provision, Create
    <2>3. \A d \in Calls : call'[d] = call[d] \/ call'[d].pc # "reserve"
        <3>1. call[c] \in Request
            BY <1>0
        <3>2. ASSUME CallAt(c, "create")
              PROVE  \A d \in Calls : call'[d] = call[d] \/ call'[d].pc # "reserve"
            BY <1>0, <3>2, RequestLeaves
        <3>3. ASSUME NEW n, NEW has, Adopt(c, n, has)
              PROVE  \A d \in Calls : call'[d] = call[d] \/ call'[d].pc # "reserve"
            <4> DEFINE r == [call[c] EXCEPT !.pc = "gates", !.target = n, !.contract = has]
            <4>1. call' = [call EXCEPT ![c] = r]
                BY <3>3, Zenon DEF Adopt
            <4>2. r.pc = "gates"
                BY <3>1 DEF Request
            <4> HIDE DEF r
            <4> QED
                BY <1>0, <4>1, <4>2
        <3> QED
            BY <2>2, <3>2, <3>3
    <2> QED
        BY <2>1, <2>3, QuietTexts
<1>6. CASE CompleteGates(c) \/ CompleteContract(c)
    <2>1. UNCHANGED <<plan, bodies, closed, spent, promotion>>
        BY <1>6 DEF CompleteGates, CompleteContract, loop
    <2>2. CallAt(c, "contract") \/ CallAt(c, "finalize") \/ CallEnds(c)
        BY <1>6 DEF CompleteGates, CompleteContract
    <2>3. \A d \in Calls : call'[d] = call[d] \/ call'[d].pc # "reserve"
        BY <1>0, <2>2, RequestLeaves
    <2> QED
        BY <2>1, <2>3, QuietTexts
<1>7. CASE Finalize(c)
    <2>1. UNCHANGED <<plan, bodies, closed, spent>> /\ CallEnds(c)
        BY <1>7 DEF Finalize, loop
    <2>2. promotion'.revision = promotion.revision
        BY <1>7 DEF Finalize, TypeOK
    <2>3. Reserved
        BY <1>7 DEF Finalize, Provisioning, Knows, Promoting, Finishing
    <2>4. \A d \in Calls : call'[d] = call[d] \/ call'[d].pc # "reserve"
        BY <1>0, <2>1, RequestGoes, IdleKnowsNothing
    <2> QED
        BY <2>1, <2>2, <2>3, <2>4, TextsStay DEF Texts
<1> QED
    BY <1>1, <1>2, <1>3, <1>4, <1>5, <1>6, <1>7 DEF Approval

LEMMA OtherTexts ==
    ASSUME TypeOK, Texts,
           \/ \E x \in Captures : Capture(x)
           \/ StopCoordination \/ SourceMoves \/ Crash \/ UNCHANGED vars
    PROVE  Texts'
<1>1. ASSUME NEW x \in Captures, Capture(x) PROVE Texts'
    <2>1. UNCHANGED <<bodies, closed, spent, promotion, call>>
        BY <1>1 DEF Capture
    <2>2. \/ plan' = plan
          \/ plan'.status = "under_revision" /\ plan'.revision = plan.revision
        BY <1>1 DEF Capture, TypeOK, PlanRow
    <2> QED
        BY <2>1, <2>2, QuietTexts, PlanReturns
<1>2. CASE StopCoordination \/ SourceMoves \/ UNCHANGED vars
    BY <1>2, QuietTexts DEF StopCoordination, SourceMoves, vars, loop, approval
<1>3. CASE Crash
    <2>1. \A c \in Calls : call'[c].pc # "reserve"
        BY <1>3, IdleRequest DEF Crash
    <2> QED
        BY <1>3, <2>1, QuietTexts DEF Crash, loop, approval
<1> QED
    BY <1>1, <1>2, <1>3

LEMMA TextsKept ==
    ASSUME TypeOK, Provisioning, Texts, [Next]_vars PROVE Texts'
BY WorkerTexts, ControlTexts, ApprovalTexts, OtherTexts DEF Next

LEMMA InitialTexts == Init => Texts
<1> SUFFICES ASSUME Init PROVE Texts
    OBVIOUS
<1>1. \A c \in Calls : call[c].pc = "idle"
    BY IdleRequest DEF Init
<1> QED
    BY <1>1, PlanningAssumption DEF Init, Texts, Reserved

IInv == TypeOK /\ Provisioning /\ Texts

\* In every state the types, the linked session and the approved text are
\* what the three parts of the invariant say.
THEOREM Invariance == Spec => []IInv
<1>1. Init => IInv
    BY InitialTypes, InitialTexts DEF IInv
<1>2. IInv /\ [Next]_vars => IInv'
    BY TypesKept, ProvisioningKept, TextsKept DEF IInv
<1> QED
    BY <1>1, <1>2, PTL DEF Spec

\* What was approved is a text that was written, with criteria that can be
\* gates, and that a review or a spent budget had put before the human.
THEOREM ApprovedTextsStand == Spec => []ApprovedTextStands
<1>1. IInv => ApprovedTextStands
    BY DEF IInv, Texts, Agreed, ApprovedTextStands
<1> QED
    BY <1>1, Invariance, PTL

\* Only the escalation, or a crash, ends the worker's duty to tell the human,
\* and whoever closes the escalation moves the plan on.
LEMMA ToldKept ==
    ASSUME TypeOK, ExhaustionIsTold, [Next]_vars
    PROVE  ExhaustionIsTold'
<1> USE DEF ExhaustionIsTold
<1>1. plan \in PlanRow /\ crashes \in Nat /\ exhausted \in BOOLEAN
    BY DEF TypeOK
<1>2. CASE Worker
    <2>1. CASE TurnReturns
        <3>1. plan'.status = plan.status /\ worker.pc = "idle"
            BY <1>1, <2>1 DEF TurnReturns, PlanRow
        <3> QED
            BY <2>1, <3>1 DEF TurnReturns
    <2>2. CASE Exhaust
        <3>1. CASE plan.status = "needs_human_resolution"
            BY <2>2, <3>1 DEF Exhaust
        <3>2. CASE plan.status # "needs_human_resolution"
            BY <2>2, <3>2 DEF Exhaust, WorkerAt, TypeOK
        <3> QED
            BY <3>1, <3>2
    <2>3. CASE Escalate
        BY <2>3 DEF Escalate
    <2>4. CASE ReadForTurn
        BY <2>4 DEF ReadForTurn, loop
    <2>5. CASE PlannerReplies
        <3>1. worker.pc = "write" /\ UNCHANGED crashes
            BY <2>5 DEF PlannerReplies
        <3>2. CASE UNCHANGED <<plan, bodies, spent, exhausted>>
            BY <3>1, <3>2
        <3>3. ASSUME NEW over \in BOOLEAN, NEW r,
                     plan' = [plan EXCEPT !.revision = r, !.status =
                                IF over THEN "needs_human_resolution"
                                        ELSE "awaiting_review"],
                     exhausted' = (exhausted \/ over)
              PROVE  ExhaustionIsTold'
            <4>1. CASE over
                <5>1. exhausted' = TRUE
                    BY <3>3, <4>1
                <5> QED
                    BY <5>1
            <4>2. CASE ~over
                <5>1. plan'.status = "awaiting_review"
                    BY <1>1, <3>3, <4>2 DEF PlanRow
                <5> QED
                    BY <5>1
            <4> QED
                BY <4>1, <4>2
        <3> QED
            BY <2>5, <3>2, <3>3 DEF PlannerReplies
    <2>6. CASE ReviewerReplies
        <3>1. plan' = plan \/ plan'.status \in {"ready", "under_revision"}
            BY <1>1, <2>6 DEF ReviewerReplies, CloseReview, PlanRow
        <3> QED
            BY <2>6, <3>1 DEF ReviewerReplies
    <2> QED
        BY <1>2, <2>1, <2>2, <2>3, <2>4, <2>5, <2>6 DEF Worker
<1>3. ASSUME NEW c \in Calls, Control(c) PROVE ExhaustionIsTold'
    <2>1. UNCHANGED <<worker, crashes>>
        BY <1>3 DEF Control, ReadForReopen, Reopen, ReadForWaive, Waive, ReadForResume,
           ResumeBudget
    <2>2. \/ UNCHANGED <<plan, exhausted>>
          \/ plan'.status \in {"under_revision", "awaiting_review", "drafting"}
        BY <1>1, <1>3 DEF Control, ReadForReopen, Reopen, ReadForWaive, Waive, ReadForResume,
           ResumeBudget, loop, PlanRow
    <2> QED
        BY <2>1, <2>2
<1>4. ASSUME NEW c \in Calls, Approval(c) PROVE ExhaustionIsTold'
    <2>1. UNCHANGED <<worker, crashes>>
        BY <1>4 DEF Approval, ReadForApprove, ReturnForDrift, Reserve, PlanMoved, Provision,
           Create, CreateFails, CompleteGates, CompleteContract, Finalize, FinalizeRefused
    <2>2. \/ UNCHANGED <<plan, exhausted>>
          \/ plan'.status \in {"under_revision", "approved"}
        BY <1>1, <1>4 DEF Approval, ReadForApprove, ReturnForDrift, Reserve, PlanMoved,
           Provision, Create, CreateFails, CompleteGates, CompleteContract, Finalize,
           FinalizeRefused, loop, PlanRow
    <2> QED
        BY <2>1, <2>2
<1>5. ASSUME NEW x \in Captures, Capture(x) PROVE ExhaustionIsTold'
    <2>1. UNCHANGED <<exhausted, worker, crashes>>
          /\ (plan' = plan \/ plan'.status = "under_revision")
        BY <1>1, <1>5 DEF Capture, PlanRow
    <2> QED
        BY <2>1
<1>6. CASE StopCoordination \/ SourceMoves \/ UNCHANGED vars
    BY <1>6 DEF StopCoordination, SourceMoves, vars, loop
<1>7. CASE Crash
    BY <1>1, <1>7 DEF Crash
<1> QED
    BY <1>2, <1>3, <1>4, <1>5, <1>6, <1>7 DEF Next

\* A plan that waits for a human has an escalation that says so, open or
\* about to be, unless a crash came between (_exhaust).
THEOREM ExhaustionsAreTold == Spec => []ExhaustionIsTold
<1>1. Init => ExhaustionIsTold
    BY DEF Init, ExhaustionIsTold
<1>2. TypeOK /\ ExhaustionIsTold /\ [Next]_vars => ExhaustionIsTold'
    BY ToldKept
<1> QED
    BY <1>1, <1>2, TypesStand, PTL DEF Spec

(***************************************************************************)
(* The refinement.                                                         *)
(***************************************************************************)
\* A step that moves neither the stage nor a box stutters on Promotion.
LEMMA Stutters ==
    ASSUME UNCHANGED <<promotion, drops, pending, CoordinationBox>>
    PROVE  UNCHANGED P!vars
BY DEF P!vars, Stage, Reserved, Promoted

\* The linked session changes, but for its dropbox.
LEMMA BoxStays ==
    ASSUME TypeOK, NEW n \in 1..Len(linked), NEW row \in Linked,
           row.drops = linked[n].drops, linked' = [linked EXCEPT ![n] = row]
    PROVE  CoordinationBox' = CoordinationBox
<1>1. linked \in Seq(Linked)
    BY DEF TypeOK
<1>2. Len(linked') = Len(linked) /\ linked' \in Seq(Linked)
      /\ \A m \in 1..Len(linked) : linked'[m] = IF m = n THEN row ELSE linked[m]
    BY <1>1, LinkedMoves
<1>3. linked # <<>> /\ linked' # <<>> /\ 1 \in 1..Len(linked)
    BY <1>1, <1>2
<1> QED
    BY <1>2, <1>3 DEF CoordinationBox

LEMMA WorkerRefines ==
    ASSUME TypeOK, Worker \/ \E c \in Calls : Control(c)
    PROVE  UNCHANGED P!vars
<1>1. UNCHANGED <<promotion, drops, pending, linked>>
    BY DEF Worker, TurnReturns, Exhaust, Escalate, ReadForTurn, PlannerReplies,
           ReviewerReplies, Control, ReadForReopen, Reopen, ReadForWaive, Waive,
           ReadForResume, ResumeBudget, approval
<1> QED
    BY <1>1, Stutters DEF CoordinationBox

LEMMA ReserveApproves ==
    ASSUME IInv, NEW c \in Calls, Reserve(c) PROVE P!Next
<1>1. /\ Agreed(call[c].revision) /\ Len(bodies) = plan.revision
      /\ call[c].revision \in Nat /\ plan.revision = call[c].revision
      /\ plan.revision <= MaxRevisions /\ plan.revision \in Nat
    BY DEF IInv, TypeOK, PlanRow, Request, Texts, Reserve, SamePlan
<1>2. call[c].revision \in 1..MaxRevisions
    BY <1>1, PlanningAssumption DEF Agreed
<1>3. /\ promotion'.revision = call[c].revision /\ promotion'.coordination = 0
      /\ UNCHANGED <<drops, pending, linked>> /\ ~Reserved
    BY DEF Reserve
<1>4. Stage = "planning"
    BY <1>3 DEF Stage, Reserved, Promoted, NoPromotion
<1>5. Stage' = "approved"
    BY <1>2, <1>3 DEF Stage, Reserved, Promoted, NoPromotion
<1>6. P!Approve(call[c].revision)
    BY <1>3, <1>4, <1>5 DEF P!Approve, CoordinationBox
<1> QED
    BY <1>2, <1>6 DEF P!Next

LEMMA FinalizePromotes ==
    ASSUME IInv, NEW c \in Calls, Finalize(c) PROVE [P!Next]_(P!vars)
<1>1. /\ call[c].target = 1 /\ Len(linked) = 1 /\ Reserved
      /\ linked \in Seq(Linked) /\ pending \in Seq(Captures)
    BY DEF IInv, TypeOK, Finalize, Provisioning, Knows, Promoting, Finishing
<1>2. 1 \in 1..Len(linked) /\ linked[1] \in Linked
    BY <1>1, OneLinked
<1> DEFINE q == linked[1].drops \o pending
<1>3. linked[1].drops \in Seq(Captures)
    BY <1>2, LinkedRow
<1>4. q \in Seq(Captures)
    BY <1>1, <1>3
<1>5. linked' = [linked EXCEPT ![1] = [linked[1] EXCEPT !.drops = q]]
    BY <1>1 DEF Finalize
<1>6. pending = <<>> => q = linked[1].drops
    BY <1>3
<1> HIDE DEF q
<1> DEFINE row == [linked[1] EXCEPT !.drops = q]
<1>7. row \in Linked /\ row.drops = q
    BY <1>2, <1>4 DEF Linked
<1> HIDE DEF row
<1>8. linked'[1].drops = q /\ linked' # <<>> /\ linked # <<>>
    <2>1. linked' = [linked EXCEPT ![1] = row]
        BY <1>5 DEF row
    <2>2. Len(linked') = Len(linked) /\ linked'[1] = row
        BY <1>1, <1>2, <1>7, <2>1, LinkedMoves
    <2>3. linked'[1].drops = q
        BY <1>7, <2>2
    <2>4. linked # <<>> /\ linked' # <<>>
        <3>1. Len(linked) # 0 /\ Len(linked') # 0 /\ Len(<<>>) = 0
            BY <1>1, <2>2
        <3> QED
            BY <3>1, Zenon
    <2> QED
        BY <2>3, <2>4
<1>9. CoordinationBox = linked[1].drops /\ CoordinationBox' = q
    BY <1>8 DEF CoordinationBox
<1>10. /\ promotion' = [promotion EXCEPT !.coordination = 1]
       /\ pending' = <<>> /\ drops' = drops
    BY <1>1 DEF Finalize
<1>11. promotion'.revision = promotion.revision /\ promotion'.coordination = 1
    BY <1>10 DEF IInv, TypeOK
<1>12. Stage' = "promoted"
    BY <1>11 DEF Stage, Promoted, Reserved, NoPromotion
<1>13. CASE Promoted
    <2>1. pending = <<>> /\ promotion.coordination = 1
        BY <1>13 DEF IInv, Provisioning, Promoted
    <2>2. Stage = "promoted"
        BY <1>1, <1>13 DEF Stage
    <2> QED
        BY <1>6, <1>9, <1>10, <1>11, <1>12, <2>1, <2>2 DEF P!vars
<1>14. CASE ~Promoted
    <2>1. Stage = "approved"
        BY <1>1, <1>14 DEF Stage
    <2>2. P!Promote
        BY <1>9, <1>10, <1>11, <1>12, <2>1 DEF P!Promote, q
    <2> QED
        BY <2>2 DEF P!Next
<1> QED
    BY <1>13, <1>14

LEMMA ApprovalRefines ==
    ASSUME IInv, NEW c \in Calls, Approval(c) PROVE [P!Next]_(P!vars)
<1>0. linked \in Seq(Linked)
    BY DEF IInv, TypeOK
<1>1. CASE \/ ReadForApprove(c) \/ ReturnForDrift(c) \/ PlanMoved(c) \/ Provision(c)
           \/ CreateFails(c) \/ FinalizeRefused(c)
    <2>1. UNCHANGED <<promotion, drops, pending, linked>>
        BY <1>1 DEF ReadForApprove, ReturnForDrift, PlanMoved, Provision, CreateFails,
                    FinalizeRefused, approval
    <2> QED
        BY <2>1, Stutters DEF CoordinationBox
<1>2. CASE Reserve(c)
    BY <1>2, ReserveApproves
<1>3. CASE Create(c)
    <2>1. UNCHANGED <<promotion, drops, pending>>
        BY <1>3 DEF Create
    <2>2. CASE linked' = linked
        BY <2>1, <2>2, Stutters DEF CoordinationBox
    <2>3. CASE linked' # linked
        <3> DEFINE row == [gates |-> FALSE, contract |-> FALSE,
                           stopped |-> FALSE, drops |-> <<>>]
        <3>1. linked = <<>> /\ linked' = Append(linked, row)
            BY <1>3, <2>3 DEF Create, Linkable
        <3>2. row.drops = <<>>
            OBVIOUS
        <3> HIDE DEF row
        <3>3. linked'[1] = row /\ linked' # <<>>
            BY <3>1
        <3> QED
            BY <2>1, <3>1, <3>2, <3>3, Stutters DEF CoordinationBox
    <2> QED
        BY <2>2, <2>3
<1>4. CASE CompleteGates(c)
    <2>1. call[c].target \in 1..Len(linked)
        BY <1>4 DEF IInv, CompleteGates, Provisioning, Knows, Promoting, Finishing
    <2> DEFINE n == call[c].target
               row == [linked[n] EXCEPT !.gates = TRUE]
    <2>2. linked' = [linked EXCEPT ![n] = row] /\ UNCHANGED <<promotion, drops, pending>>
        BY <1>4 DEF CompleteGates
    <2>3. linked[n] \in Linked
        BY <1>0, <2>1
    <2>4. row \in Linked /\ row.drops = linked[n].drops
        BY <2>3 DEF Linked
    <2> HIDE DEF row
    <2> QED
        BY <2>1, <2>2, <2>4, BoxStays, Stutters DEF IInv
<1>5. CASE CompleteContract(c)
    <2>1. call[c].target \in 1..Len(linked)
        BY <1>5 DEF IInv, CompleteContract, Provisioning, Knows, Promoting, Finishing
    <2> DEFINE n == call[c].target
               row == [linked[n] EXCEPT !.contract = TRUE]
    <2>2. /\ linked' = linked \/ linked' = [linked EXCEPT ![n] = row]
          /\ UNCHANGED <<promotion, drops, pending>>
        BY <1>5 DEF CompleteContract
    <2>3. linked[n] \in Linked
        BY <1>0, <2>1
    <2>4. row \in Linked /\ row.drops = linked[n].drops
        BY <2>3 DEF Linked
    <2> HIDE DEF row
    <2>5. CoordinationBox' = CoordinationBox
        BY <2>1, <2>2, <2>4, BoxStays DEF IInv, CoordinationBox
    <2> QED
        BY <2>2, <2>5, Stutters
<1>6. CASE Finalize(c)
    BY <1>6, FinalizePromotes
<1> QED
    BY <1>1, <1>2, <1>3, <1>4, <1>5, <1>6 DEF Approval

LEMMA CaptureRefines ==
    ASSUME IInv, NEW x \in Captures, Capture(x) PROVE P!Next
<1>0. /\ linked \in Seq(Linked) /\ Len(linked) <= 1
      /\ promotion' = promotion
    BY DEF IInv, TypeOK, Provisioning, Capture
<1>1. ~P!Held(x)
    <2>1. ~Given(x)
        BY DEF Capture
    <2>2. \A i \in 1..Len(CoordinationBox) : CoordinationBox[i] # x
        <3>1. CASE linked = <<>>
            BY <3>1 DEF CoordinationBox
        <3>2. CASE linked # <<>>
            <4>1. 1 \in 1..Len(linked)
                BY <1>0, <3>2
            <4> QED
                BY <2>1, <3>2, <4>1 DEF Given, CoordinationBox
        <3> QED
            BY <3>1, <3>2
    <2> QED
        BY <2>1, <2>2 DEF Given, P!Held
<1>2. Stage' = Stage
    BY <1>0 DEF Stage, Reserved, Promoted
<1>3. CASE ~Reserved /\ drops' = Append(drops, x) /\ UNCHANGED <<pending, linked>>
    <2>1. Stage = "planning"
        BY <1>3 DEF Stage, Reserved, Promoted, NoPromotion
    <2>2. P!Capture(x)
        BY <1>0, <1>1, <1>2, <1>3, <2>1 DEF P!Capture, CoordinationBox
    <2> QED
        BY <2>2 DEF P!Next
<1>4. CASE /\ Reserved /\ ~Promoted /\ pending' = Append(pending, x)
           /\ UNCHANGED <<drops, linked>>
    <2>1. Stage = "approved"
        BY <1>4 DEF Stage
    <2>2. P!Capture(x)
        BY <1>0, <1>1, <1>2, <1>4, <2>1 DEF P!Capture, CoordinationBox
    <2> QED
        BY <2>2 DEF P!Next
<1>5. CASE /\ Promoted /\ UNCHANGED <<drops, pending>>
           /\ linked' = [linked EXCEPT ![promotion.coordination].drops = Append(@, x)]
    <2>1. promotion.coordination = 1 /\ Len(linked) = 1
        BY <1>5 DEF IInv, Provisioning, Promoted
    <2>2. 1 \in 1..Len(linked) /\ linked[1] \in Linked
        BY <1>0, <2>1, OneLinked
    <2> DEFINE q == Append(linked[1].drops, x)
               row == [linked[1] EXCEPT !.drops = q]
    <2>3. q \in Seq(Captures)
        BY <2>2, LinkedRow, Extended
    <2>4. linked' = [linked EXCEPT ![1] = row]
        BY <1>5, <2>1
    <2> HIDE DEF q
    <2>5. row \in Linked /\ row.drops = q
        BY <2>2, <2>3 DEF Linked
    <2> HIDE DEF row
    <2>6. Len(linked') = Len(linked) /\ linked'[1] = row
        BY <1>0, <2>2, <2>4, <2>5, LinkedMoves
    <2>7. linked # <<>> /\ linked' # <<>>
        <3>1. Len(linked) # 0 /\ Len(linked') # 0 /\ Len(<<>>) = 0
            BY <2>1, <2>6
        <3> QED
            BY <3>1, Zenon
    <2>8. CoordinationBox' = Append(CoordinationBox, x)
        BY <2>5, <2>6, <2>7 DEF CoordinationBox, q
    <2>9. Stage = "promoted"
        BY <1>5 DEF Stage, Promoted, Reserved, NoPromotion
    <2>10. P!Capture(x)
        BY <1>0, <1>1, <1>2, <1>5, <2>8, <2>9 DEF P!Capture
    <2> QED
        BY <2>10 DEF P!Next
<1> QED
    BY <1>3, <1>4, <1>5 DEF Capture

LEMMA OtherRefines ==
    ASSUME IInv, StopCoordination \/ SourceMoves \/ Crash \/ UNCHANGED vars
    PROVE  UNCHANGED P!vars
<1>0. linked \in Seq(Linked)
    BY DEF IInv, TypeOK
<1>1. CASE StopCoordination
    <2>1. PICK n \in 1..Len(linked) :
             linked' = [linked EXCEPT ![n] = [linked[n] EXCEPT !.stopped = TRUE]]
        BY <1>1 DEF StopCoordination
    <2> DEFINE row == [linked[n] EXCEPT !.stopped = TRUE]
    <2>2. linked[n] \in Linked
        BY <1>0
    <2>3. row \in Linked /\ row.drops = linked[n].drops /\ linked' = [linked EXCEPT ![n] = row]
        BY <2>1, <2>2 DEF Linked
    <2> HIDE DEF row
    <2> QED
        BY <1>1, <2>3, BoxStays, Stutters DEF StopCoordination, IInv
<1>2. CASE SourceMoves \/ Crash \/ UNCHANGED vars
    BY <1>2, Stutters DEF SourceMoves, Crash, vars, approval, CoordinationBox
<1> QED
    BY <1>1, <1>2

\* Every step of the requests that race, fail and are retried is one of the
\* steps Promotion promises, or none: the plan is approved once and promoted
\* once, and no capture is lost, doubled or reordered on the way.
THEOREM PlanningImplementsPromotion == Spec => PromotionSpec
<1>1. Init => P!Init
    BY DEF Init, P!Init, Stage, Reserved, Promoted, NoPromotion, CoordinationBox
<1>2. IInv /\ [Next]_vars => [P!Next]_(P!vars)
    BY WorkerRefines, ApprovalRefines, CaptureRefines, OtherRefines DEF Next, IInv
<1> QED
    BY <1>1, <1>2, Invariance, PTL DEF Spec, PromotionSpec, P!Spec
=============================================================================
