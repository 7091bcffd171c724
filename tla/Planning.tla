------------------------------ MODULE Planning ------------------------------
(***************************************************************************)
(* Planning mode (session/planning.py): a planner and a reviewer drive one *)
(* plan through revisions and reviews until it is ready, or until its      *)
(* budget is spent; the human reopens it, waives objections, resumes the   *)
(* budget, captures side tasks, and at last approves the plan, which       *)
(* promotes it into a coordination session.                                *)
(*                                                                         *)
(* Three kinds of actor interleave: the managed worker of the session,     *)
(* which handles one reply of an agent after the other; the human's        *)
(* requests, each a thread of the local server; and the human at the       *)
(* repository.  Every request reads first and writes in a transaction of   *)
(* its own, so its reading may be overtaken.  A crash of the server ends   *)
(* the worker and every request between two of their steps.                *)
(***************************************************************************)
EXTENDS Integers, Sequences, FiniteSets

CONSTANTS
    Calls,              \* request threads of the human
    Captures,           \* side tasks the human may capture
    TurnBudget,         \* completed invocations before the loop stops
    RevisionBudget,     \* submitted revisions before the loop stops
    MayRunLate,         \* can the wall-clock budget run out?
    Requests,           \* what the human asks for: reopen, waive, resume, approve
    Concerns,           \* what the agents raise: blocking, fork, advisory
    MaxRevisions,       \* bound: revisions of the plan
    MaxObjections,      \* bound: objections raised
    MaxTip,             \* bound: commits of the source branch
    MaxCrashes          \* bound: crashes of the server

ASSUME PlanningAssumption ==
    /\ Calls # {} /\ IsFiniteSet(Calls)
    /\ TurnBudget \in Nat \ {0} /\ RevisionBudget \in Nat \ {0}
    /\ MayRunLate \in BOOLEAN
    /\ Requests \subseteq {"reopen", "waive", "resume", "approve"}
    /\ Concerns \subseteq {"blocking", "fork", "advisory"}
    /\ MaxRevisions \in Nat /\ MaxObjections \in Nat
    /\ MaxTip \in Nat \ {0} /\ MaxCrashes \in Nat

VARIABLES
    plan,               \* the row of session_plans
    bodies,             \* revision -> has it valid acceptance criteria?
    closed,             \* the revisions a review approved
    spent,              \* the revisions the budget ran out on
    objections,         \* the rows of session_plan_objections, by number
    exhausted,          \* is the budget's escalation open?
    tip,                \* the tip of the source branch
    promotion,          \* the row of session_promotions, or NoPromotion
    pending,            \* its pending_captures
    linked,             \* the sessions that carry promoted_from
    drops,              \* the dropbox of the planning session
    session,            \* is the planning session active or complete?
    worker,             \* the managed worker of the session
    call,               \* the requests under way
    crashes

loop == <<plan, bodies, closed, spent, objections, exhausted>>
approval == <<promotion, pending, linked, drops, session>>
vars == <<loop, tip, approval, worker, call, crashes>>

Active == {"drafting", "awaiting_review", "under_revision", "ready"}
Status == Active \cup {"needs_human_resolution", "approved"}
Approvable == {"ready", "needs_human_resolution"}
Kinds == {"blocking", "fork", "advisory"}
BlockingKinds == {"blocking", "fork"}

NoPromotion == [revision |-> 0, sha |-> 0, coordination |-> 0]
IdleWorker == [pc |-> "idle", resumes |-> 0]
IdleCall == [pc |-> "idle", saw |-> "drafting", revision |-> 0, sha |-> 0,
             objection |-> 0, target |-> 0, contract |-> FALSE]

Reserved == promotion # NoPromotion
Promoted == promotion.coordination # 0

OpenAt(os) == {o \in 1..Len(os) : os[o].status = "open"}
OpenBlockers(os) == {o \in OpenAt(os) : os[o].kind \in BlockingKinds}

Raise(os, kind) == Append(os, [kind |-> kind, status |-> "open"])

\* OBJ numbers are counted in the transaction that inserts them; how many
\* a run raises is bounded.
Raisable(os, n) == Len(os) + n <= MaxObjections

\* Every request may resume the budget once: they may all have read it
\* unresumed.
MaxResumes == IF "resume" \in Requests THEN Cardinality(Calls) ELSE 0

Allowance(resumes) == resumes + 1

MaxTurns == TurnBudget * Allowance(MaxResumes)

ValidCriteria(r) == bodies[r]

Init ==
    /\ plan = [status |-> "drafting", revision |-> 0, sha |-> 1,
               turns |-> 0, resumes |-> 0]
    /\ bodies = <<>> /\ closed = {} /\ spent = {} /\ objections = <<>>
    /\ exhausted = FALSE /\ tip = 1
    /\ promotion = NoPromotion /\ pending = <<>> /\ linked = <<>>
    /\ drops = <<>> /\ session = "active"
    /\ worker = IdleWorker /\ call = [c \in Calls |-> IdleCall]
    /\ crashes = 0

-----------------------------------------------------------------------------
(* The managed worker: count_turn and then handle_turn for every completed *)
(* invocation.                                                             *)

WorkerAt(pc) == worker' = [worker EXCEPT !.pc = pc]

\* Mutant: only the turns of a first draft are counted.
CountDraftingTurns ==
    /\ worker.pc = "idle" /\ session = "active"
    /\ IF plan.status # "drafting"
       THEN WorkerAt("read") /\ UNCHANGED plan
       ELSE /\ plan' = [plan EXCEPT !.turns = @ + 1]
            /\ WorkerAt(IF plan.turns + 1 >= TurnBudget * Allowance(plan.resumes)
                        THEN "exhaust" ELSE "read")
    /\ UNCHANGED <<bodies, closed, spent, objections, exhausted, tip,
                   approval, call, crashes>>

\* An invocation of either agent completed: count_turn spends a turn of an
\* active plan and reads the row again to see whether a budget is spent.
\* The count is only ever compared, so it stops at the largest budget.
TurnReturns ==
    /\ worker.pc = "idle" /\ session = "active"
    /\ IF plan.status \notin Active
       THEN WorkerAt("read") /\ UNCHANGED plan
       ELSE LET turns == IF plan.turns < MaxTurns THEN plan.turns + 1
                                                  ELSE plan.turns
            IN  /\ plan' = [plan EXCEPT !.turns = turns]
                /\ \E late \in {FALSE, MayRunLate} :
                      IF late \/ turns >= TurnBudget * Allowance(plan.resumes)
                      THEN WorkerAt("exhaust")
                      ELSE WorkerAt("read")
    /\ UNCHANGED <<bodies, closed, spent, objections, exhausted, tip,
                   approval, call, crashes>>

\* Mutant: the status is all a human gets.
ExhaustSilently ==
    /\ worker.pc = "exhaust" /\ WorkerAt("read")
    /\ plan' = [plan EXCEPT !.status = "needs_human_resolution"]
    /\ spent' = spent \cup {plan.revision}
    /\ UNCHANGED <<bodies, closed, objections, exhausted, tip, approval,
                   call, crashes>>

\* _exhaust writes the status in a transaction of its own ...
Exhaust ==
    /\ worker.pc = "exhaust"
    /\ IF plan.status = "needs_human_resolution"
       THEN WorkerAt("read") /\ UNCHANGED <<plan, spent>>
       ELSE /\ WorkerAt("escalate")
            /\ plan' = [plan EXCEPT !.status = "needs_human_resolution"]
            /\ spent' = spent \cup {plan.revision}
    /\ UNCHANGED <<bodies, closed, objections, exhausted, tip, approval,
                   call, crashes>>

\* ... and escalates after it, unless that escalation is still open.
Escalate ==
    /\ worker.pc = "escalate"
    /\ WorkerAt("read")
    /\ exhausted' = TRUE
    /\ UNCHANGED <<plan, bodies, closed, spent, objections, tip, approval,
                   call, crashes>>

\* handle_turn reads the plan and ignores the reply of an inactive one.
ReadForTurn ==
    /\ worker.pc = "read"
    /\ worker' = IF plan.status \in Active
                 THEN [pc |-> "write", resumes |-> plan.resumes]
                 ELSE IdleWorker
    /\ UNCHANGED <<loop, tip, approval, call, crashes>>

Resolve(os, settled) ==
    [o \in 1..Len(os) |->
        IF o \in settled THEN [os[o] EXCEPT !.status = "resolved"] ELSE os[o]]

\* The transaction of a planner's reply: its resolutions, a fork, and then
\* its submission, which goes to the reviewer or, past the revision budget,
\* to the human.  The allowance is that of the row read before.
PlannerReplies ==
    /\ worker.pc = "write" /\ worker' = IdleWorker
    /\ \E settled \in SUBSET OpenAt(objections), fork \in BOOLEAN :
          LET os == Resolve(objections, settled) IN
          /\ fork => "fork" \in Concerns /\ Raisable(os, 1)
          /\ objections' = IF fork THEN Raise(os, "fork") ELSE os
    /\ \/ UNCHANGED <<plan, bodies, spent, exhausted>>
       \/ /\ plan.revision < MaxRevisions
          /\ \E valid \in BOOLEAN : bodies' = Append(bodies, valid)
          /\ LET r == plan.revision + 1
                 over == r >= RevisionBudget * Allowance(worker.resumes)
             IN  /\ plan' = [plan EXCEPT !.revision = r, !.status =
                                IF over THEN "needs_human_resolution"
                                        ELSE "awaiting_review"]
                 /\ spent' = IF over THEN spent \cup {r} ELSE spent
                 /\ exhausted' = (exhausted \/ over)
    /\ UNCHANGED <<closed, tip, approval, call, crashes>>

\* A closing review: approval needs every blocker settled and criteria that
\* can become gates; without the criteria the plan goes back to the planner.
CloseReview(verdict, os) ==
    LET r == plan.revision IN
    CASE verdict = "approve" /\ OpenBlockers(os) # {} -> UNCHANGED <<plan, closed>>
      [] verdict = "approve" /\ OpenBlockers(os) = {} /\ ValidCriteria(r) ->
            /\ plan' = [plan EXCEPT !.status = "ready"]
            /\ closed' = closed \cup {r}
      [] OTHER -> /\ plan' = [plan EXCEPT !.status = "under_revision"]
                  /\ UNCHANGED closed

\* The transaction of a reviewer's reply: forks and objections first, so a
\* reply that raises a blocker does not also approve.
ReviewerReplies ==
    /\ worker.pc = "write" /\ worker' = IdleWorker
    /\ \E raised \in SUBSET Concerns :
          LET fork == IF "fork" \in raised THEN Raise(objections, "fork")
                                           ELSE objections
              block == IF "blocking" \in raised THEN Raise(fork, "blocking")
                                                ELSE fork
              os == IF "advisory" \in raised THEN Raise(block, "advisory")
                                             ELSE block
          IN  /\ Raisable(objections, Cardinality(raised))
              /\ objections' = os
              /\ \/ UNCHANGED <<plan, closed>>
                 \/ /\ plan.revision >= 1
                    /\ \E verdict \in {"approve", "revise"} :
                          CloseReview(verdict, os)
    /\ UNCHANGED <<bodies, spent, exhausted, tip, approval, call, crashes>>

-----------------------------------------------------------------------------
(* The human's controls: each reads the plan and writes what it decided in *)
(* a transaction that does not look at the status again.                   *)

CallAt(c, pc) == call' = [call EXCEPT ![c].pc = pc]
CallEnds(c) == call' = [call EXCEPT ![c] = IdleCall]

Goes(c, pc) == call' = [call EXCEPT ![c] = [IdleCall EXCEPT !.pc = pc]]

ReadForReopen(c) ==
    /\ call[c].pc = "idle" /\ "reopen" \in Requests
    /\ plan.status \in Active \cup {"needs_human_resolution"}
    /\ Goes(c, "reopen")
    /\ UNCHANGED <<loop, tip, approval, worker, crashes>>

Reopen(c) ==
    /\ call[c].pc = "reopen" /\ CallEnds(c)
    /\ plan' = [plan EXCEPT !.status = "under_revision"]
    /\ UNCHANGED <<bodies, closed, spent, objections, exhausted, tip,
                   approval, worker, crashes>>

ReadForWaive(c) ==
    /\ call[c].pc = "idle" /\ "waive" \in Requests
    /\ plan.status # "approved"
    /\ \E o \in OpenAt(objections) :
          call' = [call EXCEPT ![c] = [IdleCall EXCEPT !.pc = "waive",
                       !.saw = plan.status, !.revision = plan.revision,
                       !.objection = o]]
    /\ UNCHANGED <<loop, tip, approval, worker, crashes>>

\* A waiver sends a live plan back to review; on a spent budget it stands.
Waive(c) ==
    /\ call[c].pc = "waive" /\ CallEnds(c)
    /\ objections' = [objections EXCEPT ![call[c].objection].status = "waived"]
    /\ plan' = IF call[c].saw \notin Active THEN plan
               ELSE [plan EXCEPT !.status = IF call[c].revision > 0
                                            THEN "awaiting_review" ELSE "drafting"]
    /\ UNCHANGED <<bodies, closed, spent, exhausted, tip, approval, worker, crashes>>

ReadForResume(c) ==
    /\ call[c].pc = "idle" /\ "resume" \in Requests
    /\ plan.status = "needs_human_resolution" /\ plan.resumes < 1
    /\ Goes(c, "resume")
    /\ UNCHANGED <<loop, tip, approval, worker, crashes>>

ResumeBudget(c) ==
    /\ call[c].pc = "resume" /\ CallEnds(c)
    /\ plan' = [plan EXCEPT !.resumes = @ + 1, !.status = "under_revision"]
    /\ exhausted' = FALSE
    /\ UNCHANGED <<bodies, closed, spent, objections, tip, approval, worker, crashes>>

-----------------------------------------------------------------------------
(* Approval: reserve the promotion, provision the coordination session,    *)
(* and finalize; a request that finds the promotion reserved takes over.   *)

\* Mutant: an approved plan is approved, and nothing is left to do.
ReadForApproveOnce(c) ==
    /\ call[c].pc = "idle" /\ "approve" \in Requests
    /\ ~Reserved
    /\ plan.status \in Approvable /\ plan.revision > 0
    /\ OpenBlockers(objections) = {} /\ ValidCriteria(plan.revision)
    /\ \/ tip # plan.sha /\ Goes(c, "drift")
       \/ /\ tip = plan.sha
          /\ call' = [call EXCEPT ![c] = [IdleCall EXCEPT !.pc = "reserve",
                          !.revision = plan.revision, !.sha = plan.sha]]
    /\ UNCHANGED <<loop, tip, approval, worker, crashes>>

\* Everything approve checks before its transaction, and its fork into a
\* drifted baseline, a fresh reservation and a promotion to be finished.
ReadForApprove(c) ==
    /\ call[c].pc = "idle" /\ "approve" \in Requests
    /\ \/ /\ ~Reserved
          /\ plan.status \in Approvable /\ plan.revision > 0
          /\ OpenBlockers(objections) = {} /\ ValidCriteria(plan.revision)
          /\ \/ tip # plan.sha /\ Goes(c, "drift")
             \/ /\ tip = plan.sha
                /\ call' = [call EXCEPT ![c] = [IdleCall EXCEPT !.pc = "reserve",
                                !.revision = plan.revision, !.sha = plan.sha]]
       \/ /\ Reserved /\ ~Promoted
          /\ Goes(c, "provision")
    /\ UNCHANGED <<loop, tip, approval, worker, crashes>>

\* _return_to_review_for_drift: the plan is anchored at the new tip.
ReturnForDrift(c) ==
    /\ call[c].pc = "drift" /\ CallEnds(c)
    /\ Raisable(objections, 1)
    /\ objections' = Raise(objections, "blocking")
    /\ plan' = [plan EXCEPT !.status = "under_revision", !.sha = tip]
    /\ UNCHANGED <<bodies, closed, spent, exhausted, tip, approval, worker, crashes>>

\* Mutant: any revision of an approvable plan will do.
SameStatus(c) == plan.status \in Approvable

\* Has the plan moved since the request read it?
SamePlan(c) ==
    /\ plan.status \in Approvable
    /\ plan.revision = call[c].revision

Reserve(c) ==
    /\ call[c].pc = "reserve"
    /\ SamePlan(c) /\ ~Reserved         \* the promotion's key is the plan
    /\ Goes(c, "provision")
    /\ promotion' = [revision |-> call[c].revision, sha |-> call[c].sha,
                     coordination |-> 0]
    /\ plan' = [plan EXCEPT !.status = "approved"]
    /\ exhausted' = FALSE
    /\ UNCHANGED <<bodies, closed, spent, objections, tip, pending, linked,
                   drops, session, worker, crashes>>

\* "the plan changed while approval was in flight"
PlanMoved(c) ==
    /\ call[c].pc = "reserve"
    /\ ~SamePlan(c) \/ Reserved
    /\ CallEnds(c)
    /\ UNCHANGED <<loop, tip, approval, worker, crashes>>

\* The call goes on with linked session n, whose contract it has read.
Adopt(c, n, contract) ==
    call' = [call EXCEPT ![c].pc = "gates", ![c].target = n,
                         ![c].contract = contract]

\* _linked_session: an orphan of an earlier attempt is adopted.
Provision(c) ==
    /\ call[c].pc = "provision"
    /\ IF linked # <<>> THEN Adopt(c, 1, linked[1].contract)
                        ELSE CallAt(c, "create")
    /\ UNCHANGED <<loop, tip, approval, worker, crashes>>

\* Mutant: nothing refuses a second linked session.
AlwaysLinkable == TRUE

\* The unique index on the provenance refuses a second linked session.
Linkable == linked = <<>>

\* manager.create inserts the session or, refused, adopts the winner.
Create(c) ==
    /\ call[c].pc = "create"
    /\ IF Linkable
       THEN /\ linked' = Append(linked, [gates |-> FALSE, contract |-> FALSE,
                                         stopped |-> FALSE, drops |-> <<>>])
            /\ Adopt(c, Len(linked) + 1, FALSE)
       ELSE Adopt(c, 1, linked[1].contract) /\ UNCHANGED linked
    /\ UNCHANGED <<loop, tip, promotion, pending, drops, session, worker, crashes>>

\* The worktree or the room could not be made: the request fails, and the
\* reservation waits for another one.
CreateFails(c) ==
    /\ call[c].pc = "create" /\ Linkable
    /\ CallEnds(c)
    /\ UNCHANGED <<loop, tip, approval, worker, crashes>>

\* _complete_provisioning makes the gates of the criteria ...
CompleteGates(c) ==
    /\ call[c].pc = "gates" /\ CallAt(c, "contract")
    /\ linked' = [linked EXCEPT ![call[c].target].gates = TRUE]
    /\ UNCHANGED <<loop, tip, promotion, pending, drops, session, worker, crashes>>

\* ... and issues the contract, if the session had none when it was adopted;
\* a stopped session gets none.
CompleteContract(c) ==
    LET n == call[c].target
        refused == ~call[c].contract /\ linked[n].stopped
    IN  /\ call[c].pc = "contract"
        /\ IF refused THEN CallEnds(c) ELSE CallAt(c, "finalize")
        /\ linked' = IF refused THEN linked
                     ELSE [linked EXCEPT ![n].contract = TRUE]
        /\ UNCHANGED <<loop, tip, promotion, pending, drops, session, worker, crashes>>

Finalizable(c) ==
    /\ promotion.coordination \in {0, call[c].target}
    /\ pending = <<>> \/ ~linked[call[c].target].stopped

\* Mutant: the captures stay where they were queued.
FinalizeOnly(c) ==
    /\ call[c].pc = "finalize" /\ Finalizable(c)
    /\ CallEnds(c)
    /\ promotion' = [promotion EXCEPT !.coordination = call[c].target]
    /\ session' = "complete"
    /\ UNCHANGED <<loop, tip, drops, pending, linked, worker, crashes>>

\* One transaction: the promotion names its session, the queued captures
\* enter that session's dropbox, and the planning session is complete.
Finalize(c) ==
    /\ call[c].pc = "finalize" /\ Finalizable(c)
    /\ CallEnds(c)
    /\ promotion' = [promotion EXCEPT !.coordination = call[c].target]
    /\ linked' = [linked EXCEPT ![call[c].target].drops = @ \o pending]
    /\ pending' = <<>>
    /\ session' = "complete"
    /\ UNCHANGED <<loop, tip, drops, worker, crashes>>

\* A stopped session takes no captures: the transaction is rolled back.
FinalizeRefused(c) ==
    /\ call[c].pc = "finalize" /\ ~Finalizable(c)
    /\ CallEnds(c)
    /\ UNCHANGED <<loop, tip, approval, worker, crashes>>

-----------------------------------------------------------------------------
Given(x) == \/ \E i \in 1..Len(drops) : drops[i] = x
            \/ \E i \in 1..Len(pending) : pending[i] = x
            \/ \E n \in 1..Len(linked) :
                  \E i \in 1..Len(linked[n].drops) : linked[n].drops[i] = x

\* capture_drop routes and files a capture in one transaction: into the
\* planning dropbox, which makes a ready plan unready; onto the promotion,
\* while that is reserved; or into the coordination session.
Capture(x) ==
    /\ ~Given(x)
    /\ \/ /\ ~Reserved /\ session = "active"
          /\ drops' = Append(drops, x)
          /\ plan' = IF plan.status = "ready"
                     THEN [plan EXCEPT !.status = "under_revision"] ELSE plan
          /\ UNCHANGED <<pending, linked>>
       \/ /\ Reserved /\ ~Promoted
          /\ pending' = Append(pending, x)
          /\ UNCHANGED <<drops, linked, plan>>
       \/ /\ Promoted /\ ~linked[promotion.coordination].stopped
          /\ linked' = [linked EXCEPT ![promotion.coordination].drops = Append(@, x)]
          /\ UNCHANGED <<drops, pending, plan>>
    /\ UNCHANGED <<bodies, closed, spent, objections, exhausted, tip,
                   promotion, session, worker, call, crashes>>

\* The human stops a coordination session, which is listed and can be
\* stopped from the moment it is created.
StopCoordination ==
    /\ \E n \in 1..Len(linked) :
          /\ ~linked[n].stopped
          /\ linked' = [linked EXCEPT ![n].stopped = TRUE]
    /\ UNCHANGED <<loop, tip, promotion, pending, drops, session, worker, call, crashes>>

\* Somebody commits to the source branch.
SourceMoves ==
    /\ tip < MaxTip /\ tip' = tip + 1
    /\ UNCHANGED <<loop, approval, worker, call, crashes>>

Crash ==
    /\ crashes < MaxCrashes /\ crashes' = crashes + 1
    /\ worker' = IdleWorker /\ call' = [c \in Calls |-> IdleCall]
    /\ UNCHANGED <<loop, tip, approval>>

-----------------------------------------------------------------------------
Worker == \/ TurnReturns \/ Exhaust \/ Escalate \/ ReadForTurn
          \/ PlannerReplies \/ ReviewerReplies

Control(c) == \/ ReadForReopen(c) \/ Reopen(c) \/ ReadForWaive(c) \/ Waive(c)
              \/ ReadForResume(c) \/ ResumeBudget(c)

Approval(c) == \/ ReadForApprove(c) \/ ReturnForDrift(c)
               \/ Reserve(c) \/ PlanMoved(c)
               \/ Provision(c) \/ Create(c) \/ CreateFails(c)
               \/ CompleteGates(c) \/ CompleteContract(c)
               \/ Finalize(c) \/ FinalizeRefused(c)

Next == \/ Worker
        \/ \E c \in Calls : Control(c) \/ Approval(c)
        \/ \E x \in Captures : Capture(x)
        \/ StopCoordination \/ SourceMoves \/ Crash

Spec == Init /\ [][Next]_vars

\* A planner's reply that submits a revision.
PlannerSubmits == PlannerReplies /\ plan'.revision # plan.revision

\* While the plan is neither ready nor out of the loop its tasks keep the
\* room going, and the worker handles every reply.
LoopFairness ==
    /\ WF_vars(TurnReturns /\ plan.status \in Active \ {"ready"})
    /\ WF_vars(Exhaust) /\ WF_vars(Escalate) /\ WF_vars(ReadForTurn)
    /\ WF_vars(PlannerReplies \/ ReviewerReplies)

\* Requests run to their end; the human asks again while the promotion is
\* reserved; and a session can be created in the end.
ApprovalFairness ==
    /\ \A c \in Calls :
          /\ WF_vars(Approval(c) /\ call[c].pc \notin {"idle", "create"})
          /\ SF_vars(Create(c))
    /\ WF_vars(\E c \in Calls : ReadForApprove(c) /\ Reserved)

LoopSpec == Spec /\ LoopFairness
ApprovalSpec == Spec /\ ApprovalFairness

\* The planner answers when its replies count, and does submit.
DirectionSpec == Spec /\ LoopFairness /\ SF_vars(PlannerSubmits)

-----------------------------------------------------------------------------
(* What the code must keep.                                                *)

PlanRow == [status : Status, revision : Nat, sha : Nat, turns : Nat, resumes : Nat]
Objection == [kind : Kinds, status : {"open", "resolved", "waived"}]
Linked == [gates : BOOLEAN, contract : BOOLEAN, stopped : BOOLEAN,
           drops : Seq(Captures)]
CallPc == {"idle", "reopen", "waive", "resume", "drift", "reserve",
           "provision", "create", "gates", "contract", "finalize"}
Request == [pc : CallPc, saw : Status, revision : Nat, sha : Nat,
            objection : Nat, target : Nat, contract : BOOLEAN]

TypeOK ==
    /\ plan \in PlanRow /\ plan.turns <= MaxTurns
    /\ bodies \in Seq(BOOLEAN) /\ Len(bodies) = plan.revision
    /\ closed \subseteq Nat /\ spent \subseteq Nat
    /\ objections \in Seq(Objection)
    /\ exhausted \in BOOLEAN /\ tip \in Nat
    /\ promotion \in [revision : Nat, sha : Nat, coordination : Nat]
    /\ pending \in Seq(Captures) /\ drops \in Seq(Captures)
    /\ linked \in Seq(Linked)
    /\ session \in {"active", "complete"}
    /\ worker \in [pc : {"idle", "exhaust", "escalate", "read", "write"}, resumes : Nat]
    /\ call \in [Calls -> Request]
    /\ crashes \in Nat

\* However many approvals race, fail or are retried after a crash, an
\* approved plan has one coordination session, which no approval loses.
OneCoordination ==
    /\ Len(linked) <= 1
    /\ Promoted => promotion.coordination = 1 /\ Len(linked) = 1

\* The session a promotion names was finished first: its gates are those of
\* the plan, and it has a contract.  A crash half-way is made good by the
\* request that adopts the session.
PromotedIsProvisioned ==
    Promoted => LET s == linked[promotion.coordination]
                IN  s.gates /\ s.contract

\* Both: an approval promotes once, into a session that is complete.
PromotedOnce == OneCoordination /\ PromotedIsProvisioned

\* What was approved is a text with valid criteria whose review had closed,
\* or on which the budget had run out; and unless a reply or a control that
\* the approval overtook wrote later, it is the plan's latest.
ApprovedTextStands ==
    Reserved => /\ bodies[promotion.revision]
                /\ promotion.revision \in closed \cup spent
                /\ plan.status = "approved" => promotion.revision = plan.revision

\* When the budget stops the loop, the human is told: by an escalation that
\* is open or about to be, unless a crash came between.
ExhaustionIsTold ==
    plan.status = "needs_human_resolution" =>
        exhausted \/ worker.pc = "escalate" \/ crashes > 0

Stage == CASE Promoted -> "promoted"
           [] Reserved /\ ~Promoted -> "approved"
           [] ~Reserved -> "planning"

CoordinationBox == IF linked = <<>> THEN <<>> ELSE linked[1].drops

\* The promise of Promotion, which every approval request keeps.
P == INSTANCE Promotion WITH
        Revisions <- 1..MaxRevisions,
        stage <- Stage, approved <- promotion.revision, planningBox <- drops,
        queue <- pending,
        coordinationBox <- CoordinationBox

PromotionSpec == P!Spec

\* The agents cannot go on for ever: the loop reaches a ready plan or the
\* human, whatever the agents reply and the human asks for meanwhile.
InLoop == session = "active" /\ plan.status \in Active \ {"ready"}
LoopEnds == InLoop ~> ~InLoop

\* A reserved promotion is finished by the requests that retry it, after
\* crashes and failures too, unless the human stopped its session.
ReservedIsFinished ==
    Reserved ~> (Promoted \/ \E n \in 1..Len(linked) : linked[n].stopped)

-----------------------------------------------------------------------------
(* What the documents say and the code does not do.                        *)

\* "open blocking objections or unresolved architectural forks prevent
\* PLAN-READY and approval" (docs/updates/v0.4.2.md).
BlockersPreventApproval ==
    [][~Reserved /\ Reserved' => OpenBlockers(objections) = {}]_vars

\* "Resume the budget once, give direction, or approve what stands"
\* (planning.py, _exhaust): direction given on a spent budget leads to
\* another revision.
DirectionIsTaken ==
    \A r \in 0..(MaxRevisions - 1) :
        (plan.status = "under_revision" /\ exhausted /\ plan.revision = r)
            ~> (plan.revision # r)
=============================================================================
