---------------------------- MODULE Completion ----------------------------
(***************************************************************************)
(* How a session ends: the side-task dropbox, the acceptance gates and the *)
(* phase machine of SessionManager.complete.                               *)
(*                                                                         *)
(* Agents, the human's UI threads and the ancillary worker call the same   *)
(* database.  What a handler does inside one BEGIN IMMEDIATE transaction   *)
(* is one action; what it read before that transaction is kept in call[c], *)
(* so that everything may change between the reading and the writing.      *)
(*                                                                         *)
(* The session has a primary builder and, when Held says so, an            *)
(* adversarial reviewer.  Gates are required ones: an optional gate never  *)
(* blocks.  Texts, digests and ids are abstracted to what is compared: a   *)
(* proposal is the number of its deposit, evidence is who cited it, and    *)
(* the extension gate of a drop is named by the drop, because the code     *)
(* allocates EXT ids under the write lock, one per approved drop.          *)
(***************************************************************************)
EXTENDS Naturals, FiniteSets

CONSTANTS
    Drops,      \* row ids of side tasks, in the order of capture
    MainGates,  \* gates of the original specification
    Held,       \* the main roles that some participant holds
    Reports,    \* what an agent may say of a gate
    Edits,      \* the statuses the human may give a gate
    Rosters,    \* the sets of main gates the human may replace all gates with
    MaxCalls,   \* bound: calls under way at the same time
    CommitMayFail,  \* a closing transaction may fail after it wrote the changelog
    None        \* SQL NULL

Slots   == {"builder", "reviewer"}
Callers == Slots \cup {"human"}
Gates   == MainGates \cup Drops

ASSUME DropsAssumption == Drops \subseteq Nat \ {0} /\ IsFiniteSet(Drops)
ASSUME HeldAssumption  == Held \subseteq Slots
ASSUME CallsAssumption == MaxCalls \in Nat \ {0} /\ CommitMayFail \in BOOLEAN

(***************************************************************************)
(* Rows.                                                                   *)
(***************************************************************************)
GateStatus == {"pending", "fail", "pass", "waived"}

Gate == [status : GateStatus, evidence : SUBSET Callers, signed : SUBSET Slots]

NewGate == [status |-> "pending", evidence |-> {}, signed |-> {}]

Verdict == [says : {"approve", "decline"}, over : Nat]

Disposition == {"approved", "declined", "waived"}

Drop == [status      : {"absent", "captured", "investigating", "reviewing", "proposed",
                        "evaluated", "failed", "timed_out"},
         skip        : BOOLEAN,
         proposal    : Nat,             \* 0: none deposited
         reviewed    : BOOLEAN,
         verdict     : [Slots -> Verdict \cup {None}],
         disposition : Disposition \cup {None},
         position    : Nat]             \* in the appendix; 0: not in it

NoDrop == [status |-> "absent", skip |-> FALSE, proposal |-> 0, reviewed |-> FALSE,
           verdict |-> [s \in Slots |-> None], disposition |-> None, position |-> 0]

ASSUME ReportsAssumption ==
    /\ Reports \subseteq [status : GateStatus \cup {None}, cites : BOOLEAN, signs : BOOLEAN]
    /\ Edits \subseteq GateStatus
    /\ Rosters \subseteq (SUBSET MainGates) \ {{}}

Metadata == [snapshot : (SUBSET Drops) \cup {None}, changelog : BOOLEAN]

\* A call between what it read and what it will write.
Call == [op : {"report"}, gate : Gates, status : GateStatus \cup {None},
             evidence : (SUBSET Callers) \cup {None}, signs : SUBSET Slots]
        \cup [op : {"write"}, gate : Gates, row : Gate]
        \cup [op : {"evaluate"}, drop : Drops, says : {"approve", "decline"}]
        \cup [op : {"freeze", "extend", "close"}, force : BOOLEAN, had : BOOLEAN]
        \cup [op : {"restore"}, had : BOOLEAN]
        \cup [op : {"tests"}, meta : Metadata]

Scout == [item : Drops \cup {None}, stage : {"idle", "prepare", "scout", "review"}]

Idle == [item |-> None, stage |-> "idle"]

ASSUME NoneAssumption == /\ None \notin GateStatus \cup Disposition \cup Gate \cup Verdict \cup Call \cup Drops
                         /\ \A S \in (SUBSET Callers) \cup (SUBSET Drops) : S # None

VARIABLES
    status,     \* sessions.status: "open" stands for every status that is not terminal
    phase,      \* sessions.phase
    meta,       \* the parts of sessions.metadata the completion reads and writes
    gates,      \* session_gates; None: no such row
    drops,      \* session_drops joined with session_appendix
    room,       \* rooms.status: "open" or "stopped"
    file,       \* the changelog is on disk
    queued,     \* items the ancillary runner has been given
    scout,      \* what its worker is doing
    call        \* caller |-> the call it has under way, or None

vars == <<status, phase, meta, gates, drops, room, file, queued, scout, call>>
session   == <<status, phase, meta, room>>
ancillary == <<queued, scout>>

TypeOK ==
    /\ status \in {"open", "complete", "stopped"}
    /\ phase \in {"original", "evaluation", "extension", "closing"}
    /\ meta \in Metadata
    /\ gates \in [Gates -> Gate \cup {None}]
    /\ drops \in [Drops -> Drop]
    /\ room \in {"open", "stopped"}
    /\ file \in BOOLEAN
    /\ queued \subseteq Drops
    /\ scout \in Scout
    /\ call \in [Callers -> Call \cup {None}]

Init ==
    /\ status = "open" /\ phase = "original" /\ room = "open"
    /\ meta = [snapshot |-> None, changelog |-> FALSE]
    /\ gates \in {[g \in Gates |-> IF g \in S THEN NewGate ELSE None] : S \in SUBSET MainGates}
    /\ drops = [d \in Drops |-> NoDrop]
    /\ file = FALSE /\ queued = {} /\ scout = Idle
    /\ call = [c \in Callers |-> None]

(***************************************************************************)
(* Reading.                                                                *)
(***************************************************************************)
Terminal == status # "open"

Captured(ds) == {d \in Drops : ds[d].status # "absent"}
Open(ds)     == {d \in Captured(ds) : ds[d].disposition = None}

Blocks(g) ==
    /\ g # None
    /\ g.status # "waived"
    /\ ~(g.status = "pass" /\ g.evidence # {} /\ g.signed = Slots)

Summary(gs) == (\E g \in Gates : gs[g] # None) /\ \A g \in Gates : ~Blocks(gs[g])

Snapshot == IF meta.snapshot = None THEN Captured(drops) ELSE meta.snapshot

\* Mutant: one verdict settles an item.
PendingUnjudged ==
    {d \in Open(drops) \cap Snapshot : \A s \in Slots : drops[d].verdict[s] = None}

Pending == Open(drops) \cap Snapshot

\* Approved items whose extension gate still blocks.
Outstanding == {d \in Drops : drops[d].disposition = "approved" /\ Blocks(gates[d])}
(***************************************************************************)
(* The dropbox: capture, the appendix and the ancillary worker.            *)
(***************************************************************************)
Evaluable == {"proposed", "failed", "timed_out"}

Top(ds) == CHOOSE n \in {0} \cup {ds[d].position : d \in Drops} :
               \A d \in Drops : ds[d].position <= n

\* Every item that is ready and not yet in the appendix is appended, in row order.
Reconcile(ds) ==
    LET ready == {d \in Drops : ds[d].status \in Evaluable /\ ds[d].position = 0}
    IN  [d \in Drops |->
            IF d \in ready
            THEN [ds[d] EXCEPT !.position = Top(ds) + Cardinality({e \in ready : e <= d})]
            ELSE ds[d]]

ReconcileIfOpen(ds) == IF phase = "original" THEN Reconcile(ds) ELSE ds

\* A failure report on d, refused once the item has been decided.
MarkFailed(ds, d, kind) ==
    IF ds[d].disposition = None /\ ds[d].status # "evaluated"
    THEN ReconcileIfOpen([ds EXCEPT ![d].status = kind])
    ELSE ds

Capture(d, skip, wired) ==
    /\ ~Terminal /\ phase = "original"
    /\ drops[d].status = "absent"
    /\ \A e \in Drops : e < d => drops[e].status # "absent"
    /\ drops' = Reconcile([drops EXCEPT ![d].status = "captured", ![d].skip = skip])
    /\ queued' = IF wired THEN queued \cup {d} ELSE queued
    /\ UNCHANGED <<session, gates, file, scout, call>>

\* The worker takes an item and looks whether it still wants investigating.
PickItem(d) ==
    /\ scout = Idle /\ d \in queued
    /\ queued' = queued \ {d}
    /\ scout' = IF ~Terminal /\ phase = "original" /\ drops[d].status = "captured"
                THEN [item |-> d, stage |-> "prepare"] ELSE Idle
    /\ UNCHANGED <<session, gates, drops, file, call>>

\* The scratch tree is cut; the row is claimed only if it is still captured.
BeginInvestigation ==
    /\ scout.stage = "prepare"
    /\ IF drops[scout.item].status = "captured"
       THEN /\ drops' = [drops EXCEPT ![scout.item].status = "investigating"]
            /\ scout' = [scout EXCEPT !.stage = "scout"]
       ELSE scout' = Idle /\ UNCHANGED drops
    /\ UNCHANGED <<session, gates, file, queued, call>>

DepositProposal ==
    LET d == scout.item
    IN  /\ scout.stage = "scout"
        /\ IF drops[d].status = "investigating"
           THEN /\ drops' = IF drops[d].skip
                            THEN ReconcileIfOpen([drops EXCEPT ![d].status = "proposed",
                                                               ![d].proposal = @ + 1])
                            ELSE [drops EXCEPT ![d].status = "reviewing", ![d].proposal = @ + 1]
                /\ scout' = IF drops[d].skip THEN Idle ELSE [scout EXCEPT !.stage = "review"]
           ELSE scout' = Idle /\ UNCHANGED drops
        /\ UNCHANGED <<session, gates, file, queued, call>>

\* An invocation by the reviewer's command, so some participant holds that role.
RecordReview ==
    LET d == scout.item
    IN  /\ scout.stage = "review" /\ "reviewer" \in Held
        /\ drops' = IF drops[d].status = "reviewing"
                    THEN ReconcileIfOpen([drops EXCEPT ![d].status = "proposed", ![d].reviewed = TRUE])
                    ELSE drops
        /\ scout' = Idle
        /\ UNCHANGED <<session, gates, file, queued, call>>

\* No command, no worktree, no scratch tree, or an invocation that failed or timed out.
InvestigationFails(kind) ==
    /\ scout # Idle
    /\ kind = "timed_out" => scout.stage # "prepare"
    /\ drops' = MarkFailed(drops, scout.item, kind)
    /\ scout' = Idle
    /\ UNCHANGED <<session, gates, file, queued, call>>

\* The runner is cancelled, or the UI process that owns it ends.
LoseScout ==
    /\ scout # Idle \/ queued # {}
    /\ scout' = Idle /\ queued' = {}
    /\ UNCHANGED <<session, gates, drops, file, call>>

(***************************************************************************)
(* Evaluation.                                                             *)
(***************************************************************************)
InFlight == {c \in Callers : call[c] # None}

\* c starts a call, and what it will need later is in k.
Begin(c, k) ==
    /\ call[c] = None /\ Cardinality(InFlight) < MaxCalls
    /\ call' = [call EXCEPT ![c] = k]

Return(c) == call' = [call EXCEPT ![c] = None]

BeginEvaluate(s, d, says) ==
    /\ s \in Held /\ phase = "evaluation" /\ drops[d].status # "absent"
    /\ Begin(s, [op |-> "evaluate", drop |-> d, says |-> says])
    /\ UNCHANGED <<session, gates, drops, file, ancillary>>

\* Mutants: a failure report can be approved; nothing but a proposal can be
\* judged.
AcceptsFailures(d, says) == drops[d].disposition = None /\ drops[d].status \in Evaluable

AcceptsProposals(d, says) == drops[d].disposition = None /\ drops[d].status = "proposed"

Accepts(d, says) ==
    /\ drops[d].disposition = None
    /\ drops[d].status \in Evaluable
    /\ says = "approve" => drops[d].status = "proposed"

\* The verdict of s on d is recorded; the second one decides, and an approval
\* makes the extension gate in the same transaction.
Decide(s, d, says) ==
    LET x        == drops[d]
        v        == [x.verdict EXCEPT ![s] = [says |-> says, over |-> x.proposal]]
        both     == \A t \in Slots : v[t] # None
        approved == both /\ \A t \in Slots : v[t].says = "approve"
    IN  /\ drops' = [drops EXCEPT ![d] =
               [x EXCEPT !.verdict     = v,
                         !.disposition = IF ~both THEN None
                                         ELSE IF approved THEN "approved" ELSE "declined",
                         !.status      = IF both /\ x.status = "proposed" THEN "evaluated"
                                         ELSE x.status]]
        /\ gates' = IF approved THEN [gates EXCEPT ![d] = NewGate] ELSE gates

Evaluate(s) ==
    /\ call[s] # None /\ call[s].op = "evaluate"
    /\ Accepts(call[s].drop, call[s].says)
    /\ Decide(s, call[s].drop, call[s].says)
    /\ Return(s)
    /\ UNCHANGED <<session, file, ancillary>>

EvaluateRefused(s) ==
    /\ call[s] # None /\ call[s].op = "evaluate"
    /\ ~Accepts(call[s].drop, call[s].says)
    /\ Return(s)
    /\ UNCHANGED <<session, gates, drops, file, ancillary>>

(***************************************************************************)
(* Gates.  report_gate and the human's panel read the gate and compute the *)
(* fields to set; update_gate reads it again and builds the row; the row   *)
(* is written whole.                                                       *)
(***************************************************************************)
ReportGate(s, g, r) ==
    /\ s \in Held /\ ~Terminal /\ gates[g] # None
    /\ Begin(s, [op |-> "report", gate |-> g, status |-> r.status,
                 evidence |-> IF r.cites THEN gates[g].evidence \cup {s} ELSE None,
                 signs    |-> IF r.signs THEN {s} ELSE {}])
    /\ UNCHANGED <<session, gates, drops, file, ancillary>>

\* A human who accepts a gate supplies the evidence and the sign-offs it lacks.
EditGate(g, st) ==
    /\ gates[g] # None
    /\ Begin("human", [op |-> "report", gate |-> g, status |-> st,
                       evidence |-> IF st = "pass" /\ gates[g].evidence = {} THEN {"human"} ELSE None,
                       signs    |-> IF st = "pass" THEN Slots \ gates[g].signed ELSE {}])
    /\ UNCHANGED <<session, gates, drops, file, ancillary>>

UpdateGate(c) ==
    /\ call[c] # None /\ call[c].op = "report"
    /\ LET k   == call[c]
           now == gates[k.gate]
       IN  IF Terminal \/ now = None THEN Return(c)
           ELSE call' = [call EXCEPT ![c] =
                   [op |-> "write", gate |-> k.gate,
                    row |-> [status   |-> IF k.status = None THEN now.status ELSE k.status,
                             evidence |-> IF k.evidence = None THEN now.evidence ELSE k.evidence,
                             signed   |-> now.signed \cup k.signs]]]
    /\ UNCHANGED <<session, gates, drops, file, ancillary>>

AddGate(g) ==
    /\ g \in MainGates /\ ~Terminal /\ gates[g] = None
    /\ Begin("human", [op |-> "write", gate |-> g, row |-> NewGate])
    /\ UNCHANGED <<session, gates, drops, file, ancillary>>

WriteGate(c) ==
    /\ call[c] # None /\ call[c].op = "write"
    /\ gates' = [gates EXCEPT ![call[c].gate] = call[c].row]
    /\ Return(c)
    /\ UNCHANGED <<session, drops, file, ancillary>>

\* set_gates: every gate of the session goes, the given ones come, unproven.
ReplaceGates(S) ==
    /\ gates' = [g \in Gates |-> IF g \in S THEN NewGate ELSE None]
    /\ UNCHANGED <<session, drops, file, ancillary, call>>

(***************************************************************************)
(* Completion.                                                             *)
(***************************************************************************)
\* Which transaction a completion request will try, from what it reads now.
Target(force) ==
    CASE phase = "original" /\ ~force /\ Summary(gates) /\ Captured(drops) # {} -> "freeze"
      [] phase = "original" /\ ~force /\ Summary(gates) /\ Captured(drops) = {} -> "close"
      [] phase = "original" /\ ~force /\ ~Summary(gates) -> None
      [] phase = "evaluation" /\ ~force /\ Pending # {} -> None
      [] phase = "evaluation" /\ ~force /\ Pending = {} /\ Outstanding # {} -> "extend"
      [] OTHER -> "close"

\* The human, who may force, or the primary builder, who may not.
Complete(c, force) ==
    /\ c = "human" \/ (c = "builder" /\ c \in Held /\ ~force)
    /\ ~Terminal /\ \E g \in Gates : gates[g] # None
    /\ Target(force) # None
    /\ Begin(c, [op |-> Target(force), force |-> force, had |-> file])
    /\ UNCHANGED <<session, gates, drops, file, ancillary>>

\* Mutant: an item under review is taken for finished.
CutoffUnstarted(ds) ==
    [d \in Drops |-> IF ds[d].status \in {"captured", "investigating"}
                     THEN [ds[d] EXCEPT !.status = "timed_out"] ELSE ds[d]]

Cutoff(ds) ==
    [d \in Drops |-> IF ds[d].status \in {"captured", "investigating", "reviewing"}
                     THEN [ds[d] EXCEPT !.status = "timed_out"] ELSE ds[d]]

\* Phase, snapshot and wake-up message commit together; a room that takes no
\* message refuses the phase.
MayFreeze == ~Terminal /\ phase = "original" /\ Summary(gates) /\ room = "open"

Freeze(c) ==
    /\ call[c] # None /\ call[c].op = "freeze" /\ MayFreeze
    /\ drops' = Reconcile(Cutoff(drops))
    /\ meta' = [meta EXCEPT !.snapshot = {d \in Drops : drops'[d].position > 0}]
    /\ phase' = "evaluation"
    /\ Return(c)
    /\ UNCHANGED <<status, room, gates, file, ancillary>>

MayExtend == ~Terminal /\ phase = "evaluation" /\ room = "open"

Extend(c) ==
    /\ call[c] # None /\ call[c].op = "extend" /\ MayExtend
    /\ phase' = "extension"
    /\ Return(c)
    /\ UNCHANGED <<status, meta, room, gates, drops, file, ancillary>>

Waived(gs, force) ==
    [g \in Gates |-> IF force /\ Blocks(gs[g])
                     THEN [gs[g] EXCEPT !.status = "waived", !.evidence = @ \cup {"human"}]
                     ELSE gs[g]]

\* Mutant: the proposals left undecided are not looked at again.
MayCloseUndecided(force) == ~Terminal /\ Summary(Waived(gates, force))

MayClose(force) ==
    /\ ~Terminal
    /\ Summary(Waived(gates, force))
    /\ Open(drops) # {} => force

\* One transaction: waivers, the changelog file, the closing phase, the stop of
\* the room and the status.  The file is written before the commit.
Close(c) ==
    /\ call[c] # None /\ call[c].op = "close" /\ MayClose(call[c].force)
    /\ gates' = Waived(gates, call[c].force)
    /\ drops' = [d \in Drops |-> IF d \in Open(drops)
                                 THEN [drops[d] EXCEPT !.disposition = "waived"] ELSE drops[d]]
    /\ file' = TRUE /\ phase' = "closing" /\ room' = "stopped" /\ status' = "complete"
    /\ meta' = [meta EXCEPT !.changelog = TRUE]
    /\ Return(c)
    /\ UNCHANGED ancillary

\* Mutant: the file is written after the commit.
CloseCrashUnwritten(c) ==
    /\ call[c] # None /\ call[c].op = "close" /\ MayClose(call[c].force)
    /\ phase' = "closing" /\ room' = "stopped" /\ status' = "complete"
    /\ Return(c)
    /\ UNCHANGED <<meta, gates, drops, file, ancillary>>

\* The process dies between the writing of the file and the commit.
CloseCrash(c) ==
    /\ call[c] # None /\ call[c].op = "close" /\ MayClose(call[c].force)
    /\ file' = TRUE
    /\ Return(c)
    /\ UNCHANGED <<session, gates, drops, ancillary>>

\* A step after the writing of the file fails: everything is rolled back, and
\* the file is put back to what it was once the write lock has been let go.
CloseFails(c) ==
    /\ CommitMayFail
    /\ call[c] # None /\ call[c].op = "close" /\ MayClose(call[c].force)
    /\ file' = TRUE
    /\ call' = [call EXCEPT ![c] = [op |-> "restore", had |-> call[c].had]]
    /\ UNCHANGED <<session, gates, drops, ancillary>>

RestoreChangelog(c) ==
    /\ call[c] # None /\ call[c].op = "restore"
    /\ file' = call[c].had
    /\ Return(c)
    /\ UNCHANGED <<session, gates, drops, ancillary>>

\* The transaction found that another one had been there first.
CompletionRefused(c) ==
    /\ call[c] # None
    /\ \/ call[c].op = "freeze" /\ ~MayFreeze
       \/ call[c].op = "extend" /\ ~MayExtend
       \/ call[c].op = "close"  /\ ~MayClose(call[c].force)
    /\ Return(c)
    /\ UNCHANGED <<session, gates, drops, file, ancillary>>

Stop ==
    /\ ~Terminal
    /\ status' = "stopped" /\ room' = "stopped"
    /\ UNCHANGED <<phase, meta, gates, drops, file, ancillary, call>>

\* The room alone, through the broker.
StopRoom ==
    /\ room = "open" /\ room' = "stopped"
    /\ UNCHANGED <<status, phase, meta, gates, drops, file, ancillary, call>>

\* run_tests: the metadata is read, the tests run, the metadata is written back.
RunTests ==
    /\ Begin("human", [op |-> "tests", meta |-> meta])
    /\ UNCHANGED <<session, gates, drops, file, ancillary>>

WriteTests ==
    /\ call["human"] # None /\ call["human"].op = "tests"
    /\ meta' = call["human"].meta
    /\ Return("human")
    /\ UNCHANGED <<status, phase, room, gates, drops, file, ancillary>>

\* The caller's process dies between its reading and its writing.
Abandon(c) ==
    /\ call[c] # None /\ Return(c)
    /\ UNCHANGED <<session, gates, drops, file, ancillary>>

Next ==
    \/ \E d \in Drops, skip, wired \in BOOLEAN : Capture(d, skip, wired)
    \/ \E d \in Drops : PickItem(d)
    \/ BeginInvestigation \/ DepositProposal \/ RecordReview \/ LoseScout
    \/ \E kind \in {"failed", "timed_out"} : InvestigationFails(kind)
    \/ \E s \in Slots, d \in Drops, says \in {"approve", "decline"} : BeginEvaluate(s, d, says)
    \/ \E s \in Slots : Evaluate(s) \/ EvaluateRefused(s)
    \/ \E s \in Slots, g \in Gates, r \in Reports : ReportGate(s, g, r)
    \/ \E g \in Gates, st \in Edits : EditGate(g, st)
    \/ \E g \in Gates : AddGate(g)
    \/ \E S \in Rosters : ReplaceGates(S)
    \/ \E c \in Callers, force \in BOOLEAN : Complete(c, force)
    \/ \E c \in Callers : \/ UpdateGate(c) \/ WriteGate(c) \/ Freeze(c) \/ Extend(c)
                         \/ Close(c) \/ CloseCrash(c) \/ CloseFails(c) \/ RestoreChangelog(c)
                         \/ CompletionRefused(c) \/ Abandon(c)
    \/ Stop \/ StopRoom \/ RunTests \/ WriteTests

\* Agents answer a prompt that lists the items they have not judged, a call that
\* was made returns, and an item that cannot be approved is declined in the end.
Unjudged(s, d) == drops[d].verdict[s] = None /\ drops[d].disposition = None

Fairness ==
    /\ \A s \in Slots, d \in Drops :
           SF_vars(Unjudged(s, d) /\ BeginEvaluate(s, d, "decline"))
    /\ \A s \in Slots : SF_vars(Evaluate(s)) /\ WF_vars(EvaluateRefused(s))
    /\ \A c \in Callers : /\ WF_vars(UpdateGate(c)) /\ WF_vars(WriteGate(c))
                          /\ WF_vars(CompletionRefused(c)) /\ WF_vars(RestoreChangelog(c))
                          /\ WF_vars(Freeze(c) \/ Extend(c) \/ Close(c))
    /\ WF_vars(WriteTests)

Safe == Init /\ [][Next]_vars
Spec == Safe /\ Fairness

(***************************************************************************)
(* Invariants.                                                             *)
(***************************************************************************)
\* Once the original work is over, every captured item is in the appendix and
\* in the snapshot, and can be judged or has been: no capture that raced the
\* freeze is left outside, no unfinished investigation inside.
SnapshotTotal ==
    phase \in {"evaluation", "extension"} =>
        \A d \in Captured(drops) :
            /\ drops[d].position > 0
            /\ drops[d].status \in Evaluable \cup {"evaluated"}
            /\ d \in Snapshot

\* What was approved is a proposal that had its review, or whose review the human
\* waived at capture, and both roles judged that same proposal.
ApprovedIsReviewed ==
    \A d \in Drops : drops[d].disposition = "approved" =>
        /\ drops[d].proposal > 0 /\ drops[d].status = "evaluated"
        /\ drops[d].reviewed \/ drops[d].skip
        /\ \A s \in Slots : drops[d].verdict[s] = [says |-> "approve", over |-> drops[d].proposal]

\* Extension work starts only when no item owes a decision, and nothing that was
\* under way when it started brings one back.
DecidedBeforeExtension == phase = "extension" => Open(drops) = {}

\* A completed session has its changelog on disk and its room closed, whatever
\* crashed on the way.  It holds where no closing transaction fails after it wrote
\* the file, or where calls follow one another.
CompleteIsRecorded ==
    /\ status = "complete" => file /\ phase = "closing"
    /\ Terminal => room = "stopped"

(***************************************************************************)
(* Steps.                                                                  *)
(***************************************************************************)
\* A session completes only with every gate proven or waived and every item
\* decided, in the very state that the transaction commits; and unless the human
\* forced it, that was so already: an agent's request waives nothing.
CompletionProven ==
    [][status' = "complete" /\ status # "complete" =>
          /\ Summary(gates') /\ Open(drops') = {} /\ room' = "stopped"
          /\ \E c \in Callers :
                /\ call[c] # None /\ call[c].op = "close" /\ call'[c] = None
                /\ call[c].force \/ (Summary(gates) /\ Open(drops) = {})]_vars

\* Stop and complete race: exactly one of them ends the session.
EndsOnce == [][Terminal => status' = status /\ phase' = phase]_vars

\* No later call changes a decision, or the verdicts it was made from.
DecisionFinal ==
    [][\A d \in Drops : drops[d].disposition # None =>
          drops'[d].disposition = drops[d].disposition /\ drops'[d].verdict = drops[d].verdict]_vars

\* The appendix only grows, and at its end.
AppendixGrows ==
    [][\A d \in Drops :
          /\ drops[d].position > 0 => drops'[d].position = drops[d].position
          /\ drops[d].position = 0 /\ drops'[d].position > 0 =>
                \A e \in Drops : drops[e].position < drops'[d].position]_vars

\* What an agent has cited for a gate stays cited while the gate lives: a report
\* merges.  It holds of reports made one after another, and is checked where two
\* may be under way.
EvidenceKept ==
    [][\A g \in Gates : gates[g] # None /\ gates'[g] # None =>
          gates[g].evidence \cap Slots \subseteq gates'[g].evidence]_vars

(***************************************************************************)
(* Liveness.                                                               *)
(***************************************************************************)
\* Evaluation is never stuck on work that will not arrive: every item is decided,
\* unless the session or its room is ended first.
EvaluationEnds ==
    phase = "evaluation" ~> (Open(drops) = {} \/ Terminal \/ room = "stopped")
====
