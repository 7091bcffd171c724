------------------------------ MODULE Session ------------------------------
(***************************************************************************)
(* The life of a session up to its end: contract revisions, their          *)
(* acknowledgment, activation, reconfiguration, pause and resume, and the  *)
(* managed worker that attaches the team and obtains its agreement.        *)
(*                                                                         *)
(* SessionManager reads the row in one statement and writes it in another, *)
(* and the UI's request threads, the managed worker and the agents' own    *)
(* command lines call it at the same time.  What a call has read and not   *)
(* yet acted upon is call[c]; everything may change in between.  Only the  *)
(* end of a session, the issue of a contract and the change of the terms   *)
(* write inside a transaction, and only the end reads again in it.         *)
(*                                                                         *)
(* The room is what the session sees of it: open, paused or stopped, who   *)
(* has joined, and whether the opening task was sent.  Permissions,        *)
(* specification, deadline and escalation policy are one value, the terms; *)
(* a contract's text and its digest are the terms it was written from.     *)
(***************************************************************************)
EXTENDS Naturals, FiniteSets

CONSTANTS
    Agents,       \* the roster
    Managed,      \* agents flagged managed_by_synchri; if none is, all are
    Threads,      \* request threads of the UI (or command lines of the human)
    Terms,        \* values of the configuration
    MaxRevision,  \* bound: contract revisions
    MaxCalls,     \* bound: calls under way at the same time
    MayCrash,     \* the process of the UI and of the worker may die
    None          \* SQL NULL

ASSUME AgentsAssumption   == Agents # {} /\ IsFiniteSet(Agents) /\ Managed \subseteq Agents
ASSUME ThreadsAssumption  == IsFiniteSet(Threads)
ASSUME RevisionAssumption == /\ MaxRevision \in Nat \ {0} /\ MaxCalls \in Nat \ {0}
                             /\ MayCrash \in BOOLEAN

Worker    == "worker"
Callers   == Agents \cup Threads \cup {Worker}
Revisions == 1..MaxRevision

ASSUME CallersAssumption == /\ Agents \cap Threads = {}
                            /\ Worker \notin Agents \cup Threads

(***************************************************************************)
(* Rows.                                                                   *)
(***************************************************************************)
SessionStatus == {"configuring", "awaiting_ack", "active", "paused", "complete", "stopped"}
TERMINAL      == {"complete", "stopped"}

Acknowledgment == [accepted : BOOLEAN, text : Terms]

\* What a call has done and read so far, named for what it does next.
Call == [op : {"issue", "activate", "open", "pause", "paused", "resume", "resumed", "drive"}]
        \cup [op : {"configure"}, terms : Terms]
        \cup [op : {"contract"}, revision : Revisions, text : Terms]
        \cup [op : {"reply"}, who : Agents, read : Revisions]
        \cup [op : {"acknowledge"}, who : Agents, revision : Revisions,
             row : Acknowledgment, read : Revisions]

Does(op) == [op |-> op]

\* Calls that will write the status and rely on one they have read.
Holding == {"contract", "activate", "open", "paused", "resumed"}

ManagedRun == [stage : {"none", "attaching", "agreeing", "starting", "working"},
               read : 0..MaxRevision, todo : SUBSET Agents, failed : BOOLEAN]

NoRun == [stage |-> "none", read |-> 0, todo |-> {}, failed |-> FALSE]

ASSUME NoneAssumption == None \notin Terms \cup Acknowledgment \cup Call

VARIABLES
    session,    \* status, contract_revision and the terms
    contracts,  \* revision |-> text, or None
    acks,       \* revision |-> agent |-> acknowledgment, or None
    room,       \* status, joined, opened: the opening task was sent
    run,        \* the managed worker's thread
    call,       \* caller |-> the call it has under way, or None
    agreed,     \* history: <<revision, agent>> whose acceptance was recorded
    unseen,     \* history: such a revision was not the one the agent had read
    overtaken,  \* history: a status was written while another call relied on the old one
    lost        \* history: the process died between activation and the opening task

vars == <<session, contracts, acks, room, run, call, agreed, unseen, overtaken, lost>>
history == <<agreed, unseen, overtaken, lost>>
contract == <<contracts, acks>>

TypeOK ==
    /\ session \in [status : SessionStatus, revision : 0..MaxRevision, terms : Terms]
    /\ contracts \in [Revisions -> Terms \cup {None}]
    /\ acks \in [Revisions -> [Agents -> Acknowledgment \cup {None}]]
    /\ room \in [status : {"active", "paused", "stopped"}, joined : SUBSET Agents, opened : BOOLEAN]
    /\ run \in ManagedRun
    /\ call \in [Callers -> Call \cup {None}]
    /\ agreed \subseteq Revisions \X Agents
    /\ unseen \in BOOLEAN /\ overtaken \in BOOLEAN /\ lost \in BOOLEAN

\* create has made the session; the request that called it issues the first contract.
Init ==
    /\ session \in [status : {"configuring"}, revision : {0}, terms : Terms]
    /\ contracts = [r \in Revisions |-> None]
    /\ acks = [r \in Revisions |-> [p \in Agents |-> None]]
    /\ room = [status |-> "active", joined |-> {}, opened |-> FALSE]
    /\ run = NoRun
    /\ \E c \in Threads : call = [d \in Callers |-> IF d = c THEN Does("issue") ELSE None]
    /\ agreed = {} /\ unseen = FALSE /\ overtaken = FALSE /\ lost = FALSE

Terminal == session.status \in TERMINAL

\* Mutant: an objection counts as an answer.
Answered(r) == {p \in Agents : r > 0 /\ acks[r][p] # None}

\* The agents that accepted revision r, as the rows stand now.
Accepted(r) == {p \in Agents : r > 0 /\ acks[r][p] # None /\ acks[r][p].accepted}

\* No flags: every participant is managed.
ManagedPlans == IF Managed = {} THEN Agents ELSE Managed

(***************************************************************************)
(* Steps of a call.                                                        *)
(***************************************************************************)
Begins(c)     == call[c] = None /\ Cardinality({d \in Callers : call[d] # None}) < MaxCalls
At(c, op)     == call[c] # None /\ call[c].op = op
Goes(c, next) == call' = [call EXCEPT ![c] = next]
Ends(c)       == Goes(c, None)

Held(c) == \E d \in Callers \ {c} : call[d] # None /\ call[d].op \in Holding

\* Caller c writes a status that owes nothing to the one before.
SetStatus(c, s, r) ==
    /\ session' = [session EXCEPT !.status = s, !.revision = r]
    /\ overtaken' = Held(c)

\* Caller c writes the status that follows from the one it has read.
Update(c, s) ==
    /\ session' = [session EXCEPT !.status = s]
    /\ overtaken' = (overtaken \/ Held(c))

(***************************************************************************)
(* Contract revisions: issue_contract, alone or after update_configuration *)
(***************************************************************************)
UpdateConfiguration(c) == \E t \in Terms \ {session.terms} :
    /\ Begins(c) /\ ~Terminal /\ session.revision < MaxRevision
    /\ Goes(c, [op |-> "configure", terms |-> t])
    /\ UNCHANGED <<session, contract, room, run, history>>

CommitConfiguration(c) ==
    /\ At(c, "configure")
    /\ session' = [session EXCEPT !.terms = call[c].terms]
    /\ Goes(c, Does("issue"))
    /\ UNCHANGED <<contract, room, run, history>>

\* Mutant: a finished session is issued a contract.
GenerateAnyway(c) ==
    /\ At(c, "issue") /\ session.revision < MaxRevision
    /\ Goes(c, [op |-> "contract", revision |-> session.revision + 1, text |-> session.terms])
    /\ UNCHANGED <<session, contract, room, run, history>>

\* The record is read, and the document is written from it; or the call is refused,
\* because the session is finished or its worktree is gone.
GenerateContract(c) ==
    /\ At(c, "issue")
    /\ \/ /\ ~Terminal /\ session.revision < MaxRevision
          /\ Goes(c, [op |-> "contract", revision |-> session.revision + 1, text |-> session.terms])
       \/ Ends(c)
    /\ UNCHANGED <<session, contract, room, run, history>>

\* Mutant: INSERT OR REPLACE.
Replaceable(r) == TRUE

\* The primary key (session_id, revision).
Insertable(r) == contracts[r] = None

\* Earlier acknowledgments stay, under their revision.
IssueContract(c) ==
    /\ At(c, "contract")
    /\ Ends(c)
    /\ LET r == call[c].revision IN
       IF Insertable(r)
       THEN /\ contracts' = [contracts EXCEPT ![r] = call[c].text]
            /\ acks' = [s \in Revisions |-> IF s >= r THEN [p \in Agents |-> None] ELSE acks[s]]
            /\ SetStatus(c, "awaiting_ack", r)
       ELSE UNCHANGED <<session, contract, overtaken>>
    /\ UNCHANGED <<room, run, agreed, unseen, lost>>

(***************************************************************************)
(* Acknowledgment, by the agent's command line (or the human, who pastes   *)
(* its answer), or by the worker for the agents it runs.                   *)
(***************************************************************************)
ReadContract(p) ==
    /\ Begins(p) /\ session.revision > 0
    /\ Goes(p, [op |-> "reply", who |-> p, read |-> session.revision])
    /\ UNCHANGED <<session, contract, room, run, history>>

\* acknowledge takes the contract that is current when the reply arrives.
Acknowledge(c) == \E ok \in BOOLEAN :
    /\ At(c, "reply")
    /\ Goes(c, [op |-> "acknowledge", who |-> call[c].who, revision |-> session.revision,
                row |-> [accepted |-> ok, text |-> contracts[session.revision]],
                read |-> call[c].read])
    /\ UNCHANGED <<session, contract, room, run, history>>

\* A second answer to a revision replaces the first, except for its digest.
RecordAcknowledgment(c) ==
    /\ At(c, "acknowledge")
    /\ LET p == call[c].who  r == call[c].revision  row == call[c].row IN
       /\ acks' = [acks EXCEPT ![r][p] =
                     IF acks[r][p] = None THEN row ELSE [row EXCEPT !.text = acks[r][p].text]]
       /\ agreed' = IF row.accepted THEN agreed \cup {<<r, p>>} ELSE agreed
       /\ unseen' = (unseen \/ (row.accepted /\ call[c].read # r))
       /\ run' = IF c = Worker THEN [run EXCEPT !.todo = run.todo \ {p},
                                                !.failed = run.failed \/ ~row.accepted]
                 ELSE run
    /\ Ends(c)
    /\ UNCHANGED <<session, contracts, room, overtaken, lost>>

\* An agent that is run elsewhere redeems its invite.
JoinRoom(p) ==
    /\ p \notin room.joined /\ room.status # "stopped"
    /\ room' = [room EXCEPT !.joined = room.joined \cup {p}]
    /\ UNCHANGED <<session, contract, run, call, history>>

(***************************************************************************)
(* Activation: everything is checked, then the status is written, then the *)
(* builder is given the opening task.                                      *)
(***************************************************************************)
MayActivate ==
    /\ ~Terminal /\ session.status # "active"
    /\ session.revision > 0
    /\ Accepted(session.revision) = Agents
    /\ room.joined = Agents

\* An active session is left as it is; one that may not activate, or has lost its
\* worktree, is refused.
CheckActivation(c) ==
    /\ Begins(c)
    /\ \/ MayActivate /\ Goes(c, Does("activate"))
       \/ c # Worker /\ session.status = "active" /\ Managed # {} /\ Goes(c, Does("drive"))
    /\ UNCHANGED <<session, contract, room, run, history>>

Activate(c) ==
    /\ At(c, "activate")
    /\ Update(c, "active")
    /\ Goes(c, Does("open"))
    /\ UNCHANGED <<contract, room, run, agreed, unseen, lost>>

\* Mutant: the opening task is refused in a paused room.
OpenUnlessPaused(c) ==
    /\ At(c, "open")
    /\ IF room.status = "active"
       THEN /\ room' = [room EXCEPT !.opened = TRUE]
            /\ UNCHANGED <<session, overtaken>>
       ELSE Update(c, "paused") /\ UNCHANGED room
    /\ Ends(c)
    /\ UNCHANGED <<contract, run, agreed, unseen, lost>>

\* The human may write in a paused room, but not in a stopped one.
OpenCollaboration(c) ==
    /\ At(c, "open")
    /\ IF room.status # "stopped"
       THEN /\ room' = [room EXCEPT !.opened = TRUE]
            /\ UNCHANGED <<session, overtaken>>
            /\ IF c = Worker \/ Managed = {} THEN Ends(c) ELSE Goes(c, Does("drive"))
            /\ run' = IF c = Worker THEN [run EXCEPT !.stage = "working"] ELSE run
       ELSE /\ Update(c, "paused")
            /\ Ends(c)
            /\ run' = IF c = Worker THEN NoRun ELSE run
            /\ UNCHANGED room
    /\ UNCHANGED <<contract, agreed, unseen, lost>>

(***************************************************************************)
(* Pause, resume and end (ui/api.py control).                              *)
(***************************************************************************)
\* The worker is told to cancel and the room is paused, whatever the session's status.
ControlPause(c) ==
    /\ Begins(c) /\ room.status # "stopped"
    /\ room' = [room EXCEPT !.status = "paused"]
    /\ Goes(c, Does("pause"))
    /\ UNCHANGED <<session, contract, run, history>>

ReadForPause(c) ==
    /\ At(c, "pause")
    /\ Goes(c, IF session.status = "active" THEN Does("paused") ELSE None)
    /\ UNCHANGED <<session, contract, room, run, history>>

Pause(c) ==
    /\ At(c, "paused")
    /\ Update(c, "paused") /\ Ends(c)
    /\ UNCHANGED <<contract, room, run, agreed, unseen, lost>>

ControlResume(c) ==
    /\ Begins(c) /\ room.status # "stopped"
    /\ room' = [room EXCEPT !.status = "active"]
    /\ Goes(c, Does("resume"))
    /\ UNCHANGED <<session, contract, run, history>>

ReadForResume(c) ==
    /\ At(c, "resume")
    /\ Goes(c, IF session.status = "paused" THEN Does("resumed") ELSE None)
    /\ UNCHANGED <<session, contract, room, run, history>>

Resume(c) ==
    /\ At(c, "resumed")
    /\ Update(c, "active") /\ Goes(c, Does("drive"))
    /\ UNCHANGED <<contract, room, run, agreed, unseen, lost>>

\* A thread that is alive is left alone, also if it was cancelled and outlives the wait.
Spawn(stage) == run' = IF run.stage = "none" THEN [NoRun EXCEPT !.stage = stage] ELSE run

\* Nothing is spawned when the row read back is not active or an agent cannot be run.
ResumeRun(c) ==
    /\ At(c, "drive")
    /\ Spawn("working") \/ UNCHANGED run
    /\ Ends(c)
    /\ UNCHANGED <<session, contract, room, history>>

\* stop, and the transaction that completes: both read again under the write lock.  The
\* worker is told to cancel, which may happen at any time and so is in InvocationFails.
Finish(c) == \E s \in TERMINAL :
    /\ Begins(c) /\ ~Terminal
    /\ SetStatus(c, s, session.revision)
    /\ room' = [room EXCEPT !.status = "stopped"]
    /\ UNCHANGED <<contract, run, call, agreed, unseen, lost>>

(***************************************************************************)
(* The managed worker.                                                     *)
(***************************************************************************)
StartManaged ==
    /\ Spawn(IF session.status = "active" THEN "working" ELSE "attaching")
    /\ UNCHANGED <<session, contract, room, call, history>>

\* Agents that have accepted the current revision are not asked again.
AttachBegins ==
    /\ run.stage = "attaching"
    /\ run' = IF session.revision = 0 THEN NoRun
              ELSE [run EXCEPT !.stage = "agreeing", !.read = session.revision,
                               !.todo = ManagedPlans \ Accepted(session.revision)]
    /\ UNCHANGED <<session, contract, room, call, history>>

\* The next agent joins, if it has not, and is handed the text read at the start.
AskAgent(p) ==
    /\ run.stage = "agreeing" /\ p \in run.todo /\ Begins(Worker)
    /\ IF p \in room.joined \/ room.status # "stopped"
       THEN /\ room' = [room EXCEPT !.joined = room.joined \cup {p}]
            /\ Goes(Worker, [op |-> "reply", who |-> p, read |-> run.read])
            /\ UNCHANGED run
       ELSE /\ run' = [run EXCEPT !.failed = TRUE, !.todo = run.todo \ {p}]
            /\ UNCHANGED <<room, call>>
    /\ UNCHANGED <<session, contract, history>>

\* The invocation fails, or is cancelled and ends the worker.
InvocationFails ==
    /\ At(Worker, "reply")
    /\ \/ run' = NoRun
       \/ run' = [run EXCEPT !.failed = TRUE, !.todo = run.todo \ {call[Worker].who}]
    /\ Ends(Worker)
    /\ UNCHANGED <<session, contract, room, history>>

\* Somebody failed, or somebody outside has still to answer: the worker ends.
AttachEnds ==
    /\ run.stage = "agreeing" /\ run.todo = {} /\ call[Worker] = None
    /\ run' = IF ~run.failed /\ Accepted(session.revision) = Agents
              THEN [NoRun EXCEPT !.stage = "starting"] ELSE NoRun
    /\ UNCHANGED <<session, contract, room, call, history>>

WorkerActivates ==
    /\ run.stage = "starting" /\ CheckActivation(Worker)

\* The activation is refused, or was somebody else's.
WorkerRefused ==
    /\ run.stage = "starting" /\ call[Worker] = None
    /\ run' = IF session.status = "active" THEN [run EXCEPT !.stage = "working"] ELSE NoRun
    /\ UNCHANGED <<session, contract, room, call, history>>

\* The conductor returns.
RunEnds ==
    /\ run.stage = "working" /\ call[Worker] = None
    /\ run' = NoRun
    /\ UNCHANGED <<session, contract, room, call, history>>

\* The process of the UI dies, with its threads and the worker.
Crash ==
    /\ MayCrash
    /\ \E c \in Threads \cup {Worker} : call[c] # None
    /\ lost' = (lost \/ \E c \in Threads \cup {Worker} : At(c, "open"))
    /\ call' = [c \in Callers |-> IF c \in Agents THEN call[c] ELSE None]
    /\ run' = NoRun
    /\ UNCHANGED <<session, contract, room, agreed, unseen, overtaken>>

Next ==
    \/ \E c \in Threads :
        \/ UpdateConfiguration(c) \/ CommitConfiguration(c) \/ GenerateContract(c) \/ IssueContract(c)
        \/ CheckActivation(c) \/ Finish(c)
        \/ ControlPause(c) \/ ReadForPause(c) \/ Pause(c)
        \/ ControlResume(c) \/ ReadForResume(c) \/ Resume(c) \/ ResumeRun(c)
    \/ \E c \in Callers : Acknowledge(c) \/ RecordAcknowledgment(c) \/ Activate(c) \/ OpenCollaboration(c)
    \/ \E p \in Agents : JoinRoom(p) \/ AskAgent(p) \/ ReadContract(p)
    \/ StartManaged \/ AttachBegins \/ InvocationFails \/ AttachEnds \/ WorkerActivates \/ WorkerRefused \/ RunEnds
    \/ Crash

Spec == Init /\ [][Next]_vars

(***************************************************************************)
(* Properties.                                                             *)
(***************************************************************************)
Unanimous(r) == \A p \in Agents : <<r, p>> \in agreed

\* Contract revisions are numbered without a gap up to the one the session is under
\* (issue_contract computes the number outside its transaction).
RevisionsAreWritten == \A r \in Revisions : contracts[r] # None <=> r <= session.revision

\* An acknowledgment carries the digest of the contract of its revision, however late
\* it is recorded (acknowledge reads the contract before it writes).
AckIsForItsText == \A r \in Revisions, p \in Agents :
    acks[r][p] # None => acks[r][p].text = contracts[r]

\* No session works, and none is paused, before the whole team has accepted one
\* revision: no race of activate, pause, resume and issue_contract gets round that.
ActiveWasAgreed ==
    session.status \in {"active", "paused"} => \E r \in 1..session.revision : Unanimous(r)

\* An active session works under its current revision, accepted by everybody.  Only a
\* call that writes the status on a reading which another call has overtaken can break
\* this; pause, resume, a refused reconfiguration and a crash cannot.
ActiveIsCurrent ==
    session.status = "active" /\ ~overtaken => session.revision > 0 /\ Unanimous(session.revision)

\* An active session in a room that lives has its opening task, or a call is about to
\* send it, or the process died right there (activate promises a live collaboration).
LiveSessionHasItsTask ==
    session.status = "active" /\ room.status # "stopped"
        => room.opened \/ lost \/ \E c \in Callers : At(c, "open")

\* Both: work needs an agreement, and goes on under the current one.
WorkHasAgreement == ActiveWasAgreed /\ ActiveIsCurrent

\* A finished session stays as it ended, unless a call that had read an earlier status
\* writes over it (TERMINAL: the session accepts no further work).
FinishedStays == [][Terminal => session'.status = session.status \/ overtaken]_vars

\* A contract's text never changes and the revision never goes back, so an agreement is
\* never transferred to other terms.
ContractStands ==
    [][ /\ session'.revision >= session.revision
        /\ \A r \in Revisions : contracts[r] # None => contracts'[r] = contracts[r] ]_vars

\* The claim of manager.py: nobody works under terms they never saw (a new revision
\* clears the acknowledgments, agreeing to revision 1 is not agreeing to revision 2).
NobodyUnderUnseenTerms == session.status = "active" => ~unseen
=============================================================================
