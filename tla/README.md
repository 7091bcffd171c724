# Synchri: a TLA+ model

Synchri lets coding agents share a *room*: they take turns, hand work to each
other and answer to a human who may interrupt at any time. There is no daemon.
Command-line processes, the local UI and the managed runner all act on one SQLite
file, and everything that must never go wrong (who has the floor, who is next,
when agents must stop talking, when a session is done) is decided by ordinary
function calls that race each other through that file. This directory models
those decisions, checks them with TLC and proves the central ones with TLAPS.

## The system

| part | state it keeps | operations | what must hold | module |
|---|---|---|---|---|
| room broker and turn scheduler (`broker/broker.py`, `queue/scheduler.py`) | `rooms`, `participants`, `invites`, `turns`, `queue_entries`, `tasks`, `agent_activity` | create, invite, join, remove, send, pass, request-floor, note, pause, resume, stop, config | one speaker; turn and queue in step; order changed only by a stronger ask; the reviewer follows the lead; agents fall silent at the limit; nothing survives a stop | Room, Floor |
| transactions, transcript, memory ledger, search index (`storage/db.py`, `storage/transcript.py`, `memory/ledger.py`, `session/deliberation.py`) | a lock and an owner per connection, SQLite's write lock; a JSONL file and a Markdown file per room; an index with a watermark | begin, nest, commit, roll back; append when the send's block has ended, rebuild; load, change, save; reindex | what returned is committed, what raised is not; an entry is not lost to another edit; the derived records follow the messages | Records |
| session lifecycle (`session/manager.py`, `contract.py`) | `sessions`, `session_contracts`, `session_acknowledgments` | issue contract, acknowledge, activate, reconfigure, pause, resume, stop, complete | work only under a contract everybody accepted at its current revision; a finished session stays finished | Session |
| gates, dropbox, completion (`session/dropbox.py`, `gates.py`, `runner/ancillary.py`) | `session_gates`, `session_drops`, `session_appendix`, `sessions.phase` | capture, investigate, review, fail, evaluate, report gate, complete | nothing captured is lost; each item is evaluated by both roles over one proposal; no completion with an unproven gate | Completion |
| planning mode (`session/planning.py`) | `session_plans`, revisions, objections, promotions | submit, review, exhaust, resume, reopen, waive, capture, approve | one resume; an approved plan is immutable; one finished session per plan; every capture reaches it | Planning, Promotion |
| conductor, recovery and managed runner (`runner/conductor.py`, `recovery.py`, `managed.py`, `ui/api.py`) | a worker thread per session, cancel events, failure counts | drive, poll, cancel, resume, restart, replace, escalate | one worker per session; a managed agent with the floor is served; a failing agent is not called for ever | Runner |
| connection tests and recovery (`runner/doctor.py`, `managed.py`) | `runtime_connections`, a test thread, a cancel event, provider session ids | probe, canary, retry, resume canary, save, cancel; resume once | a green is of the CLI as it is installed; a cancel keeps the earlier proof; a test ends | Connections |
| worktrees, creation and deletion (`session/worktree.py`, `manager.create`, `delete_session`) | git worktrees and branches, planning clones, rows and files of a room | create, validate, select, undo, inspect, remove | a refused or deleted session leaves nothing; no work goes with a tree; the user's trees stay | Workspaces |
| credentials, provider I/O, CLI, shell | processes, files, text | hashing, parsing, rendering | | not modelled |

Interaction: the UI and the CLI call the manager and the broker; the manager calls
the broker inside its own transactions; the runner polls `room_status`, invokes an
agent and posts its answer through `send` or `pass_turn`. They share no other
state than the database, the per-room files and, inside one process, the registries of
worker and test threads.

What is hard here: operations that change five tables by hand and must agree; a
queue whose order is derived from two columns; handlers of the session layer that read
a row in one statement and write it in another; worker threads that decide to end while
somebody counts on them; provisioning in several transactions that is retried and
adopted; files and git trees changed before or after the commit. `PROJECT.json` lists
each hazard at its line with the properties that cover it.

## The modules

Each component has a module; `MC<module>` instantiates it where TLC needs symmetry or
function-valued constants, and `<module>Proofs` holds its theorems. Two abstract
specifications say what a component promises to those who use it:

* **Floor**: a room as its status, whether it waits for its human, and who has the floor.
  Room implements it (`FloorSpec`), and Runner is built on it: its room moves by the actions
  of Floor, so what is shown of a worker is shown of a room that does whatever Room may do.
  A participant the observer does not manage is "outside", which `Managed` decides; Room
  implements Floor for every choice of it.
* **Promotion**: in three actions, what the approval of a plan promises; Planning
  implements it.

Both refinements are proved, and TLC checks the same mappings. The other modules state what
they need of a neighbour as an environment (Session a room reduced to who joined it and
whether the opening task was sent; Completion a room that takes messages or not), more
freely than the module of that part lets it be.

What is left to do, in the order it would add most: the timebox, escalations and approved
capabilities of a session; the historian of `doctor.py`; the event stream of the UI.

How the bounds were chosen: every unbounded counter has a constant `Max...` in the guards
that names its bound, declared with the comment "bound"; a run is the cheapest instance in
which its question is not trivial, given below with each module.

A promise that the code does not keep is stated as a property of its module next to those
that hold, and the section of the module says that it fails. `claim_history` keeps one of
them as a run; for the others, put the property alone into the configuration of the module's
run (for Planning, `planning_loop`; for Workspaces, that of `claim_history`) and TLC prints
the trace.

## Room

`Room.tla` has one variable per group of tables that change together:

| variable | tables |
|---|---|
| `room` | the `rooms` row (`status`, `count` = consecutive_agent_turns, `max`, `awaiting`), the active turn (`turn`), the live queue entries (`entry`, one per participant as the unique index has it) and the order of `enqueue_seq` among the waiting ones (`before`) |
| `member` | `participants.status` |
| `invited` | names with a live invite |
| `notes` | participants with a live work note |
| `tasks` | `tasks` |

Every broker operation runs in one `BEGIN IMMEDIATE` transaction (Records justifies
this), so it is one action; the action threads the room record through the scheduler
calls in the order the handler makes them (`EndTurn`, `ClearQueue`,
`ResetAgentTurnBudget`, `Enqueue`, `ActivateNext`, ...), which are operators with the
functions' names. Guards are the authorisation checks and early returns. Two operations
of the code are split by their early branch: `send` into `SendAsHuman` and `SendAsAgent`,
`pass_turn` into `PassTurn` (the holder) and `GiveUpSlot` (somebody queued).

Abstractions. Text, ids, secrets and times are dropped. An invite is "this name may
join"; redeeming a wrong or spent secret is a refused operation. A human direction
keeps only the reviewer it names (`ask`), because that is all the code reads back
from the message that a turn answers. `enqueue_seq` is the order it induces, so the
state space is finite without a bound on messages. `count` needs no bound either:
no turn is counted once the limit is reached.

### Properties, runs and bounds

* `FloorMatchesQueue`: the turn and the active entry agree on holder, blocking, task and
  direction, though they are two rows changed by hand.
* `NothingOutside`: nobody outside the room holds anything in it, a work note is the floor
  holder's, and a stopped room is empty (`OutsidersHoldNothing /\ NoteIsHolders /\
  StoppedIsEmpty`).
* `QueueIsFair`: the waiting entries are totally ordered, one overtakes another only by a
  stronger ask, and a grant goes to the head (`QueueOrdered`,
  `OvertakingNeedsStrongerAsk`, `GrantGoesToTheHead`).
* `ReviewFollowsLead`: the reviewer a direction names is next after the lead.
* `WorkConserving`: no empty floor with a queue in an open room.
* `FloorSpec`: whoever watches the room (`View`) sees a Floor. It is the one property that
  speaks of every handler at once: each takes the step of Floor that it is named for, and no
  step gives the floor of a room that is paused, stopped or waiting.
* Liveness: `DirectAddressServed` (whoever is asked directly is heard, or the ask is
  withdrawn) and `AgentsYieldTheRoom` (agents that keep addressing each other run out of
  turns unless a human keeps resetting the counter).

| run | room | shows |
|---|---|---|
| `room_floor` | two agents, one human, one task, limits 1 and 2, all joined; every operation but work notes, with the directions the program itself gives | the types, `FloorMatchesQueue`, `QueueIsFair`, `ReviewFollowsLead` |
| `room_live` | two agents, one human, limit 2, no task, from `create_room` with its invites; every step but directions that name a reviewer | `NothingOutside`, work conservation, `FloorSpec` (of one managed agent and an outsider), liveness |

Two agents and a human make three who wait or speak: enough for one to be overtaken by a
second while the third speaks. A limit of 2 is the least at which a turn can be counted
without silencing the room; 1 makes every turn silence it; the two together allow the
limit to be raised above and lowered below the counter. One task meets every state of a
task, and is what a turn and its entry must agree on. Deadlock is not checked: a stopped
room accepts nothing. Symmetry is used in `room_floor`, which has no liveness property.

Fairness (`Fairness` in Room): an agent that has the floor ends its turn, strongly
fair because a pause or a spent limit may disable it again and again; the conductor
guarantees it, since an invocation has a timeout and a failed one gives the turn up.
The human answers a room that waits for it or gave it the floor, and does not leave a
room paused for ever: without that no room that waits for a person is live. Nothing
else is fair: no agent need volunteer, no invite need be used.

### Where documents and code differ

The reviewer is *not* guaranteed the next turn if it joins after the direction was given:
`ReviewFollowsLead` holds of a room everybody has joined, as `room_floor` checks it, and
fails of behaviours from `Init`. Further: raising the limit of a
waiting room does not activate the head of its queue, so the room stands still, and a
conductor polls it, until somebody runs another operation; a human does
queue if addressed by an agent or if it requests the floor
(`queue/scheduler.py:5`); lowering the limit leaves the counter above it
(`docs/architecture.md`, invariant 8); removal ends a blocking turn
(invariant 3); an interrupted speaker resumes behind direct addresses that were
waiting (`broker.py:799`); the holder of a paused room is told `your_turn`
(`broker.py:1145`); a weaker blocking ask changes a waiting entry
(`scheduler.py:66`); and a pass marks the task of the turn passed
also when somebody else was assigned it (`broker.py:1004`, `queue-semantics.md:58`).

### Proofs

`RoomProofs.tla` proves, for any sets of agents, humans and tasks and any limits,
under the named assumptions of Room (the owner is a human, nobody is both kinds,
limits are positive, NULL is none of the values, the managed are agents):

* `TypeCorrect`, `FloorAgreement`, `RoomIsClosed`: `Spec => []P` for `TypeOK`,
  `FloorMatchesQueue` and `NothingOutside`;
* `AwaitingExact`: the flag `awaiting_human` agrees with the counter, which four handlers
  write by hand;
* `RoomEndsForGood`: a stopped room takes no further step;
* `NobodyIsPassedBy`: `Spec => QueueIsFair`;
* `FloorIsNotIdle`: `Spec => []WorkConserving` if there is one limit to choose from
  (`OneLimit`, as in `room_live`), and `OnlyANewLimitIdles`: with any limits, a step that
  leaves the floor empty before a queue is a change of the limit, the one operation that
  forgets the scheduler;
* `BlockingTurnsStand`: `Spec => BlockingTurnProtected` (no other agent ends a blocking turn),
  which no run repeats;
* `JoinedReview`: `JoinedSpec => ReviewFollowsLead`, of a room everybody has joined, as
  `room_floor` checks it, and `ReviewerSpeaksNext`, where the direction may name a human
  as well;
* `RoomImplementsFloor`: `Spec => FloorSpec`, whoever is managed;
* `AwaitingIsSilence` and `TasksMoveForward`: two step properties that no run repeats,
  `AwaitingSilencesAgents` and `TaskMovesForward`.

The argument is one inductive invariant, `Inv`. None of the invariants is inductive alone:
that a removed participant holds nothing needs the turn and its entry to agree (the
removal clears one through the other), which needs types, and that a note belongs to
the holder needs to know who can lose the floor. `Inv` says of a pair of a room record
and the membership that it is `Good`: typed, turn and entry in step, only members in
either, the flag exact; and that notes are the holder's. Because every handler is a
composition of scheduler operators, the proof follows the code: one lemma per operator
says that it preserves `Good` under the condition the handlers establish
(`EnqueueGood`, `EndTurnGood`, `ActivateNextGood`, ...), and the step proof of a
handler chains them. The stop is a second layer: one lemma per operator says that it
leaves the status alone (`StatusKept`), so that only `StopRoom` can end a room, and no
action is enabled afterwards.

Fairness is a third. The queue is a `Chain`: the order by priority and sequence number is
strict, and every group of waiting participants that is not empty has a first. Losing an
entry keeps that (`ChainShrinks`) and so does adding or moving one (`ChainGrows`), so no
assumption that the participants are finitely many is needed, and the head exists and is
one (`HeadExists`, `HeadUnique`). Each scheduler operator is then described by its effect:
an ask (`Asks`) moves one entry and makes it no weaker, a departure (`Leaves`) removes
some, and what ends an operation (`Settles`) gives an empty floor to the head or has a
reason not to. `FairStep` says the three promises of a step, proved once per handler
(`MembershipFair`, `ControlFair`, ...).

The reviewer rule needs to know what the queue holds while the lead speaks. `Quiet` says
that as long as a directed turn is owed to a reviewer, or its direction still waits for the
lead, every ask of another participant is weaker than the handoff the scheduler will make;
`ReviewInv` adds that nobody is absent. It is inductive because a human's direction clears
the queue when it is given, and because the only asks as strong that can come later are a
human's next message, which ends the turn, and the lead's own.

The refinement of Floor follows the same chain. A handler threads the room through scheduler
calls and ends with `ActivateNext`; what the record before that call keeps of status, flag
and turn decides which step of Floor it is (`FloorSeen`, `FloorGiven`). `Inv` is needed
for the types and for turn and queue in step, and the order of the queue because `Redirect`
promises the floor to the one addressed: after the queue was cleared it is the head.

The two liveness properties (`DirectAddressServed`, `AgentsYieldTheRoom`) are model-checked only.

## Completion

A session ends by `complete` or by `stop`. `complete` is a phase machine over
`sessions.phase`: a request in the original work freezes the side tasks that were
captured into an *appendix* and starts their evaluation; when both main roles have
judged every item, the approved ones become extension gates and the extension work
starts; when every gate is proven, the closing transaction ends the session. Without
side tasks the first request closes it, and the human may force the end at any phase.

`Completion.tla` models what a handler does inside one `BEGIN IMMEDIATE` transaction
as one action, and keeps what it read *before* the transaction in `call[c]`, so that
any other call may run between the reading and the writing:

| variable | code |
|---|---|
| `status`, `phase`, `meta` | the `sessions` row: status (every status that is not terminal is `open`), phase, and of the metadata the appendix snapshot and the changelog record |
| `gates` | `session_gates`: status, who is cited in the evidence, who has signed |
| `drops` | `session_drops` and, as `position`, `session_appendix` |
| `room`, `file` | whether the room still takes messages; whether the changelog file exists |
| `queued`, `scout` | the queue and the stage of the ancillary worker |
| `call` | per caller (the two main roles, the human's UI and shell) the call under way |

| actions | code |
|---|---|
| `Capture`, `PickItem`, `BeginInvestigation`, `DepositProposal`, `RecordReview`, `InvestigationFails`, `LoseScout` | `dropbox.py` and the worker of `ancillary.py`, which outlives every phase change |
| `BeginEvaluate`, `Evaluate`, `EvaluateRefused` | `evaluate`: the phase is checked before the transaction, the item inside it |
| `ReportGate` or `EditGate`, then `UpdateGate`, then `WriteGate` | a gate report reads the gate, `update_gate` reads it again, `_write_gate` writes the whole row |
| `AddGate`, `ReplaceGates` | `add_gate` (checked, then written), `set_gates` |
| `Complete`, then `Freeze`, `Extend`, `Close` or `CompletionRefused` | `complete` and its three transactions |
| `CloseCrash`, `CloseFails`, `RestoreChangelog`, `Abandon` | the closing process dies or fails after it wrote the file; any caller dies before it writes |
| `Stop`, `StopRoom`, `RunTests`, `WriteTests` | `stop`; the room stopped through the broker; the read, run and write-back of `run_tests` |

Abstractions. Every gate is a required one (an optional gate never blocks, and counts
only for a session having gates at all). A proposal is the number of its deposit, which
is what a digest is compared for. The `EXT` gate of a drop is named by the drop: ids are
allocated under the write lock, one per approved drop. Prompts, secrets, scratch
worktrees and the wording of the changelog are dropped. The reads that precede a
transaction are taken at one instant. A caller has one call under way. A session has a
primary builder and, if `Held` says so, an adversarial reviewer; the other role pairs
behave alike. Activation, pause and resume do not touch these rows and are left to
Session.

### Properties, runs and bounds

| run | instance | properties |
|---|---|---|
| `completion_dropbox` | two drops, one main gate, both roles, one call at a time, closing transactions that may fail | `SnapshotTotal` (a capture lands in the frozen snapshot or is refused, and is ready to be judged), `DecidedBeforeExtension` |
| `completion_calls` | one drop, one main gate, both roles, two calls under way, no failing commit | `ApprovedIsReviewed` (what was approved is the very proposal that was reviewed and that both roles judged), `CompleteIsRecorded` (changelog, closing phase, stopped room), `CompletionProven` (gates and items are right in the state the transaction commits, not only in the one the request saw), `EvaluationEnds` (every item is decided unless the session or its room is ended first) |

Two drops are the least of which one can be left outside a snapshot that has the other,
and meet every stage of the single worker while the other waits. Two calls under way are
enough for every race the code has between one reader and one writer; a third matters
only to properties about three values of one row, of which there are none. The human's
edits stand in for the reports in `completion_calls` because they bring a gate to
acceptance in one call. The model has no unbounded counter: a proposal is deposited once
per drop, since an item is investigated only while captured.

Fairness: a main role that the session prompts keeps judging the items it has not judged
(strongly fair, because another call may be under way again and again) and a call that
was made is carried out or refused. The worker may be lost at any time and no process
need survive. `EvaluationEnds` therefore rests on the cut-off of the freeze and on
failure reports being judgeable, not on any scout.

### Where documents and code differ

Each is stated beside the definition that fails where the code differs; none has a run of
its own.

* `EvaluationEnds` with a lone builder (`Held` of one role): `mark_failed` says that a
  failure report lets mandatory evaluation never block completion; but a disposition needs
  the verdicts of two main roles, and the modes that admit a team of one have only the
  first. Such a session, with a side task captured, waits in evaluation until the human
  forces it.
* `EvidenceKept`: `report_gate` says that merging cannot erase another author's
  evidence. It merges into what it read, outside any transaction, and writes the whole
  row: of two reports under way together one loses its evidence.
* `CompleteIsRecorded` with `CommitMayFail` and two calls, a defect of the code: a closing
  transaction that fails after writing the changelog puts the old file back after the
  rollback, when another completion may have committed; a complete session is then left
  without its delivery record.

Also: a gate report that was under way when the session ended
is still written, and can un-waive a gate of a complete session; `set_gates` removes
extension gates too, so approved work may be left without a gate to prove it; an item
waived at a forced end may still be marked as under investigation by the worker; a test
run that spans the closing of the session erases the record of the changelog from the
metadata, so `final_changelog` refuses a complete session; a worktree cut for an item
that was decided meanwhile is left behind.

### Proofs

`CompletionProofs.tla` proves, for any finite set of drops, any gates, any roles and any
number of calls under way, that `TypeOK`, `SnapshotTotal`, `ApprovedIsReviewed`,
`DecidedBeforeExtension` and `CompletionProven` hold of every behaviour, and
`CompleteIsRecorded` if no closing transaction fails after writing the file; and three
step properties which the runs leave to the proofs: `DecisionFinal` (no call changes a
decision), `AppendixGrows` (a position is given once, after all others) and `EndsOnce` (of
stop and complete exactly one ends a session).

The argument has two layers. Rows first: `Rows` says that each row is typed and *sound*
(an approval has its proposal, review and verdicts; a position is within the bound), and
each operation on the dropbox is shown to relate the old row to the new one by `Evolves`
(a decision stays, a position stays, nothing captured becomes absent) and `Grows` (a new
position is beyond all old ones). `DecisionFinal` and `AppendixGrows` follow from the
relation, and every other lemma uses the relation and not the operations. Then the
invariant `Inv`: `SnapshotTotal` is not inductive, because the snapshot also lives in the
metadata copies that test runs hold, so `SnapshotsSound` speaks of those too; and
`DecidedBeforeExtension` is not, because the request that starts the extension read that
nothing is pending *before* its transaction, so `CallsSound` says that such a call is
only under way when every item is decided, which stays true since after the freeze no
item is captured and no decision is taken back (`FrozenRows`).

`EvaluationEnds` is model-checked only.

## Session

`SessionManager` reads a row in one statement and writes it in a later one, without a
transaction around both: `activate`, `pause` and `resume` write the status that follows
from the one they read, `issue_contract` numbers a revision from the one it read, and
`acknowledge` files a reply under the revision it read. Only `stop`, `complete` and the
insertions themselves run in transactions. `Session.tla` therefore splits every call where
another may come between, and keeps what it has read in `call[c]`:

| variable | code |
|---|---|
| `session` | the `sessions` row: status, `contract_revision`, and the terms (permissions, specification, deadline, policy) as one value |
| `contracts`, `acks` | `session_contracts`, `session_acknowledgments`; a text or a digest is the terms it was made from |
| `room` | of the room, what the session reads: its status, who has joined, whether the opening task was sent |
| `run` | the managed worker's thread: its stage, the revision whose text it read, who is still to answer, whether anybody failed |
| `call` | per caller (the human's requests, each agent's command line, the worker) the call under way |
| `agreed`, `unseen`, `overtaken`, `lost` | history, read by no action: whose acceptances were recorded, whether one was of a revision its agent had not read, whether a status was written over the reading of another call, whether a crash came between activation and opening task |

| actions | code |
|---|---|
| `UpdateConfiguration`, `CommitConfiguration` | `update_configuration`, which then issues a contract |
| `GenerateContract`, `IssueContract` | `issue_contract` before and in its transaction |
| `ReadContract`, `Acknowledge`, `RecordAcknowledgment` | an agent reads the current contract; `acknowledge` reads what is current when the reply comes, then writes |
| `CheckActivation`, `Activate`, `OpenCollaboration` | the checks of `activate`, its status write, and the opening task with its fall-back to a paused session |
| `ControlPause`, `ReadForPause`, `Pause`; `ControlResume`, `ReadForResume`, `Resume`, `ResumeRun` | the UI's pause and resume: first the room, then the session, then the worker |
| `Finish` | `stop`, and `complete` as far as the status goes (Completion has the rest) |
| `StartManaged`, `AttachBegins`, `AskAgent`, `InvocationFails`, `AttachEnds`, `WorkerActivates`, `WorkerRefused`, `RunEnds` | the worker in `managed.py`, from its spawn to the activation; the conductor it then runs is one stage, `working` (Runner has it) |
| `JoinRoom`, `Crash` | an invite redeemed elsewhere; the death of the UI process with its requests and the worker |

Abstractions. The reads of one check (those of `activate`, the row and the worktree in
`issue_contract`) are taken at one instant. The roster and the managed flags are
constants. A lost worktree is a call that may be refused; a cancel may reach the worker
during any invocation, which is when it is looked for. A human who pastes an agent's
reply acts as that agent. All threads of the UI die together; an agent's command line
survives them. Participant removal, the deadline, escalations and approvals
are left out: of these only removal touches what is modelled here.

### Properties, run and bounds

`session_lifecycle` has one agent, run by Synchri or answering itself, two requests, two
terms, two revisions, two calls under way, and crashes. It checks

* `AckIsForItsText`: an acknowledgment carries the text of the revision it is filed under;
* `WorkHasAgreement`: no session works, or is paused, before the whole team accepted one
  of its revisions (`ActiveWasAgreed`), and an active one works under the current one
  (`ActiveIsCurrent`);
* `LiveSessionHasItsTask`: an active session has its opening task, or is about to;
* `FinishedStays`: a finished session stays as it ended.

The premise `~overtaken` in the second and the last is where the code does not keep what
it promises: a pause request that read `active`, and writes `paused` after a stop or after
a new revision was issued, reopens a finished session or makes a session work that waits
for its acknowledgments. The two properties say that nothing *else* does. `overtaken` is
cleared when a status is written that depends on none (an end, a new revision) while no
call relies on the old one, so it excuses only the behaviours in which such a race
happened.

Two revisions are enough for an acceptance to be of the wrong one, two requests and two
calls under way for each pair of a reader and a writer. With one agent "the whole team" is
one person, but each agent's acknowledgment is a row of its own; the proofs hold for any
roster. `MaxRevision` bounds the number of contracts, in the guards of
`UpdateConfiguration` and `GenerateContract`. Two requests and two terms are
interchangeable, and no property here is a liveness property, so both are symmetry sets.
Deadlock is not checked: a finished session may have nothing left to do.

### Where documents and code differ

* `NobodyUnderUnseenTerms` fails: `issue_contract` says that a change of terms "clears
  acknowledgments, so nobody is working under terms they never saw". A reply carries no
  revision: the worker reads the contract once and then asks the agents one after the
  other; if the human changes the terms meanwhile, the answer to revision 1 is recorded
  as an acceptance of revision 2, and the session is activated on it.
* `update_configuration` commits the new terms before the
  contract that states them, so a refusal or a crash in between leaves an active session
  under terms that no contract has.
* Two activations at a time both send the opening task; a
  crash between the activation and the opening task leaves an active session in which
  nobody was told to begin (`lost`).
* An agent that accepted the contract by command line
  before it joined the room is never asked by the worker, which joins agents when it asks
  them (`managed.py:470`), so activation waits for a person.

### Proofs

`SessionProofs.tla` proves the four properties, and `TypeOK`, `RevisionsAreWritten` (the
revisions have no gap and no duplicate) and `ContractStands` (a contract's text never
changes and the revision never goes back), for any roster, any set of requests and
terms, any bounds and with or without crashes. There are three inductive invariants, each
resting on the ones before:

* `Numbering`: types, `RevisionsAreWritten`, `AckIsForItsText`, and what makes them
  inductive: a call that is under way carries nothing newer than the session (`CallsFit`),
  and a reply about to be recorded carries the text of its revision. A revision number is
  computed before the transaction, so it may be taken by then; the primary key refuses
  it, and a number that is not refused must be the next one (`IssueKeepsNumbering`).
  `ContractStands` is a step property of the same invariant.
* `Agreement`: whoever has read `active` or `paused`, or passed the checks of `activate`,
  rests on a unanimous revision (`Resting`); and on the current one as long as nobody
  was overtaken. This is why `pause` and `resume`, which check no contract, cannot make
  an unagreed session work: what they read was already agreed.
* `Ending`: a finished session that was not overtaken has no call about to write a
  status (`NobodyHolds`), and a session that works, was paused or is about to be resumed
  has its opening task (`WorkHasItsTask`).

## Planning and Promotion

In planning mode a planner and a reviewer drive one plan through revisions and reviews
until it is ready, or until a budget (turns, revisions, wall clock) is spent. The human
reopens it, waives objections, resumes the budget once, captures side tasks, and at last
approves the plan, which *promotes* it into a coordination session. `Planning.tla` splits
every request where it reads and where it writes, because each control and the reply of
an agent reads the plan first and updates it in a transaction of its own:

| variable | code |
|---|---|
| `plan`, `bodies` | the `session_plans` row; per revision, whether its acceptance criteria can become gates |
| `objections`, `exhausted` | `session_plan_objections`; is the escalation about the budget open |
| `promotion`, `pending`, `drops` | the `session_promotions` row with its queued captures; the dropbox of the planning session |
| `linked` | the sessions that carry `promoted_from`: have they gates, a contract, captures, and were they stopped |
| `worker`, `call` | what the managed worker and each request have read and will do next |
| `tip` | the tip of the source branch, which drift is measured by |
| `closed`, `spent` | history: the revisions a review closed, and those the budget ran out on |

| actions | code |
|---|---|
| `TurnReturns`, `Exhaust`, `Escalate`, `ReadForTurn`, `PlannerReplies`, `ReviewerReplies` | `count_turn`, `_exhaust` (status, then escalation) and `handle_turn` with its reading and its transaction |
| `ReadForReopen`/`Reopen`, `ReadForWaive`/`Waive`, `ReadForResume`/`ResumeBudget` | the human's controls |
| `ReadForApprove`, `ReturnForDrift`, `Reserve`, `PlanMoved` | `approve`: its checks, the drifted baseline, the reservation |
| `Provision`, `Create`, `CreateFails`, `CompleteGates`, `CompleteContract`, `Finalize`, `FinalizeRefused` | provisioning, which adopts what an earlier attempt left, and the transaction that promotes |
| `Capture` | `capture_drop`: into the planning dropbox, onto the reserved promotion, or into the coordination session |
| `StopCoordination`, `SourceMoves`, `Crash` | the human stops the coordination session; somebody commits; the server ends between any two steps |

`Promotion.tla` is the promise: a plan is approved once, at one revision; it is promoted
once; and a capture is kept, in order, and moves to the coordination session in the very
step of the promotion. Its five variables are functions of the rows (`P == INSTANCE
Promotion WITH ...` at the end of Planning).

| run | instance | shows |
|---|---|---|
| `planning_approval` | two approvals, two captures, two revisions, budgets that are spent within them, one crash | `PromotedOnce` (one coordination session, with its gates and its contract), `ApprovedTextStands` (what was approved is a text the review closed or the budget ran out on, and the plan's latest), `PromotionSpec` (the refinement), `ReservedIsFinished` (a reserved promotion is finished by its retries, after crashes and failures, unless the human stopped the session) |
| `planning_loop` | one request of every kind, turn and revision budget of 2, a wall clock that may run out, one objection, one commit on the source branch | `ExhaustionIsTold` (a plan the budget stopped has its escalation), `LoopEnds` (the loop reaches a ready plan or the human) |

Two approvals are enough for one to overtake the other at every step of the provisioning,
and a crash for an adoption of what it left; two captures for their order. A budget of 2
lets a plan be revised once before it is spent, and the resume doubles it; one objection
and two tips make the plan return for drift once. The budgets in the code are larger
numbers of the same comparisons.

Fairness: in `planning_loop` the room goes on while the plan is neither ready nor out of
the loop (its tasks keep an agent addressed, see Room) and the worker handles each reply;
no reply need be good. In `planning_approval` a request runs to its end, the human asks
again while a promotion is reserved (the UI offers nothing else), and a session can be
created in the end (strongly fair, since a failing creation ends the request).

Abstractions: texts, digests and titles; which criteria make valid gates is a choice.
Evidence and baselines are dropped. One commit of the source is a step of `tip`.

### Where documents and code differ

* `BlockersPreventApproval` fails: "open blocking objections or unresolved architectural
  forks prevent PLAN-READY and approval" (`docs/updates/v0.4.2.md`). `approve` checks the
  objections before its transaction, which looks at status and revision only
  (`planning.py` at the update "the plan changed while approval was in flight"): a fork
  raised meanwhile does not stop it.
* `DirectionIsTaken` fails: an exhausted plan tells the human to "resume the budget once,
  give direction, or approve what stands" (`planning.py`, `_exhaust`; also
  `docs/updates/v0.5.1.md`), but direction on a spent budget reopens the plan and the next
  turn is counted against the same budget and exhausts it again; after the one resume no
  direction leads to another revision.
* Two resumes at a time both pass the check of `resumes_used`, which precedes the
  transaction (`resume_budget`): the allowance is raised twice. `MaxResumes` says so.

### Proofs

`PlanningProofs.tla` proves, for any requests, captures, budgets and bounds:

* `PromotionHappensOnce`: `Spec => []PromotedOnce`. The invariant is `Provisioning`: a
  request knows of the one linked session only what the steps before its own have made
  (`Knows`), a crash loses the request and not the rows, and the unique index keeps the
  second session out. What a request is about to do is what makes it inductive.
* `ApprovedTextsStand`: `Spec => []ApprovedTextStands`, from `Texts`: what a status says
  of the latest revision, and what a request about to reserve has agreed with, stays true
  under every reply, though the two read at different times.
* `PlanningImplementsPromotion`: `Spec => PromotionSpec`. Every step that moves neither
  the stage nor a box stutters (`Stutters`); `Reserve` is `Approve`, `Finalize` is
  `Promote`, `Capture` is `Capture`. The invariant is needed because a finalising request
  names the session it found, and only `Provisioning` says that this is the one.
* `ExhaustionsAreTold`: `Spec => []ExhaustionIsTold`, which is inductive with the types.

`ReservedIsFinished` and `LoopEnds` are model-checked only.

## Runner

A worker thread of the local server supervises an active session: it looks at the room,
invokes whoever has the floor, posts the answer or the failure, and ends when nobody it
supervises can act. `Runner.tla` has the registry (`managed.py`), the loop, breaker and
recovery ladder of the worker (`conductor.py`, `recovery.py`), and the requests that wake,
cancel or restart it (`ui/api.py`), each split at every lock, wait and commit.

| variable | code |
|---|---|
| `session`, `room` | the status of the session; of the room what Floor has of it: its status, whether it awaits the human, and who has the floor (a managed agent, an outsider, nobody) |
| `worker`, `cancel`, `restarting` | the threads with what they have read; the session's cancel event and those of single agents |
| `strikes`, `replaced`, `dropped`, `told` | the durable rows: consecutive failures, automatic replacements, dropped agents, escalations |
| `call` | the requests under way |
| `burnt`, `unheard`, `lost` | history: failed turns since the human acted; since the last worker was started, supervision was left without one in a way the code has no answer to; agents whose escalation died with a worker |

| actions | code |
|---|---|
| `Drive`, `Check`, `Poll`, `TakeTurn`, `Return` | `_drive`, the loop with its cancel and room tests, the waiting of a mixed team, `_take_turn` and the end of an invocation |
| `PostAnswer`, `PostFailure`, `PostRefused`, `Complete` | what is posted, if the room still takes it, and the request to complete the session that an answer may carry |
| `Replace`, `Revive`, `GiveUp`, `Escalate`, `Report`, `End` | the ladder: one replacement whose task wakes the room, then a drop and its escalation; the worker's end, in which it discards the cancel event and is alive for a while longer |
| `Raise` | anything raised in the thread of a worker, at any of its steps: it shows a phase, discards the cancel event and ends (`_run`) |
| `Message`, `Wake`, `Lookup`, `Join`, `Spawn`, `SpawnRefused` | a human message and `resume`: look at the CLIs and give up when one is not ready (`NotReady`), look up the worker, wait for a cancelled one, spawn under the lock |
| `Pause*`, `Resume*`, `Restart`, `CancelForRestart`, `JoinForRestart`, `RestartAgent`, `Unwind`, `Stop`, `StopWorker` | the control requests in the order they touch room, session and worker; both restarts look at the CLIs, `restart` before it cancels, `restart_participant` after it took the signal down |
| `CallRaises` | a request whose statement the database refuses |
| `Elsewhere`, `Crash` | whatever an outsider or the human does to the room from a terminal, of which the registry is not told; the death of the server |

`runner_workers` has one managed agent in a mixed team, two threads, two requests that may be
under way at once, or one and a crash (`MaxRequests` counts both), a limit of two failures,
joins that may time out and one step from elsewhere: 1.3 million states, two minutes. It
shows `SingleWorker`; `BreakerHolds` (until the human acts or the agent answers, an agent
fails at most twice its limit, and once more if a restart forgave a failure that was being
posted; an invocation that succeeds is an answer even when the room refuses its post);
`NobodyWaitsAlone` (while a managed agent has
the floor somebody is at work on it, or the human was told, or supervision ended in one of the
ways listed below; and no agent is dropped silently, unless its worker died over the
telling); and `FloorIsServed` (that agent is invoked in the end, unless the server died: no
fairness starts it again). Two threads are needed for a second worker and two
requests for each pair that race; a second agent only permutes the rows. Threads, and the
request threads, have no identity, so a new one is any that is free; a failure is of one of two
kinds, since the ladder treats a crash and a time-out alike, and a refusal by the sign-in as
one by the provider. Fairness: some worker goes on and some request does, and an invocation
ends, by its time-out at the latest (`Fairness`); it need not be the same thread each time,
and nothing has to be raised (`Raise`, `CallRaises`).

### Where the code leaves an agent waiting

`unheard` is set by each of these and taken back when a worker is started. `ReplyIsPickedUp`,
without it, fails: "once this reply returns the floor to a managed participant, pick the
durable session back up without asking the human to restart anything" (`ui/api.py`,
`message`).

* A worker that has left its loop but whose thread has not ended is found alive by `resume`
  (`managed.py:284`), which then does nothing (`SpawnRefused`, `Unwind`).
* `resume`, `restart` and `restart_participant` look at the agents' CLIs again (`managed.py:286`,
  `307`, `344`) and, when one is not ready any more, return its status and start no worker;
  nothing is escalated and nothing looks again when the CLI is back.
* A worker that raises ends with a phase only (`managed.py:447`): no escalation, and an
  escalation that was under way is lost (`lost`), with the agent dropped.
* A request the database refuses half way never gets to the registry.
* A message or a resume from a terminal, of which no registry is told.
* Half a pause cut by a crash: the resume is refused because the session was not paused,
  and the room goes on.
* A restart whose join timed out, which leaves the session "stopping".

The agent waits with the floor until the human asks again.

Also met: restarting one agent closes the open escalations of every agent (`docs/ui.md`
speaks of the one agent); a dropped agent is invoked again after any message; a post the
room refuses is no failure, so an agent whose answers are always refused is invoked again
with no breaker; and "exactly one supervisor decision per failure"
(`docs/updates/v0.4.2.md:112`) is not so when a restart comes between a failure and its
posting. Not modelled: the phases shown, budgets of usage, directives in an answer other than the
request to complete, and the session's own commands (`synchri session stop`) typed in
another process; the room's are.

### Proofs

`RunnerProofs.tla` proves, for any agents, threads, requests, limit and bounds:

* `OneWorker`: `Spec => []SingleWorker`. A thread is only started under the lock when none
  is alive, so it holds by itself, and every other argument is about the only worker.
* `NobodyIsForgotten`: `Spec => []NobodyWaitsAlone`. `Heard` makes it inductive: a cancel
  event is only set while the request that set it is under way, or the room or the session
  is not active, or the wait for the worker was given up; so a worker that ends because of
  it leaves somebody behind who starts the next. `Speaks` and `Settled` say whom a worker
  supervises and that a stop has ended the session before it cancels. It holds for CLIs that
  come and go and for workers that raise at any step, up to the list above.
* `RunnerRespectsFloor`: `Spec => [][F!Next]_room`. A worker posts long after it last
  looked; that it still takes a step of Floor needs `Speaks`, for a speaker that is managed,
  and the room's own test at the post. With `RoomImplementsFloor` it says that Runner
  assumes no more of a room than Room keeps.
* `BreakerStands`: `Spec => []BreakerHolds`. What an agent burnt is bounded twice, by its
  durable strikes and by those the worker counts (`Within`, `Burns`), each one short of a
  failure that a restart forgave while it was posted. The replacement is granted once and
  adds one limit (`Allowance`), at a moment when nothing of it can be spent yet. The bound
  is the same for every limit; the run checks it for two.

`FloorIsServed` needs fairness and is model-checked only.

## Connections

`Connections.tla` follows what Synchri knows of one agent CLI: the test a human starts,
cancels and repeats (`doctor.py`), the proof it stores in `runtime_connections`, the answer
to "is it still connected?", and the recovery of a managed agent, which uses the proof to
resume a provider session once and may complete it (`managed.py`). A test is a thread of
its own: `Probe`, `MakeSandbox`, `Launch` and the canary it launches (`Invoke`; `InvokePlain`,
asked again without a stream; `VerifyResume`, when `ProveResume` asks for one), `Save`, `Settle`,
`Close`, with a `Cancel` between any two. A cancel before a launch prevents it, one while a canary
runs ends its process, and one after the last canary is not looked at. Meanwhile the
human upgrades, moves, removes or signs the CLI in or out (`WorldMoves`), and a server ends
and comes back as a later release (`Crash`).

`connection_tests` has one server, two releases, two versions of the CLI at two paths, two
tests, one change of the world, one provider session and one crash: the least in which a
proof can be stale in each way and a test can meet the proof of another; 1.2 million states.
It shows `GreenStands` (a green that two complete probes agree on is of a CLI that answered as
it is installed, and nobody signed out since), `CancelKeepsProof` (a test cancelled while
one of its canaries is to be launched or runs, the one that proves a resume included, does
not reach the save and leaves the earlier proof, unless that canary had just run out of
time by itself), `ResumedOnce` (a provider session is resumed once, whatever fails, until a
completed turn tells its id again, be it the id that was just resumed) and `TestEnds` (a test
ends and leaves no sandbox). Fairness: a canary answers or runs out of time, and threads run.

The premises of `GreenStands` are where the code differs: `NoStaleGreen` fails. "Never a
silent stale green" (`doctor.py`, `connection_state`) needs both version probes to have
answered, since an unknown version is no reason, and the CLI not to be changed while it is
tested, since the facts are those of the probe before the canary. `CancelStoresNothing` fails
too: "a cancelled test stores nothing" (`doctor.py`, `run_connection_test`), but after the last
canary, or where no resume is to be proved, nothing looks at the cancel event again and the
result is stored; and a canary that had timed out when it was cancelled stores a failure. Also
met: a cancel after the last look at it leaves the phase "cancelling" on an ended test; and
the update by which a recovery verifies a resume may mark the record of a newer test. The
historian and the parsing of streams are not modelled.

### Proofs

`ConnectionsProofs.tla` proves, for any servers, releases, versions, tests and crashes:

* `GreenIsProved`: `Spec => []GreenStands`. What a green means is decided where the canary
  answers, long before the row is written and longer before anybody asks. The invariant
  follows the proof on that way: a test whose world stood still knows the CLI as it is,
  then an answer of that CLI (`Testing`), then the row does (`Stored`).
* `NeverResumedTwice`: `Spec => []ResumedOnce`, from `Spent`: a session that was resumed
  is no longer the agent's, whatever becomes of the turn, until a completed turn tells an id.
* `CancelledStoresNothing`: `Spec => []CancelKeepsProof`. From the cancel on, the event stays
  set while the test can still be stopped (`Halting`), so each launch and each canary that
  comes back sees it.

That the first start has a release, the least one, is the lemma `LeastNatural`.
`TestEnds` needs fairness and is model-checked only.

## Workspaces

`Workspaces.tla` follows what a session has outside its rows, a git worktree on a branch of
its own or the clone a planning session reads, and the files of its room, through the
creation of sessions (`manager.create` as the wizard calls it, `worktree.py`) and their
deletion (`delete_session`): one action per call of git and per transaction, and any work
in the trees in between (edit, commit, push, another branch checked out, a pruned upstream,
removal by hand).

| variable | code |
|---|---|
| `tree` | the worktrees and branches: on disk, branch, who made it, whether HEAD is on that branch, upstream, and when the oldest change not committed and the oldest commit not pushed were made (`work` counts) |
| `row`, `rooms`, `drafts` | the tables; `files`, `spaces`: the room's files and the planning clones on disk |
| `make` | the call that creates each session, with the name and strategy of its tree |
| `del` | the call that deletes it: what `git status` and `git rev-list` answered, when each was asked, and what was decided |
| `kept`, `excused`, `lost` | history: trees kept on purpose; sessions that a crash or a failed call left things of; what git had said of the work that went with a tree |

`session_workspaces` has two sessions, one name of the user's and one of Synchri's, and two
events from outside, each a piece of work or a crash (`MaxOutside`; 5.6 million states, a
minute and a half): two sessions can want the same name, select each other's tree and be
deleted at once. It shows `NothingIsLeft` (a refused or deleted session leaves at
most the tree that was kept) and `UserTreesStay`. Sessions are symmetric; the properties are
safety properties.

It also shows `WorkIsKept`. A deletion asks three questions of git (`status`, `@{upstream}`,
`rev-list`), each of which reads the tree at its own time and may fail; two pieces of work are
enough to make a tree safe and unsafe again between two of them. (One session with
five pieces of work was checked as well; the theorem below is for any number.)
When tree and branch go, no change goes that was there when `status` was
asked, and no commit that was there when `rev-list` was asked of this branch. A change made
after `status` and before `rev-list` may go (it is "late"); that a *commit* of such a change
is seen by `rev-list` is part of the property.

`excused` covers what the code does not clean up, and it is what `NothingIsLeft` does not
say: a `create_room` that fails after its commit leaves its rows; a tree whose validation
fails is not removed; a `git worktree add` that fails half way leaves its branch; the undoing
of a refused row stops where one of its own steps is refused, and leaves the rest; git does not
remove a tree or does not delete a branch that is checked out; a process ends between rows and disk.

### Promises that fail

* `HistoryIsKept` (`claim_history`): "remove a finished session from Synchri without ever losing git history"
  (`manager.py`, `delete_session`). Of an upstream whose ref was pruned, before the deletion or
  between its two calls, `rev-parse` prints the name it was given and `rev-list` nothing: the
  branch counts as pushed and goes with commits that are nowhere else.
* `BranchIsPushed`: the branch is deleted only if it "has an upstream with no unpushed
  commits". HEAD's upstream is asked, and the branch of the record is deleted by force: with
  another, pushed branch checked out in the worktree, the session's own goes unpushed.
* `LoserLeaksNothing`: the loser of a refused insert "must leak nothing". The rows of its room go
  in a transaction that the database which refused the row may refuse as well; then the room, its
  files, the tree and the workspace all stay.
* `SelectedTreesStay` (two sessions): "you selected it yourself, so Synchri never removes it"
  holds of the session that selected the tree, not of the tree, which goes with the session
  that made it.

Also met: git is called with `check=False`, so a `git status` that fails counts as clean and
a `rev-list` that fails as pushed, and a deletion reports the tree removed though git
refused. Failures of `rmtree`, which the code ignores, are not modelled.

### Proofs

`WorkspacesProofs.tla` proves, for any sessions, names, trees of the user's and bounds:

* `NothingLeaks`: `Spec => []NothingIsLeft`. The code keeps ownership only by the order of
  its calls, so the invariant says for each point of a creation or a deletion what the
  session may have there (`Owns`), unless it is excused; whoever is done has nothing.
* `NoWorkIsLost`: `Spec => []WorkIsKept`. What git answered stays true of what was there when it
  was asked (`Found`): from then on, a change or commit that the tree has is younger than the
  answer, through the steps of every session and any work in the tree.
* `UserTreesAreSafe`: `Spec => UserTreesStay`: the tree a session claims to have made was
  not the user's (`Claims`), since git refuses to make one where another is.

Two sessions that want one name are why each step also has to be shown harmless to the
others (`SessionStep`, `TreesOfOthersStay`).

## Records

`Records.tla` is the ground the other modules stand on: transactions of threads that share
a connection and of processes that share the database (`storage/db.py`), and what is kept
in files beside it: the shared memory ledger, edited under the write lock by `memory_write`
and `memory_remove` and without it after every handoff, the transcript, appended when the
block of the send has ended and rebuilt on demand, and the search index that follows the
messages.

A call is a record: the stage it is at, how deep it is in blocks (`depth`), whether the
transaction is its own (`outer`) and whether it is a send inside another transaction
(`wrapped`: `_send_phase_task`, which `_complete_original_work` and
`_complete_appendix_evaluation` call inside the transaction of the phase change). The send of a composed call ends its own block
(`Exit`, `depth` 2), writes its line (`AppendLine`) and only then does the outer block commit
or roll back. `Silent` are messages with no text, which a pass may be: the index skips them
and its watermark does not.

`room_records` has two threads of a server and a terminal, a ledger section of two entries,
three calls of which the second message has no text, and one end of a process: a shared
connection and a second process, and a third call while two are under way. It shows

* `SentIsKept`: a message whose call returned is committed, one whose call raised in its
  transaction is not, and one whose call raised after it is, whatever the other threads of
  the connection did (this is why an operation of the broker is one action in Room);
* `EditsAreSerial`: edits under the lock never cost each other an entry;
* `DerivedFollows`: a line that is no committed message is one that a send inside another
  transaction wrote (`early`), so a send that is a call of its own never leaves one; and the
  index has each message with a text up to the watermark once, although several threads and
  processes read the watermark and put messages at the same time;
* `SomebodyGoesOn`: threads and processes never all wait for each other.

What the code says and does not do:

* `MirrorAfterCommit` fails: "The mirror is written after the transaction
  commits" (`storage/transcript.py:7`). `Broker.send` runs its after-commit work when its own
  block has ended (`broker.py:691`), which inside another transaction is before the commit; a
  crash or a rollback there leaves a line of no message, until the next rebuild.
* `DurableLooksDurable` fails: a failure after the commit "must not make a
  successful, durable orchestration operation look like it failed" (`broker.py:2034`). Only
  `OSError` is caught (`broker.py:2042`); the ledger is read as UTF-8, and a file that is not
  raises out of the handoff of a send that is committed.
* `LedgerEditsSerialize` fails: the docstring of `memory_write` says that the write
  lock "serializes concurrent ledger edits between processes even though the ledger itself is
  a file" (`broker.py:1407`), but a handoff's writer loads and saves the file after its
  commit, outside any lock, and costs an edit its entry or loses its own.

Also met: `memory_remove` removes by the index the caller saw, which may be another entry by
then; a rebuild of the transcript that races a send drops its line or has it twice; a crash
between the save of the file and the commit leaves an entry with no event. Not modelled:
exceptions swallowed inside a nested block, a `COMMIT` that itself fails, the sections and
single values of the ledger, the other sources of the index, and the event stream of the UI,
whose page relies on reconnecting to heal a dropped connection and does not fetch what it
missed.

### Proofs

`RecordsProofs.tla` proves, for any threads, connections, calls and crashes:

* `SentIsKeptHolds`: `Spec => []SentIsKept`. Who is inside a block holds the lock of its
  connection and is the writer (`Locks`), its draft is what is committed and at most its own
  message (`Drafts`), and that message is not one that was seen before (`Fresh`, `Dated`,
  `Distinct`): so a commit adds this message and no other, and a rollback takes none back.
* `EditsAreSerialHolds`: `Spec => []EditsAreSerial`. Every call that has loaded the ledger
  remembers who saved it since (`since`); for a call under the lock that can only be the
  handoff of a send (`Copies`), and a copy that nobody overtook is the file as it is.
* `DerivedFollowsHolds`: `Spec => []DerivedFollows`. A thread about to write a line has a
  committed message unless it is inside another transaction (`Fresh`, `After`), and a rebuild
  has a copy of committed ones. The rows of the index keep what it should have, in the draft
  as in the database (`Follows`): a watermark that a search has read is still the one of its
  draft when it puts what is behind (`Drafts`), since nobody else is inside (`Locks`), and no
  message is there twice, since each is new when it is appended (`Fresh`).

`SomebodyGoesOn` speaks of `ENABLED` and is model-checked only.

## What the proofs rest on, and what they do not reach

Theorems hold for every value of the constants under the named `ASSUME` of each module,
which TLC evaluates in each run. Every module but the two abstract ones, Floor and
Promotion, has proofs, and every safety property of a passing run is proved but one,
`SomebodyGoesOn`, which speaks of `ENABLED`. Three theorems have a hypothesis of their own:
`FloorIsNotIdle` (`OneLimit`), the reviewer rule (everybody has joined) and
`CompletionIsRecorded` (`~CommitMayFail`); the sections say why each is needed.

Liveness under fairness (`DirectAddressServed`, `AgentsYieldTheRoom`, `EvaluationEnds`,
`ReservedIsFinished`, `LoopEnds`, `FloorIsServed`, `TestEnds`) and `ENABLED` are
model-checked only, since the prover has no rules for them. What a recursion over data
computes cannot be proved either, and no theorem depends on it: where an order needs a
first element, it comes from well-foundedness (`LeastNatural`) or is part of the
invariant (`Chain`).

## Not modelled

* Credentials and tokens: hashing, random ids and file modes keep no state beyond the one
  live invite per name that Room has.
* Provider output, prompts, subprocess and HTTP I/O, discovery and authentication: what
  they decide is a choice of an outcome in Runner and Connections.
* The tables of modes, permissions and policies, the wizard's forms, the command line, the
  desktop shell and the website: they render or parse, and hold no shared state whose
  order matters.
* Of modelled parts: the timebox, escalations and approved capabilities of a session,
  removal of a participant from a running session, optional gates, stopping a planning
  session and deleting a coordination session, `verify_workspace`, migrations of the
  database.

`PROJECT.json` gives the status of each component.
