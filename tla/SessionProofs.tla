--------------------------- MODULE SessionProofs ---------------------------
(***************************************************************************)
(* Proofs about Session, for any roster, any number of request threads,    *)
(* contract revisions and calls under way, with or without crashes.        *)
(*                                                                         *)
(* Three inductive invariants, each using the ones before it: Numbering    *)
(* (the revisions, the acknowledgments and what the calls carry of them),  *)
(* Agreement (what the status and the calls that will write it rest on)    *)
(* and Ending (a finished session, and the opening task of a live one).         *)
(***************************************************************************)
EXTENDS Session, TLAPS

(***************************************************************************)
(* Numbering.                                                              *)
(***************************************************************************)
\* What a call carries is no newer than the session, and a reply that is being
\* recorded carries the text of its revision.
Fits(x) ==
    /\ x.op = "contract" => x.revision <= session.revision + 1
    /\ x.op = "reply" => x.read <= session.revision
    /\ x.op = "acknowledge" => /\ x.revision <= session.revision
                               /\ x.row.text = contracts[x.revision]

CallsFit == \A c \in Callers : call[c] # None => Fits(call[c])

\* A worker that asks its agents has read a contract.
RunFits == run.stage = "agreeing" => run.read \in 1..session.revision

Numbering ==
    /\ TypeOK
    /\ RevisionsAreWritten
    /\ AckIsForItsText
    /\ CallsFit
    /\ RunFits

LEMMA CallParts ==
    ASSUME NEW x \in Call
    PROVE  /\ x # None
           /\ x.op = "configure" => x.terms \in Terms
           /\ x.op = "contract" => x.revision \in Revisions /\ x.text \in Terms
           /\ x.op = "reply" => x.who \in Agents /\ x.read \in Revisions
           /\ x.op = "acknowledge" => /\ x.who \in Agents /\ x.revision \in Revisions
                                      /\ x.row \in Acknowledgment
BY NoneAssumption DEF Call

LEMMA Simple ==
    ASSUME NEW op \in {"issue", "activate", "open", "pause", "paused", "resume", "resumed", "drive"}
    PROVE  Does(op) \in Call /\ Does(op).op = op
BY DEF Does, Call

\* A call moves on.
LEMMA Moves ==
    ASSUME call \in [Callers -> Call \cup {None}],
           NEW c \in Callers, NEW next \in Call \cup {None}, Goes(c, next)
    PROVE  /\ call' \in [Callers -> Call \cup {None}]
           /\ call'[c] = next
           /\ \A d \in Callers \ {c} : call'[d] = call[d]
BY DEF Goes

\* A step that leaves the contracts and the revision alone, and moves one call to
\* something that fits.
LEMMA QuietStep ==
    ASSUME Numbering, NEW c \in Callers, NEW next \in Call \cup {None}, Goes(c, next),
           next # None => Fits(next),
           session' \in [status : SessionStatus, revision : 0..MaxRevision, terms : Terms],
           session'.revision = session.revision,
           UNCHANGED <<contracts, acks>>,
           room' \in [status : {"active", "paused", "stopped"}, joined : SUBSET Agents, opened : BOOLEAN],
           run' \in ManagedRun, run' = run \/ RunFits',
           UNCHANGED agreed, unseen' \in BOOLEAN, overtaken' \in BOOLEAN, lost' \in BOOLEAN
    PROVE  Numbering'
<1>1. /\ call' \in [Callers -> Call \cup {None}]
      /\ call'[c] = next
      /\ \A d \in Callers \ {c} : call'[d] = call[d]
  BY Moves DEF Numbering, TypeOK
<1>2. TypeOK'
  BY <1>1 DEF Numbering, TypeOK
<1>3. RevisionsAreWritten' /\ AckIsForItsText'
  BY DEF Numbering, RevisionsAreWritten, AckIsForItsText
<1>4. CallsFit'
  BY <1>1 DEF Numbering, CallsFit, Fits
<1>5. RunFits'
  BY DEF Numbering, RunFits
<1> QED
  BY <1>2, <1>3, <1>4, <1>5 DEF Numbering

\* A step that leaves the calls alone, too.
LEMMA StillStep ==
    ASSUME Numbering, UNCHANGED <<session, contracts, acks, call, history>>,
           room' \in [status : {"active", "paused", "stopped"}, joined : SUBSET Agents, opened : BOOLEAN],
           run' \in ManagedRun, run' = run \/ RunFits'
    PROVE  Numbering'
<1>1. TypeOK'
  BY DEF Numbering, TypeOK, history
<1>2. RevisionsAreWritten' /\ AckIsForItsText' /\ CallsFit' /\ RunFits'
  BY DEF Numbering, RevisionsAreWritten, AckIsForItsText, CallsFit, Fits, RunFits
<1> QED
  BY <1>1, <1>2 DEF Numbering

LEMMA RunTypes ==
    /\ NoRun \in ManagedRun
    /\ \A s \in {"none", "attaching", "agreeing", "starting", "working"} :
          [NoRun EXCEPT !.stage = s] \in ManagedRun
<1>1. 0 \in 0..MaxRevision /\ {} \in SUBSET Agents /\ FALSE \in BOOLEAN
  BY RevisionAssumption
<1> QED
  BY <1>1 DEF NoRun, ManagedRun

LEMMA SpawnTypes ==
    ASSUME run \in ManagedRun, NEW s \in {"attaching", "working"}, Spawn(s)
    PROVE  run' \in ManagedRun /\ (run' = run \/ RunFits')
<1>1. [NoRun EXCEPT !.stage = s] \in ManagedRun /\ [NoRun EXCEPT !.stage = s].stage # "agreeing"
  BY RunTypes DEF NoRun
<1> QED
  BY <1>1 DEF Spawn, RunFits

\* The steps of a request thread.
LEMMA ThreadKeepsNumbering ==
    ASSUME Numbering, NEW c \in Threads,
           \/ UpdateConfiguration(c) \/ CommitConfiguration(c) \/ GenerateContract(c)
           \/ CheckActivation(c) \/ Finish(c)
           \/ ControlPause(c) \/ ReadForPause(c) \/ Pause(c)
           \/ ControlResume(c) \/ ReadForResume(c) \/ Resume(c) \/ ResumeRun(c)
    PROVE  Numbering'
<1>1. c \in Callers /\ TypeOK
  BY DEF Callers, Numbering
<1>2. \A op \in {"issue", "activate", "open", "pause", "paused", "resume", "resumed", "drive"} :
         /\ Does(op) \in Call \cup {None} /\ Does(op) # None /\ Fits(Does(op))
  BY Simple, CallParts DEF Fits
<1>3. None \in Call \cup {None}
  OBVIOUS
<1> USE <1>1
<1>4. CASE UpdateConfiguration(c)
  <2>1. PICK t \in Terms : Goes(c, [op |-> "configure", terms |-> t])
    BY <1>4 DEF UpdateConfiguration
  <2>2. [op |-> "configure", terms |-> t] \in Call /\ Fits([op |-> "configure", terms |-> t])
    BY DEF Call, Fits
  <2> QED
    BY <2>1, <2>2, <1>4, QuietStep DEF UpdateConfiguration, TypeOK, history, contract
<1>5. CASE CommitConfiguration(c)
  <2>1. call[c] \in Call /\ call[c].op = "configure"
    BY <1>5 DEF CommitConfiguration, At, TypeOK
  <2>2. call[c].terms \in Terms
    BY <2>1, CallParts
  <2> QED
    BY <2>2, <1>2, <1>5, QuietStep DEF CommitConfiguration, TypeOK, history, contract
<1>6. CASE GenerateContract(c)
  <2>1. CASE Ends(c)
    BY <2>1, <1>6, <1>3, QuietStep DEF GenerateContract, Ends, TypeOK, history, contract
  <2>2. CASE /\ session.revision < MaxRevision
             /\ Goes(c, [op |-> "contract", revision |-> session.revision + 1, text |-> session.terms])
    <3>1. session.revision + 1 \in Revisions /\ session.terms \in Terms
      BY <2>2, RevisionAssumption DEF TypeOK, Revisions
    <3> DEFINE x == [op |-> "contract", revision |-> session.revision + 1, text |-> session.terms]
    <3>2. x \in Call /\ Fits(x)
      BY <3>1, RevisionAssumption DEF Call, Fits, TypeOK
    <3>3. Goes(c, x)
      BY <2>2
    <3> HIDE DEF x
    <3> QED
      BY <3>2, <3>3, <1>6, QuietStep DEF GenerateContract, TypeOK, history, contract
  <2> QED
    BY <1>6, <2>1, <2>2 DEF GenerateContract
<1>7. CASE CheckActivation(c)
  BY <1>7, <1>2, QuietStep DEF CheckActivation, TypeOK, history, contract
<1>8. CASE Finish(c)
  <2>1. PICK s \in TERMINAL : SetStatus(c, s, session.revision)
    BY <1>8 DEF Finish
  <2>2. /\ session' \in [status : SessionStatus, revision : 0..MaxRevision, terms : Terms]
        /\ session'.revision = session.revision /\ overtaken' \in BOOLEAN
    BY <2>1 DEF SetStatus, Held, TypeOK, TERMINAL, SessionStatus
  <2>3. Goes(c, call[c]) /\ call[c] \in Call \cup {None} /\ (call[c] # None => Fits(call[c]))
    BY <1>8 DEF Finish, Goes, TypeOK, Numbering, CallsFit
  <2> QED
    BY <2>2, <2>3, <1>8, QuietStep DEF Finish, TypeOK, contract
<1>9. CASE ControlPause(c) \/ ControlResume(c)
  BY <1>9, <1>2, QuietStep DEF ControlPause, ControlResume, TypeOK, history, contract
<1>10. CASE ReadForPause(c) \/ ReadForResume(c)
  BY <1>10, <1>2, <1>3, QuietStep DEF ReadForPause, ReadForResume, TypeOK, history, contract
<1>11. CASE Pause(c) \/ Resume(c)
  <2>1. /\ session' \in [status : SessionStatus, revision : 0..MaxRevision, terms : Terms]
        /\ session'.revision = session.revision /\ overtaken' \in BOOLEAN
    BY <1>11 DEF Pause, Resume, Update, Held, TypeOK, SessionStatus
  <2> QED
    BY <2>1, <1>2, <1>3, <1>11, QuietStep DEF Pause, Resume, Ends, TypeOK, contract
<1>12. CASE ResumeRun(c)
  <2>1. run' \in ManagedRun /\ (run' = run \/ RunFits')
    BY <1>12, SpawnTypes DEF ResumeRun, TypeOK
  <2> QED
    BY <2>1, <1>3, <1>12, QuietStep DEF ResumeRun, Ends, TypeOK, history, contract
<1> QED
  BY <1>4, <1>5, <1>6, <1>7, <1>8, <1>9, <1>10, <1>11, <1>12


\* A contract that may be inserted is the next one: nothing was acknowledged under its
\* number, and what other calls carry stays within the new revision.
LEMMA IssueKeepsNumbering ==
    ASSUME Numbering, NEW c \in Threads, IssueContract(c)
    PROVE  Numbering'
<1>1. c \in Callers /\ TypeOK /\ call[c] \in Call /\ call[c].op = "contract"
  BY DEF Callers, Numbering, IssueContract, At, TypeOK
<1>2. PICK r : r = call[c].revision /\ r \in Revisions /\ call[c].text \in Terms
  BY <1>1, CallParts
<1>3. r <= session.revision + 1
  BY <1>1, <1>2, CallParts DEF Numbering, CallsFit, Fits
<1>4. CASE ~Insertable(r)
  BY <1>4, <1>1, <1>2, QuietStep DEF IssueContract, Ends, TypeOK, contract
<1>5. CASE Insertable(r)
  <2>1. r = session.revision + 1 /\ session.revision \in Nat /\ MaxRevision \in Nat
    BY <1>2, <1>3, <1>5, RevisionAssumption DEF Insertable, Numbering, RevisionsAreWritten, Revisions, TypeOK
  <2>2. /\ contracts' = [contracts EXCEPT ![r] = call[c].text]
        /\ acks' = [s \in Revisions |-> IF s >= r THEN [p \in Agents |-> None] ELSE acks[s]]
        /\ session' = [session EXCEPT !.status = "awaiting_ack", !.revision = r]
        /\ overtaken' = Held(c) /\ Goes(c, None)
        /\ UNCHANGED <<room, run, agreed, unseen, lost>>
    BY <1>2, <1>5 DEF IssueContract, SetStatus, Ends
  <2>3. /\ call' \in [Callers -> Call \cup {None}] /\ call'[c] = None
        /\ \A d \in Callers \ {c} : call'[d] = call[d]
    BY <1>1, <2>2, Moves DEF TypeOK
  <2>4. session'.revision = r /\ r \in 0..MaxRevision
    BY <1>2, <2>1, <2>2 DEF TypeOK, Revisions
  <2>5. \A s \in Revisions : contracts'[s] = IF s = r THEN call[c].text ELSE contracts[s]
    BY <1>1, <1>2, <2>2 DEF TypeOK
  <2>6. call[c].text # None
    BY <1>2, NoneAssumption
  <2>7. TypeOK'
    <3>1. session' \in [status : SessionStatus, revision : 0..MaxRevision, terms : Terms]
      BY <1>1, <2>2, <2>4 DEF TypeOK, SessionStatus
    <3>2. contracts' \in [Revisions -> Terms \cup {None}]
      BY <1>1, <1>2, <2>2 DEF TypeOK
    <3>3. acks' \in [Revisions -> [Agents -> Acknowledgment \cup {None}]]
      BY <1>1, <2>2 DEF TypeOK
    <3>4. overtaken' \in BOOLEAN
      BY <2>2 DEF Held
    <3> QED
      BY <1>1, <2>2, <2>3, <3>1, <3>2, <3>3, <3>4 DEF TypeOK
  <2>8. RevisionsAreWritten'
    BY <2>1, <2>4, <2>5, <2>6 DEF Numbering, RevisionsAreWritten, Revisions
  <2>9. AckIsForItsText'
    <3>1. ASSUME NEW s \in Revisions, NEW p \in Agents, acks'[s][p] # None
          PROVE  acks'[s][p].text = contracts'[s]
      <4>1. ~(s >= r) /\ acks'[s] = acks[s]
        BY <2>2, <3>1
      <4>2. s # r /\ contracts'[s] = contracts[s]
        BY <4>1, <2>5, <2>1 DEF Revisions
      <4> QED
        BY <3>1, <4>1, <4>2 DEF Numbering, AckIsForItsText
    <3> QED
      BY <3>1 DEF AckIsForItsText
  <2>10. CallsFit'
    <3>1. ASSUME NEW d \in Callers, call'[d] # None
          PROVE  Fits(call[d])'
      <4>1. d # c /\ call'[d] = call[d] /\ call[d] \in Call /\ Fits(call[d])
        BY <2>3, <3>1, <1>1 DEF Numbering, CallsFit, TypeOK
      <4>2. /\ call[d].op \in {"contract", "acknowledge"} => call[d].revision \in Nat
            /\ call[d].op = "reply" => call[d].read \in Nat
            /\ call[d].op = "acknowledge" => call[d].revision \in Revisions
        BY <4>1, CallParts DEF Revisions
      <4>3. call[d].op = "acknowledge" => contracts'[call[d].revision] = contracts[call[d].revision]
        BY <4>1, <4>2, <2>1, <2>5 DEF Fits
      <4> QED
        BY <4>1, <4>2, <4>3, <2>1, <2>4 DEF Fits, Revisions
    <3> QED
      BY <3>1 DEF CallsFit
  <2>11. RunFits'
    BY <2>1, <2>2, <2>4 DEF Numbering, RunFits
  <2> QED
    BY <2>7, <2>8, <2>9, <2>10, <2>11 DEF Numbering
<1> QED
  BY <1>4, <1>5

\* An acknowledgment is recorded under the revision it was read for.
LEMMA RecordKeepsNumbering ==
    ASSUME Numbering, NEW c \in Callers, RecordAcknowledgment(c)
    PROVE  Numbering'
<1>1. TypeOK /\ call[c] \in Call /\ call[c].op = "acknowledge"
  BY DEF Numbering, RecordAcknowledgment, At, TypeOK
<1>2. PICK p, r, row : /\ p = call[c].who /\ r = call[c].revision /\ row = call[c].row
                       /\ p \in Agents /\ r \in Revisions /\ row \in Acknowledgment
  BY <1>1, CallParts
<1>3. row.text = contracts[r]
  BY <1>1, <1>2, CallParts DEF Numbering, CallsFit, Fits
<1>4. acks[r] \in [Agents -> Acknowledgment \cup {None}] /\ acks[r][p] \in Acknowledgment \cup {None}
  BY <1>1, <1>2 DEF TypeOK
<1>5. PICK new : /\ new = IF acks[r][p] = None THEN row ELSE [row EXCEPT !.text = acks[r][p].text]
                 /\ acks' = [acks EXCEPT ![r][p] = new]
  BY <1>2 DEF RecordAcknowledgment
<1>6. new \in Acknowledgment /\ new.text = contracts[r] /\ new.accepted = row.accepted
  BY <1>2, <1>3, <1>4, <1>5 DEF Numbering, AckIsForItsText, Acknowledgment
<1>7. /\ call' \in [Callers -> Call \cup {None}] /\ call'[c] = None
      /\ \A d \in Callers \ {c} : call'[d] = call[d]
  BY <1>1, Moves DEF RecordAcknowledgment, Ends, TypeOK
<1>8. UNCHANGED <<session, contracts, room, overtaken, lost>>
  BY DEF RecordAcknowledgment
<1>9. run' \in ManagedRun /\ run'.stage = run.stage /\ run'.read = run.read
  BY <1>1, <1>2 DEF RecordAcknowledgment, TypeOK, ManagedRun, Acknowledgment
<1>10. acks' \in [Revisions -> [Agents -> Acknowledgment \cup {None}]]
  BY <1>1, <1>2, <1>5, <1>6 DEF TypeOK
<1>11. agreed' \subseteq Revisions \X Agents
  BY <1>1, <1>2 DEF RecordAcknowledgment, TypeOK
<1>12. unseen' \in BOOLEAN
  BY <1>1, <1>2 DEF RecordAcknowledgment, TypeOK, Acknowledgment
<1>13. TypeOK'
  BY <1>1, <1>7, <1>8, <1>9, <1>10, <1>11, <1>12 DEF TypeOK
<1>14. AckIsForItsText'
  <2>1. ASSUME NEW s \in Revisions, NEW q \in Agents
        PROVE  acks'[s][q] = IF s = r /\ q = p THEN new ELSE acks[s][q]
    BY <1>1, <1>2, <1>5 DEF TypeOK
  <2> QED
    BY <2>1, <1>6, <1>8 DEF Numbering, AckIsForItsText
<1>15. RevisionsAreWritten' /\ RunFits'
  BY <1>8, <1>9 DEF Numbering, RevisionsAreWritten, RunFits
<1>16. CallsFit'
  BY <1>7, <1>8 DEF Numbering, CallsFit, Fits
<1> QED
  BY <1>13, <1>14, <1>15, <1>16 DEF Numbering

\* Activation and the opening task, by anybody.
LEMMA ActivationKeepsNumbering ==
    ASSUME Numbering, NEW c \in Callers,
           CheckActivation(c) \/ Activate(c) \/ OpenCollaboration(c)
    PROVE  Numbering'
<1>1. TypeOK
  BY DEF Numbering
<1>2. \A op \in {"activate", "open", "drive"} :
         /\ Does(op) \in Call \cup {None} /\ Does(op) # None /\ Fits(Does(op))
  BY Simple, CallParts DEF Fits
<1>3. \A s \in {"active", "paused"} :
         Update(c, s) => /\ session' \in [status : SessionStatus, revision : 0..MaxRevision, terms : Terms]
                         /\ session'.revision = session.revision /\ overtaken' \in BOOLEAN
  BY <1>1 DEF Update, Held, TypeOK, SessionStatus
<1>4. CASE CheckActivation(c)
  BY <1>1, <1>2, <1>4, QuietStep DEF CheckActivation, TypeOK, history, contract
<1>5. CASE Activate(c)
  BY <1>1, <1>2, <1>3, <1>5, QuietStep DEF Activate, TypeOK, contract
<1>6. CASE OpenCollaboration(c)
  <2>1. CASE room.status # "stopped"
    <3>1. PICK next \in {None, Does("drive")} : Goes(c, next)
      BY <2>1, <1>6 DEF OpenCollaboration, Ends
    <3>2. run' \in ManagedRun /\ (run' = run \/ RunFits')
      BY <2>1, <1>1, <1>6 DEF OpenCollaboration, TypeOK, ManagedRun, RunFits
    <3>3. room' \in [status : {"active", "paused", "stopped"}, joined : SUBSET Agents, opened : BOOLEAN]
      BY <2>1, <1>1, <1>6 DEF OpenCollaboration, TypeOK
    <3> QED
      BY <2>1, <3>1, <3>2, <3>3, <1>1, <1>2, <1>6, QuietStep DEF OpenCollaboration, TypeOK, contract
  <2>2. CASE room.status = "stopped"
    <3>1. run' \in {NoRun, run} /\ NoRun \in ManagedRun /\ NoRun.stage # "agreeing"
      BY <2>2, <1>6, RunTypes DEF OpenCollaboration, NoRun
    <3>2. run' \in ManagedRun /\ (run' = run \/ RunFits')
      BY <3>1, <1>1 DEF TypeOK, RunFits
    <3> QED
      BY <2>2, <3>2, <1>1, <1>3, <1>6, QuietStep DEF OpenCollaboration, Ends, TypeOK, contract
  <2> QED
    BY <2>1, <2>2
<1> QED
  BY <1>4, <1>5, <1>6

\* A reply is recorded for the current revision, with the text it has now.
LEMMA AcknowledgeKeepsNumbering ==
    ASSUME Numbering, NEW c \in Callers, Acknowledge(c)
    PROVE  Numbering'
<1>1. TypeOK /\ call[c] \in Call /\ call[c].op = "reply"
  BY DEF Numbering, Acknowledge, At, TypeOK
<1>2. call[c].who \in Agents /\ call[c].read \in Revisions /\ call[c].read <= session.revision
  BY <1>1, CallParts DEF Numbering, CallsFit, Fits
<1>3. session.revision \in Revisions
  BY <1>1, <1>2 DEF Revisions, TypeOK
<1>4. contracts[session.revision] \in Terms
  BY <1>1, <1>3 DEF Numbering, RevisionsAreWritten, TypeOK, Revisions
<1>5. PICK ok \in BOOLEAN :
        Goes(c, [op |-> "acknowledge", who |-> call[c].who, revision |-> session.revision,
                 row |-> [accepted |-> ok, text |-> contracts[session.revision]],
                 read |-> call[c].read])
  BY DEF Acknowledge
<1>6. PICK x : x = [op |-> "acknowledge", who |-> call[c].who, revision |-> session.revision,
                    row |-> [accepted |-> ok, text |-> contracts[session.revision]],
                    read |-> call[c].read]
  OBVIOUS
<1>7. x \in Call /\ Goes(c, x)
  BY <1>2, <1>3, <1>4, <1>5, <1>6 DEF Call, Acknowledgment
<1>8. Fits(x)
  BY <1>3, <1>6 DEF Fits, Revisions
<1> QED
  BY <1>1, <1>7, <1>8, QuietStep DEF Acknowledge, TypeOK, history, contract

\* The steps of an agent, of the worker, and a crash.
LEMMA AgentKeepsNumbering ==
    ASSUME Numbering, NEW p \in Agents, JoinRoom(p) \/ AskAgent(p) \/ ReadContract(p)
    PROVE  Numbering'
<1>1. TypeOK /\ p \in Callers /\ Worker \in Callers
  BY DEF Numbering, Callers
<1>2. \A n \in 1..session.revision :
         /\ [op |-> "reply", who |-> p, read |-> n] \in Call
         /\ Fits([op |-> "reply", who |-> p, read |-> n])
  <2>1. ASSUME NEW n \in 1..session.revision
        PROVE  n \in Revisions /\ n <= session.revision
    BY <2>1, <1>1, RevisionAssumption DEF Revisions, TypeOK
  <2> QED
    BY <2>1 DEF Call, Fits
<1>3. CASE JoinRoom(p)
  BY <1>1, <1>3, StillStep DEF JoinRoom, TypeOK, contract
<1>4. CASE ReadContract(p)
  <2>1. session.revision \in 1..session.revision
    BY <1>1, <1>4 DEF ReadContract, TypeOK
  <2> DEFINE x == [op |-> "reply", who |-> p, read |-> session.revision]
  <2>2. x \in Call /\ Fits(x) /\ Goes(p, x)
    BY <2>1, <1>2, <1>4 DEF ReadContract
  <2> HIDE DEF x
  <2> QED
    BY <2>2, <1>1, <1>4, QuietStep DEF ReadContract, TypeOK, history, contract
<1>5. CASE AskAgent(p)
  <2>1. run.read \in 1..session.revision
    BY <1>5 DEF AskAgent, Numbering, RunFits
  <2> DEFINE x == [op |-> "reply", who |-> p, read |-> run.read]
  <2>2. x \in Call /\ Fits(x)
    BY <2>1, <1>2
  <2>3. CASE p \in room.joined \/ room.status # "stopped"
    <3>1. Goes(Worker, x) /\ UNCHANGED run
      BY <2>3, <1>5 DEF AskAgent
    <3>2. room' \in [status : {"active", "paused", "stopped"}, joined : SUBSET Agents, opened : BOOLEAN]
      BY <2>3, <1>1, <1>5 DEF AskAgent, TypeOK
    <3> HIDE DEF x
    <3> QED
      BY <2>2, <3>1, <3>2, <1>1, <1>5, QuietStep DEF AskAgent, TypeOK, history, contract
  <2>4. CASE ~(p \in room.joined \/ room.status # "stopped")
    <3>1. run' = [run EXCEPT !.failed = TRUE, !.todo = run.todo \ {p}] /\ UNCHANGED <<room, call>>
      BY <2>4, <1>5 DEF AskAgent
    <3>2. run' \in ManagedRun /\ RunFits'
      BY <3>1, <2>1, <1>1, <1>5 DEF AskAgent, RunFits, TypeOK, ManagedRun
    <3> QED
      BY <3>1, <3>2, <1>1, <1>5, StillStep DEF AskAgent, TypeOK, contract
  <2> QED
    BY <2>3, <2>4
<1> QED
  BY <1>3, <1>4, <1>5

LEMMA WorkerKeepsNumbering ==
    ASSUME Numbering,
           \/ StartManaged \/ AttachBegins \/ InvocationFails \/ AttachEnds
           \/ WorkerActivates \/ WorkerRefused \/ RunEnds \/ Crash
    PROVE  Numbering'
<1>1. TypeOK /\ Worker \in Callers
  BY DEF Numbering, Callers
<1>2. CASE StartManaged
  <2>1. PICK s \in {"attaching", "working"} : Spawn(s)
    BY <1>2 DEF StartManaged
  <2>2. run' \in ManagedRun /\ (run' = run \/ RunFits')
    BY <2>1, <1>1, SpawnTypes DEF TypeOK
  <2> QED
    BY <2>2, <1>1, <1>2, StillStep DEF StartManaged, TypeOK, contract
<1>3. CASE AttachBegins
  <2>1. ManagedPlans \ Accepted(session.revision) \in SUBSET Agents
    BY AgentsAssumption DEF ManagedPlans
  <2>2. CASE session.revision = 0
    BY <2>2, <1>1, <1>3, RunTypes, StillStep DEF AttachBegins, NoRun, RunFits, TypeOK, contract
  <2>3. CASE session.revision # 0
    <3>1. run' = [run EXCEPT !.stage = "agreeing", !.read = session.revision,
                             !.todo = ManagedPlans \ Accepted(session.revision)]
      BY <2>3, <1>3 DEF AttachBegins
    <3>2. run' \in ManagedRun /\ run'.read = session.revision
      BY <3>1, <2>1, <1>1 DEF TypeOK, ManagedRun
    <3>3. RunFits'
      BY <3>2, <2>3, <1>1, <1>3 DEF AttachBegins, RunFits, TypeOK
    <3> QED
      BY <3>2, <3>3, <1>1, <1>3, StillStep DEF AttachBegins, TypeOK, contract
  <2> QED
    BY <2>2, <2>3
<1>4. CASE InvocationFails
  <2>1. call[Worker] \in Call /\ call[Worker].who \in Agents
    BY <1>1, <1>4, CallParts DEF InvocationFails, At, TypeOK
  <2>2. run' \in ManagedRun /\ (run' = run \/ RunFits')
    <3>1. CASE run' = NoRun
      BY <3>1, RunTypes DEF NoRun, RunFits
    <3>2. CASE run' = [run EXCEPT !.failed = TRUE, !.todo = run.todo \ {call[Worker].who}]
      BY <3>2, <1>1, <1>4 DEF InvocationFails, TypeOK, ManagedRun, Numbering, RunFits
    <3> QED
      BY <3>1, <3>2, <1>4 DEF InvocationFails
  <2> QED
    BY <2>2, <1>1, <1>4, QuietStep DEF InvocationFails, Ends, TypeOK, history, contract
<1>5. CASE AttachEnds \/ WorkerRefused \/ RunEnds
  <2>1. run' \in ManagedRun /\ (run' = run \/ RunFits')
    <3>1. run' \in {NoRun, [NoRun EXCEPT !.stage = "starting"], [run EXCEPT !.stage = "working"]}
      BY <1>5 DEF AttachEnds, WorkerRefused, RunEnds
    <3> QED
      BY <3>1, <1>1, RunTypes DEF TypeOK, ManagedRun, NoRun, RunFits
  <2> QED
    BY <2>1, <1>1, <1>5, StillStep DEF AttachEnds, WorkerRefused, RunEnds, TypeOK, contract
<1>6. CASE WorkerActivates
  BY <1>1, <1>6, ActivationKeepsNumbering DEF WorkerActivates
<1>7. CASE Crash
  <2>1. call' = [c \in Callers |-> IF c \in Agents THEN call[c] ELSE None] /\ run' = NoRun
    BY <1>7 DEF Crash
  <2>2. UNCHANGED <<session, contracts, acks, room, agreed, unseen, overtaken>>
    BY <1>7 DEF Crash, contract
  <2>3. lost' \in BOOLEAN
    BY <1>7 DEF Crash
  <2>4. TypeOK'
    BY <2>1, <2>2, <2>3, <1>1, RunTypes DEF TypeOK
  <2>5. CallsFit'
    BY <2>1, <2>2 DEF Numbering, CallsFit, Fits
  <2>6. RevisionsAreWritten' /\ AckIsForItsText' /\ RunFits'
    BY <2>1, <2>2 DEF Numbering, RevisionsAreWritten, AckIsForItsText, RunFits, NoRun
  <2> QED
    BY <2>4, <2>5, <2>6 DEF Numbering
<1> QED
  BY <1>2, <1>3, <1>4, <1>5, <1>6, <1>7

\* Nothing is written yet.
LEMMA InitNumbering == Init => Numbering
<1> SUFFICES ASSUME Init PROVE Numbering
  OBVIOUS
<1>1. PICK c \in Threads : call = [d \in Callers |-> IF d = c THEN Does("issue") ELSE None]
  BY DEF Init
<1>2. Does("issue") \in Call /\ Does("issue").op = "issue"
  BY Simple
<1>3. 0 \in 0..MaxRevision /\ session.revision = 0
  BY RevisionAssumption DEF Init
<1>4. TypeOK
  <2>1. session \in [status : SessionStatus, revision : 0..MaxRevision, terms : Terms]
    BY <1>3 DEF Init, SessionStatus
  <2>2. call \in [Callers -> Call \cup {None}]
    BY <1>1, <1>2
  <2> QED
    BY <2>1, <2>2, RunTypes DEF Init, TypeOK
<1>5. CallsFit
  BY <1>1, <1>2 DEF CallsFit, Fits
<1>6. RevisionsAreWritten
  BY <1>3 DEF Init, RevisionsAreWritten, Revisions
<1>7. AckIsForItsText /\ RunFits
  BY DEF Init, AckIsForItsText, RunFits, NoRun
<1> QED
  BY <1>4, <1>5, <1>6, <1>7 DEF Numbering

LEMMA NextNumbering == Numbering /\ [Next]_vars => Numbering'
<1> SUFFICES ASSUME Numbering, [Next]_vars PROVE Numbering'
  OBVIOUS
<1>1. CASE UNCHANGED vars
  <2>1. TypeOK'
    BY <1>1 DEF vars, Numbering, TypeOK
  <2>2. RevisionsAreWritten' /\ AckIsForItsText' /\ CallsFit' /\ RunFits'
    BY <1>1 DEF vars, Numbering, RevisionsAreWritten, AckIsForItsText, CallsFit, Fits, RunFits
  <2> QED
    BY <2>1, <2>2 DEF Numbering
<1>2. ASSUME NEW c \in Threads,
             \/ UpdateConfiguration(c) \/ CommitConfiguration(c) \/ GenerateContract(c) \/ IssueContract(c)
             \/ CheckActivation(c) \/ Finish(c)
             \/ ControlPause(c) \/ ReadForPause(c) \/ Pause(c)
             \/ ControlResume(c) \/ ReadForResume(c) \/ Resume(c) \/ ResumeRun(c)
      PROVE  Numbering'
  BY <1>2, ThreadKeepsNumbering, IssueKeepsNumbering
<1>3. ASSUME NEW c \in Callers,
             Acknowledge(c) \/ RecordAcknowledgment(c) \/ Activate(c) \/ OpenCollaboration(c)
      PROVE  Numbering'
  BY <1>3, AcknowledgeKeepsNumbering, RecordKeepsNumbering, ActivationKeepsNumbering
<1>4. ASSUME NEW p \in Agents, JoinRoom(p) \/ AskAgent(p) \/ ReadContract(p)
      PROVE  Numbering'
  BY <1>4, AgentKeepsNumbering
<1>5. CASE \/ StartManaged \/ AttachBegins \/ InvocationFails \/ AttachEnds
           \/ WorkerActivates \/ WorkerRefused \/ RunEnds \/ Crash
  BY <1>5, WorkerKeepsNumbering
<1> QED
  BY <1>1, <1>2, <1>3, <1>4, <1>5 DEF Next

\* The inductive invariant: what every call that is under way carries still fits the rows.
THEOREM SessionNumbering == Spec => []Numbering
BY InitNumbering, NextNumbering, PTL DEF Spec

\* Every variable keeps its type, whatever the interleaving of the calls.
THEOREM SessionTypes == Spec => []TypeOK
<1>1. Numbering => TypeOK
  BY DEF Numbering
<1> QED
  BY <1>1, SessionNumbering, PTL

\* Contract revisions have no gap, although issue_contract computes the next number
\* outside its transaction: a number that is taken is refused, so one that is inserted is next.
THEOREM RevisionsNumbered == Spec => []RevisionsAreWritten
<1>1. Numbering => RevisionsAreWritten
  BY DEF Numbering
<1> QED
  BY <1>1, SessionNumbering, PTL

\* An acknowledgment always has the digest of the contract it is filed under, even when
\* it is recorded after the next contract was issued.
THEOREM AcknowledgedText == Spec => []AckIsForItsText
<1>1. Numbering => AckIsForItsText
  BY DEF Numbering
<1> QED
  BY <1>1, SessionNumbering, PTL

(***************************************************************************)
(* Contracts stand.                                                        *)
(***************************************************************************)
\* What every step but the issue of a contract leaves alone.
LEMMA OthersLeaveContracts ==
    ASSUME Numbering, [Next]_vars, ~\E c \in Threads : IssueContract(c)
    PROVE  UNCHANGED contracts /\ session'.revision = session.revision
<1>1. TypeOK
  BY DEF Numbering
<1>2. CASE UNCHANGED vars
  BY <1>2 DEF vars
<1>3. ASSUME NEW c \in Threads,
             \/ UpdateConfiguration(c) \/ CommitConfiguration(c) \/ GenerateContract(c)
             \/ CheckActivation(c) \/ Finish(c)
             \/ ControlPause(c) \/ ReadForPause(c) \/ Pause(c)
             \/ ControlResume(c) \/ ReadForResume(c) \/ Resume(c) \/ ResumeRun(c)
      PROVE  UNCHANGED contracts /\ session'.revision = session.revision
  BY <1>1, <1>3 DEF TypeOK, contract, UpdateConfiguration, CommitConfiguration, GenerateContract,
     CheckActivation, Finish, SetStatus, ControlPause, ReadForPause, Pause, Update, ControlResume,
     ReadForResume, Resume, ResumeRun
<1>4. ASSUME NEW c \in Callers,
             Acknowledge(c) \/ RecordAcknowledgment(c) \/ Activate(c) \/ OpenCollaboration(c)
      PROVE  UNCHANGED contracts /\ session'.revision = session.revision
  BY <1>1, <1>4 DEF TypeOK, contract, Acknowledge, RecordAcknowledgment, Activate, OpenCollaboration, Update
<1>5. ASSUME NEW p \in Agents, JoinRoom(p) \/ AskAgent(p) \/ ReadContract(p)
      PROVE  UNCHANGED contracts /\ session'.revision = session.revision
  BY <1>5 DEF contract, JoinRoom, AskAgent, ReadContract
<1>6. CASE \/ StartManaged \/ AttachBegins \/ InvocationFails \/ AttachEnds
           \/ WorkerActivates \/ WorkerRefused \/ RunEnds \/ Crash
  BY <1>6 DEF contract, StartManaged, AttachBegins, InvocationFails, AttachEnds, WorkerActivates,
     CheckActivation, WorkerRefused, RunEnds, Crash
<1> QED
  BY <1>2, <1>3, <1>4, <1>5, <1>6 DEF Next

LEMMA IssueKeepsContracts ==
    ASSUME Numbering, NEW c \in Threads, IssueContract(c)
    PROVE  /\ session'.revision >= session.revision
           /\ \A r \in Revisions : contracts[r] # None => contracts'[r] = contracts[r]
<1>1. TypeOK /\ session.revision \in Nat
  BY DEF Numbering, TypeOK
<1>2. CASE UNCHANGED <<session, contracts>>
  BY <1>1, <1>2
<1>3. CASE Insertable(call[c].revision)
  <2>1. PICK r \in Revisions : r = call[c].revision
    BY <1>1, CallParts DEF Callers, IssueContract, At, TypeOK
  <2>2. /\ contracts' = [contracts EXCEPT ![r] = call[c].text] /\ contracts[r] = None
        /\ session'.revision = r
    BY <1>1, <1>3, <2>1 DEF IssueContract, SetStatus, Insertable, TypeOK
  <2>3. r > session.revision
    BY <1>1, <2>1, <2>2 DEF Numbering, RevisionsAreWritten, Revisions
  <2> QED
    BY <1>1, <2>2, <2>3 DEF TypeOK, Revisions
<1> QED
  BY <1>2, <1>3 DEF IssueContract, contract

\* A contract's text never changes and the revision never goes back: an agreement cannot
\* come to stand for other terms.
THEOREM ContractsStand == Spec => ContractStands
<1>1. ASSUME Numbering, [Next]_vars
      PROVE  /\ session'.revision >= session.revision
             /\ \A r \in Revisions : contracts[r] # None => contracts'[r] = contracts[r]
  <2>1. session.revision \in Nat
    BY <1>1 DEF Numbering, TypeOK
  <2>2. CASE \E c \in Threads : IssueContract(c)
    BY <1>1, <2>2, IssueKeepsContracts
  <2>3. CASE ~\E c \in Threads : IssueContract(c)
    BY <1>1, <2>1, <2>3, OthersLeaveContracts
  <2> QED
    BY <2>2, <2>3
<1> QED
  BY <1>1, SessionNumbering, PTL DEF Spec, ContractStands

(***************************************************************************)
(* Agreement.                                                              *)
(***************************************************************************)
\* Calls that have read, or written, that the session is at work or may go to work.
Resting == {"activate", "open", "paused", "resumed"}

Standing == session.status \in {"active", "paused"} \/ \E c \in Callers : call[c] # None /\ call[c].op \in Resting

AcceptanceIsRecorded == \A r \in Revisions, p \in Agents :
    acks[r][p] # None /\ acks[r][p].accepted => <<r, p>> \in agreed

Agreement ==
    /\ AcceptanceIsRecorded
    /\ Standing => \E r \in 1..session.revision : Unanimous(r)
    /\ Standing /\ ~overtaken => session.revision > 0 /\ Unanimous(session.revision)

\* A step that issues nothing and goes to work only where the session already is.
LEMMA KeepsAgreement ==
    ASSUME Agreement, UNCHANGED <<acks, agreed>>, session'.revision = session.revision,
           Standing' => Standing, Standing' /\ ~overtaken' => ~overtaken
    PROVE  Agreement'
BY DEF Agreement, AcceptanceIsRecorded, Unanimous

\* A call that moves on without resting on the status does not make the session stand.
LEMMA MoveStands ==
    ASSUME TypeOK, NEW c \in Callers, NEW next \in Call \cup {None}, Goes(c, next),
           next # None => next.op \notin Resting,
           session'.status = session.status \/ session'.status \notin {"active", "paused"}
    PROVE  Standing' => Standing
<1>1. call'[c] = next /\ \A d \in Callers \ {c} : call'[d] = call[d]
  BY Moves DEF TypeOK
<1> QED
  BY <1>1 DEF Standing

\* Whoever activates has seen that everybody accepted the revision.
LEMMA ActivationIsAgreed ==
    ASSUME Numbering, Agreement, MayActivate
    PROVE  session.revision > 0 /\ Unanimous(session.revision) /\ session.revision \in 1..session.revision
<1>1. session.revision \in Revisions /\ session.revision > 0
  BY DEF MayActivate, Numbering, TypeOK, Revisions
<1>2. \A p \in Agents : <<session.revision, p>> \in agreed
  BY <1>1 DEF MayActivate, Accepted, Agreement, AcceptanceIsRecorded
<1> QED
  BY <1>1, <1>2 DEF Unanimous, Revisions

LEMMA CheckKeepsAgreement ==
    ASSUME Numbering, Agreement, NEW c \in Callers, CheckActivation(c)
    PROVE  Agreement'
<1>1. UNCHANGED <<session, contracts, acks, agreed, overtaken>>
  BY DEF CheckActivation, contract, history
<1>2. CASE MayActivate
  BY <1>1, <1>2, ActivationIsAgreed DEF Agreement, AcceptanceIsRecorded, Unanimous
<1>3. CASE session.status = "active"
  BY <1>1, <1>3, KeepsAgreement DEF Standing
<1> QED
  BY <1>2, <1>3 DEF CheckActivation

LEMMA ThreadKeepsAgreement ==
    ASSUME Numbering, Agreement, NEW c \in Threads,
           \/ UpdateConfiguration(c) \/ CommitConfiguration(c) \/ GenerateContract(c) \/ Finish(c)
           \/ ControlPause(c) \/ ReadForPause(c) \/ Pause(c)
           \/ ControlResume(c) \/ ReadForResume(c) \/ Resume(c) \/ ResumeRun(c)
    PROVE  Agreement'
<1>1. TypeOK /\ c \in Callers
  BY DEF Numbering, Callers
<1>2. \A op \in {"issue", "pause", "resume", "drive"} :
         Does(op) \in Call \cup {None} /\ Does(op).op \notin Resting
  BY Simple DEF Resting
<1>3. None \in Call \cup {None}
  OBVIOUS
<1>4. CASE UpdateConfiguration(c)
  <2>1. PICK t \in Terms : Goes(c, [op |-> "configure", terms |-> t])
    BY <1>4 DEF UpdateConfiguration
  <2>2. [op |-> "configure", terms |-> t] \in Call \cup {None}
    BY DEF Call
  <2>3. Standing' => Standing
    BY <2>1, <2>2, <1>1, <1>4, MoveStands DEF UpdateConfiguration, Resting
  <2> QED
    BY <2>3, <1>4, KeepsAgreement DEF UpdateConfiguration, contract, history
<1>5. CASE CommitConfiguration(c)
  <2>1. session'.status = session.status /\ session'.revision = session.revision
    BY <1>1, <1>5 DEF CommitConfiguration, TypeOK
  <2>2. Standing' => Standing
    BY <2>1, <1>1, <1>2, <1>5, MoveStands DEF CommitConfiguration
  <2> QED
    BY <2>1, <2>2, <1>5, KeepsAgreement DEF CommitConfiguration, contract, history
<1>6. CASE GenerateContract(c)
  <2>1. Standing' => Standing
    <3>1. CASE Ends(c)
      BY <3>1, <1>1, <1>3, <1>6, MoveStands DEF GenerateContract, Ends
    <3>2. CASE /\ session.revision < MaxRevision
               /\ Goes(c, [op |-> "contract", revision |-> session.revision + 1, text |-> session.terms])
      <4>1. session.revision + 1 \in Revisions /\ session.terms \in Terms
        BY <3>2, <1>1, RevisionAssumption DEF TypeOK, Revisions
      <4> DEFINE x == [op |-> "contract", revision |-> session.revision + 1, text |-> session.terms]
      <4>2. x \in Call /\ x.op \notin Resting /\ Goes(c, x)
        BY <4>1, <3>2 DEF Call, Resting
      <4> HIDE DEF x
      <4> QED
        BY <4>2, <1>1, <1>6, MoveStands DEF GenerateContract
    <3> QED
      BY <3>1, <3>2, <1>6 DEF GenerateContract
  <2> QED
    BY <2>1, <1>6, KeepsAgreement DEF GenerateContract, contract, history
<1>7. CASE Finish(c)
  <2>1. PICK s \in TERMINAL : SetStatus(c, s, session.revision)
    BY <1>7 DEF Finish
  <2>2. session'.status \notin {"active", "paused"} /\ session'.revision = session.revision
    BY <2>1, <1>1 DEF SetStatus, TERMINAL, TypeOK
  <2>3. UNCHANGED <<acks, agreed, call>> /\ call[c] = None
    BY <1>7 DEF Finish, contract, Begins
  <2>4. Standing' => Standing
    BY <2>2, <2>3 DEF Standing
  <2>5. Standing' => overtaken'
    BY <2>1, <2>2, <2>3 DEF Standing, SetStatus, Held, Holding, Resting
  <2> QED
    BY <2>2, <2>3, <2>4, <2>5, KeepsAgreement
<1>8. CASE ControlPause(c) \/ ControlResume(c)
  <2>1. Standing' => Standing
    BY <1>1, <1>2, <1>8, MoveStands DEF ControlPause, ControlResume
  <2> QED
    BY <2>1, <1>8, KeepsAgreement DEF ControlPause, ControlResume, contract, history
<1>9. CASE ReadForPause(c) \/ ReadForResume(c)
  <2>1. CASE Goes(c, None)
    BY <2>1, <1>1, <1>3, <1>9, MoveStands, KeepsAgreement DEF ReadForPause, ReadForResume, contract, history
  <2>2. CASE ~Goes(c, None)
    <3>1. Standing
      BY <2>2, <1>9 DEF ReadForPause, ReadForResume, Standing
    <3> QED
      BY <3>1, <1>9, KeepsAgreement DEF ReadForPause, ReadForResume, contract, history
  <2> QED
    BY <2>1, <2>2
<1>10. CASE Pause(c) \/ Resume(c)
  <2>1. Standing
    BY <1>1, <1>10 DEF Pause, Resume, At, Standing, Resting
  <2>2. session'.revision = session.revision /\ (~overtaken' => ~overtaken)
    BY <1>1, <1>10 DEF Pause, Resume, Update, TypeOK
  <2> QED
    BY <2>1, <2>2, <1>10, KeepsAgreement DEF Pause, Resume, contract
<1>11. CASE ResumeRun(c)
  <2>1. Standing' => Standing
    BY <1>1, <1>3, <1>11, MoveStands DEF ResumeRun, Ends
  <2> QED
    BY <2>1, <1>11, KeepsAgreement DEF ResumeRun, contract, history
<1> QED
  BY <1>4, <1>5, <1>6, <1>7, <1>8, <1>9, <1>10, <1>11

\* A new revision waits for its acknowledgments; a call that still rests on the status
\* before it has been overtaken.
LEMMA IssueKeepsAgreement ==
    ASSUME Numbering, Agreement, NEW c \in Threads, IssueContract(c)
    PROVE  Agreement'
<1>1. TypeOK /\ c \in Callers /\ UNCHANGED agreed
  BY DEF Numbering, Callers, IssueContract
<1>2. Goes(c, None) /\ call'[c] = None /\ \A d \in Callers \ {c} : call'[d] = call[d]
  BY <1>1, Moves DEF IssueContract, Ends, TypeOK
<1>3. CASE UNCHANGED <<session, contract, overtaken>>
  <2>1. Standing' => Standing
    BY <1>1, <1>2, <1>3, MoveStands
  <2> QED
    BY <2>1, <1>1, <1>3, KeepsAgreement DEF contract
<1>4. CASE ~UNCHANGED <<session, contract, overtaken>>
  <2>1. PICK r \in Revisions : r = call[c].revision
    BY <1>1, CallParts DEF IssueContract, At, TypeOK
  <2>2. /\ acks' = [s \in Revisions |-> IF s >= r THEN [p \in Agents |-> None] ELSE acks[s]]
        /\ session' = [session EXCEPT !.status = "awaiting_ack", !.revision = r]
        /\ overtaken' = Held(c)
    BY <2>1, <1>4 DEF IssueContract, SetStatus
  <2>3. session'.status = "awaiting_ack"
    BY <2>2, <1>1 DEF TypeOK
  <2>4. Standing' => Standing /\ overtaken'
    BY <2>2, <2>3, <1>2 DEF Standing, Held, Holding, Resting
  <2>5. AcceptanceIsRecorded'
    BY <2>2, <1>1 DEF Agreement, AcceptanceIsRecorded
  <2>6. session'.revision >= session.revision /\ session'.revision \in Nat /\ session.revision \in Nat
    BY <2>1, <2>2, <1>1, IssueKeepsContracts DEF TypeOK, Revisions
  <2>7. Standing' => \E s \in 1..session'.revision : Unanimous(s)'
    BY <2>4, <2>6, <1>1 DEF Agreement, Unanimous
  <2> QED
    BY <2>4, <2>5, <2>7 DEF Agreement
<1> QED
  BY <1>3, <1>4

LEMMA CallerKeepsAgreement ==
    ASSUME Numbering, Agreement, NEW c \in Callers,
           Acknowledge(c) \/ RecordAcknowledgment(c) \/ Activate(c) \/ OpenCollaboration(c)
    PROVE  Agreement'
<1>1. TypeOK
  BY DEF Numbering
<1>2. None \in Call \cup {None}
  OBVIOUS
<1>3. CASE Acknowledge(c)
  <2>1. \A d \in Callers : call'[d] = call[d] \/ call'[d].op = "acknowledge"
    BY <1>1, <1>3 DEF Acknowledge, Goes, TypeOK
  <2>2. Standing' => Standing
    BY <2>1, <1>3 DEF Acknowledge, Standing, Resting
  <2> QED
    BY <2>2, <1>3, KeepsAgreement DEF Acknowledge, contract, history
<1>4. CASE RecordAcknowledgment(c)
  <2>1. call[c] \in Call /\ call[c].op = "acknowledge"
    BY <1>1, <1>4 DEF RecordAcknowledgment, At, TypeOK
  <2>2. PICK p, r, row : /\ p = call[c].who /\ r = call[c].revision /\ row = call[c].row
                         /\ p \in Agents /\ r \in Revisions /\ row \in Acknowledgment
    BY <2>1, CallParts
  <2>3. PICK new : /\ new = IF acks[r][p] = None THEN row ELSE [row EXCEPT !.text = acks[r][p].text]
                   /\ acks' = [acks EXCEPT ![r][p] = new]
    BY <2>2, <1>4 DEF RecordAcknowledgment
  <2>4. new.accepted = row.accepted
    BY <2>2, <2>3 DEF Acknowledgment
  <2>5. /\ agreed' = IF row.accepted THEN agreed \cup {<<r, p>>} ELSE agreed
        /\ UNCHANGED <<session, overtaken>> /\ Goes(c, None)
    BY <2>2, <1>4 DEF RecordAcknowledgment, Ends
  <2>6. AcceptanceIsRecorded'
    <3>1. ASSUME NEW s \in Revisions, NEW q \in Agents
          PROVE  acks'[s][q] = IF s = r /\ q = p THEN new ELSE acks[s][q]
      BY <2>2, <2>3, <1>1 DEF TypeOK
    <3> QED
      BY <3>1, <2>4, <2>5 DEF Agreement, AcceptanceIsRecorded
  <2>7. Standing' => Standing
    BY <2>5, <1>1, <1>2, MoveStands
  <2>8. \A s : Unanimous(s) => Unanimous(s)'
    BY <2>5 DEF Unanimous
  <2> QED
    BY <2>5, <2>6, <2>7, <2>8 DEF Agreement
<1>5. CASE Activate(c) \/ OpenCollaboration(c)
  <2>1. Standing
    BY <1>5 DEF Activate, OpenCollaboration, At, Standing, Resting
  <2>2. session'.revision = session.revision /\ (~overtaken' => ~overtaken)
    BY <1>1, <1>5 DEF Activate, OpenCollaboration, Update, TypeOK
  <2> QED
    BY <2>1, <2>2, <1>5, KeepsAgreement DEF Activate, OpenCollaboration, contract
<1> QED
  BY <1>3, <1>4, <1>5

LEMMA AgentKeepsAgreement ==
    ASSUME Numbering, Agreement, NEW p \in Agents, JoinRoom(p) \/ AskAgent(p) \/ ReadContract(p)
    PROVE  Agreement'
<1>1. UNCHANGED <<session, contracts, acks, agreed, overtaken>>
  BY DEF JoinRoom, AskAgent, ReadContract, contract, history
<1>2. PICK c \in Callers : UNCHANGED call \/ \E n : Goes(c, [op |-> "reply", who |-> p, read |-> n])
  BY DEF JoinRoom, AskAgent, ReadContract, Callers
<1>3. Standing' => Standing
  <2>1. \A d \in Callers : call'[d] = call[d] \/ call'[d].op = "reply"
    BY <1>2 DEF Goes, Numbering, TypeOK
  <2> QED
    BY <2>1, <1>1 DEF Standing, Resting
<1> QED
  BY <1>1, <1>3, KeepsAgreement

LEMMA WorkerKeepsAgreement ==
    ASSUME Numbering, Agreement,
           \/ StartManaged \/ AttachBegins \/ InvocationFails \/ AttachEnds
           \/ WorkerActivates \/ WorkerRefused \/ RunEnds \/ Crash
    PROVE  Agreement'
<1>1. TypeOK /\ Worker \in Callers
  BY DEF Numbering, Callers
<1>2. CASE WorkerActivates
  BY <1>1, <1>2, CheckKeepsAgreement DEF WorkerActivates
<1>3. CASE StartManaged \/ AttachBegins \/ InvocationFails \/ AttachEnds \/ WorkerRefused \/ RunEnds \/ Crash
  <2>1. UNCHANGED <<session, acks, agreed, overtaken>>
    BY <1>3 DEF StartManaged, AttachBegins, InvocationFails, AttachEnds, WorkerRefused, RunEnds, Crash,
       contract, history
  <2>2. \A d \in Callers : call'[d] = call[d] \/ call'[d] = None
    BY <1>1, <1>3 DEF StartManaged, AttachBegins, InvocationFails, AttachEnds, WorkerRefused, RunEnds, Crash,
       Ends, Goes, TypeOK
  <2>3. Standing' => Standing
    BY <2>1, <2>2 DEF Standing
  <2> QED
    BY <2>1, <2>3, KeepsAgreement
<1> QED
  BY <1>2, <1>3

LEMMA InitAgreement == Init => Agreement
<1> SUFFICES ASSUME Init PROVE Agreement
  OBVIOUS
<1>1. PICK c \in Threads : call = [d \in Callers |-> IF d = c THEN Does("issue") ELSE None]
  BY DEF Init
<1>2. ~Standing
  BY <1>1 DEF Init, Standing, Does, Resting
<1>3. AcceptanceIsRecorded
  BY DEF Init, AcceptanceIsRecorded
<1> QED
  BY <1>2, <1>3 DEF Agreement

LEMMA NextAgreement == Numbering /\ Agreement /\ [Next]_vars => Agreement'
<1> SUFFICES ASSUME Numbering, Agreement, [Next]_vars PROVE Agreement'
  OBVIOUS
<1>1. CASE UNCHANGED vars
  BY <1>1, KeepsAgreement DEF vars, Standing
<1>2. ASSUME NEW c \in Threads,
             \/ UpdateConfiguration(c) \/ CommitConfiguration(c) \/ GenerateContract(c) \/ IssueContract(c)
             \/ CheckActivation(c) \/ Finish(c)
             \/ ControlPause(c) \/ ReadForPause(c) \/ Pause(c)
             \/ ControlResume(c) \/ ReadForResume(c) \/ Resume(c) \/ ResumeRun(c)
      PROVE  Agreement'
  BY <1>2, ThreadKeepsAgreement, IssueKeepsAgreement, CheckKeepsAgreement DEF Callers
<1>3. ASSUME NEW c \in Callers,
             Acknowledge(c) \/ RecordAcknowledgment(c) \/ Activate(c) \/ OpenCollaboration(c)
      PROVE  Agreement'
  BY <1>3, CallerKeepsAgreement
<1>4. ASSUME NEW p \in Agents, JoinRoom(p) \/ AskAgent(p) \/ ReadContract(p)
      PROVE  Agreement'
  BY <1>4, AgentKeepsAgreement
<1>5. CASE \/ StartManaged \/ AttachBegins \/ InvocationFails \/ AttachEnds
           \/ WorkerActivates \/ WorkerRefused \/ RunEnds \/ Crash
  BY <1>5, WorkerKeepsAgreement
<1> QED
  BY <1>1, <1>2, <1>3, <1>4, <1>5 DEF Next

LEMMA SessionAgreement == Spec => []Agreement
BY InitAgreement, NextAgreement, SessionNumbering, PTL DEF Spec

\* No session works, and none is paused, before the whole team has accepted one of its
\* revisions, however the calls that activate, pause and resume interleave.
THEOREM WorkIsAgreed == Spec => []ActiveWasAgreed
<1>1. Agreement => ActiveWasAgreed
  BY DEF Agreement, Standing, ActiveWasAgreed
<1> QED
  BY <1>1, SessionAgreement, PTL

\* An active session works under its current revision, accepted by the whole team, unless
\* a call wrote the status on a reading that another call had overtaken.
THEOREM WorkIsUnderTheCurrentContract == Spec => []ActiveIsCurrent
<1>1. Agreement => ActiveIsCurrent
  BY DEF Agreement, Standing, ActiveIsCurrent
<1> QED
  BY <1>1, SessionAgreement, PTL

\* Both at once: work needs an agreement and goes on under the current one.
THEOREM WorkGoesOnAgreed == Spec => []WorkHasAgreement
<1> QED
  BY WorkIsAgreed, WorkIsUnderTheCurrentContract, PTL DEF WorkHasAgreement

(***************************************************************************)
(* Ending.                                                                 *)
(***************************************************************************)
\* A finished session that no call has overtaken has no call about to write its status.
NobodyHolds == Terminal /\ ~overtaken =>
    \A c \in Callers : call[c] # None => call[c].op \notin Holding

\* What works, worked, or is about to work again.
Working == session.status \in {"active", "paused"} \/ \E c \in Callers : At(c, "paused") \/ At(c, "resumed")

HasTask == room.opened \/ lost \/ \E c \in Callers : At(c, "open")

WorkHasItsTask == Working /\ room.status # "stopped" => HasTask

Ending ==
    /\ NobodyHolds
    /\ WorkHasItsTask

\* A step in which no call comes to rely on the status, and none finishes the session.
LEMMA KeepsEnding ==
    ASSUME Ending, UNCHANGED overtaken,
           Terminal' => Terminal,
           room.status = "stopped" => room'.status = "stopped",
           \A c \in Callers : call'[c] # None /\ call'[c].op \in Holding =>
               call[c] # None /\ call[c].op = call'[c].op,
           Working' => Working, HasTask => HasTask'
    PROVE  Ending'
<1>1. NobodyHolds'
  BY DEF Ending, NobodyHolds
<1>2. WorkHasItsTask'
  BY DEF Ending, WorkHasItsTask
<1> QED
  BY <1>1, <1>2 DEF Ending

\* One call moves on to something that does not rely on the status; it has not sent the
\* opening task yet only if it is still to send it.
LEMMA MoveKeepsEnding ==
    ASSUME Ending, NEW c \in Callers, NEW next,
           \A d \in Callers : call'[d] = IF d = c THEN next ELSE call[d],
           next # None => next.op \notin Holding,
           ~At(c, "open") \/ room'.opened,
           UNCHANGED overtaken, lost => lost', session'.status = session.status,
           room.status = "stopped" => room'.status = "stopped",
           room.opened => room'.opened
    PROVE  Ending'
<1>1. \A d \in Callers : call'[d] # None /\ call'[d].op \in Holding =>
               call[d] # None /\ call[d].op = call'[d].op
  OBVIOUS
<1>2. Working' => Working
  BY <1>1 DEF Working, At, Holding
<1>3. HasTask => HasTask'
  BY DEF HasTask, At
<1>4. Terminal' => Terminal
  BY DEF Terminal
<1> QED
  BY <1>1, <1>2, <1>3, <1>4, KeepsEnding

\* Nothing but the opening task is owed by a session that is not finished.
LEMMA UnfinishedKeepsEnding ==
    ASSUME ~Terminal', Working' /\ room'.status # "stopped" => HasTask'
    PROVE  Ending'
BY DEF Ending, NobodyHolds, WorkHasItsTask

LEMMA ThreadKeepsEnding ==
    ASSUME TypeOK, Ending, NEW c \in Callers,
           \/ UpdateConfiguration(c) \/ CommitConfiguration(c) \/ GenerateContract(c) \/ IssueContract(c)
           \/ CheckActivation(c) \/ Finish(c)
           \/ ControlPause(c) \/ ReadForPause(c) \/ Pause(c)
           \/ ControlResume(c) \/ ReadForResume(c) \/ Resume(c) \/ ResumeRun(c)
    PROVE  Ending'
<1>1. \A next : Goes(c, next) => \A d \in Callers : call'[d] = IF d = c THEN next ELSE call[d]
  BY DEF Goes, TypeOK
<1>2. \A op : Does(op).op = op
  BY DEF Does
<1>3. CASE UpdateConfiguration(c)
  <2>1. PICK t \in Terms : Goes(c, [op |-> "configure", terms |-> t])
    BY <1>3 DEF UpdateConfiguration
  <2> DEFINE x == [op |-> "configure", terms |-> t]
  <2>2. x.op \notin Holding /\ Goes(c, x)
    BY <2>1 DEF Holding
  <2> HIDE DEF x
  <2> QED
    BY <2>2, <1>1, <1>3, MoveKeepsEnding DEF UpdateConfiguration, Begins, At, history
<1>4. CASE CommitConfiguration(c)
  <2>1. session'.status = session.status
    BY <1>4 DEF CommitConfiguration, TypeOK
  <2> QED
    BY <2>1, <1>1, <1>2, <1>4, MoveKeepsEnding DEF CommitConfiguration, At, history, Holding
<1>5. CASE GenerateContract(c)
  <2>1. CASE Goes(c, None)
    BY <2>1, <1>1, <1>5, MoveKeepsEnding DEF GenerateContract, At, history
  <2>2. CASE ~Terminal /\ \E n, t : Goes(c, [op |-> "contract", revision |-> n, text |-> t])
    <3>1. call'[c].op = "contract" /\ \A d \in Callers \ {c} : call'[d] = call[d]
      BY <2>2, <1>1
    <3>2. Working' => Working
      BY <3>1, <1>5 DEF GenerateContract, Working, At
    <3>3. HasTask => HasTask'
      BY <3>1, <1>5 DEF GenerateContract, HasTask, At, history
    <3> QED
      BY <2>2, <3>2, <3>3, <1>5, UnfinishedKeepsEnding DEF GenerateContract, Terminal, Ending, WorkHasItsTask
  <2> QED
    BY <2>1, <2>2, <1>5 DEF GenerateContract, Ends
<1>6. CASE IssueContract(c)
  <2>1. CASE UNCHANGED <<session, contract, overtaken>>
    BY <2>1, <1>1, <1>6, MoveKeepsEnding DEF IssueContract, Ends, At
  <2>2. CASE ~UNCHANGED <<session, contract, overtaken>>
    <3>1. session'.status = "awaiting_ack"
      BY <2>2, <1>6 DEF IssueContract, SetStatus, TypeOK
    <3>2. call'[c] = None /\ \A d \in Callers \ {c} : call'[d] = call[d]
      BY <1>1, <1>6 DEF IssueContract, Ends
    <3>3. (Working' => Working) /\ (HasTask => HasTask')
      BY <3>1, <3>2, <1>6 DEF IssueContract, Working, HasTask, At
    <3> QED
      BY <3>1, <3>3, <1>6, UnfinishedKeepsEnding DEF IssueContract, Terminal, TERMINAL, Ending, WorkHasItsTask
  <2> QED
    BY <2>1, <2>2
<1>7. CASE CheckActivation(c)
  <2>1. CASE Goes(c, Does("drive"))
    BY <2>1, <1>1, <1>2, <1>7, MoveKeepsEnding DEF CheckActivation, Begins, At, history, Holding
  <2>2. CASE MayActivate /\ Goes(c, Does("activate"))
    <3>1. call'[c].op = "activate" /\ call[c] = None /\ \A d \in Callers \ {c} : call'[d] = call[d]
      BY <2>2, <1>1, <1>2, <1>7 DEF CheckActivation, Begins
    <3>2. Working' => Working
      BY <3>1, <1>7 DEF CheckActivation, Working, At
    <3>3. HasTask => HasTask'
      BY <3>1, <1>7 DEF CheckActivation, HasTask, At, history
    <3> QED
      BY <2>2, <3>2, <3>3, <1>7, UnfinishedKeepsEnding DEF CheckActivation, MayActivate, Terminal, Ending, WorkHasItsTask
  <2> QED
    BY <2>1, <2>2, <1>7 DEF CheckActivation
<1>8. CASE Finish(c)
  <2>1. PICK s \in TERMINAL : SetStatus(c, s, session.revision)
    BY <1>8 DEF Finish
  <2>2. room'.status = "stopped" /\ UNCHANGED call /\ call[c] = None /\ overtaken' = Held(c)
    BY <2>1, <1>8 DEF Finish, SetStatus, Begins, TypeOK
  <2> QED
    BY <2>2 DEF Ending, NobodyHolds, WorkHasItsTask, Held
<1>9. CASE ControlPause(c) \/ ControlResume(c)
  <2>1. /\ room.status # "stopped" /\ room'.opened = room.opened /\ ~At(c, "open")
        /\ UNCHANGED <<session, overtaken, lost>>
    BY <1>9 DEF ControlPause, ControlResume, Begins, At, history, TypeOK
  <2>2. PICK next : Goes(c, next) /\ next.op \notin Holding
    BY <1>2, <1>9 DEF ControlPause, ControlResume, Holding
  <2> QED
    BY <2>1, <2>2, <1>1, MoveKeepsEnding
<1>10. CASE ReadForPause(c) \/ ReadForResume(c)
  <2>1. UNCHANGED <<session, room, overtaken, lost>> /\ ~At(c, "open")
    BY <1>10 DEF ReadForPause, ReadForResume, At, history
  <2>2. CASE Goes(c, None)
    BY <2>1, <2>2, <1>1, MoveKeepsEnding
  <2>3. CASE ~Goes(c, None)
    <3>1. session.status \in {"active", "paused"}
      BY <2>3, <1>10 DEF ReadForPause, ReadForResume
    <3>2. HasTask => HasTask'
      <4>1. \A d \in Callers \ {c} : call'[d] = call[d]
        BY <1>10 DEF ReadForPause, ReadForResume, Goes, TypeOK
      <4> QED
        BY <4>1, <2>1 DEF HasTask, At
    <3> QED
      BY <3>1, <3>2, <2>1, UnfinishedKeepsEnding DEF Terminal, TERMINAL, Working, Ending, WorkHasItsTask
  <2> QED
    BY <2>2, <2>3
<1>11. CASE Pause(c) \/ Resume(c)
  <2>1. Working /\ ~At(c, "open") /\ UNCHANGED <<room, lost>>
    BY <1>11 DEF Pause, Resume, At, Working
  <2>2. session'.status \in {"active", "paused"}
    BY <1>11 DEF Pause, Resume, Update, TypeOK
  <2>3. \A d \in Callers \ {c} : call'[d] = call[d]
    BY <1>11 DEF Pause, Resume, Ends, Goes, TypeOK
  <2>4. HasTask => HasTask'
    BY <2>1, <2>3 DEF HasTask, At
  <2> QED
    BY <2>1, <2>2, <2>4, UnfinishedKeepsEnding DEF Terminal, TERMINAL, Ending, WorkHasItsTask
<1>12. CASE ResumeRun(c)
  BY <1>1, <1>12, MoveKeepsEnding DEF ResumeRun, Ends, At, history
<1> QED
  BY <1>3, <1>4, <1>5, <1>6, <1>7, <1>8, <1>9, <1>10, <1>11, <1>12

LEMMA CallerKeepsEnding ==
    ASSUME TypeOK, Ending, NEW c \in Callers,
           Acknowledge(c) \/ RecordAcknowledgment(c) \/ Activate(c) \/ OpenCollaboration(c)
    PROVE  Ending'
<1>1. \A next : Goes(c, next) => \A d \in Callers : call'[d] = IF d = c THEN next ELSE call[d]
  BY DEF Goes, TypeOK
<1>2. \A op : Does(op).op = op
  BY DEF Does
<1>3. CASE Acknowledge(c)
  <2>1. UNCHANGED <<session, room, overtaken, lost>> /\ ~At(c, "open")
    BY <1>3 DEF Acknowledge, At, history
  <2>2. PICK next : Goes(c, next) /\ next.op = "acknowledge"
    BY <1>3 DEF Acknowledge
  <2> QED
    BY <2>1, <2>2, <1>1, MoveKeepsEnding DEF Holding
<1>4. CASE RecordAcknowledgment(c)
  BY <1>1, <1>4, MoveKeepsEnding DEF RecordAcknowledgment, Ends, At
<1>5. CASE Activate(c)
  <2>1. session'.status = "active"
    BY <1>5 DEF Activate, Update, TypeOK
  <2>2. HasTask'
    <3>1. call'[c] = Does("open")
      BY <1>1, <1>5 DEF Activate
    <3>2. call'[c] # None /\ call'[c].op = "open"
      BY <3>1, Simple, CallParts
    <3> QED
      BY <3>2 DEF HasTask, At
  <2> QED
    BY <2>1, <2>2, UnfinishedKeepsEnding DEF Terminal, TERMINAL
<1>6. CASE OpenCollaboration(c)
  <2>1. CASE room.status # "stopped"
    <3>1. room'.opened /\ UNCHANGED <<session, overtaken, lost>>
      BY <2>1, <1>6 DEF OpenCollaboration, TypeOK
    <3>2. PICK next : Goes(c, next) /\ (next # None => next.op \notin Holding)
      BY <2>1, <1>2, <1>6 DEF OpenCollaboration, Ends, Holding
    <3> QED
      BY <2>1, <3>1, <3>2, <1>1, MoveKeepsEnding
  <2>2. CASE room.status = "stopped"
    <3>1. session'.status = "paused" /\ room'.status = "stopped"
      BY <2>2, <1>6 DEF OpenCollaboration, Update, TypeOK
    <3> QED
      BY <3>1, UnfinishedKeepsEnding DEF Terminal, TERMINAL
  <2> QED
    BY <2>1, <2>2
<1> QED
  BY <1>3, <1>4, <1>5, <1>6

LEMMA AgentKeepsEnding ==
    ASSUME TypeOK, Ending, NEW p \in Agents, JoinRoom(p) \/ AskAgent(p) \/ ReadContract(p)
    PROVE  Ending'
<1>1. /\ UNCHANGED <<session, overtaken, lost>>
      /\ room'.status = room.status /\ room'.opened = room.opened
  BY DEF JoinRoom, AskAgent, ReadContract, history, TypeOK
<1>2. \A d \in Callers : call'[d] = call[d] \/ (call[d] = None /\ call'[d].op = "reply")
  BY DEF JoinRoom, AskAgent, ReadContract, Begins, Goes, TypeOK
<1>3. Working' => Working
  BY <1>1, <1>2 DEF Working, At
<1>4. HasTask => HasTask'
  BY <1>1, <1>2 DEF HasTask, At
<1> QED
  BY <1>1, <1>2, <1>3, <1>4, KeepsEnding DEF Terminal, Holding

LEMMA WorkerKeepsEnding ==
    ASSUME TypeOK, Ending,
           \/ StartManaged \/ AttachBegins \/ InvocationFails \/ AttachEnds
           \/ WorkerActivates \/ WorkerRefused \/ RunEnds \/ Crash
    PROVE  Ending'
<1>1. CASE WorkerActivates
  BY <1>1, ThreadKeepsEnding DEF WorkerActivates, Callers
<1>2. CASE StartManaged \/ AttachBegins \/ InvocationFails \/ AttachEnds \/ WorkerRefused \/ RunEnds
  <2>1. UNCHANGED <<session, room, overtaken, lost>>
    BY <1>2 DEF StartManaged, AttachBegins, InvocationFails, AttachEnds, WorkerRefused, RunEnds, history
  <2>2. \A d \in Callers : call'[d] = call[d] \/ (At(d, "reply") /\ call'[d] = None)
    BY <1>2 DEF StartManaged, AttachBegins, InvocationFails, AttachEnds, WorkerRefused, RunEnds,
       Ends, Goes, TypeOK
  <2>3. (Working' => Working) /\ (HasTask => HasTask')
    BY <2>1, <2>2 DEF Working, HasTask, At
  <2> QED
    BY <2>1, <2>2, <2>3, KeepsEnding DEF Terminal
<1>3. CASE Crash
  <2>1. UNCHANGED <<session, room, overtaken>>
    BY <1>3 DEF Crash
  <2>2. \A d \in Callers : call'[d] = IF d \in Agents THEN call[d] ELSE None
    BY <1>3 DEF Crash
  <2>3. Working' => Working
    BY <2>1, <2>2 DEF Working, At
  <2>4. HasTask => HasTask'
    BY <2>1, <2>2, <1>3 DEF Crash, HasTask, At, Callers
  <2> QED
    BY <2>1, <2>2, <2>3, <2>4, KeepsEnding DEF Terminal
<1> QED
  BY <1>1, <1>2, <1>3

LEMMA InitEnding == Init => Ending
<1> SUFFICES ASSUME Init PROVE Ending
  OBVIOUS
<1>1. PICK c \in Threads : call = [d \in Callers |-> IF d = c THEN Does("issue") ELSE None]
  BY DEF Init
<1>2. ~Terminal /\ ~Working
  BY <1>1 DEF Init, Terminal, TERMINAL, Working, At, Does
<1> QED
  BY <1>2 DEF Ending, NobodyHolds, WorkHasItsTask

LEMMA NextEnding == TypeOK /\ Ending /\ [Next]_vars => Ending'
<1> SUFFICES ASSUME TypeOK, Ending, [Next]_vars PROVE Ending'
  OBVIOUS
<1>1. CASE UNCHANGED vars
  BY <1>1, KeepsEnding DEF vars, Terminal, Working, HasTask, At
<1>2. ASSUME NEW c \in Threads,
             \/ UpdateConfiguration(c) \/ CommitConfiguration(c) \/ GenerateContract(c) \/ IssueContract(c)
             \/ CheckActivation(c) \/ Finish(c)
             \/ ControlPause(c) \/ ReadForPause(c) \/ Pause(c)
             \/ ControlResume(c) \/ ReadForResume(c) \/ Resume(c) \/ ResumeRun(c)
      PROVE  Ending'
  BY <1>2, ThreadKeepsEnding DEF Callers
<1>3. ASSUME NEW c \in Callers,
             Acknowledge(c) \/ RecordAcknowledgment(c) \/ Activate(c) \/ OpenCollaboration(c)
      PROVE  Ending'
  BY <1>3, CallerKeepsEnding
<1>4. ASSUME NEW p \in Agents, JoinRoom(p) \/ AskAgent(p) \/ ReadContract(p)
      PROVE  Ending'
  BY <1>4, AgentKeepsEnding
<1>5. CASE \/ StartManaged \/ AttachBegins \/ InvocationFails \/ AttachEnds
           \/ WorkerActivates \/ WorkerRefused \/ RunEnds \/ Crash
  BY <1>5, WorkerKeepsEnding
<1> QED
  BY <1>1, <1>2, <1>3, <1>4, <1>5 DEF Next

LEMMA SessionEnding == Spec => []Ending
BY InitEnding, NextEnding, SessionTypes, PTL DEF Spec

\* An active session in a room that lives has its opening task, is about to get it, or
\* lost it with the process, also after any number of pauses, resumptions and revisions.
THEOREM LiveMeansTasked == Spec => []LiveSessionHasItsTask
<1>1. Ending => LiveSessionHasItsTask
  BY DEF Ending, WorkHasItsTask, Working, HasTask, LiveSessionHasItsTask
<1> QED
  BY <1>1, SessionEnding, PTL

\* A finished session keeps its status unless some call had read an earlier one and writes
\* over it: the calls that could are the ones NobodyHolds says there are none of.
THEOREM FinishedSessionStays == Spec => FinishedStays
<1>1. ASSUME TypeOK, Ending, [Next]_vars, Terminal, ~overtaken
      PROVE  session'.status = session.status
  <2>1. \A c \in Callers : ~(At(c, "contract") \/ At(c, "activate") \/ At(c, "open")
                             \/ At(c, "paused") \/ At(c, "resumed"))
    BY <1>1 DEF Ending, NobodyHolds, At, Holding
  <2>2. CASE UNCHANGED vars
    BY <2>2 DEF vars
  <2>3. ASSUME NEW c \in Threads,
               \/ UpdateConfiguration(c) \/ CommitConfiguration(c) \/ GenerateContract(c) \/ IssueContract(c)
               \/ CheckActivation(c) \/ Finish(c)
               \/ ControlPause(c) \/ ReadForPause(c) \/ Pause(c)
               \/ ControlResume(c) \/ ReadForResume(c) \/ Resume(c) \/ ResumeRun(c)
        PROVE  session'.status = session.status
    BY <1>1, <2>1, <2>3 DEF TypeOK, Callers, UpdateConfiguration, CommitConfiguration, GenerateContract,
       IssueContract, CheckActivation, Finish, ControlPause, ReadForPause, Pause, ControlResume,
       ReadForResume, Resume, ResumeRun
  <2>4. ASSUME NEW c \in Callers,
               Acknowledge(c) \/ RecordAcknowledgment(c) \/ Activate(c) \/ OpenCollaboration(c)
        PROVE  session'.status = session.status
    BY <2>1, <2>4 DEF Acknowledge, RecordAcknowledgment, Activate, OpenCollaboration
  <2>5. ASSUME NEW p \in Agents, JoinRoom(p) \/ AskAgent(p) \/ ReadContract(p)
        PROVE  session'.status = session.status
    BY <2>5 DEF JoinRoom, AskAgent, ReadContract
  <2>6. CASE \/ StartManaged \/ AttachBegins \/ InvocationFails \/ AttachEnds
             \/ WorkerActivates \/ WorkerRefused \/ RunEnds \/ Crash
    BY <2>6 DEF StartManaged, AttachBegins, InvocationFails, AttachEnds, WorkerActivates,
       CheckActivation, WorkerRefused, RunEnds, Crash
  <2> QED
    BY <1>1, <2>2, <2>3, <2>4, <2>5, <2>6 DEF Next
<1>2. TypeOK /\ Ending /\ [Next]_vars => [Terminal => session'.status = session.status \/ overtaken]_vars
  BY <1>1
<1> QED
  BY <1>2, SessionTypes, SessionEnding, PTL DEF Spec, FinishedStays
=============================================================================
