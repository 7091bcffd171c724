------------------------- MODULE ConnectionsProofs -------------------------
(***************************************************************************)
(* Proofs about Connections, for any servers, releases, CLI versions,      *)
(* adapters and bounds.                                                    *)
(*                                                                         *)
(* What a green means is decided where the canary answers, long before the *)
(* row is written and longer before anybody looks at it.  The invariant    *)
(* follows the proof on its way: a test knows the CLI as it is, then an    *)
(* answer of that CLI, then the row does.                                  *)
(***************************************************************************)
EXTENDS Connections, WellFoundedInduction, TLAPS

\* The types of one row, one test, one run and the agent.
RowType == [state : {"none", "connected", "failed"}, facts : FactsType,
            resume : ResumeState, steady : BOOLEAN]
Pc == Stoppable \cup {"idle", "resume", "save", "settle", "closing"}
TestType == [pc : Pc, facts : FactsType, got : Got, resume : ResumeState,
             steady : BOOLEAN, stopped : BOOLEAN, timed : BOOLEAN]
RunType == [state : {"not_connected", "testing", "connected", "failed"},
            phase : {"idle", "starting", "invoking", "proving", "cancelling",
                     "done", "failed", "cancelled"}]
AgentType == [pc : {"idle", "turn"}, failed : BOOLEAN, id : 0..MaxIds, pending : BOOLEAN]

\* The CLI that a probe has seen.
Key(facts) == [path |-> facts.path, version |-> facts.version, release |-> facts.release,
               signed |-> facts.signed]

\* A test whose world stood still knows the CLI as it is; once it has a
\* complete answer, that CLI has given one.
Tested(t, s) ==
    /\ t.pc \in Canary /\ t.steady =>
          /\ t.facts.path = world.path /\ t.facts.release = release[s]
          /\ t.facts.version \in {world.version, Unknown} /\ t.facts.signed = world.signed
    /\ t.pc \in {"resume", "prove", "proving", "save"} /\ t.steady /\ Proves(t.got) /\ t.facts.version # Unknown
          => Key(t.facts) \in answered
Testing == \A s \in Servers : Tested(test[s], s)

\* So a row that was stored as connected is of a CLI that answered.
Stored == row.state = "connected" /\ row.steady /\ row.facts.version # Unknown
             => Key(row.facts) \in answered

\* A test that was cancelled while a canary was to be launched or ran still
\* has its event set, or goes on with a canary that had run out of time.
Halted(t, s) ==
    /\ t.pc # "idle" => cancel[s] # "none"
    /\ t.stopped /\ t.pc \in Stoppable => cancel[s] = "set"
    /\ t.stopped /\ t.pc = "resume" => t.timed /\ ~Proves(t.got)
    /\ t.stopped /\ t.pc = "save" => t.timed
Halting == \A s \in Servers : Halted(test[s], s)

\* A provider session that was resumed, and was not told again, is no longer
\* the agent's.
Spent ==
    /\ used \in [1..MaxIds -> {0, 1}]
    /\ \A i \in 1..MaxIds : used[i] = 1 => i # agent.id

Inv == TypeOK /\ Testing /\ Stored /\ Halting /\ Spent

-----------------------------------------------------------------------------
\* A set of naturals that is not empty has a least element: the release of
\* the first start.
LEMMA LeastNatural ==
    ASSUME NEW T, T \subseteq Nat, T # {}
    PROVE  \E x \in T : \A y \in T : x <= y
<1> DEFINE R == OpToRel(<, Nat)
<1>1. \E x \in T : \A y \in T : ~ (<<y, x>> \in R)
  <2>1. IsWellFoundedOn(R, Nat)
    BY NatLessThanWellFounded
  <2> QED
    BY <2>1, WFMin
<1>2. \A x, y \in Nat : y < x => <<y, x>> \in R
  BY DEF OpToRel
<1>3. PICK x \in T : \A y \in T : ~ (<<y, x>> \in R)
  BY <1>1
<1>4. \A y \in T : x <= y
  <2> TAKE y \in T
  <2>1. ~(y < x)
    BY <1>2, <1>3
  <2> QED
    BY <2>1
<1> QED
  BY <1>3, <1>4

LEMMA VersionsKnown == Unknown \notin Versions /\ Unknown \in Nat /\ Versions \subseteq Nat
BY ConnectionsAssumption DEF Unknown

LEMMA TypeNames ==
    TypeOK <=>
    /\ world \in Worlds /\ release \in [Servers -> Releases] /\ row \in RowType
    /\ test \in [Servers -> TestType] /\ run \in [Servers -> RunType]
    /\ cancel \in [Servers -> {"none", "clear", "set"}]
    /\ sandboxes \subseteq Servers /\ agent \in AgentType
BY DEF TypeOK, RowType, TestType, RunType, AgentType, Pc

LEMMA TypeNext ==
    ASSUME world' \in Worlds, release' \in [Servers -> Releases], row' \in RowType,
           test' \in [Servers -> TestType], run' \in [Servers -> RunType],
           cancel' \in [Servers -> {"none", "clear", "set"}],
           sandboxes' \subseteq Servers, agent' \in AgentType
    PROVE  TypeOK'
BY DEF TypeOK, RowType, TestType, RunType, AgentType, Pc

LEMMA InitInv == Init => Inv
<1> SUFFICES ASSUME Init PROVE Inv
  OBVIOUS
<1> USE DEF Init
<1>1. \E v \in Versions : v = world.version
  BY ConnectionsAssumption
<1>2. \E r \in Releases : \A q \in Releases : r <= q
  BY LeastNatural, ConnectionsAssumption
<1>3. TypeOK
  <2>1. world \in Worlds
    BY <1>1 DEF Worlds, Paths
  <2>2. release \in [Servers -> Releases]
    BY <1>2
  <2>3. NoFacts \in FactsType
    BY DEF NoFacts, FactsType, Paths, Unknown
  <2>4. row \in RowType
    BY <2>3 DEF RowType, NoRow, ResumeState
  <2>5. test \in [Servers -> TestType]
    BY <2>3 DEF TestType, NoTest, ResumeState, Got, Pc, Stoppable
  <2>6. run \in [Servers -> RunType]
    BY DEF RunType, NoRun
  <2>7. agent \in AgentType
    BY ConnectionsAssumption DEF AgentType, NoAgent
  <2> QED
    BY <2>1, <2>2, <2>4, <2>5, <2>6, <2>7, TypeNames
<1>4. Testing /\ Halting
  BY DEF Testing, Tested, Halting, Halted, NoTest, Canary, Stoppable
<1>5. Stored
  BY DEF Stored, NoRow
<1>6. Spent
  BY ConnectionsAssumption DEF Spent, NoAgent
<1> QED
  BY <1>3, <1>4, <1>5, <1>6 DEF Inv

-----------------------------------------------------------------------------
(* The steps.                                                              *)

\* A step of one test keeps the tests, if the new row is one.
LEMMA OneTest ==
    ASSUME Inv, NEW s \in Servers, NEW t \in TestType,
           test' = [test EXCEPT ![s] = t], Tested(t, s)', Halted(t, s)',
           world' = world, answered \subseteq answered',
           \A q \in Servers \ {s} : release'[q] = release[q] /\ cancel'[q] = cancel[q]
    PROVE  Testing' /\ Halting' /\ test' \in [Servers -> TestType]
<1>1. test \in [Servers -> TestType]
  BY TypeNames DEF Inv
<1>2. ASSUME NEW q \in Servers PROVE Tested(test[q], q)' /\ Halted(test[q], q)'
  <2>1. CASE q = s
    BY <1>1, <2>1
  <2>2. CASE q # s
    <3>1. test'[q] = test[q] /\ Tested(test[q], q) /\ Halted(test[q], q)
      BY <1>1, <2>2 DEF Inv, Testing, Halting
    <3> QED
      BY <3>1, <2>2 DEF Tested, Halted
  <2> QED
    BY <2>1, <2>2
<1> QED
  BY <1>1, <1>2 DEF Testing, Halting

\* What leaves the proof and the agent alone keeps what is said of them.
LEMMA ProofKept ==
    ASSUME Inv, UNCHANGED <<row, agent, used>>, answered \subseteq answered'
    PROVE  Stored' /\ Spent' /\ row' \in RowType /\ agent' \in AgentType
BY TypeNames DEF Inv, Stored, Spent

LEMMA Pieces ==
    ASSUME Inv, NEW s \in Servers
    PROVE  /\ world \in Worlds /\ release \in [Servers -> Releases] /\ release[s] \in Nat
           /\ test \in [Servers -> TestType] /\ test[s] \in TestType
           /\ run \in [Servers -> RunType] /\ run[s] \in RunType
           /\ cancel \in [Servers -> {"none", "clear", "set"}] /\ sandboxes \subseteq Servers
           /\ row \in RowType /\ agent \in AgentType
           /\ Halted(test[s], s) /\ Tested(test[s], s)
BY TypeNames, ConnectionsAssumption DEF Inv, Halting, Testing

LEMMA StartTestInv == ASSUME Inv, NEW s \in Servers, StartTest(s) PROVE Inv'
<1> DEFINE t == [NoTest EXCEPT !.pc = "probe"]
<1>1. t \in TestType /\ ~t.stopped /\ t.pc = "probe"
  BY DEF NoTest, TestType, Pc, Stoppable, FactsType, NoFacts, Paths, Unknown, Got, ResumeState
<1>2. run' \in [Servers -> RunType] /\ cancel' \in [Servers -> {"none", "clear", "set"}]
      /\ cancel' = [cancel EXCEPT ![s] = "clear"]
  BY Pieces DEF StartTest, RunType
<1>3. Tested(t, s)' /\ Halted(t, s)'
  BY <1>1, <1>2, Pieces DEF Tested, Halted, Canary
<1>4. test' = [test EXCEPT ![s] = t]
  BY DEF StartTest
<1>5. Testing' /\ Halting' /\ test' \in [Servers -> TestType]
  BY <1>1, <1>2, <1>3, <1>4, OneTest, Pieces DEF StartTest
<1>6. Stored' /\ Spent' /\ row' \in RowType /\ agent' \in AgentType
  BY ProofKept DEF StartTest, proof
<1> QED
  BY <1>2, <1>5, <1>6, Pieces, TypeNext DEF Inv, StartTest

\* What a probe finds is a report of the CLI as it is.
LEMMA ReportsTrue ==
    ASSUME Inv, NEW s \in Servers, NEW facts \in Reports(s)
    PROVE  /\ facts \in FactsType /\ facts.path = world.path /\ facts.release = release[s]
           /\ facts.version \in {world.version, Unknown} /\ facts.signed = world.signed
BY Pieces, ConnectionsAssumption DEF Reports, FactsType, Worlds, Unknown

LEMMA ProbeInv == ASSUME Inv, NEW s \in Servers, Probe(s) PROVE Inv'
<1>1. PICK t \in TestType :
         /\ test' = [test EXCEPT ![s] = t] /\ t.stopped = test[s].stopped
         /\ \/ t.pc = "settle"
            \/ /\ t.pc = "sandbox" /\ t.facts.path = world.path /\ t.facts.release = release[s]
               /\ t.facts.version \in {world.version, Unknown}
               /\ t.facts.signed = world.signed
  <2>1. CASE world.path = "missing"
    <3> DEFINE t == [test[s] EXCEPT !.pc = "settle", !.got = "failed"]
    <3>1. t \in TestType /\ t.pc = "settle" /\ t.stopped = test[s].stopped
      BY Pieces DEF TestType, Pc, Got
    <3>2. test' = [test EXCEPT ![s] = t]
      BY <2>1, Pieces DEF Probe, Leaves
    <3> QED
      BY <3>1, <3>2
  <2>2. CASE world.path # "missing"
    <3>1. PICK facts \in Reports(s) :
             test' = [test EXCEPT ![s].pc = "sandbox", ![s].facts = facts]
      BY <2>2 DEF Probe
    <3> DEFINE t == [test[s] EXCEPT !.pc = "sandbox", !.facts = facts]
    <3>2. t \in TestType /\ t.pc = "sandbox" /\ t.stopped = test[s].stopped /\ t.facts = facts
      BY Pieces, ReportsTrue DEF TestType, Pc, Stoppable
    <3>3. test' = [test EXCEPT ![s] = t]
      BY <3>1, Pieces
    <3>4. /\ facts.path = world.path /\ facts.release = release[s]
          /\ facts.version \in {world.version, Unknown} /\ facts.signed = world.signed
      BY ReportsTrue
    <3> HIDE DEF t
    <3> QED
      BY <3>2, <3>3, <3>4
  <2> QED
    BY <2>1, <2>2
<1>2. test[s].pc = "probe" /\ UNCHANGED <<world, release, cancel, answered>>
  BY DEF Probe
<1>3. Tested(t, s)' /\ Halted(t, s)'
  BY <1>1, <1>2, Pieces DEF Tested, Halted, Canary, Stoppable
<1>4. Testing' /\ Halting' /\ test' \in [Servers -> TestType]
  BY <1>1, <1>2, <1>3, OneTest
<1>5. Stored' /\ Spent' /\ row' \in RowType /\ agent' \in AgentType
  BY ProofKept DEF Probe, proof
<1>6. sandboxes' \subseteq Servers
  BY Pieces DEF Probe, Leaves
<1> QED
  BY <1>4, <1>5, <1>6, Pieces, TypeNext DEF Inv, Probe

\* A test that leaves has nothing more to keep.
LEMMA LeavesTest ==
    ASSUME Inv, NEW s \in Servers, NEW result \in Got, Leaves(s, result), test[s].pc # "idle",
           world' = world, release' = release, answered' = answered, cancel' = cancel
    PROVE  /\ Testing' /\ Halting' /\ test' \in [Servers -> TestType]
           /\ sandboxes' \subseteq Servers
<1>1. PICK t \in TestType : t.pc = "settle" /\ test' = [test EXCEPT ![s] = t]
  <2> DEFINE t == [test[s] EXCEPT !.pc = "settle", !.got = result]
  <2>1. t \in TestType /\ t.pc = "settle"
    BY Pieces DEF TestType, Pc
  <2>2. test' = [test EXCEPT ![s] = t]
    BY Pieces DEF Leaves
  <2> QED
    BY <2>1, <2>2
<1>2. Tested(t, s)' /\ Halted(t, s)'
  BY <1>1, Pieces DEF Tested, Halted, Canary, Stoppable
<1>3. Testing' /\ Halting' /\ test' \in [Servers -> TestType]
  BY <1>1, <1>2, OneTest
<1> QED
  BY <1>3, Pieces DEF Leaves

\* A test that goes on keeps its facts, and its answer after the canary.
LEMMA AtTest ==
    ASSUME Inv, NEW s \in Servers, NEW pc \in Pc \ {"idle", "resume", "save"}, At(s, pc),
           test[s].pc # "idle",
           pc \in Canary => test[s].pc \in Canary,
           pc \in {"prove", "proving"} => test[s].pc \in {"resume", "prove"},
           pc \in Stoppable =>
             (test[s].pc \in Stoppable \/ (test[s].pc = "resume" /\ Proves(test[s].got))),
           world' = world, release' = release, answered' = answered, cancel' = cancel
    PROVE  Testing' /\ Halting' /\ test' \in [Servers -> TestType]
<1>1. PICK t \in TestType :
         /\ t.pc = pc /\ t.facts = test[s].facts /\ t.got = test[s].got
         /\ t.steady = test[s].steady /\ t.stopped = test[s].stopped
         /\ test' = [test EXCEPT ![s] = t]
  <2> DEFINE t == [test[s] EXCEPT !.pc = pc]
  <2>1. /\ t \in TestType /\ t.pc = pc /\ t.facts = test[s].facts /\ t.got = test[s].got
        /\ t.steady = test[s].steady /\ t.stopped = test[s].stopped
    BY Pieces DEF TestType
  <2>2. test' = [test EXCEPT ![s] = t]
    BY Pieces DEF At
  <2> QED
    BY <2>1, <2>2
<1>2. Tested(test[s], s) /\ Halted(test[s], s)
  BY Pieces
<1>3. Tested(t, s)'
  <2>1. ASSUME pc \in Canary, t.steady
        PROVE  /\ t.facts.path = world'.path /\ t.facts.release = release'[s]
               /\ t.facts.version \in {world'.version, Unknown}
               /\ t.facts.signed = world'.signed
    BY <1>1, <1>2, <2>1 DEF Tested
  <2>2. ASSUME pc \in {"prove", "proving"}, t.steady, Proves(t.got), t.facts.version # Unknown
        PROVE  Key(t.facts) \in answered'
    BY <1>1, <1>2, <2>2 DEF Tested, Key
  <2> QED
    BY <1>1, <2>1, <2>2 DEF Tested, Proves
<1>4. Halted(t, s)'
  BY <1>1, <1>2 DEF Halted
<1> QED
  BY <1>1, <1>3, <1>4, OneTest

LEMMA ProgressRun ==
    ASSUME Inv, NEW s \in Servers, NEW phase \in {"invoking", "proving", "cancelling"},
           Progress(s, phase)
    PROVE  run' \in [Servers -> RunType]
<1> DEFINE r == [run[s] EXCEPT !.phase = phase]
<1>1. r \in RunType
  BY Pieces DEF RunType
<1>2. run' = [run EXCEPT ![s] = r]
  BY Pieces DEF Progress
<1> QED
  BY <1>1, <1>2, Pieces

LEMMA MakeSandboxInv == ASSUME Inv, NEW s \in Servers, MakeSandbox(s) PROVE Inv'
<1>1. Stored' /\ Spent' /\ row' \in RowType /\ agent' \in AgentType
  BY ProofKept DEF MakeSandbox, proof
<1>2. Testing' /\ Halting' /\ test' \in [Servers -> TestType] /\ sandboxes' \subseteq Servers
      /\ run' \in [Servers -> RunType]
  <2>1. CASE Leaves(s, "failed") /\ UNCHANGED run
    BY <2>1, LeavesTest, Pieces DEF MakeSandbox, Got
  <2>2. CASE /\ At(s, "invoke") /\ Progress(s, "invoking")
             /\ sandboxes' = sandboxes \cup {s}
    BY <2>2, AtTest, ProgressRun, Pieces DEF MakeSandbox, Canary, Stoppable, Pc
  <2> QED
    BY <2>1, <2>2 DEF MakeSandbox
<1> QED
  BY <1>1, <1>2, Pieces, TypeNext DEF Inv, MakeSandbox

\* The outcomes of a canary; one that was cancelled says so.
LEMMA AnswersKnown ==
    ASSUME NEW s \in Servers, NEW answer \in Answers(s)
    PROVE  /\ answer \in Got \ {"none", "connected"}
           /\ cancel[s] = "set" => answer \in {"cancelled", "timeout"}
BY DEF Answers, Got

\* A complete answer of a CLI that stood still is one of the CLI probed.
LEMMA TakesTest ==
    ASSUME Inv, NEW s \in Servers, test[s].pc \in {"invoking", "retrying"},
           NEW answer \in Answers(s), answer # "cancelled", Takes(s, answer),
           world' = world, release' = release, cancel' = cancel
    PROVE  /\ Testing' /\ Halting' /\ test' \in [Servers -> TestType]
           /\ answered \subseteq answered'
<1>1. PICK t \in TestType :
         /\ t.pc = "resume" /\ t.facts = test[s].facts /\ t.timed = (answer = "timeout")
         /\ t.steady = test[s].steady /\ t.got = answer /\ t.stopped = test[s].stopped
         /\ test' = [test EXCEPT ![s] = t]
  <2> DEFINE t == [test[s] EXCEPT !.pc = "resume", !.got = answer, !.timed = (answer = "timeout")]
  <2>1. /\ t \in TestType /\ t.pc = "resume" /\ t.facts = test[s].facts
        /\ t.timed = (answer = "timeout")
        /\ t.steady = test[s].steady /\ t.got = answer /\ t.stopped = test[s].stopped
    BY Pieces, AnswersKnown DEF TestType, Pc
  <2>2. test' = [test EXCEPT ![s] = t]
    BY Pieces DEF Takes, TestType
  <2> QED
    BY <2>1, <2>2
<1>2. answered \subseteq answered' /\ (Proves(answer) => Cli(s) \in answered')
  BY DEF Takes
<1>3. Tested(t, s)'
  <2>1. SUFFICES ASSUME t.steady, Proves(answer), t.facts.version # Unknown
                 PROVE  Key(t.facts) \in answered'
    BY <1>1 DEF Tested, Proves, Canary
  <2>2. /\ t.facts.path = world.path /\ t.facts.release = release[s]
        /\ t.facts.version = world.version /\ t.facts.signed = world.signed
    BY <1>1, <2>1, Pieces DEF Tested, Canary
  <2>3. Key(t.facts) = Cli(s)
    BY <2>2 DEF Key, Cli
  <2> QED
    BY <1>2, <2>1, <2>3
<1>4. Halted(t, s)'
  <2>1. t.stopped => answer = "timeout"
    BY <1>1, Pieces, AnswersKnown DEF Halted, Stoppable
  <2>2. ~Proves("timeout")
    BY DEF Proves
  <2> QED
    BY <1>1, <2>1, <2>2, Pieces DEF Halted, Stoppable, Proves
<1> QED
  BY <1>1, <1>2, <1>3, <1>4, OneTest

LEMMA InvokeInv == ASSUME Inv, NEW s \in Servers, Invoke(s) PROVE Inv'
<1>1. PICK answer \in Answers(s) :
          \/ /\ answer = "cancelled" /\ Leaves(s, "cancelled") /\ UNCHANGED <<run, answered>>
          \/ /\ At(s, "plain") /\ Progress(s, "invoking") /\ UNCHANGED <<sandboxes, answered>>
          \/ /\ answer # "cancelled" /\ Takes(s, answer) /\ UNCHANGED <<run, sandboxes>>
  BY DEF Invoke
<1>2. /\ Testing' /\ Halting' /\ test' \in [Servers -> TestType] /\ sandboxes' \subseteq Servers
      /\ run' \in [Servers -> RunType] /\ answered \subseteq answered'
  <2>1. CASE answer = "cancelled" /\ Leaves(s, "cancelled") /\ UNCHANGED <<run, answered>>
    BY <2>1, LeavesTest, Pieces DEF Invoke, Got
  <2>2. CASE At(s, "plain") /\ Progress(s, "invoking") /\ UNCHANGED <<sandboxes, answered>>
    BY <2>2, AtTest, ProgressRun, Pieces DEF Invoke, Canary, Stoppable, Pc
  <2>3. CASE answer # "cancelled" /\ Takes(s, answer) /\ UNCHANGED <<run, sandboxes>>
    BY <2>3, TakesTest, Pieces DEF Invoke
  <2> QED
    BY <1>1, <2>1, <2>2, <2>3
<1>3. Stored' /\ Spent' /\ row' \in RowType /\ agent' \in AgentType
  BY <1>2, ProofKept DEF Invoke, proof
<1> QED
  BY <1>2, <1>3, Pieces, TypeNext DEF Inv, Invoke

LEMMA InvokePlainInv == ASSUME Inv, NEW s \in Servers, InvokePlain(s) PROVE Inv'
<1>1. PICK answer \in Answers(s) \ {"streamed"} :
          IF answer = "cancelled" THEN Leaves(s, "cancelled") /\ UNCHANGED answered
                                  ELSE Takes(s, answer) /\ UNCHANGED sandboxes
  BY DEF InvokePlain
<1>2. /\ Testing' /\ Halting' /\ test' \in [Servers -> TestType]
      /\ sandboxes' \subseteq Servers /\ answered \subseteq answered'
  <2>1. CASE answer = "cancelled"
    BY <1>1, <2>1, LeavesTest DEF InvokePlain, Got
  <2>2. CASE answer # "cancelled"
    BY <1>1, <2>2, TakesTest, Pieces DEF InvokePlain
  <2> QED
    BY <2>1, <2>2
<1>3. Stored' /\ Spent' /\ row' \in RowType /\ agent' \in AgentType
  BY <1>2, ProofKept DEF InvokePlain, proof
<1> QED
  BY <1>2, <1>3, Pieces, TypeNext DEF Inv, InvokePlain

\* A test that is about to save has its answer, and says how it ended.
LEMMA ResumesTest ==
    ASSUME Inv, NEW s \in Servers, test[s].pc \in {"resume", "prove", "proving"},
           NEW resume \in ResumeState, NEW timed \in BOOLEAN, Resumes(s, resume, timed),
           test[s].stopped => timed,
           world' = world, release' = release, answered' = answered, cancel' = cancel
    PROVE  Testing' /\ Halting' /\ test' \in [Servers -> TestType]
<1>1. PICK t \in TestType :
         /\ t.pc = "save" /\ t.facts = test[s].facts /\ t.timed = timed
         /\ t.steady = test[s].steady /\ t.got = test[s].got /\ t.stopped = test[s].stopped
         /\ test' = [test EXCEPT ![s] = t]
  <2> DEFINE t == [test[s] EXCEPT !.pc = "save", !.resume = resume, !.timed = timed]
  <2>1. /\ t \in TestType /\ t.pc = "save" /\ t.facts = test[s].facts /\ t.timed = timed
        /\ t.steady = test[s].steady /\ t.got = test[s].got /\ t.stopped = test[s].stopped
    BY Pieces DEF TestType, Pc
  <2>2. test' = [test EXCEPT ![s] = t]
    BY Pieces DEF Resumes, TestType
  <2> QED
    BY <2>1, <2>2
<1>2. Tested(t, s)'
  BY <1>1, Pieces DEF Tested, Proves, Key, Canary
<1>3. Halted(t, s)'
  BY <1>1, Pieces DEF Halted, Stoppable
<1> QED
  BY <1>1, <1>2, <1>3, OneTest

LEMMA ProveResumeInv == ASSUME Inv, NEW s \in Servers, ProveResume(s) PROVE Inv'
<1>1. /\ test[s].pc = "resume" /\ test[s].timed \in BOOLEAN
      /\ test[s].stopped => test[s].timed
  BY Pieces DEF ProveResume, TestType, Halted
<1>2. /\ Testing' /\ Halting' /\ test' \in [Servers -> TestType]
      /\ run' \in [Servers -> RunType]
  <2>1. CASE Resumes(s, "unsupported", test[s].timed) /\ UNCHANGED run
    BY <1>1, <2>1, ResumesTest, Pieces DEF ProveResume, ResumeState
  <2>2. CASE Resumes(s, "unverified", test[s].timed) /\ UNCHANGED run
    BY <1>1, <2>2, ResumesTest, Pieces DEF ProveResume, ResumeState
  <2>3. CASE Proves(test[s].got) /\ At(s, "prove") /\ Progress(s, "proving")
    BY <1>1, <2>3, AtTest, ProgressRun DEF ProveResume, Canary, Stoppable, Pc
  <2> QED
    BY <2>1, <2>2, <2>3 DEF ProveResume
<1>3. Stored' /\ Spent' /\ row' \in RowType /\ agent' \in AgentType
  BY ProofKept DEF ProveResume, proof
<1> QED
  BY <1>2, <1>3, Pieces, TypeNext DEF Inv, ProveResume

LEMMA VerifyResumeInv == ASSUME Inv, NEW s \in Servers, VerifyResume(s) PROVE Inv'
<1>1. PICK answer \in Answers(s) :
          IF answer = "cancelled" THEN Leaves(s, "cancelled")
          ELSE /\ Resumes(s, CASE answer \in {"streamed", "plain"} -> "verified"
                               [] answer = "rejected" -> "unsupported"
                               [] OTHER -> "unverified", answer = "timeout")
               /\ UNCHANGED sandboxes
  BY DEF VerifyResume
<1>2. /\ Testing' /\ Halting' /\ test' \in [Servers -> TestType] /\ sandboxes' \subseteq Servers
  <2>1. CASE answer = "cancelled"
    BY <1>1, <2>1, LeavesTest DEF VerifyResume, Got
  <2>2. CASE answer # "cancelled"
    <3>1. PICK resume \in ResumeState : Resumes(s, resume, answer = "timeout")
      <4> DEFINE resume == CASE answer \in {"streamed", "plain"} -> "verified"
                             [] answer = "rejected" -> "unsupported"
                             [] OTHER -> "unverified"
      <4>1. resume \in ResumeState
        BY DEF ResumeState
      <4> QED
        BY <1>1, <2>2, <4>1
    <3>2. test[s].stopped => answer = "timeout"
      BY <2>2, Pieces, AnswersKnown DEF Halted, Stoppable, VerifyResume
    <3> QED
      BY <1>1, <2>2, <3>1, <3>2, ResumesTest, Pieces DEF VerifyResume
  <2> QED
    BY <2>1, <2>2
<1>3. Stored' /\ Spent' /\ row' \in RowType /\ agent' \in AgentType
  BY ProofKept DEF VerifyResume, proof
<1> QED
  BY <1>2, <1>3, Pieces, TypeNext DEF Inv, VerifyResume

\* A cancelled test launches nothing.
LEMMA LaunchInv == ASSUME Inv, NEW s \in Servers, Launch(s) PROVE Inv'
<1>1. test[s].pc \in {"invoke", "plain", "prove"}
      /\ UNCHANGED <<world, release, run, cancel, answered, row, agent, used>>
  BY DEF Launch, Running, proof
<1>2. /\ Testing' /\ Halting' /\ test' \in [Servers -> TestType] /\ sandboxes' \subseteq Servers
  <2>1. CASE Leaves(s, "cancelled")
    BY <1>1, <2>1, LeavesTest DEF Got
  <2>2. CASE cancel[s] # "set" /\ UNCHANGED sandboxes
             /\ At(s, Running[test[s].pc])
    <3>1. CASE test[s].pc = "prove"
      <4>1. At(s, "proving")
        BY <2>2, <3>1 DEF Running
      <4> QED
        BY <1>1, <2>2, <3>1, <4>1, AtTest, Pieces DEF Canary, Stoppable, Pc
    <3>2. CASE test[s].pc = "invoke"
      <4>1. At(s, "invoking")
        BY <2>2, <3>2 DEF Running
      <4> QED
        BY <1>1, <2>2, <3>2, <4>1, AtTest, Pieces DEF Canary, Stoppable, Pc
    <3>3. CASE test[s].pc = "plain"
      <4>1. At(s, "retrying")
        BY <2>2, <3>3 DEF Running
      <4> QED
        BY <1>1, <2>2, <3>3, <4>1, AtTest, Pieces DEF Canary, Stoppable, Pc
    <3> QED
      BY <1>1, <3>1, <3>2, <3>3
  <2>3. CASE cancel[s] # "set" /\ UNCHANGED sandboxes /\ test[s].pc = "prove"
             /\ Resumes(s, "unverified", FALSE)
    <3>1. ~test[s].stopped
      BY <2>3, Pieces DEF Halted, Stoppable
    <3> QED
      BY <1>1, <2>3, <3>1, ResumesTest, Pieces DEF ResumeState
  <2>4. CASE cancel[s] # "set" /\ UNCHANGED sandboxes
             /\ test' = [test EXCEPT ![s].pc = "resume", ![s].got = "failed"]
    <3>1. ~test[s].stopped
      BY <1>1, <2>4, Pieces DEF Halted, Stoppable
    <3>2. PICK t \in TestType : /\ t.pc = "resume" /\ t.got = "failed" /\ ~t.stopped
                                /\ test' = [test EXCEPT ![s] = t]
      <4> DEFINE t == [test[s] EXCEPT !.pc = "resume", !.got = "failed"]
      <4>1. t \in TestType /\ t.pc = "resume" /\ t.got = "failed" /\ ~t.stopped
        BY <3>1, Pieces DEF TestType, Pc, Got
      <4>2. test' = [test EXCEPT ![s] = t]
        BY <2>4, Pieces
      <4> QED
        BY <4>1, <4>2
    <3>3. Tested(t, s)' /\ Halted(t, s)'
      BY <1>1, <3>2, Pieces DEF Tested, Halted, Proves, Canary, Stoppable
    <3> QED
      BY <1>1, <2>4, <3>2, <3>3, OneTest, Pieces
  <2> QED
    BY <2>1, <2>2, <2>3, <2>4 DEF Launch
<1>3. Stored' /\ Spent' /\ row' \in RowType /\ agent' \in AgentType
  BY <1>1, ProofKept
<1> QED
  BY <1>1, <1>2, <1>3, Pieces, TypeNext DEF Inv

LEMMA SaveInv == ASSUME Inv, NEW s \in Servers, Save(s) PROVE Inv'
<1> DEFINE state == IF Proves(test[s].got) THEN "connected" ELSE "failed"
<1>1. /\ test[s].pc = "save" /\ Leaves(s, state)
      /\ row' = [state |-> state, facts |-> test[s].facts, resume |-> test[s].resume,
                 steady |-> test[s].steady]
  BY DEF Save
<1>2. /\ Testing' /\ Halting' /\ test' \in [Servers -> TestType]
      /\ sandboxes' \subseteq Servers
  BY <1>1, LeavesTest DEF Save, Got
<1>3. row' \in RowType
  BY <1>1, Pieces DEF RowType, TestType
<1>4. Stored'
  BY <1>1, Pieces DEF Stored, Tested, Key, Save
<1>5. Spent' /\ agent' \in AgentType
  BY Pieces DEF Inv, Spent, Save
<1> QED
  BY <1>2, <1>3, <1>4, <1>5, Pieces, TypeNext DEF Inv, Save

LEMMA SettleInv == ASSUME Inv, NEW s \in Servers, Settle(s) PROVE Inv'
<1>1. Testing' /\ Halting' /\ test' \in [Servers -> TestType]
  BY AtTest DEF Settle, Pc, Canary, Stoppable
<1>2. run' \in [Servers -> RunType]
  BY Pieces DEF Settle, RunType
<1>3. Stored' /\ Spent' /\ row' \in RowType /\ agent' \in AgentType
  BY ProofKept DEF Settle, proof
<1> QED
  BY <1>1, <1>2, <1>3, Pieces, TypeNext DEF Inv, Settle

LEMMA NoTestYet == NoTest \in TestType /\ ~NoTest.stopped /\ NoTest.pc = "idle"
BY DEF NoTest, TestType, Pc, Stoppable, FactsType, NoFacts, Paths, Unknown, Got, ResumeState

LEMMA CloseInv == ASSUME Inv, NEW s \in Servers, Close(s) PROVE Inv'
<1>1. Tested(NoTest, s)' /\ Halted(NoTest, s)'
  BY NoTestYet DEF Tested, Halted, NoTest, Canary, Stoppable
<1>2. Testing' /\ Halting' /\ test' \in [Servers -> TestType]
  BY <1>1, NoTestYet, OneTest, Pieces DEF Close
<1>3. cancel' \in [Servers -> {"none", "clear", "set"}]
  BY Pieces DEF Close
<1>4. Stored' /\ Spent' /\ row' \in RowType /\ agent' \in AgentType
  BY ProofKept DEF Close, proof
<1> QED
  BY <1>2, <1>3, <1>4, Pieces, TypeNext DEF Inv, Close

LEMMA TestKept ==
    ASSUME Inv, UNCHANGED <<test, world, release, cancel, answered>>
    PROVE  Testing' /\ Halting' /\ test' \in [Servers -> TestType]
BY TypeNames DEF Inv, Testing, Halting, Tested, Halted, Key, Proves

LEMMA CancelInv == ASSUME Inv, NEW s \in Servers, Cancel(s) PROVE Inv'
<1>1. run' \in [Servers -> RunType]
  BY ProgressRun DEF Cancel
<1>2. cancel' \in [Servers -> {"none", "clear", "set"}]
      /\ cancel' = [cancel EXCEPT ![s] = IF @ = "none" THEN "none" ELSE "set"]
  BY Pieces DEF Cancel
<1>3. PICK t \in TestType :
         /\ test' = [test EXCEPT ![s] = t]
         /\ t.pc = test[s].pc /\ t.facts = test[s].facts /\ t.got = test[s].got
         /\ t.steady = test[s].steady /\ t.timed = test[s].timed
         /\ t.stopped => t.pc \in Stoppable \/ test[s].stopped
  <2>1. CASE test[s].pc \in Stoppable
    <3> DEFINE t == [test[s] EXCEPT !.stopped = TRUE]
    <3>1. /\ t \in TestType /\ t.pc = test[s].pc /\ t.facts = test[s].facts
          /\ t.got = test[s].got /\ t.steady = test[s].steady /\ t.timed = test[s].timed
      BY Pieces DEF TestType
    <3>2. test' = [test EXCEPT ![s] = t]
      BY <2>1, Pieces DEF Cancel
    <3> QED
      BY <2>1, <3>1, <3>2
  <2>2. CASE test[s].pc \notin Stoppable
    BY <2>2, Pieces DEF Cancel
  <2> QED
    BY <2>1, <2>2
<1>4. Tested(t, s)'
  BY <1>3, Pieces DEF Tested, Cancel, Key, Proves
<1>5. Halted(t, s)'
  <2>1. t.pc # "idle" => cancel'[s] = "set"
    BY <1>2, <1>3, Pieces DEF Halted
  <2>2. t.pc \in Stoppable => t.pc # "idle"
    BY DEF Stoppable
  <2>3. "resume" \notin Stoppable /\ "save" \notin Stoppable
    BY DEF Stoppable
  <2> QED
    BY <1>3, <2>1, <2>2, <2>3, Pieces DEF Halted, Proves
<1>6. Testing' /\ Halting' /\ test' \in [Servers -> TestType]
  BY <1>2, <1>3, <1>4, <1>5, OneTest, Pieces DEF Cancel
<1>7. Stored' /\ Spent' /\ row' \in RowType /\ agent' \in AgentType
  BY ProofKept DEF Cancel, proof
<1> QED
  BY <1>1, <1>2, <1>6, <1>7, Pieces, TypeNext DEF Inv, Cancel

\* A new release is for the server that was started again.
LEMMA CrashInv == ASSUME Inv, NEW s \in Servers, Crash(s) PROVE Inv'
<1>1. \A q \in Servers \ {s} : release'[q] = release[q]
  BY Pieces DEF Crash
<1>2. Tested(NoTest, s)' /\ Halted(NoTest, s)'
  BY NoTestYet DEF Tested, Halted, Canary, Stoppable
<1>3. test' \in [Servers -> TestType]
  BY NoTestYet, Pieces DEF Crash
<1>4. Testing' /\ Halting'
  <2>1. ASSUME NEW q \in Servers PROVE Tested(test[q], q)' /\ Halted(test[q], q)'
    <3>1. CASE q = s
      <4>1. test'[q] = NoTest
        BY <3>1, Pieces DEF Crash
      <4> QED
        BY <1>2, <3>1, <4>1
    <3>2. CASE q # s
      <4>1. /\ test'[q] = test[q] /\ cancel'[q] = cancel[q]
            /\ Tested(test[q], q) /\ Halted(test[q], q)
        BY <3>2, Pieces DEF Crash
      <4> QED
        BY <4>1, <3>2, <1>1 DEF Tested, Halted, Crash
    <3> QED
      BY <3>1, <3>2
  <2> QED
    BY <2>1 DEF Testing, Halting
<1>5. release' \in [Servers -> Releases]
  BY Pieces DEF Crash
<1>6. /\ run' \in [Servers -> RunType] /\ cancel' \in [Servers -> {"none", "clear", "set"}]
  BY Pieces DEF Crash, NoRun, RunType
<1>7. Stored' /\ row' \in RowType
  BY Pieces DEF Inv, Stored, Crash
<1>8. agent' \in AgentType /\ agent'.id = agent.id
  BY Pieces DEF Crash, AgentType
<1>9. Spent'
  BY <1>8 DEF Inv, Spent, Crash
<1> QED
  BY <1>3, <1>4, <1>5, <1>6, <1>7, <1>8, <1>9, Pieces, TypeNext DEF Inv, Crash

-----------------------------------------------------------------------------
(* The agent and the world.                                                *)

LEMMA StatePieces ==
    ASSUME Inv
    PROVE  /\ world \in Worlds /\ release \in [Servers -> Releases]
           /\ test \in [Servers -> TestType] /\ run \in [Servers -> RunType]
           /\ cancel \in [Servers -> {"none", "clear", "set"}] /\ sandboxes \subseteq Servers
           /\ row \in RowType /\ agent \in AgentType
BY TypeNames DEF Inv

\* What the agent does keeps everything but the agent and, perhaps, the
\* resume field of the row.
LEMMA AgentStep ==
    ASSUME Inv, UNCHANGED <<world, release, test, run, cancel, sandboxes, answered>>,
           agent' \in AgentType, row' \in RowType, Spent',
           row'.state = row.state, row'.facts = row.facts, row'.steady = row.steady
    PROVE  Inv'
<1>1. Stored'
  BY DEF Inv, Stored, Key
<1> QED
  BY <1>1, TestKept, StatePieces, TypeNext DEF Inv

\* The session that is resumed was not resumed since it was told, and is
\* given up.
LEMMA TakeTurnInv == ASSUME Inv, TakeTurn PROVE Inv'
<1>1. CASE agent.failed /\ agent.id # 0 /\ Resume # "no" /\ ResumeAllowed
  <2>1. /\ agent' = [pc |-> "turn", failed |-> FALSE, id |-> 0, pending |-> TRUE]
        /\ used' = [used EXCEPT ![agent.id] = @ + 1] /\ UNCHANGED row
    BY <1>1 DEF TakeTurn, Consume
  <2>2. agent' \in AgentType
    BY <2>1, ConnectionsAssumption DEF AgentType
  <2>3. agent.id \in 1..MaxIds /\ used[agent.id] = 0
    BY <1>1, StatePieces, ConnectionsAssumption DEF AgentType, Inv, Spent
  <2>4. used' = [used EXCEPT ![agent.id] = 1]
    BY <2>1, <2>3 DEF Inv, Spent
  <2>5. Spent'
    BY <2>1, <2>3, <2>4 DEF Inv, Spent
  <2> QED
    BY <2>1, <2>2, <2>5, StatePieces, AgentStep DEF TakeTurn
<1>2. CASE ~(agent.failed /\ agent.id # 0 /\ Resume # "no" /\ ResumeAllowed)
  <2>1. agent' = [agent EXCEPT !.pc = "turn", !.failed = FALSE] /\ UNCHANGED <<used, row>>
    BY <1>2 DEF TakeTurn
  <2>2. agent' \in AgentType /\ agent'.id = agent.id
    BY <2>1, StatePieces DEF AgentType
  <2>3. Spent'
    BY <2>1, <2>2 DEF Inv, Spent
  <2> QED
    BY <2>1, <2>2, <2>3, StatePieces, AgentStep DEF TakeTurn
<1> QED
  BY <1>1, <1>2

\* A session that a turn tells, be it one that was resumed before, may be
\* resumed once more.
LEMMA TurnCompletesInv == ASSUME Inv, TurnCompletes PROVE Inv'
<1>1. /\ row' \in RowType /\ row'.state = row.state /\ row'.facts = row.facts
      /\ row'.steady = row.steady
  BY StatePieces DEF TurnCompletes, RowType, ResumeState
<1>2. agent' \in AgentType /\ Spent'
  <2>1. CASE agent' = [agent EXCEPT !.pc = "idle", !.pending = FALSE] /\ UNCHANGED used
    <3>1. agent' \in AgentType /\ agent'.id = agent.id
      BY <2>1, StatePieces DEF AgentType
    <3> QED
      BY <2>1, <3>1 DEF Inv, Spent
  <2>2. ASSUME NEW id \in 1..MaxIds, agent' = [NoAgent EXCEPT !.id = id],
               used' = [used EXCEPT ![id] = 0]
        PROVE  agent' \in AgentType /\ Spent'
    <3>0. agent' = [pc |-> "idle", failed |-> FALSE, id |-> id, pending |-> FALSE]
      BY <2>2 DEF NoAgent
    <3>1. agent' \in AgentType /\ agent'.id = id
      BY <3>0, ConnectionsAssumption DEF AgentType
    <3> QED
      BY <2>2, <3>1 DEF Inv, Spent
  <2> QED
    BY <2>1, <2>2 DEF TurnCompletes
<1> QED
  BY <1>1, <1>2, AgentStep DEF TurnCompletes

LEMMA TurnFailsInv == ASSUME Inv, TurnFails PROVE Inv'
<1>1. agent' \in AgentType /\ agent'.id = agent.id
  BY StatePieces DEF TurnFails, AgentType
<1>2. Spent'
  BY <1>1 DEF TurnFails, Inv, Spent
<1> QED
  BY <1>1, <1>2, StatePieces, AgentStep DEF TurnFails

LEMMA ReplaceInv == ASSUME Inv, Replace PROVE Inv'
<1>1. agent' \in AgentType /\ agent'.id = 0
  BY ConnectionsAssumption DEF Replace, AgentType, NoAgent
<1>2. Spent'
  BY <1>1, ConnectionsAssumption DEF Replace, Inv, Spent
<1> QED
  BY <1>1, <1>2, StatePieces, AgentStep DEF Replace

LEMMA WorldMovesInv == ASSUME Inv, WorldMoves PROVE Inv'
<1>1. world' \in Worlds
  BY StatePieces DEF WorldMoves, Worlds
<1>2. ASSUME NEW s \in Servers
      PROVE  /\ test'[s] \in TestType /\ Tested(test[s], s)' /\ Halted(test[s], s)'
  <2>1. CASE test[s].pc \in Canary
    <3>1. test'[s] = [test[s] EXCEPT !.steady = FALSE]
      BY <2>1 DEF WorldMoves
    <3>2. /\ test'[s] \in TestType /\ test'[s].steady = FALSE /\ test'[s].pc = test[s].pc
          /\ test'[s].stopped = test[s].stopped /\ test'[s].timed = test[s].timed
          /\ test'[s].got = test[s].got
      BY <3>1, Pieces DEF TestType
    <3>3. cancel' = cancel
      BY DEF WorldMoves
    <3>4. Tested(test[s], s)'
      BY <3>2 DEF Tested
    <3>5. Halted(test[s], s)'
      BY <3>2, <3>3, Pieces DEF Halted, Proves
    <3> QED
      BY <3>2, <3>4, <3>5
  <2>2. CASE test[s].pc \notin Canary
    <3>1. test'[s] = test[s]
      BY <2>2 DEF WorldMoves
    <3> QED
      BY <2>2, <3>1, Pieces DEF Tested, Halted, WorldMoves, Key, Proves
  <2> QED
    BY <2>1, <2>2
<1>3. Testing' /\ Halting' /\ test' \in [Servers -> TestType]
  <2>1. test' = [s \in Servers |-> test'[s]]
    BY DEF WorldMoves
  <2> QED
    BY <1>2, <2>1 DEF Testing, Halting
<1>4. Stored' /\ Spent' /\ row' \in RowType /\ agent' \in AgentType
  BY ProofKept DEF WorldMoves, proof
<1> QED
  BY <1>1, <1>3, <1>4, StatePieces, TypeNext DEF Inv, WorldMoves

LEMMA StutterInv == ASSUME Inv, UNCHANGED vars PROVE Inv'
<1>1. Stored' /\ Spent' /\ row' \in RowType /\ agent' \in AgentType
  BY ProofKept DEF vars, proof
<1> QED
  BY <1>1, TestKept, StatePieces, TypeNext DEF Inv, vars

-----------------------------------------------------------------------------
(* The theorems.                                                           *)

LEMMA StepInv == Inv /\ [Next]_vars => Inv'
<1> SUFFICES ASSUME Inv, [Next]_vars PROVE Inv'
  OBVIOUS
<1>1. ASSUME NEW s \in Servers, Test(s) PROVE Inv'
  BY <1>1, ProbeInv, MakeSandboxInv, InvokeInv, InvokePlainInv, ProveResumeInv, LaunchInv,
     VerifyResumeInv, SaveInv, SettleInv, CloseInv DEF Test
<1>2. ASSUME NEW s \in Servers, StartTest(s) \/ Cancel(s) \/ Crash(s) PROVE Inv'
  BY <1>2, StartTestInv, CancelInv, CrashInv
<1>3. CASE TakeTurn \/ TurnCompletes \/ TurnFails \/ Replace \/ WorldMoves
  BY <1>3, TakeTurnInv, TurnCompletesInv, TurnFailsInv, ReplaceInv, WorldMovesInv
<1>4. CASE UNCHANGED vars
  BY <1>4, StutterInv
<1> QED
  BY <1>1, <1>2, <1>3, <1>4 DEF Next

\* Every state is one in which the stored proof, the tests on their way to
\* one and the resumed sessions are what the invariant says.
THEOREM InvHolds == Spec => []Inv
<1>1. Init => Inv
  BY InitInv
<1>2. Inv /\ [Next]_vars => Inv'
  BY StepInv
<1> QED
  BY <1>1, <1>2, PTL DEF Spec

\* The variables have their types, for any servers and bounds.
THEOREM TypeCorrect == Spec => []TypeOK
<1>1. Inv => TypeOK
  BY DEF Inv
<1> QED
  BY <1>1, InvHolds, PTL

\* A green on which two complete probes agree is of a CLI that answered a
\* canary as it is now installed, and nobody signed out since
\* (connection_state).
THEOREM GreenIsProved == Spec => []GreenStands
<1>1. Inv => GreenStands
  <2> SUFFICES ASSUME Inv, NEW s \in Servers, NEW facts \in Reports(s),
                      Shown(facts) = "connected", row.steady,
                      Unknown \notin {facts.version, row.facts.version}
               PROVE  Answered(s)
    BY DEF GreenStands
  <2>1. row.state = "connected" /\ ~Outdated(row.facts, facts)
    BY DEF Shown
  <2>2. /\ facts.path = world.path /\ facts.release = release[s]
        /\ facts.version = world.version /\ facts.signed = world.signed
    BY ReportsTrue
  <2>3. /\ Key(row.facts).path = world.path /\ Key(row.facts).version = world.version
        /\ Key(row.facts).release = release[s] /\ Key(row.facts).signed => world.signed
    BY <2>1, <2>2, StatePieces DEF Outdated, Key, RowType, FactsType
  <2>4. Key(row.facts) \in answered
    BY <2>1 DEF Inv, Stored
  <2> QED
    BY <2>3, <2>4 DEF Answered
<1> QED
  BY <1>1, InvHolds, PTL

\* A provider session is resumed at most once until a completed turn tells it
\* again (_turn_agent consumes its id).
THEOREM NeverResumedTwice == Spec => []ResumedOnce
<1>1. Inv => ResumedOnce
  BY DEF Inv, Spent, ResumedOnce
<1> QED
  BY <1>1, InvHolds, PTL

\* A test that was cancelled while one of its canaries was to be launched or
\* ran stores nothing, unless that canary had run out of time by itself
\* (run_connection_test).
THEOREM CancelledStoresNothing == Spec => []CancelKeepsProof
<1>1. Inv => CancelKeepsProof
  BY DEF Inv, Halting, Halted, CancelKeepsProof
<1> QED
  BY <1>1, InvHolds, PTL
=============================================================================
