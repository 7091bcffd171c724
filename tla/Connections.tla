----------------------------- MODULE Connections -----------------------------
(***************************************************************************)
(* What Synchri knows of one agent CLI (runner/doctor.py): the connection  *)
(* test the human starts, cancels and repeats, the durable proof it stores *)
(* in runtime_connections, the live answer to "is it still connected?",    *)
(* and the recovery of a managed agent (runner/managed.py), which uses the *)
(* proof to resume a provider session and may complete it.                 *)
(*                                                                         *)
(* Every server tests on a thread of its own, one at a time.  Meanwhile    *)
(* the human upgrades, moves or removes the CLI and signs in or out: the   *)
(* world is what a probe of it would find now.  The details of a check,    *)
(* and the checks that never decide anything, are dropped.                 *)
(***************************************************************************)
EXTENDS Naturals

CONSTANTS
    Servers,            \* processes that run Synchri
    Releases,           \* of Synchri, each with an adapter of its own
    Versions,           \* of the CLI
    Streams,            \* does the adapter stream?
    HasPlain,           \* has it a plain canary command as well?
    Resume,             \* how it resumes: "no", "unenforced", "enforced"
    MaxTests,           \* bound: tests started
    MaxMoves,           \* bound: changes of the world
    MaxIds,             \* bound: provider sessions
    MaxCrashes          \* bound: ends of a server

ASSUME ConnectionsAssumption ==
    /\ Streams \in BOOLEAN /\ HasPlain \in BOOLEAN
    /\ Resume \in {"no", "unenforced", "enforced"}
    /\ Releases \subseteq Nat /\ Releases # {}
    /\ Versions \subseteq Nat \ {0} /\ Versions # {}
    /\ MaxTests \in Nat /\ MaxMoves \in Nat /\ MaxIds \in Nat /\ MaxCrashes \in Nat

VARIABLES
    world,              \* the CLI: path, version, and is it signed in?
    release,            \* the release each server runs
    row,                \* the row of runtime_connections, or NoRow
    test,               \* the test thread of each server
    run,                \* what the server shows of it
    cancel,             \* its cancel event: none, clear or set
    sandboxes,          \* the servers that have a sandbox directory
    agent,              \* a managed agent of the CLI, and its recovery
    used,               \* history: how often each provider session was resumed
                        \* since a completed turn last told it
    answered,           \* history: the CLIs that answered a canary in full
    tests, moves, crashes

proof == <<row, agent, used>>
vars == <<world, release, proof, test, run, cancel, sandboxes, answered,
          tests, moves, crashes>>

Unknown == 0            \* a version command that does not answer in time
Paths == {"missing", "here", "there"}
Worlds == [path : Paths, version : Versions, signed : BOOLEAN]

NoFacts == [path |-> "missing", version |-> Unknown, release |-> 0, signed |-> FALSE]
NoRow == [state |-> "none", facts |-> NoFacts, resume |-> "unsupported", steady |-> TRUE]
NoTest == [pc |-> "idle", facts |-> NoFacts, got |-> "none", resume |-> "unsupported",
           steady |-> TRUE, stopped |-> FALSE, timed |-> FALSE]
NoRun == [state |-> "not_connected", phase |-> "idle"]
NoAgent == [pc |-> "idle", failed |-> FALSE, id |-> 0, pending |-> FALSE]

Init ==
    /\ world = [path |-> "here", version |-> CHOOSE v \in Versions : TRUE, signed |-> TRUE]
    /\ release = [s \in Servers |-> CHOOSE r \in Releases : \A q \in Releases : r <= q]
    /\ row = NoRow /\ test = [s \in Servers |-> NoTest]
    /\ run = [s \in Servers |-> NoRun] /\ cancel = [s \in Servers |-> "none"]
    /\ sandboxes = {} /\ agent = NoAgent
    /\ used = [i \in 1..MaxIds |-> 0] /\ answered = {}
    /\ tests = 0 /\ moves = 0 /\ crashes = 0

-----------------------------------------------------------------------------
(* The passive probe and the answer it gives.                              *)

\* What passive_report may find; the version is not always told.
Reports(s) ==
    {[path |-> world.path, version |-> v, release |-> release[s], signed |-> world.signed] :
        v \in {world.version, Unknown}}

\* Mutant: upgrades go unnoticed.
OutdatedByPath(old, new) ==
    \/ new.path = "missing" \/ new.path # old.path
    \/ new.release # old.release
    \/ old.signed /\ ~new.signed

\* Why a proof does not count any more.  An unknown version is no reason.
Outdated(old, new) ==
    \/ new.path = "missing" \/ new.path # old.path
    \/ old.version # Unknown /\ new.version # Unknown /\ new.version # old.version
    \/ new.release # old.release
    \/ old.signed /\ ~new.signed

\* connection_state, with one probe.
Shown(facts) ==
    CASE row = NoRow -> "not_connected"
      [] row # NoRow /\ row.state # "connected" -> "failed"
      [] row.state = "connected" /\ Outdated(row.facts, facts) -> "reconnect_needed"
      [] OTHER -> "connected"

-----------------------------------------------------------------------------
(* The connection test.                                                    *)

At(s, pc) == test' = [test EXCEPT ![s].pc = pc]

\* run_connection_test returns, and its sandbox goes; nothing was stored.
Leaves(s, result) ==
    /\ test' = [test EXCEPT ![s].pc = "settle", ![s].got = result]
    /\ sandboxes' = sandboxes \ {s}

Progress(s, phase) == run' = [run EXCEPT ![s].phase = phase]

\* A thread that is alive is left alone.
StartTest(s) ==
    /\ tests < MaxTests /\ tests' = tests + 1
    /\ test[s].pc = "idle"
    /\ test' = [test EXCEPT ![s] = [NoTest EXCEPT !.pc = "probe"]]
    /\ run' = [run EXCEPT ![s] = [state |-> "testing", phase |-> "starting"]]
    /\ cancel' = [cancel EXCEPT ![s] = "clear"]
    /\ UNCHANGED <<world, release, proof, sandboxes, answered, moves, crashes>>

Probe(s) ==
    /\ test[s].pc = "probe"
    /\ IF world.path = "missing" THEN Leaves(s, "failed")
       ELSE /\ \E facts \in Reports(s) :
                  test' = [test EXCEPT ![s].pc = "sandbox", ![s].facts = facts]
            /\ UNCHANGED sandboxes
    /\ UNCHANGED <<world, release, proof, run, cancel, answered, tests, moves, crashes>>

\* A temporary directory, which must not lie inside a repository.
MakeSandbox(s) ==
    /\ test[s].pc = "sandbox"
    /\ \/ Leaves(s, "failed") /\ UNCHANGED run
       \/ /\ At(s, "invoke") /\ Progress(s, "invoking")
          /\ sandboxes' = sandboxes \cup {s}
    /\ UNCHANGED <<world, release, proof, cancel, answered, tests, moves, crashes>>

\* A canary is launched, and runs.
Running == [invoke |-> "invoking", plain |-> "retrying", prove |-> "proving"]

\* Mutant: a canary that was ended from outside is read like any other.
AnswersOfAny(s) ==
    {"streamed", "plain", "rejected", "failed", "timeout", "cancelled"}

\* What a canary may come back with.  Once the cancel event is set it is
\* cancelled, unless it had run out of time before.
Answers(s) ==
    IF cancel[s] = "set" THEN {"cancelled", "timeout"}
    ELSE {"streamed", "plain", "rejected", "failed", "timeout"}

\* Launch, prompt, sign-in and, where the adapter streams, the stream: a
\* proof is all of them.
Proves(answer) == answer = (IF Streams THEN "streamed" ELSE "plain")

Cli(s) == [path |-> world.path, version |-> world.version, release |-> release[s],
           signed |-> world.signed]

\* The test goes on with this answer.
Takes(s, answer) ==
    /\ test' = [test EXCEPT ![s].pc = "resume", ![s].got = answer,
                   ![s].timed = (answer = "timeout")]
    /\ answered' = IF Proves(answer) THEN answered \cup {Cli(s)} ELSE answered

Resumes(s, resume, timed) ==
    test' = [test EXCEPT ![s].pc = "save", ![s].resume = resume, ![s].timed = timed]

\* A cancelled test launches nothing; a CLI that is gone cannot be launched.
Launch(s) ==
    /\ test[s].pc \in DOMAIN Running
    /\ \/ cancel[s] = "set" /\ Leaves(s, "cancelled")
       \/ /\ cancel[s] # "set" /\ UNCHANGED sandboxes
          /\ CASE world.path = test[s].facts.path -> At(s, Running[test[s].pc])
               [] world.path # test[s].facts.path /\ test[s].pc = "prove" ->
                    Resumes(s, "unverified", FALSE)
               [] OTHER -> test' = [test EXCEPT ![s].pc = "resume", ![s].got = "failed"]
    /\ UNCHANGED <<world, release, proof, run, cancel, answered, tests, moves, crashes>>

\* The first canary; a CLI that rejects the streaming flags gets another.
Invoke(s) ==
    /\ test[s].pc = "invoking"
    /\ \E answer \in Answers(s) :
          \/ /\ answer = "cancelled" /\ Leaves(s, "cancelled")
             /\ UNCHANGED <<run, answered>>
          \/ /\ answer = "rejected" /\ Streams /\ HasPlain
             /\ At(s, "plain") /\ Progress(s, "invoking")
             /\ UNCHANGED <<sandboxes, answered>>
          \/ /\ answer # "cancelled" /\ ~(answer = "rejected" /\ Streams /\ HasPlain)
             /\ Takes(s, answer)
             /\ UNCHANGED <<run, sandboxes>>
    /\ UNCHANGED <<world, release, proof, cancel, tests, moves, crashes>>

\* A plain answer of a CLI that should stream proves only half of it.
InvokePlain(s) ==
    /\ test[s].pc = "retrying"
    /\ \E answer \in Answers(s) \ {"streamed"} :
          IF answer = "cancelled" THEN Leaves(s, "cancelled") /\ UNCHANGED answered
                                  ELSE Takes(s, answer) /\ UNCHANGED sandboxes
    /\ UNCHANGED <<world, release, proof, run, cancel, tests, moves, crashes>>

\* Resume is proved by a second canary, under an enforced command only, of a
\* CLI that told its session.
ProveResume(s) ==
    /\ test[s].pc = "resume"
    /\ \/ Resume = "no" /\ Resumes(s, "unsupported", test[s].timed) /\ UNCHANGED run
       \/ Resume # "no" /\ Resumes(s, "unverified", test[s].timed) /\ UNCHANGED run
       \/ /\ Resume = "enforced" /\ Proves(test[s].got)
          /\ At(s, "prove") /\ Progress(s, "proving")
    /\ UNCHANGED <<world, release, proof, cancel, sandboxes, answered, tests, moves, crashes>>

VerifyResume(s) ==
    /\ test[s].pc = "proving"
    /\ \E answer \in Answers(s) :
          IF answer = "cancelled" THEN Leaves(s, "cancelled")
          ELSE /\ Resumes(s, CASE answer \in {"streamed", "plain"} -> "verified"
                               [] answer = "rejected" -> "unsupported"
                               [] OTHER -> "unverified", answer = "timeout")
               /\ UNCHANGED sandboxes
    /\ UNCHANGED <<world, release, proof, run, cancel, answered, tests, moves, crashes>>

\* _save_connection: the facts of the probe, under this test's verdict,
\* replace any earlier proof.
Save(s) ==
    LET state == IF Proves(test[s].got) THEN "connected" ELSE "failed" IN
    /\ test[s].pc = "save" /\ Leaves(s, state)
    /\ row' = [state |-> state, facts |-> test[s].facts, resume |-> test[s].resume,
               steady |-> test[s].steady]
    /\ UNCHANGED <<world, release, agent, used, run, cancel, answered, tests,
                   moves, crashes>>

\* Mutant: a refused test is not shown.
SettleProved(s) ==
    /\ test[s].pc = "settle" /\ At(s, "closing")
    /\ run' = IF test[s].got = "connected"
              THEN [run EXCEPT ![s] = [state |-> "connected", phase |-> "done"]] ELSE run
    /\ UNCHANGED <<world, release, proof, cancel, sandboxes, answered, tests, moves, crashes>>

\* The worker shows its result, then discards the event; its thread ends.
Settle(s) ==
    /\ test[s].pc = "settle" /\ At(s, "closing")
    /\ run' = [run EXCEPT ![s] =
                 CASE test[s].got = "connected" -> [state |-> "connected", phase |-> "done"]
                   [] test[s].got = "cancelled" ->
                        [state |-> "not_connected", phase |-> "cancelled"]
                   [] OTHER -> [state |-> "failed", phase |-> "failed"]]
    /\ UNCHANGED <<world, release, proof, cancel, sandboxes, answered, tests, moves, crashes>>

Close(s) ==
    /\ test[s].pc = "closing"
    /\ test' = [test EXCEPT ![s] = NoTest]
    /\ cancel' = [cancel EXCEPT ![s] = "none"]
    /\ UNCHANGED <<world, release, proof, run, sandboxes, answered, tests, moves, crashes>>

\* While a canary is still to be launched, or runs.
Stoppable == {"probe", "sandbox", "invoke", "invoking", "plain", "retrying", "prove", "proving"}

\* The human cancels a test, or the result of one that is over.
Cancel(s) ==
    /\ run[s] # NoRun /\ run[s].phase # "cancelling" /\ Progress(s, "cancelling")
    /\ cancel' = [cancel EXCEPT ![s] = IF @ = "none" THEN "none" ELSE "set"]
    /\ test' = IF test[s].pc \in Stoppable THEN [test EXCEPT ![s].stopped = TRUE] ELSE test
    /\ UNCHANGED <<world, release, proof, sandboxes, answered, tests, moves, crashes>>

-----------------------------------------------------------------------------
(* The recovery of a managed agent.                                        *)

\* A CLI whose resume was rejected is not asked again; without a test the
\* attempt is the test.
ResumeAllowed == row = NoRow \/ row.resume # "unsupported"

\* Mutant: the id stays.
KeepId(id) == id

\* The id is consumed when it is used.
Consume(id) == 0

\* _turn_agent: after a failure, the provider session is resumed.
TakeTurn ==
    /\ agent.pc = "idle"
    /\ IF agent.failed /\ agent.id # 0 /\ Resume # "no" /\ ResumeAllowed
       THEN /\ agent' = [pc |-> "turn", failed |-> FALSE, id |-> Consume(agent.id),
                         pending |-> TRUE]
            /\ used' = [used EXCEPT ![agent.id] = @ + 1]
       ELSE agent' = [agent EXCEPT !.pc = "turn", !.failed = FALSE] /\ UNCHANGED used
    /\ UNCHANGED <<world, release, row, test, run, cancel, sandboxes, answered,
                   tests, moves, crashes>>

\* A completed turn leaves the id of its provider session, if the stream
\* told one: a new one, or the one that was resumed (the state bridge).  It
\* completes a resume that was only supposed to work (_observe_turn).
TurnCompletes ==
    /\ agent.pc = "turn"
    /\ \/ agent' = [agent EXCEPT !.pc = "idle", !.pending = FALSE] /\ UNCHANGED used
       \/ \E id \in 1..MaxIds :
             agent' = [NoAgent EXCEPT !.id = id] /\ used' = [used EXCEPT ![id] = 0]
    /\ row' = IF agent.pending /\ row.resume = "unverified"
              THEN [row EXCEPT !.resume = "verified"] ELSE row
    /\ UNCHANGED <<world, release, test, run, cancel, sandboxes, answered, tests,
                   moves, crashes>>

TurnFails ==
    /\ agent.pc = "turn"
    /\ \E failed \in BOOLEAN :          \* a cancelled turn is no failure
          agent' = [agent EXCEPT !.pc = "idle", !.pending = FALSE, !.failed = failed]
    /\ UNCHANGED <<world, release, row, used, test, run, cancel, sandboxes,
                   answered, tests, moves, crashes>>

\* The breaker's one replacement starts without a provider session.
Replace ==
    /\ agent.pc = "idle" /\ agent.failed /\ agent' = NoAgent
    /\ UNCHANGED <<world, release, row, used, test, run, cancel, sandboxes,
                   answered, tests, moves, crashes>>

-----------------------------------------------------------------------------
\* Between the probe of a test and the answer of its canary.
Canary == {"sandbox", "invoke", "invoking", "plain", "retrying"}

\* The human moves, upgrades or removes the CLI, or signs in or out; a test
\* that was probed before is unsteady.
WorldMoves ==
    /\ moves < MaxMoves /\ moves' = moves + 1
    /\ \/ \E p \in Paths \ {world.path} : world' = [world EXCEPT !.path = p]
       \/ \E v \in Versions \ {world.version} : world' = [world EXCEPT !.version = v]
       \/ world' = [world EXCEPT !.signed = ~@]
    /\ test' = [s \in Servers |->
                   IF test[s].pc \in Canary
                   THEN [test[s] EXCEPT !.steady = FALSE] ELSE test[s]]
    /\ UNCHANGED <<release, proof, run, cancel, sandboxes, answered, tests, crashes>>

\* A server ends, and starts again, perhaps as a later release.
Crash(s) ==
    /\ crashes < MaxCrashes /\ crashes' = crashes + 1
    /\ test' = [test EXCEPT ![s] = NoTest] /\ run' = [run EXCEPT ![s] = NoRun]
    /\ cancel' = [cancel EXCEPT ![s] = "none"]
    /\ \E r \in {q \in Releases : q >= release[s]} : release' = [release EXCEPT ![s] = r]
    /\ agent' = [agent EXCEPT !.pc = "idle", !.pending = FALSE]
    /\ UNCHANGED <<world, row, used, sandboxes, answered, tests, moves>>

Test(s) == \/ Probe(s) \/ MakeSandbox(s) \/ Launch(s) \/ Invoke(s) \/ InvokePlain(s)
           \/ ProveResume(s) \/ VerifyResume(s) \/ Save(s) \/ Settle(s) \/ Close(s)

Next == \/ \E s \in Servers : StartTest(s) \/ Test(s) \/ Cancel(s) \/ Crash(s)
        \/ TakeTurn \/ TurnCompletes \/ TurnFails \/ Replace \/ WorldMoves

\* A canary answers or runs out of time, and threads run.
Spec == Init /\ [][Next]_vars /\ \A s \in Servers : WF_vars(Test(s))

-----------------------------------------------------------------------------
(* What the code must keep.                                                *)

FactsType == [path : Paths, version : Versions \cup {Unknown}, release : Nat,
              signed : BOOLEAN]
ResumeState == {"verified", "unverified", "unsupported"}
Got == {"none", "streamed", "plain", "rejected", "failed", "timeout",
        "cancelled", "connected"}

TypeOK ==
    /\ world \in Worlds /\ release \in [Servers -> Releases]
    /\ row \in [state : {"none", "connected", "failed"}, facts : FactsType,
                resume : ResumeState, steady : BOOLEAN]
    /\ test \in [Servers -> [pc : Stoppable \cup {"idle", "resume", "save", "settle",
                                                 "closing"},
                             facts : FactsType, got : Got, resume : ResumeState,
                             steady : BOOLEAN, stopped : BOOLEAN, timed : BOOLEAN]]
    /\ run \in [Servers -> [state : {"not_connected", "testing", "connected", "failed"},
                            phase : {"idle", "starting", "invoking", "proving", "cancelling",
                                     "done", "failed", "cancelled"}]]
    /\ cancel \in [Servers -> {"none", "clear", "set"}]
    /\ sandboxes \subseteq Servers
    /\ agent \in [pc : {"idle", "turn"}, failed : BOOLEAN, id : 0..MaxIds, pending : BOOLEAN]

\* A CLI as it is now installed answered a canary, and nobody signed out since.
Answered(s) ==
    \E cli \in answered :
        /\ cli.path = world.path /\ cli.version = world.version
        /\ cli.release = release[s] /\ cli.signed => world.signed

\* A green that two complete probes agree on is of a CLI that answered a
\* canary as it is installed now, unless it was changed during that test:
\* no upgrade, removal, sign-out or new release leaves a stale proof.
GreenStands ==
    \A s \in Servers : \A facts \in Reports(s) :
        (/\ Shown(facts) = "connected" /\ row.steady
         /\ Unknown \notin {facts.version, row.facts.version}) => Answered(s)

\* "A cancelled test stores nothing", and the earlier proof stands, wherever
\* the cancel comes while a canary is to be launched or runs, be it the first,
\* the plain one or the one that resumes; unless that canary had just run out
\* of time by itself.
CancelKeepsProof ==
    \A s \in Servers : test[s].pc = "save" /\ test[s].stopped => test[s].timed

\* A failed resume never loops: a provider session is resumed once, although
\* the failure, the crash and the next turn all find the agent to be recovered,
\* until a completed turn tells it again.
ResumedOnce == \A i \in 1..MaxIds : used[i] <= 1

\* A test ends, cancelled or not, and leaves no sandbox behind: only a crash does.
TestEnds ==
    \A s \in Servers :
        run[s].state = "testing"
            ~> run[s].state # "testing" /\ (s \notin sandboxes \/ crashes > 0)

-----------------------------------------------------------------------------
(* What a comment says and the code does not do.                           *)

\* "when the executable path, version, adapter revision, or cached-auth
\* indication has changed since the test, the state downgrades ... never a
\* silent stale green" (doctor.py, connection_state).
NoStaleGreen ==
    \A s \in Servers : \A facts \in Reports(s) :
        Shown(facts) = "connected" => Answered(s)

\* "A cancelled test stores nothing" (doctor.py, run_connection_test), whenever
\* it was cancelled.
CancelStoresNothing ==
    \A s \in Servers : test[s].pc = "save" => cancel[s] # "set"
=============================================================================
