----------------------------- MODULE SuiteRunner -----------------------------
(* The suite of one script: suiteRunner.Run of internal/app/executor. The    *)
(* script is prepared, run on its tests one after the other until one fails, *)
(* and the outcome is folded into a report; the prepared script is closed    *)
(* last. What Prepare and PreparedScript.Run return is external here: module *)
(* ContainerRun shows which outcomes the Docker engine produces.             *)
EXTENDS Integers

CONSTANTS
    MaxTests,    \* bound on the tests of a script
    Outputs,     \* the outputs and expectations told apart
    Empty,       \* the empty output
    ExitCodes    \* the exit codes told apart, 0 among them

ASSUME SuiteAssumption ==
    /\ MaxTests \in Nat
    /\ Empty \in Outputs
    /\ ExitCodes \subseteq Int
    /\ 0 \in ExitCodes

VARIABLES
    numTests,   \* tests of the script
    expected,   \* their expected outputs
    pc,         \* where Run is
    prepared,   \* the prepared script: none, open or closed
    idx,        \* the test executeTest is at
    results,    \* the slice of test results, allocated blank
    overall,    \* the suite's status so far
    runErr,     \* the test whose error is kept, 0 for none
    ran,        \* what each call of PreparedScript.Run returned
    report      \* the report that will be returned

vars == <<numTests, expected, pc, prepared, idx, results, overall, runErr, ran, report>>

script == <<numTests, expected>>

Tests == 1..numTests
EngineStatuses == {"OK", "TL", "ML"}
TestStatuses == {"unset", "OK", "WA", "TL", "ML", "-"}

\* What one call of Run gives back: a result or an error, never both.
Result(s, o, e) ==
    [finished |-> TRUE, err |-> FALSE, status |-> s, stdout |-> o, exit |-> e]
Failure ==
    [finished |-> FALSE, err |-> TRUE, status |-> "unset", stdout |-> Empty, exit |-> 0]
NotCalled ==
    [finished |-> FALSE, err |-> FALSE, status |-> "unset", stdout |-> Empty, exit |-> 0]
RunOutcomes ==
    {Result(s, o, e) : s \in EngineStatuses, o \in Outputs, e \in ExitCodes} \cup {Failure}

TestResult(s, o, e, f) == [status |-> s, stdout |-> o, exit |-> e, error |-> f]
Blank == TestResult("unset", Empty, 0, FALSE)
NotRun == TestResult("-", Empty, 0, FALSE)
TestResults ==
    [status : TestStatuses, stdout : Outputs, exit : ExitCodes, error : BOOLEAN]

Report(k, s, o, e, f) == [kind |-> k, status |-> s, stdout |-> o, exit |-> e, err |-> f]
NoReport == Report("none", "unset", Empty, 0, FALSE)
Reports ==
    [kind : {"none", "failed", "build", "single", "suite"},
     status : TestStatuses \cup {"BF"}, stdout : Outputs, exit : ExitCodes, err : BOOLEAN]

Init ==
    /\ numTests \in 0..MaxTests
    /\ expected \in [Tests -> Outputs]
    /\ pc = "prepare"
    /\ prepared = "none"
    /\ idx = 1
    /\ results = [i \in Tests |-> Blank]
    /\ overall = "OK"
    /\ runErr = 0
    /\ ran = [i \in Tests |-> NotCalled]
    /\ report = NoReport

-----------------------------------------------------------------------------
(* Prepare, and the early returns that need no prepared script.              *)

\* An error, or neither a script nor a build result: the report holds an error
\* only.
PrepareFails ==
    /\ pc = "prepare"
    /\ report' = Report("failed", "unset", Empty, 0, TRUE)
    /\ pc' = "reported"
    /\ UNCHANGED <<script, prepared, idx, results, overall, runErr, ran>>

\* The compiler rejected the source.
BuildFails ==
    /\ pc = "prepare"
    /\ \E o \in Outputs, e \in ExitCodes : report' = Report("build", "BF", o, e, FALSE)
    /\ pc' = "reported"
    /\ UNCHANGED <<script, prepared, idx, results, overall, runErr, ran>>

PrepareSucceeds ==
    /\ pc = "prepare"
    /\ prepared' = "open"
    /\ pc' = IF numTests = 0 THEN "single" ELSE "test"
    /\ UNCHANGED <<script, idx, results, overall, runErr, ran, report>>

-----------------------------------------------------------------------------
\* Mutant of RunSingle: the report of a single run skips the deferred close.
RunSingleUnclosed(out) ==
    /\ pc = "single"
    /\ report' = Report("single", out.status, out.stdout, out.exit, out.err)
    /\ pc' = "reported"
    /\ UNCHANGED <<script, prepared, idx, results, overall, runErr, ran>>

\* A script without tests is run once; the report is what the run returned.
RunSingle(out) ==
    /\ pc = "single"
    /\ report' = Report("single", out.status, out.stdout, out.exit, out.err)
    /\ pc' = "close"
    /\ UNCHANGED <<script, prepared, idx, results, overall, runErr, ran>>

\* Mutant of Judge: the output is not compared.
JudgeUncompared(out, want) ==
    IF out.finished /\ out.status # "unset" THEN out.status ELSE "OK"

\* The status of a test: a run without a status counts as OK, and an OK is
\* kept only if the output is the expected one.
Judge(out, want) ==
    LET status == IF out.finished /\ out.status # "unset" THEN out.status ELSE "OK"
    IN  IF status = "OK" /\ out.stdout # want THEN "WA" ELSE status

\* Mutant of Failing: a failure does not stop the suite.
NeverFailing == FALSE

Failing == overall # "OK"

\* executeTest after a failure: the test is marked and not run.
SkipTest ==
    /\ pc = "test"
    /\ idx <= numTests
    /\ Failing
    /\ results' = [results EXCEPT ![idx] = NotRun]
    /\ idx' = idx + 1
    /\ UNCHANGED <<script, pc, prepared, overall, runErr, ran, report>>

\* Mutant of KeepError: the last error wins.
KeepLastError(out) == out.err

KeepError(out) == out.err /\ runErr = 0

RunTest(out) ==
    /\ pc = "test"
    /\ idx <= numTests
    /\ ~Failing
    /\ ran' = [ran EXCEPT ![idx] = out]
    /\ runErr' = IF KeepError(out) THEN idx ELSE runErr
    /\ results' = [results EXCEPT ![idx] =
          TestResult(Judge(out, expected[idx]), out.stdout, out.exit, KeepError(out))]
    /\ overall' = Judge(out, expected[idx])
    /\ idx' = idx + 1
    /\ UNCHANGED <<script, pc, prepared, report>>

-----------------------------------------------------------------------------
\* Mutant of Latest: the first of the tests.
Earliest(S) == CHOOSE i \in S : \A j \in S : i <= j

Latest(S) == CHOOSE i \in S : \A j \in S : j <= i

\* The output and the exit code of the last test that has one.
TailStdout ==
    LET Printed == {i \in Tests : results[i].stdout # Empty}
    IN  IF Printed = {} THEN Empty ELSE results[Latest(Printed)].stdout

TailExitCode ==
    LET Nonzero == {i \in Tests : results[i].exit # 0}
    IN  IF Nonzero = {} THEN 0 ELSE results[Latest(Nonzero)].exit

Finalize ==
    /\ pc = "test"
    /\ idx > numTests
    /\ report' = Report("suite", overall, TailStdout, TailExitCode, runErr # 0)
    /\ pc' = "close"
    /\ UNCHANGED <<script, prepared, idx, results, overall, runErr, ran>>

\* The deferred prepared.Close, once the report is made.
ClosePrepared ==
    /\ pc = "close"
    /\ prepared' = "closed"
    /\ pc' = "reported"
    /\ UNCHANGED <<script, idx, results, overall, runErr, ran, report>>

Reported == pc = "reported" /\ UNCHANGED vars

Next ==
    \/ PrepareFails
    \/ BuildFails
    \/ PrepareSucceeds
    \/ \E out \in RunOutcomes : RunSingle(out) \/ RunTest(out)
    \/ SkipTest
    \/ Finalize
    \/ ClosePrepared
    \/ Reported

Spec == Init /\ [][Next]_vars

-----------------------------------------------------------------------------
(* Properties.                                                               *)

\* Every variable stays in its type.
TypeOK ==
    /\ numTests \in 0..MaxTests
    /\ expected \in [Tests -> Outputs]
    /\ pc \in {"prepare", "single", "test", "close", "reported"}
    /\ prepared \in {"none", "open", "closed"}
    /\ idx \in 1..(numTests + 1)
    /\ results \in [Tests -> TestResults]
    /\ overall \in TestStatuses \ {"unset", "-"}
    /\ runErr \in 0..numTests
    /\ ran \in [Tests -> RunOutcomes \cup {NotCalled}]
    /\ report \in Reports

Called == {i \in Tests : ran[i] # NotCalled}

\* The first failure decides: the tests that were run are a prefix of the
\* suite, all of them passed except possibly the last, which then gives the
\* report its status, and every test after it is "-"; a suite is OK only when
\* all its tests were run (suite_runner.go 62-70, 90-129, 131-134).
FirstFailureDecides ==
    report.kind = "suite" =>
        \E k \in Tests :
            /\ Called = 1..k
            /\ \A i \in 1..(k - 1) : results[i].status = "OK"
            /\ \A i \in (k + 1)..numTests : results[i].status = "-"
            /\ report.status = results[k].status
            /\ k < numTests => results[k].status # "OK"

\* Every verdict on a run that finished is the one the run earned: the engine's
\* limit status as it is, otherwise OK or WA as the output is the expected one or
\* not; and no run that returned an error is charged with a limit
\* (suite_runner.go 106-123). What such a run is given instead is the subject of
\* VerdictMeansFinished.
VerdictGrounded ==
    report.kind = "suite" =>
        \A i \in Called :
            /\ results[i].status \in {"TL", "ML"} =>
                  ran[i].finished /\ ran[i].status = results[i].status
            /\ ran[i].finished /\ results[i].status = "WA" =>
                  ran[i].status = "OK" /\ ran[i].stdout # expected[i]
            /\ ran[i].finished /\ results[i].status = "OK" =>
                  ran[i].status = "OK" /\ ran[i].stdout = expected[i]

\* An error of any run reaches the report, although later runs go on without
\* one, and exactly one test carries its text: the first that failed
\* (suite_runner.go 100-104, 141-145).
ErrorReaches ==
    report.kind = "suite" =>
        LET Errors == {i \in Called : ran[i].err}
        IN  /\ report.err = (Errors # {})
            /\ \A i \in Tests :
                  results[i].error = (i \in Errors /\ \A j \in Errors : i <= j)

\* The report shows the output and the exit code of the last test that has one,
\* tests that were not run contributing none (suite_runner.go 148-173). This is
\* the code's rule and not the documents': README.md:515 calls the report's
\* output "aggregated if multiple tests", and its example (README.md:589-623)
\* shows an empty one over two tests that printed.
TailFromLastRun ==
    report.kind = "suite" =>
        /\ \/ report.stdout = Empty /\ \A i \in Called : ran[i].stdout = Empty
           \/ /\ report.stdout # Empty
              /\ \E i \in Called : /\ ran[i].stdout = report.stdout
                                 /\ \A j \in Called : j > i => ran[j].stdout = Empty
        /\ \/ report.exit = 0 /\ \A i \in Called : ran[i].exit = 0
           \/ /\ report.exit # 0
              /\ \E i \in Called : /\ ran[i].exit = report.exit
                                 /\ \A j \in Called : j > i => ran[j].exit = 0

\* A report is only returned with the prepared script closed, and one that was
\* never prepared is never closed (suite_runner.go 21-44).
PreparedReleased ==
    pc = "reported" =>
        (prepared = "closed" <=> report.kind \in {"single", "suite"})

\* result.go:9 "StatusOK indicates that the script finished within the
\* configured limits" and result.go:11 "StatusWrongAnswer indicates that the
\* script finished but produced an unexpected output": a test marked OK or WA has
\* had its script run to its end.
VerdictMeansFinished ==
    \A i \in Tests : results[i].status \in {"OK", "WA"} => ran[i].finished

-----------------------------------------------------------------------------
(* The inductive invariant of the proofs in SuiteRunnerProofs.               *)

\* Tests before idx are settled: run and passed, the failing one, or skipped
\* behind it. Tests from idx on are blank.
Settled ==
    /\ \A i \in Tests :
          /\ i >= idx => ran[i] = NotCalled /\ results[i] = Blank
          /\ i < idx /\ ran[i] = NotCalled =>
                results[i] = NotRun
          /\ ran[i] # NotCalled =>
                /\ results[i].status = Judge(ran[i], expected[i])
                /\ results[i].stdout = ran[i].stdout
                /\ results[i].exit = ran[i].exit
    /\ \/ overall = "OK" /\ \A i \in Tests : i < idx =>
             ran[i] # NotCalled /\ results[i].status = "OK"
       \/ \E k \in Tests :
             /\ k < idx
             /\ overall # "OK" /\ overall = results[k].status
             /\ \A i \in Tests :
                   /\ i <= k => ran[i] # NotCalled
                   /\ i < k => results[i].status = "OK"
                   /\ i > k => ran[i] = NotCalled

\* runErr names the first run that returned an error.
FirstError ==
    /\ runErr = 0 => \A i \in Tests : ~ran[i].err
    /\ runErr # 0 => ran[runErr].err /\ \A i \in Tests : ran[i].err => runErr <= i
    /\ \A i \in Tests : results[i].error <=> i = runErr

\* Where Run is determines what it holds.
Stage ==
    /\ pc \in {"prepare", "single", "test"} => report.kind = "none"
    /\ pc = "prepare" => idx = 1 /\ prepared = "none"
    /\ pc = "test" => numTests >= 1
    /\ prepared = "open" <=> pc \in {"single", "test", "close"}
    /\ pc = "reported" => (prepared = "closed" <=> report.kind \in {"single", "suite"})
    /\ pc = "close" => report.kind \in {"single", "suite"}
    /\ report.kind = "suite" =>
          /\ idx = numTests + 1 /\ numTests >= 1
          /\ report.status = overall /\ report.err = (runErr # 0)
          /\ report.stdout = TailStdout /\ report.exit = TailExitCode

\* What holds between the calls of executeTest, and until the report is
\* returned (suite_runner.go 20-146).
IndInv == TypeOK /\ Settled /\ FirstError /\ Stage
==============================================================================
