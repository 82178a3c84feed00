-------------------------- MODULE SuiteRunnerProofs --------------------------
(* Theorems about SuiteRunner for suites of any length, over any outputs and *)
(* any exit codes.                                                           *)
EXTENDS SuiteRunner, WellFoundedInduction, TLAPS

-----------------------------------------------------------------------------
(* Lemmas about the operators.                                               *)

\* The verdict of one run is a status a test can have: the engine's limit status
\* of a run that finished, or OK or WA by the output.
LEMMA JudgeFacts ==
    ASSUME NEW out \in RunOutcomes, NEW want \in Outputs
    PROVE  /\ Judge(out, want) \in {"OK", "WA", "TL", "ML"}
           /\ Judge(out, want) = "OK" => out.stdout = want
           /\ Judge(out, want) = "WA" => out.stdout # want
           /\ Judge(out, want) \in {"OK", "WA"} /\ out.finished => out.status = "OK"
           /\ Judge(out, want) \in {"TL", "ML"} =>
                 out.finished /\ out.status = Judge(out, want)
BY DEF Judge, RunOutcomes, Result, Failure, EngineStatuses

LEMMA OutcomeFacts ==
    ASSUME NEW out \in RunOutcomes
    PROVE  /\ out # NotCalled
           /\ out.stdout \in Outputs /\ out.exit \in ExitCodes
           /\ out.err \in BOOLEAN /\ out.status \in TestStatuses
<1>1. CASE out = Failure
    BY <1>1, SuiteAssumption DEF Failure, NotCalled, TestStatuses
<1>2. CASE out # Failure
    <2>1. PICK s \in EngineStatuses, o \in Outputs, e \in ExitCodes : out = Result(s, o, e)
        BY <1>2 DEF RunOutcomes
    <2> QED
        BY <2>1 DEF Result, NotCalled, EngineStatuses, TestStatuses
<1> QED
    BY <1>1, <1>2

\* A set of tests that is not empty has a last one.
LEMMA LatestFacts ==
    ASSUME NEW n \in Nat, NEW S \in SUBSET (1..n), S # {}
    PROVE  Latest(S) \in S /\ \A j \in S : j <= Latest(S)
<1> DEFINE Mirror == {n - i : i \in S}
<1>1. Mirror \subseteq Nat /\ Mirror # {}
    <2>1. \A i \in S : n - i \in Nat
        OBVIOUS
    <2>2. PICK i \in S : TRUE
        OBVIOUS
    <2>3. n - i \in Mirror
        OBVIOUS
    <2> QED
        BY <2>1, <2>3
<1>2. PICK x \in Mirror : \A y \in Mirror : ~ (<<y, x>> \in OpToRel(<, Nat))
    BY <1>1, NatLessThanWellFounded, WFMin
<1>3. \A y \in Mirror : ~ (y < x)
    BY <1>1, <1>2 DEF OpToRel
<1>4. PICK i \in S : x = n - i
    OBVIOUS
<1>5. \A j \in S : j <= i
    <2> SUFFICES ASSUME NEW j \in S PROVE j <= i
        OBVIOUS
    <2>1. n - j \in Mirror /\ i \in Int /\ j \in Int
        OBVIOUS
    <2> QED
        BY <1>3, <1>4, <2>1
<1> QED
    BY <1>5 DEF Latest

\* The tails of the report are fields of a test result, or blank.
LEMMA TailFacts ==
    ASSUME TypeOK
    PROVE  /\ TailStdout \in Outputs
           /\ TailStdout = Empty => \A i \in Tests : results[i].stdout = Empty
           /\ TailStdout # Empty => \E i \in Tests :
                 /\ results[i].stdout = TailStdout
                 /\ \A j \in Tests : j > i => results[j].stdout = Empty
           /\ TailExitCode \in ExitCodes
           /\ TailExitCode = 0 => \A i \in Tests : results[i].exit = 0
           /\ TailExitCode # 0 => \E i \in Tests :
                 /\ results[i].exit = TailExitCode
                 /\ \A j \in Tests : j > i => results[j].exit = 0
<1> DEFINE Printed == {i \in Tests : results[i].stdout # Empty}
           Nonzero == {i \in Tests : results[i].exit # 0}
<1>1. numTests \in Nat /\ Printed \in SUBSET (1..numTests) /\ Nonzero \in SUBSET (1..numTests)
    BY SuiteAssumption DEF TypeOK, Tests
<1>2. \A i \in Tests : results[i].stdout \in Outputs /\ results[i].exit \in ExitCodes
    BY DEF TypeOK, TestResults
<1>3. Printed = {} => TailStdout = Empty
    BY DEF TailStdout
<1>4. Printed # {} => /\ TailStdout = results[Latest(Printed)].stdout
                      /\ Latest(Printed) \in Printed
                      /\ \A j \in Printed : j <= Latest(Printed)
    BY <1>1, LatestFacts DEF TailStdout
<1>5. Nonzero = {} => TailExitCode = 0
    BY DEF TailExitCode
<1>6. Nonzero # {} => /\ TailExitCode = results[Latest(Nonzero)].exit
                      /\ Latest(Nonzero) \in Nonzero
                      /\ \A j \in Nonzero : j <= Latest(Nonzero)
    BY <1>1, LatestFacts DEF TailExitCode
<1>7. TailExitCode \in ExitCodes /\ (TailExitCode = 0 => Nonzero = {})
    BY <1>2, <1>5, <1>6, SuiteAssumption
<1>8. TailStdout \in Outputs /\ (TailStdout = Empty => Printed = {})
    BY <1>2, <1>3, <1>4, SuiteAssumption
<1>9. ASSUME Printed # {}
      PROVE  \E i \in Tests : /\ results[i].stdout = TailStdout
                              /\ \A j \in Tests : j > i => results[j].stdout = Empty
    <2>1. \A j \in Tests : j > Latest(Printed) => j \notin Printed
        BY <1>1, <1>4, <1>9 DEF Tests
    <2> QED
        BY <1>4, <1>9, <2>1
<1>10. ASSUME Nonzero # {}
       PROVE  \E i \in Tests : /\ results[i].exit = TailExitCode
                               /\ \A j \in Tests : j > i => results[j].exit = 0
    <2>1. \A j \in Tests : j > Latest(Nonzero) => j \notin Nonzero
        BY <1>1, <1>6, <1>10 DEF Tests
    <2> QED
        BY <1>6, <1>10, <2>1
<1> QED
    BY <1>3, <1>5, <1>7, <1>8, <1>9, <1>10

-----------------------------------------------------------------------------
(* The inductive invariant.                                                  *)

LEMMA InitIndInv == Init => IndInv
<1> SUFFICES ASSUME Init PROVE IndInv
    OBVIOUS
<1> USE SuiteAssumption DEF Init
<1>1. Blank \in TestResults /\ NoReport \in Reports
    BY DEF Blank, TestResult, TestResults, TestStatuses, NoReport, Report, Reports
<1>2. TypeOK
    BY <1>1 DEF TypeOK, TestStatuses
<1>3. Settled
    BY DEF Settled, Tests
<1>4. FirstError
    BY DEF FirstError, Tests, NotCalled, Blank, TestResult
<1>5. Stage
    BY DEF Stage, NoReport, Report
<1> QED
    BY <1>2, <1>3, <1>4, <1>5 DEF IndInv

\* Every step leaves the tests as they are but the two that judge one.
LEMMA FrameIndInv ==
    ASSUME IndInv,
           \/ PrepareFails \/ BuildFails \/ PrepareSucceeds \/ Finalize
           \/ ClosePrepared \/ UNCHANGED vars
           \/ \E out \in RunOutcomes : RunSingle(out)
    PROVE  IndInv'
<1> USE SuiteAssumption DEF IndInv, script
<1>1. UNCHANGED <<numTests, expected, idx, results, overall, runErr, ran>>
    BY DEF PrepareFails, BuildFails, PrepareSucceeds, Finalize, ClosePrepared,
           RunSingle, vars
<1>2. Tests' = Tests /\ TailStdout' = TailStdout /\ TailExitCode' = TailExitCode
    BY <1>1 DEF Tests, TailStdout, TailExitCode
<1>3. report' \in Reports
    <2>1. ASSUME NEW k \in {"failed", "build", "single", "suite"},
                 NEW s \in TestStatuses \cup {"BF"}, NEW o \in Outputs,
                 NEW e \in ExitCodes, NEW f \in BOOLEAN
          PROVE  Report(k, s, o, e, f) \in Reports
        BY DEF Report, Reports
    <2>2. CASE PrepareFails
        BY <2>1, <2>2 DEF PrepareFails, TestStatuses
    <2>3. CASE BuildFails
        BY <2>1, <2>3 DEF BuildFails, TestStatuses
    <2>4. CASE Finalize
        BY <2>1, <2>4, TailFacts DEF Finalize, TypeOK
    <2>5. ASSUME NEW out \in RunOutcomes, RunSingle(out) PROVE report' \in Reports
        BY <2>1, <2>5, OutcomeFacts DEF RunSingle
    <2>6. CASE PrepareSucceeds \/ ClosePrepared \/ UNCHANGED vars
        BY <2>6 DEF PrepareSucceeds, ClosePrepared, vars, TypeOK
    <2> QED
        BY <2>2, <2>3, <2>4, <2>5, <2>6
<1>4. TypeOK'
    <2>1. pc' \in {"prepare", "single", "test", "close", "reported"}
          /\ prepared' \in {"none", "open", "closed"}
        BY DEF TypeOK, PrepareFails, BuildFails, PrepareSucceeds, Finalize,
               ClosePrepared, RunSingle, vars
    <2> QED
        BY <1>1, <1>2, <1>3, <2>1 DEF TypeOK
<1>5. Settled' /\ FirstError'
    BY <1>1, <1>2 DEF Settled, FirstError
<1>6. Stage'
    <2>1. CASE PrepareFails
        BY <2>1 DEF PrepareFails, Stage, Report
    <2>2. CASE BuildFails
        BY <2>2 DEF BuildFails, Stage, Report
    <2>3. CASE PrepareSucceeds
        BY <2>3 DEF PrepareSucceeds, Stage, TypeOK
    <2>4. CASE Finalize
        BY <1>1, <1>2, <2>4 DEF Finalize, Stage, Report, TypeOK
    <2>5. CASE ClosePrepared \/ UNCHANGED vars
        BY <1>1, <1>2, <2>5 DEF ClosePrepared, vars, Stage
    <2>6. ASSUME NEW out \in RunOutcomes, RunSingle(out) PROVE Stage'
        BY <2>6 DEF RunSingle, Stage, Report
    <2> QED
        BY <2>1, <2>2, <2>3, <2>4, <2>5, <2>6
<1> QED
    BY <1>4, <1>5, <1>6

\* A test behind the failure is marked "-".
LEMMA SkipIndInv ==
    ASSUME IndInv, SkipTest
    PROVE  IndInv'
<1> USE SuiteAssumption DEF IndInv, SkipTest, script, Failing
<1>1. idx \in Tests /\ Tests' = Tests /\ NotRun \in TestResults
    BY DEF TypeOK, Tests, NotRun, TestResult, TestResults, TestStatuses
<1>2. \A i \in Tests : results'[i] = IF i = idx THEN NotRun ELSE results[i]
    BY <1>1 DEF TypeOK
<1>3. TypeOK'
    BY <1>1 DEF TypeOK, Tests
<1>4. Settled'
    <2>1. ran[idx] = NotCalled
        BY <1>1 DEF Settled, TypeOK, Tests
    <2>2. \A i \in Tests :
             /\ i >= idx + 1 => ran[i] = NotCalled /\ results'[i] = Blank
             /\ i < idx + 1 /\ ran[i] = NotCalled => results'[i] = NotRun
             /\ ran[i] # NotCalled => results'[i] = results[i]
        BY <1>1, <1>2, <2>1 DEF Settled, TypeOK, Tests
    <2>3. PICK k \in Tests :
             /\ k < idx /\ overall = results[k].status
             /\ \A i \in Tests : /\ i <= k => ran[i] # NotCalled
                                 /\ i < k => results[i].status = "OK"
                                 /\ i > k => ran[i] = NotCalled
        BY DEF Settled
    <2>4. /\ k < idx + 1 /\ results'[k] = results[k]
          /\ \A i \in Tests : i < k => results'[i] = results[i]
        BY <1>1, <1>2, <2>3 DEF TypeOK, Tests
    <2>5. overall # "OK" /\ overall' = overall /\ ran' = ran /\ idx' = idx + 1
          /\ expected' = expected
        OBVIOUS
    <2>6. \A i \in Tests : ran[i] # NotCalled =>
             /\ results[i].status = Judge(ran[i], expected[i])
             /\ results[i].stdout = ran[i].stdout
             /\ results[i].exit = ran[i].exit
        BY DEF Settled
    <2> QED
        BY <1>1, <2>2, <2>3, <2>4, <2>5, <2>6 DEF Settled
<1>5. FirstError'
    <2>1. runErr # idx
        BY <1>1 DEF Settled, FirstError, NotCalled, TypeOK, Tests
    <2> QED
        BY <1>1, <1>2, <2>1 DEF FirstError, NotRun, TestResult
<1>6. Stage'
    BY DEF Stage
<1> QED
    BY <1>3, <1>4, <1>5, <1>6

\* A test is run only while every test before it has passed; its verdict
\* becomes the suite's.
LEMMA RunIndInv ==
    ASSUME IndInv, NEW out \in RunOutcomes, RunTest(out)
    PROVE  IndInv'
<1> USE SuiteAssumption DEF IndInv, script
<1> DEFINE verdict == Judge(out, expected[idx])
           result == TestResult(verdict, out.stdout, out.exit, KeepError(out))
<1>1. /\ idx \in Tests /\ Tests' = Tests /\ expected[idx] \in Outputs
      /\ overall = "OK" /\ overall' = verdict /\ idx' = idx + 1
      /\ UNCHANGED <<numTests, expected, pc, prepared, report>>
    BY DEF RunTest, Failing, TypeOK, Tests
<1>2. verdict \in {"OK", "WA", "TL", "ML"}
    BY <1>1, JudgeFacts
<1>3. /\ out # NotCalled /\ out.stdout \in Outputs /\ out.exit \in ExitCodes
      /\ out.err \in BOOLEAN
    BY OutcomeFacts
<1>4. /\ \A i \in Tests : results'[i] = IF i = idx THEN result ELSE results[i]
      /\ \A i \in Tests : ran'[i] = IF i = idx THEN out ELSE ran[i]
      /\ runErr' = IF KeepError(out) THEN idx ELSE runErr
    BY <1>1 DEF RunTest, TypeOK
<1>5. TypeOK'
    <2>1. KeepError(out) \in BOOLEAN
        BY <1>3 DEF KeepError
    <2>2. result \in TestResults
        BY <1>2, <1>3, <2>1 DEF TestResult, TestResults, TestStatuses
    <2>3. results' \in [Tests -> TestResults]
          /\ ran' \in [Tests -> RunOutcomes \cup {NotCalled}]
        BY <2>2 DEF TypeOK, RunTest
    <2>4. runErr' \in 0..numTests /\ idx' \in 1..(numTests + 1)
        BY <1>1, <1>4 DEF TypeOK, Tests
    <2> QED
        BY <1>1, <1>2, <2>3, <2>4 DEF TypeOK, TestStatuses
<1>6. Settled'
    <2>1. result.status = verdict /\ result.stdout = out.stdout /\ result.exit = out.exit
        BY DEF TestResult
    <2>2. \A i \in Tests : i < idx => ran[i] # NotCalled /\ results[i].status = "OK"
        BY <1>1 DEF Settled
    <2>3. \A i \in Tests :
             /\ i >= idx + 1 => ran'[i] = NotCalled /\ results'[i] = Blank
             /\ i < idx + 1 /\ ran'[i] = NotCalled => results'[i] = NotRun
             /\ ran'[i] # NotCalled =>
                   /\ results'[i].status = Judge(ran'[i], expected[i])
                   /\ results'[i].stdout = ran'[i].stdout
                   /\ results'[i].exit = ran'[i].exit
        BY <1>1, <1>3, <1>4, <2>1 DEF Settled, TypeOK, Tests
    <2>4. CASE verdict = "OK"
        <3>1. \A i \in Tests : i < idx + 1 => ran'[i] # NotCalled /\ results'[i].status = "OK"
            BY <1>1, <1>3, <1>4, <2>1, <2>2, <2>4 DEF TypeOK, Tests
        <3> QED
            BY <1>1, <2>3, <2>4, <3>1 DEF Settled
    <2>5. CASE verdict # "OK"
        <3>1. /\ idx < idx + 1 /\ verdict = results'[idx].status
              /\ \A i \in Tests :
                    /\ i <= idx => ran'[i] # NotCalled
                    /\ i < idx => results'[i].status = "OK"
                    /\ i > idx => ran'[i] = NotCalled
            BY <1>1, <1>3, <1>4, <2>1, <2>2 DEF Settled, TypeOK, Tests
        <3> QED
            BY <1>1, <2>3, <2>5, <3>1 DEF Settled
    <2> QED
        BY <2>4, <2>5
<1>7. FirstError'
    <2>1. result.error = KeepError(out) /\ ran[idx] = NotCalled /\ ~ NotCalled.err
        BY <1>1 DEF TestResult, Settled, TypeOK, Tests, NotCalled
    <2>2. runErr # idx /\ runErr \in 0..numTests
        BY <1>1, <2>1 DEF FirstError, TypeOK, Tests
    <2>3. runErr # 0 => runErr \in Tests /\ runErr < idx
        BY <1>1, <2>1, <2>2 DEF FirstError, Settled, TypeOK, Tests, NotCalled
    <2>4. ran'[idx] = out /\ results'[idx] = result
          /\ \A i \in Tests : i # idx => ran'[i] = ran[i] /\ results'[i] = results[i]
        BY <1>1, <1>4
    <2>5. idx \in Nat \ {0} /\ \A i \in Tests : i \in Nat \ {0}
        BY <1>1 DEF Tests
    <2>6. \A i \in Tests : i > idx => ~ ran[i].err
        BY <1>1, <2>1 DEF Settled, TypeOK, Tests
    <2>7. CASE KeepError(out)
        <3>1. runErr' = idx /\ out.err /\ \A i \in Tests : ~ ran[i].err
            BY <1>4, <2>7 DEF KeepError, FirstError
        <3>2. \A i \in Tests : ran'[i].err => idx <= i
            BY <2>4, <2>5, <3>1
        <3>3. \A i \in Tests : results'[i].error <=> i = idx
            BY <2>1, <2>2, <2>4, <2>5, <2>7, <3>1 DEF FirstError, KeepError
        <3> QED
            BY <1>1, <2>4, <2>5, <3>1, <3>2, <3>3 DEF FirstError
    <2>8. CASE ~KeepError(out)
        <3>1. runErr' = runErr /\ (runErr = 0 => ~ out.err)
            BY <1>4, <2>8 DEF KeepError
        <3>2. runErr = 0 => \A i \in Tests : ~ ran'[i].err
            BY <2>4, <3>1 DEF FirstError
        <3>3. runErr # 0 => ran'[runErr].err /\ \A i \in Tests : ran'[i].err => runErr <= i
            BY <2>3, <2>4, <2>5 DEF FirstError, Tests
        <3>4. \A i \in Tests : results'[i].error <=> i = runErr
            BY <2>1, <2>2, <2>4, <2>8 DEF FirstError
        <3> QED
            BY <1>1, <3>1, <3>2, <3>3, <3>4 DEF FirstError
    <2> QED
        BY <2>7, <2>8
<1>8. Stage'
    BY <1>1 DEF Stage, RunTest
<1> QED
    BY <1>5, <1>6, <1>7, <1>8

LEMMA NextIndInv == IndInv /\ [Next]_vars => IndInv'
<1> SUFFICES ASSUME IndInv, [Next]_vars PROVE IndInv'
    OBVIOUS
<1>1. CASE PrepareFails \/ BuildFails \/ PrepareSucceeds \/ Finalize
           \/ ClosePrepared \/ Reported \/ UNCHANGED vars
    BY <1>1, FrameIndInv DEF Reported
<1>2. ASSUME NEW out \in RunOutcomes, RunSingle(out) PROVE IndInv'
    BY <1>2, FrameIndInv
<1>3. ASSUME NEW out \in RunOutcomes, RunTest(out) PROVE IndInv'
    BY <1>3, RunIndInv
<1>4. CASE SkipTest
    BY <1>4, SkipIndInv
<1> QED
    BY <1>1, <1>2, <1>3, <1>4 DEF Next

\* The inductive invariant holds in every reachable state of a suite.
THEOREM InductiveInvariant == Spec => []IndInv
BY InitIndInv, NextIndInv, PTL DEF Spec

-----------------------------------------------------------------------------
(* What follows from it.                                                     *)

LEMMA SettledDecides == IndInv => FirstFailureDecides
<1> SUFFICES ASSUME IndInv, report.kind = "suite"
             PROVE  \E k \in Tests :
                       /\ Called = 1..k
                       /\ \A i \in 1..(k - 1) : results[i].status = "OK"
                       /\ \A i \in (k + 1)..numTests : results[i].status = "-"
                       /\ report.status = results[k].status
                       /\ k < numTests => results[k].status # "OK"
    BY DEF FirstFailureDecides
<1> USE SuiteAssumption DEF IndInv
<1>1. /\ idx = numTests + 1 /\ numTests \in Nat /\ numTests \in Tests
      /\ report.status = overall
    BY DEF Stage, TypeOK, Tests
<1>2. CASE overall = "OK" /\ \A i \in Tests : ran[i] # NotCalled /\ results[i].status = "OK"
    <2>1. Called = 1..numTests
        BY <1>2 DEF Called, Tests
    <2> QED
        BY <1>1, <1>2, <2>1 DEF Tests
<1>3. ASSUME NEW k \in Tests,
             overall # "OK", overall = results[k].status,
             \A i \in Tests : /\ i <= k => ran[i] # NotCalled
                              /\ i < k => results[i].status = "OK"
                              /\ i > k => ran[i] = NotCalled
      PROVE  /\ Called = 1..k
             /\ \A i \in 1..(k - 1) : results[i].status = "OK"
             /\ \A i \in (k + 1)..numTests : results[i].status = "-"
    <2>1. Called = 1..k
        BY <1>1, <1>3 DEF Called, Tests
    <2>2. \A i \in (k + 1)..numTests : i \in Tests /\ i < idx /\ ran[i] = NotCalled
        BY <1>1, <1>3 DEF Tests
    <2>3. \A i \in (k + 1)..numTests : results[i].status = "-"
        BY <2>2 DEF Settled, NotRun, TestResult
    <2> QED
        BY <1>1, <1>3, <2>1, <2>3 DEF Tests
<1>4. \A i \in Tests : i < idx
    BY <1>1 DEF Tests
<1> QED
    BY <1>1, <1>2, <1>3, <1>4 DEF Settled

\* In every report of a suite the first failing test decides, and a suite is OK
\* only if all its tests were run.
THEOREM FirstFailureRule == Spec => []FirstFailureDecides
BY InductiveInvariant, SettledDecides, PTL

LEMMA SettledGrounded == IndInv => VerdictGrounded
<1> SUFFICES ASSUME IndInv, NEW i \in Called
             PROVE  /\ results[i].status \in {"TL", "ML"} =>
                          ran[i].finished /\ ran[i].status = results[i].status
                    /\ ran[i].finished /\ results[i].status = "WA" =>
                          ran[i].status = "OK" /\ ran[i].stdout # expected[i]
                    /\ ran[i].finished /\ results[i].status = "OK" =>
                          ran[i].status = "OK" /\ ran[i].stdout = expected[i]
    BY DEF VerdictGrounded
<1>1. i \in Tests /\ ran[i] \in RunOutcomes /\ expected[i] \in Outputs
    BY DEF Called, IndInv, TypeOK
<1>2. results[i].status = Judge(ran[i], expected[i])
    BY <1>1 DEF Called, IndInv, Settled
<1> QED
    BY <1>1, <1>2, JudgeFacts

\* A run that finished has the verdict it earned, and one that returned an
\* error is not charged with a limit.
THEOREM VerdictsGrounded == Spec => []VerdictGrounded
BY InductiveInvariant, SettledGrounded, PTL

LEMMA FirstErrorReaches == IndInv => ErrorReaches
<1> SUFFICES ASSUME IndInv, report.kind = "suite" PROVE ErrorReaches
    BY DEF ErrorReaches
<1> DEFINE Errors == {i \in Called : ran[i].err}
<1>1. Errors = {i \in Tests : ran[i].err}
    BY DEF Called, NotCalled
<1>2. report.err = (runErr # 0) /\ runErr \in 0..numTests /\ numTests \in Nat
    BY SuiteAssumption DEF IndInv, Stage, TypeOK
<1>3. runErr # 0 => runErr \in Errors /\ \A j \in Errors : runErr <= j
    BY <1>1, <1>2 DEF IndInv, FirstError, Tests
<1>4. runErr = 0 => Errors = {}
    BY <1>1 DEF IndInv, FirstError
<1>5. \A i \in Tests : results[i].error <=> (i \in Errors /\ \A j \in Errors : i <= j)
    BY <1>2, <1>3, <1>4 DEF IndInv, FirstError, Tests, Called
<1>6. \A i \in Tests : results[i].error \in BOOLEAN
    BY DEF IndInv, TypeOK, TestResults
<1> QED
    BY <1>2, <1>3, <1>4, <1>5, <1>6 DEF ErrorReaches

\* An error of any run is in the report, and the first failing run's test
\* carries it.
THEOREM ErrorsReach == Spec => []ErrorReaches
BY InductiveInvariant, FirstErrorReaches, PTL

LEMMA TailsReported == IndInv => TailFromLastRun
<1> SUFFICES ASSUME IndInv, report.kind = "suite" PROVE TailFromLastRun
    BY DEF TailFromLastRun
<1>1. TypeOK /\ report.stdout = TailStdout /\ report.exit = TailExitCode /\ idx = numTests + 1
    BY DEF IndInv, Stage
<1>2. \A i \in Tests : i \notin Called => results[i].stdout = Empty /\ results[i].exit = 0
    BY <1>1, SuiteAssumption
    DEF IndInv, Settled, Called, Tests, TypeOK, NotRun, TestResult
<1>3. \A i \in Called : results[i].stdout = ran[i].stdout /\ results[i].exit = ran[i].exit
    BY DEF IndInv, Settled, Called
<1>4. Called \subseteq Tests
    BY DEF Called
<1>5. \/ report.stdout = Empty /\ \A i \in Called : ran[i].stdout = Empty
      \/ /\ report.stdout # Empty
         /\ \E i \in Called : /\ ran[i].stdout = report.stdout
                            /\ \A j \in Called : j > i => ran[j].stdout = Empty
    BY <1>1, <1>2, <1>3, <1>4, TailFacts
<1>6. \/ report.exit = 0 /\ \A i \in Called : ran[i].exit = 0
      \/ /\ report.exit # 0
         /\ \E i \in Called : /\ ran[i].exit = report.exit
                            /\ \A j \in Called : j > i => ran[j].exit = 0
    BY <1>1, <1>2, <1>3, <1>4, TailFacts
<1> QED
    BY <1>5, <1>6 DEF TailFromLastRun

\* The output and exit code of a report are those of the last test that ran
\* and had one.
THEOREM TailsFromLastRun == Spec => []TailFromLastRun
BY InductiveInvariant, TailsReported, PTL

\* A prepared script is closed before the report is returned, and only then.
THEOREM PreparedAlwaysReleased == Spec => []PreparedReleased
<1>1. IndInv => PreparedReleased
    BY DEF IndInv, Stage, PreparedReleased
<1> QED
    BY <1>1, InductiveInvariant, PTL
==============================================================================
