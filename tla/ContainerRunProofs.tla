-------------------------- MODULE ContainerRunProofs --------------------------
(* What a script's containers and its verdict are worth: the invariant that  *)
(* ties the runner's place to its container, and what follows from it.       *)
EXTENDS ContainerRun, TLAPS

\* A container has an end to tell of once its program has ended, and not before.
Ends ==
    /\ \A p \in Purposes :
         /\ box[p] \in {"none", "created", "running"} => exit[p] = "none"
         /\ box[p] = "exited" => exit[p] # "none"
    /\ exit["build"] # "killed"
    /\ exit["run"] = "killed" => pc \in {"rewait", "limitlogs", "cleanup", "returned"}

\* One container at a time: the other is not there yet, or is dealt with.
OneAtATime ==
    /\ phase = "build" => compiled /\ box["run"] = "none"
    /\ ~compiled => box["build"] = "none"
    /\ compiled /\ phase = "run" => box["build"] = "removed" \/ "build" \in unremoved

\* What the runner's next call says of its container, and which phase has it.
Place ==
    /\ pc = "create" => box[phase] = "none"
    /\ pc \in {"copy", "attach", "start"} => box[phase] = "created"
    /\ pc \in {"stdin", "wait", "stop"} => box[phase] \in {"running", "exited"}
    /\ pc \in {"inspect", "logs", "extract", "rewait", "limitlogs"} => box[phase] = "exited"
    /\ pc \in {"attach", "stdin", "stop", "rewait", "limitlogs"} => phase = "run"
    /\ pc = "extract" => phase = "build" /\ exit["build"] = "success"

\* Only a run with a time limit has a deadline, while it is waited for, and is
\* stopped only once that has passed.
Limited ==
    /\ timer # "off" => timeLimit /\ phase = "run"
    /\ timer = "armed" => pc = "wait"
    /\ timer = "fired" => overdue
    /\ overdue => timeLimit
    /\ pc \in {"stop", "rewait", "limitlogs"} => overdue

\* What is being returned has its ground in how the container ended.
Grounded ==
    /\ pc \notin {"cleanup", "returned"} => answer = "none" /\ fault = "none"
    /\ exit["run"] = "killed" =>
         /\ overdue
         /\ pc \in {"cleanup", "returned"} => answer = "TL" \/ fault = "daemon"
    /\ pc \in {"cleanup", "returned"} =>
         /\ answer # "none"
         /\ answer = "error" <=> fault # "none"
         /\ answer = "prepared" => pc = "cleanup" /\ phase = "build" /\ ~finishedLate
         /\ answer \in {"OK", "ML", "TL"} => phase = "run" /\ box["run"] \in {"exited", "removed"}
         /\ answer = "OK" => exit["run"] \in {"success", "failure"}
         /\ answer = "ML" => exit["run"] = "oom"
         /\ answer = "TL" => overdue /\ exit["run"] # "none"
         /\ answer = "BF" =>
              /\ phase = "build" /\ box["build"] \in {"exited", "removed"}
              /\ exit["build"] \in {"failure", "oom"}

\* A late finish of the program is read with a context of its own. A late
\* finish of the compiler goes no further: its binary cannot be copied out.
Late ==
    /\ finishedLate => cancelled
    /\ finishedLate /\ phase = "run" =>
         /\ pc \in {"inspect", "logs", "cleanup", "returned"}
         /\ pc \in {"inspect", "logs"} => callCtx = "background"
         /\ fault # "context"

\* At the end every container is removed or the daemon's.
Released ==
    pc = "returned" =>
        \A p \in Purposes : box[p] \in {"none", "removed"} \/ p \in stray \cup unremoved

IndInv ==
    /\ TypeOK /\ Ends /\ OneAtATime /\ Place /\ Limited /\ Grounded /\ Late /\ Released
-----------------------------------------------------------------------------
(* The invariant is kept, by the steps of each party.                        *)

LEMMA InitInv == Init => IndInv
BY DEF Init, Purposes, Calls, IndInv, TypeOK, Ends, OneAtATime, Place, Limited, Grounded,
       Late, Released

\* The signal, the program in a container and the clock.
LEMMA EnvironmentKeeps ==
    ASSUME IndInv, Cancel \/ TimerFires \/ \E p \in Purposes : ProgramExits(p)
    PROVE  IndInv'
<1> USE DEF Purposes, Calls, IndInv, TypeOK, Ends, OneAtATime, Place, Limited, Grounded,
            Late, Released, script, clock, leftovers, returning
<1>1. CASE Cancel
    BY <1>1 DEF Cancel
<1>2. CASE TimerFires
    BY <1>2 DEF TimerFires
<1>3. ASSUME NEW p \in Purposes, ProgramExits(p)
      PROVE  IndInv'
    BY <1>3 DEF ProgramExits
<1> QED
    BY <1>1, <1>2, <1>3

\* A creation that fails returns at once. The container it may have left is the
\* first of its phase, and the other one is as it should be.
LEMMA CreateFailsKeeps ==
    ASSUME IndInv, CreateFails
    PROVE  IndInv'
<1> USE DEF IndInv, CreateFails, script, clock, Purposes
<1>1. /\ pc' = "returned" /\ answer' = "error" /\ fault' \in {"daemon", "context"}
      /\ finishedLate => phase = "build"
    BY DEF Late, TypeOK
<1>2. /\ box[phase] = "none" /\ phase \in Purposes
      /\ \/ box' = box /\ stray' = stray
         \/ box' = [box EXCEPT ![phase] = "created"] /\ stray' = stray \cup {phase}
    BY DEF Place, TypeOK
<1>3. TypeOK'
    <2>1. UNCHANGED <<compiled, timeLimit, readsInput, phase, callCtx, cancelled, timer,
                      overdue, exit, unremoved, finishedLate>>
        OBVIOUS
    <2>2. /\ box' \in [Purposes -> {"none", "created", "running", "exited", "removed"}]
          /\ stray' \subseteq Purposes
        BY <1>2 DEF TypeOK
    <2> QED
        BY <1>1, <2>1, <2>2 DEF TypeOK, Calls
<1>4. Ends' /\ OneAtATime'
    BY <1>1, <1>2 DEF Ends, OneAtATime, TypeOK
<1>5. Place' /\ Limited' /\ Grounded' /\ Late'
    BY <1>1 DEF Place, Limited, Grounded, Late, Ends
<1>6. Released'
    BY <1>2 DEF Released, OneAtATime, TypeOK
<1> QED
    BY <1>3, <1>4, <1>5, <1>6

\* The calls up to the end of the wait.
LEMMA CallsKeep ==
    ASSUME IndInv,
           \/ Create \/ CopyFiles \/ Attach \/ Start \/ StartFails \/ WriteStdin
           \/ StdinBreaks \/ WaitExited \/ WaitTimesOut \/ WaitAborted \/ WaitBreaks
    PROVE  IndInv'
<1> USE DEF Purposes, Calls, IndInv, TypeOK, Ends, OneAtATime, Place, Limited, Grounded,
            Late, Released, script, clock, leftovers, returning, Return, Proceed, CallFails
<1>1. CASE Create
    BY <1>1 DEF Create, ContextLive
<1>2. CASE CopyFiles
    BY <1>2 DEF CopyFiles, ContextLive
<1>3. CASE Attach
    BY <1>3 DEF Attach
<1>4. CASE Start
    BY <1>4 DEF Start, ContextLive
<1>5. CASE StartFails
    BY <1>5 DEF StartFails
<1>6. CASE WriteStdin
    BY <1>6 DEF WriteStdin, Deadline
<1>7. CASE WaitExited
    BY <1>7 DEF WaitExited, ContextNow
<1>8. CASE WaitTimesOut
    BY <1>8 DEF WaitTimesOut, DeadlineExceeded
<1>9. CASE WaitAborted
    BY <1>9 DEF WaitAborted, ContextDone
<1>10. CASE WaitBreaks
    BY <1>10 DEF WaitBreaks
<1>11. CASE StdinBreaks
    BY <1>11 DEF StdinBreaks
<1> QED
    BY <1>1, <1>2, <1>3, <1>4, <1>5, <1>6, <1>7, <1>8, <1>9, <1>10, <1>11

\* What follows the end of the program, and what follows the time limit.
LEMMA ResultsKeep ==
    ASSUME IndInv,
           \/ Inspect \/ FetchLogs \/ Extract
           \/ Stop \/ StopFails \/ Rewait \/ LimitLogs
    PROVE  IndInv'
<1> USE DEF Purposes, Calls, IndInv, TypeOK, Ends, OneAtATime, Place, Limited, Grounded,
            Late, Released, script, clock, leftovers, returning, Return, Proceed
<1>1. CASE Inspect
    BY <1>1 DEF Inspect, CallGoesThrough, ChosenCallFails, ContextNow, ContextLive
<1>2. CASE FetchLogs
    BY <1>2 DEF FetchLogs, CallGoesThrough, ChosenCallFails, RunStatus, ContextLive
<1>3. CASE Extract
    BY <1>3 DEF Extract, CallFails, ContextLive
<1>4. CASE Stop
    BY <1>4 DEF Stop, StopBox
<1>5. CASE StopFails
    BY <1>5 DEF StopFails, StopBox
<1>6. CASE Rewait
    BY <1>6 DEF Rewait
<1>7. CASE LimitLogs
    BY <1>7 DEF LimitLogs
<1> QED
    BY <1>1, <1>2, <1>3, <1>4, <1>5, <1>6, <1>7

\* The removal, after which a prepared script goes on to its run.
LEMMA CleanupKeeps ==
    ASSUME IndInv, Cleanup
    PROVE  IndInv'
<1> USE DEF IndInv, Cleanup, script, Purposes
<1>1. /\ pc = "cleanup" /\ phase \in Purposes /\ timer' = "off"
      /\ \/ box' = [box EXCEPT ![phase] = "removed"] /\ unremoved' = unremoved
         \/ box' = box /\ unremoved' = unremoved \cup {phase}
    BY DEF TypeOK
<1>2. /\ box' \in [Purposes -> {"none", "created", "running", "exited", "removed"}]
      /\ unremoved' \subseteq Purposes
    BY <1>1 DEF TypeOK
<1>3. CASE answer = "prepared"
    <2>1. /\ phase = "build" /\ phase' = "run" /\ pc' = "create" /\ answer' = "none"
          /\ ~finishedLate' /\ compiled /\ box["run"] = "none"
        BY <1>1, <1>3 DEF Grounded, OneAtATime
    <2>2. fault' = "none"
        BY <1>1, <1>3 DEF Grounded
    <2>3. TypeOK'
        BY <1>2, <2>1, <2>2 DEF TypeOK, Calls
    <2>4. Ends' /\ OneAtATime' /\ Place'
        BY <1>1, <2>1 DEF Ends, OneAtATime, Place, TypeOK
    <2>5. Limited' /\ Grounded' /\ Late' /\ Released'
        BY <1>1, <2>1, <2>2 DEF Limited, Grounded, Late, Released
    <2> QED
        BY <2>3, <2>4, <2>5
<1>4. CASE answer # "prepared"
    <2>1. pc' = "returned" /\ phase' = phase /\ answer' = answer /\ fault' = fault
        BY <1>4
    <2>2. TypeOK'
        BY <1>2, <2>1 DEF TypeOK, Calls
    <2>3. Ends' /\ OneAtATime' /\ Place'
        BY <1>1, <2>1 DEF Ends, OneAtATime, Place, TypeOK
    <2>4. Limited' /\ Late'
        BY <1>1, <2>1 DEF Limited, Late
    <2>5. Grounded'
        BY <1>1, <1>4, <2>1 DEF Grounded, TypeOK
    <2>6. Released'
        BY <1>1, <2>1 DEF Released, OneAtATime, TypeOK
    <2> QED
        BY <2>2, <2>3, <2>4, <2>5, <2>6
<1> QED
    BY <1>3, <1>4

\* The runner's place, its container and what it is about to return agree in
\* every reachable state of Prepare and runProgram, whichever calls fail and
\* whenever the signal comes.
THEOREM InductiveInvariant == Spec => []IndInv
<1>1. Init => IndInv
    BY InitInv
<1>2. IndInv /\ [Next]_vars => IndInv'
    <2> SUFFICES ASSUME IndInv, [Next]_vars
                 PROVE  IndInv'
        OBVIOUS
    <2>1. CASE Cancel \/ TimerFires \/ \E p \in Purposes : ProgramExits(p)
        BY <2>1, EnvironmentKeeps
    <2>2. CASE RunnerStep \/ StdinBreaks \/ WaitBreaks
        BY <2>2, CreateFailsKeeps, CallsKeep, ResultsKeep, CleanupKeeps DEF RunnerStep
    <2>3. CASE Returned \/ UNCHANGED vars
        <3>1. UNCHANGED vars
            BY <2>3 DEF Returned
        <3> QED
            BY <3>1 DEF vars, IndInv, TypeOK, Ends, OneAtATime, Place, Limited, Grounded,
                        Late, Released
    <2> QED
        BY <2>1, <2>2, <2>3 DEF Next
<1> QED
    BY <1>1, <1>2, PTL DEF Spec

-----------------------------------------------------------------------------
(* What follows from it.                                                     *)

THEOREM TypeCorrect == Spec => []TypeOK
<1>1. IndInv => TypeOK
    BY DEF IndInv
<1> QED
    BY <1>1, InductiveInvariant, PTL

\* Every return of Prepare and runProgram leaves the containers removed, but for
\* those the daemon would not remove or never told of, and the build container
\* is dealt with before the program runs.
THEOREM ContainersAlwaysReleased == Spec => []ContainersReleased
<1>1. IndInv => ContainersReleased
    BY DEF IndInv, ContainersReleased, Released, OneAtATime, TypeOK
<1> QED
    BY <1>1, InductiveInvariant, PTL

\* The status that is returned has its ground in what happened to the program,
\* and a program is killed for a passed limit only.
THEOREM VerdictsTruthful == Spec => []VerdictTruthful
<1>1. IndInv => VerdictTruthful
    <2> SUFFICES ASSUME IndInv
                 PROVE  VerdictTruthful
        OBVIOUS
    <2> USE DEF IndInv, Grounded
    <2>1. exit["run"] = "killed" => timeLimit /\ overdue
        BY DEF Limited
    <2>2. pc = "returned" => answer \in {"OK", "ML", "TL", "BF", "error"}
        BY DEF TypeOK
    <2>3. pc = "returned" /\ answer = "BF" => box["run"] = "none"
        BY DEF OneAtATime
    <2>4. pc = "returned" /\ answer = "TL" => box["run"] # "running"
        OBVIOUS
    <2> QED
        BY <2>1, <2>2, <2>3, <2>4 DEF VerdictTruthful
<1> QED
    BY <1>1, InductiveInvariant, PTL

\* A verdict seen late is not lost to the signal.
THEOREM LateFinishesKept == Spec => []LateFinishKept
<1>1. IndInv => LateFinishKept
    BY DEF IndInv, Late, LateFinishKept
<1> QED
    BY <1>1, InductiveInvariant, PTL
-----------------------------------------------------------------------------
(* Prepare and Run implement RunContract.                                    *)

LEMMA InitContract == Init => Contract!ContractInit
BY DEF Init, Contract!ContractInit, Program, Verdict, Purposes

\* What the contract sees is left alone by most of the steps.
LEMMA SameView ==
    UNCHANGED <<timeLimit, overdue, phase, Program, Verdict>> => UNCHANGED Contract!contractVars
BY DEF Contract!contractVars

\* The contract sees the container of the run only.
LEMMA ProgramFrame ==
    box["run"]' = box["run"] /\ exit["run"]' = exit["run"] => Program' = Program
BY DEF Program

\* A program ends by itself, and so may one nobody waits for.
LEMMA ExitIsEnd ==
    ASSUME IndInv, NEW p \in Purposes, ProgramExits(p)
    PROVE  IF p = "run" THEN Contract!End ELSE UNCHANGED Contract!contractVars
<1> USE DEF IndInv, TypeOK, Purposes, ProgramExits, script, clock, returning
<1>1. UNCHANGED <<timeLimit, overdue, phase, Verdict>>
    BY DEF Verdict
<1>2. CASE p = "run"
    <2>1. Program = "running" /\ Program' \in {"success", "failure", "oom"}
        BY <1>2 DEF Program, Ends
    <2> QED
        BY <1>1, <1>2, <2>1 DEF Contract!End, Contract!OwnEnds
<1>3. CASE p # "run"
    <2>1. box["run"]' = box["run"] /\ exit["run"]' = exit["run"]
        BY <1>3
    <2> QED
        BY <1>1, <1>3, <2>1, ProgramFrame, SameView
<1> QED
    BY <1>2, <1>3

\* The deadline passes only while the runner waits for a program with a limit.
LEMMA DeadlineIsLimit ==
    ASSUME IndInv, TimerFires
    PROVE  Contract!LimitPasses
<1> USE DEF IndInv, TypeOK, Purposes, TimerFires, script, returning
<1>1. /\ pc = "wait" /\ phase = "run" /\ timeLimit /\ answer = "none"
      /\ box["run"] \in {"running", "exited"}
    BY DEF Limited, Place, Grounded
<1>2. Program \in {"success", "failure", "oom", "killed", "running"}
    BY <1>1 DEF Program, Ends
<1>3. UNCHANGED <<timeLimit, phase, Program, Verdict>> /\ Verdict = "none" /\ overdue'
    BY <1>1 DEF Program, Verdict
<1> QED
    BY <1>1, <1>2, <1>3
    DEF Contract!LimitPasses, Contract!Ended, Contract!OwnEnds

\* What a step of the runner is to the contract.
Answering == Contract!Answer \/ UNCHANGED Contract!contractVars

\* A call that leaves the program as it is and brings no status is an error's
\* answer or nothing.
LEMMA CallAnswers ==
    ASSUME IndInv, pc \notin {"cleanup", "returned"},
           UNCHANGED <<timeLimit, overdue, phase, Program>>,
           answer' \in {"none", "prepared", "error"}
    PROVE  Answering
<1> USE DEF IndInv, Grounded, Answering, Verdict
<1>1. answer = "none"
    OBVIOUS
<1>2. CASE answer' = "error"
    BY <1>1, <1>2 DEF Contract!Answer, Contract!Grounded
<1>3. CASE answer' # "error"
    BY <1>1, <1>3, SameView
<1> QED
    BY <1>2, <1>3

\* Creating a container starts no program.
LEMMA CreateIsQuiet ==
    ASSUME IndInv, Create \/ CreateFails
    PROVE  Answering
<1> USE DEF IndInv, TypeOK, Purposes, Create, CreateFails, script, clock, returning,
            Proceed
<1>1. pc = "create" /\ box[phase] = "none" /\ exit' = exit /\ phase' = phase
    BY DEF Place
<1>2. box' = box \/ box' = [box EXCEPT ![phase] = "created"]
    OBVIOUS
<1>3. Program' = Program
    BY <1>1, <1>2 DEF Program, Ends
<1>4. answer' \in {"none", "error"} /\ UNCHANGED <<timeLimit, overdue>>
    BY <1>1 DEF Grounded
<1> QED
    BY <1>1, <1>3, <1>4, CallAnswers

\* The calls that touch no container.
LEMMA QuietCallAnswers ==
    ASSUME IndInv,
           \/ CopyFiles \/ Attach \/ WriteStdin \/ StdinBreaks \/ WaitExited
           \/ WaitTimesOut \/ WaitAborted \/ WaitBreaks \/ Inspect \/ Extract \/ Rewait
    PROVE  Answering
<1> USE DEF CopyFiles, Attach, WriteStdin, StdinBreaks, WaitExited, WaitTimesOut,
            WaitAborted, WaitBreaks, Inspect, Extract, Rewait, script, clock, returning
<1>1. pc \notin {"cleanup", "returned"} /\ UNCHANGED <<timeLimit, overdue, phase, box, exit>>
    OBVIOUS
<1>2. Program' = Program
    BY <1>1, ProgramFrame
<1>3. answer' \in {"none", "prepared", "error"}
    BY <1>1 DEF IndInv, Grounded, Proceed, Return, CallFails, ChosenCallFails
<1> QED
    BY <1>1, <1>2, <1>3, CallAnswers

\* The program starts with its container, even if the call fails.
LEMMA StartLaunches ==
    ASSUME IndInv, Start \/ StartFails
    PROVE  Contract!Launch \/ Answering
<1> USE DEF IndInv, TypeOK, Purposes, Start, StartFails, script, clock, returning
<1>1. /\ pc = "start" /\ box[phase] = "created" /\ UNCHANGED <<timeLimit, overdue, phase, exit>>
      /\ answer = "none"
    BY DEF Place, Grounded
<1>2. answer' \in {"none", "error"}
    BY <1>1 DEF Proceed, Return, CallFails
<1>3. CASE box' = [box EXCEPT !["run"] = "running"] /\ phase = "run"
    <2>1. Program = "none" /\ Program' = "running"
        BY <1>1, <1>3 DEF Program, Ends
    <2>2. Verdict = "none" /\ Verdict' \in {"none", "error"}
        BY <1>1, <1>2 DEF Verdict
    <2> QED
        BY <1>1, <1>3, <2>1, <2>2
        DEF Contract!Launch, Contract!GoesOn, Contract!GivesUp
<1>4. CASE box' = [box EXCEPT !["build"] = "running"] \/ box' = box
    <2>1. Program' = Program
        BY <1>1, <1>4, ProgramFrame
    <2> QED
        BY <1>1, <1>2, <2>1, CallAnswers
<1> QED
    BY <1>1, <1>3, <1>4

\* The results of a container whose program has ended.
LEMMA ResultIsAnswer ==
    ASSUME IndInv, FetchLogs \/ LimitLogs
    PROVE  Answering
<1> USE DEF IndInv, TypeOK, Purposes, FetchLogs, LimitLogs, script, clock, returning
<1>1. /\ pc \in {"logs", "limitlogs"} /\ UNCHANGED <<timeLimit, overdue, phase, box, exit>>
      /\ answer = "none" /\ box[phase] = "exited" /\ exit[phase] # "none"
    BY DEF Place, Grounded, Ends
<1>2. Program' = Program
    BY <1>1, ProgramFrame
<1>3. CASE answer' \in {"none", "prepared", "error"}
    BY <1>1, <1>2, <1>3, CallAnswers
<1>4. CASE FetchLogs /\ phase = "run" /\ answer' = RunStatus
    <2>1. Program = exit["run"] /\ exit["run"] \in {"success", "failure", "oom"}
        BY <1>1, <1>4 DEF Program, Ends
    <2>2. Contract!Grounded(RunStatus) /\ RunStatus \in {"OK", "ML"}
        BY <2>1 DEF Contract!Grounded, RunStatus
    <2> QED
        BY <1>1, <1>2, <1>4, <2>2 DEF Answering, Contract!Answer, Verdict
<1>5. CASE phase = "build" /\ answer' = "BF"
    BY <1>1, <1>2, <1>5 DEF Answering, Contract!Answer, Contract!Grounded, Verdict
<1>6. CASE LimitLogs /\ answer' = "TL"
    <2>1. Program \in {"success", "failure", "oom", "killed"} /\ overdue
        BY <1>1, <1>6 DEF Program, Place, Limited
    <2> QED
        BY <1>1, <1>2, <1>6, <2>1
        DEF Answering, Contract!Answer, Contract!Grounded, Contract!Ended,
            Contract!OwnEnds, Verdict
<1> QED
    BY <1>1, <1>3, <1>4, <1>5, <1>6 DEF Proceed, Return, ChosenCallFails

\* Stopping kills what is still running, and only a limit leads there.
LEMMA StopKills ==
    ASSUME IndInv, Stop \/ StopFails
    PROVE  Contract!Kill \/ Answering
<1> USE DEF IndInv, TypeOK, Purposes, Stop, StopFails, script, clock, returning
<1>1. /\ pc = "stop" /\ phase = "run" /\ overdue /\ UNCHANGED <<timeLimit, overdue, phase>>
      /\ answer = "none" /\ box["run"] \in {"running", "exited"}
    BY DEF Place, Grounded, Limited
<1>2. answer' \in {"none", "error"}
    BY <1>1 DEF Proceed, Return
<1>3. CASE StopBox /\ box["run"] = "running"
    <2>1. Program = "running" /\ Program' = "killed"
        BY <1>1, <1>3 DEF Program, Ends, StopBox
    <2>2. Verdict = "none" /\ Verdict' \in {"none", "error"}
        BY <1>1, <1>2 DEF Verdict
    <2> QED
        BY <1>1, <2>1, <2>2 DEF Contract!Kill, Contract!GoesOn, Contract!GivesUp
<1>4. CASE UNCHANGED <<box, exit>> \/ (StopBox /\ box["run"] = "exited")
    <2>1. box["run"]' = box["run"] /\ exit["run"]' = exit["run"]
        BY <1>1, <1>4 DEF StopBox
    <2> QED
        BY <1>1, <1>2, <2>1, ProgramFrame, CallAnswers
<1> QED
    BY <1>1, <1>3, <1>4

\* The removal of a build container hands over to the run. That of the run's
\* container gives up a program that has no end to tell.
LEMMA CleanupDiscards ==
    ASSUME IndInv, Cleanup
    PROVE  Contract!Built \/ Contract!Discard \/ UNCHANGED Contract!contractVars
<1> USE DEF IndInv, TypeOK, Purposes, Cleanup, script
<1>1. pc = "cleanup" /\ UNCHANGED <<timeLimit, overdue, exit>>
    OBVIOUS
<1>2. CASE phase = "build"
    <2>1. box["run"]' = box["run"] /\ exit["run"]' = exit["run"]
        BY <1>1, <1>2
    <2>2. Program' = Program
        BY <2>1, ProgramFrame
    <2>3. CASE answer = "prepared"
        BY <1>1, <1>2, <2>2, <2>3 DEF Contract!Built, Verdict
    <2>4. CASE answer # "prepared"
        <3>1. UNCHANGED <<phase, Verdict>>
            BY <2>4 DEF Verdict
        <3> QED
            BY <1>1, <2>2, <3>1, SameView
    <2> QED
        BY <2>3, <2>4
<1>3. CASE phase = "run"
    <2>1. answer # "prepared" /\ UNCHANGED <<phase, answer>>
        BY <1>1, <1>3 DEF Grounded
    <2>2. UNCHANGED <<phase, Verdict>>
        BY <2>1 DEF Verdict
    <2>3. CASE Program' = Program
        BY <1>1, <2>2, <2>3, SameView
    <2>4. CASE Program' # Program
        <3>1. exit["run"] = "none" /\ box["run"]' = "removed"
            BY <1>1, <1>3, <2>4 DEF Program
        <3>2. Program \in {"none", "running"} /\ Program' = "gone"
            BY <1>1, <2>4, <3>1 DEF Program
        <3>3. answer = "error"
            BY <1>1, <1>3, <2>1, <3>1 DEF Grounded
        <3> QED
            BY <1>1, <2>2, <3>2, <3>3 DEF Contract!Discard, Verdict
    <2> QED
        BY <2>3, <2>4
<1> QED
    BY <1>2, <1>3

\* Every step of the script's way through the engine is one of the contract's or
\* none.
LEMMA NextContract ==
    IndInv /\ [Next]_vars => [Contract!ContractNext]_Contract!contractVars
<1> SUFFICES ASSUME IndInv, [Next]_vars
             PROVE  Contract!ContractNext \/ UNCHANGED Contract!contractVars
    OBVIOUS
<1> USE DEF Contract!ContractNext
<1>1. CASE Cancel \/ Returned \/ UNCHANGED vars
    <2>1. UNCHANGED <<timeLimit, overdue, phase, box, exit, answer>>
        BY <1>1 DEF Cancel, Returned, vars, script, clock, returning
    <2>2. UNCHANGED <<Program, Verdict>>
        BY <2>1 DEF Program, Verdict
    <2> QED
        BY <2>1, <2>2, SameView
<1>2. CASE \E p \in Purposes : ProgramExits(p)
    BY <1>2, ExitIsEnd
<1>4. CASE TimerFires
    BY <1>4, DeadlineIsLimit
<1>3. CASE RunnerStep \/ StdinBreaks \/ WaitBreaks
    BY <1>3, CreateIsQuiet, QuietCallAnswers, StartLaunches, ResultIsAnswer, StopKills,
       CleanupDiscards DEF RunnerStep, Answering
<1> QED
    BY <1>1, <1>2, <1>3, <1>4 DEF Next

\* Whatever the daemon, the program, the clock and the signal do, Prepare and Run
\* keep RunContract, on which the suite relies: one answer with its ground, by a
\* program started once.
THEOREM EngineImplementsContract == Spec => ImplementsContract
<1>1. Init => Contract!ContractInit
    BY InitContract
<1>2. IndInv /\ [Next]_vars => [Contract!ContractNext]_Contract!contractVars
    BY NextContract
<1>3. Spec => []IndInv
    BY InductiveInvariant
<1> QED
    BY <1>1, <1>2, <1>3, PTL DEF Spec, ImplementsContract, Contract!ContractSpec
===============================================================================
