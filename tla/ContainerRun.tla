---------------------------- MODULE ContainerRun ----------------------------
(* One script in Docker: Prepare of a language strategy (a build container   *)
(* for a compiled language, nothing for Python) and one Run of the prepared  *)
(* script (runProgram). The runner's calls are the actions; the daemon, the  *)
(* program in the container, the clock of the time limit and the signal that *)
(* cancels the context act in between. Any call may fail, by the daemon's    *)
(* fault or, if it was given main's context, because that is done.           *)
EXTENDS Naturals

VARIABLES
    compiled,     \* the language has a build step
    timeLimit,    \* the effective limits have a time limit
    readsInput,   \* the program takes its whole input, or the pipe holds it
    phase,        \* the container at hand: build or run
    pc,           \* the runner's next call
    callCtx,      \* the context chosen for it, where the code chooses one
    cancelled,    \* main's context is done
    timer,        \* the deadline of the wait context
    overdue,      \* history: the time limit has passed before the wait was over
    box,          \* each container, as the daemon has it
    exit,         \* how the program in it ended
    stray,        \* containers the daemon made without the runner learning of it
    unremoved,    \* containers whose removal failed
    finishedLate, \* the program's end was seen with the context already done
    answer,       \* what is being returned
    fault         \* why it is an error

vars == <<compiled, timeLimit, readsInput, phase, pc, callCtx, cancelled, timer,
          overdue, box, exit, stray, unremoved, finishedLate, answer, fault>>

script == <<compiled, timeLimit, readsInput>>
clock == <<timer, overdue>>
leftovers == <<stray, unremoved>>
returning == <<answer, fault>>

Purposes == {"build", "run"}
Calls == {"create", "copy", "attach", "start", "stdin", "wait", "inspect", "logs",
          "extract", "stop", "rewait", "limitlogs", "cleanup", "returned"}

Init ==
    /\ compiled \in BOOLEAN
    /\ timeLimit \in BOOLEAN
    /\ readsInput \in BOOLEAN
    /\ phase = IF compiled THEN "build" ELSE "run"
    /\ pc = "create"
    /\ callCtx = "main"
    /\ cancelled \in BOOLEAN
    /\ timer = "off"
    /\ overdue = FALSE
    /\ box = [p \in Purposes |-> "none"]
    /\ exit = [p \in Purposes |-> "none"]
    /\ stray = {}
    /\ unremoved = {}
    /\ finishedLate = FALSE
    /\ answer = "none"
    /\ fault = "none"

-----------------------------------------------------------------------------
(* The environment.                                                          *)

Cancel ==
    /\ ~cancelled
    /\ cancelled' = TRUE
    /\ UNCHANGED <<script, phase, pc, callCtx, clock, box, exit, leftovers,
                   finishedLate, returning>>

\* The program, or the compiler, ends by itself or is killed for its memory.
ProgramExits(p) ==
    /\ box[p] = "running"
    /\ box' = [box EXCEPT ![p] = "exited"]
    /\ \E how \in {"success", "failure", "oom"} : exit' = [exit EXCEPT ![p] = how]
    /\ UNCHANGED <<script, phase, pc, callCtx, cancelled, clock, leftovers,
                   finishedLate, returning>>

\* The wait context ends for one reason: a context that is cancelled first
\* never reports its deadline.
TimerFires ==
    /\ timer = "armed"
    /\ ~cancelled
    /\ timer' = "fired"
    /\ overdue' = TRUE
    /\ UNCHANGED <<script, phase, pc, callCtx, cancelled, box, exit, leftovers,
                   finishedLate, returning>>

-----------------------------------------------------------------------------
(* The runner.                                                               *)

\* A deferred cleanup follows every return after the container's creation.
Return(result, why) ==
    /\ answer' = result
    /\ fault' = why
    /\ pc' = "cleanup"

Proceed(next) == pc' = next /\ UNCHANGED returning

\* A call with main's context goes through only while that is not done.
ContextLive == ~cancelled

\* Mutant of CallFails: an early return before the cleanup is deferred.
CallFailsUncleaned ==
    \E why \in {"daemon"} \cup (IF cancelled THEN {"context"} ELSE {}) :
        answer' = "error" /\ fault' = why /\ pc' = "returned"

\* The daemon may refuse any call; a done context fails it at once.
CallFails ==
    \E why \in {"daemon"} \cup (IF cancelled THEN {"context"} ELSE {}) :
        Return("error", why)

Create ==
    /\ pc = "create"
    /\ ContextLive
    /\ box' = [box EXCEPT ![phase] = "created"]
    /\ Proceed("copy")
    /\ UNCHANGED <<script, phase, callCtx, cancelled, clock, exit, leftovers, finishedLate>>

\* Without an identifier there is nothing to clean up, although the daemon may
\* have made the container before its reply was lost.
CreateFails ==
    /\ pc = "create"
    /\ \/ UNCHANGED <<box, stray>>
       \/ /\ box' = [box EXCEPT ![phase] = "created"]
          /\ stray' = stray \cup {phase}
    /\ \E why \in {"daemon"} \cup (IF cancelled THEN {"context"} ELSE {}) : fault' = why
    /\ answer' = "error"
    /\ pc' = "returned"
    /\ UNCHANGED <<script, phase, callCtx, cancelled, clock, exit, unremoved, finishedLate>>

CopyFiles ==
    /\ pc = "copy"
    /\ \/ ContextLive /\ Proceed(IF phase = "run" THEN "attach" ELSE "start")
       \/ CallFails
    /\ UNCHANGED <<script, phase, callCtx, cancelled, clock, box, exit, leftovers, finishedLate>>

\* Attaching falls back to the background context, so a done context is no
\* obstacle: the start that follows will fail.
Attach ==
    /\ pc = "attach"
    /\ Proceed("start") \/ CallFails
    /\ UNCHANGED <<script, phase, callCtx, cancelled, clock, box, exit, leftovers, finishedLate>>

Start ==
    /\ pc = "start"
    /\ ContextLive
    /\ box' = [box EXCEPT ![phase] = "running"]
    /\ Proceed(IF phase = "run" THEN "stdin" ELSE "wait")
    /\ UNCHANGED <<script, phase, callCtx, cancelled, clock, exit, leftovers, finishedLate>>

\* The daemon may have started it before its reply was lost.
StartFails ==
    /\ pc = "start"
    /\ UNCHANGED box \/ box' = [box EXCEPT ![phase] = "running"]
    /\ CallFails
    /\ UNCHANGED <<script, phase, callCtx, cancelled, clock, exit, leftovers, finishedLate>>

\* Mutants of Deadline: the limit is not put on the wait; the wait has a deadline
\* without a limit.
DeadlineIgnored == "off"

DeadlineAlways == "armed"

Deadline == IF timeLimit THEN "armed" ELSE "off"

\* io.Copy to the attached connection has neither context nor deadline. It
\* returns when the input is taken; when the program has ended first, the
\* daemon has closed the connection and the write may fail.
WriteStdin ==
    /\ pc = "stdin"
    /\ readsInput \/ box[phase] = "exited"
    /\ \/ /\ Proceed("wait")
          /\ timer' = Deadline
       \/ box[phase] = "exited" /\ Return("error", "daemon") /\ UNCHANGED timer
    /\ UNCHANGED <<script, phase, callCtx, cancelled, overdue, box, exit, leftovers, finishedLate>>

\* The connection to the daemon is lost while the program is still running.
StdinBreaks ==
    /\ pc = "stdin"
    /\ Return("error", "daemon")
    /\ UNCHANGED <<script, phase, callCtx, cancelled, clock, box, exit, leftovers, finishedLate>>

\* Mutant of ContextNow: main's context whatever its state.
ContextAlwaysMain == "main"

\* The context the next call is given: main's, or none that can be done.
ContextNow == IF cancelled THEN "background" ELSE "main"

\* The select of waitForExit takes any ready case. The program has ended:
WaitExited ==
    /\ pc = "wait"
    /\ box[phase] = "exited"
    /\ Proceed("inspect")
    /\ callCtx' = ContextNow
    /\ timer' = "off"
    /\ finishedLate' = cancelled
    /\ UNCHANGED <<script, phase, cancelled, overdue, box, exit, leftovers>>

\* Mutant of DeadlineExceeded: any end of the wait context is taken for the
\* deadline.
AnyDone == timeLimit /\ (timer = "fired" \/ cancelled)

\* the time limit has passed and main's context is not done:
DeadlineExceeded == timer = "fired" /\ ~cancelled

WaitTimesOut ==
    /\ pc = "wait"
    /\ DeadlineExceeded
    /\ Proceed("stop")
    /\ UNCHANGED <<script, phase, callCtx, cancelled, clock, box, exit, leftovers, finishedLate>>

\* Mutant of ContextDone: the wait watches its own deadline only.
ContextDoneAtDeadline == cancelled /\ timer = "fired"

ContextDone == cancelled

\* the context is done:
WaitAborted ==
    /\ pc = "wait"
    /\ ContextDone
    /\ Return("error", "context")
    /\ timer' = "off"
    /\ UNCHANGED <<script, phase, callCtx, cancelled, overdue, box, exit, leftovers, finishedLate>>

\* the daemon breaks off the wait.
WaitBreaks ==
    /\ pc = "wait"
    /\ Return("error", "daemon")
    /\ timer' = "off"
    /\ UNCHANGED <<script, phase, callCtx, cancelled, overdue, box, exit, leftovers, finishedLate>>

\* Inspecting and reading the logs use the context chosen just before.
CallGoesThrough == callCtx = "background" \/ ContextLive

ChosenCallFails ==
    \E why \in {"daemon"} \cup (IF CallGoesThrough THEN {} ELSE {"context"}) :
        Return("error", why)

Inspect ==
    /\ pc = "inspect"
    /\ \/ CallGoesThrough /\ Proceed("logs") /\ callCtx' = ContextNow
       \/ ChosenCallFails /\ UNCHANGED callCtx
    /\ UNCHANGED <<script, phase, cancelled, clock, box, exit, leftovers, finishedLate>>

\* Mutants of RunStatus: the memory kill is overlooked; the raw state is
\* reported.
RunStatusBlind == "OK"

RunStatusRaw == IF exit["run"] = "oom" THEN "ML" ELSE exit["run"]

RunStatus == IF exit["run"] = "oom" THEN "ML" ELSE "OK"

FetchLogs ==
    /\ pc = "logs"
    /\ \/ /\ CallGoesThrough
          /\ \/ phase = "run" /\ Return(RunStatus, "none")
             \/ phase = "build" /\ exit["build"] # "success" /\ Return("BF", "none")
             \/ phase = "build" /\ exit["build"] = "success" /\ Proceed("extract")
       \/ ChosenCallFails
    /\ UNCHANGED <<script, phase, callCtx, cancelled, clock, box, exit, leftovers, finishedLate>>

\* The binary is copied out with main's context.
Extract ==
    /\ pc = "extract"
    /\ \/ ContextLive /\ Return("prepared", "none")
       \/ CallFails
    /\ UNCHANGED <<script, phase, callCtx, cancelled, clock, box, exit, leftovers, finishedLate>>

-----------------------------------------------------------------------------
(* handleTimeLimit: everything below uses the background context.            *)

StopBox ==
    /\ box' = [box EXCEPT ![phase] = "exited"]
    /\ exit' = IF box[phase] = "running" THEN [exit EXCEPT ![phase] = "killed"] ELSE exit

Stop ==
    /\ pc = "stop"
    /\ StopBox
    /\ Proceed("rewait")
    /\ UNCHANGED <<script, phase, callCtx, cancelled, clock, leftovers, finishedLate>>

\* ContainerStop is given five seconds, the daemon gives the program ten: a
\* program that ignores the first signal makes the call fail.
StopFails ==
    /\ pc = "stop"
    /\ StopBox \/ UNCHANGED <<box, exit>>
    /\ Return("error", "daemon")
    /\ UNCHANGED <<script, phase, callCtx, cancelled, clock, leftovers, finishedLate>>

\* The second wait is given fifteen seconds; running out of them only leaves
\* the exit code unknown.
Rewait ==
    /\ pc = "rewait"
    /\ Proceed("limitlogs") \/ Return("error", "daemon")
    /\ UNCHANGED <<script, phase, callCtx, cancelled, clock, box, exit, leftovers, finishedLate>>

LimitLogs ==
    /\ pc = "limitlogs"
    /\ Return("TL", "none") \/ Return("error", "daemon")
    /\ UNCHANGED <<script, phase, callCtx, cancelled, clock, box, exit, leftovers, finishedLate>>

-----------------------------------------------------------------------------
\* The deferred forced removal, whose error is dropped. A prepared script goes
\* on to its run, anything else is returned.
Cleanup ==
    /\ pc = "cleanup"
    /\ \/ box' = [box EXCEPT ![phase] = "removed"] /\ UNCHANGED unremoved
       \/ unremoved' = unremoved \cup {phase} /\ UNCHANGED box
    /\ timer' = "off"
    /\ IF answer = "prepared"
       THEN phase' = "run" /\ pc' = "create" /\ answer' = "none"
       ELSE pc' = "returned" /\ UNCHANGED <<phase, answer>>
    /\ UNCHANGED <<script, callCtx, cancelled, overdue, exit, stray, finishedLate, fault>>

\* The runner is done; leftover containers are the daemon's.
Returned == pc = "returned" /\ UNCHANGED vars

RunnerStep ==
    \/ Create \/ CreateFails \/ CopyFiles \/ Attach \/ Start \/ StartFails
    \/ WriteStdin \/ WaitExited \/ WaitTimesOut \/ WaitAborted
    \/ Inspect \/ FetchLogs \/ Extract
    \/ Stop \/ StopFails \/ Rewait \/ LimitLogs
    \/ Cleanup

Next ==
    \/ Cancel
    \/ \E p \in Purposes : ProgramExits(p)
    \/ TimerFires
    \/ RunnerStep
    \/ StdinBreaks
    \/ WaitBreaks
    \/ Returned

Spec == Init /\ [][Next]_vars

\* The daemon answers every call, well or badly, and an armed deadline passes.
\* No program has to end, and neither a wait nor a connection need break.
Fairness == WF_vars(RunnerStep) /\ WF_vars(TimerFires)

LiveSpec == Spec /\ Fairness

-----------------------------------------------------------------------------
(* Properties.                                                               *)

\* Every variable stays in its type.
TypeOK ==
    /\ compiled \in BOOLEAN /\ timeLimit \in BOOLEAN /\ readsInput \in BOOLEAN
    /\ phase \in Purposes
    /\ pc \in Calls
    /\ callCtx \in {"main", "background"}
    /\ cancelled \in BOOLEAN
    /\ timer \in {"off", "armed", "fired"}
    /\ overdue \in BOOLEAN
    /\ box \in [Purposes -> {"none", "created", "running", "exited", "removed"}]
    /\ exit \in [Purposes -> {"none", "success", "failure", "oom", "killed"}]
    /\ stray \subseteq Purposes /\ unremoved \subseteq Purposes
    /\ finishedLate \in BOOLEAN
    /\ answer \in {"none", "prepared", "OK", "ML", "TL", "BF", "error"}
    /\ fault \in {"none", "daemon", "context"}

\* Whatever fails, no container outlives its use by the runner's doing: one is
\* left behind only if the daemon refused its removal or never told of its
\* creation, and a build container is dealt with before the program runs
\* (container_engine.go 70-74 and 194-202, lang_go.go 23-27).
ContainersReleased ==
    /\ pc = "returned" =>
          \A p \in Purposes : box[p] \in {"none", "removed"} \/ p \in stray \cup unremoved
    /\ phase = "run" /\ compiled => box["build"] = "removed" \/ "build" \in unremoved

\* The verdict says what happened to the program: OK and ML only when it ended
\* by itself, and with ML for its memory; TL only when its limit had passed
\* before the runner saw it end, and with the program no longer running; BF only
\* when the compiler ended with a failure and nothing was run. A program is
\* killed for a passed limit only, and is then TL, or an error of the daemon: a
\* signal that comes during the kill does not make the limit an error of the
\* context (container_engine.go 111-159, container_files.go 102-135, lang_go.go
\* 83-98). Two readings are the code's. OK does not ask for an exit code of zero,
\* though README.md:533 says "executed successfully": the code is reported beside
\* the status. And TL does not say that the program was stopped, though
\* result.go:13 says "terminated for exceeding the time limit": one that ends by
\* itself, at any time before the runner looks, while the deadline passes may be
\* given either verdict.
VerdictTruthful ==
    /\ pc = "returned" =>
        /\ answer = "OK" => exit["run"] \in {"success", "failure"}
        /\ answer = "ML" => exit["run"] = "oom"
        /\ answer = "TL" => overdue /\ exit["run"] # "none" /\ box["run"] # "running"
        /\ answer = "BF" => exit["build"] \in {"failure", "oom"} /\ box["run"] = "none"
        /\ answer \in {"OK", "ML", "TL", "BF", "error"}
        /\ answer = "error" <=> fault # "none"
    /\ exit["run"] = "killed" =>
        /\ timeLimit /\ overdue
        /\ pc = "returned" => answer = "TL" \/ fault = "daemon"

\* A program whose end the runner sees after the context is done still gets its
\* verdict: inspecting it and reading its logs then use a context of their own
\* (container_engine.go 127-145).
LateFinishKept == finishedLate /\ phase = "run" => fault # "context"

\* A running program with a time limit that takes its input gives the slot
\* back, whatever it does and even if no signal comes
\* (container_engine.go 111-125, container_files.go 102-135).
LimitedRunEnds ==
    (timeLimit /\ readsInput /\ box["run"] = "running") ~> (pc = "returned")

\* A done context ends the run, or the build, without waiting for the program:
\* what Executor's shutdown relies on (container_engine.go 116-125,
\* lang_go.go 49-63).
CancelEndsRun == (cancelled /\ readsInput) ~> (pc = "returned")

\* How the program of the run stands: once its container is removed it has the
\* end it had before, or none to tell.
Program ==
    IF exit["run"] # "none" THEN exit["run"]
    ELSE IF box["run"] = "running" THEN "running"
    ELSE IF box["run"] = "removed" THEN "gone" ELSE "none"

Verdict == IF answer = "prepared" THEN "none" ELSE answer

Contract == INSTANCE RunContract
    WITH limited <- timeLimit, overdue <- overdue, stage <- phase,
         program <- Program, verdict <- Verdict

\* Prepare and Run implement RunContract, whichever calls fail and whichever of
\* those had their effect all the same: one answer, with its ground, after a
\* program started once and killed only for a passed limit
\* (container_engine.go 57-159, lang_go.go 16-110, container_files.go 102-135).
ImplementsContract == Contract!ContractSpec

\* README.md:463 "limits.time_limit_ms: Maximum execution time in
\* milliseconds": a program with a time limit does not run for ever while the
\* runner waits for it.
LimitEnforced ==
    (timeLimit /\ box["run"] = "running") ~> (box["run"] # "running" \/ pc = "returned")
==============================================================================
