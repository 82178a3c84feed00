------------------------------ MODULE Executor ------------------------------
(* One runner process: main() of cmd/scrc with Service.ExecuteFromProducer.  *)
(*                                                                           *)
(* The main goroutine polls the scripts topic, waits for a semaphore slot    *)
(* and starts one goroutine per script; each goroutine runs the script's     *)
(* suite, publishes the report, gives its slot back and leaves the wait      *)
(* group. A signal cancels the context that every call below main shares.    *)
(* The Kafka client and the containers are external and appear as their      *)
(* possible outcomes. A suite is one step here; module SuiteRunner refines   *)
(* what it computes.                                                         *)
EXTENDS Integers, FiniteSets

CONSTANTS
    NumMessages,   \* records of the scripts topic this runner may be handed
    MaxScripts,    \* the maxScripts argument; zero or less means no limit
    MaxParallel,   \* the maxParallel argument; zero or less is clamped to 1
    MaxCopies      \* bound on the copies one publish call can leave behind

ASSUME ExecutorAssumption ==
    /\ NumMessages \in Nat
    /\ MaxScripts \in Int
    /\ MaxParallel \in Int
    /\ MaxCopies \in Nat \ {0}

VARIABLES
    kind,        \* what each record of the topic decodes to
    produced,    \* records produced so far
    committed,   \* the group's committed offset
    cancelled,   \* the context of signal.NotifyContext is done
    loop,        \* where the main goroutine is
    inHand,      \* the script it pulled and waits to start, 0 for none
    processed,   \* scripts started
    sem,         \* occupied places of the semaphore channel
    wg,          \* counter of the wait group
    task,        \* where the goroutine of each record is
    verdict,     \* what the suite of each record ended with
    published,   \* copies of its report on the results topic
    outcome,     \* what ExecuteFromProducer is going to return
    readErr,     \* the error ReadMessage ended the loop with, none so far
    open         \* resources main has not closed

vars == <<kind, produced, committed, cancelled, loop, inHand, processed, sem,
          wg, task, verdict, published, outcome, readErr, open>>

logVars == <<kind, produced>>
loopVars == <<loop, inHand, processed, outcome, readErr>>
taskVars == <<task, verdict, published>>

Offsets == 1..NumMessages
Kinds == {"script", "done", "invalid"}
LoopStates == {"poll", "acquire", "wait", "returned", "exited"}
TaskStates == {"none", "run", "report", "release", "wgdone", "finished"}
Verdicts == {"none", "result", "error", "aborted"}
Resources == {"publisher", "consumer", "runtime"}

\* What errors.Is makes of an error: the context's two errors, the end of a
\* stream, and everything else.
Errors == {"canceled", "deadline", "EOF", "other"}
QuietErrors == {"canceled", "deadline", "EOF"}

Slots == IF MaxParallel <= 0 THEN 1 ELSE MaxParallel

-----------------------------------------------------------------------------
Init ==
    /\ kind \in [Offsets -> Kinds]
    /\ produced = 0
    /\ committed = 0
    /\ cancelled = FALSE
    /\ loop = "poll"
    /\ inHand = 0
    /\ processed = 0
    /\ sem = 0
    /\ wg = 0
    /\ task = [m \in Offsets |-> "none"]
    /\ verdict = [m \in Offsets |-> "none"]
    /\ published = [m \in Offsets |-> 0]
    /\ outcome = "none"
    /\ readErr = "none"
    /\ open = Resources

-----------------------------------------------------------------------------
(* The environment: producers of the topic and the process's signals.        *)

Produce ==
    /\ produced < NumMessages
    /\ produced' = produced + 1
    /\ UNCHANGED <<kind, committed, cancelled, loopVars, sem, wg, taskVars, open>>

\* SIGINT or SIGTERM; main only leaves NotifyContext behind when it returns.
Cancel ==
    /\ ~cancelled
    /\ loop # "exited"
    /\ cancelled' = TRUE
    /\ UNCHANGED <<logVars, committed, loopVars, sem, wg, taskVars, open>>

-----------------------------------------------------------------------------
(* The main goroutine.                                                       *)

\* Mutant of LimitReached: the limit is noticed one script late.
LimitReachedLate == MaxScripts > 0 /\ processed > MaxScripts

LimitReached == MaxScripts > 0 /\ processed >= MaxScripts

\* finish(err): from here on the loop only waits for the wait group.
Stop(result) ==
    /\ loop' = "wait"
    /\ outcome' = result
    /\ UNCHANGED <<inHand, processed>>

\* NextScript returned err: a quiet one ends the loop as if nothing had gone
\* wrong, whatever the context's state and whoever the error comes from.
StopOn(err) == Stop(IF err \in QuietErrors THEN "nil" ELSE "error")

\* Mutant of StopAtMaxScripts: the limit is checked after the next read.
StopAfterRead ==
    /\ loop = "poll"
    /\ LimitReached
    /\ committed < produced
    /\ committed' = committed + 1
    /\ Stop("nil")
    /\ UNCHANGED <<logVars, cancelled, readErr, sem, wg, taskVars, open>>

StopAtMaxScripts ==
    /\ loop = "poll"
    /\ LimitReached
    /\ Stop("nil")
    /\ UNCHANGED <<logVars, committed, cancelled, readErr, sem, wg, taskVars, open>>

\* NextScript is under way: the limit check let the loop through.
Polling == loop = "poll" /\ ~LimitReached

\* Mutant of ReadNext: a record may be passed over.
ReadSkipping(m) ==
    /\ Polling
    /\ m \in {committed + 1, committed + 2}
    /\ m <= produced
    /\ committed' = m

\* The reader returns the next record, with its offset already committed. A
\* cancelled context does not exclude it: the client picks either ready case.
ReadNext(m) ==
    /\ Polling
    /\ m = committed + 1
    /\ m <= produced
    /\ committed' = m

ReceiveScript(m) ==
    /\ ReadNext(m)
    /\ kind[m] = "script"
    /\ inHand' = m
    /\ loop' = "acquire"
    /\ UNCHANGED <<logVars, cancelled, processed, outcome, readErr, sem, wg, taskVars, open>>

\* A "done" record decodes to io.EOF.
ReceiveDone(m) ==
    /\ ReadNext(m)
    /\ kind[m] = "done"
    /\ StopOn("EOF")
    /\ UNCHANGED <<logVars, cancelled, readErr, sem, wg, taskVars, open>>

ReceiveInvalid(m) ==
    /\ ReadNext(m)
    /\ kind[m] = "invalid"
    /\ StopOn("other")
    /\ UNCHANGED <<logVars, cancelled, readErr, sem, wg, taskVars, open>>

\* ReadMessage fails; the commit of a record it had fetched may have reached
\* the broker all the same.
ReadFails(err) ==
    /\ Polling
    /\ committed' \in {committed} \cup {m \in Offsets : m = committed + 1 /\ m <= produced}
    /\ StopOn(err)
    /\ readErr' = err
    /\ UNCHANGED <<logVars, cancelled, sem, wg, taskVars, open>>

\* A read under a done context can end with the context's error.
PollCancelled == cancelled /\ ReadFails("canceled")

\* The client fails of its own accord, also with a timeout of the network or the
\* EOF of a broken connection.
ReaderFails == \E err \in Errors : ReadFails(err)

\* Mutants of SlotFree: one slot too many, one too few.
SlotFreeBeyond == sem <= Slots

SlotFreeShort == sem < Slots - 1

SlotFree == sem < Slots

\* Mutant of Enter: wg.Add is forgotten.
EnterUncounted == sem' = sem + 1 /\ UNCHANGED wg

\* The slot and the place in the wait group a goroutine starts with.
Enter == sem' = sem + 1 /\ wg' = wg + 1

\* `sem <- struct{}{}` blocks without looking at the context; what follows up
\* to the go statement is local to the main goroutine.
Spawn ==
    /\ loop = "acquire"
    /\ SlotFree
    /\ Enter
    /\ processed' = processed + 1
    /\ task' = [task EXCEPT ![inHand] = "run"]
    /\ inHand' = 0
    /\ loop' = "poll"
    /\ UNCHANGED <<logVars, committed, cancelled, outcome, readErr, verdict, published,
                   open>>

\* Mutants of AllDone: the loop waits for the slots only, or not at all.
SlotsReturned == sem = 0

NothingAwaited == TRUE

AllDone == wg = 0

WaitReturns ==
    /\ loop = "wait"
    /\ AllDone
    /\ loop' = "returned"
    /\ UNCHANGED <<logVars, committed, cancelled, inHand, processed, outcome,
                   readErr, sem, wg, taskVars, open>>

\* The deferred Close calls of main run in reverse order of registration.
NextToClose ==
    CASE "publisher" \in open -> "publisher"
      [] "publisher" \notin open /\ "consumer" \in open -> "consumer"
      [] OTHER -> "runtime"

DeferredClose ==
    /\ loop = "returned"
    /\ outcome = "nil"
    /\ open # {}
    /\ open' = open \ {NextToClose}
    /\ UNCHANGED <<logVars, committed, cancelled, loopVars, sem, wg, taskVars>>

\* log.Fatalf skips the deferred calls; a nil result leaves after all of them.
Exit ==
    /\ loop = "returned"
    /\ outcome = "error" \/ open = {}
    /\ loop' = "exited"
    /\ UNCHANGED <<logVars, committed, cancelled, inHand, processed, outcome,
                   readErr, sem, wg, taskVars, open>>

-----------------------------------------------------------------------------
(* The goroutine of record m.                                                *)

Goto(m, here, next) ==
    /\ task[m] = here
    /\ task' = [task EXCEPT ![m] = next]

\* suites.Run returns a report of its own accord.
RunSuite(m) ==
    /\ Goto(m, "run", "report")
    /\ \E v \in {"result", "error"} : verdict' = [verdict EXCEPT ![m] = v]
    /\ UNCHANGED <<logVars, committed, cancelled, loopVars, sem, wg, published, open>>

\* The calls of the suite share main's context: once it is done they return
\* its error, and the report says so.
AbortRun(m) ==
    /\ cancelled
    /\ Goto(m, "run", "report")
    /\ verdict' = [verdict EXCEPT ![m] = "aborted"]
    /\ UNCHANGED <<logVars, committed, cancelled, loopVars, sem, wg, published, open>>

\* onReport: the write may fail, be lost to a done context, succeed, or leave
\* more than one copy when the client retries a write whose reply it lost. The
\* error is only logged.
Publish(m) ==
    /\ Goto(m, "report", "release")
    /\ \E n \in 0..MaxCopies : published' = [published EXCEPT ![m] = n]
    /\ UNCHANGED <<logVars, committed, cancelled, loopVars, sem, wg, verdict, open>>

\* Mutant of ReleaseSlot: the slot is never given back.
ReleaseSlotLeaking(m) ==
    /\ Goto(m, "release", "wgdone")
    /\ UNCHANGED <<logVars, committed, cancelled, loopVars, sem, wg, verdict, published, open>>

\* The deferred functions run last in, first out: the slot, then the group.
ReleaseSlot(m) ==
    /\ Goto(m, "release", "wgdone")
    /\ sem' = sem - 1
    /\ UNCHANGED <<logVars, committed, cancelled, loopVars, wg, verdict, published, open>>

WgDone(m) ==
    /\ Goto(m, "wgdone", "finished")
    /\ wg' = wg - 1
    /\ UNCHANGED <<logVars, committed, cancelled, loopVars, sem, verdict, published, open>>

-----------------------------------------------------------------------------
Receive(m) == ReceiveScript(m) \/ ReceiveDone(m) \/ ReceiveInvalid(m)

MainStep ==
    \/ StopAtMaxScripts
    \/ \E m \in Offsets : Receive(m)
    \/ PollCancelled
    \/ Spawn
    \/ WaitReturns
    \/ DeferredClose
    \/ Exit

Conclude(m) == Publish(m) \/ ReleaseSlot(m) \/ WgDone(m)

TaskStep(m) == RunSuite(m) \/ AbortRun(m) \/ Conclude(m)

\* The process is gone and the topic is complete: nothing is left to happen.
Terminated ==
    /\ loop = "exited"
    /\ produced = NumMessages
    /\ UNCHANGED vars

Next ==
    \/ Produce
    \/ Cancel
    \/ MainStep
    \/ ReaderFails
    \/ \E m \in Offsets : TaskStep(m)
    \/ Terminated

Spec == Init /\ [][Next]_vars

\* Goroutines are scheduled. Nothing makes a suite end: a script without a time
\* limit may run for ever, and whether a suite heeds the context is a matter of
\* the container calls it is in (module ContainerRun).
Fairness ==
    /\ WF_vars(MainStep)
    /\ \A m \in Offsets : WF_vars(Conclude(m))

LiveSpec == Spec /\ Fairness

-----------------------------------------------------------------------------
(* Properties.                                                               *)

Judging == {m \in Offsets : task[m] \in {"run", "report"}}
SlotHolders == {m \in Offsets : task[m] \in {"run", "report", "release"}}
GroupMembers == {m \in Offsets : task[m] \in {"run", "report", "release", "wgdone"}}
Started == {m \in Offsets : task[m] # "none"}

\* Every variable of the runner stays in its type; the semaphore channel never
\* holds more than its capacity and the wait group never goes negative, which
\* would panic.
TypeOK ==
    /\ kind \in [Offsets -> Kinds]
    /\ produced \in 0..NumMessages
    /\ committed \in 0..produced
    /\ cancelled \in BOOLEAN
    /\ loop \in LoopStates
    /\ inHand \in 0..NumMessages
    /\ processed \in Nat
    /\ sem \in 0..Slots
    /\ wg \in Nat
    /\ task \in [Offsets -> TaskStates]
    /\ verdict \in [Offsets -> Verdicts]
    /\ published \in [Offsets -> 0..MaxCopies]
    /\ outcome \in {"none", "nil", "error"}
    /\ readErr \in Errors \cup {"none"}
    /\ open \subseteq Resources

\* The two counters the goroutines share agree with where the goroutines are:
\* the slots in use are exactly those of scripts not past `<-sem`, the wait
\* group counts exactly those not past wg.Done, and processed counts every
\* script started (service.go 70-81). A lost release would starve the loop, a
\* lost Done would hang the shutdown.
Accounting ==
    /\ sem = Cardinality(SlotHolders)
    /\ wg = Cardinality(GroupMembers)
    /\ processed = Cardinality(Started)

\* At most maxParallel scripts are run or published at the same time, for every
\* value of the setting, the senseless ones included (service.go 43-48, 70).
BoundedParallel == Cardinality(Judging) <= Slots

\* With a limit, the loop never takes more than maxScripts scripts off the
\* topic, the one it holds while it waits for a slot included: a record whose
\* offset is committed beyond the limit would never be run (service.go 57-61).
ScriptLimit ==
    MaxScripts > 0 => processed + (IF inHand = 0 THEN 0 ELSE 1) <= MaxScripts

\* Once ExecuteFromProducer has returned, for whatever reason, no goroutine it
\* started is alive and every script it started has a verdict (service.go
\* 51-54, 74-80).
Drained ==
    loop \in {"returned", "exited"} =>
        \A m \in Offsets :
            /\ task[m] \in {"none", "finished"}
            /\ task[m] = "finished" => verdict[m] # "none"

\* Nothing is used after main's deferred calls have closed it: the containers
\* by a running suite, the publisher by a report, the reader by the loop
\* (main.go 41-72 against service.go 61, 77-80).
NoUseAfterClose ==
    /\ \A m \in Offsets :
          /\ task[m] = "run" => "runtime" \in open
          /\ task[m] = "report" => "publisher" \in open
    /\ loop = "poll" => "consumer" \in open

\* Reading a record commits it before its script is run, so a consumed script
\* that is never started is lost for good. That happens to one script at most:
\* the last one consumed, by a call of ReadMessage that failed itself. An end of
\* the loop by the script limit, by a "done" record or by one that cannot be
\* decoded loses none (consumer.go 75-82, service.go 57-68). The loss may be
\* silent: a timeout or an EOF of the reader ends the process with nil.
NoSilentLoss ==
    \A m \in Offsets :
        m <= committed /\ kind[m] = "script" /\ task[m] = "none" =>
            \/ m = inHand /\ loop = "acquire"
            \/ m = committed /\ readErr # "none"

\* If suites heed the context, a signal always ends the process: the loop leaves
\* its read or gets a slot, the goroutines leave their suites and reports, and
\* main closes what it opened (service.go 51-82, main.go 30-87).
SuitesHeedCancel == \A m \in Offsets : WF_vars(AbortRun(m))

ShutdownCompletes == SuitesHeedCancel => (cancelled ~> (loop = "exited"))

\* If every suite comes to an end, each script produced is run and its report
\* handed to the publisher, unless the loop stops: no slot is leaked and no
\* record is left behind in a running loop (service.go 56-82).
SuitesEnd == \A m \in Offsets : WF_vars(RunSuite(m))

SubmissionsServed ==
    SuitesEnd =>
        \A m \in Offsets :
            (m <= produced /\ kind[m] = "script") ~>
                (task[m] = "finished" \/ outcome # "none")

\* README.md:296 "The service waits for in-flight executions to complete before
\* shutting down": a script that is running before the signal comes keeps running
\* to a verdict of its own.
GracefulShutdown ==
    \A m \in Offsets :
        [](task[m] = "run" /\ ~cancelled => [](verdict[m] # "aborted"))

-----------------------------------------------------------------------------
(* The inductive invariant of the proofs in ExecutorProofs.                  *)

\* A record with a goroutine was a consumed script; past its suite it has a
\* verdict.
TaskDiscipline ==
    \A m \in Offsets :
        /\ task[m] # "none" => m <= committed /\ kind[m] = "script" /\ m # inHand
        /\ task[m] \notin {"none", "run"} => verdict[m] # "none"

\* Where the main goroutine is determines what it holds.
LoopDiscipline ==
    /\ loop = "acquire" <=> inHand # 0
    /\ inHand # 0 => inHand = committed /\ kind[inHand] = "script"
    /\ outcome = "none" <=> loop \in {"poll", "acquire"}
    /\ readErr # "none" => outcome # "none"
    /\ loop \in {"returned", "exited"} => wg = 0
    /\ loop \notin {"returned", "exited"} => open = Resources

\* Only the record in hand and the one whose read stopped the loop are
\* consumed without a goroutine.
NothingBehind ==
    \A m \in Offsets :
        m <= committed /\ task[m] = "none" =>
            \/ m = inHand
            \/ /\ m = committed
               /\ outcome # "none"
               /\ kind[m] = "script" => readErr # "none"

\* What the counters and the records satisfy together in every reachable state:
\* it is preserved by each step of service.go 56-82 and main.go 29-87 on its own.
IndInv ==
    /\ TypeOK
    /\ Accounting
    /\ TaskDiscipline
    /\ LoopDiscipline
    /\ NothingBehind
    /\ ScriptLimit

-----------------------------------------------------------------------------
(* The abstract contract this runner implements.                             *)

RecordStatus(m) ==
    CASE m > committed -> "queued"
      [] m <= committed /\ (m = inHand \/ m \in Judging) -> "taken"
      [] m <= committed /\ m # inHand /\ task[m] = "none" -> "skipped"
      [] OTHER -> IF published[m] > 0 THEN "answered" ELSE "unanswered"

statusBar == [m \in Offsets |-> RecordStatus(m)]

phaseBar ==
    CASE loop \in {"poll", "acquire"} -> "open"
      [] loop = "wait" -> "closing"
      [] OTHER -> "closed"

Contract == INSTANCE JudgeContract
    WITH Offsets <- Offsets, Capacity <- Slots + 1,
         status <- statusBar, phase <- phaseBar

\* The runner implements JudgeContract: records are taken in log order and at
\* most once, at most maxParallel + 1 are open, one at most is consumed
\* without being taken, and the runner finishes with none open (service.go
\* 36-83 with consumer.go 75-82).
ImplementsContract == Contract!ContractSpec
==============================================================================
