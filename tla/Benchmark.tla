------------------------------ MODULE Benchmark ------------------------------
(* One case of the benchmark harness: RunnerManager's containers, and for    *)
(* each run a fresh BenchmarkResultCollector with its consumer thread and a  *)
(* BenchmarkLoadGenerator. The main thread and the consumer thread share the *)
(* pending table and the completed rows under a lock. The runners, Docker    *)
(* and Kafka are external. The runner containers, the script topic and the   *)
(* identifiers outlive a run; the collector does not. Another case, or an    *)
(* earlier invocation of the harness, may have left reports, unanswered      *)
(* submissions and the committed positions of its consumer groups, which     *)
(* have the same names. An interrupt may come at any step of the case.       *)
EXTENDS Naturals, FiniteSets, Sequences

CONSTANTS
    Scenarios,   \* pairs of a language and an outcome
    NumRuns,     \* case.num_runs
    Replicas,    \* case.runner_replicas
    MaxSent,     \* bound: submissions of all runs, which the code bounds by time
    MaxRepeats,  \* bound: reports written or delivered twice
    EarlierRuns, \* bound: runs whose consumer group an earlier invocation used
    EarlierSent  \* bound: submissions, per scenario, of what came before

ASSUME BenchmarkAssumption ==
    /\ NumRuns \in Nat \ {0} /\ Replicas \in Nat \ {0}
    /\ MaxSent \in Nat /\ MaxRepeats \in Nat
    /\ EarlierRuns \in 0..NumRuns /\ EarlierSent \in Nat

VARIABLES
    harness,     \* where the main thread is
    runners,     \* the runner containers that exist
    refused,     \* those of them that Docker would not remove
    cut,         \* whether __enter__ or __exit__ was cut off by an exception
    run,         \* run_num
    earlier,     \* the runs and reports of before this invocation
    registered,  \* every submission ever registered
    topic,       \* the submissions on the script topic
    reports,     \* the reports on the results topic
    pending,     \* _pending: the submissions of this run without a result
    completed,   \* _completed
    reader,      \* where the consumer thread is
    inbox,       \* the reports the consumer has not polled yet
    batch,       \* the polled reports not yet handled
    hand,        \* the row between _handle_result's two locked sections
    wait,        \* how wait_for_pending ended
    joined,      \* how the join of the consumer thread ended
    frames       \* the rows of each run, with how its collector stopped

containers == <<runners, refused, cut>>
stop == <<wait, joined>>
main == <<harness, containers, run, registered, stop, frames>>
collector == <<pending, completed, reader, inbox, batch, hand>>
external == <<earlier, topic, reports>>
vars == <<main, external, collector>>

\* Run 0 stands for what was sent before this case.
Submissions == [run : 0..NumRuns, scenario : Scenarios, iteration : 1..MaxSent]
Old == {s \in Submissions : s.run = 0 /\ s.iteration <= EarlierSent}
Reports == [of : Submissions, copy : {1, 2}]
Rows == [for : Submissions, report : Reports]
NoRow == [for |-> "none"]

\* The id names the scenario and the iteration, not the run.
ScriptId(s) == <<s.scenario, s.iteration>>

\* The report on a submission, when it is written for the first time.
First(s) == [of |-> s, copy |-> 1]

Init ==
    /\ harness = "starting" /\ runners = 0 /\ refused = 0 /\ cut = "none"
    /\ run = 0 /\ registered = {} /\ topic = Old
    /\ earlier \in [runs : {0, EarlierRuns}, reports : SUBSET {First(s) : s \in Old}]
    /\ reports = earlier.reports
    /\ pending = {} /\ completed = {} /\ reader = "gone"
    /\ inbox = {} /\ batch = {} /\ hand = NoRow
    /\ wait = "none" /\ joined = "none" /\ frames = <<>>

-----------------------------------------------------------------------------
(* The main thread.                                                          *)

\* The next place of the main thread.
Go(here, next) == harness = here /\ harness' = next

StartRunner ==
    /\ harness = "starting" /\ runners < Replicas
    /\ runners' = runners + 1
    /\ UNCHANGED <<harness, refused, cut, run, registered, external, collector, stop, frames>>

\* containers.run raises, at a container's creation or at its start, or an
\* interrupt comes, also while the containers are waited for: nothing calls
\* __exit__, and the containers stay.
StartCutOff ==
    /\ Go("starting", "crashed")
    /\ runners' \in {runners, runners + 1} /\ runners' <= Replicas
    /\ cut' = "start"
    /\ UNCHANGED <<refused, run, registered, external, collector, stop, frames>>

\* With all containers there, or the grace period over, the runs begin.
Enter ==
    /\ Go("starting", "next") /\ runners = Replicas
    /\ UNCHANGED <<containers, run, registered, external, collector, stop, frames>>

\* Whether the group of run n has a committed position, from before.
Resumed(n) == n <= earlier.runs

\* A new collector, with an empty table, a consumer and a thread; the iterations
\* begin at 1 again. The group's name is fixed by the case and the run: a new
\* one starts at the end of the results topic, one that was used before at the
\* position it committed, with some of the reports of that time and all since.
StartCollector ==
    /\ Go("next", "load") /\ run < NumRuns
    /\ run' = run + 1
    /\ \E unseen \in SUBSET earlier.reports :
         inbox' = IF Resumed(run') THEN unseen \cup (reports \ earlier.reports) ELSE {}
    /\ pending' = {} /\ completed' = {} /\ batch' = {}
    /\ hand' = NoRow /\ reader' = "subscribe" /\ wait' = "none" /\ joined' = "none"
    /\ UNCHANGED <<containers, registered, external, frames>>

SentSoFar == {s \in registered : s.run = run}

\* A submission is registered before it is sent.
Register ==
    /\ Go("load", "send")
    /\ Cardinality(registered) < MaxSent
    /\ \E scenario \in Scenarios :
         LET s == [run |-> run, scenario |-> scenario, iteration |-> Cardinality(SentSoFar) + 1]
         IN  /\ registered' = registered \cup {s}
             /\ pending' = {p \in pending : ScriptId(p) # ScriptId(s)} \cup {s}
    /\ UNCHANGED <<containers, run, external, completed, reader, inbox, batch, hand, stop, frames>>

InSend == {s \in SentSoFar : s.iteration = Cardinality(SentSoFar)}

Send ==
    /\ Go("send", "load")
    /\ topic' = topic \cup InSend
    /\ UNCHANGED <<containers, run, registered, earlier, reports, collector, stop, frames>>

\* The duration is over.
LoadEnds ==
    /\ Go("load", "flush")
    /\ UNCHANGED <<containers, run, registered, external, collector, stop, frames>>

\* Mutant of Raised: an exception goes past __exit__.
RaisedPast == "crashed"

\* Where an exception of a run goes: __exit__ stops the runners, and no one
\* stops the collector.
Raised == "unwind"

\* The send fails or its acknowledgement is late, or an interrupt comes; the
\* record may be there.
SendRaises ==
    /\ Go("send", "abort")
    /\ \E kept \in SUBSET InSend : topic' = topic \cup kept
    /\ UNCHANGED <<containers, run, registered, earlier, reports, collector, stop, frames>>

\* An interrupt, or an exception, anywhere else in the runs: no consumer or no
\* producer can be created, a table cannot be saved. In the loop of the load
\* the producer is flushed and closed first.
Breaks ==
    /\ \/ Go("load", "abort")
       \/ Go("load", Raised) /\ SentSoFar = {}
       \/ \E here \in {"next", "flush", "abort", "wait", "join", "close"} : Go(here, Raised)
    /\ UNCHANGED <<containers, run, registered, external, collector, stop, frames>>

\* The producer is flushed and closed, after the loop or under an exception.
\* After the loop, the window is set around what was sent, and the main thread
\* waits through the cooldown.
Flushed ==
    /\ Go("flush", "wait") \/ Go("abort", Raised)
    /\ UNCHANGED <<containers, run, registered, external, collector, stop, frames>>

WaitEnds(why) ==
    /\ Go("wait", "join")
    /\ wait' = why
    /\ UNCHANGED <<containers, run, registered, external, collector, joined, frames>>

\* Mutant of NothingPending: the reports not handled yet are taken for it.
NothingPolled == batch = {}

NothingPending == pending = {}

\* wait_for_pending returns, then stop() sets the stop event and joins.
WaitDrained == NothingPending /\ WaitEnds("drained")

\* Mutant of WaitTimesOut: every turn of the loop sets the deadline anew.
WaitGoesOn == harness = "wait" /\ UNCHANGED vars

WaitTimesOut == WaitEnds("timeout")

\* Mutant of ReaderGone: the join does not wait.
ReaderAnywhere == TRUE

ReaderGone == reader = "gone"

Joins(how) ==
    /\ Go("join", "close")
    /\ joined' = how
    /\ UNCHANGED <<containers, run, registered, external, collector, wait, frames>>

JoinReturns == ReaderGone /\ Joins("returned")

JoinTimesOut == Joins("timeout")

\* The consumer's close returns, and the table of the run is built from what is
\* completed by now. Its window keeps every row, since nothing is registered
\* outside it. A reader that has not ended is left behind with its collector,
\* which nobody reads again.
FrameBuilt ==
    /\ Go("close", "next")
    /\ frames' = Append(frames, [rows |-> completed, wait |-> wait, join |-> joined])
    /\ UNCHANGED <<containers, run, registered, external, collector, stop>>

\* The process ends, and the consumer thread with it; what it has still to handle
\* is lost, and a row that it has in hand is not entered any more.
ThreadDies ==
    /\ inbox' = {} /\ batch' = {}
    /\ reader' = IF hand = NoRow THEN "gone" ELSE "append"
    /\ UNCHANGED <<pending, completed, hand>>

\* The runs are left, by an exception or after the last one.
Stopping == harness = "unwind" \/ (harness = "next" /\ run = NumRuns)

\* __exit__ stops and removes the containers one by one and forgets them; an
\* error of Docker is suppressed, and only that container stays.
StopRunners ==
    /\ Stopping
    /\ harness' = IF harness = "unwind" THEN "crashed" ELSE "finished"
    /\ runners' \in 0..runners /\ refused' = runners'
    /\ ThreadDies
    /\ UNCHANGED <<cut, run, registered, external, stop, frames>>

\* An interrupt is no Exception: it is not suppressed and ends the loop, at any
\* of the containers.
StopCutOff ==
    /\ Stopping /\ harness' = "crashed"
    /\ runners' \in 0..runners
    /\ cut' = "stop"
    /\ ThreadDies
    /\ UNCHANGED <<refused, run, registered, external, stop, frames>>

-----------------------------------------------------------------------------
(* The consumer thread.                                                      *)

\* The stop event of this run's collector: set by stop(), before the join.
StopEventSet == harness \in {"join", "close"} \/ Len(frames) = run

\* The first poll joins the group; a new group does not see what was published
\* before.
Subscribe ==
    /\ reader = "subscribe" /\ ~StopEventSet
    /\ reader' = "poll"
    /\ UNCHANGED <<main, external, pending, completed, inbox, batch, hand>>

Poll ==
    /\ reader = "poll" /\ ~StopEventSet
    /\ inbox # {}
    /\ batch' = inbox /\ inbox' = {}
    /\ reader' = "handle"
    /\ UNCHANGED <<main, external, pending, completed, hand>>

\* The thread leaves its loop; or poll raises, or a payload that is no report,
\* and ends it there. What it had polled, and what it would have, is lost.
ReaderEnds ==
    /\ reader \in {"subscribe", "poll", "handle"}
    /\ reader' = "gone" /\ inbox' = {} /\ batch' = {}
    /\ UNCHANGED <<main, external, pending, completed, hand>>

AfterMessage(rest) == IF rest = {} THEN "poll" ELSE "handle"

\* Mutant of Taken: the record is looked up, not popped.
LookedUp(s) == UNCHANGED pending

Taken(s) == pending' = pending \ {s}

\* _handle_result's first locked section: the id's record leaves the table.
Pop ==
    /\ reader = "handle"
    /\ \E m \in batch :
         /\ batch' = batch \ {m}
         /\ \/ \E s \in pending :
                 /\ ScriptId(s) = ScriptId(m.of)
                 /\ Taken(s)
                 /\ hand' = [for |-> s, report |-> m]
                 /\ reader' = "append"
            \/ /\ \A s \in pending : ScriptId(s) # ScriptId(m.of)
               /\ reader' = AfterMessage(batch')
               /\ UNCHANGED <<pending, hand>>
    /\ UNCHANGED <<main, external, completed, inbox>>

\* Its second: the row is completed.
AppendRow ==
    /\ reader = "append"
    /\ completed' = completed \cup {hand}
    /\ hand' = NoRow
    /\ reader' = AfterMessage(batch)
    /\ UNCHANGED <<main, external, pending, inbox, batch>>

-----------------------------------------------------------------------------
(* The runners.                                                              *)

Repeats == {m \in reports : m.copy = 2}

\* The consumer's group has a position on the results topic.
Placed == reader \in {"poll", "handle", "append"} \/ (reader = "subscribe" /\ Resumed(run))

\* A runner answers a submission of this or of an earlier run, or a write or a
\* delivery that is repeated adds a copy.
Report(m) ==
    /\ m.of \in topic /\ m \notin reports
    /\ m.copy = 2 =>
          /\ [m EXCEPT !.copy = 1] \in reports
          /\ Cardinality(Repeats) < MaxRepeats
    /\ reports' = reports \cup {m}
    /\ inbox' = IF Placed THEN inbox \cup {m} ELSE inbox
    /\ UNCHANGED <<main, earlier, topic, pending, completed, reader, batch, hand>>

MainStep ==
    \/ StartRunner \/ Enter
    \/ StartCollector \/ Register \/ Send \/ LoadEnds \/ Flushed
    \/ WaitDrained \/ WaitTimesOut \/ JoinReturns \/ JoinTimesOut \/ FrameBuilt
    \/ StopRunners

\* What no one waits for: errors and interrupts.
Fails == StartCutOff \/ SendRaises \/ Breaks \/ StopCutOff

ReaderStep == Subscribe \/ Poll \/ ReaderEnds \/ Pop \/ AppendRow

\* The runs go on, or are prepared. Once they are left, nothing that a runner or
\* the consumer thread does reaches a table or the stop: their steps are left
\* out from there.
Running == ~Stopping /\ harness \notin {"finished", "crashed"}

\* The harness has returned or crashed.
Over == harness \in {"finished", "crashed"} /\ UNCHANGED vars

Next ==
    \/ MainStep \/ Fails
    \/ Running /\ ReaderStep
    \/ Running /\ \E m \in Reports : Report(m)
    \/ Over

Spec == Init /\ [][Next]_vars

\* Where the main thread is in a call of the Kafka client that the code gives no
\* time limit: the producer's flush and close, the consumer's close, which
\* commits its position.
Unlimited == {"flush", "abort", "close"}

\* The main thread is scheduled; its waits, sends and joins have a time limit,
\* and so have the calls to Docker. Nothing is asked of the calls above, the
\* consumer thread or the runners.
LiveSpec == Spec /\ WF_vars(harness \notin Unlimited /\ MainStep)

-----------------------------------------------------------------------------
(* Properties.                                                               *)

\* Every variable stays in its type.
TypeOK ==
    /\ harness \in {"starting", "next", "load", "send", "flush", "abort", "wait", "join",
                    "close", "unwind", "finished", "crashed"}
    /\ runners \in 0..Replicas /\ refused \in 0..Replicas /\ cut \in {"none", "start", "stop"}
    /\ run \in 0..NumRuns
    /\ registered \subseteq Submissions /\ topic \subseteq registered \cup Old
    /\ earlier \in [runs : 0..NumRuns, reports : SUBSET reports]
    /\ reports \subseteq Reports /\ inbox \cup batch \subseteq reports
    /\ pending \subseteq registered
    /\ completed \subseteq Rows /\ hand \in Rows \cup {NoRow}
    /\ reader \in {"subscribe", "poll", "handle", "append", "gone"}
    /\ wait \in {"none", "drained", "timeout"} /\ joined \in {"none", "returned", "timeout"}
    /\ Len(frames) <= run

InHand == {r \in {hand} : r # NoRow}

RowsSoFar == completed \cup InHand

\* Every submission of the run is at every moment in exactly one place, the
\* pending table, the consumer thread's hand or a completed row, and no report
\* or submission makes two rows, although the two threads and repeated reports
\* interleave (collector.py 85-87 and 160-182).
Ledger ==
    /\ {r.for : r \in RowsSoFar} \cup pending = SentSoFar
    /\ \A r \in RowsSoFar : r.for \notin pending
    /\ \A r, q \in RowsSoFar : r.for = q.for \/ r.report = q.report => r = q
    /\ InHand \cap completed = {}

\* A table built after the wait found nothing pending and the join returned has
\* a row for every submission of its run (collector.py 77-105, main.py 215-220).
\* The row in the thread's hand is why the join is needed.
CompleteFrame ==
    \A n \in DOMAIN frames :
        frames[n].wait = "drained" /\ frames[n].join = "returned" =>
            {r.for : r \in frames[n].rows} = {s \in registered : s.run = n}

Contract == INSTANCE CollectorContract WITH IdOf <- ScriptId, round <- run,
                rows <- RowsSoFar, tables <- frames

\* The collectors implement CollectorContract: although a report is handled in
\* two locked sections, beside the registrations, the wait and the table of the
\* main thread, it completes its submission in one step, the first of the two;
\* what a table may lack is the row between them (collector.py 65-110 and
\* 150-182).
CompletesAtOnce == Contract!ContractSpec

OwnRow(r) == r.report.of = r.for

\* What came before this case is over: it left no submission unanswered and no
\* consumer group with a position.
NothingEarlier == earlier.runs = 0 /\ \A s \in Old : First(s) \in earlier.reports

\* When nothing of an earlier case or invocation goes on, every earlier run was
\* waited out and no report is repeated, a run's table is made of reports on
\* its own submissions only, although the identifiers of the runs are the same
\* (main.py 176-220, collector.py 163-166). A harness that is started a second
\* time uses the groups of the first: its tables are out of this promise.
OwnReportsOnceDrained ==
    \A n \in DOMAIN frames :
        /\ NothingEarlier
        /\ \A k \in 1..(n - 1) : frames[k].wait = "drained"
        /\ Repeats = {}
        => \A r \in frames[n].rows : OwnRow(r)

\* Only submissions that start during the measurement window are included
\* (README.md:1039): a run's rows report on its own submissions. A report that
\* comes late is taken for the next run's submission with the same id.
OnlyThisRun ==
    \A n \in DOMAIN frames : \A r \in frames[n].rows : OwnRow(r)

\* However the runs end, also by an exception or an interrupt, every runner
\* container that could still take submissions is one that Docker would not
\* remove (docker_control.py 72-79 and 115-124). Two cases are out of this
\* promise, and the code does leave containers in them: a start that fails or
\* is interrupted, which nothing undoes (56-70), and an interrupt of the stop
\* itself, which suppress(Exception) lets through (75-78).
NoRunnerLeft ==
    harness \in {"finished", "crashed"} /\ cut = "none" => runners = refused

\* If the Kafka client's flush and close return whenever they are called, the
\* harness ends, whatever the consumer thread, the runners and the topics do
\* (main.py 161-244): its own waits and its join have a limit.
HarnessEnds ==
    []<>(harness \notin Unlimited) => <>(harness \in {"finished", "crashed"})
==============================================================================
