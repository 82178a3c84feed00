# Verification of scrc

scrc runs submitted scripts ("submissions") in Docker containers. A runner
process reads script records from a Kafka topic, runs each script on its tests
under a time and a memory limit, and writes one report per script to a results
topic. Around it stand a simulator and a benchmark harness (Python) that
produce submissions and count reports.

This directory holds TLA+ modules of the runner, the TLC configurations that
check them, and TLAPS proofs. Paths such as `service.go:70` are relative to
`src/`; the full path of every modelled definition is in `PROJECT.json`, `map`.

## 1. Inventory

| Part | Code | State it keeps | Operations | Talks to |
|---|---|---|---|---|
| executor service | `internal/app/executor/service.go`, `cmd/scrc/main.go` | semaphore channel, wait group, number of scripts started, main's context, what main has opened | poll, start a goroutine, wait for the group, close what main opened, be signalled | consumer, suite runner, publisher |
| suite runner | `internal/app/executor/suite_runner.go` | the aggregator: result slice, overall status, first error | prepare, run alone, run or skip a test, finalize, close | runtime engine |
| Docker container engine | `internal/runtime/docker/container_engine.go`, `container_files.go` | none of its own: each call owns a container | create, copy, attach, start, write input, wait, stop, inspect, read logs, remove | Docker daemon |
| language strategies | `lang_*.go`, `strategies.go` | the compiled binary of a prepared script | build, run | container engine |
| consumer, publisher, messages | `internal/infra/kafka/` | the reader's position and its commits, the writer | read a script, decode, publish | Kafka |
| registry, module, image pull | `internal/runtime/registry.go`, `docker/module.go`, `docker/language_runtime.go` | map of languages, one pull with its error per language | dispatch, pull once | container engine |
| limits and configuration | `cmd/scrc/config.go`, `docker/limits.go`, `messages.go:109-142` | none | parse, normalise, override, convert | all |
| consumer group | several runner processes on one topic: `consumer.go`, `service.go`, `main.go` | each process's reader with its positions, what its loop and goroutines hold; the group's assignment and committed offsets | launch, fetch, commit, start, finish, exit, be killed, rebalance, be expelled | Kafka |
| simulator | `simulator/main.py`, `producer.py`, `consumer.py` | settings, connection deadline and backoff, stop event, counters of two threads | read settings, connect, send, pause, count, wait for counts, stop, compare | Kafka |
| benchmarks | `simulator/benchmarks/` | pending table, completed rows, stop event, runner containers | register, complete, wait, build the table | Kafka, Docker |

What is hard in it: the goroutines of `ExecuteFromProducer` share two counters
whose order of release matters; one context reaches every call of the process
and a signal may cancel it between any two of them; a record is committed
before its script is run; a publication may fail or be repeated; a run races
its deadline, its program and the signal, and every call to the daemon may
fail, some after having taken effect. `PROJECT.json`, `hazards`, lists these
points at their lines, each with the property that covers it or the reason why
none does.

What makes each part correct:

- *executor*: counters agree with the goroutines; at most `maxParallel` scripts
  at a time; never more than `maxScripts` consumed; nothing closed while in
  use; a script is lost only by the read that failed with it; a signal ends the
  process.
- *suite runner*: the first failure decides; verdicts and errors are grounded
  in runs; the prepared script is closed on every path.
- *container engine and strategies*: no container left behind by the runner's
  doing; the status says what happened to the program; a limited or a cancelled
  run gives its slot back.
- *registry and image pull*: one pull per language; a script is built only with
  its images present; languages do not disturb each other.
- *limits*: no legal setting turns a limit off or into another limit.
- *consumer group*: no script lost without a kill or a failed read; which scripts
  may run twice; a partition is not held up for ever.
- *simulator*: the status OK is earned, and nothing but a disturbance denies it;
  it ends, and gives up a broker that does not answer.
- *benchmarks*: every registered submission is accounted for once, and a
  complete run is reported as complete.

## 2. Modules

```
JudgeContract              what a runner promises, abstractly
   ^ refined by (INSTANCE ... WITH, property ImplementsContract)
Executor                   main + ExecuteFromProducer      MCExecutor, ExecutorProofs
   a suite is one step there; its outcomes come from
SuiteRunner                suiteRunner.Run                 MCSuiteRunner, SuiteRunnerProofs
   a run is one step there; its outcomes come from
RunContract                what Prepare and Run promise, abstractly
   ^ refined by (property ImplementsContract)
ContainerRun               Prepare + runProgram            no constants; ContainerRunProofs

ImagePull                  registry + ensureImage          MCImagePull,
ImagePullProofs    the part of Prepare that scripts share, before ContainerRun
Limits                     config, messages, engine limits MCLimits,
LimitsProofs    the limits that ContainerRun is given

ConsumerGroup              several runners on one topic    MCConsumerGroup,
ConsumerGroupProofs    the reading side of Executor, once per process

CollectorContract          what a case's collectors promise, abstractly
   ^ refined by (property CompletesAtOnce)
Benchmark                  one case of the harness         MCBenchmark, BenchmarkProofs
Simulator                  one run of the simulator        MCSimulator, SimulatorProofs
   both are clients of the runners, which appear there as reports that come or not
```

The three levels are tied by what one assumes of the next. `Executor` takes
`RunSuite` (a result or an error) and, once the context is done, `AbortRun`.
`SuiteRunner` takes from `PreparedScript.Run` a result with one of the engine's
statuses or an error, never both. `RunContract` says which of these there are
and what each is worth, `ContainerRun` that the Docker engine gives no other
(`ImplementsContract`) and under which condition a done context ends a run
(`CancelEndsRun`), on which `Executor`'s shutdown depends.

### Executor

One action per step of the main goroutine and of a script's goroutine that
another party can observe. `loop` is the place of the main goroutine:

| `loop` | code |
|---|---|
| `poll` | the limit check and `NextScript`, `service.go:57-68` |
| `acquire` | `sem <- struct{}{}`, `service.go:70`, with the script in `inHand` |
| `wait` | `finish(err)`, `service.go:51-54`; the error is in `outcome` |
| `returned` | back in main: the deferred closes, `main.go:41-72`, last registered first |
| `exited` | the process is gone; with an error it leaves through `log.Fatalf`, which skips the closes |

`task[m]` is the place of the goroutine of record `m`: `run` (`service.go:77`),
`report` (`main.go:80`), `release` (`<-sem`, `service.go:75`), `wgdone`
(`service.go:74`), `finished`. A read moves `committed` in the same step because
`ReadMessage` commits before it returns; a failing read may have committed the
record all the same. `service.go:63` asks only what kind of error ended the
loop: the context's cancellation, a deadline and an EOF end it with nil, whether
the context is done or not and whether the error is the context's, the network's
or a "done" record's (`StopOn`); anything else is an error. `readErr` keeps the
error of a read that failed itself. A record is a script, a "done" record
(decoded to `io.EOF`) or one that does not decode; record contents play no part
in control and are left out. `published[m]` counts the copies of the report on
the results topic: 0 when the write fails or the context is done, more than one
when the client repeats a write whose reply it lost.

### SuiteRunner

`RunTest` is one turn of `executeTest` with the outcome of the run as its input,
`SkipTest` the turn after a failure. `ran` is a history of what the runs
returned and is read by no action; the properties compare it with the report.
A run that returned an error has no result, and the verdict the code gives its
test all the same is the subject of a finding (`VerdictMeansFinished`).
Outputs are atoms compared for equality; durations and stderr are left out
(stderr is treated by the code exactly as stdout is).

### ContainerRun

Every call of `Prepare` and `runProgram` that can fail, block or change a
container is one value of `pc`. The four compiled strategies are the same code
with other names and commands, and Python has no build: `compiled` tells the
two apart. The daemon's containers (`box`), the way a program ended (`exit`),
the clock (`timer`) and the signal (`cancelled`) move by themselves. Each call
may fail by the daemon's fault or because the context it was given is done; a
creation and a start may take effect although the call fails. `readsInput`
says whether the program takes the whole input (or the input fits the buffers
of the connection); the connection may also break while it is written
(`StdinBreaks`). `overdue` is a history: the deadline has passed before the wait
was over. `stray` and `unremoved` record the containers the runner
cannot answer for.

### ImagePull

The way of a script's goroutine through `Registry.Prepare`, `module.Prepare` and
`ensureImage`, up to its strategy. `once` is the `sync.Once` of a language:
"fresh", "running" while one goroutine is inside the function, "done". Claiming
it is one step, as `sync.Once` guarantees; those who come while it runs wait,
and nothing but its end lets them go (they do not look at their context).
`pullErr` is the field of the same name, which the first pull that fails sets
for good. `separate` says for which languages the run image differs from the
build image. `pulls` and `failed` are histories for the properties. A pull ends
well, is refused by the daemon, or is given up because the context is done.

### Limits

The limits of the runner's environment become the engine's defaults (`Start`);
then, for one script after another, the record's limits are decoded (`Decode`)
and put over a copy of the defaults (`Run`). `Int64` is the conversion to 64
bits with its wrap-around, which `toLimits` meets when it turns milliseconds
into nanoseconds. The functions keep the names of the code. `LimitsOfOwnScript`
says what the limits of a run are in every case: `Asked` is the number the
record stands for, `Kept` what 64 bits keep of it.

### Benchmark

One case of the benchmark: `harness` is the place of the main thread in
`main.py:161-244` and the calls it makes:

| `harness` | code |
|---|---|
| `starting` | `_start`: the containers, the wait for their health, `docker_control.py:46-88` |
| `next` | the head of the loop over the runs and the new collector, `main.py:176-195` |
| `load`, `send` | between two submissions, and in the send of one, `load.py:66-84` |
| `flush`, `abort` | the producer's flush and close after the load, or under an exception, `load.py:85-87` |
| `wait`, `join`, `close` | `wait_for_pending`, the join of the thread, the consumer's close, `collector.py:77-101` |
| `unwind` | an exception on its way to `__exit__` |
| `finished`, `crashed` | the case is over |

`reader` is the place of the collector's consumer thread. `pending` and
`completed` are the collector's tables; `_handle_result` has two locked
sections, so it is two actions (`Pop`, `AppendRow`) with the row in `hand`
between them. A submission is a record of its run, scenario and iteration;
`ScriptId` drops the run, as the code's ids do. What outlives a run is external:
the submissions on the script topic and the reports on them.

The name of a run's consumer group is fixed by the case and the run
(`main.py:186`), so a harness that is started a second time uses the groups of
the first. `earlier` holds what came before this case: for how many runs the
group has a position, and which reports were on the topic. A collector whose
group is new sees what is published once it has subscribed; one whose group was
used before resumes where that left off, with any of the earlier reports and all
since (`StartCollector`, `Resumed`, `Placed`). Run 0 is the run of the
submissions sent before, which runners may still answer.

Exceptions and interrupts come at every place of the main thread. Inside the runs
they lead to `__exit__` (`Breaks`, `SendRaises`); in the start (`StartCutOff`) and
in the stop (`StopCutOff`) they cut it off and leave containers, which `cut`
records; `refused` counts those Docker did not remove. The window of
`build_dataframe` is set around everything the run registers, so it keeps every
row. A consumer thread that outlives its join is left behind with its collector,
which nobody reads again.

### ConsumerGroup

The loop of `ExecuteFromProducer` in several processes (`place`: `off`, `poll`,
`acquire`, `drain`), with the reader that `NextScript` calls. `ReadMessage` of
the Kafka library fetches a record and then commits it, so it is two steps here:
`Fetch` moves the reader's `position`, `ReadMessage` commits and hands the record
to the loop, and a rebalance may come between them (`carried`). A read may fail
in either step, and the commit may have taken effect all the same. A process is
killed at any point (`Crash`) or exits when its goroutines are done (`Exit`), and
may be launched again; a new process has nothing of the old one. `Finish` is the
end of a script's goroutine, whose report may or may not be written: `Executor`
and `ContainerRun` have the details.

The coordinator and the session of the reader with it are external: `members`
and `owner` are a generation of the group, `session` what a reader knows of it.
A rebalance forms the next generation of those that asked to join; members that
do not answer in time are expelled and hear of it later. A commit is taken from
members of the current generation only. `handed`, `finished`, `consumed`, `late`
and `dropped` are histories, read by the properties only.

`README.md:851` speaks of exactly one runner per script. `HandedOnce` and
`LossExplained` say under which conditions: twice only behind a late commit, and
never only if the process that held it was killed or its read failed.
`LossExplained` speaks of the scripts that were consumed and of those whose
offset is behind a committed one: a commit is of an offset, and what lies behind
it nobody reads again.

### Simulator

`main` is the place of the main thread from the reading of the settings to the
exit code, `reader` that of the consumer thread. `Settings` applies the rules of
`main.py` and `load_settings` to an argument and a variable of the environment,
either of which may be absent, unreadable, negative or infinite: arguments are
taken as they are, variables are checked. The two connections are tried until
their deadline with a growing pause (`Retry`); `clock` counts in 1/32 s, in which
each pause is a whole number, so that the cap and the deadline are exact. An
attempt takes a time of `AttemptTimes`, which the client does not bound by the
deadline.

Submissions are numbered in the order of `stream_scripts`, so a number stands
for a type and an iteration. `counted` is the set of reports the consumer has
counted; the counters of the code are its sizes by type. A report that is
written or delivered twice is two members, told apart by `copy`, and is counted
twice. `positioned` says whether the consumer has a position on the results
topic: from the start if its group has committed an offset, and then it finds
what others left (`Backlogs`) and everything published before it subscribed;
otherwise from its first poll, and it finds neither. A record of a backlog has a
key, an id and a body as other programs may have written them: without an id the
key is used, without a type it is not counted, a body that cannot be formatted
is skipped, and one that is not JSON makes the poll raise. A failing poll sets
the stop event, a `KeyboardInterrupt` is handled during the production and kills
the process elsewhere. The producer is flushed and closed before `run` sees an
error of a send (`flush`), the consumer is closed before the comparison
(`close`), and either may raise or hang. The consumer looks at the id of a
report only; that a submission had the status its scenario is named for is not
checked by the code and not part of the model.

### JudgeContract

Records are taken in log order and at most once; at most `Capacity` are open;
one at most is consumed without being taken, by the step that stops the intake;
the runner finishes with none open. It knows no goroutines, counters or
context. `Executor` implements it with `Capacity = maxParallel + 1`: the
script in hand waits for a slot while `maxParallel` others hold one.

### RunContract

One preparation and one run, without containers, contexts or calls: the program
is started once at most and after the build, it is killed only under a limit and
before the answer, and there is one answer, which is an error or says how the
program ended. Only after an error may a program be given up that has no end to
tell. A status TL needs a limit that has passed while the program was waited for
(`LimitPasses`), and so does killing it; however it ended it may then be TL,
since between the deadline and the stop it may still have ended by itself.
`ContainerRun`
implements it with `Program`, the state of the run's container and, once that is
removed, the end it had. The refinement is where calls that fail although they
had their effect show: a start that fails with the program running is a `Launch`
that gives up in the same step.

### CollectorContract

The collectors of a case as if their lock were held from the first look at a
report to the row it completes. `Benchmark` implements it with the row in `hand`
counted among the rows: a report takes effect in the first of its two locked
sections (`Pop`) and the second is a stutter. What the two sections cost shows
in one place: the table of a run may lack one row, unless the consumer thread
was joined. The contract says which submission a report may complete (one of its
id), not that it is a report on it: that needs the conditions of
`OwnReportsOnceDrained`.

### Mutated definitions

Beside some definitions stands a second one, introduced as "Mutant of ...":
the same step with a plausible mistake in it. Replacing the definition by its
mutant breaks the property `PROJECT.json` names for it, which shows that the
property is sensitive to that part of the code. No specification uses them.

## 3. Runs

| Run | Instance | What it shows |
|---|---|---|
| `executor` | 4 records, limit 3, 2 slots, fair | safety of the runner, the refinement of JudgeContract; a signal ends the process; every script is served |
| `executor_graceful` | 2 records, 1 slot | *violated*: see Findings |
| `suite` | up to 3 tests, 3 outputs (one empty), 3 exit codes | the report says what the runs that finished said |
| `suite_ok` | 1 test | *violated*: see Findings |
| `container` | every script, every failure, a signal at any time, fair | containers are released, verdicts are truthful, the refinement of RunContract, limited and cancelled runs end |
| `container_limit` | the same, fair | *violated*: see Findings |
| `image_pull` | 3 scripts, 2 languages and one unknown, every choice of run images | one pull per image, nobody starts without its images, one answer per language, the signal frees those who wait |
| `limits` | six-bit integers, 5 settings, 9 field values, scripts in sequence | no negative limit reaches a run, a script cannot lift the runner's limit, limits are the script's own, wrapped ones included |
| `benchmark` | 2 runs with 2 submissions between them, 2 replicas, 1 repeated report, before them nothing or an earlier invocation of both runs with 1 submission, exceptions and interrupts anywhere | every submission is accounted for, the refinement of CollectorContract, waited-out tables are complete and (with nothing left from before) their own, containers are stopped, the harness ends if the Kafka client's closing calls do |
| `benchmark_own` | 2 runs, no repeats, nothing from before | *violated*: see Findings |
| `simulator` | 2 scenarios, 8 settings, 6 backlogs, 1 repeated report, fair | OK is earned, no false alarm, brokers are given up in time, the simulator ends if its closing calls do |
| `group` | 2 runners and 3 launches, 1 partition with 2 records, 1 expulsion, fair | a script runs twice only behind a late commit, nothing behind a committed offset is lost without a kill or a failed read, every record is consumed |

Why the bounds are enough. In `executor` the interesting cases need a script
that waits for a slot while both slots are taken (three scripts), a limit that
stops the loop with goroutines alive and a record left on the topic (a fourth),
and two slots so that goroutines pass each other on the way out. Every
assignment of kinds to the records is an initial state, so a "done" or an
undecodable record appears in every position. There is no limit in
`executor_graceful`, and no repeated report in `executor`: the theorems hold for
every limit, parallelism (zero, which is clamped, included) and number of
copies. In `suite` the failing test can be the first, the middle or the last,
and an output, an exit code and an error can each occur before, at and after it;
two different outputs and exit codes tell the last from the first.
`ContainerRun` has no constants: one script has finitely many states, so TLC's
check is exhaustive, and the proof says why it holds rather than that it does.
In `image_pull` two scripts meet at one once while a third comes late, is of the
other language, or of one without a module; every assignment of languages is an
initial state. In `limits` the field values stand on both sides of every
boundary: the greatest time limit that fits, the first that wraps to a negative
one, the first that wraps to a small positive one, and the ends of the integers.
In `benchmark` the second run uses the ids of the first again, and those of the
earlier invocation; the two submissions may be of one run or of both, so that a
late report meets the same id or none; the order of the two threads' steps is
free, and two replicas let Docker, or an interrupt, keep one of them. In
`simulator` two iterations let a repeated report stand in for a missing one of
its type; the endless production is cut at four submissions, where it may only
stutter. Its settings are the defaults, one with each kind of value that is
refused, replaced by a default or passed on (`Starts` in `MCSimulator`), its
backlogs one with each way a report can be read and one with a report delivered
twice; an attempt to connect takes no time or ten seconds, the greatest pause.
In `group` the third launch lets one runner be killed or end and come back
beside the other, a rebalance can fall before, between and after the two steps
of a read, and the expulsion lets two readers hold one partition. With one
record more than a runner can take at once, a draining runner holds one up. The
theorems carry the safety to several partitions, more records and more runners,
which TLC does not reach in good time.

**Fairness.** `Executor`: weak fairness of the main goroutine's steps and of a
goroutine's steps after its suite, which is the Go scheduler's; `Publish` is
among them because the writer gives up after its attempts. `ReaderFails`,
`Cancel` and `Produce` are never forced. Suites are not assumed to end: the two
liveness properties carry the assumption they need, `SuitesHeedCancel` (a suite
ends once the context is done) for `ShutdownCompletes` and `SuitesEnd` for
`SubmissionsServed`. The second also assumes that Kafka delivers: a read of a
record that is there returns, with the record or with an error (`service.go:61`
has no timeout of its own). `ContainerRun` examines the first: it holds for a
program that takes its input (`CancelEndsRun`) and fails for one that does not.
`ContainerRun`: the daemon answers each call, well or badly, and an armed
deadline passes; programs are not assumed to end, nor waits or connections to
break.
`ImagePull`: a goroutine's own steps, and the return of a pull whose context is
done; a pull by itself may take for ever. `Benchmark` and `Simulator`: the main
thread only, whose waits, sends and joins all have a time limit and whose
attempts to connect are bounded by their deadline (calls to Docker by the
client's); the consumer thread, the runners and Kafka may stop at any point. The
code gives no time limit to the closing calls of the Kafka client
(`producer.flush`, `producer.close`, and the consumer's `close`, which commits
first): no fairness makes them return (`Unlimited`), and `HarnessEnds` and
`SimulatorEnds` say in their premise that none of them hangs for ever. An
infinite wait, which the settings allow, is left out of `SimulatorEnds` by its
premise. `ConsumerGroup`: the steps of a running loop, the end of suites (which
`ContainerRun` shows of limited ones), and of the coordinator that it completes
a rebalance and that members hear of it; reads need not succeed, processes need
not start or be killed. That there is a runner again and again is the premise of
`EverythingConsumed`.

**Deadlock** is checked in every run. The end of a process and the return of a
run are explicit stuttering steps (`Terminated`, `Reported`, `Returned`, `Over`),
so any other stop would be reported.

### Findings

- `executor_graceful`. `README.md:296` promises that in-flight executions
  complete before the service shuts down. The goroutines use the context the
  signal cancels (`service.go:77`, `main.go:80`), so a running script is
  aborted and its report, published with the same context, is usually lost.
- `suite_ok`. `result.go:9` says that OK means the script finished within its
  limits, `result.go:11` that WA means it finished but produced an unexpected
  output. A run that returned an error is given the status OK
  (`suite_runner.go:118`), and after the comparison of its empty output keeps it
  if none was expected and has WA otherwise. (The error itself does reach the
  report: `ErrorReaches`.)
- `container_limit`. `README.md:463` calls `time_limit_ms` the maximum execution
  time. The input is written before the time limit is armed
  (`container_engine.go:101-115`), so a program that does not read a large input
  runs for ever and holds its slot.
- `benchmark_own`. `README.md:1039` says that only submissions that start during
  the measurement window are included. Each run's load generator counts its
  iterations from 1 (`load.py:54`), and results are matched by id
  (`collector.py:164`), so a result of a run whose wait timed out becomes a row
  of the next run that sent the same id. `OwnReportsOnceDrained` shows that this
  needs such a timeout or a repeated report.

### Readings

In these points the words of the repository and its code differ, or leave room,
and the properties of the passing runs follow the code. Each property says so in
its comment.

- *The end of the loop* (`NoSilentLoss`). `service.go:63` takes any cancellation,
  deadline or EOF for a normal end, also those of the network. Such a read may
  have committed a script: it is lost and the process exits without an error.
  The comment at `service.go:30` speaks of the context and of `io.EOF` only as
  reasons to stop.
- *OK* (`VerdictTruthful`). `README.md:533` says of OK that the script executed
  successfully. The engine gives OK to a program that ended by itself, whatever
  its exit code, which is reported beside the status.
- *TL* (`VerdictTruthful`). `result.go:13` says of TL that the script was
  terminated for exceeding the limit. A program that ends by itself while its
  deadline passes may have TL or the verdict on its end; TL says that the deadline
  passed before the runner saw it end. A program that the daemon is late to kill
  ends in an error (`container_files.go:103`).
- *The report's output* (`TailFromLastRun`). `README.md:515` calls it aggregated
  if there are several tests, and the example at `README.md:589-623` has an empty
  one over two tests that printed. The code takes the last test that printed
  something.
- *Zero and negative limits* (`LimitNotLifted`, `LimitsOfOwnScript`).
  `README.md:463-464` says that 0 is no limit, `README.md:474-475` that a
  negative one is not valid, and `README.md:352-353` calls the runner's a
  default. In the code a record's zero or negative limit asks for nothing, and
  the runner's stays in force.
- *A harness started again* (`OwnReportsOnceDrained`). Its groups resume where
  they left off (`main.py:186`), and its ids begin at 1 again: reports of the
  earlier invocation can become rows of the new one. The property is about
  cases that nothing was left to.
- *Runner containers* (`NoRunnerLeft`). A start that fails or is interrupted
  leaves the containers started so far (`docker_control.py:58`, `:81`), since
  `__exit__` is not called; so does an interrupt of the stop, which
  `suppress(Exception)` does not hold back (`:75`). The property is about the
  cases without either.

## 4. Proofs

TLAPS proves the following for every value of the constants, under the named
assumptions of the modules (`ExecutorAssumption`: the numbers are integers, so
a negative limit or parallelism is included; `SuiteAssumption`: the empty
output is an output and 0 an exit code; `GroupAssumption`: at least one slot;
`SimulatorAssumption`: no scenario type twice, which `build_scenarios` sees to;
`BenchmarkAssumption`: at least one run and one replica, and no more used
groups than runs).

`ExecutorProofs`: `IndInv` is inductive. The safety properties are not inductive
alone: that the loop closes nothing too early rests on `wg = 0`, which says
something about the goroutines only together with `Accounting`, whose
preservation needs to know that the record in hand has no goroutine yet
(`TaskDiscipline`, `LoopDiscipline`) and, for the loss of scripts, what lies
behind the committed offset (`NothingBehind`: only the record in hand, or the
last one, by whose read the loop ended; if that was a script, the read failed).
The proof has a lemma for each kind of step (reads, the start of a goroutine,
the return, the environment, the goroutine), a few lemmas on how the sets of
goroutines gain or lose one member, and one lemma per property that derives it
from `IndInv`. `RunnerImplementsContract` shows that every step maps to a step
of `JudgeContract` or to a stutter; the bound on open records comes from
`Accounting` and `TypeOK`.

`SuiteRunnerProofs`: `IndInv` has the tests before `idx` settled and those from
`idx` on blank (`Settled`), `runErr` the first run with an error
(`FirstError`), and ties the report to the aggregator (`Stage`). `LatestFacts`
is proved by well-founded reasoning on the naturals: a nonempty set of test
numbers has a greatest member, which the `CHOOSE` of `Latest` picks.

`ContainerRunProofs`: `IndInv` ties the runner's next call to the state of the
container it is made on (`Place`) and keeps the two containers apart
(`OneAtATime`). That a verdict has its ground (`Grounded`) rests on it: an
answer is given only in places where the container has ended, which only a
container with an end to tell has (`Ends`). A late finish is read with a context
that the signal does not end (`Late`); of the build's it is not true, whose copy
uses the cancelled one, and the invariant says so. `Released` needs that no call
leaves the cleanup out but a failed creation, whose container is then the first
of its phase. `EngineImplementsContract` maps each call to a step of
`RunContract` or a stutter, by what the call may do to the program: nothing
(`QuietCallAnswers`), start it, end it, discard it.

`ImagePullProofs`: `IndInv` ties how far the pulls of a language have come to its
once and its kept error (`OnceDiscipline`), and a goroutine's place to what was
asked for on its behalf (`PlaceDiscipline`). `PulledOnce` is part of it: that
the pulling goroutine is alone is what lets its end speak for all. From it
follow that a script let through has its images and that all scripts of a
language get one answer. The assumption is that `NoLanguage` is none of the
languages.

`LimitsProofs`: `IndInv` says that the defaults stay what the environment made
of them and that the limits in force are computed from them and the current
record. The three properties follow for every width of the integers, from lemmas
on `Int64`: what it returns has the width, and of a positive number it keeps the
rest modulo 2^64, read as negative where that does not fit (`Int64Keeps`, from
the uniqueness of quotient and rest, `RestUnique`). The assumption is that
settings and fields have that width themselves.

`ConsumerGroupProofs`: that two runners do not hand out one record rests on three
facts. A member whose commits are taken has no partition of another's
(`OwnShares`); a record that was handed out lies behind the committed offset
(`Behind`); and every reader that may hand out its partition's records is past
it (`ReadersPast`). Each holds of a record only while it is `Clean`: no late
commit, which may set the offset back or name another member's record, has
touched its partition up to it. The same facts make the committed offset of a
partition go forward until a commit is made late on it
(`CommittedOffsetsGoForward`, an action property: a member is then always past
what is committed, `ReadersReached`); that late commits do set it back, TLC
shows on the instance of `group`. `LossExplained` has two halves. What a loop
holds where (`HoldsByPlace`) keeps each consumed script somewhere
(`ConsumedKept`). And whatever offset a reader begins at and whichever generation
it commits in, all records before the one it holds have been consumed, so no
offset it commits leaves an unread record behind (`NothingSkipped`); here late
commits do no harm.

`SimulatorProofs`: `IndInv` follows the main thread: what is on the topic
(`Sends`), that a satisfied wait stays satisfied (`Satisfied`), that an
undisturbed thread stops for no other reason (`Quiet`) and how far the clock is
(`ClockBounded`). The verdict then is a matter of counting. k iterations have
exactly k submissions of each type (`OnePerIteration`, from the uniqueness of
quotient and rest, since types and iterations are computed with `%` and `\div`);
undisturbed, the map from the counted reports of a type to those submissions is
an injection, so there are at most k, and if k then every one is answered
(`OwnReports`). `NoFalseAlarm` needs the first half, `OkEarned` the second.

`BenchmarkProofs`: `Ledger` is carried by what the consumer thread holds
(`Handling`: each report in one place) and by the numbering of a run's
iterations (`Numbered`: a new submission never replaces one in the table);
`CompleteFrame` adds how far runs, waits and tables have come (`Course`).
`OwnReportsOnceDrained` rests on `Own`: with nothing left from before
(`NothingEarlier`) and after runs that were waited out, each submission has been
answered by its own first report (`AllAnswered`), so without repeats nothing of
theirs can still come, and a new group sees none of what came. `NoRunnerLeft`
follows the containers through the runs, which touch them only in the start and
in the stop. `CollectorsImplementContract` needs of
`Handling` that the row in hand is not in the list yet, and of `Ledger` that a
submission that is registered has no row.

Three refinements are proved (`RunnerImplementsContract`,
`EngineImplementsContract`, `CollectorsImplementContract`), and with them every
safety property that a passing run checks.

Only model-checked: the liveness properties (`ShutdownCompletes`,
`SubmissionsServed`, `LimitedRunEnds`, `CancelEndsRun`, `CancelEndsPull`,
`HarnessEnds`, `SimulatorEnds`, `EverythingConsumed`). They hold under fairness,
which needs ENABLED, and that the proof system does not reach.

## 5. Not modelled, and what is left

Not modelled: charts and benchmark plans (static data and drawing), tests and
sample scripts, the JSON and tar encodings, the wording of logs, durations,
timestamps and stderr. Docker, Kafka and the programs are external and appear as
their outcomes; each module notes where it does so. Two hazards have no
property: the logs of a stopped container are read without a time limit
(`container_files.go:118`), so whether that call returns is the daemon's affair
alone, and errors reported inside the output of a pull are not looked at
(`container_engine.go:36`), which shows only as a later failure to create a
container. `ConsumerGroup` leaves out `maxScripts`, which ends a loop as a "done"
record does.

What could be added: the refinement of each process of `ConsumerGroup` by
`Executor`, whose reading side it repeats in two steps; a composition in which
`SuiteRunner` calls `RunContract` and `Executor` calls `SuiteRunner`, of which
section 2 argues that what one assumes the next provides; more partitions in
`group`.
