------------------------------ MODULE Simulator ------------------------------
(* The simulator: the main thread reads its settings, connects, produces     *)
(* every scenario for a number of iterations, waits for the counts of the    *)
(* consumer thread, stops it and compares. The runners and Kafka are         *)
(* external. The consumer group has a fixed name, so a simulator may find    *)
(* the reports that an earlier one left.                                     *)
EXTENDS Integers, FiniteSets, Sequences

CONSTANTS
    Scenarios,      \* the types of the scenarios, in the order of sending
    Configurations, \* arguments and environment a simulator is started with
    Backlogs,       \* what other producers or earlier runs may have left to read
    AttemptTimes,   \* what an attempt to connect in vain may take
    Endless,        \* a time that is infinite
    Unset,          \* an argument or a variable that is not given
    Garbage,        \* one that is not a number
    NoId,           \* a report without an id or a key
    MaxSent,        \* bound: submissions of a simulator without an end
    MaxRepeats      \* bound: reports that are written or delivered twice

VARIABLES
    main,         \* where the main thread is
    settings,     \* the settings in force
    clock,        \* time since a connection was first tried, and the backoff
    sent,         \* how many submissions were acknowledged
    stop,         \* stop_event
    allConsumed,  \* all_consumed
    trouble,      \* what went wrong for the main thread
    exit,         \* how the process ended: code 0 is "OK", 1 "MISMATCH"
    reader,       \* where the consumer thread is
    failed,       \* whether consumer_errors has an entry
    positioned,   \* whether the consumer has a position on the results topic
    inbox,        \* the reports the consumer has yet to poll
    batch,        \* the polled reports not yet counted
    counted,      \* the reports counted
    topic,        \* the submissions on the script topic
    reports       \* the reports published in this run

producing == <<settings, clock, sent, topic>>
consuming == <<reader, failed, positioned, inbox, batch, counted>>
ending == <<allConsumed, trouble, exit>>
vars == <<main, producing, stop, ending, consuming, reports>>

-----------------------------------------------------------------------------
(* Settings, scenarios and ids.                                              *)

\* An argument goes before the environment, which falls back to a default.
Given(c, read) == IF c.arg # Unset THEN c.arg ELSE read

OrDefault(value, default) == IF value \in {Unset, Garbage} THEN default ELSE value

AtLeastZero(t) == IF t # Endless /\ t < 0 THEN 0 ELSE t

\* Only what the environment says is checked and clamped.
Settings(c) ==
    [iterations |-> Given(c.iterations, OrDefault(c.iterations.env, 1)),
     interval   |-> Given(c.interval, AtLeastZero(OrDefault(c.interval.env, 1))),
     wait       |-> Given(c.wait, OrDefault(c.wait.env, 60)),
     poll       |-> Given(c.poll, IF OrDefault(c.poll.env, 0) > 0 THEN c.poll.env ELSE 1000)]

\* parse_args refuses an argument that is not a number.
BadArgument(c) == \E s \in DOMAIN c : c[s].arg = Garbage

\* build_scenarios gives no type twice.
ASSUME SimulatorAssumption ==
    /\ Scenarios \in Seq(STRING) /\ Scenarios # <<>>
    /\ \A i, j \in DOMAIN Scenarios : Scenarios[i] = Scenarios[j] => i = j
    /\ MaxSent \in Nat /\ MaxRepeats \in Nat /\ AttemptTimes \subseteq Nat
    /\ \A c \in Configurations : ~BadArgument(c) => Settings(c).iterations \in Int

iterations == settings.iterations

Types == {Scenarios[i] : i \in DOMAIN Scenarios}

Length(n) == n * Len(Scenarios)

\* The n-th submission's type and iteration; a submission is known by its number.
TypeOf(n) == Scenarios[((n - 1) % Len(Scenarios)) + 1]

IterationOf(n) == ((n - 1) \div Len(Scenarios)) + 1

\* An id, split at its last dash; 0 stands for an empty suffix.
Id(n) == <<TypeOf(n), IterationOf(n)>>

\* A write or a delivery that is repeated adds a copy, which is counted again; so
\* does a second copy of a report in a backlog.
Answers == [of : 1..MaxSent, copy : {1, 2}]
Strays == [stray : UNION Backlogs]

\* The id of a report, or its key: the runner repeats a submission's id in both.
ReportId(m) ==
    IF "stray" \notin DOMAIN m THEN Id(m.of)
    ELSE IF m.stray.id # NoId THEN m.stray.id ELSE m.stray.key

\* infer_script_type finds a type.
HasType(m) == ReportId(m) # NoId /\ ReportId(m)[1] # "" /\ ReportId(m)[2] # 0

ReportType(m) == ReportId(m)[1]

\* What is not JSON makes the poll raise; JSON that format_result does not expect
\* makes it raise for this report only.
Garbled(m) == "stray" \in DOMAIN m /\ m.stray.body = "garbled"

Formatted(m) == "stray" \in DOMAIN m => m.stray.body = "report"

Init ==
    /\ main = "configure"
    /\ settings = [iterations |-> 0, interval |-> 0, wait |-> 0, poll |-> 1]
    /\ clock = [elapsed |-> 0, backoff |-> 0]
    /\ sent = 0 /\ topic = {} /\ reports = {}
    /\ stop = FALSE /\ allConsumed = FALSE /\ trouble = {} /\ exit = "none"
    /\ reader = "none" /\ failed = FALSE /\ inbox = {} /\ batch = {} /\ counted = {}
    /\ positioned = FALSE

-----------------------------------------------------------------------------
(* The main thread: settings and connections. Time is counted in 1/32 s,     *)
(* in which every backoff is a whole number.                                 *)

Second == 32
Deadline == 60 * Second
MaxBackoff == 10 * Second

StartClock == [elapsed |-> 0, backoff |-> Second]
Stopped == [elapsed |-> 0, backoff |-> 0]

\* Mutant of NextBackoff: the backoff is not capped.
NextBackoffUncapped(b) == (3 * b) \div 2

NextBackoff(b) == IF (3 * b) \div 2 < MaxBackoff THEN (3 * b) \div 2 ELSE MaxBackoff

\* The arguments are read, the scenarios loaded and the log opened.
Configure ==
    /\ main = "configure"
    /\ \E c \in Configurations :
         IF BadArgument(c)
         THEN main' = "over" /\ exit' = "usage" /\ UNCHANGED <<settings, clock>>
         ELSE /\ settings' = Settings(c) /\ clock' = StartClock
              /\ main' = "connect" /\ UNCHANGED exit
    /\ UNCHANGED <<sent, topic, stop, allConsumed, trouble, consuming, reports>>

\* A script cannot be read, the log not be opened, or the client raises another
\* error than the one that create_consumer catches.
SetUpRaises ==
    /\ main \in {"configure", "connect"}
    /\ main' = "over" /\ exit' = "crashed"
    /\ UNCHANGED <<producing, stop, allConsumed, trouble, consuming, reports>>

\* No broker answers, and there is time for another attempt after a pause.
Retry(d) ==
    /\ main \in {"connect", "dial"}
    /\ clock.elapsed + d < Deadline
    /\ clock' = [elapsed |-> clock.elapsed + d + clock.backoff,
                 backoff |-> NextBackoff(clock.backoff)]
    /\ UNCHANGED <<main, settings, sent, topic, stop, ending, consuming, reports>>

GiveUp(d) ==
    /\ clock.elapsed + d >= Deadline
    /\ clock' = [clock EXCEPT !.elapsed = @ + d]

\* create_consumer: the simulator ends with code 1 and starts no thread.
ConsumerUnreachable(d) ==
    /\ main = "connect" /\ GiveUp(d)
    /\ trouble' = trouble \cup {"unreachable"}
    /\ main' = "over" /\ exit' = "unconnected"
    /\ UNCHANGED <<settings, sent, topic, stop, allConsumed, consuming, reports>>

\* The consumer's group may have committed a position, with reports behind it.
ConsumerConnects ==
    /\ main = "connect"
    /\ positioned' \in BOOLEAN
    /\ inbox' \in {[stray : b] : b \in IF positioned' THEN Backlogs ELSE {{}}}
    /\ reader' = "subscribe"
    /\ clock' = StartClock /\ main' = "dial"
    /\ UNCHANGED <<settings, sent, topic, stop, ending, failed, batch, counted, reports>>

ProducerConnects ==
    /\ main = "dial"
    /\ clock' = Stopped /\ main' = "produce"
    /\ UNCHANGED <<settings, sent, topic, stop, ending, consuming, reports>>

\* create_producer raises: run goes on as after any error of the producer.
ProducerUnreachable(d) ==
    /\ main = "dial" /\ GiveUp(d)
    /\ trouble' = trouble \cup {"producer", "unreachable"}
    /\ stop' = TRUE /\ main' = "decide"
    /\ UNCHANGED <<settings, sent, topic, allConsumed, exit, consuming, reports>>

-----------------------------------------------------------------------------
(* The main thread: ScriptProducerService.run.                               *)

\* Mutant of MoreToSend: one submission too many.
MoreToSendStill == iterations <= 0 \/ sent <= Length(iterations)

\* Without a positive number of iterations there is no end.
MoreToSend == iterations <= 0 \/ sent < Length(iterations)

\* The submission that stream_scripts yields next, if any.
NextUp == IF MoreToSend /\ ~stop THEN {sent + 1} \cap 1..MaxSent ELSE {}

\* Whether stream_scripts pauses after the n-th submission.
PausesAfter(n) ==
    /\ n % Len(Scenarios) = 0 /\ n # Length(iterations)
    /\ settings.interval = Endless \/ settings.interval > 0

Send ==
    /\ main = "produce" /\ NextUp # {}
    /\ sent' = sent + 1
    /\ topic' = topic \cup NextUp
    /\ main' = IF PausesAfter(sent') THEN "pause" ELSE "produce"
    /\ UNCHANGED <<settings, clock, stop, ending, consuming, reports>>

\* The interval is over.
Resume ==
    /\ main = "pause" /\ settings.interval # Endless
    /\ main' = "produce"
    /\ UNCHANGED <<producing, stop, ending, consuming, reports>>

ProduceEnds ==
    /\ main \in {"produce", "pause"}
    /\ stop \/ ~MoreToSend
    /\ main' = "flush"
    /\ UNCHANGED <<producing, stop, ending, consuming, reports>>

\* A send without an acknowledgement, a pause that cannot be timed, or an
\* interrupt: the record of the send may be on the topic all the same. The
\* producer is flushed and closed first.
SendRaises(why) ==
    /\ \/ main = "produce" /\ \E kept \in SUBSET NextUp : topic' = topic \cup kept
       \/ main = "pause" /\ UNCHANGED topic
    /\ (why = "producer" /\ main = "pause") => settings.interval = Endless
    /\ trouble' = trouble \cup {why}
    /\ main' = "flush"
    /\ UNCHANGED <<settings, clock, sent, stop, allConsumed, exit, consuming, reports>>

\* The connection, the flush or the close raises, or is interrupted.
ProducerRaises(why) ==
    /\ main \in {"dial", "flush"}
    /\ stop' = TRUE
    /\ trouble' = trouble \cup {why}
    /\ clock' = Stopped
    /\ main' = "decide"
    /\ UNCHANGED <<settings, sent, topic, allConsumed, exit, consuming, reports>>

ProduceRaises(why) == SendRaises(why) \/ ProducerRaises(why)

Raised == trouble \cap {"producer", "interrupt"} # {}

\* producer.flush and producer.close return; run sees the error of a send now.
Flushed ==
    /\ main = "flush"
    /\ stop' = (stop \/ Raised)
    /\ main' = "decide"
    /\ UNCHANGED <<producing, ending, consuming, reports>>

-----------------------------------------------------------------------------
(* The main thread: waiting, stopping and comparing.                         *)

\* expected_counts; without an end, nothing is expected.
Expected == [t \in (IF iterations > 0 THEN Types ELSE {}) |-> iterations]

Consumed(t) == Cardinality({m \in counted : ReportType(m) = t})

Produced(t) == Cardinality({n \in 1..sent : TypeOf(n) = t})

\* Mutant of AllThere: one type is enough.
SomeThere == \E t \in DOMAIN Expected : Consumed(t) >= Expected[t]

AllThere == \A t \in DOMAIN Expected : Consumed(t) >= Expected[t]

\* A stop event that is set when the producer returns ends it without a wait.
SkipWait ==
    /\ main = "decide" /\ stop
    /\ main' = "join"
    /\ UNCHANGED <<producing, stop, ending, consuming, reports>>

BeginWait ==
    /\ main = "decide" /\ ~stop
    /\ main' = "wait"
    /\ UNCHANGED <<producing, stop, ending, consuming, reports>>

\* wait_for_counts takes a snapshot that has it all; the stop event is set.
WaitSatisfied ==
    /\ main = "wait" /\ AllThere
    /\ allConsumed' = TRUE /\ stop' = TRUE /\ main' = "join"
    /\ UNCHANGED <<producing, trouble, exit, consuming, reports>>

\* Mutant of WaitTimesOut: every turn of the loop sets the deadline anew.
WaitGoesOn == main = "wait" /\ UNCHANGED vars

WaitTimesOut ==
    /\ main = "wait" /\ ~AllThere /\ settings.wait # Endless
    /\ stop' = TRUE /\ main' = "join"
    /\ trouble' = trouble \cup {"timeout"}
    /\ UNCHANGED <<producing, allConsumed, exit, consuming, reports>>

\* Before and after the producer, nothing catches an interrupt.
Killed ==
    /\ main \in {"configure", "connect", "decide", "wait", "join", "close", "compare"}
    /\ main' = "over" /\ exit' = "killed"
    /\ UNCHANGED <<producing, stop, allConsumed, trouble, consuming, reports>>

\* The thread has ended or the five seconds of the join are over; a thread that
\* has not ended may still count.
Join ==
    /\ main = "join"
    /\ main' = "close"
    /\ trouble' = IF reader = "gone" THEN trouble ELSE trouble \cup {"join"}
    /\ UNCHANGED <<producing, stop, allConsumed, exit, consuming, reports>>

\* consumer_service.close, under a thread that has not ended.
Close ==
    /\ main = "close"
    /\ main' = "compare"
    /\ UNCHANGED <<producing, stop, ending, consuming, reports>>

CloseRaises ==
    /\ main = "close"
    /\ main' = "over" /\ exit' = "crashed"
    /\ UNCHANGED <<producing, stop, allConsumed, trouble, consuming, reports>>

\* Mutant of Mismatch: too many count as enough.
Shortage(t) == Produced(t) < Expected[t] \/ Consumed(t) < Expected[t]

Mismatch(t) == Produced(t) # Expected[t] \/ Consumed(t) # Expected[t]

Unexpected == {m \in counted : ReportType(m) \notin DOMAIN Expected}

Compare ==
    /\ main = "compare"
    /\ exit' = IF failed \/ Unexpected # {} \/ ~allConsumed
                   \/ (\E t \in DOMAIN Expected : Mismatch(t))
               THEN "MISMATCH" ELSE "OK"
    /\ main' = "over"
    /\ UNCHANGED <<producing, stop, allConsumed, trouble, consuming, reports>>

-----------------------------------------------------------------------------
(* The consumer thread.                                                      *)

\* Nobody polls once the thread has ended.
ToPoll(unread) == IF reader' = "gone" THEN {} ELSE unread

\* Without a committed offset, what was published before is not seen.
Subscribe ==
    /\ reader = "subscribe" /\ ~stop /\ settings.poll >= 0
    /\ reader' = "poll" /\ positioned' = TRUE
    /\ UNCHANGED <<main, producing, stop, ending, failed, inbox, batch, counted, reports>>

\* A poll that has begun returns reports after the stop event as well.
Poll ==
    /\ reader = "poll"
    /\ batch' = {m \in inbox : ~Garbled(m)} /\ batch' # {}
    /\ inbox' = inbox \ batch'
    /\ reader' = "count"
    /\ UNCHANGED <<main, producing, stop, ending, failed, positioned, counted, reports>>

Count ==
    /\ reader = "count"
    /\ \E m \in batch :
         /\ counted' = IF Formatted(m) /\ HasType(m) THEN counted \cup {m} ELSE counted
         /\ batch' = batch \ {m}
    /\ reader' = IF batch' # {} THEN "count" ELSE IF stop THEN "gone" ELSE "poll"
    /\ inbox' = ToPoll(inbox)
    /\ UNCHANGED <<main, producing, stop, ending, failed, positioned, reports>>

ReaderStops ==
    /\ reader \in {"subscribe", "poll"} /\ stop
    /\ reader' = "gone" /\ inbox' = ToPoll(inbox)
    /\ UNCHANGED <<main, producing, stop, ending, failed, positioned, batch, counted, reports>>

\* A poll raises, for a garbled report, a negative timeout, or because the
\* consumer is closed meanwhile: the error is kept, the stop event set.
ReaderFails ==
    /\ reader \in {"subscribe", "poll"}
    /\ reader' = "gone" /\ failed' = TRUE /\ stop' = TRUE /\ inbox' = ToPoll(inbox)
    /\ UNCHANGED <<main, producing, ending, positioned, batch, counted, reports>>

-----------------------------------------------------------------------------
(* The runners.                                                              *)

Repeats == {m \in reports : m.copy = 2}

Report(m) ==
    /\ m.of \in topic /\ m \notin reports
    /\ m.copy = 2 =>
          /\ [m EXCEPT !.copy = 1] \in reports
          /\ Cardinality(Repeats) < MaxRepeats
    /\ reports' = reports \cup {m}
    /\ UNCHANGED <<main, producing, stop, ending, reader, failed, positioned, batch, counted>>
    /\ inbox' = ToPoll(IF positioned THEN inbox \cup {m} ELSE inbox)

MainStep ==
    \/ Configure \/ ConsumerConnects \/ ProducerConnects
    \/ \E d \in AttemptTimes : Retry(d) \/ ConsumerUnreachable(d) \/ ProducerUnreachable(d)
    \/ Send \/ Resume \/ ProduceEnds \/ Flushed
    \/ SkipWait \/ BeginWait \/ WaitSatisfied \/ WaitTimesOut \/ Join \/ Close \/ Compare

Interrupt == ProduceRaises("interrupt") \/ Killed

ReaderStep == Subscribe \/ Poll \/ Count \/ ReaderStops \/ ReaderFails

\* The process is gone, or waits for ever at the bound of the model.
Over ==
    /\ \/ main = "over"
       \/ iterations <= 0 /\ sent = MaxSent
       \/ main = "wait" /\ settings.wait = Endless
    /\ UNCHANGED vars

Next ==
    \/ MainStep
    \/ SetUpRaises \/ ProduceRaises("producer") \/ CloseRaises
    \/ main # "over" /\ (Interrupt \/ ReaderStep \/ \E m \in Answers : Report(m))
    \/ Over

Spec == Init /\ [][Next]_vars

\* Calls to Kafka without a time limit in the code: producer.flush and
\* producer.close, and the close of the consumer, which commits first.
Unlimited == {"flush", "close"}

\* The main thread is scheduled; its wait and its join have a limit, and a send
\* ends with an acknowledgement or an error. Nothing makes a call without a
\* limit return.
LiveSpec == Spec /\ WF_vars(main \notin Unlimited /\ (MainStep \/ ProduceRaises("producer")))

-----------------------------------------------------------------------------
(* Properties.                                                               *)

\* Every variable stays in its type; what is sent, answered and counted agree.
TypeOK ==
    /\ main \in {"configure", "connect", "dial", "produce", "pause", "flush", "decide", "wait",
                 "join", "close", "compare", "over"}
    /\ iterations \in Int /\ clock \in [elapsed : Nat, backoff : Nat]
    /\ sent \in 0..MaxSent /\ (iterations > 0 => sent <= Length(iterations))
    /\ topic \subseteq 1..(sent + 1)
    /\ reports \subseteq Answers /\ \A m \in reports : m.of \in topic
    /\ stop \in BOOLEAN /\ allConsumed \in BOOLEAN /\ failed \in BOOLEAN /\ positioned \in BOOLEAN
    /\ trouble \subseteq {"unreachable", "interrupt", "producer", "timeout", "join"}
    /\ exit \in {"none", "usage", "crashed", "unconnected", "killed", "OK", "MISMATCH"}
    /\ reader \in {"none", "subscribe", "poll", "count", "gone"}
    /\ inbox \cup batch \cup counted \subseteq reports \cup Strays

\* Whether something happened on the results topic that counting cannot tell
\* from a report on its own submission.
Disturbed ==
    \/ \E m \in counted : m \in Strays
    \/ Repeats # {}

\* The status OK is given only to a simulator that was asked for a number of
\* iterations, sent all of them, and counted as many reports of every type and
\* none of another; and unless an old or a repeated report stood in for a
\* missing one, every submission has been answered (main.py 57-87 and 207-271).
OkEarned ==
    exit = "OK" =>
        /\ iterations > 0 /\ sent = Length(iterations)
        /\ \A m \in counted : ReportType(m) \in Types
        /\ \A t \in Types : Consumed(t) = iterations
        /\ ~Disturbed => \A n \in 1..Length(iterations) : \E m \in counted : m.of = n

\* A simulator with a number of iterations ends with the status OK when nothing
\* went wrong: no error, no interrupt, no timeout, no old or repeated report.
\* Reports that come while it waits, stops or compares raise no alarm.
NoFalseAlarm ==
    exit = "MISMATCH" /\ iterations > 0 => failed \/ trouble \ {"join"} # {} \/ Disturbed

\* A simulator with a number of iterations and a limit to its wait ends, and so
\* does every such simulator whose consumer fails (main.py 174-180, producer.py
\* 155-176), whatever the runners, the reports and the arguments do, unless one
\* of the closing calls to Kafka never returns (producer.py 207-209, main.py 219).
SimulatorEnds ==
    []<>(main \notin Unlimited) =>
        (settings.wait # Endless /\ (iterations > 0 \/ failed) ~> main = "over")

\* A simulator that finds no broker gives up after a minute, and no more than one
\* backoff and one attempt later (consumer.py 44-67, producer.py 107-126).
GivesUpInTime ==
    "unreachable" \in trouble =>
        \E d \in AttemptTimes : clock.elapsed \in Deadline..(Deadline + MaxBackoff + d)
==============================================================================
