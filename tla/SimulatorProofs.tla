--------------------------- MODULE SimulatorProofs ---------------------------
(* What the simulator's verdict is worth, for any scenarios, settings, old   *)
(* reports and answering runners, and when it gives up a broker.             *)
EXTENDS Simulator, FiniteSetTheorems, TLAPS

\* The main thread before, and after, it produces.
Before == {"configure", "connect", "dial"}
After == {"decide", "wait", "join", "close", "compare", "over"}

\* What is on the topic was sent, except for one record whose send broke off.
Sends ==
    /\ main \in Before => sent = 0 /\ topic = {}
    /\ topic \subseteq 1..sent \/ (MoreToSend /\ main \in After \cup {"flush"})
    /\ main = "flush" => stop \/ ~MoreToSend \/ Raised
    /\ main = "decide" => stop \/ ~MoreToSend
    /\ main = "wait" => ~MoreToSend

\* A wait that was satisfied stays so, since counts only grow.
Satisfied ==
    /\ IsFiniteSet(counted)
    /\ allConsumed => ~MoreToSend /\ AllThere /\ main \in {"join", "close", "compare", "over"}

\* As long as nothing goes wrong, only a satisfied wait sets the stop event.
Quiet ==
    (~failed /\ trouble \subseteq {"join"}) =>
        /\ stop => main \in {"join", "close", "compare", "over"}
        /\ main \in {"join", "close", "compare"} => allConsumed

Ended == exit \in {"OK", "MISMATCH"} => main = "over"

ClockBounded ==
    /\ clock.backoff <= MaxBackoff
    /\ main \in {"connect", "dial"} => clock.elapsed < Deadline + MaxBackoff
    /\ "unreachable" \in trouble => main \in After

IndInv ==
    /\ TypeOK /\ Sends /\ Satisfied /\ Quiet /\ Ended /\ ClockBounded
    /\ OkEarned /\ NoFalseAlarm /\ GivesUpInTime

-----------------------------------------------------------------------------
(* Iterations and types of the submissions.                                  *)

LEMMA QuotientAndRest ==
    ASSUME NEW a \in Int, NEW b \in Int, b > 0
    PROVE  a = b * (a \div b) + (a % b)
OBVIOUS

LEMMA Division ==
    ASSUME NEW a \in Nat, NEW b \in Nat \ {0}
    PROVE  /\ a \div b \in Nat /\ a % b \in 0..(b - 1)
           /\ a = b * (a \div b) + (a % b)
<1>1. a \in Int /\ b \in Int /\ b > 0
  OBVIOUS
<1>2. a = b * (a \div b) + (a % b)
  BY <1>1, QuotientAndRest
<1>3. a % b \in 0..(b - 1)
  OBVIOUS
<1>4. a \div b \in Int /\ a \div b >= 0
  OBVIOUS
<1> QED
  BY <1>2, <1>3, <1>4

\* Quotient and rest are unique.
LEMMA DivisionUnique ==
    ASSUME NEW b \in Nat \ {0}, NEW q \in Nat, NEW r \in 0..(b - 1)
    PROVE  (b * q + r) \div b = q /\ (b * q + r) % b = r
<1> DEFINE a == b * q + r
           u == a \div b
           v == a % b
<1>1. a \in Nat
  OBVIOUS
<1>2. u \in Nat /\ v \in 0..(b - 1) /\ a = b * u + v
  BY <1>1, Division
<1>3. b * (q - u) = v - r
  BY <1>2
<1>4. q - u < 1 /\ q - u > -1
  <2>1. ASSUME q - u >= 1 PROVE FALSE
    <3>1. b * (q - u) >= b
      BY <1>2, <2>1
    <3> QED
      BY <1>2, <1>3, <3>1
  <2>2. ASSUME q - u <= -1 PROVE FALSE
    <3>1. b * (q - u) <= -b
      BY <1>2, <2>2
    <3> QED
      BY <1>2, <1>3, <3>1
  <2> QED
    BY <1>2, <2>1, <2>2
<1> QED
  BY <1>2, <1>3, <1>4

LEMMA ScenarioFacts ==
    /\ Len(Scenarios) \in Nat \ {0} /\ DOMAIN Scenarios = 1..Len(Scenarios)
    /\ \A n \in Nat : Length(n) \in Nat
    /\ \A n \in Nat \ {0} : TypeOf(n) \in Types
<1>1. Len(Scenarios) \in Nat \ {0} /\ DOMAIN Scenarios = 1..Len(Scenarios)
  BY SimulatorAssumption
<1>2. \A n \in Nat : Length(n) \in Nat
  BY <1>1 DEF Length
<1>3. ASSUME NEW n \in Nat \ {0}
      PROVE  TypeOf(n) \in Types
  <2>1. (n - 1) % Len(Scenarios) \in 0..(Len(Scenarios) - 1)
    BY <1>1, Division
  <2> QED
    BY <1>1, <2>1 DEF TypeOf, Types
<1> QED
  BY <1>1, <1>2, <1>3

Numbers(k, t) == {n \in 1..Length(k) : TypeOf(n) = t}

\* k iterations have k submissions of each type.
LEMMA OnePerIteration ==
    ASSUME NEW k \in Nat, NEW t \in Types
    PROVE  IsFiniteSet(Numbers(k, t)) /\ Cardinality(Numbers(k, t)) = k
<1> DEFINE L == Len(Scenarios)
           N == Numbers(k, t)
           f == [n \in N |-> IterationOf(n)]
<1>1. L \in Nat \ {0} /\ DOMAIN Scenarios = 1..L
  BY ScenarioFacts
<1>2. PICK i \in 1..L : t = Scenarios[i]
  BY <1>1 DEF Types
<1>3. \A n \in N : n \in Nat \ {0} /\ n - 1 \in Nat /\ n <= k * L
  BY <1>1, ScenarioFacts DEF Numbers, Length
<1>4. ASSUME NEW n \in N
      PROVE  /\ (n - 1) % L = i - 1
             /\ (n - 1) \div L \in 0..(k - 1)
             /\ n = L * ((n - 1) \div L) + i
  <2> DEFINE q == (n - 1) \div L
             w == (n - 1) % L
  <2>1. q \in Nat /\ w \in 0..(L - 1) /\ n - 1 = L * q + w
    BY <1>1, <1>3, Division
  <2>2. Scenarios[w + 1] = Scenarios[i]
    BY <1>2 DEF Numbers, TypeOf
  <2> HIDE DEF q, w
  <2>3. w = i - 1
    <3>1. w + 1 \in 1..L
      BY <1>1, <2>1
    <3>2. w + 1 = i
      BY <1>1, <1>2, <2>2, <3>1, SimulatorAssumption
    <3> QED
      BY <1>1, <1>2, <2>1, <3>2
  <2>4. q < k
    <3> SUFFICES ASSUME q >= k
                 PROVE  FALSE
      BY <2>1
    <3>1. L * q >= L * k
      BY <1>1, <2>1
    <3>2. L * k = k * L /\ k * L \in Nat /\ L * q \in Nat
      BY <1>1, <2>1
    <3> QED
      BY <1>3, <2>1, <3>1, <3>2
  <2>5. n = L * q + i
    BY <1>1, <1>2, <1>3, <2>1, <2>3
  <2>6. w = i - 1 /\ q \in 0..(k - 1) /\ n = L * q + i
    BY <2>1, <2>3, <2>4, <2>5
  <2> QED
    BY <2>6 DEF q, w
<1>5. f \in [N -> 1..k]
  BY <1>4 DEF IterationOf
<1>6. ASSUME NEW n \in N, NEW o \in N, f[n] = f[o]
      PROVE  n = o
  <2>1. (n - 1) \div L = (o - 1) \div L
    BY <1>4, <1>6 DEF IterationOf
  <2> QED
    BY <1>4, <2>1
<1>7. ASSUME NEW j \in 1..k
      PROVE  \E n \in N : f[n] = j
  <2> DEFINE n == L * (j - 1) + i
  <2>1. n \in Nat \ {0} /\ n - 1 = L * (j - 1) + (i - 1) /\ i - 1 \in 0..(L - 1) /\ j - 1 \in Nat
    BY <1>1, <1>2
  <2>2. (n - 1) \div L = j - 1 /\ (n - 1) % L = i - 1
    BY <1>1, <2>1, DivisionUnique
  <2>3. n <= k * L
    <3>1. L * (j - 1) <= L * (k - 1)
      BY <1>1
    <3> QED
      BY <1>1, <1>2, <3>1
  <2>4. TypeOf(n) = t /\ IterationOf(n) = j
    BY <1>1, <1>2, <2>1, <2>2 DEF TypeOf, IterationOf
  <2>5. n \in N
    BY <2>1, <2>3, <2>4, <1>1 DEF Numbers, Length
  <2> QED
    BY <2>4, <2>5
<1>8. IsFiniteSet(1..k) /\ Cardinality(1..k) = k
  BY FS_Interval
<1>9. f \in Injection(N, 1..k) /\ f \in Surjection(N, 1..k)
  BY <1>5, <1>6, <1>7 DEF Injection, IsInjective, Surjection
<1> QED
  BY <1>8, <1>9, FS_Injection

-----------------------------------------------------------------------------
(* The steps, by the part of the simulator that takes them.                  *)

Connecting ==
    \/ Configure \/ SetUpRaises \/ ConsumerConnects \/ ProducerConnects
    \/ \E d \in AttemptTimes : Retry(d) \/ ConsumerUnreachable(d) \/ ProducerUnreachable(d)

Producing ==
    \/ Send \/ Resume \/ ProduceEnds \/ Flushed
    \/ ProduceRaises("producer") \/ ProduceRaises("interrupt")

Ending ==
    \/ SkipWait \/ BeginWait \/ WaitSatisfied \/ WaitTimesOut \/ Killed
    \/ Join \/ Close \/ CloseRaises \/ Compare

Reading == ReaderStep \/ \E m \in Answers : Report(m)

LEMMA Steps ==
    [Next]_vars => \/ UNCHANGED vars
                   \/ main # "over" /\ (Connecting \/ Producing \/ Ending \/ Reading)
<1>1. Connecting => main # "over"
  BY DEF Connecting, Configure, SetUpRaises, ConsumerConnects, ProducerConnects, Retry,
     ConsumerUnreachable, ProducerUnreachable
<1>2. Producing => main # "over"
  BY DEF Producing, Send, Resume, ProduceEnds, Flushed, ProduceRaises, SendRaises, ProducerRaises
<1>3. Ending => main # "over"
  BY DEF Ending, SkipWait, BeginWait, WaitSatisfied, WaitTimesOut, Killed, Join, Close,
     CloseRaises, Compare
<1>4. MainStep => Connecting \/ Producing \/ Ending
  BY DEF MainStep, Connecting, Producing, Ending
<1>5. SetUpRaises => Connecting
  BY DEF Connecting
<1>6. ProduceRaises("producer") => Producing
  BY DEF Producing
<1>7. Interrupt => Producing \/ Ending
  BY DEF Interrupt, Producing, Ending
<1>8. CloseRaises => Ending
  BY DEF Ending
<1> QED
  BY <1>1, <1>2, <1>3, <1>4, <1>5, <1>6, <1>7, <1>8 DEF Next, Over, Reading

\* The consumer thread and the runners leave the main thread alone, except that
\* a failing consumer sets the stop event.
LEMMA ReadingFrame ==
    Reading => /\ UNCHANGED <<main, settings, sent, topic, clock, ending>>
               /\ UNCHANGED <<stop, failed>> \/ (stop' = TRUE /\ failed' = TRUE)
BY DEF Reading, ReaderStep, Subscribe, Poll, Count, ReaderStops, ReaderFails, Report,
       producing, consuming

\* TypeOK in two parts: the threads' control, and what is sent and counted.
Control ==
    /\ main \in Before \cup {"produce", "pause", "flush"} \cup After
    /\ clock \in [elapsed : Nat, backoff : Nat]
    /\ stop \in BOOLEAN /\ allConsumed \in BOOLEAN /\ failed \in BOOLEAN /\ positioned \in BOOLEAN
    /\ trouble \subseteq {"unreachable", "interrupt", "producer", "timeout", "join"}
    /\ exit \in {"none", "usage", "crashed", "unconnected", "killed", "OK", "MISMATCH"}
    /\ reader \in {"none", "subscribe", "poll", "count", "gone"}

Flow ==
    /\ iterations \in Int
    /\ sent \in 0..MaxSent /\ (iterations > 0 => sent <= Length(iterations))
    /\ topic \subseteq 1..(sent + 1)
    /\ reports \subseteq Answers /\ \A m \in reports : m.of \in topic
    /\ inbox \cup batch \cup counted \subseteq reports \cup Strays

LEMMA TypeParts == TypeOK <=> Control /\ Flow
BY DEF TypeOK, Control, Flow, Before, After

LEMMA ControlStep == Control /\ [Next]_vars => Control'
<1> SUFFICES ASSUME Control, [Next]_vars
             PROVE  Control'
  OBVIOUS
<1> USE DEF Control, Before, After
<1>1. ASSUME Connecting
      PROVE  Control'
  <2>1. CASE Configure
    BY <2>1 DEF Configure, StartClock, Second, consuming
  <2>2. CASE SetUpRaises
    BY <2>2 DEF SetUpRaises, producing, consuming
  <2>3. CASE ConsumerConnects
    BY <2>3 DEF ConsumerConnects, StartClock, Second, ending
  <2>4. CASE ProducerConnects
    BY <2>4 DEF ProducerConnects, Stopped, ending, consuming
  <2>5. ASSUME NEW d \in AttemptTimes, Retry(d)
        PROVE  Control'
    <3>1. NextBackoff(clock.backoff) \in Nat
      BY DEF NextBackoff, MaxBackoff, Second
    <3>2. clock' \in [elapsed : Nat, backoff : Nat]
      BY <2>5, <3>1, SimulatorAssumption DEF Retry
    <3> QED
      BY <2>5, <3>2 DEF Retry, ending, consuming
  <2>6. ASSUME NEW d \in AttemptTimes, ConsumerUnreachable(d) \/ ProducerUnreachable(d)
        PROVE  Control'
    <3>1. clock' \in [elapsed : Nat, backoff : Nat]
      BY <2>6, SimulatorAssumption DEF ConsumerUnreachable, ProducerUnreachable, GiveUp
    <3> QED
      BY <2>6, <3>1 DEF ConsumerUnreachable, ProducerUnreachable, consuming
  <2> QED
    BY <1>1, <2>1, <2>2, <2>3, <2>4, <2>5, <2>6 DEF Connecting
<1>2. ASSUME Producing
      PROVE  Control'
  <2>1. CASE Send \/ Resume \/ ProduceEnds \/ Flushed
    BY <2>1 DEF Send, Resume, ProduceEnds, Flushed, producing, ending, consuming
  <2>2. ASSUME NEW why \in {"producer", "interrupt"}, ProduceRaises(why)
        PROVE  Control'
    <3>1. trouble' = trouble \cup {why} /\ main' \in {"flush", "decide"}
      BY <2>2 DEF ProduceRaises, SendRaises, ProducerRaises
    <3>2. clock' \in [elapsed : Nat, backoff : Nat] /\ stop' \in BOOLEAN
      <4>1. CASE SendRaises(why)
        BY <4>1 DEF SendRaises
      <4>2. CASE ProducerRaises(why)
        BY <4>2 DEF ProducerRaises, Stopped
      <4> QED
        BY <2>2, <4>1, <4>2 DEF ProduceRaises
    <3>3. UNCHANGED <<allConsumed, exit, reader, failed, positioned>>
      BY <2>2 DEF ProduceRaises, SendRaises, ProducerRaises, consuming
    <3> QED
      BY <3>1, <3>2, <3>3
  <2> QED
    BY <1>2, <2>1, <2>2 DEF Producing
<1>3. ASSUME Ending
      PROVE  Control'
  <2>1. CASE SkipWait \/ BeginWait \/ Close
    BY <2>1 DEF SkipWait, BeginWait, Close, producing, ending, consuming
  <2>2. CASE WaitSatisfied \/ WaitTimesOut \/ Join
    BY <2>2 DEF WaitSatisfied, WaitTimesOut, Join, producing, consuming
  <2>3. CASE Killed \/ CloseRaises \/ Compare
    BY <2>3 DEF Killed, CloseRaises, Compare, producing, consuming
  <2> QED
    BY <1>3, <2>1, <2>2, <2>3 DEF Ending
<1>4. ASSUME Reading
      PROVE  Control'
  <2>1. reader' \in {"none", "subscribe", "poll", "count", "gone"}
    BY <1>4 DEF Reading, ReaderStep, Subscribe, Poll, Count, ReaderStops, ReaderFails, Report
  <2>2. positioned' \in BOOLEAN
    BY <1>4 DEF Reading, ReaderStep, Subscribe, Poll, Count, ReaderStops, ReaderFails, Report
  <2> QED
    BY <1>4, <2>1, <2>2, ReadingFrame DEF ending
<1>5. CASE UNCHANGED vars
  BY <1>5 DEF vars, producing, ending, consuming
<1> QED
  BY <1>1, <1>2, <1>3, <1>4, <1>5, Steps

LEMMA FlowStep == Flow /\ Sends /\ [Next]_vars => Flow'
<1> SUFFICES ASSUME Flow, Sends, [Next]_vars
             PROVE  Flow'
  OBVIOUS
<1>1. ASSUME UNCHANGED <<settings, sent, topic, reports, inbox, batch, counted>>
      PROVE  Flow'
  BY <1>1 DEF Flow, iterations
<1>2. ASSUME Connecting
      PROVE  Flow'
  <2>1. CASE Configure
    <3>1. PICK c \in Configurations :
            UNCHANGED settings \/ (~BadArgument(c) /\ settings' = Settings(c))
      BY <2>1 DEF Configure
    <3>2. sent = 0 /\ UNCHANGED <<sent, topic, reports, inbox, batch, counted>>
      BY <2>1 DEF Configure, Before, Sends, consuming
    <3>3. CASE UNCHANGED settings
      BY <1>1, <3>2, <3>3
    <3>4. CASE ~BadArgument(c) /\ settings' = Settings(c)
      <4>1. iterations' \in Int
        BY <3>4, SimulatorAssumption DEF iterations
      <4>2. iterations' > 0 => sent' <= Length(iterations')
        BY <3>2, <4>1, ScenarioFacts DEF Length
      <4> QED
        BY <3>2, <4>1, <4>2 DEF Flow
    <3> QED
      BY <3>1, <3>3, <3>4
  <2>2. CASE ConsumerConnects
    <3>1. inbox' \subseteq Strays
      <4>1. PICK b \in Backlogs \cup {{}} : inbox' = [stray : b]
        BY <2>2 DEF ConsumerConnects
      <4>2. b \subseteq UNION Backlogs
        OBVIOUS
      <4> QED
        BY <4>1, <4>2 DEF Strays
    <3>2. UNCHANGED <<settings, sent, topic, reports, batch, counted>>
      BY <2>2 DEF ConsumerConnects
    <3> QED
      BY <3>1, <3>2 DEF Flow, iterations
  <2>3. CASE SetUpRaises \/ ProducerConnects
    BY <1>1, <2>3 DEF SetUpRaises, ProducerConnects, producing, consuming
  <2>4. ASSUME NEW d \in AttemptTimes,
               Retry(d) \/ ConsumerUnreachable(d) \/ ProducerUnreachable(d)
        PROVE  Flow'
    BY <1>1, <2>4 DEF Retry, ConsumerUnreachable, ProducerUnreachable, consuming
  <2> QED
    BY <1>2, <2>1, <2>2, <2>3, <2>4 DEF Connecting
<1>3. ASSUME Producing
      PROVE  Flow'
  <2>1. NextUp \subseteq {sent + 1} /\ (NextUp # {} => MoreToSend /\ sent + 1 <= MaxSent)
    BY SimulatorAssumption DEF NextUp, Flow
  <2>2. CASE Send
    <3>1. /\ sent' = sent + 1 /\ topic' = topic \cup NextUp
          /\ MoreToSend /\ sent + 1 <= MaxSent /\ settings' = settings
          /\ UNCHANGED <<reports, inbox, batch, counted>>
      BY <2>1, <2>2 DEF Send, consuming
    <3>2. iterations > 0 => sent' <= Length(iterations)
      BY <3>1, ScenarioFacts DEF MoreToSend, Flow
    <3>3. topic' \subseteq 1..(sent' + 1) /\ sent' \in 0..MaxSent
      BY <2>1, <3>1, SimulatorAssumption DEF Flow
    <3> QED
      BY <3>1, <3>2, <3>3 DEF Flow, iterations
  <2>3. CASE Resume \/ ProduceEnds \/ Flushed
    BY <1>1, <2>3 DEF Resume, ProduceEnds, Flushed, producing, consuming
  <2>4. ASSUME NEW why \in {"producer", "interrupt"}, ProduceRaises(why)
        PROVE  Flow'
    <3>1. topic \subseteq topic' /\ topic' \subseteq topic \cup {sent + 1}
      BY <2>1, <2>4 DEF ProduceRaises, SendRaises, ProducerRaises
    <3>2. topic' \subseteq 1..(sent + 1)
      BY <3>1 DEF Flow
    <3> QED
      BY <2>4, <3>1, <3>2 DEF ProduceRaises, SendRaises, ProducerRaises, Flow, iterations,
         consuming
  <2> QED
    BY <1>3, <2>2, <2>3, <2>4 DEF Producing
<1>4. ASSUME Ending
      PROVE  Flow'
  BY <1>1, <1>4 DEF Ending, SkipWait, BeginWait, WaitSatisfied, WaitTimesOut, Killed, Join,
     Close, CloseRaises, Compare, producing, consuming
<1>5. ASSUME ReaderStep
      PROVE  Flow'
  <2>1. (inbox \cup batch \cup counted)' \subseteq inbox \cup batch \cup counted
    BY <1>5 DEF ReaderStep, Subscribe, Poll, Count, ReaderStops, ReaderFails, ToPoll
  <2>2. UNCHANGED <<settings, sent, topic, reports>>
    BY <1>5 DEF ReaderStep, Subscribe, Poll, Count, ReaderStops, ReaderFails, producing
  <2> QED
    BY <2>1, <2>2 DEF Flow, iterations
<1>6. ASSUME NEW m \in Answers, Report(m)
      PROVE  Flow'
  BY <1>6 DEF Report, ToPoll, Flow, iterations, producing
<1>7. CASE UNCHANGED vars
  BY <1>1, <1>7 DEF vars, producing, consuming
<1> QED
  BY <1>2, <1>3, <1>4, <1>5, <1>6, <1>7, Steps DEF Reading

-----------------------------------------------------------------------------
(* The course of the main thread.                                            *)

LEMMA SendsStep == TypeOK /\ Sends /\ [Next]_vars => Sends'
<1> SUFFICES ASSUME Flow, Control, Sends, [Next]_vars
             PROVE  Sends'
  BY TypeParts
<1> USE DEF Sends, Before, After
<1>1. ASSUME UNCHANGED <<main, settings, sent, topic, trouble>>, stop => stop'
      PROVE  Sends'
  BY <1>1 DEF MoreToSend, iterations, Control, Raised
<1>2. ASSUME Connecting
      PROVE  Sends'
  BY <1>2 DEF Connecting, Configure, SetUpRaises, ConsumerConnects, ProducerConnects,
     Retry, ConsumerUnreachable, ProducerUnreachable, producing
<1>3. ASSUME Producing
      PROVE  Sends'
  <2>1. topic \subseteq 1..sent \/ main \notin {"produce", "pause"}
    OBVIOUS
  <2>2. CASE Send
    <3>1. main = "produce" /\ main' \in {"produce", "pause"} /\ sent' = sent + 1
          /\ topic' \subseteq topic \cup {sent + 1}
      BY <2>2 DEF Send, NextUp
    <3> QED
      BY <2>1, <3>1 DEF Flow
  <2>3. CASE Resume
    BY <2>1, <2>3 DEF Resume, producing
  <2>4. CASE ProduceEnds
    BY <2>1, <2>4 DEF ProduceEnds, producing, MoreToSend, iterations
  <2>5. CASE Flushed
    BY <2>5 DEF Flushed, producing, MoreToSend, iterations
  <2>6. ASSUME NEW why \in {"producer", "interrupt"}, SendRaises(why)
        PROVE  Sends'
    <3>1. /\ main \in {"produce", "pause"} /\ main' = "flush" /\ Raised'
          /\ UNCHANGED <<settings, sent>>
          /\ topic' \subseteq topic \cup NextUp
      BY <2>6 DEF SendRaises, Raised
    <3>2. topic \subseteq 1..sent
      BY <2>1, <3>1
    <3>3. topic' \subseteq 1..sent \/ MoreToSend
      BY <3>1, <3>2 DEF NextUp
    <3>4. topic' \subseteq 1..(sent + 1)
      BY <3>1, <3>2 DEF NextUp, Flow
    <3> QED
      BY <3>1, <3>3, <3>4 DEF MoreToSend, iterations
  <2>7. ASSUME NEW why \in {"producer", "interrupt"}, ProducerRaises(why)
        PROVE  Sends'
    BY <2>7 DEF ProducerRaises, MoreToSend, iterations
  <2> QED
    BY <1>3, <2>2, <2>3, <2>4, <2>5, <2>6, <2>7 DEF Producing, ProduceRaises
<1>4. ASSUME Ending
      PROVE  Sends'
  BY <1>4 DEF Ending, SkipWait, BeginWait, WaitSatisfied, WaitTimesOut, Killed, Join,
     Close, CloseRaises, Compare, producing, MoreToSend, iterations
<1>5. ASSUME Reading
      PROVE  Sends'
  BY <1>1, <1>5, ReadingFrame DEF ending
<1>6. CASE UNCHANGED vars
  BY <1>1, <1>6 DEF vars, producing, ending
<1> QED
  BY <1>2, <1>3, <1>4, <1>5, <1>6, Steps

LEMMA QuietStep == TypeOK /\ Sends /\ Quiet /\ [Next]_vars => Quiet'
<1> SUFFICES ASSUME Flow, Control, Sends, Quiet, [Next]_vars
             PROVE  Quiet'
  BY TypeParts
<1>q. Quiet
  OBVIOUS
<1>1. ASSUME Connecting
      PROVE  Quiet'
  <2>1. main \in {"configure", "connect", "dial"} /\ UNCHANGED <<failed, allConsumed>>
    BY <1>1 DEF Connecting, Configure, SetUpRaises, ConsumerConnects, ProducerConnects,
       Retry, ConsumerUnreachable, ProducerUnreachable, consuming, ending
  <2>2. \/ UNCHANGED <<stop, trouble>> /\ main' \notin {"join", "close", "compare"}
        \/ "unreachable" \in trouble'
    <3>1. CASE Configure \/ SetUpRaises \/ ConsumerConnects \/ ProducerConnects
      BY <3>1 DEF Configure, SetUpRaises, ConsumerConnects, ProducerConnects, ending
    <3>2. ASSUME NEW d \in AttemptTimes,
                 Retry(d) \/ ConsumerUnreachable(d) \/ ProducerUnreachable(d)
          PROVE  \/ UNCHANGED <<stop, trouble>> /\ main' \notin {"join", "close", "compare"}
                 \/ "unreachable" \in trouble'
      BY <3>2 DEF Retry, ConsumerUnreachable, ProducerUnreachable, ending
    <3> QED
      BY <1>1, <3>1, <3>2 DEF Connecting
  <2> QED
    BY <1>q, <2>1, <2>2 DEF Quiet
<1>2. ASSUME Producing
      PROVE  Quiet'
  <2>1. CASE Send \/ Resume \/ ProduceEnds \/ Flushed
    BY <1>q, <2>1 DEF Send, Resume, ProduceEnds, Flushed, Raised, producing, consuming, ending,
       Quiet
  <2>2. ASSUME NEW why \in {"producer", "interrupt"}, ProduceRaises(why)
        PROVE  Quiet'
    BY <2>2 DEF ProduceRaises, SendRaises, ProducerRaises, Quiet
  <2> QED
    BY <1>2, <2>1, <2>2 DEF Producing
<1>3. ASSUME Ending
      PROVE  Quiet'
  <2>1. CASE SkipWait \/ BeginWait
    BY <1>q, <2>1 DEF SkipWait, BeginWait, producing, consuming, ending, Quiet
  <2>2. CASE WaitSatisfied
    BY <1>q, <2>2 DEF WaitSatisfied, Quiet
  <2>3. CASE WaitTimesOut
    BY <1>q, <2>3 DEF WaitTimesOut, Quiet
  <2>4. CASE Killed \/ Close \/ CloseRaises \/ Compare
    BY <1>q, <2>4 DEF Killed, Close, CloseRaises, Compare, consuming, ending, Quiet
  <2>5. CASE Join
    BY <1>q, <2>5 DEF Join, consuming, Quiet
  <2> QED
    BY <1>3, <2>1, <2>2, <2>3, <2>4, <2>5 DEF Ending
<1>4. ASSUME Reading
      PROVE  Quiet'
  BY <1>q, <1>4, ReadingFrame DEF ending, Quiet
<1>5. CASE UNCHANGED vars
  BY <1>q, <1>5 DEF vars, producing, consuming, ending, Quiet
<1> QED
  BY <1>1, <1>2, <1>3, <1>4, <1>5, Steps

LEMMA EndedStep == Ended /\ [Next]_vars => Ended' /\ (exit' # exit => main' = "over")
<1> SUFFICES ASSUME Ended, [Next]_vars
             PROVE  Ended' /\ (exit' # exit => main' = "over")
  OBVIOUS
<1>1. CASE main = "over"
  <2>1. UNCHANGED vars
    BY <1>1, Steps
  <2> QED
    BY <2>1 DEF vars, ending, Ended
<1>2. CASE main # "over"
  <2>1. exit \notin {"OK", "MISMATCH"}
    BY <1>2 DEF Ended
  <2>2. exit' = exit \/ main' = "over"
    <3>1. CASE Connecting
      BY <3>1 DEF Connecting, Configure, SetUpRaises, ConsumerConnects, ProducerConnects,
         Retry, ConsumerUnreachable, ProducerUnreachable, ending
    <3>2. CASE Producing
      BY <3>2 DEF Producing, Send, Resume, ProduceEnds, Flushed, ProduceRaises, SendRaises,
         ProducerRaises, ending
    <3>3. CASE Ending
      BY <3>3 DEF Ending, SkipWait, BeginWait, WaitSatisfied, WaitTimesOut, Killed, Join,
         Close, CloseRaises, Compare, ending
    <3>4. CASE Reading
      BY <3>4, ReadingFrame DEF ending
    <3>5. CASE UNCHANGED vars
      BY <3>5 DEF vars, ending
    <3> QED
      BY <3>1, <3>2, <3>3, <3>4, <3>5, Steps
  <2> QED
    BY <2>1, <2>2 DEF Ended
<1> QED
  BY <1>1, <1>2

-----------------------------------------------------------------------------
(* The counts.                                                               *)

OfType(S, t) == {m \in S : ReportType(m) = t}

\* Counting more reports lessens no count.
LEMMA CountsGrow ==
    ASSUME NEW C, NEW D, IsFiniteSet(D), C \subseteq D, NEW t
    PROVE  /\ Cardinality(OfType(C, t)) \in Nat /\ Cardinality(OfType(D, t)) \in Nat
           /\ Cardinality(OfType(C, t)) <= Cardinality(OfType(D, t))
<1> DEFINE c == OfType(C, t)
           d == OfType(D, t)
<1>1. d \subseteq D /\ c \subseteq d
  BY DEF OfType
<1> HIDE DEF c, d
<1>2. IsFiniteSet(d)
  BY <1>1, FS_Subset
<1>3. IsFiniteSet(c) /\ Cardinality(c) <= Cardinality(d)
  BY <1>1, <1>2, FS_Subset
<1>4. Cardinality(c) \in Nat /\ Cardinality(d) \in Nat
  BY <1>2, <1>3, FS_CardinalityType
<1> QED
  BY <1>3, <1>4 DEF c, d

\* A step counts at most one report, and keeps those counted.
LEMMA CountedGrows ==
    [Next]_vars => UNCHANGED counted \/ (Reading /\ \E m : counted' = counted \cup {m})
<1> SUFFICES ASSUME [Next]_vars
             PROVE  UNCHANGED counted \/ (Reading /\ \E m : counted' = counted \cup {m})
  OBVIOUS
<1>1. CASE Connecting
  BY <1>1 DEF Connecting, Configure, SetUpRaises, ConsumerConnects, ProducerConnects, Retry,
     ConsumerUnreachable, ProducerUnreachable, consuming
<1>2. CASE Producing
  BY <1>2 DEF Producing, Send, Resume, ProduceEnds, Flushed, ProduceRaises, SendRaises,
     ProducerRaises, consuming
<1>3. CASE Ending
  BY <1>3 DEF Ending, SkipWait, BeginWait, WaitSatisfied, WaitTimesOut, Killed, Join,
     Close, CloseRaises, Compare, consuming
<1>4. CASE Reading
  <2>1. CASE Count
    BY <1>4, <2>1 DEF Count
  <2>2. CASE ~Count
    BY <1>4, <2>2 DEF Reading, ReaderStep, Subscribe, Poll, ReaderStops, ReaderFails, Report
  <2> QED
    BY <2>1, <2>2
<1>5. CASE UNCHANGED vars
  BY <1>5 DEF vars, consuming
<1> QED
  BY <1>1, <1>2, <1>3, <1>4, <1>5, Steps

LEMMA SatisfiedStep == TypeOK /\ Sends /\ Satisfied /\ [Next]_vars => Satisfied'
<1> SUFFICES ASSUME Flow, Control, Sends, Satisfied, [Next]_vars
             PROVE  Satisfied'
  BY TypeParts
<1>1. IsFiniteSet(counted') /\ counted \subseteq counted'
  BY CountedGrows, FS_AddElement DEF Satisfied
<1>2. ASSUME UNCHANGED <<settings, sent, allConsumed>>,
             allConsumed => main' \in {"join", "close", "compare", "over"}
      PROVE  Satisfied'
  <2> SUFFICES ASSUME allConsumed
               PROVE  (~MoreToSend /\ AllThere)'
    BY <1>1, <1>2 DEF Satisfied
  <2>1. UNCHANGED <<iterations, MoreToSend, Expected>>
    BY <1>2 DEF iterations, MoreToSend, Expected
  <2>2. ASSUME NEW t \in DOMAIN Expected
        PROVE  Consumed(t)' >= Expected[t]
    <3>1. Consumed(t) \in Nat /\ Consumed(t)' \in Nat /\ Consumed(t) <= Consumed(t)'
      <4>1. /\ Consumed(t) = Cardinality(OfType(counted, t))
            /\ Consumed(t)' = Cardinality(OfType(counted', t))
        BY DEF Consumed, OfType
      <4> QED
        BY <1>1, <4>1, CountsGrow
    <3>2. Expected[t] = iterations /\ iterations \in Int
      BY DEF Expected, Flow
    <3>3. Consumed(t) >= Expected[t]
      BY DEF Satisfied, AllThere
    <3> QED
      BY <3>1, <3>2, <3>3
  <2> QED
    BY <2>1, <2>2 DEF Satisfied, AllThere
<1>3. CASE Connecting
  <2>1. ~allConsumed /\ UNCHANGED allConsumed
    BY <1>3 DEF Connecting, Configure, SetUpRaises, ConsumerConnects, ProducerConnects,
       Retry, ConsumerUnreachable, ProducerUnreachable, ending, Satisfied
  <2> QED
    BY <1>1, <2>1 DEF Satisfied
<1>4. CASE Producing
  <2>1. ~allConsumed /\ UNCHANGED allConsumed
    BY <1>4 DEF Producing, Send, Resume, ProduceEnds, Flushed, ProduceRaises, SendRaises,
       ProducerRaises, ending, Satisfied
  <2> QED
    BY <1>1, <2>1 DEF Satisfied
<1>5. CASE WaitSatisfied
  <2>1. ~MoreToSend /\ AllThere /\ main' = "join" /\ UNCHANGED <<settings, sent, counted>>
    BY <1>5 DEF WaitSatisfied, Sends, producing, consuming
  <2>2. (~MoreToSend /\ AllThere)'
    BY <2>1 DEF MoreToSend, AllThere, Consumed, Expected, iterations
  <2> QED
    BY <1>1, <2>1, <2>2 DEF Satisfied
<1>6. CASE Ending /\ ~WaitSatisfied
  BY <1>2, <1>6 DEF Ending, SkipWait, BeginWait, WaitTimesOut, Killed, Join, Close,
     CloseRaises, Compare,
     producing, ending, Satisfied
<1>7. CASE Reading
  BY <1>2, <1>7, ReadingFrame DEF ending, Satisfied
<1>8. CASE UNCHANGED vars
  BY <1>2, <1>8 DEF vars, producing, ending, Satisfied
<1> QED
  BY <1>3, <1>4, <1>5, <1>6, <1>7, <1>8, Steps

-----------------------------------------------------------------------------
(* The verdict.                                                              *)

\* Without old and repeated reports, what is counted are first reports on
\* submissions, and a type has no more of them than submissions.
LEMMA OwnReports ==
    ASSUME TypeOK, ~Disturbed, NEW k \in Nat, topic \subseteq 1..Length(k)
    PROVE  /\ \A m \in counted : ReportType(m) \in Types
           /\ \A t \in Types :
                /\ Consumed(t) \in Nat /\ Consumed(t) <= k
                /\ Consumed(t) = k => \A n \in Numbers(k, t) : \E m \in counted : m.of = n
<1>1. ASSUME NEW m \in counted
      PROVE  /\ m \in Answers /\ m.copy = 1 /\ m.of \in 1..Length(k)
             /\ ReportType(m) = TypeOf(m.of)
  <2>1. m \in reports /\ m.copy # 2
    BY DEF TypeOK, Disturbed, Repeats
  <2>2. m \in Answers /\ m.of \in topic
    BY <2>1 DEF TypeOK
  <2>3. "stray" \notin DOMAIN m
    BY <2>2 DEF Answers
  <2>4. ReportType(m) = TypeOf(m.of)
    BY <2>3 DEF ReportType, ReportId, Id
  <2> QED
    BY <2>1, <2>2, <2>4 DEF Answers
<1>2. ASSUME NEW m \in counted
      PROVE  ReportType(m) \in Types
  <2>1. m.of \in 1..Length(k) /\ Length(k) \in Nat /\ ReportType(m) = TypeOf(m.of)
    BY <1>1, ScenarioFacts
  <2>2. \A n \in 1..Length(k) : n \in Nat \ {0}
    BY <2>1
  <2> QED
    BY <2>1, <2>2, ScenarioFacts
<1>3. ASSUME NEW t \in Types
      PROVE  /\ Consumed(t) \in Nat /\ Consumed(t) <= k
             /\ Consumed(t) = k => \A n \in Numbers(k, t) : \E m \in counted : m.of = n
  <2> DEFINE A == {m \in counted : ReportType(m) = t}
             N == Numbers(k, t)
             f == [m \in A |-> m.of]
  <2>1. f \in [A -> N]
    BY <1>1 DEF Numbers
  <2>2. ASSUME NEW m \in A, NEW o \in A, f[m] = f[o]
        PROVE  m = o
    BY <1>1, <2>2 DEF Answers
  <2>3. f \in Injection(A, N)
    BY <2>1, <2>2 DEF Injection, IsInjective
  <2>4. IsFiniteSet(N) /\ Cardinality(N) = k
    BY OnePerIteration
  <2>5. IsFiniteSet(A) /\ Cardinality(A) <= k /\ (Cardinality(A) = k => f \in Surjection(A, N))
    BY <2>3, <2>4, FS_Injection
  <2>6. Cardinality(A) \in Nat /\ Consumed(t) = Cardinality(A)
    BY <2>5, FS_CardinalityType DEF Consumed
  <2>7. ASSUME f \in Surjection(A, N), NEW n \in N
        PROVE  \E m \in counted : m.of = n
    BY <2>7 DEF Surjection
  <2> QED
    BY <2>5, <2>6, <2>7
<1> QED
  BY <1>2, <1>3

\* A satisfied wait has all submissions behind it.
LEMMA AllSent ==
    ASSUME TypeOK, Sends, Satisfied, allConsumed
    PROVE  /\ iterations > 0 /\ iterations \in Nat /\ sent = Length(iterations)
           /\ topic \subseteq 1..Length(iterations)
           /\ DOMAIN Expected = Types
           /\ \A t \in Types : Expected[t] = iterations /\ Produced(t) = iterations
<1>1. ~MoreToSend
  BY DEF Satisfied
<1>2. iterations > 0 /\ iterations \in Nat
  BY <1>1 DEF MoreToSend, TypeOK
<1>3. sent = Length(iterations)
  BY <1>1, <1>2, SimulatorAssumption, ScenarioFacts DEF MoreToSend, TypeOK
<1>4. topic \subseteq 1..Length(iterations)
  BY <1>1, <1>3 DEF Sends
<1>5. ASSUME NEW t \in Types
      PROVE  Produced(t) = iterations
  <2>1. Produced(t) = Cardinality(Numbers(iterations, t))
    BY <1>3 DEF Produced, Numbers
  <2> QED
    BY <1>2, <2>1, OnePerIteration
<1> QED
  BY <1>2, <1>3, <1>4, <1>5 DEF Expected

\* What Compare decides.
LEMMA Verdict ==
    ASSUME IndInv, Compare
    PROVE  /\ exit' = "OK" =>
                /\ ~failed /\ allConsumed /\ Unexpected = {}
                /\ \A t \in DOMAIN Expected : ~Mismatch(t)
           /\ exit' = "MISMATCH" /\ iterations > 0 =>
                failed \/ trouble \ {"join"} # {} \/ Disturbed
<1>1. exit' = "OK" => /\ ~failed /\ allConsumed /\ Unexpected = {}
                      /\ \A t \in DOMAIN Expected : ~Mismatch(t)
  BY DEF Compare
<1>2. ASSUME ~failed, trouble \subseteq {"join"}, ~Disturbed
      PROVE  exit' = "OK"
  <2>1. allConsumed
    BY <1>2 DEF Compare, IndInv, Quiet
  <2>2. /\ iterations > 0 /\ iterations \in Nat /\ topic \subseteq 1..Length(iterations)
        /\ DOMAIN Expected = Types
        /\ \A t \in Types : Expected[t] = iterations /\ Produced(t) = iterations
    BY <2>1, AllSent DEF IndInv
  <2>3. /\ \A m \in counted : ReportType(m) \in Types
        /\ \A t \in Types : Consumed(t) \in Nat /\ Consumed(t) <= iterations
    BY <1>2, <2>2, OwnReports DEF IndInv
  <2>4. Unexpected = {}
    BY <2>2, <2>3 DEF Unexpected
  <2>5. ASSUME NEW t \in DOMAIN Expected
        PROVE  ~Mismatch(t)
    <3>1. Consumed(t) >= iterations
      BY <2>1, <2>2 DEF IndInv, Satisfied, AllThere
    <3> QED
      BY <2>2, <2>3, <3>1 DEF Mismatch
  <2> QED
    BY <1>2, <2>1, <2>4, <2>5 DEF Compare
<1> QED
  BY <1>1, <1>2

\* A verdict comes from Compare, and nothing changes after it.
LEMMA VerdictStep ==
    IndInv /\ [Next]_vars /\ exit' \in {"OK", "MISMATCH"} => Compare \/ UNCHANGED vars
<1> SUFFICES ASSUME IndInv, [Next]_vars, exit' \in {"OK", "MISMATCH"}, ~Compare, main # "over"
             PROVE  UNCHANGED vars
  BY Steps
<1>1. exit \notin {"OK", "MISMATCH"}
  BY DEF IndInv, Ended
<1>2. exit' = exit \/ exit' \in {"usage", "crashed", "unconnected", "killed"} \/ UNCHANGED vars
  <2>1. CASE Connecting
    BY <2>1 DEF Connecting, Configure, SetUpRaises, ConsumerConnects, ProducerConnects,
       Retry, ConsumerUnreachable, ProducerUnreachable, ending
  <2>2. CASE Producing
    BY <2>2 DEF Producing, Send, Resume, ProduceEnds, Flushed, ProduceRaises, SendRaises,
       ProducerRaises, ending
  <2>3. CASE Ending
    BY <2>3 DEF Ending, SkipWait, BeginWait, WaitSatisfied, WaitTimesOut, Killed, Join, Close,
       CloseRaises, ending
  <2>4. CASE Reading
    BY <2>4, ReadingFrame DEF ending
  <2> QED
    BY <2>1, <2>2, <2>3, <2>4, Steps
<1> QED
  BY <1>1, <1>2

LEMMA OkEarnedStep == IndInv /\ [Next]_vars => OkEarned'
<1> SUFFICES ASSUME IndInv, [Next]_vars, exit' = "OK"
             PROVE  OkEarned'
  BY DEF OkEarned
<1>1. CASE UNCHANGED vars
  BY <1>1 DEF vars, producing, ending, consuming, IndInv, OkEarned, iterations, Consumed,
     Disturbed, Repeats
<1>2. CASE Compare
  <2>1. /\ UNCHANGED <<settings, sent, topic, counted, reports>>
        /\ allConsumed /\ Unexpected = {} /\ \A t \in DOMAIN Expected : ~Mismatch(t)
    BY <1>2, Verdict DEF Compare, producing, consuming
  <2>2. /\ iterations > 0 /\ iterations \in Nat /\ sent = Length(iterations)
        /\ topic \subseteq 1..Length(iterations)
        /\ DOMAIN Expected = Types /\ \A t \in Types : Expected[t] = iterations
    BY <2>1, AllSent DEF IndInv
  <2>3. \A m \in counted : ReportType(m) \in Types
    BY <2>1, <2>2 DEF Unexpected
  <2>4. \A t \in Types : Consumed(t) = iterations
    BY <2>1, <2>2 DEF Mismatch
  <2>5. ASSUME ~Disturbed, NEW n \in 1..Length(iterations)
        PROVE  \E m \in counted : m.of = n
    <3>1. TypeOf(n) \in Types
      BY <2>2, ScenarioFacts
    <3>2. n \in Numbers(iterations, TypeOf(n))
      BY DEF Numbers
    <3>3. Consumed(TypeOf(n)) = iterations
      BY <2>4, <3>1
    <3> QED
      BY <2>2, <2>5, <3>1, <3>2, <3>3, OwnReports DEF IndInv
  <2>6. OkEarned
    BY <2>2, <2>3, <2>4, <2>5 DEF OkEarned
  <2>7. UNCHANGED <<iterations, Disturbed>> /\ \A t : UNCHANGED Consumed(t)
    BY <2>1 DEF iterations, Disturbed, Repeats, Consumed
  <2> QED
    BY <2>1, <2>2, <2>3, <2>4, <2>5, <2>7 DEF OkEarned
<1> QED
  BY <1>1, <1>2, VerdictStep

LEMMA NoFalseAlarmStep == IndInv /\ [Next]_vars => NoFalseAlarm'
<1> SUFFICES ASSUME IndInv, [Next]_vars, exit' = "MISMATCH"
             PROVE  NoFalseAlarm'
  BY DEF NoFalseAlarm
<1>1. CASE UNCHANGED vars
  BY <1>1 DEF vars, producing, ending, consuming, IndInv, NoFalseAlarm, iterations,
     Disturbed, Repeats
<1>2. CASE Compare
  <2>1. iterations > 0 => failed \/ trouble \ {"join"} # {} \/ Disturbed
    BY <1>2, Verdict
  <2>2. UNCHANGED <<settings, counted, reports, failed, trouble>>
    BY <1>2 DEF Compare, producing, consuming
  <2>3. UNCHANGED <<iterations, Disturbed>>
    BY <2>2 DEF iterations, Disturbed, Repeats
  <2> QED
    BY <2>1, <2>2, <2>3 DEF NoFalseAlarm
<1> QED
  BY <1>1, <1>2, VerdictStep

-----------------------------------------------------------------------------
(* Giving up a broker.                                                       *)

\* Only the attempts to connect move the clock.
LEMMA ClockStep ==
    ASSUME TypeOK, ClockBounded, GivesUpInTime, [Next]_vars
    PROVE  ClockBounded' /\ GivesUpInTime'
<1> USE DEF After, Second, Deadline, MaxBackoff
<1>t. clock.elapsed \in Nat /\ clock.backoff \in Nat
  BY DEF TypeOK
<1>1. ASSUME UNCHANGED clock, main' = main \/ main' \notin {"connect", "dial"},
             "unreachable" \in trouble' <=> "unreachable" \in trouble,
             main \in After => main' \in After
      PROVE  ClockBounded' /\ GivesUpInTime'
  BY <1>1 DEF ClockBounded, GivesUpInTime
<1>2. ASSUME clock' \in {StartClock, Stopped}, main \notin After,
             "unreachable" \in trouble' <=> "unreachable" \in trouble
      PROVE  ClockBounded' /\ GivesUpInTime'
  BY <1>2 DEF ClockBounded, GivesUpInTime, StartClock, Stopped
<1>3. ASSUME NEW d \in AttemptTimes, Retry(d)
      PROVE  ClockBounded' /\ GivesUpInTime'
  <2>1. NextBackoff(clock.backoff) <= MaxBackoff
    BY <1>t DEF NextBackoff
  <2>2. /\ main \notin After /\ UNCHANGED <<main, trouble>>
        /\ clock.elapsed + d < Deadline
        /\ clock' = [elapsed |-> clock.elapsed + d + clock.backoff,
                     backoff |-> NextBackoff(clock.backoff)]
    BY <1>3 DEF Retry, ending
  <2>3. clock'.elapsed < Deadline + MaxBackoff
    BY <1>t, <2>2, SimulatorAssumption DEF ClockBounded
  <2> QED
    BY <2>1, <2>2, <2>3 DEF ClockBounded, GivesUpInTime
<1>4. ASSUME NEW d \in AttemptTimes, ConsumerUnreachable(d) \/ ProducerUnreachable(d)
      PROVE  ClockBounded' /\ GivesUpInTime'
  <2>1. /\ main \in {"connect", "dial"} /\ main' \in {"over", "decide"}
        /\ clock.elapsed + d >= Deadline
        /\ clock' = [clock EXCEPT !.elapsed = @ + d]
    BY <1>4 DEF ConsumerUnreachable, ProducerUnreachable, GiveUp
  <2>2. clock'.elapsed = clock.elapsed + d /\ clock'.backoff = clock.backoff
    BY <2>1 DEF TypeOK
  <2>3. clock'.elapsed \in Deadline..(Deadline + MaxBackoff + d)
    BY <1>t, <2>1, <2>2, SimulatorAssumption DEF ClockBounded
  <2> QED
    BY <2>1, <2>2, <2>3 DEF ClockBounded, GivesUpInTime
<1>5. CASE Configure
  <2>1. "unreachable" \in trouble' <=> "unreachable" \in trouble
    BY <1>5 DEF Configure
  <2>2. main \notin After /\ ((UNCHANGED clock /\ main' = "over") \/ clock' = StartClock)
    BY <1>5 DEF Configure
  <2> QED
    BY <1>1, <1>2, <2>1, <2>2
<1>6. CASE ConsumerConnects \/ ProducerConnects
  BY <1>2, <1>6 DEF ConsumerConnects, ProducerConnects, ending
<1>7. CASE SetUpRaises
  BY <1>1, <1>7 DEF SetUpRaises, producing
<1>8. ASSUME NEW why \in {"producer", "interrupt"}, ProduceRaises(why)
      PROVE  ClockBounded' /\ GivesUpInTime'
  <2>1. CASE SendRaises(why)
    BY <1>1, <1>8, <2>1 DEF SendRaises
  <2>2. CASE ProducerRaises(why)
    BY <1>2, <1>8, <2>2 DEF ProducerRaises
  <2> QED
    BY <1>8, <2>1, <2>2 DEF ProduceRaises
<1>9. CASE Send \/ Resume \/ ProduceEnds \/ Flushed
  BY <1>1, <1>9 DEF Send, Resume, ProduceEnds, Flushed, producing, ending
<1>10. CASE Ending
  BY <1>1, <1>10 DEF Ending, SkipWait, BeginWait, WaitSatisfied, WaitTimesOut, Killed, Join,
     Close, CloseRaises, Compare, producing, ending
<1>11. CASE Reading \/ UNCHANGED vars
  BY <1>1, <1>11, ReadingFrame DEF vars, producing, ending
<1> QED
  BY <1>3, <1>4, <1>5, <1>6, <1>7, <1>8, <1>9, <1>10, <1>11, Steps DEF Connecting, Producing

-----------------------------------------------------------------------------
(* The theorems.                                                             *)

LEMMA InitInv == Init => IndInv
<1> SUFFICES ASSUME Init
             PROVE  IndInv
  OBVIOUS
<1>1. TypeOK
  <2>1. Control
    BY DEF Init, Control, Before
  <2>2. iterations = 0 /\ sent = 0 /\ sent \in 0..MaxSent
    BY SimulatorAssumption DEF Init, iterations
  <2>3. Flow
    BY <2>2 DEF Init, Flow
  <2> QED
    BY <2>1, <2>3, TypeParts
<1>2. Sends /\ Quiet /\ Ended
  BY DEF Init, Sends, Quiet, Ended
<1>3. Satisfied
  BY FS_EmptySet DEF Init, Satisfied
<1>4. ClockBounded
  BY DEF Init, ClockBounded, MaxBackoff, Deadline, Second
<1>5. OkEarned /\ NoFalseAlarm /\ GivesUpInTime
  BY DEF Init, OkEarned, NoFalseAlarm, GivesUpInTime
<1> QED
  BY <1>1, <1>2, <1>3, <1>4, <1>5 DEF IndInv

LEMMA NextInv == IndInv /\ [Next]_vars => IndInv'
<1> SUFFICES ASSUME IndInv, [Next]_vars
             PROVE  IndInv'
  OBVIOUS
<1>1. TypeOK'
  <2>1. Control' /\ Flow'
    BY TypeParts, ControlStep, FlowStep DEF IndInv
  <2> QED
    BY <2>1 DEF TypeOK, Control, Flow, Before, After
<1>2. Sends' /\ Satisfied' /\ Quiet' /\ Ended'
  BY SendsStep, SatisfiedStep, QuietStep, EndedStep DEF IndInv
<1>3. ClockBounded' /\ GivesUpInTime'
  BY ClockStep DEF IndInv
<1>4. OkEarned' /\ NoFalseAlarm'
  BY OkEarnedStep, NoFalseAlarmStep
<1> QED
  BY <1>1, <1>2, <1>3, <1>4 DEF IndInv

\* The invariant that carries the simulator's verdict holds throughout.
THEOREM VerdictInvariant == Spec => []IndInv
BY InitInv, NextInv, PTL DEF Spec

\* The status OK means what it says, for every list of scenarios, every setting
\* and everything that may be on the results topic.
THEOREM OkIsEarned == Spec => []OkEarned
<1>1. IndInv => OkEarned
  BY DEF IndInv
<1> QED
  BY <1>1, VerdictInvariant, PTL

\* A simulator raises no alarm unless something went wrong.
THEOREM NoAlarmWithoutCause == Spec => []NoFalseAlarm
<1>1. IndInv => NoFalseAlarm
  BY DEF IndInv
<1> QED
  BY <1>1, VerdictInvariant, PTL

\* A simulator that no broker answers gives up within a minute, a backoff and
\* an attempt, however long each attempt takes.
THEOREM BrokersGivenUpInTime == Spec => []GivesUpInTime
<1>1. IndInv => GivesUpInTime
  BY DEF IndInv
<1> QED
  BY <1>1, VerdictInvariant, PTL

==============================================================================
