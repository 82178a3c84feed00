--------------------------- MODULE BenchmarkProofs ---------------------------
(* What a table of the benchmark is worth, for any number of runs, of        *)
(* submissions and repeated reports, and what is left of the runners.        *)
EXTENDS Benchmark, FiniteSetTheorems, TLAPS

Frames == [rows : SUBSET Rows, wait : {"drained", "timeout"}, join : {"returned", "timeout"}]

Types ==
    /\ TypeOK
    /\ frames \in Seq(Frames)

\* How far the runs, their tables and the waits have come.
Course ==
    /\ harness = "starting" => run = 0
    /\ harness \in {"starting", "next"} => Len(frames) = run
    /\ harness \in {"load", "send", "flush", "abort", "wait", "join", "close"} => Len(frames) + 1 = run
    /\ Len(frames) <= run /\ run <= Len(frames) + 1
    /\ harness \in {"load", "send", "flush", "wait"} => wait = "none"
    /\ harness \in {"join", "close"} => wait # "none"
    /\ harness = "close" => joined # "none"
    /\ harness = "close" /\ joined = "returned" => ReaderGone
    /\ harness = "next" /\ run > 0 => frames[run].wait = wait
    /\ wait = "drained" => pending = {}

\* The iterations of a run are numbered without a gap.
Numbered ==
    /\ \A s \in registered : 1 <= s.run /\ s.run <= run
    /\ IsFiniteSet(registered)
    /\ \A s \in SentSoFar : s.iteration <= Cardinality(SentSoFar)

\* What the consumer thread has of the reports, each in one place.
Handling ==
    /\ reader = "append" <=> hand # NoRow
    /\ reader \in {"subscribe", "poll"} => batch = {}
    /\ inbox \cap batch = {}
    /\ \A r \in RowsSoFar : r.report \in reports /\ r.report \notin inbox \cup batch

\* Nothing that was sent before this run can still be answered for the first time.
Undisturbed ==
    /\ NothingEarlier /\ Repeats = {}
    /\ \A k \in 1..(run - 1) : frames[k].wait = "drained"

Own ==
    Undisturbed =>
        /\ \A s \in registered : s.run < run => First(s) \in reports
        /\ \A m \in inbox \cup batch : m.of.run = run
        /\ \A r \in RowsSoFar : OwnRow(r)

IndInv ==
    /\ Types /\ Course /\ Numbered /\ Handling /\ Ledger /\ Own
    /\ CompleteFrame /\ OwnReportsOnceDrained /\ NoRunnerLeft
-----------------------------------------------------------------------------
LEMMA NoRowIsNone == NoRow \notin Rows
<1>1. DOMAIN NoRow = {"for"} /\ \A r \in Rows : DOMAIN r = {"for", "report"}
  BY DEF NoRow, Rows
<1> QED
  BY <1>1

LEMMA RowsByHand ==
    /\ hand = NoRow => InHand = {} /\ RowsSoFar = completed
    /\ hand # NoRow => InHand = {hand} /\ RowsSoFar = completed \cup {hand}
BY DEF InHand, RowsSoFar

LEMMA AppendFacts ==
    ASSUME NEW S, NEW q \in Seq(S), NEW e \in S
    PROVE  /\ Append(q, e) \in Seq(S)
           /\ Len(Append(q, e)) = Len(q) + 1
           /\ DOMAIN Append(q, e) = DOMAIN q \cup {Len(q) + 1}
           /\ \A i \in DOMAIN q : Append(q, e)[i] = q[i]
           /\ Append(q, e)[Len(q) + 1] = e
           /\ DOMAIN q = 1..Len(q) /\ Len(q) \in Nat
OBVIOUS

\* Steps of the main thread that leave the run, its reports and its collector.
Aside ==
    \/ StartRunner \/ StartCutOff \/ Enter \/ Send \/ SendRaises \/ Breaks
    \/ LoadEnds \/ Flushed \/ WaitDrained \/ WaitTimesOut \/ JoinReturns \/ JoinTimesOut

Leaves == StopRunners \/ StopCutOff

LEMMA AsideFrame == Aside => UNCHANGED <<run, registered, earlier, reports, collector, frames>>
BY DEF Aside, StartRunner, StartCutOff, Enter, Send, SendRaises, Breaks, LoadEnds, Flushed,
   WaitDrained, WaitTimesOut, WaitEnds, JoinReturns, JoinTimesOut, Joins, external

LEMMA LeavesFrame ==
    Leaves => /\ UNCHANGED <<run, registered, external, pending, completed, hand, stop, frames>>
              /\ inbox' = {} /\ batch' = {}
              /\ harness' \in {"finished", "crashed"}
              /\ reader' = IF hand = NoRow THEN "gone" ELSE "append"
BY DEF Leaves, StopRunners, StopCutOff, ThreadDies

LEMMA ReaderFrame == ReaderStep => UNCHANGED <<main, external>>
BY DEF ReaderStep, Subscribe, Poll, ReaderEnds, Pop, AppendRow

Steps ==
    \/ UNCHANGED vars \/ Aside \/ Leaves \/ StartCollector \/ Register \/ FrameBuilt
    \/ Subscribe \/ Poll \/ ReaderEnds \/ Pop \/ AppendRow
    \/ \E m \in Reports : Report(m)

LEMMA NextSteps == [Next]_vars => Steps
BY DEF Next, MainStep, Fails, ReaderStep, Over, Steps, Aside, Leaves

LEMMA FrameAdded ==
    ASSUME Types, Course, FrameBuilt
    PROVE  /\ harness = "close" /\ harness' = "next" /\ Len(frames) + 1 = run
           /\ UNCHANGED <<containers, run, registered, external, collector, stop>>
           /\ frames' \in Seq(Frames) /\ Len(frames') = run
           /\ DOMAIN frames' = DOMAIN frames \cup {run} /\ DOMAIN frames = 1..(run - 1)
           /\ \A i \in DOMAIN frames : frames'[i] = frames[i]
           /\ frames'[run] = [rows |-> completed, wait |-> wait, join |-> joined]
<1> DEFINE e == [rows |-> completed, wait |-> wait, join |-> joined]
<1>1. /\ harness = "close" /\ Len(frames) + 1 = run
      /\ wait \in {"drained", "timeout"} /\ joined \in {"returned", "timeout"}
  BY DEF FrameBuilt, Go, Course, Types, TypeOK
<1>2. e \in Frames
  BY <1>1 DEF Frames, Types, TypeOK
<1>3. frames \in Seq(Frames) /\ frames' = Append(frames, e)
  BY DEF FrameBuilt, Types
<1> HIDE DEF e
<1>4. /\ frames' \in Seq(Frames) /\ Len(frames') = Len(frames) + 1
      /\ DOMAIN frames' = DOMAIN frames \cup {Len(frames) + 1}
      /\ \A i \in DOMAIN frames : frames'[i] = frames[i]
      /\ frames'[Len(frames) + 1] = e
      /\ DOMAIN frames = 1..Len(frames) /\ Len(frames) \in Nat
  BY <1>2, <1>3, AppendFacts
<1>5. DOMAIN frames = 1..(run - 1)
  BY <1>1, <1>4
<1> QED
  BY <1>1, <1>4, <1>5 DEF FrameBuilt, Go, e

\* The submissions of the run, beside all that are registered.
LEMMA CountedSent ==
    ASSUME Numbered
    PROVE  /\ IsFiniteSet(SentSoFar) /\ Cardinality(SentSoFar) \in Nat
           /\ Cardinality(registered) \in Nat
           /\ Cardinality(SentSoFar) <= Cardinality(registered)
<1>1. SentSoFar \subseteq registered
  BY DEF SentSoFar
<1> QED
  BY <1>1, FS_Subset, FS_CardinalityType DEF Numbered

\* What the first locked section does with a report.
Popped(m) ==
    /\ m \in Reports /\ m \notin inbox /\ m \in reports /\ batch' = batch \ {m}
    /\ UNCHANGED <<main, external, completed, inbox>> /\ hand = NoRow
    /\ \/ \E s \in pending :
            /\ ScriptId(s) = ScriptId(m.of) /\ pending' = pending \ {s}
            /\ hand' = [for |-> s, report |-> m] /\ hand' \in Rows
            /\ hand' # NoRow /\ reader' = "append"
       \/ /\ UNCHANGED <<pending, hand>>
          /\ reader' \in {"poll", "handle"} /\ (reader' = "poll" => batch' = {})

LEMMA PopCases == TypeOK /\ Handling /\ Pop => \E m \in batch : Popped(m)
<1> SUFFICES ASSUME TypeOK, Handling, Pop
             PROVE  \E m \in batch : Popped(m)
  OBVIOUS
<1>1. PICK m \in batch :
        /\ batch' = batch \ {m}
        /\ \/ \E s \in pending :
                /\ ScriptId(s) = ScriptId(m.of)
                /\ Taken(s)
                /\ hand' = [for |-> s, report |-> m]
                /\ reader' = "append"
           \/ reader' = AfterMessage(batch') /\ UNCHANGED <<pending, hand>>
  BY DEF Pop
<1>2. m \in Reports /\ m \notin inbox /\ m \in reports /\ hand = NoRow
  BY <1>1 DEF Pop, TypeOK, Handling
<1>3. UNCHANGED <<main, external, completed, inbox>>
  BY DEF Pop
<1>4. ASSUME NEW s \in pending, hand' = [for |-> s, report |-> m]
      PROVE  hand' \in Rows /\ hand' # NoRow
  BY <1>2, <1>4, NoRowIsNone DEF Rows, TypeOK
<1>5. CASE reader' = AfterMessage(batch') /\ UNCHANGED <<pending, hand>>
  BY <1>1, <1>2, <1>3, <1>5 DEF Popped, AfterMessage
<1>6. CASE \E s \in pending : /\ ScriptId(s) = ScriptId(m.of)
                              /\ Taken(s)
                              /\ hand' = [for |-> s, report |-> m]
                              /\ reader' = "append"
  BY <1>1, <1>2, <1>3, <1>4, <1>6 DEF Popped, Taken
<1> QED
  BY <1>1, <1>5, <1>6

\* A registered submission is new to its run, and replaces none in the table.
LEMMA Registered ==
    ASSUME Types, Course, Numbered, Ledger, Register
    PROVE  \E s \in Submissions :
             /\ s.run = run /\ s.iteration = Cardinality(SentSoFar) + 1 /\ s \notin registered
             /\ registered' = registered \cup {s} /\ pending' = pending \cup {s}
             /\ \A p \in pending : ScriptId(p) # ScriptId(s)
<1> DEFINE next == Cardinality(SentSoFar) + 1
<1>1. PICK scenario \in Scenarios :
        LET s == [run |-> run, scenario |-> scenario, iteration |-> next]
        IN  /\ registered' = registered \cup {s}
            /\ pending' = {p \in pending : ScriptId(p) # ScriptId(s)} \cup {s}
  BY DEF Register
<1> DEFINE s == [run |-> run, scenario |-> scenario, iteration |-> next]
<1>2. Cardinality(SentSoFar) \in Nat /\ Cardinality(SentSoFar) < MaxSent
  BY CountedSent, BenchmarkAssumption DEF Register
<1>3. run \in 1..NumRuns
  <2>1. Len(frames) + 1 = run /\ Len(frames) \in Nat /\ run \in 0..NumRuns
    BY DEF Register, Go, Course, Types, TypeOK
  <2> QED
    BY <2>1, BenchmarkAssumption
<1>4. s \in Submissions
  BY <1>2, <1>3, BenchmarkAssumption DEF Submissions
<1>5. \A q \in SentSoFar : q \in Submissions /\ q.iteration <= Cardinality(SentSoFar)
  BY DEF SentSoFar, Numbered, Types, TypeOK
<1>6. \A q \in SentSoFar : q.iteration # next
  BY <1>2, <1>5 DEF Submissions
<1>7. s \notin registered
  BY <1>6 DEF SentSoFar
<1>8. \A p \in pending : ScriptId(p) # ScriptId(s)
  BY <1>6 DEF Ledger, ScriptId
<1> QED
  BY <1>1, <1>4, <1>7, <1>8

-----------------------------------------------------------------------------
LEMMA TypesStep == Types /\ Course /\ Numbered /\ Handling /\ Ledger /\ [Next]_vars => Types'
<1> SUFFICES ASSUME Types, Course, Numbered, Handling, Ledger, Steps
             PROVE  Types'
  BY NextSteps
<1> USE DEF Types, TypeOK
<1>1. CASE UNCHANGED vars
  BY <1>1 DEF vars, main, containers, external, collector, stop
<1>2. CASE Aside
  <2>1. CASE StartRunner \/ StartCutOff
    BY <2>1, BenchmarkAssumption DEF StartRunner, StartCutOff, Go, external, collector, stop
  <2>2. CASE Send \/ SendRaises
    <3>1. topic' \subseteq registered \cup Old
      BY <2>2 DEF Send, SendRaises, InSend, SentSoFar
    <3>2. /\ harness' \in {"load", "abort"}
          /\ UNCHANGED <<containers, run, registered, earlier, reports, collector, stop, frames>>
      BY <2>2 DEF Send, SendRaises, Go
    <3> QED
      BY <3>1, <3>2 DEF containers, collector, stop
  <2>3. CASE Enter \/ Breaks \/ LoadEnds \/ Flushed \/ WaitDrained \/ WaitTimesOut
             \/ JoinReturns \/ JoinTimesOut
    <3>1. UNCHANGED <<containers, run, registered, external, collector, frames>>
      BY <2>3 DEF Enter, Breaks, LoadEnds, Flushed, WaitDrained, WaitTimesOut, WaitEnds,
         JoinReturns, JoinTimesOut, Joins
    <3>2. harness' \in {"next", "abort", "unwind", "flush", "wait", "join", "close"}
      BY <2>3 DEF Enter, Breaks, LoadEnds, Flushed, WaitDrained, WaitTimesOut, WaitEnds,
         JoinReturns, JoinTimesOut, Joins, Go, Raised
    <3>3. /\ wait' \in {"none", "drained", "timeout"}
          /\ joined' \in {"none", "returned", "timeout"}
      BY <2>3 DEF Enter, Breaks, LoadEnds, Flushed, WaitDrained, WaitTimesOut, WaitEnds,
         JoinReturns, JoinTimesOut, Joins, stop
    <3> QED
      BY <3>1, <3>2, <3>3 DEF containers, external, collector
  <2> QED
    BY <1>2, <2>1, <2>2, <2>3 DEF Aside
<1>l. CASE Leaves
  <2>1. runners' \in 0..Replicas /\ refused' \in 0..Replicas /\ cut' \in {"none", "start", "stop"}
    BY <1>l, BenchmarkAssumption DEF Leaves, StopRunners, StopCutOff
  <2>2. /\ UNCHANGED <<run, registered, external, pending, completed, hand, stop, frames>>
        /\ inbox' = {} /\ batch' = {} /\ harness' \in {"finished", "crashed"}
        /\ reader' \in {"gone", "append"}
    BY <1>l, LeavesFrame
  <2> QED
    BY <2>1, <2>2 DEF external, stop
<1>3. CASE StartCollector
  <2>1. inbox' \subseteq reports
    BY <1>3 DEF StartCollector
  <2>2. /\ harness' = "load" /\ run' \in 0..NumRuns /\ Len(frames) <= run' /\ pending' = {}
        /\ completed' = {} /\ batch' = {} /\ hand' = NoRow /\ reader' = "subscribe"
        /\ wait' = "none" /\ joined' = "none"
        /\ UNCHANGED <<containers, registered, external, frames>>
    BY <1>3, BenchmarkAssumption DEF StartCollector, Go, Course
  <2> QED
    BY <2>1, <2>2 DEF containers, external
<1>4. CASE Register
  BY <1>4, Registered DEF Register, Go, containers, external, stop
<1>5. CASE FrameBuilt
  BY <1>5, FrameAdded DEF containers, external, collector, stop
<1>6. ASSUME UNCHANGED <<main, external>>,
             inbox' \cup batch' \subseteq inbox \cup batch, pending' \subseteq pending,
             completed' \subseteq Rows, hand' \in Rows \cup {NoRow},
             reader' \in {"subscribe", "poll", "handle", "append", "gone"}
      PROVE  Types'
  BY <1>6 DEF main, containers, external, stop
<1>7. CASE Subscribe \/ Poll \/ ReaderEnds
  BY <1>6, <1>7 DEF Subscribe, Poll, ReaderEnds
<1>8. CASE Pop
  <2>1. PICK m \in batch : Popped(m)
    BY <1>8, PopCases
  <2> QED
    BY <1>6, <2>1 DEF Popped
<1>9. CASE AppendRow
  BY <1>6, <1>9 DEF AppendRow, AfterMessage, Handling
<1>10. ASSUME NEW m \in Reports, Report(m)
       PROVE  Types'
  BY <1>10 DEF Report, main, containers, stop
<1> QED
  BY <1>1, <1>2, <1>l, <1>3, <1>4, <1>5, <1>7, <1>8, <1>9, <1>10 DEF Steps

\* What the first lemmas about a step rely on.
Now == Types /\ Course /\ Numbered /\ Handling /\ Ledger

LEMMA CourseStep == Now /\ [Next]_vars => Course'
<1> SUFFICES ASSUME Now, Steps
             PROVE  Course'
  BY NextSteps
<1> USE DEF Course
<1>t. /\ Course /\ frames \in Seq(Frames) /\ Len(frames) \in Nat /\ run \in Nat
      /\ TypeOK
  BY DEF Now, Types, TypeOK
<1>1. ASSUME UNCHANGED main, pending' \subseteq pending, reader = "gone" => reader' = "gone"
      PROVE  Course'
  BY <1>1, <1>t DEF main, stop, ReaderGone
<1>2. CASE Aside
  <2>1. CASE StartRunner \/ StartCutOff \/ Enter \/ Send \/ SendRaises \/ Breaks \/ LoadEnds
             \/ Flushed
    <3>1. UNCHANGED <<run, stop, frames, collector>>
      BY <2>1 DEF StartRunner, StartCutOff, Enter, Send, SendRaises, Breaks, LoadEnds, Flushed
    <3>2. \/ harness = "starting" /\ harness' \in {"starting", "crashed", "next"}
          \/ harness \in {"load", "send"} /\ harness' \in {"load", "flush", "abort"}
          \/ harness = "flush" /\ harness' = "wait"
          \/ harness' = "unwind"
      BY <2>1 DEF StartRunner, StartCutOff, Enter, Send, SendRaises, Breaks, LoadEnds, Flushed,
         Go, Raised
    <3> QED
      BY <1>t, <3>1, <3>2 DEF stop, collector
  <2>2. CASE WaitDrained \/ WaitTimesOut
    BY <1>t, <2>2 DEF WaitDrained, WaitTimesOut, WaitEnds, NothingPending, Go, collector
  <2>3. CASE JoinReturns \/ JoinTimesOut
    BY <1>t, <2>3 DEF JoinReturns, JoinTimesOut, Joins, Go, collector, ReaderGone
  <2> QED
    BY <1>2, <2>1, <2>2, <2>3 DEF Aside
<1>l. CASE Leaves
  BY <1>t, <1>l, LeavesFrame DEF stop
<1>3. CASE StartCollector
  BY <1>t, <1>3 DEF StartCollector, Go
<1>4. CASE Register
  BY <1>t, <1>4 DEF Register, Go, stop
<1>5. CASE FrameBuilt
  <2>1. /\ harness' = "next" /\ Len(frames') = run /\ UNCHANGED <<run, collector, stop>>
        /\ frames'[run].wait = wait
    BY <1>5, FrameAdded DEF Now
  <2> QED
    BY <1>t, <2>1 DEF collector, stop
<1>6. CASE Pop
  <2>1. PICK m \in batch : Popped(m)
    BY <1>6, PopCases DEF Now, Types
  <2> QED
    BY <1>1, <1>6, <2>1 DEF Popped, Pop
<1>7. CASE UNCHANGED vars \/ Subscribe \/ Poll \/ ReaderEnds \/ AppendRow
  BY <1>1, <1>7 DEF vars, collector, Subscribe, Poll, ReaderEnds, AppendRow
<1>8. ASSUME NEW m \in Reports, Report(m)
      PROVE  Course'
  BY <1>1, <1>8 DEF Report
<1> QED
  BY <1>2, <1>l, <1>3, <1>4, <1>5, <1>6, <1>7, <1>8 DEF Steps

LEMMA NumberedStep == Now /\ [Next]_vars => Numbered'
<1> SUFFICES ASSUME Now, Steps
             PROVE  Numbered'
  BY NextSteps
<1>1. ASSUME UNCHANGED <<run, registered>>
      PROVE  Numbered'
  BY <1>1 DEF Now, Numbered, SentSoFar
<1>2. CASE StartCollector
  <2>1. run' = run + 1 /\ UNCHANGED registered /\ run \in Nat
    BY <1>2 DEF StartCollector, Now, Types, TypeOK
  <2>2. \A s \in registered : s.run \in Nat /\ 1 <= s.run /\ s.run <= run
    BY DEF Now, Numbered, Types, TypeOK, Submissions
  <2>3. SentSoFar' = {}
    BY <2>1, <2>2 DEF SentSoFar
  <2>4. \A s \in registered : 1 <= s.run /\ s.run <= run + 1
    BY <2>1, <2>2
  <2> QED
    BY <2>1, <2>3, <2>4 DEF Numbered, Now
<1>3. CASE Register
  <2>1. PICK s \in Submissions :
          /\ s.run = run /\ s.iteration = Cardinality(SentSoFar) + 1 /\ s \notin registered
          /\ registered' = registered \cup {s} /\ pending' = pending \cup {s}
    BY <1>3, Registered DEF Now
  <2>2. UNCHANGED run /\ run \in Nat /\ 1 <= run
    <3>1. Len(frames) + 1 = run /\ Len(frames) \in Nat
      BY <1>3 DEF Register, Go, Now, Course, Types
    <3> QED
      BY <1>3, <3>1 DEF Register
  <2>3. SentSoFar' = SentSoFar \cup {s} /\ s \notin SentSoFar
    BY <2>1, <2>2 DEF SentSoFar
  <2>4. IsFiniteSet(SentSoFar) /\ Cardinality(SentSoFar) \in Nat
    BY CountedSent DEF Now
  <2>5. /\ IsFiniteSet(registered') /\ Cardinality(SentSoFar') = Cardinality(SentSoFar) + 1
    BY <2>1, <2>3, <2>4, FS_AddElement DEF Now, Numbered
  <2>6. \A q \in SentSoFar : q.iteration \in Nat /\ q.iteration <= Cardinality(SentSoFar)
    BY DEF Now, Numbered, SentSoFar, Types, TypeOK, Submissions
  <2>7. \A q \in SentSoFar' : q.iteration <= Cardinality(SentSoFar')
    BY <2>1, <2>3, <2>4, <2>5, <2>6
  <2>8. \A q \in registered' : 1 <= q.run /\ q.run <= run'
    BY <2>1, <2>2 DEF Now, Numbered, Submissions
  <2> QED
    BY <2>5, <2>7, <2>8 DEF Numbered
<1>4. ASSUME ~StartCollector, ~Register
      PROVE  UNCHANGED <<run, registered>>
  BY <1>4, AsideFrame, LeavesFrame, ReaderFrame DEF Steps, ReaderStep, vars, main, FrameBuilt,
     Report
<1> QED
  BY <1>1, <1>2, <1>3, <1>4

-----------------------------------------------------------------------------
(* The consumer thread and the ledger.                                       *)

LEMMA HandlingStep == Now /\ [Next]_vars => Handling'
<1> SUFFICES ASSUME Now, Steps
             PROVE  Handling'
  BY NextSteps
<1>t. Handling /\ TypeOK
  BY DEF Now, Types
<1>1. ASSUME UNCHANGED <<reports, collector>>
      PROVE  Handling'
  BY <1>t, <1>1 DEF collector, Handling, RowsSoFar, InHand
<1>2. CASE StartCollector
  <2>1. reader' = "subscribe" /\ hand' = NoRow /\ batch' = {} /\ completed' = {}
    BY <1>2 DEF StartCollector
  <2> QED
    BY <2>1 DEF Handling, RowsSoFar, InHand
<1>3. CASE Register
  BY <1>t, <1>3 DEF Register, external, Handling, RowsSoFar, InHand
<1>4. CASE Subscribe \/ Poll \/ ReaderEnds
  <2>1. /\ UNCHANGED <<reports, completed, hand>> /\ reader # "append" /\ reader' # "append"
        /\ inbox' \cup batch' \subseteq inbox \cup batch
    BY <1>4 DEF Subscribe, Poll, ReaderEnds, external
  <2>2. inbox' \cap batch' = {} /\ (reader' \in {"subscribe", "poll"} => batch' = {})
    BY <1>t, <1>4 DEF Subscribe, Poll, ReaderEnds, Handling
  <2> QED
    BY <1>t, <2>1, <2>2 DEF Handling, RowsSoFar, InHand
<1>5. CASE Pop
  <2>1. PICK m \in batch : Popped(m)
    BY <1>t, <1>5, PopCases
  <2>2. RowsSoFar = completed /\ UNCHANGED <<reports, completed, inbox>> /\ batch' = batch \ {m}
    BY <2>1, RowsByHand DEF Popped, external
  <2>3. reader # "append"
    BY <1>5 DEF Pop
  <2>4. CASE hand' # NoRow /\ reader' = "append" /\ hand'.report = m
    <3>1. RowsSoFar' = completed \cup {hand'}
      BY <2>2, <2>4 DEF RowsSoFar, InHand
    <3>2. \A r \in RowsSoFar' : r.report \in reports' /\ r.report \notin inbox' \cup batch'
      BY <1>t, <2>1, <2>2, <2>4, <3>1 DEF Handling, Popped
    <3> QED
      BY <1>t, <2>2, <2>4, <3>2 DEF Handling
  <2>5. CASE hand' = NoRow /\ reader' \in {"poll", "handle"} /\ (reader' = "poll" => batch' = {})
    <3>1. RowsSoFar' = completed
      BY <2>2, <2>5 DEF RowsSoFar, InHand
    <3> QED
      BY <1>t, <2>2, <2>5, <3>1 DEF Handling
  <2> QED
    BY <2>1, <2>4, <2>5 DEF Popped
<1>6. CASE AppendRow
  <2>1. /\ reader = "append" /\ completed' = completed \cup {hand} /\ hand' = NoRow
        /\ reader' = AfterMessage(batch) /\ UNCHANGED <<reports, inbox, batch>>
    BY <1>6 DEF AppendRow, external
  <2>2. RowsSoFar' = RowsSoFar
    BY <1>t, <2>1 DEF RowsSoFar, InHand, Handling
  <2> QED
    BY <1>t, <2>1, <2>2 DEF Handling, AfterMessage
<1>7. ASSUME NEW m \in Reports, Report(m)
      PROVE  Handling'
  <2>1. /\ m \notin reports /\ reports' = reports \cup {m} /\ inbox' \subseteq inbox \cup {m}
        /\ UNCHANGED <<completed, reader, batch, hand>>
    BY <1>7 DEF Report
  <2> QED
    BY <1>t, <2>1 DEF Handling, RowsSoFar, InHand, TypeOK
<1>8. CASE Aside \/ UNCHANGED vars \/ FrameBuilt
  BY <1>1, <1>8, AsideFrame DEF vars, external, FrameBuilt
<1>9. CASE Leaves
  <2>1. RowsSoFar' = RowsSoFar
    BY <1>9, LeavesFrame DEF RowsSoFar, InHand
  <2> QED
    BY <1>t, <1>9, <2>1, LeavesFrame DEF Handling, external
<1> QED
  BY <1>2, <1>3, <1>4, <1>5, <1>6, <1>7, <1>8, <1>9 DEF Steps

LEMMA LedgerStep == Now /\ [Next]_vars => Ledger'
<1> SUFFICES ASSUME Now, Steps
             PROVE  Ledger'
  BY NextSteps
<1>t. Handling /\ TypeOK /\ Ledger
  BY DEF Now, Types
<1>1. ASSUME UNCHANGED <<run, registered, pending, completed, hand>>
      PROVE  Ledger'
  BY <1>t, <1>1 DEF Ledger, RowsSoFar, InHand, SentSoFar
<1>2. CASE StartCollector
  <2>1. run' = run + 1 /\ UNCHANGED registered /\ run \in Nat
    BY <1>2 DEF StartCollector, Now, Types, TypeOK
  <2>2. \A s \in registered : s.run \in Nat /\ s.run <= run
    BY DEF Now, Numbered, Types, TypeOK, Submissions
  <2>3. SentSoFar' = {}
    BY <2>1, <2>2 DEF SentSoFar
  <2>4. RowsSoFar' = {} /\ InHand' = {} /\ pending' = {}
    BY <1>2 DEF StartCollector, RowsSoFar, InHand
  <2> QED
    BY <2>3, <2>4 DEF Ledger
<1>3. CASE Register
  <2>1. PICK s \in Submissions :
          /\ s.run = run /\ s.iteration = Cardinality(SentSoFar) + 1 /\ s \notin registered
          /\ registered' = registered \cup {s} /\ pending' = pending \cup {s}
    BY <1>3, Registered DEF Now
  <2>2. UNCHANGED <<run, completed, hand>>
    BY <1>3 DEF Register
  <2>3. SentSoFar' = SentSoFar \cup {s} /\ s \notin SentSoFar
    BY <2>1, <2>2 DEF SentSoFar
  <2>4. RowsSoFar' = RowsSoFar /\ InHand' = InHand
    BY <2>2 DEF RowsSoFar, InHand
  <2>5. \A r \in RowsSoFar : r.for # s
    BY <1>t, <2>3 DEF Ledger
  <2>6. {r.for : r \in RowsSoFar'} = {r.for : r \in RowsSoFar}
    BY <2>4
  <2>7. {r.for : r \in RowsSoFar'} \cup pending' = SentSoFar'
    BY <1>t, <2>1, <2>3, <2>6 DEF Ledger
  <2>8. \A r \in RowsSoFar' : r.for \notin pending'
    BY <1>t, <2>1, <2>4, <2>5 DEF Ledger
  <2>9. \A r, q \in RowsSoFar' : r.for = q.for \/ r.report = q.report => r = q
    BY <1>t, <2>4 DEF Ledger
  <2>10. InHand' \cap completed' = {}
    BY <1>t, <2>2, <2>4 DEF Ledger
  <2> QED
    BY <2>7, <2>8, <2>9, <2>10 DEF Ledger
<1>4. CASE Pop
  <2>1. PICK m \in batch : Popped(m)
    BY <1>t, <1>4, PopCases
  <2>2. CASE UNCHANGED <<pending, hand>>
    BY <1>1, <2>1, <2>2 DEF Popped, main
  <2>3. ASSUME NEW s \in pending, pending' = pending \ {s},
               hand' = [for |-> s, report |-> m], hand' # NoRow
        PROVE  Ledger'
    <3>1. RowsSoFar = completed /\ UNCHANGED <<run, registered, completed>>
      BY <2>1, RowsByHand DEF Popped, main
    <3>2. RowsSoFar' = completed \cup {hand'} /\ InHand' = {hand'}
      BY <2>3, <3>1 DEF RowsSoFar, InHand
    <3>3. SentSoFar' = SentSoFar
      BY <3>1 DEF SentSoFar
    <3>4. \A r \in completed : r.for # s /\ r.report # m
      BY <1>t, <2>1, <3>1 DEF Ledger, Handling
    <3>5. hand'.for = s /\ hand'.report = m
      BY <2>3
    <3>6. {r.for : r \in RowsSoFar'} \cup pending' = SentSoFar'
      BY <1>t, <2>3, <3>1, <3>2, <3>3, <3>5 DEF Ledger
    <3>7. \A r \in RowsSoFar' : r.for \notin pending'
      BY <1>t, <2>3, <3>1, <3>2, <3>5 DEF Ledger
    <3>8. \A r, q \in RowsSoFar' : r.for = q.for \/ r.report = q.report => r = q
      BY <1>t, <3>1, <3>2, <3>4, <3>5 DEF Ledger
    <3>9. InHand' \cap completed' = {}
      BY <3>1, <3>2, <3>4, <3>5
    <3> QED
      BY <3>6, <3>7, <3>8, <3>9 DEF Ledger
  <2> QED
    BY <2>1, <2>2, <2>3 DEF Popped
<1>5. CASE AppendRow
  <2>1. /\ reader = "append" /\ completed' = completed \cup {hand} /\ hand' = NoRow
        /\ UNCHANGED <<run, registered, pending>>
    BY <1>5 DEF AppendRow, main
  <2>2. RowsSoFar' = RowsSoFar /\ InHand' = {}
    BY <1>t, <2>1 DEF RowsSoFar, InHand, Handling
  <2>3. SentSoFar' = SentSoFar
    BY <2>1 DEF SentSoFar
  <2>4. {r.for : r \in RowsSoFar'} = {r.for : r \in RowsSoFar}
    BY <2>2
  <2>5. InHand' \cap completed' = {}
    BY <2>2
  <2> QED
    BY <1>t, <2>1, <2>2, <2>3, <2>4, <2>5 DEF Ledger
<1>6. CASE Subscribe \/ Poll \/ ReaderEnds \/ UNCHANGED vars
  BY <1>1, <1>6 DEF Subscribe, Poll, ReaderEnds, vars, main, collector
<1>7. ASSUME NEW m \in Reports, Report(m)
      PROVE  Ledger'
  BY <1>1, <1>7 DEF Report, main
<1>8. CASE Aside \/ Leaves \/ FrameBuilt
  BY <1>1, <1>8, AsideFrame, LeavesFrame DEF FrameBuilt, collector
<1> QED
  BY <1>2, <1>3, <1>4, <1>5, <1>6, <1>7, <1>8 DEF Steps

-----------------------------------------------------------------------------
(* Whose reports a table is made of.                                         *)

\* Reports and earlier tables stay.
LEMMA UndisturbedBefore ==
    ASSUME Now, [Next]_vars
    PROVE  /\ reports \subseteq reports' /\ (Repeats' = {} => Repeats = {})
           /\ NothingEarlier' => NothingEarlier
           /\ run' = run => (Undisturbed' => Undisturbed)
<1>1. reports \subseteq reports' /\ UNCHANGED earlier
  BY NextSteps, AsideFrame, LeavesFrame, ReaderFrame DEF Steps, ReaderStep, StartCollector,
     Register, FrameBuilt, Report, external, vars
<1>e. NothingEarlier' => NothingEarlier
  BY <1>1 DEF NothingEarlier
<1>2. ASSUME Repeats' = {}
      PROVE  Repeats = {}
  BY <1>1, <1>2 DEF Repeats
<1>3. ASSUME run' = run, NEW k \in 1..(run - 1)
      PROVE  frames'[k] = frames[k]
  <2>1. CASE FrameBuilt
    <3>1. DOMAIN frames = 1..(run - 1) /\ \A i \in DOMAIN frames : frames'[i] = frames[i]
      BY <2>1, FrameAdded DEF Now
    <3> QED
      BY <3>1
  <2>2. CASE ~FrameBuilt
    <3>1. UNCHANGED frames
      BY <2>2, NextSteps, AsideFrame, LeavesFrame, ReaderFrame DEF Steps, ReaderStep,
         StartCollector, Register, Report, main, vars
    <3> QED
      BY <3>1
  <2> QED
    BY <2>1, <2>2
<1>4. ASSUME run' = run, Undisturbed'
      PROVE  Undisturbed
  BY <1>e, <1>2, <1>3, <1>4 DEF Undisturbed
<1> QED
  BY <1>1, <1>e, <1>2, <1>4

\* A run that was waited out undisturbed has had all its answers.
LEMMA AllAnswered ==
    ASSUME Now, Own, Undisturbed, pending = {}, NEW s \in SentSoFar
    PROVE  First(s) \in reports
<1>1. PICK r \in RowsSoFar : r.for = s
  BY DEF Now, Ledger
<1>2. r.report \in reports /\ r.report.of = s
  BY <1>1 DEF Now, Handling, Own, OwnRow
<1>3. r.report \in Reports /\ r.report.copy = 1
  BY <1>2 DEF Now, Types, TypeOK, Undisturbed, Repeats, Reports
<1>4. r.report = First(s)
  BY <1>2, <1>3 DEF Reports, First
<1> QED
  BY <1>2, <1>4

LEMMA OwnStep == Now /\ Own /\ [Next]_vars => Own'
<1> SUFFICES ASSUME Now, Own, [Next]_vars, Undisturbed'
             PROVE  /\ \A s \in registered' : s.run < run' => First(s) \in reports'
                    /\ \A m \in inbox' \cup batch' : m.of.run = run'
                    /\ \A r \in RowsSoFar' : OwnRow(r)
  BY DEF Own
<1> DEFINE Goal == /\ \A s \in registered' : s.run < run' => First(s) \in reports'
                   /\ \A m \in inbox' \cup batch' : m.of.run = run'
                   /\ \A r \in RowsSoFar' : OwnRow(r)
<1>t. Handling /\ TypeOK /\ run \in Nat
  BY DEF Now, Types, TypeOK
<1>o. run' = run =>
        /\ Undisturbed
        /\ \A s \in registered : s.run < run => First(s) \in reports'
        /\ \A m \in inbox \cup batch : m.of.run = run
        /\ \A r \in RowsSoFar : OwnRow(r)
  BY UndisturbedBefore DEF Own
<1>1. ASSUME UNCHANGED <<run, registered>>, inbox' \cup batch' \subseteq inbox \cup batch,
             RowsSoFar' \subseteq RowsSoFar
      PROVE  Goal
  BY <1>o, <1>1
<1>2. CASE StartCollector
  <2>0. /\ harness = "next" /\ run' = run + 1 /\ UNCHANGED <<registered, earlier, reports, frames>>
        /\ batch' = {} /\ completed' = {} /\ hand' = NoRow
    BY <1>2 DEF StartCollector, Go, external
  <2>n. earlier.runs = 0 /\ NothingEarlier
    BY <2>0 DEF Undisturbed, NothingEarlier
  <2>1. /\ harness = "next" /\ run' = run + 1 /\ UNCHANGED <<registered, reports, frames>>
        /\ inbox' = {} /\ batch' = {} /\ completed' = {} /\ hand' = NoRow
    BY <1>t, <1>2, <2>0, <2>n DEF StartCollector, Resumed
  <2>2. RowsSoFar' = {}
    BY <2>1 DEF RowsSoFar, InHand
  <2>3. Repeats = {} /\ \A k \in 1..run : frames[k].wait = "drained"
    BY <1>t, <2>1 DEF Undisturbed, Repeats
  <2>4. Undisturbed
    BY <1>t, <2>n, <2>3 DEF Undisturbed
  <2>5. ASSUME NEW s \in registered, s.run < run + 1
        PROVE  First(s) \in reports
    <3>1. s.run \in Nat \ {0}
      BY <1>t DEF TypeOK, Submissions, Now, Numbered
    <3>2. CASE s.run < run
      BY <2>4, <3>2 DEF Own
    <3>3. CASE s.run = run
      <4>1. frames[run].wait = "drained" /\ run > 0
        BY <1>t, <2>3, <3>1, <3>3
      <4>2. pending = {}
        BY <2>1, <4>1 DEF Now, Course
      <4> QED
        BY <2>4, <3>3, <4>2, AllAnswered DEF SentSoFar
    <3> QED
      BY <1>t, <2>5, <3>1, <3>2, <3>3
  <2> QED
    BY <2>1, <2>2, <2>5
<1>3. CASE Register
  <2>1. PICK s \in Submissions : s.run = run /\ registered' = registered \cup {s}
    BY <1>3, Registered DEF Now
  <2>2. UNCHANGED <<run, inbox, batch, completed, hand>>
    BY <1>3 DEF Register
  <2>3. RowsSoFar' = RowsSoFar
    BY <2>2 DEF RowsSoFar, InHand
  <2> QED
    BY <1>t, <1>o, <2>1, <2>2, <2>3
<1>4. CASE Pop
  <2>1. PICK m \in batch : Popped(m)
    BY <1>t, <1>4, PopCases
  <2>2. /\ UNCHANGED <<run, registered, completed, inbox>> /\ batch' \subseteq batch
        /\ RowsSoFar = completed
    BY <2>1, RowsByHand DEF Popped, main
  <2>3. CASE UNCHANGED <<pending, hand>>
    BY <1>1, <2>2, <2>3 DEF RowsSoFar, InHand
  <2>4. ASSUME NEW s \in pending, ScriptId(s) = ScriptId(m.of),
               hand' = [for |-> s, report |-> m], hand' # NoRow
        PROVE  Goal
    <3>1. s \in Submissions /\ m.of \in Submissions
      BY <1>t, <2>1 DEF TypeOK, Popped, Reports
    <3>2. s.run = run /\ m.of.run = run
      BY <1>o, <2>2 DEF Now, Ledger, SentSoFar
    <3>3. s = m.of
      BY <2>4, <3>1, <3>2 DEF ScriptId, Submissions
    <3>4. RowsSoFar' = completed \cup {hand'} /\ OwnRow(hand')
      BY <2>2, <2>4, <3>3 DEF RowsSoFar, InHand, OwnRow
    <3> QED
      BY <1>o, <2>2, <3>4
  <2> QED
    BY <2>1, <2>3, <2>4 DEF Popped
<1>5. CASE AppendRow
  <2>1. /\ reader = "append" /\ completed' = completed \cup {hand} /\ hand' = NoRow
        /\ UNCHANGED <<run, registered, inbox, batch>>
    BY <1>5 DEF AppendRow, main
  <2>2. RowsSoFar' = RowsSoFar
    BY <1>t, <2>1 DEF RowsSoFar, InHand, Handling
  <2> QED
    BY <1>1, <2>1, <2>2
<1>6. CASE Subscribe \/ Poll \/ ReaderEnds \/ UNCHANGED vars
  BY <1>1, <1>6 DEF Subscribe, Poll, ReaderEnds, vars, main, collector, RowsSoFar, InHand
<1>7. ASSUME NEW m \in Reports, Report(m)
      PROVE  Goal
  <2>1. /\ UNCHANGED <<run, registered, earlier, batch, completed, hand>>
        /\ inbox' \subseteq inbox \cup {m}
        /\ m \notin reports /\ reports' = reports \cup {m} /\ m.of \in topic
    BY <1>7 DEF Report, main
  <2>2. RowsSoFar' = RowsSoFar
    BY <2>1 DEF RowsSoFar, InHand
  <2>3. m.of.run = run
    <3>1. m.copy = 1
      BY <2>1 DEF Undisturbed, Repeats, Reports
    <3>2. m = First(m.of)
      BY <3>1 DEF First, Reports
    <3>o. m.of \notin Old
      BY <1>t, <2>1, <3>2 DEF Undisturbed, NothingEarlier, TypeOK
    <3>3. m.of \in registered /\ m.of.run <= run /\ m.of.run \in Nat
      BY <1>t, <2>1, <3>o DEF TypeOK, Now, Numbered, Submissions
    <3>4. ~(m.of.run < run)
      BY <1>o, <2>1, <3>2, <3>3 DEF Own
    <3> QED
      BY <1>t, <3>3, <3>4
  <2> QED
    BY <1>o, <2>1, <2>2, <2>3
<1>8. CASE Aside \/ Leaves \/ FrameBuilt
  BY <1>1, <1>8, AsideFrame, LeavesFrame DEF FrameBuilt, collector, RowsSoFar, InHand
<1> QED
  BY <1>2, <1>3, <1>4, <1>5, <1>6, <1>7, <1>8, NextSteps DEF Steps

-----------------------------------------------------------------------------
(* The tables.                                                               *)

LEMMA TablesKept ==
    [Next]_vars => \/ UNCHANGED frames /\ (UNCHANGED registered \/ Register)
                   \/ FrameBuilt
BY NextSteps, AsideFrame, LeavesFrame, ReaderFrame DEF Steps, ReaderStep, StartCollector, Report,
   main, vars, Register

LEMMA CompleteStep == Now /\ CompleteFrame /\ [Next]_vars => CompleteFrame'
<1> SUFFICES ASSUME Now, CompleteFrame, [Next]_vars
             PROVE  CompleteFrame'
  OBVIOUS
<1>t. Handling /\ TypeOK /\ frames \in Seq(Frames)
  BY DEF Now, Types
<1>1. CASE UNCHANGED <<frames, registered>>
  BY <1>1 DEF CompleteFrame
<1>2. CASE Register /\ UNCHANGED frames
  <2>1. PICK s \in Submissions : s.run = run /\ registered' = registered \cup {s}
    BY <1>2, Registered DEF Now
  <2>2. DOMAIN frames = 1..Len(frames) /\ Len(frames) \in Nat /\ Len(frames) + 1 = run
    BY <1>2, <1>t DEF Register, Go, Now, Course
  <2>3. ASSUME NEW n \in DOMAIN frames
        PROVE  {q \in registered' : q.run = n} = {q \in registered : q.run = n}
    BY <2>1, <2>2
  <2> QED
    BY <1>2, <2>3 DEF CompleteFrame
<1>3. CASE FrameBuilt
  <2>1. /\ UNCHANGED <<run, registered>>
        /\ DOMAIN frames' = DOMAIN frames \cup {run}
        /\ \A i \in DOMAIN frames : frames'[i] = frames[i]
        /\ frames'[run] = [rows |-> completed, wait |-> wait, join |-> joined]
    BY <1>3, FrameAdded DEF Now
  <2>2. ASSUME wait = "drained", joined = "returned"
        PROVE  {r.for : r \in completed} = {s \in registered : s.run = run}
    <3>1. pending = {} /\ hand = NoRow
      BY <1>3, <1>t, <2>2 DEF FrameBuilt, Go, Now, Course, ReaderGone, Handling
    <3>2. RowsSoFar = completed
      BY <3>1, RowsByHand
    <3> QED
      BY <3>1, <3>2 DEF Now, Ledger, SentSoFar
  <2>3. ASSUME NEW n \in DOMAIN frames', frames'[n].wait = "drained", frames'[n].join = "returned"
        PROVE  {r.for : r \in frames'[n].rows} = {s \in registered' : s.run = n}
    <3>1. CASE n \in DOMAIN frames
      <4>1. frames'[n] = frames[n]
        BY <2>1, <3>1
      <4> QED
        BY <2>1, <2>3, <3>1, <4>1 DEF CompleteFrame
    <3>2. CASE n = run
      BY <2>1, <2>2, <2>3, <3>2
    <3> QED
      BY <2>1, <3>1, <3>2
  <2> QED
    BY <2>3 DEF CompleteFrame
<1> QED
  BY <1>1, <1>2, <1>3, TablesKept

LEMMA OwnTablesStep == Now /\ Own /\ OwnReportsOnceDrained /\ [Next]_vars => OwnReportsOnceDrained'
<1> SUFFICES ASSUME Now, Own, OwnReportsOnceDrained, [Next]_vars
             PROVE  OwnReportsOnceDrained'
  OBVIOUS
<1>1. (Repeats' = {} => Repeats = {}) /\ (NothingEarlier' => NothingEarlier)
  BY UndisturbedBefore
<1>2. CASE UNCHANGED frames
  BY <1>1, <1>2 DEF OwnReportsOnceDrained
<1>3. CASE FrameBuilt
  <2>1. /\ DOMAIN frames' = DOMAIN frames \cup {run} /\ DOMAIN frames = 1..(run - 1)
        /\ \A i \in DOMAIN frames : frames'[i] = frames[i]
        /\ frames'[run] = [rows |-> completed, wait |-> wait, join |-> joined]
        /\ run \in Nat
    BY <1>3, FrameAdded DEF Now, Types, TypeOK
  <2>2. ASSUME NEW n \in DOMAIN frames', \A k \in 1..(n - 1) : frames'[k].wait = "drained",
               Repeats' = {}, NothingEarlier'
        PROVE  \A r \in frames'[n].rows : OwnRow(r)
    <3>1. \A k \in 1..(n - 1) : frames[k].wait = "drained"
      BY <2>1, <2>2
    <3>2. CASE n \in DOMAIN frames
      BY <1>1, <2>1, <2>2, <3>1, <3>2 DEF OwnReportsOnceDrained
    <3>3. CASE n = run
      <4>1. \A r \in RowsSoFar : OwnRow(r)
        BY <1>1, <2>2, <3>1, <3>3 DEF Own, Undisturbed
      <4> QED
        BY <2>1, <3>3, <4>1 DEF RowsSoFar
    <3> QED
      BY <2>1, <3>2, <3>3
  <2> QED
    BY <2>2 DEF OwnReportsOnceDrained
<1> QED
  BY <1>2, <1>3, TablesKept

LEMMA RunnersStep == Now /\ NoRunnerLeft /\ [Next]_vars => NoRunnerLeft'
<1> SUFFICES ASSUME Now, NoRunnerLeft, Steps
             PROVE  NoRunnerLeft'
  BY NextSteps
<1> USE DEF NoRunnerLeft
<1>1. CASE Leaves
  <2>1. CASE StopRunners
    BY <2>1 DEF StopRunners
  <2>2. CASE StopCutOff
    BY <2>2 DEF StopCutOff
  <2> QED
    BY <1>1, <2>1, <2>2 DEF Leaves
<1>2. CASE StartCutOff
  BY <1>2 DEF StartCutOff
<1>3. CASE \/ Aside /\ ~StartCutOff
           \/ StartCollector \/ Register \/ FrameBuilt
  <2>1. harness' \notin {"finished", "crashed"}
    BY <1>3 DEF Aside, StartRunner, Enter, Send, SendRaises, Breaks, LoadEnds, Flushed,
       WaitDrained, WaitTimesOut, WaitEnds, JoinReturns, JoinTimesOut, Joins, Go, Raised,
       StartCollector, Register, FrameBuilt
  <2> QED
    BY <2>1
<1>4. CASE UNCHANGED main
  BY <1>4 DEF main, containers
<1> QED
  BY <1>1, <1>2, <1>3, <1>4, ReaderFrame DEF Steps, ReaderStep, Report, vars

-----------------------------------------------------------------------------
(* The theorems.                                                             *)

LEMMA InitInv == Init => IndInv
<1> SUFFICES ASSUME Init
             PROVE  IndInv
  OBVIOUS
<1>1. RowsSoFar = {} /\ InHand = {} /\ SentSoFar = {}
  BY DEF Init, RowsSoFar, InHand, SentSoFar
<1>2. Types
  <2>1. Old \subseteq Submissions
    BY DEF Old
  <2>2. \A s \in Old : First(s) \in Reports
    BY <2>1 DEF First, Reports
  <2>3. earlier \in [runs : 0..NumRuns, reports : SUBSET reports] /\ reports \subseteq Reports
    BY <2>2, BenchmarkAssumption DEF Init
  <2> QED
    BY <2>3, BenchmarkAssumption DEF Init, Types, TypeOK
<1>3. Course
  BY DEF Init, Course
<1>4. Numbered
  BY <1>1, FS_EmptySet DEF Init, Numbered
<1>5. Handling /\ Ledger /\ Own
  BY <1>1, BenchmarkAssumption DEF Init, Handling, Ledger, Own
<1>6. CompleteFrame /\ OwnReportsOnceDrained /\ NoRunnerLeft
  BY DEF Init, CompleteFrame, OwnReportsOnceDrained, NoRunnerLeft
<1> QED
  BY <1>2, <1>3, <1>4, <1>5, <1>6 DEF IndInv

LEMMA NextInv == IndInv /\ [Next]_vars => IndInv'
BY TypesStep, CourseStep, NumberedStep, HandlingStep, LedgerStep, OwnStep, CompleteStep,
   OwnTablesStep, RunnersStep DEF IndInv, Now

\* The invariant that ties the tables to the two threads holds throughout.
THEOREM LedgerInvariant == Spec => []IndInv
BY InitInv, NextInv, PTL DEF Spec

\* Every submission of a run is in one place at every moment, for any number of
\* runs, submissions and repeated reports.
THEOREM LedgerKept == Spec => []Ledger
<1>1. IndInv => Ledger
  BY DEF IndInv
<1> QED
  BY <1>1, LedgerInvariant, PTL

\* A table built after a wait without a timeout and a join that returned has a
\* row for every submission of its run.
THEOREM TablesComplete == Spec => []CompleteFrame
<1>1. IndInv => CompleteFrame
  BY DEF IndInv
<1> QED
  BY <1>1, LedgerInvariant, PTL

\* Runs that were waited out leave nothing to the tables of the next ones, when
\* nothing of an earlier case or invocation goes on.
THEOREM TablesOwn == Spec => []OwnReportsOnceDrained
<1>1. IndInv => OwnReportsOnceDrained
  BY DEF IndInv
<1> QED
  BY <1>1, LedgerInvariant, PTL

\* From whatever step of the runs a case is left, the containers that stay are
\* those Docker would not remove, for any number of replicas; a start or a stop
\* that is itself cut off is excepted.
THEOREM RunnersStopped == Spec => []NoRunnerLeft
<1>1. IndInv => NoRunnerLeft
  BY DEF IndInv
<1> QED
  BY <1>1, LedgerInvariant, PTL

-----------------------------------------------------------------------------
(* The collectors implement CollectorContract.                               *)

LEMMA InitContract == Init => Contract!ContractInit
BY DEF Init, Contract!ContractInit, RowsSoFar, InHand

\* The contract sees the table, the rows and what becomes of them.
LEMMA SameView ==
    UNCHANGED <<run, pending, completed, hand, frames>> => UNCHANGED Contract!contractVars
BY DEF Contract!contractVars, RowsSoFar, InHand

LEMMA StartIsBegin ==
    ASSUME IndInv, StartCollector
    PROVE  Contract!Begin
<1>1. Len(frames) = run /\ run' = run + 1 /\ UNCHANGED frames /\ pending' = {}
  BY DEF StartCollector, Go, IndInv, Course
<1>2. RowsSoFar' = {}
  BY DEF StartCollector, RowsSoFar, InHand
<1> QED
  BY <1>1, <1>2 DEF Contract!Begin

\* A submission is registered beside the others: its id is new to the table.
LEMMA RegisterIsPut ==
    ASSUME IndInv, Register
    PROVE  \E s \in Submissions : Contract!Put(s)
<1>1. PICK s \in Submissions :
        /\ s.run = run /\ s \notin registered /\ pending' = pending \cup {s}
        /\ \A p \in pending : ScriptId(p) # ScriptId(s)
  BY Registered DEF IndInv
<1>2. Len(frames) + 1 = run /\ UNCHANGED <<run, completed, hand, frames>>
  BY DEF Register, Go, IndInv, Course
<1>3. \A r \in RowsSoFar : r.for # s
  BY <1>1 DEF IndInv, Ledger, SentSoFar
<1>4. RowsSoFar' = RowsSoFar
  BY <1>2 DEF RowsSoFar, InHand
<1> QED
  BY <1>1, <1>2, <1>3, <1>4 DEF Contract!Put

\* The first locked section is where a report takes effect: its submission
\* leaves the table, and the row is the collector's though not yet in the list.
LEMMA PopCompletes ==
    ASSUME IndInv, Pop
    PROVE  \/ \E s \in pending, m \in Reports : Contract!Complete(s, m)
           \/ UNCHANGED Contract!contractVars
<1>1. PICK m \in batch : Popped(m)
  BY PopCases DEF IndInv, Types
<1>2. m \in Reports /\ UNCHANGED <<run, frames, completed>> /\ hand = NoRow
  BY <1>1 DEF Popped, main
<1>3. RowsSoFar = completed
  BY <1>2, RowsByHand
<1>4. CASE UNCHANGED <<pending, hand>>
  BY <1>2, <1>4, SameView
<1>5. ASSUME NEW s \in pending,
             ScriptId(s) = ScriptId(m.of), pending' = pending \ {s},
             hand' = [for |-> s, report |-> m], hand' # NoRow
      PROVE  Contract!Complete(s, m)
  <2>2. RowsSoFar' = RowsSoFar \cup {[for |-> s, report |-> m]}
    BY <1>2, <1>3, <1>5 DEF RowsSoFar, InHand
  <2>3. \A r \in RowsSoFar : r.report # m
    BY DEF IndInv, Handling
  <2> QED
    BY <1>2, <1>5, <2>2, <2>3 DEF Contract!Complete
<1> QED
  BY <1>1, <1>2, <1>4, <1>5 DEF Popped

\* The second locked section puts the row where the table is made from, which is
\* nothing new to the contract.
LEMMA AppendIsNothing ==
    ASSUME IndInv, AppendRow
    PROVE  UNCHANGED Contract!contractVars
<1>1. hand # NoRow /\ completed' = completed \cup {hand} /\ hand' = NoRow
  BY DEF AppendRow, IndInv, Handling
<1>2. RowsSoFar' = RowsSoFar
  BY <1>1 DEF RowsSoFar, InHand
<1> QED
  BY <1>2 DEF AppendRow, main, Contract!contractVars

\* A table has the rows of the list. The one in hand, if there is one, is
\* missing, and there is none once the thread has ended.
LEMMA TableIsClose ==
    ASSUME IndInv, FrameBuilt
    PROVE  \E kept \in SUBSET RowsSoFar, w \in {"drained", "timeout"},
              how \in {"returned", "timeout"} : Contract!Close(kept, w, how)
<1>1. /\ Len(frames) + 1 = run /\ UNCHANGED <<run, pending, completed, hand>>
      /\ wait = "drained" => pending = {}
  BY FrameAdded DEF IndInv, Course, collector
<1>2. frames' = Append(frames, [rows |-> completed, wait |-> wait, join |-> joined])
  BY DEF FrameBuilt
<1>3. RowsSoFar' = RowsSoFar
  BY <1>1 DEF RowsSoFar, InHand
<1>4. RowsSoFar \ completed \subseteq {hand}
  BY DEF RowsSoFar, InHand
<1>5. joined = "returned" => completed = RowsSoFar
  BY RowsByHand DEF IndInv, Course, Handling, ReaderGone, FrameBuilt, Go
<1>6. Contract!Close(completed, wait, joined)
  BY <1>1, <1>2, <1>3, <1>4, <1>5 DEF Contract!Close
<1>7. /\ wait \in {"drained", "timeout"} /\ joined \in {"returned", "timeout"}
      /\ completed \in SUBSET RowsSoFar
  BY DEF FrameBuilt, Go, IndInv, Types, TypeOK, Course, RowsSoFar
<1> QED
  BY <1>6, <1>7

LEMMA NextContract ==
    IndInv /\ [Next]_vars => [Contract!ContractNext]_Contract!contractVars
<1> SUFFICES ASSUME IndInv, Steps
             PROVE  Contract!ContractNext \/ UNCHANGED Contract!contractVars
  BY NextSteps
<1> USE DEF Contract!ContractNext
<1>1. CASE UNCHANGED vars \/ Aside \/ Leaves \/ Subscribe \/ Poll \/ ReaderEnds
  <2>1. UNCHANGED <<run, pending, completed, hand, frames>>
    BY <1>1, AsideFrame, LeavesFrame DEF vars, main, collector, Subscribe, Poll, ReaderEnds
  <2> QED
    BY <2>1, SameView
<1>2. CASE \E m \in Reports : Report(m)
  <2>1. UNCHANGED <<run, pending, completed, hand, frames>>
    BY <1>2 DEF Report, main
  <2> QED
    BY <2>1, SameView
<1>3. CASE StartCollector \/ Register
  BY <1>3, StartIsBegin, RegisterIsPut
<1>4. CASE Pop \/ AppendRow
  BY <1>4, PopCompletes, AppendIsNothing
<1>5. CASE FrameBuilt
  BY <1>5, TableIsClose
<1> QED
  BY <1>1, <1>2, <1>3, <1>4, <1>5 DEF Steps

\* Reports are handled as if under one lock, for any number of runs, submissions
\* and repeated reports, and whatever the main thread does between the two
\* sections in which the code handles them.
THEOREM CollectorsImplementContract == Spec => CompletesAtOnce
<1>1. Init => Contract!ContractInit
  BY InitContract
<1>2. IndInv /\ [Next]_vars => [Contract!ContractNext]_Contract!contractVars
  BY NextContract
<1> QED
  BY <1>1, <1>2, LedgerInvariant, PTL DEF Spec, CompletesAtOnce, Contract!ContractSpec
==============================================================================
