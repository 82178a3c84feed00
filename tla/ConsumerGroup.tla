---------------------------- MODULE ConsumerGroup ----------------------------
(* Several runners that share the scripts topic as one consumer group. The   *)
(* runner's side is the loop of ExecuteFromProducer with NextScript, whose   *)
(* reader commits a record before it returns it. The group's coordinator and *)
(* the reader's session with it are Kafka's and appear as what they may do   *)
(* to the runners: hand out partitions anew, expel a member that is slow,    *)
(* take or refuse a commit. Runners are started, stopped and killed at any   *)
(* time; a restarted one begins with nothing.                                *)
EXTENDS Integers, FiniteSets

CONSTANTS
    Runners,     \* the runner instances
    Partitions,  \* partitions of the scripts topic
    NumRecords,  \* records on each partition
    Logs,        \* what the records of the topic may be
    MaxParallel, \* places of a runner's semaphore
    MaxLaunches, \* bound: runner processes started
    MaxExpelled, \* bound: rebalances that expel a slow member
    NoRunner,    \* owner of a partition before the first assignment
    NoRecord     \* no record

Offsets == 1..NumRecords
Records == Partitions \X Offsets

\* A done record and one that does not decode both end a runner's loop.
Kinds == {"script", "stop"}

ASSUME GroupAssumption ==
    /\ NumRecords \in Nat /\ MaxParallel \in Nat \ {0}
    /\ MaxLaunches \in Nat /\ MaxExpelled \in Nat
    /\ Logs \subseteq [Records -> Kinds]
    /\ NoRunner \notin Runners /\ NoRecord \notin Records

VARIABLES
    kind,      \* what each record decodes to
    committed, \* the group's committed offsets
    members,   \* the members of the group's generation
    owner,     \* the assignment of the generation
    session,   \* a runner's session: none, joining, assigned or member
    position,  \* the last offset its reader handed over, by partition
    share,     \* the partitions its reader fetches from
    place,     \* where its loop is: off, poll, acquire or drain
    fetched,   \* the record of a ReadMessage that has not committed it yet
    carried,   \* whether it was fetched in an earlier generation
    inHand,    \* the script it waits to start
    running,   \* the scripts its goroutines run
    handed,    \* how often NextScript has taken a record
    finished,  \* the scripts whose goroutine came to its end
    consumed,  \* the records ever committed
    late,      \* records committed in a later generation than their fetch
    dropped,   \* what failing reads and killed processes held
    launches,  \* processes started
    expelled   \* rebalances that expelled a slow member

kafka == <<committed, members, owner>>
reader == <<session, position, share>>
loop == <<place, fetched, carried, inHand, running>>
history == <<handed, finished, consumed, late, dropped>>
budget == <<launches, expelled>>
vars == <<kind, kafka, reader, loop, history, budget>>

Part(m) == m[1]
Off(m) == m[2]

Up == {r \in Runners : place[r] # "off"}

Init ==
    /\ kind \in Logs
    /\ committed = [p \in Partitions |-> 0]
    /\ members = {} /\ owner = [p \in Partitions |-> NoRunner]
    /\ session = [r \in Runners |-> "none"]
    /\ position = [r \in Runners |-> committed] /\ share = [r \in Runners |-> {}]
    /\ place = [r \in Runners |-> "off"]
    /\ fetched = [r \in Runners |-> NoRecord] /\ carried = [r \in Runners |-> FALSE]
    /\ inHand = [r \in Runners |-> NoRecord] /\ running = [r \in Runners |-> {}]
    /\ handed = [m \in Records |-> 0] /\ finished = {}
    /\ consumed = {} /\ late = {} /\ dropped = {} /\ launches = 0 /\ expelled = 0

-----------------------------------------------------------------------------
(* The coordinator and the sessions (external).                              *)

\* Somebody waits to join, or a member is gone: members are told to rejoin.
Unsettled ==
    \/ \E r \in Runners : session[r] = "joining"
    \/ \E r \in members : session[r] = "none"

Expelled(r) == session[r] \in {"assigned", "member"} /\ r \notin members

\* The reader ends its generation: it fetches no more, keeps what it holds.
Rejoin(r) ==
    /\ session[r] \in {"assigned", "member"}
    /\ Unsettled \/ Expelled(r)
    /\ session' = [session EXCEPT ![r] = "joining"]
    /\ UNCHANGED <<kind, kafka, position, share, loop, history, budget>>

Joining == {r \in Runners : session[r] = "joining"}

\* The members that have neither rejoined nor gone.
Slow == {r \in members : session[r] \in {"assigned", "member"}}

\* The next generation, of those that asked for it; a slow member is expelled
\* after a while.
Rebalance ==
    /\ Joining # {}
    /\ \/ Slow = {} /\ UNCHANGED expelled
       \/ Slow # {} /\ expelled < MaxExpelled /\ expelled' = expelled + 1
    /\ members' = Joining
    /\ owner' \in [Partitions -> Joining]
    /\ session' = [r \in Runners |-> IF r \in Joining THEN "assigned" ELSE session[r]]
    /\ UNCHANGED <<kind, committed, position, share, loop, history, launches>>

\* The member learns its partitions and reads their committed offsets. What an
\* earlier generation had fetched is dropped, unless ReadMessage holds it.
Adopt(r) ==
    /\ session[r] = "assigned" /\ ~Expelled(r)
    /\ session' = [session EXCEPT ![r] = "member"]
    /\ share' = [share EXCEPT ![r] = {p \in Partitions : owner[p] = r}]
    /\ position' = [position EXCEPT ![r] = committed]
    /\ carried' = [carried EXCEPT ![r] = fetched[r] # NoRecord]
    /\ UNCHANGED <<kind, kafka, place, fetched, inHand, running, history, budget>>

\* A rebalance that is under way, or an expulsion, is heard of.
Settle(r) == Adopt(r) \/ Rejoin(r)

\* A commit is taken from a member of the current generation only. A request
\* made while the reader is between two generations is served in the next.
Heard(r) == session[r] = "member" /\ r \in members

-----------------------------------------------------------------------------
(* A runner process.                                                         *)

Launch(r) ==
    /\ place[r] = "off" /\ launches < MaxLaunches
    /\ place' = [place EXCEPT ![r] = "poll"]
    /\ session' = [session EXCEPT ![r] = "joining"]
    /\ launches' = launches + 1
    /\ UNCHANGED <<kind, kafka, position, share, fetched, carried, inHand, running,
                   history, expelled>>

\* What a reader holds of its generation, also while it is between two.
Within(m, r) ==
    /\ Part(m) \in share[r] /\ Off(m) = position[r][Part(m)] + 1

\* ReadMessage has a record and goes on to commit it.
Fetch(r, m) ==
    /\ place[r] = "poll" /\ fetched[r] = NoRecord /\ Within(m, r)
    /\ fetched' = [fetched EXCEPT ![r] = m]
    /\ position' = [position EXCEPT ![r][Part(m)] = Off(m)]
    /\ UNCHANGED <<kind, kafka, session, share, place, carried, inHand, running, history, budget>>

\* Mutant of CommitFetched: the reader is asked for a record, not for a commit.
CommitNothing(r) == UNCHANGED <<committed, consumed, late>>

CommitFetched(r) ==
    LET m == fetched[r] IN
    /\ committed' = [committed EXCEPT ![Part(m)] = Off(m)]
    /\ consumed' = consumed \cup {m}
    /\ late' = IF carried[r] THEN late \cup {m} ELSE late

\* The commit is acknowledged and NextScript decodes the record: a script is
\* taken in hand, any other record ends the loop.
ReadMessage(r) ==
    LET m == fetched[r] IN
    /\ m # NoRecord /\ Heard(r)
    /\ CommitFetched(r)
    /\ handed' = [handed EXCEPT ![m] = @ + 1]
    /\ fetched' = [fetched EXCEPT ![r] = NoRecord]
    /\ IF kind[m] = "script"
       THEN inHand' = [inHand EXCEPT ![r] = m] /\ place' = [place EXCEPT ![r] = "acquire"]
       ELSE place' = [place EXCEPT ![r] = "drain"] /\ UNCHANGED inHand
    /\ carried' = [carried EXCEPT ![r] = FALSE]
    /\ UNCHANGED <<kind, members, owner, reader, running, finished, dropped, budget>>

\* The commit is refused or not acknowledged, the read fails or the signal ends
\* it: the loop ends. A commit that was heard may have taken effect.
ReadFails(r) ==
    /\ place[r] = "poll"
    /\ \/ UNCHANGED <<committed, consumed, late>>
       \/ fetched[r] # NoRecord /\ Heard(r) /\ CommitFetched(r)
    /\ place' = [place EXCEPT ![r] = "drain"]
    /\ fetched' = [fetched EXCEPT ![r] = NoRecord]
    /\ carried' = [carried EXCEPT ![r] = FALSE]
    /\ dropped' = dropped \cup ({fetched[r]} \ {NoRecord})
    /\ UNCHANGED <<kind, members, owner, reader, inHand, running, handed, finished, budget>>

\* Mutant of SlotFree: one place too few.
SlotFreeShort(r) == Cardinality(running[r]) < MaxParallel - 1

SlotFree(r) == Cardinality(running[r]) < MaxParallel

Start(r) ==
    /\ place[r] = "acquire" /\ SlotFree(r)
    /\ running' = [running EXCEPT ![r] = @ \cup {inHand[r]}]
    /\ inHand' = [inHand EXCEPT ![r] = NoRecord]
    /\ place' = [place EXCEPT ![r] = "poll"]
    /\ UNCHANGED <<kind, kafka, reader, fetched, carried, history, budget>>

\* The goroutine of a script has run its suite and published the report, or
\* failed to.
Finish(r, m) ==
    /\ m \in running[r]
    /\ running' = [running EXCEPT ![r] = @ \ {m}]
    /\ finished' = finished \cup {m}
    /\ UNCHANGED <<kind, kafka, reader, place, fetched, carried, inHand,
                   handed, consumed, late, dropped, budget>>

Held(r) == running[r] \cup ({inHand[r], fetched[r]} \ {NoRecord})

\* The process ends: nothing of it is left, and the coordinator misses it.
Gone(r) ==
    /\ place' = [place EXCEPT ![r] = "off"]
    /\ session' = [session EXCEPT ![r] = "none"]
    /\ share' = [share EXCEPT ![r] = {}]
    /\ inHand' = [inHand EXCEPT ![r] = NoRecord]
    /\ fetched' = [fetched EXCEPT ![r] = NoRecord]
    /\ carried' = [carried EXCEPT ![r] = FALSE]
    /\ running' = [running EXCEPT ![r] = {}]
    /\ position' = [position EXCEPT ![r] = [p \in Partitions |-> 0]]
    /\ UNCHANGED <<kind, members, owner, handed, finished, budget>>

\* Mutant of Drained: the wait group is not waited for.
NothingAwaited(r) == place[r] = "drain"

\* The wait group lets main return.
Drained(r) == place[r] = "drain" /\ running[r] = {}

Exit(r) ==
    /\ Drained(r)
    /\ Gone(r)
    /\ UNCHANGED <<committed, consumed, late, dropped>>

Crash(r) ==
    /\ place[r] # "off"
    /\ \/ UNCHANGED <<committed, consumed, late>>
       \/ fetched[r] # NoRecord /\ Heard(r) /\ CommitFetched(r)
    /\ dropped' = dropped \cup Held(r)
    /\ Gone(r)

-----------------------------------------------------------------------------
LoopStep(r) == ReadMessage(r) \/ Start(r) \/ Exit(r) \/ \E m \in Records : Fetch(r, m)

SuiteEnds(r) == \E m \in Records : Finish(r, m)

RunnerStep(r) ==
    \/ LoopStep(r) \/ ReadFails(r) \/ Crash(r) \/ Launch(r)
    \/ SuiteEnds(r)

GroupStep == Rebalance \/ \E r \in Runners : Settle(r)

\* Nobody is up and nobody will be.
Over == Up = {} /\ launches = MaxLaunches /\ UNCHANGED vars

Next == GroupStep \/ (\E r \in Runners : RunnerStep(r)) \/ Over

Spec == Init /\ [][Next]_vars

\* The runners' loops are scheduled and their suites end, which is what module
\* ContainerRun shows of limited scripts; the coordinator completes a rebalance
\* and hears of dead and of expelled members.
LiveSpec ==
    /\ Spec
    /\ \A r \in Runners : WF_vars(LoopStep(r)) /\ WF_vars(Settle(r)) /\ WF_vars(SuiteEnds(r))
    /\ WF_vars(Rebalance)

-----------------------------------------------------------------------------
(* Properties.                                                               *)

Scripts == {m \in Records : kind[m] = "script"}

InHand == {inHand[r] : r \in Runners}
Running == UNION {running[r] : r \in Runners}

\* A record is handed to a second runner, or to a runner a second time, only if
\* on its partition a commit was made late: of a record that a reader fetched in
\* one generation of the group and committed in another, when the record's
\* partition may already be somebody else's (consumer.go:75). The members of a
\* group that does not rebalance meanwhile run no script twice, and a done or an
\* invalid record stops one of them only.
HandedOnce ==
    \A m \in Records : handed[m] > 1 =>
        \E l \in late : Part(l) = Part(m) /\ Off(l) <= Off(m)

\* The records whose turn is over: their offsets are behind a committed one.
PassedOver == {m \in Records : Off(m) <= committed[Part(m)]}

\* A script that the group has consumed, or that its committed offsets have left
\* behind, is in the hands of a runner, has come to its end, or was held by a
\* runner when it was killed or by a read when it failed. Rebalances, expelled
\* members, offsets that go back or forth and restarts lose nothing, and no
\* commit skips a record that nobody has read (consumer.go:75).
LossExplained ==
    Scripts \cap (consumed \cup PassedOver)
        \subseteq InHand \cup Running \cup finished \cup dropped

\* As long as a runner is up again and again, every record is consumed: a done
\* or an invalid record, a dead, a draining or an expelled member holds up its
\* partition for a while only (service.go:51, messages.go:77).
EverythingConsumed ==
    \A m \in Records : []<>(Up # {}) => <>(m \in consumed)
==============================================================================
