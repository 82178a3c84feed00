------------------------- MODULE ConsumerGroupProofs -------------------------
(* What the consumer group promises, for any number of runners, partitions,  *)
(* records and rebalances. The argument for HandedOnce: of two members of a  *)
(* generation no two own a partition, so until a commit is made late the     *)
(* commits on a partition only grow, and a member's reader is always past    *)
(* what has been handed out. The argument for LossExplained: whatever offset *)
(* a reader begins at, and whichever generation it commits in, all that lies *)
(* before the record that it holds has been consumed.                        *)
EXTENDS ConsumerGroup, TLAPS

TypeOK ==
    /\ kind \in [Records -> Kinds]
    /\ committed \in [Partitions -> Nat]
    /\ session \in [Runners -> {"none", "joining", "assigned", "member"}]
    /\ position \in [Runners -> [Partitions -> Nat]]
    /\ share \in [Runners -> SUBSET Partitions]
    /\ place \in [Runners -> {"off", "poll", "acquire", "drain"}]
    /\ fetched \in [Runners -> Records \cup {NoRecord}]
    /\ carried \in [Runners -> BOOLEAN]
    /\ inHand \in [Runners -> Records \cup {NoRecord}]
    /\ running \in [Runners -> SUBSET Records]
    /\ handed \in [Records -> Nat]
    /\ late \subseteq Records

\* What a loop holds, by its place.
HoldsByPlace ==
    \A r \in Runners :
        /\ fetched[r] # NoRecord => place[r] = "poll"
        /\ inHand[r] # NoRecord <=> place[r] = "acquire"
        /\ carried[r] => fetched[r] # NoRecord

\* A member that the coordinator hears has no partition of another's.
OwnShares ==
    \A r \in Runners : Heard(r) => \A p \in share[r] : owner[p] = r

\* What was fetched in the reader's own generation is the last of its partition.
LastFetched ==
    \A r \in Runners : fetched[r] # NoRecord /\ ~carried[r] =>
        /\ Part(fetched[r]) \in share[r]
        /\ position[r][Part(fetched[r])] = Off(fetched[r])

\* No late commit reaches back to the record.
Clean(m) == \A l \in late : Part(l) = Part(m) => Off(m) < Off(l)

\* A record that was handed out is behind the committed offset ...
Behind ==
    \A m \in Records : Clean(m) =>
        /\ handed[m] \in {0, 1}
        /\ handed[m] = 1 => Off(m) <= committed[Part(m)]

\* ... and behind every reader that may hand out its partition's records.
Past(r, m) ==
    /\ Off(m) <= position[r][Part(m)]
    /\ (fetched[r] # NoRecord /\ ~carried[r] /\ Part(fetched[r]) = Part(m)) =>
         Off(m) < Off(fetched[r])

ReadersPast ==
    \A r \in Runners, m \in Records :
        (Heard(r) /\ Part(m) \in share[r] /\ Clean(m) /\ handed[m] = 1) => Past(r, m)

IndInv ==
    /\ TypeOK /\ HoldsByPlace /\ OwnShares /\ LastFetched /\ Behind /\ ReadersPast
-----------------------------------------------------------------------------
LEMMA RecordFacts ==
    /\ NoRecord \notin Records
    /\ \A m \in Records : Part(m) \in Partitions /\ Off(m) \in Nat \ {0}
    /\ \A l, m \in Records : Part(l) = Part(m) /\ Off(l) = Off(m) => l = m
BY GroupAssumption DEF Records, Part, Off, Offsets

\* A commit that may be taken leaves what was handed out behind the committed
\* offset, as far as it is clean afterwards.
LEMMA CommitKeeps ==
    ASSUME IndInv, NEW r \in Runners,
           \/ UNCHANGED <<committed, consumed, late>>
           \/ fetched[r] # NoRecord /\ Heard(r) /\ CommitFetched(r)
    PROVE  /\ committed' \in [Partitions -> Nat]
           /\ late' \subseteq Records
           /\ \A m \in Records : Clean(m)' =>
                 Clean(m) /\ (handed[m] = 1 => Off(m) <= committed'[Part(m)])
<1>1. CASE UNCHANGED <<committed, consumed, late>>
  BY <1>1 DEF IndInv, TypeOK, Behind, Clean
<1>2. CASE fetched[r] # NoRecord /\ Heard(r) /\ CommitFetched(r)
  <2> DEFINE f == fetched[r]
  <2>1. f \in Records /\ Part(f) \in Partitions /\ Off(f) \in Nat
    BY <1>2, RecordFacts DEF IndInv, TypeOK
  <2>2. committed' = [committed EXCEPT ![Part(f)] = Off(f)]
    BY <1>2 DEF CommitFetched
  <2>3. late \subseteq late' /\ late' \subseteq Records /\ (carried[r] => f \in late')
    BY <1>2, <2>1 DEF CommitFetched, IndInv, TypeOK
  <2>4. committed' \in [Partitions -> Nat]
    BY <2>1, <2>2 DEF IndInv, TypeOK
  <2>5. ASSUME NEW m \in Records, Clean(m)'
        PROVE  Clean(m) /\ (handed[m] = 1 => Off(m) <= committed'[Part(m)])
    <3>1. Clean(m)
      BY <2>3, <2>5 DEF Clean
    <3>2. Part(m) \in Partitions /\ Off(m) \in Nat
      BY RecordFacts
    <3>3. CASE Part(m) # Part(f)
      BY <2>1, <2>2, <3>1, <3>2, <3>3 DEF IndInv, TypeOK, Behind
    <3>4. CASE Part(m) = Part(f)
      <4>1. committed'[Part(m)] = Off(f)
        BY <2>1, <2>2, <3>4 DEF IndInv, TypeOK
      <4>2. CASE carried[r]
        <5>1. Off(m) < Off(f)
          BY <2>3, <2>5, <3>4, <4>2 DEF Clean
        <5> QED
          BY <2>1, <3>1, <3>2, <4>1, <5>1
      <4>3. CASE ~carried[r]
        <5>1. Part(f) \in share[r]
          BY <1>2, <4>3 DEF IndInv, LastFetched
        <5>2. handed[m] = 1 => Past(r, m)
          BY <1>2, <3>1, <3>4, <5>1 DEF IndInv, ReadersPast
        <5>3. handed[m] = 1 => Off(m) < Off(f)
          BY <1>2, <3>4, <4>3, <5>2 DEF Past
        <5> QED
          BY <2>1, <3>1, <3>2, <4>1, <5>3
      <4> QED
        BY <4>2, <4>3
    <3> QED
      BY <3>3, <3>4
  <2> QED
    BY <2>3, <2>4, <2>5
<1> QED
  BY <1>1, <1>2

LEMMA TypeStep == IndInv /\ [Next]_vars => TypeOK'
<1> SUFFICES ASSUME IndInv, [Next]_vars
             PROVE  TypeOK'
  OBVIOUS
<1> USE DEF IndInv
<1>1. ASSUME Rebalance
      PROVE  TypeOK'
  BY <1>1, RecordFacts DEF Rebalance, TypeOK, kafka, reader, loop, history, budget
<1>2. ASSUME NEW r \in Runners, Adopt(r)
      PROVE  TypeOK'
  BY <1>2, RecordFacts DEF Adopt, TypeOK, kafka, reader, loop, history, budget
<1>3. ASSUME NEW r \in Runners, Rejoin(r)
      PROVE  TypeOK'
  BY <1>3, RecordFacts DEF Rejoin, TypeOK, kafka, reader, loop, history, budget
<1>4. ASSUME NEW r \in Runners, ReadMessage(r)
      PROVE  TypeOK'
  <2>1. committed' \in [Partitions -> Nat] /\ late' \subseteq Records
    BY <1>4, CommitKeeps DEF ReadMessage
  <2>2. fetched[r] \in Records
    BY <1>4 DEF ReadMessage, TypeOK
  <2>3. handed' \in [Records -> Nat]
    BY <1>4, <2>2 DEF ReadMessage, TypeOK
  <2> QED
    BY <1>4, <2>1, <2>2, <2>3 DEF ReadMessage, TypeOK, reader, budget
<1>5. ASSUME NEW r \in Runners, Start(r)
      PROVE  TypeOK'
  BY <1>5, RecordFacts DEF Start, TypeOK, HoldsByPlace, kafka, reader, loop, history, budget
<1>6. ASSUME NEW r \in Runners, Exit(r)
      PROVE  TypeOK'
  BY <1>6, RecordFacts DEF Exit, Gone, TypeOK, kafka, reader, loop, history, budget
<1>7. ASSUME NEW r \in Runners, NEW m \in Records, Fetch(r, m)
      PROVE  TypeOK'
  BY <1>7, RecordFacts DEF Fetch, Within, TypeOK, kafka, reader, loop, history, budget
<1>8. ASSUME NEW r \in Runners, NEW m \in Records, Finish(r, m)
      PROVE  TypeOK'
  BY <1>8, RecordFacts DEF Finish, TypeOK, kafka, reader, loop, history, budget
<1>9. ASSUME NEW r \in Runners, ReadFails(r)
      PROVE  TypeOK'
  BY <1>9, RecordFacts, CommitKeeps DEF ReadFails, TypeOK, kafka, reader, loop, history, budget
<1>10. ASSUME NEW r \in Runners, Crash(r)
      PROVE  TypeOK'
  BY <1>10, RecordFacts, CommitKeeps DEF Crash, Gone, TypeOK, kafka, reader, loop, history, budget
<1>11. ASSUME NEW r \in Runners, Launch(r)
      PROVE  TypeOK'
  BY <1>11, RecordFacts DEF Launch, TypeOK, kafka, reader, loop, history, budget
<1>12. CASE UNCHANGED vars
  BY <1>12 DEF TypeOK, vars, kafka, reader, loop, history, budget
<1> QED
  BY <1>1, <1>2, <1>3, <1>4, <1>5, <1>6, <1>7, <1>8, <1>9, <1>10, <1>11, <1>12
     DEF Next, GroupStep, RunnerStep, LoopStep, SuiteEnds, Settle, Over

LEMMA HoldsStep == IndInv /\ [Next]_vars => HoldsByPlace'
<1> SUFFICES ASSUME IndInv, [Next]_vars
             PROVE  HoldsByPlace'
  OBVIOUS
<1> USE DEF IndInv
<1>1. ASSUME Rebalance
      PROVE  HoldsByPlace'
  BY <1>1 DEF Rebalance, HoldsByPlace, TypeOK, kafka, reader, loop, history, budget
<1>2. ASSUME NEW r \in Runners, Adopt(r)
      PROVE  HoldsByPlace'
  BY <1>2 DEF Adopt, HoldsByPlace, TypeOK, kafka, reader, loop, history, budget
<1>3. ASSUME NEW r \in Runners, Rejoin(r)
      PROVE  HoldsByPlace'
  BY <1>3 DEF Rejoin, HoldsByPlace, TypeOK, kafka, reader, loop, history, budget
<1>4. ASSUME NEW r \in Runners, ReadMessage(r)
      PROVE  HoldsByPlace'
  BY <1>4 DEF ReadMessage, HoldsByPlace, TypeOK, kafka, reader, loop, history, budget
<1>5. ASSUME NEW r \in Runners, Start(r)
      PROVE  HoldsByPlace'
  BY <1>5 DEF Start, HoldsByPlace, TypeOK, kafka, reader, loop, history, budget
<1>6. ASSUME NEW r \in Runners, Exit(r)
      PROVE  HoldsByPlace'
  BY <1>6 DEF Exit, Gone, HoldsByPlace, TypeOK, kafka, reader, loop, history, budget
<1>7. ASSUME NEW r \in Runners, NEW m \in Records, Fetch(r, m)
      PROVE  HoldsByPlace'
  BY <1>7 DEF Fetch, Within, HoldsByPlace, TypeOK, kafka, reader, loop, history, budget
<1>8. ASSUME NEW r \in Runners, NEW m \in Records, Finish(r, m)
      PROVE  HoldsByPlace'
  BY <1>8 DEF Finish, HoldsByPlace, TypeOK, kafka, reader, loop, history, budget
<1>9. ASSUME NEW r \in Runners, ReadFails(r)
      PROVE  HoldsByPlace'
  BY <1>9 DEF ReadFails, HoldsByPlace, TypeOK, kafka, reader, loop, history, budget
<1>10. ASSUME NEW r \in Runners, Crash(r)
      PROVE  HoldsByPlace'
  BY <1>10 DEF Crash, Gone, HoldsByPlace, TypeOK, kafka, reader, loop, history, budget
<1>11. ASSUME NEW r \in Runners, Launch(r)
      PROVE  HoldsByPlace'
  BY <1>11 DEF Launch, HoldsByPlace, TypeOK, kafka, reader, loop, history, budget
<1>12. CASE UNCHANGED vars
  BY <1>12 DEF HoldsByPlace, TypeOK, vars, kafka, reader, loop, history, budget
<1> QED
  BY <1>1, <1>2, <1>3, <1>4, <1>5, <1>6, <1>7, <1>8, <1>9, <1>10, <1>11, <1>12
     DEF Next, GroupStep, RunnerStep, LoopStep, SuiteEnds, Settle, Over

LEMMA SharesStep == IndInv /\ [Next]_vars => OwnShares'
<1> SUFFICES ASSUME IndInv, [Next]_vars
             PROVE  OwnShares'
  OBVIOUS
<1> USE DEF IndInv
<1>1. ASSUME Rebalance
      PROVE  OwnShares'
  BY <1>1 DEF Rebalance, OwnShares, TypeOK, Heard, kafka, reader, loop, history, budget
<1>2. ASSUME NEW r \in Runners, Adopt(r)
      PROVE  OwnShares'
  BY <1>2 DEF Adopt, OwnShares, TypeOK, Heard, kafka, reader, loop, history, budget
<1>3. ASSUME NEW r \in Runners, Rejoin(r)
      PROVE  OwnShares'
  BY <1>3 DEF Rejoin, OwnShares, TypeOK, Heard, kafka, reader, loop, history, budget
<1>4. ASSUME NEW r \in Runners, ReadMessage(r)
      PROVE  OwnShares'
  BY <1>4 DEF ReadMessage, OwnShares, TypeOK, Heard, kafka, reader, loop, history, budget
<1>5. ASSUME NEW r \in Runners, Start(r)
      PROVE  OwnShares'
  BY <1>5 DEF Start, OwnShares, TypeOK, Heard, kafka, reader, loop, history, budget
<1>6. ASSUME NEW r \in Runners, Exit(r)
      PROVE  OwnShares'
  BY <1>6 DEF Exit, Gone, OwnShares, TypeOK, Heard, kafka, reader, loop, history, budget
<1>7. ASSUME NEW r \in Runners, NEW m \in Records, Fetch(r, m)
      PROVE  OwnShares'
  BY <1>7 DEF Fetch, Within, OwnShares, TypeOK, Heard, kafka, reader, loop, history, budget
<1>8. ASSUME NEW r \in Runners, NEW m \in Records, Finish(r, m)
      PROVE  OwnShares'
  BY <1>8 DEF Finish, OwnShares, TypeOK, Heard, kafka, reader, loop, history, budget
<1>9. ASSUME NEW r \in Runners, ReadFails(r)
      PROVE  OwnShares'
  BY <1>9 DEF ReadFails, OwnShares, TypeOK, Heard, kafka, reader, loop, history, budget
<1>10. ASSUME NEW r \in Runners, Crash(r)
      PROVE  OwnShares'
  BY <1>10 DEF Crash, Gone, OwnShares, TypeOK, Heard, kafka, reader, loop, history, budget
<1>11. ASSUME NEW r \in Runners, Launch(r)
      PROVE  OwnShares'
  BY <1>11 DEF Launch, OwnShares, TypeOK, Heard, kafka, reader, loop, history, budget
<1>12. CASE UNCHANGED vars
  BY <1>12 DEF OwnShares, TypeOK, Heard, vars, kafka, reader, loop, history, budget
<1> QED
  BY <1>1, <1>2, <1>3, <1>4, <1>5, <1>6, <1>7, <1>8, <1>9, <1>10, <1>11, <1>12
     DEF Next, GroupStep, RunnerStep, LoopStep, SuiteEnds, Settle, Over

LEMMA LastFetchedStep == IndInv /\ [Next]_vars => LastFetched'
<1> SUFFICES ASSUME IndInv, [Next]_vars
             PROVE  LastFetched'
  OBVIOUS
<1> USE DEF IndInv
<1>1. ASSUME Rebalance
      PROVE  LastFetched'
  BY <1>1, RecordFacts DEF Rebalance, LastFetched, TypeOK, HoldsByPlace, kafka, reader, loop, history, budget
<1>2. ASSUME NEW r \in Runners, Adopt(r)
      PROVE  LastFetched'
  BY <1>2, RecordFacts DEF Adopt, LastFetched, TypeOK, HoldsByPlace, kafka, reader, loop, history, budget
<1>3. ASSUME NEW r \in Runners, Rejoin(r)
      PROVE  LastFetched'
  BY <1>3, RecordFacts DEF Rejoin, LastFetched, TypeOK, HoldsByPlace, kafka, reader, loop, history, budget
<1>4. ASSUME NEW r \in Runners, ReadMessage(r)
      PROVE  LastFetched'
  BY <1>4, RecordFacts DEF ReadMessage, LastFetched, TypeOK, HoldsByPlace, kafka, reader, loop, history, budget
<1>5. ASSUME NEW r \in Runners, Start(r)
      PROVE  LastFetched'
  BY <1>5, RecordFacts DEF Start, LastFetched, TypeOK, HoldsByPlace, kafka, reader, loop, history, budget
<1>6. ASSUME NEW r \in Runners, Exit(r)
      PROVE  LastFetched'
  BY <1>6, RecordFacts DEF Exit, Gone, LastFetched, TypeOK, HoldsByPlace, kafka, reader, loop, history, budget
<1>7. ASSUME NEW r \in Runners, NEW m \in Records, Fetch(r, m)
      PROVE  LastFetched'
  BY <1>7, RecordFacts DEF Fetch, Within, LastFetched, TypeOK, HoldsByPlace, kafka, reader, loop, history, budget
<1>8. ASSUME NEW r \in Runners, NEW m \in Records, Finish(r, m)
      PROVE  LastFetched'
  BY <1>8, RecordFacts DEF Finish, LastFetched, TypeOK, HoldsByPlace, kafka, reader, loop, history, budget
<1>9. ASSUME NEW r \in Runners, ReadFails(r)
      PROVE  LastFetched'
  BY <1>9, RecordFacts DEF ReadFails, LastFetched, TypeOK, HoldsByPlace, kafka, reader, loop, history, budget
<1>10. ASSUME NEW r \in Runners, Crash(r)
      PROVE  LastFetched'
  BY <1>10, RecordFacts DEF Crash, Gone, LastFetched, TypeOK, HoldsByPlace, kafka, reader, loop, history, budget
<1>11. ASSUME NEW r \in Runners, Launch(r)
      PROVE  LastFetched'
  BY <1>11, RecordFacts DEF Launch, LastFetched, TypeOK, HoldsByPlace, kafka, reader, loop, history, budget
<1>12. CASE UNCHANGED vars
  BY <1>12 DEF LastFetched, TypeOK, HoldsByPlace, vars, kafka, reader, loop, history, budget
<1> QED
  BY <1>1, <1>2, <1>3, <1>4, <1>5, <1>6, <1>7, <1>8, <1>9, <1>10, <1>11, <1>12
     DEF Next, GroupStep, RunnerStep, LoopStep, SuiteEnds, Settle, Over

\* The record that ReadMessage hands out was not handed out before, and is
\* behind the committed offset, if it is clean after the commit.
LEMMA HandsOutFresh ==
    ASSUME IndInv, NEW r \in Runners, ReadMessage(r),
           NEW f \in Records, f = fetched[r], Clean(f)'
    PROVE  ~carried[r] /\ handed[f] = 0 /\ committed'[Part(f)] = Off(f)
<1>1. Part(f) \in Partitions /\ Off(f) \in Nat /\ Heard(r)
  BY RecordFacts DEF ReadMessage, IndInv, TypeOK
<1>2. ~carried[r]
  BY <1>1 DEF ReadMessage, CommitFetched, Clean
<1>3. Clean(f)
  BY <1>1, CommitKeeps DEF ReadMessage
<1>4. handed[f] # 1
  <2> SUFFICES ASSUME handed[f] = 1
               PROVE  FALSE
    OBVIOUS
  <2>1. Part(f) \in share[r]
    BY <1>1, <1>2 DEF IndInv, LastFetched, ReadMessage
  <2>2. Past(r, f)
    BY <1>1, <1>3, <2>1 DEF IndInv, ReadersPast
  <2> QED
    BY <1>1, <1>2, <2>2 DEF Past, ReadMessage
<1>5. handed[f] = 0
  <2>1. handed[f] \in {0, 1}
    BY <1>1, <1>3 DEF IndInv, Behind
  <2> QED
    BY <1>4, <2>1
<1>6. committed'[Part(f)] = Off(f)
  <2>1. committed' = [committed EXCEPT ![Part(f)] = Off(f)]
    BY DEF ReadMessage, CommitFetched
  <2> QED
    BY <1>1, <2>1 DEF IndInv, TypeOK
<1> QED
  BY <1>1, <1>2, <1>5, <1>6

LEMMA BehindStep == IndInv /\ [Next]_vars => Behind'
<1> SUFFICES ASSUME IndInv, [Next]_vars
             PROVE  Behind'
  OBVIOUS
<1> DEFINE Same == UNCHANGED <<committed, late, handed>>
<1>1. ASSUME Same
      PROVE  Behind'
  BY <1>1 DEF IndInv, Behind, Clean
<1>2. ASSUME NEW r \in Runners, ReadMessage(r)
      PROVE  Behind'
  <2> PICK f \in Records : f = fetched[r]
    BY <1>2 DEF ReadMessage, IndInv, TypeOK
  <2> SUFFICES ASSUME NEW m \in Records, Clean(m)'
               PROVE  handed'[m] \in {0, 1} /\ (handed'[m] = 1 => Off(m) <= committed'[Part(m)])
    BY DEF Behind
  <2>1. handed' = [handed EXCEPT ![f] = @ + 1]
    BY <1>2 DEF ReadMessage
  <2>2. Clean(m) /\ (handed[m] = 1 => Off(m) <= committed'[Part(m)])
    BY <1>2, CommitKeeps DEF ReadMessage
  <2>3. CASE m # f
    <3>1. handed'[m] = handed[m]
      BY <2>1, <2>3 DEF IndInv, TypeOK
    <3>2. handed[m] \in {0, 1}
      BY <2>2 DEF IndInv, Behind
    <3> QED
      BY <2>2, <3>1, <3>2
  <2>4. CASE m = f
    <3>1. handed[f] = 0 /\ committed'[Part(f)] = Off(f)
      BY <1>2, <2>4, HandsOutFresh
    <3>2. handed'[f] = 1 /\ Off(f) \in Nat
      BY <2>1, <3>1, RecordFacts DEF IndInv, TypeOK
    <3> QED
      BY <2>4, <3>1, <3>2
  <2> QED
    BY <2>3, <2>4
<1>3. ASSUME NEW r \in Runners, ReadFails(r) \/ Crash(r)
      PROVE  Behind'
  <2>1. \A m \in Records : Clean(m)' =>
           Clean(m) /\ (handed[m] = 1 => Off(m) <= committed'[Part(m)])
    <3>1. CASE ReadFails(r)
      BY <3>1, CommitKeeps DEF ReadFails
    <3>2. CASE Crash(r)
      BY <3>2, CommitKeeps DEF Crash
    <3> QED
      BY <1>3, <3>1, <3>2
  <2>2. handed' = handed
    BY <1>3 DEF ReadFails, Crash, Gone
  <2> QED
    BY <2>1, <2>2 DEF IndInv, Behind
<1>4. ASSUME NEW r \in Runners, Start(r) \/ Exit(r) \/ Launch(r) \/ Settle(r)
      PROVE  Same
  BY <1>4 DEF Start, Exit, Gone, Launch, Settle, Adopt, Rejoin, kafka, history
<1>5. ASSUME NEW r \in Runners, NEW m \in Records, Fetch(r, m) \/ Finish(r, m)
      PROVE  Same
  BY <1>5 DEF Fetch, Finish, kafka, history
<1>6. ASSUME Rebalance \/ UNCHANGED vars
      PROVE  Same
  BY <1>6 DEF Rebalance, vars, kafka, history
<1> QED
  BY <1>1, <1>2, <1>3, <1>4, <1>5, <1>6
     DEF Next, GroupStep, RunnerStep, LoopStep, SuiteEnds, Over

LEMMA ReadersPastStep == IndInv /\ [Next]_vars => ReadersPast'
<1> SUFFICES ASSUME IndInv, [Next]_vars,
                    NEW q \in Runners, NEW m \in Records,
                    Heard(q)', Part(m) \in share'[q], Clean(m)', handed'[m] = 1
             PROVE  Past(q, m)'
  BY DEF ReadersPast
<1> USE DEF IndInv
<1>m. Part(m) \in Partitions /\ Off(m) \in Nat
  BY RecordFacts
<1> DEFINE SameFor == /\ share'[q] = share[q] /\ position'[q] = position[q]
                      /\ session'[q] = session[q] /\ members' = members
           SameHeld == fetched'[q] = fetched[q] /\ carried'[q] = carried[q]
\* Nothing changes for the reader q and for the record m.
<1>s. ASSUME SameFor, SameHeld, Clean(m), handed[m] = 1
      PROVE  Past(q, m)'
  <2>1. Past(q, m)
    BY <1>s DEF ReadersPast, Heard
  <2> QED
    BY <1>s, <2>1 DEF Past
<1>c. UNCHANGED late => Clean(m)
  BY DEF Clean
<1>1. ASSUME Rebalance
      PROVE  Past(q, m)'
  BY <1>1 DEF Rebalance, Heard, Joining
<1>2. ASSUME NEW r \in Runners, Adopt(r)
      PROVE  Past(q, m)'
  <2>1. Clean(m) /\ handed[m] = 1
    BY <1>2, <1>c DEF Adopt, history
  <2>2. CASE q = r
    <3>1. Off(m) <= committed[Part(m)]
      BY <2>1 DEF Behind
    <3>2. position'[q] = committed /\ carried'[q] = (fetched'[q] # NoRecord)
      BY <1>2, <2>2 DEF Adopt, TypeOK
    <3> QED
      BY <3>1, <3>2 DEF Past
  <2>3. CASE q # r
    BY <1>2, <1>s, <2>1, <2>3 DEF Adopt, kafka, TypeOK
  <2> QED
    BY <2>2, <2>3
<1>3. ASSUME NEW r \in Runners, Rejoin(r) \/ Launch(r) \/ Exit(r)
      PROVE  Past(q, m)'
  <2>1. Clean(m) /\ handed[m] = 1
    BY <1>3, <1>c DEF Rejoin, Launch, Exit, Gone, history
  <2>2. q # r
    BY <1>3 DEF Rejoin, Launch, Exit, Gone, Heard, TypeOK
  <2> QED
    BY <1>3, <1>s, <2>1, <2>2 DEF Rejoin, Launch, Exit, Gone, kafka, loop, TypeOK
<1>4. ASSUME NEW r \in Runners, Start(r)
      PROVE  Past(q, m)'
  BY <1>4, <1>s, <1>c DEF Start, kafka, reader, history
<1>5. ASSUME NEW r \in Runners, NEW x \in Records, Finish(r, x)
      PROVE  Past(q, m)'
  BY <1>5, <1>s, <1>c DEF Finish, kafka, reader
<1>6. ASSUME NEW r \in Runners, NEW x \in Records, Fetch(r, x)
      PROVE  Past(q, m)'
  <2>1. Clean(m) /\ handed[m] = 1
    BY <1>6, <1>c DEF Fetch, history
  <2>2. CASE q # r
    BY <1>6, <1>s, <2>1, <2>2 DEF Fetch, kafka, TypeOK
  <2>3. CASE q = r
    <3>1. Past(r, m)
      BY <1>6, <2>1, <2>3 DEF Fetch, kafka, ReadersPast, Heard
    <3>2. /\ fetched'[r] = x /\ Part(x) \in Partitions /\ Off(x) \in Nat
          /\ Off(x) = position[r][Part(x)] + 1
          /\ position' = [position EXCEPT ![r][Part(x)] = Off(x)]
      BY <1>6, RecordFacts DEF Fetch, Within, TypeOK
    <3>3. position[r][Part(m)] \in Nat /\ position[r] \in [Partitions -> Nat]
      BY <1>m DEF TypeOK
    <3>4. position'[r][Part(m)] = IF Part(m) = Part(x) THEN Off(x) ELSE position[r][Part(m)]
      BY <1>m, <3>2 DEF TypeOK
    <3> QED
      BY <1>m, <2>3, <3>1, <3>2, <3>3, <3>4 DEF Past
  <2> QED
    BY <2>2, <2>3
<1>7. ASSUME NEW r \in Runners, ReadMessage(r)
      PROVE  Past(q, m)'
  <2> PICK f \in Records : f = fetched[r]
    BY <1>7 DEF ReadMessage, TypeOK
  <2>1. Clean(m)
    BY <1>7, CommitKeeps DEF ReadMessage
  <2>2. Heard(q) /\ Heard(r) /\ share' = share /\ position' = position
    BY <1>7 DEF ReadMessage, Heard, reader
  <2>3. fetched' = [fetched EXCEPT ![r] = NoRecord]
    BY <1>7 DEF ReadMessage
  <2>4. CASE m = f
    <3>1. ~carried[r]
      BY <1>7, <2>4, HandsOutFresh
    <3>2. Part(f) \in share[r] /\ position[r][Part(f)] = Off(f)
      BY <1>7, <3>1 DEF ReadMessage, LastFetched
    <3>3. q = r
      BY <2>2, <2>4, <3>2 DEF OwnShares
    <3> QED
      BY <1>m, <2>2, <2>3, <2>4, <3>2, <3>3 DEF Past, TypeOK
  <2>5. CASE m # f
    <3>1. handed[m] = 1
      BY <1>7, <2>5 DEF ReadMessage, TypeOK
    <3>2. Past(q, m)
      BY <2>1, <2>2, <3>1 DEF ReadersPast
    <3>3. fetched'[q] = NoRecord \/ (fetched'[q] = fetched[q] /\ carried'[q] = carried[q])
      BY <1>7, <2>3 DEF ReadMessage, TypeOK
    <3> QED
      BY <2>2, <3>2, <3>3 DEF Past
  <2> QED
    BY <2>4, <2>5
<1>8. ASSUME NEW r \in Runners, ReadFails(r)
      PROVE  Past(q, m)'
  <2>1. Clean(m)
    BY <1>8, CommitKeeps DEF ReadFails
  <2>2. Past(q, m)
    BY <1>8, <2>1 DEF ReadFails, reader, ReadersPast, Heard
  <2>3. fetched'[q] = NoRecord \/ (fetched'[q] = fetched[q] /\ carried'[q] = carried[q])
    BY <1>8 DEF ReadFails, TypeOK
  <2> QED
    BY <1>8, <2>2, <2>3 DEF ReadFails, reader, Past
<1>9. ASSUME NEW r \in Runners, Crash(r)
      PROVE  Past(q, m)'
  <2>1. Clean(m) /\ handed[m] = 1
    BY <1>9, CommitKeeps DEF Crash, Gone
  <2>2. q # r
    BY <1>9 DEF Crash, Gone, Heard, TypeOK
  <2> QED
    BY <1>9, <1>s, <2>1, <2>2 DEF Crash, Gone, TypeOK
<1>10. CASE UNCHANGED vars
  BY <1>10, <1>s, <1>c DEF vars, kafka, reader, loop, history
<1> QED
  BY <1>1, <1>2, <1>3, <1>4, <1>5, <1>6, <1>7, <1>8, <1>9, <1>10
     DEF Next, GroupStep, RunnerStep, LoopStep, SuiteEnds, Settle, Over

LEMMA InitInv == Init => IndInv
<1> SUFFICES ASSUME Init
             PROVE  IndInv
  OBVIOUS
<1>1. TypeOK
  BY GroupAssumption DEF Init, TypeOK
<1>2. HoldsByPlace /\ LastFetched
  BY DEF Init, HoldsByPlace, LastFetched
<1>3. OwnShares /\ ReadersPast /\ Behind
  BY DEF Init, OwnShares, ReadersPast, Behind, Heard
<1> QED
  BY <1>1, <1>2, <1>3 DEF IndInv

\* Members' readers, shares and commits agree: the members of a generation share
\* the partitions out, and until a commit is made late each of them is past what
\* the group was handed (consumer.go 74-82, under the coordinator's assignments).
THEOREM InductiveInvariant == Spec => []IndInv
<1>1. Init => IndInv
  BY InitInv
<1>2. IndInv /\ [Next]_vars => IndInv'
  BY TypeStep, HoldsStep, SharesStep, LastFetchedStep, BehindStep, ReadersPastStep DEF IndInv
<1> QED
  BY <1>1, <1>2, PTL DEF Spec

\* For any number of runners, partitions, records, launches and rebalances, no
\* record is handed out twice unless a late commit reaches back to it.
THEOREM NoScriptTwice == Spec => []HandedOnce
<1>1. IndInv => HandedOnce
  <2> SUFFICES ASSUME IndInv, NEW m \in Records, handed[m] > 1
               PROVE  \E l \in late : Part(l) = Part(m) /\ Off(l) <= Off(m)
    BY DEF HandedOnce
  <2>1. ~Clean(m)
    BY DEF IndInv, Behind
  <2>2. PICK l \in late : Part(l) = Part(m) /\ ~(Off(m) < Off(l))
    BY <2>1 DEF Clean
  <2>3. Off(l) \in Nat /\ Off(m) \in Nat
    BY <2>2, RecordFacts DEF IndInv, TypeOK
  <2> QED
    BY <2>2, <2>3
<1> QED
  BY <1>1, InductiveInvariant, PTL

-----------------------------------------------------------------------------
\* Where the consumed scripts are; that no other is passed over is NothingSkipped.
ConsumedKept ==
    Scripts \cap consumed \subseteq InHand \cup Running \cup finished \cup dropped

\* A consumed script is where LossExplained says, wherever its partition went.
LEMMA LossStep == IndInv /\ ConsumedKept /\ [Next]_vars => ConsumedKept'
<1> SUFFICES ASSUME IndInv, ConsumedKept, [Next]_vars,
                    NEW m \in Records, kind'[m] = "script", m \in consumed'
             PROVE  m \in (InHand \cup Running \cup finished \cup dropped)'
  BY DEF ConsumedKept, Scripts
<1> USE DEF IndInv
<1> DEFINE Kept(r) == m \in running[r] \/ m = inHand[r]
           Found == (\E r \in Runners : Kept(r)) \/ m \in finished \/ m \in dropped
<1>k. kind' = kind
  BY DEF Next, GroupStep, RunnerStep, LoopStep, SuiteEnds, Settle, Over, Rebalance, Adopt,
         Rejoin, Launch, Fetch, ReadMessage, ReadFails, Start, Finish, Exit, Crash, Gone, vars
<1>f. m \in consumed => Found
  BY <1>k DEF ConsumedKept, Scripts, InHand, Running
<1> SUFFICES Found'
  BY DEF InHand, Running
<1>1. ASSUME UNCHANGED <<consumed, inHand, running, finished, dropped>>
      PROVE  Found'
  BY <1>1, <1>f
<1>2. ASSUME NEW r \in Runners, Launch(r) \/ Settle(r)
      PROVE  Found'
  BY <1>1, <1>2 DEF Launch, Settle, Adopt, Rejoin, loop, history
<1>3. ASSUME NEW r \in Runners, NEW x \in Records, Fetch(r, x)
      PROVE  Found'
  BY <1>1, <1>3 DEF Fetch, history
<1>4. ASSUME Rebalance \/ UNCHANGED vars
      PROVE  Found'
  BY <1>1, <1>4 DEF Rebalance, vars, loop, history
<1>5. ASSUME NEW r \in Runners, ReadMessage(r)
      PROVE  Found'
  <2>1. inHand[r] = NoRecord /\ place[r] = "poll"
    BY <1>5 DEF ReadMessage, HoldsByPlace
  <2>2. consumed' = consumed \cup {fetched[r]}
    BY <1>5 DEF ReadMessage, CommitFetched
  <2>3. UNCHANGED <<running, finished, dropped>>
    BY <1>5 DEF ReadMessage
  <2>4. CASE m = fetched[r]
    BY <1>5, <1>k, <2>4 DEF ReadMessage, TypeOK
  <2>5. CASE m # fetched[r]
    <3>1. \A q \in Runners : Kept(q) => Kept(q)'
      BY <1>5, <2>1, <2>3, RecordFacts DEF ReadMessage, TypeOK
    <3> QED
      BY <1>f, <2>2, <2>3, <2>5, <3>1
  <2> QED
    BY <2>4, <2>5
<1>6. ASSUME NEW r \in Runners, Start(r)
      PROVE  Found'
  <2>1. \A q \in Runners : Kept(q) => Kept(q)'
    BY <1>6 DEF Start, TypeOK
  <2> QED
    BY <1>6, <1>f, <2>1 DEF Start, history
<1>7. ASSUME NEW r \in Runners, NEW x \in Records, Finish(r, x)
      PROVE  Found'
  <2>1. \A q \in Runners : Kept(q) => Kept(q)' \/ m = x
    BY <1>7 DEF Finish, TypeOK
  <2> QED
    BY <1>7, <1>f, <2>1 DEF Finish
<1>8. ASSUME NEW r \in Runners, ReadFails(r)
      PROVE  Found'
  <2>1. consumed' \subseteq consumed \cup {fetched[r]}
    BY <1>8 DEF ReadFails, CommitFetched
  <2>2. m = fetched[r] => m \in dropped'
    BY <1>8, RecordFacts DEF ReadFails
  <2> QED
    BY <1>8, <1>f, <2>1, <2>2 DEF ReadFails
<1>9. ASSUME NEW r \in Runners, Exit(r)
      PROVE  Found'
  <2>1. running[r] = {} /\ inHand[r] = NoRecord
    BY <1>9 DEF Exit, Drained, HoldsByPlace
  <2>2. \A q \in Runners : Kept(q) => Kept(q)'
    BY <1>9, <2>1, RecordFacts DEF Exit, Gone, TypeOK
  <2> QED
    BY <1>9, <1>f, <2>2 DEF Exit, Gone
<1>10. ASSUME NEW r \in Runners, Crash(r)
       PROVE  Found'
  <2>1. consumed' \subseteq consumed \cup {fetched[r]}
    BY <1>10 DEF Crash, CommitFetched
  <2>2. m = fetched[r] \/ Kept(r) => m \in dropped'
    BY <1>10, RecordFacts DEF Crash, Held
  <2>3. \A q \in Runners : Kept(q) /\ q # r => Kept(q)'
    BY <1>10 DEF Crash, Gone, TypeOK
  <2> QED
    BY <1>10, <1>f, <2>1, <2>2, <2>3 DEF Crash, Gone
<1> QED
  BY <1>2, <1>3, <1>4, <1>5, <1>6, <1>7, <1>8, <1>9, <1>10
     DEF Next, GroupStep, RunnerStep, LoopStep, SuiteEnds, Over

-----------------------------------------------------------------------------
\* A reader goes through its partitions in order from a committed offset, so
\* every record before the one it holds has been consumed, by it or by others,
\* and the offset that it commits leaves no unread record behind.
NothingSkipped ==
    /\ PassedOver \subseteq consumed
    /\ \A r \in Runners, m \in Records :
         place[r] # "drain" /\ Off(m) <= position[r][Part(m)] =>
             m \in consumed \/ m = fetched[r]
    /\ \A r \in Runners, m \in Records :
         fetched[r] # NoRecord /\ Part(m) = Part(fetched[r]) /\ Off(m) < Off(fetched[r]) =>
             m \in consumed

\* A commit that may be taken passes over consumed records only.
LEMMA CommitSkipsNothing ==
    ASSUME IndInv, NothingSkipped, NEW r \in Runners,
           \/ UNCHANGED <<committed, consumed, late>>
           \/ fetched[r] # NoRecord /\ Heard(r) /\ CommitFetched(r)
    PROVE  consumed \subseteq consumed' /\ PassedOver' \subseteq consumed'
<1>1. CASE UNCHANGED <<committed, consumed, late>>
  BY <1>1 DEF NothingSkipped, PassedOver
<1>2. CASE fetched[r] # NoRecord /\ Heard(r) /\ CommitFetched(r)
  <2> PICK f \in Records : f = fetched[r]
    BY <1>2 DEF IndInv, TypeOK
  <2>1. committed' = [committed EXCEPT ![Part(f)] = Off(f)] /\ consumed' = consumed \cup {f}
    BY <1>2 DEF CommitFetched
  <2> SUFFICES ASSUME NEW m \in Records, Off(m) <= committed'[Part(m)]
               PROVE  m \in consumed'
    BY <2>1 DEF PassedOver
  <2>2. /\ Part(m) \in Partitions /\ Off(m) \in Nat
        /\ Part(f) \in Partitions /\ Off(f) \in Nat
    BY RecordFacts
  <2>3. CASE Part(m) = Part(f)
    <3>1. Off(m) <= Off(f)
      BY <2>1, <2>2, <2>3 DEF IndInv, TypeOK
    <3>2. m = f \/ Off(m) < Off(f)
      BY <2>2, <2>3, <3>1, RecordFacts
    <3> QED
      BY <1>2, <2>1, <2>3, <3>2 DEF NothingSkipped
  <2>4. CASE Part(m) # Part(f)
    BY <2>1, <2>2, <2>4 DEF IndInv, TypeOK, NothingSkipped, PassedOver
  <2> QED
    BY <2>3, <2>4
<1> QED
  BY <1>1, <1>2

LEMMA NothingSkippedStep == IndInv /\ NothingSkipped /\ [Next]_vars => NothingSkipped'
<1> SUFFICES ASSUME IndInv, NothingSkipped, [Next]_vars
             PROVE  NothingSkipped'
  OBVIOUS
<1> USE DEF IndInv
<1> DEFINE Reads(q, m) == place[q] # "drain" /\ Off(m) <= position[q][Part(m)]
           Before(q, m) == /\ fetched[q] # NoRecord /\ Part(m) = Part(fetched[q])
                           /\ Off(m) < Off(fetched[q])
           ReaderOK(q) == \A m \in Records :
                            /\ Reads(q, m) => m \in consumed \/ m = fetched[q]
                            /\ Before(q, m) => m \in consumed
           SameReader(q) == /\ position'[q] = position[q] /\ fetched'[q] = fetched[q]
                            /\ place'[q] # "drain" => place[q] # "drain"
           Quiet == UNCHANGED <<committed, consumed>>
<1>r. \A q \in Runners : ReaderOK(q)
  BY DEF NothingSkipped
\* What is left is that commits pass over consumed records and readers stay so.
<1>s. ASSUME consumed \subseteq consumed', PassedOver' \subseteq consumed',
             \A q \in Runners : SameReader(q) \/ ReaderOK(q)'
      PROVE  NothingSkipped'
  <2>1. ASSUME NEW q \in Runners
        PROVE  ReaderOK(q)'
    BY <1>r, <1>s
  <2> QED
    BY <1>s, <2>1 DEF NothingSkipped
<1>q. ASSUME Quiet
      PROVE  consumed \subseteq consumed' /\ PassedOver' \subseteq consumed'
  BY <1>q DEF NothingSkipped, PassedOver
<1>1. ASSUME Rebalance \/ UNCHANGED vars
      PROVE  NothingSkipped'
  BY <1>1, <1>q, <1>s DEF Rebalance, vars, kafka, reader, loop, history
<1>2. ASSUME NEW r \in Runners, Adopt(r)
      PROVE  NothingSkipped'
  <2>1. Quiet /\ fetched' = fetched
    BY <1>2 DEF Adopt, kafka, history
  <2>2. \A q \in Runners : q # r => SameReader(q)
    BY <1>2, <2>1 DEF Adopt, TypeOK
  <2>3. position'[r] = committed
    BY <1>2 DEF Adopt, TypeOK
  <2>4. ReaderOK(r)'
    BY <1>r, <2>1, <2>3 DEF NothingSkipped, PassedOver
  <2> QED
    BY <1>q, <1>s, <2>1, <2>2, <2>4
<1>3. ASSUME NEW r \in Runners, Rejoin(r)
      PROVE  NothingSkipped'
  BY <1>3, <1>q, <1>s DEF Rejoin, kafka, loop, history
<1>4. ASSUME NEW r \in Runners, Start(r)
      PROVE  NothingSkipped'
  BY <1>4, <1>q, <1>s DEF Start, kafka, reader, history, TypeOK
<1>5. ASSUME NEW r \in Runners, NEW x \in Records, Finish(r, x)
      PROVE  NothingSkipped'
  BY <1>5, <1>q, <1>s DEF Finish, kafka, reader
<1>6. ASSUME NEW r \in Runners, NEW x \in Records, Fetch(r, x)
      PROVE  NothingSkipped'
  <2>1. Quiet /\ place' = place
    BY <1>6 DEF Fetch, kafka, history
  <2>2. \A q \in Runners : q # r => SameReader(q)
    BY <1>6 DEF Fetch, TypeOK
  <2>3. /\ fetched[r] = NoRecord /\ fetched'[r] = x /\ place[r] = "poll"
        /\ Part(x) \in Partitions /\ Off(x) \in Nat /\ x # NoRecord
        /\ Off(x) = position[r][Part(x)] + 1
        /\ position'[r] = [position[r] EXCEPT ![Part(x)] = Off(x)]
    BY <1>6, RecordFacts DEF Fetch, Within, TypeOK
  <2>4. ASSUME NEW m \in Records
        PROVE  /\ Reads(r, m)' => m \in consumed \/ m = x
               /\ Before(r, m)' => m \in consumed
    <3>1. /\ Part(m) \in Partitions /\ Off(m) \in Nat
          /\ position[r] \in [Partitions -> Nat] /\ m # NoRecord
      BY RecordFacts DEF TypeOK
    <3>2. Off(m) <= position[r][Part(m)] => m \in consumed
      BY <1>r, <2>3, <3>1
    <3>3. CASE Part(m) = Part(x)
      <4>1. m = x \/ Off(m) < Off(x) \/ Off(x) < Off(m)
        BY <2>3, <3>1, <3>3, RecordFacts
      <4>2. Off(m) < Off(x) => m \in consumed
        BY <2>3, <3>1, <3>2, <3>3
      <4>3. position'[r][Part(m)] = Off(x)
        BY <2>3, <3>1, <3>3
      <4> QED
        BY <2>3, <3>1, <4>1, <4>2, <4>3
    <3>4. CASE Part(m) # Part(x)
      BY <2>3, <3>1, <3>2, <3>4
    <3> QED
      BY <3>3, <3>4
  <2> QED
    BY <1>q, <1>s, <2>1, <2>2, <2>3, <2>4
<1>7. ASSUME NEW r \in Runners, ReadMessage(r)
      PROVE  NothingSkipped'
  <2>1. consumed \subseteq consumed' /\ PassedOver' \subseteq consumed'
    BY <1>7, CommitSkipsNothing DEF ReadMessage
  <2>2. \A q \in Runners : q # r => SameReader(q)
    BY <1>7 DEF ReadMessage, reader, TypeOK
  <2>3. /\ fetched'[r] = NoRecord /\ fetched[r] \in consumed' /\ place[r] = "poll"
        /\ position'[r] = position[r]
    BY <1>7 DEF ReadMessage, CommitFetched, reader, TypeOK, HoldsByPlace
  <2>4. ReaderOK(r)'
    BY <1>r, <2>1, <2>3
  <2> QED
    BY <1>s, <2>1, <2>2, <2>4
<1>8. ASSUME NEW r \in Runners, ReadFails(r)
      PROVE  NothingSkipped'
  <2>1. consumed \subseteq consumed' /\ PassedOver' \subseteq consumed'
    BY <1>8, CommitSkipsNothing DEF ReadFails
  <2>2. \A q \in Runners : q # r => SameReader(q)
    BY <1>8 DEF ReadFails, reader, TypeOK
  <2>3. fetched'[r] = NoRecord /\ place'[r] = "drain"
    BY <1>8 DEF ReadFails, TypeOK
  <2> QED
    BY <1>s, <2>1, <2>2, <2>3
<1>9. ASSUME NEW r \in Runners, Exit(r) \/ Crash(r)
      PROVE  NothingSkipped'
  <2>1. consumed \subseteq consumed' /\ PassedOver' \subseteq consumed'
    <3>1. CASE Exit(r)
      BY <1>q, <3>1 DEF Exit
    <3>2. CASE Crash(r)
      BY <3>2, CommitSkipsNothing DEF Crash
    <3> QED
      BY <1>9, <3>1, <3>2
  <2>2. \A q \in Runners : q # r => SameReader(q)
    BY <1>9 DEF Exit, Crash, Gone, TypeOK
  <2>3. fetched'[r] = NoRecord /\ position'[r] = [p \in Partitions |-> 0]
    BY <1>9 DEF Exit, Crash, Gone, TypeOK
  <2>4. ReaderOK(r)'
    BY <2>3, RecordFacts
  <2> QED
    BY <1>s, <2>1, <2>2, <2>4
<1>10. ASSUME NEW r \in Runners, Launch(r)
       PROVE  NothingSkipped'
  BY <1>10, <1>q, <1>s DEF Launch, kafka, history, TypeOK
<1> QED
  BY <1>1, <1>2, <1>3, <1>4, <1>5, <1>6, <1>7, <1>8, <1>9, <1>10
     DEF Next, GroupStep, RunnerStep, LoopStep, SuiteEnds, Settle, Over

\* For any group, a script that was consumed, or that the committed offsets have
\* left behind, is in a runner's hands, finished, or was held by a killed runner
\* or a failing read: rebalances, restarts and late commits lose nothing.
THEOREM LossesExplained == Spec => []LossExplained
<1>1. Init => ConsumedKept /\ NothingSkipped
  <2>1. Init => PassedOver = {}
    BY RecordFacts DEF Init, PassedOver
  <2> QED
    BY <2>1, RecordFacts DEF Init, ConsumedKept, NothingSkipped
<1>2. ConsumedKept /\ NothingSkipped => LossExplained
  BY DEF ConsumedKept, NothingSkipped, LossExplained
<1> QED
  BY <1>1, <1>2, LossStep, NothingSkippedStep, InductiveInvariant, PTL DEF Spec

-----------------------------------------------------------------------------
\* On a partition without a late commit, a member that is heard has been handed
\* everything that is committed, and what it holds is not.
Punctual(p) == \A l \in late : Part(l) # p

ReadersReached ==
    \A r \in Runners : \A p \in share[r] : Heard(r) /\ Punctual(p) =>
        /\ committed[p] <= position[r][p]
        /\ (fetched[r] # NoRecord /\ ~carried[r] /\ Part(fetched[r]) = p) =>
             committed[p] < Off(fetched[r])

\* The committed offset of a partition goes back with a late commit on it only.
OffsetsGoForward ==
    [][\A p \in Partitions : committed'[p] < committed[p] => ~Punctual(p)']_vars

\* A commit that may be taken goes forward on a partition that stays punctual,
\* and was punctual before.
LEMMA CommitGoesForward ==
    ASSUME IndInv, ReadersReached, NEW r \in Runners, NEW p \in Partitions, Punctual(p)',
           \/ UNCHANGED <<committed, consumed, late>>
           \/ fetched[r] # NoRecord /\ Heard(r) /\ CommitFetched(r)
    PROVE  /\ Punctual(p) /\ committed[p] <= committed'[p]
           /\ \/ committed'[p] = committed[p]
              \/ /\ fetched[r] # NoRecord /\ Heard(r) /\ ~carried[r] /\ Part(fetched[r]) = p
                 /\ p \in share[r] /\ committed'[p] = position[r][p]
<1>t. committed[p] \in Nat
  BY DEF IndInv, TypeOK
<1>1. CASE UNCHANGED <<committed, consumed, late>>
  BY <1>1, <1>t DEF Punctual
<1>2. CASE fetched[r] # NoRecord /\ Heard(r) /\ CommitFetched(r)
  <2> PICK f \in Records : f = fetched[r]
    BY <1>2 DEF IndInv, TypeOK
  <2>1. committed' = [committed EXCEPT ![Part(f)] = Off(f)]
    BY <1>2 DEF CommitFetched
  <2>2. late \subseteq late' /\ (carried[r] => f \in late')
    BY <1>2 DEF CommitFetched
  <2>3. Punctual(p)
    BY <2>2 DEF Punctual
  <2>4. CASE Part(f) # p
    BY <1>t, <2>1, <2>3, <2>4 DEF IndInv, TypeOK
  <2>5. CASE Part(f) = p
    <3>1. ~carried[r]
      BY <2>2, <2>5 DEF Punctual
    <3>2. p \in share[r] /\ position[r][p] = Off(f)
      BY <1>2, <2>5, <3>1 DEF IndInv, LastFetched
    <3>3. committed[p] < Off(f) /\ Off(f) \in Nat
      BY <1>2, <2>3, <2>5, <3>1, <3>2, RecordFacts DEF ReadersReached
    <3>4. committed'[p] = Off(f)
      BY <2>1, <2>5 DEF IndInv, TypeOK
    <3> QED
      BY <1>2, <1>t, <2>3, <2>5, <3>1, <3>2, <3>3, <3>4
  <2> QED
    BY <2>4, <2>5
<1> QED
  BY <1>1, <1>2

LEMMA ReachedStep == IndInv /\ ReadersReached /\ [Next]_vars => ReadersReached'
<1> SUFFICES ASSUME IndInv, ReadersReached, [Next]_vars,
                    NEW q \in Runners, NEW p \in share'[q], Heard(q)', Punctual(p)'
             PROVE  /\ committed'[p] <= position'[q][p]
                    /\ (fetched'[q] # NoRecord /\ ~carried'[q] /\ Part(fetched'[q]) = p) =>
                         committed'[p] < Off(fetched'[q])
  BY DEF ReadersReached
<1> DEFINE Goal == /\ committed'[p] <= position'[q][p]
                   /\ (fetched'[q] # NoRecord /\ ~carried'[q] /\ Part(fetched'[q]) = p) =>
                         committed'[p] < Off(fetched'[q])
           SameFor == /\ share'[q] = share[q] /\ position'[q] = position[q]
                      /\ session'[q] = session[q] /\ members' = members
           SameHeld == fetched'[q] = fetched[q] /\ carried'[q] = carried[q]
           Quiet == UNCHANGED <<committed, late>>
<1> USE DEF IndInv
<1>p. p \in Partitions
  BY TypeStep DEF TypeOK
<1>t. committed[p] \in Nat /\ position[q] \in [Partitions -> Nat] /\ position[q][p] \in Nat
  BY <1>p DEF TypeOK
\* Nothing changes for the reader q and for the partition p.
<1>s. ASSUME SameFor, SameHeld \/ fetched'[q] = NoRecord,
             committed'[p] = committed[p], Punctual(p)
      PROVE  Goal
  BY <1>s DEF ReadersReached, Heard
<1>u. Quiet => committed'[p] = committed[p] /\ Punctual(p)
  BY DEF Punctual
<1>1. ASSUME Rebalance
      PROVE  Goal
  BY <1>1 DEF Rebalance, Heard, Joining
<1>2. ASSUME NEW r \in Runners, Adopt(r)
      PROVE  Goal
  <2>1. Quiet
    BY <1>2 DEF Adopt, kafka, history
  <2>2. CASE q = r
    <3>1. position'[q] = committed
      BY <1>2, <2>2 DEF Adopt, TypeOK
    <3>2. fetched'[q] # NoRecord => carried'[q]
      BY <1>2, <2>2 DEF Adopt, TypeOK
    <3>3. committed'[p] <= position'[q][p]
      BY <1>t, <2>1, <3>1
    <3> QED
      BY <3>2, <3>3
  <2>3. CASE q # r
    BY <1>2, <1>s, <1>u, <2>1, <2>3 DEF Adopt, kafka, TypeOK
  <2> QED
    BY <2>2, <2>3
<1>3. ASSUME NEW r \in Runners, Rejoin(r) \/ Launch(r) \/ Exit(r)
      PROVE  Goal
  <2>1. Quiet /\ q # r
    BY <1>3 DEF Rejoin, Launch, Exit, Gone, kafka, history, Heard, TypeOK
  <2> QED
    BY <1>3, <1>s, <1>u, <2>1 DEF Rejoin, Launch, Exit, Gone, kafka, loop, TypeOK
<1>4. ASSUME NEW r \in Runners, Start(r)
      PROVE  Goal
  BY <1>4, <1>s, <1>u DEF Start, kafka, reader, history
<1>5. ASSUME NEW r \in Runners, NEW x \in Records, Finish(r, x)
      PROVE  Goal
  BY <1>5, <1>s, <1>u DEF Finish, kafka, reader
<1>6. ASSUME NEW r \in Runners, NEW x \in Records, Fetch(r, x)
      PROVE  Goal
  <2>1. Quiet
    BY <1>6 DEF Fetch, kafka, history
  <2>2. CASE q # r
    BY <1>6, <1>s, <1>u, <2>1, <2>2 DEF Fetch, kafka, TypeOK
  <2>3. CASE q = r
    <3>1. committed[p] <= position[q][p]
      BY <1>6, <1>u, <2>1, <2>3 DEF Fetch, kafka, ReadersReached, Heard
    <3>2. /\ fetched'[q] = x /\ Part(x) \in Partitions /\ Off(x) \in Nat
          /\ Off(x) = position[q][Part(x)] + 1
          /\ position'[q] = [position[q] EXCEPT ![Part(x)] = Off(x)]
      BY <1>6, <2>3, RecordFacts DEF Fetch, Within, TypeOK
    <3>3. position'[q][p] = IF p = Part(x) THEN Off(x) ELSE position[q][p]
      BY <1>p, <1>t, <3>2
    <3> QED
      BY <1>t, <2>1, <3>1, <3>2, <3>3
  <2> QED
    BY <2>2, <2>3
\* A commit of r's leaves q's partition alone, or q is r.
<1>7. ASSUME NEW r \in Runners, ReadMessage(r) \/ ReadFails(r)
      PROVE  Goal
  <2>1. /\ SameFor /\ (q = r => fetched'[q] = NoRecord) /\ (q # r => SameHeld)
    BY <1>7 DEF ReadMessage, ReadFails, reader, TypeOK
  <2>2. /\ Punctual(p)
        /\ \/ committed'[p] = committed[p]
           \/ Heard(r) /\ p \in share[r] /\ committed'[p] = position[r][p]
    <3>1. CASE ReadMessage(r)
      BY <1>p, <3>1, CommitGoesForward DEF ReadMessage
    <3>2. CASE ReadFails(r)
      BY <1>p, <3>2, CommitGoesForward DEF ReadFails
    <3> QED
      BY <1>7, <3>1, <3>2
  <2>3. CASE committed'[p] = committed[p]
    BY <1>s, <2>1, <2>2, <2>3
  <2>4. CASE Heard(r) /\ p \in share[r] /\ committed'[p] = position[r][p]
    <3>1. q = r
      BY <2>1, <2>4 DEF OwnShares, Heard
    <3> QED
      BY <1>t, <2>1, <2>4, <3>1
  <2> QED
    BY <2>2, <2>3, <2>4
<1>8. ASSUME NEW r \in Runners, Crash(r)
      PROVE  Goal
  <2>1. q # r /\ SameFor /\ SameHeld
    BY <1>8 DEF Crash, Gone, Heard, TypeOK
  <2>2. /\ Punctual(p)
        /\ \/ committed'[p] = committed[p]
           \/ Heard(r) /\ p \in share[r]
    BY <1>8, <1>p, CommitGoesForward DEF Crash
  <2>3. ~(Heard(r) /\ p \in share[r])
    BY <2>1 DEF OwnShares, Heard
  <2> QED
    BY <1>s, <2>1, <2>2, <2>3
<1>9. CASE UNCHANGED vars
  BY <1>9, <1>s, <1>u DEF vars, kafka, reader, loop, history
<1> QED
  BY <1>1, <1>2, <1>3, <1>4, <1>5, <1>6, <1>7, <1>8, <1>9
     DEF Next, GroupStep, RunnerStep, LoopStep, SuiteEnds, Settle, Over

\* The committed offset of a partition never goes back, through any rebalances,
\* expulsions and restarts, before a record is committed late on it: no runner
\* that comes later is sent back over what an earlier one has committed
\* (consumer.go 75, as kafka-go commits what it is given).
THEOREM CommittedOffsetsGoForward == Spec => OffsetsGoForward
<1>1. Init => ReadersReached
  BY DEF Init, ReadersReached
<1>2. IndInv /\ ReadersReached /\ [Next]_vars =>
        [\A p \in Partitions : committed'[p] < committed[p] => ~Punctual(p)']_vars
  <2> SUFFICES ASSUME IndInv, ReadersReached, Next,
                      NEW p \in Partitions, committed'[p] < committed[p], Punctual(p)'
               PROVE  FALSE
    BY DEF vars
  <2>t. committed[p] \in Nat
    BY DEF IndInv, TypeOK
  <2>1. ASSUME committed' = committed
        PROVE  FALSE
    BY <2>1, <2>t
  <2>2. ASSUME NEW r \in Runners,
               \/ UNCHANGED <<committed, consumed, late>>
               \/ fetched[r] # NoRecord /\ Heard(r) /\ CommitFetched(r)
        PROVE  FALSE
    <3>1. committed[p] <= committed'[p]
      BY <2>2, CommitGoesForward
    <3>2. committed'[p] \in Nat
      BY <2>2, CommitKeeps DEF IndInv, TypeOK
    <3> QED
      BY <2>t, <3>1, <3>2
  <2>3. ASSUME NEW r \in Runners, ReadMessage(r) \/ ReadFails(r) \/ Crash(r)
        PROVE  FALSE
    <3>1. CASE ReadMessage(r)
      BY <2>2, <3>1 DEF ReadMessage
    <3>2. CASE ReadFails(r)
      BY <2>2, <3>2 DEF ReadFails
    <3>3. CASE Crash(r)
      BY <2>2, <3>3 DEF Crash
    <3> QED
      BY <2>3, <3>1, <3>2, <3>3
  <2>4. ASSUME NEW r \in Runners, Start(r) \/ Exit(r) \/ Launch(r) \/ Settle(r) \/ SuiteEnds(r)
        PROVE  committed' = committed
    BY <2>4 DEF Start, Exit, Launch, Settle, Adopt, Rejoin, SuiteEnds, Finish, kafka
  <2>5. ASSUME NEW r \in Runners, NEW m \in Records, Fetch(r, m)
        PROVE  committed' = committed
    BY <2>5 DEF Fetch, kafka
  <2>6. ASSUME Rebalance \/ Over
        PROVE  committed' = committed
    BY <2>6 DEF Rebalance, Over, vars, kafka
  <2> QED
    BY <2>1, <2>3, <2>4, <2>5, <2>6 DEF Next, GroupStep, RunnerStep, LoopStep
<1> QED
  BY <1>1, <1>2, ReachedStep, InductiveInvariant, PTL DEF Spec, OffsetsGoForward
==============================================================================
