--------------------------- MODULE ExecutorProofs ---------------------------
(* Theorems about Executor for every number of records, every script limit,  *)
(* every parallelism setting and every number of copies: the invariants TLC  *)
(* checks on small instances, and that the runner implements JudgeContract.  *)
EXTENDS Executor, FiniteSetTheorems, TLAPS

-----------------------------------------------------------------------------
(* Facts about the constants and about counting.                             *)

\* The clamp of service.go 43-45 always leaves at least one slot.
LEMMA SlotsPositive == Slots \in Nat \ {0}
BY ExecutorAssumption DEF Slots

\* Every set of records has a cardinality.
LEMMA OffsetsFinite ==
    ASSUME NEW S \in SUBSET Offsets
    PROVE  IsFiniteSet(S) /\ Cardinality(S) \in Nat
<1>1. IsFiniteSet(Offsets)
    BY ExecutorAssumption, FS_Interval DEF Offsets
<1> QED
    BY <1>1, FS_Subset, FS_CardinalityType

\* Counting one record more, and one less.
LEMMA CountAdd ==
    ASSUME NEW S \in SUBSET Offsets, NEW m \in Offsets, m \notin S
    PROVE  Cardinality(S \cup {m}) = Cardinality(S) + 1
BY OffsetsFinite, FS_AddElement

LEMMA CountRemove ==
    ASSUME NEW S \in SUBSET Offsets, NEW m \in Offsets, m \in S
    PROVE  /\ Cardinality(S \ {m}) = Cardinality(S) - 1
           /\ Cardinality(S) >= 1
<1>1. Cardinality(S \ {m}) = Cardinality(S) - 1
    BY OffsetsFinite, FS_RemoveElement
<1>2. Cardinality(S \ {m}) \in Nat /\ Cardinality(S) \in Nat
    BY OffsetsFinite
<1> QED
    BY <1>1, <1>2

-----------------------------------------------------------------------------
(* The inductive invariant.                                                  *)

LEMMA InitIndInv == Init => IndInv
<1> SUFFICES ASSUME Init PROVE IndInv
    OBVIOUS
<1> USE DEF Init
<1>1. TypeOK
    <2>1. cancelled \in BOOLEAN
        BY Zenon
    <2>2. produced \in 0..NumMessages /\ inHand \in 0..NumMessages /\ sem \in 0..Slots
        BY ExecutorAssumption, SlotsPositive
    <2>3. /\ task \in [Offsets -> TaskStates]
          /\ verdict \in [Offsets -> Verdicts]
          /\ published \in [Offsets -> 0..MaxCopies]
        BY ExecutorAssumption DEF TaskStates, Verdicts
    <2> QED
        BY <2>1, <2>2, <2>3 DEF TypeOK, LoopStates
<1>2. SlotHolders = {} /\ GroupMembers = {} /\ Started = {}
    BY DEF SlotHolders, GroupMembers, Started
<1>3. Accounting
    BY <1>2, FS_EmptySet DEF Accounting
<1>4. TaskDiscipline /\ LoopDiscipline
    BY DEF TaskDiscipline, LoopDiscipline, Resources
<1>5. NothingBehind /\ ScriptLimit
    BY ExecutorAssumption DEF NothingBehind, ScriptLimit, Offsets
<1> QED
    BY <1>1, <1>3, <1>4, <1>5 DEF IndInv

\* A step that leaves the goroutines alone leaves their sets alone.
LEMMA SameTasks ==
    ASSUME task' = task
    PROVE  SlotHolders' = SlotHolders /\ GroupMembers' = GroupMembers
           /\ Started' = Started /\ Judging' = Judging
BY DEF SlotHolders, GroupMembers, Started, Judging

\* The loop stops in a read, at the limit or on a bad record.
LEMMA ReadFailsIndInv ==
    ASSUME IndInv, NEW err \in Errors, ReadFails(err)
    PROVE  IndInv'
<1> USE DEF IndInv, ReadFails, Polling, StopOn, Stop, Errors, logVars, taskVars
<1>1. TypeOK'
    BY ExecutorAssumption DEF TypeOK, Offsets, LoopStates
<1>2. Accounting'
    BY SameTasks DEF Accounting
<1>3. TaskDiscipline'
    BY ExecutorAssumption DEF TaskDiscipline, TypeOK, Offsets
<1>4. LoopDiscipline'
    BY DEF LoopDiscipline, TypeOK
<1>5. NothingBehind'
    BY ExecutorAssumption DEF NothingBehind, LoopDiscipline, TypeOK, Offsets
<1>6. ScriptLimit'
    BY DEF ScriptLimit
<1> QED
    BY <1>1, <1>2, <1>3, <1>4, <1>5, <1>6

LEMMA ReceiveIndInv ==
    ASSUME IndInv, NEW m \in Offsets, Receive(m)
    PROVE  IndInv'
<1> USE DEF IndInv, Receive, ReceiveScript, ReceiveDone, ReceiveInvalid,
            ReadNext, Polling, StopOn, Stop, logVars, taskVars
<1>1. TypeOK'
    BY ExecutorAssumption DEF TypeOK, Offsets, LoopStates
<1>2. Accounting'
    BY SameTasks DEF Accounting
<1>3. TaskDiscipline'
    BY ExecutorAssumption DEF TaskDiscipline, LoopDiscipline, TypeOK, Offsets
<1>4. LoopDiscipline'
    BY ExecutorAssumption DEF LoopDiscipline, TypeOK, Offsets
<1>5. NothingBehind'
    BY ExecutorAssumption DEF NothingBehind, LoopDiscipline, TypeOK, Offsets
<1>6. ScriptLimit'
    BY ExecutorAssumption DEF ScriptLimit, LimitReached, TypeOK, Offsets
<1> QED
    BY <1>1, <1>2, <1>3, <1>4, <1>5, <1>6

LEMMA SpawnIndInv ==
    ASSUME IndInv, Spawn
    PROVE  IndInv'
<1> USE DEF IndInv, Spawn, Enter, logVars
<1>1. inHand \in Offsets /\ task[inHand] = "none"
    BY ExecutorAssumption DEF LoopDiscipline, TypeOK, Offsets, TaskDiscipline
<1>2. TypeOK'
    BY <1>1, ExecutorAssumption, SlotsPositive
    DEF TypeOK, SlotFree, LoopStates, TaskStates, Offsets
<1>3. /\ SlotHolders' = SlotHolders \cup {inHand}
      /\ GroupMembers' = GroupMembers \cup {inHand}
      /\ Started' = Started \cup {inHand}
      /\ inHand \notin SlotHolders /\ inHand \notin GroupMembers /\ inHand \notin Started
    BY <1>1 DEF TypeOK, SlotHolders, GroupMembers, Started
<1>4. Accounting'
    <2>1. SlotHolders \in SUBSET Offsets /\ GroupMembers \in SUBSET Offsets
          /\ Started \in SUBSET Offsets
        BY DEF SlotHolders, GroupMembers, Started
    <2> QED
        BY <1>1, <1>3, <2>1, CountAdd DEF Accounting
<1>5. TaskDiscipline'
    BY <1>1, ExecutorAssumption DEF TaskDiscipline, LoopDiscipline, TypeOK, Offsets
<1>6. LoopDiscipline'
    BY DEF LoopDiscipline
<1>7. NothingBehind'
    BY <1>1 DEF NothingBehind, LoopDiscipline, TypeOK
<1>8. ScriptLimit'
    BY <1>1, ExecutorAssumption DEF ScriptLimit, LoopDiscipline, TypeOK
<1> QED
    BY <1>2, <1>4, <1>5, <1>6, <1>7, <1>8

\* The steps of the main goroutine that touch neither records nor counters.
LEMMA ReturnIndInv ==
    ASSUME IndInv, StopAtMaxScripts \/ WaitReturns \/ DeferredClose \/ Exit
    PROVE  IndInv'
<1> USE DEF IndInv, StopAtMaxScripts, WaitReturns, DeferredClose, Exit, Stop,
            logVars, taskVars, loopVars
<1>1. TypeOK'
    BY DEF TypeOK, LoopStates
<1>2. Accounting'
    BY SameTasks DEF Accounting
<1>3. TaskDiscipline'
    BY DEF TaskDiscipline
<1>4. LoopDiscipline'
    BY DEF LoopDiscipline, AllDone
<1>5. NothingBehind'
    BY DEF NothingBehind, LoopDiscipline
<1>6. ScriptLimit'
    BY DEF ScriptLimit
<1> QED
    BY <1>1, <1>2, <1>3, <1>4, <1>5, <1>6

LEMMA EnvironmentIndInv ==
    ASSUME IndInv, Produce \/ Cancel \/ UNCHANGED vars
    PROVE  IndInv'
<1> USE DEF IndInv, Produce, Cancel, vars, logVars, taskVars, loopVars
<1>1. TypeOK'
    <2>1. cancelled' \in BOOLEAN
        BY Zenon DEF TypeOK
    <2>2. produced' \in 0..NumMessages /\ committed' \in 0..produced'
        BY ExecutorAssumption DEF TypeOK
    <2> QED
        BY <2>1, <2>2 DEF TypeOK
<1>2. Accounting'
    BY SameTasks DEF Accounting
<1>3. TaskDiscipline' /\ LoopDiscipline' /\ ScriptLimit'
    BY DEF TaskDiscipline, LoopDiscipline, ScriptLimit
<1>4. NothingBehind'
    BY DEF NothingBehind, TypeOK
<1> QED
    BY <1>1, <1>2, <1>3, <1>4

\* Running and publishing keep the slot; the two releases give up one thing
\* each.
LEMMA TaskIndInv ==
    ASSUME IndInv, NEW m \in Offsets, TaskStep(m)
    PROVE  IndInv'
<1> USE DEF IndInv, logVars, loopVars
<1>1. SlotHolders \in SUBSET Offsets /\ GroupMembers \in SUBSET Offsets
      /\ Started \in SUBSET Offsets
    BY DEF SlotHolders, GroupMembers, Started
<1>2. CASE RunSuite(m) \/ AbortRun(m) \/ Publish(m)
    <2> USE <1>2 DEF RunSuite, AbortRun, Publish, Goto
    <2>1. TypeOK'
        BY DEF TypeOK, TaskStates, Verdicts
    <2>2. SlotHolders' = SlotHolders /\ GroupMembers' = GroupMembers /\ Started' = Started
        BY DEF TypeOK, SlotHolders, GroupMembers, Started
    <2>3. Accounting'
        BY <2>2 DEF Accounting
    <2>4. TaskDiscipline'
        BY DEF TaskDiscipline, TypeOK
    <2>5. LoopDiscipline' /\ ScriptLimit'
        BY DEF LoopDiscipline, ScriptLimit
    <2>6. NothingBehind'
        BY DEF NothingBehind, TypeOK
    <2> QED
        BY <2>1, <2>3, <2>4, <2>5, <2>6
<1>3. CASE ReleaseSlot(m)
    <2> USE <1>3 DEF ReleaseSlot, Goto
    <2>1. /\ SlotHolders' = SlotHolders \ {m} /\ m \in SlotHolders
          /\ GroupMembers' = GroupMembers /\ Started' = Started
        BY DEF TypeOK, SlotHolders, GroupMembers, Started
    <2>2. Accounting' /\ sem >= 1
        BY <1>1, <2>1, CountRemove DEF Accounting
    <2>3. TypeOK'
        BY <2>2, SlotsPositive DEF TypeOK, TaskStates
    <2>4. TaskDiscipline'
        BY DEF TaskDiscipline, TypeOK
    <2>5. LoopDiscipline' /\ ScriptLimit'
        BY DEF LoopDiscipline, ScriptLimit
    <2>6. NothingBehind'
        BY DEF NothingBehind, TypeOK
    <2> QED
        BY <2>2, <2>3, <2>4, <2>5, <2>6
<1>4. CASE WgDone(m)
    <2> USE <1>4 DEF WgDone, Goto
    <2>1. /\ GroupMembers' = GroupMembers \ {m} /\ m \in GroupMembers
          /\ SlotHolders' = SlotHolders /\ Started' = Started
        BY DEF TypeOK, SlotHolders, GroupMembers, Started
    <2>2. Accounting' /\ wg >= 1
        BY <1>1, <2>1, CountRemove DEF Accounting
    <2>3. TypeOK'
        BY <2>2 DEF TypeOK, TaskStates
    <2>4. TaskDiscipline'
        BY DEF TaskDiscipline, TypeOK
    <2>5. LoopDiscipline' /\ ScriptLimit'
        BY <2>2 DEF LoopDiscipline, ScriptLimit
    <2>6. NothingBehind'
        BY DEF NothingBehind, TypeOK
    <2> QED
        BY <2>2, <2>3, <2>4, <2>5, <2>6
<1> QED
    BY <1>2, <1>3, <1>4 DEF TaskStep, Conclude

LEMMA NextIndInv == IndInv /\ [Next]_vars => IndInv'
<1> SUFFICES ASSUME IndInv, [Next]_vars PROVE IndInv'
    OBVIOUS
<1>1. CASE Produce \/ Cancel \/ Terminated \/ UNCHANGED vars
    BY <1>1, EnvironmentIndInv DEF Terminated
<1>2. CASE MainStep
    BY <1>2, ReceiveIndInv, ReadFailsIndInv, SpawnIndInv, ReturnIndInv
    DEF MainStep, PollCancelled, Errors
<1>3. CASE ReaderFails
    BY <1>3, ReadFailsIndInv DEF ReaderFails
<1>4. ASSUME NEW m \in Offsets, TaskStep(m) PROVE IndInv'
    BY <1>4, TaskIndInv
<1> QED
    BY <1>1, <1>2, <1>3, <1>4 DEF Next

\* The inductive invariant holds in every reachable state of a runner.
THEOREM InductiveInvariant == Spec => []IndInv
<1>1. Init => IndInv
    BY InitIndInv
<1>2. IndInv /\ [Next]_vars => IndInv'
    BY NextIndInv
<1> QED
    BY <1>1, <1>2, PTL DEF Spec

-----------------------------------------------------------------------------
(* What follows from it.                                                     *)

\* Type correctness; in particular the semaphore never exceeds its capacity and
\* the wait group counter is never negative.
THEOREM TypeCorrect == Spec => []TypeOK
BY InductiveInvariant, PTL DEF IndInv

\* The semaphore, the wait group and the counter of processed scripts always
\* agree with where the goroutines are.
THEOREM CountersAgree == Spec => []Accounting
BY InductiveInvariant, PTL DEF IndInv

\* The loop never consumes more scripts than the limit allows.
THEOREM LimitRespected == Spec => []ScriptLimit
BY InductiveInvariant, PTL DEF IndInv

\* Running and publishing goroutines hold a slot each.
LEMMA JudgingBounded == IndInv => BoundedParallel
<1> SUFFICES ASSUME IndInv PROVE Cardinality(Judging) <= Slots
    BY DEF BoundedParallel
<1>1. SlotHolders \in SUBSET Offsets /\ Judging \in SUBSET SlotHolders
    BY DEF SlotHolders, Judging
<1>2. Cardinality(Judging) <= Cardinality(SlotHolders)
    BY <1>1, OffsetsFinite, FS_Subset
<1>3. Cardinality(SlotHolders) <= Slots
    BY SlotsPositive DEF IndInv, Accounting, TypeOK
<1>4. Cardinality(Judging) \in Nat /\ Cardinality(SlotHolders) \in Nat
    BY <1>1, OffsetsFinite
<1> QED
    BY <1>2, <1>3, <1>4, SlotsPositive

\* No setting makes more than maxParallel scripts run or publish at once.
THEOREM ParallelismBounded == Spec => []BoundedParallel
BY InductiveInvariant, JudgingBounded, PTL

\* An empty wait group means no goroutine is alive.
LEMMA GroupEmpty ==
    ASSUME IndInv, wg = 0
    PROVE  GroupMembers = {} /\ Judging = {}
<1>1. GroupMembers = {}
    <2>1. IsFiniteSet(GroupMembers)
        BY OffsetsFinite DEF GroupMembers
    <2> QED
        BY <2>1, FS_EmptySet DEF IndInv, Accounting
<1> QED
    BY <1>1 DEF GroupMembers, Judging

LEMMA ReturnDrained == IndInv => Drained
<1> SUFFICES ASSUME IndInv, loop \in {"returned", "exited"}, NEW m \in Offsets
             PROVE  /\ task[m] \in {"none", "finished"}
                    /\ task[m] = "finished" => verdict[m] # "none"
    BY DEF Drained
<1>1. GroupMembers = {}
    BY GroupEmpty DEF IndInv, LoopDiscipline
<1>2. task[m] \in TaskStates
    BY DEF IndInv, TypeOK
<1> QED
    BY <1>1, <1>2 DEF IndInv, TaskDiscipline, GroupMembers, TaskStates

\* ExecuteFromProducer returns only when every goroutine it started is over.
THEOREM ReturnsDrained == Spec => []Drained
BY InductiveInvariant, ReturnDrained, PTL

LEMMA OpenWhileUsed == IndInv => NoUseAfterClose
<1> SUFFICES ASSUME IndInv PROVE NoUseAfterClose
    OBVIOUS
<1>1. CASE loop \in {"returned", "exited"}
    BY <1>1, ReturnDrained DEF Drained, NoUseAfterClose
<1>2. CASE loop \notin {"returned", "exited"}
    BY <1>2 DEF IndInv, LoopDiscipline, NoUseAfterClose, Resources
<1> QED
    BY <1>1, <1>2

\* main closes nothing that a goroutine or the loop still uses.
THEOREM ClosedAfterUse == Spec => []NoUseAfterClose
BY InductiveInvariant, OpenWhileUsed, PTL

LEMMA NothingBehindLoss == IndInv => NoSilentLoss
BY DEF IndInv, NothingBehind, LoopDiscipline, NoSilentLoss, Offsets

\* At most one consumed script is never started, and only when the read that
\* consumed it failed and stopped the loop, with whatever error.
THEOREM AtMostOneLost == Spec => []NoSilentLoss
BY InductiveInvariant, NothingBehindLoss, PTL

-----------------------------------------------------------------------------
(* Refinement: every step of the runner is a step of the contract or leaves  *)
(* the contract's state alone.                                               *)

LEMMA InitContract == Init => Contract!ContractInit
BY ExecutorAssumption
DEF Init, Contract!ContractInit, statusBar, phaseBar, RecordStatus, Judging, Offsets

\* While the loop polls, everything consumed has been started.
LEMMA PollingState ==
    ASSUME IndInv, loop = "poll"
    PROVE  /\ inHand = 0
           /\ \A m \in Offsets : m <= committed => task[m] # "none"
BY ExecutorAssumption DEF IndInv, LoopDiscipline, NothingBehind, TypeOK, Offsets

\* Steps the contract does not see.
LEMMA StutterSteps ==
    ASSUME IndInv,
           \/ Produce \/ Cancel \/ Spawn \/ DeferredClose \/ Exit \/ UNCHANGED vars
           \/ \E m \in Offsets : RunSuite(m) \/ AbortRun(m) \/ ReleaseSlot(m) \/ WgDone(m)
    PROVE  UNCHANGED Contract!contractVars
<1> USE DEF IndInv, Contract!contractVars, statusBar, phaseBar, RecordStatus,
            logVars, loopVars, taskVars
<1>1. CASE Produce \/ Cancel \/ DeferredClose \/ Exit \/ UNCHANGED vars
    <2>1. /\ committed' = committed /\ inHand' = inHand
          /\ task' = task /\ published' = published
        BY <1>1 DEF Produce, Cancel, DeferredClose, Exit, vars
    <2>2. phaseBar' = phaseBar
        BY <1>1 DEF Produce, Cancel, DeferredClose, Exit, vars
    <2> QED
        BY <2>1, <2>2 DEF Judging
<1>2. CASE Spawn
    <2>1. inHand \in Offsets /\ inHand = committed /\ task[inHand] = "none"
        BY <1>2, ExecutorAssumption
        DEF Spawn, LoopDiscipline, TypeOK, Offsets, TaskDiscipline
    <2>2. ASSUME NEW m \in Offsets PROVE RecordStatus(m)' = RecordStatus(m)
        BY <1>2, <2>1, ExecutorAssumption DEF Spawn, Judging, TypeOK, Offsets
    <2> QED
        BY <1>2, <2>2 DEF Spawn
<1>3. ASSUME NEW m \in Offsets,
             RunSuite(m) \/ AbortRun(m) \/ ReleaseSlot(m) \/ WgDone(m)
      PROVE  UNCHANGED Contract!contractVars
    <2>1. ASSUME NEW k \in Offsets PROVE RecordStatus(k)' = RecordStatus(k)
        BY <1>3, <2>1
        DEF RunSuite, AbortRun, ReleaseSlot, WgDone, Goto, Judging, TypeOK
    <2>2. phaseBar' = phaseBar
        BY <1>3 DEF RunSuite, AbortRun, ReleaseSlot, WgDone, Goto
    <2> QED
        BY <2>1, <2>2
<1> QED
    BY <1>1, <1>2, <1>3

\* Pulling a script is the contract's Take.
LEMMA ReceiveTakes ==
    ASSUME IndInv, NEW m \in Offsets, ReceiveScript(m)
    PROVE  Contract!Take(m)
<1> USE DEF IndInv, ReceiveScript, ReadNext, Polling, logVars, taskVars
<1>1. /\ inHand = 0 /\ m = committed + 1 /\ committed \in Nat /\ task[m] = "none"
      /\ \A k \in Offsets : k <= committed => task[k] # "none"
    BY PollingState, ExecutorAssumption DEF TypeOK, TaskDiscipline, Offsets
<1>2. Contract!Taken = Judging
    BY <1>1, ExecutorAssumption
    DEF Contract!Taken, statusBar, RecordStatus, Judging, TaskDiscipline, Offsets
<1>3. Cardinality(Contract!Taken) < Slots + 1
    <2>1. Judging \in SUBSET Offsets
        BY DEF Judging
    <2> QED
        BY <1>2, <2>1, JudgingBounded, OffsetsFinite, SlotsPositive DEF BoundedParallel
<1>4. Contract!Oldest(m)
    BY <1>1, ExecutorAssumption
    DEF Contract!Oldest, statusBar, RecordStatus, Judging, Offsets
<1>5. statusBar' = [statusBar EXCEPT ![m] = "taken"]
    <2>1. ASSUME NEW k \in Offsets
          PROVE  RecordStatus(k)' = IF k = m THEN "taken" ELSE RecordStatus(k)
        BY <1>1, ExecutorAssumption DEF RecordStatus, Judging, Offsets
    <2> QED
        BY <2>1 DEF statusBar
<1>6. phaseBar = "open" /\ phaseBar' = phaseBar
    BY DEF phaseBar
<1>7. Contract!Cardinality(Contract!Taken) = Cardinality(Contract!Taken)
    BY DEF Contract!Cardinality, Cardinality
<1> QED
    BY <1>3, <1>4, <1>5, <1>6, <1>7 DEF Contract!Take

\* Every end of the loop is the contract's StopIntake.
LEMMA StopStops ==
    ASSUME IndInv,
           \/ StopAtMaxScripts \/ PollCancelled \/ ReaderFails
           \/ \E m \in Offsets : ReceiveDone(m) \/ ReceiveInvalid(m)
    PROVE  Contract!StopIntake
<1> USE DEF IndInv, StopAtMaxScripts, ReadFails, PollCancelled, ReaderFails,
            ReceiveDone, ReceiveInvalid, ReadNext, Polling, StopOn, Stop, logVars,
            taskVars
<1>1. /\ inHand = 0 /\ inHand' = 0 /\ task' = task /\ published' = published
      /\ committed \in Nat
      /\ \A k \in Offsets : k <= committed => task[k] # "none"
      /\ \A k \in Offsets : k > committed => task[k] = "none"
    BY PollingState, ExecutorAssumption DEF TypeOK, TaskDiscipline, Offsets
<1>2. phaseBar = "open" /\ phaseBar' = "closing"
    BY DEF phaseBar
<1>3. CASE committed' = committed
    BY <1>1, <1>2, <1>3 DEF Contract!StopIntake, statusBar, RecordStatus, Judging
<1>4. ASSUME NEW m \in Offsets, m = committed + 1, committed' = m
      PROVE  Contract!StopIntake
    <2>1. Contract!Oldest(m)
        BY <1>1, <1>4, ExecutorAssumption
        DEF Contract!Oldest, statusBar, RecordStatus, Judging, Offsets
    <2>2. ASSUME NEW k \in Offsets
          PROVE  RecordStatus(k)' = IF k = m THEN "skipped" ELSE RecordStatus(k)
        BY <1>1, <1>4, ExecutorAssumption DEF RecordStatus, Judging, Offsets
    <2>3. statusBar' = [statusBar EXCEPT ![m] = "skipped"]
        BY <2>2 DEF statusBar
    <2> QED
        BY <1>2, <2>1, <2>3 DEF Contract!StopIntake
<1> QED
    BY <1>3, <1>4

\* The return of wg.Wait is the contract's Finish.
LEMMA WaitFinishes ==
    ASSUME IndInv, WaitReturns
    PROVE  Contract!Finish
<1> USE DEF IndInv, WaitReturns, AllDone, logVars, taskVars
<1>1. inHand = 0 /\ Judging = {}
    BY GroupEmpty DEF LoopDiscipline
<1>2. Contract!Taken = {}
    BY <1>1, ExecutorAssumption DEF Contract!Taken, statusBar, RecordStatus, Offsets
<1>3. statusBar' = statusBar
    BY DEF statusBar, RecordStatus, Judging
<1> QED
    BY <1>2, <1>3 DEF Contract!Finish, phaseBar

\* The publish call settles the record, delivered or not.
LEMMA PublishSettles ==
    ASSUME IndInv, NEW m \in Offsets, Publish(m)
    PROVE  Contract!Settle(m)
<1> USE DEF IndInv, Publish, Goto, logVars, loopVars
<1>1. m <= committed /\ m # inHand /\ committed \in Nat
    BY ExecutorAssumption DEF TaskDiscipline, TypeOK
<1>2. statusBar[m] = "taken"
    BY <1>1, ExecutorAssumption DEF statusBar, RecordStatus, Judging, Offsets
<1>3. ASSUME NEW k \in Offsets, k # m PROVE RecordStatus(k)' = RecordStatus(k)
    BY <1>3 DEF RecordStatus, Judging, TypeOK
<1>4. RecordStatus(m)' \in {"answered", "unanswered"}
    BY <1>1, ExecutorAssumption DEF RecordStatus, Judging, TypeOK, Offsets
<1>5. statusBar' = [statusBar EXCEPT ![m] = RecordStatus(m)']
    BY <1>3 DEF statusBar
<1>6. phaseBar' = phaseBar
    BY DEF phaseBar
<1> QED
    BY <1>2, <1>4, <1>5, <1>6 DEF Contract!Settle

LEMMA NextContract ==
    IndInv /\ [Next]_vars => [Contract!ContractNext]_Contract!contractVars
<1> SUFFICES ASSUME IndInv, [Next]_vars
             PROVE  Contract!ContractNext \/ UNCHANGED Contract!contractVars
    OBVIOUS
<1> USE DEF Contract!ContractNext
<1>1. CASE Produce \/ Cancel \/ Terminated \/ UNCHANGED vars
    BY <1>1, StutterSteps DEF Terminated
<1>2. CASE MainStep
    BY <1>2, ReceiveTakes, StopStops, WaitFinishes, StutterSteps
    DEF MainStep, Receive
<1>3. CASE ReaderFails
    BY <1>3, StopStops
<1>4. ASSUME NEW m \in Offsets, TaskStep(m)
      PROVE  Contract!ContractNext \/ UNCHANGED Contract!contractVars
    BY <1>4, PublishSettles, StutterSteps DEF TaskStep, Conclude
<1> QED
    BY <1>1, <1>2, <1>3, <1>4 DEF Next

\* A runner implements the contract for every log and every setting: records in
\* order and at most once, at most maxParallel + 1 open, at most one consumed
\* without being taken, and none open at the end.
THEOREM RunnerImplementsContract == Spec => ImplementsContract
<1>1. Init => Contract!ContractInit
    BY InitContract
<1>2. IndInv /\ [Next]_vars => [Contract!ContractNext]_Contract!contractVars
    BY NextContract
<1>3. Spec => []IndInv
    BY InductiveInvariant
<1> QED
    BY <1>1, <1>2, <1>3, PTL DEF Spec, ImplementsContract, Contract!ContractSpec
==============================================================================
