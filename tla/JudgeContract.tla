---------------------------- MODULE JudgeContract ----------------------------
(* What one runner promises about the records of the scripts topic, without  *)
(* goroutines, semaphores or wait groups:                                    *)
(*   - records are taken in log order, each at most once;                    *)
(*   - at most Capacity taken records are waiting for their report;          *)
(*   - a taken record is closed, with a report delivered (answered) or with  *)
(*     none (unanswered: publishing is best effort);                         *)
(*   - at most one record is consumed without being taken, by the very step  *)
(*     that stops the intake;                                                *)
(*   - the runner finishes only when no taken record is open.                *)
EXTENDS Naturals, FiniteSets

CONSTANTS
    Offsets,    \* the records of the log, numbered in log order
    Capacity    \* how many records may be open at the same time

VARIABLES
    status,     \* what became of each record
    phase       \* the intake: open, closing (no more records) or closed

contractVars == <<status, phase>>

Statuses == {"queued", "taken", "answered", "unanswered", "skipped"}
Phases == {"open", "closing", "closed"}

Taken == {m \in Offsets : status[m] = "taken"}

\* m is the oldest record nobody has read.
Oldest(m) ==
    /\ status[m] = "queued"
    /\ \A k \in Offsets : k < m => status[k] # "queued"

ContractInit ==
    /\ status = [m \in Offsets |-> "queued"]
    /\ phase = "open"

Take(m) ==
    /\ phase = "open"
    /\ Oldest(m)
    /\ Cardinality(Taken) < Capacity
    /\ status' = [status EXCEPT ![m] = "taken"]
    /\ UNCHANGED phase

Settle(m) ==
    /\ status[m] = "taken"
    /\ \E s \in {"answered", "unanswered"} : status' = [status EXCEPT ![m] = s]
    /\ UNCHANGED phase

\* The intake stops; the record read by this very step, if any, is skipped.
StopIntake ==
    /\ phase = "open"
    /\ phase' = "closing"
    /\ \/ UNCHANGED status
       \/ \E m \in Offsets :
             Oldest(m) /\ status' = [status EXCEPT ![m] = "skipped"]

Finish ==
    /\ phase = "closing"
    /\ Taken = {}
    /\ phase' = "closed"
    /\ UNCHANGED status

ContractNext ==
    \/ \E m \in Offsets : Take(m) \/ Settle(m)
    \/ StopIntake
    \/ Finish

ContractSpec == ContractInit /\ [][ContractNext]_contractVars
==============================================================================
