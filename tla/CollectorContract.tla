-------------------------- MODULE CollectorContract --------------------------
(* What the collectors of a case promise to the harness, as if the lock were *)
(* held from the first look at a report to the row it completes:             *)
(*   - each round has a collector of its own, which begins empty;            *)
(*   - a submission is put on the table beside the others of its round;      *)
(*   - a report completes a submission of its id that is on the table, which *)
(*     leaves it with the row, and completes no other;                       *)
(*   - a round's table has its rows, but for one at most, and all of them if *)
(*     the thread was joined; a wait that was drained left nothing behind.   *)
EXTENDS Naturals, Sequences

CONSTANTS
    Submissions, \* what is put on the table
    Reports,     \* what may complete it
    IdOf(_)      \* the id by which the one is found for the other

VARIABLES
    round,      \* rounds begun
    pending,    \* submissions on the table
    rows,       \* submissions completed in this round, each with its report
    tables      \* the tables of the rounds

contractVars == <<round, pending, rows, tables>>

ContractInit ==
    /\ round = 0
    /\ pending = {} /\ rows = {}
    /\ tables = <<>>

Begin ==
    /\ Len(tables) = round
    /\ round' = round + 1
    /\ pending' = {} /\ rows' = {}
    /\ UNCHANGED tables

Put(s) ==
    /\ Len(tables) + 1 = round
    /\ \A p \in pending : IdOf(p) # IdOf(s)
    /\ \A r \in rows : r.for # s
    /\ pending' = pending \cup {s}
    /\ UNCHANGED <<round, rows, tables>>

Complete(s, m) ==
    /\ s \in pending /\ IdOf(m.of) = IdOf(s)
    /\ \A r \in rows : r.report # m
    /\ pending' = pending \ {s}
    /\ rows' = rows \cup {[for |-> s, report |-> m]}
    /\ UNCHANGED <<round, tables>>

Close(kept, wait, join) ==
    /\ Len(tables) + 1 = round
    /\ wait = "drained" => pending = {}
    /\ join = "returned" => kept = rows
    /\ \A r, q \in rows \ kept : r = q
    /\ tables' = Append(tables, [rows |-> kept, wait |-> wait, join |-> join])
    /\ UNCHANGED <<round, pending, rows>>

ContractNext ==
    \/ Begin
    \/ \E s \in Submissions : Put(s)
    \/ \E s \in pending, m \in Reports : Complete(s, m)
    \/ \E kept \in SUBSET rows, wait \in {"drained", "timeout"}, join \in {"returned", "timeout"} :
         Close(kept, wait, join)

ContractSpec == ContractInit /\ [][ContractNext]_contractVars
==============================================================================
