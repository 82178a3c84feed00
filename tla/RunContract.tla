----------------------------- MODULE RunContract -----------------------------
(* What the preparation and one run of a script promise to the suite that    *)
(* asks for them, without containers, contexts or calls to a daemon:         *)
(*   - the program is started once at most, after the build, and not once    *)
(*     there is an answer;                                                   *)
(*   - it ends by itself, or is killed, before the answer and only when its  *)
(*     limit has passed;                                                     *)
(*   - there is one answer: a status that says how the program ended, BF     *)
(*     from the build, or an error;                                          *)
(*   - a program without an end to tell is given up for an error only.       *)
VARIABLES
    limited,    \* the program has a time limit
    overdue,    \* the limit has passed and the program was still waited for
    stage,      \* what is under way: build or run
    program,    \* the program: none yet, running, how it ended, or given up
    verdict     \* the answer, none as long as there is none

contractVars == <<limited, overdue, stage, program, verdict>>

OwnEnds == {"success", "failure", "oom"}
Ended == OwnEnds \cup {"killed"}

ContractInit ==
    /\ limited \in BOOLEAN
    /\ overdue = FALSE
    /\ stage \in {"build", "run"}
    /\ program = "none"
    /\ verdict = "none"

\* A step may have its effect and yet end in an error.
GoesOn == UNCHANGED verdict
GivesUp == verdict' = "error"

Built ==
    /\ verdict = "none"
    /\ stage = "build" /\ stage' = "run"
    /\ UNCHANGED <<limited, overdue, program, verdict>>

Launch ==
    /\ verdict = "none"
    /\ stage = "run"
    /\ program = "none" /\ program' = "running"
    /\ GoesOn \/ GivesUp
    /\ UNCHANGED <<limited, overdue, stage>>

\* The program of an answered error may still be running, and end.
End ==
    /\ program = "running" /\ program' \in OwnEnds
    /\ UNCHANGED <<limited, overdue, stage, verdict>>

\* Only a program that was started and has no answer yet can be late.
LimitPasses ==
    /\ verdict = "none"
    /\ limited
    /\ program \in Ended \cup {"running"}
    /\ overdue' = TRUE
    /\ UNCHANGED <<limited, stage, program, verdict>>

Kill ==
    /\ verdict = "none"
    /\ overdue
    /\ program = "running" /\ program' = "killed"
    /\ GoesOn \/ GivesUp
    /\ UNCHANGED <<limited, overdue, stage>>

\* The answers that say what happened. OK does not depend on the exit code. Once
\* the limit has passed TL is one of them however the program ended: it may have
\* done so by itself, before it was looked at or while it was being stopped.
Grounded(v) ==
    \/ v = "error"
    \/ v = "BF" /\ stage = "build"
    \/ v = "OK" /\ program \in {"success", "failure"}
    \/ v = "ML" /\ program = "oom"
    \/ v = "TL" /\ overdue /\ program \in Ended

Answer ==
    /\ verdict = "none"
    /\ \E v \in {"OK", "ML", "TL", "BF", "error"} : Grounded(v) /\ verdict' = v
    /\ UNCHANGED <<limited, overdue, stage, program>>

Discard ==
    /\ verdict = "error"
    /\ program \in {"none", "running"} /\ program' = "gone"
    /\ UNCHANGED <<limited, overdue, stage, verdict>>

ContractNext == Built \/ Launch \/ End \/ LimitPasses \/ Kill \/ Answer \/ Discard

ContractSpec == ContractInit /\ [][ContractNext]_contractVars
==============================================================================
