-------------------------------- MODULE Limits --------------------------------
(* The limits of a run: the runner's defaults from its environment, a        *)
(* script's own from its record, and what the engine makes of the two, for   *)
(* one script after another. Integers have the width of int64; the unit of a *)
(* time limit in a record is TicksPerMs of the engine's.                     *)
EXTENDS Integers

CONSTANTS
    MaxInt,      \* the greatest int64
    TicksPerMs,  \* time.Millisecond, in nanoseconds
    Settings,    \* bound: the values an environment variable may hold
    Fields       \* bound: the values a field of a record may hold

ASSUME LimitsAssumption ==
    /\ MaxInt \in Nat /\ TicksPerMs \in Nat \ {0}
    /\ Settings \cup Fields \subseteq (-MaxInt - 1)..MaxInt

VARIABLES
    stage,      \* how far the current script has come
    env,        \* RUNNER_TIME_LIMIT and RUNNER_MEMORY_LIMIT, <<>> if unusable
    defaults,   \* the engine's defaultLimits
    record,     \* the limits in the script's record, <<>> if it has none
    requested,  \* the script's Limits
    effective   \* the limits the engine gives the run

vars == <<stage, env, defaults, record, requested, effective>>

Kinds == {"time", "memory"}

NoLimits == [k \in Kinds |-> 0]

\* Multiplication and conversion in int64.
Int64(n) == ((n + MaxInt + 1) % (2 * (MaxInt + 1))) - MaxInt - 1

\* parseDuration keeps a negative duration; parseBytes does not keep a negative
\* number. An unusable value is none.
FromEnv(kind, raw) ==
    CASE raw = <<>> -> 0
      [] raw # <<>> /\ kind = "time" -> raw[1]
      [] raw # <<>> /\ kind = "memory" -> IF raw[1] < 0 THEN 0 ELSE raw[1]

\* Mutant of normalizeLimits: nothing is normalised.
NormalizeNothing(l) == l

normalizeLimits(l) == [k \in Kinds |-> IF l[k] < 0 THEN 0 ELSE l[k]]

\* The record's limits that are positive, the time limit in ticks.
toLimits(fields) ==
    [k \in Kinds |->
        IF fields = <<>> \/ fields[1][k] <= 0 THEN 0
        ELSE IF k = "time" THEN Int64(fields[1][k] * TicksPerMs) ELSE fields[1][k]]

\* Mutant of effectiveLimits: the script's limits replace the runner's.
OwnLimitsOnly(base, request) == normalizeLimits(request)

effectiveLimits(base, request) ==
    LET overrides == normalizeLimits(request)
    IN  [k \in Kinds |-> IF overrides[k] > 0 THEN overrides[k] ELSE base[k]]

Init ==
    /\ stage = "env"
    /\ env \in [Kinds -> {<<>>} \cup {<<n>> : n \in Settings}]
    /\ record = <<>>
    /\ defaults = NoLimits /\ requested = NoLimits /\ effective = NoLimits

\* dockerConfigFromEnv and newContainerEngine.
Start ==
    /\ stage = "env" /\ stage' = "idle"
    /\ defaults' = normalizeLimits([k \in Kinds |-> FromEnv(k, env[k])])
    /\ UNCHANGED <<env, record, requested, effective>>

\* The next script's record is decoded.
Decode ==
    /\ stage \in {"idle", "run"} /\ stage' = "decoded"
    /\ record' \in {<<>>} \cup {<<f>> : f \in [Kinds -> Fields]}
    /\ requested' = toLimits(record')
    /\ UNCHANGED <<env, defaults, effective>>

\* Mutant of KeepDefaults: the struct is not copied.
OverwriteDefaults == defaults' = effective'

KeepDefaults == UNCHANGED defaults

\* runProgram asks for the limits of the run.
Run ==
    /\ stage = "decoded" /\ stage' = "run"
    /\ effective' = effectiveLimits(defaults, requested)
    /\ KeepDefaults
    /\ UNCHANGED <<env, record, requested>>

Next == Start \/ Decode \/ Run

Spec == Init /\ [][Next]_vars

-----------------------------------------------------------------------------
(* Properties.                                                               *)

RunnerLimit(k) ==
    IF env[k] = <<>> \/ env[k][1] <= 0 THEN 0 ELSE env[k][1]

\* Every variable stays in its type.
TypeOK ==
    /\ stage \in {"env", "idle", "decoded", "run"}
    /\ env \in [Kinds -> {<<>>} \cup {<<n>> : n \in Settings}]
    /\ record \in {<<>>} \cup {<<f>> : f \in [Kinds -> Fields]}
    /\ defaults \in [Kinds -> Int] /\ requested \in [Kinds -> Int]
    /\ effective \in [Kinds -> Int]

\* No limit below zero reaches a run, though a negative one can be set and a
\* large one wraps around (config.go:104-113, messages.go:116, limits.go 5-13,
\* container_engine.go 43-55): the engine takes zero only for no limit.
NoNegativeLimit == \A k \in Kinds : effective[k] \in 0..MaxInt

\* A script cannot lift a limit that the runner has set, whatever its record
\* says, a limit that wraps around included (container_engine.go 43-55). The
\* README reads a 0 in a record as no limit (README.md:463-464) and calls the
\* runner's a default (README.md:352-353); for the code a 0 asks for nothing, and
\* the runner's limit stays. That is the reading here.
LimitNotLifted ==
    stage = "run" => \A k \in Kinds : RunnerLimit(k) > 0 => effective[k] > 0

\* What the script's record asks for, in the engine's units.
Asked(k) ==
    IF record = <<>> THEN 0 ELSE record[1][k] * (IF k = "time" THEN TicksPerMs ELSE 1)

\* What an int64 keeps of a number.
Kept(n) == n % (2 * (MaxInt + 1))

\* The limits of a run are those that its own record asks for, never those of a
\* script before it. Of a time limit that does not fit an int64, the run has what
\* is kept of it where that is a positive int64; and where nothing positive is
\* kept, or nothing positive is asked for, it has the runner's (messages.go
\* 109-122, container_engine.go 43-55). The README has a 0 stand for no limit and
\* a negative number refused (README.md:463-464 and 474-475); the code does neither.
LimitsOfOwnScript ==
    stage = "run" => \A k \in Kinds :
        effective[k] = IF Asked(k) > 0 /\ Kept(Asked(k)) \in 1..MaxInt
                       THEN Kept(Asked(k)) ELSE RunnerLimit(k)

\* What the stages leave behind them.
IndInv ==
    /\ TypeOK
    /\ stage # "env" => defaults = [k \in Kinds |-> RunnerLimit(k)]
    /\ requested = toLimits(record)
    /\ stage = "run" => effective = effectiveLimits(defaults, requested)
    /\ NoNegativeLimit
==============================================================================
