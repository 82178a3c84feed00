----------------------------- MODULE LimitsProofs -----------------------------
(* Proofs about Limits, for every width of the integers and every setting.   *)
EXTENDS Limits, TLAPS

USE LimitsAssumption

-----------------------------------------------------------------------------
(* The conversion to int64.                                                  *)

LEMMA RemainderOfSmall ==
    ASSUME NEW a \in Nat, NEW b \in Nat, a < b PROVE a % b = a
OBVIOUS

LEMMA RemainderBound ==
    ASSUME NEW a \in Int, NEW b \in Nat \ {0} PROVE a % b \in 0..(b - 1)
OBVIOUS

\* A converted number has the width of int64.
LEMMA Int64Range ==
    ASSUME NEW n \in Int PROVE Int64(n) \in (-MaxInt - 1)..MaxInt
<1> DEFINE a == n + MaxInt + 1
           b == 2 * (MaxInt + 1)
<1>1. a \in Int /\ b \in Nat \ {0}
    OBVIOUS
<1>2. a % b \in 0..(b - 1)
    <2> HIDE DEF a, b
    <2> QED
        BY <1>1, RemainderBound
<1> QED
    BY <1>2 DEF Int64

LEMMA QuotientAndRest ==
    ASSUME NEW a \in Int, NEW b \in Int, b > 0 PROVE a = b * (a \div b) + (a % b)
OBVIOUS

\* The rest of a division is unique.
LEMMA RestUnique ==
    ASSUME NEW b \in Nat \ {0}, NEW q \in Int, NEW r \in 0..(b - 1)
    PROVE  (b * q + r) % b = r
<1> DEFINE a == b * q + r
           u == a \div b
           v == a % b
<1>1. a \in Int
    OBVIOUS
<1>2. u \in Int /\ v \in 0..(b - 1) /\ a = b * u + v
    <2>1. a \div b \in Int /\ a = b * (a \div b) + (a % b)
        BY <1>1, QuotientAndRest
    <2>2. a % b \in 0..(b - 1)
        BY <1>1, RemainderBound
    <2> QED
        BY <2>1, <2>2
<1> HIDE DEF u, v
<1>3. b * (q - u) = v - r
    BY <1>2
<1>4. q - u < 1 /\ q - u > -1
    <2>1. ASSUME q - u >= 1 PROVE FALSE
        <3>1. b * (q - u) >= b
            BY <1>2, <2>1
        <3> QED
            BY <1>2, <1>3, <3>1
    <2>2. ASSUME q - u <= -1 PROVE FALSE
        <3>1. b * (q - u) <= -b
            BY <1>2, <2>2
        <3> QED
            BY <1>2, <1>3, <3>1
    <2> QED
        BY <1>2, <2>1, <2>2
<1>5. v = r
    BY <1>2, <1>3, <1>4
<1> QED
    BY <1>5 DEF v

\* A conversion to int64 keeps a positive number's low bits, read with their sign.
LEMMA Int64Keeps ==
    ASSUME NEW n \in Nat
    PROVE  /\ Kept(n) \in 0..(2 * MaxInt + 1)
           /\ Kept(n) \in 0..MaxInt => Int64(n) = Kept(n)
           /\ Kept(n) > MaxInt => Int64(n) < 0
<1> DEFINE b == 2 * (MaxInt + 1)
           q == n \div b
           w == n % b
<1>1. b \in Nat \ {0} /\ b - 1 = 2 * MaxInt + 1
    OBVIOUS
<1>2. q \in Int /\ w \in 0..(b - 1) /\ n = b * q + w
    <2> HIDE DEF b
    <2> QED
        BY <1>1, QuotientAndRest, RemainderBound
<1>3. Kept(n) = w /\ Int64(n) = ((n + MaxInt + 1) % b) - MaxInt - 1
    BY DEF Kept, Int64
<1> HIDE DEF q, w
<1>4. ASSUME w <= MaxInt
      PROVE  Int64(n) = w
    <2>1. n + MaxInt + 1 = b * q + (w + MaxInt + 1) /\ w + MaxInt + 1 \in 0..(b - 1)
        BY <1>1, <1>2, <1>4
    <2>2. (n + MaxInt + 1) % b = w + MaxInt + 1
        <3> HIDE DEF b
        <3> QED
            BY <1>1, <1>2, <2>1, RestUnique
    <2> QED
        BY <1>2, <1>3, <2>2
<1>5. ASSUME w > MaxInt
      PROVE  Int64(n) < 0
    <2>1. n + MaxInt + 1 = b * (q + 1) + (w - MaxInt - 1) /\ w - MaxInt - 1 \in 0..(b - 1)
        BY <1>1, <1>2, <1>5
    <2>2. (n + MaxInt + 1) % b = w - MaxInt - 1
        <3>1. q + 1 \in Int
            BY <1>2
        <3> HIDE DEF b
        <3> QED
            BY <1>1, <2>1, <3>1, RestUnique
    <2>3. w <= 2 * MaxInt + 1
        BY <1>1, <1>2
    <2> QED
        BY <1>2, <1>3, <2>2, <2>3
<1> QED
    BY <1>1, <1>2, <1>3, <1>4, <1>5

-----------------------------------------------------------------------------
(* The functions on limits.                                                  *)

Widths == [Kinds -> (-MaxInt - 1)..MaxInt]
Records == {<<>>} \cup {<<f>> : f \in [Kinds -> Fields]}

LEMMA NormalizedRange ==
    ASSUME NEW l \in Widths PROVE normalizeLimits(l) \in [Kinds -> 0..MaxInt]
BY DEF normalizeLimits, Widths

LEMMA RequestRange ==
    ASSUME NEW r \in Records PROVE toLimits(r) \in Widths
<1> SUFFICES ASSUME NEW k \in Kinds PROVE toLimits(r)[k] \in (-MaxInt - 1)..MaxInt
    BY DEF toLimits, Widths
<1>1. CASE r = <<>>
    BY <1>1 DEF toLimits
<1>2. CASE r # <<>>
    <2>1. r[1][k] \in (-MaxInt - 1)..MaxInt
        BY <1>2 DEF Records
    <2>2. r[1][k] * TicksPerMs \in Int
        BY <2>1
    <2>3. Int64(r[1][k] * TicksPerMs) \in (-MaxInt - 1)..MaxInt
        BY <2>2, Int64Range
    <2> QED
        BY <1>2, <2>1, <2>3 DEF toLimits
<1> QED
    BY <1>1, <1>2

LEMMA EffectiveRange ==
    ASSUME NEW base \in [Kinds -> 0..MaxInt], NEW request \in Widths
    PROVE  effectiveLimits(base, request) \in [Kinds -> 0..MaxInt]
<1>1. normalizeLimits(request) \in [Kinds -> 0..MaxInt]
    BY NormalizedRange
<1> QED
    BY <1>1 DEF effectiveLimits

LEMMA DefaultsAreRunners ==
    ASSUME TypeOK
    PROVE  /\ normalizeLimits([k \in Kinds |-> FromEnv(k, env[k])]) = [k \in Kinds |-> RunnerLimit(k)]
           /\ [k \in Kinds |-> RunnerLimit(k)] \in [Kinds -> 0..MaxInt]
<1> SUFFICES ASSUME NEW k \in Kinds
             PROVE  /\ (IF FromEnv(k, env[k]) < 0 THEN 0 ELSE FromEnv(k, env[k])) = RunnerLimit(k)
                    /\ RunnerLimit(k) \in 0..MaxInt
    BY DEF normalizeLimits
<1>1. CASE env[k] = <<>>
    BY <1>1 DEF FromEnv, RunnerLimit
<1>2. CASE env[k] # <<>>
    <2>1. env[k][1] \in (-MaxInt - 1)..MaxInt
        BY <1>2 DEF TypeOK
    <2> QED
        BY <1>2, <2>1 DEF FromEnv, RunnerLimit, Kinds
<1> QED
    BY <1>1, <1>2

-----------------------------------------------------------------------------
(* The invariant.                                                            *)

LEMMA InitIndInv == Init => IndInv
<1> SUFFICES ASSUME Init PROVE IndInv
    OBVIOUS
<1>1. TypeOK
    BY DEF Init, TypeOK, NoLimits
<1>2. requested = toLimits(record)
    BY DEF Init, NoLimits, toLimits
<1>3. NoNegativeLimit
    BY DEF Init, NoNegativeLimit, NoLimits
<1> QED
    BY <1>1, <1>2, <1>3 DEF IndInv, Init

LEMMA StartIndInv == IndInv /\ Start => IndInv'
<1> SUFFICES ASSUME IndInv, Start PROVE IndInv'
    OBVIOUS
<1>1. /\ defaults' = [k \in Kinds |-> RunnerLimit(k)]
      /\ defaults' \in [Kinds -> 0..MaxInt]
    BY DefaultsAreRunners DEF IndInv, Start
<1>2. TypeOK'
    BY <1>1 DEF IndInv, Start, TypeOK
<1> QED
    BY <1>1, <1>2 DEF IndInv, Start, NoNegativeLimit, RunnerLimit

LEMMA DecodeIndInv == IndInv /\ Decode => IndInv'
<1> SUFFICES ASSUME IndInv, Decode PROVE IndInv'
    OBVIOUS
<1>1. requested' \in Widths
    BY RequestRange DEF Decode, Records
<1>2. TypeOK'
    BY <1>1 DEF IndInv, Decode, TypeOK, Widths
<1> QED
    BY <1>2 DEF IndInv, Decode, NoNegativeLimit, RunnerLimit

LEMMA RunIndInv == IndInv /\ Run => IndInv'
<1> SUFFICES ASSUME IndInv, Run PROVE IndInv'
    OBVIOUS
<1>1. defaults \in [Kinds -> 0..MaxInt]
    BY DefaultsAreRunners DEF IndInv, Run
<1>2. requested \in Widths
    BY RequestRange DEF IndInv, TypeOK, Records
<1>3. effective' \in [Kinds -> 0..MaxInt]
    BY <1>1, <1>2, EffectiveRange DEF Run
<1>4. TypeOK'
    BY <1>3 DEF IndInv, Run, KeepDefaults, TypeOK
<1> QED
    BY <1>3, <1>4 DEF IndInv, Run, KeepDefaults, NoNegativeLimit, RunnerLimit

LEMMA NextIndInv == IndInv /\ [Next]_vars => IndInv'
<1>1. CASE UNCHANGED vars
    BY <1>1 DEF vars, IndInv, TypeOK, NoNegativeLimit, RunnerLimit
<1> QED
    BY <1>1, StartIndInv, DecodeIndInv, RunIndInv DEF Next

\* The stages leave the defaults alone, and each run's limits are computed from
\* them and from the current record.
THEOREM InductiveInvariant == Spec => []IndInv
BY InitIndInv, NextIndInv, PTL DEF Spec

-----------------------------------------------------------------------------
(* What it implies.                                                          *)

\* No limit below zero reaches a run, whatever was set and however wide the
\* integers are.
THEOREM LimitsNotNegative == Spec => []NoNegativeLimit
<1>1. IndInv => NoNegativeLimit
    BY DEF IndInv
<1> QED
    BY <1>1, InductiveInvariant, PTL

\* A script's limits, in a run with the invariant.
LEMMA EffectiveOfRun ==
    ASSUME IndInv, stage = "run", NEW k \in Kinds
    PROVE  /\ requested \in Widths
           /\ RunnerLimit(k) \in 0..MaxInt
           /\ effective[k] = IF requested[k] > 0 THEN requested[k] ELSE RunnerLimit(k)
<1>1. requested \in Widths
    BY RequestRange DEF IndInv, TypeOK, Records
<1>2. RunnerLimit(k) \in 0..MaxInt
    BY DefaultsAreRunners DEF IndInv
<1>3. effective[k] = IF requested[k] > 0 THEN requested[k] ELSE RunnerLimit(k)
    BY <1>1 DEF IndInv, effectiveLimits, normalizeLimits, Widths
<1> QED
    BY <1>1, <1>2, <1>3

\* No record, not even one whose time limit wraps around, lifts a limit that
\* the runner has set.
THEOREM NoLimitLifted == Spec => []LimitNotLifted
<1>1. IndInv => LimitNotLifted
    <2> SUFFICES ASSUME IndInv, stage = "run", NEW k \in Kinds, RunnerLimit(k) > 0
                 PROVE  effective[k] > 0
        BY DEF LimitNotLifted
    <2> QED
        BY EffectiveOfRun DEF Widths
<1> QED
    BY <1>1, InductiveInvariant, PTL

\* A run has what is kept of its own script's limits where that is positive, and
\* otherwise the runner's, for every width of the integers and every unit.
THEOREM LimitsAreOwn == Spec => []LimitsOfOwnScript
<1>1. IndInv => LimitsOfOwnScript
    <2> SUFFICES ASSUME IndInv, stage = "run", NEW k \in Kinds
                 PROVE  effective[k] = IF Asked(k) > 0 /\ Kept(Asked(k)) \in 1..MaxInt
                                       THEN Kept(Asked(k)) ELSE RunnerLimit(k)
        BY DEF LimitsOfOwnScript
    <2>1. record \in Records /\ requested = toLimits(record)
        BY DEF IndInv, TypeOK, Records
    <2>2. /\ requested[k] \in Int /\ RunnerLimit(k) \in Int
          /\ effective[k] = IF requested[k] > 0 THEN requested[k] ELSE RunnerLimit(k)
        BY EffectiveOfRun DEF Widths
    <2>3. ASSUME record # <<>>
          PROVE  record[1][k] \in (-MaxInt - 1)..MaxInt
        BY <2>1, <2>3 DEF Records
    <2>4. CASE record = <<>> \/ record[1][k] <= 0
        <3>1. requested[k] = 0
            BY <2>1, <2>4 DEF toLimits
        <3>2. ~(Asked(k) > 0)
            <4>1. CASE record = <<>>
                BY <4>1 DEF Asked
            <4>2. CASE record # <<>>
                <5>1. record[1][k] \in Int /\ record[1][k] <= 0
                    BY <2>3, <2>4, <4>2
                <5>2. record[1][k] * TicksPerMs <= 0
                    BY <5>1
                <5> QED
                    BY <4>2, <5>1, <5>2 DEF Asked
            <4> QED
                BY <4>1, <4>2
        <3> QED
            BY <2>2, <3>1, <3>2
    <2>5. CASE record # <<>> /\ record[1][k] > 0
        <3>1. record[1][k] \in 1..MaxInt
            BY <2>3, <2>5
        <3>2. CASE k = "memory"
            <4>1. Asked(k) = record[1][k] /\ requested[k] = record[1][k]
                BY <2>1, <2>5, <3>1, <3>2 DEF Asked, toLimits
            <4>2. Asked(k) \in 1..MaxInt
                BY <3>1, <4>1
            <4>3. Kept(Asked(k)) = Asked(k)
                <5> DEFINE b == 2 * (MaxInt + 1)
                <5>1. Asked(k) \in Nat /\ b \in Nat /\ Asked(k) < b
                    BY <4>2
                <5>2. Asked(k) % b = Asked(k)
                    <6> HIDE DEF b
                    <6> QED
                        BY <5>1, RemainderOfSmall
                <5> QED
                    BY <5>2 DEF Kept
            <4> QED
                BY <2>2, <4>1, <4>2, <4>3
        <3>3. CASE k = "time"
            <4> DEFINE n == record[1][k] * TicksPerMs
            <4>1. n \in Nat \ {0}
                BY <3>1
            <4>2. Asked(k) = n /\ requested[k] = Int64(n)
                BY <2>1, <2>5, <3>1, <3>3 DEF Asked, toLimits
            <4> HIDE DEF n
            <4>3. /\ Kept(n) \in 0..(2 * MaxInt + 1)
                  /\ Kept(n) \in 0..MaxInt => Int64(n) = Kept(n)
                  /\ Kept(n) > MaxInt => Int64(n) < 0
                BY <4>1, Int64Keeps
            <4> QED
                BY <2>2, <4>1, <4>2, <4>3
        <3> QED
            BY <3>2, <3>3 DEF Kinds
    <2> QED
        BY <2>3, <2>4, <2>5
<1> QED
    BY <1>1, InductiveInvariant, PTL
==============================================================================
