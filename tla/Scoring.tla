------------------------------ MODULE Scoring ------------------------------
(***************************************************************************)
(* The scoring formula (crates/protocol/src/scoring.rs).  An entry is what *)
(* the run state machine records for a map; its `kills' stand for kills    *)
(* and secrets.  MaxInt is i64::MAX: every sum and product saturates there.*)
(***************************************************************************)
EXTENDS Integers, Sequences, FiniteSets

CONSTANTS
    POINTS_PER_KILL,
    POINTS_PER_ITEM,
    COMPLETION_BONUS,
    TIME_BONUS_PAR_SECONDS,
    TIME_BONUS_PER_SECOND,
    DEPTH_BONUS_PER_MAP,
    TICS_PER_SECOND,
    MaxInt

ASSUME ScoringAssumption ==
    /\ {POINTS_PER_KILL, POINTS_PER_ITEM, COMPLETION_BONUS, TIME_BONUS_PAR_SECONDS,
        TIME_BONUS_PER_SECOND, DEPTH_BONUS_PER_MAP, MaxInt} \subseteq Nat
    /\ TICS_PER_SECOND \in Nat \ {0}

\* Saturating arithmetic on non-negative operands, and the clamp of negatives.
Sat(n) == IF n > MaxInt THEN MaxInt ELSE n
NonNegative(n) == IF n < 0 THEN 0 ELSE n

\* Mutant: the time bonus is not floored at par.
TimeBonusUnfloored(tics) ==
    Sat((TIME_BONUS_PAR_SECONDS - NonNegative(tics) \div TICS_PER_SECOND)
            * TIME_BONUS_PER_SECOND)

TimeBonus(tics) ==
    Sat(NonNegative(TIME_BONUS_PAR_SECONDS - NonNegative(tics) \div TICS_PER_SECOND)
            * TIME_BONUS_PER_SECOND)

CounterScore(stats) ==
    Sat(Sat(NonNegative(stats.kills) * POINTS_PER_KILL)
          + Sat(NonNegative(stats.items) * POINTS_PER_ITEM))

MapScore(entry) ==
    IF entry.completed
    THEN Sat(Sat(CounterScore(entry.stats) + COMPLETION_BONUS) + TimeBonus(entry.stats.tics))
    ELSE CounterScore(entry.stats)

MapsCompleted(entries) == Cardinality({i \in DOMAIN entries : entries[i].completed})

\* A fold with saturating_add.
SatTotal(numbers) ==
    LET sum[n \in 0..Len(numbers)] == IF n = 0 THEN 0 ELSE Sat(sum[n - 1] + numbers[n])
    IN  sum[Len(numbers)]

RunScore(entries) ==
    Sat(SatTotal([i \in DOMAIN entries |-> MapScore(entries[i])])
          + Sat(MapsCompleted(entries) * DEPTH_BONUS_PER_MAP))
=============================================================================
