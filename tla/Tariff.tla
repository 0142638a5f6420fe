------------------------------- MODULE Tariff -------------------------------
(***************************************************************************)
(* The arithmetic of a stay: occupancy, surge multiplier, hourly rate and  *)
(* final cost.  It is pure: the database steps around it are in            *)
(* PricingService and BookingService.                                      *)
(*                                                                         *)
(* Fixed point stands for the floats: occupancy in 1/10000, multipliers in *)
(* 1/100, money in 1/100 of the currency unit.  Those are the digits the   *)
(* code's round(...) calls keep, so only the binary representation error   *)
(* of a float is abstracted.                                               *)
(***************************************************************************)
EXTENDS Integers

CONSTANTS
    SurgeEnabled,    \* pricing_surge_enabled
    SurgeThreshold,  \* pricing_surge_threshold, in 1/10000
    SurgeMax,        \* pricing_surge_max, in 1/100; the settings page accepts any
    BaseRate,        \* base_rate of every slot, in 1/100 of the currency unit
    MinBilledHours   \* MIN_BILLED_HOURS

ASSUME TariffAssumption ==
    /\ SurgeEnabled \in BOOLEAN
    /\ SurgeThreshold \in Nat
    /\ SurgeMax \in Nat
    /\ BaseRate \in Nat \ {0}
    /\ MinBilledHours \in Nat

\* Python's round: to nearest, a tie to the even neighbour (b > 0).
RoundDiv(a, b) ==
    LET q == a \div b
        r == a % b
    IN  IF 2 * r > b \/ (2 * r = b /\ q % 2 = 1) THEN q + 1 ELSE q

\* The share of slots that are not free, from two counts that need not come
\* from one snapshot: free may exceed total.
OccupancyRatio(total, free) ==
    IF total = 0 THEN 0 ELSE RoundDiv((total - free) * 10000, total)

\* A bug: the ramp starts from the whole occupancy, not from the part above the
\* threshold.
ComputeSurgeNoOffset(ratio) ==
    IF ~SurgeEnabled \/ ratio <= SurgeThreshold
    THEN 100
    ELSE 100 + RoundDiv(ratio * (SurgeMax - 100), 10000 - SurgeThreshold)

\* A bug: the multiplier falls as the lot fills.
ComputeSurgeReversed(ratio) ==
    IF ~SurgeEnabled \/ ratio <= SurgeThreshold
    THEN 100
    ELSE SurgeMax - RoundDiv((ratio - SurgeThreshold) * (SurgeMax - 100),
                             10000 - SurgeThreshold)

ComputeSurge(ratio) ==
    IF ~SurgeEnabled \/ ratio <= SurgeThreshold
    THEN 100
    ELSE 100 + RoundDiv((ratio - SurgeThreshold) * (SurgeMax - 100),
                        10000 - SurgeThreshold)

CurrentRate(surge) == RoundDiv(BaseRate * surge, 100)

AtLeast(n, bound) == IF n >= bound THEN n ELSE bound

\* A bug: the started hour is not billed.
BilledHoursFloor(seconds) ==
    AtLeast(AtLeast(seconds \div 60, 1) \div 60, MinBilledHours)

\* Whole minutes, at least one; then started hours, at least the minimum.
BilledHours(seconds) ==
    AtLeast((AtLeast(seconds \div 60, 1) + 59) \div 60, MinBilledHours)

Fare(seconds, rate) == BilledHours(seconds) * rate

=============================================================================
