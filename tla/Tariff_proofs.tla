---------------------------- MODULE Tariff_proofs ----------------------------
(* Bounds on the arithmetic of Tariff, for every setting and every count. *)
EXTENDS Tariff, TLAPS

\* Division with remainder, as the two operators define it.
LEMMA DivMod ==
    ASSUME NEW a \in Int, NEW b \in Nat \ {0}
    PROVE  /\ a \div b \in Int
           /\ a % b \in 0 .. b - 1
           /\ a = b * (a \div b) + (a % b)
  OBVIOUS

\* A product with a positive factor keeps an order.
LEMMA TimesMonotone ==
    ASSUME NEW x \in Int, NEW y \in Int, NEW b \in Nat \ {0}, x <= y
    PROVE  b * x <= b * y
  OBVIOUS

\* Rounding gives an integer.
LEMMA RoundDivInt ==
    ASSUME NEW a \in Int, NEW b \in Nat \ {0}
    PROVE  RoundDiv(a, b) \in Int
  <1>1. a \div b \in Int /\ a % b \in 0 .. b - 1
    BY DivMod
  <1> QED BY <1>1 DEF RoundDiv

\* It does not pass an integer that bounds the quotient from above ...
LEMMA RoundDivAtMost ==
    ASSUME NEW a \in Int, NEW b \in Nat \ {0}, NEW hi \in Int, a <= b * hi
    PROVE  RoundDiv(a, b) <= hi
  <1> DEFINE q == a \div b
             r == a % b
  <1>1. /\ q \in Int /\ r \in 0 .. b - 1
        /\ a = b * q + r
    BY DivMod
  <1>2. q <= hi
    <2>1. SUFFICES ASSUME hi + 1 <= q
                   PROVE  FALSE
      BY <1>1
    <2>2. b * (hi + 1) <= b * q
      BY <1>1, <2>1, TimesMonotone
    <2>3. b * (hi + 1) = b * hi + b
      OBVIOUS
    <2> QED BY <1>1, <2>2, <2>3
  <1>3. q = hi => r = 0
    <2>1. ASSUME q = hi PROVE r <= 0
      BY <1>1, <2>1
    <2> QED BY <1>1, <2>1
  <1>4. RoundDiv(a, b) = IF 2 * r > b \/ (2 * r = b /\ q % 2 = 1) THEN q + 1 ELSE q
    BY DEF RoundDiv
  <1> HIDE DEF q, r
  <1>5. CASE r = 0
    BY <1>1, <1>2, <1>4, <1>5
  <1>6. CASE r # 0
    BY <1>1, <1>2, <1>3, <1>4, <1>6
  <1> QED BY <1>5, <1>6

\* ... nor zero from below.
LEMMA RoundDivNonNegative ==
    ASSUME NEW a \in Nat, NEW b \in Nat \ {0}
    PROVE  RoundDiv(a, b) >= 0
  <1> DEFINE q == a \div b
             r == a % b
  <1>1. /\ q \in Int /\ r \in 0 .. b - 1
        /\ a = b * q + r
    BY DivMod
  <1>2. q >= 0
    <2>1. SUFFICES ASSUME q <= -1
                   PROVE  FALSE
      BY <1>1
    <2>2. b * q <= b * (-1)
      BY <1>1, <2>1, TimesMonotone
    <2> QED BY <1>1, <2>2
  <1>3. RoundDiv(a, b) = IF 2 * r > b \/ (2 * r = b /\ q % 2 = 1) THEN q + 1 ELSE q
    BY DEF RoundDiv
  <1> HIDE DEF q, r
  <1> QED BY <1>1, <1>2, <1>3

\* A quotient of at least 1 does not round to zero.
LEMMA RoundDivPositive ==
    ASSUME NEW a \in Int, NEW b \in Nat \ {0}, a >= b
    PROVE  RoundDiv(a, b) >= 1
  <1> DEFINE q == a \div b
             r == a % b
  <1>1. /\ q \in Int /\ r \in 0 .. b - 1
        /\ a = b * q + r
    BY DivMod
  <1>2. q >= 1
    <2>1. SUFFICES ASSUME q <= 0
                   PROVE  FALSE
      BY <1>1
    <2>2. b * q <= b * 0
      BY <1>1, <2>1, TimesMonotone
    <2> QED BY <1>1, <2>2
  <1>3. RoundDiv(a, b) = IF 2 * r > b \/ (2 * r = b /\ q % 2 = 1) THEN q + 1 ELSE q
    BY DEF RoundDiv
  <1> HIDE DEF q, r
  <1> QED BY <1>1, <1>2, <1>3

\* It is a nearest integer: twice the error is at most the divisor.
LEMMA RoundDivNear ==
    ASSUME NEW a \in Int, NEW b \in Nat \ {0}
    PROVE  /\ RoundDiv(a, b) \in Int
           /\ -b <= 2 * (a - b * RoundDiv(a, b))
           /\ 2 * (a - b * RoundDiv(a, b)) <= b
  <1> DEFINE q == a \div b
             r == a % b
  <1>1. /\ q \in Int /\ r \in 0 .. b - 1
        /\ a = b * q + r
    BY DivMod
  <1>2. RoundDiv(a, b) = IF 2 * r > b \/ (2 * r = b /\ q % 2 = 1) THEN q + 1 ELSE q
    BY DEF RoundDiv
  <1> HIDE DEF q, r
  <1>3. CASE RoundDiv(a, b) = q /\ 2 * r <= b
    BY <1>1, <1>3
  <1>4. CASE RoundDiv(a, b) = q + 1 /\ 2 * r >= b
    <2>1. b * (q + 1) = b * q + b
      BY <1>1
    <2>2. a - b * RoundDiv(a, b) = r - b
      BY <1>1, <1>4, <2>1
    <2>3. -b <= 2 * (r - b) /\ 2 * (r - b) <= b
      BY <1>1, <1>4
    <2> QED BY <1>1, <1>4, <2>2, <2>3
  <1> QED BY <1>1, <1>2, <1>3, <1>4

\* It keeps the order of what is divided ...
LEMMA RoundDivMonotone ==
    ASSUME NEW a \in Int, NEW c \in Int, NEW b \in Nat \ {0}, a <= c
    PROVE  RoundDiv(a, b) <= RoundDiv(c, b)
  <1> DEFINE x == RoundDiv(a, b)
             y == RoundDiv(c, b)
  <1>1. x \in Int /\ y \in Int /\ -b <= 2 * (a - b * x) /\ 2 * (c - b * y) <= b
    BY RoundDivNear
  <1>2. a = c => x = y
    OBVIOUS
  <1> HIDE DEF x, y
  <1> SUFFICES ASSUME y + 1 <= x
               PROVE  FALSE
    BY <1>1 DEF x, y
  <1>3. b * (y + 1) <= b * x
    BY <1>1, TimesMonotone
  <1>4. b * (y + 1) = b * y + b
    BY <1>1
  <1>5. a # c
    BY <1>1, <1>2
  <1>6. b * x \in Int /\ b * y \in Int
    BY <1>1
  <1> QED BY <1>1, <1>3, <1>4, <1>5, <1>6

\* ... and does nothing to a multiple of the divisor.
LEMMA RoundDivExact ==
    ASSUME NEW k \in Int, NEW b \in Nat \ {0}
    PROVE  RoundDiv(k * b, b) = k
  <1> DEFINE x == RoundDiv(k * b, b)
  <1>1. x \in Int /\ -b <= 2 * (k * b - b * x) /\ 2 * (k * b - b * x) <= b
    BY RoundDivNear
  <1> HIDE DEF x
  <1>2. ASSUME x + 1 <= k PROVE FALSE
    <2>1. b * (x + 1) <= b * k
      BY <1>1, <1>2, TimesMonotone
    <2>2. b * (x + 1) = b * x + b /\ b * k = k * b
      BY <1>1
    <2> QED BY <1>1, <2>1, <2>2
  <1>3. ASSUME k + 1 <= x PROVE FALSE
    <2>1. b * (k + 1) <= b * x
      BY <1>1, <1>3, TimesMonotone
    <2>2. b * (k + 1) = b * k + b /\ b * k = k * b
      OBVIOUS
    <2> QED BY <1>1, <2>1, <2>2
  <1> QED BY <1>1, <1>2, <1>3 DEF x

\* The occupancy is at most one, even if the counts come from two snapshots.
LEMMA OccupancyAtMostOne ==
    ASSUME NEW total \in Nat, NEW free \in Nat
    PROVE  OccupancyRatio(total, free) \in Int /\ OccupancyRatio(total, free) <= 10000
  <1>1. CASE total = 0
    BY <1>1 DEF OccupancyRatio
  <1>2. CASE total # 0
    <2> DEFINE a == (total - free) * 10000
    <2>1. total \in Nat \ {0} /\ a \in Int
      BY <1>2
    <2>2. a <= total * 10000
      OBVIOUS
    <2>3. OccupancyRatio(total, free) = RoundDiv(a, total)
      BY <1>2 DEF OccupancyRatio
    <2> HIDE DEF a
    <2>4. RoundDiv(a, total) \in Int /\ RoundDiv(a, total) <= 10000
      BY <2>1, <2>2, RoundDivInt, RoundDivAtMost
    <2> QED BY <2>3, <2>4
  <1> QED BY <1>1, <1>2

\* The surge is an integer whatever the cap is.
LEMMA SurgeInt ==
    ASSUME NEW ratio \in Int, ratio <= 10000
    PROVE  ComputeSurge(ratio) \in Int
  <1> USE TariffAssumption
  <1>1. CASE ~SurgeEnabled \/ ratio <= SurgeThreshold
    BY <1>1 DEF ComputeSurge
  <1>2. CASE SurgeEnabled /\ ~(ratio <= SurgeThreshold)
    <2> DEFINE a == (ratio - SurgeThreshold) * (SurgeMax - 100)
               span == 10000 - SurgeThreshold
    <2>1. a \in Int /\ span \in Nat \ {0}
      BY <1>2
    <2>2. ComputeSurge(ratio) = 100 + RoundDiv(a, span)
      BY <1>2 DEF ComputeSurge
    <2> HIDE DEF a, span
    <2> QED BY <2>1, <2>2, RoundDivInt
  <1> QED BY <1>1, <1>2

\* The multiplier is between 1 and the cap, for any threshold and any cap of at
\* least 1 (compute_surge's docstring).
THEOREM SurgeBetweenOneAndCap ==
    ASSUME NEW ratio \in Int, ratio <= 10000, SurgeMax >= 100
    PROVE  ComputeSurge(ratio) \in 100 .. SurgeMax
  <1> USE TariffAssumption
  <1>1. CASE ~SurgeEnabled \/ ratio <= SurgeThreshold
    BY <1>1 DEF ComputeSurge
  <1>2. CASE SurgeEnabled /\ ~(ratio <= SurgeThreshold)
    <2> DEFINE excess == ratio - SurgeThreshold
               span   == 10000 - SurgeThreshold
               rise   == SurgeMax - 100
               a      == excess * rise
    <2>1. /\ excess \in Nat /\ rise \in Nat /\ span \in Nat \ {0}
          /\ excess <= span
      BY <1>2
    <2>2. a \in Nat
      BY <2>1
    <2>3. a <= span * rise
      <3>1. span = excess + (span - excess) /\ span - excess \in Nat
        BY <2>1
      <3>2. (span - excess) * rise >= 0
        BY <2>1, <3>1
      <3>3. span * rise = a + (span - excess) * rise
        BY <2>1, <3>1
      <3> QED BY <2>1, <2>2, <3>2, <3>3
    <2>4. ComputeSurge(ratio) = 100 + RoundDiv(a, span)
      BY <1>2 DEF ComputeSurge
    <2>5. rise = SurgeMax - 100
      OBVIOUS
    <2> HIDE DEF a, excess, span, rise
    <2>6. /\ RoundDiv(a, span) \in Int
          /\ RoundDiv(a, span) >= 0
          /\ RoundDiv(a, span) <= rise
      BY <2>1, <2>2, <2>3, RoundDivInt, RoundDivNonNegative, RoundDivAtMost
    <2> QED BY <2>1, <2>4, <2>5, <2>6
  <1> QED BY <1>1, <1>2

\* A slot that gets free raises neither the occupancy ...
LEMMA OccupancyFalls ==
    ASSUME NEW total \in Nat, NEW free \in Nat, NEW more \in Nat, free <= more
    PROVE  OccupancyRatio(total, more) <= OccupancyRatio(total, free)
  <1>1. CASE total = 0
    BY <1>1 DEF OccupancyRatio
  <1>2. CASE total # 0
    <2>1. /\ total \in Nat \ {0}
          /\ (total - more) * 10000 \in Int /\ (total - free) * 10000 \in Int
          /\ (total - more) * 10000 <= (total - free) * 10000
      BY <1>2
    <2> QED BY <1>2, <2>1, RoundDivMonotone DEF OccupancyRatio
  <1> QED BY <1>1, <1>2

\* ... nor the multiplier, with a cap of at least 1.
LEMMA SurgeMonotone ==
    ASSUME NEW low \in Int, NEW high \in Int, low <= high, high <= 10000, SurgeMax >= 100
    PROVE  ComputeSurge(low) <= ComputeSurge(high)
  <1> USE TariffAssumption
  <1>1. CASE ~SurgeEnabled \/ low <= SurgeThreshold
    <2>1. ComputeSurge(low) = 100
      BY <1>1 DEF ComputeSurge
    <2>2. ComputeSurge(high) \in 100 .. SurgeMax
      BY SurgeBetweenOneAndCap
    <2> QED BY <2>1, <2>2
  <1>2. CASE SurgeEnabled /\ ~(low <= SurgeThreshold)
    <2> DEFINE rise == SurgeMax - 100
               span == 10000 - SurgeThreshold
               a == (low - SurgeThreshold) * rise
               c == (high - SurgeThreshold) * rise
    <2>1. /\ ComputeSurge(low) = 100 + RoundDiv(a, span)
          /\ ComputeSurge(high) = 100 + RoundDiv(c, span)
      BY <1>2 DEF ComputeSurge
    <2>2. span \in Nat \ {0} /\ rise \in Nat
      BY <1>2
    <2>3. a \in Int /\ c \in Int
      BY <2>2
    <2>4. a <= c
      <3>1. (high - low) * rise >= 0
        BY <2>2
      <3>2. c = a + (high - low) * rise
        BY <2>2
      <3> QED BY <2>2, <2>3, <3>1, <3>2
    <2> HIDE DEF a, c, span, rise
    <2>5. RoundDiv(a, span) <= RoundDiv(c, span)
      BY <2>2, <2>3, <2>4, RoundDivMonotone
    <2>6. RoundDiv(a, span) \in Int /\ RoundDiv(c, span) \in Int
      BY <2>2, <2>3, RoundDivInt
    <2> QED BY <2>1, <2>5, <2>6
  <1> QED BY <1>1, <1>2

\* A full lot is at the cap.
LEMMA SurgeWhenFull ==
    ASSUME NEW total \in Nat \ {0}, SurgeEnabled, SurgeThreshold < 10000
    PROVE  ComputeSurge(OccupancyRatio(total, 0)) = SurgeMax
  <1> USE TariffAssumption
  <1>1. OccupancyRatio(total, 0) = 10000
    <2>1. OccupancyRatio(total, 0) = RoundDiv(10000 * total, total)
      BY DEF OccupancyRatio
    <2> QED BY <2>1, RoundDivExact
  <1> DEFINE rise == SurgeMax - 100
             span == 10000 - SurgeThreshold
  <1>2. rise \in Int /\ span \in Nat \ {0} /\ span * rise = rise * span
    OBVIOUS
  <1>3. ComputeSurge(10000) = 100 + RoundDiv(span * rise, span)
    BY DEF ComputeSurge
  <1>4. SurgeMax = 100 + rise
    OBVIOUS
  <1> HIDE DEF rise, span
  <1>5. RoundDiv(rise * span, span) = rise
    BY <1>2, RoundDivExact
  <1>6. RoundDiv(span * rise, span) = rise
    BY <1>2, <1>5
  <1> QED BY <1>1, <1>3, <1>4, <1>6

\* A lot with no car is at the base rate.
LEMMA SurgeWhenEmpty ==
    ASSUME NEW total \in Nat, NEW free \in Nat, free >= total
    PROVE  ComputeSurge(OccupancyRatio(total, free)) = 100
  <1> DEFINE ratio == OccupancyRatio(total, free)
  <1>1. ratio \in Int /\ ratio <= 0
    <2>1. CASE total = 0
      BY <2>1 DEF OccupancyRatio
    <2>2. CASE total # 0
      <3>1. total \in Nat \ {0} /\ (total - free) * 10000 \in Int
            /\ (total - free) * 10000 <= total * 0
        BY <2>2
      <3> QED BY <2>2, <3>1, RoundDivInt, RoundDivAtMost DEF OccupancyRatio
    <2> QED BY <2>1, <2>2
  <1> HIDE DEF ratio
  <1>2. ComputeSurge(ratio) = 100
    BY <1>1, TariffAssumption DEF ComputeSurge
  <1> QED BY <1>2 DEF ratio

\* The hourly rate is an integer number of cents.
LEMMA CurrentRateInt ==
    ASSUME NEW surge \in Int
    PROVE  CurrentRate(surge) \in Int
  <1>1. BaseRate * surge \in Int
    BY TariffAssumption
  <1> QED BY <1>1, RoundDivInt DEF CurrentRate

\* At a multiplier of at least 1 nothing is free.
LEMMA CurrentRatePositive ==
    ASSUME NEW surge \in Int, surge >= 100
    PROVE  CurrentRate(surge) \in Int /\ CurrentRate(surge) # 0
  <1>1. BaseRate \in Nat \ {0}
    BY TariffAssumption
  <1>2. BaseRate * surge \in Int /\ BaseRate * surge >= 100
    <2>1. BaseRate * 100 <= BaseRate * surge
      BY <1>1, TimesMonotone
    <2> QED BY <1>1, <2>1
  <1>3. RoundDiv(BaseRate * surge, 100) >= 1
    BY <1>2, RoundDivPositive
  <1>4. CurrentRate(surge) >= 1
    BY <1>3 DEF CurrentRate
  <1>5. CurrentRate(surge) \in Int
    BY CurrentRateInt
  <1> QED BY <1>4, <1>5

\* A stay is billed a whole number of hours, at least the minimum.
LEMMA BilledHoursInt ==
    ASSUME NEW seconds \in Int
    PROVE  BilledHours(seconds) \in Int /\ BilledHours(seconds) >= MinBilledHours
  BY TariffAssumption DEF BilledHours, AtLeast

\* The hours billed cover the stay less its last started minute, and no hour is billed
\* beyond the minimum that the stay does not reach.
LEMMA BilledHoursCover ==
    ASSUME NEW seconds \in Nat
    PROVE  LET hours == BilledHours(seconds)
           IN  /\ seconds < hours * 3600 + 60
               /\ hours > AtLeast(MinBilledHours, 1) => (hours - 1) * 3600 + 60 <= seconds
  <1> DEFINE minutes == seconds \div 60
             started == AtLeast(minutes, 1)
             lifted == started + 59
             whole == lifted \div 60
  <1>1. minutes \in Int /\ 60 * minutes <= seconds /\ seconds < 60 * minutes + 60
    BY DivMod
  <1>2. started \in Int /\ started >= minutes /\ started >= 1
        /\ (started > 1 => started = minutes)
    BY <1>1 DEF AtLeast
  <1>3. whole \in Int /\ 60 * whole <= started + 59 /\ started <= 60 * whole
    <2>1. lifted \in Int /\ 60 \in Nat \ {0}
      BY <1>2
    <2> HIDE DEF lifted
    <2>2. whole \in Int /\ lifted % 60 \in 0 .. 59 /\ lifted = 60 * whole + (lifted % 60)
      BY <2>1, DivMod
    <2> DEFINE rest == lifted % 60
    <2> HIDE DEF whole, rest
    <2>3. lifted = started + 59
      BY DEF lifted
    <2> QED BY <1>2, <2>2, <2>3 DEF rest
  <1>4. BilledHours(seconds) = AtLeast(whole, MinBilledHours)
    BY DEF BilledHours
  <1> HIDE DEF minutes, started, lifted, whole
  <1>5. AtLeast(whole, MinBilledHours) >= whole
        /\ (AtLeast(whole, MinBilledHours) > AtLeast(MinBilledHours, 1) =>
              AtLeast(whole, MinBilledHours) = whole /\ whole > 1)
    BY <1>3, TariffAssumption DEF AtLeast
  <1>6. AtLeast(whole, MinBilledHours) \in Int
    BY <1>3, TariffAssumption DEF AtLeast
  <1> QED BY <1>1, <1>2, <1>3, <1>4, <1>5, <1>6

LEMMA FareInt ==
    ASSUME NEW seconds \in Int, NEW rate \in Int
    PROVE  Fare(seconds, rate) \in Int
  BY BilledHoursInt, TariffAssumption DEF Fare

=============================================================================
