------------------------------ MODULE Reports ------------------------------
(***************************************************************************)
(* What the dashboards compute from the bookings: analytics_service.py and *)
(* the demand profile of forecast_service.py.                              *)
(*                                                                         *)
(* Time is counted in hours.  A booking has the hour of its start and, if  *)
(* it is completed, of its end.                                            *)
(***************************************************************************)
EXTENDS Integers, Sequences, FiniteSets, Functions, Tariff

CONSTANTS
    HoursPerDay, DaysPerWeek,
    Days,     \* days of the revenue trend
    HalfLife  \* hours in which a booking's weight halves

ASSUME ReportsAssumption ==
    /\ HoursPerDay \in Nat \ {0} /\ DaysPerWeek \in Nat \ {0}
    /\ Days \in Nat \ {0} /\ HalfLife \in Nat \ {0}

DayOf(hour) == hour \div HoursPerDay
LastHourOfDay(hour) == hour % HoursPerDay = HoursPerDay - 1

Completed(bookings) == {i \in DOMAIN bookings : bookings[i].status = "completed"}

\* The revenue of the bookings at places.
Revenue(bookings, places) == SumFunctionOnSet([i \in DOMAIN bookings |-> bookings[i].cost], places)

\* kpis
Kpis(bookings, slots) ==
    [slots |-> Cardinality(DOMAIN slots),
     bookings |-> Len(bookings),
     active |-> Cardinality({i \in DOMAIN bookings : bookings[i].status = "active"}),
     revenue |-> Revenue(bookings, Completed(bookings))]

\* A bug: the window is as many days long as there are labels before today.
SinceYesterday(now) == now - (Days - 1) * HoursPerDay

Since(now) == now - Days * HoursPerDay

\* revenue_trend at hour now.  Every label asks for the time again: the last ones,
\* `late` of them, are computed after midnight.
RevenueTrend(bookings, now, late) ==
    LET recent == {i \in Completed(bookings) : bookings[i].end >= Since(now)}
        DayAgo(n) == DayOf(now) - n + (IF n < late THEN 1 ELSE 0)
        Bar(day) == [day |-> day,
                     revenue |-> Revenue(bookings, {i \in recent : DayOf(bookings[i].end) = day})]
    IN  [n \in 1 .. Days |-> Bar(DayAgo(Days - n))]

\* peak_hours
PeakHours(bookings) ==
    [h \in 0 .. HoursPerDay - 1 |->
        Cardinality({i \in DOMAIN bookings : bookings[i].start % HoursPerDay = h})]

NotAvailable(slots) == Cardinality({s \in DOMAIN slots : slots[s] # "available"})

\* slot_service.counts
Counts(slots) ==
    [status \in {"available", "occupied", "reserved"} |->
        Cardinality({s \in DOMAIN slots : slots[s] = status})]

\* count() or 1
CountOrOne(slots) == IF DOMAIN slots = {} THEN 1 ELSE Cardinality(DOMAIN slots)

\* occupancy_gauge, its ratio in 1/1000.
OccupancyGauge(slots) ==
    LET occupied == NotAvailable(slots)
        total == CountOrOne(slots)
    IN  [occupied |-> occupied, free |-> total - occupied,
         ratio |-> RoundDiv(occupied * 1000, total)]

-----------------------------------------------------------------------------
\* A bug: all days of the week fall in one bucket.
HourOfDay(hour) == hour % HoursPerDay

HourOfWeek(hour) == hour % (HoursPerDay * DaysPerWeek)

\* What n half-lives leave of a weight of 1, in 1/1000.
Halved[n \in Nat] == IF n = 0 THEN 1000 ELSE Halved[n - 1] \div 2

\* The weight of a booking: halved with every half-life.  The curve is sampled at whole
\* half-lives.
Weight(age) == Halved[age \div HalfLife]

\* build_demand_profile: norm is divided out again, a bucket holds the sum of weights.
DemandProfile(bookings, now) ==
    LET hours == {HourOfWeek(bookings[i].start) : i \in DOMAIN bookings}
        Bucket(h) == {i \in DOMAIN bookings : HourOfWeek(bookings[i].start) = h}
        weights == [i \in DOMAIN bookings |-> Weight(now - bookings[i].start)]
    IN  [h \in hours |-> SumFunctionOnSet(weights, Bucket(h))]

Capped(ratio) == IF ratio > 1000 THEN 1000 ELSE ratio

\* predict_occupancy for the hour target, in 1/1000.
PredictOccupancy(bookings, slots, now, target) ==
    LET profile == DemandProfile(bookings, now)
        h == HourOfWeek(target)
        expected == IF h \in DOMAIN profile THEN profile[h] ELSE 0
    IN  Capped(RoundDiv(expected, CountOrOne(slots)))

\* next_24h_forecast: from the hour now on.
NextDayForecast(bookings, slots, now) ==
    [i \in 0 .. HoursPerDay - 1 |-> PredictOccupancy(bookings, slots, now, now + i)]

=============================================================================
