----------------------------- MODULE Computations -----------------------------
(***************************************************************************)
(* The computations over bounded inputs, one subject at a time, each input *)
(* reached one change after the other, so that an action property can      *)
(* compare an input with its neighbour:                                    *)
(*   tariff   every pair of counts reprice_all can see, every length of    *)
(*            stay up to MaxSeconds;                                       *)
(*   history  every history of up to MaxBookings bookings and MaxHour      *)
(*            hours of a lot, for the dashboards and the forecast, its     *)
(*            slots with whatever status, booked or not;                   *)
(*   lists    slots, lots, pictures, for the rankings;                     *)
(*   instance the environments of an instance, its services up or down.    *)
(***************************************************************************)
EXTENDS Reports, Ranking, Deployment

CONSTANTS
    MaxSlots, MaxSeconds, Step, Lot, MaxHour, MaxBookings, MaxList,
    MaxMarked \* bound: the bookings there may be when a slot changes its status alone

ASSUME ComputationsAssumption ==
    /\ {MaxSlots, MaxSeconds, Step, MaxHour, MaxBookings, MaxList,
        MaxMarked} \subseteq Nat
    /\ IsFiniteSet(Lot) /\ "unknown" \notin VehicleTypes

VARIABLES
    subject,
    total, free, seconds,    \* tariff
    now, bookings, slots,    \* history
    offers, lots, contours,  \* lists
    env, dbUp, redisUp       \* instance

tariff == <<total, free, seconds>>
history == <<now, bookings, slots>>
lists == <<offers, lots, contours>>
instance == <<env, dbUp, redisUp>>
inputs == <<subject, tariff, history, lists, instance>>

Bare == [FLASK_ENV |-> Unset, SECRET_KEY |-> Unset, DATABASE_URL |-> Unset,
         REDIS_URL |-> Unset]

Init ==
    /\ subject \in {"tariff", "history", "lists", "instance"}
    /\ total = 0 /\ free = 0 /\ seconds = 0
    /\ now = 0 /\ bookings = <<>> /\ slots = [s \in Lot |-> "available"]
    /\ offers = {} /\ lots = <<>> /\ contours = <<>>
    /\ env \in IF subject = "instance" THEN {e \in Environments : Boots(e)} ELSE {Bare}
    /\ dbUp = TRUE /\ redisUp = TRUE

-----------------------------------------------------------------------------
\* The counts are two statements: free may exceed total.
Arrive == free > 0 /\ seconds = 0 /\ free' = free - 1 /\ UNCHANGED <<total, seconds>>
Depart == free < MaxSlots /\ seconds = 0 /\ free' = free + 1 /\ UNCHANGED <<total, seconds>>
Grow   == total < MaxSlots /\ seconds = 0 /\ total' = total + 1 /\ UNCHANGED <<free, seconds>>
Stay   == total = 0 /\ free = 0 /\ seconds < MaxSeconds /\ seconds' = seconds + Step
          /\ UNCHANGED <<total, free>>
Away   == seconds >= MaxSeconds /\ seconds' = 0 /\ UNCHANGED <<total, free>>

TariffInput ==
    /\ subject = "tariff"
    /\ Arrive \/ Depart \/ Grow \/ Stay \/ Away
    /\ UNCHANGED <<history, lists, instance>>

-----------------------------------------------------------------------------
SlotStatuses == {"available", "occupied", "reserved"}

Taken(s) == \E i \in DOMAIN bookings : bookings[i].status = "active" /\ bookings[i].slot = s

Book == \E s \in Lot :
    /\ Len(bookings) < MaxBookings /\ slots[s] # "occupied" /\ ~Taken(s)
    /\ slots' = [slots EXCEPT ![s] = "occupied"]
    /\ bookings' = Append(bookings,
                     [slot |-> s, start |-> now, end |-> now, status |-> "active", cost |-> 0])
    /\ UNCHANGED now

\* An exit, or a toggle that frees the slot of an active booking.
Leave == \E i \in DOMAIN bookings :
    /\ bookings[i].status = "active"
    /\ slots' = [slots EXCEPT ![bookings[i].slot] = "available"]
    /\ \/ bookings' = [bookings EXCEPT ![i].status = "completed", ![i].end = now,
                                       ![i].cost = now - bookings[i].start + 1]
       \/ bookings' = [bookings EXCEPT ![i].status = "cancelled"]
    /\ UNCHANGED now

\* The status of a slot changes and no booking does: a hold or its end, a toggle of a slot
\* without an active booking, or what exits, sweeps and toggles leave that overtake each other.
Mark == \E s \in Lot, status \in SlotStatuses :
    /\ Len(bookings) <= MaxMarked
    /\ slots' = [slots EXCEPT ![s] = status]
    /\ UNCHANGED <<bookings, now>>

Hour == now < MaxHour /\ now' = now + 1 /\ UNCHANGED <<bookings, slots>>

HistoryInput ==
    /\ subject = "history"
    /\ Book \/ Leave \/ Mark \/ Hour
    /\ UNCHANGED <<tariff, lists, instance>>

-----------------------------------------------------------------------------
Offer == \E type \in VehicleTypes, rate \in 1 .. 2, status \in {"available", "occupied"} :
    /\ Cardinality(offers) < MaxList /\ lots = <<>> /\ contours = <<>>
    /\ offers' = offers \cup {[number |-> Cardinality(offers), type |-> type,
                               rate |-> rate, status |-> status]}
    /\ UNCHANGED <<lots, contours>>

Open == \E distance \in 0 .. 2 :
    /\ Len(lots) < MaxList /\ offers = {} /\ contours = <<>>
    /\ lots' = Append(lots, [id |-> Len(lots), distance |-> distance])
    /\ UNCHANGED <<offers, contours>>

\* Quadrilaterals in the proportions of a plate or not, that read as a plate or not.
Contours == [area : {1, 2}, corners : {4}, width : {24, 60}, height : {10},
             text : {[length |-> 9, valid |-> TRUE], [length |-> 10, valid |-> TRUE],
                     [length |-> 11, valid |-> FALSE], Blank}]

Outline == \E c \in Contours \cup {[CHOOSE c \in Contours : TRUE EXCEPT !.corners = 5]} :
    /\ Len(contours) < MaxList /\ offers = {} /\ lots = <<>>
    /\ contours' = Append(contours, c)
    /\ UNCHANGED <<offers, lots>>

ListInput ==
    /\ subject = "lists"
    /\ Offer \/ Open \/ Outline
    /\ UNCHANGED <<tariff, history, instance>>

-----------------------------------------------------------------------------
InstanceInput ==
    /\ subject = "instance"
    /\ \/ dbUp' = ~dbUp /\ UNCHANGED redisUp
       \/ redisUp' = ~redisUp /\ UNCHANGED dbUp
    /\ UNCHANGED <<tariff, history, lists, env>>

Next ==
    /\ TariffInput \/ HistoryInput \/ ListInput \/ InstanceInput
    /\ UNCHANGED subject

Spec == Init /\ [][Next]_inputs

-----------------------------------------------------------------------------
Surge == ComputeSurge(OccupancyRatio(total, free))

\* The multiplier is between 1 and the cap, the cap itself when every slot is
\* taken, 1 when none is (compute_surge's docstring, with a cap of at least 1).
SurgeWithinBounds ==
    /\ Surge \in 100 .. SurgeMax
    /\ SurgeEnabled /\ SurgeThreshold < 10000 /\ total > 0 /\ free = 0 => Surge = SurgeMax
    /\ free >= total => Surge = 100

\* One more free slot never raises the multiplier, in spite of the two roundings
\* between the counts and the price (current_occupancy_ratio, compute_surge).
SurgeFollowsDemand == [][free' > free /\ total' = total => Surge' <= Surge]_inputs

\* The stay is billed the least number of hours that covers it, less the last
\* started minute, and never fewer than the minimum (exit_booking).
FareCoversStay ==
    LET hours == BilledHours(seconds)
    IN  /\ hours >= MinBilledHours
        /\ seconds < hours * 3600 + 60
        /\ hours > AtLeast(MinBilledHours, 1) => (hours - 1) * 3600 + 60 <= seconds

-----------------------------------------------------------------------------
\* The labels that may be computed after midnight.
Late == IF LastHourOfDay(now) THEN 0 .. Days ELSE {0}

\* Every bar of the revenue trend is the whole revenue of its day, no day has two bars,
\* and the last one is today's, though the window starts in the middle of a day and
\* midnight may come between two labels; the bars add up to what kpis reports
\* while the lot is younger than the window (revenue_trend).
TrendIsWhole ==
    \A late \in Late :
        LET bars == RevenueTrend(bookings, now, late)
            On(day) == {i \in Completed(bookings) : DayOf(bookings[i].end) = day}
        IN  /\ \A n \in 1 .. Days : bars[n].revenue = Revenue(bookings, On(bars[n].day))
            /\ \A n \in 2 .. Days : bars[n - 1].day < bars[n].day
            /\ late = 0 => bars[Days].day = DayOf(now)
            /\ late = 0 /\ DayOf(now) < Days =>
                 SumFunctionOnSet([n \in 1 .. Days |-> bars[n].revenue], 1 .. Days)
                     = Kpis(bookings, slots).revenue

\* The gauge and the counts of the dashboard tell of the same lot, the gauge taking held
\* slots for occupied ones, and it shows the occupancy that sets the price, up to its
\* coarser rounding; the hours add up to the bookings (occupancy_gauge, counts, kpis,
\* peak_hours; current_occupancy_ratio).  The active bookings kpis reports are not said to
\* be the occupied slots: a toggle occupies a slot that nobody has booked.
GaugeAgrees ==
    LET gauge == OccupancyGauge(slots)
        counts == Counts(slots)
        ratio == OccupancyRatio(Cardinality(Lot), counts["available"])
        kpis == Kpis(bookings, slots)
        hours == PeakHours(bookings)
    IN  /\ ratio - 10 * gauge.ratio \in -6 .. 6
        /\ gauge.free = counts["available"]
        /\ gauge.occupied = counts["occupied"] + counts["reserved"]
        /\ gauge.occupied + gauge.free = kpis.slots
        /\ SumFunctionOnSet(hours, DOMAIN hours) = kpis.bookings

\* The dashboards of the administrator agree with the table and with each other.
DashboardsAgree == TrendIsWhole /\ GaugeAgrees

Week == HoursPerDay * DaysPerWeek
Predicted(hour) == PredictOccupancy(bookings, slots, now, hour)

\* A prediction is a ratio. A new booking raises none but that of its own hour of the
\* week, time alone raises none at all, and the next day's points are those of its
\* hours, while the slots of the lot are the same (build_demand_profile,
\* predict_occupancy, next_24h_forecast).
ForecastFollowsHistory ==
    [][/\ \A hour \in 0 .. Week - 1 :
             LET before == Predicted(hour)
                 after == Predicted(hour)'
             IN  /\ after \in 0 .. 1000
                 /\ after > before => Len(bookings') > Len(bookings) /\ HourOfWeek(now) = hour
       /\ \A i \in 0 .. HoursPerDay - 1 :
             NextDayForecast(bookings, slots, now)[i]' = Predicted(HourOfWeek(now + i))']_history

-----------------------------------------------------------------------------
\* Nothing that was left out of a list comes before anything in it.
NoneBefore(out, list, Precedes(_, _)) ==
    \A x \in out, i \in DOMAIN list : ~Precedes(x, list[i])

\* The recommended slots can be booked, and no other one is cheaper (recommend_slots).
RecommendsCheapest ==
    \A type \in VehicleTypes \cup {"unknown"}, limit \in 0 .. MaxList :
        LET list == RecommendSlots(offers, type, limit)
            fit == {s \in offers : s.status = "available" /\ (type = "unknown" \/ s.type = type)}
            Precedes(x, y) == x.rate < y.rate \/ (x.rate = y.rate /\ x.number < y.number)
        IN  /\ Range(list) \subseteq fit
            /\ NoneBefore(fit \ Range(list), list, Precedes)
            /\ \/ Len(list) = limit
               \/ Len(list) < limit /\ Range(list) = fit

\* The lots listed are the nearest, in order, whatever the limit of the request, and among
\* equals (in rounded distance) the row first that the query has returned first: it has no
\* ORDER BY, and `lots` is in the order of its answer (nearest_lots).
NearestFirst ==
    \A limit \in -(MaxList + 1) .. MaxList :
        LET list == NearestLots(lots, limit)
            Nearer(x, y) == x.distance < y.distance \/ (x.distance = y.distance /\ x.id < y.id)
        IN  /\ NoneBefore(Range(lots) \ Range(list), list, Nearer)
            /\ \A i, j \in DOMAIN list : i < j => Nearer(list[i], list[j])
            /\ limit >= 0 /\ limit <= Len(lots) => Len(list) = limit

\* If a region or the frame reads as a plate, the answer is a plate, the longest;
\* no longer guess displaces it (recognize_plate).
PlatePreferred ==
    \A frame \in {Blank, [length |-> 9, valid |-> TRUE], [length |-> 11, valid |-> FALSE]} :
        LET found == DetectCandidates(contours)
            read == {found[i].text : i \in DOMAIN found} \cup {frame}
            answer == RecognizePlate(contours, frame, TRUE)
        IN  /\ answer \in read \cup {Blank}
            /\ answer.valid <=> \E t \in read : t.valid
            /\ \A t \in read : t.valid = answer.valid => t.length <= answer.length

\* Every ranking returns the best of what it was given, in order.
RankingsAreBest == RecommendsCheapest /\ NearestFirst /\ PlatePreferred

-----------------------------------------------------------------------------
\* What an instance depends on outside of itself.
DependsOnRedis == Config(env).queue # Unset

\* Instances that start in production share their database, their cache and their queue,
\* as broadcasts across workers need (ProductionConfig: "Without it, cross-worker
\* broadcasts silently break"), and an instance says that it is well exactly
\* while all it depends on is up, though only the database takes it out of rotation
\* (healthz).
DeploymentIsSound ==
    /\ subject = "instance" /\ Config(env).name = "production" =>
          /\ Config(env).database = "postgresql+psycopg"
          /\ Config(env).cache = "RedisCache" /\ Config(env).queue # Unset
    /\ LET health == Healthz(env, dbUp, redisUp)
       IN  /\ health.status = "ok" <=> dbUp /\ (DependsOnRedis => redisUp)
           /\ health.code = 200 <=> dbUp

=============================================================================
