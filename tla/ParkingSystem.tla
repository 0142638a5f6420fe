--------------------------- MODULE ParkingSystem ---------------------------
(***************************************************************************)
(* The services composed over one database: every request and every beat   *)
(* task steps on its own, workers die, time passes.                        *)
(*                                                                         *)
(* The workload is a parameter (Requests, Ops, Tasks, OneEach, Mortal,   *)
(* MaxTime), so that a run can say which properties hold of which use.     *)
(***************************************************************************)
EXTENDS BookingService, SlotService, PricingService

CONSTANTS
    Earlier,  \* the requests that made their booking before the start
    MaxTime,  \* bound on the clock
    Mortal    \* the processes whose worker may die in the middle of their work

ASSUME SystemAssumption ==
    /\ Earlier \subseteq Requests
    /\ MaxTime \in Nat
    /\ Mortal \subseteq Procs

\* Bookings made earlier: their drivers are parked, each alone in a slot.
Places ==
    {place \in [Earlier -> Users \X Seeded] :
        \A b, c \in Earlier :
            b # c => place[b][1] # place[c][1] /\ place[b][2] # place[c][2]}

\* The slots of seed_data, with the earlier bookings in some of them and the
\* multiplier of that occupancy.
InitDB(number, place) ==
    LET taken == {place[b][2] : b \in Earlier}
        surge == ComputeSurge(OccupancyRatio(Cardinality(Seeded),
                                             Cardinality(Seeded \ taken)))
    IN  /\ slots = [s \in Slots |->
                      IF s \in Seeded
                      THEN [NewSlot(number[s]) EXCEPT
                              !.status = IF s \in taken THEN "occupied" ELSE @,
                              !.surge = surge]
                      ELSE None]
        /\ bookings = [r \in Requests |->
                         IF r \in Earlier
                         THEN [user |-> place[r][1], slot |-> place[r][2],
                               status |-> "active", start |-> 0,
                               rate |-> CurrentRate(100), end |-> None, cost |-> None]
                         ELSE None]

Init ==
    /\ \E number \in [Seeded -> Numbers], place \in Places :
           /\ \A s, t \in Seeded : number[s] = number[t] => s = t
           /\ InitDB(number, place)
    /\ retired = {}
    /\ rowLock = [s \in Slots |-> None]
    /\ clock = 0
    /\ pc = [p \in Procs |-> IF p \in Earlier THEN "ok" ELSE "idle"]
    /\ job = [p \in Procs |-> NoJob]
    /\ sess = [p \in Procs |-> NoSession]

BookStep(r) == BookFromWeb(r) \/ BookFromAPI(r) \/ BookCheck(r) \/ BookLock(r) \/ BookCommit(r)
ExitStep(r) == ExitRead(r) \/ ExitLock(r) \/ ExitCommit(r)
ReserveStep(r) == ReserveLock(r) \/ ReserveCommit(r)
SweepStep(t) == SweepRead(t) \/ SweepCommit(t)
AdminStep(r) == \/ AddSlot(r)
                \/ ToggleRead(r) \/ ToggleFind(r) \/ ToggleCommit(r)
                \/ DeleteRead(r) \/ DeleteCount(r) \/ DeleteCommit(r)
RepriceStep(p) == CountTotal(p) \/ CountFree(p) \/ WriteSurge(p)

\* The worker of p dies: its transaction is rolled back and its locks go.  The
\* client sees a broken connection; a task is sent again at its next beat.
Crash(p) ==
    /\ p \in Mortal
    /\ InFlight(p)
    /\ Abandon(p, "crashed")

Tick ==
    /\ clock < MaxTime
    /\ clock' = clock + 1
    /\ UNCHANGED <<dbVars, rowLock, pc, job, sess>>

\* Everything is answered and the time is up: a state the system may stay in.
Done ==
    /\ clock = MaxTime
    /\ \A p \in Procs : ~InFlight(p)
    /\ UNCHANGED vars

Next ==
    \/ \E r \in Requests : BookStep(r) \/ ExitStep(r) \/ ReserveStep(r) \/ AdminStep(r)
    \/ \E p \in Procs : RepriceStep(p) \/ Crash(p)
    \/ \E t \in Tasks : SweepStep(t)
    \/ Tick
    \/ Done

Spec == Init /\ [][Next]_vars

-----------------------------------------------------------------------------
(* Fairness. *)

\* What p does once it is in flight: the worker that serves a request goes on.
Proceed(p) ==
    \/ BookCheck(p) \/ BookLock(p) \/ BookCommit(p)
    \/ ExitLock(p) \/ ExitCommit(p)
    \/ ReserveCommit(p)
    \/ ToggleFind(p) \/ ToggleCommit(p)
    \/ DeleteCount(p) \/ DeleteCommit(p)
    \/ RepriceStep(p)
    \/ SweepStep(p)

\* RepriceStep and SweepStep of a task include its start: beat keeps sending it.
FairSpec ==
    /\ Spec
    /\ \A p \in Procs : WF_vars(Proceed(p))
    /\ WF_vars(Tick)

-----------------------------------------------------------------------------
(* Properties. *)

\* Every variable has its type: the columns of models.py, the session, the control.
TypeOK ==
    /\ slots \in [Slots -> SlotRow \cup {None}]
    /\ bookings \in [Requests -> Booking \cup {None}]
    /\ retired \subseteq Slots
    /\ rowLock \in [Slots -> Procs \cup {None}]
    /\ clock \in Nat
    /\ pc \in [Procs -> {"idle", "check", "lock", "find", "commit", "total", "free",
                         "surge"} \cup Answers]
    /\ job \in [Procs -> Job]
    /\ sess \in [Procs -> Session]

\* A slot never has two active bookings, and neither has a user, whatever interleaves
\* with booking, exit, force-free and crash: the checks of book_slot are made in
\* other statements than its insert, which only the two partial indexes guard.
ActiveBookingsExclusive ==
    \A b, c \in Active :
        bookings[b].slot = bookings[c].slot \/ bookings[b].user = bookings[c].user => b = c

\* No booking, past or present, refers to a slot that is gone: delete_slot counts
\* the bookings in one statement and deletes in another.
BookingsReferToSlots ==
    \A b \in Requests : bookings[b] # None => bookings[b].slot \in Existing

\* A slot shows as occupied exactly while somebody is parked in it: the two tables
\* agree, though booking and exit read and write them at different moments.
StatusMatchesBookings ==
    \A s \in Existing : slots[s].status = "occupied" <=> ActiveOn(s) # {}

\* No step reopens a booking that is closed or changes its bill: exit_booking and
\* toggle_slot write a booking they read some statements earlier.
ClosedIsFinal ==
    [][\A b \in Requests :
           bookings[b] # None /\ b \notin Active => bookings'[b] = bookings[b]]_vars

\* A completed booking is billed at the rate frozen when it was made, whatever
\* reprice_all did to the slot during the stay (exit_booking).
BilledAtBookedRate ==
    \A b \in Requests :
        bookings[b] # None /\ bookings[b].status = "completed" =>
            bookings[b].cost =
                Fare((bookings[b].end - bookings[b].start) * TickSeconds, bookings[b].rate)

\* The multiplier in force is between 1 and the cap, also when the two counts of
\* reprice_all straddle other requests' commits.
SurgeInRange == \A s \in Existing : slots[s].surge \in 100 .. AtLeast(SurgeMax, 100)

\* Every request that starts is answered: none waits for ever for a row lock.
EveryRequestAnswered ==
    \A r \in Requests : InFlight(r) ~> pc[r] \in Answers

\* Slot s is held until time t, or with no end.
HeldUntil(s, t) ==
    slots[s] # None /\ slots[s].status = "reserved" /\ slots[s].until \in {t, None}

\* Every hold ends, by a booking, by the administrator or by the sweep: none outlives
\* its TTL for ever (sweep_expired_reservations, whose writes race with the others').
HoldEnds ==
    \A s \in Slots, t \in 0 .. MaxTime - 1 : HeldUntil(s, t) ~> ~HeldUntil(s, t)

\* The surge of the slots is that of the occupancy.
SurgeIsCurrent ==
    \A s \in Existing :
        slots[s].surge = ComputeSurge(OccupancyRatio(Cardinality(Existing),
                                                     Cardinality(FreeSlots)))

\* Once the requests stop, the beat task brings the surge to the occupancy and it
\* stays there, whatever stale multiplier concurrent requests have written.
SurgeSettles == <>[]SurgeIsCurrent

-----------------------------------------------------------------------------
(* The abstract specification. *)

Parked == {<<bookings[b].user, bookings[b].slot>> : b \in Active}

Occ == INSTANCE Occupancy WITH parked <- Parked, open <- Existing

\* The bookings implement the promise of Occupancy: every step parks one driver,
\* lets one leave, opens or closes one slot, or changes nothing of it.
ImplementsOccupancy == Occ!Spec

\* What each slot is shown as.
Shown == [s \in Slots |-> IF slots[s] = None THEN "gone" ELSE slots[s].status]

Flr == INSTANCE Floor WITH parked <- Parked, shown <- Shown

\* In an orderly use the two tables act as one: each step parks one driver and shows the
\* slot as occupied, lets one leave and shows it as available, holds a free slot, opens or
\* closes one nobody is in, or changes nothing of it, though every request reads them
\* some statements before it writes.
ImplementsFloor == Flr!Spec

=============================================================================
