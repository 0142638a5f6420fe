--------------------------- MODULE BookingService ---------------------------
(***************************************************************************)
(* app/services/booking_service.py with the routes that call it: the web   *)
(* form ("webbook"), the JSON API ("apibook"), exit from either ("exit"),  *)
(* reserve_slot ("reserve"; no route calls it) and the sweep task.         *)
(*                                                                         *)
(* A booking or an exit that commits goes on to reprice_all, whose steps   *)
(* are in PricingService.                                                  *)
(*                                                                         *)
(* Left out: the blank vehicle number, refused before anything is read;    *)
(* the cache, the broadcast, the receipt and the payment that follow.      *)
(***************************************************************************)
EXTENDS ParkingDB

-----------------------------------------------------------------------------
(* book_slot *)

\* The view looks the slot up before the service does, and the object stays in
\* its session: it is what the later queries of this session return.
BookFromWeb(r) ==
    \E u \in Users, s \in Slots :
        /\ Begin(r, "webbook", u)
        /\ IF slots[s] = None
           THEN Abandon(r, "rejected")
           ELSE /\ Enter(r, Arguments("webbook", u, s, None), "check",
                         [NoSession EXCEPT !.copy = slots[s]])
                /\ UNCHANGED <<dbVars, rowLock>>

BookFromAPI(r) ==
    \E u \in Users, s \in Slots :
        /\ Begin(r, "apibook", u)
        /\ Enter(r, Arguments("apibook", u, s, None), "check", NoSession)
        /\ UNCHANGED <<dbVars, rowLock>>

\* The user must not hold an active booking.
BookCheck(r) ==
    /\ pc[r] = "check"
    /\ IF ActiveOf(job[r].user) # {}
       THEN Abandon(r, "rejected")
       ELSE Continue(r, "lock", sess[r]) /\ UNCHANGED <<dbVars, rowLock, job>>

\* _lock_slot.  The row read is dropped in favour of an object already in the
\* session.  Only an occupied slot is refused: a reserved one is not.
BookLock(r) ==
    LET s    == job[r].slot
        slot == IF sess[r].copy = None THEN slots[s] ELSE sess[r].copy
    IN  /\ pc[r] = "lock"
        /\ job[r].op \in {"webbook", "apibook"}
        /\ Unlocked(r, s)
        /\ IF slots[s] = None \/ AfterExpiry(slot).status = "occupied"
           THEN Abandon(r, "rejected")
           ELSE /\ Lock(r, s)
                /\ Continue(r, "commit", [sess[r] EXCEPT !.copy = slot])
                /\ UNCHANGED <<dbVars, job>>

NewBooking(u, s, surge) ==
    [user |-> u, slot |-> s, status |-> "active", start |-> clock,
     rate |-> CurrentRate(surge), end |-> None, cost |-> None]

\* The flush updates the slot and inserts the booking.  A slot deleted since is a
\* StaleDataError that nothing catches; a conflict on an index is translated.
BookCommit(r) ==
    LET s == job[r].slot
        u == job[r].user
        copy == sess[r].copy
    IN  /\ pc[r] = "commit"
        /\ job[r].op \in {"webbook", "apibook"}
        /\ Unlocked(r, s)
        /\ \/ /\ slots[s] = None
              /\ Abandon(r, "error")
           \/ /\ slots[s] # None
              /\ ~Admits(u, s)
              /\ Abandon(r, "rejected")
           \/ /\ slots[s] # None
              /\ Admits(u, s)
              /\ bookings' = [bookings EXCEPT ![r] = NewBooking(u, s, copy.surge)]
              /\ slots' = [slots EXCEPT ![s] = Flush(@, copy, "occupied")]
              /\ rowLock' = LocksWithout(r)
              /\ Continue(r, "total", NoSession)
              /\ UNCHANGED <<retired, job>>

-----------------------------------------------------------------------------
(* exit_booking *)

\* A bug: the query does not ask for status active.
OwnBooking(u, b) == bookings[b].user = u

\* The booking the query finds is active and the user's own.
MayExit(u, b) == bookings[b].user = u /\ bookings[b].status = "active"

ExitRead(r) ==
    \E u \in Users, b \in Requests :
        /\ bookings[b] # None
        /\ Begin(r, "exit", u)
        /\ IF MayExit(u, b)
           THEN /\ Enter(r, Arguments("exit", u, bookings[b].slot, b), "lock", NoSession)
                /\ UNCHANGED <<dbVars, rowLock>>
           ELSE Abandon(r, "rejected")

\* _lock_slot, then the end time.  A booked slot cannot be deleted, so it is found.
ExitLock(r) ==
    LET s == job[r].slot
    IN  /\ pc[r] = "lock"
        /\ job[r].op = "exit"
        /\ Lock(r, s)
        /\ Continue(r, "commit", [NoSession EXCEPT !.copy = slots[s], !.end = clock])
        /\ UNCHANGED <<dbVars, job>>

\* rate_applied, or the slot's rate of the moment if that is zero.
RateOf(booking, copy) ==
    IF booking.rate # 0 THEN booking.rate ELSE CurrentRate(copy.surge)

\* A bug: the bill is at the rate of the moment.
ClosedAtCurrentRate(booking, copy, end) ==
    [booking EXCEPT !.status = "completed", !.end = end,
                    !.cost = Fare((end - booking.start) * TickSeconds,
                                  CurrentRate(copy.surge))]

Closed(booking, copy, end) ==
    [booking EXCEPT !.status = "completed", !.end = end,
                    !.cost = Fare((end - booking.start) * TickSeconds,
                                  RateOf(booking, copy))]

\* The flush.  Whether the booking is still active is not asked again.
ExitCommit(r) ==
    LET s == job[r].slot
        b == job[r].booking
        copy == sess[r].copy
    IN  /\ pc[r] = "commit"
        /\ job[r].op = "exit"
        /\ Unlocked(r, s)
        /\ bookings' = [bookings EXCEPT ![b] = Closed(@, copy, sess[r].end)]
        /\ slots' = [slots EXCEPT ![s] = Flush(@, copy, "available")]
        /\ rowLock' = LocksWithout(r)
        /\ Continue(r, "total", NoSession)
        /\ UNCHANGED <<retired, job>>

-----------------------------------------------------------------------------
(* reserve_slot *)

ReserveLock(r) ==
    \E u \in Users, s \in Slots :
        /\ Begin(r, "reserve", u)
        /\ Unlocked(r, s)
        /\ IF slots[s] = None \/ AfterExpiry(slots[s]).status # "available"
           THEN Abandon(r, "rejected")
           ELSE /\ Lock(r, s)
                /\ Enter(r, Arguments("reserve", u, s, None), "commit", NoSession)
                /\ UNCHANGED dbVars

\* The row keeps no trace of who holds it.
ReserveCommit(r) ==
    LET s == job[r].slot
    IN  /\ pc[r] = "commit"
        /\ job[r].op = "reserve"
        /\ Unlocked(r, s)
        /\ \/ /\ slots[s] = None
              /\ Abandon(r, "error")
           \/ /\ slots[s] # None
              /\ slots' = [slots EXCEPT ![s].status = "reserved",
                                        ![s].until = clock + HoldTicks]
              /\ Finish(r, "ok")
              /\ UNCHANGED <<bookings, retired>>

-----------------------------------------------------------------------------
(* sweep_expired_reservations, run by the beat task; no row is locked. *)

\* With nothing expired the task ends without a write.
SweepRead(t) ==
    LET expired == {s \in Existing : Expired(slots[s])}
    IN  /\ t = "sweep"
        /\ pc[t] = "idle"
        /\ expired # {}
        /\ Continue(t, "commit", [NoSession EXCEPT !.batch = expired])
        /\ UNCHANGED <<dbVars, rowLock, job>>

\* A bug: the hold loses its end but stays.
FreedTimerOnly(batch) ==
    [s \in Slots |-> IF s \in batch THEN [slots[s] EXCEPT !.until = None] ELSE slots[s]]

\* The slots as the sweep leaves them.
Freed(batch) ==
    [s \in Slots |-> IF s \in batch
                     THEN [slots[s] EXCEPT !.status = "available", !.until = None]
                     ELSE slots[s]]

\* A slot deleted since makes the flush fail as a whole; Celery retries the task.
SweepCommit(t) ==
    /\ t = "sweep"
    /\ pc[t] = "commit"
    /\ \A s \in sess[t].batch : Unlocked(t, s)
    /\ \/ /\ \E s \in sess[t].batch : slots[s] = None
          /\ Abandon(t, "error")
       \/ /\ \A s \in sess[t].batch : slots[s] # None
          /\ slots' = Freed(sess[t].batch)
          /\ Finish(t, "ok")
          /\ UNCHANGED <<bookings, retired>>

=============================================================================
