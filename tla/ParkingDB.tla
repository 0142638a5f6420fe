----------------------------- MODULE ParkingDB -----------------------------
(***************************************************************************)
(* The rows of app/models.py and what a session of the ORM does to them.   *)
(*                                                                         *)
(* The processes are the HTTP requests in flight on the gunicorn workers   *)
(* and the periodic Celery tasks.  Each owns one database session.  A step *)
(* of a process is one SQL statement, or one flush with its COMMIT: under  *)
(* READ COMMITTED every statement sees the rows committed before it, and   *)
(* nothing of a transaction is visible before its COMMIT.                  *)
(*                                                                         *)
(* Left out: the rows a flush writes one after the other before its        *)
(* COMMIT, so two transactions never hold row locks the other waits for;   *)
(* columns that no decision reads (location, vehicle, names).              *)
(***************************************************************************)
EXTENDS Tariff, FiniteSets

CONSTANTS
    Users,       \* users.id of the drivers
    Slots,       \* the ids parking_slots.id can take, in all
    Numbers,     \* slot_number values
    Seeded,      \* the slots that exist at the start
    Requests,    \* HTTP requests; a booking's id is the request that inserted it
    Tasks,       \* the Celery beat tasks that run: a subset of {"sweep", "reprice"}
    None,        \* SQL NULL, a missing row, Python's None
    RowLocks,    \* TRUE: FOR UPDATE is issued (Postgres); FALSE: it is not
    HoldTicks,   \* reservation_ttl_minutes, in clock ticks
    TickSeconds, \* what one tick of the clock stands for
    Ops,         \* workload: the operations that requests call
    OneEach      \* workload: TRUE if no user has two requests in flight

\* What a request may call: book_slot from the form or the API, exit_booking,
\* reserve_slot, and the administrator's add_slot, toggle_slot and delete_slot.
Operations == {"webbook", "apibook", "exit", "reserve", "add", "toggle", "delete"}

ASSUME DBAssumption ==
    /\ IsFiniteSet(Slots) /\ Seeded \subseteq Slots
    /\ Tasks \subseteq {"sweep", "reprice"}
    /\ Requests \cap {"sweep", "reprice"} = {}
    /\ None \notin Users \cup Slots \cup Numbers \cup Requests \cup Tasks
    /\ RowLocks \in BOOLEAN
    /\ HoldTicks \in Nat
    /\ TickSeconds \in Nat
    /\ Ops \subseteq Operations
    /\ OneEach \in BOOLEAN

VARIABLES
    slots,     \* table parking_slots
    bookings,  \* table bookings
    retired,   \* slot ids whose row was deleted: ids are not reused
    rowLock,   \* the process whose transaction holds a FOR UPDATE lock on the row
    clock,     \* utcnow()
    pc,        \* where each process is
    job,       \* the arguments of each request
    sess       \* what each process has read and still holds in its session

dbVars == <<slots, bookings, retired>>
vars == <<slots, bookings, retired, rowLock, clock, pc, job, sess>>

-----------------------------------------------------------------------------
(* Rows. *)

SlotStatus == {"available", "reserved", "occupied"}
BookingStatus == {"active", "completed", "cancelled"}

SlotRow == [number : Numbers, status : SlotStatus,
            until : Nat \cup {None}, surge : Int]

Booking == [user : Users, slot : Slots, status : BookingStatus, start : Nat,
            rate : Int, end : Nat \cup {None}, cost : Int \cup {None}]

ASSUME NoneIsNotAValue == None \notin Int \cup SlotRow \cup Booking

\* The bookings with status active: the rows both partial indexes cover.
Active == {b \in Requests : bookings[b] # None /\ bookings[b].status = "active"}

ActiveOn(s) == {b \in Active : bookings[b].slot = s}
ActiveOf(u) == {b \in Active : bookings[b].user = u}

\* A bug: the migration created the per-user index only.
AdmitsPerUserOnly(u, s) == ActiveOf(u) = {}

\* A bug: the migration created the per-slot index only.
AdmitsPerSlotOnly(u, s) == ActiveOn(s) = {}

\* uq_active_booking_per_slot and uq_active_booking_per_user accept the row.
Admits(u, s) == ActiveOn(s) = {} /\ ActiveOf(u) = {}

\* The rows of parking_slots.
Existing == {s \in Slots : slots[s] # None}
FreeSlots == {s \in Existing : slots[s].status = "available"}

\* The foreign key bookings.slot_id, which is NOT NULL.
BookedEver(s) == \E b \in Requests : bookings[b] # None /\ bookings[b].slot = s

\* A reservation whose TTL has lapsed.
Expired(row) == row.status = "reserved" /\ row.until # None /\ row.until < clock

\* _release_if_reservation_expired, on the object in the session.
AfterExpiry(row) ==
    IF Expired(row) THEN [row EXCEPT !.status = "available", !.until = None] ELSE row

-----------------------------------------------------------------------------
(* Sessions. *)

\* copy: the slot object as it was loaded; end: the end time computed;
\* found: the booking object loaded; batch: the slots loaded by the sweep;
\* total, free: the two counts of the occupancy.
NoSession == [copy |-> None, end |-> None, found |-> None, batch |-> {},
              total |-> 0, free |-> 0]

Session == [copy : SlotRow \cup {None}, end : Nat \cup {None},
            found : Requests \cup {None}, batch : SUBSET Slots,
            total : Nat, free : Nat]

\* The UPDATE the ORM emits for an object loaded as copy, whose status and
\* reserved_until are then set to status and None: only a column that differs
\* from what was loaded is written.
Flush(row, copy, status) ==
    [row EXCEPT !.status = IF copy.status = status THEN @ ELSE status,
                !.until  = IF copy.until = None THEN @ ELSE None]

\* No other transaction holds a lock on row s.
Unlocked(p, s) == rowLock[s] \in {None, p}

\* A bug: the transaction is left open when the request ends.
LocksKept(p) == rowLock

\* The row locks once the transaction of p is over.
LocksWithout(p) == [s \in Slots |-> IF rowLock[s] = p THEN None ELSE rowLock[s]]

\* A bug: the lock is not asked for.
LockNotTaken(p, s) == UNCHANGED rowLock

\* SELECT ... FOR UPDATE of row s: waits for the lock, where locks are taken.
Lock(p, s) ==
    /\ Unlocked(p, s)
    /\ rowLock' = IF RowLocks THEN [rowLock EXCEPT ![s] = p] ELSE rowLock

-----------------------------------------------------------------------------
(* Processes. *)

Answers == {"ok", "rejected", "error", "crashed"}
Procs == Requests \cup Tasks

Job == [op : Operations \cup {"none"}, user : Users \cup {None},
        slot : Slots \cup {None}, booking : Requests \cup {None}]

NoJob == [op |-> "none", user |-> None, slot |-> None, booking |-> None]

InFlight(p) == pc[p] \notin Answers \cup {"idle"}

\* Request r may start, on behalf of user u: any worker, at any time.
Begin(r, op, u) ==
    /\ pc[r] = "idle"
    /\ op \in Ops
    /\ (OneEach /\ u # None) => \A q \in Requests : InFlight(q) => job[q].user # u

Arguments(op, u, s, b) == [op |-> op, user |-> u, slot |-> s, booking |-> b]

\* Control of p moves to step, with session contents.
Continue(p, step, contents) ==
    /\ pc' = [pc EXCEPT ![p] = step]
    /\ sess' = [sess EXCEPT ![p] = contents]
    /\ UNCHANGED clock

\* The first step of a request that does not end at once.
Enter(r, arguments, step, contents) ==
    /\ job' = [job EXCEPT ![r] = arguments]
    /\ Continue(r, step, contents)

\* p is answered; its transaction is over and its session removed.  A task goes
\* back to waiting for its next beat.
Finish(p, answer) ==
    /\ pc' = [pc EXCEPT ![p] = IF p \in Tasks THEN "idle" ELSE answer]
    /\ sess' = [sess EXCEPT ![p] = NoSession]
    /\ job' = [job EXCEPT ![p] = NoJob]
    /\ rowLock' = LocksWithout(p)
    /\ UNCHANGED clock

\* p is answered with its transaction rolled back.
Abandon(p, answer) == Finish(p, answer) /\ UNCHANGED dbVars

=============================================================================
