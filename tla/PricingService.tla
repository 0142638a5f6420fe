--------------------------- MODULE PricingService ---------------------------
(***************************************************************************)
(* app/services/pricing_service.py, reprice_all: two counts and an UPDATE  *)
(* of every row, each a statement with a snapshot of its own.  It is the   *)
(* tail of a booking and of an exit, and a beat task.                      *)
(***************************************************************************)
EXTENDS ParkingDB

\* The tail of a request, or the next beat.
CountTotal(p) ==
    /\ \/ pc[p] = "total"
       \/ p = "reprice" /\ pc[p] = "idle"
    /\ Continue(p, IF Existing = {} THEN "surge" ELSE "free",
                [NoSession EXCEPT !.total = Cardinality(Existing)])
    /\ UNCHANGED <<dbVars, rowLock, job>>

CountFree(p) ==
    /\ pc[p] = "free"
    /\ Continue(p, "surge", [sess[p] EXCEPT !.free = Cardinality(FreeSlots)])
    /\ UNCHANGED <<dbVars, rowLock, job>>

\* A bug: only the free slots are repriced.
RepricedFreeOnly(surge) ==
    [s \in Slots |-> IF s \in FreeSlots THEN [slots[s] EXCEPT !.surge = surge]
                     ELSE slots[s]]

Repriced(surge) ==
    [s \in Slots |-> IF s \in Existing THEN [slots[s] EXCEPT !.surge = surge]
                     ELSE slots[s]]

\* The UPDATE has no WHERE: it waits for the lock of any row.
WriteSurge(p) ==
    /\ pc[p] = "surge"
    /\ \A s \in Existing : Unlocked(p, s)
    /\ slots' = Repriced(ComputeSurge(OccupancyRatio(sess[p].total, sess[p].free)))
    /\ Finish(p, "ok")
    /\ UNCHANGED <<bookings, retired>>

=============================================================================
