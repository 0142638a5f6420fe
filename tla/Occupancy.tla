----------------------------- MODULE Occupancy -----------------------------
(***************************************************************************)
(* What the car park promises, whatever the requests do concurrently: a    *)
(* driver parks in one slot, a slot takes one driver, and a slot somebody  *)
(* is parked in is not removed.  ParkingSystem implements it; a driver is  *)
(* parked while a booking of theirs is active.                             *)
(***************************************************************************)
CONSTANTS Users, Slots

VARIABLES
    parked,  \* the pairs <<user, slot>>
    open     \* the slots that exist

\* No two drivers in a slot, no driver in two slots.
Exclusive == \A p, q \in parked : p[1] = q[1] \/ p[2] = q[2] => p = q

Init ==
    /\ open \in SUBSET Slots
    /\ parked \in SUBSET (Users \X open)
    /\ Exclusive

\* A driver takes a slot that is open and free.
Park(u, s) ==
    /\ s \in open
    /\ \A p \in parked : p[1] # u /\ p[2] # s
    /\ parked' = parked \cup {<<u, s>>}
    /\ UNCHANGED open

\* The driver leaves, or the administrator clears the slot.
Leave(u, s) ==
    /\ <<u, s>> \in parked
    /\ parked' = parked \ {<<u, s>>}
    /\ UNCHANGED open

Open(s) ==
    /\ s \notin open
    /\ open' = open \cup {s}
    /\ UNCHANGED parked

\* A slot is removed only with nobody in it.
Close(s) ==
    /\ s \in open
    /\ \A p \in parked : p[2] # s
    /\ open' = open \ {s}
    /\ UNCHANGED parked

Next == \/ \E u \in Users, s \in Slots : Park(u, s) \/ Leave(u, s)
        \/ \E s \in Slots : Open(s) \/ Close(s)

Spec == Init /\ [][Next]_<<parked, open>>

=============================================================================
