------------------------------- MODULE Floor -------------------------------
(***************************************************************************)
(* The car park as one table: who is parked where, and what each slot is   *)
(* shown as, changed together in one step.  ParkingSystem keeps the two in *)
(* tables of their own, reads them in several statements and implements    *)
(* this where it is used in an orderly way (Orderly_proofs).  Other than   *)
(* Occupancy, it tells a slot that is held from one that is free.          *)
(***************************************************************************)
CONSTANTS Users, Slots

VARIABLES
    parked,  \* the pairs <<user, slot>>
    shown    \* what each slot is shown as, or "gone"

Signs == {"gone", "available", "reserved", "occupied"}

\* No two drivers in a slot, no driver in two slots.
Exclusive == \A p, q \in parked : p[1] = q[1] \/ p[2] = q[2] => p = q

\* A slot is shown as occupied exactly while somebody is in it.
Truthful == \A s \in Slots : shown[s] = "occupied" <=> \E p \in parked : p[2] = s

Init ==
    /\ parked \in SUBSET (Users \X Slots)
    /\ shown \in [Slots -> Signs]
    /\ Exclusive
    /\ Truthful

\* A driver takes a slot, free or held.
Park(u, s) ==
    /\ shown[s] \in {"available", "reserved"}
    /\ \A p \in parked : p[1] # u
    /\ parked' = parked \cup {<<u, s>>}
    /\ shown' = [shown EXCEPT ![s] = "occupied"]

\* The slot a driver leaves can be taken at once.
Leave(u, s) ==
    /\ <<u, s>> \in parked
    /\ parked' = parked \ {<<u, s>>}
    /\ shown' = [shown EXCEPT ![s] = "available"]

\* Only a free slot is held.  In an orderly use holds end with a booking or the slot.
Hold(s) ==
    /\ shown[s] = "available"
    /\ shown' = [shown EXCEPT ![s] = "reserved"]
    /\ UNCHANGED parked

Open(s) ==
    /\ shown[s] = "gone"
    /\ shown' = [shown EXCEPT ![s] = "available"]
    /\ UNCHANGED parked

\* A slot is removed only with nobody in it.
Close(s) ==
    /\ shown[s] \in {"available", "reserved"}
    /\ shown' = [shown EXCEPT ![s] = "gone"]
    /\ UNCHANGED parked

Next == \/ \E u \in Users, s \in Slots : Park(u, s) \/ Leave(u, s)
        \/ \E s \in Slots : Hold(s) \/ Open(s) \/ Close(s)

Spec == Init /\ [][Next]_<<parked, shown>>

=============================================================================
