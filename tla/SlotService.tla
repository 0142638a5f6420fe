---------------------------- MODULE SlotService ----------------------------
(***************************************************************************)
(* The administrator's operations on slots, app/services/slot_service.py:  *)
(* add_slot ("add"), toggle_slot ("toggle") and delete_slot ("delete").    *)
(* None of them locks the row it reads, and none reprices.                 *)
(*                                                                         *)
(* Left out: the checks of the form's fields, before anything is read.     *)
(***************************************************************************)
EXTENDS ParkingDB

\* A bug: surge_multiplier has no default.
NewSlotUnpriced(number) ==
    [number |-> number, status |-> "available", until |-> None, surge |-> None]

\* The row as it is inserted: the columns' defaults.
NewSlot(number) ==
    [number |-> number, status |-> "available", until |-> None, surge |-> 100]

\* One INSERT: slot_number is unique, the id is new.
AddSlot(r) ==
    \E number \in Numbers :
        /\ Begin(r, "add", None)
        /\ \/ /\ \E s \in Existing : slots[s].number = number
              /\ Abandon(r, "rejected")
           \/ /\ \A s \in Existing : slots[s].number # number
              /\ \E s \in Slots \ (Existing \cup retired) :
                     slots' = [slots EXCEPT ![s] = NewSlot(number)]
              /\ Finish(r, "ok")
              /\ UNCHANGED <<bookings, retired>>

-----------------------------------------------------------------------------
(* toggle_slot *)

ToggleRead(r) ==
    \E s \in Slots :
        /\ Begin(r, "toggle", None)
        /\ IF slots[s] = None
           THEN Abandon(r, "rejected")
           ELSE /\ Enter(r, Arguments("toggle", None, s, None),
                         IF slots[s].status = "occupied" THEN "find" ELSE "commit",
                         [NoSession EXCEPT !.copy = slots[s]])
                /\ UNCHANGED <<dbVars, rowLock>>

\* The active booking of an occupied slot, if there is one.
ToggleFind(r) ==
    LET active == ActiveOn(job[r].slot)
    IN  /\ pc[r] = "find"
        /\ job[r].op = "toggle"
        /\ \E b \in IF active = {} THEN {None} ELSE active :
               Continue(r, "commit", [sess[r] EXCEPT !.found = b])
        /\ UNCHANGED <<dbVars, rowLock, job>>

Cancelled(booking) == [booking EXCEPT !.status = "cancelled"]

\* The flush of the slot and of the booking found.
ToggleCommit(r) ==
    LET s == job[r].slot
        copy == sess[r].copy
        b == sess[r].found
        target == IF copy.status = "occupied" THEN "available" ELSE "occupied"
    IN  /\ pc[r] = "commit"
        /\ job[r].op = "toggle"
        /\ Unlocked(r, s)
        /\ \/ /\ slots[s] = None
              /\ Abandon(r, "error")
           \/ /\ slots[s] # None
              /\ slots' = [slots EXCEPT ![s] = Flush(@, copy, target)]
              /\ bookings' = IF b = None THEN bookings
                             ELSE [bookings EXCEPT ![b] = Cancelled(@)]
              /\ Finish(r, "ok")
              /\ UNCHANGED retired

-----------------------------------------------------------------------------
(* delete_slot *)

DeleteRead(r) ==
    \E s \in Slots :
        /\ Begin(r, "delete", None)
        /\ IF slots[s] = None \/ slots[s].status = "occupied"
           THEN Abandon(r, "rejected")
           ELSE /\ Enter(r, Arguments("delete", None, s, None), "find", NoSession)
                /\ UNCHANGED <<dbVars, rowLock>>

\* The slot must have no booking, of any status.
DeleteCount(r) ==
    /\ pc[r] = "find"
    /\ job[r].op = "delete"
    /\ IF BookedEver(job[r].slot)
       THEN Abandon(r, "rejected")
       ELSE Continue(r, "commit", sess[r]) /\ UNCHANGED <<dbVars, rowLock, job>>

\* A bug: the table has no foreign key.
NotReferenced(s) == TRUE

\* What the DELETE of a slot row requires of the table of bookings.
Unreferenced(s) == ~BookedEver(s)

\* A booking inserted since stops the DELETE, uncaught.  A row that is gone
\* already is no error.
DeleteCommit(r) ==
    LET s == job[r].slot
    IN  /\ pc[r] = "commit"
        /\ job[r].op = "delete"
        /\ Unlocked(r, s)
        /\ \/ /\ ~Unreferenced(s)
              /\ Abandon(r, "error")
           \/ /\ Unreferenced(s)
              /\ slots' = [slots EXCEPT ![s] = None]
              /\ retired' = retired \cup {s}
              /\ Finish(r, "ok")
              /\ UNCHANGED bookings

=============================================================================
