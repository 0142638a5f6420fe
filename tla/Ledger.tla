------------------------------- MODULE Ledger -------------------------------
(***************************************************************************)
(* What the payments promise: a booking is charged once, with one order,   *)
(* for an amount that stays; an order is taken as settled only after the   *)
(* provider has taken the money; and nothing of it is ever undone.         *)
(***************************************************************************)
CONSTANTS Bookings, Orders, Amounts

VARIABLES
    due,     \* the charges: triples <<booking, order, amount>>
    taken,   \* the orders whose money the provider has
    settled  \* the orders the car park has marked as paid

Init == due = {} /\ taken = {} /\ settled = {}

Charge(b, o, amount) ==
    /\ \A d \in due : d[1] # b /\ d[2] # o
    /\ due' = due \cup {<<b, o, amount>>}
    /\ UNCHANGED <<taken, settled>>

Take(o) ==
    /\ o \notin taken
    /\ \E d \in due : d[2] = o
    /\ taken' = taken \cup {o}
    /\ UNCHANGED <<due, settled>>

Settle(o) ==
    /\ o \in taken \ settled
    /\ settled' = settled \cup {o}
    /\ UNCHANGED <<due, taken>>

Next == \E o \in Orders :
            \/ Take(o) \/ Settle(o)
            \/ \E b \in Bookings, amount \in Amounts : Charge(b, o, amount)

Spec == Init /\ [][Next]_<<due, taken, settled>>

=============================================================================
