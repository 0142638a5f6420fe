--------------------------- MODULE PaymentService ---------------------------
(***************************************************************************)
(* app/services/payment_service.py with the routes around it: the exit     *)
(* that charges a booking (blueprints/user.py), the mock confirmation and  *)
(* the provider's webhook (blueprints/payments.py).                        *)
(*                                                                         *)
(* A process is an exit request or a worker thread that serves deliveries  *)
(* of the webhook and confirmations, one after the other.  A step is one   *)
(* SQL statement, a flush with its commit, or a step of the provider.      *)
(*                                                                         *)
(* Left out: slots and prices, which ParkingSystem has: an exit sets a     *)
(* bill.  Signatures: a delivery is the provider's own.  UPI links, which  *)
(* change nothing.                                                         *)
(***************************************************************************)
EXTENDS Integers, FiniteSets

CONSTANTS
    Bookings,
    Exits,      \* exit requests; an order's id is the request that created it
    Workers,    \* threads that serve the webhook and the confirmations
    Events,     \* ids of the provider's events
    Costs,      \* the bills an exit may set
    Providers,  \* a subset of {"mock", "razorpay"}: what get_provider may be
    None,
    MaxCrashes  \* bound on the workers and requests that die

ASSUME PaymentAssumption ==
    /\ Costs \subseteq Nat
    /\ Providers \subseteq {"mock", "razorpay"}
    /\ Exits \cap Workers = {}
    /\ None \notin Bookings \cup Exits \cup Events \cup Costs
    /\ MaxCrashes \in Nat

VARIABLES
    bills,     \* bookings.total_cost; None while the booking is active
    payments,  \* table payments, by order_id
    recorded,  \* table webhook_events
    exits,     \* each exit request: its step, route, booking, total_cost read
    hooks,     \* each worker: its step, event, order, status of the payment read
    provider,  \* what get_provider() returns
    captured,  \* the provider: orders it has captured the money of
    sent,      \* the provider: its events
    acked,     \* the provider: the events answered with 200
    crashes

tables == <<bills, payments, recorded>>
outside == <<provider, captured, sent, acked>>
vars == <<bills, payments, recorded, exits, hooks, provider, captured, sent, acked, crashes>>

-----------------------------------------------------------------------------
(* Rows and processes. *)

PaymentStatus == {"created", "paid", "failed"}
Payment == [booking : Bookings, amount : Nat, status : PaymentStatus]

\* "capture" for payment.captured and order.paid, "other" for every other event.
Event == [type : {"capture", "other"}, order : Exits]

ASSUME NoneIsNoRow == None \notin Payment \cup Event \cup PaymentStatus

Answers == {"ok", "duplicate", "error", "crashed"}
Free == Answers \cup {"idle"}

Exit == [at : {"exit", "cost", "find", "insert"} \cup Free, route : {"web", "api"},
         booking : Bookings \cup {None}, cost : Costs \cup {None}]

Hook == [at : {"flush", "apply", "record", "confirm"} \cup Free,
         event : Events \cup {None}, order : Exits \cup {None},
         found : PaymentStatus \cup {None}]

PaymentsOf(b) == {o \in Exits : payments[o] # None /\ payments[o].booking = b}
Paid == {o \in Exits : payments[o] # None /\ payments[o].status = "paid"}

ExitAt(r, step) == exits' = [exits EXCEPT ![r].at = step]
HookAt(w, step) == hooks' = [hooks EXCEPT ![w].at = step]

-----------------------------------------------------------------------------
(* The exit route. *)

\* exit_booking finds the booking active, two exits of it at once included.  Only
\* the web form's route charges it.
ExitRead(r) ==
    \E b \in Bookings, route \in {"web", "api"} :
        /\ exits[r].at = "idle"
        /\ bills[b] = None
        /\ exits' = [exits EXCEPT ![r] = [at |-> "exit", route |-> route,
                                          booking |-> b, cost |-> None]]
        /\ UNCHANGED <<tables, hooks, outside, crashes>>

\* The commit of exit_booking.
ExitCommit(r) ==
    /\ exits[r].at = "exit"
    /\ \E cost \in Costs : bills' = [bills EXCEPT ![exits[r].booking] = cost]
    /\ ExitAt(r, IF exits[r].route = "web" THEN "cost" ELSE "ok")
    /\ UNCHANGED <<payments, recorded, hooks, outside, crashes>>

\* A bug: the smallest bill is taken for a stay that costs nothing.
PayableAboveOne(cost) == cost > 1

Payable(cost) == cost > 0

\* The commits have expired the booking in the session: it is read again.  The
\* PaymentError of a booking without an amount is ignored by the route.
ReadCost(r) ==
    LET cost == bills[exits[r].booking]
    IN  /\ exits[r].at = "cost"
        /\ exits' = [exits EXCEPT ![r].cost = cost,
                                  ![r].at = IF Payable(cost) THEN "find" ELSE "ok"]
        /\ UNCHANGED <<tables, hooks, outside, crashes>>

\* Create, or return the existing one.  Razorpay's order may fail: an exception
\* that nothing catches.
FindPayment(r) ==
    /\ exits[r].at = "find"
    /\ \/ PaymentsOf(exits[r].booking) # {} /\ ExitAt(r, "ok")
       \/ PaymentsOf(exits[r].booking) = {} /\ ExitAt(r, "insert")
       \/ /\ PaymentsOf(exits[r].booking) = {} /\ provider = "razorpay"
          /\ ExitAt(r, "error")
    /\ UNCHANGED <<tables, hooks, outside, crashes>>

\* A bug: payments.booking_id is not unique.
NeverTaken(b) == FALSE

\* payments.booking_id is unique.
Taken(b) == PaymentsOf(b) # {}

\* A bug: the amount is stored in minor units, as the provider has it.
NewPaymentMinor(b, cost) == [booking |-> b, amount |-> cost * 100, status |-> "created"]

\* A bug: status has no default.
NewPaymentNoStatus(b, cost) == [booking |-> b, amount |-> cost, status |-> None]

NewPayment(b, cost) == [booking |-> b, amount |-> cost, status |-> "created"]

\* The IntegrityError of a second payment is not caught.
InsertPayment(r) ==
    LET b == exits[r].booking
    IN  /\ exits[r].at = "insert"
        /\ \/ Taken(b) /\ ExitAt(r, "error") /\ UNCHANGED payments
           \/ /\ ~Taken(b)
              /\ payments' = [payments EXCEPT ![r] = NewPayment(b, exits[r].cost)]
              /\ ExitAt(r, "ok")
        /\ UNCHANGED <<bills, recorded, hooks, outside, crashes>>

-----------------------------------------------------------------------------
(* The provider. *)

\* The driver pays the order the receipt shows: its payment is committed.
Capture(o) ==
    /\ provider = "razorpay"
    /\ payments[o] # None
    /\ o \notin captured
    /\ captured' = captured \cup {o}
    /\ \E e \in Events : sent[e] = None
                         /\ sent' = [sent EXCEPT ![e] = [type |-> "capture", order |-> o]]
    /\ UNCHANGED <<tables, exits, hooks, provider, acked, crashes>>

\* More events about an order: order.paid beside payment.captured, or one that is
\* of no interest.
Notify(o) ==
    /\ provider = "razorpay"
    /\ payments[o] # None
    /\ \E e \in Events, type \in {"capture", "other"} :
           /\ sent[e] = None
           /\ type = "capture" => o \in captured
           /\ sent' = [sent EXCEPT ![e] = [type |-> type, order |-> o]]
    /\ UNCHANGED <<tables, exits, hooks, provider, captured, acked, crashes>>

-----------------------------------------------------------------------------
(* handle_webhook_event *)

\* A bug: an event counts as known from the moment a delivery of it is served.
KnownWhenSeen(e) ==
    e \in recorded \/ \E v \in Workers : hooks[v].event = e /\ hooks[v].at \notin Free

\* The lookup of the event's id sees what is committed.
Known(e) == e \in recorded

\* A delivery of event e, the first, a copy or a retry.  An event of interest goes
\* on to the query for its payment, any other straight to the commit.
Deliver(w, e) ==
    /\ hooks[w].at \in Free
    /\ sent[e] # None
    /\ \/ /\ Known(e)
          /\ HookAt(w, "duplicate")
          /\ acked' = acked \cup {e}
       \/ /\ ~Known(e)
          /\ hooks' = [hooks EXCEPT ![w] =
                         [at |-> IF sent[e].type = "capture" THEN "flush" ELSE "record",
                          event |-> e, order |-> sent[e].order, found |-> None]]
          /\ UNCHANGED acked
    /\ UNCHANGED <<tables, exits, provider, captured, sent, crashes>>

\* Worker v has inserted event e and not committed yet.
Inserting(v, e) == hooks[v].at = "apply" /\ hooks[v].event = e

\* The query autoflushes the event: an INSERT that waits for another of the same
\* id, and whose IntegrityError is outside the try.  Then the payment is read.
FlushEvent(w) ==
    LET e == hooks[w].event
        o == hooks[w].order
    IN  /\ hooks[w].at = "flush"
        /\ \A v \in Workers \ {w} : ~Inserting(v, e)
        /\ \/ e \in recorded /\ HookAt(w, "error")
           \/ /\ e \notin recorded
              /\ hooks' = [hooks EXCEPT ![w].at = "apply",
                                        ![w].found = IF payments[o] = None THEN None
                                                     ELSE payments[o].status]
        /\ UNCHANGED <<tables, exits, outside, crashes>>

\* A bug: the condition on the status is the wrong way round.
SettledAgain(o, found) ==
    IF found = "paid" THEN [payments EXCEPT ![o].status = "paid"] ELSE payments

\* The payment found is marked as paid unless it was.
Settled(o, found) ==
    IF found \in {None, "paid"} THEN payments
    ELSE [payments EXCEPT ![o].status = "paid"]

\* The commit of the event with the payment.
ApplyEvent(w) ==
    /\ hooks[w].at = "apply"
    /\ recorded' = recorded \cup {hooks[w].event}
    /\ payments' = Settled(hooks[w].order, hooks[w].found)
    /\ acked' = acked \cup {hooks[w].event}
    /\ HookAt(w, "ok")
    /\ UNCHANGED <<bills, exits, provider, captured, sent, crashes>>

\* An event of no interest is inserted by the commit, inside the try.
RecordEvent(w) ==
    LET e == hooks[w].event
    IN  /\ hooks[w].at = "record"
        /\ recorded' = recorded \cup {e}
        /\ HookAt(w, IF e \in recorded THEN "duplicate" ELSE "ok")
        /\ acked' = acked \cup {e}
        /\ UNCHANGED <<bills, payments, exits, provider, captured, sent, crashes>>

-----------------------------------------------------------------------------
(* mock_confirm: the click is the mock provider's capture. *)

ConfirmRead(w, o) ==
    /\ hooks[w].at \in Free
    /\ provider = "mock"
    /\ payments[o] # None
    /\ captured' = captured \cup {o}
    /\ hooks' = [hooks EXCEPT ![w] = [at |-> "confirm", event |-> None, order |-> o,
                                      found |-> payments[o].status]]
    /\ UNCHANGED <<tables, exits, provider, sent, acked, crashes>>

\* mark_paid gets the payment the view has in its session.
ConfirmCommit(w) ==
    /\ hooks[w].at = "confirm"
    /\ payments' = Settled(hooks[w].order, hooks[w].found)
    /\ HookAt(w, "ok")
    /\ UNCHANGED <<bills, recorded, exits, outside, crashes>>

-----------------------------------------------------------------------------
(* The system. *)

Crash ==
    /\ crashes < MaxCrashes
    /\ crashes' = crashes + 1
    /\ \/ /\ \E r \in Exits : exits[r].at \notin Free /\ ExitAt(r, "crashed")
          /\ UNCHANGED hooks
       \/ /\ \E w \in Workers : hooks[w].at \notin Free /\ HookAt(w, "crashed")
          /\ UNCHANGED exits
    /\ UNCHANGED <<tables, outside>>

\* Nothing is in flight: the system may rest.
Rest ==
    /\ \A r \in Exits : exits[r].at \in Free
    /\ \A w \in Workers : hooks[w].at \in Free
    /\ UNCHANGED vars

Init ==
    /\ bills = [b \in Bookings |-> None]
    /\ payments = [o \in Exits |-> None]
    /\ recorded = {}
    /\ exits = [r \in Exits |-> [at |-> "idle", route |-> "web", booking |-> None,
                                 cost |-> None]]
    /\ hooks = [w \in Workers |-> [at |-> "idle", event |-> None, order |-> None,
                                   found |-> None]]
    /\ provider \in Providers
    /\ captured = {}
    /\ sent = [e \in Events |-> None]
    /\ acked = {}
    /\ crashes = 0

ChargeStep(r) == ReadCost(r) \/ FindPayment(r) \/ InsertPayment(r)
ExitStep(r) == ExitCommit(r) \/ ChargeStep(r)
HookStep(w) == FlushEvent(w) \/ ApplyEvent(w) \/ RecordEvent(w) \/ ConfirmCommit(w)

Next ==
    \/ \E r \in Exits : ExitRead(r) \/ ExitStep(r) \/ Capture(r) \/ Notify(r)
    \/ \E w \in Workers : HookStep(w)
    \/ \E w \in Workers, e \in Events : Deliver(w, e)
    \/ \E w \in Workers, o \in Exits : ConfirmRead(w, o)
    \/ Crash
    \/ Rest

Spec == Init /\ [][Next]_vars

\* The provider sends an event again until it is acknowledged; among the deliveries
\* that wait, gunicorn's backlog serves each in the end.
Retry(e) == e \notin acked /\ \E w \in Workers : Deliver(w, e)

FairSpec ==
    /\ Spec
    /\ \A w \in Workers : WF_vars(HookStep(w))
    /\ \A e \in Events : SF_vars(Retry(e))

-----------------------------------------------------------------------------
(* Properties. *)

\* Every variable has its type: the columns of Payment, the steps of the routes in
\* exit_slot, mock_confirm and handle_webhook_event.
PaymentTypeOK ==
    /\ bills \in [Bookings -> Costs \cup {None}]
    /\ payments \in [Exits -> Payment \cup {None}]
    /\ recorded \subseteq Events
    /\ exits \in [Exits -> Exit]
    /\ hooks \in [Workers -> Hook]
    /\ provider \in Providers
    /\ captured \subseteq Exits
    /\ sent \in [Events -> Event \cup {None}]
    /\ acked \subseteq Events
    /\ crashes \in Nat

\* An event the provider has been told to send no more is applied: its payment is
\* paid, though the answer, the record and the payment are three writes and copies
\* of the event are served at once (handle_webhook_event).
AckedIsApplied ==
    \A e \in acked : sent[e].type = "capture" => sent[e].order \in Paid

\* No two exits of booking b have raced: the second would set its bill again.
OneExitOf(b) == \A q, r \in Exits : exits[q].booking = b /\ exits[r].booking = b => q = r

\* A driver who has left through the web form, and owes something, has an order to
\* pay, once the route has answered (exit_slot, create_payment_for_booking).
WebExitIsCharged ==
    \A r \in Exits :
        LET b == exits[r].booking
        IN  exits[r].at = "ok" /\ exits[r].route = "web" /\ OneExitOf(b) /\ bills[b] > 0
                => PaymentsOf(b) # {}

\* An order is over the bill, though the bill is read before the order is created
\* (create_payment_for_booking), if a race of two exits did not change the bill.
ChargedAtBill ==
    \A o \in Exits :
        payments[o] # None /\ OneExitOf(payments[o].booking)
            => payments[o].amount = bills[payments[o].booking]

\* Every capture the provider reports is marked as paid in the end, whatever copies
\* race and whoever dies.
CaptureIsApplied ==
    \A e \in Events :
        (sent[e] # None /\ sent[e].type = "capture")
            ~> (sent[e] # None /\ sent[e].order \in Paid)

\* Of two deliveries of one event at once, the one that comes second is answered as
\* a duplicate, not with an error (handle_webhook_event, the comment on its try).
DuplicatesAreRecognised == \A w \in Workers : hooks[w].at # "error"

Due == {<<payments[o].booking, o, payments[o].amount>> :
            o \in {q \in Exits : payments[q] # None}}

Book == INSTANCE Ledger WITH Orders <- Exits, Amounts <- Costs,
                             due <- Due, taken <- captured, settled <- Paid

\* The payments implement the ledger: one charge per booking, paid only after the
\* provider has captured, nothing undone.
ImplementsLedger == Book!Spec

=============================================================================
