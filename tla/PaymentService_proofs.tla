------------------------ MODULE PaymentService_proofs ------------------------
(***************************************************************************)
(* What holds of PaymentService for any number of bookings, exits, workers *)
(* and events.                                                             *)
(*                                                                         *)
(* PInv is inductive.  ExitsInv ties what an exit has read to the bills    *)
(* and the payments, HooksInv what a worker has read of an event to the    *)
(* provider's side, MoneyInv the provider's side to the tables.            *)
(***************************************************************************)
EXTENDS PaymentService, TLAPS

-----------------------------------------------------------------------------
(* The inductive invariant. *)

\* A payment belongs to the exit that created it, of a booking that has a bill.
ChargesInv ==
    /\ \A o \in Exits : payments[o] # None =>
           /\ exits[o].at \in Answers
           /\ exits[o].booking = payments[o].booking
           /\ bills[payments[o].booking] # None
    /\ \A o, q \in Exits :
           payments[o] # None /\ payments[q] # None /\ payments[o].booking = payments[q].booking
               => o = q

\* What exit r knows of its booking at each of its steps.
ExitKnows(r) ==
    /\ exits[r].at = "idle" => exits[r].booking = None
    /\ exits[r].at # "idle" => exits[r].booking \in Bookings
    /\ exits[r].at \in {"cost", "find", "insert", "ok"} => bills[exits[r].booking] # None
    /\ exits[r].at \in {"find", "insert"} =>
           /\ exits[r].cost \in Costs
           /\ OneExitOf(exits[r].booking) => exits[r].cost = bills[exits[r].booking]

ExitsInv == \A r \in Exits : ExitKnows(r)

MoneyInv ==
    /\ Paid \subseteq captured
    /\ \A o \in captured : payments[o] # None
    /\ \A e \in Events : sent[e] # None /\ sent[e].type = "capture"
                             => sent[e].order \in captured
    /\ \A e \in recorded : /\ sent[e] # None
                           /\ sent[e].type = "capture" => sent[e].order \in Paid
    /\ acked \subseteq recorded

\* What worker w knows of the event or the confirmation it serves.
HookKnows(w) ==
    /\ hooks[w].at \in {"flush", "apply", "record"} =>
           hooks[w].event \in Events /\ sent[hooks[w].event] # None
    /\ hooks[w].at \in {"flush", "apply"} =>
           sent[hooks[w].event] = [type |-> "capture", order |-> hooks[w].order]
    /\ hooks[w].at = "record" => sent[hooks[w].event].type = "other"
    /\ hooks[w].at \in {"flush", "apply", "confirm"} => hooks[w].order \in captured
    /\ hooks[w].at \in {"apply", "confirm"} =>
           /\ hooks[w].found \in PaymentStatus
           /\ hooks[w].found = "paid" => hooks[w].order \in Paid

HooksInv == \A w \in Workers : HookKnows(w)

PInv ==
    /\ PaymentTypeOK
    /\ ChargesInv
    /\ ExitsInv
    /\ WebExitIsCharged
    /\ ChargedAtBill
    /\ MoneyInv
    /\ HooksInv

LedgerStep == [Book!Next]_<<Due, captured, Paid>>

-----------------------------------------------------------------------------
(* Steps that leave a part of the state alone keep what is said of it. *)

\* The requests' side.
LEMMA ExitFrame ==
    ASSUME PInv, UNCHANGED <<bills, payments, exits>>
    PROVE  ChargesInv' /\ ExitsInv' /\ WebExitIsCharged' /\ ChargedAtBill'
  BY DEF PInv, ChargesInv, ExitsInv, ExitKnows, WebExitIsCharged, ChargedAtBill, OneExitOf,
         PaymentsOf

\* The provider's and the workers' side.
LEMMA MoneyFrame ==
    ASSUME PInv, UNCHANGED <<payments, recorded, captured, sent, acked>>
    PROVE  /\ MoneyInv'
           /\ \A w \in Workers : hooks'[w] = hooks[w] => HookKnows(w)'
  BY DEF PInv, MoneyInv, HooksInv, HookKnows, Paid

LEMMA LedgerFrame ==
    ASSUME UNCHANGED <<payments, captured>>
    PROVE  LedgerStep
  BY DEF LedgerStep, Due, Paid

-----------------------------------------------------------------------------
(* A process moves to another of its steps. *)

LEMMA ExitAtType ==
    ASSUME PaymentTypeOK, NEW r, NEW k \in {"exit", "cost", "find", "insert"} \cup Free,
           exits' = [exits EXCEPT ![r].at = k]
    PROVE  exits' \in [Exits -> Exit]
  BY ZenonT(40) DEF PaymentTypeOK, Exit

LEMMA HookAtType ==
    ASSUME PaymentTypeOK, NEW w, NEW k \in {"flush", "apply", "record", "confirm"} \cup Free,
           hooks' = [hooks EXCEPT ![w].at = k]
    PROVE  hooks' \in [Workers -> Hook]
  BY ZenonT(40) DEF PaymentTypeOK, Hook

-----------------------------------------------------------------------------
(* The exit route. *)

\* A later exit of a booking makes the claims about single exits only weaker.
LEMMA ExitReadKeeps ==
    ASSUME PInv, NEW r \in Exits, ExitRead(r)
    PROVE  PInv' /\ LedgerStep
  <1>1. PICK b \in Bookings, route \in {"web", "api"} :
            /\ exits[r].at = "idle"
            /\ bills[b] = None
            /\ exits' = [exits EXCEPT ![r] = [at |-> "exit", route |-> route,
                                              booking |-> b, cost |-> None]]
    BY DEF ExitRead
  <1>2. UNCHANGED <<tables, hooks, outside, crashes>>
    BY DEF ExitRead
  <1>3. PaymentTypeOK'
    BY <1>1, <1>2 DEF PInv, PaymentTypeOK, Exit, tables, outside
  <1>5. \A q \in Exits : q # r => exits'[q] = exits[q]
    BY <1>1 DEF PInv, PaymentTypeOK
  <1>6. exits'[r].at = "exit" /\ exits'[r].booking = b
    BY <1>1 DEF PInv, PaymentTypeOK
  <1>7. exits[r].booking = None /\ payments[r] = None
    BY <1>1 DEF PInv, ExitsInv, ExitKnows, ChargesInv, Answers
  <1>8. \A c \in Bookings : OneExitOf(c)' => OneExitOf(c)
    BY <1>5, <1>7, PaymentAssumption DEF OneExitOf
  <1>9. ChargesInv'
    BY <1>2, <1>5, <1>7 DEF PInv, ChargesInv, tables
  <1>10. ExitsInv'
    BY <1>2, <1>5, <1>6, <1>8 DEF PInv, ExitsInv, ExitKnows, tables
  <1>11. WebExitIsCharged'
    BY <1>2, <1>5, <1>6, <1>8 DEF PInv, WebExitIsCharged, PaymentsOf, ExitsInv, ExitKnows, tables
  <1>12. ChargedAtBill'
    <2> SUFFICES ASSUME NEW o \in Exits, NEW c, payments[o] # None,
                        c = payments[o].booking, OneExitOf(c)'
                 PROVE  payments[o].amount = bills[c]
      BY <1>2 DEF ChargedAtBill, tables, OneExitOf
    <2>1. c \in Bookings
      BY DEF PInv, PaymentTypeOK, Payment
    <2> QED BY <1>8, <2>1 DEF PInv, ChargedAtBill
  <1>13. MoneyInv' /\ HooksInv'
    BY <1>2, MoneyFrame DEF HooksInv, tables, outside
  <1>14. LedgerStep
    BY <1>2, LedgerFrame DEF tables, outside
  <1> QED BY <1>3, <1>9, <1>10, <1>11, <1>12, <1>13, <1>14 DEF PInv

\* Whoever has charged the booking before is another exit of it.
LEMMA ExitCommitKeeps ==
    ASSUME PInv, NEW r \in Exits, ExitCommit(r)
    PROVE  PInv' /\ LedgerStep
  <1> DEFINE b == exits[r].booking
  <1>1. PICK cost \in Costs : bills' = [bills EXCEPT ![b] = cost]
    BY DEF ExitCommit
  <1>2. /\ exits[r].at = "exit"
        /\ exits' = [exits EXCEPT ![r].at = IF exits[r].route = "web" THEN "cost" ELSE "ok"]
        /\ UNCHANGED <<payments, recorded, hooks, outside, crashes>>
    BY DEF ExitCommit, ExitAt
  <1>3. PaymentTypeOK'
    <2>1. (IF exits[r].route = "web" THEN "cost" ELSE "ok")
              \in {"exit", "cost", "find", "insert"} \cup Free
      BY DEF Free, Answers
    <2>2. exits' \in [Exits -> Exit]
      BY <1>2, <2>1, ExitAtType DEF PInv
    <2>3. bills' \in [Bookings -> Costs \cup {None}]
      BY <1>1 DEF PInv, PaymentTypeOK
    <2> QED BY <1>2, <2>2, <2>3 DEF PInv, PaymentTypeOK, outside
  <1>4. \A q \in Exits : /\ exits'[q].booking = exits[q].booking
                         /\ exits'[q].cost = exits[q].cost
                         /\ exits'[q].route = exits[q].route
                         /\ q # r => exits'[q].at = exits[q].at
    BY <1>2 DEF PInv, PaymentTypeOK
  <1>5. exits'[r].at = (IF exits[r].route = "web" THEN "cost" ELSE "ok")
    BY <1>2 DEF PInv, PaymentTypeOK
  <1>6. payments[r] = None /\ b \in Bookings
    BY <1>2 DEF PInv, ExitsInv, ExitKnows, ChargesInv, Answers
  <1>7. bills'[b] # None /\ \A c \in Bookings : c # b => bills'[c] = bills[c]
    BY <1>1, <1>6, PaymentAssumption DEF PInv, PaymentTypeOK
  <1>8. \A c : OneExitOf(c)' <=> OneExitOf(c)
    BY <1>4 DEF OneExitOf
  <1>9. ChargesInv'
    <2>1. \A o \in Exits : payments[o] # None => payments[o].booking \in Bookings
      BY DEF PInv, PaymentTypeOK, Payment
    <2> QED BY <1>2, <1>4, <1>6, <1>7, <2>1 DEF PInv, ChargesInv
  <1>10. ExitsInv'
    <2> SUFFICES ASSUME NEW q \in Exits PROVE ExitKnows(q)'
      BY DEF ExitsInv
    <2>1. ExitKnows(q)
      BY DEF PInv, ExitsInv
    <2>2. CASE q = r
      BY <2>2, <1>2, <1>4, <1>5, <1>6, <1>7 DEF ExitKnows
    <2>3. CASE q # r /\ exits[q].booking = b
      <3>1. ~OneExitOf(b)
        BY <2>3 DEF OneExitOf
      <3> QED BY <2>1, <2>3, <3>1, <1>4, <1>7, <1>8 DEF ExitKnows
    <2>4. CASE q # r /\ exits[q].booking # b
      BY <2>1, <2>4, <1>4, <1>7, <1>8 DEF ExitKnows
    <2> QED BY <2>2, <2>3, <2>4
  <1>11. WebExitIsCharged'
    <2> SUFFICES ASSUME NEW q \in Exits, exits'[q].at = "ok", exits'[q].route = "web",
                        OneExitOf(exits[q].booking), bills'[exits[q].booking] > 0
                 PROVE  PaymentsOf(exits[q].booking) # {}
      BY <1>2, <1>4, <1>8 DEF WebExitIsCharged, PaymentsOf
    <2>1. q # r
      BY <1>4, <1>5
    <2>2. exits[q].booking # b
      BY <2>1 DEF OneExitOf
    <2>3. exits[q].at = "ok" /\ exits[q].booking \in Bookings
      BY <2>1, <1>4 DEF PInv, ExitsInv, ExitKnows
    <2> QED BY <2>2, <2>3, <1>4, <1>7 DEF PInv, WebExitIsCharged
  <1>12. ChargedAtBill'
    <2> SUFFICES ASSUME NEW o \in Exits, payments[o] # None, OneExitOf(payments[o].booking)
                 PROVE  payments[o].amount = bills'[payments[o].booking]
      BY <1>2, <1>8 DEF ChargedAtBill
    <2>1. exits[o].booking = payments[o].booking /\ payments[o].booking \in Bookings
      BY DEF PInv, ChargesInv, PaymentTypeOK, Payment
    <2>2. o # r
      BY <1>6
    <2>3. payments[o].booking # b
      BY <2>1, <2>2 DEF OneExitOf
    <2> QED BY <2>1, <2>3, <1>7 DEF PInv, ChargedAtBill
  <1>13. MoneyInv' /\ HooksInv'
    BY <1>2, MoneyFrame DEF HooksInv, outside
  <1>14. LedgerStep
    BY <1>2, LedgerFrame DEF outside
  <1> QED BY <1>3, <1>9, <1>10, <1>11, <1>12, <1>13, <1>14 DEF PInv

\* An exit goes to its next step and writes nothing.
LEMMA MoveKeeps ==
    ASSUME PInv, NEW r \in Exits, exits[r].at \notin Free,
           exits' \in [Exits -> Exit],
           \A q \in Exits \ {r} : exits'[q] = exits[q],
           exits'[r].booking = exits[r].booking,
           ExitKnows(r)',
           exits'[r].at = "ok" /\ exits'[r].route = "web" /\ bills[exits[r].booking] > 0
               => PaymentsOf(exits[r].booking) # {},
           UNCHANGED <<tables, hooks, outside>>,
           crashes' \in Nat
    PROVE  PInv' /\ LedgerStep
  <1>1. PaymentTypeOK'
    BY DEF PInv, PaymentTypeOK, tables, outside
  <1>2. payments[r] = None
    BY DEF PInv, ChargesInv, Free
  <1>3. ChargesInv'
    BY <1>2 DEF PInv, ChargesInv, tables
  <1>4. \A q \in Exits : exits'[q].booking = exits[q].booking
    OBVIOUS
  <1>5. \A c : OneExitOf(c)' <=> OneExitOf(c)
    BY <1>4 DEF OneExitOf
  <1>6. ExitsInv'
    BY <1>5 DEF PInv, ExitsInv, ExitKnows, tables
  <1>7. WebExitIsCharged'
    <2> SUFFICES ASSUME NEW q \in Exits, exits'[q].at = "ok", exits'[q].route = "web",
                        OneExitOf(exits[q].booking), bills[exits[q].booking] > 0
                 PROVE  PaymentsOf(exits[q].booking) # {}
      BY <1>4, <1>5 DEF WebExitIsCharged, PaymentsOf, tables
    <2>1. CASE q = r
      BY <2>1
    <2>2. CASE q # r
      BY <2>2 DEF PInv, WebExitIsCharged
    <2> QED BY <2>1, <2>2
  <1>8. ChargedAtBill'
    BY <1>5 DEF PInv, ChargedAtBill, tables
  <1>9. MoneyInv' /\ HooksInv'
    BY MoneyFrame DEF HooksInv, tables, outside
  <1>10. LedgerStep
    BY LedgerFrame DEF tables, outside
  <1> QED BY <1>1, <1>3, <1>6, <1>7, <1>8, <1>9, <1>10 DEF PInv

LEMMA ReadCostKeeps ==
    ASSUME PInv, NEW r \in Exits, ReadCost(r)
    PROVE  PInv' /\ LedgerStep
  <1> DEFINE cost == bills[exits[r].booking]
             next == IF Payable(cost) THEN "find" ELSE "ok"
  <1>1. /\ exits[r].at = "cost"
        /\ exits' = [exits EXCEPT ![r].cost = cost, ![r].at = next]
        /\ UNCHANGED <<tables, hooks, outside, crashes>>
    BY DEF ReadCost
  <1>2. exits[r].booking \in Bookings /\ cost \in Costs
    BY <1>1 DEF PInv, ExitsInv, ExitKnows, PaymentTypeOK
  <1>3. next \in {"find", "ok"} /\ (next = "ok" => ~Payable(cost))
    OBVIOUS
  <1> HIDE DEF next
  <1>4. exits' \in [Exits -> Exit]
    BY <1>1, <1>2, <1>3 DEF PInv, PaymentTypeOK, Exit, Free, Answers
  <1>5. \A q \in Exits \ {r} : exits'[q] = exits[q]
    BY <1>1 DEF PInv, PaymentTypeOK
  <1>6. /\ exits'[r].booking = exits[r].booking
        /\ exits'[r].cost = cost
        /\ exits'[r].at = next
    BY <1>1 DEF PInv, PaymentTypeOK, Exit
  <1>7. ExitKnows(r)'
    BY <1>1, <1>2, <1>3, <1>6, PaymentAssumption DEF ExitKnows, tables
  <1>8. exits'[r].at # "ok" \/ ~(cost > 0)
    BY <1>3, <1>6 DEF Payable
  <1>9. exits[r].at \notin Free /\ crashes' \in Nat
    BY <1>1 DEF Free, Answers, PInv, PaymentTypeOK
  <1> QED BY <1>1, <1>4, <1>5, <1>6, <1>7, <1>8, <1>9, MoveKeeps

LEMMA FindPaymentKeeps ==
    ASSUME PInv, NEW r \in Exits, FindPayment(r)
    PROVE  PInv' /\ LedgerStep
  <1>1. exits[r].at = "find" /\ UNCHANGED <<tables, hooks, outside, crashes>>
    BY DEF FindPayment
  <1>2. PICK k \in {"ok", "insert", "error"} :
            /\ exits' = [exits EXCEPT ![r].at = k]
            /\ k = "ok" => PaymentsOf(exits[r].booking) # {}
    BY DEF FindPayment, ExitAt
  <1>3. exits' \in [Exits -> Exit]
    BY <1>2, ExitAtType DEF PInv, Free, Answers
  <1>4. /\ \A q \in Exits \ {r} : exits'[q] = exits[q]
        /\ exits'[r].booking = exits[r].booking
        /\ exits'[r].cost = exits[r].cost
        /\ exits'[r].at = k
    BY <1>2 DEF PInv, PaymentTypeOK, Exit
  <1>5. \A c : OneExitOf(c)' <=> OneExitOf(c)
    BY <1>4 DEF OneExitOf
  <1>6. ExitKnows(r)'
    BY <1>1, <1>4, <1>5 DEF PInv, ExitsInv, ExitKnows, tables
  <1>7. exits[r].at \notin Free /\ crashes' \in Nat
    BY <1>1 DEF Free, Answers, PInv, PaymentTypeOK
  <1> QED BY <1>1, <1>2, <1>3, <1>4, <1>6, <1>7, MoveKeeps

\* payments.booking_id is unique, so a second payment of a booking is refused.
LEMMA InsertPaymentKeeps ==
    ASSUME PInv, NEW r \in Exits, InsertPayment(r)
    PROVE  PInv' /\ LedgerStep
  <1> DEFINE b == exits[r].booking
             row == NewPayment(b, exits[r].cost)
  <1>1. exits[r].at = "insert" /\ UNCHANGED <<bills, recorded, hooks, outside, crashes>>
    BY DEF InsertPayment
  <1>2. exits[r].at \notin Free /\ crashes' \in Nat
    BY <1>1 DEF Free, Answers, PInv, PaymentTypeOK
  <1>3. CASE ExitAt(r, "error") /\ UNCHANGED payments
    <2>1. exits' = [exits EXCEPT ![r].at = "error"]
      BY <1>3 DEF ExitAt
    <2>2. exits' \in [Exits -> Exit]
      BY <2>1, ExitAtType DEF PInv, Free, Answers
    <2>3. /\ \A q \in Exits \ {r} : exits'[q] = exits[q]
          /\ exits'[r].booking = b
          /\ exits'[r].at = "error"
      BY <2>1 DEF PInv, PaymentTypeOK, Exit
    <2>4. ExitKnows(r)'
      BY <1>1, <2>3 DEF PInv, ExitsInv, ExitKnows
    <2> QED BY <1>1, <1>2, <1>3, <2>2, <2>3, <2>4, MoveKeeps DEF tables
  <1>4. CASE /\ ~Taken(b)
             /\ payments' = [payments EXCEPT ![r] = row]
             /\ ExitAt(r, "ok")
    <2>1. /\ b \in Bookings /\ bills[b] # None /\ exits[r].cost \in Costs
          /\ OneExitOf(b) => exits[r].cost = bills[b]
      BY <1>1 DEF PInv, ExitsInv, ExitKnows
    <2>2. /\ row = [booking |-> b, amount |-> exits[r].cost, status |-> "created"]
          /\ row \in Payment /\ row # None
      <3>1. row = [booking |-> b, amount |-> exits[r].cost, status |-> "created"]
        BY DEF NewPayment
      <3>2. exits[r].cost \in Nat
        BY <2>1, PaymentAssumption
      <3>3. row \in Payment
        BY <2>1, <3>1, <3>2 DEF Payment, PaymentStatus
      <3> QED BY <3>1, <3>3, NoneIsNoRow
    <2>3. payments[r] = None
      BY <1>2 DEF PInv, ChargesInv, Free
    <2>4. payments'[r] = row /\ \A o \in Exits : o # r => payments'[o] = payments[o]
      BY <1>4 DEF PInv, PaymentTypeOK
    <2>5. \A o \in Exits : payments[o] # None => payments[o].booking # b
      BY <1>4 DEF Taken, PaymentsOf
    <2>6. /\ exits' \in [Exits -> Exit]
          /\ exits' = [exits EXCEPT ![r].at = "ok"]
      BY <1>4, ExitAtType DEF PInv, Free, Answers, ExitAt
    <2>7. /\ \A q \in Exits : q # r => exits'[q] = exits[q]
          /\ \A q \in Exits : exits'[q].booking = exits[q].booking
          /\ exits'[r].at = "ok"
      BY <2>6 DEF PInv, PaymentTypeOK, Exit
    <2>8. \A c : OneExitOf(c)' <=> OneExitOf(c)
      BY <2>7 DEF OneExitOf
    <2> HIDE DEF row
    <2>9. PaymentTypeOK'
      BY <1>1, <1>4, <2>2, <2>6 DEF PInv, PaymentTypeOK, outside
    <2>10. ChargesInv'
      BY <1>1, <2>1, <2>2, <2>4, <2>5, <2>7 DEF PInv, ChargesInv, Answers
    <2>11. ExitsInv'
      BY <1>1, <2>1, <2>7, <2>8, PaymentAssumption DEF PInv, ExitsInv, ExitKnows
    <2>12. WebExitIsCharged'
      <3> SUFFICES ASSUME NEW q \in Exits, exits'[q].at = "ok", exits'[q].route = "web",
                          OneExitOf(exits[q].booking), bills[exits[q].booking] > 0
                   PROVE  \E o \in Exits : payments'[o] # None
                                           /\ payments'[o].booking = exits[q].booking
        BY <1>1, <2>7, <2>8 DEF WebExitIsCharged, PaymentsOf
      <3>1. CASE q = r
        BY <3>1, <2>2, <2>4
      <3>2. CASE q # r
        <4>1. PICK o \in Exits : payments[o] # None /\ payments[o].booking = exits[q].booking
          BY <3>2, <2>7 DEF PInv, WebExitIsCharged, PaymentsOf
        <4> QED BY <4>1, <2>3, <2>4
      <3> QED BY <3>1, <3>2
    <2>13. ChargedAtBill'
      <3> SUFFICES ASSUME NEW o \in Exits, NEW c, payments'[o] # None,
                          c = payments'[o].booking, OneExitOf(c)
                   PROVE  payments'[o].amount = bills[c]
        BY <1>1, <2>8 DEF ChargedAtBill
      <3> QED BY <2>1, <2>2, <2>4 DEF PInv, ChargedAtBill
    <2>14. Paid' = Paid
      BY <2>2, <2>3, <2>4 DEF Paid
    <2>15. MoneyInv' /\ HooksInv'
      BY <1>1, <2>3, <2>4, <2>14 DEF PInv, MoneyInv, HooksInv, HookKnows, PaymentTypeOK, outside
    <2>16. Due' = Due \cup {<<b, r, exits[r].cost>>}
      BY <2>2, <2>3, <2>4 DEF Due
    <2>17. \A d \in Due : d[1] # b /\ d[2] # r
      BY <2>3, <2>5 DEF Due
    <2>18. Book!Charge(b, r, exits[r].cost)
      BY <1>1, <2>14, <2>16, <2>17 DEF Book!Charge, outside
    <2>19. LedgerStep
      BY <2>1, <2>18 DEF LedgerStep, Book!Next
    <2> QED BY <2>9, <2>10, <2>11, <2>12, <2>13, <2>15, <2>19 DEF PInv
  <1> QED BY <1>3, <1>4 DEF InsertPayment

-----------------------------------------------------------------------------
(* The provider. *)

\* The provider captures only what is charged, so the ledger may take it.
LEMMA TakeKeepsLedger ==
    ASSUME PInv, NEW o \in Exits, payments[o] # None, captured' = captured \cup {o},
           UNCHANGED payments
    PROVE  LedgerStep
  <1>1. UNCHANGED <<Due, Paid>>
    BY DEF Due, Paid
  <1>2. CASE o \in captured
    BY <1>1, <1>2 DEF LedgerStep
  <1>3. CASE o \notin captured
    <2>1. <<payments[o].booking, o, payments[o].amount>> \in Due
      BY DEF Due
    <2>2. \E d \in Due : d[2] = o
      BY <2>1
    <2>3. Book!Take(o)
      BY <1>1, <1>3, <2>2 DEF Book!Take
    <2> QED BY <2>3 DEF LedgerStep, Book!Next
  <1> QED BY <1>2, <1>3

\* The provider's events say nothing of an event sent before.
LEMMA SendKeeps ==
    ASSUME PInv, NEW e \in Events, NEW type \in {"capture", "other"}, NEW o \in Exits,
           sent[e] = None,
           sent' = [sent EXCEPT ![e] = [type |-> type, order |-> o]],
           payments[o] # None,
           captured \subseteq captured',
           captured' \subseteq captured \cup {o},
           type = "capture" => o \in captured',
           UNCHANGED <<tables, exits, hooks, provider, acked, crashes>>
    PROVE  PInv'
  <1>1. [type |-> type, order |-> o] \in Event
    BY DEF Event
  <1>2. PaymentTypeOK'
    BY <1>1 DEF PInv, PaymentTypeOK, tables
  <1>3. ChargesInv' /\ ExitsInv' /\ WebExitIsCharged' /\ ChargedAtBill'
    BY ExitFrame DEF tables
  <1>4. sent'[e] = [type |-> type, order |-> o] /\ \A f \in Events : f # e => sent'[f] = sent[f]
    BY DEF PInv, PaymentTypeOK
  <1>5. Paid' = Paid
    BY DEF Paid, tables
  <1>6. recorded \subseteq Events
    BY DEF PInv, PaymentTypeOK
  <1>7. MoneyInv'
    BY <1>4, <1>5, <1>6, NoneIsNoRow DEF PInv, MoneyInv, tables
  <1>8. HooksInv'
    <2> SUFFICES ASSUME NEW w \in Workers PROVE HookKnows(w)'
      BY DEF HooksInv
    <2>1. HookKnows(w)
      BY DEF PInv, HooksInv
    <2>2. hooks[w].at \in {"flush", "apply", "record"} => hooks[w].event \in Events /\ hooks[w].event # e
      BY <2>1 DEF HookKnows
    <2> QED BY <1>4, <1>5, <2>1, <2>2 DEF HookKnows
  <1> QED BY <1>2, <1>3, <1>7, <1>8 DEF PInv

LEMMA CaptureKeeps ==
    ASSUME PInv, NEW o \in Exits, Capture(o)
    PROVE  PInv' /\ LedgerStep
  <1>1. PICK e \in Events : /\ sent[e] = None
                            /\ sent' = [sent EXCEPT ![e] = [type |-> "capture", order |-> o]]
    BY DEF Capture
  <1>2. /\ payments[o] # None
        /\ captured' = captured \cup {o}
        /\ UNCHANGED <<tables, exits, hooks, provider, acked, crashes>>
    BY DEF Capture
  <1>3. PInv'
    <2>1. captured \subseteq captured' /\ captured' \subseteq captured \cup {o} /\ o \in captured'
      BY <1>2
    <2> QED BY <1>1, <1>2, <2>1, SendKeeps
  <1>4. LedgerStep
    BY <1>2, TakeKeepsLedger DEF tables
  <1> QED BY <1>3, <1>4

LEMMA NotifyKeeps ==
    ASSUME PInv, NEW o \in Exits, Notify(o)
    PROVE  PInv' /\ LedgerStep
  <1>1. PICK e \in Events, type \in {"capture", "other"} :
            /\ sent[e] = None
            /\ type = "capture" => o \in captured
            /\ sent' = [sent EXCEPT ![e] = [type |-> type, order |-> o]]
    BY DEF Notify
  <1>2. /\ payments[o] # None
        /\ UNCHANGED <<tables, exits, hooks, provider, captured, acked, crashes>>
    BY DEF Notify
  <1>3. PInv'
    BY <1>1, <1>2, SendKeeps
  <1>4. LedgerStep
    BY <1>2, LedgerFrame DEF tables
  <1> QED BY <1>3, <1>4

-----------------------------------------------------------------------------
(* handle_webhook_event *)

\* A worker goes to its next step, and an event that is recorded is acknowledged.
LEMMA HookMoveKeeps ==
    ASSUME PInv, NEW w \in Workers,
           hooks' \in [Workers -> Hook],
           \A v \in Workers \ {w} : hooks'[v] = hooks[v],
           HookKnows(w)',
           acked' \subseteq recorded,
           UNCHANGED <<tables, exits, provider, captured, sent>>,
           crashes' \in Nat
    PROVE  PInv' /\ LedgerStep
  <1>1. PaymentTypeOK'
    BY DEF PInv, PaymentTypeOK, tables
  <1>2. ChargesInv' /\ ExitsInv' /\ WebExitIsCharged' /\ ChargedAtBill'
    BY ExitFrame DEF tables
  <1>3. Paid' = Paid
    BY DEF Paid, tables
  <1>4. MoneyInv'
    BY <1>3 DEF PInv, MoneyInv, tables
  <1>5. HooksInv'
    BY <1>3 DEF PInv, HooksInv, HookKnows
  <1>6. LedgerStep
    BY LedgerFrame DEF tables
  <1> QED BY <1>1, <1>2, <1>4, <1>5, <1>6 DEF PInv

LEMMA DeliverKeeps ==
    ASSUME PInv, NEW w \in Workers, NEW e \in Events, Deliver(w, e)
    PROVE  PInv' /\ LedgerStep
  <1>1. /\ hooks[w].at \in Free
        /\ sent[e] # None
        /\ UNCHANGED <<tables, exits, provider, captured, sent, crashes>>
    BY DEF Deliver
  <1>2. crashes' \in Nat /\ acked \subseteq recorded
    BY <1>1 DEF PInv, PaymentTypeOK, MoneyInv
  <1>3. CASE /\ Known(e)
             /\ hooks' = [hooks EXCEPT ![w].at = "duplicate"]
             /\ acked' = acked \cup {e}
    <2>1. hooks' \in [Workers -> Hook]
      BY <1>3, HookAtType DEF PInv, Free, Answers
    <2>2. hooks'[w].at = "duplicate" /\ \A v \in Workers \ {w} : hooks'[v] = hooks[v]
      BY <1>3 DEF PInv, PaymentTypeOK, Hook
    <2>3. HookKnows(w)'
      BY <2>2 DEF HookKnows
    <2>4. acked' \subseteq recorded
      BY <1>2, <1>3 DEF Known
    <2> QED BY <1>1, <1>2, <2>1, <2>2, <2>3, <2>4, HookMoveKeeps
  <1>4. ASSUME NEW k, k = (IF sent[e].type = "capture" THEN "flush" ELSE "record"),
               hooks' = [hooks EXCEPT ![w] = [at |-> k, event |-> e, order |-> sent[e].order,
                                              found |-> None]],
               UNCHANGED acked
        PROVE  PInv' /\ LedgerStep
    <2>1. sent[e] \in Event
      BY <1>1 DEF PInv, PaymentTypeOK
    <2>2. [at |-> k, event |-> e, order |-> sent[e].order, found |-> None] \in Hook
      BY <1>4, <2>1 DEF Hook, Event
    <2>3. hooks' \in [Workers -> Hook]
      BY <1>4, <2>2 DEF PInv, PaymentTypeOK
    <2>4. /\ hooks'[w] = [at |-> k, event |-> e, order |-> sent[e].order, found |-> None]
          /\ \A v \in Workers \ {w} : hooks'[v] = hooks[v]
      BY <1>4 DEF PInv, PaymentTypeOK
    <2>5. HookKnows(w)'
      <3>1. CASE sent[e].type = "capture"
        <4>1. sent[e] = [type |-> "capture", order |-> sent[e].order]
          BY <2>1, <3>1 DEF Event
        <4>2. sent[e].order \in captured
          BY <1>1, <3>1 DEF PInv, MoneyInv
        <4> QED BY <1>1, <1>4, <2>4, <3>1, <4>1, <4>2 DEF HookKnows
      <3>2. CASE sent[e].type # "capture"
        <4>1. sent[e].type = "other"
          BY <2>1, <3>2 DEF Event
        <4> QED BY <1>1, <1>4, <2>4, <3>2, <4>1 DEF HookKnows
      <3> QED BY <3>1, <3>2
    <2> QED BY <1>1, <1>2, <1>4, <2>3, <2>4, <2>5, HookMoveKeeps
  <1> QED BY <1>3, <1>4 DEF Deliver, HookAt

LEMMA FlushEventKeeps ==
    ASSUME PInv, NEW w \in Workers, FlushEvent(w)
    PROVE  PInv' /\ LedgerStep
  <1> DEFINE o == hooks[w].order
             found == IF payments[o] = None THEN None ELSE payments[o].status
  <1>1. hooks[w].at = "flush" /\ UNCHANGED <<tables, exits, outside, crashes>>
    BY DEF FlushEvent
  <1>2. crashes' \in Nat /\ acked' \subseteq recorded
    BY <1>1 DEF PInv, PaymentTypeOK, MoneyInv, outside
  <1>3. CASE hooks' = [hooks EXCEPT ![w].at = "error"]
    <2>1. hooks' \in [Workers -> Hook]
      BY <1>3, HookAtType DEF PInv, Free, Answers
    <2>2. hooks'[w].at = "error" /\ \A v \in Workers \ {w} : hooks'[v] = hooks[v]
      BY <1>3 DEF PInv, PaymentTypeOK, Hook
    <2>3. HookKnows(w)'
      BY <2>2 DEF HookKnows
    <2> QED BY <1>1, <1>2, <2>1, <2>2, <2>3, HookMoveKeeps DEF outside
  <1>4. CASE hooks' = [hooks EXCEPT ![w].at = "apply", ![w].found = found]
    <2>1. o \in captured /\ payments[o] # None /\ o \in Exits
      BY <1>1 DEF PInv, HooksInv, HookKnows, MoneyInv, PaymentTypeOK
    <2>2. found = payments[o].status /\ found \in PaymentStatus
      BY <2>1 DEF PInv, PaymentTypeOK, Payment
    <2>3. found = "paid" => o \in Paid
      BY <2>1, <2>2 DEF Paid
    <2> HIDE DEF found
    <2>4. hooks' \in [Workers -> Hook]
      <3>1. hooks[w] \in Hook
        BY DEF PInv, PaymentTypeOK
      <3>2. [hooks[w] EXCEPT !.at = "apply", !.found = found] \in Hook
        BY <2>2, <3>1 DEF Hook
      <3>3. hooks' = [hooks EXCEPT ![w] = [hooks[w] EXCEPT !.at = "apply", !.found = found]]
        BY <1>4 DEF PInv, PaymentTypeOK
      <3> QED BY <3>2, <3>3 DEF PInv, PaymentTypeOK
    <2>5. /\ hooks'[w].at = "apply" /\ hooks'[w].found = found
          /\ hooks'[w].order = o /\ hooks'[w].event = hooks[w].event
          /\ \A v \in Workers \ {w} : hooks'[v] = hooks[v]
      BY <1>4 DEF PInv, PaymentTypeOK, Hook
    <2>6. Paid' = Paid
      BY <1>1 DEF Paid, tables
    <2>7. HookKnows(w)'
      BY <1>1, <2>2, <2>3, <2>5, <2>6 DEF PInv, HooksInv, HookKnows, outside
    <2> QED BY <1>1, <1>2, <2>4, <2>5, <2>7, HookMoveKeeps DEF outside
  <1> QED BY <1>3, <1>4 DEF FlushEvent, HookAt

\* A captured order is marked as paid, whether it was before or not; nothing else of
\* any payment changes.
LEMMA SettledEffect ==
    ASSUME PInv, NEW o \in captured, NEW found \in PaymentStatus,
           found = "paid" => o \in Paid,
           payments' = Settled(o, found)
    PROVE  /\ payments' \in [Exits -> Payment \cup {None}]
           /\ Paid' = Paid \cup {o}
           /\ \A q \in Exits : /\ payments'[q] = None <=> payments[q] = None
                               /\ payments[q] # None =>
                                      /\ payments'[q].booking = payments[q].booking
                                      /\ payments'[q].amount = payments[q].amount
  <1>1. o \in Exits /\ payments[o] \in Payment
    BY DEF PInv, PaymentTypeOK, MoneyInv
  <1>2. CASE found = "paid"
    BY <1>2 DEF Settled, Paid, PInv, PaymentTypeOK
  <1>3. CASE found # "paid"
    <2>1. payments' = [payments EXCEPT ![o].status = "paid"]
      BY <1>3, NoneIsNoRow DEF Settled
    <2>2. payments' = [payments EXCEPT ![o] = [payments[o] EXCEPT !.status = "paid"]]
      BY <2>1 DEF PInv, PaymentTypeOK
    <2>3. [payments[o] EXCEPT !.status = "paid"] \in Payment
      BY <1>1 DEF Payment, PaymentStatus
    <2>4. /\ payments'[o] \in Payment
          /\ payments'[o].status = "paid"
          /\ payments'[o].booking = payments[o].booking
          /\ payments'[o].amount = payments[o].amount
          /\ \A q \in Exits : q # o => payments'[q] = payments[q]
      BY <1>1, <2>2, <2>3 DEF PInv, PaymentTypeOK, Payment
    <2>5. payments' \in [Exits -> Payment \cup {None}]
      BY <2>2, <2>3 DEF PInv, PaymentTypeOK
    <2>6. payments'[o] # None /\ payments[o] # None
      BY <1>1, <2>4, NoneIsNoRow
    <2>7. Paid' = Paid \cup {o}
      BY <1>1, <2>4, <2>6 DEF Paid
    <2> QED BY <2>4, <2>5, <2>6, <2>7
  <1> QED BY <1>2, <1>3

LEMMA SettleKeeps ==
    ASSUME PInv, NEW o \in captured, NEW found \in PaymentStatus,
           found = "paid" => o \in Paid,
           payments' = Settled(o, found),
           UNCHANGED <<bills, exits, captured>>
    PROVE  /\ ChargesInv' /\ ExitsInv' /\ WebExitIsCharged' /\ ChargedAtBill'
           /\ LedgerStep
  <1>1. /\ Paid' = Paid \cup {o}
        /\ \A q \in Exits : /\ payments'[q] = None <=> payments[q] = None
                            /\ payments[q] # None =>
                                   /\ payments'[q].booking = payments[q].booking
                                   /\ payments'[q].amount = payments[q].amount
    BY SettledEffect
  <1>2. ChargesInv'
    BY <1>1 DEF PInv, ChargesInv
  <1>3. \A c : OneExitOf(c)' <=> OneExitOf(c)
    BY DEF OneExitOf
  <1>4. ExitsInv'
    BY <1>3 DEF PInv, ExitsInv, ExitKnows
  <1>5. \A c : PaymentsOf(c)' = PaymentsOf(c)
    BY <1>1 DEF PaymentsOf
  <1>6. WebExitIsCharged'
    <2> SUFFICES ASSUME NEW r \in Exits, NEW c, c = exits[r].booking, exits[r].at = "ok",
                        exits[r].route = "web", OneExitOf(c), bills[c] > 0
                 PROVE  PaymentsOf(c)' # {}
      BY <1>3 DEF WebExitIsCharged, PaymentsOf
    <2> QED BY <1>5 DEF PInv, WebExitIsCharged
  <1>7. ChargedAtBill'
    <2> SUFFICES ASSUME NEW q \in Exits, NEW c, c = payments[q].booking, payments[q] # None,
                        OneExitOf(c)
                 PROVE  payments[q].amount = bills[c]
      BY <1>1, <1>3 DEF ChargedAtBill
    <2> QED BY DEF PInv, ChargedAtBill
  <1>8. Due' = Due
    BY <1>1 DEF Due
  <1>9. LedgerStep
    <2>1. CASE o \in Paid
      <3>1. Paid' = Paid
        BY <1>1, <2>1
      <3> QED BY <1>8, <3>1 DEF LedgerStep
    <2>2. CASE o \notin Paid
      <3>1. Book!Settle(o)
        BY <1>1, <1>8, <2>2 DEF Book!Settle
      <3>2. o \in Exits
        BY DEF PInv, PaymentTypeOK
      <3> QED BY <3>1, <3>2 DEF LedgerStep, Book!Next
    <2> QED BY <2>1, <2>2
  <1> QED BY <1>2, <1>4, <1>6, <1>7, <1>9

\* The event and its payment are one commit: what is recorded is paid.
LEMMA ApplyEventKeeps ==
    ASSUME PInv, NEW w \in Workers, ApplyEvent(w)
    PROVE  PInv' /\ LedgerStep
  <1> DEFINE e == hooks[w].event
             o == hooks[w].order
             found == hooks[w].found
  <1>1. /\ hooks[w].at = "apply"
        /\ recorded' = recorded \cup {e}
        /\ payments' = Settled(o, found)
        /\ acked' = acked \cup {e}
        /\ hooks' = [hooks EXCEPT ![w].at = "ok"]
        /\ UNCHANGED <<bills, exits, provider, captured, sent, crashes>>
    BY DEF ApplyEvent, HookAt
  <1>2. /\ e \in Events /\ sent[e] # None
        /\ sent[e] = [type |-> "capture", order |-> o]
        /\ o \in captured
        /\ found \in PaymentStatus /\ (found = "paid" => o \in Paid)
    BY <1>1 DEF PInv, HooksInv, HookKnows
  <1> HIDE DEF e, o, found
  <1>3. /\ ChargesInv' /\ ExitsInv' /\ WebExitIsCharged' /\ ChargedAtBill'
        /\ LedgerStep
    BY <1>1, <1>2, SettleKeeps
  <1>4. /\ payments' \in [Exits -> Payment \cup {None}]
        /\ Paid' = Paid \cup {o}
        /\ \A q \in Exits : payments'[q] = None <=> payments[q] = None
    BY <1>1, <1>2, SettledEffect
  <1>5. hooks' \in [Workers -> Hook]
    BY <1>1, HookAtType DEF PInv, Free, Answers
  <1>6. hooks'[w].at = "ok" /\ \A v \in Workers \ {w} : hooks'[v] = hooks[v]
    BY <1>1 DEF PInv, PaymentTypeOK, Hook
  <1>7. PaymentTypeOK'
    BY <1>1, <1>2, <1>4, <1>5 DEF PInv, PaymentTypeOK
  <1>8. MoneyInv'
    <2>1. captured \subseteq Exits
      BY DEF PInv, PaymentTypeOK
    <2> QED BY <1>1, <1>2, <1>4, <2>1 DEF PInv, MoneyInv
  <1>9. HooksInv'
    <2> SUFFICES ASSUME NEW v \in Workers PROVE HookKnows(v)'
      BY DEF HooksInv
    <2>1. CASE v = w
      BY <1>6, <2>1 DEF HookKnows
    <2>2. CASE v # w
      BY <1>1, <1>4, <1>6, <2>2 DEF PInv, HooksInv, HookKnows
    <2> QED BY <2>1, <2>2
  <1> QED BY <1>3, <1>7, <1>8, <1>9 DEF PInv

LEMMA RecordEventKeeps ==
    ASSUME PInv, NEW w \in Workers, RecordEvent(w)
    PROVE  PInv' /\ LedgerStep
  <1> DEFINE e == hooks[w].event
  <1>1. /\ hooks[w].at = "record"
        /\ recorded' = recorded \cup {e}
        /\ acked' = acked \cup {e}
        /\ UNCHANGED <<bills, payments, exits, provider, captured, sent, crashes>>
    BY DEF RecordEvent
  <1>2. PICK k \in {"duplicate", "ok"} : hooks' = [hooks EXCEPT ![w].at = k]
    BY DEF RecordEvent, HookAt
  <1>3. e \in Events /\ sent[e] # None /\ sent[e].type = "other"
    BY <1>1 DEF PInv, HooksInv, HookKnows
  <1>4. hooks' \in [Workers -> Hook]
    BY <1>2, HookAtType DEF PInv, Free, Answers
  <1>5. hooks'[w].at = k /\ \A v \in Workers \ {w} : hooks'[v] = hooks[v]
    BY <1>2 DEF PInv, PaymentTypeOK, Hook
  <1>6. Paid' = Paid
    BY <1>1 DEF Paid
  <1>7. PaymentTypeOK'
    BY <1>1, <1>3, <1>4 DEF PInv, PaymentTypeOK
  <1>8. ChargesInv' /\ ExitsInv' /\ WebExitIsCharged' /\ ChargedAtBill'
    BY <1>1, ExitFrame
  <1>9. MoneyInv'
    BY <1>1, <1>3, <1>6 DEF PInv, MoneyInv
  <1>10. HooksInv'
    BY <1>1, <1>2, <1>5, <1>6 DEF PInv, HooksInv, HookKnows
  <1>11. LedgerStep
    BY <1>1, LedgerFrame
  <1> QED BY <1>7, <1>8, <1>9, <1>10, <1>11 DEF PInv

-----------------------------------------------------------------------------
(* mock_confirm *)

LEMMA ConfirmReadKeeps ==
    ASSUME PInv, NEW w \in Workers, NEW o \in Exits, ConfirmRead(w, o)
    PROVE  PInv' /\ LedgerStep
  <1> DEFINE row == [at |-> "confirm", event |-> None, order |-> o, found |-> payments[o].status]
  <1>1. /\ payments[o] # None
        /\ captured' = captured \cup {o}
        /\ hooks' = [hooks EXCEPT ![w] = row]
        /\ UNCHANGED <<tables, exits, provider, sent, acked, crashes>>
    BY DEF ConfirmRead
  <1>2. payments[o].status \in PaymentStatus /\ (payments[o].status = "paid" => o \in Paid)
    BY <1>1 DEF PInv, PaymentTypeOK, Payment, Paid
  <1>3. row \in Hook
    BY <1>2 DEF Hook
  <1>4. hooks'[w] = row /\ \A v \in Workers \ {w} : hooks'[v] = hooks[v]
    BY <1>1 DEF PInv, PaymentTypeOK
  <1>5. Paid' = Paid
    BY <1>1 DEF Paid, tables
  <1>6. PaymentTypeOK'
    BY <1>1, <1>3 DEF PInv, PaymentTypeOK, tables
  <1>7. ChargesInv' /\ ExitsInv' /\ WebExitIsCharged' /\ ChargedAtBill'
    BY <1>1, ExitFrame DEF tables
  <1>8. MoneyInv'
    BY <1>1, <1>5 DEF PInv, MoneyInv, tables
  <1>9. HooksInv'
    <2> SUFFICES ASSUME NEW v \in Workers PROVE HookKnows(v)'
      BY DEF HooksInv
    <2>1. CASE v = w
      BY <1>1, <1>2, <1>4, <1>5, <2>1 DEF HookKnows
    <2>2. CASE v # w
      BY <1>1, <1>4, <1>5, <2>2 DEF PInv, HooksInv, HookKnows
    <2> QED BY <2>1, <2>2
  <1>10. LedgerStep
    BY <1>1, TakeKeepsLedger DEF tables
  <1> QED BY <1>6, <1>7, <1>8, <1>9, <1>10 DEF PInv

LEMMA ConfirmCommitKeeps ==
    ASSUME PInv, NEW w \in Workers, ConfirmCommit(w)
    PROVE  PInv' /\ LedgerStep
  <1> DEFINE o == hooks[w].order
             found == hooks[w].found
  <1>1. /\ hooks[w].at = "confirm"
        /\ payments' = Settled(o, found)
        /\ hooks' = [hooks EXCEPT ![w].at = "ok"]
        /\ UNCHANGED <<bills, recorded, exits, outside, crashes>>
    BY DEF ConfirmCommit, HookAt
  <1>2. o \in captured /\ found \in PaymentStatus /\ (found = "paid" => o \in Paid)
    BY <1>1 DEF PInv, HooksInv, HookKnows
  <1> HIDE DEF o, found
  <1>3. /\ ChargesInv' /\ ExitsInv' /\ WebExitIsCharged' /\ ChargedAtBill'
        /\ LedgerStep
    BY <1>1, <1>2, SettleKeeps DEF outside
  <1>4. /\ payments' \in [Exits -> Payment \cup {None}]
        /\ Paid' = Paid \cup {o}
        /\ \A q \in Exits : payments'[q] = None <=> payments[q] = None
    BY <1>1, <1>2, SettledEffect
  <1>5. hooks' \in [Workers -> Hook]
    BY <1>1, HookAtType DEF PInv, Free, Answers
  <1>6. hooks'[w].at = "ok" /\ \A v \in Workers \ {w} : hooks'[v] = hooks[v]
    BY <1>1 DEF PInv, PaymentTypeOK, Hook
  <1>7. PaymentTypeOK'
    BY <1>1, <1>4, <1>5 DEF PInv, PaymentTypeOK, outside
  <1>8. MoneyInv'
    <2>1. captured \subseteq Exits
      BY DEF PInv, PaymentTypeOK
    <2> QED BY <1>1, <1>2, <1>4, <2>1 DEF PInv, MoneyInv, outside
  <1>9. HooksInv'
    <2> SUFFICES ASSUME NEW v \in Workers PROVE HookKnows(v)'
      BY DEF HooksInv
    <2>1. CASE v = w
      BY <1>6, <2>1 DEF HookKnows
    <2>2. CASE v # w
      BY <1>1, <1>4, <1>6, <2>2 DEF PInv, HooksInv, HookKnows, outside
    <2> QED BY <2>1, <2>2
  <1> QED BY <1>3, <1>7, <1>8, <1>9 DEF PInv

-----------------------------------------------------------------------------
(* The system. *)

LEMMA CrashKeeps ==
    ASSUME PInv, Crash
    PROVE  PInv' /\ LedgerStep
  <1>1. UNCHANGED <<tables, outside>> /\ crashes' \in Nat
    BY DEF Crash, PInv, PaymentTypeOK
  <1>2. CASE UNCHANGED hooks /\ \E r \in Exits : exits[r].at \notin Free /\ ExitAt(r, "crashed")
    <2>1. PICK r \in Exits : exits[r].at \notin Free /\ exits' = [exits EXCEPT ![r].at = "crashed"]
      BY <1>2 DEF ExitAt
    <2>2. exits' \in [Exits -> Exit]
      BY <2>1, ExitAtType DEF PInv, Free, Answers
    <2>3. /\ \A q \in Exits \ {r} : exits'[q] = exits[q]
          /\ exits'[r].booking = exits[r].booking
          /\ exits'[r].at = "crashed"
      BY <2>1 DEF PInv, PaymentTypeOK, Exit
    <2>4. ExitKnows(r)'
      BY <2>1, <2>3 DEF PInv, ExitsInv, ExitKnows, Free
    <2> QED BY <1>1, <1>2, <2>1, <2>2, <2>3, <2>4, MoveKeeps
  <1>3. CASE UNCHANGED exits /\ \E w \in Workers : hooks[w].at \notin Free /\ HookAt(w, "crashed")
    <2>1. PICK w \in Workers : hooks' = [hooks EXCEPT ![w].at = "crashed"]
      BY <1>3 DEF HookAt
    <2>2. hooks' \in [Workers -> Hook]
      BY <2>1, HookAtType DEF PInv, Free, Answers
    <2>3. hooks'[w].at = "crashed" /\ \A v \in Workers \ {w} : hooks'[v] = hooks[v]
      BY <2>1 DEF PInv, PaymentTypeOK, Hook
    <2>4. HookKnows(w)'
      BY <2>3 DEF HookKnows
    <2>5. acked' \subseteq recorded
      BY <1>1 DEF PInv, MoneyInv, outside
    <2> QED BY <1>1, <1>3, <2>2, <2>3, <2>4, <2>5, HookMoveKeeps DEF outside
  <1> QED BY <1>2, <1>3 DEF Crash

LEMMA RestKeeps ==
    ASSUME PInv, UNCHANGED vars
    PROVE  PInv' /\ LedgerStep
  <1>1. UNCHANGED <<bills, payments, recorded, exits, hooks, provider, captured, sent, acked, crashes>>
    BY DEF vars
  <1>2. PaymentTypeOK'
    BY <1>1 DEF PInv, PaymentTypeOK
  <1>3. ChargesInv' /\ ExitsInv' /\ WebExitIsCharged' /\ ChargedAtBill'
    BY <1>1, ExitFrame
  <1>4. MoneyInv' /\ HooksInv'
    BY <1>1, MoneyFrame DEF HooksInv
  <1>5. LedgerStep
    BY <1>1, LedgerFrame
  <1> QED BY <1>2, <1>3, <1>4, <1>5 DEF PInv

LEMMA StepKeeps ==
    ASSUME PInv, [Next]_vars
    PROVE  PInv' /\ LedgerStep
  <1>1. CASE \E r \in Exits : ExitRead(r) \/ ExitStep(r) \/ Capture(r) \/ Notify(r)
    BY <1>1, ExitReadKeeps, ExitCommitKeeps, ReadCostKeeps, FindPaymentKeeps,
       InsertPaymentKeeps, CaptureKeeps, NotifyKeeps DEF ExitStep, ChargeStep
  <1>2. CASE \E w \in Workers : HookStep(w)
    BY <1>2, FlushEventKeeps, ApplyEventKeeps, RecordEventKeeps, ConfirmCommitKeeps DEF HookStep
  <1>3. CASE \E w \in Workers, e \in Events : Deliver(w, e)
    BY <1>3, DeliverKeeps
  <1>4. CASE \E w \in Workers, o \in Exits : ConfirmRead(w, o)
    BY <1>4, ConfirmReadKeeps
  <1>5. CASE Crash
    BY <1>5, CrashKeeps
  <1>6. CASE Rest \/ UNCHANGED vars
    BY <1>6, RestKeeps DEF Rest
  <1> QED BY <1>1, <1>2, <1>3, <1>4, <1>5, <1>6 DEF Next

LEMMA InitHolds ==
    ASSUME Init
    PROVE  PInv /\ Book!Init
  <1>1. PaymentTypeOK
    BY DEF Init, PaymentTypeOK, Exit, Hook, Free
  <1>2. ChargesInv /\ ExitsInv /\ WebExitIsCharged /\ ChargedAtBill
    BY DEF Init, ChargesInv, ExitsInv, ExitKnows, WebExitIsCharged, ChargedAtBill
  <1>3. Paid = {} /\ Due = {}
    BY DEF Init, Paid, Due
  <1>4. MoneyInv
    BY <1>3 DEF Init, MoneyInv
  <1>5. HooksInv
    BY DEF Init, HooksInv, HookKnows
  <1>6. Book!Init
    BY <1>3 DEF Init, Book!Init
  <1> QED BY <1>1, <1>2, <1>4, <1>5, <1>6 DEF PInv

\* PInv holds at the start and after every step of an exit, a worker or the provider.
THEOREM PaymentInvariance == Spec => []PInv
  <1>1. Init => PInv
    BY InitHolds
  <1>2. PInv /\ [Next]_vars => PInv'
    BY StepKeeps
  <1> QED BY <1>1, <1>2, PTL DEF Spec

\* Every variable keeps its type, in the routes and in the tables.
THEOREM PaymentTypeCorrect == Spec => []PaymentTypeOK
  <1>1. PInv => PaymentTypeOK
    BY DEF PInv
  <1> QED BY <1>1, PaymentInvariance, PTL

\* An event answered with 200 is applied: handle_webhook_event acknowledges only what
\* is recorded, and records a capture together with its payment.
THEOREM Acknowledged == Spec => []AckedIsApplied
  <1>1. PInv => AckedIsApplied
    BY DEF PInv, MoneyInv, AckedIsApplied
  <1> QED BY <1>1, PaymentInvariance, PTL

\* The web form's exit leaves nobody without an order to pay, where no exits have raced
\* (exit_slot, create_payment_for_booking).
THEOREM Charged == Spec => []WebExitIsCharged
  <1>1. PInv => WebExitIsCharged
    BY DEF PInv
  <1> QED BY <1>1, PaymentInvariance, PTL

\* The order is over the bill, where no exits have raced (create_payment_for_booking).
THEOREM AtBill == Spec => []ChargedAtBill
  <1>1. PInv => ChargedAtBill
    BY DEF PInv
  <1> QED BY <1>1, PaymentInvariance, PTL

\* The payments implement the ledger: create_payment_for_booking charges a booking once,
\* mark_paid and handle_webhook_event settle only what the provider has captured, and
\* nothing is undone, by duplicates, races or crashes.
THEOREM PaymentsImplementLedger == Spec => ImplementsLedger
  <1>1. Init => Book!Init
    BY InitHolds
  <1>2. PInv /\ [Next]_vars => [Book!Next]_<<Due, captured, Paid>>
    BY StepKeeps DEF LedgerStep
  <1> QED BY <1>1, <1>2, PaymentInvariance, PTL DEF Spec, ImplementsLedger, Book!Spec

=============================================================================
