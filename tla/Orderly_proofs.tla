--------------------------- MODULE Orderly_proofs ---------------------------
(***************************************************************************)
(* What holds of ParkingSystem when it is used in an orderly way: no user  *)
(* has two requests in flight, the administrator toggles no slot, no hold  *)
(* is swept, and a hold is only taken where the row is locked for it.      *)
(* The runs DoubleExit and SweepRace show that two of these are needed.    *)
(***************************************************************************)
EXTENDS ParkingSystem_proofs

Orderly ==
    /\ OneEach
    /\ "toggle" \notin Ops
    /\ "sweep" \notin Tasks
    /\ "reserve" \in Ops => RowLocks

\* The bookings and the slots agree.
StatusInv == StatusMatchesBookings

\* Requests in flight are of users who have one each.
OneEachInv ==
    \A q, r \in Requests :
        InFlight(q) /\ InFlight(r) /\ job[q].user = job[r].user /\ job[r].user # None => q = r

\* What request r knows of the tables at its step, in the states of an orderly use.
Knows(r) ==
    /\ pc[r] \in Working => job[r].op \in Ops
    /\ pc[r] = "commit" /\ job[r].op \in BookOps => sess[r].copy.status # "occupied"
    /\ pc[r] \in Working /\ job[r].op = "exit" =>
           /\ job[r].booking \in Active
           /\ bookings[job[r].booking].user = job[r].user
    /\ pc[r] = "commit" /\ job[r].op = "exit" => sess[r].copy.status = "occupied"
    /\ pc[r] = "commit" /\ job[r].op = "reserve" =>
           /\ rowLock[job[r].slot] = r
           /\ slots[job[r].slot] # None => slots[job[r].slot].status # "occupied"

OInv == StatusInv /\ OneEachInv /\ \A r \in Requests : Knows(r)

-----------------------------------------------------------------------------
(* What a step of p leaves to the others. *)

\* A closed booking stays as it is.
ClosedKept ==
    \A b \in Requests : bookings[b] # None /\ b \notin Active => bookings'[b] = bookings[b]

\* The control of every other request, and its locks.
OthersKept(p) ==
    /\ \A q \in Requests \ {p} : pc'[q] = pc[q] /\ job'[q] = job[q] /\ sess'[q] = sess[q]
    /\ \A q \in Requests \ {p}, s \in Slots : rowLock[s] = q => rowLock'[s] = q

\* The active bookings of every other user.
BookingsOfOthersKept(p) ==
    /\ \A b \in Active : bookings'[b].user = bookings[b].user
    /\ \A b \in Active \ Active' :
           p \in Requests /\ InFlight(p) /\ bookings[b].user = job[p].user

\* No row that another request has locked becomes occupied.
LockedRowsNotTaken(p) ==
    \A s \in Slots :
        rowLock[s] \notin {None, p} /\ slots'[s] # None /\ slots'[s].status = "occupied" =>
            slots[s] # None /\ slots[s].status = "occupied"

LEMMA OthersKnow ==
    ASSUME IInv, OInv, NEW p \in Procs,
           OthersKept(p), BookingsOfOthersKept(p), LockedRowsNotTaken(p),
           NEW q \in Requests \ {p}
    PROVE  Knows(q)'
  <1>1. pc'[q] = pc[q] /\ job'[q] = job[q] /\ sess'[q] = sess[q] /\ Knows(q)
    BY DEF OthersKept, OInv
  <1>2. ASSUME pc[q] \in Working, job[q].op = "exit"
        PROVE  /\ job[q].booking \in Active'
               /\ bookings'[job[q].booking].user = job[q].user
    <2> DEFINE b == job[q].booking
    <2>1. b \in Active /\ bookings[b].user = job[q].user
      BY <1>1, <1>2 DEF Knows
    <2>2. InFlight(q)
      BY <1>2 DEF InFlight, Working, Answers
    <2>3. job[q].user # None
      BY <2>1, NoneIsNotAValue, DBAssumption DEF IInv, DataInv, DataTypes, Active, Booking
    <2>4. b \in Active'
      <3>1. SUFFICES ASSUME b \notin Active' PROVE FALSE
        OBVIOUS
      <3>2. p \in Requests /\ InFlight(p) /\ job[q].user = job[p].user
        BY <2>1, <3>1 DEF BookingsOfOthersKept
      <3> QED BY <2>2, <2>3, <3>2 DEF OInv, OneEachInv
    <2> QED BY <2>1, <2>4 DEF BookingsOfOthersKept
  <1>3. ASSUME pc[q] = "commit", job[q].op = "reserve"
        PROVE  /\ rowLock'[job[q].slot] = q
               /\ slots'[job[q].slot] # None => slots'[job[q].slot].status # "occupied"
    <2> DEFINE s == job[q].slot
    <2>1. s \in Slots
      BY <1>3, RequestAt DEF Coherent, Working
    <2>2. rowLock[s] = q /\ q # None /\ (slots[s] # None => slots[s].status # "occupied")
      BY <1>1, <1>3, DBAssumption DEF Knows
    <2> QED BY <2>1, <2>2 DEF OthersKept, LockedRowsNotTaken
  <1> QED BY <1>1, <1>2, <1>3 DEF Knows

\* No row changes its status and no booking changes.
StatusesKept ==
    /\ bookings' = bookings
    /\ \A s \in Slots : /\ slots'[s] = None <=> slots[s] = None
                        /\ slots[s] # None => slots'[s].status = slots[s].status

LEMMA NothingMoves ==
    ASSUME IInv, OInv, NEW p \in Procs, StatusesKept
    PROVE  StatusInv' /\ ClosedKept /\ BookingsOfOthersKept(p) /\ LockedRowsNotTaken(p)
  <1>1. Active' = Active /\ Existing' = Existing
    BY DEF StatusesKept, Active, Existing
  <1>2. \A s \in Slots : ActiveOn(s)' = ActiveOn(s)
    BY <1>1 DEF StatusesKept, ActiveOn
  <1>3. StatusInv'
    BY <1>1, <1>2 DEF StatusesKept, OInv, StatusInv, StatusMatchesBookings, Existing
  <1> QED BY <1>1, <1>3 DEF StatusesKept, ClosedKept, BookingsOfOthersKept, LockedRowsNotTaken

\* One row may change, with the bookings of that slot.
LEMMA OneRowAgrees ==
    ASSUME OInv, NEW s \in Slots,
           \A t \in Slots \ {s} : slots'[t] = slots[t] /\ ActiveOn(t)' = ActiveOn(t),
           slots'[s] # None => (slots'[s].status = "occupied" <=> ActiveOn(s)' # {})
    PROVE  StatusInv'
  <1>1. SUFFICES ASSUME NEW t \in Slots, slots'[t] # None
                 PROVE  slots'[t].status = "occupied" <=> ActiveOn(t)' # {}
    BY DEF StatusInv, StatusMatchesBookings, Existing
  <1>2. CASE t = s
    BY <1>1, <1>2
  <1>3. CASE t # s
    BY <1>1, <1>3 DEF OInv, StatusInv, StatusMatchesBookings, Existing
  <1> QED BY <1>2, <1>3

LEMMA TablesKept ==
    ASSUME UNCHANGED dbVars
    PROVE  StatusesKept
  BY DEF StatusesKept, dbVars

\* Who is answered has no more to know.
LEMMA FinishOrderly ==
    ASSUME IInv, OInv, NEW p \in Procs, NEW answer \in Answers, Finish(p, answer)
    PROVE  OthersKept(p) /\ OneEachInv' /\ (p \in Requests => Knows(p)')
  <1>1. /\ pc' = [pc EXCEPT ![p] = IF p \in Tasks THEN "idle" ELSE answer]
        /\ sess' = [sess EXCEPT ![p] = NoSession]
        /\ job' = [job EXCEPT ![p] = NoJob]
        /\ rowLock' = LocksWithout(p)
    BY DEF Finish
  <1>2. Requests \subseteq Procs
    BY DEF Procs
  <1>3. \A q \in Requests \ {p} : pc'[q] = pc[q] /\ job'[q] = job[q] /\ sess'[q] = sess[q]
    BY <1>1, <1>2 DEF IInv, ControlInv, ControlTypes
  <1>4. \A q \in Requests \ {p}, s \in Slots : rowLock[s] = q => rowLock'[s] = q
    BY <1>1 DEF LocksWithout
  <1>5. pc'[p] \in Answers \cup {"idle"}
    BY <1>1 DEF IInv, ControlInv, ControlTypes
  <1>6. OneEachInv'
    BY <1>3, <1>5 DEF OInv, OneEachInv, InFlight
  <1>7. Knows(p)'
    BY <1>5 DEF Knows, Working, Answers
  <1> QED BY <1>3, <1>4, <1>6, <1>7 DEF OthersKept

\* A request already in flight, or a task, goes on and may take a lock.
LEMMA ContinueOrderly ==
    ASSUME IInv, OInv, NEW p \in Procs, NEW k \in Steps, NEW c,
           Continue(p, k, c), UNCHANGED job, p \in Requests => InFlight(p),
           \/ UNCHANGED rowLock
           \/ \E s \in Slots : Lock(p, s)
           \/ rowLock' = LocksWithout(p)
    PROVE  OthersKept(p) /\ OneEachInv'
  <1>1. pc' = [pc EXCEPT ![p] = k] /\ sess' = [sess EXCEPT ![p] = c]
    BY DEF Continue
  <1>2. Requests \subseteq Procs
    BY DEF Procs
  <1>3. \A q \in Requests \ {p} : pc'[q] = pc[q] /\ job'[q] = job[q] /\ sess'[q] = sess[q]
    BY <1>1, <1>2 DEF IInv, ControlInv, ControlTypes
  <1>4. \A q \in Requests \ {p}, s \in Slots : rowLock[s] = q => rowLock'[s] = q
    <2>1. CASE UNCHANGED rowLock
      BY <2>1
    <2>2. ASSUME NEW t \in Slots, Lock(p, t)
          PROVE  \A q \in Requests \ {p}, s \in Slots : rowLock[s] = q => rowLock'[s] = q
      BY <2>2, DBAssumption DEF Lock, Unlocked, IInv, ControlInv, ControlTypes
    <2>3. CASE rowLock' = LocksWithout(p)
      BY <2>3 DEF LocksWithout
    <2> QED BY <2>1, <2>2, <2>3
  <1>5. OneEachInv'
    <2>1. \A q \in Requests : InFlight(q)' => InFlight(q)
      BY <1>3 DEF InFlight
    <2> QED BY <2>1 DEF OInv, OneEachInv
  <1> QED BY <1>3, <1>4, <1>5 DEF OthersKept

\* A request starts: its user has no other in flight.
LEMMA EnterOrderly ==
    ASSUME Orderly, IInv, OInv, NEW r \in Requests, NEW op, NEW u \in Users \cup {None},
           Begin(r, op, u), NEW j \in Job, j.user = u, NEW k \in Steps, NEW c,
           Enter(r, j, k, c),
           \/ UNCHANGED rowLock
           \/ \E s \in Slots : Lock(r, s)
    PROVE  OthersKept(r) /\ OneEachInv' /\ pc'[r] = k /\ job'[r] = j /\ sess'[r] = c
  <1>1. /\ pc' = [pc EXCEPT ![r] = k] /\ sess' = [sess EXCEPT ![r] = c]
        /\ job' = [job EXCEPT ![r] = j]
    BY DEF Enter, Continue
  <1>2. Requests \subseteq Procs /\ r \in Procs
    BY DEF Procs
  <1>3. \A q \in Requests \ {r} : pc'[q] = pc[q] /\ job'[q] = job[q] /\ sess'[q] = sess[q]
    BY <1>1, <1>2 DEF IInv, ControlInv, ControlTypes
  <1>4. \A q \in Requests \ {r}, s \in Slots : rowLock[s] = q => rowLock'[s] = q
    <2>1. CASE UNCHANGED rowLock
      BY <2>1
    <2>2. ASSUME NEW t \in Slots, Lock(r, t)
          PROVE  \A q \in Requests \ {r}, s \in Slots : rowLock[s] = q => rowLock'[s] = q
      BY <2>2, DBAssumption DEF Lock, Unlocked, IInv, ControlInv, ControlTypes
    <2> QED BY <2>1, <2>2
  <1>5. pc'[r] = k /\ job'[r] = j /\ sess'[r] = c
    BY <1>1, <1>2 DEF IInv, ControlInv, ControlTypes
  <1>6. OneEachInv'
    <2>1. u # None => \A q \in Requests : InFlight(q) => job[q].user # u
      BY DEF Begin, Orderly
    <2>2. \A q \in Requests \ {r} : InFlight(q)' => InFlight(q)
      BY <1>3 DEF InFlight
    <2> QED BY <1>3, <1>5, <2>1, <2>2 DEF OInv, OneEachInv
  <1> QED BY <1>3, <1>4, <1>5, <1>6 DEF OthersKept

LEMMA RowsAreNotNone ==
    /\ \A row \in SlotRow : row # None
    /\ \A booking \in Booking : booking # None
  BY NoneIsNotAValue

LEMMA FlushStatus ==
    ASSUME NEW row \in SlotRow, NEW copy, NEW status \in SlotStatus
    PROVE  /\ Flush(row, copy, status) # None
           /\ copy.status # status => Flush(row, copy, status).status = status
           /\ copy.status = status => Flush(row, copy, status).status = row.status
  <1>1. Flush(row, copy, status) # None
    BY FlushType, RowsAreNotNone
  <1> QED BY <1>1 DEF Flush, SlotRow

LEMMA NewBookingType ==
    ASSUME IInv, NEW u \in Users, NEW s \in Slots, NEW copy \in SlotRow
    PROVE  /\ NewBooking(u, s, copy.surge) # None
           /\ NewBooking(u, s, copy.surge).status = "active"
           /\ NewBooking(u, s, copy.surge).slot = s
  <1> DEFINE x == NewBooking(u, s, copy.surge)
  <1>1. CurrentRate(copy.surge) \in Int
    BY CurrentRateInt DEF SlotRow
  <1>2. x \in Booking
    BY <1>1 DEF NewBooking, Booking, BookingStatus, IInv, ControlInv, ControlTypes
  <1>3. x # None
    BY <1>2, RowsAreNotNone
  <1> QED BY <1>3 DEF NewBooking

-----------------------------------------------------------------------------
(* One lemma per operation. *)

\* What a slot can be shown as after what.
Moves == {<<"gone", "available">>, <<"available", "gone">>, <<"reserved", "gone">>,
          <<"available", "reserved">>, <<"available", "occupied">>,
          <<"reserved", "occupied">>, <<"occupied", "available">>}

\* At most one slot is shown as something else than before.
OneMoves ==
    \/ Shown' = Shown
    \/ \E s \in Slots : /\ \A t \in Slots \ {s} : Shown'[t] = Shown[t]
                        /\ <<Shown[s], Shown'[s]>> \in Moves

LEMMA RowMoves ==
    ASSUME NEW s \in Slots, \A t \in Slots \ {s} : slots'[t] = slots[t],
           \/ Shown'[s] = Shown[s]
           \/ <<Shown[s], Shown'[s]>> \in Moves
    PROVE  OneMoves
  <1>1. \A t \in Slots \ {s} : Shown'[t] = Shown[t]
    BY DEF Shown
  <1>2. CASE Shown'[s] = Shown[s]
    <2>1. Shown' = Shown
      BY <1>1, <1>2 DEF Shown
    <2> QED BY <2>1 DEF OneMoves
  <1>3. CASE <<Shown[s], Shown'[s]>> \in Moves
    BY <1>1, <1>3 DEF OneMoves
  <1> QED BY <1>2, <1>3

LEMMA StatusesShown ==
    ASSUME StatusesKept
    PROVE  OneMoves
  <1>1. Shown' = Shown
    BY DEF StatusesKept, Shown
  <1> QED BY <1>1 DEF OneMoves

Kept == OInv' /\ ClosedKept /\ OneMoves

\* The statuses stay; what is left to show is p's own control.
LEMMA StatusesKeptOrderly ==
    ASSUME IInv, OInv, NEW p \in Procs, StatusesKept, OthersKept(p), OneEachInv',
           p \in Requests => Knows(p)'
    PROVE  Kept
  BY NothingMoves, OthersKnow, StatusesShown DEF OInv, Kept

LEMMA AbandonOrderly ==
    ASSUME IInv, OInv, NEW p \in Procs, NEW answer \in Answers, Abandon(p, answer)
    PROVE  Kept
  BY TablesKept, FinishOrderly, StatusesKeptOrderly DEF Abandon

LEMMA RejectOrderly ==
    ASSUME IInv, OInv, NEW r \in Requests, Abandon(r, "rejected") \/ Abandon(r, "error")
    PROVE  Kept
  BY AbandonOrderly DEF Answers, Procs

LEMMA BookReadsOrderly ==
    ASSUME Orderly, IInv, OInv, NEW r \in Requests,
           BookFromWeb(r) \/ BookFromAPI(r) \/ BookCheck(r) \/ BookLock(r)
    PROVE  Kept
  <1> USE RequestAt DEF Procs
  <1>1. ASSUME NEW u \in Users, NEW s \in Slots, NEW op \in BookOps, NEW c,
               Begin(r, op, u), Enter(r, Arguments(op, u, s, None), "check", c),
               UNCHANGED <<dbVars, rowLock>>
        PROVE  Kept
    <2> DEFINE j == Arguments(op, u, s, None)
    <2>1. j \in Job /\ j.user = u /\ j.op = op
      BY DEF Arguments, Job, Operations, BookOps
    <2>2. "check" \in Steps /\ op \in Ops
      BY <1>1 DEF Steps, Begin
    <2> HIDE DEF j
    <2>3. OthersKept(r) /\ OneEachInv' /\ pc'[r] = "check" /\ job'[r] = j
      BY <1>1, <2>1, <2>2, EnterOrderly DEF j
    <2>4. Knows(r)'
      BY <2>1, <2>2, <2>3 DEF Knows, BookOps
    <2> QED BY <1>1, <2>3, <2>4, TablesKept, StatusesKeptOrderly
  <1>2. CASE BookFromWeb(r)
    BY <1>1, <1>2, RejectOrderly DEF BookFromWeb, BookOps
  <1>3. CASE BookFromAPI(r)
    BY <1>1, <1>3 DEF BookFromAPI, BookOps
  <1>4. CASE BookCheck(r)
    <2>1. CASE Abandon(r, "rejected")
      BY <2>1, RejectOrderly
    <2>2. CASE ~Abandon(r, "rejected")
      <3>1. /\ pc[r] = "check" /\ Continue(r, "lock", sess[r])
            /\ UNCHANGED <<dbVars, rowLock, job>>
        BY <1>4, <2>2 DEF BookCheck
      <3>2. InFlight(r) /\ "lock" \in Steps
        BY <3>1 DEF InFlight, Answers, Steps
      <3>3. OthersKept(r) /\ OneEachInv'
        BY <3>1, <3>2, ContinueOrderly
      <3>4. pc'[r] = "lock" /\ job'[r] = job[r] /\ bookings' = bookings /\ Active' = Active
        BY <3>1 DEF Continue, dbVars, IInv, ControlInv, ControlTypes, Active
      <3>5. Knows(r)'
        BY <3>1, <3>4 DEF OInv, Knows, Working
      <3> QED BY <3>1, <3>3, <3>5, TablesKept, StatusesKeptOrderly
    <2> QED BY <2>1, <2>2
  <1>5. CASE BookLock(r)
    <2> DEFINE s == job[r].slot
               slot == IF sess[r].copy = None THEN slots[s] ELSE sess[r].copy
               c == [sess[r] EXCEPT !.copy = slot]
    <2>1. CASE Abandon(r, "rejected")
      BY <2>1, RejectOrderly
    <2>2. CASE ~Abandon(r, "rejected")
      <3>1. /\ pc[r] = "lock" /\ job[r].op \in BookOps
            /\ slots[s] # None /\ AfterExpiry(slot).status # "occupied"
            /\ Lock(r, s)
            /\ Continue(r, "commit", c)
            /\ UNCHANGED <<dbVars, job>>
        BY <1>5, <2>2 DEF BookLock, BookOps
      <3>2. InFlight(r) /\ "commit" \in Steps /\ s \in Slots
        BY <3>1 DEF InFlight, Answers, Steps, Coherent, Working
      <3>3. slot.status # "occupied"
        BY <3>1 DEF AfterExpiry, Expired
      <3>4. c.copy = slot
        BY DEF Session
      <3> HIDE DEF slot, c
      <3>5. OthersKept(r) /\ OneEachInv'
        BY <3>1, <3>2, ContinueOrderly
      <3>6. pc'[r] = "commit" /\ job'[r] = job[r] /\ sess'[r] = c
        BY <3>1 DEF Continue, IInv, ControlInv, ControlTypes
      <3>7. job[r].op \in Ops /\ job[r].op # "exit" /\ job[r].op # "reserve"
        BY <3>1 DEF OInv, Knows, Working, BookOps
      <3>8. Knows(r)'
        BY <3>3, <3>4, <3>6, <3>7 DEF Knows
      <3> QED BY <3>1, <3>5, <3>8, TablesKept, StatusesKeptOrderly
    <2> QED BY <2>1, <2>2
  <1> QED BY <1>2, <1>3, <1>4, <1>5

\* The slot read as not occupied is written as occupied, and its row is the only one
\* that changes; the per-slot index has it that nobody else is parked there.
LEMMA BookCommitOrderly ==
    ASSUME Orderly, IInv, OInv, NEW r \in Requests, BookCommit(r)
    PROVE  Kept
  <1> USE RequestAt DEF Procs
  <1>1. CASE Abandon(r, "rejected") \/ Abandon(r, "error")
    BY <1>1, RejectOrderly
  <1>2. CASE ~(Abandon(r, "rejected") \/ Abandon(r, "error"))
    <2>0. PICK s \in Slots : s = job[r].slot
      BY <1>2 DEF BookCommit, Coherent, Working
    <2> DEFINE u == job[r].user
               copy == sess[r].copy
               x == NewBooking(u, s, copy.surge)
               row == Flush(slots[s], copy, "occupied")
    <2>1. /\ pc[r] = "commit" /\ job[r].op \in BookOps /\ Unlocked(r, s)
          /\ slots[s] # None /\ Admits(u, s)
          /\ bookings' = [bookings EXCEPT ![r] = x]
          /\ slots' = [slots EXCEPT ![s] = row]
          /\ rowLock' = LocksWithout(r)
          /\ Continue(r, "total", NoSession)
          /\ UNCHANGED <<retired, job>>
      BY <1>2, <2>0 DEF BookCommit, BookOps
    <2>2. u \in Users /\ copy \in SlotRow /\ bookings[r] = None
      BY <2>0, <2>1 DEF Coherent, Working
    <2>3. copy.status # "occupied"
      BY <2>1 DEF OInv, Knows
    <2>4. slots[s] \in SlotRow
      BY <2>1, <2>2 DEF IInv, DataInv, DataTypes
    <2>5. row.status = "occupied" /\ row # None
      BY <2>3, <2>4, FlushStatus DEF SlotStatus
    <2>6. x # None /\ x.status = "active" /\ x.slot = s
      BY <2>2, NewBookingType
    <2> HIDE DEF x, row
    <2>7. /\ bookings'[r] = x
          /\ \A b \in Requests \ {r} : bookings'[b] = bookings[b]
      BY <2>1 DEF IInv, DataInv, DataTypes
    <2>8. /\ slots'[s] = row
          /\ \A t \in Slots \ {s} : slots'[t] = slots[t]
      BY <2>1, <2>2 DEF IInv, DataInv, DataTypes
    <2>9. Active' = Active \cup {r} /\ r \notin Active
      BY <2>2, <2>6, <2>7 DEF Active
    <2>10. StatusInv'
      <3>1. \A t \in Slots \ {s} : ActiveOn(t)' = ActiveOn(t)
        BY <2>6, <2>7, <2>9 DEF ActiveOn, Active
      <3>2. r \in ActiveOn(s)'
        BY <2>6, <2>7, <2>9 DEF ActiveOn
      <3> QED BY <2>2, <2>5, <2>8, <3>1, <3>2, OneRowAgrees
    <2>11. ClosedKept
      BY <2>2, <2>7 DEF ClosedKept
    <2>12. BookingsOfOthersKept(r)
      BY <2>7, <2>9 DEF BookingsOfOthersKept, Active
    <2>13. LockedRowsNotTaken(r)
      BY <2>1, <2>8 DEF LockedRowsNotTaken, Unlocked
    <2>14. InFlight(r) /\ "total" \in Steps
      BY <2>1 DEF InFlight, Answers, Steps
    <2>15. OthersKept(r) /\ OneEachInv'
      BY <2>1, <2>14, ContinueOrderly
    <2>16. pc'[r] = "total"
      BY <2>1 DEF Continue, IInv, ControlInv, ControlTypes
    <2>17. Knows(r)'
      BY <2>16 DEF Knows, Working
    <2>18. OneMoves
      <3>1. slots[s].status \in {"available", "reserved"}
        <4>1. ActiveOn(s) = {}
          BY <2>1 DEF Admits
        <4> QED BY <2>1, <2>4, <4>1
                DEF SlotRow, SlotStatus, OInv, StatusInv, StatusMatchesBookings, Existing
      <3>2. Shown[s] = slots[s].status /\ Shown'[s] = "occupied"
        BY <2>1, <2>5, <2>8 DEF Shown
      <3> QED BY <2>8, <3>1, <3>2, RowMoves DEF Moves
    <2> QED BY <2>10, <2>11, <2>12, <2>13, <2>15, <2>17, <2>18, OthersKnow DEF OInv, Kept
  <1> QED BY <1>1, <1>2

LEMMA ExitReadOrderly ==
    ASSUME Orderly, IInv, OInv, NEW r \in Requests, ExitRead(r)
    PROVE  Kept
  <1> USE RequestAt DEF Procs
  <1>1. PICK u \in Users, b \in Requests :
            /\ bookings[b] # None
            /\ Begin(r, "exit", u)
            /\ IF MayExit(u, b)
               THEN /\ Enter(r, Arguments("exit", u, bookings[b].slot, b), "lock",
                             NoSession)
                    /\ UNCHANGED <<dbVars, rowLock>>
               ELSE Abandon(r, "rejected")
    BY DEF ExitRead
  <1>2. CASE Abandon(r, "rejected")
    BY <1>2, RejectOrderly
  <1>3. CASE ~Abandon(r, "rejected")
    <2> DEFINE j == Arguments("exit", u, bookings[b].slot, b)
    <2>1. bookings[b] \in Booking
      BY <1>1 DEF IInv, DataInv, DataTypes
    <2>2. /\ j \in Job /\ j.op = "exit" /\ j.user = u /\ j.booking = b
      BY <2>1 DEF Arguments, Job, Operations, Booking
    <2>3. /\ b \in Active /\ bookings[b].user = u
          /\ Enter(r, j, "lock", NoSession) /\ UNCHANGED <<dbVars, rowLock>>
      BY <1>1, <1>3 DEF MayExit, Active
    <2>4. "lock" \in Steps /\ "exit" \in Ops
      BY <1>1 DEF Steps, Begin
    <2> HIDE DEF j
    <2>5. OthersKept(r) /\ OneEachInv' /\ pc'[r] = "lock" /\ job'[r] = j
      BY <1>1, <2>2, <2>3, <2>4, EnterOrderly
    <2>6. bookings' = bookings /\ Active' = Active
      BY <2>3 DEF dbVars, Active
    <2>7. Knows(r)'
      BY <2>2, <2>3, <2>4, <2>5, <2>6 DEF Knows
    <2> QED BY <2>3, <2>5, <2>7, TablesKept, StatusesKeptOrderly
  <1> QED BY <1>2, <1>3

\* The slot of an active booking shows as occupied: so does the copy that is read.
LEMMA ExitLockOrderly ==
    ASSUME Orderly, IInv, OInv, NEW r \in Requests, ExitLock(r)
    PROVE  Kept
  <1> USE RequestAt DEF Procs
  <1> DEFINE s == job[r].slot
             b == job[r].booking
             c == [NoSession EXCEPT !.copy = slots[s], !.end = clock]
  <1>1. /\ pc[r] = "lock" /\ job[r].op = "exit"
        /\ Lock(r, s)
        /\ Continue(r, "commit", c)
        /\ UNCHANGED <<dbVars, job>>
    BY DEF ExitLock
  <1>2. /\ s \in Slots /\ b \in Active /\ bookings[b].slot = s
        /\ bookings[b].user = job[r].user /\ "exit" \in Ops
    BY <1>1 DEF Coherent, Working, OInv, Knows
  <1>3. slots[s] # None /\ slots[s].status = "occupied"
    BY <1>2 DEF IInv, DataInv, BookingsReferToSlots, OInv, StatusInv,
                StatusMatchesBookings, ActiveOn, Active, Existing
  <1>4. c.copy = slots[s]
    BY DEF NoSession
  <1> HIDE DEF c
  <1>5. InFlight(r) /\ "commit" \in Steps
    BY <1>1 DEF InFlight, Answers, Steps
  <1>6. OthersKept(r) /\ OneEachInv'
    BY <1>1, <1>2, <1>5, ContinueOrderly
  <1>7. pc'[r] = "commit" /\ job'[r] = job[r] /\ sess'[r] = c
    BY <1>1 DEF Continue, IInv, ControlInv, ControlTypes
  <1>8. bookings' = bookings /\ Active' = Active
    BY <1>1 DEF dbVars, Active
  <1>9. Knows(r)'
    BY <1>1, <1>2, <1>3, <1>4, <1>7, <1>8 DEF Knows, BookOps
  <1> QED BY <1>1, <1>6, <1>9, TablesKept, StatusesKeptOrderly

\* The booking closed was the only one of its slot, whose row is written as available.
LEMMA ExitCommitOrderly ==
    ASSUME Orderly, IInv, OInv, NEW r \in Requests, ExitCommit(r)
    PROVE  Kept
  <1> USE RequestAt DEF Procs
  <1>0. PICK s \in Slots : s = job[r].slot
    BY DEF ExitCommit, Coherent, Working
  <1> DEFINE b == job[r].booking
             copy == sess[r].copy
             x == Closed(bookings[b], copy, sess[r].end)
             row == Flush(slots[s], copy, "available")
  <1>1. /\ pc[r] = "commit" /\ job[r].op = "exit" /\ Unlocked(r, s)
        /\ bookings' = [bookings EXCEPT ![b] = x]
        /\ slots' = [slots EXCEPT ![s] = row]
        /\ rowLock' = LocksWithout(r)
        /\ Continue(r, "total", NoSession)
        /\ UNCHANGED <<retired, job>>
    BY <1>0 DEF ExitCommit
  <1>2. /\ b \in Active /\ bookings[b].slot = s
        /\ bookings[b].user = job[r].user
        /\ copy \in SlotRow /\ copy.status = "occupied" /\ sess[r].end \in Nat
    BY <1>0, <1>1 DEF Coherent, Working, OInv, Knows
  <1>3. b \in Requests /\ bookings[b] \in Booking /\ slots[s] \in SlotRow
    BY <1>2 DEF Active, IInv, DataInv, DataTypes, BookingsReferToSlots, Existing
  <1>4. row.status = "available"
    BY <1>2, <1>3, FlushStatus DEF SlotStatus
  <1>5. /\ x # None /\ x.user = bookings[b].user /\ x.slot = s /\ x.status # "active"
    BY <1>2, <1>3, ClosedType, RowsAreNotNone
  <1> HIDE DEF x, row
  <1>6. /\ bookings'[b] = x
        /\ \A q \in Requests \ {b} : bookings'[q] = bookings[q]
    BY <1>1, <1>3 DEF IInv, DataInv, DataTypes
  <1>7. /\ slots'[s] = row
        /\ \A t \in Slots \ {s} : slots'[t] = slots[t]
    BY <1>1, <1>2 DEF IInv, DataInv, DataTypes
  <1>8. Active' = Active \ {b}
    BY <1>3, <1>5, <1>6 DEF Active
  <1>9. StatusInv'
    <2>1. \A t \in Slots \ {s} : ActiveOn(t)' = ActiveOn(t)
      BY <1>2, <1>6, <1>8 DEF ActiveOn, Active
    <2>2. ActiveOn(s)' = {}
      <3>1. ActiveOn(s) \subseteq {b}
        BY <1>2 DEF ActiveOn, IInv, DataInv, ActiveBookingsExclusive
      <3> QED BY <1>6, <1>8, <3>1 DEF ActiveOn, Active
    <2> QED BY <1>2, <1>4, <1>7, <2>1, <2>2, OneRowAgrees
  <1>10. ClosedKept
    BY <1>2, <1>6 DEF ClosedKept
  <1>11. InFlight(r) /\ "total" \in Steps
    BY <1>1 DEF InFlight, Answers, Steps
  <1>12. BookingsOfOthersKept(r)
    BY <1>2, <1>5, <1>6, <1>8, <1>11 DEF BookingsOfOthersKept, Active
  <1>13. LockedRowsNotTaken(r)
    BY <1>1, <1>7 DEF LockedRowsNotTaken, Unlocked
  <1>14. OthersKept(r) /\ OneEachInv'
    BY <1>1, <1>11, ContinueOrderly
  <1>15. pc'[r] = "total"
    BY <1>1 DEF Continue, IInv, ControlInv, ControlTypes
  <1>16. Knows(r)'
    BY <1>15 DEF Knows, Working
  <1>17. OneMoves
    <2>1. slots[s] # None /\ slots[s].status = "occupied" /\ row # None
      BY <1>2, <1>4, <1>3, FlushStatus, RowsAreNotNone
         DEF IInv, DataInv, BookingsReferToSlots, OInv, StatusInv, StatusMatchesBookings,
             ActiveOn, Active, Existing, row, SlotStatus
    <2>2. Shown[s] = "occupied" /\ Shown'[s] = "available"
      BY <1>4, <1>7, <2>1 DEF Shown
    <2> QED BY <1>7, <2>2, RowMoves DEF Moves
  <1> QED BY <1>9, <1>10, <1>12, <1>13, <1>14, <1>16, <1>17, OthersKnow DEF OInv, Kept

\* The row is locked when its status is read, so it is the same when it is written.
LEMMA ReserveLockOrderly ==
    ASSUME Orderly, IInv, OInv, NEW r \in Requests, ReserveLock(r)
    PROVE  Kept
  <1> USE RequestAt DEF Procs
  <1>1. PICK u \in Users, s \in Slots :
            /\ Begin(r, "reserve", u)
            /\ IF slots[s] = None \/ AfterExpiry(slots[s]).status # "available"
               THEN Abandon(r, "rejected")
               ELSE /\ Lock(r, s)
                    /\ Enter(r, Arguments("reserve", u, s, None), "commit", NoSession)
                    /\ UNCHANGED dbVars
    BY DEF ReserveLock
  <1>2. CASE Abandon(r, "rejected")
    BY <1>2, RejectOrderly
  <1>3. CASE ~Abandon(r, "rejected")
    <2> DEFINE j == Arguments("reserve", u, s, None)
    <2>1. j \in Job /\ j.op = "reserve" /\ j.user = u /\ j.slot = s
      BY DEF Arguments, Job, Operations
    <2>2. /\ AfterExpiry(slots[s]).status = "available"
          /\ Lock(r, s) /\ Enter(r, j, "commit", NoSession) /\ UNCHANGED dbVars
      BY <1>1, <1>3
    <2>3. slots[s].status # "occupied"
      BY <2>2 DEF AfterExpiry, Expired
    <2>4. "commit" \in Steps /\ "reserve" \in Ops
      BY <1>1 DEF Steps, Begin
    <2> HIDE DEF j
    <2>5. OthersKept(r) /\ OneEachInv' /\ pc'[r] = "commit" /\ job'[r] = j
      BY <1>1, <2>1, <2>2, <2>4, EnterOrderly
    <2>6. rowLock'[s] = r
      BY <2>2, <2>4 DEF Orderly, Lock, IInv, ControlInv, ControlTypes
    <2>7. slots' = slots
      BY <2>2 DEF dbVars
    <2>8. Knows(r)'
      BY <2>1, <2>3, <2>4, <2>5, <2>6, <2>7 DEF Knows, BookOps
    <2> QED BY <2>2, <2>5, <2>8, TablesKept, StatusesKeptOrderly
  <1> QED BY <1>2, <1>3

\* Rows of slots are written, no booking, and the request is answered.
LEMMA RowAndFinishOrderly ==
    ASSUME IInv, OInv, NEW r \in Requests, Finish(r, "ok"), bookings' = bookings,
           NEW s \in Slots,
           \A t \in Slots \ {s} : slots'[t] = slots[t],
           slots'[s] # None => slots'[s].status # "occupied" /\ ActiveOn(s) = {},
           Shown'[s] = Shown[s] \/ <<Shown[s], Shown'[s]>> \in Moves
    PROVE  Kept
  <1>1. Active' = Active
    BY DEF Active
  <1>2. \A t \in Slots : ActiveOn(t)' = ActiveOn(t)
    BY <1>1 DEF ActiveOn
  <1>3. StatusInv'
    BY <1>2, OneRowAgrees
  <1>4. ClosedKept /\ BookingsOfOthersKept(r) /\ LockedRowsNotTaken(r)
    BY <1>1 DEF ClosedKept, BookingsOfOthersKept, LockedRowsNotTaken
  <1>5. OthersKept(r) /\ OneEachInv' /\ Knows(r)'
    BY FinishOrderly DEF Procs, Answers
  <1>6. OneMoves
    BY RowMoves
  <1> QED BY <1>3, <1>4, <1>5, <1>6, OthersKnow DEF OInv, Kept, Procs

LEMMA ReserveCommitOrderly ==
    ASSUME Orderly, IInv, OInv, NEW r \in Requests, ReserveCommit(r)
    PROVE  Kept
  <1> USE RequestAt
  <1> DEFINE s == job[r].slot
             row == [slots[s] EXCEPT !.status = "reserved", !.until = clock + HoldTicks]
  <1>1. CASE Abandon(r, "error")
    BY <1>1, RejectOrderly
  <1>2. CASE ~Abandon(r, "error")
    <2>1. /\ pc[r] = "commit" /\ job[r].op = "reserve"
          /\ slots[s] # None
          /\ slots' = [slots EXCEPT ![s].status = "reserved",
                                    ![s].until = clock + HoldTicks]
          /\ Finish(r, "ok")
          /\ bookings' = bookings
      BY <1>2 DEF ReserveCommit
    <2>2. s \in Slots /\ slots[s].status # "occupied"
      BY <2>1 DEF Coherent, Working, OInv, Knows
    <2>3. ActiveOn(s) = {}
      BY <2>1, <2>2 DEF OInv, StatusInv, StatusMatchesBookings, Existing
    <2>4. slots[s] \in SlotRow
      BY <2>1, <2>2 DEF IInv, DataInv, DataTypes
    <2>5. row.status = "reserved"
      BY <2>4 DEF SlotRow
    <2>6. slots'[s] = row /\ \A t \in Slots \ {s} : slots'[t] = slots[t]
      BY <2>1, <2>2 DEF IInv, DataInv, DataTypes
    <2>7. row # None
      <3>1. row \in SlotRow
        <4>1. clock + HoldTicks \in Nat
          BY DBAssumption DEF IInv, ControlInv, ControlTypes
        <4> QED BY <2>4, <4>1 DEF SlotRow, SlotStatus
      <3> QED BY <3>1, RowsAreNotNone
    <2> HIDE DEF row
    <2>8. Shown[s] \in {"available", "reserved"} /\ Shown'[s] = "reserved"
      BY <2>1, <2>2, <2>4, <2>5, <2>6, <2>7 DEF Shown, SlotRow, SlotStatus
    <2> QED BY <2>1, <2>2, <2>3, <2>5, <2>6, <2>8, RowAndFinishOrderly DEF Moves
  <1> QED BY <1>1, <1>2

LEMMA AddSlotOrderly ==
    ASSUME IInv, OInv, NEW r \in Requests, AddSlot(r)
    PROVE  Kept
  <1>1. CASE Abandon(r, "rejected")
    BY <1>1, RejectOrderly
  <1>2. CASE ~Abandon(r, "rejected")
    <2>1. PICK number \in Numbers, s \in Slots \ (Existing \cup retired) :
              /\ slots' = [slots EXCEPT ![s] = NewSlot(number)]
              /\ Finish(r, "ok")
              /\ bookings' = bookings
      BY <1>2 DEF AddSlot
    <2>2. slots'[s] = NewSlot(number) /\ \A t \in Slots \ {s} : slots'[t] = slots[t]
      BY <2>1 DEF IInv, DataInv, DataTypes
    <2>3. ActiveOn(s) = {}
      BY <2>1 DEF ActiveOn, Active, IInv, DataInv, BookingsReferToSlots
    <2>4. NewSlot(number).status = "available" /\ NewSlot(number) # None
      <3>1. number \in Numbers
        BY <2>1
      <3>2. NewSlot(number) \in SlotRow
        BY <3>1 DEF NewSlot, SlotRow, SlotStatus
      <3> QED BY <3>2, RowsAreNotNone DEF NewSlot
    <2>5. Shown[s] = "gone" /\ Shown'[s] = "available"
      BY <2>1, <2>2, <2>4 DEF Shown, Existing
    <2> QED BY <2>1, <2>2, <2>3, <2>4, <2>5, RowAndFinishOrderly DEF Moves
  <1> QED BY <1>1, <1>2

LEMMA DeleteOrderly ==
    ASSUME Orderly, IInv, OInv, NEW r \in Requests,
           DeleteRead(r) \/ DeleteCount(r) \/ DeleteCommit(r)
    PROVE  Kept
  <1> USE RequestAt DEF Procs
  <1>1. CASE DeleteRead(r)
    <2>1. PICK s \in Slots :
              /\ Begin(r, "delete", None)
              /\ IF slots[s] = None \/ slots[s].status = "occupied"
                 THEN Abandon(r, "rejected")
                 ELSE /\ Enter(r, Arguments("delete", None, s, None), "find", NoSession)
                      /\ UNCHANGED <<dbVars, rowLock>>
      BY <1>1 DEF DeleteRead
    <2>2. CASE Abandon(r, "rejected")
      BY <2>2, RejectOrderly
    <2>3. CASE ~Abandon(r, "rejected")
      <3> DEFINE j == Arguments("delete", None, s, None)
      <3>1. j \in Job /\ j.op = "delete" /\ j.user = None
        BY DEF Arguments, Job, Operations
      <3>2. /\ Enter(r, j, "find", NoSession) /\ UNCHANGED <<dbVars, rowLock>>
            /\ "find" \in Steps /\ "delete" \in Ops
        BY <2>1, <2>3 DEF Steps, Begin
      <3> HIDE DEF j
      <3>3. OthersKept(r) /\ OneEachInv' /\ pc'[r] = "find" /\ job'[r] = j
        BY <2>1, <3>1, <3>2, EnterOrderly
      <3>4. Knows(r)'
        BY <3>1, <3>2, <3>3 DEF Knows
      <3> QED BY <3>2, <3>3, <3>4, TablesKept, StatusesKeptOrderly
    <2> QED BY <2>2, <2>3
  <1>2. CASE DeleteCount(r)
    <2>1. CASE Abandon(r, "rejected")
      BY <2>1, RejectOrderly
    <2>2. CASE ~Abandon(r, "rejected")
      <3>1. /\ pc[r] = "find" /\ job[r].op = "delete"
            /\ Continue(r, "commit", sess[r])
            /\ UNCHANGED <<dbVars, rowLock, job>>
        BY <1>2, <2>2 DEF DeleteCount
      <3>2. InFlight(r) /\ "commit" \in Steps
        BY <3>1 DEF InFlight, Answers, Steps
      <3>3. OthersKept(r) /\ OneEachInv'
        BY <3>1, <3>2, ContinueOrderly
      <3>4. pc'[r] = "commit" /\ job'[r] = job[r] /\ job[r].op \in Ops
        BY <3>1 DEF Continue, IInv, ControlInv, ControlTypes, OInv, Knows, Working
      <3>5. Knows(r)'
        BY <3>1, <3>4 DEF Knows, BookOps
      <3> QED BY <3>1, <3>3, <3>5, TablesKept, StatusesKeptOrderly
    <2> QED BY <2>1, <2>2
  <1>3. CASE DeleteCommit(r)
    <2> DEFINE s == job[r].slot
    <2>1. CASE Abandon(r, "error")
      BY <2>1, RejectOrderly
    <2>2. CASE ~Abandon(r, "error")
      <3>1. /\ s \in Slots
            /\ slots' = [slots EXCEPT ![s] = None]
            /\ Finish(r, "ok")
            /\ bookings' = bookings
        BY <1>3, <2>2 DEF DeleteCommit, Coherent, Working
      <3>2. slots'[s] = None /\ \A t \in Slots \ {s} : slots'[t] = slots[t]
        BY <3>1 DEF IInv, DataInv, DataTypes
      <3>3. Shown[s] # "occupied"
        <4>1. ~BookedEver(s)
          BY <1>3, <2>2 DEF DeleteCommit, Unreferenced
        <4>2. ActiveOn(s) = {}
          BY <4>1 DEF BookedEver, ActiveOn, Active
        <4> QED BY <3>1, <4>2
                DEF Shown, OInv, StatusInv, StatusMatchesBookings, Existing
      <3>4. Shown'[s] = "gone" /\ Shown[s] \in {"gone", "available", "reserved"}
        BY <3>1, <3>2, <3>3 DEF Shown, IInv, DataInv, DataTypes, SlotRow, SlotStatus
      <3> QED BY <3>1, <3>2, <3>4, RowAndFinishOrderly DEF Moves
    <2> QED BY <2>1, <2>2
  <1> QED BY <1>1, <1>2, <1>3

LEMMA RepriceOrderly ==
    ASSUME IInv, OInv, NEW p \in Procs, RepriceStep(p)
    PROVE  Kept
  <1>1. CASE CountTotal(p) \/ CountFree(p)
    <2>1. PICK k \in {"free", "surge"} : \E c : Continue(p, k, c)
      BY <1>1 DEF CountTotal, CountFree
    <2>2. PICK c : Continue(p, k, c)
      BY <2>1
    <2>3. UNCHANGED <<dbVars, rowLock, job>> /\ k \in Steps
      BY <1>1 DEF CountTotal, CountFree, Steps
    <2>4. p \in Requests => InFlight(p)
      BY <1>1, DBAssumption DEF CountTotal, CountFree, InFlight, Answers
    <2>5. OthersKept(p) /\ OneEachInv'
      BY <2>2, <2>3, <2>4, ContinueOrderly
    <2>6. pc'[p] = k
      BY <2>2 DEF Continue, IInv, ControlInv, ControlTypes
    <2>7. p \in Requests => Knows(p)'
      BY <2>1, <2>6 DEF Knows, Working
    <2> QED BY <2>3, <2>5, <2>7, TablesKept, StatusesKeptOrderly
  <1>2. CASE WriteSurge(p)
    <2> DEFINE surge == ComputeSurge(OccupancyRatio(sess[p].total, sess[p].free))
    <2>1. slots' = Repriced(surge) /\ Finish(p, "ok") /\ bookings' = bookings
      BY <1>2 DEF WriteSurge
    <2> HIDE DEF surge
    <2>2. \A s \in Existing : /\ [slots[s] EXCEPT !.surge = surge] # None
                              /\ [slots[s] EXCEPT !.surge = surge].status = slots[s].status
      <3>1. SUFFICES ASSUME NEW s \in Existing
                     PROVE  /\ [slots[s] EXCEPT !.surge = surge] # None
                            /\ [slots[s] EXCEPT !.surge = surge].status = slots[s].status
        OBVIOUS
      <3>2. slots[s] \in SlotRow
        BY ExistingRows DEF IInv, DataInv
      <3>3. [slots[s] EXCEPT !.surge = surge].status = slots[s].status
        BY <3>2 DEF SlotRow
      <3>4. surge \in Int
        BY StoredSurge DEF surge
      <3>5. [slots[s] EXCEPT !.surge = surge] \in SlotRow
        BY <3>2, <3>4 DEF SlotRow
      <3> QED BY <3>3, <3>5, RowsAreNotNone
    <2>3. StatusesKept
      BY <2>1, <2>2 DEF StatusesKept, Repriced, Existing
    <2>4. OthersKept(p) /\ OneEachInv' /\ (p \in Requests => Knows(p)')
      BY <2>1, FinishOrderly DEF Answers
    <2> QED BY <2>3, <2>4, StatusesKeptOrderly
  <1> QED BY <1>1, <1>2 DEF RepriceStep

LEMMA PauseOrderly ==
    ASSUME IInv, OInv, Tick \/ UNCHANGED vars
    PROVE  Kept
  <1>1. UNCHANGED <<slots, bookings, rowLock, pc, job, sess>>
    BY DEF Tick, vars, dbVars
  <1>2. Active' = Active /\ Existing' = Existing
    BY <1>1 DEF Active, Existing
  <1>3. \A s \in Slots : ActiveOn(s)' = ActiveOn(s)
    BY <1>1, <1>2 DEF ActiveOn
  <1>4. StatusInv'
    BY <1>1, <1>2, <1>3 DEF OInv, StatusInv, StatusMatchesBookings, Existing
  <1>5. OneEachInv'
    BY <1>1 DEF OInv, OneEachInv, InFlight
  <1>6. \A r \in Requests : Knows(r)'
    BY <1>1, <1>2 DEF OInv, Knows
  <1>7. OneMoves
    BY <1>1 DEF OneMoves, Shown
  <1> QED BY <1>1, <1>4, <1>5, <1>6, <1>7 DEF OInv, Kept, ClosedKept

\* An orderly use has no step of a toggle: none has begun.
LEMMA NoToggle ==
    ASSUME Orderly, IInv, OInv, NEW r \in Requests
    PROVE  ~(ToggleRead(r) \/ ToggleFind(r) \/ ToggleCommit(r))
  BY DEF Orderly, OInv, Knows, Working, ToggleRead, ToggleFind, ToggleCommit, Begin

LEMMA StepOrderly ==
    ASSUME Orderly, IInv, OInv, [Next]_vars
    PROVE  Kept
  <1>1. ASSUME NEW r \in Requests, BookStep(r) \/ ExitStep(r) \/ ReserveStep(r)
        PROVE  Kept
    BY <1>1, BookReadsOrderly, BookCommitOrderly, ExitReadOrderly, ExitLockOrderly,
       ExitCommitOrderly, ReserveLockOrderly, ReserveCommitOrderly
       DEF BookStep, ExitStep, ReserveStep
  <1>2. ASSUME NEW r \in Requests, AdminStep(r)
        PROVE  Kept
    BY <1>2, AddSlotOrderly, DeleteOrderly, NoToggle DEF AdminStep
  <1>3. ASSUME NEW p \in Procs, RepriceStep(p) \/ Crash(p)
        PROVE  Kept
    BY <1>3, RepriceOrderly, AbandonOrderly DEF Crash, Answers
  <1>4. ASSUME NEW t \in Tasks, SweepStep(t)
        PROVE  Kept
    BY <1>4 DEF Orderly, SweepStep, SweepRead, SweepCommit
  <1>5. CASE Tick \/ Done \/ UNCHANGED vars
    BY <1>5, PauseOrderly DEF Done
  <1> QED BY <1>1, <1>2, <1>3, <1>4, <1>5 DEF Next

-----------------------------------------------------------------------------
(* The initial states and the theorems. *)

\* The drivers who are parked at the start are in the slots that show as occupied.
LEMMA InitOrderly ==
    ASSUME Init
    PROVE  OInv
  <1>1. PICK number \in [Seeded -> Numbers], place \in Places : InitDB(number, place)
    BY DEF Init
  <1> DEFINE taken == {place[b][2] : b \in Earlier}
             surge == ComputeSurge(OccupancyRatio(Cardinality(Seeded),
                                                  Cardinality(Seeded \ taken)))
             row(s) == [NewSlot(number[s]) EXCEPT
                           !.status = IF s \in taken THEN "occupied" ELSE @,
                           !.surge = surge]
             parking(r) == [user |-> place[r][1], slot |-> place[r][2],
                            status |-> "active", start |-> 0,
                            rate |-> CurrentRate(100), end |-> None, cost |-> None]
  <1>2. /\ slots = [s \in Slots |-> IF s \in Seeded THEN row(s) ELSE None]
        /\ bookings = [r \in Requests |-> IF r \in Earlier THEN parking(r) ELSE None]
    BY <1>1 DEF InitDB
  <1>3. \A s : row(s).status = "occupied" <=> s \in taken
    BY DEF NewSlot
  <1>4. \A r : parking(r).status = "active" /\ parking(r).slot = place[r][2]
    OBVIOUS
  <1>5. Earlier \subseteq Requests
    BY SystemAssumption
  <1>6. \A r \in Earlier : bookings[r] # None /\ bookings[r] = parking(r)
    <2>1. \A r \in Earlier : bookings[r] = parking(r)
      BY <1>2, <1>5
    <2>2. IInv
      BY InitKeeps
    <2>3. \A r \in Earlier : parking(r) \in Booking
      <3>1. CurrentRate(100) \in Int
        BY CurrentRateInt
      <3>2. place \in [Earlier -> Users \X Seeded] /\ Seeded \subseteq Slots
        BY DBAssumption DEF Places
      <3> QED BY <3>1, <3>2 DEF Booking, BookingStatus
    <2> QED BY <2>1, <2>3, RowsAreNotNone
  <1> HIDE DEF row, parking, surge
  <1>7. Active = Earlier
    BY <1>2, <1>4, <1>5, <1>6 DEF Active
  <1>8. StatusInv
    <2>1. \A s \in Slots : ActiveOn(s) # {} <=> s \in taken
      BY <1>4, <1>6, <1>7 DEF ActiveOn
    <2>2. \A s \in Existing : slots[s] = row(s)
      BY <1>2 DEF Existing
    <2> QED BY <1>3, <2>1, <2>2 DEF StatusInv, StatusMatchesBookings, Existing
  <1>9. \A r \in Requests : pc[r] \notin Working /\ ~InFlight(r)
    BY DEF Init, Procs, Working, InFlight, Answers
  <1>10. OneEachInv /\ \A r \in Requests : Knows(r)
    BY <1>9 DEF OneEachInv, Knows, Working
  <1> QED BY <1>8, <1>10 DEF OInv

\* Of an orderly use, OInv is invariant and a closed booking never changes.
THEOREM OrderlyInvariance == ASSUME Orderly PROVE Spec => [](IInv /\ OInv)
  <1>1. Init => IInv /\ OInv
    BY InitKeeps, InitOrderly
  <1>2. IInv /\ OInv /\ [Next]_vars => (IInv /\ OInv)'
    BY StepKeeps, StepOrderly DEF Kept
  <1> QED BY <1>1, <1>2, PTL DEF Spec

\* A slot shows as occupied exactly while somebody is parked in it, for any number of
\* users, slots and requests, if no user has two requests in flight, no slot is
\* toggled, no hold is swept and holds are taken under the row lock.
THEOREM StatusAgrees == ASSUME Orderly PROVE Spec => []StatusMatchesBookings
  <1>1. OInv => StatusMatchesBookings
    BY DEF OInv, StatusInv
  <1> QED BY <1>1, OrderlyInvariance, PTL

\* Under the same conditions no step reopens a closed booking or changes its bill.
THEOREM ClosedStays == ASSUME Orderly PROVE Spec => ClosedIsFinal
  <1>1. IInv /\ OInv /\ [Next]_vars =>
            [\A b \in Requests :
                 bookings[b] # None /\ b \notin Active => bookings'[b] = bookings[b]]_vars
    BY StepOrderly DEF Kept, ClosedKept
  <1> QED BY <1>1, OrderlyInvariance, PTL DEF Spec, ClosedIsFinal

-----------------------------------------------------------------------------
(* The refinement of Floor. *)

\* What a slot is shown as says whether a driver is parked in it and whether it exists.
SignsTrue ==
    /\ Flr!Truthful
    /\ \A s \in Slots : Shown[s] # "gone" <=> s \in Existing
    /\ Shown \in [Slots -> Flr!Signs]

LEMMA SignsAreTrue == IInv /\ OInv => SignsTrue
  <1> SUFFICES ASSUME IInv, OInv PROVE SignsTrue
    OBVIOUS
  <1>1. ASSUME NEW s \in Slots, s \in Existing
        PROVE  Shown[s] = slots[s].status /\ Shown[s] \in SlotStatus
    BY <1>1 DEF Existing, Shown, IInv, DataInv, DataTypes, SlotRow
  <1>2. ASSUME NEW s \in Slots, s \notin Existing
        PROVE  Shown[s] = "gone" /\ ActiveOn(s) = {}
    BY <1>2 DEF Existing, Shown, ActiveOn, Active, IInv, DataInv, BookingsReferToSlots
  <1>3. ASSUME NEW s \in Slots
        PROVE  ActiveOn(s) # {} <=> \E p \in Parked : p[2] = s
    <2> DEFINE pair(b) == <<bookings[b].user, bookings[b].slot>>
    <2>1. \A b \in Active : pair(b)[2] = bookings[b].slot
      OBVIOUS
    <2>2. \A p : p \in Parked <=> \E b \in Active : p = pair(b)
      BY DEF Parked
    <2>3. ActiveOn(s) # {} <=> \E b \in Active : bookings[b].slot = s
      BY DEF ActiveOn
    <2> HIDE DEF pair
    <2> QED BY <2>1, <2>2, <2>3
  <1>4. \A s \in Existing : Shown[s] = "occupied" <=> ActiveOn(s) # {}
    BY <1>1 DEF OInv, StatusInv, StatusMatchesBookings, Existing
  <1>5. Flr!Truthful
    BY <1>2, <1>3, <1>4 DEF Flr!Truthful
  <1>6. \A s \in Slots : Shown[s] # "gone" <=> s \in Existing
    BY <1>1, <1>2 DEF SlotStatus
  <1>7. \A s \in Slots : Shown[s] \in Flr!Signs
    BY <1>1, <1>2 DEF SlotStatus, Flr!Signs
  <1>8. Shown = [s \in Slots |-> Shown[s]]
    BY DEF Shown
  <1> QED BY <1>5, <1>6, <1>7, <1>8 DEF SignsTrue

LEMMA SignsStayTrue == (IInv /\ OInv)' => SignsTrue'
  BY SignsAreTrue, PTL

LEMMA ParkedExclusive ==
    ASSUME IInv
    PROVE  Flr!Exclusive /\ Parked \in SUBSET (Users \X Slots)
  BY DEF Flr!Exclusive, Parked, Active, IInv, DataInv, DataTypes, Booking,
         ActiveBookingsExclusive

\* One slot is shown as something else: the others stay.
LEMMA ShownAt ==
    ASSUME OneMoves, NEW s \in Slots, Shown'[s] # Shown[s]
    PROVE  /\ Shown' = [Shown EXCEPT ![s] = Shown'[s]]
           /\ <<Shown[s], Shown'[s]>> \in Moves
  <1>1. PICK t \in Slots : /\ \A r \in Slots \ {t} : Shown'[r] = Shown[r]
                           /\ <<Shown[t], Shown'[t]>> \in Moves
    BY DEF OneMoves
  <1>2. t = s
    BY <1>1
  <1>3. Shown' = [r \in Slots |-> Shown'[r]] /\ Shown = [r \in Slots |-> Shown[r]]
    BY DEF Shown
  <1>4. Shown' = [Shown EXCEPT ![s] = Shown'[s]]
    BY <1>1, <1>2, <1>3
  <1> QED BY <1>1, <1>2, <1>4

\* A step of Occupancy that moves one sign is a step of Floor, or a stutter.
LEMMA StepOnFloor ==
    ASSUME IInv, OInv, IInv', OInv', OccStep, OneMoves
    PROVE  [Flr!Next]_<<Parked, Shown>>
  <1> DEFINE Taken(s) == \E p \in Parked : p[2] = s
  <1>1. \A s \in Slots : /\ Shown[s] = "occupied" <=> Taken(s)
                         /\ Shown[s] # "gone" <=> s \in Existing
    BY SignsAreTrue DEF SignsTrue, Flr!Truthful
  <1>2. \A s \in Slots : /\ Shown'[s] = "occupied" <=> Taken(s)'
                         /\ Shown'[s] # "gone" <=> s \in Existing'
    BY SignsStayTrue DEF SignsTrue, Flr!Truthful
  <1>3. ASSUME NEW u \in Users, NEW s \in Slots, Occ!Park(u, s)
        PROVE  Flr!Park(u, s)
    <2>1. ~Taken(s) /\ Taken(s)' /\ \A p \in Parked : p[1] # u
      <3>1. <<u, s>> \in Parked' /\ <<u, s>>[2] = s
        BY <1>3 DEF Occ!Park
      <3>2. Taken(s)'
        BY <3>1
      <3> QED BY <1>3, <3>2 DEF Occ!Park
    <2>2. Shown[s] # "occupied" /\ Shown'[s] = "occupied"
      BY <1>1, <1>2, <2>1
    <2>3. Shown' = [Shown EXCEPT ![s] = "occupied"] /\ Shown[s] \in {"available", "reserved"}
      BY <2>2, ShownAt DEF Moves
    <2> QED BY <1>3, <2>1, <2>3 DEF Occ!Park, Flr!Park
  <1>4. ASSUME NEW u \in Users, NEW s \in Slots, Occ!Leave(u, s)
        PROVE  Flr!Leave(u, s)
    <2>1. Taken(s) /\ ~Taken(s)'
      BY <1>4, ParkedExclusive DEF Occ!Leave, Flr!Exclusive
    <2>2. Shown[s] = "occupied" /\ Shown'[s] # "occupied"
      BY <1>1, <1>2, <2>1
    <2>3. Shown' = [Shown EXCEPT ![s] = "available"]
      BY <2>2, ShownAt DEF Moves
    <2> QED BY <1>4, <2>3 DEF Occ!Leave, Flr!Leave
  <1>5. ASSUME NEW s \in Slots, Occ!Open(s)
        PROVE  Flr!Open(s)
    <2>1. Shown[s] = "gone" /\ Shown'[s] # "gone"
      BY <1>1, <1>2, <1>5 DEF Occ!Open
    <2>2. Shown' = [Shown EXCEPT ![s] = "available"]
      BY <2>1, ShownAt DEF Moves
    <2> QED BY <1>5, <2>1, <2>2 DEF Occ!Open, Flr!Open
  <1>6. ASSUME NEW s \in Slots, Occ!Close(s)
        PROVE  Flr!Close(s)
    <2>1. Shown[s] # "gone" /\ Shown'[s] = "gone"
      BY <1>1, <1>2, <1>6 DEF Occ!Close
    <2>2. Shown' = [Shown EXCEPT ![s] = "gone"] /\ Shown[s] \in {"available", "reserved"}
      BY <2>1, ShownAt DEF Moves
    <2> QED BY <1>6, <2>2 DEF Occ!Close, Flr!Close
  <1>7. CASE UNCHANGED <<Parked, Existing>> /\ Shown' # Shown
    <2>1. PICK s \in Slots : Shown'[s] # Shown[s]
      BY <1>7 DEF Shown
    <2>2. \A t \in Slots : /\ Shown'[t] = "occupied" <=> Shown[t] = "occupied"
                           /\ Shown'[t] = "gone" <=> Shown[t] = "gone"
      BY <1>1, <1>2, <1>7
    <2>3. Shown[s] = "available" /\ Shown' = [Shown EXCEPT ![s] = "reserved"]
      BY <2>1, <2>2, ShownAt DEF Moves
    <2> QED BY <1>7, <2>3 DEF Flr!Hold, Flr!Next
  <1>8. CASE UNCHANGED <<Parked, Shown>>
    BY <1>8
  <1> QED BY <1>3, <1>4, <1>5, <1>6, <1>7, <1>8 DEF OccStep, Occ!Next, Flr!Next

\* In an orderly use the two tables act as one: for any number of users, slots and
\* requests each step parks one driver, lets one leave, holds, opens or closes one slot.
THEOREM TablesActAsOne == ASSUME Orderly PROVE Spec => ImplementsFloor
  <1>1. Init => Flr!Init
    BY InitKeeps, InitOrderly, SignsAreTrue, ParkedExclusive DEF Flr!Init, SignsTrue
  <1>2. IInv /\ OInv /\ [Next]_vars => [Flr!Next]_<<Parked, Shown>>
    BY StepKeeps, StepOrderly, StepOnFloor DEF Kept
  <1> QED BY <1>1, <1>2, OrderlyInvariance, PTL DEF Spec, ImplementsFloor, Flr!Spec

=============================================================================
