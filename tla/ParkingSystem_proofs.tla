------------------------ MODULE ParkingSystem_proofs ------------------------
(***************************************************************************)
(* What holds of ParkingSystem for every workload and every value of the   *)
(* constants, with and without row locks.                                  *)
(*                                                                         *)
(* IInv is inductive.  Its data part is what the tables must satisfy, its  *)
(* control part ties what a request remembers between two statements to    *)
(* the tables: above all, an exit still refers to a booking of its slot.   *)
(***************************************************************************)
EXTENDS ParkingSystem, Tariff_proofs, FiniteSetTheorems

Steps == {"idle", "check", "lock", "find", "commit", "total", "free", "surge"} \cup Answers
Working == {"check", "lock", "find", "commit"}
BookOps == {"webbook", "apibook"}

-----------------------------------------------------------------------------
(* The inductive invariant. *)

DataTypes ==
    /\ slots \in [Slots -> SlotRow \cup {None}]
    /\ bookings \in [Requests -> Booking \cup {None}]
    /\ retired \subseteq Slots

DataInv ==
    /\ DataTypes
    /\ BookingsReferToSlots
    /\ ActiveBookingsExclusive

ControlTypes ==
    /\ rowLock \in [Slots -> Procs \cup {None}]
    /\ clock \in Nat
    /\ pc \in [Procs -> Steps]
    /\ job \in [Procs -> Job]
    /\ sess \in [Procs -> Session]

\* A request r at step k, with arguments j and session c, over the bookings bs.
Coherent(bs, r, k, j, c) ==
    /\ k \in Working \cup {"idle"} => bs[r] = None
    /\ k \in Working => j.slot \in Slots
    /\ k \in Working /\ j.op \in BookOps => j.user \in Users
    /\ k \in Working /\ j.op = "exit" =>
           /\ j.booking \in Requests
           /\ bs[j.booking] # None
           /\ bs[j.booking].slot = j.slot
    /\ k = "commit" /\ j.op \in BookOps \cup {"exit"} => c.copy \in SlotRow
    /\ k = "commit" /\ j.op = "exit" => c.end \in Nat
    /\ c.found # None => bs[c.found] # None

ControlInv ==
    /\ ControlTypes
    /\ \A r \in Requests : Coherent(bookings, r, pc[r], job[r], sess[r])

IInv == DataInv /\ ControlInv

-----------------------------------------------------------------------------
(* The values the steps store. *)

LEMMA NoSessionType == NoSession \in Session
  BY DEF NoSession, Session

LEMMA NoJobType == NoJob \in Job
  BY DEF NoJob, Job

LEMMA FlushType ==
    ASSUME NEW row \in SlotRow, NEW copy, NEW status \in SlotStatus
    PROVE  Flush(row, copy, status) \in SlotRow
  BY DEF Flush, SlotRow

LEMMA ExistingRows ==
    ASSUME DataTypes, NEW s \in Existing
    PROVE  s \in Slots /\ slots[s] \in SlotRow
  BY DEF DataTypes, Existing

\* The sets of slots are finite, so their counts are numbers.
LEMMA CountType ==
    ASSUME NEW S \in SUBSET Slots
    PROVE  Cardinality(S) \in Nat
  BY FS_Subset, FS_CardinalityType, DBAssumption

LEMMA LocksWithoutType ==
    ASSUME ControlTypes, NEW p \in Procs
    PROVE  LocksWithout(p) \in [Slots -> Procs \cup {None}]
  BY DEF LocksWithout, ControlTypes

\* A closed booking keeps its user and its slot and is not active.
LEMMA ClosedType ==
    ASSUME NEW booking \in Booking, NEW copy \in SlotRow, NEW end \in Nat
    PROVE  /\ Closed(booking, copy, end) \in Booking
           /\ Closed(booking, copy, end).user = booking.user
           /\ Closed(booking, copy, end).slot = booking.slot
           /\ Closed(booking, copy, end).status # "active"
  <1>1. booking.rate \in Int /\ booking.start \in Nat /\ copy.surge \in Int
    BY DEF Booking, SlotRow
  <1>2. RateOf(booking, copy) \in Int
    BY <1>1, CurrentRateInt DEF RateOf
  <1>3. (end - booking.start) * TickSeconds \in Int
    BY <1>1, DBAssumption
  <1> DEFINE fare == Fare((end - booking.start) * TickSeconds, RateOf(booking, copy))
  <1>4. fare \in Int
    BY <1>2, <1>3, FareInt
  <1>5. Closed(booking, copy, end) =
            [booking EXCEPT !.status = "completed", !.end = end, !.cost = fare]
    BY DEF Closed
  <1> HIDE DEF fare
  <1> QED BY <1>4, <1>5 DEF Booking, BookingStatus

LEMMA CancelledType ==
    ASSUME NEW booking \in Booking
    PROVE  /\ Cancelled(booking) \in Booking
           /\ Cancelled(booking).user = booking.user
           /\ Cancelled(booking).slot = booking.slot
           /\ Cancelled(booking).status # "active"
  BY DEF Cancelled, Booking, BookingStatus

-----------------------------------------------------------------------------
(* What a step does to the control. *)

\* The bookings a step of p leaves: none is removed or moved to another slot, and
\* only p's own may be new.
BookingsKept(p) ==
    \A b \in Requests :
        /\ bookings[b] # None => bookings'[b] # None /\ bookings'[b].slot = bookings[b].slot
        /\ bookings[b] = None /\ b # p => bookings'[b] = None

\* One process moves; the others stay coherent, for no booking goes away.
LEMMA MoveKeepsControl ==
    ASSUME DataTypes, ControlInv, NEW p \in Procs, BookingsKept(p),
           NEW k \in Steps, NEW j \in Job, NEW c \in Session,
           pc' = [pc EXCEPT ![p] = k],
           job' = [job EXCEPT ![p] = j],
           sess' = [sess EXCEPT ![p] = c],
           rowLock' \in [Slots -> Procs \cup {None}],
           clock' = clock,
           p \in Requests => Coherent(bookings', p, k, j, c)
    PROVE  ControlInv'
  <1>1. ControlTypes'
    BY DEF ControlInv, ControlTypes
  <1>2. ASSUME NEW r \in Requests
        PROVE  Coherent(bookings', r, pc'[r], job'[r], sess'[r])
    <2>1. CASE r = p
      BY <2>1 DEF ControlInv, ControlTypes
    <2>2. CASE r # p
      <3>1. pc'[r] = pc[r] /\ job'[r] = job[r] /\ sess'[r] = sess[r]
        BY <2>2 DEF ControlInv, ControlTypes, Procs
      <3>2. Coherent(bookings, r, pc[r], job[r], sess[r]) /\ sess[r] \in Session
        BY DEF ControlInv, ControlTypes, Procs
      <3> QED BY <2>2, <3>1, <3>2 DEF Coherent, BookingsKept, Session
    <2> QED BY <2>1, <2>2
  <1> QED BY <1>1, <1>2 DEF ControlInv

\* A process that is answered holds nothing any more.
LEMMA FinishKeepsControl ==
    ASSUME DataTypes, ControlInv, NEW p \in Procs, BookingsKept(p),
           NEW answer \in Answers, Finish(p, answer)
    PROVE  ControlInv'
  <1> DEFINE k == IF p \in Tasks THEN "idle" ELSE answer
  <1>1. k \in Steps /\ k \notin Working
    BY DEF Steps, Answers, Working
  <1>2. p \in Requests => Coherent(bookings', p, k, NoJob, NoSession)
    BY <1>1, DBAssumption DEF Coherent, Working, NoSession, Answers
  <1>3. rowLock' \in [Slots -> Procs \cup {None}]
    BY LocksWithoutType DEF Finish, ControlInv
  <1>4. /\ pc' = [pc EXCEPT ![p] = k]
        /\ job' = [job EXCEPT ![p] = NoJob]
        /\ sess' = [sess EXCEPT ![p] = NoSession]
        /\ clock' = clock
    BY DEF Finish
  <1> HIDE DEF k
  <1> QED BY <1>1, <1>2, <1>3, <1>4, MoveKeepsControl, NoSessionType, NoJobType

\* A process that goes on with the arguments it has.
LEMMA ContinueKeepsControl ==
    ASSUME DataTypes, ControlInv, NEW p \in Procs, BookingsKept(p),
           NEW k \in Steps, NEW c \in Session,
           Continue(p, k, c),
           UNCHANGED job,
           rowLock' \in [Slots -> Procs \cup {None}],
           p \in Requests => Coherent(bookings', p, k, job[p], c)
    PROVE  ControlInv'
  <1>1. job[p] \in Job /\ job' = [job EXCEPT ![p] = job[p]]
    BY DEF ControlInv, ControlTypes
  <1> QED BY <1>1, MoveKeepsControl DEF Continue

\* A request that starts.
LEMMA EnterKeepsControl ==
    ASSUME DataTypes, ControlInv, UNCHANGED bookings,
           NEW r \in Requests, NEW k \in Steps, NEW j \in Job, NEW c \in Session,
           Enter(r, j, k, c),
           rowLock' \in [Slots -> Procs \cup {None}],
           Coherent(bookings, r, k, j, c)
    PROVE  ControlInv'
  <1>1. BookingsKept(r) /\ r \in Procs
    BY DEF BookingsKept, Procs
  <1>2. clock' = clock
    BY DEF Enter, Continue
  <1> QED BY <1>1, <1>2, MoveKeepsControl DEF Enter, Continue

-----------------------------------------------------------------------------
(* What a step does to the tables, and which step of Occupancy that is. *)

OccStep == [Occ!Next]_<<Parked, Existing>>

LEMMA BookingsUnchanged ==
    ASSUME UNCHANGED bookings, NEW p
    PROVE  BookingsKept(p)
  BY DEF BookingsKept

\* Rows of slots are rewritten, none appears or goes.
LEMMA RowsRewritten ==
    ASSUME DataInv, UNCHANGED <<bookings, retired>>,
           slots' \in [Slots -> SlotRow \cup {None}],
           \A s \in Slots : slots'[s] = None <=> slots[s] = None
    PROVE  DataInv' /\ OccStep
  <1>1. Existing' = Existing
    BY DEF Existing
  <1>2. Active' = Active /\ Parked' = Parked
    BY DEF Active, Parked
  <1>3. DataInv'
    BY <1>1, <1>2 DEF DataInv, DataTypes, BookingsReferToSlots, 
                      ActiveBookingsExclusive
  <1> QED BY <1>1, <1>2, <1>3 DEF OccStep

LEMMA TablesUnchanged ==
    ASSUME DataInv, UNCHANGED dbVars
    PROVE  DataInv' /\ OccStep
  BY RowsRewritten DEF dbVars, DataInv, DataTypes

LEMMA RowAdded ==
    ASSUME DataInv, UNCHANGED <<bookings, retired>>,
           NEW s \in Slots \ Existing, NEW row \in SlotRow,
           slots' = [slots EXCEPT ![s] = row]
    PROVE  DataInv' /\ OccStep
  <1>1. Existing' = Existing \cup {s}
    BY NoneIsNotAValue DEF Existing, DataInv, DataTypes
  <1>2. Active' = Active /\ Parked' = Parked
    BY DEF Active, Parked
  <1>3. DataInv'
    BY <1>1, <1>2 DEF DataInv, DataTypes, BookingsReferToSlots, 
                      ActiveBookingsExclusive
  <1>4. Occ!Open(s)
    BY <1>1, <1>2 DEF Occ!Open
  <1> QED BY <1>3, <1>4 DEF OccStep, Occ!Next

LEMMA RowDeleted ==
    ASSUME DataInv, UNCHANGED bookings, NEW s \in Slots, ~BookedEver(s),
           slots' = [slots EXCEPT ![s] = None],
           retired' = retired \cup {s}
    PROVE  DataInv' /\ OccStep
  <1>1. Existing' = Existing \ {s}
    BY DEF Existing, DataInv, DataTypes
  <1>2. Active' = Active /\ Parked' = Parked
    BY DEF Active, Parked
  <1>3. DataInv'
    BY <1>1, <1>2 DEF DataInv, DataTypes, BookingsReferToSlots, 
                      ActiveBookingsExclusive, BookedEver
  <1>4. CASE s \in Existing
    <2>1. \A p \in Parked : p[2] # s
      BY DEF Parked, Active, BookedEver
    <2>2. Occ!Close(s)
      BY <1>1, <1>2, <1>4, <2>1 DEF Occ!Close
    <2> QED BY <1>3, <2>2 DEF OccStep, Occ!Next
  <1>5. CASE s \notin Existing
    BY <1>1, <1>2, <1>3, <1>5 DEF OccStep
  <1> QED BY <1>4, <1>5

\* A booking the two indexes accept parks its driver.
LEMMA BookingInserted ==
    ASSUME DataInv, UNCHANGED retired,
           NEW r \in Requests, NEW u \in Users, NEW s \in Slots,
           bookings[r] = None, Admits(u, s), s \in Existing,
           NEW x \in Booking, x.user = u, x.slot = s, x.status = "active",
           bookings' = [bookings EXCEPT ![r] = x],
           NEW row \in SlotRow, slots' = [slots EXCEPT ![s] = row]
    PROVE  DataInv' /\ BookingsKept(r) /\ OccStep
  <1>1. Existing' = Existing
    BY NoneIsNotAValue DEF Existing, DataInv, DataTypes
  <1>2. Active' = Active \cup {r} /\ r \notin Active
    BY NoneIsNotAValue DEF Active, DataInv, DataTypes
  <1>3. /\ bookings'[r] = x
        /\ \A b \in Requests \ {r} : bookings'[b] = bookings[b]
    BY DEF DataInv, DataTypes
  <1>4. \A b \in Active : bookings[b].slot # s /\ bookings[b].user # u
    BY DEF Admits, ActiveOn, ActiveOf
  <1>5. DataTypes'
    BY DEF DataInv, DataTypes
  <1>6. BookingsReferToSlots'
    BY <1>1, <1>3 DEF DataInv, BookingsReferToSlots
  <1>7. ActiveBookingsExclusive'
    BY <1>2, <1>3, <1>4 DEF DataInv, ActiveBookingsExclusive, Active
  <1>8. BookingsKept(r)
    BY <1>3 DEF BookingsKept
  <1>9. Occ!Park(u, s)
    <2>1. Parked' = Parked \cup {<<u, s>>}
      BY <1>2, <1>3 DEF Parked, Active
    <2>2. \A p \in Parked : p[1] # u /\ p[2] # s
      BY <1>4 DEF Parked
    <2> QED BY <1>1, <2>1, <2>2 DEF Occ!Park
  <1> QED BY <1>5, <1>6, <1>7, <1>8, <1>9 DEF DataInv, OccStep, Occ!Next

\* A booking that is closed, or closed again, lets its driver leave, or nobody.
LEMMA BookingClosed ==
    ASSUME DataInv, UNCHANGED retired,
           NEW b \in Requests, bookings[b] # None, NEW s \in Existing,
           NEW x \in Booking, x.user = bookings[b].user, x.slot = bookings[b].slot,
           x.status # "active",
           bookings' = [bookings EXCEPT ![b] = x],
           NEW row \in SlotRow, slots' = [slots EXCEPT ![s] = row], NEW p
    PROVE  DataInv' /\ BookingsKept(p) /\ OccStep
  <1>1. Existing' = Existing
    BY NoneIsNotAValue DEF Existing, DataInv, DataTypes
  <1>2. Active' = Active \ {b}
    BY NoneIsNotAValue DEF Active, DataInv, DataTypes
  <1>3. /\ bookings'[b] = x /\ x # None
        /\ \A c \in Requests \ {b} : bookings'[c] = bookings[c]
    BY NoneIsNotAValue DEF DataInv, DataTypes
  <1>4. DataTypes'
    BY ExistingRows DEF DataInv, DataTypes
  <1>5. BookingsReferToSlots'
    BY <1>1, <1>3 DEF DataInv, BookingsReferToSlots
  <1>6. ActiveBookingsExclusive'
    BY <1>2, <1>3 DEF DataInv, ActiveBookingsExclusive, Active
  <1>7. BookingsKept(p)
    BY <1>3 DEF BookingsKept
  <1>8. CASE b \in Active
    <2> DEFINE u == bookings[b].user
               t == bookings[b].slot
    <2>1. u \in Users /\ t \in Slots
      BY DEF DataInv, DataTypes, Booking
    <2>2. <<u, t>> \in Parked
      BY <1>8 DEF Parked
    <2>3. \A c \in Active \ {b} : bookings[c].slot # t
      BY <1>8 DEF DataInv, ActiveBookingsExclusive
    <2>4. Parked' = Parked \ {<<u, t>>}
      <3>1. Parked' = {<<bookings[c].user, bookings[c].slot>> : c \in Active \ {b}}
        BY <1>2, <1>3 DEF Parked, Active
      <3> QED BY <2>3, <3>1 DEF Parked
    <2>5. Occ!Leave(u, t)
      BY <1>1, <2>2, <2>4 DEF Occ!Leave
    <2> QED BY <1>4, <1>5, <1>6, <1>7, <2>1, <2>5 DEF DataInv, OccStep, Occ!Next
  <1>9. CASE b \notin Active
    <2>1. Parked' = Parked
      BY <1>2, <1>3, <1>9 DEF Parked, Active
    <2> QED BY <1>1, <1>4, <1>5, <1>6, <1>7, <2>1 DEF DataInv, OccStep
  <1> QED BY <1>8, <1>9

-----------------------------------------------------------------------------
(* One lemma per operation: each of its steps keeps IInv and is a step of  *)
(* Occupancy.                                                              *)

\* A rollback: a refusal, an error or the death of the worker.
LEMMA AbandonStep ==
    ASSUME IInv, NEW p \in Procs, NEW answer \in Answers, Abandon(p, answer)
    PROVE  IInv' /\ OccStep
  <1>1. UNCHANGED dbVars /\ Finish(p, answer)
    BY DEF Abandon
  <1>2. BookingsKept(p)
    BY <1>1, BookingsUnchanged DEF dbVars
  <1>3. ControlInv'
    BY <1>1, <1>2, FinishKeepsControl DEF IInv, DataInv
  <1> QED BY <1>1, <1>3, TablesUnchanged DEF IInv

\* A step that only reads, and goes on.
LEMMA ReadStep ==
    ASSUME IInv, UNCHANGED dbVars, ControlInv'
    PROVE  IInv' /\ OccStep
  BY TablesUnchanged DEF IInv

LEMMA RequestAt ==
    ASSUME IInv, NEW r \in Requests
    PROVE  /\ r \in Procs
           /\ sess[r] \in Session
           /\ job[r] \in Job
           /\ pc[r] \in Steps
           /\ Coherent(bookings, r, pc[r], job[r], sess[r])
  BY DEF IInv, ControlInv, ControlTypes, Procs

LEMMA LockType ==
    ASSUME IInv, NEW p \in Procs, NEW s, Lock(p, s)
    PROVE  rowLock' \in [Slots -> Procs \cup {None}]
  BY DEF Lock, IInv, ControlInv, ControlTypes

LEMMA BookFromWebStep ==
    ASSUME IInv, NEW r \in Requests, BookFromWeb(r)
    PROVE  IInv' /\ OccStep
  <1>1. PICK u \in Users, s \in Slots :
            /\ Begin(r, "webbook", u)
            /\ IF slots[s] = None
               THEN Abandon(r, "rejected")
               ELSE /\ Enter(r, Arguments("webbook", u, s, None), "check",
                             [NoSession EXCEPT !.copy = slots[s]])
                    /\ UNCHANGED <<dbVars, rowLock>>
    BY DEF BookFromWeb
  <1>2. CASE slots[s] = None
    BY <1>1, <1>2, AbandonStep, RequestAt DEF Answers
  <1>3. CASE slots[s] # None
    <2> DEFINE j == Arguments("webbook", u, s, None)
               c == [NoSession EXCEPT !.copy = slots[s]]
    <2>1. j \in Job /\ j.op = "webbook" /\ j.user = u /\ j.slot = s
      BY DEF Arguments, Job, Operations
    <2>2. c \in Session /\ c.found = None
      BY <1>3 DEF NoSession, Session, IInv, DataInv, DataTypes
    <2>3. bookings[r] = None
      BY <1>1, RequestAt DEF Begin, Coherent
    <2>4. Coherent(bookings, r, "check", j, c)
      BY <2>1, <2>2, <2>3 DEF Coherent
    <2>5. Enter(r, j, "check", c) /\ UNCHANGED <<dbVars, rowLock>>
      BY <1>1, <1>3
    <2> HIDE DEF j, c
    <2>6. ControlInv'
      BY <2>1, <2>2, <2>4, <2>5, EnterKeepsControl
         DEF IInv, DataInv, ControlInv, ControlTypes, Steps, dbVars
    <2> QED BY <2>5, <2>6, ReadStep
  <1> QED BY <1>2, <1>3

LEMMA BookFromAPIStep ==
    ASSUME IInv, NEW r \in Requests, BookFromAPI(r)
    PROVE  IInv' /\ OccStep
  <1>1. PICK u \in Users, s \in Slots :
            /\ Begin(r, "apibook", u)
            /\ Enter(r, Arguments("apibook", u, s, None), "check", NoSession)
            /\ UNCHANGED <<dbVars, rowLock>>
    BY DEF BookFromAPI
  <1> DEFINE j == Arguments("apibook", u, s, None)
  <1>2. j \in Job /\ j.op = "apibook" /\ j.user = u /\ j.slot = s
    BY DEF Arguments, Job, Operations
  <1>3. bookings[r] = None
    BY <1>1, RequestAt DEF Begin, Coherent
  <1>4. Coherent(bookings, r, "check", j, NoSession)
    BY <1>2, <1>3 DEF Coherent, NoSession
  <1> HIDE DEF j
  <1>5. ControlInv'
    BY <1>1, <1>2, <1>4, NoSessionType, EnterKeepsControl
       DEF IInv, DataInv, ControlInv, ControlTypes, Steps, dbVars, j
  <1> QED BY <1>1, <1>5, ReadStep

LEMMA BookCheckStep ==
    ASSUME IInv, NEW r \in Requests, BookCheck(r)
    PROVE  IInv' /\ OccStep
  <1>1. CASE ActiveOf(job[r].user) # {}
    BY <1>1, AbandonStep, RequestAt DEF BookCheck, Answers
  <1>2. CASE ActiveOf(job[r].user) = {}
    <2>1. Continue(r, "lock", sess[r]) /\ UNCHANGED <<dbVars, rowLock, job>>
      BY <1>2 DEF BookCheck
    <2>2. Coherent(bookings, r, "lock", job[r], sess[r])
      BY RequestAt DEF BookCheck, Coherent, Working
    <2>3. BookingsKept(r) /\ bookings' = bookings
      BY <2>1, BookingsUnchanged DEF dbVars
    <2>4. rowLock' \in [Slots -> Procs \cup {None}]
      BY <2>1 DEF IInv, ControlInv, ControlTypes
    <2>5. ControlInv'
      BY <2>1, <2>2, <2>3, <2>4, RequestAt, ContinueKeepsControl DEF IInv, DataInv, Steps
    <2> QED BY <2>1, <2>5, ReadStep
  <1> QED BY <1>1, <1>2

LEMMA BookLockStep ==
    ASSUME IInv, NEW r \in Requests, BookLock(r)
    PROVE  IInv' /\ OccStep
  <1> DEFINE s == job[r].slot
             slot == IF sess[r].copy = None THEN slots[s] ELSE sess[r].copy
             c == [sess[r] EXCEPT !.copy = slot]
  <1>1. CASE slots[s] = None \/ AfterExpiry(slot).status = "occupied"
    BY <1>1, AbandonStep, RequestAt DEF BookLock, Answers
  <1>2. CASE ~(slots[s] = None \/ AfterExpiry(slot).status = "occupied")
    <2>1. /\ pc[r] = "lock" /\ job[r].op \in BookOps
          /\ Lock(r, s)
          /\ Continue(r, "commit", c)
          /\ UNCHANGED <<dbVars, job>>
      BY <1>2 DEF BookLock, BookOps
    <2>2. s \in Slots
      BY <2>1, RequestAt DEF Coherent, Working
    <2>3. slots[s] \in SlotRow
      BY <1>2, <2>2 DEF IInv, DataInv, DataTypes
    <2>4. slot \in SlotRow
      BY <2>3, RequestAt DEF Session
    <2> HIDE DEF slot
    <2>5. c \in Session /\ c.copy \in SlotRow /\ c.found = sess[r].found
      BY <2>4, RequestAt DEF Session
    <2> HIDE DEF c
    <2>6. Coherent(bookings, r, "commit", job[r], c)
      BY <2>1, <2>5, RequestAt DEF Coherent, Working, BookOps
    <2>7. BookingsKept(r) /\ bookings' = bookings
      BY <2>1, BookingsUnchanged DEF dbVars
    <2>8. ControlInv'
      BY <2>1, <2>5, <2>6, <2>7, LockType, RequestAt, ContinueKeepsControl
         DEF IInv, DataInv, Steps
    <2> QED BY <2>1, <2>8, ReadStep
  <1> QED BY <1>1, <1>2

LEMMA BookCommitStep ==
    ASSUME IInv, NEW r \in Requests, BookCommit(r)
    PROVE  IInv' /\ OccStep
  <1> DEFINE s == job[r].slot
             u == job[r].user
             copy == sess[r].copy
             x == NewBooking(u, s, copy.surge)
             row == Flush(slots[s], copy, "occupied")
  <1>1. /\ pc[r] = "commit" /\ job[r].op \in BookOps
        /\ s \in Slots /\ u \in Users /\ copy \in SlotRow /\ bookings[r] = None
    BY RequestAt DEF BookCommit, Coherent, Working, BookOps
  <1>2. CASE Abandon(r, "error") \/ Abandon(r, "rejected")
    BY <1>2, AbandonStep, RequestAt DEF Answers
  <1>3. CASE /\ slots[s] # None
             /\ Admits(u, s)
             /\ bookings' = [bookings EXCEPT ![r] = x]
             /\ slots' = [slots EXCEPT ![s] = row]
             /\ rowLock' = LocksWithout(r)
             /\ Continue(r, "total", NoSession)
             /\ UNCHANGED <<retired, job>>
    <2>1. s \in Existing /\ slots[s] \in SlotRow
      BY <1>1, <1>3 DEF Existing, IInv, DataInv, DataTypes
    <2>2. row \in SlotRow
      BY <2>1, FlushType DEF SlotStatus
    <2>3. x \in Booking /\ x.user = u /\ x.slot = s /\ x.status = "active"
      <3>1. CurrentRate(copy.surge) \in Int
        BY <1>1, CurrentRateInt DEF SlotRow
      <3> QED BY <1>1, <3>1 DEF NewBooking, Booking, BookingStatus, IInv, ControlInv,
                                ControlTypes
    <2> HIDE DEF x, row
    <2>4. DataInv' /\ BookingsKept(r) /\ OccStep
      BY <1>1, <1>3, <2>1, <2>2, <2>3, BookingInserted DEF IInv
    <2>5. Coherent(bookings', r, "total", job[r], NoSession)
      BY DEF Coherent, Working, NoSession
    <2>6. rowLock' \in [Slots -> Procs \cup {None}]
      BY <1>3, LocksWithoutType, RequestAt DEF IInv, ControlInv
    <2>7. ControlInv'
      BY <1>3, <2>4, <2>5, <2>6, RequestAt, NoSessionType, ContinueKeepsControl
         DEF IInv, DataInv, Steps
    <2> QED BY <2>4, <2>7 DEF IInv
  <1> QED BY <1>2, <1>3 DEF BookCommit

LEMMA ExitReadStep ==
    ASSUME IInv, NEW r \in Requests, ExitRead(r)
    PROVE  IInv' /\ OccStep
  <1>1. PICK u \in Users, b \in Requests :
            /\ bookings[b] # None
            /\ Begin(r, "exit", u)
            /\ IF MayExit(u, b)
               THEN /\ Enter(r, Arguments("exit", u, bookings[b].slot, b), "lock", NoSession)
                    /\ UNCHANGED <<dbVars, rowLock>>
               ELSE Abandon(r, "rejected")
    BY DEF ExitRead
  <1>2. CASE ~MayExit(u, b)
    BY <1>1, <1>2, AbandonStep, RequestAt DEF Answers
  <1>3. CASE MayExit(u, b)
    <2> DEFINE j == Arguments("exit", u, bookings[b].slot, b)
    <2>1. bookings[b].slot \in Slots
      BY <1>1 DEF IInv, DataInv, DataTypes, Booking
    <2>2. /\ j \in Job /\ j.op = "exit"
          /\ j.slot = bookings[b].slot /\ j.booking = b
      BY <2>1 DEF Arguments, Job, Operations
    <2>3. bookings[r] = None
      BY <1>1, RequestAt DEF Begin, Coherent
    <2> HIDE DEF j
    <2>4. Coherent(bookings, r, "lock", j, NoSession)
      BY <1>1, <2>1, <2>2, <2>3 DEF Coherent, NoSession, BookOps
    <2>5. Enter(r, j, "lock", NoSession) /\ UNCHANGED <<dbVars, rowLock>>
      BY <1>1, <1>3 DEF j
    <2>6. ControlInv'
      BY <2>2, <2>4, <2>5, NoSessionType, EnterKeepsControl
         DEF IInv, DataInv, ControlInv, ControlTypes, Steps, dbVars
    <2> QED BY <2>5, <2>6, ReadStep
  <1> QED BY <1>2, <1>3

LEMMA ExitLockStep ==
    ASSUME IInv, NEW r \in Requests, ExitLock(r)
    PROVE  IInv' /\ OccStep
  <1> DEFINE s == job[r].slot
             c == [NoSession EXCEPT !.copy = slots[s], !.end = clock]
  <1>1. /\ pc[r] = "lock" /\ job[r].op = "exit"
        /\ Lock(r, s)
        /\ Continue(r, "commit", c)
        /\ UNCHANGED <<dbVars, job>>
    BY DEF ExitLock
  <1>2. s \in Existing
    BY <1>1, RequestAt DEF Coherent, Working, IInv, DataInv, BookingsReferToSlots
  <1>3. slots[s] \in SlotRow /\ clock \in Nat
    BY <1>2, ExistingRows DEF IInv, DataInv, ControlInv, ControlTypes
  <1>4. c \in Session /\ c.copy \in SlotRow /\ c.end \in Nat /\ c.found = None
    BY <1>3 DEF NoSession, Session
  <1> HIDE DEF c
  <1>5. Coherent(bookings, r, "commit", job[r], c)
    BY <1>1, <1>4, RequestAt DEF Coherent, Working
  <1>6. BookingsKept(r) /\ bookings' = bookings
    BY <1>1, BookingsUnchanged DEF dbVars
  <1>7. ControlInv'
    BY <1>1, <1>4, <1>5, <1>6, LockType, RequestAt, ContinueKeepsControl
       DEF IInv, DataInv, Steps
  <1> QED BY <1>1, <1>7, ReadStep

LEMMA ExitCommitStep ==
    ASSUME IInv, NEW r \in Requests, ExitCommit(r)
    PROVE  IInv' /\ OccStep
  <1> DEFINE s == job[r].slot
             b == job[r].booking
             copy == sess[r].copy
             x == Closed(bookings[b], copy, sess[r].end)
             row == Flush(slots[s], copy, "available")
  <1>1. /\ pc[r] = "commit" /\ job[r].op = "exit"
        /\ bookings' = [bookings EXCEPT ![b] = x]
        /\ slots' = [slots EXCEPT ![s] = row]
        /\ rowLock' = LocksWithout(r)
        /\ Continue(r, "total", NoSession)
        /\ UNCHANGED <<retired, job>>
    BY DEF ExitCommit
  <1>2. /\ b \in Requests /\ bookings[b] # None /\ bookings[b].slot = s
        /\ copy \in SlotRow /\ sess[r].end \in Nat
    BY <1>1, RequestAt DEF Coherent, Working
  <1>3. s \in Existing /\ bookings[b] \in Booking
    BY <1>2 DEF IInv, DataInv, DataTypes, BookingsReferToSlots
  <1>4. row \in SlotRow
    BY <1>3, ExistingRows, FlushType DEF SlotStatus, IInv, DataInv
  <1>5. /\ x \in Booking /\ x.user = bookings[b].user /\ x.slot = bookings[b].slot
        /\ x.status # "active"
    BY <1>2, <1>3, ClosedType
  <1> HIDE DEF x, row
  <1>6. DataInv' /\ BookingsKept(r) /\ OccStep
    BY <1>1, <1>2, <1>3, <1>4, <1>5, BookingClosed DEF IInv
  <1>7. Coherent(bookings', r, "total", job[r], NoSession)
    BY DEF Coherent, Working, NoSession
  <1>8. rowLock' \in [Slots -> Procs \cup {None}]
    BY <1>1, LocksWithoutType, RequestAt DEF IInv, ControlInv
  <1>9. ControlInv'
    BY <1>1, <1>6, <1>7, <1>8, RequestAt, NoSessionType, ContinueKeepsControl
       DEF IInv, DataInv, Steps
  <1> QED BY <1>6, <1>9 DEF IInv

LEMMA ReserveLockStep ==
    ASSUME IInv, NEW r \in Requests, ReserveLock(r)
    PROVE  IInv' /\ OccStep
  <1>1. PICK u \in Users, s \in Slots :
            /\ Begin(r, "reserve", u)
            /\ IF slots[s] = None \/ AfterExpiry(slots[s]).status # "available"
               THEN Abandon(r, "rejected")
               ELSE /\ Lock(r, s)
                    /\ Enter(r, Arguments("reserve", u, s, None), "commit", NoSession)
                    /\ UNCHANGED dbVars
    BY DEF ReserveLock
  <1>2. CASE Abandon(r, "rejected")
    BY <1>2, AbandonStep, RequestAt DEF Answers
  <1>3. CASE ~Abandon(r, "rejected")
    <2> DEFINE j == Arguments("reserve", u, s, None)
    <2>1. j \in Job /\ j.op = "reserve" /\ j.slot = s
      BY DEF Arguments, Job, Operations
    <2>2. bookings[r] = None
      BY <1>1, RequestAt DEF Begin, Coherent
    <2>3. Lock(r, s) /\ Enter(r, j, "commit", NoSession) /\ UNCHANGED dbVars
      BY <1>1, <1>3
    <2> HIDE DEF j
    <2>4. Coherent(bookings, r, "commit", j, NoSession)
      BY <2>1, <2>2 DEF Coherent, NoSession, BookOps
    <2>5. ControlInv'
      BY <2>1, <2>3, <2>4, LockType, RequestAt, NoSessionType, EnterKeepsControl
         DEF IInv, DataInv, Steps, dbVars
    <2> QED BY <2>3, <2>5, ReadStep
  <1> QED BY <1>2, <1>3

\* A request or a task that rewrites rows of slots, no booking, and is answered.
LEMMA RewriteAndFinish ==
    ASSUME IInv, NEW p \in Procs, Finish(p, "ok"), UNCHANGED <<bookings, retired>>,
           slots' \in [Slots -> SlotRow \cup {None}],
           \A s \in Slots : slots'[s] = None <=> slots[s] = None
    PROVE  IInv' /\ OccStep
  <1>1. DataInv' /\ OccStep
    BY RowsRewritten DEF IInv
  <1>2. ControlInv'
    BY BookingsUnchanged, FinishKeepsControl DEF IInv, DataInv, Answers
  <1> QED BY <1>1, <1>2 DEF IInv

LEMMA ReserveCommitStep ==
    ASSUME IInv, NEW r \in Requests, ReserveCommit(r)
    PROVE  IInv' /\ OccStep
  <1> DEFINE s == job[r].slot
  <1>1. CASE Abandon(r, "error")
    BY <1>1, AbandonStep, RequestAt DEF Answers
  <1>2. CASE /\ slots[s] # None
             /\ slots' = [slots EXCEPT ![s].status = "reserved",
                                       ![s].until = clock + HoldTicks]
             /\ Finish(r, "ok")
             /\ UNCHANGED <<bookings, retired>>
    <2>1. s \in Slots
      BY RequestAt DEF ReserveCommit, Coherent, Working
    <2>2. slots[s] \in SlotRow /\ clock + HoldTicks \in Nat
      BY <1>2, <2>1, DBAssumption DEF IInv, DataInv, DataTypes, ControlInv, ControlTypes
    <2> DEFINE row == [slots[s] EXCEPT !.status = "reserved", !.until = clock + HoldTicks]
    <2>3. row \in SlotRow
      BY <2>2 DEF SlotRow, SlotStatus
    <2>4. slots' = [slots EXCEPT ![s] = row]
      BY <1>2, <2>1 DEF IInv, DataInv, DataTypes
    <2> HIDE DEF row
    <2>5. /\ slots' \in [Slots -> SlotRow \cup {None}]
          /\ \A t \in Slots : slots'[t] = None <=> slots[t] = None
      BY <1>2, <2>1, <2>3, <2>4, NoneIsNotAValue DEF IInv, DataInv, DataTypes
    <2> QED BY <1>2, <2>5, RequestAt, RewriteAndFinish
  <1> QED BY <1>1, <1>2 DEF ReserveCommit

LEMMA SweepReadStep ==
    ASSUME IInv, NEW t \in Tasks, SweepRead(t)
    PROVE  IInv' /\ OccStep
  <1> DEFINE expired == {s \in Existing : Expired(slots[s])}
             c == [NoSession EXCEPT !.batch = expired]
  <1>1. Continue(t, "commit", c) /\ UNCHANGED <<dbVars, rowLock, job>>
    BY DEF SweepRead
  <1>2. c \in Session
    BY DEF NoSession, Session, Existing
  <1> HIDE DEF c
  <1>3. t \in Procs /\ t \notin Requests
    BY DBAssumption DEF Procs
  <1>4. BookingsKept(t) /\ rowLock' \in [Slots -> Procs \cup {None}]
    BY <1>1, BookingsUnchanged DEF dbVars, IInv, ControlInv, ControlTypes
  <1>5. ControlInv'
    BY <1>1, <1>2, <1>3, <1>4, ContinueKeepsControl DEF IInv, DataInv, Steps
  <1> QED BY <1>1, <1>5, ReadStep

LEMMA SweepCommitStep ==
    ASSUME IInv, NEW t \in Tasks, SweepCommit(t)
    PROVE  IInv' /\ OccStep
  <1> DEFINE batch == sess[t].batch
  <1>1. t \in Procs
    BY DEF Procs
  <1>2. CASE Abandon(t, "error")
    BY <1>1, <1>2, AbandonStep DEF Answers
  <1>3. CASE /\ \A s \in batch : slots[s] # None
             /\ slots' = Freed(batch)
             /\ Finish(t, "ok")
             /\ UNCHANGED <<bookings, retired>>
    <2>1. batch \subseteq Slots
      BY <1>1 DEF IInv, ControlInv, ControlTypes, Session
    <2>2. \A s \in batch : [slots[s] EXCEPT !.status = "available", !.until = None] \in SlotRow
      BY <1>3, <2>1 DEF IInv, DataInv, DataTypes, SlotRow, SlotStatus
    <2>3. /\ slots' \in [Slots -> SlotRow \cup {None}]
          /\ \A s \in Slots : slots'[s] = None <=> slots[s] = None
      BY <1>3, <2>2, NoneIsNotAValue DEF Freed, IInv, DataInv, DataTypes
    <2> QED BY <1>1, <1>3, <2>3, RewriteAndFinish
  <1> QED BY <1>2, <1>3 DEF SweepCommit

LEMMA AddSlotStep ==
    ASSUME IInv, NEW r \in Requests, AddSlot(r)
    PROVE  IInv' /\ OccStep
  <1>1. CASE Abandon(r, "rejected")
    BY <1>1, AbandonStep, RequestAt DEF Answers
  <1>2. CASE ~Abandon(r, "rejected")
    <2>1. PICK number \in Numbers, s \in Slots \ (Existing \cup retired) :
              /\ slots' = [slots EXCEPT ![s] = NewSlot(number)]
              /\ Finish(r, "ok")
              /\ UNCHANGED <<bookings, retired>>
      BY <1>2 DEF AddSlot
    <2>2. NewSlot(number) \in SlotRow
      BY DEF NewSlot, SlotRow, SlotStatus
    <2>3. DataInv' /\ OccStep
      BY <2>1, <2>2, RowAdded DEF IInv
    <2>4. ControlInv'
      BY <2>1, BookingsUnchanged, RequestAt, FinishKeepsControl DEF IInv, DataInv, Answers
    <2> QED BY <2>3, <2>4 DEF IInv
  <1> QED BY <1>1, <1>2

LEMMA ToggleReadStep ==
    ASSUME IInv, NEW r \in Requests, ToggleRead(r)
    PROVE  IInv' /\ OccStep
  <1>1. PICK s \in Slots :
            /\ Begin(r, "toggle", None)
            /\ IF slots[s] = None
               THEN Abandon(r, "rejected")
               ELSE /\ Enter(r, Arguments("toggle", None, s, None),
                             IF slots[s].status = "occupied" THEN "find" ELSE "commit",
                             [NoSession EXCEPT !.copy = slots[s]])
                    /\ UNCHANGED <<dbVars, rowLock>>
    BY DEF ToggleRead
  <1>2. CASE slots[s] = None
    BY <1>1, <1>2, AbandonStep, RequestAt DEF Answers
  <1>3. CASE slots[s] # None
    <2> DEFINE j == Arguments("toggle", None, s, None)
               k == IF slots[s].status = "occupied" THEN "find" ELSE "commit"
               c == [NoSession EXCEPT !.copy = slots[s]]
    <2>1. j \in Job /\ j.op = "toggle" /\ j.slot = s
      BY DEF Arguments, Job, Operations
    <2>2. c \in Session /\ c.found = None
      BY <1>3 DEF NoSession, Session, IInv, DataInv, DataTypes
    <2>3. bookings[r] = None
      BY <1>1, RequestAt DEF Begin, Coherent
    <2>4. k \in Steps
      BY DEF Steps
    <2>5. Enter(r, j, k, c) /\ UNCHANGED <<dbVars, rowLock>>
      BY <1>1, <1>3
    <2> HIDE DEF j, c, k
    <2>6. Coherent(bookings, r, k, j, c)
      BY <2>1, <2>2, <2>3 DEF Coherent, BookOps
    <2>7. ControlInv'
      BY <2>1, <2>2, <2>4, <2>5, <2>6, EnterKeepsControl
         DEF IInv, DataInv, ControlInv, ControlTypes, dbVars
    <2> QED BY <2>5, <2>7, ReadStep
  <1> QED BY <1>2, <1>3

LEMMA ToggleFindStep ==
    ASSUME IInv, NEW r \in Requests, ToggleFind(r)
    PROVE  IInv' /\ OccStep
  <1> DEFINE active == ActiveOn(job[r].slot)
  <1>1. PICK b \in IF active = {} THEN {None} ELSE active :
            Continue(r, "commit", [sess[r] EXCEPT !.found = b])
    BY DEF ToggleFind
  <1>2. /\ pc[r] = "find" /\ job[r].op = "toggle"
        /\ UNCHANGED <<dbVars, rowLock, job>>
    BY DEF ToggleFind
  <1>3. b \in Requests \cup {None} /\ (b # None => bookings[b] # None)
    BY <1>1 DEF ActiveOn, Active
  <1> DEFINE c == [sess[r] EXCEPT !.found = b]
  <1>4. c \in Session /\ c.found = b
    BY <1>3, RequestAt DEF Session
  <1>5. Continue(r, "commit", c)
    BY <1>1
  <1> HIDE DEF c
  <1>6. Coherent(bookings, r, "commit", job[r], c)
    BY <1>2, <1>3, <1>4, RequestAt DEF Coherent, Working, BookOps
  <1>7. BookingsKept(r) /\ bookings' = bookings
    BY <1>2, BookingsUnchanged DEF dbVars
  <1>8. rowLock' \in [Slots -> Procs \cup {None}]
    BY <1>2 DEF IInv, ControlInv, ControlTypes
  <1>9. ControlInv'
    BY <1>2, <1>4, <1>5, <1>6, <1>7, <1>8, RequestAt, ContinueKeepsControl
       DEF IInv, DataInv, Steps
  <1> QED BY <1>2, <1>9, ReadStep

LEMMA ToggleCommitStep ==
    ASSUME IInv, NEW r \in Requests, ToggleCommit(r)
    PROVE  IInv' /\ OccStep
  <1> DEFINE s == job[r].slot
             copy == sess[r].copy
             b == sess[r].found
             target == IF copy.status = "occupied" THEN "available" ELSE "occupied"
             row == Flush(slots[s], copy, target)
  <1>1. CASE Abandon(r, "error")
    BY <1>1, AbandonStep, RequestAt DEF Answers
  <1>2. CASE /\ slots[s] # None
             /\ slots' = [slots EXCEPT ![s] = row]
             /\ bookings' = IF b = None THEN bookings
                            ELSE [bookings EXCEPT ![b] = Cancelled(@)]
             /\ Finish(r, "ok")
             /\ UNCHANGED retired
    <2>1. s \in Existing /\ slots[s] \in SlotRow
      BY <1>2, RequestAt DEF ToggleCommit, Coherent, Working, Existing, IInv, DataInv,
                             DataTypes
    <2>2. row \in SlotRow
      BY <2>1, FlushType DEF SlotStatus
    <2> HIDE DEF row
    <2>3. CASE b = None
      <3>1. UNCHANGED <<bookings, retired>>
        BY <1>2, <2>3
      <3>2. /\ slots' \in [Slots -> SlotRow \cup {None}]
            /\ \A t \in Slots : slots'[t] = None <=> slots[t] = None
        BY <1>2, <2>1, <2>2, NoneIsNotAValue DEF IInv, DataInv, DataTypes
      <3> QED BY <1>2, <3>1, <3>2, RequestAt, RewriteAndFinish
    <2>4. CASE b # None
      <3>1. /\ b \in Requests /\ bookings[b] # None /\ bookings[b] \in Booking
        BY <2>4, RequestAt DEF Coherent, Session, IInv, DataInv, DataTypes
      <3> DEFINE x == Cancelled(bookings[b])
      <3>2. /\ x \in Booking /\ x.user = bookings[b].user /\ x.slot = bookings[b].slot
            /\ x.status # "active"
        BY <3>1, CancelledType
      <3>3. bookings' = [bookings EXCEPT ![b] = x]
        BY <1>2, <2>4
      <3> HIDE DEF x
      <3>4. DataInv' /\ BookingsKept(r) /\ OccStep
        BY <1>2, <2>1, <2>2, <3>1, <3>2, <3>3, BookingClosed DEF IInv
      <3>5. ControlInv'
        BY <1>2, <3>4, RequestAt, FinishKeepsControl DEF IInv, DataInv, Answers
      <3> QED BY <3>4, <3>5 DEF IInv
    <2> QED BY <2>3, <2>4
  <1> QED BY <1>1, <1>2 DEF ToggleCommit

LEMMA DeleteReadStep ==
    ASSUME IInv, NEW r \in Requests, DeleteRead(r)
    PROVE  IInv' /\ OccStep
  <1>1. PICK s \in Slots :
            /\ Begin(r, "delete", None)
            /\ IF slots[s] = None \/ slots[s].status = "occupied"
               THEN Abandon(r, "rejected")
               ELSE /\ Enter(r, Arguments("delete", None, s, None), "find", NoSession)
                    /\ UNCHANGED <<dbVars, rowLock>>
    BY DEF DeleteRead
  <1>2. CASE Abandon(r, "rejected")
    BY <1>2, AbandonStep, RequestAt DEF Answers
  <1>3. CASE ~Abandon(r, "rejected")
    <2> DEFINE j == Arguments("delete", None, s, None)
    <2>1. j \in Job /\ j.op = "delete" /\ j.slot = s
      BY DEF Arguments, Job, Operations
    <2>2. bookings[r] = None
      BY <1>1, RequestAt DEF Begin, Coherent
    <2>3. Enter(r, j, "find", NoSession) /\ UNCHANGED <<dbVars, rowLock>>
      BY <1>1, <1>3
    <2> HIDE DEF j
    <2>4. Coherent(bookings, r, "find", j, NoSession)
      BY <2>1, <2>2 DEF Coherent, NoSession, BookOps
    <2>5. ControlInv'
      BY <2>1, <2>3, <2>4, NoSessionType, EnterKeepsControl
         DEF IInv, DataInv, ControlInv, ControlTypes, Steps, dbVars
    <2> QED BY <2>3, <2>5, ReadStep
  <1> QED BY <1>2, <1>3

LEMMA DeleteCountStep ==
    ASSUME IInv, NEW r \in Requests, DeleteCount(r)
    PROVE  IInv' /\ OccStep
  <1>1. CASE BookedEver(job[r].slot)
    BY <1>1, AbandonStep, RequestAt DEF DeleteCount, Answers
  <1>2. CASE ~BookedEver(job[r].slot)
    <2>1. /\ pc[r] = "find" /\ job[r].op = "delete"
          /\ Continue(r, "commit", sess[r])
          /\ UNCHANGED <<dbVars, rowLock, job>>
      BY <1>2 DEF DeleteCount
    <2>2. Coherent(bookings, r, "commit", job[r], sess[r])
      BY <2>1, RequestAt DEF Coherent, Working, BookOps
    <2>3. BookingsKept(r) /\ bookings' = bookings
      BY <2>1, BookingsUnchanged DEF dbVars
    <2>4. rowLock' \in [Slots -> Procs \cup {None}]
      BY <2>1 DEF IInv, ControlInv, ControlTypes
    <2>5. ControlInv'
      BY <2>1, <2>2, <2>3, <2>4, RequestAt, ContinueKeepsControl DEF IInv, DataInv, Steps
    <2> QED BY <2>1, <2>5, ReadStep
  <1> QED BY <1>1, <1>2

LEMMA DeleteCommitStep ==
    ASSUME IInv, NEW r \in Requests, DeleteCommit(r)
    PROVE  IInv' /\ OccStep
  <1> DEFINE s == job[r].slot
  <1>1. CASE Abandon(r, "error")
    BY <1>1, AbandonStep, RequestAt DEF Answers
  <1>2. CASE /\ Unreferenced(s)
             /\ slots' = [slots EXCEPT ![s] = None]
             /\ retired' = retired \cup {s}
             /\ Finish(r, "ok")
             /\ UNCHANGED bookings
    <2>1. s \in Slots /\ ~BookedEver(s)
      BY <1>2, RequestAt DEF DeleteCommit, Coherent, Working, Unreferenced
    <2>2. DataInv' /\ OccStep
      BY <1>2, <2>1, RowDeleted DEF IInv
    <2>3. ControlInv'
      BY <1>2, BookingsUnchanged, RequestAt, FinishKeepsControl DEF IInv, DataInv, Answers
    <2> QED BY <2>2, <2>3 DEF IInv
  <1> QED BY <1>1, <1>2 DEF DeleteCommit

\* The multiplier reprice_all stores is an integer: the counts are numbers.
LEMMA StoredSurge ==
    ASSUME IInv, NEW p \in Procs
    PROVE  /\ OccupancyRatio(sess[p].total, sess[p].free) \in Int
           /\ OccupancyRatio(sess[p].total, sess[p].free) <= 10000
           /\ ComputeSurge(OccupancyRatio(sess[p].total, sess[p].free)) \in Int
  <1>1. sess[p].total \in Nat /\ sess[p].free \in Nat
    BY DEF IInv, ControlInv, ControlTypes, Session
  <1> QED BY <1>1, OccupancyAtMostOne, SurgeInt

LEMMA RepricedRows ==
    ASSUME DataTypes, NEW surge \in Int
    PROVE  /\ Repriced(surge) \in [Slots -> SlotRow \cup {None}]
           /\ \A s \in Slots : Repriced(surge)[s] = None <=> slots[s] = None
  <1>1. \A s \in Existing : [slots[s] EXCEPT !.surge = surge] \in SlotRow
    BY DEF DataTypes, Existing, SlotRow
  <1> QED BY <1>1, NoneIsNotAValue DEF Repriced, Existing, DataTypes

LEMMA RepriceStepKeeps ==
    ASSUME IInv, NEW p \in Procs, RepriceStep(p)
    PROVE  IInv' /\ OccStep
  <1>1. CASE CountTotal(p)
    <2> DEFINE k == IF Existing = {} THEN "surge" ELSE "free"
               c == [NoSession EXCEPT !.total = Cardinality(Existing)]
    <2>1. Continue(p, k, c) /\ UNCHANGED <<dbVars, rowLock, job>>
      BY <1>1 DEF CountTotal
    <2>2. k \in Steps /\ k \notin Working \cup {"idle"}
      BY DEF Steps, Working
    <2>3. Cardinality(Existing) \in Nat
      BY CountType DEF Existing
    <2>4. c \in Session /\ c.found = None
      BY <2>3 DEF NoSession, Session
    <2> HIDE DEF k, c
    <2>5. Coherent(bookings, p, k, job[p], c)
      BY <2>2, <2>4 DEF Coherent, Working
    <2>6. BookingsKept(p) /\ bookings' = bookings
      BY <2>1, BookingsUnchanged DEF dbVars
    <2>7. rowLock' \in [Slots -> Procs \cup {None}]
      BY <2>1 DEF IInv, ControlInv, ControlTypes
    <2>8. ControlInv'
      BY <2>1, <2>2, <2>4, <2>5, <2>6, <2>7, ContinueKeepsControl DEF IInv, DataInv
    <2> QED BY <2>1, <2>8, ReadStep
  <1>2. CASE CountFree(p)
    <2> DEFINE c == [sess[p] EXCEPT !.free = Cardinality(FreeSlots)]
    <2>1. Continue(p, "surge", c) /\ UNCHANGED <<dbVars, rowLock, job>>
      BY <1>2 DEF CountFree
    <2>2. Cardinality(FreeSlots) \in Nat
      BY CountType DEF Existing, FreeSlots
    <2>3. sess[p] \in Session
      BY DEF IInv, ControlInv, ControlTypes
    <2>4. c \in Session /\ c.found = sess[p].found
      BY <2>2, <2>3 DEF Session
    <2> HIDE DEF c
    <2>5. p \in Requests => Coherent(bookings, p, "surge", job[p], c)
      BY <2>4, RequestAt DEF Coherent, Working
    <2>6. BookingsKept(p) /\ bookings' = bookings
      BY <2>1, BookingsUnchanged DEF dbVars
    <2>7. rowLock' \in [Slots -> Procs \cup {None}]
      BY <2>1 DEF IInv, ControlInv, ControlTypes
    <2>8. ControlInv'
      BY <2>1, <2>4, <2>5, <2>6, <2>7, ContinueKeepsControl DEF IInv, DataInv, Steps
    <2> QED BY <2>1, <2>8, ReadStep
  <1>3. CASE WriteSurge(p)
    <2> DEFINE surge == ComputeSurge(OccupancyRatio(sess[p].total, sess[p].free))
    <2>1. slots' = Repriced(surge) /\ Finish(p, "ok") /\ UNCHANGED <<bookings, retired>>
      BY <1>3 DEF WriteSurge
    <2>2. surge \in Int
      BY StoredSurge
    <2> HIDE DEF surge
    <2>3. /\ slots' \in [Slots -> SlotRow \cup {None}]
          /\ \A s \in Slots : slots'[s] = None <=> slots[s] = None
      BY <2>1, <2>2, RepricedRows DEF IInv, DataInv
    <2> QED BY <2>1, <2>3, RewriteAndFinish
  <1> QED BY <1>1, <1>2, <1>3 DEF RepriceStep

LEMMA TickStep ==
    ASSUME IInv, Tick
    PROVE  IInv' /\ OccStep
  <1>1. UNCHANGED dbVars /\ UNCHANGED <<rowLock, pc, job, sess>> /\ clock' = clock + 1
    BY DEF Tick
  <1>2. ControlInv'
    BY <1>1 DEF IInv, ControlInv, ControlTypes, Coherent, dbVars
  <1> QED BY <1>1, <1>2, ReadStep

LEMMA StutterStep ==
    ASSUME IInv, UNCHANGED vars
    PROVE  IInv' /\ OccStep
  <1>1. UNCHANGED dbVars /\ UNCHANGED <<rowLock, clock, pc, job, sess>>
    BY DEF vars, dbVars
  <1>2. ControlInv'
    BY <1>1 DEF IInv, ControlInv, ControlTypes, Coherent, dbVars
  <1> QED BY <1>1, <1>2, ReadStep

\* Every step of the system keeps the invariant and is a step of Occupancy.
LEMMA StepKeeps ==
    ASSUME IInv, [Next]_vars
    PROVE  IInv' /\ OccStep
  <1>1. ASSUME NEW r \in Requests, BookStep(r)
        PROVE  IInv' /\ OccStep
    BY <1>1, BookFromWebStep, BookFromAPIStep, BookCheckStep, BookLockStep, BookCommitStep
       DEF BookStep
  <1>2. ASSUME NEW r \in Requests, ExitStep(r)
        PROVE  IInv' /\ OccStep
    BY <1>2, ExitReadStep, ExitLockStep, ExitCommitStep DEF ExitStep
  <1>3. ASSUME NEW r \in Requests, ReserveStep(r)
        PROVE  IInv' /\ OccStep
    BY <1>3, ReserveLockStep, ReserveCommitStep DEF ReserveStep
  <1>4. ASSUME NEW r \in Requests, AdminStep(r)
        PROVE  IInv' /\ OccStep
    BY <1>4, AddSlotStep, ToggleReadStep, ToggleFindStep, ToggleCommitStep,
       DeleteReadStep, DeleteCountStep, DeleteCommitStep DEF AdminStep
  <1>5. ASSUME NEW p \in Procs, RepriceStep(p)
        PROVE  IInv' /\ OccStep
    BY <1>5, RepriceStepKeeps
  <1>6. ASSUME NEW p \in Procs, Crash(p)
        PROVE  IInv' /\ OccStep
    BY <1>6, AbandonStep DEF Crash, Answers
  <1>7. ASSUME NEW t \in Tasks, SweepStep(t)
        PROVE  IInv' /\ OccStep
    BY <1>7, SweepReadStep, SweepCommitStep DEF SweepStep
  <1>8. CASE Tick
    BY <1>8, TickStep
  <1>9. CASE Done \/ UNCHANGED vars
    BY <1>9, StutterStep DEF Done
  <1> QED BY <1>1, <1>2, <1>3, <1>4, <1>5, <1>6, <1>7, <1>8, <1>9 DEF Next

-----------------------------------------------------------------------------
(* The initial states. *)

LEMMA InitKeeps ==
    ASSUME Init
    PROVE  IInv /\ Occ!Init
  <1>1. PICK number \in [Seeded -> Numbers], place \in Places : InitDB(number, place)
    BY DEF Init
  <1> DEFINE taken == {place[b][2] : b \in Earlier}
             surge == ComputeSurge(OccupancyRatio(Cardinality(Seeded),
                                                  Cardinality(Seeded \ taken)))
             row(s) == [NewSlot(number[s]) EXCEPT
                           !.status = IF s \in taken THEN "occupied" ELSE @,
                           !.surge = surge]
             parking(r) == [user |-> place[r][1], slot |-> place[r][2],
                            status |-> "active", start |-> 0,
                            rate |-> CurrentRate(100), end |-> None, cost |-> None]
  <1>2. /\ slots = [s \in Slots |-> IF s \in Seeded THEN row(s) ELSE None]
        /\ bookings = [r \in Requests |-> IF r \in Earlier THEN parking(r) ELSE None]
    BY <1>1 DEF InitDB
  <1>3. surge \in Int
    <2>1. Cardinality(Seeded) \in Nat /\ Cardinality(Seeded \ taken) \in Nat
      BY CountType, DBAssumption
    <2> QED BY <2>1, OccupancyAtMostOne, SurgeInt
  <1>4. \A s \in Seeded : row(s) \in SlotRow
    BY <1>3 DEF NewSlot, SlotRow, SlotStatus
  <1>5. Earlier \subseteq Requests /\ Seeded \subseteq Slots
    BY DBAssumption, SystemAssumption
  <1>6. /\ place \in [Earlier -> Users \X Seeded]
        /\ \A b, c \in Earlier :
               b # c => place[b][1] # place[c][1] /\ place[b][2] # place[c][2]
    BY DEF Places
  <1>7. \A r \in Earlier : /\ parking(r) \in Booking
                           /\ parking(r).user = place[r][1]
                           /\ parking(r).slot = place[r][2]
                           /\ parking(r).status = "active"
    BY <1>5, <1>6, CurrentRateInt DEF Booking, BookingStatus
  <1> HIDE DEF surge, row, parking
  <1>8. Existing = Seeded
    BY <1>2, <1>4, <1>5, NoneIsNotAValue DEF Existing
  <1>9. Active = Earlier
    BY <1>2, <1>5, <1>7, NoneIsNotAValue DEF Active
  <1>10. DataInv
    <2>1. DataTypes
      BY <1>2, <1>4, <1>7 DEF Init, DataTypes
    <2>2. BookingsReferToSlots
      BY <1>2, <1>6, <1>7, <1>8 DEF BookingsReferToSlots
    <2>3. ActiveBookingsExclusive
      BY <1>2, <1>5, <1>6, <1>7, <1>9 DEF ActiveBookingsExclusive
    <2> QED BY <2>1, <2>2, <2>3 DEF DataInv
  <1>11. ControlInv
    <2>1. ControlTypes
      BY NoJobType, NoSessionType DEF Init, ControlTypes, Steps, Answers
    <2>2. ASSUME NEW r \in Requests
          PROVE  Coherent(bookings, r, pc[r], job[r], sess[r])
      <3>1. /\ pc[r] = (IF r \in Earlier THEN "ok" ELSE "idle")
            /\ job[r] = NoJob /\ sess[r] = NoSession
        BY DEF Init, Procs
      <3>2. r \notin Earlier => bookings[r] = None
        BY <1>2
      <3> QED BY <3>1, <3>2 DEF Coherent, Working, NoSession
    <2> QED BY <2>1, <2>2 DEF ControlInv
  <1>12. Occ!Init
    <2>1. Parked \in SUBSET (Users \X Existing)
      BY <1>2, <1>5, <1>6, <1>7, <1>8, <1>9 DEF Parked
    <2>2. Occ!Exclusive
      BY <1>2, <1>5, <1>6, <1>7, <1>9 DEF Parked, Occ!Exclusive
    <2> QED BY <1>5, <1>8, <2>1, <2>2 DEF Occ!Init
  <1> QED BY <1>10, <1>11, <1>12 DEF IInv

-----------------------------------------------------------------------------
(* The theorems. *)

THEOREM Invariance == Spec => []IInv
  <1>1. Init => IInv
    BY InitKeeps
  <1>2. IInv /\ [Next]_vars => IInv'
    BY StepKeeps
  <1> QED BY <1>1, <1>2, PTL DEF Spec

\* Every variable keeps its type.
THEOREM TypeCorrect == Spec => []TypeOK
  <1>1. IInv => TypeOK
    BY DEF IInv, DataInv, DataTypes, ControlInv, ControlTypes, TypeOK, Steps
  <1> QED BY <1>1, Invariance, PTL

\* A slot never has two active bookings, nor a user: for any number of users, slots
\* and requests, with or without FOR UPDATE, whatever dies when.
THEOREM Exclusive == Spec => []ActiveBookingsExclusive
  <1>1. IInv => ActiveBookingsExclusive
    BY DEF IInv, DataInv
  <1> QED BY <1>1, Invariance, PTL

\* No booking refers to a slot that is gone, however a delete races with a booking.
THEOREM ReferencesKept == Spec => []BookingsReferToSlots
  <1>1. IInv => BookingsReferToSlots
    BY DEF IInv, DataInv
  <1> QED BY <1>1, Invariance, PTL

\* The system implements Occupancy: what a step does to the parked drivers and the
\* open slots is one parking, one leaving, one opening, one closing, or nothing.
THEOREM Implementation == Spec => ImplementsOccupancy
  <1>1. Init => Occ!Init
    BY InitKeeps
  <1>2. IInv /\ [Next]_vars => [Occ!Next]_<<Parked, Existing>>
    BY StepKeeps DEF OccStep
  <1> QED BY <1>1, <1>2, Invariance, PTL DEF Spec, ImplementsOccupancy, Occ!Spec

-----------------------------------------------------------------------------
(***************************************************************************)
(* The multipliers stored in the rows stay between 1 and the cap, whatever *)
(* counts reprice_all has put together, so no booking is made at a rate of *)
(* zero and each is billed at the rate frozen when it was made.            *)
(***************************************************************************)

\* Every row had its multiplier before, or is new and has the default.
SurgesKept ==
    \A s \in Slots : slots'[s] # None =>
        \/ slots[s] # None /\ slots'[s].surge = slots[s].surge
        \/ slots'[s].surge = 100

LEMMA KeptInRange ==
    ASSUME SurgeMax >= 100, SurgeInRange, SurgesKept
    PROVE  SurgeInRange'
  BY TariffAssumption DEF SurgesKept, SurgeInRange, Existing, AtLeast

LEMMA SameTables ==
    ASSUME slots' = slots
    PROVE  SurgesKept
  BY DEF SurgesKept

\* One row changes in columns other than the multiplier.
LEMMA OneRowKept ==
    ASSUME IInv, NEW s \in Slots, NEW row,
           slots' = [slots EXCEPT ![s] = row],
           \/ row.surge = slots[s].surge /\ slots[s] # None
           \/ row.surge = 100
           \/ row = None
    PROVE  SurgesKept
  <1>1. /\ slots'[s] = row
        /\ \A t \in Slots \ {s} : slots'[t] = slots[t]
    BY DEF IInv, DataInv, DataTypes
  <1> QED BY <1>1 DEF SurgesKept

LEMMA FlushKeepsSurge ==
    ASSUME NEW row \in SlotRow, NEW copy, NEW status
    PROVE  Flush(row, copy, status).surge = row.surge
  BY DEF Flush, SlotRow

LEMMA BookingSurge ==
    ASSUME IInv, NEW r \in Requests, BookStep(r) \/ ExitStep(r) \/ ReserveStep(r)
    PROVE  SurgesKept
  <1> DEFINE s == job[r].slot
  <1>1. CASE slots' = slots
    BY <1>1, SameTables
  <1>2. CASE BookCommit(r) /\ slots' # slots
    <2>1. /\ slots[s] # None
          /\ slots' = [slots EXCEPT ![s] = Flush(slots[s], sess[r].copy, "occupied")]
      BY <1>2 DEF BookCommit, Abandon, dbVars
    <2>2. s \in Slots /\ slots[s] \in SlotRow
      BY <1>2, <2>1, RequestAt DEF BookCommit, Coherent, Working, IInv, DataInv, DataTypes
    <2> QED BY <2>1, <2>2, FlushKeepsSurge, OneRowKept
  <1>3. CASE ExitCommit(r)
    <2>1. slots' = [slots EXCEPT ![s] = Flush(slots[s], sess[r].copy, "available")]
      BY <1>3 DEF ExitCommit
    <2>2. s \in Existing
      BY <1>3, RequestAt DEF ExitCommit, Coherent, Working, IInv, DataInv,
                             BookingsReferToSlots
    <2>3. s \in Slots /\ slots[s] # None /\ slots[s] \in SlotRow
      BY <2>2, ExistingRows DEF IInv, DataInv, Existing
    <2> QED BY <2>1, <2>3, FlushKeepsSurge, OneRowKept
  <1>4. CASE ReserveCommit(r) /\ slots' # slots
    <2> DEFINE row == [slots[s] EXCEPT !.status = "reserved", !.until = clock + HoldTicks]
    <2>1. /\ slots[s] # None
          /\ slots' = [slots EXCEPT ![s].status = "reserved",
                                    ![s].until = clock + HoldTicks]
      BY <1>4 DEF ReserveCommit, Abandon, dbVars
    <2>2. s \in Slots /\ slots[s] \in SlotRow
      BY <1>4, <2>1, RequestAt DEF ReserveCommit, Coherent, Working, IInv, DataInv,
                                   DataTypes
    <2>3. slots' = [slots EXCEPT ![s] = row]
      BY <2>1, <2>2 DEF IInv, DataInv, DataTypes
    <2>4. row.surge = slots[s].surge
      BY <2>2 DEF SlotRow
    <2> HIDE DEF row
    <2> QED BY <2>1, <2>2, <2>3, <2>4, OneRowKept
  <1>5. BookCommit(r) \/ ExitCommit(r) \/ ReserveCommit(r) \/ slots' = slots
    BY DEF BookStep, BookFromWeb, BookFromAPI, BookCheck, BookLock, ExitStep, ExitRead,
           ExitLock, ReserveStep, ReserveLock, Abandon, dbVars
  <1> QED BY <1>1, <1>2, <1>3, <1>4, <1>5

LEMMA AdminSurge ==
    ASSUME IInv, NEW r \in Requests, AdminStep(r)
    PROVE  SurgesKept
  <1> DEFINE s == job[r].slot
  <1>1. CASE slots' = slots
    BY <1>1, SameTables
  <1>2. CASE AddSlot(r) /\ slots' # slots
    <2>1. PICK number \in Numbers, t \in Slots : slots' = [slots EXCEPT ![t] = NewSlot(number)]
      BY <1>2 DEF AddSlot, Abandon, dbVars
    <2>2. NewSlot(number).surge = 100
      BY DEF NewSlot
    <2> QED BY <2>1, <2>2, OneRowKept
  <1>3. CASE ToggleCommit(r) /\ slots' # slots
    <2>1. slots[s] # None
      BY <1>3 DEF ToggleCommit, Abandon, dbVars
    <2>2. PICK target : slots' = [slots EXCEPT ![s] = Flush(slots[s], sess[r].copy, target)]
      BY <1>3 DEF ToggleCommit, Abandon, dbVars
    <2>3. s \in Slots /\ slots[s] \in SlotRow
      BY <1>3, <2>1, RequestAt DEF ToggleCommit, Coherent, Working, IInv, DataInv,
                                   DataTypes
    <2> QED BY <2>1, <2>2, <2>3, FlushKeepsSurge, OneRowKept
  <1>4. CASE DeleteCommit(r) /\ slots' # slots
    <2>1. slots' = [slots EXCEPT ![s] = None] /\ s \in Slots
      BY <1>4, RequestAt DEF DeleteCommit, Abandon, dbVars, Coherent, Working
    <2> QED BY <2>1, OneRowKept
  <1>5. AddSlot(r) \/ ToggleCommit(r) \/ DeleteCommit(r) \/ slots' = slots
    BY DEF AdminStep, ToggleRead, ToggleFind, DeleteRead, DeleteCount, Abandon, dbVars
  <1> QED BY <1>1, <1>2, <1>3, <1>4, <1>5

LEMMA SweepSurge ==
    ASSUME IInv, NEW t \in Tasks, SweepStep(t)
    PROVE  SurgesKept
  <1>1. CASE slots' = slots
    BY <1>1, SameTables
  <1>2. CASE SweepCommit(t) /\ slots' # slots
    <2> DEFINE batch == sess[t].batch
               freed(s) == [slots[s] EXCEPT !.status = "available", !.until = None]
    <2>1. /\ \A s \in batch : slots[s] # None
          /\ slots' = [s \in Slots |-> IF s \in batch THEN freed(s) ELSE slots[s]]
      BY <1>2 DEF SweepCommit, Abandon, dbVars, Freed
    <2>2. \A s \in Slots : slots[s] # None => freed(s).surge = slots[s].surge
      BY DEF IInv, DataInv, DataTypes, SlotRow
    <2> HIDE DEF freed, batch
    <2> QED BY <2>1, <2>2 DEF SurgesKept
  <1>3. SweepCommit(t) \/ slots' = slots
    BY DEF SweepStep, SweepRead, dbVars
  <1> QED BY <1>1, <1>2, <1>3

\* The multiplier written is that of some pair of counts: of any pair.
LEMMA RepriceSurge ==
    ASSUME SurgeMax >= 100, IInv, SurgeInRange, NEW p \in Procs, RepriceStep(p)
    PROVE  SurgeInRange'
  <1>1. CASE CountTotal(p) \/ CountFree(p)
    BY <1>1, SameTables, KeptInRange DEF CountTotal, CountFree, dbVars
  <1>2. CASE WriteSurge(p)
    <2> DEFINE surge == ComputeSurge(OccupancyRatio(sess[p].total, sess[p].free))
    <2>1. surge \in 100 .. SurgeMax /\ surge \in Int
      BY StoredSurge, SurgeBetweenOneAndCap
    <2>2. slots' = Repriced(surge)
      BY <1>2 DEF WriteSurge
    <2> HIDE DEF surge
    <2>3. \A s \in Existing : [slots[s] EXCEPT !.surge = surge].surge = surge
      BY DEF Existing, IInv, DataInv, DataTypes, SlotRow
    <2>4. \A s \in Slots : slots'[s] # None => slots'[s].surge = surge
      BY <2>2, <2>3 DEF Repriced, Existing
    <2> QED BY <2>1, <2>4, TariffAssumption DEF SurgeInRange, Existing, AtLeast
  <1> QED BY <1>1, <1>2 DEF RepriceStep

LEMMA InitSurge ==
    ASSUME SurgeMax >= 100, Init
    PROVE  SurgeInRange
  <1>1. PICK number \in [Seeded -> Numbers], place \in Places : InitDB(number, place)
    BY DEF Init
  <1> DEFINE taken == {place[b][2] : b \in Earlier}
             surge == ComputeSurge(OccupancyRatio(Cardinality(Seeded),
                                                  Cardinality(Seeded \ taken)))
             row(s) == [NewSlot(number[s]) EXCEPT
                           !.status = IF s \in taken THEN "occupied" ELSE @,
                           !.surge = surge]
  <1>2. slots = [s \in Slots |-> IF s \in Seeded THEN row(s) ELSE None]
    BY <1>1 DEF InitDB
  <1>3. surge \in 100 .. SurgeMax
    <2>1. Cardinality(Seeded) \in Nat /\ Cardinality(Seeded \ taken) \in Nat
      BY CountType, DBAssumption
    <2> QED BY <2>1, OccupancyAtMostOne, SurgeBetweenOneAndCap
  <1> HIDE DEF surge
  <1>4. \A s : row(s).surge = surge
    BY DEF NewSlot
  <1> HIDE DEF row
  <1> QED BY <1>2, <1>3, <1>4, TariffAssumption DEF SurgeInRange, Existing, AtLeast

LEMMA SurgeStep ==
    ASSUME SurgeMax >= 100, IInv, SurgeInRange, [Next]_vars
    PROVE  SurgeInRange'
  <1>1. ASSUME NEW r \in Requests,
               BookStep(r) \/ ExitStep(r) \/ ReserveStep(r) \/ AdminStep(r)
        PROVE  SurgeInRange'
    BY <1>1, BookingSurge, AdminSurge, KeptInRange
  <1>2. ASSUME NEW p \in Procs, RepriceStep(p)
        PROVE  SurgeInRange'
    BY <1>2, RepriceSurge
  <1>3. ASSUME NEW t \in Tasks, SweepStep(t)
        PROVE  SurgeInRange'
    BY <1>3, SweepSurge, KeptInRange
  <1>4. ASSUME NEW p \in Procs, Crash(p)
        PROVE  SurgeInRange'
    BY <1>4, SameTables, KeptInRange DEF Crash, Abandon, dbVars
  <1>5. CASE Tick \/ Done \/ UNCHANGED vars
    BY <1>5, SameTables, KeptInRange DEF Tick, Done, vars, dbVars
  <1> QED BY <1>1, <1>2, <1>3, <1>4, <1>5 DEF Next

\* With a cap of at least 1, no slot is ever priced below its base rate or above the
\* cap: for any number of requests and tasks that reprice at once.
THEOREM SurgeBounded == ASSUME SurgeMax >= 100 PROVE Spec => []SurgeInRange
  <1>1. Init => SurgeInRange
    BY InitSurge
  <1>2. IInv /\ SurgeInRange /\ [Next]_vars => SurgeInRange'
    BY SurgeStep
  <1> QED BY <1>1, <1>2, Invariance, PTL DEF Spec

-----------------------------------------------------------------------------
(* Bills. *)

\* The slot objects in hand had a multiplier of at least 1.
CopiesInRange ==
    \A p \in Procs : sess[p].copy # None =>
        sess[p].copy \in SlotRow /\ sess[p].copy.surge >= 100

\* A booking that is not free, and if it is completed is billed at its rate.
AtRate(booking) ==
    /\ booking.rate # 0
    /\ booking.status = "completed" =>
          booking.cost = Fare((booking.end - booking.start) * TickSeconds, booking.rate)

RatesInv == \A b \in Requests : bookings[b] # None => AtRate(bookings[b])

BillInv == SurgeInRange /\ CopiesInRange /\ RatesInv

\* One process takes a row in hand, keeps the one it had, or drops it.
LEMMA OneInHand ==
    ASSUME IInv, SurgeInRange, CopiesInRange, NEW p \in Procs, NEW contents,
           sess' = [sess EXCEPT ![p] = contents],
           \/ contents.copy = None
           \/ contents.copy = sess[p].copy
           \/ \E s \in Existing : contents.copy = slots[s]
    PROVE  CopiesInRange'
  <1>1. /\ sess'[p] = contents
        /\ \A q \in Procs \ {p} : sess'[q] = sess[q]
    BY DEF IInv, ControlInv, ControlTypes
  <1>2. \A s \in Existing : slots[s] \in SlotRow /\ slots[s].surge >= 100
    <2>1. ASSUME NEW s \in Existing
          PROVE  slots[s] \in SlotRow /\ slots[s].surge >= 100
      <3>1. slots[s].surge \in 100 .. AtLeast(SurgeMax, 100)
        BY DEF SurgeInRange
      <3>2. AtLeast(SurgeMax, 100) \in Int
        BY TariffAssumption DEF AtLeast
      <3>3. slots[s] \in SlotRow
        BY ExistingRows DEF IInv, DataInv
      <3> QED BY <3>1, <3>2, <3>3
    <2> QED BY <2>1
  <1>3. contents.copy # None => contents.copy \in SlotRow /\ contents.copy.surge >= 100
    BY <1>2 DEF CopiesInRange
  <1> QED BY <1>1, <1>3 DEF CopiesInRange

LEMMA SameInHand ==
    ASSUME CopiesInRange, sess' = sess
    PROVE  CopiesInRange'
  BY DEF CopiesInRange

LEMMA RequestCopies ==
    ASSUME IInv, SurgeInRange, CopiesInRange, NEW r \in Requests,
           BookStep(r) \/ ExitStep(r) \/ ReserveStep(r) \/ AdminStep(r)
    PROVE  CopiesInRange'
  <1>1. r \in Procs /\ sess[r] \in Session /\ NoSession.copy = None
    BY RequestAt DEF NoSession
  <1>2. ASSUME NEW contents, sess' = [sess EXCEPT ![r] = contents],
               \/ contents.copy = None
               \/ contents.copy = sess[r].copy
               \/ \E s \in Existing : contents.copy = slots[s]
        PROVE  CopiesInRange'
    BY <1>1, <1>2, OneInHand
  <1>3. ASSUME sess' = [sess EXCEPT ![r] = NoSession] PROVE CopiesInRange'
    BY <1>1, <1>2, <1>3
  <1>4. ASSUME sess' = [sess EXCEPT ![r] = sess[r]] PROVE CopiesInRange'
    BY <1>2, <1>4
  <1>5. ASSUME NEW s \in Slots, slots[s] # None,
               sess' = [sess EXCEPT ![r] = [NoSession EXCEPT !.copy = slots[s]]]
        PROVE  CopiesInRange'
    <2>1. [NoSession EXCEPT !.copy = slots[s]].copy = slots[s] /\ s \in Existing
      BY <1>5 DEF NoSession, Existing
    <2> QED BY <1>2, <1>5, <2>1
  <1>6. ASSUME BookFromWeb(r) PROVE CopiesInRange'
    BY <1>3, <1>5, <1>6 DEF BookFromWeb, Abandon, Finish, Enter, Continue
  <1>7. ASSUME BookFromAPI(r) \/ BookCheck(r) \/ BookCommit(r) PROVE CopiesInRange'
    BY <1>3, <1>4, <1>7 DEF BookFromAPI, BookCheck, BookCommit, Abandon, Finish, Enter, Continue
  <1>8. ASSUME BookLock(r) PROVE CopiesInRange'
    <2> DEFINE s == job[r].slot
               slot == IF sess[r].copy = None THEN slots[s] ELSE sess[r].copy
    <2>1. CASE sess' = [sess EXCEPT ![r] = NoSession]
      BY <1>3, <2>1
    <2>2. CASE slots[s] # None /\ sess' = [sess EXCEPT ![r] = [sess[r] EXCEPT !.copy = slot]]
      <3>1. [sess[r] EXCEPT !.copy = slot].copy = slot
        BY <1>1 DEF Session
      <3>2. s \in Slots
        BY <1>8, RequestAt DEF BookLock, Coherent, Working
      <3>3. slot = sess[r].copy \/ \E t \in Existing : slot = slots[t]
        BY <2>2, <3>2 DEF Existing
      <3> HIDE DEF slot
      <3> QED BY <1>2, <2>2, <3>1, <3>3
    <2> QED BY <1>8, <2>1, <2>2 DEF BookLock, Abandon, Finish, Continue
  <1>9. ASSUME ExitRead(r) \/ ExitCommit(r) PROVE CopiesInRange'
    BY <1>3, <1>9 DEF ExitRead, ExitCommit, Abandon, Finish, Enter, Continue
  <1>10. ASSUME ExitLock(r) PROVE CopiesInRange'
    <2> DEFINE s == job[r].slot
               contents == [NoSession EXCEPT !.copy = slots[s], !.end = clock]
    <2>1. sess' = [sess EXCEPT ![r] = contents]
      BY <1>10 DEF ExitLock, Continue
    <2>2. s \in Existing
      BY <1>10, RequestAt DEF ExitLock, Coherent, Working, IInv, DataInv,
                              BookingsReferToSlots
    <2>3. contents.copy = slots[s]
      BY DEF NoSession
    <2> HIDE DEF contents
    <2> QED BY <1>2, <2>1, <2>2, <2>3
  <1>11. ASSUME ReserveLock(r) \/ ReserveCommit(r) PROVE CopiesInRange'
    BY <1>3, <1>11 DEF ReserveLock, ReserveCommit, Abandon, Finish, Enter, Continue
  <1>12. ASSUME AddSlot(r) \/ ToggleCommit(r) \/ DeleteRead(r) \/ DeleteCount(r) \/ DeleteCommit(r)
         PROVE  CopiesInRange'
    BY <1>3, <1>4, <1>12 DEF AddSlot, ToggleCommit, DeleteRead, DeleteCount, DeleteCommit,
                            Abandon, Finish, Enter, Continue
  <1>13. ASSUME ToggleRead(r) PROVE CopiesInRange'
    BY <1>3, <1>5, <1>13 DEF ToggleRead, Abandon, Finish, Enter, Continue
  <1>14. ASSUME ToggleFind(r) PROVE CopiesInRange'
    <2>1. PICK b : sess' = [sess EXCEPT ![r] = [sess[r] EXCEPT !.found = b]]
      BY <1>14 DEF ToggleFind, Continue
    <2>2. [sess[r] EXCEPT !.found = b].copy = sess[r].copy
      BY <1>1 DEF Session
    <2> QED BY <1>2, <2>1, <2>2
  <1> QED BY <1>6, <1>7, <1>8, <1>9, <1>10, <1>11, <1>12, <1>13, <1>14
          DEF BookStep, ExitStep, ReserveStep, AdminStep

LEMMA OtherCopies ==
    ASSUME IInv, SurgeInRange, CopiesInRange, NEW p \in Procs,
           RepriceStep(p) \/ Crash(p) \/ (p \in Tasks /\ SweepStep(p))
    PROVE  CopiesInRange'
  <1>1. sess[p] \in Session /\ NoSession.copy = None
    BY DEF IInv, ControlInv, ControlTypes, NoSession
  <1>2. ASSUME NEW contents, sess' = [sess EXCEPT ![p] = contents],
               contents.copy = None \/ contents.copy = sess[p].copy
        PROVE  CopiesInRange'
    BY <1>2, OneInHand
  <1>3. CASE CountTotal(p)
    <2>1. sess' = [sess EXCEPT ![p] = [NoSession EXCEPT !.total = Cardinality(Existing)]]
      BY <1>3 DEF CountTotal, Continue
    <2>2. [NoSession EXCEPT !.total = Cardinality(Existing)].copy = None
      BY DEF NoSession
    <2> QED BY <1>2, <2>1, <2>2
  <1>4. CASE CountFree(p)
    <2>1. sess' = [sess EXCEPT ![p] = [sess[p] EXCEPT !.free = Cardinality(FreeSlots)]]
      BY <1>4 DEF CountFree, Continue
    <2>2. [sess[p] EXCEPT !.free = Cardinality(FreeSlots)].copy = sess[p].copy
      BY <1>1 DEF Session
    <2> QED BY <1>2, <2>1, <2>2
  <1>5. CASE SweepRead(p)
    <2>1. PICK batch : sess' = [sess EXCEPT ![p] = [NoSession EXCEPT !.batch = batch]]
      BY <1>5 DEF SweepRead, Continue
    <2>2. [NoSession EXCEPT !.batch = batch].copy = None
      BY DEF NoSession
    <2> QED BY <1>2, <2>1, <2>2
  <1>6. CASE WriteSurge(p) \/ SweepCommit(p) \/ Crash(p)
    <2>1. sess' = [sess EXCEPT ![p] = NoSession]
      BY <1>6 DEF WriteSurge, SweepCommit, Crash, Abandon, Finish
    <2> QED BY <1>1, <1>2, <2>1
  <1> QED BY <1>3, <1>4, <1>5, <1>6 DEF RepriceStep, SweepStep

\* One booking is inserted or written.
LEMMA OneBooking ==
    ASSUME IInv, RatesInv, NEW b \in Requests, NEW row, AtRate(row),
           bookings' = [bookings EXCEPT ![b] = row]
    PROVE  RatesInv'
  <1>1. /\ bookings'[b] = row
        /\ \A c \in Requests \ {b} : bookings'[c] = bookings[c]
    BY DEF IInv, DataInv, DataTypes
  <1> QED BY <1>1 DEF RatesInv, AtRate

LEMMA SameBookings ==
    ASSUME RatesInv, bookings' = bookings
    PROVE  RatesInv'
  BY DEF RatesInv

\* A booking is made at a rate that is not zero, closed at its own, and cancelled
\* without a bill.
LEMMA RequestBills ==
    ASSUME IInv, BillInv, NEW r \in Requests,
           BookStep(r) \/ ExitStep(r) \/ ReserveStep(r) \/ AdminStep(r)
    PROVE  RatesInv'
  <1>1. /\ RatesInv /\ CopiesInRange /\ r \in Procs
        /\ Coherent(bookings, r, pc[r], job[r], sess[r])
        /\ DataTypes
    BY RequestAt DEF BillInv, IInv, DataInv
  <1>2. CASE bookings' = bookings
    BY <1>1, <1>2, SameBookings
  <1>3. CASE BookCommit(r) /\ bookings' # bookings
    <2> DEFINE row == NewBooking(job[r].user, job[r].slot, sess[r].copy.surge)
    <2>1. bookings' = [bookings EXCEPT ![r] = row]
      BY <1>3 DEF BookCommit, Abandon, dbVars
    <2>2. sess[r].copy \in SlotRow /\ sess[r].copy # None
      BY <1>1, <1>3, NoneIsNotAValue DEF BookCommit, Coherent, BookOps
    <2>3. sess[r].copy.surge \in Int /\ sess[r].copy.surge >= 100
      BY <1>1, <2>2 DEF CopiesInRange, SlotRow
    <2>4. AtRate(row)
      BY <2>3, CurrentRatePositive DEF NewBooking, AtRate
    <2> HIDE DEF row
    <2> QED BY <1>1, <2>1, <2>4, OneBooking
  <1>4. CASE ExitCommit(r)
    <2> DEFINE b == job[r].booking
               booking == bookings[b]
               row == Closed(booking, sess[r].copy, sess[r].end)
    <2>1. bookings' = [bookings EXCEPT ![b] = row]
      BY <1>4 DEF ExitCommit
    <2>2. b \in Requests /\ booking # None /\ booking \in Booking
      BY <1>1, <1>4 DEF ExitCommit, Coherent, Working, DataTypes
    <2>3. booking.rate # 0
      BY <1>1, <2>2 DEF RatesInv, AtRate
    <2> HIDE DEF booking
    <2>4. RateOf(booking, sess[r].copy) = booking.rate
      BY <2>3 DEF RateOf
    <2>5. row = [booking EXCEPT !.status = "completed", !.end = sess[r].end,
                    !.cost = Fare((sess[r].end - booking.start) * TickSeconds, booking.rate)]
      BY <2>4 DEF Closed
    <2>6. /\ row.rate = booking.rate /\ row.start = booking.start /\ row.end = sess[r].end
          /\ row.cost = Fare((sess[r].end - booking.start) * TickSeconds, booking.rate)
      BY <2>2, <2>5 DEF Booking
    <2> HIDE DEF row
    <2>7. AtRate(row)
      BY <2>3, <2>6 DEF AtRate
    <2> QED BY <1>1, <2>1, <2>2, <2>7, OneBooking
  <1>5. CASE ToggleCommit(r) /\ bookings' # bookings
    <2> DEFINE b == sess[r].found
               row == Cancelled(bookings[b])
    <2>1. b # None /\ bookings' = [bookings EXCEPT ![b] = row]
      BY <1>5 DEF ToggleCommit, Abandon, dbVars
    <2>2. b \in Requests /\ bookings[b] # None /\ bookings[b] \in Booking
      BY <1>1, <2>1, RequestAt DEF Coherent, Session, DataTypes
    <2>3. row.rate = bookings[b].rate /\ row.status = "cancelled"
      BY <2>2 DEF Cancelled, Booking
    <2> HIDE DEF row
    <2>4. AtRate(row)
      BY <1>1, <2>2, <2>3 DEF RatesInv, AtRate
    <2> QED BY <1>1, <2>1, <2>2, <2>4, OneBooking
  <1>6. BookCommit(r) \/ ExitCommit(r) \/ ToggleCommit(r) \/ bookings' = bookings
    BY DEF BookStep, BookFromWeb, BookFromAPI, BookCheck, BookLock, ExitStep, ExitRead,
           ExitLock, ReserveStep, ReserveLock, ReserveCommit, AdminStep, AddSlot, ToggleRead,
           ToggleFind, DeleteRead, DeleteCount, DeleteCommit, Abandon, dbVars
  <1> QED BY <1>2, <1>3, <1>4, <1>5, <1>6

LEMMA BillsInit ==
    ASSUME SurgeMax >= 100, Init
    PROVE  BillInv
  <1>1. SurgeInRange
    BY InitSurge
  <1>2. CopiesInRange
    BY DEF Init, CopiesInRange, NoSession
  <1>3. RatesInv
    <2>1. PICK number \in [Seeded -> Numbers], place \in Places : InitDB(number, place)
      BY DEF Init
    <2>2. ASSUME NEW b \in Requests, bookings[b] # None
          PROVE  bookings[b].rate = CurrentRate(100) /\ bookings[b].status = "active"
      BY <2>1, <2>2 DEF InitDB
    <2>3. CurrentRate(100) # 0
      BY CurrentRatePositive
    <2> QED BY <2>2, <2>3 DEF RatesInv, AtRate
  <1> QED BY <1>1, <1>2, <1>3 DEF BillInv

\* With a cap of at least 1, a completed booking is billed at the rate frozen when it
\* was made: that rate is never zero, so the fallback of exit_booking to the rate of
\* the moment is never taken, whatever reprices during the stay.
THEOREM BilledAtItsRate == ASSUME SurgeMax >= 100 PROVE Spec => []BilledAtBookedRate
  <1>1. Init => BillInv
    BY BillsInit
  <1>2. IInv /\ BillInv /\ [Next]_vars => BillInv'
    <2> SUFFICES ASSUME IInv, BillInv, [Next]_vars
                 PROVE  BillInv'
      OBVIOUS
    <2>1. SurgeInRange /\ CopiesInRange /\ RatesInv /\ SurgeInRange'
      BY SurgeStep DEF BillInv
    <2>2. ASSUME NEW r \in Requests,
                 BookStep(r) \/ ExitStep(r) \/ ReserveStep(r) \/ AdminStep(r)
          PROVE  CopiesInRange' /\ RatesInv'
      BY <2>1, <2>2, RequestCopies, RequestBills
    <2>3. ASSUME NEW p \in Procs, RepriceStep(p) \/ Crash(p) \/ (p \in Tasks /\ SweepStep(p))
          PROVE  CopiesInRange' /\ RatesInv'
      <3>1. bookings' = bookings
        BY <2>3 DEF RepriceStep, CountTotal, CountFree, WriteSurge, Crash, SweepStep,
                    SweepRead, SweepCommit, Abandon, dbVars
      <3> QED BY <2>1, <2>3, <3>1, OtherCopies, SameBookings
    <2>4. ASSUME Tick \/ Done \/ UNCHANGED vars
          PROVE  CopiesInRange' /\ RatesInv'
      <3>1. sess' = sess /\ bookings' = bookings
        BY <2>4 DEF Tick, Done, vars, dbVars
      <3> QED BY <2>1, <3>1, SameInHand, SameBookings
    <2>5. CopiesInRange' /\ RatesInv'
      BY <2>2, <2>3, <2>4 DEF Next, Procs
    <2> QED BY <2>1, <2>5 DEF BillInv
  <1>3. BillInv => BilledAtBookedRate
    BY DEF BillInv, RatesInv, AtRate, BilledAtBookedRate
  <1> QED BY <1>1, <1>2, <1>3, Invariance, PTL DEF Spec

-----------------------------------------------------------------------------
(***************************************************************************)
(* Row locks: who holds one has its commit to make and waits for nobody,   *)
(* so those who wait are at most one step from the head of the queue.      *)
(***************************************************************************)

\* The rows whose locks the next statement of p asks for.
Wanted(p) ==
    IF pc[p] \in {"lock", "commit"} THEN {job[p].slot} \cup sess[p].batch
    ELSE IF pc[p] = "surge" THEN Existing
    ELSE {}

WaitsFor(p, q) == p # q /\ \E s \in Wanted(p) \cap Slots : rowLock[s] = q

\* A lock is held by a request between its SELECT ... FOR UPDATE and its commit only, and
\* whoever somebody waits for does not wait itself: no answer, refusal or crash leaves a
\* lock behind, and no requests wait for each other (_lock_slot, reprice_all, the sweep).
LocksAreBrief ==
    /\ \A s \in Slots, p \in Procs : rowLock[s] = p => pc[p] = "commit" /\ job[p].slot = s
    /\ \A p, q \in Procs : WaitsFor(p, q) => InFlight(q) /\ \A o \in Procs : ~WaitsFor(q, o)

\* The operations that lock, and where they are with a lock.
Held ==
    \A s \in Slots, p \in Procs : rowLock[s] = p =>
        /\ p \in Requests /\ pc[p] = "commit" /\ job[p].slot = s
        /\ sess[p].batch = {}

\* Only the sweep has slots in its batch.
Batches == \A r \in Requests : sess[r].batch = {}

BriefInv == Held /\ Batches

\* p moves to a step without a lock, and takes none.
LEMMA MovesOn ==
    ASSUME IInv, BriefInv, NEW p \in Procs, NEW k, NEW c,
           pc' = [pc EXCEPT ![p] = k], sess' = [sess EXCEPT ![p] = c],
           \A q \in Procs \ {p} : job'[q] = job[q],
           p \in Requests => c.batch = {},
           \/ rowLock' = LocksWithout(p)
           \/ rowLock' = rowLock /\ pc[p] # "commit"
           \/ \E s \in Slots : /\ rowLock' = rowLock \/ rowLock' = [rowLock EXCEPT ![s] = p]
                               /\ p \in Requests /\ pc[p] # "commit"
                               /\ k = "commit" /\ job'[p].slot = s
    PROVE  BriefInv'
  <1>1. /\ pc \in [Procs -> Steps] /\ sess \in [Procs -> Session]
        /\ rowLock \in [Slots -> Procs \cup {None}] /\ Requests \subseteq Procs
        /\ None \notin Procs
    BY DBAssumption DEF IInv, ControlInv, ControlTypes, Procs
  <1>2. /\ pc'[p] = k /\ sess'[p] = c
        /\ \A q \in Procs \ {p} : pc'[q] = pc[q] /\ sess'[q] = sess[q] /\ job'[q] = job[q]
    BY <1>1
  <1>3. Batches'
    BY <1>1, <1>2 DEF BriefInv, Batches
  <1>4. ASSUME NEW s \in Slots, NEW q \in Procs, q # p, rowLock'[s] = q
        PROVE  rowLock[s] = q
    BY <1>1, <1>4 DEF LocksWithout
  <1>5. ASSUME NEW s \in Slots, rowLock'[s] = p
        PROVE  p \in Requests /\ k = "commit" /\ job'[p].slot = s
    <2>1. pc[p] # "commit" => rowLock[s] # p
      BY DEF BriefInv, Held
    <2>2. CASE rowLock' = LocksWithout(p)
      BY <1>1, <1>5, <2>2 DEF LocksWithout
    <2>3. CASE rowLock' = rowLock /\ pc[p] # "commit"
      BY <1>5, <2>1, <2>3
    <2>4. ASSUME NEW t \in Slots, rowLock' = rowLock \/ rowLock' = [rowLock EXCEPT ![t] = p],
                 p \in Requests, pc[p] # "commit", k = "commit", job'[p].slot = t
          PROVE  p \in Requests /\ k = "commit" /\ job'[p].slot = s
      BY <1>1, <1>5, <2>1, <2>4
    <2> QED BY <2>2, <2>3, <2>4
  <1>6. Held'
    <2> SUFFICES ASSUME NEW s \in Slots, NEW q \in Procs, rowLock'[s] = q
                 PROVE  /\ q \in Requests /\ pc'[q] = "commit" /\ job'[q].slot = s
                        /\ sess'[q].batch = {}
      BY DEF Held
    <2>1. CASE q = p
      BY <1>2, <1>5, <2>1
    <2>2. CASE q # p
      BY <1>2, <1>4, <2>2 DEF BriefInv, Held
    <2> QED BY <2>1, <2>2
  <1> QED BY <1>3, <1>6 DEF BriefInv

LEMMA FinishReleases ==
    ASSUME IInv, BriefInv, NEW p \in Procs, NEW answer, Finish(p, answer)
    PROVE  BriefInv'
  <1>1. \A q \in Procs \ {p} : job'[q] = job[q]
    BY DEF Finish, IInv, ControlInv, ControlTypes
  <1>2. NoSession.batch = {}
    BY DEF NoSession
  <1> DEFINE k == IF p \in Tasks THEN "idle" ELSE answer
  <1>3. /\ pc' = [pc EXCEPT ![p] = k] /\ sess' = [sess EXCEPT ![p] = NoSession]
        /\ rowLock' = LocksWithout(p)
    BY DEF Finish
  <1> HIDE DEF k
  <1> QED BY <1>1, <1>2, <1>3, MovesOn

\* The steps that are over, or that go on with nothing locked and nothing asked for.
LEMMA GoesOn ==
    ASSUME IInv, BriefInv, NEW p \in Procs, NEW k, NEW c, Continue(p, k, c),
           UNCHANGED job, p \in Requests => c.batch = {},
           \/ rowLock' = LocksWithout(p)
           \/ rowLock' = rowLock /\ pc[p] # "commit"
           \/ p \in Requests /\ pc[p] # "commit" /\ k = "commit" /\ Lock(p, job[p].slot)
              /\ job[p].slot \in Slots
    PROVE  BriefInv'
  BY MovesOn DEF Continue, Lock

LEMMA Starts ==
    ASSUME IInv, BriefInv, NEW r \in Requests, NEW j \in Job, NEW k, NEW c, Enter(r, j, k, c),
           pc[r] = "idle", c.batch = {},
           \/ rowLock' = rowLock
           \/ k = "commit" /\ j.slot \in Slots /\ Lock(r, j.slot)
    PROVE  BriefInv'
  <1>1. r \in Procs
    BY DEF Procs
  <1>2. job'[r] = j /\ \A q \in Procs \ {r} : job'[q] = job[q]
    BY <1>1 DEF Enter, IInv, ControlInv, ControlTypes
  <1>3. /\ pc' = [pc EXCEPT ![r] = k] /\ sess' = [sess EXCEPT ![r] = c]
    BY DEF Enter, Continue
  <1> QED BY <1>1, <1>2, <1>3, MovesOn DEF Lock

LEMMA BriefStep ==
    ASSUME IInv, BriefInv, [Next]_vars
    PROVE  BriefInv'
  <1>0. Requests \subseteq Procs
    BY DEF Procs
  <1>1. NoSession.batch = {}
    BY DEF NoSession
  <1>2. \A p \in Procs : sess[p] \in Session /\ (p \in Requests => sess[p].batch = {})
    BY DEF IInv, ControlInv, ControlTypes, BriefInv, Batches
  <1>3. ASSUME NEW p \in Procs, NEW answer, Abandon(p, answer) \/ Finish(p, answer)
        PROVE  BriefInv'
    BY <1>3, FinishReleases DEF Abandon
  <1>4. ASSUME NEW r \in Requests, BookStep(r)
        PROVE  BriefInv'
    <2>1. CASE BookFromWeb(r) \/ BookFromAPI(r)
      <3>1. CASE Abandon(r, "rejected")
        BY <1>0, <1>3, <3>1
      <3>2. CASE ~Abandon(r, "rejected")
        <4>1. PICK u \in Users, s \in Slots, op \in BookOps : \E copy :
                  /\ Begin(r, op, u)
                  /\ Enter(r, Arguments(op, u, s, None), "check",
                           [NoSession EXCEPT !.copy = copy])
                  /\ rowLock' = rowLock
          <5>1. NoSession = [NoSession EXCEPT !.copy = None]
            BY DEF NoSession
          <5> QED BY <2>1, <3>2, <5>1 DEF BookFromWeb, BookFromAPI, BookOps
        <4>2. PICK copy : /\ Begin(r, op, u)
                          /\ Enter(r, Arguments(op, u, s, None), "check",
                                   [NoSession EXCEPT !.copy = copy])
                          /\ rowLock' = rowLock
          BY <4>1
        <4>3. Arguments(op, u, s, None) \in Job
          BY DEF Arguments, Job, Operations, BookOps
        <4>4. [NoSession EXCEPT !.copy = copy].batch = {}
          BY DEF NoSession
        <4> QED BY <4>2, <4>3, <4>4, Starts DEF Begin
      <3> QED BY <3>1, <3>2
    <2>2. CASE BookCheck(r)
      BY <1>0, <1>2, <1>3, <2>2, GoesOn DEF BookCheck
    <2>3. CASE BookLock(r)
      <3> DEFINE slot == IF sess[r].copy = None THEN slots[job[r].slot] ELSE sess[r].copy
                 c == [sess[r] EXCEPT !.copy = slot]
      <3>1. CASE Abandon(r, "rejected")
        BY <1>0, <1>3, <3>1
      <3>2. CASE ~Abandon(r, "rejected")
        <4>1. pc[r] = "lock" /\ Lock(r, job[r].slot) /\ Continue(r, "commit", c) /\ UNCHANGED job
          BY <2>3, <3>2 DEF BookLock
        <4>2. c.batch = {}
          BY <1>0, <1>2 DEF Session
        <4>3. job[r].slot \in Slots
          BY <4>1 DEF IInv, ControlInv, Coherent, Working
        <4> HIDE DEF c
        <4> QED BY <1>0, <4>1, <4>2, <4>3, GoesOn
      <3> QED BY <3>1, <3>2
    <2>4. CASE BookCommit(r)
      <3>1. CASE Abandon(r, "rejected") \/ Abandon(r, "error")
        BY <1>0, <1>3, <3>1
      <3>2. CASE ~(Abandon(r, "rejected") \/ Abandon(r, "error"))
        BY <1>0, <1>1, <2>4, <3>2, GoesOn DEF BookCommit
      <3> QED BY <3>1, <3>2
    <2> QED BY <1>4, <2>1, <2>2, <2>3, <2>4 DEF BookStep
  <1>5. ASSUME NEW r \in Requests, ExitStep(r)
        PROVE  BriefInv'
    <2>1. CASE ExitRead(r)
      <3>1. CASE Abandon(r, "rejected")
        BY <1>0, <1>3, <3>1
      <3>2. CASE ~Abandon(r, "rejected")
        <4>1. PICK u \in Users, b \in Requests :
                  /\ bookings[b] # None /\ Begin(r, "exit", u)
                  /\ Enter(r, Arguments("exit", u, bookings[b].slot, b), "lock", NoSession)
                  /\ rowLock' = rowLock
          BY <2>1, <3>2 DEF ExitRead
        <4>2. Arguments("exit", u, bookings[b].slot, b) \in Job
          BY <4>1 DEF Arguments, Job, Operations, Booking, IInv, DataInv, DataTypes
        <4> QED BY <1>1, <4>1, <4>2, Starts DEF Begin
      <3> QED BY <3>1, <3>2
    <2>2. CASE ExitLock(r)
      <3> DEFINE c == [NoSession EXCEPT !.copy = slots[job[r].slot], !.end = clock]
      <3>1. pc[r] = "lock" /\ Lock(r, job[r].slot) /\ Continue(r, "commit", c) /\ UNCHANGED job
        BY <2>2 DEF ExitLock
      <3>2. c.batch = {}
        BY DEF NoSession
      <3>3. job[r].slot \in Slots
        BY <3>1 DEF IInv, ControlInv, Coherent, Working
      <3> HIDE DEF c
      <3> QED BY <1>0, <3>1, <3>2, <3>3, GoesOn
    <2>3. CASE ExitCommit(r)
      BY <1>0, <1>1, <2>3, GoesOn DEF ExitCommit
    <2> QED BY <1>5, <2>1, <2>2, <2>3 DEF ExitStep
  <1>6. ASSUME NEW r \in Requests, ReserveStep(r)
        PROVE  BriefInv'
    <2>1. CASE ReserveLock(r)
      <3>1. CASE Abandon(r, "rejected")
        BY <1>0, <1>3, <3>1
      <3>2. CASE ~Abandon(r, "rejected")
        <4>1. PICK u \in Users, s \in Slots :
                  /\ Begin(r, "reserve", u) /\ Lock(r, s)
                  /\ Enter(r, Arguments("reserve", u, s, None), "commit", NoSession)
          BY <2>1, <3>2 DEF ReserveLock
        <4>2. Arguments("reserve", u, s, None) \in Job
              /\ Arguments("reserve", u, s, None).slot = s
          BY DEF Arguments, Job, Operations
        <4> QED BY <1>1, <4>1, <4>2, Starts DEF Begin
      <3> QED BY <3>1, <3>2
    <2>2. CASE ReserveCommit(r)
      BY <1>0, <1>3, <2>2 DEF ReserveCommit
    <2> QED BY <1>6, <2>1, <2>2 DEF ReserveStep
  <1>7. ASSUME NEW r \in Requests, AdminStep(r)
        PROVE  BriefInv'
    <2>1. CASE ToggleRead(r) /\ ~Abandon(r, "rejected")
      <3>1. PICK s \in Slots : \E k \in {"find", "commit"} :
                /\ Begin(r, "toggle", None)
                /\ Enter(r, Arguments("toggle", None, s, None), k,
                         [NoSession EXCEPT !.copy = slots[s]])
                /\ rowLock' = rowLock
        BY <2>1 DEF ToggleRead
      <3>2. Arguments("toggle", None, s, None) \in Job
        BY DEF Arguments, Job, Operations
      <3>3. [NoSession EXCEPT !.copy = slots[s]].batch = {}
        BY DEF NoSession
      <3> QED BY <3>1, <3>2, <3>3, Starts DEF Begin
    <2>2. CASE ToggleFind(r)
      <3>1. PICK b : Continue(r, "commit", [sess[r] EXCEPT !.found = b])
        BY <2>2 DEF ToggleFind
      <3>2. pc[r] = "find" /\ UNCHANGED <<rowLock, job>>
        BY <2>2 DEF ToggleFind
      <3>3. [sess[r] EXCEPT !.found = b].batch = {}
        BY <1>0, <1>2 DEF Session
      <3> QED BY <1>0, <3>1, <3>2, <3>3, GoesOn
    <2>3. CASE DeleteRead(r) /\ ~Abandon(r, "rejected")
      <3>1. PICK s \in Slots :
                /\ Begin(r, "delete", None)
                /\ Enter(r, Arguments("delete", None, s, None), "find", NoSession)
                /\ rowLock' = rowLock
        BY <2>3 DEF DeleteRead
      <3>2. Arguments("delete", None, s, None) \in Job
        BY DEF Arguments, Job, Operations
      <3> QED BY <1>1, <3>1, <3>2, Starts DEF Begin
    <2>4. CASE DeleteCount(r)
      BY <1>0, <1>2, <1>3, <2>4, GoesOn DEF DeleteCount
    <2>5. CASE \E answer : Abandon(r, answer) \/ Finish(r, answer)
      BY <1>0, <1>3, <2>5
    <2>6. \/ ToggleRead(r) /\ ~Abandon(r, "rejected")
          \/ ToggleFind(r)
          \/ DeleteRead(r) /\ ~Abandon(r, "rejected")
          \/ DeleteCount(r)
          \/ \E answer : Abandon(r, answer) \/ Finish(r, answer)
      BY <1>7 DEF AdminStep, AddSlot, ToggleRead, ToggleCommit, DeleteRead, DeleteCommit
    <2> QED BY <2>1, <2>2, <2>3, <2>4, <2>5, <2>6
  <1>8. ASSUME NEW p \in Procs, RepriceStep(p)
        PROVE  BriefInv'
    <2>1. CASE CountTotal(p)
      <3> DEFINE c == [NoSession EXCEPT !.total = Cardinality(Existing)]
      <3>1. PICK k : Continue(p, k, c)
        BY <2>1 DEF CountTotal
      <3>2. pc[p] # "commit" /\ UNCHANGED <<rowLock, job>>
        BY <2>1 DEF CountTotal
      <3>3. c.batch = {}
        BY DEF NoSession
      <3> HIDE DEF c
      <3> QED BY <3>1, <3>2, <3>3, GoesOn
    <2>2. CASE CountFree(p)
      <3> DEFINE c == [sess[p] EXCEPT !.free = Cardinality(FreeSlots)]
      <3>1. Continue(p, "surge", c) /\ pc[p] # "commit" /\ UNCHANGED <<rowLock, job>>
        BY <2>2 DEF CountFree
      <3>2. p \in Requests => c.batch = {}
        BY <1>2 DEF Session
      <3> HIDE DEF c
      <3> QED BY <3>1, <3>2, GoesOn
    <2>3. CASE WriteSurge(p)
      BY <1>3, <2>3 DEF WriteSurge
    <2> QED BY <1>8, <2>1, <2>2, <2>3 DEF RepriceStep
  <1>9. ASSUME NEW t \in Tasks, SweepStep(t)
        PROVE  BriefInv'
    <2>1. t \in Procs /\ t \notin Requests
      BY DBAssumption DEF Procs
    <2>2. CASE SweepRead(t)
      <3>1. PICK c : Continue(t, "commit", c)
        BY <2>2 DEF SweepRead
      <3>2. pc[t] # "commit" /\ UNCHANGED <<rowLock, job>>
        BY <2>2 DEF SweepRead
      <3> QED BY <2>1, <3>1, <3>2, GoesOn
    <2>3. CASE SweepCommit(t)
      BY <1>3, <2>1, <2>3 DEF SweepCommit
    <2> QED BY <1>9, <2>2, <2>3 DEF SweepStep
  <1>10. CASE Tick \/ Done \/ UNCHANGED vars
    BY <1>10 DEF Tick, Done, vars, BriefInv, Held, Batches
  <1> QED BY <1>3, <1>4, <1>5, <1>6, <1>7, <1>8, <1>9, <1>10 DEF Next, Crash

\* No answer, refusal or crash leaves a row locked, and nobody waits for one who waits,
\* for any number of requests, tasks and slots and with the workers that die.
THEOREM LocksStayBrief == Spec => []LocksAreBrief
  <1>1. Init => BriefInv
    BY DBAssumption DEF Init, BriefInv, Held, Batches, NoSession, Procs
  <1>2. IInv /\ BriefInv /\ [Next]_vars => BriefInv'
    BY BriefStep
  <1>3. IInv /\ BriefInv => LocksAreBrief
    <2> SUFFICES ASSUME IInv, BriefInv PROVE LocksAreBrief
      OBVIOUS
    <2>1. ASSUME NEW p \in Procs, NEW q \in Procs, WaitsFor(p, q)
          PROVE  InFlight(q) /\ \A o \in Procs : ~WaitsFor(q, o)
      <3>1. PICK s \in Slots : rowLock[s] = q
        BY <2>1 DEF WaitsFor
      <3>2. pc[q] = "commit" /\ job[q].slot = s /\ sess[q].batch = {}
        BY <3>1 DEF BriefInv, Held
      <3>3. Wanted(q) = {s}
        BY <3>2 DEF Wanted
      <3>4. InFlight(q)
        BY <3>2 DEF InFlight, Answers
      <3> QED BY <3>1, <3>3, <3>4 DEF WaitsFor
    <2> QED BY <2>1 DEF LocksAreBrief, BriefInv, Held
  <1> QED BY <1>1, <1>2, <1>3, Invariance, PTL DEF Spec

=============================================================================
