----------------------- MODULE SettingsService_proofs -----------------------
(***************************************************************************)
(* What holds of SettingsService for any number of administrators, rows    *)
(* and caps, whatever forms are sent.                                      *)
(*                                                                         *)
(* SInv is inductive.  SaveKnows ties what a save has loaded to the table, *)
(* as long as no other save has been committed meanwhile.  RowsKnow says   *)
(* why a commit of reprice_all writes every row its UPDATE has seen: those *)
(* it has still to write and those it has locked are all of them.          *)
(***************************************************************************)
EXTENDS SettingsService, FiniteSetTheorems, TLAPS

-----------------------------------------------------------------------------
(* The inductive invariant. *)

SaveKnows(r) ==
    pc[r] \in {"second", "save"} =>
        /\ r \in Saves /\ sess[r].batch \in Sent
        /\ pc[r] = "save" => sess[r].batch \in Settings
        /\ r \notin overlapped =>
              /\ sess[r].copy.enabled = settings.enabled
              /\ pc[r] = "save" => sess[r].copy.max = settings.max

RowsKnow(p) ==
    p # "sweep" /\ pc[p] = "rows" =>
        \A s \in sess[p].seen :
            \/ rowLock[s] = p
            \/ \E i \in DOMAIN sess[p].todo : sess[p].todo[i] = s

SInv ==
    /\ SettingsTypeOK
    /\ \A p \in Procs : SaveKnows(p) /\ RowsKnow(p)
    /\ OneMultiplier

-----------------------------------------------------------------------------
(* Lemmas about sessions and orders. *)

LEMMA SessionTypes ==
    /\ NoSession \in Session
    /\ Default \in Table /\ [k \in Keys |-> None] \in Table
    /\ Settings \subseteq Table /\ Settings \subseteq Sent
  <1>1. [k \in Keys |-> None] = [enabled |-> None, max |-> None]
    BY DEF Keys
  <1>2. [enabled |-> None, max |-> None] \in Table
    BY DEF Table
  <1>3. NoSession \in Session
    BY <1>2 DEF NoSession, Session
  <1> QED BY <1>1, <1>2, <1>3, SettingsAssumption DEF Table, Settings, Sent

\* Every order of some rows is a list of them that has them all.
LEMMA Orders ==
    ASSUME NEW S \in SUBSET Rows, NEW order \in SetToSeqs(S)
    PROVE  /\ order \in Seq(Rows)
           /\ \A s \in S : \E i \in DOMAIN order : order[i] = s
  <1> DEFINE n == Cardinality(S)
  <1>1. IsFiniteSet(S) /\ n \in Nat
    BY FS_Subset, FS_CardinalityType, SettingsAssumption
  <1>2. order \in [1 .. n -> S] /\ \A i, j \in 1 .. n : i # j => order[i] # order[j]
    BY DEF SetToSeqs
  <1>3. order \in Seq(Rows)
    BY <1>1, <1>2
  <1>4. IsFiniteSet(1 .. n) /\ Cardinality(1 .. n) = n
    BY <1>1, FS_Interval
  <1>5. order \in Injection(1 .. n, S)
    BY <1>2 DEF Injection, IsInjective
  <1>6. order \in Surjection(1 .. n, S)
    BY <1>1, <1>4, <1>5, FS_Injection
  <1>7. \A s \in S : \E i \in 1 .. n : order[i] = s
    BY <1>6 DEF Surjection
  <1> QED BY <1>2, <1>3, <1>7

\* What is not the head of a list is in its tail.
LEMMA InTail ==
    ASSUME NEW todo \in Seq(Rows), todo # <<>>, NEW i \in DOMAIN todo, i # 1
    PROVE  i - 1 \in DOMAIN Tail(todo) /\ Tail(todo)[i - 1] = todo[i]
  <1>1. i \in 2 .. Len(todo)
    OBVIOUS
  <1>2. /\ DOMAIN Tail(todo) = 1 .. Len(todo) - 1
        /\ \A j \in 1 .. Len(todo) - 1 : Tail(todo)[j] = todo[j + 1]
    OBVIOUS
  <1>3. i - 1 \in 1 .. Len(todo) - 1 /\ (i - 1) + 1 = i
    BY <1>1
  <1> QED BY <1>2, <1>3

\* A process goes on: the others stay where they are.
LEMMA Continues ==
    ASSUME SettingsTypeOK, NEW p \in Procs, NEW step \in Steps, NEW contents \in Session,
           Continue(p, step, contents)
    PROVE  /\ pc' \in [Procs -> Steps] /\ sess' \in [Procs -> Session]
           /\ pc'[p] = step /\ sess'[p] = contents
           /\ \A q \in Procs \ {p} : pc'[q] = pc[q] /\ sess'[q] = sess[q]
  BY DEF SettingsTypeOK, Continue

\* A process ends its transaction: the others keep their locks.
LEMMA Finishes ==
    ASSUME SettingsTypeOK, NEW p \in Procs, NEW answer \in Answers, Finish(p, answer)
    PROVE  /\ pc' \in [Procs -> Steps] /\ sess' \in [Procs -> Session]
           /\ rowLock' \in [Rows -> Procs \cup {None}]
           /\ pc'[p] \in Answers \cup {"idle"}
           /\ \A q \in Procs \ {p} : pc'[q] = pc[q] /\ sess'[q] = sess[q]
           /\ \A q \in Procs \ {p} : \A s \in Rows : rowLock[s] = q => rowLock'[s] = q
  <1>1. PICK step \in Answers \cup {"idle"} : Continue(p, step, NoSession)
    BY DEF Finish
  <1>2. step \in Steps
    BY <1>1 DEF Steps
  <1>3. /\ pc' \in [Procs -> Steps] /\ sess' \in [Procs -> Session]
        /\ pc'[p] = step
        /\ \A q \in Procs \ {p} : pc'[q] = pc[q] /\ sess'[q] = sess[q]
    BY <1>1, <1>2, SessionTypes, Continues
  <1>4. /\ rowLock' \in [Rows -> Procs \cup {None}]
        /\ \A q \in Procs \ {p} : \A s \in Rows : rowLock[s] = q => rowLock'[s] = q
    BY DEF SettingsTypeOK, Finish
  <1> QED BY <1>1, <1>3, <1>4

\* A step of p that changes no setting takes nothing from what another process knows.
LEMMA OthersKnow ==
    ASSUME SInv, NEW p \in Procs, NEW q \in Procs \ {p},
           pc'[q] = pc[q], sess'[q] = sess[q], UNCHANGED <<settings, overlapped>>,
           \A s \in Rows : rowLock[s] = q => rowLock'[s] = q
    PROVE  SaveKnows(q)' /\ RowsKnow(q)'
  <1>1. sess[q].seen \subseteq Rows
    BY DEF SInv, SettingsTypeOK, Session
  <1> QED BY <1>1 DEF SInv, SaveKnows, RowsKnow

-----------------------------------------------------------------------------
(* One lemma per action. *)

LEMMA SaveBeginKeeps ==
    ASSUME SInv, NEW r \in Saves, SaveBegin(r)
    PROVE  SInv'
  <1> DEFINE copy == [enabled |-> settings.enabled, max |-> None]
  <1>1. r \in Procs /\ SettingsTypeOK
    BY DEF Procs, SInv
  <1>2. PICK batch \in Forms[r] :
            Continue(r, "second", [NoSession EXCEPT !.batch = batch, !.copy = copy])
    BY DEF SaveBegin
  <1> DEFINE contents == [NoSession EXCEPT !.batch = batch, !.copy = copy]
  <1>3. copy \in Table /\ copy.enabled = settings.enabled
    BY <1>1 DEF Table, SettingsTypeOK
  <1> HIDE DEF copy
  <1>4. contents \in Session /\ contents.batch = batch /\ contents.copy = copy
    <2>1. batch \in Sent /\ NoSession \in Session
      BY <1>2, SessionTypes, SettingsAssumption
    <2> QED BY <2>1, <1>3 DEF Session
  <1> HIDE DEF contents
  <1>5. /\ pc' \in [Procs -> Steps] /\ sess' \in [Procs -> Session]
        /\ pc'[r] = "second" /\ sess'[r] = contents
        /\ \A q \in Procs \ {r} : pc'[q] = pc[q] /\ sess'[q] = sess[q]
    BY <1>1, <1>2, <1>4, Continues DEF Steps, contents
  <1>6. UNCHANGED <<settings, slots, rowLock, sweeps, overlapped>>
    BY DEF SaveBegin
  <1>7. SaveKnows(r)' /\ RowsKnow(r)'
    BY <1>2, <1>3, <1>4, <1>5, <1>6, SettingsAssumption DEF SaveKnows, RowsKnow
  <1>8. \A q \in Procs \ {r} : SaveKnows(q)' /\ RowsKnow(q)'
    BY <1>1, <1>5, <1>6, OthersKnow
  <1>9. SettingsTypeOK' /\ OneMultiplier'
    BY <1>5, <1>6 DEF SInv, SettingsTypeOK, OneMultiplier, Existing, slots
  <1> QED BY <1>7, <1>8, <1>9 DEF SInv

\* A transaction that fails or is chosen as the victim.
LEMMA FinishKeeps ==
    ASSUME SInv, NEW p \in Procs, NEW answer \in Answers, Finish(p, answer),
           UNCHANGED <<settings, slots, sweeps, overlapped>>
    PROVE  SInv'
  <1>1. SettingsTypeOK
    BY DEF SInv
  <1>2. SaveKnows(p)' /\ RowsKnow(p)'
    BY <1>1, Finishes DEF SaveKnows, RowsKnow, Answers
  <1>3. \A q \in Procs \ {p} : SaveKnows(q)' /\ RowsKnow(q)'
    BY <1>1, Finishes, OthersKnow
  <1>4. SettingsTypeOK' /\ OneMultiplier'
    BY <1>1, Finishes DEF SInv, SettingsTypeOK, OneMultiplier, Existing, slots
  <1> QED BY <1>2, <1>3, <1>4 DEF SInv

LEMMA SaveSecondKeeps ==
    ASSUME SInv, NEW r \in Procs, SaveSecond(r)
    PROVE  SInv'
  <1>1. /\ SettingsTypeOK /\ SaveKnows(r) /\ pc[r] = "second"
        /\ UNCHANGED <<settings, slots, sweeps, overlapped>>
    BY DEF SInv, SaveSecond
  <1>2. CASE Finish(r, "error")
    BY <1>1, <1>2, FinishKeeps DEF Answers
  <1>3. CASE ~Finish(r, "error")
    <2> DEFINE contents == [sess[r] EXCEPT
                  !.copy = [enabled |-> @.enabled, max |-> settings.max],
                  !.wrote = IF Dirty(r, "enabled") THEN {"enabled"} ELSE {}]
    <2>1. ~Refused(r) /\ Continue(r, "save", contents) /\ UNCHANGED rowLock
      BY <1>3 DEF SaveSecond
    <2>2. sess[r] \in Session /\ sess[r].batch \in Settings
      BY <1>1, <2>1 DEF SettingsTypeOK, SaveKnows, Refused, Sent, Settings
    <2>3. /\ contents \in Session /\ contents.batch = sess[r].batch
          /\ contents.copy.enabled = sess[r].copy.enabled
          /\ contents.copy.max = settings.max
      <3> DEFINE copy == [enabled |-> sess[r].copy.enabled, max |-> settings.max]
                 wrote == IF Dirty(r, "enabled") THEN {"enabled"} ELSE {}
      <3>1. copy \in Table /\ wrote \in SUBSET Keys
        BY <2>2, <1>1 DEF Session, Table, SettingsTypeOK, Keys
      <3>2. copy.enabled = sess[r].copy.enabled /\ copy.max = settings.max
        OBVIOUS
      <3>3. contents = [sess[r] EXCEPT !.copy = copy, !.wrote = wrote]
        OBVIOUS
      <3> HIDE DEF copy, wrote, contents
      <3>4. contents \in Session /\ contents.batch = sess[r].batch /\ contents.copy = copy
        BY <3>1, <3>3, <2>2 DEF Session
      <3> QED BY <3>2, <3>4
    <2> HIDE DEF contents
    <2>4. /\ pc' \in [Procs -> Steps] /\ sess' \in [Procs -> Session]
          /\ pc'[r] = "save" /\ sess'[r] = contents
          /\ \A q \in Procs \ {r} : pc'[q] = pc[q] /\ sess'[q] = sess[q]
      BY <1>1, <2>1, <2>3, Continues DEF Steps
    <2>5. SaveKnows(r)' /\ RowsKnow(r)'
      BY <1>1, <2>2, <2>3, <2>4, SessionTypes DEF SaveKnows, RowsKnow
    <2>6. \A q \in Procs \ {r} : SaveKnows(q)' /\ RowsKnow(q)'
      BY <1>1, <2>1, <2>4, OthersKnow
    <2>7. SettingsTypeOK' /\ OneMultiplier'
      BY <1>1, <2>1, <2>4 DEF SInv, SettingsTypeOK, OneMultiplier, Existing, slots
    <2> QED BY <2>5, <2>6, <2>7 DEF SInv
  <1> QED BY <1>2, <1>3

LEMMA SaveCommitKeeps ==
    ASSUME SInv, NEW r \in Procs, SaveCommit(r)
    PROVE  SInv'
  <1>1. /\ SettingsTypeOK /\ SaveKnows(r) /\ pc[r] = "save" /\ r \in Saves
        /\ UNCHANGED <<slots, sweeps>>
    BY DEF SInv, SaveCommit, SaveKnows
  <1>2. CASE Finish(r, "error") /\ UNCHANGED <<settings, overlapped>>
    BY <1>1, <1>2, FinishKeeps DEF Answers
  <1>3. CASE ~(Finish(r, "error") /\ UNCHANGED <<settings, overlapped>>)
    <2>1. /\ settings' = Stored(r)
          /\ overlapped' = overlapped \cup {q \in Saves \ {r} : pc[q] \in {"second", "save"}}
          /\ Continue(r, "enabled", NoSession)
          /\ UNCHANGED rowLock
      BY <1>3 DEF SaveCommit
    <2>2. /\ pc' \in [Procs -> Steps] /\ sess' \in [Procs -> Session]
          /\ pc'[r] = "enabled" /\ sess'[r] = NoSession
          /\ \A q \in Procs \ {r} : pc'[q] = pc[q] /\ sess'[q] = sess[q]
      BY <1>1, <2>1, SessionTypes, Continues DEF Steps
    <2>3. settings' \in Table
      <3>1. sess[r].batch \in Settings /\ settings \in Table
        BY <1>1 DEF SaveKnows, SettingsTypeOK
      <3>2. Stored(r) = [enabled |-> IF Dirty(r, "enabled") THEN sess[r].batch.enabled
                                     ELSE settings.enabled,
                         max |-> IF Dirty(r, "max") THEN sess[r].batch.max ELSE settings.max]
        BY DEF Stored, Keys
      <3> QED BY <2>1, <3>1, <3>2 DEF Settings, Table
    <2>4. SaveKnows(r)' /\ RowsKnow(r)'
      BY <2>2 DEF SaveKnows, RowsKnow
    <2>5. ASSUME NEW q \in Procs \ {r}
          PROVE  SaveKnows(q)' /\ RowsKnow(q)'
      <3>1. SaveKnows(q) /\ RowsKnow(q) /\ pc'[q] = pc[q] /\ sess'[q] = sess[q]
        BY <2>2 DEF SInv
      <3>2. pc[q] \in {"second", "save"} => q \in overlapped'
        BY <2>1, <3>1 DEF SaveKnows
      <3> QED BY <3>1, <3>2, <2>1 DEF SaveKnows, RowsKnow
    <2>6. SettingsTypeOK' /\ OneMultiplier'
      BY <1>1, <2>1, <2>2, <2>3 DEF SInv, SettingsTypeOK, OneMultiplier, Existing, slots
    <2> QED BY <2>4, <2>5, <2>6 DEF SInv
  <1> QED BY <1>2, <1>3

\* The multiplier is computed: all rows there are have still to be written.
LEMMA RepriceKeeps ==
    ASSUME SInv, NEW p \in Procs, NEW factor \in Caps \cup {100}, Reprice(p, factor),
           UNCHANGED <<settings, slots, rowLock, sweeps, overlapped>>
    PROVE  SInv'
  <1>1. SettingsTypeOK
    BY DEF SInv
  <1> DEFINE Contents(order) == [sess[p] EXCEPT !.factor = factor, !.seen = Existing,
                                                !.todo = order]
  <1>2. PICK order \in SetToSeqs(Existing) : Continue(p, "rows", Contents(order))
    BY DEF Reprice
  <1>3. /\ order \in Seq(Rows) /\ Existing \in SUBSET Rows
        /\ \A s \in Existing : \E i \in DOMAIN order : order[i] = s
    <2>1. Existing \in SUBSET Rows
      BY DEF Existing
    <2> QED BY <1>2, <2>1, Orders
  <1>4. /\ Contents(order) \in Session
        /\ Contents(order).seen = Existing /\ Contents(order).todo = order
    <2>1. sess[p] \in Session
      BY <1>1 DEF SettingsTypeOK
    <2> QED BY <2>1, <1>3 DEF Session
  <1> HIDE DEF Contents
  <1>5. /\ pc' \in [Procs -> Steps] /\ sess' \in [Procs -> Session]
        /\ pc'[p] = "rows" /\ sess'[p] = Contents(order)
        /\ \A q \in Procs \ {p} : pc'[q] = pc[q] /\ sess'[q] = sess[q]
    BY <1>1, <1>2, <1>4, Continues DEF Steps
  <1>6. SaveKnows(p)' /\ RowsKnow(p)'
    BY <1>3, <1>4, <1>5 DEF SaveKnows, RowsKnow
  <1>7. \A q \in Procs \ {p} : SaveKnows(q)' /\ RowsKnow(q)'
    BY <1>5, OthersKnow
  <1>8. SettingsTypeOK' /\ OneMultiplier'
    BY <1>1, <1>5 DEF SInv, SettingsTypeOK, OneMultiplier, Existing, slots
  <1> QED BY <1>6, <1>7, <1>8 DEF SInv

LEMMA ReadEnabledKeeps ==
    ASSUME SInv, NEW p \in Procs, ReadEnabled(p)
    PROVE  SInv'
  <1>1. SettingsTypeOK /\ UNCHANGED <<settings, slots, rowLock, sweeps, overlapped>>
    BY DEF SInv, ReadEnabled
  <1>2. CASE Continue(p, "max", sess[p])
    <2>1. /\ pc' \in [Procs -> Steps] /\ sess' \in [Procs -> Session]
          /\ pc'[p] = "max" /\ sess'[p] = sess[p]
          /\ \A q \in Procs \ {p} : pc'[q] = pc[q] /\ sess'[q] = sess[q]
      BY <1>1, <1>2, Continues DEF SettingsTypeOK, Steps
    <2>2. SaveKnows(p)' /\ RowsKnow(p)'
      BY <2>1 DEF SaveKnows, RowsKnow
    <2>3. \A q \in Procs \ {p} : SaveKnows(q)' /\ RowsKnow(q)'
      BY <1>1, <2>1, OthersKnow
    <2>4. SettingsTypeOK' /\ OneMultiplier'
      BY <1>1, <2>1 DEF SInv, SettingsTypeOK, OneMultiplier, Existing, slots
    <2> QED BY <2>2, <2>3, <2>4 DEF SInv
  <1>3. CASE Reprice(p, 100)
    BY <1>1, <1>3, RepriceKeeps
  <1> QED BY <1>2, <1>3 DEF ReadEnabled

LEMMA ReadMaxKeeps ==
    ASSUME SInv, NEW p \in Procs, ReadMax(p)
    PROVE  SInv'
  <1>1. Get("max") \in Caps
    BY SettingsAssumption DEF SInv, SettingsTypeOK, Get, Table, Settings
  <1> QED BY <1>1, RepriceKeeps DEF ReadMax

LEMMA WriteRowKeeps ==
    ASSUME SInv, NEW p \in Procs, WriteRow(p)
    PROVE  SInv'
  <1> DEFINE next == Head(sess[p].todo)
             contents == [sess[p] EXCEPT !.todo = Tail(@)]
  <1>1. /\ SettingsTypeOK /\ pc[p] = "rows" /\ RowsKnow(p)
        /\ UNCHANGED <<settings, slots, sweeps, overlapped>>
        /\ sess[p] \in Session /\ sess[p].todo \in Seq(Rows) /\ sess[p].todo # <<>>
    BY DEF SInv, SettingsTypeOK, WriteRow, Session
  <1>2. /\ next \in Rows /\ rowLock[next] = None
        /\ rowLock' = [rowLock EXCEPT ![next] = p] /\ Continue(p, "rows", contents)
    BY <1>1 DEF WriteRow
  <1>3. /\ contents \in Session
        /\ contents.todo = Tail(sess[p].todo) /\ contents.seen = sess[p].seen
    <2>1. Tail(sess[p].todo) \in Seq(Rows)
      BY <1>1
    <2> QED BY <2>1, <1>1 DEF Session
  <1>4. /\ pc' \in [Procs -> Steps] /\ sess' \in [Procs -> Session]
        /\ pc'[p] = "rows" /\ sess'[p] = contents
        /\ \A q \in Procs \ {p} : pc'[q] = pc[q] /\ sess'[q] = sess[q]
    <2> HIDE DEF contents, next
    <2> QED BY <1>1, <1>2, <1>3, Continues DEF Steps
  <1>5. \A s \in Rows : rowLock'[s] = IF s = next THEN p ELSE rowLock[s]
    BY <1>1, <1>2 DEF SettingsTypeOK
  <1>6. RowsKnow(p)'
    <2> SUFFICES ASSUME p # "sweep", NEW s \in sess'[p].seen, rowLock'[s] # p
                 PROVE  \E i \in DOMAIN sess'[p].todo : sess'[p].todo[i] = s
      BY DEF RowsKnow
    <2>0. s \in sess[p].seen /\ s \in Rows
      BY <1>1, <1>3, <1>4 DEF Session
    <2>1. s # next /\ rowLock[s] # p
      BY <1>5, <2>0
    <2>2. PICK i \in DOMAIN sess[p].todo : sess[p].todo[i] = s
      BY <1>1, <2>0, <2>1 DEF RowsKnow
    <2>3. i # 1
      BY <2>1, <2>2, <1>1
    <2>4. i - 1 \in DOMAIN Tail(sess[p].todo) /\ Tail(sess[p].todo)[i - 1] = s
      BY <1>1, <2>2, <2>3, InTail
    <2> QED BY <2>4, <1>3, <1>4
  <1>7. SaveKnows(p)'
    BY <1>4 DEF SaveKnows
  <1>8. ASSUME NEW q \in Procs \ {p}
        PROVE  SaveKnows(q)' /\ RowsKnow(q)'
    <2>1. q # None
      BY SettingsAssumption DEF Procs
    <2>2. \A s \in Rows : rowLock[s] = q => rowLock'[s] = q
      BY <2>1, <1>2, <1>5
    <2> QED BY <2>2, <1>1, <1>4, OthersKnow
  <1>9. SettingsTypeOK' /\ OneMultiplier'
    BY <1>1, <1>2, <1>4 DEF SInv, SettingsTypeOK, OneMultiplier, Existing, slots
  <1> QED BY <1>6, <1>7, <1>8, <1>9 DEF SInv

\* reprice_all commits one multiplier for all rows it has seen, the sweep none.
LEMMA CommitRowsKeeps ==
    ASSUME SInv, NEW p \in Procs, CommitRows(p)
    PROVE  SInv'
  <1>1. /\ SettingsTypeOK /\ pc[p] = "rows" /\ RowsKnow(p) /\ sess[p].todo = <<>>
        /\ UNCHANGED <<settings, sweeps, overlapped>>
        /\ Finish(p, "saved")
    BY DEF SInv, CommitRows
  <1>2. /\ surge' \in [Rows -> Caps \cup {100, None}] /\ unseen' \subseteq Rows
        /\ OneMultiplier'
    <2>1. CASE p = "sweep"
      BY <2>1 DEF CommitRows, SInv, SettingsTypeOK, OneMultiplier, Existing, slots
    <2>2. CASE p # "sweep"
      <3>1. surge' = Repriced(p) /\ unseen' = Existing \ sess[p].seen
        BY <2>2 DEF CommitRows
      <3>2. /\ surge \in [Rows -> Caps \cup {100, None}]
            /\ sess[p].factor \in Caps \cup {100}
        BY <1>1 DEF SettingsTypeOK, Session
      <3>3. \A s \in sess[p].seen : rowLock[s] = p
        BY <1>1, <2>2 DEF RowsKnow
      <3>4. ASSUME NEW s \in Existing' \ unseen'
            PROVE  surge'[s] = sess[p].factor
        <4>1. s \in Rows /\ surge'[s] # None /\ s \notin Existing \ sess[p].seen
          BY <3>1 DEF Existing
        <4>2. surge'[s] = IF rowLock[s] = p THEN sess[p].factor ELSE surge[s]
          BY <3>1, <4>1 DEF Repriced
        <4>3. rowLock[s] # p => s \in Existing
          BY <4>1, <4>2 DEF Existing
        <4> QED BY <3>3, <4>1, <4>2, <4>3
      <3>5. OneMultiplier'
        BY <3>4 DEF OneMultiplier
      <3> QED BY <3>1, <3>2, <3>5 DEF Repriced, Existing
    <2> QED BY <2>1, <2>2
  <1>3. SaveKnows(p)' /\ RowsKnow(p)'
    BY <1>1, Finishes DEF SaveKnows, RowsKnow, Answers
  <1>4. \A q \in Procs \ {p} : SaveKnows(q)' /\ RowsKnow(q)'
    BY <1>1, Finishes, OthersKnow DEF Answers
  <1>5. SettingsTypeOK'
    BY <1>1, <1>2, Finishes DEF SettingsTypeOK, Answers
  <1> QED BY <1>2, <1>3, <1>4, <1>5 DEF SInv

LEMMA SweepReadKeeps ==
    ASSUME SInv, NEW t \in Tasks, SweepRead(t)
    PROVE  SInv'
  <1>1. /\ SettingsTypeOK /\ t \in Procs /\ t = "sweep"
        /\ UNCHANGED <<settings, slots, rowLock, overlapped>>
        /\ sweeps < MaxSweeps /\ sweeps' = sweeps + 1
    BY DEF SInv, SweepRead, Procs
  <1> DEFINE Contents(order) == [NoSession EXCEPT !.todo = order]
  <1>2. PICK lapsed \in SUBSET Existing :
            \E order \in SetToSeqs(lapsed) : Continue(t, "rows", Contents(order))
    BY DEF SweepRead
  <1>3. PICK order \in SetToSeqs(lapsed) : Continue(t, "rows", Contents(order))
    BY <1>2
  <1>4. Contents(order) \in Session
    BY Orders, SessionTypes DEF Session, Existing
  <1> HIDE DEF Contents
  <1>5. /\ pc' \in [Procs -> Steps] /\ sess' \in [Procs -> Session]
        /\ pc'[t] = "rows"
        /\ \A q \in Procs \ {t} : pc'[q] = pc[q] /\ sess'[q] = sess[q]
    BY <1>1, <1>3, <1>4, Continues DEF Steps
  <1>6. SaveKnows(t)' /\ RowsKnow(t)'
    BY <1>1, <1>5 DEF SaveKnows, RowsKnow
  <1>7. \A q \in Procs \ {t} : SaveKnows(q)' /\ RowsKnow(q)'
    BY <1>1, <1>5, OthersKnow
  <1>8. SettingsTypeOK' /\ OneMultiplier'
    BY <1>1, <1>5, SettingsAssumption DEF SInv, SettingsTypeOK, OneMultiplier, Existing, slots
  <1> QED BY <1>6, <1>7, <1>8 DEF SInv

\* A slot that is added is one that no committed UPDATE has seen.
LEMMA AddSlotKeeps ==
    ASSUME SInv, NEW s \in Rows, AddSlot(s)
    PROVE  SInv'
  <1>1. /\ SettingsTypeOK /\ surge' = [surge EXCEPT ![s] = 100] /\ unseen' = unseen \cup {s}
        /\ UNCHANGED <<settings, rowLock, pc, sess, sweeps, overlapped>>
    BY DEF SInv, AddSlot
  <1>2. SettingsTypeOK'
    BY <1>1 DEF SettingsTypeOK
  <1>3. \A p \in Procs : SaveKnows(p)' /\ RowsKnow(p)'
    BY <1>1 DEF SInv, SaveKnows, RowsKnow
  <1>4. \A t \in Existing' \ unseen' : t \in Existing \ unseen /\ surge'[t] = surge[t]
    BY <1>1 DEF SettingsTypeOK, Existing
  <1>5. OneMultiplier'
    BY <1>4 DEF SInv, OneMultiplier
  <1> QED BY <1>2, <1>3, <1>5 DEF SInv

LEMMA VictimKeeps ==
    ASSUME SInv, NEW p \in Procs, Victim(p)
    PROVE  SInv'
  BY FinishKeeps DEF Victim, Answers

-----------------------------------------------------------------------------
(* The invariant and what follows from it. *)

LEMMA SettingsInit ==
    ASSUME Init
    PROVE  SInv
  <1>1. settings \in Table /\ sess \in [Procs -> Session]
    BY SessionTypes DEF Init
  <1>2. surge \in [Rows -> Caps \cup {100, None}]
    BY SettingsAssumption DEF Init, Settings
  <1>3. SettingsTypeOK
    BY <1>1, <1>2, SettingsAssumption DEF Init, SettingsTypeOK, Steps
  <1>4. \A p \in Procs : SaveKnows(p) /\ RowsKnow(p)
    BY DEF Init, SaveKnows, RowsKnow
  <1>5. OneMultiplier
    <2>1. \A s \in Existing : surge[s] = IF Default.enabled THEN Default.max ELSE 100
      BY DEF Init, Existing
    <2> QED BY <2>1 DEF OneMultiplier
  <1> QED BY <1>3, <1>4, <1>5 DEF SInv

LEMMA SettingsStep ==
    ASSUME SInv, [Next]_vars
    PROVE  SInv'
  <1>1. CASE \E r \in Saves : SaveBegin(r)
    BY <1>1, SaveBeginKeeps
  <1>2. CASE \E p \in Procs : Proceed(p) \/ Victim(p)
    BY <1>2, ReadEnabledKeeps, ReadMaxKeeps, WriteRowKeeps, CommitRowsKeeps,
       SaveSecondKeeps, SaveCommitKeeps, VictimKeeps DEF Proceed
  <1>3. CASE \E t \in Tasks : SweepRead(t)
    BY <1>3, SweepReadKeeps
  <1>4. CASE \E s \in Rows : AddSlot(s)
    BY <1>4, AddSlotKeeps
  <1>5. CASE UNCHANGED vars
    BY <1>5 DEF vars, slots, SInv, SettingsTypeOK, SaveKnows, RowsKnow, OneMultiplier, Existing
  <1> QED BY <1>1, <1>2, <1>3, <1>4, <1>5 DEF Next

\* SInv holds at the start and after every step.
THEOREM SettingsInvariance == Spec => []SInv
  <1>1. Init => SInv
    BY SettingsInit
  <1>2. SInv /\ [Next]_vars => SInv'
    BY SettingsStep
  <1> QED BY <1>1, <1>2, PTL DEF Spec

\* Every variable keeps its type: no field that float() refuses reaches the table.
THEOREM SettingsTypeCorrect == Spec => []SettingsTypeOK
  <1>1. SInv => SettingsTypeOK
    BY DEF SInv
  <1> QED BY <1>1, SettingsInvariance, PTL

\* reprice_all leaves all slots that it has seen with one multiplier, however many
\* transactions write them row by row, are chosen as victims or read torn settings, and
\* whenever slots are added.
THEOREM OneMultiplierForAll == Spec => []OneMultiplier
  <1>1. SInv => OneMultiplier
    BY DEF SInv
  <1> QED BY <1>1, SettingsInvariance, PTL

\* What a save commits is its form, unless another one was committed since it began.
LEMMA WholeStep ==
    ASSUME SInv, [Next]_vars, NEW r \in Saves \ overlapped,
           pc[r] = "save", pc'[r] = "enabled"
    PROVE  settings' = sess[r].batch
  <1>1. r \in Procs /\ SettingsTypeOK /\ SaveKnows(r)
    BY DEF SInv, Procs
  <1>2. SaveCommit(r)
    <2>1. pc' # pc
      OBVIOUS
    <2>2. PICK p \in Procs : \/ SaveBegin(p) \/ Proceed(p) \/ Victim(p) \/ SweepRead(p)
      BY <2>1 DEF Next, vars, Procs, AddSlot
    <2>3. PICK step \in Steps : pc' = [pc EXCEPT ![p] = step]
      BY <2>2 DEF Proceed, SaveBegin, SaveSecond, SaveCommit, ReadEnabled, ReadMax, WriteRow,
              CommitRows, SweepRead, Victim, Finish, Continue, Reprice, Steps, Answers
    <2>4. p = r
      BY <1>1, <2>3 DEF SettingsTypeOK
    <2> QED BY <2>2, <2>4 DEF Proceed, SaveBegin, SaveSecond, SaveCommit, ReadEnabled, ReadMax,
              WriteRow, CommitRows, SweepRead, Victim, Deadlocked, WaitsFor, SettingsTypeOK
  <1>3. settings' = Stored(r)
    BY <1>1, <1>2 DEF SaveCommit, Finish, Continue, Answers, SettingsTypeOK
  <1>4. /\ sess[r].batch \in Settings
        /\ sess[r].copy.enabled = settings.enabled /\ sess[r].copy.max = settings.max
    BY <1>1 DEF SaveKnows
  <1>5. \A k \in Keys : sess[r].copy[k] = settings[k]
    BY <1>4 DEF Keys
  <1>6. Stored(r) = [k \in Keys |-> sess[r].batch[k]]
    BY <1>5 DEF Stored, Dirty
  <1>7. [k \in Keys |-> sess[r].batch[k]] = sess[r].batch
    BY <1>4 DEF Settings, Keys
  <1> QED BY <1>3, <1>6, <1>7

\* A save that no other one overlaps is stored whole (set_many).
THEOREM SavesAreWhole == Spec => SaveIsWhole
  <1>1. SInv /\ [Next]_vars =>
            [\A r \in Saves \ overlapped :
                pc[r] = "save" /\ pc'[r] = "enabled" => settings' = sess[r].batch]_vars
    BY WholeStep
  <1> QED BY <1>1, SettingsInvariance, PTL DEF Spec, SaveIsWhole

-----------------------------------------------------------------------------
(* Waiting.  A save waits for a key that another one has written, anybody  *)
(* for a row; the database looks for circles of the latter only.           *)

BlockedBy(p, q) ==
    \/ WaitsFor(p, q)
    \/ /\ p # q /\ p \in Saves /\ q \in Saves
       /\ \/ pc[p] = "second" /\ Dirty(p, "enabled") /\ "enabled" \in sess[q].wrote
          \/ pc[p] = "save" /\ Dirty(p, "max") /\ "max" \in sess[q].wrote

\* Whoever wait only for each other, for keys or rows, are not left to it: one of them is
\* found on a circle of rows.  And nobody waits for a lock of its own.
NobodyHangs ==
    /\ \A S \in SUBSET Procs :
          S # {} /\ (\A p \in S : \E q \in S : BlockedBy(p, q)) => \E p \in S : Deadlocked(p)
    /\ \A p \in Procs : ~BlockedBy(p, p)

\* Only a save about to commit has written a key, and never "max"; only those who
\* write rows have locked some, and none that they have still to write.
Holds(p) ==
    /\ sess[p].wrote \subseteq {"enabled"}
    /\ pc[p] # "save" => sess[p].wrote = {}
    /\ \A s \in Rows : rowLock[s] = p => pc[p] = "rows"
    /\ pc[p] = "rows" =>
         \A i \in DOMAIN sess[p].todo :
            /\ rowLock[sess[p].todo[i]] # p
            /\ \A j \in DOMAIN sess[p].todo : i # j => sess[p].todo[i] # sess[p].todo[j]

HoldInv == SInv /\ \A p \in Procs : Holds(p)

\* A step of p takes no row from others and gives them none.
LEMMA OthersHold ==
    ASSUME NEW p \in Procs, NEW q \in Procs \ {p}, Holds(q),
           pc'[q] = pc[q], sess'[q] = sess[q],
           \A s \in Rows : rowLock'[s] = q <=> rowLock[s] = q,
           \A i \in DOMAIN sess[q].todo : pc[q] = "rows" => sess[q].todo[i] \in Rows
    PROVE  Holds(q)'
  BY DEF Holds

\* The rows on anybody's list are rows.
LEMMA TodoRows ==
    ASSUME SettingsTypeOK, NEW p \in Procs
    PROVE  /\ sess[p] \in Session /\ sess[p].todo \in Seq(Rows)
           /\ \A i \in DOMAIN sess[p].todo : sess[p].todo[i] \in Rows
  <1>1. sess[p] \in Session
    BY DEF SettingsTypeOK
  <1>2. sess[p].todo \in Seq(Rows)
    BY <1>1 DEF Session
  <1> QED BY <1>1, <1>2

\* An order has no row twice.
LEMMA OrdersOnce ==
    ASSUME NEW S \in SUBSET Rows, NEW order \in SetToSeqs(S)
    PROVE  /\ \A i \in DOMAIN order : order[i] \in Rows
           /\ \A i, j \in DOMAIN order : i # j => order[i] # order[j]
  BY DEF SetToSeqs

\* A step that touches no row lock.
LEMMA FreeStep ==
    ASSUME HoldInv, NEW p \in Procs, NEW step \in Steps, NEW contents \in Session,
           Continue(p, step, contents), rowLock' = rowLock, pc[p] # "rows",
           contents.wrote \subseteq {"enabled"}, step # "save" => contents.wrote = {},
           step = "rows" => /\ \A i \in DOMAIN contents.todo : contents.todo[i] \in Rows
                            /\ \A i, j \in DOMAIN contents.todo :
                                  i # j => contents.todo[i] # contents.todo[j]
    PROVE  \A q \in Procs : Holds(q)'
  <1>1. SettingsTypeOK /\ \A q \in Procs : Holds(q)
    BY DEF HoldInv, SInv
  <1>2. /\ pc'[p] = step /\ sess'[p] = contents
        /\ \A q \in Procs \ {p} : pc'[q] = pc[q] /\ sess'[q] = sess[q]
    BY <1>1, Continues
  <1>3. \A s \in Rows : rowLock[s] # p
    BY <1>1 DEF Holds
  <1>4. Holds(p)'
    BY <1>2, <1>3 DEF Holds
  <1>5. ASSUME NEW q \in Procs \ {p} PROVE Holds(q)'
    BY <1>1, <1>2, TodoRows, OthersHold
  <1> QED BY <1>4, <1>5

\* The end of a transaction.
LEMMA EndStep ==
    ASSUME HoldInv, NEW p \in Procs, NEW answer \in Answers, Finish(p, answer)
    PROVE  \A q \in Procs : Holds(q)'
  <1>1. SettingsTypeOK /\ \A q \in Procs : Holds(q)
    BY DEF HoldInv, SInv
  <1>2. /\ pc'[p] \in Answers \cup {"idle"}
        /\ \A q \in Procs \ {p} : pc'[q] = pc[q] /\ sess'[q] = sess[q]
    BY <1>1, Finishes
  <1>3. sess'[p] = NoSession /\ rowLock' = [s \in Rows |-> IF rowLock[s] = p THEN None ELSE rowLock[s]]
    BY <1>1 DEF Finish, Continue, SettingsTypeOK
  <1>4. \A q \in Procs : q # None
    BY SettingsAssumption DEF Procs
  <1>5. Holds(p)'
    BY <1>2, <1>3, <1>4 DEF Holds, Answers, NoSession
  <1>6. ASSUME NEW q \in Procs \ {p} PROVE Holds(q)'
    <2>1. \A s \in Rows : rowLock'[s] = q <=> rowLock[s] = q
      BY <1>3, <1>4
    <2> QED BY <1>1, <1>2, <2>1, TodoRows, OthersHold
  <1> QED BY <1>5, <1>6

LEMMA RepriceHolds ==
    ASSUME HoldInv, NEW p \in Procs, NEW factor \in Caps \cup {100}, Reprice(p, factor),
           rowLock' = rowLock, pc[p] \in {"idle", "enabled", "max"}
    PROVE  \A q \in Procs : Holds(q)'
  <1>1. SettingsTypeOK /\ Holds(p) /\ sess[p] \in Session
    BY TodoRows DEF HoldInv, SInv
  <1>2. PICK order \in SetToSeqs(Existing) :
           Continue(p, "rows", [sess[p] EXCEPT !.factor = factor, !.seen = Existing,
                                               !.todo = order])
    BY DEF Reprice
  <1> DEFINE contents == [sess[p] EXCEPT !.factor = factor, !.seen = Existing, !.todo = order]
  <1>3. contents \in Session /\ contents.wrote = {} /\ contents.todo = order
    BY <1>1, Orders DEF Session, Holds, Existing
  <1>4. /\ \A i \in DOMAIN order : order[i] \in Rows
        /\ \A i, j \in DOMAIN order : i # j => order[i] # order[j]
    BY OrdersOnce DEF Existing
  <1>5. Continue(p, "rows", contents) /\ "rows" \in Steps /\ pc[p] # "rows"
    BY <1>2 DEF Steps
  <1> HIDE DEF contents
  <1> QED BY <1>3, <1>4, <1>5, FreeStep

LEMMA HoldStep ==
    ASSUME HoldInv, [Next]_vars
    PROVE  HoldInv'
  <1>0. SInv /\ SInv' /\ SettingsTypeOK /\ \A q \in Procs : Holds(q)
    BY SettingsStep DEF HoldInv, SInv
  <1>1. ASSUME NEW r \in Saves, SaveBegin(r)
        PROVE  \A q \in Procs : Holds(q)'
    <2>1. PICK batch \in Forms[r] :
             Continue(r, "second", [NoSession EXCEPT !.batch = batch,
                                    !.copy = [enabled |-> settings.enabled, max |-> None]])
      BY <1>1 DEF SaveBegin
    <2> DEFINE copy == [enabled |-> settings.enabled, max |-> None]
               contents == [NoSession EXCEPT !.batch = batch, !.copy = copy]
    <2>2. contents \in Session /\ contents.wrote = {}
      <3>1. copy \in Table
        BY <1>0 DEF Table, SettingsTypeOK
      <3>2. batch \in Sent /\ NoSession \in Session
        BY SessionTypes, SettingsAssumption
      <3> HIDE DEF copy
      <3> QED BY <3>1, <3>2 DEF Session, NoSession
    <2> HIDE DEF contents
    <2>3. r \in Procs /\ rowLock' = rowLock /\ pc[r] = "idle"
      BY <1>1 DEF SaveBegin, Procs
    <2> QED BY <2>1, <2>2, <2>3, FreeStep DEF contents, Steps
  <1>2. ASSUME NEW p \in Procs, SaveSecond(p)
        PROVE  \A q \in Procs : Holds(q)'
    <2>1. CASE Finish(p, "error")
      BY <2>1, EndStep DEF Answers
    <2>2. CASE ~Finish(p, "error")
      <3> DEFINE copy == [enabled |-> sess[p].copy.enabled, max |-> settings.max]
                 wrote == IF Dirty(p, "enabled") THEN {"enabled"} ELSE {}
                 contents == [sess[p] EXCEPT !.copy = copy, !.wrote = wrote]
      <3>1. Continue(p, "save", contents) /\ rowLock' = rowLock /\ pc[p] = "second"
        BY <1>2, <2>2 DEF SaveSecond
      <3>2. copy \in Table /\ wrote \in SUBSET Keys /\ sess[p] \in Session /\ wrote \subseteq {"enabled"}
        BY <1>0, TodoRows DEF Session, Table, SettingsTypeOK, Keys
      <3> HIDE DEF copy, wrote
      <3>3. contents \in Session /\ contents.wrote = wrote
        BY <3>2 DEF Session
      <3> HIDE DEF contents
      <3> QED BY <3>1, <3>2, <3>3, FreeStep DEF Steps
    <2> QED BY <2>1, <2>2
  <1>3. ASSUME NEW p \in Procs, SaveCommit(p)
        PROVE  \A q \in Procs : Holds(q)'
    <2>1. CASE Finish(p, "error")
      BY <2>1, EndStep DEF Answers
    <2>2. CASE ~Finish(p, "error")
      <3>1. Continue(p, "enabled", NoSession) /\ rowLock' = rowLock /\ pc[p] = "save"
        BY <1>3, <2>2 DEF SaveCommit
      <3>2. NoSession \in Session /\ NoSession.wrote = {}
        BY SessionTypes DEF NoSession
      <3> QED BY <3>1, <3>2, FreeStep DEF Steps
    <2> QED BY <2>1, <2>2
  <1>4. ASSUME NEW p \in Procs, ReadEnabled(p)
        PROVE  \A q \in Procs : Holds(q)'
    <2>1. rowLock' = rowLock /\ pc[p] \in {"idle", "enabled"}
      BY <1>4 DEF ReadEnabled
    <2>2. CASE Reprice(p, 100)
      BY <2>1, <2>2, RepriceHolds
    <2>3. CASE Continue(p, "max", sess[p])
      <3>1. sess[p] \in Session /\ sess[p].wrote = {}
        BY <1>0, <2>1, TodoRows DEF Holds
      <3> QED BY <2>1, <2>3, <3>1, FreeStep DEF Steps
    <2> QED BY <1>4, <2>2, <2>3 DEF ReadEnabled
  <1>5. ASSUME NEW p \in Procs, ReadMax(p)
        PROVE  \A q \in Procs : Holds(q)'
    <2>1. Get("max") \in Caps
      BY <1>0, SettingsAssumption DEF SettingsTypeOK, Get, Table, Settings
    <2> QED BY <1>5, <2>1, RepriceHolds DEF ReadMax
  <1>6. ASSUME NEW p \in Procs, WriteRow(p)
        PROVE  \A q \in Procs : Holds(q)'
    <2> DEFINE todo == sess[p].todo
               next == Head(todo)
               contents == [sess[p] EXCEPT !.todo = Tail(@)]
    <2>1. /\ sess[p] \in Session /\ todo \in Seq(Rows) /\ todo # <<>>
          /\ \A i \in DOMAIN todo : todo[i] \in Rows
      BY <1>0, <1>6, TodoRows DEF WriteRow
    <2>2. /\ next \in Rows /\ rowLock[next] = None /\ pc[p] = "rows"
          /\ rowLock' = [rowLock EXCEPT ![next] = p] /\ Continue(p, "rows", contents)
      BY <1>6, <2>1 DEF WriteRow
    <2>3. contents \in Session /\ contents.todo = Tail(todo) /\ contents.wrote = sess[p].wrote
      <3>1. Tail(todo) \in Seq(Rows)
        BY <2>1
      <3> QED BY <2>1, <3>1 DEF Session
    <2>4. /\ pc'[p] = "rows" /\ sess'[p] = contents
          /\ \A q \in Procs \ {p} : pc'[q] = pc[q] /\ sess'[q] = sess[q]
      <3> HIDE DEF contents, next
      <3> QED BY <1>0, <2>2, <2>3, Continues DEF Steps
    <2>5. \A s \in Rows : rowLock'[s] = IF s = next THEN p ELSE rowLock[s]
      BY <1>0, <2>2 DEF SettingsTypeOK
    <2>6. /\ DOMAIN Tail(todo) = 1 .. Len(todo) - 1 /\ DOMAIN todo = 1 .. Len(todo)
          /\ Len(todo) \in Nat /\ next = todo[1] /\ 1 \in DOMAIN todo
          /\ \A j \in 1 .. Len(todo) - 1 : Tail(todo)[j] = todo[j + 1]
      BY <2>1
    <2>7. Holds(p)'
      <3>1. Holds(p)
        BY <1>0
      <3>2. ASSUME NEW i \in DOMAIN Tail(todo)
            PROVE  /\ rowLock'[Tail(todo)[i]] # p
                   /\ \A j \in DOMAIN Tail(todo) : i # j => Tail(todo)[i] # Tail(todo)[j]
        <4>1. i + 1 \in DOMAIN todo /\ i + 1 # 1 /\ Tail(todo)[i] = todo[i + 1]
          BY <2>6
        <4>2. todo[i + 1] # next /\ todo[i + 1] \in Rows /\ rowLock[todo[i + 1]] # p
          BY <2>1, <2>2, <2>6, <3>1, <4>1 DEF Holds
        <4>3. \A j \in DOMAIN Tail(todo) :
                 j + 1 \in DOMAIN todo /\ Tail(todo)[j] = todo[j + 1] /\ (i # j => i + 1 # j + 1)
          BY <2>6
        <4> HIDE DEF next, todo
        <4>4. rowLock'[Tail(todo)[i]] # p
          BY <2>5, <4>1, <4>2
        <4>5. \A j \in DOMAIN Tail(todo) : i # j => Tail(todo)[i] # Tail(todo)[j]
          BY <2>2, <3>1, <4>1, <4>3 DEF Holds, todo
        <4> QED BY <4>4, <4>5
      <3> QED BY <2>2, <2>3, <2>4, <3>1, <3>2 DEF Holds
    <2>8. ASSUME NEW q \in Procs \ {p} PROVE Holds(q)'
      <3>1. \A s \in Rows : rowLock'[s] = q <=> rowLock[s] = q
        <4>1. q # None
          BY SettingsAssumption DEF Procs
        <4> HIDE DEF next
        <4> QED BY <2>2, <2>5, <4>1
      <3> QED BY <1>0, <2>4, <3>1, TodoRows, OthersHold
    <2> QED BY <2>7, <2>8
  <1>7. ASSUME NEW p \in Procs, CommitRows(p)
        PROVE  \A q \in Procs : Holds(q)'
    BY <1>7, EndStep DEF CommitRows, Answers
  <1>8. ASSUME NEW p \in Procs, Victim(p)
        PROVE  \A q \in Procs : Holds(q)'
    BY <1>8, EndStep DEF Victim, Answers
  <1>9. ASSUME NEW t \in Tasks, SweepRead(t)
        PROVE  \A q \in Procs : Holds(q)'
    <2>1. PICK lapsed \in SUBSET Existing : \E order \in SetToSeqs(lapsed) :
             Continue(t, "rows", [NoSession EXCEPT !.todo = order])
      BY <1>9 DEF SweepRead
    <2>2. PICK order \in SetToSeqs(lapsed) : Continue(t, "rows", [NoSession EXCEPT !.todo = order])
      BY <2>1
    <2> DEFINE contents == [NoSession EXCEPT !.todo = order]
    <2>3. contents \in Session /\ contents.wrote = {} /\ contents.todo = order
      BY Orders, SessionTypes DEF Session, NoSession, Existing
    <2> HIDE DEF contents
    <2>4. t \in Procs /\ rowLock' = rowLock /\ pc[t] = "idle"
      BY <1>9 DEF SweepRead, Procs
    <2>5. /\ \A i \in DOMAIN order : order[i] \in Rows
          /\ \A i, j \in DOMAIN order : i # j => order[i] # order[j]
      BY OrdersOnce DEF Existing
    <2> QED BY <2>2, <2>3, <2>4, <2>5, FreeStep DEF contents, Steps
  <1>10. ASSUME UNCHANGED vars \/ (\E s \in Rows : AddSlot(s)), NEW q \in Procs
         PROVE  Holds(q)'
    <2>1. Holds(q) /\ UNCHANGED <<rowLock, pc, sess>>
      BY <1>0, <1>10 DEF vars, AddSlot
    <2> QED BY <2>1 DEF Holds
  <1>11. \A q \in Procs : Holds(q)'
    <2>1. CASE \E r \in Saves : SaveBegin(r)
      BY <1>1, <2>1
    <2>2. CASE \E p \in Procs : Proceed(p) \/ Victim(p)
      <3>1. PICK p \in Procs : Proceed(p) \/ Victim(p)
        BY <2>2
      <3>2. \/ ReadEnabled(p) \/ ReadMax(p) \/ WriteRow(p) \/ CommitRows(p)
            \/ SaveSecond(p) \/ SaveCommit(p) \/ Victim(p)
        BY <3>1 DEF Proceed
      <3> QED BY <1>2, <1>3, <1>4, <1>5, <1>6, <1>7, <1>8, <3>2
    <2>3. CASE \E t \in Tasks : SweepRead(t)
      BY <1>9, <2>3
    <2>4. CASE UNCHANGED vars \/ \E s \in Rows : AddSlot(s)
      BY <1>10, <2>4
    <2> QED BY <2>1, <2>2, <2>3, <2>4 DEF Next
  <1> QED BY <1>0, <1>11 DEF HoldInv

LEMMA HoldInvariance == Spec => []HoldInv
  <1>1. Init => HoldInv
    <2> SUFFICES ASSUME Init, NEW p \in Procs PROVE Holds(p)
      BY SettingsInit DEF HoldInv
    <2>1. p # None
      BY SettingsAssumption DEF Procs
    <2> QED BY <2>1 DEF Init, Holds, NoSession
  <1> QED BY <1>1, HoldStep, PTL DEF Spec

\* A save that has to wait for a key waits for one that waits for nothing.
LEMMA KeyHolderGoesOn ==
    ASSUME HoldInv, NEW p \in Procs, NEW q \in Procs, BlockedBy(p, q), ~WaitsFor(p, q)
    PROVE  ~\E o \in Procs : BlockedBy(q, o)
  <1>1. "enabled" \in sess[q].wrote \/ "max" \in sess[q].wrote
    BY DEF BlockedBy
  <1>2. pc[q] = "save"
    BY <1>1 DEF HoldInv, Holds
  <1>3. \A o \in Procs : ~("max" \in sess[o].wrote)
    BY DEF HoldInv, Holds
  <1> QED BY <1>2, <1>3 DEF BlockedBy, WaitsFor, Procs

\* Those who wait only for rows of each other include a circle of them: of the sets that
\* are closed under waiting take one with no smaller one in it.
LEMMA CircleFound ==
    ASSUME HoldInv, NEW S \in SUBSET Procs, S # {}, \A p \in S : \E q \in S : WaitsFor(p, q)
    PROVE  \E p \in S : Deadlocked(p)
  <1> DEFINE H == {q \in S : \E s \in Rows : rowLock[s] = q}
             Closed == {T \in SUBSET H : T # {} /\ \A p \in T : \E q \in T : WaitsFor(p, q)}
  <1>1. \A p \in S, q \in S : WaitsFor(p, q) => q \in H
    <2> TAKE p \in S, q \in S
    <2> HAVE WaitsFor(p, q)
    <2>1. sess[p].todo \in Seq(Rows) /\ sess[p].todo # <<>> /\ rowLock[Head(sess[p].todo)] = q
      BY TodoRows DEF WaitsFor, HoldInv, SInv
    <2>2. Head(sess[p].todo) \in Rows
      BY <2>1
    <2> QED BY <2>1, <2>2
  <1>2. IsFiniteSet(H)
    <2> DEFINE held == {s \in Rows : rowLock[s] \in H}
               f == [s \in held |-> rowLock[s]]
    <2>1. IsFiniteSet(held)
      BY FS_Subset, SettingsAssumption
    <2>2. f \in Surjection(held, H)
      BY DEF Surjection
    <2> HIDE DEF held, H, f
    <2> QED BY <2>1, <2>2, FS_Surjection
  <1>3. H \in Closed
    BY <1>1
  <1>4. PICK T \in Closed : \A U \in Closed : U \subseteq T => U = T
    <2>1. IsWellFoundedOn(StrictSubsetOrdering(H), SUBSET H)
      BY <1>2, FS_StrictSubsetOrderingWellFounded, FS_FiniteSubsetsOfFinite
    <2>2. Closed \in SUBSET SUBSET H /\ Closed # {}
      BY <1>3
    <2> HIDE DEF Closed, H
    <2>3. PICK T \in Closed : \A U \in Closed : ~(<<U, T>> \in StrictSubsetOrdering(H))
      BY <2>1, <2>2, WFMin
    <2>4. \A U \in Closed : <<U, T>> \in StrictSubsetOrdering(H) <=> U \subseteq T /\ U # T
      BY <2>2 DEF StrictSubsetOrdering
    <2>5. \A U \in Closed : U \subseteq T => U = T
      BY <2>3, <2>4
    <2> QED BY <2>5
  <1>5. /\ T \in SUBSET S /\ T \in SUBSET H /\ T # {} /\ T \in SUBSET Procs
        /\ \A p \in T : \E q \in T : WaitsFor(p, q)
    BY <1>4
  <1> DEFINE U == {q \in T : \E p \in T : WaitsFor(p, q)}
  <1>6. U \in SUBSET H /\ U # {} /\ \A p \in U : \E q \in U : WaitsFor(p, q)
    <2> HIDE DEF H, Closed
    <2>1. \A p \in T : \E q \in U : WaitsFor(p, q)
      BY <1>5
    <2> QED BY <1>5, <2>1
  <1>7. U = T
    <2>1. U \in Closed /\ U \subseteq T
      BY <1>6
    <2> HIDE DEF U, Closed
    <2> QED BY <1>4, <2>1
  <1>8. \A q \in T : \E p \in T : WaitsFor(p, q)
    BY <1>7
  <1>9. PICK p \in T : TRUE
    BY <1>5
  <1> HIDE DEF H, Closed, U
  <1>10. Deadlocked(p)
    BY <1>5, <1>8, <1>9 DEF Deadlocked
  <1> QED BY <1>5, <1>9, <1>10

\* However many save and reprice at once, waiting is never a silent hang: those that
\* wait for each other are found by the database, which looks at the rows only, and a
\* save that waits for a key waits for one that can commit (set_many, reprice_all,
\* release_expired_reservations).
THEOREM NobodyEverHangs == Spec => []NobodyHangs
  <1>1. HoldInv => NobodyHangs
    <2> SUFFICES ASSUME HoldInv PROVE NobodyHangs
      OBVIOUS
    <2>1. ASSUME NEW S \in SUBSET Procs, S # {}, \A p \in S : \E q \in S : BlockedBy(p, q)
          PROVE  \E p \in S : Deadlocked(p)
      <3>1. \A p \in S : \E q \in S : WaitsFor(p, q)
        BY <2>1, KeyHolderGoesOn
      <3> QED BY <2>1, <3>1, CircleFound
    <2>2. ASSUME NEW p \in Procs PROVE ~BlockedBy(p, p)
      <3> SUFFICES ASSUME WaitsFor(p, p) PROVE FALSE
        BY DEF BlockedBy
      <3>1. Holds(p) /\ sess[p].todo \in Seq(Rows)
        BY TodoRows DEF HoldInv, SInv
      <3>2. sess[p].todo # <<>> /\ pc[p] = "rows" /\ rowLock[Head(sess[p].todo)] = p
        BY DEF WaitsFor
      <3>3. 1 \in DOMAIN sess[p].todo /\ Head(sess[p].todo) = sess[p].todo[1]
        BY <3>1, <3>2
      <3> QED BY <3>1, <3>2, <3>3 DEF Holds
    <2> QED BY <2>1, <2>2 DEF NobodyHangs
  <1> QED BY <1>1, HoldInvariance, PTL

=============================================================================
