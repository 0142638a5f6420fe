-------------------------- MODULE SettingsService --------------------------
(***************************************************************************)
(* The runtime settings of the surge, saved by administrators while the    *)
(* slots are repriced from them: settings_service.py, the route            *)
(* update_system, the tail of reprice_all, its UPDATE taking the locks of  *)
(* the rows one by one, as the sweep's flush does, and add_slot, which     *)
(* inserts a row that shows no surge and reprices nothing.                 *)
(*                                                                         *)
(* Two of the settings stand for all, and the occupancy is fixed at one    *)
(* for which the multiplier is the cap whenever the surge is enabled: how  *)
(* it follows bookings, sweeps and added slots is PricingService's.        *)
(* A step is one SQL statement, or the lock of one row, or a commit.       *)
(***************************************************************************)
EXTENDS Integers, FiniteSets, Sequences, SequencesExt

CONSTANTS
    Saves,     \* POST requests to /settings/system
    Tasks,     \* the beat tasks that run: a subset of {"sweep", "reprice"}
    Rows,      \* ids that rows of parking_slots may have
    Starts,    \* what the tables may hold at first: settings (all or none) and rows
    Caps,      \* values of pricing_surge_max, in 1/100
    Malformed, \* a field that float() refuses: missing, blank or no number
    Default,   \* the settings of config.py
    Forms,     \* the forms each save may send: checkbox and field
    None,
    MaxSweeps  \* bound: how often the sweep finds lapsed holds

Keys == {"enabled", "max"}
Settings == [enabled : BOOLEAN, max : Caps]
Sent == [enabled : BOOLEAN, max : Caps \cup {Malformed}]

ASSUME SettingsAssumption ==
    /\ Tasks \subseteq {"sweep", "reprice"} /\ Saves \cap Tasks = {}
    /\ Rows \subseteq Nat /\ IsFiniteSet(Rows)
    /\ Caps \subseteq Nat
    /\ Default \in Settings
    /\ Starts \subseteq [saved : BOOLEAN, rows : SUBSET Rows]
    /\ \A r \in Saves : Forms[r] \subseteq Sent
    /\ None \notin Caps \cup {100, Malformed} /\ None \notin Saves \cup Tasks
    /\ Malformed \notin Caps
    /\ MaxSweeps \in Nat

VARIABLES
    settings,  \* table app_settings
    surge,     \* surge_multiplier of each row; None: there is no such row
    rowLock,   \* who has written the row and not committed
    pc, sess,
    sweeps,    \* how often the sweep had something to do
    unseen,    \* history: the rows the UPDATE that was committed last has not seen
    overlapped \* history: the saves during which another save was committed

slots == <<surge, unseen>>
vars == <<settings, slots, rowLock, pc, sess, sweeps, overlapped>>

-----------------------------------------------------------------------------
Procs == Saves \cup Tasks
Answers == {"saved", "error"}
Steps == {"idle", "second", "save", "enabled", "max", "rows"} \cup Answers

Existing == {s \in Rows : surge[s] # None}

\* The rows of app_settings; None: there is no row.
Table == [enabled : BOOLEAN \cup {None}, max : Caps \cup {None}]

\* batch: the form; copy: the rows loaded; wrote: the keys flushed and not committed;
\* factor: what reprice_all has computed; seen: the rows its UPDATE has seen;
\* todo: the rows still to be written, in order.
NoSession == [batch |-> None, copy |-> [enabled |-> None, max |-> None], wrote |-> {},
              factor |-> 100, seen |-> {}, todo |-> <<>>]

Session == [batch : Sent \cup {None}, copy : Table, wrote : SUBSET Keys,
            factor : Caps \cup {100}, seen : SUBSET Rows, todo : Seq(Rows)]

InFlight(p) == pc[p] \notin Answers \cup {"idle"}

\* get: the row if there is one, else the default.
Get(key) == IF settings[key] = None THEN Default[key] ELSE settings[key]

Continue(p, step, contents) ==
    /\ pc' = [pc EXCEPT ![p] = step]
    /\ sess' = [sess EXCEPT ![p] = contents]

\* p's transaction is over; a task waits for its retry or its next beat.
Finish(p, answer) ==
    /\ Continue(p, IF p \in Tasks THEN "idle" ELSE answer, NoSession)
    /\ rowLock' = [s \in Rows |-> IF rowLock[s] = p THEN None ELSE rowLock[s]]

\* The settings' table is empty until the first save, complete after it.
Init ==
    /\ \E start \in Starts :
          /\ settings = IF start.saved THEN Default ELSE [k \in Keys |-> None]
          /\ surge = [s \in Rows |-> IF s \notin start.rows THEN None
                                     ELSE IF Default.enabled THEN Default.max ELSE 100]
    /\ unseen = {}
    /\ rowLock = [s \in Rows |-> None]
    /\ pc = [p \in Procs |-> "idle"]
    /\ sess = [p \in Procs |-> NoSession]
    /\ sweeps = 0
    /\ overlapped = {}

-----------------------------------------------------------------------------
(* set_many *)

\* The first key of the form: loaded and set.
SaveBegin(r) ==
    \E batch \in Forms[r] :
        /\ pc[r] = "idle"
        /\ Continue(r, "second", [NoSession EXCEPT !.batch = batch,
                                  !.copy = [enabled |-> settings.enabled, max |-> None]])
        /\ UNCHANGED <<settings, slots, rowLock, sweeps, overlapped>>

\* A key is written only if its value is not the one that was loaded.
Dirty(r, key) == sess[r].copy[key] # sess[r].batch[key]

\* The INSERT or UPDATE of a key waits for another save's, and an INSERT fails if
\* the row has been inserted since.
Waits(r, key) == Dirty(r, key) /\ \E q \in Saves \ {r} : key \in sess[q].wrote
Conflict(r, key) == Dirty(r, key) /\ sess[r].copy[key] = None /\ settings[key] # None

\* A bug: the field is stored as it came.
Unconverted(r) == FALSE

\* float() refuses the field.
Refused(r) == sess[r].batch.max = Malformed

\* The value of the second key is converted, and the query for its row flushes the first.
SaveSecond(r) ==
    /\ pc[r] = "second"
    /\ \/ /\ Refused(r) \/ Conflict(r, "enabled")
          /\ Finish(r, "error")
       \/ /\ ~Refused(r)
          /\ ~Waits(r, "enabled") /\ ~Conflict(r, "enabled")
          /\ Continue(r, "save", [sess[r] EXCEPT
                !.copy = [enabled |-> @.enabled, max |-> settings.max],
                !.wrote = IF Dirty(r, "enabled") THEN {"enabled"} ELSE {}])
          /\ UNCHANGED rowLock
    /\ UNCHANGED <<settings, slots, sweeps, overlapped>>

\* A bug: the first key is lost, set_many commits what it has set last.
LastOnly(r) == [k \in Keys |-> IF k = "max" /\ Dirty(r, k) THEN sess[r].batch[k]
                               ELSE settings[k]]

\* The table once r commits: the keys r has changed.
Stored(r) == [k \in Keys |-> IF Dirty(r, k) THEN sess[r].batch[k] ELSE settings[k]]

\* The flush of the second key and the commit; then reprice_all.
SaveCommit(r) ==
    /\ pc[r] = "save"
    /\ \/ /\ Conflict(r, "max")
          /\ Finish(r, "error")
          /\ UNCHANGED <<settings, overlapped>>
       \/ /\ ~Waits(r, "max") /\ ~Conflict(r, "max")
          /\ settings' = Stored(r)
          /\ overlapped' = overlapped \cup {q \in Saves \ {r} : pc[q] \in {"second", "save"}}
          /\ Continue(r, "enabled", NoSession)
          /\ UNCHANGED rowLock
    /\ UNCHANGED <<slots, sweeps>>

-----------------------------------------------------------------------------
(* compute_surge and the UPDATE of reprice_all. *)

\* Each setting is a query of its own; the UPDATE goes through the rows there are when
\* it begins, in whatever order they lie.
Reprice(p, factor) ==
    \E order \in SetToSeqs(Existing) :
        Continue(p, "rows", [sess[p] EXCEPT !.factor = factor, !.seen = Existing,
                                            !.todo = order])

ReadEnabled(p) ==
    /\ \/ pc[p] = "enabled"
       \/ p = "reprice" /\ pc[p] = "idle"
    /\ IF Get("enabled") THEN Continue(p, "max", sess[p]) ELSE Reprice(p, 100)
    /\ UNCHANGED <<settings, slots, rowLock, sweeps, overlapped>>

\* A bug: the cap is that of config.py, whatever has been saved.
ReadConfigMax(p) ==
    /\ pc[p] = "max"
    /\ Reprice(p, Default.max)
    /\ UNCHANGED <<settings, slots, rowLock, sweeps, overlapped>>

ReadMax(p) ==
    /\ pc[p] = "max"
    /\ Reprice(p, Get("max"))
    /\ UNCHANGED <<settings, slots, rowLock, sweeps, overlapped>>

\* A bug: every row is committed as soon as it is written.
WriteRowCommitted(p) ==
    LET next == Head(sess[p].todo)
    IN  /\ pc[p] = "rows" /\ sess[p].todo # <<>>
        /\ rowLock[next] = None
        /\ surge' = IF p = "sweep" THEN surge ELSE [surge EXCEPT ![next] = sess[p].factor]
        /\ Continue(p, "rows", [sess[p] EXCEPT !.todo = Tail(@)])
        /\ UNCHANGED <<settings, unseen, rowLock, sweeps, overlapped>>

\* p writes its next row, once nobody else has it locked.
WriteRow(p) ==
    LET next == Head(sess[p].todo)
    IN  /\ pc[p] = "rows" /\ sess[p].todo # <<>>
        /\ rowLock[next] = None
        /\ rowLock' = [rowLock EXCEPT ![next] = p]
        /\ Continue(p, "rows", [sess[p] EXCEPT !.todo = Tail(@)])
        /\ UNCHANGED <<settings, slots, sweeps, overlapped>>

\* The multipliers once p commits: of the rows it has written.
Repriced(p) == [s \in Rows |-> IF rowLock[s] = p THEN sess[p].factor ELSE surge[s]]

CommitRows(p) ==
    /\ pc[p] = "rows" /\ sess[p].todo = <<>>
    /\ IF p = "sweep" THEN UNCHANGED slots
       ELSE surge' = Repriced(p) /\ unseen' = Existing \ sess[p].seen
    /\ Finish(p, "saved")
    /\ UNCHANGED <<settings, sweeps, overlapped>>

\* The sweep has found lapsed holds in some rows; its flush goes by primary key.  (One
\* row alone closes no circle of waits.)
SweepRead(t) ==
    \E lapsed \in SUBSET Existing : \E order \in SetToSeqs(lapsed) :
        /\ Cardinality(lapsed) > 1
        /\ \A i, j \in DOMAIN order : i < j => order[i] < order[j]
        /\ t = "sweep" /\ pc[t] = "idle"
        /\ sweeps < MaxSweeps
        /\ sweeps' = sweeps + 1
        /\ Continue(t, "rows", [NoSession EXCEPT !.todo = order])
        /\ UNCHANGED <<settings, slots, rowLock, overlapped>>

\* add_slot: a row with the default multiplier of the model, at once committed.
AddSlot(s) ==
    /\ s \notin Existing
    /\ surge' = [surge EXCEPT ![s] = 100]
    /\ unseen' = unseen \cup {s}
    /\ UNCHANGED <<settings, rowLock, pc, sess, sweeps, overlapped>>

-----------------------------------------------------------------------------
(* Deadlocks. *)

\* The next row of p is locked by q.
WaitsFor(p, q) ==
    pc[p] = "rows" /\ sess[p].todo # <<>> /\ rowLock[Head(sess[p].todo)] = q

\* A bug: the database does not look for deadlocks.
NoDetection(p) == FALSE

\* p is on a cycle of waits.
Deadlocked(p) ==
    /\ \E q \in Procs : WaitsFor(p, q)
    /\ \E cycle \in SUBSET Procs :
          /\ p \in cycle
          /\ \A q \in cycle : (\E o \in cycle : WaitsFor(q, o)) /\ (\E o \in cycle : WaitsFor(o, q))

\* PostgreSQL fails one of those who wait for each other.
Victim(p) ==
    /\ Deadlocked(p)
    /\ Finish(p, "error")
    /\ UNCHANGED <<settings, slots, sweeps, overlapped>>

-----------------------------------------------------------------------------
Proceed(p) == \/ ReadEnabled(p) \/ ReadMax(p) \/ WriteRow(p) \/ CommitRows(p)
              \/ SaveSecond(p) \/ SaveCommit(p)

Next ==
    \/ \E r \in Saves : SaveBegin(r)
    \/ \E p \in Procs : Proceed(p) \/ Victim(p)
    \/ \E t \in Tasks : SweepRead(t)
    \/ \E s \in Rows : AddSlot(s)

Spec == Init /\ [][Next]_vars

\* The workers go on, beat sends its task again; the database hands a row lock to
\* those who wait for it in their turn, and finds deadlocks.
FairSpec ==
    /\ Spec
    /\ \A p \in Procs : SF_vars(Proceed(p))
    /\ WF_vars(\E p \in Procs : Victim(p))

-----------------------------------------------------------------------------
(* Properties. *)

\* Every variable has its type.
SettingsTypeOK ==
    /\ settings \in Table
    /\ surge \in [Rows -> Caps \cup {100, None}] /\ unseen \subseteq Rows
    /\ rowLock \in [Rows -> Procs \cup {None}]
    /\ pc \in [Procs -> Steps]
    /\ sess \in [Procs -> Session]
    /\ sweeps \in 0 .. MaxSweeps
    /\ overlapped \subseteq Saves

\* The slots show one multiplier at any time, though several transactions rewrite all the
\* rows at once, row by row, each from settings read at another moment (reprice_all).
\* Left out are the slots that the UPDATE committed last has not seen: add_slot inserts
\* them without a surge and reprices nothing, and an UPDATE under way passes them over.
OneMultiplier == \A s, t \in Existing \ unseen : surge[s] = surge[t]

\* A save that no other one overlaps is stored whole: at its commit the table holds
\* the form's values (set_many: "Upsert a batch of settings").  An overlapped one
\* leaves out the keys in which it agreed with the older settings.
SaveIsWhole ==
    [][\A r \in Saves \ overlapped :
          pc[r] = "save" /\ pc'[r] = "enabled" => settings' = sess[r].batch]_vars

\* Every save is answered, whatever it waits for: the locks of the settings and of
\* the rows are given back, and a circle of waits costs one of its members an error.
EverySaveAnswered == \A r \in Saves : InFlight(r) ~> pc[r] \in Answers

\* The multiplier of the settings in force.
InForce == IF Get("enabled") THEN Get("max") ELSE 100

\* Once nobody saves or adds a slot any more, all slots show the settings in force, the
\* added ones too, though settings are read one by one between two saves and a stale
\* multiplier may be written last: the beat task repairs it, retried after a deadlock
\* (tasks.py).
SurgeFollowsSettings == <>[](\A s \in Existing : surge[s] = InForce)

=============================================================================
