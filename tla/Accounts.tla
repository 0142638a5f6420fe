------------------------------ MODULE Accounts ------------------------------
(***************************************************************************)
(* The table of users: registration, login with its lockout (security.py), *)
(* change of password, the CLI's create-admin, and the seeding of an empty *)
(* database by every web worker at its boot (wsgi.py, cli.py).             *)
(*                                                                         *)
(* A step is one SQL statement or one flush with its commit.  A password   *)
(* stands for its hash.  Left out: refusals of blank or malformed fields,  *)
(* rate limits, names.                                                     *)
(***************************************************************************)
EXTENDS Integers, FiniteSets

CONSTANTS
    Emails,      \* addresses that visitors register: not the demo administrator's
    AdminEmail,  \* admin@parking.com
    Passwords,
    AdminPassword,
    Requests,    \* HTTP requests, and runs of flask create-admin
    Workers,     \* gunicorn workers
    None,
    MaxAttempts, \* LOGIN_MAX_ATTEMPTS
    LockTicks,   \* LOGIN_LOCKOUT_MINUTES, in ticks
    MaxTime,     \* bound on the clock
    MaxCrash     \* bound on the workers that die during their boot

ASSUME AccountsAssumption ==
    /\ AdminEmail \notin Emails /\ AdminPassword \in Passwords
    /\ Requests \cap Workers = {}
    /\ IsFiniteSet(Workers)
    /\ MaxAttempts \in Nat \ {0} /\ LockTicks \in Nat \ {0}
    /\ MaxTime \in Nat /\ MaxCrash \in Nat

VARIABLES
    schema,  \* whether the tables exist
    users,   \* table users; a row's id is the process that inserted it
    lots,    \* the workers whose demo lots are committed
    demo,    \* the workers whose demo slots are committed
    signed,  \* the ids of users with a live session
    clock, pc,
    sess,    \* what each process has read, and a booting worker inserted
    crashes,
    log,     \* history, per account: wrong passwords ever and since the last right
             \* one, and locks imposed
    raced    \* history: accounts on which two logins overlapped

seedVars == <<schema, lots, demo, crashes>>
history == <<log, raced>>
vars == <<seedVars, users, signed, clock, pc, sess, history>>

-----------------------------------------------------------------------------
Procs == Requests \cup Workers

User == [email : Emails \cup {AdminEmail}, role : {"user", "admin"},
         password : Passwords, fails : Nat, until : Nat \cup {None}]

ASSUME NoneIsNoAccount == None \notin Nat \cup Procs \cup User

\* A bug: failed_logins has no default.
NewUserUncounted(email, role, password) ==
    [email |-> email, role |-> role, password |-> password, fails |-> None, until |-> None]

NewUser(email, role, password) ==
    [email |-> email, role |-> role, password |-> password, fails |-> 0, until |-> None]

\* id, copy: the row loaded; given: the password typed; admin, lots, demo: what the
\* open transaction of a booting worker adds.
NoSession == [id |-> None, copy |-> None, given |-> None, new |-> None,
              admin |-> FALSE, lots |-> FALSE, demo |-> FALSE]

Session == [id : Procs \cup {None}, copy : User \cup {None},
            given : Passwords \cup {None}, new : Passwords \cup {None},
            admin : BOOLEAN, lots : BOOLEAN, demo : BOOLEAN]

Seeding == {"boot", "create", "seed", "flush", "lots", "slots", "commit"}
Answers == {"ok", "refused", "error"}
Steps == Seeding \cup {"serving", "idle", "decide", "change", "promote"} \cup Answers

Accounts == {i \in Procs : users[i] # None}
WithEmail(email) == {i \in Accounts : users[i].email = email}

\* is_locked
IsLocked(row) == row.until # None /\ row.until > clock

\* A bug: the UPDATE writes every column of the object.
WriteAll(row, copy, new) == new

\* The UPDATE the ORM emits: the columns in which the object differs from its copy.
Written(row, copy, new) ==
    [column \in DOMAIN row |->
        IF new[column] = copy[column] THEN row[column] ELSE new[column]]

Continue(p, step, contents) ==
    /\ pc' = [pc EXCEPT ![p] = step]
    /\ sess' = [sess EXCEPT ![p] = contents]

Finish(p, answer) == Continue(p, answer, NoSession)

Init ==
    /\ schema = FALSE /\ lots = {} /\ demo = {} /\ crashes = 0
    /\ users = [i \in Procs |-> None]
    /\ signed = {}
    /\ clock = 0
    /\ pc = [p \in Procs |-> IF p \in Workers THEN "boot" ELSE "idle"]
    /\ sess = [p \in Procs |-> NoSession]
    /\ log = [i \in Procs |-> [wrongs |-> 0, row |-> 0, locks |-> 0]]
    /\ raced = {}

-----------------------------------------------------------------------------
(* Seeding. *)

\* create_all looks for the tables, then creates what is missing; who comes second
\* fails, and its seeding is skipped.
Tables(w) ==
    /\ \/ /\ pc[w] = "boot"
          /\ Continue(w, IF schema THEN "seed" ELSE "create", sess[w])
          /\ UNCHANGED schema
       \/ /\ pc[w] = "create"
          /\ Continue(w, IF schema THEN "serving" ELSE "seed", sess[w])
          /\ schema' = TRUE
    /\ UNCHANGED <<users, lots, demo, crashes, signed, clock, history>>

FindAdmin(w) ==
    LET missing == \A i \in Accounts : users[i].role # "admin"
    IN  /\ pc[w] = "seed"
        /\ Continue(w, IF missing THEN "flush" ELSE "lots", sess[w])
        /\ UNCHANGED <<users, seedVars, signed, clock, history>>

\* A bug: email is not unique.
NotUnique(w) == TRUE

\* The unique email admits the INSERT of the administrator: no row has it, and no open
\* transaction either.
Admitted(w) == WithEmail(AdminEmail) = {} /\ \A v \in Workers \ {w} : ~sess[v].admin

\* The autoflush of the new administrator, before the next query: it fails if a
\* committed row has the address, and waits for an open transaction that has it.
FlushAdmin(w) ==
    /\ pc[w] = "flush"
    /\ \/ /\ Admitted(w)
          /\ Continue(w, "lots", [sess[w] EXCEPT !.admin = TRUE])
       \/ /\ WithEmail(AdminEmail) # {}
          /\ Finish(w, "serving")
    /\ UNCHANGED <<users, seedVars, signed, clock, history>>

\* The two counts, and the flush of the lots.
CountLots(w) ==
    /\ pc[w] = "lots"
    /\ Continue(w, "slots", [sess[w] EXCEPT !.lots = lots = {}])
    /\ UNCHANGED <<users, seedVars, signed, clock, history>>

CountSlots(w) ==
    /\ pc[w] = "slots"
    /\ Continue(w, "commit", [sess[w] EXCEPT !.demo = demo = {}])
    /\ UNCHANGED <<users, seedVars, signed, clock, history>>

\* slot_number is unique: a second set of slots fails, and the lots with it.
SeedCommit(w) ==
    /\ pc[w] = "commit"
    /\ IF sess[w].demo /\ demo # {}
       THEN UNCHANGED <<users, lots, demo>>
       ELSE /\ users' = IF sess[w].admin
                        THEN [users EXCEPT ![w] = NewUser(AdminEmail, "admin", AdminPassword)]
                        ELSE users
            /\ lots' = IF sess[w].lots THEN lots \cup {w} ELSE lots
            /\ demo' = IF sess[w].demo THEN demo \cup {w} ELSE demo
    /\ Finish(w, "serving")
    /\ UNCHANGED <<schema, crashes, signed, clock, history>>

\* A bug: a worker that is replaced does not seed again.
RespawnUnseeded(w) ==
    /\ crashes < MaxCrash /\ pc[w] # "serving"
    /\ crashes' = crashes + 1
    /\ Finish(w, "serving")
    /\ UNCHANGED <<schema, lots, demo, users, signed, clock, history>>

\* gunicorn's master replaces a worker that dies; its transaction is rolled back.
Respawn(w) ==
    /\ crashes < MaxCrash /\ pc[w] # "serving"
    /\ crashes' = crashes + 1
    /\ Finish(w, "boot")
    /\ UNCHANGED <<schema, lots, demo, users, signed, clock, history>>

SeedStep(w) == \/ Tables(w) \/ FindAdmin(w) \/ FlushAdmin(w)
               \/ CountLots(w) \/ CountSlots(w) \/ SeedCommit(w)

-----------------------------------------------------------------------------
(* Requests. *)

Begin(r) == pc[r] = "idle" /\ \E w \in Workers : pc[w] = "serving"

\* One INSERT: the unique email decides.
Insert(r, email, password) ==
    IF WithEmail(email) = {}
    THEN /\ users' = [users EXCEPT ![r] = NewUser(email, "user", password)]
         /\ Finish(r, "ok")
    ELSE Finish(r, "refused") /\ UNCHANGED users

\* From the form or from the API, which alone gives a token.
Register(r) ==
    \E email \in Emails, password \in Passwords :
        /\ Begin(r)
        /\ Insert(r, email, password)
        /\ UNCHANGED <<seedVars, signed, clock, history>>

\* The logins under way on account i.
Deciding(i) == {r \in Requests : pc[r] = "decide" /\ sess[r].id = i}

\* authenticate: the row is read, and refused if it is locked.
LoginRead(r) ==
    \E email \in Emails \cup {AdminEmail}, password \in Passwords :
        LET found == WithEmail(email)
        IN  /\ Begin(r)
            /\ IF \A i \in found : IsLocked(users[i])
               THEN Finish(r, "refused") /\ UNCHANGED raced
               ELSE \E i \in found :
                      /\ Continue(r, "decide", [NoSession EXCEPT !.id = i,
                                    !.copy = users[i], !.given = password])
                      /\ raced' = IF Deciding(i) = {} THEN raced ELSE raced \cup {i}
            /\ UNCHANGED <<users, seedVars, signed, clock, log>>

\* A bug: the attempt that reaches the maximum is let through.
AttemptsOverByOne(copy) == copy.fails + 1 > MaxAttempts

\* This wrong password is one too many.
TooMany(copy) == copy.fails + 1 >= MaxAttempts

\* What authenticate makes of the object it has loaded.
Judged(copy, given) ==
    IF given = copy.password THEN [copy EXCEPT !.fails = 0, !.until = None]
    ELSE IF TooMany(copy) THEN [copy EXCEPT !.fails = 0, !.until = clock + LockTicks]
    ELSE [copy EXCEPT !.fails = @ + 1]

\* establish_session
SignIn(i) == signed' = signed \cup {i}

LoginCommit(r) ==
    LET i == sess[r].id
        copy == sess[r].copy
        right == sess[r].given = copy.password
    IN  /\ pc[r] = "decide"
        /\ users' = [users EXCEPT ![i] = Written(@, copy, Judged(copy, sess[r].given))]
        /\ IF right THEN SignIn(i) ELSE UNCHANGED signed
        /\ log' = IF right THEN [log EXCEPT ![i].row = 0]
                  ELSE [log EXCEPT ![i].wrongs = @ + 1, ![i].row = @ + 1,
                                   ![i].locks = IF TooMany(copy) THEN @ + 1 ELSE @]
        /\ Finish(r, IF right THEN "ok" ELSE "refused")
        /\ UNCHANGED <<seedVars, clock, raced>>

Logout(r) ==
    \E i \in signed :
        /\ Begin(r)
        /\ signed' = signed \ {i}
        /\ Finish(r, "ok")
        /\ UNCHANGED <<users, seedVars, clock, history>>

\* change_password: the row of current_user, then the check and the UPDATE.
ChangeRead(r) ==
    \E i \in signed, given, new \in Passwords :
        /\ Begin(r)
        /\ Continue(r, "change", [NoSession EXCEPT !.id = i, !.copy = users[i],
                                  !.given = given, !.new = new])
        /\ UNCHANGED <<users, seedVars, signed, clock, history>>

ChangeCommit(r) ==
    LET copy == sess[r].copy
    IN  /\ pc[r] = "change"
        /\ IF sess[r].given = copy.password
           THEN /\ users' = [users EXCEPT ![sess[r].id] =
                               Written(@, copy, [copy EXCEPT !.password = sess[r].new])]
                /\ Finish(r, "ok")
           ELSE Finish(r, "refused") /\ UNCHANGED users
        /\ UNCHANGED <<seedVars, signed, clock, history>>

\* flask create-admin, once the workers are up: an INSERT or a promotion.
PromoteRead(r) ==
    \E email \in Emails, new \in Passwords :
        LET found == WithEmail(email)
        IN  /\ pc[r] = "idle" /\ \A w \in Workers : pc[w] = "serving"
            /\ \E i \in IF found = {} THEN {None} ELSE found :
                  Continue(r, "promote",
                           [NoSession EXCEPT !.id = i, !.new = new,
                              !.copy = IF i = None THEN NewUser(email, "admin", new)
                                       ELSE users[i]])
            /\ UNCHANGED <<users, seedVars, signed, clock, history>>

PromoteCommit(r) ==
    LET i == sess[r].id
        copy == sess[r].copy
    IN  /\ pc[r] = "promote"
        /\ \/ /\ i = None /\ WithEmail(copy.email) # {}
              /\ Finish(r, "error")
              /\ UNCHANGED users
           \/ /\ i = None /\ WithEmail(copy.email) = {}
              /\ users' = [users EXCEPT ![r] = copy]
              /\ Finish(r, "ok")
           \/ /\ i # None
              /\ users' = [users EXCEPT ![i] = Written(@, copy,
                             [copy EXCEPT !.role = "admin", !.password = sess[r].new])]
              /\ Finish(r, "ok")
        /\ UNCHANGED <<seedVars, signed, clock, history>>

RequestStep(r) == \/ Register(r) \/ LoginRead(r) \/ LoginCommit(r) \/ Logout(r)
                  \/ ChangeRead(r) \/ ChangeCommit(r)
                  \/ PromoteRead(r) \/ PromoteCommit(r)

Tick ==
    /\ clock < MaxTime /\ \A w \in Workers : pc[w] = "serving"
    /\ clock' = clock + 1
    /\ UNCHANGED <<users, seedVars, signed, pc, sess, history>>

Done ==
    /\ clock = MaxTime
    /\ \A p \in Procs : pc[p] \in {"serving", "ok", "refused", "error"}
    /\ UNCHANGED vars

Next ==
    \/ \E w \in Workers : SeedStep(w) \/ Respawn(w)
    \/ \E r \in Requests : RequestStep(r)
    \/ Tick
    \/ Done

Spec == Init /\ [][Next]_vars
FairSpec == Spec /\ \A w \in Workers : WF_vars(SeedStep(w))

-----------------------------------------------------------------------------
(* Properties. *)

\* Every variable has its type.
AccountsTypeOK ==
    /\ schema \in BOOLEAN
    /\ users \in [Procs -> User \cup {None}]
    /\ lots \subseteq Workers /\ demo \subseteq Workers
    /\ signed \subseteq Accounts
    /\ clock \in 0 .. MaxTime /\ crashes \in 0 .. MaxCrash
    /\ pc \in [Procs -> Steps]
    /\ sess \in [Procs -> Session]
    /\ log \in [Procs -> [wrongs : Nat, row : Nat, locks : Nat]]
    /\ raced \subseteq Procs

\* No address has two accounts, whoever registers, promotes or boots at once: the
\* queries of seed_data and create_admin are made before their inserts.
OneAccountPerEmail ==
    \A i, j \in Accounts : users[i].email = users[j].email => i = j

\* An empty database is seeded once, all or nothing, by however many workers boot at
\* once: the lots have no key of their own, so it is the administrator's unique email
\* that makes a second worker wait and fail before it counts them (seed_data).
SeededOnce ==
    /\ lots = demo /\ Cardinality(lots) <= 1
    /\ lots # {} => \E i \in lots : users[i] # None /\ users[i].email = AdminEmail

\* The workers come up, and the database is seeded, though all but one may fail or
\* die on the way (wsgi.py catches what seed_data raises).
SeedingSucceeds == <>[](lots # {} /\ \A w \in Workers : pc[w] = "serving")

\* As long as no two logins on an account overlap, every wrong password counts, and the
\* account is locked by exactly every MaxAttempts-th in a row (authenticate).
FailuresCounted ==
    \A i \in Accounts \ raced :
        /\ users[i].fails = log[i].row % MaxAttempts
        /\ log[i].row >= MaxAttempts => users[i].until # None

\* Nobody is locked out who has not been mistaken often enough, in any interleaving:
\* a login may write back a stale count, but never one that was not reached.
LockHasCause ==
    \A i \in Accounts :
        /\ users[i].fails < MaxAttempts
        /\ IsLocked(users[i]) => log[i].wrongs >= MaxAttempts

\* The first lock of an account lasts its time, even if a login that has read the row
\* before is admitted after: it writes the count only, since the locked_until it has
\* read is none (authenticate under the ORM's unit of work).
FirstLockLasts ==
    [][\A i \in Accounts :
          log[i].locks = 1 /\ IsLocked(users[i]) =>
              users'[i].until = users[i].until \/ log'[i].locks > 1]_vars

=============================================================================
