--------------------------- MODULE Accounts_proofs ---------------------------
(***************************************************************************)
(* What holds of Accounts for any number of workers, requests, addresses   *)
(* and passwords, and for any maximum of attempts.                         *)
(*                                                                         *)
(* AInv is inductive.  SeedKnows says what a booting worker may conclude   *)
(* from the administrator it has inserted or found; RowKnows ties a row to *)
(* the history of its logins, and RequestKnows ties the copy of a row that *)
(* a request has in hand to the row and to that history.                   *)
(***************************************************************************)
EXTENDS Accounts, FiniteSetTheorems, TLAPS

-----------------------------------------------------------------------------
(* The inductive invariant. *)

AllServe == \A w \in Workers : pc[w] = "serving"

\* An account is there once its worker serves, or its request is answered.
PlacesInv ==
    /\ \A w \in Workers : /\ pc[w] \in Seeding \cup {"serving"}
                          /\ w \in Accounts => pc[w] = "serving"
    /\ \A r \in Requests : /\ pc[r] \in {"idle", "decide", "change", "promote"} \cup Answers
                           /\ r \in Accounts => pc[r] \in Answers

\* Whoever has inserted the administrator is alone; who has found one finds the lots.
SeedKnows(w) ==
    /\ sess[w].admin => /\ pc[w] \in {"lots", "slots", "commit"}
                        /\ lots = {} /\ WithEmail(AdminEmail) = {}
    /\ pc[w] \in {"lots", "slots", "commit"} /\ lots = {} => sess[w].admin
    /\ pc[w] \in {"slots", "commit"} => sess[w].lots = sess[w].admin
    /\ pc[w] = "commit" => sess[w].demo = sess[w].admin

SeedInv ==
    /\ lots = demo
    /\ lots = {} \/ \E w \in Workers : lots = {w} /\ w \in WithEmail(AdminEmail)
    /\ \A w \in Workers : SeedKnows(w)
    /\ \A v, w \in Workers : sess[v].admin /\ sess[w].admin => v = w
    /\ ~AllServe /\ (\E i \in Accounts : users[i].role = "admin") => lots # {}

RowKnows(i) ==
    /\ i \notin Accounts => log[i] = [wrongs |-> 0, row |-> 0, locks |-> 0]
    /\ i \in Accounts =>
          /\ users[i].fails < MaxAttempts /\ users[i].fails <= log[i].wrongs
          /\ users[i].until # None => log[i].wrongs >= MaxAttempts
          /\ log[i].locks = 0 => users[i].until = None
          /\ i \notin raced =>
                /\ users[i].fails = log[i].row % MaxAttempts
                /\ log[i].row >= MaxAttempts => users[i].until # None

LoginKnows(r) ==
    LET i == sess[r].id
        copy == sess[r].copy
    IN  /\ copy.fails < MaxAttempts /\ copy.fails <= log[i].wrongs
        /\ copy.until # None => log[i].wrongs >= MaxAttempts
        /\ log[i].locks = 0 \/ (log[i].locks = 1 /\ IsLocked(users[i])) => copy.until = None
        /\ i \notin raced =>
              /\ copy.fails = users[i].fails /\ copy.until = users[i].until
              /\ \A q \in Requests \ {r} : pc[q] = "decide" => sess[q].id # i

RequestKnows(r) ==
    /\ pc[r] \in {"decide", "change"} => sess[r].id \in Accounts
    /\ pc[r] \in {"decide", "change", "promote"} => sess[r].copy \in User
    /\ pc[r] = "decide" => LoginKnows(r)
    /\ pc[r] \in {"change", "promote"} => sess[r].new \in Passwords
    /\ pc[r] = "promote" =>
          /\ AllServe
          /\ sess[r].id \in Accounts \cup {None}
          /\ sess[r].id = None => sess[r].copy.fails = 0 /\ sess[r].copy.until = None

AInv ==
    /\ AccountsTypeOK
    /\ PlacesInv
    /\ SeedInv
    /\ OneAccountPerEmail
    /\ \A i \in Procs : RowKnows(i)
    /\ \A r \in Requests : RequestKnows(r)

-----------------------------------------------------------------------------
(* Remainders. *)

\* Counting one more, modulo the maximum.
LEMMA CountOn ==
    ASSUME NEW n \in Nat, NEW m \in Nat \ {0}
    PROVE  /\ n % m \in Nat /\ n % m < m
           /\ 0 % m = 0
           /\ (n + 1) % m = IF (n % m) + 1 >= m THEN 0 ELSE (n % m) + 1
           /\ n < m => n % m = n
  <1>1. n % m \in Nat /\ n % m < m /\ n = m * (n \div m) + (n % m) /\ n \div m \in Int
    OBVIOUS
  <1>2. \A q \in Int, r \in Int : 0 <= r /\ r < m => (m * q + r) % m = r
    OBVIOUS
  <1>3. 0 % m = 0
    BY <1>2
  <1>4. CASE (n % m) + 1 >= m
    <2>1. (n % m) + 1 = m
      BY <1>1, <1>4
    <2>2. n + 1 = m * (n \div m) + m
      BY <1>1, <2>1
    <2>3. m * (n \div m) + m = m * (n \div m + 1) + 0
      BY <1>1
    <2>4. (m * (n \div m + 1) + 0) % m = 0
      BY <1>1, <1>2
    <2>5. (n + 1) % m = 0
      BY <2>2, <2>3, <2>4
    <2> QED BY <2>5, <1>4
  <1>5. CASE (n % m) + 1 < m
    <2>1. n + 1 = m * (n \div m) + ((n % m) + 1)
      BY <1>1
    <2>2. (n + 1) % m = (n % m) + 1
      BY SMTT(30), <1>1, <1>2, <1>5, <2>1
    <2> QED BY <2>2, <1>5, <1>1
  <1>6. n < m => n % m = n
    BY <1>2
  <1> QED BY <1>1, <1>3, <1>4, <1>5, <1>6

-----------------------------------------------------------------------------
(* Rows, copies and sessions. *)

LEMMA Facts ==
    /\ NoSession \in Session /\ ~NoSession.admin
    /\ \A w \in Workers : w \in Procs /\ w \notin Requests
    /\ \A r \in Requests : r \in Procs /\ r \notin Workers
    /\ None \notin Procs
    /\ MaxAttempts \in Nat /\ MaxAttempts > 0
  BY AccountsAssumption, NoneIsNoAccount DEF NoSession, Session, Procs

LEMMA NewUserIsUser ==
    ASSUME NEW email \in Emails \cup {AdminEmail}, NEW role \in {"user", "admin"},
           NEW password \in Passwords
    PROVE  LET new == NewUser(email, role, password)
           IN  /\ new \in User /\ new # None
               /\ new.email = email /\ new.role = role /\ new.fails = 0 /\ new.until = None
  <1>1. NewUser(email, role, password) \in User
    BY DEF NewUser, User
  <1> QED BY <1>1, NoneIsNoAccount DEF NewUser

\* The UPDATE changes the columns in which the object differs from its copy.
LEMMA WrittenColumns ==
    ASSUME NEW row \in User, NEW copy \in User, NEW new \in User
    PROVE  LET x == Written(row, copy, new)
           IN  /\ x \in User /\ x # None
               /\ x.email = IF new.email = copy.email THEN row.email ELSE new.email
               /\ x.role = IF new.role = copy.role THEN row.role ELSE new.role
               /\ x.fails = IF new.fails = copy.fails THEN row.fails ELSE new.fails
               /\ x.until = IF new.until = copy.until THEN row.until ELSE new.until
  <1> DEFINE x == Written(row, copy, new)
  <1>1. DOMAIN row = {"email", "role", "password", "fails", "until"}
    BY DEF User
  <1>2. x = [column \in {"email", "role", "password", "fails", "until"} |->
                IF new[column] = copy[column] THEN row[column] ELSE new[column]]
    BY <1>1 DEF Written
  <1> HIDE DEF x
  <1>3. /\ x.email = IF new.email = copy.email THEN row.email ELSE new.email
        /\ x.role = IF new.role = copy.role THEN row.role ELSE new.role
        /\ x.password = IF new.password = copy.password THEN row.password ELSE new.password
        /\ x.fails = IF new.fails = copy.fails THEN row.fails ELSE new.fails
        /\ x.until = IF new.until = copy.until THEN row.until ELSE new.until
    BY <1>2
  <1>4. x = [email |-> x.email, role |-> x.role, password |-> x.password,
             fails |-> x.fails, until |-> x.until]
    BY <1>2
  <1>5. /\ x.email \in Emails \cup {AdminEmail} /\ x.role \in {"user", "admin"}
        /\ x.password \in Passwords /\ x.fails \in Nat /\ x.until \in Nat \cup {None}
    BY <1>3 DEF User
  <1>6. x \in User
    BY <1>4, <1>5 DEF User
  <1> QED BY <1>3, <1>6, NoneIsNoAccount DEF x

\* A process goes on: the others stay where they are.
LEMMA Continues ==
    ASSUME AccountsTypeOK, NEW p \in Procs, NEW step \in Steps, NEW contents \in Session,
           Continue(p, step, contents)
    PROVE  /\ pc' \in [Procs -> Steps] /\ sess' \in [Procs -> Session]
           /\ pc'[p] = step /\ sess'[p] = contents
           /\ \A q \in Procs \ {p} : pc'[q] = pc[q] /\ sess'[q] = sess[q]
  BY DEF AccountsTypeOK, Continue

\* The accounts are the rows.
LEMMA Rows ==
    ASSUME AccountsTypeOK
    PROVE  /\ \A i \in Accounts : i \in Procs /\ users[i] \in User /\ users[i] # None
           /\ \A i \in Procs \ Accounts : users[i] = None
           /\ \A email : WithEmail(email) = {i \in Accounts : users[i].email = email}
  BY DEF AccountsTypeOK, Accounts, WithEmail

-----------------------------------------------------------------------------
(* The steps of a booting worker. *)

\* What a step of a worker leaves alone: it inserts no row but its own, at its commit.
WorkerOnly(w) ==
    /\ UNCHANGED <<signed, clock, log, raced>>
    /\ \A q \in Procs \ {w} : pc'[q] = pc[q] /\ sess'[q] = sess[q] /\ users'[q] = users[q]
    /\ \/ users' = users
       \/ /\ users' = [users EXCEPT ![w] = NewUser(AdminEmail, "admin", AdminPassword)]
          /\ pc'[w] = "serving"

LEMMA WorkerFrame ==
    ASSUME AInv, NEW w \in Workers, pc[w] # "serving", WorkerOnly(w),
           pc'[w] \in Seeding \cup {"serving"}
    PROVE  /\ users' \in [Procs -> User \cup {None}] /\ signed' \subseteq Accounts'
           /\ PlacesInv'
           /\ \A i \in Procs : RowKnows(i)'
           /\ \A r \in Requests : RequestKnows(r)'
  <1>1. AccountsTypeOK /\ w \in Procs /\ w \notin Accounts
    BY Facts DEF AInv, PlacesInv
  <1> DEFINE new == NewUser(AdminEmail, "admin", AdminPassword)
  <1>2. new \in User /\ new # None /\ new.fails = 0 /\ new.until = None
    BY NewUserIsUser, AccountsAssumption
  <1> HIDE DEF new
  <1>3. /\ users' \in [Procs -> User \cup {None}]
        /\ \A i \in Procs \ {w} : users'[i] = users[i]
        /\ users'[w] = None \/ (users'[w] = new /\ pc'[w] = "serving")
    BY <1>1, <1>2, Rows DEF WorkerOnly, AccountsTypeOK, new
  <1>4. /\ Accounts \subseteq Accounts' /\ Accounts' \subseteq Accounts \cup {w}
        /\ \A i \in Accounts : users'[i] = users[i]
    BY <1>1, <1>3, Rows DEF Accounts
  <1>5. signed' \subseteq Accounts'
    BY <1>1, <1>4 DEF AccountsTypeOK, WorkerOnly
  <1>6. PlacesInv'
    <2>1. \A v \in Workers : /\ pc'[v] \in Seeding \cup {"serving"}
                             /\ v \in Accounts' => pc'[v] = "serving"
      BY <1>3, <1>4, Facts DEF AInv, PlacesInv, WorkerOnly, Accounts
    <2>2. \A r \in Requests :
              /\ pc'[r] \in {"idle", "decide", "change", "promote"} \cup Answers
              /\ r \in Accounts' => pc'[r] \in Answers
      BY <1>4, Facts DEF AInv, PlacesInv, WorkerOnly
    <2> QED BY <2>1, <2>2 DEF PlacesInv
  <1>7. ASSUME NEW i \in Procs
        PROVE  RowKnows(i)'
    <2>1. RowKnows(i) /\ log' = log /\ raced' = raced
      BY DEF AInv, WorkerOnly
    <2>2. CASE i # w
      <3>1. users'[i] = users[i] /\ (i \in Accounts' <=> i \in Accounts)
        BY <1>3, <2>2 DEF Accounts
      <3> QED BY <2>1, <3>1 DEF RowKnows
    <2>3. CASE i = w
      <3>1. log[w] = [wrongs |-> 0, row |-> 0, locks |-> 0]
        BY <2>1, <2>3, <1>1 DEF RowKnows
      <3>2. w \in Accounts' => users'[w].fails = 0 /\ users'[w].until = None
        BY <1>2, <1>3 DEF Accounts
      <3>3. 0 % MaxAttempts = 0 /\ ~(0 >= MaxAttempts)
        BY CountOn, Facts
      <3> QED BY <2>1, <2>3, <3>1, <3>2, <3>3, Facts DEF RowKnows
    <2> QED BY <2>2, <2>3
  <1>8. ASSUME NEW r \in Requests
        PROVE  RequestKnows(r)'
    <2>1. /\ RequestKnows(r) /\ pc'[r] = pc[r] /\ sess'[r] = sess[r]
          /\ \A q \in Requests : pc'[q] = pc[q] /\ sess'[q] = sess[q]
          /\ UNCHANGED <<log, raced, clock>>
      BY Facts DEF AInv, WorkerOnly
    <2>2. ~AllServe
      BY DEF AllServe
    <2>3. pc[r] = "decide" => LoginKnows(r)'
      BY <1>4, <2>1 DEF RequestKnows, LoginKnows, IsLocked
    <2> QED BY <1>4, <2>1, <2>2, <2>3 DEF RequestKnows
  <1> QED BY <1>3, <1>5, <1>6, <1>7, <1>8

\* A worker that inserts nothing leaves the accounts alone.
LEMMA SameUsers ==
    ASSUME users' = users
    PROVE  /\ Accounts' = Accounts
           /\ OneAccountPerEmail => OneAccountPerEmail'
           /\ \A email : WithEmail(email)' = WithEmail(email)
  BY DEF Accounts, WithEmail, OneAccountPerEmail

\* A worker goes on without a commit: what it knows at the next step is all there is
\* to show.
LEMMA WorkerGoesOn ==
    ASSUME AInv, NEW w \in Workers, pc[w] # "serving",
           NEW step \in Seeding \cup {"serving"}, NEW contents \in Session,
           Continue(w, step, contents),
           UNCHANGED <<users, lots, demo, signed, clock, log, raced>>,
           schema' \in BOOLEAN, crashes' \in 0 .. MaxCrash,
           SeedKnows(w)',
           contents.admin => sess[w].admin \/ \A v \in Workers \ {w} : ~sess[v].admin
    PROVE  AInv'
  <1>1. AccountsTypeOK /\ SeedInv /\ OneAccountPerEmail /\ w \in Procs /\ step \in Steps
    BY Facts DEF AInv, Steps
  <1>2. /\ pc' \in [Procs -> Steps] /\ sess' \in [Procs -> Session]
        /\ pc'[w] = step /\ sess'[w] = contents
        /\ \A q \in Procs \ {w} : pc'[q] = pc[q] /\ sess'[q] = sess[q]
    BY <1>1, Continues
  <1>3. WorkerOnly(w) /\ pc'[w] \in Seeding \cup {"serving"}
    BY <1>2 DEF WorkerOnly
  <1>4. /\ users' \in [Procs -> User \cup {None}] /\ signed' \subseteq Accounts'
        /\ PlacesInv'
        /\ \A i \in Procs : RowKnows(i)'
        /\ \A r \in Requests : RequestKnows(r)'
    BY <1>3, WorkerFrame
  <1>5. /\ Accounts' = Accounts /\ OneAccountPerEmail'
        /\ \A email : WithEmail(email)' = WithEmail(email)
    BY <1>1, SameUsers
  <1>6. AccountsTypeOK'
    BY <1>1, <1>2, <1>4 DEF AccountsTypeOK
  <1>7. \A v \in Workers : SeedKnows(v)'
    <2>1. ASSUME NEW v \in Workers, v # w
          PROVE  SeedKnows(v)'
      <3>1. pc'[v] = pc[v] /\ sess'[v] = sess[v]
        BY <1>2, <2>1, Facts
      <3> QED BY <1>1, <1>5, <3>1 DEF SeedInv, SeedKnows
    <2> QED BY <2>1
  <1>8. SeedInv'
    <2>1. \A u, v \in Workers : sess'[u].admin /\ sess'[v].admin => u = v
      BY <1>1, <1>2, Facts DEF SeedInv
    <2>2. ~AllServe
      BY DEF AllServe
    <2>3. (\E i \in Accounts' : users'[i].role = "admin") => lots' # {}
      BY <1>1, <1>5, <2>2 DEF SeedInv
    <2>4. lots' = demo'
      BY <1>1 DEF SeedInv
    <2>5. lots' = {} \/ \E v \in Workers : lots' = {v} /\ v \in WithEmail(AdminEmail)'
      BY <1>1, <1>5 DEF SeedInv
    <2> QED BY <1>7, <2>1, <2>3, <2>4, <2>5 DEF SeedInv
  <1> QED BY <1>4, <1>5, <1>6, <1>8 DEF AInv

LEMMA TablesKeeps ==
    ASSUME AInv, NEW w \in Workers, Tables(w)
    PROVE  AInv'
  <1>1. AccountsTypeOK /\ SeedKnows(w) /\ w \in Procs /\ sess[w] \in Session
    BY Facts DEF AInv, AccountsTypeOK, SeedInv
  <1>2. PICK step \in {"seed", "create", "serving"} : Continue(w, step, sess[w])
    BY DEF Tables
  <1>3. pc[w] \in {"boot", "create"} /\ ~sess[w].admin
    BY <1>1 DEF Tables, SeedKnows
  <1>4. pc'[w] = step /\ sess'[w] = sess[w]
    BY <1>1, <1>2, Continues DEF Steps, Seeding
  <1>5. SeedKnows(w)'
    BY <1>3, <1>4 DEF SeedKnows
  <1>6. /\ schema' \in BOOLEAN /\ crashes' \in 0 .. MaxCrash
        /\ UNCHANGED <<users, lots, demo, signed, clock, log, raced>>
    BY <1>1 DEF Tables, AccountsTypeOK, history
  <1> QED BY <1>1, <1>2, <1>3, <1>5, <1>6, WorkerGoesOn DEF Seeding

LEMMA FindAdminKeeps ==
    ASSUME AInv, NEW w \in Workers, FindAdmin(w)
    PROVE  AInv'
  <1>1. AccountsTypeOK /\ SeedInv /\ SeedKnows(w) /\ w \in Procs /\ sess[w] \in Session
    BY Facts DEF AInv, AccountsTypeOK, SeedInv
  <1>2. pc[w] = "seed" /\ ~sess[w].admin /\ ~AllServe
    BY <1>1 DEF FindAdmin, SeedKnows, AllServe
  <1>3. PICK step \in {"flush", "lots"} :
            /\ Continue(w, step, sess[w])
            /\ step = "lots" => \E i \in Accounts : users[i].role = "admin"
    BY DEF FindAdmin
  <1>4. pc'[w] = step /\ sess'[w] = sess[w]
    BY <1>1, <1>3, Continues DEF Steps, Seeding
  <1>5. SeedKnows(w)'
    BY <1>1, <1>2, <1>3, <1>4 DEF SeedKnows, SeedInv, FindAdmin, seedVars
  <1>6. /\ schema' \in BOOLEAN /\ crashes' \in 0 .. MaxCrash
        /\ UNCHANGED <<users, lots, demo, signed, clock, log, raced>>
    BY <1>1 DEF FindAdmin, AccountsTypeOK, seedVars, history
  <1> QED BY <1>1, <1>2, <1>3, <1>5, <1>6, WorkerGoesOn DEF Seeding

LEMMA FlushAdminKeeps ==
    ASSUME AInv, NEW w \in Workers, FlushAdmin(w)
    PROVE  AInv'
  <1>1. AccountsTypeOK /\ SeedInv /\ SeedKnows(w) /\ w \in Procs /\ sess[w] \in Session
    BY Facts DEF AInv, AccountsTypeOK, SeedInv
  <1>2. pc[w] = "flush"
    BY DEF FlushAdmin
  <1>3. /\ schema' \in BOOLEAN /\ crashes' \in 0 .. MaxCrash
        /\ UNCHANGED <<users, lots, demo, signed, clock, log, raced>>
    BY <1>1 DEF FlushAdmin, AccountsTypeOK, seedVars, history
  <1>4. CASE Admitted(w) /\ Continue(w, "lots", [sess[w] EXCEPT !.admin = TRUE])
    <2> DEFINE contents == [sess[w] EXCEPT !.admin = TRUE]
    <2>1. contents \in Session /\ contents.admin
      BY <1>1 DEF Session
    <2> HIDE DEF contents
    <2>2. pc'[w] = "lots" /\ sess'[w] = contents
      BY <1>1, <1>4, <2>1, Continues DEF Steps, Seeding, contents
    <2>3. WithEmail(AdminEmail)' = {} /\ lots' = {}
      BY <1>1, <1>3, <1>4, SameUsers DEF Admitted, SeedInv
    <2>4. SeedKnows(w)'
      BY <2>1, <2>2, <2>3 DEF SeedKnows
    <2>5. \A v \in Workers \ {w} : ~sess[v].admin
      BY <1>4 DEF Admitted
    <2>6. "lots" \in Seeding \cup {"serving"} /\ Continue(w, "lots", contents)
      BY <1>4 DEF Seeding, contents
    <2> QED BY <1>2, <1>3, <2>1, <2>4, <2>5, <2>6, WorkerGoesOn
  <1>5. CASE Finish(w, "serving")
    <2>1. pc'[w] = "serving" /\ sess'[w] = NoSession
      BY <1>1, <1>5, Facts, Continues DEF Steps, Finish
    <2>2. SeedKnows(w)'
      BY <2>1, Facts DEF SeedKnows
    <2> QED BY <1>2, <1>3, <1>5, <2>2, Facts, WorkerGoesOn DEF Finish
  <1> QED BY <1>4, <1>5 DEF FlushAdmin

LEMMA CountLotsKeeps ==
    ASSUME AInv, NEW w \in Workers, CountLots(w)
    PROVE  AInv'
  <1> DEFINE contents == [sess[w] EXCEPT !.lots = lots = {}]
  <1>1. AccountsTypeOK /\ SeedInv /\ SeedKnows(w) /\ w \in Procs /\ sess[w] \in Session
    BY Facts DEF AInv, AccountsTypeOK, SeedInv
  <1>2. /\ contents \in Session /\ contents.admin = sess[w].admin
        /\ contents.lots = (lots = {})
    BY <1>1 DEF Session
  <1>3. Continue(w, "slots", contents) /\ pc[w] = "lots"
    BY DEF CountLots
  <1> HIDE DEF contents
  <1>4. pc'[w] = "slots" /\ sess'[w] = contents
    BY <1>1, <1>2, <1>3, Continues DEF Steps, Seeding
  <1>5. /\ schema' \in BOOLEAN /\ crashes' \in 0 .. MaxCrash
        /\ UNCHANGED <<users, lots, demo, signed, clock, log, raced>>
    BY <1>1 DEF CountLots, AccountsTypeOK, seedVars, history
  <1>6. WithEmail(AdminEmail)' = WithEmail(AdminEmail)
    BY <1>5, SameUsers
  <1>7. contents.lots = contents.admin
    BY <1>1, <1>2, <1>3 DEF SeedKnows, Session
  <1>8. SeedKnows(w)'
    BY <1>1, <1>2, <1>3, <1>4, <1>5, <1>6, <1>7 DEF SeedKnows
  <1> QED BY <1>1, <1>2, <1>3, <1>5, <1>8, WorkerGoesOn DEF Seeding

LEMMA CountSlotsKeeps ==
    ASSUME AInv, NEW w \in Workers, CountSlots(w)
    PROVE  AInv'
  <1> DEFINE contents == [sess[w] EXCEPT !.demo = demo = {}]
  <1>1. AccountsTypeOK /\ SeedInv /\ SeedKnows(w) /\ w \in Procs /\ sess[w] \in Session
    BY Facts DEF AInv, AccountsTypeOK, SeedInv
  <1>2. /\ contents \in Session /\ contents.admin = sess[w].admin
        /\ contents.lots = sess[w].lots /\ contents.demo = (demo = {})
    BY <1>1 DEF Session
  <1>3. Continue(w, "commit", contents) /\ pc[w] = "slots"
    BY DEF CountSlots
  <1> HIDE DEF contents
  <1>4. pc'[w] = "commit" /\ sess'[w] = contents
    BY <1>1, <1>2, <1>3, Continues DEF Steps, Seeding
  <1>5. /\ schema' \in BOOLEAN /\ crashes' \in 0 .. MaxCrash
        /\ UNCHANGED <<users, lots, demo, signed, clock, log, raced>>
    BY <1>1 DEF CountSlots, AccountsTypeOK, seedVars, history
  <1>6. WithEmail(AdminEmail)' = WithEmail(AdminEmail)
    BY <1>5, SameUsers
  <1>7. contents.demo = contents.admin
    BY <1>1, <1>2, <1>3 DEF SeedKnows, Session, SeedInv
  <1>8. SeedKnows(w)'
    BY <1>1, <1>2, <1>3, <1>4, <1>5, <1>6, <1>7 DEF SeedKnows
  <1> QED BY <1>1, <1>2, <1>3, <1>5, <1>8, WorkerGoesOn DEF Seeding

LEMMA RespawnKeeps ==
    ASSUME AInv, NEW w \in Workers, Respawn(w)
    PROVE  AInv'
  <1>1. AccountsTypeOK /\ w \in Procs
    BY Facts DEF AInv
  <1>2. pc[w] # "serving" /\ Continue(w, "boot", NoSession)
    BY DEF Respawn, Finish
  <1>3. pc'[w] = "boot" /\ sess'[w] = NoSession
    BY <1>1, <1>2, Facts, Continues DEF Steps, Seeding
  <1>4. /\ schema' \in BOOLEAN /\ crashes' \in 0 .. MaxCrash
        /\ UNCHANGED <<users, lots, demo, signed, clock, log, raced>>
    BY <1>1, AccountsAssumption DEF Respawn, AccountsTypeOK, history
  <1>5. SeedKnows(w)'
    BY <1>3, Facts DEF SeedKnows
  <1> QED BY <1>2, <1>4, <1>5, Facts, WorkerGoesOn DEF Seeding

\* The commit of the seeding: the administrator, the lots and the slots, or nothing.
LEMMA SeedCommitKeeps ==
    ASSUME AInv, NEW w \in Workers, SeedCommit(w)
    PROVE  AInv'
  <1>1. AccountsTypeOK /\ SeedInv /\ SeedKnows(w) /\ w \in Procs /\ w \notin Accounts
    BY Facts DEF AInv, SeedInv, PlacesInv, SeedCommit
  <1>2. /\ pc[w] = "commit" /\ Continue(w, "serving", NoSession)
        /\ UNCHANGED <<schema, crashes, signed, clock, log, raced>>
    BY DEF SeedCommit, Finish, history
  <1>3. /\ pc' \in [Procs -> Steps] /\ sess' \in [Procs -> Session]
        /\ pc'[w] = "serving" /\ sess'[w] = NoSession
        /\ \A q \in Procs \ {w} : pc'[q] = pc[q] /\ sess'[q] = sess[q]
    BY <1>1, <1>2, Facts, Continues DEF Steps
  <1>4. SeedKnows(w)'
    BY <1>3, Facts DEF SeedKnows
  <1>5. CASE ~sess[w].admin
    <2>1. ~sess[w].lots /\ ~sess[w].demo
      BY <1>1, <1>2, <1>5 DEF SeedKnows
    <2>2. UNCHANGED <<users, lots, demo>>
      BY <1>5, <2>1 DEF SeedCommit
    <2>3. schema' \in BOOLEAN /\ crashes' \in 0 .. MaxCrash
      BY <1>1, <1>2 DEF AccountsTypeOK
    <2> QED BY <1>2, <1>4, <2>2, <2>3, Facts, WorkerGoesOn
  <1>6. CASE sess[w].admin
    <2> DEFINE new == NewUser(AdminEmail, "admin", AdminPassword)
    <2>1. sess[w].lots /\ sess[w].demo /\ lots = {} /\ demo = {} /\ WithEmail(AdminEmail) = {}
      BY <1>1, <1>2, <1>6 DEF SeedKnows, SeedInv
    <2>2. users' = [users EXCEPT ![w] = new] /\ lots' = {w} /\ demo' = {w}
      BY <1>6, <2>1 DEF SeedCommit
    <2>3. new \in User /\ new # None /\ new.email = AdminEmail
      BY NewUserIsUser, AccountsAssumption
    <2>4. WorkerOnly(w)
      BY <1>1, <1>2, <1>3, <2>2 DEF WorkerOnly, AccountsTypeOK
    <2> HIDE DEF new
    <2>5. /\ users' \in [Procs -> User \cup {None}] /\ signed' \subseteq Accounts'
          /\ PlacesInv'
          /\ \A i \in Procs : RowKnows(i)'
          /\ \A r \in Requests : RequestKnows(r)'
      BY <1>2, <1>3, <2>4, WorkerFrame
    <2>6. /\ Accounts' = Accounts \cup {w} /\ users'[w] = new
          /\ \A i \in Accounts : users'[i] = users[i]
      BY <1>1, <2>2, <2>3 DEF Accounts, AccountsTypeOK
    <2>7. OneAccountPerEmail'
      <3>1. \A i \in Accounts : users[i].email # AdminEmail
        BY <1>1, <2>1, Rows
      <3> QED BY <2>3, <2>6, <3>1 DEF AInv, OneAccountPerEmail
    <2>8. AccountsTypeOK'
      BY <1>1, <1>2, <1>3, <2>2, <2>5 DEF AccountsTypeOK
    <2>9. w \in WithEmail(AdminEmail)'
      BY <2>3, <2>6 DEF WithEmail
    <2>10. \A v \in Workers : SeedKnows(v)'
      <3>1. ASSUME NEW v \in Workers, v # w
            PROVE  SeedKnows(v)'
        <4>1. pc'[v] = pc[v] /\ sess'[v] = sess[v] /\ ~sess[v].admin
          BY <1>1, <1>3, <1>6, <3>1, Facts DEF SeedInv
        <4>2. pc[v] \notin {"lots", "slots", "commit"}
          BY <1>1, <2>1, <4>1 DEF SeedInv, SeedKnows
        <4> QED BY <4>1, <4>2 DEF SeedKnows
      <3> QED BY <1>4, <3>1
    <2>11. \A u, v \in Workers : sess'[u].admin /\ sess'[v].admin => u = v
      BY <1>1, <1>3, Facts DEF SeedInv
    <2>12. SeedInv'
      BY <2>2, <2>9, <2>10, <2>11 DEF SeedInv
    <2> QED BY <2>5, <2>7, <2>8, <2>12 DEF AInv
  <1> QED BY <1>5, <1>6

-----------------------------------------------------------------------------
(* The steps of a request. *)

\* Request r goes on, nothing of the seeding changes.
Goes(r) ==
    /\ pc[r] \notin Answers
    /\ pc'[r] \in {"decide", "change", "promote"} \cup Answers
    /\ pc' \in [Procs -> Steps] /\ sess' \in [Procs -> Session]
    /\ \A q \in Procs \ {r} : pc'[q] = pc[q] /\ sess'[q] = sess[q]
    /\ UNCHANGED seedVars

\* Accounts keep their addresses, and their roles while a worker boots; r may insert
\* its own, at an address nobody has.
Directory(r) ==
    /\ users' \in [Procs -> User \cup {None}]
    /\ \A i \in Accounts : /\ i \in Accounts' /\ users'[i].email = users[i].email
                           /\ AllServe \/ users'[i].role = users[i].role
    /\ \A i \in Accounts' \ Accounts :
           /\ i = r /\ pc'[r] \in Answers /\ WithEmail(users'[i].email) = {}
           /\ AllServe \/ (users'[i].role = "user" /\ users'[i].email # AdminEmail)

LEMMA RequestFrame ==
    ASSUME AInv, NEW r \in Requests, Goes(r), Directory(r)
    PROVE  PlacesInv' /\ SeedInv' /\ OneAccountPerEmail'
  <1>1. AccountsTypeOK /\ PlacesInv /\ SeedInv /\ OneAccountPerEmail /\ r \in Procs
    BY Facts DEF AInv
  <1>2. /\ \A w \in Workers : pc'[w] = pc[w] /\ sess'[w] = sess[w]
        /\ AllServe' <=> AllServe
    BY Facts DEF Goes, AllServe
  <1>3. r \notin Accounts
    BY <1>1 DEF PlacesInv, Goes
  <1>4. PlacesInv'
    <2>1. \A w \in Workers : w \in Accounts' => pc'[w] = "serving"
      BY <1>1, <1>2, Facts DEF PlacesInv, Directory
    <2>2. \A q \in Requests :
              /\ pc'[q] \in {"idle", "decide", "change", "promote"} \cup Answers
              /\ q \in Accounts' => pc'[q] \in Answers
      BY <1>1, <1>3, Facts DEF PlacesInv, Directory, Goes
    <2> QED BY <1>1, <1>2, <2>1, <2>2 DEF PlacesInv
  <1>5. \A i \in WithEmail(AdminEmail) : i \in WithEmail(AdminEmail)'
    BY DEF WithEmail, Directory
  <1>6. ~AllServe => WithEmail(AdminEmail)' = WithEmail(AdminEmail)
    BY DEF WithEmail, Directory
  <1>7. \A w \in Workers : SeedKnows(w)'
    <2>1. ASSUME NEW w \in Workers
          PROVE  SeedKnows(w)'
      <3>1. SeedKnows(w) /\ pc'[w] = pc[w] /\ sess'[w] = sess[w] /\ lots' = lots
        BY <1>1, <1>2 DEF SeedInv, Goes, seedVars
      <3>2. CASE AllServe
        BY <3>1, <3>2 DEF SeedKnows, AllServe
      <3>3. CASE ~AllServe
        BY <3>1, <3>3, <1>6 DEF SeedKnows
      <3> QED BY <3>2, <3>3
    <2> QED BY <2>1
  <1>8. SeedInv'
    <2>1. lots' = lots /\ demo' = demo
      BY DEF Goes, seedVars
    <2>2. lots' = {} \/ \E w \in Workers : lots' = {w} /\ w \in WithEmail(AdminEmail)'
      BY <1>1, <1>5, <2>1 DEF SeedInv
    <2>3. \A v, w \in Workers : sess'[v].admin /\ sess'[w].admin => v = w
      BY <1>1, <1>2 DEF SeedInv
    <2>4. ~AllServe' /\ (\E i \in Accounts' : users'[i].role = "admin") => lots' # {}
      <3>1. ASSUME ~AllServe, NEW i \in Accounts', users'[i].role = "admin"
            PROVE  i \in Accounts /\ users[i].role = "admin"
        BY <3>1 DEF Directory
      <3> QED BY <3>1, <1>1, <1>2, <2>1 DEF SeedInv
    <2> QED BY <1>1, <1>7, <2>1, <2>2, <2>3, <2>4 DEF SeedInv
  <1>9. OneAccountPerEmail'
    <2>1. ASSUME NEW i \in Accounts', NEW j \in Accounts', users'[i].email = users'[j].email
          PROVE  i = j
      <3>1. CASE i \in Accounts /\ j \in Accounts
        BY <1>1, <2>1, <3>1 DEF OneAccountPerEmail, Directory
      <3>2. CASE i \notin Accounts /\ j \notin Accounts
        BY <2>1, <3>2 DEF Directory
      <3>3. CASE i \in Accounts /\ j \notin Accounts
        BY <2>1, <3>3 DEF Directory, WithEmail
      <3>4. CASE i \notin Accounts /\ j \in Accounts
        BY <2>1, <3>4 DEF Directory, WithEmail
      <3> QED BY <3>1, <3>2, <3>3, <3>4
    <2> QED BY <2>1 DEF OneAccountPerEmail
  <1> QED BY <1>4, <1>8, <1>9

\* The counts and the locks of the accounts stay, a new account begins with none.
CountsStay ==
    /\ UNCHANGED <<clock, log, raced>>
    /\ \A i \in Accounts : users'[i].fails = users[i].fails /\ users'[i].until = users[i].until
    /\ \A i \in Accounts' \ Accounts : users'[i].fails = 0 /\ users'[i].until = None

LEMMA CountsFrame ==
    ASSUME AInv, NEW r \in Requests, Goes(r), Directory(r), CountsStay, pc'[r] # "decide",
           RequestKnows(r)'
    PROVE  /\ \A i \in Procs : RowKnows(i)'
           /\ \A q \in Requests : RequestKnows(q)'
  <1>1. ASSUME NEW i \in Procs
        PROVE  RowKnows(i)'
    <2>1. RowKnows(i) /\ log' = log /\ raced' = raced
      BY DEF AInv, CountsStay
    <2>2. CASE i \in Accounts
      BY <2>1, <2>2 DEF RowKnows, CountsStay, Directory
    <2>3. CASE i \notin Accounts /\ i \in Accounts'
      <3>1. 0 % MaxAttempts = 0 /\ ~(0 >= MaxAttempts)
        BY CountOn, Facts
      <3> QED BY <2>1, <2>3, <3>1, Facts DEF RowKnows, CountsStay
    <2>4. CASE i \notin Accounts /\ i \notin Accounts'
      BY <2>1, <2>4 DEF RowKnows
    <2> QED BY <2>2, <2>3, <2>4
  <1>2. ASSUME NEW q \in Requests, q # r
        PROVE  RequestKnows(q)'
    <2>1. /\ RequestKnows(q) /\ pc'[q] = pc[q] /\ sess'[q] = sess[q]
          /\ log' = log /\ raced' = raced /\ clock' = clock
      BY <1>2, Facts DEF AInv, Goes, CountsStay
    <2>2. AllServe => AllServe'
      BY Facts DEF AllServe, Goes
    <2>3. \A o \in Requests : pc'[o] = "decide" => pc[o] = "decide" /\ sess'[o] = sess[o]
      BY Facts DEF Goes
    <2>4. pc[q] = "decide" => LoginKnows(q)'
      <3>1. SUFFICES ASSUME pc[q] = "decide" PROVE LoginKnows(q)'
        OBVIOUS
      <3>2. sess[q].id \in Accounts /\ LoginKnows(q)
        BY <2>1, <3>1 DEF RequestKnows
      <3> QED BY <2>1, <2>3, <3>2 DEF LoginKnows, IsLocked, CountsStay
    <2>5. Accounts \subseteq Accounts'
      BY DEF Directory
    <2> QED BY <2>1, <2>2, <2>4, <2>5 DEF RequestKnows
  <1> QED BY <1>1, <1>2

\* A step of a request that is no login.
LEMMA RequestKeeps ==
    ASSUME AInv, NEW r \in Requests, Goes(r), Directory(r), CountsStay, pc'[r] # "decide",
           RequestKnows(r)', signed' \subseteq Accounts'
    PROVE  AInv'
  <1>1. AccountsTypeOK'
    BY DEF AInv, AccountsTypeOK, Goes, Directory, CountsStay, seedVars
  <1>2. PlacesInv' /\ SeedInv' /\ OneAccountPerEmail'
    BY RequestFrame
  <1>3. (\A i \in Procs : RowKnows(i)') /\ (\A q \in Requests : RequestKnows(q)')
    BY CountsFrame
  <1> QED BY <1>1, <1>2, <1>3 DEF AInv

\* The users stay as they are.
LEMMA UsersStay ==
    ASSUME AInv, users' = users
    PROVE  /\ Accounts' = Accounts
           /\ \A r \in Requests : Directory(r)
           /\ UNCHANGED <<clock, log, raced>> => CountsStay
  <1>1. Accounts' = Accounts
    BY SameUsers
  <1> QED BY <1>1 DEF AInv, AccountsTypeOK, Directory, CountsStay

\* r answers, and has nothing in hand any more.
LEMMA Answered ==
    ASSUME AInv, NEW r \in Requests, pc[r] \notin Answers, NEW answer \in Answers,
           Finish(r, answer), UNCHANGED seedVars
    PROVE  Goes(r) /\ RequestKnows(r)' /\ pc'[r] = answer
  <1>1. r \in Procs /\ AccountsTypeOK /\ answer \in Steps
    BY Facts DEF AInv, Steps
  <1>2. /\ pc' \in [Procs -> Steps] /\ sess' \in [Procs -> Session]
        /\ pc'[r] = answer
        /\ \A q \in Procs \ {r} : pc'[q] = pc[q] /\ sess'[q] = sess[q]
    BY <1>1, Facts, Continues DEF Finish
  <1> QED BY <1>2 DEF Goes, RequestKnows, Answers

\* r goes on with a row in hand.
LEMMA GoesOn ==
    ASSUME AInv, NEW r \in Requests, pc[r] \notin Answers,
           NEW step \in {"decide", "change", "promote"}, NEW contents \in Session,
           Continue(r, step, contents), UNCHANGED seedVars
    PROVE  Goes(r) /\ pc'[r] = step /\ sess'[r] = contents
  <1>1. r \in Procs /\ AccountsTypeOK /\ step \in Steps
    BY Facts DEF AInv, Steps
  <1> QED BY <1>1, Continues DEF Goes

LEMMA RegisterKeeps ==
    ASSUME AInv, NEW r \in Requests, Register(r)
    PROVE  AInv'
  <1>1. PICK email \in Emails, password \in Passwords : Insert(r, email, password)
    BY DEF Register
  <1>2. /\ UNCHANGED <<signed, clock, log, raced>> /\ UNCHANGED seedVars
        /\ pc[r] = "idle" /\ pc[r] \notin Answers /\ signed \subseteq Accounts
        /\ r \in Procs /\ r \notin Accounts
    BY Facts DEF Register, Begin, history, Answers, AInv, AccountsTypeOK, PlacesInv
  <1>3. CASE WithEmail(email) # {}
    <2>1. Finish(r, "refused") /\ users' = users
      BY <1>1, <1>3 DEF Insert
    <2>2. Goes(r) /\ RequestKnows(r)' /\ pc'[r] = "refused"
      BY <1>2, <2>1, Answered DEF Answers
    <2> QED BY <1>2, <2>1, <2>2, UsersStay, RequestKeeps
  <1>4. CASE WithEmail(email) = {}
    <2> DEFINE new == NewUser(email, "user", password)
    <2>1. Finish(r, "ok") /\ users' = [users EXCEPT ![r] = new]
      BY <1>1, <1>4 DEF Insert
    <2>2. Goes(r) /\ RequestKnows(r)' /\ pc'[r] = "ok" /\ "ok" \in Answers
      BY <1>2, <2>1, Answered DEF Answers
    <2>3. /\ new \in User /\ new # None /\ new.email = email /\ new.role = "user"
          /\ new.fails = 0 /\ new.until = None /\ email # AdminEmail
      BY NewUserIsUser, AccountsAssumption
    <2> HIDE DEF new
    <2>4. /\ Accounts' = Accounts \cup {r} /\ users'[r] = new
          /\ \A i \in Accounts : users'[i] = users[i]
          /\ users' \in [Procs -> User \cup {None}]
      BY <1>2, <2>1, <2>3 DEF AInv, AccountsTypeOK, Accounts
    <2>5. Directory(r) /\ CountsStay
      BY <1>2, <1>4, <2>2, <2>3, <2>4 DEF Directory, CountsStay
    <2> QED BY <1>2, <2>2, <2>4, <2>5, RequestKeeps
  <1> QED BY <1>3, <1>4

LEMMA LogoutKeeps ==
    ASSUME AInv, NEW r \in Requests, Logout(r)
    PROVE  AInv'
  <1>1. /\ Finish(r, "ok") /\ UNCHANGED <<users, clock, log, raced>> /\ UNCHANGED seedVars
        /\ pc[r] \notin Answers /\ signed' \subseteq Accounts
    BY DEF Logout, Begin, history, Answers, AInv, AccountsTypeOK
  <1>2. Goes(r) /\ RequestKnows(r)' /\ pc'[r] = "ok"
    BY <1>1, Answered DEF Answers
  <1> QED BY <1>1, <1>2, UsersStay, RequestKeeps

LEMMA ChangeReadKeeps ==
    ASSUME AInv, NEW r \in Requests, ChangeRead(r)
    PROVE  AInv'
  <1>1. PICK i \in signed, given \in Passwords, new \in Passwords :
            Continue(r, "change", [NoSession EXCEPT !.id = i, !.copy = users[i],
                                   !.given = given, !.new = new])
    BY DEF ChangeRead
  <1> DEFINE contents == [NoSession EXCEPT !.id = i, !.copy = users[i],
                                           !.given = given, !.new = new]
  <1>2. /\ UNCHANGED <<users, signed, clock, log, raced>> /\ UNCHANGED seedVars
        /\ pc[r] \notin Answers /\ signed \subseteq Accounts
    BY DEF ChangeRead, Begin, history, Answers, AInv, AccountsTypeOK
  <1>3. i \in Accounts /\ users[i] \in User /\ i \in Procs
    BY <1>2, Rows DEF AInv
  <1>4. /\ contents \in Session /\ contents.id = i /\ contents.copy = users[i]
        /\ contents.new = new
    <2>1. NoSession \in Session
      BY Facts
    <2> QED BY <2>1, <1>3 DEF Session
  <1> HIDE DEF contents
  <1>5. Goes(r) /\ pc'[r] = "change" /\ sess'[r] = contents
    BY <1>1, <1>2, <1>4, GoesOn DEF contents
  <1>6. Accounts' = Accounts /\ Directory(r) /\ CountsStay
    BY <1>2, UsersStay
  <1>7. RequestKnows(r)'
    BY <1>3, <1>4, <1>5, <1>6 DEF RequestKnows
  <1> QED BY <1>2, <1>5, <1>6, <1>7, RequestKeeps

\* An UPDATE of password and role only.
LEMMA ProfileWritten ==
    ASSUME AInv, NEW r \in Requests, NEW i \in Accounts, NEW copy \in User, NEW new \in User,
           new.email = copy.email, new.fails = copy.fails, new.until = copy.until,
           AllServe \/ new.role = copy.role,
           users' = [users EXCEPT ![i] = Written(users[i], copy, new)],
           UNCHANGED <<clock, log, raced>>
    PROVE  Accounts' = Accounts /\ Directory(r) /\ CountsStay
  <1> DEFINE x == Written(users[i], copy, new)
  <1>1. i \in Procs /\ users[i] \in User /\ AccountsTypeOK
    BY Rows DEF AInv
  <1>2. /\ x \in User /\ x # None /\ x.email = users[i].email /\ x.fails = users[i].fails
        /\ x.until = users[i].until
        /\ AllServe \/ x.role = users[i].role
    BY <1>1, WrittenColumns
  <1> HIDE DEF x
  <1>3. /\ users' \in [Procs -> User \cup {None}] /\ users'[i] = x
        /\ \A j \in Procs \ {i} : users'[j] = users[j]
    BY <1>1, <1>2 DEF AccountsTypeOK, x
  <1>4. Accounts' = Accounts
    BY <1>1, <1>2, <1>3, Rows DEF Accounts
  <1>5. \A j \in Accounts : /\ users'[j].email = users[j].email
                            /\ users'[j].fails = users[j].fails
                            /\ users'[j].until = users[j].until
                            /\ AllServe \/ users'[j].role = users[j].role
    <2>1. ASSUME NEW j \in Accounts
          PROVE  /\ users'[j].email = users[j].email
                 /\ users'[j].fails = users[j].fails
                 /\ users'[j].until = users[j].until
                 /\ AllServe \/ users'[j].role = users[j].role
      <3>1. CASE j = i
        BY <1>2, <1>3, <3>1
      <3>2. CASE j # i
        <4>1. users'[j] = users[j]
          BY <1>1, <1>3, <3>2, Rows
        <4> QED BY <4>1
      <3> QED BY <3>1, <3>2
    <2> QED BY <2>1
  <1> QED BY <1>3, <1>4, <1>5 DEF Directory, CountsStay

LEMMA ChangeCommitKeeps ==
    ASSUME AInv, NEW r \in Requests, ChangeCommit(r)
    PROVE  AInv'
  <1> DEFINE i == sess[r].id
             copy == sess[r].copy
             new == [copy EXCEPT !.password = sess[r].new]
  <1>1. /\ UNCHANGED <<signed, clock, log, raced>> /\ UNCHANGED seedVars
        /\ pc[r] = "change" /\ pc[r] \notin Answers /\ signed \subseteq Accounts
    BY DEF ChangeCommit, history, Answers, AInv, AccountsTypeOK
  <1>2. i \in Accounts /\ copy \in User /\ sess[r].new \in Passwords
    BY <1>1 DEF AInv, RequestKnows
  <1>3. CASE Finish(r, "refused") /\ users' = users
    <2>1. Goes(r) /\ RequestKnows(r)' /\ pc'[r] = "refused"
      BY <1>1, <1>3, Answered DEF Answers
    <2> QED BY <1>1, <1>3, <2>1, UsersStay, RequestKeeps
  <1>4. CASE Finish(r, "ok") /\ users' = [users EXCEPT ![i] = Written(users[i], copy, new)]
    <2>1. Goes(r) /\ RequestKnows(r)' /\ pc'[r] = "ok"
      BY <1>1, <1>4, Answered DEF Answers
    <2>2. /\ new \in User /\ new.email = copy.email /\ new.fails = copy.fails
          /\ new.until = copy.until /\ new.role = copy.role
      BY <1>2 DEF User
    <2> HIDE DEF i, copy, new
    <2>3. Accounts' = Accounts /\ Directory(r) /\ CountsStay
      BY <1>1, <1>2, <1>4, <2>2, ProfileWritten
    <2> QED BY <1>1, <2>1, <2>3, RequestKeeps
  <1> QED BY <1>3, <1>4 DEF ChangeCommit

LEMMA PromoteReadKeeps ==
    ASSUME AInv, NEW r \in Requests, PromoteRead(r)
    PROVE  AInv'
  <1>1. PICK email \in Emails, new \in Passwords :
            \E i \in IF WithEmail(email) = {} THEN {None} ELSE WithEmail(email) :
                Continue(r, "promote",
                         [NoSession EXCEPT !.id = i, !.new = new,
                            !.copy = IF i = None THEN NewUser(email, "admin", new)
                                     ELSE users[i]])
    BY DEF PromoteRead
  <1>2. PICK i \in IF WithEmail(email) = {} THEN {None} ELSE WithEmail(email) :
            Continue(r, "promote",
                     [NoSession EXCEPT !.id = i, !.new = new,
                        !.copy = IF i = None THEN NewUser(email, "admin", new)
                                 ELSE users[i]])
    BY <1>1
  <1> DEFINE copy == IF i = None THEN NewUser(email, "admin", new) ELSE users[i]
             contents == [NoSession EXCEPT !.id = i, !.new = new, !.copy = copy]
  <1>3. /\ UNCHANGED <<users, signed, clock, log, raced>> /\ UNCHANGED seedVars
        /\ pc[r] \notin Answers /\ signed \subseteq Accounts /\ AllServe
    BY DEF PromoteRead, AllServe, history, Answers, AInv, AccountsTypeOK
  <1>4. i \in Accounts \cup {None} /\ i \in Procs \cup {None}
    BY Rows DEF AInv
  <1>5. copy \in User /\ (i = None => copy.fails = 0 /\ copy.until = None)
    BY <1>4, Rows, NewUserIsUser DEF AInv
  <1> HIDE DEF copy
  <1>6. /\ contents \in Session /\ contents.id = i /\ contents.copy = copy
        /\ contents.new = new
    <2>1. NoSession \in Session
      BY Facts
    <2> QED BY <2>1, <1>4, <1>5 DEF Session
  <1>7. Continue(r, "promote", contents)
    BY <1>2 DEF copy
  <1> HIDE DEF contents
  <1>8. Goes(r) /\ pc'[r] = "promote" /\ sess'[r] = contents
    BY <1>3, <1>6, <1>7, GoesOn
  <1>9. Accounts' = Accounts /\ Directory(r) /\ CountsStay
    BY <1>3, UsersStay
  <1>10. AllServe'
    BY <1>3, <1>8, Facts DEF AllServe, Goes
  <1>11. RequestKnows(r)'
    BY <1>4, <1>5, <1>6, <1>8, <1>9, <1>10 DEF RequestKnows
  <1> QED BY <1>3, <1>8, <1>9, <1>11, RequestKeeps

LEMMA PromoteCommitKeeps ==
    ASSUME AInv, NEW r \in Requests, PromoteCommit(r)
    PROVE  AInv'
  <1> DEFINE i == sess[r].id
             copy == sess[r].copy
             new == [copy EXCEPT !.role = "admin", !.password = sess[r].new]
  <1>1. /\ UNCHANGED <<signed, clock, log, raced>> /\ UNCHANGED seedVars
        /\ pc[r] = "promote" /\ pc[r] \notin Answers /\ signed \subseteq Accounts
        /\ r \in Procs /\ r \notin Accounts
    BY Facts DEF PromoteCommit, history, Answers, AInv, AccountsTypeOK, PlacesInv
  <1>2. /\ i \in Accounts \cup {None} /\ copy \in User /\ sess[r].new \in Passwords /\ AllServe
        /\ i = None => copy.fails = 0 /\ copy.until = None
    BY <1>1 DEF AInv, RequestKnows
  <1>3. CASE Finish(r, "error") /\ users' = users
    <2>1. Goes(r) /\ RequestKnows(r)' /\ pc'[r] = "error"
      BY <1>1, <1>3, Answered DEF Answers
    <2> QED BY <1>1, <1>3, <2>1, UsersStay, RequestKeeps
  <1>4. CASE /\ i = None /\ WithEmail(copy.email) = {}
             /\ users' = [users EXCEPT ![r] = copy] /\ Finish(r, "ok")
    <2>1. Goes(r) /\ RequestKnows(r)' /\ pc'[r] = "ok" /\ "ok" \in Answers
      BY <1>1, <1>4, Answered DEF Answers
    <2>2. copy # None
      BY <1>2, NoneIsNoAccount
    <2> HIDE DEF i, copy
    <2>3. /\ Accounts' = Accounts \cup {r} /\ users'[r] = copy
          /\ \A j \in Accounts : users'[j] = users[j]
          /\ users' \in [Procs -> User \cup {None}]
      BY <1>1, <1>2, <1>4, <2>2 DEF AInv, AccountsTypeOK, Accounts
    <2>4. Directory(r) /\ CountsStay
      BY <1>1, <1>2, <1>4, <2>1, <2>3 DEF Directory, CountsStay
    <2> QED BY <1>1, <2>1, <2>3, <2>4, RequestKeeps
  <1>5. CASE /\ i # None /\ Finish(r, "ok")
             /\ users' = [users EXCEPT ![i] = Written(users[i], copy, new)]
    <2>1. Goes(r) /\ RequestKnows(r)' /\ pc'[r] = "ok"
      BY <1>1, <1>5, Answered DEF Answers
    <2>2. /\ new \in User /\ new.email = copy.email /\ new.fails = copy.fails
          /\ new.until = copy.until
      BY <1>2 DEF User
    <2>3. i \in Accounts
      BY <1>2, <1>5
    <2> HIDE DEF i, copy, new
    <2>4. Accounts' = Accounts /\ Directory(r) /\ CountsStay
      BY <1>1, <1>2, <1>5, <2>2, <2>3, ProfileWritten
    <2> QED BY <1>1, <2>1, <2>4, RequestKeeps
  <1> QED BY <1>3, <1>4, <1>5 DEF PromoteCommit

-----------------------------------------------------------------------------
(* Logins. *)

LEMMA LoginReadKeeps ==
    ASSUME AInv, NEW r \in Requests, LoginRead(r)
    PROVE  AInv'
  <1>1. /\ UNCHANGED <<users, signed, clock, log>> /\ UNCHANGED seedVars
        /\ pc[r] = "idle" /\ pc[r] \notin Answers /\ r \in Procs
        /\ AccountsTypeOK
    BY Facts DEF LoginRead, Begin, Answers, AInv
  <1>2. /\ Accounts' = Accounts /\ Directory(r)
        /\ raced' = raced => CountsStay
    BY <1>1, UsersStay
  <1>3. CASE Finish(r, "refused") /\ raced' = raced
    <2>1. Goes(r) /\ RequestKnows(r)' /\ pc'[r] = "refused"
      BY <1>1, <1>3, Answered DEF Answers
    <2> QED BY <1>1, <1>2, <1>3, <2>1, RequestKeeps DEF AccountsTypeOK
  <1>4. ASSUME NEW i \in Accounts, ~IsLocked(users[i]), NEW password \in Passwords,
               Continue(r, "decide", [NoSession EXCEPT !.id = i, !.copy = users[i],
                                                       !.given = password]),
               raced' = IF Deciding(i) = {} THEN raced ELSE raced \cup {i}
        PROVE  AInv'
    <2> DEFINE contents == [NoSession EXCEPT !.id = i, !.copy = users[i],
                                             !.given = password]
    <2>1. i \in Procs /\ users[i] \in User
      BY <1>1, <1>4, Rows
    <2>2. contents \in Session /\ contents.id = i /\ contents.copy = users[i]
      <3>1. NoSession \in Session
        BY Facts
      <3> QED BY <3>1, <1>4, <2>1 DEF Session
    <2> HIDE DEF contents
    <2>3. Goes(r) /\ pc'[r] = "decide" /\ sess'[r] = contents
      BY <1>1, <1>4, <2>2, GoesOn DEF contents
    <2>4. raced \subseteq raced' /\ raced' \subseteq Procs
      BY <1>1, <1>4, <2>1 DEF AccountsTypeOK
    <2>5. AccountsTypeOK'
      BY <1>1, <1>2, <2>3, <2>4 DEF AccountsTypeOK, Goes, seedVars
    <2>6. PlacesInv' /\ SeedInv' /\ OneAccountPerEmail'
      BY <1>2, <2>3, RequestFrame
    <2>7. \A j \in Procs : RowKnows(j)'
      BY <1>1, <1>2, <2>4 DEF AInv, RowKnows
    <2>8. \A q \in Requests \ {r} : pc[q] = "decide" /\ sess[q].id = i => i \in raced'
      BY <1>4 DEF Deciding
    <2>9. RequestKnows(r)'
      <3>1. RowKnows(i)
        BY <2>1 DEF AInv
      <3>2. LoginKnows(r)'
        <4>1. sess'[r].id = i /\ sess'[r].copy = users[i] /\ ~IsLocked(users[i])'
          BY <1>1, <1>4, <2>2, <2>3 DEF IsLocked
        <4>2. i \notin raced' => \A q \in Requests \ {r} : pc'[q] = "decide" => sess'[q].id # i
          BY <2>3, <2>8, Facts DEF Goes
        <4>3. users'[i] = users[i] /\ log'[i] = log[i]
          BY <1>1
        <4> QED BY <1>4, <3>1, <4>1, <4>2, <4>3 DEF LoginKnows, RowKnows
      <3> QED BY <1>2, <1>4, <2>1, <2>2, <2>3, <3>2 DEF RequestKnows
    <2>10. ASSUME NEW q \in Requests, q # r
           PROVE  RequestKnows(q)'
      <3>1. RequestKnows(q) /\ pc'[q] = pc[q] /\ sess'[q] = sess[q]
        BY <2>3, <2>10, Facts DEF AInv, Goes
      <3>2. AllServe => AllServe'
        BY <2>3, Facts DEF AllServe, Goes
      <3>3. pc[q] = "decide" => LoginKnows(q)'
        <4>1. SUFFICES ASSUME pc[q] = "decide" PROVE LoginKnows(q)'
          OBVIOUS
        <4> DEFINE k == sess[q].id
        <4>2. k \in Accounts /\ LoginKnows(q)
          BY <3>1, <4>1 DEF RequestKnows
        <4>3. k \notin raced' => k # i
          BY <2>8, <2>10, <4>1
        <4>4. ASSUME k \notin raced', NEW o \in Requests \ {q}, pc'[o] = "decide"
              PROVE  sess'[o].id # k
          <5>1. CASE o = r
            BY <2>2, <2>3, <4>3, <4>4, <5>1
          <5>2. CASE o # r
            <6>1. pc'[o] = pc[o] /\ sess'[o] = sess[o]
              BY <2>3, <5>2, Facts DEF Goes
            <6> QED BY <2>4, <4>2, <4>4, <6>1 DEF LoginKnows
          <5> QED BY <5>1, <5>2
        <4>5. (log[k].locks = 1 /\ IsLocked(users[k]))' => log[k].locks = 1 /\ IsLocked(users[k])
          BY <1>1, <3>1 DEF IsLocked
        <4> QED BY <1>1, <2>4, <3>1, <4>2, <4>4, <4>5 DEF LoginKnows
      <3> QED BY <1>2, <3>1, <3>2, <3>3 DEF RequestKnows
    <2> QED BY <2>5, <2>6, <2>7, <2>9, <2>10 DEF AInv
  <1>5. PICK email \in Emails \cup {AdminEmail}, password \in Passwords :
            IF \A i \in WithEmail(email) : IsLocked(users[i])
            THEN Finish(r, "refused") /\ UNCHANGED raced
            ELSE \E i \in WithEmail(email) :
                    /\ Continue(r, "decide", [NoSession EXCEPT !.id = i,
                                  !.copy = users[i], !.given = password])
                    /\ raced' = IF Deciding(i) = {} THEN raced ELSE raced \cup {i}
    BY DEF LoginRead
  <1>6. CASE \A i \in WithEmail(email) : IsLocked(users[i])
    BY <1>3, <1>5, <1>6
  <1>7. CASE ~(\A i \in WithEmail(email) : IsLocked(users[i]))
    <2>1. PICK i \in WithEmail(email) :
              /\ Continue(r, "decide", [NoSession EXCEPT !.id = i,
                            !.copy = users[i], !.given = password])
              /\ raced' = IF Deciding(i) = {} THEN raced ELSE raced \cup {i}
      BY <1>5, <1>7
    <2>2. i \in Accounts
      BY <1>1, <2>1, Rows
    <2>3. ~IsLocked(users[i])
      <3>1. PICK j \in WithEmail(email) : ~IsLocked(users[j])
        BY <1>7
      <3>2. i = j
        BY <1>1, <3>1, Rows DEF AInv, OneAccountPerEmail
      <3> QED BY <3>1, <3>2
    <2> QED BY <1>4, <2>1, <2>2, <2>3
  <1> QED BY <1>6, <1>7

\* What a login may make of the row i it has decided on.
RightOne(i, copy) ==
    /\ users'[i].fails = IF copy.fails = 0 THEN users[i].fails ELSE 0
    /\ users'[i].until = IF copy.until = None THEN users[i].until ELSE None
    /\ log'[i] = [wrongs |-> log[i].wrongs, row |-> 0, locks |-> log[i].locks]

LockingOne(i, copy) ==
    /\ copy.fails + 1 >= MaxAttempts
    /\ users'[i].fails = IF copy.fails = 0 THEN users[i].fails ELSE 0
    /\ \/ users'[i].until = clock + LockTicks
       \/ copy.until = clock + LockTicks /\ users'[i].until = users[i].until
    /\ log'[i] = [wrongs |-> log[i].wrongs + 1, row |-> log[i].row + 1,
                  locks |-> log[i].locks + 1]

WrongOne(i, copy) ==
    /\ ~(copy.fails + 1 >= MaxAttempts)
    /\ users'[i].fails = copy.fails + 1
    /\ users'[i].until = users[i].until
    /\ log'[i] = [wrongs |-> log[i].wrongs + 1, row |-> log[i].row + 1,
                  locks |-> log[i].locks]

LEMMA Verdicts ==
    ASSUME AInv, NEW r \in Requests, LoginCommit(r)
    PROVE  LET i == sess[r].id
               copy == sess[r].copy
           IN  /\ i \in Accounts /\ copy \in User /\ LoginKnows(r)
               /\ users' \in [Procs -> User \cup {None}]
               /\ users'[i] \in User
               /\ users'[i].email = users[i].email /\ users'[i].role = users[i].role
               /\ \A j \in Procs \ {i} : users'[j] = users[j] /\ log'[j] = log[j]
               /\ log' \in [Procs -> [wrongs : Nat, row : Nat, locks : Nat]]
               /\ RightOne(i, copy) \/ LockingOne(i, copy) \/ WrongOne(i, copy)
  <1> DEFINE i == sess[r].id
             copy == sess[r].copy
             given == sess[r].given
             judged == Judged(copy, given)
             x == Written(users[i], copy, judged)
  <1>1. AccountsTypeOK /\ RequestKnows(r) /\ pc[r] = "decide"
    BY DEF AInv, LoginCommit
  <1>2. i \in Accounts /\ copy \in User /\ LoginKnows(r)
    BY <1>1 DEF RequestKnows
  <1>3. i \in Procs /\ users[i] \in User
    BY <1>1, <1>2, Rows
  <1>4. users' = [users EXCEPT ![i] = x]
    BY DEF LoginCommit
  <1>5. log' = IF given = copy.password THEN [log EXCEPT ![i].row = 0]
               ELSE [log EXCEPT ![i].wrongs = @ + 1, ![i].row = @ + 1,
                                ![i].locks = IF TooMany(copy) THEN @ + 1 ELSE @]
    BY DEF LoginCommit
  <1>6. judged = IF given = copy.password THEN [copy EXCEPT !.fails = 0, !.until = None]
                 ELSE IF TooMany(copy)
                      THEN [copy EXCEPT !.fails = 0, !.until = clock + LockTicks]
                      ELSE [copy EXCEPT !.fails = @ + 1]
    BY DEF Judged
  <1>7. clock + LockTicks \in Nat
    BY <1>1, AccountsAssumption DEF AccountsTypeOK
  <1> HIDE DEF i, copy, given
  <1>8. /\ log[i] \in [wrongs : Nat, row : Nat, locks : Nat]
        /\ log[i] = [wrongs |-> log[i].wrongs, row |-> log[i].row, locks |-> log[i].locks]
    BY <1>1, <1>3 DEF AccountsTypeOK
  <1> HIDE DEF judged
  <1>9. /\ judged \in User /\ judged.email = copy.email /\ judged.role = copy.role
        /\ given = copy.password => judged.fails = 0 /\ judged.until = None
        /\ given # copy.password /\ TooMany(copy) =>
              judged.fails = 0 /\ judged.until = clock + LockTicks
        /\ given # copy.password /\ ~TooMany(copy) =>
              judged.fails = copy.fails + 1 /\ judged.until = copy.until
    <2>1. CASE given = copy.password
      <3>1. judged = [copy EXCEPT !.fails = 0, !.until = None]
        BY <1>6, <2>1
      <3> QED BY <1>2, <2>1, <3>1 DEF User
    <2>2. CASE given # copy.password /\ TooMany(copy)
      <3>1. judged = [copy EXCEPT !.fails = 0, !.until = clock + LockTicks]
        BY <1>6, <2>2
      <3> QED BY <1>2, <1>7, <2>2, <3>1 DEF User
    <2>3. CASE given # copy.password /\ ~TooMany(copy)
      <3>1. judged = [copy EXCEPT !.fails = @ + 1]
        BY <1>6, <2>3
      <3> QED BY <1>2, <2>3, <3>1 DEF User
    <2> QED BY <2>1, <2>2, <2>3
  <1>10. /\ x \in User /\ x.email = users[i].email /\ x.role = users[i].role
         /\ x.fails = IF judged.fails = copy.fails THEN users[i].fails ELSE judged.fails
         /\ x.until = IF judged.until = copy.until THEN users[i].until ELSE judged.until
    BY <1>2, <1>3, <1>9, WrittenColumns
  <1> HIDE DEF x
  <1>11. /\ users' \in [Procs -> User \cup {None}] /\ users'[i] = x
         /\ \A j \in Procs \ {i} : users'[j] = users[j]
    BY <1>1, <1>3, <1>4, <1>10 DEF AccountsTypeOK
  <1>12. copy.fails \in Nat /\ copy.until \in Nat \cup {None}
    BY <1>2 DEF User
  <1>13. CASE given = copy.password
    <2>1. judged.fails = 0 /\ judged.until = None
      BY <1>9, <1>13
    <2>2. log' = [log EXCEPT ![i] = [wrongs |-> log[i].wrongs, row |-> 0,
                                     locks |-> log[i].locks]]
      <3>1. log' = [log EXCEPT ![i].row = 0]
        BY <1>5, <1>13
      <3>2. [log[i] EXCEPT !.row = 0] = [wrongs |-> log[i].wrongs, row |-> 0,
                                         locks |-> log[i].locks]
        BY <1>8
      <3> QED BY <3>1, <3>2
    <2>3. log' \in [Procs -> [wrongs : Nat, row : Nat, locks : Nat]]
      BY <1>1, <1>3, <1>8, <2>2 DEF AccountsTypeOK
    <2>4. \A j \in Procs \ {i} : log'[j] = log[j]
      BY <1>1, <1>3, <2>2 DEF AccountsTypeOK
    <2>5. log'[i] = [wrongs |-> log[i].wrongs, row |-> 0, locks |-> log[i].locks]
      BY <1>1, <1>3, <2>2 DEF AccountsTypeOK
    <2>6. RightOne(i, copy)
      BY <1>10, <1>11, <2>1, <2>5 DEF RightOne
    <2> QED BY <1>2, <1>10, <1>11, <2>3, <2>4, <2>6 DEF i, copy
  <1>14. CASE given # copy.password
    <2> DEFINE more == IF TooMany(copy) THEN log[i].locks + 1 ELSE log[i].locks
    <2>1. more \in Nat
      BY <1>8
    <2>2. log' = [log EXCEPT ![i] = [wrongs |-> log[i].wrongs + 1, row |-> log[i].row + 1,
                                     locks |-> more]]
      BY <1>1, <1>3, <1>5, <1>8, <1>14 DEF AccountsTypeOK
    <2> HIDE DEF more
    <2>3. log' \in [Procs -> [wrongs : Nat, row : Nat, locks : Nat]]
      BY <1>1, <1>3, <1>8, <2>1, <2>2 DEF AccountsTypeOK
    <2>4. \A j \in Procs \ {i} : log'[j] = log[j]
      BY <1>1, <1>3, <2>2 DEF AccountsTypeOK
    <2>5. log'[i] = [wrongs |-> log[i].wrongs + 1, row |-> log[i].row + 1, locks |-> more]
      BY <1>1, <1>3, <2>2 DEF AccountsTypeOK
    <2>6. ASSUME TooMany(copy) PROVE LockingOne(i, copy)
      <3>1. judged.fails = 0 /\ judged.until = clock + LockTicks
        BY <1>9, <1>14, <2>6
      <3>2. more = log[i].locks + 1 /\ copy.fails + 1 >= MaxAttempts
        BY <2>6 DEF more, TooMany
      <3> QED BY <1>10, <1>11, <2>5, <3>1, <3>2 DEF LockingOne
    <2>7. ASSUME ~TooMany(copy) PROVE WrongOne(i, copy)
      <3>1. judged.fails = copy.fails + 1 /\ judged.until = copy.until
        BY <1>9, <1>14, <2>7
      <3>2. more = log[i].locks /\ ~(copy.fails + 1 >= MaxAttempts)
        BY <2>7 DEF more, TooMany
      <3> QED BY <1>10, <1>11, <1>12, <2>5, <3>1, <3>2 DEF WrongOne
    <2>8. RightOne(i, copy) \/ LockingOne(i, copy) \/ WrongOne(i, copy)
      BY <2>6, <2>7
    <2> QED BY <1>2, <1>10, <1>11, <2>3, <2>4, <2>8 DEF i, copy
  <1> QED BY <1>13, <1>14

\* What a login writes agrees with the history it writes.
LEMMA RowJudged ==
    ASSUME AInv, NEW r \in Requests, LoginCommit(r), raced' = raced,
           NEW i \in Procs, i = sess[r].id
    PROVE  RowKnows(i)'
  <1> DEFINE copy == sess[r].copy
  <1>1. /\ i \in Accounts /\ copy \in User /\ LoginKnows(r) /\ users'[i] \in User
        /\ RightOne(i, copy) \/ LockingOne(i, copy) \/ WrongOne(i, copy)
    BY Verdicts
  <1>2. /\ AccountsTypeOK /\ i \in Procs /\ users[i] \in User /\ RowKnows(i)
        /\ log[i] \in [wrongs : Nat, row : Nat, locks : Nat]
    BY <1>1, Rows DEF AInv, AccountsTypeOK
  <1>3. /\ users[i].fails < MaxAttempts /\ users[i].fails <= log[i].wrongs
        /\ users[i].until # None => log[i].wrongs >= MaxAttempts
        /\ log[i].locks = 0 => users[i].until = None
        /\ i \notin raced => /\ users[i].fails = log[i].row % MaxAttempts
                             /\ log[i].row >= MaxAttempts => users[i].until # None
    BY <1>1, <1>2 DEF RowKnows
  <1>4. /\ copy.fails < MaxAttempts /\ copy.fails <= log[i].wrongs
        /\ i \notin raced => copy.fails = users[i].fails /\ copy.until = users[i].until
    BY <1>1 DEF LoginKnows
  <1>5. /\ users[i].fails \in Nat /\ copy.fails \in Nat /\ log[i].wrongs \in Nat
        /\ log[i].row \in Nat /\ log[i].locks \in Nat /\ clock + LockTicks \in Nat
        /\ MaxAttempts \in Nat \ {0} /\ None # clock + LockTicks
    BY <1>1, <1>2, AccountsAssumption, NoneIsNoAccount DEF User, AccountsTypeOK
  <1>6. /\ log[i].row % MaxAttempts \in Nat /\ 0 % MaxAttempts = 0 /\ ~(0 >= MaxAttempts)
        /\ (log[i].row + 1) % MaxAttempts = IF (log[i].row % MaxAttempts) + 1 >= MaxAttempts
                                            THEN 0 ELSE (log[i].row % MaxAttempts) + 1
        /\ log[i].row < MaxAttempts => log[i].row % MaxAttempts = log[i].row
    <2> DEFINE n == log[i].row
    <2>1. n \in Nat /\ MaxAttempts \in Nat \ {0}
      BY <1>5
    <2> HIDE DEF n
    <2>2. ~(0 >= MaxAttempts)
      BY <2>1
    <2>3. /\ n % MaxAttempts \in Nat /\ 0 % MaxAttempts = 0
          /\ (n + 1) % MaxAttempts = IF (n % MaxAttempts) + 1 >= MaxAttempts
                                     THEN 0 ELSE (n % MaxAttempts) + 1
          /\ n < MaxAttempts => n % MaxAttempts = n
      BY <2>1, CountOn
    <2> QED BY <2>2, <2>3 DEF n
  <1>7. i \in Accounts'
    BY <1>1, <1>2, NoneIsNoAccount DEF Accounts
  <1> DEFINE row == users'[i]
             past == log'[i]
  <1>8. /\ row.fails < MaxAttempts /\ row.fails <= past.wrongs
        /\ row.until # None => past.wrongs >= MaxAttempts
        /\ past.locks = 0 => row.until = None
        /\ i \notin raced => /\ row.fails = past.row % MaxAttempts
                             /\ past.row >= MaxAttempts => row.until # None
    <2>1. CASE RightOne(i, copy)
      <3>1. /\ row.fails = IF copy.fails = 0 THEN users[i].fails ELSE 0
            /\ row.until = IF copy.until = None THEN users[i].until ELSE None
            /\ past.wrongs = log[i].wrongs /\ past.row = 0 /\ past.locks = log[i].locks
        BY <2>1 DEF RightOne
      <3> HIDE DEF row, past, copy
      <3> QED BY <1>3, <1>4, <1>5, <1>6, <3>1
    <2>2. CASE LockingOne(i, copy)
      <3>1. /\ row.fails = IF copy.fails = 0 THEN users[i].fails ELSE 0
            /\ copy.fails + 1 >= MaxAttempts
            /\ \/ row.until = clock + LockTicks
               \/ copy.until = clock + LockTicks /\ row.until = users[i].until
            /\ past.wrongs = log[i].wrongs + 1 /\ past.row = log[i].row + 1
            /\ past.locks = log[i].locks + 1
        BY <2>2 DEF LockingOne
      <3> HIDE DEF row, past, copy
      <3>2. row.fails < MaxAttempts /\ row.fails <= past.wrongs /\ past.wrongs >= MaxAttempts
        BY <1>3, <1>4, <1>5, <3>1
      <3>3. past.locks # 0
        BY <1>5, <3>1
      <3>4. i \notin raced => row.fails = past.row % MaxAttempts /\ row.until # None
        BY <1>3, <1>4, <1>5, <1>6, <3>1
      <3> QED BY <3>2, <3>3, <3>4
    <2>3. CASE WrongOne(i, copy)
      <3>1. /\ row.fails = copy.fails + 1 /\ row.until = users[i].until
            /\ ~(copy.fails + 1 >= MaxAttempts)
            /\ past.wrongs = log[i].wrongs + 1 /\ past.row = log[i].row + 1
            /\ past.locks = log[i].locks
        BY <2>3 DEF WrongOne
      <3> HIDE DEF row, past, copy
      <3>2. /\ row.fails < MaxAttempts /\ row.fails <= past.wrongs
            /\ row.until # None => past.wrongs >= MaxAttempts
            /\ past.locks = 0 => row.until = None
        BY <1>3, <1>4, <1>5, <3>1
      <3>3. ASSUME i \notin raced
            PROVE  /\ row.fails = past.row % MaxAttempts
                   /\ past.row >= MaxAttempts => row.until # None
        <4>1. copy.fails = log[i].row % MaxAttempts
          BY <1>3, <1>4, <3>3
        <4>2. ~((log[i].row % MaxAttempts) + 1 >= MaxAttempts)
          BY <3>1, <4>1
        <4>3. past.row % MaxAttempts = (log[i].row % MaxAttempts) + 1
          BY <1>6, <3>1, <4>2
        <4>4. log[i].row + 1 >= MaxAttempts => log[i].row >= MaxAttempts
          BY <1>5, <1>6, <4>2
        <4>5. past.row >= MaxAttempts => row.until # None
          BY <1>3, <3>1, <3>3, <4>4
        <4> QED BY <3>1, <4>1, <4>3, <4>5
      <3> QED BY <3>2, <3>3
    <2> QED BY <1>1, <2>1, <2>2, <2>3
  <1> QED BY <1>7, <1>8 DEF RowKnows

\* Another login on the same account, if there is one, knows what it knew.
LEMMA OtherLogins ==
    ASSUME AInv, NEW r \in Requests, LoginCommit(r), UNCHANGED <<clock, raced>>, Goes(r),
           pc'[r] # "decide", NEW q \in Requests, q # r, pc[q] = "decide"
    PROVE  LoginKnows(q)'
  <1> DEFINE copy == sess[r].copy
             k == sess[q].id
  <1>0. PICK i \in Procs : i = sess[r].id
    <2>1. sess[r].id \in Accounts /\ AccountsTypeOK
      BY Verdicts DEF AInv
    <2> QED BY <2>1, Rows
  <1>1. /\ i \in Accounts /\ copy \in User /\ LoginKnows(r) /\ users'[i] \in User
        /\ RightOne(i, copy) \/ LockingOne(i, copy) \/ WrongOne(i, copy)
        /\ \A j \in Procs \ {i} : users'[j] = users[j] /\ log'[j] = log[j]
        /\ log[i].locks = 0 \/ (log[i].locks = 1 /\ IsLocked(users[i])) => copy.until = None
    BY <1>0, Verdicts DEF LoginKnows
  <1>2. AccountsTypeOK /\ RequestKnows(q) /\ sess'[q] = sess[q] /\ pc[r] = "decide"
    BY Facts DEF AInv, Goes, LoginCommit
  <1>3. k \in Accounts /\ LoginKnows(q) /\ k \in Procs
    BY <1>2, Rows DEF RequestKnows
  <1>4. \A o \in Requests \ {q} : pc'[o] = "decide" => pc[o] = "decide" /\ sess'[o] = sess[o]
    BY Facts DEF Goes
  <1>5. CASE k # i
    <2>1. users'[k] = users[k] /\ log'[k] = log[k]
      BY <1>1, <1>3, <1>5
    <2> QED BY <1>2, <1>3, <1>4, <2>1 DEF LoginKnows, IsLocked
  <1>6. CASE k = i
    <2>1. i \in raced
      BY <1>0, <1>2, <1>3, <1>6 DEF LoginKnows
    <2>2. /\ log[i] \in [wrongs : Nat, row : Nat, locks : Nat] /\ MaxAttempts \in Nat
          /\ users[i] \in User /\ clock \in Nat
      BY <1>2, <1>3, <1>6, Rows, Facts DEF AccountsTypeOK
    <2> DEFINE mine == sess[q].copy
    <2>3. /\ mine.fails < MaxAttempts /\ mine.fails <= log[i].wrongs
          /\ mine.until # None => log[i].wrongs >= MaxAttempts
          /\ log[i].locks = 0 \/ (log[i].locks = 1 /\ IsLocked(users[i])) => mine.until = None
      BY <1>3, <1>6 DEF LoginKnows
    <2>4. mine \in User /\ mine.fails \in Nat
      BY <1>2 DEF RequestKnows, User
    <2>5. log[i].locks = 0 \/ (log[i].locks = 1 /\ IsLocked(users[i])) => copy.until = None
      BY <1>1
    <2> HIDE DEF copy, k, mine
    <2>6. log'[i].wrongs \in Nat /\ log'[i].wrongs >= log[i].wrongs
      BY <1>1, <2>2 DEF RightOne, LockingOne, WrongOne
    <2>7. mine.fails <= log'[i].wrongs /\ (mine.until # None => log'[i].wrongs >= MaxAttempts)
      BY <2>2, <2>3, <2>4, <2>6
    <2>8. ASSUME log'[i].locks = 0 \/ (log'[i].locks = 1 /\ IsLocked(users[i])')
          PROVE  mine.until = None
      <3>1. CASE RightOne(i, copy)
        <4>1. log'[i].locks = log[i].locks
          BY <3>1 DEF RightOne
        <4>2. CASE copy.until = None
          <5>1. users'[i].until = users[i].until
            BY <3>1, <4>2 DEF RightOne
          <5> QED BY <2>3, <2>8, <4>1, <5>1 DEF IsLocked
        <4>3. CASE copy.until # None
          <5>1. users'[i].until = None
            BY <3>1, <4>3 DEF RightOne
          <5> QED BY <2>3, <2>8, <4>1, <5>1 DEF IsLocked
        <4> QED BY <4>2, <4>3
      <3>2. CASE LockingOne(i, copy)
        <4>1. log'[i].locks = log[i].locks + 1
          BY <3>2 DEF LockingOne
        <4>2. log[i].locks = 0
          BY <2>2, <2>8, <4>1
        <4> QED BY <2>3, <4>2
      <3>3. CASE WrongOne(i, copy)
        <4>1. log'[i].locks = log[i].locks /\ users'[i].until = users[i].until
          BY <3>3 DEF WrongOne
        <4> QED BY <2>3, <2>8, <4>1 DEF IsLocked
      <3> QED BY <1>1, <3>1, <3>2, <3>3 DEF copy
    <2> QED BY <1>2, <1>6, <2>1, <2>3, <2>7, <2>8 DEF LoginKnows, IsLocked, k, mine
  <1> QED BY <1>5, <1>6

LEMMA LoginCommitKeeps ==
    ASSUME AInv, NEW r \in Requests, LoginCommit(r)
    PROVE  AInv'
  <1> DEFINE i == sess[r].id
             copy == sess[r].copy
  <1>1. /\ i \in Accounts /\ users' \in [Procs -> User \cup {None}]
        /\ users'[i] \in User
        /\ users'[i].email = users[i].email /\ users'[i].role = users[i].role
        /\ \A j \in Procs \ {i} : users'[j] = users[j] /\ log'[j] = log[j]
        /\ log' \in [Procs -> [wrongs : Nat, row : Nat, locks : Nat]]
    BY Verdicts
  <1>2. /\ AccountsTypeOK /\ UNCHANGED <<clock, raced>> /\ UNCHANGED seedVars
        /\ pc[r] = "decide" /\ pc[r] \notin Answers
        /\ signed' = signed \cup {i} \/ signed' = signed
        /\ Finish(r, "ok") \/ Finish(r, "refused")
    BY DEF LoginCommit, SignIn, AInv, Answers
  <1> HIDE DEF i, copy
  <1>3. Goes(r) /\ RequestKnows(r)' /\ pc'[r] \in Answers
    BY <1>2, Answered DEF Answers
  <1>4. Accounts' = Accounts
    BY <1>1, <1>2, NoneIsNoAccount, Rows DEF Accounts
  <1>5. Directory(r)
    <2>1. ASSUME NEW j \in Accounts
          PROVE  users'[j].email = users[j].email /\ users'[j].role = users[j].role
      <3>1. CASE j = i
        BY <1>1, <3>1
      <3>2. CASE j # i
        <4>1. users'[j] = users[j]
          BY <1>1, <1>2, <3>2, Rows
        <4> QED BY <4>1
      <3> QED BY <3>1, <3>2
    <2> QED BY <1>1, <1>4, <2>1 DEF Directory
  <1>6. AccountsTypeOK'
    BY <1>1, <1>2, <1>3, <1>4 DEF AccountsTypeOK, Goes, seedVars
  <1>7. PlacesInv' /\ SeedInv' /\ OneAccountPerEmail'
    BY <1>3, <1>5, RequestFrame
  <1>8. ASSUME NEW j \in Procs
        PROVE  RowKnows(j)'
    <2>1. CASE j = i
      BY <1>2, <2>1, RowJudged DEF i
    <2>2. CASE j # i
      <3>1. users'[j] = users[j] /\ log'[j] = log[j] /\ RowKnows(j)
        BY <1>1, <2>2 DEF AInv
      <3> QED BY <1>2, <1>4, <3>1 DEF RowKnows
    <2> QED BY <2>1, <2>2
  <1>9. ASSUME NEW q \in Requests, q # r
        PROVE  RequestKnows(q)'
    <2>1. RequestKnows(q) /\ pc'[q] = pc[q] /\ sess'[q] = sess[q]
      BY <1>3, <1>9, Facts DEF AInv, Goes
    <2>2. AllServe => AllServe'
      BY <1>3, Facts DEF AllServe, Goes
    <2>3. pc[q] = "decide" => LoginKnows(q)'
      BY <1>2, <1>3, <1>9, OtherLogins DEF Answers
    <2> QED BY <1>4, <2>1, <2>2, <2>3 DEF RequestKnows
  <1> QED BY <1>3, <1>6, <1>7, <1>8, <1>9 DEF AInv

LEMMA TickKeeps ==
    ASSUME AInv, Tick
    PROVE  AInv'
  <1>1. /\ UNCHANGED <<users, signed, pc, sess, log, raced>> /\ UNCHANGED seedVars
        /\ clock' = clock + 1 /\ clock < MaxTime
        /\ AccountsTypeOK
    BY DEF Tick, history, AInv
  <1>2. clock \in Nat /\ clock' \in 0 .. MaxTime
    BY <1>1, AccountsAssumption DEF AccountsTypeOK
  <1>3. Accounts' = Accounts
    BY <1>1, SameUsers
  <1>4. AccountsTypeOK'
    BY <1>1, <1>2, <1>3 DEF AccountsTypeOK, seedVars
  <1>5. PlacesInv' /\ SeedInv' /\ OneAccountPerEmail'
    BY <1>1, <1>3 DEF AInv, PlacesInv, SeedInv, SeedKnows, OneAccountPerEmail, AllServe,
                      WithEmail, seedVars
  <1>6. \A i \in Procs : RowKnows(i)'
    BY <1>1, <1>3 DEF AInv, RowKnows
  <1>7. ASSUME NEW q \in Requests
        PROVE  RequestKnows(q)'
    <2>1. RequestKnows(q) /\ (AllServe => AllServe')
      BY <1>1 DEF AInv, AllServe
    <2>2. ASSUME pc[q] = "decide"
          PROVE  LoginKnows(q)'
      <3> DEFINE i == sess[q].id
      <3>1. LoginKnows(q) /\ i \in Accounts /\ users[i] \in User
        BY <1>1, <2>1, <2>2, Rows DEF RequestKnows
      <3>2. IsLocked(users[i])' => IsLocked(users[i])
        <4>1. users[i].until \in Nat \cup {None}
          BY <3>1 DEF User
        <4> QED BY <1>1, <1>2, <4>1 DEF IsLocked
      <3> QED BY <1>1, <3>1, <3>2 DEF LoginKnows
    <2> QED BY <1>1, <1>3, <2>1, <2>2 DEF RequestKnows
  <1> QED BY <1>4, <1>5, <1>6, <1>7 DEF AInv

-----------------------------------------------------------------------------
(* The theorems. *)

LEMMA AInvHolds ==
    ASSUME Init
    PROVE  AInv
  <1>1. /\ Accounts = {} /\ \A email : WithEmail(email) = {}
        /\ users \in [Procs -> User \cup {None}]
    BY DEF Init, Accounts, WithEmail
  <1>2. /\ pc \in [Procs -> Steps]
        /\ \A w \in Workers : pc[w] = "boot" /\ ~sess[w].admin
        /\ \A r \in Requests : pc[r] = "idle"
    BY Facts DEF Init, Steps, Seeding
  <1>3. AccountsTypeOK
    <2>1. sess \in [Procs -> Session] /\ raced = {} /\ signed = {} /\ schema \in BOOLEAN
      BY Facts DEF Init
    <2>2. clock \in 0 .. MaxTime /\ crashes \in 0 .. MaxCrash
      BY AccountsAssumption DEF Init
    <2>3. log \in [Procs -> [wrongs : Nat, row : Nat, locks : Nat]]
      BY DEF Init
    <2> QED BY <1>1, <1>2, <2>1, <2>2, <2>3 DEF AccountsTypeOK, Init
  <1>4. PlacesInv
    BY <1>1, <1>2 DEF PlacesInv, Seeding
  <1>5. SeedInv
    BY <1>1, <1>2 DEF Init, SeedInv, SeedKnows
  <1>6. \A i \in Procs : RowKnows(i)
    BY <1>1 DEF Init, RowKnows
  <1>7. \A r \in Requests : RequestKnows(r)
    BY <1>2 DEF RequestKnows
  <1> QED BY <1>1, <1>3, <1>4, <1>5, <1>6, <1>7 DEF AInv, OneAccountPerEmail

LEMMA AStepKeeps ==
    ASSUME AInv, [Next]_vars
    PROVE  AInv'
  <1>1. CASE \E w \in Workers : SeedStep(w) \/ Respawn(w)
    BY <1>1, TablesKeeps, FindAdminKeeps, FlushAdminKeeps, CountLotsKeeps, CountSlotsKeeps,
       SeedCommitKeeps, RespawnKeeps DEF SeedStep
  <1>2. CASE \E r \in Requests : RequestStep(r)
    BY <1>2, RegisterKeeps, LoginReadKeeps, LoginCommitKeeps, LogoutKeeps, ChangeReadKeeps,
       ChangeCommitKeeps, PromoteReadKeeps, PromoteCommitKeeps DEF RequestStep
  <1>3. CASE Tick
    BY <1>3, TickKeeps
  <1>4. CASE UNCHANGED vars
    <2>1. UNCHANGED <<schema, lots, demo, crashes, users, signed, clock, pc, sess, log, raced>>
      BY <1>4 DEF vars, seedVars, history
    <2>2. Accounts' = Accounts /\ \A email : WithEmail(email)' = WithEmail(email)
      BY <2>1, SameUsers
    <2>3. AccountsTypeOK' /\ PlacesInv' /\ SeedInv' /\ OneAccountPerEmail'
      BY <2>1, <2>2 DEF AInv, AccountsTypeOK, PlacesInv, SeedInv, SeedKnows,
                        OneAccountPerEmail, AllServe
    <2>4. \A i \in Procs : RowKnows(i)'
      BY <2>1, <2>2 DEF AInv, RowKnows
    <2>5. \A r \in Requests : RequestKnows(r)'
      BY <2>1, <2>2 DEF AInv, RequestKnows, LoginKnows, IsLocked, AllServe
    <2> QED BY <2>3, <2>4, <2>5 DEF AInv
  <1> QED BY <1>1, <1>2, <1>3, <1>4 DEF Next, Done

\* What the proofs know of the table of users and of the processes holds at the start
\* and after every step.
THEOREM AccountsInvariance == Spec => []AInv
  <1>1. Init => AInv
    BY AInvHolds
  <1>2. AInv /\ [Next]_vars => AInv'
    BY AStepKeeps
  <1> QED BY <1>1, <1>2, PTL DEF Spec

\* Every variable keeps its type: no login writes a column to a value it cannot have.
THEOREM AccountsTypeCorrect == Spec => []AccountsTypeOK
  <1>1. AInv => AccountsTypeOK
    BY DEF AInv
  <1> QED BY <1>1, AccountsInvariance, PTL

\* However many workers boot and visitors register, and whatever they have queried
\* before they insert, no address has two accounts (seed_data, create_admin, register).
THEOREM OneAccountEach == Spec => []OneAccountPerEmail
  <1>1. AInv => OneAccountPerEmail
    BY DEF AInv
  <1> QED BY <1>1, AccountsInvariance, PTL

\* However many workers boot, die and boot again, an empty database is seeded at most
\* once, and by the worker that has inserted the administrator (seed_data).
THEOREM SeededAtMostOnce == Spec => []SeededOnce
  <1>1. ASSUME AInv
        PROVE  SeededOnce
    <2>1. SeedInv
      BY <1>1 DEF AInv
    <2>2. CASE lots = {}
      <3>1. Cardinality(lots) <= 1
        BY <2>2, FS_EmptySet
      <3> QED BY <2>1, <2>2, <3>1 DEF SeedInv, SeededOnce
    <2>3. ASSUME NEW w \in Workers, lots = {w}, w \in WithEmail(AdminEmail)
          PROVE  SeededOnce
      <3>1. Cardinality(lots) <= 1
        <4>1. Cardinality({w}) = 1
          BY FS_Singleton
        <4> QED BY <2>3, <4>1
      <3>2. \E i \in lots : users[i] # None /\ users[i].email = AdminEmail
        BY <2>3 DEF WithEmail, Accounts
      <3> QED BY <2>1, <3>1, <3>2 DEF SeedInv, SeededOnce
    <2> QED BY <2>1, <2>2, <2>3 DEF SeedInv
  <1> QED BY <1>1, AccountsInvariance, PTL

\* For any maximum of attempts: as long as no two logins on an account overlap, its
\* count is the wrong passwords in a row, modulo the maximum (authenticate).
THEOREM FailuresAreCounted == Spec => []FailuresCounted
  <1>1. ASSUME AInv
        PROVE  FailuresCounted
    <2>1. AccountsTypeOK /\ \A i \in Procs : RowKnows(i)
      BY <1>1 DEF AInv
    <2> QED BY <2>1, Rows DEF RowKnows, FailuresCounted
  <1> QED BY <1>1, AccountsInvariance, PTL

\* For any maximum of attempts and any interleaving of logins, whoever is locked out
\* has typed that many wrong passwords (authenticate).
THEOREM LocksHaveCause == Spec => []LockHasCause
  <1>1. ASSUME AInv
        PROVE  LockHasCause
    <2>1. AccountsTypeOK /\ \A i \in Procs : RowKnows(i)
      BY <1>1 DEF AInv
    <2> QED BY <2>1, Rows DEF RowKnows, LockHasCause, IsLocked
  <1> QED BY <1>1, AccountsInvariance, PTL

\* A step of a worker and a request without a login leave the locks alone.
LEMMA LocksAlone ==
    ASSUME AInv, NEW i \in Accounts, Next,
           \A r \in Requests : ~LoginCommit(r)
    PROVE  users'[i].until = users[i].until
  <1>1. AccountsTypeOK /\ i \in Procs /\ PlacesInv
    BY Rows DEF AInv
  <1>2. CASE users' = users
    BY <1>2
  <1>3. ASSUME NEW p \in Procs, p \notin Accounts, NEW row, users' = [users EXCEPT ![p] = row]
        PROVE  users'[i] = users[i]
    BY <1>1, <1>3 DEF AccountsTypeOK
  <1>4. ASSUME NEW w \in Workers, SeedStep(w) \/ Respawn(w)
        PROVE  users'[i].until = users[i].until
    <2>1. CASE users' = users
      BY <2>1
    <2>2. CASE SeedCommit(w) /\ users' # users
      <3>1. users' = [users EXCEPT ![w] = NewUser(AdminEmail, "admin", AdminPassword)]
        BY <2>2 DEF SeedCommit
      <3>2. w \notin Accounts /\ w \in Procs
        BY <1>1, <2>2, Facts DEF SeedCommit, PlacesInv
      <3>3. users'[i] = users[i]
        BY <1>3, <3>1, <3>2
      <3> QED BY <3>3
    <2> QED BY <1>4, <2>1, <2>2
            DEF SeedStep, Tables, FindAdmin, FlushAdmin, CountLots, CountSlots, Respawn
  <1>5. ASSUME NEW r \in Requests, RequestStep(r)
        PROVE  users'[i].until = users[i].until
    <2>1. CASE users' = users
      BY <2>1
    <2>2. CASE Register(r) /\ users' # users
      <3>1. PICK email \in Emails, password \in Passwords :
                users' = [users EXCEPT ![r] = NewUser(email, "user", password)]
        BY <2>2 DEF Register, Insert
      <3>2. r \notin Accounts /\ r \in Procs
        BY <1>1, <2>2, Facts DEF Register, Begin, PlacesInv, Answers
      <3>3. users'[i] = users[i]
        BY <1>3, <3>1, <3>2
      <3> QED BY <3>3
    <2>3. CASE ChangeCommit(r) /\ users' # users
      <3> DEFINE copy == sess[r].copy
                 new == [copy EXCEPT !.password = sess[r].new]
      <3>1. sess[r].id \in Accounts /\ copy \in User /\ sess[r].new \in Passwords
        BY <2>3 DEF AInv, RequestKnows, ChangeCommit
      <3>2. /\ new \in User /\ new.email = copy.email /\ new.fails = copy.fails
            /\ new.until = copy.until /\ new.role = copy.role
        BY <3>1 DEF User
      <3>3. /\ users' = [users EXCEPT ![sess[r].id] = Written(users[sess[r].id], copy, new)]
            /\ UNCHANGED <<clock, log, raced>>
        BY <2>3 DEF ChangeCommit, history
      <3> HIDE DEF copy, new
      <3>4. CountsStay
        BY <3>1, <3>2, <3>3, ProfileWritten
      <3> QED BY <3>4 DEF CountsStay
    <2>4. CASE PromoteCommit(r) /\ users' # users
      <3> DEFINE copy == sess[r].copy
                 new == [copy EXCEPT !.role = "admin", !.password = sess[r].new]
      <3>1. /\ sess[r].id \in Accounts \cup {None} /\ copy \in User
            /\ sess[r].new \in Passwords /\ AllServe
        BY <2>4 DEF AInv, RequestKnows, PromoteCommit
      <3>2. /\ new \in User /\ new.email = copy.email /\ new.fails = copy.fails
            /\ new.until = copy.until
        BY <3>1 DEF User
      <3>3. CASE sess[r].id = None
        <4>1. users' = [users EXCEPT ![r] = copy]
          BY <2>4, <3>3 DEF PromoteCommit
        <4>2. r \notin Accounts /\ r \in Procs
          BY <1>1, <2>4, Facts DEF PromoteCommit, PlacesInv, Answers
        <4>3. users'[i] = users[i]
          BY <1>3, <4>1, <4>2
        <4> QED BY <4>3
      <3>4. CASE sess[r].id # None
        <4>1. /\ users' = [users EXCEPT ![sess[r].id] =
                              Written(users[sess[r].id], copy, new)]
              /\ UNCHANGED <<clock, log, raced>>
          BY <2>4, <3>4 DEF PromoteCommit, history
        <4> HIDE DEF copy, new
        <4>2. CountsStay
          BY <3>1, <3>2, <3>4, <4>1, ProfileWritten
        <4> QED BY <4>2 DEF CountsStay
      <3> QED BY <3>3, <3>4
    <2> QED BY <1>5, <2>1, <2>2, <2>3, <2>4
            DEF RequestStep, LoginRead, Logout, ChangeRead, PromoteRead
  <1>6. CASE Tick \/ Done
    <2>1. users' = users
      BY <1>6 DEF Tick, Done, vars
    <2> QED BY <2>1
  <1> QED BY <1>4, <1>5, <1>6 DEF Next

\* Whatever logins overlap, nothing but its time ends the first lock of an account: a
\* login writes locked_until only if it has read another (authenticate).
THEOREM FirstLockStays == Spec => FirstLockLasts
  <1> DEFINE Stays == \A i \in Accounts :
                          log[i].locks = 1 /\ IsLocked(users[i]) =>
                              users'[i].until = users[i].until \/ log'[i].locks > 1
  <1>1. ASSUME AInv, Next
        PROVE  Stays
    <2>1. ASSUME NEW i \in Accounts, log[i].locks = 1, IsLocked(users[i])
          PROVE  users'[i].until = users[i].until \/ log'[i].locks > 1
      <3>1. CASE \A r \in Requests : ~LoginCommit(r)
        BY <1>1, <2>1, <3>1, LocksAlone
      <3>2. ASSUME NEW r \in Requests, LoginCommit(r), sess[r].id # i
            PROVE  users'[i] = users[i]
        BY <1>1, <3>2, Verdicts, Rows DEF AInv
      <3>3. ASSUME NEW r \in Requests, LoginCommit(r), sess[r].id = i
            PROVE  users'[i].until = users[i].until \/ log'[i].locks > 1
        <4> DEFINE copy == sess[r].copy
        <4>1. /\ LoginKnows(r)
              /\ RightOne(i, copy) \/ LockingOne(i, copy) \/ WrongOne(i, copy)
          BY <1>1, <3>3, Verdicts
        <4>2. copy.until = None
          BY <2>1, <3>3, <4>1 DEF LoginKnows
        <4> HIDE DEF copy
        <4>3. CASE RightOne(i, copy)
          BY <4>2, <4>3 DEF RightOne
        <4>4. CASE LockingOne(i, copy)
          <5>1. log'[i].locks = 2
            BY <2>1, <4>4 DEF LockingOne
          <5> QED BY <5>1
        <4>5. CASE WrongOne(i, copy)
          BY <4>5 DEF WrongOne
        <4> QED BY <4>1, <4>3, <4>4, <4>5
      <3> QED BY <3>1, <3>2, <3>3
    <2> QED BY <2>1
  <1>2. AInv /\ [Next]_vars => [Stays]_vars
    BY <1>1
  <1> QED BY <1>2, AccountsInvariance, PTL DEF Spec, FirstLockLasts

=============================================================================
