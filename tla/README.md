# SmartPark-Its: a TLA+ verification project

SmartPark-Its is a Flask application that lets drivers book, use and pay for
slots of a car park. Its hard part is concurrency: many gunicorn worker threads
and two periodic Celery tasks read and write the same tables and one cache, and what
keeps them right is a mixture of checks in Python, row locks, unique indexes, a foreign
key, a cache timeout and a poll. This project models that part statement by
statement, checks it with TLC and proves its main results with TLAPS. The
computations that only read (tariff, dashboards, forecast, rankings, configuration) are
operators, checked over bounded inputs.

## 1. Inventory

| component | state it keeps | operations | interacts with | what is hard | what makes it correct |
|---|---|---|---|---|---|
| `models.py` | tables `parking_slots`, `bookings`, `users`, `payments`, `webhook_events`, `app_settings`, `parking_lots` | the constraints of the tables | everybody | the partial indexes and the foreign key are the only checks that are atomic with the write | one active booking per slot and per user; no booking without a slot |
| `booking_service.py` | rows of slots and bookings | `book_slot`, `exit_booking`, `reserve_slot`, `sweep_expired_reservations` | called by the web form, the JSON API and the sweep task; ends in `reprice_all` | check-then-write, stale objects in the ORM session, row locks that are issued only on some databases, crashes after the commit | slots and bookings agree; a closed booking is final; the bill is at the rate of the booking |
| `slot_service.py` | rows of slots, the availability cache | `add_slot`, `toggle_slot`, `delete_slot`, `availability_snapshot` | admin pages; touches bookings on force-free | reads and writes in different statements with no lock; cache set after invalidation | no referenced slot is deleted; a toggle does not undo an exit |
| `pricing_service.py` | `surge_multiplier` of every row | `compute_surge`, `current_occupancy_ratio`, `reprice_all` | tail of bookings and exits, beat task | two counts of two snapshots, an UPDATE computed from old counts | the multiplier stays between 1 and the cap and settles on the occupancy |
| `tasks.py`, `celery_worker.py` | the beat schedule | `sweep_reservations`, `reprice`, `send_notification` | booking and pricing services, realtime | retries, overlap with requests | every lapsed hold is freed in the end |
| `cli.py`, `wsgi.py` | the seeded rows | `seed_data`, `create-admin` | every worker at boot | two workers that boot at once; a worker that dies or fails while it seeds | administrator, lots and slots exist once, or not at all |
| `payment_service.py`, `blueprints/payments.py` | payments and webhook events | create, confirm, webhook | exit route, the payment provider | events delivered twice or at once; crash between exit and payment | a payment is recorded once and paid once |
| `settings_service.py`, `blueprints/settings.py` | `app_settings` | `get`, `set_many`, `update_system` | pricing, holds, UPI | values are not validated; overlapped saves; settings read one by one; a stale reprice that writes last | a save is stored whole; the slots end at the settings in force |
| `realtime.py`, the cache, `main.js` | cached list, subscribers' view | subscribe, broadcast, poll | every mutation | stale set after a delete; broadcasts out of order; a worker that dies before its broadcast | a listener's cards are current when all is quiet; a poller lags by less than a timeout and an interval |
| `security.py`, `blueprints/auth.py` | accounts, failed logins, lockout, sessions | login, logout, register, change of password | every route | unlocked read-modify-write; a login decided on a row read before the lock | failures are counted; nobody is locked without cause; the first lock lasts |
| `forecast_service.py`, `geo_service.py`, `analytics_service.py`, `anpr_service.py` | none | pure computations over rows or an image | dashboards, API | windows, edges and roundings | the best first; the dashboards agree |
| `config.py`, `observability.py` | the configuration, none at run time | choice of a configuration, `healthz` | the load balancer | an unsafe production instance; what takes an instance out of rotation | production shares its services; health tells of them |
| `notification_service.py`, `legacy_api.py`, templates, monitoring, load tests | none of the domain | output | | | |

`PROJECT.json` lists the same components with their status, and under "hazards"
every place where the code can go wrong in a way a test would hardly reach.

## 2. The modules

| module | models | |
|---|---|---|
| `Tariff` | `compute_surge`, `current_occupancy_ratio`, `current_rate`, the hours and the cost of a stay | pure, fixed point |
| `ParkingDB` | the rows, the indexes, ORM sessions, row locks, processes | the ground the services stand on |
| `BookingService` | `book_slot` (form and API), `exit_booking`, `reserve_slot`, the sweep | one action per SQL statement or commit |
| `SlotService` | `add_slot`, `toggle_slot`, `delete_slot` | |
| `PricingService` | `reprice_all` | shared by requests and the beat task |
| `ParkingSystem` | all of it composed, with crashes and time; the properties | |
| `Occupancy` | the abstract promise: who is parked where, which slots exist | |
| `Floor` | the stronger promise of an orderly use: one table of slots that are free, held or taken by a driver | |
| `PaymentService` | the exit route's charge, the mock confirmation, the webhook, and the provider that captures, reports and retries | one action per statement or commit |
| `Ledger` | the abstract promise: a booking is charged once, settled only after the money is taken, nothing undone | |
| `Availability` | the cached list, its invalidation, `availability_snapshot`, `broadcast_slots`, subscriptions, and the page with its cards, which listens or polls | one action per statement, cache call or emit |
| `Accounts` | registration, login and lockout, logout, change of password, `create-admin`, and the seeding of an empty database by every worker | one action per statement or flush |
| `SettingsService` | `get`, `set_many`, `update_system`, the tail of `reprice_all`, the sweep's flush and `add_slot`'s row, their row locks taken one by one and deadlocks broken | one action per statement, row lock or commit |
| `Reports` | `analytics_service` (kpis, trend, peak hours, gauge), `counts`, and the forecast's demand profile and predictions | pure, whole hours |
| `Ranking` | `recommend_slots`, `nearest_lots`, the choice of regions and of the text in `anpr_service` | pure |
| `Deployment` | which configuration an instance gets and when it refuses to start (`config.py`), `healthz` | pure |
| `MCParking`, `MCSettings`, `MCComputations` | small instances for TLC | |
| `Computations` | the inputs of `Tariff`, `Reports`, `Ranking` and `Deployment`, reached one change after the other, and what must hold of the results | |
| `Tariff_proofs`, `Computations_proofs`, `ParkingSystem_proofs`, `Orderly_proofs`, `PaymentService_proofs`, `Availability_proofs`, `SettingsService_proofs`, `Accounts_proofs` | theorems | |

`ParkingSystem` composes the booking, slot and pricing services over one database. The
other stateful modules stand beside it: each has the part of the tables it needs and
names what it takes as given (the payments an exit, the availability a change of the
table, the settings an occupancy).

### State and code

* In `ParkingSystem`, `slots` and `bookings` are the two tables. A booking's id is the
  request that inserted it; a slot's id is never reused (`retired`).
* `pc`, `job`, `sess` are, for each request and each task, the statement it has
  come to, its arguments, and what its ORM session holds. `sess[p].copy` is the
  slot object **as loaded**: a later `SELECT ... FOR UPDATE` in the same session
  does not refresh it (SQLAlchemy returns the object of the identity map), which is
  why `BookFromWeb`, whose view calls `db.session.get` first, decides on an older
  row than `BookFromAPI`. `Flush` writes only the columns that differ from what was
  loaded, as the ORM's unit of work does; `Written` in `Accounts` and `Stored` in
  `SettingsService` are the same rule for their tables.
* `rowLock` holds the row locks. `_lock_slot` issues `FOR UPDATE` only if
  `db.session.bind` is set and is PostgreSQL. With Flask-SQLAlchemy 3 the session's
  `bind` is usually `None`, and on SQLite there is no such lock at all. The constant
  `RowLocks` says which, and the project looks at both.
* A step is one SQL statement under READ COMMITTED, or one flush with its commit.
  A flush that finds a row gone is a `StaleDataError` (answer `"error"`), a conflict
  with an index is the code's clean refusal (`"rejected"`).
* A booking or exit that commits continues into the three steps of `reprice_all`.
  A worker may die at any step (`Crash`): its transaction is rolled back, its locks go.
* In `PaymentService` an order's id is the exit request that created it. `exits` and
  `hooks` are the steps of the exit requests and of the workers that serve the webhook;
  `sent`, `captured` and `acked` are the provider's side. The exit is two steps, since
  `ParkingSystem` has it in full: what counts here is that its commit comes before the
  charge and that two exits of one booking may race. `FlushEvent` is the query for the
  payment, which autoflushes the event's INSERT and so waits for another worker that
  has inserted the same id.
* In `Availability` a row is reduced to the request that changed its status last, or to its
  absence, and to how often its rate was rewritten; a list of slots to the same and how many
  ticks ago it was read. `cache` is the one key, `held` the list a request has in hand between
  the query, the store and the answer, `wire` the messages between another worker and the one
  that has the sockets, `view` what a page shows. The template gives a page a card for every
  row there is (`Load`). The script's `applySlots` returns for a slot that has no card, and
  never adds or removes one, so `ApplySlots` brings up to date only the cards whose slot is in
  the list. A page that is loaded again is another client. `Commit` is any of the changes that
  end in `broadcast_slots`, those of `Admins` the addition or deletion of a row; `Reprice` is
  the beat task, which does not. `disturbed` is a history variable: it becomes true when an
  invalidation overtakes an outdated list in somebody's hands, when a direct emit or answer
  overtakes a queued list, or when a worker dies before its broadcast. These are exactly the
  ways in which `realtime.py`'s "Push the latest availability to every subscriber" can fail;
  nothing in the code prevents them.
* In `Accounts` a row's id is the process that inserted it, a password stands for its
  hash, and `sess` is the row a login has loaded before it decides. `log` and `raced` are
  history: the wrong passwords in a row, the locks imposed, and on which accounts two
  logins overlapped. A booting worker goes through `create_all`, the query for an
  administrator, the autoflush that inserts him, the two counts and the commit; `sess`
  has what its open transaction adds.
* In `SettingsService`, `copy` are the setting rows as loaded, `wrote` the keys flushed
  and not committed, `todo` the slot rows an UPDATE or a flush has still to lock. A reprice
  goes through the rows in any order, the sweep in the order of the keys. `AddSlot` inserts
  a row at the model's default of 1.0 and reprices nothing, as in the code; `seen` are the
  rows there were when a reprice's UPDATE began, and the history variable `unseen` the rows
  that the UPDATE committed last has not seen. A deletion is left to `ParkingSystem`. `Victim` is
  PostgreSQL failing one of those that wait in a circle.
* `Reports`, `Ranking`, `Deployment` have no state. Texts, pictures, coordinates and URLs
  are reduced to what the code compares: a text has a length and is a plate or is not, a
  lot has a distance, a URL its scheme.

### Bounds and abstractions

* `MaxTime` bounds the clock, and a hold lasts `HoldTicks` ticks. With `MaxTime = 1`,
  `HoldTicks = 0` and `TickSeconds = 5400` a hold lapses after one tick and a stay that
  spans a tick is billed as two hours, which is all the properties tell apart.
* `Requests` bounds the number of requests; `Earlier` names those that booked before
  the start, so that a run begins with a driver parked. Three requests besides are
  the least that show the lost updates: two that race and one that takes the slot in
  between.
* `Slots` are all the ids there can be; `Seeded` those that exist at first. `AddSlot`
  needs a free id: a bound of the model.
* Money is in hundredths, multipliers in hundredths, occupancy in ten-thousandths:
  the digits the code's own `round` keeps. A float's binary error is abstracted.
* All slots have one base rate, and the vehicle, location and names are left out.
* The refusals of blank or ill-typed fields, before anything is read, are left out,
  except the setting that is no number, which is read and set key by key.
* In `ParkingSystem` a row that a flush writes is locked for that step only, so two
  transactions never wait for each other with part of their locks taken; that is the
  subject of `SettingsService`.
* `Availability`: two slots, one of which exists at first; an administrator, who deletes it or
  adds the other, and a request that changes its status. Two changes are the least for two
  broadcasts to cross; one is remote, one may die. `TTL = 2` and `PollEvery = 2` let an entry
  age and an interval run with the bound `TTL + PollEvery` in reach. `MaxSwitch` and
  `MaxReprice` bound how often the socket and the rates change. A request is answered within
  the tick it starts in.
* `Accounts`: two workers race for the seeding, `MaxCrash = 1` kills one; three requests
  are one registration (or the seeded administrator) and two logins, with
  `MaxAttempts = 2` and a lock of one tick out of two. Visitors do not register the demo
  administrator's own address, and `create-admin` is run once the workers serve.
* `SettingsService`: two settings, a switch and a number, stand for the six; the occupancy is
  such that the multiplier is the cap, so that 100 and the caps are all the multipliers.
  `Starts`: a lot of one slot whose settings were never saved, to which the other slot may be
  added, or a lot of two with saved settings. Two saves, one sweep. A sweep of one row closes
  no circle and is left out.
* `Computations`: up to 60 slots and four hours; histories of three bookings in a lot of two
  slots over six hours, where a slot changes its status without a booking while there is at
  most `MaxMarked` booking, with days of two hours, weeks of two days, a trend of two days and
  a half-life of four hours, so that every window, midnight and week wraps within the history;
  lists of three with a limit below, at and above their length. The decay of a weight is
  sampled at whole half-lives.

## 3. The runs

| run | use | what it shows |
|---|---|---|
| `anarchy` | every operation, no row locks, two users that may have several requests, sweep, crashes | the type invariant, `ActiveBookingsExclusive`, `BookingsReferToSlots`, `BilledAtBookedRate`, and that the system implements `Occupancy`: the indexes and the foreign key alone are enough for these. PostgreSQL enforces the foreign key; SQLite does so only with `PRAGMA foreign_keys`, which the application does not set |
| `orderly` | row locks, one request per user, no toggle, no sweep, beat reprices, crashes | `StatusMatchesBookings`: occupied if and only if somebody is parked; `ClosedIsFinal`; and that the system implements `Floor` |
| `beat` | row locks, both tasks, bookings, exits, toggles, holds, crashes of requests | `EveryRequestAnswered`, `HoldEnds`, `SurgeSettles` |
| `payments` | two exits of one or two bookings, bills of 0 and 1, two workers, two events, either provider, one crash | `AckedIsApplied`, `WebExitIsCharged`, `ChargedAtBill`, `CaptureIsApplied`, and that the payments implement `Ledger` |
| `availability` | a change of a slot and an addition or deletion, on two workers, one mortal; a page whose socket goes up and down; reprices | `ListenersAreCurrent` unless disturbed, `PollersLagLittle` whatever happens, `PollersCatchUp`; the first and the last of the cards a page has |
| `accounts` | two workers boot on an empty database, one may die; then three requests of any kind | `OneAccountPerEmail`, `SeededOnce`, `SeedingSucceeds`, `FailuresCounted`, `LockHasCause`, `FirstLockLasts` |
| `settings` | two administrators save at once, one perhaps a malformed form, while sweep and reprice write the same rows and a slot is added | `OneMultiplier`, `SaveIsWhole`, `EverySaveAnswered`, `SurgeFollowsSettings` |
| `tariff` | the bounded inputs of the computations; histories with bookings, exits, toggles, holds and the statuses that the races leave | bounds and monotonicity of the surge, the billed hours, `DashboardsAgree`, `ForecastFollowsHistory`, `RankingsAreBest`, `DeploymentIsSound` |
| `double_exit` | one user exits twice at once | violates `StatusMatchesBookings` |
| `sweep_race` | a sweep and a booking of the same expired hold | violates `StatusMatchesBookings` |
| `toggle_race` | a force-free and an exit of the same booking | violates `ClosedIsFinal` |
| `webhook_race` | one capture delivered twice at once | violates `DuplicatesAreRecognised` |

### The violated runs

They are disagreements between the code and its own comments or its ADR;
`PROJECT.json` quotes them under "findings". In the first three, `exit_booking` and
`toggle_slot` do not ask again, after they have waited, whether the booking is still
active, and the sweep writes by id what it read without a lock. The indexes do not
help, because none of these writes inserts an active booking. The run `orderly` is the
other half of that statement: it says under which use nothing of this happens, and each
condition it makes is one that a violated run drops (several requests per user, the
sweep, the toggle).

`webhook_race` is about the `try` in `handle_webhook_event`: the
`IntegrityError` it waits for is raised earlier, by the autoflush of the query above it.
It does no lasting harm, which is what `payments` shows: the provider retries, and the
event and its payment are committed together. In `payments`, `WebExitIsCharged` and
`ChargedAtBill` leave out bookings that two exits have raced for, where the second may
change the bill after the charge (the race of `double_exit`). Two events are the least
for a capture and a copy about the same order under two ids, two workers the least for
a race of deliveries.

### What the properties leave out, and why

The code leaves some races open without promising otherwise; the property then says for
what it holds, and the history variable says exactly when it does not apply.

* A force-free cancels the booking and no bill is made, although the comment at
  `slot_service.py:88` speaks of completing it. The model follows the code.
* `disturbed` (`Availability`): a list read before a change may be stored after the
  invalidation. A listener then keeps old slots until the next broadcast; a poller until
  the timeout, which is why `PollersLagLittle` needs no such condition.
* A page's cards are those of the slots there were when it was loaded: `applySlots`
  (`main.js:64`) drops a slot it has no card for, and a deleted slot keeps its card, although
  both changes are broadcast. So `ListenersAreCurrent` and `PollersCatchUp` speak of the
  slots that have a card and a row; an added slot is not shown, and a deleted one is,
  until the page is loaded again.
* `unseen` (`SettingsService`): `add_slot` inserts a row at 1.0 and does not reprice, and an
  UPDATE does not see a row inserted after it began. In a lot under surge such a slot is
  cheaper than the others until the next reprice; `OneMultiplier` leaves it out,
  `SurgeFollowsSettings` shows that it ends with the others.
* `raced` (`Accounts`): two logins that overlap may count as one wrong password.
  `LockHasCause` needs no such condition: a stale count is never too high. That a wrong
  password goes uncounted then is not ruled out by any property: it is so. A login that has
  read the row before a lock may succeed after it; `FirstLockLasts` shows that it does not
  lift the lock. Changes of a password that overlap end with the last one.
* `SeededOnce` is about a database that starts empty. One that has an administrator and
  slots but no lots, as after the upgrade that brings the lots, would get the lots from
  each of several workers that boot at once.
* `overlapped` (`SettingsService`): the table may end as a mixture of two saves that
  overlap ("Upsert a batch of settings", `settings_service.py:46`); of two first saves one
  ends in an uncaught error, as does a malformed number, with nothing stored.
* `GaugeAgrees` does not say that the active bookings of `kpis` are the occupied slots of the
  gauge. They are not: a toggle occupies a slot that nobody has booked, and the races of the
  violated runs leave an active booking whose slot is free, or an occupied slot without one. A
  lot without slots would show one free slot (`count() or 1`). The demand of an hour of the
  week is a sum of weights, where the comment at `forecast_service.py:36` says average; the
  prediction divides by the number of slots, so a deleted slot raises predictions without a
  booking, and `ForecastFollowsHistory` is about a lot that keeps its slots. A label computed
  after midnight leaves a day out, never one twice.
* `RankingsAreBest`: two lots at the same rounded distance are in the order in which the query
  returned them. It has no `ORDER BY`, so that is the database's order and no promise.

Deadlock is checked in every run but `tariff`, whose inputs come to an end: `Done` lets
the system rest when all requests are answered and the time is up, and in `Availability`
and `SettingsService` something can always go on (time, the beat). Instances use
symmetry over users, slots, requests and slot numbers (the seeded slots only, since they
differ from the others), `tariff` over the slots of the lot, which the reports only count;
and never in a run with liveness.

### Fairness

`ParkingSystem`'s `FairSpec` asks weak fairness of `Proceed(p)` for every process and of
`Tick`. For a request, `Proceed` is every step but its first: gunicorn goes on with a
request it has started, and nobody is obliged to send one. For a task it includes the
start: beat sends the task again every 60 or 120 seconds (`tasks.py`, `beat_schedule`). A
crash is never fair. Weak fairness is enough although row locks are waited for,
because in the bounded workload a lock is taken from a waiter only finitely often.
With an unbounded stream of requests a waiter would rely on PostgreSQL's lock queue.

In `PaymentService`, `FairSpec` asks weak fairness of what a worker has begun and strong
fairness of `Retry(e)`: the provider sends an event until it is answered with 200, and
some worker is free again and again, so one of the deliveries gets through. Exits,
confirmations and the first capture are never owed.

In `Availability` what the workers, the page's interval or the queue have under way, and
time, which waits for them, are one weakly fair action: within a tick nothing starts without
end, so whatever has started is finished. Commits, reprices, loads, sockets and deaths are
never owed. In `Accounts` only the
seeding steps are: a worker that boots goes on. In `SettingsService` the steps of a process
are strongly fair, since the beat goes on for ever and may take a row again and again
before a waiter gets it: PostgreSQL queues those who wait for a row, so each has its
turn. `Victim` is weakly fair: the deadlock detector runs after `deadlock_timeout`. A
first step of a save is never owed.

## 4. The proofs

TLC sees two users and three slots, one page, two administrators. TLAPS proves the
following for every number of users, slots, requests, tasks, pages, workers and rows, all
workloads, and every value of the settings within the named assumptions. They are
ranges of the constants, the finiteness of some sets, and that `None` is not a value of
the types it is added to: `TariffAssumption`, `DBAssumption`, `NoneIsNotAValue`,
`SystemAssumption`, `PaymentAssumption`, `NoneIsNoRow`, `AvailabilityAssumption`,
`NoneIsNoList`, `SettingsAssumption`, `AccountsAssumption`, `NoneIsNoAccount`,
`ReportsAssumption`, `RankingAssumption`, `DeploymentAssumption`, `ComputationsAssumption`.
A hypothesis that only some theorems need stands in their `ASSUME`: a cap of at least 1,
a lot that has a slot, a use that is `Orderly`.

* `Tariff_proofs`: `RoundDiv` rounds to nearest and keeps order against whole
  multiples, hence `SurgeBetweenOneAndCap`; and a rate is never rounded to zero. Rounding
  twice, to a ratio and to a multiplier, keeps order (`RoundDivMonotone`, `OccupancyFalls`,
  `SurgeMonotone`), and the ends are exact (`SurgeWhenFull`, `SurgeWhenEmpty`).
  `BilledHoursCover`: the billed hours are the least that cover a stay.
* `ParkingSystem_proofs`: `IInv` is inductive. `ActiveBookingsExclusive` alone is not:
  closing a booking must not move it to another slot, and deleting a slot must not
  strand one. So `IInv` adds the types, `BookingsReferToSlots`, and `Coherent`, which
  says what each request may rely on at each step (an exit refers to a booking that
  exists and whose slot is the one it will write; a booking request's own row is not
  there yet; a toggle's booking exists). One lemma per action shows that `IInv` is kept
  and that the action is a step of `Occupancy` or a stutter. From it: `TypeCorrect`,
  `Exclusive`, `ReferencesKept`, `Implementation`.
  `SurgeBounded` holds if the cap is at least 1. The settings page accepts a
  smaller cap, and the assumption is really needed. `BilledAtItsRate` rests on it:
  `exit_booking` falls back to the rate of the moment when the rate of the booking is zero
  (`or`), so one must know that no booking has a rate of zero. `BillInv` says that of the
  copies of slots that requests hold, of the bookings, and that completed ones are billed
  accordingly.
  `LocksStayBrief` is what `EveryRequestAnswered` needs of the locks: one is held between a
  `SELECT ... FOR UPDATE` and the commit of the same request only, so nobody waits for
  somebody who waits, whether requests are refused, fail or die.
* `Orderly_proofs`: for the use named by `Orderly`, `OInv` is inductive together with
  `IInv`. Its heart is `Knows(r)`: between its statements an exit still knows that its
  booking is active, its copy says occupied, a booking request's copy says it is not,
  and a reservation holds the lock on a row that is not occupied. `OthersKnow` shows
  once that a step of another process takes none of this away. The reason is different
  for each: a user has one request, the index admits one booking, the row is locked. From
  it: `StatusAgrees` and `ClosedStays`. `StatusAgrees` also covers a use without row
  locks, if nothing is reserved: there the index on the slot stands in for the lock.
  `TablesActAsOne` is the refinement of `Floor`. Each operation's lemma also says which
  sign it changes, and how (`OneMoves`); with the refinement of `Occupancy`, which says
  what becomes of the drivers, and `StatusInv` before and after, every step is one of
  `Floor` (`StepOnFloor`). The two tables cannot be told from one: a hold never lands on
  a slot somebody has just taken, a slot that is left can be booked at once, and in such
  a use a hold ends only with a booking or with the slot.
* `PaymentService_proofs`: `PInv` is inductive. `AckedIsApplied` needs that what is recorded
  is applied and that a worker past its lookup holds an event whose order is captured, so
  charged (`HookKnows`, `MoneyInv`). `ChargedAtBill` needs what an exit knows between its
  commit and the insertion (`ExitKnows`): the cost it has read is still the bill, unless
  another exit of the booking has begun. From it: `PaymentTypeCorrect`, `Acknowledged`,
  `Charged`, `AtBill`, and `PaymentsImplementLedger`.
* `Availability_proofs`: `LagInv` is inductive. The age of a cached list and the ticks it has
  left never exceed the timeout, so a list in hand is younger than it; and what a polling page
  shows plus what is left of its interval stays below both together (`PollersStayClose`).
  `NewsInv` is inductive with it: while nothing is disturbed and no change waits for its
  invalidation, whatever is in the cache or in hand is current, and each listener's cards are
  current, or it has the current list on the wire, or somebody who will send it is under way
  (`ListenersShowTheTable`).
* `SettingsService_proofs`: `SInv` is inductive. `SaveKnows`: what a save has loaded is what
  the table has, unless another was committed since. `RowsKnow`: the rows a reprice has locked
  and those it has still to write are all those that its UPDATE has seen, so its commit sets
  them all alike. From it: `SettingsTypeCorrect`, `OneMultiplierForAll`, `SavesAreWhole`. A
  row added since the UPDATE began is `unseen` from its insertion on, and stays so until an
  UPDATE that has seen it is committed; that is all the insertion can disturb.
  `NobodyEverHangs` is the safety half of `EverySaveAnswered`: nobody waits for a lock of its
  own, and any set of processes that wait only for each other has a member for which
  `Deadlocked` holds, so the detector can break it. A save that waits for a settings key waits
  for one that can commit, since the settings are committed before the first row is touched;
  so in a set closed under waiting, the smallest closed part is a circle of rows.
* `Accounts_proofs`: `AInv` is inductive. `SeedKnows`: whoever has inserted the administrator
  is the only one, and nobody has been before; whoever has found one finds the lots too.
  That is why the lots, which have no key, exist once (`SeededAtMostOnce`). `RowKnows` ties
  a row to the history of its logins, `LoginKnows` the copy a login has in hand to both.
  From them: `OneAccountEach`, `FailuresAreCounted`, `LocksHaveCause`, `FirstLockStays`.

* `Computations_proofs`: the functions have no state of their own, so each theorem is over
  every input that changes of the lot can build up. `DashboardsStayTrue` needs that a
  booking ends no earlier than it starts and lies in the past (`HistoryInv`), whatever the
  statuses of the slots, and that a sum over a disjoint union is the sum of the
  sums: bars that have different days and together cover the lot's age add up to its
  revenue. It assumes a slot: `occupancy_gauge` counts an empty lot as one
  (`count() or 1`), so gauge and counts differ there. `ForecastFollows` needs that a
  weight only falls with age and that one more booking changes one bucket.
  `RankingsStayBest` rests on `RankedLists`: in a strict total order of a finite set every
  element has another number of predecessors, from 0 to one less than there are, so the
  list by that number is the set, in order, once each; a stable sort is that list for the
  order that breaks ties by place. From it follow the slices, the tests and the choice
  of a text. Also `SurgeStaysWithinBounds`, `SurgeFollows`, `FareCovers`,
  `DeploymentStaysSound`.

Induction over finite sets, which the sums need, is stated as a fact about one set: the
counts for which a claim fails have a least member. Where the code's arithmetic would be
recursive, the model uses a recursive function or a fold.

Model-checked only: the liveness properties (`EveryRequestAnswered`, `HoldEnds`,
`SurgeSettles`, `CaptureIsApplied`, `PollersCatchUp`, `SeedingSucceeds`, `EverySaveAnswered`,
`SurgeFollowsSettings`), since the prover does not do fairness or `ENABLED`. Every invariant
and every action property that a run checks is a theorem.

## 5. What is not modelled

* Floats: representation error, and the trigonometry of `geo_service`.
* The tables' edges: serialisers, `vehicle_mix` (one GROUP BY), pagination, names and
  notification flags of a profile, API tokens, rate limits.
* The reservation time and the payee of the payment link as settings: they are read where
  they are used, and `HoldTicks` stands for the first.
* A changed cap in `ParkingSystem`: there it is a constant, and `SettingsService` changes it
  over a full lot.
* Edge detection and OCR, delivery of notifications, templates, metrics and logging,
  migrations, monitoring, the load test: no state of the domain.

## 6. Plan

Done: the core with its runs and proofs, payments, availability, accounts with the seeding,
settings with deadlocks, the rankings and dashboards with their proofs, `BilledAtItsRate`, the
two refinements of `ParkingSystem`, and the safety of each module with state. Left, in order
of importance:

1. *Composition of the charge with the exit*, so that `PaymentService`'s bills come from
   `ParkingSystem`'s stays, and a crash between the two is one event.
2. *Holds with a holder.* The abstract specification that the docstring of
   `reserve_slot` suggests: a hold is for somebody, where `book_slot` lets anybody in.
3. *Settings in the whole system*: a cap that changes while drivers book.
4. *`vehicle_mix` and pagination* among the computations.
