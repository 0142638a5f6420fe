---------------------------- MODULE Availability ----------------------------
(***************************************************************************)
(* The list of slots as the drivers see it: the table, the cached list of  *)
(* slot_service.availability_snapshot, the broadcasts of realtime.py, and  *)
(* the page (static/js/main.js), which listens while its socket is up and  *)
(* polls while it is not.                                                  *)
(*                                                                         *)
(* A row is reduced to the request that changed its status last and to how *)
(* often its rate was rewritten.  A page has a card for every row there    *)
(* was when it was loaded, and for no other one.  A step is one statement, *)
(* one call of the cache or one emit.  A request is answered within the    *)
(* tick in which it starts.                                                *)
(***************************************************************************)
EXTENDS Integers, Sequences

CONSTANTS
    Slots,      \* ids that rows of parking_slots may have
    Existing,   \* those of the rows there are at the start
    Mutators,   \* requests and sweeps that change a slot, then broadcast
    Admins,     \* those of them that add or delete one
    Remote,     \* those on another worker than the one the sockets are on
    Mortal,     \* those whose worker may die
    Clients,    \* dashboards: a page that is loaded again is another one
    None,
    TTL,        \* the cache's timeout, in ticks
    PollEvery,  \* the page's interval, in ticks
    MaxReprice, \* bound: how often the beat task changes a rate
    MaxSwitch   \* bound: how often each socket goes up or down

ASSUME AvailabilityAssumption ==
    /\ Remote \subseteq Mutators /\ Mortal \subseteq Mutators
    /\ Mutators \cap ((Clients \X {"poll", "subscribe"}) \cup {"initial", "absent"}) = {}
    /\ Existing \subseteq Slots
    /\ TTL \in Nat \ {0} /\ PollEvery \in Nat \ {0}
    /\ MaxReprice \in Nat /\ MaxSwitch \in Nat

VARIABLES
    table,     \* the committed rows
    cache,     \* key "slots:availability": the list and the ticks it has left
    pc, held,  \* where each process is, and the list it has in hand
    link,      \* whether each page is loaded, and in the room "slots"
    view,      \* what each page shows
    due,       \* ticks until the page's interval fires
    switches,  \* how often the socket of each client went up or down
    wire,      \* published to the sockets' worker, not yet delivered
    polled,    \* history: the page was loaded or a poll answered since the socket was last up
    disturbed  \* history: see Overtakes

vars == <<table, cache, pc, held, link, view, due, switches, wire, polled, disturbed>>
clientVars == <<link, view, due, switches, wire, polled>>

-----------------------------------------------------------------------------
MaxAge == TTL + PollEvery

\* The last change of a row's status; absent: there is no such row, or no such card.
States == Mutators \cup {"initial", "absent"}
Rows == [slots : [Slots -> States], rates : [Slots -> Nat]]

\* A list of slots, or what a page shows, and the ticks since it was read.
List == [slots : [Slots -> States], rates : [Slots -> Nat], age : 0 .. MaxAge]

ASSUME NoneIsNoList == None \notin List

Older(list) == [list EXCEPT !.age = IF @ < MaxAge THEN @ + 1 ELSE @]

\* What a page shows before it is loaded.
NoCards == [slots |-> [s \in Slots |-> "absent"], rates |-> [s \in Slots |-> 0], age |-> 0]

\* list_slots
ListSlots == [slots |-> table.slots, rates |-> table.rates, age |-> 0]

Polls == Clients \X {"poll"}
Subscriptions == Clients \X {"subscribe"}
Procs == Mutators \cup Polls \cup Subscriptions

AtRest == \A p \in Procs : pc[p] \in {"idle", "done"}

Init ==
    /\ table = [slots |-> [s \in Slots |-> IF s \in Existing THEN "initial" ELSE "absent"],
                rates |-> [s \in Slots |-> 0]]
    /\ cache = None
    /\ pc = [p \in Procs |-> "idle"]
    /\ held = [p \in Procs |-> None]
    /\ link = [c \in Clients |-> "unloaded"]
    /\ view = [c \in Clients |-> NoCards]
    /\ due = [c \in Clients |-> PollEvery]
    /\ switches = [c \in Clients |-> 0]
    /\ wire = [c \in Clients |-> <<>>]
    /\ polled = [c \in Clients |-> FALSE]
    /\ disturbed = FALSE

Goto(p, step) == pc' = [pc EXCEPT ![p] = step]

-----------------------------------------------------------------------------
(* Changes of the table. *)

\* A booking, an exit, a toggle... is committed, or a row is added or deleted.
Commit(m) ==
    \E s \in Slots, state \in {m, "absent"} :
        /\ pc[m] = "idle"
        /\ table.slots[s] # state
        /\ "absent" \in {table.slots[s], state} <=> m \in Admins
        /\ table' = [slots |-> [table.slots EXCEPT ![s] = state],
                     rates |-> [table.rates EXCEPT
                                  ![s] = IF "absent" \in {table.slots[s], state} THEN 0 ELSE @]]
        /\ Goto(m, "invalidate")
        /\ UNCHANGED <<cache, held, clientVars, disturbed>>

\* The beat task writes the rates; it neither invalidates nor broadcasts.
Reprice ==
    /\ \A s \in Slots : table.rates[s] < MaxReprice
    /\ table' = [table EXCEPT !.rates = [s \in Slots |->
                    IF table.slots[s] = "absent" THEN 0 ELSE table.rates[s] + 1]]
    /\ UNCHANGED <<cache, pc, held, clientVars, disturbed>>

\* Somebody has an outdated list in hand, which he will store or show later.
Overtakes(p) ==
    \E q \in Procs \ {p} : held[q] # None /\ held[q].slots # table.slots

\* A bug: the key is not deleted.
KeptKey == cache

DeletedKey == None

\* invalidate_availability: by the service, then again by broadcast_slots.
Invalidate(m) ==
    /\ pc[m] \in {"invalidate", "broadcast"}
    /\ cache' = DeletedKey
    /\ disturbed' = (disturbed \/ Overtakes(m))
    /\ Goto(m, IF pc[m] = "invalidate" THEN "broadcast" ELSE "get")
    /\ UNCHANGED <<table, held, clientVars>>

-----------------------------------------------------------------------------
(* availability_snapshot, for whoever calls it. *)

Get(p) ==
    /\ pc[p] = "get"
    /\ held' = [held EXCEPT ![p] = IF cache = None THEN None ELSE cache.list]
    /\ Goto(p, IF cache = None THEN "query" ELSE "answer")
    /\ UNCHANGED <<table, cache, clientVars, disturbed>>

Query(p) ==
    /\ pc[p] = "query"
    /\ held' = [held EXCEPT ![p] = ListSlots]
    /\ Goto(p, "store")
    /\ UNCHANGED <<table, cache, clientVars, disturbed>>

Store(p) ==
    /\ pc[p] = "store"
    /\ cache' = [list |-> held[p], left |-> TTL]
    /\ Goto(p, "answer")
    /\ UNCHANGED <<table, held, clientVars, disturbed>>

\* p has no more to do.
Leave(p) ==
    /\ Goto(p, IF p \in Polls \cup Subscriptions THEN "idle" ELSE "done")
    /\ held' = [held EXCEPT ![p] = None]
    /\ UNCHANGED <<table, cache, due, switches>>

\* A page that is given a list: the cards of the slots in it are brought up to date.
\* There are no new cards, and one whose slot is not in the list stays as it is.
ApplySlots(page, list) ==
    LET updated == {s \in Slots : "absent" \notin {page.slots[s], list.slots[s]}}
    IN  [slots |-> [s \in Slots |-> IF s \in updated THEN list.slots[s] ELSE page.slots[s]],
         rates |-> [s \in Slots |-> IF s \in updated THEN list.rates[s] ELSE page.rates[s]],
         age |-> list.age]

\* The emit to the room: at once from the sockets' own worker, otherwise
\* through the message queue.
Emit(m) ==
    LET room == {c \in Clients : link[c] = "up"}
    IN  /\ pc[m] = "answer" /\ m \in Mutators
        /\ Leave(m)
        /\ IF m \in Remote
           THEN /\ wire' = [c \in Clients |-> IF c \in room THEN Append(wire[c], held[m])
                                              ELSE wire[c]]
                /\ UNCHANGED <<view, disturbed>>
           ELSE /\ view' = [c \in Clients |-> IF c \in room THEN ApplySlots(view[c], held[m])
                                              ELSE view[c]]
                /\ disturbed' = (disturbed \/ \E c \in room : wire[c] # <<>>)
                /\ UNCHANGED wire
        /\ UNCHANGED <<link, polled>>

\* The answer of a poll, which the page applies whatever its socket does by then,
\* or the snapshot for a client that has just subscribed, lost if it is gone.
Answer(c, p) ==
    /\ pc[p] = "answer" /\ p \in {<<c, "poll">>, <<c, "subscribe">>}
    /\ Leave(p)
    /\ IF p \in Polls \/ link[c] = "up"
       THEN /\ view' = [view EXCEPT ![c] = ApplySlots(@, held[p])]
            /\ disturbed' = (disturbed \/ wire[c] # <<>>)
       ELSE UNCHANGED <<view, disturbed>>
    /\ polled' = [polled EXCEPT ![c] = @ \/ p \in Polls]
    /\ UNCHANGED <<link, wire>>

-----------------------------------------------------------------------------
(* The page. *)

\* The page is loaded: a card for every row, and a socket that is not yet up.
Load(c) ==
    /\ link[c] = "unloaded"
    /\ link' = [link EXCEPT ![c] = "down"]
    /\ view' = [view EXCEPT ![c] = ListSlots]
    /\ polled' = [polled EXCEPT ![c] = TRUE]
    /\ UNCHANGED <<table, cache, pc, held, due, switches, wire, disturbed>>

\* The interval: polls only while the socket is down.
Interval(c) ==
    /\ due[c] = 0
    /\ due' = [due EXCEPT ![c] = PollEvery]
    /\ IF link[c] = "up" THEN UNCHANGED pc ELSE Goto(<<c, "poll">>, "get")
    /\ UNCHANGED <<table, cache, held, link, view, switches, wire, polled, disturbed>>

Switch(c, state) ==
    /\ switches[c] < MaxSwitch
    /\ switches' = [switches EXCEPT ![c] = @ + 1]
    /\ link' = [link EXCEPT ![c] = state]
    /\ UNCHANGED <<table, cache, held, view, due>>

\* The page subscribes as soon as it is connected: first the room, then the snapshot.
Connect(c) ==
    /\ link[c] = "down" /\ pc[<<c, "subscribe">>] = "idle"
    /\ Switch(c, "up")
    /\ Goto(<<c, "subscribe">>, "get")
    /\ UNCHANGED <<wire, polled, disturbed>>

Disconnect(c) ==
    /\ link[c] = "up"
    /\ Switch(c, "down")
    /\ wire' = [wire EXCEPT ![c] = <<>>]
    /\ polled' = [polled EXCEPT ![c] = FALSE]
    /\ UNCHANGED <<pc, disturbed>>

Deliver(c) ==
    /\ wire[c] # <<>>
    /\ view' = [view EXCEPT ![c] = ApplySlots(@, Head(wire[c]))]
    /\ wire' = [wire EXCEPT ![c] = Tail(@)]
    /\ UNCHANGED <<table, cache, pc, held, link, due, switches, polled, disturbed>>

-----------------------------------------------------------------------------
\* The worker dies between its commit and its broadcast.
Crash(m) ==
    /\ m \in Mortal /\ pc[m] \notin {"idle", "done"}
    /\ Leave(m)
    /\ disturbed' = TRUE
    /\ UNCHANGED <<link, view, wire, polled>>

\* A bug: the entry has no timeout.
Unexpiring(entry) == [entry EXCEPT !.list = Older(@)]

\* A bug: the entry lives one tick longer than its timeout.
ExpiringLate(entry) ==
    IF entry.left = 0 THEN None
    ELSE [list |-> Older(entry.list), left |-> entry.left - 1]

Expiring(entry) ==
    IF entry.left = 1 THEN None
    ELSE [list |-> Older(entry.list), left |-> entry.left - 1]

\* Nothing is in flight across a tick, and an interval that is due fires first.
Tick ==
    /\ AtRest
    /\ \A c \in Clients : wire[c] = <<>> /\ due[c] > 0
    /\ cache' = IF cache = None THEN None ELSE Expiring(cache)
    /\ view' = [c \in Clients |-> Older(view[c])]
    /\ due' = [c \in Clients |-> IF link[c] = "unloaded" THEN due[c] ELSE due[c] - 1]
    /\ UNCHANGED <<table, pc, held, link, switches, wire, polled, disturbed>>

\* What is under way goes on.
Proceed(p) == Get(p) \/ Query(p) \/ Store(p)

Next ==
    \/ \E p \in Procs : Proceed(p)
    \/ \E m \in Mutators : Commit(m) \/ Invalidate(m) \/ Emit(m) \/ Crash(m)
    \/ \E c \in Clients :
          \/ Load(c) \/ Interval(c) \/ Connect(c) \/ Disconnect(c) \/ Deliver(c)
          \/ \E p \in Polls \cup Subscriptions : Answer(c, p)
    \/ Reprice
    \/ Tick

Spec == Init /\ [][Next]_vars

\* What is under way, or due.
UnderWay ==
    \/ \E p \in Procs : Proceed(p)
    \/ \E m \in Mutators : Invalidate(m) \/ Emit(m)
    \/ \E c \in Clients : \/ Interval(c) \/ Deliver(c)
                           \/ \E p \in Polls \cup Subscriptions : Answer(c, p)

\* The workers and the queue do not stop, nor does time, which waits for them: whatever
\* has started is then finished, since nothing starts without end within a tick.
FairSpec == Spec /\ WF_vars(UnderWay \/ Tick)

-----------------------------------------------------------------------------
(* Properties. *)

\* Every variable has its type.
AvailabilityTypeOK ==
    /\ table \in Rows
    /\ cache \in [list : List, left : 1 .. TTL] \cup {None}
    /\ pc \in [Procs -> {"idle", "invalidate", "broadcast", "get", "query", "store",
                         "answer", "done"}]
    /\ held \in [Procs -> List \cup {None}]
    /\ link \in [Clients -> {"unloaded", "up", "down"}]
    /\ view \in [Clients -> List]
    /\ due \in [Clients -> 0 .. PollEvery]
    /\ switches \in [Clients -> Nat]
    /\ wire \in [Clients -> Seq(List)]
    /\ polled \in [Clients -> BOOLEAN]
    /\ disturbed \in BOOLEAN

\* The slots of which the page of c has a card and the table a row.
Shown(c) == {s \in Slots : "absent" \notin {view[c].slots[s], table.slots[s]}}

\* When all is quiet, a page that listens shows the status of every slot that it has a card
\* for and that still exists (broadcast_slots: "Push the latest availability to every
\* subscriber"; applySlots), unless an invalidation overtook a list in somebody's hands, a
\* direct emit overtook a queued one, or a worker died before its broadcast.  An added
\* slot is not shown, and a deleted one stays, until the page is loaded again.
ListenersAreCurrent ==
    AtRest /\ ~disturbed =>
        \A c \in Clients : link[c] = "up" /\ wire[c] = <<>> =>
            \A s \in Shown(c) : view[c].slots[s] = table.slots[s]

\* The last list a polling page has applied is never older than one cache timeout and
\* one interval, whatever was lost, overtaken or died: the timeout of
\* availability_snapshot is what repairs a stale entry.
PollersLagLittle ==
    \A c \in Clients : link[c] = "down" /\ polled[c] => view[c].age < TTL + PollEvery

\* Once nothing changes any more, a page that polls shows the status and the rate of every
\* slot that it has a card for and that still exists, and goes on showing them
\* (availability_snapshot under main.js's fallback).
PollersCatchUp ==
    <>[](\A c \in Clients : link[c] = "down" =>
            \A s \in Shown(c) : /\ view[c].slots[s] = table.slots[s]
                                /\ view[c].rates[s] = table.rates[s])

=============================================================================
