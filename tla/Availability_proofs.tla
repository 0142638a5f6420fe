------------------------ MODULE Availability_proofs ------------------------
(***************************************************************************)
(* How old a polling page may be, and when a listening page is current,    *)
(* for any number of pages and requests, any timeout and any interval.     *)
(*                                                                         *)
(* LagInv is inductive with the types.  An entry of the cache has, all     *)
(* told, no more than its timeout to live; a list in hand is therefore     *)
(* younger than the timeout; and what a polling page shows and what is     *)
(* left of its interval add up to less than both together.                 *)
(*                                                                         *)
(* NewsInv is inductive with LagInv.  As long as nothing is disturbed and  *)
(* no change waits for its invalidation, whatever is in the cache or in    *)
(* hand is current, and each listener has the news or will get it.         *)
(***************************************************************************)
EXTENDS Availability, SequenceTheorems, TLAPS

-----------------------------------------------------------------------------
(* The inductive invariant. *)

CacheInv == cache # None => cache.list.age + cache.left <= TTL

\* A list that will be stored has been read in this tick; one that will be shown
\* may come from the cache.
HandInv ==
    \A p \in Procs :
        /\ pc[p] = "store" => held[p] \in List /\ held[p].age = 0
        /\ pc[p] = "answer" => held[p] \in List /\ held[p].age < TTL

Polling(c) == pc[<<c, "poll">>] \notin {"idle", "done"}

\* What the page of c may rely on while its socket is down.
PageInv ==
    \A c \in Clients :
        /\ link[c] # "up" => wire[c] = <<>>
        /\ link[c] = "down" /\ polled[c] =>
              /\ view[c].age < TTL + PollEvery
              /\ ~Polling(c) => view[c].age + due[c] < TTL + PollEvery

LagInv == AvailabilityTypeOK /\ CacheInv /\ HandInv /\ PageInv

-----------------------------------------------------------------------------
(* Lemmas about lists and processes. *)

LEMMA Numbers ==
    /\ TTL \in Nat /\ TTL > 0 /\ PollEvery \in Nat /\ PollEvery > 0
    /\ MaxAge \in Nat /\ MaxAge = TTL + PollEvery
  BY AvailabilityAssumption DEF MaxAge

LEMMA OlderList ==
    ASSUME NEW list \in List
    PROVE  Older(list) \in List /\ Older(list).age <= list.age + 1
  BY Numbers DEF List, Older

LEMMA FreshList ==
    ASSUME AvailabilityTypeOK
    PROVE  ListSlots \in List /\ ListSlots.age = 0 /\ ListSlots.slots = table.slots
  BY Numbers DEF List, Rows, ListSlots, AvailabilityTypeOK

\* A page that applies a list is as old as the list, and shows of every slot that it has
\* a card for what the list says, if the list has it.
LEMMA Applied ==
    ASSUME NEW page \in List, NEW list \in List
    PROVE  /\ ApplySlots(page, list) \in List
           /\ ApplySlots(page, list).age = list.age
           /\ \A s \in Slots :
                 "absent" \notin {ApplySlots(page, list).slots[s], list.slots[s]} =>
                     ApplySlots(page, list).slots[s] = list.slots[s]
  BY DEF ApplySlots, List

LEMMA ProcsApart ==
    /\ \A m \in Mutators : m \in Procs /\ \A c \in Clients : m # <<c, "poll">>
    /\ \A m \in Mutators : m \notin Polls \cup Subscriptions
    /\ \A c \in Clients : <<c, "poll">> \in Polls /\ <<c, "poll">> \in Procs
    /\ \A c \in Clients : <<c, "subscribe">> \in Subscriptions /\ <<c, "subscribe">> \in Procs
    /\ \A c, d \in Clients : /\ <<c, "poll">> = <<d, "poll">> => c = d
                             /\ <<c, "poll">> # <<d, "subscribe">>
    /\ Polls \cup Subscriptions \subseteq Procs
  BY AvailabilityAssumption DEF Procs, Polls, Subscriptions

-----------------------------------------------------------------------------
(* One lemma per action. *)

\* A request that is not a page's poll leaves the pages' part alone.
LEMMA PageFrame ==
    ASSUME LagInv, UNCHANGED clientVars,
           \A c \in Clients : pc'[<<c, "poll">>] = pc[<<c, "poll">>] \/ Polling(c)'
    PROVE  PageInv'
  BY DEF LagInv, PageInv, clientVars, Polling

LEMMA CommitKeeps ==
    ASSUME LagInv, NEW m \in Mutators, Commit(m)
    PROVE  LagInv'
  <1>1. AvailabilityTypeOK'
    <2>1. PICK s \in Slots, state \in {m, "absent"} :
              table' = [slots |-> [table.slots EXCEPT ![s] = state],
                        rates |-> [table.rates EXCEPT
                           ![s] = IF "absent" \in {table.slots[s], state} THEN 0 ELSE @]]
      BY DEF Commit
    <2>2. state \in States /\ table.slots \in [Slots -> States] /\ table.rates \in [Slots -> Nat]
      BY DEF States, Rows, LagInv, AvailabilityTypeOK
    <2>3. table' \in Rows
      BY <2>1, <2>2 DEF Rows
    <2> QED BY <2>3, ProcsApart DEF LagInv, AvailabilityTypeOK, Commit, Goto, clientVars
  <1>2. CacheInv' /\ HandInv'
    BY DEF LagInv, CacheInv, HandInv, Commit, Goto, AvailabilityTypeOK
  <1>3. PageInv'
    BY ProcsApart, PageFrame DEF LagInv, Commit, Goto, AvailabilityTypeOK
  <1> QED BY <1>1, <1>2, <1>3 DEF LagInv

LEMMA RepriceKeeps ==
    ASSUME LagInv, Reprice
    PROVE  LagInv'
  <1>1. AvailabilityTypeOK'
    <2>1. table' \in Rows
      <3> DEFINE rates == [s \in Slots |-> IF table.slots[s] = "absent" THEN 0
                                           ELSE table.rates[s] + 1]
      <3>1. table \in Rows /\ table' = [table EXCEPT !.rates = rates]
        BY DEF LagInv, AvailabilityTypeOK, Reprice
      <3>2. rates \in [Slots -> Nat]
        BY <3>1 DEF Rows
      <3> HIDE DEF rates
      <3> QED BY <3>1, <3>2 DEF Rows
    <2> QED BY <2>1 DEF LagInv, AvailabilityTypeOK, Reprice, clientVars
  <1>2. CacheInv' /\ HandInv'
    BY DEF LagInv, CacheInv, HandInv, Reprice
  <1>3. PageInv'
    BY PageFrame DEF Reprice
  <1> QED BY <1>1, <1>2, <1>3 DEF LagInv

LEMMA InvalidateKeeps ==
    ASSUME LagInv, NEW m \in Mutators, Invalidate(m)
    PROVE  LagInv'
  <1>1. AvailabilityTypeOK'
    BY ProcsApart DEF LagInv, AvailabilityTypeOK, Invalidate, Goto, clientVars, DeletedKey,
                      Overtakes
  <1>2. CacheInv' /\ HandInv'
    BY DEF LagInv, CacheInv, HandInv, Invalidate, Goto, AvailabilityTypeOK, DeletedKey
  <1>3. PageInv'
    BY ProcsApart, PageFrame DEF LagInv, Invalidate, Goto, AvailabilityTypeOK
  <1> QED BY <1>1, <1>2, <1>3 DEF LagInv

LEMMA GetKeeps ==
    ASSUME LagInv, NEW p \in Procs, Get(p)
    PROVE  LagInv'
  <1>1. cache # None => cache.list \in List /\ cache.list.age < TTL
    BY Numbers DEF LagInv, AvailabilityTypeOK, CacheInv, List
  <1>2. AvailabilityTypeOK'
    BY <1>1 DEF LagInv, AvailabilityTypeOK, Get, Goto, clientVars
  <1>3. CacheInv' /\ HandInv'
    BY <1>1 DEF LagInv, CacheInv, HandInv, Get, Goto, AvailabilityTypeOK
  <1>4. PageInv'
    BY PageFrame, ProcsApart DEF LagInv, Get, Goto, AvailabilityTypeOK, Polling
  <1> QED BY <1>2, <1>3, <1>4 DEF LagInv

LEMMA QueryKeeps ==
    ASSUME LagInv, NEW p \in Procs, Query(p)
    PROVE  LagInv'
  <1>1. AvailabilityTypeOK'
    BY FreshList DEF LagInv, AvailabilityTypeOK, Query, Goto, clientVars
  <1>2. CacheInv' /\ HandInv'
    BY FreshList DEF LagInv, CacheInv, HandInv, Query, Goto, AvailabilityTypeOK
  <1>3. PageInv'
    BY PageFrame, ProcsApart DEF LagInv, Query, Goto, AvailabilityTypeOK, Polling
  <1> QED BY <1>1, <1>2, <1>3 DEF LagInv

LEMMA StoreKeeps ==
    ASSUME LagInv, NEW p \in Procs, Store(p)
    PROVE  LagInv'
  <1>1. held[p] \in List /\ held[p].age = 0
    BY DEF LagInv, HandInv, Store
  <1>2. AvailabilityTypeOK'
    BY <1>1, Numbers DEF LagInv, AvailabilityTypeOK, Store, Goto, clientVars
  <1>3. CacheInv'
    BY <1>1, Numbers DEF LagInv, CacheInv, Store
  <1>4. HandInv'
    BY <1>1, Numbers DEF LagInv, HandInv, Store, Goto, AvailabilityTypeOK
  <1>5. PageInv'
    BY PageFrame, ProcsApart DEF LagInv, Store, Goto, AvailabilityTypeOK, Polling
  <1> QED BY <1>2, <1>3, <1>4, <1>5 DEF LagInv

\* Whoever leaves has nothing in hand that he will use.
LEMMA LeaveKeeps ==
    ASSUME LagInv, NEW p \in Procs, Leave(p)
    PROVE  /\ CacheInv' /\ HandInv'
           /\ pc' \in [Procs -> {"idle", "invalidate", "broadcast", "get", "query", "store",
                                 "answer", "done"}]
           /\ held' \in [Procs -> List \cup {None}]
           /\ \A q \in Procs \ {p} : pc'[q] = pc[q]
  BY DEF LagInv, CacheInv, HandInv, Leave, Goto, AvailabilityTypeOK

\* A mutator that leaves is no poll.
LEMMA PollsStay ==
    ASSUME LagInv, NEW m \in Mutators, Leave(m)
    PROVE  \A c \in Clients : Polling(c)' <=> Polling(c)
  <1>1. \A c \in Clients : pc'[<<c, "poll">>] = pc[<<c, "poll">>]
    BY LeaveKeeps, ProcsApart
  <1> QED BY <1>1 DEF Polling

LEMMA EmitKeeps ==
    ASSUME LagInv, NEW m \in Mutators, Emit(m)
    PROVE  LagInv'
  <1>1. m \in Procs /\ held[m] \in List /\ Leave(m)
    BY ProcsApart DEF LagInv, HandInv, Emit
  <1>2. CacheInv' /\ HandInv'
    BY <1>1, LeaveKeeps
  <1>3. /\ view' \in [Clients -> List] /\ wire' \in [Clients -> Seq(List)]
        /\ \A c \in Clients : link[c] # "up" => view'[c] = view[c] /\ wire'[c] = wire[c]
    <2>1. CASE m \in Remote
      <3>1. wire' = [c \in Clients |-> IF link[c] = "up" THEN Append(wire[c], held[m])
                                       ELSE wire[c]]
            /\ view' = view
        BY <2>1 DEF Emit
      <3>2. \A c \in Clients : wire[c] \in Seq(List) /\ Append(wire[c], held[m]) \in Seq(List)
        BY <1>1 DEF LagInv, AvailabilityTypeOK
      <3> QED BY <3>1, <3>2 DEF LagInv, AvailabilityTypeOK
    <2>2. CASE m \notin Remote
      <3>1. /\ view' = [c \in Clients |-> IF link[c] = "up" THEN ApplySlots(view[c], held[m])
                                          ELSE view[c]]
            /\ wire' = wire
        BY <2>2 DEF Emit
      <3>2. \A c \in Clients : view[c] \in List /\ ApplySlots(view[c], held[m]) \in List
        BY <1>1, Applied DEF LagInv, AvailabilityTypeOK
      <3> QED BY <3>1, <3>2 DEF LagInv, AvailabilityTypeOK
    <2> QED BY <2>1, <2>2
  <1>4. disturbed' \in BOOLEAN
    BY DEF LagInv, AvailabilityTypeOK, Emit
  <1>5. AvailabilityTypeOK'
    BY <1>1, <1>3, <1>4, LeaveKeeps DEF LagInv, AvailabilityTypeOK, Emit, Leave
  <1>6. PageInv'
    BY <1>1, <1>3, PollsStay DEF LagInv, PageInv, Emit, Leave
  <1> QED BY <1>2, <1>5, <1>6 DEF LagInv

LEMMA AnswerKeeps ==
    ASSUME LagInv, NEW c \in Clients, NEW p \in Polls \cup Subscriptions, Answer(c, p)
    PROVE  LagInv'
  <1>1. p \in Procs /\ held[p] \in List /\ held[p].age < TTL /\ Leave(p)
    BY ProcsApart DEF LagInv, HandInv, Answer
  <1>2. CacheInv' /\ HandInv'
    BY <1>1, LeaveKeeps
  <1>3. /\ view' \in [Clients -> List] /\ polled' \in [Clients -> BOOLEAN]
        /\ disturbed' \in BOOLEAN
    <2>1. view[c] \in List /\ ApplySlots(view[c], held[p]) \in List
      BY <1>1, Applied DEF LagInv, AvailabilityTypeOK
    <2> QED BY <1>1, <2>1 DEF LagInv, AvailabilityTypeOK, Answer
  <1>4. AvailabilityTypeOK'
    BY <1>1, <1>3, LeaveKeeps DEF LagInv, AvailabilityTypeOK, Answer, Leave
  <1>5. PageInv'
    <2>0. \A d \in Clients : link'[d] # "up" => wire'[d] = <<>>
      BY DEF LagInv, PageInv, Answer
    <2> SUFFICES ASSUME NEW d \in Clients, link'[d] = "down"
                 PROVE  /\ wire'[d] = <<>>
                        /\ polled'[d] =>
                              /\ view'[d].age < TTL + PollEvery
                              /\ ~Polling(d)' => view'[d].age + due'[d] < TTL + PollEvery
      BY <2>0 DEF PageInv
    <2>1. link[d] = "down" /\ wire'[d] = <<>> /\ due'[d] = due[d] /\ due[d] \in 0 .. PollEvery
      BY DEF LagInv, AvailabilityTypeOK, PageInv, Answer, Leave
    <2>2. CASE d = c /\ p = <<c, "poll">>
      <3>1. view'[d] = ApplySlots(view[d], held[p])
        BY <2>2, ProcsApart DEF LagInv, AvailabilityTypeOK, Answer
      <3>2. view[d] \in List
        BY DEF LagInv, AvailabilityTypeOK
      <3>3. view'[d].age = held[p].age
        BY <3>1, <3>2, <1>1, Applied
      <3> QED BY <3>3, <2>1, <1>1, Numbers DEF List
    <2>3. CASE d # c \/ p # <<c, "poll">>
      <3>1. p \notin Polls \/ d # c
        BY <2>3, ProcsApart DEF Answer, Polls, Subscriptions
      <3>2. view'[d] = view[d] /\ polled'[d] = polled[d]
        BY <3>1, <2>1 DEF LagInv, AvailabilityTypeOK, Answer
      <3>3. pc'[<<d, "poll">>] = pc[<<d, "poll">>]
        BY <2>3, <1>1, LeaveKeeps, ProcsApart DEF Answer
      <3> QED BY <3>2, <3>3, <2>1 DEF LagInv, PageInv, Polling
    <2> QED BY <2>2, <2>3
  <1> QED BY <1>2, <1>4, <1>5 DEF LagInv

\* A page that is being loaded is as new as the table.
LEMMA LoadKeeps ==
    ASSUME LagInv, NEW c \in Clients, Load(c)
    PROVE  LagInv'
  <1>1. /\ UNCHANGED <<table, cache, pc, held, due, switches, wire, disturbed>>
        /\ link[c] = "unloaded" /\ link' = [link EXCEPT ![c] = "down"]
        /\ view' = [view EXCEPT ![c] = ListSlots] /\ polled' = [polled EXCEPT ![c] = TRUE]
    BY DEF Load
  <1>2. AvailabilityTypeOK'
    BY <1>1, FreshList DEF LagInv, AvailabilityTypeOK
  <1>3. CacheInv' /\ HandInv'
    BY <1>1 DEF LagInv, CacheInv, HandInv
  <1>4. PageInv'
    <2> SUFFICES ASSUME NEW d \in Clients
                 PROVE  /\ link'[d] # "up" => wire'[d] = <<>>
                        /\ link'[d] = "down" /\ polled'[d] =>
                              /\ view'[d].age < TTL + PollEvery
                              /\ ~Polling(d)' => view'[d].age + due'[d] < TTL + PollEvery
      BY DEF PageInv
    <2>1. CASE d = c
      <3>1. view'[d].age = 0 /\ due'[d] \in 0 .. PollEvery /\ wire'[d] = <<>>
        BY <1>1, <2>1, FreshList DEF LagInv, AvailabilityTypeOK, PageInv
      <3> QED BY <3>1, Numbers
    <2>2. CASE d # c
      BY <1>1, <2>2 DEF LagInv, AvailabilityTypeOK, PageInv, Polling
    <2> QED BY <2>1, <2>2
  <1> QED BY <1>2, <1>3, <1>4 DEF LagInv

LEMMA IntervalKeeps ==
    ASSUME LagInv, NEW c \in Clients, Interval(c)
    PROVE  LagInv'
  <1>1. AvailabilityTypeOK'
    <2>1. due' \in [Clients -> 0 .. PollEvery]
      BY Numbers DEF LagInv, AvailabilityTypeOK, Interval
    <2>2. pc' \in [Procs -> {"idle", "invalidate", "broadcast", "get", "query", "store",
                             "answer", "done"}]
      BY ProcsApart DEF LagInv, AvailabilityTypeOK, Interval, Goto
    <2> QED BY <2>1, <2>2 DEF LagInv, AvailabilityTypeOK, Interval
  <1>2. CacheInv' /\ HandInv'
    BY ProcsApart DEF LagInv, CacheInv, HandInv, AvailabilityTypeOK, Interval, Goto
  <1>3. PageInv'
    BY ZenonT(40), Numbers, ProcsApart DEF LagInv, PageInv, AvailabilityTypeOK, Interval, Goto, Polling
  <1> QED BY <1>1, <1>2, <1>3 DEF LagInv

LEMMA ConnectKeeps ==
    ASSUME LagInv, NEW c \in Clients, Connect(c)
    PROVE  LagInv'
  <1>1. AvailabilityTypeOK'
    BY ProcsApart DEF LagInv, AvailabilityTypeOK, Connect, Switch, Goto
  <1>2. CacheInv' /\ HandInv'
    BY ProcsApart DEF LagInv, CacheInv, HandInv, AvailabilityTypeOK, Connect, Switch, Goto
  <1>3. PageInv'
    BY ProcsApart DEF LagInv, PageInv, AvailabilityTypeOK, Connect, Switch, Goto, Polling
  <1> QED BY <1>1, <1>2, <1>3 DEF LagInv

LEMMA DisconnectKeeps ==
    ASSUME LagInv, NEW c \in Clients, Disconnect(c)
    PROVE  LagInv'
  <1>1. AvailabilityTypeOK'
    BY DEF LagInv, AvailabilityTypeOK, Disconnect, Switch
  <1>2. CacheInv' /\ HandInv'
    BY DEF LagInv, CacheInv, HandInv, Disconnect, Switch
  <1>3. PageInv'
    BY DEF LagInv, PageInv, AvailabilityTypeOK, Disconnect, Switch, Polling
  <1> QED BY <1>1, <1>2, <1>3 DEF LagInv

LEMMA DeliverKeeps ==
    ASSUME LagInv, NEW c \in Clients, Deliver(c)
    PROVE  LagInv'
  <1>1. wire[c] \in Seq(List) /\ wire[c] # <<>> /\ link[c] = "up"
    BY DEF LagInv, AvailabilityTypeOK, PageInv, Deliver
  <1>2. Head(wire[c]) \in List /\ Tail(wire[c]) \in Seq(List)
    BY <1>1
  <1>3. AvailabilityTypeOK'
    <2>1. ApplySlots(view[c], Head(wire[c])) \in List
      BY <1>2, Applied DEF LagInv, AvailabilityTypeOK
    <2> QED BY <1>2, <2>1 DEF LagInv, AvailabilityTypeOK, Deliver
  <1>4. CacheInv' /\ HandInv'
    BY DEF LagInv, CacheInv, HandInv, Deliver
  <1>5. PageInv'
    BY <1>1 DEF LagInv, PageInv, AvailabilityTypeOK, Deliver, Polling
  <1> QED BY <1>3, <1>4, <1>5 DEF LagInv

LEMMA CrashKeeps ==
    ASSUME LagInv, NEW m \in Mutators, Crash(m)
    PROVE  LagInv'
  <1>1. m \in Procs /\ Leave(m)
    BY ProcsApart DEF Crash
  <1>2. CacheInv' /\ HandInv'
    BY <1>1, LeaveKeeps
  <1>3. AvailabilityTypeOK'
    BY <1>1, LeaveKeeps DEF LagInv, AvailabilityTypeOK, Crash, Leave
  <1>4. PageInv'
    BY <1>1, PollsStay DEF LagInv, PageInv, Crash, Leave
  <1> QED BY <1>2, <1>3, <1>4 DEF LagInv

\* A tick takes from the entry's time and from the interval what it adds to the ages.
LEMMA TickKeeps ==
    ASSUME LagInv, Tick
    PROVE  LagInv'
  <1>1. cache # None => /\ cache.list \in List /\ cache.left \in 1 .. TTL
                        /\ cache.list.age + cache.left <= TTL
                        /\ Older(cache.list) \in List
                        /\ Older(cache.list).age <= cache.list.age + 1
    BY OlderList DEF LagInv, AvailabilityTypeOK, CacheInv
  <1>2. cache' \in [list : List, left : 1 .. TTL] \cup {None} /\ CacheInv'
    <2>1. CASE cache = None \/ cache.left = 1
      BY <2>1 DEF Tick, Expiring, CacheInv
    <2>2. CASE cache # None /\ cache.left # 1
      <3>1. cache' = [list |-> Older(cache.list), left |-> cache.left - 1]
        BY <2>2 DEF Tick, Expiring
      <3>2. cache.left - 1 \in 1 .. TTL /\ cache.list.age \in Nat /\ Older(cache.list).age \in Nat
        BY <2>2, <1>1, Numbers DEF List
      <3> QED BY <3>1, <3>2, <2>2, <1>1, Numbers DEF CacheInv
    <2> QED BY <2>1, <2>2
  <1>3. HandInv'
    BY DEF LagInv, HandInv, Tick
  <1>4. \A c \in Clients : /\ view'[c] \in List /\ view[c] \in List
                           /\ view'[c].age <= view[c].age + 1
                           /\ due'[c] = IF link[c] = "unloaded" THEN due[c] ELSE due[c] - 1
                           /\ due[c] \in 1 .. PollEvery
    BY OlderList, Numbers DEF LagInv, AvailabilityTypeOK, Tick
  <1>5. view' \in [Clients -> List] /\ due' \in [Clients -> 0 .. PollEvery]
    BY <1>4, Numbers DEF Tick
  <1>6. AvailabilityTypeOK'
    BY <1>2, <1>5 DEF LagInv, AvailabilityTypeOK, Tick
  <1>7. PageInv'
    <2> SUFFICES ASSUME NEW c \in Clients, link'[c] = "down"
                 PROVE  /\ wire'[c] = <<>>
                        /\ polled'[c] =>
                              /\ view'[c].age < TTL + PollEvery
                              /\ ~Polling(c)' => view'[c].age + due'[c] < TTL + PollEvery
      BY DEF PageInv, Tick
    <2>1. ~Polling(c)
      BY ProcsApart DEF Tick, AtRest, Polling
    <2>2. /\ wire'[c] = <<>> /\ (polled'[c] => view[c].age + due[c] < TTL + PollEvery)
          /\ due'[c] = due[c] - 1
      BY <2>1, <1>4 DEF LagInv, PageInv, Tick
    <2>3. view'[c].age \in Nat /\ view[c].age \in Nat
      BY <1>4 DEF List
    <2> QED BY SMTT(30), <2>2, <2>3, <1>4, Numbers
  <1> QED BY <1>2, <1>3, <1>6, <1>7 DEF LagInv

-----------------------------------------------------------------------------
(* The invariant and what follows from it. *)

LEMMA LagInitHolds ==
    ASSUME Init
    PROVE  LagInv
  <1>1. NoCards \in List
    BY Numbers DEF List, NoCards, States
  <1>2. AvailabilityTypeOK
    <2>0. table \in Rows
      BY DEF Init, Rows, States
    <2>1. /\ cache \in {None}
          /\ pc \in [Procs -> {"idle"}] /\ held \in [Procs -> {None}]
          /\ disturbed \in BOOLEAN
      BY DEF Init
    <2>2. /\ link \in [Clients -> {"unloaded", "up", "down"}] /\ switches \in [Clients -> Nat]
          /\ polled \in [Clients -> BOOLEAN] /\ due \in [Clients -> 0 .. PollEvery]
      BY Numbers DEF Init
    <2>3. view \in [Clients -> List] /\ wire \in [Clients -> Seq(List)]
      BY <1>1 DEF Init
    <2> QED BY <2>0, <2>1, <2>2, <2>3 DEF AvailabilityTypeOK
  <1>3. CacheInv /\ HandInv
    BY DEF Init, CacheInv, HandInv
  <1>4. PageInv
    BY Numbers DEF Init, PageInv
  <1> QED BY <1>2, <1>3, <1>4 DEF LagInv

LEMMA LagStepKeeps ==
    ASSUME LagInv, [Next]_vars
    PROVE  LagInv'
  <1>1. CASE \E p \in Procs : Proceed(p)
    BY <1>1, GetKeeps, QueryKeeps, StoreKeeps DEF Proceed
  <1>2. CASE \E m \in Mutators : Commit(m) \/ Invalidate(m) \/ Emit(m) \/ Crash(m)
    BY <1>2, CommitKeeps, InvalidateKeeps, EmitKeeps, CrashKeeps
  <1>3. CASE \E c \in Clients :
                \/ Load(c) \/ Interval(c) \/ Connect(c) \/ Disconnect(c) \/ Deliver(c)
                \/ \E p \in Polls \cup Subscriptions : Answer(c, p)
    BY <1>3, LoadKeeps, IntervalKeeps, ConnectKeeps, DisconnectKeeps, DeliverKeeps, AnswerKeeps
  <1>4. CASE Reprice \/ Tick
    BY <1>4, RepriceKeeps, TickKeeps
  <1>5. CASE UNCHANGED vars
    BY <1>5 DEF vars, clientVars, LagInv, AvailabilityTypeOK, CacheInv, HandInv, PageInv, Polling
  <1> QED BY <1>1, <1>2, <1>3, <1>4, <1>5 DEF Next

\* The bound on the ages holds at the start and after every step.
THEOREM LagInvariance == Spec => []LagInv
  <1>1. Init => LagInv
    BY LagInitHolds
  <1>2. LagInv /\ [Next]_vars => LagInv'
    BY LagStepKeeps
  <1> QED BY <1>1, <1>2, PTL DEF Spec

\* Every variable keeps its type, in the cache, on the wire and on the pages.
THEOREM AvailabilityTypeCorrect == Spec => []AvailabilityTypeOK
  <1>1. LagInv => AvailabilityTypeOK
    BY DEF LagInv
  <1> QED BY <1>1, LagInvariance, PTL

\* A page that polls is behind by less than one timeout and one interval, however
\* many requests invalidate, overtake or die (availability_snapshot, main.js).
THEOREM PollersStayClose == Spec => []PollersLagLittle
  <1>1. LagInv => PollersLagLittle
    BY DEF LagInv, PageInv, PollersLagLittle
  <1> QED BY <1>1, LagInvariance, PTL

-----------------------------------------------------------------------------
(* Who listens. *)

Changing(m) == pc[m] \in {"invalidate", "broadcast"}
Quiet == \A m \in Mutators : ~Changing(m)
Asking == {"get", "query", "store", "answer"}

NothingOld ==
    /\ cache # None => cache.list.slots = table.slots
    /\ \A p \in Procs : pc[p] \in {"store", "answer"} => held[p].slots = table.slots

\* Somebody will send the page of c a list.
Coming(c) ==
    \/ \E m \in Mutators : pc[m] \in Asking
    \/ pc[<<c, "subscribe">>] \in Asking

\* The last list sent to the page of c is current, and the page shows it.
Settled(c) ==
    IF wire[c] = <<>> THEN \A s \in Shown(c) : view[c].slots[s] = table.slots[s]
    ELSE wire[c][Len(wire[c])].slots = table.slots

Informed(c) == link[c] = "up" => Coming(c) \/ Settled(c)

NewsInv == ~disturbed /\ Quiet => NothingOld /\ \A c \in Clients : Informed(c)

\* A page that is given a current list shows it.
LEMMA AppliedIsShown ==
    ASSUME NEW c \in Clients, NEW page \in List, NEW list \in List,
           list.slots = table'.slots, view'[c] = ApplySlots(page, list)
    PROVE  \A s \in Shown(c)' : view'[c].slots[s] = table'.slots[s]
  <1>1. Shown(c)' = {s \in Slots : "absent" \notin {view'[c].slots[s], table'.slots[s]}}
    BY DEF Shown
  <1> QED BY <1>1, Applied

LEMMA ListFields ==
    ASSUME NEW list \in List
    PROVE  Older(list).slots = list.slots /\ list # None
  BY NoneIsNoList DEF List, Older

LEMMA Delivered ==
    ASSUME NEW w \in Seq(List), w # <<>>
    PROVE  IF Len(w) = 1 THEN Tail(w) = <<>> /\ Head(w) = w[Len(w)]
           ELSE Tail(w) # <<>> /\ Tail(w)[Len(Tail(w))] = w[Len(w)]
  <1>1. PICK n \in Nat : n > 0 /\ Len(w) = n
    BY EmptySeq
  <1>2. /\ Tail(w) \in Seq(List) /\ Len(Tail(w)) = n - 1
        /\ \A k \in 1 .. n - 1 : Tail(w)[k] = w[k + 1]
    BY <1>1, HeadTailProperties
  <1>3. CASE n = 1
    <2>1. Tail(w) = <<>>
      <3>1. Tail(w) \in Seq(List) /\ Len(Tail(w)) = 0
        BY <1>2, <1>3
      <3>2. \A s \in Seq(List) : s # <<>> => Len(s) # 0
        BY EmptySeq
      <3> QED BY <3>1, <3>2, Zenon
    <2>2. Head(w) = w[1]
      OBVIOUS
    <2> QED BY <1>1, <1>3, <2>1, <2>2
  <1>4. CASE n # 1
    <2>1. n - 1 \in 1 .. n - 1 /\ (n - 1) + 1 = n /\ n - 1 # 0
      BY <1>1, <1>4
    <2>2. Tail(w)[n - 1] = w[n]
      BY <1>2, <2>1
    <2>3. Tail(w) # <<>>
      BY <1>2, <2>1, EmptySeq
    <2> QED BY <1>1, <1>2, <1>4, <2>2, <2>3
  <1> QED BY <1>3, <1>4

LEMMA CommitNews ==
    ASSUME LagInv, NewsInv, NEW m \in Mutators, Commit(m)
    PROVE  NewsInv'
  <1>1. m \in Procs /\ pc' = [pc EXCEPT ![m] = "invalidate"] /\ held' = held
    BY ProcsApart DEF Commit, Goto
  <1>2. ~Quiet'
    BY <1>1 DEF Quiet, Changing, LagInv, AvailabilityTypeOK
  <1> QED BY <1>2 DEF NewsInv

\* The last invalidation, if it overtakes nobody, leaves nothing old behind.
LEMMA InvalidateNews ==
    ASSUME LagInv, NewsInv, NEW m \in Mutators, Invalidate(m)
    PROVE  NewsInv'
  <1>1. /\ m \in Procs /\ pc[m] \in {"invalidate", "broadcast"}
        /\ pc' = [pc EXCEPT ![m] = IF pc[m] = "invalidate" THEN "broadcast" ELSE "get"]
        /\ cache' = None /\ UNCHANGED <<table, held, link, view, wire>>
        /\ disturbed' = (disturbed \/ Overtakes(m))
    BY ProcsApart DEF Invalidate, Goto, DeletedKey, clientVars
  <1>2. /\ pc'[m] \in {"broadcast", "get"}
        /\ \A q \in Procs \ {m} : pc'[q] = pc[q]
    BY <1>1 DEF LagInv, AvailabilityTypeOK
  <1>3. ASSUME ~disturbed', Quiet'
        PROVE  NothingOld' /\ \A c \in Clients : Informed(c)'
    <2>1. pc'[m] = "get" /\ ~Overtakes(m)
      BY <1>1, <1>2, <1>3 DEF Quiet, Changing
    <2>2. ASSUME NEW q \in Procs, pc'[q] \in {"store", "answer"}
          PROVE  held'[q].slots = table'.slots
      <3>1. q # m /\ pc[q] \in {"store", "answer"}
        BY <1>2, <2>1, <2>2
      <3>2. held[q] \in List /\ held[q] # None
        BY <3>1, ListFields DEF LagInv, HandInv
      <3> QED BY <1>1, <2>1, <3>1, <3>2 DEF Overtakes
    <2>3. \A c \in Clients : Coming(c)'
      BY <2>1 DEF Coming, Asking
    <2> QED BY <1>1, <2>2, <2>3 DEF NothingOld, Informed
  <1> QED BY <1>3 DEF NewsInv

\* A step of a request that changes nothing but where it is and what it has in hand,
\* and goes on asking.
LEMMA AskingOn ==
    ASSUME LagInv, NewsInv, NEW p \in Procs, pc[p] \in Asking \cup {"idle"},
           \A q \in Procs \ {p} : pc'[q] = pc[q] /\ held'[q] = held[q],
           pc'[p] \in Asking,
           NothingOld /\ pc'[p] \in {"store", "answer"} => held'[p].slots = table.slots,
           NothingOld => (cache' # None => cache'.list.slots = table.slots),
           UNCHANGED <<table, view, wire, disturbed>>,
           \A c \in Clients : link'[c] = "up" => link[c] = "up" \/ pc'[<<c, "subscribe">>] \in Asking
    PROVE  NewsInv'
  <1>1. Quiet' => Quiet
    BY ProcsApart DEF Quiet, Changing, Asking
  <1>2. ASSUME ~disturbed', Quiet'
        PROVE  NothingOld' /\ \A c \in Clients : Informed(c)'
    <2>1. NothingOld /\ \A c \in Clients : Informed(c)
      BY <1>1, <1>2 DEF NewsInv
    <2>2. NothingOld'
      BY <2>1 DEF NothingOld
    <2>3. ASSUME NEW c \in Clients
          PROVE  Informed(c)'
      <3>1. Coming(c) => Coming(c)'
        BY ProcsApart DEF Coming, Asking
      <3>2. Settled(c) => Settled(c)'
        BY DEF Settled, Shown
      <3>3. link'[c] = "up" => link[c] = "up" \/ Coming(c)'
        BY DEF Coming
      <3> QED BY <2>1, <3>1, <3>2, <3>3 DEF Informed
    <2> QED BY <2>2, <2>3
  <1> QED BY <1>2 DEF NewsInv

LEMMA ProceedNews ==
    ASSUME LagInv, NewsInv, NEW p \in Procs, Proceed(p)
    PROVE  NewsInv'
  <1>1. UNCHANGED <<table, view, wire, disturbed, link>>
    BY DEF Proceed, Get, Query, Store, clientVars
  <1>2. CASE Get(p)
    <2>1. /\ pc[p] = "get"
          /\ pc' = [pc EXCEPT ![p] = IF cache = None THEN "query" ELSE "answer"]
          /\ held' = [held EXCEPT ![p] = IF cache = None THEN None ELSE cache.list]
          /\ cache' = cache
      BY <1>2 DEF Get, Goto
    <2>2. /\ pc'[p] = IF cache = None THEN "query" ELSE "answer"
          /\ held'[p] = IF cache = None THEN None ELSE cache.list
          /\ \A q \in Procs \ {p} : pc'[q] = pc[q] /\ held'[q] = held[q]
      BY <2>1 DEF LagInv, AvailabilityTypeOK
    <2> QED BY <1>1, <2>1, <2>2, AskingOn DEF Asking, NothingOld
  <1>3. CASE Query(p)
    <2> DEFINE list == ListSlots
    <2>1. /\ pc[p] = "query"
          /\ pc' = [pc EXCEPT ![p] = "store"]
          /\ held' = [held EXCEPT ![p] = list]
          /\ cache' = cache /\ list.slots = table.slots
      BY <1>3, FreshList DEF Query, Goto, LagInv
    <2> HIDE DEF list
    <2>2. /\ pc'[p] = "store" /\ held'[p] = list
          /\ \A q \in Procs \ {p} : pc'[q] = pc[q] /\ held'[q] = held[q]
      BY <2>1 DEF LagInv, AvailabilityTypeOK
    <2> QED BY <1>1, <2>1, <2>2, AskingOn DEF Asking, NothingOld
  <1>4. CASE Store(p)
    <2>1. /\ pc[p] = "store"
          /\ pc' = [pc EXCEPT ![p] = "answer"]
          /\ held' = held
          /\ cache' = [list |-> held[p], left |-> TTL] /\ cache'.list = held[p]
      BY <1>4 DEF Store, Goto
    <2>2. /\ pc'[p] = "answer" /\ held'[p] = held[p]
          /\ \A q \in Procs \ {p} : pc'[q] = pc[q] /\ held'[q] = held[q]
      BY <2>1 DEF LagInv, AvailabilityTypeOK
    <2> QED BY <1>1, <2>1, <2>2, AskingOn DEF Asking, NothingOld
  <1> QED BY <1>2, <1>3, <1>4 DEF Proceed

\* Whoever leaves leaves nothing old behind; the others are where they were.
LEMMA Left ==
    ASSUME LagInv, NewsInv, NEW p \in Procs, Leave(p)
    PROVE  /\ table' = table /\ cache' = cache
           /\ pc'[p] \in {"idle", "done"}
           /\ \A q \in Procs \ {p} : pc'[q] = pc[q] /\ held'[q] = held[q]
           /\ pc[p] = "answer" /\ Quiet' => Quiet
           /\ NothingOld => NothingOld'
  <1>1. /\ pc'[p] \in {"idle", "done"} /\ held'[p] = None
        /\ \A q \in Procs \ {p} : pc'[q] = pc[q] /\ held'[q] = held[q]
        /\ table' = table /\ cache' = cache
    BY DEF Leave, Goto, LagInv, AvailabilityTypeOK
  <1>2. pc[p] = "answer" /\ Quiet' => Quiet
    BY <1>1, ProcsApart DEF Quiet, Changing
  <1>3. NothingOld => NothingOld'
    BY <1>1 DEF NothingOld
  <1> QED BY <1>1, <1>2, <1>3

LEMMA EmitNews ==
    ASSUME LagInv, NewsInv, NEW m \in Mutators, Emit(m)
    PROVE  NewsInv'
  <1>1. m \in Procs /\ pc[m] = "answer" /\ Leave(m) /\ link' = link /\ held[m] \in List
    BY ProcsApart DEF Emit, LagInv, HandInv
  <1>2. ASSUME ~disturbed', Quiet'
        PROVE  NothingOld' /\ \A c \in Clients : Informed(c)'
    <2>1. ~disturbed
      BY <1>2 DEF Emit, LagInv, AvailabilityTypeOK
    <2>2. NothingOld /\ table' = table /\ NothingOld'
      BY <1>1, <1>2, <2>1, Left DEF NewsInv
    <2>3. held[m].slots = table.slots
      BY <1>1, <2>2 DEF NothingOld
    <2>4. ASSUME NEW c \in Clients, link[c] = "up"
          PROVE  Settled(c)'
      <3>1. CASE m \in Remote
        <4>1. wire'[c] = Append(wire[c], held[m]) /\ wire[c] \in Seq(List)
          BY <2>4, <3>1 DEF Emit, LagInv, AvailabilityTypeOK
        <4>2. wire'[c] # <<>> /\ wire'[c][Len(wire'[c])] = held[m]
          BY <1>1, <4>1
        <4> QED BY <2>2, <2>3, <4>2 DEF Settled
      <3>2. CASE m \notin Remote
        <4>1. /\ wire'[c] = wire[c] /\ wire[c] = <<>> /\ view[c] \in List
              /\ view'[c] = ApplySlots(view[c], held[m])
          BY <1>2, <2>4, <3>2 DEF Emit, LagInv, AvailabilityTypeOK
        <4> QED BY <1>1, <2>2, <2>3, <4>1, AppliedIsShown DEF Settled
      <3> QED BY <3>1, <3>2
    <2> QED BY <1>1, <2>2, <2>4 DEF Informed
  <1> QED BY <1>1, <1>2, Left DEF NewsInv

LEMMA AnswerNews ==
    ASSUME LagInv, NewsInv, NEW c \in Clients, NEW p \in Polls \cup Subscriptions, Answer(c, p)
    PROVE  NewsInv'
  <1>1. /\ p \in Procs /\ p \notin Mutators /\ pc[p] = "answer" /\ Leave(p)
        /\ link' = link /\ wire' = wire
        /\ \A d \in Clients \ {c} : p # <<d, "subscribe">>
    BY ProcsApart DEF Answer
  <1>2. ASSUME ~disturbed', Quiet'
        PROVE  NothingOld' /\ \A d \in Clients : Informed(d)'
    <2>1. ~disturbed
      BY <1>2 DEF Answer, LagInv, AvailabilityTypeOK
    <2>2. NothingOld /\ table' = table /\ NothingOld' /\ \A d \in Clients : Informed(d)
      BY <1>1, <1>2, <2>1, Left DEF NewsInv
    <2>3. held[p].slots = table.slots
      BY <1>1, <2>2 DEF NothingOld
    <2>4. \A q \in Procs \ {p} : pc'[q] = pc[q]
      BY <1>1, Left
    <2>5. ASSUME NEW d \in Clients, d # c
          PROVE  Informed(d)'
      <3>1. view'[d] = view[d]
        BY <2>5 DEF Answer, LagInv, AvailabilityTypeOK
      <3>2. Coming(d) => Coming(d)'
        BY <1>1, <2>4, <2>5, ProcsApart DEF Coming
      <3>3. Settled(d) => Settled(d)'
        BY <1>1, <2>2, <3>1 DEF Settled, Shown
      <3> QED BY <1>1, <2>2, <3>2, <3>3 DEF Informed
    <2>6. link[c] = "up" => Settled(c)'
      <3>1. SUFFICES ASSUME link[c] = "up" PROVE Settled(c)'
        OBVIOUS
      <3>2. /\ view'[c] = ApplySlots(view[c], held[p]) /\ wire[c] = <<>>
            /\ view[c] \in List /\ held[p] \in List
        BY <1>1, <1>2, <3>1 DEF Answer, LagInv, AvailabilityTypeOK, HandInv
      <3> QED BY <1>1, <2>2, <2>3, <3>2, AppliedIsShown DEF Settled
    <2> QED BY <1>1, <2>2, <2>5, <2>6 DEF Informed
  <1> QED BY <1>1, <1>2, Left DEF NewsInv

LEMMA PageNews ==
    ASSUME LagInv, NewsInv, NEW c \in Clients,
           Load(c) \/ Interval(c) \/ Connect(c) \/ Disconnect(c) \/ Deliver(c)
    PROVE  NewsInv'
  <1>0. CASE Load(c)
    <2>1. /\ UNCHANGED <<table, cache, held, wire, pc, disturbed>>
          /\ link'[c] = "down"
          /\ \A d \in Clients \ {c} : link'[d] = link[d] /\ view'[d] = view[d]
      BY <1>0 DEF Load, LagInv, AvailabilityTypeOK
    <2>2. \A d \in Clients : Informed(d) => Informed(d)'
      BY <2>1 DEF Informed, Coming, Settled, Shown
    <2> QED BY <2>1, <2>2 DEF NewsInv, NothingOld, Quiet, Changing
  <1>1. CASE Interval(c)
    <2> DEFINE p == <<c, "poll">>
    <2>1. /\ UNCHANGED <<table, cache, held, link, view, wire, disturbed>> /\ p \in Procs
          /\ \A q \in Procs \ {p} : pc'[q] = pc[q]
          /\ pc'[p] = pc[p] \/ pc'[p] = "get"
      BY <1>1, ProcsApart DEF Interval, Goto, LagInv, AvailabilityTypeOK
    <2>2. \A q \in Mutators \cup Subscriptions : pc'[q] = pc[q]
      BY <2>1, ProcsApart DEF Subscriptions, Procs
    <2>3. Quiet' => Quiet
      BY <2>2 DEF Quiet, Changing
    <2>4. NothingOld => NothingOld'
      BY <2>1 DEF NothingOld
    <2>5. \A d \in Clients : Informed(d) => Informed(d)'
      BY <2>1, <2>2, ProcsApart DEF Informed, Coming, Settled, Shown
    <2> QED BY <2>1, <2>3, <2>4, <2>5 DEF NewsInv
  <1>2. CASE Connect(c)
    <2> DEFINE p == <<c, "subscribe">>
    <2>1. /\ UNCHANGED <<table, cache, held, view, wire, disturbed>>
          /\ p \in Procs /\ pc[p] = "idle" /\ pc'[p] = "get"
          /\ \A q \in Procs \ {p} : pc'[q] = pc[q]
          /\ \A d \in Clients \ {c} : link'[d] = link[d]
      BY <1>2, ProcsApart DEF Connect, Switch, Goto, LagInv, AvailabilityTypeOK
    <2> QED BY <2>1, AskingOn DEF Asking, NothingOld
  <1>3. CASE Disconnect(c)
    <2>1. /\ UNCHANGED <<table, cache, held, view, pc, disturbed>>
          /\ link'[c] = "down"
          /\ \A d \in Clients \ {c} : link'[d] = link[d] /\ wire'[d] = wire[d]
      BY <1>3 DEF Disconnect, Switch, LagInv, AvailabilityTypeOK
    <2>2. \A d \in Clients : Informed(d) => Informed(d)'
      BY <2>1 DEF Informed, Coming, Settled, Shown
    <2> QED BY <2>1, <2>2 DEF NewsInv, NothingOld, Quiet, Changing
  <1>4. CASE Deliver(c)
    <2>1. /\ UNCHANGED <<table, cache, held, link, pc, disturbed>>
          /\ wire[c] # <<>> /\ wire[c] \in Seq(List)
          /\ view'[c] = ApplySlots(view[c], Head(wire[c])) /\ wire'[c] = Tail(wire[c])
          /\ view[c] \in List /\ Head(wire[c]) \in List
          /\ \A d \in Clients \ {c} : view'[d] = view[d] /\ wire'[d] = wire[d]
      BY <1>4 DEF Deliver, LagInv, AvailabilityTypeOK
    <2>2. Settled(c) => Settled(c)'
      <3>1. CASE Len(wire[c]) = 1
        <4>1. wire'[c] = <<>> /\ Head(wire[c]) = wire[c][Len(wire[c])]
          BY <2>1, <3>1, Delivered
        <4>2. SUFFICES ASSUME Settled(c) PROVE Settled(c)'
          OBVIOUS
        <4>3. Head(wire[c]).slots = table'.slots
          BY <2>1, <4>1, <4>2 DEF Settled
        <4> QED BY <2>1, <4>1, <4>3, AppliedIsShown DEF Settled
      <3>2. CASE Len(wire[c]) # 1
        <4>1. wire'[c] # <<>> /\ wire'[c][Len(wire'[c])] = wire[c][Len(wire[c])]
          BY <2>1, <3>2, Delivered
        <4> QED BY <2>1, <4>1 DEF Settled
      <3> QED BY <3>1, <3>2
    <2>3. \A d \in Clients \ {c} : Settled(d) => Settled(d)'
      BY <2>1 DEF Settled, Shown
    <2>4. \A d \in Clients : Informed(d) => Informed(d)'
      BY <2>1, <2>2, <2>3 DEF Informed, Coming
    <2> QED BY <2>1, <2>4 DEF NewsInv, NothingOld, Quiet, Changing
  <1> QED BY <1>0, <1>1, <1>2, <1>3, <1>4

LEMMA OtherNews ==
    ASSUME LagInv, NewsInv, Reprice \/ Tick \/ (\E m \in Mutators : Crash(m)) \/ UNCHANGED vars
    PROVE  NewsInv'
  <1>1. CASE Reprice
    <2>1. /\ UNCHANGED <<cache, held, link, view, wire, pc, disturbed>>
          /\ table'.slots = table.slots
      BY <1>1 DEF Reprice, clientVars, LagInv, AvailabilityTypeOK
    <2>2. \A d \in Clients : Informed(d) => Informed(d)'
      BY <2>1 DEF Informed, Coming, Settled, Shown
    <2> QED BY <2>1, <2>2 DEF NewsInv, NothingOld, Quiet, Changing
  <1>2. CASE Tick
    <2>1. UNCHANGED <<table, held, link, wire, pc, disturbed>>
      BY <1>2 DEF Tick
    <2>2. \A c \in Clients : wire[c] = <<>> /\ view'[c].slots = view[c].slots
      BY <1>2, ListFields DEF Tick, LagInv, AvailabilityTypeOK
    <2>3. cache' # None => cache # None /\ cache'.list.slots = cache.list.slots
      <3>1. cache # None => cache.list \in List
        BY DEF LagInv, AvailabilityTypeOK
      <3> QED BY <1>2, <3>1, ListFields DEF Tick, Expiring
    <2>4. \A d \in Clients : Informed(d) => Informed(d)'
      BY <2>1, <2>2 DEF Informed, Coming, Settled, Shown
    <2> QED BY <2>1, <2>3, <2>4 DEF NewsInv, NothingOld, Quiet, Changing
  <1>3. ASSUME NEW m \in Mutators, Crash(m)
        PROVE  NewsInv'
    <2>1. disturbed' /\ m \in Procs /\ Leave(m)
      BY <1>3, ProcsApart DEF Crash
    <2> QED BY <2>1, Left DEF NewsInv
  <1>4. CASE UNCHANGED vars
    <2>1. UNCHANGED <<table, cache, held, link, view, wire, pc, disturbed>>
      BY <1>4 DEF vars
    <2>2. \A d \in Clients : Informed(d) => Informed(d)'
      BY <2>1 DEF Informed, Coming, Settled, Shown
    <2> QED BY <2>1, <2>2 DEF NewsInv, NothingOld, Quiet, Changing
  <1> QED BY <1>1, <1>2, <1>3, <1>4

LEMMA NewsInvHolds ==
    ASSUME Init
    PROVE  NewsInv
  <1>1. NothingOld
    BY DEF Init, NothingOld
  <1>2. \A c \in Clients : Informed(c)
    BY DEF Init, Informed
  <1> QED BY <1>1, <1>2 DEF NewsInv

\* When all is quiet a listening page shows the status of every slot that it has a card for
\* and that still exists, however many requests change, add and delete slots on however
\* many workers, unless the run was disturbed in one of the three ways that the code
\* leaves open (broadcast_slots, applySlots).
THEOREM ListenersShowTheTable == Spec => []ListenersAreCurrent
  <1>1. Init => NewsInv
    BY NewsInvHolds
  <1>2. LagInv /\ NewsInv /\ [Next]_vars => NewsInv'
    BY CommitNews, InvalidateNews, ProceedNews, EmitNews, AnswerNews, PageNews, OtherNews
       DEF Next
  <1>3. NewsInv => ListenersAreCurrent
    <2> SUFFICES ASSUME NewsInv, AtRest, ~disturbed, NEW c \in Clients, link[c] = "up",
                        wire[c] = <<>>
                 PROVE  \A s \in Shown(c) : view[c].slots[s] = table.slots[s]
      BY DEF ListenersAreCurrent
    <2>1. Quiet /\ ~Coming(c)
      BY ProcsApart DEF AtRest, Quiet, Changing, Coming, Asking
    <2> QED BY <2>1 DEF NewsInv, Informed, Settled
  <1> QED BY <1>1, <1>2, <1>3, LagInvariance, PTL DEF Spec

=============================================================================
