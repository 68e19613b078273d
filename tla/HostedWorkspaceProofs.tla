----------------------- MODULE HostedWorkspaceProofs -----------------------
(***************************************************************************)
(* Proofs about the hosted workspaces and their pending items, for every   *)
(* number of requests, bootstraps and changes.                             *)
(***************************************************************************)
EXTENDS HostedWorkspace, SequenceTheorems, TLAPS

Maybe(S) == S \cup {Nobody}

Workspace == [seen : Nat, epoch : Nat, cache : Maybe(Nat), expired : BOOLEAN]

Flight ==
    [pc : {"fetch"}, waiters : SUBSET Serves]
    \cup [pc : {"build"}, waiters : SUBSET Serves, seen : Nat, epoch : Nat]
    \cup [pc : {"store"}, waiters : SUBSET Serves, seen : Nat, epoch : Nat, cache : Maybe(Nat)]

Cache == [items : Maybe(Nat), fresh : BOOLEAN, stopped : BOOLEAN,
          inflight : Maybe({1, 2}), runs : [1..2 -> Maybe(Refresh)]]

Invalidating == {"invalidate", "forget", "stop", "stopping"}

BootRequest ==
    [pc : {"idle", "done", "failed"}]
    \cup [pc : {"warm"} \cup Invalidating, seen : Nat, epoch : Nat, cache : Maybe(Nat)]

ChangeRequest ==
    [pc : {"idle", "done", "failed"}] \cup [pc : {"change"}, seen : Nat]
    \cup [pc : Invalidating, cache : Maybe(Nat)]

WorkspaceTypes ==
    /\ record \in Nat /\ answered \in Nat /\ epoch \in Nat /\ listing \in Nat
    /\ workspace \in Maybe(Workspace)
    /\ flight \in Maybe(Flight)
    /\ pendingCache \in Maybe(Nat)
    /\ caches \in Seq(Cache)
    /\ DOMAIN request = Requests
    /\ \A w \in Boots : request[w] \in BootRequest
    /\ \A m \in Changes : request[m] \in ChangeRequest

-----------------------------------------------------------------------------
(* Records that change in one field. *)

LEMMA FlightWaiters ==
    ASSUME NEW f \in Flight, NEW W \in SUBSET Serves
    PROVE  /\ [f EXCEPT !.waiters = W] \in Flight
           /\ [f EXCEPT !.waiters = W].pc = f.pc
           /\ f.pc # "fetch" => /\ [f EXCEPT !.waiters = W].seen = f.seen
                                /\ [f EXCEPT !.waiters = W].epoch = f.epoch
<1>1. CASE f \in [pc : {"fetch"}, waiters : SUBSET Serves]
  BY <1>1 DEF Flight
<1>2. CASE f \in [pc : {"build"}, waiters : SUBSET Serves, seen : Nat, epoch : Nat]
  <2>1. [f EXCEPT !.waiters = W] \in [pc : {"build"}, waiters : SUBSET Serves, seen : Nat, epoch : Nat]
    BY <1>2
  <2> QED
    BY <1>2, <2>1 DEF Flight
<1>3. CASE f \in [pc : {"store"}, waiters : SUBSET Serves, seen : Nat, epoch : Nat,
                  cache : Maybe(Nat)]
  <2>1. [f EXCEPT !.waiters = W] \in [pc : {"store"}, waiters : SUBSET Serves, seen : Nat,
                                     epoch : Nat, cache : Maybe(Nat)]
    BY <1>3
  <2> QED
    BY <1>3, <2>1 DEF Flight
<1> QED
  BY <1>1, <1>2, <1>3 DEF Flight

LEMMA FlightFields ==
    ASSUME NEW f \in Flight
    PROVE  /\ f.waiters \in SUBSET Serves
           /\ f.pc \in {"fetch", "build", "store"}
           /\ f.pc # "fetch" => f.seen \in Nat /\ f.epoch \in Nat
           /\ f.pc = "store" => f.cache \in Maybe(Nat)
BY DEF Flight

(* A request on its way through InvalidateConnection keeps what it has read.  *)
Same(p, q) == p.seen = q.seen /\ p.epoch = q.epoch
At(q, pc) == [q EXCEPT !.pc = pc]
With(q, pc, c) == [q EXCEPT !.pc = pc, !.cache = c]

LEMMA BootOnTheWay ==
    ASSUME NEW q \in BootRequest, q.pc \in {"warm"} \cup Invalidating,
           NEW pc \in {"warm"} \cup Invalidating, NEW c \in Maybe(Nat)
    PROVE  /\ q.cache \in Maybe(Nat)
           /\ At(q, pc) \in BootRequest /\ Same(At(q, pc), q)
           /\ At(q, pc).pc = pc /\ At(q, pc).cache = q.cache
           /\ With(q, pc, c) \in BootRequest /\ Same(With(q, pc, c), q)
           /\ With(q, pc, c).pc = pc /\ With(q, pc, c).cache = c
<1> DEFINE B == [pc : {"warm"} \cup Invalidating, seen : Nat, epoch : Nat, cache : Maybe(Nat)]
           p == At(q, pc)
           n == [p EXCEPT !.cache = c]
<1>1. q \in B
  BY DEF BootRequest, Invalidating
<1>2. p \in B /\ p.pc = pc /\ p.cache = q.cache /\ p.seen = q.seen /\ p.epoch = q.epoch
  BY <1>1 DEF At
<1>3. With(q, pc, c) = n
  BY DEF At, With
<1> HIDE DEF p
<1>4. n \in B /\ n.pc = p.pc /\ n.cache = c /\ n.seen = p.seen /\ n.epoch = p.epoch
  BY <1>2
<1> HIDE DEF n
<1>5. B \subseteq BootRequest /\ q.cache \in Maybe(Nat)
  BY <1>1 DEF BootRequest
<1>6. Same(p, q) /\ Same(n, q)
  BY <1>2, <1>4 DEF Same
<1> QED
  BY <1>2, <1>3, <1>4, <1>5, <1>6 DEF p

LEMMA ChangeOnTheWay ==
    ASSUME NEW q \in ChangeRequest, q.pc \in Invalidating,
           NEW pc \in Invalidating, NEW c \in Maybe(Nat)
    PROVE  /\ q.cache \in Maybe(Nat)
           /\ At(q, pc) \in ChangeRequest /\ At(q, pc).pc = pc /\ At(q, pc).cache = q.cache
           /\ With(q, pc, c) \in ChangeRequest /\ With(q, pc, c).pc = pc
           /\ With(q, pc, c).cache = c
<1> DEFINE B == [pc : Invalidating, cache : Maybe(Nat)]
           p == At(q, pc)
           n == [p EXCEPT !.cache = c]
<1>1. q \in B
  BY DEF ChangeRequest, Invalidating
<1>2. p \in B /\ p.pc = pc /\ p.cache = q.cache
  BY <1>1 DEF At
<1>3. With(q, pc, c) = n
  BY DEF At, With
<1> HIDE DEF p
<1>4. n \in B /\ n.pc = p.pc /\ n.cache = c
  BY <1>2
<1> HIDE DEF n
<1>5. B \subseteq ChangeRequest /\ q.cache \in Maybe(Nat)
  BY <1>1 DEF ChangeRequest
<1> QED
  BY <1>2, <1>3, <1>4, <1>5 DEF p

-----------------------------------------------------------------------------
(* What has been read of the connection shows every change that was answered, *)
(* unless it has been invalidated since, or is to be.                         *)
Stands(x) == /\ x.epoch <= epoch
             /\ x.epoch = epoch /\ owed = {} => x.seen >= answered

NothingStale ==
    /\ answered <= record
    /\ workspace # Nobody => Stands(workspace)
    /\ flight # Nobody /\ flight.pc # "fetch" => Stands(flight)
    /\ \A w \in Boots : request[w].pc \in {"warm"} \cup Invalidating => Stands(request[w])

(* A cache has one refresh at a time, whose listing is as new as what it has. *)
Settled(c) ==
    /\ \A k \in 1..2 : c.runs[k] # Nobody <=> c.inflight = k
    /\ c.items # Nobody => c.items <= listing
    /\ \A k \in 1..2 :
          c.runs[k] # Nobody /\ c.runs[k].pc = "store" =>
             /\ c.runs[k].result # Nobody /\ c.runs[k].result <= listing
             /\ c.items # Nobody => c.items <= c.runs[k].result

(* Who has stopped it waits, or nothing runs.                                 *)
StoppedOrWaiting(i) ==
    caches[i].stopped =>
        \/ \E m \in Boots \cup Changes : request[m].pc = "stopping" /\ request[m].cache = i
        \/ caches[i].inflight = Nobody

CachesInv ==
    \A i \in DOMAIN caches : Settled(caches[i]) /\ StoppedOrWaiting(i)

WorkspaceInv == WorkspaceTypes /\ NothingStale /\ CachesInv

-----------------------------------------------------------------------------
(* One cache, step by step. *)

LEMMA CacheFields ==
    ASSUME NEW c \in Cache
    PROVE  /\ c.items \in Maybe(Nat) /\ c.stopped \in BOOLEAN /\ c.inflight \in Maybe({1, 2})
           /\ c.runs \in [1..2 -> Maybe(Refresh)]
BY DEF Cache

LEMMA RunSet ==
    ASSUME NEW c \in Cache, NEW k \in 1..2, NEW x \in Maybe(Refresh)
    PROVE  LET d == [c EXCEPT !.runs[k] = x] IN
           /\ d \in Cache /\ d.items = c.items /\ d.stopped = c.stopped /\ d.inflight = c.inflight
           /\ d.runs[k] = x /\ \A h \in 1..2 : h # k => d.runs[h] = c.runs[h]
<1> DEFINE R == [c.runs EXCEPT ![k] = x]
<1>1. R \in [1..2 -> Maybe(Refresh)] /\ R[k] = x /\ \A h \in 1..2 : h # k => R[h] = c.runs[h]
  BY CacheFields
<1>2. [c EXCEPT !.runs[k] = x] = [c EXCEPT !.runs = R]
  OBVIOUS
<1> HIDE DEF R
<1>3. [c EXCEPT !.runs = R] \in Cache /\ [c EXCEPT !.runs = R].runs = R
  BY <1>1 DEF Cache
<1>4. /\ [c EXCEPT !.runs = R].items = c.items /\ [c EXCEPT !.runs = R].stopped = c.stopped
      /\ [c EXCEPT !.runs = R].inflight = c.inflight
  BY DEF Cache
<1> QED
  BY <1>1, <1>2, <1>3, <1>4

LEMMA InflightSet ==
    ASSUME NEW c \in Cache, NEW z \in Maybe({1, 2})
    PROVE  LET d == [c EXCEPT !.inflight = z] IN
           /\ d \in Cache /\ d.items = c.items /\ d.stopped = c.stopped /\ d.inflight = z
           /\ d.runs = c.runs
BY DEF Cache

LEMMA ItemsSet ==
    ASSUME NEW c \in Cache, NEW z \in Maybe(Nat)
    PROVE  LET d == [c EXCEPT !.items = z, !.fresh = TRUE] IN
           /\ d \in Cache /\ d.items = z /\ d.stopped = c.stopped /\ d.inflight = c.inflight
           /\ d.runs = c.runs
<1> DEFINE e == [c EXCEPT !.items = z]
<1>1. /\ e \in Cache /\ e.items = z /\ e.stopped = c.stopped /\ e.inflight = c.inflight
      /\ e.runs = c.runs
  BY DEF Cache
<1>2. [c EXCEPT !.items = z, !.fresh = TRUE] = [e EXCEPT !.fresh = TRUE]
  OBVIOUS
<1> HIDE DEF e
<1> DEFINE d == [e EXCEPT !.fresh = TRUE]
<1>3. /\ d.items = e.items /\ d.stopped = e.stopped /\ d.inflight = e.inflight /\ d.runs = e.runs
  BY <1>1 DEF Cache
<1>4. d \in Cache
  BY <1>1 DEF Cache
<1> QED
  BY <1>1, <1>2, <1>3, <1>4

LEMMA FlagSet ==
    ASSUME NEW c \in Cache
    PROVE  /\ LET d == [c EXCEPT !.stopped = TRUE] IN
              /\ d \in Cache /\ d.items = c.items /\ d.stopped /\ d.inflight = c.inflight
              /\ d.runs = c.runs
           /\ LET d == [c EXCEPT !.fresh = FALSE] IN
              /\ d \in Cache /\ d.items = c.items /\ d.stopped = c.stopped
              /\ d.inflight = c.inflight /\ d.runs = c.runs
<1>1. [c EXCEPT !.stopped = TRUE] \in Cache /\ [c EXCEPT !.fresh = FALSE] \in Cache
  BY DEF Cache
<1> QED
  BY <1>1 DEF Cache

(* What a step may do with a cache.                                           *)
Moves(c, d) ==
    /\ d \in Cache /\ Settled(d)
    /\ c.stopped /\ c.inflight = Nobody => d.inflight = Nobody
    /\ d.stopped = c.stopped
    /\ c.items # Nobody => d.items # Nobody /\ c.items <= d.items

LEMMA WaitersSet ==
    ASSUME NEW x \in Refresh, NEW W \in SUBSET Serves
    PROVE  LET y == [x EXCEPT !.waiters = W] IN
           y \in Refresh /\ y.pc = x.pc /\ (x.pc = "store" => y.result = x.result)
<1>1. CASE x \in [pc : {"read"}, waiters : SUBSET Serves]
  BY <1>1 DEF Refresh
<1>2. CASE x \in [pc : {"store", "close"}, waiters : SUBSET Serves, result : Maybe(Nat)]
  <2>1. [x EXCEPT !.waiters = W]
        \in [pc : {"store", "close"}, waiters : SUBSET Serves, result : Maybe(Nat)]
    BY <1>2
  <2> QED
    BY <1>2, <2>1 DEF Refresh, Maybe
<1> QED
  BY <1>1, <1>2 DEF Refresh, Maybe

LEMMA RefreshFields ==
    ASSUME NEW x \in Refresh
    PROVE  /\ x.waiters \in SUBSET Serves /\ x.pc \in {"read", "store", "close"}
           /\ x.pc \in {"store", "close"} => x.result \in Maybe(Nat)
BY DEF Refresh, Maybe

(* A run that goes on within its slot.                                        *)
LEMMA RunGoesOn ==
    ASSUME WorkspaceAssumption, listing \in Nat, NEW c \in Cache, Settled(c), NEW k \in 1..2,
           c.runs[k] # Nobody, NEW x \in Refresh,
           x.pc = "store" => /\ x.result # Nobody /\ x.result <= listing
                             /\ c.items # Nobody => c.items <= x.result
    PROVE  Moves(c, [c EXCEPT !.runs[k] = x])
<1> DEFINE d == [c EXCEPT !.runs[k] = x]
<1>1. /\ d \in Cache /\ d.items = c.items /\ d.stopped = c.stopped /\ d.inflight = c.inflight
      /\ d.runs[k] = x /\ \A h \in 1..2 : h # k => d.runs[h] = c.runs[h]
  BY RunSet DEF Maybe
<1> HIDE DEF d
<1>2. x # Nobody
  BY DEF WorkspaceAssumption
<1>3. Settled(d)
  BY <1>1, <1>2 DEF Settled
<1>4. c.items # Nobody => c.items <= c.items
  BY CacheFields DEF Maybe
<1>5. Moves(c, d)
  BY <1>1, <1>3, <1>4 DEF Moves
<1> QED
  BY <1>5 DEF d

LEMMA Joining ==
    ASSUME WorkspaceAssumption, listing \in Nat, NEW c \in Cache, Settled(c), NEW r \in Serves,
           c.inflight # Nobody
    PROVE  Moves(c, [c EXCEPT !.runs[c.inflight].waiters = @ \cup {r}])
<1> DEFINE k == c.inflight
           x == [c.runs[k] EXCEPT !.waiters = c.runs[k].waiters \cup {r}]
<1>1. k \in 1..2 /\ c.runs[k] # Nobody /\ c.runs[k] \in Refresh
  BY CacheFields DEF Maybe, Settled
<1>2. x \in Refresh /\ x.pc = c.runs[k].pc /\ (x.pc = "store" => x.result = c.runs[k].result)
  BY <1>1, WaitersSet, RefreshFields
<1>3. [c EXCEPT !.runs[k].waiters = @ \cup {r}] = [c EXCEPT !.runs[k] = x]
  OBVIOUS
<1> HIDE DEF k, x
<1>4. Moves(c, [c EXCEPT !.runs[k] = x])
  BY <1>1, <1>2, RunGoesOn DEF Settled
<1> QED
  BY <1>3, <1>4 DEF k

LEMMA Leaving ==
    ASSUME WorkspaceAssumption, listing \in Nat, NEW c \in Cache, Settled(c), NEW r
    PROVE  Moves(c, [c EXCEPT !.runs = LeftBy(@, r)])
<1> DEFINE R == LeftBy(c.runs, r)
           d == [c EXCEPT !.runs = R]
<1>1. ASSUME NEW k \in 1..2
      PROVE  /\ R[k] \in Maybe(Refresh) /\ (R[k] = Nobody <=> c.runs[k] = Nobody)
             /\ R[k] # Nobody => /\ R[k].pc = c.runs[k].pc
                                 /\ R[k].pc = "store" => R[k].result = c.runs[k].result
  <2>1. CASE c.runs[k] = Nobody
    BY <2>1 DEF Maybe, LeftBy
  <2>2. CASE c.runs[k] # Nobody
    <3>1. c.runs[k] \in Refresh
      BY <2>2, CacheFields DEF Maybe
    <3>2. c.runs[k].waiters \ {r} \in SUBSET Serves
      BY <3>1, RefreshFields
    <3>3. R[k] = [c.runs[k] EXCEPT !.waiters = c.runs[k].waiters \ {r}]
      BY <2>2 DEF LeftBy
    <3>4. R[k] \in Refresh /\ R[k].pc = c.runs[k].pc
          /\ (R[k].pc = "store" => R[k].result = c.runs[k].result)
      BY <3>1, <3>2, <3>3, WaitersSet
    <3> QED
      BY <2>2, <3>4 DEF Maybe, WorkspaceAssumption
  <2> QED
    BY <2>1, <2>2
<1>2. R \in [1..2 -> Maybe(Refresh)]
  <2> DEFINE S == Maybe(Refresh)
  <2>1. \A k \in 1..2 : R[k] \in S
    BY <1>1
  <2> HIDE DEF S
  <2>2. R \in [1..2 -> S]
    BY <2>1 DEF LeftBy
  <2> QED
    BY <2>2 DEF S
<1> HIDE DEF R
<1>3. /\ d \in Cache /\ d.items = c.items /\ d.stopped = c.stopped /\ d.inflight = c.inflight
      /\ d.runs = R
  BY <1>2 DEF Cache
<1> HIDE DEF d
<1>4. Settled(d)
  BY <1>1, <1>3 DEF Settled
<1>5. c.items # Nobody => c.items <= c.items
  BY CacheFields DEF Maybe
<1>6. Moves(c, d)
  BY <1>3, <1>4, <1>5 DEF Moves
<1> QED
  BY <1>6 DEF d, R

LEMMA Starting ==
    ASSUME WorkspaceAssumption, listing \in Nat, NEW c \in Cache, Settled(c), NEW r \in Serves,
           c.inflight = Nobody, ~c.stopped, NEW k \in 1..2
    PROVE  Moves(c, [c EXCEPT !.inflight = k, !.runs[k] = NewRefresh({r})])
<1> DEFINE e == [c EXCEPT !.inflight = k]
           d == [e EXCEPT !.runs[k] = NewRefresh({r})]
<1>1. NewRefresh({r}) \in Refresh /\ NewRefresh({r}).pc = "read" /\ NewRefresh({r}) # Nobody
  BY DEF NewRefresh, Refresh, WorkspaceAssumption
<1>2. /\ e \in Cache /\ e.items = c.items /\ e.stopped = c.stopped /\ e.inflight = k
      /\ e.runs = c.runs
  <2>1. k \in Maybe({1, 2})
    BY DEF Maybe
  <2> QED
    BY <2>1, InflightSet
<1>3. [c EXCEPT !.inflight = k, !.runs[k] = NewRefresh({r})] = d
  OBVIOUS
<1> HIDE DEF e
<1>4. /\ d \in Cache /\ d.items = e.items /\ d.stopped = e.stopped /\ d.inflight = e.inflight
      /\ d.runs[k] = NewRefresh({r}) /\ \A h \in 1..2 : h # k => d.runs[h] = e.runs[h]
  BY <1>1, <1>2, RunSet DEF Maybe
<1> HIDE DEF d
<1>5. \A h \in 1..2 : c.runs[h] = Nobody
  BY DEF Settled, WorkspaceAssumption
<1>6. Settled(d)
  BY <1>1, <1>2, <1>4, <1>5 DEF Settled
<1>7. c.items # Nobody => c.items <= c.items
  BY CacheFields DEF Maybe
<1>8. Moves(c, d)
  BY <1>2, <1>4, <1>6, <1>7 DEF Moves
<1> QED
  BY <1>3, <1>8

Onward(c, k, pc, result) ==
    [c EXCEPT !.runs[k] = [pc |-> pc, waiters |-> @.waiters, result |-> result]]

LEMMA NextRun ==
    ASSUME NEW c \in Cache, NEW k \in 1..2, c.runs[k] # Nobody,
           NEW pc \in {"store", "close"}, NEW result \in Maybe(Nat)
    PROVE  LET x == [pc |-> pc, waiters |-> c.runs[k].waiters, result |-> result] IN
           x \in Refresh /\ x.pc = pc /\ x.result = result
<1>1. c.runs[k].waiters \in SUBSET Serves
  BY CacheFields, RefreshFields DEF Maybe
<1> QED
  BY <1>1 DEF Refresh, Maybe

LEMMA Reading ==
    ASSUME WorkspaceAssumption, listing \in Nat, NEW c \in Cache, Settled(c), NEW k \in 1..2,
           c.runs[k] # Nobody
    PROVE  Moves(c, Onward(c, k, "store", listing)) /\ Moves(c, Onward(c, k, "close", Nobody))
<1>1. c.items # Nobody => c.items <= listing
  BY DEF Settled
<1>2. listing \in Maybe(Nat) /\ Nobody \in Maybe(Nat) /\ listing # Nobody
  BY DEF Maybe, WorkspaceAssumption
<1>3. \A pc \in {"store", "close"}, result \in Maybe(Nat) :
        LET x == [pc |-> pc, waiters |-> c.runs[k].waiters, result |-> result] IN
           x \in Refresh /\ x.pc = pc /\ x.result = result
  BY NextRun
<1> DEFINE y == [pc |-> "store", waiters |-> c.runs[k].waiters, result |-> listing]
           z == [pc |-> "close", waiters |-> c.runs[k].waiters, result |-> Nobody]
<1>4. y \in Refresh /\ y.pc = "store" /\ y.result = listing
  BY <1>2, <1>3
<1>5. z \in Refresh /\ z.pc = "close"
  BY <1>2, <1>3
<1>6. Onward(c, k, "store", listing) = [c EXCEPT !.runs[k] = y]
  BY DEF Onward
<1>7. Onward(c, k, "close", Nobody) = [c EXCEPT !.runs[k] = z]
  BY DEF Onward
<1> HIDE DEF y, z
<1>8. Moves(c, [c EXCEPT !.runs[k] = y])
  BY <1>1, <1>2, <1>4, RunGoesOn
<1>9. Moves(c, [c EXCEPT !.runs[k] = z])
  BY <1>5, RunGoesOn
<1> QED
  BY <1>6, <1>7, <1>8, <1>9

LEMMA Storing ==
    ASSUME WorkspaceAssumption, listing \in Nat, NEW c \in Cache, Settled(c), NEW k \in 1..2,
           c.runs[k] # Nobody, c.runs[k].pc = "store", NEW items, items = c.runs[k].result
    PROVE  Moves(c, [Onward(c, k, "close", items) EXCEPT !.items = items, !.fresh = TRUE])
<1>1. /\ items \in Nat /\ items <= listing /\ items \in Maybe(Nat)
      /\ c.items # Nobody => c.items <= items
  BY CacheFields, RefreshFields DEF Settled, Maybe
<1> DEFINE x == [pc |-> "close", waiters |-> c.runs[k].waiters, result |-> items]
           e == [c EXCEPT !.runs[k] = x]
           d == [e EXCEPT !.items = items, !.fresh = TRUE]
<1>2. x \in Refresh /\ x.pc = "close"
  BY <1>1, NextRun
<1>3. [Onward(c, k, "close", items) EXCEPT !.items = items, !.fresh = TRUE] = d
  BY DEF Onward
<1> HIDE DEF x
<1>4. /\ e \in Cache /\ e.stopped = c.stopped /\ e.inflight = c.inflight
      /\ e.runs[k] = x /\ \A h \in 1..2 : h # k => e.runs[h] = c.runs[h]
  BY <1>2, RunSet DEF Maybe
<1> HIDE DEF e
<1>5. /\ d \in Cache /\ d.items = items /\ d.stopped = e.stopped /\ d.inflight = e.inflight
      /\ d.runs = e.runs
  BY <1>1, <1>4, ItemsSet
<1> HIDE DEF d
<1>6. x # Nobody /\ items # Nobody /\ \A h \in 1..2 : h # k => c.runs[h] = Nobody
  BY <1>1, <1>2 DEF WorkspaceAssumption, Settled
<1>7. Settled(d)
  BY <1>1, <1>2, <1>4, <1>5, <1>6 DEF Settled
<1>8. Moves(c, d)
  BY <1>1, <1>4, <1>5, <1>6, <1>7 DEF Moves
<1> QED
  BY <1>3, <1>8

LEMMA Ending ==
    ASSUME WorkspaceAssumption, listing \in Nat, NEW c \in Cache, Settled(c), NEW k \in 1..2,
           c.runs[k] # Nobody
    PROVE  Moves(c, [c EXCEPT !.runs[k] = Nobody, !.inflight = IF @ = k THEN Nobody ELSE @])
<1> DEFINE e == [c EXCEPT !.runs[k] = Nobody]
           d == [e EXCEPT !.inflight = Nobody]
<1>1. /\ e \in Cache /\ e.items = c.items /\ e.stopped = c.stopped /\ e.inflight = c.inflight
      /\ e.runs[k] = Nobody /\ \A h \in 1..2 : h # k => e.runs[h] = c.runs[h]
  BY RunSet DEF Maybe
<1>2. c.inflight = k
  BY DEF Settled
<1>3. [c EXCEPT !.runs[k] = Nobody, !.inflight = IF @ = k THEN Nobody ELSE @] = d
  BY <1>1, <1>2
<1> HIDE DEF e
<1>4. /\ d \in Cache /\ d.items = e.items /\ d.stopped = e.stopped /\ d.inflight = Nobody
      /\ d.runs = e.runs
  <2>1. Nobody \in Maybe({1, 2})
    BY DEF Maybe
  <2> QED
    BY <1>1, <2>1, InflightSet
<1> HIDE DEF d
<1>5. \A h \in 1..2 : d.runs[h] = Nobody
  BY <1>1, <1>2, <1>4 DEF Settled
<1>6. Settled(d)
  BY <1>1, <1>4, <1>5 DEF Settled, WorkspaceAssumption
<1>7. c.items # Nobody => c.items <= c.items
  BY CacheFields DEF Maybe
<1>8. Moves(c, d)
  BY <1>1, <1>4, <1>6, <1>7 DEF Moves
<1> QED
  BY <1>3, <1>8

LEMMA Flagging ==
    ASSUME NEW c \in Cache, Settled(c)
    PROVE  /\ LET d == [c EXCEPT !.stopped = TRUE] IN
              d \in Cache /\ Settled(d) /\ d.items = c.items /\ d.inflight = c.inflight
           /\ Moves(c, [c EXCEPT !.fresh = FALSE])
<1>1. c.items # Nobody => c.items <= c.items
  BY CacheFields DEF Maybe
<1> QED
  BY <1>1, FlagSet DEF Moves, Settled

-----------------------------------------------------------------------------
(* All caches at once. *)

(* A step moves each cache or leaves it, and keeps those who wait for a       *)
(* refresh to end waiting.                                                    *)
CachesMove ==
    /\ DOMAIN caches' = DOMAIN caches
    /\ \A i \in DOMAIN caches : caches'[i] = caches[i] \/ Moves(caches[i], caches'[i])

StoppersStay ==
    \A m \in Boots \cup Changes :
        request[m].pc = "stopping" => request'[m].pc = "stopping" /\ request'[m].cache = request[m].cache

LEMMA MovesKeep ==
    ASSUME CachesInv, WorkspaceTypes', listing' = listing, CachesMove, StoppersStay
    PROVE  CachesInv'
<1>1. ASSUME NEW i \in DOMAIN caches PROVE Settled(caches[i])' /\ StoppedOrWaiting(i)'
  <2>1. Settled(caches[i]) /\ StoppedOrWaiting(i)
    BY DEF CachesInv
  <2>2. Settled(caches'[i])
    BY <2>1 DEF CachesMove, Moves
  <2>3. Settled(caches[i])'
    BY <2>2 DEF Settled
  <2>4. StoppedOrWaiting(i)'
    BY <2>1 DEF StoppedOrWaiting, StoppersStay, CachesMove, Moves
  <2> QED
    BY <2>3, <2>4
<1> QED
  BY <1>1 DEF CachesInv, CachesMove

LEMMA OneMoves ==
    ASSUME WorkspaceTypes, NEW i, NEW d, caches' = [caches EXCEPT ![i] = d],
           i \in DOMAIN caches => Moves(caches[i], d)
    PROVE  CachesMove /\ caches' \in Seq(Cache)
<1>1. CachesMove
  BY DEF CachesMove
<1>2. caches \in Seq(Cache) /\ (i \in DOMAIN caches => d \in Cache)
  BY DEF WorkspaceTypes, Moves
<1>3. caches' \in Seq(Cache)
  <2>1. CASE i \in DOMAIN caches
    BY <1>2, <2>1, ExceptSeq, LenProperties
  <2>2. CASE i \notin DOMAIN caches
    <3>1. caches' = caches
      BY <1>2, <2>2
    <3> QED
      BY <1>2, <3>1
  <2> QED
    BY <2>1, <2>2
<1> QED
  BY <1>1, <1>3

-----------------------------------------------------------------------------
(* The steps. *)

LEMMA CachesStay ==
    ASSUME WorkspaceTypes, caches' = caches
    PROVE  CachesMove /\ caches' \in Seq(Cache)
BY DEF CachesMove, WorkspaceTypes

(* Steps of the requests that are served, of the resolve and of a refresh     *)
(* change neither the connection nor who is to invalidate it.                 *)
LEMMA ServeStep ==
    ASSUME WorkspaceInv, UNCHANGED <<record, epoch, owed, answered, listing>>,
           DOMAIN request' = Requests, \A m \in Boots \cup Changes : request'[m] = request[m],
           workspace' \in Maybe(Workspace), workspace' # Nobody => Stands(workspace'),
           flight' \in Maybe(Flight),
           flight' # Nobody /\ flight'.pc # "fetch" => Stands(flight'),
           pendingCache' \in Maybe(Nat),
           caches' \in Seq(Cache), CachesMove
    PROVE  WorkspaceInv'
<1>1. WorkspaceTypes'
  BY DEF WorkspaceInv, WorkspaceTypes
<1>2. NothingStale'
  BY DEF WorkspaceInv, NothingStale, Stands
<1>3. CachesInv'
  BY <1>1, MovesKeep DEF WorkspaceInv, StoppersStay
<1> QED
  BY <1>1, <1>2, <1>3 DEF WorkspaceInv

(* DoChan keeps what the resolve in flight has read.                          *)
LEMMA DoChanKeeps ==
    ASSUME WorkspaceInv, NEW W \in SUBSET Serves, NEW start \in Flight, DoChan(W, start),
           start.pc # "fetch" => Stands(start)
    PROVE  /\ flight' \in Maybe(Flight)
           /\ flight' # Nobody /\ flight'.pc # "fetch" => Stands(flight')
<1>1. CASE flight = Nobody
  <2>1. flight' = [start EXCEPT !.waiters = W]
    BY <1>1 DEF DoChan
  <2> QED
    BY <2>1, FlightWaiters DEF Maybe, Stands
<1>2. CASE flight # Nobody
  <2>1. flight \in Flight /\ flight.waiters \cup W \in SUBSET Serves
    BY <1>2, FlightFields DEF WorkspaceInv, WorkspaceTypes, Maybe
  <2>2. flight' = [flight EXCEPT !.waiters = flight.waiters \cup W]
    BY <1>2 DEF DoChan
  <2> QED
    BY <1>2, <2>1, <2>2, FlightWaiters DEF Maybe, Stands, WorkspaceInv, NothingStale
<1> QED
  BY <1>1, <1>2

LEMMA DropKeeps ==
    ASSUME WorkspaceInv, DropExpired, UNCHANGED <<record, epoch, owed, answered>>
    PROVE  workspace' \in Maybe(Workspace) /\ (workspace' # Nobody => Stands(workspace'))
BY DEF DropExpired, WorkspaceInv, WorkspaceTypes, NothingStale, Maybe

LEMMA OthersStay ==
    ASSUME WorkspaceAssumption, NEW r \in Serves, NEW q, request' = [request EXCEPT ![r] = q]
    PROVE  /\ DOMAIN request' = DOMAIN request
           /\ \A m \in Boots \cup Changes : request'[m] = request[m]
BY DEF WorkspaceAssumption

LEMMA ResolveStep ==
    ASSUME WorkspaceAssumption, WorkspaceInv, NEW r \in Serves, ResolveContext(r)
    PROVE  WorkspaceInv' /\ caches' = caches
<1>0. /\ DropExpired /\ UNCHANGED <<record, pendingCache, caches, listing, epoch, owed, answered>>
      /\ \E q : request' = [request EXCEPT ![r] = q]
  BY DEF ResolveContext
<1>1. /\ DropExpired /\ UNCHANGED <<record, pendingCache, caches, listing, epoch, owed, answered>>
      /\ DOMAIN request' = DOMAIN request
      /\ \A m \in Boots \cup Changes : request'[m] = request[m]
  BY <1>0, OthersStay
<1>2. /\ flight' \in Maybe(Flight)
      /\ flight' # Nobody /\ flight'.pc # "fetch" => Stands(flight')
  <2>1. CASE UNCHANGED flight
    BY <2>1 DEF WorkspaceInv, WorkspaceTypes, NothingStale
  <2>2. CASE DoChan({r}, [pc |-> "fetch", waiters |-> {}])
    <3>1. [pc |-> "fetch", waiters |-> {}] \in Flight
      BY DEF Flight
    <3> QED
      BY <2>2, <3>1, DoChanKeeps
  <2> QED
    BY <2>1, <2>2 DEF ResolveContext
<1>3. WorkspaceTypes
  BY DEF WorkspaceInv
<1>4. workspace' \in Maybe(Workspace) /\ (workspace' # Nobody => Stands(workspace'))
  BY <1>1, DropKeeps
<1>5. DOMAIN request' = Requests /\ pendingCache' \in Maybe(Nat)
  BY <1>1, <1>3 DEF WorkspaceTypes
<1>6. WorkspaceInv'
  <2> HIDE DEF WorkspaceAssumption
  <2> QED
    BY <1>1, <1>2, <1>3, <1>4, <1>5, ServeStep, CachesStay
<1> QED
  BY <1>1, <1>6

(* The pending items that a request gets, or the refresh that it joins.       *)
LEMMA GetContextStep ==
    ASSUME WorkspaceAssumption, WorkspaceInv, NEW r \in Serves, GetContext(r)
    PROVE  WorkspaceInv' /\ CachesMove
<1> DEFINE i == request[r].cache
           c == caches[i]
<1>1. /\ UNCHANGED <<record, workspace, flight, pendingCache, listing, epoch, owed, answered>>
      /\ \/ caches' = caches
         \/ /\ c.inflight # Nobody
            /\ caches' = [caches EXCEPT ![i].runs[c.inflight].waiters = @ \cup {r}]
         \/ /\ c.inflight = Nobody /\ ~c.stopped
            /\ \E k \in 1..2 :
                 caches' = [caches EXCEPT ![i].inflight = k, ![i].runs[k] = NewRefresh({r})]
  <2>1. UNCHANGED <<record, workspace, flight, pendingCache, listing, epoch, owed, answered>>
    BY DEF GetContext
  <2>2. caches' = caches \/ startRefresh(r, i)
    BY DEF GetContext
  <2> HIDE DEF i
  <2>3. CASE JoinRefresh(r, i, caches[i].inflight) /\ caches[i].inflight # Nobody
    BY <2>1, <2>3 DEF JoinRefresh
  <2>4. CASE NewRun(r, i) /\ caches[i].inflight = Nobody /\ ~caches[i].stopped
    <3>1. \E k \in 1..2 :
             caches' = [caches EXCEPT ![i].inflight = k, ![i].runs[k] = NewRefresh({r})]
      <4> DEFINE k == IF caches[i].runs[1] = Nobody THEN 1 ELSE 2
      <4>1. k \in 1..2
        OBVIOUS
      <4>2. caches' = [caches EXCEPT ![i].inflight = k, ![i].runs[k] = NewRefresh({r})]
        BY <2>4, Zenon DEF NewRun
      <4> HIDE DEF k
      <4> QED
        BY <4>1, <4>2
    <3> QED
      BY <2>1, <2>4, <3>1
  <2> QED
    BY <2>1, <2>2, <2>3, <2>4 DEF startRefresh
<1>2. \E q : request' = [request EXCEPT ![r] = q]
  BY DEF GetContext, startRefresh, JoinRefresh, NewRun
<1>3. WorkspaceTypes /\ listing \in Nat
      /\ (i \in DOMAIN caches => c \in Cache /\ Settled(c))
  BY LenProperties DEF WorkspaceInv, WorkspaceTypes, CachesInv
<1>4. CachesMove /\ caches' \in Seq(Cache)
  <2>1. CASE caches' = caches
    BY <1>3, <2>1, CachesStay
  <2>2. CASE /\ c.inflight # Nobody
             /\ caches' = [caches EXCEPT ![i].runs[c.inflight].waiters = @ \cup {r}]
    <3> DEFINE d == [c EXCEPT !.runs[c.inflight].waiters = @ \cup {r}]
    <3>1. caches' = [caches EXCEPT ![i] = d]
      BY <2>2
    <3>2. i \in DOMAIN caches => Moves(c, d)
      BY <1>3, <2>2, Joining
    <3> HIDE DEF d
    <3> QED
      BY <1>3, <3>1, <3>2, OneMoves
  <2>3. ASSUME c.inflight = Nobody, ~c.stopped, NEW k \in 1..2,
               caches' = [caches EXCEPT ![i].inflight = k, ![i].runs[k] = NewRefresh({r})]
        PROVE  CachesMove /\ caches' \in Seq(Cache)
    <3> DEFINE d == [c EXCEPT !.inflight = k, !.runs[k] = NewRefresh({r})]
    <3>1. caches' = [caches EXCEPT ![i] = d]
      BY <2>3
    <3>2. i \in DOMAIN caches => Moves(c, d)
      BY <1>3, <2>3, Starting
    <3> HIDE DEF d
    <3> QED
      BY <1>3, <3>1, <3>2, OneMoves
  <2> QED
    BY <1>1, <2>1, <2>2, <2>3
<1> HIDE DEF i, c
<1>5. DOMAIN request' = Requests /\ \A m \in Boots \cup Changes : request'[m] = request[m]
  BY <1>2, <1>3, OthersStay DEF WorkspaceTypes
<1>6. /\ workspace' \in Maybe(Workspace) /\ flight' \in Maybe(Flight)
      /\ pendingCache' \in Maybe(Nat)
      /\ workspace' # Nobody => Stands(workspace')
      /\ flight' # Nobody /\ flight'.pc # "fetch" => Stands(flight')
  BY <1>1, <1>3 DEF WorkspaceTypes, WorkspaceInv, NothingStale
<1> HIDE DEF WorkspaceAssumption
<1> QED
  BY <1>1, <1>4, <1>5, <1>6, ServeStep

LEMMA GiveUpStep ==
    ASSUME WorkspaceAssumption, WorkspaceInv, NEW r \in Serves, GiveUp(r)
    PROVE  WorkspaceInv' /\ CachesMove
<1>1. UNCHANGED <<record, workspace, pendingCache, listing, epoch, owed, answered>>
  BY DEF GiveUp
<1>2. \E q : request' = [request EXCEPT ![r] = q]
  BY DEF GiveUp
<1>3. WorkspaceTypes /\ listing \in Nat
  BY DEF WorkspaceInv, WorkspaceTypes
<1>4. ASSUME NEW i \in DOMAIN caches PROVE caches'[i] \in Cache /\ Moves(caches[i], caches'[i])
  <2>1. caches[i] \in Cache /\ Settled(caches[i])
    BY <1>3, LenProperties DEF WorkspaceInv, WorkspaceTypes, CachesInv
  <2>2. caches'[i] = [caches[i] EXCEPT !.runs = LeftBy(@, r)]
    BY DEF GiveUp
  <2> QED
    BY <1>3, <2>1, <2>2, Leaving DEF Moves
<1>5. DOMAIN caches' = DOMAIN caches /\ caches' \in Seq(Cache) /\ CachesMove
  <2>1. caches \in Seq(Cache) /\ Len(caches) \in Nat /\ DOMAIN caches = 1..Len(caches)
    BY <1>3, LenProperties DEF WorkspaceTypes
  <2>2. caches' = [i \in 1..Len(caches) |-> caches'[i]]
    BY <2>1 DEF GiveUp
  <2>3. caches' \in Seq(Cache)
    BY <1>4, <2>1, <2>2, IsASeq
  <2> QED
    BY <1>4, <2>1, <2>2, <2>3 DEF CachesMove
<1>6. /\ flight' \in Maybe(Flight)
      /\ flight' # Nobody /\ flight'.pc # "fetch" => Stands(flight')
  <2>1. CASE flight = Nobody
    BY <2>1 DEF GiveUp, Maybe
  <2>2. CASE flight # Nobody
    <3>1. flight \in Flight /\ flight.waiters \ {r} \in SUBSET Serves
      BY <1>3, <2>2, FlightFields DEF WorkspaceTypes, Maybe
    <3>2. flight' = [flight EXCEPT !.waiters = flight.waiters \ {r}]
      BY <2>2 DEF GiveUp
    <3> QED
      BY <2>2, <3>1, <3>2, FlightWaiters DEF Maybe, Stands, WorkspaceInv, NothingStale
  <2> QED
    BY <2>1, <2>2
<1>7. DOMAIN request' = Requests /\ \A m \in Boots \cup Changes : request'[m] = request[m]
  BY <1>2, <1>3, OthersStay DEF WorkspaceTypes
<1>8. /\ workspace' \in Maybe(Workspace) /\ pendingCache' \in Maybe(Nat)
      /\ workspace' # Nobody => Stands(workspace')
  BY <1>1, <1>3 DEF WorkspaceTypes, WorkspaceInv, NothingStale
<1> HIDE DEF WorkspaceAssumption
<1> QED
  BY <1>1, <1>5, <1>6, <1>7, <1>8, ServeStep

(* The resolve in flight reads, takes or makes a pending cache, and stores.   *)
LEMMA WaitersServed ==
    ASSUME WorkspaceAssumption, WorkspaceInv, NEW W \in SUBSET Serves, NEW q,
           request' = [r \in Requests |-> IF r \in W THEN q ELSE request[r]]
    PROVE  DOMAIN request' = Requests /\ \A m \in Boots \cup Changes : request'[m] = request[m]
BY DEF WorkspaceAssumption, Requests

LEMMA FetchStep ==
    ASSUME WorkspaceAssumption, WorkspaceInv, FetchConnection
    PROVE  WorkspaceInv' /\ CachesMove
<1>1. /\ flight \in Flight /\ flight.waiters \in SUBSET Serves /\ WorkspaceTypes
      /\ UNCHANGED <<record, workspace, pendingCache, caches, listing, epoch, owed, answered>>
  BY FlightFields DEF FetchConnection, WorkspaceInv, WorkspaceTypes, Maybe
<1>2. DOMAIN request' = Requests /\ \A m \in Boots \cup Changes : request'[m] = request[m]
  <2>1. CASE UNCHANGED request
    BY <1>1, <2>1 DEF WorkspaceTypes
  <2>2. CASE request' = [r \in Requests |->
                            IF r \in flight.waiters THEN [pc |-> "failed"] ELSE request[r]]
    BY <1>1, <2>2, WaitersServed
  <2> QED
    BY <2>1, <2>2 DEF FetchConnection
<1>3. flight' \in Maybe(Flight) /\ (flight' # Nobody /\ flight'.pc # "fetch" => Stands(flight'))
  <2>1. CASE flight' = Nobody
    BY <2>1 DEF Maybe
  <2>2. CASE flight' = [pc |-> "build", waiters |-> flight.waiters, seen |-> record, epoch |-> epoch]
    <3>1. flight' \in [pc : {"build"}, waiters : SUBSET Serves, seen : Nat, epoch : Nat]
      BY <1>1, <2>2 DEF WorkspaceTypes
    <3>2. flight'.epoch = epoch /\ flight'.seen = record
      BY <2>2
    <3> QED
      BY <1>1, <3>1, <3>2 DEF Flight, Maybe, Stands, WorkspaceTypes, WorkspaceInv, NothingStale
  <2> QED
    BY <2>1, <2>2 DEF FetchConnection
<1>4. /\ workspace' \in Maybe(Workspace) /\ pendingCache' \in Maybe(Nat)
      /\ workspace' # Nobody => Stands(workspace')
      /\ CachesMove /\ caches' \in Seq(Cache)
  BY <1>1, CachesStay DEF WorkspaceTypes, WorkspaceInv, NothingStale
<1> HIDE DEF WorkspaceAssumption
<1> QED
  BY <1>1, <1>2, <1>3, <1>4, ServeStep

(* A new cache has a refresh in its first slot and nothing to show.           *)
LEMMA Fresh ==
    ASSUME WorkspaceAssumption PROVE NewCache \in Cache /\ Settled(NewCache) /\ ~NewCache.stopped
<1>1. NewRefresh({}) \in Refresh /\ NewRefresh({}) # Nobody /\ NewRefresh({}).pc = "read"
  BY DEF NewRefresh, Refresh, WorkspaceAssumption
<1> DEFINE R == <<NewRefresh({}), Nobody>>
<1>2. R \in [1..2 -> Maybe(Refresh)] /\ R[1] = NewRefresh({}) /\ R[2] = Nobody
  BY <1>1 DEF Maybe
<1>3. NewCache = [items |-> Nobody, fresh |-> FALSE, stopped |-> FALSE, inflight |-> 1, runs |-> R]
  BY DEF NewCache
<1> HIDE DEF R
<1>4. NewCache \in Cache
  BY <1>2, <1>3 DEF Cache, Maybe
<1>5. /\ NewCache.items = Nobody /\ NewCache.inflight = 1 /\ NewCache.runs = R
      /\ NewCache.stopped = FALSE
  BY <1>3
<1>6. Settled(NewCache)
  BY <1>1, <1>2, <1>5 DEF Settled
<1> QED
  BY <1>4, <1>5, <1>6

LEMMA CreateStep ==
    ASSUME WorkspaceAssumption, WorkspaceInv, getOrCreatePendingCache
    PROVE  WorkspaceInv' /\ \A i \in DOMAIN caches : i \in DOMAIN caches' /\ caches'[i] = caches[i]
<1>1. /\ flight \in Flight /\ flight.pc = "build" /\ flight.waiters \in SUBSET Serves
      /\ flight.seen \in Nat /\ flight.epoch \in Nat /\ WorkspaceTypes /\ Stands(flight)
      /\ UNCHANGED <<record, workspace, listing, request, epoch, owed, answered>>
  BY FlightFields DEF getOrCreatePendingCache, WorkspaceInv, WorkspaceTypes, NothingStale, Maybe
<1>2. ASSUME NEW i \in Maybe(Nat),
             flight' = [pc |-> "store", waiters |-> flight.waiters, seen |-> flight.seen,
                        epoch |-> flight.epoch, cache |-> i]
      PROVE  flight' \in Maybe(Flight) /\ Stands(flight')
  <2>1. flight' \in [pc : {"store"}, waiters : SUBSET Serves, seen : Nat, epoch : Nat,
                     cache : Maybe(Nat)]
    BY <1>1, <1>2
  <2>2. flight'.epoch = flight.epoch /\ flight'.seen = flight.seen
    BY <1>2
  <2> QED
    BY <1>1, <2>1, <2>2 DEF Flight, Maybe, Stands
<1>3. /\ workspace' \in Maybe(Workspace)
      /\ workspace' # Nobody => Stands(workspace')
      /\ DOMAIN request' = Requests
      /\ \A m \in Boots \cup Changes : request'[m] = request[m]
  BY <1>1 DEF WorkspaceTypes, WorkspaceInv, NothingStale
<1>4. CASE /\ pendingCache # Nobody /\ UNCHANGED <<pendingCache, caches>>
           /\ flight' = [pc |-> "store", waiters |-> flight.waiters, seen |-> flight.seen,
                         epoch |-> flight.epoch, cache |-> pendingCache]
  <2>1. CachesMove /\ caches' \in Seq(Cache) /\ pendingCache' \in Maybe(Nat)
    BY <1>1, <1>4, CachesStay DEF WorkspaceTypes
  <2>2. flight' \in Maybe(Flight) /\ Stands(flight')
    BY <1>1, <1>2, <1>4 DEF WorkspaceTypes
  <2> HIDE DEF WorkspaceAssumption
  <2>3. WorkspaceInv'
    BY <1>1, <1>3, <2>1, <2>2, ServeStep
  <2> QED
    BY <1>4, <2>3
<1>5. CASE /\ caches' = Append(caches, NewCache) /\ pendingCache' = Len(caches')
           /\ flight' = [pc |-> "store", waiters |-> flight.waiters, seen |-> flight.seen,
                         epoch |-> flight.epoch, cache |-> Len(caches')]
  <2>1. /\ caches' \in Seq(Cache) /\ Len(caches') = Len(caches) + 1 /\ Len(caches) \in Nat
        /\ \A i \in 1..Len(caches) : caches'[i] = caches[i]
        /\ caches'[Len(caches) + 1] = NewCache
        /\ DOMAIN caches = 1..Len(caches) /\ DOMAIN caches' = 1..Len(caches')
    BY <1>1, <1>5, Fresh, AppendProperties, LenProperties DEF WorkspaceTypes
  <2>2. Len(caches') \in Maybe(Nat)
    BY <2>1 DEF Maybe
  <2>3. flight' \in Maybe(Flight) /\ Stands(flight')
    BY <1>2, <1>5, <2>2
  <2>4. WorkspaceTypes'
    BY <1>1, <1>3, <1>5, <2>1, <2>2, <2>3 DEF WorkspaceTypes
  <2>5. NothingStale'
    BY <1>1, <2>3 DEF WorkspaceInv, NothingStale, Stands
  <2>6. ASSUME NEW i \in DOMAIN caches' PROVE Settled(caches[i])' /\ StoppedOrWaiting(i)'
    <3>1. CASE i \in DOMAIN caches
      <4>1. Settled(caches[i]) /\ StoppedOrWaiting(i) /\ caches'[i] = caches[i]
        BY <2>1, <3>1 DEF WorkspaceInv, CachesInv
      <4> QED
        BY <1>1, <4>1 DEF Settled, StoppedOrWaiting
    <3>2. CASE i = Len(caches) + 1
      <4>1. caches'[i] = NewCache /\ Settled(NewCache) /\ ~NewCache.stopped
        BY <2>1, <3>2, Fresh
      <4> QED
        BY <1>1, <4>1 DEF Settled, StoppedOrWaiting
    <3> QED
      BY <2>1, <3>1, <3>2
  <2>7. WorkspaceInv'
    BY <2>4, <2>5, <2>6 DEF WorkspaceInv, CachesInv
  <2> QED
    BY <2>1, <2>7
<1> QED
  BY <1>4, <1>5 DEF getOrCreatePendingCache

LEMMA CacheWorkspaceStep ==
    ASSUME WorkspaceAssumption, WorkspaceInv, cacheWorkspace
    PROVE  WorkspaceInv' /\ CachesMove
<1>1. /\ flight \in Flight /\ flight.waiters \in SUBSET Serves /\ WorkspaceTypes
      /\ flight.seen \in Nat /\ flight.epoch \in Nat /\ flight.cache \in Maybe(Nat)
      /\ Stands(flight) /\ flight' = Nobody
      /\ UNCHANGED <<record, pendingCache, caches, listing, epoch, owed, answered>>
      /\ workspace' = [seen |-> flight.seen, epoch |-> flight.epoch,
                       cache |-> flight.cache, expired |-> FALSE]
  BY FlightFields DEF cacheWorkspace, WorkspaceInv, WorkspaceTypes, NothingStale, Maybe
<1>2. DOMAIN request' = Requests /\ \A m \in Boots \cup Changes : request'[m] = request[m]
  BY <1>1, WaitersServed DEF cacheWorkspace
<1>3. /\ workspace' \in Maybe(Workspace) /\ pendingCache' \in Maybe(Nat)
      /\ CachesMove /\ caches' \in Seq(Cache) /\ flight' \in Maybe(Flight)
  BY <1>1, CachesStay DEF WorkspaceTypes, Workspace, Maybe
<1>4. Stands(workspace')
  BY <1>1 DEF Stands
<1> HIDE DEF WorkspaceAssumption
<1> QED
  BY <1>1, <1>2, <1>3, <1>4, ServeStep

LEMMA ExpireStep ==
    ASSUME WorkspaceInv, ExpireWorkspace
    PROVE  WorkspaceInv' /\ CachesMove
<1>1. /\ workspace \in Workspace /\ Stands(workspace) /\ WorkspaceTypes
      /\ workspace' = [workspace EXCEPT !.expired = TRUE]
      /\ UNCHANGED <<record, flight, pendingCache, caches, listing, request, epoch, owed, answered>>
  BY DEF ExpireWorkspace, Usable, WorkspaceInv, WorkspaceTypes, NothingStale, Maybe
<1>2. workspace' \in Workspace /\ workspace'.epoch = workspace.epoch /\ workspace'.seen = workspace.seen
  BY <1>1 DEF Workspace
<1>3. /\ workspace' \in Maybe(Workspace) /\ Stands(workspace')
  BY <1>1, <1>2 DEF Stands, Maybe
<1>4. /\ CachesMove /\ caches' \in Seq(Cache) /\ pendingCache' \in Maybe(Nat)
      /\ flight' \in Maybe(Flight) /\ DOMAIN request' = Requests
      /\ \A m \in Boots \cup Changes : request'[m] = request[m]
      /\ flight' # Nobody /\ flight'.pc # "fetch" => Stands(flight')
  BY <1>1, CachesStay DEF WorkspaceTypes, WorkspaceInv, NothingStale
<1> QED
  BY <1>1, <1>3, <1>4, ServeStep

(* Steps of a refresh.                                                        *)
LEMMA CacheStep ==
    ASSUME WorkspaceAssumption, WorkspaceInv, NEW i \in DOMAIN caches,
           StaleListing(i) \/ \E k \in 1..2 : RefreshStep(i, k)
    PROVE  WorkspaceInv' /\ CachesMove
<1> DEFINE c == caches[i]
<1>1. /\ c \in Cache /\ Settled(c) /\ WorkspaceTypes /\ listing \in Nat
  BY LenProperties DEF WorkspaceInv, WorkspaceTypes, CachesInv
<1>2. /\ UNCHANGED <<record, workspace, flight, pendingCache, listing, epoch, owed, answered>>
  BY DEF StaleListing, RefreshStep, ListPendingWantedIDs, refreshNow, runRefresh
<1>3. ASSUME NEW d, caches' = [caches EXCEPT ![i] = d], Moves(c, d)
      PROVE  CachesMove /\ caches' \in Seq(Cache)
  BY <1>1, <1>3, OneMoves
<1>4. ASSUME DOMAIN request' = Requests, \A m \in Boots \cup Changes : request'[m] = request[m],
             CachesMove, caches' \in Seq(Cache)
      PROVE  WorkspaceInv'
  <2>1. /\ pendingCache' \in Maybe(Nat) /\ flight' \in Maybe(Flight) /\ workspace' \in Maybe(Workspace)
        /\ flight' # Nobody /\ flight'.pc # "fetch" => Stands(flight')
        /\ workspace' # Nobody => Stands(workspace')
    BY <1>1, <1>2 DEF WorkspaceTypes, WorkspaceInv, NothingStale
  <2> QED
    BY <1>2, <1>4, <2>1, ServeStep
<1>5. ASSUME UNCHANGED request
      PROVE  DOMAIN request' = Requests /\ \A m \in Boots \cup Changes : request'[m] = request[m]
  BY <1>1, <1>5 DEF WorkspaceTypes
<1>6. CASE StaleListing(i)
  <2> DEFINE d == [c EXCEPT !.fresh = FALSE]
  <2>1. caches' = [caches EXCEPT ![i] = d] /\ UNCHANGED request
    BY <1>6 DEF StaleListing
  <2>2. Moves(c, d)
    BY <1>1, Flagging
  <2> HIDE DEF d, c
  <2> QED
    BY <1>3, <1>4, <1>5, <2>1, <2>2
<1>7. ASSUME NEW k \in 1..2, ListPendingWantedIDs(i, k)
      PROVE  WorkspaceInv' /\ CachesMove
  <2>1. c.runs[k] # Nobody /\ UNCHANGED request
    BY <1>7 DEF ListPendingWantedIDs, Run
  <2>2. \/ caches' = [caches EXCEPT ![i] = Onward(c, k, "store", listing)]
        \/ caches' = [caches EXCEPT ![i] = Onward(c, k, "close", Nobody)]
    BY <1>7 DEF ListPendingWantedIDs, Runs, Onward
  <2>3. Moves(c, Onward(c, k, "store", listing)) /\ Moves(c, Onward(c, k, "close", Nobody))
    BY <1>1, <2>1, Reading
  <2> HIDE DEF c
  <2> QED
    BY <1>3, <1>4, <1>5, <2>1, <2>2, <2>3
<1>8. ASSUME NEW k \in 1..2, refreshNow(i, k)
      PROVE  WorkspaceInv' /\ CachesMove
  <2> DEFINE items == c.runs[k].result
             d == [Onward(c, k, "close", items) EXCEPT !.items = items, !.fresh = TRUE]
  <2>1. c.runs[k] # Nobody /\ c.runs[k].pc = "store" /\ UNCHANGED request
    BY <1>8 DEF refreshNow, Run
  <2>2. caches' = [caches EXCEPT ![i] = d]
    BY <1>8 DEF refreshNow, Runs, Onward
  <2>3. Moves(c, d)
    BY <1>1, <2>1, Storing
  <2> HIDE DEF d, items, c
  <2> QED
    BY <1>3, <1>4, <1>5, <2>1, <2>2, <2>3
<1>9. ASSUME NEW k \in 1..2, runRefresh(i, k)
      PROVE  WorkspaceInv' /\ CachesMove
  <2> DEFINE d == [c EXCEPT !.runs[k] = Nobody, !.inflight = IF @ = k THEN Nobody ELSE @]
             W == c.runs[k].waiters
             q == Outcome(c.runs[k].result)
  <2>1. c.runs[k] # Nobody /\ c.runs[k] \in Refresh /\ W \in SUBSET Serves
    BY <1>1, <1>9, CacheFields, RefreshFields DEF runRefresh, Run, Maybe
  <2>2. caches' = [caches EXCEPT ![i] = d]
    BY <1>9 DEF runRefresh
  <2>3. Moves(c, d)
    BY <1>1, <2>1, Ending
  <2>4. request' = [r \in Requests |-> IF r \in W THEN q ELSE request[r]]
    BY <1>9 DEF runRefresh, Tell
  <2> HIDE DEF d, q, W, c
  <2>5. DOMAIN request' = Requests /\ \A m \in Boots \cup Changes : request'[m] = request[m]
    BY <2>1, <2>4, WaitersServed
  <2> QED
    BY <1>3, <1>4, <2>2, <2>3, <2>5
<1> QED
  BY <1>6, <1>7, <1>8, <1>9 DEF RefreshStep

LEMMA ListingStep ==
    ASSUME WorkspaceInv, ListingChanges PROVE WorkspaceInv' /\ caches' = caches
<1>1. /\ listing \in Nat /\ listing' = listing + 1 /\ WorkspaceTypes
      /\ UNCHANGED <<record, workspace, flight, pendingCache, caches, request, epoch, owed, answered>>
  BY DEF ListingChanges, WorkspaceInv, WorkspaceTypes
<1>2. WorkspaceTypes' /\ NothingStale'
  BY <1>1 DEF WorkspaceInv, WorkspaceTypes, NothingStale, Stands
<1>3. ASSUME NEW i \in DOMAIN caches PROVE Settled(caches[i])' /\ StoppedOrWaiting(i)'
  <2>1. Settled(caches[i]) /\ StoppedOrWaiting(i) /\ caches[i] \in Cache
    BY <1>1, LenProperties DEF WorkspaceInv, CachesInv, WorkspaceTypes
  <2>2. caches[i].items \in Maybe(Nat)
    BY <2>1, CacheFields
  <2>3. ASSUME NEW k \in 1..2, caches[i].runs[k] # Nobody, caches[i].runs[k].pc = "store"
        PROVE  caches[i].runs[k].result \in Maybe(Nat)
    BY <2>1, <2>3, CacheFields, RefreshFields DEF Maybe
  <2>4. Settled(caches[i])'
    BY <1>1, <2>1, <2>2, <2>3 DEF Settled, Maybe
  <2> QED
    BY <1>1, <2>1, <2>4 DEF StoppedOrWaiting
<1> QED
  BY <1>1, <1>2, <1>3 DEF WorkspaceInv, CachesInv

LEMMA ReconnectStep ==
    ASSUME WorkspaceInv, Reconnect PROVE WorkspaceInv' /\ caches' = caches
<1>1. /\ WorkspaceTypes /\ NothingStale /\ CachesInv /\ record' = record + 1
      /\ UNCHANGED <<workspace, flight, pendingCache, caches, listing, request,
                     epoch, owed, answered>>
  BY DEF Reconnect, WorkspaceInv
<1>2. WorkspaceTypes'
  BY <1>1 DEF WorkspaceTypes
<1>3. NothingStale'
  BY <1>1 DEF NothingStale, Stands, WorkspaceTypes
<1>4. CachesInv'
  BY <1>1 DEF CachesInv, Settled, StoppedOrWaiting
<1> QED
  BY <1>1, <1>2, <1>3, <1>4 DEF WorkspaceInv

-----------------------------------------------------------------------------
(* Bootstraps and changes. *)

LEMMA OneRequest ==
    ASSUME WorkspaceTypes, NEW m \in Boots \cup Changes, NEW q,
           m \in Boots => q \in BootRequest, m \in Changes => q \in ChangeRequest,
           request' = [request EXCEPT ![m] = q]
    PROVE  /\ DOMAIN request' = Requests /\ request'[m] = q
           /\ \A w \in Boots : request'[w] \in BootRequest
           /\ \A n \in Changes : request'[n] \in ChangeRequest
           /\ \A n \in Boots \cup Changes : n # m => request'[n] = request[n]
BY DEF WorkspaceTypes, Requests

(* A step of one bootstrap or change that leaves the caches alone, or keeps   *)
(* waiting.                                                                   *)
LEMMA ChangerStep ==
    ASSUME WorkspaceInv, NEW m \in Boots \cup Changes, NEW q,
           m \in Boots => q \in BootRequest, m \in Changes => q \in ChangeRequest,
           request' = [request EXCEPT ![m] = q], request[m].pc # "stopping",
           listing' = listing, caches' = caches, record' \in Nat, answered' \in Nat, epoch' \in Nat,
           workspace' \in Maybe(Workspace), flight' \in Maybe(Flight), pendingCache' \in Maybe(Nat),
           NothingStale'
    PROVE  WorkspaceInv'
<1>1. WorkspaceTypes /\ CachesInv
  BY DEF WorkspaceInv
<1>2. /\ DOMAIN request' = Requests
      /\ \A w \in Boots : request'[w] \in BootRequest
      /\ \A n \in Changes : request'[n] \in ChangeRequest
      /\ \A n \in Boots \cup Changes : n # m => request'[n] = request[n]
  BY <1>1, OneRequest
<1>3. WorkspaceTypes'
  BY <1>1, <1>2 DEF WorkspaceTypes
<1>4. StoppersStay
  BY <1>2 DEF StoppersStay
<1>5. CachesInv'
  BY <1>1, <1>3, <1>4, CachesStay, MovesKeep
<1> QED
  BY <1>3, <1>5 DEF WorkspaceInv

LEMMA BootstrapStep ==
    ASSUME WorkspaceAssumption, WorkspaceInv, NEW w \in Boots, Bootstrap(w)
    PROVE  WorkspaceInv' /\ caches' = caches
<1>1. PICK pc \in {"warm", "invalidate"} : Reads(w, pc)
  BY DEF Bootstrap
<1> DEFINE q == [pc |-> pc, seen |-> record, epoch |-> epoch, cache |-> Nobody]
<1>2. /\ WorkspaceTypes /\ NothingStale /\ request[w].pc = "idle"
      /\ UNCHANGED <<record, workspace, flight, pendingCache, caches, listing, epoch>>
      /\ \/ UNCHANGED <<owed, answered>>
         \/ owed' # {} /\ answered' = record
  BY DEF Bootstrap, WorkspaceInv
<1>3. q \in BootRequest
  <2>1. q \in [pc : {"warm"} \cup Invalidating, seen : Nat, epoch : Nat, cache : Maybe(Nat)]
    BY <1>2 DEF Invalidating, WorkspaceTypes, Maybe
  <2> QED
    BY <2>1 DEF BootRequest
<1>4. \A x : Stands(x) => /\ x.epoch <= epoch'
                          /\ x.epoch = epoch' /\ owed' = {} => x.seen >= answered'
  BY <1>2 DEF Stands
<1>41. q.seen = record /\ q.epoch = epoch
  OBVIOUS
<1>5. w \notin Changes
  BY DEF WorkspaceAssumption
<1>6. request' = [request EXCEPT ![w] = q]
  BY <1>1 DEF Reads
<1> HIDE DEF q
<1>7. request'[w] = q /\ \A n \in Boots \cup Changes : n # w => request'[n] = request[n]
  BY <1>2, <1>3, <1>5, <1>6, OneRequest
<1>71. q.epoch <= epoch' /\ (owed' = {} => q.seen >= answered')
  BY <1>2, <1>41 DEF WorkspaceTypes, NothingStale
<1>72. ASSUME NEW n \in Boots, request'[n].pc \in {"warm"} \cup Invalidating
       PROVE  Stands(request[n])'
  <2>1. n = w \/ request'[n] = request[n]
    BY <1>7
  <2>2. CASE n = w
    BY <1>7, <1>71, <2>2 DEF Stands
  <2>3. CASE request'[n] = request[n]
    BY <1>2, <1>4, <1>72, <2>3 DEF NothingStale, Stands
  <2> QED
    BY <2>1, <2>2, <2>3
<1>73. answered' <= record'
  BY <1>2 DEF NothingStale, WorkspaceTypes
<1>8. NothingStale'
  BY <1>2, <1>4, <1>72, <1>73 DEF NothingStale, Stands
<1>9. /\ record' \in Nat /\ answered' \in Nat /\ epoch' \in Nat /\ workspace' \in Maybe(Workspace)
      /\ flight' \in Maybe(Flight) /\ pendingCache' \in Maybe(Nat)
  BY <1>2 DEF WorkspaceTypes
<1>10. WorkspaceInv'
  <2> HIDE DEF WorkspaceAssumption
  <2> QED
    BY <1>2, <1>3, <1>5, <1>6, <1>8, <1>9, ChangerStep
<1> QED
  BY <1>2, <1>10

LEMMA WarmStepKeeps ==
    ASSUME WorkspaceAssumption, WorkspaceInv, NEW w \in Boots, WarmSession(w)
    PROVE  WorkspaceInv' /\ caches' = caches
<1> DEFINE q == [pc |-> "done"]
<1>1. /\ WorkspaceTypes /\ request[w].pc = "warm" /\ DropExpired
      /\ request' = [request EXCEPT ![w] = q]
      /\ UNCHANGED <<record, pendingCache, caches, listing, epoch, owed, answered>>
  BY DEF WarmSession, WorkspaceInv
<1>2. q \in BootRequest /\ q.pc = "done" /\ w \notin Changes
  BY DEF BootRequest, WorkspaceAssumption
<1>3. /\ request[w] \in BootRequest /\ Stands(request[w])
      /\ request[w].seen \in Nat /\ request[w].epoch \in Nat
  <2>1. request[w] \in BootRequest /\ Stands(request[w])
    BY <1>1 DEF WorkspaceTypes, WorkspaceInv, NothingStale
  <2> QED
    BY <1>1, <2>1 DEF BootRequest, Invalidating
<1>4. flight' \in Maybe(Flight) /\ (flight' # Nobody /\ flight'.pc # "fetch" => Stands(flight'))
  <2>1. CASE UNCHANGED flight
    BY <2>1 DEF WorkspaceInv, WorkspaceTypes, NothingStale
  <2> DEFINE start == [pc |-> "build", waiters |-> {}, seen |-> request[w].seen,
                       epoch |-> request[w].epoch]
  <2>2. CASE DoChan({}, start)
    <3>1. start \in [pc : {"build"}, waiters : SUBSET Serves, seen : Nat, epoch : Nat]
      BY <1>3
    <3>2. start \in Flight
      BY <3>1 DEF Flight
    <3>3. start.epoch = request[w].epoch /\ start.seen = request[w].seen
      OBVIOUS
    <3> HIDE DEF start
    <3>4. Stands(start)
      BY <1>3, <3>3 DEF Stands
    <3> QED
      BY <2>2, <3>2, <3>4, DoChanKeeps
  <2> QED
    BY <2>1, <2>2 DEF WarmSession
<1>5. workspace' \in Maybe(Workspace) /\ (workspace' # Nobody => Stands(workspace'))
  BY <1>1, DropKeeps
<1> HIDE DEF q
<1>6. request'[w] = q /\ \A n \in Boots \cup Changes : n # w => request'[n] = request[n]
  BY <1>1, <1>2, OneRequest
<1>7. NothingStale'
  BY <1>1, <1>2, <1>4, <1>5, <1>6 DEF WorkspaceInv, NothingStale, Stands, Invalidating
<1>8. record' \in Nat /\ answered' \in Nat /\ epoch' \in Nat /\ pendingCache' \in Maybe(Nat)
  BY <1>1 DEF WorkspaceTypes
<1>9. WorkspaceInv'
  <2> HIDE DEF WorkspaceAssumption
  <2> QED
    BY <1>1, <1>2, <1>4, <1>5, <1>7, <1>8, ChangerStep
<1> QED
  BY <1>1, <1>9

LEMMA OnTheWay ==
    ASSUME WorkspaceAssumption, WorkspaceTypes, NEW m \in Boots \cup Changes,
           request[m].pc \in Invalidating, NEW pc \in Invalidating, NEW c \in Maybe(Nat)
    PROVE  /\ request[m].cache \in Maybe(Nat)
           /\ LET n == [request[m] EXCEPT !.pc = pc] IN
              /\ n.pc = pc /\ n.cache = request[m].cache
              /\ m \in Boots => n \in BootRequest /\ Same(n, request[m])
              /\ m \in Changes => n \in ChangeRequest
           /\ LET n == [request[m] EXCEPT !.pc = pc, !.cache = c] IN
              /\ n.pc = pc /\ n.cache = c
              /\ m \in Boots => n \in BootRequest /\ Same(n, request[m])
              /\ m \in Changes => n \in ChangeRequest
<1> DEFINE q == request[m]
<1>1. CASE m \in Boots
  <2>1. q \in BootRequest /\ m \notin Changes
    BY <1>1 DEF WorkspaceTypes, WorkspaceAssumption
  <2>2. pc \in {"warm"} \cup Invalidating /\ q.pc \in {"warm"} \cup Invalidating
    OBVIOUS
  <2> HIDE DEF q
  <2>3. /\ q.cache \in Maybe(Nat)
        /\ At(q, pc) \in BootRequest /\ Same(At(q, pc), q)
        /\ At(q, pc).pc = pc /\ At(q, pc).cache = q.cache
        /\ With(q, pc, c) \in BootRequest /\ Same(With(q, pc, c), q)
        /\ With(q, pc, c).pc = pc /\ With(q, pc, c).cache = c
    BY <2>1, <2>2, BootOnTheWay
  <2> QED
    BY <2>1, <2>3 DEF At, With, q
<1>2. CASE m \in Changes
  <2>1. q \in ChangeRequest /\ q.pc \in Invalidating /\ m \notin Boots
    BY <1>2 DEF WorkspaceTypes, WorkspaceAssumption
  <2> HIDE DEF q
  <2>2. /\ q.cache \in Maybe(Nat)
        /\ At(q, pc) \in ChangeRequest /\ At(q, pc).pc = pc /\ At(q, pc).cache = q.cache
        /\ With(q, pc, c) \in ChangeRequest /\ With(q, pc, c).pc = pc
        /\ With(q, pc, c).cache = c
    BY <2>1, ChangeOnTheWay
  <2> QED
    BY <2>1, <2>2 DEF At, With, q
<1> QED
  BY <1>1, <1>2

LEMMA Leaves ==
    ASSUME WorkspaceAssumption, WorkspaceTypes, NEW m \in Boots \cup Changes,
           request[m].pc \in Invalidating
    PROVE  LET n == Invalidated(m) IN
           /\ m \in Boots => n \in BootRequest /\ Same(n, request[m])
           /\ m \in Changes => n \in ChangeRequest
<1>1. CASE m \in Boots
  <2> DEFINE q == request[m]
             n == At(q, "warm")
  <2>1. q \in BootRequest /\ m \notin Changes
    BY <1>1 DEF WorkspaceTypes, WorkspaceAssumption
  <2>2. Invalidated(m) = n
    BY <1>1 DEF Invalidated, At
  <2>3. /\ "warm" \in {"warm"} \cup Invalidating /\ q.pc \in {"warm"} \cup Invalidating
        /\ Nobody \in Maybe(Nat)
    BY DEF Maybe
  <2> HIDE DEF q
  <2>4. n \in BootRequest /\ n.seen = q.seen /\ n.epoch = q.epoch
    BY <2>1, <2>3, BootOnTheWay DEF Same
  <2> HIDE DEF n
  <2> QED
    BY <2>1, <2>2, <2>4 DEF Same, q
<1>2. CASE m \in Changes
  <2>1. Invalidated(m) = [pc |-> "done"] /\ m \notin Boots
    BY <1>2 DEF Invalidated, WorkspaceAssumption
  <2>2. Invalidated(m) \in ChangeRequest
    BY <2>1 DEF ChangeRequest
  <2> QED
    BY <2>1, <2>2
<1> QED
  BY <1>1, <1>2

(* A step of m in which nothing is read anew leaves nothing stale.            *)
LEMMA NothingNew ==
    ASSUME WorkspaceInv, NEW m \in Boots \cup Changes, NEW q,
           m \in Boots => q \in BootRequest /\ Same(q, request[m]) /\ request[m].pc \in Invalidating,
           m \in Changes => q \in ChangeRequest, request' = [request EXCEPT ![m] = q],
           UNCHANGED <<record, workspace, flight, epoch, owed, answered>>
    PROVE  NothingStale'
<1>1. WorkspaceTypes /\ NothingStale
  BY DEF WorkspaceInv
<1>2. request'[m] = q /\ \A n \in Boots \cup Changes : n # m => request'[n] = request[n]
  BY <1>1, OneRequest
<1>3. ASSUME NEW w \in Boots, request'[w].pc \in {"warm"} \cup Invalidating
      PROVE  Stands(request[w])'
  <2>1. CASE w = m
    BY <1>1, <1>2, <2>1 DEF NothingStale, Stands, Same
  <2>2. CASE w # m
    BY <1>1, <1>2, <1>3, <2>2 DEF NothingStale, Stands
  <2> QED
    BY <2>1, <2>2
<1> QED
  BY <1>1, <1>3 DEF NothingStale, Stands

LEMMA InvalidateWorkspaceStep ==
    ASSUME WorkspaceAssumption, WorkspaceInv, NEW m \in Boots \cup Changes, InvalidateWorkspace(m)
    PROVE  WorkspaceInv' /\ caches' = caches
<1> DEFINE q == [request[m] EXCEPT !.pc = "forget"]
<1>1. /\ WorkspaceTypes /\ NothingStale /\ request[m].pc = "invalidate"
      /\ workspace' = Nobody /\ epoch' = epoch + 1
      /\ request' = [request EXCEPT ![m] = q]
      /\ UNCHANGED <<record, flight, pendingCache, caches, listing, answered>>
  BY DEF InvalidateWorkspace, WorkspaceInv
<1>2. /\ m \in Boots => q \in BootRequest /\ Same(q, request[m])
      /\ m \in Changes => q \in ChangeRequest
  <2> HIDE DEF WorkspaceAssumption
  <2>1. request[m].pc \in Invalidating /\ "forget" \in Invalidating /\ Nobody \in Maybe(Nat)
    BY <1>1 DEF Invalidating, Maybe
  <2> QED
    BY <1>1, <2>1, OnTheWay
<1> HIDE DEF q
<1>3. request'[m] = q /\ \A n \in Boots \cup Changes : n # m => request'[n] = request[n]
  BY <1>1, <1>2, OneRequest
<1>4. \A x : x.epoch \in Nat /\ Stands(x) => x.epoch <= epoch' /\ x.epoch # epoch'
  BY <1>1 DEF Stands, WorkspaceTypes
<1>5. ASSUME NEW w \in Boots, request'[w].pc \in {"warm"} \cup Invalidating
      PROVE  Stands(request[w])'
  <2>1. request'[w].epoch = request[w].epoch
    BY <1>2, <1>3 DEF Same
  <2>2. request[w].pc \in {"warm"} \cup Invalidating
    BY <1>1, <1>3, <1>5 DEF Invalidating
  <2>3. Stands(request[w]) /\ request[w].epoch \in Nat
    <3>1. request[w] \in BootRequest
      BY <1>1 DEF WorkspaceTypes
    <3> QED
      BY <1>1, <2>2, <3>1 DEF NothingStale, BootRequest, Invalidating
  <2> QED
    BY <1>4, <2>1, <2>3 DEF Stands
<1>6. flight # Nobody /\ flight.pc # "fetch" => Stands(flight)'
  <2> SUFFICES ASSUME flight # Nobody, flight.pc # "fetch" PROVE Stands(flight)'
    OBVIOUS
  <2>1. Stands(flight) /\ flight.epoch \in Nat
    BY <1>1, FlightFields DEF NothingStale, WorkspaceTypes, Maybe
  <2> QED
    BY <1>1, <1>4, <2>1 DEF Stands
<1>7. NothingStale'
  BY <1>1, <1>5, <1>6 DEF NothingStale
<1>8. /\ record' \in Nat /\ answered' \in Nat /\ epoch' \in Nat /\ workspace' \in Maybe(Workspace)
      /\ flight' \in Maybe(Flight) /\ pendingCache' \in Maybe(Nat)
  BY <1>1 DEF WorkspaceTypes, Maybe
<1>9. WorkspaceInv'
  <2> HIDE DEF WorkspaceAssumption
  <2> QED
    BY <1>1, <1>2, <1>7, <1>8, ChangerStep
<1> QED
  BY <1>1, <1>9

LEMMA ForgetStep ==
    ASSUME WorkspaceAssumption, WorkspaceInv, NEW m \in Boots \cup Changes, ForgetPendingCache(m)
    PROVE  WorkspaceInv' /\ caches' = caches
<1>1. /\ WorkspaceTypes /\ request[m].pc = "forget" /\ request[m].pc \in Invalidating
      /\ UNCHANGED <<record, workspace, flight, caches, listing, epoch, owed, answered>>
      /\ pendingCache' = Nobody
  BY DEF ForgetPendingCache, WorkspaceInv, Invalidating
<1> DEFINE q == IF pendingCache = Nobody THEN Invalidated(m)
                ELSE [request[m] EXCEPT !.pc = "stop", !.cache = pendingCache]
<1>2. request' = [request EXCEPT ![m] = q]
  BY DEF ForgetPendingCache
<1>3. /\ m \in Boots => q \in BootRequest /\ Same(q, request[m])
      /\ m \in Changes => q \in ChangeRequest
  <2> HIDE DEF WorkspaceAssumption
  <2>1. pendingCache \in Maybe(Nat) /\ "stop" \in Invalidating
    BY <1>1 DEF WorkspaceTypes, Invalidating
  <2> QED
    BY <1>1, <2>1, OnTheWay, Leaves
<1> HIDE DEF q
<1>4. NothingStale'
  BY <1>1, <1>2, <1>3, NothingNew
<1>5. /\ record' \in Nat /\ answered' \in Nat /\ epoch' \in Nat /\ workspace' \in Maybe(Workspace)
      /\ flight' \in Maybe(Flight) /\ pendingCache' \in Maybe(Nat)
  BY <1>1 DEF WorkspaceTypes, Maybe
<1>6. WorkspaceInv'
  <2> HIDE DEF WorkspaceAssumption
  <2> QED
    BY <1>1, <1>2, <1>3, <1>4, <1>5, ChangerStep
<1> QED
  BY <1>1, <1>6

(* Stop leaves a refresh under way to end, and waits for it.                  *)
LEMMA StopCacheStep ==
    ASSUME WorkspaceAssumption, WorkspaceInv, NEW m \in Boots \cup Changes, StopCache(m)
    PROVE  /\ WorkspaceInv' /\ DOMAIN caches' = DOMAIN caches
           /\ \A i \in DOMAIN caches : caches'[i].items = caches[i].items
<1> DEFINE q == [request[m] EXCEPT !.pc = "stopping"]
           h == request[m].cache
           d == [caches[h] EXCEPT !.stopped = TRUE]
<1>1. /\ WorkspaceTypes /\ CachesInv /\ request[m].pc = "stop"
      /\ request' = [request EXCEPT ![m] = q] /\ caches' = [caches EXCEPT ![h] = d]
      /\ UNCHANGED <<record, workspace, flight, pendingCache, listing, epoch, owed, answered>>
  BY DEF StopCache, WorkspaceInv
<1>2. request[m].pc \in Invalidating /\ "stopping" \in Invalidating /\ Nobody \in Maybe(Nat)
  BY <1>1 DEF Invalidating, Maybe
<1>3. /\ q.pc = "stopping" /\ q.cache = h
      /\ m \in Boots => q \in BootRequest /\ Same(q, request[m])
      /\ m \in Changes => q \in ChangeRequest
  <2> HIDE DEF WorkspaceAssumption
  <2>1. \A pc \in Invalidating :
           LET n == [request[m] EXCEPT !.pc = pc] IN
           /\ n.pc = pc /\ n.cache = request[m].cache
           /\ m \in Boots => n \in BootRequest /\ Same(n, request[m])
           /\ m \in Changes => n \in ChangeRequest
    BY <1>1, <1>2, OnTheWay
  <2> QED
    BY <1>2, <2>1
<1> HIDE DEF q
<1>4. /\ DOMAIN request' = Requests /\ request'[m] = q
      /\ \A w \in Boots : request'[w] \in BootRequest
      /\ \A n \in Changes : request'[n] \in ChangeRequest
      /\ \A n \in Boots \cup Changes : n # m => request'[n] = request[n]
  BY <1>1, <1>3, OneRequest
<1>5. NothingStale'
  BY <1>1, <1>2, <1>3, NothingNew
<1>6. caches \in Seq(Cache) /\ \A i \in DOMAIN caches : caches[i] \in Cache /\ Settled(caches[i])
  BY <1>1, LenProperties DEF WorkspaceTypes, CachesInv
<1>7. h \in DOMAIN caches =>
         d \in Cache /\ Settled(d) /\ d.items = caches[h].items /\ d.inflight = caches[h].inflight
  BY <1>6, Flagging
<1> HIDE DEF d
<1>8. /\ DOMAIN caches' = DOMAIN caches
      /\ \A i \in DOMAIN caches : i # h => caches'[i] = caches[i]
      /\ h \in DOMAIN caches => caches'[h] = d
  BY <1>1
<1>9. caches' \in Seq(Cache)
  <2>1. CASE h \in DOMAIN caches
    BY <1>1, <1>6, <1>7, <2>1, ExceptSeq, LenProperties
  <2>2. CASE h \notin DOMAIN caches
    <3>1. caches' = caches
      BY <1>1, <1>6, <2>2
    <3> QED
      BY <1>6, <3>1
  <2> QED
    BY <2>1, <2>2
<1>10. WorkspaceTypes'
  BY <1>1, <1>4, <1>9 DEF WorkspaceTypes
<1>11. ASSUME NEW i \in DOMAIN caches PROVE Settled(caches[i])' /\ StoppedOrWaiting(i)'
  <2>1. CASE i = h
    <3>1. Settled(caches[i])'
      BY <1>1, <1>7, <1>8, <2>1 DEF Settled
    <3>2. StoppedOrWaiting(i)'
      BY <1>3, <1>4, <2>1 DEF StoppedOrWaiting
    <3> QED
      BY <3>1, <3>2
  <2>2. CASE i # h
    <3>1. Settled(caches[i]) /\ StoppedOrWaiting(i) /\ caches'[i] = caches[i]
      BY <1>1, <1>8, <2>2 DEF CachesInv
    <3>2. \A n \in Boots \cup Changes :
             request[n].pc = "stopping" => request'[n] = request[n]
      BY <1>1, <1>4
    <3> QED
      BY <1>1, <3>1, <3>2 DEF Settled, StoppedOrWaiting
  <2> QED
    BY <2>1, <2>2
<1>12. \A i \in DOMAIN caches : caches'[i].items = caches[i].items
  BY <1>7, <1>8
<1> QED
  BY <1>5, <1>8, <1>10, <1>11, <1>12 DEF WorkspaceInv, CachesInv

(* Stop returns when nothing runs, so no one need wait for it any longer.     *)
LEMMA StopReturnsStep ==
    ASSUME WorkspaceAssumption, WorkspaceInv, NEW m \in Boots \cup Changes, StopReturns(m)
    PROVE  WorkspaceInv' /\ caches' = caches
<1> DEFINE q == Invalidated(m)
           h == request[m].cache
<1>1. /\ WorkspaceTypes /\ CachesInv /\ request[m].pc = "stopping"
      /\ request' = [request EXCEPT ![m] = q] /\ \A k \in 1..2 : caches[h].runs[k] = Nobody
      /\ UNCHANGED <<record, workspace, flight, pendingCache, caches, listing, epoch, owed, answered>>
  BY DEF StopReturns, WorkspaceInv
<1>2. request[m].pc \in Invalidating
  BY <1>1 DEF Invalidating
<1>3. /\ m \in Boots => q \in BootRequest /\ Same(q, request[m])
      /\ m \in Changes => q \in ChangeRequest
  BY <1>1, <1>2, Leaves
<1> HIDE DEF q
<1>4. /\ DOMAIN request' = Requests
      /\ \A w \in Boots : request'[w] \in BootRequest
      /\ \A n \in Changes : request'[n] \in ChangeRequest
      /\ \A n \in Boots \cup Changes : n # m => request'[n] = request[n]
  BY <1>1, <1>3, OneRequest
<1>5. NothingStale'
  BY <1>1, <1>2, <1>3, NothingNew
<1>6. WorkspaceTypes'
  BY <1>1, <1>4 DEF WorkspaceTypes
<1>7. ASSUME NEW i \in DOMAIN caches PROVE Settled(caches[i])' /\ StoppedOrWaiting(i)'
  <2>1. Settled(caches[i]) /\ StoppedOrWaiting(i) /\ caches[i] \in Cache
    BY <1>1, LenProperties DEF CachesInv, WorkspaceTypes
  <2>2. Settled(caches[i])'
    BY <1>1, <2>1 DEF Settled
  <2>3. CASE i = h
    <3>1. caches[i].inflight = Nobody
      <4>1. caches[i].inflight \in Maybe({1, 2})
        BY <2>1, CacheFields
      <4> QED
        BY <1>1, <2>1, <2>3, <4>1 DEF Settled, Maybe
    <3> QED
      BY <1>1, <2>2, <3>1 DEF StoppedOrWaiting
  <2>4. CASE i # h
    BY <1>1, <1>4, <2>1, <2>2, <2>4 DEF StoppedOrWaiting
  <2> QED
    BY <2>3, <2>4
<1> QED
  BY <1>1, <1>5, <1>6, <1>7 DEF WorkspaceInv, CachesInv

LEMMA ReadConnectionStep ==
    ASSUME WorkspaceAssumption, WorkspaceInv, NEW m \in Changes, ReadConnection(m)
    PROVE  WorkspaceInv' /\ caches' = caches
<1> DEFINE q == [pc |-> "change", seen |-> record]
<1>1. /\ WorkspaceTypes /\ NothingStale /\ request[m].pc = "idle"
      /\ request' = [request EXCEPT ![m] = q]
      /\ UNCHANGED <<record, workspace, flight, pendingCache, caches, listing, epoch, owed, answered>>
  BY DEF ReadConnection, WorkspaceInv
<1>2. q \in ChangeRequest /\ m \notin Boots
  <2>1. q \in [pc : {"change"}, seen : Nat]
    BY <1>1 DEF WorkspaceTypes
  <2> QED
    BY <2>1 DEF ChangeRequest, WorkspaceAssumption
<1> HIDE DEF q
<1>3. \A w \in Boots : request'[w] = request[w]
  BY <1>1, <1>2, OneRequest
<1>4. NothingStale'
  BY <1>1, <1>3 DEF NothingStale, Stands
<1>5. /\ record' \in Nat /\ answered' \in Nat /\ epoch' \in Nat /\ workspace' \in Maybe(Workspace)
      /\ flight' \in Maybe(Flight) /\ pendingCache' \in Maybe(Nat)
  BY <1>1 DEF WorkspaceTypes
<1> HIDE DEF WorkspaceAssumption
<1> QED
  BY <1>1, <1>2, <1>4, <1>5, ChangerStep

(* A change that is answered is owed an invalidation; one that is not asks    *)
(* nothing of the workspace.                                                  *)
LEMMA ChangeConnectionStep ==
    ASSUME WorkspaceAssumption, WorkspaceInv, NEW m \in Changes, ChangeConnection(m)
    PROVE  WorkspaceInv' /\ caches' = caches
<1>1. /\ WorkspaceTypes /\ NothingStale /\ request[m].pc = "change"
      /\ UNCHANGED <<workspace, flight, pendingCache, caches, listing, epoch>>
      /\ m \notin Boots
  BY DEF ChangeConnection, WorkspaceInv, WorkspaceAssumption
<1>2. PICK q \in ChangeRequest : request' = [request EXCEPT ![m] = q]
  <2>1. [pc |-> "invalidate", cache |-> Nobody] \in [pc : Invalidating, cache : Maybe(Nat)]
    BY DEF Invalidating, Maybe
  <2>2. [pc |-> "invalidate", cache |-> Nobody] \in ChangeRequest
    BY <2>1 DEF ChangeRequest
  <2>3. [pc |-> "failed"] \in ChangeRequest
    BY DEF ChangeRequest
  <2> QED
    BY <2>2, <2>3 DEF ChangeConnection, Patch, Fail
<1>3. \A w \in Boots : request'[w] = request[w]
  BY <1>1, <1>2, OneRequest
<1>4. /\ record' \in Nat /\ answered' \in Nat /\ answered' <= record'
      /\ owed' # {} \/ UNCHANGED <<answered, owed>>
  BY <1>1 DEF ChangeConnection, Patch, WorkspaceTypes, NothingStale
<1>5. \A x : Stands(x) => x.epoch <= epoch' /\ (x.epoch = epoch' /\ owed' = {} => x.seen >= answered')
  BY <1>1, <1>4 DEF Stands
<1>6. NothingStale'
  BY <1>1, <1>3, <1>4, <1>5 DEF NothingStale, Stands
<1>7. /\ epoch' \in Nat /\ workspace' \in Maybe(Workspace)
      /\ flight' \in Maybe(Flight) /\ pendingCache' \in Maybe(Nat)
  BY <1>1 DEF WorkspaceTypes
<1> HIDE DEF WorkspaceAssumption
<1> QED
  BY <1>1, <1>2, <1>4, <1>6, <1>7, ChangerStep

-----------------------------------------------------------------------------
(* The theorems. *)

(* No step takes a cache's listing back.                                      *)
Kept == \A i \in DOMAIN caches :
            caches[i].items # Nobody => caches'[i].items >= caches[i].items

LEMMA MovedIsKept ==
    ASSUME WorkspaceTypes,
           \A i \in DOMAIN caches :
              \/ caches'[i].items = caches[i].items
              \/ Moves(caches[i], caches'[i])
    PROVE  Kept
<1>1. ASSUME NEW i \in DOMAIN caches, caches[i].items # Nobody
      PROVE  caches'[i].items >= caches[i].items
  <2>1. caches[i] \in Cache
    BY LenProperties DEF WorkspaceTypes
  <2>2. caches[i].items \in Nat
    BY <1>1, <2>1, CacheFields DEF Maybe
  <2>3. CASE Moves(caches[i], caches'[i])
    <3>1. /\ caches'[i] \in Cache /\ caches'[i].items # Nobody
          /\ caches[i].items <= caches'[i].items
      BY <1>1, <2>3 DEF Moves
    <3>2. caches'[i].items \in Nat
      BY <3>1, CacheFields DEF Maybe
    <3> QED
      BY <2>2, <3>1, <3>2
  <2> QED
    BY <2>2, <2>3
<1> QED
  BY <1>1 DEF Kept

LEMMA WorkspaceInitially ==
    ASSUME WorkspaceAssumption, WorkspaceInit PROVE WorkspaceInv
<1>1. \A m \in Requests : request[m] = [pc |-> "idle"]
  BY DEF WorkspaceInit
<1>2. [pc |-> "idle"] \in BootRequest /\ [pc |-> "idle"] \in ChangeRequest
  BY DEF BootRequest, ChangeRequest
<1>3. caches \in Seq(Cache) /\ DOMAIN caches = {}
  BY EmptySeq, LenProperties DEF WorkspaceInit
<1>4. WorkspaceTypes
  BY <1>1, <1>2, <1>3 DEF WorkspaceInit, WorkspaceTypes, Maybe, Requests
<1>5. NothingStale
  BY <1>1 DEF WorkspaceInit, NothingStale, Invalidating, Requests
<1> QED
  BY <1>3, <1>4, <1>5 DEF WorkspaceInv, CachesInv

LEMMA InvalidateStep ==
    ASSUME WorkspaceAssumption, WorkspaceInv, NEW m \in Boots \cup Changes, InvalidateConnection(m)
    PROVE  WorkspaceInv' /\ Kept
<1>1. WorkspaceTypes
  BY DEF WorkspaceInv
<1>2. caches' = caches => Kept
  BY <1>1, MovedIsKept
<1>3. CASE StopCache(m)
  <2>1. WorkspaceInv' /\ \A i \in DOMAIN caches : caches'[i].items = caches[i].items
    BY <1>3, StopCacheStep
  <2> QED
    BY <1>1, <2>1, MovedIsKept
<1> HIDE DEF WorkspaceAssumption
<1> QED
  BY <1>2, <1>3, InvalidateWorkspaceStep, ForgetStep, StopReturnsStep DEF InvalidateConnection

LEMMA WorkspaceStep ==
    ASSUME WorkspaceAssumption, WorkspaceInv, [WorkspaceNext]_wsVars
    PROVE  WorkspaceInv' /\ Kept
<1> HIDE DEF WorkspaceAssumption
<1>1. WorkspaceTypes
  BY DEF WorkspaceInv
<1>2. caches' = caches => Kept
  BY <1>1, MovedIsKept
<1>3. CachesMove => Kept
  <2>1. CachesMove => \A i \in DOMAIN caches : \/ caches'[i].items = caches[i].items
                                              \/ Moves(caches[i], caches'[i])
    BY DEF CachesMove
  <2> QED
    BY <1>1, <2>1, MovedIsKept
<1>4. CASE UNCHANGED wsVars
  BY <1>2, <1>4 DEF wsVars, WorkspaceInv, WorkspaceTypes, NothingStale, Stands, CachesInv,
                    Settled, StoppedOrWaiting
<1>5. CASE ListingChanges \/ Reconnect \/ ExpireWorkspace
  BY <1>2, <1>3, <1>5, ListingStep, ReconnectStep, ExpireStep
<1>6. CASE FlightStep
  <2>1. CASE getOrCreatePendingCache
    <3>1. WorkspaceInv' /\ \A i \in DOMAIN caches : caches'[i] = caches[i]
      BY <2>1, CreateStep
    <3> QED
      BY <1>1, <3>1, MovedIsKept
  <2> QED
    BY <1>2, <1>3, <1>6, <2>1, FetchStep, CacheWorkspaceStep DEF FlightStep
<1>7. ASSUME NEW r \in Serves, ResolveContext(r) \/ GetContext(r) \/ GiveUp(r)
      PROVE  WorkspaceInv' /\ Kept
  BY <1>2, <1>3, <1>7, ResolveStep, GetContextStep, GiveUpStep
<1>8. ASSUME NEW w \in Boots, Bootstrap(w) \/ WarmStep(w)
      PROVE  WorkspaceInv' /\ Kept
  BY <1>2, <1>8, BootstrapStep, WarmStepKeeps, InvalidateStep DEF WarmStep
<1>9. ASSUME NEW m \in Changes, ReadConnection(m) \/ ChangeStep(m)
      PROVE  WorkspaceInv' /\ Kept
  BY <1>2, <1>9, ReadConnectionStep, ChangeConnectionStep, InvalidateStep DEF ChangeStep
<1>10. ASSUME NEW i \in DOMAIN caches, StaleListing(i) \/ \E k \in 1..2 : RefreshStep(i, k)
       PROVE  WorkspaceInv' /\ Kept
  BY <1>3, <1>10, CacheStep
<1> QED
  BY <1>4, <1>5, <1>6, <1>7, <1>8, <1>9, <1>10 DEF WorkspaceNext

LEMMA WorkspaceInvariant ==
    ASSUME WorkspaceAssumption PROVE WorkspaceSpec => []WorkspaceInv
<1>1. WorkspaceInv /\ [WorkspaceNext]_wsVars => WorkspaceInv'
  BY WorkspaceStep
<1> QED
  BY <1>1, WorkspaceInitially, PTL DEF WorkspaceSpec

(* A cached workspace shows every change of the connection that the hosted    *)
(* server was told of, unless the invalidation that follows is to come or a   *)
(* resolve that it overtook has stored the workspace: however many requests   *)
(* share a resolve (singleflight), whatever a bootstrap warms the cache with, *)
(* and whichever answers of the auth service are lost on the way.             *)
THEOREM WorkspacesShowAnsweredChanges ==
    ASSUME WorkspaceAssumption PROVE WorkspaceSpec => []AnsweredChangesShow
<1>1. WorkspaceInv => AnsweredChangesShow
  BY DEF WorkspaceInv, NothingStale, Stands, AnsweredChangesShow
<1> QED
  BY <1>1, WorkspaceInvariant, PTL

(* When Stop of a pendingUpstreamCache has returned, nothing refreshes it,    *)
(* and no workspace that still holds it starts a refresh again.               *)
THEOREM StopEndsRefreshes ==
    ASSUME WorkspaceAssumption PROVE WorkspaceSpec => []StopIsFinal
<1>1. ASSUME WorkspaceInv PROVE StopIsFinal
  <2>1. ASSUME NEW i \in DOMAIN caches, caches[i].stopped,
               \A m \in Boots \cup Changes : request[m].pc = "stopping" => request[m].cache # i
        PROVE  \A k \in 1..2 : caches[i].runs[k] = Nobody
    <3>1. caches[i].inflight = Nobody /\ Settled(caches[i])
      BY <1>1, <2>1 DEF WorkspaceInv, CachesInv, StoppedOrWaiting
    <3> QED
      BY <3>1 DEF Settled, WorkspaceAssumption
  <2> QED
    BY <2>1 DEF StopIsFinal
<1> QED
  BY <1>1, WorkspaceInvariant, PTL

(* The listing of a cache is never replaced by an older one: refreshes of a   *)
(* cache do not overlap, whoever asks for them and however long they take.    *)
THEOREM PendingListingsMoveForward ==
    ASSUME WorkspaceAssumption PROVE WorkspaceSpec => ListingsMoveForward
<1>1. WorkspaceInv /\ [WorkspaceNext]_wsVars =>
         [\A i \in DOMAIN caches :
             caches[i].items # Nobody => caches'[i].items >= caches[i].items]_wsVars
  BY WorkspaceStep DEF Kept
<1> QED
  BY <1>1, WorkspaceInvariant, PTL DEF WorkspaceSpec, ListingsMoveForward

=============================================================================
