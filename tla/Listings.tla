------------------------------ MODULE Listings ------------------------------
(* Four caches of one slow read each, as the command line and the server      *)
(* build them:                                                                *)
(*   "ttl"       pendingItemsTTLCache of cmd/wl/cmd_review.go;                *)
(*   "locked"    the listings there that keep a mutex while they fetch;       *)
(*   "pending"   pendingItemsCache of cmd/wl/cmd_serve.go, refreshed in the   *)
(*               background;                                                  *)
(*   "endpoint"  CachedEndpoint of internal/api/scoreboard.go.                *)
(* The first and third share one fetch between callers (singleflight), the    *)
(* last does not.  A listing is the number of changes that it reflects.       *)
EXTENDS Integers, FiniteSets

CONSTANTS
    Requesters,    \* requests, one listing each
    Refreshers,    \* bound: background goroutines at a time
    NoListing,     \* nil, or an error
    FreshFor,      \* cacheTTL, interval
    MaxHub,        \* bound: changes to what is listed
    LastMoment     \* bound on the clock

ASSUME ListingAssumption ==
    FreshFor \in Nat /\ MaxHub \in Nat /\ LastMoment \in Nat /\ NoListing \notin Nat

VARIABLES
    cacheKind,
    hub,           \* changes to what is listed, so far
    moment,        \* the clock
    held, heldAt,  \* cached, cachedAt / refreshedAt
    flight,        \* the shared fetch, or that of who holds the mutex
    asking,        \* per requester
    background,    \* per background goroutine
    refreshing,    \* pendingItemsCache.refreshing
    stop,          \* "no", "closed" (the channel), "returned": Stop of
                   \* pendingItemsCache, or run of CachedEndpoint
    newest         \* ghost: the newest listing that anybody was given

listingVars == <<cacheKind, hub, moment, held, heldAt, flight, asking, background, refreshing,
                 stop, newest>>

NoFlight == [at |-> "none"]
Takeoff == [at |-> "fetching"]
Rest == [at |-> "rest"]

Shared == cacheKind \in {"ttl", "pending"}

\* The caches start cold; of the background ones a goroutine loads at once, and
\* another waits for the ticker.
ListingInit ==
    /\ cacheKind \in {"ttl", "locked", "pending", "endpoint"}
    /\ hub = 0 /\ moment = 0 /\ held = NoListing /\ heldAt = 0
    /\ flight = NoFlight
    /\ asking = [r \in Requesters |-> Rest]
    /\ \E warm \in Refreshers :
          background = [g \in Refreshers |->
                           IF g # warm THEN Rest
                           ELSE CASE cacheKind = "pending"  -> [at |-> "refresh", flag |-> FALSE]
                                  [] cacheKind = "endpoint" -> Takeoff
                                  [] OTHER                  -> Rest]
    /\ refreshing = FALSE /\ stop = "no" /\ newest = 0

Ages == /\ moment < LastMoment /\ moment' = moment + 1
        /\ UNCHANGED <<cacheKind, hub, held, heldAt, flight, asking, background, refreshing, stop, newest>>

HubChanges == /\ hub < MaxHub /\ hub' = hub + 1
              /\ UNCHANGED <<cacheKind, moment, held, heldAt, flight, asking, background, refreshing,
                             stop, newest>>

-----------------------------------------------------------------------------
(* Answers. *)

Settled(listing) ==
    newest' = IF listing # NoListing /\ listing > newest THEN listing ELSE newest

AnswerTo(r, listing) ==
    /\ asking' = [asking EXCEPT ![r] = [at |-> "answered", listing |-> listing, floor |-> @.floor,
                                        cold |-> @.cold]]
    /\ Settled(listing)

StepTo(r, at) == asking' = [asking EXCEPT ![r].at = at] /\ UNCHANGED newest

Asked(r) == /\ asking[r] = Rest
            /\ asking' = [asking EXCEPT ![r] = [at |-> "ask", floor |-> newest, cold |-> FALSE]]
            /\ UNCHANGED <<cacheKind, hub, moment, held, heldAt, flight, background, refreshing,
                           stop, newest>>

Aged == moment - heldAt >= FreshFor

-----------------------------------------------------------------------------
(* singleflight.Group and the function that it runs: read the upstream's      *)
(* listing, which takes its time, then store it.                              *)

Joined == IF flight = NoFlight THEN flight' = Takeoff ELSE UNCHANGED flight

FetchReads ==
    /\ flight.at = "fetching"
    /\ \E listing \in {hub, NoListing} : flight' = [at |-> "read", listing |-> listing]
    /\ UNCHANGED <<cacheKind, hub, moment, held, heldAt, asking, background, refreshing, stop, newest>>

Waiting == {r \in Requesters : asking[r].at = "joined"}

\* The function stores; the group then lets go of the flight and tells all.
FetchEnds ==
    /\ Shared /\ flight.at = "read" /\ flight' = NoFlight
    /\ IF flight.listing = NoListing THEN UNCHANGED <<held, heldAt>>
       ELSE held' = flight.listing /\ heldAt' = moment
    /\ asking' = [r \in Requesters |->
                     IF r \notin Waiting THEN asking[r]
                     ELSE [at |-> "answered", listing |-> flight.listing,
                           floor |-> asking[r].floor, cold |-> asking[r].cold]]
    /\ IF Waiting = {} THEN UNCHANGED newest ELSE Settled(flight.listing)
    /\ background' = [g \in Refreshers |-> IF background[g].at = "joined"
                                           THEN [background[g] EXCEPT !.at = "over"] ELSE background[g]]
    /\ UNCHANGED <<cacheKind, hub, moment, refreshing, stop>>

Joining(r) == StepTo(r, "joined") /\ Joined

\* The caller's context ends; the fetch goes on (ctxutil.Detached).
GivesUp(r) ==
    /\ asking[r].at = "joined" /\ AnswerTo(r, NoListing)
    /\ UNCHANGED <<cacheKind, hub, moment, held, heldAt, flight, background, refreshing, stop>>

(* pendingItemsTTLCache.GetContext: looks, and may join a fetch later. *)
TTLGet(r) ==
    /\ cacheKind = "ttl"
    /\ \/ /\ asking[r].at = "ask"
          /\ IF held # NoListing /\ ~Aged THEN AnswerTo(r, held) ELSE StepTo(r, "join")
          /\ UNCHANGED flight
       \/ asking[r].at = "join" /\ Joining(r)
    /\ UNCHANGED <<cacheKind, hub, moment, held, heldAt, background, refreshing, stop>>

(* dolthubListPendingItems, ghListPendingItems: look and fetch under a mutex. *)
LockedGet(r) ==
    /\ cacheKind = "locked"
    /\ \/ /\ asking[r].at = "ask" /\ flight = NoFlight
          /\ IF held # NoListing /\ ~Aged THEN AnswerTo(r, held) /\ UNCHANGED flight
             ELSE StepTo(r, "fetch") /\ flight' = Takeoff
          /\ UNCHANGED <<held, heldAt>>
       \/ /\ asking[r].at = "fetch" /\ flight.at = "read" /\ flight' = NoFlight
          /\ AnswerTo(r, flight.listing)
          /\ IF flight.listing = NoListing THEN UNCHANGED <<held, heldAt>>
             ELSE held' = flight.listing /\ heldAt' = moment
    /\ UNCHANGED <<cacheKind, hub, moment, background, refreshing, stop>>

-----------------------------------------------------------------------------
(* pendingItemsCache. *)

(* Get and GetContext: what is held, however old; only Get answers at once    *)
(* when there is nothing.                                                     *)
PendingGet(r, context) ==
    /\ cacheKind = "pending"
    /\ \/ /\ asking[r].at = "ask"
          /\ IF held # NoListing /\ Aged /\ ~refreshing
             THEN /\ asking' = [asking EXCEPT ![r] = [at |-> "schedule", listing |-> held,
                                                      floor |-> @.floor, cold |-> FALSE]]
                  /\ UNCHANGED newest
             ELSE IF held # NoListing \/ ~context THEN AnswerTo(r, held)
             ELSE StepTo(r, "join")
          /\ UNCHANGED flight
       \/ asking[r].at = "join" /\ Joining(r)
    /\ UNCHANGED <<cacheKind, hub, moment, held, heldAt, background, refreshing, stop>>

\* Faulty: whether the cache was stopped is not asked under the mutex.
MayScheduleAnyTime == ~refreshing

MaySchedule == ~refreshing /\ stop = "no"

Spawned == IF MaySchedule
           THEN /\ refreshing' = TRUE
                /\ \E g \in Refreshers : /\ background[g] = Rest
                                         /\ background' = [background EXCEPT ![g] =
                                                              [at |-> "refresh", flag |-> TRUE]]
           ELSE UNCHANGED <<refreshing, background>>

(* scheduleRefresh, for a request, which answers what it had found before ... *)
ScheduleRefresh(r) ==
    /\ cacheKind = "pending" /\ asking[r].at = "schedule" /\ Spawned
    /\ AnswerTo(r, asking[r].listing)
    /\ UNCHANGED <<cacheKind, hub, moment, held, heldAt, flight, stop>>

(* ... and by the ticker, which may win the select although `stop` is closed. *)
TickerFires ==
    /\ cacheKind = "pending" /\ stop # "returned" /\ Spawned
    /\ UNCHANGED <<cacheKind, hub, moment, held, heldAt, flight, asking, stop, newest>>

\* refreshSync in a background goroutine, up to the deferred reset; a scheduled
\* one has a timeout that may be over before the fetch is.
BackgroundStep(g) ==
    /\ cacheKind = "pending"
    /\ \/ /\ background[g].at = "refresh" /\ Joined
          /\ background' = [background EXCEPT ![g].at = "joined"] /\ UNCHANGED refreshing
       \/ /\ background[g].at = "joined" /\ background[g].flag
          /\ background' = [background EXCEPT ![g].at = "over"] /\ UNCHANGED <<flight, refreshing>>
       \/ /\ background[g].at = "over" /\ background' = [background EXCEPT ![g] = Rest]
          /\ refreshing' = IF background[g].flag THEN FALSE ELSE refreshing
          /\ UNCHANGED flight
    /\ UNCHANGED <<cacheKind, hub, moment, held, heldAt, asking, stop, newest>>

(* Stop closes a channel.  That of pendingItemsCache then waits for every     *)
(* goroutine of its WaitGroup, in which the shared fetch is not; that of      *)
(* CachedEndpoint waits for nothing, and run returns when its select picks    *)
(* the channel, after more ticks perhaps.  The other two have no Stop.        *)
StopCache ==
    /\ cacheKind \in {"pending", "endpoint"}
    /\ \/ stop = "no" /\ stop' = "closed"
       \/ /\ stop = "closed" /\ \A g \in Refreshers : background[g] = Rest
          /\ stop' = "returned"
    /\ UNCHANGED <<cacheKind, hub, moment, held, heldAt, flight, asking, background, refreshing, newest>>

-----------------------------------------------------------------------------
(* CachedEndpoint. *)

(* refresh: whoever runs it reads, and then stores; an error stores nothing.  *)
EndpointRefresh(g) ==
    /\ cacheKind = "endpoint"
    /\ \/ /\ background[g].at = "fetching"
          /\ \E listing \in {hub, NoListing} :
                background' = [background EXCEPT ![g] = [at |-> "read", listing |-> listing]]
          /\ UNCHANGED held
       \/ /\ background[g].at = "read" /\ background' = [background EXCEPT ![g] = Rest]
          /\ held' = IF background[g].listing = NoListing THEN held ELSE background[g].listing
    /\ UNCHANGED <<cacheKind, hub, moment, heldAt, flight, asking, refreshing, stop, newest>>

\* Faulty: every tick starts a goroutine.
EndpointTicksBeside ==
    /\ cacheKind = "endpoint"
    /\ \E g \in Refreshers : background[g] = Rest /\ background' = [background EXCEPT ![g] = Takeoff]
    /\ UNCHANGED <<cacheKind, hub, moment, held, heldAt, flight, asking, refreshing, stop, newest>>

\* The ticker of run, which its own refresh keeps waiting.
EndpointTicks ==
    /\ cacheKind = "endpoint" /\ stop # "returned" /\ \A g \in Refreshers : background[g] = Rest
    /\ \E g \in Refreshers : background' = [background EXCEPT ![g] = Takeoff]
    /\ UNCHANGED <<cacheKind, hub, moment, held, heldAt, flight, asking, refreshing, stop, newest>>

(* Get: a cold cache is loaded by every request that finds it so.             *)
EndpointGet(r) ==
    /\ cacheKind = "endpoint"
    /\ \/ /\ asking[r].at = "ask"
          /\ IF held # NoListing THEN AnswerTo(r, held)
             ELSE /\ asking' = [asking EXCEPT ![r].at = "load", ![r].cold = TRUE]
                  /\ UNCHANGED newest
          /\ UNCHANGED held
       \/ /\ asking[r].at = "load"
          /\ \E listing \in {hub, NoListing} :
                asking' = [asking EXCEPT ![r] = [at |-> "loaded", listing |-> listing,
                                                 floor |-> @.floor, cold |-> TRUE]]
          /\ UNCHANGED <<held, newest>>
       \/ /\ asking[r].at = "loaded" /\ StepTo(r, "again")
          /\ held' = IF asking[r].listing = NoListing THEN held ELSE asking[r].listing
       \/ asking[r].at = "again" /\ AnswerTo(r, held) /\ UNCHANGED held
    /\ UNCHANGED <<cacheKind, hub, moment, heldAt, flight, background, refreshing, stop>>

ListingNext ==
    \/ Ages \/ HubChanges \/ FetchReads \/ FetchEnds
    \/ \E r \in Requesters :
          \/ Asked(r) \/ GivesUp(r) \/ TTLGet(r) \/ LockedGet(r) \/ ScheduleRefresh(r) \/ EndpointGet(r)
          \/ \E context \in BOOLEAN : PendingGet(r, context)
    \/ TickerFires \/ StopCache \/ EndpointTicks
    \/ \E g \in Refreshers : BackgroundStep(g) \/ EndpointRefresh(g)

ListingSpec == ListingInit /\ [][ListingNext]_listingVars

-----------------------------------------------------------------------------
(* Listings move forward: a request that begins after another was answered is *)
(* not given an older listing, although fetches take their time, callers give *)
(* up, fetches fail and what is held expires.  Of CachedEndpoint this is so   *)
(* only if no request has found it cold: such a request fetches beside the    *)
(* background goroutine, and whoever stores last wins.                        *)
AnswersMoveForward ==
    \A r \in Requesters :
        asking[r].at = "answered" /\ asking[r].listing # NoListing =>
            \/ asking[r].listing >= asking[r].floor
            \/ cacheKind = "endpoint" /\ \E q \in Requesters : asking[q] # Rest /\ asking[q].cold

(* When pendingItemsCache.Stop has returned, no pre-warming or scheduled      *)
(* refresh runs or will: a request or a tick that is about to schedule one    *)
(* either is waited for or finds the cache stopped (cmd_serve.go:641-648,     *)
(* 668-682).  The fetch that such a refresh had joined, which is in no        *)
(* WaitGroup, or a request's own may still run and store.  Of CachedEndpoint  *)
(* the same is said from the return of run on, not of Stop.                   *)
StoppedIsQuiet ==
    stop = "returned" => \A g \in Refreshers : background[g] = Rest
=============================================================================
