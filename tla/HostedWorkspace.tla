-------------------------- MODULE HostedWorkspace --------------------------
(***************************************************************************)
(* The hosted server's workspaces (internal/hosted): a connection's        *)
(* workspace is built from what the auth service says of it, by one        *)
(* goroutine for all who wait (singleflight), and cached for a minute; its *)
(* pending items come from a cache that refreshes in the background and is *)
(* stopped when the connection changes.                                    *)
(*                                                                         *)
(* What the auth service stores is reduced to its record version, and the  *)
(* pending items of the upstream to the number of changes they reflect.    *)
(***************************************************************************)
EXTENDS Integers, FiniteSets, Sequences

CONSTANTS
    Serves,         \* requests served from a workspace
    Boots,          \* bootstrap requests, which warm the cache
    Changes,        \* joins, leaves and saved settings
    Nobody,         \* nothing cached, nothing in flight
    MaxListing,     \* bound: changes of the upstream's pending items
    MaxRecord,      \* bound: no reconnect makes a record version above it
    MaxCaches       \* bound: pending caches created

(* A refresh under way, for those who wait, and then what it has listed.    *)
Refresh ==
    [pc : {"read"}, waiters : SUBSET Serves]
    \cup [pc : {"store", "close"}, waiters : SUBSET Serves, result : Nat \cup {Nobody}]

ASSUME WorkspaceAssumption ==
    /\ MaxListing \in Nat /\ MaxRecord \in Nat /\ MaxCaches \in Nat \ {0}
    /\ Nobody \notin Nat /\ Nobody \notin Refresh
    /\ Serves \cap (Boots \cup Changes) = {} /\ Boots \cap Changes = {}

VARIABLES
    record,         \* the connection's record version at the auth service
    workspace,      \* AuthServiceWorkspaceResolver.cache: one workspace, or Nobody
    flight,         \* the resolve in flight, or Nobody
    pendingCache,   \* the connection's entry of pendingCache: an index, or Nobody
    caches,         \* every pendingUpstreamCache made so far
    listing,        \* version of the upstream's pending items
    request,        \* progress of each request
    epoch,          \* history: how often the workspace has been invalidated
    owed,           \* history: requests that are to invalidate the workspace
    answered        \* history: newest record version that such a request was told of

wsVars == <<record, workspace, flight, pendingCache, caches, listing, request, epoch, owed, answered>>

Requests == Serves \cup Boots \cup Changes

WorkspaceInit ==
    /\ record = 1
    /\ workspace = Nobody
    /\ flight = Nobody
    /\ pendingCache = Nobody
    /\ caches = <<>>
    /\ listing = 0
    /\ request = [r \in Requests |-> [pc |-> "idle"]]
    /\ epoch = 0
    /\ owed = {}
    /\ answered = record

(* Somebody's pull request changes what is pending upstream.                *)
ListingChanges ==
    /\ listing < MaxListing
    /\ listing' = listing + 1
    /\ UNCHANGED <<record, workspace, flight, pendingCache, caches, request, epoch, owed, answered>>

(* A connect token redeemed again updates the connection, which the hosted  *)
(* server learns of when the browser calls connect, or never.               *)
Reconnect ==
    /\ record < MaxRecord
    /\ record' = record + 1
    /\ UNCHANGED <<workspace, flight, pendingCache, caches, listing, request,
                   epoch, owed, answered>>

(***************************************************************************)
(* Resolving a workspace.                                                  *)
(***************************************************************************)
Usable == workspace # Nobody /\ ~workspace.expired

(* cachedWorkspace drops an entry it finds expired.                         *)
DropExpired == workspace' = IF Usable THEN workspace ELSE Nobody

(* DoChan: join the resolve in flight or start one.                         *)
DoChan(waiters, start) ==
    flight' = IF flight = Nobody THEN [start EXCEPT !.waiters = waiters]
                                 ELSE [flight EXCEPT !.waiters = @ \cup waiters]

ResolveContext(r) ==
    /\ request[r].pc = "idle"
    /\ DropExpired
    /\ IF Usable
       THEN /\ request' = [request EXCEPT ![r] = [pc |-> "list", cache |-> workspace.cache]]
            /\ UNCHANGED flight
       ELSE /\ request' = [request EXCEPT ![r] = [pc |-> "wait"]]
            /\ DoChan({r}, [pc |-> "fetch", waiters |-> {}])
    /\ UNCHANGED <<record, pendingCache, caches, listing, epoch, owed, answered>>

LeftBy(runs, r) ==
    [k \in 1..2 |-> IF runs[k] = Nobody THEN Nobody ELSE [runs[k] EXCEPT !.waiters = @ \ {r}]]

(* The request's context ends; the resolve goes on for the others.          *)
GiveUp(r) ==
    /\ request[r].pc \in {"wait", "refresh"}
    /\ request' = [request EXCEPT ![r] = [pc |-> "failed"]]
    /\ flight' = IF flight = Nobody THEN Nobody ELSE [flight EXCEPT !.waiters = @ \ {r}]
    /\ caches' = [i \in DOMAIN caches |-> [caches[i] EXCEPT !.runs = LeftBy(@, r)]]
    /\ UNCHANGED <<record, workspace, pendingCache, listing, epoch, owed, answered>>

(* Bootstrap reads the connection and later warms the cache with it, in a   *)
(* goroutine of its own whose result nobody waits for. Connect does the     *)
(* same after it has registered the fork and invalidated the connection.    *)
Reads(w, pc) ==
    request' = [request EXCEPT ![w] = [pc |-> pc, seen |-> record, epoch |-> epoch,
                                        cache |-> Nobody]]

Bootstrap(w) ==
    /\ request[w].pc = "idle"
    /\ \/ Reads(w, "warm") /\ UNCHANGED <<owed, answered>>
       \/ Reads(w, "invalidate") /\ owed' = owed \cup {w} /\ answered' = record
    /\ UNCHANGED <<record, workspace, flight, pendingCache, caches, listing, epoch>>

WarmSession(w) ==
    /\ request[w].pc = "warm"
    /\ DropExpired
    /\ IF Usable THEN UNCHANGED flight
       ELSE DoChan({}, [pc |-> "build", waiters |-> {}, seen |-> request[w].seen,
                        epoch |-> request[w].epoch])
    /\ request' = [request EXCEPT ![w] = [pc |-> "done"]]
    /\ UNCHANGED <<record, pendingCache, caches, listing, epoch, owed, answered>>

(* resolveMiss reads the connection, or fails for everybody who waits.      *)
FetchConnection ==
    /\ flight # Nobody /\ flight.pc = "fetch"
    /\ \/ /\ flight' = [pc |-> "build", waiters |-> flight.waiters,
                        seen |-> record, epoch |-> epoch]
          /\ UNCHANGED request
       \/ /\ flight' = Nobody
          /\ request' = [r \in Requests |->
                            IF r \in flight.waiters THEN [pc |-> "failed"] ELSE request[r]]
    /\ UNCHANGED <<record, workspace, pendingCache, caches, listing, epoch, owed, answered>>

NewRefresh(waiters) == [pc |-> "read", waiters |-> waiters]

(* A new cache starts a refresh at once, for which nobody waits.            *)
NewCache == [items |-> Nobody, fresh |-> FALSE, stopped |-> FALSE,
             inflight |-> 1, runs |-> <<NewRefresh({}), Nobody>>]

getOrCreatePendingCache ==
    /\ flight # Nobody /\ flight.pc = "build"
    /\ IF pendingCache # Nobody
       THEN /\ flight' = [pc |-> "store", waiters |-> flight.waiters, seen |-> flight.seen,
                          epoch |-> flight.epoch, cache |-> pendingCache]
            /\ UNCHANGED <<pendingCache, caches>>
       ELSE /\ Len(caches) < MaxCaches
            /\ caches' = Append(caches, NewCache)
            /\ pendingCache' = Len(caches')
            /\ flight' = [pc |-> "store", waiters |-> flight.waiters, seen |-> flight.seen,
                          epoch |-> flight.epoch, cache |-> Len(caches')]
    /\ UNCHANGED <<record, workspace, listing, request, epoch, owed, answered>>

(* The resolve ends by caching its workspace and hands it to who waits.     *)
cacheWorkspace ==
    /\ flight # Nobody /\ flight.pc = "store"
    /\ workspace' = [seen |-> flight.seen, epoch |-> flight.epoch,
                     cache |-> flight.cache, expired |-> FALSE]
    /\ flight' = Nobody
    /\ request' = [r \in Requests |->
                      IF r \in flight.waiters THEN [pc |-> "list", cache |-> flight.cache]
                      ELSE request[r]]
    /\ UNCHANGED <<record, pendingCache, caches, listing, epoch, owed, answered>>

(* A minute has passed since the workspace was cached.                      *)
ExpireWorkspace ==
    /\ Usable
    /\ workspace' = [workspace EXCEPT !.expired = TRUE]
    /\ UNCHANGED <<record, flight, pendingCache, caches, listing, request, epoch, owed, answered>>

(***************************************************************************)
(* The pending items.                                                      *)
(***************************************************************************)
Answered(answer) == [pc |-> "done", answer |-> answer]

(* startRefresh: join the refresh in flight; a stopped cache gives what it  *)
(* has, another one starts a goroutine.                                     *)
JoinRefresh(r, i, k) ==
    /\ caches' = [caches EXCEPT ![i].runs[k].waiters = @ \cup {r}]
    /\ request' = [request EXCEPT ![r].pc = "refresh"]

NewRun(r, i) ==
    LET k == IF caches[i].runs[1] = Nobody THEN 1 ELSE 2
    IN  /\ caches[i].runs[k] = Nobody
        /\ caches' = [caches EXCEPT ![i].inflight = k, ![i].runs[k] = NewRefresh({r})]
        /\ request' = [request EXCEPT ![r].pc = "refresh"]

\* Faulty: does not look for a refresh under way.
RefreshAnyway(r, i) ==
    IF caches[i].stopped
    THEN request' = [request EXCEPT ![r] = Answered(caches[i].items)] /\ UNCHANGED caches
    ELSE NewRun(r, i)

\* Faulty: starts a refresh in a stopped cache.
RefreshStopped(r, i) ==
    IF caches[i].inflight # Nobody THEN JoinRefresh(r, i, caches[i].inflight)
                                   ELSE NewRun(r, i)

startRefresh(r, i) ==
    IF caches[i].inflight # Nobody THEN JoinRefresh(r, i, caches[i].inflight)
    ELSE IF caches[i].stopped
    THEN request' = [request EXCEPT ![r] = Answered(caches[i].items)] /\ UNCHANGED caches
    ELSE NewRun(r, i)

(* GetContext: what is cached when that is fresh, else a refresh.           *)
GetContext(r) ==
    LET i == request[r].cache
    IN  /\ request[r].pc = "list"
        /\ IF caches[i].items # Nobody /\ caches[i].fresh
           THEN request' = [request EXCEPT ![r] = Answered(caches[i].items)] /\ UNCHANGED caches
           ELSE startRefresh(r, i)
        /\ UNCHANGED <<record, workspace, flight, pendingCache, listing, epoch, owed, answered>>

Run(i, k, pc) == caches[i].runs[k] # Nobody /\ caches[i].runs[k].pc = pc

Runs(i, k, pc, result) ==
    [caches EXCEPT ![i].runs[k] = [pc |-> pc, waiters |-> @.waiters, result |-> result]]

(* refreshNow lists what is pending upstream, or fails ...                  *)
ListPendingWantedIDs(i, k) ==
    /\ Run(i, k, "read")
    /\ caches' \in {Runs(i, k, "store", listing), Runs(i, k, "close", Nobody)}
    /\ UNCHANGED <<record, workspace, flight, pendingCache, listing, request, epoch, owed, answered>>

(* ... and stores the list;                                                 *)
refreshNow(i, k) ==
    /\ Run(i, k, "store")
    /\ LET items == caches[i].runs[k].result
       IN  caches' = [Runs(i, k, "close", items) EXCEPT ![i].items = items, ![i].fresh = TRUE]
    /\ UNCHANGED <<record, workspace, flight, pendingCache, listing, request, epoch, owed, answered>>

Outcome(result) == IF result = Nobody THEN [pc |-> "failed"] ELSE Answered(result)

\* Faulty: an error returns before the channel is closed.
TellOnSuccess(run) ==
    [r \in Requests |-> IF r \in run.waiters /\ run.result # Nobody
                        THEN Outcome(run.result) ELSE request[r]]

Tell(run) ==
    [r \in Requests |-> IF r \in run.waiters THEN Outcome(run.result) ELSE request[r]]

(* runRefresh takes the refresh out of flight and closes its channel.       *)
runRefresh(i, k) ==
    /\ Run(i, k, "close")
    /\ request' = Tell(caches[i].runs[k])
    /\ caches' = [caches EXCEPT ![i].runs[k] = Nobody,
                                ![i].inflight = IF @ = k THEN Nobody ELSE @]
    /\ UNCHANGED <<record, workspace, flight, pendingCache, listing, epoch, owed, answered>>

(* The interval of the cache passes.                                        *)
StaleListing(i) ==
    /\ caches[i].fresh
    /\ caches' = [caches EXCEPT ![i].fresh = FALSE]
    /\ UNCHANGED <<record, workspace, flight, pendingCache, listing, request, epoch, owed, answered>>

(***************************************************************************)
(* Changing the connection: the handler reads its record version, patches  *)
(* it at the auth service and, told that it is done, invalidates what was  *)
(* built from it.                                                          *)
(***************************************************************************)
ReadConnection(m) ==
    /\ request[m].pc = "idle"
    /\ request' = [request EXCEPT ![m] = [pc |-> "change", seen |-> record]]
    /\ UNCHANGED <<record, workspace, flight, pendingCache, caches, listing, epoch, owed, answered>>

Fail(m) == request' = [request EXCEPT ![m] = [pc |-> "failed"]]

\* Faulty: leaves what was built from the connection as it was.
PatchOnly(m) ==
    /\ record = request[m].seen
    /\ record' = record + 1 /\ answered' = record + 1
    /\ request' = [request EXCEPT ![m] = [pc |-> "done"]]
    /\ UNCHANGED owed

(* The patch is committed and the handler told so, committed with its answer *)
(* lost, or not committed: another version, or a call that failed.           *)
Patch(m) ==
    \/ /\ record = request[m].seen
       /\ record' = record + 1 /\ answered' = record + 1
       /\ owed' = owed \cup {m}
       /\ request' = [request EXCEPT ![m] = [pc |-> "invalidate", cache |-> Nobody]]
    \/ /\ record = request[m].seen
       /\ record' = record + 1
       /\ Fail(m) /\ UNCHANGED <<owed, answered>>
    \/ Fail(m) /\ UNCHANGED <<record, owed, answered>>

ChangeConnection(m) ==
    /\ request[m].pc = "change"
    /\ Patch(m)
    /\ UNCHANGED <<workspace, flight, pendingCache, caches, listing, epoch>>

(* InvalidateConnection, in the end of a change or of a connect.            *)
InvalidateWorkspace(m) ==
    /\ request[m].pc = "invalidate"
    /\ workspace' = Nobody
    /\ epoch' = epoch + 1
    /\ owed' = owed \ {m}
    /\ request' = [request EXCEPT ![m].pc = "forget"]
    /\ UNCHANGED <<record, flight, pendingCache, caches, listing, answered>>

Invalidated(m) == IF m \in Boots THEN [request[m] EXCEPT !.pc = "warm"] ELSE [pc |-> "done"]

ForgetPendingCache(m) ==
    /\ request[m].pc = "forget"
    /\ request' = [request EXCEPT ![m] =
                      IF pendingCache = Nobody THEN Invalidated(m)
                      ELSE [@ EXCEPT !.pc = "stop", !.cache = pendingCache]]
    /\ pendingCache' = Nobody
    /\ UNCHANGED <<record, workspace, flight, caches, listing, epoch, owed, answered>>

StopCache(m) ==
    /\ request[m].pc = "stop"
    /\ caches' = [caches EXCEPT ![request[m].cache].stopped = TRUE]
    /\ request' = [request EXCEPT ![m].pc = "stopping"]
    /\ UNCHANGED <<record, workspace, flight, pendingCache, listing, epoch, owed, answered>>

(* Stop waits for the refresh under way.                                    *)
StopReturns(m) ==
    /\ request[m].pc = "stopping"
    /\ \A k \in 1..2 : caches[request[m].cache].runs[k] = Nobody
    /\ request' = [request EXCEPT ![m] = Invalidated(m)]
    /\ UNCHANGED <<record, workspace, flight, pendingCache, caches, listing, epoch, owed, answered>>

InvalidateConnection(m) ==
    InvalidateWorkspace(m) \/ ForgetPendingCache(m) \/ StopCache(m) \/ StopReturns(m)

ChangeStep(m) == ChangeConnection(m) \/ InvalidateConnection(m)

WarmStep(w) == WarmSession(w) \/ InvalidateConnection(w)

FlightStep == FetchConnection \/ getOrCreatePendingCache \/ cacheWorkspace

RefreshStep(i, k) ==
    ListPendingWantedIDs(i, k) \/ refreshNow(i, k) \/ runRefresh(i, k)

WorkspaceNext ==
    \/ ListingChanges \/ Reconnect \/ ExpireWorkspace \/ FlightStep
    \/ \E r \in Serves : ResolveContext(r) \/ GetContext(r) \/ GiveUp(r)
    \/ \E w \in Boots : Bootstrap(w) \/ WarmStep(w)
    \/ \E m \in Changes : ReadConnection(m) \/ ChangeStep(m)
    \/ \E i \in DOMAIN caches : StaleListing(i) \/ \E k \in 1..2 : RefreshStep(i, k)

WorkspaceSpec == WorkspaceInit /\ [][WorkspaceNext]_wsVars

(* Goroutines that can run do, and calls of the auth service and of DoltHub *)
(* end (resolveMissTimeout, pendingRefreshTimeout).                         *)
WorkspaceFairness ==
    /\ WF_wsVars(FlightStep)
    /\ \A r \in Serves : WF_wsVars(GetContext(r))
    /\ \A w \in Boots : WF_wsVars(WarmStep(w))
    /\ \A m \in Changes : WF_wsVars(ChangeStep(m))
    /\ \A i \in 1..MaxCaches, k \in 1..2 : WF_wsVars(i \in DOMAIN caches /\ RefreshStep(i, k))

(* A cached workspace shows every change of the connection that the hosted  *)
(* server was told of, unless the invalidation that follows is still to     *)
(* come or a resolve it overtook stored the workspace: the handlers of join, *)
(* leave, saved settings and connect invalidate after they were told. A     *)
(* change whose answer was lost, or a reconnect not yet told of, may stay    *)
(* unseen for the minute that the workspace is cached.                      *)
AnsweredChangesShow ==
    workspace # Nobody /\ workspace.epoch = epoch /\ owed = {} => workspace.seen >= answered

(* When Stop has returned no refresh of the cache is running, and none is   *)
(* started again by a workspace that still holds it.                        *)
StopIsFinal ==
    \A i \in DOMAIN caches :
        /\ caches[i].stopped
        /\ \A m \in Boots \cup Changes : request[m].pc = "stopping" => request[m].cache # i
        => \A k \in 1..2 : caches[i].runs[k] = Nobody

(* A listing never replaces a newer one: refreshes of a cache do not        *)
(* overlap, whoever asks for them and however long they take.               *)
ListingsMoveForward ==
    [][\A i \in DOMAIN caches :
          caches[i].items # Nobody => caches'[i].items >= caches[i].items]_wsVars

(* Every request is answered, also one that waits for another's resolve or  *)
(* refresh, and one whose Stop waits for a refresh to end.                  *)
EveryWorkspaceRequestEnds ==
    \A r \in Requests : request[r].pc # "idle" ~> request[r].pc \in {"done", "failed"}

(* The workspace that requests get once every invalidation is over, read    *)
(* after the last of them, has a pending cache that can still refresh       *)
(* (shared_cache.go:28: the cache "refreshes in the background and can      *)
(* synchronously refresh on cold/stale request reads").                     *)
ColdReadsRefresh ==
    /\ Usable /\ workspace.epoch = epoch
    /\ \A m \in Boots \cup Changes :
          request[m].pc \notin {"invalidate", "forget", "stop", "stopping"}
    => ~caches[workspace.cache].stopped
=============================================================================
