# Wasteland: a specification of the wanted board

Wasteland keeps a board of wanted items in a Dolt database, the *commons*.
Rigs (participants) post items, claim them, submit work and have it accepted
with a reputation stamp. In the hosted service a rig's changes go to a branch of
its fork of the commons, through DoltHub's write API, and reach the upstream
by pull requests; the pages are served through an in-memory read cache. On the
command line the same SDK works on a local clone.

TLC checks the modules on small instances, TLAPS proves the central invariants
for all. All source paths below are relative to `src/`.

| Module | What it models | Checked by |
|---|---|---|
| `ReadThrough` | abstract: what a read cache promises its callers | `ReadCacheSafety` (refinement) |
| `ReadCache` | `internal/api/read_cache.go` as `handlers.go` uses it | `ReadCacheSafety`, `ReadCacheLiveness` |
| `PageScopes` | which pages a mutation invalidates, over `ReadThrough` | `Services` |
| `WantedTables` | the rows of an item and the DML of `internal/commons` | under `HostedClient`, `BoardViews` |
| `Board` | abstract: what a rig is promised of its mutations | `HostedBoard` (refinement) |
| `HostedClient` | `internal/sdk` in pull-request mode over `backend.RemoteDB` | `HostedBoard`, `HostedFaults`, three findings |
| `BoardViews` | lifecycle rules, queries, Browse, Detail, Dashboard | `Services` |
| `HostedWorkspace` | workspace resolver and pending cache of `internal/hosted` | `HostedWorkspace`, a finding |
| `HostedSessions` | session cookies and store of `internal/hosted` | `Parts` |
| `ConnectionStore` | abstract: what the auth service promises about connections | `Services` (refinement) |
| `AuthService`, `ServiceNonces`, `DEKCache` | `internal/dolthubauth` | `Services` |
| `LocalClone` | `internal/sdk` over `backend.LocalDB` and the dolt CLI, `wl merge` | `Parts` |
| `PullLookups` | the pull-request caches of `internal/remote/dolthub.go` | `Parts` |
| `FederationJoin` | join, leave and create of `internal/federation` | `Parts` |
| `RateLimiter` | `internal/api/ratelimit.go` | `Parts` |
| `TerminalUI` | the message loop of `internal/tui` | `Parts` |
| `GitHubReview` | `wl review`, `approve`, `merge`, `sync` of `cmd/wl` | `Services`, a finding |
| `Listings` | four caches of listings in `cmd/wl` and `internal/api` | `Services` |
| `MC*` | the instances that TLC checks | |
| `ReadCacheProofs`, `HostedClientProofs`, `HostedWorkspaceProofs` | proofs about the modules they are named for | tlapm |
| `AuthServiceProofs` | proofs about `AuthService`, `ServiceNonces`, `DEKCache` | tlapm |
| `HostedSessionsProofs` | proofs about `HostedSessions`, `RateLimiter` | tlapm |
| `ListingsProofs` | proofs about `Listings`, `PullLookups` | tlapm |
| `CommandLineProofs` | proofs about `TerminalUI`, `FederationJoin`, `LocalClone` | tlapm |
| `PresentationProofs` | proofs about `PageScopes`, `BoardViews`, `GitHubReview` | tlapm |

`PROJECT.json` has the components, runs, mutants, the map to the source, the findings,
the hazards with the properties that watch them, and the theorems.

Run `tlc -config HostedBoard.cfg MCHostedBoard` (and so on; `PROJECT.json` names the
module of each configuration) and `tlapm ReadCacheProofs.tla` and its like.
Operators whose comment begins with "Faulty" are mutants: bugs the code could
have, each of which `PROJECT.json` pairs with the property that finds it. No
specification uses them. Induction over data, liveness and `ENABLED` stay with TLC, being out of
the prover's reach.

## 1. Inventory

**Read cache** (`internal/api/read_cache.go`, `internal/ctxutil/detached.go`).
State: `entries` (data and time), `inflight` calls, a `generation` per key,
under one mutex. Operations: `GetOrFetchContext`, `Get`, `GetStale`,
`Invalidate`, `InvalidateKey`, `InvalidateMatching`, and the detached goroutine
`runFetch`. Hard: a fetch overtaken by an invalidation, a new fetch registered while the
old one still runs, panics, retries, waiters that give up. Correct when no answer
is older than a mutation that was answered before the request began, one
fetch of a key is live at a time, and everybody is answered.

**HTTP API** (`internal/api/handlers.go`, `server.go`). No state of its own beyond
the cache, rate limiter and cached endpoints. GET handlers call the read cache
and fall back on stale entries; mutation handlers call the SDK client and invalidate
on success. `ratelimit.go` is a token bucket per client; `scoreboard.go`'s
`CachedEndpoint` refreshes a rendered page in the background.

**SDK client** (`internal/sdk`). State: the mutex `mu`, mode, signing. Operations:
Post, Update, Claim, Unclaim, Done, Accept, Reject, Close, Delete, AcceptUpstream,
CloseUpstream, RejectUpstream, ApplyBranch, DiscardBranch, SubmitPR, SaveSettings,
Sync. `mutate` runs in *pr* mode (branch, pull request, auto-cleanup) or *wild-west*
mode (straight to main). Hard: double clicks, idempotent answers after partial
writes, cleanup against pull requests and merges. Correct when an item's
completions, claim and stamps agree, when nothing is lost or erased that was
not asked for, and when every caller gets an answer.

**Backends** (`internal/backend`). `RemoteDB` sends one statement per HTTP call and
polls for its outcome; `LocalDB` runs a whole script through the dolt CLI on a
checked-out branch and pushes. Both offer Exec, Query, branch operations and
Sync. Hard: partial scripts, lost reports, null commits, a shared working set.

**Commons** (`internal/commons`). The DML of the lifecycle (`commons.go`), the
rules who may do what in which status (`lifecycle.go`), queries and
scoreboards, and the dolt CLI wrapper (`dolt.go`). The database is the state.

**Hosted service** (`internal/hosted`). `authservice_resolver.go` keeps one
workspace per connection for a minute, built by one goroutine for all who wait, and
gives SDK clients their callbacks into DoltHub; `shared_cache.go` keeps the listing of
pending upstream pull requests, refreshed by one goroutine at a time, until it is stopped;
`session.go` signs cookies and keeps sessions in memory; `authservice_server.go` and
`authservice_fork_register.go` connect, restore sessions after a restart, join and leave.
Hard: a resolve overtaken by an invalidation, Stop against refreshes and waiters, cookies
that outlive the server. Correct when what is cached is current, listings do not go back,
and a request is served as its own subject.

**Auth service** (`internal/dolthubauth`). Connections with record versions,
one-time connect tokens and nonces in Postgres, envelope encryption of tokens with a cache
of data keys. Hard: row locks of concurrent transactions, copies of a signed call, byte slices that are
zeroed. Correct when a token is redeemed once, no change of the metadata is lost, a call is
let in once and a credential is opened with its own key.

**Remotes** (`internal/remote`). DoltHub (fork, pull requests, listing of
pending items, two caches of pull-request lookups), GitHub, git and file providers.
Correct when a closed pull request is not found for long and the provider's own writes
show at once.

**Federation** (`internal/federation`), join, leave and create as a chain of remote
steps with a local configuration at the end. Correct when the configuration is only
saved once the rig is registered, and when running a failed join again heals it.

**Command line and TUI** (`cmd/wl`, `internal/tui`). `wl review`, `approve`, `merge`
and `sync` work on the clone, the fork and a pull request; the TUI sends itself the
results of commands as messages. Correct when a pull request presents what was
rendered, and when a mutation is made of the item the user saw.

**Others**: style, pile sheets, inference, GitHub handle
cache, observability, xdg, the web client and the backfill tool.

How they interact: browser → API handler → (read cache →) SDK client → backend →
DoltHub; the SDK client calls back into the resolver's DoltHub provider for pull
requests and into the pending cache for submissions; the resolver asks the auth
service for credentials. `PROJECT.json` lists every component with its status and
every hazard with its line and the properties that watch it.

## 2. The read cache

### Model

`ReadCache` has one action per critical section of the Go code. A GET handler
goes *idle → lookup → wait → (stale) → idle*: `Begin`, `Hit` (fast path or second
look), `Join`, `Create` (registers a call and starts its goroutine), `Deliver`,
`Retry` (the call was invalidated: the loop in `GetOrFetchContext`), `Cancel` (its
context ends) and `ServeStale`. The goroutine of a call goes *running → read →
done*: `Read` (fn reads the database, fails or panics) and `Finish` (the
deferred section: take the call off `inflight` if it is still its own, store if the
generation is unchanged, evict, close the channel). A mutation handler does `Commit`
and then `Invalidate` or, when it reports an error although the database changed,
`Abandon`. `Tick` is the clock.

The payload under a key is abstracted to the number of mutations it reflects:
exactly what staleness is about. `floor` is a history variable that no guard reads: the
oldest version a request starting now may be given. A call struct that nobody holds
is reset (`Collect`), which is garbage collection, so that `Calls` bounds live calls only.

`ReadThrough` says what is promised, without a cache: a request is answered with
a version between the floor when it began and the present. Publishing a
mutation raises the floor to the present (read-your-writes), an answer raises it to its version
(monotonic reads over all clients).

### What is checked

`ReadCacheSafety`: 2 keys, 2 readers, 1 writer, 2 live calls, one cache slot, an
entry stale after one tick, symmetric. Enough for the cases that
matter: two fetches of a key at a time, of which one is overtaken; eviction
between keys with equal and different ages; stale fallback after an
invalidation. Checked are `NothingStaleCached` (no entry older
than the last invalidation); `OneLiveFetch`; `BoundedSize`; and
`ReadThroughSpec`, the refinement with `request` mapped from the handler's state.
That no request joins a dead call (`InflightIsLive`) is proved below; a run would see it as a
request that is never answered (`EveryRequestAnswered`).

`ReadCacheLiveness`: 1 key, 2 mutations, 2 calls, no symmetry:
`EveryRequestAnswered`. Fairness: weak fairness of each handler's steps and each
fetch's steps. The code justifies it: goroutines that are ready run; a fetch ends because its
detached context has a timeout; a cancelled request is *not* assumed to be
cancelled. Without a bound on mutations a request can be
overtaken for ever; `MaxVersion` bounds them, so what is shown is that a request is answered once mutations of its key cease.

Both configurations say `CHECK_DEADLOCK FALSE`: with the bounds on the clock and on
versions used up and nobody asking, the system rests.

### What is proved

`ReadCacheProofs`, for every set of keys, readers, writers and calls and all bounds:

- `TypeCorrect`: `Spec => []TypeOK`.
- `IInvCorrect`: the inductive invariant `IInv`. `NothingStaleCached` alone is
  not inductive: storing keeps it only if the value of a call whose generation is
  current reaches the floor. Such a call must have read after the last
  invalidation (`LiveResults`, `LiveCalls`: a call still registered is running or read,
  of its key, and not marked), its waiters' floors must be below what it will
  bring (`Waiters`), and no floor is above the database (`FloorBelowDb`).
- `NothingStale`, `SingleFlight`: the safety invariants above; `InflightLive`: a call that can be joined is running.
- `Refinement`: `Spec => ReadThroughSpec`, one case per action: `Hit`, `Deliver` and
  `ServeStale` are `Answer` or `AnswerError`, `Begin` is `Ask`, `Commit` and `Invalidate`
  are `Commit` and `Publish`, the rest are stutters.

Assumed are only `NoneAssumption` (null is not a key, call, version or entry) and
`BoundsAssumption` (bounds are naturals). `ReadCacheProofs.SizeBounded` proves
`BoundedSize`, with one more invariant: only finitely many keys are cached, even of
infinitely many, so that evicting as many entries as there are too many leaves
`maxEntries`. Liveness is out of the prover's reach.

## 3. Mutations in pull-request mode

### Model

`WantedTables` holds an item's rows (`wanted`, `completions`, `stamps`) as one record
and the DML as *values*: `Apply(statement, rows)` does what Dolt does with it,
WHERE clauses and INSERT IGNORE included. The scripts (`AcceptCompletionDML`,
`CloseUpstreamDML`, ...) are sequences of statements, in the order of
`commons.go`, so that a client can be stopped between two of them.

`HostedClient` has the upstream's main, the main of each fork, the branch
`wl/<rig>/<item>` with its merge base and open pull request, the pending listing, the
mutex of each client and the requests in flight. A request goes
through the code's steps: `Lock`, `Check` (`prIdempotent`), `Shortcut`
(Delete of an item that main has not), `LookupCompletion`/`LookupSubmission`,
`Plan` (`mutatePR`: status on main, `branchHasData`), `Write` once per statement
(`Exec`), `Settle` (auto-cleanup or not), `ClosePR`, `DropBranch`, `Clear`
(`cleanupBranch`, `clearBranchData`), `CreatePR`, `SubmitPR`,
`CloseUpstreamPR`, `Answer` (the deferred unlock). Which of these an operation takes, and whether it looks before or
under the mutex, differs as in the code (`CheckedBefore`, `CheckedUnderLock`, `AfterCheck`).
`MergePR` and `RefreshListing` are DoltHub and its users, at any time.

Assumed of DoltHub (external, from how the code uses it): a write starts from the
tip of the from-branch; a write that changes nothing ends with a null commit
(`remote.go` treats it as success), after which the to-branch is a copy of
the from-branch or as it was; a branch may or may not be deletable by the API; merges take
rows one by one and conflict when both sides changed the wanted row; a report
may be lost after the write was applied (`Faults`). Generated ids differ (two in
one second would collide: `GeneratePrefixedID` hashes the second).

The main of a fork is what the upstream was when the rig forked it; `Init` takes any past state from
`History`. Nothing in the hosted backend brings it up to date but ApplyBranch, which is not modelled here: `handlers.go:769`
asks for no mode, so a request for it merges the rig's branch into the fork's main (`remote.go:219`) and then
fails where the API cannot delete the branch; no client offers it in pull-request mode (`reads.go:532`).
SaveSettings is left out too: the hosted backend refuses wild-west mutations (`mutate.go:39`).
`ClosePR` of the code closes nothing when its listing of pull requests is partial or old and says so to nobody
(`authservice_resolver.go:312`): that is the outcome of the fault "pr", which `HostedFaults` takes in and
`NotErasedWhileOffered` supposes away. `post` happens while nobody knows the item, as its id is new.

### What is checked

| Run | Instance | Properties |
|---|---|---|
| `HostedBoard` | rigs a, b, one request of each at a time, 3 requests, all 13 operations, forks from before the post to the submission; and two concurrent requests of a (`MCHostedBoard` takes both as alternatives); one of two forks is of the upstream as it is | `StampsAreLinked`, `CompletionsMatchClaim`, `NotErasedWhileOffered`, `BoardSpec` |
| `HostedFaults` | two concurrent requests of a, reads, writes and DoltHub calls may fail | `OneWriter`, `EveryMutationAnswered` |
| `HostedUpdate`, `HostedSubmit`, `HostedRetry` | see Findings | one refuted claim each |

Three requests after an arbitrary history reach every pair of operations on a branch with a
third before or between; `History` stands for the requests before. Two rigs are
enough for adoption, as a listing names one submitter. The claims checked when no fault
happens hold on branches on which no request is under way (`Quiet`): in the
middle of a script they do not hold, and are not meant to.

- `StampsAreLinked`: two requests never insert two stamps for one completion, the
  concern of the comment in `acceptLocked`.
- `CompletionsMatchClaim`: in whatever order rigs claim, submit, reject and adopt, from
  whatever main, an item in review has its completion, by the rig that has the claim, and only one.
- `NotErasedWhileOffered`: an item is never cleared from a branch that has an open pull
  request, since merging that would delete the item upstream.
- `OneWriter`: scripts and cleanups of a rig do not overlap, with any faults
  (SubmitPR, which takes no mutex, is not among them: see Findings).
- `EveryMutationAnswered`: under weak fairness of each request's steps and
  strong fairness of `Lock`. A handler's goroutine keeps running, every call has a
  timeout, and `sync.Mutex` starves no waiter (its starvation mode), hence the strong
  fairness. The hazard is `Delete`, which unlocks by hand around `mutate`.

- `BoardSpec`: the refinement of `Board`. That module has no branches, statements or mutex: main, at most one
  *proposal* of each rig (the board as the rig would like it to be), and requests. A request
  takes effect as a whole at one instant between its being made and its answer (`Change`, `Discard`, `Offer`), on
  the proposal as it is then, or it is refused and has no effect. The mapping (`Proposal`, `Request`) shows
  the branch as the request that holds the mutex will leave it: while its
  statements are on their way to a branch that has the item, with the rest of the script applied; without a proposal once the cleanup is
  certain. So the instant of the effect is `Plan` when the branch has the item, the first statement that
  is written otherwise. Two things the code does and `Board` therefore allows: a proposal with the status
  of main is taken back, whatever else it says (the finding `HostedUpdate`), and an adoption that finds no
  submission among the rows may come to nothing and be answered as made (`Lost`).

`CHECK_DEADLOCK FALSE`: after `MaxRequests` requests and the last merge
the system rests.

### What is proved

`HostedClientProofs.MutualExclusion`: `Spec => []OneWriter` for all rigs,
sessions, histories, operations and faults, from `SessionsAssumption`. The inductive
invariant `MutexInv` says that a working request holds its client's mutex and
that only `Delete` takes the shortcut; the latter is needed because the shortcut is
where the mutex is given back by hand. `TypeCorrect`, `ClosedBeforeErased`,
`CompletionsMatch`, `LinkedStamps` and `MutationsAreAtomic` prove the type invariant and the four properties of
`HostedBoard` (section 9); `EveryMutationAnswered` is liveness and stays with TLC.

## 4. The hosted server's connections

### Workspaces and pending items (`HostedWorkspace`)

One connection. A request finds a cached workspace (`ResolveContext`) or waits for
the one resolve in flight: `FetchConnection`, `getOrCreatePendingCache`,
`cacheWorkspace`, one action per critical section of `authservice_resolver.go`. A
bootstrap warms the cache with a connection it read before (`WarmSession`). A change
reads the record version, patches it (`Patch`) and invalidates in the four steps of
`InvalidateConnection`, of which the last waits for refreshes under way. The answer of a patch may be lost after
the auth service committed it; then nothing is invalidated. A redemption in the browser (`Reconnect`) gives the
connection a new record version that the server learns of only by the connect or bootstrap that follows, if one does. Of each
pending cache the model keeps its items, whether they are fresh, whether it is
stopped, and its refreshes with their waiters. What the auth service stores is its
record version; what is pending upstream is the number of changes to it. `epoch`, `owed` and `answered`
(the newest record the server was told of) are history.

`HostedWorkspace` (the run): two requests, one bootstrap, two changes, in three casts that
`MCHostedWorkspace` names, one change upstream, two pending caches.

- `AnsweredChangesShow`: a cached workspace shows every change that the server was told of, unless a change is
  still to invalidate it or a resolve overtaken by the invalidation stored it. The exception is real (the
  resolve stores unconditionally) and lasts a minute. So does the other one: a change whose answer was lost, or
  a reconnect nobody has told the server of, may stay unseen as long, since no handler invalidates on an error.
- `StopIsFinal`, `ListingsMoveForward`: nothing runs in a cache after Stop; refreshes
  of a cache do not overlap, so that a listing is never replaced by an older one.
- `EveryWorkspaceRequestEnds`, under weak fairness of the goroutines' steps. A request
  that gives up may, but is not assumed to. Calls of the auth service and DoltHub have
  timeouts (`resolveMissTimeout`, `pendingRefreshTimeout`), which is what justifies it.

### Sessions (`HostedSessions`)

One browser with two cookies, several subjects over time, a store in memory that a
restart empties, and requests that restore their session from the cookie. Time
counts halves of the time to live. Properties: `ActsForItsSubject` and `YoungSessionsReturn`
(within a day of the session's creation a request with both cookies is refused only when the auth service cannot be asked or
a logout took the session). Older sessions come back as well, without end: see section 8. Signing is left out: a cookie in the jar is one the server made.

### The auth service (`AuthService`, `ServiceNonces`, `DEKCache`)

`AuthService` takes Postgres as external: row locks of `SELECT ... FOR UPDATE` and of
uncommitted inserts, unique constraints, rollback at any step. One action per statement
of `RedeemConnectToken`, `patchMetadataTx` and `CreateConnectToken`. Two redemptions and two patches of one
subject, two tokens, two upstreams. Properties: `RedeemedOnce`; `StoreSpec`, the refinement of
`ConnectionStore`, where a redemption and a patch take effect at one instant between request and answer or not at all, a
patch only on the very row its caller has read (`Requests` maps a transaction to what its
caller waits for); `OnlyDeleteRemoves` (an action property: a
wasteland leaves only by the deletion that names it); `NoneWaitsForever`: who
waits for a lock waits for an open transaction and no circle arises. It stands for
liveness here, as every open transaction may be rolled back by its context.

`ServiceNonces`: a call's copies are checked, reap and insert in any interleaving, with
clocks that differ. `AdmittedOnceWhileValid` speaks of admissions strictly before the
timestamp's window closes: at the very tick at which it closes the nonce may be
reaped already.

`DEKCache`: byte slices with identity; `OpensWithItsKey` says that the slice a call
holds, and each cached one, has its key, whatever is cleared meanwhile. Three
envelopes for a cache of two, two calls, so that eviction happens beside a hit.

## 5. The local clone, joining, and pull-request lookups

`LocalClone` has the clone's branches, its one HEAD and its one working set, what was fetched, the fork and the
upstream as sets of changes; requests go through the dolt commands that `LocalDB` and
`commons/dolt.go` run, each of which may fail: create and check out the branch, run
the script with its commit, return to main, push, delete; ApplyBranch, in either mode, as the code asks for none; `wl merge`; and Sync,
which takes no mutex, beside them. Each process has a client with a mutex and a mode of its own, which `SaveSettings` changes;
Sync goes by the mode the clone was opened in. A request named "save" is a mutation with `--no-push`. A script that fails half way
leaves its half in the working set (`dirty`), where a checkout carries it along, a pull or merge may fail over it,
the next commit, on whatever branch, takes it in and a reset throws it away. `AnswerFromBranch` is `prIdempotent`: a
mutation that finds its item changed on the branch already is answered with success, commits nothing and pushes nothing. The two
scripts of `clearBranchData` are one step. The dolt CLI is external.

- `AcknowledgedIsKept`: a mutation that was answered as pushed is on the fork or upstream, in wild-west mode upstream, until its
  branch is discarded or reverted (`dropped`), whatever is force-pushed, reset, pruned, merged and deleted on the way. One exception: an
  actor without the mutex, a Sync or another process, moved it (`astray`: it reset, pruned or deleted the branch in the middle of a mutation
  or by a list out of date, checked out another branch under its script, or reset main where only main had what was merged).
  What was answered from the branch has less to rely on: when the push of the first try failed, the
  fork has not got the branch and the next Sync prunes it (`abandoned`); see section 8.
- `MainMirrorsUpstream` (`commons/dolt.go:121`): main gets nothing that upstream has not got but what was asked for there (`meant`: a
  wild-west mutation, `wl merge`, ApplyBranch), whatever fails - unless another process checked out main under a script, or
  a commit took along what a failed script had left.

`FederationJoin` runs `wl join` in its modes, `wl create`, the hosted registrar and
`wl leave` one after the other, each possibly failing or killed at any step, over fork,
clone, pull request and configuration. `ConfiguredIsRegistered`: a saved
configuration means that the registration reached its remote - unless the
clone was made by another command, which `Clone` takes for its own; `RetryHeals`: a run
in which nothing fails by itself is refused only for what it found. `wl create --local-only`
is left out.

`PullLookups` has the hub's pulls, the index and the lookups by branch with their expiry,
`FindPR`, `CreatePR` and `ClosePR` whose answer may be lost, and pulls closed elsewhere.
`NothingLongClosed` bounds how long a closed pull is found: two times the TTL and a listing, since a hit in the index is
remembered anew. `OwnWritesShow`: against an answered write the caches hold only what a call
that overlapped it stored, or an index in which a pull could not be read.

## 6. What is shown, and what is offered

`BoardViews` lays a rig's branch over the upstream's row as `queries.go` and `reads.go` do, with
the pending listing as `ListPendingWantedIDs` makes it, and uses the scripts of `WantedTables` for
what actions do. A script starts from the branch when that has the item and else from the fork's main (`Start`), as
`HostedClient`'s does. `OfferedIsAccepted`: each offered transition's script takes the item
from the rule's one status to the other (rules, WHERE clauses and starting point of the
script are three places). `ListAndDetailAgree`: Browse with every view and status filter,
the dashboard and Detail show one item alike when nobody is writing and the listing is
current. `StoredPagesAreWhole`: a detail page stored for everybody has its pending submissions.
What is offered to a rig whose fork is behind and has no branch yet may start from another state than was shown;
the first property leaves that out, as no update of the fork is the server's to make.

`PageScopes` composes the handlers with `ReadThrough`, which `ReadCache` is proved to implement:
`AcknowledgedIsShown` says that a mutation once acknowledged is on every page asked for
afterwards, for every viewer and both names of the upstream, in hosted mode and without.

## 7. Command line, terminal, limits

`TerminalUI`: every command and message is in flight in `bus` and is handled in any order;
the user goes on pressing keys. `ActsOnWhatWasShown`, `NeverStuck`,
`UnconfirmedOnlyInPRMode`, each with the exception the code has (named in its comment).

`GitHubReview`: `wl review --create-pr` on GitHub, DoltHub and without a clone, approvals, `wl merge`
with its pushes and clean-up, and `wl sync`, one command at a time, each failing or killed at
any step. `PresentedWhole`: what a create announces is the marker and the branch, and the body too unless the update of an
existing pull request failed, which the command announces like one that worked; a diff that fails is rendered as
"(no changes)" and presented so. Both are in the model, and in section 8.

`Listings`: the four caches of a slow read, with who joins whose fetch. `AnswersMoveForward`
and `StoppedIsQuiet`: when `pendingItemsCache.Stop` has returned, no refresh that was scheduled or begun in advance runs
or will. The shared fetch (`cmd_serve.go:651`) is in no WaitGroup and may run on and store; `CachedEndpoint.Stop` only closes a
channel, so of an endpoint the same is said from the return of its `run` on. A cold `CachedEndpoint` fetches beside its
background goroutine, and whoever stores last wins: the property excepts it.

`RateLimiter`: `RateIsKept` bounds what goes through in every stretch of time from above and, for a
refused client, from below, with `interval` several ticks long. The history `allowed` has how many
were allowed before each tick.

The runs `Parts` and `Services` hold six and seven of the modules of sections 4 to 7, which share no
variable; a behaviour picks one at the start (`part`) and leaves the others where they are, so that the states
are those of the parts one after the other, not their product. `Parts.cfg` and `Services.cfg` name the
bounds. They are the smallest at which each mutant is found - two actors, one retry or fault more than the
hazard needs, and a clock that passes each time to live once -, and one interleaving alone is cut off
(`OthersAreQuiet`): in the casts of `LocalClone` whose second request is a mutation, a revert, a save or
a save of the settings the hosted application does not write to the fork, and in the one with `wl merge` neither
it nor another rig changes anything.

## 8. Findings

- `HostedUpdate` (`internal/sdk/mutate.go:86`). Auto-cleanup takes "same status as main" for
  "reverted". An update never changes the status, so an update of an open item that the
  fork's main has is thrown away, and the caller is told that it succeeded.
- `HostedSubmit` (`internal/sdk/branches.go:91`). `SubmitPR` does not take the mutex and may
  open a pull request after the cleanup closed the old one and before it
  clears the branch.
- `HostedRetry` (`internal/backend/remote.go:112`). A script is not atomic on the hosted
  backend. If the write of the stamp in AcceptUpstream fails, a retry is answered
  with success by the idempotence check, and no stamp is ever written.
- `HostedStopped` (`internal/hosted/authservice_resolver.go:187`). `InvalidateConnection` drops the
  workspace first and stops its pending cache later. A resolve in between builds a current
  workspace on that cache; until it expires its cold and stale reads are answered
  with what the stopped cache holds, perhaps nothing.
- `MergeRetry` (`cmd/wl/cmd_merge.go:98`). After a failed push `wl merge` says "Run 'wl sync' to retry",
  but `wl sync` only pulls: the merge stays in the clone.

Further disagreements, without a run of their own; the named property states what is left and quotes the code:

- A restored session gets half the time to live "to limit how much a restart can extend a session"
  (`internal/hosted/session.go:121-123`), and sessions over 24 hours are evicted (`session.go:80`). But `restoreSession`
  (`authservice_server.go:137-155`) makes a session anew from its cookie whenever the store has not got it, expired or restarted,
  without asking how old it is or how often it was restored: a session ends only with its cookies or a logout (`YoungSessionsReturn`).
- `wl review --create-pr` is to open the pull request or bring it up to date (`README.md:292`). The error of the update is thrown away
  (`cmd/wl/cmd_review.go:471-472`, 716-717, 767-768) and the old pull request announced with success (348-353); a `dolt diff` that
  fails is rendered as "(no changes)" (297-298, 312-313) and presented as the change (`PresentedWhole`).
- Local mutations are to "exec DML on branch → read branch state → push branch" (`internal/sdk/mutate.go:21`). When the push fails and the
  mutation is tried again, `prIdempotent` (`mutate.go:116-131`) answers with success from the branch and pushes nothing;
  the Sync after it prunes the branch as one that the fork has dropped (`commons/dolt.go:388-394`), and the work is gone (`AcknowledgedIsKept`).
- "in PR mode ... main should always mirror upstream exactly" (`commons/dolt.go:121`), but ApplyBranch (`sdk/branches.go:12-26`, `api/handlers.go:769`)
  asks for no mode: it merges the branch into main and force-pushes main to the fork (`MainMirrorsUpstream`).

## 9. Proofs besides the read cache's

Every theorem below holds for every value of the constants, under the named assumptions
of its module. Most properties are not inductive; the strengthenings, each checked with
TLC as an invariant before it was proved, say why the code is right.

**Hosted client** (`HostedClientProofs`), from `SessionsAssumption` and `NullAssumption`, for any rigs, sessions and
histories. `MutualExclusion`: section 3. What the others say depends on what sequences of statements make of an
item's rows; the module begins with lemmas about `Apply`, the scripts and `Run` (a script applied to its end).

- `TypeCorrect` (`TypeOK`), whatever fails. `Known` adds to the types that the rows are finite, so that there is
  always an unused id (`UnusedIsUnused`), and which operation, submitter and script each step of a request can have (`Flow`).
- `ClosedBeforeErased` (`NotErasedWhileOffered`) supposes `Reliable` (reads and pull-request calls do not fail) and
  `SubmitsAlone` (no `SubmitPR` beside another request of the rig), as `HostedBoard` does and `HostedSubmit`
  shows to be needed. `CleanupInv`: from the end of `ClosePR` to the end of the cleanup there is no pull request, a script that
  starts from main does so over a branch without the item, and no statement of a script but those of the cleanup
  takes the item away (`Mild`).
- `CompletionsMatch` (`CompletionsMatchClaim`) and `LinkedStamps` (`StampsAreLinked`) suppose `Dependable` (reads and
  writes do not fail; pull-request calls may) and `Begun`: what forks were taken of is well kept
  itself, which `FromPostToReview` is. Without `Dependable` they are false, as a script that stops half-way stays
  (`HostedRetry`). `BoardInv`: the branch is in order (`Kempt`, stronger than both properties)
  unless a request is sending statements, and then what is left of its script leads to a kempt branch from where it will be written
  (`Leads`). That a script does so is proved script by script (`OneKempt`, `SubmitKempt`, `RejectKempt`, `AcceptKempt`, `AdoptKempt`).
  It hangs on two things: only the first statement of a script can post the item (`Dull`), so that
  a null commit over an empty branch is harmless; and Accept looks under the mutex (`Sound`), hence never adds
  a second stamp. This last argument compares the branch with main and fails for a fork taken after the
  completion: for those `LateInv` shows that no statement leaves such an item other than completed (`Steady`), so that
  every request ends by removing the branch. The run's history ends before the completion; the theorem takes in both.
- `MutationsAreAtomic` (`BoardSpec`) supposes `Dependable` and `Begun` as well: with a failure half a script stays, which
  is what the promise excludes. `PromiseInv` is `BoardInv` and `LateInv`, that the mutex of a rig is held by its own
  requests (`Own`), that a script run to its end on what it will be sent to does what its operation is
  to do (`Whole`, `Serves`), and which answers go with a cleanup (`Told`). The scripts are dealt with first, run to their end
  (`ScriptDoes`) and when their first statement changes nothing (`NullDoes`). Then one lemma for each action: a statement sent to
  the branch moves the rest of the script along and leaves its outcome (`FurtherStatement`), the first
  one sent from main makes the proposal (`FirstStatement`), settling decides nothing that was not certain
  (`SettleImplements`). `SubmitPR` beside other requests does no harm here, as it touches no rows.

**Connections** (`HostedWorkspaceProofs`), for any number of requests, bootstraps, changes and
caches, by one invariant `WorkspaceInv`:

- `WorkspacesShowAnsweredChanges` (`AnsweredChangesShow`): `NothingStale` carries the record version a resolve has read
  with it on its way. What was read in the present epoch while no invalidation is owed shows at least what
  was answered (`Stands`), be it in the flight, a warm-up, or cached; lost answers and reconnects may put the record ahead of both.
- `StopEndsRefreshes` (`StopIsFinal`) and `PendingListingsMoveForward` (`ListingsMoveForward`, an
  action property): a cache has at most one refresh, whose listing is at least as new as the one held
  (`Settled`), and a stopped one has none or somebody waiting for it in Stop (`StoppedOrWaiting`).

**Sessions and limits** (`HostedSessionsProofs`).

- `ServedAsItself` (`ActsForItsSubject`), from `SessionAssumption`. After a restoration nobody looks at the
  session's subject again, and another request may have written the session meanwhile; what
  makes this right is `OneConnection`: an id is never known with two connections, in the store, in the
  cookies or in a request under way, so that two restorations of one id are for one subject.
- `RestartsAreForgiven` (`YoungSessionsReturn`). `CookieInv`: the cookies a request carries were
  the browser's (`CookieOk`), and what a restoration put into the store is too young to be
  expired when the request looks for it (`Recent`), so that only a logout can have taken it.
- `TheRateIsKept` (`RateIsKept`), from `LimiterAssumption`: a bucket that cleanup drops would be full again. The
  invariant relates tokens and history at *every* earlier time: what was given since then and what is left
  are at most a burst and the fills since then, and at least these unless the bucket was full
  (`BucketOk`); a client without a bucket was given no more than a new bucket may give on (`NoBucketOk`).
  `Fills` counts whole intervals that end in a stretch; the lemmas before it are the arithmetic of
  rounding. The history `allowed` is cumulative, so that no sum over ticks occurs.

**Auth service** (`AuthServiceProofs`).

- `AdmittedOnce` (`AdmittedOnceWhileValid`), from `NonceAssumption`. The property is not inductive: a
  reaped nonce would let a copy in. `Guarded` adds that the nonce
  of a call once admitted is still recorded, with the expiry of its window, or the window has closed;
  `UnderWay` that a verification reaps with a time that has passed, hence never a nonce whose window is open.
- `TokensRedeemedOnce`, `LocksAreReleased` (`NoneWaitsForever`) and
  `LeavesByDeletion` (`OnlyDeleteRemoves`), from `AuthAssumption`. One invariant, `AuthInv`, carries all
  three: a row lock is held by exactly the transactions whose step goes with it (`TokenLocks`,
  `ConnLocks`); what an open transaction will write is made from the row that its commit replaces
  (`WhatIsWritten`), since that row is locked, and a record version that has moved on never comes
  back; a redeemed token is never pending again (`Spent`). `StepKeeps` is the argument for every
  statement that only takes or returns locks, `CommitKeeps` for the two commits.
- `TransactionsAreAtomic` (`StoreSpec`): the store implements `ConnectionStore`. Locks, selects and writes that are not committed
  are stutters, a token's lock approves the redemption, a commit is the instant at which a request takes effect, whatever else ends a
  transaction is its failure (`EndFails`). The two commits are where it could go wrong (`CommitRedeems`, `CommitPatches`): the
  row written is that of the abstract step because it was made of the row replaced (`WhatIsWritten`), a patch
  compares one version and not the row because every commit moves the version on (`PatchRead`), and the connection is the
  one the token names (`OwnSubject`).
- `OpenedWithOwnKeys` (`OpensWithItsKey`), from `DEKAssumption`: there are more slices than the cache and the calls
  can hold, which stands for an allocator that always has another. `KeyInv` adds that no two
  holders share a slice (`SlicesApart`), so that clearing one's own harms nobody;
  `NewSliceExists` counts the holders.

**Caches of listings and of pull requests** (`ListingsProofs`).

- `RefreshesEndWithStop` (`StoppedIsQuiet`) and `AnswersOnlyMoveForward` (`AnswersMoveForward`). The
  second needs to know of each listing on its way, held, being read, or about to be answered,
  that it is as new as what was answered before (`HeldForward`, `ReadsForward`, `AnswersForward`)
  - but for cold reads of an endpoint, where it is false (`FoundCold`).
- `ClosedPullsFade` (`NothingLongClosed`) and `WritesShowAtOnce` (`OwnWritesShow`). `LookupInv` dates what
  was read: an index, an entry and a call under way name pulls that were open when the listing they come
  from began, and against a settled write only what overlapped it (`IndexOk`, `EntryOk`, `CallOk`).

**Command line** (`CommandLineProofs`).

- `MutatesWhatWasShown` (`ActsOnWhatWasShown`), `SpinnersEnd` (`NeverStuck`), `WildWestIsConfirmed`
  (`UnconfirmedOnlyInPRMode`) by `UIInv`: a form, confirmation or command under way is about the item shown
  (`AboutShown`); the interface's mode is the client's unless a save is under way (`ModesAgree`), and only one is.
- `ConfigurationsAreBacked` (`ConfiguredIsRegistered`) and `SecondTryHeals` (`RetryHeals`) by `JoinInv`. For each
  step of a command it says what the command has already brought about (`ForkPath`, `ApiPath`, `TrunkPath`), and what any
  history of failed and killed commands can leave in a site (`SitesOk`) and in the clone (`CloneOk`).
- `MainFollowsUpstream` (`MainMirrorsUpstream`), from `CloneAssumption`. `MirrorInv`: a script runs with HEAD on
  its own branch unless another process is at work, or was asked for on main (`ScriptsOk`); hence main, of the clone and of the fork,
  holds only what upstream holds, what was meant for it, and what went astray (`TrunkOk`). The mode is that each request found.
- `AcknowledgedWorkIsKept` (`AcknowledgedIsKept`), from `CloneAssumption`, by `KeepInv` on top of `MirrorInv`. No step takes a change out of
  the clone without its being upstream, dropped, astray or abandoned, off its branch in the middle of a mutation, or off main in
  wild-west mode (`Grows`). `Held` follows a mutation from its commit to its push, `Route` says which requests come to
  those steps in which mode. What was pushed is `Safe`: the fork has it on its branch, what was fetched of that branch has it too,
  and the clone's branch, or main if there is none, from which the next one would be made - so that force-pushes never take it back.

**Pages and reviews** (`PresentationProofs`).

- `ShownOnceAcknowledged` (`AcknowledgedIsShown`), from `ScopeAssumption`. No page with a canonical
  name may be served older than what was acknowledged of it (`DueIsKept`); what a mutation under way
  wrote is in the database, and on browse pages already due once the first cache is invalidated
  (`WritesKept`). `CallersAreCanonical` and `AffectedInScope` are the argument about keys: everyone
  asks under the canonical name, and the invalidated keys take in all affected ones of that name.
- `OffersWork` (`OfferedIsAccepted`). The invariant is small (`BoardTypes`): the rows of upstream, forks and branches are
  `Fine`, typed and with finitely many completions and stamps, which no script ends, whatever rows it meets (`RunFine`).
  The argument is `RulesMatchScripts`: for each rule, the first statement of each script takes the item
  (its WHERE clause holds in the rule's status and for the rig that the permission names), and
  the others leave the status alone; `AdoptionCompletes` says so of the scripts that adopt another rig's submission.
- `PagesAgree` (`ListAndDetailAgree`) from the same invariant. The overlay of the branch that the list makes is the one of
  the detail page, filter by filter, and of a listing of pending submissions that is not empty both show one that is in it (`BestIsThere`).
- `WholePagesStored` (`StoredPagesAreWhole`). `PageInv` follows a page through the three places where
  its listing may fail.
- `PresentedAsRendered` (`PresentedWhole`). `ReviewInv` adds what each step of `wl review` has already made
  equal to what it rendered (`RenderedOk`): the ref, the marker on it, the pull request's body unless its update failed, so that
  nothing else which an earlier command left behind survives into what is announced.

### Only model-checked

Every invariant and action property of the passing runs is a theorem, for every value of the bounds, under the
assumptions named above. Left to TLC:

- The liveness properties `EveryRequestAnswered`, `EveryMutationAnswered` and `EveryWorkspaceRequestEnds`: fairness and
  `ENABLED` are out of the prover's reach.

## 10. Not modelled, and why

- A write that DoltHub applies after the caller was told of its failure (`pollOperation` gives up): it
  would need the remote's queue as state of its own.
- Several items at a time: requests for different items share only the mutex.
- Text, evidence, valences and tags of items (no property tells them apart, except that an
  update is seen); sorting, limits and text filters of listings.
- ApplyBranch and SaveSettings over the hosted backend (section 3); they are modelled over a local clone. `PageScopes` leaves out
  SaveSettings and SubmitPR, which invalidate nothing, and the mode in the pages' keys, which only tells more pages apart.
- `BoardViews` takes mutations without `prIdempotent`, which changes no rows.
- `CreateConnectToken` deletes expired tokens and inserts the new one in two statements of no transaction; the model has one step,
  as a token that has expired is not redeemable whether it is there or not.
- Two workspaces of one connection alive at a time, the old one still in use when it expired: `HostedClient`
  has one client, hence one mutex, per rig.
- The GitHub handle cache (one file, rare commands), sheets and the pile, inference, observability, the
  backfill tool and the web client: I/O and display.

Seen while modelling, and watched by no property because nothing says what should hold: `Accept` whose last
statement fails leaves a stamp, and a retry adds another (`commons.go:706`); `Reject` deletes the completion whatever the
status (`commons.go:889`); `AcceptUpstream` completes an item whatever its status (`commons.go:734`); `Delete`
takes a failed read of main for an item that was never there (`mutations.go:361`); a mutation that fails after it wrote
rows invalidates no page (`handlers.go:455`), nor does `SubmitPR` (`handlers.go:799`); the pending caches of
other viewers outlive an acceptance by two minutes; a push after a rebase by hand overwrites commits that the hosted
service made on the branch; a half-made file or git fork counts as forked; a review approves the pull request's version
while `wl merge` takes the local branch; a Sync beside a `wl merge` whose push failed resets main, and the merged work, whose
branch is gone, is in the clone no longer; the next mutation of the item starts its branch from main and force-pushes it over the fork's (`commons/dolt.go:126`).

## 11. What could come next

1. Late writes of `pollOperation`, with the remote's queue as state, and two live clients of one rig, composing
   `HostedWorkspace` and `HostedClient`: `Board` is the promise that both would put to the test.
2. `RejectUpstream`, which closes a pull request of another rig and writes no rows.
