----------------------------- MODULE ReadCache -----------------------------
(***************************************************************************)
(* The keyed read-through cache of internal/api/read_cache.go, as the      *)
(* browse and detail handlers of internal/api/handlers.go use it: a        *)
(* singleflight per key whose fetch runs in a detached goroutine, entries  *)
(* that expire by age, a generation per key that a mutation bumps so that  *)
(* a fetch it overtook is neither stored nor delivered, and a fallback to  *)
(* expired entries when the fetch fails.                                   *)
(*                                                                         *)
(* The payload under a key is abstracted to the number of mutations it     *)
(* reflects; db[k] is that number in the database.  A fetch reads the      *)
(* database at one instant between its start and its end.                  *)
(*                                                                         *)
(* floor is a history variable, never read by an action's guard: the       *)
(* oldest version a request starting now may be given (see ReadThrough).   *)
(***************************************************************************)
EXTENDS Integers, FiniteSets

CONSTANTS
    Keys,        \* cache keys (a browse query, an item's detail page)
    Readers,     \* GET handlers running concurrently
    Writers,     \* mutation handlers running concurrently
    Calls,       \* identities of call structs: bounds the live fetches
    None,        \* no key, no call, no version, no entry
    MaxAge,      \* ReadCache.maxAge, in ticks
    MaxEntries,  \* ReadCache.maxEntries
    MaxVersion,  \* bound: mutations per key
    MaxNow       \* bound: ticks of the clock

Entry == [data : Nat, storedAt : Nat]

ASSUME BoundsAssumption ==
    /\ MaxAge \in Nat /\ MaxEntries \in Nat
    /\ MaxVersion \in Nat /\ MaxNow \in Nat

ASSUME NoneAssumption ==
    None \notin Keys /\ None \notin Calls /\ None \notin Nat /\ None \notin Entry

VARIABLES
    db,          \* [Keys -> Nat]: version of what the database shows
    floor,       \* [Keys -> Nat]: history, see above
    entries,     \* [Keys -> Entry or None]
    inflight,    \* [Keys -> Calls or None]
    generation,  \* [Keys -> Nat]
    call,        \* [Calls -> call struct]
    reader,      \* [Readers -> state of a GET handler]
    writer,      \* [Writers -> set of keys its committed mutation touched]
    now          \* the clock

cacheVars == <<entries, inflight, generation>>
vars == <<db, floor, entries, inflight, generation, call, reader, writer, now>>

(***************************************************************************)
(* A call is "running" until fn has read the database, "read" until        *)
(* runFetch has put the result away, and "done" once its channel is        *)
(* closed.  res is "failed" for an outage, a timeout or a panic of fn, and *)
(* "denied" for an error the handler answers without looking for a stale   *)
(* entry (expired credentials, item not found).                            *)
(***************************************************************************)
Call == [st : {"running", "read", "done"}, key : Keys \cup {None},
         res : {"ok", "failed", "denied"}, val : Nat, generation : Nat,
         invalidated : BOOLEAN]

Reader == [pc : {"idle", "lookup", "wait", "stale"}, key : Keys \cup {None},
           call : Calls \cup {None}, floor : Nat, got : Nat \cup {None}]

(* Type correctness of the cache, its calls and its callers. *)
TypeOK ==
    /\ db \in [Keys -> Nat] /\ floor \in [Keys -> Nat]
    /\ entries \in [Keys -> Entry \cup {None}]
    /\ inflight \in [Keys -> Calls \cup {None}]
    /\ generation \in [Keys -> Nat]
    /\ call \in [Calls -> Call]
    /\ \A c \in Calls : call[c].st # "done" => call[c].key \in Keys
    /\ reader \in [Readers -> Reader]
    /\ \A r \in Readers : /\ reader[r].pc # "idle" => /\ reader[r].key \in Keys
                                                     /\ reader[r].got = None
                          /\ reader[r].pc = "wait" <=> reader[r].call # None
    /\ writer \in [Writers -> SUBSET Keys]
    /\ now \in Nat

(* A call struct nobody holds, and a handler that has answered (with got). *)
Blank == [st |-> "done", key |-> None, res |-> "failed", val |-> 0,
          generation |-> 0, invalidated |-> FALSE]

Idle(got) == [pc |-> "idle", key |-> None, call |-> None, floor |-> 0, got |-> got]

Init ==
    /\ db = [k \in Keys |-> 0] /\ floor = [k \in Keys |-> 0]
    /\ entries = [k \in Keys |-> None]
    /\ inflight = [k \in Keys |-> None]
    /\ generation = [k \in Keys |-> 0]
    /\ call = [c \in Calls |-> Blank]
    /\ reader = [r \in Readers |-> Idle(None)]
    /\ writer = [w \in Writers |-> {}]
    /\ now = 0

-----------------------------------------------------------------------------
(* The GET handlers: GetOrFetchContext and what surrounds it.              *)

Begin(r, k) ==
    /\ reader[r].pc = "idle"
    /\ reader' = [reader EXCEPT ![r] = [pc |-> "lookup", key |-> k, call |-> None,
                                        floor |-> floor[k], got |-> None]]
    /\ UNCHANGED <<db, floor, cacheVars, call, writer, now>>

(* The entry is present and not older than maxAge. *)
Fresh(k) == entries[k] # None /\ now - entries[k].storedAt <= MaxAge

(* The handler responds with version v, or with an error. *)
Respond(r, v) ==
    /\ reader' = [reader EXCEPT ![r] = Idle(v)]
    /\ floor' = [floor EXCEPT ![reader[r].key] = IF @ < v THEN v ELSE @]

RespondError(r) ==
    /\ reader' = [reader EXCEPT ![r] = Idle(None)]
    /\ UNCHANGED floor

(* The handler goes on, waiting on call c or on none. *)
Goto(r, pc, c) ==
    reader' = [reader EXCEPT ![r] =
                 [pc |-> pc, key |-> reader[r].key, call |-> c,
                  floor |-> reader[r].floor, got |-> None]]

(* Fast path, or the second look under the lock. *)
Hit(r) ==
    /\ reader[r].pc = "lookup" /\ Fresh(reader[r].key)
    /\ Respond(r, entries[reader[r].key].data)
    /\ UNCHANGED <<db, cacheVars, call, writer, now>>

Join(r) ==
    LET k == reader[r].key IN
    /\ reader[r].pc = "lookup" /\ ~Fresh(k) /\ inflight[k] # None
    /\ Goto(r, "wait", inflight[k])
    /\ UNCHANGED <<db, floor, cacheVars, call, writer, now>>

(* A done call that no handler waits on is garbage: its identity is free. *)
Unused(c) == call[c].st = "done" /\ \A r \in Readers : reader[r].call # c

Collect(calls) ==
    call' = [c \in Calls |->
               IF calls[c].st = "done" /\ \A r \in Readers : reader'[r].call # c
               THEN Blank ELSE calls[c]]

(* First caller: register a new call and start its goroutine. *)
Create(r, c) ==
    LET k == reader[r].key IN
    /\ reader[r].pc = "lookup" /\ ~Fresh(k) /\ inflight[k] = None
    /\ Unused(c)
    /\ call' = [call EXCEPT ![c] = [st |-> "running", key |-> k, res |-> "failed",
                  val |-> 0, generation |-> generation[k], invalidated |-> FALSE]]
    /\ inflight' = [inflight EXCEPT ![k] = c]
    /\ Goto(r, "wait", c)
    /\ UNCHANGED <<db, floor, entries, generation, writer, now>>

(* The call finished and nothing invalidated it while it was in flight. *)
Deliver(r) ==
    LET c == reader[r].call IN
    /\ reader[r].pc = "wait" /\ call[c].st = "done" /\ ~call[c].invalidated
    /\ \/ /\ call[c].res = "ok"
          /\ Respond(r, call[c].val)
       \/ /\ call[c].res = "denied"
          /\ RespondError(r)
       \/ /\ call[c].res = "failed"
          /\ Goto(r, "stale", None)
          /\ UNCHANGED floor
    /\ Collect(call)
    /\ UNCHANGED <<db, cacheVars, writer, now>>

(* errReadCacheInvalidated, and the request is still wanted: start over. *)
Retry(r) ==
    /\ reader[r].pc = "wait"
    /\ call[reader[r].call].st = "done" /\ call[reader[r].call].invalidated
    /\ Goto(r, "lookup", None)
    /\ Collect(call)
    /\ UNCHANGED <<db, floor, cacheVars, writer, now>>

(***************************************************************************)
(* The request's context ends.  A call that is done and valid is delivered *)
(* all the same; otherwise the handler gets ctx.Err() and falls back.  The *)
(* fetch itself goes on: its context is detached.                          *)
(***************************************************************************)
Cancel(r) ==
    LET c == reader[r].call IN
    /\ reader[r].pc = "wait"
    /\ call[c].st = "done" => call[c].invalidated
    /\ Goto(r, "stale", None)
    /\ Collect(call)
    /\ UNCHANGED <<db, floor, cacheVars, writer, now>>

(* GetStale: an entry of any age, or an error if there is none. *)
ServeStale(r) ==
    LET k == reader[r].key IN
    /\ reader[r].pc = "stale"
    /\ \/ entries[k] # None /\ Respond(r, entries[k].data)
       \/ entries[k] = None /\ RespondError(r)
    /\ UNCHANGED <<db, cacheVars, call, writer, now>>

-----------------------------------------------------------------------------
(* The detached goroutine of a call: runFetch.                             *)

(* fn reads the database, or fails. *)
Return(c, res, v) ==
    call' = [call EXCEPT ![c] =
               [st |-> "read", key |-> call[c].key, res |-> res, val |-> v,
                generation |-> call[c].generation,
                invalidated |-> call[c].invalidated]]

Read(c) ==
    /\ call[c].st = "running"
    /\ \/ Return(c, "ok", db[call[c].key])
       \/ \E e \in {"failed", "denied"} : Return(c, e, 0)
    /\ UNCHANGED <<db, floor, cacheVars, reader, writer, now>>

Cached(e) == {k \in Keys : e[k] # None}

\* Faulty: lets one entry too many stay.
ExcessOffByOne(n) == IF n > MaxEntries + 1 THEN n - MaxEntries ELSE 0

Excess(n) == IF n > MaxEntries THEN n - MaxEntries ELSE 0

(* The oldest entries beyond maxEntries; ties fall either way. *)
Evictions(e) ==
    {E \in SUBSET Cached(e) :
       /\ Cardinality(E) = Excess(Cardinality(Cached(e)))
       /\ \A out \in E, kept \in Cached(e) \ E :
            e[out].storedAt <= e[kept].storedAt}

Drop(e, E) == [k \in Keys |-> IF k \in E THEN None ELSE e[k]]

\* Faulty: forgets that an invalidation may have overtaken the fetch.
StorableAnyGeneration(c) == call[c].res = "ok"

(* The result may be stored: no invalidation since the call was created. *)
Storable(c) == call[c].res = "ok" /\ generation[call[c].key] = call[c].generation

\* Faulty: removes whatever call is registered, also a newer one.
UnregisterAny(c) == inflight' = [inflight EXCEPT ![call[c].key] = None]

(* The inflight entry is removed, but only if it is still this call's. *)
Unregister(c) ==
    LET k == call[c].key IN
    inflight' = IF inflight[k] = c THEN [inflight EXCEPT ![k] = None] ELSE inflight

\* Faulty: a fetch that fails never closes its channel.
CloseOnSuccess(c) == IF call[c].res = "ok" THEN [call EXCEPT ![c].st = "done"] ELSE call

Close(c) == [call EXCEPT ![c].st = "done"]

(* The deferred section under the lock, then close(done). *)
Finish(c) ==
    LET k == call[c].key
        stored == [entries EXCEPT ![k] = [data |-> call[c].val, storedAt |-> now]]
    IN
    /\ call[c].st = "read"
    /\ Unregister(c)
    /\ \/ Storable(c) /\ \E E \in Evictions(stored) : entries' = Drop(stored, E)
       \/ ~Storable(c) /\ UNCHANGED entries
    /\ UNCHANGED <<db, floor, generation, reader, writer, now>>
    /\ Collect(Close(c))

-----------------------------------------------------------------------------
(* The mutation handlers.                                                  *)

(* The client's mutation goes through and changes what the keys in S show. *)
Commit(w, S) ==
    /\ writer[w] = {} /\ S # {}
    /\ \A k \in S : db[k] < MaxVersion
    /\ db' = [k \in Keys |-> IF k \in S THEN db[k] + 1 ELSE db[k]]
    /\ writer' = [writer EXCEPT ![w] = S]
    /\ UNCHANGED <<floor, cacheVars, call, reader, now>>

(* The keys the cache knows about. *)
Seen == {k \in Keys : entries[k] # None \/ inflight[k] # None}

\* Faulty: does not tell the waiters of the calls it overtakes.
InvalidateSilently(S) ==
    /\ entries' = Drop(entries, S)
    /\ inflight' = [k \in Keys |-> IF k \in S THEN None ELSE inflight[k]]
    /\ generation' = [k \in Keys |-> IF k \in S THEN generation[k] + 1
                                                ELSE generation[k]]
    /\ UNCHANGED call

(* invalidateKeyLocked on every key of S. *)
InvalidateKeysLocked(S) ==
    /\ entries' = Drop(entries, S)
    /\ call' = [c \in Calls |->
                  [call[c] EXCEPT !.invalidated = @ \/ \E k \in S : inflight[k] = c]]
    /\ inflight' = [k \in Keys |-> IF k \in S THEN None ELSE inflight[k]]
    /\ generation' = [k \in Keys |-> IF k \in S THEN generation[k] + 1
                                                ELSE generation[k]]

(* InvalidateMatching reaches the seen keys the mutation touched, Invalidate *)
(* every seen key, InvalidateKey one key, seen or not.                       *)
Invalidate(w) ==
    /\ writer[w] # {}
    /\ \/ InvalidateKeysLocked(writer[w] \cap Seen)
       \/ InvalidateKeysLocked(Seen)
       \/ Cardinality(writer[w]) = 1 /\ InvalidateKeysLocked(writer[w])
    /\ floor' = [k \in Keys |-> IF k \in writer[w] THEN db[k] ELSE floor[k]]
    /\ writer' = [writer EXCEPT ![w] = {}]
    /\ UNCHANGED <<db, reader, now>>

(* The mutation reported an error after it had changed the database: the     *)
(* handler answers with the error and invalidates nothing.                   *)
Abandon(w) ==
    /\ writer[w] # {}
    /\ writer' = [writer EXCEPT ![w] = {}]
    /\ UNCHANGED <<db, floor, cacheVars, call, reader, now>>

Tick ==
    /\ now < MaxNow
    /\ now' = now + 1
    /\ UNCHANGED <<db, floor, cacheVars, call, reader, writer>>

-----------------------------------------------------------------------------
ReaderStep(r) == \/ Hit(r) \/ Join(r) \/ (\E c \in Calls : Create(r, c))
                 \/ Deliver(r) \/ Retry(r) \/ ServeStale(r)

FetchStep(c) == Read(c) \/ Finish(c)

Next ==
    \/ \E r \in Readers : \/ \E k \in Keys : Begin(r, k)
                          \/ ReaderStep(r)
                          \/ Cancel(r)
    \/ \E c \in Calls : FetchStep(c)
    \/ \E w \in Writers : \/ \E S \in SUBSET Keys : Commit(w, S)
                          \/ Invalidate(w)
                          \/ Abandon(w)
    \/ Tick

Spec == Init /\ [][Next]_vars

(***************************************************************************)
(* A handler's goroutine runs whenever it can, and a fetch ends: its       *)
(* context has a timeout (readCacheFetchTimeout).  Nothing obliges clients *)
(* to come, mutations to happen or time to pass.                           *)
(***************************************************************************)
Fairness == /\ \A r \in Readers : WF_vars(ReaderStep(r))
            /\ \A c \in Calls : WF_vars(FetchStep(c))

FairSpec == Spec /\ Fairness

-----------------------------------------------------------------------------
(* Properties.                                                             *)

Active(c) == call[c].st # "done"

(* No entry is older than what some client has already been shown or than  *)
(* the last published mutation of its key: a fetch that a mutation         *)
(* overtook never reaches the map, whatever the order in which runFetch,   *)
(* the invalidation and a newer fetch of the same key take the lock.       *)
NothingStaleCached ==
    \A k \in Keys : entries[k] # None => entries[k].data \in floor[k] .. db[k]

(* A registered call is still being fetched, for that key, at the current  *)
(* generation: whoever joins it will be woken, and its result is storable. *)
InflightIsLive ==
    \A k \in Keys, c \in Calls : inflight[k] = c =>
        /\ Active(c) /\ call[c].key = k
        /\ ~call[c].invalidated /\ call[c].generation = generation[k]

(* Thundering-herd protection: of the fetches running for one key, at most *)
(* one was not overtaken by an invalidation.                               *)
OneLiveFetch ==
    \A c, d \in Calls :
        /\ Active(c) /\ ~call[c].invalidated
        /\ Active(d) /\ ~call[d].invalidated
        /\ call[c].key = call[d].key
        => c = d

(* The cache is never left above maxEntries, whoever stores concurrently.  *)
BoundedSize == Cardinality(Cached(entries)) <= MaxEntries

(* Read-your-writes and monotonic reads, for every request, hit, joined,   *)
(* retried or served stale: the cache implements ReadThrough.              *)
Requests == [r \in Readers |->
               [open |-> reader[r].pc # "idle", key |-> reader[r].key,
                floor |-> reader[r].floor, got |-> reader[r].got]]

Promise == INSTANCE ReadThrough WITH request <- Requests

ReadThroughSpec == Promise!Spec

(* Every request is answered, with data or an error: retries end once the  *)
(* mutations do, and no waiter is left on a call nobody will close.        *)
EveryRequestAnswered ==
    \A r \in Readers : reader[r].pc # "idle" ~> reader[r].pc = "idle"
-----------------------------------------------------------------------------
(* The inductive strengthening of NothingStaleCached and of the refinement. *)

FloorBelowDb == \A k \in Keys : floor[k] <= db[k]

(* A live fetch is the registered one of its key unless it was overtaken,   *)
(* and then the generation has moved past it.                               *)
LiveCalls ==
    \A c \in Calls : Active(c) =>
        /\ ~call[c].invalidated => inflight[call[c].key] = c
        /\ call[c].invalidated => call[c].generation < generation[call[c].key]

(* What the registered fetch has read is no older than what it may replace. *)
LiveResults ==
    \A c \in Calls :
        call[c].st = "read" /\ call[c].res = "ok" /\ ~call[c].invalidated =>
            LET k == call[c].key IN
            /\ call[c].val \in floor[k] .. db[k]
            /\ entries[k] # None => entries[k].data <= call[c].val

(* A handler waits on a call for its own key.  If that call delivered, what *)
(* it holds suits the handler and is no newer than what later ones can see. *)
Waiters ==
    \A r \in Readers :
        /\ reader[r].pc # "idle" => reader[r].floor <= floor[reader[r].key]
        /\ reader[r].pc = "wait" =>
             LET c == reader[r].call
                 k == reader[r].key
             IN
             /\ call[c].key = k
             /\ call[c].st = "done" /\ call[c].res = "ok" /\ ~call[c].invalidated =>
                  /\ call[c].val \in reader[r].floor .. db[k]
                  /\ entries[k] # None => call[c].val <= entries[k].data
                  /\ \A d \in Calls :
                       inflight[k] = d /\ call[d].st = "read" /\ call[d].res = "ok"
                       => call[c].val <= call[d].val

IInv == /\ TypeOK /\ FloorBelowDb /\ NothingStaleCached /\ InflightIsLive
        /\ LiveCalls /\ LiveResults /\ Waiters
=============================================================================
