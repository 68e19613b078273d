-------------------------- MODULE ReadCacheProofs --------------------------
(***************************************************************************)
(* Proofs about ReadCache for every number of keys, readers, writers and   *)
(* calls, every age, size, version and clock bound.                        *)
(***************************************************************************)
EXTENDS ReadCache, FiniteSetTheorems, TLAPS

USE NoneAssumption, BoundsAssumption

(* A blank call struct and an idle handler are well-formed. *)
LEMMA BlankTyped ==
    /\ Blank \in Call
    /\ \A v \in Nat \cup {None} : Idle(v) \in Reader
BY DEF Blank, Idle, Call, Reader

(* The typing of calls and of readers, as predicates on any value of them. *)
CallsTyped(calls) ==
    /\ calls \in [Calls -> Call]
    /\ \A c \in Calls : calls[c].st # "done" => calls[c].key \in Keys

ReadersTyped(rd) ==
    /\ rd \in [Readers -> Reader]
    /\ \A r \in Readers : /\ rd[r].pc # "idle" => /\ rd[r].key \in Keys
                                                 /\ rd[r].got = None
                          /\ rd[r].pc = "wait" <=> rd[r].call # None

(* Collecting garbage keeps the calls typed. *)
LEMMA CollectTyped ==
    ASSUME NEW calls, CallsTyped(calls), Collect(calls)
    PROVE  CallsTyped(call')
<1>1. call' \in [Calls -> Call]
  BY BlankTyped DEF Collect, CallsTyped
<1>2. ASSUME NEW c \in Calls, call'[c].st # "done" PROVE call'[c].key \in Keys
  BY <1>2 DEF Collect, CallsTyped, Blank
<1>3. QED BY <1>1, <1>2 DEF CallsTyped

(* Responding keeps readers and floors typed. *)
LEMMA RespondTyped ==
    ASSUME TypeOK, NEW r \in Readers, NEW v \in Nat, Respond(r, v)
    PROVE  ReadersTyped(reader') /\ floor' \in [Keys -> Nat]
<1>1. reader' \in [Readers -> Reader]
  BY BlankTyped DEF Respond, TypeOK
<1>2. floor' \in [Keys -> Nat]
  BY DEF Respond, TypeOK
<1>3. QED BY <1>1, <1>2 DEF ReadersTyped, Respond, TypeOK, Idle

LEMMA RespondErrorTyped ==
    ASSUME TypeOK, NEW r \in Readers, RespondError(r)
    PROVE  ReadersTyped(reader') /\ floor' \in [Keys -> Nat]
<1>1. reader' \in [Readers -> Reader]
  BY BlankTyped DEF RespondError, TypeOK
<1>2. QED BY <1>1 DEF ReadersTyped, RespondError, TypeOK, Idle

LEMMA GotoTyped ==
    ASSUME TypeOK, NEW r \in Readers, reader[r].pc # "idle",
           NEW c \in Calls \cup {None}, NEW pc \in {"lookup", "wait", "stale"},
           pc = "wait" <=> c # None, Goto(r, pc, c)
    PROVE  ReadersTyped(reader')
<1>1. reader' \in [Readers -> Reader]
  BY DEF Goto, TypeOK, Reader
<1>2. QED BY <1>1 DEF ReadersTyped, Goto, TypeOK

(* Invalidating keys keeps the cache and its calls typed. *)
LEMMA InvalidateTyped ==
    ASSUME TypeOK, NEW S, InvalidateKeysLocked(S)
    PROVE  /\ entries' \in [Keys -> Entry \cup {None}]
           /\ inflight' \in [Keys -> Calls \cup {None}]
           /\ generation' \in [Keys -> Nat]
           /\ CallsTyped(call')
<1>1. CallsTyped(call')
  <2>1. ASSUME NEW rec \in Call, NEW b \in BOOLEAN
        PROVE  [rec EXCEPT !.invalidated = b] \in Call
    BY DEF Call
  <2>2. call' \in [Calls -> Call]
    BY <2>1 DEF InvalidateKeysLocked, TypeOK, Call
  <2>3. ASSUME NEW c \in Calls
        PROVE  call'[c].st = call[c].st /\ call'[c].key = call[c].key
    BY DEF InvalidateKeysLocked, TypeOK, Call
  <2>4. QED BY <2>2, <2>3 DEF TypeOK, CallsTyped
<1>2. QED BY <1>1 DEF InvalidateKeysLocked, TypeOK, Drop

(* No step changes the type of a variable. *)
LEMMA TypeStep == ASSUME TypeOK, [Next]_vars PROVE TypeOK'
<1> USE DEF CallsTyped, ReadersTyped
<1>1. ASSUME NEW r \in Readers, NEW k \in Keys, Begin(r, k) PROVE TypeOK'
  BY <1>1 DEF Begin, TypeOK, cacheVars, Reader
<1>2. ASSUME NEW r \in Readers, Hit(r) PROVE TypeOK'
  <2>1. entries[reader[r].key].data \in Nat
    BY <1>2 DEF Hit, Fresh, TypeOK, Entry
  <2>2. QED BY <1>2, <2>1, RespondTyped DEF Hit, TypeOK, cacheVars
<1>3. ASSUME NEW r \in Readers, Join(r) PROVE TypeOK'
  <2>1. inflight[reader[r].key] \in Calls
    BY <1>3 DEF Join, TypeOK
  <2>2. ReadersTyped(reader')
    BY <1>3, <2>1, GotoTyped DEF Join
  <2>3. QED BY <1>3, <2>2 DEF Join, TypeOK, cacheVars
<1>4. ASSUME NEW r \in Readers, NEW c \in Calls, Create(r, c) PROVE TypeOK'
  <2>1. CallsTyped(call')
    BY <1>4 DEF Create, TypeOK, Call
  <2>2. ReadersTyped(reader')
    BY <1>4, GotoTyped DEF Create
  <2>3. inflight' \in [Keys -> Calls \cup {None}]
    BY <1>4 DEF Create, TypeOK
  <2>4. QED BY <1>4, <2>1, <2>2, <2>3 DEF Create, TypeOK
<1>5. ASSUME NEW r \in Readers, Deliver(r) PROVE TypeOK'
  <2>1. CallsTyped(call')
    BY <1>5, CollectTyped DEF Deliver, TypeOK
  <2>2. ReadersTyped(reader') /\ floor' \in [Keys -> Nat]
    <3>1. CASE Respond(r, call[reader[r].call].val)
      <4>1. call[reader[r].call].val \in Nat
        BY <1>5 DEF Deliver, TypeOK, Call, Reader
      <4>2. QED BY <3>1, <4>1, RespondTyped
    <3>2. CASE RespondError(r)
      BY <3>2, RespondErrorTyped
    <3>3. CASE Goto(r, "stale", None) /\ UNCHANGED floor
      BY <1>5, <3>3, GotoTyped DEF TypeOK, Deliver
    <3>4. QED BY <1>5, <3>1, <3>2, <3>3 DEF Deliver
  <2>3. QED BY <1>5, <2>1, <2>2 DEF Deliver, TypeOK, cacheVars
<1>6. ASSUME NEW r \in Readers, Retry(r) PROVE TypeOK'
  <2>1. CallsTyped(call')
    BY <1>6, CollectTyped DEF Retry, TypeOK
  <2>2. ReadersTyped(reader')
    BY <1>6, GotoTyped DEF Retry
  <2>3. QED BY <1>6, <2>1, <2>2 DEF Retry, TypeOK, cacheVars
<1>7. ASSUME NEW r \in Readers, Cancel(r) PROVE TypeOK'
  <2>1. CallsTyped(call')
    BY <1>7, CollectTyped DEF Cancel, TypeOK
  <2>2. ReadersTyped(reader')
    BY <1>7, GotoTyped DEF Cancel
  <2>3. QED BY <1>7, <2>1, <2>2 DEF Cancel, TypeOK, cacheVars
<1>8. ASSUME NEW r \in Readers, ServeStale(r) PROVE TypeOK'
  <2>1. entries[reader[r].key] # None => entries[reader[r].key].data \in Nat
    BY <1>8 DEF ServeStale, TypeOK, Entry
  <2>2. ReadersTyped(reader') /\ floor' \in [Keys -> Nat]
    BY <1>8, <2>1, RespondTyped, RespondErrorTyped DEF ServeStale
  <2>3. QED BY <1>8, <2>2 DEF ServeStale, TypeOK, cacheVars
<1>9. ASSUME NEW c \in Calls, Read(c) PROVE TypeOK'
  <2>1. db[call[c].key] \in Nat
    BY <1>9 DEF Read, TypeOK
  <2>2. call' \in [Calls -> Call]
    BY <1>9, <2>1 DEF Read, Return, TypeOK, Call
  <2>3. ASSUME NEW d \in Calls
        PROVE  /\ call'[d].key = call[d].key
               /\ d # c => call'[d].st = call[d].st
    <3>1. PICK e \in {"ok", "failed", "denied"}, v \in Nat : Return(c, e, v)
      BY <1>9, <2>1 DEF Read
    <3>2. QED BY <3>1 DEF Return, TypeOK
  <2>4. CallsTyped(call')
    BY <1>9, <2>2, <2>3 DEF Read, TypeOK
  <2>5. QED BY <1>9, <2>4 DEF Read, TypeOK, cacheVars
<1>10. ASSUME NEW c \in Calls, Finish(c) PROVE TypeOK'
  <2>1. CallsTyped(call')
    <3>1. CallsTyped(Close(c))
      BY <1>10, SMTT(30) DEF Close, TypeOK, Call
    <3>2. QED BY <1>10, <3>1, CollectTyped DEF Finish
  <2>2. inflight' \in [Keys -> Calls \cup {None}]
    BY <1>10 DEF Finish, Unregister, TypeOK
  <2>3. entries' \in [Keys -> Entry \cup {None}]
    BY <1>10 DEF Finish, TypeOK, Drop, Entry, Call
  <2>4. QED BY <1>10, <2>1, <2>2, <2>3 DEF Finish, TypeOK
<1>11. ASSUME NEW w \in Writers, NEW S \in SUBSET Keys, Commit(w, S) PROVE TypeOK'
  BY <1>11 DEF Commit, TypeOK, cacheVars
<1>12. ASSUME NEW w \in Writers, Invalidate(w) PROVE TypeOK'
  <2>1. PICK S : InvalidateKeysLocked(S)
    BY <1>12 DEF Invalidate
  <2>2. QED BY <1>12, <2>1, InvalidateTyped DEF Invalidate, TypeOK
<1>13. ASSUME NEW w \in Writers, Abandon(w) PROVE TypeOK'
  BY <1>13 DEF Abandon, TypeOK, cacheVars
<1>14. CASE Tick
  BY <1>14 DEF Tick, TypeOK, cacheVars
<1>15. CASE UNCHANGED vars
  BY <1>15 DEF vars, TypeOK, cacheVars
<1>16. QED
  BY <1>1, <1>2, <1>3, <1>4, <1>5, <1>6, <1>7, <1>8, <1>9, <1>10, <1>11,
     <1>12, <1>13, <1>14, <1>15
  DEF Next, ReaderStep, FetchStep

LEMMA InitTyped == ASSUME Init PROVE TypeOK
<1>1. CallsTyped(call)
  BY BlankTyped DEF Init, CallsTyped, Blank
<1>2. ReadersTyped(reader)
  BY BlankTyped DEF Init, ReadersTyped, Idle
<1>3. QED BY <1>1, <1>2 DEF Init, TypeOK, CallsTyped, ReadersTyped

(* Every variable keeps its type: versions and generations only count up,  *)
(* a live call has a key, and a handler holds a call exactly while waiting. *)
THEOREM TypeCorrect == Spec => []TypeOK
<1>1. Init => TypeOK
  BY InitTyped
<1>2. TypeOK /\ [Next]_vars => TypeOK'
  BY TypeStep
<1>3. QED BY <1>1, <1>2, PTL DEF Spec
-----------------------------------------------------------------------------
(* What a handler's departure from a call does to the calls: each is left as *)
(* it was, or is a done one that nobody waits on and becomes blank.          *)
CallsKept ==
    \A c \in Calls :
        \/ call'[c] = call[c]
        \/ /\ call'[c] = Blank /\ call[c].st = "done"
           /\ \A r \in Readers : reader'[r].call # c

LEMMA CollectKeeps == ASSUME TypeOK, Collect(call) PROVE CallsKept
BY DEF Collect, CallsKept, TypeOK

(* The floor rises, but not past the database, the entries or the results   *)
(* that the registered fetches hold.                                        *)
FloorRises ==
    \A k \in Keys :
        /\ floor[k] <= floor'[k] /\ floor'[k] <= db[k]
        /\ entries[k] # None => floor'[k] <= entries[k].data
        /\ \A c \in Calls : /\ inflight[k] = c /\ call[c].st = "read"
                            /\ call[c].res = "ok"
                            => floor'[k] <= call[c].val

(* A handler that stops waiting, answered or not, preserves the invariant.  *)
LEMMA LeavePreserves ==
    ASSUME IInv, TypeOK', CallsKept, FloorRises, NEW r \in Readers,
           UNCHANGED <<db, entries, inflight, generation>>,
           NEW rec, reader' = [reader EXCEPT ![r] = rec],
           rec.pc # "wait",
           rec.pc # "idle" => /\ reader[r].pc # "idle"
                              /\ rec.key = reader[r].key
                              /\ rec.floor = reader[r].floor
    PROVE  IInv'
<1> USE DEF IInv
<1>1. FloorBelowDb'
  BY DEF FloorRises, FloorBelowDb, TypeOK
<1>2. NothingStaleCached'
  BY DEF FloorRises, NothingStaleCached, TypeOK, Entry
<1>3. InflightIsLive'
  BY DEF CallsKept, InflightIsLive, Active, TypeOK
<1>4. LiveCalls'
  BY DEF CallsKept, LiveCalls, Active, TypeOK, Blank
<1>5. LiveResults'
  <2> SUFFICES ASSUME NEW c \in Calls, call'[c].st = "read", call'[c].res = "ok",
                      ~call'[c].invalidated
               PROVE  /\ call'[c].val \in floor'[call'[c].key] .. db'[call'[c].key]
                      /\ entries'[call'[c].key] # None
                         => entries'[call'[c].key].data <= call'[c].val
    BY DEF LiveResults
  <2>1. call'[c] = call[c]
    BY DEF CallsKept, Blank
  <2>2. call[c].key \in Keys /\ inflight[call[c].key] = c /\ call[c].val \in Nat
    BY <2>1 DEF LiveCalls, Active, TypeOK, Call
  <2>3. QED BY <2>1, <2>2 DEF LiveResults, FloorRises, TypeOK
<1>6. Waiters'
  <2> SUFFICES ASSUME NEW q \in Readers PROVE
         /\ reader'[q].pc # "idle" => reader'[q].floor <= floor'[reader'[q].key]
         /\ reader'[q].pc = "wait" =>
              /\ call'[reader'[q].call].key = reader'[q].key
              /\ /\ call'[reader'[q].call].st = "done"
                 /\ call'[reader'[q].call].res = "ok"
                 /\ ~call'[reader'[q].call].invalidated
                 => /\ call'[reader'[q].call].val
                         \in reader'[q].floor .. db'[reader'[q].key]
                    /\ entries'[reader'[q].key] # None =>
                         call'[reader'[q].call].val <= entries'[reader'[q].key].data
                    /\ \A d \in Calls :
                         /\ inflight'[reader'[q].key] = d
                         /\ call'[d].st = "read" /\ call'[d].res = "ok"
                         => call'[reader'[q].call].val <= call'[d].val
    BY DEF Waiters
  <2>1. CASE q = r
    BY <2>1 DEF Waiters, TypeOK, FloorRises, Reader
  <2>2. CASE q # r
    <3>1. reader'[q] = reader[q]
      BY <2>2 DEF TypeOK
    <3>2. reader[q].pc # "idle" => reader[q].floor <= floor'[reader[q].key]
      BY DEF Waiters, TypeOK, FloorRises, Reader
    <3>3. ASSUME reader[q].pc = "wait"
          PROVE  reader[q].call \in Calls /\ call'[reader[q].call] = call[reader[q].call]
      BY <3>1, <3>3 DEF CallsKept, TypeOK, Reader
    <3>4. \A d \in Calls : call'[d].st = "read" => call'[d] = call[d]
      BY DEF CallsKept, Blank
    <3>5. QED BY <3>1, <3>2, <3>3, <3>4 DEF Waiters
  <2>3. QED BY <2>1, <2>2
<1>7. QED BY <1>1, <1>2, <1>3, <1>4, <1>5, <1>6
(* Staying put is a way of rising. *)
LEMMA FloorStays == ASSUME IInv, UNCHANGED floor PROVE FloorRises
<1>1. \A k \in Keys : floor[k] <= floor[k] /\ floor[k] <= db[k]
  BY DEF IInv, TypeOK, FloorBelowDb
<1>2. \A k \in Keys : entries[k] # None => floor[k] <= entries[k].data
  BY DEF IInv, TypeOK, NothingStaleCached, Entry
<1>3. ASSUME NEW k \in Keys, NEW c \in Calls, inflight[k] = c,
             call[c].st = "read", call[c].res = "ok"
      PROVE  floor[k] <= call[c].val
  BY <1>3 DEF IInv, InflightIsLive, LiveResults, TypeOK, Call
<1>4. QED BY <1>1, <1>2, <1>3 DEF FloorRises

(* An answer that nothing cached or registered is older than. *)
LEMMA AnswerRaises ==
    ASSUME IInv, NEW r \in Readers, reader[r].pc # "idle", NEW v \in Nat,
           Respond(r, v), v <= db[reader[r].key],
           entries[reader[r].key] # None => v <= entries[reader[r].key].data,
           \A c \in Calls : /\ inflight[reader[r].key] = c
                            /\ call[c].st = "read" /\ call[c].res = "ok"
                            => v <= call[c].val
    PROVE  FloorRises
<1> DEFINE k == reader[r].key
<1>1. k \in Keys /\ floor \in [Keys -> Nat]
  BY DEF IInv, TypeOK
<1>2. \A j \in Keys : j # k => floor'[j] = floor[j]
  BY <1>1 DEF Respond
<1>3. floor'[k] = IF floor[k] < v THEN v ELSE floor[k]
  BY <1>1 DEF Respond
<1>4. \A j \in Keys :
        /\ floor[j] <= db[j]
        /\ entries[j] # None => floor[j] <= entries[j].data
        /\ \A c \in Calls : /\ inflight[j] = c /\ call[c].st = "read"
                            /\ call[c].res = "ok"
                            => floor[j] <= call[c].val
  <2>1. ASSUME NEW j \in Keys, NEW c \in Calls, inflight[j] = c,
               call[c].st = "read", call[c].res = "ok"
        PROVE  floor[j] <= call[c].val
    BY <2>1 DEF IInv, InflightIsLive, LiveResults, TypeOK, Call
  <2>2. ASSUME NEW j \in Keys, entries[j] # None PROVE floor[j] <= entries[j].data
    BY <2>2 DEF IInv, TypeOK, NothingStaleCached, Entry
  <2>3. QED BY <2>1, <2>2 DEF IInv, TypeOK, FloorBelowDb
<1>5. QED
  <2> SUFFICES ASSUME NEW j \in Keys
               PROVE  /\ floor[j] <= floor'[j] /\ floor'[j] <= db[j]
                      /\ entries[j] # None => floor'[j] <= entries[j].data
                      /\ \A c \in Calls : /\ inflight[j] = c /\ call[c].st = "read"
                                          /\ call[c].res = "ok"
                                          => floor'[j] <= call[c].val
    BY DEF FloorRises
  <2>1. CASE j # k
    BY <1>1, <1>2, <1>4, <2>1
  <2>2. CASE j = k
    BY <1>1, <1>3, <1>4, <2>2
  <2>3. QED BY <2>1, <2>2

(* Going on without an answer and without a call. *)
LEMMA GotoLeaves ==
    ASSUME IInv, TypeOK', CallsKept, UNCHANGED floor, NEW r \in Readers,
           reader[r].pc # "idle", NEW pc, pc # "wait", Goto(r, pc, None),
           UNCHANGED <<db, entries, inflight, generation>>
    PROVE  IInv'
<1> DEFINE rec == [pc |-> pc, key |-> reader[r].key, call |-> None,
                   floor |-> reader[r].floor, got |-> None]
<1>1. reader' = [reader EXCEPT ![r] = rec]
  BY DEF Goto
<1>2. rec.pc = pc /\ rec.key = reader[r].key /\ rec.floor = reader[r].floor
  OBVIOUS
<1> HIDE DEF rec
<1>3. QED BY <1>1, <1>2, FloorStays, LeavePreserves

(* The five ways a handler stops waiting. *)
LEMMA LeaveSteps ==
    ASSUME IInv, TypeOK', NEW r \in Readers,
           Hit(r) \/ Deliver(r) \/ Retry(r) \/ Cancel(r) \/ ServeStale(r)
    PROVE  IInv'
<1>1. TypeOK
  BY DEF IInv
<1>2. \A v : Idle(v).pc = "idle"
  BY DEF Idle
<1>3. CASE Hit(r)
  <2>1. entries[reader[r].key].data \in Nat
    BY <1>1, <1>3 DEF Hit, Fresh, TypeOK, Entry
  <2>2. FloorRises
    <3>1. entries[reader[r].key].data <= db[reader[r].key]
      BY <1>3, <1>1 DEF Hit, Fresh, IInv, NothingStaleCached, TypeOK
    <3>2. ASSUME NEW c \in Calls, inflight[reader[r].key] = c,
                 call[c].st = "read", call[c].res = "ok"
          PROVE  entries[reader[r].key].data <= call[c].val
      BY <1>1, <1>3, <3>2 DEF Hit, Fresh, IInv, InflightIsLive, LiveResults, TypeOK
    <3>3. QED BY <1>3, <2>1, <3>1, <3>2, AnswerRaises DEF Hit
  <2>3. CallsKept
    BY <1>3 DEF Hit, CallsKept
  <2>4. QED BY <1>1, <1>2, <1>3, <2>2, <2>3, LeavePreserves DEF Hit, cacheVars, Respond
<1>4. CASE Deliver(r)
  <2> DEFINE c == reader[r].call
  <2>1. c \in Calls /\ call[c].val \in Nat /\ reader[r].key \in Keys
    BY <1>1, <1>4 DEF Deliver, TypeOK, Reader, Call
  <2>2. CallsKept
    BY <1>1, <1>4, CollectKeeps DEF Deliver
  <2>3. CASE Respond(r, call[c].val) /\ call[c].res = "ok"
    <3>1. FloorRises
      BY <1>1, <1>4, <2>1, <2>3, AnswerRaises, SMTT(30) DEF Deliver, IInv, Waiters, TypeOK, Reader
    <3>2. QED BY <1>2, <1>4, <2>2, <2>3, <3>1, LeavePreserves
              DEF Deliver, cacheVars, Respond
  <2>4. CASE RespondError(r)
    BY <1>2, <1>4, <2>2, <2>4, FloorStays, LeavePreserves
    DEF Deliver, cacheVars, RespondError
  <2>5. CASE Goto(r, "stale", None) /\ UNCHANGED floor
    BY <1>4, <2>2, <2>5, GotoLeaves DEF Deliver, cacheVars
  <2>6. QED BY <1>4, <2>3, <2>4, <2>5 DEF Deliver
<1>5. CASE Retry(r)
  BY <1>1, <1>5, CollectKeeps, GotoLeaves DEF Retry, cacheVars
<1>6. CASE Cancel(r)
  BY <1>1, <1>6, CollectKeeps, GotoLeaves DEF Cancel, cacheVars
<1>7. CASE ServeStale(r)
  <2>1. CallsKept
    BY <1>7 DEF ServeStale, CallsKept
  <2>2. CASE entries[reader[r].key] # None /\ Respond(r, entries[reader[r].key].data)
    <3>1. entries[reader[r].key].data \in 0 .. db[reader[r].key]
      BY <1>1, <1>7, <2>2 DEF ServeStale, IInv, NothingStaleCached, TypeOK, Entry
    <3>2. ASSUME NEW c \in Calls, inflight[reader[r].key] = c,
                 call[c].st = "read", call[c].res = "ok"
          PROVE  entries[reader[r].key].data <= call[c].val
      BY <1>1, <1>7, <2>2, <3>2
      DEF ServeStale, IInv, InflightIsLive, LiveResults, TypeOK
    <3>3. FloorRises
      BY <1>1, <1>7, <2>2, <3>1, <3>2, AnswerRaises DEF ServeStale, TypeOK
    <3>4. QED BY <1>2, <1>7, <2>1, <2>2, <3>3, LeavePreserves
              DEF ServeStale, cacheVars, Respond
  <2>3. CASE RespondError(r)
    BY <1>2, <1>7, <2>1, <2>3, FloorStays, LeavePreserves
    DEF ServeStale, cacheVars, RespondError
  <2>4. QED BY <1>7, <2>2, <2>3 DEF ServeStale
<1>8. QED BY <1>3, <1>4, <1>5, <1>6, <1>7
(* A request starts, or joins the registered fetch of its key. *)
LEMMA BeginJoinSteps ==
    ASSUME IInv, TypeOK', NEW r \in Readers,
           (\E k \in Keys : Begin(r, k)) \/ Join(r)
    PROVE  IInv'
<1> USE DEF IInv
<1>1. UNCHANGED <<db, floor, entries, inflight, generation, call>>
  BY DEF Begin, Join, cacheVars
<1>2. FloorBelowDb' /\ NothingStaleCached' /\ InflightIsLive' /\ LiveCalls' /\ LiveResults'
  BY <1>1 DEF FloorBelowDb, NothingStaleCached, InflightIsLive, LiveCalls,
              LiveResults, Active
<1>3. \A q \in Readers : q # r => reader'[q] = reader[q]
  BY DEF Begin, Join, Goto, TypeOK
<1>4. /\ reader'[r].pc # "idle"
      /\ reader'[r].key \in Keys
      /\ reader'[r].floor <= floor[reader'[r].key]
  <2>1. CASE Join(r)
    BY <2>1 DEF Join, Goto, TypeOK, Waiters
  <2>2. ASSUME NEW k \in Keys, Begin(r, k)
        PROVE  /\ reader'[r].pc # "idle" /\ reader'[r].key = k
               /\ reader'[r].floor = floor[k]
    BY <2>2 DEF Begin, TypeOK
  <2>3. \A k \in Keys : floor[k] <= floor[k]
    BY DEF TypeOK
  <2>4. QED BY <2>1, <2>2, <2>3
<1>5. reader'[r].pc = "wait" =>
        LET c == reader'[r].call IN call[c].key = reader'[r].key /\ call[c].st # "done"
  <2>1. CASE Join(r)
    <3>1. inflight[reader[r].key] \in Calls /\ reader[r].key \in Keys
      BY <2>1 DEF Join, TypeOK
    <3>2. reader'[r].call = inflight[reader[r].key] /\ reader'[r].key = reader[r].key
      BY <2>1 DEF Join, Goto, TypeOK
    <3>3. QED BY <3>1, <3>2 DEF InflightIsLive, Active
  <2>2. CASE \E k \in Keys : Begin(r, k)
    BY <2>2 DEF Begin, TypeOK
  <2>3. QED BY <2>1, <2>2
<1>6. Waiters'
  BY <1>1, <1>3, <1>4, <1>5 DEF Waiters
<1>7. QED BY <1>2, <1>6

(* A first caller registers a new call. *)
LEMMA CreateStep ==
    ASSUME IInv, TypeOK', NEW r \in Readers, NEW c \in Calls, Create(r, c)
    PROVE  IInv'
<1> USE DEF IInv
<1> DEFINE k == reader[r].key
<1>1. k \in Keys /\ inflight[k] = None
  BY DEF Create, TypeOK
<1>2. /\ call'[c].st = "running" /\ call'[c].key = k /\ call'[c].invalidated = FALSE
      /\ call'[c].generation = generation[k]
      /\ \A d \in Calls : d # c => call'[d] = call[d]
  BY DEF Create, TypeOK
<1>3. inflight'[k] = c /\ \A j \in Keys : j # k => inflight'[j] = inflight[j]
  BY <1>1 DEF Create, TypeOK
<1>4. call[c].st = "done"
  BY DEF Create, Unused
<1>5. UNCHANGED <<db, floor, entries, generation>>
  BY DEF Create
<1>6. FloorBelowDb' /\ NothingStaleCached'
  BY <1>5 DEF FloorBelowDb, NothingStaleCached
<1>7. InflightIsLive'
  BY <1>1, <1>2, <1>3, <1>4, <1>5 DEF InflightIsLive, Active
<1>8. LiveCalls'
  <2> SUFFICES ASSUME NEW d \in Calls, call'[d].st # "done"
               PROVE  /\ ~call'[d].invalidated => inflight'[call'[d].key] = d
                      /\ call'[d].invalidated =>
                            call'[d].generation < generation'[call'[d].key]
    BY DEF LiveCalls, Active
  <2>1. CASE d = c
    BY <1>2, <1>3, <2>1
  <2>2. CASE d # c
    <3>1. call'[d] = call[d] /\ call[d].key \in Keys
      BY <1>2, <2>2 DEF TypeOK
    <3>2. QED BY <1>1, <1>3, <1>5, <3>1 DEF LiveCalls, Active
  <2>3. QED BY <2>1, <2>2
<1>9. LiveResults'
  BY <1>2, <1>5 DEF LiveResults
<1>10. /\ \A q \in Readers : q # r => reader'[q] = reader[q] /\ reader[q].call # c
       /\ reader'[r].call = c /\ reader'[r].key = k /\ reader'[r].floor = reader[r].floor
  BY DEF Create, Goto, Unused, TypeOK
<1>11. Waiters'
  <2>1. reader[r].floor <= floor[k]
    BY DEF Waiters, Create
  <2>2. \A q \in Readers : q # r /\ reader[q].pc = "wait" => call'[reader[q].call] = call[reader[q].call]
    BY <1>2, <1>10 DEF TypeOK, Reader
  <2>3. \A d \in Calls : call'[d].st = "read" =>
          d # c /\ call'[d] = call[d] /\ \A j \in Keys : inflight'[j] = d => inflight[j] = d
    BY <1>1, <1>2, <1>3
  <2>4. QED BY <1>2, <1>5, <1>10, <2>1, <2>2, <2>3 DEF Waiters, TypeOK
<1>12. QED BY <1>6, <1>7, <1>8, <1>9, <1>11

(* A fetch reads the database: as new as anything anybody can have. *)
LEMMA ReadStep ==
    ASSUME IInv, TypeOK', NEW c \in Calls, Read(c)
    PROVE  IInv'
<1> USE DEF IInv
<1>1. PICK res \in {"ok", "failed", "denied"}, v \in Nat :
        Return(c, res, v) /\ (res = "ok" => v = db[call[c].key])
  BY DEF Read, TypeOK
<1>2. /\ call[c].st = "running" /\ call'[c].st = "read" /\ call'[c].val = v
      /\ call'[c].res = res /\ call'[c].key = call[c].key
      /\ call'[c].generation = call[c].generation
      /\ call'[c].invalidated = call[c].invalidated
      /\ \A d \in Calls : d # c => call'[d] = call[d]
  BY <1>1 DEF Read, Return, TypeOK
<1>3. UNCHANGED <<db, floor, entries, inflight, generation, reader>>
  BY DEF Read, cacheVars
<1>4. FloorBelowDb' /\ NothingStaleCached'
  BY <1>3 DEF FloorBelowDb, NothingStaleCached
<1>5. InflightIsLive'
  BY <1>2, <1>3 DEF InflightIsLive, Active
<1>6. LiveCalls'
  BY <1>2, <1>3 DEF LiveCalls, Active
<1>7. LiveResults'
  <2>1. res = "ok" => /\ v \in floor[call[c].key] .. db[call[c].key]
                      /\ entries[call[c].key] # None => entries[call[c].key].data <= v
    <3>1. call[c].key \in Keys
      BY <1>2 DEF TypeOK
    <3>2. QED BY <1>1, <3>1 DEF FloorBelowDb, NothingStaleCached, TypeOK, Entry
  <2>2. QED BY <1>2, <1>3, <2>1 DEF LiveResults
<1>8. Waiters'
  <2> SUFFICES ASSUME NEW q \in Readers, reader[q].pc = "wait"
               PROVE  /\ call'[reader[q].call].key = reader[q].key
                      /\ /\ call'[reader[q].call].st = "done"
                         /\ call'[reader[q].call].res = "ok"
                         /\ ~call'[reader[q].call].invalidated
                         => /\ call'[reader[q].call].val \in reader[q].floor .. db[reader[q].key]
                            /\ entries[reader[q].key] # None =>
                                 call'[reader[q].call].val <= entries[reader[q].key].data
                            /\ \A d \in Calls :
                                 /\ inflight[reader[q].key] = d
                                 /\ call'[d].st = "read" /\ call'[d].res = "ok"
                                 => call'[reader[q].call].val <= call'[d].val
    BY <1>3 DEF Waiters
  <2>1. reader[q].call \in Calls /\ reader[q].key \in Keys
    BY DEF TypeOK, Reader
  <2>2. CASE reader[q].call = c
    BY <1>2, <2>2 DEF Waiters
  <2>3. CASE reader[q].call # c
    <3>1. call'[reader[q].call] = call[reader[q].call]
      BY <1>2, <2>1, <2>3
    <3>2. ASSUME call[reader[q].call].st = "done", call[reader[q].call].res = "ok",
                 ~call[reader[q].call].invalidated, inflight[reader[q].key] = c, res = "ok"
          PROVE  call[reader[q].call].val <= v
      <4>1. call[c].key = reader[q].key
        BY <2>1, <3>2 DEF InflightIsLive
      <4>2. call[reader[q].call].val \in Nat /\ call[reader[q].call].val <= db[reader[q].key]
        BY <2>1, <3>2 DEF Waiters, TypeOK, Call
      <4>3. QED BY <1>1, <3>2, <4>1, <4>2
    <3>3. QED BY <1>2, <2>1, <3>1, <3>2 DEF Waiters
  <2>4. QED BY <2>2, <2>3
<1>9. QED BY <1>4, <1>5, <1>6, <1>7, <1>8
(* A fetch finishes.  It is stored only if nothing overtook it, and then it  *)
(* was the registered fetch of its key, so that it replaces nothing newer.   *)
LEMMA FinishStep ==
    ASSUME IInv, TypeOK', NEW c \in Calls, Finish(c)
    PROVE  IInv'
<1> USE DEF IInv
<1> DEFINE k == call[c].key
           v == call[c].val
<1>1. call[c].st = "read" /\ k \in Keys /\ v \in Nat
  BY DEF Finish, TypeOK, Call
<1>2. UNCHANGED <<db, floor, generation, reader>>
  BY DEF Finish
<1>3. \A d \in Calls : d # c =>
        \/ call'[d] = call[d]
        \/ /\ call'[d] = Blank /\ call[d].st = "done"
           /\ \A r \in Readers : reader'[r].call # d
  BY DEF Finish, Collect, Close, TypeOK
<1>4. \/ /\ call'[c].st = "done" /\ call'[c].key = k /\ call'[c].val = v
         /\ call'[c].res = call[c].res /\ call'[c].invalidated = call[c].invalidated
      \/ call'[c] = Blank /\ \A r \in Readers : reader'[r].call # c
  BY DEF Finish, Collect, Close, TypeOK
<1>5. call'[c].st = "done"
  BY <1>4 DEF Blank
<1>6. \A d \in Calls : call'[d].st # "done" => d # c /\ call'[d] = call[d]
  BY <1>3, <1>5 DEF Blank
<1>7. ASSUME NEW j \in Keys
      PROVE  inflight'[j] = IF inflight[j] = c THEN None ELSE inflight[j]
  <2>1. \A i \in Keys : inflight[i] = c => i = k
    BY DEF InflightIsLive
  <2>2. QED BY <1>1, <2>1 DEF Finish, Unregister, TypeOK
<1>8. Storable(c) => /\ inflight[k] = c /\ ~call[c].invalidated /\ call[c].res = "ok"
                     /\ v \in floor[k] .. db[k]
                     /\ entries[k] # None => entries[k].data <= v
  <2>1. Storable(c) => ~call[c].invalidated
    <3>1. call[c].invalidated => call[c].generation < generation[k]
      BY <1>1 DEF LiveCalls, Active
    <3>2. call[c].generation \in Nat /\ generation[k] \in Nat
      BY <1>1 DEF TypeOK, Call
    <3>3. QED BY <3>1, <3>2 DEF Storable
  <2>2. ~call[c].invalidated => inflight[k] = c
    BY <1>1 DEF LiveCalls, Active
  <2>3. QED BY <1>1, <2>1, <2>2 DEF Storable, LiveResults
<1>9. \A j \in Keys :
        \/ entries'[j] = None
        \/ entries'[j] = entries[j] /\ ~(Storable(c) /\ j = k)
        \/ Storable(c) /\ j = k /\ entries'[j] = [data |-> v, storedAt |-> now]
  BY <1>1 DEF Finish, Drop, TypeOK
<1>10. FloorBelowDb' /\ NothingStaleCached'
  <2>1. FloorBelowDb'
    BY <1>2 DEF FloorBelowDb
  <2>2. NothingStaleCached'
    BY <1>2, <1>8, <1>9 DEF NothingStaleCached
  <2>3. QED BY <2>1, <2>2
<1>11. InflightIsLive'
  <2> SUFFICES ASSUME NEW j \in Keys, NEW d \in Calls, inflight'[j] = d
               PROVE  /\ call'[d].st # "done" /\ call'[d].key = j
                      /\ ~call'[d].invalidated
                      /\ call'[d].generation = generation'[j]
    BY DEF InflightIsLive, Active
  <2>1. inflight[j] = d /\ d # c
    <3>1. inflight'[j] # None
      OBVIOUS
    <3>2. QED BY <1>7, <3>1 DEF TypeOK
  <2>2. call[d].st # "done"
    BY <2>1 DEF InflightIsLive, Active
  <2>3. call'[d] = call[d]
    BY <1>3, <2>1, <2>2
  <2>4. QED BY <1>2, <2>1, <2>2, <2>3 DEF InflightIsLive, Active
<1>12. LiveCalls'
  <2> SUFFICES ASSUME NEW d \in Calls, call'[d].st # "done"
               PROVE  /\ ~call'[d].invalidated => inflight'[call'[d].key] = d
                      /\ call'[d].invalidated =>
                            call'[d].generation < generation'[call'[d].key]
    BY DEF LiveCalls, Active
  <2>1. d # c /\ call'[d] = call[d] /\ call[d].key \in Keys
    BY <1>6 DEF TypeOK
  <2>2. ASSUME ~call[d].invalidated PROVE inflight'[call[d].key] = d
    <3>1. inflight[call[d].key] = d
      BY <2>1, <2>2 DEF LiveCalls, Active
    <3>2. QED BY <1>7, <2>1, <3>1
  <2>3. QED BY <1>2, <2>1, <2>2 DEF LiveCalls, Active
<1>13. LiveResults'
  <2> SUFFICES ASSUME NEW d \in Calls, call'[d].st = "read", call'[d].res = "ok",
                      ~call'[d].invalidated
               PROVE  /\ call'[d].val \in floor'[call'[d].key] .. db'[call'[d].key]
                      /\ entries'[call'[d].key] # None =>
                           entries'[call'[d].key].data <= call'[d].val
    BY DEF LiveResults
  <2>1. d # c /\ call'[d] = call[d] /\ call[d].key \in Keys
    BY <1>6 DEF TypeOK
  <2>2. inflight[call[d].key] = d
    BY <2>1 DEF LiveCalls, Active
  <2>3. ~(Storable(c) /\ call[d].key = k)
    BY <1>8, <2>1, <2>2
  <2>4. entries'[call[d].key] # None => entries'[call[d].key] = entries[call[d].key]
    BY <1>9, <2>1, <2>3
  <2>5. QED BY <1>2, <2>1, <2>4 DEF LiveResults
<1>14. Waiters'
  <2> SUFFICES ASSUME NEW q \in Readers, reader[q].pc = "wait"
               PROVE  /\ call'[reader[q].call].key = reader[q].key
                      /\ /\ call'[reader[q].call].st = "done"
                         /\ call'[reader[q].call].res = "ok"
                         /\ ~call'[reader[q].call].invalidated
                         => /\ call'[reader[q].call].val \in reader[q].floor .. db[reader[q].key]
                            /\ entries'[reader[q].key] # None =>
                                 call'[reader[q].call].val <= entries'[reader[q].key].data
                            /\ \A d \in Calls :
                                 /\ inflight'[reader[q].key] = d
                                 /\ call'[d].st = "read" /\ call'[d].res = "ok"
                                 => call'[reader[q].call].val <= call'[d].val
    BY <1>2 DEF Waiters
  <2> DEFINE w == reader[q].call
             j == reader[q].key
  <2>1. w \in Calls /\ j \in Keys /\ call[w].key = j /\ reader[q].floor \in Nat
    BY DEF TypeOK, Reader, Waiters
  <2>2. CASE w = c
    <3>1. /\ call'[c].key = j /\ j = k /\ call'[c].val = v
          /\ call'[c].res = call[c].res /\ call'[c].invalidated = call[c].invalidated
      BY <1>2, <1>4, <2>1, <2>2
    <3>2. SUFFICES ASSUME call[c].res = "ok", ~call[c].invalidated
                   PROVE  /\ v \in reader[q].floor .. db[j]
                          /\ entries'[j] # None => v <= entries'[j].data
                          /\ inflight'[j] = None
      BY <2>2, <3>1 DEF TypeOK
    <3>3. inflight[k] = c /\ call[c].generation = generation[k]
      BY <1>1, <3>2 DEF LiveCalls, Active, InflightIsLive
    <3>4. Storable(c)
      BY <3>2, <3>3 DEF Storable
    <3>5. reader[q].floor <= floor[j] /\ floor[j] \in Nat /\ db[j] \in Nat
      BY <2>1 DEF Waiters, TypeOK
    <3>6. v \in reader[q].floor .. db[j]
      BY <1>1, <1>8, <2>1, <3>1, <3>4, <3>5
    <3>7. entries'[j] # None => v <= entries'[j].data
      BY <1>1, <1>9, <2>1, <3>1, <3>4
    <3>8. inflight'[j] = None
      BY <1>7, <2>1, <3>1, <3>3 DEF TypeOK
    <3>9. QED BY <3>6, <3>7, <3>8
  <2>3. CASE w # c
    <3>1. call'[w] = call[w]
      BY <1>2, <1>3, <2>1, <2>3
    <3>2. SUFFICES ASSUME call[w].st = "done", call[w].res = "ok", ~call[w].invalidated
                   PROVE  /\ call[w].val \in reader[q].floor .. db[j]
                          /\ entries'[j] # None => call[w].val <= entries'[j].data
                          /\ \A d \in Calls :
                               /\ inflight'[j] = d /\ call'[d].st = "read"
                               /\ call'[d].res = "ok"
                               => call[w].val <= call'[d].val
      BY <2>1, <3>1
    <3>3. /\ call[w].val \in reader[q].floor .. db[j]
          /\ entries[j] # None => call[w].val <= entries[j].data
          /\ \A d \in Calls : /\ inflight[j] = d /\ call[d].st = "read"
                              /\ call[d].res = "ok"
                              => call[w].val <= call[d].val
      BY <2>1, <3>2 DEF Waiters
    <3>4. ASSUME entries'[j] # None PROVE call[w].val <= entries'[j].data
      <4>1. CASE entries'[j] = entries[j]
        BY <3>3, <3>4, <4>1
      <4>2. CASE Storable(c) /\ j = k /\ entries'[j] = [data |-> v, storedAt |-> now]
        <5>1. inflight[j] = c /\ call[c].res = "ok"
          BY <1>8, <4>2
        <5>2. call[w].val <= v
          BY <1>1, <3>3, <5>1
        <5>3. QED BY <4>2, <5>2
      <4>3. QED BY <1>9, <2>1, <3>4, <4>1, <4>2
    <3>5. ASSUME NEW d \in Calls, inflight'[j] = d, call'[d].st = "read",
                 call'[d].res = "ok"
          PROVE  call[w].val <= call'[d].val
      <4>1. d # c /\ call'[d] = call[d]
        BY <1>6, <3>5
      <4>2. inflight[j] = d
        <5>1. inflight'[j] # None
          BY <3>5
        <5>2. QED BY <1>7, <2>1, <3>5, <5>1 DEF TypeOK
      <4>3. QED BY <3>3, <3>5, <4>1, <4>2
    <3>6. QED BY <3>3, <3>4, <3>5
  <2>4. QED BY <2>2, <2>3
<1>15. QED BY <1>10, <1>11, <1>12, <1>13, <1>14
(* A mutation only moves the database further ahead. *)
LEMMA CommitStep ==
    ASSUME IInv, TypeOK', NEW w \in Writers, NEW S \in SUBSET Keys, Commit(w, S)
    PROVE  IInv'
<1> USE DEF IInv
<1>1. UNCHANGED <<floor, entries, inflight, generation, call, reader>>
  BY DEF Commit, cacheVars
<1>2. \A k \in Keys : db[k] \in Nat /\ db'[k] \in Nat /\ db[k] <= db'[k]
  BY DEF Commit, TypeOK
<1>3. FloorBelowDb'
  BY <1>1, <1>2 DEF FloorBelowDb, TypeOK
<1>4. NothingStaleCached'
  BY <1>1, <1>2 DEF NothingStaleCached, TypeOK, Entry
<1>5. InflightIsLive' /\ LiveCalls'
  BY <1>1 DEF InflightIsLive, LiveCalls, Active
<1>6. LiveResults'
  <2> SUFFICES ASSUME NEW c \in Calls, call[c].st = "read", call[c].res = "ok",
                      ~call[c].invalidated
               PROVE  /\ call[c].val \in floor[call[c].key] .. db'[call[c].key]
                      /\ entries[call[c].key] # None =>
                           entries[call[c].key].data <= call[c].val
    BY <1>1 DEF LiveResults
  <2>1. call[c].key \in Keys /\ call[c].val \in Nat /\ floor[call[c].key] \in Nat
    BY DEF TypeOK, Call
  <2>2. QED BY <1>2, <2>1 DEF LiveResults
<1>7. Waiters'
  <2>1. ASSUME NEW q \in Readers, reader[q].pc = "wait",
               call[reader[q].call].val \in reader[q].floor .. db[reader[q].key]
        PROVE  call[reader[q].call].val \in reader[q].floor .. db'[reader[q].key]
    <3>1. reader[q].key \in Keys /\ reader[q].floor \in Nat
      BY <2>1 DEF TypeOK, Reader
    <3>2. QED BY <1>2, <2>1, <3>1
  <2>2. QED BY <1>1, <2>1 DEF Waiters
<1>8. QED BY <1>3, <1>4, <1>5, <1>6, <1>7

(* Invalidating a set of keys of which it misses no seen one that the        *)
(* mutation touched: entries and registered fetches are gone, the fetches    *)
(* are told, and their generation is behind.                                 *)
LEMMA InvalidateStep ==
    ASSUME IInv, TypeOK', NEW w \in Writers, Invalidate(w)
    PROVE  IInv'
<1> USE DEF IInv
<1>1. PICK S \in SUBSET Keys :
        /\ InvalidateKeysLocked(S)
        /\ \A k \in writer[w] : k \in S \/ (entries[k] = None /\ inflight[k] = None)
  <2>1. writer[w] \subseteq Keys
    BY DEF TypeOK
  <2>2. writer[w] \cap Seen \subseteq Keys /\ Seen \subseteq Keys
    BY DEF Seen
  <2>3. \A k \in writer[w] : k \in Seen \/ (entries[k] = None /\ inflight[k] = None)
    BY <2>1 DEF Seen
  <2>4. QED BY <2>1, <2>2, <2>3 DEF Invalidate
<1>2. UNCHANGED <<db, reader>>
  BY DEF Invalidate
<1>3. ASSUME NEW k \in Keys
      PROVE  /\ entries'[k] = IF k \in S THEN None ELSE entries[k]
             /\ inflight'[k] = IF k \in S THEN None ELSE inflight[k]
             /\ generation'[k] = IF k \in S THEN generation[k] + 1 ELSE generation[k]
             /\ floor'[k] = IF k \in writer[w] THEN db[k] ELSE floor[k]
  BY <1>1 DEF InvalidateKeysLocked, Drop, Invalidate
<1>4. ASSUME NEW c \in Calls
      PROVE  /\ call'[c].st = call[c].st /\ call'[c].key = call[c].key
             /\ call'[c].res = call[c].res /\ call'[c].val = call[c].val
             /\ call'[c].generation = call[c].generation
             /\ call'[c].invalidated
                  <=> call[c].invalidated \/ \E k \in S : inflight[k] = c
  BY <1>1 DEF InvalidateKeysLocked, TypeOK, Call
<1>5. \A k \in Keys : floor[k] <= floor'[k] /\ floor'[k] <= db'[k] /\ floor'[k] \in Nat
  BY <1>2, <1>3 DEF FloorBelowDb, TypeOK
<1>6. FloorBelowDb'
  BY <1>5 DEF FloorBelowDb
<1>7. NothingStaleCached'
  <2> SUFFICES ASSUME NEW k \in Keys, entries'[k] # None
               PROVE  entries'[k].data \in floor'[k] .. db'[k]
    BY DEF NothingStaleCached
  <2>1. k \notin S /\ entries'[k] = entries[k]
    BY <1>3
  <2>2. floor'[k] = floor[k]
    BY <1>1, <1>3, <2>1
  <2>3. QED BY <1>2, <2>1, <2>2 DEF NothingStaleCached
<1>8. InflightIsLive'
  <2> SUFFICES ASSUME NEW k \in Keys, NEW c \in Calls, inflight'[k] = c
               PROVE  /\ call'[c].st # "done" /\ call'[c].key = k
                      /\ ~call'[c].invalidated
                      /\ call'[c].generation = generation'[k]
    BY DEF InflightIsLive, Active
  <2>1. k \notin S /\ inflight[k] = c /\ generation'[k] = generation[k]
    BY <1>3
  <2>2. \A j \in S : inflight[j] # c
    BY <2>1 DEF InflightIsLive
  <2>3. QED BY <1>4, <2>1, <2>2 DEF InflightIsLive, Active
<1>9. LiveCalls'
  <2> SUFFICES ASSUME NEW c \in Calls, call'[c].st # "done"
               PROVE  /\ ~call'[c].invalidated => inflight'[call'[c].key] = c
                      /\ call'[c].invalidated =>
                            call'[c].generation < generation'[call'[c].key]
    BY DEF LiveCalls, Active
  <2>1. call[c].key \in Keys /\ call[c].st # "done" /\ call[c].generation \in Nat
    BY <1>4 DEF TypeOK, Call
  <2>2. ASSUME ~call'[c].invalidated PROVE inflight'[call[c].key] = c
    <3>1. inflight[call[c].key] = c
      BY <1>4, <2>1, <2>2 DEF LiveCalls, Active
    <3>2. call[c].key \notin S
      BY <1>4, <2>2, <3>1
    <3>3. QED BY <1>3, <2>1, <3>1, <3>2
  <2>3. ASSUME call'[c].invalidated
        PROVE  call[c].generation < generation'[call[c].key]
    <3>1. generation[call[c].key] \in Nat
          /\ generation[call[c].key] <= generation'[call[c].key]
      BY <1>3, <2>1 DEF TypeOK
    <3>2. CASE call[c].invalidated
      <4>1. call[c].generation < generation[call[c].key]
        BY <2>1, <3>2 DEF LiveCalls, Active
      <4>2. generation'[call[c].key] \in Nat
        BY <2>1 DEF TypeOK
      <4>3. QED BY <2>1, <3>1, <4>1, <4>2
    <3>3. CASE \E k \in S : inflight[k] = c
      <4>1. call[c].key \in S /\ call[c].generation = generation[call[c].key]
        BY <3>3 DEF InflightIsLive
      <4>2. generation'[call[c].key] = generation[call[c].key] + 1
        BY <1>3, <2>1, <4>1
      <4>3. QED BY <3>1, <4>1, <4>2
    <3>4. QED BY <1>4, <2>3, <3>2, <3>3
  <2>4. QED BY <1>4, <2>2, <2>3
<1>10. LiveResults'
  <2> SUFFICES ASSUME NEW c \in Calls, call'[c].st = "read", call'[c].res = "ok",
                      ~call'[c].invalidated
               PROVE  /\ call'[c].val \in floor'[call'[c].key] .. db'[call'[c].key]
                      /\ entries'[call'[c].key] # None =>
                           entries'[call'[c].key].data <= call'[c].val
    BY DEF LiveResults
  <2> DEFINE k == call[c].key
  <2>1. k \in Keys /\ call[c].st = "read" /\ call[c].res = "ok" /\ ~call[c].invalidated
    BY <1>4 DEF TypeOK
  <2>2. inflight[k] = c
    BY <2>1 DEF LiveCalls, Active
  <2>3. k \notin S
    BY <1>4, <2>2
  <2>4. floor'[k] = floor[k] /\ entries'[k] = entries[k]
    <3>1. inflight[k] # None
      BY <2>2
    <3>2. k \notin writer[w]
      BY <1>1, <2>3, <3>1
    <3>3. QED BY <1>3, <2>1, <2>3, <3>2
  <2>5. QED BY <1>2, <1>4, <2>1, <2>4 DEF LiveResults
<1>11. Waiters'
  <2> SUFFICES ASSUME NEW q \in Readers
               PROVE  /\ reader[q].pc # "idle" =>
                           reader[q].floor <= floor'[reader[q].key]
                      /\ reader[q].pc = "wait" =>
                         /\ call'[reader[q].call].key = reader[q].key
                         /\ /\ call'[reader[q].call].st = "done"
                            /\ call'[reader[q].call].res = "ok"
                            /\ ~call'[reader[q].call].invalidated
                            => /\ call'[reader[q].call].val
                                    \in reader[q].floor .. db[reader[q].key]
                               /\ entries'[reader[q].key] # None =>
                                    call'[reader[q].call].val <= entries'[reader[q].key].data
                               /\ \A d \in Calls :
                                    /\ inflight'[reader[q].key] = d
                                    /\ call'[d].st = "read" /\ call'[d].res = "ok"
                                    => call'[reader[q].call].val <= call'[d].val
    BY <1>2 DEF Waiters
  <2>1. reader[q].pc # "idle" => reader[q].floor <= floor'[reader[q].key]
    <3>1. ASSUME reader[q].pc # "idle"
          PROVE  /\ reader[q].key \in Keys /\ reader[q].floor \in Nat
                 /\ reader[q].floor <= floor[reader[q].key]
      BY <3>1 DEF TypeOK, Reader, Waiters
    <3>2. ASSUME NEW k \in Keys, NEW n \in Nat, n <= floor[k] PROVE n <= floor'[k]
      BY <1>5, <3>2 DEF TypeOK
    <3>3. QED BY <3>1, <3>2
  <2>2. ASSUME reader[q].pc = "wait"
        PROVE  reader[q].call \in Calls /\ reader[q].key \in Keys
    BY <2>2 DEF TypeOK, Reader
  <2>3. \A k \in Keys : entries'[k] # None => entries'[k] = entries[k]
    BY <1>3
  <2>4. ASSUME NEW k \in Keys, NEW d \in Calls, inflight'[k] = d PROVE inflight[k] = d
    BY <1>3, <2>4
  <2>5. QED BY <1>4, <2>1, <2>2, <2>3, <2>4 DEF Waiters
<1>12. QED BY <1>6, <1>7, <1>8, <1>9, <1>10, <1>11

(* The remaining steps leave alone what the invariant is about. *)
LEMMA QuietSteps ==
    ASSUME IInv, TypeOK',
           Tick \/ UNCHANGED vars \/ \E w \in Writers : Abandon(w)
    PROVE  IInv'
<1>1. UNCHANGED <<db, floor, entries, inflight, generation, call, reader>>
  BY DEF Tick, Abandon, vars, cacheVars
<1>2. QED
  BY <1>1 DEF IInv, FloorBelowDb, NothingStaleCached, InflightIsLive, LiveCalls,
              LiveResults, Waiters, Active

(* IInv is inductive, from the initial states on. *)
THEOREM IInvCorrect == Spec => []IInv
<1>1. Init => IInv
  <2> SUFFICES ASSUME Init PROVE IInv
    OBVIOUS
  <2>1. TypeOK
    BY InitTyped
  <2>2. QED
    BY <2>1 DEF Init, IInv, FloorBelowDb, NothingStaleCached, InflightIsLive,
                LiveCalls, LiveResults, Waiters, Active, Blank, Idle
<1>2. IInv /\ [Next]_vars => IInv'
  <2> SUFFICES ASSUME IInv, [Next]_vars PROVE IInv'
    OBVIOUS
  <2>1. TypeOK'
    BY TypeStep DEF IInv
  <2>2. QED
    BY <2>1, BeginJoinSteps, LeaveSteps, CreateStep, ReadStep, FinishStep,
       CommitStep, InvalidateStep, QuietSteps
    DEF Next, ReaderStep, FetchStep
<1>3. QED BY <1>1, <1>2, PTL DEF Spec

(* No fetch that a mutation overtook, or that an older answer outruns, is    *)
(* ever left in the cache.                                                   *)
THEOREM NothingStale == Spec => []NothingStaleCached
<1>1. IInv => NothingStaleCached
  BY DEF IInv
<1>2. QED BY <1>1, IInvCorrect, PTL

(* Whoever joins a registered call joins one that is still being fetched.    *)
THEOREM InflightLive == Spec => []InflightIsLive
<1>1. IInv => InflightIsLive
  BY DEF IInv
<1>2. QED BY <1>1, IInvCorrect, PTL

(* Thundering-herd protection: one fetch of a key that was not overtaken.    *)
THEOREM SingleFlight == Spec => []OneLiveFetch
<1>1. IInv => OneLiveFetch
  <2> SUFFICES ASSUME IInv, NEW c \in Calls, NEW d \in Calls,
                      Active(c), ~call[c].invalidated,
                      Active(d), ~call[d].invalidated, call[c].key = call[d].key
               PROVE  c = d
    BY DEF OneLiveFetch
  <2>1. inflight[call[c].key] = c /\ inflight[call[d].key] = d
    BY DEF IInv, LiveCalls
  <2>2. QED BY <2>1
<1>2. QED BY <1>1, IInvCorrect, PTL
-----------------------------------------------------------------------------
(* The refinement, one lemma per kind of step of the promise.                *)

LEMMA BeginAsks ==
    ASSUME TypeOK, NEW r \in Readers, NEW k \in Keys, Begin(r, k)
    PROVE  Promise!Ask(r, k)
<1>1. ~Requests[r].open
  BY DEF Begin, Requests
<1>2. Requests' = [Requests EXCEPT ![r] =
                     [open |-> TRUE, key |-> k, floor |-> floor[k], got |-> None]]
  BY DEF Begin, Requests, TypeOK
<1>3. QED BY <1>1, <1>2 DEF Begin, Promise!Ask

(* A response within the bounds is an answer of the promise. *)
LEMMA RespondAnswers ==
    ASSUME TypeOK, NEW r \in Readers, reader[r].pc # "idle", NEW v \in Nat,
           Respond(r, v), reader[r].floor <= v, v <= db[reader[r].key], UNCHANGED db
    PROVE  Promise!Answer(r)
<1>1. Requests[r].open /\ Requests[r].floor = reader[r].floor /\ Requests[r].key = reader[r].key
  BY DEF Requests
<1>2. v \in Requests[r].floor .. db[Requests[r].key]
  <2>1. reader[r].floor \in Nat /\ db[reader[r].key] \in Nat
    BY DEF TypeOK, Reader
  <2>2. QED BY <1>1, <2>1
<1>3. Requests' = [Requests EXCEPT ![r] = Promise!Closed(v)]
  BY DEF Respond, Requests, Idle, Promise!Closed, TypeOK
<1>4. floor' = [floor EXCEPT ![Requests[r].key] = IF @ < v THEN v ELSE @]
  BY <1>1 DEF Respond
<1>5. QED BY <1>1, <1>2, <1>3, <1>4 DEF Promise!Answer

LEMMA RespondErrorAnswers ==
    ASSUME TypeOK, NEW r \in Readers, reader[r].pc # "idle", RespondError(r), UNCHANGED db
    PROVE  Promise!AnswerError(r)
<1>1. Requests[r].open
  BY DEF Requests
<1>2. Requests' = [Requests EXCEPT ![r] = Promise!Closed(None)]
  BY DEF RespondError, Requests, Idle, Promise!Closed, TypeOK
<1>3. QED BY <1>1, <1>2 DEF Promise!AnswerError, RespondError

(* A handler that goes on is not seen by its client. *)
LEMMA GotoHidden ==
    ASSUME IInv, NEW r \in Readers, reader[r].pc # "idle",
           NEW pc \in {"lookup", "wait", "stale"}, NEW c, Goto(r, pc, c)
    PROVE  UNCHANGED Requests
BY DEF Goto, Requests, IInv, TypeOK
(* Every step of the cache is a step of the promise or invisible to it. *)
LEMMA StepRefines ==
    ASSUME IInv, [Next]_vars PROVE [Promise!Next]_(Promise!vars)
<1>0. TypeOK
  BY DEF IInv
<1>1. ASSUME NEW r \in Readers, NEW k \in Keys, Begin(r, k) PROVE Promise!Next
  BY <1>0, <1>1, BeginAsks DEF Promise!Next
<1>2. ASSUME NEW r \in Readers, Hit(r) PROVE Promise!Next
  <2>1. /\ entries[reader[r].key].data \in Nat
        /\ reader[r].floor <= entries[reader[r].key].data
        /\ entries[reader[r].key].data <= db[reader[r].key]
    BY <1>0, <1>2 DEF Hit, Fresh, IInv, NothingStaleCached, Waiters, TypeOK, Entry, Reader
  <2>2. Promise!Answer(r)
    BY <1>0, <1>2, <2>1, RespondAnswers DEF Hit
  <2>3. QED BY <2>2 DEF Promise!Next
<1>3. ASSUME NEW r \in Readers, ServeStale(r) PROVE Promise!Next
  <2>1. CASE entries[reader[r].key] # None /\ Respond(r, entries[reader[r].key].data)
    <3>1. /\ entries[reader[r].key].data \in Nat
          /\ reader[r].floor <= entries[reader[r].key].data
          /\ entries[reader[r].key].data <= db[reader[r].key]
      BY <1>0, <1>3, <2>1
      DEF ServeStale, IInv, NothingStaleCached, Waiters, TypeOK, Entry, Reader
    <3>2. Promise!Answer(r)
      BY <1>0, <1>3, <2>1, <3>1, RespondAnswers DEF ServeStale
    <3>3. QED BY <3>2 DEF Promise!Next
  <2>2. CASE RespondError(r)
    BY <1>0, <1>3, <2>2, RespondErrorAnswers DEF ServeStale, Promise!Next
  <2>3. QED BY <1>3, <2>1, <2>2 DEF ServeStale
<1>4. ASSUME NEW r \in Readers, Deliver(r) PROVE Promise!Next \/ UNCHANGED Promise!vars
  <2> DEFINE c == reader[r].call
  <2>1. CASE call[c].res = "ok" /\ Respond(r, call[c].val)
    <3>1. c \in Calls /\ call[c].val \in Nat /\ reader[r].key \in Keys
      BY <1>0, <1>4 DEF Deliver, TypeOK, Reader, Call
    <3>2. reader[r].floor <= call[c].val /\ call[c].val <= db[reader[r].key]
      <4>1. call[c].val \in reader[r].floor .. db[reader[r].key]
        BY <1>4, <2>1 DEF Deliver, IInv, Waiters
      <4>2. reader[r].floor \in Nat /\ db[reader[r].key] \in Nat
        BY <1>0, <3>1 DEF TypeOK, Reader
      <4>3. QED BY <3>1, <4>1, <4>2
    <3>3. Promise!Answer(r)
      BY <1>0, <1>4, <2>1, <3>1, <3>2, RespondAnswers DEF Deliver
    <3>4. QED BY <3>3 DEF Promise!Next
  <2>2. CASE RespondError(r)
    BY <1>0, <1>4, <2>2, RespondErrorAnswers DEF Deliver, Promise!Next
  <2>3. CASE Goto(r, "stale", None) /\ UNCHANGED floor
    BY <1>4, <2>3, GotoHidden DEF Deliver, Promise!vars
  <2>4. QED BY <1>4, <2>1, <2>2, <2>3 DEF Deliver
<1>5. ASSUME NEW r \in Readers,
             Join(r) \/ (\E c \in Calls : Create(r, c)) \/ Retry(r) \/ Cancel(r)
      PROVE  UNCHANGED Promise!vars
  BY <1>5, GotoHidden DEF Join, Create, Retry, Cancel, Promise!vars
<1>6. ASSUME NEW w \in Writers, NEW S \in SUBSET Keys, Commit(w, S) PROVE Promise!Next
  <2>1. UNCHANGED Requests
    BY <1>6 DEF Commit, Requests
  <2>2. Promise!Commit(S)
    BY <1>6, <2>1 DEF Commit, Promise!Commit
  <2>3. QED BY <2>2 DEF Promise!Next
<1>7. ASSUME NEW w \in Writers, Invalidate(w) PROVE Promise!Next
  <2>1. UNCHANGED Requests
    BY <1>7 DEF Invalidate, Requests
  <2>2. Promise!Publish(writer[w])
    BY <1>7, <2>1 DEF Invalidate, Promise!Publish
  <2>3. writer[w] \in SUBSET Keys
    BY <1>0 DEF TypeOK
  <2>4. QED BY <2>2, <2>3 DEF Promise!Next
<1>8. ASSUME \/ \E c \in Calls : Read(c) \/ Finish(c)
             \/ \E w \in Writers : Abandon(w)
             \/ Tick
             \/ UNCHANGED vars
      PROVE  UNCHANGED Promise!vars
  BY <1>8 DEF Read, Finish, Abandon, Tick, vars, Promise!vars, Requests
<1>9. QED
  BY <1>1, <1>2, <1>3, <1>4, <1>5, <1>6, <1>7, <1>8 DEF Next, ReaderStep, FetchStep

(* Read-your-writes and monotonic reads: whatever the interleaving of        *)
(* handlers, fetches, invalidations, evictions and expiry, each answer is at *)
(* least as new as every mutation published, and every answer given, before  *)
(* the request began.                                                        *)
THEOREM Refinement == Spec => ReadThroughSpec
<1>1. Init => Promise!Init
  <2> SUFFICES ASSUME Init PROVE Promise!Init
    OBVIOUS
  <2>1. Requests = [r \in Readers |-> Promise!Closed(None)]
    BY DEF Init, Requests, Idle, Promise!Closed
  <2>2. QED BY <2>1 DEF Init, Promise!Init
<1>2. IInv /\ [Next]_vars => [Promise!Next]_(Promise!vars)
  BY StepRefines
<1>3. QED BY <1>1, <1>2, IInvCorrect, PTL DEF Spec, ReadThroughSpec, Promise!Spec

-----------------------------------------------------------------------------
(* The size of the cache. *)

(* What the bound rests on: only finitely many keys are ever cached, since   *)
(* each store adds one.                                                    *)
SizeInv == IsFiniteSet(Cached(entries)) /\ BoundedSize

(* Dropping some keys of a small cache leaves a small cache.               *)
LEMMA FewerCached ==
    ASSUME SizeInv, NEW e, Cached(e) \in SUBSET Cached(entries)
    PROVE  IsFiniteSet(Cached(e)) /\ Cardinality(Cached(e)) <= MaxEntries
<1>1. /\ IsFiniteSet(Cached(e))
      /\ Cardinality(Cached(e)) <= Cardinality(Cached(entries))
  BY FS_Subset DEF SizeInv
<1>2. Cardinality(Cached(e)) \in Nat /\ Cardinality(Cached(entries)) \in Nat
  BY <1>1, FS_CardinalityType DEF SizeInv
<1>3. QED BY <1>1, <1>2, BoundsAssumption DEF SizeInv, BoundedSize

(* evictLocked removes as many entries as there are too many: what is left   *)
(* after a store fits.                                                     *)
LEMMA EvictionFits ==
    ASSUME NEW e, IsFiniteSet(Cached(e)), NEW E \in Evictions(e)
    PROVE  /\ IsFiniteSet(Cached(Drop(e, E)))
           /\ Cardinality(Cached(Drop(e, E))) <= MaxEntries
<1>1. E \in SUBSET Cached(e) /\ Cardinality(E) = Excess(Cardinality(Cached(e)))
  BY DEF Evictions
<1>2. Cached(Drop(e, E)) = Cached(e) \ E
  BY DEF Cached, Drop
<1>3. Cached(e) \cap E = E
  BY <1>1
<1>4. /\ IsFiniteSet(Cached(e) \ E)
      /\ Cardinality(Cached(e) \ E) = Cardinality(Cached(e)) - Cardinality(E)
  BY <1>3, FS_Difference
<1>5. Cardinality(Cached(e)) \in Nat
  BY FS_CardinalityType
<1>6. Cardinality(Cached(e)) - Excess(Cardinality(Cached(e))) <= MaxEntries
  BY <1>5, BoundsAssumption DEF Excess
<1>7. QED BY <1>1, <1>2, <1>4, <1>6

(* runFetch stores one entry and evicts under the same lock.               *)
LEMMA FinishFits ==
    ASSUME SizeInv, TypeOK, NEW c \in Calls, Finish(c)
    PROVE  SizeInv'
<1> DEFINE stored == [entries EXCEPT ![call[c].key] =
                        [data |-> call[c].val, storedAt |-> now]]
<1>1. CASE UNCHANGED entries
  BY <1>1 DEF SizeInv, BoundedSize, Cached
<1>2. CASE \E E \in Evictions(stored) : entries' = Drop(stored, E)
  <2>1. Cached(stored) \in SUBSET (Cached(entries) \cup {call[c].key})
    BY DEF Cached, TypeOK
  <2>2. IsFiniteSet(Cached(entries) \cup {call[c].key})
    BY FS_AddElement DEF SizeInv
  <2>3. IsFiniteSet(Cached(stored))
    BY <2>1, <2>2, FS_Subset
  <2>4. PICK E \in Evictions(stored) : entries' = Drop(stored, E)
    BY <1>2
  <2>5. /\ IsFiniteSet(Cached(Drop(stored, E)))
        /\ Cardinality(Cached(Drop(stored, E))) <= MaxEntries
    <3> HIDE DEF stored
    <3> QED BY <2>3, EvictionFits
  <2>6. Cached(entries)' = Cached(Drop(stored, E))
    BY <2>4 DEF Cached
  <2>7. QED BY <2>5, <2>6 DEF SizeInv, BoundedSize
<1>3. QED BY <1>1, <1>2 DEF Finish

(* A mutation only drops entries.                                          *)
LEMMA InvalidateFits ==
    ASSUME SizeInv, NEW w \in Writers, Invalidate(w)
    PROVE  SizeInv'
<1>1. PICK S : entries' = Drop(entries, S)
  BY DEF Invalidate, InvalidateKeysLocked
<1>2. Cached(entries') \in SUBSET Cached(entries)
  BY <1>1 DEF Cached, Drop
<1>3. QED BY <1>2, FewerCached DEF SizeInv, BoundedSize, Cached

(* The cache is never left above maxEntries, whoever stores concurrently    *)
(* (runFetch and evictLocked, read_cache.go).                              *)
THEOREM SizeBounded == Spec => []BoundedSize
<1>1. Init => SizeInv
  <2> SUFFICES ASSUME Init PROVE SizeInv
    OBVIOUS
  <2>1. Cached(entries) = {}
    BY DEF Init, Cached
  <2>2. QED BY <2>1, FS_EmptySet, BoundsAssumption DEF SizeInv, BoundedSize
<1>2. SizeInv /\ TypeOK /\ [Next]_vars => SizeInv'
  <2> SUFFICES ASSUME SizeInv, TypeOK, [Next]_vars PROVE SizeInv'
    OBVIOUS
  <2>1. CASE UNCHANGED entries
    BY <2>1 DEF SizeInv, BoundedSize, Cached
  <2>2. ASSUME NEW c \in Calls, Finish(c) PROVE SizeInv'
    BY <2>2, FinishFits
  <2>3. ASSUME NEW w \in Writers, Invalidate(w) PROVE SizeInv'
    BY <2>3, InvalidateFits
  <2>4. ASSUME NEW r \in Readers, NEW k \in Keys, Begin(r, k) PROVE UNCHANGED entries
    BY <2>4 DEF Begin, cacheVars
  <2>5. ASSUME NEW r \in Readers, ReaderStep(r) \/ Cancel(r) PROVE UNCHANGED entries
    BY <2>5 DEF ReaderStep, Hit, Join, Create, Deliver, Retry, ServeStale, Cancel, cacheVars
  <2>6. ASSUME NEW c \in Calls, Read(c) PROVE UNCHANGED entries
    BY <2>6 DEF Read, cacheVars
  <2>7. ASSUME NEW w \in Writers, NEW S \in SUBSET Keys, Commit(w, S)
        PROVE  UNCHANGED entries
    BY <2>7 DEF Commit, cacheVars
  <2>8. Tick => UNCHANGED entries
    BY DEF Tick, cacheVars
  <2>9. ASSUME NEW w \in Writers, Abandon(w) PROVE UNCHANGED entries
    BY <2>9 DEF Abandon, cacheVars
  <2>10. UNCHANGED vars => UNCHANGED entries
    BY DEF vars, cacheVars
  <2>11. QED BY <2>1, <2>2, <2>3, <2>4, <2>5, <2>6, <2>7, <2>8, <2>9, <2>10 DEF Next, FetchStep
<1>3. SizeInv => BoundedSize
  BY DEF SizeInv
<1>4. QED BY <1>1, <1>2, <1>3, TypeCorrect, PTL DEF Spec
=============================================================================
