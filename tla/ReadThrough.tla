---------------------------- MODULE ReadThrough ----------------------------
(***************************************************************************)
(* What a read cache in front of a mutable database promises its callers,  *)
(* with no cache in sight.  db[k] counts the mutations of what key k shows *)
(* and floor[k] is the oldest version that a request starting now may be   *)
(* answered with: publishing a mutation raises it to the current version,  *)
(* and so does every answer, to the version it carried.  The two together  *)
(* are read-your-writes (a mutation whose handler has responded is seen by *)
(* every later request) and monotonic reads across all clients (once some  *)
(* client has seen a version, nobody who asks later sees an older one).    *)
(***************************************************************************)
EXTENDS Integers

CONSTANTS Keys,     \* cache keys
          Readers,  \* concurrent requests
          None      \* no key, no version

VARIABLES db,       \* [Keys -> Nat]: mutations committed so far
          floor,    \* [Keys -> Nat]: oldest version a new request may see
          request   \* [Readers -> request], see Closed and Ask

vars == <<db, floor, request>>

(* Not being processed; the previous answer was got, or an error. *)
Closed(got) == [open |-> FALSE, key |-> None, floor |-> 0, got |-> got]

Init ==
    /\ db = [k \in Keys |-> 0]
    /\ floor = [k \in Keys |-> 0]
    /\ request = [r \in Readers |-> Closed(None)]

(* A request starts: it remembers the oldest version it may be given. *)
Ask(r, k) ==
    /\ ~request[r].open
    /\ request' = [request EXCEPT ![r] =
                     [open |-> TRUE, key |-> k, floor |-> floor[k], got |-> None]]
    /\ UNCHANGED <<db, floor>>

(* It is answered with some version between its floor and the present. *)
Answer(r) ==
    /\ request[r].open
    /\ \E v \in request[r].floor .. db[request[r].key] :
         /\ request' = [request EXCEPT ![r] = Closed(v)]
         /\ floor' = [floor EXCEPT ![request[r].key] = IF @ < v THEN v ELSE @]
    /\ UNCHANGED db

(* Or with an error. *)
AnswerError(r) ==
    /\ request[r].open
    /\ request' = [request EXCEPT ![r] = Closed(None)]
    /\ UNCHANGED <<db, floor>>

(* A mutation changes what the keys in S show. *)
Commit(S) ==
    /\ db' = [k \in Keys |-> IF k \in S THEN db[k] + 1 ELSE db[k]]
    /\ UNCHANGED <<floor, request>>

(* Its handler is about to respond: from now on it must be seen. *)
Publish(S) ==
    /\ floor' = [k \in Keys |-> IF k \in S THEN db[k] ELSE floor[k]]
    /\ UNCHANGED <<db, request>>

Next ==
    \/ \E r \in Readers : \/ \E k \in Keys : Ask(r, k)
                          \/ Answer(r)
                          \/ AnswerError(r)
    \/ \E S \in SUBSET Keys : Commit(S) \/ Publish(S)

Spec == Init /\ [][Next]_vars
=============================================================================
