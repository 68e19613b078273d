------------------------------ MODULE DEKCache ------------------------------
(***************************************************************************)
(* Decrypting stored credentials with KMS (internal/dolthubauth/kms.go):   *)
(* the data key of an envelope is unwrapped by KMS, or taken from a        *)
(* bounded cache; whoever holds a key zeroes it after use.  The model      *)
(* keeps the byte buffers apart, because zeroing one is only right when    *)
(* nobody else reads it.                                                   *)
(***************************************************************************)
EXTENDS Integers, FiniteSets, Sequences

CONSTANTS
    Envelopes,      \* stored credentials; each has a data key of its own
    Decrypts,       \* calls of Decrypt
    Buffers,        \* byte slices
    Zero,           \* contents of a cleared slice
    MaxEntries      \* size of the cache

ASSUME DEKAssumption ==
    /\ MaxEntries \in Nat \ {0}
    /\ Zero \notin Envelopes
    /\ IsFiniteSet(Envelopes) /\ IsFiniteSet(Decrypts)
    \* make and append always find a new slice
    /\ IsFiniteSet(Buffers) =>
          Cardinality(Buffers) > Cardinality(Envelopes) + Cardinality(Decrypts)

VARIABLES
    bytes,          \* contents of each slice: the key of an envelope, or Zero
    entries,        \* the cached keys: slice, and whether the ttl has passed
    usedAt,         \* the cached envelopes, the least recently used first
    dec             \* progress of each call

dekVars == <<bytes, entries, usedAt, dec>>

DEKInit ==
    /\ bytes = [b \in Buffers |-> Zero]
    /\ entries = [e \in {} |-> 0]
    /\ usedAt = <<>>
    /\ dec = [d \in Decrypts |-> [pc |-> "idle"]]

Cached == DOMAIN entries

Unused(es) == SelectSeq(usedAt, LAMBDA e : e \notin es)

(* A slice nobody refers to is what make and append return; which one does  *)
(* not matter.                                                              *)
Unreferenced(b) ==
    /\ \A e \in Cached : entries[e].slice # b
    /\ \A d \in Decrypts : dec[d].pc \in {"set", "open"} => dec[d].dek # b

NewSlice == CHOOSE b \in Buffers : Unreferenced(b)

Decrypt(d) ==
    /\ dec[d].pc = "idle"
    /\ \E e \in Envelopes : dec' = [dec EXCEPT ![d] = [pc |-> "get", envelope |-> e]]
    /\ UNCHANGED <<bytes, entries, usedAt>>

\* Faulty: the caller receives the cache's own slice.
CacheHitAliased(d) ==
    LET e == dec[d].envelope
    IN  /\ dec[d].pc = "get"
        /\ e \in Cached /\ ~entries[e].expired
        /\ usedAt' = Append(Unused({e}), e)
        /\ dec' = [dec EXCEPT ![d] = [pc |-> "open", envelope |-> e, dek |-> entries[e].slice]]
        /\ UNCHANGED <<bytes, entries>>

(* Get: the caller receives a copy; an expired key is cleared and dropped.  *)
CacheHit(d) ==
    LET e == dec[d].envelope
    IN  /\ dec[d].pc = "get"
        /\ e \in Cached /\ ~entries[e].expired
        /\ usedAt' = Append(Unused({e}), e)
        /\ bytes' = [bytes EXCEPT ![NewSlice] = bytes[entries[e].slice]]
        /\ dec' = [dec EXCEPT ![d] = [pc |-> "open", envelope |-> e, dek |-> NewSlice]]
        /\ UNCHANGED entries

CacheMiss(d) ==
    LET e == dec[d].envelope
        old == {e} \cap Cached
    IN  /\ dec[d].pc = "get"
        /\ \A k \in old : entries[k].expired
        /\ bytes' = [b \in Buffers |-> IF \E k \in old : entries[k].slice = b
                                      THEN Zero ELSE bytes[b]]
        /\ entries' = [k \in Cached \ old |-> entries[k]]
        /\ usedAt' = Unused(old)
        /\ dec' = [dec EXCEPT ![d].pc = "unwrap"]

(* KMS answers with the key, or fails.                                      *)
Unwrap(d) ==
    LET e == dec[d].envelope
    IN  /\ dec[d].pc = "unwrap"
        /\ \/ /\ bytes' = [bytes EXCEPT ![NewSlice] = e]
              /\ dec' = [dec EXCEPT ![d] = [pc |-> "set", envelope |-> e, dek |-> NewSlice]]
           \/ /\ dec' = [dec EXCEPT ![d] = [pc |-> "idle"]]
              /\ UNCHANGED bytes
        /\ UNCHANGED <<entries, usedAt>>

(* evictLocked: the expired entries, and the least recently used of those  *)
(* that are left when they are still too many.                              *)
Evicted(order, expired) ==
    LET live == SelectSeq(order, LAMBDA k : k \notin expired)
    IN  expired \cup (IF Len(live) > MaxEntries THEN {Head(live)} ELSE {})

(* Set: the cache keeps a copy of its own and clears what it drops.         *)
CacheSet(d) ==
    LET e == dec[d].envelope
        order == Append(Unused({e}), e)
        gone == Evicted(order, {k \in Cached \ {e} : entries[k].expired})
    IN  /\ dec[d].pc = "set"
        /\ bytes' = [s \in Buffers |->
                       IF s = NewSlice THEN bytes[dec[d].dek]
                       ELSE IF \E k \in Cached \cap (gone \cup {e}) : entries[k].slice = s
                            THEN Zero
                       ELSE bytes[s]]
        /\ entries' = [k \in (Cached \cup {e}) \ gone |->
                         IF k = e THEN [slice |-> NewSlice, expired |-> FALSE] ELSE entries[k]]
        /\ usedAt' = SelectSeq(order, LAMBDA k : k \notin gone)
        /\ dec' = [dec EXCEPT ![d].pc = "open"]

(* gcm.Open with the caller's slice, which the deferred clearBytes zeroes.  *)
Open(d) ==
    /\ dec[d].pc = "open"
    /\ bytes' = [bytes EXCEPT ![dec[d].dek] = Zero]
    /\ dec' = [dec EXCEPT ![d] = [pc |-> "idle"]]
    /\ UNCHANGED <<entries, usedAt>>

(* An entry's five minutes pass.                                            *)
ExpireEntry(e) ==
    /\ e \in Cached
    /\ ~entries[e].expired
    /\ entries' = [entries EXCEPT ![e].expired = TRUE]
    /\ UNCHANGED <<bytes, usedAt, dec>>

DEKNext ==
    \/ \E d \in Decrypts : Decrypt(d) \/ CacheHit(d) \/ CacheMiss(d) \/ Unwrap(d)
                             \/ CacheSet(d) \/ Open(d)
    \/ \E e \in Envelopes : ExpireEntry(e)

DEKSpec == DEKInit /\ [][DEKNext]_dekVars
-----------------------------------------------------------------------------
(* A credential is opened with its own key: no other call's clearBytes, no  *)
(* eviction and no expiry has touched the slice this call holds, nor the    *)
(* slices from which later hits are copied.                                 *)
OpensWithItsKey ==
    /\ \A d \in Decrypts : dec[d].pc \in {"set", "open"} => bytes[dec[d].dek] = dec[d].envelope
    /\ \A e \in Cached : bytes[entries[e].slice] = e
=============================================================================
