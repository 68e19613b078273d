--------------------------- MODULE ServiceNonces ---------------------------
(***************************************************************************)
(* Service authentication of the hosted server's calls                     *)
(* (internal/dolthubauth/service_auth.go): a call carries a timestamp and  *)
(* a nonce; the service refuses a timestamp that is too far off, reaps the *)
(* nonces that have expired and records this one.  A copy of a call is     *)
(* what the HTTP transport sends again when a connection breaks.  Calls    *)
(* are verified concurrently, one action per database statement.           *)
(***************************************************************************)
EXTENDS Integers, FiniteSets

CONSTANTS
    Calls,          \* signed calls; each has a nonce of its own
    Copies,         \* deliveries of a call
    Skew,           \* maxClockSkew
    Drift,          \* how far the caller's clock may be from the service's
    LastTick        \* bound: the clock stops here

ASSUME NonceAssumption == Skew \in Nat \ {0} /\ Drift \in 0..Skew /\ LastTick \in Nat

VARIABLES
    clock,          \* the service's clock
    stamp,          \* the timestamp of each call that has been signed
    nonces,         \* service_request_nonces: expiry of each recorded nonce
    copy,           \* progress of each delivery
    admitted        \* history: when each delivery of a call was let in

nonceVars == <<clock, stamp, nonces, copy, admitted>>

Signed == DOMAIN stamp

NonceInit ==
    /\ clock = 0
    /\ stamp = [c \in {} |-> 0]
    /\ nonces = [c \in {} |-> 0]
    /\ copy = [d \in Calls \X Copies |-> [pc |-> "sent"]]
    /\ admitted = [c \in Calls |-> {}]

ClockTick ==
    /\ clock < LastTick
    /\ clock' = clock + 1
    /\ UNCHANGED <<stamp, nonces, copy, admitted>>

signServiceRequest(c) ==
    /\ c \notin Signed
    /\ \E at \in (clock - Drift)..(clock + Drift) :
          stamp' = [k \in Signed \cup {c} |-> IF k = c THEN at ELSE stamp[k]]
    /\ UNCHANGED <<clock, nonces, copy, admitted>>

Refuse(c, i) == copy' = [copy EXCEPT ![<<c, i>>] = [pc |-> "refused"]]

(* The service reads its clock and checks the timestamp against it.         *)
verifyTimestamp(c, i) ==
    LET delta == clock - stamp[c]
    IN  /\ c \in Signed
        /\ copy[<<c, i>>].pc = "sent"
        /\ IF delta > Skew \/ delta < -Skew
           THEN Refuse(c, i)
           ELSE copy' = [copy EXCEPT ![<<c, i>>] = [pc |-> "reap", at |-> clock]]
        /\ UNCHANGED <<clock, stamp, nonces, admitted>>

\* Faulty: a nonce expires with its timestamp, not with the window.
NonceExpiryAtStamp(c) == stamp[c]

NonceExpiry(c) == stamp[c] + Skew

Kept(at) == {c \in DOMAIN nonces : nonces[c] > at}

reapExpiredServiceNonces(c, i) ==
    LET at == copy[<<c, i>>].at
    IN  /\ copy[<<c, i>>].pc = "reap"
        /\ nonces' = [k \in Kept(at) |-> nonces[k]]
        /\ copy' = [copy EXCEPT ![<<c, i>>] = [pc |-> "insert"]]
        /\ UNCHANGED <<clock, stamp, admitted>>

(* The primary key refuses a nonce that is there: ErrServiceReplay.         *)
insertNonce(c, i) ==
    /\ copy[<<c, i>>].pc = "insert"
    /\ IF c \in DOMAIN nonces
       THEN /\ Refuse(c, i)
            /\ UNCHANGED <<nonces, admitted>>
       ELSE /\ nonces' = [k \in DOMAIN nonces \cup {c} |->
                             IF k = c THEN NonceExpiry(c) ELSE nonces[k]]
            /\ copy' = [copy EXCEPT ![<<c, i>>] = [pc |-> "admitted"]]
            /\ admitted' = [admitted EXCEPT ![c] = @ \cup {<<i, clock>>}]
    /\ UNCHANGED <<clock, stamp>>

NonceNext ==
    \/ ClockTick
    \/ \E c \in Calls : \/ signServiceRequest(c)
                        \/ \E i \in Copies : \/ verifyTimestamp(c, i)
                                             \/ reapExpiredServiceNonces(c, i)
                                             \/ insertNonce(c, i)

NonceSpec == NonceInit /\ [][NonceNext]_nonceVars
-----------------------------------------------------------------------------
(* A call is let in once while its timestamp is valid, however its copies   *)
(* and the reaping of other calls' verifications interleave: a nonce is     *)
(* never reaped before the timestamp it guards has gone out of the window.  *)
AdmittedOnceWhileValid ==
    \A c \in Signed :
        \A e, f \in {e \in admitted[c] : e[2] < stamp[c] + Skew} : e = f

=============================================================================
