-------------------------- MODULE ConnectionStore --------------------------
(***************************************************************************)
(* What the auth service promises about connections, with no transactions  *)
(* and no locks in sight: every redemption of a connect token and every    *)
(* patch of a connection's metadata takes effect as a whole at one instant *)
(* between its request and its answer, or not at all.  A redemption is let *)
(* through if its token was not yet expired when it was requested; a patch *)
(* is made of the very row that its caller has read.                       *)
(***************************************************************************)
EXTENDS Integers

CONSTANTS
    Subjects,         \* browsers' stable subject identifiers
    Tokens,           \* connect tokens
    Redeems,          \* requests to redeem a token
    Patches,          \* requests to change metadata
    Approved,         \* metadata for which tokens are minted
    Asks,             \* changes that are requested
    TTL,              \* lifetime of a token
    None,             \* no connection
    MergedWith(_, _), \* what metadata is after a reconnect with other metadata
    Patched(_, _)     \* what a change makes of it: nothing, if it is refused

VARIABLES
    now,        \* the clock
    tokens,     \* a row for each minted token that was not reaped
    conns,      \* the connection of each subject, or None
    requests    \* what was asked for and not answered yet

vars == <<now, tokens, conns, requests>>

Init ==
    /\ now = 0
    /\ tokens = [t \in Tokens |-> [state |-> "unminted"]]
    /\ conns = [s \in Subjects |-> None]
    /\ requests = [x \in Redeems \cup Patches |-> [state |-> "none"]]

Clock ==
    /\ now' = now + 1
    /\ UNCHANGED <<tokens, conns, requests>>

(* A new token; the expired ones are forgotten, redeemed or not. *)
Mint(t) ==
    /\ tokens[t].state = "unminted"
    /\ \E s \in Subjects, meta \in Approved :
          tokens' = [k \in Tokens |->
                       IF k = t
                       THEN [state |-> "pending", subject |-> s, meta |-> meta,
                             expires |-> now + TTL]
                       ELSE IF tokens[k].state \in {"pending", "used"} /\ tokens[k].expires <= now
                       THEN [state |-> "reaped"]
                       ELSE tokens[k]]
    /\ UNCHANGED <<now, conns, requests>>

Becomes(x, request) == requests' = [requests EXCEPT ![x] = request]

AskRedeem(r, t) ==
    /\ requests[r].state = "none" /\ tokens[t].state # "unminted"
    /\ Becomes(r, [state |-> "asked", token |-> t, at |-> now])
    /\ UNCHANGED <<now, tokens, conns>>

Approve(r) ==
    LET t == requests[r].token
    IN  /\ requests[r].state = "asked"
        /\ tokens[t].state = "pending" /\ ~(tokens[t].expires <= requests[r].at)
        /\ Becomes(r, [state |-> "approved", token |-> t])
        /\ UNCHANGED <<now, tokens, conns>>

Over(x) == Becomes(x, [state |-> "over"])

(* The connection that token t makes of the subject's old one. *)
Connected(old, t) ==
    [meta |-> IF old = None THEN tokens[t].meta ELSE MergedWith(old.meta, tokens[t].meta),
     key |-> t,
     credential |-> IF old = None THEN 1 ELSE old.credential + 1,
     record |-> IF old = None THEN 1 ELSE old.record + 1]

Redeem(r) ==
    LET t == requests[r].token
    IN  /\ requests[r].state = "approved" /\ tokens[t].state = "pending"
        /\ tokens' = [tokens EXCEPT ![t].state = "used"]
        /\ conns' = [conns EXCEPT ![tokens[t].subject] = Connected(@, t)]
        /\ Over(r)
        /\ UNCHANGED now

AskPatch(p, s, ask) ==
    /\ requests[p].state = "none" /\ conns[s] # None
    /\ Becomes(p, [state |-> "asked", subject |-> s, seen |-> conns[s], ask |-> ask])
    /\ UNCHANGED <<now, tokens, conns>>

Patch(p) ==
    LET seen == requests[p].seen
    IN  /\ requests[p].state = "asked" /\ conns[requests[p].subject] = seen
        /\ \E meta \in Patched(seen.meta, requests[p].ask) :
              conns' = [conns EXCEPT ![requests[p].subject] =
                          [seen EXCEPT !.meta = meta, !.record = @ + 1]]
        /\ Over(p)
        /\ UNCHANGED <<now, tokens>>

Fail(x) ==
    /\ requests[x].state \in {"asked", "approved"}
    /\ Over(x)
    /\ UNCHANGED <<now, tokens, conns>>

Next ==
    \/ Clock
    \/ \E t \in Tokens : Mint(t)
    \/ \E r \in Redeems : \/ \E t \in Tokens : AskRedeem(r, t)
                          \/ Approve(r) \/ Redeem(r)
    \/ \E p \in Patches : \/ \E s \in Subjects, ask \in Asks : AskPatch(p, s, ask)
                          \/ Patch(p)
    \/ \E x \in Redeems \cup Patches : Fail(x)

Spec == Init /\ [][Next]_vars
=============================================================================
