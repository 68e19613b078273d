---------------------------- MODULE AuthService ----------------------------
(***************************************************************************)
(* The auth service's Postgres store (internal/dolthubauth): connect       *)
(* tokens, the one connection of each subject, and the transactions that   *)
(* redeem a token or patch a connection's metadata.  A transaction is one  *)
(* action per statement that locks or writes a row; row locks are those of *)
(* SELECT ... FOR UPDATE and of an uncommitted INSERT, and a transaction   *)
(* may be rolled back before its commit (a lost database connection, a     *)
(* cancelled request, the service's death).  The caller of a patch is the  *)
(* hosted server: it reads the connection first and sends the record       *)
(* version it read.                                                        *)
(***************************************************************************)
EXTENDS Integers, Sequences

CONSTANTS
    Subjects,       \* browsers' stable subject identifiers
    Tokens,         \* connect tokens that may be minted
    Redeems,        \* redemptions a browser may post
    Patches,        \* metadata changes the hosted server may ask for
    Upstreams,      \* wasteland upstreams
    Rigs,           \* rig handles
    Configs,        \* settings of a wasteland (fork, mode, signing)
    Approved,       \* metadata for which tokens are minted
    Asks,           \* changes the hosted server asks for
    None,           \* no row, no lock holder, nothing read
    TTL,            \* lifetime of a connect token, in ticks
    MaxTime         \* bound: the clock stops here

Wastelands == UNION {[us -> Configs] : us \in SUBSET Upstreams}

Metadata == [rig : Rigs, wastelands : Wastelands]

(* validateMetadata: at least one wasteland.                                *)
Valid(meta) == DOMAIN meta.wastelands # {}

(* A row of connections, whose credential is named after the token that set *)
(* it: the metadata and two versions.                                       *)
ConnectionRow == [meta : Metadata, key : Tokens, credential : Nat, record : Nat]

AnyAsk == [op : {"rig"}, rig : Rigs]
          \cup [op : {"upsert", "settings"}, upstream : Upstreams, config : Configs]
          \cup [op : {"delete"}, upstream : Upstreams]

ASSUME AuthAssumption ==
    /\ TTL \in Nat \ {0}
    /\ MaxTime \in Nat
    /\ None \notin Redeems \cup Patches /\ None \notin ConnectionRow
    /\ Redeems \cap Patches = {}
    /\ \A meta \in Approved : meta \in Metadata /\ Valid(meta)
    /\ Asks \subseteq AnyAsk

VARIABLES
    now,            \* the service's clock
    tokens,         \* connect_tokens: a row for each minted token, or None
    conns,          \* connections: the committed row of each subject, or None
    tokenLock,      \* holder of each token's row lock
    connLock,       \* holder of each connection's row lock, or of its insert
    tx,             \* the transaction of each redemption and patch
    redeemed        \* history: the tokens of each subject, in the order redeemed

authVars == <<now, tokens, conns, tokenLock, connLock, tx, redeemed>>

(***************************************************************************)
(* Metadata, as types.go changes it.                                       *)
(***************************************************************************)
UpsertWasteland(meta, u, config) ==
    [meta EXCEPT !.wastelands =
        [v \in DOMAIN @ \cup {u} |-> IF v = u THEN config ELSE @[v]]]

RemoveWasteland(meta, u) ==
    [meta EXCEPT !.wastelands = [v \in DOMAIN @ \ {u} |-> @[v]]]

MergedWith(meta, update) ==
    [rig |-> update.rig,
     wastelands |-> [v \in DOMAIN meta.wastelands \cup DOMAIN update.wastelands |->
                        IF v \in DOMAIN update.wastelands THEN update.wastelands[v]
                                                          ELSE meta.wastelands[v]]]

(* What a patch makes of the metadata: no element when it is refused.       *)
Patched(meta, ask) ==
    LET joined == DOMAIN meta.wastelands
    IN  CASE ask.op = "rig" -> {[meta EXCEPT !.rig = ask.rig]}
          [] ask.op = "upsert" -> {UpsertWasteland(meta, ask.upstream, ask.config)}
          [] ask.op = "settings" ->
                {UpsertWasteland(meta, u, ask.config) : u \in {ask.upstream} \cap joined}
          [] ask.op = "delete" ->
                IF \A u \in joined, v \in joined : u = v
                THEN {}
                ELSE {RemoveWasteland(meta, u) : u \in {ask.upstream} \cap joined}

(***************************************************************************)
(* Connect tokens.                                                         *)
(***************************************************************************)
Ended == [pc |-> "ended"]

AuthInit ==
    /\ now = 0
    /\ tokens = [t \in Tokens |-> [state |-> "unminted"]]
    /\ conns = [s \in Subjects |-> None]
    /\ tokenLock = [t \in Tokens |-> None]
    /\ connLock = [s \in Subjects |-> None]
    /\ tx = [x \in Redeems \cup Patches |-> [pc |-> "idle"]]
    /\ redeemed = [s \in Subjects |-> <<>>]

Tick ==
    /\ now < MaxTime
    /\ now' = now + 1
    /\ UNCHANGED <<tokens, conns, tokenLock, connLock, tx, redeemed>>

HasRow(t) == tokens[t].state \in {"pending", "used"}

connectTokenExpired(at, token) == token.expires <= at

Expired == {k \in Tokens : HasRow(k) /\ connectTokenExpired(now, tokens[k])}

PendingRow(s, meta) ==
    [state |-> "pending", subject |-> s, meta |-> meta, expires |-> now + TTL]

(* Minting reaps the expired tokens first: the DELETE waits for their locks.  *)
(* It commits by itself, the INSERT after it too; here they are one step: an  *)
(* expired token is refused whether its row is there or not.                  *)
CreateConnectToken(t) ==
    /\ tokens[t].state = "unminted"
    /\ \A k \in Expired : tokenLock[k] = None
    /\ \E s \in Subjects, meta \in Approved :
          tokens' = [k \in Tokens |-> IF k = t THEN PendingRow(s, meta)
                                     ELSE IF k \in Expired THEN [state |-> "reaped"]
                                     ELSE tokens[k]]
    /\ UNCHANGED <<now, conns, tokenLock, connLock, tx, redeemed>>

(***************************************************************************)
(* Redeeming a token: its row is locked, the credential is tried against   *)
(* DoltHub, the subject's row is locked or found missing, then written.    *)
(***************************************************************************)
BeginRedeem(r) ==
    /\ tx[r].pc = "idle"
    /\ \E t \in Tokens :
          /\ tokens[t].state # "unminted"
          /\ tx' = [tx EXCEPT ![r] = [pc |-> "lock", token |-> t, at |-> now]]
    /\ UNCHANGED <<now, tokens, conns, tokenLock, connLock, redeemed>>

\* Faulty: used_at is not looked at.
RedeemableAgain(t, at) == HasRow(t) /\ ~connectTokenExpired(at, tokens[t])

Redeemable(t, at) ==
    /\ tokens[t].state = "pending"
    /\ ~connectTokenExpired(at, tokens[t])

(* A submitted form that differs from what was approved is refused as well:  *)
(* Rollback covers that.                                                   *)
LockToken(r) ==
    LET t == tx[r].token
    IN  /\ tx[r].pc = "lock"
        /\ tokenLock[t] = None
        /\ IF Redeemable(t, tx[r].at)
           THEN /\ tokenLock' = [tokenLock EXCEPT ![t] = r]
                /\ tx' = [tx EXCEPT ![r] = [pc |-> "validate", token |-> t,
                                            subject |-> tokens[t].subject]]
           ELSE /\ tx' = [tx EXCEPT ![r] = Ended]
                /\ UNCHANGED tokenLock
        /\ UNCHANGED <<now, tokens, conns, connLock, redeemed>>

Release(locks, x) == [k \in DOMAIN locks |-> IF locks[k] = x THEN None ELSE locks[k]]

(* The API key is tried against DoltHub while the token's row is locked; a  *)
(* refusal, a rate limit or a failure rolls back, as does a failed Encrypt. *)
ValidateCredential(r) ==
    /\ tx[r].pc = "validate"
    /\ \/ /\ tx' = [tx EXCEPT ![r].pc = "select"]
          /\ UNCHANGED tokenLock
       \/ /\ tx' = [tx EXCEPT ![r] = Ended]
          /\ tokenLock' = Release(tokenLock, r)
    /\ UNCHANGED <<now, tokens, conns, connLock, redeemed>>

\* Faulty: SELECT without FOR UPDATE.
SelectUnlocked(r) ==
    /\ tx[r].pc = "select"
    /\ tx' = [tx EXCEPT ![r] = [pc |-> "write", token |-> @.token, subject |-> @.subject,
                                seen |-> conns[tx[r].subject]]]
    /\ UNCHANGED <<now, tokens, conns, tokenLock, connLock, redeemed>>

(* A row another transaction has inserted and not committed is not seen.    *)
SelectConnection(r) ==
    LET s == tx[r].subject
    IN  /\ tx[r].pc = "select"
        /\ conns[s] # None => connLock[s] = None
        /\ connLock' = [connLock EXCEPT ![s] = IF conns[s] = None THEN @ ELSE r]
        /\ tx' = [tx EXCEPT ![r] = [pc |-> "write", token |-> @.token,
                                    subject |-> s, seen |-> conns[s]]]
        /\ UNCHANGED <<now, tokens, conns, tokenLock, redeemed>>

\* Faulty: reconnecting leaves the record version alone.
ReconnectedSameRecord(old, token) ==
    IF old = None
    THEN [meta |-> tokens[token].meta, key |-> token, credential |-> 1, record |-> 1]
    ELSE [meta |-> MergedWith(old.meta, tokens[token].meta), key |-> token,
          credential |-> old.credential + 1, record |-> old.record]

(* The row a redemption writes over the one it saw.                         *)
Reconnected(old, token) ==
    IF old = None
    THEN [meta |-> tokens[token].meta, key |-> token, credential |-> 1, record |-> 1]
    ELSE [meta |-> MergedWith(old.meta, tokens[token].meta), key |-> token,
          credential |-> old.credential + 1, record |-> old.record + 1]

(* UNIQUE(tenant, environment, subject): an insert waits for another one    *)
(* of the subject, and fails once that has been committed.                  *)
WriteConnection(r) ==
    LET s == tx[r].subject
        row == Reconnected(tx[r].seen, tx[r].token)
    IN  /\ tx[r].pc = "write"
        /\ connLock[s] \in {None, r}
        /\ tx[r].seen = None => conns[s] = None
        /\ connLock' = [connLock EXCEPT ![s] = r]
        /\ tx' = [tx EXCEPT ![r] = [pc |-> "commit", token |-> @.token,
                                    subject |-> s, row |-> row]]
        /\ UNCHANGED <<now, tokens, conns, tokenLock, redeemed>>

(* The token is marked used and the connection appears in one commit.       *)
CommitRedeem(r) ==
    LET s == tx[r].subject
        t == tx[r].token
    IN  /\ tx[r].pc = "commit"
        /\ conns' = [conns EXCEPT ![s] = tx[r].row]
        /\ tokens' = [tokens EXCEPT ![t].state = "used"]
        /\ redeemed' = [redeemed EXCEPT ![s] = Append(@, t)]
        /\ tokenLock' = Release(tokenLock, r)
        /\ connLock' = Release(connLock, r)
        /\ tx' = [tx EXCEPT ![r] = Ended]
        /\ UNCHANGED now

(***************************************************************************)
(* Patching the metadata with the record version the caller has read.      *)
(***************************************************************************)
GetConnection(p) ==
    /\ tx[p].pc = "idle"
    /\ \E s \in Subjects, ask \in Asks :
          /\ conns[s] # None
          /\ tx' = [tx EXCEPT ![p] = [pc |-> "patch", subject |-> s,
                                      seen |-> conns[s], ask |-> ask]]
    /\ UNCHANGED <<now, tokens, conns, tokenLock, connLock, redeemed>>

\* Faulty: the early returns forget the rollback.
LockForPatchLeaks(p) ==
    LET s == tx[p].subject
        results == IF conns[s].record = tx[p].seen.record
                   THEN Patched(conns[s].meta, tx[p].ask) ELSE {}
    IN  /\ tx[p].pc = "patch"
        /\ connLock[s] = None
        /\ connLock' = [connLock EXCEPT ![s] = p]
        /\ IF results = {}
           THEN tx' = [tx EXCEPT ![p] = Ended]
           ELSE \E meta \in results :
                tx' = [tx EXCEPT ![p] =
                         [pc |-> "commit", subject |-> s, seen |-> @.seen, ask |-> @.ask,
                          row |-> [conns[s] EXCEPT !.meta = meta, !.record = @ + 1]]]
        /\ UNCHANGED <<now, tokens, conns, tokenLock, redeemed>>

(* patchMetadataTx up to its UPDATE; ErrConflict when the version has moved. *)
LockForPatch(p) ==
    LET s == tx[p].subject
        results == IF conns[s].record = tx[p].seen.record
                   THEN Patched(conns[s].meta, tx[p].ask) ELSE {}
    IN  /\ tx[p].pc = "patch"
        /\ connLock[s] = None
        /\ IF results = {}
           THEN /\ tx' = [tx EXCEPT ![p] = Ended]
                /\ UNCHANGED connLock
           ELSE \E meta \in results :
                /\ connLock' = [connLock EXCEPT ![s] = p]
                /\ tx' = [tx EXCEPT ![p] =
                            [pc |-> "commit", subject |-> s, seen |-> @.seen, ask |-> @.ask,
                             row |-> [conns[s] EXCEPT !.meta = meta, !.record = @ + 1]]]
        /\ UNCHANGED <<now, tokens, conns, tokenLock, redeemed>>

CommitPatch(p) ==
    /\ tx[p].pc = "commit"
    /\ conns' = [conns EXCEPT ![tx[p].subject] = tx[p].row]
    /\ connLock' = Release(connLock, p)
    /\ tx' = [tx EXCEPT ![p] = Ended]
    /\ UNCHANGED <<now, tokens, tokenLock, redeemed>>

(* An error before the commit: the deferred rollback undoes everything.     *)
Rollback(x) ==
    /\ tx[x].pc \notin {"idle", "ended"}
    /\ tx' = [tx EXCEPT ![x] = Ended]
    /\ tokenLock' = Release(tokenLock, x)
    /\ connLock' = Release(connLock, x)
    /\ UNCHANGED <<now, tokens, conns, redeemed>>

RedeemStep(r) ==
    \/ LockToken(r) \/ ValidateCredential(r)
    \/ SelectConnection(r) \/ WriteConnection(r) \/ CommitRedeem(r)

PatchStep(p) == LockForPatch(p) \/ CommitPatch(p)

AuthNext ==
    \/ Tick
    \/ \E t \in Tokens : CreateConnectToken(t)
    \/ \E r \in Redeems : BeginRedeem(r) \/ RedeemStep(r)
    \/ \E p \in Patches : GetConnection(p) \/ PatchStep(p)
    \/ \E x \in Redeems \cup Patches : Rollback(x)

AuthSpec == AuthInit /\ [][AuthNext]_authVars
-----------------------------------------------------------------------------
(***************************************************************************)
(* Properties.                                                             *)
(***************************************************************************)
(* The holders of the locks a transaction's next statement waits for.       *)
WaitsFor(x) ==
    {y \in Redeems \cup Patches :
        /\ y # x
        /\ \/ tx[x].pc = "lock" /\ tokenLock[tx[x].token] = y
           \/ tx[x].pc \in {"select", "write", "patch"} /\ connLock[tx[x].subject] = y}

(* Row locks are taken in one order and none outlives its transaction: who  *)
(* waits for a lock waits for an open transaction, and that one at most for *)
(* another that waits for nobody.                                           *)
NoneWaitsForever ==
    \A x \in Redeems \cup Patches : \A y \in WaitsFor(x) :
        /\ tx[y].pc \notin {"idle", "ended"}
        /\ \A z \in WaitsFor(y) : tx[z].pc \notin {"idle", "ended"} /\ WaitsFor(z) = {}

(* A connect token establishes a credential once, however many redemptions  *)
(* of it are under way, and the stored credential is that of the last       *)
(* redemption committed, its version their number.                          *)
RedeemedOnce ==
    \A s \in Subjects :
        LET done == redeemed[s]
        IN  /\ \A i, j \in DOMAIN done : done[i] = done[j] => i = j
            /\ IF done = <<>> THEN conns[s] = None
               ELSE /\ conns[s] # None
                    /\ conns[s].key = done[Len(done)]
                    /\ conns[s].credential = Len(done)

(* What a transaction is for its caller, who sees no locks and no rows that *)
(* are not committed.                                                      *)
Requests ==
    [x \in Redeems \cup Patches |->
        CASE tx[x].pc = "idle" -> [state |-> "none"]
          [] tx[x].pc = "ended" -> [state |-> "over"]
          [] tx[x].pc = "lock" -> [state |-> "asked", token |-> tx[x].token, at |-> tx[x].at]
          [] x \in Patches /\ tx[x].pc \in {"patch", "commit"} ->
                [state |-> "asked", subject |-> tx[x].subject, seen |-> tx[x].seen,
                 ask |-> tx[x].ask]
          [] OTHER -> [state |-> "approved", token |-> tx[x].token]]

Store == INSTANCE ConnectionStore WITH requests <- Requests

(* Transactions that lock rows one by one and compare record versions       *)
(* implement requests that take effect at one instant: of what runs beside  *)
(* it a redemption or a patch sees all or nothing, and a patch whose caller *)
(* has read another row than it would replace changes nothing.             *)
StoreSpec == Store!Spec

Commits(p) == tx[p].pc = "commit" /\ conns' # conns /\ tx'[p].pc = "ended"

(* No reconnect and no concurrent patch loses a wasteland: one leaves only  *)
(* by the deletion that names it.                                           *)
OnlyDeleteRemoves ==
    [][\A s \in Subjects, u \in Upstreams :
          /\ conns[s] # None
          /\ u \in DOMAIN conns[s].meta.wastelands
          /\ u \notin DOMAIN conns'[s].meta.wastelands
          => \E p \in Patches : /\ Commits(p)
                                /\ tx[p].ask.op = "delete" /\ tx[p].ask.upstream = u]_authVars
=============================================================================
