------------------------- MODULE AuthServiceProofs -------------------------
(***************************************************************************)
(* Proofs about the auth service: its transactions, for every number of    *)
(* subjects, tokens, redemptions, patches and wastelands; its record of    *)
(* nonces, for every number of calls and copies, every skew and clock; and *)
(* its cache of data keys, for every size of it and any credentials.       *)
(***************************************************************************)
EXTENDS AuthService, ServiceNonces, DEKCache, Functions, FiniteSetTheorems, SequenceTheorems, TLAPS

Txs == Redeems \cup Patches

(* Steps of a redemption at which it holds its token's row.                *)
Holding == {"validate", "select", "write", "commit"}

RedeemTyped(r) ==
    LET x == tx[r] IN
    /\ x.pc \in {"idle", "lock", "ended"} \cup Holding
    /\ x.pc \in {"lock"} \cup Holding => x.token \in Tokens
    /\ x.pc \in Holding => x.subject \in Subjects
    /\ x.pc = "validate" => x = [pc |-> "validate", token |-> x.token, subject |-> x.subject]
    /\ x.pc = "write" => x.seen \in ConnectionRow \cup {None}
    /\ x.pc = "commit" => x.row \in ConnectionRow

PatchTyped(p) ==
    LET x == tx[p] IN
    /\ x.pc \in {"idle", "patch", "commit", "ended"}
    /\ x.pc \in {"patch", "commit"} => /\ x.subject \in Subjects
                                       /\ x.seen \in ConnectionRow /\ x.ask \in AnyAsk
    /\ x.pc = "commit" => x.row \in ConnectionRow

TokenTyped(t) ==
    tokens[t].state = "pending" =>
        /\ tokens[t] = [state |-> "pending", subject |-> tokens[t].subject,
                        meta |-> tokens[t].meta, expires |-> tokens[t].expires]
        /\ tokens[t].subject \in Subjects /\ tokens[t].meta \in Metadata

AuthTypes ==
    /\ DOMAIN tokens = Tokens /\ \A t \in Tokens : TokenTyped(t)
    /\ conns \in [Subjects -> ConnectionRow \cup {None}]
    /\ tokenLock \in [Tokens -> Redeems \cup {None}]
    /\ connLock \in [Subjects -> Txs \cup {None}]
    /\ DOMAIN tx = Txs
    /\ \A r \in Redeems : RedeemTyped(r)
    /\ \A p \in Patches : PatchTyped(p)
    /\ redeemed \in [Subjects -> Seq(Tokens)]

(* A token's row is locked by the redemption that is at work on it, and as    *)
(* long as it is, the token stays as it was found.                         *)
TokenLocks ==
    /\ \A t \in Tokens : tokenLock[t] # None =>
          tx[tokenLock[t]].pc \in Holding /\ tx[tokenLock[t]].token = t
    /\ \A r \in Redeems : tx[r].pc \in Holding =>
          tokenLock[tx[r].token] = r /\ tokens[tx[r].token].state = "pending"

(* A connection's row is locked by who has selected or written it.         *)
Owns(x) ==
    \/ tx[x].pc = "commit"
    \/ x \in Redeems /\ tx[x].pc = "write" /\ tx[x].seen # None

ConnLocks ==
    /\ \A s \in Subjects : connLock[s] # None => Owns(connLock[s]) /\ tx[connLock[s]].subject = s
    /\ \A x \in Txs : Owns(x) => connLock[tx[x].subject] = x

(* What a redemption writes is made from the row that its commit replaces.  *)
RedeemRow(r) ==
    LET x == tx[r] IN
    /\ x.pc = "write" /\ x.seen # None => conns[x.subject] = x.seen
    /\ x.pc = "commit" => x.row = Reconnected(conns[x.subject], x.token)

(* What the caller of a patch has read is what is stored, unless the record   *)
(* version has moved on.                                                   *)
PatchRead(p) ==
    LET x == tx[p]
        stored == conns[x.subject]
    IN  x.pc \in {"patch", "commit"} =>
          /\ stored # None /\ x.seen.record <= stored.record
          /\ x.seen.record = stored.record => x.seen = stored

(* What it writes is made from what is stored.                             *)
PatchMade(p) ==
    LET x == tx[p]
        stored == conns[x.subject]
    IN  x.pc = "commit" =>
          /\ x.seen.record = stored.record
          /\ \E meta \in Patched(stored.meta, x.ask) :
                x.row = [stored EXCEPT !.meta = meta, !.record = @ + 1]

PatchRow(p) == PatchRead(p) /\ PatchMade(p)

WhatIsWritten ==
    /\ \A r \in Redeems : RedeemRow(r)
    /\ \A p \in Patches : PatchRow(p)

(* A token that was redeemed is never pending again.                       *)
Spent ==
    \A s \in Subjects : \A i \in DOMAIN redeemed[s] :
        tokens[redeemed[s][i]].state \in {"used", "reaped"}

AuthInv == AuthTypes /\ TokenLocks /\ ConnLocks /\ WhatIsWritten /\ Spent /\ RedeemedOnce
-----------------------------------------------------------------------------
(* Metadata.                                                               *)

LEMMA UpsertTyped ==
    ASSUME NEW meta \in Metadata, NEW u \in Upstreams, NEW config \in Configs
    PROVE  UpsertWasteland(meta, u, config) \in Metadata
<1>1. PICK us \in SUBSET Upstreams : meta.wastelands \in [us -> Configs]
  BY DEF Metadata, Wastelands
<1>2. [v \in us \cup {u} |-> IF v = u THEN config ELSE meta.wastelands[v]]
         \in [us \cup {u} -> Configs]
  BY <1>1
<1>3. us \cup {u} \in SUBSET Upstreams
  OBVIOUS
<1>4. [v \in DOMAIN meta.wastelands \cup {u} |-> IF v = u THEN config ELSE meta.wastelands[v]]
         \in Wastelands
  BY <1>1, <1>2, <1>3 DEF Wastelands
<1>5. QED BY <1>4 DEF UpsertWasteland, Metadata

LEMMA RemoveTyped ==
    ASSUME NEW meta \in Metadata, NEW u
    PROVE  RemoveWasteland(meta, u) \in Metadata
<1>1. PICK us \in SUBSET Upstreams : meta.wastelands \in [us -> Configs]
  BY DEF Metadata, Wastelands
<1>2. [v \in us \ {u} |-> meta.wastelands[v]] \in [us \ {u} -> Configs]
  BY <1>1
<1>3. us \ {u} \in SUBSET Upstreams
  OBVIOUS
<1>4. [v \in DOMAIN meta.wastelands \ {u} |-> meta.wastelands[v]] \in Wastelands
  BY <1>1, <1>2, <1>3 DEF Wastelands
<1>5. QED BY <1>4 DEF RemoveWasteland, Metadata

LEMMA MergeTyped ==
    ASSUME NEW meta \in Metadata, NEW update \in Metadata
    PROVE  MergedWith(meta, update) \in Metadata
<1>1. PICK us \in SUBSET Upstreams : meta.wastelands \in [us -> Configs]
  BY DEF Metadata, Wastelands
<1>2. PICK vs \in SUBSET Upstreams : update.wastelands \in [vs -> Configs]
  BY DEF Metadata, Wastelands
<1>3. [v \in us \cup vs |-> IF v \in vs THEN update.wastelands[v] ELSE meta.wastelands[v]]
         \in [us \cup vs -> Configs]
  BY <1>1, <1>2
<1>4. us \cup vs \in SUBSET Upstreams
  OBVIOUS
<1>5. [v \in DOMAIN meta.wastelands \cup DOMAIN update.wastelands |->
          IF v \in DOMAIN update.wastelands THEN update.wastelands[v] ELSE meta.wastelands[v]]
         \in Wastelands
  BY <1>1, <1>2, <1>3, <1>4 DEF Wastelands
<1>6. QED BY <1>5 DEF MergedWith, Metadata

(* A patch makes metadata of metadata, and takes at most the wasteland away   *)
(* that a deletion names.                                                  *)
LEMMA PatchMakes ==
    ASSUME NEW meta \in Metadata, NEW ask \in AnyAsk, NEW new \in Patched(meta, ask)
    PROVE  /\ new \in Metadata
           /\ \A u \in DOMAIN meta.wastelands \ DOMAIN new.wastelands :
                 ask.op = "delete" /\ ask.upstream = u
<1>1. CASE ask.op = "rig"
  <2>1. ask.rig \in Rigs /\ new = [meta EXCEPT !.rig = ask.rig]
    BY <1>1 DEF AnyAsk, Patched
  <2>2. QED BY <2>1 DEF Metadata
<1>2. CASE ask.op = "upsert"
  <2>1. /\ ask.upstream \in Upstreams /\ ask.config \in Configs
        /\ new = UpsertWasteland(meta, ask.upstream, ask.config)
    BY <1>2 DEF AnyAsk, Patched
  <2>2. DOMAIN meta.wastelands \subseteq DOMAIN new.wastelands
    BY <2>1 DEF UpsertWasteland, Metadata
  <2>3. QED BY <2>1, <2>2, UpsertTyped
<1>3. CASE ask.op = "settings"
  <2>1. /\ ask.upstream \in Upstreams /\ ask.config \in Configs
        /\ new = UpsertWasteland(meta, ask.upstream, ask.config)
    BY <1>3 DEF AnyAsk, Patched
  <2>2. DOMAIN meta.wastelands \subseteq DOMAIN new.wastelands
    BY <2>1 DEF UpsertWasteland, Metadata
  <2>3. QED BY <2>1, <2>2, UpsertTyped
<1>4. CASE ask.op = "delete"
  <2>1. new = RemoveWasteland(meta, ask.upstream)
    BY <1>4 DEF Patched
  <2>2. DOMAIN new.wastelands = DOMAIN meta.wastelands \ {ask.upstream}
    BY <2>1 DEF RemoveWasteland, Metadata
  <2>3. QED BY <1>4, <2>1, <2>2, RemoveTyped
<1>5. QED BY <1>1, <1>2, <1>3, <1>4 DEF AnyAsk

(* A patched row is a row, with the next record version and the old key.    *)
LEMMA PatchedRow ==
    ASSUME NEW old \in ConnectionRow, NEW meta \in Metadata
    PROVE  LET row == [old EXCEPT !.meta = meta, !.record = @ + 1] IN
           /\ row \in ConnectionRow /\ row.record = old.record + 1 /\ row.meta = meta
           /\ row.key = old.key /\ row.credential = old.credential
<1> DEFINE mid == [old EXCEPT !.meta = meta]
           row == [mid EXCEPT !.record = old.record + 1]
<1>1. /\ mid \in ConnectionRow /\ mid.meta = meta
      /\ mid.key = old.key /\ mid.credential = old.credential
  BY DEF ConnectionRow
<1>2. old.record + 1 \in Nat
  BY DEF ConnectionRow
<1>3. /\ row \in ConnectionRow /\ row.record = old.record + 1 /\ row.meta = meta
      /\ row.key = old.key /\ row.credential = old.credential
  <2> HIDE DEF mid
  <2> QED BY <1>1, <1>2 DEF ConnectionRow
<1>4. [old EXCEPT !.meta = meta, !.record = @ + 1] = row
  BY DEF ConnectionRow
<1>5. QED
  <2> HIDE DEF row
  <2> QED BY <1>3, <1>4

(* What a redemption writes: one credential more, no wasteland less.        *)
LEMMA ReconnectMakes ==
    ASSUME NEW old \in ConnectionRow \cup {None}, NEW t \in Tokens, tokens[t].meta \in Metadata,
           AuthAssumption
    PROVE  LET row == Reconnected(old, t) IN
           /\ row \in ConnectionRow /\ row.key = t
           /\ row.credential = IF old = None THEN 1 ELSE old.credential + 1
           /\ row.record = IF old = None THEN 1 ELSE old.record + 1
           /\ old # None => DOMAIN old.meta.wastelands \subseteq DOMAIN row.meta.wastelands
<1>1. CASE old = None
  BY <1>1 DEF Reconnected, ConnectionRow
<1>2. CASE old # None
  <2>1. old \in ConnectionRow /\ old.meta \in Metadata
    BY <1>2 DEF ConnectionRow
  <2>2. MergedWith(old.meta, tokens[t].meta) \in Metadata
    BY <2>1, MergeTyped
  <2>3. DOMAIN old.meta.wastelands \subseteq DOMAIN MergedWith(old.meta, tokens[t].meta).wastelands
    BY DEF MergedWith
  <2>4. QED BY <1>2, <2>1, <2>2, <2>3 DEF Reconnected, ConnectionRow
<1>3. QED BY <1>1, <1>2
-----------------------------------------------------------------------------
(* Statements that write no row.                                           *)

LEMMA AuthInitially == ASSUME AuthAssumption, AuthInit PROVE AuthInv
<1> USE DEF AuthInit
<1>1. AuthTypes
  <2>1. \A t \in Tokens : TokenTyped(t)
    BY DEF TokenTyped
  <2>2. \A r \in Redeems : RedeemTyped(r)
    BY DEF RedeemTyped, Holding, Txs
  <2>3. \A p \in Patches : PatchTyped(p)
    BY DEF PatchTyped, Txs
  <2>4. redeemed \in [Subjects -> Seq(Tokens)]
    OBVIOUS
  <2>5. QED BY <2>1, <2>2, <2>3, <2>4 DEF AuthTypes, Txs
<1>2. TokenLocks
  BY DEF TokenLocks, Holding
<1>3. ConnLocks
  BY DEF ConnLocks, Owns, Txs
<1>4. WhatIsWritten
  BY DEF WhatIsWritten, RedeemRow, PatchRow, PatchRead, PatchMade
<1>5. Spent
  BY DEF Spent
<1>6. RedeemedOnce
  <2>1. \A s \in Subjects : redeemed[s] = <<>> /\ conns[s] = None
    OBVIOUS
  <2>2. \A i \in DOMAIN <<>> : FALSE
    OBVIOUS
  <2>3. QED BY <2>1, <2>2, Zenon DEF RedeemedOnce
<1>7. QED BY <1>1, <1>2, <1>3, <1>4, <1>5, <1>6 DEF AuthInv

(* What is said of the others stays so when one transaction takes a step that *)
(* writes no row.                                                          *)
LEMMA OthersStay ==
    ASSUME AuthInv, NEW x \in Txs, NEW rec, tx' = [tx EXCEPT ![x] = rec],
           UNCHANGED <<tokens, conns, redeemed>>
    PROVE  /\ DOMAIN tx' = Txs /\ tx'[x] = rec
           /\ \A y \in Txs : y # x => tx'[y] = tx[y] /\ Owns(y)' = Owns(y)
           /\ \A t \in Tokens : TokenTyped(t)'
           /\ \A r \in Redeems : r # x => RedeemTyped(r)' /\ RedeemRow(r)'
           /\ \A p \in Patches : p # x => PatchTyped(p)' /\ PatchRow(p)'
           /\ Spent' /\ RedeemedOnce'
<1>1. DOMAIN tx' = Txs /\ tx'[x] = rec /\ \A y \in Txs : y # x => tx'[y] = tx[y]
  BY DEF AuthInv, AuthTypes
<1>2. \A y \in Txs : y # x => Owns(y)' = Owns(y)
  BY <1>1, Zenon DEF Owns
<1>3. \A t \in Tokens : TokenTyped(t)'
  BY DEF AuthInv, AuthTypes, TokenTyped
<1>4. ASSUME NEW r \in Redeems, r # x PROVE RedeemTyped(r)' /\ RedeemRow(r)'
  <2>1. tx'[r] = tx[r] /\ RedeemTyped(r) /\ RedeemRow(r)
    BY <1>1, <1>4 DEF Txs, AuthInv, AuthTypes, WhatIsWritten
  <2>2. QED BY <2>1 DEF RedeemTyped, RedeemRow, Reconnected
<1>5. ASSUME NEW p \in Patches, p # x PROVE PatchTyped(p)' /\ PatchRow(p)'
  <2>1. tx'[p] = tx[p] /\ PatchTyped(p) /\ PatchRow(p)
    BY <1>1, <1>5 DEF Txs, AuthInv, AuthTypes, WhatIsWritten
  <2>2. QED BY <2>1 DEF PatchTyped, PatchRow, PatchRead, PatchMade
<1>6. Spent' /\ RedeemedOnce'
  BY DEF AuthInv, Spent, RedeemedOnce
<1>7. QED BY <1>1, <1>2, <1>3, <1>4, <1>5, <1>6

(* Whatever step a transaction takes: it has the locks that go with where it  *)
(* is then, and took them from nobody.                                     *)
HoldsOnly(x, t) ==
    tokenLock'[t] = IF x \in Redeems /\ tx'[x].pc \in Holding /\ tx'[x].token = t THEN x
                    ELSE IF tokenLock[t] = x THEN None ELSE tokenLock[t]

OwnsOnly(x, s) ==
    connLock'[s] = IF Owns(x)' /\ tx'[x].subject = s THEN x
                   ELSE IF connLock[s] = x THEN None ELSE connLock[s]

LEMMA StepKeeps ==
    ASSUME AuthAssumption, AuthInv, NEW x \in Txs, NEW rec, tx' = [tx EXCEPT ![x] = rec],
           UNCHANGED <<tokens, conns, redeemed>>,
           tokenLock' \in [Tokens -> Redeems \cup {None}],
           connLock' \in [Subjects -> Txs \cup {None}],
           x \in Redeems => RedeemTyped(x)' /\ RedeemRow(x)',
           x \in Patches => PatchTyped(x)' /\ PatchRow(x)',
           \A t \in Tokens : HoldsOnly(x, t),
           \A s \in Subjects : OwnsOnly(x, s),
           x \in Redeems /\ rec.pc \in Holding =>
               tokens[rec.token].state = "pending" /\ tokenLock[rec.token] \in {None, x},
           Owns(x)' => connLock[rec.subject] \in {None, x}
    PROVE  AuthInv'
<1> USE DEF AuthInv
<1>1. /\ DOMAIN tx' = Txs /\ tx'[x] = rec
      /\ \A y \in Txs : y # x => tx'[y] = tx[y] /\ Owns(y)' = Owns(y)
      /\ \A t \in Tokens : TokenTyped(t)'
      /\ \A r \in Redeems : r # x => RedeemTyped(r)' /\ RedeemRow(r)'
      /\ \A p \in Patches : p # x => PatchTyped(p)' /\ PatchRow(p)'
      /\ Spent' /\ RedeemedOnce'
  BY OthersStay, Zenon
<1>2. (\A r \in Redeems : RedeemTyped(r)') /\ (\A p \in Patches : PatchTyped(p)')
  BY <1>1
<1>3. AuthTypes'
  BY <1>1, <1>2 DEF AuthTypes
<1>4. TokenLocks'
  <2>1. ASSUME NEW t \in Tokens, tokenLock'[t] # None
        PROVE  tx'[tokenLock'[t]].pc \in Holding /\ tx'[tokenLock'[t]].token = t
    <3>1. CASE x \in Redeems /\ tx'[x].pc \in Holding /\ tx'[x].token = t
      BY <3>1 DEF HoldsOnly
    <3>2. CASE ~(x \in Redeems /\ tx'[x].pc \in Holding /\ tx'[x].token = t)
      <4>1. tokenLock'[t] = tokenLock[t] /\ tokenLock[t] # x /\ tokenLock[t] \in Redeems
        BY <2>1, <3>2 DEF HoldsOnly, AuthTypes
      <4>2. QED BY <1>1, <2>1, <4>1 DEF TokenLocks, Txs
    <3>3. QED BY <3>1, <3>2
  <2>2. ASSUME NEW r \in Redeems, tx'[r].pc \in Holding
        PROVE  tokenLock'[tx'[r].token] = r /\ tokens'[tx'[r].token].state = "pending"
    <3>1. tx'[r].token \in Tokens
      BY <1>2, <2>2 DEF RedeemTyped
    <3>2. CASE r = x
      BY <1>1, <2>2, <3>1, <3>2 DEF HoldsOnly
    <3>3. CASE r # x
      <4>1. tx'[r] = tx[r]
        BY <1>1, <3>3 DEF Txs
      <4>2. tokenLock[tx[r].token] = r /\ tokens[tx[r].token].state = "pending"
        BY <2>2, <4>1 DEF TokenLocks
      <4>3. r # None /\ ~(x \in Redeems /\ tx'[x].pc \in Holding /\ tx'[x].token = tx[r].token)
        BY <1>1, <3>3, <4>2 DEF AuthAssumption
      <4>4. QED BY <3>1, <3>3, <4>1, <4>2, <4>3 DEF HoldsOnly
    <3>4. QED BY <3>2, <3>3
  <2>3. QED BY <2>1, <2>2 DEF TokenLocks
<1>5. ConnLocks'
  <2>1. ASSUME NEW s \in Subjects, connLock'[s] # None
        PROVE  \/ connLock'[s] = connLock[s] /\ Owns(connLock[s])' /\ tx'[connLock[s]].subject = s
               \/ connLock'[s] = x /\ Owns(x)' /\ tx'[x].subject = s
    <3>1. CASE ~(Owns(x)' /\ tx'[x].subject = s)
      <4>1. connLock'[s] = connLock[s] /\ connLock[s] # x /\ connLock[s] \in Txs
        BY <2>1, <3>1 DEF OwnsOnly, AuthTypes
      <4>2. QED BY <1>1, <2>1, <4>1 DEF ConnLocks
    <3>2. QED BY <3>1 DEF OwnsOnly
  <2>2. ASSUME NEW y \in Txs, Owns(y)' PROVE connLock'[tx'[y].subject] = y
    <3>1. tx'[y].subject \in Subjects
      BY <1>2, <2>2 DEF Owns, RedeemTyped, PatchTyped, Holding, Txs
    <3>2. CASE y = x
      <4>1. Owns(x)' /\ tx'[x].subject = tx'[y].subject
        BY <2>2, <3>2 DEF Owns
      <4>2. QED BY <3>1, <3>2, <4>1 DEF OwnsOnly
    <3>3. CASE y # x
      <4>1. tx'[y] = tx[y] /\ Owns(y)
        BY <1>1, <2>2, <3>3
      <4>2. connLock[tx[y].subject] = y
        BY <4>1 DEF ConnLocks
      <4>3. y # None /\ ~(Owns(x)' /\ tx'[x].subject = tx[y].subject)
        BY <1>1, <3>3, <4>2 DEF AuthAssumption, Txs
      <4>4. QED BY <3>1, <3>3, <4>1, <4>2, <4>3 DEF OwnsOnly
    <3>4. QED BY <3>2, <3>3
  <2>3. QED BY <2>1, <2>2 DEF ConnLocks, Owns
<1>6. WhatIsWritten'
  BY <1>1 DEF WhatIsWritten
<1>7. QED BY <1>1, <1>3, <1>4, <1>5, <1>6

(* A transaction that ends without a commit gives its locks back.           *)
LEMMA EndKeeps ==
    ASSUME AuthAssumption, AuthInv, NEW x \in Txs, tx' = [tx EXCEPT ![x] = Ended],
           tokenLock' = Release(tokenLock, x), connLock' = Release(connLock, x),
           UNCHANGED <<tokens, conns, redeemed>>
    PROVE  AuthInv'
<1>1. tx'[x] = Ended
  BY DEF AuthInv, AuthTypes
<1>2. /\ tokenLock' = [t \in Tokens |-> IF tokenLock[t] = x THEN None ELSE tokenLock[t]]
      /\ connLock' = [s \in Subjects |-> IF connLock[s] = x THEN None ELSE connLock[s]]
  BY DEF Release, AuthInv, AuthTypes
<1>3. /\ tokenLock' \in [Tokens -> Redeems \cup {None}]
      /\ connLock' \in [Subjects -> Txs \cup {None}]
  BY <1>2 DEF AuthInv, AuthTypes
<1>4. tx'[x].pc \notin Holding /\ ~Owns(x)'
  BY <1>1 DEF Ended, Holding, Owns
<1>5. (\A t \in Tokens : HoldsOnly(x, t)) /\ (\A s \in Subjects : OwnsOnly(x, s))
  BY <1>2, <1>4 DEF HoldsOnly, OwnsOnly
<1>6. RedeemTyped(x)' /\ RedeemRow(x)' /\ PatchTyped(x)' /\ PatchRow(x)'
  <2>1. tx'[x].pc = "ended"
    BY <1>1 DEF Ended
  <2>2. RedeemTyped(x)' /\ PatchTyped(x)'
    BY <2>1 DEF RedeemTyped, PatchTyped, Holding
  <2>3. RedeemRow(x)' /\ PatchRow(x)'
    BY <2>1, Zenon DEF RedeemRow, PatchRow, PatchRead, PatchMade
  <2>4. QED BY <2>2, <2>3
<1>7. Ended.pc \notin Holding
  BY DEF Ended, Holding
<1>8. QED BY <1>3, <1>4, <1>5, <1>6, <1>7, StepKeeps

(* A transaction that holds no lock gives none back.                       *)
LEMMA NothingToRelease ==
    ASSUME AuthInv, NEW x \in Txs, AuthAssumption
    PROVE  /\ tx[x].pc \notin Holding => tokenLock = Release(tokenLock, x)
           /\ ~Owns(x) => connLock = Release(connLock, x)
<1>1. tx[x].pc \notin Holding => \A t \in Tokens : tokenLock[t] # x
  BY DEF AuthInv, AuthTypes, TokenLocks, AuthAssumption, Txs
<1>2. ~Owns(x) => \A s \in Subjects : connLock[s] # x
  <2> SUFFICES ASSUME NEW s \in Subjects, connLock[s] = x PROVE Owns(x)
    BY Zenon
  <2>1. connLock[s] # None
    BY DEF AuthAssumption, Txs
  <2>2. Owns(connLock[s])
    BY <2>1 DEF AuthInv, ConnLocks
  <2>3. QED BY <2>2 DEF Owns
<1>3. /\ DOMAIN tokenLock = Tokens /\ tokenLock = [t \in Tokens |-> tokenLock[t]]
      /\ DOMAIN connLock = Subjects /\ connLock = [s \in Subjects |-> connLock[s]]
  BY DEF AuthInv, AuthTypes
<1>4. QED BY <1>1, <1>2, <1>3 DEF Release

(* A step that takes no lock and gives none back.                          *)
LEMMA SameLocksKeep ==
    ASSUME AuthAssumption, AuthInv, NEW x \in Txs, NEW rec, tx' = [tx EXCEPT ![x] = rec],
           UNCHANGED <<tokens, conns, redeemed, tokenLock, connLock>>,
           x \in Redeems => RedeemTyped(x)' /\ RedeemRow(x)',
           x \in Patches => PatchTyped(x)' /\ PatchRow(x)',
           x \in Redeems => (rec.pc \in Holding <=> tx[x].pc \in Holding),
           x \in Redeems /\ rec.pc \in Holding => rec.token = tx[x].token,
           ~Owns(x), ~Owns(x)'
    PROVE  AuthInv'
<1>1. tx'[x] = rec
  BY DEF AuthInv, AuthTypes
<1>2. /\ tokenLock' \in [Tokens -> Redeems \cup {None}]
      /\ connLock' \in [Subjects -> Txs \cup {None}]
  BY DEF AuthInv, AuthTypes
<1>3. x # None
  BY DEF AuthAssumption, Txs
<1>4. ASSUME NEW t \in Tokens PROVE HoldsOnly(x, t)
  <2>1. CASE tokenLock[t] = x
    <3>1. x \in Redeems
      BY <1>3, <2>1 DEF AuthInv, AuthTypes
    <3>2. tx[x].pc \in Holding /\ tx[x].token = t
      BY <1>3, <2>1 DEF AuthInv, TokenLocks
    <3>3. QED BY <1>1, <2>1, <3>1, <3>2 DEF HoldsOnly
  <2>2. CASE tokenLock[t] # x
    <3>1. ~(x \in Redeems /\ tx[x].pc \in Holding /\ tx[x].token = t)
      BY <2>2 DEF AuthInv, TokenLocks
    <3>2. QED BY <1>1, <2>2, <3>1 DEF HoldsOnly
  <2>3. QED BY <2>1, <2>2
<1>5. ASSUME NEW s \in Subjects PROVE OwnsOnly(x, s)
  <2>1. connLock[s] # x
    <3> SUFFICES ASSUME connLock[s] = x PROVE Owns(x)
      OBVIOUS
    <3>1. Owns(connLock[s])
      BY <1>3 DEF AuthInv, ConnLocks
    <3>2. QED BY <3>1 DEF Owns
  <2>2. QED BY <2>1 DEF OwnsOnly
<1>6. x \in Redeems /\ rec.pc \in Holding =>
          tokens[rec.token].state = "pending" /\ tokenLock[rec.token] \in {None, x}
  BY DEF AuthInv, TokenLocks
<1>7. QED BY <1>2, <1>4, <1>5, <1>6, StepKeeps

LEMMA BeginRedeemKeeps ==
    ASSUME AuthAssumption, AuthInv, NEW r \in Redeems, BeginRedeem(r)
    PROVE  AuthInv'
<1>1. PICK t \in Tokens : tx' = [tx EXCEPT ![r] = [pc |-> "lock", token |-> t, at |-> now]]
  BY DEF BeginRedeem
<1>2. tx'[r] = [pc |-> "lock", token |-> t, at |-> now] /\ r \in Txs /\ r \notin Patches
  BY <1>1 DEF AuthInv, AuthTypes, Txs, AuthAssumption
<1>3. RedeemTyped(r)' /\ RedeemRow(r)'
  BY <1>2 DEF RedeemTyped, RedeemRow, Holding
<1>4. tx[r].pc \notin Holding /\ ~Owns(r) /\ ~Owns(r)'
  BY <1>2 DEF BeginRedeem, Holding, Owns
<1>5. [pc |-> "lock", token |-> t, at |-> now].pc \notin Holding
  BY DEF Holding
<1>6. UNCHANGED <<tokens, conns, redeemed, tokenLock, connLock>>
  BY DEF BeginRedeem
<1>7. QED BY <1>1, <1>2, <1>3, <1>4, <1>5, <1>6, SameLocksKeep

LEMMA GetConnectionKeeps ==
    ASSUME AuthAssumption, AuthInv, NEW p \in Patches, GetConnection(p)
    PROVE  AuthInv'
<1>1. PICK s \in Subjects, ask \in Asks :
         /\ conns[s] # None
         /\ tx' = [tx EXCEPT ![p] = [pc |-> "patch", subject |-> s,
                                     seen |-> conns[s], ask |-> ask]]
  BY DEF GetConnection
<1> DEFINE rec == [pc |-> "patch", subject |-> s, seen |-> conns[s], ask |-> ask]
<1>2. tx'[p] = rec /\ p \in Txs /\ p \notin Redeems
  BY <1>1 DEF AuthInv, AuthTypes, Txs, AuthAssumption
<1>3. conns[s] \in ConnectionRow /\ conns[s].record \in Nat /\ UNCHANGED conns
  BY <1>1 DEF AuthInv, AuthTypes, GetConnection, ConnectionRow
<1>4. PatchTyped(p)' /\ PatchRow(p)'
  <2>1. /\ tx'[p].pc = "patch" /\ tx'[p].subject = s /\ tx'[p].seen = conns[s]
        /\ tx'[p].ask = ask
    BY <1>2
  <2>2. ask \in AnyAsk
    BY DEF AuthAssumption
  <2>3. PatchTyped(p)'
    BY <1>3, <2>1, <2>2 DEF PatchTyped
  <2>4. PatchRead(p)'
    BY <1>1, <1>3, <2>1 DEF PatchRead
  <2>5. PatchMade(p)'
    BY <2>1, Zenon DEF PatchMade
  <2>6. QED BY <2>3, <2>4, <2>5 DEF PatchRow
<1>5. ~Owns(p) /\ ~Owns(p)'
  BY <1>2 DEF GetConnection, Owns
<1>6. UNCHANGED <<tokens, conns, redeemed, tokenLock, connLock>>
  BY DEF GetConnection
<1>7. tx' = [tx EXCEPT ![p] = rec]
  BY <1>1
<1>8. QED
  <2> HIDE DEF rec
  <2> QED BY <1>2, <1>4, <1>5, <1>6, <1>7, SameLocksKeep

LEMMA LockTokenKeeps ==
    ASSUME AuthAssumption, AuthInv, NEW r \in Redeems, LockToken(r)
    PROVE  AuthInv'
<1> DEFINE t == tx[r].token
           rec == [pc |-> "validate", token |-> t, subject |-> tokens[t].subject]
<1>1. /\ r \in Txs /\ r \notin Patches /\ r # None
      /\ tx[r].pc = "lock" /\ t \in Tokens /\ tokenLock[t] = None
      /\ UNCHANGED <<tokens, conns, redeemed, connLock>>
  BY DEF Txs, AuthAssumption, LockToken, AuthInv, AuthTypes, RedeemTyped
<1>2. tx[r].pc \notin Holding /\ ~Owns(r)
  BY <1>1 DEF Holding, Owns
<1>3. CASE Redeemable(t, tx[r].at)
  <2>1. tx' = [tx EXCEPT ![r] = rec] /\ tokenLock' = [tokenLock EXCEPT ![t] = r]
    BY <1>3 DEF LockToken
  <2>2. tx'[r] = rec
    BY <1>1, <2>1 DEF AuthInv, AuthTypes
  <2>3. tokens[t].state = "pending" /\ tokens[t].subject \in Subjects
    BY <1>1, <1>3 DEF Redeemable, AuthInv, AuthTypes, TokenTyped
  <2>4. RedeemTyped(r)' /\ RedeemRow(r)' /\ ~Owns(r)'
    BY <1>1, <2>2, <2>3 DEF RedeemTyped, RedeemRow, Holding, Owns
  <2>5. /\ tokenLock' \in [Tokens -> Redeems \cup {None}]
        /\ connLock' \in [Subjects -> Txs \cup {None}]
    BY <1>1, <2>1 DEF AuthInv, AuthTypes
  <2>6. ASSUME NEW k \in Tokens PROVE HoldsOnly(r, k)
    <3>1. tokenLock[k] # r
      BY <1>1, <1>2 DEF AuthInv, TokenLocks
    <3>2. QED BY <1>1, <2>1, <2>2, <3>1 DEF HoldsOnly, Holding, AuthInv, AuthTypes
  <2>7. ASSUME NEW s \in Subjects PROVE OwnsOnly(r, s)
    <3>1. connLock[s] # r
      <4> SUFFICES ASSUME connLock[s] = r PROVE Owns(r)
        BY <1>2
      <4>1. Owns(connLock[s])
        BY <1>1 DEF AuthInv, ConnLocks
      <4>2. QED BY <4>1 DEF Owns
    <3>2. QED BY <1>1, <2>4, <3>1 DEF OwnsOnly
  <2>8. rec.token = t
    OBVIOUS
  <2>9. QED
    <3> HIDE DEF rec
    <3> QED BY <1>1, <2>1, <2>3, <2>4, <2>5, <2>6, <2>7, <2>8, StepKeeps
<1>4. CASE ~Redeemable(t, tx[r].at)
  <2>1. tx' = [tx EXCEPT ![r] = Ended] /\ UNCHANGED tokenLock
    BY <1>4 DEF LockToken
  <2>2. tokenLock' = Release(tokenLock, r) /\ connLock' = Release(connLock, r)
    BY <1>1, <1>2, <2>1, NothingToRelease
  <2>3. QED BY <1>1, <2>1, <2>2, EndKeeps
<1>5. QED BY <1>3, <1>4

LEMMA ValidateCredentialKeeps ==
    ASSUME AuthAssumption, AuthInv, NEW r \in Redeems, ValidateCredential(r)
    PROVE  AuthInv'
<1> DEFINE rec == [tx[r] EXCEPT !.pc = "select"]
<1>1. /\ r \in Txs /\ r \notin Patches /\ tx[r].pc = "validate"
      /\ UNCHANGED <<tokens, conns, redeemed, connLock>>
  BY DEF Txs, AuthAssumption, ValidateCredential
<1>2. RedeemTyped(r) /\ DOMAIN tx = Txs
  BY DEF AuthInv, AuthTypes
<1>3. rec = [pc |-> "select", token |-> tx[r].token, subject |-> tx[r].subject]
  BY <1>1, <1>2 DEF RedeemTyped
<1>4. tx[r].pc \in Holding /\ ~Owns(r)
  BY <1>1 DEF Holding, Owns
<1>5. CASE tx' = [tx EXCEPT ![r].pc = "select"] /\ UNCHANGED tokenLock
  <2>1. tx' = [tx EXCEPT ![r] = rec]
    BY <1>5
  <2>2. /\ tx'[r] = rec /\ rec.pc = "select" /\ rec.token = tx[r].token
        /\ rec.subject = tx[r].subject
    BY <1>1, <1>2, <1>3, <2>1
  <2>3. RedeemTyped(r)' /\ RedeemRow(r)' /\ ~Owns(r)' /\ rec.pc \in Holding
    <3> HIDE DEF rec
    <3> QED BY <1>1, <1>2, <2>2 DEF RedeemTyped, RedeemRow, Owns, Holding
  <2>4. QED
    <3> HIDE DEF rec
    <3> QED BY <1>1, <1>4, <1>5, <2>1, <2>2, <2>3, SameLocksKeep
<1>6. CASE tx' = [tx EXCEPT ![r] = Ended] /\ tokenLock' = Release(tokenLock, r)
  <2>1. connLock' = Release(connLock, r)
    BY <1>1, <1>4, NothingToRelease
  <2>2. QED BY <1>1, <1>6, <2>1, EndKeeps
<1>7. QED BY <1>5, <1>6 DEF ValidateCredential

LEMMA SelectConnectionKeeps ==
    ASSUME AuthAssumption, AuthInv, NEW r \in Redeems, SelectConnection(r)
    PROVE  AuthInv'
<1> DEFINE s == tx[r].subject
           rec == [pc |-> "write", token |-> tx[r].token, subject |-> s, seen |-> conns[s]]
<1>1. /\ r \in Txs /\ r \notin Patches /\ r # None /\ tx[r].pc = "select"
      /\ conns[s] # None => connLock[s] = None
      /\ connLock' = [connLock EXCEPT ![s] = IF conns[s] = None THEN @ ELSE r]
      /\ UNCHANGED <<tokens, conns, redeemed, tokenLock>>
  BY DEF Txs, AuthAssumption, SelectConnection
<1>2. RedeemTyped(r) /\ DOMAIN tx = Txs
  BY DEF AuthInv, AuthTypes
<1>3. /\ tx[r].pc \in Holding /\ ~Owns(r) /\ tx[r].token \in Tokens
      /\ s \in Subjects /\ conns[s] \in ConnectionRow \cup {None}
  BY <1>1, <1>2 DEF Holding, Owns, RedeemTyped, AuthInv, AuthTypes
<1>4. tx' = [tx EXCEPT ![r] = rec]
  BY DEF SelectConnection
<1>5. /\ tx'[r] = rec /\ tx'[r].pc = "write" /\ tx'[r].token = tx[r].token
      /\ tx'[r].subject = s /\ tx'[r].seen = conns[s]
  BY <1>1, <1>2, <1>4
<1>6. RedeemTyped(r)' /\ RedeemRow(r)'
  BY <1>1, <1>3, <1>5 DEF RedeemTyped, RedeemRow, Holding
<1>7. Owns(r)' <=> conns[s] # None
  BY <1>1, <1>5 DEF Owns
<1>8. connLock' \in [Subjects -> Txs \cup {None}]
  BY <1>1 DEF AuthInv, AuthTypes
<1>9. ASSUME NEW k \in Tokens PROVE HoldsOnly(r, k)
  <2>1. tokenLock[tx[r].token] = r
    BY <1>3 DEF AuthInv, TokenLocks
  <2>2. tokenLock[k] = r => tx[r].token = k
    BY <1>1 DEF AuthInv, TokenLocks
  <2>3. QED BY <1>1, <1>5, <2>1, <2>2 DEF HoldsOnly, Holding
<1>10. ASSUME NEW k \in Subjects PROVE OwnsOnly(r, k)
  <2>1. connLock[k] # r
    <3> SUFFICES ASSUME connLock[k] = r PROVE Owns(r)
      BY <1>3
    <3>1. Owns(connLock[k])
      BY <1>1 DEF AuthInv, ConnLocks
    <3>2. QED BY <3>1 DEF Owns
  <2>2. QED BY <1>1, <1>3, <1>5, <1>7, <2>1 DEF OwnsOnly, AuthInv, AuthTypes
<1>11. /\ tokens[tx[r].token].state = "pending" /\ tokenLock[tx[r].token] = r
       /\ rec.token = tx[r].token /\ rec.subject = s
  BY <1>3 DEF AuthInv, TokenLocks
<1>12. Owns(r)' => connLock[rec.subject] \in {None, r}
  BY <1>1, <1>7, <1>11
<1>13. tokenLock' \in [Tokens -> Redeems \cup {None}]
  BY <1>1 DEF AuthInv, AuthTypes
<1>14. QED
  <2> HIDE DEF rec
  <2> QED BY <1>1, <1>4, <1>6, <1>8, <1>9, <1>10, <1>11, <1>12, <1>13, StepKeeps

LEMMA WriteConnectionKeeps ==
    ASSUME AuthAssumption, AuthInv, NEW r \in Redeems, WriteConnection(r)
    PROVE  AuthInv'
<1> DEFINE s == tx[r].subject
           t == tx[r].token
           row == Reconnected(tx[r].seen, t)
           rec == [pc |-> "commit", token |-> t, subject |-> s, row |-> row]
<1>1. /\ r \in Txs /\ r \notin Patches /\ r # None /\ tx[r].pc = "write"
      /\ connLock[s] \in {None, r} /\ (tx[r].seen = None => conns[s] = None)
      /\ connLock' = [connLock EXCEPT ![s] = r]
      /\ UNCHANGED <<tokens, conns, redeemed, tokenLock>>
  BY DEF Txs, AuthAssumption, WriteConnection
<1>2. RedeemTyped(r) /\ RedeemRow(r) /\ DOMAIN tx = Txs
  BY DEF AuthInv, AuthTypes, WhatIsWritten
<1>3. /\ tx[r].pc \in Holding /\ t \in Tokens /\ s \in Subjects
      /\ tx[r].seen \in ConnectionRow \cup {None} /\ tx[r].seen = conns[s]
  BY <1>1, <1>2 DEF Holding, RedeemTyped, RedeemRow
<1>4. tokens[t].state = "pending" /\ tokenLock[t] = r
  BY <1>3 DEF AuthInv, TokenLocks
<1>5. row \in ConnectionRow
  <2>1. tokens[t].meta \in Metadata
    BY <1>3, <1>4 DEF AuthInv, AuthTypes, TokenTyped
  <2>2. QED BY <1>3, <2>1, ReconnectMakes
<1>6. tx' = [tx EXCEPT ![r] = rec]
  BY DEF WriteConnection
<1>7. /\ tx'[r] = rec /\ tx'[r].pc = "commit" /\ tx'[r].token = t
      /\ tx'[r].subject = s /\ tx'[r].row = row
  <2> HIDE DEF row
  <2> QED BY <1>1, <1>2, <1>6
<1>8. RedeemTyped(r)'
  <2> HIDE DEF row
  <2> QED BY <1>3, <1>5, <1>7 DEF RedeemTyped, Holding
<1>9. RedeemRow(r)'
  <2>1. row = Reconnected(conns[s], t)
    BY <1>3
  <2>2. Reconnected(conns[s], t)' = Reconnected(conns[s], t)
    BY <1>1, <1>7 DEF Reconnected
  <2>3. QED BY <1>7, <2>1, <2>2 DEF RedeemRow
<1>10. Owns(r)'
  BY <1>7 DEF Owns
<1>11. connLock' \in [Subjects -> Txs \cup {None}]
  BY <1>1 DEF AuthInv, AuthTypes
<1>12. ASSUME NEW k \in Tokens PROVE HoldsOnly(r, k)
  <2>1. tokenLock[k] = r => t = k
    BY <1>1 DEF AuthInv, TokenLocks
  <2>2. QED BY <1>1, <1>4, <1>7, <2>1 DEF HoldsOnly, Holding
<1>13. ASSUME NEW k \in Subjects PROVE OwnsOnly(r, k)
  <2>1. connLock[k] = r => s = k
    BY <1>1 DEF AuthInv, ConnLocks
  <2>2. QED BY <1>1, <1>3, <1>7, <1>10, <2>1 DEF OwnsOnly, AuthInv, AuthTypes
<1>14. /\ tokenLock' \in [Tokens -> Redeems \cup {None}]
       /\ rec.token = t /\ rec.subject = s
  BY <1>1 DEF AuthInv, AuthTypes
<1>15. QED
  <2> HIDE DEF rec, row
  <2> QED BY <1>1, <1>4, <1>6, <1>8, <1>9, <1>11, <1>12, <1>13, <1>14, StepKeeps

LEMMA LockForPatchKeeps ==
    ASSUME AuthAssumption, AuthInv, NEW p \in Patches, LockForPatch(p)
    PROVE  AuthInv'
<1> DEFINE s == tx[p].subject
           results == IF conns[s].record = tx[p].seen.record
                      THEN Patched(conns[s].meta, tx[p].ask) ELSE {}
<1>1. /\ p \in Txs /\ p \notin Redeems /\ p # None /\ tx[p].pc = "patch"
      /\ connLock[s] = None /\ UNCHANGED <<tokens, conns, redeemed, tokenLock>>
  BY DEF Txs, AuthAssumption, LockForPatch
<1>2. PatchTyped(p) /\ PatchRead(p) /\ DOMAIN tx = Txs
  BY DEF AuthInv, AuthTypes, WhatIsWritten, PatchRow
<1>3. /\ ~Owns(p) /\ s \in Subjects /\ tx[p].seen \in ConnectionRow /\ tx[p].ask \in AnyAsk
      /\ conns[s] # None /\ conns[s] \in ConnectionRow
  BY <1>1, <1>2 DEF Owns, PatchTyped, PatchRead, AuthInv, AuthTypes
<1>4. \A t \in Tokens : tokenLock[t] # p
  BY <1>1 DEF AuthInv, AuthTypes
<1>5. CASE results = {}
  <2>1. tx' = [tx EXCEPT ![p] = Ended] /\ UNCHANGED connLock
    BY <1>5 DEF LockForPatch
  <2>2. connLock' = Release(connLock, p)
    BY <1>1, <1>3, <2>1, NothingToRelease
  <2>3. tokenLock' = Release(tokenLock, p)
    BY <1>1, <1>4 DEF Release, AuthInv, AuthTypes
  <2>4. QED BY <1>1, <2>1, <2>2, <2>3, EndKeeps
<1>6. CASE results # {}
  <2>1. PICK meta \in results :
          /\ connLock' = [connLock EXCEPT ![s] = p]
          /\ tx' = [tx EXCEPT ![p] =
                      [pc |-> "commit", subject |-> s, seen |-> @.seen, ask |-> @.ask,
                       row |-> [conns[s] EXCEPT !.meta = meta, !.record = @ + 1]]]
    BY <1>6 DEF LockForPatch
  <2> DEFINE row == [conns[s] EXCEPT !.meta = meta, !.record = @ + 1]
             rec == [pc |-> "commit", subject |-> s, seen |-> tx[p].seen, ask |-> tx[p].ask,
                     row |-> row]
  <2>2. conns[s].record = tx[p].seen.record /\ meta \in Patched(conns[s].meta, tx[p].ask)
    BY <2>1
  <2>3. meta \in Metadata
    <3>1. conns[s].meta \in Metadata
      BY <1>3 DEF ConnectionRow
    <3>2. QED BY <1>3, <2>2, <3>1, PatchMakes
  <2>4. row \in ConnectionRow
    BY <1>3, <2>3, PatchedRow
  <2>5. tx' = [tx EXCEPT ![p] = rec]
    BY <1>1, <1>2, <2>1
  <2>6. /\ tx'[p] = rec /\ tx'[p].pc = "commit" /\ tx'[p].subject = s
        /\ tx'[p].seen = tx[p].seen /\ tx'[p].ask = tx[p].ask /\ tx'[p].row = row
    <3> HIDE DEF row
    <3> QED BY <1>1, <1>2, <2>5
  <2>7. PatchTyped(p)'
    <3> HIDE DEF row
    <3> QED BY <1>3, <2>4, <2>6 DEF PatchTyped
  <2>8. PatchRead(p)'
    <3> HIDE DEF row, rec
    <3> QED BY <1>1, <1>2, <2>6 DEF PatchRead
  <2>9. PatchMade(p)'
    <3>1. conns'[s] = conns[s] /\ row = [conns[s] EXCEPT !.meta = meta, !.record = @ + 1]
      BY <1>1
    <3> HIDE DEF row, rec
    <3>2. tx'[p].seen.record = conns'[tx'[p].subject].record
      BY <2>2, <2>6, <3>1
    <3>3. \E m \in Patched(conns'[tx'[p].subject].meta, tx'[p].ask) :
             tx'[p].row = [conns'[tx'[p].subject] EXCEPT !.meta = m, !.record = @ + 1]
      BY <2>2, <2>6, <3>1, Zenon
    <3>4. QED BY <3>2, <3>3, Zenon DEF PatchMade
  <2>10. Owns(p)'
    BY <2>6 DEF Owns
  <2>11. /\ connLock' \in [Subjects -> Txs \cup {None}]
         /\ tokenLock' \in [Tokens -> Redeems \cup {None}]
    BY <1>1, <2>1 DEF AuthInv, AuthTypes
  <2>12. ASSUME NEW t \in Tokens PROVE HoldsOnly(p, t)
    BY <1>1, <1>4 DEF HoldsOnly
  <2>13. ASSUME NEW k \in Subjects PROVE OwnsOnly(p, k)
    <3>1. connLock[k] # p
      <4> SUFFICES ASSUME connLock[k] = p PROVE Owns(p)
        BY <1>3
      <4>1. Owns(connLock[k])
        BY <1>1 DEF AuthInv, ConnLocks
      <4>2. QED BY <4>1 DEF Owns
    <3>2. QED BY <1>1, <1>3, <2>1, <2>6, <2>10, <3>1 DEF OwnsOnly, AuthInv, AuthTypes
  <2>14. rec.subject = s
    OBVIOUS
  <2>15. QED
    <3> HIDE DEF rec, row
    <3> QED BY <1>1, <2>5, <2>7, <2>8, <2>9, <2>11, <2>12, <2>13, <2>14, StepKeeps DEF PatchRow
<1>7. QED BY <1>5, <1>6
-----------------------------------------------------------------------------
(* Commits, and the minting of tokens.                                     *)

(* Nobody else has selected the row that a commit replaces.                *)
LEMMA OneOwner ==
    ASSUME AuthInv, NEW x \in Txs, NEW y \in Txs, Owns(x), Owns(y), x # y
    PROVE  tx[x].subject # tx[y].subject
BY DEF AuthInv, ConnLocks

(* A commit, but for what it says of redeemed tokens.                      *)
LEMMA CommitKeeps ==
    ASSUME AuthAssumption, AuthInv, NEW x \in Txs, tx[x].pc = "commit",
           tx[x].row \in ConnectionRow,
           conns[tx[x].subject] # None => tx[x].row.record > conns[tx[x].subject].record,
           conns' = [conns EXCEPT ![tx[x].subject] = tx[x].row],
           tx' = [tx EXCEPT ![x] = Ended],
           tokenLock' = Release(tokenLock, x), connLock' = Release(connLock, x),
           DOMAIN tokens' = Tokens,
           \A t \in Tokens : \/ tokens'[t] = tokens[t]
                             \/ tokenLock[t] = x /\ tokens'[t].state = "used",
           redeemed' \in [Subjects -> Seq(Tokens)]
    PROVE  AuthTypes' /\ TokenLocks' /\ ConnLocks' /\ WhatIsWritten'
<1> DEFINE s == tx[x].subject
<1> USE DEF AuthInv
<1>1. DOMAIN tx' = Txs /\ tx'[x] = Ended /\ \A y \in Txs : y # x => tx'[y] = tx[y]
  BY DEF AuthTypes
<1>2. \A y \in Txs : y # x => Owns(y)' = Owns(y)
  BY <1>1, Zenon DEF Owns
<1>3. /\ tokenLock' = [t \in Tokens |-> IF tokenLock[t] = x THEN None ELSE tokenLock[t]]
      /\ connLock' = [k \in Subjects |-> IF connLock[k] = x THEN None ELSE connLock[k]]
  BY DEF Release, AuthTypes
<1>4. Owns(x) /\ s \in Subjects /\ ~Owns(x)'
  BY <1>1 DEF Owns, AuthTypes, RedeemTyped, PatchTyped, Holding, Txs, Ended
<1>5. ASSUME NEW y \in Txs, y # x, Owns(y) PROVE conns'[tx[y].subject] = conns[tx[y].subject]
  BY <1>4, <1>5, OneOwner DEF AuthTypes
<1>6. ASSUME NEW r \in Redeems, r # x, tx[r].pc \in Holding
      PROVE  tx[r].token \in Tokens /\ tokens'[tx[r].token] = tokens[tx[r].token]
  <2>1. tokenLock[tx[r].token] = r /\ tx[r].token \in Tokens
    BY <1>6 DEF TokenLocks, AuthTypes, RedeemTyped
  <2>2. QED BY <1>6, <2>1
<1>7. ASSUME NEW r \in Redeems, r # x PROVE RedeemTyped(r)' /\ RedeemRow(r)'
  <2>1. tx'[r] = tx[r] /\ RedeemTyped(r) /\ RedeemRow(r) /\ r \in Txs
    BY <1>1, <1>7 DEF Txs, AuthTypes, WhatIsWritten
  <2>2. RedeemTyped(r)'
    BY <2>1 DEF RedeemTyped
  <2>3. ASSUME tx[r].pc = "write", tx[r].seen # None PROVE conns'[tx[r].subject] = tx[r].seen
    BY <1>5, <1>7, <2>1, <2>3 DEF Owns, RedeemRow
  <2>4. ASSUME tx[r].pc = "commit"
        PROVE  tx[r].row = Reconnected(conns[tx[r].subject], tx[r].token)'
    <3>1. /\ conns'[tx[r].subject] = conns[tx[r].subject]
          /\ tokens'[tx[r].token] = tokens[tx[r].token]
      BY <1>5, <1>6, <1>7, <2>1, <2>4 DEF Owns, Holding
    <3>2. QED BY <2>1, <2>4, <3>1 DEF RedeemRow, Reconnected
  <2>5. QED BY <2>1, <2>2, <2>3, <2>4 DEF RedeemRow
<1>8. ASSUME NEW p \in Patches, p # x PROVE PatchTyped(p)' /\ PatchRow(p)'
  <2>1. tx'[p] = tx[p] /\ PatchTyped(p) /\ PatchRead(p) /\ PatchMade(p) /\ p \in Txs
    BY <1>1, <1>8 DEF Txs, AuthTypes, WhatIsWritten, PatchRow
  <2>2. PatchTyped(p)'
    BY <2>1 DEF PatchTyped
  <2>3. PatchRead(p)'
    <3>1. CASE tx[p].pc \in {"patch", "commit"} /\ tx[p].subject = s
      <4>1. /\ conns[s] # None /\ tx[p].seen.record <= conns[s].record
            /\ conns[s] \in ConnectionRow /\ tx[p].seen \in ConnectionRow
        BY <1>4, <2>1, <3>1 DEF PatchRead, PatchTyped, AuthTypes
      <4>2. conns'[s] = tx[x].row
        BY <1>4 DEF AuthTypes
      <4>3. tx[p].seen.record < tx[x].row.record /\ tx[x].row # None
        BY <4>1, SMTT(30) DEF ConnectionRow, AuthAssumption
      <4>4. tx[p].seen.record \in Nat /\ tx[x].row.record \in Nat
        BY <4>1 DEF ConnectionRow
      <4>5. QED BY <2>1, <3>1, <4>2, <4>3, <4>4 DEF PatchRead
    <3>2. CASE ~(tx[p].pc \in {"patch", "commit"} /\ tx[p].subject = s)
      <4>1. tx[p].pc \in {"patch", "commit"} => conns'[tx[p].subject] = conns[tx[p].subject]
        BY <3>2, <2>1 DEF PatchTyped, AuthTypes
      <4>2. QED BY <2>1, <4>1 DEF PatchRead
    <3>3. QED BY <3>1, <3>2
  <2>4. PatchMade(p)'
    <3>1. tx[p].pc = "commit" => conns'[tx[p].subject] = conns[tx[p].subject]
      BY <1>5, <1>8, <2>1 DEF Owns
    <3>2. QED BY <2>1, <3>1, Zenon DEF PatchMade
  <2>5. QED BY <2>2, <2>3, <2>4 DEF PatchRow
<1>9. RedeemTyped(x)' /\ RedeemRow(x)' /\ PatchTyped(x)' /\ PatchRow(x)'
  <2>1. tx'[x].pc = "ended"
    BY <1>1 DEF Ended
  <2>2. RedeemTyped(x)' /\ PatchTyped(x)'
    BY <2>1 DEF RedeemTyped, PatchTyped, Holding
  <2>3. RedeemRow(x)' /\ PatchRow(x)'
    BY <2>1, Zenon DEF RedeemRow, PatchRow, PatchRead, PatchMade
  <2>4. QED BY <2>2, <2>3
<1>10. AuthTypes'
  <2>1. \A t \in Tokens : TokenTyped(t)'
    <3> SUFFICES ASSUME NEW t \in Tokens PROVE TokenTyped(t)'
      OBVIOUS
    <3>1. CASE tokens'[t] = tokens[t]
      BY <3>1 DEF AuthTypes, TokenTyped
    <3>2. CASE tokens'[t].state = "used"
      BY <3>2 DEF TokenTyped
    <3>3. QED BY <3>1, <3>2
  <2>2. conns' \in [Subjects -> ConnectionRow \cup {None}]
    BY DEF AuthTypes
  <2>3. /\ tokenLock' \in [Tokens -> Redeems \cup {None}]
        /\ connLock' \in [Subjects -> Txs \cup {None}]
    BY <1>3 DEF AuthTypes
  <2>4. (\A r \in Redeems : RedeemTyped(r)') /\ (\A p \in Patches : PatchTyped(p)')
    BY <1>7, <1>8, <1>9
  <2>5. QED BY <1>1, <2>1, <2>2, <2>3, <2>4 DEF AuthTypes
<1>11. TokenLocks'
  <2>1. ASSUME NEW t \in Tokens, tokenLock'[t] # None
        PROVE  tx'[tokenLock'[t]].pc \in Holding /\ tx'[tokenLock'[t]].token = t
    <3>1. tokenLock'[t] = tokenLock[t] /\ tokenLock[t] # x /\ tokenLock[t] \in Redeems
      BY <1>3, <2>1 DEF AuthTypes
    <3>2. QED BY <1>1, <2>1, <3>1 DEF TokenLocks, Txs
  <2>2. ASSUME NEW r \in Redeems, tx'[r].pc \in Holding
        PROVE  tokenLock'[tx'[r].token] = r /\ tokens'[tx'[r].token].state = "pending"
    <3>1. r # x
      BY <1>1, <2>2 DEF Ended, Holding
    <3>2. tx'[r] = tx[r]
      BY <1>1, <3>1 DEF Txs
    <3>3. QED BY <1>3, <1>6, <2>2, <3>1, <3>2 DEF TokenLocks
  <2>3. QED BY <2>1, <2>2 DEF TokenLocks
<1>12. ConnLocks'
  <2>1. ASSUME NEW k \in Subjects, connLock'[k] # None
        PROVE  Owns(connLock[k])' /\ connLock'[k] = connLock[k] /\ tx'[connLock[k]].subject = k
    <3>1. connLock'[k] = connLock[k] /\ connLock[k] # x /\ connLock[k] \in Txs
      BY <1>3, <2>1 DEF AuthTypes
    <3>2. QED BY <1>1, <1>2, <2>1, <3>1 DEF ConnLocks
  <2>2. ASSUME NEW y \in Txs, Owns(y)' PROVE connLock'[tx'[y].subject] = y
    <3>1. y # x
      BY <1>4, <2>2 DEF Owns
    <3>2. tx'[y] = tx[y] /\ Owns(y)
      BY <1>1, <1>2, <2>2, <3>1
    <3>3. tx[y].subject \in Subjects
      BY <3>2 DEF Owns, AuthTypes, RedeemTyped, PatchTyped, Holding, Txs
    <3>4. QED BY <1>3, <3>1, <3>2, <3>3 DEF ConnLocks
  <2>3. QED BY <2>1, <2>2, Zenon DEF ConnLocks
<1>13. WhatIsWritten'
  BY <1>7, <1>8, <1>9 DEF WhatIsWritten
<1>14. QED BY <1>10, <1>11, <1>12, <1>13

LEMMA CommitRedeemKeeps ==
    ASSUME AuthAssumption, AuthInv, NEW r \in Redeems, CommitRedeem(r)
    PROVE  AuthInv'
<1> DEFINE s == tx[r].subject
           t == tx[r].token
           row == tx[r].row
<1>1. /\ r \in Txs /\ tx[r].pc = "commit" /\ r # None
      /\ conns' = [conns EXCEPT ![s] = row]
      /\ tokens' = [tokens EXCEPT ![t].state = "used"]
      /\ redeemed' = [redeemed EXCEPT ![s] = Append(@, t)]
      /\ tokenLock' = Release(tokenLock, r) /\ connLock' = Release(connLock, r)
      /\ tx' = [tx EXCEPT ![r] = Ended]
  BY DEF Txs, AuthAssumption, CommitRedeem
<1>2. RedeemTyped(r) /\ RedeemRow(r) /\ conns[s] \in ConnectionRow \cup {None}
      /\ t \in Tokens /\ s \in Subjects /\ row \in ConnectionRow
  BY <1>1 DEF AuthInv, AuthTypes, WhatIsWritten, RedeemTyped, Holding
<1>3. tokenLock[t] = r /\ tokens[t].state = "pending"
  BY <1>1 DEF AuthInv, TokenLocks, Holding
<1>4. /\ row.key = t /\ row # None
      /\ row.credential = IF conns[s] = None THEN 1 ELSE conns[s].credential + 1
      /\ row.record = IF conns[s] = None THEN 1 ELSE conns[s].record + 1
  <2>1. tokens[t].meta \in Metadata
    BY <1>2, <1>3 DEF AuthInv, AuthTypes, TokenTyped
  <2>2. row = Reconnected(conns[s], t)
    BY <1>1, <1>2 DEF RedeemRow
  <2>3. QED BY <1>2, <2>1, <2>2, ReconnectMakes DEF AuthAssumption
<1>5. conns[s] # None => row.record > conns[s].record
  BY <1>2, <1>4 DEF ConnectionRow
<1>6. /\ DOMAIN tokens' = Tokens /\ tokens'[t].state = "used"
      /\ \A k \in Tokens : k # t => tokens'[k] = tokens[k]
  <2>1. DOMAIN tokens = Tokens /\ TokenTyped(t)
    BY <1>2 DEF AuthInv, AuthTypes
  <2>2. [tokens[t] EXCEPT !.state = "used"].state = "used"
    BY <1>3, <2>1 DEF TokenTyped
  <2>3. QED BY <1>1, <1>2, <2>1, <2>2
<1>7. redeemed' \in [Subjects -> Seq(Tokens)]
  BY <1>1, <1>2 DEF AuthInv, AuthTypes
<1>8. AuthTypes' /\ TokenLocks' /\ ConnLocks' /\ WhatIsWritten'
  <2> HIDE DEF row
  <2>1. \A k \in Tokens : tokens'[k] = tokens[k] \/ (tokenLock[k] = r /\ tokens'[k].state = "used")
    BY <1>3, <1>6
  <2>2. QED BY <1>1, <1>2, <1>5, <1>6, <1>7, <2>1, CommitKeeps DEF row
<1>9. /\ \A k \in Subjects : redeemed[k] \in Seq(Tokens)
      /\ redeemed'[s] = Append(redeemed[s], t)
      /\ \A k \in Subjects : k # s => redeemed'[k] = redeemed[k]
  BY <1>1, <1>2 DEF AuthInv, AuthTypes
<1>10. /\ Len(redeemed[s]) \in Nat /\ DOMAIN redeemed[s] = 1 .. Len(redeemed[s])
       /\ Len(redeemed'[s]) = Len(redeemed[s]) + 1
       /\ DOMAIN redeemed'[s] = 1 .. Len(redeemed[s]) + 1
       /\ redeemed'[s][Len(redeemed[s]) + 1] = t
       /\ \A i \in DOMAIN redeemed[s] : redeemed'[s][i] = redeemed[s][i]
  BY <1>2, <1>9
<1>11. \A k \in Subjects : \A i \in DOMAIN redeemed[k] : redeemed[k][i] \in Tokens \ {t}
  <2> SUFFICES ASSUME NEW k \in Subjects, NEW i \in DOMAIN redeemed[k]
               PROVE  redeemed[k][i] \in Tokens \ {t}
    OBVIOUS
  <2>1. redeemed[k][i] \in Tokens
    BY <1>9
  <2>2. tokens[redeemed[k][i]].state \in {"used", "reaped"}
    BY DEF AuthInv, Spent
  <2>3. QED BY <1>3, <2>1, <2>2
<1>12. Spent'
  <2> SUFFICES ASSUME NEW k \in Subjects, NEW i \in DOMAIN redeemed'[k]
               PROVE  tokens'[redeemed'[k][i]].state \in {"used", "reaped"}
    BY DEF Spent
  <2>1. redeemed'[k][i] = t \/ (i \in DOMAIN redeemed[k] /\ redeemed'[k][i] = redeemed[k][i])
    <3>1. CASE k # s
      BY <1>9, <3>1
    <3>2. CASE k = s
      <4>1. i \in 1 .. Len(redeemed[s]) + 1
        BY <1>10, <3>2, Zenon
      <4>2. i \in 1 .. Len(redeemed[s]) \/ i = Len(redeemed[s]) + 1
        <5> DEFINE n == Len(redeemed[s])
        <5>1. n \in Nat /\ i \in 1 .. n + 1
          BY <1>10, <4>1
        <5> HIDE DEF n
        <5>2. i \in 1 .. n \/ i = n + 1
          BY <5>1
        <5>3. QED BY <5>2 DEF n
      <4>3. QED BY <1>10, <3>2, <4>2, Zenon
    <3>3. QED BY <3>1, <3>2
  <2>2. ASSUME i \in DOMAIN redeemed[k]
        PROVE  tokens'[redeemed[k][i]].state \in {"used", "reaped"}
    BY <1>6, <1>11, <2>2 DEF AuthInv, Spent
  <2>3. QED BY <1>6, <2>1, <2>2
<1>13. RedeemedOnce'
  <2> SUFFICES ASSUME NEW k \in Subjects
               PROVE  /\ \A i, j \in DOMAIN redeemed'[k] : redeemed'[k][i] = redeemed'[k][j] => i = j
                      /\ IF redeemed'[k] = <<>> THEN conns'[k] = None
                         ELSE /\ conns'[k] # None
                              /\ conns'[k].key = redeemed'[k][Len(redeemed'[k])]
                              /\ conns'[k].credential = Len(redeemed'[k])
    BY Zenon DEF RedeemedOnce
  <2>1. /\ \A i, j \in DOMAIN redeemed[k] : redeemed[k][i] = redeemed[k][j] => i = j
        /\ IF redeemed[k] = <<>> THEN conns[k] = None
           ELSE /\ conns[k] # None
                /\ conns[k].key = redeemed[k][Len(redeemed[k])]
                /\ conns[k].credential = Len(redeemed[k])
    BY Zenon DEF AuthInv, RedeemedOnce
  <2>2. CASE k # s
    <3>1. conns'[k] = conns[k] /\ redeemed'[k] = redeemed[k]
      BY <1>1, <1>9, <2>2 DEF AuthInv, AuthTypes
    <3>2. QED BY <2>1, <3>1
  <2>3. CASE k = s
    <3>1. \A i, j \in DOMAIN redeemed'[s] : redeemed'[s][i] = redeemed'[s][j] => i = j
      <4> DEFINE n == Len(redeemed[s])
                 old == redeemed[s]
                 new == redeemed'[s]
      <4>1. /\ n \in Nat /\ DOMAIN old = 1 .. n /\ DOMAIN new = 1 .. n + 1 /\ new[n + 1] = t
            /\ \A i \in 1 .. n : new[i] = old[i]
        BY <1>10
      <4>2. \A i \in 1 .. n : old[i] # t
        BY <1>2, <1>11, <4>1
      <4>3. \A i, j \in 1 .. n : old[i] = old[j] => i = j
        BY <2>1, <2>3, <4>1
      <4> HIDE DEF n, old, new
      <4>4. \A i \in DOMAIN new : i \in 1 .. n \/ i = n + 1
        BY <4>1
      <4>5. \A i, j \in DOMAIN new : new[i] = new[j] => i = j
        BY <4>1, <4>2, <4>3, <4>4
      <4>6. QED BY <4>5 DEF new
    <3>2. conns'[s] = row
      BY <1>1, <1>2 DEF AuthInv, AuthTypes
    <3>3. redeemed'[s] # <<>>
      BY <1>10
    <3>4. row.credential = Len(redeemed[s]) + 1
      <4>1. CASE redeemed[s] = <<>>
        BY <1>4, <2>1, <2>3, <4>1
      <4>2. CASE redeemed[s] # <<>>
        BY <1>4, <2>1, <2>3, <4>2
      <4>3. QED BY <4>1, <4>2
    <3>5. QED BY <1>4, <1>10, <2>3, <3>1, <3>2, <3>3, <3>4
  <2>4. QED BY <2>2, <2>3
<1>14. QED BY <1>8, <1>12, <1>13 DEF AuthInv

LEMMA CommitPatchKeeps ==
    ASSUME AuthAssumption, AuthInv, NEW p \in Patches, CommitPatch(p)
    PROVE  AuthInv'
<1> DEFINE s == tx[p].subject
           row == tx[p].row
<1>1. /\ p \in Txs /\ p \notin Redeems /\ p # None /\ tx[p].pc = "commit"
      /\ conns' = [conns EXCEPT ![s] = row]
      /\ connLock' = Release(connLock, p) /\ tx' = [tx EXCEPT ![p] = Ended]
      /\ UNCHANGED <<tokens, tokenLock, redeemed>>
  BY DEF Txs, AuthAssumption, CommitPatch
<1>2. /\ PatchTyped(p) /\ PatchRead(p) /\ PatchMade(p)
      /\ s \in Subjects /\ row \in ConnectionRow /\ tx[p].ask \in AnyAsk
  BY <1>1 DEF AuthInv, AuthTypes, WhatIsWritten, PatchTyped, PatchRow
<1>3. conns[s] # None /\ conns[s] \in ConnectionRow
  BY <1>1, <1>2 DEF PatchRead, AuthInv, AuthTypes
<1>4. /\ row.record = conns[s].record + 1 /\ row # None
      /\ row.key = conns[s].key /\ row.credential = conns[s].credential
  <2>1. PICK meta \in Patched(conns[s].meta, tx[p].ask) :
          row = [conns[s] EXCEPT !.meta = meta, !.record = @ + 1]
    BY <1>1, <1>2, Zenon DEF PatchMade
  <2>2. meta \in Metadata
    <3>1. conns[s].meta \in Metadata
      BY <1>3 DEF ConnectionRow
    <3>2. QED BY <1>2, <3>1, PatchMakes
  <2>3. /\ row.record = conns[s].record + 1
        /\ row.key = conns[s].key /\ row.credential = conns[s].credential
    <3> HIDE DEF row, s
    <3>1. LET new == [conns[s] EXCEPT !.meta = meta, !.record = @ + 1] IN
          /\ new.record = conns[s].record + 1
          /\ new.key = conns[s].key /\ new.credential = conns[s].credential
      BY <1>3, <2>2, PatchedRow, Zenon
    <3>2. QED BY <2>1, <3>1, Zenon
  <2>4. row # None
    BY <1>2 DEF AuthAssumption
  <2>5. QED BY <2>3, <2>4
<1>5. tokenLock' = Release(tokenLock, p)
  <2>1. \A t \in Tokens : tokenLock[t] # p
    BY <1>1 DEF AuthInv, AuthTypes
  <2>2. QED BY <1>1, <2>1 DEF Release, AuthInv, AuthTypes
<1>6. conns[s] # None => row.record > conns[s].record
  BY <1>3, <1>4 DEF ConnectionRow
<1>7. /\ DOMAIN tokens' = Tokens /\ \A t \in Tokens : tokens'[t] = tokens[t]
      /\ redeemed' \in [Subjects -> Seq(Tokens)]
  BY <1>1 DEF AuthInv, AuthTypes
<1>8. AuthTypes' /\ TokenLocks' /\ ConnLocks' /\ WhatIsWritten'
  BY <1>1, <1>2, <1>5, <1>6, <1>7, CommitKeeps
<1>9. Spent'
  BY <1>1 DEF AuthInv, Spent
<1>10. RedeemedOnce'
  <2>1. \A k \in Subjects : /\ conns'[k] = None <=> conns[k] = None
                            /\ conns[k] # None => /\ conns'[k].key = conns[k].key
                                                  /\ conns'[k].credential = conns[k].credential
    <3> HIDE DEF row
    <3> QED BY <1>1, <1>2, <1>3, <1>4 DEF AuthInv, AuthTypes
  <2>2. QED BY <1>1, <2>1 DEF AuthInv, RedeemedOnce
<1>11. QED BY <1>8, <1>9, <1>10 DEF AuthInv

LEMMA CreateConnectTokenKeeps ==
    ASSUME AuthAssumption, AuthInv, NEW t \in Tokens, CreateConnectToken(t)
    PROVE  AuthInv'
<1> USE DEF AuthInv
<1>1. /\ tokens[t].state = "unminted" /\ \A k \in Expired : tokenLock[k] = None
      /\ UNCHANGED <<conns, tokenLock, connLock, tx, redeemed>>
  BY DEF CreateConnectToken
<1>2. PICK s \in Subjects, meta \in Approved :
         tokens' = [k \in Tokens |-> IF k = t THEN PendingRow(s, meta)
                                    ELSE IF k \in Expired THEN [state |-> "reaped"]
                                    ELSE tokens[k]]
  BY DEF CreateConnectToken
<1>3. meta \in Metadata
  BY DEF AuthAssumption
<1>4. \A k \in Tokens : \/ k = t /\ tokens'[k] = PendingRow(s, meta)
                        \/ k # t /\ k \in Expired /\ tokens'[k].state = "reaped"
                        \/ k # t /\ tokens'[k] = tokens[k]
  BY <1>2
<1>5. AuthTypes'
  <2>1. ASSUME NEW k \in Tokens PROVE TokenTyped(k)'
    <3>1. CASE tokens'[k] = PendingRow(s, meta)
      BY <1>3, <3>1 DEF PendingRow, TokenTyped
    <3>2. CASE tokens'[k].state = "reaped"
      BY <3>2 DEF TokenTyped
    <3>3. CASE tokens'[k] = tokens[k]
      BY <3>3 DEF AuthTypes, TokenTyped
    <3>4. QED BY <1>4, <3>1, <3>2, <3>3
  <2>2. (\A r \in Redeems : RedeemTyped(r)') /\ (\A p \in Patches : PatchTyped(p)')
    BY <1>1 DEF AuthTypes, RedeemTyped, PatchTyped
  <2>3. DOMAIN tokens' = Tokens
    BY <1>2
  <2>4. QED BY <1>1, <2>1, <2>2, <2>3 DEF AuthTypes
<1>6. ASSUME NEW r \in Redeems, tx[r].pc \in Holding
      PROVE  /\ tx[r].token \in Tokens /\ tokens[tx[r].token].state = "pending"
             /\ tokens'[tx[r].token] = tokens[tx[r].token]
  <2>1. /\ tx[r].token \in Tokens /\ tokenLock[tx[r].token] = r
        /\ tokens[tx[r].token].state = "pending"
    BY <1>6 DEF TokenLocks, AuthTypes, RedeemTyped
  <2>2. tx[r].token # t /\ tx[r].token \notin Expired
    BY <1>1, <2>1 DEF AuthAssumption
  <2>3. QED BY <1>4, <2>1, <2>2
<1>7. TokenLocks'
  BY <1>1, <1>6 DEF TokenLocks
<1>8. ConnLocks'
  <2>1. \A x : Owns(x)' <=> Owns(x)
    BY <1>1 DEF Owns
  <2>2. \A k \in Subjects : Owns(connLock[k])' <=> Owns(connLock[k])
    BY <1>1 DEF Owns
  <2>3. QED BY <1>1, <2>1, <2>2 DEF ConnLocks
<1>9. WhatIsWritten'
  <2>1. ASSUME NEW r \in Redeems PROVE RedeemRow(r)'
    <3>1. RedeemRow(r)
      BY DEF WhatIsWritten
    <3>2. tx[r].pc = "commit" =>
             Reconnected(conns[tx[r].subject], tx[r].token)'
                = Reconnected(conns[tx[r].subject], tx[r].token)
      BY <1>1, <1>6 DEF Reconnected, Holding
    <3>3. QED BY <1>1, <3>1, <3>2 DEF RedeemRow
  <2>2. ASSUME NEW p \in Patches PROVE PatchRow(p)'
    <3>1. PatchRead(p) /\ PatchMade(p)
      BY DEF WhatIsWritten, PatchRow
    <3>2. PatchRead(p)' /\ PatchMade(p)'
      BY <1>1, <3>1 DEF PatchRead, PatchMade
    <3>3. QED BY <3>2 DEF PatchRow
  <2>3. QED BY <2>1, <2>2 DEF WhatIsWritten
<1>10. Spent'
  <2> SUFFICES ASSUME NEW k \in Subjects, NEW i \in DOMAIN redeemed[k]
               PROVE  tokens'[redeemed[k][i]].state \in {"used", "reaped"}
    BY <1>1 DEF Spent
  <2>1. redeemed[k] \in Seq(Tokens)
    BY DEF AuthTypes
  <2>2. redeemed[k][i] \in Tokens
    BY <2>1
  <2>3. tokens[redeemed[k][i]].state \in {"used", "reaped"}
    BY DEF Spent
  <2>4. QED BY <1>1, <1>4, <2>2, <2>3
<1>11. RedeemedOnce'
  BY <1>1 DEF RedeemedOnce
<1>12. QED BY <1>5, <1>7, <1>8, <1>9, <1>10, <1>11

(* A step that changes nothing of the store, as the clock's.               *)
LEMMA SameStoreKeeps ==
    ASSUME AuthInv, UNCHANGED <<tokens, conns, tokenLock, connLock, tx, redeemed>>
    PROVE  AuthInv'
<1> USE DEF AuthInv
<1>1. AuthTypes'
  BY DEF AuthTypes, TokenTyped, RedeemTyped, PatchTyped
<1>2. TokenLocks' /\ Spent' /\ RedeemedOnce'
  BY DEF TokenLocks, Spent, RedeemedOnce
<1>3. ConnLocks'
  BY DEF ConnLocks, Owns
<1>4. WhatIsWritten'
  BY DEF WhatIsWritten, RedeemRow, Reconnected, PatchRow, PatchRead, PatchMade
<1>5. QED BY <1>1, <1>2, <1>3, <1>4

LEMMA AuthStepKeeps ==
    ASSUME AuthAssumption, AuthInv, [AuthNext]_authVars
    PROVE  AuthInv'
<1>1. ASSUME UNCHANGED authVars PROVE AuthInv'
  BY <1>1, SameStoreKeeps DEF authVars
<1>2. ASSUME Tick PROVE AuthInv'
  BY <1>2, SameStoreKeeps DEF Tick
<1>3. ASSUME NEW t \in Tokens, CreateConnectToken(t) PROVE AuthInv'
  BY <1>3, CreateConnectTokenKeeps
<1>4. ASSUME NEW r \in Redeems, BeginRedeem(r) \/ RedeemStep(r) PROVE AuthInv'
  BY <1>4, BeginRedeemKeeps, LockTokenKeeps, ValidateCredentialKeeps, SelectConnectionKeeps,
     WriteConnectionKeeps, CommitRedeemKeeps DEF RedeemStep
<1>5. ASSUME NEW p \in Patches, GetConnection(p) \/ PatchStep(p) PROVE AuthInv'
  BY <1>5, GetConnectionKeeps, LockForPatchKeeps, CommitPatchKeeps DEF PatchStep
<1>6. ASSUME NEW x \in Redeems \cup Patches, Rollback(x) PROVE AuthInv'
  BY <1>6, EndKeeps DEF Rollback, Txs
<1>7. QED BY <1>1, <1>2, <1>3, <1>4, <1>5, <1>6 DEF AuthNext

LEMMA AuthInvariant == AuthSpec => []AuthInv
<1>1. AuthInit => AuthInv
  BY AuthInitially, AuthAssumption
<1>2. AuthInv /\ [AuthNext]_authVars => AuthInv'
  BY AuthStepKeeps, AuthAssumption
<1>3. QED BY <1>1, <1>2, PTL DEF AuthSpec
-----------------------------------------------------------------------------
(* Theorems.                                                               *)

(* RedeemConnectToken (store.go) locks the token's row before it looks at   *)
(* used_at and keeps the lock until the commit that sets it, so a token is   *)
(* redeemed once, and the stored credential is the last one committed.      *)
THEOREM TokensRedeemedOnce == AuthSpec => []RedeemedOnce
<1>1. AuthInv => RedeemedOnce
  BY DEF AuthInv
<1>2. QED BY <1>1, AuthInvariant, PTL

(* Who owns a connection's row waits for nobody.                           *)
LEMMA OwnersDoNotWait ==
    ASSUME AuthInv, NEW x \in Txs, Owns(x)
    PROVE  tx[x].pc \notin {"idle", "ended"} /\ WaitsFor(x) = {}
<1>1. connLock[tx[x].subject] = x
  BY DEF AuthInv, ConnLocks
<1>2. tx[x].pc \in {"commit", "write"}
  BY DEF Owns
<1>3. QED BY <1>1, <1>2 DEF WaitsFor

(* RedeemConnectToken takes the token's lock before the connection's, and   *)
(* patchMetadataTx takes only the connection's: no transaction waits for    *)
(* ever, and none waits for one that is over.                              *)
THEOREM LocksAreReleased == AuthSpec => []NoneWaitsForever
<1>1. AuthAssumption /\ AuthInv => NoneWaitsForever
  <2> SUFFICES ASSUME AuthAssumption, AuthInv, NEW x \in Txs, NEW y \in WaitsFor(x)
               PROVE  /\ tx[y].pc \notin {"idle", "ended"}
                      /\ \A z \in WaitsFor(y) : /\ tx[z].pc \notin {"idle", "ended"}
                                                /\ WaitsFor(z) = {}
    BY DEF NoneWaitsForever, Txs
  <2>1. y \in Txs /\ y # None
    BY DEF WaitsFor, Txs, AuthAssumption
  <2>2. Owns(y) \/ (y \in Redeems /\ tx[y].pc \in Holding)
    <3>1. CASE tx[x].pc = "lock" /\ tokenLock[tx[x].token] = y
      <4>1. tx[x].token \in Tokens
        BY <3>1 DEF AuthInv, AuthTypes, RedeemTyped, PatchTyped, Txs
      <4>2. QED BY <2>1, <3>1, <4>1 DEF AuthInv, AuthTypes, TokenLocks
    <3>2. CASE tx[x].pc \in {"select", "write", "patch"} /\ connLock[tx[x].subject] = y
      <4>1. tx[x].subject \in Subjects
        BY <3>2 DEF AuthInv, AuthTypes, RedeemTyped, PatchTyped, Holding, Txs
      <4>2. Owns(connLock[tx[x].subject])
        BY <2>1, <3>2, <4>1 DEF AuthInv, ConnLocks
      <4>3. QED BY <3>2, <4>2 DEF Owns
    <3>3. QED BY <3>1, <3>2 DEF WaitsFor
  <2>3. CASE Owns(y)
    BY <2>1, <2>3, OwnersDoNotWait
  <2>4. CASE y \in Redeems /\ tx[y].pc \in Holding
    <3>1. tx[y].subject \in Subjects /\ tx[y].pc \notin {"idle", "ended"}
      BY <2>4 DEF AuthInv, AuthTypes, RedeemTyped, Holding
    <3>2. ASSUME NEW z \in WaitsFor(y) PROVE z \in Txs /\ Owns(z)
      <4>1. z \in Txs /\ z # None /\ connLock[tx[y].subject] = z
        BY <2>4, <3>2 DEF WaitsFor, Holding, Txs, AuthAssumption
      <4>2. Owns(connLock[tx[y].subject])
        BY <3>1, <4>1 DEF AuthInv, ConnLocks
      <4>3. QED BY <4>1, <4>2 DEF Owns
    <3>3. QED BY <3>1, <3>2, OwnersDoNotWait
  <2>5. QED BY <2>2, <2>3, <2>4
<1>2. QED BY <1>1, AuthInvariant, AuthAssumption, PTL

(* MergedWith keeps the wastelands that were there (MergeWastelands,        *)
(* types.go), and a patch is made from the row that it replaces: a          *)
(* wasteland leaves a connection only by the deletion that names it.        *)
THEOREM LeavesByDeletion == AuthSpec => OnlyDeleteRemoves
<1> DEFINE Removed(s, u) == /\ conns[s] # None
                            /\ u \in DOMAIN conns[s].meta.wastelands
                            /\ u \notin DOMAIN conns'[s].meta.wastelands
           Deletes(p, u) == /\ Commits(p)
                            /\ tx[p].ask.op = "delete" /\ tx[p].ask.upstream = u
<1>1. AuthAssumption /\ AuthInv /\ [AuthNext]_authVars =>
         [\A s \in Subjects, u \in Upstreams :
             Removed(s, u) => \E p \in Patches : Deletes(p, u)]_authVars
  <2> SUFFICES ASSUME AuthAssumption, AuthInv, AuthNext,
                      NEW s \in Subjects, NEW u \in Upstreams, Removed(s, u)
               PROVE  \E p \in Patches : Deletes(p, u)
    BY DEF authVars
  <2>1. conns'[s] # conns[s] /\ conns[s] \in ConnectionRow
    BY DEF AuthInv, AuthTypes
  <2>2. ASSUME NEW r \in Redeems, CommitRedeem(r) PROVE FALSE
    <3>1. tx[r].subject = s /\ tx[r].pc = "commit" /\ conns'[s] = tx[r].row
      BY <2>1, <2>2 DEF CommitRedeem, AuthInv, AuthTypes
    <3>2. tx[r].token \in Tokens /\ tokens[tx[r].token].meta \in Metadata
      BY <3>1 DEF AuthInv, AuthTypes, RedeemTyped, TokenLocks, TokenTyped, Holding
    <3>3. conns'[s] = Reconnected(conns[s], tx[r].token)
      BY <3>1 DEF AuthInv, WhatIsWritten, RedeemRow
    <3>4. QED BY <2>1, <3>2, <3>3, ReconnectMakes
  <2>3. ASSUME NEW p \in Patches, CommitPatch(p) PROVE Deletes(p, u)
    <3>1. /\ tx[p].subject = s /\ tx[p].pc = "commit" /\ conns'[s] = tx[p].row
          /\ tx'[p] = Ended /\ PatchTyped(p) /\ PatchMade(p)
      BY <2>1, <2>3 DEF CommitPatch, AuthInv, AuthTypes, WhatIsWritten, PatchRow, Txs
    <3>2. PICK meta \in Patched(conns[s].meta, tx[p].ask) :
             conns'[s] = [conns[s] EXCEPT !.meta = meta, !.record = @ + 1]
      BY <3>1, Zenon DEF PatchMade
    <3>3. conns[s].meta \in Metadata /\ tx[p].ask \in AnyAsk
      BY <2>1, <3>1 DEF ConnectionRow, PatchTyped
    <3>4. meta \in Metadata
      BY <3>2, <3>3, PatchMakes
    <3>5. conns'[s].meta = meta
      <4>1. LET new == [conns[s] EXCEPT !.meta = meta, !.record = @ + 1] IN new.meta = meta
        BY <2>1, <3>4, PatchedRow, Zenon
      <4>2. QED BY <3>2, <4>1, Zenon
    <3>6. tx[p].ask.op = "delete" /\ tx[p].ask.upstream = u
      BY <3>2, <3>3, <3>5, PatchMakes
    <3>7. QED BY <2>1, <3>1, <3>6 DEF Commits, Ended
  <2>4. \/ \E r \in Redeems : CommitRedeem(r)
        \/ \E p \in Patches : CommitPatch(p)
        \/ UNCHANGED conns
    BY DEF AuthNext, Tick, CreateConnectToken, BeginRedeem, RedeemStep, LockToken,
           ValidateCredential, SelectConnection, WriteConnection, GetConnection, PatchStep,
           LockForPatch, Rollback
  <2>5. QED BY <2>1, <2>2, <2>3, <2>4
<1>2. QED BY <1>1, AuthInvariant, AuthAssumption, PTL DEF AuthSpec, OnlyDeleteRemoves
-----------------------------------------------------------------------------
(* The store implements ConnectionStore.                                   *)

(* A redemption at work on a token writes the connection of its subject.    *)
OwnSubject ==
    \A r \in Redeems : tx[r].pc \in Holding => tx[r].subject = tokens[tx[r].token].subject

StoreInv == AuthInv /\ OwnSubject

LEMMA OwnSubjectKeeps ==
    ASSUME AuthAssumption, AuthInv, OwnSubject, [AuthNext]_authVars PROVE OwnSubject'
<1> SUFFICES ASSUME NEW r \in Redeems, tx'[r].pc \in Holding
             PROVE  tx'[r].subject = tokens'[tx'[r].token].subject
  BY DEF OwnSubject
<1>1. r \in Txs /\ DOMAIN tx = Txs /\ DOMAIN tokens = Tokens
  BY DEF AuthInv, AuthTypes, Txs
<1>2. ASSUME tx[r].pc \in Holding
      PROVE  /\ tokenLock[tx[r].token] = r /\ tokens[tx[r].token].state = "pending"
             /\ tx[r].token \in Tokens /\ tx[r].subject = tokens[tx[r].token].subject
  BY <1>2 DEF AuthInv, AuthTypes, RedeemTyped, TokenLocks, OwnSubject
<1>3. ASSUME tx'[r] = tx[r], \A t \in Tokens : tokenLock[t] # None => tokens'[t] = tokens[t]
      PROVE  tx'[r].subject = tokens'[tx'[r].token].subject
  BY <1>2, <1>3 DEF AuthAssumption
<1>4. CASE Tick \/ UNCHANGED authVars
  BY <1>3, <1>4 DEF Tick, authVars
<1>5. ASSUME NEW t \in Tokens, CreateConnectToken(t) PROVE tx'[r].subject = tokens'[tx'[r].token].subject
  <2>1. tx[r].pc \in Holding /\ UNCHANGED tx
    BY <1>5 DEF CreateConnectToken
  <2>2. tx[r].token # t /\ tx[r].token \notin Expired
    BY <1>2, <1>5, <2>1 DEF CreateConnectToken, AuthAssumption
  <2>3. tokens'[tx[r].token] = tokens[tx[r].token]
    BY <1>2, <1>5, <2>1, <2>2 DEF CreateConnectToken
  <2>4. QED BY <1>2, <2>1, <2>3
<1>6. ASSUME NEW q \in Redeems, CommitRedeem(q) PROVE tx'[r].subject = tokens'[tx'[r].token].subject
  <2>1. tx'[r] = tx[r] /\ r # q
    BY <1>1, <1>6 DEF CommitRedeem, Ended, Holding
  <2>2. tokens'[tx[r].token] = tokens[tx[r].token]
    <3>1. tokenLock[tx[q].token] = q
      BY <1>6 DEF CommitRedeem, AuthInv, TokenLocks, Holding
    <3>2. tx[r].token # tx[q].token
      BY <1>2, <2>1, <3>1
    <3>3. QED BY <1>1, <1>2, <1>6, <2>1, <3>2 DEF CommitRedeem
  <2>3. QED BY <1>2, <2>1, <2>2
<1>7. ASSUME NEW q \in Redeems, BeginRedeem(q) \/ LockToken(q)
      PROVE  tx'[r].subject = tokens'[tx'[r].token].subject
  <2>1. UNCHANGED tokens /\ (r # q => tx'[r] = tx[r])
    BY <1>1, <1>7 DEF BeginRedeem, LockToken
  <2>2. r = q => tx'[r].subject = tokens'[tx'[r].token].subject
    BY <1>1, <1>7, <2>1 DEF BeginRedeem, LockToken, Holding, Ended
  <2>3. QED BY <1>3, <2>1, <2>2
<1>8. ASSUME NEW q \in Redeems, ValidateCredential(q) \/ SelectConnection(q) \/ WriteConnection(q)
      PROVE  tx'[r].subject = tokens'[tx'[r].token].subject
  <2>1. UNCHANGED tokens /\ (r # q => tx'[r] = tx[r])
    BY <1>1, <1>8 DEF ValidateCredential, SelectConnection, WriteConnection
  <2>2. tx[q].pc \in Holding
    BY <1>8 DEF ValidateCredential, SelectConnection, WriteConnection, Holding
  <2>3. r = q => tx'[r].subject = tx[r].subject /\ tx'[r].token = tx[r].token
    <3>1. CASE ValidateCredential(q)
      <4> SUFFICES ASSUME r = q PROVE tx'[r].subject = tx[r].subject /\ tx'[r].token = tx[r].token
        OBVIOUS
      <4>1. PICK rec : rec = [tx[r] EXCEPT !.pc = "select"]
        OBVIOUS
      <4>2. tx[r] = [pc |-> "validate", token |-> tx[r].token, subject |-> tx[r].subject]
        BY <3>1 DEF ValidateCredential, AuthInv, AuthTypes, RedeemTyped
      <4>3. rec.subject = tx[r].subject /\ rec.token = tx[r].token
        BY <4>1, <4>2
      <4>4. tx'[r] = rec \/ tx'[r] = Ended
        BY <1>1, <3>1, <4>1 DEF ValidateCredential
      <4>5. QED BY <4>3, <4>4 DEF Ended, Holding
    <3>2. CASE SelectConnection(q)
      BY <1>1, <3>2 DEF SelectConnection
    <3>3. CASE WriteConnection(q)
      BY <1>1, <3>3 DEF WriteConnection
    <3>4. QED BY <1>8, <3>1, <3>2, <3>3
  <2>4. QED BY <1>2, <1>3, <2>1, <2>2, <2>3
<1>9. ASSUME NEW p \in Patches, GetConnection(p) \/ PatchStep(p)
      PROVE  tx'[r].subject = tokens'[tx'[r].token].subject
  <2>1. UNCHANGED tokens /\ r # p
    BY <1>9 DEF GetConnection, PatchStep, LockForPatch, CommitPatch, AuthAssumption
  <2>2. tx'[r] = tx[r]
    BY <1>1, <1>9, <2>1 DEF GetConnection, PatchStep, LockForPatch, CommitPatch
  <2>3. QED BY <1>3, <2>1, <2>2
<1>10. ASSUME NEW x \in Txs, Rollback(x) PROVE tx'[r].subject = tokens'[tx'[r].token].subject
  <2>1. UNCHANGED tokens /\ tx'[r] = tx[r]
    BY <1>1, <1>10 DEF Rollback, Ended, Holding
  <2>2. QED BY <1>3, <2>1
<1>11. QED
  BY <1>4, <1>5, <1>6, <1>7, <1>8, <1>9, <1>10 DEF AuthNext, RedeemStep, Txs

(* What the caller of a transaction is waiting for.                        *)
LEMMA RequestOf ==
    ASSUME AuthAssumption, AuthTypes
    PROVE  /\ \A x \in Txs :
                 /\ tx[x].pc = "idle" => Requests[x] = [state |-> "none"]
                 /\ tx[x].pc = "ended" => Requests[x] = [state |-> "over"]
           /\ \A r \in Redeems :
                 /\ tx[r].pc = "lock" =>
                       Requests[r] = [state |-> "asked", token |-> tx[r].token, at |-> tx[r].at]
                 /\ tx[r].pc \in Holding =>
                       Requests[r] = [state |-> "approved", token |-> tx[r].token]
           /\ \A p \in Patches : tx[p].pc \in {"patch", "commit"} =>
                 Requests[p] = [state |-> "asked", subject |-> tx[p].subject, seen |-> tx[p].seen,
                                ask |-> tx[p].ask]
<1>1. ASSUME NEW x \in Txs PROVE
        /\ tx[x].pc = "idle" => Requests[x] = [state |-> "none"]
        /\ tx[x].pc = "ended" => Requests[x] = [state |-> "over"]
  BY DEF Requests, Txs
<1>2. ASSUME NEW r \in Redeems PROVE
        /\ tx[r].pc = "lock" =>
              Requests[r] = [state |-> "asked", token |-> tx[r].token, at |-> tx[r].at]
        /\ tx[r].pc \in Holding => Requests[r] = [state |-> "approved", token |-> tx[r].token]
  BY DEF Requests, Holding, AuthAssumption
<1>3. ASSUME NEW p \in Patches, tx[p].pc \in {"patch", "commit"} PROVE
        Requests[p] = [state |-> "asked", subject |-> tx[p].subject, seen |-> tx[p].seen,
                       ask |-> tx[p].ask]
  BY <1>3 DEF Requests
<1>4. QED BY <1>1, <1>2, <1>3

LEMMA OneBecomes ==
    ASSUME NEW x \in Txs, \A y \in Txs \ {x} : tx'[y] = tx[y], NEW request, Requests'[x] = request
    PROVE  Store!Becomes(x, request)
<1>1. DOMAIN Requests = Txs /\ DOMAIN Requests' = Txs
  BY DEF Requests, Txs
<1>2. ASSUME NEW y \in Txs \ {x} PROVE Requests'[y] = Requests[y]
  BY <1>2 DEF Requests, Txs
<1>3. Requests' = [y \in Txs |-> Requests'[y]] /\ Requests = [y \in Txs |-> Requests[y]]
  BY DEF Requests, Txs
<1>4. Requests' = [Requests EXCEPT ![x] = request]
  BY <1>1, <1>2, <1>3
<1>5. QED BY <1>4 DEF Store!Becomes

LEMMA SameRequests ==
    ASSUME NEW x \in Txs, \A y \in Txs \ {x} : tx'[y] = tx[y], Requests'[x] = Requests[x]
    PROVE  Requests' = Requests
<1>1. ASSUME NEW y \in Txs PROVE Requests'[y] = Requests[y]
  <2>1. CASE y = x
    BY <2>1
  <2>2. CASE y # x
    BY <2>2 DEF Requests, Txs
  <2>3. QED BY <2>1, <2>2
<1>2. Requests' = [y \in Txs |-> Requests'[y]] /\ Requests = [y \in Txs |-> Requests[y]]
  BY DEF Requests, Txs
<1>3. QED BY <1>1, <1>2

(* A transaction that ends without a commit is a request that failed.        *)
LEMMA EndFails ==
    ASSUME AuthAssumption, AuthInv, AuthInv', NEW x \in Txs, tx' = [tx EXCEPT ![x] = Ended],
           tx[x].pc \notin {"idle", "ended"}, UNCHANGED <<now, tokens, conns>>
    PROVE  Store!Fail(x)
<1>1. tx'[x] = Ended /\ \A y \in Txs \ {x} : tx'[y] = tx[y]
  BY DEF AuthInv, AuthTypes
<1>2. Requests'[x] = [state |-> "over"]
  BY <1>1 DEF Requests, Txs, Ended
<1>3. Store!Over(x)
  BY <1>1, <1>2, OneBecomes DEF Store!Over
<1>4. Requests[x].state \in {"asked", "approved"}
  BY DEF Requests, Txs
<1>5. QED BY <1>3, <1>4 DEF Store!Fail

LEMMA MintIsMint ==
    ASSUME NEW t \in Tokens, CreateConnectToken(t) PROVE Store!Mint(t)
<1>1. PICK s \in Subjects, meta \in Approved :
         tokens' = [k \in Tokens |-> IF k = t THEN PendingRow(s, meta)
                                     ELSE IF k \in Expired THEN [state |-> "reaped"]
                                     ELSE tokens[k]]
  BY DEF CreateConnectToken
<1>2. \A k \in Tokens : k \in Expired <=>
         tokens[k].state \in {"pending", "used"} /\ tokens[k].expires <= now
  BY DEF Expired, HasRow, connectTokenExpired
<1>3. tokens' = [k \in Tokens |->
                   IF k = t
                   THEN [state |-> "pending", subject |-> s, meta |-> meta, expires |-> now + TTL]
                   ELSE IF tokens[k].state \in {"pending", "used"} /\ tokens[k].expires <= now
                   THEN [state |-> "reaped"]
                   ELSE tokens[k]]
  BY <1>1, <1>2 DEF PendingRow
<1>4. tokens[t].state = "unminted" /\ UNCHANGED <<now, conns, tx>>
  BY DEF CreateConnectToken
<1>5. Requests' = Requests
  BY <1>4 DEF Requests
<1>6. QED BY <1>3, <1>4, <1>5 DEF Store!Mint

LEMMA RedemptionStarts ==
    ASSUME AuthAssumption, StoreInv, AuthInv', NEW r \in Redeems,
           BeginRedeem(r) \/ LockToken(r) \/ ValidateCredential(r)
    PROVE  \/ \E t \in Tokens : Store!AskRedeem(r, t)
           \/ Store!Approve(r) \/ Store!Fail(r) \/ UNCHANGED Store!vars
<1> USE DEF StoreInv
<1>1. r \in Txs /\ DOMAIN tx = Txs
  BY DEF AuthInv, AuthTypes, Txs
<1>2. CASE BeginRedeem(r)
  <2>1. PICK t \in Tokens : /\ tokens[t].state # "unminted"
                            /\ tx' = [tx EXCEPT ![r] = [pc |-> "lock", token |-> t, at |-> now]]
    BY <1>2 DEF BeginRedeem
  <2>2. tx'[r] = [pc |-> "lock", token |-> t, at |-> now] /\ \A y \in Txs \ {r} : tx'[y] = tx[y]
    BY <1>1, <2>1
  <2>3. Requests'[r] = [state |-> "asked", token |-> t, at |-> now]
    BY <1>1, <2>2 DEF Requests, Txs
  <2>4. Store!Becomes(r, [state |-> "asked", token |-> t, at |-> now])
    BY <1>1, <2>2, <2>3, OneBecomes
  <2>5. Requests[r].state = "none" /\ UNCHANGED <<now, tokens, conns>>
    BY <1>1, <1>2, RequestOf DEF BeginRedeem, AuthInv
  <2>6. QED BY <2>1, <2>4, <2>5 DEF Store!AskRedeem
<1>3. CASE LockToken(r)
  <2>1. tx[r].pc = "lock" /\ UNCHANGED <<now, tokens, conns>>
    BY <1>3 DEF LockToken
  <2>2. CASE Redeemable(tx[r].token, tx[r].at)
    <3>1. PICK t \in Tokens : t = tx[r].token
      BY <2>1 DEF AuthInv, AuthTypes, RedeemTyped
    <3>2. tx' = [tx EXCEPT ![r] = [pc |-> "validate", token |-> t, subject |-> tokens[t].subject]]
      BY <1>3, <2>2, <3>1 DEF LockToken
    <3>3. /\ tx'[r] = [pc |-> "validate", token |-> t, subject |-> tokens[t].subject]
          /\ \A y \in Txs \ {r} : tx'[y] = tx[y]
      BY <1>1, <3>2
    <3>4. Requests'[r] = [state |-> "approved", token |-> t]
      BY <1>1, <3>3 DEF Requests, Txs
    <3>5. Store!Becomes(r, [state |-> "approved", token |-> t])
      BY <1>1, <3>3, <3>4, OneBecomes
    <3>6. Requests[r].state = "asked" /\ Requests[r].token = t /\ Requests[r].at = tx[r].at
      <4>1. Requests[r] = [state |-> "asked", token |-> tx[r].token, at |-> tx[r].at]
        BY <2>1, RequestOf DEF AuthInv
      <4>2. QED BY <3>1, <4>1
    <3>7. tokens[t].state = "pending" /\ ~(tokens[t].expires <= tx[r].at)
      BY <2>2, <3>1 DEF Redeemable, connectTokenExpired
    <3>8. QED BY <2>1, <3>5, <3>6, <3>7 DEF Store!Approve
  <2>3. CASE ~Redeemable(tx[r].token, tx[r].at)
    BY <1>1, <1>3, <2>1, <2>3, EndFails DEF LockToken
  <2>4. QED BY <2>2, <2>3
<1>4. CASE ValidateCredential(r)
  <2>1. tx[r].pc = "validate" /\ UNCHANGED <<now, tokens, conns>>
    BY <1>4 DEF ValidateCredential
  <2>2. CASE tx' = [tx EXCEPT ![r] = Ended]
    BY <1>1, <2>1, <2>2, EndFails
  <2>3. CASE tx' = [tx EXCEPT ![r].pc = "select"]
    <3>1. PICK rec : rec = [tx[r] EXCEPT !.pc = "select"]
      OBVIOUS
    <3>2. tx[r] = [pc |-> "validate", token |-> tx[r].token, subject |-> tx[r].subject]
      BY <2>1 DEF AuthInv, AuthTypes, RedeemTyped
    <3>3. rec.pc = "select" /\ rec.token = tx[r].token
      BY <3>1, <3>2
    <3>4. tx'[r] = rec /\ \A y \in Txs \ {r} : tx'[y] = tx[y]
      BY <1>1, <2>3, <3>1
    <3>5. Requests'[r] = Requests[r]
      BY <1>1, <2>1, <3>3, <3>4 DEF Requests, Txs, AuthAssumption
    <3>6. Requests' = Requests
      BY <1>1, <3>4, <3>5, SameRequests
    <3>7. QED BY <2>1, <3>6 DEF Store!vars
  <2>4. QED BY <1>4, <2>2, <2>3 DEF ValidateCredential
<1>5. QED BY <1>2, <1>3, <1>4

LEMMA RedemptionWrites ==
    ASSUME AuthAssumption, StoreInv, NEW r \in Redeems, SelectConnection(r) \/ WriteConnection(r)
    PROVE  UNCHANGED Store!vars
<1>1. r \in Txs /\ DOMAIN tx = Txs
  BY DEF StoreInv, AuthInv, AuthTypes, Txs
<1>2. /\ tx[r].pc \in {"select", "write"} /\ tx'[r].pc \in {"write", "commit"}
      /\ tx'[r].token = tx[r].token /\ \A y \in Txs \ {r} : tx'[y] = tx[y]
      /\ UNCHANGED <<now, tokens, conns>>
  BY <1>1 DEF SelectConnection, WriteConnection
<1>3. Requests'[r] = Requests[r]
  BY <1>1, <1>2 DEF Requests, Txs, AuthAssumption
<1>4. Requests' = Requests
  BY <1>1, <1>2, <1>3, SameRequests
<1>5. QED BY <1>2, <1>4 DEF Store!vars

(* The commit of a redemption is the instant at which it takes effect: what  *)
(* it writes is made of the row that it replaces.                          *)
LEMMA CommitRedeems ==
    ASSUME AuthAssumption, StoreInv, NEW r \in Redeems, CommitRedeem(r)
    PROVE  Store!Redeem(r)
<1> USE DEF StoreInv
<1>1. r \in Txs /\ DOMAIN tx = Txs /\ DOMAIN conns = Subjects
  BY DEF AuthInv, AuthTypes, Txs
<1>2. PICK t \in Tokens, s \in Subjects : t = tx[r].token /\ s = tx[r].subject
  BY DEF CommitRedeem, AuthInv, AuthTypes, RedeemTyped, Holding
<1>3. tokens[t].state = "pending" /\ tokens[t].subject = s
  BY <1>2 DEF CommitRedeem, AuthInv, TokenLocks, OwnSubject, Holding
<1>4. PICK row : row = tx[r].row
  OBVIOUS
<1>5. row = Reconnected(conns[s], t)
  BY <1>2, <1>4 DEF CommitRedeem, AuthInv, WhatIsWritten, RedeemRow
<1>6. row = Store!Connected(conns[s], t)
  <2>1. CASE conns[s] = None
    BY <1>5, <2>1 DEF Reconnected, Store!Connected
  <2>2. CASE conns[s] # None
    BY <1>5, <2>2 DEF Reconnected, Store!Connected
  <2>3. QED BY <2>1, <2>2
<1>7. Requests[r].state = "approved" /\ Requests[r].token = t
  <2>1. Requests[r] = [state |-> "approved", token |-> tx[r].token]
    BY RequestOf DEF CommitRedeem, AuthInv, Holding
  <2>2. QED BY <1>2, <2>1
<1>8. tx'[r] = Ended /\ \A y \in Txs \ {r} : tx'[y] = tx[y]
  BY <1>1 DEF CommitRedeem
<1>9. Store!Over(r)
  <2>1. Requests'[r] = [state |-> "over"]
    BY <1>1, <1>8 DEF Requests, Txs, Ended
  <2>2. QED BY <1>1, <1>8, <2>1, OneBecomes DEF Store!Over
<1>10. /\ tokens' = [tokens EXCEPT ![t].state = "used"]
       /\ conns' = [conns EXCEPT ![s] = Store!Connected(conns[s], t)] /\ UNCHANGED now
  <2>1. conns' = [conns EXCEPT ![s] = row] /\ tokens' = [tokens EXCEPT ![t].state = "used"]
    BY <1>2, <1>4 DEF CommitRedeem
  <2>2. QED BY <1>6, <2>1 DEF CommitRedeem
<1>11. QED BY <1>3, <1>7, <1>9, <1>10 DEF Store!Redeem

LEMMA PatchStarts ==
    ASSUME AuthAssumption, StoreInv, AuthInv', NEW p \in Patches,
           GetConnection(p) \/ LockForPatch(p)
    PROVE  \/ \E s \in Subjects, ask \in Asks : Store!AskPatch(p, s, ask)
           \/ Store!Fail(p) \/ UNCHANGED Store!vars
<1> USE DEF StoreInv
<1>1. p \in Txs /\ DOMAIN tx = Txs
  BY DEF AuthInv, AuthTypes, Txs
<1>2. CASE GetConnection(p)
  <2>1. PICK s \in Subjects, ask \in Asks :
           /\ conns[s] # None
           /\ tx' = [tx EXCEPT ![p] = [pc |-> "patch", subject |-> s, seen |-> conns[s],
                                       ask |-> ask]]
    BY <1>2 DEF GetConnection
  <2>2. /\ tx'[p] = [pc |-> "patch", subject |-> s, seen |-> conns[s], ask |-> ask]
        /\ \A y \in Txs \ {p} : tx'[y] = tx[y]
    BY <1>1, <2>1
  <2>3. Requests'[p] = [state |-> "asked", subject |-> s, seen |-> conns[s], ask |-> ask]
    BY <1>1, <2>2 DEF Requests, Txs
  <2>4. Store!Becomes(p, [state |-> "asked", subject |-> s, seen |-> conns[s], ask |-> ask])
    BY <1>1, <2>2, <2>3, OneBecomes
  <2>5. Requests[p].state = "none" /\ UNCHANGED <<now, tokens, conns>>
    BY <1>1, <1>2, RequestOf DEF GetConnection, AuthInv
  <2>6. Store!AskPatch(p, s, ask)
    BY <2>1, <2>4, <2>5 DEF Store!AskPatch
  <2>7. QED BY <2>6
<1>3. CASE LockForPatch(p)
  <2>1. tx[p].pc = "patch" /\ UNCHANGED <<now, tokens, conns>>
    BY <1>3 DEF LockForPatch
  <2>2. CASE tx' = [tx EXCEPT ![p] = Ended]
    BY <1>1, <2>1, <2>2, EndFails
  <2>3. ASSUME NEW row,
               tx' = [tx EXCEPT ![p] = [pc |-> "commit", subject |-> tx[p].subject,
                                        seen |-> tx[p].seen, ask |-> tx[p].ask, row |-> row]]
        PROVE  UNCHANGED Store!vars
    <3>1. /\ tx'[p].pc = "commit" /\ tx'[p].subject = tx[p].subject
          /\ tx'[p].seen = tx[p].seen /\ tx'[p].ask = tx[p].ask
          /\ \A y \in Txs \ {p} : tx'[y] = tx[y]
      BY <1>1, <2>3
    <3>2. Requests'[p] = Requests[p]
      BY <1>1, <2>1, <3>1 DEF Requests, Txs
    <3>3. Requests' = Requests
      BY <1>1, <3>1, <3>2, SameRequests
    <3>4. QED BY <2>1, <3>3 DEF Store!vars
  <2>4. QED
    <3>1. PICK results : \/ results = {} /\ tx' = [tx EXCEPT ![p] = Ended]
                         \/ \E meta \in results : tx' =
                              [tx EXCEPT ![p] =
                                 [pc |-> "commit", subject |-> tx[p].subject,
                                  seen |-> @.seen, ask |-> @.ask,
                                  row |-> [conns[tx[p].subject] EXCEPT !.meta = meta,
                                                                       !.record = @ + 1]]]
      <4> DEFINE R == IF conns[tx[p].subject].record = tx[p].seen.record
                      THEN Patched(conns[tx[p].subject].meta, tx[p].ask) ELSE {}
      <4>1. \/ R = {} /\ tx' = [tx EXCEPT ![p] = Ended]
            \/ \E meta \in R : tx' =
                 [tx EXCEPT ![p] =
                    [pc |-> "commit", subject |-> tx[p].subject,
                     seen |-> @.seen, ask |-> @.ask,
                     row |-> [conns[tx[p].subject] EXCEPT !.meta = meta, !.record = @ + 1]]]
        BY <1>3, Zenon DEF LockForPatch
      <4> HIDE DEF R
      <4>2. QED BY <4>1
    <3>2. CASE tx' = [tx EXCEPT ![p] = Ended]
      BY <2>2, <3>2
    <3>3. ASSUME NEW meta \in results,
                 tx' = [tx EXCEPT ![p] =
                          [pc |-> "commit", subject |-> tx[p].subject,
                           seen |-> @.seen, ask |-> @.ask,
                           row |-> [conns[tx[p].subject] EXCEPT !.meta = meta,
                                                                !.record = @ + 1]]]
          PROVE  UNCHANGED Store!vars
      <4>1. PICK row : row = [conns[tx[p].subject] EXCEPT !.meta = meta, !.record = @ + 1]
        OBVIOUS
      <4>2. tx' = [tx EXCEPT ![p] = [pc |-> "commit", subject |-> tx[p].subject,
                                     seen |-> tx[p].seen, ask |-> tx[p].ask, row |-> row]]
        BY <3>3, <4>1
      <4>3. QED BY <2>3, <4>2
    <3>4. QED BY <3>1, <3>2, <3>3
<1>4. QED BY <1>2, <1>3

(* A patch commits over the very row that its caller has read: while its     *)
(* record version stands, nothing of the row has changed.                  *)
LEMMA CommitPatches ==
    ASSUME AuthAssumption, StoreInv, NEW p \in Patches, CommitPatch(p)
    PROVE  Store!Patch(p)
<1> USE DEF StoreInv
<1>1. p \in Txs /\ DOMAIN tx = Txs /\ DOMAIN conns = Subjects /\ tx[p].pc = "commit"
  BY DEF AuthInv, AuthTypes, Txs, CommitPatch
<1>2. PICK s, seen, ask : s = tx[p].subject /\ seen = tx[p].seen /\ ask = tx[p].ask
  OBVIOUS
<1>3. conns[s] = seen
  BY <1>1, <1>2 DEF AuthInv, WhatIsWritten, PatchRow, PatchRead, PatchMade
<1>4. PICK meta \in Patched(seen.meta, ask) :
         tx[p].row = [seen EXCEPT !.meta = meta, !.record = @ + 1]
  BY <1>1, <1>2, <1>3 DEF AuthInv, WhatIsWritten, PatchRow, PatchMade
<1>5. conns' = [conns EXCEPT ![s] = [seen EXCEPT !.meta = meta, !.record = @ + 1]]
  <2>1. PICK row : row = [seen EXCEPT !.meta = meta, !.record = @ + 1]
    OBVIOUS
  <2>2. QED BY <1>2, <1>4, <2>1 DEF CommitPatch
<1>6. /\ Requests[p].state = "asked" /\ Requests[p].subject = s
      /\ Requests[p].seen = seen /\ Requests[p].ask = ask
  <2>1. Requests[p] = [state |-> "asked", subject |-> tx[p].subject, seen |-> tx[p].seen,
                       ask |-> tx[p].ask]
    BY <1>1, RequestOf DEF AuthInv
  <2>2. QED BY <1>2, <2>1
<1>7. tx'[p] = Ended /\ (\A y \in Txs \ {p} : tx'[y] = tx[y]) /\ UNCHANGED <<now, tokens>>
  BY <1>1 DEF CommitPatch
<1>8. Store!Over(p)
  <2>1. Requests'[p] = [state |-> "over"]
    BY <1>1, <1>7 DEF Requests, Txs, Ended
  <2>2. QED BY <1>1, <1>7, <2>1, OneBecomes DEF Store!Over
<1>9. QED BY <1>3, <1>4, <1>5, <1>6, <1>7, <1>8 DEF Store!Patch

LEMMA StoreSteps ==
    ASSUME AuthAssumption, StoreInv, AuthInv', [AuthNext]_authVars
    PROVE  [Store!Next]_(Store!vars)
<1>1. CASE UNCHANGED authVars
  BY <1>1 DEF authVars, Store!vars, Requests
<1>2. CASE Tick
  <2>1. Requests' = Requests
    BY <1>2 DEF Tick, Requests
  <2>2. Store!Clock
    BY <1>2, <2>1 DEF Tick, Store!Clock
  <2>3. QED BY <2>2 DEF Store!Next
<1>3. ASSUME NEW t \in Tokens, CreateConnectToken(t) PROVE Store!Next
  BY <1>3, MintIsMint DEF Store!Next
<1>4. ASSUME NEW r \in Redeems, BeginRedeem(r) \/ RedeemStep(r) PROVE [Store!Next]_(Store!vars)
  <2>1. CASE BeginRedeem(r) \/ LockToken(r) \/ ValidateCredential(r)
    BY <2>1, RedemptionStarts DEF Store!Next
  <2>2. CASE SelectConnection(r) \/ WriteConnection(r)
    BY <2>2, RedemptionWrites
  <2>3. CASE CommitRedeem(r)
    BY <2>3, CommitRedeems DEF Store!Next
  <2>4. QED BY <1>4, <2>1, <2>2, <2>3 DEF RedeemStep
<1>5. ASSUME NEW p \in Patches, GetConnection(p) \/ PatchStep(p)
      PROVE  [Store!Next]_(Store!vars)
  <2>1. CASE GetConnection(p) \/ LockForPatch(p)
    BY <2>1, PatchStarts DEF Store!Next
  <2>2. CASE CommitPatch(p)
    BY <2>2, CommitPatches DEF Store!Next
  <2>3. QED BY <1>5, <2>1, <2>2 DEF PatchStep
<1>6. ASSUME NEW x \in Txs, Rollback(x) PROVE Store!Next
  <2>1. Store!Fail(x)
    BY <1>6, EndFails DEF Rollback, StoreInv
  <2>2. QED BY <2>1 DEF Store!Next, Txs
<1>7. QED BY <1>1, <1>2, <1>3, <1>4, <1>5, <1>6 DEF AuthNext, Txs

(* The transactions of store.go, with their row locks, the unique subject and *)
(* the record version that a patch names, are atomic for their callers: each *)
(* redemption and each patch takes effect as a whole at its commit, on the   *)
(* row it has read, or not at all.                                          *)
THEOREM TransactionsAreAtomic == AuthSpec => StoreSpec
<1>1. AuthInit => Store!Init
  <2> SUFFICES ASSUME AuthInit PROVE Store!Init
    OBVIOUS
  <2>1. \A x \in Redeems \cup Patches : tx[x].pc = "idle"
    BY DEF AuthInit
  <2>2. Requests = [x \in Redeems \cup Patches |-> [state |-> "none"]]
    BY <2>1 DEF Requests
  <2>3. QED BY <2>2 DEF AuthInit, Store!Init
<1>2. AuthInit => OwnSubject
  BY DEF AuthInit, OwnSubject, Holding
<1>3. AuthInv /\ OwnSubject /\ [AuthNext]_authVars => OwnSubject'
  BY OwnSubjectKeeps, AuthAssumption
<1>4. AuthInv /\ OwnSubject /\ AuthInv' /\ [AuthNext]_authVars => [Store!Next]_(Store!vars)
  BY StoreSteps, AuthAssumption DEF StoreInv
<1>5. QED BY <1>1, <1>2, <1>3, <1>4, AuthInvariant, PTL DEF AuthSpec, StoreSpec, Store!Spec
-----------------------------------------------------------------------------
(* A signed call is let in once while its timestamp is valid. *)

USE NonceAssumption

NonceTypes ==
    /\ clock \in Nat
    /\ Signed \subseteq Calls /\ \A c \in Signed : stamp[c] \in Int
    /\ DOMAIN nonces \subseteq Signed
    /\ DOMAIN copy = Calls \X Copies
    /\ DOMAIN admitted = Calls

Progress(c, i) == copy[<<c, i>>].pc
SeenAt(c, i) == copy[<<c, i>>].at

(* A verification under way has seen a time that has passed, of a call that  *)
(* was signed.                                                             *)
UnderWay ==
    \A c \in Calls, i \in Copies :
        /\ Progress(c, i) \in {"reap", "insert"} => c \in Signed
        /\ Progress(c, i) = "reap" => SeenAt(c, i) \in 0..clock

(* The heart of it: the nonce of a call that was let in is still recorded,   *)
(* until its window has closed.                                            *)
Guarded ==
    /\ \A c \in DOMAIN nonces : nonces[c] = stamp[c] + Skew
    /\ \A c \in Calls : admitted[c] # {} =>
          c \in Signed /\ (c \in DOMAIN nonces \/ stamp[c] + Skew <= clock)

NonceInv == NonceTypes /\ UnderWay /\ Guarded /\ AdmittedOnceWhileValid

(* A step of one delivery leaves the others where they are.                *)
LEMMA OthersUntouched ==
    ASSUME NonceTypes, NEW c \in Calls, NEW i \in Copies, NEW r,
           copy' = [copy EXCEPT ![<<c, i>>] = r]
    PROVE  /\ DOMAIN copy' = DOMAIN copy
           /\ copy'[<<c, i>>] = r
           /\ \A k \in Calls, j \in Copies : <<k, j>> # <<c, i>> =>
                 Progress(k, j)' = Progress(k, j) /\ SeenAt(k, j)' = SeenAt(k, j)
BY DEF NonceTypes, Progress, SeenAt

(* A delivery that is refused, let in or about to insert carries no time.    *)
LEMMA StepKeepsUnderWay ==
    ASSUME NonceInv, NEW c \in Calls, NEW i \in Copies, c \in Signed,
           UNCHANGED <<clock, stamp>>, NEW r,
           copy' = [copy EXCEPT ![<<c, i>>] = r],
           r.pc = "reap" => r.at \in 0..clock
    PROVE  UnderWay'
<1>1. Progress(c, i)' = r.pc /\ SeenAt(c, i)' = r.at
  <2>1. copy'[<<c, i>>] = r
    BY OthersUntouched, Zenon DEF NonceInv
  <2>2. QED BY <2>1, Zenon DEF Progress, SeenAt
<1>2. \A k \in Calls, j \in Copies : <<k, j>> # <<c, i>> =>
         Progress(k, j)' = Progress(k, j) /\ SeenAt(k, j)' = SeenAt(k, j)
  BY OthersUntouched DEF NonceInv
<1>3. QED BY <1>1, <1>2 DEF UnderWay, NonceInv, Signed

LEMMA NonceInitially == NonceInit => NonceInv
<1> SUFFICES ASSUME NonceInit PROVE NonceInv
  OBVIOUS
<1>1. Signed = {} /\ DOMAIN nonces = {}
  BY DEF NonceInit, Signed
<1>2. \A c \in Calls, i \in Copies : Progress(c, i) = "sent"
  BY DEF NonceInit, Progress
<1>3. NonceTypes
  BY <1>1 DEF NonceInit, NonceTypes, Signed
<1>4. UnderWay
  BY <1>2 DEF UnderWay
<1>5. Guarded
  BY <1>1 DEF NonceInit, Guarded
<1>6. AdmittedOnceWhileValid
  BY <1>1 DEF AdmittedOnceWhileValid
<1>7. QED BY <1>3, <1>4, <1>5, <1>6 DEF NonceInv

(* Passing time only closes windows.                                       *)
LEMMA TickKeeps == NonceInv /\ ClockTick => NonceInv'
<1> SUFFICES ASSUME NonceInv, ClockTick PROVE NonceInv'
  OBVIOUS
<1> USE DEF NonceInv, ClockTick
<1>1. NonceTypes'
  BY DEF NonceTypes, Signed
<1>2. UnderWay'
  <2>1. \A k \in Calls, j \in Copies :
           Progress(k, j)' = Progress(k, j) /\ SeenAt(k, j)' = SeenAt(k, j)
    BY DEF Progress, SeenAt
  <2>2. QED BY <2>1 DEF UnderWay, NonceTypes, Signed
<1>3. Guarded'
  BY DEF Guarded, NonceTypes, Signed
<1>4. AdmittedOnceWhileValid'
  BY DEF AdmittedOnceWhileValid, Signed
<1>5. QED BY <1>1, <1>2, <1>3, <1>4

(* A call is signed before anything of it is recorded.                     *)
LEMMA SigningKeeps ==
    ASSUME NonceInv, NEW c \in Calls, signServiceRequest(c)
    PROVE  NonceInv'
<1> USE DEF NonceInv
<1>1. PICK at \in (clock - Drift)..(clock + Drift) :
        stamp' = [k \in Signed \cup {c} |-> IF k = c THEN at ELSE stamp[k]]
  BY DEF signServiceRequest
<1>2. /\ Signed' = Signed \cup {c} /\ at \in Int
      /\ \A k \in Signed : stamp'[k] = stamp[k]
  BY <1>1 DEF signServiceRequest, Signed, NonceTypes
<1>3. UNCHANGED <<clock, nonces, copy, admitted>>
  BY DEF signServiceRequest
<1>4. NonceTypes'
  BY <1>1, <1>2, <1>3 DEF NonceTypes
<1>5. UnderWay'
  BY <1>2, <1>3 DEF UnderWay, Progress, SeenAt
<1>6. Guarded'
  BY <1>2, <1>3 DEF Guarded, NonceTypes
<1>7. AdmittedOnceWhileValid'
  <2>1. admitted[c] = {}
    BY DEF signServiceRequest, Guarded
  <2>2. QED BY <1>2, <1>3, <2>1 DEF AdmittedOnceWhileValid
<1>8. QED BY <1>4, <1>5, <1>6, <1>7

(* Refusing and verifying touch only the delivery.                         *)
LEMMA VerifyKeeps ==
    ASSUME NonceInv, NEW c \in Calls, NEW i \in Copies, verifyTimestamp(c, i)
    PROVE  NonceInv'
<1> USE DEF NonceInv
<1>1. UNCHANGED <<clock, stamp, nonces, admitted>> /\ c \in Signed
  BY DEF verifyTimestamp
<1>2. NonceTypes'
  BY <1>1 DEF NonceTypes, Signed, verifyTimestamp, Refuse
<1>3. UnderWay'
  <2>1. PICK r \in {[pc |-> "refused"], [pc |-> "reap", at |-> clock]} :
          copy' = [copy EXCEPT ![<<c, i>>] = r]
    BY DEF verifyTimestamp, Refuse
  <2>2. clock \in 0..clock
    BY DEF NonceTypes
  <2>3. CASE r = [pc |-> "refused"]
    BY <1>1, <2>1, <2>3, StepKeepsUnderWay
  <2>4. CASE r = [pc |-> "reap", at |-> clock]
    BY <1>1, <2>1, <2>2, <2>4, StepKeepsUnderWay
  <2>5. QED BY <2>3, <2>4
<1>4. Guarded' /\ AdmittedOnceWhileValid'
  BY <1>1 DEF Guarded, AdmittedOnceWhileValid, Signed
<1>5. QED BY <1>2, <1>3, <1>4

(* Reaping drops the nonces of windows that have closed.                   *)
LEMMA ReapKeeps ==
    ASSUME NonceInv, NEW c \in Calls, NEW i \in Copies, reapExpiredServiceNonces(c, i)
    PROVE  NonceInv'
<1> USE DEF NonceInv
<1> DEFINE at == copy[<<c, i>>].at
<1>1. at \in 0..clock /\ c \in Signed
  BY DEF reapExpiredServiceNonces, UnderWay, Progress, SeenAt
<1>2. UNCHANGED <<clock, stamp, admitted>>
  BY DEF reapExpiredServiceNonces
<1>3. /\ DOMAIN nonces' = {k \in DOMAIN nonces : nonces[k] > at}
      /\ \A k \in DOMAIN nonces' : nonces'[k] = nonces[k]
  BY DEF reapExpiredServiceNonces, Kept
<1>4. NonceTypes'
  BY <1>2, <1>3 DEF NonceTypes, Signed, reapExpiredServiceNonces
<1>5. UnderWay'
  <2>1. copy' = [copy EXCEPT ![<<c, i>>] = [pc |-> "insert"]]
    BY DEF reapExpiredServiceNonces
  <2>2. QED BY <1>1, <1>2, <2>1, StepKeepsUnderWay
<1>6. Guarded'
  <2>1. ASSUME NEW k \in Calls, admitted[k] # {}
        PROVE  k \in Signed /\ (k \in DOMAIN nonces' \/ stamp[k] + Skew <= clock)
    <3>1. CASE k \in DOMAIN nonces
      <4>1. nonces[k] = stamp[k] + Skew /\ stamp[k] \in Int /\ clock \in Nat
        BY <3>1 DEF Guarded, NonceTypes
      <4>2. QED BY <4>1, <3>1, <2>1, <1>1, <1>3 DEF Guarded
    <3>2. CASE k \notin DOMAIN nonces
      BY <3>2, <2>1 DEF Guarded
    <3>3. QED BY <3>1, <3>2
  <2>2. QED BY <2>1, <1>2, <1>3 DEF Guarded, Signed
<1>7. AdmittedOnceWhileValid'
  BY <1>2 DEF AdmittedOnceWhileValid, Signed
<1>8. QED BY <1>4, <1>5, <1>6, <1>7

(* Recording: who was let in before without a nonce left is out of the      *)
(* window by now, and so is this one.                                      *)
LEMMA InsertKeeps ==
    ASSUME NonceInv, NEW c \in Calls, NEW i \in Copies, insertNonce(c, i)
    PROVE  NonceInv'
<1> USE DEF NonceInv
<1>1. UNCHANGED <<clock, stamp>> /\ c \in Signed
  BY DEF insertNonce, UnderWay, Progress
<1>2. CASE c \in DOMAIN nonces
  <2>1. UNCHANGED <<nonces, admitted>> /\ Refuse(c, i)
    BY <1>2 DEF insertNonce
  <2>2. NonceTypes' /\ UnderWay'
    <3>1. copy' = [copy EXCEPT ![<<c, i>>] = [pc |-> "refused"]]
      BY <2>1 DEF Refuse
    <3>2. UnderWay'
      BY <1>1, <3>1, StepKeepsUnderWay
    <3>3. QED BY <1>1, <2>1, <3>1, <3>2 DEF NonceTypes, Signed
  <2>3. Guarded' /\ AdmittedOnceWhileValid'
    BY <1>1, <2>1 DEF Guarded, AdmittedOnceWhileValid, Signed
  <2>4. QED BY <2>2, <2>3
<1>3. CASE c \notin DOMAIN nonces
  <2>1. /\ nonces' = [k \in DOMAIN nonces \cup {c} |->
                         IF k = c THEN NonceExpiry(c) ELSE nonces[k]]
        /\ copy' = [copy EXCEPT ![<<c, i>>] = [pc |-> "admitted"]]
        /\ admitted' = [admitted EXCEPT ![c] = @ \cup {<<i, clock>>}]
    BY <1>3 DEF insertNonce
  <2>2. NonceTypes'
    BY <1>1, <2>1 DEF NonceTypes, Signed
  <2>3. UnderWay'
    BY <1>1, <2>1, StepKeepsUnderWay
  <2>4. Guarded'
    BY <1>1, <2>1 DEF Guarded, NonceTypes, NonceExpiry, Signed
  <2>5. AdmittedOnceWhileValid'
    <3> SUFFICES ASSUME NEW k \in Signed,
                        NEW e \in admitted'[k], e[2] < stamp[k] + Skew,
                        NEW f \in admitted'[k], f[2] < stamp[k] + Skew
                 PROVE  e = f
      BY <1>1 DEF AdmittedOnceWhileValid, Signed
    <3>1. CASE k # c
      BY <3>1, <2>1 DEF AdmittedOnceWhileValid, NonceTypes
    <3>2. CASE k = c /\ admitted[c] = {}
      BY <3>2, <2>1 DEF NonceTypes
    <3>3. CASE k = c /\ admitted[c] # {}
      <4>1. stamp[c] + Skew <= clock /\ stamp[c] \in Int /\ clock \in Nat
        BY <1>1, <1>3, <3>3 DEF Guarded, NonceTypes
      <4>2. ~(<<i, clock>>[2] < stamp[c] + Skew)
        BY <4>1
      <4>3. e # <<i, clock>> /\ f # <<i, clock>>
        BY <4>2, <3>3
      <4>4. e \in admitted[c] /\ f \in admitted[c]
        BY <4>3, <2>1, <3>3 DEF NonceTypes
      <4>5. QED BY <4>4, <3>3 DEF AdmittedOnceWhileValid
    <3>4. QED BY <3>1, <3>2, <3>3
  <2>6. QED BY <2>2, <2>3, <2>4, <2>5
<1>4. QED BY <1>2, <1>3

(* The property as the run checks it: a call is let in once while its       *)
(* timestamp is valid (UseServiceNonce, store.go), whatever copies of it and *)
(* whatever reaping other calls do at the same time.                       *)
THEOREM AdmittedOnce == NonceSpec => []AdmittedOnceWhileValid
<1>1. NonceInit => NonceInv
  BY NonceInitially
<1>2. NonceInv /\ [NonceNext]_nonceVars => NonceInv'
  <2> SUFFICES ASSUME NonceInv, [NonceNext]_nonceVars PROVE NonceInv'
    OBVIOUS
  <2>1. CASE ClockTick
    BY <2>1, TickKeeps
  <2>2. ASSUME NEW c \in Calls, signServiceRequest(c) PROVE NonceInv'
    BY <2>2, SigningKeeps
  <2>3. ASSUME NEW c \in Calls, NEW i \in Copies, verifyTimestamp(c, i) PROVE NonceInv'
    BY <2>3, VerifyKeeps
  <2>4. ASSUME NEW c \in Calls, NEW i \in Copies, reapExpiredServiceNonces(c, i)
        PROVE  NonceInv'
    BY <2>4, ReapKeeps
  <2>5. ASSUME NEW c \in Calls, NEW i \in Copies, insertNonce(c, i) PROVE NonceInv'
    BY <2>5, InsertKeeps
  <2>6. CASE UNCHANGED nonceVars
    BY <2>6 DEF nonceVars, NonceInv, NonceTypes, UnderWay, Guarded,
                AdmittedOnceWhileValid, Signed, Progress, SeenAt
  <2>7. QED BY <2>1, <2>2, <2>3, <2>4, <2>5, <2>6 DEF NonceNext
<1>3. NonceInv => AdmittedOnceWhileValid
  BY DEF NonceInv
<1>4. QED BY <1>1, <1>2, <1>3, PTL DEF NonceSpec

-----------------------------------------------------------------------------
(* Data keys. *)

Holds(d) == dec[d].pc \in {"set", "open"}

DecryptCall ==
    [pc : {"idle"}] \cup [pc : {"get", "unwrap"}, envelope : Envelopes]
    \cup [pc : {"set", "open"}, envelope : Envelopes, dek : Buffers]

KeyTypes ==
    /\ DOMAIN bytes = Buffers
    /\ Cached \subseteq Envelopes
    /\ \A e \in Cached : entries[e] \in [slice : Buffers, expired : BOOLEAN]
    /\ dec \in [Decrypts -> DecryptCall]

(* Nobody shares a slice: neither two cached keys, nor two calls, nor a call  *)
(* with the cache.                                                            *)
SlicesApart ==
    /\ \A e, f \in Cached : entries[e].slice = entries[f].slice => e = f
    /\ \A d \in Decrypts : Holds(d) => \A e \in Cached : entries[e].slice # dec[d].dek
    /\ \A c, d \in Decrypts : Holds(c) /\ Holds(d) /\ dec[c].dek = dec[d].dek => c = d

KeyInv == KeyTypes /\ SlicesApart /\ OpensWithItsKey

LEMMA KeysInitially == DEKInit => KeyInv
BY DEF DEKInit, KeyInv, KeyTypes, SlicesApart, OpensWithItsKey, Cached, Holds, DecryptCall

(* The cached keys and the calls hold fewer slices than there are.            *)
LEMMA NewSliceExists ==
    ASSUME DEKAssumption, KeyTypes
    PROVE  /\ NewSlice \in Buffers /\ Unreferenced(NewSlice)
<1> DEFINE kept == {entries[e].slice : e \in Cached}
           held == {dec[d].dek : d \in {c \in Decrypts : Holds(c)}}
<1>1. IsFiniteSet(Cached) /\ Cardinality(Cached) <= Cardinality(Envelopes)
  BY FS_Subset DEF KeyTypes, DEKAssumption
<1>2. IsFiniteSet(kept) /\ Cardinality(kept) <= Cardinality(Cached)
  <2>1. [e \in Cached |-> entries[e].slice] \in Surjection(Cached, kept)
    BY DEF Surjection
  <2> QED
    BY <1>1, <2>1, FS_Surjection
<1>3. /\ IsFiniteSet({c \in Decrypts : Holds(c)})
      /\ Cardinality({c \in Decrypts : Holds(c)}) <= Cardinality(Decrypts)
  BY FS_Subset DEF DEKAssumption
<1>4. IsFiniteSet(held) /\ Cardinality(held) <= Cardinality({c \in Decrypts : Holds(c)})
  <2>1. [d \in {c \in Decrypts : Holds(c)} |-> dec[d].dek]
           \in Surjection({c \in Decrypts : Holds(c)}, held)
    BY DEF Surjection
  <2> QED
    BY <1>3, <2>1, FS_Surjection
<1>5. \E b \in Buffers : b \notin kept \cup held
  <2> SUFFICES ASSUME Buffers \subseteq kept \cup held PROVE FALSE
    OBVIOUS
  <2> HIDE DEF kept, held
  <2>1. /\ IsFiniteSet(kept \cup held)
        /\ Cardinality(kept \cup held) =
              Cardinality(kept) + Cardinality(held) - Cardinality(kept \cap held)
        /\ IsFiniteSet(kept \cap held)
    BY <1>2, <1>4, FS_Union, FS_Intersection
  <2>2. IsFiniteSet(Buffers) /\ Cardinality(Buffers) <= Cardinality(kept \cup held)
    BY <2>1, FS_Subset
  <2>3. Cardinality(Buffers) > Cardinality(Envelopes) + Cardinality(Decrypts)
    BY <2>2 DEF DEKAssumption
  <2>4. /\ Cardinality(kept) \in Nat /\ Cardinality(held) \in Nat /\ Cardinality(Cached) \in Nat
        /\ Cardinality(kept \cap held) \in Nat /\ Cardinality(Buffers) \in Nat
        /\ Cardinality(Envelopes) \in Nat /\ Cardinality(Decrypts) \in Nat
        /\ Cardinality({c \in Decrypts : Holds(c)}) \in Nat
    BY <1>1, <1>2, <1>3, <1>4, <2>1, <2>2, FS_CardinalityType DEF DEKAssumption
  <2> QED
    BY <1>1, <1>2, <1>3, <1>4, <2>1, <2>2, <2>3, <2>4
<1>6. \E b \in Buffers : Unreferenced(b)
  BY <1>5 DEF Unreferenced, Holds
<1> HIDE DEF kept, held
<1> QED
  BY <1>6 DEF NewSlice

(* A new slice belongs to nobody.                                             *)
LEMMA KeyStep ==
    ASSUME DEKAssumption, KeyInv, [DEKNext]_dekVars
    PROVE  KeyInv'
<1> PICK n \in Buffers : n = NewSlice /\ Unreferenced(n)
  BY NewSliceExists DEF KeyInv
<1>n. /\ \A e \in Cached : entries[e].slice # n
      /\ \A d \in Decrypts : Holds(d) => dec[d].dek # n
  BY DEF Unreferenced, Holds
<1> USE DEF KeyInv, KeyTypes, SlicesApart, OpensWithItsKey, Holds, Cached, DecryptCall
<1>1. CASE UNCHANGED dekVars
  BY <1>1 DEF dekVars
<1>2. ASSUME NEW d \in Decrypts, Decrypt(d) PROVE KeyInv'
  BY <1>2 DEF Decrypt
<1>3. ASSUME NEW d \in Decrypts, CacheHit(d) PROVE KeyInv'
  <2>1. PICK e \in Envelopes : e = dec[d].envelope
    BY <1>3 DEF CacheHit
  <2>2. /\ e \in Cached /\ entries' = entries /\ dec[d].pc = "get"
        /\ bytes' = [bytes EXCEPT ![n] = bytes[entries[e].slice]]
        /\ dec' = [dec EXCEPT ![d] = [pc |-> "open", envelope |-> e, dek |-> n]]
    BY <1>3, <2>1 DEF CacheHit
  <2> QED
    BY <1>n, <2>1, <2>2
<1>4. ASSUME NEW d \in Decrypts, CacheMiss(d) PROVE KeyInv'
  <2> DEFINE old == {dec[d].envelope} \cap Cached
  <2>1. /\ bytes' = [b \in Buffers |-> IF \E k \in old : entries[k].slice = b
                                      THEN Zero ELSE bytes[b]]
        /\ entries' = [k \in Cached \ old |-> entries[k]]
        /\ dec' = [dec EXCEPT ![d].pc = "unwrap"] /\ dec[d].pc = "get"
    BY <1>4 DEF CacheMiss
  <2>2. old \subseteq Cached
    OBVIOUS
  <2> HIDE DEF old
  <2> QED
    BY <2>1, <2>2
<1>5. ASSUME NEW d \in Decrypts, Unwrap(d) PROVE KeyInv'
  <2>1. PICK e \in Envelopes : e = dec[d].envelope
    BY <1>5 DEF Unwrap
  <2>2. dec[d].pc = "unwrap" /\ entries' = entries
    BY <1>5 DEF Unwrap
  <2>3. \/ /\ bytes' = [bytes EXCEPT ![n] = e]
           /\ dec' = [dec EXCEPT ![d] = [pc |-> "set", envelope |-> e, dek |-> n]]
        \/ dec' = [dec EXCEPT ![d] = [pc |-> "idle"]] /\ bytes' = bytes
    BY <1>5, <2>1 DEF Unwrap
  <2> QED
    BY <1>n, <2>1, <2>2, <2>3
<1>6. ASSUME NEW d \in Decrypts, CacheSet(d) PROVE KeyInv'
  <2>1. PICK e \in Envelopes : e = dec[d].envelope
    BY <1>6 DEF CacheSet
  <2>2. PICK gone : gone = Evicted(Append(Unused({e}), e), {k \in Cached \ {e} : entries[k].expired})
    OBVIOUS
  <2>3. /\ dec[d].pc = "set" /\ dec' = [dec EXCEPT ![d].pc = "open"]
        /\ bytes' = [s \in Buffers |->
                       IF s = n THEN bytes[dec[d].dek]
                       ELSE IF \E k \in Cached \cap (gone \cup {e}) : entries[k].slice = s
                            THEN Zero
                       ELSE bytes[s]]
        /\ entries' = [k \in (Cached \cup {e}) \ gone |->
                         IF k = e THEN [slice |-> n, expired |-> FALSE] ELSE entries[k]]
    BY <1>6, <2>1, <2>2 DEF CacheSet
  <2>4. Cached' = (Cached \cup {e}) \ gone
    BY <2>3
  <2>5. /\ \A k \in Cached' : entries'[k] \in [slice : Buffers, expired : BOOLEAN]
        /\ e \in Cached' => entries'[e].slice = n
        /\ \A k \in Cached' \ {e} : entries'[k] = entries[k]
    BY <2>3, <2>4
  <2>6. /\ \A c \in Decrypts \ {d} : dec'[c] = dec[c]
        /\ dec'[d].pc = "open" /\ dec'[d].dek = dec[d].dek /\ dec'[d].envelope = e
        /\ dec' \in [Decrypts -> DecryptCall]
    BY <2>1, <2>3
  <2>7. KeyTypes'
    BY <2>3, <2>4, <2>5, <2>6
  <2>8. SlicesApart'
    BY <1>n, <2>3, <2>4, <2>5, <2>6
  <2>9. /\ bytes'[n] = e
        /\ \A c \in Decrypts : Holds(c) => bytes'[dec[c].dek] = bytes[dec[c].dek]
        /\ \A k \in Cached' \ {e} : bytes'[entries[k].slice] = bytes[entries[k].slice]
    BY <1>n, <2>1, <2>3, <2>4
  <2>10. OpensWithItsKey'
    <3>1. ASSUME NEW c \in Decrypts, dec'[c].pc \in {"set", "open"}
          PROVE  bytes'[dec'[c].dek] = dec'[c].envelope
      <4>1. Holds(c) /\ dec'[c].dek = dec[c].dek /\ dec'[c].envelope = dec[c].envelope
        BY <2>1, <2>3, <2>6, <3>1
      <4> QED
        BY <2>9, <4>1
    <3>2. ASSUME NEW k \in Cached' PROVE bytes'[entries'[k].slice] = k
      <4>1. CASE k = e
        BY <2>5, <2>9, <3>2, <4>1
      <4>2. CASE k # e
        <5>1. k \in Cached
          BY <2>4, <3>2, <4>2
        <5> QED
          BY <2>5, <2>9, <3>2, <4>2, <5>1
      <4> QED
        BY <4>1, <4>2
    <3> QED
      BY <3>1, <3>2
  <2> QED
    BY <2>7, <2>8, <2>10
<1>7. ASSUME NEW d \in Decrypts, Open(d) PROVE KeyInv'
  <2>1. /\ dec[d].pc = "open" /\ entries' = entries
        /\ bytes' = [bytes EXCEPT ![dec[d].dek] = Zero]
        /\ dec' = [dec EXCEPT ![d] = [pc |-> "idle"]]
    BY <1>7 DEF Open
  <2>2. /\ \A c \in Decrypts : Holds(c)' => c # d /\ dec'[c] = dec[c] /\ Holds(c)
        /\ dec' \in [Decrypts -> DecryptCall] /\ Cached' = Cached
    BY <2>1
  <2>3. KeyTypes' /\ SlicesApart'
    BY <2>1, <2>2
  <2>4. \A b \in Buffers : b # dec[d].dek => bytes'[b] = bytes[b]
    BY <2>1
  <2>5. OpensWithItsKey'
    BY <2>1, <2>2, <2>4
  <2> QED
    BY <2>3, <2>5
<1>8. ASSUME NEW e \in Envelopes, ExpireEntry(e) PROVE KeyInv'
  <2>1. bytes' = bytes /\ dec' = dec /\ entries' = [entries EXCEPT ![e].expired = TRUE]
    BY <1>8 DEF ExpireEntry
  <2>2. /\ Cached' = Cached
        /\ \A k \in Cached : /\ entries'[k].slice = entries[k].slice
                              /\ entries'[k] \in [slice : Buffers, expired : BOOLEAN]
    BY <2>1
  <2>3. KeyTypes'
    BY <2>1, <2>2
  <2>4. SlicesApart'
    BY <2>1, <2>2
  <2>5. OpensWithItsKey'
    BY <2>1, <2>2
  <2> QED
    BY <2>3, <2>4, <2>5
<1> QED
  BY <1>1, <1>2, <1>3, <1>4, <1>5, <1>6, <1>7, <1>8 DEF DEKNext

(* A credential is opened with its own key, and so is every later one: the    *)
(* cache hands out copies, and who clears a slice is its only owner (kms.go), *)
(* however many calls decrypt at a time and whatever is evicted or expires.   *)
THEOREM OpenedWithOwnKeys == DEKSpec => []OpensWithItsKey
<1>1. DEKAssumption
  BY DEKAssumption
<1>2. KeyInv /\ [DEKNext]_dekVars => KeyInv'
  BY <1>1, KeyStep
<1>3. KeyInv => OpensWithItsKey
  BY DEF KeyInv
<1> QED
  BY <1>2, <1>3, KeysInitially, PTL DEF DEKSpec
=============================================================================
