------------------------- MODULE PresentationProofs -------------------------
(***************************************************************************)
(* Proofs about what is shown: an acknowledged mutation is on every page   *)
(* asked for after it, for every number of upstreams, viewers, items,      *)
(* filters, requests and commits, in hosted mode and without; a stored     *)
(* page is whole, what it offers works and the list agrees with it,        *)
(* whatever becomes of the board meanwhile; and a pull request presents    *)
(* what was rendered, whichever commands fail.                             *)
(***************************************************************************)
EXTENDS PageScopes, BoardViews, GitHubReview, TLAPS

USE ScopeAssumption

(* The pages that anybody asks for: the others are the alias's.            *)
Canonical(k) == k.upstream = canonicalHostedCacheUpstream(k.upstream)

Steps == {"quiet", "invalidateBrowse", "invalidateDetail", "done"}

Invalidating(m) == editing[m].at \in {"invalidateBrowse", "invalidateDetail"}

ScopeTypes ==
    /\ hosted \in BOOLEAN
    /\ content \in [PageKeys -> Nat] /\ oldest \in [PageKeys -> Nat]
    /\ due \in [PageKeys -> Nat]
    /\ DOMAIN serving = Gets /\ DOMAIN owed = Gets /\ DOMAIN editing = Edits

(* What a mutation wrote is not newer than the database, and once the browse *)
(* cache is invalidated no browse page may be older.                       *)
Writes(m) ==
    LET e == editing[m] IN
    /\ e = [at |-> e.at, caller |-> e.caller, ids |-> e.ids, wrote |-> e.wrote]
    /\ e.caller \in Callers
    /\ DOMAIN e.wrote = Affected(e.caller, e.ids)
    /\ \A k \in Affected(e.caller, e.ids) :
          /\ e.wrote[k] \in 0 .. content[k]
          /\ e.at = "invalidateDetail" /\ k.kind = "browse" /\ Canonical(k) =>
                e.wrote[k] <= oldest[k]

WritesKept == \A m \in Edits : Invalidating(m) => Writes(m)

(* The heart of it: no page that is asked for may be older than what was     *)
(* acknowledged of it.                                                     *)
DueIsKept ==
    \A k \in PageKeys : /\ oldest[k] <= content[k]
                        /\ Canonical(k) => due[k] <= oldest[k]

OpenGets ==
    \A r \in Gets : serving[r].open =>
        /\ serving[r].key \in PageKeys
        /\ serving[r].floor \in Nat /\ owed[r] \in Nat
        /\ owed[r] <= serving[r].floor

ScopeInv == ScopeTypes /\ WritesKept /\ DueIsKept /\ OpenGets
-----------------------------------------------------------------------------
(* The two names of a database come to one in the keys.                    *)
LEMMA CanonicalOnce ==
    ASSUME NEW u
    PROVE  canonicalHostedCacheUpstream(canonicalHostedCacheUpstream(u))
             = canonicalHostedCacheUpstream(u)
BY DEF canonicalHostedCacheUpstream

(* A handler's keys are under the canonical name, also outside hosted mode,  *)
(* where it serves the one upstream.                                       *)
LEMMA CallersAreCanonical ==
    ASSUME hosted \in BOOLEAN, NEW c \in Callers
    PROVE  readCacheScope(c).upstream = canonicalHostedCacheUpstream(c.upstream)
<1>1. CASE hosted
  BY <1>1 DEF readCacheScope
<1>2. CASE ~hosted
  <2>1. c.upstream = Proper
    BY <1>2 DEF Callers
  <2>2. QED BY <1>2, <2>1 DEF readCacheScope, canonicalHostedCacheUpstream
<1>3. QED BY <1>1, <1>2

(* What it invalidates takes in every page under the canonical name that     *)
(* shows what was written, whoever views it.                               *)
LEMMA AffectedInScope ==
    ASSUME hosted \in BOOLEAN, NEW c \in Callers, NEW ids,
           NEW k \in Affected(c, ids), Canonical(k)
    PROVE  /\ k \in PageKeys
           /\ k.kind = "browse" => k \in browsePages(readCacheScope(c))
           /\ k.kind # "browse" => k.kind = "detail" /\ k \in detailPages(readCacheScope(c), ids)
<1>1. k \in PageKeys /\ (k.kind = "browse" \/ k.what \in ids)
  BY DEF Affected
<1>2. k.upstream = readCacheScope(c).upstream
  BY CallersAreCanonical DEF Affected, Canonical
<1>3. k.kind = "browse" \/ k.kind = "detail"
  BY <1>1 DEF PageKeys
<1>4. QED BY <1>1, <1>2, <1>3 DEF browsePages, detailPages, InScope

LEMMA ScopeInitially == ScopeInit => ScopeInv
<1> SUFFICES ASSUME ScopeInit PROVE ScopeInv
  OBVIOUS
<1>1. /\ content = [k \in PageKeys |-> 0] /\ oldest = [k \in PageKeys |-> 0]
      /\ serving = [r \in Gets |-> Cache!Closed(NoPage)]
  BY DEF ScopeInit, Cache!Init
<1>2. ScopeTypes
  BY <1>1 DEF ScopeInit, ScopeTypes
<1>3. WritesKept
  BY DEF ScopeInit, WritesKept, Invalidating, Quiet
<1>4. DueIsKept
  BY <1>1 DEF ScopeInit, DueIsKept
<1>5. OpenGets
  BY <1>1 DEF OpenGets, Cache!Closed
<1>6. QED BY <1>2, <1>3, <1>4, <1>5 DEF ScopeInv

(* A step that writes nothing and only lets requests have newer pages keeps  *)
(* what mutations under way have written in reach.                         *)
LEMMA WritesStay ==
    ASSUME ScopeInv, UNCHANGED <<hosted, content, editing>>,
           oldest' \in [PageKeys -> Nat],
           \A k \in PageKeys : oldest[k] <= oldest'[k]
    PROVE  WritesKept'
<1> SUFFICES ASSUME NEW m \in Edits, Invalidating(m) PROVE Writes(m)'
  BY DEF WritesKept, Invalidating
<1>1. Writes(m)
  BY DEF ScopeInv, WritesKept
<1>2. Affected(editing[m].caller, editing[m].ids) \subseteq PageKeys
  BY DEF Affected
<1>3. ASSUME NEW k \in Affected(editing[m].caller, editing[m].ids),
             editing[m].at = "invalidateDetail", k.kind = "browse", Canonical(k)
      PROVE  editing[m].wrote[k] <= oldest'[k]
  <2>1. editing[m].wrote[k] <= oldest[k] /\ editing[m].wrote[k] \in 0 .. content[k]
    BY <1>1, <1>3 DEF Writes
  <2>2. k \in PageKeys
    BY <1>2
  <2>3. QED BY <2>1, <2>2 DEF ScopeInv, ScopeTypes
<1>4. QED BY <1>1, <1>3 DEF Writes, Callers

LEMMA GetKeeps ==
    ASSUME ScopeInv, NEW r \in Gets, Get(r)
    PROVE  ScopeInv'
<1>1. PICK c \in Callers, k \in PageKeys :
         /\ k = KeyOf(readCacheScope(c), k.kind, k.what)
         /\ Cache!Ask(r, k) /\ owed' = [owed EXCEPT ![r] = due[k]]
         /\ UNCHANGED <<hosted, editing, due>>
  BY DEF Get
<1>2. /\ serving' = [serving EXCEPT ![r] =
                       [open |-> TRUE, key |-> k, floor |-> oldest[k], got |-> NoPage]]
      /\ UNCHANGED <<content, oldest>>
  BY <1>1 DEF Cache!Ask
<1>3. k.upstream = readCacheScope(c).upstream
  BY <1>1 DEF KeyOf
<1>4. Canonical(k)
  BY <1>3, CallersAreCanonical, CanonicalOnce DEF Canonical, ScopeInv, ScopeTypes
<1>5. ScopeTypes'
  BY <1>1, <1>2 DEF ScopeInv, ScopeTypes
<1>6. WritesKept'
  BY <1>1, <1>2, WritesStay DEF ScopeInv, ScopeTypes
<1>7. DueIsKept'
  BY <1>1, <1>2 DEF ScopeInv, DueIsKept
<1>8. OpenGets'
  BY <1>1, <1>2, <1>4 DEF ScopeInv, ScopeTypes, DueIsKept, OpenGets
<1>9. QED BY <1>5, <1>6, <1>7, <1>8 DEF ScopeInv

LEMMA ServedKeeps ==
    ASSUME ScopeInv, NEW r \in Gets, Served(r)
    PROVE  ScopeInv'
<1>1. serving[r].open /\ serving[r].key \in PageKeys /\ serving[r].floor \in Nat
  BY DEF Served, Cache!Answer, Cache!AnswerError, ScopeInv, OpenGets
<1>2. /\ UNCHANGED <<hosted, content, editing, due, owed>>
      /\ \E v : serving' = [serving EXCEPT ![r] = Cache!Closed(v)]
  BY DEF Served, Cache!Answer, Cache!AnswerError
<1>3. /\ oldest' \in [PageKeys -> Nat]
      /\ \A k \in PageKeys : oldest[k] <= oldest'[k] /\ oldest'[k] <= content[k]
  <2>1. CASE Cache!AnswerError(r)
    BY <2>1 DEF Cache!AnswerError, ScopeInv, ScopeTypes, DueIsKept
  <2>2. CASE Cache!Answer(r)
    <3>1. PICK v \in serving[r].floor .. content[serving[r].key] :
             oldest' = [oldest EXCEPT ![serving[r].key] = IF @ < v THEN v ELSE @]
      BY <2>2 DEF Cache!Answer
    <3>2. v \in Nat /\ v <= content[serving[r].key]
      BY <1>1, <3>1 DEF ScopeInv, ScopeTypes
    <3>3. QED BY <1>1, <3>1, <3>2 DEF ScopeInv, ScopeTypes, DueIsKept
  <2>3. QED BY <2>1, <2>2 DEF Served
<1>4. ScopeTypes'
  BY <1>2, <1>3 DEF ScopeInv, ScopeTypes
<1>5. WritesKept'
  BY <1>2, <1>3, WritesStay
<1>6. DueIsKept'
  BY <1>2, <1>3 DEF ScopeInv, ScopeTypes, DueIsKept
<1>7. OpenGets'
  BY <1>2 DEF ScopeInv, ScopeTypes, OpenGets, Cache!Closed
<1>8. QED BY <1>4, <1>5, <1>6, <1>7 DEF ScopeInv
-----------------------------------------------------------------------------
(* A commit only makes pages newer: what was written before stays in reach,  *)
(* and requests keep the floors they have.                                 *)
LEMMA CommitGrows ==
    ASSUME ScopeTypes, NEW S, Cache!Commit(S)
    PROVE  /\ content' \in [PageKeys -> Nat]
           /\ \A k \in PageKeys : content[k] <= content'[k]
           /\ UNCHANGED <<oldest, serving>>
BY DEF Cache!Commit, ScopeTypes

LEMMA OldWritesStay ==
    ASSUME ScopeInv, NEW m \in Edits, Invalidating(m),
           UNCHANGED <<hosted, oldest>>, editing'[m] = editing[m],
           content' \in [PageKeys -> Nat],
           \A k \in PageKeys : content[k] <= content'[k]
    PROVE  Writes(m)'
<1>1. Writes(m)
  BY DEF ScopeInv, WritesKept
<1>2. Affected(editing[m].caller, editing[m].ids) \subseteq PageKeys
  BY DEF Affected
<1>3. ASSUME NEW k \in Affected(editing[m].caller, editing[m].ids)
      PROVE  editing[m].wrote[k] \in 0 .. content'[k]
  <2>1. editing[m].wrote[k] \in 0 .. content[k] /\ k \in PageKeys
    BY <1>1, <1>2 DEF Writes
  <2>2. content[k] \in Nat /\ content'[k] \in Nat /\ content[k] <= content'[k]
    BY <2>1 DEF ScopeInv, ScopeTypes
  <2>3. QED BY <2>1, <2>2
<1>4. QED BY <1>1, <1>3 DEF Writes, Callers

LEMMA MutatedKeeps ==
    ASSUME ScopeInv, NEW m \in Edits, Mutated(m)
    PROVE  ScopeInv'
<1>1. PICK c \in Editors, e \in MutationsServed :
         /\ Cache!Commit(Affected(c, e.ids))
         /\ editing' = [editing EXCEPT ![m] =
               [at |-> "invalidateBrowse", caller |-> c, ids |-> e.ids,
                wrote |-> [k \in Affected(c, e.ids) |-> content'[k]]]]
  BY DEF Mutated
<1>2. /\ content' \in [PageKeys -> Nat]
      /\ \A k \in PageKeys : content[k] <= content'[k]
      /\ UNCHANGED <<oldest, serving>>
  BY <1>1, CommitGrows DEF ScopeInv
<1>3. UNCHANGED <<hosted, due, owed>>
  BY DEF Mutated
<1>4. ScopeTypes'
  BY <1>1, <1>2, <1>3 DEF ScopeInv, ScopeTypes
<1>5. WritesKept'
  <2> SUFFICES ASSUME NEW n \in Edits, Invalidating(n)' PROVE Writes(n)'
    BY DEF WritesKept
  <2>1. CASE n = m
    <3>1. editing'[m] = [at |-> "invalidateBrowse", caller |-> c, ids |-> e.ids,
                         wrote |-> [k \in Affected(c, e.ids) |-> content'[k]]]
      BY <1>1 DEF ScopeInv, ScopeTypes
    <3>2. c \in Callers' /\ Affected(c, e.ids) \subseteq PageKeys
      BY <1>3 DEF Editors, Callers, Affected
    <3>3. \A k \in Affected(c, e.ids) : content'[k] \in 0 .. content'[k]
      BY <1>2, <3>2
    <3>4. QED BY <2>1, <3>1, <3>2, <3>3 DEF Writes
  <2>2. CASE n # m
    <3>1. editing'[n] = editing[n]
      BY <1>1, <2>2 DEF ScopeInv, ScopeTypes
    <3>2. Invalidating(n)
      BY <3>1 DEF Invalidating
    <3>3. QED BY <1>2, <1>3, <3>1, <3>2, OldWritesStay
  <2>3. QED BY <2>1, <2>2
<1>6. DueIsKept'
  BY <1>2, <1>3 DEF ScopeInv, ScopeTypes, DueIsKept
<1>7. OpenGets'
  BY <1>2, <1>3 DEF ScopeInv, OpenGets
<1>8. QED BY <1>4, <1>5, <1>6, <1>7 DEF ScopeInv

LEMMA FailureKeeps == ASSUME ScopeInv, MutationFailed PROVE ScopeInv'
<1>1. /\ content' \in [PageKeys -> Nat]
      /\ \A k \in PageKeys : content[k] <= content'[k]
      /\ UNCHANGED <<oldest, serving, hosted, editing, due, owed>>
  BY CommitGrows DEF MutationFailed, ScopeInv
<1>2. ScopeTypes'
  BY <1>1 DEF ScopeInv, ScopeTypes
<1>3. WritesKept'
  BY <1>1, OldWritesStay DEF WritesKept, Invalidating
<1>4. DueIsKept'
  BY <1>1 DEF ScopeInv, ScopeTypes, DueIsKept
<1>5. OpenGets'
  BY <1>1 DEF ScopeInv, OpenGets
<1>6. QED BY <1>2, <1>3, <1>4, <1>5 DEF ScopeInv
-----------------------------------------------------------------------------
(* Publishing makes the least that a new request gets the present.         *)
LEMMA PublishRaises ==
    ASSUME ScopeInv, NEW S, Cache!Publish(S)
    PROVE  /\ oldest' \in [PageKeys -> Nat]
           /\ \A k \in PageKeys : /\ oldest[k] <= oldest'[k] /\ oldest'[k] <= content[k]
                                  /\ k \in S => oldest'[k] = content[k]
           /\ UNCHANGED <<content, serving>>
BY DEF Cache!Publish, ScopeInv, ScopeTypes, DueIsKept

LEMMA InvalidateBrowseKeeps ==
    ASSUME ScopeInv, NEW m \in Edits, InvalidateBrowse(m)
    PROVE  ScopeInv'
<1> DEFINE c == editing[m].caller
           keys == IF hosted /\ ~hasCanonicalHostedReadIdentity(c)
                   THEN {k \in PageKeys : k.kind = "browse"}
                   ELSE browsePages(readCacheScope(c))
<1>1. /\ editing[m].at = "invalidateBrowse" /\ Cache!Publish(keys)
      /\ editing' = [editing EXCEPT ![m].at = "invalidateDetail"]
      /\ UNCHANGED <<hosted, due, owed>>
  BY DEF InvalidateBrowse, invalidateBrowseCaches
<1>2. /\ oldest' \in [PageKeys -> Nat]
      /\ \A k \in PageKeys : /\ oldest[k] <= oldest'[k] /\ oldest'[k] <= content[k]
                             /\ k \in keys => oldest'[k] = content[k]
      /\ UNCHANGED <<content, serving>>
  <2> HIDE DEF keys
  <2> QED BY <1>1, PublishRaises
<1>3. Writes(m)
  BY <1>1 DEF ScopeInv, WritesKept, Invalidating
<1>4. ScopeTypes'
  BY <1>1, <1>2 DEF ScopeInv, ScopeTypes
<1>5. Writes(m)'
  <2>1. editing'[m] = [editing[m] EXCEPT !.at = "invalidateDetail"]
    BY <1>1 DEF ScopeInv, ScopeTypes
  <2>2. ASSUME NEW k \in Affected(c, editing[m].ids), k.kind = "browse", Canonical(k)
        PROVE  editing[m].wrote[k] <= oldest'[k]
    <3>1. k \in keys
      BY <1>3, <2>2, AffectedInScope DEF ScopeInv, ScopeTypes, Writes
    <3>2. k \in PageKeys /\ oldest'[k] = content[k]
      BY <1>2, <3>1 DEF Affected
    <3>3. QED BY <1>3, <3>2 DEF Writes, ScopeInv, ScopeTypes
  <2>3. /\ editing'[m].caller = c /\ editing'[m].ids = editing[m].ids
        /\ editing'[m].wrote = editing[m].wrote
    BY <2>1
  <2>4. QED BY <1>1, <1>2, <1>3, <2>2, <2>3 DEF Writes, Callers
<1>6. WritesKept'
  <2> SUFFICES ASSUME NEW n \in Edits, Invalidating(n)', n # m PROVE Writes(n)'
    BY <1>5 DEF WritesKept
  <2>1. editing'[n] = editing[n]
    BY <1>1 DEF ScopeInv, ScopeTypes
  <2>2. Invalidating(n) /\ Writes(n)
    BY <2>1 DEF Invalidating, ScopeInv, WritesKept
  <2>3. ASSUME NEW k \in Affected(editing[n].caller, editing[n].ids),
               editing[n].at = "invalidateDetail", k.kind = "browse", Canonical(k)
        PROVE  editing[n].wrote[k] <= oldest'[k]
    BY <1>2, <2>2, <2>3 DEF Affected, Writes, ScopeInv, ScopeTypes
  <2>4. QED BY <1>1, <1>2, <2>1, <2>2, <2>3 DEF Writes, Callers
<1>7. DueIsKept'
  BY <1>1, <1>2 DEF ScopeInv, ScopeTypes, DueIsKept
<1>8. OpenGets'
  BY <1>1, <1>2 DEF ScopeInv, OpenGets
<1>9. QED BY <1>4, <1>6, <1>7, <1>8 DEF ScopeInv

(* The acknowledgement: by now every canonical page that the mutation wrote  *)
(* to has been published, in the one cache or in the other.                *)
LEMMA InvalidateDetailKeeps ==
    ASSUME ScopeInv, NEW m \in Edits, InvalidateDetail(m)
    PROVE  ScopeInv'
<1> DEFINE c == editing[m].caller
           wrote == editing[m].wrote
           keys == IF hosted /\ ~hasCanonicalHostedReadIdentity(c)
                   THEN {k \in PageKeys : k.kind = "detail"}
                   ELSE detailPages(readCacheScope(c), editing[m].ids)
<1>1. /\ editing[m].at = "invalidateDetail" /\ Cache!Publish(keys)
      /\ due' = [k \in PageKeys |-> IF k \in DOMAIN wrote /\ wrote[k] > due[k]
                                    THEN wrote[k] ELSE due[k]]
      /\ editing' = [editing EXCEPT ![m] = [at |-> "done"]]
      /\ UNCHANGED <<hosted, owed>>
  BY DEF InvalidateDetail
<1>2. /\ oldest' \in [PageKeys -> Nat]
      /\ \A k \in PageKeys : /\ oldest[k] <= oldest'[k] /\ oldest'[k] <= content[k]
                             /\ k \in keys => oldest'[k] = content[k]
      /\ UNCHANGED <<content, serving>>
  <2> HIDE DEF keys
  <2> QED BY <1>1, PublishRaises
<1>3. Writes(m)
  BY <1>1 DEF ScopeInv, WritesKept, Invalidating
<1>4. ASSUME NEW k \in Affected(c, editing[m].ids)
      PROVE  /\ wrote[k] \in 0 .. content[k]
             /\ Canonical(k) => wrote[k] <= oldest'[k]
  <2>1. k \in PageKeys /\ wrote[k] \in 0 .. content[k] /\ content[k] \in Nat
    BY <1>3 DEF Writes, Affected, ScopeInv, ScopeTypes
  <2>2. CASE Canonical(k) /\ k.kind = "browse"
    BY <1>1, <1>2, <1>3, <2>1, <2>2 DEF Writes, ScopeInv, ScopeTypes
  <2>3. CASE Canonical(k) /\ k.kind # "browse"
    <3>1. k \in keys
      BY <1>3, <2>3, AffectedInScope DEF ScopeInv, ScopeTypes, Writes
    <3>2. QED BY <1>2, <2>1, <3>1
  <2>4. QED BY <2>1, <2>2, <2>3
<1>5. due' \in [PageKeys -> Nat]
  <2>1. ASSUME NEW k \in DOMAIN wrote PROVE wrote[k] \in Nat
    <3>1. k \in Affected(c, editing[m].ids)
      BY <1>3 DEF Writes
    <3>2. k \in PageKeys
      BY <3>1 DEF Affected
    <3>3. QED BY <1>4, <3>1, <3>2 DEF ScopeInv, ScopeTypes
  <2>2. QED BY <1>1, <2>1 DEF ScopeInv, ScopeTypes
<1>6. ScopeTypes'
  BY <1>1, <1>2, <1>5 DEF ScopeInv, ScopeTypes
<1>7. WritesKept'
  <2> SUFFICES ASSUME NEW n \in Edits, Invalidating(n)' PROVE Writes(n)'
    BY DEF WritesKept
  <2>1. n # m /\ editing'[n] = editing[n]
    BY <1>1 DEF Invalidating, ScopeInv, ScopeTypes
  <2>2. Writes(n)
    BY <2>1 DEF Invalidating, ScopeInv, WritesKept
  <2>3. ASSUME NEW k \in Affected(editing[n].caller, editing[n].ids),
               editing[n].at = "invalidateDetail", k.kind = "browse", Canonical(k)
        PROVE  editing[n].wrote[k] <= oldest'[k]
    BY <1>2, <2>2, <2>3 DEF Affected, Writes, ScopeInv, ScopeTypes
  <2>4. QED BY <1>1, <1>2, <2>1, <2>2, <2>3 DEF Writes, Callers
<1>8. DueIsKept'
  <2> SUFFICES ASSUME NEW k \in PageKeys PROVE oldest'[k] <= content'[k]
                                               /\ (Canonical(k) => due'[k] <= oldest'[k])
    BY DEF DueIsKept, Canonical
  <2>1. CASE k \in DOMAIN wrote /\ wrote[k] > due[k]
    <3>1. k \in Affected(c, editing[m].ids)
      BY <1>3, <2>1 DEF Writes
    <3>2. due'[k] = wrote[k]
      BY <1>1, <2>1
    <3>3. QED BY <1>2, <1>4, <3>1, <3>2
  <2>2. CASE ~(k \in DOMAIN wrote /\ wrote[k] > due[k])
    BY <1>1, <1>2, <2>2 DEF ScopeInv, ScopeTypes, DueIsKept
  <2>3. QED BY <2>1, <2>2
<1>9. OpenGets'
  BY <1>1, <1>2 DEF ScopeInv, OpenGets
<1>10. QED BY <1>6, <1>7, <1>8, <1>9 DEF ScopeInv

(* The property as the run checks it: what a mutation handler has            *)
(* acknowledged is on every page asked for afterwards, by whomever and under *)
(* whichever name of the upstream (invalidateReadCaches, handlers.go).     *)
THEOREM ShownOnceAcknowledged == ScopeSpec => []AcknowledgedIsShown
<1>1. ScopeInit => ScopeInv
  BY ScopeInitially
<1>2. ScopeInv /\ [ScopeNext]_scopeVars => ScopeInv'
  <2> SUFFICES ASSUME ScopeInv, [ScopeNext]_scopeVars PROVE ScopeInv'
    OBVIOUS
  <2>1. ASSUME NEW r \in Gets, Get(r) PROVE ScopeInv'
    BY <2>1, GetKeeps
  <2>2. ASSUME NEW r \in Gets, Served(r) PROVE ScopeInv'
    BY <2>2, ServedKeeps
  <2>3. ASSUME NEW m \in Edits, Mutated(m) PROVE ScopeInv'
    BY <2>3, MutatedKeeps
  <2>4. ASSUME NEW m \in Edits, InvalidateBrowse(m) PROVE ScopeInv'
    BY <2>4, InvalidateBrowseKeeps
  <2>5. ASSUME NEW m \in Edits, InvalidateDetail(m) PROVE ScopeInv'
    BY <2>5, InvalidateDetailKeeps
  <2>6. CASE MutationFailed
    BY <2>6, FailureKeeps
  <2>7. CASE UNCHANGED scopeVars
    <3>1. UNCHANGED <<hosted, content, oldest, serving, editing, due, owed>>
      BY <2>7 DEF scopeVars, cacheVars
    <3>2. WritesKept'
      BY <3>1, WritesStay DEF ScopeInv, ScopeTypes
    <3>3. QED BY <3>1, <3>2 DEF ScopeInv, ScopeTypes, DueIsKept, OpenGets
  <2>8. QED BY <2>1, <2>2, <2>3, <2>4, <2>5, <2>6, <2>7 DEF ScopeNext
<1>3. ScopeInv => AcknowledgedIsShown
  BY DEF ScopeInv, OpenGets, AcknowledgedIsShown
<1>4. QED BY <1>1, <1>2, <1>3, PTL DEF ScopeSpec

-----------------------------------------------------------------------------
(* What the shared cache stores of a detail page. *)

DetailFields == {"at", "viewer", "shared", "main", "branch", "pending", "listed", "incomplete"}

(* The paths on which Detail reads main again, or the submission's branch,    *)
(* have the listing; a page that is ready and not incomplete has it if main's *)
(* row says that there may be something to list.                              *)
PageInv ==
    /\ page = Idle \/ (DOMAIN page = DetailFields /\ page.at # "idle")
    /\ page.at \in {"load", "plain", "plainPending"} => page.listed = TRUE
    /\ page.at = "answer" => \/ page.incomplete = TRUE
                             \/ allowsUpstreamPending(page.main.status) => page.listed = TRUE

LEMMA PagesInitially == ViewInit => PageInv /\ StoredPagesAreWhole
BY DEF ViewInit, PageInv, StoredPagesAreWhole, Idle

LEMMA PageStep ==
    ASSUME PageInv, StoredPagesAreWhole, [ViewNext]_viewVars
    PROVE  PageInv' /\ StoredPagesAreWhole'
<1> USE DEF PageInv, DetailFields, Idle
<1>1. CASE UNCHANGED viewVars
  BY <1>1 DEF viewVars, boardVars, StoredPagesAreWhole
<1>2. ASSUME page' = page, stored' = stored PROVE PageInv' /\ StoredPagesAreWhole'
  BY <1>2 DEF StoredPagesAreWhole
<1>3. ASSUME NEW r \in Handles, Mutate(r) \/ DiscardBranch(r) \/ MergePull(r) \/ SyncFork(r)
      PROVE  PageInv' /\ StoredPagesAreWhole'
  BY <1>2, <1>3 DEF Mutate, DiscardBranch, MergePull, SyncFork
<1>4. CASE ListPendingWantedIDs
  BY <1>2, <1>4 DEF ListPendingWantedIDs
<1>5. ASSUME stored' = stored PROVE StoredPagesAreWhole'
  BY <1>5 DEF StoredPagesAreWhole
<1>6. ASSUME NEW v \in Handles, NEW shared \in BOOLEAN, BeginDetail(v, shared)
      PROVE  PageInv' /\ StoredPagesAreWhole'
  BY <1>5, <1>6 DEF BeginDetail
<1>n. ASSUME NEW at, page.at = at, at # "idle"
      PROVE  DOMAIN page = DetailFields
  BY <1>n
<1>7. CASE ReadMain
  <2>1. page.at = "main" /\ stored' = stored
    BY <1>7 DEF ReadMain, Reading
  <2>2. \/ page' = [page EXCEPT !.at = "branch", !.main = upstreamRows]
        \/ page' = [page EXCEPT !.at = "branch"]
    BY <1>7 DEF ReadMain, Goto
  <2>3. DOMAIN page' = DetailFields /\ page'.at = "branch"
    BY <1>n, <2>1, <2>2
  <2> QED
    BY <1>5, <2>1, <2>3
<1>8. CASE ReadBranch
  <2>1. page.at = "branch" /\ stored' = stored
    BY <1>8 DEF ReadBranch, Reading
  <2>2. PICK found : page' = [page EXCEPT !.branch = found,
                   !.at = IF shouldFetchUpstreamPRs(page.main, found) THEN "pending" ELSE "answer"]
    BY <1>8 DEF ReadBranch
  <2>3. DOMAIN page = DetailFields /\ DOMAIN page' = DetailFields /\ page'.main = page.main
    BY <2>1, <2>2 DEF Idle
  <2>4. ASSUME ~shouldFetchUpstreamPRs(page.main, found)
        PROVE  ~allowsUpstreamPending(page.main.status)
    BY <2>4 DEF shouldFetchUpstreamPRs, allowsUpstreamPending, Exists
  <2>5. page'.at = IF shouldFetchUpstreamPRs(page.main, found) THEN "pending" ELSE "answer"
    BY <2>2, <2>3
  <2> QED
    BY <1>5, <2>1, <2>3, <2>4, <2>5
<1>9. CASE ReadPending
  <2>1. page.at = "pending" /\ stored' = stored
    BY <1>9 DEF ReadPending, Reading
  <2>2. \/ \E at \in {"answer", "load", "plain"} :
               page' = [page EXCEPT !.pending = pendingList, !.listed = TRUE, !.at = at]
        \/ page' = [page EXCEPT !.at = "answer", !.incomplete = TRUE]
        \/ page' = Idle
    BY <1>9 DEF ReadPending
  <2>3. \/ /\ DOMAIN page' = DetailFields /\ page'.at \in {"answer", "load", "plain"}
           /\ page'.listed = TRUE
        \/ DOMAIN page' = DetailFields /\ page'.at = "answer" /\ page'.incomplete = TRUE
        \/ page' = Idle
    BY <1>n, <2>1, <2>2
  <2> QED
    BY <1>5, <2>1, <2>3
<1>10. CASE LoadPending
  <2>1. page.at = "load" /\ stored' = stored
    BY <1>10 DEF LoadPending, Reading
  <2>2. (\E b : page' = [page EXCEPT !.branch = b, !.at = "answer"]) \/ page' = Idle
    BY <1>10 DEF LoadPending
  <2>3. \/ DOMAIN page' = DetailFields /\ page'.at = "answer" /\ page'.listed = TRUE
        \/ page' = Idle
    BY <1>n, <2>1, <2>2
  <2> QED
    BY <1>5, <2>1, <2>3
<1>11. CASE ReadPlain
  <2>1. page.at = "plain" /\ stored' = stored
    BY <1>11 DEF ReadPlain, Reading
  <2>2. \/ \E at \in {"plainPending", "answer"} :
               page' = [page EXCEPT !.main = upstreamRows, !.at = at]
        \/ page' = Idle
    BY <1>11 DEF ReadPlain
  <2>3. \/ /\ DOMAIN page' = DetailFields /\ page'.at \in {"plainPending", "answer"}
           /\ page'.listed = TRUE
        \/ page' = Idle
    BY <1>n, <2>1, <2>2
  <2> QED
    BY <1>5, <2>1, <2>3
<1>12. CASE ReadPlainPending
  <2>1. page.at = "plainPending" /\ stored' = stored
    BY <1>12 DEF ReadPlainPending, Reading
  <2>2. \/ page' = [page EXCEPT !.pending = pendingList, !.listed = TRUE, !.at = "answer"]
        \/ page' = [page EXCEPT !.listed = FALSE, !.incomplete = TRUE, !.at = "answer"]
    BY <1>12 DEF ReadPlainPending
  <2>3. /\ DOMAIN page' = DetailFields /\ page'.at = "answer"
        /\ page'.listed = TRUE \/ page'.incomplete = TRUE
    BY <1>n, <2>1, <2>2
  <2> QED
    BY <1>5, <2>1, <2>3
<1>13. CASE AnswerDetail
  <2>1. page.at = "answer" /\ page' = Idle
    BY <1>13 DEF AnswerDetail, Reading
  <2>2. CASE ~Storable
    BY <1>5, <1>13, <2>1, <2>2 DEF AnswerDetail, Idle
  <2>3. CASE Storable
    <3>1. stored' = [mainStatus |-> page.main.status, listed |-> page.listed]
      BY <1>13, <2>3 DEF AnswerDetail
    <3>2. allowsUpstreamPending(page.main.status) => page.listed = TRUE
      BY <2>1, <2>3 DEF Storable
    <3> QED
      BY <2>1, <3>1, <3>2 DEF Idle, StoredPagesAreWhole
  <2> QED
    BY <2>2, <2>3
<1> QED
  BY <1>1, <1>3, <1>4, <1>6, <1>7, <1>8, <1>9, <1>10, <1>11, <1>12, <1>13 DEF ViewNext

(* A page that goes to the shared cache has the pending submissions if there  *)
(* may be any, by whichever path through Detail it was made, whichever reads  *)
(* failed and whoever changes the board meanwhile (handleDetail).             *)
THEOREM WholePagesStored == ViewSpec => []StoredPagesAreWhole
BY PagesInitially, PageStep, PTL DEF ViewSpec

-----------------------------------------------------------------------------
(* What rows have that scripts keep.                                         *)

RowFields == {"status", "claimedBy", "text", "completions", "stamps"}
Holders == Handles \cup {NoRig}

Fine(t) ==
    /\ DOMAIN t = RowFields
    /\ t.status \in Rows!Status /\ t.claimedBy \in Holders
    /\ \A c \in t.completions : "by" \in DOMAIN c /\ c.by \in Handles

(* Statements that keep it.                                                  *)
Fits(s) ==
    \/ /\ s.into = "wanted"
       /\ DOMAIN s.set \subseteq {"status", "claimedBy", "text"}
       /\ "status" \in DOMAIN s.set => s.set.status \in Rows!Status
       /\ "claimedBy" \in DOMAIN s.set => s.set.claimedBy \in Holders
    \/ s.into = "completions" /\ s.do \in {"delete", "link"}
    \/ s.into = "completions" /\ s.do \in {"insert", "submit"} /\ s.by \in Handles
    \/ s.into = "stamps"

Short(script) ==
    \/ \E a : script = <<a>> /\ Fits(a)
    \/ \E a, b : script = <<a, b>> /\ Fits(a) /\ Fits(b)
    \/ \E a, b, c : script = <<a, b, c>> /\ Fits(a) /\ Fits(b) /\ Fits(c)

(* UPDATE wanted.                                                            *)
LEMMA ApplyUpdate ==
    ASSUME NEW t, Fine(t), NEW s, Fits(s), s.into = "wanted"
    PROVE  Fine(Rows!Apply(s, t))
<1>1. CASE t.status \in s.where /\ t.claimedBy \in s.holders
  <2>1. PICK new, u : new = s.set /\ u = Rows!Override(t, new)
    OBVIOUS
  <2>2. /\ DOMAIN u = DOMAIN t
        /\ \A f \in DOMAIN t : u[f] = IF f \in DOMAIN new THEN new[f] ELSE t[f]
    BY <2>1 DEF Rows!Override
  <2>3. /\ DOMAIN new \subseteq {"status", "claimedBy", "text"}
        /\ "status" \in DOMAIN new => new.status \in Rows!Status
        /\ "claimedBy" \in DOMAIN new => new.claimedBy \in Holders
    BY <2>1 DEF Fits
  <2>4. u.status \in Rows!Status /\ u.claimedBy \in Holders
    BY <2>2, <2>3 DEF Fine, RowFields
  <2>5. u.completions = t.completions
    BY <2>2, <2>3 DEF Fine, RowFields
  <2>6. Rows!Apply(s, t) = u
    BY <1>1, <2>1 DEF Rows!Apply
  <2> QED
    BY <2>2, <2>4, <2>5, <2>6 DEF Fine
<1>2. CASE ~(t.status \in s.where /\ t.claimedBy \in s.holders)
  BY <1>2 DEF Rows!Apply
<1> QED
  BY <1>1, <1>2

(* Writes to the completions.                                                *)
LEMMA ApplyCompletions ==
    ASSUME NEW t, Fine(t), NEW s, Fits(s), s.into = "completions"
    PROVE  \A c \in Rows!ApplyToCompletions(s, t) : "by" \in DOMAIN c /\ c.by \in Handles
<1>1. CASE s.do = "delete"
  BY <1>1 DEF Rows!ApplyToCompletions
<1>2. CASE s.do \in {"insert", "submit"}
  <2>1. s.by \in Handles
    BY <1>2 DEF Fits
  <2>2. PICK c : c = [id |-> s.id, by |-> s.by, stamp |-> NoRig]
    OBVIOUS
  <2>3. "by" \in DOMAIN c /\ c.by \in Handles
    BY <2>1, <2>2
  <2>4. Rows!ApplyToCompletions(s, t) \subseteq t.completions \cup {c}
    BY <1>2, <2>2 DEF Rows!ApplyToCompletions
  <2> QED
    BY <2>3, <2>4 DEF Fine
<1>3. CASE s.do = "link"
  <2>1. Rows!ApplyToCompletions(s, t) =
          {IF c.id = s.id THEN [c EXCEPT !.stamp = s.stamp] ELSE c : c \in t.completions}
    BY <1>3 DEF Rows!ApplyToCompletions
  <2>2. ASSUME NEW c \in t.completions
        PROVE  /\ "by" \in DOMAIN [c EXCEPT !.stamp = s.stamp]
               /\ [c EXCEPT !.stamp = s.stamp].by \in Handles
    BY DEF Fine
  <2> QED
    BY <2>1, <2>2 DEF Fine
<1> QED
  BY <1>1, <1>2, <1>3 DEF Fits

LEMMA ApplyFine ==
    ASSUME NEW t, Fine(t), NEW s, Fits(s)
    PROVE  /\ Fine(Rows!Apply(s, t))
           /\ s.into # "wanted" => /\ Rows!Apply(s, t).status = t.status
                                   /\ Rows!Apply(s, t).claimedBy = t.claimedBy
<1>1. CASE s.into = "wanted"
  BY <1>1, ApplyUpdate
<1>2. CASE s.into = "completions"
  <2>1. PICK C, u : C = Rows!ApplyToCompletions(s, t) /\ u = [t EXCEPT !.completions = C]
    OBVIOUS
  <2>2. /\ DOMAIN u = DOMAIN t /\ u.status = t.status /\ u.claimedBy = t.claimedBy
        /\ u.completions = C
    BY <2>1 DEF Fine, RowFields
  <2>3. Rows!Apply(s, t) = u
    BY <1>2, <2>1 DEF Rows!Apply
  <2>4. \A c \in C : "by" \in DOMAIN c /\ c.by \in Handles
    BY <1>2, <2>1, ApplyCompletions
  <2> QED
    BY <2>2, <2>3, <2>4 DEF Fine
<1>3. CASE s.into = "stamps"
  <2>1. PICK u : u = [t EXCEPT !.stamps = @ \cup {s.stamp}]
    OBVIOUS
  <2>2. /\ DOMAIN u = DOMAIN t /\ u.status = t.status /\ u.claimedBy = t.claimedBy
        /\ u.completions = t.completions
    BY <2>1 DEF Fine, RowFields
  <2>3. Rows!Apply(s, t) = u
    BY <1>3, <2>1 DEF Rows!Apply
  <2> QED
    BY <2>2, <2>3 DEF Fine
<1> QED
  BY <1>1, <1>2, <1>3 DEF Fits

(* An UPDATE whose WHERE clause the item meets.                              *)
LEMMA UpdateMeets ==
    ASSUME NEW t, Fine(t), NEW where, NEW holders, NEW set,
           t.status \in where, t.claimedBy \in holders, "status" \in DOMAIN set
    PROVE  Rows!Apply(Rows!UpdateHeld(where, holders, set), t).status = set.status
<1>1. PICK s : s = Rows!UpdateHeld(where, holders, set)
  OBVIOUS
<1>2. s.into = "wanted" /\ s.where = where /\ s.holders = holders /\ s.set = set
  BY <1>1 DEF Rows!UpdateHeld
<1>3. Rows!Apply(s, t) = Rows!Override(t, set)
  BY <1>2 DEF Rows!Apply
<1>4. Rows!Override(t, set)["status"] = set["status"]
  BY DEF Rows!Override, Fine, RowFields
<1> QED
  BY <1>1, <1>3, <1>4

(* Scripts applied whole.                                                    *)
LEMMA RunsOne == ASSUME NEW a, NEW t PROVE Rows!Run(<<a>>, t) = Rows!Apply(a, t)
<1>1. PICK q : q = <<a>>
  OBVIOUS
<1>2. Len(q) = 1 /\ q[1] = a
  BY <1>1
<1>3. ASSUME NEW u, NEW i \in {2, 3, 4, 5} PROVE Rows!Nth(q, i, u) = u
  BY <1>2 DEF Rows!Nth
<1>4. Rows!Nth(q, 1, t) = Rows!Apply(a, t)
  BY <1>2 DEF Rows!Nth
<1> QED
  BY <1>1, <1>3, <1>4 DEF Rows!Run

LEMMA RunsTwo ==
    ASSUME NEW a, NEW b, NEW t
    PROVE  Rows!Run(<<a, b>>, t) = Rows!Apply(b, Rows!Apply(a, t))
<1>1. PICK q : q = <<a, b>>
  OBVIOUS
<1>2. Len(q) = 2 /\ q[1] = a /\ q[2] = b
  BY <1>1
<1>3. ASSUME NEW u
      PROVE  /\ Rows!Nth(q, 3, u) = u /\ Rows!Nth(q, 4, u) = u /\ Rows!Nth(q, 5, u) = u
             /\ Rows!Nth(q, 1, u) = Rows!Apply(a, u) /\ Rows!Nth(q, 2, u) = Rows!Apply(b, u)
  BY <1>2 DEF Rows!Nth
<1> QED
  BY <1>1, <1>3 DEF Rows!Run

LEMMA RunsThree ==
    ASSUME NEW a, NEW b, NEW c, NEW t
    PROVE  Rows!Run(<<a, b, c>>, t) = Rows!Apply(c, Rows!Apply(b, Rows!Apply(a, t)))
<1>1. PICK q : q = <<a, b, c>>
  OBVIOUS
<1>2. Len(q) = 3 /\ q[1] = a /\ q[2] = b /\ q[3] = c
  BY <1>1
<1>3. ASSUME NEW u
      PROVE  /\ Rows!Nth(q, 4, u) = u /\ Rows!Nth(q, 5, u) = u
             /\ Rows!Nth(q, 1, u) = Rows!Apply(a, u) /\ Rows!Nth(q, 2, u) = Rows!Apply(b, u)
             /\ Rows!Nth(q, 3, u) = Rows!Apply(c, u)
  BY <1>2 DEF Rows!Nth
<1> QED
  BY <1>1, <1>3 DEF Rows!Run

LEMMA RunFine ==
    ASSUME NEW t, Fine(t), NEW script, Short(script)
    PROVE  Fine(Rows!Run(script, t))
<1>1. CASE \E a : script = <<a>> /\ Fits(a)
  BY <1>1, RunsOne, ApplyFine
<1>2. CASE \E a, b : script = <<a, b>> /\ Fits(a) /\ Fits(b)
  <2>1. PICK a, b : script = <<a, b>> /\ Fits(a) /\ Fits(b)
    BY <1>2
  <2>2. Fine(Rows!Apply(a, t))
    BY <2>1, ApplyFine
  <2>3. Fine(Rows!Apply(b, Rows!Apply(a, t)))
    BY <2>1, <2>2, ApplyFine
  <2> QED
    BY <2>1, <2>3, RunsTwo
<1>3. CASE \E a, b, c : script = <<a, b, c>> /\ Fits(a) /\ Fits(b) /\ Fits(c)
  <2>1. PICK a, b, c : script = <<a, b, c>> /\ Fits(a) /\ Fits(b) /\ Fits(c)
    BY <1>3
  <2>2. Fine(Rows!Apply(a, t))
    BY <2>1, ApplyFine
  <2>3. Fine(Rows!Apply(b, Rows!Apply(a, t)))
    BY <2>1, <2>2, ApplyFine
  <2>4. Fine(Rows!Apply(c, Rows!Apply(b, Rows!Apply(a, t))))
    BY <2>1, <2>3, ApplyFine
  <2> QED
    BY <2>1, <2>4, RunsThree
<1> QED
  BY <1>1, <1>2, <1>3 DEF Short

(* The statements of the scripts.                                            *)
LEMMA UpdateFits ==
    ASSUME NEW where, NEW holders, NEW st \in Rows!Status, NEW by \in Holders, NEW text
    PROVE  /\ Fits(Rows!UpdateHeld(where, holders, [status |-> st]))
           /\ Fits(Rows!UpdateHeld(where, holders, [status |-> st, claimedBy |-> by]))
           /\ Fits(Rows!UpdateHeld(where, holders, [status |-> st, text |-> text]))
BY DEF Fits, Rows!UpdateHeld

LEMMA StatementsFit ==
    ASSUME NEW r \in Handles, NEW id, NEW stamp, NEW x
    PROVE  /\ Fits(Rows!ClaimWantedDML(r)) /\ Fits(Rows!UnclaimWantedDML)
           /\ Fits(Rows!CloseWantedDML) /\ Fits(Rows!DeleteWantedDML)
           /\ Fits(Rows!InsertWantedDML) /\ Fits(Rows!DeleteCompletions)
           /\ Fits(Rows!InsertCompletion(id, r)) /\ Fits(Rows!SubmitIfInReview(id, r))
           /\ Fits(Rows!LinkStamp(id, stamp)) /\ Fits(Rows!InsertStamp(x))
           /\ Fits(Rows!UpdateHeld({"claimed"}, {r}, [status |-> "in_review"]))
           /\ Fits(Rows!Update({"in_review"}, [status |-> "claimed"]))
           /\ Fits(Rows!Update({"in_review"}, [status |-> "completed"]))
           /\ Fits(Rows!Update(Rows!Present, [status |-> "completed", claimedBy |-> r]))
<1>1. /\ {"none", "open", "claimed", "in_review", "completed", "withdrawn"} \subseteq Rows!Status
      /\ r \in Holders /\ NoRig \in Holders
  BY DEF Rows!Status, Rows!Present, Holders
<1>2. /\ Fits(Rows!ClaimWantedDML(r)) /\ Fits(Rows!UnclaimWantedDML)
      /\ Fits(Rows!CloseWantedDML) /\ Fits(Rows!DeleteWantedDML) /\ Fits(Rows!InsertWantedDML)
      /\ Fits(Rows!UpdateHeld({"claimed"}, {r}, [status |-> "in_review"]))
      /\ Fits(Rows!Update({"in_review"}, [status |-> "claimed"]))
      /\ Fits(Rows!Update({"in_review"}, [status |-> "completed"]))
      /\ Fits(Rows!Update(Rows!Present, [status |-> "completed", claimedBy |-> r]))
  BY <1>1, UpdateFits DEF Rows!ClaimWantedDML, Rows!UnclaimWantedDML, Rows!CloseWantedDML,
     Rows!DeleteWantedDML, Rows!InsertWantedDML, Rows!Update
<1>3. /\ Fits(Rows!DeleteCompletions)
      /\ Fits(Rows!InsertCompletion(id, r)) /\ Fits(Rows!SubmitIfInReview(id, r))
      /\ Fits(Rows!LinkStamp(id, stamp)) /\ Fits(Rows!InsertStamp(x))
  BY DEF Fits, Rows!DeleteCompletions, Rows!InsertCompletion, Rows!SubmitIfInReview,
         Rows!LinkStamp, Rows!InsertStamp
<1> QED
  BY <1>2, <1>3

LEMMA ScriptsShort ==
    ASSUME NEW r \in Handles, NEW t \in Transitions \cup {"post"}, NEW rows,
           NEW script \in Scripts(r, t, rows)
    PROVE  Short(script)
<1>1. CASE t = "claim"
  BY <1>1, StatementsFit DEF Scripts, Short
<1>2. CASE t = "unclaim"
  BY <1>2, StatementsFit DEF Scripts, Short
<1>3. CASE t = "done"
  <2>1. script = Rows!SubmitCompletionDML(NewId(rows), r)
    BY <1>3 DEF Scripts
  <2> QED
    BY <2>1, StatementsFit DEF Rows!SubmitCompletionDML, Short
<1>4. CASE t = "accept"
  <2>1. PICK id, x : script = Rows!AcceptCompletionDML(id, x)
    BY <1>4 DEF Scripts
  <2> QED
    BY <2>1, StatementsFit DEF Rows!AcceptCompletionDML, Short
<1>5. CASE t = "reject"
  <2>1. script = Rows!RejectCompletionDML
    BY <1>5 DEF Scripts
  <2> QED
    BY <2>1, StatementsFit DEF Rows!RejectCompletionDML, Short
<1>6. CASE t = "close"
  BY <1>6, StatementsFit DEF Scripts, Short
<1>7. CASE t = "delete"
  BY <1>7, StatementsFit DEF Scripts, Short
<1>8. CASE t = "post"
  <2>1. script = <<Rows!InsertWantedDML>>
    BY <1>8 DEF Scripts
  <2> QED
    BY <2>1, StatementsFit DEF Short
<1> QED
  BY <1>1, <1>2, <1>3, <1>4, <1>5, <1>6, <1>7, <1>8 DEF Transitions

-----------------------------------------------------------------------------
(* The board's rows stay fine. *)

BoardTypes ==
    /\ offered \subseteq Handles /\ Fine(upstreamRows)
    /\ DOMAIN forkRows = Handles /\ \A r \in Handles : Fine(forkRows[r])
    /\ DOMAIN branchRows = Handles
    /\ \A r \in Handles : branchRows[r] = Gone \/ Fine(branchRows[r])
    /\ \A p \in pendingList : p.completedBy \in Holders

LEMMA AdoptsShort ==
    ASSUME BoardTypes, NEW r, NEW rows, NEW script \in AdoptScripts(r, rows)
    PROVE  \E id, by : by \in Handles /\ script = Rows!CloseUpstreamDML(id, by) /\ Short(script)
<1>1. PICK p \in pendingList :
         script = Rows!CloseUpstreamDML(NewId(rows), p.completedBy) /\ p.completedBy # NoRig
  BY DEF AdoptScripts
<1>2. p.completedBy \in Handles
  BY <1>1 DEF BoardTypes, Holders
<1>3. Short(script)
  BY <1>1, <1>2, StatementsFit DEF Rows!CloseUpstreamDML, Short
<1> QED
  BY <1>1, <1>2, <1>3

LEMMA EmptyFine == Fine(Rows!Empty) /\ Fine(Posted)
BY DEF Rows!Empty, Posted, Fine, RowFields, Holders, Rows!Status, Rows!Present

LEMMA StartFine ==
    ASSUME BoardTypes, NEW r \in Handles
    PROVE  Fine(Start(r)) /\ (There(branchRows[r]) => Fine(branchRows[r]))
BY DEF BoardTypes, Start, There

LEMMA BoardInitially == ViewInit => BoardTypes
<1> SUFFICES ASSUME ViewInit PROVE BoardTypes
  OBVIOUS
<1>1. Fine(upstreamRows)
  <2>1. CASE upstreamRows \in {Rows!Empty, Posted}
    BY <2>1, EmptyFine
  <2>2. ASSUME NEW r \in Handles, upstreamRows = Submitted(r) PROVE Fine(upstreamRows)
    <3>1. Short(<<Rows!ClaimWantedDML(r)>>) /\ Short(Rows!SubmitCompletionDML(1, r))
      BY StatementsFit DEF Rows!SubmitCompletionDML, Short
    <3> QED
      BY <2>2, <3>1, EmptyFine, RunFine DEF Submitted
  <2> QED
    BY <2>1, <2>2 DEF ViewInit
<1> QED
  BY <1>1 DEF ViewInit, BoardTypes

LEMMA BoardStep == BoardTypes /\ [ViewNext]_viewVars => BoardTypes'
<1> SUFFICES ASSUME BoardTypes, [ViewNext]_viewVars PROVE BoardTypes'
  OBVIOUS
<1>1. ASSUME UNCHANGED boardVars PROVE BoardTypes'
  BY <1>1 DEF boardVars, BoardTypes
<1>2. ASSUME NEW r \in Handles, NEW b, b = Gone \/ Fine(b), offered' \subseteq Handles,
             branchRows' = [branchRows EXCEPT ![r] = b],
             UNCHANGED <<upstreamRows, forkRows, pendingList>>
      PROVE  BoardTypes'
  BY <1>2 DEF BoardTypes
<1>3. ASSUME NEW r \in Handles, Mutate(r) PROVE BoardTypes'
  <2>1. PICK t \in Transitions \cup {"post"} :
        \E script \in Scripts(r, t, Start(r)) \cup AdoptScripts(r, Start(r)) :
        LET new == Rows!Run(script, Start(r))
            reverted == new.status = forkRows[r].status /\ Exists(new)
        IN /\ branchRows' \in {[branchRows EXCEPT ![r] = b] :
                                  b \in IF reverted THEN {Gone, Rows!Empty} ELSE {new}}
           /\ offered' \in IF reverted THEN {offered \ {r}} ELSE {offered, offered \cup {r}}
           /\ UNCHANGED <<poster, upstreamRows, forkRows, pendingList, page, stored, badReads>>
    BY <1>3 DEF Mutate
  <2>2. PICK script \in Scripts(r, t, Start(r)) \cup AdoptScripts(r, Start(r)) :
           \E b : /\ b \in {Gone, Rows!Empty, Rows!Run(script, Start(r))}
                  /\ branchRows' = [branchRows EXCEPT ![r] = b]
                  /\ offered' \subseteq offered \cup {r}
                  /\ UNCHANGED <<upstreamRows, forkRows, pendingList>>
    BY <2>1
  <2>3. Short(script)
    BY ScriptsShort, AdoptsShort
  <2>4. Fine(Rows!Run(script, Start(r)))
    BY <2>3, StartFine, RunFine
  <2> QED
    BY <1>2, <2>2, <2>4, EmptyFine DEF BoardTypes
<1>4. ASSUME NEW r \in Handles, DiscardBranch(r) PROVE BoardTypes'
  <2>1. PICK b \in {Gone, Rows!Empty} : branchRows' = [branchRows EXCEPT ![r] = b]
    BY <1>4 DEF DiscardBranch
  <2>2. offered' \subseteq offered /\ UNCHANGED <<upstreamRows, forkRows, pendingList>>
    BY <1>4 DEF DiscardBranch
  <2> QED
    BY <1>2, <2>1, <2>2, EmptyFine DEF BoardTypes
<1>5. ASSUME NEW r \in Handles, MergePull(r) PROVE BoardTypes'
  BY <1>5, StartFine DEF MergePull, BoardTypes
<1>6. ASSUME NEW r \in Handles, SyncFork(r) PROVE BoardTypes'
  BY <1>6 DEF SyncFork, BoardTypes
<1>7. ASSUME ListPendingWantedIDs PROVE BoardTypes'
  <2>1. ASSUME NEW p \in Listing PROVE p.completedBy \in Holders
    <3>1. PICK r \in offered : p = Submission(r) /\ Differs(r)
      BY DEF Listing
    <3>2. r \in Handles /\ Fine(branchRows[r])
      BY <3>1, StartFine DEF Differs, BoardTypes
    <3>3. PICK by : by = {c.by : c \in branchRows[r].completions}
      OBVIOUS
    <3>4. by \subseteq Handles
      BY <3>2, <3>3 DEF Fine
    <3>5. p.completedBy = NoRig \/ (by # {} /\ p.completedBy = CHOOSE x \in by : TRUE)
      BY <3>1, <3>3 DEF Submission
    <3> QED
      BY <3>4, <3>5 DEF Holders
  <2> QED
    BY <1>7, <2>1 DEF ListPendingWantedIDs, BoardTypes
<1>8. ASSUME NEW v, NEW shared, BeginDetail(v, shared) PROVE UNCHANGED boardVars
  BY <1>8 DEF BeginDetail
<1>9. ASSUME ReadMain \/ ReadBranch \/ ReadPending \/ LoadPending \/ ReadPlain \/ ReadPlainPending
             \/ AnswerDetail
      PROVE  UNCHANGED boardVars
  BY <1>9 DEF ReadMain, ReadBranch, ReadPending, LoadPending, ReadPlain, ReadPlainPending,
     AnswerDetail, Reading
<1>10. CASE UNCHANGED viewVars
  BY <1>1, <1>10 DEF viewVars
<1> QED
  BY <1>1, <1>3, <1>4, <1>5, <1>6, <1>7, <1>8, <1>9, <1>10 DEF ViewNext

-----------------------------------------------------------------------------
(* What is offered works. *)

(* An UPDATE of the items with a status in `from`, whoever holds them.        *)
Takes(s, from, to) ==
    /\ s.into = "wanted" /\ s.where = from /\ s.holders = Holders
    /\ "status" \in DOMAIN s.set /\ s.set.status = to

LEMMA TakesThere ==
    ASSUME NEW t, Fine(t), NEW s, NEW from, NEW to, Takes(s, from, to), t.status \in from
    PROVE  Rows!Apply(s, t).status = to
<1>1. Rows!Apply(s, t) = Rows!Override(t, s.set)
  BY DEF Rows!Apply, Takes, Fine
<1>2. Rows!Override(t, s.set)["status"] = s.set["status"]
  BY DEF Rows!Override, Takes, Fine, RowFields
<1> QED
  BY <1>1, <1>2 DEF Takes

LEMMA UpdateTakes ==
    ASSUME NEW from, NEW to, NEW by
    PROVE  /\ Takes(Rows!Update(from, [status |-> to]), from, to)
           /\ Takes(Rows!Update(from, [status |-> to, claimedBy |-> by]), from, to)
BY DEF Takes, Holders, Rows!Update, Rows!UpdateHeld

LEMMA WhatIsTaken ==
    ASSUME NEW r
    PROVE  /\ Takes(Rows!ClaimWantedDML(r), {"open"}, "claimed")
           /\ Takes(Rows!UnclaimWantedDML, {"claimed"}, "open")
           /\ Takes(Rows!CloseWantedDML, {"in_review"}, "completed")
           /\ Takes(Rows!DeleteWantedDML, {"open"}, "withdrawn")
BY UpdateTakes
   DEF Rows!ClaimWantedDML, Rows!UnclaimWantedDML, Rows!CloseWantedDML, Rows!DeleteWantedDML

(* Each script takes an item from its rule's status to the other.            *)
LEMMA RulesMatchScripts ==
    ASSUME NEW v \in Handles, NEW e, Fine(e), NEW t \in Transitions,
           e.status = transitionRules[t].from, t = "done" => v = e.claimedBy,
           NEW script \in Scripts(v, t, e)
    PROVE  Rows!Run(script, e).status = transitionRules[t].to
<1>1. CASE t = "claim"
  <2>1. /\ script = <<Rows!ClaimWantedDML(v)>> /\ e.status \in {"open"}
        /\ transitionRules[t].to = "claimed"
    BY <1>1 DEF Scripts, transitionRules, Rule
  <2> QED
    BY <2>1, RunsOne, TakesThere, WhatIsTaken
<1>2. CASE t = "unclaim"
  <2>1. /\ script = <<Rows!UnclaimWantedDML>> /\ e.status \in {"claimed"}
        /\ transitionRules[t].to = "open"
    BY <1>2 DEF Scripts, transitionRules, Rule
  <2> QED
    BY <2>1, RunsOne, TakesThere, WhatIsTaken
<1>3. CASE t = "done"
  <2>1. /\ e.status \in {"claimed"} /\ transitionRules[t].to = "in_review"
        /\ script = Rows!SubmitCompletionDML(NewId(e), v)
    BY <1>3 DEF Scripts, transitionRules, Rule
  <2>2. PICK a, b : /\ a = Rows!UpdateHeld({"claimed"}, {v}, [status |-> "in_review"])
                    /\ b = Rows!SubmitIfInReview(NewId(e), v)
    OBVIOUS
  <2>3. script = <<a, b>> /\ Fits(a) /\ Fits(b) /\ b.into # "wanted"
    BY <2>1, <2>2, StatementsFit DEF Rows!SubmitCompletionDML, Rows!SubmitIfInReview
  <2>4. Rows!Apply(a, e).status = "in_review"
    <3>1. PICK set : set = [status |-> "in_review"]
      OBVIOUS
    <3>2. "status" \in DOMAIN set /\ set.status = "in_review"
      BY <3>1
    <3>3. a = Rows!UpdateHeld({"claimed"}, {v}, set)
      BY <2>2, <3>1
    <3> QED
      BY <1>3, <2>1, <3>2, <3>3, UpdateMeets
  <2> QED
    BY <2>1, <2>3, <2>4, RunsTwo, ApplyFine
<1>4. CASE t = "accept"
  <2>1. e.status \in {"in_review"} /\ transitionRules[t].to = "completed"
    BY <1>4 DEF transitionRules, Rule
  <2>2. PICK id, x : script = Rows!AcceptCompletionDML(id, x)
    BY <1>4 DEF Scripts
  <2>3. PICK a, b, c : /\ a = Rows!InsertStamp(x) /\ b = Rows!LinkStamp(id, x.id)
                       /\ c = Rows!Update({"in_review"}, [status |-> "completed"])
    OBVIOUS
  <2>4. /\ script = <<a, b, c>> /\ Fits(a) /\ Fits(b)
        /\ a.into # "wanted" /\ b.into # "wanted"
    BY <2>2, <2>3, StatementsFit DEF Rows!AcceptCompletionDML, Rows!InsertStamp, Rows!LinkStamp
  <2>5. PICK u : u = Rows!Apply(b, Rows!Apply(a, e))
    OBVIOUS
  <2>6. Fine(u) /\ u.status = e.status /\ u.claimedBy = e.claimedBy
    BY <2>4, <2>5, ApplyFine
  <2>7. Takes(c, {"in_review"}, "completed")
    BY <2>3, UpdateTakes
  <2>8. Rows!Apply(c, u).status = "completed"
    BY <2>1, <2>6, <2>7, TakesThere
  <2> QED
    BY <2>1, <2>4, <2>5, <2>8, RunsThree
<1>5. CASE t = "reject"
  <2>1. /\ e.status \in {"in_review"} /\ transitionRules[t].to = "claimed"
        /\ script = Rows!RejectCompletionDML
    BY <1>5 DEF Scripts, transitionRules, Rule
  <2>2. PICK a, b : /\ a = Rows!DeleteCompletions
                    /\ b = Rows!Update({"in_review"}, [status |-> "claimed"])
    OBVIOUS
  <2>3. script = <<a, b>> /\ Fits(a) /\ a.into # "wanted"
    BY <2>1, <2>2, StatementsFit DEF Rows!RejectCompletionDML, Rows!DeleteCompletions
  <2>4. PICK u : u = Rows!Apply(a, e)
    OBVIOUS
  <2>5. Fine(u) /\ u.status = e.status /\ u.claimedBy = e.claimedBy
    BY <2>3, <2>4, ApplyFine
  <2>6. Takes(b, {"in_review"}, "claimed")
    BY <2>2, UpdateTakes
  <2>7. Rows!Apply(b, u).status = "claimed"
    BY <2>1, <2>5, <2>6, TakesThere
  <2> QED
    BY <2>1, <2>3, <2>4, <2>7, RunsTwo
<1>6. CASE t = "close"
  <2>1. /\ script = <<Rows!CloseWantedDML>> /\ e.status \in {"in_review"}
        /\ transitionRules[t].to = "completed"
    BY <1>6 DEF Scripts, transitionRules, Rule
  <2> QED
    BY <2>1, RunsOne, TakesThere, WhatIsTaken
<1>7. CASE t = "delete"
  <2>1. /\ script = <<Rows!DeleteWantedDML>> /\ e.status \in {"open"}
        /\ transitionRules[t].to = "withdrawn"
    BY <1>7 DEF Scripts, transitionRules, Rule
  <2> QED
    BY <2>1, RunsOne, TakesThere, WhatIsTaken
<1> QED
  BY <1>1, <1>2, <1>3, <1>4, <1>5, <1>6, <1>7 DEF Transitions

(* An adopted submission completes any item that is there.                   *)
LEMMA AdoptionCompletes ==
    ASSUME BoardTypes, NEW r, NEW e, Fine(e), Exists(e), NEW script \in AdoptScripts(r, e)
    PROVE  Rows!Run(script, e).status = "completed"
<1>1. PICK id, by : by \in Handles /\ script = Rows!CloseUpstreamDML(id, by)
  BY AdoptsShort
<1>2. PICK a, b, c : /\ a = Rows!DeleteCompletions /\ b = Rows!InsertCompletion(id, by)
                     /\ c = Rows!Update(Rows!Present, [status |-> "completed", claimedBy |-> by])
  OBVIOUS
<1>3. /\ script = <<a, b, c>> /\ Fits(a) /\ Fits(b)
      /\ a.into # "wanted" /\ b.into # "wanted"
  BY <1>1, <1>2, StatementsFit DEF Rows!CloseUpstreamDML, Rows!DeleteCompletions, Rows!InsertCompletion
<1>4. PICK u : u = Rows!Apply(b, Rows!Apply(a, e))
  OBVIOUS
<1>5. Fine(u) /\ u.status = e.status /\ u.claimedBy = e.claimedBy
  BY <1>3, <1>4, ApplyFine
<1>6. u.status \in Rows!Present
  BY <1>5 DEF Fine, Exists, Rows!Status
<1>7. Takes(c, Rows!Present, "completed")
  BY <1>2, UpdateTakes
<1>8. Rows!Apply(c, u).status = "completed"
  BY <1>5, <1>6, <1>7, TakesThere
<1> QED
  BY <1>3, <1>4, <1>8, RunsThree

LEMMA OffersHold == BoardTypes => OfferedIsAccepted
<1> SUFFICES ASSUME BoardTypes, NEW v \in Handles, NEW e,
                    e = Effective(upstreamRows, branchRows[v]), Exists(e),
                    There(branchRows[v]) \/ forkRows[v] = upstreamRows
             PROVE  /\ \A t \in AvailableTransitions(e, v) :
                          \A script \in Scripts(v, t, Start(v)) :
                              Rows!Run(script, Start(v)).status = transitionRules[t].to
                    /\ \A t \in withUpstreamSubmissionActions(v, pendingList) \ {"reject"} :
                          \A script \in AdoptScripts(v, Start(v)) :
                              Rows!Run(script, Start(v)).status = transitionRules[t].to
  BY DEF OfferedIsAccepted
<1>1. Start(v) = e /\ Fine(e)
  BY StartFine DEF Start, Effective
<1>2. ASSUME NEW t \in AvailableTransitions(e, v), NEW script \in Scripts(v, t, e)
      PROVE  Rows!Run(script, e).status = transitionRules[t].to
  <2>1. /\ t \in Transitions /\ e.status = transitionRules[t].from
        /\ t = "done" => v = e.claimedBy
    BY DEF AvailableTransitions, ValidateTransition, CanPerformTransition
  <2> QED
    BY <1>1, <2>1, RulesMatchScripts
<1>3. ASSUME NEW t \in withUpstreamSubmissionActions(v, pendingList) \ {"reject"},
             NEW script \in AdoptScripts(v, e)
      PROVE  Rows!Run(script, e).status = transitionRules[t].to
  <2>1. t \in {"accept", "close"}
    BY DEF withUpstreamSubmissionActions
  <2>2. transitionRules[t].to = "completed"
    BY <2>1 DEF transitionRules, Rule
  <2> QED
    BY <1>1, <2>2, AdoptionCompletes
<1> QED
  BY <1>1, <1>2, <1>3

(* What a rig is offered works: for every set of rigs and administrators and  *)
(* whatever becomes of the board, the script of a transition that Detail      *)
(* offers takes the item where the rule says, when it starts from the state   *)
(* that was shown (lifecycle.go, commons.go, branchHasData).                  *)
THEOREM OffersWork == ViewSpec => []OfferedIsAccepted
BY BoardInitially, BoardStep, OffersHold, PTL DEF ViewSpec

-----------------------------------------------------------------------------
(* List, dashboard and detail. *)

Ranked(p) == p.status \in {"open", "claimed", "in_review", "completed"}

(* Some submission is the furthest of them.                                  *)
LEMMA BestIsThere ==
    ASSUME NEW pending, pending # {}, \A p \in pending : Ranked(p)
    PROVE  bestPendingState(pending) \in pending
<1> DEFINE Best(p) == \A q \in pending : stateRank[q.status] <= stateRank[p.status]
<1>1. /\ stateRank["open"] = 0 /\ stateRank["claimed"] = 1 /\ stateRank["in_review"] = 2
      /\ stateRank["completed"] = 3
  BY DEF stateRank
<1>2. CASE \E p \in pending : p.status = "completed"
  <2>1. PICK p \in pending : p.status = "completed"
    BY <1>2
  <2>2. Best(p)
    BY <1>1, <2>1 DEF Ranked
  <2> QED
    BY <2>2 DEF bestPendingState
<1>3. CASE /\ \E p \in pending : p.status = "in_review"
           /\ \A p \in pending : p.status # "completed"
  <2>1. PICK p \in pending : p.status = "in_review"
    BY <1>3
  <2>2. Best(p)
    BY <1>1, <1>3, <2>1 DEF Ranked
  <2> QED
    BY <2>2 DEF bestPendingState
<1>4. CASE /\ \E p \in pending : p.status = "claimed"
           /\ \A p \in pending : p.status \notin {"in_review", "completed"}
  <2>1. PICK p \in pending : p.status = "claimed"
    BY <1>4
  <2>2. Best(p)
    BY <1>1, <1>4, <2>1 DEF Ranked
  <2> QED
    BY <2>2 DEF bestPendingState
<1>5. CASE \A p \in pending : p.status = "open"
  <2>1. PICK p \in pending : p.status = "open"
    BY <1>5
  <2>2. Best(p)
    BY <1>1, <1>5, <2>1
  <2> QED
    BY <2>2 DEF bestPendingState
<1> QED
  BY <1>2, <1>3, <1>4, <1>5 DEF Ranked

LEMMA ListedOk ==
    ASSUME BoardTypes, NEW p \in Listing
    PROVE  Ranked(p) /\ branchRows[p.owner] # Gone /\ p.status = branchRows[p.owner].status
<1>1. PICK r \in offered : p = Submission(r) /\ Differs(r) /\ Intended(r)
  BY DEF Listing
<1>2. r \in Handles /\ branchRows[r] # Gone /\ Fine(branchRows[r]) /\ Exists(branchRows[r])
  BY <1>1, StartFine DEF Differs, There, BoardTypes
<1>3. p.owner = r /\ p.status = branchRows[r].status
  BY <1>1 DEF Submission
<1>4. branchRows[r].status \in {"open", "claimed", "in_review", "completed"}
  BY <1>1, <1>2 DEF Intended, Exists, Fine, Rows!Status, Rows!Present
<1> QED
  BY <1>2, <1>3, <1>4 DEF Ranked

LEMMA ViewsAgree == BoardTypes => ListAndDetailAgree
<1> SUFFICES ASSUME BoardTypes, pendingList = Listing, NEW v \in Handles
             PROVE  LET seen == DetailStatus(v)
                        onBoard == Exists(Effective(upstreamRows, branchRows[v]))
                    IN /\ onBoard => Dashboard(v) \subseteq {seen}
                       /\ \A view \in {"mine", "all"}, filter \in {"", "open", "claimed", "in_review",
                                                                  "completed", "withdrawn"} :
                             LET listed == Browse(v, view, filter)
                             IN /\ onBoard /\ Matches(seen, filter) => listed = {seen}
                                /\ listed \subseteq {seen} \cup {p.status : p \in pendingList}
                                /\ ~onBoard /\ view = "all" /\ allowsUpstreamPending(seen)
                                      /\ Matches(seen, filter) => listed = {seen}
  BY DEF ListAndDetailAgree
<1>s. PICK seen, b, e : /\ seen = DetailStatus(v) /\ b = branchRows[v]
                        /\ e = Effective(upstreamRows, b)
  OBVIOUS
<1>1. /\ There(b) => e = b
      /\ ~There(b) => e = upstreamRows
  BY <1>s DEF Effective
<1>2. Overridden(v) => e = b
  BY <1>s, <1>1 DEF Overridden
<1>3. ~Overridden(v) => e.status = upstreamRows.status
  BY <1>s, <1>1 DEF Overridden
<1>4. Exists(e) => seen = e.status
  BY <1>s DEF DetailStatus
<1>5. Exists(e) => Dashboard(v) \subseteq {seen}
  <2>1. Dashboard(v) \subseteq {e.status}
    BY <1>s, <1>2, <1>3 DEF Dashboard, Sections
  <2> QED
    BY <1>4, <2>1
<1>6. ASSUME NEW filter
      PROVE  BranchAware(v, filter) = {s \in {e.status} : Exists(e) /\ Matches(s, filter)}
  <2>1. CASE Overridden(v)
    <3>1. Exists(e)
      BY <1>s, <1>2, <2>1 DEF Overridden, There
    <3> QED
      BY <1>s, <1>2, <2>1, <3>1 DEF BranchAware
  <2>2. CASE ~Overridden(v)
    BY <1>3, <2>2 DEF BranchAware, BrowseWanted, Exists
  <2> QED
    BY <2>1, <2>2
<1>7. ASSUME NEW view, NEW filter
      PROVE  PendingOnly(v, view, filter) \subseteq {p.status : p \in pendingList}
  <2>1. PICK visible : visible = {p \in pendingList : view = "mine" => p.owner = v}
    OBVIOUS
  <2>2. visible # {} => bestPendingState(visible) \in visible
    BY <2>1, ListedOk, BestIsThere
  <2>3. visible # {} => bestPendingState(visible).status \in {p.status : p \in pendingList}
    BY <2>1, <2>2
  <2>4. \/ PendingOnly(v, view, filter) = {}
        \/ visible # {} /\ PendingOnly(v, view, filter) = {bestPendingState(visible).status}
    BY <2>1 DEF PendingOnly
  <2> QED
    BY <2>3, <2>4
<1>8. ASSUME NEW view, NEW filter, Exists(e), Matches(seen, filter)
      PROVE  Browse(v, view, filter) = {seen}
  <2>1. BranchAware(v, filter) = {seen}
    BY <1>4, <1>6, <1>8
  <2> QED
    BY <2>1 DEF Browse
<1>9. ASSUME NEW view, NEW filter
      PROVE  Browse(v, view, filter) \subseteq {seen} \cup {p.status : p \in pendingList}
  <2>1. BranchAware(v, filter) \subseteq {seen}
    BY <1>4, <1>6
  <2> QED
    BY <1>7, <2>1 DEF Browse
<1>10. ASSUME NEW filter, ~Exists(e), allowsUpstreamPending(seen), Matches(seen, filter)
       PROVE  Browse(v, "all", filter) = {seen}
  <2>1. ~There(b) /\ e = upstreamRows /\ ~Exists(upstreamRows)
    BY <1>1, <1>10 DEF There
  <2>2. pendingList # {}
    BY <1>s, <1>10 DEF DetailStatus, allowsUpstreamPending
  <2>3. PICK best : best = bestPendingState(pendingList)
    OBVIOUS
  <2>4. best \in pendingList
    BY <2>2, <2>3, ListedOk, BestIsThere
  <2>5. seen = best.status
    BY <1>s, <1>10, <2>2, <2>3, <2>4, ListedOk DEF DetailStatus
  <2>6. BranchAware(v, filter) = {}
    BY <1>6, <1>10
  <2>7. pendingList = {p \in pendingList : "all" = "mine" => p.owner = v}
    OBVIOUS
  <2>8. PendingOnly(v, "all", filter) = {best.status}
    BY <1>10, <2>1, <2>2, <2>3, <2>5, <2>7 DEF PendingOnly
  <2> QED
    BY <2>5, <2>6, <2>8 DEF Browse
<1> QED
  BY <1>s, <1>5, <1>8, <1>9, <1>10

(* The list under any filter, the dashboard and the detail page of an item    *)
(* show it alike when nobody is writing and the listing is current, for every *)
(* set of rigs and whatever is on their branches (queries.go, reads.go).      *)
THEOREM PagesAgree == ViewSpec => []ListAndDetailAgree
BY BoardInitially, BoardStep, ViewsAgree, PTL DEF ViewSpec

-----------------------------------------------------------------------------
(* What a pull request presents. *)

ShellFields == {"at", "head", "body", "edited", "options", "remote", "failed", "warned"}
Creating == {"objects", "ref", "find", "open", "update"}

(* A command that runs has said nothing yet.                                  *)
ReviewTypes ==
    /\ shell = NoShell \/ (/\ DOMAIN shell = ShellFields /\ shell.at # "prompt"
                           /\ shell.edited \in BOOLEAN /\ shown = NoCopy)
    /\ pull # NoCopy => DOMAIN pull = {"body", "reviews"}
    /\ shown # NoCopy => /\ DOMAIN shown = {"head", "body", "updated", "edited"}
                       /\ shown.edited \in BOOLEAN

(* What was rendered is what was pushed, unless the diff failed or the branch *)
(* was changed since, and what the marker holds.                              *)
RenderedOk ==
    /\ shell.at = "render" => shell.edited \/ (pushed = shell.head /\ work = shell.head)
    /\ shell.at \in Creating =>
          shell.edited \/ (pushed = shell.head /\ shell.body \in {shell.head, NoChanges})
    /\ shell.at = "diff" => provider = "remote"
    /\ shell.at \in {"find", "open", "update"} /\ provider = "github" => marker = shell.body

ReviewInv == ReviewTypes /\ RenderedOk /\ PresentedWhole

LEMMA ReviewsInitially == ReviewInit => ReviewInv
BY DEF ReviewInit, ReviewInv, ReviewTypes, RenderedOk, PresentedWhole, NoShell, Creating

(* Steps of a command that presents nothing, and goes on, or ends.            *)
LEMMA ShellGoesOn ==
    ASSUME ReviewInv, shell # NoShell, shown' = shown, provider' = provider,
           pull' = NoCopy \/ pull' = pull \/ DOMAIN pull' = {"body", "reviews"},
           \/ shell' = NoShell
           \/ /\ DOMAIN shell' = ShellFields /\ shell'.at # "prompt" /\ shell'.edited \in BOOLEAN
              /\ RenderedOk'
    PROVE  ReviewInv'
BY DEF ReviewInv, ReviewTypes, RenderedOk, PresentedWhole, NoShell, Creating

(* Commands other than a create's steps leave what a create needs.            *)
Aside == {"approval", "merge", "mergeRemote", "deleteRemote", "delete", "push", "pull",
          "pushAgain", "findMerged", "close", "deleteRef", "sync"}

LEMMA ShellAside ==
    ASSUME ReviewInv, shell # NoShell, shown' = shown, provider' = provider,
           pull' \in {NoCopy, pull},
           \/ shell' = NoShell
           \/ DOMAIN shell' = ShellFields /\ shell'.at \in Aside /\ shell'.edited \in BOOLEAN
    PROVE  ReviewInv'
BY ShellGoesOn DEF RenderedOk, Aside, Creating

LEMMA RunsStart ==
    ASSUME ReviewInv, NEW at \in Aside \cup {"pushForce", "diff"}, NEW options, Run(at, options),
           at = "diff" => provider = "remote"
    PROVE  ReviewInv'
<1>1. /\ DOMAIN shell' = ShellFields /\ shell'.at = at /\ shell'.edited = FALSE
      /\ shown' = NoCopy /\ provider' = provider /\ pull' = pull
  BY DEF Run, ShellFields, remotes
<1> QED
  BY <1>1 DEF ReviewInv, ReviewTypes, RenderedOk, PresentedWhole, Aside, Creating

LEMMA CreateStep ==
    ASSUME ReviewInv,
           \/ PushBranchForce \/ RemoteDiff \/ renderMarkdownDiff \/ CreateObjects \/ CreateRef
           \/ FindBeforeCreate \/ FindExisting
    PROVE  ReviewInv'
<1> USE DEF ReviewInv, ReviewTypes, ShellFields, Creating, NoShell
<1>r. RenderedOk
  OBVIOUS
<1>f. ASSUME NEW at, shell.at = at, at # "prompt"
      PROVE  shell # NoShell /\ DOMAIN shell = ShellFields /\ shell.edited \in BOOLEAN
  BY <1>f
<1>1. CASE PushBranchForce
  <2>1. /\ shell.at = "pushForce" /\ shown' = shown /\ provider' = provider /\ pull' = pull
        /\ \/ pushed' = work /\ work' = work /\ shell' = [shell EXCEPT !.at = "render", !.head = work, !.edited = FALSE]
           \/ shell' = NoShell
    BY <1>1 DEF PushBranchForce, AtStep, Exit, OrExit, remotes
  <2> QED
    BY <1>f, <2>1, ShellGoesOn DEF RenderedOk
<1>2. CASE RemoteDiff
  <2>1. /\ shell.at = "diff" /\ shown' = shown /\ provider' = provider /\ pull' = pull /\ pushed' = pushed
    BY <1>2 DEF RemoteDiff, AtStep, remotes
  <2>2. PICK body \in {pushed, NoChanges} :
           shell' = [shell EXCEPT !.at = "open", !.head = pushed, !.body = body, !.edited = FALSE]
    BY <1>2 DEF RemoteDiff
  <2>3. /\ DOMAIN shell' = ShellFields /\ shell'.at = "open" /\ shell'.body = body
        /\ shell'.head = pushed /\ shell'.edited = FALSE
    BY <1>f, <2>1, <2>2
  <2>4. provider = "remote"
    BY <1>r, <2>1 DEF RenderedOk
  <2>5. RenderedOk'
    BY <2>1, <2>3, <2>4 DEF RenderedOk
  <2> QED
    BY <1>f, <2>1, <2>3, <2>5, ShellGoesOn
<1>3. CASE renderMarkdownDiff
  <2>1. /\ shell.at = "render" /\ shown' = shown /\ provider' = provider /\ pull' = pull
        /\ pushed' = pushed
    BY <1>3 DEF renderMarkdownDiff, AtStep, remotes
  <2>2. PICK body \in {work, NoChanges} :
           shell' = [shell EXCEPT !.body = body, !.at = IF provider = "github" THEN "objects" ELSE "open"]
    BY <1>3 DEF renderMarkdownDiff
  <2>3. /\ DOMAIN shell' = ShellFields /\ shell'.body = body /\ shell'.edited = shell.edited
        /\ shell'.head = shell.head
        /\ shell'.at = IF provider = "github" THEN "objects" ELSE "open"
    BY <1>f, <2>1, <2>2
  <2>4. RenderedOk'
    BY <1>r, <2>1, <2>2, <2>3 DEF RenderedOk
  <2> QED
    BY <1>f, <2>1, <2>3, <2>4, ShellGoesOn
<1>4. ASSUME NEW at \in {"objects", "ref", "find"}, NEW next \in Creating, shell.at = at,
             shown' = shown, provider' = provider, pull' = pull, pushed' = pushed,
             \/ shell' = [shell EXCEPT !.at = next] /\ (at = "find" => marker' = marker)
                /\ (next \in {"find", "open", "update"} /\ at # "find" => marker' = shell.body)
             \/ shell' = NoShell
      PROVE  ReviewInv'
  <2>1. CASE shell' = NoShell
    BY <1>f, <1>4, <2>1, ShellGoesOn
  <2>2. CASE shell' = [shell EXCEPT !.at = next] /\ shell' # NoShell
    <3>1. /\ DOMAIN shell' = ShellFields /\ shell'.body = shell.body /\ shell'.edited = shell.edited
          /\ shell'.head = shell.head /\ shell'.at = next
      BY <1>f, <1>4, <2>2
    <3>2. RenderedOk'
      BY <1>r, <1>4, <2>2, <3>1 DEF RenderedOk
    <3> QED
      BY <1>f, <1>4, <3>1, <3>2, ShellGoesOn
  <2> QED
    BY <1>4, <2>1, <2>2
<1>5. CASE CreateObjects
  <2>1. /\ shell.at = "objects" /\ shown' = shown /\ provider' = provider /\ pull' = pull /\ pushed' = pushed
        /\ shell' = [shell EXCEPT !.at = "ref"] \/ shell' = NoShell
    BY <1>5 DEF CreateObjects, AtStep, Turn, Exit, OrExit, remotes
  <2> QED
    BY <1>4, <2>1
<1>6. CASE CreateRef
  <2>1. /\ shell.at = "ref" /\ shown' = shown /\ provider' = provider /\ pull' = pull /\ pushed' = pushed
        /\ \/ shell' = [shell EXCEPT !.at = "find"] /\ marker' = shell.body
           \/ shell' = NoShell
    BY <1>6 DEF CreateRef, PointRef, AtStep, Turn, Exit, OrExit, remotes
  <2> QED
    BY <1>4, <2>1
<1>7. CASE FindBeforeCreate \/ FindExisting
  <2>1. /\ shell.at = "find" /\ shown' = shown /\ provider' = provider /\ pull' = pull /\ pushed' = pushed
        /\ marker' = marker
        /\ \/ shell' = [shell EXCEPT !.at = "update"] \/ shell' = [shell EXCEPT !.at = "open"]
           \/ shell' = NoShell
    BY <1>7 DEF FindBeforeCreate, FindExisting, AtStep, Turn, Exit, remotes
  <2> QED
    BY <1>4, <2>1
<1> QED
  BY <1>1, <1>2, <1>3, <1>5, <1>6, <1>7

(* The steps at which a create says what it presents.                         *)
LEMMA PresentStep ==
    ASSUME ReviewInv, CreateGitHubPR \/ CreateDoltHubPR \/ UpdatePR
    PROVE  ReviewInv'
<1> USE DEF ReviewInv, ReviewTypes, ShellFields, Creating, NoShell
<1>r. RenderedOk
  OBVIOUS
<1>1. /\ shell.at \in {"open", "update"} /\ provider' = provider /\ pushed' = pushed /\ marker' = marker
      /\ shell # NoShell /\ DOMAIN shell = ShellFields /\ shell.edited \in BOOLEAN /\ shown = NoCopy
  <2>1. /\ shell.at \in {"open", "update"} /\ provider' = provider /\ pushed' = pushed
        /\ marker' = marker
    BY DEF CreateGitHubPR, CreateDoltHubPR, UpdatePR, AtStep
  <2>2. shell # NoShell
    BY <2>1
  <2> QED
    BY <2>1, <2>2
<1>2. ASSUME NEW updated, shell' = NoShell, Announced(updated),
             \/ pull' = NoCopy
             \/ DOMAIN pull' = {"body", "reviews"} /\ (updated => pull'.body = shell.body)
      PROVE  ReviewInv'
  <2>1. shown' = [head |-> shell.head, body |-> shell.body, updated |-> updated, edited |-> shell.edited]
    BY <1>2 DEF Announced
  <2>2. PresentedWhole'
    BY <1>1, <1>2, <1>r, <2>1 DEF PresentedWhole, RenderedOk
  <2> QED
    BY <1>1, <1>2, <2>1, <2>2 DEF RenderedOk
<1>3. CASE /\ shown' = shown /\ pull' = pull
           /\ shell' = NoShell \/ (provider # "github" /\ shell' = [shell EXCEPT !.at = "find"])
  <2>1. CASE shell' = NoShell
    BY <1>1, <1>3, <2>1, ShellGoesOn
  <2>2. CASE provider # "github" /\ shell' = [shell EXCEPT !.at = "find"]
    <3>1. /\ DOMAIN shell' = ShellFields /\ shell'.at = "find" /\ shell'.body = shell.body
          /\ shell'.edited = shell.edited /\ shell'.head = shell.head
      BY <1>1, <2>2
    <3>2. RenderedOk'
      BY <1>1, <1>r, <2>2, <3>1 DEF RenderedOk
    <3> QED
      BY <1>1, <1>3, <3>1, <3>2, ShellGoesOn
  <2> QED
    BY <1>3, <2>1, <2>2
<1>o. ASSUME NEW branch, OpenSucceeds(branch) PROVE ReviewInv'
  BY <1>2, <1>o DEF OpenSucceeds, Exit
<1>4. CASE CreateGitHubPR
  BY <1>o, <1>3, <1>4 DEF CreateGitHubPR, OpenFails, Exit
<1>5. CASE CreateDoltHubPR
  BY <1>o, <1>3, <1>5 DEF CreateDoltHubPR, OpenFails, Exit, Turn
<1>6. CASE UpdatePR
  <2>1. CASE Announced(FALSE) /\ pull' = pull
    BY <1>1, <1>2, <1>6, <2>1 DEF UpdatePR, Exit
  <2>2. CASE /\ pull' = IF pull = NoCopy THEN NoCopy ELSE [pull EXCEPT !.body = shell.body]
             /\ Announced(TRUE)
    BY <1>2, <1>6, <2>2 DEF UpdatePR, Exit
  <2> QED
    BY <1>6, <2>1, <2>2 DEF UpdatePR
<1> QED
  BY <1>4, <1>5, <1>6

LEMMA MergeStep ==
    ASSUME ReviewInv,
           \/ MergeRemote \/ DeleteMergedRemote \/ CheckApproval \/ Merge \/ DeleteBranch
           \/ AfterMerge \/ PushMain \/ PullMain \/ FindMerged \/ ClosePR \/ DeleteRef
           \/ PullUpstream \/ Killed
    PROVE  ReviewInv'
<1>s. shell = NoShell \/ (DOMAIN shell = ShellFields /\ shell.edited \in BOOLEAN)
  BY DEF ReviewInv, ReviewTypes
<1>f. ASSUME NEW at, shell.at = at, at # "prompt"
      PROVE  shell # NoShell /\ DOMAIN shell = ShellFields /\ shell.edited \in BOOLEAN
  BY <1>f, <1>s DEF NoShell
<1>a. ASSUME NEW at \in Aside, shell # NoShell,
             \/ shell' = [shell EXCEPT !.at = at]
             \/ \E b : shell' = [shell EXCEPT !.body = b, !.at = at]
             \/ \E w : shell' = [shell EXCEPT !.at = at, !.warned = w]
             \/ \E s, f : shell' = [shell EXCEPT !.at = at, !.remote = s, !.failed = f]
      PROVE  DOMAIN shell' = ShellFields /\ shell'.at \in Aside /\ shell'.edited \in BOOLEAN
  BY <1>a, <1>s DEF ShellFields
<1>e. ASSUME NEW failed, NEW at, shell.at = at, at # "prompt", EndPush(failed)
      PROVE  \/ shell' = NoShell
             \/ DOMAIN shell' = ShellFields /\ shell'.at \in Aside /\ shell'.edited \in BOOLEAN
  <2>1. shell' = NoShell \/ shell' = [shell EXCEPT !.at = "findMerged"]
    BY <1>e DEF EndPush, Turn, Exit
  <2>2. shell # NoShell
    BY <1>e DEF NoShell
  <2> QED
    BY <1>s, <2>1, <2>2 DEF Aside, ShellFields
<1>n. ASSUME NEW failed, NEW at, shell.at = at, at # "prompt", NextRemote(failed)
      PROVE  \/ shell' = NoShell
             \/ DOMAIN shell' = ShellFields /\ shell'.at \in Aside /\ shell'.edited \in BOOLEAN
  <2>1. CASE shell.remote = "upstream"
    <3>1. shell' = [shell EXCEPT !.at = "push", !.remote = "origin", !.failed = failed]
      BY <1>n, <2>1 DEF NextRemote
    <3>2. shell # NoShell
      BY <1>n DEF NoShell
    <3> QED
      BY <1>s, <3>1, <3>2 DEF Aside, ShellFields
  <2>2. CASE shell.remote # "upstream"
    BY <1>e, <1>n, <2>2 DEF NextRemote
  <2> QED
    BY <2>1, <2>2
<1>t. ASSUME NEW next \in Aside, NEW at, shell.at = at, at # "prompt", Turn(next) \/ Exit
      PROVE  \/ shell' = NoShell
             \/ DOMAIN shell' = ShellFields /\ shell'.at \in Aside /\ shell'.edited \in BOOLEAN
  <2>1. shell # NoShell
    BY <1>t DEF NoShell
  <2>2. shell' = NoShell \/ shell' = [shell EXCEPT !.at = next]
    BY <1>t DEF Turn, Exit
  <2> QED
    BY <1>s, <2>1, <2>2 DEF ShellFields
<1>q. ASSUME NEW at, shell.at = at, at # "prompt", shown' = shown, provider' = provider,
             pull' \in {NoCopy, pull},
             \/ shell' = NoShell
             \/ DOMAIN shell' = ShellFields /\ shell'.at \in Aside /\ shell'.edited \in BOOLEAN
      PROVE  ReviewInv'
  BY <1>f, <1>q, ShellAside
<1>in. /\ "deleteRemote" \in Aside /\ "merge" \in Aside /\ "push" \in Aside /\ "delete" \in Aside
       /\ "pull" \in Aside /\ "pushAgain" \in Aside /\ "close" \in Aside /\ "deleteRef" \in Aside
  BY DEF Aside
<1>1. CASE MergeRemote
  <2>1. /\ shell.at = "mergeRemote" /\ shown' = shown /\ provider' = provider /\ pull' = pull
        /\ Turn("deleteRemote") \/ Exit
    BY <1>1 DEF MergeRemote, AtStep, OrExit, remotes
  <2> QED
    BY <1>q, <1>t, <1>in, <2>1
<1>2. CASE DeleteMergedRemote \/ DeleteRef \/ PullUpstream
  <2>1. /\ shell.at \in {"deleteRemote", "deleteRef", "sync"} /\ shown' = shown
        /\ provider' = provider /\ pull' = pull /\ shell' = NoShell
    BY <1>2 DEF DeleteMergedRemote, DeleteRef, PullUpstream, AtStep, Exit, remotes
  <2> QED
    BY <1>q, <2>1
<1>3. CASE CheckApproval
  <2>1. /\ shell.at = "approval" /\ shown' = shown /\ provider' = provider /\ pull' = pull
    BY <1>3 DEF CheckApproval, AtStep, remotes
  <2>2. \E w : shell' = [shell EXCEPT !.at = "merge", !.warned = w]
    BY <1>3 DEF CheckApproval
  <2> QED
    BY <1>a, <1>f, <1>q, <1>in, <2>1, <2>2
<1>4. CASE Merge
  <2>1. /\ shell.at = "merge" /\ shown' = shown /\ provider' = provider /\ pull' = pull
    BY <1>4 DEF Merge, AtStep, OrExit, remotes
  <2>2. \/ \E b : \E at \in {"push", "delete"} : shell' = [shell EXCEPT !.body = b, !.at = at]
        \/ shell' = NoShell
    BY <1>4 DEF Merge, OrExit, Exit
  <2> QED
    BY <1>a, <1>f, <1>q, <1>in, <2>1, <2>2
<1>5. CASE DeleteBranch
  <2>1. /\ shell.at = "delete" /\ shown' = shown /\ provider' = provider /\ pull' = pull /\ Turn("push")
    BY <1>5 DEF DeleteBranch, AtStep, remotes
  <2> QED
    BY <1>q, <1>t, <1>in, <2>1
<1>6. CASE AfterMerge
  <2>1. /\ shell.at = "push" /\ shown' = shown /\ provider' = provider /\ pull' = pull /\ EndPush(FALSE)
    BY <1>6 DEF AfterMerge, AtStep, remotes
  <2> QED
    BY <1>e, <1>q, <2>1
<1>7. CASE PushMain
  <2>1. /\ shell.at \in {"push", "pushAgain"} /\ shown' = shown /\ provider' = provider /\ pull' = pull
        /\ NextRemote(shell.failed) \/ Turn("pull") \/ NextRemote(TRUE)
    BY <1>7 DEF PushMain, AtStep
  <2> QED
    BY <1>n, <1>q, <1>t, <1>in, <2>1
<1>8. CASE PullMain
  <2>1. /\ shell.at = "pull" /\ shown' = shown /\ provider' = provider /\ pull' = pull
        /\ Turn("pushAgain") \/ NextRemote(TRUE)
    BY <1>8 DEF PullMain, AtStep, remotes
  <2> QED
    BY <1>n, <1>q, <1>t, <1>in, <2>1
<1>9. CASE FindMerged
  <2>1. /\ shell.at = "findMerged" /\ shown' = shown /\ provider' = provider /\ pull' = pull
        /\ Turn("close") \/ Exit
    BY <1>9 DEF FindMerged, AtStep, remotes
  <2> QED
    BY <1>q, <1>t, <1>in, <2>1
<1>10. CASE ClosePR
  <2>1. /\ shell.at = "close" /\ shown' = shown /\ provider' = provider /\ pull' \in {NoCopy, pull}
        /\ Turn("deleteRef") \/ Exit
    BY <1>10 DEF ClosePR, AtStep
  <2> QED
    BY <1>q, <1>t, <1>in, <2>1
<1>11. CASE Killed
  <2>1. shell # NoShell /\ shown' = shown /\ provider' = provider /\ pull' = pull /\ shell' = NoShell
    BY <1>11 DEF Killed, Exit, remotes
  <2> QED
    BY <2>1, ShellAside
<1> QED
  BY <1>1, <1>2, <1>3, <1>4, <1>5, <1>6, <1>7, <1>8, <1>9, <1>10, <1>11

(* What other people and programs do: a change of the branch is recorded.     *)
LEMMA OthersStep ==
    ASSUME ReviewInv,
           \/ \E r \in Reviewers, event \in {"APPROVED", "CHANGES_REQUESTED"} : submitPRReview(r, event)
           \/ ChangeBranch \/ BranchDiscarded \/ PullEnds \/ OthersPush
    PROVE  ReviewInv'
<1>1. CASE \E r \in Reviewers, event \in {"APPROVED", "CHANGES_REQUESTED"} : submitPRReview(r, event)
  <2>1. /\ UNCHANGED <<provider, work, pushed, marker, shell, shown>> /\ pull # NoCopy
        /\ \E v : pull' = [pull EXCEPT !.reviews = v]
    BY <1>1 DEF submitPRReview
  <2>2. DOMAIN pull' = {"body", "reviews"} /\ pull'.body = pull.body
    BY <2>1 DEF ReviewInv, ReviewTypes
  <2> QED
    BY <2>1, <2>2 DEF ReviewInv, ReviewTypes, RenderedOk, PresentedWhole, NoShell
<1>2. CASE PullEnds \/ OthersPush
  <2>1. /\ UNCHANGED <<provider, work, pushed, marker, shell, shown>> /\ pull' \in {NoCopy, pull}
    BY <1>2 DEF PullEnds, OthersPush, Elsewise
  <2> QED
    BY <2>1 DEF ReviewInv, ReviewTypes, RenderedOk, PresentedWhole, NoShell
<1>3. CASE ChangeBranch \/ BranchDiscarded
  <2>1. UNCHANGED <<provider, marker>> /\ pull' \in {NoCopy, pull} /\ Overtaken
    BY <1>3 DEF ChangeBranch, BranchDiscarded, Elsewise
  <2>2. \/ shell' = NoShell /\ shell = NoShell
        \/ /\ shell # NoShell /\ DOMAIN shell' = ShellFields /\ shell'.edited = TRUE
           /\ shell'.at = shell.at /\ shell'.body = shell.body
    BY <2>1 DEF Overtaken, ReviewInv, ReviewTypes, ShellFields
  <2>3. \/ shown' = NoCopy
        \/ /\ shown # NoCopy /\ DOMAIN shown' = {"head", "body", "updated", "edited"}
           /\ shown'.edited = TRUE /\ shown'.body = shown.body /\ shown'.updated = shown.updated
    BY <2>1 DEF Overtaken, ReviewInv, ReviewTypes
  <2>4. ReviewTypes'
    BY <2>1, <2>2, <2>3 DEF ReviewInv, ReviewTypes, NoShell
  <2>5. RenderedOk'
    BY <2>1, <2>2 DEF ReviewInv, RenderedOk, NoShell, Creating
  <2>6. PresentedWhole'
    BY <2>1, <2>3 DEF ReviewInv, PresentedWhole
  <2> QED
    BY <2>4, <2>5, <2>6 DEF ReviewInv
<1> QED
  BY <1>1, <1>2, <1>3

LEMMA ReviewStep == ReviewInv /\ [ReviewNext]_reviewVars => ReviewInv'
<1> SUFFICES ASSUME ReviewInv, [ReviewNext]_reviewVars PROVE ReviewInv'
  OBVIOUS
<1>1. CASE UNCHANGED reviewVars
  BY <1>1 DEF reviewVars, remotes, ReviewInv, ReviewTypes, RenderedOk, PresentedWhole, NoShell
<1>2. CASE CreateCommand \/ RemoteCreateCommand \/ SyncCommand
  BY <1>2, RunsStart DEF CreateCommand, RemoteCreateCommand, SyncCommand, Aside
<1>3. CASE MergeCommand
  <2>1. PICK options \in SUBSET {"--keep-branch", "--no-push"} :
           Run(CASE provider = "github" -> "approval" [] provider = "dolthub" -> "merge"
                 [] OTHER -> "mergeRemote", options)
    BY <1>3 DEF MergeCommand
  <2>2. \E at \in {"approval", "merge", "mergeRemote"} : Run(at, options)
    BY <2>1
  <2> QED
    BY <2>2, RunsStart DEF Aside
<1> QED
  BY <1>1, <1>2, <1>3, CreateStep, PresentStep, MergeStep, OthersStep DEF ReviewNext

(* The pull request that a create announced shows what was rendered as long   *)
(* as it is open and no other command is run: the marker is the diff, and so  *)
(* is the body unless its update failed; the diff is that of the branch on    *)
(* the fork unless it failed or somebody has changed the branch               *)
(* (createGitHubPR, runDoltHubPR, createPRForBranchRemote).                   *)
THEOREM PresentedAsRendered == ReviewSpec => []PresentedWhole
<1>1. ReviewInv => PresentedWhole
  BY DEF ReviewInv
<1> QED
  BY <1>1, ReviewsInitially, ReviewStep, PTL DEF ReviewSpec
=============================================================================
