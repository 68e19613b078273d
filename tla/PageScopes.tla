----------------------------- MODULE PageScopes -----------------------------
(* Which cached pages a mutation makes away with: the cache keys of           *)
(* internal/api/cache_scope.go and the handlers of internal/api/handlers.go   *)
(* that read and invalidate.  The two page caches together are one            *)
(* ReadThrough, what ReadCache is shown to implement: a handler publishes a   *)
(* mutation to the keys that it invalidates.                                  *)
(*                                                                            *)
(* What a page shows is the number of commits to it.  The pending listing     *)
(* under a page has a cache of its own (HostedWorkspace).                     *)
EXTENDS Integers, FiniteSets

CONSTANTS
    UpstreamNames,      \* names of upstreams, org/db
    Alias, Proper,  \* two names of one database, hop/wl-commons and wasteland/wl-commons
    Viewers,        \* rig handles
    Anon,           \* the viewer of public pages, and no impersonation
    WantedIDs, Filters,
    Gets,           \* GET requests
    Edits,          \* mutating requests
    NoPage,
    MaxCommits      \* bound: commits to one page

ASSUME ScopeAssumption == /\ {Alias, Proper} \subseteq UpstreamNames
                          /\ Anon \notin Viewers /\ WantedIDs \cap Filters = {}
                          /\ MaxCommits \in Nat

canonicalHostedCacheUpstream(u) == IF u = Alias THEN Proper ELSE u

(* A key: its two kinds have caches of their own.  The client's mode, which   *)
(* is a part of both, is left out: it tells pages apart that no mutation      *)
(* tells apart.                                                               *)
PageKeys == [kind : {"browse"}, upstream : UpstreamNames, viewer : Viewers \cup {Anon},
             impersonate : Viewers \cup {Anon}, what : Filters]
       \cup [kind : {"detail"}, upstream : UpstreamNames, viewer : Viewers \cup {Anon},
             impersonate : Viewers \cup {Anon}, what : WantedIDs]

VARIABLES
    hosted,         \* Server.hosted
    content,        \* commits to what each page shows
    oldest,         \* the oldest content a new request may get
    serving,        \* GET requests
    editing,        \* mutating requests
    due,            \* what each page showed after the last mutation acknowledged
    owed            \* due of the page that a GET asks for, when it began; each begins once

cacheVars == <<content, oldest, serving>>
scopeVars == <<hosted, cacheVars, editing, due, owed>>

Cache == INSTANCE ReadThrough WITH Keys <- PageKeys, Readers <- Gets, None <- NoPage,
                                   db <- content, floor <- oldest, request <- serving

Quiet == [at |-> "quiet"]

ScopeInit ==
    /\ hosted \in BOOLEAN
    /\ Cache!Init
    /\ editing = [m \in Edits |-> Quiet]
    /\ due = [k \in PageKeys |-> 0]
    /\ owed = [r \in Gets |-> NoPage]

(* Who asks: of what upstream, as whom, impersonating whom; identified is     *)
(* whether the request carries a read identity (WithResolvedReadIdentity).    *)
Callers ==
    IF hosted THEN [upstream : UpstreamNames, viewer : Viewers \cup {Anon},
                    impersonate : Viewers \cup {Anon}, identified : BOOLEAN]
    ELSE {[upstream |-> u, viewer |-> v, impersonate |-> Anon, identified |-> FALSE] :
            u \in {Proper}, v \in {CHOOSE x \in Viewers : TRUE}}

-----------------------------------------------------------------------------
(* Keys. *)

(* The key that a caller's page has; in hosted mode without identity a page   *)
(* is not cached.                                                             *)
readCacheScope(c) ==
    [upstream |-> IF hosted THEN canonicalHostedCacheUpstream(c.upstream) ELSE c.upstream,
     viewer |-> c.viewer, impersonate |-> c.impersonate,
     cacheable |-> hosted => c.identified]

InScope(k, scope) == k.upstream = scope.upstream

KeyOf(scope, kind, what) ==
    [kind |-> kind, upstream |-> scope.upstream, viewer |-> scope.viewer,
     impersonate |-> scope.impersonate, what |-> what]

(* browseCachePrefix, detailCachePrefix: the pages of all viewers. *)
browsePages(scope) == {k \in PageKeys : k.kind = "browse" /\ InScope(k, scope)}
detailPages(scope, ids) == {k \in PageKeys : k.kind = "detail" /\ InScope(k, scope) /\ k.what \in ids}

\* Faulty: only the pages that the caller may be served.
OwnBrowsePages(scope) == {k \in browsePages(scope) : k.viewer = scope.viewer}

invalidateBrowseCaches(scope) == browsePages(scope)

hasCanonicalHostedReadIdentity(c) == c.identified /\ c.viewer # Anon

-----------------------------------------------------------------------------
(* Reads: handleBrowse and handleDetail. *)

Get(r) ==
    \E c \in Callers, k \in PageKeys :
        LET scope == readCacheScope(c)
        IN /\ owed[r] = NoPage /\ scope.cacheable /\ k = KeyOf(scope, k.kind, k.what)
           /\ Cache!Ask(r, k)
           /\ owed' = [owed EXCEPT ![r] = due[k]]
           /\ UNCHANGED <<hosted, editing, due>>

Served(r) == (Cache!Answer(r) \/ Cache!AnswerError(r)) /\ UNCHANGED <<hosted, editing, due, owed>>

-----------------------------------------------------------------------------
(* Mutations. *)

(* The pages that really show what an operation on these items of the         *)
(* caller's upstream writes, whatever name the caller has for it.             *)
Affected(c, ids) ==
    {k \in PageKeys : /\ canonicalHostedCacheUpstream(k.upstream) = canonicalHostedCacheUpstream(c.upstream)
                      /\ k.kind = "browse" \/ k.what \in ids}

(* Post writes an item that no page shows yet; an edit or a verdict is of one *)
(* item; Apply, Discard and Sync may be of any.  SubmitPR and SaveSettings,   *)
(* which write no rows and invalidate nothing, are left out.                  *)
Posts == [op : {"post"}, ids : {{}}]
ItemEdits == [op : {"update", "delete", "claim", "unclaim", "done"}, ids : {{i} : i \in WantedIDs}]
Verdicts == [op : {"accept", "acceptUpstream", "rejectUpstream", "closeUpstream"},
             ids : {{i} : i \in WantedIDs}]
Dismissals == [op : {"reject", "close"}, ids : {{i} : i \in WantedIDs}]
BranchEdits == [op : {"apply", "discard", "sync"}, ids : {WantedIDs}]

MutationsServed == Posts \cup ItemEdits \cup Verdicts \cup Dismissals \cup BranchEdits

Fewer == \A k \in PageKeys : content[k] < MaxCommits

(* Without a session nobody gets here (resolveClient); whom the caller        *)
(* impersonates makes no difference to what is invalidated.                   *)
Editors == {c \in Callers : c.viewer # Anon /\ c.impersonate = Anon}

(* The SDK has done it. *)
Mutated(m) ==
    /\ editing[m] = Quiet /\ Fewer
    /\ \E c \in Editors, e \in MutationsServed :
          /\ Cache!Commit(Affected(c, e.ids))
          /\ editing' = [editing EXCEPT ![m] =
                [at |-> "invalidateBrowse", caller |-> c, ids |-> e.ids,
                 wrote |-> [k \in Affected(c, e.ids) |-> content'[k]]]]
    /\ UNCHANGED <<hosted, due, owed>>

(* Or has not: rows may be written all the same, and nothing is invalidated.  *)
MutationFailed ==
    /\ Fewer
    /\ \E c \in Editors, i \in WantedIDs : Cache!Commit(Affected(c, {i}))
    /\ UNCHANGED <<hosted, editing, due, owed>>

(* invalidateReadCaches, invalidateBrowseReadCaches, invalidateUpstreamReadCaches, *)
(* and invalidateAllCaches for a request without identity: first one cache.   *)
InvalidateBrowse(m) ==
    /\ editing[m].at = "invalidateBrowse"
    /\ LET c == editing[m].caller
           all == {k \in PageKeys : k.kind = "browse"}
       IN Cache!Publish(IF hosted /\ ~hasCanonicalHostedReadIdentity(c) THEN all
                        ELSE invalidateBrowseCaches(readCacheScope(c)))
    /\ editing' = [editing EXCEPT ![m].at = "invalidateDetail"]
    /\ UNCHANGED <<hosted, due, owed>>

(* Then the other, and the response. *)
InvalidateDetail(m) ==
    /\ editing[m].at = "invalidateDetail"
    /\ LET c == editing[m].caller
           all == {k \in PageKeys : k.kind = "detail"}
       IN Cache!Publish(IF hosted /\ ~hasCanonicalHostedReadIdentity(c) THEN all
                        ELSE detailPages(readCacheScope(c), editing[m].ids))
    /\ due' = [k \in PageKeys |->
                  LET wrote == editing[m].wrote
                  IN IF k \in DOMAIN wrote /\ wrote[k] > due[k] THEN wrote[k] ELSE due[k]]
    /\ editing' = [editing EXCEPT ![m] = [at |-> "done"]]
    /\ UNCHANGED <<hosted, owed>>

ScopeNext ==
    \/ \E r \in Gets : Get(r) \/ Served(r)
    \/ \E m \in Edits : Mutated(m) \/ InvalidateBrowse(m) \/ InvalidateDetail(m)
    \/ MutationFailed

ScopeSpec == ScopeInit /\ [][ScopeNext]_scopeVars

-----------------------------------------------------------------------------
(* A mutation that was acknowledged is on every page that is asked for        *)
(* afterwards, by whomever, under whichever of its names the upstream is      *)
(* known to them: the prefix and suffix of keys by which a handler            *)
(* invalidates (handlers.go:344-404) take in every key of every other         *)
(* viewer's page that shows what was written.  A mutation that failed half-way*)
(* is not acknowledged.                                                       *)
AcknowledgedIsShown ==
    \A r \in Gets : serving[r].open => serving[r].floor >= owed[r]
=============================================================================
