----------------------------- MODULE BoardViews -----------------------------
(* What a rig is shown of one wanted item in pull-request mode, and what it   *)
(* is offered to do with it: the rules of internal/commons/lifecycle.go, the  *)
(* queries that lay the rig's branch over main (queries.go), the listing of   *)
(* pending submissions (internal/remote/dolthub.go), the SDK's Browse, Detail *)
(* and Dashboard (internal/sdk/reads.go), and the detail handler's page cache.*)
(*                                                                            *)
(* Main is read from the upstream, branches from the rig's fork, whose own    *)
(* main may be behind.  The board is written one script at a time, each       *)
(* applied whole: HostedClient has the scripts that stop half-way.            *)
EXTENDS Integers, FiniteSets, Sequences

CONSTANTS
    Handles, Admins,
    NoRig,         \* SQL NULL, or ""
    Gone,          \* a branch that does not exist
    MaxWrites,     \* bound: scripts, syncs and discards
    MaxBadReads    \* bound: reads that fail

ASSUME ViewAssumption == Admins \subseteq Handles /\ MaxWrites \in Nat /\ MaxBadReads \in Nat

Rows == INSTANCE WantedTables WITH Rigs <- Handles, None <- NoRig

VARIABLES
    poster,        \* wanted.posted_by
    upstreamRows,  \* the rows on the upstream's main
    forkRows,      \* the rows on the main of each rig's fork
    branchRows,    \* the rows on branch wl/<rig>/<item> of the rig's fork, or Gone
    offered,       \* the rigs with an open pull request from that branch
    pendingList,   \* the listing of pending submissions
    page,          \* a detail request under way
    stored,        \* the detail page that the shared cache got last, or Gone
    writes, badReads

boardVars == <<poster, upstreamRows, forkRows, branchRows, offered, pendingList>>
viewVars == <<boardVars, page, stored, writes, badReads>>

Idle == [at |-> "idle"]

-----------------------------------------------------------------------------
(* internal/commons/lifecycle.go *)

Transitions == {"claim", "unclaim", "done", "accept", "reject", "close", "delete"}

Rule(from, to) == [from |-> from, to |-> to]

transitionRules ==
    [claim |-> Rule("open", "claimed"), unclaim |-> Rule("claimed", "open"),
     done |-> Rule("claimed", "in_review"), accept |-> Rule("in_review", "completed"),
     reject |-> Rule("in_review", "claimed"), close |-> Rule("in_review", "completed"),
     delete |-> Rule("open", "withdrawn")]

\* Faulty: the rule looks only at where the item is not yet.
ValidUnlessThere(status, t) == status # transitionRules[t].to

ValidateTransition(status, t) == status = transitionRules[t].from

CanPerformTransition(item, t, actor) ==
    LET judges == {poster} \cup Admins
    IN CASE t = "claim" -> TRUE
         [] t = "unclaim" -> actor \in {item.claimedBy, poster}
         [] t = "done" -> actor = item.claimedBy
         [] t = "accept" -> actor \in judges /\ actor # item.claimedBy
         [] t \in {"reject", "close"} -> actor \in judges
         [] t = "delete" -> actor = poster

AvailableTransitions(item, actor) ==
    {t \in Transitions : ValidateTransition(item.status, t)
                         /\ CanPerformTransition(item, t, actor)}

-----------------------------------------------------------------------------
(* The board changes. *)

\* The item is among the rows; it is on the branch.
Exists(rows) == rows.status # "none"
There(branch) == branch # Gone /\ Exists(branch)

\* Where a rig's script starts: its branch if that has the item (branchHasData).
Start(r) == IF There(branchRows[r]) THEN branchRows[r] ELSE forkRows[r]

NewId(rows) == Rows!Unused(Rows!IdsIn(rows))
StampBy(r, rows, c) == [id |-> NewId(rows), author |-> r, subject |-> c.by, context |-> c.id]

(* The scripts that rig r may send for transition t from rows; Accept looks   *)
(* the completion up on the upstream's main.                                  *)
Scripts(r, t, rows) ==
    CASE t = "claim" -> {<<Rows!ClaimWantedDML(r)>>}
      [] t = "unclaim" -> {<<Rows!UnclaimWantedDML>>}
      [] t = "done" -> {Rows!SubmitCompletionDML(NewId(rows), r)}
      [] t = "accept" -> {Rows!AcceptCompletionDML(c.id, StampBy(r, rows, c)) :
                             c \in {x \in upstreamRows.completions : x.by # r}}
      [] t = "reject" -> {Rows!RejectCompletionDML}
      [] t = "close" -> {<<Rows!CloseWantedDML>>}
      [] t = "delete" -> {<<Rows!DeleteWantedDML>>}
      [] t = "post" -> IF r = poster /\ rows = Rows!Empty THEN {<<Rows!InsertWantedDML>>} ELSE {}

(* AcceptUpstream and CloseUpstream adopt a listed submission. *)
AdoptScripts(r, rows) ==
    {Rows!CloseUpstreamDML(NewId(rows), p.completedBy) :
        p \in {q \in pendingList : q.status = "in_review" /\ q.completedBy # NoRig}}

Written == writes < MaxWrites /\ writes' = writes + 1

(* mutatePR: the script goes to the branch; one that brings the item back to  *)
(* its status on the fork's main drops the branch, or clears it when DoltHub  *)
(* will not delete it; any other opens a pull request, if that succeeds; what *)
(* prIdempotent answers instead (mutate.go:116-131) writes nothing.           *)
Mutate(r) ==
    \E t \in Transitions \cup {"post"} :
    \E script \in Scripts(r, t, Start(r)) \cup AdoptScripts(r, Start(r)) :
        LET new == Rows!Run(script, Start(r))
            reverted == new.status = forkRows[r].status /\ Exists(new)
        IN /\ Written
           /\ new # Start(r)
           /\ branchRows' \in {[branchRows EXCEPT ![r] = b] :
                                  b \in IF reverted THEN {Gone, Rows!Empty} ELSE {new}}
           /\ offered' \in IF reverted THEN {offered \ {r}} ELSE {offered, offered \cup {r}}
           /\ UNCHANGED <<poster, upstreamRows, forkRows, pendingList, page, stored, badReads>>

DiscardBranch(r) ==
    /\ Written
    /\ There(branchRows[r])
    /\ branchRows' \in {[branchRows EXCEPT ![r] = b] : b \in {Gone, Rows!Empty}}
    /\ offered' = offered \ {r}
    /\ UNCHANGED <<poster, upstreamRows, forkRows, pendingList, page, stored, badReads>>

(* A maintainer merges a pull request (those without conflict). *)
MergePull(r) ==
    /\ r \in offered /\ There(branchRows[r]) /\ forkRows[r] = upstreamRows
    /\ upstreamRows' = branchRows[r] /\ offered' = offered \ {r}
    /\ UNCHANGED <<poster, forkRows, branchRows, pendingList, page, stored, writes, badReads>>

(* The fork's owner brings its main up to date. *)
SyncFork(r) ==
    /\ Written
    /\ forkRows[r] # upstreamRows /\ forkRows' = [forkRows EXCEPT ![r] = upstreamRows]
    /\ UNCHANGED <<poster, upstreamRows, branchRows, offered, pendingList, page, stored, badReads>>

\* Nobody's item, an open one, one that a rig submitted work for.
Posted == [Rows!Empty EXCEPT !.status = "open", !.text = "posted"]
Submitted(r) ==
    Rows!Run(Rows!SubmitCompletionDML(1, r), Rows!Run(<<Rows!ClaimWantedDML(r)>>, Posted))

ViewInit ==
    /\ poster \in Handles
    /\ upstreamRows \in {Rows!Empty, Posted} \cup {Submitted(r) : r \in Handles}
    /\ forkRows = [r \in Handles |-> upstreamRows]
    /\ branchRows = [r \in Handles |-> Gone]
    /\ offered = {} /\ pendingList = {}
    /\ page = Idle /\ stored = Gone /\ writes = 0 /\ badReads = 0

-----------------------------------------------------------------------------
(* ListPendingWantedIDs *)

Looks(t) == <<t.status, t.claimedBy>>

\* The row of the item that rig r's branch changed, and upstream has not got.
Differs(r) == /\ There(branchRows[r])
              /\ Looks(branchRows[r]) # Looks(forkRows[r])
              /\ Looks(branchRows[r]) # Looks(upstreamRows)

\* Not a stale copy of what somebody else did.
Intended(r) ==
    LET b == branchRows[r]
    IN /\ b.status # "withdrawn"
       /\ b.status = "open" => forkRows[r].status = "none"
       /\ b.status = "claimed" => b.claimedBy \in {NoRig, r}

Submission(r) ==
    LET b == branchRows[r]
        by == {c.by : c \in b.completions}
    IN [owner |-> r, status |-> b.status, claimedBy |-> b.claimedBy,
        completedBy |-> IF b.status \in {"open", "claimed"} \/ by = {} THEN NoRig
                        ELSE CHOOSE x \in by : TRUE]

Listing == {Submission(r) : r \in {x \in offered : Differs(x) /\ Intended(x)}}

ListPendingWantedIDs ==
    /\ pendingList # Listing /\ pendingList' = Listing
    /\ UNCHANGED <<poster, upstreamRows, forkRows, branchRows, offered, page, stored, writes, badReads>>

-----------------------------------------------------------------------------
(* Views, as functions of what was read. *)

stateRank == [open |-> 0, claimed |-> 1, in_review |-> 2, completed |-> 3]
bestPendingState(pending) ==
    CHOOSE p \in pending : \A q \in pending : stateRank[q.status] <= stateRank[p.status]

allowsUpstreamPending(status) == status \in {"open", "claimed", "in_review"}

Effective(main, branch) == IF There(branch) THEN branch ELSE main

shouldFetchUpstreamPRs(main, branch) ==
    LET e == Effective(main, branch)
    IN IF Exists(main) THEN allowsUpstreamPending(main.status)
       ELSE ~Exists(e) \/ allowsUpstreamPending(e.status)

withUpstreamSubmissionActions(v, pending) ==
    IF pending = {} \/ v \notin {poster} \cup Admins THEN {}
    ELSE {"reject"} \cup IF \E p \in pending : p.status = "in_review"
                         THEN {"accept", "close"} ELSE {}

\* Faulty: the branch adds items to main but changes none.
OverriddenIfNew(v) == There(branchRows[v]) /\ ~Exists(upstreamRows)

\* DetectBranchOverrides, in which a hosted client finds its own fork's branches
Overridden(v) == There(branchRows[v]) /\ branchRows[v].status # upstreamRows.status

Matches(status, filter) == filter \in {"", status}

BrowseWanted(filter) == {s \in {upstreamRows.status} : Exists(upstreamRows) /\ Matches(s, filter)}

(* The statuses with which BrowseWantedBranchAware lists the item: none or one.*)
BranchAware(v, filter) ==
    IF Overridden(v) THEN {s \in {branchRows[v].status} : Matches(s, filter)} ELSE BrowseWanted(filter)

(* Browse adds items that only a pending submission has; in the view "mine"   *)
(* only the rig's own.                                                        *)
PendingOnly(v, view, filter) ==
    LET visible == {p \in pendingList : view = "mine" => p.owner = v}
        best == bestPendingState(visible)
        allowed == allowsUpstreamPending(IF Exists(upstreamRows) THEN upstreamRows.status
                                         ELSE best.status)
    IN IF visible # {} /\ allowed /\ Matches(best.status, filter) THEN {best.status} ELSE {}

Browse(v, view, filter) ==
    IF BranchAware(v, filter) # {} THEN BranchAware(v, filter) ELSE PendingOnly(v, view, filter)

(* QueryMyDashboard: the sections that have a row. *)
Sections(row, v) ==
    {s \in {"claimed", "in_review", "completed"} :
        row.status = s /\ v \in {row.claimedBy} \cup (IF s = "in_review" THEN {poster} ELSE {})}

Dashboard(v) == Sections(IF Overridden(v) THEN branchRows[v] ELSE upstreamRows, v)

(* The status that Detail shows, when no read fails. *)
DetailStatus(v) ==
    LET e == Effective(upstreamRows, branchRows[v])
    IN IF Exists(e) THEN e.status
       ELSE IF pendingList = {} THEN "none"
       ELSE LET b == branchRows[bestPendingState(pendingList).owner]
            IN IF b = Gone THEN "none" ELSE b.status

-----------------------------------------------------------------------------
(* A detail request, query by query.  shared: the page goes to the cache that *)
(* all requests of the viewer share.                                          *)

Goto(at) == page' = [page EXCEPT !.at = at]
Reading(at) == page.at = at /\ UNCHANGED <<boardVars, writes>>
Well == UNCHANGED badReads
Badly == badReads < MaxBadReads /\ badReads' = badReads + 1

BeginDetail(v, shared) ==
    /\ page = Idle
    /\ page' = [at |-> "main", viewer |-> v, shared |-> shared, main |-> Rows!Empty,
                branch |-> Rows!Empty, pending |-> {}, listed |-> FALSE, incomplete |-> FALSE]
    /\ UNCHANGED <<boardVars, stored, writes, badReads>>

(* queryFullDetailJoinedRef: no row and no branch are both no item. *)
FullDetailOn(rows) == IF rows = Gone THEN Rows!Empty ELSE rows

(* ResolveItemState: an error of a query counts as no row. *)
ReadMain ==
    /\ Reading("main") /\ UNCHANGED stored
    /\ \/ Well /\ page' = [page EXCEPT !.at = "branch", !.main = upstreamRows]
       \/ Badly /\ Goto("branch")

\* Also FindBranchForItem: a branch without the item's row makes no difference.
ReadBranch ==
    /\ Reading("branch") /\ UNCHANGED stored
    /\ \E b \in {branchRows[page.viewer], Gone} :
          /\ IF b = branchRows[page.viewer] THEN Well ELSE Badly
          /\ LET found == FullDetailOn(b)
             IN page' = [page EXCEPT !.branch = found,
                         !.at = IF shouldFetchUpstreamPRs(page.main, found) THEN "pending" ELSE "answer"]

Shown == Effective(page.main, page.branch)

(* detailPRContext: without the listing the page fails if there is no item    *)
(* yet, or if the read is strict (WithStrictPendingReads).                    *)
ReadPending ==
    /\ Reading("pending") /\ UNCHANGED stored
    /\ \/ /\ Well
          /\ page' = [page EXCEPT !.pending = pendingList, !.listed = TRUE,
                      !.at = IF Exists(Shown) THEN "answer"
                             ELSE IF pendingList # {} THEN "load" ELSE "plain"]
       \/ /\ Badly
          /\ page' = IF Exists(Shown) /\ ~page.shared
                     THEN [page EXCEPT !.at = "answer", !.incomplete = TRUE] ELSE Idle

(* detailFromPendingContext: the item as the best submission's branch has it. *)
LoadPending ==
    /\ Reading("load") /\ UNCHANGED stored
    /\ LET b == branchRows[bestPendingState(page.pending).owner]
       IN \/ /\ Well /\ page' = IF There(b) THEN [page EXCEPT !.branch = b, !.at = "answer"] ELSE Idle
          \/ Badly /\ page' = Idle

(* detailWildWestContext, as the last resort: main once more, and the listing.*)
ReadPlain ==
    /\ Reading("plain") /\ UNCHANGED stored
    /\ \/ /\ Well
          /\ page' = IF Exists(upstreamRows)
                     THEN [page EXCEPT !.main = upstreamRows,
                           !.at = IF allowsUpstreamPending(upstreamRows.status)
                                  THEN "plainPending" ELSE "answer"]
                     ELSE Idle
       \/ Badly /\ page' = Idle

ReadPlainPending ==
    /\ Reading("plainPending") /\ UNCHANGED stored
    /\ \/ Well /\ page' = [page EXCEPT !.pending = pendingList, !.listed = TRUE, !.at = "answer"]
       \/ Badly /\ page' = [page EXCEPT !.listed = FALSE, !.incomplete = TRUE, !.at = "answer"]

\* Faulty: a page is stored whatever it lacks.
StorableAlways == page.shared

Storable == page.shared /\ ~page.incomplete

(* handleDetail: an incomplete page of a shared request is an error. *)
AnswerDetail ==
    /\ Reading("answer") /\ UNCHANGED badReads
    /\ stored' = IF Storable THEN [mainStatus |-> page.main.status, listed |-> page.listed] ELSE stored
    /\ page' = Idle

ViewNext ==
    \/ \E r \in Handles : Mutate(r) \/ DiscardBranch(r) \/ MergePull(r) \/ SyncFork(r)
    \/ ListPendingWantedIDs
    \/ \E v \in Handles, shared \in BOOLEAN : BeginDetail(v, shared)
    \/ ReadMain \/ ReadBranch \/ ReadPending \/ LoadPending \/ ReadPlain \/ ReadPlainPending
    \/ AnswerDetail

ViewSpec == ViewInit /\ [][ViewNext]_viewVars

-----------------------------------------------------------------------------
(* Properties.                                                             *)

(* What a rig is offered works: the script of each transition that Detail     *)
(* offers for an item takes the item from the rule's one status to the other. *)
(* The rules (lifecycle.go), the WHERE clauses of the scripts (commons.go) and*)
(* the branch that the script starts from (remote.go) are three places that   *)
(* must agree.  On a fork that is behind and has no branch yet the script     *)
(* starts from another state than was shown; the property leaves that out.    *)
OfferedIsAccepted ==
    \A v \in Handles :
        LET e == Effective(upstreamRows, branchRows[v])
        IN Exists(e) /\ (There(branchRows[v]) \/ forkRows[v] = upstreamRows) =>
              /\ \A t \in AvailableTransitions(e, v) :
                    \A script \in Scripts(v, t, Start(v)) :
                        Rows!Run(script, Start(v)).status = transitionRules[t].to
              /\ \A t \in withUpstreamSubmissionActions(v, pendingList) \ {"reject"} :
                    \A script \in AdoptScripts(v, Start(v)) :
                        Rows!Run(script, Start(v)).status = transitionRules[t].to

(* The list, the dashboard and the detail page of an item, each assembled by  *)
(* queries of its own, agree when nobody is writing: a list whose status      *)
(* filter lets the status on the detail page pass shows the item with exactly *)
(* that status, no list shows it with another that is not a pending           *)
(* submission's, and no section of the dashboard has it under another.        *)
ListAndDetailAgree ==
    pendingList = Listing =>
        \A v \in Handles :
            LET shown == DetailStatus(v)
                onBoard == Exists(Effective(upstreamRows, branchRows[v]))
            IN /\ onBoard => Dashboard(v) \subseteq {shown}
               /\ \A view \in {"mine", "all"}, filter \in {"", "open", "claimed", "in_review",
                                                          "completed", "withdrawn"} :
                     LET listed == Browse(v, view, filter)
                     IN /\ onBoard /\ Matches(shown, filter) => listed = {shown}
                        /\ listed \subseteq {shown} \cup {p.status : p \in pendingList}
                        /\ ~onBoard /\ view = "all" /\ allowsUpstreamPending(shown)
                              /\ Matches(shown, filter) => listed = {shown}

(* A page that other requests will be served holds the pending submissions    *)
(* whenever main's row says that there may be some: a listing that failed on  *)
(* any of the paths through Detail never ends in the shared cache             *)
(* (WithStrictPendingReads and errPendingReadIncomplete).                     *)
StoredPagesAreWhole ==
    stored # Gone => (allowsUpstreamPending(stored.mainStatus) => stored.listed)
=============================================================================
