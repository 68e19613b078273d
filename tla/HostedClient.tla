---------------------------- MODULE HostedClient ----------------------------
(***************************************************************************)
(* Mutations of one wanted item in pull-request mode on the hosted backend *)
(* (internal/sdk over backend.RemoteDB).  Every rig has a fork of the      *)
(* commons and one client with one mutex; its mutations go to the branch   *)
(* wl/<rig>/<item> of its fork, statement by statement, and the branch is  *)
(* offered to the upstream in a pull request that somebody may merge at    *)
(* any time.  Several requests of a rig may be under way at once (a double *)
(* click, two tabs).                                                       *)
(*                                                                         *)
(* The main of a fork is what the upstream was when the rig forked it: no  *)
(* mutation brings it up to date.  ApplyBranch would merge a branch into   *)
(* it; the pages offer that in wild-west mode (sdk/reads.go:529-543), in   *)
(* which this backend refuses mutations (sdk/mutate.go:39).  It is left    *)
(* out, and with it SaveSettings, which changes the mode.                  *)
(***************************************************************************)
EXTENDS WantedTables

CONSTANTS
    Sessions,     \* requests in flight at a time
    Owner,        \* [Sessions -> Rigs]: who issues them
    History,      \* sequence of Tables: the upstream so far, any of which a fork may be of
    Ops,          \* the operations requested
    Faults,       \* what may fail: subset of {"read", "write", "pr"}; with "pr"
                  \* calls about pull requests may fail, or find none
    MaxRequests,  \* bound: requests in all
    Free,         \* no session: the mutex is not held
    NoBranch      \* no tables: the branch does not exist

Operations == {"post", "update", "claim", "unclaim", "done", "accept", "reject",
               "close", "delete", "accept-upstream", "close-upstream",
               "discard", "submit-pr"}

\* Delete, Accept, AcceptUpstream and CloseUpstream look at the branch under
\* the mutex; Claim, Unclaim, Done, Reject and Close before they take it; Post,
\* Update and DiscardBranch not at all.  SubmitPR does without the mutex.
CheckedUnderLock == {"delete", "accept", "accept-upstream", "close-upstream"}
CheckedBefore == {"claim", "unclaim", "done", "reject", "close"}

ASSUME SessionsAssumption ==
    /\ Owner \in [Sessions -> Rigs] /\ Free \notin Sessions
    /\ IsFiniteSet(Rigs) /\ IsFiniteSet(Sessions)
    /\ NoBranch \notin Tables /\ History \in Seq(Tables) /\ Ops \subseteq Operations
    /\ \A i \in DOMAIN History : Finite(History[i])
    /\ Faults \subseteq {"read", "write", "pr"} /\ MaxRequests \in Nat

VARIABLES
    upstream,  \* Tables: main of the upstream database
    main,      \* [Rigs -> Tables]: main of each fork
    branch,    \* [Rigs -> Tables or NoBranch]
    base,      \* [Rigs -> Tables]: merge base of the branch and the upstream
    pr,        \* [Rigs -> BOOLEAN]: the branch has an open pull request
    listed,    \* [Rigs -> Rigs or None]: pendingUpstreamCache, by submitter: who
               \* completed the item on a branch listed as in review
    mutex,     \* [Rigs -> Sessions or Free]: Client.mu
    session,   \* [Sessions -> state of a request]
    requests   \* number of requests so far

refs == <<upstream, main, branch, base, pr, listed>>
vars == <<upstream, main, branch, base, pr, listed, mutex, session, requests>>

(***************************************************************************)
(* script holds the statements still to be sent; from is the branch the    *)
(* next of them is written from; mainStatus is what QueryItemStatus said   *)
(* of the fork's main; submitter is whose pull request an adoption closes; *)
(* answer is what the caller is about to be told.                          *)
(***************************************************************************)
Session == [pc : {"idle", "check", "enter", "shortcut", "lookup", "lock",
                  "plan", "exec", "settle", "close", "drop", "clear", "offer",
                  "retire", "submit", "answer"},
            op : Operations, script : Seq(Statement), from : {"main", "branch"},
            mainStatus : Status, submitter : Rigs \cup {None},
            answer : {"none", "error", "unchanged", "kept", "reverted", "discarded"}]

Sleeping == [pc |-> "idle", op |-> "post", script |-> << >>, from |-> "main",
             mainStatus |-> "none", submitter |-> None, answer |-> "none"]

RefsInit ==
    /\ \E now \in DOMAIN History, then \in [Rigs -> DOMAIN History] :
          /\ \A r \in Rigs : then[r] <= now
          /\ upstream = History[now]
          /\ main = [r \in Rigs |-> History[then[r]]]
    /\ branch = [r \in Rigs |-> NoBranch]
    /\ base = main
    /\ pr = [r \in Rigs |-> FALSE]
    /\ listed = [r \in Rigs |-> None]
    /\ mutex = [r \in Rigs |-> Free]
    /\ requests = 0

Init == RefsInit /\ session = [s \in Sessions |-> Sleeping]

-----------------------------------------------------------------------------
(* Reads, and the steps of a request.                                      *)

\* What a read of a ref may return for the status of the item: an error and a
\* missing row are both "".
StatusOf(t) == IF t = NoBranch THEN "none" ELSE t.status
Read(t) == {StatusOf(t)} \cup IF "read" \in Faults THEN {"none"} ELSE {}

\* The request goes on as given by the fields of new.
Goto(s, new) == session' = [session EXCEPT ![s] = Override(@, new)]

\* It will be answered, with the mutex (if it holds it) given back afterwards.
Say(s, answer) == Goto(s, [pc |-> "answer", answer |-> answer, script |-> << >>])

(* One statement of a script, execOne: write/<from>/<to> starts from the   *)
(* tip of <from>.  When it changes nothing the operation ends with a null  *)
(* commit, which counts as success, and <to> is made a copy of <from> or   *)
(* is left as it was.  The report may be lost after the write was applied. *)
WriteOk(r, from, stmt) ==
    LET source == IF from = "main" THEN main[r] ELSE branch[r] IN
    /\ source # NoBranch
    /\ \/ branch' = [branch EXCEPT ![r] = Apply(stmt, source)]
       \/ Apply(stmt, source) = source /\ UNCHANGED branch
    /\ base' = IF from = "main" /\ branch' # branch
               THEN [base EXCEPT ![r] = main[r]] ELSE base

WriteFails(r, from, stmt) ==
    \/ /\ "write" \in Faults \/ (from = "branch" /\ branch[r] = NoBranch)
       /\ UNCHANGED <<branch, base>>
    \/ "write" \in Faults /\ WriteOk(r, from, stmt)

\* Faulty: every script is started from main.
AlwaysMain(r) == {"main"}

\* branchHasData
From(r) == {IF status = "none" THEN "main" ELSE "branch" : status \in Read(branch[r])}

-----------------------------------------------------------------------------
(* What a request sends.                                                   *)

NewId(others) ==
    Unused(others
           \cup (UNION {IdsIn(t) : t \in {upstream} \cup {main[r] : r \in Rigs}
                                    \cup ({branch[r] : r \in Rigs} \ {NoBranch})})
           \cup (UNION {IdsNamed(session[s].script) : s \in Sessions}))

StampFor(r, subject, context) ==
    [id |-> NewId({context}), author |-> r, subject |-> subject, context |-> context]

(* The operations whose statements depend on nothing that is read.         *)
Script(op, r) ==
    CASE op = "post"    -> <<InsertWantedDML>>
      [] op = "update"  -> <<UpdateWantedDML>>
      [] op = "claim"   -> <<ClaimWantedDML(r)>>
      [] op = "unclaim" -> <<UnclaimWantedDML>>
      [] op = "done"    -> SubmitCompletionDML(NewId({}), r)
      [] op = "reject"  -> RejectCompletionDML
      [] op = "close"   -> <<CloseWantedDML>>
      [] op = "delete"  -> <<DeleteWantedDML>>

(* The status prIdempotent looks for.                                      *)
Target(op) ==
    CASE op \in {"claim", "reject"} -> "claimed"
      [] op = "unclaim"             -> "open"
      [] op = "done"                -> "in_review"
      [] op = "delete"              -> "withdrawn"
      [] op \in {"accept", "close", "accept-upstream", "close-upstream"} -> "completed"

-----------------------------------------------------------------------------
(* One action for each step of a request.                                  *)

\* A new item has a random id, so it is posted while nobody knows of it; what
\* is done to a branch is offered on a page that shows the branch.
Unknown == upstream.status = "none" /\ \A r \in Rigs : branch[r] = NoBranch

Begin(s, op, submitter) ==
    /\ session[s].pc = "idle" /\ requests < MaxRequests
    /\ op = "post" => Unknown
    /\ op \in {"discard", "submit-pr"} => branch[Owner[s]] # NoBranch
    /\ Goto(s, [op |-> op, submitter |-> submitter,
                pc |-> CASE op \in CheckedBefore    -> "check"
                         [] op \in CheckedUnderLock -> "enter"
                         [] op = "submit-pr"        -> "submit"
                         [] OTHER                   -> "lock"])
    /\ requests' = requests + 1
    /\ UNCHANGED <<refs, mutex>>

\* Faulty: the mutex keeps nobody out.
LockShared(s) ==
    /\ session[s].pc \in {"enter", "lock"}
    /\ mutex' = [mutex EXCEPT ![Owner[s]] = s]
    /\ CASE session[s].pc = "enter"   -> Goto(s, [pc |-> "check"])
         [] session[s].op = "discard" -> Goto(s, [pc |-> "close", answer |-> "discarded"])
         [] OTHER                     -> Goto(s, [pc |-> "plan"])
    /\ UNCHANGED <<refs, requests>>

Lock(s) ==
    /\ session[s].pc \in {"enter", "lock"} /\ mutex[Owner[s]] = Free
    /\ mutex' = [mutex EXCEPT ![Owner[s]] = s]
    /\ CASE session[s].pc = "enter"   -> Goto(s, [pc |-> "check"])
         [] session[s].op = "discard" -> Goto(s, [pc |-> "close", answer |-> "discarded"])
         [] OTHER                     -> Goto(s, [pc |-> "plan"])
    /\ UNCHANGED <<refs, requests>>

\* Where a request that is not answered idempotently goes on.
AfterCheck(op) ==
    CASE op = "delete"       -> "shortcut"
      [] op \in CheckedBefore -> "lock"
      [] OTHER               -> "lookup"

(* prIdempotent: the branch already has the target status, and main hasn't *)
Check(s) ==
    LET r == Owner[s]
        op == session[s].op IN
    /\ session[s].pc = "check"
    /\ \E onBranch \in Read(branch[r]), onMain \in Read(main[r]) :
          IF onBranch = Target(op) /\ onBranch # onMain
          THEN Say(s, "unchanged")
          ELSE Goto(s, [pc |-> AfterCheck(op)])
    /\ UNCHANGED <<refs, mutex, requests>>

\* Faulty: the mutex is kept while mutate takes it.
ShortcutKeepsMutex(s) ==
    LET r == Owner[s] IN
    /\ session[s].pc = "shortcut"
    /\ \E onMain \in Read(main[r]) :
          IF onMain = "none"
          THEN Goto(s, [pc |-> "close", answer |-> "discarded"])
          ELSE Goto(s, [pc |-> "lock"])
    /\ UNCHANGED <<refs, mutex, requests>>

\* Faulty: the mutex is given back before the branch is dropped.
ShortcutUnlocked(s) ==
    LET r == Owner[s] IN
    /\ session[s].pc = "shortcut"
    /\ \E onMain \in Read(main[r]) :
          IF onMain = "none"
          THEN Goto(s, [pc |-> "close", answer |-> "discarded"])
          ELSE Goto(s, [pc |-> "lock"])
    /\ mutex' = [mutex EXCEPT ![r] = Free]
    /\ UNCHANGED <<refs, requests>>

(* Delete: an item that is not on main is dropped with its branch; for one *)
(* that is, the mutex is given back and taken again.                       *)
Shortcut(s) ==
    LET r == Owner[s] IN
    /\ session[s].pc = "shortcut"
    /\ \E onMain \in Read(main[r]) :
          IF onMain = "none"
          THEN /\ Goto(s, [pc |-> "close", answer |-> "discarded"])
               /\ UNCHANGED mutex
          ELSE /\ Goto(s, [pc |-> "lock"])
               /\ mutex' = [mutex EXCEPT ![r] = Free]
    /\ UNCHANGED <<refs, requests>>

(* Accept: QueryCompletion reads the upstream's main, one row of it.       *)
LookupCompletion(s) ==
    LET r == Owner[s] IN
    /\ session[s].pc = "lookup" /\ session[s].op = "accept"
    /\ \/ /\ upstream.completions = {} \/ "read" \in Faults
          /\ Say(s, "error")
       \/ \E c \in upstream.completions :
             IF c.by = r THEN Say(s, "error")
             ELSE Goto(s, [pc |-> "plan",
                           script |-> AcceptCompletionDML(c.id, StampFor(r, c.by, c.id))])
    /\ UNCHANGED <<refs, mutex, requests>>

(* AcceptUpstream and CloseUpstream: what the pending cache lists.         *)
LookupSubmission(s) ==
    LET r == Owner[s]
        by == listed[session[s].submitter]
        id == NewId({}) IN
    /\ session[s].pc = "lookup" /\ session[s].op \in {"accept-upstream", "close-upstream"}
    /\ \/ (by = None \/ "read" \in Faults) /\ Say(s, "error")
       \/ /\ by # None /\ session[s].op = "close-upstream"
          /\ Goto(s, [pc |-> "plan", script |-> CloseUpstreamDML(id, by)])
       \/ /\ by # None /\ session[s].op = "accept-upstream"
          /\ IF by = r THEN Say(s, "error")
             ELSE Goto(s, [pc |-> "plan",
                           script |-> AcceptUpstreamDML(id, by, StampFor(r, by, id))])
    /\ UNCHANGED <<refs, mutex, requests>>

(* mutatePR: the status on main, then where the first statement is written *)
(* from.                                                                   *)
Plan(s) ==
    LET r == Owner[s] IN
    /\ session[s].pc = "plan"
    /\ \E onMain \in Read(main[r]), from \in From(r) :
          Goto(s, [pc |-> "exec", mainStatus |-> onMain, from |-> from,
                   script |-> IF session[s].script = << >> THEN Script(session[s].op, r)
                              ELSE session[s].script])
    /\ UNCHANGED <<refs, mutex, requests>>

(* Exec: the next statement; the first that fails ends the request.        *)
Write(s) ==
    LET r == Owner[s]
        script == session[s].script IN
    /\ session[s].pc = "exec"
    /\ \/ /\ WriteOk(r, session[s].from, Head(script))
          /\ Goto(s, [script |-> Tail(script), from |-> "branch",
                      pc |-> IF Len(script) = 1 THEN "settle" ELSE "exec"])
       \/ /\ WriteFails(r, session[s].from, Head(script))
          /\ Say(s, "error")
    /\ UNCHANGED <<upstream, main, pr, listed, mutex, requests>>

\* mutatePRResult: the item as the branch has it, else as the upstream has it.
Seen(r) == UNION {IF status = "none" THEN Read(upstream) ELSE {status} :
                    status \in Read(branch[r])}

\* Faulty: the branch is dropped with its pull request open.
SettleKeepsPR(s) ==
    /\ session[s].pc = "settle"
    /\ \E status \in Seen(Owner[s]) :
          IF status # "none" /\ status = session[s].mainStatus
          THEN Goto(s, [pc |-> "drop", answer |-> "reverted"])
          ELSE Goto(s, [pc |-> "offer", answer |-> "kept"])
    /\ UNCHANGED <<refs, mutex, requests>>

Settle(s) ==
    /\ session[s].pc = "settle"
    /\ \E status \in Seen(Owner[s]) :
          IF status # "none" /\ status = session[s].mainStatus
          THEN Goto(s, [pc |-> "close", answer |-> "reverted"])
          ELSE Goto(s, [pc |-> "offer", answer |-> "kept"])
    /\ UNCHANGED <<refs, mutex, requests>>

\* CloseUpstream closes the submitter's pull request before it returns.
Finish(s) ==
    IF session[s].op = "close-upstream"
    THEN Goto(s, [pc |-> "retire", script |-> << >>])
    ELSE Say(s, session[s].answer)

(* cleanupBranch: close the pull request, whether that works or not.  With *)
(* an index of pull requests that is old or has a gap FindPR finds none,   *)
(* and nothing is closed and nothing reported; PullLookups says when.      *)
ClosePR(s) ==
    /\ session[s].pc = "close"
    /\ \/ pr' = [pr EXCEPT ![Owner[s]] = FALSE]
       \/ "pr" \in Faults /\ UNCHANGED pr
    /\ Goto(s, [pc |-> "drop"])
    /\ UNCHANGED <<upstream, main, branch, base, listed, mutex, requests>>

(* DeleteBranch, which the write API may not support.                      *)
DropBranch(s) ==
    LET r == Owner[s] IN
    /\ session[s].pc = "drop"
    /\ \/ branch[r] # NoBranch /\ branch' = [branch EXCEPT ![r] = NoBranch] /\ Finish(s)
       \/ UNCHANGED branch /\ Goto(s, [pc |-> "clear", script |-> ClearScript])
    /\ UNCHANGED <<upstream, main, base, pr, listed, mutex, requests>>

(* clearBranchData: every statement is an Exec of its own.  cleanupBranch  *)
(* ignores its error, DiscardBranch returns it.                            *)
Clear(s) ==
    LET r == Owner[s]
        script == session[s].script IN
    /\ session[s].pc = "clear"
    /\ \E from \in From(r) :
          \/ /\ WriteOk(r, from, Head(script))
             /\ IF Len(script) = 1 THEN Finish(s) ELSE Goto(s, [script |-> Tail(script)])
          \/ /\ WriteFails(r, from, Head(script))
             /\ IF session[s].op = "discard" THEN Say(s, "error") ELSE Finish(s)
    /\ UNCHANGED <<upstream, main, pr, listed, mutex, requests>>

\* DoltHub opens a pull request for a branch that exists, or keeps the open one.
Offer(r) ==
    \/ branch[r] # NoBranch /\ pr' = [pr EXCEPT ![r] = TRUE]
    \/ (branch[r] = NoBranch \/ "pr" \in Faults) /\ UNCHANGED pr

(* The end of mutatePR; a failure of CreatePR becomes a hint.              *)
CreatePR(s) ==
    /\ session[s].pc = "offer"
    /\ Offer(Owner[s]) /\ Finish(s)
    /\ UNCHANGED <<upstream, main, branch, base, listed, mutex, requests>>

(* SubmitPR, which does not take the mutex.                                *)
SubmitPR(s) ==
    /\ session[s].pc = "submit"
    /\ Offer(Owner[s]) /\ Say(s, "kept")
    /\ UNCHANGED <<upstream, main, branch, base, listed, mutex, requests>>

CloseUpstreamPR(s) ==
    /\ session[s].pc = "retire"
    /\ \/ pr' = [pr EXCEPT ![session[s].submitter] = FALSE]
       \/ "pr" \in Faults /\ UNCHANGED pr
    /\ Say(s, session[s].answer)
    /\ UNCHANGED <<upstream, main, branch, base, listed, mutex, requests>>

(* The method returns; its defer releases the mutex.                       *)
Answer(s) ==
    LET r == Owner[s] IN
    /\ session[s].pc = "answer"
    /\ mutex' = [mutex EXCEPT ![r] = IF @ = s THEN Free ELSE @]
    /\ session' = [session EXCEPT ![s] = Sleeping]
    /\ UNCHANGED <<refs, requests>>

-----------------------------------------------------------------------------
(* DoltHub and its users.                                                  *)

\* Rows that only the branch changed since base are taken; a row that both
\* changed is a conflict (updated_at differs) unless both have it alike.
Take(b, theirs, ours) == (ours \ (b \ theirs)) \cup (theirs \ b)
Row(t) == [status |-> t.status, claimedBy |-> t.claimedBy, text |-> t.text]
Mergeable(b, theirs, ours) == Row(b) \in {Row(theirs), Row(ours)} \/ Row(theirs) = Row(ours)
Merge(b, theirs, ours) ==
    [(IF Row(theirs) = Row(b) THEN ours ELSE theirs)
       EXCEPT !.completions = Take(b.completions, theirs.completions, ours.completions),
              !.stamps = Take(b.stamps, theirs.stamps, ours.stamps)]

MergePR(r) ==
    /\ pr[r] /\ branch[r] # NoBranch /\ Mergeable(base[r], branch[r], upstream)
    /\ upstream' = Merge(base[r], branch[r], upstream)
    /\ base' = [base EXCEPT ![r] = branch[r]]
    /\ pr' = [pr EXCEPT ![r] = FALSE]
    /\ UNCHANGED <<main, branch, listed, mutex, session, requests>>

(* What ListPendingWantedIDs tells two versions of the item apart by.      *)
Differs(t, u) == t.status # u.status \/ t.claimedBy # u.claimedBy

Completers(r) ==
    IF pr[r] /\ StatusOf(branch[r]) = "in_review" /\ Differs(branch[r], main[r])
    THEN {c.by : c \in branch[r].completions} ELSE {}

(* The pending cache reads the open pull requests again.  A branch that is *)
(* as the upstream is not listed, unless reading the upstream failed.      *)
RefreshListing(r) ==
    /\ \/ /\ Completers(r) # {} => ~Differs(branch[r], upstream)
          /\ listed' = [listed EXCEPT ![r] = None]
       \/ \E by \in Completers(r) :
             /\ Differs(branch[r], upstream) \/ "read" \in Faults
             /\ listed' = [listed EXCEPT ![r] = by]
    /\ UNCHANGED <<upstream, main, branch, base, pr, mutex, session, requests>>

Step(s) ==
    \/ Lock(s) \/ Check(s) \/ Shortcut(s) \/ LookupCompletion(s) \/ LookupSubmission(s)
    \/ Plan(s) \/ Write(s) \/ Settle(s) \/ ClosePR(s) \/ DropBranch(s) \/ Clear(s)
    \/ CreatePR(s) \/ SubmitPR(s) \/ CloseUpstreamPR(s) \/ Answer(s)

Submitters(op) == IF op \in {"accept-upstream", "close-upstream"} THEN Rigs ELSE {None}

Next ==
    \/ \E s \in Sessions, op \in Ops : \E q \in Submitters(op) : Begin(s, op, q)
    \/ \E s \in Sessions : Step(s)
    \/ \E r \in Rigs : MergePR(r) \/ RefreshListing(r)

Spec == Init /\ [][Next]_vars

\* A handler's goroutine runs on, and sync.Mutex starves no waiter.
Fairness == \A s \in Sessions : WF_vars(Step(s)) /\ SF_vars(Lock(s))
FairSpec == Spec /\ Fairness

-----------------------------------------------------------------------------
(* Type correctness of the refs and of the requests.                       *)
TypeOK ==
    /\ upstream \in Tables /\ main \in [Rigs -> Tables] /\ base \in [Rigs -> Tables]
    /\ branch \in [Rigs -> Tables \cup {NoBranch}]
    /\ pr \in [Rigs -> BOOLEAN] /\ listed \in [Rigs -> Rigs \cup {None}]
    /\ mutex \in [Rigs -> Sessions \cup {Free}]
    /\ session \in [Sessions -> Session]
    /\ requests \in 0 .. MaxRequests

\* No request of r is under way and r's branch has the item.
Quiet(r) == mutex[r] = Free /\ StatusOf(branch[r]) # "none"

(* The comment in acceptLocked: no two calls of Accept pass the idempotence *)
(* check on the same completion.  Were it so, both would insert a stamp and *)
(* the completion could be linked to one of them only.                      *)
StampsAreLinked ==
    \A r \in Rigs : Quiet(r) =>
      \A c \in branch[r].completions, x \in branch[r].stamps :
        x.context = c.id => c.stamp = x.id

(* What the WHERE clauses of the DML are for: whatever requests a rig sends *)
(* in whatever order, and wherever its branch starts from, an item in       *)
(* review has a completion, no item has two, and the completion is by the   *)
(* rig that has the claim, also when it was adopted from another's branch.  *)
CompletionsMatchClaim ==
    \A r \in Rigs : Quiet(r) =>
      /\ branch[r].status = "in_review" => branch[r].completions # {}
      /\ Cardinality(branch[r].completions) <= 1
      /\ \A c \in branch[r].completions : c.by = branch[r].claimedBy

(* cleanupBranch and DiscardBranch close the pull request before they drop  *)
(* the branch or clear the item from it: merged in between, the pull        *)
(* request would delete the item from the upstream.  Checked without the    *)
(* fault "pr": a pull request that FindPR does not find stays open.         *)
NotErasedWhileOffered ==
    [][\A r \in Rigs :
         StatusOf(branch[r]) # "none" /\ StatusOf(branch'[r]) = "none" => ~pr[r]]_vars

\* From the check under the mutex, or else the plan, to the last of the cleanup.
Working(s) ==
    \/ session[s].pc \in {"plan", "exec", "settle", "close", "drop", "clear", "offer", "retire"}
    \/ session[s].pc \in {"check", "shortcut", "lookup"} /\ session[s].op \in CheckedUnderLock

(* The statements of a script, and the cleanup after it, are calls of their *)
(* own: what keeps those of two requests of a rig apart is Client.mu alone, *)
(* which Delete unlocks and locks by hand, whatever fails in between.       *)
OneWriter ==
    \A s, t \in Sessions :
      s # t /\ Owner[s] = Owner[t] /\ Working(s) => ~Working(t)

(* Every caller of a mutation gets an answer, although Client.mu is not     *)
(* reentrant and Delete takes it twice.                                     *)
EveryMutationAnswered ==
    \A s \in Sessions : session[s].pc # "idle" ~> session[s].pc = "idle"

(* "Update modifies mutable fields on an open wanted item": once a caller   *)
(* is told that the update was made, the branch has it.                     *)
UpdateIsKept ==
    \A s \in Sessions :
      session[s].pc = "answer" /\ session[s].op = "update" /\ session[s].answer # "error"
      => branch[Owner[s]] # NoBranch /\ branch[Owner[s]].text = "edited"

(* AcceptUpstreamDML "atomically adopts the fork's completion data": a      *)
(* caller who is told the submission was accepted finds the stamp.          *)
AcceptedIsStamped ==
    \A s \in Sessions :
      LET tip == branch[Owner[s]] IN
      session[s].pc = "answer" /\ session[s].op = "accept-upstream"
        /\ session[s].answer # "error"
      => \E c \in tip.completions, x \in tip.stamps : x.context = c.id /\ c.stamp = x.id

-----------------------------------------------------------------------------
(* Board, seen in the branches, the mutexes and the requests.              *)

\* The statements of s are on their way to a branch that has the item.
Sending(s) == session[s].pc = "exec" /\ session[s].from = "branch"

\* What is left of the rows t once the request is settled.
Kept(r, t) ==
    IF t = NoBranch \/ StatusOf(t) \in {"none", main[r].status} THEN NoBranch ELSE t

\* The branch as the request that holds the mutex is going to leave it.
Proposal(r) ==
    LET s == mutex[r] IN
    IF StatusOf(branch[r]) = "none" THEN NoBranch
    ELSE IF s = Free THEN branch[r]
    ELSE CASE session[s].pc \in {"close", "drop", "clear"} -> NoBranch
           [] session[s].pc = "settle" \/ Sending(s) -> Kept(r, Run(session[s].script, branch[r]))
           [] OTHER -> branch[r]

\* What has become of it: it is made once its outcome is certain.
Request(s) ==
    LET pc == session[s].pc IN
    CASE pc = "idle" -> "none"
      [] pc = "answer" /\ session[s].answer \in {"error", "unchanged"} -> "refused"
      [] pc \in {"settle", "close", "drop", "clear", "offer", "retire"}
           \/ (pc = "answer" /\ session[s].answer \notin {"error", "unchanged"})
           \/ (Sending(s) /\ branch[Owner[s]] # NoBranch) -> "made"
      [] OTHER -> session[s].op

Promise == INSTANCE Board WITH
    Boards <- Tables, Requests <- Sessions, Absent <- NoBranch,
    proposal <- [r \in Rigs |-> Proposal(r)], request <- [s \in Sessions |-> Request(s)]

(* What mutatePR, DiscardBranch and SubmitPR do in many statements and calls, *)
(* with those of other requests in between, comes for each caller to one      *)
(* change of the proposal that the rig's branch is, or to a refusal.          *)
BoardSpec == Promise!Spec
=============================================================================
