----------------------------- MODULE LocalClone -----------------------------
(* A clone of a fork on the user's disk, driven through the dolt command line *)
(* (internal/backend/local.go, internal/commons/dolt.go), by the clients of   *)
(* one or more processes (internal/sdk), by `wl merge` and `wl sync`, and by  *)
(* the reads that sync first.                                                 *)
(*                                                                            *)
(* A branch is the set of changes committed on it; a change is named by the   *)
(* request that made it.  Every dolt command is a step and may fail.  The     *)
(* command line keeps ONE checked-out branch for the whole directory, `head`, *)
(* and one working set: scripts, pulls and resets act on them, whoever left   *)
(* them so.                                                                   *)
EXTENDS Naturals, FiniteSets, Functions

CONSTANTS
    Branches,    \* wl/<rig>/<item>; one branch for each item
    Requests,    \* what is asked of the clone, by name
    Others,      \* changes made without this clone: by other rigs, or by the
                 \* hosted application on the same fork
    Casts,       \* what the requests may be: each a function of Requests to
                 \* [kind, branch, process]
    Modes,       \* subset of {"pr", "wild-west"}
    None,
    MaxSyncs, MaxCommandFaults   \* bounds of the model

Main == "main"

\* "save" is a mutation with --no-push, "settings" a save of the settings.
Kinds == {"mutate", "revert", "save", "apply", "discard", "settings", "merge", "pull"}

ASSUME CloneAssumption ==
    /\ \A c \in Casts, r \in Requests : c[r].kind \in Kinds /\ c[r].branch \in Branches
    /\ \A c \in Casts, r, q \in Requests :   \* `wl merge` is a process of its own
          c[r].kind = "merge" /\ c[q].process = c[r].process => q = r
    /\ Modes \subseteq {"pr", "wild-west"}
    /\ Main \notin Branches /\ None \notin Requests /\ Others \cap Requests = {}

VARIABLES
    cast,
    mode,        \* process -> its client's mode
    opened,      \* the mode the clone was opened in, which Sync goes by
    local,       \* the clone's branches: name -> changes
    head,        \* the branch that is checked out
    dirty,       \* requests half of whose script is in the working set
    fetched,     \* remotes/upstream/main
    tracked,     \* remotes/origin/...
    origin, upstream,
    holder,      \* process -> the request that holds its client's mutex
    jobs,        \* request -> [pc, mode, remote, clearing, failed], with the
                 \* mode it found
    syncing,     \* where the one Sync at a time is
    listed,      \* the remote branches TrackOriginBranches has read
    syncs, faults,
    acked,       \* ghost: mutations answered as pushed
    assured,     \* ghost: changes a later request was told are there
    meant,       \* ghost: changes asked for on main
    dropped,     \* ghost: changes on branches that a discard or a revert removed
    astray,      \* ghost: changes that another actor's command moved or deleted
    abandoned    \* ghost: changes pruned with a branch the fork has not got

gitVars == <<local, head, dirty, fetched, tracked, origin, upstream>>
losses == <<dropped, astray, abandoned>>
localVars == <<cast, mode, opened, gitVars, holder, jobs, syncing, listed, syncs, faults,
               acked, assured, meant, losses>>

\* What the commands of a request leave alone.
aside == <<cast, mode, opened, syncing, listed, syncs, assured, abandoned>>

Branch(r) == cast[r].branch
Process(r) == cast[r].process
Is(r, kinds) == cast[r].kind \in kinds
At(r, pc) == jobs[r].pc = pc
UnderWay(r) == jobs[r].pc \notin {"asked", "done"}
ChangesOf(b) == {r \in Requests : Branch(r) = b}
Bare == [b \in {Main} |-> {}]
With(refs, b, changes) == [x \in DOMAIN refs \cup {b} |-> IF x = b THEN changes ELSE refs[x]]
Without(refs, b) == Restrict(refs, DOMAIN refs \ {b})

\* A command may end in an error, MaxCommandFaults times ...
Outcome(ok) == /\ ok \/ faults < MaxCommandFaults
               /\ faults' = IF ok THEN faults ELSE faults + 1

\* ... and one that touches the working set also over what a script left there.
OutcomeOverDirt(ok) == Outcome(ok) \/ (dirty # {} /\ ~ok /\ UNCHANGED faults)

Goto(r, pc) == jobs' = [jobs EXCEPT ![r].pc = pc]

Unlock(r) == holder' = [p \in DOMAIN holder |-> IF holder[p] = r THEN None ELSE holder[p]]

\* The request is over; `pushed` is what its caller is told of a mutation.
End(r, pushed) ==
    /\ Goto(r, "done")
    /\ Unlock(r)
    /\ acked' = IF pushed THEN acked \cup {r} ELSE acked

Continue(r, pc) == Goto(r, pc) /\ UNCHANGED <<holder, acked>>

CloneInit ==
    /\ cast \in Casts
    /\ opened \in Modes /\ mode = [p \in {cast[r].process : r \in Requests} |-> opened]
    /\ local = Bare /\ head = Main /\ dirty = {}
    /\ fetched = {} /\ upstream = {}
    /\ tracked = Bare /\ origin = Bare
    /\ holder = [p \in {cast[r].process : r \in Requests} |-> None]
    /\ jobs = [r \in Requests |-> [pc |-> "asked", mode |-> opened, remote |-> "upstream",
                                   clearing |-> FALSE, failed |-> FALSE]]
    /\ syncing = "no" /\ listed = {} /\ syncs = 0 /\ faults = 0
    /\ acked = {} /\ assured = {} /\ meant = {}
    /\ dropped = {} /\ astray = {} /\ abandoned = {}

-----------------------------------------------------------------------------
(* Requests through a client: its mutex is the process's. *)

\* mutateLocked chooses by the client's mode, the others do not ask for it.
First(r) ==
    CASE Is(r, {"mutate", "revert", "save"}) ->
             IF mode[Process(r)] = "pr" THEN "create" ELSE "script"
      [] Is(r, {"apply"}) -> "merge"
      [] Is(r, {"discard"}) -> "delete"

\* mutate, ApplyBranch and DiscardBranch take the mutex.
Begin(r) ==
    /\ At(r, "asked") /\ ~Is(r, {"settings", "merge", "pull"})
    /\ holder[Process(r)] = None
    /\ holder' = [holder EXCEPT ![Process(r)] = r]
    /\ jobs' = [jobs EXCEPT ![r].pc = First(r), ![r].mode = mode[Process(r)]]
    /\ meant' = IF First(r) = "script" THEN meant \cup {r} ELSE meant
    /\ UNCHANGED <<cast, mode, opened, gitVars, syncing, listed, syncs, faults, acked, assured,
                   losses>>

\* prIdempotent: the item already has the status asked for on its branch and
\* another one on main, so an earlier request's change is taken for this one's.
\* Nothing is committed or pushed; most callers have not taken the mutex yet.
AnswerFromBranch(r) ==
    LET found == (local[Branch(r)] \ local[Main]) \cap ChangesOf(Branch(r))
    IN  /\ At(r, "asked") /\ Is(r, {"mutate", "revert", "save"})
        /\ mode[Process(r)] = "pr" /\ Branch(r) \in DOMAIN local /\ found # {}
        /\ Goto(r, "done")
        /\ assured' = assured \cup found
        /\ UNCHANGED <<cast, mode, opened, gitVars, holder, syncing, listed, syncs, faults,
                       acked, meant, losses>>

\* The client's mode is set when the configuration is saved; the clone stays
\* opened in the mode it was opened in.
SaveSettings(r, m, ok) ==
    /\ At(r, "asked") /\ Is(r, {"settings"}) /\ Outcome(ok)
    /\ holder[Process(r)] = None
    /\ mode' = IF ok THEN [mode EXCEPT ![Process(r)] = m] ELSE mode
    /\ Goto(r, "done")
    /\ UNCHANGED <<cast, opened, gitVars, holder, syncing, listed, syncs, acked, assured, meant,
                   losses>>

\* Faulty: starts over from main although the branch exists.
CreateBranchAfresh(r, ok) ==
    /\ At(r, "create") /\ Outcome(ok)
    /\ IF ok THEN Continue(r, "checkout") ELSE End(r, FALSE)
    /\ local' = IF ok THEN With(local, Branch(r), local[Main]) ELSE local
    /\ UNCHANGED <<aside, head, dirty, fetched, tracked, origin, upstream, meant, dropped, astray>>

\* Exec: CheckoutBranchFrom makes a missing branch from main ...
CreateBranch(r, ok) ==
    /\ At(r, "create") /\ Outcome(ok)
    /\ IF ok THEN Continue(r, "checkout") ELSE End(r, FALSE)
    /\ local' = IF ok /\ Branch(r) \notin DOMAIN local
                THEN With(local, Branch(r), local[Main]) ELSE local
    /\ UNCHANGED <<aside, head, dirty, fetched, tracked, origin, upstream, meant, dropped, astray>>

\* Faulty: goes on after an error.
CheckoutRegardless(r, ok) ==
    /\ At(r, "checkout") /\ OutcomeOverDirt(ok)
    /\ Continue(r, "script")
    /\ head' = IF ok /\ Branch(r) \in DOMAIN local THEN Branch(r) ELSE head
    /\ UNCHANGED <<aside, local, dirty, fetched, tracked, origin, upstream, meant, dropped, astray>>

\* ... and checks it out; an error of either ends the request.  The branch may
\* have been pruned in between.  What a script left uncommitted comes along.
Checkout(r, ok) ==
    /\ At(r, "checkout") /\ OutcomeOverDirt(ok)
    /\ IF ok /\ Branch(r) \in DOMAIN local
       THEN Continue(r, "script") /\ head' = Branch(r)
       ELSE End(r, FALSE) /\ UNCHANGED head
    /\ UNCHANGED <<aside, local, dirty, fetched, tracked, origin, upstream, meant, dropped, astray>>

\* Where the script of a request is to run; clearBranchData names the branch
\* in either mode.
OnBranch(r) == jobs[r].mode = "pr" \/ jobs[r].clearing
Target(r) == IF OnBranch(r) THEN Branch(r) ELSE Main

\* No other process uses the clone.
Alone(r) == DOMAIN holder = {Process(r)}

\* What a commit (DOLT_ADD -A) of the working set makes of the checked-out
\* branch, if it holds what the scripts of `scripts` did.
Adding(scripts) == {d \in scripts : ~jobs[d].clearing}
Committed(scripts) ==
    (local[head] \ UNION {ChangesOf(Branch(d)) : d \in scripts \ Adding(scripts)}) \cup Adding(scripts)

\* The script and its commit run on whatever is checked out, over whatever is
\* uncommitted.  A script whose report is lost is run again, and then has
\* nothing to commit; one that fails half way leaves its half behind.
Script(r, effect, ok) ==
    LET commit == Committed(dirty \cup {r})
        foreign == IF head = Main THEN dirty \ meant ELSE {}
        strays == IF head = Target(r) \/ (OnBranch(r) /\ Alone(r)) THEN foreign
                  ELSE foreign \cup {r}
    IN  /\ At(r, "script") /\ Outcome(ok)
        /\ ok => effect = "all"
        /\ local' = IF effect = "all" THEN [local EXCEPT ![head] = commit] ELSE local
        /\ astray' = IF effect = "all" THEN astray \cup Adding(strays) ELSE astray
        /\ dropped' = IF effect = "all" THEN dropped \cup (local[head] \ commit) ELSE dropped
        /\ dirty' = CASE effect = "all" -> {} [] effect = "half" -> dirty \cup {r}
                      [] OTHER -> dirty
        /\ CASE OnBranch(r) -> /\ jobs' = [jobs EXCEPT ![r].pc = "return", ![r].failed = ~ok]
                               /\ UNCHANGED <<holder, acked>>
             [] ~OnBranch(r) /\ (~ok \/ Is(r, {"save"})) -> End(r, FALSE)
             [] OTHER -> Continue(r, "push")
        /\ UNCHANGED <<aside, head, fetched, tracked, origin, upstream, meant>>

\* CheckoutMain, after a script that failed too; its own error leaves the
\* branch checked out.
ReturnToMain(r, ok) ==
    /\ At(r, "return") /\ OutcomeOverDirt(ok)
    /\ head' = IF ok THEN Main ELSE head
    /\ IF ok /\ ~jobs[r].failed /\ ~jobs[r].clearing /\ ~Is(r, {"save"})
       THEN Continue(r, "pushBranch") ELSE End(r, FALSE)
    /\ UNCHANGED <<aside, local, dirty, fetched, tracked, origin, upstream, meant, dropped, astray>>

\* PushBranch --force.  A mutation that took the item back to its status on
\* main is followed by cleanupBranch.
PushBranch(r, ok) ==
    LET pushed == ok /\ Branch(r) \in DOMAIN local
    IN  /\ At(r, "pushBranch") /\ Outcome(ok)
        /\ origin' = IF pushed THEN With(origin, Branch(r), local[Branch(r)]) ELSE origin
        /\ tracked' = IF pushed THEN With(tracked, Branch(r), local[Branch(r)]) ELSE tracked
        /\ IF pushed /\ Is(r, {"revert"}) THEN Continue(r, "delete") ELSE End(r, pushed)
        /\ UNCHANGED <<aside, local, head, dirty, fetched, upstream, meant, dropped, astray>>

\* cleanupBranch and DiscardBranch: the checked-out branch cannot be deleted.
\* A branch that stays is cleared by a script instead, locally only.
DeleteBranch(r, ok) ==
    LET deleted == ok /\ Branch(r) \in DOMAIN local /\ head # Branch(r)
    IN  /\ At(r, "delete") /\ Outcome(ok)
        /\ local' = IF deleted THEN Without(local, Branch(r)) ELSE local
        /\ dropped' = IF deleted THEN dropped \cup local[Branch(r)] ELSE dropped
        /\ jobs' = [jobs EXCEPT ![r].pc = IF deleted THEN "deleteRemote" ELSE "create",
                                ![r].clearing = ~deleted]
        /\ UNCHANGED <<aside, head, dirty, fetched, tracked, origin, upstream, holder, acked,
                       meant, astray>>

\* Its error is ignored: the branch stays on the fork, and the next Sync
\* brings it back.
DeleteRemoteBranch(r, ok) ==
    /\ At(r, "deleteRemote") /\ Outcome(ok)
    /\ origin' = IF ok THEN Without(origin, Branch(r)) ELSE origin
    /\ tracked' = IF ok THEN Without(tracked, Branch(r)) ELSE tracked
    /\ dropped' = IF ok /\ Branch(r) \in DOMAIN origin
                  THEN dropped \cup origin[Branch(r)] ELSE dropped
    /\ End(r, FALSE)
    /\ UNCHANGED <<aside, local, head, dirty, fetched, upstream, meant, astray>>

\* MergeBranch's session checks out main for itself, `head` stays.
Merged(r, ok) ==
    /\ local' = IF ok THEN [local EXCEPT ![Main] = @ \cup local[Branch(r)]] ELSE local
    /\ meant' = IF ok THEN meant \cup local[Branch(r)] ELSE meant

\* ApplyBranch, in whatever mode: merge, delete, force-push main to origin.
ApplyMerge(r, ok) ==
    LET merged == ok /\ Branch(r) \in DOMAIN local
    IN  /\ At(r, "merge") /\ Is(r, {"apply"}) /\ OutcomeOverDirt(ok)
        /\ Merged(r, merged)
        /\ IF merged THEN Continue(r, "applyDelete") ELSE End(r, FALSE)
        /\ UNCHANGED <<aside, head, dirty, fetched, tracked, origin, upstream, dropped, astray>>

\* What another process put on a branch after it was merged goes with it, and
\* a mutation under way loses its branch.
Unmerged(b, after) ==
    IF b \in DOMAIN local \ DOMAIN after
    THEN {c \in local[b] : c \notin local[Main] \/ (c \in Requests /\ UnderWay(c))} ELSE {}

ApplyDelete(r, ok) ==
    LET deleted == ok /\ Branch(r) \in DOMAIN local /\ head # Branch(r)
    IN  /\ At(r, "applyDelete") /\ Outcome(ok)
        /\ local' = IF deleted THEN Without(local, Branch(r)) ELSE local
        /\ astray' = astray \cup Unmerged(Branch(r), local')
        /\ IF deleted THEN Continue(r, "pushMain") ELSE End(r, FALSE)
        /\ UNCHANGED <<aside, head, dirty, fetched, tracked, origin, upstream, meant, dropped>>

PushOriginMain(r, ok) ==
    /\ At(r, "pushMain") /\ Outcome(ok)
    /\ origin' = IF ok THEN [origin EXCEPT ![Main] = local[Main]] ELSE origin
    /\ tracked' = IF ok THEN [tracked EXCEPT ![Main] = local[Main]] ELSE tracked
    /\ End(r, FALSE)
    /\ UNCHANGED <<aside, local, head, dirty, fetched, upstream, meant, dropped, astray>>

-----------------------------------------------------------------------------
(* PushWithSync: main to upstream and to origin, each with one pull and one   *)
(* more try when it is refused.                                               *)

RemoteMain(r) == IF jobs[r].remote = "upstream" THEN upstream ELSE origin[Main]

\* On to the other remote, or done.  A mutation of which a push failed is
\* answered with an error, `wl merge` ends well all the same.
NextRemote(r, failed) ==
    IF jobs[r].remote = "upstream"
    THEN /\ jobs' = [jobs EXCEPT ![r].pc = "push", ![r].remote = "origin", ![r].failed = failed]
         /\ UNCHANGED <<holder, acked>>
    ELSE End(r, Is(r, {"mutate", "revert"}) /\ ~failed)

PushRemote(r, ok) ==
    LET pushed == ok /\ RemoteMain(r) \subseteq local[Main]
        up == jobs[r].remote = "upstream"
    IN  /\ jobs[r].pc \in {"push", "pushAgain"} /\ Outcome(ok)
        /\ upstream' = IF pushed /\ up THEN local[Main] ELSE upstream
        /\ fetched' = IF pushed /\ up THEN local[Main] ELSE fetched
        /\ origin' = IF pushed /\ ~up THEN [origin EXCEPT ![Main] = local[Main]] ELSE origin
        /\ tracked' = IF pushed /\ ~up THEN [tracked EXCEPT ![Main] = local[Main]] ELSE tracked
        /\ CASE pushed -> NextRemote(r, jobs[r].failed)
             [] ~pushed /\ At(r, "push") -> Continue(r, "pullRemote")
             [] OTHER -> NextRemote(r, TRUE)
        /\ UNCHANGED <<aside, local, head, dirty, meant, dropped, astray>>

\* `dolt pull <remote> main` merges into what is checked out.
Pulled(remoteMain) ==
    local' = [local EXCEPT ![head] = @ \cup remoteMain]

PullRemote(r, ok) ==
    /\ At(r, "pullRemote") /\ OutcomeOverDirt(ok)
    /\ IF ok THEN Pulled(RemoteMain(r)) /\ Continue(r, "pushAgain")
       ELSE UNCHANGED local /\ NextRemote(r, TRUE)
    /\ UNCHANGED <<aside, head, dirty, fetched, tracked, origin, upstream, meant, dropped, astray>>

-----------------------------------------------------------------------------
(* Commands of processes of their own: they take no client's mutex. *)

\* `wl merge` looks for the branch and checks out main ...
MergeCommand(r, ok) ==
    /\ At(r, "asked") /\ Is(r, {"merge"}) /\ OutcomeOverDirt(ok)
    /\ IF ok /\ Branch(r) \in DOMAIN local
       THEN head' = Main /\ Continue(r, "merge")
       ELSE UNCHANGED head /\ End(r, FALSE)
    /\ UNCHANGED <<aside, local, dirty, fetched, tracked, origin, upstream, meant, dropped, astray>>

\* ... merges ...
MergeBranch(r, ok) ==
    LET merged == ok /\ Branch(r) \in DOMAIN local
    IN  /\ At(r, "merge") /\ Is(r, {"merge"}) /\ OutcomeOverDirt(ok)
        /\ Merged(r, merged)
        /\ IF merged THEN Continue(r, "mergeDelete") ELSE End(r, FALSE)
        /\ UNCHANGED <<aside, head, dirty, fetched, tracked, origin, upstream, dropped, astray>>

\* ... and drops the branch, unless told to keep it, before it pushes.
MergeDelete(r, drop, ok) ==
    /\ At(r, "mergeDelete") /\ Outcome(ok)
    /\ local' = IF drop /\ ok /\ head # Branch(r) THEN Without(local, Branch(r)) ELSE local
    /\ astray' = astray \cup Unmerged(Branch(r), local')
    /\ Continue(r, "push")
    /\ UNCHANGED <<aside, head, dirty, fetched, tracked, origin, upstream, meant, dropped>>

\* `wl sync`, and what `wl browse` does first, pull whatever the mode.
PullUpstream(r, ok) ==
    /\ At(r, "asked") /\ Is(r, {"pull"}) /\ OutcomeOverDirt(ok)
    /\ IF ok THEN Pulled(upstream) /\ fetched' = upstream ELSE UNCHANGED <<local, fetched>>
    /\ End(r, FALSE)
    /\ UNCHANGED <<aside, head, dirty, tracked, origin, upstream, meant, dropped, astray>>

-----------------------------------------------------------------------------
(* LocalDB.Sync, which the SDK calls without the mutex. *)

SyncUnchanged == UNCHANGED <<cast, mode, opened, holder, jobs, acked, assured, meant, dropped,
                             origin, upstream>>

SyncPull(ok) ==
    /\ syncing = "no" /\ syncs < MaxSyncs /\ opened # "pr" /\ OutcomeOverDirt(ok)
    /\ syncs' = syncs + 1
    /\ IF ok THEN Pulled(upstream) /\ fetched' = upstream ELSE UNCHANGED <<local, fetched>>
    /\ UNCHANGED <<head, dirty, tracked, syncing, listed, astray, abandoned>> /\ SyncUnchanged

SyncFetch(ok) ==
    /\ syncing = "no" /\ syncs < MaxSyncs /\ opened = "pr" /\ Outcome(ok)
    /\ syncs' = syncs + 1
    /\ fetched' = IF ok THEN upstream ELSE fetched
    /\ syncing' = IF ok THEN "reset" ELSE "no"
    /\ UNCHANGED <<local, head, dirty, tracked, listed, astray, abandoned>> /\ SyncUnchanged

\* What a reset takes from a branch, and from main what is not on the branch
\* it was made on.
OnItsBranch(c) ==
    /\ c \in Requests /\ jobs[c].mode = "pr"
    /\ Branch(c) \in DOMAIN local /\ c \in local[Branch(c)]
Overwritten == {c \in local[head] \ fetched : head = Main => ~OnItsBranch(c)}

\* ResetMainToUpstream resets whatever is checked out, the working set too.
SyncReset(ok) ==
    /\ syncing = "reset" /\ Outcome(ok)
    /\ local' = IF ok THEN [local EXCEPT ![head] = fetched] ELSE local
    /\ dirty' = IF ok THEN {} ELSE dirty
    /\ astray' = IF ok THEN astray \cup Overwritten ELSE astray
    /\ syncing' = IF ok THEN "fetchOrigin" ELSE "no"
    /\ UNCHANGED <<head, fetched, tracked, listed, syncs, abandoned>> /\ SyncUnchanged

\* Errors from here on are ignored.
SyncFetchOrigin(ok) ==
    /\ syncing = "fetchOrigin" /\ Outcome(ok)
    /\ tracked' = IF ok THEN origin ELSE tracked
    /\ syncing' = "list"
    /\ UNCHANGED <<local, head, dirty, fetched, listed, syncs, astray, abandoned>> /\ SyncUnchanged

SyncList(ok) ==
    /\ syncing = "list" /\ Outcome(ok)
    /\ listed' = IF ok THEN DOMAIN tracked \ {Main} ELSE {}
    /\ syncing' = IF listed' = {} THEN "no" ELSE "track"
    /\ UNCHANGED <<local, head, dirty, fetched, tracked, syncs, astray, abandoned>> /\ SyncUnchanged

\* TrackOriginBranches: a local branch for every remote one; local branches
\* without a remote one are pruned.  What is pruned in the middle of a mutation,
\* or although the fork has the branch, goes astray; the rest was never pushed.
TrackOriginBranches ==
    LET new == (listed \ DOMAIN local) \cap DOMAIN tracked
        pruned == DOMAIN local \ (listed \cup {Main, head})
        raced == {b \in pruned : b \in DOMAIN origin \/ \E r \in ChangesOf(b) : UnderWay(r)}
    IN  /\ syncing = "track"
        /\ local' = [b \in (DOMAIN local \cup new) \ pruned |->
                       IF b \in new THEN tracked[b] ELSE local[b]]
        /\ astray' = astray \cup UNION {local[b] : b \in raced}
        /\ abandoned' = abandoned \cup UNION {local[b] : b \in pruned \ raced}
        /\ syncing' = "no" /\ listed' = {}
        /\ UNCHANGED <<head, dirty, fetched, tracked, syncs, faults>> /\ SyncUnchanged

-----------------------------------------------------------------------------
(* The rest of the world. *)

CloneUnchanged == UNCHANGED <<aside, local, head, dirty, fetched, tracked, holder, jobs, faults,
                              acked, meant, dropped, astray>>

\* A pull request of the fork is merged upstream.
PullRequestMerged(b) ==
    /\ b \in DOMAIN origin \ {Main}
    /\ ~(origin[b] \subseteq upstream)
    /\ upstream' = upstream \cup origin[b]
    /\ UNCHANGED origin /\ CloneUnchanged

\* Another rig's change reaches upstream.
OtherRig(o) ==
    /\ o \notin upstream
    /\ upstream' = upstream \cup {o}
    /\ UNCHANGED origin /\ CloneUnchanged

\* The hosted application writes on a branch of the same fork.
HostedCommit(b, o) ==
    /\ o \notin upstream \cup UNION {origin[x] : x \in DOMAIN origin}
    /\ origin' = With(origin, b, origin[IF b \in DOMAIN origin THEN b ELSE Main] \cup {o})
    /\ UNCHANGED upstream /\ CloneUnchanged

-----------------------------------------------------------------------------
CommandStep(r, ok) ==
    \/ CreateBranch(r, ok) \/ Checkout(r, ok) \/ ReturnToMain(r, ok) \/ PushBranch(r, ok)
    \/ \E effect \in {"none", "half", "all"} : Script(r, effect, ok)
    \/ DeleteBranch(r, ok) \/ DeleteRemoteBranch(r, ok)
    \/ ApplyMerge(r, ok) \/ ApplyDelete(r, ok) \/ PushOriginMain(r, ok)
    \/ PushRemote(r, ok) \/ PullRemote(r, ok)
    \/ MergeCommand(r, ok) \/ MergeBranch(r, ok)
    \/ \E drop \in BOOLEAN : MergeDelete(r, drop, ok)
    \/ PullUpstream(r, ok)

SyncStep(ok) == SyncPull(ok) \/ SyncFetch(ok) \/ SyncReset(ok) \/ SyncFetchOrigin(ok) \/ SyncList(ok)

CloneNext ==
    \/ \E r \in Requests : Begin(r) \/ AnswerFromBranch(r)
    \/ \E r \in Requests, m \in Modes, ok \in BOOLEAN : SaveSettings(r, m, ok)
    \/ \E r \in Requests, ok \in BOOLEAN : CommandStep(r, ok)
    \/ \E ok \in BOOLEAN : SyncStep(ok)
    \/ TrackOriginBranches
    \/ \E b \in Branches : PullRequestMerged(b)
    \/ \E o \in Others : OtherRig(o)
    \/ \E b \in Branches, o \in Others : HostedCommit(b, o)

CloneSpec == CloneInit /\ [][CloneNext]_localVars

-----------------------------------------------------------------------------
(* What is claimed. *)

OnTheFork == UNION {origin[b] : b \in DOMAIN origin}
InTheClone == UNION {local[b] : b \in DOMAIN local}

\* A mutation that was answered as pushed is on the fork or upstream - in
\* wild-west mode upstream - until its branch is discarded or reverted
\* (sdk/mutate.go:36, 61).  Branches are force-pushed, reset and pruned along
\* the way; the one way to lose work is that an actor without the mutex, a Sync
\* or another process, moved it: it reset, pruned or deleted the branch in the
\* middle of a mutation or with a list out of date, or checked out another one
\* under its script, or it reset main where only main had what was merged.
\*
\* A mutation that was answered from its branch (prIdempotent) has only the
\* clone to rely on: the change it was told of may never have been pushed, and
\* then the Sync after the next prunes it.
AcknowledgedIsKept ==
    /\ \A r \in acked :
          r \in upstream \cup dropped \cup astray \/ (jobs[r].mode = "pr" /\ r \in OnTheFork)
    /\ assured \subseteq upstream \cup InTheClone \cup dropped \cup astray \cup abandoned

\* "Used in PR mode where main should always mirror upstream exactly"
\* (commons/dolt.go:121): nothing that upstream has not got comes onto the local
\* main but what was asked for there - by a wild-west mutation, a `wl merge` or
\* ApplyBranch, which does not ask for the mode - whatever commands of a
\* mutation fail, unless another process checked out main under a script or a
\* later commit took along what a failed script left uncommitted.
MainMirrorsUpstream == local[Main] \subseteq upstream \cup astray \cup meant
=============================================================================
