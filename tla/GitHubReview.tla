---------------------------- MODULE GitHubReview ----------------------------
(* Review of one branch wl/<rig>/<item> from the command line:              *)
(* `wl review --create-pr`, `wl approve` and `wl request-changes`,          *)
(* `wl merge` and `wl sync` (cmd/wl), over a local clone of the commons and *)
(* a fork on GitHub or DoltHub, or without a clone, by DoltHub's API, over  *)
(* the fork alone ("remote": the branch is the fork's).  On GitHub the pull request is a shell: a   *)
(* git branch of the same name holds nothing but a marker file with the     *)
(* rendered diff, beside the dolt branch that is the submission.            *)
(*                                                                          *)
(* One command runs at a time and may fail or be killed at any step; other  *)
(* programs change the branch, reviewers and maintainers act meanwhile.     *)
(* What a branch holds is the number of changes made to it so far.          *)
EXTENDS Integers, FiniteSets, Sequences, SequencesExt

CONSTANTS
    Reviewers,
    Elsewhere,        \* commits that other maintainers push to upstream's main
    NoCopy,           \* no branch, no pull request, nothing rendered yet
    MaxChanges,       \* bound: changes to the branch
    MaxReviewFaults,  \* bound: calls that fail
    MaxVerdicts,      \* bound: reviews of a pull request
    MaxShells         \* bound: commands

ASSUME ReviewAssumption == {MaxChanges, MaxReviewFaults, MaxVerdicts, MaxShells} \subseteq Nat

VARIABLES
    provider,         \* "github", "dolthub", or "remote"
    work,             \* the local branch: a number of changes, or NoCopy
    pushed,           \* the dolt branch on the fork
    marker,           \* on GitHub, the marker file on the fork's git branch
    pull,             \* the open pull request: [body, reviews], or NoCopy
    localMain,        \* what was merged into the local main
    upstreamMain, forkMain,
    shell,            \* the command running
    changes, reviewFaults, shells,
    shown,            \* ghost: what the pull request that a create announced was to show,
                      \* [head, body, updated, edited], or NoCopy
    saved             \* ghost: [merged, synced], a merge that was not pushed, or NoCopy

remotes == <<pushed, marker, pull, upstreamMain, forkMain>>
reviewVars == <<provider, work, remotes, localMain, shell, changes, reviewFaults, shells, shown, saved>>

NoShell == [at |-> "prompt"]

\* What a diff that fails is rendered as; the first change makes a branch.
NoChanges == 0

ReviewInit ==
    /\ provider \in {"github", "dolthub", "remote"}
    /\ work = 1 /\ pushed = (IF provider = "remote" THEN work ELSE NoCopy) /\ marker = NoCopy /\ pull = NoCopy
    /\ localMain = {} /\ upstreamMain = {} /\ forkMain = {}
    /\ shell = NoShell /\ changes = 1 /\ reviewFaults = 0 /\ shells = 0
    /\ shown = NoCopy /\ saved = NoCopy

-----------------------------------------------------------------------------
(* The steps of a command. *)

AtStep(at) == shell.at = at /\ UNCHANGED <<provider, changes, shells>>
Turn(at) == shell' = [shell EXCEPT !.at = at]
Exit == shell' = NoShell

CallFails == reviewFaults < MaxReviewFaults /\ reviewFaults' = reviewFaults + 1
CallWorks == UNCHANGED reviewFaults

\* A call whose failure ends the command.
OrExit == CallFails /\ Exit /\ UNCHANGED <<work, remotes, localMain, shown, saved>>

Run(at, options) ==
    /\ shell = NoShell /\ shells < MaxShells /\ shells' = shells + 1
    /\ shell' = [at |-> at, head |-> NoCopy, body |-> NoCopy, edited |-> FALSE, options |-> options,
                 remote |-> "upstream", failed |-> FALSE, warned |-> FALSE]
    /\ shown' = NoCopy
    /\ UNCHANGED <<provider, work, remotes, localMain, changes, reviewFaults, saved>>

Killed == /\ shell # NoShell /\ CallFails /\ Exit
          /\ UNCHANGED <<provider, work, remotes, localMain, changes, shells, shown, saved>>

(* FindPR: an error counts as no pull request. *)
FindPR == {pull # NoCopy} \cup IF reviewFaults < MaxReviewFaults THEN {FALSE} ELSE {}
Finding(found) == IF found = (pull # NoCopy) THEN CallWorks ELSE CallFails

-----------------------------------------------------------------------------
(* wl review --create-pr: runGitHubPR, runDoltHubPR, and createPRForBranch,   *)
(* by which the terminal interface does the same.                             *)

CreateCommand == provider # "remote" /\ Run("pushForce", {})

(* createPRForBranchRemote: the branch is on the fork already. *)
RemoteCreateCommand == provider = "remote" /\ Run("diff", {})

\* A diff of a branch that is there, or a failure.
Diff(branch, body) ==
    /\ body \in {branch, NoChanges} \ {NoCopy}
    /\ IF body = branch \/ branch = NoCopy THEN CallWorks ELSE CallFails

(* RemoteDB.Diff; an error leaves the body empty. *)
RemoteDiff ==
    /\ AtStep("diff")
    /\ \E body \in {pushed, NoChanges} :
          /\ Diff(pushed, body)
          /\ shell' = [shell EXCEPT !.at = "open", !.head = pushed, !.body = body, !.edited = FALSE]
    /\ UNCHANGED <<work, remotes, localMain, shown, saved>>

PushBranchForce ==
    /\ AtStep("pushForce")
    /\ \/ /\ work # NoCopy /\ CallWorks /\ pushed' = work
          /\ shell' = [shell EXCEPT !.at = "render", !.head = work, !.edited = FALSE]
          /\ UNCHANGED <<work, marker, pull, upstreamMain, forkMain, localMain, shown, saved>>
       \/ work = NoCopy /\ CallWorks /\ Exit /\ UNCHANGED <<work, remotes, localMain, shown, saved>>
       \/ OrExit

(* A diff that fails is rendered as no changes. *)
renderMarkdownDiff ==
    /\ AtStep("render")
    /\ \E body \in {work, NoChanges} :
          /\ Diff(work, body)
          /\ shell' = [shell EXCEPT !.body = body, !.at = IF provider = "github" THEN "objects" ELSE "open"]
    /\ UNCHANGED <<work, remotes, localMain, shown, saved>>

(* createGitHubPR, steps 1 to 5: objects that nothing refers to yet. *)
CreateObjects ==
    /\ AtStep("objects")
    /\ \/ CallWorks /\ Turn("ref") /\ UNCHANGED <<work, remotes, localMain, shown, saved>>
       \/ OrExit

\* Faulty: a ref that exists already is left as it is.
PointRefOnce == IF marker = NoCopy THEN shell.body ELSE marker

(* Step 6: CreateRef, or else UpdateRef. *)
PointRef == shell.body

CreateRef ==
    /\ AtStep("ref")
    /\ \/ /\ CallWorks /\ marker' = PointRef /\ Turn("find")
          /\ UNCHANGED <<work, pushed, pull, upstreamMain, forkMain, localMain, shown, saved>>
       \/ OrExit

(* Step 7. *)
FindBeforeCreate ==
    /\ provider = "github" /\ AtStep("find")
    /\ \E found \in FindPR : Finding(found) /\ Turn(IF found THEN "update" ELSE "open")
    /\ UNCHANGED <<work, remotes, localMain, shown, saved>>

\* The caller is told of the pull request, as one that shows what was rendered.
Announced(updated) ==
    shown' = [head |-> shell.head, body |-> shell.body, updated |-> updated, edited |-> shell.edited]

\* Both hubs refuse a second pull request from one branch, and one from no branch.
OpenSucceeds(head) ==
    /\ pull = NoCopy /\ head # NoCopy /\ CallWorks /\ Exit
    /\ pull' = [body |-> shell.body, reviews |-> << >>]
    /\ Announced(TRUE)

OpenFails(head) ==
    /\ IF head = NoCopy \/ pull # NoCopy THEN CallWorks ELSE CallFails
    /\ Exit /\ UNCHANGED <<pull, shown>>

CreateGitHubPR ==
    /\ provider = "github" /\ AtStep("open")
    /\ OpenSucceeds(marker) \/ OpenFails(marker)
    /\ UNCHANGED <<work, pushed, marker, upstreamMain, forkMain, localMain, saved>>

(* runDoltHubPR and createPRForBranchRemote: of "already exists" the pull     *)
(* request is looked for only then, and updated if it is found.               *)
CreateDoltHubPR ==
    /\ provider # "github" /\ AtStep("open")
    /\ \/ OpenSucceeds(pushed)
       \/ pull = NoCopy /\ OpenFails(pushed)
       \/ pull # NoCopy /\ CallWorks /\ Turn("find") /\ UNCHANGED <<pull, shown>>
       \/ pull # NoCopy /\ CallFails /\ Exit /\ UNCHANGED <<pull, shown>>
    /\ UNCHANGED <<work, pushed, marker, upstreamMain, forkMain, localMain, saved>>

FindExisting ==   \* if none is found, the page of all pull requests is named
    /\ provider # "github" /\ AtStep("find")
    /\ \E found \in FindPR : Finding(found) /\ IF found THEN Turn("update") ELSE Exit
    /\ UNCHANGED <<work, remotes, localMain, shown, saved>>

(* The pull request is announced also when the update fails: runDoltHubPR     *)
(* warns, the others ignore the error.  It may be closed by now.              *)
UpdatePR ==
    /\ AtStep("update") /\ Exit
    /\ \/ /\ CallWorks /\ Announced(TRUE)
          /\ pull' = IF pull = NoCopy THEN NoCopy ELSE [pull EXCEPT !.body = shell.body]
       \/ CallFails /\ Announced(FALSE) /\ UNCHANGED pull
    /\ UNCHANGED <<work, pushed, marker, upstreamMain, forkMain, localMain, saved>>

-----------------------------------------------------------------------------
(* wl approve and wl request-changes, by whoever is logged in to gh.          *)

submitPRReview(r, event) ==
    /\ provider = "github" /\ pull # NoCopy
    /\ Len(pull.reviews) < MaxVerdicts
    /\ pull' = [pull EXCEPT !.reviews = Append(@, [by |-> r, state |-> event])]
    /\ UNCHANGED <<provider, work, pushed, marker, upstreamMain, forkMain, localMain, shell, changes,
                   reviewFaults, shells, shown, saved>>

(* The latest verdict of each reviewer counts. *)
parseReviewStatus(reviews) ==
    LET latest == FoldLeft(LAMBDA by, review : [by EXCEPT ![review.by] = review.state],
                           [r \in Reviewers |-> "none"], reviews)
    IN [hasApproval |-> \E r \in Reviewers : latest[r] = "APPROVED",
        hasChangesRequested |-> \E r \in Reviewers : latest[r] = "CHANGES_REQUESTED"]

prApprovalStatus(reviews, found) ==
    IF found THEN parseReviewStatus(reviews) ELSE [hasApproval |-> FALSE, hasChangesRequested |-> FALSE]

mergeApprovalWarning(status) ==
    IF status.hasChangesRequested THEN "PR has outstanding change requests"
    ELSE IF ~status.hasApproval THEN "PR has no approvals" ELSE ""

-----------------------------------------------------------------------------
(* wl merge.  A merge of no branch, and one in conflict, is refused.          *)

MergeCommand ==
    \E options \in SUBSET {"--keep-branch", "--no-push"} :
        /\ work # NoCopy /\ (provider = "remote" => "--no-push" \notin options)
        /\ Run(CASE provider = "github" -> "approval" [] provider = "dolthub" -> "merge"
                 [] OTHER -> "mergeRemote", options)

(* runMergeRemote: into the fork's main, and no further. *)
MergeRemote ==
    /\ AtStep("mergeRemote")
    /\ \/ /\ pushed # NoCopy /\ CallWorks /\ forkMain' = forkMain \cup {pushed}
          /\ IF "--keep-branch" \in shell.options THEN Exit ELSE Turn("deleteRemote")
          /\ UNCHANGED <<work, pushed, marker, pull, upstreamMain, localMain, shown, saved>>
       \/ pushed = NoCopy /\ CallWorks /\ Exit /\ UNCHANGED <<work, remotes, localMain, shown, saved>>
       \/ OrExit

DeleteMergedRemote ==
    /\ AtStep("deleteRemote") /\ Exit
    /\ \/ CallWorks /\ work' = NoCopy /\ pushed' = NoCopy
       \/ CallFails /\ UNCHANGED <<work, pushed>>
    /\ UNCHANGED <<marker, pull, upstreamMain, forkMain, localMain, shown, saved>>

(* An error of FindPR or of ListReviews counts as no reviews. *)
CheckApproval ==
    /\ AtStep("approval")
    /\ \E found \in FindPR :
          LET verdicts == IF found /\ pull # NoCopy THEN pull.reviews ELSE << >>
          IN /\ Finding(found)
             /\ shell' = [shell EXCEPT !.at = "merge",
                          !.warned = mergeApprovalWarning(prApprovalStatus(verdicts, found)) # ""]
    /\ UNCHANGED <<work, remotes, localMain, shown, saved>>

Merge ==
    /\ AtStep("merge")
    /\ \/ /\ work # NoCopy /\ CallWorks
          /\ localMain' = localMain \cup {work}
          /\ shell' = [shell EXCEPT !.body = work,
                       !.at = IF "--keep-branch" \in shell.options THEN "push" ELSE "delete"]
          /\ UNCHANGED <<work, remotes, shown, saved>>
       \/ work = NoCopy /\ CallWorks /\ Exit /\ UNCHANGED <<work, remotes, localMain, shown, saved>>
       \/ OrExit

DeleteBranch ==
    /\ AtStep("delete") /\ Turn("push")
    /\ \/ CallWorks /\ work' = NoCopy
       \/ CallFails /\ UNCHANGED work
    /\ UNCHANGED <<remotes, localMain, shown, saved>>

\* On GitHub the command goes on to close the pull request.
EndPush(failed) ==
    /\ IF provider = "github" THEN Turn("findMerged") ELSE Exit
    /\ saved' = IF failed THEN [merged |-> shell.body, synced |-> FALSE] ELSE saved

AfterMerge ==
    /\ AtStep("push") /\ "--no-push" \in shell.options
    /\ CallWorks /\ EndPush(FALSE) /\ UNCHANGED <<work, remotes, localMain, shown>>

(* PushWithSync: to upstream, then to the fork; each pushed, or else pulled   *)
(* and pushed once more.  A push is refused if the remote has something that  *)
(* the local main has not.                                                    *)
NextRemote(failed) ==
    IF shell.remote = "upstream"
    THEN /\ shell' = [shell EXCEPT !.at = "push", !.remote = "origin", !.failed = failed]
         /\ UNCHANGED saved
    ELSE EndPush(failed)

PushMain ==
    LET theirs == IF shell.remote = "upstream" THEN upstreamMain ELSE forkMain
    IN /\ shell.at \in {"push", "pushAgain"} /\ AtStep(shell.at) /\ "--no-push" \notin shell.options
       /\ \/ /\ theirs \subseteq localMain /\ CallWorks
             /\ IF shell.remote = "upstream" THEN upstreamMain' = localMain /\ UNCHANGED forkMain
                ELSE forkMain' = localMain /\ UNCHANGED upstreamMain
             /\ NextRemote(shell.failed)
          \/ /\ IF theirs \subseteq localMain THEN CallFails ELSE CallWorks
             /\ UNCHANGED <<upstreamMain, forkMain>>
             /\ IF shell.at = "push" THEN Turn("pull") /\ UNCHANGED saved ELSE NextRemote(TRUE)
       /\ UNCHANGED <<work, pushed, marker, pull, localMain, shown>>

PullMain ==
    /\ AtStep("pull")
    /\ \/ /\ CallWorks /\ Turn("pushAgain") /\ UNCHANGED saved
          /\ localMain' = localMain \cup IF shell.remote = "upstream" THEN upstreamMain ELSE forkMain
       \/ CallFails /\ NextRemote(TRUE) /\ UNCHANGED localMain
    /\ UNCHANGED <<work, remotes, shown>>

(* closeGitHubPR, which a failed push does not keep away from. *)
FindMerged ==
    /\ AtStep("findMerged")
    /\ \E found \in FindPR : Finding(found) /\ IF found THEN Turn("close") ELSE Exit
    /\ UNCHANGED <<work, remotes, localMain, shown, saved>>

ClosePR ==
    /\ AtStep("close")
    /\ \/ CallWorks /\ pull' = NoCopy /\ Turn("deleteRef")
       \/ CallFails /\ UNCHANGED pull /\ Exit
    /\ UNCHANGED <<work, pushed, marker, upstreamMain, forkMain, localMain, shown, saved>>

DeleteRef ==
    /\ AtStep("deleteRef") /\ Exit
    /\ \/ CallWorks /\ marker' = NoCopy
       \/ CallFails /\ UNCHANGED marker
    /\ UNCHANGED <<work, pushed, pull, upstreamMain, forkMain, localMain, shown, saved>>

-----------------------------------------------------------------------------
(* wl sync: dolt pull upstream main. *)

SyncCommand == provider # "remote" /\ Run("sync", {})

PullUpstream ==
    /\ AtStep("sync") /\ Exit
    /\ \/ /\ CallWorks /\ localMain' = localMain \cup upstreamMain
          /\ saved' = IF saved = NoCopy THEN NoCopy ELSE [saved EXCEPT !.synced = TRUE]
       \/ CallFails /\ UNCHANGED <<localMain, saved>>
    /\ UNCHANGED <<work, remotes, shown>>

-----------------------------------------------------------------------------
(* Other programs and people. *)

Elsewise == UNCHANGED <<provider, localMain, reviewFaults, shells, saved>>

\* Both what a create under way and what the last one presented is of the past.
Overtaken == /\ shell' = IF shell = NoShell THEN shell ELSE [shell EXCEPT !.edited = TRUE]
             /\ shown' = IF shown = NoCopy THEN NoCopy ELSE [shown EXCEPT !.edited = TRUE]

\* A mutation commits to the branch, and pushes it if it can.
ChangeBranch ==
    /\ changes < MaxChanges /\ changes' = changes + 1
    /\ work' = changes' /\ pushed' \in {changes'} \cup IF provider = "remote" THEN {} ELSE {pushed}
    /\ Overtaken /\ Elsewise /\ UNCHANGED <<marker, pull, upstreamMain, forkMain>>

(* A discard deletes it here and there, and its pull request by               *)
(* closePRForBranch, each as far as it goes; the marker's branch stays.       *)
BranchDiscarded ==
    /\ work # NoCopy /\ work' = NoCopy
    /\ pushed' \in {NoCopy} \cup IF provider = "remote" THEN {} ELSE {pushed}
    /\ pull' \in {pull, NoCopy}
    /\ Overtaken /\ Elsewise /\ UNCHANGED <<changes, marker, upstreamMain, forkMain>>

\* A maintainer closes the pull request; DoltHub can also merge it.
PullEnds ==
    /\ pull # NoCopy /\ pull' = NoCopy
    /\ upstreamMain' \in {upstreamMain} \cup
          IF provider # "github" THEN {upstreamMain \cup ({pushed} \ {NoCopy})} ELSE {}
    /\ Elsewise /\ UNCHANGED <<work, pushed, marker, forkMain, shell, changes, shown>>

OthersPush ==
    /\ \E e \in Elsewhere \ upstreamMain : upstreamMain' = upstreamMain \cup {e}
    /\ Elsewise /\ UNCHANGED <<work, pushed, marker, pull, forkMain, shell, changes, shown>>

ReviewNext ==
    \/ CreateCommand \/ PushBranchForce \/ renderMarkdownDiff \/ CreateObjects \/ CreateRef
    \/ FindBeforeCreate \/ CreateGitHubPR \/ UpdatePR
    \/ RemoteCreateCommand \/ RemoteDiff \/ CreateDoltHubPR \/ FindExisting
    \/ \E r \in Reviewers, event \in {"APPROVED", "CHANGES_REQUESTED"} : submitPRReview(r, event)
    \/ MergeCommand \/ MergeRemote \/ DeleteMergedRemote \/ CheckApproval \/ Merge \/ DeleteBranch
    \/ AfterMerge \/ PushMain \/ PullMain \/ FindMerged \/ ClosePR \/ DeleteRef
    \/ SyncCommand \/ PullUpstream \/ Killed
    \/ ChangeBranch \/ BranchDiscarded \/ PullEnds \/ OthersPush

ReviewSpec == ReviewInit /\ [][ReviewNext]_reviewVars

-----------------------------------------------------------------------------
(* The pull request that `wl review --create-pr` announces shows what was     *)
(* rendered: while it is open and no other command has been run, the marker   *)
(* file is the diff, and so is the body unless the update of an existing pull *)
(* request failed, which is announced like one that worked; the diff is that  *)
(* of the dolt branch on the fork, or "(no changes)" because it failed,       *)
(* unless somebody has changed the branch meanwhile - whatever earlier        *)
(* commands that failed or were killed at any step have left behind, and      *)
(* although an error of FindPR and one of CreateRef are read as "none" and    *)
(* "exists" (createGitHubPR, runDoltHubPR, createPRForBranchRemote).          *)
PresentedWhole ==
    shown # NoCopy /\ pull # NoCopy =>
        /\ shown.updated => pull.body = shown.body
        /\ provider = "github" => marker = shown.body
        /\ shown.edited \/ (pushed = shown.head /\ shown.body \in {shown.head, NoChanges})

(* "Push failed - merge saved locally. Run 'wl sync' to retry."               *)
(* (cmd/wl/cmd_merge.go): after a sync that worked the merge is upstream.     *)
SyncRetriesThePush ==
    saved # NoCopy /\ saved.synced => saved.merged \in upstreamMain
=============================================================================
