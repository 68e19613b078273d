--------------------------- MODULE MCHostedBoard ---------------------------
(* Two casts in one run: a request of each of two rigs at a time, and two   *)
(* requests of one rig at a time (double clicks and two tabs on its         *)
(* client's mutex).  A session that is not in the cast is away.  One of two *)
(* forks is of the upstream as it is, the other may be older.               *)
EXTENDS MCHostedClient

Away == [Sleeping EXCEPT !.answer = "kept"]

Without(s) == session = [t \in Sessions |-> IF t = s THEN Away ELSE Sleeping]

MCInit ==
    /\ RefsInit
    /\ \/ /\ Without(a2) /\ upstream \in {main[a], main[b]}
          /\ Claimed \notin {upstream} \cup {main[r] : r \in Rigs}
       \/ Without(b1) /\ main[b] = upstream

\* SubmitPR, which does not take the mutex, is beside another request in HostedSubmit.
\* Of two idle requests of one rig, which are alike, a1 begins.
Takes(s, op) ==
    /\ session[s] # Away
    /\ session[b1] = Away => op # "submit-pr" /\ (s = a2 => session[a1] # Sleeping)

\* What happens to the board after the last answer is nobody's concern.
Watched == requests < MaxRequests \/ \E s \in Sessions : session[s].pc # "idle"

MCNext ==
    \/ \E s \in Sessions, op \in Ops : \E q \in Submitters(op) : Takes(s, op) /\ Begin(s, op, q)
    \/ \E s \in Sessions : Step(s)
    \/ Watched /\ \E r \in Rigs : MergePR(r) \/ (RefreshListing(r) /\ listed' # listed)

MCSpec == MCInit /\ [][MCNext]_vars
=============================================================================
