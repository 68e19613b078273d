--------------------------- MODULE MCHostedClient ---------------------------
(* HostedClient with requests a1 and a2 of rig a and request b1 of rig b.  *)
EXTENDS HostedClient

CONSTANTS a, b, a1, a2, b1

OwnerOf == [s \in Sessions |-> IF s = b1 THEN b ELSE a]

(* The item as posted, as claimed by b, and as b has submitted it.          *)
Posted == [Empty EXCEPT !.status = "open", !.text = "posted"]
Claimed == [Posted EXCEPT !.status = "claimed", !.claimedBy = b]
InReview == [Claimed EXCEPT !.status = "in_review",
                            !.completions = {[id |-> 1, by |-> b, stamp |-> None]}]

(* Histories of the upstream, from which the forks were taken.             *)
FromPostToReview == <<Empty, Posted, Claimed, InReview>>
PostedAndSubmitted == <<Empty, Posted, InReview>>
PostedOnly == <<Posted>>
ClaimedOnly == <<Claimed>>
=============================================================================
