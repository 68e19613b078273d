------------------------------- MODULE Board -------------------------------
(***************************************************************************)
(* What a rig is promised of its mutations of the wanted item, with no     *)
(* branches, statements or mutex in sight: next to main, the board as its  *)
(* fork has it, the rig has at most one proposal, the board as it would    *)
(* like it to be.  Every operation takes effect as a whole, at one instant *)
(* between its request and its answer and on the proposal as it is at that *)
(* instant, or it is refused and has no effect.                            *)
(*                                                                         *)
(* A proposal whose status is that of main is no proposal: it is taken     *)
(* back, with whatever else it says.                                       *)
(***************************************************************************)
CONSTANTS
    Rigs,      \* rig handles
    None,      \* nobody, and no stamp
    Boards,    \* rows of the item: status, claimedBy, text, completions and stamps
    Requests,  \* requests in flight at a time
    Owner,     \* [Requests -> Rigs]: who issues them
    Absent     \* no proposal

Adoptions == {"accept-upstream", "close-upstream"}
Changes == {"post", "update", "claim", "unclaim", "done", "accept", "reject",
            "close", "delete"} \cup Adoptions
Operations == Changes \cup {"discard", "submit-pr"}

VARIABLES
    main,      \* [Rigs -> Boards]
    proposal,  \* [Rigs -> Boards or Absent]
    request    \* [Requests -> Operations, or what has become of it]

vars == <<main, proposal, request>>

Init ==
    /\ main \in [Rigs -> Boards]
    /\ proposal = [r \in Rigs |-> Absent]
    /\ request = [s \in Requests |-> "none"]

-----------------------------------------------------------------------------
(* What the operations make of a board t, when rig r requests them.        *)

\* The life cycle of the item; submissions are adopted whatever its status.
Moves(op, r, t) ==
    CASE op = "post"                        -> t.status = "none"
      [] op \in {"update", "claim", "delete"}  -> t.status = "open"
      [] op = "unclaim"                     -> t.status = "claimed"
      [] op = "done"                        -> t.status = "claimed" /\ t.claimedBy = r
      [] op \in {"accept", "reject", "close"}  -> t.status = "in_review"
      [] op \in Adoptions                   -> t.status # "none"

After(op, r, t) ==
    IF ~Moves(op, r, t) THEN t.status
    ELSE CASE op \in {"post", "update", "unclaim"}          -> "open"
           [] op \in {"claim", "reject"}                    -> "claimed"
           [] op = "done"                                   -> "in_review"
           [] op \in {"accept", "close"} \cup Adoptions     -> "completed"
           [] op = "delete"                                 -> "withdrawn"

\* An accepted completion names the stamp that was made for it.
Stamped(completions, x) ==
    {IF c.id = x.context THEN [c EXCEPT !.stamp = x.id] ELSE c : c \in completions}

(* Operation op of rig r makes u of t: c is the submission that is made or *)
(* adopted, x the stamp.                                                   *)
Makes(op, r, t, u) ==
    /\ u.status = After(op, r, t)
    /\ u.text = CASE op = "post" /\ Moves(op, r, t)   -> "posted"
                  [] op = "update" /\ Moves(op, r, t) -> "edited"
                  [] OTHER                            -> t.text
    /\ IF op \in Adoptions THEN \E c \in u.completions : u.claimedBy = c.by
       ELSE u.claimedBy = CASE op = "claim" /\ Moves(op, r, t)   -> r
                            [] op = "unclaim" /\ Moves(op, r, t) -> None
                            [] OTHER                             -> t.claimedBy
    /\ CASE op = "done" /\ Moves(op, r, t) ->
              \E c \in u.completions : c.by = r /\ c.stamp = None /\ u.completions = {c}
         [] op = "reject" -> u.completions = {}
         [] op = "accept" ->
              \E x \in u.stamps \ t.stamps : x.author = r /\ u.completions = Stamped(t.completions, x)
         [] op = "close-upstream" ->
              \E c \in u.completions : c.stamp = None /\ u.completions = {c}
         [] op = "accept-upstream" ->
              \E c \in u.completions, x \in u.stamps \ t.stamps :
                 /\ x.author = r /\ x.subject = c.by /\ x.context = c.id /\ c.stamp = x.id
                 /\ u.completions = {c}
         [] OTHER -> u.completions = t.completions
    /\ IF op \in {"accept", "accept-upstream"}
       THEN \E x \in u.stamps \ t.stamps : u.stamps = t.stamps \cup {x}
       ELSE u.stamps = t.stamps

-----------------------------------------------------------------------------
(* The life of a request.                                                  *)

Becomes(s, state) == request' = [request EXCEPT ![s] = state]

\* What s asks is done to.
Tip(r) == IF proposal[r] = Absent THEN main[r] ELSE proposal[r]

TakenBack(r) == proposal' = [proposal EXCEPT ![r] = Absent]

Ask(s) ==
    /\ request[s] = "none"
    /\ request'[s] \in Operations /\ Becomes(s, request'[s])
    /\ UNCHANGED <<main, proposal>>

Change(s) ==
    LET r == Owner[s]
        op == request[s] IN
    /\ op \in Changes /\ Becomes(s, "made")
    /\ IF After(op, r, Tip(r)) \in {"none", main[r].status}
       THEN TakenBack(r)
       ELSE /\ proposal'[r] \in Boards /\ Makes(op, r, Tip(r), proposal'[r])
            /\ proposal' = [proposal EXCEPT ![r] = proposal'[r]]
    /\ UNCHANGED main

\* The proposal is discarded; to delete an item that main has not is the same.
Discard(s) ==
    /\ \/ request[s] = "discard"
       \/ request[s] = "delete" /\ main[Owner[s]].status = "none"
    /\ Becomes(s, "made") /\ TakenBack(Owner[s])
    /\ UNCHANGED main

\* To offer the proposal to the upstream changes nothing about it.
Offer(s) ==
    /\ request[s] = "submit-pr" /\ Becomes(s, "made")
    /\ UNCHANGED <<main, proposal>>

(* An adoption on a board without a submission may come to nothing, and be *)
(* answered as if it had been made.                                        *)
Lost(s) ==
    LET r == Owner[s] IN
    /\ request[s] \in Adoptions /\ Becomes(s, "made")
    /\ proposal[r] = Absent /\ main[r].completions = {}
    /\ UNCHANGED <<main, proposal>>

\* Refused: an error, or the answer that it was done before.
Refuse(s) ==
    /\ request[s] \in Operations /\ Becomes(s, "refused")
    /\ UNCHANGED <<main, proposal>>

Answer(s) ==
    /\ request[s] \in {"made", "refused"} /\ Becomes(s, "none")
    /\ UNCHANGED <<main, proposal>>

Next == \E s \in Requests :
    /\ request'[s] # request[s]
    /\ Ask(s) \/ Change(s) \/ Discard(s) \/ Offer(s) \/ Lost(s) \/ Refuse(s) \/ Answer(s)

Spec == Init /\ [][Next]_vars
=============================================================================
