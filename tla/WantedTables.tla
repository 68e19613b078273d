---------------------------- MODULE WantedTables ----------------------------
(***************************************************************************)
(* The rows that one wanted item has in the commons database (wanted,      *)
(* completions, stamps) and the DML statements of internal/commons that    *)
(* write them.  A statement is a value, so that a client can be stopped    *)
(* between two of them; Apply says what it does to the rows.               *)
(*                                                                         *)
(* Evidence, valences, messages, tags and time stamps are left out.  The   *)
(* editable fields of the item are one value, text.                        *)
(***************************************************************************)
EXTENDS Integers, FiniteSets, SequencesExt

CONSTANTS
    Rigs,  \* rig handles
    None   \* SQL NULL

ASSUME NullAssumption == None \notin Rigs /\ None \notin Nat

\* commons.WantedItem.Status; "none" stands for the absence of the row.
Present == {"open", "claimed", "in_review", "completed", "withdrawn"}
Status == Present \cup {"none"}

Completion == [id : Nat, by : Rigs, stamp : Nat \cup {None}]
Stamp == [id : Nat, author : Rigs, subject : Rigs, context : Nat]

Tables == [status : Status, claimedBy : Rigs \cup {None},
           text : {"none", "posted", "edited"},
           completions : SUBSET Completion, stamps : SUBSET Stamp]

Finite(t) == IsFiniteSet(t.completions) /\ IsFiniteSet(t.stamps)

(* The database before the item is posted. *)
Empty == [status |-> "none", claimedBy |-> None, text |-> "none",
          completions |-> {}, stamps |-> {}]

-----------------------------------------------------------------------------
(* Statements.                                                             *)

Statement ==
    [into : {"wanted"}, where : SUBSET Status, holders : SUBSET (Rigs \cup {None}),
     set : [status : Status] \cup [text : {"none", "posted", "edited"}]
           \cup [status : Status, claimedBy : Rigs \cup {None}]
           \cup [status : Status, text : {"none", "posted", "edited"}]
           \cup [status : Status, claimedBy : Rigs \cup {None},
                 text : {"none", "posted", "edited"}]]
    \cup [into : {"completions"}, do : {"delete"}]
    \cup [into : {"completions"}, do : {"insert", "submit"}, id : Nat, by : Rigs]
    \cup [into : {"completions"}, do : {"link"}, id : Nat, stamp : Nat]
    \cup [into : {"stamps"}, stamp : Stamp]

\* UPDATE wanted SET ... WHERE id = the item AND status IN where
\*                         AND claimed_by IN holders
UpdateHeld(where, holders, set) ==
    [into |-> "wanted", where |-> where, holders |-> holders, set |-> set]

Update(where, set) == UpdateHeld(where, Rigs \cup {None}, set)

\* Faulty: the claim does not look at the status.
ClaimAnyStatus(r) == Update(Present, [status |-> "claimed", claimedBy |-> r])

ClaimWantedDML(r) == Update({"open"}, [status |-> "claimed", claimedBy |-> r])
UnclaimWantedDML == Update({"claimed"}, [status |-> "open", claimedBy |-> None])
UpdateWantedDML == Update({"open"}, [text |-> "edited"])
DeleteWantedDML == Update({"open"}, [status |-> "withdrawn"])
CloseWantedDML == Update({"in_review"}, [status |-> "completed"])

\* INSERT INTO wanted: the id is random, so that the row is never there yet.
InsertWantedDML == Update({"none"}, [status |-> "open", text |-> "posted"])

\* DELETE FROM wanted WHERE id = the item
EraseWanted == Update(Present, [status |-> "none", claimedBy |-> None, text |-> "none"])

\* DELETE FROM completions WHERE wanted_id = the item
DeleteCompletions == [into |-> "completions", do |-> "delete"]

\* INSERT IGNORE INTO completions ... VALUES
InsertCompletion(id, by) ==
    [into |-> "completions", do |-> "insert", id |-> id, by |-> by]

\* INSERT IGNORE INTO completions ... SELECT ... FROM wanted WHERE
\* status='in_review' AND claimed_by=by AND NOT EXISTS a completion
SubmitIfInReview(id, by) ==
    [into |-> "completions", do |-> "submit", id |-> id, by |-> by]

\* UPDATE completions SET stamp_id=stamp WHERE id=id
LinkStamp(id, stamp) ==
    [into |-> "completions", do |-> "link", id |-> id, stamp |-> stamp]

InsertStamp(stamp) == [into |-> "stamps", stamp |-> stamp]

\* Record old with the fields of new.
Override(old, new) == [f \in DOMAIN old |-> IF f \in DOMAIN new THEN new[f] ELSE old[f]]

ApplyToCompletions(s, t) ==
    CASE s.do = "delete" -> {}
      [] s.do = "insert" ->
            t.completions \cup {[id |-> s.id, by |-> s.by, stamp |-> None]}
      [] s.do = "submit" ->
            IF t.status = "in_review" /\ t.claimedBy = s.by /\ t.completions = {}
            THEN {[id |-> s.id, by |-> s.by, stamp |-> None]}
            ELSE t.completions
      [] s.do = "link" ->
            {IF c.id = s.id THEN [c EXCEPT !.stamp = s.stamp] ELSE c : c \in t.completions}

(* The rows after statement s. *)
Apply(s, t) ==
    CASE s.into = "wanted" ->
            IF t.status \in s.where /\ t.claimedBy \in s.holders THEN Override(t, s.set) ELSE t
      [] s.into = "completions" -> [t EXCEPT !.completions = ApplyToCompletions(s, t)]
      [] s.into = "stamps" -> [t EXCEPT !.stamps = @ \cup {s.stamp}]

(* The rows after a whole script; none has more than five statements.      *)
Nth(script, i, t) == IF i <= Len(script) THEN Apply(script[i], t) ELSE t
Run(script, t) == Nth(script, 5, Nth(script, 4, Nth(script, 3, Nth(script, 2, Nth(script, 1, t)))))

-----------------------------------------------------------------------------
(* The scripts of the operations that take several statements.             *)

SubmitCompletionDML(id, r) ==
    <<UpdateHeld({"claimed"}, {r}, [status |-> "in_review"]), SubmitIfInReview(id, r)>>

RejectCompletionDML ==
    <<DeleteCompletions, Update({"in_review"}, [status |-> "claimed"])>>

AcceptCompletionDML(id, stamp) ==
    <<InsertStamp(stamp), LinkStamp(id, stamp.id),
      Update({"in_review"}, [status |-> "completed"])>>

CloseUpstreamDML(id, by) ==
    <<DeleteCompletions, InsertCompletion(id, by),
      Update(Present, [status |-> "completed", claimedBy |-> by])>>

AcceptUpstreamDML(id, by, stamp) ==
    CloseUpstreamDML(id, by) \o <<InsertStamp(stamp), LinkStamp(id, stamp.id)>>

\* clearBranchData: two calls of Exec, one statement each.
ClearScript == <<DeleteCompletions, EraseWanted>>

-----------------------------------------------------------------------------
(* Ids.  GeneratePrefixedID hashes its inputs with the time of day: a new  *)
(* id differs from those in use (two calls in one second apart).           *)

IdsIn(t) == {c.id : c \in t.completions} \cup {x.id : x \in t.stamps}
            \cup {x.context : x \in t.stamps}

IdsNamed(script) ==
    UNION {CASE stmt.into = "wanted" -> {}
             [] stmt.into = "stamps" -> {stmt.stamp.id, stmt.stamp.context}
             [] stmt.into = "completions" ->
                   IF stmt.do = "delete" THEN {} ELSE {stmt.id} : stmt \in ToSet(script)}

Unused(ids) == CHOOSE i \in 1 .. Cardinality(ids) + 1 : i \notin ids
=============================================================================
