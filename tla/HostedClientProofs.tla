------------------------- MODULE HostedClientProofs -------------------------
(***************************************************************************)
(* What holds of the mutations of a hosted client for every set of rigs    *)
(* and sessions, every history and every bound on the requests:            *)
(*   - the mutex of a rig's client keeps its requests apart;               *)
(*   - refs, scripts and requests keep their types, whatever fails;        *)
(*   - a branch that has the item is emptied only while no pull request    *)
(*     offers it;                                                          *)
(*   - on a branch that nobody is working on the completions of the item   *)
(*     match its claim, and the stamps are linked;                         *)
(*   - the requests implement Board: the statements of an operation and    *)
(*     its cleanup, with those of others in between, come to one change of *)
(*     the rig's proposal, or to none.                                     *)
(* First come facts about the rows, the statements and the scripts, which  *)
(* know nothing of the system's state.                                     *)
(***************************************************************************)
EXTENDS HostedClient, FiniteSetTheorems, TLAPS

LEMMA OverrideFields ==
    ASSUME NEW old, NEW new
    PROVE  /\ DOMAIN Override(old, new) = DOMAIN old
           /\ \A f \in DOMAIN old : Override(old, new)[f] = IF f \in DOMAIN new THEN new[f] ELSE old[f]
BY DEF Override

(* A table with some of its three fields set anew.                            *)
LEMMA OverrideTables ==
    ASSUME NEW t \in Tables, NEW new,
           "status" \in DOMAIN new => new["status"] \in Status,
           "claimedBy" \in DOMAIN new => new["claimedBy"] \in Rigs \cup {None},
           "text" \in DOMAIN new => new["text"] \in {"none", "posted", "edited"},
           "completions" \notin DOMAIN new, "stamps" \notin DOMAIN new
    PROVE  Override(t, new) \in Tables
<1> DEFINE u == Override(t, new)
<1>1. DOMAIN t = {"status", "claimedBy", "text", "completions", "stamps"}
  BY DEF Tables
<1>2. /\ u["status"] \in Status /\ u["claimedBy"] \in Rigs \cup {None}
      /\ u["text"] \in {"none", "posted", "edited"}
      /\ u["completions"] = t["completions"] /\ u["stamps"] = t["stamps"]
  BY <1>1, OverrideFields DEF Tables
<1>3. u = [status |-> u["status"], claimedBy |-> u["claimedBy"], text |-> u["text"],
           completions |-> u["completions"], stamps |-> u["stamps"]]
  <2>1. u = [f \in {"status", "claimedBy", "text", "completions", "stamps"} |-> u[f]]
    BY <1>1 DEF Override
  <2> HIDE DEF u
  <2> QED
    BY <2>1
<1> HIDE DEF u
<1>4. t["completions"] \in SUBSET Completion /\ t["stamps"] \in SUBSET Stamp
  BY DEF Tables
<1> QED
  BY <1>2, <1>3, <1>4 DEF u, Tables

LEMMA ApplyTyped ==
    ASSUME NEW t \in Tables, NEW stmt \in Statement
    PROVE  Apply(stmt, t) \in Tables
<1>1. CASE stmt.into = "wanted"
  <2>1. /\ stmt.set \in [status : Status] \cup [text : {"none", "posted", "edited"}]
           \cup [status : Status, claimedBy : Rigs \cup {None}]
           \cup [status : Status, text : {"none", "posted", "edited"}]
           \cup [status : Status, claimedBy : Rigs \cup {None},
                 text : {"none", "posted", "edited"}]
    BY <1>1 DEF Statement
  <2>2. PICK new : new = stmt.set
    OBVIOUS
  <2>3. /\ "status" \in DOMAIN new => new["status"] \in Status
        /\ "claimedBy" \in DOMAIN new => new["claimedBy"] \in Rigs \cup {None}
        /\ "text" \in DOMAIN new => new["text"] \in {"none", "posted", "edited"}
        /\ "completions" \notin DOMAIN new /\ "stamps" \notin DOMAIN new
    BY <2>1, <2>2
  <2>4. Override(t, new) \in Tables
    BY <2>3, OverrideTables
  <2> QED
    BY <1>1, <2>2, <2>4 DEF Apply
<1>2. CASE stmt.into = "completions"
  <2>1. ApplyToCompletions(stmt, t) \in SUBSET Completion
    <3>1. CASE stmt.do = "delete"
      BY <3>1 DEF ApplyToCompletions
    <3>2. CASE stmt.do \in {"insert", "submit"}
      <4>1. stmt.id \in Nat /\ stmt.by \in Rigs
        BY <1>2, <3>2 DEF Statement
      <4>2. [id |-> stmt.id, by |-> stmt.by, stamp |-> None] \in Completion
        BY <4>1 DEF Completion
      <4> QED
        BY <3>2, <4>2 DEF ApplyToCompletions, Tables
    <3>3. CASE stmt.do = "link"
      <4>1. stmt.id \in Nat /\ stmt.stamp \in Nat
        BY <1>2, <3>3 DEF Statement
      <4>2. \A c \in t.completions : [c EXCEPT !.stamp = stmt.stamp] \in Completion
        BY <4>1 DEF Completion, Tables
      <4> QED
        BY <3>3, <4>2 DEF ApplyToCompletions, Tables
    <3> QED
      BY <1>2, <3>1, <3>2, <3>3 DEF Statement
  <2> QED
    BY <1>2, <2>1 DEF Apply, Tables
<1>3. CASE stmt.into = "stamps"
  <2>1. stmt.stamp \in Stamp
    BY <1>3 DEF Statement
  <2> QED
    BY <1>3, <2>1 DEF Apply, Tables
<1> QED
  BY <1>1, <1>2, <1>3 DEF Statement

LEMMA UpdateTyped ==
    ASSUME NEW where \in SUBSET Status, NEW holders \in SUBSET (Rigs \cup {None}),
           NEW st \in Status, NEW by \in Rigs \cup {None}, NEW text \in {"none", "posted", "edited"}
    PROVE  /\ UpdateHeld(where, holders, [status |-> st]) \in Statement
           /\ UpdateHeld(where, holders, [text |-> text]) \in Statement
           /\ UpdateHeld(where, holders, [status |-> st, claimedBy |-> by]) \in Statement
           /\ UpdateHeld(where, holders, [status |-> st, text |-> text]) \in Statement
           /\ UpdateHeld(where, holders, [status |-> st, claimedBy |-> by, text |-> text]) \in Statement
BY DEF UpdateHeld, Statement

LEMMA CompletionsTyped ==
    ASSUME NEW id \in Nat, NEW by \in Rigs, NEW stamp \in Nat, NEW x \in Stamp
    PROVE  /\ DeleteCompletions \in Statement /\ InsertCompletion(id, by) \in Statement
           /\ SubmitIfInReview(id, by) \in Statement /\ LinkStamp(id, stamp) \in Statement
           /\ InsertStamp(x) \in Statement
BY DEF DeleteCompletions, InsertCompletion, SubmitIfInReview, LinkStamp, InsertStamp, Statement

SimpleOps == {"post", "update", "claim", "unclaim", "done", "reject", "close", "delete"}

Rows(t) == t \in Tables /\ Finite(t)

LEMMA ScriptsTyped ==
    ASSUME NEW r \in Rigs, NEW by \in Rigs, NEW id \in Nat, NEW x \in Stamp
    PROVE  /\ <<InsertWantedDML>> \in Seq(Statement)
           /\ <<UpdateWantedDML>> \in Seq(Statement)
           /\ <<ClaimWantedDML(r)>> \in Seq(Statement)
           /\ <<UnclaimWantedDML>> \in Seq(Statement)
           /\ <<CloseWantedDML>> \in Seq(Statement)
           /\ <<DeleteWantedDML>> \in Seq(Statement)
           /\ SubmitCompletionDML(id, r) \in Seq(Statement)
           /\ RejectCompletionDML \in Seq(Statement)
           /\ AcceptCompletionDML(id, x) \in Seq(Statement)
           /\ CloseUpstreamDML(id, by) \in Seq(Statement)
           /\ AcceptUpstreamDML(id, by, x) \in Seq(Statement)
           /\ ClearScript \in Seq(Statement)
<1>1. /\ InsertWantedDML \in Statement /\ UpdateWantedDML \in Statement
      /\ ClaimWantedDML(r) \in Statement /\ UnclaimWantedDML \in Statement
      /\ CloseWantedDML \in Statement /\ DeleteWantedDML \in Statement
      /\ EraseWanted \in Statement
      /\ UpdateHeld({"claimed"}, {r}, [status |-> "in_review"]) \in Statement
      /\ Update({"in_review"}, [status |-> "claimed"]) \in Statement
      /\ Update({"in_review"}, [status |-> "completed"]) \in Statement
      /\ Update(Present, [status |-> "completed", claimedBy |-> by]) \in Statement
  <2>1. /\ {"none"} \in SUBSET Status /\ {"open"} \in SUBSET Status
        /\ {"claimed"} \in SUBSET Status /\ {"in_review"} \in SUBSET Status
        /\ Present \in SUBSET Status /\ {r} \in SUBSET (Rigs \cup {None})
        /\ Rigs \cup {None} \in SUBSET (Rigs \cup {None})
        /\ {"none", "open", "claimed", "in_review", "completed", "withdrawn"} \subseteq Status
        /\ r \in Rigs \cup {None} /\ by \in Rigs \cup {None} /\ None \in Rigs \cup {None}
    BY DEF Status, Present
  <2> QED
    BY <2>1, UpdateTyped
    DEF InsertWantedDML, UpdateWantedDML, ClaimWantedDML, UnclaimWantedDML, CloseWantedDML,
        DeleteWantedDML, EraseWanted, Update
<1>2. x.id \in Nat /\ x = x
  BY DEF Stamp
<1>3. /\ DeleteCompletions \in Statement /\ InsertCompletion(id, by) \in Statement
      /\ SubmitIfInReview(id, r) \in Statement /\ LinkStamp(id, x.id) \in Statement
      /\ InsertStamp(x) \in Statement
  BY <1>2, CompletionsTyped
<1>4. CloseUpstreamDML(id, by) \in Seq(Statement)
  BY <1>1, <1>3 DEF CloseUpstreamDML
<1>5. <<InsertStamp(x), LinkStamp(id, x.id)>> \in Seq(Statement)
  BY <1>3
<1>6. AcceptUpstreamDML(id, by, x) \in Seq(Statement)
  BY <1>4, <1>5 DEF AcceptUpstreamDML
<1> QED
  BY <1>1, <1>3, <1>4, <1>6
  DEF SubmitCompletionDML, RejectCompletionDML, AcceptCompletionDML, ClearScript

LEMMA SameSequence ==
    ASSUME NEW S, NEW p \in Seq(S), NEW q \in Seq(S), Len(p) = Len(q),
           \A i \in 1 .. Len(p) : p[i] = q[i]
    PROVE  p = q
OBVIOUS

LEMMA Joined ==
    ASSUME NEW S, NEW a \in S, NEW b \in S, NEW c \in S, NEW d \in S, NEW e \in S
    PROVE  <<a, b, c>> \o <<d, e>> = <<a, b, c, d, e>>
<1> DEFINE p == <<a, b, c>> \o <<d, e>>
           q == <<a, b, c, d, e>>
<1>1. <<a, b, c>> \in Seq(S) /\ <<d, e>> \in Seq(S) /\ p \in Seq(S) /\ q \in Seq(S)
  OBVIOUS
<1>2. Len(p) = 5 /\ Len(q) = 5
  BY <1>1
<1>3. \A i \in 1 .. 5 : p[i] = q[i]
  OBVIOUS
<1> HIDE DEF p, q
<1>4. p = q
  BY <1>1, <1>2, <1>3, SameSequence
<1> QED
  BY <1>4 DEF p, q

LEMMA Lengths ==
    ASSUME NEW r \in Rigs, NEW by \in Rigs, NEW id \in Nat, NEW x \in Stamp
    PROVE  /\ Len(SubmitCompletionDML(id, r)) = 2 /\ Len(RejectCompletionDML) = 2
           /\ Len(AcceptCompletionDML(id, x)) = 3 /\ Len(CloseUpstreamDML(id, by)) = 3
           /\ Len(ClearScript) = 2
           /\ AcceptUpstreamDML(id, by, x) =
                <<DeleteCompletions, InsertCompletion(id, by),
                  Update(Present, [status |-> "completed", claimedBy |-> by]),
                  InsertStamp(x), LinkStamp(id, x.id)>>
<1>1. AcceptUpstreamDML(id, by, x) =
                <<DeleteCompletions, InsertCompletion(id, by),
                  Update(Present, [status |-> "completed", claimedBy |-> by]),
                  InsertStamp(x), LinkStamp(id, x.id)>>
  <2>1. /\ DeleteCompletions \in Statement /\ InsertCompletion(id, by) \in Statement
        /\ Update(Present, [status |-> "completed", claimedBy |-> by]) \in Statement
        /\ InsertStamp(x) \in Statement /\ LinkStamp(id, x.id) \in Statement
    <3>1. x.id \in Nat
      BY DEF Stamp
    <3>2. /\ Present \in SUBSET Status /\ "completed" \in Status /\ by \in Rigs \cup {None}
          /\ Rigs \cup {None} \in SUBSET (Rigs \cup {None})
      BY DEF Status, Present
    <3> QED
      BY <3>1, <3>2, CompletionsTyped, UpdateTyped DEF Update
  <2>2. PICK a, b, c, d, e :
            /\ a = DeleteCompletions /\ b = InsertCompletion(id, by)
            /\ c = Update(Present, [status |-> "completed", claimedBy |-> by])
            /\ d = InsertStamp(x) /\ e = LinkStamp(id, x.id)
    OBVIOUS
  <2>3. <<a, b, c>> \o <<d, e>> = <<a, b, c, d, e>>
    BY <2>1, <2>2, Joined
  <2> QED
    BY <2>2, <2>3 DEF AcceptUpstreamDML, CloseUpstreamDML
<1> QED
  BY <1>1 DEF SubmitCompletionDML, RejectCompletionDML, AcceptCompletionDML, CloseUpstreamDML, ClearScript

LEMMA FiveStatements ==
    ASSUME NEW by \in Rigs, NEW id \in Nat, NEW x \in Stamp
    PROVE  Len(AcceptUpstreamDML(id, by, x)) = 5
<1>1. PICK a, b, c, d, e :
            /\ a = DeleteCompletions /\ b = InsertCompletion(id, by)
            /\ c = Update(Present, [status |-> "completed", claimedBy |-> by])
            /\ d = InsertStamp(x) /\ e = LinkStamp(id, x.id)
  OBVIOUS
<1>2. AcceptUpstreamDML(id, by, x) = <<a, b, c, d, e>>
  <2>1. AcceptUpstreamDML(id, by, x) =
                <<DeleteCompletions, InsertCompletion(id, by),
                  Update(Present, [status |-> "completed", claimedBy |-> by]),
                  InsertStamp(x), LinkStamp(id, x.id)>>
    BY Lengths
  <2> QED
    BY <1>1, <2>1
<1> QED
  BY <1>2

LEMMA NoStatements ==
    ASSUME NEW S, NEW q \in Seq(S), Len(q) = 0
    PROVE  q = << >>
OBVIOUS

(* The image of a finite set.                                                 *)
LEMMA FiniteImage ==
    ASSUME NEW S, IsFiniteSet(S), NEW f, DOMAIN f = S
    PROVE  IsFiniteSet({f[x] : x \in S})
<1> DEFINE T == {f[x] : x \in S}
           g == [x \in S |-> f[x]]
<1>1. g \in Surjection(S, T)
  BY DEF Surjection
<1> HIDE DEF g, T
<1>2. IsFiniteSet(T)
  BY <1>1, FS_Surjection
<1> QED
  BY <1>2 DEF T

LEMMA TableIdsFinite ==
    ASSUME NEW t, Rows(t)
    PROVE  IsFiniteSet(IdsIn(t))
<1> DEFINE C == t.completions
           X == t.stamps
           f == [c \in C |-> c.id]
           g == [x \in X |-> x.id]
           h == [x \in X |-> x.context]
<1>1. /\ IsFiniteSet({f[c] : c \in C}) /\ IsFiniteSet({g[x] : x \in X})
      /\ IsFiniteSet({h[x] : x \in X})
  <2>1. IsFiniteSet(C) /\ IsFiniteSet(X) /\ DOMAIN f = C /\ DOMAIN g = X /\ DOMAIN h = X
    BY DEF Rows, Finite
  <2> HIDE DEF C, X, f, g, h
  <2> QED
    BY <2>1, FiniteImage
<1>2. /\ {f[c] : c \in C} = {c.id : c \in C} /\ {g[x] : x \in X} = {x.id : x \in X}
      /\ {h[x] : x \in X} = {x.context : x \in X}
  OBVIOUS
<1>3. IsFiniteSet(({c.id : c \in C} \cup {x.id : x \in X}) \cup {x.context : x \in X})
  BY <1>1, <1>2, FS_Union
<1> QED
  BY <1>3 DEF IdsIn

LEMMA ScriptIdsFinite ==
    ASSUME NEW q \in Seq(Statement)
    PROVE  IsFiniteSet(IdsNamed(q))
<1> DEFINE Ids(stmt) == CASE stmt.into = "wanted" -> {}
             [] stmt.into = "stamps" -> {stmt.stamp.id, stmt.stamp.context}
             [] stmt.into = "completions" ->
                   IF stmt.do = "delete" THEN {} ELSE {stmt.id}
           f == [stmt \in ToSet(q) |-> Ids(stmt)]
<1>1. IsFiniteSet(ToSet(q))
  <2>1. DOMAIN q = 1 .. Len(q) /\ Len(q) \in Nat
    OBVIOUS
  <2>2. IsFiniteSet(DOMAIN q)
    BY <2>1, FS_Interval
  <2>3. IsFiniteSet({q[i] : i \in DOMAIN q})
    BY <2>2, FiniteImage
  <2> QED
    BY <2>3 DEF ToSet
<1>2. ASSUME NEW stmt \in ToSet(q) PROVE IsFiniteSet(Ids(stmt))
  <2>1. stmt \in Statement
    BY DEF ToSet
  <2>2. stmt.into \in {"wanted", "stamps", "completions"}
    BY <2>1 DEF Statement
  <2>3. IsFiniteSet({}) /\ IsFiniteSet({stmt.id}) /\ IsFiniteSet({stmt.stamp.id, stmt.stamp.context})
    <3>1. PICK i, j : i = stmt.stamp.id /\ j = stmt.stamp.context
      OBVIOUS
    <3>2. IsFiniteSet({}) /\ IsFiniteSet({stmt.id}) /\ IsFiniteSet({i}) /\ IsFiniteSet({j})
      BY FS_EmptySet, FS_Singleton
    <3>3. IsFiniteSet({i} \cup {j}) /\ {i} \cup {j} = {i, j}
      BY <3>2, FS_Union
    <3> QED
      BY <3>1, <3>2, <3>3
  <2> QED
    BY <2>2, <2>3
<1>3. IsFiniteSet({f[stmt] : stmt \in ToSet(q)}) /\ DOMAIN f = ToSet(q)
  <2>1. DOMAIN f = ToSet(q)
    OBVIOUS
  <2> HIDE DEF f
  <2> QED
    BY <1>1, <2>1, FiniteImage
<1>4. \A T \in {f[stmt] : stmt \in ToSet(q)} : IsFiniteSet(T)
  BY <1>2
<1>5. IsFiniteSet(UNION {f[stmt] : stmt \in ToSet(q)})
  <2> HIDE DEF f
  <2> QED
    BY <1>3, <1>4, FS_UNION
<1>6. {f[stmt] : stmt \in ToSet(q)} = {Ids(stmt) : stmt \in ToSet(q)}
  OBVIOUS
<1> QED
  BY <1>5, <1>6 DEF IdsNamed

LEMMA ClearTyped == ClearScript \in Seq(Statement) /\ <<EraseWanted>> \in Seq(Statement)
<1>1. EraseWanted \in Statement
  <2>1. /\ Present \in SUBSET Status /\ Rigs \cup {None} \in SUBSET (Rigs \cup {None})
        /\ "none" \in Status /\ None \in Rigs \cup {None} /\ "none" \in {"none", "posted", "edited"}
    BY DEF Status, Present
  <2> QED
    BY <2>1, UpdateTyped DEF EraseWanted, Update
<1>2. DeleteCompletions \in Statement
  BY DEF DeleteCompletions, Statement
<1> QED
  BY <1>1, <1>2 DEF ClearScript

(* A finite set leaves an id unused.                                          *)
LEMMA UnusedIsUnused ==
    ASSUME NEW ids, IsFiniteSet(ids)
    PROVE  Unused(ids) \in Nat /\ Unused(ids) \notin ids
<1>1. PICK n \in Nat : n = Cardinality(ids)
  BY FS_CardinalityType
<1>2. \E i \in 1 .. n + 1 : i \notin ids
  <2>1. SUFFICES ASSUME 1 .. n + 1 \subseteq ids PROVE FALSE
    OBVIOUS
  <2>2. Cardinality(1 .. n + 1) = n + 1
    <3>1. 1 \in Int /\ n + 1 \in Int /\ (n + 1) - 1 + 1 = n + 1 /\ ~(1 > n + 1)
      BY <1>1
    <3> QED
      BY <3>1, FS_Interval
  <2>3. Cardinality(1 .. n + 1) <= n
    BY <1>1, <2>1, FS_Subset
  <2> QED
    BY <1>1, <2>2, <2>3
<1>3. Unused(ids) \in 1 .. n + 1 /\ Unused(ids) \notin ids
  BY <1>1, <1>2 DEF Unused
<1> QED
  BY <1>1, <1>3

-----------------------------------------------------------------------------
(* What the scripts do to the completions and stamps of an item.              *)

LEMMA TailFields ==
    ASSUME NEW S, NEW q \in Seq(S), Len(q) \in 1 .. 5
    PROVE  /\ Len(Tail(q)) = Len(q) - 1 /\ Head(q) = q[1] /\ Tail(q) \in Seq(S)
           /\ \A i \in 1 .. Len(q) - 1 : Tail(q)[i] = q[i + 1]
OBVIOUS

LEMMA RunTail ==
    ASSUME NEW q \in Seq(Statement), Len(q) \in 1 .. 5, NEW t
    PROVE  Run(q, t) = Run(Tail(q), Apply(Head(q), t))
<1> DEFINE T == Tail(q)
<1>1. /\ Len(T) = Len(q) - 1 /\ Head(q) = q[1] /\ T \in Seq(Statement)
      /\ \A i \in 1 .. Len(q) - 1 : T[i] = q[i + 1]
  BY TailFields
<1>0. Len(q) <= 5 /\ Len(q) \in Nat
  <2>1. PICK n : n = Len(q)
    OBVIOUS
  <2>2. n \in 1 .. 5
    BY <2>1
  <2>3. ASSUME NEW m \in 1 .. 5 PROVE m <= 5 /\ m \in Nat
    OBVIOUS
  <2> QED
    BY <2>1, <2>2, <2>3
<1> HIDE DEF T
<1>2. ASSUME NEW i \in {1, 2, 3, 4}, NEW u PROVE Nth(T, i, u) = Nth(q, i + 1, u)
  <2>1. CASE i + 1 <= Len(q)
    <3>1. T[i] = q[i + 1] /\ i <= Len(T)
      BY <1>1, <1>2, <2>1
    <3> QED
      BY <2>1, <3>1 DEF Nth
  <2>2. CASE ~(i + 1 <= Len(q))
    <3>1. ~(i <= Len(T))
      BY <1>1, <1>2, <2>2
    <3> QED
      BY <2>2, <3>1 DEF Nth
  <2> QED
    BY <2>1, <2>2
<1>3. ASSUME NEW u PROVE Nth(T, 5, u) = u
  <2>1. PICK n, m : n = Len(q) /\ m = Len(T)
    OBVIOUS
  <2>2. m = n - 1 /\ n <= 5 /\ n \in Nat
    BY <1>0, <1>1, <2>1
  <2>3. ~(5 <= m)
    BY <2>2
  <2> QED
    BY <2>1, <2>3 DEF Nth
<1>4. Nth(q, 1, t) = Apply(Head(q), t)
  BY <1>1 DEF Nth
<1>5. PICK u : u = Apply(Head(q), t)
  OBVIOUS
<1>6. ASSUME NEW v
      PROVE  /\ Nth(T, 1, v) = Nth(q, 2, v) /\ Nth(T, 2, v) = Nth(q, 3, v)
             /\ Nth(T, 3, v) = Nth(q, 4, v) /\ Nth(T, 4, v) = Nth(q, 5, v)
  BY <1>2
<1>7. Run(T, u) = Nth(q, 5, Nth(q, 4, Nth(q, 3, Nth(q, 2, u))))
  BY <1>3, <1>6 DEF Run
<1> QED
  BY <1>4, <1>5, <1>7 DEF Run, T

LEMMA RunOn ==
    ASSUME NEW q \in Seq(Statement), Len(q) \in 1 .. 5, NEW t, NEW u, NEW rest,
           Apply(Head(q), t) = u, Tail(q) = rest
    PROVE  Run(q, t) = Run(rest, u)
BY RunTail

LEMMA RunNone == ASSUME NEW t PROVE Run(<< >>, t) = t
BY DEF Run, Nth

LEMMA RunOne == ASSUME NEW a \in Statement, NEW t PROVE Run(<<a>>, t) = Apply(a, t)
<1>1. PICK q, u, rest : q = <<a>> /\ u = Apply(a, t) /\ rest = << >>
  OBVIOUS
<1>2. /\ q \in Seq(Statement) /\ Len(q) = 1 /\ Len(q) \in 1 .. 5
      /\ Apply(Head(q), t) = u /\ Tail(q) = rest
  BY <1>1
<1>3. Run(q, t) = Run(rest, u)
  BY <1>2, RunOn
<1> QED
  BY <1>1, <1>3, RunNone

LEMMA RunTwo ==
    ASSUME NEW a \in Statement, NEW b \in Statement, NEW t
    PROVE  Run(<<a, b>>, t) = Apply(b, Apply(a, t))
<1>1. PICK q, u, rest : q = <<a, b>> /\ u = Apply(a, t) /\ rest = <<b>>
  OBVIOUS
<1>2. /\ q \in Seq(Statement) /\ Len(q) = 2 /\ Len(q) \in 1 .. 5
      /\ Apply(Head(q), t) = u /\ Tail(q) = rest
  BY <1>1
<1>3. Run(q, t) = Run(rest, u)
  BY <1>2, RunOn
<1> QED
  BY <1>1, <1>3, RunOne

LEMMA RunThree ==
    ASSUME NEW a \in Statement, NEW b \in Statement, NEW c \in Statement, NEW t
    PROVE  Run(<<a, b, c>>, t) = Apply(c, Apply(b, Apply(a, t)))
<1>1. PICK q, u, rest : q = <<a, b, c>> /\ u = Apply(a, t) /\ rest = <<b, c>>
  OBVIOUS
<1>2. /\ q \in Seq(Statement) /\ Len(q) = 3 /\ Len(q) \in 1 .. 5
      /\ Apply(Head(q), t) = u /\ Tail(q) = rest
  BY <1>1
<1>3. Run(q, t) = Run(rest, u)
  BY <1>2, RunOn
<1> QED
  BY <1>1, <1>3, RunTwo

LEMMA RunFive ==
    ASSUME NEW a \in Statement, NEW b \in Statement, NEW c \in Statement, NEW d \in Statement,
           NEW e \in Statement, NEW t
    PROVE  Run(<<a, b, c, d, e>>, t) = Apply(e, Apply(d, Apply(c, Apply(b, Apply(a, t)))))
<1>1. PICK q, u, rest : q = <<a, b, c, d, e>> /\ u = Apply(a, t) /\ rest = <<b, c, d, e>>
  OBVIOUS
<1>2. /\ q \in Seq(Statement) /\ Len(q) = 5 /\ Len(q) \in 1 .. 5
      /\ Apply(Head(q), t) = u /\ Tail(q) = rest
  BY <1>1
<1>3. Run(q, t) = Run(rest, u)
  BY <1>2, RunOn
<1>4. PICK v, last : v = Apply(b, u) /\ last = <<c, d, e>>
  OBVIOUS
<1>5. /\ rest \in Seq(Statement) /\ Len(rest) = 4 /\ Len(rest) \in 1 .. 5
      /\ Apply(Head(rest), u) = v /\ Tail(rest) = last
  BY <1>1, <1>4
<1>6. Run(rest, u) = Run(last, v)
  BY <1>5, RunOn
<1> QED
  BY <1>1, <1>3, <1>4, <1>6, RunThree

-----------------------------------------------------------------------------
(* The rows of an item that nobody is working on.  What the stamps have to do  *)
(* with the completions is asked only of the forks that were taken before the  *)
(* item was completed.                                                         *)
Kempt(t, early) ==
    /\ t.status \in {"open", "claimed", "withdrawn"} => t.completions = {}
    /\ t.status = "in_review" => t.completions # {}
    /\ t.status # "none" => /\ \A c, d \in t.completions : c = d
                            /\ \A c \in t.completions : c.by = t.claimedBy
    /\ early => \A c \in t.completions, x \in t.stamps :
                   /\ t.status = "in_review" => x.context # c.id
                   /\ (t.status = "completed" /\ x.context = c.id) => c.stamp = x.id

LEMMA KemptNone == ASSUME NEW early, NEW t, t.status = "none" PROVE Kempt(t, early)
BY DEF Kempt

(* What an UPDATE of the item leaves: the fields that it sets are set where   *)
(* its WHERE clause holds.                                                    *)
Hit(t, where, holders) == t.status \in where /\ t.claimedBy \in holders

LEMMA ApplySet ==
    ASSUME NEW t \in Tables, NEW where, NEW holders, NEW new, NEW u,
           u = Apply(UpdateHeld(where, holders, new), t)
    PROVE  \A f \in {"status", "claimedBy", "text", "completions", "stamps"} :
              u[f] = IF Hit(t, where, holders) /\ f \in DOMAIN new THEN new[f] ELSE t[f]
<1>1. {"status", "claimedBy", "text", "completions", "stamps"} \subseteq DOMAIN t
  BY DEF Tables
<1>2. u = IF Hit(t, where, holders) THEN Override(t, new) ELSE t
  BY DEF Apply, UpdateHeld, Hit
<1> QED
  BY <1>1, <1>2, OverrideFields

LEMMA SetStatus ==
    ASSUME NEW t \in Tables, NEW where, NEW holders, NEW st, NEW u,
           u = Apply(UpdateHeld(where, holders, [status |-> st]), t)
    PROVE  /\ u.status = IF Hit(t, where, holders) THEN st ELSE t.status
           /\ u.claimedBy = t.claimedBy /\ u.completions = t.completions /\ u.stamps = t.stamps
           /\ u.text = t.text
<1>1. PICK new : new = [status |-> st]
  OBVIOUS
<1>2. DOMAIN new = {"status"} /\ new["status"] = st
  BY <1>1
<1> QED
  BY <1>1, <1>2, ApplySet

LEMMA SetClaim ==
    ASSUME NEW t \in Tables, NEW where, NEW holders, NEW st, NEW by, NEW u,
           u = Apply(UpdateHeld(where, holders, [status |-> st, claimedBy |-> by]), t)
    PROVE  /\ u.status = IF Hit(t, where, holders) THEN st ELSE t.status
           /\ u.claimedBy = IF Hit(t, where, holders) THEN by ELSE t.claimedBy
           /\ u.completions = t.completions /\ u.stamps = t.stamps /\ u.text = t.text
<1>1. PICK new : new = [status |-> st, claimedBy |-> by]
  OBVIOUS
<1>2. DOMAIN new = {"status", "claimedBy"} /\ new["status"] = st /\ new["claimedBy"] = by
  BY <1>1
<1> QED
  BY <1>1, <1>2, ApplySet

LEMMA SetPosted ==
    ASSUME NEW t \in Tables, NEW where, NEW holders, NEW st, NEW text, NEW u,
           u = Apply(UpdateHeld(where, holders, [status |-> st, text |-> text]), t)
    PROVE  /\ u.status = IF Hit(t, where, holders) THEN st ELSE t.status
           /\ u.text = IF Hit(t, where, holders) THEN text ELSE t.text
           /\ u.claimedBy = t.claimedBy /\ u.completions = t.completions /\ u.stamps = t.stamps
<1>1. PICK new : new = [status |-> st, text |-> text]
  OBVIOUS
<1>2. DOMAIN new = {"status", "text"} /\ new["status"] = st /\ new["text"] = text
  BY <1>1
<1> QED
  BY <1>1, <1>2, ApplySet

LEMMA SetText ==
    ASSUME NEW t \in Tables, NEW where, NEW holders, NEW text, NEW u,
           u = Apply(UpdateHeld(where, holders, [text |-> text]), t)
    PROVE  /\ u.status = t.status /\ u.claimedBy = t.claimedBy
           /\ u.text = IF Hit(t, where, holders) THEN text ELSE t.text
           /\ u.completions = t.completions /\ u.stamps = t.stamps
<1>1. PICK new : new = [text |-> text]
  OBVIOUS
<1>2. DOMAIN new = {"text"} /\ new["text"] = text
  BY <1>1
<1> QED
  BY <1>1, <1>2, ApplySet

LEMMA CompletionsOnly ==
    ASSUME NEW t \in Tables, NEW stmt, stmt.into = "completions", NEW u, u = Apply(stmt, t)
    PROVE  /\ u.status = t.status /\ u.claimedBy = t.claimedBy /\ u.stamps = t.stamps
           /\ u.text = t.text
           /\ u.completions = ApplyToCompletions(stmt, t)
BY DEF Apply, Tables

LEMMA ApplyDelete ==
    ASSUME NEW t \in Tables, NEW u, u = Apply(DeleteCompletions, t)
    PROVE  /\ u.status = t.status /\ u.claimedBy = t.claimedBy /\ u.stamps = t.stamps
           /\ u.text = t.text
           /\ u.completions = {}
<1>1. PICK stmt : stmt = DeleteCompletions
  OBVIOUS
<1>2. stmt.into = "completions"
  BY <1>1 DEF DeleteCompletions
<1>3. ApplyToCompletions(stmt, t) =
        {}
  BY <1>1 DEF ApplyToCompletions, DeleteCompletions
<1> QED
  BY <1>1, <1>2, <1>3, CompletionsOnly

LEMMA ApplyInsert ==
    ASSUME NEW t \in Tables, NEW id, NEW by, NEW u, u = Apply(InsertCompletion(id, by), t),
           NEW new, new = [id |-> id, by |-> by, stamp |-> None]
    PROVE  /\ u.status = t.status /\ u.claimedBy = t.claimedBy /\ u.stamps = t.stamps
           /\ u.text = t.text
           /\ u.completions = t.completions \cup {new}
<1>1. PICK stmt : stmt = InsertCompletion(id, by)
  OBVIOUS
<1>2. stmt.into = "completions"
  BY <1>1 DEF InsertCompletion
<1>3. ApplyToCompletions(stmt, t) =
        t.completions \cup {new}
  BY <1>1 DEF ApplyToCompletions, InsertCompletion
<1> QED
  BY <1>1, <1>2, <1>3, CompletionsOnly

LEMMA ApplySubmit ==
    ASSUME NEW t \in Tables, NEW id, NEW by, NEW u, u = Apply(SubmitIfInReview(id, by), t),
           NEW new, new = [id |-> id, by |-> by, stamp |-> None]
    PROVE  /\ u.status = t.status /\ u.claimedBy = t.claimedBy /\ u.stamps = t.stamps
           /\ u.text = t.text
           /\ u.completions = IF t.status = "in_review" /\ t.claimedBy = by /\ t.completions = {}
                              THEN {new} ELSE t.completions
<1>1. PICK stmt : stmt = SubmitIfInReview(id, by)
  OBVIOUS
<1>2. stmt.into = "completions"
  BY <1>1 DEF SubmitIfInReview
<1>3. ApplyToCompletions(stmt, t) =
        IF t.status = "in_review" /\ t.claimedBy = by /\ t.completions = {}
                              THEN {new} ELSE t.completions
  BY <1>1 DEF ApplyToCompletions, SubmitIfInReview
<1> QED
  BY <1>1, <1>2, <1>3, CompletionsOnly

(* A row of completions after LinkStamp(id, n).                                *)
LinkRow(c, id, n) == IF c.id = id THEN [c EXCEPT !.stamp = n] ELSE c

LEMMA ApplyLink ==
    ASSUME NEW t \in Tables, NEW id, NEW n, NEW u, u = Apply(LinkStamp(id, n), t)
    PROVE  /\ u.status = t.status /\ u.claimedBy = t.claimedBy /\ u.stamps = t.stamps
           /\ u.text = t.text
           /\ \A d : d \in u.completions <=> \E c \in t.completions : d = LinkRow(c, id, n)
<1>1. PICK stmt : stmt = LinkStamp(id, n)
  OBVIOUS
<1>2. stmt.into = "completions" /\ stmt.do = "link" /\ stmt.id = id /\ stmt.stamp = n
  BY <1>1 DEF LinkStamp
<1>3. ApplyToCompletions(stmt, t) = {LinkRow(c, id, n) : c \in t.completions}
  BY <1>2 DEF ApplyToCompletions, LinkRow
<1> QED
  BY <1>1, <1>2, <1>3, CompletionsOnly

LEMMA ApplyStamp ==
    ASSUME NEW t \in Tables, NEW x, NEW u, u = Apply(InsertStamp(x), t)
    PROVE  /\ u.status = t.status /\ u.claimedBy = t.claimedBy /\ u.text = t.text
           /\ u.completions = t.completions /\ u.stamps = t.stamps \cup {x}
BY DEF Apply, InsertStamp, Tables

(* A row of completions that is linked keeps its id and its author.           *)
LEMMA Linked ==
    ASSUME NEW c \in Completion, NEW id, NEW n, NEW d, d = LinkRow(c, id, n)
    PROVE  d.id = c.id /\ d.by = c.by /\ IF c.id = id THEN d.stamp = n ELSE d = c
<1>1. CASE c.id = id
  <2>1. d = [c EXCEPT !.stamp = n]
    BY <1>1 DEF LinkRow
  <2> QED
    BY <1>1, <2>1 DEF Completion
<1>2. CASE c.id # id
  BY <1>2 DEF LinkRow
<1> QED
  BY <1>1, <1>2

LEMMA UpdateStatement ==
    ASSUME NEW r \in Rigs
    PROVE  /\ InsertWantedDML \in Statement /\ UpdateWantedDML \in Statement
           /\ ClaimWantedDML(r) \in Statement /\ UnclaimWantedDML \in Statement
           /\ CloseWantedDML \in Statement /\ DeleteWantedDML \in Statement
           /\ UpdateHeld({"claimed"}, {r}, [status |-> "in_review"]) \in Statement
           /\ Update({"in_review"}, [status |-> "claimed"]) \in Statement
           /\ Update({"in_review"}, [status |-> "completed"]) \in Statement
           /\ Update(Present, [status |-> "completed", claimedBy |-> r]) \in Statement
<1>1. /\ {"none"} \in SUBSET Status /\ {"open"} \in SUBSET Status
      /\ {"claimed"} \in SUBSET Status /\ {"in_review"} \in SUBSET Status
      /\ Present \in SUBSET Status /\ {r} \in SUBSET (Rigs \cup {None})
      /\ Rigs \cup {None} \in SUBSET (Rigs \cup {None})
      /\ {"none", "open", "claimed", "in_review", "completed", "withdrawn"} \subseteq Status
      /\ r \in Rigs \cup {None} /\ None \in Rigs \cup {None}
  BY DEF Status, Present
<1> QED
  BY <1>1, UpdateTyped
  DEF InsertWantedDML, UpdateWantedDML, ClaimWantedDML, UnclaimWantedDML, CloseWantedDML,
      DeleteWantedDML, Update

(* The one-statement scripts leave the rows kempt.                            *)
LEMMA OneKempt ==
    ASSUME NEW early, NEW t \in Tables, Kempt(t, early), t.status = "none" => t.completions = {},
           NEW r \in Rigs
    PROVE  /\ Kempt(Apply(InsertWantedDML, t), early) /\ Kempt(Apply(UpdateWantedDML, t), early)
           /\ Kempt(Apply(ClaimWantedDML(r), t), early) /\ Kempt(Apply(UnclaimWantedDML, t), early)
           /\ Kempt(Apply(CloseWantedDML, t), early) /\ Kempt(Apply(DeleteWantedDML, t), early)
<1> DEFINE any == Rigs \cup {None}
<1>0. \A where : Hit(t, where, any) <=> t.status \in where
  BY DEF Tables, Hit
<1> HIDE DEF any
<1>1. PICK u : u = Apply(UpdateHeld({"none"}, any, [status |-> "open", text |-> "posted"]), t)
  OBVIOUS
<1>2. Kempt(u, early)
  <2>1. /\ u.status = (IF t.status = "none" THEN "open" ELSE t.status)
        /\ u.claimedBy = t.claimedBy /\ u.completions = t.completions /\ u.stamps = t.stamps
    BY <1>0, <1>1, SetPosted
  <2> QED
    BY <2>1 DEF Kempt
<1>3. PICK v : v = Apply(UpdateHeld({"open"}, any, [text |-> "edited"]), t)
  OBVIOUS
<1>4. Kempt(v, early)
  <2>1. /\ v.status = t.status /\ v.claimedBy = t.claimedBy /\ v.completions = t.completions
        /\ v.stamps = t.stamps
    BY <1>3, SetText
  <2> QED
    BY <2>1 DEF Kempt
<1>5. ASSUME NEW from, NEW st, NEW by, NEW w,
             w = Apply(UpdateHeld({from}, any, [status |-> st, claimedBy |-> by]), t),
             from \in {"open", "claimed"}, st \in {"open", "claimed", "withdrawn"}
      PROVE  Kempt(w, early)
  <2>1. /\ w.status = (IF t.status = from THEN st ELSE t.status)
        /\ w.claimedBy = (IF t.status = from THEN by ELSE t.claimedBy)
        /\ w.completions = t.completions /\ w.stamps = t.stamps
    BY <1>0, <1>5, SetClaim
  <2>2. CASE t.status = from
    <3>1. w.completions = {} /\ w.status = st
      BY <1>5, <2>1, <2>2 DEF Kempt
    <3> QED
      BY <1>5, <3>1 DEF Kempt
  <2>3. CASE t.status # from
    BY <2>1, <2>3 DEF Kempt
  <2> QED
    BY <2>2, <2>3
<1>6. PICK w : w = Apply(UpdateHeld({"open"}, any, [status |-> "withdrawn"]), t)
  OBVIOUS
<1>7. Kempt(w, early)
  <2>1. /\ w.status = (IF t.status = "open" THEN "withdrawn" ELSE t.status)
        /\ w.claimedBy = t.claimedBy /\ w.completions = t.completions /\ w.stamps = t.stamps
    BY <1>0, <1>6, SetStatus
  <2>2. CASE t.status = "open"
    <3>1. w.completions = {} /\ w.status = "withdrawn"
      BY <2>1, <2>2 DEF Kempt
    <3> QED
      BY <3>1 DEF Kempt
  <2>3. CASE t.status # "open"
    BY <2>1, <2>3 DEF Kempt
  <2> QED
    BY <2>2, <2>3
<1>8. PICK z : z = Apply(UpdateHeld({"in_review"}, any, [status |-> "completed"]), t)
  OBVIOUS
<1>9. Kempt(z, early)
  <2>1. /\ z.status = (IF t.status = "in_review" THEN "completed" ELSE t.status)
        /\ z.claimedBy = t.claimedBy /\ z.completions = t.completions /\ z.stamps = t.stamps
    BY <1>0, <1>8, SetStatus
  <2> QED
    BY <2>1 DEF Kempt
<1>10. /\ Kempt(Apply(UpdateHeld({"open"}, any, [status |-> "claimed", claimedBy |-> r]), t), early)
       /\ Kempt(Apply(UpdateHeld({"claimed"}, any, [status |-> "open", claimedBy |-> None]), t), early)
  BY <1>5
<1> QED
  BY <1>1, <1>2, <1>3, <1>4, <1>6, <1>7, <1>8, <1>9, <1>10
  DEF InsertWantedDML, UpdateWantedDML, ClaimWantedDML, UnclaimWantedDML, CloseWantedDML,
      DeleteWantedDML, Update, any

(* An item that is as nobody works on it, or is not there at all.              *)
Clean(t, early) == Kempt(t, early) /\ (t.status = "none" => t.completions = {})

(* SubmitCompletion: a claimed item gets its one completion.                   *)
LEMMA SubmitKempt ==
    ASSUME NEW early, NEW t \in Tables, Clean(t, early),
           NEW r \in Rigs, NEW id \in Nat, id \notin IdsIn(t)
    PROVE  Kempt(Run(SubmitCompletionDML(id, r), t), early)
<1>1. PICK a, b, u, v :
        /\ a = UpdateHeld({"claimed"}, {r}, [status |-> "in_review"]) /\ b = SubmitIfInReview(id, r)
        /\ u = Apply(a, t) /\ v = Apply(b, u)
  OBVIOUS
<1>2. PICK x : x \in Stamp
  <2>1. [id |-> 0, author |-> r, subject |-> r, context |-> 0] \in Stamp
    BY DEF Stamp
  <2> QED
    BY <2>1
<1>3. a \in Statement /\ b \in Statement
  BY <1>1, <1>2, UpdateStatement, CompletionsTyped
<1>4. Run(SubmitCompletionDML(id, r), t) = v
  <2>1. SubmitCompletionDML(id, r) = <<a, b>>
    BY <1>1 DEF SubmitCompletionDML
  <2> QED
    BY <1>1, <1>3, <2>1, RunTwo
<1>5. u \in Tables
  BY <1>1, <1>3, ApplyTyped
<1>6. PICK new : new = [id |-> id, by |-> r, stamp |-> None]
  OBVIOUS
<1>7. new.id = id /\ new.by = r
  BY <1>6
<1>8. /\ v.status = u.status /\ v.claimedBy = u.claimedBy /\ v.stamps = u.stamps
      /\ v.completions = IF u.status = "in_review" /\ u.claimedBy = r /\ u.completions = {}
                         THEN {new} ELSE u.completions
  <2>1. v = Apply(SubmitIfInReview(id, r), u)
    BY <1>1
  <2> QED
    BY <1>5, <1>6, <2>1, ApplySubmit
<1>9. /\ u.status = (IF t.status = "claimed" /\ t.claimedBy = r THEN "in_review" ELSE t.status)
      /\ u.claimedBy = t.claimedBy /\ u.completions = t.completions /\ u.stamps = t.stamps
  BY <1>1, SetStatus DEF Hit
<1>10. \A y \in t.stamps : y.context # id
  BY DEF IdsIn
<1>11. CASE t.status = "claimed" /\ t.claimedBy = r
  <2>1. t.completions = {}
    BY <1>11 DEF Clean, Kempt
  <2>2. v.status = "in_review" /\ v.claimedBy = r /\ v.stamps = t.stamps /\ v.completions = {new}
    BY <1>8, <1>9, <1>11, <2>1
  <2> QED
    BY <1>4, <1>7, <1>10, <2>2 DEF Kempt
<1>12. CASE ~(t.status = "claimed" /\ t.claimedBy = r)
  <2>1. t.status = "in_review" => t.completions # {}
    BY DEF Clean, Kempt
  <2>2. /\ v.status = t.status /\ v.claimedBy = t.claimedBy /\ v.stamps = t.stamps
        /\ v.completions = t.completions
    BY <1>8, <1>9, <1>12, <2>1
  <2> QED
    BY <1>4, <2>2 DEF Clean, Kempt
<1> QED
  BY <1>11, <1>12

(* RejectCompletion: the completion goes with the review.                      *)
LEMMA RejectKempt ==
    ASSUME NEW early, NEW t \in Tables, Clean(t, early), NEW r \in Rigs
    PROVE  Kempt(Run(RejectCompletionDML, t), early)
<1>1. PICK a, b, u, v :
        /\ a = DeleteCompletions /\ b = Update({"in_review"}, [status |-> "claimed"])
        /\ u = Apply(a, t) /\ v = Apply(b, u)
  OBVIOUS
<1>2. PICK x : x \in Stamp
  <2>1. [id |-> 0, author |-> r, subject |-> r, context |-> 0] \in Stamp
    BY DEF Stamp
  <2> QED
    BY <2>1
<1>3. a \in Statement /\ b \in Statement
  <2>1. 0 \in Nat
    OBVIOUS
  <2> QED
    BY <1>1, <1>2, <2>1, UpdateStatement, CompletionsTyped
<1>4. Run(RejectCompletionDML, t) = v
  <2>1. RejectCompletionDML = <<a, b>>
    BY <1>1 DEF RejectCompletionDML
  <2> QED
    BY <1>1, <1>3, <2>1, RunTwo
<1>5. u \in Tables
  BY <1>1, <1>3, ApplyTyped
<1>6. u.status = t.status /\ u.completions = {}
  BY <1>1, ApplyDelete
<1>7. v.status # "in_review" /\ v.completions = {}
  <2>1. u.claimedBy \in Rigs \cup {None}
    BY <1>5 DEF Tables
  <2>2. PICK any : any = Rigs \cup {None}
    OBVIOUS
  <2>3. v = Apply(UpdateHeld({"in_review"}, any, [status |-> "claimed"]), u)
    BY <1>1, <2>2 DEF Update
  <2>4. /\ v.status = IF Hit(u, {"in_review"}, any) THEN "claimed" ELSE u.status
        /\ v.completions = u.completions
    BY <1>5, <2>3, SetStatus
  <2> QED
    BY <1>6, <2>1, <2>2, <2>4 DEF Hit
<1> QED
  BY <1>4, <1>7 DEF Kempt

(* AcceptCompletion: the completion that the stamp is about is linked to it.   *)
LEMMA AcceptKempt ==
    ASSUME NEW early, NEW t \in Tables, Clean(t, early), early => t.status # "completed",
           NEW r \in Rigs, NEW id \in Nat, NEW x \in Stamp, x.context = id
    PROVE  Kempt(Run(AcceptCompletionDML(id, x), t), early)
<1>1. PICK a, b, c, n, any :
        /\ a = InsertStamp(x) /\ n = x.id /\ b = LinkStamp(id, n) /\ any = Rigs \cup {None}
        /\ c = Update({"in_review"}, [status |-> "completed"])
  OBVIOUS
<1>2. PICK u, v, w : u = Apply(a, t) /\ v = Apply(b, u) /\ w = Apply(c, v)
  OBVIOUS
<1>3. a \in Statement /\ b \in Statement /\ c \in Statement
  <2>1. n \in Nat
    BY <1>1 DEF Stamp
  <2> QED
    BY <1>1, <2>1, UpdateStatement, CompletionsTyped
<1>4. Run(AcceptCompletionDML(id, x), t) = w
  <2>1. AcceptCompletionDML(id, x) = <<a, b, c>>
    BY <1>1 DEF AcceptCompletionDML
  <2> QED
    BY <1>2, <1>3, <2>1, RunThree
<1>5. u \in Tables /\ v \in Tables
  BY <1>2, <1>3, ApplyTyped
<1>6. /\ u.status = t.status /\ u.claimedBy = t.claimedBy
      /\ u.completions = t.completions /\ u.stamps = t.stamps \cup {x}
  BY <1>1, <1>2, ApplyStamp
<1>7. /\ v.status = u.status /\ v.claimedBy = u.claimedBy /\ v.stamps = u.stamps
      /\ \A z : z \in v.completions <=> \E y \in u.completions : z = LinkRow(y, id, n)
  BY <1>1, <1>2, <1>5, ApplyLink
<1>8. PICK C, D : D = u.completions /\ C = v.completions
  OBVIOUS
<1>9. /\ \A d \in C : \E e \in t.completions :
            /\ d.id = e.id /\ d.by = e.by
            /\ IF e.id = id THEN d.stamp = n ELSE d = e
            /\ d = LinkRow(e, id, n)
      /\ C = {} <=> t.completions = {}
  <2>1. \A d : d \in C <=> \E e \in t.completions : d = LinkRow(e, id, n)
    BY <1>6, <1>7, <1>8
  <2>2. \A e \in t.completions : e \in Completion
    BY DEF Tables
  <2> QED
    BY <2>1, <2>2, Linked
<1>10. /\ w.status = (IF v.status = "in_review" THEN "completed" ELSE v.status)
       /\ w.claimedBy = v.claimedBy /\ w.completions = v.completions /\ w.stamps = v.stamps
  <2>1. w = Apply(UpdateHeld({"in_review"}, any, [status |-> "completed"]), v)
    BY <1>1, <1>2 DEF Update
  <2>2. Hit(v, {"in_review"}, any) <=> v.status = "in_review"
    BY <1>1, <1>5 DEF Hit, Tables
  <2> QED
    BY <1>5, <2>1, <2>2, SetStatus
<1>11. /\ w.status = (IF t.status = "in_review" THEN "completed" ELSE t.status)
       /\ w.claimedBy = t.claimedBy /\ w.completions = C /\ w.stamps = t.stamps \cup {x}
  BY <1>6, <1>7, <1>8, <1>10
<1>12. ASSUME w.status # "none"
       PROVE  (\A d, e \in C : d = e) /\ (\A d \in C : d.by = w.claimedBy)
  <2>1. t.status # "none"
    BY <1>11, <1>12
  <2>2. (\A d, e \in t.completions : d = e) /\ (\A d \in t.completions : d.by = t.claimedBy)
    BY <2>1 DEF Clean, Kempt
  <2>3. \A d \in C : d.by = w.claimedBy
    BY <1>9, <1>11, <2>2
  <2>4. ASSUME NEW d \in C, NEW e \in C PROVE d = e
    <3>1. PICK d0 \in t.completions : d = LinkRow(d0, id, n)
      BY <1>9
    <3>2. PICK e0 \in t.completions : e = LinkRow(e0, id, n)
      BY <1>9
    <3>3. d0 = e0
      BY <2>2
    <3> QED
      BY <3>1, <3>2, <3>3
  <2> QED
    BY <2>3, <2>4
<1>13. w.status \in {"open", "claimed", "withdrawn"} => C = {}
  BY <1>9, <1>11 DEF Clean, Kempt
<1>14. w.status # "in_review"
  BY <1>11
<1>15. ASSUME early, w.status = "completed", NEW d \in C, NEW y \in t.stamps \cup {x}, y.context = d.id
       PROVE  d.stamp = y.id
  <2>1. t.status = "in_review"
    BY <1>11, <1>15
  <2>2. PICK e \in t.completions : d.id = e.id /\ IF e.id = id THEN d.stamp = n ELSE d = e
    BY <1>9
  <2>3. \A z \in t.stamps : z.context # e.id
    BY <1>15, <2>1 DEF Clean, Kempt
  <2>4. y = x
    BY <1>15, <2>2, <2>3
  <2> QED
    BY <1>1, <1>15, <2>2, <2>4
<1>16. Kempt(w, early)
  BY <1>11, <1>12, <1>13, <1>14, <1>15 DEF Kempt
<1> QED
  BY <1>4, <1>16

(* CloseUpstream and the first half of AcceptUpstream: one completion, by the  *)
(* rig that has the claim from now on, and no stamp for it yet.                *)
LEMMA AdoptKempt ==
    ASSUME NEW t \in Tables, NEW by \in Rigs, NEW id \in Nat, id \notin IdsIn(t),
           NEW u, u = Apply(Update(Present, [status |-> "completed", claimedBy |-> by]),
                            Apply(InsertCompletion(id, by), Apply(DeleteCompletions, t)))
    PROVE  /\ u \in Tables /\ \A y \in u.stamps : y.context # id
           /\ u.status = IF t.status = "none" THEN "none" ELSE "completed"
           /\ t.status # "none" => u.claimedBy = by
           /\ \E new \in u.completions : /\ u.completions = {new}
                                         /\ new.id = id /\ new.by = by
<1>1. PICK v, w, x, any, new :
        /\ v = Apply(DeleteCompletions, t) /\ w = Apply(InsertCompletion(id, by), v)
        /\ any = Rigs \cup {None} /\ new = [id |-> id, by |-> by, stamp |-> None]
        /\ x = Update(Present, [status |-> "completed", claimedBy |-> by])
  OBVIOUS
<1>2. /\ DeleteCompletions \in Statement /\ InsertCompletion(id, by) \in Statement
      /\ x \in Statement
  <2>1. [id |-> 0, author |-> by, subject |-> by, context |-> 0] \in Stamp
    BY DEF Stamp
  <2>2. 0 \in Nat
    OBVIOUS
  <2> QED
    BY <1>1, <2>1, <2>2, UpdateStatement, CompletionsTyped
<1>3. u = Apply(x, w)
  BY <1>1
<1>4. v \in Tables
  BY <1>1, <1>2, ApplyTyped
<1>5. w \in Tables
  BY <1>1, <1>2, <1>4, ApplyTyped
<1>6. u \in Tables
  BY <1>2, <1>3, <1>5, ApplyTyped
<1>7. v.status = t.status /\ v.stamps = t.stamps /\ v.completions = {}
  BY <1>1, ApplyDelete
<1>8. w.status = v.status /\ w.stamps = v.stamps /\ w.completions = v.completions \cup {new}
  BY <1>1, <1>4, ApplyInsert
<1>9. Hit(w, Present, any) <=> w.status # "none"
  BY <1>1, <1>5 DEF Hit, Tables, Status, Present
<1>10. /\ u.status = IF Hit(w, Present, any) THEN "completed" ELSE w.status
       /\ u.claimedBy = IF Hit(w, Present, any) THEN by ELSE w.claimedBy
       /\ u.completions = w.completions /\ u.stamps = w.stamps
  <2>1. u = Apply(UpdateHeld(Present, any, [status |-> "completed", claimedBy |-> by]), w)
    BY <1>1, <1>3 DEF Update
  <2> QED
    BY <1>5, <2>1, SetClaim
<1>11. new.id = id /\ new.by = by
  BY <1>1
<1>12. u.completions = {new}
  BY <1>7, <1>8, <1>10
<1>13. \A y \in u.stamps : y.context # id
  BY <1>7, <1>8, <1>10 DEF IdsIn
<1>14. /\ u.status = IF t.status = "none" THEN "none" ELSE "completed"
       /\ t.status # "none" => u.claimedBy = by
  BY <1>7, <1>8, <1>9, <1>10
<1> QED
  BY <1>6, <1>11, <1>12, <1>13, <1>14

LEMMA CloseUpstreamKempt ==
    ASSUME NEW early, NEW t \in Tables, NEW by \in Rigs, NEW id \in Nat, id \notin IdsIn(t)
    PROVE  Kempt(Run(CloseUpstreamDML(id, by), t), early)
<1>1. PICK a, b, c :
        /\ a = DeleteCompletions /\ b = InsertCompletion(id, by)
        /\ c = Update(Present, [status |-> "completed", claimedBy |-> by])
  OBVIOUS
<1>2. a \in Statement /\ b \in Statement /\ c \in Statement
  <2>1. [id |-> 0, author |-> by, subject |-> by, context |-> 0] \in Stamp
    BY DEF Stamp
  <2>2. 0 \in Nat
    OBVIOUS
  <2> QED
    BY <1>1, <2>1, <2>2, UpdateStatement, CompletionsTyped
<1>3. PICK u : u = Apply(c, Apply(b, Apply(a, t)))
  OBVIOUS
<1>4. Run(CloseUpstreamDML(id, by), t) = u
  <2>1. CloseUpstreamDML(id, by) = <<a, b, c>>
    BY <1>1 DEF CloseUpstreamDML
  <2> QED
    BY <1>2, <1>3, <2>1, RunThree
<1>5. /\ \A y \in u.stamps : y.context # id
      /\ u.status = (IF t.status = "none" THEN "none" ELSE "completed")
      /\ t.status # "none" => u.claimedBy = by
      /\ \E new \in u.completions : u.completions = {new} /\ new.id = id /\ new.by = by
  BY <1>1, <1>3, AdoptKempt
<1> QED
  BY <1>4, <1>5 DEF Kempt

LEMMA AcceptUpstreamKempt ==
    ASSUME NEW early, NEW t \in Tables, NEW by \in Rigs, NEW id \in Nat, id \notin IdsIn(t),
           NEW x \in Stamp, x.context = id
    PROVE  Kempt(Run(AcceptUpstreamDML(id, by, x), t), early)
<1>1. PICK a, b, c, d, e, n :
        /\ a = DeleteCompletions /\ b = InsertCompletion(id, by)
        /\ c = Update(Present, [status |-> "completed", claimedBy |-> by])
        /\ d = InsertStamp(x) /\ n = x.id /\ e = LinkStamp(id, n)
  OBVIOUS
<1>2. /\ a \in Statement /\ b \in Statement /\ c \in Statement
      /\ d \in Statement /\ e \in Statement /\ n \in Nat
  <2>1. n \in Nat
    BY <1>1 DEF Stamp
  <2> QED
    BY <1>1, <2>1, UpdateStatement, CompletionsTyped
<1>3. PICK u, v, w : /\ u = Apply(c, Apply(b, Apply(a, t)))
                     /\ v = Apply(d, u) /\ w = Apply(e, v)
  OBVIOUS
<1>4. Run(AcceptUpstreamDML(id, by, x), t) = w
  <2>1. AcceptUpstreamDML(id, by, x) = <<a, b, c, d, e>>
    BY <1>1, Lengths
  <2> QED
    BY <1>2, <1>3, <2>1, RunFive
<1>5. /\ u \in Tables /\ \A y \in u.stamps : y.context # id
      /\ u.status = (IF t.status = "none" THEN "none" ELSE "completed")
      /\ t.status # "none" => u.claimedBy = by
      /\ \E new \in u.completions : u.completions = {new} /\ new.id = id /\ new.by = by
  BY <1>1, <1>3, AdoptKempt
<1>6. v \in Tables
  BY <1>2, <1>3, <1>5, ApplyTyped
<1>7. /\ v.status = u.status /\ v.claimedBy = u.claimedBy
      /\ v.completions = u.completions /\ v.stamps = u.stamps \cup {x}
  BY <1>1, <1>3, <1>5, ApplyStamp
<1>8. /\ w.status = v.status /\ w.claimedBy = v.claimedBy /\ w.stamps = v.stamps
      /\ \A z : z \in w.completions <=> \E y \in v.completions : z = LinkRow(y, id, n)
  BY <1>1, <1>3, <1>6, ApplyLink
<1>9. PICK new \in u.completions : u.completions = {new} /\ new.id = id /\ new.by = by
  BY <1>5
<1>10. \A z \in w.completions : \E y \in v.completions :
          /\ z.id = y.id /\ z.by = y.by
          /\ IF y.id = id THEN z.stamp = n ELSE z = y
          /\ z = LinkRow(y, id, n)
  <2>1. \A y \in v.completions : y \in Completion
    BY <1>6 DEF Tables
  <2> QED
    BY <1>8, <2>1, Linked
<1>11. /\ \A z \in w.completions : z.id = id /\ z.by = by /\ z.stamp = n
       /\ \A y, z \in w.completions : y = z
  BY <1>7, <1>9, <1>10
<1>12. \A y \in w.stamps : y.context = id => y.id = n
  BY <1>1, <1>5, <1>7, <1>8
<1>13. w.status \in {"none", "completed"} /\ (w.status # "none" => w.claimedBy = by)
  BY <1>5, <1>7, <1>8
<1> QED
  BY <1>4, <1>11, <1>12, <1>13 DEF Kempt

(* No statement of the script posts an item that is not there.                 *)
Dull(q) == \A i \in DOMAIN q : q[i].into = "wanted" => "none" \notin q[i].where

LEMMA DullStep ==
    ASSUME NEW t \in Tables, t.status = "none", NEW stmt \in Statement,
           stmt.into = "wanted" => "none" \notin stmt.where
    PROVE  Apply(stmt, t) \in Tables /\ Apply(stmt, t).status = "none"
<1>1. Apply(stmt, t) \in Tables
  BY ApplyTyped
<1>2. stmt.into \in {"wanted", "completions", "stamps"}
  BY DEF Statement
<1>3. CASE stmt.into = "wanted"
  BY <1>1, <1>3 DEF Apply
<1>4. CASE stmt.into = "completions"
  BY <1>1, <1>4, CompletionsOnly
<1>5. CASE stmt.into = "stamps"
  BY <1>1, <1>5 DEF Apply, Tables
<1> QED
  BY <1>1, <1>2, <1>3, <1>4, <1>5

LEMMA DullResult ==
    ASSUME NEW t \in Tables, t.status = "none", NEW q \in Seq(Statement), Dull(q)
    PROVE  Run(q, t).status = "none"
<1>1. ASSUME NEW u \in Tables, u.status = "none", NEW i \in {1, 2, 3, 4, 5}
      PROVE  Nth(q, i, u) \in Tables /\ Nth(q, i, u).status = "none"
  <2>1. CASE i <= Len(q)
    <3>1. i \in DOMAIN q /\ q[i] \in Statement
      BY <2>1
    <3> QED
      BY <1>1, <2>1, <3>1, DullStep DEF Nth, Dull
  <2>2. CASE ~(i <= Len(q))
    BY <1>1, <2>2 DEF Nth
  <2> QED
    BY <2>1, <2>2
<1>2. PICK t1 : t1 = Nth(q, 1, t)
  OBVIOUS
<1>3. t1 \in Tables /\ t1.status = "none"
  BY <1>1, <1>2
<1>4. PICK t2 : t2 = Nth(q, 2, t1)
  OBVIOUS
<1>5. t2 \in Tables /\ t2.status = "none"
  BY <1>1, <1>3, <1>4
<1>6. PICK t3 : t3 = Nth(q, 3, t2)
  OBVIOUS
<1>7. t3 \in Tables /\ t3.status = "none"
  BY <1>1, <1>5, <1>6
<1>8. PICK t4 : t4 = Nth(q, 4, t3)
  OBVIOUS
<1>9. t4 \in Tables /\ t4.status = "none"
  BY <1>1, <1>7, <1>8
<1>10. Nth(q, 5, t4).status = "none"
  BY <1>1, <1>9
<1>11. Run(q, t) = Nth(q, 5, t4)
  BY <1>2, <1>4, <1>6, <1>8 DEF Run
<1> QED
  BY <1>10, <1>11

LEMMA DullRun ==
    ASSUME NEW early, NEW t \in Tables, t.status = "none", NEW q \in Seq(Statement), Dull(q)
    PROVE  Kempt(Run(q, t), early)
BY DullResult, KemptNone

LEMMA DullTail ==
    ASSUME NEW q \in Seq(Statement), Dull(q), Len(q) \in 1 .. 5
    PROVE  Dull(Tail(q))
<1>1. PICK p, n : p = Tail(q) /\ n = Len(q)
  OBVIOUS
<1>2. /\ Len(p) = n - 1 /\ p \in Seq(Statement) /\ n \in 1 .. 5
      /\ \A i \in 1 .. n - 1 : p[i] = q[i + 1]
  BY <1>1, TailFields
<1>3. ASSUME NEW i \in DOMAIN p PROVE i + 1 \in DOMAIN q /\ p[i] = q[i + 1]
  <2>1. i \in 1 .. n - 1
    BY <1>2
  <2>2. i + 1 \in 1 .. n /\ DOMAIN q = 1 .. n
    BY <1>1, <1>2, <2>1
  <2> QED
    BY <1>2, <2>1, <2>2
<1> QED
  BY <1>1, <1>3 DEF Dull

LEMMA DullScripts ==
    ASSUME NEW r \in Rigs, NEW by \in Rigs, NEW id \in Nat, NEW x \in Stamp
    PROVE  /\ Dull(Tail(SubmitCompletionDML(id, r))) /\ Dull(Tail(RejectCompletionDML))
           /\ Dull(Tail(AcceptCompletionDML(id, x))) /\ Dull(Tail(CloseUpstreamDML(id, by)))
           /\ Dull(Tail(AcceptUpstreamDML(id, by, x)))
           /\ \A stmt \in Statement : Dull(Tail(<<stmt>>))
<1>1. PICK n, del, ins, sub, put, link, c1, c2, c3, h1 :
        /\ n = x.id /\ del = DeleteCompletions /\ ins = InsertCompletion(id, by)
        /\ sub = SubmitIfInReview(id, r) /\ put = InsertStamp(x) /\ link = LinkStamp(id, n)
        /\ c1 = Update({"in_review"}, [status |-> "claimed"])
        /\ c2 = Update({"in_review"}, [status |-> "completed"])
        /\ c3 = Update(Present, [status |-> "completed", claimedBy |-> by])
        /\ h1 = UpdateHeld({"claimed"}, {r}, [status |-> "in_review"])
  OBVIOUS
<1>2. /\ del.into = "completions" /\ ins.into = "completions" /\ sub.into = "completions"
      /\ link.into = "completions" /\ put.into = "stamps"
  BY <1>1 DEF DeleteCompletions, InsertCompletion, SubmitIfInReview, LinkStamp, InsertStamp
<1>3. "none" \notin c1.where /\ "none" \notin c2.where /\ "none" \notin c3.where
  BY <1>1 DEF Update, UpdateHeld, Present
<1>4. PICK s1, s2, s3, s4, s5 :
        /\ s1 = <<sub>> /\ s2 = <<c1>> /\ s3 = <<link, c2>> /\ s4 = <<ins, c3>>
        /\ s5 = <<ins, c3, put, link>>
  OBVIOUS
<1>5. Dull(s1) /\ Dull(s2) /\ Dull(s3) /\ Dull(s4) /\ Dull(s5)
  BY <1>2, <1>3, <1>4 DEF Dull
<1>6. /\ Tail(SubmitCompletionDML(id, r)) = s1 /\ Tail(RejectCompletionDML) = s2
      /\ Tail(AcceptCompletionDML(id, x)) = s3 /\ Tail(CloseUpstreamDML(id, by)) = s4
  BY <1>1, <1>4 DEF SubmitCompletionDML, RejectCompletionDML, AcceptCompletionDML, CloseUpstreamDML
<1>7. Tail(AcceptUpstreamDML(id, by, x)) = s5
  <2>1. AcceptUpstreamDML(id, by, x) = <<del, ins, c3, put, link>>
    BY <1>1, Lengths
  <2> QED
    BY <1>4, <2>1
<1>8. ASSUME NEW stmt \in Statement PROVE Dull(Tail(<<stmt>>))
  <2>1. PICK q : q = << >>
    OBVIOUS
  <2>2. Dull(q)
    BY <2>1 DEF Dull
  <2> QED
    BY <2>1, <2>2
<1> QED
  BY <1>5, <1>6, <1>7, <1>8

LEMMA Erased == ASSUME NEW t \in Tables PROVE Apply(EraseWanted, t).status = "none"
<1>1. PICK any, new, u :
        /\ any = Rigs \cup {None} /\ u = Apply(EraseWanted, t)
        /\ new = [status |-> "none", claimedBy |-> None, text |-> "none"]
  OBVIOUS
<1>2. u = Apply(UpdateHeld(Present, any, new), t)
  BY <1>1 DEF EraseWanted, Update
<1>3. "status" \in DOMAIN new /\ new["status"] = "none"
  BY <1>1
<1>4. u["status"] = IF Hit(t, Present, any) THEN "none" ELSE t["status"]
  BY <1>2, <1>3, ApplySet
<1>5. Hit(t, Present, any) <=> t.status # "none"
  BY <1>1 DEF Hit, Tables, Status, Present
<1> QED
  BY <1>1, <1>4, <1>5

LEMMA Shapes ==
    ASSUME NEW by \in Rigs, NEW id \in Nat, NEW x \in Stamp, NEW q,
           q \in {AcceptCompletionDML(id, x), CloseUpstreamDML(id, by), AcceptUpstreamDML(id, by, x)}
    PROVE  Len(q) \in 1 .. 5 /\ Dull(Tail(q))
<1>1. /\ Len(AcceptCompletionDML(id, x)) = 3 /\ Len(CloseUpstreamDML(id, by)) = 3
      /\ Len(AcceptUpstreamDML(id, by, x)) = 5
  BY Lengths, FiveStatements
<1>2. /\ Dull(Tail(AcceptCompletionDML(id, x))) /\ Dull(Tail(CloseUpstreamDML(id, by)))
      /\ Dull(Tail(AcceptUpstreamDML(id, by, x)))
  BY DullScripts
<1>3. PICK a, b, c : /\ a = AcceptCompletionDML(id, x) /\ b = CloseUpstreamDML(id, by)
                     /\ c = AcceptUpstreamDML(id, by, x)
  OBVIOUS
<1>4. q \in {a, b, c} /\ Len(q) \in {3, 5} /\ Dull(Tail(q))
  BY <1>1, <1>2, <1>3
<1> QED
  BY <1>4

-----------------------------------------------------------------------------
(* What the scripts of the operations come to, in the terms of Board.          *)

(* The script is one that operation op of rig r sends to a branch with rows t. *)
Serves(op, r, script, t) ==
    \/ op = "post" /\ script = <<InsertWantedDML>>
    \/ op = "update" /\ script = <<UpdateWantedDML>>
    \/ op = "claim" /\ script = <<ClaimWantedDML(r)>>
    \/ op = "unclaim" /\ script = <<UnclaimWantedDML>>
    \/ op = "close" /\ script = <<CloseWantedDML>>
    \/ op = "delete" /\ script = <<DeleteWantedDML>>
    \/ op = "reject" /\ script = RejectCompletionDML
    \/ op = "done" /\ \E id \in Nat : script = SubmitCompletionDML(id, r)
    \/ op = "accept" /\ \E id \in Nat, x \in Stamp :
          /\ x.author = r /\ x.context = id /\ x \notin t.stamps
          /\ script = AcceptCompletionDML(id, x)
    \/ op = "close-upstream" /\ \E id \in Nat, by \in Rigs : script = CloseUpstreamDML(id, by)
    \/ op = "accept-upstream" /\ \E id \in Nat, by \in Rigs, x \in Stamp :
          /\ x.author = r /\ x.subject = by /\ x.context = id /\ x \notin t.stamps
          /\ script = AcceptUpstreamDML(id, by, x)

(* What Board asks of the rows u that operation op of rig r makes of t.        *)
Does(op, r, t, u) ==
    /\ u \in Tables /\ u.status = Promise!After(op, r, t)
    /\ u.status # "none" => Promise!Makes(op, r, t, u)

LEMMA OneDoes ==
    ASSUME NEW t \in Tables, NEW r \in Rigs
    PROVE  /\ Does("post", r, t, Apply(InsertWantedDML, t))
           /\ Does("update", r, t, Apply(UpdateWantedDML, t))
           /\ Does("claim", r, t, Apply(ClaimWantedDML(r), t))
           /\ Does("unclaim", r, t, Apply(UnclaimWantedDML, t))
           /\ Does("close", r, t, Apply(CloseWantedDML, t))
           /\ Does("delete", r, t, Apply(DeleteWantedDML, t))
<1> DEFINE any == Rigs \cup {None}
<1>0. \A where : Hit(t, where, any) <=> t.status \in where
  BY DEF Tables, Hit
<1> HIDE DEF any
<1>1. PICK u : u = Apply(UpdateHeld({"none"}, any, [status |-> "open", text |-> "posted"]), t)
  OBVIOUS
<1>2. u \in Tables => Does("post", r, t, u)
  <2>1. /\ u.status = (IF t.status = "none" THEN "open" ELSE t.status)
        /\ u.text = (IF t.status = "none" THEN "posted" ELSE t.text)
        /\ u.claimedBy = t.claimedBy /\ u.completions = t.completions /\ u.stamps = t.stamps
    BY <1>0, <1>1, SetPosted
  <2> QED
    BY <2>1 DEF Does, Promise!After, Promise!Moves, Promise!Makes, Promise!Adoptions
<1>3. PICK v : v = Apply(UpdateHeld({"open"}, any, [text |-> "edited"]), t)
  OBVIOUS
<1>4. v \in Tables => Does("update", r, t, v)
  <2>1. /\ v.status = t.status /\ v.text = (IF t.status = "open" THEN "edited" ELSE t.text)
        /\ v.claimedBy = t.claimedBy /\ v.completions = t.completions /\ v.stamps = t.stamps
    BY <1>0, <1>3, SetText
  <2> QED
    BY <2>1 DEF Does, Promise!After, Promise!Moves, Promise!Makes, Promise!Adoptions
<1>5. PICK w : w = Apply(UpdateHeld({"open"}, any, [status |-> "claimed", claimedBy |-> r]), t)
  OBVIOUS
<1>6. w \in Tables => Does("claim", r, t, w)
  <2>1. /\ w.status = (IF t.status = "open" THEN "claimed" ELSE t.status)
        /\ w.claimedBy = (IF t.status = "open" THEN r ELSE t.claimedBy)
        /\ w.text = t.text /\ w.completions = t.completions /\ w.stamps = t.stamps
    BY <1>0, <1>5, SetClaim
  <2> QED
    BY <2>1 DEF Does, Promise!After, Promise!Moves, Promise!Makes, Promise!Adoptions
<1>7. PICK y : y = Apply(UpdateHeld({"claimed"}, any, [status |-> "open", claimedBy |-> None]), t)
  OBVIOUS
<1>8. y \in Tables => Does("unclaim", r, t, y)
  <2>1. /\ y.status = (IF t.status = "claimed" THEN "open" ELSE t.status)
        /\ y.claimedBy = (IF t.status = "claimed" THEN None ELSE t.claimedBy)
        /\ y.text = t.text /\ y.completions = t.completions /\ y.stamps = t.stamps
    BY <1>0, <1>7, SetClaim
  <2> QED
    BY <2>1 DEF Does, Promise!After, Promise!Moves, Promise!Makes, Promise!Adoptions
<1>9. PICK z : z = Apply(UpdateHeld({"in_review"}, any, [status |-> "completed"]), t)
  OBVIOUS
<1>10. z \in Tables => Does("close", r, t, z)
  <2>1. /\ z.status = (IF t.status = "in_review" THEN "completed" ELSE t.status)
        /\ z.text = t.text /\ z.claimedBy = t.claimedBy
        /\ z.completions = t.completions /\ z.stamps = t.stamps
    BY <1>0, <1>9, SetStatus
  <2> QED
    BY <2>1 DEF Does, Promise!After, Promise!Moves, Promise!Makes, Promise!Adoptions
<1>11. PICK d : d = Apply(UpdateHeld({"open"}, any, [status |-> "withdrawn"]), t)
  OBVIOUS
<1>12. d \in Tables => Does("delete", r, t, d)
  <2>1. /\ d.status = (IF t.status = "open" THEN "withdrawn" ELSE t.status)
        /\ d.text = t.text /\ d.claimedBy = t.claimedBy
        /\ d.completions = t.completions /\ d.stamps = t.stamps
    BY <1>0, <1>11, SetStatus
  <2> QED
    BY <2>1 DEF Does, Promise!After, Promise!Moves, Promise!Makes, Promise!Adoptions
<1>13. \A stmt \in Statement : Apply(stmt, t) \in Tables
  BY ApplyTyped
<1> QED
  BY <1>1, <1>2, <1>3, <1>4, <1>5, <1>6, <1>7, <1>8, <1>9, <1>10, <1>11, <1>12, <1>13,
     UpdateStatement
  DEF InsertWantedDML, UpdateWantedDML, ClaimWantedDML, UnclaimWantedDML, CloseWantedDML,
      DeleteWantedDML, Update, any

LEMMA RejectDoes ==
    ASSUME NEW t \in Tables, NEW r \in Rigs
    PROVE  Does("reject", r, t, Run(RejectCompletionDML, t))
<1>1. PICK u, v, any : /\ u = Apply(DeleteCompletions, t) /\ any = Rigs \cup {None}
                       /\ v = Apply(UpdateHeld({"in_review"}, any, [status |-> "claimed"]), u)
  OBVIOUS
<1>2. /\ DeleteCompletions \in Statement
      /\ UpdateHeld({"in_review"}, any, [status |-> "claimed"]) \in Statement
  <2>1. PICK x \in Stamp : TRUE
    <3>1. [id |-> 0, author |-> r, subject |-> r, context |-> 0] \in Stamp
      BY DEF Stamp
    <3> QED
      BY <3>1
  <2> QED
    BY <1>1, <2>1, CompletionsTyped, UpdateStatement DEF Update
<1>3. u \in Tables /\ v \in Tables
  BY <1>1, <1>2, ApplyTyped
<1>4. Run(RejectCompletionDML, t) = v
  BY <1>1, <1>2, RunTwo DEF RejectCompletionDML, Update
<1>5. /\ u.status = t.status /\ u.claimedBy = t.claimedBy /\ u.text = t.text
      /\ u.stamps = t.stamps /\ u.completions = {}
  BY <1>1, ApplyDelete
<1>6. Hit(u, {"in_review"}, any) <=> u.status = "in_review"
  BY <1>1, <1>3 DEF Tables, Hit
<1>7. /\ v.status = (IF t.status = "in_review" THEN "claimed" ELSE t.status)
      /\ v.claimedBy = t.claimedBy /\ v.text = t.text /\ v.stamps = t.stamps
      /\ v.completions = {}
  BY <1>1, <1>3, <1>5, <1>6, SetStatus
<1> QED
  BY <1>3, <1>4, <1>7 DEF Does, Promise!After, Promise!Moves, Promise!Makes, Promise!Adoptions

LEMMA DoneDoes ==
    ASSUME NEW early, NEW t \in Tables, Clean(t, early), NEW r \in Rigs, NEW id \in Nat
    PROVE  Does("done", r, t, Run(SubmitCompletionDML(id, r), t))
<1>1. PICK u, v, first, new :
        /\ first = UpdateHeld({"claimed"}, {r}, [status |-> "in_review"])
        /\ u = Apply(first, t) /\ v = Apply(SubmitIfInReview(id, r), u)
        /\ new = [id |-> id, by |-> r, stamp |-> None]
  OBVIOUS
<1>2. first \in Statement /\ SubmitIfInReview(id, r) \in Statement
  <2>1. PICK x \in Stamp : TRUE
    <3>1. [id |-> 0, author |-> r, subject |-> r, context |-> 0] \in Stamp
      BY DEF Stamp
    <3> QED
      BY <3>1
  <2> QED
    BY <1>1, <2>1, CompletionsTyped, UpdateStatement
<1>3. u \in Tables /\ v \in Tables
  BY <1>1, <1>2, ApplyTyped
<1>4. Run(SubmitCompletionDML(id, r), t) = v
  BY <1>1, <1>2, RunTwo DEF SubmitCompletionDML
<1>5. /\ u.status = (IF t.status = "claimed" /\ t.claimedBy = r THEN "in_review" ELSE t.status)
      /\ u.claimedBy = t.claimedBy /\ u.text = t.text
      /\ u.stamps = t.stamps /\ u.completions = t.completions
  BY <1>1, SetStatus DEF Hit
<1>6. /\ v.status = u.status /\ v.claimedBy = u.claimedBy /\ v.text = u.text
      /\ v.stamps = u.stamps
      /\ v.completions = IF u.status = "in_review" /\ u.claimedBy = r /\ u.completions = {}
                         THEN {new} ELSE u.completions
  <2>1. v = Apply(SubmitIfInReview(id, r), u) /\ new = [id |-> id, by |-> r, stamp |-> None]
    BY <1>1
  <2> QED
    BY <1>3, <2>1, ApplySubmit
<1>7. CASE t.status = "claimed" /\ t.claimedBy = r
  <2>1. t.completions = {}
    BY <1>7 DEF Clean, Kempt
  <2>2. v.completions = {new} /\ new.by = r /\ new.stamp = None
    BY <1>1, <1>5, <1>6, <1>7, <2>1
  <2> QED
    BY <1>3, <1>4, <1>5, <1>6, <1>7, <2>2
    DEF Does, Promise!After, Promise!Moves, Promise!Makes, Promise!Adoptions
<1>8. CASE ~(t.status = "claimed" /\ t.claimedBy = r)
  <2>1. t.status = "in_review" => t.completions # {}
    BY DEF Clean, Kempt
  <2>2. v.completions = t.completions
    BY <1>5, <1>6, <1>8, <2>1
  <2> QED
    BY <1>3, <1>4, <1>5, <1>6, <1>8, <2>2
    DEF Does, Promise!After, Promise!Moves, Promise!Makes, Promise!Adoptions
<1> QED
  BY <1>7, <1>8

LEMMA AcceptDoes ==
    ASSUME NEW t \in Tables, NEW r \in Rigs, NEW id \in Nat, NEW x \in Stamp,
           x.author = r, x.context = id, x \notin t.stamps
    PROVE  Does("accept", r, t, Run(AcceptCompletionDML(id, x), t))
<1>1. PICK u, v, w, last, n :
        /\ last = UpdateHeld({"in_review"}, Rigs \cup {None}, [status |-> "completed"])
        /\ n = x.id /\ u = Apply(InsertStamp(x), t) /\ v = Apply(LinkStamp(id, n), u)
        /\ w = Apply(last, v)
  OBVIOUS
<1>2. last \in Statement /\ InsertStamp(x) \in Statement /\ LinkStamp(id, n) \in Statement
  <2>1. n \in Nat
    BY <1>1 DEF Stamp
  <2> QED
    BY <1>1, <2>1, CompletionsTyped, UpdateStatement DEF Update
<1>3. u \in Tables /\ v \in Tables /\ w \in Tables
  BY <1>1, <1>2, ApplyTyped
<1>4. Run(AcceptCompletionDML(id, x), t) = w
  BY <1>1, <1>2, RunThree DEF AcceptCompletionDML, Update
<1>5. /\ u.status = t.status /\ u.claimedBy = t.claimedBy /\ u.text = t.text
      /\ u.completions = t.completions /\ u.stamps = t.stamps \cup {x}
  BY <1>1, ApplyStamp
<1>6. /\ v.status = u.status /\ v.claimedBy = u.claimedBy /\ v.text = u.text
      /\ v.stamps = u.stamps
      /\ \A d : d \in v.completions <=> \E c \in u.completions : d = LinkRow(c, id, n)
  BY <1>1, <1>3, ApplyLink
<1>7. v.completions = Promise!Stamped(t.completions, x)
  <2>1. Promise!Stamped(t.completions, x) = {LinkRow(c, id, n) : c \in t.completions}
    BY <1>1 DEF Promise!Stamped, LinkRow
  <2> QED
    BY <1>5, <1>6, <2>1
<1>8. Hit(v, {"in_review"}, Rigs \cup {None}) <=> v.status = "in_review"
  BY <1>3 DEF Tables, Hit
<1>9. /\ w.status = (IF t.status = "in_review" THEN "completed" ELSE t.status)
      /\ w.claimedBy = t.claimedBy /\ w.text = t.text /\ w.stamps = t.stamps \cup {x}
      /\ w.completions = Promise!Stamped(t.completions, x)
  BY <1>1, <1>3, <1>5, <1>6, <1>7, <1>8, SetStatus
<1>10. x \in w.stamps \ t.stamps
  BY <1>9
<1> HIDE DEF Promise!Stamped
<1> QED
  BY <1>3, <1>4, <1>9, <1>10
  DEF Does, Promise!After, Promise!Moves, Promise!Makes, Promise!Adoptions

(* The first half of an adoption is all there is to CloseUpstream.             *)
LEMMA AdoptedDoes ==
    ASSUME NEW t \in Tables, NEW by \in Rigs, NEW id \in Nat
    PROVE  LET u == Run(CloseUpstreamDML(id, by), t) IN
           /\ u \in Tables
           /\ u.status = (IF t.status = "none" THEN "none" ELSE "completed")
           /\ t.status # "none" => u.claimedBy = by
           /\ u.text = t.text /\ u.stamps = t.stamps
           /\ u.completions = {[id |-> id, by |-> by, stamp |-> None]}
<1>1. PICK u, v, w, last, new :
        /\ last = UpdateHeld(Present, Rigs \cup {None}, [status |-> "completed", claimedBy |-> by])
        /\ u = Apply(DeleteCompletions, t) /\ v = Apply(InsertCompletion(id, by), u)
        /\ w = Apply(last, v) /\ new = [id |-> id, by |-> by, stamp |-> None]
  OBVIOUS
<1>2. /\ last \in Statement /\ DeleteCompletions \in Statement
      /\ InsertCompletion(id, by) \in Statement
  <2>1. PICK x \in Stamp : TRUE
    <3>1. [id |-> 0, author |-> by, subject |-> by, context |-> 0] \in Stamp
      BY DEF Stamp
    <3> QED
      BY <3>1
  <2> QED
    BY <1>1, <2>1, CompletionsTyped, UpdateStatement DEF Update
<1>3. u \in Tables /\ v \in Tables /\ w \in Tables
  BY <1>1, <1>2, ApplyTyped
<1>4. Run(CloseUpstreamDML(id, by), t) = w
  BY <1>1, <1>2, RunThree DEF CloseUpstreamDML, Update
<1>5. /\ u.status = t.status /\ u.claimedBy = t.claimedBy /\ u.text = t.text
      /\ u.stamps = t.stamps /\ u.completions = {}
  BY <1>1, ApplyDelete
<1>6. /\ v.status = t.status /\ v.claimedBy = t.claimedBy /\ v.text = t.text
      /\ v.stamps = t.stamps /\ v.completions = {new}
  BY <1>1, <1>3, <1>5, ApplyInsert
<1>7. Hit(v, Present, Rigs \cup {None}) <=> t.status # "none"
  BY <1>3, <1>6 DEF Tables, Hit, Status, Present
<1>8. /\ w.status = (IF t.status = "none" THEN "none" ELSE "completed")
      /\ t.status # "none" => w.claimedBy = by
      /\ w.text = t.text /\ w.stamps = t.stamps /\ w.completions = {new}
  BY <1>1, <1>3, <1>6, <1>7, SetClaim
<1> QED
  BY <1>1, <1>3, <1>4, <1>8

LEMMA AdoptionDoes ==
    ASSUME NEW t \in Tables, NEW r \in Rigs, NEW by \in Rigs, NEW id \in Nat, NEW x \in Stamp,
           x.author = r, x.subject = by, x.context = id, x \notin t.stamps
    PROVE  Does("accept-upstream", r, t, Run(AcceptUpstreamDML(id, by, x), t))
<1>1. PICK u, v, w, n, old, new :
        /\ n = x.id /\ u = Run(CloseUpstreamDML(id, by), t) /\ v = Apply(InsertStamp(x), u)
        /\ w = Apply(LinkStamp(id, n), v)
        /\ old = [id |-> id, by |-> by, stamp |-> None] /\ new = [id |-> id, by |-> by, stamp |-> n]
  OBVIOUS
<1>2. /\ DeleteCompletions \in Statement /\ InsertCompletion(id, by) \in Statement
      /\ InsertStamp(x) \in Statement /\ LinkStamp(id, n) \in Statement
      /\ Update(Present, [status |-> "completed", claimedBy |-> by]) \in Statement
  <2>1. n \in Nat
    BY <1>1 DEF Stamp
  <2> QED
    BY <2>1, CompletionsTyped, UpdateStatement
<1>3. /\ u \in Tables /\ u.text = t.text /\ u.stamps = t.stamps /\ u.completions = {old}
      /\ u.status = (IF t.status = "none" THEN "none" ELSE "completed")
      /\ t.status # "none" => u.claimedBy = by
  BY <1>1, AdoptedDoes
<1>4. v \in Tables /\ w \in Tables
  BY <1>1, <1>2, <1>3, ApplyTyped
<1>5. Run(AcceptUpstreamDML(id, by, x), t) = w
  <2>1. PICK c : c = Update(Present, [status |-> "completed", claimedBy |-> by])
    OBVIOUS
  <2>2. u = Apply(c, Apply(InsertCompletion(id, by), Apply(DeleteCompletions, t)))
    BY <1>1, <1>2, <2>1, RunThree DEF CloseUpstreamDML
  <2>3. AcceptUpstreamDML(id, by, x) =
          <<DeleteCompletions, InsertCompletion(id, by), c, InsertStamp(x), LinkStamp(id, n)>>
    BY <1>1, <2>1, Lengths
  <2> QED
    BY <1>1, <1>2, <2>1, <2>2, <2>3, RunFive
<1>6. /\ v.status = u.status /\ v.claimedBy = u.claimedBy /\ v.text = u.text
      /\ v.completions = {old} /\ v.stamps = t.stamps \cup {x}
  BY <1>1, <1>3, ApplyStamp
<1>7. /\ w.status = u.status /\ w.claimedBy = u.claimedBy /\ w.text = u.text
      /\ w.stamps = t.stamps \cup {x}
      /\ \A d : d \in w.completions <=> \E c \in v.completions : d = LinkRow(c, id, n)
  BY <1>1, <1>4, <1>6, ApplyLink
<1>8. w.completions = {new}
  <2>1. LinkRow(old, id, n) = new
    BY <1>1 DEF LinkRow
  <2> QED
    BY <1>6, <1>7, <2>1
<1>9. new.by = by /\ new.id = id /\ new.stamp = n
  BY <1>1
<1>10. x \in w.stamps \ t.stamps
  BY <1>7
<1> QED
  BY <1>1, <1>3, <1>4, <1>5, <1>7, <1>8, <1>9, <1>10
  DEF Does, Promise!After, Promise!Moves, Promise!Makes, Promise!Adoptions

LEMMA CloseUpstreamDoes ==
    ASSUME NEW t \in Tables, NEW r \in Rigs, NEW by \in Rigs, NEW id \in Nat
    PROVE  Does("close-upstream", r, t, Run(CloseUpstreamDML(id, by), t))
<1>1. PICK u, new : u = Run(CloseUpstreamDML(id, by), t) /\ new = [id |-> id, by |-> by, stamp |-> None]
  OBVIOUS
<1>2. /\ u \in Tables /\ u.text = t.text /\ u.stamps = t.stamps /\ u.completions = {new}
      /\ u.status = (IF t.status = "none" THEN "none" ELSE "completed")
      /\ t.status # "none" => u.claimedBy = by
  BY <1>1, AdoptedDoes
<1>3. new.by = by /\ new.stamp = None
  BY <1>1
<1> QED
  BY <1>1, <1>2, <1>3 DEF Does, Promise!After, Promise!Moves, Promise!Makes, Promise!Adoptions

(* The script of an operation, run as a whole, does what Board says it does.   *)
LEMMA ScriptDoes ==
    ASSUME NEW early, NEW t \in Tables, Clean(t, early), NEW r \in Rigs, NEW op, NEW script,
           Serves(op, r, script, t)
    PROVE  Does(op, r, t, Run(script, t))
<1>1. CASE op \in {"post", "update", "claim", "unclaim", "close", "delete"}
  <2>1. PICK stmt \in Statement : script = <<stmt>> /\ Does(op, r, t, Apply(stmt, t))
    BY <1>1, OneDoes, UpdateStatement DEF Serves
  <2>2. Run(script, t) = Apply(stmt, t)
    BY <2>1, RunOne
  <2> QED
    BY <2>1, <2>2
<1>2. CASE op \in {"reject", "done"}
  BY <1>2, RejectDoes, DoneDoes DEF Serves
<1>3. CASE op \in {"accept", "accept-upstream", "close-upstream"}
  BY <1>3, AcceptDoes, AdoptionDoes, CloseUpstreamDoes DEF Serves
<1> QED
  BY <1>1, <1>2, <1>3 DEF Serves

(* A script of several statements of which the first changes nothing comes to  *)
(* nothing, but for an adoption.                                               *)
LEMMA NullDoes ==
    ASSUME NEW early, NEW t \in Tables, Clean(t, early), NEW r \in Rigs, NEW op, NEW script,
           Serves(op, r, script, t), Apply(Head(script), t) = t
    PROVE  \/ Promise!After(op, r, t) = t.status
           \/ op \in Promise!Adoptions /\ t.completions = {}
<1>1. CASE op \in {"post", "update", "claim", "unclaim", "close", "delete"}
  <2>1. Does(op, r, t, Run(script, t))
    BY ScriptDoes
  <2>2. PICK stmt \in Statement : script = <<stmt>>
    BY <1>1, UpdateStatement DEF Serves
  <2>3. Run(script, t) = t
    BY <2>2, RunOne
  <2> QED
    BY <2>1, <2>3 DEF Does
<1>2. CASE op = "done"
  <2>1. Head(script) = UpdateHeld({"claimed"}, {r}, [status |-> "in_review"])
    BY <1>2 DEF Serves, SubmitCompletionDML
  <2>2. t.status = (IF t.status = "claimed" /\ t.claimedBy = r THEN "in_review" ELSE t.status)
    BY <2>1, SetStatus DEF Hit
  <2> QED
    BY <1>2, <2>2 DEF Promise!After, Promise!Moves, Promise!Adoptions
<1>3. CASE op \in {"reject", "accept-upstream", "close-upstream"}
  <2>1. Head(script) = DeleteCompletions
    <3>1. CASE op = "reject"
      <4>1. script = RejectCompletionDML
        BY <3>1 DEF Serves
      <4>2. PICK b : RejectCompletionDML = <<DeleteCompletions, b>>
        BY DEF RejectCompletionDML
      <4> QED
        BY <4>1, <4>2
    <3>2. CASE op = "close-upstream"
      <4>1. PICK id, by : script = CloseUpstreamDML(id, by)
        BY <3>2 DEF Serves
      <4>2. PICK b, c : CloseUpstreamDML(id, by) = <<DeleteCompletions, b, c>>
        BY DEF CloseUpstreamDML
      <4> QED
        BY <4>1, <4>2
    <3>3. CASE op = "accept-upstream"
      <4>1. PICK id \in Nat, by \in Rigs, x \in Stamp : script = AcceptUpstreamDML(id, by, x)
        BY <3>3 DEF Serves
      <4>2. PICK b, c, d, e : /\ b = InsertCompletion(id, by) /\ d = InsertStamp(x)
                              /\ c = Update(Present, [status |-> "completed", claimedBy |-> by])
                              /\ e = LinkStamp(id, x.id)
        OBVIOUS
      <4>3. AcceptUpstreamDML(id, by, x) = <<DeleteCompletions, b, c, d, e>>
        BY <4>2, Lengths
      <4> QED
        BY <4>1, <4>3
    <3> QED
      BY <1>3, <3>1, <3>2, <3>3
  <2>2. t.completions = {}
    BY <2>1, ApplyDelete
  <2>3. t.status # "in_review"
    BY <2>2 DEF Clean, Kempt
  <2> QED
    BY <1>3, <2>2, <2>3 DEF Promise!After, Promise!Moves, Promise!Adoptions
<1>4. CASE op = "accept"
  <2>1. PICK id \in Nat, x \in Stamp : x \notin t.stamps /\ script = AcceptCompletionDML(id, x)
    BY <1>4 DEF Serves
  <2>2. Head(script) = InsertStamp(x)
    BY <2>1 DEF AcceptCompletionDML
  <2>3. t.stamps = t.stamps \cup {x}
    BY <2>2, ApplyStamp
  <2> QED
    BY <2>1, <2>3
<1> QED
  BY <1>1, <1>2, <1>3, <1>4 DEF Serves

-----------------------------------------------------------------------------
USE SessionsAssumption

(* What is known of the mutex and of the requests: who works holds it, and *)
(* only Delete takes the shortcut.                                         *)
Shaped ==
    /\ DOMAIN mutex = Rigs /\ DOMAIN session = Sessions
    /\ \A s \in Sessions : {"pc", "op"} \subseteq DOMAIN session[s]

Held ==
    \A s \in Sessions : /\ Working(s) => mutex[Owner[s]] = s
                        /\ session[s].pc = "shortcut" => session[s].op = "delete"

MutexInv == Shaped /\ Held

(* Goto overrides the fields of new and leaves the rest.                   *)
LEMMA GotoFields ==
    ASSUME Shaped, NEW s \in Sessions, NEW new, Goto(s, new)
    PROVE  /\ DOMAIN session' = Sessions
           /\ \A t \in Sessions \ {s} : session'[t] = session[t]
           /\ \A f \in DOMAIN session[s] \cap DOMAIN new : session'[s][f] = new[f]
           /\ \A f \in DOMAIN session[s] \ DOMAIN new : session'[s][f] = session[s][f]
           /\ DOMAIN session'[s] = DOMAIN session[s]
BY DEF Goto, Shaped, Override

(* A request that goes on without touching the mutex keeps the invariant   *)
(* as long as it does not start to work.                                   *)
LEMMA GoingOn ==
    ASSUME MutexInv, UNCHANGED mutex, NEW s \in Sessions, NEW new, Goto(s, new),
           Working(s)' => Working(s),
           session'[s].pc = "shortcut" => session'[s].op = "delete"
    PROVE  MutexInv'
<1>1. Shaped'
  BY GotoFields DEF MutexInv, Shaped
<1>2. ASSUME NEW t \in Sessions
      PROVE  /\ Working(t)' => mutex'[Owner[t]] = t
             /\ session'[t].pc = "shortcut" => session'[t].op = "delete"
  <2>1. CASE t = s
    BY <2>1 DEF MutexInv, Held
  <2>2. CASE t # s
    BY <2>2, GotoFields DEF MutexInv, Held, Working
  <2>3. QED BY <2>1, <2>2
<1>3. QED BY <1>1, <1>2 DEF MutexInv, Held

(* A request that does not take the mutex where it should not be working.  *)
LEMMA Saying ==
    ASSUME MutexInv, UNCHANGED mutex, NEW s \in Sessions, NEW answer, Say(s, answer)
    PROVE  MutexInv'
<1> DEFINE new == [pc |-> "answer", answer |-> answer, script |-> << >>]
<1>1. Goto(s, new)
  BY DEF Say
<1>2. session'[s].pc = "answer"
  <2>1. "pc" \in DOMAIN new /\ new["pc"] = "answer"
    OBVIOUS
  <2> HIDE DEF new
  <2>2. QED BY <1>1, <2>1, GotoFields DEF MutexInv, Shaped
<1> HIDE DEF new
<1>3. QED BY <1>1, <1>2, GoingOn DEF Working

(* Going on from pc to pc, the operation being the same.                   *)
LEMMA Moving ==
    ASSUME MutexInv, UNCHANGED mutex, NEW s \in Sessions, NEW new, Goto(s, new),
           "op" \notin DOMAIN new, Working(s),
           "pc" \in DOMAIN new => new.pc # "shortcut"
    PROVE  MutexInv'
<1>1. session'[s].op = session[s].op
  BY GotoFields DEF MutexInv, Shaped
<1>2. session'[s].pc = "shortcut" => session'[s].op = "delete"
  <2>1. CASE "pc" \in DOMAIN new
    BY <2>1, GotoFields DEF MutexInv, Shaped
  <2>2. CASE "pc" \notin DOMAIN new
    <3>1. session'[s].pc = session[s].pc
      BY <2>2, GotoFields DEF MutexInv, Shaped
    <3>2. QED BY <1>1, <3>1 DEF MutexInv, Held
  <2>3. QED BY <2>1, <2>2
<1>3. QED BY <1>2, GoingOn

LEMMA Finishing ==
    ASSUME MutexInv, UNCHANGED mutex, NEW s \in Sessions, Working(s), Finish(s)
    PROVE  MutexInv'
<1>1. CASE session[s].op = "close-upstream"
  <2>1. Goto(s, [pc |-> "retire", script |-> << >>])
    BY <1>1 DEF Finish
  <2>2. QED BY <2>1, Moving
<1>2. CASE session[s].op # "close-upstream"
  BY <1>2, Saying DEF Finish
<1>3. QED BY <1>1, <1>2

-----------------------------------------------------------------------------
(* The steps of a request, one lemma each where the mutex matters.         *)

LEMMA BeginStep ==
    ASSUME MutexInv, NEW s \in Sessions, NEW op, NEW q, Begin(s, op, q)
    PROVE  MutexInv'
<1> DEFINE pc == CASE op \in CheckedBefore    -> "check"
                   [] op \in CheckedUnderLock -> "enter"
                   [] op = "submit-pr"        -> "submit"
                   [] OTHER                   -> "lock"
           new == [op |-> op, submitter |-> q, pc |-> pc]
<1>1. Goto(s, new)
  BY DEF Begin
<1>2. session'[s].op = op /\ session'[s].pc = pc
  <2>1. {"op", "pc"} \subseteq DOMAIN new /\ new["op"] = op /\ new["pc"] = pc
    OBVIOUS
  <2> HIDE DEF new, pc
  <2>2. QED BY <1>1, <2>1, GotoFields DEF MutexInv, Shaped
<1>3. pc = "check" => op \notin CheckedUnderLock
  BY DEF CheckedBefore, CheckedUnderLock
<1>4. pc \in {"check", "enter", "submit", "lock"}
  OBVIOUS
<1> HIDE DEF new, pc
<1>5. ~Working(s)'
  BY <1>2, <1>3, <1>4 DEF Working
<1>6. UNCHANGED mutex
  BY DEF Begin
<1>7. QED BY <1>1, <1>2, <1>4, <1>5, <1>6, GoingOn

LEMMA LockStep ==
    ASSUME MutexInv, NEW s \in Sessions, Lock(s)
    PROVE  MutexInv'
<1>1. PICK new : Goto(s, new) /\ "op" \notin DOMAIN new /\ "pc" \in DOMAIN new
                 /\ new["pc"] # "shortcut"
  <2>1. CASE session[s].pc = "enter"
    BY <2>1 DEF Lock
  <2>2. CASE session[s].pc # "enter" /\ session[s].op = "discard"
    BY <2>2 DEF Lock
  <2>3. CASE session[s].pc # "enter" /\ session[s].op # "discard"
    BY <2>3 DEF Lock
  <2>4. QED BY <2>1, <2>2, <2>3
<1>2. Owner[s] \in Rigs /\ mutex[Owner[s]] = Free
  BY DEF Lock
<1>3. mutex' = [mutex EXCEPT ![Owner[s]] = s]
  BY DEF Lock
<1>4. Shaped'
  BY <1>1, <1>3, GotoFields DEF MutexInv, Shaped
<1>5. session'[s].pc # "shortcut"
  BY <1>1, GotoFields DEF MutexInv, Shaped
<1>6. ASSUME NEW t \in Sessions \ {s}
      PROVE  /\ Working(t)' => mutex'[Owner[t]] = t
             /\ session'[t].pc = "shortcut" => session'[t].op = "delete"
  <2>1. session'[t] = session[t]
    BY <1>1, GotoFields DEF MutexInv
  <2>2. Owner[t] # Owner[s] => mutex'[Owner[t]] = mutex[Owner[t]]
    BY <1>3, <1>2 DEF MutexInv, Shaped
  <2>3. QED BY <1>2, <2>1, <2>2 DEF MutexInv, Held, Working
<1>7. mutex'[Owner[s]] = s
  BY <1>2, <1>3 DEF MutexInv, Shaped
<1>8. QED BY <1>4, <1>5, <1>6, <1>7 DEF MutexInv, Held

LEMMA CheckStep ==
    ASSUME MutexInv, NEW s \in Sessions, Check(s)
    PROVE  MutexInv'
<1>1. UNCHANGED mutex
  BY DEF Check
<1>2. CASE Say(s, "unchanged")
  BY <1>1, <1>2, Saying
<1>3. CASE Goto(s, [pc |-> AfterCheck(session[s].op)])
  <2> DEFINE new == [pc |-> AfterCheck(session[s].op)]
  <2>1. session'[s].pc = AfterCheck(session[s].op) /\ session'[s].op = session[s].op
    <3>1. DOMAIN new = {"pc"} /\ new["pc"] = AfterCheck(session[s].op)
      OBVIOUS
    <3>2. Goto(s, new)
      BY <1>3
    <3> HIDE DEF new
    <3>3. QED BY <3>1, <3>2, GotoFields DEF MutexInv, Shaped
  <2>2. session[s].pc = "check"
    BY DEF Check
  <2>3. Working(s)' => Working(s)
    BY <2>1, <2>2 DEF Working, AfterCheck
  <2>4. session'[s].pc = "shortcut" => session'[s].op = "delete"
    BY <2>1 DEF AfterCheck
  <2>5. QED BY <1>1, <1>3, <2>3, <2>4, GoingOn
<1>4. QED BY <1>2, <1>3 DEF Check

(* Delete gives the mutex back only to take it again before it goes on.    *)
LEMMA ShortcutStep ==
    ASSUME MutexInv, NEW s \in Sessions, Shortcut(s)
    PROVE  MutexInv'
<1>1. Working(s)
  BY DEF Shortcut, Working, MutexInv, Held, CheckedUnderLock
<1>2. CASE Goto(s, [pc |-> "close", answer |-> "discarded"]) /\ UNCHANGED mutex
  BY <1>1, <1>2, Moving
<1>3. CASE /\ Goto(s, [pc |-> "lock"])
           /\ mutex' = [mutex EXCEPT ![Owner[s]] = Free]
  <2> DEFINE new == [pc |-> "lock"]
  <2>1. session'[s].pc = "lock"
    <3>1. "pc" \in DOMAIN new /\ new["pc"] = "lock" /\ Goto(s, new)
      BY <1>3
    <3> HIDE DEF new
    <3>2. QED BY <3>1, GotoFields DEF MutexInv, Shaped
  <2>2. Shaped'
    BY <1>3, GotoFields DEF MutexInv, Shaped
  <2>3. ASSUME NEW t \in Sessions \ {s}
        PROVE  /\ Working(t)' => mutex'[Owner[t]] = t
               /\ session'[t].pc = "shortcut" => session'[t].op = "delete"
    <3>1. session'[t] = session[t]
      BY <1>3, GotoFields DEF MutexInv
    <3>2. Working(t) => Owner[t] # Owner[s]
      BY <1>1 DEF MutexInv, Held
    <3>3. Owner[t] # Owner[s] => mutex'[Owner[t]] = mutex[Owner[t]]
      BY <1>3 DEF MutexInv, Shaped
    <3>4. QED BY <3>1, <3>2, <3>3 DEF MutexInv, Held, Working
  <2>4. QED BY <2>1, <2>2, <2>3 DEF MutexInv, Held, Working
<1>4. QED BY <1>2, <1>3 DEF Shortcut

LEMMA AnswerStep ==
    ASSUME MutexInv, NEW s \in Sessions, Answer(s)
    PROVE  MutexInv'
<1>1. session' = [session EXCEPT ![s] = Sleeping]
  BY DEF Answer
<1>2. \A t \in Sessions \ {s} : session'[t] = session[t]
  BY <1>1 DEF MutexInv, Shaped
<1>3. session'[s] = Sleeping
  BY <1>1 DEF MutexInv, Shaped
<1>4. Shaped'
  BY <1>1, <1>2, <1>3 DEF MutexInv, Shaped, Sleeping, Answer
<1>5. ASSUME NEW t \in Sessions \ {s}, mutex[Owner[t]] = t
      PROVE  mutex'[Owner[t]] = t
  BY <1>5 DEF Answer, MutexInv, Shaped
<1>6. QED BY <1>2, <1>3, <1>4, <1>5 DEF MutexInv, Held, Working, Sleeping

LEMMA LookupStep ==
    ASSUME MutexInv, NEW s \in Sessions, LookupCompletion(s) \/ LookupSubmission(s)
    PROVE  MutexInv'
<1>1. UNCHANGED mutex /\ Working(s)
  BY DEF LookupCompletion, LookupSubmission, Working, CheckedUnderLock
<1>2. Say(s, "error") \/ \E script : Goto(s, [pc |-> "plan", script |-> script])
  BY DEF LookupCompletion, LookupSubmission
<1>3. CASE Say(s, "error")
  BY <1>1, <1>3, Saying
<1>4. ASSUME NEW script, Goto(s, [pc |-> "plan", script |-> script])
      PROVE  MutexInv'
  BY <1>1, <1>4, Moving
<1>5. QED BY <1>2, <1>3, <1>4

LEMMA PlanStep ==
    ASSUME MutexInv, NEW s \in Sessions, Plan(s)
    PROVE  MutexInv'
<1>1. UNCHANGED mutex /\ Working(s)
  BY DEF Plan, Working
<1>2. PICK onMain, from, script :
        Goto(s, [pc |-> "exec", mainStatus |-> onMain, from |-> from, script |-> script])
  BY DEF Plan
<1>3. QED BY <1>1, <1>2, Moving

LEMMA WriteStep ==
    ASSUME MutexInv, NEW s \in Sessions, Write(s)
    PROVE  MutexInv'
<1>1. UNCHANGED mutex /\ Working(s)
  BY DEF Write, Working
<1>2. CASE Say(s, "error")
  BY <1>1, <1>2, Saying
<1>3. ASSUME NEW script, NEW pc \in {"settle", "exec"},
             Goto(s, [script |-> script, from |-> "branch", pc |-> pc])
      PROVE  MutexInv'
  BY <1>1, <1>3, Moving
<1>4. QED BY <1>2, <1>3 DEF Write

LEMMA SettleStep ==
    ASSUME MutexInv, NEW s \in Sessions, Settle(s)
    PROVE  MutexInv'
<1>1. UNCHANGED mutex /\ Working(s)
  BY DEF Settle, Working
<1>2. ASSUME NEW pc \in {"close", "offer"}, NEW answer,
             Goto(s, [pc |-> pc, answer |-> answer])
      PROVE  MutexInv'
  BY <1>1, <1>2, Moving
<1>3. QED BY <1>2 DEF Settle

LEMMA CleanupStep ==
    ASSUME MutexInv, NEW s \in Sessions,
           ClosePR(s) \/ DropBranch(s) \/ Clear(s) \/ CreatePR(s) \/ CloseUpstreamPR(s)
    PROVE  MutexInv'
<1>1. UNCHANGED mutex /\ Working(s)
  BY DEF ClosePR, DropBranch, Clear, CreatePR, CloseUpstreamPR, Working
<1>2. CASE Finish(s)
  BY <1>1, <1>2, Finishing
<1>3. ASSUME NEW answer, Say(s, answer) PROVE MutexInv'
  BY <1>1, <1>3, Saying
<1>4. CASE Goto(s, [pc |-> "drop"])
  BY <1>1, <1>4, Moving
<1>5. CASE Goto(s, [pc |-> "clear", script |-> ClearScript])
  BY <1>1, <1>5, Moving
<1>6. ASSUME NEW script, Goto(s, [script |-> script]) PROVE MutexInv'
  BY <1>1, <1>6, Moving
<1>7. CASE ClosePR(s)
  BY <1>7, <1>4 DEF ClosePR
<1>8. CASE DropBranch(s)
  BY <1>8, <1>2, <1>5 DEF DropBranch
<1>9. CASE Clear(s)
  BY <1>9, <1>2, <1>3, <1>6 DEF Clear
<1>10. CASE CreatePR(s)
  BY <1>10, <1>2 DEF CreatePR
<1>11. CASE CloseUpstreamPR(s)
  BY <1>11, <1>3 DEF CloseUpstreamPR
<1>12. QED BY <1>7, <1>8, <1>9, <1>10, <1>11

LEMMA MutexStep == ASSUME MutexInv, [Next]_vars PROVE MutexInv'
<1>1. ASSUME NEW s \in Sessions, NEW op, NEW q, Begin(s, op, q) PROVE MutexInv'
  BY <1>1, BeginStep
<1>2. ASSUME NEW s \in Sessions, SubmitPR(s) PROVE MutexInv'
  BY <1>2, Saying DEF SubmitPR
<1>3. ASSUME NEW s \in Sessions, Step(s) PROVE MutexInv'
  BY <1>2, <1>3, LockStep, CheckStep, ShortcutStep, LookupStep, PlanStep, WriteStep,
     SettleStep, CleanupStep, AnswerStep DEF Step
<1>4. ASSUME UNCHANGED <<mutex, session>> PROVE MutexInv'
  BY <1>4 DEF MutexInv, Shaped, Held, Working
<1>5. ASSUME NEW r \in Rigs, MergePR(r) \/ RefreshListing(r) PROVE MutexInv'
  BY <1>4, <1>5 DEF MergePR, RefreshListing
<1>6. QED BY <1>1, <1>3, <1>4, <1>5 DEF Next, vars

(* At any time at most one request of a rig is between the check it makes   *)
(* under Client.mu, or its plan, and the last call of its cleanup.          *)
THEOREM MutualExclusion == Spec => []OneWriter
<1>1. Init => MutexInv
  BY DEF Init, RefsInit, MutexInv, Shaped, Held, Working, Sleeping
<1>2. MutexInv /\ [Next]_vars => MutexInv'
  BY MutexStep
<1>3. MutexInv => OneWriter
  BY DEF MutexInv, Held, OneWriter
<1>4. QED BY <1>1, <1>2, <1>3, PTL DEF Spec

(* The tables at every ref, all of them finite.                               *)
RefsTyped ==
    /\ Rows(upstream)
    /\ main \in [Rigs -> Tables] /\ (\A r \in Rigs : Rows(main[r]))
    /\ base \in [Rigs -> Tables] /\ (\A r \in Rigs : Rows(base[r]))
    /\ branch \in [Rigs -> Tables \cup {NoBranch}]
    /\ \A r \in Rigs : branch[r] = NoBranch \/ Rows(branch[r])
    /\ pr \in [Rigs -> BOOLEAN] /\ listed \in [Rigs -> Rigs \cup {None}]

Typed == RefsTyped /\ session \in [Sessions -> Session]

LEMMA NewIdIsNew ==
    ASSUME Typed, NEW others, IsFiniteSet(others)
    PROVE  /\ NewId(others) \in Nat /\ NewId(others) \notin others
           /\ \A r \in Rigs : /\ NewId(others) \notin IdsIn(main[r])
                              /\ branch[r] # NoBranch => NewId(others) \notin IdsIn(branch[r])
<1> DEFINE Tips == {upstream} \cup {main[r] : r \in Rigs} \cup ({branch[r] : r \in Rigs} \ {NoBranch})
           f == [t \in Tips |-> IdsIn(t)]
           g == [s \in Sessions |-> IdsNamed(session[s].script)]
           A == UNION {IdsIn(t) : t \in Tips}
           B == UNION {IdsNamed(session[s].script) : s \in Sessions}
<1>1. IsFiniteSet(Tips)
  <2>1. IsFiniteSet({main[r] : r \in Rigs}) /\ IsFiniteSet({branch[r] : r \in Rigs})
    <3>1. IsFiniteSet(Rigs) /\ DOMAIN main = Rigs /\ DOMAIN branch = Rigs
      BY DEF Typed, RefsTyped
    <3> QED
      BY <3>1, FiniteImage
  <2>2. IsFiniteSet({branch[r] : r \in Rigs} \ {NoBranch})
    BY <2>1, FS_Subset
  <2>3. IsFiniteSet({upstream})
    BY FS_Singleton
  <2>4. IsFiniteSet({upstream} \cup {main[r] : r \in Rigs})
    BY <2>1, <2>3, FS_Union
  <2> QED
    BY <2>2, <2>4, FS_Union
<1>2. IsFiniteSet(A)
  <2>1. \A t \in Tips : IsFiniteSet(IdsIn(t))
    <3>1. \A t \in Tips : Rows(t)
      BY DEF Typed, RefsTyped
    <3> QED
      BY <3>1, TableIdsFinite
  <2>2. \A T \in {f[t] : t \in Tips} : IsFiniteSet(T)
    BY <2>1
  <2>3. DOMAIN f = Tips
    OBVIOUS
  <2>5. {f[t] : t \in Tips} = {IdsIn(t) : t \in Tips}
    OBVIOUS
  <2> HIDE DEF f, Tips
  <2>4. IsFiniteSet({f[t] : t \in Tips})
    BY <1>1, <2>3, FiniteImage
  <2>6. IsFiniteSet(UNION {f[t] : t \in Tips})
    BY <2>2, <2>4, FS_UNION
  <2> QED
    BY <2>5, <2>6
<1>3. IsFiniteSet(B)
  <2>1. \A s \in Sessions : IsFiniteSet(IdsNamed(session[s].script))
    <3>1. \A s \in Sessions : session[s].script \in Seq(Statement)
      BY DEF Typed, Session
    <3> QED
      BY <3>1, ScriptIdsFinite
  <2>2. \A T \in {g[s] : s \in Sessions} : IsFiniteSet(T)
    BY <2>1
  <2>3. DOMAIN g = Sessions /\ IsFiniteSet(Sessions)
    OBVIOUS
  <2>5. {g[s] : s \in Sessions} = {IdsNamed(session[s].script) : s \in Sessions}
    OBVIOUS
  <2> HIDE DEF g
  <2>4. IsFiniteSet({g[s] : s \in Sessions})
    BY <2>3, FiniteImage
  <2>6. IsFiniteSet(UNION {g[s] : s \in Sessions})
    BY <2>2, <2>4, FS_UNION
  <2> QED
    BY <2>5, <2>6
<1> DEFINE ids == others \cup A \cup B
<1>5. NewId(others) = Unused(ids)
  BY DEF NewId
<1>6. IsFiniteSet(ids)
  <2> HIDE DEF A, B
  <2> QED
    BY <1>2, <1>3, FS_Union
<1>7. NewId(others) \in Nat /\ NewId(others) \notin ids
  <2> HIDE DEF ids
  <2> QED
    BY <1>5, <1>6, UnusedIsUnused
<1>8. \A t \in Tips : IdsIn(t) \subseteq ids
  <2>1. \A t \in Tips : IdsIn(t) \subseteq A
    OBVIOUS
  <2> HIDE DEF A, B
  <2> QED
    BY <2>1
<1>9. \A r \in Rigs : main[r] \in Tips /\ (branch[r] # NoBranch => branch[r] \in Tips)
  OBVIOUS
<1> HIDE DEF Tips, A, B
<1> QED
  BY <1>7, <1>8, <1>9

Pcs == {"idle", "check", "enter", "shortcut", "lookup", "lock", "plan", "exec", "settle",
        "close", "drop", "clear", "offer", "retire", "submit", "answer"}
Answers == {"none", "error", "unchanged", "kept", "reverted", "discarded"}

(* Request s is given these fields, and no other request changes.             *)
Becomes(s, pc, op, submitter, script, from) ==
    /\ session' \in [Sessions -> Session]
    /\ \A t \in Sessions \ {s} : session'[t] = session[t]
    /\ session'[s].pc = pc /\ session'[s].op = op /\ session'[s].submitter = submitter
    /\ session'[s].script = script /\ session'[s].from = from

LEMMA GotoTyped ==
    ASSUME session \in [Sessions -> Session], NEW s \in Sessions, NEW new, Goto(s, new),
           "pc" \in DOMAIN new => new["pc"] \in Pcs,
           "op" \in DOMAIN new => new["op"] \in Operations,
           "script" \in DOMAIN new => new["script"] \in Seq(Statement),
           "from" \in DOMAIN new => new["from"] \in {"main", "branch"},
           "mainStatus" \in DOMAIN new => new["mainStatus"] \in Status,
           "submitter" \in DOMAIN new => new["submitter"] \in Rigs \cup {None},
           "answer" \in DOMAIN new => new["answer"] \in Answers
    PROVE  Becomes(s, IF "pc" \in DOMAIN new THEN new["pc"] ELSE session[s].pc,
                      IF "op" \in DOMAIN new THEN new["op"] ELSE session[s].op,
                      IF "submitter" \in DOMAIN new THEN new["submitter"] ELSE session[s].submitter,
                      IF "script" \in DOMAIN new THEN new["script"] ELSE session[s].script,
                      IF "from" \in DOMAIN new THEN new["from"] ELSE session[s].from)
<1> DEFINE me == session[s]
           u == Override(me, new)
           Fields == {"pc", "op", "script", "from", "mainStatus", "submitter", "answer"}
<1>1. DOMAIN me = Fields /\ me \in Session
  BY DEF Session
<1>2. /\ me["pc"] \in Pcs /\ me["op"] \in Operations /\ me["script"] \in Seq(Statement)
      /\ me["from"] \in {"main", "branch"} /\ me["mainStatus"] \in Status
      /\ me["submitter"] \in Rigs \cup {None} /\ me["answer"] \in Answers
  BY DEF Session, Pcs, Answers
<1>3. \A f \in Fields : u[f] = IF f \in DOMAIN new THEN new[f] ELSE me[f]
  BY <1>1 DEF Override
<1>4. u = [f \in Fields |-> u[f]]
  BY <1>1 DEF Override
<1>5. session' = [session EXCEPT ![s] = u]
  BY DEF Goto
<1> HIDE DEF u, me
<1>6. /\ u["pc"] \in Pcs /\ u["op"] \in Operations /\ u["script"] \in Seq(Statement)
      /\ u["from"] \in {"main", "branch"} /\ u["mainStatus"] \in Status
      /\ u["submitter"] \in Rigs \cup {None} /\ u["answer"] \in Answers
  BY <1>2, <1>3
<1>7. u = [pc |-> u["pc"], op |-> u["op"], script |-> u["script"], from |-> u["from"],
           mainStatus |-> u["mainStatus"], submitter |-> u["submitter"], answer |-> u["answer"]]
  BY <1>4
<1>8. u \in Session
  BY <1>6, <1>7 DEF Session, Pcs, Answers
<1>9. session' \in [Sessions -> Session] /\ session'[s] = u
      /\ \A t \in Sessions \ {s} : session'[t] = session[t]
  BY <1>5, <1>8
<1>10. /\ u.pc = u["pc"] /\ u.op = u["op"] /\ u.submitter = u["submitter"]
       /\ u.script = u["script"] /\ u.from = u["from"]
       /\ me.pc = me["pc"] /\ me.op = me["op"] /\ me.submitter = me["submitter"]
       /\ me.script = me["script"] /\ me.from = me["from"]
  OBVIOUS
<1> QED
  BY <1>3, <1>9, <1>10 DEF Becomes, me

LEMMA GotoPc ==
    ASSUME Typed, NEW s \in Sessions, NEW pc \in Pcs, Goto(s, [pc |-> pc])
    PROVE  Becomes(s, pc, session[s].op, session[s].submitter, session[s].script, session[s].from)
<1> DEFINE new == [pc |-> pc]
<1>1. DOMAIN new = {"pc"} /\ new["pc"] = pc /\ Goto(s, new)
  OBVIOUS
<1> HIDE DEF new
<1> QED
  BY <1>1, GotoTyped DEF Typed

LEMMA GotoAnswer ==
    ASSUME Typed, NEW s \in Sessions, NEW pc \in Pcs, NEW answer \in Answers,
           Goto(s, [pc |-> pc, answer |-> answer])
    PROVE  Becomes(s, pc, session[s].op, session[s].submitter, session[s].script, session[s].from)
<1> DEFINE new == [pc |-> pc, answer |-> answer]
<1>1. DOMAIN new = {"pc", "answer"} /\ new["pc"] = pc /\ new["answer"] = answer /\ Goto(s, new)
  OBVIOUS
<1> HIDE DEF new
<1> QED
  BY <1>1, GotoTyped DEF Typed

LEMMA GotoScript ==
    ASSUME Typed, NEW s \in Sessions, NEW pc \in Pcs, NEW script \in Seq(Statement),
           Goto(s, [pc |-> pc, script |-> script])
    PROVE  Becomes(s, pc, session[s].op, session[s].submitter, script, session[s].from)
<1> DEFINE new == [pc |-> pc, script |-> script]
<1>1. DOMAIN new = {"pc", "script"} /\ new["pc"] = pc /\ new["script"] = script /\ Goto(s, new)
  OBVIOUS
<1> HIDE DEF new
<1> QED
  BY <1>1, GotoTyped DEF Typed

LEMMA GotoRest ==
    ASSUME Typed, NEW s \in Sessions, NEW script \in Seq(Statement),
           Goto(s, [script |-> script])
    PROVE  Becomes(s, session[s].pc, session[s].op, session[s].submitter, script, session[s].from)
<1> DEFINE new == [script |-> script]
<1>1. DOMAIN new = {"script"} /\ new["script"] = script /\ Goto(s, new)
  OBVIOUS
<1> HIDE DEF new
<1> QED
  BY <1>1, GotoTyped DEF Typed

LEMMA GotoSaid ==
    ASSUME Typed, NEW s \in Sessions, NEW answer \in Answers, Say(s, answer)
    PROVE  Becomes(s, "answer", session[s].op, session[s].submitter, << >>, session[s].from)
<1> DEFINE new == [pc |-> "answer", answer |-> answer, script |-> << >>]
<1>1. /\ DOMAIN new = {"pc", "answer", "script"} /\ new["pc"] = "answer" /\ new["answer"] = answer
      /\ new["script"] = << >> /\ Goto(s, new) /\ << >> \in Seq(Statement) /\ "answer" \in Pcs
  BY DEF Say, Pcs
<1> HIDE DEF new
<1> QED
  BY <1>1, GotoTyped DEF Typed

LEMMA GotoBegun ==
    ASSUME Typed, NEW s \in Sessions, NEW op \in Operations, NEW q \in Rigs \cup {None},
           NEW pc \in Pcs, Goto(s, [op |-> op, submitter |-> q, pc |-> pc])
    PROVE  Becomes(s, pc, op, q, session[s].script, session[s].from)
<1> DEFINE new == [op |-> op, submitter |-> q, pc |-> pc]
<1>1. /\ DOMAIN new = {"op", "submitter", "pc"} /\ new["op"] = op /\ new["submitter"] = q
      /\ new["pc"] = pc /\ Goto(s, new)
  OBVIOUS
<1> HIDE DEF new
<1> QED
  BY <1>1, GotoTyped DEF Typed

LEMMA GotoPlanned ==
    ASSUME Typed, NEW s \in Sessions, NEW pc \in Pcs, NEW onMain \in Status,
           NEW from \in {"main", "branch"}, NEW script \in Seq(Statement),
           Goto(s, [pc |-> pc, mainStatus |-> onMain, from |-> from, script |-> script])
    PROVE  Becomes(s, pc, session[s].op, session[s].submitter, script, from)
<1> DEFINE new == [pc |-> pc, mainStatus |-> onMain, from |-> from, script |-> script]
<1>1. /\ DOMAIN new = {"pc", "mainStatus", "from", "script"} /\ new["mainStatus"] = onMain
      /\ new["from"] = from /\ new["script"] = script /\ new["pc"] = pc /\ Goto(s, new)
  OBVIOUS
<1> HIDE DEF new
<1> QED
  BY <1>1, GotoTyped DEF Typed

LEMMA GotoNext ==
    ASSUME Typed, NEW s \in Sessions, NEW pc \in Pcs, NEW script \in Seq(Statement),
           Goto(s, [script |-> script, from |-> "branch", pc |-> pc])
    PROVE  Becomes(s, pc, session[s].op, session[s].submitter, script, "branch")
<1> DEFINE new == [script |-> script, from |-> "branch", pc |-> pc]
<1>1. /\ DOMAIN new = {"script", "from", "pc"} /\ new["from"] = "branch"
      /\ new["script"] = script /\ new["pc"] = pc /\ Goto(s, new)
  OBVIOUS
<1> HIDE DEF new
<1> QED
  BY <1>1, GotoTyped DEF Typed

Lookups == {"accept", "accept-upstream", "close-upstream"}

(* How far a request can have got with its operation and its statements.      *)
FlowAt(pc, op, submitter, script) ==
    /\ pc = "enter" => op \in CheckedUnderLock
    /\ pc = "check" => op \in CheckedUnderLock \cup CheckedBefore
    /\ pc = "shortcut" => op = "delete"
    /\ pc = "lookup" => op \in Lookups
    /\ pc = "lock" => op \in SimpleOps \cup {"discard"}
    /\ pc = "plan" => (script = << >> /\ op \in SimpleOps) \/ Len(script) \in 1 .. 5
    /\ pc = "exec" => Len(script) \in 1 .. 5
    /\ pc = "clear" => script \in {ClearScript, <<EraseWanted>>}
    /\ pc \notin {"plan", "exec", "clear"} => script = << >>
    /\ op \in {"accept-upstream", "close-upstream"} => submitter \in Rigs

Flow(s) == FlowAt(session[s].pc, session[s].op, session[s].submitter, session[s].script)

Known == Typed /\ \A s \in Sessions : Flow(s)

(* Request s goes on to pc with this script, the operation being the same.    *)
GoesOn(s, pc, script) ==
    Becomes(s, pc, session[s].op, session[s].submitter, script, session[s].from)

(* What each step does to the request that takes it.                          *)
LEMMA BeginDoes ==
    ASSUME Known, NEW s \in Sessions, NEW op \in Ops, NEW q \in Submitters(op), Begin(s, op, q)
    PROVE  /\ \E pc \in {"check", "enter", "submit", "lock"} :
                 /\ Becomes(s, pc, op, q, << >>, session[s].from)
                 /\ pc = "check" => op \in CheckedBefore
                 /\ pc = "enter" => op \in CheckedUnderLock
                 /\ pc = "submit" => op = "submit-pr"
                 /\ pc = "lock" => op \in {"post", "update", "discard"}
           /\ q \in Rigs \cup {None}
           /\ op \in {"accept-upstream", "close-upstream"} => q \in Rigs
<1> DEFINE pc == CASE op \in CheckedBefore    -> "check"
                   [] op \in CheckedUnderLock -> "enter"
                   [] op = "submit-pr"        -> "submit"
                   [] OTHER                   -> "lock"
<1>1. pc \in Pcs /\ pc \in {"check", "enter", "submit", "lock"}
  BY DEF Pcs
<1>2. /\ pc = "check" => op \in CheckedBefore
      /\ pc = "enter" => op \in CheckedUnderLock
      /\ pc = "submit" => op = "submit-pr"
  BY DEF CheckedBefore, CheckedUnderLock
<1>3. op \in Operations
  OBVIOUS
<1>4. pc = "lock" => op \in {"post", "update", "discard"}
  BY <1>3 DEF Operations, CheckedBefore, CheckedUnderLock
<1>5. q \in Rigs \cup {None} /\ (op \in {"accept-upstream", "close-upstream"} => q \in Rigs)
  BY DEF Submitters
<1>6. Goto(s, [op |-> op, submitter |-> q, pc |-> pc]) /\ session[s].script = << >>
  BY DEF Begin, Known, Flow, FlowAt
<1> HIDE DEF pc
<1>7. Becomes(s, pc, op, q, session[s].script, session[s].from)
  BY <1>1, <1>3, <1>5, <1>6, GotoBegun DEF Known
<1> QED
  BY <1>1, <1>2, <1>4, <1>5, <1>6, <1>7

LEMMA LockDoes ==
    ASSUME Known, NEW s \in Sessions, Lock(s)
    PROVE  \/ session[s].pc = "enter" /\ GoesOn(s, "check", << >>)
           \/ session[s].pc = "lock" /\ session[s].op = "discard" /\ GoesOn(s, "close", << >>)
           \/ session[s].pc = "lock" /\ session[s].op \in SimpleOps /\ GoesOn(s, "plan", << >>)
<1>1. session[s].pc \in {"enter", "lock"} /\ session[s].script = << >>
  BY DEF Lock, Known, Flow, FlowAt
<1>2. {"check", "close", "plan"} \subseteq Pcs /\ "discarded" \in Answers
  BY DEF Pcs, Answers
<1>3. CASE session[s].pc = "enter"
  <2>1. Goto(s, [pc |-> "check"])
    BY <1>3 DEF Lock, Known, Flow, FlowAt, CheckedUnderLock
  <2> QED
    BY <1>1, <1>2, <1>3, <2>1, GotoPc DEF Known, GoesOn
<1>4. CASE session[s].pc = "lock" /\ session[s].op = "discard"
  <2>1. Goto(s, [pc |-> "close", answer |-> "discarded"])
    BY <1>4 DEF Lock
  <2> QED
    BY <1>1, <1>2, <1>4, <2>1, GotoAnswer DEF Known, GoesOn
<1>5. CASE session[s].pc = "lock" /\ session[s].op # "discard"
  <2>1. Goto(s, [pc |-> "plan"]) /\ session[s].op \in SimpleOps
    BY <1>5 DEF Lock, Known, Flow, FlowAt
  <2> QED
    BY <1>1, <1>2, <1>5, <2>1, GotoPc DEF Known, GoesOn
<1> QED
  BY <1>1, <1>3, <1>4, <1>5

LEMMA CheckDoes ==
    ASSUME Known, NEW s \in Sessions, Check(s)
    PROVE  \/ GoesOn(s, "answer", << >>)
           \/ /\ GoesOn(s, AfterCheck(session[s].op), << >>)
              /\ \E onBranch \in Read(branch[Owner[s]]), onMain \in Read(main[Owner[s]]) :
                    ~(onBranch = Target(session[s].op) /\ onBranch # onMain)
<1>1. session[s].script = << >>
  BY DEF Check, Known, Flow, FlowAt
<1>2. AfterCheck(session[s].op) \in Pcs /\ "unchanged" \in Answers
  BY DEF Pcs, AfterCheck, Answers
<1>3. CASE Say(s, "unchanged")
  BY <1>2, <1>3, GotoSaid DEF Known, GoesOn
<1>4. CASE /\ Goto(s, [pc |-> AfterCheck(session[s].op)])
           /\ \E onBranch \in Read(branch[Owner[s]]), onMain \in Read(main[Owner[s]]) :
                    ~(onBranch = Target(session[s].op) /\ onBranch # onMain)
  BY <1>1, <1>2, <1>4, GotoPc DEF Known, GoesOn
<1> QED
  BY <1>3, <1>4 DEF Check

LEMMA ShortcutDoes ==
    ASSUME Known, NEW s \in Sessions, Shortcut(s)
    PROVE  GoesOn(s, "close", << >>) \/ GoesOn(s, "lock", << >>)
<1>1. session[s].script = << >>
  BY DEF Shortcut, Known, Flow, FlowAt
<1>2. {"close", "lock"} \subseteq Pcs /\ "discarded" \in Answers
  BY DEF Pcs, Answers
<1>3. CASE Goto(s, [pc |-> "close", answer |-> "discarded"])
  BY <1>1, <1>2, <1>3, GotoAnswer DEF Known, GoesOn
<1>4. CASE Goto(s, [pc |-> "lock"])
  BY <1>1, <1>2, <1>4, GotoPc DEF Known, GoesOn
<1> QED
  BY <1>3, <1>4 DEF Shortcut

(* No row of a fork has the id.                                               *)
New(id) ==
    \A q \in Rigs : /\ id \notin IdsIn(main[q])
                    /\ branch[q] # NoBranch => id \notin IdsIn(branch[q])

(* The stamp of an acceptance: by r, of subject, with an id of its own.       *)
LEMMA StampIsNew ==
    ASSUME Typed, NEW r \in Rigs, NEW subject \in Rigs, NEW context \in Nat
    PROVE  LET x == StampFor(r, subject, context) IN
           /\ x \in Stamp /\ x.context = context /\ x.id # context
           /\ x.author = r /\ x.subject = subject /\ New(x.id)
<1> DEFINE id == NewId({context})
<1>1. IsFiniteSet({context})
  BY FS_Singleton
<1>2. PICK others : others = {context}
  OBVIOUS
<1>3. /\ id \in Nat /\ id # context
      /\ New(id)
  BY <1>1, <1>2, NewIdIsNew DEF New
<1>4. StampFor(r, subject, context) = [id |-> id, author |-> r, subject |-> subject, context |-> context]
  BY DEF StampFor
<1> HIDE DEF id
<1> QED
  BY <1>3, <1>4 DEF Stamp, New

LEMMA LookupCompletionDoes ==
    ASSUME Known, NEW s \in Sessions, LookupCompletion(s)
    PROVE  \/ GoesOn(s, "answer", << >>)
           \/ /\ session[s].pc = "lookup" /\ session[s].op = "accept"
              /\ \E id \in Nat, x \in Stamp :
                   /\ x.context = id /\ x.id # id
                   /\ x.author = Owner[s] /\ New(x.id)
                   /\ GoesOn(s, "plan", AcceptCompletionDML(id, x))
<1> DEFINE r == Owner[s]
<1>1. r \in Rigs /\ "error" \in Answers /\ "plan" \in Pcs
  BY DEF Pcs, Answers
<1>2. CASE Say(s, "error")
  BY <1>1, <1>2, GotoSaid DEF Known, GoesOn
<1>3. ASSUME NEW c \in upstream.completions,
             Goto(s, [pc |-> "plan",
                      script |-> AcceptCompletionDML(c.id, StampFor(r, c.by, c.id))])
      PROVE  \E id \in Nat, x \in Stamp :
                   /\ x.context = id /\ x.id # id
                   /\ x.author = Owner[s] /\ New(x.id)
                   /\ GoesOn(s, "plan", AcceptCompletionDML(id, x))
  <2>1. c.id \in Nat /\ c.by \in Rigs
    <3>1. c \in Completion
      BY DEF Known, Typed, RefsTyped, Rows, Tables
    <3> QED
      BY <3>1 DEF Completion
  <2>2. PICK id, by, x : id = c.id /\ by = c.by /\ x = StampFor(r, by, id)
    OBVIOUS
  <2>3. /\ x \in Stamp /\ x.context = id /\ x.id # id
        /\ x.author = Owner[s] /\ New(x.id)
    BY <1>1, <2>1, <2>2, StampIsNew DEF Known
  <2>4. AcceptCompletionDML(id, x) \in Seq(Statement)
    BY <1>1, <2>1, <2>2, <2>3, ScriptsTyped
  <2>5. Goto(s, [pc |-> "plan", script |-> AcceptCompletionDML(id, x)])
    BY <1>3, <2>2
  <2> HIDE DEF r
  <2>6. PICK script : script = AcceptCompletionDML(id, x)
    OBVIOUS
  <2>7. GoesOn(s, "plan", script)
    BY <1>1, <2>4, <2>5, <2>6, GotoScript DEF Known, GoesOn
  <2> QED
    BY <2>1, <2>2, <2>3, <2>6, <2>7
<1> QED
  BY <1>2, <1>3 DEF LookupCompletion

LEMMA LookupSubmissionDoes ==
    ASSUME Known, NEW s \in Sessions, LookupSubmission(s)
    PROVE  \/ GoesOn(s, "answer", << >>)
           \/ /\ session[s].pc = "lookup" /\ session[s].op \in {"accept-upstream", "close-upstream"}
              /\ \E id \in Nat, by \in Rigs :
                   /\ New(id)
                   /\ \/ session[s].op = "close-upstream" /\ GoesOn(s, "plan", CloseUpstreamDML(id, by))
                      \/ session[s].op = "accept-upstream" /\ \E x \in Stamp :
                           /\ x.context = id /\ x.id # id
                           /\ x.author = Owner[s] /\ x.subject = by /\ New(x.id)
                           /\ GoesOn(s, "plan", AcceptUpstreamDML(id, by, x))
<1> DEFINE r == Owner[s]
           theirs == listed[session[s].submitter]
           new == NewId({})
<1>1. r \in Rigs /\ "error" \in Answers /\ "plan" \in Pcs
  BY DEF Pcs, Answers
<1>2. CASE Say(s, "error")
  BY <1>1, <1>2, GotoSaid DEF Known, GoesOn
<1>3. session[s].pc = "lookup" /\ session[s].op \in {"accept-upstream", "close-upstream"}
  BY DEF LookupSubmission
<1>4. theirs \in Rigs \cup {None}
  BY <1>3 DEF Known, Flow, FlowAt, Typed, RefsTyped
<1>5. PICK id : id = new
  OBVIOUS
<1>6. id \in Nat /\ New(id)
  <2>1. PICK others : others = {}
    OBVIOUS
  <2>2. IsFiniteSet(others)
    BY <2>1, FS_EmptySet
  <2>3. id = NewId(others)
    BY <1>5, <2>1
  <2> QED
    BY <2>2, <2>3, NewIdIsNew DEF Known, New
<1>7. ASSUME theirs # None, Goto(s, [pc |-> "plan", script |-> CloseUpstreamDML(new, theirs)])
      PROVE  \E by \in Rigs : GoesOn(s, "plan", CloseUpstreamDML(id, by))
  <2>1. PICK by, script : by = theirs /\ script = CloseUpstreamDML(id, by)
    OBVIOUS
  <2>2. by \in Rigs /\ script \in Seq(Statement)
    <3>1. by \in Rigs
      BY <1>4, <1>7, <2>1
    <3>2. Stamp # {}
      <4>1. [id |-> id, author |-> by, subject |-> by, context |-> id] \in Stamp
        BY <1>6, <3>1 DEF Stamp
      <4> QED
        BY <4>1
    <3> QED
      BY <1>6, <2>1, <3>1, <3>2, ScriptsTyped
  <2>3. Goto(s, [pc |-> "plan", script |-> script])
    BY <1>5, <1>7, <2>1
  <2>4. GoesOn(s, "plan", script)
    BY <1>1, <2>2, <2>3, GotoScript DEF Known, GoesOn
  <2> QED
    BY <2>1, <2>2, <2>4
<1>8. ASSUME theirs # None,
             Goto(s, [pc |-> "plan",
                      script |-> AcceptUpstreamDML(new, theirs, StampFor(r, theirs, new))])
      PROVE  \E by \in Rigs, x \in Stamp :
                /\ x.context = id /\ x.id # id
                /\ x.author = Owner[s] /\ x.subject = by /\ New(x.id)
                /\ GoesOn(s, "plan", AcceptUpstreamDML(id, by, x))
  <2>1. PICK by, x, script : by = theirs /\ x = StampFor(r, by, id)
                             /\ script = AcceptUpstreamDML(id, by, x)
    OBVIOUS
  <2>2. by \in Rigs
    BY <1>4, <1>8, <2>1
  <2>3. /\ x \in Stamp /\ x.context = id /\ x.id # id
        /\ x.author = Owner[s] /\ x.subject = by /\ New(x.id)
    BY <1>1, <1>6, <2>1, <2>2, StampIsNew DEF Known
  <2>4. script \in Seq(Statement)
    BY <1>1, <1>6, <2>1, <2>2, <2>3, ScriptsTyped
  <2>5. Goto(s, [pc |-> "plan", script |-> script])
    BY <1>5, <1>8, <2>1
  <2>6. GoesOn(s, "plan", script)
    BY <1>1, <2>4, <2>5, GotoScript DEF Known, GoesOn
  <2> QED
    BY <2>1, <2>2, <2>3, <2>6
<1>9. \/ Say(s, "error")
      \/ /\ theirs # None /\ session[s].op = "close-upstream"
         /\ Goto(s, [pc |-> "plan", script |-> CloseUpstreamDML(new, theirs)])
      \/ /\ theirs # None /\ session[s].op = "accept-upstream"
         /\ Goto(s, [pc |-> "plan",
                      script |-> AcceptUpstreamDML(new, theirs, StampFor(r, theirs, new))])
  BY DEF LookupSubmission
<1> HIDE DEF theirs, new, r
<1> QED
  BY <1>2, <1>3, <1>6, <1>7, <1>8, <1>9

(* The script of an operation that reads nothing first.                       *)
Fixed(r) == {<<InsertWantedDML>>, <<UpdateWantedDML>>, <<ClaimWantedDML(r)>>,
             <<UnclaimWantedDML>>, <<CloseWantedDML>>, <<DeleteWantedDML>>,
             RejectCompletionDML}

Simple(script, r) ==
    \/ script \in Fixed(r)
    \/ \E id \in Nat : New(id) /\ script = SubmitCompletionDML(id, r)

LEMMA ScriptIsSimple ==
    ASSUME Typed, NEW r \in Rigs, NEW op \in SimpleOps
    PROVE  Simple(Script(op, r), r)
<1>1. CASE op = "done"
  <2>1. PICK id, others : others = {} /\ id = NewId(others)
    OBVIOUS
  <2>2. IsFiniteSet(others)
    BY <2>1, FS_EmptySet
  <2>3. id \in Nat /\ New(id)
    BY <2>1, <2>2, NewIdIsNew DEF New
  <2>4. Script(op, r) = SubmitCompletionDML(id, r)
    BY <1>1, <2>1 DEF Script
  <2> QED
    BY <2>3, <2>4 DEF Simple
<1>2. CASE op # "done"
  BY <1>2 DEF SimpleOps, Script, Simple, Fixed
<1> QED
  BY <1>1, <1>2

LEMMA SimpleTyped ==
    ASSUME NEW r \in Rigs, NEW script, Simple(script, r)
    PROVE  script \in Seq(Statement) /\ Len(script) \in 1 .. 5
<1>1. PICK id \in Nat : script \in Fixed(r) \/ script = SubmitCompletionDML(id, r)
  BY DEF Simple
<1>2. PICK x \in Stamp : TRUE
  <2>1. [id |-> id, author |-> r, subject |-> r, context |-> id] \in Stamp
    BY DEF Stamp
  <2> QED
    BY <2>1
<1>3. Len(RejectCompletionDML) = 2 /\ Len(SubmitCompletionDML(id, r)) = 2
  BY <1>2, Lengths
<1>4. script \in Seq(Statement)
  BY <1>1, <1>2, ScriptsTyped DEF Fixed
<1> QED
  BY <1>1, <1>3, <1>4 DEF Fixed

LEMMA ReadTyped ==
    ASSUME RefsTyped, NEW r \in Rigs
    PROVE  /\ Read(main[r]) \subseteq Status /\ Read(branch[r]) \subseteq Status
           /\ From(r) \subseteq {"main", "branch"}
<1>1. /\ main[r] \in Tables /\ branch[r] \in Tables \cup {NoBranch}
      /\ \A t \in Tables : t.status \in Status
  BY DEF RefsTyped, Tables
<1>2. StatusOf(main[r]) \in Status /\ StatusOf(branch[r]) \in Status /\ "none" \in Status
  BY <1>1 DEF StatusOf, Status
<1> QED
  BY <1>2 DEF Read, From

LEMMA PlanDoes ==
    ASSUME Known, NEW s \in Sessions, Plan(s)
    PROVE  \E script \in Seq(Statement), from \in From(Owner[s]) :
              /\ Becomes(s, "exec", session[s].op, session[s].submitter, script, from)
              /\ Len(script) \in 1 .. 5
              /\ script = session[s].script \/ Simple(script, Owner[s])
              /\ script = IF session[s].script = << >> THEN Script(session[s].op, Owner[s])
                          ELSE session[s].script
<1> DEFINE r == Owner[s]
           me == session[s]
<1>1. r \in Rigs /\ "exec" \in Pcs /\ me.script \in Seq(Statement) /\ me.pc = "plan"
  BY DEF Pcs, Known, Typed, Session, Plan
<1>2. PICK onMain, from, script :
        /\ onMain \in Read(main[r]) /\ from \in From(r)
        /\ script = IF me.script = << >> THEN Script(me.op, r) ELSE me.script
        /\ Goto(s, [pc |-> "exec", mainStatus |-> onMain, from |-> from, script |-> script])
  BY DEF Plan
<1>3. onMain \in Status /\ from \in {"main", "branch"}
  BY <1>1, <1>2, ReadTyped DEF Known, Typed
<1>4. /\ script \in Seq(Statement) /\ Len(script) \in 1 .. 5
      /\ script = me.script \/ Simple(script, r)
  <2>1. CASE me.script = << >>
    <3>1. me.op \in SimpleOps
      <4>1. Len(me.script) = 0 /\ Flow(s)
        BY <2>1 DEF Known
      <4> QED
        BY <1>1, <4>1 DEF Flow, FlowAt
    <3>2. Simple(script, r)
      BY <1>1, <1>2, <2>1, <3>1, ScriptIsSimple DEF Known
    <3> QED
      BY <1>1, <3>2, SimpleTyped
  <2>2. CASE me.script # << >>
    BY <1>1, <1>2, <2>2 DEF Known, Flow, FlowAt
  <2> QED
    BY <2>1, <2>2
<1>5. Becomes(s, "exec", me.op, me.submitter, script, from)
  BY <1>1, <1>2, <1>3, <1>4, GotoPlanned DEF Known
<1> QED
  BY <1>2, <1>4, <1>5

LEMMA ApplyRows ==
    ASSUME NEW t, Rows(t), NEW stmt \in Statement
    PROVE  Rows(Apply(stmt, t))
<1>1. Apply(stmt, t) \in Tables
  BY ApplyTyped DEF Rows
<1>2. t \in Tables /\ IsFiniteSet(t.completions) /\ IsFiniteSet(t.stamps)
  BY DEF Rows, Finite
<1>3. CASE stmt.into = "wanted"
  <2>1. PICK new : new = stmt.set /\ "completions" \notin DOMAIN new /\ "stamps" \notin DOMAIN new
    BY <1>3 DEF Statement
  <2>2. DOMAIN t = {"status", "claimedBy", "text", "completions", "stamps"}
    BY <1>2 DEF Tables
  <2>3. /\ Override(t, new)["completions"] = t["completions"]
        /\ Override(t, new)["stamps"] = t["stamps"]
    BY <2>1, <2>2, OverrideFields
  <2>4. Apply(stmt, t) \in {t, Override(t, new)}
    BY <1>3, <2>1 DEF Apply
  <2> QED
    BY <1>1, <1>2, <2>3, <2>4 DEF Rows, Finite
<1>4. CASE stmt.into = "completions"
  <2>1. /\ Apply(stmt, t).completions = ApplyToCompletions(stmt, t)
        /\ Apply(stmt, t).stamps = t.stamps
    BY <1>2, <1>4 DEF Apply, Tables
  <2>2. IsFiniteSet(ApplyToCompletions(stmt, t))
    <3>1. CASE stmt.do = "delete"
      BY <3>1, FS_EmptySet DEF ApplyToCompletions
    <3>2. CASE stmt.do \in {"insert", "submit"}
      <4>1. PICK c : c = [id |-> stmt.id, by |-> stmt.by, stamp |-> None]
        OBVIOUS
      <4>2. IsFiniteSet({c}) /\ IsFiniteSet(t.completions \cup {c})
        BY <1>2, FS_Singleton, FS_Union
      <4> QED
        BY <1>2, <3>2, <4>1, <4>2 DEF ApplyToCompletions
    <3>3. CASE stmt.do = "link"
      <4> DEFINE f == [c \in t.completions |->
                         IF c.id = stmt.id THEN [c EXCEPT !.stamp = stmt.stamp] ELSE c]
      <4>1. ApplyToCompletions(stmt, t) = {f[c] : c \in t.completions}
        BY <3>3 DEF ApplyToCompletions
      <4>2. DOMAIN f = t.completions
        OBVIOUS
      <4> HIDE DEF f
      <4>3. IsFiniteSet({f[c] : c \in t.completions})
        BY <1>2, <4>2, FiniteImage
      <4> QED
        BY <4>1, <4>3
    <3> QED
      BY <1>4, <3>1, <3>2, <3>3 DEF Statement
  <2> QED
    BY <1>1, <2>1, <2>2, <1>2 DEF Rows, Finite
<1>5. CASE stmt.into = "stamps"
  <2>1. PICK x : x = stmt.stamp
    OBVIOUS
  <2>2. IsFiniteSet({x}) /\ IsFiniteSet(t.stamps \cup {x})
    BY <1>2, FS_Singleton, FS_Union
  <2>3. Apply(stmt, t) = [t EXCEPT !.stamps = t.stamps \cup {x}]
    BY <1>5, <2>1 DEF Apply
  <2>4. Apply(stmt, t).completions = t.completions /\ Apply(stmt, t).stamps = t.stamps \cup {x}
    BY <1>2, <2>3 DEF Tables
  <2> QED
    BY <1>1, <1>2, <2>2, <2>4 DEF Rows, Finite
<1> QED
  BY <1>3, <1>4, <1>5 DEF Statement

(* What a statement that was carried out leaves at the branch of r.           *)
Source(r, from) == IF from = "main" THEN main[r] ELSE branch[r]
Written(r, from, stmt) ==
    LET source == Source(r, from) IN
    /\ source \in Tables
    /\ \/ branch'[r] = Apply(stmt, source)
       \/ Apply(stmt, source) = source /\ branch'[r] = branch[r]
    /\ \A q \in Rigs \ {r} : branch'[q] = branch[q]

\* What one that was reported to fail leaves there.
Unwritten(r, from, stmt) ==
    \/ UNCHANGED branch /\ ("write" \in Faults \/ (from = "branch" /\ branch[r] = NoBranch))
    \/ "write" \in Faults /\ Written(r, from, stmt)

BranchesTyped ==
    /\ base \in [Rigs -> Tables] /\ (\A r \in Rigs : Rows(base[r]))
    /\ branch \in [Rigs -> Tables \cup {NoBranch}]
    /\ \A r \in Rigs : branch[r] = NoBranch \/ Rows(branch[r])

LEMMA WriteOkDoes ==
    ASSUME RefsTyped, NEW r \in Rigs, NEW from \in {"main", "branch"}, NEW stmt \in Statement,
           WriteOk(r, from, stmt)
    PROVE  Written(r, from, stmt) /\ BranchesTyped'
<1> DEFINE source == Source(r, from)
<1>1. /\ source # NoBranch
      /\ \/ branch' = [branch EXCEPT ![r] = Apply(stmt, source)]
         \/ Apply(stmt, source) = source /\ branch' = branch
      /\ base' \in {[base EXCEPT ![r] = main[r]], base}
  BY DEF WriteOk, Source
<1>2. Rows(source) /\ source \in Tables
  BY <1>1 DEF RefsTyped, Source, Rows
<1>3. PICK new : new = Apply(stmt, source)
  OBVIOUS
<1>4. Rows(new) /\ new \in Tables
  BY <1>2, <1>3, ApplyRows DEF Rows
<1> HIDE DEF source
<1>5. \/ branch'[r] = new /\ \A q \in Rigs \ {r} : branch'[q] = branch[q]
      \/ new = source /\ branch' = branch
  BY <1>1, <1>3 DEF RefsTyped
<1>6. /\ branch' \in [Rigs -> Tables \cup {NoBranch}]
      /\ \A q \in Rigs : branch'[q] = NoBranch \/ Rows(branch'[q])
  <2>1. branch' \in [Rigs -> Tables \cup {NoBranch}]
    BY <1>1, <1>3, <1>4 DEF RefsTyped
  <2> QED
    BY <1>4, <1>5, <2>1 DEF RefsTyped
<1>7. base' \in [Rigs -> Tables] /\ \A q \in Rigs : Rows(base'[q])
  <2>1. main[r] \in Tables /\ Rows(main[r])
    BY DEF RefsTyped
  <2>2. base' \in [Rigs -> Tables] /\ \A q \in Rigs : base'[q] \in {main[r], base[q]}
    BY <1>1, <2>1 DEF RefsTyped
  <2> QED
    BY <2>1, <2>2 DEF RefsTyped
<1>8. Written(r, from, stmt)
  BY <1>2, <1>3, <1>5 DEF Written, source
<1> QED
  BY <1>6, <1>7, <1>8 DEF BranchesTyped

LEMMA WriteFailsDoes ==
    ASSUME RefsTyped, NEW r \in Rigs, NEW from \in {"main", "branch"}, NEW stmt \in Statement,
           WriteFails(r, from, stmt)
    PROVE  Unwritten(r, from, stmt) /\ BranchesTyped'
<1>1. CASE /\ "write" \in Faults \/ (from = "branch" /\ branch[r] = NoBranch)
           /\ UNCHANGED <<branch, base>>
  BY <1>1 DEF RefsTyped, BranchesTyped, Unwritten
<1>2. CASE "write" \in Faults /\ WriteOk(r, from, stmt)
  BY <1>2, WriteOkDoes DEF Unwritten
<1> QED
  BY <1>1, <1>2 DEF WriteFails

LEMMA HeadTail ==
    ASSUME NEW S, NEW script \in Seq(S), Len(script) \in 1 .. 5
    PROVE  /\ Head(script) \in S /\ Tail(script) \in Seq(S)
           /\ Len(Tail(script)) = Len(script) - 1
OBVIOUS

LEMMA WriteDoes ==
    ASSUME Known, NEW s \in Sessions, Write(s)
    PROVE  LET r == Owner[s]
               me == session[s] IN
           /\ RefsTyped' /\ Len(me.script) \in 1 .. 5
           /\ \/ /\ Written(r, me.from, Head(me.script))
                 /\ \E pc \in {"settle", "exec"} :
                       /\ Becomes(s, pc, me.op, me.submitter, Tail(me.script), "branch")
                       /\ pc = "settle" <=> Len(me.script) = 1
              \/ /\ Unwritten(r, me.from, Head(me.script))
                 /\ GoesOn(s, "answer", << >>)
<1> DEFINE r == Owner[s]
           me == session[s]
<1>1. /\ r \in Rigs /\ me.from \in {"main", "branch"} /\ me.script \in Seq(Statement)
      /\ Len(me.script) \in 1 .. 5
  BY DEF Known, Flow, FlowAt, Typed, Session, Write
<1>2. PICK stmt, rest : stmt = Head(me.script) /\ rest = Tail(me.script)
  OBVIOUS
<1>3. stmt \in Statement /\ rest \in Seq(Statement)
  BY <1>1, <1>2, HeadTail
<1>4. {"settle", "exec"} \subseteq Pcs /\ "error" \in Answers
  BY DEF Pcs, Answers
<1>5. ASSUME BranchesTyped' PROVE RefsTyped'
  BY <1>5 DEF Known, Typed, RefsTyped, BranchesTyped, Write
<1>6. CASE /\ WriteOk(r, me.from, stmt)
           /\ Goto(s, [script |-> rest, from |-> "branch",
                       pc |-> IF Len(me.script) = 1 THEN "settle" ELSE "exec"])
  <2>1. Written(r, me.from, stmt) /\ BranchesTyped'
    BY <1>1, <1>3, <1>6, WriteOkDoes DEF Known, Typed
  <2>2. PICK pc : pc = IF Len(me.script) = 1 THEN "settle" ELSE "exec"
    OBVIOUS
  <2>3. Becomes(s, pc, me.op, me.submitter, rest, "branch")
    BY <1>3, <1>4, <1>6, <2>2, GotoNext DEF Known
  <2>4. pc \in {"settle", "exec"} /\ (pc = "settle" <=> Len(me.script) = 1)
    BY <2>2
  <2> QED
    BY <1>1, <1>2, <1>5, <2>1, <2>3, <2>4
<1>7. CASE WriteFails(r, me.from, stmt) /\ Say(s, "error")
  <2>1. Unwritten(r, me.from, stmt) /\ BranchesTyped'
    BY <1>1, <1>3, <1>7, WriteFailsDoes DEF Known, Typed
  <2>2. GoesOn(s, "answer", << >>)
    BY <1>4, <1>7, GotoSaid DEF Known, GoesOn
  <2> QED
    BY <1>1, <1>2, <1>5, <2>1, <2>2
<1> QED
  BY <1>2, <1>6, <1>7 DEF Write

LEMMA SettleDoes ==
    ASSUME Known, NEW s \in Sessions, Settle(s)
    PROVE  GoesOn(s, "close", << >>) \/ GoesOn(s, "offer", << >>)
<1>1. session[s].script = << >> /\ {"close", "offer"} \subseteq Pcs
      /\ {"reverted", "kept"} \subseteq Answers
  BY DEF Settle, Known, Flow, FlowAt, Pcs, Answers
<1>2. \/ Goto(s, [pc |-> "close", answer |-> "reverted"])
      \/ Goto(s, [pc |-> "offer", answer |-> "kept"])
  BY DEF Settle
<1> QED
  BY <1>1, <1>2, GotoAnswer DEF Known, GoesOn

LEMMA FinishDoes ==
    ASSUME Known, NEW s \in Sessions, Finish(s)
    PROVE  GoesOn(s, "retire", << >>) \/ GoesOn(s, "answer", << >>)
<1>1. << >> \in Seq(Statement) /\ "retire" \in Pcs /\ session[s].answer \in Answers
  BY DEF Known, Typed, Session, Pcs, Answers
<1>2. CASE Goto(s, [pc |-> "retire", script |-> << >>])
  BY <1>1, <1>2, GotoScript DEF Known, GoesOn
<1>3. CASE Say(s, session[s].answer)
  BY <1>1, <1>3, GotoSaid DEF Known, GoesOn
<1> QED
  BY <1>2, <1>3 DEF Finish

LEMMA ClosePRDoes ==
    ASSUME Known, NEW s \in Sessions, ClosePR(s)
    PROVE  GoesOn(s, "drop", << >>)
<1>1. session[s].script = << >> /\ "drop" \in Pcs /\ Goto(s, [pc |-> "drop"])
  BY DEF ClosePR, Known, Flow, FlowAt, Pcs
<1> QED
  BY <1>1, GotoPc DEF Known, GoesOn

LEMMA DropBranchDoes ==
    ASSUME Known, NEW s \in Sessions, DropBranch(s)
    PROVE  \/ /\ branch' = [branch EXCEPT ![Owner[s]] = NoBranch]
              /\ GoesOn(s, "retire", << >>) \/ GoesOn(s, "answer", << >>)
           \/ UNCHANGED branch /\ GoesOn(s, "clear", ClearScript)
<1>1. CASE branch' = [branch EXCEPT ![Owner[s]] = NoBranch] /\ Finish(s)
  BY <1>1, FinishDoes
<1>2. CASE UNCHANGED branch /\ Goto(s, [pc |-> "clear", script |-> ClearScript])
  <2>1. "clear" \in Pcs /\ ClearScript \in Seq(Statement)
    BY ClearTyped DEF Pcs
  <2> QED
    BY <1>2, <2>1, GotoScript DEF Known, GoesOn
<1> QED
  BY <1>1, <1>2 DEF DropBranch

LEMMA ClearDoes ==
    ASSUME Known, NEW s \in Sessions, Clear(s)
    PROVE  LET r == Owner[s]
               stmt == Head(session[s].script) IN
           /\ RefsTyped' /\ session[s].script \in {ClearScript, <<EraseWanted>>}
           /\ \E from \in From(r) :
                \/ /\ Written(r, from, stmt)
                   /\ IF session[s].script = ClearScript THEN GoesOn(s, "clear", <<EraseWanted>>)
                      ELSE GoesOn(s, "retire", << >>) \/ GoesOn(s, "answer", << >>)
                \/ /\ Unwritten(r, from, stmt)
                   /\ GoesOn(s, "retire", << >>) \/ GoesOn(s, "answer", << >>)
<1> DEFINE r == Owner[s]
           me == session[s]
<1>1. me.script \in {ClearScript, <<EraseWanted>>} /\ me.script \in Seq(Statement) /\ r \in Rigs
      /\ me.pc = "clear"
  BY DEF Known, Flow, FlowAt, Typed, Session, Clear
<1>2. PICK stmt, rest : stmt = Head(me.script) /\ rest = Tail(me.script)
  OBVIOUS
<1>3. /\ Len(ClearScript) = 2 /\ Len(<<EraseWanted>>) = 1 /\ Tail(ClearScript) = <<EraseWanted>>
      /\ (me.script = ClearScript <=> Len(me.script) # 1)
      /\ (me.script # ClearScript => Len(me.script) = 1)
  <2>1. Len(ClearScript) = 2 /\ Len(<<EraseWanted>>) = 1 /\ Tail(ClearScript) = <<EraseWanted>>
    BY DEF ClearScript
  <2>2. PICK both, one, q : both = ClearScript /\ one = <<EraseWanted>> /\ q = me.script
    OBVIOUS
  <2>3. q \in {both, one} /\ Len(both) = 2 /\ Len(one) = 1
    BY <1>1, <2>1, <2>2
  <2>4. (q = both <=> Len(q) # 1) /\ (q # both => Len(q) = 1)
    <3>1. CASE q = both
      <4>1. Len(q) = 2
        BY <2>3, <3>1
      <4> QED
        BY <3>1, <4>1
    <3>2. CASE q # both
      <4>1. q = one /\ Len(q) = 1
        BY <2>3, <3>2
      <4> QED
        BY <3>2, <4>1
    <3> QED
      BY <3>1, <3>2
  <2> QED
    BY <2>1, <2>2, <2>4
<1>4. stmt \in Statement /\ rest \in Seq(Statement) /\ "error" \in Answers
  BY <1>1, <1>2, <1>3, HeadTail DEF Answers
<1>5. ASSUME BranchesTyped' PROVE RefsTyped'
  BY <1>5 DEF Known, Typed, RefsTyped, BranchesTyped, Clear
<1>6. PICK from \in From(r) :
          \/ /\ WriteOk(r, from, stmt)
             /\ IF Len(me.script) = 1 THEN Finish(s) ELSE Goto(s, [script |-> rest])
          \/ /\ WriteFails(r, from, stmt)
             /\ IF me.op = "discard" THEN Say(s, "error") ELSE Finish(s)
  BY <1>2 DEF Clear
<1>7. from \in {"main", "branch"}
  BY <1>1, <1>6, ReadTyped DEF Known, Typed
<1>8. CASE /\ WriteOk(r, from, stmt)
           /\ IF Len(me.script) = 1 THEN Finish(s) ELSE Goto(s, [script |-> rest])
  <2>1. Written(r, from, stmt) /\ BranchesTyped'
    BY <1>1, <1>4, <1>7, <1>8, WriteOkDoes DEF Known, Typed
  <2>2. CASE me.script = ClearScript
    <3>1. rest = <<EraseWanted>> /\ Goto(s, [script |-> rest])
      BY <1>2, <1>3, <1>8, <2>2
    <3>2. Becomes(s, me.pc, me.op, me.submitter, rest, me.from)
      BY <1>4, <3>1, GotoRest DEF Known
    <3>3. GoesOn(s, "clear", <<EraseWanted>>)
      BY <1>1, <3>1, <3>2 DEF GoesOn
    <3> QED
      BY <1>1, <1>2, <1>5, <1>6, <2>1, <2>2, <3>3
  <2>3. CASE me.script # ClearScript
    <3>1. GoesOn(s, "retire", << >>) \/ GoesOn(s, "answer", << >>)
      BY <1>3, <1>8, <2>3, FinishDoes
    <3> QED
      BY <1>1, <1>2, <1>5, <1>6, <2>1, <2>3, <3>1
  <2> QED
    BY <2>2, <2>3
<1>9. CASE /\ WriteFails(r, from, stmt)
           /\ IF me.op = "discard" THEN Say(s, "error") ELSE Finish(s)
  <2>1. Unwritten(r, from, stmt) /\ BranchesTyped'
    BY <1>1, <1>4, <1>7, <1>9, WriteFailsDoes DEF Known, Typed
  <2>2. GoesOn(s, "retire", << >>) \/ GoesOn(s, "answer", << >>)
    BY <1>4, <1>9, FinishDoes, GotoSaid DEF Known, GoesOn
  <2> QED
    BY <1>1, <1>2, <1>5, <1>6, <2>1, <2>2
<1> QED
  BY <1>6, <1>8, <1>9

LEMMA KnownNext ==
    ASSUME Known, RefsTyped', NEW s \in Sessions, NEW pc, NEW op, NEW q, NEW script, NEW from,
           Becomes(s, pc, op, q, script, from), FlowAt(pc, op, q, script)
    PROVE  Known'
<1>1. Typed'
  BY DEF Typed, Becomes
<1>2. ASSUME NEW t \in Sessions PROVE Flow(t)'
  <2>1. CASE t = s
    BY <2>1 DEF Becomes, Flow
  <2>2. CASE t # s
    BY <2>2 DEF Becomes, Known, Flow
  <2> QED
    BY <2>1, <2>2
<1> QED
  BY <1>1, <1>2 DEF Known

LEMMA GoesOnKnown ==
    ASSUME Known, RefsTyped', NEW s \in Sessions, NEW pc, NEW script, GoesOn(s, pc, script),
           FlowAt(pc, session[s].op, session[s].submitter, script)
    PROVE  Known'
<1>1. PICK op, q, from : op = session[s].op /\ q = session[s].submitter /\ from = session[s].from
  OBVIOUS
<1>2. Becomes(s, pc, op, q, script, from) /\ FlowAt(pc, op, q, script)
  BY <1>1 DEF GoesOn
<1> QED
  BY <1>2, KnownNext

LEMMA RestKnown ==
    ASSUME Known, RefsTyped', NEW s \in Sessions,
           NEW pc \in {"answer", "close", "drop", "offer", "retire", "settle"},
           GoesOn(s, pc, << >>)
    PROVE  Known'
<1>1. FlowAt(pc, session[s].op, session[s].submitter, << >>)
  BY DEF Known, Flow, FlowAt
<1> QED
  BY <1>1, GoesOnKnown

LEMMA SameRefs ==
    ASSUME RefsTyped, UNCHANGED refs
    PROVE  RefsTyped'
BY DEF RefsTyped, refs

LEMMA MergeRows ==
    ASSUME NEW b, Rows(b), NEW theirs, Rows(theirs), NEW ours, Rows(ours)
    PROVE  Rows(Merge(b, theirs, ours))
<1>1. /\ b \in Tables /\ theirs \in Tables /\ ours \in Tables
      /\ \A t \in {b, theirs, ours} : IsFiniteSet(t.completions) /\ IsFiniteSet(t.stamps)
  BY DEF Rows, Finite
<1>2. PICK t \in {theirs, ours} :
         Merge(b, theirs, ours) =
           [t EXCEPT !.completions = Take(b.completions, theirs.completions, ours.completions),
                     !.stamps = Take(b.stamps, theirs.stamps, ours.stamps)]
  BY DEF Merge
<1>3. PICK c, x : /\ c = Take(b.completions, theirs.completions, ours.completions)
                  /\ x = Take(b.stamps, theirs.stamps, ours.stamps)
  OBVIOUS
<1>4. c \subseteq ours.completions \cup theirs.completions /\ x \subseteq ours.stamps \cup theirs.stamps
  BY <1>3 DEF Take
<1>5. c \in SUBSET Completion /\ x \in SUBSET Stamp
  BY <1>1, <1>4 DEF Tables
<1>6. IsFiniteSet(c) /\ IsFiniteSet(x)
  <2>1. IsFiniteSet(ours.completions \cup theirs.completions) /\ IsFiniteSet(ours.stamps \cup theirs.stamps)
    BY <1>1, FS_Union
  <2> QED
    BY <1>4, <2>1, FS_Subset
<1>7. t \in Tables
  BY <1>1
<1>8. PICK m : m = [t EXCEPT !.completions = c, !.stamps = x]
  OBVIOUS
<1>9. m \in Tables /\ m.completions = c /\ m.stamps = x
  BY <1>5, <1>7, <1>8 DEF Tables
<1> QED
  BY <1>2, <1>3, <1>6, <1>8, <1>9 DEF Rows, Finite

LEMMA MergeTyped ==
    ASSUME RefsTyped, NEW r \in Rigs, MergePR(r)
    PROVE  RefsTyped'
<1>1. /\ branch[r] # NoBranch /\ upstream' = Merge(base[r], branch[r], upstream)
      /\ base' = [base EXCEPT ![r] = branch[r]] /\ pr' = [pr EXCEPT ![r] = FALSE]
      /\ UNCHANGED <<main, branch, listed>>
  BY DEF MergePR
<1>2. Rows(upstream) /\ Rows(base[r]) /\ Rows(branch[r]) /\ branch[r] \in Tables
  BY <1>1 DEF RefsTyped, Rows
<1>3. Rows(upstream')
  <2>1. PICK b, theirs, ours : b = base[r] /\ theirs = branch[r] /\ ours = upstream
    OBVIOUS
  <2>2. Rows(Merge(b, theirs, ours))
    BY <1>2, <2>1, MergeRows
  <2> QED
    BY <1>1, <2>1, <2>2
<1>4. base' \in [Rigs -> Tables] /\ \A q \in Rigs : Rows(base'[q])
  BY <1>1, <1>2 DEF RefsTyped
<1>5. pr' \in [Rigs -> BOOLEAN]
  BY <1>1 DEF RefsTyped
<1> QED
  BY <1>1, <1>3, <1>4, <1>5 DEF RefsTyped

LEMMA ListingTyped ==
    ASSUME RefsTyped, NEW r \in Rigs, RefreshListing(r)
    PROVE  RefsTyped'
<1>1. UNCHANGED <<upstream, main, branch, base, pr>>
  BY DEF RefreshListing
<1>2. PICK by \in {None} \cup Completers(r) : listed' = [listed EXCEPT ![r] = by]
  BY DEF RefreshListing
<1>3. Completers(r) \subseteq Rigs
  <2>1. SUFFICES ASSUME pr[r] /\ StatusOf(branch[r]) = "in_review" PROVE {c.by : c \in branch[r].completions} \subseteq Rigs
    BY DEF Completers
  <2>2. branch[r] \in Tables
    BY <2>1 DEF StatusOf, RefsTyped, Rows
  <2>3. \A c \in branch[r].completions : c.by \in Rigs
    BY <2>2 DEF Tables, Completion
  <2> QED
    BY <2>3
<1>4. listed' \in [Rigs -> Rigs \cup {None}]
  BY <1>2, <1>3 DEF RefsTyped
<1> QED
  BY <1>1, <1>4 DEF RefsTyped

LEMMA PRTyped ==
    ASSUME RefsTyped, NEW r, UNCHANGED <<upstream, main, branch, base, listed>>,
           pr' \in {pr, [pr EXCEPT ![r] = TRUE], [pr EXCEPT ![r] = FALSE]}
    PROVE  RefsTyped'
<1>1. pr' \in [Rigs -> BOOLEAN]
  BY DEF RefsTyped
<1> QED
  BY <1>1 DEF RefsTyped

(* A request's control state and the tables keep their types at every step.   *)
LEMMA BeginKnown ==
    ASSUME Known, NEW s \in Sessions, NEW op \in Ops, NEW q \in Submitters(op), Begin(s, op, q)
    PROVE  Known'
<1>1. RefsTyped'
  BY SameRefs DEF Begin, Known, Typed
<1>2. PICK pc \in {"check", "enter", "submit", "lock"} :
        /\ Becomes(s, pc, op, q, << >>, session[s].from)
        /\ pc = "check" => op \in CheckedBefore
        /\ pc = "enter" => op \in CheckedUnderLock
        /\ pc = "lock" => op \in {"post", "update", "discard"}
        /\ op \in {"accept-upstream", "close-upstream"} => q \in Rigs
  BY BeginDoes
<1>3. PICK script : script = << >>
  OBVIOUS
<1>4. FlowAt(pc, op, q, script)
  BY <1>2, <1>3 DEF FlowAt, SimpleOps
<1>5. PICK from : from = session[s].from
  OBVIOUS
<1> QED
  BY <1>1, <1>2, <1>3, <1>4, <1>5, KnownNext

LEMMA LockKnown ==
    ASSUME Known, NEW s \in Sessions, Lock(s)
    PROVE  Known'
<1>1. RefsTyped'
  BY SameRefs DEF Lock, Known, Typed
<1>2. Flow(s)
  BY DEF Known
<1>3. CASE session[s].pc = "enter" /\ GoesOn(s, "check", << >>)
  <2>1. FlowAt("check", session[s].op, session[s].submitter, << >>)
    BY <1>2, <1>3 DEF Flow, FlowAt
  <2> QED
    BY <1>1, <1>3, <2>1, GoesOnKnown
<1>4. CASE session[s].op \in SimpleOps /\ GoesOn(s, "plan", << >>)
  <2>1. FlowAt("plan", session[s].op, session[s].submitter, << >>)
    BY <1>2, <1>4 DEF Flow, FlowAt
  <2> QED
    BY <1>1, <1>4, <2>1, GoesOnKnown
<1> QED
  BY <1>1, <1>3, <1>4, LockDoes, RestKnown

LEMMA CheckKnown ==
    ASSUME Known, NEW s \in Sessions, Check(s)
    PROVE  Known'
<1>1. RefsTyped'
  BY SameRefs DEF Check, Known, Typed
<1>2. CASE GoesOn(s, AfterCheck(session[s].op), << >>)
  <2>1. Flow(s) /\ session[s].pc = "check"
    BY DEF Known, Check
  <2>2. FlowAt(AfterCheck(session[s].op), session[s].op, session[s].submitter, << >>)
    <3>1. session[s].op \in CheckedUnderLock \cup CheckedBefore
      BY <2>1 DEF Flow, FlowAt
    <3> QED
      BY <2>1, <3>1 DEF Flow, FlowAt, AfterCheck, CheckedUnderLock, CheckedBefore, Lookups, SimpleOps
  <2>3. PICK pc : pc = AfterCheck(session[s].op)
    OBVIOUS
  <2> QED
    BY <1>1, <1>2, <2>2, <2>3, GoesOnKnown
<1> QED
  BY <1>1, <1>2, CheckDoes, RestKnown

LEMMA ShortcutKnown ==
    ASSUME Known, NEW s \in Sessions, Shortcut(s)
    PROVE  Known'
<1>1. RefsTyped'
  BY SameRefs DEF Shortcut, Known, Typed
<1>2. CASE GoesOn(s, "lock", << >>)
  <2>1. Flow(s) /\ session[s].op = "delete"
    BY DEF Known, Shortcut, Flow, FlowAt
  <2>2. FlowAt("lock", session[s].op, session[s].submitter, << >>)
    BY <2>1 DEF Flow, FlowAt, SimpleOps
  <2> QED
    BY <1>1, <1>2, <2>2, GoesOnKnown
<1> QED
  BY <1>1, <1>2, ShortcutDoes, RestKnown

LEMMA LookupKnown ==
    ASSUME Known, NEW s \in Sessions, LookupCompletion(s) \/ LookupSubmission(s)
    PROVE  Known'
<1>1. RefsTyped'
  BY SameRefs DEF LookupCompletion, LookupSubmission, Known, Typed
<1>2. ASSUME NEW script, Len(script) \in 1 .. 5, GoesOn(s, "plan", script)
      PROVE  Known'
  <2>1. FlowAt("plan", session[s].op, session[s].submitter, script)
    BY <1>2 DEF Known, Flow, FlowAt
  <2> QED
    BY <1>1, <1>2, <2>1, GoesOnKnown
<1>3. ASSUME NEW id \in Nat, NEW x \in Stamp, GoesOn(s, "plan", AcceptCompletionDML(id, x))
      PROVE  Known'
  <2>1. PICK script : script = AcceptCompletionDML(id, x)
    OBVIOUS
  <2>2. Len(script) = 3
    BY <2>1 DEF AcceptCompletionDML
  <2> QED
    BY <1>2, <1>3, <2>1, <2>2
<1>4. ASSUME NEW id \in Nat, NEW by \in Rigs, GoesOn(s, "plan", CloseUpstreamDML(id, by))
      PROVE  Known'
  <2>1. PICK script : script = CloseUpstreamDML(id, by)
    OBVIOUS
  <2>2. Len(script) = 3
    BY <2>1 DEF CloseUpstreamDML
  <2> QED
    BY <1>2, <1>4, <2>1, <2>2
<1>5. ASSUME NEW id \in Nat, NEW by \in Rigs, NEW x \in Stamp,
             GoesOn(s, "plan", AcceptUpstreamDML(id, by, x))
      PROVE  Known'
  <2>1. PICK script : script = AcceptUpstreamDML(id, by, x)
    OBVIOUS
  <2>2. Len(script) = 5
    BY <2>1, FiveStatements
  <2> QED
    BY <1>2, <1>5, <2>1, <2>2
<1>6. CASE LookupCompletion(s)
  BY <1>1, <1>3, <1>6, LookupCompletionDoes, RestKnown
<1>7. CASE LookupSubmission(s)
  BY <1>1, <1>4, <1>5, <1>7, LookupSubmissionDoes, RestKnown
<1> QED
  BY <1>6, <1>7

LEMMA PlanKnown ==
    ASSUME Known, NEW s \in Sessions, Plan(s)
    PROVE  Known'
<1>1. RefsTyped'
  BY SameRefs DEF Plan, Known, Typed
<1>2. PICK op, q : op = session[s].op /\ q = session[s].submitter
  OBVIOUS
<1>3. PICK script, from : Becomes(s, "exec", op, q, script, from) /\ Len(script) \in 1 .. 5
  BY <1>2, PlanDoes
<1>4. FlowAt("exec", op, q, script)
  BY <1>2, <1>3 DEF Known, Flow, FlowAt
<1> QED
  BY <1>1, <1>3, <1>4, KnownNext

LEMMA WriteKnown ==
    ASSUME Known, NEW s \in Sessions, Write(s)
    PROVE  Known'
<1> DEFINE me == session[s]
<1>1. RefsTyped' /\ Len(me.script) \in 1 .. 5 /\ me.script \in Seq(Statement)
  BY WriteDoes DEF Known, Typed, Session
<1>2. ASSUME NEW pc \in {"settle", "exec"}, pc = "settle" <=> Len(me.script) = 1,
             Becomes(s, pc, me.op, me.submitter, Tail(me.script), "branch")
      PROVE  Known'
  <2>1. PICK op, q, rest : op = me.op /\ q = me.submitter /\ rest = Tail(me.script)
    OBVIOUS
  <2>2. rest \in Seq(Statement) /\ Len(rest) = Len(me.script) - 1
    BY <1>1, <2>1, HeadTail
  <2>3. FlowAt(pc, op, q, rest)
    <3>1. op \in {"accept-upstream", "close-upstream"} => q \in Rigs
      BY <2>1 DEF Known, Flow, FlowAt
    <3>2. ASSUME pc = "settle" PROVE rest = << >>
      <4>1. Len(rest) = 0
        BY <1>1, <1>2, <2>2, <3>2
      <4> QED
        BY <2>2, <4>1, NoStatements
    <3>3. pc = "exec" => Len(rest) \in 1 .. 5
      BY <1>1, <1>2, <2>2
    <3> QED
      BY <3>1, <3>2, <3>3 DEF FlowAt
  <2> QED
    BY <1>1, <1>2, <2>1, <2>3, KnownNext
<1> QED
  BY <1>1, <1>2, WriteDoes, RestKnown

LEMMA ClearKnown ==
    ASSUME Known, NEW s \in Sessions, Clear(s)
    PROVE  Known'
<1>1. RefsTyped'
  BY ClearDoes
<1>2. CASE GoesOn(s, "clear", <<EraseWanted>>)
  <2>1. PICK script : script = <<EraseWanted>>
    OBVIOUS
  <2>2. FlowAt("clear", session[s].op, session[s].submitter, script)
    BY <2>1 DEF Known, Flow, FlowAt
  <2> QED
    BY <1>1, <1>2, <2>1, <2>2, GoesOnKnown
<1>3. \/ GoesOn(s, "clear", <<EraseWanted>>)
      \/ GoesOn(s, "retire", << >>) \/ GoesOn(s, "answer", << >>)
  BY ClearDoes
<1> QED
  BY <1>1, <1>2, <1>3, RestKnown

LEMMA DropKnown ==
    ASSUME Known, NEW s \in Sessions, DropBranch(s)
    PROVE  Known'
<1>1. RefsTyped'
  <2>1. branch' \in {branch, [branch EXCEPT ![Owner[s]] = NoBranch]} /\ Owner[s] \in Rigs
    BY DEF DropBranch
  <2>2. UNCHANGED <<upstream, main, base, pr, listed>>
    BY DEF DropBranch
  <2>3. /\ branch' \in [Rigs -> Tables \cup {NoBranch}]
        /\ \A r \in Rigs : branch'[r] = NoBranch \/ Rows(branch'[r])
    BY <2>1 DEF Known, Typed, RefsTyped
  <2> QED
    BY <2>2, <2>3 DEF Known, Typed, RefsTyped
<1>2. CASE GoesOn(s, "clear", ClearScript)
  <2>1. PICK script : script = ClearScript
    OBVIOUS
  <2>2. FlowAt("clear", session[s].op, session[s].submitter, script)
    BY <2>1 DEF Known, Flow, FlowAt
  <2> QED
    BY <1>1, <1>2, <2>1, <2>2, GoesOnKnown
<1>3. \/ GoesOn(s, "clear", ClearScript)
      \/ GoesOn(s, "retire", << >>) \/ GoesOn(s, "answer", << >>)
  BY DropBranchDoes
<1> QED
  BY <1>1, <1>2, <1>3, RestKnown

LEMMA OfferingKnown ==
    ASSUME Known, NEW s \in Sessions,
           Settle(s) \/ ClosePR(s) \/ CreatePR(s) \/ SubmitPR(s) \/ CloseUpstreamPR(s)
    PROVE  Known'
<1>1. CASE Settle(s)
  <2>1. RefsTyped'
    BY <1>1, SameRefs DEF Settle, Known, Typed
  <2> QED
    BY <1>1, <2>1, SettleDoes, RestKnown
<1>2. CASE ClosePR(s)
  <2>1. RefsTyped'
    BY <1>2, PRTyped DEF ClosePR, Known, Typed
  <2> QED
    BY <1>2, <2>1, ClosePRDoes, RestKnown
<1>3. CASE CreatePR(s)
  <2>1. RefsTyped'
    BY <1>3, PRTyped DEF CreatePR, Offer, Known, Typed
  <2>2. Finish(s)
    BY <1>3 DEF CreatePR
  <2> QED
    BY <2>1, <2>2, FinishDoes, RestKnown
<1>4. CASE SubmitPR(s)
  <2>1. RefsTyped'
    BY <1>4, PRTyped DEF SubmitPR, Offer, Known, Typed
  <2>2. Say(s, "kept") /\ "kept" \in Answers
    BY <1>4 DEF SubmitPR, Answers
  <2>3. GoesOn(s, "answer", << >>)
    BY <2>2, GotoSaid DEF Known, GoesOn
  <2> QED
    BY <2>1, <2>3, RestKnown
<1>5. CASE CloseUpstreamPR(s)
  <2>1. RefsTyped'
    BY <1>5, PRTyped DEF CloseUpstreamPR, Known, Typed
  <2>2. Say(s, session[s].answer) /\ session[s].answer \in Answers
    BY <1>5 DEF CloseUpstreamPR, Answers, Known, Typed, Session
  <2>3. GoesOn(s, "answer", << >>)
    BY <2>2, GotoSaid DEF Known, GoesOn
  <2> QED
    BY <2>1, <2>3, RestKnown
<1> QED
  BY <1>1, <1>2, <1>3, <1>4, <1>5

LEMMA AnswerDoes ==
    ASSUME Typed, NEW s \in Sessions, Answer(s)
    PROVE  Becomes(s, "idle", "post", None, << >>, "main")
<1>1. Sleeping \in Session
  <2>1. << >> \in Seq(Statement)
    OBVIOUS
  <2> QED
    BY <2>1 DEF Sleeping, Session, Operations, Status
<1>2. session' = [session EXCEPT ![s] = Sleeping]
  BY DEF Answer
<1>3. /\ session' \in [Sessions -> Session] /\ session'[s] = Sleeping
      /\ \A t \in Sessions \ {s} : session'[t] = session[t]
  BY <1>1, <1>2 DEF Typed
<1> QED
  BY <1>3 DEF Becomes, Sleeping

LEMMA AnswerKnown ==
    ASSUME Known, NEW s \in Sessions, Answer(s)
    PROVE  Known'
<1>1. RefsTyped'
  BY SameRefs DEF Answer, Known, Typed
<1>2. PICK script : script = << >>
  OBVIOUS
<1>3. FlowAt("idle", "post", None, script)
  BY <1>2 DEF FlowAt
<1>4. Becomes(s, "idle", "post", None, script, "main")
  BY <1>2, AnswerDoes DEF Known
<1> QED
  BY <1>1, <1>3, <1>4, KnownNext

LEMMA KnownStep == ASSUME Known, [Next]_vars PROVE Known'
<1>1. ASSUME NEW s \in Sessions, Step(s) PROVE Known'
  BY <1>1, LockKnown, CheckKnown, ShortcutKnown, LookupKnown, PlanKnown, WriteKnown, ClearKnown,
     DropKnown, OfferingKnown, AnswerKnown DEF Step
<1>2. ASSUME NEW r \in Rigs, MergePR(r) \/ RefreshListing(r) PROVE Known'
  <2>1. UNCHANGED session
    BY <1>2 DEF MergePR, RefreshListing
  <2>2. RefsTyped'
    BY <1>2, MergeTyped, ListingTyped DEF Known, Typed
  <2> QED
    BY <2>1, <2>2 DEF Known, Typed, Flow
<1>3. CASE UNCHANGED vars
  <2>1. RefsTyped' /\ UNCHANGED session
    BY <1>3, SameRefs DEF vars, refs, Known, Typed
  <2> QED
    BY <2>1 DEF Known, Typed, Flow
<1> QED
  BY <1>1, <1>2, <1>3, BeginKnown DEF Next

LEMMA KnownFirst == Init => Known
<1> SUFFICES ASSUME Init PROVE Known
  OBVIOUS
<1>1. /\ upstream \in {History[i] : i \in DOMAIN History}
      /\ main \in [Rigs -> {History[i] : i \in DOMAIN History}]
  BY DEF Init, RefsInit
<1>2. \A i \in DOMAIN History : History[i] \in Tables /\ Finite(History[i])
  OBVIOUS
<1>3. RefsTyped
  BY <1>1, <1>2 DEF Init, RefsInit, RefsTyped, Rows
<1>4. Sleeping \in Session
  <2>1. << >> \in Seq(Statement)
    OBVIOUS
  <2> QED
    BY <2>1 DEF Sleeping, Session, Operations, Status
<1>5. session \in [Sessions -> Session] /\ \A s \in Sessions : session[s] = Sleeping
  BY <1>4 DEF Init
<1>6. \A s \in Sessions : Flow(s)
  BY <1>5 DEF Flow, FlowAt, Sleeping
<1> QED
  BY <1>3, <1>5, <1>6 DEF Known, Typed

TypeInv == Known /\ mutex \in [Rigs -> Sessions \cup {Free}] /\ requests \in 0 .. MaxRequests

(* Whatever fails, whatever is merged and however requests overlap, every ref *)
(* holds rows of the tables, every script is made of statements of the DML,   *)
(* and a request is where its operation can have brought it.                  *)
THEOREM TypeCorrect == Spec => []TypeOK
<1>1. Init => TypeInv
  <2>1. Init => /\ mutex = [r \in Rigs |-> Free] /\ requests = 0
    BY DEF Init, RefsInit
  <2> QED
    BY <2>1, KnownFirst DEF TypeInv
<1>2. TypeInv /\ [Next]_vars => TypeInv'
  <2> SUFFICES ASSUME TypeInv, [Next]_vars PROVE TypeInv'
    OBVIOUS
  <2>1. Known'
    BY KnownStep DEF TypeInv
  <2>2. mutex' \in [Rigs -> Sessions \cup {Free}]
    <3>1. ASSUME NEW s \in Sessions, Step(s) PROVE mutex' \in [Rigs -> Sessions \cup {Free}]
      <4>1. \/ UNCHANGED mutex \/ mutex' = [mutex EXCEPT ![Owner[s]] = s]
            \/ mutex' = [mutex EXCEPT ![Owner[s]] = Free]
            \/ mutex' = [mutex EXCEPT ![Owner[s]] = IF @ = s THEN Free ELSE @]
        BY <3>1 DEF Step, Lock, Check, Shortcut, LookupCompletion, LookupSubmission, Plan, Write,
           Settle, ClosePR, DropBranch, Clear, CreatePR, SubmitPR, CloseUpstreamPR, Answer
      <4> QED
        BY <4>1 DEF TypeInv
    <3>2. ASSUME UNCHANGED mutex PROVE mutex' \in [Rigs -> Sessions \cup {Free}]
      BY <3>2 DEF TypeInv
    <3> QED
      BY <3>1, <3>2 DEF Next, Begin, MergePR, RefreshListing, vars
  <2>3. requests' \in 0 .. MaxRequests
    <3>1. ASSUME NEW s \in Sessions, Step(s) PROVE UNCHANGED requests
      BY <3>1 DEF Step, Lock, Check, Shortcut, LookupCompletion, LookupSubmission, Plan, Write,
           Settle, ClosePR, DropBranch, Clear, CreatePR, SubmitPR, CloseUpstreamPR, Answer
    <3>2. ASSUME NEW s, NEW op, NEW q, Begin(s, op, q) PROVE requests' \in 0 .. MaxRequests
      BY <3>2 DEF Begin, TypeInv
    <3> QED
      BY <3>1, <3>2 DEF Next, MergePR, RefreshListing, vars, TypeInv
  <2> QED
    BY <2>1, <2>2, <2>3 DEF TypeInv
<1>3. TypeInv => TypeOK
  BY DEF TypeInv, Known, Typed, RefsTyped, Rows, TypeOK
<1> QED
  BY <1>1, <1>2, <1>3, PTL DEF Spec

-----------------------------------------------------------------------------
(* Who may touch the branch and the pull request of a rig.                    *)

LEMMA Apart ==
    ASSUME MutexInv, NEW s \in Sessions, NEW t \in Sessions, s # t, Owner[s] = Owner[t], Working(s)
    PROVE  ~Working(t)
BY DEF MutexInv, Held

LEMMA OwnBranch ==
    ASSUME Known, NEW s \in Sessions, Step(s)
    PROVE  /\ \A r \in Rigs \ {Owner[s]} : branch'[r] = branch[r]
           /\ session[s].pc \notin {"exec", "drop", "clear"} => UNCHANGED branch
<1>1. CASE Write(s)
  <2>1. session[s].pc = "exec"
    BY <1>1 DEF Write
  <2>2. Written(Owner[s], session[s].from, Head(session[s].script)) \/ UNCHANGED branch
    BY <1>1, WriteDoes DEF Unwritten
  <2> QED
    BY <2>1, <2>2 DEF Written
<1>2. CASE DropBranch(s)
  BY <1>2 DEF DropBranch, Known, Typed, RefsTyped
<1>3. CASE Clear(s)
  <2>1. session[s].pc = "clear"
    BY <1>3 DEF Clear
  <2>2. PICK from : Written(Owner[s], from, Head(session[s].script)) \/ UNCHANGED branch
    BY <1>3, ClearDoes DEF Unwritten
  <2> QED
    BY <2>1, <2>2 DEF Written
<1>4. CASE UNCHANGED branch
  BY <1>4
<1>5. CASE \/ Lock(s) \/ Check(s) \/ Shortcut(s) \/ LookupCompletion(s) \/ LookupSubmission(s)
           \/ Plan(s) \/ Settle(s) \/ Answer(s)
  BY <1>4, <1>5 DEF Lock, Check, Shortcut, LookupCompletion, LookupSubmission, Plan, Settle, Answer, refs
<1>6. CASE ClosePR(s) \/ CreatePR(s) \/ SubmitPR(s) \/ CloseUpstreamPR(s)
  BY <1>4, <1>6 DEF ClosePR, CreatePR, SubmitPR, CloseUpstreamPR
<1> QED
  BY <1>1, <1>2, <1>3, <1>5, <1>6 DEF Step

LEMMA OwnOffer ==
    ASSUME Known, NEW s \in Sessions, Step(s), NEW r \in Rigs, pr'[r], ~pr[r]
    PROVE  r = Owner[s] /\ session[s].pc \in {"offer", "submit"}
<1>1. CASE \/ Lock(s) \/ Check(s) \/ Shortcut(s) \/ LookupCompletion(s) \/ LookupSubmission(s)
           \/ Plan(s) \/ Write(s) \/ Settle(s) \/ DropBranch(s) \/ Clear(s) \/ Answer(s)
  <2>1. UNCHANGED pr
    BY <1>1 DEF Lock, Check, Shortcut, LookupCompletion, LookupSubmission, Plan, Write, Settle,
       DropBranch, Clear, Answer, refs
  <2> QED
    BY <2>1
<1>2. CASE ClosePR(s) \/ CloseUpstreamPR(s)
  <2>1. PICK q : pr' = [pr EXCEPT ![q] = FALSE] \/ pr' = pr
    BY <1>2 DEF ClosePR, CloseUpstreamPR
  <2> QED
    BY <2>1 DEF Known, Typed, RefsTyped
<1>3. CASE CreatePR(s) \/ SubmitPR(s)
  BY <1>3 DEF CreatePR, SubmitPR, Offer, Known, Typed, RefsTyped
<1> QED
  BY <1>1, <1>2, <1>3 DEF Step

(* The statements of a mutation: none erases the item.                        *)
Mild == {stmt \in Statement : stmt.into = "wanted" =>
           ("status" \in DOMAIN stmt.set => stmt.set["status"] # "none")}

LEMMA MildUpdate ==
    ASSUME NEW where \in SUBSET Status, NEW holders \in SUBSET (Rigs \cup {None}),
           NEW st \in Present, NEW by \in Rigs \cup {None}, NEW text \in {"none", "posted", "edited"}
    PROVE  /\ UpdateHeld(where, holders, [status |-> st]) \in Mild
           /\ UpdateHeld(where, holders, [text |-> text]) \in Mild
           /\ UpdateHeld(where, holders, [status |-> st, claimedBy |-> by]) \in Mild
           /\ UpdateHeld(where, holders, [status |-> st, text |-> text]) \in Mild
<1>1. st \in Status /\ st # "none"
  BY DEF Status, Present
<1>2. /\ UpdateHeld(where, holders, [status |-> st]) \in Statement
      /\ UpdateHeld(where, holders, [text |-> text]) \in Statement
      /\ UpdateHeld(where, holders, [status |-> st, claimedBy |-> by]) \in Statement
      /\ UpdateHeld(where, holders, [status |-> st, text |-> text]) \in Statement
  BY <1>1, UpdateTyped
<1> QED
  BY <1>1, <1>2 DEF Mild, UpdateHeld

LEMMA MildCompletions ==
    ASSUME NEW id \in Nat, NEW by \in Rigs, NEW stamp \in Nat, NEW x \in Stamp
    PROVE  /\ DeleteCompletions \in Mild /\ InsertCompletion(id, by) \in Mild
           /\ SubmitIfInReview(id, by) \in Mild /\ LinkStamp(id, stamp) \in Mild
           /\ InsertStamp(x) \in Mild
BY CompletionsTyped
   DEF Mild, DeleteCompletions, InsertCompletion, SubmitIfInReview, LinkStamp, InsertStamp

LEMMA MildScripts ==
    ASSUME NEW r \in Rigs, NEW by \in Rigs, NEW id \in Nat, NEW x \in Stamp
    PROVE  /\ \A script \in Fixed(r) : script \in Seq(Mild)
           /\ SubmitCompletionDML(id, r) \in Seq(Mild)
           /\ AcceptCompletionDML(id, x) \in Seq(Mild)
           /\ CloseUpstreamDML(id, by) \in Seq(Mild)
           /\ AcceptUpstreamDML(id, by, x) \in Seq(Mild)
<1>1. /\ InsertWantedDML \in Mild /\ UpdateWantedDML \in Mild
      /\ ClaimWantedDML(r) \in Mild /\ UnclaimWantedDML \in Mild
      /\ CloseWantedDML \in Mild /\ DeleteWantedDML \in Mild
      /\ UpdateHeld({"claimed"}, {r}, [status |-> "in_review"]) \in Mild
      /\ Update({"in_review"}, [status |-> "claimed"]) \in Mild
      /\ Update({"in_review"}, [status |-> "completed"]) \in Mild
      /\ Update(Present, [status |-> "completed", claimedBy |-> by]) \in Mild
  <2>1. /\ {"none"} \in SUBSET Status /\ {"open"} \in SUBSET Status
        /\ {"claimed"} \in SUBSET Status /\ {"in_review"} \in SUBSET Status
        /\ Present \in SUBSET Status /\ {r} \in SUBSET (Rigs \cup {None})
        /\ Rigs \cup {None} \in SUBSET (Rigs \cup {None})
        /\ {"open", "claimed", "in_review", "completed", "withdrawn"} \subseteq Present
        /\ r \in Rigs \cup {None} /\ by \in Rigs \cup {None} /\ None \in Rigs \cup {None}
    BY DEF Status, Present
  <2> QED
    BY <2>1, MildUpdate
    DEF InsertWantedDML, UpdateWantedDML, ClaimWantedDML, UnclaimWantedDML, CloseWantedDML,
        DeleteWantedDML, Update
<1>2. x.id \in Nat
  BY DEF Stamp
<1>3. /\ DeleteCompletions \in Mild /\ InsertCompletion(id, by) \in Mild
      /\ SubmitIfInReview(id, r) \in Mild /\ LinkStamp(id, x.id) \in Mild
      /\ InsertStamp(x) \in Mild
  BY <1>2, MildCompletions
<1>4. CloseUpstreamDML(id, by) \in Seq(Mild)
  BY <1>1, <1>3 DEF CloseUpstreamDML
<1>5. <<InsertStamp(x), LinkStamp(id, x.id)>> \in Seq(Mild)
  BY <1>3
<1>6. AcceptUpstreamDML(id, by, x) \in Seq(Mild)
  BY <1>4, <1>5 DEF AcceptUpstreamDML
<1> QED
  BY <1>1, <1>3, <1>4, <1>6
  DEF Fixed, SubmitCompletionDML, RejectCompletionDML, AcceptCompletionDML

(* Nothing mild takes the item away.                                          *)
LEMMA MildKeeps ==
    ASSUME NEW t \in Tables, NEW stmt \in Mild, t.status # "none"
    PROVE  Apply(stmt, t).status # "none"
<1>1. stmt \in Statement
  BY DEF Mild
<1>2. CASE stmt.into = "wanted"
  <2>1. PICK new : new = stmt.set /\ ("status" \in DOMAIN new => new["status"] # "none")
    BY <1>2 DEF Mild
  <2>2. "status" \in DOMAIN t
    BY DEF Tables
  <2>3. Override(t, new)["status"] = IF "status" \in DOMAIN new THEN new["status"] ELSE t["status"]
    BY <2>2, OverrideFields
  <2>4. Apply(stmt, t) \in {t, Override(t, new)}
    BY <1>2, <2>1 DEF Apply
  <2> QED
    BY <2>1, <2>3, <2>4
<1>3. CASE stmt.into = "completions"
  BY <1>3 DEF Apply, Tables
<1>4. CASE stmt.into = "stamps"
  BY <1>4 DEF Apply, Tables
<1> QED
  BY <1>1, <1>2, <1>3, <1>4 DEF Statement

-----------------------------------------------------------------------------
(* No branch with the item is emptied while its pull request is open, as long *)
(* as reads and DoltHub's pull-request calls succeed, and SubmitPR (which     *)
(* takes no mutex) is not requested beside another request of the same rig.   *)

Reliable == "read" \notin Faults /\ "pr" \notin Faults
SubmitsAlone == "submit-pr" \in Ops => \A s, t \in Sessions : Owner[s] = Owner[t] => s = t

Guarded(s) ==
    /\ session[s].pc \in {"drop", "clear"} => ~pr[Owner[s]]
    /\ session[s].pc = "exec" /\ session[s].from = "main" => StatusOf(branch[Owner[s]]) = "none"
    /\ session[s].pc \in {"plan", "exec"} => session[s].script \in Seq(Mild)
    /\ session[s].pc = "submit" => "submit-pr" \in Ops

CleanupInv == Known /\ MutexInv /\ \A s \in Sessions : Guarded(s)

LEMMA OthersGuarded ==
    ASSUME CleanupInv, SubmitsAlone, NEW s \in Sessions, Step(s),
           NEW t \in Sessions, t # s, session'[t] = session[t]
    PROVE  Guarded(t)'
<1> DEFINE r == Owner[t]
<1>1. Guarded(t) /\ Guarded(s) /\ r \in Rigs /\ Known /\ MutexInv
  BY DEF CleanupInv
<1>2. ASSUME session[t].pc \in {"drop", "clear"}, pr'[r] PROVE FALSE
  <2>1. ~pr[r] /\ Working(t)
    BY <1>1, <1>2 DEF Guarded, Working
  <2>2. r = Owner[s] /\ session[s].pc \in {"offer", "submit"}
    BY <1>1, <1>2, <2>1, OwnOffer
  <2>3. CASE session[s].pc = "offer"
    BY <1>1, <2>1, <2>2, <2>3, Apart DEF Working
  <2>4. CASE session[s].pc = "submit"
    BY <1>1, <2>2, <2>4 DEF Guarded, SubmitsAlone
  <2> QED
    BY <2>2, <2>3, <2>4
<1>3. ASSUME session[t].pc = "exec" PROVE branch'[r] = branch[r]
  <2>1. Working(t)
    BY <1>3 DEF Working
  <2>2. r = Owner[s] => ~Working(s)
    BY <1>1, <2>1, Apart
  <2>3. r = Owner[s] => UNCHANGED branch
    BY <1>1, <2>2, OwnBranch DEF Working
  <2> QED
    BY <1>1, <2>3, OwnBranch
<1> QED
  BY <1>1, <1>2, <1>3 DEF Guarded, StatusOf

(* What is left to show of a step: that the request itself is guarded.        *)
LEMMA GuardedStep ==
    ASSUME CleanupInv, SubmitsAlone, NEW s \in Sessions, Step(s),
           \A t \in Sessions \ {s} : session'[t] = session[t],
           Guarded(s)'
    PROVE  \A t \in Sessions : Guarded(t)'
BY OthersGuarded

LEMMA FreshlyMild ==
    ASSUME NEW r \in Rigs, NEW script, Simple(script, r)
    PROVE  script \in Seq(Mild)
<1>1. PICK id \in Nat : script \in Fixed(r) \/ script = SubmitCompletionDML(id, r)
  BY DEF Simple
<1>2. [id |-> id, author |-> r, subject |-> r, context |-> id] \in Stamp
  BY DEF Stamp
<1> QED
  BY <1>1, <1>2, MildScripts

LEMMA QuietlyGuarded ==
    ASSUME NEW s \in Sessions, NEW pc, NEW op, NEW q, NEW script, NEW from,
           Becomes(s, pc, op, q, script, from),
           pc \notin {"drop", "clear", "exec", "plan", "submit"}
    PROVE  Guarded(s)'
BY DEF Becomes, Guarded

LEMMA GuardedSteps ==
    ASSUME CleanupInv, Reliable, SubmitsAlone, NEW s \in Sessions, Step(s)
    PROVE  Guarded(s)' /\ \A t \in Sessions \ {s} : session'[t] = session[t]
<1> DEFINE r == Owner[s]
           me == session[s]
<1>1. Known /\ MutexInv /\ Guarded(s) /\ r \in Rigs /\ me \in Session
  BY DEF CleanupInv, Known, Typed
<1>2. PICK op, q, from : op = me.op /\ q = me.submitter /\ from = me.from
  OBVIOUS
<1>3. ASSUME NEW pc, NEW script, GoesOn(s, pc, script)
      PROVE  Becomes(s, pc, op, q, script, from)
  BY <1>2, <1>3 DEF GoesOn
<1>4. ASSUME NEW pc \in {"answer", "check", "close", "lock", "shortcut", "lookup", "offer", "retire", "settle"},
             NEW script, GoesOn(s, pc, script)
      PROVE  Guarded(s)' /\ \A t \in Sessions \ {s} : session'[t] = session[t]
  <2>1. Becomes(s, pc, op, q, script, from)
    BY <1>3, <1>4
  <2> QED
    BY <2>1, QuietlyGuarded DEF Becomes
<1>5. PICK none : none = << >>
  OBVIOUS
<1>6. CASE Lock(s)
  <2>1. ASSUME GoesOn(s, "plan", none)
        PROVE  Guarded(s)' /\ \A t \in Sessions \ {s} : session'[t] = session[t]
    <3>1. Becomes(s, "plan", op, q, none, from)
      BY <1>3, <2>1
    <3>2. none \in Seq(Mild)
      BY <1>5
    <3> QED
      BY <3>1, <3>2 DEF Becomes, Guarded
  <2> QED
    BY <1>1, <1>4, <1>5, <1>6, <2>1, LockDoes
<1>7. CASE Check(s)
  <2>1. AfterCheck(me.op) \in {"shortcut", "lock", "lookup"}
    BY DEF AfterCheck
  <2>2. PICK pc : pc = AfterCheck(me.op)
    OBVIOUS
  <2>3. GoesOn(s, "answer", none) \/ GoesOn(s, pc, none)
    BY <1>1, <1>5, <1>7, <2>2, CheckDoes
  <2> QED
    BY <1>4, <2>1, <2>2, <2>3
<1>8. CASE Shortcut(s)
  BY <1>1, <1>4, <1>5, <1>8, ShortcutDoes
<1>9. ASSUME NEW script \in Seq(Mild), GoesOn(s, "plan", script)
      PROVE  Guarded(s)' /\ \A t \in Sessions \ {s} : session'[t] = session[t]
  <2>1. Becomes(s, "plan", op, q, script, from)
    BY <1>3, <1>9
  <2> QED
    BY <2>1 DEF Becomes, Guarded
<1>10. CASE LookupCompletion(s)
  <2>1. ASSUME NEW id \in Nat, NEW x \in Stamp, GoesOn(s, "plan", AcceptCompletionDML(id, x))
        PROVE  Guarded(s)' /\ \A t \in Sessions \ {s} : session'[t] = session[t]
    <3>1. PICK script : script = AcceptCompletionDML(id, x)
      OBVIOUS
    <3>2. script \in Seq(Mild)
      BY <1>1, <3>1, MildScripts
    <3> QED
      BY <1>9, <2>1, <3>1, <3>2
  <2> QED
    BY <1>1, <1>4, <1>5, <1>10, <2>1, LookupCompletionDoes
<1>11. CASE LookupSubmission(s)
  <2>1. ASSUME NEW id \in Nat, NEW by \in Rigs, NEW script,
               script = CloseUpstreamDML(id, by) \/ \E x \in Stamp : script = AcceptUpstreamDML(id, by, x),
               GoesOn(s, "plan", script)
        PROVE  Guarded(s)' /\ \A t \in Sessions \ {s} : session'[t] = session[t]
    <3>1. [id |-> id, author |-> by, subject |-> by, context |-> id] \in Stamp
      BY DEF Stamp
    <3>2. PICK x \in Stamp : script \in {CloseUpstreamDML(id, by), AcceptUpstreamDML(id, by, x)}
      BY <2>1, <3>1
    <3>3. CloseUpstreamDML(id, by) \in Seq(Mild) /\ AcceptUpstreamDML(id, by, x) \in Seq(Mild)
      BY MildScripts
    <3>4. script \in Seq(Mild)
      BY <3>2, <3>3
    <3> QED
      BY <1>9, <2>1, <3>4
  <2>2. \/ GoesOn(s, "answer", none)
        \/ \E id \in Nat, by \in Rigs : \E script :
             /\ script = CloseUpstreamDML(id, by) \/ \E x \in Stamp : script = AcceptUpstreamDML(id, by, x)
             /\ GoesOn(s, "plan", script)
    BY <1>1, <1>5, <1>11, LookupSubmissionDoes
  <2> QED
    BY <1>4, <2>1, <2>2
<1>12. CASE Plan(s)
  <2>1. PICK script, f :
           /\ Becomes(s, "exec", op, q, script, f) /\ f \in From(r)
           /\ script = me.script \/ Simple(script, r)
    BY <1>1, <1>2, <1>12, PlanDoes
  <2>2. script \in Seq(Mild)
    BY <1>1, <1>12, <2>1, FreshlyMild DEF Guarded, Plan
  <2>3. f = "main" => StatusOf(branch[r]) = "none"
    BY <2>1 DEF From, Read, Reliable
  <2>4. UNCHANGED branch
    BY <1>12 DEF Plan, refs
  <2> QED
    BY <2>1, <2>2, <2>3, <2>4 DEF Becomes, Guarded
<1>13. CASE Write(s)
  <2>1. me.script \in Seq(Mild) /\ Len(me.script) \in 1 .. 5
    BY <1>1, <1>13, WriteDoes DEF Guarded, Write
  <2>2. PICK rest : rest = Tail(me.script)
    OBVIOUS
  <2>3. rest \in Seq(Mild)
    BY <2>1, <2>2, HeadTail
  <2>4. ASSUME NEW pc \in {"settle", "exec"}, Becomes(s, pc, op, q, rest, "branch")
        PROVE  Guarded(s)' /\ \A t \in Sessions \ {s} : session'[t] = session[t]
    BY <2>3, <2>4 DEF Becomes, Guarded
  <2>5. \/ \E pc \in {"settle", "exec"} : Becomes(s, pc, op, q, rest, "branch")
        \/ GoesOn(s, "answer", none)
    BY <1>1, <1>2, <1>5, <1>13, <2>2, WriteDoes
  <2> QED
    BY <1>4, <2>4, <2>5
<1>14. CASE Settle(s)
  BY <1>1, <1>4, <1>5, <1>14, SettleDoes
<1>15. CASE ClosePR(s)
  <2>1. Becomes(s, "drop", op, q, none, from)
    BY <1>1, <1>3, <1>5, <1>15, ClosePRDoes
  <2>2. ~pr'[r]
    BY <1>1, <1>15 DEF ClosePR, Reliable, Known, Typed, RefsTyped
  <2> QED
    BY <2>1, <2>2 DEF Becomes, Guarded
<1>16. ASSUME NEW script, GoesOn(s, "clear", script), me.pc \in {"drop", "clear"}, UNCHANGED pr
       PROVE  Guarded(s)' /\ \A t \in Sessions \ {s} : session'[t] = session[t]
  <2>1. Becomes(s, "clear", op, q, script, from)
    BY <1>3, <1>16
  <2>2. ~pr'[r]
    BY <1>1, <1>16 DEF Guarded
  <2> QED
    BY <2>1, <2>2 DEF Becomes, Guarded
<1>17. CASE DropBranch(s)
  <2>1. me.pc = "drop" /\ UNCHANGED pr
    BY <1>17 DEF DropBranch
  <2> QED
    BY <1>1, <1>4, <1>5, <1>16, <1>17, <2>1, DropBranchDoes
<1>18. CASE Clear(s)
  <2>1. me.pc = "clear" /\ UNCHANGED pr
    BY <1>18 DEF Clear
  <2>2. PICK script : script = <<EraseWanted>>
    OBVIOUS
  <2>3. GoesOn(s, "clear", script) \/ GoesOn(s, "retire", none) \/ GoesOn(s, "answer", none)
    BY <1>1, <1>5, <1>18, <2>2, ClearDoes
  <2> QED
    BY <1>4, <1>16, <2>1, <2>3
<1>19. CASE CreatePR(s)
  <2>1. Finish(s)
    BY <1>19 DEF CreatePR
  <2> QED
    BY <1>1, <1>4, <1>5, <2>1, FinishDoes
<1>20. CASE SubmitPR(s) \/ CloseUpstreamPR(s)
  <2>1. PICK answer \in Answers : Say(s, answer)
    BY <1>1, <1>20 DEF SubmitPR, CloseUpstreamPR, Answers, Session
  <2>2. GoesOn(s, "answer", none)
    BY <1>1, <1>5, <2>1, GotoSaid DEF Known, GoesOn
  <2> QED
    BY <1>4, <2>2
<1>21. CASE Answer(s)
  <2>1. Becomes(s, "idle", "post", None, none, "main")
    BY <1>1, <1>5, <1>21, AnswerDoes DEF Known
  <2> QED
    BY <2>1, QuietlyGuarded DEF Becomes
<1> HIDE DEF r, me
<1> QED
  BY <1>6, <1>7, <1>8, <1>10, <1>11, <1>12, <1>13, <1>14, <1>15, <1>17, <1>18, <1>19, <1>20, <1>21
     DEF Step

LEMMA CleanupStepKept ==
    ASSUME CleanupInv, Reliable, SubmitsAlone, [Next]_vars
    PROVE  CleanupInv'
<1>1. Known' /\ MutexInv'
  BY KnownStep, MutexStep DEF CleanupInv
<1>2. ASSUME NEW s \in Sessions, Step(s) PROVE \A t \in Sessions : Guarded(t)'
  BY <1>2, GuardedSteps, GuardedStep
<1>3. ASSUME NEW s \in Sessions, NEW op \in Ops, NEW q \in Submitters(op), Begin(s, op, q)
      PROVE  \A t \in Sessions : Guarded(t)'
  <2>1. PICK pc, from, script :
          /\ pc \in {"check", "enter", "submit", "lock"}
          /\ Becomes(s, pc, op, q, script, from)
          /\ pc = "submit" => op = "submit-pr"
    BY <1>3, BeginDoes DEF CleanupInv
  <2>2. UNCHANGED <<branch, pr>>
    BY <1>3 DEF Begin, refs
  <2>3. Guarded(s)'
    BY <2>1 DEF Becomes, Guarded
  <2>4. ASSUME NEW t \in Sessions, t # s PROVE Guarded(t)'
    <3>1. session'[t] = session[t]
      BY <2>1, <2>4 DEF Becomes
    <3> QED
      BY <2>2, <3>1 DEF CleanupInv, Guarded, StatusOf
  <2> QED
    BY <2>3, <2>4
<1>4. ASSUME NEW r \in Rigs, MergePR(r) \/ RefreshListing(r)
      PROVE  \A t \in Sessions : Guarded(t)'
  <2>1. UNCHANGED <<session, branch>> /\ \A q \in Rigs : pr'[q] => pr[q]
    BY <1>4 DEF MergePR, RefreshListing, CleanupInv, Known, Typed, RefsTyped
  <2> QED
    BY <2>1 DEF CleanupInv, Guarded, StatusOf
<1>5. ASSUME UNCHANGED vars PROVE \A t \in Sessions : Guarded(t)'
  BY <1>5 DEF vars, CleanupInv, Guarded, StatusOf
<1>6. \A t \in Sessions : Guarded(t)'
  BY <1>2, <1>3, <1>4, <1>5 DEF Next
<1> QED
  BY <1>1, <1>6 DEF CleanupInv

(* Emptied: the step that takes the item from the branch.                     *)
LEMMA Emptied ==
    ASSUME CleanupInv, NEW s \in Sessions, Step(s), NEW r \in Rigs,
           StatusOf(branch[r]) # "none", StatusOf(branch[r])' = "none"
    PROVE  ~pr[r]
<1>1. Known /\ Guarded(s) /\ Owner[s] \in Rigs
  BY DEF CleanupInv
<1>2. r = Owner[s] /\ session[s].pc \in {"exec", "drop", "clear"}
  BY <1>1, OwnBranch DEF StatusOf
<1>3. session[s].pc # "exec"
  <2>1. SUFFICES ASSUME session[s].pc = "exec" PROVE FALSE
    OBVIOUS
  <2>2. session[s].from \in {"main", "branch"} /\ session[s].from # "main"
    BY <1>1, <1>2, <2>1 DEF Guarded, Known, Typed, Session
  <2>3. Write(s)
    BY <2>1 DEF Step, Lock, Check, Shortcut, LookupCompletion, LookupSubmission, Plan, Settle,
       ClosePR, DropBranch, Clear, CreatePR, SubmitPR, CloseUpstreamPR, Answer
  <2>4. PICK stmt : stmt = Head(session[s].script)
    OBVIOUS
  <2>5. stmt \in Mild
    BY <1>1, <2>1, <2>3, <2>4, WriteDoes, HeadTail DEF Guarded
  <2>6. Written(r, "branch", stmt) \/ UNCHANGED branch
    BY <1>1, <1>2, <2>2, <2>3, <2>4, WriteDoes DEF Unwritten
  <2>7. branch[r] \in Tables /\ branch[r].status # "none"
    BY <1>1 DEF StatusOf, Known, Typed, RefsTyped
  <2>8. Apply(stmt, branch[r]).status # "none"
    BY <2>5, <2>7, MildKeeps
  <2>9. branch'[r] \in {Apply(stmt, branch[r]), branch[r]}
    BY <2>6 DEF Written, Source
  <2>10. branch'[r] # NoBranch
    <3>1. stmt \in Statement
      BY <2>5 DEF Mild
    <3> QED
      BY <2>7, <2>9, <3>1, ApplyTyped
  <2> QED
    BY <2>7, <2>8, <2>9, <2>10 DEF StatusOf
<1> QED
  BY <1>1, <1>2, <1>3 DEF Guarded

(* A branch that has the item loses it only while its pull request is closed: *)
(* cleanupBranch and DiscardBranch close the pull request first, and the      *)
(* mutex keeps out every request that would open it again before the branch   *)
(* is gone.  No other statement erases the item, and no script starts again   *)
(* from main where the branch has it already.                                 *)
THEOREM ClosedBeforeErased ==
    Reliable /\ SubmitsAlone => (Spec => NotErasedWhileOffered)
<1> SUFFICES ASSUME Reliable, SubmitsAlone PROVE Spec => NotErasedWhileOffered
  OBVIOUS
<1>1. Init => CleanupInv
  <2>1. Init => MutexInv
    BY DEF Init, RefsInit, MutexInv, Shaped, Held, Working, Sleeping
  <2>2. Init => \A s \in Sessions : Guarded(s)
    BY DEF Init, RefsInit, Guarded, Sleeping
  <2> QED
    BY <2>1, <2>2, KnownFirst DEF CleanupInv
<1>2. CleanupInv /\ [Next]_vars => CleanupInv'
  BY CleanupStepKept
<1>3. CleanupInv /\ [Next]_vars =>
        [\A r \in Rigs :
           StatusOf(branch[r]) # "none" /\ StatusOf(branch'[r]) = "none" => ~pr[r]]_vars
  <2> SUFFICES ASSUME CleanupInv, [Next]_vars, NEW r \in Rigs,
                      StatusOf(branch[r]) # "none", StatusOf(branch'[r]) = "none"
               PROVE  ~pr[r]
    OBVIOUS
  <2>1. StatusOf(branch[r])' = "none"
    BY DEF StatusOf
  <2>2. branch' # branch
    OBVIOUS
  <2>3. \E s \in Sessions : Step(s)
    BY <2>2 DEF Next, Begin, MergePR, RefreshListing, vars, refs
  <2> QED
    BY <2>1, <2>3, Emptied
<1> QED
  BY <1>1, <1>2, <1>3, PTL DEF Spec, NotErasedWhileOffered

-----------------------------------------------------------------------------
(* The board stays kempt, as long as reads and writes do not fail and the      *)
(* forks were taken of databases that are.                                     *)

Dependable == "read" \notin Faults /\ "write" \notin Faults
Begun == \A i \in DOMAIN History : Clean(History[i], History[i].status # "completed")

(* The fork was taken before the item was completed.                           *)
Early(r) == main[r].status # "completed"

ForksOK == \A r \in Rigs : Clean(main[r], Early(r))

(* The script leaves kempt whatever it starts from, the branch if that has the *)
(* item, and else main; and only its first statement may post the item.        *)
Fits(r, script) ==
    /\ Len(script) \in 1 .. 5 /\ Dull(Tail(script))
    /\ Kempt(Run(script, main[r]), Early(r))
    /\ StatusOf(branch[r]) # "none" => Kempt(Run(script, branch[r]), Early(r))

(* What is left of a script under way will leave the branch kempt.             *)
Leads(r, script, from) ==
    /\ Dull(Tail(script))
    /\ from = "main" => StatusOf(branch[r]) = "none" /\ Kempt(Run(script, main[r]), Early(r))
    /\ from = "branch" => \/ branch[r] = NoBranch
                          \/ /\ Kempt(Run(script, branch[r]), Early(r))
                             /\ branch[r].status = "none" => Dull(script)

Sound(s) ==
    /\ session[s].pc = "lookup" /\ session[s].op = "accept"
          => (Early(Owner[s]) => StatusOf(branch[Owner[s]]) # "completed")
    /\ session[s].pc = "plan" => session[s].script = << >> \/ Fits(Owner[s], session[s].script)
    /\ session[s].pc = "exec" => Leads(Owner[s], session[s].script, session[s].from)

Resting(r) == branch[r] = NoBranch \/ Kempt(branch[r], Early(r))
Busy(s) == session[s].pc \in {"exec", "clear"}

BoardInv ==
    /\ Known /\ MutexInv /\ ForksOK
    /\ \A s \in Sessions : Sound(s)
    /\ \A r \in Rigs : Resting(r) \/ \E s \in Sessions : Owner[s] = r /\ Busy(s)

LEMMA OnlyRests ==
    ASSUME BoardInv, NEW s \in Sessions, Working(s), ~Busy(s)
    PROVE  Resting(Owner[s])
<1>1. Owner[s] \in Rigs
  OBVIOUS
<1>2. ASSUME NEW t \in Sessions, Owner[t] = Owner[s], Busy(t) PROVE FALSE
  <2>1. t # s /\ Working(t)
    BY <1>2 DEF Busy, Working
  <2> QED
    BY <1>2, <2>1, Apart DEF BoardInv
<1> QED
  BY <1>1, <1>2 DEF BoardInv

(* A script that is made in the plan fits.                                     *)
LEMMA SimpleKempt ==
    ASSUME NEW early, NEW t \in Tables, Clean(t, early), NEW r \in Rigs, NEW script, Simple(script, r),
           \A id : New(id) => id \notin IdsIn(t)
    PROVE  Kempt(Run(script, t), early)
<1>1. \A stmt \in {InsertWantedDML, UpdateWantedDML, ClaimWantedDML(r), UnclaimWantedDML,
                   CloseWantedDML, DeleteWantedDML} :
         stmt \in Statement /\ Kempt(Apply(stmt, t), early)
  <2>1. Kempt(t, early) /\ (t.status = "none" => t.completions = {})
    BY DEF Clean
  <2> QED
    BY <2>1, OneKempt, UpdateStatement
<1>2. \A stmt \in {InsertWantedDML, UpdateWantedDML, ClaimWantedDML(r), UnclaimWantedDML,
                   CloseWantedDML, DeleteWantedDML} : Kempt(Run(<<stmt>>, t), early)
  BY <1>1, RunOne
<1>3. CASE script \in Fixed(r)
  <2>1. CASE script = RejectCompletionDML
    BY <2>1, RejectKempt
  <2>2. CASE script # RejectCompletionDML
    BY <1>2, <1>3, <2>2 DEF Fixed
  <2> QED
    BY <2>1, <2>2
<1>4. CASE \E id \in Nat : New(id) /\ script = SubmitCompletionDML(id, r)
  BY <1>4, SubmitKempt
<1> QED
  BY <1>3, <1>4 DEF Simple

LEMMA SimpleDull ==
    ASSUME NEW r \in Rigs, NEW script, Simple(script, r)
    PROVE  Len(script) \in 1 .. 5 /\ Dull(Tail(script))
<1>1. Len(script) \in 1 .. 5
  BY SimpleTyped
<1>2. PICK x : x \in Stamp
  <2>1. [id |-> 0, author |-> r, subject |-> r, context |-> 0] \in Stamp
    BY DEF Stamp
  <2> QED
    BY <2>1
<1>3. ASSUME NEW id \in Nat
      PROVE  /\ Dull(Tail(SubmitCompletionDML(id, r))) /\ Dull(Tail(RejectCompletionDML))
             /\ \A stmt \in Statement : Dull(Tail(<<stmt>>))
  BY <1>2, DullScripts
<1>4. 0 \in Nat
  OBVIOUS
<1>5. CASE script \in Fixed(r)
  <2>1. Dull(Tail(RejectCompletionDML)) /\ \A stmt \in Statement : Dull(Tail(<<stmt>>))
    BY <1>3, <1>4
  <2>2. CASE script = RejectCompletionDML
    BY <1>1, <2>1, <2>2
  <2>3. CASE script # RejectCompletionDML
    BY <1>1, <1>5, <2>1, <2>3, UpdateStatement DEF Fixed
  <2> QED
    BY <2>2, <2>3
<1>6. CASE \E id \in Nat : New(id) /\ script = SubmitCompletionDML(id, r)
  BY <1>1, <1>3, <1>6
<1> QED
  BY <1>5, <1>6 DEF Simple

LEMMA TipsClean ==
    ASSUME Known, ForksOK, NEW r \in Rigs
    PROVE  /\ main[r] \in Tables /\ Clean(main[r], Early(r))
           /\ \A id : New(id) => id \notin IdsIn(main[r])
           /\ StatusOf(branch[r]) # "none" =>
                /\ branch[r] # NoBranch /\ branch[r] \in Tables /\ branch[r].status # "none"
                /\ Resting(r) => Clean(branch[r], Early(r))
                /\ \A id : New(id) => id \notin IdsIn(branch[r])
BY DEF Known, Typed, RefsTyped, ForksOK, StatusOf, Clean, Resting, New

LEMMA SimpleFits ==
    ASSUME Known, ForksOK, NEW r \in Rigs, Resting(r), NEW script, Simple(script, r)
    PROVE  Fits(r, script)
BY TipsClean, SimpleKempt, SimpleDull DEF Fits

LEMMA AcceptFits ==
    ASSUME Known, ForksOK, NEW r \in Rigs, Resting(r),
           Early(r) => StatusOf(branch[r]) # "completed",
           NEW id \in Nat, NEW x \in Stamp, x.context = id
    PROVE  Fits(r, AcceptCompletionDML(id, x))
<1>1. PICK script : script = AcceptCompletionDML(id, x)
  OBVIOUS
<1>2. Len(script) \in 1 .. 5 /\ Dull(Tail(script))
  <2>1. script \in {AcceptCompletionDML(id, x), CloseUpstreamDML(id, r), AcceptUpstreamDML(id, r, x)}
    BY <1>1
  <2> QED
    BY <2>1, Shapes
<1>3. \A t \in Tables : Clean(t, Early(r)) /\ (Early(r) => t.status # "completed") => Kempt(Run(script, t), Early(r))
  BY <1>1, AcceptKempt
<1>4. Early(r) => main[r].status # "completed"
  BY DEF Early
<1>5. branch[r] # NoBranch => StatusOf(branch[r]) = branch[r].status
  BY DEF StatusOf
<1> QED
  BY <1>1, <1>2, <1>3, <1>4, <1>5, TipsClean DEF Fits

LEMMA AdoptionFits ==
    ASSUME Known, ForksOK, NEW r \in Rigs, NEW by \in Rigs, NEW id \in Nat, New(id),
           NEW x \in Stamp, x.context = id
    PROVE  Fits(r, CloseUpstreamDML(id, by)) /\ Fits(r, AcceptUpstreamDML(id, by, x))
<1>1. PICK p, q : p = CloseUpstreamDML(id, by) /\ q = AcceptUpstreamDML(id, by, x)
  OBVIOUS
<1>2. /\ Len(p) \in 1 .. 5 /\ Dull(Tail(p)) /\ Len(q) \in 1 .. 5 /\ Dull(Tail(q))
  <2>1. {p, q} \subseteq {AcceptCompletionDML(id, x), CloseUpstreamDML(id, by), AcceptUpstreamDML(id, by, x)}
    BY <1>1
  <2> QED
    BY <2>1, Shapes
<1>3. \A t \in Tables : id \notin IdsIn(t) => Kempt(Run(p, t), Early(r)) /\ Kempt(Run(q, t), Early(r))
  BY <1>1, CloseUpstreamKempt, AcceptUpstreamKempt
<1> QED
  BY <1>1, <1>2, <1>3, TipsClean DEF Fits

(* What the other requests of a board rely on is not touched by a step of s.   *)
LEMMA StillSound ==
    ASSUME NEW t \in Sessions, Sound(t), session'[t] = session[t], main' = main,
           branch'[Owner[t]] = branch[Owner[t]]
    PROVE  Sound(t)'
BY DEF Sound, Fits, Leads, Early

LEMMA OthersSound ==
    ASSUME BoardInv, NEW s \in Sessions, Step(s), main' = main,
           NEW t \in Sessions, t # s, session'[t] = session[t]
    PROVE  Sound(t)'
<1>1. Sound(t) /\ Known /\ Owner[s] \in Rigs /\ Owner[t] \in Rigs
  BY DEF BoardInv
<1>2. CASE branch'[Owner[t]] = branch[Owner[t]]
  BY <1>1, <1>2, StillSound
<1>3. CASE branch'[Owner[t]] # branch[Owner[t]]
  <2>1. Owner[t] = Owner[s] /\ session[s].pc \in {"exec", "drop", "clear"}
    BY <1>1, <1>3, OwnBranch
  <2>2. ~Working(t)
    BY <2>1, Apart DEF BoardInv, Working
  <2> QED
    BY <2>2 DEF Sound, Working, CheckedUnderLock
<1> QED
  BY <1>2, <1>3

(* A step that leaves the branches alone.                                      *)
LEMMA SameBoard ==
    ASSUME BoardInv, Known', MutexInv', UNCHANGED <<main, branch>>, NEW s \in Sessions,
           \A t \in Sessions \ {s} : session'[t] = session[t],
           ~Busy(s), Sound(s)'
    PROVE  BoardInv'
<1>1. ASSUME NEW t \in Sessions PROVE Sound(t)'
  BY <1>1, StillSound DEF BoardInv
<1>2. ForksOK'
  BY DEF BoardInv, ForksOK, Early
<1>3. ASSUME NEW r \in Rigs PROVE Resting(r)' \/ \E t \in Sessions : Owner[t] = r /\ Busy(t)'
  BY DEF BoardInv, Resting, Busy, Early
<1> QED
  BY <1>1, <1>2, <1>3 DEF BoardInv

(* A step that writes to the branch of its rig, or drops it.                   *)
LEMMA ChangedBoard ==
    ASSUME BoardInv, Known', MutexInv', main' = main, NEW s \in Sessions, Step(s),
           \A t \in Sessions \ {s} : session'[t] = session[t],
           Sound(s)', Resting(Owner[s])' \/ Busy(s)'
    PROVE  BoardInv'
<1>1. ASSUME NEW t \in Sessions PROVE Sound(t)'
  BY <1>1, OthersSound DEF BoardInv
<1>2. ForksOK'
  BY DEF BoardInv, ForksOK, Early
<1>3. ASSUME NEW r \in Rigs PROVE Resting(r)' \/ \E t \in Sessions : Owner[t] = r /\ Busy(t)'
  <2>1. CASE r = Owner[s]
    BY <2>1
  <2>2. CASE r # Owner[s]
    <3>1. branch'[r] = branch[r]
      BY <2>2, OwnBranch DEF BoardInv
    <3> QED
      BY <2>2, <3>1 DEF BoardInv, Resting, Busy, Early
  <2> QED
    BY <2>1, <2>2
<1> QED
  BY <1>1, <1>2, <1>3 DEF BoardInv

(* A request that goes on to a place where nothing is asked of it.             *)
LEMMA QuietlySound ==
    ASSUME NEW s \in Sessions, NEW pc, NEW op, NEW q, NEW script, NEW from,
           Becomes(s, pc, op, q, script, from), pc \notin {"lookup", "plan", "exec"}
    PROVE  Sound(s)' /\ \A t \in Sessions \ {s} : session'[t] = session[t]
BY DEF Becomes, Sound

LEMMA GoesOnSound ==
    ASSUME NEW s \in Sessions, NEW pc, NEW script, GoesOn(s, pc, script),
           pc \notin {"lookup", "plan", "exec"}
    PROVE  Sound(s)' /\ \A t \in Sessions \ {s} : session'[t] = session[t]
BY QuietlySound DEF GoesOn

LEMMA PlanSound ==
    ASSUME NEW s \in Sessions, NEW script, GoesOn(s, "plan", script), UNCHANGED <<main, branch>>,
           script = << >> \/ Fits(Owner[s], script)
    PROVE  Sound(s)' /\ \A t \in Sessions \ {s} : session'[t] = session[t]
<1>1. session'[s].pc = "plan" /\ session'[s].script = script
  BY DEF GoesOn, Becomes
<1>2. script = << >> \/ Fits(Owner[s], script)'
  BY DEF Fits, Early
<1> QED
  BY <1>1, <1>2 DEF GoesOn, Becomes, Sound

LEMMA ReadsTrue ==
    ASSUME Dependable, NEW t PROVE Read(t) = {StatusOf(t)}
BY DEF Dependable, Read

LEMMA FromTrue ==
    ASSUME Dependable, NEW r \in Rigs, NEW from \in From(r)
    PROVE  from = IF StatusOf(branch[r]) = "none" THEN "main" ELSE "branch"
<1>1. PICK status \in Read(branch[r]) : from = IF status = "none" THEN "main" ELSE "branch"
  BY DEF From
<1>2. status = StatusOf(branch[r])
  BY <1>1, ReadsTrue
<1> QED
  BY <1>1, <1>2

LEMMA CheckSound ==
    ASSUME BoardInv, Dependable, NEW s \in Sessions, Check(s)
    PROVE  Sound(s)' /\ \A t \in Sessions \ {s} : session'[t] = session[t]
<1> DEFINE r == Owner[s]
           op == session[s].op
<1>1. Known /\ ForksOK /\ r \in Rigs
  BY DEF BoardInv
<1>2. CASE GoesOn(s, "answer", << >>)
  BY <1>2, GoesOnSound
<1>3. CASE /\ GoesOn(s, AfterCheck(op), << >>)
           /\ \E onBranch \in Read(branch[r]), onMain \in Read(main[r]) :
                 ~(onBranch = Target(op) /\ onBranch # onMain)
  <2>1. ~(StatusOf(branch[r]) = Target(op) /\ StatusOf(branch[r]) # StatusOf(main[r]))
    BY <1>3, ReadsTrue
  <2>2. Early(r) => StatusOf(main[r]) # "completed"
    BY <1>1 DEF Early, StatusOf
  <2>3. op = "accept" => Target(op) = "completed"
    BY DEF Target
  <2>4. op = "accept" => (Early(r) => StatusOf(branch[r]) # "completed")
    BY <2>1, <2>2, <2>3
  <2>5. AfterCheck(op) \in {"shortcut", "lock", "lookup"}
    BY DEF AfterCheck
  <2>6. /\ session'[s].pc \in {"shortcut", "lock", "lookup"} /\ session'[s].op = op
        /\ \A t \in Sessions \ {s} : session'[t] = session[t]
    BY <1>3, <2>5 DEF GoesOn, Becomes
  <2>7. UNCHANGED <<main, branch>>
    BY DEF Check, refs
  <2> QED
    BY <2>4, <2>6, <2>7 DEF Sound, Early
<1> QED
  BY <1>1, <1>2, <1>3, CheckDoes

LEMMA LookupSound ==
    ASSUME BoardInv, NEW s \in Sessions, LookupCompletion(s) \/ LookupSubmission(s)
    PROVE  Sound(s)' /\ \A t \in Sessions \ {s} : session'[t] = session[t]
<1> DEFINE r == Owner[s]
<1>1. Known /\ ForksOK /\ r \in Rigs /\ Sound(s) /\ Flow(s)
  BY DEF BoardInv, Known
<1>2. session[s].pc = "lookup" /\ UNCHANGED <<main, branch>>
  BY DEF LookupCompletion, LookupSubmission, refs
<1>3. Resting(r)
  <2>1. session[s].op \in CheckedUnderLock
    BY <1>1, <1>2 DEF Flow, FlowAt, Lookups, CheckedUnderLock
  <2>2. Working(s) /\ ~Busy(s)
    BY <1>2, <2>1 DEF Working, Busy
  <2> QED
    BY <2>2, OnlyRests
<1>4. CASE GoesOn(s, "answer", << >>)
  BY <1>4, GoesOnSound
<1>5. ASSUME NEW script, Fits(r, script), GoesOn(s, "plan", script)
      PROVE  Sound(s)' /\ \A t \in Sessions \ {s} : session'[t] = session[t]
  BY <1>2, <1>5, PlanSound
<1>6. CASE LookupCompletion(s)
  <2>1. session[s].op = "accept"
    BY <1>6 DEF LookupCompletion
  <2>2. Early(r) => StatusOf(branch[r]) # "completed"
    BY <1>1, <1>2, <2>1 DEF Sound
  <2>3. ASSUME NEW id \in Nat, NEW x \in Stamp, x.context = id,
               GoesOn(s, "plan", AcceptCompletionDML(id, x))
        PROVE  Sound(s)' /\ \A t \in Sessions \ {s} : session'[t] = session[t]
    <3>1. Fits(r, AcceptCompletionDML(id, x))
      BY <1>1, <1>3, <2>2, <2>3, AcceptFits
    <3> QED
      BY <1>5, <2>3, <3>1
  <2> QED
    BY <1>1, <1>4, <1>6, <2>3, LookupCompletionDoes
<1>7. CASE LookupSubmission(s)
  <2>1. ASSUME NEW id \in Nat, NEW by \in Rigs, New(id), GoesOn(s, "plan", CloseUpstreamDML(id, by))
        PROVE  Sound(s)' /\ \A t \in Sessions \ {s} : session'[t] = session[t]
    <3>1. PICK x : x = [id |-> 0, author |-> by, subject |-> by, context |-> id]
      OBVIOUS
    <3>2. x \in Stamp /\ x.context = id
      BY <3>1 DEF Stamp
    <3>3. Fits(r, CloseUpstreamDML(id, by))
      BY <1>1, <2>1, <3>2, AdoptionFits
    <3> QED
      BY <1>5, <2>1, <3>3
  <2>2. ASSUME NEW id \in Nat, NEW by \in Rigs, New(id), NEW x \in Stamp, x.context = id,
               GoesOn(s, "plan", AcceptUpstreamDML(id, by, x))
        PROVE  Sound(s)' /\ \A t \in Sessions \ {s} : session'[t] = session[t]
    <3>1. Fits(r, AcceptUpstreamDML(id, by, x))
      BY <1>1, <2>2, AdoptionFits
    <3> QED
      BY <1>5, <2>2, <3>1
  <2> QED
    BY <1>1, <1>4, <1>7, <2>1, <2>2, LookupSubmissionDoes
<1> QED
  BY <1>6, <1>7

LEMMA PlanLeads ==
    ASSUME BoardInv, Dependable, NEW s \in Sessions, Plan(s)
    PROVE  Sound(s)' /\ \A t \in Sessions \ {s} : session'[t] = session[t]
<1> DEFINE r == Owner[s]
<1>1. Known /\ ForksOK /\ r \in Rigs /\ Sound(s)
  BY DEF BoardInv
<1>2. session[s].pc = "plan" /\ UNCHANGED <<main, branch>>
  BY DEF Plan, refs
<1>3. Resting(r)
  <2>1. Working(s) /\ ~Busy(s)
    BY <1>2 DEF Working, Busy
  <2> QED
    BY <2>1, OnlyRests
<1>4. PICK script \in Seq(Statement), from \in From(r) :
        /\ Becomes(s, "exec", session[s].op, session[s].submitter, script, from)
        /\ Len(script) \in 1 .. 5
        /\ script = session[s].script \/ Simple(script, r)
  BY <1>1, PlanDoes
<1>5. Fits(r, script)
  <2>1. CASE Simple(script, r)
    BY <1>1, <1>3, <2>1, SimpleFits
  <2>2. CASE script = session[s].script
    <3>1. session[s].script # << >>
      <4>1. PICK none : none = << >>
        OBVIOUS
      <4>2. Len(none) \notin 1 .. 5
        BY <4>1
      <4> QED
        BY <1>4, <2>2, <4>1, <4>2
    <3> QED
      BY <1>1, <1>2, <2>2, <3>1 DEF Sound
  <2> QED
    BY <1>4, <2>1, <2>2
<1>6. from = IF StatusOf(branch[r]) = "none" THEN "main" ELSE "branch"
  BY <1>4, FromTrue
<1>7. Leads(r, script, from)'
  BY <1>2, <1>5, <1>6 DEF Fits, Leads, Early, StatusOf
<1>8. /\ session'[s].pc = "exec" /\ session'[s].script = script /\ session'[s].from = from
      /\ \A t \in Sessions \ {s} : session'[t] = session[t]
  BY <1>4 DEF Becomes
<1> QED
  BY <1>7, <1>8 DEF Sound

LEMMA LockSound ==
    ASSUME BoardInv, NEW s \in Sessions, Lock(s)
    PROVE  Sound(s)' /\ \A t \in Sessions \ {s} : session'[t] = session[t]
<1>1. UNCHANGED <<main, branch>>
  BY DEF Lock, refs
<1>2. CASE GoesOn(s, "check", << >>) \/ GoesOn(s, "close", << >>)
  BY <1>2, GoesOnSound
<1>3. CASE GoesOn(s, "plan", << >>)
  BY <1>1, <1>3, PlanSound
<1> QED
  BY <1>2, <1>3, LockDoes DEF BoardInv

(* The next statement of a script leads on to where the script leads.          *)
LEMMA WrittenLeads ==
    ASSUME Known, Dependable, NEW r \in Rigs, NEW script \in Seq(Statement), Len(script) \in 1 .. 5,
           NEW from \in {"main", "branch"}, Leads(r, script, from),
           Written(r, from, Head(script))
    PROVE  branch'[r] = NoBranch \/ Kempt(Run(Tail(script), branch'[r]), Early(r))
<1>1. PICK stmt, rest, source :
        stmt = Head(script) /\ rest = Tail(script) /\ source = Source(r, from)
  OBVIOUS
<1>2. /\ source \in Tables
      /\ \/ branch'[r] = Apply(stmt, source)
         \/ Apply(stmt, source) = source /\ branch'[r] = branch[r]
  BY <1>1 DEF Written
<1>3. rest \in Seq(Statement)
  BY <1>1, HeadTail
<1>4. Run(script, source) = Run(rest, Apply(stmt, source))
  BY <1>1, RunTail
<1>5. source # NoBranch
  BY <1>2
<1>6. CASE from = "main"
  <2>1. /\ StatusOf(branch[r]) = "none" /\ Dull(rest) /\ source = main[r]
        /\ Kempt(Run(script, source), Early(r))
    BY <1>1, <1>6 DEF Leads, Source
  <2>2. CASE branch'[r] = Apply(stmt, source)
    BY <1>1, <1>4, <2>1, <2>2
  <2>3. CASE branch'[r] = branch[r]
    <3>1. branch[r] = NoBranch \/ (branch[r] \in Tables /\ branch[r].status = "none")
      BY <2>1 DEF Known, Typed, RefsTyped, StatusOf
    <3> QED
      BY <1>1, <1>3, <2>1, <2>3, <3>1, DullRun
  <2> QED
    BY <1>2, <2>2, <2>3
<1>7. CASE from = "branch"
  <2>1. source = branch[r] /\ Kempt(Run(script, source), Early(r))
    BY <1>1, <1>5, <1>7 DEF Leads, Source
  <2> QED
    BY <1>1, <1>2, <1>4, <2>1
<1> QED
  BY <1>6, <1>7

LEMMA WriteBoard ==
    ASSUME BoardInv, Dependable, NEW s \in Sessions, Write(s)
    PROVE  /\ Sound(s)' /\ \A t \in Sessions \ {s} : session'[t] = session[t]
           /\ Resting(Owner[s])' \/ Busy(s)'
<1> DEFINE r == Owner[s]
<1>1. /\ Known /\ r \in Rigs /\ session[s] \in Session /\ session[s].pc = "exec"
      /\ Leads(r, session[s].script, session[s].from)
  BY DEF BoardInv, Known, Typed, Write, Sound
<1>2. PICK script, from, op, q : /\ script = session[s].script /\ from = session[s].from
                                 /\ op = session[s].op /\ q = session[s].submitter
  OBVIOUS
<1>3. script \in Seq(Statement) /\ from \in {"main", "branch"} /\ Leads(r, script, from)
  BY <1>1, <1>2 DEF Session
<1>4. /\ Len(script) \in 1 .. 5
      /\ \/ /\ Written(r, from, Head(script))
            /\ \E pc \in {"settle", "exec"} : /\ Becomes(s, pc, op, q, Tail(script), "branch")
                                              /\ pc = "settle" <=> Len(script) = 1
         \/ Unwritten(r, from, Head(script)) /\ GoesOn(s, "answer", << >>)
  BY <1>1, <1>2, WriteDoes
<1>5. CASE Written(r, from, Head(script)) /\ ~Unwritten(r, from, Head(script))
  <2>1. branch'[r] = NoBranch \/ Kempt(Run(Tail(script), branch'[r]), Early(r))
    BY <1>1, <1>3, <1>4, <1>5, WrittenLeads
  <2>2. PICK rest, m, n : rest = Tail(script) /\ m = Len(rest) /\ n = Len(script)
    OBVIOUS
  <2>3. rest \in Seq(Statement) /\ m = n - 1
    BY <1>3, <1>4, <2>2, HeadTail
  <2>4. \E pc \in {"settle", "exec"} : /\ Becomes(s, pc, op, q, rest, "branch")
                                       /\ pc = "settle" <=> n = 1
    BY <1>4, <1>5, <2>2
  <2>5. PICK pc \in {"settle", "exec"} : /\ Becomes(s, pc, op, q, rest, "branch")
                                         /\ pc = "settle" <=> n = 1
    BY <2>4
  <2>6. branch'[r] = NoBranch \/ Kempt(Run(rest, branch'[r]), Early(r))
    BY <2>1, <2>2
  <2>7. CASE pc = "settle"
    <3>1. m = 0
      BY <2>3, <2>5, <2>7
    <3>2. rest = << >>
      BY <2>2, <2>3, <3>1, NoStatements
    <3>3. Resting(r)'
      <4>1. main' = main
        BY DEF Write
      <4> QED
        BY <2>6, <3>2, <4>1, RunNone DEF Resting, Early
    <3>4. Sound(s)' /\ \A t \in Sessions \ {s} : session'[t] = session[t]
      BY <2>5, <2>7, QuietlySound
    <3> QED
      BY <3>3, <3>4
  <2>8. CASE pc = "exec"
    <3>1. /\ session'[s].pc = "exec" /\ session'[s].script = rest
          /\ session'[s].from = "branch" /\ \A t \in Sessions \ {s} : session'[t] = session[t]
      BY <2>5, <2>8 DEF Becomes
    <3>2. Dull(rest)
      BY <1>3, <2>2 DEF Leads
    <3>3. Dull(Tail(rest))
      <4>1. m \in 1 .. 5
        <5>1. n \in 1 .. 5
          BY <1>4, <2>2
        <5> QED
          BY <2>3, <2>5, <2>8, <5>1
      <4> QED
        BY <2>2, <2>3, <3>2, <4>1, DullTail
    <3>4. Leads(r, rest, "branch")'
      <4>1. main' = main
        BY DEF Write
      <4> QED
        BY <2>6, <3>2, <3>3, <4>1 DEF Leads, Early
    <3> QED
      BY <3>1, <3>4 DEF Sound, Busy
  <2> QED
    BY <2>5, <2>7, <2>8
<1>6. CASE Unwritten(r, from, Head(script))
  <2>1. branch[r] = NoBranch /\ UNCHANGED branch
    BY <1>6 DEF Unwritten, Dependable
  <2>2. CASE GoesOn(s, "answer", << >>)
    <3>1. Resting(r)'
      BY <2>1 DEF Resting
    <3> QED
      BY <2>2, <3>1, GoesOnSound
  <2>3. CASE Written(r, from, Head(script))
    <3>1. from = "branch" /\ Source(r, from) \in Tables
      BY <1>6, <2>3 DEF Unwritten, Dependable, Written
    <3> QED
      BY <2>1, <3>1 DEF Source
  <2> QED
    BY <1>4, <2>2, <2>3
<1> QED
  BY <1>4, <1>5, <1>6

LEMMA DropBoard ==
    ASSUME BoardInv, NEW s \in Sessions, DropBranch(s)
    PROVE  /\ Sound(s)' /\ \A t \in Sessions \ {s} : session'[t] = session[t]
           /\ Resting(Owner[s])' \/ Busy(s)'
<1>1. Known /\ Owner[s] \in Rigs
  BY DEF BoardInv
<1>2. CASE /\ branch' = [branch EXCEPT ![Owner[s]] = NoBranch]
           /\ GoesOn(s, "retire", << >>) \/ GoesOn(s, "answer", << >>)
  <2>1. Resting(Owner[s])'
    BY <1>1, <1>2 DEF Resting, Known, Typed, RefsTyped
  <2> QED
    BY <1>2, <2>1, GoesOnSound
<1>3. CASE GoesOn(s, "clear", ClearScript)
  <2>1. Busy(s)'
    BY <1>3 DEF GoesOn, Becomes, Busy
  <2> QED
    BY <1>3, <2>1, GoesOnSound
<1> QED
  BY <1>1, <1>2, <1>3, DropBranchDoes

(* The second statement of the cleanup leaves no item.                         *)
LEMMA ErasedRests ==
    ASSUME Known, Dependable, NEW r \in Rigs, NEW from \in From(r), Written(r, from, EraseWanted)
    PROVE  branch'[r] = NoBranch \/ branch'[r].status = "none"
<1>1. from = IF StatusOf(branch[r]) = "none" THEN "main" ELSE "branch"
  BY FromTrue
<1>2. PICK source, u : source = Source(r, from) /\ u = Apply(EraseWanted, source)
  OBVIOUS
<1>3. /\ source \in Tables
      /\ branch'[r] = u \/ (u = source /\ branch'[r] = branch[r])
  BY <1>2 DEF Written
<1>4. u.status = "none"
  BY <1>2, <1>3, Erased
<1>5. CASE branch'[r] = u
  BY <1>4, <1>5
<1>6. CASE u = source /\ branch'[r] = branch[r]
  BY <1>1, <1>2, <1>4, <1>6 DEF Source, StatusOf
<1> QED
  BY <1>3, <1>5, <1>6

LEMMA ClearBoard ==
    ASSUME BoardInv, Dependable, NEW s \in Sessions, Clear(s)
    PROVE  /\ Sound(s)' /\ \A t \in Sessions \ {s} : session'[t] = session[t]
           /\ Resting(Owner[s])' \/ Busy(s)'
<1> DEFINE r == Owner[s]
<1>1. Known /\ r \in Rigs
  BY DEF BoardInv
<1>2. PICK script, stmt : script = session[s].script /\ stmt = Head(script)
  OBVIOUS
<1>3. /\ script \in {ClearScript, <<EraseWanted>>}
      /\ \E from \in From(r) :
            \/ /\ Written(r, from, stmt)
               /\ IF script = ClearScript THEN GoesOn(s, "clear", <<EraseWanted>>)
                  ELSE GoesOn(s, "retire", << >>) \/ GoesOn(s, "answer", << >>)
            \/ /\ Unwritten(r, from, stmt)
               /\ GoesOn(s, "retire", << >>) \/ GoesOn(s, "answer", << >>)
  BY <1>1, <1>2, ClearDoes
<1>4. PICK from \in From(r) :
            \/ /\ Written(r, from, stmt)
               /\ IF script = ClearScript THEN GoesOn(s, "clear", <<EraseWanted>>)
                  ELSE GoesOn(s, "retire", << >>) \/ GoesOn(s, "answer", << >>)
            \/ /\ Unwritten(r, from, stmt)
               /\ GoesOn(s, "retire", << >>) \/ GoesOn(s, "answer", << >>)
  BY <1>3
<1>5. CASE GoesOn(s, "clear", <<EraseWanted>>)
  <2>1. Busy(s)'
    BY <1>5 DEF GoesOn, Becomes, Busy
  <2> QED
    BY <1>5, <2>1, GoesOnSound
<1>6. CASE /\ Written(r, from, stmt) /\ script # ClearScript
           /\ GoesOn(s, "retire", << >>) \/ GoesOn(s, "answer", << >>)
  <2>1. script = <<EraseWanted>>
    BY <1>3, <1>6
  <2>2. stmt = EraseWanted
    BY <1>2, <2>1
  <2>3. Resting(r)'
    BY <1>1, <1>6, <2>2, ErasedRests, KemptNone DEF Resting
  <2> QED
    BY <1>6, <2>3, GoesOnSound
<1>7. CASE /\ Unwritten(r, from, stmt)
           /\ GoesOn(s, "retire", << >>) \/ GoesOn(s, "answer", << >>)
  <2>1. branch[r] = NoBranch /\ UNCHANGED branch
    BY <1>7 DEF Unwritten, Dependable
  <2>2. Resting(r)'
    BY <2>1 DEF Resting
  <2> QED
    BY <1>7, <2>2, GoesOnSound
<1> QED
  BY <1>4, <1>5, <1>6, <1>7

(* The other steps of a request.                                               *)
LEMMA RestSound ==
    ASSUME BoardInv, NEW s \in Sessions,
           \/ Shortcut(s) \/ Settle(s) \/ ClosePR(s) \/ CreatePR(s) \/ SubmitPR(s)
           \/ CloseUpstreamPR(s) \/ Answer(s)
    PROVE  Sound(s)' /\ \A t \in Sessions \ {s} : session'[t] = session[t]
<1>1. Known /\ Typed
  BY DEF BoardInv, Known
<1>2. CASE Shortcut(s)
  BY <1>1, <1>2, ShortcutDoes, GoesOnSound
<1>3. CASE Settle(s)
  BY <1>1, <1>3, SettleDoes, GoesOnSound
<1>4. CASE ClosePR(s)
  BY <1>1, <1>4, ClosePRDoes, GoesOnSound
<1>5. CASE CreatePR(s)
  BY <1>1, <1>5, FinishDoes, GoesOnSound DEF CreatePR
<1>6. CASE SubmitPR(s) \/ CloseUpstreamPR(s)
  <2>1. PICK answer \in Answers : Say(s, answer)
    <3>1. "kept" \in Answers /\ session[s].answer \in Answers
      BY <1>1 DEF Answers, Typed, Session
    <3> QED
      BY <1>6, <3>1 DEF SubmitPR, CloseUpstreamPR
  <2> QED
    BY <1>1, <2>1, GotoSaid, QuietlySound
<1>7. CASE Answer(s)
  BY <1>1, <1>7, AnswerDoes, QuietlySound
<1> QED
  BY <1>2, <1>3, <1>4, <1>5, <1>6, <1>7

LEMMA ForksStay == ASSUME [Next]_vars PROVE main' = main
BY DEF Next, Step, Begin, Lock, Check, Shortcut, LookupCompletion, LookupSubmission, Plan, Write,
       Settle, ClosePR, DropBranch, Clear, CreatePR, SubmitPR, CloseUpstreamPR, Answer, MergePR,
       RefreshListing, refs, vars

LEMMA BoardStep == ASSUME BoardInv, Dependable, [Next]_vars PROVE BoardInv'
<1>1. Known' /\ MutexInv' /\ main' = main
  BY KnownStep, MutexStep, ForksStay DEF BoardInv
<1>2. ASSUME UNCHANGED <<branch, session>> PROVE BoardInv'
  <2>1. \A s \in Sessions : Sound(s)'
    BY <1>1, <1>2, StillSound DEF BoardInv
  <2> QED
    BY <1>1, <1>2, <2>1 DEF BoardInv, ForksOK, Resting, Busy, Early
<1>3. ASSUME NEW s \in Sessions, NEW op \in Ops, NEW q \in Submitters(op), Begin(s, op, q)
      PROVE  BoardInv'
  <2>1. Sound(s)' /\ \A t \in Sessions \ {s} : session'[t] = session[t]
    <3>1. PICK pc \in {"check", "enter", "submit", "lock"} :
             Becomes(s, pc, op, q, << >>, session[s].from)
      BY <1>3, BeginDoes DEF BoardInv
    <3> QED
      BY <3>1, QuietlySound
  <2>2. ~Busy(s) /\ UNCHANGED branch
    BY <1>3 DEF Begin, Busy, refs
  <2> QED
    BY <1>1, <2>1, <2>2, SameBoard
<1>4. ASSUME NEW s \in Sessions, Step(s) PROVE BoardInv'
  <2>1. CASE Write(s) \/ DropBranch(s) \/ Clear(s)
    <3>1. /\ Sound(s)' /\ \A t \in Sessions \ {s} : session'[t] = session[t]
          /\ Resting(Owner[s])' \/ Busy(s)'
      BY <2>1, WriteBoard, DropBoard, ClearBoard
    <3> QED
      BY <1>1, <1>4, <3>1, ChangedBoard
  <2>2. CASE ~(Write(s) \/ DropBranch(s) \/ Clear(s))
    <3>1. Sound(s)' /\ \A t \in Sessions \ {s} : session'[t] = session[t]
      BY <1>4, <2>2, LockSound, CheckSound, LookupSound, PlanLeads, RestSound DEF Step
    <3>2. session[s].pc \notin {"exec", "drop", "clear"}
      BY <1>4, <2>2 DEF Step, Lock, Check, Shortcut, LookupCompletion, LookupSubmission, Plan,
         Settle, ClosePR, CreatePR, SubmitPR, CloseUpstreamPR, Answer
    <3>3. UNCHANGED branch /\ ~Busy(s)
      BY <1>4, <3>2, OwnBranch DEF BoardInv, Busy
    <3> QED
      BY <1>1, <3>1, <3>3, SameBoard
  <2> QED
    BY <2>1, <2>2
<1>5. ASSUME NEW r \in Rigs, MergePR(r) \/ RefreshListing(r) PROVE BoardInv'
  BY <1>2, <1>5 DEF MergePR, RefreshListing
<1> QED
  BY <1>2, <1>3, <1>4, <1>5 DEF Next, vars

LEMMA BoardFirst == ASSUME Init, Begun PROVE BoardInv
<1>1. Known
  BY KnownFirst
<1>2. MutexInv
  BY DEF Init, RefsInit, MutexInv, Shaped, Held, Working, Sleeping
<1>3. ForksOK
  BY DEF Init, RefsInit, ForksOK, Begun, Early
<1>4. ASSUME NEW s \in Sessions PROVE Sound(s)
  BY DEF Init, Sound, Sleeping
<1>5. ASSUME NEW r \in Rigs PROVE Resting(r)
  BY DEF Init, RefsInit, Resting
<1> QED
  BY <1>1, <1>2, <1>3, <1>4, <1>5 DEF BoardInv

LEMMA QuietIsKempt ==
    ASSUME BoardInv, NEW r \in Rigs, Quiet(r)
    PROVE  branch[r] \in Tables /\ branch[r].status # "none" /\ Kempt(branch[r], Early(r))
<1>1. branch[r] # NoBranch /\ branch[r].status # "none" /\ mutex[r] = Free
  BY DEF Quiet, StatusOf
<1>2. ASSUME NEW s \in Sessions, Owner[s] = r, Busy(s) PROVE FALSE
  <2>1. Working(s)
    BY <1>2 DEF Busy, Working
  <2>2. mutex[r] = s
    BY <1>2, <2>1 DEF BoardInv, MutexInv, Held
  <2> QED
    BY <1>1, <2>2
<1> QED
  BY <1>1, <1>2 DEF BoardInv, Resting, Known, Typed, RefsTyped

(* Whatever requests a rig sends in whatever order, however its branch and its *)
(* mutex are fought over, and whatever its fork was taken of: the WHERE        *)
(* clauses keep the completions of an item in step with its claim.             *)
THEOREM CompletionsMatch == Dependable /\ Begun => (Spec => []CompletionsMatchClaim)
<1> SUFFICES ASSUME Dependable, Begun PROVE Spec => []CompletionsMatchClaim
  OBVIOUS
<1>1. Init => BoardInv
  BY BoardFirst
<1>2. BoardInv /\ [Next]_vars => BoardInv'
  BY BoardStep
<1>3. BoardInv => CompletionsMatchClaim
  <2> SUFFICES ASSUME BoardInv, NEW r \in Rigs, Quiet(r)
               PROVE  /\ branch[r].status = "in_review" => branch[r].completions # {}
                      /\ Cardinality(branch[r].completions) <= 1
                      /\ \A c \in branch[r].completions : c.by = branch[r].claimedBy
    BY DEF CompletionsMatchClaim
  <2>1. Kempt(branch[r], Early(r)) /\ branch[r].status # "none"
    BY QuietIsKempt
  <2>2. PICK C : C = branch[r].completions
    OBVIOUS
  <2>3. \A c, d \in C : c = d
    BY <2>1, <2>2 DEF Kempt
  <2>4. Cardinality(C) <= 1
    <3>1. CASE C = {}
      <4>1. Cardinality(C) = 0
        BY <3>1, FS_EmptySet
      <4> QED
        BY <4>1
    <3>2. CASE C # {}
      <4>1. PICK c : C = {c}
        BY <2>3, <3>2
      <4>2. Cardinality(C) = 1
        BY <4>1, FS_Singleton
      <4> QED
        BY <4>2
    <3> QED
      BY <3>1, <3>2
  <2> QED
    BY <2>1, <2>2, <2>4 DEF Kempt
<1> QED
  BY <1>1, <1>2, <1>3, PTL DEF Spec


(* A fork that was taken after the item was completed: every statement leaves  *)
(* it completed, which is its status on main, so that no branch is kept.       *)
Steady == {stmt \in Statement : stmt.into = "wanted" /\ "completed" \in stmt.where
             => "status" \in DOMAIN stmt.set /\ stmt.set["status"] = "completed"}

LEMMA SteadyUpdate ==
    ASSUME NEW where \in SUBSET Status, NEW holders \in SUBSET (Rigs \cup {None}),
           NEW st \in Status, NEW by \in Rigs \cup {None}, NEW text \in {"none", "posted", "edited"}
    PROVE  /\ "completed" \notin where =>
                /\ UpdateHeld(where, holders, [status |-> st]) \in Steady
                /\ UpdateHeld(where, holders, [text |-> text]) \in Steady
                /\ UpdateHeld(where, holders, [status |-> st, claimedBy |-> by]) \in Steady
                /\ UpdateHeld(where, holders, [status |-> st, text |-> text]) \in Steady
           /\ UpdateHeld(where, holders, [status |-> "completed", claimedBy |-> by]) \in Steady
<1>1. "completed" \in Status
  BY DEF Status, Present
<1>2. /\ UpdateHeld(where, holders, [status |-> st]) \in Statement
      /\ UpdateHeld(where, holders, [text |-> text]) \in Statement
      /\ UpdateHeld(where, holders, [status |-> st, claimedBy |-> by]) \in Statement
      /\ UpdateHeld(where, holders, [status |-> st, text |-> text]) \in Statement
      /\ UpdateHeld(where, holders, [status |-> "completed", claimedBy |-> by]) \in Statement
  BY <1>1, UpdateTyped
<1> QED
  BY <1>2 DEF Steady, UpdateHeld

LEMMA SteadyCompletions ==
    ASSUME NEW id \in Nat, NEW by \in Rigs, NEW stamp \in Nat, NEW x \in Stamp
    PROVE  /\ DeleteCompletions \in Steady /\ InsertCompletion(id, by) \in Steady
           /\ SubmitIfInReview(id, by) \in Steady /\ LinkStamp(id, stamp) \in Steady
           /\ InsertStamp(x) \in Steady
BY CompletionsTyped
   DEF Steady, DeleteCompletions, InsertCompletion, SubmitIfInReview, LinkStamp, InsertStamp

LEMMA SteadyScripts ==
    ASSUME NEW r \in Rigs, NEW by \in Rigs, NEW id \in Nat, NEW x \in Stamp
    PROVE  /\ \A script \in Fixed(r) : script \in Seq(Steady)
           /\ SubmitCompletionDML(id, r) \in Seq(Steady)
           /\ AcceptCompletionDML(id, x) \in Seq(Steady)
           /\ CloseUpstreamDML(id, by) \in Seq(Steady)
           /\ AcceptUpstreamDML(id, by, x) \in Seq(Steady)
<1>1. /\ InsertWantedDML \in Steady /\ UpdateWantedDML \in Steady
      /\ ClaimWantedDML(r) \in Steady /\ UnclaimWantedDML \in Steady
      /\ CloseWantedDML \in Steady /\ DeleteWantedDML \in Steady
      /\ UpdateHeld({"claimed"}, {r}, [status |-> "in_review"]) \in Steady
      /\ Update({"in_review"}, [status |-> "claimed"]) \in Steady
      /\ Update({"in_review"}, [status |-> "completed"]) \in Steady
      /\ Update(Present, [status |-> "completed", claimedBy |-> by]) \in Steady
  <2>1. /\ {"none"} \in SUBSET Status /\ {"open"} \in SUBSET Status
        /\ {"claimed"} \in SUBSET Status /\ {"in_review"} \in SUBSET Status
        /\ Present \in SUBSET Status /\ {r} \in SUBSET (Rigs \cup {None})
        /\ Rigs \cup {None} \in SUBSET (Rigs \cup {None})
        /\ {"open", "claimed", "in_review", "completed", "withdrawn"} \subseteq Status
        /\ r \in Rigs \cup {None} /\ by \in Rigs \cup {None} /\ None \in Rigs \cup {None}
    BY DEF Status, Present
  <2>2. /\ "completed" \notin {"none"} /\ "completed" \notin {"open"}
        /\ "completed" \notin {"claimed"} /\ "completed" \notin {"in_review"}
    OBVIOUS
  <2> QED
    BY <2>1, <2>2, SteadyUpdate
    DEF InsertWantedDML, UpdateWantedDML, ClaimWantedDML, UnclaimWantedDML, CloseWantedDML,
        DeleteWantedDML, Update
<1>2. x.id \in Nat
  BY DEF Stamp
<1>3. /\ DeleteCompletions \in Steady /\ InsertCompletion(id, by) \in Steady
      /\ SubmitIfInReview(id, r) \in Steady /\ LinkStamp(id, x.id) \in Steady
      /\ InsertStamp(x) \in Steady
  BY <1>2, SteadyCompletions
<1>4. CloseUpstreamDML(id, by) \in Seq(Steady)
  BY <1>1, <1>3 DEF CloseUpstreamDML
<1>5. <<InsertStamp(x), LinkStamp(id, x.id)>> \in Seq(Steady)
  BY <1>3
<1>6. AcceptUpstreamDML(id, by, x) \in Seq(Steady)
  BY <1>4, <1>5 DEF AcceptUpstreamDML
<1> QED
  BY <1>1, <1>3, <1>4, <1>6
  DEF Fixed, SubmitCompletionDML, RejectCompletionDML, AcceptCompletionDML

LEMMA SteadyKeeps ==
    ASSUME NEW t \in Tables, NEW stmt \in Steady, t.status = "completed"
    PROVE  Apply(stmt, t).status = "completed"
<1>1. stmt \in Statement
  BY DEF Steady
<1>2. CASE stmt.into = "wanted"
  <2>1. PICK new, where : /\ new = stmt.set /\ where = stmt.where
                          /\ "completed" \in where
                                => "status" \in DOMAIN new /\ new["status"] = "completed"
    BY <1>2 DEF Steady
  <2>2. "status" \in DOMAIN t
    BY DEF Tables
  <2>3. Override(t, new)["status"] = IF "status" \in DOMAIN new THEN new["status"] ELSE t["status"]
    BY <2>2, OverrideFields
  <2>4. Apply(stmt, t) = t \/ ("completed" \in where /\ Apply(stmt, t) = Override(t, new))
    BY <1>2, <2>1 DEF Apply
  <2> QED
    BY <2>1, <2>3, <2>4
<1>3. CASE stmt.into = "completions"
  BY <1>3, CompletionsOnly
<1>4. CASE stmt.into = "stamps"
  BY <1>4 DEF Apply, Tables
<1> QED
  BY <1>1, <1>2, <1>3, <1>4 DEF Statement

LEMMA FreshlySteady ==
    ASSUME NEW r \in Rigs, NEW script, Simple(script, r)
    PROVE  script \in Seq(Steady)
<1>1. PICK id \in Nat : script \in Fixed(r) \/ script = SubmitCompletionDML(id, r)
  BY DEF Simple
<1>2. [id |-> id, author |-> r, subject |-> r, context |-> id] \in Stamp
  BY DEF Stamp
<1> QED
  BY <1>1, <1>2, SteadyScripts

(* What a request is about to do to such a branch: its statements are steady,  *)
(* and it knows what main says.                                                *)
Steered(s) ==
    /\ session[s].pc \in {"plan", "exec"} => session[s].script \in Seq(Steady)
    /\ session[s].pc \in {"exec", "settle"} => session[s].mainStatus = main[Owner[s]].status

(* From its first statement to the last of its cleanup.                        *)
Passing(s) == session[s].pc \in {"exec", "settle", "close", "drop", "clear"}

Gone(r) == branch[r] = NoBranch \/ branch[r].status = "none"

LateOK(r) ==
    Early(r) \/ Gone(r) \/ (/\ branch[r].status = "completed"
                            /\ \E s \in Sessions : Owner[s] = r /\ Passing(s))

LateInv == (\A s \in Sessions : Steered(s)) /\ (\A r \in Rigs : LateOK(r))

LEMMA QuietlySteered ==
    ASSUME NEW s \in Sessions, NEW pc, NEW op, NEW q, NEW script, NEW from,
           Becomes(s, pc, op, q, script, from), pc \notin {"plan", "exec", "settle"}
    PROVE  Steered(s)'
BY DEF Becomes, Steered

LEMMA GoesOnSteered ==
    ASSUME NEW s \in Sessions, NEW pc, NEW script, GoesOn(s, pc, script),
           pc \notin {"plan", "exec", "settle"}
    PROVE  Steered(s)'
BY QuietlySteered DEF GoesOn

LEMMA PlanSteered ==
    ASSUME NEW s \in Sessions, NEW script \in Seq(Steady), GoesOn(s, "plan", script)
    PROVE  Steered(s)'
BY DEF GoesOn, Becomes, Steered

(* The fields of a request that Goto does not name.                            *)
LEMMA MainStatusStays ==
    ASSUME Known, MutexInv, NEW s \in Sessions, NEW new, Goto(s, new), "mainStatus" \notin DOMAIN new
    PROVE  session'[s].mainStatus = session[s].mainStatus
<1>1. "mainStatus" \in DOMAIN session[s]
  BY DEF Known, Typed, Session
<1> QED
  BY <1>1, GotoFields DEF MutexInv

(* Where the steps of a request leave it steered.                              *)
LEMMA PlanIsSteered ==
    ASSUME BoardInv, Dependable, NEW s \in Sessions, Steered(s), Plan(s)
    PROVE  Steered(s)'
<1> DEFINE r == Owner[s]
<1>1. /\ Known /\ MutexInv /\ r \in Rigs /\ session[s].pc = "plan" /\ main' = main
      /\ session[s] \in Session
  BY DEF BoardInv, Known, Typed, Plan, refs
<1>2. PICK script \in Seq(Statement), from \in From(r) :
        /\ Becomes(s, "exec", session[s].op, session[s].submitter, script, from)
        /\ script = session[s].script \/ Simple(script, r)
  BY <1>1, PlanDoes
<1>3. script \in Seq(Steady)
  BY <1>1, <1>2, FreshlySteady DEF Steered
<1>4. session'[s].mainStatus = main[r].status
  <2>1. PICK onMain, new : /\ onMain \in Read(main[r]) /\ Goto(s, new)
                           /\ "mainStatus" \in DOMAIN new /\ new["mainStatus"] = onMain
    <3>1. PICK onMain, from0, q :
            /\ onMain \in Read(main[r])
            /\ Goto(s, [pc |-> "exec", mainStatus |-> onMain, from |-> from0, script |-> q])
      BY DEF Plan
    <3>2. PICK new : new = [pc |-> "exec", mainStatus |-> onMain, from |-> from0, script |-> q]
      OBVIOUS
    <3> QED
      BY <3>1, <3>2
  <2>2. "mainStatus" \in DOMAIN session[s]
    BY <1>1 DEF Session
  <2>3. session'[s]["mainStatus"] = onMain
    BY <1>1, <2>1, <2>2, GotoFields DEF MutexInv
  <2>4. onMain = StatusOf(main[r])
    BY <2>1, ReadsTrue
  <2>5. main[r] # NoBranch
    BY <1>1 DEF Known, Typed, RefsTyped
  <2> QED
    BY <2>3, <2>4, <2>5 DEF StatusOf
<1>5. session'[s].pc = "exec" /\ session'[s].script = script
  BY <1>2 DEF Becomes
<1> QED
  BY <1>1, <1>3, <1>4, <1>5 DEF Steered

LEMMA WriteIsSteered ==
    ASSUME BoardInv, NEW s \in Sessions, Steered(s), Write(s)
    PROVE  Steered(s)'
<1>1. Known /\ MutexInv /\ session[s].pc = "exec" /\ main' = main /\ Owner[s] \in Rigs
  BY DEF BoardInv, Write
<1>2. PICK script, rest : script = session[s].script /\ rest = Tail(script)
  OBVIOUS
<1>3. /\ Len(script) \in 1 .. 5
      /\ \/ \E pc \in {"settle", "exec"} :
               Becomes(s, pc, session[s].op, session[s].submitter, rest, "branch")
         \/ GoesOn(s, "answer", << >>)
  BY <1>1, <1>2, WriteDoes
<1>4. \/ \E pc : Goto(s, [script |-> rest, from |-> "branch", pc |-> pc])
      \/ Say(s, "error")
  BY <1>2 DEF Write
<1>5. rest \in Seq(Steady)
  <2>1. script \in Seq(Steady)
    BY <1>1, <1>2 DEF Steered
  <2> QED
    BY <1>2, <1>3, <2>1, HeadTail
<1>6. CASE Say(s, "error")
  <2>1. "error" \in Answers /\ Typed
    BY <1>1 DEF Answers, Known
  <2>2. Becomes(s, "answer", session[s].op, session[s].submitter, << >>, session[s].from)
    BY <1>6, <2>1, GotoSaid
  <2> QED
    BY <2>2, QuietlySteered
<1>7. CASE \E pc : Goto(s, [script |-> rest, from |-> "branch", pc |-> pc])
  <2>1. PICK pc : Goto(s, [script |-> rest, from |-> "branch", pc |-> pc])
    BY <1>7
  <2>2. PICK new : new = [script |-> rest, from |-> "branch", pc |-> pc]
    OBVIOUS
  <2>3. "mainStatus" \notin DOMAIN new /\ Goto(s, new) /\ "script" \in DOMAIN new /\ new["script"] = rest
    BY <2>1, <2>2
  <2>4. session'[s].mainStatus = session[s].mainStatus
    BY <1>1, <2>3, MainStatusStays
  <2>5. "script" \in DOMAIN session[s]
    BY <1>1 DEF Known, Typed, Session
  <2>6. session'[s]["script"] = rest
    BY <1>1, <2>3, <2>5, GotoFields DEF MutexInv
  <2>7. session[s].mainStatus = main[Owner[s]].status
    BY <1>1 DEF Steered
  <2> QED
    BY <1>1, <1>5, <2>4, <2>6, <2>7 DEF Steered
<1> QED
  BY <1>4, <1>6, <1>7

LEMMA LookupIsSteered ==
    ASSUME BoardInv, NEW s \in Sessions, LookupCompletion(s) \/ LookupSubmission(s)
    PROVE  Steered(s)'
<1>1. Known /\ Owner[s] \in Rigs
  BY DEF BoardInv
<1>2. CASE GoesOn(s, "answer", << >>)
  BY <1>2, GoesOnSteered
<1>3. CASE LookupCompletion(s)
  <2>1. ASSUME NEW id \in Nat, NEW x \in Stamp, GoesOn(s, "plan", AcceptCompletionDML(id, x))
        PROVE  Steered(s)'
    BY <1>1, <2>1, SteadyScripts, PlanSteered
  <2> QED
    BY <1>1, <1>2, <1>3, <2>1, LookupCompletionDoes
<1>4. CASE LookupSubmission(s)
  <2>1. ASSUME NEW id \in Nat, NEW by \in Rigs, GoesOn(s, "plan", CloseUpstreamDML(id, by))
        PROVE  Steered(s)'
    <3>1. PICK x : x = [id |-> 0, author |-> by, subject |-> by, context |-> id]
      OBVIOUS
    <3>2. x \in Stamp
      BY <3>1 DEF Stamp
    <3>3. CloseUpstreamDML(id, by) \in Seq(Steady)
      BY <1>1, <3>2, SteadyScripts
    <3> QED
      BY <2>1, <3>3, PlanSteered
  <2>2. ASSUME NEW id \in Nat, NEW by \in Rigs, NEW x \in Stamp,
               GoesOn(s, "plan", AcceptUpstreamDML(id, by, x))
        PROVE  Steered(s)'
    BY <1>1, <2>2, SteadyScripts, PlanSteered
  <2> QED
    BY <1>1, <1>2, <1>4, <2>1, <2>2, LookupSubmissionDoes
<1> QED
  BY <1>3, <1>4

LEMMA RestIsSteered ==
    ASSUME BoardInv, NEW s \in Sessions,
           \/ Lock(s) \/ Check(s) \/ Shortcut(s) \/ Settle(s) \/ ClosePR(s) \/ DropBranch(s)
           \/ Clear(s) \/ CreatePR(s) \/ SubmitPR(s) \/ CloseUpstreamPR(s) \/ Answer(s)
    PROVE  Steered(s)'
<1>1. Known /\ Typed /\ Owner[s] \in Rigs
  BY DEF BoardInv, Known
<1>2. CASE Lock(s)
  <2>1. << >> \in Seq(Steady)
    OBVIOUS
  <2> QED
    BY <1>1, <1>2, <2>1, LockDoes, GoesOnSteered, PlanSteered
<1>3. CASE Check(s)
  <2>1. AfterCheck(session[s].op) \notin {"plan", "exec", "settle"}
    BY DEF AfterCheck
  <2> QED
    BY <1>1, <1>3, <2>1, CheckDoes, GoesOnSteered
<1>4. CASE Shortcut(s)
  BY <1>1, <1>4, ShortcutDoes, GoesOnSteered
<1>5. CASE Settle(s)
  BY <1>1, <1>5, SettleDoes, GoesOnSteered
<1>6. CASE ClosePR(s)
  BY <1>1, <1>6, ClosePRDoes, GoesOnSteered
<1>7. CASE DropBranch(s)
  BY <1>1, <1>7, DropBranchDoes, GoesOnSteered
<1>8. CASE Clear(s)
  <2>1. \/ GoesOn(s, "clear", <<EraseWanted>>) \/ GoesOn(s, "retire", << >>)
        \/ GoesOn(s, "answer", << >>)
    BY <1>1, <1>8, ClearDoes
  <2> QED
    BY <2>1, GoesOnSteered
<1>9. CASE CreatePR(s)
  BY <1>1, <1>9, FinishDoes, GoesOnSteered DEF CreatePR
<1>10. CASE SubmitPR(s) \/ CloseUpstreamPR(s)
  <2>1. PICK answer \in Answers : Say(s, answer)
    <3>1. "kept" \in Answers /\ session[s].answer \in Answers
      BY <1>1 DEF Answers, Typed, Session
    <3> QED
      BY <1>10, <3>1 DEF SubmitPR, CloseUpstreamPR
  <2> QED
    BY <1>1, <2>1, GotoSaid, QuietlySteered
<1>11. CASE Answer(s)
  BY <1>1, <1>11, AnswerDoes, QuietlySteered
<1> QED
  BY <1>2, <1>3, <1>4, <1>5, <1>6, <1>7, <1>8, <1>9, <1>10, <1>11

(* What becomes of the branch of an item that was completed all along.         *)
LEMMA LateStays ==
    ASSUME NEW r \in Rigs, LateOK(r), main' = main, branch'[r] = branch[r],
           \A t \in Sessions : Owner[t] = r /\ Passing(t) => Passing(t)'
    PROVE  LateOK(r)'
BY DEF LateOK, Early, Gone

LEMMA LateWritten ==
    ASSUME BoardInv, Dependable, NEW s \in Sessions, Steered(s), LateOK(Owner[s]), Write(s)
    PROVE  LateOK(Owner[s])'
<1> DEFINE r == Owner[s]
<1>1. /\ Known /\ r \in Rigs /\ session[s] \in Session /\ session[s].pc = "exec" /\ main' = main
      /\ Leads(r, session[s].script, session[s].from)
  BY DEF BoardInv, Known, Typed, Write, Sound
<1>2. PICK script, from, op, q, stmt :
        /\ script = session[s].script /\ from = session[s].from
        /\ op = session[s].op /\ q = session[s].submitter /\ stmt = Head(script)
  OBVIOUS
<1>3. /\ script \in Seq(Steady) /\ script \in Seq(Statement) /\ from \in {"main", "branch"}
      /\ Leads(r, script, from)
  BY <1>1, <1>2 DEF Session, Steered
<1>4. /\ Len(script) \in 1 .. 5
      /\ \/ /\ Written(r, from, stmt)
            /\ \E pc \in {"settle", "exec"} : Becomes(s, pc, op, q, Tail(script), "branch")
         \/ Unwritten(r, from, stmt)
  BY <1>1, <1>2, WriteDoes
<1>5. stmt \in Steady /\ stmt \in Statement
  BY <1>2, <1>3, <1>4, HeadTail
<1> SUFFICES ASSUME ~Early(r) PROVE Gone(r)' \/ (branch'[r].status = "completed" /\ Passing(s)')
  BY <1>1 DEF LateOK, Early
<1>6. main[r] \in Tables /\ main[r].status = "completed"
  BY <1>1 DEF Early, Known, Typed, RefsTyped
<1>7. CASE Unwritten(r, from, stmt)
  BY <1>7 DEF Unwritten, Dependable, Gone
<1>8. CASE /\ Written(r, from, stmt)
           /\ \E pc \in {"settle", "exec"} : Becomes(s, pc, op, q, Tail(script), "branch")
  <2>1. Passing(s)'
    BY <1>8 DEF Becomes, Passing
  <2>2. PICK source, u : source = Source(r, from) /\ u = Apply(stmt, source)
    OBVIOUS
  <2>3. /\ source \in Tables
        /\ branch'[r] = u \/ branch'[r] = branch[r]
    BY <1>8, <2>2 DEF Written
  <2>4. branch[r] # NoBranch => branch[r] \in Tables
    BY <1>1 DEF Known, Typed, RefsTyped
  <2>5. CASE from = "main"
    <3>1. source = main[r] /\ Gone(r)
      BY <1>3, <2>2, <2>5 DEF Source, Leads, StatusOf, Gone
    <3>2. u.status = "completed"
      BY <1>5, <1>6, <2>2, <3>1, SteadyKeeps
    <3> QED
      BY <2>1, <2>3, <3>1, <3>2 DEF Gone
  <2>6. CASE from = "branch"
    <3>1. source = branch[r] /\ branch[r] # NoBranch
      BY <2>2, <2>3, <2>6 DEF Source
    <3>2. CASE branch[r].status = "none"
      <4>1. Dull(script)
        BY <1>3, <2>6, <3>1, <3>2 DEF Leads
      <4>2. stmt.into = "wanted" => "none" \notin stmt.where
        BY <1>2, <1>3, <1>4, <4>1 DEF Dull
      <4>3. u.status = "none"
        BY <1>5, <2>2, <2>3, <3>1, <3>2, <4>2, DullStep
      <4> QED
        BY <2>3, <3>2, <4>3 DEF Gone
    <3>3. CASE branch[r].status # "none"
      <4>1. branch[r].status = "completed"
        BY <3>1, <3>3 DEF LateOK, Gone
      <4>2. u.status = "completed"
        BY <1>5, <2>2, <2>3, <3>1, <4>1, SteadyKeeps
      <4> QED
        BY <2>1, <2>3, <4>1, <4>2
    <3> QED
      BY <3>2, <3>3
  <2> QED
    BY <1>3, <2>5, <2>6
<1> QED
  BY <1>4, <1>7, <1>8

(* The branch says what main says: the request goes on to the cleanup.         *)
LEMMA LateSettled ==
    ASSUME BoardInv, Dependable, NEW s \in Sessions, Steered(s), LateOK(Owner[s]), Settle(s)
    PROVE  LateOK(Owner[s])'
<1> DEFINE r == Owner[s]
<1>1. Known /\ MutexInv /\ r \in Rigs /\ session[s].pc = "settle" /\ UNCHANGED <<main, branch>>
  BY DEF BoardInv, Settle, refs
<1> SUFFICES ASSUME ~Early(r), ~Gone(r), branch[r].status = "completed"
             PROVE  Passing(s)'
  BY <1>1 DEF LateOK, Early, Gone
<1>2. session[s].mainStatus = "completed"
  BY <1>1 DEF Steered, Early
<1>3. PICK status \in Seen(r) :
        IF status # "none" /\ status = session[s].mainStatus
        THEN Goto(s, [pc |-> "close", answer |-> "reverted"])
        ELSE Goto(s, [pc |-> "offer", answer |-> "kept"])
  BY DEF Settle
<1>4. status = "completed"
  <2>1. Read(branch[r]) = {"completed"}
    BY ReadsTrue DEF StatusOf, Gone
  <2>2. Seen(r) = UNION {{"completed"}}
    BY <2>1 DEF Seen
  <2> QED
    BY <1>3, <2>2
<1>5. Goto(s, [pc |-> "close", answer |-> "reverted"])
  BY <1>2, <1>3, <1>4
<1>6. session'[s].pc = "close"
  <2>1. "close" \in Pcs /\ "reverted" \in Answers /\ Typed
    BY <1>1 DEF Pcs, Answers, Known
  <2>2. Becomes(s, "close", session[s].op, session[s].submitter, session[s].script, session[s].from)
    BY <1>5, <2>1, GotoAnswer
  <2> QED
    BY <2>2 DEF Becomes
<1> QED
  BY <1>6 DEF Passing

LEMMA LateDropped ==
    ASSUME BoardInv, NEW s \in Sessions, LateOK(Owner[s]), DropBranch(s)
    PROVE  LateOK(Owner[s])'
<1>1. Known /\ Owner[s] \in Rigs /\ main' = main /\ session[s].pc = "drop"
  BY DEF BoardInv, DropBranch
<1>2. CASE branch' = [branch EXCEPT ![Owner[s]] = NoBranch]
  <2>1. branch'[Owner[s]] = NoBranch
    BY <1>1, <1>2 DEF Known, Typed, RefsTyped
  <2> QED
    BY <2>1 DEF LateOK, Gone
<1>3. CASE UNCHANGED branch /\ GoesOn(s, "clear", ClearScript)
  <2>1. Passing(s)'
    BY <1>3 DEF GoesOn, Becomes, Passing
  <2> QED
    BY <1>1, <1>3, <2>1 DEF LateOK, Early, Gone
<1> QED
  BY <1>1, <1>2, <1>3, DropBranchDoes

LEMMA LateCleared ==
    ASSUME BoardInv, Dependable, NEW s \in Sessions, LateOK(Owner[s]), Clear(s)
    PROVE  LateOK(Owner[s])'
<1> DEFINE r == Owner[s]
<1>1. Known /\ r \in Rigs /\ main' = main
  BY DEF BoardInv, Clear
<1>2. PICK script, stmt : script = session[s].script /\ stmt = Head(script)
  OBVIOUS
<1>3. /\ script \in {ClearScript, <<EraseWanted>>}
      /\ \E from \in From(r) :
            \/ /\ Written(r, from, stmt)
               /\ script = ClearScript => GoesOn(s, "clear", <<EraseWanted>>)
            \/ Unwritten(r, from, stmt)
  BY <1>1, <1>2, ClearDoes
<1>4. PICK from \in From(r) :
            \/ /\ Written(r, from, stmt)
               /\ script = ClearScript => GoesOn(s, "clear", <<EraseWanted>>)
            \/ Unwritten(r, from, stmt)
  BY <1>3
<1>5. from = IF StatusOf(branch[r]) = "none" THEN "main" ELSE "branch"
  BY <1>1, <1>4, FromTrue
<1> SUFFICES ASSUME ~Early(r) PROVE Gone(r)' \/ (branch'[r].status = "completed" /\ Passing(s)')
  BY <1>1 DEF LateOK, Early
<1>6. CASE Unwritten(r, from, stmt)
  BY <1>6 DEF Unwritten, Dependable, Gone
<1>7. CASE Written(r, from, stmt) /\ script = <<EraseWanted>>
  <2>1. stmt = EraseWanted
    BY <1>2, <1>7
  <2> QED
    BY <1>1, <1>7, <2>1, ErasedRests DEF Gone
<1>8. CASE Written(r, from, stmt) /\ script = ClearScript /\ GoesOn(s, "clear", <<EraseWanted>>)
  <2>1. Passing(s)'
    BY <1>8 DEF GoesOn, Becomes, Passing
  <2>2. stmt = DeleteCompletions
    BY <1>2, <1>8 DEF ClearScript
  <2>3. PICK source, u : source = Source(r, from) /\ u = Apply(DeleteCompletions, source)
    OBVIOUS
  <2>4. source \in Tables /\ (branch'[r] = u \/ branch'[r] = branch[r])
    BY <1>8, <2>2, <2>3 DEF Written
  <2>5. u.status = source.status
    BY <2>3, <2>4, ApplyDelete
  <2>6. CASE StatusOf(branch[r]) = "none"
    <3>1. Gone(r) /\ source.status = "completed"
      BY <1>5, <2>3, <2>6 DEF Source, StatusOf, Gone, Early
    <3> QED
      BY <2>1, <2>4, <2>5, <3>1 DEF Gone
  <2>7. CASE StatusOf(branch[r]) # "none"
    <3>1. branch[r].status = "completed" /\ source.status = "completed"
      BY <1>5, <2>3, <2>7 DEF Source, StatusOf, Gone, LateOK
    <3> QED
      BY <2>1, <2>4, <2>5, <3>1
  <2> QED
    BY <2>6, <2>7
<1> QED
  BY <1>3, <1>4, <1>6, <1>7, <1>8

LEMMA LateRested ==
    ASSUME BoardInv, Dependable, NEW s \in Sessions, LateOK(Owner[s]), Step(s),
           ~(Write(s) \/ Settle(s) \/ DropBranch(s) \/ Clear(s)),
           \A t \in Sessions \ {s} : session'[t] = session[t]
    PROVE  LateOK(Owner[s])'
<1>1. Known /\ Owner[s] \in Rigs
  BY DEF BoardInv
<1>2. /\ session[s].pc \notin {"exec", "settle", "drop", "clear"} /\ main' = main
      /\ session[s].pc = "close" => ClosePR(s)
  BY DEF Step, Lock, Check, Shortcut, LookupCompletion, LookupSubmission, Plan,
     ClosePR, CreatePR, SubmitPR, CloseUpstreamPR, Answer, refs
<1>3. UNCHANGED branch
  BY <1>1, <1>2, OwnBranch
<1>4. session[s].pc = "close" => session'[s].pc = "drop"
  <2>1. ClosePR(s) => GoesOn(s, "drop", << >>)
    BY <1>1, ClosePRDoes
  <2> QED
    BY <1>2, <2>1 DEF GoesOn, Becomes
<1>5. ASSUME NEW t \in Sessions, Passing(t) PROVE Passing(t)'
  <2>1. CASE t = s
    BY <1>2, <1>4, <1>5, <2>1 DEF Passing
  <2>2. CASE t # s
    BY <1>5, <2>2 DEF Passing
  <2> QED
    BY <2>1, <2>2
<1> QED
  BY <1>1, <1>2, <1>3, <1>5, LateStays

LEMMA OthersStay ==
    ASSUME BoardInv, Dependable, NEW s \in Sessions, Step(s)
    PROVE  \A t \in Sessions \ {s} : session'[t] = session[t]
<1>1. CASE Write(s) \/ DropBranch(s) \/ Clear(s)
  BY <1>1, WriteBoard, DropBoard, ClearBoard
<1>2. CASE ~(Write(s) \/ DropBranch(s) \/ Clear(s))
  BY <1>2, LockSound, CheckSound, LookupSound, PlanLeads, RestSound DEF Step
<1> QED
  BY <1>1, <1>2

LEMMA LateStep == ASSUME BoardInv, LateInv, Dependable, [Next]_vars PROVE LateInv'
<1>1. Known /\ MutexInv /\ main' = main
  BY ForksStay DEF BoardInv
<1>2. ASSUME NEW t \in Sessions, session'[t] = session[t] PROVE Steered(t)'
  BY <1>1, <1>2 DEF LateInv, Steered
<1>3. ASSUME UNCHANGED <<branch, session>> PROVE LateInv'
  <2>1. \A r \in Rigs : LateOK(r)'
    BY <1>1, <1>3, LateStays DEF LateInv, Passing
  <2> QED
    BY <1>2, <1>3, <2>1 DEF LateInv
<1>4. ASSUME NEW s \in Sessions, NEW op \in Ops, NEW q \in Submitters(op), Begin(s, op, q)
      PROVE  LateInv'
  <2>1. PICK pc \in {"check", "enter", "submit", "lock"} :
           Becomes(s, pc, op, q, << >>, session[s].from)
    BY <1>1, <1>4, BeginDoes
  <2>2. Steered(s)' /\ \A t \in Sessions \ {s} : session'[t] = session[t]
    BY <2>1, QuietlySteered DEF Becomes
  <2>3. UNCHANGED branch /\ session[s].pc = "idle"
    BY <1>4 DEF Begin, refs
  <2>4. \A t \in Sessions : Passing(t) => Passing(t)'
    BY <2>2, <2>3 DEF Passing
  <2>5. \A r \in Rigs : LateOK(r)'
    BY <1>1, <2>3, <2>4, LateStays DEF LateInv
  <2> QED
    BY <1>2, <2>2, <2>5 DEF LateInv
<1>5. ASSUME NEW s \in Sessions, Step(s) PROVE LateInv'
  <2>1. \A t \in Sessions \ {s} : session'[t] = session[t]
    BY <1>5, OthersStay
  <2>2. Steered(s) /\ Owner[s] \in Rigs /\ LateOK(Owner[s])
    BY DEF LateInv
  <2>3. Steered(s)'
    BY <1>5, <2>2, PlanIsSteered, WriteIsSteered, LookupIsSteered, RestIsSteered DEF Step
  <2>4. LateOK(Owner[s])'
    BY <1>5, <2>1, <2>2, LateWritten, LateSettled, LateDropped, LateCleared, LateRested
  <2>5. ASSUME NEW r \in Rigs, r # Owner[s] PROVE LateOK(r)'
    <3>1. branch'[r] = branch[r]
      BY <1>1, <1>5, <2>5, OwnBranch
    <3>2. \A t \in Sessions : Owner[t] = r /\ Passing(t) => Passing(t)'
      BY <2>1, <2>5 DEF Passing
    <3> QED
      BY <1>1, <3>1, <3>2, LateStays DEF LateInv
  <2> QED
    BY <1>2, <2>1, <2>3, <2>4, <2>5 DEF LateInv
<1>6. ASSUME NEW r \in Rigs, MergePR(r) \/ RefreshListing(r) PROVE LateInv'
  BY <1>3, <1>6 DEF MergePR, RefreshListing
<1> QED
  BY <1>3, <1>4, <1>5, <1>6 DEF Next, vars

(* The claim of acceptLocked, for forks taken before the item was completed    *)
(* and after: where a completion has a stamp of its own, it names it.          *)
THEOREM LinkedStamps == Dependable /\ Begun => (Spec => []StampsAreLinked)
<1> SUFFICES ASSUME Dependable, Begun PROVE Spec => []StampsAreLinked
  OBVIOUS
<1>1. Init => BoardInv /\ LateInv
  <2> SUFFICES ASSUME Init PROVE LateInv
    BY BoardFirst
  <2>1. \A s \in Sessions : Steered(s)
    BY DEF Init, Steered, Sleeping
  <2>2. \A r \in Rigs : LateOK(r)
    BY DEF Init, RefsInit, LateOK, Gone
  <2> QED
    BY <2>1, <2>2 DEF LateInv
<1>2. BoardInv /\ LateInv /\ [Next]_vars => (BoardInv /\ LateInv)'
  BY BoardStep, LateStep
<1>3. BoardInv /\ LateInv => StampsAreLinked
  <2> SUFFICES ASSUME BoardInv, LateInv, NEW r \in Rigs, Quiet(r),
                      NEW c \in branch[r].completions, NEW x \in branch[r].stamps, x.context = c.id
               PROVE  c.stamp = x.id
    BY DEF StampsAreLinked
  <2>1. branch[r] \in Tables /\ branch[r].status # "none" /\ Kempt(branch[r], Early(r))
    BY QuietIsKempt
  <2>2. Early(r)
    <3>1. branch[r] # NoBranch /\ ~Gone(r) /\ mutex[r] = Free
      BY <2>1 DEF Gone, Quiet, StatusOf
    <3>2. ASSUME NEW s \in Sessions, Owner[s] = r, Passing(s) PROVE FALSE
      <4>1. mutex[r] = s
        BY <3>2 DEF Passing, Working, BoardInv, MutexInv, Held
      <4> QED
        BY <3>1, <4>1
    <3> QED
      BY <3>1, <3>2 DEF LateInv, LateOK
  <2>3. branch[r].status \in {"open", "claimed", "withdrawn", "in_review", "completed"}
    BY <2>1 DEF Tables, Status, Present
  <2> QED
    BY <2>1, <2>2, <2>3 DEF Kempt
<1> QED
  BY <1>1, <1>2, <1>3, PTL DEF Spec

-----------------------------------------------------------------------------
(* What a branch with rows t comes to, with main as given and the mutex in the *)
(* hand of a request in the state me.                                          *)
Outlook(t, m, me) ==
    IF StatusOf(t) = "none" THEN NoBranch
    ELSE IF me.pc \in {"close", "drop", "clear"} THEN NoBranch
    ELSE IF me.pc = "settle" \/ (me.pc = "exec" /\ me.from = "branch")
         THEN LET u == Run(me.script, t) IN
              IF u = NoBranch \/ StatusOf(u) \in {"none", m.status} THEN NoBranch ELSE u
    ELSE t

Hand(r) == IF mutex[r] = Free THEN Sleeping ELSE session[mutex[r]]

LEMMA ProposalIs ==
    ASSUME NEW r \in Rigs
    PROVE  Proposal(r) = Outlook(branch[r], main[r], Hand(r))
BY DEF Proposal, Outlook, Hand, Kept, Sending, Sleeping

LEMMA ProposalWillBe ==
    ASSUME NEW r \in Rigs
    PROVE  Proposal(r)' = Outlook(branch'[r], main'[r], Hand(r)')
BY DEF Proposal, Outlook, Hand, Kept, Sending, Sleeping

(* What has become of a request in the state me, for a branch that is there or *)
(* is not.                                                                     *)
Standing(me, there) ==
    CASE me.pc = "idle" -> "none"
      [] me.pc = "answer" /\ me.answer \in {"error", "unchanged"} -> "refused"
      [] me.pc \in {"settle", "close", "drop", "clear", "offer", "retire"}
           \/ (me.pc = "answer" /\ me.answer \notin {"error", "unchanged"})
           \/ (me.pc = "exec" /\ me.from = "branch" /\ there) -> "made"
      [] OTHER -> me.op

LEMMA RequestIs ==
    ASSUME NEW s \in Sessions
    PROVE  Request(s) = Standing(session[s], branch[Owner[s]] # NoBranch)
BY DEF Request, Standing, Sending

LEMMA RequestWillBe ==
    ASSUME NEW s \in Sessions
    PROVE  Request(s)' = Standing(session'[s], branch'[Owner[s]] # NoBranch)
BY DEF Request, Standing, Sending

-----------------------------------------------------------------------------
(* What a step of s has to show for a step of the board, or for none.          *)
Beside(s) ==
    /\ main' = main
    /\ \A t \in Sessions \ {s} : Request(t)' = Request(t)
    /\ \A q \in Rigs \ {Owner[s]} : Proposal(q)' = Proposal(q)

LEMMA Stutters ==
    ASSUME NEW s \in Sessions, Beside(s), Request(s)' = Request(s),
           Proposal(Owner[s])' = Proposal(Owner[s])
    PROVE  UNCHANGED Promise!vars
<1>1. \A t \in Sessions : Request(t)' = Request(t)
  BY DEF Beside
<1>2. \A q \in Rigs : Proposal(q)' = Proposal(q)
  BY DEF Beside
<1> HIDE DEF Request, Proposal
<1> QED
  BY <1>1, <1>2 DEF Beside, Promise!vars

LEMMA OneBecomes ==
    ASSUME NEW s \in Sessions, Beside(s), NEW state, Request(s)' = state
    PROVE  Promise!Becomes(s, state)
<1>1. \A t \in Sessions : Request(t)' = IF t = s THEN state ELSE Request(t)
  BY DEF Beside
<1> QED
  BY <1>1 DEF Promise!Becomes

LEMMA SameProposals ==
    ASSUME NEW s \in Sessions, Beside(s), Proposal(Owner[s])' = Proposal(Owner[s])
    PROVE  UNCHANGED [r \in Rigs |-> Proposal(r)]
<1>1. \A q \in Rigs : Proposal(q)' = Proposal(q)
  BY DEF Beside
<1> QED
  BY <1>1

LEMMA OneProposal ==
    ASSUME NEW s \in Sessions, Beside(s), NEW u, Proposal(Owner[s])' = u
    PROVE  [r \in Rigs |-> Proposal(r)]' = [[r \in Rigs |-> Proposal(r)] EXCEPT ![Owner[s]] = u]
<1>1. \A q \in Rigs : Proposal(q)' = IF q = Owner[s] THEN u ELSE Proposal(q)
  BY DEF Beside
<1> QED
  BY <1>1

(* The steps of the board, seen from the request that makes them.              *)
LEMMA Asks ==
    ASSUME NEW s \in Sessions, Beside(s), Proposal(Owner[s])' = Proposal(Owner[s]),
           Request(s) = "none", NEW op \in Operations, Request(s)' = op
    PROVE  Promise!Ask(s)
<1>1. Promise!Becomes(s, op) /\ op \in Promise!Operations
  BY OneBecomes DEF Operations, Promise!Operations, Promise!Changes, Promise!Adoptions
<1> HIDE DEF Request, Proposal
<1>2. [t \in Sessions |-> Request(t)]'[s] = op
  OBVIOUS
<1> QED
  BY <1>1, <1>2, SameProposals DEF Beside, Promise!Ask

LEMMA Refuses ==
    ASSUME NEW s \in Sessions, Beside(s), Proposal(Owner[s])' = Proposal(Owner[s]),
           Request(s) \in Operations, Request(s)' = "refused"
    PROVE  Promise!Refuse(s)
<1>1. Promise!Becomes(s, "refused") /\ Request(s) \in Promise!Operations
  BY OneBecomes DEF Operations, Promise!Operations, Promise!Changes, Promise!Adoptions
<1> HIDE DEF Request, Proposal
<1> QED
  BY <1>1, SameProposals DEF Beside, Promise!Refuse

LEMMA Answered ==
    ASSUME NEW s \in Sessions, Beside(s), Proposal(Owner[s])' = Proposal(Owner[s]),
           Request(s) \in {"made", "refused"}, Request(s)' = "none"
    PROVE  Promise!Answer(s)
<1>1. Promise!Becomes(s, "none")
  BY OneBecomes
<1> HIDE DEF Request, Proposal
<1> QED
  BY <1>1, SameProposals DEF Beside, Promise!Answer

LEMMA Offers ==
    ASSUME NEW s \in Sessions, Beside(s), Proposal(Owner[s])' = Proposal(Owner[s]),
           Request(s) = "submit-pr", Request(s)' = "made"
    PROVE  Promise!Offer(s)
<1>1. Promise!Becomes(s, "made")
  BY OneBecomes
<1> HIDE DEF Request, Proposal
<1> QED
  BY <1>1, SameProposals DEF Beside, Promise!Offer

LEMMA Loses ==
    ASSUME NEW s \in Sessions, Beside(s), Request(s) \in Promise!Adoptions, Request(s)' = "made",
           Proposal(Owner[s]) = NoBranch, Proposal(Owner[s])' = NoBranch,
           main[Owner[s]].completions = {}
    PROVE  Promise!Lost(s)
<1>1. Promise!Becomes(s, "made")
  BY OneBecomes
<1>2. UNCHANGED [r \in Rigs |-> Proposal(r)]
  BY SameProposals
<1> HIDE DEF Request, Proposal
<1> QED
  BY <1>1, <1>2 DEF Beside, Promise!Lost

LEMMA Discards ==
    ASSUME NEW s \in Sessions, Beside(s), Request(s)' = "made", Proposal(Owner[s])' = NoBranch,
           \/ Request(s) = "discard"
           \/ Request(s) = "delete" /\ main[Owner[s]].status = "none"
    PROVE  Promise!Discard(s)
<1>1. Promise!Becomes(s, "made") /\ Promise!TakenBack(Owner[s])
  BY OneBecomes, OneProposal DEF Promise!TakenBack
<1> HIDE DEF Request, Proposal
<1> QED
  BY <1>1 DEF Beside, Promise!Discard

(* A change of the rows t that the request finds: of the branch if it has the  *)
(* item, and else of main.                                                     *)
Makes(s, op, t) ==
    LET r == Owner[s] IN
    \E u : /\ Does(op, r, t, u)
           /\ Proposal(r)' = IF u.status \in {"none", main[r].status} THEN NoBranch ELSE u

LEMMA Changes ==
    ASSUME NEW s \in Sessions, Beside(s), NEW op \in Promise!Changes, Request(s) = op,
           Request(s)' = "made", NEW t, Makes(s, op, t),
           t = IF Proposal(Owner[s]) = NoBranch THEN main[Owner[s]] ELSE Proposal(Owner[s])
    PROVE  Promise!Change(s)
<1> DEFINE r == Owner[s]
           all == [q \in Rigs |-> Proposal(q)]
<1>1. PICK u : /\ Does(op, r, t, u)
               /\ Proposal(r)' = IF u.status \in {"none", main[r].status} THEN NoBranch ELSE u
  BY DEF Makes
<1>2. Promise!Becomes(s, "made")
  BY OneBecomes
<1>3. r \in Rigs
  OBVIOUS
<1> HIDE DEF Request, Proposal
<1>4. Promise!Tip(r) = t
  BY <1>3 DEF Promise!Tip
<1>5. u.status = Promise!After(op, r, t)
  BY <1>1 DEF Does
<1>6. CASE u.status \in {"none", main[r].status}
  <2>1. Promise!TakenBack(r)
    BY <1>1, <1>6, OneProposal DEF Promise!TakenBack
  <2> QED
    BY <1>2, <1>4, <1>5, <1>6, <2>1 DEF Beside, Promise!Change
<1>7. CASE u.status \notin {"none", main[r].status}
  <2>1. all' = [all EXCEPT ![r] = u]
    BY <1>1, <1>7, OneProposal
  <2>2. all'[r] = u
    BY <1>1, <1>3, <1>7
  <2>3. u \in Tables /\ Promise!Makes(op, r, t, u)
    BY <1>1, <1>7 DEF Does
  <2> HIDE DEF all
  <2>4. all'[r] \in Tables /\ Promise!Makes(op, r, t, all'[r]) /\ all' = [all EXCEPT ![r] = all'[r]]
    BY <2>1, <2>2, <2>3
  <2> QED
    BY <1>2, <1>4, <1>5, <1>7, <2>4 DEF Beside, Promise!Change, all
<1> QED
  BY <1>6, <1>7

-----------------------------------------------------------------------------
(* What a step of s leaves to the others.                                      *)
Own == \A r \in Rigs : mutex[r] = Free \/ (mutex[r] \in Sessions /\ Owner[mutex[r]] = r)

LEMMA OwnMutex ==
    ASSUME MutexInv, NEW s \in Sessions, Step(s)
    PROVE  /\ DOMAIN mutex' = Rigs
           /\ \A q \in Rigs \ {Owner[s]} : mutex'[q] = mutex[q]
           /\ \/ mutex'[Owner[s]] = mutex[Owner[s]]
              \/ /\ {mutex'[Owner[s]], mutex[Owner[s]]} \subseteq {s, Free}
                 /\ session[s].pc \in {"enter", "lock", "shortcut", "answer"}
<1>1. DOMAIN mutex = Rigs /\ Owner[s] \in Rigs
  BY DEF MutexInv, Shaped
<1>2. CASE Lock(s)
  BY <1>1, <1>2 DEF Lock
<1>3. CASE Shortcut(s)
  <2>1. mutex[Owner[s]] = s
    BY <1>3 DEF Shortcut, MutexInv, Held, Working, CheckedUnderLock
  <2> QED
    BY <1>1, <1>3, <2>1 DEF Shortcut
<1>4. CASE Answer(s)
  BY <1>1, <1>4 DEF Answer
<1>5. CASE ~(Lock(s) \/ Shortcut(s) \/ Answer(s))
  <2>1. UNCHANGED mutex
    BY <1>5 DEF Step, Check, LookupCompletion, LookupSubmission, Plan, Write,
       Settle, ClosePR, DropBranch, Clear, CreatePR, SubmitPR, CloseUpstreamPR
  <2> QED
    BY <1>1, <2>1
<1> QED
  BY <1>2, <1>3, <1>4, <1>5

LEMMA OwnStays ==
    ASSUME MutexInv, Own, NEW s \in Sessions, Step(s)
    PROVE  Own'
<1>1. ASSUME NEW r \in Rigs
      PROVE  mutex'[r] = Free \/ (mutex'[r] \in Sessions /\ Owner[mutex'[r]] = r)
  BY OwnMutex DEF Own
<1> QED
  BY <1>1 DEF Own

LEMMA StepBeside ==
    ASSUME BoardInv, Own, Dependable, NEW s \in Sessions, Step(s)
    PROVE  Beside(s)
<1> DEFINE r == Owner[s]
<1>1. Known /\ MutexInv /\ r \in Rigs
  BY DEF BoardInv
<1>2. main' = main
  BY ForksStay DEF Next
<1>3. \A t \in Sessions \ {s} : session'[t] = session[t]
  BY OthersStay
<1>4. /\ \A q \in Rigs \ {r} : branch'[q] = branch[q]
      /\ session[s].pc \notin {"exec", "drop", "clear"} => UNCHANGED branch
  BY <1>1, OwnBranch
<1>5. ASSUME NEW t \in Sessions \ {s} PROVE Request(t)' = Request(t)
  <2>1. CASE branch'[Owner[t]] = branch[Owner[t]]
    BY <1>3, <2>1, RequestIs, RequestWillBe
  <2>2. CASE branch'[Owner[t]] # branch[Owner[t]]
    <3>1. Owner[t] = r /\ session[s].pc \in {"exec", "drop", "clear"}
      BY <1>4, <2>2
    <3>2. ~Working(t)
      BY <1>1, <3>1, Apart DEF Working
    <3>3. session[t].pc # "exec"
      BY <3>2 DEF Working
    <3> QED
      BY <1>3, <3>3, RequestIs, RequestWillBe DEF Standing
  <2> QED
    BY <2>1, <2>2
<1>6. ASSUME NEW q \in Rigs \ {r} PROVE Proposal(q)' = Proposal(q)
  <2>1. mutex'[q] = mutex[q] /\ branch'[q] = branch[q]
    BY <1>1, <1>4, OwnMutex
  <2>2. mutex[q] # Free => mutex[q] \in Sessions \ {s}
    BY DEF Own
  <2>3. Hand(q)' = Hand(q)
    BY <1>3, <2>1, <2>2 DEF Hand
  <2> QED
    BY <1>2, <2>1, <2>3, ProposalIs, ProposalWillBe
<1> QED
  BY <1>2, <1>5, <1>6 DEF Beside

(* A request in the state me does nothing to its branch and is not about to.   *)
Plain(me) == /\ me.pc \notin {"settle", "close", "drop", "clear"}
             /\ ~(me.pc = "exec" /\ me.from = "branch")

LEMMA PlainOutlook ==
    ASSUME NEW t, NEW m, NEW me, Plain(me)
    PROVE  Outlook(t, m, me) = IF StatusOf(t) = "none" THEN NoBranch ELSE t
BY DEF Outlook, Plain

LEMMA PlainProposal ==
    ASSUME BoardInv, Own, Dependable, NEW s \in Sessions, Step(s), UNCHANGED branch,
           Plain(session[s]), Plain(session'[s])
    PROVE  Proposal(Owner[s])' = Proposal(Owner[s])
<1> DEFINE r == Owner[s]
<1>1. MutexInv /\ r \in Rigs /\ main' = main
  BY ForksStay DEF BoardInv, Next
<1>2. Plain(Sleeping)
  BY DEF Plain, Sleeping
<1>3. CASE mutex[r] = mutex'[r] /\ mutex[r] \notin {Free, s}
  <2>1. mutex[r] \in Sessions \ {s}
    BY <1>3 DEF Own
  <2>2. session'[mutex[r]] = session[mutex[r]]
    BY <2>1, OthersStay
  <2>3. Hand(r)' = Hand(r)
    BY <1>3, <2>2 DEF Hand
  <2> QED
    BY <1>1, <2>3, ProposalIs, ProposalWillBe
<1>4. CASE {mutex'[r], mutex[r]} \subseteq {s, Free}
  <2>1. Plain(Hand(r)) /\ Plain(Hand(r)')
    BY <1>2, <1>4 DEF Hand
  <2> QED
    BY <1>1, <2>1, PlainOutlook, ProposalIs, ProposalWillBe
<1> QED
  BY <1>1, <1>3, <1>4, OwnMutex

-----------------------------------------------------------------------------
(* What a request sends is the script of its operation, and what it is about   *)
(* to tell its caller once it is at work on the outcome is that it succeeded.  *)
Whole(s) ==
    LET r == Owner[s]
        me == session[s] IN
    /\ me.pc = "plan" /\ me.script # << >> =>
          /\ Serves(me.op, r, me.script, main[r])
          /\ StatusOf(branch[r]) # "none" => Serves(me.op, r, me.script, branch[r])
    /\ me.pc = "exec" /\ me.from = "main" => Serves(me.op, r, me.script, main[r])

Told(s) ==
    /\ session[s].pc \in {"close", "drop", "clear", "offer", "retire"}
          => session[s].answer \in {"kept", "reverted", "discarded"}
    /\ session[s].pc = "submit" => session[s].op = "submit-pr"

LEMMA QuietlyWhole ==
    ASSUME NEW s \in Sessions, NEW pc, NEW op, NEW q, NEW script, NEW from,
           Becomes(s, pc, op, q, script, from), pc \notin {"plan", "exec"}
    PROVE  Whole(s)'
BY DEF Becomes, Whole

LEMMA GoesOnWhole ==
    ASSUME NEW s \in Sessions, NEW pc, NEW script, GoesOn(s, pc, script),
           pc \notin {"plan", "exec"}
    PROVE  Whole(s)'
BY QuietlyWhole DEF GoesOn

LEMMA PlanWhole ==
    ASSUME NEW s \in Sessions, NEW script, GoesOn(s, "plan", script), UNCHANGED <<main, branch>>,
           script = << >> \/ (/\ Serves(session[s].op, Owner[s], script, main[Owner[s]])
                              /\ StatusOf(branch[Owner[s]]) # "none"
                                   => Serves(session[s].op, Owner[s], script, branch[Owner[s]]))
    PROVE  Whole(s)'
BY DEF GoesOn, Becomes, Whole

(* A new id is in no row.                                                      *)
LEMMA NewIsUnused ==
    ASSUME NEW r \in Rigs, NEW x, New(x.id)
    PROVE  x \notin main[r].stamps /\ (StatusOf(branch[r]) # "none" => x \notin branch[r].stamps)
BY DEF New, IdsIn, StatusOf

LEMMA LookupWhole ==
    ASSUME Known, NEW s \in Sessions, LookupCompletion(s) \/ LookupSubmission(s)
    PROVE  Whole(s)'
<1> DEFINE r == Owner[s]
<1>1. UNCHANGED <<main, branch>> /\ r \in Rigs
  BY DEF LookupCompletion, LookupSubmission, refs
<1>2. CASE GoesOn(s, "answer", << >>)
  BY <1>2, GoesOnWhole
<1>3. ASSUME NEW id \in Nat, NEW x \in Stamp, session[s].op = "accept", x.context = id,
             x.author = r, New(x.id), GoesOn(s, "plan", AcceptCompletionDML(id, x))
      PROVE  Whole(s)'
  <2>1. \A t : x \notin t.stamps => Serves("accept", r, AcceptCompletionDML(id, x), t)
    BY <1>3 DEF Serves
  <2> QED
    BY <1>1, <1>3, <2>1, NewIsUnused, PlanWhole
<1>4. ASSUME NEW id \in Nat, NEW by \in Rigs, session[s].op = "close-upstream",
             GoesOn(s, "plan", CloseUpstreamDML(id, by))
      PROVE  Whole(s)'
  <2>1. \A t : Serves("close-upstream", r, CloseUpstreamDML(id, by), t)
    BY DEF Serves
  <2> QED
    BY <1>1, <1>4, <2>1, PlanWhole
<1>5. ASSUME NEW id \in Nat, NEW by \in Rigs, NEW x \in Stamp, session[s].op = "accept-upstream",
             x.context = id, x.author = r, x.subject = by, New(x.id),
             GoesOn(s, "plan", AcceptUpstreamDML(id, by, x))
      PROVE  Whole(s)'
  <2>1. \A t : x \notin t.stamps => Serves("accept-upstream", r, AcceptUpstreamDML(id, by, x), t)
    BY <1>5 DEF Serves
  <2> QED
    BY <1>1, <1>5, <2>1, NewIsUnused, PlanWhole
<1>6. CASE LookupCompletion(s)
  BY <1>2, <1>3, <1>6, LookupCompletionDoes
<1>7. CASE LookupSubmission(s)
  BY <1>2, <1>4, <1>5, <1>7, LookupSubmissionDoes
<1> QED
  BY <1>6, <1>7

LEMMA ScriptServes ==
    ASSUME Typed, NEW r \in Rigs, NEW op \in SimpleOps, NEW t
    PROVE  Serves(op, r, Script(op, r), t)
<1>1. CASE op = "done"
  <2>1. PICK id, others : others = {} /\ id = NewId(others)
    OBVIOUS
  <2>2. IsFiniteSet(others)
    BY <2>1, FS_EmptySet
  <2>3. id \in Nat
    BY <2>1, <2>2, NewIdIsNew
  <2>4. Script(op, r) = SubmitCompletionDML(id, r)
    BY <1>1, <2>1 DEF Script
  <2> QED
    BY <1>1, <2>3, <2>4 DEF Serves
<1>2. CASE op # "done"
  BY <1>2 DEF SimpleOps, Script, Serves
<1> QED
  BY <1>1, <1>2

(* The plan: the script of the operation, from the branch or from main.        *)
LEMMA PlanServes ==
    ASSUME BoardInv, Dependable, NEW s \in Sessions, Whole(s), Plan(s)
    PROVE  LET r == Owner[s]
               me == session[s] IN
           \E script \in Seq(Statement), from \in {"main", "branch"} :
              /\ Becomes(s, "exec", me.op, me.submitter, script, from)
              /\ from = IF StatusOf(branch[r]) = "none" THEN "main" ELSE "branch"
              /\ Serves(me.op, r, script, main[r])
              /\ from = "branch" => Serves(me.op, r, script, branch[r])
<1> DEFINE r == Owner[s]
           me == session[s]
<1>1. Known /\ Typed /\ r \in Rigs /\ me.pc = "plan" /\ Flow(s) /\ me.script \in Seq(Statement)
  BY DEF BoardInv, Known, Typed, Session, Plan
<1>2. PICK script \in Seq(Statement), from \in From(r) :
        /\ Becomes(s, "exec", me.op, me.submitter, script, from)
        /\ script = IF me.script = << >> THEN Script(me.op, r) ELSE me.script
  BY <1>1, PlanDoes
<1>3. from = IF StatusOf(branch[r]) = "none" THEN "main" ELSE "branch"
  BY <1>1, FromTrue
<1>4. CASE me.script = << >>
  <2>1. me.op \in SimpleOps
    <3>1. Len(me.script) = 0
      BY <1>4
    <3> QED
      BY <1>1, <3>1 DEF Flow, FlowAt
  <2>2. \A t : Serves(me.op, r, script, t)
    BY <1>1, <1>2, <1>4, <2>1, ScriptServes
  <2> QED
    BY <1>2, <1>3, <2>2
<1>5. CASE me.script # << >>
  <2>1. script = me.script
    BY <1>2, <1>5
  <2>2. /\ Serves(me.op, r, script, main[r])
        /\ StatusOf(branch[r]) # "none" => Serves(me.op, r, script, branch[r])
    BY <1>1, <1>5, <2>1 DEF Whole
  <2> QED
    BY <1>2, <1>3, <2>2
<1> QED
  BY <1>4, <1>5

LEMMA StepWhole ==
    ASSUME BoardInv, Dependable, NEW s \in Sessions, Whole(s), Step(s)
    PROVE  Whole(s)'
<1>1. Known /\ Typed
  BY DEF BoardInv, Known
<1>2. CASE Lock(s)
  <2>1. UNCHANGED <<main, branch>>
    BY <1>2 DEF Lock, refs
  <2> QED
    BY <1>1, <1>2, <2>1, LockDoes, PlanWhole, GoesOnWhole
<1>3. CASE Check(s)
  <2>1. AfterCheck(session[s].op) \notin {"plan", "exec"}
    BY DEF AfterCheck
  <2> QED
    BY <1>1, <1>3, <2>1, CheckDoes, GoesOnWhole
<1>4. CASE Shortcut(s)
  BY <1>1, <1>4, ShortcutDoes, GoesOnWhole
<1>5. CASE LookupCompletion(s) \/ LookupSubmission(s)
  BY <1>1, <1>5, LookupWhole
<1>6. CASE Plan(s)
  <2>1. main' = main
    BY <1>6 DEF Plan, refs
  <2> QED
    BY <1>6, <2>1, PlanServes DEF Becomes, Whole
<1>7. CASE Write(s)
  BY <1>1, <1>7, WriteDoes, GoesOnWhole DEF Becomes, Whole
<1>8. CASE Settle(s)
  BY <1>1, <1>8, SettleDoes, GoesOnWhole
<1>9. CASE ClosePR(s)
  BY <1>1, <1>9, ClosePRDoes, GoesOnWhole
<1>10. CASE DropBranch(s)
  BY <1>1, <1>10, DropBranchDoes, GoesOnWhole
<1>11. CASE Clear(s)
  BY <1>1, <1>11, ClearDoes, GoesOnWhole
<1>12. CASE CreatePR(s)
  BY <1>1, <1>12, FinishDoes, GoesOnWhole DEF CreatePR
<1>13. CASE SubmitPR(s) \/ CloseUpstreamPR(s)
  <2>1. PICK answer \in Answers : Say(s, answer)
    <3>1. "kept" \in Answers /\ session[s].answer \in Answers
      BY <1>1 DEF Answers, Typed, Session
    <3> QED
      BY <1>13, <3>1 DEF SubmitPR, CloseUpstreamPR
  <2> QED
    BY <1>1, <2>1, GotoSaid, QuietlyWhole
<1>14. CASE Answer(s)
  BY <1>1, <1>14, AnswerDoes, QuietlyWhole
<1> QED
  BY <1>2, <1>3, <1>4, <1>5, <1>6, <1>7, <1>8, <1>9, <1>10, <1>11, <1>12, <1>13, <1>14 DEF Step

(* The answer that a request is about to give.                                 *)
LEMMA AnswerIs ==
    ASSUME Known, MutexInv, NEW s \in Sessions, NEW new, Goto(s, new)
    PROVE  session'[s].answer = IF "answer" \in DOMAIN new THEN new["answer"] ELSE session[s].answer
<1>1. "answer" \in DOMAIN session[s]
  BY DEF Known, Typed, Session
<1> QED
  BY <1>1, GotoFields DEF MutexInv

LEMMA SayingIs ==
    ASSUME Known, MutexInv, NEW s \in Sessions, NEW answer, Say(s, answer)
    PROVE  session'[s].pc = "answer" /\ session'[s].answer = answer
<1>1. PICK new : Goto(s, new) /\ new = [pc |-> "answer", answer |-> answer, script |-> << >>]
  BY DEF Say
<1>2. "answer" \in DOMAIN new /\ "pc" \in DOMAIN new /\ new["answer"] = answer /\ new["pc"] = "answer"
  BY <1>1
<1>3. "pc" \in DOMAIN session[s]
  BY DEF Known, Typed, Session
<1> QED
  BY <1>1, <1>2, <1>3, AnswerIs, GotoFields DEF MutexInv

LEMMA FinishSays ==
    ASSUME Known, MutexInv, NEW s \in Sessions, Finish(s)
    PROVE  session'[s].pc \in {"retire", "answer"} /\ session'[s].answer = session[s].answer
<1>1. CASE Say(s, session[s].answer)
  BY <1>1, SayingIs
<1>2. CASE Goto(s, [pc |-> "retire", script |-> << >>])
  <2>1. PICK new : Goto(s, new) /\ new = [pc |-> "retire", script |-> << >>]
    BY <1>2
  <2>2. "answer" \notin DOMAIN new
    BY <2>1
  <2>3. session'[s].answer = session[s].answer
    BY <2>1, <2>2, AnswerIs
  <2>4. session'[s].pc \in {"retire", "answer"}
    BY FinishDoes DEF GoesOn, Becomes
  <2> QED
    BY <2>3, <2>4
<1> QED
  BY <1>1, <1>2 DEF Finish

Outcomes == {"kept", "reverted", "discarded"}

LEMMA StepTold ==
    ASSUME BoardInv, Dependable, NEW s \in Sessions, Told(s), Step(s)
    PROVE  Told(s)'
<1>1. Known /\ Typed /\ MutexInv /\ Flow(s)
  BY DEF BoardInv, Known
<1>2. ASSUME session'[s].pc \notin {"close", "drop", "clear", "offer", "retire", "submit"}
      PROVE  Told(s)'
  BY <1>2 DEF Told
<1>3. ASSUME session'[s].pc # "submit", session'[s].answer \in Outcomes
      PROVE  Told(s)'
  BY <1>3 DEF Told, Outcomes
<1>4. ASSUME session'[s].pc # "submit", session'[s].answer = session[s].answer,
             session[s].pc \in {"close", "drop", "clear", "offer", "retire"}
      PROVE  Told(s)'
  BY <1>4 DEF Told
<1>5. ASSUME NEW pc, NEW answer, Goto(s, [pc |-> pc, answer |-> answer])
      PROVE  session'[s].pc = pc /\ session'[s].answer = answer
  <2>1. PICK new : Goto(s, new) /\ new = [pc |-> pc, answer |-> answer]
    BY <1>5
  <2>2. "answer" \in DOMAIN new /\ "pc" \in DOMAIN new /\ new["answer"] = answer /\ new["pc"] = pc
    BY <2>1
  <2>3. "pc" \in DOMAIN session[s]
    BY <1>1 DEF Typed, Session
  <2> QED
    BY <1>1, <2>1, <2>2, <2>3, AnswerIs, GotoFields DEF MutexInv
<1>6. CASE Lock(s)
  <2>1. CASE session[s].pc = "lock" /\ session[s].op = "discard"
    <3>1. Goto(s, [pc |-> "close", answer |-> "discarded"])
      BY <1>6, <2>1 DEF Lock
    <3> QED
      BY <1>3, <1>5, <3>1 DEF Outcomes
  <2>2. CASE ~(session[s].pc = "lock" /\ session[s].op = "discard")
    BY <1>1, <1>2, <1>6, <2>2, LockDoes DEF GoesOn, Becomes
  <2> QED
    BY <2>1, <2>2
<1>7. CASE Check(s)
  <2>1. AfterCheck(session[s].op) \in {"shortcut", "lock", "lookup"}
    BY DEF AfterCheck
  <2> QED
    BY <1>1, <1>2, <1>7, <2>1, CheckDoes DEF GoesOn, Becomes
<1>8. CASE Shortcut(s)
  <2>1. CASE Goto(s, [pc |-> "close", answer |-> "discarded"])
    BY <1>3, <1>5, <2>1 DEF Outcomes
  <2>2. CASE Goto(s, [pc |-> "lock"])
    <3>1. "lock" \in Pcs
      BY DEF Pcs
    <3> QED
      BY <1>1, <1>2, <2>2, <3>1, GotoPc DEF Becomes
  <2> QED
    BY <1>8, <2>1, <2>2 DEF Shortcut
<1>9. CASE LookupCompletion(s) \/ LookupSubmission(s)
  BY <1>1, <1>2, <1>9, LookupCompletionDoes, LookupSubmissionDoes DEF GoesOn, Becomes
<1>10. CASE Plan(s)
  BY <1>1, <1>2, <1>10, PlanDoes DEF Becomes
<1>11. CASE Write(s)
  BY <1>1, <1>2, <1>11, WriteDoes DEF GoesOn, Becomes
<1>12. CASE Settle(s)
  BY <1>3, <1>5, <1>12 DEF Settle, Outcomes
<1>13. CASE ClosePR(s)
  <2>1. PICK new : Goto(s, new) /\ new = [pc |-> "drop"]
    BY <1>13 DEF ClosePR
  <2>2. "answer" \notin DOMAIN new
    BY <2>1
  <2>3. session'[s].answer = session[s].answer
    BY <1>1, <2>1, <2>2, AnswerIs
  <2>4. session[s].pc = "close" /\ session'[s].pc = "drop"
    BY <1>1, <1>13, ClosePRDoes DEF ClosePR, GoesOn, Becomes
  <2> QED
    BY <1>4, <2>3, <2>4
<1>14. CASE DropBranch(s)
  <2>1. session[s].pc = "drop"
    BY <1>14 DEF DropBranch
  <2>2. CASE Finish(s)
    BY <1>1, <1>4, <2>1, <2>2, FinishSays
  <2>3. CASE Goto(s, [pc |-> "clear", script |-> ClearScript])
    <3>1. PICK new : Goto(s, new) /\ new = [pc |-> "clear", script |-> ClearScript]
      BY <2>3
    <3>2. "answer" \notin DOMAIN new /\ "pc" \in DOMAIN new /\ new["pc"] = "clear"
      BY <3>1
    <3>3. "pc" \in DOMAIN session[s]
      BY <1>1 DEF Typed, Session
    <3>4. session'[s].answer = session[s].answer /\ session'[s].pc = "clear"
      BY <1>1, <3>1, <3>2, <3>3, AnswerIs, GotoFields DEF MutexInv
    <3> QED
      BY <1>4, <2>1, <3>4
  <2> QED
    BY <1>14, <2>2, <2>3 DEF DropBranch
<1>15. CASE Clear(s)
  <2>1. session[s].pc = "clear"
    BY <1>15 DEF Clear
  <2>2. CASE Finish(s)
    BY <1>1, <1>4, <2>1, <2>2, FinishSays
  <2>3. CASE Say(s, "error")
    BY <1>1, <1>2, <2>3, SayingIs
  <2>4. CASE Goto(s, [script |-> Tail(session[s].script)])
    <3>1. PICK new : Goto(s, new) /\ new = [script |-> Tail(session[s].script)]
      BY <2>4
    <3>2. "answer" \notin DOMAIN new /\ "pc" \notin DOMAIN new
      BY <3>1
    <3>3. "pc" \in DOMAIN session[s]
      BY <1>1 DEF Typed, Session
    <3>4. session'[s].answer = session[s].answer /\ session'[s].pc = "clear"
      BY <1>1, <2>1, <3>1, <3>2, <3>3, AnswerIs, GotoFields DEF MutexInv
    <3> QED
      BY <1>4, <2>1, <3>4
  <2> QED
    BY <1>15, <2>2, <2>3, <2>4 DEF Clear
<1>16. CASE CreatePR(s)
  BY <1>1, <1>4, <1>16, FinishSays DEF CreatePR
<1>17. CASE SubmitPR(s) \/ CloseUpstreamPR(s)
  BY <1>1, <1>2, <1>17, SayingIs DEF SubmitPR, CloseUpstreamPR
<1>18. CASE Answer(s)
  BY <1>1, <1>2, <1>18, AnswerDoes DEF Becomes
<1> QED
  BY <1>6, <1>7, <1>8, <1>9, <1>10, <1>11, <1>12, <1>13, <1>14, <1>15, <1>16, <1>17, <1>18
  DEF Step

PromiseInv ==
    /\ BoardInv /\ LateInv /\ Own
    /\ \A s \in Sessions : Whole(s) /\ Told(s)

LEMMA PromiseKept == ASSUME PromiseInv, Dependable, [Next]_vars PROVE PromiseInv'
<1>1. /\ BoardInv /\ LateInv /\ Known /\ MutexInv /\ main' = main
      /\ BoardInv' /\ LateInv'
  BY BoardStep, LateStep, ForksStay DEF PromiseInv, BoardInv
<1>2. ASSUME NEW t \in Sessions, session'[t] = session[t], branch'[Owner[t]] = branch[Owner[t]]
      PROVE  Whole(t)' /\ Told(t)'
  BY <1>1, <1>2 DEF PromiseInv, Whole, Told
<1>3. ASSUME UNCHANGED <<branch, session, mutex>> PROVE PromiseInv'
  BY <1>1, <1>2, <1>3 DEF PromiseInv, Own
<1>4. ASSUME NEW s \in Sessions, NEW op \in Ops, NEW q \in Submitters(op), Begin(s, op, q)
      PROVE  PromiseInv'
  <2>1. PICK pc \in {"check", "enter", "submit", "lock"} :
           /\ Becomes(s, pc, op, q, << >>, session[s].from)
           /\ pc = "submit" => op = "submit-pr"
    BY <1>1, <1>4, BeginDoes
  <2>2. Whole(s)' /\ Told(s)' /\ \A t \in Sessions \ {s} : session'[t] = session[t]
    BY <2>1, QuietlyWhole DEF Becomes, Told
  <2>3. UNCHANGED branch /\ Own'
    BY <1>4 DEF Begin, refs, Own, PromiseInv
  <2> QED
    BY <1>1, <1>2, <2>2, <2>3 DEF PromiseInv
<1>5. ASSUME NEW s \in Sessions, Step(s) PROVE PromiseInv'
  <2>1. Whole(s)' /\ Told(s)' /\ Own' /\ \A t \in Sessions \ {s} : session'[t] = session[t]
    BY <1>1, <1>5, StepWhole, StepTold, OwnStays, OthersStay DEF PromiseInv
  <2>2. ASSUME NEW t \in Sessions \ {s} PROVE Whole(t)' /\ Told(t)'
    <3>1. CASE branch'[Owner[t]] = branch[Owner[t]]
      BY <1>2, <2>1, <3>1
    <3>2. CASE branch'[Owner[t]] # branch[Owner[t]]
      <4>1. Owner[t] = Owner[s] /\ session[s].pc \in {"exec", "drop", "clear"}
        BY <1>1, <1>5, <3>2, OwnBranch
      <4>2. ~Working(t)
        BY <1>1, <4>1, Apart DEF Working
      <4>3. session'[t].pc \notin {"plan", "exec"} /\ session'[t] = session[t] /\ Told(t)
        BY <2>1, <4>2 DEF Working, PromiseInv
      <4> QED
        BY <4>3 DEF Whole, Told
    <3> QED
      BY <3>1, <3>2
  <2> QED
    BY <1>1, <2>1, <2>2 DEF PromiseInv
<1>6. ASSUME NEW r \in Rigs, MergePR(r) \/ RefreshListing(r) PROVE PromiseInv'
  BY <1>3, <1>6 DEF MergePR, RefreshListing
<1> QED
  BY <1>3, <1>4, <1>5, <1>6 DEF Next, vars

LEMMA PromiseFirst == ASSUME Init, Begun PROVE PromiseInv
<1>1. BoardInv
  BY BoardFirst
<1>2. LateInv
  BY DEF Init, RefsInit, LateInv, Steered, Sleeping, LateOK, Gone
<1>3. Own
  BY DEF Init, RefsInit, Own
<1>4. ASSUME NEW s \in Sessions PROVE Whole(s) /\ Told(s)
  BY DEF Init, Sleeping, Whole, Told
<1> QED
  BY <1>1, <1>2, <1>3, <1>4 DEF PromiseInv

-----------------------------------------------------------------------------
(* A request that has its operation, and nothing of it done.                   *)
Waiting(me) ==
    \/ me.pc \in {"check", "enter", "shortcut", "lookup", "lock", "plan", "submit"}
    \/ me.pc = "exec" /\ me.from = "main"

LEMMA WaitingIs ==
    ASSUME NEW me, Waiting(me), NEW there
    PROVE  Plain(me) /\ Standing(me, there) = me.op
BY DEF Waiting, Plain, Standing

Implements == Promise!Next \/ UNCHANGED Promise!vars

LEMMA Acts ==
    ASSUME NEW s \in Sessions,
           \/ Promise!Ask(s) \/ Promise!Change(s) \/ Promise!Discard(s) \/ Promise!Offer(s)
           \/ Promise!Lost(s) \/ Promise!Refuse(s) \/ Promise!Answer(s)
    PROVE  Implements
<1> DEFINE all == [t \in Sessions |-> Request(t)]
<1> HIDE DEF Request, Proposal
<1>1. ASSUME NEW state, Promise!Becomes(s, state) PROVE all'[s] = state
  BY <1>1 DEF Promise!Becomes
<1>2. \E state : Promise!Becomes(s, state) /\ state # all[s]
  <2>1. {"none", "made", "refused"} \cap Promise!Operations = {}
    BY DEF Promise!Operations, Promise!Changes, Promise!Adoptions
  <2>2. Promise!Changes \cup Promise!Adoptions \cup {"discard", "delete", "submit-pr"} \subseteq Promise!Operations
    BY DEF Promise!Operations, Promise!Changes
  <2>3. CASE Promise!Ask(s)
    BY <2>1, <2>3 DEF Promise!Ask
  <2>4. CASE Promise!Change(s) \/ Promise!Discard(s) \/ Promise!Offer(s) \/ Promise!Lost(s)
    <3>1. Promise!Becomes(s, "made") /\ all[s] \in Promise!Operations
      BY <2>2, <2>4 DEF Promise!Change, Promise!Discard, Promise!Offer, Promise!Lost
    <3> QED
      BY <2>1, <3>1
  <2>5. CASE Promise!Refuse(s) \/ Promise!Answer(s)
    BY <2>1, <2>5 DEF Promise!Refuse, Promise!Answer
  <2> QED
    BY <2>3, <2>4, <2>5
<1>3. all'[s] # all[s]
  BY <1>1, <1>2
<1> HIDE DEF Promise!Ask, Promise!Change, Promise!Discard, Promise!Offer, Promise!Lost,
             Promise!Refuse, Promise!Answer
<1> QED
  BY <1>3 DEF Implements, Promise!Next

LEMMA StillWaiting ==
    ASSUME PromiseInv, Dependable, NEW s \in Sessions, Step(s), UNCHANGED branch,
           Waiting(session[s]), Waiting(session'[s]), session'[s].op = session[s].op
    PROVE  Implements
<1>1. Beside(s)
  BY StepBeside DEF PromiseInv
<1>2. Request(s)' = Request(s)
  BY WaitingIs, RequestIs, RequestWillBe
<1>3. Proposal(Owner[s])' = Proposal(Owner[s])
  BY WaitingIs, PlainProposal DEF PromiseInv
<1> QED
  BY <1>1, <1>2, <1>3, Stutters DEF Implements

LEMMA IsRefused ==
    ASSUME PromiseInv, Dependable, NEW s \in Sessions, Step(s), UNCHANGED branch,
           Waiting(session[s]), NEW answer \in {"error", "unchanged"}, Say(s, answer)
    PROVE  Implements
<1>1. Beside(s) /\ Known /\ MutexInv /\ session[s].op \in Operations
  BY StepBeside DEF PromiseInv, BoardInv, Known, Typed, Session
<1>2. session'[s].pc = "answer" /\ session'[s].answer = answer
  BY <1>1, SayingIs
<1>3. Plain(session'[s]) /\ Request(s)' = "refused"
  BY <1>2, RequestWillBe DEF Plain, Standing
<1>4. Request(s) \in Operations
  BY <1>1, WaitingIs, RequestIs
<1>5. Proposal(Owner[s])' = Proposal(Owner[s])
  BY <1>3, WaitingIs, PlainProposal DEF PromiseInv
<1> QED
  BY <1>1, <1>3, <1>4, <1>5, Refuses, Acts

(* A request that holds the mutex and is on its way to drop the branch.        *)
LEMMA IsDiscarded ==
    ASSUME PromiseInv, Dependable, NEW s \in Sessions, Step(s), Waiting(session[s]),
           mutex'[Owner[s]] = s, session'[s].pc = "close",
           \/ session[s].op = "discard"
           \/ session[s].op = "delete" /\ main[Owner[s]].status = "none"
    PROVE  Implements
<1>1. Beside(s)
  BY StepBeside DEF PromiseInv
<1>2. Request(s) = session[s].op
  BY WaitingIs, RequestIs
<1>3. Request(s)' = "made"
  BY RequestWillBe DEF Standing
<1>4. Proposal(Owner[s])' = NoBranch
  BY ProposalWillBe DEF Hand, Outlook
<1> QED
  BY <1>1, <1>2, <1>3, <1>4, Discards, Acts

LEMMA LockImplements ==
    ASSUME PromiseInv, Dependable, NEW s \in Sessions, Lock(s)
    PROVE  Implements
<1>1. Step(s) /\ Known /\ Waiting(session[s]) /\ UNCHANGED branch
  BY DEF PromiseInv, BoardInv, Step, Lock, Waiting, refs
<1>2. CASE session[s].op = "discard" /\ GoesOn(s, "close", << >>)
  <2>1. mutex'[Owner[s]] = s
    BY DEF Lock, PromiseInv, BoardInv, MutexInv, Shaped
  <2> QED
    BY <1>1, <1>2, <2>1, IsDiscarded DEF GoesOn, Becomes
<1>3. CASE GoesOn(s, "check", << >>) \/ GoesOn(s, "plan", << >>)
  BY <1>1, <1>3, StillWaiting DEF GoesOn, Becomes, Waiting
<1> QED
  BY <1>1, <1>2, <1>3, LockDoes

LEMMA CheckImplements ==
    ASSUME PromiseInv, Dependable, NEW s \in Sessions, Check(s)
    PROVE  Implements
<1>1. Step(s) /\ Known /\ Typed /\ Waiting(session[s]) /\ UNCHANGED branch
  BY DEF PromiseInv, BoardInv, Known, Step, Check, Waiting, refs
<1>2. CASE Say(s, "unchanged")
  BY <1>1, <1>2, IsRefused
<1>3. CASE Goto(s, [pc |-> AfterCheck(session[s].op)])
  <2>1. PICK pc : pc = AfterCheck(session[s].op)
    OBVIOUS
  <2>2. pc \in {"shortcut", "lock", "lookup"} /\ pc \in Pcs
    BY <2>1 DEF AfterCheck, Pcs
  <2>3. session'[s].pc = pc /\ session'[s].op = session[s].op
    BY <1>1, <1>3, <2>1, <2>2, GotoPc DEF Becomes
  <2> QED
    BY <1>1, <2>2, <2>3, StillWaiting DEF Waiting
<1> QED
  BY <1>2, <1>3 DEF Check

LEMMA ShortcutImplements ==
    ASSUME PromiseInv, Dependable, NEW s \in Sessions, Shortcut(s)
    PROVE  Implements
<1> DEFINE r == Owner[s]
<1>1. Step(s) /\ Known /\ Typed /\ MutexInv /\ Waiting(session[s]) /\ UNCHANGED branch /\ r \in Rigs
  BY DEF PromiseInv, BoardInv, Known, Step, Shortcut, Waiting, refs
<1>2. PICK onMain \in Read(main[r]) :
        IF onMain = "none"
        THEN Goto(s, [pc |-> "close", answer |-> "discarded"]) /\ UNCHANGED mutex
        ELSE Goto(s, [pc |-> "lock"])
  BY DEF Shortcut
<1>3. {"close", "lock"} \subseteq Pcs /\ "discarded" \in Answers
  BY DEF Pcs, Answers
<1>4. CASE onMain = "none"
  <2>1. session[s].op = "delete" /\ mutex'[r] = s
    BY <1>1, <1>2, <1>4 DEF Shortcut, MutexInv, Held, Working, CheckedUnderLock
  <2>2. session'[s].pc = "close"
    BY <1>1, <1>2, <1>3, <1>4, GotoAnswer DEF Becomes
  <2>3. main[r].status = "none"
    <3>1. StatusOf(main[r]) = "none" /\ main[r] # NoBranch
      BY <1>1, <1>2, <1>4, ReadsTrue DEF Typed, RefsTyped
    <3> QED
      BY <3>1 DEF StatusOf
  <2> QED
    BY <1>1, <2>1, <2>2, <2>3, IsDiscarded
<1>5. CASE onMain # "none"
  <2>1. session'[s].pc = "lock" /\ session'[s].op = session[s].op
    BY <1>1, <1>2, <1>3, <1>5, GotoPc DEF Becomes
  <2> QED
    BY <1>1, <2>1, StillWaiting DEF Waiting
<1> QED
  BY <1>4, <1>5

LEMMA LookupImplements ==
    ASSUME PromiseInv, Dependable, NEW s \in Sessions, LookupCompletion(s) \/ LookupSubmission(s)
    PROVE  Implements
<1>1. Step(s) /\ Known /\ MutexInv /\ Waiting(session[s]) /\ UNCHANGED branch
  BY DEF PromiseInv, BoardInv, Step, LookupCompletion, LookupSubmission, Waiting, refs
<1>2. CASE Say(s, "error")
  BY <1>1, <1>2, IsRefused
<1>3. CASE \E script : Goto(s, [pc |-> "plan", script |-> script])
  <2>1. PICK new, script : Goto(s, new) /\ new = [pc |-> "plan", script |-> script]
    BY <1>3
  <2>2. "pc" \in DOMAIN new /\ new["pc"] = "plan"
    BY <2>1
  <2>3. "pc" \in DOMAIN session[s]
    BY <1>1 DEF Known, Typed, Session
  <2>4. session'[s].pc = "plan"
    BY <1>1, <2>1, <2>2, <2>3, GotoFields DEF MutexInv
  <2>5. session'[s].op = session[s].op
    BY <1>1, LookupCompletionDoes, LookupSubmissionDoes DEF GoesOn, Becomes
  <2> QED
    BY <1>1, <2>4, <2>5, StillWaiting DEF Waiting
<1> QED
  BY <1>2, <1>3 DEF LookupCompletion, LookupSubmission

LEMMA PlanImplements ==
    ASSUME PromiseInv, Dependable, NEW s \in Sessions, Plan(s)
    PROVE  Implements
<1> DEFINE r == Owner[s]
           op == session[s].op
<1>1. /\ Step(s) /\ BoardInv /\ Known /\ ForksOK /\ MutexInv /\ Whole(s) /\ r \in Rigs
      /\ Waiting(session[s]) /\ session[s].pc = "plan" /\ UNCHANGED <<main, branch, mutex>>
  BY DEF PromiseInv, BoardInv, Step, Plan, Waiting, refs
<1>2. PICK script \in Seq(Statement), from \in {"main", "branch"} :
        /\ Becomes(s, "exec", op, session[s].submitter, script, from)
        /\ from = IF StatusOf(branch[r]) = "none" THEN "main" ELSE "branch"
        /\ from = "branch" => Serves(op, r, script, branch[r])
  BY <1>1, PlanServes
<1>3. /\ session'[s].pc = "exec" /\ session'[s].from = from /\ session'[s].script = script
      /\ session'[s].op = op
  BY <1>2 DEF Becomes
<1>4. CASE from = "main"
  BY <1>1, <1>3, <1>4, StillWaiting DEF Waiting
<1>5. CASE from = "branch"
  <2>1. StatusOf(branch[r]) # "none" /\ branch[r] # NoBranch /\ Serves(op, r, script, branch[r])
    BY <1>2, <1>5 DEF StatusOf
  <2>2. mutex[r] = s /\ Resting(r)
    <3>1. Working(s) /\ ~Busy(s)
      BY <1>1 DEF Working, Busy
    <3> QED
      BY <1>1, <3>1, OnlyRests DEF MutexInv, Held
  <2>3. branch[r] \in Tables /\ Clean(branch[r], Early(r))
    BY <1>1, <2>1, <2>2, TipsClean
  <2>4. PICK u : u = Run(script, branch[r])
    OBVIOUS
  <2>5. Does(op, r, branch[r], u)
    BY <1>1, <2>1, <2>3, <2>4, ScriptDoes
  <2>6. u # NoBranch /\ StatusOf(u) = u.status
    BY <2>5 DEF Does, StatusOf
  <2>7. Proposal(r) = branch[r]
    BY <1>1, <2>1, <2>2, WaitingIs, PlainOutlook, ProposalIs DEF Hand
  <2>8. Proposal(r)' = IF u.status \in {"none", main[r].status} THEN NoBranch ELSE u
    <3>1. Hand(r)' = session'[s]
      BY <1>1, <2>2 DEF Hand
    <3> QED
      BY <1>1, <1>3, <1>5, <2>1, <2>4, <2>6, <3>1, ProposalWillBe DEF Outlook
  <2>9. Request(s) = op /\ Request(s)' = "made"
    BY <1>1, <1>3, <1>5, <2>1, WaitingIs, RequestIs, RequestWillBe DEF Standing
  <2>10. op \in Promise!Changes
    BY <2>1 DEF Serves, Promise!Changes, Promise!Adoptions
  <2>11. Beside(s)
    BY <1>1, StepBeside DEF PromiseInv
  <2>12. Promise!Change(s)
    BY <2>1, <2>5, <2>7, <2>8, <2>9, <2>10, <2>11, Changes DEF Makes
  <2> QED
    BY <2>12, Acts
<1> QED
  BY <1>4, <1>5

-----------------------------------------------------------------------------
(* A request at work holds the mutex of its rig.                               *)
LEMMA InHand ==
    ASSUME PromiseInv, NEW s \in Sessions, Working(s)
    PROVE  /\ mutex[Owner[s]] = s
           /\ Proposal(Owner[s]) = Outlook(branch[Owner[s]], main[Owner[s]], session[s])
<1>1. mutex[Owner[s]] = s
  BY DEF PromiseInv, BoardInv, MutexInv, Held
<1>2. Hand(Owner[s]) = session[s]
  BY <1>1 DEF Hand
<1> QED
  BY <1>1, <1>2, ProposalIs

LEMMA StaysInHand ==
    ASSUME PromiseInv, Dependable, NEW s \in Sessions, Step(s), Working(s), UNCHANGED mutex
    PROVE  Proposal(Owner[s])' = Outlook(branch'[Owner[s]], main[Owner[s]], session'[s])
<1>1. mutex'[Owner[s]] = s /\ main' = main
  BY InHand, ForksStay DEF Next
<1>2. Hand(Owner[s])' = session'[s]
  BY <1>1 DEF Hand
<1> QED
  BY <1>1, <1>2, ProposalWillBe

-----------------------------------------------------------------------------
(* A statement that is written to a branch that has the item, or had it, is    *)
(* part of what the request already counts as made.                            *)
LEMMA FurtherStatement ==
    ASSUME Known, Dependable, NEW s \in Sessions, NEW script \in Seq(Statement), Len(script) \in 1 .. 5,
           NEW r \in Rigs, Leads(r, script, "branch"), Written(r, "branch", Head(script)),
           NEW me, me.pc = "exec", me.from = "branch", me.script = script,
           NEW new, new.pc = "settle" \/ (new.pc = "exec" /\ new.from = "branch"),
           new.script = Tail(script)
    PROVE  /\ branch[r] # NoBranch /\ branch'[r] # NoBranch
           /\ Outlook(branch'[r], main[r], new) = Outlook(branch[r], main[r], me)
<1> DEFINE b == branch[r]
           u == branch'[r]
<1>1. PICK h, rest, v : h = Head(script) /\ rest = Tail(script) /\ v = Run(script, b)
  OBVIOUS
<1>2. b \in Tables /\ u = Apply(h, b)
  BY <1>1 DEF Written, Source
<1>3. h \in Statement /\ rest \in Seq(Statement)
  BY <1>1, HeadTail
<1>4. u \in Tables /\ b # NoBranch /\ u # NoBranch
  BY <1>2, <1>3, ApplyTyped
<1>5. v = Run(rest, u)
  BY <1>1, <1>2, RunTail
<1>6. StatusOf(b) = b.status /\ StatusOf(u) = u.status
  BY <1>4 DEF StatusOf
<1>7. b.status = "none" => u.status = "none"
  <2>1. b.status = "none" => (h.into = "wanted" => "none" \notin h.where)
    BY <1>1, <1>4 DEF Leads, Dull
  <2> QED
    BY <1>2, <1>3, <2>1, DullStep
<1>8. u.status = "none" => v.status = "none"
  BY <1>1, <1>3, <1>4, <1>5, DullResult DEF Leads
<1> HIDE DEF b, u
<1>9. Outlook(b, main[r], me) = IF b.status = "none" \/ v = NoBranch \/ StatusOf(v) \in {"none", main[r].status}
                                THEN NoBranch ELSE v
  BY <1>1, <1>6 DEF Outlook
<1>10. Outlook(u, main[r], new) = IF u.status = "none" \/ v = NoBranch \/ StatusOf(v) \in {"none", main[r].status}
                                  THEN NoBranch ELSE v
  BY <1>1, <1>5, <1>6 DEF Outlook
<1>11. v.status = "none" => v = NoBranch \/ StatusOf(v) = "none"
  BY DEF StatusOf
<1> QED
  BY <1>4, <1>7, <1>8, <1>9, <1>10, <1>11 DEF b, u

(* The first statement, written from main to a branch that has not the item.   *)
LEMMA FirstStatement ==
    ASSUME PromiseInv, Dependable, NEW s \in Sessions, Beside(s), NEW r \in Rigs, r = Owner[s],
           NEW script \in Seq(Statement), Len(script) \in 1 .. 5, NEW op,
           Leads(r, script, "main"), Serves(op, r, script, main[r]),
           Written(r, "main", Head(script)), Request(s) = op, Proposal(r) = NoBranch,
           NEW new, new.pc = "settle" \/ (new.pc = "exec" /\ new.from = "branch"),
           new.script = Tail(script), new.op = op,
           Request(s)' = Standing(new, branch'[r] # NoBranch),
           Proposal(r)' = Outlook(branch'[r], main[r], new)
    PROVE  Implements
<1> DEFINE m == main[r]
<1>1. PICK h, rest, v : h = Head(script) /\ rest = Tail(script) /\ v = Run(script, m)
  OBVIOUS
<1>2. /\ Known /\ m \in Tables /\ Clean(m, Early(r)) /\ StatusOf(branch[r]) = "none" /\ Dull(rest)
      /\ h \in Statement /\ rest \in Seq(Statement)
  BY <1>1, TipsClean, HeadTail DEF PromiseInv, BoardInv, Leads
<1>3. branch'[r] = Apply(h, m) \/ (Apply(h, m) = m /\ branch'[r] = branch[r])
  BY <1>1 DEF Written, Source
<1>4. Does(op, r, m, v) /\ v \in Tables /\ v # NoBranch /\ StatusOf(v) = v.status
  <2>1. Does(op, r, m, v)
    BY <1>1, <1>2, ScriptDoes
  <2> QED
    BY <2>1 DEF Does, StatusOf
<1>5. op \in Promise!Changes
  BY DEF Serves, Promise!Changes, Promise!Adoptions
<1>6. Request(s)' = IF new.pc = "settle" \/ branch'[r] # NoBranch THEN "made" ELSE op
  BY DEF Standing
<1>7. CASE branch'[r] = Apply(h, m)
  <2>1. PICK u : u = Apply(h, m)
    OBVIOUS
  <2>2. u \in Tables /\ u # NoBranch /\ StatusOf(u) = u.status /\ v = Run(rest, u)
    <3>1. u \in Tables
      BY <1>2, <2>1, ApplyTyped
    <3> QED
      BY <1>1, <2>1, <3>1, RunTail DEF StatusOf
  <2>3. u.status = "none" => v.status = "none"
    BY <1>2, <2>2, DullResult
  <2>4. Proposal(r)' = IF v.status \in {"none", m.status} THEN NoBranch ELSE v
    BY <1>1, <1>4, <1>7, <2>1, <2>2, <2>3 DEF Outlook
  <2>5. Request(s)' = "made"
    BY <1>6, <1>7, <2>1, <2>2
  <2>6. Makes(s, op, m)
    BY <1>4, <2>4 DEF Makes
  <2> QED
    BY <1>5, <2>5, <2>6, Changes, Acts
<1>8. CASE Apply(h, m) = m /\ branch'[r] = branch[r]
  <2>1. Proposal(r)' = NoBranch
    BY <1>2, <1>8 DEF Outlook
  <2>2. CASE Request(s)' = op
    BY <2>1, <2>2, Stutters DEF Implements
  <2>3. CASE Request(s)' = "made"
    <3>1. CASE Promise!After(op, r, m) = m.status
      <4>1. v.status = m.status
        BY <1>4, <3>1 DEF Does
      <4>2. Makes(s, op, m)
        BY <1>4, <2>1, <4>1 DEF Makes
      <4> QED
        BY <1>5, <2>3, <4>2, Changes, Acts
    <3>2. CASE op \in Promise!Adoptions /\ m.completions = {}
      BY <2>1, <2>3, <3>2, Loses, Acts
    <3>3. Promise!After(op, r, m) = m.status \/ (op \in Promise!Adoptions /\ m.completions = {})
      BY <1>1, <1>2, <1>8, NullDoes
    <3> QED
      BY <3>1, <3>2, <3>3
  <2> QED
    BY <1>6, <2>2, <2>3
<1> QED
  BY <1>3, <1>7, <1>8

LEMMA WriteImplements ==
    ASSUME PromiseInv, Dependable, NEW s \in Sessions, Write(s)
    PROVE  Implements
<1> DEFINE r == Owner[s]
<1>1. /\ Step(s) /\ BoardInv /\ Known /\ MutexInv /\ r \in Rigs /\ session[s] \in Session
      /\ session[s].pc = "exec" /\ Working(s) /\ UNCHANGED mutex
      /\ Leads(r, session[s].script, session[s].from) /\ Whole(s)
  BY DEF PromiseInv, BoardInv, Known, Typed, Step, Write, Sound, Working
<1>2. Beside(s)
  BY <1>1, StepBeside DEF PromiseInv
<1>3. PICK script, from, op, q : /\ script = session[s].script /\ from = session[s].from
                                 /\ op = session[s].op /\ q = session[s].submitter
  OBVIOUS
<1>4. script \in Seq(Statement) /\ from \in {"main", "branch"} /\ Leads(r, script, from) /\ op \in Operations
  BY <1>1, <1>3 DEF Session
<1>5. /\ Len(script) \in 1 .. 5
      /\ \/ /\ Written(r, from, Head(script))
            /\ \E pc \in {"settle", "exec"} : Becomes(s, pc, op, q, Tail(script), "branch")
         \/ Unwritten(r, from, Head(script)) /\ GoesOn(s, "answer", << >>)
  BY <1>1, <1>3, WriteDoes
<1>6. /\ Proposal(r) = Outlook(branch[r], main[r], session[s])
      /\ Proposal(r)' = Outlook(branch'[r], main[r], session'[s])
  BY <1>1, InHand, StaysInHand
<1>7. Request(s)' = Standing(session'[s], branch'[r] # NoBranch)
  BY RequestWillBe
<1>8. Request(s) = IF from = "branch" /\ branch[r] # NoBranch THEN "made" ELSE op
  BY <1>1, <1>3, RequestIs DEF Standing
<1>9. CASE /\ Written(r, from, Head(script))
           /\ \E pc \in {"settle", "exec"} : Becomes(s, pc, op, q, Tail(script), "branch")
  <2>1. PICK new : new = session'[s]
    OBVIOUS
  <2>2. /\ new.pc \in {"settle", "exec"} /\ new.from = "branch" /\ new.script = Tail(script)
        /\ new.op = op
    BY <1>9, <2>1 DEF Becomes
  <2>3. CASE from = "branch"
    <3>1. PICK me : me = session[s]
      OBVIOUS
    <3>2. me.pc = "exec" /\ me.from = "branch" /\ me.script = script
      BY <1>1, <1>3, <2>3, <3>1
    <3>3. /\ branch[r] # NoBranch /\ branch'[r] # NoBranch
          /\ Outlook(branch'[r], main[r], new) = Outlook(branch[r], main[r], me)
      BY <1>1, <1>4, <1>5, <1>9, <2>2, <2>3, <3>2, FurtherStatement
    <3>4. Request(s) = "made" /\ Request(s)' = "made"
      BY <1>7, <1>8, <2>1, <2>2, <2>3, <3>3 DEF Standing
    <3> QED
      BY <1>2, <1>6, <2>1, <3>1, <3>3, <3>4, Stutters DEF Implements
  <2>4. CASE from = "main"
    <3>1. Serves(op, r, script, main[r])
      BY <1>1, <1>3, <2>4 DEF Whole
    <3>2. Proposal(r) = NoBranch
      BY <1>4, <1>6, <2>4 DEF Leads, Outlook
    <3>3. Request(s) = op
      BY <1>8, <2>4
    <3>4. Leads(r, script, "main") /\ Written(r, "main", Head(script))
      BY <1>4, <1>9, <2>4
    <3>5. /\ new.pc = "settle" \/ (new.pc = "exec" /\ new.from = "branch")
          /\ new.script = Tail(script) /\ new.op = op
      BY <2>2
    <3>6. /\ Request(s)' = Standing(new, branch'[r] # NoBranch)
          /\ Proposal(r)' = Outlook(branch'[r], main[r], new)
      BY <1>6, <1>7, <2>1
    <3>7. r \in Rigs /\ script \in Seq(Statement) /\ Len(script) \in 1 .. 5
      BY <1>1, <1>4, <1>5
    <3> HIDE DEF r
    <3> QED
      BY <1>2, <3>1, <3>2, <3>3, <3>4, <3>5, <3>6, <3>7, FirstStatement DEF r
  <2> QED
    BY <1>4, <2>3, <2>4
<1>10. CASE Unwritten(r, from, Head(script))
  <2>1. from = "branch" /\ branch[r] = NoBranch /\ UNCHANGED branch
    BY <1>10 DEF Unwritten, Dependable
  <2>2. Say(s, "error")
    <3>1. ~ WriteOk(r, from, Head(script))
      <4>1. Head(script) \in Statement
        BY <1>4, <1>5, HeadTail
      <4>2. ~ Written(r, from, Head(script))
        BY <2>1 DEF Written, Source
      <4> QED
        BY <1>1, <1>4, <4>1, <4>2, WriteOkDoes DEF Known, Typed
    <3> QED
      BY <1>3, <3>1 DEF Write
  <2>3. session'[s].pc = "answer" /\ session'[s].answer = "error"
    BY <1>1, <2>2, SayingIs
  <2>4. Request(s) \in Operations /\ Request(s)' = "refused"
    BY <1>4, <1>7, <1>8, <2>1, <2>3 DEF Standing
  <2>5. Proposal(r)' = Proposal(r)
    BY <1>6, <2>1 DEF Outlook, StatusOf
  <2> QED
    BY <1>2, <2>4, <2>5, Refuses, Acts
<1> QED
  BY <1>5, <1>9, <1>10

-----------------------------------------------------------------------------
(* A request that has been made stays so while the branch comes to the same.   *)
LEMMA StaysMade ==
    ASSUME PromiseInv, Dependable, NEW s \in Sessions, Step(s),
           session[s].pc \in {"settle", "close", "drop", "clear", "offer", "retire"},
           \/ session'[s].pc \in {"settle", "close", "drop", "clear", "offer", "retire"}
           \/ session'[s].pc = "answer" /\ session'[s].answer \in Outcomes,
           Proposal(Owner[s])' = Proposal(Owner[s])
    PROVE  Implements
<1>1. Beside(s)
  BY StepBeside DEF PromiseInv
<1>2. Request(s) = "made"
  BY RequestIs DEF Standing
<1>3. Request(s)' = "made"
  BY RequestWillBe DEF Standing, Outcomes
<1> QED
  BY <1>1, <1>2, <1>3, Stutters DEF Implements

LEMMA SettleImplements ==
    ASSUME PromiseInv, Dependable, NEW s \in Sessions, Settle(s)
    PROVE  Implements
<1> DEFINE r == Owner[s]
           b == branch[r]
           m == main[r]
<1>1. /\ Step(s) /\ Known /\ Typed /\ r \in Rigs /\ session[s].pc = "settle" /\ Working(s)
      /\ session[s].script = << >> /\ session[s].mainStatus = m.status
      /\ UNCHANGED <<branch, mutex>>
  BY DEF PromiseInv, BoardInv, LateInv, Steered, Known, Flow, FlowAt, Step, Settle, refs, Working
<1>2. Proposal(r) = Outlook(b, m, session[s]) /\ Proposal(r)' = Outlook(b, m, session'[s])
  BY <1>1, InHand, StaysInHand
<1>3. PICK status \in Seen(r) :
        IF status # "none" /\ status = session[s].mainStatus
        THEN Goto(s, [pc |-> "close", answer |-> "reverted"])
        ELSE Goto(s, [pc |-> "offer", answer |-> "kept"])
  BY DEF Settle
<1>4. StatusOf(b) # "none" => status = StatusOf(b)
  <2>1. Read(b) = {StatusOf(b)}
    BY ReadsTrue
  <2>2. StatusOf(b) # "none" => Seen(r) = UNION {{StatusOf(b)}}
    BY <2>1 DEF Seen
  <2> QED
    BY <1>3, <2>2
<1>5. session'[s].pc = IF status # "none" /\ status = m.status THEN "close" ELSE "offer"
  <2>1. {"close", "offer"} \subseteq Pcs /\ {"reverted", "kept"} \subseteq Answers
    BY DEF Pcs, Answers
  <2> QED
    BY <1>1, <1>3, <2>1, GotoAnswer DEF Becomes
<1>6. Proposal(r) = IF StatusOf(b) \in {"none", m.status} THEN NoBranch ELSE b
  <2>1. Run(session[s].script, b) = b
    BY <1>1, RunNone
  <2>2. b = NoBranch => StatusOf(b) = "none"
    BY DEF StatusOf
  <2> QED
    BY <1>1, <1>2, <2>1, <2>2 DEF Outlook
<1>7. CASE StatusOf(b) = "none"
  <2>1. Proposal(r) = NoBranch /\ Proposal(r)' = NoBranch
    BY <1>2, <1>6, <1>7 DEF Outlook
  <2> QED
    BY <1>1, <1>5, <2>1, StaysMade
<1>8. CASE StatusOf(b) # "none"
  <2>1. Proposal(r)' = IF status = m.status THEN NoBranch ELSE b
    BY <1>2, <1>4, <1>5, <1>8 DEF Outlook
  <2>2. Proposal(r)' = Proposal(r)
    BY <1>4, <1>6, <1>8, <2>1
  <2> QED
    BY <1>1, <1>5, <2>2, StaysMade
<1> QED
  BY <1>7, <1>8

(* The cleanup: there is no proposal before it and none after it.              *)
LEMMA CleanupImplements ==
    ASSUME PromiseInv, Dependable, NEW s \in Sessions, ClosePR(s) \/ DropBranch(s) \/ Clear(s)
    PROVE  Implements
<1> DEFINE r == Owner[s]
<1>1. /\ Step(s) /\ Known /\ MutexInv /\ r \in Rigs /\ Working(s) /\ UNCHANGED mutex
      /\ session[s].pc \in {"close", "drop", "clear"} /\ session[s].answer \in Outcomes
  BY DEF PromiseInv, BoardInv, Told, Outcomes, Step, ClosePR, DropBranch, Clear, Working
<1>2. Proposal(r) = NoBranch /\ Proposal(r)' = Outlook(branch'[r], main[r], session'[s])
  BY <1>1, InHand, StaysInHand DEF Outlook
<1>3. ASSUME session'[s].pc \in {"drop", "clear"} PROVE Implements
  <2>1. Proposal(r)' = NoBranch
    BY <1>2, <1>3 DEF Outlook
  <2> QED
    BY <1>1, <1>2, <1>3, <2>1, StaysMade
<1>4. ASSUME Finish(s), branch'[r] = NoBranch \/ branch'[r].status = "none" PROVE Implements
  <2>1. Proposal(r)' = NoBranch
    BY <1>2, <1>4 DEF Outlook, StatusOf
  <2>2. session'[s].pc \in {"retire", "answer"} /\ session'[s].answer \in Outcomes
    BY <1>1, <1>4, FinishSays
  <2> QED
    BY <1>1, <1>2, <2>1, <2>2, StaysMade
<1>5. CASE ClosePR(s)
  BY <1>1, <1>3, <1>5, ClosePRDoes DEF GoesOn, Becomes
<1>6. CASE DropBranch(s)
  <2>1. CASE branch' = [branch EXCEPT ![r] = NoBranch] /\ Finish(s)
    <3>1. branch'[r] = NoBranch
      BY <1>1, <2>1 DEF Known, Typed, RefsTyped
    <3> QED
      BY <1>4, <2>1, <3>1
  <2>2. CASE Goto(s, [pc |-> "clear", script |-> ClearScript])
    <3>1. "clear" \in Pcs /\ ClearScript \in Seq(Statement)
      BY ClearTyped DEF Pcs
    <3> QED
      BY <1>1, <1>3, <2>2, <3>1, GotoScript DEF Known, GoesOn, Becomes
  <2> QED
    BY <1>6, <2>1, <2>2 DEF DropBranch
<1>7. CASE Clear(s)
  <2>1. PICK script, stmt : script = session[s].script /\ stmt = Head(script)
    OBVIOUS
  <2>2. script \in {ClearScript, <<EraseWanted>>} /\ stmt \in Statement
    <3>1. script \in Seq(Statement) /\ script \in {ClearScript, <<EraseWanted>>}
      BY <1>1, <1>7, <2>1 DEF Clear, Known, Typed, Session, Flow, FlowAt
    <3>2. Len(script) \in 1 .. 5
      BY <3>1 DEF ClearScript
    <3> QED
      BY <2>1, <3>1, <3>2, HeadTail
  <2>3. PICK from \in From(r) :
          \/ /\ WriteOk(r, from, stmt)
             /\ IF Len(script) = 1 THEN Finish(s) ELSE Goto(s, [script |-> Tail(script)])
          \/ WriteFails(r, from, stmt)
    BY <1>7, <2>1 DEF Clear
  <2>4. from = IF StatusOf(branch[r]) = "none" THEN "main" ELSE "branch"
    BY <1>1, FromTrue
  <2>5. ~ WriteFails(r, from, stmt)
    BY <2>4 DEF WriteFails, Dependable, StatusOf
  <2>6. CASE script = ClearScript
    <3>1. Len(script) # 1 /\ Tail(script) = <<EraseWanted>>
      BY <2>6 DEF ClearScript
    <3>2. Goto(s, [script |-> <<EraseWanted>>]) /\ <<EraseWanted>> \in Seq(Statement)
      BY <2>3, <2>5, <3>1, ClearTyped
    <3>3. session'[s].pc = "clear"
      <4>1. PICK new : Goto(s, new) /\ new = [script |-> <<EraseWanted>>]
        BY <3>2
      <4>2. "pc" \notin DOMAIN new /\ "pc" \in DOMAIN session[s] /\ session[s].pc = "clear"
        BY <1>1, <1>7, <4>1 DEF Clear, Known, Typed, Session
      <4> QED
        BY <1>1, <4>1, <4>2, GotoFields DEF MutexInv
    <3> QED
      BY <1>3, <3>3
  <2>7. CASE script = <<EraseWanted>>
    <3>1. Len(script) = 1 /\ stmt = EraseWanted
      BY <2>1, <2>7
    <3>2. WriteOk(r, from, EraseWanted) /\ Finish(s)
      BY <2>3, <2>5, <3>1
    <3>3. Written(r, from, EraseWanted)
      BY <1>1, <2>2, <2>4, <3>1, <3>2, WriteOkDoes DEF Known, Typed
    <3>4. branch'[r] = NoBranch \/ branch'[r].status = "none"
      BY <1>1, <3>3, ErasedRests
    <3> QED
      BY <1>4, <3>2, <3>4
  <2> QED
    BY <2>2, <2>6, <2>7
<1> QED
  BY <1>5, <1>6, <1>7

(* The pull requests, and the answer.                                          *)
LEMMA OfferImplements ==
    ASSUME PromiseInv, Dependable, NEW s \in Sessions,
           CreatePR(s) \/ CloseUpstreamPR(s) \/ SubmitPR(s) \/ Answer(s)
    PROVE  Implements
<1> DEFINE r == Owner[s]
<1>1. /\ Step(s) /\ BoardInv /\ Known /\ MutexInv /\ Told(s) /\ UNCHANGED branch /\ Plain(session[s])
      /\ session[s].pc \in {"offer", "retire", "submit", "answer"}
  BY DEF PromiseInv, BoardInv, Step, CreatePR, CloseUpstreamPR, SubmitPR, Answer, refs, Plain
<1>2. ASSUME Plain(session'[s]) PROVE Proposal(r)' = Proposal(r)
  BY <1>1, <1>2, PlainProposal DEF PromiseInv
<1>3. Beside(s)
  BY <1>1, StepBeside DEF PromiseInv
<1>4. CASE CreatePR(s) \/ CloseUpstreamPR(s)
  <2>1. session[s].pc \in {"offer", "retire"} /\ session[s].answer \in Outcomes
    BY <1>1, <1>4 DEF CreatePR, CloseUpstreamPR, Told, Outcomes
  <2>2. Finish(s) \/ Say(s, session[s].answer)
    BY <1>4 DEF CreatePR, CloseUpstreamPR
  <2>3. session'[s].pc \in {"retire", "answer"} /\ session'[s].answer \in Outcomes
    BY <1>1, <2>1, <2>2, FinishSays, SayingIs
  <2>4. Proposal(r)' = Proposal(r)
    BY <1>2, <2>3 DEF Plain
  <2> QED
    BY <1>1, <2>1, <2>3, <2>4, StaysMade
<1>5. CASE SubmitPR(s)
  <2>1. session'[s].pc = "answer" /\ session'[s].answer = "kept"
    BY <1>1, <1>5, SayingIs DEF SubmitPR
  <2>2. Proposal(r)' = Proposal(r)
    BY <1>2, <2>1 DEF Plain
  <2>3. Request(s) = "submit-pr"
    BY <1>1, <1>5, RequestIs DEF SubmitPR, Standing, Told
  <2>4. Request(s)' = "made"
    BY <2>1, RequestWillBe DEF Standing
  <2> QED
    BY <1>3, <2>2, <2>3, <2>4, Offers, Acts
<1>6. CASE Answer(s)
  <2>1. session'[s].pc = "idle"
    BY <1>1, <1>6, AnswerDoes DEF Known, Becomes
  <2>2. Proposal(r)' = Proposal(r)
    BY <1>2, <2>1 DEF Plain
  <2>3. Request(s) \in {"made", "refused"}
    BY <1>6, RequestIs DEF Answer, Standing
  <2>4. Request(s)' = "none"
    BY <2>1, RequestWillBe DEF Standing
  <2> QED
    BY <1>3, <2>2, <2>3, <2>4, Answered, Acts
<1> QED
  BY <1>4, <1>5, <1>6

LEMMA BeginImplements ==
    ASSUME PromiseInv, Dependable, NEW s \in Sessions, NEW op \in Ops, NEW q \in Submitters(op),
           Begin(s, op, q)
    PROVE  Implements
<1>1. Known /\ op \in Operations /\ session[s].pc = "idle" /\ UNCHANGED <<main, branch, mutex>>
  BY DEF PromiseInv, BoardInv, Begin, refs
<1>2. PICK pc \in {"check", "enter", "submit", "lock"} : Becomes(s, pc, op, q, << >>, session[s].from)
  BY <1>1, BeginDoes
<1>3. /\ session'[s].pc \in {"check", "enter", "submit", "lock"} /\ session'[s].op = op
      /\ \A t \in Sessions \ {s} : session'[t] = session[t]
  BY <1>2 DEF Becomes
<1>4. ASSUME NEW t \in Sessions \ {s} PROVE Request(t)' = Request(t)
  BY <1>1, <1>3, RequestIs, RequestWillBe
<1>5. ASSUME NEW r \in Rigs PROVE Proposal(r)' = Proposal(r)
  <2>1. CASE mutex[r] = s
    <3>1. Plain(Hand(r)) /\ Plain(Hand(r)')
      BY <1>1, <1>3, <2>1 DEF Hand, Plain
    <3> QED
      BY <1>1, <3>1, PlainOutlook, ProposalIs, ProposalWillBe
  <2>2. CASE mutex[r] # s
    <3>1. Hand(r)' = Hand(r)
      BY <1>1, <1>3, <2>2 DEF Hand, PromiseInv, Own
    <3> QED
      BY <1>1, <3>1, ProposalIs, ProposalWillBe
  <2> QED
    BY <2>1, <2>2
<1>6. Beside(s)
  BY <1>1, <1>4, <1>5 DEF Beside
<1>7. Request(s) = "none" /\ Request(s)' = op
  BY <1>1, <1>3, RequestIs, RequestWillBe DEF Standing
<1> QED
  BY <1>1, <1>5, <1>6, <1>7, Asks, Acts

LEMMA NextImplements ==
    ASSUME PromiseInv, Dependable, [Next]_vars
    PROVE  Implements
<1>1. ASSUME UNCHANGED <<main, branch, mutex, session>> PROVE Implements
  <2>1. \A r \in Rigs : Proposal(r)' = Proposal(r)
    BY <1>1 DEF Proposal, Kept, Sending
  <2>2. \A s \in Sessions : Request(s)' = Request(s)
    BY <1>1 DEF Request, Sending
  <2> HIDE DEF Request, Proposal
  <2> QED
    BY <1>1, <2>1, <2>2 DEF Implements, Promise!vars
<1>2. ASSUME NEW s \in Sessions, Step(s) PROVE Implements
  BY <1>2, LockImplements, CheckImplements, ShortcutImplements, LookupImplements, PlanImplements,
     WriteImplements, SettleImplements, CleanupImplements, OfferImplements DEF Step
<1>3. ASSUME NEW r \in Rigs, MergePR(r) \/ RefreshListing(r) PROVE Implements
  BY <1>1, <1>3 DEF MergePR, RefreshListing
<1> QED
  BY <1>1, <1>2, <1>3, BeginImplements DEF Next, vars

LEMMA FirstImplements == ASSUME Init PROVE Promise!Init
<1>1. main \in [Rigs -> Tables]
  BY DEF Init, RefsInit
<1>2. \A r \in Rigs : Proposal(r) = NoBranch
  BY DEF Init, RefsInit, Proposal, StatusOf
<1>3. \A s \in Sessions : Request(s) = "none"
  BY RequestIs DEF Init, Sleeping, Standing
<1> HIDE DEF Request, Proposal
<1> QED
  BY <1>1, <1>2, <1>3 DEF Promise!Init

(* While no call of the database fails (Dependable) and the forks are of an    *)
(* upstream whose items are as the statements leave them (Begun), the requests *)
(* of Client.mutatePR, DiscardBranch and SubmitPR implement Board: every one   *)
(* takes effect as a whole or is refused, whatever the statements it is sent   *)
(* in and whatever requests there are beside it.                               *)
THEOREM MutationsAreAtomic == Dependable /\ Begun => (Spec => BoardSpec)
<1>1. ASSUME Dependable, Begun PROVE Spec => BoardSpec
  <2>1. Init => PromiseInv
    BY <1>1, PromiseFirst
  <2>2. PromiseInv /\ [Next]_vars => PromiseInv'
    BY <1>1, PromiseKept
  <2>3. PromiseInv /\ [Next]_vars => [Promise!Next]_(Promise!vars)
    BY <1>1, NextImplements DEF Implements
  <2>4. Init => Promise!Init
    BY FirstImplements
  <2> QED
    BY <2>1, <2>2, <2>3, <2>4, PTL DEF Spec, BoardSpec, Promise!Spec
<1> QED
  BY <1>1
=============================================================================
