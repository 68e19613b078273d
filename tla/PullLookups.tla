---------------------------- MODULE PullLookups ----------------------------
(* How the DoltHub provider finds the pull request of a branch                *)
(* (internal/remote/dolthub.go): a listing of all pulls, a read of each open  *)
(* one for its branch, and two caches with a short time to live - the index   *)
(* of a repository's open pulls, and the pull of a branch.  The provider's    *)
(* own writes clear both; pulls are also opened, closed and merged elsewhere. *)
(*                                                                            *)
(* One repository.  A call of DoltHub, a listing too, takes up to a tick.     *)
EXTENDS Integers, FiniteSets

CONSTANTS
    Pulls,           \* identifiers DoltHub may hand out
    Heads,           \* branches of the fork
    Lookups,         \* calls of FindPR
    Scans,           \* calls of ListPendingWantedIDs
    Writes,          \* calls of CreatePR and ClosePR
    Uncached,
    prCacheTTL,      \* in ticks
    LastTime         \* bound of the model

ASSUME LookupAssumption == prCacheTTL \in Nat /\ LastTime \in Nat

VARIABLES
    time,
    hubPulls,        \* DoltHub: id -> [state, head, closed], closed: when
    index,           \* Uncached, or [ids, expires, raced, partial]
    byHead,          \* head -> Uncached or [id, expires, raced]
    calls,           \* progress of the calls
    epoch,           \* ghost: how often the caches were cleared
    settled          \* ghost: ids of which the provider knows that it created
                     \* or that it closed them

lookupVars == <<time, hubPulls, index, byHead, calls, epoch, settled>>

LookupInit ==
    /\ time = 0
    /\ hubPulls \in [Pulls -> {[state |-> "none", head |-> Uncached, closed |-> 0]} \cup
                              {[state |-> "open", head |-> h, closed |-> 0] : h \in Heads}]
    /\ index = Uncached /\ byHead = [h \in Heads |-> Uncached]
    /\ calls = [c \in Lookups \cup Scans \cup Writes |-> [pc |-> "idle"]]
    /\ epoch = 0
    /\ settled = {}

Doing(c, pc) == calls[c].pc = pc
Set(c, call) == calls' = [calls EXCEPT ![c] = call]

\* Answered; a reader may call again.
Done(c) == Set(c, [pc |-> IF c \in Writes THEN "done" ELSE "idle"])
OpenPulls == {p \in Pulls : hubPulls[p].state = "open"}

\* now.After(expiresAt)
Fresh(entry) == entry # Uncached /\ time <= entry.expires

\* Only calls of DoltHub take time.
ClockMoves ==
    /\ time < LastTime
    /\ \A c \in DOMAIN calls :
          /\ calls[c].pc \notin {"cached", "index", "search", "rememberCreated"}
          /\ calls[c].pc \in {"remember", "invalidate"} => calls[c].since = time
    /\ time' = time + 1
    /\ UNCHANGED <<hubPulls, index, byHead, calls, epoch, settled>>

-----------------------------------------------------------------------------
(* FindPR *)

\* Faulty: a hit renews the entry.
FoundAndKept(c, entry) ==
    /\ Done(c)
    /\ byHead' = [byHead EXCEPT ![calls[c].head].expires = time + prCacheTTL]

\* Answers with the branch's entry, as it is.
Found(c, entry) ==
    /\ Done(c)
    /\ UNCHANGED byHead

BeginFind(c, h) ==
    /\ Doing(c, "idle")
    /\ Set(c, [pc |-> "cached", head |-> h])
    /\ UNCHANGED <<time, hubPulls, index, byHead, epoch, settled>>

CachedPRLookup(c) ==
    LET entry == byHead[calls[c].head]
    IN  /\ Doing(c, "cached")
        /\ \/ Fresh(entry) /\ Found(c, entry)
           \/ ~Fresh(entry) /\ Set(c, [calls[c] EXCEPT !.pc = "index"]) /\ UNCHANGED byHead
        /\ UNCHANGED <<time, hubPulls, index, epoch, settled>>

\* The first pull of the branch that the index names.
CachedPRIndex(c) ==
    /\ Doing(c, "index")
    /\ Set(c, IF Fresh(index)
              THEN [pc |-> "search", head |-> calls[c].head, ids |-> index.ids,
                    epoch |-> epoch, raced |-> index.raced]
              ELSE [calls[c] EXCEPT !.pc = "list"])
    /\ UNCHANGED <<time, hubPulls, index, byHead, epoch, settled>>

\* The listing.
ListPulls(c) ==
    /\ Doing(c, "list") \/ (c \in Scans /\ Doing(c, "idle"))
    /\ \/ Set(c, [pc |-> "remember", ids |-> OpenPulls, since |-> time, epoch |-> epoch,
                  head |-> IF c \in Scans THEN Uncached ELSE calls[c].head])
       \/ Done(c)
    /\ UNCHANGED <<time, hubPulls, index, byHead, epoch, settled>>

HeadsOf(ids, h) == {p \in ids : hubPulls[p].head = h}

\* rememberPRIndex: a branch with two open pulls gets no entry of its own.
\* FindPR leaves out pulls that cannot be read; a scan gives up over them.
RememberPRIndex(c, ids) ==
    LET raced == calls[c].epoch # epoch
    IN  /\ Doing(c, "remember")
        /\ ids \subseteq calls[c].ids
        /\ index' = [ids |-> ids, expires |-> time + prCacheTTL, raced |-> raced,
                     partial |-> ids # calls[c].ids]
        /\ byHead' = [h \in Heads |->
                        LET own == HeadsOf(ids, h)
                        IN  CASE own = {} -> byHead[h]
                              [] Cardinality(own) > 1 -> Uncached
                              [] OTHER -> [id |-> CHOOSE p \in own : TRUE,
                                           expires |-> time + prCacheTTL, raced |-> raced]]
        /\ IF c \in Scans
           THEN ids = calls[c].ids /\ Done(c)
           ELSE Set(c, [pc |-> "search", head |-> calls[c].head, ids |-> ids,
                        epoch |-> calls[c].epoch, raced |-> FALSE])
        /\ UNCHANGED <<time, hubPulls, epoch, settled>>

ScanFails(c) ==
    /\ c \in Scans /\ Doing(c, "remember") /\ calls[c].ids # {}
    /\ Done(c)
    /\ UNCHANGED <<time, hubPulls, index, byHead, epoch, settled>>

\* Remembers and answers.  DoltHub's order of pulls decides between two.
SearchIndex(c) ==
    LET own == HeadsOf(calls[c].ids, calls[c].head)
    IN  /\ Doing(c, "search")
        /\ \/ /\ own = {} /\ Done(c) /\ UNCHANGED byHead
           \/ \E p \in own :
                 /\ byHead' = [byHead EXCEPT ![calls[c].head] =
                                 [id |-> p, expires |-> time + prCacheTTL,
                                  raced |-> calls[c].raced \/ calls[c].epoch # epoch]]
                 /\ Done(c)
        /\ UNCHANGED <<time, hubPulls, index, epoch, settled>>

-----------------------------------------------------------------------------
(* CreatePR and ClosePR; UpdatePR clears the caches, too. *)

Opened(p, h) == hubPulls' = [hubPulls EXCEPT ![p] = [state |-> "open", head |-> h, closed |-> 0]]
Closed(p) == hubPulls' = [hubPulls EXCEPT ![p].state = "closed", ![p].closed = time]

\* The request reaches DoltHub; its answer may get lost.
SendCreate(w, p, h) ==
    /\ Doing(w, "idle") /\ hubPulls[p].state = "none"
    /\ Opened(p, h)
    /\ Set(w, [pc |-> "invalidate", op |-> "create", id |-> p, head |-> h, since |-> time,
                epoch |-> epoch])
    /\ UNCHANGED <<time, index, byHead, epoch, settled>>

SendClose(w, p) ==
    /\ Doing(w, "idle") /\ hubPulls[p].state # "none"
    /\ IF hubPulls[p].state = "open" THEN Closed(p) ELSE UNCHANGED hubPulls
    /\ Set(w, [pc |-> "invalidate", op |-> "close", id |-> p, since |-> time])
    /\ UNCHANGED <<time, index, byHead, epoch, settled>>

LoseAnswer(w) ==
    /\ Doing(w, "invalidate")
    /\ Done(w)
    /\ UNCHANGED <<time, hubPulls, index, byHead, epoch, settled>>

\* Faulty: the entries of branches stay.
InvalidateIndex ==
    /\ index' = Uncached /\ UNCHANGED byHead
    /\ epoch' = epoch + 1

InvalidatePRRepoCaches ==
    /\ index' = Uncached /\ byHead' = [h \in Heads |-> Uncached]
    /\ epoch' = epoch + 1

Answered(w) ==
    /\ Doing(w, "invalidate")
    /\ InvalidatePRRepoCaches
    /\ settled' = settled \cup {<<calls[w].op, calls[w].id>>}
    /\ Set(w, IF calls[w].op = "create"
              THEN [calls[w] EXCEPT !.pc = "rememberCreated"] ELSE [pc |-> "done"])
    /\ UNCHANGED <<time, hubPulls>>

\* rememberPRLookup, when the answer had the new pull's id.
RememberCreated(w) ==
    /\ Doing(w, "rememberCreated")
    /\ byHead' \in {byHead, [byHead EXCEPT ![calls[w].head] =
                               [id |-> calls[w].id, expires |-> time + prCacheTTL,
                                raced |-> epoch # calls[w].epoch + 1]]}
    /\ Done(w)
    /\ UNCHANGED <<time, hubPulls, index, epoch, settled>>

\* A pull is closed or merged on DoltHub itself.
ClosedElsewhere(p) ==
    /\ p \in OpenPulls
    /\ Closed(p)
    /\ UNCHANGED <<time, index, byHead, calls, epoch, settled>>

LookupNext ==
    \/ ClockMoves
    \/ \E c \in Lookups : \/ \E h \in Heads : BeginFind(c, h)
                          \/ CachedPRLookup(c) \/ CachedPRIndex(c) \/ SearchIndex(c)
    \/ \E c \in Lookups \cup Scans :
          \/ ListPulls(c) \/ ScanFails(c)
          \/ Doing(c, "remember") /\ \E ids \in SUBSET calls[c].ids : RememberPRIndex(c, ids)
    \/ \E w \in Writes : \/ \E p \in Pulls : SendClose(w, p) \/ \E h \in Heads : SendCreate(w, p, h)
                         \/ LoseAnswer(w) \/ Answered(w) \/ RememberCreated(w)
    \/ \E p \in Pulls : ClosedElsewhere(p)

LookupSpec == LookupInit /\ [][LookupNext]_lookupVars

-----------------------------------------------------------------------------
(* What is claimed. *)

\* "keep the TTL tight so externally closed/opened PRs become visible quickly"
\* (dolthub.go:93): a pull that FindPR may still answer with was open no longer
\* ago than a listing and two times the TTL - two, since a hit in the index is
\* remembered for its branch as if it had just been read.
NothingLongClosed ==
    \A h \in Heads :
        Fresh(byHead[h]) /\ hubPulls[byHead[h].id].state = "closed"
            => time - hubPulls[byHead[h].id].closed <= 1 + 2 * prCacheTTL

\* The provider's own writes show at once.  Whatever the caches still say
\* against one that was answered was read from DoltHub before the write and
\* stored after it, by a call that overlapped it, or leaves out a pull that
\* could not be read.
OwnWritesShow ==
    \A p \in Pulls :
        /\ <<"close", p>> \in settled =>
              /\ index # Uncached /\ p \in index.ids => index.raced
              /\ \A h \in Heads : byHead[h] # Uncached /\ byHead[h].id = p => byHead[h].raced
        /\ <<"create", p>> \in settled /\ hubPulls[p].state = "open" =>
              (index # Uncached /\ p \notin index.ids => index.raced \/ index.partial)
=============================================================================
