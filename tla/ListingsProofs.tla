--------------------------- MODULE ListingsProofs ---------------------------
(***************************************************************************)
(* Proofs about the caches of one slow read, for every number of requests, *)
(* background goroutines and changes; and about the caches of pull-request *)
(* lookups, for every number of pulls, branches and calls.                 *)
(***************************************************************************)
EXTENDS Listings, PullLookups, TLAPS

-----------------------------------------------------------------------------
(* Stopping a cache. *)

(* Once Stop, or run, has returned no refresh runs; two of the caches have a  *)
(* Stop.                                                                      *)
QuietInv ==
    /\ DOMAIN background = Refreshers
    /\ stop \in {"no", "closed", "returned"}
    /\ stop # "no" => cacheKind \in {"pending", "endpoint"}
    /\ StoppedIsQuiet

LEMMA QuietInit == ListingInit => QuietInv
BY DEF ListingInit, QuietInv, StoppedIsQuiet

(* Spawning changes nothing once the cache is being stopped.                  *)
LEMMA SpawnedOrNot ==
    ASSUME QuietInv, Spawned
    PROVE  /\ DOMAIN background' = Refreshers
           /\ stop # "no" => background' = background
BY DEF QuietInv, Spawned, MaySchedule

LEMMA QuietStep == QuietInv /\ [ListingNext]_listingVars => QuietInv'
<1> SUFFICES ASSUME QuietInv, [ListingNext]_listingVars PROVE QuietInv'
  OBVIOUS
<1> USE DEF QuietInv, StoppedIsQuiet
<1>1. CASE UNCHANGED listingVars
  BY <1>1 DEF listingVars
<1>2. CASE Ages \/ HubChanges \/ FetchReads
  BY <1>2 DEF Ages, HubChanges, FetchReads
<1>3. CASE FetchEnds
  BY <1>3 DEF FetchEnds, Rest
<1>4. ASSUME NEW r \in Requesters,
             \/ Asked(r) \/ GivesUp(r) \/ TTLGet(r) \/ LockedGet(r) \/ EndpointGet(r)
             \/ \E context \in BOOLEAN : PendingGet(r, context)
      PROVE  QuietInv'
  BY <1>4 DEF Asked, GivesUp, TTLGet, LockedGet, EndpointGet, PendingGet
<1>5. ASSUME NEW r \in Requesters, ScheduleRefresh(r) PROVE QuietInv'
  BY <1>5, SpawnedOrNot DEF ScheduleRefresh
<1>6. CASE TickerFires
  BY <1>6, SpawnedOrNot DEF TickerFires
<1>7. CASE StopCache
  BY <1>7 DEF StopCache
<1>8. CASE EndpointTicks
  BY <1>8 DEF EndpointTicks
<1>9. ASSUME NEW g \in Refreshers, BackgroundStep(g) \/ EndpointRefresh(g) PROVE QuietInv'
  <2>1. stop # "returned"
    <3>1. background[g].at \in {"refresh", "joined", "over", "fetching", "read"}
      BY <1>9 DEF BackgroundStep, EndpointRefresh
    <3> QED
      BY <3>1 DEF Rest
  <2>2. DOMAIN background' = Refreshers
    BY <1>9 DEF BackgroundStep, EndpointRefresh
  <2> QED
    BY <1>9, <2>1, <2>2 DEF BackgroundStep, EndpointRefresh
<1> QED
  BY <1>1, <1>2, <1>3, <1>4, <1>5, <1>6, <1>7, <1>8, <1>9 DEF ListingNext

(* When pendingItemsCache.Stop has returned, no pre-warming or scheduled      *)
(* refresh runs or will: schedules and ticks ask for `stop` under the mutex   *)
(* that Stop takes before it waits (cmd/wl/cmd_serve.go:641-648, 668-682);    *)
(* and none of CachedEndpoint's goroutine once run has returned               *)
(* (internal/api/scoreboard.go:70-90).  Shared fetches, and the fetches that  *)
(* requests make of a cold endpoint, are not stopped by either.               *)
THEOREM RefreshesEndWithStop == ListingSpec => []StoppedIsQuiet
<1>1. QuietInv => StoppedIsQuiet
  BY DEF QuietInv
<1> QED
  BY <1>1, QuietInit, QuietStep, PTL DEF ListingSpec

-----------------------------------------------------------------------------
(* Listings only move forward. *)

Listed == Nat \cup {NoListing}

AskRecord ==
    {Rest}
    \cup [at : {"ask", "join", "joined", "fetch"}, floor : Nat, cold : BOOLEAN]
    \cup [at : {"load"}, floor : Nat, cold : {TRUE}]
    \cup [at : {"loaded", "again"}, listing : Listed, floor : Nat, cold : {TRUE}]
    \cup [at : {"schedule", "answered"}, listing : Listed, floor : Nat, cold : BOOLEAN]

(* What is shared by requests is read by the flight, or by the background     *)
(* goroutine of a CachedEndpoint.                                             *)
ListingTypes ==
    /\ cacheKind \in {"ttl", "locked", "pending", "endpoint"}
    /\ hub \in Nat /\ newest \in Nat
    /\ held \in Listed
    /\ flight \in {NoFlight, Takeoff} \cup [at : {"read"}, listing : Listed]
    /\ asking \in [Requesters -> AskRecord]
    /\ DOMAIN background = Refreshers
    /\ cacheKind = "endpoint" => 
         /\ flight = NoFlight
         /\ \A g \in Refreshers :
              background[g] \in {Rest, Takeoff} \cup [at : {"read"}, listing : Listed]

(* A CachedEndpoint that a request has found cold gives no such promise.      *)
FoundCold == cacheKind = "endpoint" /\ \E q \in Requesters : asking[q] # Rest /\ asking[q].cold

(* A listing that may still be stored or answered.                            *)
UpToDate(listing) ==
    listing # NoListing => /\ listing <= hub /\ newest <= listing
                           /\ held # NoListing => held <= listing

(* What is held is as new as any answer;                                      *)
HeldForward ==
    /\ newest <= hub
    /\ newest = 0 \/ (held # NoListing /\ newest <= held)
    /\ held # NoListing => held <= hub

(* what has been read and is still to be stored is as new as what is held,    *)
(* and there is one such listing at a time;                                   *)
ReadsForward ==
    /\ flight.at = "read" => UpToDate(flight.listing)
    /\ cacheKind = "endpoint" =>
         /\ \A g \in Refreshers : background[g].at = "read" => UpToDate(background[g].listing)
         /\ \A g, h \in Refreshers : background[g] # Rest /\ background[h] # Rest => g = h

(* and only requests that have been answered, or keep their answer while they *)
(* schedule a refresh, may have an older one - never older than their floor.  *)
AnswersForward ==
    \A r \in Requesters :
        asking[r].at \in {"schedule", "answered"} /\ asking[r].listing # NoListing =>
            /\ held # NoListing /\ asking[r].listing <= held
            /\ asking[r].floor <= asking[r].listing

Floors == \A r \in Requesters : asking[r] # Rest => asking[r].floor <= newest

ForwardInv ==
    /\ ListingTypes
    /\ Floors
    /\ ~FoundCold => HeldForward /\ ReadsForward /\ AnswersForward

LEMMA ForwardInitial == ListingAssumption /\ ListingInit => ForwardInv
<1> SUFFICES ASSUME ListingAssumption, ListingInit PROVE ForwardInv
  OBVIOUS
<1> USE DEF ListingInit, ListingAssumption, Rest, Takeoff, NoFlight
<1>1. \A r \in Requesters : asking[r] = Rest
  OBVIOUS
<1>2. ListingTypes
  BY DEF ListingTypes, Listed, AskRecord
<1>3. cacheKind = "endpoint" =>
         /\ \A g \in Refreshers : background[g].at \in {"rest", "fetching"}
         /\ \A g, h \in Refreshers : background[g] # Rest /\ background[h] # Rest => g = h
  OBVIOUS
<1> QED
  BY <1>1, <1>2, <1>3 DEF ForwardInv, FoundCold, Floors, HeldForward, ReadsForward, AnswersForward

LEMMA AskFields ==
    ASSUME NEW q \in AskRecord, q # Rest
    PROVE  /\ q.floor \in Nat /\ q.cold \in BOOLEAN /\ q.at # "rest"
           /\ q.at \in {"loaded", "again", "schedule", "answered"} => q.listing \in Listed
           /\ q.at \in {"load", "loaded", "again"} => q.cold
BY DEF AskRecord

(* Steps of a request change no other request; one that is not answered       *)
(* keeps its floor, and whether it has found the cache cold.                  *)
LEMMA Stepping ==
    ASSUME ForwardInv, NEW r \in Requesters, NEW at, StepTo(r, at),
           \/ asking[r].at \in {"ask", "join"} /\ at \in {"join", "joined", "fetch"}
           \/ asking[r].at = "loaded" /\ at = "again"
    PROVE  /\ asking' \in [Requesters -> AskRecord]
           /\ newest' = newest
           /\ Floors'
           /\ cacheKind' = cacheKind => FoundCold' = FoundCold
           /\ held' = held /\ AnswersForward => AnswersForward'
<1>1. asking[r] \in AskRecord /\ asking[r] # Rest
  BY DEF ForwardInv, ListingTypes, Rest
<1>2. asking' = [asking EXCEPT ![r] = asking'[r]] /\ newest' = newest /\ asking'[r].at = at
  BY <1>1 DEF StepTo, ForwardInv, ListingTypes, AskRecord
<1>3. asking'[r] \in AskRecord /\ asking'[r] # Rest
  BY <1>1 DEF StepTo, ForwardInv, ListingTypes, AskRecord, Rest
<1>4. asking'[r].floor = asking[r].floor /\ asking'[r].cold = asking[r].cold
  BY <1>1 DEF StepTo, ForwardInv, ListingTypes, AskRecord, Rest
<1>5. asking' \in [Requesters -> AskRecord]
  BY <1>2, <1>3 DEF ForwardInv, ListingTypes
<1>6. \A q \in Requesters : q # r => asking'[q] = asking[q]
  BY <1>2 DEF ForwardInv, ListingTypes
<1>7. Floors'
  BY <1>1, <1>2, <1>3, <1>4, <1>6 DEF Floors, ForwardInv
<1>8. cacheKind' = cacheKind => FoundCold' = FoundCold
  BY <1>1, <1>3, <1>4, <1>6 DEF FoundCold
<1>9. held' = held /\ AnswersForward => AnswersForward'
  BY <1>2, <1>6 DEF AnswersForward
<1> QED
  BY <1>2, <1>5, <1>7, <1>8, <1>9

LEMMA Answering ==
    ASSUME ForwardInv, ListingAssumption, NEW r \in Requesters, asking[r] # Rest,
           NEW l \in Listed, AnswerTo(r, l),
           cacheKind' = cacheKind, hub' = hub, held' \in Listed,
           ~FoundCold => /\ held # NoListing => held' # NoListing /\ held <= held'
                         /\ held' # NoListing => held' <= hub
                         /\ l # NoListing => /\ held' # NoListing /\ l <= held'
                                             /\ asking[r].floor <= l
    PROVE  /\ asking' \in [Requesters -> AskRecord]
           /\ newest' \in Nat
           /\ Floors'
           /\ FoundCold' = FoundCold
           /\ ~FoundCold => /\ HeldForward' /\ AnswersForward'
                            /\ held' = held => \A x \in Listed : UpToDate(x) => UpToDate(x)'
<1> USE DEF Listed
<1>1. asking[r] \in AskRecord /\ asking[r].floor \in Nat /\ asking[r].cold \in BOOLEAN
  BY AskFields DEF ForwardInv, ListingTypes
<1>2. asking'[r] = [at |-> "answered", listing |-> l, floor |-> asking[r].floor,
                    cold |-> asking[r].cold]
  BY DEF AnswerTo, ForwardInv, ListingTypes
<1>3. \A q \in Requesters : q # r => asking'[q] = asking[q]
  BY DEF AnswerTo, ForwardInv, ListingTypes
<1>4. asking'[r] \in AskRecord /\ asking'[r] # Rest
  <2>1. asking'[r].at = "answered"
    BY <1>2
  <2>2. asking'[r] # Rest
    BY <2>1 DEF Rest
  <2>3. asking'[r] \in [at : {"schedule", "answered"}, listing : Listed, floor : Nat, cold : BOOLEAN]
    BY <1>1, <1>2
  <2> QED
    BY <2>2, <2>3 DEF AskRecord
<1>5. asking' \in [Requesters -> AskRecord]
  <2>1. \A q \in Requesters : asking'[q] \in AskRecord
    BY <1>3, <1>4 DEF ForwardInv, ListingTypes
  <2>2. asking' = [q \in Requesters |-> asking'[q]]
    BY DEF AnswerTo, ForwardInv, ListingTypes
  <2> QED
    BY <2>1, <2>2
<1>6. /\ newest \in Nat /\ newest' \in Nat /\ newest <= newest'
      /\ newest' = newest \/ (l # NoListing /\ newest' = l)
  BY DEF AnswerTo, Settled, ForwardInv, ListingTypes
<1>7. Floors'
  <2> SUFFICES ASSUME NEW q \in Requesters, asking'[q] # Rest PROVE asking'[q].floor <= newest'
    BY DEF Floors
  <2>1. asking'[q].floor = asking[q].floor /\ asking[q] # Rest
    BY <1>2, <1>3
  <2>2. asking[q].floor \in Nat /\ asking[q].floor <= newest
    BY <2>1, AskFields DEF ForwardInv, ListingTypes, Floors
  <2> QED
    BY <1>6, <2>1, <2>2
<1>8. FoundCold' = FoundCold
  BY <1>2, <1>3, <1>4 DEF FoundCold
<1>9. ASSUME ~FoundCold PROVE HeldForward'
  BY <1>6, <1>9 DEF HeldForward, ForwardInv, ListingTypes
<1>10. ASSUME ~FoundCold PROVE AnswersForward'
  <2> SUFFICES ASSUME NEW q \in Requesters, asking'[q].at \in {"schedule", "answered"},
                      asking'[q].listing # NoListing
               PROVE  /\ held' # NoListing /\ asking'[q].listing <= held'
                      /\ asking'[q].floor <= asking'[q].listing
    BY DEF AnswersForward
  <2>1. CASE q = r
    BY <1>2, <1>10, <2>1
  <2>2. CASE q # r
    <3>1. asking'[q] = asking[q] /\ asking[q] \in AskRecord
      BY <1>3, <2>2 DEF ForwardInv, ListingTypes
    <3>2. asking[q].listing \in Nat
      BY <3>1, AskFields DEF Rest
    <3>3. /\ held # NoListing /\ asking[q].listing <= held
          /\ asking[q].floor <= asking[q].listing
      BY <1>10, <3>1 DEF ForwardInv, AnswersForward
    <3> QED
      BY <1>10, <3>1, <3>2, <3>3 DEF ForwardInv, ListingTypes, ListingAssumption
  <2> QED
    BY <2>1, <2>2
<1>11. ASSUME ~FoundCold, held' = held, NEW x \in Listed, UpToDate(x) PROVE UpToDate(x)'
  BY <1>6, <1>11 DEF UpToDate, ForwardInv, ListingTypes
<1> QED
  BY <1>5, <1>6, <1>7, <1>8, <1>9, <1>10, <1>11

(* Steps of nobody's request: a fetch is begun, a goroutine of the background *)
(* cache moves, the clock ticks.                                              *)
LEMMA Beside ==
    ASSUME ForwardInv, UNCHANGED <<cacheKind, hub, held, asking, newest>>,
           flight' = flight \/ (flight' = Takeoff /\ cacheKind # "endpoint"),
           DOMAIN background' = Refreshers,
           cacheKind = "endpoint" => background' = background
    PROVE  ForwardInv'
<1>1. ListingTypes'
  BY DEF ForwardInv, ListingTypes
<1>2. Floors' /\ FoundCold' = FoundCold
  BY DEF ForwardInv, Floors, FoundCold
<1>3. HeldForward => HeldForward'
  BY DEF HeldForward
<1>4. AnswersForward => AnswersForward'
  BY DEF AnswersForward
<1>5. \A x : UpToDate(x)' <=> UpToDate(x)
  BY DEF UpToDate
<1>6. flight'.at = "read" => flight' = flight
  BY DEF Takeoff
<1>7. ReadsForward => ReadsForward'
  BY <1>5, <1>6 DEF ReadsForward
<1> QED
  BY <1>1, <1>2, <1>3, <1>4, <1>7 DEF ForwardInv

(* A request joins a fetch, or begins it: only then may the flight change.    *)
LEMMA Stepped ==
    ASSUME ForwardInv, NEW r \in Requesters, NEW at, StepTo(r, at),
           asking[r].at \in {"ask", "join"}, at \in {"join", "joined", "fetch"},
           UNCHANGED <<cacheKind, hub, held, background>>,
           flight' = flight \/ (flight' = Takeoff /\ cacheKind # "endpoint")
    PROVE  ForwardInv'
<1>1. /\ asking' \in [Requesters -> AskRecord] /\ newest' = newest /\ Floors'
      /\ FoundCold' = FoundCold
      /\ AnswersForward => AnswersForward'
  BY Stepping
<1>2. ListingTypes'
  BY <1>1 DEF ForwardInv, ListingTypes
<1>3. HeldForward => HeldForward'
  BY <1>1 DEF HeldForward
<1>5. \A x : UpToDate(x)' <=> UpToDate(x)
  BY <1>1 DEF UpToDate
<1>6. flight'.at = "read" => flight' = flight
  BY DEF Takeoff
<1>7. ReadsForward => ReadsForward'
  BY <1>5, <1>6 DEF ReadsForward
<1> QED
  BY <1>1, <1>2, <1>3, <1>7 DEF ForwardInv

(* A request is answered with what is held, or with nothing.                  *)
LEMMA AnswerForward ==
    ASSUME ForwardInv, ListingAssumption, NEW r \in Requesters, asking[r] # Rest,
           NEW l \in Listed, AnswerTo(r, l),
           UNCHANGED <<cacheKind, hub, held, flight>>, DOMAIN background' = Refreshers,
           cacheKind = "endpoint" => background' = background,
           ~FoundCold => l \in {NoListing, held} \/ (asking[r].at = "schedule" /\ l = asking[r].listing)
    PROVE  ForwardInv'
<1>1. asking[r] \in AskRecord /\ asking[r].floor \in Nat
  BY AskFields DEF ForwardInv, ListingTypes
<1>2. ASSUME ~FoundCold, l # NoListing
      PROVE  held # NoListing /\ l <= held /\ asking[r].floor <= l
  <2>1. CASE l = held
    BY <1>1, <1>2, <2>1 DEF ForwardInv, HeldForward, Floors, ListingTypes, Listed
  <2>2. CASE asking[r].at = "schedule" /\ l = asking[r].listing
    BY <1>2, <2>2 DEF ForwardInv, AnswersForward
  <2> QED
    BY <1>2, <2>1, <2>2
<1>3. ~FoundCold /\ held # NoListing => held <= held /\ held <= hub
  BY DEF ForwardInv, HeldForward, ListingTypes, Listed
<1>4. held' \in Listed /\ held' = held
  BY DEF ForwardInv, ListingTypes
<1>5. /\ asking' \in [Requesters -> AskRecord] /\ newest' \in Nat /\ Floors'
      /\ FoundCold' = FoundCold
      /\ ~FoundCold => /\ HeldForward' /\ AnswersForward'
                       /\ \A x \in Listed : UpToDate(x) => UpToDate(x)'
  <2> HIDE DEF ListingAssumption
  <2> QED
    BY <1>2, <1>3, <1>4, Answering
<1>6. ListingTypes'
  BY <1>5 DEF ForwardInv, ListingTypes
<1>7. ~FoundCold => ReadsForward'
  <2> SUFFICES ASSUME ~FoundCold PROVE ReadsForward'
    OBVIOUS
  <2>1. flight.at = "read" => flight.listing \in Listed
    BY DEF ForwardInv, ListingTypes, NoFlight, Takeoff
  <2>2. ASSUME cacheKind = "endpoint", NEW g \in Refreshers, background[g].at = "read"
        PROVE  background[g].listing \in Listed
    BY <2>2 DEF ForwardInv, ListingTypes, Rest, Takeoff
  <2> QED
    BY <1>5, <2>1, <2>2 DEF ForwardInv, ReadsForward
<1> QED
  BY <1>5, <1>6, <1>7 DEF ForwardInv

-----------------------------------------------------------------------------
(* The steps, one by one. *)

LEMMA HubForward == ForwardInv /\ HubChanges => ForwardInv'
<1> SUFFICES ASSUME ForwardInv, HubChanges PROVE ForwardInv'
  OBVIOUS
<1> USE DEF HubChanges
<1>1. hub \in Nat /\ hub' = hub + 1
  BY DEF ForwardInv, ListingTypes
<1>2. ListingTypes'
  BY <1>1 DEF ForwardInv, ListingTypes
<1>3. Floors' /\ FoundCold' = FoundCold
  BY DEF ForwardInv, Floors, FoundCold
<1>4. HeldForward => HeldForward'
  BY <1>1 DEF HeldForward, ForwardInv, ListingTypes, Listed
<1>5. AnswersForward => AnswersForward'
  BY DEF AnswersForward
<1>6. \A x \in Listed : UpToDate(x) => UpToDate(x)'
  BY <1>1 DEF UpToDate, Listed
<1>7. flight.at = "read" => flight.listing \in Listed
  BY DEF ForwardInv, ListingTypes, NoFlight, Takeoff
<1>8. ASSUME cacheKind = "endpoint", NEW g \in Refreshers, background[g].at = "read"
      PROVE  background[g].listing \in Listed
  BY <1>8 DEF ForwardInv, ListingTypes, Rest, Takeoff
<1>9. ReadsForward => ReadsForward'
  BY <1>6, <1>7, <1>8 DEF ReadsForward
<1> QED
  BY <1>2, <1>3, <1>4, <1>5, <1>9 DEF ForwardInv

(* What is read reflects all there is by now.                                 *)
LEMMA ReadUpToDate ==
    ASSUME ForwardInv, ~FoundCold, NEW listing \in {hub, NoListing}
    PROVE  UpToDate(listing) /\ listing \in Listed
BY DEF ForwardInv, ListingTypes, Listed, HeldForward, UpToDate

LEMMA FetchReadsForward == ForwardInv /\ FetchReads => ForwardInv'
<1> SUFFICES ASSUME ForwardInv, FetchReads PROVE ForwardInv'
  OBVIOUS
<1>1. PICK listing \in {hub, NoListing} : flight' = [at |-> "read", listing |-> listing]
  BY DEF FetchReads
<1>2. listing \in Listed /\ cacheKind # "endpoint"
  BY DEF ForwardInv, ListingTypes, Listed, FetchReads, NoFlight
<1>3. ListingTypes'
  BY <1>1, <1>2 DEF ForwardInv, ListingTypes, FetchReads
<1>4. Floors' /\ FoundCold' = FoundCold
  BY DEF ForwardInv, Floors, FoundCold, FetchReads
<1>5. HeldForward => HeldForward'
  BY DEF HeldForward, FetchReads
<1>6. AnswersForward => AnswersForward'
  BY DEF AnswersForward, FetchReads
<1>7. ~FoundCold => UpToDate(listing)'
  <2>1. ~FoundCold => UpToDate(listing)
    BY ReadUpToDate
  <2> QED
    BY <2>1 DEF UpToDate, FetchReads
<1>8. ~FoundCold => ReadsForward'
  BY <1>1, <1>2, <1>7 DEF ReadsForward, FetchReads
<1> QED
  BY <1>3, <1>4, <1>5, <1>6, <1>8 DEF ForwardInv

LEMMA AskedForward ==
    ASSUME ForwardInv, NEW r \in Requesters, Asked(r) PROVE ForwardInv'
<1> DEFINE new == [at |-> "ask", floor |-> newest, cold |-> FALSE]
<1>1. new \in AskRecord /\ new # Rest /\ new.at = "ask" /\ new.floor = newest /\ new.cold = FALSE
  BY DEF AskRecord, Rest, ForwardInv, ListingTypes
<1>2. asking' = [asking EXCEPT ![r] = new] /\ asking[r] = Rest
  BY DEF Asked
<1> HIDE DEF new
<1>3. asking' \in [Requesters -> AskRecord] /\ asking'[r] = new
      /\ \A q \in Requesters : q # r => asking'[q] = asking[q]
  BY <1>1, <1>2 DEF ForwardInv, ListingTypes
<1>4. ListingTypes'
  BY <1>3 DEF ForwardInv, ListingTypes, Asked
<1>5. Floors'
  BY <1>1, <1>3 DEF ForwardInv, Floors, Asked, ListingTypes
<1>6. FoundCold' = FoundCold
  BY <1>1, <1>2, <1>3 DEF FoundCold, Asked
<1>7. AnswersForward => AnswersForward'
  BY <1>1, <1>3 DEF AnswersForward, Asked
<1>8. HeldForward => HeldForward'
  BY DEF HeldForward, Asked
<1>9. ReadsForward => ReadsForward'
  BY DEF ReadsForward, UpToDate, Asked
<1> QED
  BY <1>4, <1>5, <1>6, <1>7, <1>8, <1>9 DEF ForwardInv

(* The function that singleflight runs ends, for all who wait.                *)
LEMMA FetchEndsForward == ListingAssumption /\ ForwardInv /\ FetchEnds => ForwardInv'
<1> SUFFICES ASSUME ListingAssumption, ForwardInv, FetchEnds PROVE ForwardInv'
  OBVIOUS
<1> DEFINE l == flight.listing
<1>1. l \in Listed /\ flight.at = "read" /\ cacheKind # "endpoint"
  BY DEF ForwardInv, ListingTypes, FetchEnds, Shared, NoFlight, Takeoff
<1>2. ~FoundCold
  BY <1>1 DEF FoundCold
<1>3. HeldForward /\ AnswersForward /\ UpToDate(l)
  BY <1>1, <1>2 DEF ForwardInv, ReadsForward
<1>4. held' = IF l = NoListing THEN held ELSE l
  BY DEF FetchEnds
<1>5. newest \in Nat /\ newest' \in {newest, l} /\ newest <= newest' /\ newest' \in Nat
  BY <1>1 DEF FetchEnds, Settled, ForwardInv, ListingTypes, Listed
<1>6. newest' = newest \/ (l # NoListing /\ newest' = l)
  BY <1>1 DEF FetchEnds, Settled, ForwardInv, ListingTypes, Listed
<1> DEFINE told(q) == [at |-> "answered", listing |-> l, floor |-> asking[q].floor,
                       cold |-> asking[q].cold]
<1>w1. ASSUME NEW q \in Waiting
       PROVE  /\ q \in Requesters /\ asking[q].floor \in Nat /\ asking[q].cold \in BOOLEAN
              /\ asking[q] # Rest
  BY <1>w1, AskFields DEF Waiting, ForwardInv, ListingTypes, Rest
<1>w2. ASSUME NEW q \in Waiting PROVE asking'[q] = told(q)
  BY <1>w1, <1>w2 DEF FetchEnds
<1>w3. ASSUME NEW q \in Waiting
       PROVE  /\ told(q).at = "answered" /\ told(q).listing = l /\ told(q).floor = asking[q].floor
              /\ told(q).cold = asking[q].cold
  OBVIOUS
<1>w4. ASSUME NEW q \in Waiting PROVE told(q) \in AskRecord
  <2>1. told(q) \in [at : {"schedule", "answered"}, listing : Listed, floor : Nat, cold : BOOLEAN]
    BY <1>1, <1>w1
  <2> QED
    BY <2>1 DEF AskRecord
<1> HIDE DEF told
<1>7. \A q \in Waiting : /\ asking[q].floor \in Nat /\ asking[q] # Rest
                        /\ asking'[q].listing = l /\ asking'[q].floor = asking[q].floor
                        /\ asking'[q] \in AskRecord
  BY <1>w1, <1>w2, <1>w3, <1>w4
<1>8. ASSUME NEW q \in Requesters, q \notin Waiting PROVE asking'[q] = asking[q]
  BY <1>8 DEF FetchEnds
<1> HIDE DEF l
<1>9. asking' \in [Requesters -> AskRecord]
  <2>1. ASSUME NEW q \in Requesters PROVE asking'[q] \in AskRecord
    <3>1. CASE q \in Waiting
      BY <1>7, <3>1
    <3>2. CASE q \notin Waiting
      BY <1>8, <3>2 DEF ForwardInv, ListingTypes
    <3> QED
      BY <3>1, <3>2
  <2>2. asking' = [q \in Requesters |-> asking'[q]]
    BY DEF FetchEnds
  <2> QED
    BY <2>1, <2>2
<1>10. ListingTypes'
  <2>1. held' \in Listed
    BY <1>1, <1>4 DEF ForwardInv, ListingTypes
  <2>2. flight' = NoFlight /\ hub' = hub /\ cacheKind' = cacheKind
    BY DEF FetchEnds
  <2>3. DOMAIN background' = Refreshers
    BY DEF FetchEnds
  <2> QED
    BY <1>1, <1>5, <1>9, <2>1, <2>2, <2>3 DEF ForwardInv, ListingTypes
<1>11. Floors'
  <2> SUFFICES ASSUME NEW q \in Requesters, asking'[q] # Rest PROVE asking'[q].floor <= newest'
    BY DEF Floors
  <2>1. asking'[q].floor = asking[q].floor /\ asking[q] # Rest
    BY <1>7, <1>8
  <2>2. asking[q].floor \in Nat /\ asking[q].floor <= newest
    BY <2>1, AskFields DEF ForwardInv, ListingTypes, Floors
  <2> QED
    BY <1>5, <2>1, <2>2
<1>12. /\ HeldForward'
       /\ held # NoListing => held' # NoListing /\ held <= held'
  BY <1>1, <1>3, <1>4, <1>5, <1>6 DEF HeldForward, UpToDate, ForwardInv, ListingTypes, Listed, FetchEnds
<1>13. ReadsForward'
  BY <1>1 DEF ReadsForward, FetchEnds, NoFlight
<1>14. AnswersForward'
  <2> SUFFICES ASSUME NEW q \in Requesters, asking'[q].at \in {"schedule", "answered"},
                      asking'[q].listing # NoListing
               PROVE  /\ held' # NoListing /\ asking'[q].listing <= held'
                      /\ asking'[q].floor <= asking'[q].listing
    BY DEF AnswersForward
  <2>1. CASE q \in Waiting
    <3>1. asking[q].floor <= newest
      BY <1>7, <2>1 DEF ForwardInv, Floors
    <3>2. l \in Nat /\ newest <= l /\ held' = l /\ held' # NoListing
      BY <1>1, <1>3, <1>4, <1>7, <2>1 DEF UpToDate, Listed
    <3> QED
      BY <1>5, <1>7, <2>1, <3>1, <3>2
  <2>2. CASE q \notin Waiting
    <3>1. asking'[q] = asking[q] /\ asking[q] \in AskRecord
      BY <1>8, <2>2 DEF ForwardInv, ListingTypes
    <3>2. asking[q].listing \in Nat
      BY <3>1, AskFields DEF Rest, Listed
    <3>3. /\ held # NoListing /\ asking[q].listing <= held
          /\ asking[q].floor <= asking[q].listing
      BY <1>3, <3>1 DEF AnswersForward
    <3>4. held \in Nat /\ held' \in Nat
      BY <1>10, <1>12, <3>3 DEF ForwardInv, ListingTypes, Listed
    <3> QED
      BY <1>12, <3>1, <3>2, <3>3, <3>4
  <2> QED
    BY <2>1, <2>2
<1> QED
  BY <1>10, <1>11, <1>12, <1>13, <1>14 DEF ForwardInv

LEMMA GivesUpForward ==
    ASSUME ListingAssumption, ForwardInv, NEW r \in Requesters, GivesUp(r) PROVE ForwardInv'
<1>1. asking[r] # Rest /\ NoListing \in Listed
  BY DEF GivesUp, Rest, Listed
<1>2. AnswerTo(r, NoListing) /\ UNCHANGED <<cacheKind, hub, held, flight, background>>
  BY DEF GivesUp
<1>3. DOMAIN background = Refreshers
  BY DEF ForwardInv, ListingTypes
<1> HIDE DEF ListingAssumption
<1> QED
  BY <1>1, <1>2, <1>3, AnswerForward

(* The caches that share a fetch: a hit, or a join.                           *)
LEMMA TTLForward ==
    ASSUME ListingAssumption, ForwardInv, NEW r \in Requesters, TTLGet(r) PROVE ForwardInv'
<1>1. /\ UNCHANGED <<cacheKind, hub, held, background>> /\ cacheKind # "endpoint"
      /\ held \in Listed /\ DOMAIN background = Refreshers
  BY DEF TTLGet, ForwardInv, ListingTypes
<1>2. CASE asking[r].at = "ask" /\ AnswerTo(r, held) /\ UNCHANGED flight
  <2>1. asking[r] # Rest
    BY <1>2 DEF Rest
  <2> QED
    BY <1>1, <1>2, <2>1, AnswerForward
<1>3. CASE asking[r].at = "ask" /\ StepTo(r, "join") /\ UNCHANGED flight
  BY <1>1, <1>3, Stepped
<1>4. CASE asking[r].at = "join" /\ Joining(r)
  BY <1>1, <1>4, Stepped DEF Joining, Joined
<1> QED
  BY <1>2, <1>3, <1>4 DEF TTLGet

(* pendingItemsCache keeps what it has found until it has scheduled.          *)
LEMMA PendingForward ==
    ASSUME ListingAssumption, ForwardInv, NEW r \in Requesters, NEW context \in BOOLEAN,
           PendingGet(r, context)
    PROVE  ForwardInv'
<1>1. /\ UNCHANGED <<cacheKind, hub, held, background>> /\ cacheKind # "endpoint" /\ ~FoundCold
      /\ held \in Listed /\ DOMAIN background = Refreshers
  BY DEF PendingGet, ForwardInv, ListingTypes, FoundCold
<1>2. CASE asking[r].at = "ask" /\ AnswerTo(r, held) /\ UNCHANGED flight
  <2>1. asking[r] # Rest
    BY <1>2 DEF Rest
  <2> QED
    BY <1>1, <1>2, <2>1, AnswerForward
<1>3. CASE asking[r].at = "ask" /\ StepTo(r, "join") /\ UNCHANGED flight
  BY <1>1, <1>3, Stepped
<1>4. CASE asking[r].at = "join" /\ Joining(r)
  BY <1>1, <1>4, Stepped DEF Joining, Joined
<1> DEFINE kept == [at |-> "schedule", listing |-> held, floor |-> asking[r].floor, cold |-> FALSE]
<1>5. CASE /\ asking[r].at = "ask" /\ held # NoListing
           /\ asking' = [asking EXCEPT ![r] = kept] /\ UNCHANGED <<newest, flight>>
  <2>1. asking[r] \in AskRecord /\ asking[r] # Rest /\ asking[r].floor \in Nat
    BY <1>5, AskFields DEF ForwardInv, ListingTypes, Rest
  <2>2. kept \in [at : {"schedule", "answered"}, listing : Listed, floor : Nat, cold : BOOLEAN]
    BY <1>1, <2>1
  <2>3. kept \in AskRecord
    BY <2>2 DEF AskRecord
  <2>4. kept.at = "schedule" /\ kept.listing = held /\ kept.floor = asking[r].floor
    OBVIOUS
  <2> HIDE DEF kept
  <2>5. asking' \in [Requesters -> AskRecord] /\ asking'[r] = kept
        /\ \A q \in Requesters : q # r => asking'[q] = asking[q]
    BY <1>5, <2>3 DEF ForwardInv, ListingTypes
  <2>6. ListingTypes'
    BY <1>1, <1>5, <2>5 DEF ForwardInv, ListingTypes
  <2>7. Floors'
    BY <1>5, <2>1, <2>4, <2>5 DEF ForwardInv, Floors
  <2>8. HeldForward /\ ReadsForward /\ AnswersForward
    BY <1>1 DEF ForwardInv
  <2>9. held \in Nat /\ asking[r].floor <= held
    BY <1>1, <1>5, <2>1, <2>8 DEF ForwardInv, Floors, HeldForward, Listed, ListingTypes
  <2>10. AnswersForward'
    BY <1>1, <1>5, <2>4, <2>5, <2>8, <2>9 DEF AnswersForward
  <2>11. HeldForward' /\ ReadsForward'
    BY <1>1, <1>5, <2>8 DEF HeldForward, ReadsForward, UpToDate
  <2> QED
    BY <2>6, <2>7, <2>10, <2>11 DEF ForwardInv
<1> QED
  BY <1>2, <1>3, <1>4, <1>5 DEF PendingGet

LEMMA ScheduleForward ==
    ASSUME ListingAssumption, ForwardInv, NEW r \in Requesters, ScheduleRefresh(r)
    PROVE  ForwardInv'
<1>1. /\ asking[r].at = "schedule" /\ AnswerTo(r, asking[r].listing)
      /\ UNCHANGED <<cacheKind, hub, held, flight>> /\ cacheKind # "endpoint"
  BY DEF ScheduleRefresh
<1>2. asking[r] # Rest /\ asking[r].listing \in Listed
  BY <1>1, AskFields DEF Rest, ForwardInv, ListingTypes
<1>3. DOMAIN background' = Refreshers
  BY DEF ScheduleRefresh, Spawned, ForwardInv, ListingTypes
<1> HIDE DEF ListingAssumption
<1> QED
  BY <1>1, <1>2, <1>3, AnswerForward

LEMMA BackgroundForward ==
    ForwardInv /\ (\/ Ages \/ TickerFires \/ StopCache
                   \/ \E g \in Refreshers : BackgroundStep(g)
                   \/ UNCHANGED listingVars) => ForwardInv'
<1> SUFFICES ASSUME ForwardInv,
                    \/ Ages \/ TickerFires \/ StopCache
                    \/ \E g \in Refreshers : BackgroundStep(g)
                    \/ UNCHANGED listingVars
             PROVE  ForwardInv'
  OBVIOUS
<1>1. DOMAIN background = Refreshers
  BY DEF ForwardInv, ListingTypes
<1>2. CASE Ages \/ StopCache \/ UNCHANGED listingVars
  BY <1>1, <1>2, Beside DEF Ages, StopCache, listingVars
<1>3. CASE TickerFires
  BY <1>1, <1>3, Beside DEF TickerFires, Spawned
<1>4. ASSUME NEW g \in Refreshers, BackgroundStep(g) PROVE ForwardInv'
  BY <1>1, <1>4, Beside DEF BackgroundStep, Joined
<1> QED
  BY <1>2, <1>3, <1>4

(* The listing that was fetched under the mutex is stored and answered.       *)
LEMMA LockedForward ==
    ASSUME ListingAssumption, ForwardInv, NEW r \in Requesters, LockedGet(r) PROVE ForwardInv'
<1>1. /\ UNCHANGED <<cacheKind, hub, background>> /\ cacheKind # "endpoint" /\ ~FoundCold
      /\ held \in Listed /\ DOMAIN background = Refreshers
  BY DEF LockedGet, ForwardInv, ListingTypes, FoundCold
<1>2. CASE asking[r].at = "ask" /\ AnswerTo(r, held) /\ UNCHANGED <<flight, held>>
  <2>1. asking[r] # Rest
    BY <1>2 DEF Rest
  <2> QED
    BY <1>1, <1>2, <2>1, AnswerForward
<1>3. CASE asking[r].at = "ask" /\ StepTo(r, "fetch") /\ flight' = Takeoff /\ UNCHANGED held
  BY <1>1, <1>3, Stepped
<1> DEFINE l == flight.listing
<1>4. CASE /\ asking[r].at = "fetch" /\ flight.at = "read" /\ flight' = NoFlight
           /\ AnswerTo(r, l) /\ held' = IF l = NoListing THEN held ELSE l
  <2>1. asking[r] # Rest /\ l \in Listed
    BY <1>4 DEF Rest, ForwardInv, ListingTypes, NoFlight, Takeoff
  <2>2. UpToDate(l) /\ HeldForward
    BY <1>1, <1>4 DEF ForwardInv, ReadsForward
  <2> HIDE DEF l
  <2>3. held' \in Listed
    BY <1>1, <1>4, <2>1
  <2>4. l # NoListing => asking[r].floor <= l
    BY <2>1, <2>2, AskFields DEF ForwardInv, Floors, ListingTypes, UpToDate, Listed
  <2>5. /\ held # NoListing => held' # NoListing /\ held <= held'
        /\ held' # NoListing => held' <= hub
        /\ l # NoListing => held' # NoListing /\ l <= held'
    BY <1>1, <1>4, <2>1, <2>2 DEF UpToDate, HeldForward, Listed
  <2>6. /\ asking' \in [Requesters -> AskRecord] /\ newest' \in Nat /\ Floors'
        /\ HeldForward' /\ AnswersForward'
    <3> HIDE DEF ListingAssumption
    <3> QED
      BY <1>1, <1>4, <2>1, <2>3, <2>4, <2>5, Answering
  <2>7. ListingTypes'
    BY <1>1, <1>4, <2>3, <2>6 DEF ForwardInv, ListingTypes
  <2>8. ReadsForward'
    BY <1>1, <1>4 DEF ReadsForward, NoFlight
  <2> QED
    BY <2>6, <2>7, <2>8 DEF ForwardInv
<1> QED
  BY <1>2, <1>3, <1>4 DEF LockedGet

(* The goroutine of a CachedEndpoint is alone, unless the cache was cold.     *)
LEMMA EndpointRefreshForward ==
    ASSUME ForwardInv, NEW g \in Refreshers, EndpointRefresh(g) PROVE ForwardInv'
<1>1. /\ UNCHANGED <<cacheKind, hub, flight, asking, newest>> /\ cacheKind = "endpoint"
      /\ background[g] # Rest
  BY DEF EndpointRefresh, Rest
<1>2. /\ Floors' /\ FoundCold' = FoundCold
      /\ flight = NoFlight /\ DOMAIN background = Refreshers
  BY <1>1 DEF ForwardInv, Floors, FoundCold, ListingTypes
<1>3. ASSUME NEW listing \in {hub, NoListing},
             background' = [background EXCEPT ![g] = [at |-> "read", listing |-> listing]],
             held' = held
      PROVE  ForwardInv'
  <2>1. listing \in Listed
    BY DEF ForwardInv, ListingTypes, Listed
  <2>2. ListingTypes'
    BY <1>1, <1>2, <1>3, <2>1 DEF ForwardInv, ListingTypes
  <2>3. ASSUME ~FoundCold PROVE HeldForward' /\ AnswersForward'
    BY <1>1, <1>3, <2>3 DEF ForwardInv, HeldForward, AnswersForward
  <2>4. ASSUME ~FoundCold PROVE ReadsForward'
    <3>1. UpToDate(listing)
      BY <2>4, ReadUpToDate
    <3>2. \A x : UpToDate(x) => UpToDate(x)'
      BY <1>1, <1>3 DEF UpToDate
    <3>3. background'[g].at = "read" /\ background'[g].listing = listing
      BY <1>2, <1>3
    <3>4. \A h \in Refreshers : h # g => background'[h] = background[h]
      BY <1>2, <1>3
    <3> QED
      BY <1>1, <1>2, <2>4, <3>1, <3>2, <3>3, <3>4 DEF ForwardInv, ReadsForward, NoFlight
  <2> QED
    BY <1>2, <2>2, <2>3, <2>4 DEF ForwardInv
<1>4. CASE /\ background[g].at = "read" /\ background' = [background EXCEPT ![g] = Rest]
           /\ held' = IF background[g].listing = NoListing THEN held ELSE background[g].listing
  <2> DEFINE l == background[g].listing
  <2>1. l \in Listed
    BY <1>1, <1>4 DEF ForwardInv, ListingTypes, Rest, Takeoff
  <2>2. held' \in Listed /\ held \in Listed
    BY <1>4, <2>1 DEF ForwardInv, ListingTypes
  <2>3. ListingTypes'
    BY <1>1, <1>2, <1>4, <2>2 DEF ForwardInv, ListingTypes
  <2>4. ASSUME ~FoundCold PROVE HeldForward' /\ ReadsForward' /\ AnswersForward'
    <3>1. HeldForward /\ ReadsForward /\ AnswersForward /\ UpToDate(l)
      BY <1>1, <1>4, <2>4 DEF ForwardInv, ReadsForward
    <3>2. HeldForward' /\ (held # NoListing => held' # NoListing /\ held <= held')
      BY <1>1, <1>4, <2>1, <2>2, <3>1 DEF HeldForward, UpToDate, ForwardInv, ListingTypes, Listed
    <3>3. \A h \in Refreshers : background'[h] = Rest
      BY <1>1, <1>2, <1>4, <3>1 DEF ReadsForward
    <3>4. ReadsForward'
      BY <1>1, <1>2, <3>3 DEF ReadsForward, Rest, NoFlight
    <3>5. AnswersForward'
      <4> SUFFICES ASSUME NEW q \in Requesters, asking[q].at \in {"schedule", "answered"},
                          asking[q].listing # NoListing
                   PROVE  /\ held' # NoListing /\ asking[q].listing <= held'
                          /\ asking[q].floor <= asking[q].listing
        BY <1>1 DEF AnswersForward
      <4>1. asking[q].listing \in Nat
        BY AskFields DEF Rest, Listed, ForwardInv, ListingTypes
      <4> QED
        BY <2>2, <3>1, <3>2, <4>1 DEF AnswersForward, Listed
    <3> QED
      BY <3>1, <3>2, <3>4, <3>5
  <2> QED
    BY <1>2, <2>3, <2>4 DEF ForwardInv
<1> QED
  BY <1>3, <1>4 DEF EndpointRefresh

LEMMA EndpointTicksForward == ForwardInv /\ EndpointTicks => ForwardInv'
<1> SUFFICES ASSUME ForwardInv, EndpointTicks PROVE ForwardInv'
  OBVIOUS
<1>1. /\ UNCHANGED <<cacheKind, hub, held, flight, asking, newest>>
      /\ \A h \in Refreshers : background[h] = Rest
  BY DEF EndpointTicks
<1>2. PICK g \in Refreshers : background' = [background EXCEPT ![g] = Takeoff]
  BY DEF EndpointTicks
<1>3. DOMAIN background = Refreshers
  BY DEF ForwardInv, ListingTypes
<1>4. background'[g] = Takeoff /\ \A h \in Refreshers : h # g => background'[h] = Rest
  BY <1>1, <1>2, <1>3
<1>5. ListingTypes'
  BY <1>1, <1>2, <1>3, <1>4 DEF ForwardInv, ListingTypes
<1>6. ReadsForward => ReadsForward'
  BY <1>1, <1>4 DEF ReadsForward, UpToDate, Takeoff, Rest
<1>7. Floors' /\ FoundCold' = FoundCold
  BY <1>1 DEF ForwardInv, Floors, FoundCold
<1>8. (HeldForward => HeldForward') /\ (AnswersForward => AnswersForward')
  BY <1>1 DEF HeldForward, AnswersForward
<1> QED
  BY <1>5, <1>6, <1>7, <1>8 DEF ForwardInv

(* A request that has just begun, and what it is after finding a cache cold.  *)
LEMMA AskAlone ==
    ASSUME NEW q \in AskRecord, q.at = "ask"
    PROVE  q \in [at : {"ask", "join", "joined", "fetch"}, floor : Nat, cold : BOOLEAN]
<1>1. q \in {Rest} => q.at = "rest"
  BY DEF Rest
<1>2. q \in [at : {"load"}, floor : Nat, cold : {TRUE}] => q.at = "load"
  OBVIOUS
<1>3. q \in [at : {"loaded", "again"}, listing : Listed, floor : Nat, cold : {TRUE}]
      => q.at \in {"loaded", "again"}
  OBVIOUS
<1>4. q \in [at : {"schedule", "answered"}, listing : Listed, floor : Nat, cold : BOOLEAN]
      => q.at \in {"schedule", "answered"}
  OBVIOUS
<1> QED
  BY <1>1, <1>2, <1>3, <1>4 DEF AskRecord

LEMMA Loading ==
    ASSUME NEW q \in [at : {"ask", "join", "joined", "fetch"}, floor : Nat, cold : BOOLEAN], NEW b
    PROVE  [q EXCEPT !.at = "load", !.cold = b] = [at |-> "load", floor |-> q.floor, cold |-> b]
<1> DEFINE p == [q EXCEPT !.at = "load"]
           n == [p EXCEPT !.cold = b]
<1>1. p = [at |-> "load", floor |-> q.floor, cold |-> q.cold]
  OBVIOUS
<1>2. DOMAIN p = {"at", "floor", "cold"} /\ p.at = "load" /\ p.floor = q.floor
  BY <1>1
<1>3. [q EXCEPT !.at = "load", !.cold = b] = n
  OBVIOUS
<1> HIDE DEF p
<1>4. n = [k \in {"at", "floor", "cold"} |-> IF k = "cold" THEN b ELSE p[k]]
  BY <1>2
<1>5. n = [at |-> "load", floor |-> q.floor, cold |-> b]
  BY <1>2, <1>4
<1> QED
  BY <1>3, <1>5

(* A request that finds a CachedEndpoint cold ends its promise.               *)
LEMMA EndpointGetForward ==
    ASSUME ListingAssumption, ForwardInv, NEW r \in Requesters, EndpointGet(r) PROVE ForwardInv'
<1>1. /\ UNCHANGED <<cacheKind, hub, flight, background>> /\ cacheKind = "endpoint"
      /\ held \in Listed /\ DOMAIN background = Refreshers
  BY DEF EndpointGet, ForwardInv, ListingTypes
<1>2. CASE asking[r].at \in {"ask", "again"} /\ AnswerTo(r, held) /\ UNCHANGED held
  <2>1. asking[r] # Rest
    BY <1>2 DEF Rest
  <2> QED
    BY <1>1, <1>2, <2>1, AnswerForward
<1>3. ASSUME NEW now \in AskRecord, now # Rest, now.cold, now.floor = asking[r].floor,
             asking[r] # Rest, asking' = [asking EXCEPT ![r] = now], newest' = newest,
             held' \in Listed
      PROVE  ForwardInv'
  <2>1. asking' \in [Requesters -> AskRecord] /\ asking'[r] = now
        /\ \A q \in Requesters : q # r => asking'[q] = asking[q]
    BY <1>3 DEF ForwardInv, ListingTypes
  <2>2. FoundCold'
    BY <1>1, <1>3, <2>1 DEF FoundCold
  <2>3. Floors'
    BY <1>3, <2>1 DEF ForwardInv, Floors
  <2>4. ListingTypes'
    BY <1>1, <1>3, <2>1 DEF ForwardInv, ListingTypes
  <2> QED
    BY <2>2, <2>3, <2>4 DEF ForwardInv
<1>4. CASE /\ asking[r].at = "ask" /\ UNCHANGED <<held, newest>>
           /\ asking' = [asking EXCEPT ![r].at = "load", ![r].cold = TRUE]
  <2>1. /\ asking[r] \in [at : {"ask", "join", "joined", "fetch"}, floor : Nat, cold : BOOLEAN]
        /\ asking[r] # Rest
    <3>1. asking[r] \in AskRecord /\ asking[r].at = "ask"
      BY <1>4 DEF ForwardInv, ListingTypes
    <3> QED
      BY <3>1, AskAlone DEF Rest
  <2> DEFINE now == [at |-> "load", floor |-> asking[r].floor, cold |-> TRUE]
  <2>2. now \in [at : {"load"}, floor : Nat, cold : {TRUE}]
    BY <2>1
  <2>3. now \in AskRecord /\ now # Rest
    BY <2>2 DEF AskRecord, Rest
  <2>4. asking' = [asking EXCEPT ![r] = now]
    <3>1. [asking[r] EXCEPT !.at = "load", !.cold = TRUE] = now
      BY <2>1, Loading, Zenon
    <3>2. asking' = [asking EXCEPT ![r] = [asking[r] EXCEPT !.at = "load", !.cold = TRUE]]
      BY <1>4
    <3> QED
      BY <3>1, <3>2
  <2>5. now.cold /\ now.floor = asking[r].floor
    OBVIOUS
  <2> HIDE DEF now
  <2> QED
    BY <1>1, <1>3, <1>4, <2>1, <2>3, <2>4, <2>5
<1>5. ASSUME asking[r].at = "load", NEW listing \in {hub, NoListing}, UNCHANGED <<held, newest>>,
             asking' = [asking EXCEPT ![r] = [at |-> "loaded", listing |-> listing,
                                              floor |-> @.floor, cold |-> TRUE]]
      PROVE  ForwardInv'
  <2>1. asking[r] \in AskRecord /\ asking[r] # Rest /\ asking[r].floor \in Nat
    BY <1>5, AskFields DEF ForwardInv, ListingTypes, Rest
  <2> DEFINE now == [at |-> "loaded", listing |-> listing, floor |-> asking[r].floor, cold |-> TRUE]
  <2>2. now \in [at : {"loaded", "again"}, listing : Listed, floor : Nat, cold : {TRUE}]
    BY <2>1 DEF Listed, ForwardInv, ListingTypes
  <2>3. now \in AskRecord /\ now # Rest
    BY <2>2 DEF AskRecord, Rest
  <2>4. asking' = [asking EXCEPT ![r] = now]
    BY <1>5
  <2>5. now.cold /\ now.floor = asking[r].floor
    OBVIOUS
  <2> HIDE DEF now
  <2> QED
    BY <1>1, <1>3, <1>5, <2>1, <2>3, <2>4, <2>5
<1>6. CASE /\ asking[r].at = "loaded" /\ StepTo(r, "again")
           /\ held' = IF asking[r].listing = NoListing THEN held ELSE asking[r].listing
  <2>1. asking[r] \in AskRecord /\ asking[r] # Rest /\ asking[r].listing \in Listed /\ asking[r].cold
    BY <1>6, AskFields DEF ForwardInv, ListingTypes, Rest
  <2>2. held' \in Listed
    BY <1>1, <1>6, <2>1
  <2>3. /\ asking' \in [Requesters -> AskRecord] /\ newest' = newest
        /\ Floors' /\ FoundCold' = FoundCold
    BY <1>1, <1>6, Stepping
  <2>4. FoundCold
    BY <1>1, <2>1 DEF FoundCold
  <2>5. ListingTypes'
    BY <1>1, <2>2, <2>3 DEF ForwardInv, ListingTypes
  <2> QED
    BY <2>3, <2>4, <2>5 DEF ForwardInv
<1> QED
  BY <1>2, <1>4, <1>5, <1>6 DEF EndpointGet

LEMMA ForwardStep == ListingAssumption /\ ForwardInv /\ [ListingNext]_listingVars => ForwardInv'
<1> SUFFICES ASSUME ListingAssumption, ForwardInv, [ListingNext]_listingVars PROVE ForwardInv'
  OBVIOUS
<1> HIDE DEF ListingAssumption
<1> QED
  BY HubForward, FetchReadsForward, FetchEndsForward, AskedForward, GivesUpForward, TTLForward,
     LockedForward, PendingForward, ScheduleForward, BackgroundForward, EndpointRefreshForward,
     EndpointTicksForward, EndpointGetForward DEF ListingNext

(* Listings move forward, of every cache, however long fetches take, whoever  *)
(* gives up and whatever expires: the pending-items caches of cmd/wl never    *)
(* answer a request with less than what another had been given before it      *)
(* began, and a CachedEndpoint does not unless it was found cold.             *)
THEOREM AnswersOnlyMoveForward == ListingSpec => []AnswersMoveForward
<1>1. ForwardInv => AnswersMoveForward
  <2> SUFFICES ASSUME ForwardInv, NEW r \in Requesters, asking[r].at = "answered",
                      asking[r].listing # NoListing, ~FoundCold
               PROVE  asking[r].listing >= asking[r].floor
    BY DEF AnswersMoveForward, FoundCold
  <2>1. asking[r].listing \in Nat /\ asking[r].floor \in Nat
    BY AskFields DEF ForwardInv, ListingTypes, Rest, Listed
  <2> QED
    BY <2>1 DEF ForwardInv, AnswersForward
<1>2. ListingInit => ForwardInv
  BY ForwardInitial, ListingAssumption
<1>3. ForwardInv /\ [ListingNext]_listingVars => ForwardInv'
  BY ForwardStep, ListingAssumption
<1> QED
  BY <1>1, <1>2, <1>3, PTL DEF ListingSpec

-----------------------------------------------------------------------------
(* The lookups of pull requests: types.                                      *)

PullCall ==
    [pc : {"idle", "done"}]
    \cup [pc : {"cached", "index", "list"}, head : Heads]
    \cup [pc : {"remember"}, ids : SUBSET Pulls, since : Nat, epoch : Nat,
          head : Heads \cup {Uncached}]
    \cup [pc : {"search"}, head : Heads \cup {Uncached}, ids : SUBSET Pulls, epoch : Nat,
          raced : BOOLEAN]
    \cup [pc : {"invalidate", "rememberCreated"}, op : {"create"}, id : Pulls, head : Heads,
          since : Nat, epoch : Nat]
    \cup [pc : {"invalidate"}, op : {"close"}, id : Pulls, since : Nat]

PullIndex == [ids : SUBSET Pulls, expires : Nat, raced : BOOLEAN, partial : BOOLEAN]
PullEntry == [id : Pulls, expires : Nat, raced : BOOLEAN]

LookupTypes ==
    /\ time \in Nat /\ epoch \in Nat
    /\ hubPulls \in [Pulls -> [state : {"none", "open", "closed"}, head : Heads \cup {Uncached},
                               closed : Nat]]
    /\ index \in PullIndex \cup {Uncached}
    /\ byHead \in [Heads -> PullEntry \cup {Uncached}]
    /\ calls \in [Lookups \cup Scans \cup Writes -> PullCall]

(* Open, or closed no earlier than t.                                         *)
OpenAt(p, t) == hubPulls[p].state = "closed" => hubPulls[p].closed >= t

(* What was read in this epoch knows of every write that was answered: the    *)
(* caches are cleared, and a new epoch begins, with each answer.              *)
NotClosed(ids) == \A p \in ids : <<"close", p>> \notin settled
NoneMissing(ids) ==
    \A p \in Pulls : <<"create", p>> \in settled /\ hubPulls[p].state = "open" => p \in ids

SettledOk ==
    \A p \in Pulls : /\ <<"close", p>> \in settled => hubPulls[p].state = "closed"
                     /\ <<"create", p>> \in settled => hubPulls[p].state # "none"

(* What the caches and the calls have of pulls was read not long ago, since   *)
(* no call of DoltHub takes more than a tick.                                 *)
IndexOk ==
    index # Uncached =>
        /\ index.expires <= time + prCacheTTL
        /\ \A p \in index.ids : OpenAt(p, index.expires - prCacheTTL - 1)
        /\ index.raced \/ NotClosed(index.ids)
        /\ index.raced \/ index.partial \/ NoneMissing(index.ids)

EntryOk(h) ==
    byHead[h] # Uncached =>
        /\ byHead[h].expires <= time + prCacheTTL
        /\ OpenAt(byHead[h].id, byHead[h].expires - 2 * prCacheTTL - 1)
        /\ byHead[h].raced \/ NotClosed({byHead[h].id})

CallOk(x) ==
    /\ x.pc = "remember" =>
          /\ x.since <= time /\ time <= x.since + 1 /\ x.epoch <= epoch
          /\ \A p \in x.ids : OpenAt(p, x.since)
          /\ x.epoch = epoch => NotClosed(x.ids) /\ NoneMissing(x.ids)
    /\ x.pc = "search" =>
          /\ x.epoch <= epoch
          /\ \A p \in x.ids : OpenAt(p, time - prCacheTTL - 1)
          /\ x.raced \/ x.epoch # epoch \/ NotClosed(x.ids)
    /\ x.pc \in {"invalidate", "rememberCreated"} =>
          /\ x.since <= time /\ time <= x.since + 1
          /\ x.op = "create" => OpenAt(x.id, x.since)
    /\ x.pc = "invalidate" =>
          /\ hubPulls[x.id].state # "none"
          /\ x.op = "close" => hubPulls[x.id].state = "closed"
          /\ x.op = "create" => /\ x.epoch <= epoch
                                /\ x.epoch = epoch => NotClosed({x.id})
    /\ x.pc = "rememberCreated" =>
          /\ x.epoch < epoch
          /\ x.epoch + 1 = epoch => NotClosed({x.id})

LookupInv ==
    /\ LookupTypes /\ SettledOk /\ IndexOk
    /\ \A h \in Heads : EntryOk(h)
    /\ \A c \in DOMAIN calls : CallOk(calls[c])

-----------------------------------------------------------------------------
LEMMA PullCallFields ==
    ASSUME NEW x \in PullCall
    PROVE  /\ x.pc \in {"cached", "index", "list"} => x.head \in Heads
           /\ x.pc = "remember" => /\ x.ids \in SUBSET Pulls /\ x.since \in Nat /\ x.epoch \in Nat
                                   /\ x.head \in Heads \cup {Uncached}
           /\ x.pc = "search" => /\ x.ids \in SUBSET Pulls /\ x.epoch \in Nat /\ x.raced \in BOOLEAN
                                 /\ x.head \in Heads \cup {Uncached}
           /\ x.pc \in {"invalidate", "rememberCreated"} =>
                 /\ x.id \in Pulls /\ x.since \in Nat /\ x.op \in {"create", "close"}
                 /\ x.op = "create" => x.epoch \in Nat /\ x.head \in Heads
           /\ x.pc = "rememberCreated" => x.op = "create"
  BY DEF PullCall

LEMMA OpenEarlier ==
    ASSUME LookupTypes, NEW p \in Pulls, NEW t \in Int, NEW u \in Int, u <= t, OpenAt(p, t)
    PROVE  OpenAt(p, u)
  BY DEF LookupTypes, OpenAt

(* Pulls are opened and then closed, and that is now.                         *)
HubStep ==
    /\ hubPulls' \in [Pulls -> [state : {"none", "open", "closed"}, head : Heads \cup {Uncached},
                                closed : Nat]]
    /\ \A p \in Pulls :
          \/ hubPulls'[p] = hubPulls[p]
          \/ hubPulls[p].state = "none" /\ hubPulls'[p].state = "open"
          \/ /\ hubPulls[p].state = "open" /\ hubPulls'[p].state = "closed"
             /\ hubPulls'[p].closed = time

LEMMA OpenStays ==
    ASSUME LookupTypes, HubStep, UNCHANGED time, NEW p \in Pulls, NEW t \in Int, t <= time,
           OpenAt(p, t)
    PROVE  hubPulls'[p].state = "closed" => hubPulls'[p].closed >= t
  BY DEF LookupTypes, HubStep, OpenAt

LEMMA Stable ==
    ASSUME LookupAssumption, LookupInv, HubStep, UNCHANGED <<time, epoch, settled>>
    PROVE  /\ SettledOk'
           /\ index' = index => IndexOk'
           /\ \A h \in Heads : byHead'[h] = byHead[h] => EntryOk(h)'
           /\ \A d \in DOMAIN calls : calls'[d] = calls[d] => CallOk(calls[d])'
<1> prCacheTTL \in Nat /\ time \in Nat /\ LookupTypes /\ SettledOk
  BY DEF LookupAssumption, LookupInv, LookupTypes
<1>1. SettledOk'
  BY DEF SettledOk, HubStep
<1>2. \A ids : /\ NotClosed(ids) => \A p \in ids : <<"close", p>> \notin settled'
               /\ NoneMissing(ids) => \A p \in Pulls :
                     <<"create", p>> \in settled' /\ hubPulls'[p].state = "open" => p \in ids
  BY DEF NotClosed, NoneMissing, HubStep, SettledOk
<1>3. index' = index => IndexOk'
  <2>1. SUFFICES ASSUME index' = index, index # Uncached PROVE IndexOk'
    BY DEF IndexOk
  <2>2. index \in PullIndex /\ IndexOk
    BY <2>1 DEF LookupTypes, LookupInv
  <2>3. /\ index.expires \in Nat /\ index.ids \in SUBSET Pulls
        /\ index.expires - prCacheTTL - 1 \in Int /\ index.expires - prCacheTTL - 1 <= time
    BY <2>1, <2>2 DEF PullIndex, IndexOk
  <2>4. \A p \in index.ids : hubPulls'[p].state = "closed" =>
                                hubPulls'[p].closed >= index.expires - prCacheTTL - 1
    BY <2>1, <2>2, <2>3, OpenStays DEF IndexOk
  <2> QED
    BY <1>2, <2>1, <2>2, <2>4 DEF IndexOk, OpenAt, NotClosed, NoneMissing
<1>4. ASSUME NEW h \in Heads, byHead'[h] = byHead[h] PROVE EntryOk(h)'
  <2>1. SUFFICES ASSUME byHead[h] # Uncached PROVE EntryOk(h)'
    BY <1>4 DEF EntryOk
  <2>2. byHead[h] \in PullEntry /\ EntryOk(h)
    BY <2>1 DEF LookupTypes, LookupInv
  <2> DEFINE t == byHead[h].expires - 2 * prCacheTTL - 1
  <2>3. byHead[h].expires \in Nat /\ byHead[h].id \in Pulls /\ t \in Int /\ t <= time
    BY <2>1, <2>2 DEF PullEntry, EntryOk
  <2>4. hubPulls'[byHead[h].id].state = "closed" => hubPulls'[byHead[h].id].closed >= t
    <3>1. OpenAt(byHead[h].id, t)
      BY <2>1, <2>2 DEF EntryOk
    <3> HIDE DEF t
    <3> QED
      BY <2>3, <3>1, OpenStays
  <2>5. byHead[h].raced \/ NotClosed({byHead[h].id})
    BY <2>1, <2>2 DEF EntryOk
  <2>6. byHead[h].expires <= time + prCacheTTL
    BY <2>1, <2>2 DEF EntryOk
  <2> QED
    BY <1>2, <1>4, <2>4, <2>5, <2>6 DEF EntryOk, OpenAt, NotClosed
<1>5. ASSUME NEW d \in DOMAIN calls, calls'[d] = calls[d] PROVE CallOk(calls[d])'
  <2>1. PICK x : x = calls[d]
    OBVIOUS
  <2>2. x \in PullCall /\ CallOk(x)
    BY <2>1 DEF LookupTypes, LookupInv
  <2>3. CASE x.pc = "remember"
    <3>1. x.since \in Nat /\ x.ids \in SUBSET Pulls /\ x.since <= time
      BY <2>2, <2>3, PullCallFields DEF CallOk
    <3>2. \A p \in x.ids : hubPulls'[p].state = "closed" => hubPulls'[p].closed >= x.since
      BY <2>2, <2>3, <3>1, OpenStays DEF CallOk
    <3> QED
      BY <1>2, <1>5, <2>1, <2>2, <2>3, <3>2 DEF CallOk, OpenAt, NotClosed, NoneMissing
  <2>4. CASE x.pc = "search"
    <3>1. x.ids \in SUBSET Pulls /\ time - prCacheTTL - 1 \in Int /\ time - prCacheTTL - 1 <= time
      BY <2>2, <2>4, PullCallFields
    <3>2. \A p \in x.ids : hubPulls'[p].state = "closed"
                              => hubPulls'[p].closed >= time - prCacheTTL - 1
      BY <2>2, <2>4, <3>1, OpenStays DEF CallOk
    <3> QED
      BY <1>2, <1>5, <2>1, <2>2, <2>4, <3>2 DEF CallOk, OpenAt, NotClosed
  <2>5. CASE x.pc \in {"invalidate", "rememberCreated"}
    <3>1. x.since \in Nat /\ x.id \in Pulls /\ x.since <= time
      BY <2>2, <2>5, PullCallFields DEF CallOk
    <3>2. x.op = "create" => (hubPulls'[x.id].state = "closed" => hubPulls'[x.id].closed >= x.since)
      BY <2>2, <2>5, <3>1, OpenStays DEF CallOk
    <3>3. /\ hubPulls[x.id].state # "none" => hubPulls'[x.id].state # "none"
          /\ hubPulls[x.id].state = "closed" => hubPulls'[x.id].state = "closed"
      BY <3>1 DEF HubStep
    <3> QED
      BY <1>2, <1>5, <2>1, <2>2, <2>5, <3>2, <3>3 DEF CallOk, OpenAt, NotClosed
  <2>6. CASE x.pc \notin {"remember", "search", "invalidate", "rememberCreated"}
    BY <1>5, <2>1, <2>6 DEF CallOk
  <2> QED
    BY <2>3, <2>4, <2>5, <2>6
<1> QED
  BY <1>1, <1>3, <1>4, <1>5


(* A step of one call, which the caches may take something from.              *)
LEMMA CallStep ==
    ASSUME LookupAssumption, LookupInv, HubStep, UNCHANGED <<time, epoch, settled>>,
           NEW c \in DOMAIN calls, NEW x \in PullCall, calls' = [calls EXCEPT ![c] = x],
           CallOk(x)',
           index' = index \/ (index' \in PullIndex /\ IndexOk'),
           byHead' \in [Heads -> PullEntry \cup {Uncached}],
           \A h \in Heads : byHead'[h] = byHead[h] \/ EntryOk(h)'
    PROVE  LookupInv'
<1>1. /\ SettledOk'
      /\ index' = index => IndexOk'
      /\ \A h \in Heads : byHead'[h] = byHead[h] => EntryOk(h)'
      /\ \A d \in DOMAIN calls : calls'[d] = calls[d] => CallOk(calls[d])'
  BY Stable
<1>2. LookupTypes'
  BY DEF LookupTypes, LookupInv, HubStep
<1>3. ASSUME NEW d \in DOMAIN calls' PROVE CallOk(calls[d])'
  <2>1. d \in DOMAIN calls
    BY <1>3
  <2>2. CASE d = c
    <3>1. calls'[d] = x
      BY <2>1, <2>2
    <3> QED
      BY <3>1 DEF CallOk, OpenAt, NotClosed, NoneMissing
  <2>3. CASE d # c
    <3>1. calls'[d] = calls[d]
      BY <2>1, <2>3
    <3> QED
      BY <1>1, <2>1, <3>1
  <2> QED
    BY <2>2, <2>3
<1> QED
  BY <1>1, <1>2, <1>3 DEF LookupInv

LEMMA QuietHub == ASSUME LookupTypes, UNCHANGED hubPulls PROVE HubStep
  BY DEF LookupTypes, HubStep

LEMMA LookupAnswers ==
    ASSUME NEW c, Done(c)
    PROVE  \E x \in PullCall : /\ x.pc \in {"idle", "done"} /\ CallOk(x)'
                               /\ calls' = [calls EXCEPT ![c] = x]
<1>1. PICK x : x = [pc |-> IF c \in Writes THEN "done" ELSE "idle"]
  OBVIOUS
<1>2. x \in [pc : {"idle", "done"}] /\ x.pc \in {"idle", "done"}
  BY <1>1
<1>3. x \in PullCall
  BY <1>2 DEF PullCall
<1>4. CallOk(x)'
  BY <1>2 DEF CallOk
<1> QED
  BY <1>1, <1>2, <1>3, <1>4 DEF Done, Set

-----------------------------------------------------------------------------
(* The actions. *)

(* Steps that take nothing from the pulls: the next question, or an answer.   *)
LEMMA PlainStep ==
    ASSUME LookupAssumption, LookupInv, NEW c,
           c \in Lookups \cup Scans \cup Writes,
           UNCHANGED <<time, hubPulls, index, byHead, epoch, settled>>,
           \E x \in PullCall : CallOk(x)' /\ calls' = [calls EXCEPT ![c] = x]
    PROVE  LookupInv'
<1>1. LookupTypes /\ DOMAIN calls = Lookups \cup Scans \cup Writes
  BY DEF LookupInv, LookupTypes
<1>2. HubStep
  BY <1>1, QuietHub
<1>3. byHead' \in [Heads -> PullEntry \cup {Uncached}]
  BY <1>1 DEF LookupTypes
<1>4. PICK x \in PullCall : CallOk(x)' /\ calls' = [calls EXCEPT ![c] = x]
  OBVIOUS
<1> QED
  BY <1>1, <1>2, <1>3, <1>4, CallStep

LEMMA AnswerStep ==
    ASSUME LookupAssumption, LookupInv, NEW c,
           c \in Lookups \cup Scans \cup Writes, Done(c),
           UNCHANGED <<time, hubPulls, index, byHead, epoch, settled>>
    PROVE  LookupInv'
<1>1. \E x \in PullCall : CallOk(x)' /\ calls' = [calls EXCEPT ![c] = x]
  BY LookupAnswers
<1> QED
  BY <1>1, PlainStep

LEMMA AskStep ==
    ASSUME LookupAssumption, LookupInv, NEW c \in Lookups,
           \/ \E h \in Heads : BeginFind(c, h)
           \/ CachedPRLookup(c)
           \/ CachedPRIndex(c)
    PROVE  LookupInv'
<1>1. /\ LookupTypes /\ calls[c] \in PullCall
      /\ UNCHANGED <<time, hubPulls, index, byHead, epoch, settled>>
  BY DEF LookupInv, LookupTypes, BeginFind, CachedPRLookup, CachedPRIndex, Found
<1>2. CASE Done(c)
  BY <1>1, <1>2, AnswerStep
<1>3. CASE \E x \in [pc : {"cached", "index", "list"}, head : Heads] : Set(c, x)
  <2>1. PICK x \in [pc : {"cached", "index", "list"}, head : Heads] : Set(c, x)
    BY <1>3
  <2>2. x \in PullCall /\ CallOk(x)'
    BY DEF PullCall, CallOk
  <2> QED
    BY <1>1, <2>1, <2>2, PlainStep DEF Set
<1>4. CASE Doing(c, "index") /\ Fresh(index) /\ CachedPRIndex(c)
  <2>1. PICK x : x = [pc |-> "search", head |-> calls[c].head, ids |-> index.ids,
                      epoch |-> epoch, raced |-> index.raced]
    OBVIOUS
  <2>2. calls[c].head \in Heads
    BY <1>1, <1>4, PullCallFields DEF Doing
  <2>3. index # Uncached /\ time <= index.expires /\ index \in PullIndex /\ IndexOk
    BY <1>1, <1>4 DEF Fresh, LookupTypes, LookupInv
  <2>4. index.ids \in SUBSET Pulls /\ index.raced \in BOOLEAN /\ index.expires \in Nat
        /\ epoch \in Nat /\ time \in Nat /\ prCacheTTL \in Nat
    BY <1>1, <2>3 DEF PullIndex, LookupTypes, LookupAssumption
  <2>5. x \in [pc : {"search"}, head : Heads \cup {Uncached}, ids : SUBSET Pulls, epoch : Nat,
               raced : BOOLEAN]
    BY <2>1, <2>2, <2>4
  <2>6. x.pc = "search" /\ x.ids = index.ids /\ x.raced = index.raced /\ x.epoch = epoch
    BY <2>1
  <2>7. \A p \in index.ids : OpenAt(p, time - prCacheTTL - 1)
    <3>1. /\ index.expires - prCacheTTL - 1 \in Int /\ time - prCacheTTL - 1 \in Int
          /\ time - prCacheTTL - 1 <= index.expires - prCacheTTL - 1
      BY <2>3, <2>4
    <3>2. \A p \in index.ids : OpenAt(p, index.expires - prCacheTTL - 1) /\ p \in Pulls
      BY <2>3, <2>4 DEF IndexOk
    <3> QED
      BY <1>1, <3>1, <3>2, OpenEarlier
  <2>8. index.raced \/ NotClosed(index.ids)
    BY <2>3 DEF IndexOk
  <2>9. CallOk(x)
    BY <2>4, <2>6, <2>7, <2>8 DEF CallOk
  <2>10. CallOk(x)'
    BY <1>1, <2>9 DEF CallOk, OpenAt, NotClosed, NoneMissing
  <2>11. Set(c, x)
    BY <1>4, <2>1 DEF CachedPRIndex
  <2>12. x \in PullCall
    BY <2>5 DEF PullCall
  <2> QED
    BY <1>1, <2>10, <2>11, <2>12, PlainStep DEF Set
<1>5. \/ Done(c)
      \/ \E x \in [pc : {"cached", "index", "list"}, head : Heads] : Set(c, x)
      \/ Doing(c, "index") /\ Fresh(index) /\ CachedPRIndex(c)
  <2>1. ASSUME NEW h \in Heads, BeginFind(c, h)
        PROVE  \E x \in [pc : {"cached", "index", "list"}, head : Heads] : Set(c, x)
    BY <2>1 DEF BeginFind
  <2>2. ASSUME Doing(c, "cached") \/ Doing(c, "index"), NEW k \in {"index", "list"}
        PROVE  [calls[c] EXCEPT !.pc = k] \in [pc : {"cached", "index", "list"}, head : Heads]
    <3>1. calls[c] \in [pc : {"cached", "index", "list"}, head : Heads]
      BY <1>1, <2>2 DEF PullCall, Doing
    <3> QED
      BY <3>1
  <2>3. CachedPRLookup(c) => \/ Done(c)
                             \/ \E x \in [pc : {"cached", "index", "list"}, head : Heads] : Set(c, x)
    BY <2>2 DEF CachedPRLookup, Found
  <2>4. CachedPRIndex(c) /\ ~Fresh(index)
           => \E x \in [pc : {"cached", "index", "list"}, head : Heads] : Set(c, x)
    BY <2>2 DEF CachedPRIndex
  <2> QED
    BY <2>1, <2>3, <2>4 DEF CachedPRIndex
<1> QED
  BY <1>2, <1>3, <1>4, <1>5

LEMMA ListStep ==
    ASSUME LookupAssumption, LookupInv, NEW c \in Lookups \cup Scans, ListPulls(c)
    PROVE  LookupInv'
<1>1. /\ LookupTypes /\ SettledOk /\ calls[c] \in PullCall
      /\ UNCHANGED <<time, hubPulls, index, byHead, epoch, settled>>
  BY DEF LookupInv, LookupTypes, ListPulls
<1>2. CASE Done(c)
  BY <1>1, <1>2, AnswerStep
<1>3. CASE ~Done(c)
  <2>1. PICK x : x = [pc |-> "remember", ids |-> OpenPulls, since |-> time, epoch |-> epoch,
                      head |-> IF c \in Scans THEN Uncached ELSE calls[c].head]
    OBVIOUS
  <2>2. Set(c, x)
    BY <1>3, <2>1 DEF ListPulls
  <2>3. c \in Scans \/ calls[c].head \in Heads
    BY <1>1, PullCallFields DEF ListPulls, Doing
  <2>4. OpenPulls \in SUBSET Pulls /\ time \in Nat /\ epoch \in Nat
    BY <1>1 DEF OpenPulls, LookupTypes
  <2>5. x \in [pc : {"remember"}, ids : SUBSET Pulls, since : Nat, epoch : Nat,
               head : Heads \cup {Uncached}]
    BY <2>1, <2>3, <2>4
  <2>6. x.pc = "remember" /\ x.ids = OpenPulls /\ x.since = time /\ x.epoch = epoch
    BY <2>1
  <2>7. NotClosed(OpenPulls) /\ NoneMissing(OpenPulls) /\ \A p \in OpenPulls : OpenAt(p, time)
    BY <1>1 DEF NotClosed, NoneMissing, OpenPulls, OpenAt, SettledOk
  <2>8. CallOk(x)
    BY <2>4, <2>6, <2>7 DEF CallOk
  <2>9. CallOk(x)'
    BY <1>1, <2>8 DEF CallOk, OpenAt, NotClosed, NoneMissing
  <2>10. x \in PullCall
    BY <2>5 DEF PullCall
  <2> QED
    BY <1>1, <2>2, <2>9, <2>10, PlainStep DEF Set
<1> QED
  BY <1>2, <1>3


LEMMA RememberStep ==
    ASSUME LookupAssumption, LookupInv, NEW c \in Lookups \cup Scans,
           NEW ids \in SUBSET calls[c].ids, RememberPRIndex(c, ids)
    PROVE  LookupInv'
<1> DEFINE raced == calls[c].epoch # epoch
<1>1. /\ LookupTypes /\ SettledOk /\ c \in DOMAIN calls
      /\ UNCHANGED <<time, hubPulls, epoch, settled>>
      /\ time \in Nat /\ epoch \in Nat /\ prCacheTTL \in Nat
  BY DEF LookupInv, LookupTypes, RememberPRIndex, LookupAssumption
<1>2. HubStep
  BY <1>1, QuietHub
<1>3. PICK x \in PullCall : x = calls[c] /\ CallOk(x)
  BY <1>1 DEF LookupTypes, LookupInv
<1>4. x.pc = "remember"
  BY <1>3 DEF RememberPRIndex, Doing
<1>5. /\ x.ids \in SUBSET Pulls /\ x.since \in Nat /\ x.epoch \in Nat /\ x.epoch <= epoch
      /\ x.head \in Heads \cup {Uncached} /\ time <= x.since + 1
  BY <1>3, <1>4, PullCallFields DEF CallOk
<1>6. /\ ids \in SUBSET Pulls /\ raced \in BOOLEAN
      /\ \A p \in ids : \A t \in Int : t <= time - 1 => OpenAt(p, t)
  <2>1. \A p \in ids : p \in Pulls /\ OpenAt(p, x.since)
    BY <1>3, <1>4, <1>5 DEF CallOk
  <2>2. \A t \in Int : t <= time - 1 => t <= x.since
    BY <1>1, <1>5
  <2> QED
    BY <1>1, <1>5, <2>1, <2>2, OpenEarlier
<1>7. /\ raced \/ NotClosed(ids)
      /\ raced \/ ids # calls[c].ids \/ NoneMissing(ids)
  BY <1>3, <1>4 DEF CallOk, NotClosed
<1>8. index' \in PullIndex /\ index'.ids = ids /\ index'.expires = time + prCacheTTL
      /\ index'.raced = raced /\ index'.partial = (ids # calls[c].ids)
  <2>1. index' = [ids |-> ids, expires |-> time + prCacheTTL, raced |-> raced,
                  partial |-> ids # calls[c].ids]
    BY DEF RememberPRIndex
  <2>2. time + prCacheTTL \in Nat
    BY <1>1
  <2> HIDE DEF raced
  <2> QED
    BY <1>6, <2>1, <2>2 DEF PullIndex
<1>9. IndexOk'
  <2>1. \A p \in ids : OpenAt(p, index'.expires - prCacheTTL - 1)
    <3>1. index'.expires - prCacheTTL - 1 = time - 1 /\ time - 1 \in Int
      BY <1>1, <1>8
    <3> QED
      BY <1>6, <3>1
  <2>2. index'.expires <= time + prCacheTTL
    BY <1>1, <1>8
  <2> HIDE DEF raced
  <2> QED
    BY <1>1, <1>7, <1>8, <2>1, <2>2 DEF IndexOk, OpenAt, NotClosed, NoneMissing
<1>10. ASSUME NEW h \in Heads
       PROVE  \/ byHead'[h] = byHead[h]
              \/ byHead'[h] = Uncached
              \/ \E p \in ids : byHead'[h] = [id |-> p, expires |-> time + prCacheTTL,
                                              raced |-> raced]
  <2>1. HeadsOf(ids, h) # {} => (CHOOSE p \in HeadsOf(ids, h) : TRUE) \in ids
    BY DEF HeadsOf
  <2> HIDE DEF raced
  <2>2. byHead'[h] = LET own == HeadsOf(ids, h)
                     IN  CASE own = {} -> byHead[h]
                           [] Cardinality(own) > 1 -> Uncached
                           [] OTHER -> [id |-> CHOOSE p \in own : TRUE,
                                        expires |-> time + prCacheTTL, raced |-> raced]
    BY DEF RememberPRIndex, raced
  <2>3. CASE HeadsOf(ids, h) = {}
    BY <2>2, <2>3
  <2>4. CASE HeadsOf(ids, h) # {} /\ Cardinality(HeadsOf(ids, h)) > 1
    BY <2>2, <2>4
  <2>5. CASE HeadsOf(ids, h) # {} /\ ~(Cardinality(HeadsOf(ids, h)) > 1)
    BY <2>1, <2>2, <2>5
  <2> QED
    BY <2>3, <2>4, <2>5
<1>11. ASSUME NEW h \in Heads
       PROVE  /\ byHead'[h] \in PullEntry \cup {Uncached}
              /\ byHead'[h] = byHead[h] \/ EntryOk(h)'
  <2>1. CASE byHead'[h] = byHead[h]
    BY <1>1, <2>1 DEF LookupTypes
  <2>2. CASE byHead'[h] = Uncached
    BY <2>2 DEF EntryOk
  <2>3. CASE \E p \in ids : byHead'[h] = [id |-> p, expires |-> time + prCacheTTL, raced |-> raced]
    <3>1. PICK p \in ids : byHead'[h] = [id |-> p, expires |-> time + prCacheTTL, raced |-> raced]
      BY <2>3
    <3> HIDE DEF raced
    <3>2. time + prCacheTTL \in Nat /\ p \in Pulls
      BY <1>1, <1>6
    <3>3. /\ byHead'[h] \in PullEntry /\ byHead'[h].id = p
          /\ byHead'[h].expires = time + prCacheTTL /\ byHead'[h].raced = raced
      BY <1>6, <3>1, <3>2 DEF PullEntry
    <3>4. OpenAt(p, byHead'[h].expires - 2 * prCacheTTL - 1)
      <4>1. /\ byHead'[h].expires - 2 * prCacheTTL - 1 \in Int
            /\ byHead'[h].expires - 2 * prCacheTTL - 1 <= time - 1
        BY <1>1, <3>3
      <4> QED
        BY <1>6, <4>1
    <3>5. raced \/ NotClosed({p})
      BY <1>7 DEF NotClosed
    <3>6. byHead'[h].expires <= time + prCacheTTL
      BY <1>1, <3>3
    <3> QED
      BY <1>1, <3>3, <3>4, <3>5, <3>6 DEF EntryOk, OpenAt, NotClosed
  <2> QED
    BY <1>10, <2>1, <2>2, <2>3
<1>12. byHead' \in [Heads -> PullEntry \cup {Uncached}]
  <2>1. byHead' = [h \in Heads |-> byHead'[h]]
    BY DEF RememberPRIndex
  <2> QED
    BY <1>11, <2>1
<1>13. \E y \in PullCall : CallOk(y)' /\ calls' = [calls EXCEPT ![c] = y]
  <2>1. CASE Done(c)
    BY <2>1, LookupAnswers
  <2>2. CASE ~Done(c)
    <3>1. PICK y : y = [pc |-> "search", head |-> calls[c].head, ids |-> ids,
                        epoch |-> calls[c].epoch, raced |-> FALSE]
      OBVIOUS
    <3>2. Set(c, y)
      BY <2>2, <3>1 DEF RememberPRIndex
    <3>3. y \in [pc : {"search"}, head : Heads \cup {Uncached}, ids : SUBSET Pulls, epoch : Nat,
                 raced : BOOLEAN]
      BY <1>3, <1>5, <1>6, <3>1
    <3>4. y.pc = "search" /\ y.ids = ids /\ y.raced = FALSE /\ y.epoch = x.epoch
      BY <1>3, <3>1
    <3>5. \A p \in ids : OpenAt(p, time - prCacheTTL - 1)
      <4>1. time - prCacheTTL - 1 \in Int /\ time - prCacheTTL - 1 <= time - 1
        BY <1>1
      <4> QED
        BY <1>6, <4>1
    <3>6. CallOk(y)
      BY <1>3, <1>5, <1>7, <3>4, <3>5 DEF CallOk
    <3>7. CallOk(y)'
      BY <1>1, <3>6 DEF CallOk, OpenAt, NotClosed, NoneMissing
    <3>8. y \in PullCall
      BY <3>3 DEF PullCall
    <3> QED
      BY <3>2, <3>7, <3>8 DEF Set
  <2> QED
    BY <2>1, <2>2
<1>14. PICK y \in PullCall : CallOk(y)' /\ calls' = [calls EXCEPT ![c] = y]
  BY <1>13
<1> HIDE DEF raced
<1> QED
  BY <1>1, <1>2, <1>8, <1>9, <1>11, <1>12, <1>14, CallStep

LEMMA SearchStep ==
    ASSUME LookupAssumption, LookupInv, NEW c \in Lookups, SearchIndex(c)
    PROVE  LookupInv'
<1>1. /\ LookupTypes /\ c \in DOMAIN calls /\ Done(c)
      /\ UNCHANGED <<time, hubPulls, index, epoch, settled>>
      /\ time \in Nat /\ epoch \in Nat /\ prCacheTTL \in Nat
  BY DEF LookupInv, LookupTypes, SearchIndex, LookupAssumption
<1>2. HubStep
  BY <1>1, QuietHub
<1>3. PICK x \in PullCall : x = calls[c] /\ CallOk(x)
  BY <1>1 DEF LookupTypes, LookupInv
<1>4. x.pc = "search" /\ x.ids \in SUBSET Pulls /\ x.raced \in BOOLEAN
  BY <1>3, PullCallFields DEF SearchIndex, Doing
<1>5. CASE byHead' = byHead
  BY <1>1, <1>5, AnswerStep
<1>6. CASE byHead' # byHead
  <2>1. PICK p \in x.ids : byHead' = [byHead EXCEPT ![x.head] =
                                         [id |-> p, expires |-> time + prCacheTTL,
                                          raced |-> x.raced \/ x.epoch # epoch]]
    BY <1>3, <1>6 DEF SearchIndex, HeadsOf
  <2>2. PICK e : e = [id |-> p, expires |-> time + prCacheTTL, raced |-> x.raced \/ x.epoch # epoch]
    OBVIOUS
  <2>3. time + prCacheTTL \in Nat /\ p \in Pulls
    BY <1>1, <1>4
  <2>4. /\ e \in PullEntry /\ e.id = p /\ e.expires = time + prCacheTTL
        /\ e.raced = (x.raced \/ x.epoch # epoch)
    BY <2>2, <2>3 DEF PullEntry
  <2>5. byHead' \in [Heads -> PullEntry \cup {Uncached}]
    BY <1>1, <2>1, <2>2, <2>4 DEF LookupTypes
  <2>6. OpenAt(p, e.expires - 2 * prCacheTTL - 1)
    <3>1. e.expires - 2 * prCacheTTL - 1 = time - prCacheTTL - 1
      BY <1>1, <2>4
    <3> QED
      BY <1>3, <1>4, <3>1 DEF CallOk
  <2>7. e.raced \/ NotClosed({p})
    BY <1>3, <1>4, <2>4 DEF CallOk, NotClosed
  <2>8. ASSUME NEW h \in Heads PROVE byHead'[h] = byHead[h] \/ EntryOk(h)'
    <3>1. CASE byHead'[h] = byHead[h]
      BY <3>1
    <3>2. CASE byHead'[h] = e
      <4>1. e.expires <= time + prCacheTTL
        BY <1>1, <2>4
      <4> QED
        BY <1>1, <2>4, <2>6, <2>7, <3>2, <4>1 DEF EntryOk, OpenAt, NotClosed
    <3> QED
      BY <1>1, <2>1, <2>2, <3>1, <3>2 DEF LookupTypes
  <2>9. PICK y \in PullCall : CallOk(y)' /\ calls' = [calls EXCEPT ![c] = y]
    BY <1>1, LookupAnswers
  <2> QED
    BY <1>1, <1>2, <2>5, <2>8, <2>9, CallStep
<1> QED
  BY <1>5, <1>6


LEMMA WriteStep ==
    ASSUME LookupAssumption, LookupInv, NEW w \in Writes,
           \/ \E p \in Pulls : SendClose(w, p) \/ \E h \in Heads : SendCreate(w, p, h)
           \/ LoseAnswer(w)
    PROVE  LookupInv'
<1>1. /\ LookupTypes /\ SettledOk /\ w \in DOMAIN calls /\ time \in Nat /\ epoch \in Nat
      /\ UNCHANGED <<time, index, byHead, epoch, settled>>
  BY DEF LookupInv, LookupTypes, SendClose, SendCreate, LoseAnswer
<1>2. byHead' \in [Heads -> PullEntry \cup {Uncached}]
  BY <1>1 DEF LookupTypes
<1>3. CASE LoseAnswer(w)
  BY <1>1, <1>3, AnswerStep DEF LoseAnswer
<1>4. ASSUME NEW p \in Pulls, NEW h \in Heads, SendCreate(w, p, h) PROVE LookupInv'
  <2>1. HubStep
    BY <1>1, <1>4 DEF SendCreate, Opened, HubStep, LookupTypes
  <2>2. PICK x : x = [pc |-> "invalidate", op |-> "create", id |-> p, head |-> h,
                      since |-> time, epoch |-> epoch]
    OBVIOUS
  <2>3. x \in [pc : {"invalidate", "rememberCreated"}, op : {"create"}, id : Pulls, head : Heads,
               since : Nat, epoch : Nat]
    BY <1>1, <2>2
  <2>4. x.pc = "invalidate" /\ x.op = "create" /\ x.id = p /\ x.since = time /\ x.epoch = epoch
    BY <2>2
  <2>5. hubPulls'[p].state = "open" /\ <<"close", p>> \notin settled
    BY <1>1, <1>4 DEF SendCreate, Opened, LookupTypes, SettledOk
  <2>6. CallOk(x)'
    BY <1>1, <2>4, <2>5 DEF CallOk, OpenAt, NotClosed
  <2>7. x \in PullCall /\ calls' = [calls EXCEPT ![w] = x]
    BY <1>4, <2>2, <2>3 DEF PullCall, SendCreate, Set
  <2> QED
    BY <1>1, <1>2, <2>1, <2>6, <2>7, CallStep
<1>5. ASSUME NEW p \in Pulls, SendClose(w, p) PROVE LookupInv'
  <2>1. HubStep /\ hubPulls'[p].state = "closed"
    <3>1. CASE hubPulls[p].state = "open"
      BY <1>1, <1>5, <3>1 DEF SendClose, Closed, HubStep, LookupTypes
    <3>2. CASE hubPulls[p].state # "open"
      BY <1>1, <1>5, <3>2 DEF SendClose, HubStep, LookupTypes
    <3> QED
      BY <3>1, <3>2
  <2>2. PICK x : x = [pc |-> "invalidate", op |-> "close", id |-> p, since |-> time]
    OBVIOUS
  <2>3. x \in [pc : {"invalidate"}, op : {"close"}, id : Pulls, since : Nat]
    BY <1>1, <2>2
  <2>4. x.pc = "invalidate" /\ x.op = "close" /\ x.id = p /\ x.since = time
    BY <2>2
  <2>5. CallOk(x)'
    BY <1>1, <2>1, <2>4 DEF CallOk
  <2>6. x \in PullCall /\ calls' = [calls EXCEPT ![w] = x]
    BY <1>5, <2>2, <2>3 DEF PullCall, SendClose, Set
  <2> QED
    BY <1>1, <1>2, <2>1, <2>5, <2>6, CallStep
<1> QED
  BY <1>3, <1>4, <1>5

(* With an answer a new epoch begins: whatever is still under way was read    *)
(* in an earlier one.                                                         *)
LEMMA AnsweredStep ==
    ASSUME LookupAssumption, LookupInv, NEW w \in Writes, Answered(w)
    PROVE  LookupInv'
<1>1. /\ LookupTypes /\ SettledOk /\ w \in DOMAIN calls /\ time \in Nat /\ epoch \in Nat
      /\ UNCHANGED <<time, hubPulls>>
      /\ epoch' = epoch + 1 /\ index' = Uncached /\ byHead' = [h \in Heads |-> Uncached]
      /\ settled' = settled \cup {<<calls[w].op, calls[w].id>>}
  BY DEF LookupInv, LookupTypes, Answered, InvalidatePRRepoCaches
<1>2. PICK x \in PullCall : x = calls[w] /\ CallOk(x)
  BY <1>1 DEF LookupTypes, LookupInv
<1>3. /\ x.pc = "invalidate" /\ x.id \in Pulls /\ x.op \in {"create", "close"} /\ x.since \in Nat
      /\ x.op = "create" => x.epoch \in Nat /\ x.head \in Heads
  BY <1>2, PullCallFields DEF Answered, Doing
<1>4. SettledOk'
  BY <1>1, <1>2, <1>3 DEF SettledOk, CallOk
<1>5. IndexOk' /\ \A h \in Heads : EntryOk(h)'
  BY <1>1 DEF IndexOk, EntryOk
<1>6. \E y \in PullCall : CallOk(y)' /\ calls' = [calls EXCEPT ![w] = y]
  <2>1. CASE x.op = "create"
    <3>1. PICK y : y = [x EXCEPT !.pc = "rememberCreated"]
      OBVIOUS
    <3>2. x \in [pc : {"invalidate", "rememberCreated"}, op : {"create"}, id : Pulls, head : Heads,
                 since : Nat, epoch : Nat]
      BY <1>3, <2>1 DEF PullCall
    <3>3. /\ y \in [pc : {"invalidate", "rememberCreated"}, op : {"create"}, id : Pulls,
                    head : Heads, since : Nat, epoch : Nat]
          /\ y.pc = "rememberCreated" /\ y.op = x.op /\ y.id = x.id /\ y.since = x.since
          /\ y.epoch = x.epoch
      BY <3>1, <3>2
    <3>4. x.epoch <= epoch /\ (x.epoch = epoch => <<"close", x.id>> \notin settled)
      BY <1>2, <1>3, <2>1 DEF CallOk, NotClosed
    <3>5. y.epoch < epoch' /\ (y.epoch + 1 = epoch' => <<"close", y.id>> \notin settled')
      <4>1. y.epoch + 1 = epoch' => x.epoch = epoch
        BY <1>1, <1>3, <2>1, <3>3
      <4>2. settled' = settled \cup {<<"create", x.id>>}
        BY <1>1, <1>2, <2>1
      <4> QED
        BY <1>1, <1>3, <2>1, <3>3, <3>4, <4>1, <4>2
    <3>6. /\ y.since <= time' /\ time' <= y.since + 1
          /\ hubPulls'[y.id].state = "closed" => hubPulls'[y.id].closed >= y.since
      BY <1>1, <1>2, <1>3, <2>1, <3>3 DEF CallOk, OpenAt
    <3>7. CallOk(y)'
      BY <3>3, <3>5, <3>6 DEF CallOk, OpenAt, NotClosed
    <3>8. y \in PullCall /\ calls' = [calls EXCEPT ![w] = y]
      BY <1>2, <2>1, <3>1, <3>3 DEF PullCall, Answered, Set
    <3> QED
      BY <3>7, <3>8
  <2>2. CASE x.op # "create"
    <3>1. PICK y : y = [pc |-> "done"]
      OBVIOUS
    <3>2. y \in [pc : {"idle", "done"}] /\ y.pc = "done"
      BY <3>1
    <3>3. y \in PullCall /\ calls' = [calls EXCEPT ![w] = y]
      BY <1>2, <2>2, <3>1, <3>2 DEF PullCall, Answered, Set
    <3>4. CallOk(y)'
      BY <3>2 DEF CallOk
    <3> QED
      BY <3>3, <3>4
  <2> QED
    BY <2>1, <2>2
<1>7. PICK y \in PullCall : CallOk(y)' /\ calls' = [calls EXCEPT ![w] = y]
  BY <1>6
<1>8. LookupTypes'
  BY <1>1, <1>7 DEF LookupTypes
<1>9. ASSUME NEW d \in DOMAIN calls' PROVE CallOk(calls[d])'
  <2>1. d \in DOMAIN calls
    BY <1>7, <1>9
  <2>2. CASE d = w
    <3>1. calls'[d] = y
      BY <1>7, <2>1, <2>2
    <3> QED
      BY <1>7, <3>1 DEF CallOk, OpenAt, NotClosed, NoneMissing
  <2>3. CASE d # w
    <3>1. PICK z \in PullCall : z = calls[d] /\ CallOk(z)
      BY <1>1, <2>1 DEF LookupTypes, LookupInv
    <3>2. calls'[d] = z
      BY <1>7, <2>1, <2>3, <3>1
    <3>3. CASE z.pc = "remember"
      <4>1. z.epoch \in Nat
        BY <3>3, PullCallFields
      <4>2. z.epoch <= epoch' /\ z.epoch # epoch'
        BY <1>1, <3>1, <3>3, <4>1 DEF CallOk
      <4> QED
        BY <1>1, <3>1, <3>2, <3>3, <4>2 DEF CallOk, OpenAt
    <3>4. CASE z.pc = "search"
      <4>1. z.epoch \in Nat /\ z.epoch <= epoch
        BY <3>1, <3>4, PullCallFields DEF CallOk
      <4>2. z.epoch # epoch'
        BY <1>1, <4>1
      <4> QED
        BY <1>1, <3>1, <3>2, <3>4, <4>1, <4>2 DEF CallOk, OpenAt
    <3>5. CASE z.pc = "invalidate"
      <4>1. z.op = "create" => z.epoch \in Nat
        BY <3>5, PullCallFields
      <4>2. z.op = "create" => z.epoch <= epoch' /\ z.epoch # epoch'
        BY <1>1, <3>1, <3>5, <4>1 DEF CallOk
      <4> QED
        BY <1>1, <3>1, <3>2, <3>5, <4>2 DEF CallOk, OpenAt
    <3>6. CASE z.pc = "rememberCreated"
      <4>1. z.epoch \in Nat
        BY <3>6, PullCallFields
      <4>2. z.epoch < epoch' /\ z.epoch + 1 # epoch'
        BY <1>1, <3>1, <3>6, <4>1 DEF CallOk
      <4> QED
        BY <1>1, <3>1, <3>2, <3>6, <4>2 DEF CallOk, OpenAt
    <3>7. CASE z.pc \notin {"remember", "search", "invalidate", "rememberCreated"}
      BY <3>2, <3>7 DEF CallOk
    <3> QED
      BY <3>3, <3>4, <3>5, <3>6, <3>7
  <2> QED
    BY <2>2, <2>3
<1> QED
  BY <1>4, <1>5, <1>8, <1>9 DEF LookupInv


LEMMA CreatedStep ==
    ASSUME LookupAssumption, LookupInv, NEW w \in Writes, RememberCreated(w)
    PROVE  LookupInv'
<1>1. /\ LookupTypes /\ w \in DOMAIN calls /\ Done(w)
      /\ UNCHANGED <<time, hubPulls, index, epoch, settled>>
      /\ time \in Nat /\ epoch \in Nat /\ prCacheTTL \in Nat
  BY DEF LookupInv, LookupTypes, RememberCreated, LookupAssumption
<1>2. HubStep
  BY <1>1, QuietHub
<1>3. PICK x \in PullCall : x = calls[w] /\ CallOk(x)
  BY <1>1 DEF LookupTypes, LookupInv
<1>4. /\ x.pc = "rememberCreated" /\ x.op = "create" /\ x.id \in Pulls /\ x.since \in Nat
      /\ x.epoch \in Nat /\ x.head \in Heads
  BY <1>3, PullCallFields DEF RememberCreated, Doing
<1>5. CASE byHead' = byHead
  BY <1>1, <1>5, AnswerStep
<1>6. CASE byHead' # byHead
  <2>1. PICK e : e = [id |-> x.id, expires |-> time + prCacheTTL, raced |-> epoch # x.epoch + 1]
    OBVIOUS
  <2>2. byHead' = [byHead EXCEPT ![x.head] = e]
    BY <1>3, <1>6, <2>1 DEF RememberCreated
  <2>3. time + prCacheTTL \in Nat
    BY <1>1
  <2>4. /\ e \in PullEntry /\ e.id = x.id /\ e.expires = time + prCacheTTL
        /\ e.raced = (epoch # x.epoch + 1)
    BY <1>4, <2>1, <2>3 DEF PullEntry
  <2>5. byHead' \in [Heads -> PullEntry \cup {Uncached}]
    BY <1>1, <2>2, <2>4 DEF LookupTypes
  <2>6. OpenAt(x.id, e.expires - 2 * prCacheTTL - 1)
    <3>1. OpenAt(x.id, x.since) /\ time <= x.since + 1
      BY <1>3, <1>4 DEF CallOk
    <3>2. e.expires - 2 * prCacheTTL - 1 \in Int /\ e.expires - 2 * prCacheTTL - 1 <= x.since
      BY <1>1, <1>4, <2>4, <3>1
    <3> QED
      BY <1>1, <1>4, <3>1, <3>2, OpenEarlier
  <2>7. e.raced \/ NotClosed({x.id})
    BY <1>3, <1>4, <2>4 DEF CallOk
  <2>8. ASSUME NEW h \in Heads PROVE byHead'[h] = byHead[h] \/ EntryOk(h)'
    <3>1. CASE byHead'[h] = byHead[h]
      BY <3>1
    <3>2. CASE byHead'[h] = e
      <4>1. e.expires <= time + prCacheTTL
        BY <1>1, <2>4
      <4> QED
        BY <1>1, <2>4, <2>6, <2>7, <3>2, <4>1 DEF EntryOk, OpenAt, NotClosed
    <3> QED
      BY <1>1, <2>2, <3>1, <3>2 DEF LookupTypes
  <2>9. PICK y \in PullCall : CallOk(y)' /\ calls' = [calls EXCEPT ![w] = y]
    BY <1>1, LookupAnswers
  <2> QED
    BY <1>1, <1>2, <2>5, <2>8, <2>9, CallStep
<1> QED
  BY <1>5, <1>6

LEMMA ElsewhereStep ==
    ASSUME LookupAssumption, LookupInv, NEW p \in Pulls, ClosedElsewhere(p)
    PROVE  LookupInv'
<1>1. LookupTypes /\ UNCHANGED <<time, index, byHead, calls, epoch, settled>>
  BY DEF ClosedElsewhere, LookupInv
<1>2. HubStep
  BY <1>1 DEF ClosedElsewhere, Closed, OpenPulls, HubStep, LookupTypes
<1>3. LookupTypes'
  BY <1>1, <1>2 DEF LookupTypes, HubStep
<1>4. /\ SettledOk' /\ IndexOk'
      /\ \A h \in Heads : EntryOk(h)'
      /\ \A d \in DOMAIN calls : CallOk(calls[d])'
  BY <1>1, <1>2, Stable
<1>5. DOMAIN calls' = DOMAIN calls
  BY <1>1
<1> QED
  BY <1>3, <1>4, <1>5 DEF LookupInv

(* The clock waits for those that only compute, and for a call of DoltHub a   *)
(* tick at most.                                                              *)
LEMMA ClockStep == ASSUME LookupAssumption, LookupInv, ClockMoves PROVE LookupInv'
<1>1. /\ LookupTypes /\ SettledOk /\ time \in Nat /\ prCacheTTL \in Nat
      /\ time' = time + 1
      /\ UNCHANGED <<hubPulls, index, byHead, calls, epoch, settled>>
  BY DEF LookupInv, LookupTypes, ClockMoves, LookupAssumption
<1>2. LookupTypes'
  BY <1>1 DEF LookupTypes
<1>3. SettledOk'
  BY <1>1 DEF SettledOk
<1>4. IndexOk'
  <2>1. index # Uncached => index.expires \in Nat
    BY <1>1 DEF LookupTypes, PullIndex
  <2> QED
    BY <1>1, <2>1 DEF LookupInv, IndexOk, OpenAt, NotClosed, NoneMissing
<1>5. ASSUME NEW h \in Heads PROVE EntryOk(h)'
  <2>1. byHead[h] # Uncached => byHead[h].expires \in Nat
    BY <1>1 DEF LookupTypes, PullEntry
  <2> QED
    BY <1>1, <2>1 DEF LookupInv, EntryOk, OpenAt, NotClosed
<1>6. ASSUME NEW d \in DOMAIN calls' PROVE CallOk(calls[d])'
  <2>1. PICK z \in PullCall : z = calls[d] /\ CallOk(z)
    BY <1>1, <1>6 DEF LookupTypes, LookupInv
  <2>2. calls'[d] = z
    BY <1>1, <2>1
  <2>3. /\ z.pc \notin {"search", "rememberCreated"}
        /\ z.pc \in {"remember", "invalidate"} => z.since = time
    BY <1>1, <1>6, <2>1 DEF ClockMoves
  <2> QED
    BY <1>1, <2>1, <2>2, <2>3 DEF CallOk, OpenAt, NotClosed, NoneMissing
<1> QED
  BY <1>2, <1>3, <1>4, <1>5, <1>6 DEF LookupInv

-----------------------------------------------------------------------------
(* The lookups: theorems. *)

LEMMA LookupInitially == ASSUME LookupAssumption, LookupInit PROVE LookupInv
<1>1. hubPulls \in [Pulls -> [state : {"none", "open", "closed"}, head : Heads \cup {Uncached},
                              closed : Nat]]
  <2> DEFINE Hub == [state : {"none", "open", "closed"}, head : Heads \cup {Uncached}, closed : Nat]
  <2>1. [state |-> "none", head |-> Uncached, closed |-> 0] \in Hub
    OBVIOUS
  <2>2. \A h \in Heads : [state |-> "open", head |-> h, closed |-> 0] \in Hub
    OBVIOUS
  <2> HIDE DEF Hub
  <2>3. hubPulls \in [Pulls -> Hub]
    BY <2>1, <2>2 DEF LookupInit
  <2> QED
    BY <2>3 DEF Hub
<1>2. PICK x : x = [pc |-> "idle"]
  OBVIOUS
<1>3. x \in [pc : {"idle", "done"}] /\ x.pc = "idle"
  BY <1>2
<1>4. x \in PullCall /\ CallOk(x)
  BY <1>3 DEF PullCall, CallOk
<1>5. calls = [c \in Lookups \cup Scans \cup Writes |-> x]
  BY <1>2 DEF LookupInit
<1>6. LookupTypes
  BY <1>1, <1>4, <1>5 DEF LookupInit, LookupTypes
<1>7. SettledOk /\ IndexOk /\ \A h \in Heads : EntryOk(h)
  BY DEF LookupInit, SettledOk, IndexOk, EntryOk
<1> QED
  BY <1>4, <1>5, <1>6, <1>7 DEF LookupInv

LEMMA LookupStep == ASSUME LookupAssumption, LookupInv, [LookupNext]_lookupVars PROVE LookupInv'
<1>1. CASE UNCHANGED lookupVars
  BY <1>1 DEF lookupVars, LookupInv, LookupTypes, SettledOk, IndexOk, EntryOk, CallOk, OpenAt,
              NotClosed, NoneMissing
<1>2. CASE ClockMoves
  BY <1>2, ClockStep
<1>3. ASSUME NEW c \in Lookups,
             \/ \E h \in Heads : BeginFind(c, h)
             \/ CachedPRLookup(c) \/ CachedPRIndex(c) \/ SearchIndex(c)
      PROVE  LookupInv'
  BY <1>3, AskStep, SearchStep
<1>4. ASSUME NEW c \in Lookups \cup Scans, ListPulls(c) PROVE LookupInv'
  BY <1>4, ListStep
<1>5. ASSUME NEW c \in Lookups \cup Scans, ScanFails(c) PROVE LookupInv'
  BY <1>5, AnswerStep DEF ScanFails
<1>6. ASSUME NEW c \in Lookups \cup Scans, NEW ids \in SUBSET calls[c].ids, RememberPRIndex(c, ids)
      PROVE  LookupInv'
  BY <1>6, RememberStep
<1>7. ASSUME NEW w \in Writes,
             \/ \E p \in Pulls : SendClose(w, p) \/ \E h \in Heads : SendCreate(w, p, h)
             \/ LoseAnswer(w) \/ Answered(w) \/ RememberCreated(w)
      PROVE  LookupInv'
  BY <1>7, WriteStep, AnsweredStep, CreatedStep
<1>8. ASSUME NEW p \in Pulls, ClosedElsewhere(p) PROVE LookupInv'
  BY <1>8, ElsewhereStep
<1> HIDE DEF LookupAssumption
<1> QED
  BY <1>1, <1>2, <1>3, <1>4, <1>5, <1>6, <1>7, <1>8 DEF LookupNext

LEMMA LookupInvariant == LookupSpec => []LookupInv
<1>1. LookupInit => LookupInv
  BY LookupAssumption, LookupInitially
<1>2. LookupInv /\ [LookupNext]_lookupVars => LookupInv'
  BY LookupAssumption, LookupStep
<1> QED
  BY <1>1, <1>2, PTL DEF LookupSpec

(* What FindPR may answer with was open a listing and two times the time to   *)
(* live ago, however lookups, scans, writes and closings elsewhere go beside  *)
(* each other (dolthub.go:93).                                                *)
THEOREM ClosedPullsFade == LookupSpec => []NothingLongClosed
<1>1. ASSUME LookupInv PROVE NothingLongClosed
  <2>1. SUFFICES ASSUME NEW h \in Heads, Fresh(byHead[h]),
                        hubPulls[byHead[h].id].state = "closed"
                 PROVE  time - hubPulls[byHead[h].id].closed <= 1 + 2 * prCacheTTL
    BY DEF NothingLongClosed
  <2>2. /\ byHead[h] \in PullEntry /\ time <= byHead[h].expires
        /\ hubPulls[byHead[h].id].closed >= byHead[h].expires - 2 * prCacheTTL - 1
    BY <1>1, <2>1 DEF LookupInv, LookupTypes, Fresh, EntryOk, OpenAt
  <2>3. /\ byHead[h].expires \in Nat /\ byHead[h].id \in Pulls
        /\ hubPulls[byHead[h].id].closed \in Nat
        /\ time \in Nat /\ prCacheTTL \in Nat
    <3>1. byHead[h].expires \in Nat /\ byHead[h].id \in Pulls
      BY <2>2 DEF PullEntry
    <3> QED
      BY <1>1, <3>1, LookupAssumption DEF LookupInv, LookupTypes, LookupAssumption
  <2> QED
    BY <2>2, <2>3
<1> QED
  BY <1>1, LookupInvariant, PTL

(* A pull that the provider closed or opened is at once gone from its caches  *)
(* or in them, but for what a call that overlapped the write stored after it  *)
(* (dolthub.go:151, 166, 691).                                                *)
THEOREM WritesShowAtOnce == LookupSpec => []OwnWritesShow
<1>1. LookupInv => OwnWritesShow
  BY DEF LookupInv, IndexOk, EntryOk, NotClosed, NoneMissing, OwnWritesShow
<1> QED
  BY <1>1, LookupInvariant, PTL
=============================================================================
