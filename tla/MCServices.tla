----------------------------- MODULE MCServices -----------------------------
(* Parts that share no state, in one run: a behaviour is of one of them, the *)
(* others stay in one initial state.  Three are of the auth service, two of  *)
(* what is shown of the board, two of the command line and the server, and   *)
(* one of GitHub's pull requests.                                            *)
EXTENDS AuthService, ServiceNonces, DEKCache, BoardViews, PageScopes, GitHubReview, Listings

CONSTANTS u1, u2, g, x, v1

Joined1 == [rig |-> g, wastelands |-> [u \in {u1} |-> x]]
Joined2 == [rig |-> g, wastelands |-> [u \in {u1, u2} |-> x]]
OneOrBoth == {Joined1, Joined2}

EachKind == {[op |-> "rig", rig |-> g],
             [op |-> "upsert", upstream |-> u2, config |-> x],
             [op |-> "settings", upstream |-> u2, config |-> x],
             [op |-> "delete", upstream |-> u1],
             [op |-> "delete", upstream |-> u2]}

VARIABLE part

MCInit ==
    /\ part \in {"store", "nonces", "keys", "views", "pages", "reviews", "listings"}
    /\ AuthInit /\ NonceInit /\ DEKInit /\ ViewInit /\ ScopeInit /\ ReviewInit /\ ListingInit
    /\ poster = v1 /\ (part # "views" => upstreamRows = Rows!Empty)
    /\ part # "pages" => hosted
    /\ part # "reviews" => provider = "github"
    /\ part # "listings" => cacheKind = "ttl"

MCNext ==
    \/ /\ part = "store" /\ AuthNext
       /\ UNCHANGED <<nonceVars, dekVars, viewVars, scopeVars,
                      reviewVars, listingVars, part>>
    \/ /\ part = "nonces" /\ NonceNext
       /\ UNCHANGED <<authVars, dekVars, viewVars, scopeVars,
                      reviewVars, listingVars, part>>
    \/ /\ part = "keys" /\ DEKNext
       /\ UNCHANGED <<authVars, nonceVars, viewVars, scopeVars,
                      reviewVars, listingVars, part>>
    \/ /\ part = "views" /\ ViewNext
       /\ UNCHANGED <<authVars, nonceVars, dekVars, scopeVars,
                      reviewVars, listingVars, part>>
    \/ /\ part = "pages" /\ ScopeNext
       /\ UNCHANGED <<authVars, nonceVars, dekVars, viewVars,
                      reviewVars, listingVars, part>>
    \/ /\ part = "reviews" /\ ReviewNext
       /\ UNCHANGED <<authVars, nonceVars, dekVars, viewVars, scopeVars,
                      listingVars, part>>
    \/ /\ part = "listings" /\ ListingNext
       /\ UNCHANGED <<authVars, nonceVars, dekVars, viewVars, scopeVars,
                      reviewVars, part>>

MCSpec == /\ MCInit
          /\ [][MCNext]_<<authVars, nonceVars, dekVars, viewVars, scopeVars, reviewVars,
                          listingVars, part>>
=============================================================================
