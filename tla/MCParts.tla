------------------------------ MODULE MCParts ------------------------------
(* Six parts that share no state, in one run: a behaviour is of one of them, *)
(* the others stay in one initial state.                                     *)
EXTENDS HostedSessions, LocalClone, FederationJoin, RateLimiter, TerminalUI,
        PullLookups, TLC

CONSTANTS b1, b2, q1, q2, q3, here, there, openPull

Asked(k, b, p) == [kind |-> k, branch |-> b, process |-> p]
Three(x1, x2, x3) == (q1 :> x1 @@ q2 :> x2 @@ q3 :> x3)

\* Three requests of one client about one branch; two clients, or a client and
\* a command, beside each other; a mutation after its branch was merged.
MCCasts ==
    {Three(Asked("mutate", b1, here), Asked(k, b1, here), Asked("mutate", b1, here)) :
        k \in {"revert", "apply", "settings"}}
    \cup
    {Three(Asked("mutate", b1, here), second, Asked("apply", b1, here)) :
        second \in {Asked("mutate", b2, there), Asked("discard", b1, there),
                    Asked("save", b1, there), Asked("pull", b1, there)}}
    \cup
    {Three(Asked("mutate", b1, here), Asked("merge", b1, there), Asked("mutate", b1, here))}

\* In the casts with most to interleave the hosted application is idle, and in
\* the largest, with `wl merge`, so are the other rigs.
OthersAreQuiet ==
    /\ Is(q2, {"mutate", "revert", "save", "settings"}) =>
          \A b \in DOMAIN origin' : origin'[b] \cap Others \subseteq upstream'
    /\ Is(q2, {"merge"}) =>
          Others \cap (upstream' \cup UNION {origin'[b] : b \in DOMAIN origin'}) = {}

MCCommands == [kind : Ways, org : Orgs]

VARIABLE part

MCInit ==
    /\ part \in {"sessions", "clone", "join", "limiter", "ui", "lookups"}
    /\ SessionInit /\ CloneInit /\ JoinInit /\ LimiterInit /\ UIInit /\ LookupInit
    /\ part # "sessions" => jar.id = Absent
    /\ part # "clone" => cast = (CHOOSE c \in Casts : TRUE) /\ opened = "pr"
    /\ part # "join" => sites[Up].state = "yes" /\ command.org = CHOOSE o \in Orgs : TRUE
    /\ part # "ui" => cfgMode = "pr" /\ bus[CHOOSE s \in Slots : TRUE] # Nil
    /\ OpenPulls \subseteq {openPull} /\ (part # "lookups" => OpenPulls = {})

MCNext ==
    \/ /\ part = "sessions" /\ SessionNext
       /\ UNCHANGED <<localVars, joinVars, limiterVars, uiVars, lookupVars, part>>
    \/ /\ part = "clone" /\ CloneNext /\ OthersAreQuiet
       /\ UNCHANGED <<sessionVars, joinVars, limiterVars, uiVars, lookupVars, part>>
    \/ /\ part = "join" /\ JoinNext
       /\ UNCHANGED <<sessionVars, localVars, limiterVars, uiVars, lookupVars, part>>
    \/ /\ part = "limiter" /\ LimiterNext
       /\ UNCHANGED <<sessionVars, localVars, joinVars, uiVars, lookupVars, part>>
    \/ /\ part = "ui" /\ UINext
       /\ UNCHANGED <<sessionVars, localVars, joinVars, limiterVars, lookupVars, part>>
    \/ /\ part = "lookups" /\ LookupNext
       /\ UNCHANGED <<sessionVars, localVars, joinVars, limiterVars, uiVars, part>>

MCSpec == /\ MCInit
          /\ [][MCNext]_<<sessionVars, localVars, joinVars, limiterVars, uiVars, lookupVars, part>>
=============================================================================
