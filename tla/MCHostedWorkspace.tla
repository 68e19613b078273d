------------------------- MODULE MCHostedWorkspace -------------------------
(* The workspaces with one cast of requests at a time, where the small ones *)
(* leave room for a reconnect; a request that is not in the cast has failed *)
(* before.                                                                  *)
EXTENDS HostedWorkspace

CONSTANTS r1, r2, w1, m1, m2

Small == {{r1, m1}, {r1, w1}}
Large == {{r1, r2, m1}, {r1, m1, m2}, {w1, m1}}

MCInit ==
    \E cast \in Small \cup Large :
       /\ record = IF cast \in Small THEN 1 ELSE MaxRecord
       /\ workspace = Nobody /\ flight = Nobody
       /\ pendingCache = Nobody /\ caches = <<>> /\ listing = 0
       /\ request = [r \in Requests |-> IF r \in cast THEN [pc |-> "idle"] ELSE [pc |-> "failed"]]
       /\ epoch = 0 /\ owed = {} /\ answered = record

MCSpec == MCInit /\ [][WorkspaceNext]_wsVars /\ WorkspaceFairness
=============================================================================
