-------------------------- MODULE MCDeliveryRequests --------------------------
(* Two requests and all the time, or three requests, the last of them retries, *)
(* and no time to expire: `within` says which, and stays what it is.           *)
EXTENDS DeliveryRequests, TLC

VARIABLE within

Bounds == {[requests |-> 2, time |-> MaxTime], [requests |-> MaxRequests, time |-> 1]}

MCInit == Init /\ within \in Bounds

MCNext ==
    /\ Next
    /\ Cardinality(Existing') <= within.requests
    /\ now' <= within.time
    /\ UNCHANGED within

MCSpec == MCInit /\ [][MCNext]_<<vars, within>>

\* For liveness, all the time there is.
MCFairInit == MCInit /\ within.time = MaxTime
MCFairSpec == MCFairInit /\ [][MCNext]_<<vars, within>> /\ Fairness

Symmetry == Permutations(Promoters) \cup Permutations(Sessions)
===============================================================================
