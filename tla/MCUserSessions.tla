--------------------------- MODULE MCUserSessions ---------------------------
(* One request at a time and all the tokens, or all the requests and two    *)
(* tokens, or one request, one token, all the sockets and no suspension:    *)
(* `using` says which, and stays what it is.                                *)
EXTENDS UserSessions

CONSTANTS FirstRequest, FirstToken, SecondToken

VARIABLE using

Uses == {[requests |-> {FirstRequest}, tokens |-> Tokens, sockets |-> {}],
         [requests |-> Requests, tokens |-> {FirstToken, SecondToken}, sockets |-> {}],
         [requests |-> {FirstRequest}, tokens |-> {FirstToken}, sockets |-> Sockets]}

MCInit == Init /\ using \in Uses

\* A session is asked for only if a token in use is left for it.
Issuing(r) == req[r].at \in {"deactivate", "issue"}
TokenInUseLeft ==
    Cardinality({t \in using.tokens : refresh[t] = "none"}) > Cardinality({r \in Requests : Issuing(r)})

MCNext ==
    /\ Next
    /\ \A r \in Requests : (req'[r] # Idle => r \in using.requests)
                           /\ (~Issuing(r) /\ Issuing(r)' => TokenInUseLeft)
    /\ \A t \in Tokens : refresh'[t] # "none" => t \in using.tokens
    /\ \A c \in Sockets : socket'[c] # Unopened => c \in using.sockets
    /\ using.sockets = {} => closing' = {}
    /\ using.sockets # {} => standing'
    /\ UNCHANGED using

MCSpec == MCInit /\ [][MCNext]_<<vars, using>> /\ Fairness
=============================================================================
