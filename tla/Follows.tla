------------------------------- MODULE Follows ------------------------------
(***************************************************************************)
(* Who follows one owner, who has asked to, and the requests the owner's   *)
(* client shows.  Each step is one statement with its commit, or one       *)
(* event: a handler goes through several, and nothing is locked between    *)
(* them.                                                                   *)
(***************************************************************************)
EXTENDS FiniteSets

CONSTANTS Users, NoUser, Sessions

VARIABLES
    private,   \* the owner's profile_visibility is PRIVATE
    follows,   \* the user_follows rows
    requests,  \* the user_follow_requests rows
    shown,     \* the requests in the owner's client: a list loaded once, and the events since
    req,       \* each session's handler
    disturbed  \* users of whom two requests overlapped, or one was cut short

vars == <<private, follows, requests, shown, req, disturbed>>

Idle == [op |-> "idle", at |-> "idle", user |-> NoUser, was |-> FALSE, batch |-> {}]
Ops  == {"follow", "unfollow", "accept", "decline", "make_public", "make_private"}
UsersSteps == {"check", "visibility", "create_request", "create_follow", "created",
               "unfollow", "delete_request", "accepted", "removed"}
OwnersSteps == {"read", "save", "saved", "delete_all", "accept_all", "announce"}
Handlers == [op: Ops \cup {"idle"}, at: {"idle"} \cup UsersSteps \cup OwnersSteps,
             user: Users \cup {NoUser}, was: BOOLEAN, batch: SUBSET Users]

TypeOK ==
    /\ private \in BOOLEAN
    /\ follows \subseteq Users /\ requests \subseteq Users
    /\ shown \subseteq Users /\ disturbed \subseteq Users
    /\ req \in [Sessions -> Handlers]

Init ==
    /\ private \in BOOLEAN
    /\ follows = {} /\ requests = {} /\ shown = {} /\ disturbed = {}
    /\ req = [s \in Sessions |-> Idle]

Busy        == {s \in Sessions : req[s] # Idle}
Concerns(s) == IF req[s] = Idle THEN {} ELSE IF req[s].user = NoUser THEN Users ELSE {req[s].user}

At(s, statement)   == req[s].at = statement
Goto(s, statement) == req' = [req EXCEPT ![s].at = statement]
End(s)             == req' = [req EXCEPT ![s] = Idle]
User(s)            == req[s].user
rows == <<private, follows, requests, shown>>

Begin(s, op, first, u) ==
    LET mine == IF u = NoUser THEN Users ELSE {u} IN
    /\ req[s] = Idle
    /\ req' = [req EXCEPT ![s] = [Idle EXCEPT !.op = op, !.at = first, !.user = u]]
    /\ disturbed' = disturbed \cup UNION {mine \cap Concerns(r) : r \in Sessions}
    /\ UNCHANGED rows

----------------------------------------------------------------------------
(* follow, unfollow *)
Follow(s, u)   == Begin(s, "follow", "check", u)
Unfollow(s, u) == Begin(s, "unfollow", "unfollow", u)

CheckFollowing(s) ==
    /\ At(s, "check")
    /\ IF User(s) \in follows THEN End(s) ELSE Goto(s, "visibility")
    /\ UNCHANGED <<rows, disturbed>>

ReadVisibility(s) ==
    /\ At(s, "visibility")
    /\ Goto(s, IF private THEN "create_request" ELSE "create_follow")
    /\ UNCHANGED <<rows, disturbed>>

\* ON CONFLICT DO NOTHING: then it is an error, and no event.
CreateRequest(s) ==
    /\ At(s, "create_request")
    /\ requests' = requests \cup {User(s)}
    /\ IF User(s) \in requests THEN End(s) ELSE Goto(s, "created")
    /\ UNCHANGED <<private, follows, shown, disturbed>>

PublishCreated(s) ==
    /\ At(s, "created")
    /\ shown' = shown \cup {User(s)}
    /\ End(s)
    /\ UNCHANGED <<private, follows, requests, disturbed>>

\* After accept the owner's event follows, unless the user followed already.
CreateFollow(s) ==
    /\ req[s].at \in {"create_follow", "accepted"}
    /\ follows' = follows \cup {User(s)}
    /\ IF At(s, "accepted") /\ User(s) \notin follows THEN Goto(s, "removed") ELSE End(s)
    /\ UNCHANGED <<private, requests, shown, disturbed>>

DeleteFollow(s) ==
    /\ At(s, "unfollow")
    /\ follows' = follows \ {User(s)}
    /\ IF User(s) \in follows THEN End(s) ELSE Goto(s, "delete_request")
    /\ UNCHANGED <<private, requests, shown, disturbed>>

----------------------------------------------------------------------------
(* accept, decline *)
Accept(s, u)  == Begin(s, "accept", "delete_request", u)
Decline(s, u) == Begin(s, "decline", "delete_request", u)

AfterDelete(op) == IF op = "accept" THEN "accepted" ELSE "removed"
DeleteRequest(s) ==
    /\ At(s, "delete_request")
    /\ requests' = requests \ {User(s)}
    /\ IF User(s) \in requests THEN Goto(s, AfterDelete(req[s].op)) ELSE End(s)
    /\ UNCHANGED <<private, follows, shown, disturbed>>

PublishRemoved(s) ==
    /\ At(s, "removed")
    /\ shown' = shown \ {User(s)}
    /\ End(s)
    /\ UNCHANGED <<private, follows, requests, disturbed>>

----------------------------------------------------------------------------
(* UserSettingsService.update_privacy *)
UpdatePrivacy(s, op) == Begin(s, op, "read", NoUser)

ReadPrevious(s) ==
    /\ At(s, "read")
    /\ req' = [req EXCEPT ![s].was = private, ![s].at = "save"]
    /\ UNCHANGED <<rows, disturbed>>

\* Nothing is written when the value is the one that was read.
SaveVisibility(s) ==
    LET wanted == req[s].op = "make_private" IN
    /\ At(s, "save")
    /\ private' = IF wanted = req[s].was THEN private ELSE wanted
    /\ Goto(s, "saved")
    /\ UNCHANGED <<follows, requests, shown, disturbed>>

\* The settings are refreshed after the commit.
BrokenBecamePublic(s) == FALSE
BecamePublic(s) == req[s].was /\ ~private
DecideAcceptAll(s) ==
    /\ At(s, "saved")
    /\ IF BecamePublic(s) THEN Goto(s, "delete_all") ELSE End(s)
    /\ UNCHANGED <<rows, disturbed>>

DeleteAllRequests(s) ==
    /\ At(s, "delete_all")
    /\ requests' = {}
    /\ req' = IF requests = {} THEN [req EXCEPT ![s] = Idle]
              ELSE [req EXCEPT ![s].batch = requests, ![s].at = "accept_all"]
    /\ UNCHANGED <<private, follows, shown, disturbed>>

\* bulk_create returns the rows it created.
CreateAllFollows(s) ==
    /\ At(s, "accept_all")
    /\ follows' = follows \cup req[s].batch
    /\ req' = [req EXCEPT ![s].batch = @ \ follows, ![s].at = "announce"]
    /\ UNCHANGED <<private, requests, shown, disturbed>>

PublishNextRemoved(s) ==
    /\ At(s, "announce") /\ req[s].batch # {}
    /\ \E u \in req[s].batch :
        /\ shown' = shown \ {u}
        /\ req' = [req EXCEPT ![s].batch = @ \ {u}]
    /\ UNCHANGED <<private, follows, requests, disturbed>>

AcceptedAll(s) ==
    /\ At(s, "announce") /\ req[s].batch = {}
    /\ End(s)
    /\ UNCHANGED <<rows, disturbed>>

----------------------------------------------------------------------------
\* Handlers end where they are; the owner's client reconnects and reloads.
Restart ==
    /\ disturbed' = disturbed \cup UNION {Concerns(s) : s \in Sessions}
    /\ req' = [s \in Sessions |-> Idle]
    /\ shown' = requests
    /\ UNCHANGED <<private, follows, requests>>

Ask(s) ==
    \/ \E u \in Users : Follow(s, u) \/ Unfollow(s, u) \/ Accept(s, u) \/ Decline(s, u)
    \/ \E op \in {"make_public", "make_private"} : UpdatePrivacy(s, op)

Step(s) ==
    \/ CheckFollowing(s) \/ ReadVisibility(s) \/ CreateRequest(s) \/ PublishCreated(s) \/ CreateFollow(s)
    \/ DeleteFollow(s) \/ DeleteRequest(s) \/ PublishRemoved(s)
    \/ ReadPrevious(s) \/ SaveVisibility(s) \/ DecideAcceptAll(s)
    \/ DeleteAllRequests(s) \/ CreateAllFollows(s) \/ PublishNextRemoved(s) \/ AcceptedAll(s)

Next == (\E s \in Sessions : Ask(s) \/ Step(s)) \/ Restart

Spec == Init /\ [][Next]_vars

----------------------------------------------------------------------------
(* A user none of whose requests overlapped with another one about the     *)
(* same user, and none of which is under way, does not both follow and ask *)
(* to; asks only a private owner; and is among the requests that the       *)
(* owner's client shows if and only if there is a request.  Requests of    *)
(* other users may interleave as they like.                                *)
AtRest(u) == \A s \in Sessions : u \notin Concerns(s)
Consistent(u) ==
    /\ u \notin follows \cap requests
    /\ u \in requests => private
    /\ u \in shown <=> u \in requests
FollowsConsistent == \A u \in Users \ disturbed : AtRest(u) => Consistent(u)

\* Their inductive invariant: a user's handlers are one at a time unless the user
\* is disturbed, and then what the handler has found is still so and what it wrote
\* is still there.
HandlersTyped ==
    \A s \in Sessions :
        /\ req[s].at = "idle" <=> req[s] = Idle
        /\ req[s].at \in UsersSteps <=> req[s].user \in Users
        /\ req[s].at \in OwnersSteps => req[s].op \in {"make_public", "make_private"}
OneHandler ==
    \A u \in Users \ disturbed : \A s, t \in Sessions :
        u \in Concerns(s) /\ u \in Concerns(t) => s = t
FoundSo(s, u) ==
    LET r == req[s] IN
    /\ r.at \in {"check", "visibility", "create_request", "create_follow", "unfollow", "read", "save"}
            => Consistent(u)
    /\ r.at \in {"visibility", "create_request", "create_follow", "created"} => u \notin follows
    /\ r.at = "create_request" => private
    /\ r.at = "create_follow" => ~private
    /\ r.at = "created" => private /\ u \in requests
    /\ r.at = "delete_request" => Consistent(u) /\ (r.op = "unfollow" => u \notin follows)
    /\ r.at = "accepted" => u \notin follows
    /\ r.at \in {"accepted", "removed", "accept_all", "announce"} => u \notin requests
    /\ r.at = "save" => r.was = private
    /\ r.at \in {"saved", "delete_all"} =>
          u \notin follows \cap requests /\ (u \in shown <=> u \in requests)
    /\ r.at = "saved" => (u \in requests => r.was \/ private)
    /\ r.at = "delete_all" => ~private
    /\ r.at \in {"accept_all", "announce"} => (u \in shown <=> u \in r.batch)
    /\ r.at = "accept_all" => (u \in r.batch => u \notin follows)
IInv ==
    /\ TypeOK /\ HandlersTyped /\ OneHandler /\ FollowsConsistent
    /\ \A u \in Users \ disturbed, s \in Sessions : u \in Concerns(s) => FoundSo(s, u)
=============================================================================
