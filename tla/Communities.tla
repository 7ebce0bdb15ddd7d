----------------------------- MODULE Communities ----------------------------
(***************************************************************************)
(* One community (Community...) and one of its polls (Poll...), in two     *)
(* machines that run apart, and to each of which `req` and `lock` are its  *)
(* own.                                                                    *)
(***************************************************************************)
EXTENDS Integers, FiniteSets

CONSTANTS Sessions, NoSession,
          Users, Owner,
          MaxResubmissions, \* MAX_COMMUNITY_RESUBMISSIONS
          Limits,           \* the max_members to choose from; NoLimit stands for None
          NoLimit,
          MaxReviews,       \* bound: how often the community is resubmitted
          Voters, NoUser, Options

VARIABLES
    req,       \* each session's handler, and the rows it read
    lock,      \* who selected the community, or the poll, FOR UPDATE

    community, \* the row
    members,   \* each user's community_members row
    ownerRole, \* AccountRoles: what the owner's CLUB_COMMUNITY role is
    roleFell,  \* a request for the owner's role has been rejected

    multiple,  \* allows_multiple
    open,      \* the poll has not ended
    active,    \* the community's active members: the first machine has them as members
    votes,     \* the options each user has voted for: the rows
    counts     \* each option's votes_count

-----------------------------------------------------------------------------
(* One community: its review, its members, and the counter of the active   *)
(* ones.  Every handler first selects the community FOR UPDATE, computes   *)
(* the columns from what it then reads, and commits.                       *)
communityVars == <<community, members, ownerRole, lock, req, roleFell>>

CommunityStatus == {"NONE", "PENDING", "PUBLISHED", "REJECTED", "BLOCKED"}
MemberStatus    == {"NONE", "PENDING", "ACTIVE", "BLOCKED"}
NoCommunity == [status |-> "NONE", count |-> 0, resubmissions |-> 0, max |-> NoLimit, auto |-> FALSE]
Idle == [op |-> "idle", user |-> Owner, community |-> NoCommunity, member |-> "NONE"]

OwnerOps  == {"update", "approve_request", "reject_request", "remove", "block", "unblock"}
AdminOps  == {"approve", "reject", "reject_pending_of_owner"}

CommunityTypeOK ==
    /\ community \in [status: CommunityStatus, count: 0..Cardinality(Users),
                      resubmissions: 0..MaxReviews, max: Limits \cup {NoLimit}, auto: BOOLEAN]
    /\ members \in [Users -> MemberStatus]
    /\ ownerRole \in {"NONE", "PENDING", "VERIFIED"} /\ roleFell \in BOOLEAN
    /\ lock \in Sessions \cup {NoSession}
    /\ \A s \in Sessions : req[s].op \in {"idle", "join", "leave"} \cup OwnerOps \cup AdminOps

CommunityInit ==
    /\ community = NoCommunity /\ members = [u \in Users |-> "NONE"]
    /\ ownerRole = "PENDING" /\ roleFell = FALSE
    /\ lock = NoSession /\ req = [s \in Sessions |-> Idle]

\* CommunityService.create
Create(max, auto) ==
    /\ community.status = "NONE" /\ ownerRole # "NONE"
    /\ community' = [NoCommunity EXCEPT !.status = "PENDING", !.max = max, !.auto = auto]
    /\ UNCHANGED <<members, ownerRole, lock, req, roleFell>>

\* get_for_update, lock_published, lock_owned
BrokenVisible(op) ==
    CASE op \in AdminOps -> community.status \in {"PENDING", "REJECTED"} /\ (op = "reject_pending_of_owner" => roleFell)
      [] op = "update"   -> community.status \notin {"NONE", "BLOCKED"}
      [] OTHER           -> community.status = "PUBLISHED"
Visible(op) ==
    CASE op \in AdminOps -> community.status = "PENDING" /\ (op = "reject_pending_of_owner" => roleFell)
      [] op = "update"   -> community.status \notin {"NONE", "BLOCKED"}
      [] OTHER           -> community.status = "PUBLISHED"

Lock(s, op, u) ==
    /\ req[s].op = "idle" /\ lock = NoSession
    /\ Visible(op)
    /\ lock' = s
    /\ req' = [req EXCEPT ![s] = [op |-> op, user |-> u, community |-> community, member |-> members[u]]]
    /\ UNCHANGED <<community, members, ownerRole, roleFell>>

End(s) == lock' = NoSession /\ req' = [req EXCEPT ![s] = Idle]

\* A check on what was read refuses, or the process dies.
Abandon(s) ==
    /\ req[s].op # "idle"
    /\ End(s)
    /\ UNCHANGED <<community, members, ownerRole, roleFell>>

Commit(s, row, member) ==
    /\ community' = row
    /\ members' = [members EXCEPT ![req[s].user] = member]
    /\ End(s)
    /\ UNCHANGED <<ownerRole, roleFell>>

At(s, op)   == req[s].op = op
Read(s)     == req[s].community
HasRoom(c)  == c.count < c.max
Counting(c, delta) == [c EXCEPT !.count = @ + delta]
Left(c, member)    == IF member = "ACTIVE" THEN Counting(c, -1) ELSE c

----------------------------------------------------------------------------
(* CommunityService: update, approve, reject, reject_pending_of_owner *)

Edited(c, max, auto) ==
    IF c.status = "REJECTED"
    THEN [c EXCEPT !.max = max, !.auto = auto, !.status = "PENDING", !.resubmissions = @ + 1]
    ELSE [c EXCEPT !.max = max, !.auto = auto]

Update(s, max, auto) ==
    LET c == Read(s) IN
    /\ At(s, "update")
    /\ max >= c.count
    /\ c.status = "REJECTED" => c.resubmissions < MaxReviews
    /\ Commit(s, Edited(c, max, auto), req[s].member)

\* The owner becomes the first member.
Approve(s) ==
    /\ At(s, "approve") /\ ownerRole = "VERIFIED"
    /\ req[s].member = "NONE"
    /\ Commit(s, [Read(s) EXCEPT !.status = "PUBLISHED", !.count = 1], "ACTIVE")

Exhausted(c) == c.resubmissions >= MaxResubmissions
Reject(s) ==
    LET c == Read(s) IN
    /\ At(s, "reject") /\ ownerRole = "VERIFIED"
    /\ Commit(s, [c EXCEPT !.status = IF Exhausted(c) THEN "BLOCKED" ELSE "REJECTED"], req[s].member)

\* RoleUpgradeRequestService.reject, after its own commit.
RejectPendingOfOwner(s) ==
    /\ At(s, "reject_pending_of_owner")
    /\ Commit(s, [Read(s) EXCEPT !.status = "REJECTED"], req[s].member)

\* The owner selects roles, and the role's reviewers decide: AccountRoles.
SelectRole(r) ==
    /\ ownerRole' = r
    /\ UNCHANGED <<community, members, lock, req, roleFell>>
ReviewRole(r) ==
    /\ ownerRole = "PENDING"
    /\ ownerRole' = r
    /\ roleFell' = (roleFell \/ r = "NONE")
    /\ UNCHANGED <<community, members, lock, req>>

----------------------------------------------------------------------------
(* CommunityMembershipService *)

Join(s) ==
    LET c == Read(s) IN
    /\ At(s, "join") /\ req[s].member = "NONE"
    /\ IF c.auto THEN HasRoom(c) /\ Commit(s, Counting(c, 1), "ACTIVE")
                 ELSE Commit(s, c, "PENDING")

Leave(s) ==
    /\ At(s, "leave") /\ req[s].user # Owner
    /\ req[s].member \in {"PENDING", "ACTIVE"}
    /\ Commit(s, Left(Read(s), req[s].member), "NONE")

ApproveRequest(s) ==
    /\ At(s, "approve_request") /\ req[s].member = "PENDING" /\ HasRoom(Read(s))
    /\ Commit(s, Counting(Read(s), 1), "ACTIVE")

RejectRequest(s) ==
    /\ At(s, "reject_request") /\ req[s].member = "PENDING"
    /\ Commit(s, Left(Read(s), req[s].member), "NONE")

RemoveMember(s) ==
    /\ At(s, "remove") /\ req[s].user # Owner /\ req[s].member = "ACTIVE"
    /\ Commit(s, Left(Read(s), req[s].member), "NONE")

\* Also a user who is no member.
BlockMember(s) ==
    /\ At(s, "block") /\ req[s].user # Owner
    /\ Commit(s, Left(Read(s), req[s].member), "BLOCKED")

UnblockMember(s) ==
    /\ At(s, "unblock") /\ req[s].member = "BLOCKED"
    /\ Commit(s, Read(s), "NONE")

CommunityNext ==
    \/ \E max \in Limits \cup {NoLimit}, auto \in BOOLEAN :
        Create(max, auto) \/ \E s \in Sessions : Update(s, max, auto)
    \/ \E s \in Sessions :
        \/ \E op \in AdminOps \cup {"update"} : Lock(s, op, Owner)
        \/ \E u \in Users, op \in {"join", "leave"} \cup (OwnerOps \ {"update"}) : Lock(s, op, u)
        \/ Approve(s) \/ Reject(s) \/ RejectPendingOfOwner(s)
        \/ Join(s) \/ Leave(s) \/ ApproveRequest(s) \/ RejectRequest(s)
        \/ RemoveMember(s) \/ BlockMember(s) \/ UnblockMember(s)
        \/ Abandon(s)
    \/ \E r \in {"NONE", "PENDING"} : SelectRole(r)
    \/ \E r \in {"NONE", "VERIFIED"} : ReviewRole(r)

CommunitySpec == CommunityInit /\ [][CommunityNext]_communityVars

----------------------------------------------------------------------------
(* A published community counts its active members, the owner among them,  *)
(* and has no more of them than it may, however joins, approvals, removals *)
(* and edits of the limit interleave.                                      *)
Active == {u \in Users : members[u] = "ACTIVE"}
MembersCounted ==
    /\ community.count = Cardinality(Active)
    /\ community.status = "PUBLISHED" => Owner \in Active /\ community.count <= community.max
    /\ community.status # "PUBLISHED" => \A u \in Users : members[u] = "NONE"

(* A community is reviewed once per submission: published or blocked it    *)
(* stays so, and only an edit of a rejected one brings it back.            *)
ReviewDecision ==
    \/ community'.status = community.status
    \/ community.status = "NONE" /\ community'.status = "PENDING"
    \/ community.status = "PENDING" /\ community'.resubmissions = community.resubmissions
    \/ /\ community.status = "REJECTED" /\ community'.status = "PENDING"
       /\ community'.resubmissions = community.resubmissions + 1
ReviewedOnce == [][ReviewDecision]_communityVars

(* A community is resubmitted MaxResubmissions times at most, as long as   *)
(* the owner's role is not rejected while it is pending.                   *)
ResubmissionsBounded == ~roleFell => community.resubmissions <= MaxResubmissions

\* The inductive invariant.  A handler under way has the lock, and what it read is
\* still so; what was rejected may be submitted again.
CommunityRows == [status: CommunityStatus, count: Nat, resubmissions: Nat, max: Limits \cup {NoLimit}, auto: BOOLEAN]
Requests == [op: {"idle", "join", "leave"} \cup OwnerOps \cup AdminOps, user: Users,
             community: CommunityRows, member: MemberStatus]
CommunityTypes ==
    /\ community \in CommunityRows /\ members \in [Users -> MemberStatus] /\ roleFell \in BOOLEAN
    /\ req \in [Sessions -> Requests]
OneWriter ==
    \A s \in Sessions : req[s].op # "idle" =>
        /\ lock = s /\ req[s].community = community /\ req[s].member = members[req[s].user]
        /\ Visible(req[s].op)
        /\ req[s].op \in AdminOps => req[s].user = Owner
MayReturn == ~roleFell /\ community.status = "REJECTED" => community.resubmissions < MaxResubmissions
CommunityIInv == CommunityTypes /\ OneWriter /\ MembersCounted /\ ResubmissionsBounded /\ MayReturn

-----------------------------------------------------------------------------
(* One poll of a community.  A member's membership is read first, then the *)
(* poll is selected FOR UPDATE; a vote replaces the member's previous one, *)
(* and moves the options' counters by what it adds and removes.            *)
pollVars == <<multiple, open, active, votes, counts, lock, req>>

NoHandler == [at |-> "idle", user |-> NoUser, chosen |-> {}, previous |-> {}]

PollTypeOK ==
    /\ {multiple, open} \subseteq BOOLEAN /\ active \subseteq Voters
    /\ votes \in [Voters -> SUBSET Options]
    /\ counts \in [Options -> Int]
    /\ lock \in Sessions \cup {NoSession}
    /\ req \in [Sessions -> [at: {"idle", "member", "lock", "write"}, user: Voters \cup {NoUser},
                             chosen: SUBSET Options, previous: SUBSET Options]]

PollInit ==
    /\ multiple \in BOOLEAN /\ open = TRUE /\ active = Voters
    /\ votes = [u \in Voters |-> {}] /\ counts = [o \in Options |-> 0]
    /\ lock = NoSession /\ req = [s \in Sessions |-> NoHandler]

\* vote, and remove_vote for no option; a payload names an option once.
Ask(s, u, chosen) ==
    /\ req[s] = NoHandler
    /\ req' = [req EXCEPT ![s] = [NoHandler EXCEPT !.at = "member", !.user = u, !.chosen = chosen]]
    /\ UNCHANGED <<multiple, open, active, votes, counts, lock>>

CheckMember(s) ==
    /\ req[s].at = "member" /\ req[s].user \in active
    /\ req' = [req EXCEPT ![s].at = "lock"]
    /\ UNCHANGED <<multiple, open, active, votes, counts, lock>>

\* _open_poll_for_update, then what the user has voted for.
Votable(chosen) == open /\ (~multiple => Cardinality(chosen) <= 1)
LockPoll(s) ==
    /\ req[s].at = "lock" /\ lock = NoSession
    /\ Votable(req[s].chosen)
    /\ req[s].chosen = {} => votes[req[s].user] # {}
    /\ lock' = s
    /\ req' = [req EXCEPT ![s].previous = votes[req[s].user], ![s].at = "write"]
    /\ UNCHANGED <<multiple, open, active, votes, counts>>

\* stage_vote_removals, stage_votes, commit; the unique key refuses a vote
\* that is there.
Added(s)   == req[s].chosen \ req[s].previous
Removed(s) == req[s].previous \ req[s].chosen
CommitVote(s) ==
    LET u == req[s].user IN
    /\ req[s].at = "write"
    /\ Added(s) \cap votes[u] = {}
    /\ votes' = [votes EXCEPT ![u] = (@ \ Removed(s)) \cup Added(s)]
    /\ counts' = [o \in Options |-> IF o \in Added(s) THEN counts[o] + 1
                                    ELSE IF o \in Removed(s) THEN counts[o] - 1 ELSE counts[o]]
    /\ req' = [req EXCEPT ![s] = NoHandler] /\ lock' = NoSession
    /\ UNCHANGED <<multiple, open, active>>

\* A check refuses, a key conflicts, or the process dies.
AbandonVote(s) ==
    /\ req[s] # NoHandler
    /\ req' = [req EXCEPT ![s] = NoHandler]
    /\ lock' = IF lock = s THEN NoSession ELSE lock
    /\ UNCHANGED <<multiple, open, active, votes, counts>>

\* Time passes; members come and go: their votes stay.
EndPoll == open /\ open' = FALSE /\ UNCHANGED <<multiple, active, votes, counts, lock, req>>
ChangeMember(u) ==
    /\ active' = IF u \in active THEN active \ {u} ELSE active \cup {u}
    /\ UNCHANGED <<multiple, open, votes, counts, lock, req>>

PollNext ==
    \/ \E s \in Sessions :
        \/ CheckMember(s) \/ LockPoll(s) \/ CommitVote(s) \/ AbandonVote(s)
        \/ \E u \in Voters, chosen \in SUBSET Options : Ask(s, u, chosen)
    \/ EndPoll
    \/ \E u \in Voters : ChangeMember(u)

PollSpec == PollInit /\ [][PollNext]_pollVars

----------------------------------------------------------------------------
(* Each counter is the number of users who voted for its option, and in a  *)
(* poll with a single choice nobody has two votes, however the votes of a  *)
(* user, on several devices, and of others interleave.                     *)
VotesCounted ==
    /\ \A o \in Options : counts[o] = Cardinality({u \in Voters : o \in votes[u]})
    /\ ~multiple => \A u \in Voters : Cardinality(votes[u]) <= 1

\* The inductive invariant: who is to write has the lock, and read what is so.
OneVote ==
    \A s \in Sessions :
        /\ req[s].at # "idle" => req[s].user \in Voters
        /\ req[s].at = "write" =>
             /\ lock = s /\ req[s].previous = votes[req[s].user]
             /\ ~multiple => Cardinality(req[s].chosen) <= 1
PollIInv == PollTypeOK /\ OneVote /\ VotesCounted
=============================================================================
