---------------------------- MODULE AccountsProofs --------------------------
(***************************************************************************)
(* Proofs about the components of MCAccounts, for any number of users and  *)
(* sessions: each by the inductive invariant in its module.                *)
(***************************************************************************)
EXTENDS MCAccounts, FiniteSetTheorems, TLAPS

----------------------------------------------------------------------------
(* A community: a handler under way is the only one, and has read what is  *)
(* so.                                                                     *)

LEMMA MembersByCardinality ==
    ASSUME NEW S
    PROVE  Community!Cardinality(S) = Cardinality(S)
  BY DEF Community!Cardinality, Cardinality

LEMMA ActiveFinite ==
    /\ IsFiniteSet(Community!Active) /\ Cardinality(Community!Active) \in Nat
    /\ IsFiniteSet(Community!Active') /\ Cardinality(Community!Active') \in Nat
<1>1. IsFiniteSet(Users \cup {Owner})
  BY FiniteAssumption, FS_AddElement
<1>2. Community!Active \subseteq Users \cup {Owner} /\ Community!Active' \subseteq Users \cup {Owner}
  BY DEF Community!Active
<1> QED
  BY <1>1, <1>2, FS_Subset, FS_CardinalityType

LEMMA CommunityRecords ==
    /\ Community!NoCommunity \in Community!CommunityRows
    /\ Community!Idle \in Community!Requests /\ Community!Idle.op = "idle"
    /\ \A c \in Community!CommunityRows : c.count \in Nat /\ c.resubmissions \in Nat /\ c.max \in {1, 2, 4}
  BY DEF Community!NoCommunity, Community!Idle, Community!CommunityRows, Community!CommunityStatus,
         Community!Requests, Community!MemberStatus

\* The member's row is written, and nobody else's.
LEMMA ActiveFollows ==
    ASSUME Community!CommunityTypes, NEW s \in Sessions, NEW after,
           members' = [members EXCEPT ![req[s].user] = after]
    PROVE  Cardinality(Community!Active') = Cardinality(Community!Active)
              + (IF after = "ACTIVE" THEN 1 ELSE 0) - (IF members[req[s].user] = "ACTIVE" THEN 1 ELSE 0)
<1> DEFINE u == req[s].user
           others == Community!Active \ {u}
<1>1. u \in Users \cup {Owner}
  BY DEF Community!CommunityTypes, Community!Requests
<1>2. /\ Community!Active' = IF after = "ACTIVE" THEN others \cup {u} ELSE others
      /\ u \in Community!Active <=> members[u] = "ACTIVE"
  BY <1>1 DEF Community!Active, Community!CommunityTypes
<1>3. /\ IsFiniteSet(others) /\ Cardinality(others) \in Nat /\ u \notin others
      /\ Cardinality(others) = IF u \in Community!Active THEN Cardinality(Community!Active) - 1
                                                         ELSE Cardinality(Community!Active)
  BY ActiveFinite, FS_RemoveElement, FS_CardinalityType
<1>4. Cardinality(others \cup {u}) = Cardinality(others) + 1
  BY <1>3, FS_AddElement
<1>5. Cardinality(Community!Active) = Cardinality(others) + (IF members[u] = "ACTIVE" THEN 1 ELSE 0)
  BY <1>2, <1>3, ActiveFinite
<1>6. Cardinality(Community!Active') = Cardinality(others) + (IF after = "ACTIVE" THEN 1 ELSE 0)
  BY <1>2, <1>3, <1>4
<1> DEFINE was == IF members[u] = "ACTIVE" THEN 1 ELSE 0
           is  == IF after = "ACTIVE" THEN 1 ELSE 0
<1>7. was \in {0, 1} /\ is \in {0, 1}
  OBVIOUS
<1>8. Cardinality(Community!Active) = Cardinality(others) + was
  BY <1>5
<1>9. Cardinality(Community!Active') = Cardinality(others) + is
  BY <1>6
<1>10. Cardinality(Community!Active') = Cardinality(Community!Active) + is - was
  <2> DEFINE rest == Cardinality(others)
             before == Cardinality(Community!Active)
             later == Cardinality(Community!Active')
  <2>1. rest \in Nat /\ before = rest + was /\ later = rest + is
    BY <1>3, <1>8, <1>9
  <2>2. later = before + is - was
    <3> HIDE DEF was, is, rest, before, later
    <3> QED
      BY <1>7, <2>1
  <2> QED
    BY <2>2
<1> QED
  BY <1>10

LEMMA CommunityCommits ==
    ASSUME Community!CommunityIInv, NEW s \in Sessions, NEW row \in Community!CommunityRows,
           NEW after \in Community!MemberStatus, Community!Commit(s, row, after), req[s].op # "idle",
           row.count = community.count + (IF after = "ACTIVE" THEN 1 ELSE 0) - (IF req[s].member = "ACTIVE" THEN 1 ELSE 0),
           row.status = "PUBLISHED" =>
             /\ row.count <= row.max
             /\ req[s].user = Owner => after = "ACTIVE"
             /\ req[s].user # Owner => community.status = "PUBLISHED",
           row.status # "PUBLISHED" => after = req[s].member /\ community.status # "PUBLISHED",
           ~roleFell => row.resubmissions <= 2 /\ (row.status = "REJECTED" => row.resubmissions < 2)
    PROVE  Community!CommunityIInv'
<1>1. /\ community' = row /\ members' = [members EXCEPT ![req[s].user] = after]
      /\ req' = [req EXCEPT ![s] = Community!Idle] /\ roleFell' = roleFell
  BY DEF Community!Commit, Community!End
<1>2. /\ req[s].user \in Users \cup {Owner} /\ members \in [Users \cup {Owner} -> Community!MemberStatus]
      /\ community \in Community!CommunityRows /\ req[s].member = members[req[s].user]
  BY DEF Community!CommunityIInv, Community!CommunityTypes, Community!Requests, Community!OneWriter
<1>3. Community!CommunityTypes'
  <2>1. members' \in [Users \cup {Owner} -> Community!MemberStatus]
    BY <1>1, <1>2
  <2>2. req' \in [Sessions -> Community!Requests]
    BY <1>1, CommunityRecords DEF Community!CommunityIInv, Community!CommunityTypes
  <2>3. roleFell' \in BOOLEAN
    BY <1>1 DEF Community!CommunityIInv, Community!CommunityTypes
  <2> QED
    BY <1>1, <2>1, <2>2, <2>3 DEF Community!CommunityTypes
<1>4. \A t \in Sessions : req'[t].op = "idle"
  <2>1. \A t \in Sessions : t # s => req[t].op = "idle"
    BY DEF Community!CommunityIInv, Community!OneWriter
  <2> QED
    BY <1>1, <2>1, CommunityRecords DEF Community!CommunityIInv, Community!CommunityTypes
<1>5. Community!OneWriter'
  BY <1>4 DEF Community!OneWriter
<1>6. community.count = Cardinality(Community!Active) /\ community'.count = Cardinality(Community!Active')
  <2>1. community.count = Cardinality(Community!Active)
    BY MembersByCardinality DEF Community!CommunityIInv, Community!MembersCounted
  <2>2. Cardinality(Community!Active') = Cardinality(Community!Active)
              + (IF after = "ACTIVE" THEN 1 ELSE 0) - (IF req[s].member = "ACTIVE" THEN 1 ELSE 0)
    BY <1>1, <1>2, ActiveFollows DEF Community!CommunityIInv
  <2> QED
    BY <1>1, <2>1, <2>2
<1>7. Community!MembersCounted'
  <2>1. row.status = "PUBLISHED" => Owner \in Community!Active'
    BY <1>1, <1>2 DEF Community!CommunityIInv, Community!MembersCounted, Community!Active
  <2>2. row.status # "PUBLISHED" => \A u \in Users \cup {Owner} : members'[u] = "NONE"
    BY <1>1, <1>2 DEF Community!CommunityIInv, Community!MembersCounted
  <2>3. community'.count = Community!Cardinality(Community!Active')
    BY <1>6, MembersByCardinality
  <2> QED
    BY <1>1, <2>1, <2>2, <2>3 DEF Community!MembersCounted
<1>8. Community!ResubmissionsBounded' /\ Community!MayReturn'
  BY <1>1 DEF Community!ResubmissionsBounded, Community!MayReturn
<1> QED
  BY <1>3, <1>5, <1>7, <1>8 DEF Community!CommunityIInv

LEMMA CommunityReads ==
    ASSUME Community!CommunityIInv, NEW s \in Sessions, req[s].op # "idle"
    PROVE  /\ community \in Community!CommunityRows /\ Community!Read(s) = community
           /\ req[s].member \in Community!MemberStatus
           /\ Community!Visible(req[s].op)
           /\ req[s].op \in Community!AdminOps => req[s].user = Owner
           /\ community.status # "PUBLISHED" => community.count = 0 /\ req[s].member = "NONE"
           /\ community.status = "PUBLISHED" =>
                /\ community.count <= community.max
                /\ req[s].user = Owner => req[s].member = "ACTIVE"
           /\ ~roleFell => /\ community.resubmissions <= 2
                           /\ community.status = "REJECTED" => community.resubmissions < 2
<1>1. /\ community \in Community!CommunityRows /\ Community!Read(s) = community
      /\ req[s].member = members[req[s].user] /\ req[s].user \in Users \cup {Owner}
      /\ members \in [Users \cup {Owner} -> Community!MemberStatus] /\ Community!Visible(req[s].op)
      /\ req[s].op \in Community!AdminOps => req[s].user = Owner
  BY DEF Community!CommunityIInv, Community!CommunityTypes, Community!Requests, Community!OneWriter, Community!Read
<1>2. community.status # "PUBLISHED" => community.count = 0
  <2>1. community.status # "PUBLISHED" => Community!Active = {}
    BY DEF Community!CommunityIInv, Community!MembersCounted, Community!Active
  <2>2. community.count = Cardinality(Community!Active)
    BY MembersByCardinality DEF Community!CommunityIInv, Community!MembersCounted
  <2> QED
    BY <2>1, <2>2, FS_EmptySet
<1>3. community.status # "PUBLISHED" => req[s].member = "NONE"
  BY <1>1 DEF Community!CommunityIInv, Community!MembersCounted
<1>4. community.status = "PUBLISHED" => community.count <= community.max /\ members[Owner] = "ACTIVE"
  BY DEF Community!CommunityIInv, Community!MembersCounted, Community!Active
<1>5. ~roleFell => /\ community.resubmissions <= 2
                   /\ community.status = "REJECTED" => community.resubmissions < 2
  BY DEF Community!CommunityIInv, Community!ResubmissionsBounded, Community!MayReturn
<1> QED
  BY <1>1, <1>2, <1>3, <1>4, <1>5

\* Each handler's commit.
LEMMA ReviewCommits ==
    ASSUME Community!CommunityIInv, NEW s \in Sessions,
           \/ \E max \in {1, 2} \cup {4}, auto \in BOOLEAN : Community!Update(s, max, auto)
           \/ Community!Approve(s) \/ Community!Reject(s) \/ Community!RejectPendingOfOwner(s)
    PROVE  Community!CommunityIInv' /\ Community!ReviewDecision
<1>1. CASE \E max \in {1, 2} \cup {4}, auto \in BOOLEAN : Community!Update(s, max, auto)
  <2> PICK max \in {1, 2} \cup {4}, auto \in BOOLEAN : Community!Update(s, max, auto)
    BY <1>1
  <2> DEFINE row == Community!Edited(community, max, auto)
  <2>1. req[s].op = "update"
    BY DEF Community!Update, Community!At
  <2>2. community.status \notin {"NONE", "BLOCKED"} /\ Community!Read(s) = community
    BY <2>1, CommunityReads DEF Community!Visible, Community!AdminOps
  <2>3. /\ max >= community.count /\ Community!Commit(s, row, req[s].member)
    BY <2>2 DEF Community!Update
  <2>4. /\ row \in Community!CommunityRows /\ row.max = max /\ row.count = community.count
        /\ community.status = "REJECTED" =>
             row.status = "PENDING" /\ row.resubmissions = community.resubmissions + 1
        /\ community.status # "REJECTED" =>
             row.status = community.status /\ row.resubmissions = community.resubmissions
    <3>1. community \in Community!CommunityRows
      BY <2>1, CommunityReads
    <3>2. CASE community.status = "REJECTED"
      <4>1. row = [community EXCEPT !.max = max, !.auto = auto, !.status = "PENDING", !.resubmissions = @ + 1]
        BY <3>2 DEF Community!Edited
      <4>2. community.count \in Nat /\ community.resubmissions + 1 \in Nat
        BY <3>1 DEF Community!CommunityRows
      <4> HIDE DEF row
      <4>3. row = [status |-> "PENDING", count |-> community.count, resubmissions |-> community.resubmissions + 1,
                   max |-> max, auto |-> auto]
        BY <3>1, <4>1 DEF Community!CommunityRows
      <4>4. row \in Community!CommunityRows
        BY <4>2, <4>3 DEF Community!CommunityRows, Community!CommunityStatus
      <4> QED
        BY <3>2, <4>3, <4>4
    <3>3. CASE community.status # "REJECTED"
      <4>1. row = [community EXCEPT !.max = max, !.auto = auto]
        BY <3>3 DEF Community!Edited
      <4> HIDE DEF row
      <4> QED
        BY <3>1, <3>3, <4>1 DEF Community!CommunityRows, Community!CommunityStatus
    <3> QED
      BY <3>2, <3>3
  <2>5. row.count = community.count + (IF req[s].member = "ACTIVE" THEN 1 ELSE 0)
                                    - (IF req[s].member = "ACTIVE" THEN 1 ELSE 0)
    BY <2>4, <2>1, CommunityReads DEF Community!CommunityRows
  <2> HIDE DEF row
  <2>6. Community!CommunityIInv'
    BY <2>1, <2>2, <2>3, <2>4, <2>5, CommunityReads, CommunityCommits, CommunityRecords
  <2>7. community' = row
    BY <2>3 DEF Community!Commit
  <2> QED
    BY <2>2, <2>4, <2>6, <2>7 DEF Community!ReviewDecision
<1>2. CASE Community!Approve(s)
  <2> DEFINE row == [community EXCEPT !.status = "PUBLISHED", !.count = 1]
  <2>1. req[s].op = "approve" /\ req[s].member = "NONE"
    BY <1>2 DEF Community!Approve, Community!At
  <2>2. community.status = "PENDING" /\ Community!Read(s) = community
    BY <2>1, CommunityReads DEF Community!Visible, Community!AdminOps
  <2>3. Community!Commit(s, row, "ACTIVE")
    BY <1>2, <2>2 DEF Community!Approve
  <2>4. /\ row \in Community!CommunityRows /\ row.count = 1 /\ row.max = community.max
        /\ row.status = "PUBLISHED" /\ row.resubmissions = community.resubmissions
    BY <2>1, CommunityReads DEF Community!CommunityRows, Community!CommunityStatus
  <2>5. community.count = 0 /\ req[s].user = Owner /\ 1 <= community.max
    BY <2>1, <2>2, CommunityReads, CommunityRecords DEF Community!AdminOps
  <2>6. row.count = community.count + (IF "ACTIVE" = "ACTIVE" THEN 1 ELSE 0)
                                    - (IF req[s].member = "ACTIVE" THEN 1 ELSE 0)
    BY <2>1, <2>4, <2>5
  <2> HIDE DEF row
  <2>7. Community!CommunityIInv'
    BY <2>1, <2>2, <2>3, <2>4, <2>5, <2>6, CommunityReads, CommunityCommits, CommunityRecords
       DEF Community!MemberStatus
  <2>8. community' = row
    BY <2>3 DEF Community!Commit
  <2> QED
    BY <2>2, <2>4, <2>7, <2>8 DEF Community!ReviewDecision
<1>3. CASE Community!Reject(s) \/ Community!RejectPendingOfOwner(s)
  <2> DEFINE row == [community EXCEPT !.status = IF req[s].op = "reject" /\ Community!Exhausted(community)
                                                 THEN "BLOCKED" ELSE "REJECTED"]
  <2>1. req[s].op \in {"reject", "reject_pending_of_owner"}
    BY <1>3 DEF Community!Reject, Community!RejectPendingOfOwner, Community!At
  <2>2. /\ community.status = "PENDING" /\ Community!Read(s) = community
        /\ req[s].op = "reject_pending_of_owner" => roleFell
    BY <2>1, CommunityReads DEF Community!Visible, Community!AdminOps
  <2>3. Community!Commit(s, row, req[s].member)
    BY <1>3, <2>2 DEF Community!Reject, Community!RejectPendingOfOwner, Community!At
  <2>4. /\ row \in Community!CommunityRows /\ row.count = community.count /\ row.max = community.max
        /\ row.status \in {"BLOCKED", "REJECTED"} /\ row.resubmissions = community.resubmissions
    BY <2>1, CommunityReads DEF Community!CommunityRows, Community!CommunityStatus
  <2>5. ~roleFell /\ row.status = "REJECTED" => row.resubmissions < 2
    BY <2>1, <2>2, CommunityReads DEF Community!Exhausted, Community!CommunityRows
  <2>6. row.count = community.count + (IF req[s].member = "ACTIVE" THEN 1 ELSE 0)
                                    - (IF req[s].member = "ACTIVE" THEN 1 ELSE 0)
    BY <2>4, <2>1, CommunityReads DEF Community!CommunityRows
  <2> HIDE DEF row
  <2>7. Community!CommunityIInv'
    BY <2>1, <2>2, <2>3, <2>4, <2>5, <2>6, CommunityReads, CommunityCommits, CommunityRecords
  <2>8. community' = row
    BY <2>3 DEF Community!Commit
  <2> QED
    BY <2>2, <2>4, <2>7, <2>8 DEF Community!ReviewDecision
<1> QED
  BY <1>1, <1>2, <1>3

LEMMA MemberCommits ==
    ASSUME Community!CommunityIInv, NEW s \in Sessions, NEW after \in Community!MemberStatus, NEW d \in {-1, 0, 1},
           req[s].op \notin {"idle", "update"} \cup Community!AdminOps,
           Community!Commit(s, Community!Counting(community, d), after),
           d = (IF after = "ACTIVE" THEN 1 ELSE 0) - (IF req[s].member = "ACTIVE" THEN 1 ELSE 0),
           d = 1 => Community!HasRoom(community),
           req[s].user = Owner => after = "ACTIVE"
    PROVE  Community!CommunityIInv' /\ Community!ReviewDecision
<1> DEFINE row == Community!Counting(community, d)
           is  == IF after = "ACTIVE" THEN 1 ELSE 0
           was == IF req[s].member = "ACTIVE" THEN 1 ELSE 0
<1>1. /\ community \in Community!CommunityRows /\ community.status = "PUBLISHED"
      /\ community.count <= community.max /\ community.count \in Nat
      /\ ~roleFell => community.resubmissions <= 2
  BY CommunityReads, CommunityRecords DEF Community!Visible
<1>2. row = [community EXCEPT !.count = @ + d]
  BY DEF Community!Counting
<1>3. /\ row.status = "PUBLISHED" /\ row.count = community.count + d /\ row.max = community.max
      /\ row.resubmissions = community.resubmissions
  BY <1>1, <1>2 DEF Community!CommunityRows
<1>4. community.count + d \in Nat
  <2>1. /\ req[s].member = members[req[s].user] /\ Community!CommunityTypes
        /\ members' = [members EXCEPT ![req[s].user] = after]
    BY DEF Community!CommunityIInv, Community!OneWriter, Community!Commit
  <2>2. Cardinality(Community!Active') = Cardinality(Community!Active) + is - was
    BY <2>1, ActiveFollows
  <2>3. community.count = Cardinality(Community!Active) /\ Cardinality(Community!Active') \in Nat
    BY MembersByCardinality, ActiveFinite DEF Community!CommunityIInv, Community!MembersCounted
  <2>4. is \in {0, 1} /\ was \in {0, 1} /\ d = is - was
    OBVIOUS
  <2> HIDE DEF is, was
  <2> QED
    BY <1>1, <2>2, <2>3, <2>4
<1>5. row \in Community!CommunityRows
  BY <1>1, <1>2, <1>4 DEF Community!CommunityRows
<1>6. row.count <= row.max
  <2>1. community.max \in {1, 2, 4} /\ (d = 1 => community.count < community.max)
    BY <1>1, CommunityRecords DEF Community!HasRoom
  <2> QED
    BY <1>1, <1>3, <2>1
<1>7. row.count = community.count + is - was
  <2>1. is \in {0, 1} /\ was \in {0, 1} /\ d = is - was
    OBVIOUS
  <2> HIDE DEF row, is, was
  <2> QED
    BY <1>1, <1>3, <2>1
<1>8. Community!Commit(s, row, after)
  OBVIOUS
<1> HIDE DEF row
<1>9. Community!CommunityIInv'
  BY <1>1, <1>3, <1>5, <1>6, <1>7, <1>8, CommunityCommits
<1>10. community' = row
  BY <1>8 DEF Community!Commit
<1> QED
  BY <1>1, <1>3, <1>9, <1>10 DEF Community!ReviewDecision

LEMMA MembershipCommits ==
    ASSUME Community!CommunityIInv, NEW s \in Sessions,
           \/ Community!Join(s) \/ Community!Leave(s) \/ Community!ApproveRequest(s) \/ Community!RejectRequest(s)
           \/ Community!RemoveMember(s) \/ Community!BlockMember(s) \/ Community!UnblockMember(s)
    PROVE  Community!CommunityIInv' /\ Community!ReviewDecision
<1>1. /\ req[s].op \in {"join", "leave", "approve_request", "reject_request", "remove", "block", "unblock"}
      /\ req[s].op \notin {"idle", "update"} \cup Community!AdminOps
  BY DEF Community!Join, Community!Leave, Community!ApproveRequest, Community!RejectRequest,
         Community!RemoveMember, Community!BlockMember, Community!UnblockMember, Community!At, Community!AdminOps
<1>2. /\ Community!Read(s) = community /\ community.status = "PUBLISHED"
      /\ req[s].user = Owner => req[s].member = "ACTIVE"
      /\ community \in Community!CommunityRows
  BY <1>1, CommunityReads DEF Community!Visible
<1>3. Community!Counting(community, 0) = community
  <2>1. community = [community EXCEPT !.count = community.count] /\ community.count \in Nat
    BY <1>2 DEF Community!CommunityRows
  <2>2. community.count + 0 = community.count
    BY <2>1
  <2> QED
    BY <2>1, <2>2 DEF Community!Counting
<1>4. CASE Community!Join(s)
  <2>1. req[s].member = "NONE"
    BY <1>4 DEF Community!Join
  <2>2. CASE community.auto
    <3>1. Community!HasRoom(community) /\ Community!Commit(s, Community!Counting(community, 1), "ACTIVE")
      BY <1>2, <1>4, <2>2 DEF Community!Join
    <3> QED
      BY <1>1, <1>2, <2>1, <3>1, MemberCommits DEF Community!MemberStatus
  <2>3. CASE ~community.auto
    <3>1. Community!Commit(s, Community!Counting(community, 0), "PENDING")
      BY <1>2, <1>3, <1>4, <2>3 DEF Community!Join
    <3> QED
      BY <1>1, <1>2, <2>1, <3>1, MemberCommits DEF Community!MemberStatus
  <2> QED
    BY <2>2, <2>3
<1>5. CASE Community!ApproveRequest(s)
  <2>1. /\ req[s].member = "PENDING" /\ Community!HasRoom(community)
        /\ Community!Commit(s, Community!Counting(community, 1), "ACTIVE")
    BY <1>2, <1>5 DEF Community!ApproveRequest
  <2> QED
    BY <1>1, <1>2, <2>1, MemberCommits DEF Community!MemberStatus
<1>6. CASE Community!UnblockMember(s)
  <2>1. /\ req[s].member = "BLOCKED" /\ Community!Commit(s, Community!Counting(community, 0), "NONE")
    BY <1>2, <1>3, <1>6 DEF Community!UnblockMember
  <2> QED
    BY <1>1, <1>2, <2>1, MemberCommits DEF Community!MemberStatus
<1>7. ASSUME NEW after \in {"NONE", "BLOCKED"}, req[s].user # Owner,
             Community!Commit(s, Community!Left(community, req[s].member), after)
      PROVE  Community!CommunityIInv' /\ Community!ReviewDecision
  <2>1. CASE req[s].member = "ACTIVE"
    <3>1. Community!Commit(s, Community!Counting(community, -1), after)
      BY <1>7, <2>1 DEF Community!Left
    <3> QED
      BY <1>1, <1>7, <2>1, <3>1, MemberCommits DEF Community!MemberStatus
  <2>2. CASE req[s].member # "ACTIVE"
    <3>1. Community!Commit(s, Community!Counting(community, 0), after)
      BY <1>3, <1>7, <2>2 DEF Community!Left
    <3> QED
      BY <1>1, <1>7, <2>2, <3>1, MemberCommits DEF Community!MemberStatus
  <2> QED
    BY <2>1, <2>2
<1>8. CASE Community!Leave(s) \/ Community!RejectRequest(s) \/ Community!RemoveMember(s)
  <2>1. req[s].user # Owner /\ Community!Commit(s, Community!Left(community, req[s].member), "NONE")
    BY <1>2, <1>8 DEF Community!Leave, Community!RejectRequest, Community!RemoveMember
  <2> QED
    BY <1>7, <2>1
<1>9. CASE Community!BlockMember(s)
  <2>1. req[s].user # Owner /\ Community!Commit(s, Community!Left(community, req[s].member), "BLOCKED")
    BY <1>2, <1>9 DEF Community!BlockMember
  <2> QED
    BY <1>7, <2>1
<1> QED
  BY <1>4, <1>5, <1>6, <1>8, <1>9

LEMMA CommunitySteps ==
    ASSUME Community!CommunityIInv, Community!CommunityNext
    PROVE  Community!CommunityIInv' /\ Community!ReviewDecision
<1>1. ASSUME NEW max \in {1, 2} \cup {4}, NEW auto \in BOOLEAN, Community!Create(max, auto)
      PROVE  Community!CommunityIInv' /\ Community!ReviewDecision
  <2>1. /\ community.status = "NONE" /\ UNCHANGED <<members, ownerRole, lock, req, roleFell>>
        /\ community' = [Community!NoCommunity EXCEPT !.status = "PENDING", !.max = max, !.auto = auto]
    BY <1>1 DEF Community!Create
  <2>2. community' \in Community!CommunityRows
    BY <2>1 DEF Community!NoCommunity, Community!CommunityRows, Community!CommunityStatus
  <2>3. community'.status = "PENDING" /\ community'.resubmissions = 0 /\ community'.count = 0
    BY <2>1 DEF Community!NoCommunity
  <2>4. \A s \in Sessions : req[s].op = "idle"
    BY <2>1 DEF Community!CommunityIInv, Community!CommunityTypes, Community!Requests, Community!OneWriter,
                Community!Visible, Community!AdminOps, Community!OwnerOps
  <2>5. (\A u \in Users \cup {Owner} : members'[u] = "NONE") /\ Community!Active' = {}
    BY <2>1 DEF Community!CommunityIInv, Community!MembersCounted, Community!Active
  <2>6. community'.count = Community!Cardinality(Community!Active')
    BY <2>3, <2>5, FS_EmptySet, MembersByCardinality
  <2>7. Community!MembersCounted'
    BY <2>3, <2>5, <2>6 DEF Community!MembersCounted
  <2>8. Community!CommunityTypes' /\ Community!OneWriter'
    BY <2>1, <2>2, <2>4 DEF Community!CommunityIInv, Community!CommunityTypes, Community!OneWriter
  <2>9. Community!ResubmissionsBounded' /\ Community!MayReturn' /\ Community!ReviewDecision
    BY <2>1, <2>3 DEF Community!ResubmissionsBounded, Community!MayReturn, Community!ReviewDecision
  <2> QED
    BY <2>7, <2>8, <2>9 DEF Community!CommunityIInv
<1>2. ASSUME UNCHANGED <<community, members, roleFell>>,
             Community!CommunityTypes', Community!OneWriter'
      PROVE  Community!CommunityIInv' /\ Community!ReviewDecision
  <2>1. Community!Active' = Community!Active
    BY <1>2 DEF Community!Active
  <2>2. Community!MembersCounted'
    BY <1>2, <2>1, MembersByCardinality DEF Community!CommunityIInv, Community!MembersCounted
  <2>3. Community!ResubmissionsBounded' /\ Community!MayReturn' /\ Community!ReviewDecision
    BY <1>2 DEF Community!CommunityIInv, Community!ResubmissionsBounded, Community!MayReturn,
                Community!ReviewDecision
  <2> QED
    BY <1>2, <2>2, <2>3 DEF Community!CommunityIInv
<1>3. ASSUME NEW s \in Sessions, NEW op \in {"join", "leave"} \cup Community!OwnerOps \cup Community!AdminOps,
             NEW u \in Users \cup {Owner}, op \in Community!AdminOps => u = Owner, Community!Lock(s, op, u)
      PROVE  Community!CommunityIInv' /\ Community!ReviewDecision
  <2> DEFINE begun == [op |-> op, user |-> u, community |-> community, member |-> members[u]]
  <2>1. /\ Community!Visible(op) /\ lock = NoSession /\ lock' = s /\ req' = [req EXCEPT ![s] = begun]
        /\ UNCHANGED <<community, members, ownerRole, roleFell>>
    BY <1>3 DEF Community!Lock
  <2>2. community \in Community!CommunityRows /\ members[u] \in Community!MemberStatus
    BY DEF Community!CommunityIInv, Community!CommunityTypes
  <2>3. begun \in Community!Requests
    BY <2>2 DEF Community!Requests
  <2>4. req' \in [Sessions -> Community!Requests]
    BY <2>1, <2>3 DEF Community!CommunityIInv, Community!CommunityTypes
  <2>5. Community!CommunityTypes'
    BY <2>1, <2>4 DEF Community!CommunityIInv, Community!CommunityTypes
  <2>6. \A t \in Sessions : t # s => req'[t].op = "idle"
    BY <2>1, NoneAssumption DEF Community!CommunityIInv, Community!CommunityTypes, Community!OneWriter
  <2>7. req'[s] = begun /\ Community!Visible(op)'
    BY <2>1 DEF Community!CommunityIInv, Community!CommunityTypes, Community!Visible
  <2>8. Community!OneWriter'
    BY <1>3, <2>1, <2>6, <2>7 DEF Community!OneWriter
  <2> QED
    BY <1>2, <2>1, <2>5, <2>8
<1>4. ASSUME NEW s \in Sessions, Community!Abandon(s)
      PROVE  Community!CommunityIInv' /\ Community!ReviewDecision
  <2>1. /\ req[s].op # "idle" /\ req' = [req EXCEPT ![s] = Community!Idle]
        /\ UNCHANGED <<community, members, ownerRole, roleFell>>
    BY <1>4 DEF Community!Abandon, Community!End
  <2>2. \A t \in Sessions : t # s => req[t].op = "idle"
    BY <2>1 DEF Community!CommunityIInv, Community!OneWriter
  <2>3. Community!CommunityTypes' /\ \A t \in Sessions : req'[t].op = "idle"
    BY <2>1, <2>2, CommunityRecords DEF Community!CommunityIInv, Community!CommunityTypes
  <2> QED
    BY <1>2, <2>1, <2>3 DEF Community!OneWriter
<1>5. ASSUME NEW r, Community!SelectRole(r) \/ Community!ReviewRole(r)
      PROVE  Community!CommunityIInv' /\ Community!ReviewDecision
  <2>1. UNCHANGED <<community, members, lock, req>> /\ roleFell' \in BOOLEAN /\ (roleFell => roleFell')
    BY <1>5 DEF Community!SelectRole, Community!ReviewRole, Community!CommunityIInv, Community!CommunityTypes
  <2>2. Community!CommunityTypes'
    BY <2>1 DEF Community!CommunityIInv, Community!CommunityTypes
  <2>3. Community!OneWriter'
    BY <2>1 DEF Community!CommunityIInv, Community!OneWriter, Community!Visible
  <2>4. Community!Active' = Community!Active
    BY <2>1 DEF Community!Active
  <2>5. Community!MembersCounted'
    BY <2>1, <2>4, MembersByCardinality DEF Community!CommunityIInv, Community!MembersCounted
  <2>6. Community!ResubmissionsBounded' /\ Community!MayReturn' /\ Community!ReviewDecision
    BY <2>1 DEF Community!CommunityIInv, Community!ResubmissionsBounded, Community!MayReturn,
                Community!ReviewDecision
  <2> QED
    BY <2>2, <2>3, <2>5, <2>6 DEF Community!CommunityIInv
<1> QED
  BY <1>1, <1>3, <1>4, <1>5, ReviewCommits, MembershipCommits
     DEF Community!CommunityNext, Community!OwnerOps, Community!AdminOps

----------------------------------------------------------------------------
(* A poll: who is to write has read what is so.                            *)

PollRequests == [at: {"idle", "member", "lock", "write"}, user: Users \cup {NoUser},
                 chosen: SUBSET Options, previous: SUBSET Options]
VotersFor(o) == {u \in Users : o \in votes[u]}

LEMMA VotersCounted ==
    /\ Community!VotesCounted <=>
         /\ \A o \in Options : counts[o] = Cardinality(VotersFor(o))
         /\ ~multiple => \A u \in Users : Community!Cardinality(votes[u]) <= 1
    /\ Community!VotesCounted' <=>
         /\ \A o \in Options : counts'[o] = Cardinality(VotersFor(o)')
         /\ ~multiple' => \A u \in Users : Community!Cardinality(votes'[u]) <= 1
    /\ \A o \in Options : IsFiniteSet(VotersFor(o)) /\ Cardinality(VotersFor(o)) \in Nat
<1>1. /\ \A o \in Options : Community!Cardinality(VotersFor(o)) = Cardinality(VotersFor(o))
      /\ \A o \in Options : Community!Cardinality(VotersFor(o)') = Cardinality(VotersFor(o)')
  BY MembersByCardinality
<1>2. \A o \in Options : IsFiniteSet(VotersFor(o)) /\ Cardinality(VotersFor(o)) \in Nat
  BY FiniteAssumption, FS_Subset, FS_CardinalityType DEF VotersFor
<1>3. Community!VotesCounted <=>
         /\ \A o \in Options : counts[o] = Cardinality(VotersFor(o))
         /\ ~multiple => \A u \in Users : Community!Cardinality(votes[u]) <= 1
  BY <1>1 DEF Community!VotesCounted, VotersFor
<1>4. Community!VotesCounted' <=>
         /\ \A o \in Options : counts'[o] = Cardinality(VotersFor(o)')
         /\ ~multiple' => \A u \in Users : Community!Cardinality(votes'[u]) <= 1
  BY <1>1 DEF Community!VotesCounted, VotersFor
<1> QED
  BY <1>2, <1>3, <1>4

LEMMA PollRecords ==
    /\ Community!NoHandler \in PollRequests /\ Community!NoHandler.at = "idle"
    /\ Community!PollTypeOK <=>
         /\ multiple \in BOOLEAN /\ open \in BOOLEAN /\ active \subseteq Users
         /\ votes \in [Users -> SUBSET Options] /\ counts \in [Options -> Int]
         /\ lock \in Sessions \cup {NoSession} /\ req \in [Sessions -> PollRequests]
    /\ Community!PollTypeOK' <=>
         /\ multiple' \in BOOLEAN /\ open' \in BOOLEAN /\ active' \subseteq Users
         /\ votes' \in [Users -> SUBSET Options] /\ counts' \in [Options -> Int]
         /\ lock' \in Sessions \cup {NoSession} /\ req' \in [Sessions -> PollRequests]
  BY DEF Community!NoHandler, PollRequests, Community!PollTypeOK

\* The user who votes is counted for what he adds, and no more for what he removes.
LEMMA VoteCommits ==
    ASSUME Community!PollIInv, NEW s \in Sessions, Community!CommitVote(s)
    PROVE  Community!PollIInv'
<1> DEFINE u == req[s].user
<1>1. /\ req[s].at = "write" /\ u \in Users /\ req[s].chosen \subseteq Options
      /\ votes \in [Users -> SUBSET Options] /\ counts \in [Options -> Int]
      /\ req[s].previous = votes[u] /\ lock = s
      /\ ~multiple => Community!Cardinality(req[s].chosen) <= 1
  <2>1. req[s] \in PollRequests /\ req[s].at = "write"
    BY PollRecords DEF Community!PollIInv, Community!CommitVote
  <2> QED
    BY <2>1, PollRecords DEF PollRequests, Community!PollIInv, Community!OneVote
<1>2. /\ votes' = [votes EXCEPT ![u] = (@ \ Community!Removed(s)) \cup Community!Added(s)]
      /\ counts' = [o \in Options |-> IF o \in Community!Added(s) THEN counts[o] + 1
                                    ELSE IF o \in Community!Removed(s) THEN counts[o] - 1 ELSE counts[o]]
      /\ req' = [req EXCEPT ![s] = Community!NoHandler] /\ lock' = NoSession
      /\ UNCHANGED <<multiple, open, active>>
  BY DEF Community!CommitVote
<1>3. /\ \A v \in Users \ {u} : votes'[v] = votes[v]
      /\ votes'[u] = req[s].chosen /\ votes' \in [Users -> SUBSET Options]
  BY <1>1, <1>2 DEF Community!Removed, Community!Added
<1>4. ASSUME NEW o \in Options
      PROVE  counts'[o] = Cardinality(VotersFor(o)') /\ counts'[o] \in Int
  <2>1. counts[o] = Cardinality(VotersFor(o)) /\ counts[o] \in Nat /\ IsFiniteSet(VotersFor(o))
    BY VotersCounted DEF Community!PollIInv
  <2>2. CASE o \in Community!Added(s)
    <3>1. u \notin VotersFor(o) /\ VotersFor(o)' = VotersFor(o) \cup {u} /\ counts'[o] = counts[o] + 1
      BY <1>1, <1>2, <1>3, <2>2 DEF VotersFor, Community!Added
    <3>2. Cardinality(VotersFor(o) \cup {u}) = Cardinality(VotersFor(o)) + 1
      <4> HIDE DEF u
      <4> QED
        BY <2>1, <3>1, FS_AddElement
    <3> QED
      BY <2>1, <3>1, <3>2
  <2>3. CASE o \in Community!Removed(s)
    <3>1. u \in VotersFor(o) /\ VotersFor(o)' = VotersFor(o) \ {u} /\ counts'[o] = counts[o] - 1
      BY <1>1, <1>2, <1>3, <2>3 DEF VotersFor, Community!Added, Community!Removed
    <3>2. Cardinality(VotersFor(o) \ {u}) = Cardinality(VotersFor(o)) - 1
      <4> HIDE DEF u
      <4> QED
        BY <2>1, <3>1, FS_RemoveElement
    <3> QED
      BY <2>1, <3>1, <3>2
  <2>4. CASE o \notin Community!Added(s) \cup Community!Removed(s)
    <3>1. VotersFor(o)' = VotersFor(o) /\ counts'[o] = counts[o]
      BY <1>1, <1>2, <1>3, <2>4 DEF VotersFor, Community!Added, Community!Removed
    <3> QED
      BY <2>1, <3>1
  <2> QED
    BY <2>2, <2>3, <2>4
<1>5. ~multiple' => \A v \in Users : Community!Cardinality(votes'[v]) <= 1
  BY <1>1, <1>2, <1>3, VotersCounted DEF Community!PollIInv
<1>6. Community!VotesCounted'
  BY <1>4, <1>5, VotersCounted
<1>7. Community!PollTypeOK'
  <2>1. counts' \in [Options -> Int]
    BY <1>2, <1>4
  <2>2. req' \in [Sessions -> PollRequests]
    BY <1>2, PollRecords DEF Community!PollIInv
  <2> QED
    BY <1>2, <1>3, <2>1, <2>2, PollRecords DEF Community!PollIInv
<1>8. Community!OneVote'
  <2>1. \A t \in Sessions : t # s => req[t].at # "write" /\ req'[t] = req[t]
    BY <1>1, <1>2, PollRecords DEF Community!PollIInv, Community!OneVote
  <2>2. req'[s].at = "idle"
    BY <1>2, PollRecords DEF Community!PollIInv
  <2> QED
    BY <2>1, <2>2 DEF Community!PollIInv, Community!OneVote
<1> QED
  BY <1>6, <1>7, <1>8 DEF Community!PollIInv

LEMMA PollSteps ==
    ASSUME Community!PollIInv, Community!PollNext
    PROVE  Community!PollIInv'
<1>1. ASSUME UNCHANGED <<multiple, votes, counts>>, Community!PollTypeOK', Community!OneVote'
      PROVE  Community!PollIInv'
  <2>1. \A o \in Options : VotersFor(o)' = VotersFor(o)
    BY <1>1 DEF VotersFor
  <2> QED
    BY <1>1, <2>1, VotersCounted DEF Community!PollIInv
<1>2. ASSUME NEW s \in Sessions, NEW handler \in PollRequests, req' = [req EXCEPT ![s] = handler],
             UNCHANGED <<multiple, open, active, votes, counts>>,
             lock' \in {lock, s, NoSession}, lock' # lock => lock \in {s, NoSession},
             handler.at # "idle" => handler.user \in Users,
             handler.at = "write" =>
                 /\ lock' = s /\ handler.previous = votes[handler.user]
                 /\ ~multiple => Community!Cardinality(handler.chosen) <= 1
      PROVE  Community!PollIInv'
  <2>1. Community!PollTypeOK'
    <3>1. req' \in [Sessions -> PollRequests]
      BY <1>2, PollRecords DEF Community!PollIInv
    <3> QED
      BY <1>2, <3>1, PollRecords DEF Community!PollIInv
  <2>2. req'[s] = handler /\ \A t \in Sessions : t # s => req'[t] = req[t]
    BY <1>2, PollRecords DEF Community!PollIInv
  <2>3. \A t \in Sessions : t # s /\ req[t].at = "write" => lock' = t
    BY <1>2, NoneAssumption DEF Community!PollIInv, Community!OneVote
  <2>4. Community!OneVote'
    BY <1>2, <2>2, <2>3 DEF Community!PollIInv, Community!OneVote
  <2> QED
    BY <1>1, <1>2, <2>1, <2>4
<1>3. ASSUME NEW s \in Sessions
      PROVE  req[s] \in PollRequests /\ (req[s].at # "idle" => req[s].user \in Users)
  BY PollRecords DEF Community!PollIInv, Community!OneVote
<1>4. ASSUME NEW s \in Sessions, NEW u \in Users, NEW choice \in SUBSET Options, Community!Ask(s, u, choice)
      PROVE  Community!PollIInv'
  <2> DEFINE handler == [Community!NoHandler EXCEPT !.at = "member", !.user = u, !.chosen = choice]
  <2>1. handler \in PollRequests /\ handler.at = "member" /\ handler.user = u
    BY DEF Community!NoHandler, PollRequests
  <2>2. req' = [req EXCEPT ![s] = handler] /\ UNCHANGED <<multiple, open, active, votes, counts, lock>>
    BY <1>4 DEF Community!Ask
  <2> HIDE DEF handler
  <2> QED
    BY <1>2, <2>1, <2>2
<1>5. ASSUME NEW s \in Sessions, Community!CheckMember(s)
      PROVE  Community!PollIInv'
  <2> DEFINE handler == [req[s] EXCEPT !.at = "lock"]
  <2>1. req[s].at = "member" /\ req' = [req EXCEPT ![s] = handler]
        /\ UNCHANGED <<multiple, open, active, votes, counts, lock>>
    BY <1>5 DEF Community!CheckMember
  <2>2. handler \in PollRequests /\ handler.at = "lock" /\ handler.user \in Users
    BY <1>3, <2>1 DEF PollRequests
  <2> HIDE DEF handler
  <2> QED
    BY <1>2, <2>1, <2>2
<1>6. ASSUME NEW s \in Sessions, Community!LockPoll(s)
      PROVE  Community!PollIInv'
  <2> DEFINE handler == [req[s] EXCEPT !.previous = votes[req[s].user], !.at = "write"]
  <2>1. /\ req[s].at = "lock" /\ lock = NoSession /\ lock' = s
        /\ req' = [req EXCEPT ![s] = handler] /\ UNCHANGED <<multiple, open, active, votes, counts>>
        /\ ~multiple => Community!Cardinality(req[s].chosen) <= 1
    BY <1>6 DEF Community!LockPoll, Community!Votable
  <2>2. votes[req[s].user] \in SUBSET Options
    BY <1>3, <2>1, PollRecords DEF Community!PollIInv
  <2>3. /\ handler \in PollRequests /\ handler.at = "write" /\ handler.user = req[s].user
        /\ handler.previous = votes[req[s].user] /\ handler.chosen = req[s].chosen
    BY <1>3, <2>1, <2>2 DEF PollRequests
  <2> HIDE DEF handler
  <2> QED
    BY <1>2, <1>3, <2>1, <2>3
<1>7. ASSUME NEW s \in Sessions, Community!AbandonVote(s)
      PROVE  Community!PollIInv'
  <2>1. /\ req' = [req EXCEPT ![s] = Community!NoHandler] /\ lock' = IF lock = s THEN NoSession ELSE lock
        /\ UNCHANGED <<multiple, open, active, votes, counts>>
    BY <1>7 DEF Community!AbandonVote
  <2> QED
    BY <1>2, <2>1, PollRecords
<1>8. ASSUME Community!EndPoll \/ \E u \in Users : Community!ChangeMember(u)
      PROVE  Community!PollIInv'
  <2>1. UNCHANGED <<multiple, votes, counts, lock, req>> /\ active' \subseteq Users /\ open' \in BOOLEAN
    BY <1>8, PollRecords DEF Community!EndPoll, Community!ChangeMember, Community!PollIInv
  <2> QED
    BY <1>1, <2>1, PollRecords DEF Community!PollIInv, Community!OneVote
<1> QED
  BY <1>4, <1>5, <1>6, <1>7, <1>8, VoteCommits DEF Community!PollNext

----------------------------------------------------------------------------
(* The counter of a post: every handler that moves it for nothing has      *)
(* slipped.                                                                *)

CounterRequests == [op: {"idle", "add", "remove"}, at: {"idle", "row", "count"},
                    id: Users \cup {"none"}, found: BOOLEAN]
AddsToCount    == Post!Handling("add", "count")
RemovesToCount == Post!Handling("remove", "count")
RemovesToDo    == Post!Handling("remove", "row")
Beyond    == counted - (Cardinality(rows) - Cardinality(AddsToCount) + Cardinality(RemovesToCount))
CounterBounds ==
    /\ Beyond <= slips /\ 0 <= Beyond + slips
    /\ kind # "save" => Cardinality(RemovesToDo) - Cardinality(Post!Deletions) - slips <= Beyond
    /\ Cardinality(Post!Claims) - Cardinality(Post!Claimed) <= slips

\* `handlers` is req, now or next.
LEMMA CounterIds ==
    ASSUME NEW S \in SUBSET Sessions, NEW handlers
    PROVE  IsFiniteSet({handlers[s].id : s \in S}) /\ Cardinality({handlers[s].id : s \in S}) <= Cardinality(S)
<1> DEFINE T == {handlers[s].id : s \in S}
           f == [s \in S |-> handlers[s].id]
<1>1. f \in Surjection(S, T)
  BY DEF Surjection
<1>2. IsFiniteSet(S)
  BY FiniteAssumption, FS_Subset
<1> HIDE DEF f
<1>3. IsFiniteSet(T) /\ Cardinality(T) <= Cardinality(S)
  <2> HIDE DEF T
  <2> QED
    BY <1>1, <1>2, FS_Surjection
<1> QED
  BY <1>3

LEMMA CounterSizes ==
    ASSUME Post!CounterTypes
    PROVE  /\ IsFiniteSet(rows) /\ Cardinality(rows) \in Nat
           /\ \A op, stage : IsFiniteSet(Post!Handling(op, stage)) /\ Cardinality(Post!Handling(op, stage)) \in Nat
           /\ IsFiniteSet(Post!Deletions) /\ Cardinality(Post!Deletions) \in Nat
           /\ IsFiniteSet(Post!Claims) /\ Cardinality(Post!Claims) \in Nat
           /\ IsFiniteSet(Post!Claimed) /\ Cardinality(Post!Claimed) \in Nat
           /\ Cardinality(Post!Deletions) <= Cardinality(RemovesToDo)
<1>1. IsFiniteSet(rows) /\ Cardinality(rows) \in Nat
  BY FiniteAssumption, FS_Subset, FS_CardinalityType DEF Post!CounterTypes
<1>2. \A op, stage : IsFiniteSet(Post!Handling(op, stage)) /\ Cardinality(Post!Handling(op, stage)) \in Nat
  BY FiniteAssumption, FS_Subset, FS_CardinalityType DEF Post!Handling
<1>3. IsFiniteSet(Post!Claims) /\ Cardinality(Post!Claims) \in Nat /\ Post!Claims \subseteq Sessions
  <2>1. Post!Claims \subseteq Sessions
    BY DEF Post!Claims, Post!Handling
  <2> QED
    BY <2>1, FiniteAssumption, FS_Subset, FS_CardinalityType
<1>4. IsFiniteSet(Post!Claimed) /\ Cardinality(Post!Claimed) \in Nat
  <2>1. IsFiniteSet({req[s].id : s \in Post!Claims})
    BY <1>3, CounterIds
  <2>2. Post!Claimed \subseteq {req[s].id : s \in Post!Claims}
    BY DEF Post!Claimed
  <2> QED
    BY <2>1, <2>2, FS_Subset, FS_CardinalityType
<1>5. /\ IsFiniteSet(Post!Deletions) /\ Cardinality(Post!Deletions) \in Nat
      /\ Cardinality(Post!Deletions) <= Cardinality(RemovesToDo)
  <2> DEFINE found == {r \in RemovesToDo : req[r].found}
  <2>1. found \subseteq RemovesToDo /\ RemovesToDo \subseteq Sessions
    BY DEF RemovesToDo, Post!Handling
  <2>2. Cardinality(found) <= Cardinality(RemovesToDo) /\ Cardinality(found) \in Nat
    BY <2>1, FiniteAssumption, FS_Subset, FS_CardinalityType
  <2>3. Post!Deletions = {req[s].id : s \in found}
    BY DEF Post!Deletions, RemovesToDo
  <2>4. IsFiniteSet(Post!Deletions) /\ Cardinality(Post!Deletions) <= Cardinality(found)
    <3> HIDE DEF found
    <3> QED
      BY <2>1, <2>3, CounterIds
  <2>5. Cardinality(Post!Deletions) \in Nat /\ Cardinality(RemovesToDo) \in Nat
    BY <1>2, <2>4, FS_CardinalityType DEF RemovesToDo
  <2> QED
    BY <2>2, <2>4, <2>5
<1> QED
  BY <1>1, <1>2, <1>3, <1>4, <1>5

LEMMA CounterSizesThen ==
    ASSUME Post!CounterTypes'
    PROVE  /\ IsFiniteSet(rows') /\ Cardinality(rows') \in Nat
           /\ \A op, stage : IsFiniteSet(Post!Handling(op, stage)') /\ Cardinality(Post!Handling(op, stage)') \in Nat
           /\ IsFiniteSet(Post!Deletions') /\ Cardinality(Post!Deletions') \in Nat
           /\ IsFiniteSet(Post!Claims') /\ Cardinality(Post!Claims') \in Nat
           /\ IsFiniteSet(Post!Claimed') /\ Cardinality(Post!Claimed') \in Nat
           /\ Cardinality(Post!Deletions') <= Cardinality(RemovesToDo')
<1>1. IsFiniteSet(rows') /\ Cardinality(rows') \in Nat
  BY FiniteAssumption, FS_Subset, FS_CardinalityType DEF Post!CounterTypes
<1>2. ASSUME NEW op, NEW stage
      PROVE  IsFiniteSet(Post!Handling(op, stage)') /\ Cardinality(Post!Handling(op, stage)') \in Nat
  BY FiniteAssumption, FS_Subset, FS_CardinalityType DEF Post!Handling
<1>3. IsFiniteSet(Post!Claims') /\ Cardinality(Post!Claims') \in Nat /\ Post!Claims' \subseteq Sessions
  <2>1. Post!Claims' \subseteq Sessions
    BY DEF Post!Claims, Post!Handling
  <2> QED
    BY <2>1, FiniteAssumption, FS_Subset, FS_CardinalityType
<1>4. IsFiniteSet(Post!Claimed') /\ Cardinality(Post!Claimed') \in Nat
  <2>1. IsFiniteSet({req'[s].id : s \in Post!Claims'})
    BY <1>3, CounterIds
  <2>2. Post!Claimed' \subseteq {req'[s].id : s \in Post!Claims'}
    BY DEF Post!Claimed
  <2> QED
    BY <2>1, <2>2, FS_Subset, FS_CardinalityType
<1>5. /\ IsFiniteSet(Post!Deletions') /\ Cardinality(Post!Deletions') \in Nat
      /\ Cardinality(Post!Deletions') <= Cardinality(RemovesToDo')
  <2> DEFINE found == {r \in RemovesToDo' : req'[r].found}
  <2>1. found \subseteq RemovesToDo' /\ RemovesToDo' \subseteq Sessions
    BY DEF RemovesToDo, Post!Handling
  <2>2. Cardinality(found) <= Cardinality(RemovesToDo') /\ Cardinality(found) \in Nat
    BY <2>1, FiniteAssumption, FS_Subset, FS_CardinalityType
  <2>3. Post!Deletions' = {req'[s].id : s \in found}
    BY DEF Post!Deletions, RemovesToDo
  <2>4. IsFiniteSet(Post!Deletions') /\ Cardinality(Post!Deletions') <= Cardinality(found)
    <3> HIDE DEF found
    <3> QED
      BY <2>1, <2>3, CounterIds
  <2>5. Cardinality(Post!Deletions') \in Nat /\ Cardinality(RemovesToDo') \in Nat
    BY <1>2, <2>4, FS_CardinalityType DEF RemovesToDo
  <2> QED
    BY <2>2, <2>4, <2>5
<1> QED
  BY <1>1, <1>2, <1>3, <1>4, <1>5

LEMMA CounterByCardinality ==
    /\ Post!CounterTypes => (Post!CounterIInv <=> Post!CounterTypes /\ Post!FoundThere /\ CounterBounds)
    /\ Post!CounterTypes' => (Post!CounterIInv' <=> Post!CounterTypes' /\ Post!FoundThere' /\ CounterBounds')
<1>1. /\ \A S : Post!Cardinality(S) = Cardinality(S)
      /\ Post!Cardinality(rows') = Cardinality(rows')
      /\ Post!Cardinality(AddsToCount') = Cardinality(AddsToCount')
      /\ Post!Cardinality(RemovesToCount') = Cardinality(RemovesToCount')
      /\ Post!Cardinality(RemovesToDo') = Cardinality(RemovesToDo')
      /\ Post!Cardinality(Post!Deletions') = Cardinality(Post!Deletions')
      /\ Post!Cardinality(Post!Claims') = Cardinality(Post!Claims')
      /\ Post!Cardinality(Post!Claimed') = Cardinality(Post!Claimed')
  BY DEF Post!Cardinality, Cardinality
<1>2. /\ Post!Uncounted("add") = Post!Cardinality(AddsToCount)
      /\ Post!Uncounted("remove") = Post!Cardinality(RemovesToCount)
      /\ Post!Uncounted("add")' = Post!Cardinality(AddsToCount')
      /\ Post!Uncounted("remove")' = Post!Cardinality(RemovesToCount')
  BY DEF Post!Uncounted, AddsToCount, RemovesToCount, Post!Handling
<1>3. Post!Deviation = Beyond /\ Post!Deviation' = Beyond'
  BY <1>1, <1>2 DEF Post!Deviation, Beyond
<1>4. ASSUME Post!CounterTypes
      PROVE  CounterBounds <=> /\ Post!WrongDeletions - slips <= Post!Deviation /\ Post!Deviation <= slips
                               /\ Post!Cardinality(Post!Claims) - Post!Cardinality(Post!Claimed) <= slips
  <2> DEFINE dev == Beyond
             removing == Cardinality(RemovesToDo)
             deleting == Cardinality(Post!Deletions)
  <2>1. removing \in Nat /\ deleting \in Nat /\ deleting <= removing /\ slips \in Nat /\ dev \in Int
    BY <1>4, CounterSizes DEF Post!CounterTypes, Beyond, RemovesToDo, AddsToCount, RemovesToCount
  <2>2. Post!WrongDeletions = IF kind = "save" THEN 0 ELSE removing - deleting
    BY <1>1 DEF Post!WrongDeletions, RemovesToDo
  <2>3. CounterBounds <=>
             /\ dev <= slips /\ 0 <= dev + slips
             /\ kind # "save" => removing - deleting - slips <= dev
             /\ Post!Cardinality(Post!Claims) - Post!Cardinality(Post!Claimed) <= slips
    BY <1>1 DEF CounterBounds
  <2> HIDE DEF dev, removing, deleting
  <2> QED
    BY <1>3, <2>1, <2>2, <2>3 DEF dev
<1>5. ASSUME Post!CounterTypes'
      PROVE  CounterBounds' <=> /\ Post!WrongDeletions' - slips' <= Post!Deviation' /\ Post!Deviation' <= slips'
                                /\ Post!Cardinality(Post!Claims') - Post!Cardinality(Post!Claimed') <= slips'
  <2> DEFINE dev == Beyond'
             removing == Cardinality(RemovesToDo')
             deleting == Cardinality(Post!Deletions')
             mistaken == Post!WrongDeletions'
             slack == slips'
  <2>1. removing \in Nat /\ deleting \in Nat /\ deleting <= removing /\ slack \in Nat /\ dev \in Int
    BY <1>5, CounterSizesThen DEF Post!CounterTypes, Beyond, RemovesToDo, AddsToCount, RemovesToCount
  <2>2. mistaken = IF kind' = "save" THEN 0 ELSE removing - deleting
    BY <1>1 DEF Post!WrongDeletions, RemovesToDo
  <2>3. CounterBounds' <=>
             /\ dev <= slack /\ 0 <= dev + slack
             /\ kind' # "save" => removing - deleting - slack <= dev
             /\ Post!Cardinality(Post!Claims') - Post!Cardinality(Post!Claimed') <= slack
    BY <1>1 DEF CounterBounds
  <2>4. Post!Deviation' = dev
    BY <1>3
  <2> HIDE DEF dev, removing, deleting, mistaken, slack
  <2>5. (mistaken - slack <= dev /\ dev <= slack) <=>
             /\ dev <= slack /\ 0 <= dev + slack
             /\ kind' # "save" => removing - deleting - slack <= dev
    <3>1. CASE kind' = "save"
      BY <2>1, <2>2, <3>1
    <3>2. CASE kind' # "save"
      BY <2>1, <2>2, <3>2
    <3> QED
      BY <3>1, <3>2
  <2> QED
    BY <2>3, <2>4, <2>5 DEF mistaken, slack
<1> QED
  BY <1>4, <1>5 DEF Post!CounterIInv

Mistaken == Cardinality(RemovesToDo) - Cardinality(Post!Deletions)
Repeated == Cardinality(Post!Claims) - Cardinality(Post!Claimed)

LEMMA AllButOne ==
    ASSUME NEW S, NEW T, NEW x, IsFiniteSet(S), IsFiniteSet(T), S \ {x} \subseteq T
    PROVE  /\ Cardinality(S) - 1 <= Cardinality(T)
           /\ S \subseteq T => Cardinality(S) <= Cardinality(T)
<1>1. Cardinality(S) \in Nat /\ Cardinality(T) \in Nat
  BY FS_CardinalityType
<1>2. Cardinality(S \ {x}) <= Cardinality(T)
  BY FS_Subset
<1>3. Cardinality(S \ {x}) = IF x \in S THEN Cardinality(S) - 1 ELSE Cardinality(S)
  BY FS_RemoveElement
<1>4. S \subseteq T => Cardinality(S) <= Cardinality(T)
  BY FS_Subset
<1> QED
  BY <1>1, <1>2, <1>3, <1>4

\* By how much the bounds may move.
LEMMA CounterMoves ==
    ASSUME Post!CounterIInv, Post!CounterTypes', Post!FoundThere', kind' = kind,
           NEW slip \in {0, 1}, slips' = slips + slip,
           NEW d \in {-1, 0, 1}, Beyond' = Beyond + d,
           d <= slip \/ Beyond' <= slips',
           IF kind = "save" THEN 0 <= slip + d ELSE Mistaken' <= Mistaken + slip + d,
           Repeated' <= Repeated + slip
    PROVE  Post!CounterIInv'
<1> DEFINE dev == Beyond
           dev1 == Beyond'
           misses == Mistaken
           misses1 == Mistaken'
           again == Repeated
           again1 == Repeated'
           slack == slips'
<1>1. Post!CounterTypes /\ CounterBounds
  BY CounterByCardinality DEF Post!CounterIInv
<1>2. /\ dev \in Int /\ dev1 \in Int /\ misses \in Int /\ misses1 \in Nat /\ again \in Int /\ again1 \in Int
      /\ slips \in Nat /\ slack \in Nat
  BY <1>1, CounterSizes, CounterSizesThen
     DEF Beyond, Mistaken, Repeated, Post!CounterTypes, RemovesToDo, AddsToCount, RemovesToCount
<1>3. /\ dev <= slips /\ 0 <= dev + slips /\ again <= slips
      /\ kind # "save" => misses - slips <= dev
  BY <1>1 DEF CounterBounds, Mistaken, Repeated
<1>4. /\ slack = slips + slip /\ dev1 = dev + d /\ (d <= slip \/ dev1 <= slack)
      /\ kind = "save" => 0 <= slip + d
      /\ kind # "save" => misses1 <= misses + slip + d
      /\ again1 <= again + slip
  OBVIOUS
<1>5. /\ dev1 <= slack /\ 0 <= dev1 + slack /\ again1 <= slack
      /\ kind # "save" => misses1 - slack <= dev1
  <2> HIDE DEF dev, dev1, misses, misses1, again, again1, slack
  <2>1. CASE kind = "save"
    BY <1>2, <1>3, <1>4, <2>1
  <2>2. CASE kind # "save"
    BY <1>2, <1>3, <1>4, <2>2
  <2> QED
    BY <2>1, <2>2
<1>6. CounterBounds'
  BY <1>5 DEF CounterBounds, Mistaken, Repeated
<1> QED
  BY <1>6, CounterByCardinality

LEMMA CounterRecords ==
    /\ Post!NoHandler \in CounterRequests /\ Post!NoHandler.at = "idle" /\ Post!NoHandler.op = "idle"
    /\ Post!NoHandler.id = "none"
    /\ Post!CounterTypes <=>
         /\ kind \in {"like", "save", "comment", "share"} /\ rows \subseteq Users
         /\ counted \in Nat /\ slips \in Nat /\ req \in [Sessions -> CounterRequests]
         /\ \A s \in Sessions : req[s].at # "idle" => req[s].op # "idle" /\ req[s].id \in Users
    /\ Post!CounterTypes' <=>
         /\ kind' \in {"like", "save", "comment", "share"} /\ rows' \subseteq Users
         /\ counted' \in Nat /\ slips' \in Nat /\ req' \in [Sessions -> CounterRequests]
         /\ \A s \in Sessions : req'[s].at # "idle" => req'[s].op # "idle" /\ req'[s].id \in Users
  BY DEF Post!NoHandler, Post!NoId, CounterRequests, Post!CounterTypes

\* One session's handler goes on; the others' do not, but for what they found.
LEMMA OneHandler ==
    ASSUME Post!CounterTypes, NEW s \in Sessions,
           \A t \in Sessions \ {s} :
               req'[t].op = req[t].op /\ req'[t].at = req[t].at /\ req'[t].id = req[t].id
    PROVE  /\ \A op, stage : /\ Post!Handling(op, stage) \ {s} = Post!Handling(op, stage)' \ {s}
                             /\ s \in Post!Handling(op, stage) <=> req[s].op = op /\ req[s].at = stage
                             /\ s \in Post!Handling(op, stage)' <=> req'[s].op = op /\ req'[s].at = stage
           /\ Post!Claims \ {s} = Post!Claims' \ {s}
           /\ s \in Post!Claims <=> req[s].at = "row" \/ (req[s].op = "add" /\ req[s].at = "count")
           /\ s \in Post!Claims' <=> req'[s].at = "row" \/ (req'[s].op = "add" /\ req'[s].at = "count")
<1>1. \A op, stage : /\ Post!Handling(op, stage) \ {s} = Post!Handling(op, stage)' \ {s}
                     /\ s \in Post!Handling(op, stage) <=> req[s].op = op /\ req[s].at = stage
                     /\ s \in Post!Handling(op, stage)' <=> req'[s].op = op /\ req'[s].at = stage
  BY DEF Post!Handling
<1> QED
  BY <1>1 DEF Post!Claims

\* By how much a set grows that one session enters or leaves.
LEMMA OneMember ==
    ASSUME NEW S, NEW T, NEW x, IsFiniteSet(S), S \ {x} = T \ {x}
    PROVE  /\ x \in S /\ x \in T => Cardinality(T) = Cardinality(S)
           /\ x \notin S /\ x \notin T => Cardinality(T) = Cardinality(S)
           /\ x \in S /\ x \notin T => Cardinality(T) = Cardinality(S) - 1
           /\ x \notin S /\ x \in T => Cardinality(T) = Cardinality(S) + 1
<1>1. CASE (x \in S <=> x \in T)
  <2>1. S = T
    BY <1>1
  <2> QED
    BY <1>1, <2>1
<1>2. CASE x \in S /\ x \notin T
  <2>1. T = S \ {x}
    BY <1>2
  <2> QED
    BY <1>2, <2>1, FS_RemoveElement
<1>3. CASE x \notin S /\ x \in T
  <2>1. T = S \cup {x}
    BY <1>3
  <2> QED
    BY <1>3, <2>1, FS_AddElement
<1> QED
  BY <1>1, <1>2, <1>3

LEMMA BeyondMoves ==
    ASSUME Post!CounterTypes, Post!CounterTypes',
           NEW dc \in {-1, 0, 1}, NEW dr \in {-1, 0, 1}, NEW da \in {-1, 0, 1}, NEW dm \in {-1, 0, 1},
           counted' = counted + dc, Cardinality(rows') = Cardinality(rows) + dr,
           Cardinality(AddsToCount') = Cardinality(AddsToCount) + da,
           Cardinality(RemovesToCount') = Cardinality(RemovesToCount) + dm
    PROVE  Beyond' = Beyond + (dc - dr + da - dm)
<1> DEFINE c == counted  c1 == counted'  r == Cardinality(rows)  r1 == Cardinality(rows')
           a == Cardinality(AddsToCount)     a1 == Cardinality(AddsToCount')
           m == Cardinality(RemovesToCount)  m1 == Cardinality(RemovesToCount')
<1>1. c \in Nat /\ r \in Nat /\ a \in Nat /\ m \in Nat
  BY CounterSizes DEF Post!CounterTypes, AddsToCount, RemovesToCount
<1>2. c1 = c + dc /\ r1 = r + dr /\ a1 = a + da /\ m1 = m + dm
  OBVIOUS
<1>3. Beyond = c - (r - a + m) /\ Beyond' = c1 - (r1 - a1 + m1)
  BY DEF Beyond
<1> HIDE DEF c, c1, r, r1, a, a1, m, m1
<1>4. c1 - (r1 - a1 + m1) = c - (r - a + m) + (dc - dr + da - dm)
  BY <1>1, <1>2
<1> QED
  BY <1>3, <1>4

\* What claims the others' rows stays so.
LEMMA ClaimsFollow ==
    ASSUME Post!CounterTypes, NEW s \in Sessions, NEW i,
           \A t \in Sessions \ {s} :
               req'[t].op = req[t].op /\ req'[t].at = req[t].at /\ req'[t].id = req[t].id,
           s \in Post!Claims => req[s].id = i, s \in Post!Claims' => req'[s].id = i,
           rows \ {i} \subseteq rows'
    PROVE  Post!Claimed \ {i} \subseteq Post!Claimed'
<1> SUFFICES ASSUME NEW j \in Post!Claimed, j # i PROVE j \in Post!Claimed'
  OBVIOUS
<1>1. PICK t \in Post!Claims : req[t].id = j
  BY DEF Post!Claimed
<1>2. t # s /\ t \in Sessions
  BY <1>1 DEF Post!Claims, Post!Handling
<1>3. t \in Post!Claims' /\ req'[t].id = j
  BY <1>1, <1>2, OneHandler
<1>4. Post!Adders(j) = {} => Post!Adders(j)' = {}
  <2>1. ASSUME NEW a \in Post!Adders(j)' PROVE a \in Post!Adders(j)
    <3>1. a \in Sessions /\ a \in Post!Claims' /\ req'[a].id = j
      BY DEF Post!Adders, Post!Handling, Post!Claims
    <3>2. a # s
      BY <3>1
    <3> QED
      BY <3>1, <3>2 DEF Post!Adders, Post!Handling
  <2> QED
    BY <2>1
<1>5. j \in rows \/ Post!Adders(j) = {}
  BY DEF Post!Claimed
<1> QED
  BY <1>3, <1>4, <1>5 DEF Post!Claimed

LEMMA DeletionsFollow ==
    ASSUME Post!CounterTypes, NEW s \in Sessions, NEW i,
           \A t \in Sessions \ {s} :
               /\ req'[t].op = req[t].op /\ req'[t].at = req[t].at /\ req'[t].id = req[t].id
               /\ req[t].id # i => req'[t].found = req[t].found,
           s \in RemovesToDo => req[s].id = i
    PROVE  Post!Deletions \ {i} \subseteq Post!Deletions'
<1> SUFFICES ASSUME NEW j \in Post!Deletions, j # i PROVE j \in Post!Deletions'
  OBVIOUS
<1>1. PICK t \in RemovesToDo : req[t].found /\ req[t].id = j
  BY DEF Post!Deletions, RemovesToDo
<1>2. t # s /\ t \in Sessions
  BY <1>1 DEF RemovesToDo, Post!Handling
<1>3. t \in RemovesToDo' /\ req'[t].found /\ req'[t].id = j
  BY <1>1, <1>2 DEF RemovesToDo, Post!Handling
<1> QED
  BY <1>3 DEF Post!Deletions, RemovesToDo

\* A handler that ends leaves no more claims unmatched than there were.
LEMMA HandlerEnds ==
    ASSUME Post!CounterTypes, Post!CounterTypes', NEW s \in Sessions,
           req' = [req EXCEPT ![s] = Post!NoHandler], rows' = rows
    PROVE  /\ Mistaken' <= Mistaken /\ Repeated' <= Repeated
           /\ \A op, stage : stage # "idle" =>
                Cardinality(Post!Handling(op, stage)') =
                Cardinality(Post!Handling(op, stage)) - (IF req[s].op = op /\ req[s].at = stage THEN 1 ELSE 0)
<1>1. /\ req'[s].op = "idle" /\ req'[s].at = "idle"
      /\ \A t \in Sessions \ {s} : req'[t] = req[t]
  BY CounterRecords
<1>2. /\ \A op, stage : /\ Post!Handling(op, stage) \ {s} = Post!Handling(op, stage)' \ {s}
                        /\ s \in Post!Handling(op, stage) <=> req[s].op = op /\ req[s].at = stage
                        /\ s \in Post!Handling(op, stage)' <=> req'[s].op = op /\ req'[s].at = stage
      /\ Post!Claims \ {s} = Post!Claims' \ {s}
      /\ s \in Post!Claims' <=> req'[s].at = "row" \/ (req'[s].op = "add" /\ req'[s].at = "count")
  BY <1>1, OneHandler
<1>3. s \notin Post!Claims' /\ s \notin RemovesToDo'
  BY <1>1, <1>2 DEF RemovesToDo
<1>4. /\ Post!Claimed \ {req[s].id} \subseteq Post!Claimed'
      /\ s \notin Post!Claims => Post!Claimed \ {"nothing"} \subseteq Post!Claimed' /\ Post!Claimed \ {"none"} \subseteq Post!Claimed'
  BY <1>1, <1>3, ClaimsFollow
<1>5. /\ Post!Deletions \ {req[s].id} \subseteq Post!Deletions'
      /\ s \notin RemovesToDo => Post!Deletions \ {"nothing"} \subseteq Post!Deletions' /\ Post!Deletions \ {"none"} \subseteq Post!Deletions'
  BY <1>1, DeletionsFollow
<1>6. Repeated' <= Repeated
  <2>1. /\ Cardinality(Post!Claims) \in Nat /\ Cardinality(Post!Claims') \in Nat
        /\ Cardinality(Post!Claimed) \in Nat /\ Cardinality(Post!Claimed') \in Nat
        /\ IsFiniteSet(Post!Claims) /\ IsFiniteSet(Post!Claimed) /\ IsFiniteSet(Post!Claimed')
    BY CounterSizes, CounterSizesThen
  <2>2. CASE s \in Post!Claims
    <3>1. Cardinality(Post!Claims') = Cardinality(Post!Claims) - 1
      BY <1>2, <1>3, <2>1, <2>2, OneMember
    <3>2. Cardinality(Post!Claimed) - 1 <= Cardinality(Post!Claimed')
      BY <1>4, <2>1, AllButOne
    <3> QED
      BY <2>1, <3>1, <3>2 DEF Repeated
  <2>3. CASE s \notin Post!Claims
    <3>1. Cardinality(Post!Claims') = Cardinality(Post!Claims)
      BY <1>2, <1>3, <2>1, <2>3, OneMember
    <3>2. Cardinality(Post!Claimed) <= Cardinality(Post!Claimed')
      <4>1. Post!Claimed \subseteq Post!Claimed'
        BY <1>4, <2>3
      <4> QED
        BY <2>1, <4>1, FS_Subset
    <3> QED
      BY <2>1, <3>1, <3>2 DEF Repeated
  <2> QED
    BY <2>2, <2>3
<1>7. Mistaken' <= Mistaken
  <2>1. /\ Cardinality(RemovesToDo) \in Nat /\ Cardinality(RemovesToDo') \in Nat
        /\ Cardinality(Post!Deletions) \in Nat /\ Cardinality(Post!Deletions') \in Nat
        /\ IsFiniteSet(RemovesToDo) /\ IsFiniteSet(Post!Deletions) /\ IsFiniteSet(Post!Deletions')
    BY CounterSizes, CounterSizesThen DEF RemovesToDo
  <2>2. RemovesToDo \ {s} = RemovesToDo' \ {s}
    BY <1>2 DEF RemovesToDo
  <2>3. CASE s \in RemovesToDo
    <3>1. Cardinality(RemovesToDo') = Cardinality(RemovesToDo) - 1
      BY <1>3, <2>1, <2>2, <2>3, OneMember
    <3>2. Cardinality(Post!Deletions) - 1 <= Cardinality(Post!Deletions')
      BY <1>5, <2>1, AllButOne
    <3> QED
      BY <2>1, <3>1, <3>2 DEF Mistaken
  <2>4. CASE s \notin RemovesToDo
    <3>1. Cardinality(RemovesToDo') = Cardinality(RemovesToDo)
      BY <1>3, <2>1, <2>2, <2>4, OneMember
    <3>2. Cardinality(Post!Deletions) <= Cardinality(Post!Deletions')
      <4>1. Post!Deletions \subseteq Post!Deletions'
        BY <1>5, <2>4
      <4> QED
        BY <2>1, <4>1, FS_Subset
    <3> QED
      BY <2>1, <3>1, <3>2 DEF Mistaken
  <2> QED
    BY <2>3, <2>4
<1>8. ASSUME NEW op, NEW stage, stage # "idle"
      PROVE  Cardinality(Post!Handling(op, stage)') =
             Cardinality(Post!Handling(op, stage)) - (IF req[s].op = op /\ req[s].at = stage THEN 1 ELSE 0)
  <2>1. IsFiniteSet(Post!Handling(op, stage)) /\ Cardinality(Post!Handling(op, stage)) \in Nat
    BY CounterSizes
  <2>2. s \notin Post!Handling(op, stage)'
    BY <1>1, <1>2, <1>8
  <2>3. CASE s \in Post!Handling(op, stage)
    <3>1. Cardinality(Post!Handling(op, stage)') = Cardinality(Post!Handling(op, stage)) - 1
      BY <1>2, <2>1, <2>2, <2>3, OneMember
    <3> QED
      BY <1>2, <2>3, <3>1
  <2>4. CASE s \notin Post!Handling(op, stage)
    <3>1. Cardinality(Post!Handling(op, stage)') = Cardinality(Post!Handling(op, stage))
      BY <1>2, <2>1, <2>2, <2>4, OneMember
    <3> QED
      BY <1>2, <2>1, <2>4, <3>1
  <2> QED
    BY <2>3, <2>4
<1> QED
  BY <1>6, <1>7, <1>8

LEMMA OneHandlerMoves ==
    ASSUME Post!CounterTypes, NEW s \in Sessions,
           \A q \in Sessions \ {s} :
               req'[q].op = req[q].op /\ req'[q].at = req[q].at /\ req'[q].id = req[q].id
    PROVE  /\ AddsToCount \ {s} = AddsToCount' \ {s} /\ RemovesToCount \ {s} = RemovesToCount' \ {s}
           /\ RemovesToDo \ {s} = RemovesToDo' \ {s} /\ Post!Claims \ {s} = Post!Claims' \ {s}
           /\ (s \in AddsToCount <=> req[s].op = "add" /\ req[s].at = "count")
           /\ (s \in RemovesToCount <=> req[s].op = "remove" /\ req[s].at = "count")
           /\ (s \in RemovesToDo <=> req[s].op = "remove" /\ req[s].at = "row")
           /\ (s \in Post!Claims <=> req[s].at = "row" \/ (req[s].op = "add" /\ req[s].at = "count"))
           /\ (s \in AddsToCount' <=> req'[s].op = "add" /\ req'[s].at = "count")
           /\ (s \in RemovesToCount' <=> req'[s].op = "remove" /\ req'[s].at = "count")
           /\ (s \in RemovesToDo' <=> req'[s].op = "remove" /\ req'[s].at = "row")
           /\ (s \in Post!Claims' <=> req'[s].at = "row" \/ (req'[s].op = "add" /\ req'[s].at = "count"))
  BY OneHandler DEF AddsToCount, RemovesToCount, RemovesToDo

\* Whoever begins beside another of the row slips.
LEMMA CounterBegins ==
    ASSUME Post!CounterIInv, NEW s \in Sessions, NEW i \in Users, Post!Add(s, i) \/ Post!Remove(s, i)
    PROVE  Post!CounterIInv'
<1> DEFINE doing == IF Post!Add(s, i) THEN "add" ELSE "remove"
           handler == [op |-> doing, at |-> "row", id |-> i, found |-> i \in rows]
           slip == IF \E t \in Sessions : req[t].id = i THEN 1 ELSE 0
<1>1. /\ doing \in {"add", "remove"} /\ req[s] = Post!NoHandler /\ req' = [req EXCEPT ![s] = handler]
      /\ slips' = slips + slip /\ UNCHANGED <<kind, rows, counted>>
      /\ doing = "remove" /\ kind # "save" => i \in rows
  BY DEF Post!Add, Post!Remove, Post!BeginCounted
<1> HIDE DEF doing
<1>2. Post!CounterTypes /\ Post!FoundThere
  BY DEF Post!CounterIInv
<1>3. slip \in {0, 1} /\ (slip = 0 => \A t \in Sessions : req[t].id # i)
  OBVIOUS
<1>4. /\ handler \in CounterRequests /\ handler.op = doing /\ handler.at = "row" /\ handler.id = i
      /\ handler.found <=> i \in rows
  <2>1. (i \in rows) \in BOOLEAN
    OBVIOUS
  <2>2. handler \in CounterRequests
    BY <1>1, <2>1, Zenon DEF CounterRequests
  <2>3. handler.op = doing /\ handler.at = "row" /\ handler.id = i
    OBVIOUS
  <2>4. handler.found <=> i \in rows
    BY Zenon
  <2> QED
    BY <2>2, <2>3, <2>4
<1> HIDE DEF slip, handler
<1>5. /\ req'[s] = handler /\ \A t \in Sessions \ {s} : req'[t] = req[t]
      /\ req' \in [Sessions -> CounterRequests]
  BY <1>1, <1>2, <1>4, CounterRecords
<1>6. Post!CounterTypes'
  <2>1. slips' \in Nat
    BY <1>1, <1>2, <1>3 DEF Post!CounterTypes
  <2>2. \A t \in Sessions : req'[t].at # "idle" => req'[t].op # "idle" /\ req'[t].id \in Users
    BY <1>1, <1>2, <1>4, <1>5 DEF Post!CounterTypes
  <2> QED
    BY <1>1, <1>2, <1>5, <2>1, <2>2, CounterRecords
<1>7. Post!FoundThere'
  BY <1>1, <1>2, <1>4, <1>5 DEF Post!FoundThere, Post!Handling
<1>8. /\ AddsToCount \ {s} = AddsToCount' \ {s} /\ RemovesToCount \ {s} = RemovesToCount' \ {s}
      /\ RemovesToDo \ {s} = RemovesToDo' \ {s} /\ Post!Claims \ {s} = Post!Claims' \ {s}
      /\ s \notin AddsToCount \cup RemovesToCount \cup RemovesToDo \cup Post!Claims
      /\ s \notin AddsToCount' \cup RemovesToCount' /\ s \in Post!Claims'
      /\ s \in RemovesToDo' <=> doing = "remove"
  <2>1. req[s].at = "idle"
    BY <1>1, CounterRecords
  <2>2. req'[s].at = "row" /\ req'[s].op = doing
    BY <1>4, <1>5
  <2> QED
    BY <1>2, <1>5, <2>1, <2>2, OneHandlerMoves
<1>9. s \notin Post!Claims /\ s \in Post!Claims' /\ s \notin RemovesToDo
  BY <1>8
<1>10. AddsToCount' = AddsToCount /\ RemovesToCount' = RemovesToCount
  BY <1>8
<1>11. Beyond' = Beyond + 0
  <2>1. /\ Cardinality(rows) \in Nat /\ Cardinality(AddsToCount) \in Nat /\ Cardinality(RemovesToCount) \in Nat
        /\ counted \in Nat
    BY <1>2, CounterSizes DEF Post!CounterTypes, AddsToCount, RemovesToCount
  <2>2. Beyond' = Beyond /\ Beyond \in Int
    BY <1>1, <1>10, <2>1 DEF Beyond
  <2> QED
    BY <2>2
<1>12. Repeated' <= Repeated + slip
  <2>1. /\ Cardinality(Post!Claims) \in Nat /\ Cardinality(Post!Claims') \in Nat
        /\ Cardinality(Post!Claimed) \in Nat /\ Cardinality(Post!Claimed') \in Nat
        /\ IsFiniteSet(Post!Claims) /\ IsFiniteSet(Post!Claimed) /\ IsFiniteSet(Post!Claimed')
    BY <1>2, <1>6, CounterSizes, CounterSizesThen
  <2>2. Cardinality(Post!Claims') = Cardinality(Post!Claims) + 1
    BY <1>8, <1>9, <2>1, OneMember
  <2>3. Post!Claimed \subseteq Post!Claimed'
    <3>1. \A t \in Post!Claims : t \in Post!Claims' /\ req'[t].id = req[t].id
      BY <1>5, <1>8, <1>9 DEF Post!Claims, Post!Handling
    <3>2. \A j : Post!Adders(j)' = Post!Adders(j)
      BY <1>1, <1>4, <1>5, <1>10, CounterRecords DEF Post!Adders, AddsToCount, Post!Handling
    <3> QED
      BY <1>1, <3>1, <3>2 DEF Post!Claimed
  <2>4. Cardinality(Post!Claimed) <= Cardinality(Post!Claimed')
    BY <2>1, <2>3, FS_Subset
  <2>5. CASE slip = 0
    <3>1. i \notin Post!Claimed
      BY <1>3, <2>5 DEF Post!Claimed, Post!Claims, Post!Handling
    <3>2. Post!Adders(i)' = {}
      BY <1>3, <1>4, <1>5, <2>5 DEF Post!Adders, Post!Handling
    <3>3. i \in Post!Claimed'
      BY <1>4, <1>5, <1>9, <3>2 DEF Post!Claimed
    <3>4. Cardinality(Post!Claimed \cup {i}) = Cardinality(Post!Claimed) + 1
      BY <2>1, <3>1, FS_AddElement
    <3>5. Cardinality(Post!Claimed \cup {i}) <= Cardinality(Post!Claimed')
      BY <2>1, <2>3, <3>3, FS_Subset
    <3> QED
      BY <2>1, <2>2, <2>5, <3>4, <3>5 DEF Repeated
  <2>6. CASE slip = 1
    BY <2>1, <2>2, <2>4, <2>6 DEF Repeated
  <2> QED
    BY <1>3, <2>5, <2>6
<1>13. kind # "save" => Mistaken' <= Mistaken + slip + 0
  <2> SUFFICES ASSUME kind # "save" PROVE Mistaken' <= Mistaken + slip
    BY <1>3, <1>2, <1>6, CounterSizes, CounterSizesThen DEF Mistaken, RemovesToDo
  <2>1. /\ Cardinality(RemovesToDo) \in Nat /\ Cardinality(RemovesToDo') \in Nat
        /\ Cardinality(Post!Deletions) \in Nat /\ Cardinality(Post!Deletions') \in Nat
        /\ IsFiniteSet(RemovesToDo) /\ IsFiniteSet(Post!Deletions) /\ IsFiniteSet(Post!Deletions')
    BY <1>2, <1>6, CounterSizes, CounterSizesThen DEF RemovesToDo
  <2>2. RemovesToDo \ {s} = RemovesToDo' \ {s} /\ (s \in RemovesToDo' <=> doing = "remove")
    BY <1>4, <1>5, <1>8 DEF RemovesToDo
  <2>3. Post!Deletions \subseteq Post!Deletions'
    BY <1>5, <1>9, <2>2 DEF Post!Deletions, RemovesToDo, Post!Handling
  <2>4. Cardinality(Post!Deletions) <= Cardinality(Post!Deletions')
    BY <2>1, <2>3, FS_Subset
  <2>5. CASE doing = "add"
    <3>1. Cardinality(RemovesToDo') = Cardinality(RemovesToDo)
      BY <1>9, <2>1, <2>2, <2>5, OneMember
    <3> QED
      BY <1>3, <2>1, <2>4, <3>1 DEF Mistaken
  <2>6. CASE doing = "remove" /\ slip = 1
    <3>1. Cardinality(RemovesToDo') = Cardinality(RemovesToDo) + 1
      BY <1>9, <2>1, <2>2, <2>6, OneMember
    <3> QED
      BY <2>1, <2>4, <2>6, <3>1 DEF Mistaken
  <2>7. CASE doing = "remove" /\ slip = 0
    <3>1. Cardinality(RemovesToDo') = Cardinality(RemovesToDo) + 1
      BY <1>9, <2>1, <2>2, <2>7, OneMember
    <3>2. i \notin Post!Deletions
      BY <1>3, <2>7 DEF Post!Deletions, Post!Handling
    <3>3. i \in Post!Deletions'
      BY <1>1, <1>4, <1>5, <2>2, <2>7 DEF Post!Deletions, RemovesToDo
    <3>4. Cardinality(Post!Deletions \cup {i}) = Cardinality(Post!Deletions) + 1
      BY <2>1, <3>2, FS_AddElement
    <3>5. Cardinality(Post!Deletions \cup {i}) <= Cardinality(Post!Deletions')
      BY <2>1, <2>3, <3>3, FS_Subset
    <3> QED
      BY <2>1, <2>7, <3>1, <3>4, <3>5 DEF Mistaken
  <2> QED
    BY <1>1, <1>3, <2>5, <2>6, <2>7
<1> QED
  BY <1>1, <1>3, <1>6, <1>7, <1>11, <1>12, <1>13, CounterMoves

LEMMA CounterInserts ==
    ASSUME Post!CounterIInv, NEW s \in Sessions, Post!InsertRow(s)
    PROVE  Post!CounterIInv'
<1> DEFINE i == req[s].id
           handler == [req[s] EXCEPT !.at = "count"]
<1>1. /\ req[s].op = "add" /\ req[s].at = "row" /\ i \notin rows /\ rows' = rows \cup {i}
      /\ req' = [req EXCEPT ![s] = handler] /\ UNCHANGED <<kind, counted, slips>>
  BY DEF Post!InsertRow
<1>2. Post!CounterTypes /\ Post!FoundThere /\ i \in Users /\ req[s] \in CounterRequests
  BY <1>1, CounterRecords DEF Post!CounterIInv
<1>3. /\ handler \in CounterRequests /\ handler.op = "add" /\ handler.at = "count" /\ handler.id = i
  BY <1>1, <1>2 DEF CounterRequests
<1> HIDE DEF i, handler
<1>4. /\ req'[s] = handler /\ \A t \in Sessions \ {s} : req'[t] = req[t]
      /\ req' \in [Sessions -> CounterRequests]
  BY <1>1, <1>2, <1>3, CounterRecords
<1>5. Post!CounterTypes'
  <2>1. \A t \in Sessions : req'[t].at # "idle" => req'[t].op # "idle" /\ req'[t].id \in Users
    BY <1>2, <1>3, <1>4 DEF Post!CounterTypes
  <2> QED
    BY <1>1, <1>2, <1>4, <2>1, CounterRecords
<1>6. Post!FoundThere'
  BY <1>1, <1>2, <1>3, <1>4 DEF Post!FoundThere, Post!Handling
<1>7. /\ AddsToCount \ {s} = AddsToCount' \ {s} /\ RemovesToCount \ {s} = RemovesToCount' \ {s}
      /\ RemovesToDo \ {s} = RemovesToDo' \ {s} /\ Post!Claims \ {s} = Post!Claims' \ {s}
      /\ s \in Post!Claims \cap Post!Claims' /\ s \notin RemovesToDo \cup RemovesToDo'
      /\ s \notin RemovesToCount \cup RemovesToCount' /\ s \notin AddsToCount /\ s \in AddsToCount'
  <2>1. req'[s].at = "count" /\ req'[s].op = "add"
    BY <1>3, <1>4
  <2> QED
    BY <1>1, <1>2, <1>4, <2>1, OneHandlerMoves
<1>8. /\ Post!Claims' = Post!Claims /\ RemovesToDo' = RemovesToDo /\ RemovesToCount' = RemovesToCount
      /\ AddsToCount \ {s} = AddsToCount' \ {s} /\ s \notin AddsToCount /\ s \in AddsToCount'
  BY <1>7
<1>9. /\ Cardinality(rows') = Cardinality(rows) + 1 /\ Cardinality(rows) \in Nat
      /\ Cardinality(AddsToCount') = Cardinality(AddsToCount) + 1
      /\ Cardinality(RemovesToCount') = Cardinality(RemovesToCount) + 0
  <2>1. /\ IsFiniteSet(rows) /\ IsFiniteSet(AddsToCount) /\ Cardinality(RemovesToCount) \in Nat
        /\ Cardinality(rows) \in Nat
    BY <1>2, CounterSizes DEF AddsToCount, RemovesToCount
  <2>2. Cardinality(rows') = Cardinality(rows) + 1
    BY <1>1, <2>1, FS_AddElement
  <2>3. Cardinality(AddsToCount') = Cardinality(AddsToCount) + 1
    BY <1>8, <2>1, OneMember
  <2> QED
    BY <1>8, <2>1, <2>2, <2>3
<1>10. Beyond' = Beyond + 0 /\ slips' = slips + 0
  <2>1. counted' = counted + 0 /\ slips' = slips + 0
    BY <1>1, <1>2 DEF Post!CounterTypes
  <2>2. Beyond' = Beyond + (0 - 1 + 1 - 0)
    BY <1>2, <1>5, <1>9, <2>1, BeyondMoves
  <2> QED
    BY <2>1, <2>2
<1>11. Mistaken' <= Mistaken + 0 + 0
  <2>1. Post!Deletions' = Post!Deletions
    BY <1>4, <1>8, <1>1 DEF Post!Deletions, RemovesToDo, Post!Handling
  <2>2. Mistaken \in Int /\ Mistaken' = Mistaken
    BY <1>2, <1>8, <2>1, CounterSizes DEF Mistaken, RemovesToDo
  <2> QED
    BY <2>2
<1>12. Repeated' <= Repeated + 0
  <2>1. /\ Cardinality(Post!Claims) \in Nat
        /\ Cardinality(Post!Claimed) \in Nat /\ Cardinality(Post!Claimed') \in Nat
        /\ IsFiniteSet(Post!Claimed) /\ IsFiniteSet(Post!Claimed')
    BY <1>2, <1>5, CounterSizes, CounterSizesThen
  <2>2. Post!Claimed \ {i} \subseteq Post!Claimed'
    BY <1>1, <1>2, <1>3, <1>4, ClaimsFollow DEF i
  <2>3. i \in Post!Claimed'
    BY <1>1, <1>3, <1>4, <1>7 DEF Post!Claimed
  <2>4. Cardinality(Post!Claimed) <= Cardinality(Post!Claimed')
    BY <2>1, <2>2, <2>3, FS_Subset
  <2> QED
    BY <1>8, <2>1, <2>4 DEF Repeated
<1> QED
  BY <1>1, <1>5, <1>6, <1>10, <1>11, <1>12, CounterMoves

LEMMA CounterDeletes ==
    ASSUME Post!CounterIInv, NEW s \in Sessions, Post!DeleteRow(s)
    PROVE  Post!CounterIInv'
<1> DEFINE i == req[s].id
           took == kind = "save" \/ req[s].found
<1>1. /\ req[s].op = "remove" /\ req[s].at = "row" /\ (kind = "save" => i \in rows)
      /\ rows' = IF took THEN rows \ {i} ELSE rows
      /\ req' = [t \in Sessions |->
                   IF t = s THEN [req[t] EXCEPT !.at = "count"]
                   ELSE IF req[t].id = i /\ req[s].found THEN [req[t] EXCEPT !.found = FALSE] ELSE req[t]]
      /\ UNCHANGED <<kind, counted, slips>>
  BY DEF Post!DeleteRow, Post!Gone
<1>2. Post!CounterTypes /\ Post!FoundThere /\ i \in Users /\ \A t \in Sessions : req[t] \in CounterRequests
  BY <1>1, CounterRecords DEF Post!CounterIInv
<1>3. took => i \in rows
  BY <1>1, <1>2 DEF Post!FoundThere, Post!Handling
<1>4. /\ req'[s].op = "remove" /\ req'[s].at = "count" /\ req'[s].id = i /\ req'[s] \in CounterRequests
      /\ \A t \in Sessions \ {s} :
           /\ req'[t] \in CounterRequests
           /\ req'[t].op = req[t].op /\ req'[t].at = req[t].at /\ req'[t].id = req[t].id
           /\ (req[t].id # i \/ ~req[s].found) => req'[t] = req[t]
           /\ req[t].id = i /\ req[s].found => ~req'[t].found
  <2>1. req'[s] = [req[s] EXCEPT !.at = "count"]
    BY <1>1
  <2>2. req'[s].op = "remove" /\ req'[s].at = "count" /\ req'[s].id = i /\ req'[s] \in CounterRequests
    BY <1>1, <1>2, <2>1 DEF CounterRequests
  <2>3. ASSUME NEW t \in Sessions \ {s}
        PROVE  /\ req'[t] \in CounterRequests
               /\ req'[t].op = req[t].op /\ req'[t].at = req[t].at /\ req'[t].id = req[t].id
               /\ (req[t].id # i \/ ~req[s].found) => req'[t] = req[t]
               /\ req[t].id = i /\ req[s].found => ~req'[t].found
    <3>1. CASE req[t].id = i /\ req[s].found
      <4>1. req'[t] = [req[t] EXCEPT !.found = FALSE]
        BY <1>1, <3>1
      <4>2. req[t] \in CounterRequests
        BY <1>2
      <4>3. /\ req'[t] \in CounterRequests
            /\ req'[t].op = req[t].op /\ req'[t].at = req[t].at /\ req'[t].id = req[t].id
        BY <4>1, <4>2 DEF CounterRequests
      <4>4. req'[t].found = FALSE
        BY <4>1, <4>2 DEF CounterRequests
      <4> QED
        BY <3>1, <4>3, <4>4
    <3>2. CASE ~(req[t].id = i /\ req[s].found)
      <4>1. req'[t] = req[t]
        BY <1>1, <3>2
      <4> QED
        BY <1>2, <3>2, <4>1
    <3> QED
      BY <3>1, <3>2
  <2> QED
    BY <2>2, <2>3
<1> HIDE DEF i
<1>5. Post!CounterTypes'
  <2>1. req' \in [Sessions -> CounterRequests]
    BY <1>1, <1>4
  <2>2. \A t \in Sessions : req'[t].at # "idle" => req'[t].op # "idle" /\ req'[t].id \in Users
    BY <1>1, <1>2, <1>4 DEF Post!CounterTypes
  <2> QED
    BY <1>1, <1>2, <2>1, <2>2, CounterRecords
<1>6. Post!FoundThere'
  BY <1>1, <1>2, <1>4 DEF Post!FoundThere, Post!Handling
<1>7. /\ AddsToCount' = AddsToCount /\ RemovesToCount \ {s} = RemovesToCount' \ {s}
      /\ RemovesToDo \ {s} = RemovesToDo' \ {s} /\ Post!Claims \ {s} = Post!Claims' \ {s}
      /\ s \in Post!Claims /\ s \notin Post!Claims' /\ s \in RemovesToDo /\ s \notin RemovesToDo'
      /\ s \notin RemovesToCount /\ s \in RemovesToCount'
  BY <1>1, <1>2, <1>4, OneHandlerMoves
<1>8. /\ Cardinality(Post!Claims) \in Nat /\ Cardinality(Post!Claims') \in Nat
      /\ Cardinality(Post!Claimed) \in Nat /\ Cardinality(Post!Claimed') \in Nat
      /\ Cardinality(RemovesToDo) \in Nat /\ Cardinality(RemovesToDo') \in Nat
      /\ Cardinality(Post!Deletions) \in Nat /\ Cardinality(Post!Deletions') \in Nat
      /\ IsFiniteSet(Post!Claims) /\ IsFiniteSet(Post!Claimed) /\ IsFiniteSet(Post!Claimed')
      /\ IsFiniteSet(RemovesToDo) /\ IsFiniteSet(Post!Deletions) /\ IsFiniteSet(Post!Deletions')
      /\ Cardinality(AddsToCount) \in Nat /\ Cardinality(RemovesToCount) \in Nat /\ IsFiniteSet(RemovesToCount)
      /\ IsFiniteSet(rows) /\ Cardinality(rows) \in Nat
  BY <1>2, <1>5, CounterSizes, CounterSizesThen DEF RemovesToDo, RemovesToCount, AddsToCount
<1>9. /\ Cardinality(Post!Claims') = Cardinality(Post!Claims) - 1
      /\ Cardinality(RemovesToDo') = Cardinality(RemovesToDo) - 1
      /\ Cardinality(RemovesToCount') = Cardinality(RemovesToCount) + 1
      /\ Cardinality(AddsToCount') = Cardinality(AddsToCount) + 0
      /\ counted' = counted + 0 /\ slips' = slips + 0
  <2>1. Cardinality(Post!Claims') = Cardinality(Post!Claims) - 1
    BY <1>7, <1>8, OneMember
  <2>2. Cardinality(RemovesToDo') = Cardinality(RemovesToDo) - 1
    BY <1>7, <1>8, OneMember
  <2>3. Cardinality(RemovesToCount') = Cardinality(RemovesToCount) + 1
    BY <1>7, <1>8, OneMember
  <2>4. counted' = counted + 0 /\ slips' = slips + 0
    BY <1>1, <1>2 DEF Post!CounterTypes
  <2> QED
    BY <1>7, <1>8, <2>1, <2>2, <2>3, <2>4
<1>10. Repeated' <= Repeated + 0
  <2>1. Post!Claimed \ {i} \subseteq Post!Claimed'
    BY <1>1, <1>2, <1>4, <1>7, ClaimsFollow DEF i
  <2>2. Cardinality(Post!Claimed) - 1 <= Cardinality(Post!Claimed')
    BY <1>8, <2>1, AllButOne
  <2> QED
    BY <1>8, <1>9, <2>2 DEF Repeated
<1>11. CASE took
  <2>1. Cardinality(rows') = Cardinality(rows) + -1
    BY <1>1, <1>3, <1>8, <1>11, FS_RemoveElement
  <2>2. Beyond' = Beyond + (0 - -1 + 0 - 1)
    BY <1>2, <1>5, <1>9, <2>1, BeyondMoves
  <2>3. kind # "save" => Mistaken' <= Mistaken + 0 + 0
    <3>1. Post!Deletions \ {i} \subseteq Post!Deletions'
      BY <1>2, <1>4, DeletionsFollow DEF i
    <3>2. Cardinality(Post!Deletions) - 1 <= Cardinality(Post!Deletions')
      BY <1>8, <3>1, AllButOne
    <3> QED
      BY <1>8, <1>9, <3>2 DEF Mistaken
  <2>4. Beyond' = Beyond + 0
    BY <2>2
  <2> QED
    BY <1>1, <1>5, <1>6, <1>9, <1>10, <2>3, <2>4, CounterMoves
<1>12. CASE ~took
  <2>1. Cardinality(rows') = Cardinality(rows) + 0
    BY <1>1, <1>8, <1>12
  <2>2. Beyond' = Beyond + (0 - 0 + 0 - 1)
    BY <1>2, <1>5, <1>9, <2>1, BeyondMoves
  <2>3. Mistaken' <= Mistaken + 0 + -1
    <3>1. Post!Deletions \subseteq Post!Deletions'
      BY <1>4, <1>7, <1>12 DEF Post!Deletions, RemovesToDo, Post!Handling
    <3>2. Cardinality(Post!Deletions) <= Cardinality(Post!Deletions')
      BY <1>8, <3>1, FS_Subset
    <3> QED
      BY <1>8, <1>9, <3>2 DEF Mistaken
  <2>4. Beyond' = Beyond + -1
    BY <2>2
  <2>5. kind # "save"
    BY <1>12
  <2> QED
    BY <1>1, <1>5, <1>6, <1>9, <1>10, <2>3, <2>4, <2>5, CounterMoves
<1> QED
  BY <1>11, <1>12

\* Whoever has a row to count has it still, or shares its claim.
LEMMA ClaimsMatched ==
    ASSUME Post!CounterTypes
    PROVE  Cardinality(AddsToCount) - Cardinality(rows) <= Repeated
<1> DEFINE others == Post!Claims \ AddsToCount
           ids == {req[s].id : s \in others}
<1>1. /\ IsFiniteSet(Post!Claims) /\ Cardinality(Post!Claims) \in Nat
      /\ IsFiniteSet(Post!Claimed) /\ Cardinality(Post!Claimed) \in Nat
      /\ IsFiniteSet(AddsToCount) /\ Cardinality(AddsToCount) \in Nat
      /\ IsFiniteSet(rows) /\ Cardinality(rows) \in Nat
  BY CounterSizes DEF AddsToCount
<1>2. AddsToCount \subseteq Post!Claims /\ Post!Claims \subseteq Sessions
  BY DEF AddsToCount, Post!Claims, Post!Handling
<1>3. Cardinality(others) = Cardinality(Post!Claims) - Cardinality(AddsToCount)
  <2>1. Post!Claims \cap AddsToCount = AddsToCount
    BY <1>2
  <2> QED
    BY <1>1, <2>1, FS_Difference
<1>4. IsFiniteSet(ids) /\ Cardinality(ids) <= Cardinality(others) /\ Cardinality(ids) \in Nat
  <2>1. others \subseteq Sessions
    BY <1>2
  <2>2. IsFiniteSet(ids) /\ Cardinality(ids) <= Cardinality(others)
    <3> HIDE DEF others
    <3> QED
      BY <2>1, CounterIds
  <2> QED
    BY <2>2, FS_CardinalityType
<1>5. Post!Claimed \subseteq rows \cup ids
  <2> SUFFICES ASSUME NEW j \in Post!Claimed, j \notin rows PROVE j \in ids
    OBVIOUS
  <2>1. PICK s \in Post!Claims : req[s].id = j
    BY DEF Post!Claimed
  <2>2. Post!Adders(j) = {}
    BY DEF Post!Claimed
  <2>3. s \notin AddsToCount
    BY <2>1, <2>2 DEF Post!Adders, AddsToCount
  <2> QED
    BY <2>1, <2>3
<1>6. Cardinality(Post!Claimed) <= Cardinality(rows) + Cardinality(ids)
  <2> HIDE DEF ids
  <2>1. /\ IsFiniteSet(rows \cup ids) /\ Cardinality(rows \cup ids) \in Nat /\ Cardinality(rows \cap ids) \in Nat
        /\ Cardinality(rows \cup ids) = Cardinality(rows) + Cardinality(ids) - Cardinality(rows \cap ids)
    BY <1>1, <1>4, FS_Union, FS_Intersection, FS_CardinalityType
  <2>2. Cardinality(Post!Claimed) <= Cardinality(rows \cup ids)
    BY <1>5, <2>1, FS_Subset
  <2> QED
    BY <1>1, <1>4, <2>1, <2>2
<1> HIDE DEF others, ids
<1> QED
  BY <1>1, <1>3, <1>4, <1>6 DEF Repeated

\* The last transaction, or none.
LEMMA CounterEnds ==
    ASSUME Post!CounterIInv, NEW s \in Sessions, Post!AdjustCount(s) \/ Post!Refuse(s) \/ Post!Crash(s)
    PROVE  Post!CounterIInv'
<1> DEFINE op == req[s].op
<1>1. Post!CounterTypes /\ Post!FoundThere /\ req[s] \in CounterRequests
  BY CounterRecords DEF Post!CounterIInv
<1>2. /\ req[s].at \in {"row", "count"} /\ req' = [req EXCEPT ![s] = Post!NoHandler]
      /\ rows' = rows /\ kind' = kind /\ counted' \in Nat /\ slips' \in Nat
  <2>1. counted \in Nat /\ slips \in Nat
    BY <1>1 DEF Post!CounterTypes
  <2> QED
    BY <2>1 DEF Post!AdjustCount, Post!Refuse, Post!Crash, Post!Adjusted
<1>3. /\ req'[s] = Post!NoHandler /\ \A t \in Sessions \ {s} : req'[t] = req[t]
      /\ req' \in [Sessions -> CounterRequests]
  BY <1>1, <1>2, CounterRecords
<1>4. Post!CounterTypes'
  <2>1. \A t \in Sessions : req'[t].at # "idle" => req'[t].op # "idle" /\ req'[t].id \in Users
    BY <1>1, <1>3, CounterRecords DEF Post!CounterTypes
  <2> QED
    BY <1>1, <1>2, <1>3, <2>1, CounterRecords
<1>5. Post!FoundThere'
  BY <1>1, <1>2, <1>3, CounterRecords DEF Post!FoundThere, Post!Handling
<1>6. Mistaken' <= Mistaken /\ Repeated' <= Repeated
  BY <1>1, <1>2, <1>4, HandlerEnds
<1>7. Mistaken \in Int /\ Mistaken' \in Int /\ Repeated \in Int /\ Repeated' \in Int /\ Beyond \in Int
  BY <1>1, <1>4, CounterSizes, CounterSizesThen
     DEF Mistaken, Repeated, Beyond, RemovesToDo, RemovesToCount, AddsToCount, Post!CounterTypes
<1>8. ASSUME NEW slip \in {0, 1}, slips' = slips + slip, NEW d \in {-1, 0, 1}, Beyond' = Beyond + d,
             d <= slip \/ Beyond' <= slips', 0 <= slip + d
      PROVE  Post!CounterIInv'
  <2> DEFINE misses == Mistaken
             misses1 == Mistaken'
             again == Repeated
             again1 == Repeated'
  <2>1. misses1 <= misses + slip + d /\ again1 <= again + slip
    <3> HIDE DEF misses, misses1, again, again1
    <3>1. misses1 <= misses /\ again1 <= again /\ misses \in Int /\ misses1 \in Int /\ again \in Int /\ again1 \in Int
      BY <1>6, <1>7 DEF misses, misses1, again, again1
    <3> QED
      BY <1>8, <3>1
  <2> QED
    BY <1>2, <1>4, <1>5, <1>8, <2>1, CounterMoves
<1>9. /\ Cardinality(AddsToCount) \in Nat /\ Cardinality(RemovesToCount) \in Nat /\ Cardinality(rows) \in Nat
      /\ Cardinality(AddsToCount') \in Nat /\ Cardinality(RemovesToCount') \in Nat /\ counted \in Nat
      /\ Cardinality(rows') = Cardinality(rows) + 0
  BY <1>1, <1>2, <1>4, CounterSizes, CounterSizesThen DEF AddsToCount, RemovesToCount, Post!CounterTypes
<1>10. /\ Cardinality(AddsToCount') =
            Cardinality(AddsToCount) - (IF op = "add" /\ req[s].at = "count" THEN 1 ELSE 0)
       /\ Cardinality(RemovesToCount') =
            Cardinality(RemovesToCount) - (IF op = "remove" /\ req[s].at = "count" THEN 1 ELSE 0)
  BY <1>1, <1>2, <1>4, HandlerEnds DEF AddsToCount, RemovesToCount
<1>11. CASE Post!Refuse(s)
  <2>1. req[s].at = "row" /\ counted' = counted + 0 /\ slips' = slips + 0
    BY <1>1, <1>11 DEF Post!Refuse, Post!CounterTypes
  <2>2. /\ Cardinality(AddsToCount') = Cardinality(AddsToCount) + 0
        /\ Cardinality(RemovesToCount') = Cardinality(RemovesToCount) + 0
    BY <1>9, <1>10, <2>1
  <2>3. Beyond' = Beyond + (0 - 0 + 0 - 0)
    BY <1>1, <1>4, <1>9, <2>1, <2>2, BeyondMoves
  <2> QED
    BY <1>8, <2>1, <2>3
<1>12. req[s].at = "count" => op \in {"add", "remove"}
  BY <1>1, CounterRecords DEF CounterRequests
<1>13. CASE Post!AdjustCount(s)
  <2>1. /\ req[s].at = "count" /\ slips' = slips + 0
        /\ counted' = Post!Adjusted(IF op = "add" THEN 1 ELSE -1)
    BY <1>1, <1>13 DEF Post!AdjustCount, Post!CounterTypes
  <2>2. CASE op = "add"
    <3>1. counted' = counted + 1
      BY <1>9, <2>1, <2>2 DEF Post!Adjusted
    <3>2. /\ Cardinality(AddsToCount') = Cardinality(AddsToCount) + -1
          /\ Cardinality(RemovesToCount') = Cardinality(RemovesToCount) + 0
      BY <1>9, <1>10, <2>1, <2>2
    <3>3. Beyond' = Beyond + (1 - 0 + -1 - 0)
      BY <1>1, <1>4, <1>9, <3>1, <3>2, BeyondMoves
    <3> QED
      BY <1>8, <2>1, <3>3
  <2>3. CASE op = "remove"
    <3>1. /\ Cardinality(AddsToCount') = Cardinality(AddsToCount) + 0
          /\ Cardinality(RemovesToCount') = Cardinality(RemovesToCount) + -1
      BY <1>9, <1>10, <2>1, <2>3
    <3>2. CASE counted > 0
      <4>1. counted' = counted + -1
        BY <1>9, <2>1, <2>3, <3>2 DEF Post!Adjusted
      <4>2. Beyond' = Beyond + (-1 - 0 + 0 - -1)
        BY <1>1, <1>4, <1>9, <3>1, <4>1, BeyondMoves
      <4> QED
        BY <1>8, <2>1, <4>2
    <3>3. CASE counted = 0
      <4>1. counted' = counted + 0
        BY <2>1, <2>3, <3>3 DEF Post!Adjusted
      <4>2. Beyond' = Beyond + (0 - 0 + 0 - -1)
        BY <1>1, <1>4, <1>9, <3>1, <4>1, BeyondMoves
      <4>3. Beyond' <= slips'
        <5> DEFINE a == Cardinality(AddsToCount)
                   r == Cardinality(rows)
                   m1 == Cardinality(RemovesToCount')
                   dev1 == Beyond'
                   slack == slips'
                   again == Repeated
        <5>1. dev1 = 0 - (r - a + m1)
          BY <1>9, <3>1, <3>3, <4>1 DEF Beyond
        <5>2. a - r <= again /\ again <= slack
          BY <1>1, <2>1, ClaimsMatched, CounterByCardinality
             DEF Post!CounterIInv, CounterBounds, Repeated, Post!CounterTypes
        <5>3. a \in Nat /\ r \in Nat /\ m1 \in Nat /\ again \in Int /\ slack \in Nat
          BY <1>2, <1>7, <1>9
        <5> HIDE DEF a, r, m1, dev1, slack, again
        <5>4. dev1 <= slack
          BY <5>1, <5>2, <5>3
        <5> QED
          BY <5>4 DEF dev1, slack
      <4> QED
        BY <1>8, <2>1, <4>2, <4>3
    <3> QED
      BY <1>9, <3>2, <3>3
  <2> QED
    BY <1>12, <2>1, <2>2, <2>3
<1>14. CASE Post!Crash(s)
  <2>1. req[s].at = "count" /\ slips' = slips + 1 /\ counted' = counted + 0
    BY <1>1, <1>14 DEF Post!Crash, Post!CounterTypes
  <2>2. CASE op = "add"
    <3>1. /\ Cardinality(AddsToCount') = Cardinality(AddsToCount) + -1
          /\ Cardinality(RemovesToCount') = Cardinality(RemovesToCount) + 0
      BY <1>9, <1>10, <2>1, <2>2
    <3>2. Beyond' = Beyond + (0 - 0 + -1 - 0)
      BY <1>1, <1>4, <1>9, <2>1, <3>1, BeyondMoves
    <3> QED
      BY <1>8, <2>1, <3>2
  <2>3. CASE op = "remove"
    <3>1. /\ Cardinality(AddsToCount') = Cardinality(AddsToCount) + 0
          /\ Cardinality(RemovesToCount') = Cardinality(RemovesToCount) + -1
      BY <1>9, <1>10, <2>1, <2>3
    <3>2. Beyond' = Beyond + (0 - 0 + 0 - -1)
      BY <1>1, <1>4, <1>9, <2>1, <3>1, BeyondMoves
    <3> QED
      BY <1>8, <2>1, <3>2
  <2> QED
    BY <1>12, <2>1, <2>2, <2>3
<1> QED
  BY <1>11, <1>13, <1>14

LEMMA CounterSteps ==
    ASSUME Post!CounterIInv, Post!CounterNext
    PROVE  Post!CounterIInv'
  BY CounterBegins, CounterInserts, CounterDeletes, CounterEnds DEF Post!CounterNext

LEMMA CounterTrue ==
    ASSUME Post!CounterIInv
    PROVE  Post!RowsCounted
<1> DEFINE dev == Beyond
<1>1. Post!CounterTypes /\ CounterBounds
  BY CounterByCardinality DEF Post!CounterIInv
<1>2. dev \in Int /\ slips \in Nat /\ dev <= slips /\ 0 <= dev + slips
  BY <1>1, CounterSizes DEF CounterBounds, Beyond, AddsToCount, RemovesToCount, Post!CounterTypes
<1>3. Post!Deviation = dev
  BY DEF Post!Deviation, Beyond, Post!Uncounted, AddsToCount, RemovesToCount, Post!Handling,
         Post!Cardinality, Cardinality
<1> HIDE DEF dev
<1>4. dev \in -slips..slips
  BY <1>2
<1> QED
  BY <1>3, <1>4 DEF Post!RowsCounted, Post!Deviation

LEMMA CounterStands ==
    ASSUME Post!CounterIInv, UNCHANGED <<kind, rows, counted, req, slips>>
    PROVE  Post!CounterIInv'
<1>1. \A op, stage : Post!Handling(op, stage)' = Post!Handling(op, stage)
  BY DEF Post!Handling
<1>2. /\ Post!Deletions' = Post!Deletions /\ Post!Claims' = Post!Claims
      /\ \A i : Post!Adders(i)' = Post!Adders(i)
  BY <1>1 DEF Post!Deletions, Post!Claims, Post!Adders
<1>3. Post!Claimed' = Post!Claimed
  BY <1>2 DEF Post!Claimed
<1>4. AddsToCount' = AddsToCount /\ RemovesToCount' = RemovesToCount /\ RemovesToDo' = RemovesToDo
  BY <1>1 DEF AddsToCount, RemovesToCount, RemovesToDo
<1>5. Post!CounterTypes' /\ Post!FoundThere'
  BY <1>1 DEF Post!CounterIInv, Post!CounterTypes, Post!FoundThere
<1>6. CounterBounds'
  BY <1>2, <1>3, <1>4, CounterByCardinality DEF Post!CounterIInv, CounterBounds, Beyond
<1> QED
  BY <1>5, <1>6, CounterByCardinality

LEMMA CounterStarts ==
    ASSUME Post!CounterInit
    PROVE  Post!CounterIInv
<1>1. /\ rows = {} /\ counted = 0 /\ slips = 0 /\ kind \in {"like", "save", "comment", "share"}
      /\ req = [s \in Sessions |-> Post!NoHandler]
  BY DEF Post!CounterInit
<1>2. Post!CounterTypes
  <2>1. req \in [Sessions -> CounterRequests]
    BY <1>1, CounterRecords
  <2> QED
    BY <1>1, <2>1, CounterRecords
<1>3. \A s \in Sessions : req[s].at = "idle"
  BY <1>1, CounterRecords
<1>4. /\ AddsToCount = {} /\ RemovesToCount = {} /\ RemovesToDo = {} /\ Post!Claims = {}
  BY <1>3 DEF AddsToCount, RemovesToCount, RemovesToDo, Post!Claims, Post!Handling
<1>5. Post!Deletions = {} /\ Post!Claimed = {} /\ Post!FoundThere
  BY <1>4 DEF Post!Deletions, Post!Claimed, Post!FoundThere, RemovesToDo
<1>6. CounterBounds
  <2>1. Cardinality({}) = 0
    BY FS_EmptySet
  <2> QED
    BY <1>1, <1>4, <1>5, <2>1 DEF CounterBounds, Beyond
<1> QED
  BY <1>2, <1>5, <1>6, CounterByCardinality

LEMMA CommunityStarts ==
    ASSUME Community!CommunityInit
    PROVE  Community!CommunityIInv
<1>1. /\ community = Community!NoCommunity /\ members = [u \in Users \cup {Owner} |-> "NONE"]
      /\ roleFell = FALSE /\ req = [s \in Sessions |-> Community!Idle]
  BY DEF Community!CommunityInit
<1>2. community.status = "NONE" /\ community.count = 0 /\ community.resubmissions = 0
  BY <1>1 DEF Community!NoCommunity
<1>3. Community!CommunityTypes /\ Community!OneWriter
  BY <1>1, CommunityRecords DEF Community!CommunityTypes, Community!MemberStatus, Community!OneWriter
<1>4. Community!Active = {}
  BY <1>1 DEF Community!Active
<1>5. community.count = Community!Cardinality(Community!Active)
  BY <1>2, <1>4, FS_EmptySet, MembersByCardinality
<1>6. Community!MembersCounted
  BY <1>1, <1>2, <1>5 DEF Community!MembersCounted
<1>7. Community!ResubmissionsBounded /\ Community!MayReturn
  BY <1>2 DEF Community!ResubmissionsBounded, Community!MayReturn
<1> QED
  BY <1>3, <1>6, <1>7 DEF Community!CommunityIInv

LEMMA CommunityStands ==
    ASSUME Community!CommunityIInv, UNCHANGED <<community, members, lock, req, roleFell>>
    PROVE  Community!CommunityIInv' /\ Community!ReviewDecision
<1>1. Community!Active' = Community!Active
  BY DEF Community!Active
<1>2. Community!MembersCounted'
  BY <1>1, MembersByCardinality DEF Community!CommunityIInv, Community!MembersCounted
<1>3. Community!CommunityTypes' /\ Community!OneWriter' /\ Community!ResubmissionsBounded' /\ Community!MayReturn'
  BY DEF Community!CommunityIInv, Community!CommunityTypes, Community!OneWriter, Community!Visible,
         Community!ResubmissionsBounded, Community!MayReturn
<1> QED
  BY <1>2, <1>3 DEF Community!CommunityIInv, Community!ReviewDecision

LEMMA PollStarts ==
    ASSUME Community!PollInit
    PROVE  Community!PollIInv
<1>1. /\ multiple \in BOOLEAN /\ open = TRUE /\ active = Users
      /\ votes = [u \in Users |-> {}] /\ counts = [o \in Options |-> 0]
      /\ lock = NoSession /\ req = [s \in Sessions |-> Community!NoHandler]
  BY DEF Community!PollInit
<1>2. Community!PollTypeOK /\ Community!OneVote
  BY <1>1, PollRecords DEF Community!OneVote
<1>3. \A o \in Options : VotersFor(o) = {}
  BY <1>1 DEF VotersFor
<1>4. \A o \in Options : counts[o] = Cardinality(VotersFor(o))
  BY <1>1, <1>3, FS_EmptySet
<1>5. \A u \in Users : Community!Cardinality(votes[u]) <= 1
  BY <1>1, FS_EmptySet, MembersByCardinality
<1> QED
  BY <1>2, <1>4, <1>5, VotersCounted DEF Community!PollIInv

LEMMA PollStands ==
    ASSUME Community!PollIInv, UNCHANGED <<multiple, open, active, votes, counts, lock, req>>
    PROVE  Community!PollIInv'
<1>1. \A o \in Options : VotersFor(o)' = VotersFor(o)
  BY DEF VotersFor
<1>2. Community!VotesCounted'
  BY <1>1, VotersCounted DEF Community!PollIInv
<1>3. Community!PollTypeOK' /\ Community!OneVote'
  BY PollRecords DEF Community!PollIInv, Community!OneVote
<1> QED
  BY <1>2, <1>3 DEF Community!PollIInv

----------------------------------------------------------------------------
\* A community counts its active members and is resubmitted no more than allowed;
\* a poll counts its voters; and the counter of a post is beside its rows by no
\* more than the handlers that crashed or overlapped on one row.
THEOREM CountersTrueAlways == Spec => []CountersTrue
<1> DEFINE Inv == /\ scenario = "community" => Community!CommunityIInv
                  /\ scenario = "poll" => Community!PollIInv
                  /\ scenario = "counter" => Post!CounterIInv
<1>1. Init => Inv
  <2> SUFFICES ASSUME Init PROVE Inv
    OBVIOUS
  <2>1. CASE scenario = "community"
    BY <2>1, CommunityStarts DEF Init
  <2>2. CASE scenario = "poll"
    BY <2>2, PollStarts DEF Init
  <2>3. CASE scenario = "counter"
    BY <2>3, CounterStarts DEF Init
  <2> QED
    BY <2>1, <2>2, <2>3
<1>2. Inv /\ [Next]_vars => Inv'
  <2> SUFFICES ASSUME Inv, [Next]_vars PROVE Inv'
    OBVIOUS
  <2>1. CASE Next
    <3>1. UNCHANGED scenario
      BY <2>1 DEF Next
    <3>2. CASE scenario = "community"
      BY <2>1, <3>1, <3>2, CommunitySteps DEF Next
    <3>3. CASE scenario = "poll"
      BY <2>1, <3>1, <3>3, PollSteps DEF Next
    <3>4. CASE scenario = "counter"
      BY <2>1, <3>1, <3>4, CounterSteps DEF Next
    <3> QED
      BY <3>1, <3>2, <3>3, <3>4
  <2>2. CASE UNCHANGED vars
    <3>1. UNCHANGED <<scenario, req, lock, community, members, roleFell, multiple, open, active, votes, counts,
                      kind, rows, counted, slips>>
      BY <2>2 DEF vars, communityVars, pollVars, counterVars
    <3> QED
      BY <3>1, CommunityStands, PollStands, CounterStands
  <2> QED
    BY <2>1, <2>2
<1>3. Inv => CountersTrue
  BY CounterTrue DEF CountersTrue, Community!CommunityIInv, Community!PollIInv
<1> QED
  BY <1>1, <1>2, <1>3, PTL DEF Spec

----------------------------------------------------------------------------
(* An approved role opens what the base role did, and takes nothing else.  *)

LEMMA BaseRoleGrantsLess ==
    ASSUME Access!AsSeeded, NEW r \in Access!VerifiedAccountRoles
    PROVE  grants[Access!BaseRole] \subseteq grants[r]
<1>1. Access!BaseRole \in Access!KnownRoles /\ r \in Access!KnownRoles
  BY DEF Access!KnownRoles, Access!BuiltIn
<1>2. \A k \in Access!KnownRoles :
        grants[k] = Access!RoleDefinitions[k]
                      \cup (IF plugin /\ k \in Access!DefaultRoles THEN Access!PluginPermissions ELSE {})
  BY DEF Access!AsSeeded, Access!Seeded
<1>3. Access!BaseRole \notin Access!DefaultRoles
  BY DEF Access!BaseRole, Access!DefaultRoles
<1>4. /\ Access!RoleDefinitions[Access!BaseRole] = Access!MobileAccountPermissions
      /\ Access!MobileAccountPermissions \subseteq Access!RoleDefinitions[r]
  BY <1>1 DEF Access!RoleDefinitions, Access!BaseRole, Access!VerifiedAccountRoles
<1> QED
  BY <1>1, <1>2, <1>3, <1>4

LEMMA ApprovalKeeps ==
    ASSUME NEW r \in Access!VerifiedAccountRoles, Access!Approve(r), Access!AsSeeded
    PROVE  Access!Reach(Access!AllRoutes, held, verified) \subseteq Access!Reach(Access!AllRoutes, held', verified')
<1> DEFINE may  == Access!ApprovedRoles(held, verified)
           may1 == Access!ApprovedRoles(held', verified')
<1>1. r \in held /\ r \notin verified /\ held' = held \ {Access!BaseRole} /\ verified' = verified \cup {r}
  BY DEF Access!Approve
<1>2. /\ Access!BaseRole \notin Access!VerifiedAccountRoles /\ Access!BaseRole # "super-admin"
      /\ Access!BaseRole \notin Access!AcceptingRoles \cup Access!DeliveryRoles
  BY DEF Access!BaseRole, Access!VerifiedAccountRoles, Access!AcceptingRoles, Access!DeliveryRoles
<1>3. may \ {Access!BaseRole} \subseteq may1 /\ r \in may1
  BY <1>1, <1>2 DEF Access!ApprovedRoles
<1>4. Access!SuperAdmin(may) => Access!SuperAdmin(may1)
  BY <1>2, <1>3 DEF Access!SuperAdmin
<1>5. Access!Permissions(may) \subseteq Access!Permissions(may1)
  <2> HIDE DEF may, may1
  <2> QED
    BY <1>3, BaseRoleGrantsLess DEF Access!Permissions
<1>6. \A oneOf : Access!May(may, oneOf) => Access!May(may1, oneOf)
  <2> HIDE DEF may, may1
  <2> QED
    BY <1>4, <1>5 DEF Access!May
<1>7. Access!Standing(held, verified) \subseteq Access!Standing(held', verified')
  <2>1. Access!SuperAdmin(held) => Access!SuperAdmin(held')
    BY <1>1, <1>2 DEF Access!SuperAdmin
  <2>2. /\ held \cap verified \cap Access!AcceptingRoles # {} => held' \cap verified' \cap Access!AcceptingRoles # {}
        /\ held \cap verified \cap Access!DeliveryRoles # {} => held' \cap verified' \cap Access!DeliveryRoles # {}
    BY <1>1, <1>2
  <2> QED
    BY <2>1, <2>2 DEF Access!Standing
<1>8. \A t, h : Access!Passes(t, h, held, verified) => Access!Passes(t, h, held', verified')
  <2> HIDE DEF may, may1
  <2> QED
    BY <1>6, <1>7 DEF Access!Passes, may, may1
<1>9. \A t, h : Access!Calls(t, h, held, verified) => Access!Calls(t, h, held', verified')
  BY <1>6, <1>8 DEF Access!Calls, Access!ManagesPlugin
<1> QED
  BY <1>9 DEF Access!Reach

----------------------------------------------------------------------------
(* Roles: what a request is to change was checked when it was read.        *)

LEMMA SeedingRoles ==
    /\ "super" \in Seeding!Slugs /\ "made" \in Seeding!Slugs /\ {"super", "native"} \subseteq Seeding!Slugs
    /\ DOMAIN Seeding!NotRun = {"at", "found", "left", "role", "next"}
    /\ Seeding!Idle.op = "idle" /\ Seeding!Idle.user \in {"seeded", "u"} /\ Seeding!NotRun.at = "ended"
<1>1. DOMAIN <<"super", "native">> = 1..2
  OBVIOUS
<1>2. <<"super", "native">>[1] = "super" /\ <<"super", "native">>[2] = "native"
  OBVIOUS
<1>3. "super" \in Seeding!Canonical /\ "native" \in Seeding!Canonical
  BY <1>1, <1>2 DEF Seeding!Canonical
<1> QED
  BY <1>3 DEF Seeding!Slugs, Seeding!NotRun, Seeding!Idle

LEMMA SeedScriptSteps ==
    ASSUME Seeding!SeedIInv, Seeding!SeedNext
    PROVE  Seeding!SeedIInv' /\ Seeding!SeedKeepsHolders /\ Seeding!AdminRolesProtected
<1> DEFINE Goal == Seeding!SeedIInv' /\ Seeding!SeedKeepsHolders /\ Seeding!AdminRolesProtected
<1>1. /\ holds \in [{"seeded", "u"} -> SUBSET Seeding!Slugs] /\ DOMAIN roles = Seeding!Slugs
      /\ deleted \subseteq {"seeded", "u"} /\ disturbed \in BOOLEAN
      /\ DOMAIN seed = {"at", "found", "left", "role", "next"}
  BY SeedingRoles DEF Seeding!SeedIInv, Seeding!SeedTypes
<1>2. ASSUME UNCHANGED <<holds, deleted, req, disturbed>>, DOMAIN roles' = Seeding!Slugs,
             DOMAIN seed' = {"at", "found", "left", "role", "next"}, Seeding!NobodyHolds'
      PROVE  Goal
  <2>1. Seeding!SeedTypes'
    BY <1>2, SeedingRoles DEF Seeding!SeedIInv, Seeding!SeedTypes
  <2>2. Seeding!RequestChecked'
    BY <1>2 DEF Seeding!SeedIInv, Seeding!RequestChecked
  <2>3. Seeding!SeedKeepsHolders /\ Seeding!AdminRolesProtected
    BY <1>2 DEF Seeding!SeedKeepsHolders, Seeding!AdminRolesProtected
  <2> QED
    BY <1>2, <2>1, <2>2, <2>3 DEF Seeding!SeedIInv
<1>3. CASE Seeding!StartSeed \/ Seeding!StopSeed
  <2>1. /\ UNCHANGED <<holds, deleted, req, roles>> /\ disturbed' \in {disturbed, FALSE}
        /\ DOMAIN seed' = {"at", "found", "left", "role", "next"} /\ seed'.at \in {"permissions", "ended"}
    BY <1>3, SeedingRoles DEF Seeding!StartSeed, Seeding!StopSeed, Seeding!NotRun
  <2>2. Seeding!SeedTypes' /\ Seeding!NobodyHolds'
    BY <1>1, <2>1, SeedingRoles DEF Seeding!SeedIInv, Seeding!SeedTypes, Seeding!NobodyHolds
  <2>3. Seeding!RequestChecked'
    BY <2>1 DEF Seeding!SeedIInv, Seeding!RequestChecked
  <2>4. Seeding!SeedKeepsHolders /\ Seeding!AdminRolesProtected
    BY <2>1 DEF Seeding!SeedKeepsHolders, Seeding!AdminRolesProtected
  <2> QED
    BY <2>2, <2>3, <2>4 DEF Seeding!SeedIInv
<1>4. CASE (\E n \in Seeding!Core : Seeding!SeedPermission(n)) \/ Seeding!ListRoles \/ Seeding!StartSync
  <2>1. /\ UNCHANGED <<holds, deleted, req, disturbed, roles>> /\ DOMAIN seed' = DOMAIN seed /\ seed'.at # "remove"
    BY <1>1, <1>4 DEF Seeding!SeedPermission, Seeding!ListRoles, Seeding!StartSync
  <2> QED
    BY <1>1, <1>2, <2>1 DEF Seeding!NobodyHolds
<1>5. CASE Seeding!SyncRole
  <2>1. /\ UNCHANGED <<holds, deleted, req, disturbed>> /\ DOMAIN seed' = DOMAIN seed /\ seed'.at # "remove"
        /\ DOMAIN roles' = DOMAIN roles
    BY <1>1, <1>5 DEF Seeding!SyncRole
  <2> QED
    BY <1>1, <1>2, <2>1 DEF Seeding!NobodyHolds
<1>6. ASSUME NEW r \in {"made"}, Seeding!CheckObsolete(r) PROVE Goal
  <2>1. /\ UNCHANGED <<holds, deleted, req, disturbed, roles>> /\ DOMAIN seed' = DOMAIN seed
        /\ seed'.role = r /\ Seeding!Holders(r) = {}
    BY <1>1, <1>6 DEF Seeding!CheckObsolete, Seeding!CountHolders
  <2>2. Seeding!Holders(r)' = {}
    BY <2>1 DEF Seeding!Holders
  <2> QED
    BY <1>1, <1>2, <2>1, <2>2 DEF Seeding!NobodyHolds, Seeding!Holders
<1>7. CASE Seeding!RemoveObsolete
  <2>1. /\ seed.at = "remove" /\ roles' = [roles EXCEPT ![seed.role] = Seeding!NoRole]
        /\ holds' = [u \in {"seeded", "u"} |-> holds[u] \ {seed.role}] /\ UNCHANGED <<deleted, req, disturbed>>
        /\ seed' = [seed EXCEPT !.at = "obsolete", !.left = @ \ {seed.role}, !.role = Seeding!NoRow]
    BY <1>7 DEF Seeding!RemoveObsolete, Seeding!WithoutRole
  <2>2. seed'.at = "obsolete" /\ DOMAIN seed' = DOMAIN seed /\ DOMAIN roles' = DOMAIN roles
    BY <1>1, <2>1
  <2>3. holds' \in [{"seeded", "u"} -> SUBSET Seeding!Slugs]
    BY <1>1, <2>1
  <2>4. Seeding!SeedTypes' /\ Seeding!NobodyHolds'
    BY <1>1, <2>1, <2>2, <2>3 DEF Seeding!SeedIInv, Seeding!SeedTypes, Seeding!NobodyHolds
  <2>5. Seeding!RequestChecked'
    BY <2>1 DEF Seeding!SeedIInv, Seeding!RequestChecked
  <2>6. ~disturbed => \A u \in {"seeded", "u"} : seed.role \notin holds[u]
    BY <2>1 DEF Seeding!SeedIInv, Seeding!NobodyHolds, Seeding!Holders
  <2>7. Seeding!SeedKeepsHolders
    BY <1>1, <2>1, <2>6 DEF Seeding!SeedKeepsHolders
  <2>8. Seeding!AdminRolesProtected
    BY <2>1, <2>2 DEF Seeding!AdminRolesProtected, Seeding!ByOthers
  <2> QED
    BY <2>4, <2>5, <2>7, <2>8 DEF Seeding!SeedIInv
<1>8. CASE Seeding!SeedUser
  <2>1. /\ seed.at = "users" /\ UNCHANGED <<roles, req, disturbed>> /\ deleted' = deleted \ {"seeded"}
        /\ holds' = [holds EXCEPT !["seeded"] = IF "seeded" \in deleted THEN {"super"} ELSE @ \cup {"super"}]
        /\ seed' = Seeding!NotRun
    BY <1>8 DEF Seeding!SeedUser
  <2>2. holds' \in [{"seeded", "u"} -> SUBSET Seeding!Slugs]
    BY <1>1, <2>1, SeedingRoles
  <2>3. Seeding!SeedTypes' /\ Seeding!NobodyHolds'
    BY <1>1, <2>1, <2>2, SeedingRoles DEF Seeding!SeedIInv, Seeding!SeedTypes, Seeding!NobodyHolds
  <2>4. Seeding!RequestChecked'
    BY <2>1 DEF Seeding!SeedIInv, Seeding!RequestChecked
  <2>5. Seeding!SeedKeepsHolders
    BY <1>1, <2>1 DEF Seeding!SeedKeepsHolders
  <2>6. Seeding!AdminRolesProtected
    BY <2>1, SeedingRoles DEF Seeding!AdminRolesProtected, Seeding!ByOthers
  <2> QED
    BY <2>3, <2>4, <2>5, <2>6 DEF Seeding!SeedIInv
<1> QED
  BY <1>3, <1>4, <1>5, <1>6, <1>7, <1>8 DEF Seeding!SeedNext

LEMMA AdministratorSteps ==
    ASSUME Seeding!SeedIInv, Seeding!GrantDeclared \/ Seeding!AdminNext
    PROVE  Seeding!SeedIInv' /\ Seeding!SeedKeepsHolders /\ Seeding!AdminRolesProtected
<1> DEFINE Goal == Seeding!SeedIInv' /\ Seeding!SeedKeepsHolders /\ Seeding!AdminRolesProtected
<1>1. /\ holds \in [{"seeded", "u"} -> SUBSET Seeding!Slugs] /\ DOMAIN roles = Seeding!Slugs
      /\ deleted \subseteq {"seeded", "u"} /\ disturbed \in BOOLEAN
  BY DEF Seeding!SeedIInv, Seeding!SeedTypes
\* Who edits disturbs the script.
<1>2. ASSUME disturbed' = TRUE, seed' = seed, req' \in {req, Seeding!Idle}, DOMAIN roles' = Seeding!Slugs,
             deleted' \subseteq {"seeded", "u"}, holds' \in [{"seeded", "u"} -> SUBSET Seeding!Slugs],
             Seeding!AdminRolesProtected
      PROVE  Goal
  <2>1. Seeding!SeedTypes' /\ Seeding!NobodyHolds'
    BY <1>2, SeedingRoles DEF Seeding!SeedIInv, Seeding!SeedTypes, Seeding!NobodyHolds
  <2>2. Seeding!RequestChecked'
    BY <1>2, SeedingRoles DEF Seeding!SeedIInv, Seeding!RequestChecked
  <2>3. Seeding!SeedKeepsHolders
    BY <1>2 DEF Seeding!SeedKeepsHolders
  <2> QED
    BY <1>2, <2>1, <2>2, <2>3 DEF Seeding!SeedIInv
\* Who asks has changed nothing.
<1>3. ASSUME UNCHANGED <<roles, holds, deleted, seed, disturbed>>, Seeding!RequestChecked',
             req'.user \in {"seeded", "u"}, req'.op = "assign" => req'.new \subseteq Seeding!Slugs
      PROVE  Goal
  <2>1. Seeding!SeedTypes'
    BY <1>3 DEF Seeding!SeedIInv, Seeding!SeedTypes
  <2>2. Seeding!NobodyHolds'
    BY <1>3 DEF Seeding!SeedIInv, Seeding!NobodyHolds, Seeding!Holders
  <2>3. Seeding!SeedKeepsHolders /\ Seeding!AdminRolesProtected
    BY <1>3 DEF Seeding!SeedKeepsHolders, Seeding!AdminRolesProtected
  <2> QED
    BY <1>3, <2>1, <2>2, <2>3 DEF Seeding!SeedIInv
<1>4. CASE Seeding!GrantDeclared
  <2>1. disturbed' = TRUE /\ UNCHANGED <<holds, deleted, req, seed>> /\ DOMAIN roles' = Seeding!Slugs
    BY <1>4 DEF Seeding!GrantDeclared
  <2>2. Seeding!AdminRolesProtected
    BY <2>1 DEF Seeding!AdminRolesProtected
  <2> QED
    BY <1>1, <1>2, <2>1, <2>2
<1>5. ASSUME NEW r \in {"made"}, Seeding!CreateRole(r) PROVE Goal
  <2>1. disturbed' = TRUE /\ UNCHANGED <<holds, deleted, req, seed>> /\ DOMAIN roles' = Seeding!Slugs
    BY <1>1, <1>5 DEF Seeding!CreateRole, Seeding!Edit
  <2>2. Seeding!AdminRolesProtected
    BY <2>1 DEF Seeding!AdminRolesProtected
  <2> QED
    BY <1>1, <1>2, <2>1, <2>2
<1>6. ASSUME NEW r \in {"made"}, Seeding!DeleteRole(r) PROVE Goal
  <2>1. /\ disturbed' = TRUE /\ UNCHANGED <<deleted, req, seed>> /\ DOMAIN roles' = Seeding!Slugs
        /\ holds' = [u \in {"seeded", "u"} |-> holds[u] \ {r}]
    BY <1>1, <1>6 DEF Seeding!DeleteRole, Seeding!WithoutRole, Seeding!Edit
  <2>2. holds' \in [{"seeded", "u"} -> SUBSET Seeding!Slugs]
    BY <1>1, <2>1
  <2>3. r \notin {"super", "native"}
    OBVIOUS
  <2>4. Seeding!AdminRolesProtected
    BY <2>1, <2>3 DEF Seeding!AdminRolesProtected
  <2> QED
    BY <1>1, <1>2, <2>1, <2>2, <2>4
<1>7. ASSUME NEW r, NEW n, Seeding!RenameRole(r, n) PROVE Goal
  <2>1. disturbed' = TRUE /\ UNCHANGED <<holds, deleted, req, seed>> /\ DOMAIN roles' = Seeding!Slugs
    BY <1>1, <1>7 DEF Seeding!RenameRole, Seeding!Edit
  <2>2. Seeding!AdminRolesProtected
    BY <2>1 DEF Seeding!AdminRolesProtected
  <2> QED
    BY <1>1, <1>2, <2>1, <2>2
<1>8. ASSUME NEW i, Seeding!DeletePermission(i) \/ \E n \in Seeding!Core \cup {"other"} : Seeding!RenamePermission(i, n)
      PROVE  Goal
  <2>1. disturbed' = TRUE /\ UNCHANGED <<holds, deleted, req, seed>> /\ DOMAIN roles' = Seeding!Slugs
    BY <1>1, <1>8 DEF Seeding!DeletePermission, Seeding!RenamePermission, Seeding!Edit
  <2>2. Seeding!AdminRolesProtected
    BY <2>1 DEF Seeding!AdminRolesProtected
  <2> QED
    BY <1>1, <1>2, <2>1, <2>2
<1>9. ASSUME NEW actor, NEW r, NEW asked, Seeding!AskGrant(actor, r, asked) PROVE Goal
  <2>1. /\ UNCHANGED <<roles, holds, deleted, seed, disturbed>>
        /\ req'.user \in {"seeded", "u"} /\ req'.op = "grant" /\ req'.role = r /\ (req'.super <=> Seeding!IsSuper(actor))
        /\ r \in {"super", "native"} => Seeding!IsSuper(actor)
    BY <1>9 DEF Seeding!AskGrant, Seeding!Begin, Seeding!Idle
  <2> QED
    BY <1>3, <2>1 DEF Seeding!RequestChecked
<1>10. ASSUME NEW actor, NEW u \in {"seeded", "u"}, NEW new \in SUBSET {r \in Seeding!Slugs : Seeding!Exists(r)},
              Seeding!AskAssign(actor, u, new)
       PROVE  Goal
  <2>1. /\ UNCHANGED <<roles, holds, deleted, seed, disturbed>>
        /\ req'.user = u /\ req'.op = "assign" /\ req'.new = new /\ req'.seen = holds[u] /\ (req'.super <=> Seeding!IsSuper(actor))
        /\ Seeding!CanChangeRoles(actor, holds[u], new)
    BY <1>10 DEF Seeding!AskAssign, Seeding!Begin, Seeding!Idle
  <2>2. Seeding!RequestChecked'
    BY <2>1 DEF Seeding!RequestChecked, Seeding!CanChangeRoles, Seeding!SymmetricDifference
  <2> QED
    BY <1>3, <2>1, <2>2
<1>11. ASSUME NEW actor, NEW u \in {"seeded", "u"}, Seeding!AskDelete(actor, u) PROVE Goal
  <2>1. /\ UNCHANGED <<roles, holds, deleted, seed, disturbed>>
        /\ req'.user = u /\ req'.op = "delete" /\ req'.seen = holds[u] /\ (req'.super <=> Seeding!IsSuper(actor))
        /\ Seeding!CanModify(actor, u)
    BY <1>11 DEF Seeding!AskDelete, Seeding!Begin, Seeding!Idle
  <2>2. Seeding!RequestChecked'
    BY <2>1 DEF Seeding!RequestChecked, Seeding!CanModify, Seeding!IsSuper
  <2> QED
    BY <1>3, <2>1, <2>2
<1>12. CASE Seeding!CommitGrant
  <2>1. /\ req.op = "grant" /\ disturbed' = TRUE /\ req' = Seeding!Idle /\ UNCHANGED <<holds, deleted, seed>>
        /\ \E granted : roles' = [roles EXCEPT ![req.role].granted = granted]
    BY <1>12 DEF Seeding!CommitGrant, Seeding!Edit
  <2>2. /\ DOMAIN roles' = Seeding!Slugs
        /\ \A r \in Seeding!Slugs : r # req.role => roles'[r] = roles[r]
    BY <1>1, <2>1
  <2>3. ~req.super => req.role \notin {"super", "native"}
    BY <2>1 DEF Seeding!SeedIInv, Seeding!RequestChecked
  <2>4. Seeding!AdminRolesProtected
    BY <2>1, <2>2, <2>3, SeedingRoles DEF Seeding!AdminRolesProtected, Seeding!ByOthers
  <2> QED
    BY <1>1, <1>2, <2>1, <2>2, <2>4
<1>13. CASE Seeding!CommitAssign
  <2>1. /\ req.op = "assign" /\ disturbed' = TRUE /\ req' = Seeding!Idle /\ UNCHANGED <<roles, deleted, seed>>
        /\ holds' = [holds EXCEPT ![req.user] = (@ \ (req.seen \ req.new)) \cup (req.new \ req.seen)]
    BY <1>13 DEF Seeding!CommitAssign, Seeding!Edit
  <2>2. req.new \subseteq Seeding!Slugs
    BY <2>1 DEF Seeding!SeedIInv, Seeding!SeedTypes
  <2>3. holds' \in [{"seeded", "u"} -> SUBSET Seeding!Slugs]
    BY <1>1, <2>1, <2>2
  <2>4. ~req.super => ((req.seen \ req.new) \cup (req.new \ req.seen)) \cap {"super", "native"} = {}
    BY <2>1 DEF Seeding!SeedIInv, Seeding!RequestChecked, Seeding!SymmetricDifference
  <2>5. ~req.super => \A u \in {"seeded", "u"} : holds[u] \cap {"super", "native"} = holds'[u] \cap {"super", "native"}
    BY <1>1, <2>1, <2>4
  <2>6. Seeding!AdminRolesProtected
    BY <2>1, <2>5 DEF Seeding!AdminRolesProtected, Seeding!ByOthers
  <2> QED
    BY <1>1, <1>2, <2>1, <2>3, <2>6
<1>14. CASE Seeding!CommitDelete
  <2>1. /\ req.op = "delete" /\ disturbed' = TRUE /\ req' = Seeding!Idle /\ UNCHANGED <<roles, holds, seed>>
        /\ deleted' = deleted \cup {req.user}
    BY <1>14 DEF Seeding!CommitDelete, Seeding!Edit
  <2>2. Seeding!AdminRolesProtected
    BY <2>1 DEF Seeding!AdminRolesProtected, Seeding!ByOthers, Seeding!SeedIInv, Seeding!RequestChecked
  <2>3. req.user \in {"seeded", "u"}
    BY <2>1 DEF Seeding!SeedIInv, Seeding!SeedTypes
  <2> QED
    BY <1>1, <1>2, <2>1, <2>2, <2>3
<1>15. CASE Seeding!Abandon
  <2>1. UNCHANGED <<roles, holds, deleted, seed, disturbed>> /\ req' = Seeding!Idle
    BY <1>15 DEF Seeding!Abandon
  <2> QED
    BY <1>3, <2>1, SeedingRoles DEF Seeding!RequestChecked
<1> QED
  BY <1>4, <1>5, <1>6, <1>7, <1>8, <1>9, <1>10, <1>11, <1>12, <1>13, <1>14, <1>15 DEF Seeding!AdminNext

LEMMA SeedingStarts ==
    ASSUME Seeding!Init
    PROVE  Seeding!SeedIInv
<1>1. /\ holds = [u \in {"seeded", "u"} |-> {}] /\ roles = [r \in Seeding!Slugs |-> Seeding!NoRole]
      /\ deleted = {} /\ req = Seeding!Idle /\ seed = Seeding!NotRun /\ disturbed = FALSE
  BY DEF Seeding!Init
<1>2. Seeding!SeedTypes
  BY <1>1, SeedingRoles DEF Seeding!SeedTypes
<1>3. Seeding!RequestChecked /\ Seeding!NobodyHolds
  BY <1>1, SeedingRoles DEF Seeding!RequestChecked, Seeding!NobodyHolds
<1> QED
  BY <1>2, <1>3 DEF Seeding!SeedIInv

LEMMA SeedingStands ==
    ASSUME Seeding!SeedIInv, UNCHANGED <<roles, holds, deleted, req, seed, disturbed>>
    PROVE  Seeding!SeedIInv' /\ Seeding!SeedKeepsHolders /\ Seeding!AdminRolesProtected
<1>1. Seeding!SeedTypes' /\ Seeding!RequestChecked'
  BY DEF Seeding!SeedIInv, Seeding!SeedTypes, Seeding!RequestChecked
<1>2. Seeding!NobodyHolds'
  BY DEF Seeding!SeedIInv, Seeding!NobodyHolds, Seeding!Holders
<1>3. Seeding!SeedKeepsHolders /\ Seeding!AdminRolesProtected
  BY DEF Seeding!SeedKeepsHolders, Seeding!AdminRolesProtected
<1> QED
  BY <1>1, <1>2, <1>3 DEF Seeding!SeedIInv

\* What the script knows: its own steps, and those of others.
LEMMA SeedScriptKnows ==
    ASSUME Seeding!SeedIInv, Seeding!ScriptIInv, Seeding!SeedNext
    PROVE  Seeding!ScriptIInv'
<1>1. /\ DOMAIN roles = Seeding!Slugs /\ DOMAIN seed = {"at", "found", "left", "role", "next"}
      /\ DOMAIN permission = Users /\ seed.next \in Nat \ {0} /\ disturbed \in BOOLEAN
  BY SeedingRoles DEF Seeding!SeedIInv, Seeding!SeedTypes, Seeding!ScriptIInv
<1>2. /\ Seeding!NotRun.at = "ended" /\ Seeding!NotRun.found = {} /\ Seeding!NotRun.next = 1
      /\ [Seeding!NotRun EXCEPT !.at = "permissions"].at = "permissions"
      /\ [Seeding!NotRun EXCEPT !.at = "permissions"].found = {}
      /\ [Seeding!NotRun EXCEPT !.at = "permissions"].next = 1
  BY DEF Seeding!NotRun
<1>3. CASE Seeding!StartSeed \/ Seeding!StopSeed \/ Seeding!SeedUser
  <2>1. /\ seed'.at \in {"permissions", "ended"} /\ seed'.found = {} /\ seed'.next = 1
        /\ UNCHANGED permission
    BY <1>2, <1>3 DEF Seeding!StartSeed, Seeding!StopSeed, Seeding!SeedUser
  <2>2. Seeding!FoundInDatabase' /\ Seeding!ObsoleteListed' /\ Seeding!SyncedInOrder'
    BY <2>1 DEF Seeding!FoundInDatabase, Seeding!ObsoleteListed, Seeding!SyncedInOrder
  <2> QED
    BY <1>1, <2>1, <2>2 DEF Seeding!ScriptIInv
\* The steps that read and write nothing but their own.
<1>4. ASSUME UNCHANGED <<permission, disturbed>>, seed'.found = seed.found, seed'.next \in Nat \ {0},
             ~disturbed => seed.at # "ended",
             ~disturbed /\ seed.at = "permissions" => \A n \in Seeding!Core : \E e \in seed.found : e[1] = n,
             ~disturbed => Seeding!ObsoleteListed' /\ Seeding!SyncedInOrder'
      PROVE  Seeding!ScriptIInv'
  <2>1. ~disturbed => Seeding!FoundInDatabase'
    BY <1>4 DEF Seeding!ScriptIInv, Seeding!FoundInDatabase
  <2> QED
    BY <1>1, <1>4, <2>1 DEF Seeding!ScriptIInv
<1>5. ASSUME NEW n \in Seeding!Core, Seeding!SeedPermission(n) PROVE Seeding!ScriptIInv'
  <2>1. PICK i \in Users :
           /\ IF Seeding!Named(n) # {} THEN i \in Seeding!Named(n)
              ELSE i \notin Seeding!Rows /\ \A e \in seed.found : e[2] # i
           /\ permission' = [permission EXCEPT ![i] = n]
           /\ seed' = [seed EXCEPT !.found = @ \cup {<<n, i>>}]
    BY <1>5 DEF Seeding!SeedPermission
  <2>2. /\ seed.at = "permissions" /\ UNCHANGED disturbed /\ seed'.at = seed.at /\ seed'.next = seed.next
        /\ seed'.found = seed.found \cup {<<n, i>>} /\ DOMAIN permission' = DOMAIN permission
    BY <1>1, <1>5, <2>1 DEF Seeding!SeedPermission
  <2>3. ~disturbed => Seeding!FoundInDatabase'
    <3> SUFFICES ASSUME ~disturbed, NEW e \in seed.found \cup {<<n, i>>}
                 PROVE  e \in Seeding!Core \X Users /\ permission'[e[2]] = e[1]
      BY <2>2 DEF Seeding!FoundInDatabase
    <3>1. permission[i] = n \/ \A f \in seed.found : f[2] # i
      BY <2>1 DEF Seeding!Named
    <3>2. CASE e = <<n, i>>
      BY <1>1, <2>1, <3>2
    <3>3. CASE e \in seed.found
      <4>1. e \in Seeding!Core \X Users /\ permission[e[2]] = e[1]
        BY <3>3 DEF Seeding!ScriptIInv, Seeding!FoundInDatabase
      <4>2. e[2] \in Users
        BY <4>1
      <4>3. permission'[e[2]] = permission[e[2]]
        BY <1>1, <2>1, <3>1, <3>3, <4>2
      <4> QED
        BY <4>1, <4>3
    <3> QED
      BY <3>2, <3>3
  <2>4. ~disturbed => Seeding!ObsoleteListed' /\ Seeding!SyncedInOrder'
    BY <2>2 DEF Seeding!ScriptIInv, Seeding!ObsoleteListed, Seeding!SyncedInOrder
  <2> QED
    BY <1>1, <2>2, <2>3, <2>4 DEF Seeding!ScriptIInv
<1>6. CASE Seeding!ListRoles
  <2>1. /\ seed.at = "permissions" /\ UNCHANGED <<permission, roles, disturbed>> /\ seed'.at = "obsolete"
        /\ seed'.found = seed.found /\ seed'.next = seed.next /\ seed'.left = {r \in {"made"} : Seeding!Exists(r)}
        /\ \A n \in Seeding!Core : \E e \in seed.found : e[1] = n
    BY <1>1, <1>6 DEF Seeding!ListRoles
  <2>2. ~disturbed => Seeding!ObsoleteListed' /\ Seeding!SyncedInOrder'
    BY <2>1 DEF Seeding!ScriptIInv, Seeding!ObsoleteListed, Seeding!SyncedInOrder, Seeding!Exists
  <2> QED
    BY <1>1, <1>4, <2>1, <2>2
<1>7. ASSUME NEW r \in {"made"}, Seeding!CheckObsolete(r) PROVE Seeding!ScriptIInv'
  <2>1. /\ seed.at = "obsolete" /\ UNCHANGED <<permission, roles, disturbed>> /\ seed'.at = "remove"
        /\ seed'.found = seed.found /\ seed'.next = seed.next /\ seed'.left = seed.left
    BY <1>1, <1>7 DEF Seeding!CheckObsolete
  <2>2. ~disturbed => Seeding!ObsoleteListed' /\ Seeding!SyncedInOrder'
    BY <2>1 DEF Seeding!ScriptIInv, Seeding!ObsoleteListed, Seeding!SyncedInOrder, Seeding!Exists
  <2> QED
    BY <1>1, <1>4, <2>1, <2>2
<1>8. CASE Seeding!RemoveObsolete
  <2>1. /\ seed.at = "remove" /\ UNCHANGED <<permission, disturbed>> /\ seed'.at = "obsolete"
        /\ seed'.found = seed.found /\ seed'.next = seed.next /\ seed'.left = seed.left \ {seed.role}
        /\ roles' = [roles EXCEPT ![seed.role] = Seeding!NoRole]
    BY <1>1, <1>8 DEF Seeding!RemoveObsolete
  <2>2. \A r \in {"made"} : Seeding!Exists(r)' => Seeding!Exists(r) /\ r # seed.role
    BY <1>1, <2>1, SeedingRoles DEF Seeding!Exists
  <2>3. ~disturbed => Seeding!ObsoleteListed' /\ Seeding!SyncedInOrder'
    BY <2>1, <2>2 DEF Seeding!ScriptIInv, Seeding!ObsoleteListed, Seeding!SyncedInOrder
  <2> QED
    BY <1>1, <1>4, <2>1, <2>3
<1>9. CASE Seeding!StartSync
  <2>1. /\ seed.at = "obsolete" /\ seed.left = {} /\ UNCHANGED <<permission, roles, disturbed>> /\ seed'.at = "sync"
        /\ seed'.found = seed.found /\ seed'.next = seed.next
    BY <1>1, <1>9 DEF Seeding!StartSync
  <2>2. ~disturbed => Seeding!ObsoleteListed' /\ Seeding!SyncedInOrder'
    BY <2>1 DEF Seeding!ScriptIInv, Seeding!ObsoleteListed, Seeding!SyncedInOrder, Seeding!Exists
  <2> QED
    BY <1>1, <1>4, <2>1, <2>2
<1>10. CASE Seeding!SyncRole
  <2> DEFINE list == <<"super", "native">>
             r == list[seed.next]
  <2>1. /\ seed.at = "sync" /\ seed.next <= Len(list) /\ UNCHANGED <<permission, disturbed>>
        /\ seed'.at = IF seed.next = Len(list) THEN "users" ELSE "sync"
        /\ seed'.found = seed.found /\ seed'.next = seed.next + 1
        /\ roles' = [roles EXCEPT ![r] = Seeding!Synced(r)]
    BY <1>1, <1>10 DEF Seeding!SyncRole
  <2>2. /\ Len(list) = 2
        /\ \A k \in 1..2 : list[k] \in {"super", "native"}
    OBVIOUS
  <2> HIDE DEF list
  <2>3. \A q \in {"made"} : Seeding!Exists(q)' => Seeding!Exists(q) \/ r = q
    BY <1>1, <2>1 DEF Seeding!Exists
  <2>4. ~disturbed => seed.next \in 1..2
    BY <1>1, <2>1, <2>2
  <2>5. \A q : Seeding!Synced(q)' = Seeding!Synced(q)
    BY <2>1 DEF Seeding!Synced
  <2>6. ~disturbed => \A k \in 1..Len(list) : k < seed.next => roles[list[k]] = Seeding!Synced(list[k])
    BY <2>1 DEF Seeding!ScriptIInv, Seeding!SyncedInOrder, list
  <2>7. ~disturbed => \A k \in 1..Len(list) : k < seed'.next => roles'[list[k]] = Seeding!Synced(list[k])'
    BY <1>1, <2>1, <2>2, <2>5, <2>6, SeedingRoles
  <2>8. ~disturbed => Seeding!SyncedInOrder'
    BY <2>1, <2>2, <2>7 DEF Seeding!SyncedInOrder, list
  <2>9. ~disturbed => Seeding!ObsoleteListed'
    BY <2>1, <2>2, <2>3, <2>4 DEF Seeding!ScriptIInv, Seeding!ObsoleteListed
  <2> QED
    BY <1>1, <1>4, <2>1, <2>8, <2>9
<1> QED
  BY <1>3, <1>5, <1>6, <1>7, <1>8, <1>9, <1>10 DEF Seeding!SeedNext

LEMMA ScriptUndisturbed ==
    ASSUME Seeding!ScriptIInv, UNCHANGED <<permission, roles, seed, disturbed>>
    PROVE  Seeding!ScriptIInv'
<1>1. Seeding!FoundInDatabase' <=> Seeding!FoundInDatabase
  BY DEF Seeding!FoundInDatabase
<1>2. Seeding!ObsoleteListed' <=> Seeding!ObsoleteListed
  BY DEF Seeding!ObsoleteListed, Seeding!Exists
<1>3. Seeding!SyncedInOrder' <=> Seeding!SyncedInOrder
  BY DEF Seeding!SyncedInOrder, Seeding!Synced
<1> QED
  BY <1>1, <1>2, <1>3 DEF Seeding!ScriptIInv

LEMMA OthersDisturb ==
    ASSUME Seeding!ScriptIInv, Seeding!GrantDeclared \/ Seeding!AdminNext
    PROVE  Seeding!ScriptIInv'
<1>1. CASE disturbed' = TRUE /\ UNCHANGED seed /\ DOMAIN permission' = Users
  BY <1>1 DEF Seeding!ScriptIInv
<1>2. CASE UNCHANGED <<permission, roles, seed, disturbed>>
  BY <1>2, ScriptUndisturbed
<1>3. DOMAIN permission = Users
  BY DEF Seeding!ScriptIInv
<1>4. ASSUME Seeding!GrantDeclared
      PROVE  disturbed' = TRUE /\ UNCHANGED seed /\ DOMAIN permission' = Users
  BY <1>4 DEF Seeding!GrantDeclared
<1>5. ASSUME NEW i, Seeding!DeletePermission(i) \/ \E n \in Seeding!Core \cup {"other"} : Seeding!RenamePermission(i, n)
      PROVE  disturbed' = TRUE /\ UNCHANGED seed /\ DOMAIN permission' = Users
  BY <1>3, <1>5 DEF Seeding!DeletePermission, Seeding!RenamePermission, Seeding!Edit
<1>6. ASSUME NEW r, Seeding!CreateRole(r) \/ Seeding!DeleteRole(r) \/ \E n : Seeding!RenameRole(r, n)
      PROVE  disturbed' = TRUE /\ UNCHANGED <<permission, seed>>
  BY <1>6 DEF Seeding!CreateRole, Seeding!DeleteRole, Seeding!RenameRole, Seeding!Edit
<1>7. ASSUME Seeding!CommitGrant \/ Seeding!CommitAssign \/ Seeding!CommitDelete
      PROVE  disturbed' = TRUE /\ UNCHANGED <<permission, seed>>
  BY <1>7 DEF Seeding!CommitGrant, Seeding!CommitAssign, Seeding!CommitDelete, Seeding!Edit
<1>8. ASSUME NEW actor, NEW x, NEW y,
             Seeding!AskGrant(actor, x, y) \/ Seeding!AskAssign(actor, x, y) \/ Seeding!AskDelete(actor, x)
      PROVE  UNCHANGED <<permission, roles, seed, disturbed>>
  BY <1>8 DEF Seeding!AskGrant, Seeding!AskAssign, Seeding!AskDelete, Seeding!Begin
<1>9. ASSUME Seeding!Abandon PROVE UNCHANGED <<permission, roles, seed, disturbed>>
  BY <1>9 DEF Seeding!Abandon
<1> QED
  BY <1>1, <1>2, <1>3, <1>4, <1>5, <1>6, <1>7, <1>8, <1>9 DEF Seeding!AdminNext

LEMMA ScriptStarts ==
    ASSUME Seeding!Init
    PROVE  Seeding!ScriptIInv
<1>1. /\ permission = [i \in Users |-> Seeding!NoRow] /\ seed = Seeding!NotRun
      /\ seed.at = "ended" /\ seed.found = {} /\ seed.next = 1
  BY DEF Seeding!Init, Seeding!NotRun
<1>2. Seeding!FoundInDatabase /\ Seeding!ObsoleteListed /\ Seeding!SyncedInOrder
  BY <1>1 DEF Seeding!FoundInDatabase, Seeding!ObsoleteListed, Seeding!SyncedInOrder
<1> QED
  BY <1>1, <1>2 DEF Seeding!ScriptIInv

LEMMA RolesAsDefined ==
    ASSUME Seeding!ScriptIInv
    PROVE  Seeding!SeededAsDefined
<1> DEFINE list == <<"super", "native">>
           defined(r) == ("super" :> {"core"} @@ "native" :> {"core"})[r]
<1> SUFFICES ASSUME seed.at = "users", ~disturbed
             PROVE  /\ \A r \in Seeding!Canonical : roles[r].name = r /\ Seeding!Names(r) = defined(r)
                    /\ \A r \in {"made"} : ~Seeding!Exists(r)
  BY DEF Seeding!SeededAsDefined
<1>1. \A r \in {"made"} : ~Seeding!Exists(r)
  BY DEF Seeding!ScriptIInv, Seeding!ObsoleteListed
<1>2. \A r \in Seeding!Canonical : defined(r) \subseteq Seeding!Core
  BY DEF Seeding!Core
<1> HIDE DEF defined
<1>3. seed.next = Len(list) + 1 /\ \A k \in 1..Len(list) : k < seed.next => roles[list[k]] = Seeding!Synced(list[k])
  BY DEF Seeding!ScriptIInv, Seeding!SyncedInOrder
<1>4. DOMAIN list = 1..Len(list) /\ Len(list) \in Nat
  OBVIOUS
<1>5. \A r \in Seeding!Canonical : roles[r] = Seeding!Synced(r)
  <2> TAKE r \in Seeding!Canonical
  <2>1. PICK k \in DOMAIN list : r = list[k]
    BY DEF Seeding!Canonical
  <2> HIDE DEF list
  <2>2. k \in 1..Len(list) /\ k < seed.next
    BY <1>3, <1>4, <2>1
  <2> QED
    BY <1>3, <2>1, <2>2
<1>6. /\ \A e \in seed.found : permission[e[2]] = e[1]
      /\ \A n \in Seeding!Core : \E e \in seed.found : e[1] = n
  BY DEF Seeding!ScriptIInv, Seeding!FoundInDatabase
<1>7. ASSUME NEW r \in Seeding!Canonical PROVE roles[r].name = r /\ Seeding!Names(r) = defined(r)
  <2> DEFINE granted == {e[2] : e \in {f \in seed.found : f[1] \in defined(r)}}
  <2>0. roles[r] = [name |-> r, granted |-> granted]
    BY <1>5, Zenon DEF Seeding!Synced, defined
  <2>1. roles[r].name = r /\ roles[r].granted = granted
    BY <2>0
  <2>2. Seeding!Names(r) = {permission[i] : i \in roles[r].granted}
    BY DEF Seeding!Names
  <2> QED
    BY <1>2, <1>6, <2>1, <2>2
<1> QED
  BY <1>1, <1>7 DEF defined

----------------------------------------------------------------------------
\* A community is decided upon once for each submission; an approved role takes
\* nothing from its user; only super administrators change the administrators'
\* roles, and the seed script takes no role from those who had it.
THEOREM DecisionsHoldAlways == Spec => DecisionsHold
<1> DEFINE Inv == /\ scenario = "community" => Community!CommunityIInv
                  /\ scenario = "seeding" => Seeding!SeedIInv
           Hold == /\ scenario = "community" => Community!ReviewDecision
                   /\ scenario = "access" => Access!ApprovalKeepsAccess
                   /\ scenario = "seeding" => Seeding!SeedKeepsHolders /\ Seeding!AdminRolesProtected
<1>1. Init => Inv
  <2> SUFFICES ASSUME Init PROVE Inv
    OBVIOUS
  <2>1. CASE scenario = "community"
    BY <2>1, CommunityStarts DEF Init
  <2>2. CASE scenario = "seeding"
    BY <2>2, SeedingStarts DEF Init
  <2> QED
    BY <2>1, <2>2
<1>2. Access!ApprovalKeepsAccess
  BY ApprovalKeeps DEF Access!ApprovalKeepsAccess
<1>3. Inv /\ [Next]_vars => Inv' /\ Hold
  <2> SUFFICES ASSUME Inv, [Next]_vars PROVE Inv' /\ Hold
    OBVIOUS
  <2>1. CASE Next
    <3>1. UNCHANGED scenario
      BY <2>1 DEF Next
    <3>2. CASE scenario = "community"
      BY <2>1, <3>1, <3>2, CommunitySteps DEF Next
    <3>3. CASE scenario = "seeding"
      <4>1. Seeding!Next
        BY <2>1, <3>3 DEF Next
      <4> QED
        BY <3>1, <3>3, <4>1, SeedScriptSteps, AdministratorSteps DEF Seeding!Next
    <3> QED
      BY <1>2, <3>1, <3>2, <3>3
  <2>2. CASE UNCHANGED vars
    <3>1. UNCHANGED <<scenario, req, lock, community, members, roleFell, roles, holds, deleted, seed, disturbed>>
      BY <2>2 DEF vars, communityVars, seedingVars
    <3> QED
      BY <1>2, <3>1, CommunityStands, SeedingStands
  <2> QED
    BY <2>1, <2>2
<1> QED
  BY <1>1, <1>3, PTL DEF Spec, DecisionsHold

-----------------------------------------------------------------------------
(* Access: what the guards of the handlers ask for, table by table.        *)

\* What the six built-in those that are not super administrators' may need.
PluginNames ==
    {"plugin.ecommerce.inventory.view", "plugin.ecommerce.inventory.manage",
     "plugin.ecommerce.products.view", "plugin.ecommerce.products.manage",
     "plugin.ecommerce.settings.view", "plugin.ecommerce.settings.manage"}
OpenStanding == {"anybody", "guest", "signed_in", "active", "deal_acceptor", "delivery_role"}
OpenNeeds == OpenStanding \cup Access!MobileAccountPermissions \cup PluginNames
             \cup {"business.search", "community.create", "business.create"}
Apart(t, given) == \A h \in DOMAIN t : t[h] \cap given = {}
Within(t, given) == \A h \in DOMAIN t : t[h] \subseteq given

LEMMA ApartNeeds ==
    ASSUME NEW needs, NEW handlers, NEW given, needs \cap given = {}
    PROVE  Apart(Access!Needs(needs, handlers), given)
  BY DEF Apart, Access!Needs

LEMMA ApartBoth ==
    ASSUME NEW t, NEW u, NEW given, Apart(t, given), Apart(u, given)
    PROVE  Apart(Access!++(t, u), given)
  BY DEF Apart, Access!++

LEMMA WithinNeeds ==
    ASSUME NEW needs, NEW handlers, NEW given, needs \subseteq given
    PROVE  Within(Access!Needs(needs, handlers), given)
  BY DEF Within, Access!Needs

LEMMA WithinBoth ==
    ASSUME NEW t, NEW u, NEW given, Within(t, given), Within(u, given)
    PROVE  Within(Access!++(t, u), given)
  BY DEF Within, Access!++

LEMMA AdminTables ==
    \A t \in Access!AdminRoutes : Apart(t, OpenNeeds)
<1>1. Apart(Access!AdminGeography, OpenNeeds)
  <2>1. {"geography.import"} \cap OpenNeeds = {} /\ {"geography.manage"} \cap OpenNeeds = {}
    BY DEF OpenNeeds, OpenStanding, Access!MobileAccountPermissions, PluginNames
  <2> QED
    BY <2>1, ApartNeeds, ApartBoth DEF Access!AdminGeography
<1>2. Apart(Access!AdminUsers, OpenNeeds)
  <2>1. {"user.create"} \cap OpenNeeds = {} /\ {"user.view"} \cap OpenNeeds = {} /\ {"user.update"} \cap OpenNeeds = {} /\ {"user.delete"} \cap OpenNeeds = {}
    BY DEF OpenNeeds, OpenStanding, Access!MobileAccountPermissions, PluginNames
  <2> QED
    BY <2>1, ApartNeeds, ApartBoth DEF Access!AdminUsers
<1>3. Apart(Access!AdminBusinesses, OpenNeeds)
  <2>1. {"business.review"} \cap OpenNeeds = {} /\ {"business.create_any"} \cap OpenNeeds = {} /\ {"business.escalate"} \cap OpenNeeds = {}
    BY DEF OpenNeeds, OpenStanding, Access!MobileAccountPermissions, PluginNames
  <2> QED
    BY <2>1, ApartNeeds, ApartBoth DEF Access!AdminBusinesses
<1>4. Apart(Access!AdminCategories, OpenNeeds)
  <2>1. {"category.view_pending"} \cap OpenNeeds = {} /\ {"category.approve"} \cap OpenNeeds = {} /\ {"category.reject"} \cap OpenNeeds = {}
    BY DEF OpenNeeds, OpenStanding, Access!MobileAccountPermissions, PluginNames
  <2> QED
    BY <2>1, ApartNeeds, ApartBoth DEF Access!AdminCategories
<1>5. Apart(Access!AdminCommunities, OpenNeeds)
  <2>1. {"community.view_pending"} \cap OpenNeeds = {} /\ {"community.approve"} \cap OpenNeeds = {} /\ {"community.reject"} \cap OpenNeeds = {}
    BY DEF OpenNeeds, OpenStanding, Access!MobileAccountPermissions, PluginNames
  <2> QED
    BY <2>1, ApartNeeds, ApartBoth DEF Access!AdminCommunities
<1>6. Apart(Access!AdminNativePlaces, OpenNeeds)
  <2>1. {"native_place.manage"} \cap OpenNeeds = {} /\ {"super_admin"} \cap OpenNeeds = {}
    BY DEF OpenNeeds, OpenStanding, Access!MobileAccountPermissions, PluginNames
  <2> QED
    BY <2>1, ApartNeeds, ApartBoth DEF Access!AdminNativePlaces
<1>7. Apart(Access!AdminSuggestions, OpenNeeds)
  <2>1. {"native_place.view_pending"} \cap OpenNeeds = {} /\ {"native_place.approve"} \cap OpenNeeds = {} /\ {"native_place.reject"} \cap OpenNeeds = {}
    BY DEF OpenNeeds, OpenStanding, Access!MobileAccountPermissions, PluginNames
  <2> QED
    BY <2>1, ApartNeeds, ApartBoth DEF Access!AdminSuggestions
<1>8. Apart(Access!AdminPages, OpenNeeds)
  <2>1. {"page.create"} \cap OpenNeeds = {} /\ {"page.view"} \cap OpenNeeds = {} /\ {"page.update"} \cap OpenNeeds = {} /\ {"page.delete"} \cap OpenNeeds = {}
    BY DEF OpenNeeds, OpenStanding, Access!MobileAccountPermissions, PluginNames
  <2> QED
    BY <2>1, ApartNeeds, ApartBoth DEF Access!AdminPages
<1>9. Apart(Access!AdminPermissions, OpenNeeds)
  <2>1. {"permission.create"} \cap OpenNeeds = {} /\ {"permission.view"} \cap OpenNeeds = {} /\ {"permission.update"} \cap OpenNeeds = {} /\ {"permission.delete"} \cap OpenNeeds = {}
    BY DEF OpenNeeds, OpenStanding, Access!MobileAccountPermissions, PluginNames
  <2> QED
    BY <2>1, ApartNeeds, ApartBoth DEF Access!AdminPermissions
<1>10. Apart(Access!AdminPlugins, OpenNeeds)
  <2>1. {"plugin.view"} \cap OpenNeeds = {} /\ {"plugin.manage"} \cap OpenNeeds = {}
    BY DEF OpenNeeds, OpenStanding, Access!MobileAccountPermissions, PluginNames
  <2> QED
    BY <2>1, ApartNeeds, ApartBoth DEF Access!AdminPlugins
<1>11. Apart(Access!AdminPopularPlaces, OpenNeeds)
  <2>1. {"popular_place.manage"} \cap OpenNeeds = {}
    BY DEF OpenNeeds, OpenStanding, Access!MobileAccountPermissions, PluginNames
  <2> QED
    BY <2>1, ApartNeeds, ApartBoth DEF Access!AdminPopularPlaces
<1>12. Apart(Access!AdminPosts, OpenNeeds)
  <2>1. {"post.view_any"} \cap OpenNeeds = {} /\ {"post.create_any"} \cap OpenNeeds = {} /\ {"post.block"} \cap OpenNeeds = {}
    BY DEF OpenNeeds, OpenStanding, Access!MobileAccountPermissions, PluginNames
  <2> QED
    BY <2>1, ApartNeeds, ApartBoth DEF Access!AdminPosts
<1>13. Apart(Access!AdminUpgradeRequests, OpenNeeds)
  <2>1. {"role_upgrade_request.view_any", "role_upgrade_request.review_promoter"} \cap OpenNeeds = {} /\ {"role_upgrade_request.approve", "role_upgrade_request.review_promoter"} \cap OpenNeeds = {} /\ {"role_upgrade_request.reject", "role_upgrade_request.review_promoter"} \cap OpenNeeds = {}
    BY DEF OpenNeeds, OpenStanding, Access!MobileAccountPermissions, PluginNames
  <2> QED
    BY <2>1, ApartNeeds, ApartBoth DEF Access!AdminUpgradeRequests
<1>14. Apart(Access!AdminRoleRoutes, OpenNeeds)
  <2>1. {"role.create"} \cap OpenNeeds = {} /\ {"role.view"} \cap OpenNeeds = {} /\ {"role.update"} \cap OpenNeeds = {} /\ {"role.delete"} \cap OpenNeeds = {}
    BY DEF OpenNeeds, OpenStanding, Access!MobileAccountPermissions, PluginNames
  <2> QED
    BY <2>1, ApartNeeds, ApartBoth DEF Access!AdminRoleRoutes
<1>15. Apart(Access!AdminSettings, OpenNeeds)
  <2>1. {"setting.create"} \cap OpenNeeds = {} /\ {"setting.view"} \cap OpenNeeds = {} /\ {"setting.update"} \cap OpenNeeds = {} /\ {"setting.delete"} \cap OpenNeeds = {}
    BY DEF OpenNeeds, OpenStanding, Access!MobileAccountPermissions, PluginNames
  <2> QED
    BY <2>1, ApartNeeds, ApartBoth DEF Access!AdminSettings
<1> QED
  BY <1>1, <1>2, <1>3, <1>4, <1>5, <1>6, <1>7, <1>8, <1>9, <1>10, <1>11, <1>12, <1>13, <1>14, <1>15 DEF Access!AdminRoutes

LEMMA PluginNeeds == Access!PluginPermissions \subseteq PluginNames
<1>1. \A t \in {Access!Inventory, Access!Products, Access!PluginSettings} : Within(t, PluginNames)
  BY WithinNeeds, WithinBoth DEF Access!Inventory, Access!Products, Access!PluginSettings, PluginNames
<1> QED
  BY <1>1 DEF Access!PluginPermissions, Within

\* The handlers of the plugin, by whose names its routes are not those of others.
PluginHandlers ==
    {"list_stock", "list_low_stock", "list_business_stock_movements", "get_stock",
     "list_stock_movements", "adjust_stock", "update_stock_threshold",
     "list_products", "get_product", "list_product_images", "list_product_categories",
     "create_product", "update_product", "activate_product", "deactivate_product",
     "upload_product_image", "remove_product_image", "create_product_category",
     "get_settings", "update_settings"}

LEMMA ScopedHandlers == \A t \in Access!ScopedRoutes : DOMAIN t \subseteq PluginHandlers
<1>1. DOMAIN Access!Inventory \subseteq PluginHandlers
  BY DEF Access!Inventory, Access!Needs, Access!++, PluginHandlers
<1>2. DOMAIN Access!Products \subseteq PluginHandlers
  BY DEF Access!Products, Access!Needs, Access!++, PluginHandlers
<1>3. DOMAIN Access!PluginSettings \subseteq PluginHandlers
  BY DEF Access!PluginSettings, Access!Needs, Access!++, PluginHandlers
<1> QED
  BY <1>1, <1>2, <1>3 DEF Access!ScopedRoutes

LEMMA Unscoped ==
    ASSUME NEW t, NEW h \in DOMAIN t, h \notin PluginHandlers
    PROVE  t \notin Access!ScopedRoutes
  BY ScopedHandlers

LEMMA AccessBegins == ASSUME Access!Init PROVE Access!TypeOK
<1>1. Access!BaseRole \in Access!KnownRoles /\ DOMAIN Access!RoleDefinitions = Access!KnownRoles
  BY DEF Access!KnownRoles, Access!BuiltIn, Access!RoleDefinitions
<1> QED
  BY <1>1 DEF Access!Init, Access!TypeOK

LEMMA AccessSteps == ASSUME Access!TypeOK, Access!Next PROVE Access!TypeOK'
<1>1. {Access!BaseRole, "native-admin"} \cup Access!VerifiedAccountRoles \subseteq Access!KnownRoles
  BY DEF Access!KnownRoles, Access!BuiltIn, Access!AdminRoles
<1>2. \A r \in {Access!BaseRole} \cup Access!VerifiedAccountRoles : Access!Select(r) => Access!TypeOK'
  BY <1>1 DEF Access!Select, Access!TypeOK
<1>3. \A r \in Access!VerifiedAccountRoles : Access!Approve(r) => Access!TypeOK'
  <2>1. Access!BaseRole \notin Access!VerifiedAccountRoles
    BY DEF Access!BaseRole, Access!VerifiedAccountRoles
  <2> QED
    BY <1>1, <2>1 DEF Access!Approve, Access!TypeOK
<1>4. \A r \in Access!VerifiedAccountRoles : Access!Reject(r) => Access!TypeOK'
  BY DEF Access!Reject, Access!TypeOK
<1>5. \A those \in SUBSET Access!KnownRoles : Access!Assign(those) => Access!TypeOK'
  BY DEF Access!Assign, Access!TypeOK
<1>6. Access!NameAdmin => Access!TypeOK'
  BY <1>1 DEF Access!NameAdmin, Access!TypeOK
<1>7. Access!RemoveAdmin => Access!TypeOK'
  <2>1. "native-admin" \notin Access!VerifiedAccountRoles
    BY DEF Access!VerifiedAccountRoles
  <2> QED
    BY <2>1 DEF Access!RemoveAdmin, Access!TypeOK
<1>8. Access!SetStatus => Access!TypeOK'
  BY DEF Access!SetStatus, Access!TypeOK
<1>9. Access!ApplyPlugin => Access!TypeOK'
  BY DEF Access!ApplyPlugin, Access!TypeOK
<1>10. \A r, p : Access!Grant(r, p) => Access!TypeOK'
  BY DEF Access!Grant, Access!TypeOK
<1> QED
  BY <1>2, <1>3, <1>4, <1>5, <1>6, <1>7, <1>8, <1>9, <1>10 DEF Access!Next

\* An account whose those are all to be verified has the base role's access.
LEMMA PendingOpensNothing == ASSUME Access!TypeOK PROVE Access!PendingIsIndividual
<1> SUFFICES ASSUME held \cap Access!AdminRoles = {}, "moderator" \notin held, Access!BaseRole \in held, verified = {}
             PROVE  Access!Reach(Access!AllRoutes, held, {}) = Access!Reach(Access!AllRoutes, {Access!BaseRole}, {})
  BY DEF Access!PendingIsIndividual
<1>1. held \subseteq {Access!BaseRole} \cup Access!VerifiedAccountRoles
  BY DEF Access!TypeOK, Access!KnownRoles, Access!BuiltIn
<1>2. Access!BaseRole \notin Access!VerifiedAccountRoles /\ Access!BaseRole # "super-admin" /\ "super-admin" \notin held
  BY DEF Access!BaseRole, Access!VerifiedAccountRoles, Access!AdminRoles
<1>3. Access!ApprovedRoles(held, {}) = {Access!BaseRole} /\ Access!ApprovedRoles({Access!BaseRole}, {}) = {Access!BaseRole}
  BY <1>1, <1>2 DEF Access!ApprovedRoles
<1>4. Access!Standing(held, {}) = Access!Standing({Access!BaseRole}, {})
  BY <1>2 DEF Access!Standing, Access!SuperAdmin
<1>5. \A t, h : Access!Calls(t, h, held, {}) <=> Access!Calls(t, h, {Access!BaseRole}, {})
  BY <1>3, <1>4 DEF Access!Calls, Access!Passes
<1> QED
  BY <1>5 DEF Access!Reach

\* What the those grant that are neither administrators' nor made by one.
LEMMA OpenGrants ==
    ASSUME Access!AsSeeded, NEW r \in {Access!BaseRole} \cup Access!VerifiedAccountRoles
    PROVE  grants[r] \subseteq OpenNeeds
<1>1. r \in Access!KnownRoles
  BY DEF Access!KnownRoles, Access!BuiltIn
<1>2. Access!RoleDefinitions[r] \subseteq OpenNeeds
  BY <1>1 DEF Access!RoleDefinitions, Access!BaseRole, Access!VerifiedAccountRoles, OpenNeeds
<1> QED
  BY <1>1, <1>2, PluginNeeds DEF Access!AsSeeded, Access!Seeded, OpenNeeds

LEMMA AdministrationClosed == Access!AdminRoutesClosed
<1> SUFFICES ASSUME held \subseteq {Access!BaseRole} \cup Access!VerifiedAccountRoles, Access!AsSeeded,
                    NEW t \in Access!AdminRoutes, NEW h \in DOMAIN t
             PROVE  ~Access!Calls(t, h, held, verified)
  BY DEF Access!AdminRoutesClosed, Access!Reach
<1> DEFINE may == Access!ApprovedRoles(held, verified)
<1>1. t[h] \cap OpenNeeds = {}
  BY AdminTables DEF Apart
<1>2. ~Access!SuperAdmin(held) /\ ~Access!SuperAdmin(may) /\ may \subseteq held
  BY DEF Access!SuperAdmin, Access!ApprovedRoles, Access!BaseRole, Access!VerifiedAccountRoles
<1>3. Access!Permissions(may) \subseteq OpenNeeds
  BY <1>2, OpenGrants DEF Access!Permissions
<1>4. Access!Standing(held, verified) \subseteq OpenNeeds
  BY <1>2 DEF Access!Standing, OpenNeeds, OpenStanding
<1>5. ~Access!May(may, t[h] \ Access!ByStanding)
  BY <1>1, <1>2, <1>3 DEF Access!May
<1>6. t[h] \cap {"anybody", "signed_in"} = {}
  BY <1>1 DEF OpenNeeds, OpenStanding
<1> QED
  BY <1>1, <1>4, <1>5, <1>6 DEF Access!Calls, Access!Passes

\* To pass a guard, one of the permissions that it asks for is enough.
LEMMA OneOfPasses ==
    ASSUME status = "active", NEW t, NEW h \in DOMAIN t, h \notin PluginHandlers, NEW p,
           p \notin Access!ByStanding, Access!May(Access!ApprovedRoles(held, verified), {p}),
           p \in t[h] \/ "active" \in t[h]
    PROVE  Access!CanUse(<<t, h>>)
<1>1. t \notin Access!ScopedRoutes
  BY Unscoped
<1>2. CASE "active" \in t[h]
  BY <1>1, <1>2 DEF Access!CanUse, Access!Calls, Access!Passes, Access!Standing
<1>3. CASE p \in t[h]
  <2>1. p \in t[h] \ Access!ByStanding /\ Access!May(Access!ApprovedRoles(held, verified), t[h] \ Access!ByStanding)
    BY <1>3 DEF Access!May
  <2> QED
    BY <1>1, <2>1 DEF Access!CanUse, Access!Calls, Access!Passes
<1> QED
  BY <1>2, <1>3

LEMMA OverridesAsked ==
    \A o \in Access!Overrides : /\ o = <<o[1], o[2], o[3]>> /\ o[2] \in DOMAIN o[1] /\ o[2] \notin PluginHandlers
                        /\ o[3] \notin Access!ByStanding /\ (o[3] \in o[1][o[2]] \/ "active" \in o[1][o[2]])
<1> DEFINE Overrode(t, h, p) == /\ h \in DOMAIN t /\ h \notin PluginHandlers /\ p \notin Access!ByStanding
                            /\ (p \in t[h] \/ "active" \in t[h])
<1>1. Overrode(Access!EventRoutes, "update_event", "events.update_any")
  BY DEF Access!EventRoutes, Access!Needs, Access!Active, Access!Anybody, Access!OrGuest, Access!GuestPermissions, Access!++, PluginHandlers, Access!ByStanding
<1>2. Overrode(Access!EventRoutes, "cancel_event", "events.update_any")
  BY DEF Access!EventRoutes, Access!Needs, Access!Active, Access!Anybody, Access!OrGuest, Access!GuestPermissions, Access!++, PluginHandlers, Access!ByStanding
<1>3. Overrode(Access!EventRoutes, "delete_event", "events.delete_any")
  BY DEF Access!EventRoutes, Access!Needs, Access!Active, Access!Anybody, Access!OrGuest, Access!GuestPermissions, Access!++, PluginHandlers, Access!ByStanding
<1>4. Overrode(Access!EventImages, "add_event_images", "events.update_any")
  BY DEF Access!EventImages, Access!Needs, Access!Active, Access!Anybody, Access!OrGuest, Access!GuestPermissions, Access!++, PluginHandlers, Access!ByStanding
<1>5. Overrode(Access!EventImages, "delete_event_image", "events.update_any")
  BY DEF Access!EventImages, Access!Needs, Access!Active, Access!Anybody, Access!OrGuest, Access!GuestPermissions, Access!++, PluginHandlers, Access!ByStanding
<1>6. Overrode(Access!LostFoundReports, "update_report", "lost_found.update_any")
  BY DEF Access!LostFoundReports, Access!Needs, Access!Active, Access!Anybody, Access!OrGuest, Access!GuestPermissions, Access!++, PluginHandlers, Access!ByStanding
<1>7. Overrode(Access!LostFoundReports, "resolve_report", "lost_found.update_any")
  BY DEF Access!LostFoundReports, Access!Needs, Access!Active, Access!Anybody, Access!OrGuest, Access!GuestPermissions, Access!++, PluginHandlers, Access!ByStanding
<1>8. Overrode(Access!LostFoundReports, "delete_report", "lost_found.delete_any")
  BY DEF Access!LostFoundReports, Access!Needs, Access!Active, Access!Anybody, Access!OrGuest, Access!GuestPermissions, Access!++, PluginHandlers, Access!ByStanding
<1>9. Overrode(Access!LostFoundImages, "add_report_images", "lost_found.update_any")
  BY DEF Access!LostFoundImages, Access!Needs, Access!Active, Access!Anybody, Access!OrGuest, Access!GuestPermissions, Access!++, PluginHandlers, Access!ByStanding
<1>10. Overrode(Access!LostFoundImages, "delete_report_image", "lost_found.update_any")
  BY DEF Access!LostFoundImages, Access!Needs, Access!Active, Access!Anybody, Access!OrGuest, Access!GuestPermissions, Access!++, PluginHandlers, Access!ByStanding
<1>11. Overrode(Access!Posts, "delete_post", "post.delete_any")
  BY DEF Access!Posts, Access!Needs, Access!Active, Access!Anybody, Access!OrGuest, Access!GuestPermissions, Access!++, PluginHandlers, Access!ByStanding
<1>12. Overrode(Access!PostComments, "delete_comment", "comment.delete_any")
  BY DEF Access!PostComments, Access!Needs, Access!Active, Access!Anybody, Access!OrGuest, Access!GuestPermissions, Access!++, PluginHandlers, Access!ByStanding
<1>13. Overrode(Access!Businesses, "update_business", "business.update_any")
  BY DEF Access!Businesses, Access!Needs, Access!Active, Access!Anybody, Access!OrGuest, Access!GuestPermissions, Access!++, PluginHandlers, Access!ByStanding
<1>14. Overrode(Access!Businesses, "delete_business", "business.delete_any")
  BY DEF Access!Businesses, Access!Needs, Access!Active, Access!Anybody, Access!OrGuest, Access!GuestPermissions, Access!++, PluginHandlers, Access!ByStanding
<1>15. Overrode(Access!BusinessImages, "add_business_image", "business.update_any")
  BY DEF Access!BusinessImages, Access!Needs, Access!Active, Access!Anybody, Access!OrGuest, Access!GuestPermissions, Access!++, PluginHandlers, Access!ByStanding
<1>16. Overrode(Access!BusinessDocuments, "add_business_document", "business.update_any")
  BY DEF Access!BusinessDocuments, Access!Needs, Access!Active, Access!Anybody, Access!OrGuest, Access!GuestPermissions, Access!++, PluginHandlers, Access!ByStanding
<1>17. Overrode(Access!BusinessPluginRoutes, "enable_business_plugin", "business.update_any")
  BY DEF Access!BusinessPluginRoutes, Access!Needs, Access!Active, Access!Anybody, Access!OrGuest, Access!GuestPermissions, Access!++, PluginHandlers, Access!ByStanding
<1>18. Overrode(Access!BusinessOrders, "update_business_order_status", "business.update_any")
  BY DEF Access!BusinessOrders, Access!Needs, Access!Active, Access!Anybody, Access!OrGuest, Access!GuestPermissions, Access!++, PluginHandlers, Access!ByStanding
<1>19. Overrode(Access!Deals, "get_deal", "deal.view_any")
  BY DEF Access!Deals, Access!Needs, Access!Active, Access!Anybody, Access!OrGuest, Access!GuestPermissions, Access!++, PluginHandlers, Access!ByStanding
<1> HIDE DEF Overrode
<1>20. \A o \in Access!Overrides : o = <<o[1], o[2], o[3]>> /\ Overrode(o[1], o[2], o[3])
  BY <1>1, <1>2, <1>3, <1>4, <1>5, <1>6, <1>7, <1>8, <1>9, <1>10, <1>11, <1>12, <1>13, <1>14, <1>15, <1>16, <1>17, <1>18, <1>19 DEF Access!Overrides
<1> QED
  BY <1>20 DEF Overrode

LEMMA OverridesPass == Access!OverridesReach
<1> SUFFICES ASSUME NEW o \in Access!Overrides, status = "active", Access!May(Access!ApprovedRoles(held, verified), {o[3]})
             PROVE  Access!CanUse(<<o[1], o[2]>>)
  BY DEF Access!OverridesReach
<1> QED
  BY OverridesAsked, OneOfPasses

\* The handlers of the reviews, and the permissions they ask for.
Reviewing ==
    {"role_upgrade_request.approve", "role_upgrade_request.review_promoter",
     "role_upgrade_request.view_any", "category.approve", "category.view_pending",
     "business.review", "community.approve", "community.view_pending"}
ListPermissions(what) ==
    CASE what \in {"promoter", "other_role"} ->
            {"role_upgrade_request.view_any", "role_upgrade_request.review_promoter"}
      [] what = "category"  -> {"category.view_pending"}
      [] what = "business"  -> {"business.review"}
      [] what = "community" -> {"community.view_pending"}
ApprovePermissions(what) ==
    IF what = "other_role" THEN Access!ReviewerPermissions("promoter") ELSE Access!ReviewerPermissions(what)

LEMMA ReviewHandlers ==
    /\ Access!AdminUpgradeRequests["approve_role_upgrade_request"] =
          {"role_upgrade_request.approve", "role_upgrade_request.review_promoter"}
    /\ Access!AdminUpgradeRequests["list_pending_role_upgrade_requests"] =
          {"role_upgrade_request.view_any", "role_upgrade_request.review_promoter"}
    /\ Access!AdminCategories["approve_category"] = {"category.approve"}
    /\ Access!AdminCategories["list_pending_categories"] = {"category.view_pending"}
    /\ Access!AdminBusinesses["approve_business"] = {"business.review"}
    /\ Access!AdminBusinesses["list_businesses_for_review"] = {"business.review"}
    /\ Access!AdminCommunities["approve_community"] = {"community.approve"}
    /\ Access!AdminCommunities["list_pending_communities"] = {"community.view_pending"}
    /\ "approve_role_upgrade_request" \in DOMAIN Access!AdminUpgradeRequests
    /\ "list_pending_role_upgrade_requests" \in DOMAIN Access!AdminUpgradeRequests
    /\ "approve_category" \in DOMAIN Access!AdminCategories
    /\ "list_pending_categories" \in DOMAIN Access!AdminCategories
    /\ "approve_business" \in DOMAIN Access!AdminBusinesses
    /\ "list_businesses_for_review" \in DOMAIN Access!AdminBusinesses
    /\ "approve_community" \in DOMAIN Access!AdminCommunities
    /\ "list_pending_communities" \in DOMAIN Access!AdminCommunities
<1>1. /\ Access!AdminUpgradeRequests["approve_role_upgrade_request"] =
            {"role_upgrade_request.approve", "role_upgrade_request.review_promoter"}
      /\ Access!AdminUpgradeRequests["list_pending_role_upgrade_requests"] =
            {"role_upgrade_request.view_any", "role_upgrade_request.review_promoter"}
      /\ "approve_role_upgrade_request" \in DOMAIN Access!AdminUpgradeRequests
      /\ "list_pending_role_upgrade_requests" \in DOMAIN Access!AdminUpgradeRequests
  BY DEF Access!AdminUpgradeRequests, Access!Needs, Access!++
<1>2. /\ Access!AdminCategories["approve_category"] = {"category.approve"}
      /\ Access!AdminCategories["list_pending_categories"] = {"category.view_pending"}
      /\ "approve_category" \in DOMAIN Access!AdminCategories
      /\ "list_pending_categories" \in DOMAIN Access!AdminCategories
  BY DEF Access!AdminCategories, Access!Needs, Access!++
<1>3. /\ Access!AdminBusinesses["approve_business"] = {"business.review"}
      /\ Access!AdminBusinesses["list_businesses_for_review"] = {"business.review"}
      /\ "approve_business" \in DOMAIN Access!AdminBusinesses
      /\ "list_businesses_for_review" \in DOMAIN Access!AdminBusinesses
  BY DEF Access!AdminBusinesses, Access!Needs, Access!++
<1>4. /\ Access!AdminCommunities["approve_community"] = {"community.approve"}
      /\ Access!AdminCommunities["list_pending_communities"] = {"community.view_pending"}
      /\ "approve_community" \in DOMAIN Access!AdminCommunities
      /\ "list_pending_communities" \in DOMAIN Access!AdminCommunities
  BY DEF Access!AdminCommunities, Access!Needs, Access!++
<1> QED
  BY <1>1, <1>2, <1>3, <1>4

\* Such a guard lets pass whose account is active and has one of its permissions.
LEMMA ReviewGuard ==
    ASSUME NEW t, NEW h \in DOMAIN t, h \notin PluginHandlers, t[h] \cap Access!ByStanding = {}, t[h] # {}
    PROVE  Access!CanUse(<<t, h>>) <=> status = "active" /\ Access!May(Access!ApprovedRoles(held, verified), t[h])
<1>1. t \notin Access!ScopedRoutes
  BY Unscoped
<1>2. t[h] \ Access!ByStanding = t[h] /\ t[h] \cap Access!Standing(held, verified) = {} /\ t[h] \cap {"anybody", "signed_in"} = {}
  BY DEF Access!ByStanding, Access!Standing
<1> QED
  BY <1>1, <1>2 DEF Access!CanUse, Access!Calls, Access!Passes

\* The account may now, by its approved those.
MayNow(oneOf) == Access!May(Access!ApprovedRoles(held, verified), oneOf)

LEMMA ReviewGuards ==
    ASSUME NEW what \in Access!Submitted
    PROVE  /\ Access!CanUse(Access!Approves(what)) <=>
                  status = "active" /\ Access!May(Access!ApprovedRoles(held, verified), ApprovePermissions(what))
           /\ Access!CanUse(Access!Lists(what)) <=>
                  status = "active" /\ Access!May(Access!ApprovedRoles(held, verified), ListPermissions(what))
<1>1. \A t, h : /\ h \in DOMAIN t /\ t[h] # {} /\ t[h] \subseteq Reviewing
                /\ h \in {"approve_role_upgrade_request", "list_pending_role_upgrade_requests",
                          "approve_category", "list_pending_categories", "approve_business",
                          "list_businesses_for_review", "approve_community", "list_pending_communities"}
        => (Access!CanUse(<<t, h>>) <=> status = "active" /\ Access!May(Access!ApprovedRoles(held, verified), t[h]))
  <2>1. Reviewing \cap Access!ByStanding = {}
    BY DEF Reviewing, Access!ByStanding
  <2> QED
    BY <2>1, ReviewGuard DEF PluginHandlers
<1>2. CASE what \in {"promoter", "other_role"}
  <2>1. /\ Access!Approves(what) = <<Access!AdminUpgradeRequests, "approve_role_upgrade_request">>
        /\ Access!Lists(what) = <<Access!AdminUpgradeRequests, "list_pending_role_upgrade_requests">>
        /\ ApprovePermissions(what) = {"role_upgrade_request.approve", "role_upgrade_request.review_promoter"}
        /\ ListPermissions(what) = {"role_upgrade_request.view_any", "role_upgrade_request.review_promoter"}
    BY <1>2 DEF Access!Approves, Access!Lists, ApprovePermissions, Access!ReviewerPermissions, ListPermissions
  <2> QED
    BY <1>1, <2>1, ReviewHandlers DEF Reviewing
<1>3. CASE what = "category"
  <2>1. /\ Access!Approves(what) = <<Access!AdminCategories, "approve_category">>
        /\ Access!Lists(what) = <<Access!AdminCategories, "list_pending_categories">>
        /\ ApprovePermissions(what) = {"category.approve"} /\ ListPermissions(what) = {"category.view_pending"}
    BY <1>3 DEF Access!Approves, Access!Lists, ApprovePermissions, Access!ReviewerPermissions, ListPermissions
  <2> QED
    BY <1>1, <2>1, ReviewHandlers DEF Reviewing
<1>4. CASE what = "business"
  <2>1. /\ Access!Approves(what) = <<Access!AdminBusinesses, "approve_business">>
        /\ Access!Lists(what) = <<Access!AdminBusinesses, "list_businesses_for_review">>
        /\ ApprovePermissions(what) = {"business.review"} /\ ListPermissions(what) = {"business.review"}
    BY <1>4 DEF Access!Approves, Access!Lists, ApprovePermissions, Access!ReviewerPermissions, ListPermissions
  <2> QED
    BY <1>1, <2>1, ReviewHandlers DEF Reviewing
<1>5. CASE what = "community"
  <2>1. /\ Access!Approves(what) = <<Access!AdminCommunities, "approve_community">>
        /\ Access!Lists(what) = <<Access!AdminCommunities, "list_pending_communities">>
        /\ ApprovePermissions(what) = {"community.approve"} /\ ListPermissions(what) = {"community.view_pending"}
    BY <1>5 DEF Access!Approves, Access!Lists, ApprovePermissions, Access!ReviewerPermissions, ListPermissions
  <2> QED
    BY <1>1, <2>1, ReviewHandlers DEF Reviewing
<1> QED
  BY <1>2, <1>3, <1>4, <1>5 DEF Access!Submitted

\* Who approves by the permissions the reviewers are told by, and who sees by those
\* of the list, once the service has agreed.
LEMMA WhoDecides ==
    ASSUME NEW what \in Access!Submitted
    PROVE  /\ Access!CanApprove(what) <=>
                  /\ status = "active" /\ MayNow(Access!ReviewerPermissions(what))
                  /\ what = "business" => Access!InJurisdiction
           /\ Access!CanSee(what) <=>
                  /\ status = "active"
                  /\ IF what = "other_role" THEN MayNow({"role_upgrade_request.view_any"})
                                            ELSE MayNow(ListPermissions(what))
                  /\ what = "business" => Access!InJurisdiction
<1>1. \A S, p, q : S = {p, q} => (MayNow(S) <=> MayNow({p}) \/ MayNow({q}))
  BY DEF MayNow, Access!May
<1>2. /\ Access!CanUse(Access!Approves(what)) <=> status = "active" /\ MayNow(ApprovePermissions(what))
      /\ Access!CanUse(Access!Lists(what)) <=> status = "active" /\ MayNow(ListPermissions(what))
  BY ReviewGuards DEF MayNow
<1>3. \A p : Access!CanReview(what, p) <=>
          MayNow({p}) \/ (what = "promoter" /\ MayNow({"role_upgrade_request.review_promoter"}))
  BY DEF Access!CanReview, MayNow
<1>4. CASE what \notin {"promoter", "other_role"}
  BY <1>2, <1>4 DEF Access!CanApprove, Access!CanSee, ApprovePermissions
<1>5. CASE what = "promoter"
  <2>1. /\ ApprovePermissions(what) = {"role_upgrade_request.approve", "role_upgrade_request.review_promoter"}
        /\ Access!ReviewerPermissions(what) = ApprovePermissions(what)
        /\ ListPermissions(what) = {"role_upgrade_request.view_any", "role_upgrade_request.review_promoter"}
    BY <1>5 DEF ApprovePermissions, Access!ReviewerPermissions, ListPermissions
  <2> QED
    BY <1>1, <1>2, <1>3, <1>5, <2>1 DEF Access!CanApprove, Access!CanSee
<1>6. CASE what = "other_role"
  <2>1. /\ ApprovePermissions(what) = {"role_upgrade_request.approve", "role_upgrade_request.review_promoter"}
        /\ Access!ReviewerPermissions(what) = {"role_upgrade_request.approve"}
        /\ ListPermissions(what) = {"role_upgrade_request.view_any", "role_upgrade_request.review_promoter"}
    BY <1>6 DEF ApprovePermissions, Access!ReviewerPermissions, ListPermissions
  <2>2. /\ Access!CanUse(Access!Approves(what)) <=>
             /\ status = "active"
             /\ \/ MayNow({"role_upgrade_request.approve"})
                \/ MayNow({"role_upgrade_request.review_promoter"})
        /\ Access!CanUse(Access!Lists(what)) <=>
             /\ status = "active"
             /\ \/ MayNow({"role_upgrade_request.view_any"})
                \/ MayNow({"role_upgrade_request.review_promoter"})
    <3>1. /\ MayNow(ApprovePermissions(what)) <=>
               \/ MayNow({"role_upgrade_request.approve"})
               \/ MayNow({"role_upgrade_request.review_promoter"})
          /\ MayNow(ListPermissions(what)) <=>
               \/ MayNow({"role_upgrade_request.view_any"})
               \/ MayNow({"role_upgrade_request.review_promoter"})
      BY <1>1, <2>1
    <3> QED
      BY <1>2, <3>1
  <2>3. \A p : Access!CanReview(what, p) <=> MayNow({p})
    BY <1>3, <1>6
  <2> QED
    BY <1>6, <2>1, <2>2, <2>3 DEF Access!CanApprove, Access!CanSee
<1> QED
  BY <1>4, <1>5, <1>6

LEMMA ToldApprove == Access!ToldMayApprove
<1> SUFFICES ASSUME NEW what \in Access!Submitted, Access!Told(what),
                    \A r \in held \ Access!ApprovedRoles(held, verified) : grants[r] \cap Access!ReviewerPermissions(what) = {}
             PROVE  Access!CanApprove(what)
  BY DEF Access!ToldMayApprove
<1>1. status = "active" /\ Access!May(held, Access!ReviewerPermissions(what))
  BY DEF Access!Told, Access!Listed
<1>2. Access!SuperAdmin(held) => Access!SuperAdmin(Access!ApprovedRoles(held, verified))
  BY DEF Access!SuperAdmin, Access!ApprovedRoles, Access!VerifiedAccountRoles
<1>3. Access!May(Access!ApprovedRoles(held, verified), Access!ReviewerPermissions(what))
  BY <1>1, <1>2 DEF Access!May, Access!Permissions
<1>4. what = "business" => Access!InJurisdiction
  BY DEF Access!Told, Access!InJurisdiction
<1> QED
  BY <1>1, <1>3, <1>4, WhoDecides DEF MayNow

\* As seeded, only native administrators have permissions to review.
LEMMA ReviewersSeeded ==
    ASSUME Access!AsSeeded, NEW r \in Access!KnownRoles
    PROVE  grants[r] \cap Reviewing =
               IF r = "native-admin"
               THEN {"role_upgrade_request.review_promoter", "business.review",
                     "community.approve", "community.view_pending"}
               ELSE {}
<1>1. Access!PluginPermissions \cap Reviewing = {}
  BY PluginNeeds DEF PluginNames, Reviewing
<1>2. CASE r = "native-admin"
  <2>1. Access!RoleDefinitions[r] = Access!NativeAdminPermissions
    BY <1>2 DEF Access!RoleDefinitions, Access!BaseRole
  <2>2. Access!NativeAdminPermissions \cap Reviewing =
            {"role_upgrade_request.review_promoter", "business.review",
             "community.approve", "community.view_pending"}
    BY DEF Access!NativeAdminPermissions, Reviewing
  <2> QED
    BY <1>1, <1>2, <2>1, <2>2 DEF Access!AsSeeded, Access!Seeded
<1>3. CASE r # "native-admin"
  <2>1. Access!RoleDefinitions[r] \cap Reviewing = {}
    BY <1>3 DEF Access!RoleDefinitions, Access!MobileAccountPermissions, Reviewing, Access!BaseRole
  <2> QED
    BY <1>1, <1>3, <2>1 DEF Access!AsSeeded, Access!Seeded
<1> QED
  BY <1>2, <1>3

LEMMA MayReview ==
    ASSUME Access!TypeOK, Access!AsSeeded, NEW those \in SUBSET held, NEW oneOf \in SUBSET Reviewing
    PROVE  Access!May(those, oneOf) <=>
               \/ Access!SuperAdmin(those)
               \/ /\ "native-admin" \in those
                  /\ oneOf \cap {"role_upgrade_request.review_promoter", "business.review",
                                 "community.approve", "community.view_pending"} # {}
<1>1. those \subseteq Access!KnownRoles
  BY DEF Access!TypeOK
<1>2. oneOf \cap Access!Permissions(those) = UNION {oneOf \cap (grants[r] \cap Reviewing) : r \in those}
  BY DEF Access!Permissions
<1>3. \A r \in those : grants[r] \cap Reviewing =
               IF r = "native-admin"
               THEN {"role_upgrade_request.review_promoter", "business.review",
                     "community.approve", "community.view_pending"}
               ELSE {}
  BY <1>1, ReviewersSeeded
<1> QED
  BY <1>2, <1>3 DEF Access!May

LEMMA ToldSee == ASSUME Access!TypeOK PROVE Access!ToldWhatTheySee
<1> SUFFICES ASSUME Access!AsSeeded, NEW what \in Access!Submitted
             PROVE  Access!Told(what) = Access!CanApprove(what) /\ Access!Told(what) = Access!CanSee(what)
  BY DEF Access!ToldWhatTheySee
<1> DEFINE those == Access!ApprovedRoles(held, verified)
           super == Access!SuperAdmin(those)
           native == "native-admin" \in those
<1>1. /\ those \in SUBSET held
      /\ Access!SuperAdmin(held) <=> super
      /\ "native-admin" \in held <=> native
  BY DEF Access!SuperAdmin, Access!ApprovedRoles, Access!VerifiedAccountRoles
<1>2. /\ Access!ReviewerPermissions(what) \in SUBSET Reviewing /\ ListPermissions(what) \in SUBSET Reviewing
      /\ {"role_upgrade_request.view_any"} \in SUBSET Reviewing
  BY DEF Access!ReviewerPermissions, ListPermissions, Reviewing, Access!Submitted
<1>3. \A oneOf \in SUBSET Reviewing :
          LET may == super \/ (native /\ oneOf \cap {"role_upgrade_request.review_promoter", "business.review",
                                                     "community.approve", "community.view_pending"} # {}) IN
          (Access!May(held, oneOf) <=> may) /\ (Access!May(those, oneOf) <=> may)
  <2> TAKE oneOf \in SUBSET Reviewing
  <2>1. held \in SUBSET held
    OBVIOUS
  <2> HIDE DEF those
  <2>2. Access!May(held, oneOf) <=>
          \/ Access!SuperAdmin(held)
          \/ /\ "native-admin" \in held
             /\ oneOf \cap {"role_upgrade_request.review_promoter", "business.review",
                            "community.approve", "community.view_pending"} # {}
    BY <2>1, MayReview
  <2>3. Access!May(those, oneOf) <=>
          \/ Access!SuperAdmin(those)
          \/ /\ "native-admin" \in those
             /\ oneOf \cap {"role_upgrade_request.review_promoter", "business.review",
                            "community.approve", "community.view_pending"} # {}
    BY <1>1, MayReview
  <2> QED
    BY <1>1, <2>2, <2>3
<1>4. Access!InJurisdiction <=> super \/ ~native \/ village
  BY DEF Access!InJurisdiction
<1>5. /\ Access!Told(what) <=> status = "active" /\ Access!May(held, Access!ReviewerPermissions(what)) /\ (what = "business" => super \/ village)
      /\ Access!Told(what) \in BOOLEAN /\ Access!CanApprove(what) \in BOOLEAN /\ Access!CanSee(what) \in BOOLEAN
  BY DEF Access!Told, Access!Listed, Access!CanApprove, Access!CanSee
<1>6. /\ Access!CanApprove(what) <=> status = "active" /\ Access!May(those, Access!ReviewerPermissions(what)) /\ (what = "business" => Access!InJurisdiction)
      /\ Access!CanSee(what) <=>
           /\ status = "active"
           /\ IF what = "other_role" THEN Access!May(those, {"role_upgrade_request.view_any"})
                                     ELSE Access!May(those, ListPermissions(what))
           /\ what = "business" => Access!InJurisdiction
  BY WhoDecides DEF MayNow
<1> HIDE DEF those, super, native
<1>7. CASE what = "promoter"
  <2>1. /\ "role_upgrade_request.review_promoter" \in Access!ReviewerPermissions(what)
        /\ "role_upgrade_request.review_promoter" \in ListPermissions(what)
    BY <1>7 DEF Access!ReviewerPermissions, ListPermissions
  <2>2. /\ Access!May(held, Access!ReviewerPermissions(what)) <=> super \/ native
        /\ Access!May(those, Access!ReviewerPermissions(what)) <=> super \/ native
        /\ Access!May(those, ListPermissions(what)) <=> super \/ native
    BY <1>2, <1>3, <2>1
  <2> QED
    BY <1>5, <1>6, <1>7, <2>2
<1>8. CASE what = "other_role"
  <2>1. Access!ReviewerPermissions(what) = {"role_upgrade_request.approve"}
    BY <1>8 DEF Access!ReviewerPermissions
  <2>2. /\ Access!May(held, Access!ReviewerPermissions(what)) <=> super
        /\ Access!May(those, Access!ReviewerPermissions(what)) <=> super
        /\ Access!May(those, {"role_upgrade_request.view_any"}) <=> super
    BY <1>2, <1>3, <2>1
  <2> QED
    BY <1>5, <1>6, <1>8, <2>2
<1>9. CASE what = "category"
  <2>1. Access!ReviewerPermissions(what) = {"category.approve"} /\ ListPermissions(what) = {"category.view_pending"}
    BY <1>9 DEF Access!ReviewerPermissions, ListPermissions
  <2>2. /\ Access!May(held, Access!ReviewerPermissions(what)) <=> super
        /\ Access!May(those, Access!ReviewerPermissions(what)) <=> super
        /\ Access!May(those, ListPermissions(what)) <=> super
    BY <1>2, <1>3, <2>1
  <2> QED
    BY <1>5, <1>6, <1>9, <2>2
<1>10. CASE what = "business"
  <2>1. Access!ReviewerPermissions(what) = {"business.review"} /\ ListPermissions(what) = {"business.review"}
    BY <1>10 DEF Access!ReviewerPermissions, ListPermissions
  <2>2. /\ Access!May(held, Access!ReviewerPermissions(what)) <=> super \/ native
        /\ Access!May(those, Access!ReviewerPermissions(what)) <=> super \/ native
        /\ Access!May(those, ListPermissions(what)) <=> super \/ native
    BY <1>2, <1>3, <2>1
  <2> QED
    BY <1>4, <1>5, <1>6, <1>10, <2>2
<1>11. CASE what = "community"
  <2>1. Access!ReviewerPermissions(what) = {"community.approve"} /\ ListPermissions(what) = {"community.view_pending"}
    BY <1>11 DEF Access!ReviewerPermissions, ListPermissions
  <2>2. /\ Access!May(held, Access!ReviewerPermissions(what)) <=> super \/ native
        /\ Access!May(those, Access!ReviewerPermissions(what)) <=> super \/ native
        /\ Access!May(those, ListPermissions(what)) <=> super \/ native
    BY <1>2, <1>3, <2>1
  <2> QED
    BY <1>5, <1>6, <1>11, <2>2
<1> QED
  BY <1>7, <1>8, <1>9, <1>10, <1>11 DEF Access!Submitted

-----------------------------------------------------------------------------
(* What AccountPartsProofs proves holds here.                              *)

Parts    == INSTANCE AccountPartsProofs WITH Phones <- {SomePhone}, Accounts <- Users, Candidates <- Users \cup {Owner},
                NoAccount <- NoUser, MaxAttempts <- 1, MaxPerPhone <- 2, MaxPerIp <- 2, MaxCodes <- 2,
                Posts <- {"p"}, Collections <- {1}, MaxSaves <- 3,
                FeedPosts <- 1..2, FeedTimes <- 3, FeedChanges <- 2,
                Kinds <- {PostKind(FALSE, FALSE, FALSE), PostKind(TRUE, TRUE, TRUE),
                          PostKind(FALSE, TRUE, TRUE)},
                Readers <- {Reader(FALSE, FALSE, FALSE), Reader(TRUE, FALSE, FALSE),
                            Reader(TRUE, TRUE, FALSE), Reader(TRUE, FALSE, TRUE)}

\* The instances say the same as those of MCAccounts, definition by definition.
LEMMA OnePhoneAlike ==
    /\ (Parts!Init <=> OnePhone!Init) /\ (Parts!Next <=> OnePhone!Next)
    /\ (Parts!IInv <=> OnePhone!IInv) /\ (Parts!IInv' <=> OnePhone!IInv')
    /\ (Parts!CodesOnce <=> OnePhone!CodesOnce) /\ (Parts!SendsBounded <=> OnePhone!SendsBounded)
    /\ (Parts!VerifiedPhonesProved <=> OnePhone!VerifiedPhonesProved)
  BY Zenon DEF Parts!Cardinality, OnePhone!Cardinality, Parts!codeVars, OnePhone!codeVars,
               Parts!accountVars, OnePhone!accountVars, Parts!Ids, OnePhone!Ids, Parts!Row, OnePhone!Row,
               Parts!NoRow, OnePhone!NoRow, Parts!Idle, OnePhone!Idle, Parts!TypeOK, OnePhone!TypeOK,
               Parts!Init, OnePhone!Init, Parts!Sent, OnePhone!Sent, Parts!SentTo, OnePhone!SentTo,
               Parts!Active, OnePhone!Active, Parts!VerifiedOf, OnePhone!VerifiedOf, Parts!ClaimedBy,
               OnePhone!ClaimedBy, Parts!Goto, OnePhone!Goto, Parts!End, OnePhone!End, Parts!WithinLimits,
               OnePhone!WithinLimits, Parts!LockPhone, OnePhone!LockPhone, Parts!CommitCode,
               OnePhone!CommitCode, Parts!MessageSent, OnePhone!MessageSent, Parts!MessageFailed,
               OnePhone!MessageFailed, Parts!Checkable, OnePhone!Checkable, Parts!AcceptCode,
               OnePhone!AcceptCode, Parts!WrongCode, OnePhone!WrongCode, Parts!ConsumeCode,
               OnePhone!ConsumeCode, Parts!AskSignIn, OnePhone!AskSignIn, Parts!CommitSignIn,
               OnePhone!CommitSignIn, Parts!UniquePhones, OnePhone!UniquePhones, Parts!Write,
               OnePhone!Write, Parts!Abandon, OnePhone!Abandon, Parts!AskLink, OnePhone!AskLink,
               Parts!LinkCode, OnePhone!LinkCode, Parts!Release, OnePhone!Release, Parts!ListHolders,
               OnePhone!ListHolders, Parts!Changed, OnePhone!Changed, Parts!CommitLink,
               OnePhone!CommitLink, Parts!AskRegister, OnePhone!AskRegister, Parts!CommitRegister,
               OnePhone!CommitRegister, Parts!AskEdit, OnePhone!AskEdit, Parts!CommitEdit,
               OnePhone!CommitEdit, Parts!CooledDown, OnePhone!CooledDown, Parts!ExpireCode,
               OnePhone!ExpireCode, Parts!ExpireToken, OnePhone!ExpireToken, Parts!Next, OnePhone!Next,
               Parts!CodesOnce, OnePhone!CodesOnce, Parts!SendsBounded, OnePhone!SendsBounded,
               Parts!VerifiedPhonesProved, OnePhone!VerifiedPhonesProved, Parts!Sending, OnePhone!Sending,
               Parts!Accepting, OnePhone!Accepting, Parts!SentInOrder, OnePhone!SentInOrder, Parts!UsedUp,
               OnePhone!UsedUp, Parts!OneActive, OnePhone!OneActive, Parts!Queued, OnePhone!Queued,
               Parts!LimitKept, OnePhone!LimitKept, Parts!PhoneLimit, OnePhone!PhoneLimit, Parts!Checked,
               OnePhone!Checked, Parts!KnowsWhat, OnePhone!KnowsWhat, Parts!Asked, OnePhone!Asked,
               Parts!IInv, OnePhone!IInv

LEMMA EmailAlike ==
    /\ (Parts!Email!Init <=> Email!Init) /\ (Parts!Email!Next <=> Email!Next)
    /\ (Parts!Email!IInv <=> Email!IInv) /\ (Parts!Email!IInv' <=> Email!IInv')
    /\ (Parts!Email!GuessesBounded <=> Email!GuessesBounded)
    /\ (Parts!Email!VerifiedAddressProved <=> Email!VerifiedAddressProved)
  BY Zenon DEF Parts!Email!Cardinality, Email!Cardinality, Parts!Email!Ids, Email!Ids, Parts!Email!NoCode,
               Email!NoCode, Parts!Email!Idle, Email!Idle, Parts!Email!Sends, Email!Sends,
               Parts!Email!TypeOK, Email!TypeOK, Parts!Email!Init, Email!Init, Parts!Email!Active,
               Email!Active, Parts!Email!Rows, Email!Rows, Parts!Email!Newest, Email!Newest,
               Parts!Email!Locked, Email!Locked, Parts!Email!Busy, Email!Busy, Parts!Email!Sending,
               Email!Sending, Parts!Email!Goto, Email!Goto, Parts!Email!End, Email!End, Parts!Email!Begin,
               Email!Begin, Parts!Email!Abandon, Email!Abandon, Parts!Email!AskResend, Email!AskResend,
               Parts!Email!AskLink, Email!AskLink, Parts!Email!SaveAddress, Email!SaveAddress,
               Parts!Email!EnforceCooldown, Email!EnforceCooldown, Parts!Email!Invalidated,
               Email!Invalidated, Parts!Email!Invalidate, Email!Invalidate, Parts!Email!CreateCode,
               Email!CreateCode, Parts!Email!Mail, Email!Mail, Parts!Email!AskVerify, Email!AskVerify,
               Parts!Email!LockNewest, Email!LockNewest, Parts!Email!Guessable, Email!Guessable,
               Parts!Email!WrongCode, Email!WrongCode, Parts!Email!RightCode, Email!RightCode,
               Parts!Email!Age, Email!Age, Parts!Email!Next, Email!Next, Parts!Email!WrongCounted,
               Email!WrongCounted, Parts!Email!GuessesBounded, Email!GuessesBounded,
               Parts!Email!VerifiedAddressProved, Email!VerifiedAddressProved, Parts!Email!RowsInOrder,
               Email!RowsInOrder, Parts!Email!UnusedRows, Email!UnusedRows, Parts!Email!Compared,
               Email!Compared, Parts!Email!Mailed, Email!Mailed, Parts!Email!OneSend, Email!OneSend,
               Parts!Email!OneActive, Email!OneActive, Parts!Email!SentThere, Email!SentThere,
               Parts!Email!AddressOfOne, Email!AddressOfOne, Parts!Email!IInv, Email!IInv

LEMMA GoogleAlike ==
    /\ (Parts!Google!Init <=> Google!Init)
    /\ (Parts!Google!Next <=> Google!Next)
    /\ (Parts!Google!IInv <=> Google!IInv) /\ (Parts!Google!IInv' <=> Google!IInv')
    /\ (Parts!Google!OneAccountEach <=> Google!OneAccountEach)
    /\ (Parts!Google!VerifiedByGoogle <=> Google!VerifiedByGoogle)
<1>1. Parts!Google!Init <=> Google!Init
  BY DEF Parts!Google!Init, Google!Init, Parts!Google!NoRow, Google!NoRow, Parts!Google!Idle, Google!Idle,
         Parts!Google!NoEmail, Google!NoEmail
<1> QED
  BY <1>1, Zenon DEF Parts!Google!Cardinality, Google!Cardinality, Parts!Google!NoEmail, Google!NoEmail,
                     Parts!Google!NoRow, Google!NoRow, Parts!Google!Idle, Google!Idle,
                     Parts!Google!TypeOK, Google!TypeOK, Parts!Google!Live, Google!Live,
                     Parts!Google!Active, Google!Active, Parts!Google!LinkedTo, Google!LinkedTo,
                     Parts!Google!Links, Google!Links, Parts!Google!Claimed, Google!Claimed,
                     Parts!Google!MayLink, Google!MayLink, Parts!Google!Begin, Google!Begin,
                     Parts!Google!End, Google!End, Parts!Google!SignIn, Google!SignIn,
                     Parts!Google!Register, Google!Register, Parts!Google!CreateAccount,
                     Google!CreateAccount, Parts!Google!StartSession, Google!StartSession,
                     Parts!Google!Link, Google!Link, Parts!Google!AddIdentity, Google!AddIdentity,
                     Parts!Google!EditEmail, Google!EditEmail, Parts!Google!SaveEmail, Google!SaveEmail,
                     Parts!Google!Delete, Google!Delete, Parts!Google!Suspend, Google!Suspend,
                     Parts!Google!Abandon, Google!Abandon, Parts!Google!Next, Google!Next,
                     Parts!Google!EmailsApart, Google!EmailsApart, Parts!Google!OneAccountEach,
                     Google!OneAccountEach, Parts!Google!VerifiedByGoogle, Google!VerifiedByGoogle,
                     Parts!Google!IdentitiesApart, Google!IdentitiesApart, Parts!Google!SignedToLinked,
                     Google!SignedToLinked, Parts!Google!HandlersKnow, Google!HandlersKnow,
                     Parts!Google!IInv, Google!IInv

LEMMA RolesAlike ==
    /\ (Parts!Account!AccountInit <=> Account!AccountInit) /\ (Parts!Account!AccountNext <=> Account!AccountNext)
    /\ (Parts!Account!ReviewIInv <=> Account!ReviewIInv) /\ (Parts!Account!ReviewIInv' <=> Account!ReviewIInv')
    /\ (Parts!Account!RegularIInv <=> Account!RegularIInv) /\ (Parts!Account!RegularIInv' <=> Account!RegularIInv')
    /\ (Parts!Account!VerifiedByReview <=> Account!VerifiedByReview)
    /\ (Parts!Account!PendingReviewable <=> Account!PendingReviewable)
  BY Zenon DEF Parts!Account!Cardinality, Account!Cardinality, Parts!Account!accountVars,
               Account!accountVars, Parts!Account!AllRoles, Account!AllRoles,
               Parts!Account!Ids, Account!Ids, Parts!Account!NoRow, Account!NoRow,
               Parts!Account!NoAsk, Account!NoAsk, Parts!Account!Idle, Account!Idle,
               Parts!Account!RoleRows, Account!RoleRows, Parts!Account!RequestRows,
               Account!RequestRows, Parts!Account!Handlers, Account!Handlers,
               Parts!Account!AccountTypeOK, Account!AccountTypeOK, Parts!Account!AccountInit,
               Account!AccountInit, Parts!Account!Held, Account!Held, Parts!Account!Pending,
               Account!Pending, Parts!Account!Made, Account!Made, Parts!Account!Goto,
               Account!Goto, Parts!Account!End, Account!End, Parts!Account!Abandon,
               Account!Abandon, Parts!Account!Writable, Account!Writable,
               Parts!Account!Written, Account!Written, Parts!Account!Begin, Account!Begin,
               Parts!Account!AskSelect, Account!AskSelect, Parts!Account!IsCurrent,
               Account!IsCurrent, Parts!Account!LockUser, Account!LockUser,
               Parts!Account!CancelPending, Account!CancelPending, Parts!Account!Cancelled,
               Account!Cancelled, Parts!Account!Staged, Account!Staged,
               Parts!Account!NoDuplicate, Account!NoDuplicate, Parts!Account!Overtaken,
               Account!Overtaken, Parts!Account!CommitSelect, Account!CommitSelect,
               Parts!Account!Current, Account!Current, Parts!Account!Applicable,
               Account!Applicable, Parts!Account!Latest, Account!Latest,
               Parts!Account!Resubmittable, Account!Resubmittable, Parts!Account!AskSubmit,
               Account!AskSubmit, Parts!Account!CheckState, Account!CheckState,
               Parts!Account!CommitSubmit, Account!CommitSubmit, Parts!Account!LockRequest,
               Account!LockRequest, Parts!Account!NotStale, Account!NotStale,
               Parts!Account!LockAssignment, Account!LockAssignment, Parts!Account!ReadRoles,
               Account!ReadRoles, Parts!Account!Decided, Account!Decided,
               Parts!Account!CommitApprove, Account!CommitApprove, Parts!Account!CommitReject,
               Account!CommitReject, Parts!Account!AskAssign, Account!AskAssign,
               Parts!Account!CommitAssign, Account!CommitAssign, Parts!Account!UserNext,
               Account!UserNext, Parts!Account!ReviewNext, Account!ReviewNext,
               Parts!Account!AssignNext, Account!AssignNext, Parts!Account!AccountNext,
               Account!AccountNext, Parts!Account!VerifiedByReview, Account!VerifiedByReview,
               Parts!Account!PendingReviewable, Account!PendingReviewable,
               Parts!Account!UserSteps, Account!UserSteps, Parts!Account!ReviewSteps,
               Account!ReviewSteps, Parts!Account!UserLocked, Account!UserLocked,
               Parts!Account!RequestsLocked, Account!RequestsLocked, Parts!Account!RolesLocked,
               Account!RolesLocked, Parts!Account!RequestsNumbered, Account!RequestsNumbered,
               Parts!Account!ReviewIInv, Account!ReviewIInv, Parts!Account!Began,
               Account!Began, Parts!Account!TimesDiffer, Account!TimesDiffer,
               Parts!Account!OneSelected, Account!OneSelected, Parts!Account!Selecting,
               Account!Selecting, Parts!Account!Staging, Account!Staging,
               Parts!Account!RolesRequested, Account!RolesRequested, Parts!Account!PendingLast,
               Account!PendingLast, Parts!Account!RegularIInv, Account!RegularIInv

LEMMA VillageAlike ==
    /\ (Parts!Account!VillageInit <=> Account!VillageInit) /\ (Parts!Account!VillageNext <=> Account!VillageNext)
    /\ (Parts!Account!VillageIInv <=> Account!VillageIInv) /\ (Parts!Account!VillageIInv' <=> Account!VillageIInv')
    /\ (Parts!Account!AdminHasRole <=> Account!AdminHasRole)
  BY Zenon DEF Parts!Account!Cardinality, Account!Cardinality, Parts!Account!villageVars,
               Account!villageVars, Parts!Account!NoHandler, Account!NoHandler,
               Parts!Account!VillageTypeOK, Account!VillageTypeOK, Parts!Account!VillageInit,
               Account!VillageInit, Parts!Account!BeginAdmin, Account!BeginAdmin,
               Parts!Account!Vacant, Account!Vacant, Parts!Account!Create, Account!Create,
               Parts!Account!Remove, Account!Remove, Parts!Account!CommitCreate,
               Account!CommitCreate, Parts!Account!CommitRemove, Account!CommitRemove,
               Parts!Account!AbandonAdmin, Account!AbandonAdmin, Parts!Account!DeleteUser,
               Account!DeleteUser, Parts!Account!VillageNext, Account!VillageNext,
               Parts!Account!AdminHasRole, Account!AdminHasRole, Parts!Account!OfVillage,
               Account!OfVillage, Parts!Account!VillageIInv, Account!VillageIInv

LEMMA AskAlike ==
    /\ (Parts!Ask!Init <=> Ask!Init) /\ (Parts!Ask!Next <=> Ask!Next)
    /\ (Parts!Ask!AskIInv <=> Ask!AskIInv) /\ (Parts!Ask!AskIInv' <=> Ask!AskIInv')
  BY Zenon DEF Parts!Ask!Reference, Ask!Reference, Parts!Ask!OnePost, Ask!OnePost,
               Parts!Ask!Searches, Ask!Searches, Parts!Ask!BuiltIn, Ask!BuiltIn,
               Parts!Ask!Tools, Ask!Tools, Parts!Ask!FunctionCall, Ask!FunctionCall,
               Parts!Ask!Calls, Ask!Calls, Parts!Ask!Reply, Ask!Reply, Parts!Ask!Failures,
               Ask!Failures, Parts!Ask!Replies, Ask!Replies, Parts!Ask!NoFacts, Ask!NoFacts,
               Parts!Ask!Idle, Ask!Idle, Parts!Ask!Visible, Ask!Visible, Parts!Ask!Entry,
               Ask!Entry, Parts!Ask!Listed, Ask!Listed, Parts!Ask!Init, Ask!Init,
               Parts!Ask!Goes, Ask!Goes, Parts!Ask!Ends, Ask!Ends, Parts!Ask!Asks, Ask!Asks,
               Parts!Ask!PluginTools, Ask!PluginTools, Parts!Ask!Ask, Ask!Ask,
               Parts!Ask!Intents, Ask!Intents, Parts!Ask!ReplyIntent, Ask!ReplyIntent,
               Parts!Ask!Found, Ask!Found, Parts!Ask!Retrieve, Ask!Retrieve, Parts!Ask!Choice,
               Ask!Choice, Parts!Ask!RunsCalls, Ask!RunsCalls, Parts!Ask!ReplyAnswer,
               Ask!ReplyAnswer, Parts!Ask!Asker, Ask!Asker, Parts!Ask!May, Ask!May,
               Parts!Ask!Results, Ask!Results, Parts!Ask!Refusal, Ask!Refusal,
               Parts!Ask!After, Ask!After, Parts!Ask!RunTool, Ask!RunTool, Parts!Ask!Edit,
               Ask!Edit, Parts!Ask!Next, Ask!Next, Parts!Ask!Done, Ask!Done,
               Parts!Ask!CallsBounded, Ask!CallsBounded, Parts!Ask!ToolsAllowed,
               Ask!ToolsAllowed, Parts!Ask!PostsVisible, Ask!PostsVisible, Parts!Ask!FactRows,
               Ask!FactRows, Parts!Ask!EntryRows, Ask!EntryRows, Parts!Ask!AskTypes,
               Ask!AskTypes, Parts!Ask!OfferedAsBegan, Ask!OfferedAsBegan,
               Parts!Ask!SinceBegan, Ask!SinceBegan, Parts!Ask!RepliesCounted,
               Ask!RepliesCounted, Parts!Ask!AskIInv, Ask!AskIInv

LEMMA OnePhoneHolds ==
    /\ OnePhone!Init => OnePhone!IInv
    /\ OnePhone!IInv /\ (OnePhone!Next \/ UNCHANGED <<phoneVars, codes, proved, tokens, req>>) => OnePhone!IInv'
    /\ OnePhone!IInv => OnePhone!CodesOnce /\ OnePhone!SendsBounded /\ OnePhone!VerifiedPhonesProved
<1>1. Parts!Setting
  BY FiniteAssumption, NoneAssumption DEF Parts!Setting, Parts!IsFiniteSet, IsFiniteSet
<1>2. OnePhone!Init => OnePhone!IInv
  BY <1>1, OnePhoneAlike, Parts!Starts
<1>3. OnePhone!IInv /\ OnePhone!Next => OnePhone!IInv'
  BY <1>1, OnePhoneAlike, Parts!Steps
<1>4. OnePhone!IInv /\ UNCHANGED <<phoneVars, codes, proved, tokens, req>> => OnePhone!IInv'
  BY OnePhoneAlike, Parts!Stands DEF Parts!vars, phoneVars
<1>5. OnePhone!IInv => OnePhone!CodesOnce /\ OnePhone!SendsBounded /\ OnePhone!VerifiedPhonesProved
  BY <1>1, OnePhoneAlike, Parts!Proved
<1> QED
  BY <1>2, <1>3, <1>4, <1>5

LEMMA EmailHolds ==
    /\ Email!Init => Email!IInv
    /\ Email!IInv /\ (Email!Next \/ UNCHANGED <<email, verified, codes, wrong, proof, lock, req, hasty, moved>>) => Email!IInv'
    /\ Email!IInv => Email!GuessesBounded /\ Email!VerifiedAddressProved
  BY NoneAssumption, EmailAlike, Parts!EmailStarts, Parts!EmailSteps, Parts!EmailStands, Parts!EmailProved

LEMMA GoogleHolds ==
    /\ Google!Init => Google!IInv
    /\ Google!IInv /\ (Google!Next \/ UNCHANGED <<user, identities, signed, proved, edited, req>>) => Google!IInv'
    /\ Google!IInv => Google!OneAccountEach /\ Google!VerifiedByGoogle
  BY GoogleAlike, Parts!GoogleStarts, Parts!GoogleSteps, Parts!GoogleStands, Parts!GoogleOpensOne

LEMMA RolesSettled == Parts!RolesSetting
  BY NoneAssumption, BoundsAssumption DEF Parts!RolesSetting

LEMMA RolesHold ==
    /\ Account!AccountInit => Account!ReviewIInv /\ Account!RegularIInv
    /\ Account!ReviewIInv /\ Account!RegularIInv /\ (Account!AccountNext \/ UNCHANGED <<rolesVars, requests, held, req>>)
          => Account!ReviewIInv' /\ Account!RegularIInv'
    /\ Account!ReviewIInv /\ Account!RegularIInv => Account!VerifiedByReview /\ Account!PendingReviewable
<1>1. Account!AccountInit => Account!ReviewIInv /\ Account!RegularIInv
  BY RolesSettled, RolesAlike, Parts!RolesBegin
<1>2. Account!ReviewIInv /\ Account!RegularIInv /\ Account!AccountNext => Account!ReviewIInv' /\ Account!RegularIInv'
  BY RolesSettled, RolesAlike, Parts!RolesStep
<1>3. Account!ReviewIInv /\ Account!RegularIInv /\ UNCHANGED <<rolesVars, requests, held, req>>
          => Account!ReviewIInv' /\ Account!RegularIInv'
  BY RolesAlike, Parts!RolesStand DEF Parts!Account!accountVars, rolesVars
<1>4. Account!ReviewIInv /\ Account!RegularIInv => Account!VerifiedByReview /\ Account!PendingReviewable
  BY RolesAlike, Parts!RolesGood
<1> QED
  BY <1>1, <1>2, <1>3, <1>4

LEMMA VillageHolds ==
    /\ Account!VillageInit => Account!VillageIInv
    /\ Account!VillageIInv /\ (Account!VillageNext \/ UNCHANGED <<villageVars, deleted, overlapped, req>>)
          => Account!VillageIInv'
    /\ Account!VillageIInv => Account!AdminHasRole
<1>1. Account!VillageInit => Account!VillageIInv
  BY VillageAlike, Parts!VillageBegins
<1>2. Account!VillageIInv /\ Account!VillageNext => Account!VillageIInv'
  BY RolesSettled, VillageAlike, Parts!VillageStep
<1>3. Account!VillageIInv /\ UNCHANGED <<villageVars, deleted, overlapped, req>> => Account!VillageIInv'
  BY VillageAlike, Parts!VillageStands DEF Parts!Account!villageVars, villageVars
<1>4. Account!VillageIInv => Account!AdminHasRole
  BY DEF Account!VillageIInv
<1> QED
  BY <1>1, <1>2, <1>3, <1>4

LEMMA AskHolds ==
    /\ Ask!Init => Ask!AskIInv
    /\ Ask!AskIInv /\ (Ask!Next \/ UNCHANGED <<facts, req, offered, replies, log, told, cards, seen, edits>>)
          => Ask!AskIInv'
    /\ Ask!AskIInv => Ask!ToolsAllowed /\ Ask!PostsVisible
<1>1. Ask!AskIInv => Ask!ToolsAllowed /\ Ask!PostsVisible
  BY DEF Ask!AskIInv
<1> QED
  BY <1>1, AskAlike, Parts!AskBegins, Parts!AskSteps, Parts!AskStands

-----------------------------------------------------------------------------
\* Whatever handlers, reviews and script interleave: what is verified was approved,
\* what is pending can be approved, the village's administrator has the role; the
\* guards open to each what its roles are for; the seed script makes what it defines;
\* and the assistant runs only the tools that its user may run.
THEOREM RolesReviewedAlways == Spec => []RolesReviewed
<1> DEFINE Inv == /\ scenario = "roles" => Account!ReviewIInv /\ Account!RegularIInv
                  /\ scenario = "village" => Account!VillageIInv
                  /\ scenario = "access" => Access!TypeOK
                  /\ scenario = "seeding" => Seeding!SeedIInv /\ Seeding!ScriptIInv
                  /\ scenario = "assistant" => Ask!AskIInv
<1>1. Init => Inv
  <2> SUFFICES ASSUME Init PROVE Inv
    OBVIOUS
  <2>1. CASE scenario = "roles"
    BY <2>1, RolesHold DEF Init
  <2>2. CASE scenario = "village"
    BY <2>2, VillageHolds DEF Init
  <2>3. CASE scenario = "access"
    BY <2>3, AccessBegins DEF Init
  <2>4. CASE scenario = "seeding"
    BY <2>4, SeedingStarts, ScriptStarts DEF Init
  <2>5. CASE scenario = "assistant"
    BY <2>5, AskHolds DEF Init
  <2> QED
    BY <2>1, <2>2, <2>3, <2>4, <2>5
<1>2. Inv /\ [Next]_vars => Inv'
  <2> SUFFICES ASSUME Inv, [Next]_vars PROVE Inv'
    OBVIOUS
  <2>1. CASE Next
    <3>1. UNCHANGED scenario
      BY <2>1 DEF Next
    <3>2. CASE scenario = "roles"
      BY <2>1, <3>1, <3>2, RolesHold DEF Next
    <3>3. CASE scenario = "village"
      BY <2>1, <3>1, <3>3, VillageHolds DEF Next
    <3>4. CASE scenario = "access"
      BY <2>1, <3>1, <3>4, AccessSteps DEF Next
    <3>5. CASE scenario = "seeding"
      BY <2>1, <3>1, <3>5, SeedScriptSteps, AdministratorSteps, SeedScriptKnows, OthersDisturb DEF Next, Seeding!Next
    <3>6. CASE scenario = "assistant"
      BY <2>1, <3>1, <3>6, AskHolds DEF Next
    <3> QED
      BY <3>1, <3>2, <3>3, <3>4, <3>5, <3>6
  <2>2. CASE UNCHANGED vars
    <3>1. UNCHANGED <<scenario, rolesVars, requests, held, req>>
      BY <2>2 DEF vars
    <3>2. UNCHANGED <<villageVars, deleted, overlapped, req>>
      BY <2>2 DEF vars
    <3>3. Access!TypeOK' <=> Access!TypeOK
      BY <2>2 DEF vars, accessVars, Access!TypeOK
    <3>4. UNCHANGED <<seedingVars, deleted, req, disturbed, edits>>
      BY <2>2 DEF vars
    <3>5. UNCHANGED <<assistantVars, req, told, seen, edits, log>>
      BY <2>2 DEF vars
    <3>6. CASE scenario = "roles"
      BY <3>1, <3>6, RolesHold
    <3>7. CASE scenario = "village"
      BY <3>1, <3>2, <3>7, VillageHolds
    <3>8. CASE scenario = "access"
      BY <3>1, <3>3, <3>8
    <3>9. CASE scenario = "seeding"
      BY <3>1, <3>4, <3>9, SeedingStands, ScriptUndisturbed DEF seedingVars
    <3>10. CASE scenario = "assistant"
      BY <3>1, <3>5, <3>10, AskHolds DEF assistantVars
    <3> QED
      BY <3>1, <3>6, <3>7, <3>8, <3>9, <3>10
  <2> QED
    BY <2>1, <2>2
<1>3. Inv => RolesReviewed
  BY RolesHold, VillageHolds, AskHolds, PendingOpensNothing, AdministrationClosed, OverridesPass, ToldApprove,
     ToldSee, RolesAsDefined DEF RolesReviewed
<1> QED
  BY <1>1, <1>2, <1>3, PTL DEF Spec

-----------------------------------------------------------------------------
(* Follows, collections and the feed.                                      *)

LEMMA FollowsAlike ==
    /\ (Parts!Profile!Init <=> Profile!Init) /\ (Parts!Profile!Next <=> Profile!Next)
    /\ (Parts!Profile!IInv <=> Profile!IInv) /\ (Parts!Profile!IInv' <=> Profile!IInv')
  BY Zenon DEF Parts!Profile!Idle, Profile!Idle, Parts!Profile!Ops, Profile!Ops, Parts!Profile!UsersSteps,
               Profile!UsersSteps, Parts!Profile!OwnersSteps, Profile!OwnersSteps, Parts!Profile!Handlers,
               Profile!Handlers, Parts!Profile!TypeOK, Profile!TypeOK, Parts!Profile!Init, Profile!Init,
               Parts!Profile!Concerns, Profile!Concerns, Parts!Profile!At, Profile!At, Parts!Profile!Goto,
               Profile!Goto, Parts!Profile!End, Profile!End, Parts!Profile!User, Profile!User,
               Parts!Profile!rows, Profile!rows, Parts!Profile!Begin, Profile!Begin, Parts!Profile!Follow,
               Profile!Follow, Parts!Profile!Unfollow, Profile!Unfollow, Parts!Profile!CheckFollowing,
               Profile!CheckFollowing, Parts!Profile!ReadVisibility, Profile!ReadVisibility,
               Parts!Profile!CreateRequest, Profile!CreateRequest, Parts!Profile!PublishCreated,
               Profile!PublishCreated, Parts!Profile!CreateFollow, Profile!CreateFollow,
               Parts!Profile!DeleteFollow, Profile!DeleteFollow, Parts!Profile!Accept, Profile!Accept,
               Parts!Profile!Decline, Profile!Decline, Parts!Profile!AfterDelete, Profile!AfterDelete,
               Parts!Profile!DeleteRequest, Profile!DeleteRequest, Parts!Profile!PublishRemoved,
               Profile!PublishRemoved, Parts!Profile!UpdatePrivacy, Profile!UpdatePrivacy,
               Parts!Profile!ReadPrevious, Profile!ReadPrevious, Parts!Profile!SaveVisibility,
               Profile!SaveVisibility, Parts!Profile!BecamePublic, Profile!BecamePublic,
               Parts!Profile!DecideAcceptAll, Profile!DecideAcceptAll, Parts!Profile!DeleteAllRequests,
               Profile!DeleteAllRequests, Parts!Profile!CreateAllFollows, Profile!CreateAllFollows,
               Parts!Profile!PublishNextRemoved, Profile!PublishNextRemoved, Parts!Profile!AcceptedAll,
               Profile!AcceptedAll, Parts!Profile!Restart, Profile!Restart, Parts!Profile!Ask, Profile!Ask,
               Parts!Profile!Step, Profile!Step, Parts!Profile!Next, Profile!Next, Parts!Profile!AtRest,
               Profile!AtRest, Parts!Profile!Consistent, Profile!Consistent,
               Parts!Profile!FollowsConsistent, Profile!FollowsConsistent, Parts!Profile!HandlersTyped,
               Profile!HandlersTyped, Parts!Profile!OneHandler, Profile!OneHandler, Parts!Profile!FoundSo,
               Profile!FoundSo, Parts!Profile!IInv, Profile!IInv

LEMMA CollectionsAlike ==
    /\ (Parts!Post!CollectionInit <=> Post!CollectionInit) /\ (Parts!Post!CollectionNext <=> Post!CollectionNext)
    /\ (Parts!Post!CollectionIInv <=> Post!CollectionIInv) /\ (Parts!Post!CollectionIInv' <=> Post!CollectionIInv')
  BY Zenon DEF Parts!Post!NoRow, Post!NoRow, Parts!Post!Idle, Post!Idle, Parts!Post!Handlers, Post!Handlers,
               Parts!Post!CollectionTypeOK, Post!CollectionTypeOK, Parts!Post!CollectionInit,
               Post!CollectionInit, Parts!Post!Goto, Post!Goto, Parts!Post!End, Post!End, Parts!Post!At,
               Post!At, Parts!Post!tables, Post!tables, Parts!Post!Without, Post!Without, Parts!Post!RowsOf,
               Post!RowsOf, Parts!Post!Save, Post!Save, Parts!Post!Unsave, Post!Unsave,
               Parts!Post!ChangeVisibility, Post!ChangeVisibility, Parts!Post!Create, Post!Create,
               Parts!Post!Begin, Post!Begin, Parts!Post!Owned, Post!Owned, Parts!Post!AfterOwned,
               Post!AfterOwned, Parts!Post!GetOwned, Post!GetOwned, Parts!Post!GetVisible, Post!GetVisible,
               Parts!Post!GetSaved, Post!GetSaved, Parts!Post!Exists, Post!Exists, Parts!Post!AddEntry,
               Post!AddEntry, Parts!Post!DeleteEntry, Post!DeleteEntry, Parts!Post!DeleteCollection,
               Post!DeleteCollection, Parts!Post!CollectionNext, Post!CollectionNext,
               Parts!Post!CollectionsOfSaved, Post!CollectionsOfSaved, Parts!Post!RowsApart, Post!RowsApart,
               Parts!Post!FoundOwn, Post!FoundOwn, Parts!Post!CollectionIInv, Post!CollectionIInv

LEMMA FeedAlike ==
    /\ (Parts!Feed!Init <=> Feed!Init) /\ (Parts!Feed!Next <=> Feed!Next)
    /\ (Parts!Feed!IInv <=> Feed!IInv) /\ (Parts!Feed!IInv' <=> Feed!IInv')
  BY Zenon DEF Parts!Feed!Cardinality, Feed!Cardinality, Parts!Feed!Paged, Feed!Paged, Parts!Feed!Listings,
               Feed!Listings, Parts!Feed!NoView, Feed!NoView, Parts!Feed!TypeOK, Feed!TypeOK,
               Parts!Feed!Init, Feed!Init, Parts!Feed!Existing, Feed!Existing, Parts!Feed!Mine, Feed!Mine,
               Parts!Feed!AsMember, Feed!AsMember, Parts!Feed!AuthorBlocked, Feed!AuthorBlocked,
               Parts!Feed!CommunityVisible, Feed!CommunityVisible, Parts!Feed!Visible, Feed!Visible,
               Parts!Feed!Listed, Feed!Listed, Parts!Feed!Listing, Feed!Listing, Parts!Feed!Ahead,
               Feed!Ahead, Parts!Feed!Rank, Feed!Rank, Parts!Feed!world, Feed!world, Parts!Feed!Showing,
               Feed!Showing, Parts!Feed!MayOpen, Feed!MayOpen, Parts!Feed!Open, Feed!Open,
               Parts!Feed!OpenDetail, Feed!OpenDetail, Parts!Feed!NextPage, Feed!NextPage,
               Parts!Feed!TimelineIds, Feed!TimelineIds, Parts!Feed!TimelineDetails, Feed!TimelineDetails,
               Parts!Feed!Changed, Feed!Changed, Parts!Feed!NextStatus, Feed!NextStatus,
               Parts!Feed!ChangePost, Feed!ChangePost, Parts!Feed!ChangeMembers, Feed!ChangeMembers,
               Parts!Feed!CloseCommunity, Feed!CloseCommunity, Parts!Feed!Save, Feed!Save,
               Parts!Feed!Unsave, Feed!Unsave, Parts!Feed!Next, Feed!Next, Parts!Feed!PagesComplete,
               Feed!PagesComplete, Parts!Feed!TimesApart, Feed!TimesApart, Parts!Feed!PageListed,
               Feed!PageListed, Parts!Feed!LastingListed, Feed!LastingListed, Parts!Feed!PagesShown,
               Feed!PagesShown, Parts!Feed!CursorShown, Feed!CursorShown, Parts!Feed!IInv, Feed!IInv

LEMMA FollowsHold ==
    /\ Profile!Init => Profile!IInv
    /\ Profile!IInv /\ (Profile!Next \/ UNCHANGED <<private, follows, requests, shown, req, disturbed>>)
          => Profile!IInv'
    /\ Profile!IInv => Profile!FollowsConsistent
<1>1. Profile!Init => Profile!IInv
  BY NoneAssumption, FollowsAlike, Parts!FollowsBegin
<1>2. Profile!IInv => Profile!FollowsConsistent
  BY DEF Profile!IInv
<1> QED
  BY <1>1, <1>2, NoneAssumption, FollowsAlike, Parts!FollowsStep, Parts!FollowsStands

LEMMA CollectionsHold ==
    /\ Post!CollectionInit => Post!CollectionIInv
    /\ Post!CollectionIInv /\ (Post!CollectionNext \/ UNCHANGED <<owner, saves, made, visible, entries, req>>)
          => Post!CollectionIInv'
    /\ Post!CollectionIInv => Post!CollectionsOfSaved
<1>1. Post!CollectionInit => Post!CollectionIInv
  BY CollectionsAlike, Parts!CollectionsBegin
<1>2. Post!CollectionIInv /\ Post!CollectionNext => Post!CollectionIInv'
  BY NoneAssumption, CollectionsAlike, Parts!CollectionsStep
<1>3. Post!CollectionIInv => Post!CollectionsOfSaved
  BY DEF Post!CollectionIInv
<1> QED
  BY <1>1, <1>2, <1>3, CollectionsAlike, Parts!CollectionsStand

LEMMA FeedHolds ==
    /\ Feed!Init => Feed!IInv
    /\ Feed!IInv /\ (Feed!Next \/ UNCHANGED <<kind, status, dated, reader, member, barred, open, saved, view, fresh, changes>>)
          => Feed!IInv'
    /\ Feed!IInv => Feed!PageAllowed /\ Feed!PagesComplete
<1>1. Parts!FeedSetting
  BY DEF Parts!FeedSetting
<1>2. Feed!Init => Feed!IInv
  BY <1>1, FeedAlike, Parts!FeedBegins
<1>3. Feed!IInv /\ Feed!Next => Feed!IInv'
  BY <1>1, FeedAlike, Parts!FeedStep
<1>4. /\ Parts!Feed!PageAllowed <=> Feed!PageAllowed
      /\ Parts!Feed!PagesComplete <=> Feed!PagesComplete
  BY Zenon DEF Parts!Feed!Paged, Feed!Paged, Parts!Feed!Listings, Feed!Listings, Parts!Feed!Mine, Feed!Mine,
               Parts!Feed!AuthorBlocked, Feed!AuthorBlocked, Parts!Feed!PageAllowed, Feed!PageAllowed,
               Parts!Feed!PagesComplete, Feed!PagesComplete
<1> QED
  BY <1>2, <1>3, <1>4, FeedAlike, Parts!FeedStands, Parts!FeedAllowed

-----------------------------------------------------------------------------
\* Whatever follows, decisions and changes of visibility interleave, and whatever
\* happens between the pages that a reader reads: follows and requests agree, and all
\* that is for a reader, and nothing else, is shown, by the assistant too; and what
\* is in a collection is saved.
THEOREM AudienceConsistentAlways == Spec => []AudienceConsistent
<1> DEFINE Inv == /\ scenario = "follows" => Profile!IInv
                  /\ scenario = "feed" => Feed!IInv
                  /\ scenario = "assistant" => Ask!AskIInv
                  /\ scenario = "collections" => Post!CollectionIInv
<1>1. Init => Inv
  <2> SUFFICES ASSUME Init PROVE Inv
    OBVIOUS
  <2>1. CASE scenario = "follows"
    BY <2>1, FollowsHold DEF Init
  <2>2. CASE scenario = "feed"
    BY <2>2, FeedHolds DEF Init
  <2>3. CASE scenario = "assistant"
    BY <2>3, AskHolds DEF Init
  <2>4. CASE scenario = "collections"
    BY <2>4, CollectionsHold DEF Init
  <2> QED
    BY <2>1, <2>2, <2>3, <2>4
<1>2. Inv /\ [Next]_vars => Inv'
  <2> SUFFICES ASSUME Inv, [Next]_vars PROVE Inv'
    OBVIOUS
  <2>1. CASE Next
    <3>1. UNCHANGED scenario
      BY <2>1 DEF Next
    <3>2. CASE scenario = "follows"
      BY <2>1, <3>1, <3>2, FollowsHold DEF Next
    <3>3. CASE scenario = "feed"
      BY <2>1, <3>1, <3>3, FeedHolds DEF Next
    <3>4. CASE scenario = "assistant"
      BY <2>1, <3>1, <3>4, AskHolds DEF Next
    <3>5. CASE scenario = "collections"
      BY <2>1, <3>1, <3>5, CollectionsHold DEF Next
    <3> QED
      BY <3>1, <3>2, <3>3, <3>4, <3>5
  <2>2. CASE UNCHANGED vars
    <3>1. UNCHANGED <<scenario, followsVars, requests, req, disturbed>>
      BY <2>2 DEF vars
    <3>2. UNCHANGED <<feedVars, kind, status, open, saved>>
      BY <2>2 DEF vars
    <3>3. UNCHANGED <<assistantVars, req, told, seen, edits, log>>
      BY <2>2 DEF vars
    <3>4. UNCHANGED <<savedVars, owner, req>>
      BY <2>2 DEF vars
    <3>5. CASE scenario = "follows"
      BY <3>1, <3>5, FollowsHold DEF followsVars
    <3>6. CASE scenario = "feed"
      BY <3>1, <3>2, <3>6, FeedHolds DEF feedVars
    <3>7. CASE scenario = "assistant"
      BY <3>1, <3>3, <3>7, AskHolds DEF assistantVars
    <3>8. CASE scenario = "collections"
      BY <3>1, <3>4, <3>8, CollectionsHold DEF savedVars
    <3> QED
      BY <3>1, <3>5, <3>6, <3>7, <3>8
  <2> QED
    BY <2>1, <2>2
<1>3. Inv => AudienceConsistent
  BY FollowsHold, FeedHolds, AskHolds, CollectionsHold DEF AudienceConsistent
<1> QED
  BY <1>1, <1>2, <1>3, PTL DEF Spec

-----------------------------------------------------------------------------
(* Addresses, plans of deliveries and imported areas: what DeliveryProofs   *)
(* proves of them holds here.                                               *)

Places == INSTANCE DeliveryProofs WITH AddressIds <- 1..3, MaxOverlaps <- 1,
              Sections <- <<"ai", "content">>, Lists <- <<"tags">>, Known <- {"a", "b"}, Payloads <- Updates,
              Promoters <- {"p", "q"}, NoPromoter <- "nobody", Routes <- {"p1", "p2", "q1"}, NoRoute <- "none",
              Elsewhere <- {"p2"}, OwnerOf <- RouteOwner, DaysInWeek <- 2, Choices <- Servings,
              MaxDay <- 2, MaxEdits <- 1, Files <- Archives, Imports <- AreaImports, Manual <- {"v2", "m", "n"},
              Handlers <- {}, Crashes <- FALSE, ResponseWindow <- 1, ClaimWindow <- 1, MaxRequests <- 1,
              MaxTime <- 1, orderLock <- NoSession, before <- {}, requestLock <- <<>>, pc <- <<>>, actor <- <<>>,
              target <- <<>>, began <- <<>>, seenOrder <- <<>>, draft <- <<>>, seenActive <- <<>>

\* What DeliveryProofs assumes of its constants.
LEMMA PlacesApply ==
    /\ "nobody" \notin {"p", "q"} /\ NoSession \notin Sessions /\ FALSE \in BOOLEAN
    /\ 1 \in Nat \ {0} /\ 1 \in Nat /\ {} \subseteq Places!AllHandlers
  BY NoneAssumption

LEMMA BookAlike ==
    /\ (Places!Data!BookInit <=> Data!BookInit) /\ (Places!Data!BookNext <=> Data!BookNext)
    /\ (Places!Data!BookIInv <=> Data!BookIInv) /\ (Places!Data!BookIInv' <=> Data!BookIInv')
  BY Zenon DEF Places!Data!Cardinality, Data!Cardinality, Places!Data!NoId, Data!NoId, Places!Data!Idle,
               Data!Idle, Places!Data!Edits, Data!Edits, Places!Data!BookTypeOK, Data!BookTypeOK,
               Places!Data!BookInit, Data!BookInit, Places!Data!Running, Data!Running, Places!Data!Unused,
               Data!Unused, Places!Data!Held, Data!Held, Places!Data!Free, Data!Free, Places!Data!Begin,
               Data!Begin, Places!Data!Goto, Data!Goto, Places!Data!Commit, Data!Commit, Places!Data!Abandon,
               Data!Abandon, Places!Data!Create, Data!Create, Places!Data!SetDefault, Data!SetDefault,
               Places!Data!FindDefaults, Data!FindDefaults, Places!Data!ClearDefault, Data!ClearDefault,
               Places!Data!Write, Data!Write, Places!Data!Delete, Data!Delete, Places!Data!DeleteRow,
               Data!DeleteRow, Places!Data!Replace, Data!Replace, Places!Data!DeleteAndReplace,
               Data!DeleteAndReplace, Places!Data!Order, Data!Order, Places!Data!PlaceOrder, Data!PlaceOrder,
               Places!Data!OrderEnds, Data!OrderEnds, Places!Data!BookNext, Data!BookNext,
               Places!Data!OpenOrdersShip, Data!OpenOrdersShip, Places!Data!Editing, Data!Editing,
               Places!Data!LocksHeld, Data!LocksHeld, Places!Data!Stages, Data!Stages, Places!Data!ClearsAll,
               Data!ClearsAll, Places!Data!DefaultsCounted, Data!DefaultsCounted, Places!Data!AloneKnows,
               Data!AloneKnows, Places!Data!DeletedUnused, Data!DeletedUnused, Places!Data!BookIInv,
               Data!BookIInv

LEMMA PlanAlike ==
    /\ (Places!Plan!Init <=> Plan!Init) /\ (Places!Plan!Next <=> Plan!Next)
    /\ (Places!Plan!IInv <=> Plan!IInv) /\ (Places!Plan!IInv' <=> Plan!IInv')
  BY Zenon DEF Places!Plan!Anyone, Plan!Anyone, Places!Plan!Days, Plan!Days, Places!Plan!Weekday,
               Plan!Weekday, Places!Plan!RouteStates, Plan!RouteStates, Places!Plan!NoOrder, Plan!NoOrder,
               Places!Plan!NoRequest, Plan!NoRequest, Places!Plan!Idle, Plan!Idle, Places!Plan!Fees,
               Plan!Fees, Places!Plan!Orders, Plan!Orders, Places!Plan!Requests, Plan!Requests,
               Places!Plan!TypeOK, Plan!TypeOK, Places!Plan!Init, Plan!Init, Places!Plan!world, Plan!world,
               Places!Plan!End, Plan!End, Places!Plan!WorksOn, Plan!WorksOn, Places!Plan!NextWorkingDay,
               Plan!NextWorkingDay, Places!Plan!Eligible, Plan!Eligible, Places!Plan!LowestFee,
               Plan!LowestFee, Places!Plan!Plans, Plan!Plans, Places!Plan!Planning, Plan!Planning,
               Places!Plan!Plan, Plan!Plan, Places!Plan!Written, Plan!Written, Places!Plan!InsertRequest,
               Plan!InsertRequest, Places!Plan!CanServe, Plan!CanServe, Places!Plan!RescheduledDay,
               Plan!RescheduledDay, Places!Plan!Accept, Plan!Accept, Places!Plan!CommitAccept,
               Plan!CommitAccept, Places!Plan!Candidates, Plan!Candidates, Places!Plan!PassOver,
               Plan!PassOver, Places!Plan!Reject, Plan!Reject, Places!Plan!Expire, Plan!Expire,
               Places!Plan!Abandon, Plan!Abandon, Places!Plan!Edit, Plan!Edit, Places!Plan!SaveSettings,
               Plan!SaveSettings, Places!Plan!UpdateRoute, Plan!UpdateRoute, Places!Plan!DeleteRoute,
               Plan!DeleteRoute, Places!Plan!NextDay, Plan!NextDay, Places!Plan!Next, Plan!Next,
               Places!Plan!DeliveryAgreed, Plan!DeliveryAgreed, Places!Plan!AcceptedCanServe,
               Plan!AcceptedCanServe, Places!Plan!Serves, Plan!Serves, Places!Plan!PlannedFor,
               Plan!PlannedFor, Places!Plan!Routed, Plan!Routed, Places!Plan!PlansKnow, Plan!PlansKnow,
               Places!Plan!RequestKnows, Plan!RequestKnows, Places!Plan!AcceptsKnow, Plan!AcceptsKnow,
               Places!Plan!IInv, Plan!IInv

LEMMA SourceAlike ==
    /\ (Places!Areas!SourceInit <=> Areas!SourceInit) /\ (Places!Areas!SourceNext <=> Areas!SourceNext)
    /\ (Places!Areas!SourceIInv <=> Areas!SourceIInv) /\ (Places!Areas!SourceIInv' <=> Areas!SourceIInv')
    /\ (Places!Areas!ColumnsPresent <=> Areas!ColumnsPresent) /\ (Places!Areas!AcceptedIsTree <=> Areas!AcceptedIsTree)
    /\ (Places!Areas!RowsPlaced <=> Areas!RowsPlaced)
  BY Zenon DEF Places!Areas!Cardinality, Areas!Cardinality, Places!Areas!ToSet, Areas!ToSet,
               Places!Areas!Levels, Areas!Levels, Places!Areas!FieldOf, Areas!FieldOf, Places!Areas!Fields,
               Areas!Fields, Places!Areas!VillageFields, Areas!VillageFields, Places!Areas!Indicators,
               Areas!Indicators, Places!Areas!Required, Areas!Required, Places!Areas!CodeField,
               Areas!CodeField, Places!Areas!CodesIn, Areas!CodesIn, Places!Areas!Unique, Areas!Unique,
               Places!Areas!Indicates, Areas!Indicates, Places!Areas!LevelOf, Areas!LevelOf,
               Places!Areas!IsAdmin, Areas!IsAdmin, Places!Areas!IsVillages, Areas!IsVillages,
               Places!Areas!Accepted, Areas!Accepted, Places!Areas!SourceTypeOK, Areas!SourceTypeOK,
               Places!Areas!NoAreas, Areas!NoAreas, Places!Areas!SourceInit, Areas!SourceInit,
               Places!Areas!Candidates, Areas!Candidates, Places!Areas!Named, Areas!Named,
               Places!Areas!Selectable, Areas!Selectable, Places!Areas!Ambiguous, Areas!Ambiguous,
               Places!Areas!Refuse, Areas!Refuse, Places!Areas!Take, Areas!Take, Places!Areas!Detect,
               Areas!Detect, Places!Areas!Rows, Areas!Rows, Places!Areas!Area, Areas!Area,
               Places!Areas!Legacy, Areas!Legacy, Places!Areas!StateCodes, Areas!StateCodes,
               Places!Areas!Readable, Areas!Readable, Places!Areas!Read, Areas!Read, Places!Areas!ReadDirect,
               Areas!ReadDirect, Places!Areas!SingleParent, Areas!SingleParent, Places!Areas!NothingBlank,
               Areas!NothingBlank, Places!Areas!MergedTaluk, Areas!MergedTaluk, Places!Areas!Derivable,
               Areas!Derivable, Places!Areas!Derived, Areas!Derived, Places!Areas!Derive, Areas!Derive,
               Places!Areas!CodesOf, Areas!CodesOf, Places!Areas!StateRows, Areas!StateRows,
               Places!Areas!Valid, Areas!Valid, Places!Areas!Validate, Areas!Validate,
               Places!Areas!SourceNext, Areas!SourceNext, Places!Areas!Reads, Areas!Reads,
               Places!Areas!ColumnsPresent, Areas!ColumnsPresent, Places!Areas!ParentLevel,
               Areas!ParentLevel, Places!Areas!AcceptedIsTree, Areas!AcceptedIsTree, Places!Areas!RowsPlaced,
               Areas!RowsPlaced, Places!Areas!Recognised, Areas!Recognised, Places!Areas!SourceIInv,
               Areas!SourceIInv

LEMMA ImportAlike ==
    /\ (Places!Areas!ImportInit <=> Areas!ImportInit) /\ (Places!Areas!ImportNext <=> Areas!ImportNext)
    /\ (Places!Areas!ImportIInv <=> Areas!ImportIInv) /\ (Places!Areas!ImportIInv' <=> Areas!ImportIInv')
    /\ (Places!Areas!NoCircle <=> Areas!NoCircle)
  BY Zenon DEF Places!Areas!ToSet, Areas!ToSet, Places!Areas!Absent, Areas!Absent, Places!Areas!Nowhere,
               Areas!Nowhere, Places!Areas!Idle, Areas!Idle, Places!Areas!Written, Areas!Written,
               Places!Areas!Codes, Areas!Codes, Places!Areas!Points, Areas!Points, Places!Areas!ImportTypeOK,
               Areas!ImportTypeOK, Places!Areas!ImportInit, Areas!ImportInit, Places!Areas!Release,
               Areas!Release, Places!Areas!StartImport, Areas!StartImport, Places!Areas!AreaOf, Areas!AreaOf,
               Places!Areas!Wants, Areas!Wants, Places!Areas!Free, Areas!Free, Places!Areas!Upsert,
               Areas!Upsert, Places!Areas!PointIn, Areas!PointIn, Places!Areas!Complete, Areas!Complete,
               Places!Areas!RollBack, Areas!RollBack, Places!Areas!LogFailure, Areas!LogFailure,
               Places!Areas!AddVillage, Areas!AddVillage, Places!Areas!InsertVillage, Areas!InsertVillage,
               Places!Areas!Crash, Areas!Crash, Places!Areas!ImportNext, Areas!ImportNext,
               Places!Areas!Completed, Areas!Completed, Places!Areas!AllOrNothing, Areas!AllOrNothing,
               Places!Areas!WaitsFor, Areas!WaitsFor, Places!Areas!NoCircle, Areas!NoCircle,
               Places!Areas!CoveredOnce, Areas!CoveredOnce, Places!Areas!Upserted, Areas!Upserted,
               Places!Areas!HeldWritten, Areas!HeldWritten, Places!Areas!BegunOnce, Areas!BegunOnce,
               Places!Areas!AddedAlone, Areas!AddedAlone, Places!Areas!ImportIInv, Areas!ImportIInv

LEMMA BookHolds ==
    /\ Data!BookInit => Data!BookIInv
    /\ Data!BookIInv /\ (Data!BookNext \/ UNCHANGED <<bookVars, saved, lock, req, crossed>>) => Data!BookIInv'
    /\ Data!BookIInv => Data!OneDefault /\ Data!OpenOrdersShip
<1>1. IsFiniteSet(1..3) /\ 0 \notin 1..3 /\ 1 \in Nat
  <2>1. 1..3 = ({1} \cup {2}) \cup {3}
    OBVIOUS
  <2>2. IsFiniteSet({1}) /\ IsFiniteSet({2}) /\ IsFiniteSet({3})
    BY FS_Singleton
  <2>3. IsFiniteSet({1} \cup {2})
    BY <2>2, FS_Union, Zenon
  <2>4. IsFiniteSet(({1} \cup {2}) \cup {3})
    BY <2>2, <2>3, FS_Union, Zenon
  <2> QED
    BY <2>1, <2>4
<1>2. Places!BookSetting
  <2>1. \A S : Places!IsFiniteSet(S) <=> IsFiniteSet(S)
    BY DEF Places!IsFiniteSet, IsFiniteSet
  <2> QED
    BY <1>1, <2>1, FiniteAssumption, NoneAssumption, Zenon DEF Places!BookSetting
<1>3. Data!BookInit => Data!BookIInv
  BY <1>2, BookAlike, Places!BookBegins, PlacesApply
<1>4. Data!BookIInv /\ Data!BookNext => Data!BookIInv'
  BY <1>2, BookAlike, Places!BookStep, PlacesApply
<1>5. Data!BookIInv /\ UNCHANGED <<bookVars, saved, lock, req, crossed>> => Data!BookIInv'
  BY BookAlike, Places!BookStands, PlacesApply DEF bookVars
<1>6. (Places!Data!OneDefault <=> Data!OneDefault) /\ (Places!Data!OpenOrdersShip <=> Data!OpenOrdersShip)
  BY Zenon DEF Places!Data!Cardinality, Data!Cardinality, Places!Data!OneDefault, Data!OneDefault,
               Places!Data!OpenOrdersShip, Data!OpenOrdersShip
<1>7. Data!BookIInv => Data!OneDefault /\ Data!OpenOrdersShip
  BY <1>2, <1>6, BookAlike, Places!BookGood, PlacesApply
<1> QED
  BY <1>3, <1>4, <1>5, <1>7

LEMMA PlansHold ==
    /\ Plan!Init => Plan!IInv
    /\ Plan!IInv /\ (Plan!Next \/ UNCHANGED <<planVars, settings, lock, req, edited, edits, overlapped>>) => Plan!IInv'
    /\ Plan!IInv => Plan!DeliveryAgreed /\ Plan!AcceptedCanServe
<1>1. ASSUME NEW c \in Servings
      PROVE  c.fee \in Nat /\ (0 \in c.days \/ 1 \in c.days)
  BY <1>1 DEF Servings, Serving
<1>2. ASSUME NEW t \in Nat
      PROVE  /\ t + 1 \in t + 1..t + 2 /\ t + 2 \in t + 1..t + 2
             /\ \/ (t + 1) % 2 = 0 /\ (t + 2) % 2 = 1
                \/ (t + 1) % 2 = 1 /\ (t + 2) % 2 = 0
  OBVIOUS
<1>3. \A c \in Servings : \A t \in Nat : \E d \in t + 1..t + 2 : d % 2 \in c.days
  BY <1>1, <1>2
<1>4. RouteOwner \in [{"p1", "p2", "q1"} -> {"p", "q"}]
  BY DEF RouteOwner
<1>5. Places!PlanSetting
  BY <1>1, <1>3, <1>4, NoneAssumption DEF Places!PlanSetting
<1>6. Plan!Init => Plan!IInv
  BY <1>5, PlanAlike, Places!PlanBegins, PlacesApply
<1>7. Plan!IInv /\ Plan!Next => Plan!IInv'
  BY <1>5, PlanAlike, Places!PlanStep, PlacesApply
<1>8. Plan!IInv /\ UNCHANGED <<planVars, settings, lock, req, edited, edits, overlapped>> => Plan!IInv'
  BY <1>5, PlanAlike, Places!PlanWaits, PlacesApply DEF Places!Plan!vars, planVars
<1> QED
  BY <1>6, <1>7, <1>8 DEF Plan!IInv

LEMMA RowsOfArchives == Places!SourceSetting
<1> DEFINE Counted(r) == Len(r) \in Nat /\ DOMAIN r = 1..Len(r)
<1>1. ASSUME NEW S, NEW r \in UpToTwo(S) PROVE Counted(r)
  BY DEF UpToTwo
<1>2. ASSUME NEW l \in StateLayers PROVE Counted(l.rows)
  BY DEF StateLayers, Layer
<1>3. ASSUME NEW l \in DistrictLayers PROVE Counted(l.rows)
  <2>1. \E S : l.rows \in UpToTwo(S)
    BY DEF DistrictLayers, Layer
  <2> QED
    BY <1>1, <2>1
<1>4. ASSUME NEW l \in TalukLayers PROVE Counted(l.rows)
  <2>1. \E S : l.rows \in UpToTwo(S)
    BY DEF TalukLayers, Layer
  <2> QED
    BY <1>1, <2>1
<1>5. ASSUME NEW l \in VillageLayers PROVE Counted(l.rows)
  <2>1. \E S : l.rows \in UpToTwo(S)
    BY DEF VillageLayers, Layer
  <2> QED
    BY <1>1, <2>1
<1>6. \A f \in Archives : \A l \in f : l \in StateLayers \cup DistrictLayers \cup TalukLayers \cup VillageLayers
  BY DEF Archives, OfOneRow
<1> QED
  BY <1>2, <1>3, <1>4, <1>5, <1>6 DEF Places!SourceSetting

LEMMA SourceHolds ==
    /\ Areas!SourceInit => Areas!SourceIInv
    /\ Areas!SourceIInv /\ (Areas!SourceNext \/ UNCHANGED <<sourceVars, areas>>) => Areas!SourceIInv'
    /\ Areas!SourceIInv => Areas!ColumnsPresent /\ Areas!AcceptedIsTree /\ Areas!RowsPlaced
<1>1. Areas!SourceInit => Areas!SourceIInv
  BY SourceAlike, Places!SourceBegins, PlacesApply
<1>2. Areas!SourceIInv /\ Areas!SourceNext => Areas!SourceIInv'
  BY SourceAlike, Places!SourceStep, PlacesApply
<1>3. Areas!SourceIInv /\ UNCHANGED <<sourceVars, areas>> => Areas!SourceIInv'
  BY SourceAlike, Places!SourceStands, PlacesApply DEF Places!Areas!sourceVars, sourceVars
<1>4. Areas!SourceIInv => Areas!ColumnsPresent /\ Areas!AcceptedIsTree /\ Areas!RowsPlaced
  BY RowsOfArchives, SourceAlike, Places!SourceGood, PlacesApply
<1> QED
  BY <1>1, <1>2, <1>3, <1>4

LEMMA ImportsHold ==
    /\ Areas!ImportInit => Areas!ImportIInv
    /\ Areas!ImportIInv /\ (Areas!ImportNext \/ UNCHANGED <<areas, held, log, req, crossed>>) => Areas!ImportIInv'
    /\ Areas!ImportIInv => Areas!AllOrNothing /\ Areas!NoCircle /\ Areas!CoveredOnce
<1>1. \A i \in AreaImports :
        /\ Len(i) \in {4, 5} /\ DOMAIN i = 1..Len(i) /\ i[1].code = "S"
        /\ \A k \in DOMAIN i : i[k] \in {Area("S", "nowhere"), Area("d1", "nowhere"), Area("d2", "nowhere"),
                                         Area("v1", "p1"), Area("v2", "p2")}
  BY DEF AreaImports, Area
<1>2. \A i \in AreaImports : /\ Len(i) \in Nat /\ 1 \in DOMAIN i /\ i # <<>>
                             /\ \A k \in DOMAIN i : /\ i[k].point # "absent"
                                                   /\ i[k].code \in {"S", "d1", "d2", "v1", "v2"}
  BY <1>1 DEF Area
<1>3. Places!ImportSetting
  BY <1>1, <1>2, NoneAssumption, Zenon DEF Places!ImportSetting
<1>4. Areas!ImportInit => Areas!ImportIInv
  BY <1>3, ImportAlike, Places!ImportBegins, PlacesApply
<1>5. Areas!ImportIInv /\ Areas!ImportNext => Areas!ImportIInv'
  BY <1>3, ImportAlike, Places!ImportStep, PlacesApply
<1>6. Areas!ImportIInv /\ UNCHANGED <<areas, held, log, req, crossed>> => Areas!ImportIInv'
  BY ImportAlike, Places!ImportStands, PlacesApply DEF Places!Areas!importVars
<1>7. Areas!ImportIInv => Areas!AllOrNothing /\ Areas!NoCircle /\ Areas!CoveredOnce
  BY <1>3, ImportAlike, Places!ImportGood, PlacesApply DEF Areas!ImportIInv
<1> QED
  BY <1>4, <1>5, <1>6, <1>7

-----------------------------------------------------------------------------
\* Whatever handlers of addresses overlap with each other and with orders, whatever
\* promoters change while deliveries are planned and accepted, whatever an archive
\* holds and wherever an import stops: one address is the default and open orders
\* keep theirs; what is agreed upon is what the promoter offers; and the areas are
\* a tree that has all rows of the file or none.
THEOREM PlacesConsistentAlways == Spec => []PlacesConsistent
<1> DEFINE Inv == /\ scenario = "addresses" => Data!BookIInv
                  /\ scenario = "plans" => Plan!IInv
                  /\ scenario = "area_file" => Areas!SourceIInv
                  /\ scenario = "area_import" => Areas!ImportIInv
<1>1. Init => Inv
  <2> SUFFICES ASSUME Init PROVE Inv
    OBVIOUS
  <2>1. CASE scenario = "addresses"
    BY <2>1, BookHolds DEF Init
  <2>2. CASE scenario = "plans"
    BY <2>2, PlansHold DEF Init
  <2>3. CASE scenario = "area_file"
    BY <2>3, SourceHolds DEF Init
  <2>4. CASE scenario = "area_import"
    BY <2>4, ImportsHold DEF Init
  <2> QED
    BY <2>1, <2>2, <2>3, <2>4
<1>2. Inv /\ [Next]_vars => Inv'
  <2> SUFFICES ASSUME Inv, [Next]_vars PROVE Inv'
    OBVIOUS
  <2>1. CASE Next
    <3>1. UNCHANGED scenario
      BY <2>1 DEF Next
    <3>2. CASE scenario = "addresses"
      BY <2>1, <3>1, <3>2, BookHolds DEF Next
    <3>3. CASE scenario = "plans"
      BY <2>1, <3>1, <3>3, PlansHold DEF Next
    <3>4. CASE scenario = "area_file"
      BY <2>1, <3>1, <3>4, SourceHolds DEF Next
    <3>5. CASE scenario = "area_import"
      BY <2>1, <3>1, <3>5, ImportsHold DEF Next
    <3> QED
      BY <3>1, <3>2, <3>3, <3>4, <3>5
  <2>2. CASE UNCHANGED vars
    <3>1. UNCHANGED <<scenario, bookVars, saved, lock, req, crossed>>
      BY <2>2 DEF vars
    <3>2. UNCHANGED <<planVars, settings, lock, req, edited, edits, overlapped>>
      BY <2>2 DEF vars
    <3>3. UNCHANGED <<sourceVars, areas>>
      BY <2>2 DEF vars
    <3>4. UNCHANGED <<areas, held, log, req, crossed>>
      BY <2>2 DEF vars
    <3>5. CASE scenario = "addresses"
      BY <3>1, <3>5, BookHolds
    <3>6. CASE scenario = "plans"
      BY <3>1, <3>2, <3>6, PlansHold
    <3>7. CASE scenario = "area_file"
      BY <3>1, <3>3, <3>7, SourceHolds
    <3>8. CASE scenario = "area_import"
      BY <3>1, <3>4, <3>8, ImportsHold
    <3> QED
      BY <3>1, <3>5, <3>6, <3>7, <3>8
  <2> QED
    BY <2>1, <2>2
<1>3. Inv => PlacesConsistent
  BY BookHolds, PlansHold, SourceHolds, ImportsHold DEF PlacesConsistent
<1> QED
  BY <1>1, <1>2, <1>3, PTL DEF Spec

-----------------------------------------------------------------------------
(* Codes, with two phones as with one.                                    *)

PartsTwo == INSTANCE AccountPartsProofs WITH Accounts <- {}, NoAccount <- NoUser, Candidates <- {},
                MaxAttempts <- 1, MaxPerPhone <- 1, MaxPerIp <- 1, MaxCodes <- 2,
                Posts <- {}, Collections <- {}, MaxSaves <- 0, FeedPosts <- {}, FeedTimes <- 0,
                FeedChanges <- 0, Kinds <- {}, Readers <- {}

LEMMA TwoPhonesAlike ==
    /\ (PartsTwo!Init <=> TwoPhones!Init) /\ (PartsTwo!Next <=> TwoPhones!Next)
    /\ (PartsTwo!IInv <=> TwoPhones!IInv) /\ (PartsTwo!IInv' <=> TwoPhones!IInv')
    /\ (PartsTwo!CodesOnce <=> TwoPhones!CodesOnce) /\ (PartsTwo!SendsBounded <=> TwoPhones!SendsBounded)
    /\ (PartsTwo!VerifiedPhonesProved <=> TwoPhones!VerifiedPhonesProved)
  BY Zenon DEF PartsTwo!Cardinality, TwoPhones!Cardinality, PartsTwo!codeVars, TwoPhones!codeVars,
               PartsTwo!accountVars, TwoPhones!accountVars, PartsTwo!Ids, TwoPhones!Ids, PartsTwo!Row,
               TwoPhones!Row, PartsTwo!NoRow, TwoPhones!NoRow, PartsTwo!Idle, TwoPhones!Idle,
               PartsTwo!TypeOK, TwoPhones!TypeOK, PartsTwo!Init, TwoPhones!Init, PartsTwo!Sent,
               TwoPhones!Sent, PartsTwo!SentTo, TwoPhones!SentTo, PartsTwo!Active, TwoPhones!Active,
               PartsTwo!VerifiedOf, TwoPhones!VerifiedOf, PartsTwo!ClaimedBy, TwoPhones!ClaimedBy,
               PartsTwo!Goto, TwoPhones!Goto, PartsTwo!End, TwoPhones!End, PartsTwo!WithinLimits,
               TwoPhones!WithinLimits, PartsTwo!LockPhone, TwoPhones!LockPhone, PartsTwo!CommitCode,
               TwoPhones!CommitCode, PartsTwo!MessageSent, TwoPhones!MessageSent, PartsTwo!MessageFailed,
               TwoPhones!MessageFailed, PartsTwo!Checkable, TwoPhones!Checkable, PartsTwo!AcceptCode,
               TwoPhones!AcceptCode, PartsTwo!WrongCode, TwoPhones!WrongCode, PartsTwo!ConsumeCode,
               TwoPhones!ConsumeCode, PartsTwo!AskSignIn, TwoPhones!AskSignIn, PartsTwo!CommitSignIn,
               TwoPhones!CommitSignIn, PartsTwo!UniquePhones, TwoPhones!UniquePhones, PartsTwo!Write,
               TwoPhones!Write, PartsTwo!Abandon, TwoPhones!Abandon, PartsTwo!AskLink, TwoPhones!AskLink,
               PartsTwo!LinkCode, TwoPhones!LinkCode, PartsTwo!Release, TwoPhones!Release,
               PartsTwo!ListHolders, TwoPhones!ListHolders, PartsTwo!Changed, TwoPhones!Changed,
               PartsTwo!CommitLink, TwoPhones!CommitLink, PartsTwo!AskRegister, TwoPhones!AskRegister,
               PartsTwo!CommitRegister, TwoPhones!CommitRegister, PartsTwo!AskEdit, TwoPhones!AskEdit,
               PartsTwo!CommitEdit, TwoPhones!CommitEdit, PartsTwo!CooledDown, TwoPhones!CooledDown,
               PartsTwo!ExpireCode, TwoPhones!ExpireCode, PartsTwo!ExpireToken, TwoPhones!ExpireToken,
               PartsTwo!Next, TwoPhones!Next, PartsTwo!CodesOnce, TwoPhones!CodesOnce,
               PartsTwo!SendsBounded, TwoPhones!SendsBounded, PartsTwo!VerifiedPhonesProved,
               TwoPhones!VerifiedPhonesProved, PartsTwo!Sending, TwoPhones!Sending, PartsTwo!Accepting,
               TwoPhones!Accepting, PartsTwo!SentInOrder, TwoPhones!SentInOrder, PartsTwo!UsedUp,
               TwoPhones!UsedUp, PartsTwo!OneActive, TwoPhones!OneActive, PartsTwo!Queued,
               TwoPhones!Queued, PartsTwo!LimitKept, TwoPhones!LimitKept, PartsTwo!PhoneLimit,
               TwoPhones!PhoneLimit, PartsTwo!Checked, TwoPhones!Checked, PartsTwo!KnowsWhat,
               TwoPhones!KnowsWhat, PartsTwo!Asked, TwoPhones!Asked, PartsTwo!IInv, TwoPhones!IInv

LEMMA TwoPhonesHolds ==
    /\ TwoPhones!Init => TwoPhones!IInv
    /\ TwoPhones!IInv /\ (TwoPhones!Next \/ UNCHANGED <<phoneVars, codes, proved, tokens, req>>) => TwoPhones!IInv'
    /\ TwoPhones!IInv => TwoPhones!CodesOnce /\ TwoPhones!SendsBounded
<1>1. PartsTwo!Setting
  BY FiniteAssumption, NoneAssumption DEF PartsTwo!Setting, PartsTwo!IsFiniteSet, IsFiniteSet
<1>2. TwoPhones!Init => TwoPhones!IInv
  BY <1>1, TwoPhonesAlike, PartsTwo!Starts
<1>3. TwoPhones!IInv /\ TwoPhones!Next => TwoPhones!IInv'
  BY <1>1, TwoPhonesAlike, PartsTwo!Steps
<1>4. TwoPhones!IInv /\ UNCHANGED <<phoneVars, codes, proved, tokens, req>> => TwoPhones!IInv'
  BY TwoPhonesAlike, PartsTwo!Stands DEF PartsTwo!vars, phoneVars
<1>5. TwoPhones!IInv => TwoPhones!CodesOnce /\ TwoPhones!SendsBounded /\ TwoPhones!VerifiedPhonesProved
  BY <1>1, TwoPhonesAlike, PartsTwo!Proved
<1> QED
  BY <1>2, <1>3, <1>4, <1>5

-----------------------------------------------------------------------------
\* However requests of users and sends interleave, fail and crash: one code at a
\* time, accepted once; sends and guesses bounded; a phone or an address that is
\* verified was proved for its account; and a Google account opens one account.
THEOREM CodesProvedAlways == Spec => []CodesProved
<1> DEFINE Inv == /\ scenario = "one_phone" => OnePhone!IInv
                  /\ scenario = "two_phones" => TwoPhones!IInv
                  /\ scenario = "email" => Email!IInv
                  /\ scenario = "google" => Google!IInv
<1>1. Init => Inv
  <2> SUFFICES ASSUME Init PROVE Inv
    OBVIOUS
  <2>1. CASE scenario = "one_phone"
    BY <2>1, OnePhoneHolds DEF Init
  <2>2. CASE scenario = "two_phones"
    BY <2>2, TwoPhonesHolds DEF Init
  <2>3. CASE scenario = "email"
    BY <2>3, EmailHolds DEF Init, EmailInit
  <2>4. CASE scenario = "google"
    BY <2>4, GoogleHolds DEF Init
  <2> QED
    BY <2>1, <2>2, <2>3, <2>4
<1>2. Inv /\ [Next]_vars => Inv'
  <2> SUFFICES ASSUME Inv, [Next]_vars PROVE Inv'
    OBVIOUS
  <2>1. CASE Next
    <3>1. UNCHANGED scenario
      BY <2>1 DEF Next
    <3>2. CASE scenario = "one_phone"
      BY <2>1, <3>1, <3>2, OnePhoneHolds DEF Next
    <3>3. CASE scenario = "two_phones"
      BY <2>1, <3>1, <3>3, TwoPhonesHolds DEF Next
    <3>4. CASE scenario = "email"
      BY <2>1, <3>1, <3>4, EmailHolds DEF Next
    <3>5. CASE scenario = "google"
      BY <2>1, <3>1, <3>5, GoogleHolds DEF Next
    <3> QED
      BY <3>1, <3>2, <3>3, <3>4, <3>5
  <2>2. CASE UNCHANGED vars
    <3>1. UNCHANGED <<scenario, phoneVars, codes, proved, tokens, req>>
      BY <2>2 DEF vars
    <3>2. UNCHANGED <<email, verified, codes, wrong, proof, lock, req, hasty, moved>>
      BY <2>2 DEF vars, emailVars
    <3>3. UNCHANGED <<user, identities, signed, proved, edited, req>>
      BY <2>2 DEF vars, googleVars
    <3> QED
      BY <3>1, <3>2, <3>3, OnePhoneHolds, TwoPhonesHolds, EmailHolds, GoogleHolds
  <2> QED
    BY <2>1, <2>2
<1>3. Inv => CodesProved
  BY OnePhoneHolds, TwoPhonesHolds, EmailHolds, GoogleHolds DEF CodesProved
<1> QED
  BY <1>1, <1>2, <1>3, PTL DEF Spec
=============================================================================
