----------------------------- MODULE MarketProofs ---------------------------
(***************************************************************************)
(* Proofs about the components of MCMarket, for any number of users,       *)
(* businesses and sessions: each by the inductive invariant in its module. *)
(***************************************************************************)
EXTENDS MCMarket, FiniteSetTheorems, TLAPS

----------------------------------------------------------------------------
(* Customers of a deal: what the proof needs of their handlers is that one *)
(* touches nobody else's rows, and acts upon its own as it read them.      *)

USE DEF Customers!vars, Customers!rows, Customers!Idle, Customers!User, Customers!At

LEMMA CountedByCardinality ==
    ASSUME NEW S
    PROVE  /\ Customers!Cardinality(S) = Cardinality(S)
           /\ Customers!IsFiniteSet(S) <=> IsFiniteSet(S)
BY DEF Customers!Cardinality, Cardinality, Customers!IsFiniteSet, IsFiniteSet

\* A handler begins: its user, if still without overlap, has no other.
LEMMA CustomerBegins ==
    ASSUME Customers!IInv, NEW s \in Sessions, NEW u \in Users, NEW q \in 0..2,
           NEW statement \in Customers!Statements \ {"leaving"},
           statement \in Customers!AsParticipant => u \in participants,
           Customers!Begin(s, u, statement, q)
    PROVE  Customers!IInv'
<1> USE DEF Customers!IInv, Customers!Begin
<1>1. Customers!TypeOK'
  BY DEF Customers!TypeOK
<1>2. Customers!Counted' /\ Customers!SerialUsersConsistent'
  BY DEF Customers!Counted, Customers!JoinedCounted, Customers!SerialUsersConsistent, Customers!TypeOK
<1>3. Customers!OneRequestEach'
  BY DEF Customers!OneRequestEach, Customers!TypeOK
<1>4. Customers!ReadsHold'
  BY DEF Customers!ReadsHold, Customers!TypeOK
<1> QED
  BY <1>1, <1>2, <1>3, <1>4

\* A handler goes on to a statement that its reads allow.
LEMMA CustomerContinues ==
    ASSUME Customers!IInv, NEW s \in Sessions, req[s].at # "idle",
           NEW statement \in Customers!Statements, NEW q \in 0..2,
           Customers!Continue(s, statement, q),
           statement \in Customers!AsParticipant => req[s].user \in participants \cup overlapped,
           statement = "leaving" => orders[req[s].user] = 0
    PROVE  Customers!IInv'
<1> USE DEF Customers!IInv, Customers!Continue
<1>1. Customers!TypeOK'
  BY DEF Customers!TypeOK
<1>2. Customers!Counted' /\ Customers!SerialUsersConsistent'
  BY DEF Customers!Counted, Customers!JoinedCounted, Customers!SerialUsersConsistent
<1>3. Customers!OneRequestEach'
  BY DEF Customers!OneRequestEach, Customers!TypeOK
<1>4. Customers!ReadsHold'
  BY DEF Customers!ReadsHold, Customers!TypeOK
<1> QED
  BY <1>1, <1>2, <1>3, <1>4

\* A handler ends, having written rows of its own user, or none.
LEMMA CustomerEnds ==
    ASSUME Customers!IInv, NEW s \in Sessions, Customers!End(s),
           participants' \subseteq Users, joined' \in Nat,
           cart' \in [Users -> 0..2], orders' \in [Users -> 0..1],
           \A v \in Users : v # req[s].user =>
               (v \in participants' <=> v \in participants) /\ orders'[v] = orders[v] /\ cart'[v] = cart[v],
           req[s].user \in Users \ overlapped =>
               (orders'[req[s].user] > 0 \/ cart'[req[s].user] > 0 => req[s].user \in participants'),
           Customers!Counted'
    PROVE  Customers!IInv'
<1> USE DEF Customers!IInv, Customers!End
<1>1. participants' \subseteq Users /\ Cardinality(participants') <= Cardinality(Users)
  BY FiniteAssumption, FS_Subset
<1>2. joined' <= Cardinality(participants')
  BY CountedByCardinality DEF Customers!Counted, Customers!JoinedCounted
<1>3. joined' \in 0..Cardinality(Users)
  BY <1>1, <1>2, FiniteAssumption, FS_Subset, FS_CardinalityType
<1>4. Customers!TypeOK'
  BY <1>1, <1>3, CountedByCardinality DEF Customers!TypeOK
<1>5. Customers!SerialUsersConsistent'
  BY DEF Customers!SerialUsersConsistent
<1>6. Customers!OneRequestEach'
  BY NoneAssumption DEF Customers!OneRequestEach, Customers!TypeOK
<1>7. Customers!ReadsHold'
  BY NoneAssumption DEF Customers!ReadsHold, Customers!TypeOK, Customers!OneRequestEach
<1> QED
  BY <1>4, <1>5, <1>6, <1>7

\* joined_count is adjusted with the row that is inserted or deleted.
LEMMA CountAdjusted ==
    ASSUME Customers!IInv, NEW u, overlapped' = overlapped,
           \/ u \notin participants /\ participants' = participants \cup {u} /\ joined' = Customers!Adjusted(1)
           \/ /\ participants' = participants \ {u} /\ joined' = Customers!Adjusted(-1)
              /\ overlapped = {} => u \in participants
    PROVE  joined' \in Nat /\ Customers!Counted'
<1>1. IsFiniteSet(participants) /\ Cardinality(participants) \in Nat /\ joined \in Nat
  BY CountedByCardinality, FS_CardinalityType, FiniteAssumption, FS_Subset DEF Customers!IInv, Customers!TypeOK, Customers!Counted
<1>2. /\ joined <= Cardinality(participants)
      /\ overlapped = {} => joined = Cardinality(participants)
  BY CountedByCardinality DEF Customers!IInv, Customers!Counted, Customers!JoinedCounted
<1>3. /\ IsFiniteSet(participants')
      /\ joined' \in Nat /\ joined' <= Cardinality(participants')
      /\ overlapped = {} => joined' = Cardinality(participants')
  <2> DEFINE more == u \notin participants /\ participants' = participants \cup {u} /\ joined' = Customers!Adjusted(1)
  <2>1. CASE more
    <3>1. IsFiniteSet(participants') /\ Cardinality(participants') = Cardinality(participants) + 1
      BY <1>1, <2>1, FS_AddElement
    <3>2. joined' = joined + 1
      BY <1>1, <2>1 DEF Customers!Adjusted
    <3> HIDE DEF more
    <3> QED
      BY <1>1, <1>2, <3>1, <3>2
  <2>2. CASE ~more
    <3>1. /\ IsFiniteSet(participants')
          /\ Cardinality(participants') =
                IF u \in participants THEN Cardinality(participants) - 1 ELSE Cardinality(participants)
      BY <1>1, <2>2, FS_RemoveElement
    <3>2. /\ joined' = IF joined = 0 THEN 0 ELSE joined - 1
          /\ overlapped = {} => u \in participants
      BY <1>1, <2>2 DEF Customers!Adjusted
    <3>3. Cardinality(participants') \in Nat
      BY <3>1, FS_CardinalityType
    <3> HIDE DEF more
    <3> QED
      BY <1>1, <1>2, <3>1, <3>2, <3>3
  <2> QED
    BY <2>1, <2>2
<1> QED
  BY <1>3, CountedByCardinality DEF Customers!Counted, Customers!JoinedCounted

\* What a handler does next keeps the invariant.
LEMMA CustomerStep ==
    ASSUME Customers!IInv, NEW s \in Sessions, Customers!Step(s)
    PROVE  Customers!IInv'
<1> DEFINE u == req[s].user
<1>1. /\ participants \subseteq Users /\ overlapped \subseteq Users /\ joined \in Nat
      /\ cart \in [Users -> 0..2] /\ orders \in [Users -> 0..1]
      /\ req[s].seen \in 0..2 /\ u \in Users \cup {NoUser} /\ Customers!Counted
  BY DEF Customers!IInv, Customers!TypeOK
<1>2. req[s].at # "idle" => u \in Users
  BY DEF Customers!IInv, Customers!ReadsHold
<1>3. u \in Users \ overlapped =>
        /\ req[s].at \in Customers!AsParticipant => u \in participants
        /\ req[s].at = "leaving" => orders[u] = 0
        /\ orders[u] > 0 \/ cart[u] > 0 => u \in participants
  BY DEF Customers!IInv, Customers!ReadsHold, Customers!SerialUsersConsistent
<1>4. ASSUME UNCHANGED <<participants, joined, overlapped>> PROVE Customers!Counted'
  BY <1>1, <1>4 DEF Customers!Counted, Customers!JoinedCounted
<1>5. CASE Customers!CheckNotJoined(s)
  BY <1>5, CustomerContinues DEF Customers!CheckNotJoined, Customers!Statements, Customers!AsParticipant
<1>6. CASE Customers!CheckJoined(s)
  BY <1>6, CustomerContinues DEF Customers!CheckJoined, Customers!Statements
<1>7. CASE Customers!CheckNoOrder(s)
  BY <1>2, <1>3, <1>7, CustomerContinues DEF Customers!CheckNoOrder, Customers!Statements, Customers!AsParticipant
<1>8. CASE Customers!CheckOrderer(s)
  BY <1>1, <1>8, CustomerContinues DEF Customers!CheckOrderer, Customers!Statements
<1>9. CASE Customers!ReadLine(s)
  BY <1>1, <1>2, <1>3, <1>9, CustomerContinues DEF Customers!ReadLine, Customers!Statements, Customers!AsParticipant
<1>10. CASE Customers!CommitJoin(s)
  <2>1. joined' \in Nat /\ Customers!Counted'
    BY <1>10, CountAdjusted DEF Customers!CommitJoin, Customers!End
  <2> QED
    BY <1>1, <1>2, <1>10, <2>1, CustomerEnds DEF Customers!CommitJoin
<1>11. CASE Customers!CommitLeave(s)
  <2>1. overlapped = {} => u \in participants
    BY <1>2, <1>3, <1>11 DEF Customers!CommitLeave, Customers!AsParticipant
  <2>2. joined' \in Nat /\ Customers!Counted'
    BY <1>11, <2>1, CountAdjusted DEF Customers!CommitLeave, Customers!End
  <2> QED
    BY <1>1, <1>2, <1>3, <1>11, <2>2, CustomerEnds DEF Customers!CommitLeave
<1>12. ASSUME NEW q \in 0..2, NEW n \in 0..1, Customers!End(s), UNCHANGED <<participants, joined>>,
              cart' = [cart EXCEPT ![u] = q], orders' = [orders EXCEPT ![u] = n],
              u \in Users \ overlapped => (n > 0 \/ q > 0 => u \in participants)
       PROVE  Customers!IInv'
  <2>1. Customers!Counted' /\ overlapped' = overlapped
    BY <1>4, <1>12 DEF Customers!End
  <2>2. /\ cart' \in [Users -> 0..2] /\ orders' \in [Users -> 0..1]
        /\ \A v \in Users : v # u => orders'[v] = orders[v] /\ cart'[v] = cart[v]
        /\ u \in Users => cart'[u] = q /\ orders'[u] = n
    BY <1>1, <1>12
  <2> QED
    BY <1>1, <1>12, <2>1, <2>2, CustomerEnds
<1>13. CASE Customers!CommitOrder(s)
  <2>1. u \in Users /\ (u \notin overlapped => u \in participants) /\ orders[u] + 1 \in 0..1
    BY <1>1, <1>2, <1>3, <1>13 DEF Customers!CommitOrder, Customers!AsParticipant
  <2>2. orders' = [orders EXCEPT ![u] = orders[u] + 1] /\ cart' = [cart EXCEPT ![u] = 0]
    BY <1>13 DEF Customers!CommitOrder
  <2>3. Customers!End(s) /\ UNCHANGED <<participants, joined>> /\ 0 \in 0..2
    BY <1>13 DEF Customers!CommitOrder
  <2> HIDE DEF u
  <2> QED
    BY <1>12, <2>1, <2>2, <2>3
<1>14. ASSUME NEW q \in 0..2, Customers!WriteLine(s, q), req[s].at # "idle",
              u \in Users \ overlapped => (q > 0 => u \in participants)
       PROVE  Customers!IInv'
  <2>1. u \in Users /\ orders[u] \in 0..1 /\ orders = [orders EXCEPT ![u] = orders[u]]
    BY <1>1, <1>2, <1>14
  <2> QED
    BY <1>3, <1>12, <1>14, <2>1 DEF Customers!WriteLine
<1>15. CASE Customers!DeleteLine(s)
  BY <1>14, <1>15 DEF Customers!DeleteLine
<1>16. ASSUME NEW q \in 1..2, Customers!WriteAdded(s, q) PROVE Customers!IInv'
  <2>1. req[s].seen + q \in 0..2 /\ req[s].at = "adding" /\ Customers!WriteLine(s, req[s].seen + q)
    BY <1>1, <1>16 DEF Customers!WriteAdded
  <2> QED
    BY <1>3, <1>14, <2>1 DEF Customers!AsParticipant
<1>17. ASSUME NEW q \in 1..2, Customers!WriteUpdated(s, q) PROVE Customers!IInv'
  BY <1>3, <1>14, <1>17 DEF Customers!WriteUpdated
<1>18. CASE Customers!Refuse(s)
  BY <1>1, <1>3, <1>4, <1>18, CustomerEnds DEF Customers!Refuse, Customers!End
<1> QED
  BY <1>5, <1>6, <1>7, <1>8, <1>9, <1>10, <1>11, <1>13, <1>15, <1>16, <1>17, <1>18 DEF Customers!Step

\* So does every step of the component.
LEMMA CustomersNext ==
    ASSUME Customers!IInv, Customers!Next
    PROVE  Customers!IInv'
<1>1. ASSUME NEW s \in Sessions, Customers!Step(s) PROVE Customers!IInv'
  BY <1>1, CustomerStep
<1>2. ASSUME NEW s \in Sessions, NEW u \in Users, Customers!AskJoin(s, u) PROVE Customers!IInv'
  BY <1>2, CustomerBegins DEF Customers!AskJoin, Customers!Statements, Customers!AsParticipant
<1>3. ASSUME NEW s \in Sessions, NEW u \in Users, Customers!AskLeave(s, u) PROVE Customers!IInv'
  BY <1>3, CustomerBegins DEF Customers!AskLeave, Customers!Statements, Customers!AsParticipant
<1>4. ASSUME NEW s \in Sessions, NEW u \in Users, Customers!AskAdd(s, u) PROVE Customers!IInv'
  BY <1>4, CustomerBegins DEF Customers!AskAdd, Customers!Statements
<1>5. cart \in [Users -> 0..2]
  BY DEF Customers!IInv, Customers!TypeOK
<1>6. ASSUME NEW s \in Sessions, NEW u \in Users, Customers!AskCheckout(s, u) PROVE Customers!IInv'
  BY <1>5, <1>6, CustomerBegins DEF Customers!AskCheckout, Customers!Statements, Customers!AsParticipant
<1>7. ASSUME NEW s \in Sessions, NEW u \in Users, NEW statement \in {"update", "remove"},
             Customers!AskUpdate(s, u, statement)
      PROVE  Customers!IInv'
  BY <1>5, <1>7, CustomerBegins DEF Customers!AskUpdate, Customers!Statements, Customers!AsParticipant
<1>8. ASSUME NEW s \in Sessions, NEW u \in Users, NEW q \in 1..2, Customers!AskOrder(s, u, q)
      PROVE  Customers!IInv'
  BY <1>8, CustomerBegins DEF Customers!AskOrder, Customers!Statements, Customers!AsParticipant
<1>9. ASSUME NEW u \in Users, Customers!CancelOrder(u) \/ Customers!RemoveDeal(u) PROVE Customers!IInv'
  <2> USE <1>9 DEF Customers!IInv, Customers!CancelOrder, Customers!RemoveDeal, Customers!TypeOK
  <2>1. Customers!TypeOK'
    OBVIOUS
  <2>2. Customers!Counted' /\ Customers!OneRequestEach'
    BY DEF Customers!Counted, Customers!JoinedCounted, Customers!OneRequestEach
  <2>3. Customers!ReadsHold'
    BY DEF Customers!ReadsHold
  <2>4. Customers!SerialUsersConsistent'
    BY DEF Customers!SerialUsersConsistent
  <2> QED
    BY <2>1, <2>2, <2>3, <2>4
<1>10. CASE Customers!CloseDeal
  BY <1>10 DEF Customers!CloseDeal, Customers!IInv, Customers!TypeOK, Customers!Counted, Customers!JoinedCounted,
               Customers!OneRequestEach, Customers!ReadsHold, Customers!SerialUsersConsistent
<1> QED
  BY <1>1, <1>2, <1>3, <1>4, <1>6, <1>7, <1>8, <1>9, <1>10 DEF Customers!Next

\* joined_count counts the participants, and who sends one request at a time has
\* orders and cart lines only on a deal joined (DealParticipationService,
\* DealOrderService, CartService), however many users and sessions there are.
THEOREM CustomersConsistentAlways == Spec => []CustomersConsistent
<1> DEFINE Inv == scenario = "customers" => Customers!IInv
<1>1. Init => Inv
  <2> SUFFICES ASSUME Customers!Init PROVE Customers!IInv
    BY DEF Init
  <2>1. Customers!Cardinality({}) = 0 /\ Customers!IsFiniteSet({}) /\ Cardinality(Users) \in Nat
    BY CountedByCardinality, FS_EmptySet, FiniteAssumption, FS_CardinalityType
  <2>2. Customers!TypeOK
    BY <2>1, CountedByCardinality DEF Customers!Init, Customers!TypeOK
  <2>3. Customers!Counted /\ Customers!SerialUsersConsistent
    BY <2>1 DEF Customers!Init, Customers!Counted, Customers!JoinedCounted, Customers!SerialUsersConsistent
  <2>4. Customers!OneRequestEach /\ Customers!ReadsHold
    BY NoneAssumption DEF Customers!Init, Customers!OneRequestEach, Customers!ReadsHold
  <2> QED
    BY <2>2, <2>3, <2>4 DEF Customers!IInv
<1>2. Inv /\ [Next]_vars => Inv'
  <2> SUFFICES ASSUME Customers!IInv, [Next]_vars, scenario = "customers" PROVE Customers!IInv'
    BY DEF Next, vars
  <2>1. CASE Next
    BY <2>1, CustomersNext DEF Next
  <2>2. CASE UNCHANGED vars
    BY <2>2 DEF vars, customersVars, Customers!IInv, Customers!TypeOK, Customers!Counted, Customers!JoinedCounted,
                Customers!OneRequestEach, Customers!ReadsHold, Customers!SerialUsersConsistent
  <2> QED
    BY <2>1, <2>2
<1>3. Inv => CustomersConsistent
  BY DEF CustomersConsistent, Customers!IInv, Customers!Counted
<1> QED
  BY <1>1, <1>2, <1>3, PTL DEF Spec

----------------------------------------------------------------------------
(* The review of an owner's businesses: what the proof needs of a handler  *)
(* is that its columns, over those of the row it read, make the row it     *)
(* decided upon.                                                           *)

LEMMA WrittenRow ==
    ASSUME NEW seen \in Business!Rows, NEW writes, DOMAIN writes \subseteq DOMAIN Business!NoRow,
           Business!Written(writes, Business!NoRow) \in Business!Rows
    PROVE  /\ Business!Written(writes, seen) \in Business!Rows
           /\ Business!Written(writes, seen).verification =
                IF "verification" \in DOMAIN writes THEN writes["verification"] ELSE seen.verification
BY DEF Business!Rows, Business!NoRow, Business!Written, Business!VerificationStatus, Business!Admins,
       Business!BusinessStatus

LEMMA DifferingRow ==
    ASSUME NEW seen \in Business!Rows, NEW new \in Business!Rows
    PROVE  LET writes == Business!Differing(seen, new) IN
           /\ DOMAIN writes \subseteq DOMAIN Business!NoRow
           /\ Business!Written(writes, Business!NoRow) \in Business!Rows
           /\ Business!Written(writes, seen) = new
           /\ "verification" \in DOMAIN writes =>
                writes["verification"] = new.verification /\ new.verification # seen.verification
BY DEF Business!Rows, Business!NoRow, Business!Written, Business!VerificationStatus, Business!Admins,
       Business!BusinessStatus, Business!Differing

LEMMA AssignedRow ==
    ASSUME NEW seen \in Business!Rows, NEW op \in Business!OwnerOps \cup Business!AdminOps,
           NEW admin \in Business!Admins \cup {"none"}
    PROVE  /\ Business!Assigned(op, seen, admin) \in Business!Rows
           /\ Business!Assigned(op, seen, admin).verification = "PENDING" /\ seen.verification # "PENDING" =>
                op \in Business!Submits
BY DEF Business!Rows, Business!Assigned, Business!OwnerOps, Business!AdminOps, Business!Submits,
       Business!VerificationStatus, Business!Admins, Business!BusinessStatus

LEMMA PendingRows ==
    /\ Business!Pending = {b \in Businesses : row[b].verification = "PENDING"}
    /\ Business!Pending' = {b \in Businesses : row'[b].verification = "PENDING"}
BY DEF Business!Pending, Business!Exists, Business!NoRow, Business!Gone

\* A handler begins, and would decide upon the row as it should.
LEMMA ReviewBegins ==
    ASSUME Business!ReviewIInv, NEW s \in Sessions, NEW b \in Businesses,
           NEW op \in Business!OwnerOps \cup Business!AdminOps, NEW admin \in Business!Admins \cup {"none"},
           Business!Begin(s, op, b, admin),
           b \notin reviewed => Business!Decided(Business!Assigned(op, row[b], admin)),
           op \in Business!Submits /\ ~granted => Business!Pending = {}
    PROVE  Business!ReviewIInv'
<1> DEFINE new == Business!Assigned(op, row[b], admin)
           writes == Business!Differing(row[b], new)
<1>1. row[b] \in Business!Rows /\ new \in Business!Rows
  BY AssignedRow DEF Business!ReviewIInv, Business!ReviewTypeOK
<1>2. /\ DOMAIN writes \subseteq DOMAIN Business!NoRow
      /\ Business!Written(writes, Business!NoRow) \in Business!Rows
      /\ Business!Written(writes, row[b]) = new
      /\ "verification" \in DOMAIN writes /\ writes["verification"] = "PENDING" => op \in Business!Submits
  BY <1>1, DifferingRow, AssignedRow
<1>3. /\ req' = [req EXCEPT ![s] = [op |-> op, business |-> b, writes |-> writes]]
      /\ reviewed' = IF \E r \in Sessions : req[r].business = b THEN reviewed \cup {b} ELSE reviewed
      /\ excused' = (excused \/ (op \in Business!OwnerOps /\ \E r \in Sessions : req[r].op \in Business!OwnerOps))
      /\ UNCHANGED <<row, granted>>
  BY DEF Business!Begin
<1> HIDE DEF new, writes
<1>4. Business!ReviewTypeOK'
  <2>1. DOMAIN req'[s] = DOMAIN Business!Idle
    BY <1>3 DEF Business!ReviewIInv, Business!ReviewTypeOK, Business!Idle
  <2> QED
    BY <1>2, <1>3, <2>1 DEF Business!ReviewIInv, Business!ReviewTypeOK
<1>5. Business!WritesDecided'
  BY <1>2, <1>3 DEF Business!ReviewIInv, Business!ReviewTypeOK, Business!WritesDecided, new
<1>6. Business!OneHandlerEach'
  BY <1>3 DEF Business!ReviewIInv, Business!ReviewTypeOK, Business!OneHandlerEach
<1>7. Business!OneSubmission'
  <2>1. Business!Pending' = Business!Pending
    BY <1>3, PendingRows
  <2>2. Business!Submits \subseteq Business!OwnerOps
    BY DEF Business!Submits, Business!OwnerOps
  <2> QED
    BY <1>3, <2>1, <2>2 DEF Business!ReviewIInv, Business!ReviewTypeOK, Business!OneSubmission
<1>8. Business!OnlySubmits' /\ Business!ReviewsDecide'
  BY <1>2, <1>3 DEF Business!ReviewIInv, Business!ReviewTypeOK, Business!OnlySubmits, Business!ReviewsDecide
<1> QED
  BY <1>4, <1>5, <1>6, <1>7, <1>8 DEF Business!ReviewIInv

\* A handler ends, having written its columns or nothing.
LEMMA ReviewEnds ==
    ASSUME Business!ReviewIInv, NEW s \in Sessions, Business!Commit(s) \/ Business!Abandon(s)
    PROVE  Business!ReviewIInv'
<1> DEFINE b == req[s].business
           written == Business!Written(req[s].writes, row[b])
<1>1. b \in Businesses /\ row[b] \in Business!Rows /\ req[s] # Business!Idle
  BY DEF Business!ReviewIInv, Business!ReviewTypeOK, Business!WritesDecided, Business!Commit, Business!Abandon
<1>2. /\ written \in Business!Rows
      /\ written.verification = IF "verification" \in DOMAIN req[s].writes THEN req[s].writes["verification"]
                                                                          ELSE row[b].verification
  BY <1>1, WrittenRow DEF Business!ReviewIInv, Business!ReviewTypeOK
<1>3. PICK r \in {Business!Gone, written, row[b]} : row' = [row EXCEPT ![b] = r]
  BY <1>1 DEF Business!Commit, Business!Abandon, Business!ReviewIInv, Business!ReviewTypeOK
<1>4. req' = [req EXCEPT ![s] = Business!Idle] /\ UNCHANGED <<granted, reviewed, excused>>
  BY DEF Business!Commit, Business!Abandon
<1>5. Business!Gone \in Business!Rows /\ Business!Decided(Business!Gone) /\ Business!Gone.verification = "DELETED"
  BY DEF Business!Gone, Business!NoRow, Business!Rows, Business!Decided, Business!VerificationStatus, Business!Admins,
         Business!BusinessStatus
<1>6. r \in Business!Rows /\ (b \notin reviewed => Business!Decided(r))
  BY <1>1, <1>2, <1>5 DEF Business!ReviewIInv, Business!WritesDecided, Business!ReviewsDecide, Business!Decided
<1>7. r.verification = "PENDING" => row[b].verification = "PENDING" \/ req[s].op \in Business!Submits
  BY <1>2, <1>5 DEF Business!ReviewIInv, Business!OnlySubmits
<1>8. /\ Business!Idle.business = NoBusiness /\ Business!Idle.op = "idle" /\ DOMAIN Business!Idle.writes = {}
      /\ Business!Written(Business!Idle.writes, Business!NoRow) \in Business!Rows
  <2>1. DOMAIN <<>> = {}
    OBVIOUS
  <2>2. Business!Idle.business = NoBusiness /\ Business!Idle.op = "idle" /\ Business!Idle.writes = <<>>
    BY DEF Business!Idle
  <2>3. Business!NoRow \in Business!Rows
    BY DEF Business!NoRow, Business!Rows, Business!VerificationStatus, Business!Admins, Business!BusinessStatus
  <2>4. Business!Written(<<>>, Business!NoRow) = Business!NoRow
    BY <2>1 DEF Business!Written, Business!NoRow
  <2> QED
    BY <2>1, <2>2, <2>3, <2>4
<1> HIDE DEF b, written
<1>9. Business!ReviewTypeOK'
  BY <1>1, <1>3, <1>4, <1>6, <1>8 DEF Business!ReviewIInv, Business!ReviewTypeOK
<1>10. Business!WritesDecided'
  <2> SUFFICES ASSUME NEW t \in Sessions, t # s, req[t] # Business!Idle, req[t].business \notin reviewed
               PROVE  row'[req[t].business] = row[req[t].business]
    BY <1>4, <1>8 DEF Business!ReviewIInv, Business!ReviewTypeOK, Business!WritesDecided
  <2> QED
    BY <1>1, <1>3 DEF Business!ReviewIInv, Business!OneHandlerEach, Business!WritesDecided, b
<1>11. Business!OneHandlerEach' /\ Business!OnlySubmits'
  BY <1>4, <1>8, NoneAssumption DEF Business!ReviewIInv, Business!ReviewTypeOK, Business!OneHandlerEach, Business!OnlySubmits
<1>12. Business!ReviewsDecide'
  BY <1>1, <1>3, <1>4, <1>6 DEF Business!ReviewIInv, Business!ReviewTypeOK, Business!ReviewsDecide, Business!Decided
<1>13. Business!OneSubmission'
  <2>1. Business!Pending' \subseteq Business!Pending \cup (IF req[s].op \in Business!Submits THEN {b} ELSE {})
    BY <1>1, <1>3, <1>7, PendingRows DEF Business!ReviewIInv, Business!ReviewTypeOK
  <2>2. "idle" \notin Business!OwnerOps /\ Business!Submits \subseteq Business!OwnerOps
    BY DEF Business!Submits, Business!OwnerOps
  <2> QED
    BY <1>4, <1>8, <2>1, <2>2 DEF Business!ReviewIInv, Business!ReviewTypeOK, Business!OneSubmission
<1> QED
  BY <1>9, <1>10, <1>11, <1>12, <1>13 DEF Business!ReviewIInv

LEMMA ReviewNext ==
    ASSUME Business!ReviewIInv, Business!ReviewNext
    PROVE  Business!ReviewIInv'
<1> USE DEF Business!Decided
<1>1. ASSUME NEW s \in Sessions, Business!Commit(s) \/ Business!Abandon(s) PROVE Business!ReviewIInv'
  BY <1>1, ReviewEnds
<1>2. ASSUME NEW s \in Sessions, NEW b \in Businesses, Business!OwnerNext(s, b) PROVE Business!ReviewIInv'
  <2> USE DEF Business!OwnerOps, Business!AdminOps, Business!Admins, Business!Submits
  <2>1. row[b] \in Business!Rows /\ (b \notin reviewed => Business!Decided(row[b]))
    BY DEF Business!ReviewIInv, Business!ReviewTypeOK, Business!ReviewsDecide
  <2>2. CASE Business!Create(s, b)
    <3>1. Business!Decided(Business!Assigned("create", row[b], "none"))
      BY <2>2 DEF Business!Create, Business!Fresh, Business!Assigned, Business!NoRow
    <3> QED
      BY <2>2, <3>1, ReviewBegins DEF Business!Create, Business!NoOtherPendingReview
  <2>3. CASE Business!Resubmit(s, b)
    <3>1. b \notin reviewed => Business!Decided(Business!Assigned("resubmit", row[b], "none"))
      BY <2>1, <2>3 DEF Business!Resubmit, Business!Assigned, Business!Rows
    <3> QED
      BY <2>3, <3>1, ReviewBegins DEF Business!Resubmit, Business!NoOtherPendingReview
  <2>4. CASE Business!Activate(s, b)
    <3>1. b \notin reviewed => Business!Decided(Business!Assigned("activate", row[b], "none"))
      BY <2>1, <2>4 DEF Business!Activate, Business!CanPublish, Business!Assigned, Business!Rows
    <3> QED
      BY <2>4, <3>1, ReviewBegins DEF Business!Activate
  <2>5. CASE Business!Deactivate(s, b)
    <3>1. b \notin reviewed => Business!Decided(Business!Assigned("deactivate", row[b], "none"))
      BY <2>1 DEF Business!Assigned, Business!Rows
    <3> QED
      BY <2>5, <3>1, ReviewBegins DEF Business!Deactivate
  <2>6. CASE Business!Delete(s, b)
    <3>1. b \notin reviewed => Business!Decided(Business!Assigned("delete", row[b], "none"))
      BY <2>1 DEF Business!Assigned
    <3> QED
      BY <2>6, <3>1, ReviewBegins DEF Business!Delete
  <2> QED
    BY <1>2, <2>2, <2>3, <2>4, <2>5, <2>6 DEF Business!OwnerNext
<1>3. ASSUME NEW s \in Sessions, NEW b \in Businesses, Business!AdminNext(s, b) PROVE Business!ReviewIInv'
  <2> USE DEF Business!OwnerOps, Business!AdminOps, Business!Admins, Business!Submits
  <2>1. row[b] \in Business!Rows /\ (b \notin reviewed => Business!Decided(row[b]))
    BY DEF Business!ReviewIInv, Business!ReviewTypeOK, Business!ReviewsDecide
  <2>2. CASE Business!CreateForOwner(s, b)
    <3>1. Business!Decided(Business!Assigned("create_for_owner", row[b], "super"))
      BY <2>2 DEF Business!CreateForOwner, Business!Fresh, Business!Assigned, Business!NoRow
    <3> QED
      BY <2>2, <3>1, ReviewBegins DEF Business!CreateForOwner
  <2>3. CASE Business!Escalate(s, b)
    <3>1. row[b].verification = "PENDING"
      BY <2>3, PendingRows DEF Business!Escalate
    <3>2. b \notin reviewed => Business!Decided(Business!Assigned("escalate", row[b], "native"))
      BY <2>1, <3>1 DEF Business!Assigned, Business!Rows
    <3> QED
      BY <2>3, <3>2, ReviewBegins DEF Business!Escalate
  <2>4. ASSUME NEW op \in {"approve", "reject"}, NEW admin \in Business!Admins, Business!Resolve(s, b, op, admin)
        PROVE  Business!ReviewIInv'
    <3>1. Business!Decided(Business!Assigned(op, row[b], admin))
      BY <2>1, <2>4 DEF Business!Resolve, Business!Resolvable, Business!Assigned, Business!Rows
    <3> QED
      BY <2>4, <3>1, ReviewBegins DEF Business!Resolve
  <2> QED
    BY <1>3, <2>2, <2>3, <2>4 DEF Business!AdminNext
<1>4. ASSUME NEW g \in BOOLEAN, Business!Grant(g) PROVE Business!ReviewIInv'
  <2>1. UNCHANGED <<row, req, reviewed>> /\ granted' \in BOOLEAN /\ excused' \in BOOLEAN /\ (~excused' => ~excused /\ ~granted')
    BY <1>4 DEF Business!Grant, Business!ReviewIInv, Business!ReviewTypeOK
  <2>2. Business!ReviewTypeOK' /\ Business!WritesDecided' /\ Business!OneHandlerEach' /\ Business!OnlySubmits'
    BY <2>1 DEF Business!ReviewIInv, Business!ReviewTypeOK, Business!WritesDecided, Business!OneHandlerEach, Business!OnlySubmits
  <2>3. Business!OneSubmission' /\ Business!ReviewsDecide'
    BY <2>1, PendingRows DEF Business!ReviewIInv, Business!OneSubmission, Business!ReviewsDecide
  <2> QED
    BY <2>2, <2>3 DEF Business!ReviewIInv
<1> QED
  BY <1>1, <1>2, <1>3, <1>4 DEF Business!ReviewNext

\* One element at most, and so no more than one of them.
LEMMA ReviewPromises == Business!ReviewIInv => Business!ReviewsDecide /\ Business!OnePendingReview
<1> SUFFICES ASSUME Business!ReviewIInv, ~excused PROVE Business!Cardinality(Business!Pending) <= 1
  BY DEF Business!ReviewIInv, Business!OnePendingReview
<1>1. \A b, c \in Business!Pending : b = c
  BY DEF Business!ReviewIInv, Business!OneSubmission
<1>2. Business!Pending = {} \/ \E b : Business!Pending = {b}
  BY <1>1
<1>3. Cardinality(Business!Pending) \in {0, 1}
  BY <1>2, FS_EmptySet, FS_Singleton
<1> QED
  BY <1>3 DEF Business!Cardinality, Cardinality

----------------------------------------------------------------------------
(* The switch of a business's plugin: one handler's step to or from the    *)
(* writing of the log is what changes the number of those still to write.  *)

Waiting(op) == {s \in Sessions : req[s] = [op |-> op, at |-> "log"]}

LEMMA ToLogCounts ==
    ASSUME NEW op
    PROVE  /\ Business!ToLog(op) = Cardinality(Waiting(op)) /\ Business!ToLog(op) \in Nat
           /\ Business!ToLog(op)' = Cardinality(Waiting(op)') /\ Business!ToLog(op)' \in Nat
<1>1. Waiting(op) \in SUBSET Sessions /\ Waiting(op)' \in SUBSET Sessions
  BY DEF Waiting
<1>2. Cardinality(Waiting(op)) \in Nat /\ Cardinality(Waiting(op)') \in Nat
  BY <1>1, FiniteAssumption, FS_Subset, FS_CardinalityType
<1> QED
  BY <1>2 DEF Business!ToLog, Business!Cardinality, Cardinality, Waiting

LEMMA ToLogFollows ==
    ASSUME Business!PluginTypes, NEW s \in Sessions, NEW handler, req' = [req EXCEPT ![s] = handler], NEW op
    PROVE  Business!ToLog(op)' = Business!ToLog(op) + (IF handler = [op |-> op, at |-> "log"] THEN 1 ELSE 0)
                                                    - (IF req[s] = [op |-> op, at |-> "log"] THEN 1 ELSE 0)
<1> DEFINE others == Waiting(op) \ {s}
<1>1. /\ Waiting(op)' = IF handler = [op |-> op, at |-> "log"] THEN others \cup {s} ELSE others
      /\ s \in Waiting(op) <=> req[s] = [op |-> op, at |-> "log"]
  BY DEF Waiting, Business!PluginTypes
<1>2. IsFiniteSet(Waiting(op)) /\ Cardinality(Waiting(op)) \in Nat
  BY FiniteAssumption, FS_Subset, FS_CardinalityType DEF Waiting
<1>3. /\ IsFiniteSet(others) /\ Cardinality(others) \in Nat
      /\ Cardinality(others) = IF s \in Waiting(op) THEN Cardinality(Waiting(op)) - 1 ELSE Cardinality(Waiting(op))
  BY <1>2, FS_RemoveElement, FS_CardinalityType
<1>4. Cardinality(others \cup {s}) = Cardinality(others) + 1
  BY <1>3, FS_AddElement
<1>5. Cardinality(Waiting(op)) = Cardinality(others) + (IF req[s] = [op |-> op, at |-> "log"] THEN 1 ELSE 0)
  BY <1>1, <1>2, <1>3
<1>6. Cardinality(Waiting(op)') = Cardinality(others) + (IF handler = [op |-> op, at |-> "log"] THEN 1 ELSE 0)
  BY <1>1, <1>3, <1>4
<1> HIDE DEF others
<1> QED
  BY <1>3, <1>5, <1>6, ToLogCounts

\* What a handler's step makes of the two numbers.
LEMMA HandlerSteps ==
    ASSUME Business!PluginTypes, NEW s \in Sessions, NEW op, NEW at, req' = [req EXCEPT ![s] = [op |-> op, at |-> at]]
    PROVE  \A o \in {"enable", "disable"} :
             /\ at = "log" /\ op = o /\ req[s].at # "log" => Business!ToLog(o)' = Business!ToLog(o) + 1
             /\ at # "log" /\ req[s] = [op |-> o, at |-> "log"] => Business!ToLog(o)' = Business!ToLog(o) - 1
             /\ (at # "log" \/ op # o) /\ (req[s].at # "log" \/ req[s].op # o) => Business!ToLog(o)' = Business!ToLog(o)
<1> TAKE o \in {"enable", "disable"}
<1>1. /\ Business!ToLog(o) \in Nat
      /\ Business!ToLog(o)' = Business!ToLog(o) + (IF [op |-> op, at |-> at] = [op |-> o, at |-> "log"] THEN 1 ELSE 0)
                                                - (IF req[s] = [op |-> o, at |-> "log"] THEN 1 ELSE 0)
  BY ToLogCounts, ToLogFollows
<1>2. /\ [op |-> op, at |-> at] = [op |-> o, at |-> "log"] <=> op = o /\ at = "log"
      /\ req[s] = [op |-> o, at |-> "log"] <=> req[s].op = o /\ req[s].at = "log"
  BY DEF Business!PluginTypes
<1> QED
  BY <1>1, <1>2

\* A step by which nothing is logged, and nothing to be logged later.
LEMMA NothingLogged ==
    ASSUME Business!PluginTypes, Business!ChangesLoggedOnce, removed' = removed, crashed' = crashed, logged' = logged, row' = row,
           NEW s \in Sessions, NEW op, NEW at \in {"idle", "find", "insert", "reread", "write"},
           req' = [req EXCEPT ![s] = [op |-> op, at |-> at]], ~removed => req[s].at # "log"
    PROVE  Business!ChangesLoggedOnce'
<1> SUFFICES ASSUME ~removed, ~crashed
             PROVE  logged + Business!ToLog("enable")' - Business!ToLog("disable")' = IF row = "ACTIVE" THEN 1 ELSE 0
  BY DEF Business!ChangesLoggedOnce
<1>1. Business!ToLog("enable")' = Business!ToLog("enable") /\ Business!ToLog("disable")' = Business!ToLog("disable")
  BY HandlerSteps
<1> QED
  BY <1>1 DEF Business!ChangesLoggedOnce

\* A step that changes the row, the change to be logged later.
LEMMA ChangeCommitted ==
    ASSUME Business!PluginTypes, Business!ChangesLoggedOnce, removed' = removed, crashed' = crashed, logged' = logged,
           NEW s \in Sessions, NEW op \in {"enable", "disable"}, req[s].at # "log",
           req' = [req EXCEPT ![s] = [op |-> op, at |-> "log"]],
           op = "enable" => row # "ACTIVE" /\ row' = "ACTIVE",
           op = "disable" => (~removed => row = "ACTIVE") /\ row' = "DISABLED"
    PROVE  Business!ChangesLoggedOnce'
<1> SUFFICES ASSUME ~removed, ~crashed
             PROVE  logged + Business!ToLog("enable")' - Business!ToLog("disable")' = IF row' = "ACTIVE" THEN 1 ELSE 0
  BY DEF Business!ChangesLoggedOnce
<1>1. /\ Business!ToLog("enable") \in Nat /\ Business!ToLog("disable") \in Nat /\ logged \in Int
      /\ logged + Business!ToLog("enable") - Business!ToLog("disable") = IF row = "ACTIVE" THEN 1 ELSE 0
  BY ToLogCounts DEF Business!ChangesLoggedOnce, Business!PluginTypes
<1>2. CASE op = "enable"
  <2>1. Business!ToLog("enable")' = Business!ToLog("enable") + 1 /\ Business!ToLog("disable")' = Business!ToLog("disable")
    BY <1>2, HandlerSteps
  <2> QED
    BY <1>1, <1>2, <2>1
<1>3. CASE op = "disable"
  <2>1. Business!ToLog("disable")' = Business!ToLog("disable") + 1 /\ Business!ToLog("enable")' = Business!ToLog("enable")
    BY <1>3, HandlerSteps
  <2> QED
    BY <1>1, <1>3, <2>1
<1> QED
  BY <1>2, <1>3

\* The change is logged.
LEMMA ChangeLogged ==
    ASSUME Business!PluginTypes, Business!ChangesLoggedOnce, removed' = removed, crashed' = crashed, row' = row,
           NEW s \in Sessions, req[s].at = "log", req[s].op \in {"enable", "disable"},
           NEW op, NEW at, at # "log", req' = [req EXCEPT ![s] = [op |-> op, at |-> at]],
           logged' = IF req[s].op = "enable" THEN logged + 1 ELSE logged - 1
    PROVE  Business!ChangesLoggedOnce'
<1> SUFFICES ASSUME ~removed, ~crashed
             PROVE  logged' + Business!ToLog("enable")' - Business!ToLog("disable")' = IF row = "ACTIVE" THEN 1 ELSE 0
  BY DEF Business!ChangesLoggedOnce
<1>1. /\ Business!ToLog("enable") \in Nat /\ Business!ToLog("disable") \in Nat /\ logged \in Int
      /\ logged + Business!ToLog("enable") - Business!ToLog("disable") = IF row = "ACTIVE" THEN 1 ELSE 0
  BY ToLogCounts DEF Business!ChangesLoggedOnce, Business!PluginTypes
<1>2. \A o \in {"enable", "disable"} : req[s].op = o => req[s] = [op |-> o, at |-> "log"]
  BY DEF Business!PluginTypes
<1>3. \A o \in {"enable", "disable"} :
        /\ req[s].op = o => Business!ToLog(o)' = Business!ToLog(o) - 1
        /\ req[s].op # o => Business!ToLog(o)' = Business!ToLog(o)
  BY <1>2, HandlerSteps
<1>4. "enable" # "disable"
  OBVIOUS
<1>5. CASE req[s].op = "enable"
  BY <1>1, <1>3, <1>4, <1>5
<1>6. CASE req[s].op = "disable"
  BY <1>1, <1>3, <1>4, <1>6
<1> QED
  BY <1>5, <1>6

\* Where a handler's step leaves it, and the row.
LEMMA HandlerPlaced ==
    ASSUME Business!PluginTypes, Business!RowFound, removed' = removed,
           NEW s \in Sessions, NEW op \in {"none", "enable", "disable"},
           NEW at \in {"idle", "find", "insert", "reread", "write", "log"},
           req' = [req EXCEPT ![s] = [op |-> op, at |-> at]],
           at # "idle" => op \in {"enable", "disable"}, at = "insert" => op = "enable",
           at \in {"reread", "write"} /\ ~removed => row' # "NONE",
           ~removed /\ row # "NONE" => row' # "NONE"
    PROVE  Business!RowFound'
  BY DEF Business!RowFound, Business!PluginTypes

LEMMA SwitchNext ==
    ASSUME Business!PluginIInv, Business!PluginNext
    PROVE  Business!PluginIInv'
<1> USE DEF Business!NoHandler
<1>1. Business!PluginTypes /\ Business!RowFound /\ Business!ChangesLoggedOnce
  BY DEF Business!PluginIInv
<1>2. SUFFICES Business!PluginTypes' /\ Business!RowFound' /\ Business!ChangesLoggedOnce'
  BY DEF Business!PluginIInv
<1>3. ASSUME NEW s \in Sessions, NEW op \in {"enable", "disable"}, Business!Ask(s, op)
      PROVE  Business!PluginTypes' /\ Business!RowFound' /\ Business!ChangesLoggedOnce'
  <2>1. Business!PluginTypes' /\ req[s].at # "log"
    BY <1>1, <1>3 DEF Business!Ask, Business!PluginTypes
  <2>2. req' = [req EXCEPT ![s] = [op |-> op, at |-> "find"]] /\ UNCHANGED <<row, removed, logged, crashed>>
    BY <1>3 DEF Business!Ask
  <2>3. Business!ChangesLoggedOnce'
    BY <1>1, <2>1, <2>2, NothingLogged
  <2> QED
    BY <1>1, <2>1, <2>2, <2>3, HandlerPlaced
<1>4. ASSUME NEW s \in Sessions, Business!FindRow(s)
      PROVE  Business!PluginTypes' /\ Business!RowFound' /\ Business!ChangesLoggedOnce'
  <2>1. req[s].at # "log" /\ req[s].op \in {"enable", "disable"} /\ row # "NONE"
    BY <1>1, <1>4 DEF Business!FindRow, Business!PluginTypes, Business!RowFound
  <2>2. /\ req' = [req EXCEPT ![s] = [op |-> req[s].op, at |-> "write"]] /\ lock' = s
        /\ UNCHANGED <<row, removed, logged, crashed>>
    <3>1. Business!Goto(s, "write") /\ lock' = s /\ UNCHANGED <<row, removed, logged, crashed>>
      BY <1>4 DEF Business!FindRow
    <3>2. req' = [req EXCEPT ![s].at = "write"]
      BY <3>1 DEF Business!Goto
    <3>3. /\ req \in [Sessions -> [op: {"none", "enable", "disable"},
                                   at: {"idle", "find", "insert", "reread", "write", "log"}]]
          /\ [req[s] EXCEPT !.at = "write"] = [op |-> req[s].op, at |-> "write"]
      BY <1>1 DEF Business!PluginTypes
    <3>4. req' = [req EXCEPT ![s] = [op |-> req[s].op, at |-> "write"]]
      BY <3>2, <3>3
    <3> QED
      BY <3>1, <3>4
  <2>3. Business!PluginTypes'
    BY <1>1, <2>1, <2>2 DEF Business!PluginTypes
  <2>4. Business!ChangesLoggedOnce'
    BY <1>1, <2>1, <2>2, NothingLogged
  <2> QED
    BY <1>1, <2>1, <2>2, <2>3, <2>4, HandlerPlaced
<1>5. ASSUME NEW s \in Sessions, Business!FindNothing(s)
      PROVE  Business!PluginTypes' /\ Business!RowFound' /\ Business!ChangesLoggedOnce'
  <2>1. Business!PluginTypes' /\ req[s].at # "log" /\ UNCHANGED <<row, removed, logged, crashed>>
    BY <1>1, <1>5 DEF Business!FindNothing, Business!Goto, Business!End, Business!PluginTypes
  <2>2. CASE req[s].op = "enable"
    <3>1. req' = [req EXCEPT ![s] = [op |-> "enable", at |-> "insert"]]
      BY <1>1, <1>5, <2>2 DEF Business!FindNothing, Business!Goto, Business!PluginTypes
    <3>2. Business!ChangesLoggedOnce'
      BY <1>1, <2>1, <3>1, NothingLogged
    <3> QED
      BY <1>1, <2>1, <3>1, <3>2, HandlerPlaced
  <2>3. CASE req[s].op # "enable"
    <3>1. req' = [req EXCEPT ![s] = [op |-> "none", at |-> "idle"]]
      BY <1>5, <2>3 DEF Business!FindNothing, Business!End
    <3>2. Business!ChangesLoggedOnce'
      BY <1>1, <2>1, <3>1, NothingLogged
    <3> QED
      BY <1>1, <2>1, <3>1, <3>2, HandlerPlaced
  <2> QED
    BY <2>2, <2>3
<1>6. ASSUME NEW s \in Sessions, Business!Insert(s)
      PROVE  Business!PluginTypes' /\ Business!RowFound' /\ Business!ChangesLoggedOnce'
  <2>1. /\ Business!PluginTypes' /\ req[s].at # "log" /\ req[s].op = "enable"
        /\ UNCHANGED <<removed, logged, crashed>>
    BY <1>1, <1>6 DEF Business!Insert, Business!Goto, Business!PluginTypes, Business!RowFound
  <2>2. CASE row = "NONE"
    <3>1. req' = [req EXCEPT ![s] = [op |-> "enable", at |-> "log"]] /\ row' = "ACTIVE"
      BY <1>1, <1>6, <2>1, <2>2 DEF Business!Insert, Business!Goto, Business!PluginTypes
    <3>2. Business!ChangesLoggedOnce'
      BY <1>1, <2>1, <2>2, <3>1, ChangeCommitted
    <3> QED
      BY <1>1, <2>1, <3>1, <3>2, HandlerPlaced
  <2>3. CASE row # "NONE"
    <3>1. req' = [req EXCEPT ![s] = [op |-> "enable", at |-> "reread"]] /\ row' = row
      BY <1>1, <1>6, <2>1, <2>3 DEF Business!Insert, Business!Goto, Business!PluginTypes
    <3>2. Business!ChangesLoggedOnce'
      BY <1>1, <2>1, <3>1, NothingLogged
    <3> QED
      BY <1>1, <2>1, <2>3, <3>1, <3>2, HandlerPlaced
  <2> QED
    BY <2>2, <2>3
<1>7. ASSUME NEW s \in Sessions, Business!CommitStatus(s)
      PROVE  Business!PluginTypes' /\ Business!RowFound' /\ Business!ChangesLoggedOnce'
  <2>1. /\ Business!PluginTypes' /\ req[s].at # "log" /\ req[s].op \in {"enable", "disable"}
        /\ ~removed => row # "NONE"
        /\ UNCHANGED <<removed, logged, crashed>>
    BY <1>1, <1>7 DEF Business!CommitStatus, Business!Changes, Business!Target, Business!Goto, Business!End,
                      Business!PluginTypes, Business!RowFound
  <2>2. CASE Business!Changes(s)
    <3>1. /\ req' = [req EXCEPT ![s] = [op |-> req[s].op, at |-> "log"]]
          /\ row # row' /\ row' = IF req[s].op = "enable" THEN "ACTIVE" ELSE "DISABLED"
      BY <1>1, <1>7, <2>2 DEF Business!CommitStatus, Business!Changes, Business!Target, Business!Goto, Business!PluginTypes
    <3>2. /\ req[s].op = "enable" => row # "ACTIVE" /\ row' = "ACTIVE"
          /\ req[s].op = "disable" => (~removed => row = "ACTIVE") /\ row' = "DISABLED"
      BY <1>1, <2>1, <3>1 DEF Business!PluginTypes
    <3>3. Business!ChangesLoggedOnce'
      BY <1>1, <2>1, <3>1, <3>2, ChangeCommitted
    <3> QED
      BY <1>1, <2>1, <3>1, <3>3, HandlerPlaced
  <2>3. CASE ~Business!Changes(s)
    <3>1. req' = [req EXCEPT ![s] = [op |-> "none", at |-> "idle"]] /\ row' = row
      BY <1>7, <2>3 DEF Business!CommitStatus, Business!End
    <3>2. Business!ChangesLoggedOnce'
      BY <1>1, <2>1, <3>1, NothingLogged
    <3> QED
      BY <1>1, <2>1, <3>1, <3>2, HandlerPlaced
  <2> QED
    BY <2>2, <2>3
<1>8. ASSUME NEW s \in Sessions, Business!WriteLog(s)
      PROVE  Business!PluginTypes' /\ Business!RowFound' /\ Business!ChangesLoggedOnce'
  <2>1. Business!PluginTypes' /\ req[s].at = "log" /\ req[s].op \in {"enable", "disable"}
    BY <1>1, <1>8 DEF Business!WriteLog, Business!End, Business!PluginTypes, Business!RowFound
  <2>2. /\ req' = [req EXCEPT ![s] = [op |-> "none", at |-> "idle"]] /\ UNCHANGED <<row, removed, crashed>>
        /\ logged' = IF req[s].op = "enable" THEN logged + 1 ELSE logged - 1
    BY <1>8 DEF Business!WriteLog, Business!End
  <2>3. Business!ChangesLoggedOnce'
    BY <1>1, <2>1, <2>2, ChangeLogged
  <2> QED
    BY <1>1, <2>1, <2>2, <2>3, HandlerPlaced
<1>9. ASSUME NEW s \in Sessions, Business!AbandonSwitch(s)
      PROVE  Business!PluginTypes' /\ Business!RowFound' /\ Business!ChangesLoggedOnce'
  <2>1. Business!PluginTypes' /\ (~removed => req[s].at # "log")
    BY <1>1, <1>9 DEF Business!AbandonSwitch, Business!End, Business!PluginTypes
  <2>2. req' = [req EXCEPT ![s] = [op |-> "none", at |-> "idle"]] /\ UNCHANGED <<row, removed, logged, crashed>>
    BY <1>9 DEF Business!AbandonSwitch, Business!End
  <2>3. Business!ChangesLoggedOnce'
    BY <1>1, <2>1, <2>2, NothingLogged
  <2> QED
    BY <1>1, <2>1, <2>2, <2>3, HandlerPlaced
<1>10. CASE Business!RemovePlugin
  BY <1>1, <1>10 DEF Business!RemovePlugin, Business!PluginTypes, Business!RowFound, Business!ChangesLoggedOnce
<1>11. CASE Business!Restart
  <2>1. /\ Business!PluginTypes' /\ Business!RowFound' /\ UNCHANGED <<row, removed, logged>>
        /\ ~crashed' => ~crashed /\ \A s \in Sessions : req[s].at # "log" /\ req'[s].at # "log"
    BY <1>1, <1>11 DEF Business!Restart, Business!PluginTypes, Business!RowFound
  <2> SUFFICES ASSUME ~crashed', ~removed
               PROVE  Business!ToLog("enable")' = Business!ToLog("enable") /\ Business!ToLog("disable")' = Business!ToLog("disable")
    BY <1>1, <2>1 DEF Business!ChangesLoggedOnce
  <2>2. \A op : Waiting(op) = {} /\ Waiting(op)' = {}
    BY <2>1 DEF Waiting
  <2> QED
    BY <2>2, ToLogCounts
<1> QED
  BY <1>3, <1>4, <1>5, <1>6, <1>7, <1>8, <1>9, <1>10, <1>11 DEF Business!PluginNext

\* The changes of a business's plugin are in the activity log once each
\* (BusinessPluginService); businesses are active and escalated reviews resolved
\* as verified, and an owner's first review is his only one (BusinessService,
\* BusinessVerificationService), however many handlers there are.
THEOREM BusinessesConsistentAlways == Spec => []BusinessesConsistent
<1> DEFINE Inv == /\ scenario = "switch" => Business!PluginIInv
                  /\ scenario = "review" => Business!ReviewIInv
<1>1. Init => Inv
  <2>1. ASSUME Business!PluginInit PROVE Business!PluginIInv
    <3>1. \A op : Waiting(op) = {}
      BY <2>1 DEF Business!PluginInit, Business!NoHandler, Waiting
    <3>2. Business!ToLog("enable") = 0 /\ Business!ToLog("disable") = 0
      BY <3>1, ToLogCounts, FS_EmptySet
    <3>3. \A s \in Sessions : req[s] = Business!NoHandler
      BY <2>1 DEF Business!PluginInit
    <3>4. Business!NoHandler.at = "idle" /\ Business!NoHandler.op = "none"
      BY DEF Business!NoHandler
    <3>5. Business!PluginTypes
      <4>1. req \in [Sessions -> [op: {"none", "enable", "disable"},
                                  at: {"idle", "find", "insert", "reread", "write", "log"}]]
        BY <2>1 DEF Business!PluginInit, Business!NoHandler
      <4>2. row = "NONE" /\ removed = FALSE /\ crashed = FALSE /\ lock = NoSession /\ logged = 0
        BY <2>1 DEF Business!PluginInit
      <4>3. removed \in BOOLEAN /\ crashed \in BOOLEAN /\ lock \in Sessions \cup {NoSession}
        BY <4>2, Zenon
      <4>4. row \in {"NONE", "ACTIVE", "DISABLED"} /\ logged \in Int
        BY <4>2
      <4> QED
        BY <4>1, <4>3, <4>4, Zenon DEF Business!PluginTypes
    <3>6. Business!RowFound
      BY <3>3, <3>4 DEF Business!RowFound
    <3> QED
      BY <2>1, <3>2, <3>5, <3>6 DEF Business!PluginIInv, Business!PluginInit, Business!ChangesLoggedOnce
  <2>2. ASSUME Business!ReviewInit PROVE Business!ReviewIInv
    <3>1. /\ DOMAIN <<>> = {} /\ Business!Written(<<>>, Business!NoRow) = Business!NoRow
          /\ Business!NoRow \in Business!Rows
      BY DEF Business!Written, Business!NoRow, Business!Rows, Business!VerificationStatus, Business!Admins, Business!BusinessStatus
    <3>2. \A s \in Sessions : req[s] = Business!Idle
      BY <2>2 DEF Business!ReviewInit
    <3>3. Business!Idle.op = "idle" /\ Business!Idle.business = NoBusiness /\ Business!Idle.writes = <<>>
      BY DEF Business!Idle
    <3>4. Business!ReviewTypeOK
      BY <2>2, <3>1, <3>2, <3>3 DEF Business!ReviewInit, Business!ReviewTypeOK
    <3>5. Business!Pending = {}
      BY <2>2, PendingRows DEF Business!ReviewInit, Business!NoRow
    <3>6. Business!WritesDecided /\ Business!OneHandlerEach /\ Business!OneSubmission /\ Business!OnlySubmits
      BY <2>2, <3>1, <3>2, <3>3, <3>5, NoneAssumption
         DEF Business!ReviewInit, Business!WritesDecided, Business!OneHandlerEach, Business!OneSubmission, Business!OnlySubmits,
             Business!OwnerOps
    <3>7. Business!ReviewsDecide
      BY <2>2 DEF Business!ReviewInit, Business!ReviewsDecide, Business!NoRow
    <3> QED
      BY <3>4, <3>6, <3>7 DEF Business!ReviewIInv
  <2> QED
    BY <2>1, <2>2 DEF Init
<1>2. Inv /\ [Next]_vars => Inv'
  <2> SUFFICES ASSUME Inv, [Next]_vars PROVE Inv'
    OBVIOUS
  <2>1. CASE Next
    BY <2>1, SwitchNext, ReviewNext DEF Next
  <2>2. CASE UNCHANGED vars
    <3>1. UNCHANGED <<scenario, req, row, lock, removed, crashed, logged, granted, reviewed, excused>>
      BY <2>2 DEF vars, switchVars, reviewVars
    <3>2. Business!PluginIInv => Business!PluginIInv'
      <4>1. \A op : Business!ToLog(op)' = Business!ToLog(op)
        BY <3>1 DEF Business!ToLog
      <4> QED
        BY <3>1, <4>1 DEF Business!PluginIInv, Business!PluginTypes, Business!RowFound, Business!ChangesLoggedOnce
    <3>3. Business!ReviewIInv => Business!ReviewIInv'
      BY <3>1, PendingRows
         DEF Business!ReviewIInv, Business!ReviewTypeOK, Business!WritesDecided, Business!OneHandlerEach,
             Business!OneSubmission, Business!OnlySubmits, Business!ReviewsDecide
    <3> QED
      BY <3>1, <3>2, <3>3
  <2> QED
    BY <2>1, <2>2
<1>3. Inv => BusinessesConsistent
  BY ReviewPromises DEF BusinessesConsistent, Business!PluginIInv
<1> QED
  BY <1>1, <1>2, <1>3, PTL DEF Spec

----------------------------------------------------------------------------
\* A registered plugin never goes back to an older version: PluginLifecycle's
\* invariant, of the plugins of this composition.
THEOREM VersionsRiseAlways == Spec => VersionsRise
<1> DEFINE Inv == /\ scenario = "two_plugins" => TwoPlugins!IInv
                  /\ scenario = "one_plugin" => OnePlugin!IInv
           Rise == /\ scenario = "two_plugins" => TwoPlugins!VersionRise
                   /\ scenario = "one_plugin" => OnePlugin!VersionRise
<1>0. /\ {"a", "b"} # {} /\ {"b"} # {} /\ 2 \in Nat
      /\ NoSession \notin {"session"} /\ NoSession \notin Sessions
  BY NoneAssumption
<1>1. Init => Inv
  <2>1. CASE scenario = "two_plugins"
    BY <1>0, <2>1, TwoPlugins!StartsConsistent DEF Init
  <2>2. CASE scenario = "one_plugin"
    BY <1>0, <2>2, OnePlugin!StartsConsistent DEF Init
  <2> QED
    BY <2>1, <2>2
<1>2. Inv /\ [Next]_vars => Inv' /\ Rise
  <2> SUFFICES ASSUME Inv, [Next]_vars PROVE Inv' /\ Rise
    OBVIOUS
  <2>1. CASE Next
    <3>1. UNCHANGED scenario
      BY <2>1 DEF Next
    <3>2. CASE scenario = "two_plugins"
      BY <1>0, <2>1, <3>1, <3>2, TwoPlugins!LifecycleSteps DEF Next
    <3>3. CASE scenario = "one_plugin"
      BY <1>0, <2>1, <3>1, <3>3, OnePlugin!LifecycleSteps DEF Next
    <3> QED
      BY <3>1, <3>2, <3>3
  <2>2. CASE UNCHANGED vars
    <3>1. UNCHANGED scenario /\ UNCHANGED TwoPlugins!vars /\ UNCHANGED OnePlugin!vars
      BY <2>2 DEF vars, pluginsVars, TwoPlugins!vars, OnePlugin!vars
    <3> QED
      BY <1>0, <3>1, TwoPlugins!LifecycleSteps, OnePlugin!LifecycleSteps
  <2> QED
    BY <2>1, <2>2
<1> QED
  BY <1>1, <1>2, PTL DEF Spec, VersionsRise

----------------------------------------------------------------------------
(* An event: what the proof needs of its handlers is that one that         *)
(* overlapped with none of its kind writes over what it read, and that no  *)
(* two have the same new file.                                             *)

EventOps  == {"idle", "update", "cancel", "feature", "delete", "add", "remove"}
EventKind == {"schedule", "state", "images"}
EventHandlers ==
    [op: EventOps, at: {"idle", "save", "count", "write", "insert", "row", "file"},
     starts: 1..3 \cup {0}, ends: 1..3 \cup {0}, featured: BOOLEAN,
     left: 0..2, image: Images \cup {NoImage}]

LEMMA EventsByCardinality ==
    ASSUME NEW S
    PROVE  Event!Cardinality(S) = Cardinality(S)
  BY DEF Event!Cardinality, Cardinality

LEMMA EventImagesCounted ==
    ASSUME images \subseteq Images
    PROVE  /\ IsFiniteSet(images) /\ Cardinality(images) \in Nat
           /\ \A i : Cardinality(images \cup {i}) \in {Cardinality(images), Cardinality(images) + 1}
           /\ \A i : Cardinality(images \ {i}) \in Nat /\ Cardinality(images \ {i}) <= Cardinality(images)
<1>1. IsFiniteSet(images)
  BY FiniteAssumption, FS_Subset
<1>2. \A i : Cardinality(images \ {i}) \in Nat /\ Cardinality(images \ {i}) <= Cardinality(images)
  BY <1>1, FS_Subset, FS_CardinalityType
<1> QED
  BY <1>1, <1>2, FS_CardinalityType, FS_AddElement

LEMMA EventKinds ==
    /\ \A op \in EventOps : Event!Writes(op) \subseteq EventKind
    /\ Event!Writes("idle") = {} /\ Event!Writes("remove") = {}
    /\ Event!Writes("update") = {"schedule"} /\ Event!Writes("add") = {"images"}
    /\ \A op \in {"cancel", "feature", "delete"} : Event!Writes(op) = {"state"}
  BY DEF Event!Writes, EventOps, EventKind

LEMMA EventIdle ==
    /\ Event!Idle \in EventHandlers
    /\ Event!Idle.op = "idle" /\ Event!Idle.at = "idle" /\ Event!Idle.image = NoImage /\ Event!Idle.left = 0
  BY DEF Event!Idle, EventHandlers, EventOps, Event!Keep

LEMMA EventTypedReq ==
    Event!TypeOK <=>
        /\ event \in [status: {"SCHEDULED", "CANCELLED"}, featured: BOOLEAN, deleted: BOOLEAN,
                      starts: 1..3, ends: 1..3]
        /\ images \subseteq Images /\ files \subseteq Images
        /\ req \in [Sessions -> EventHandlers]
        /\ overlapped \subseteq EventKind /\ cut \in BOOLEAN
  BY DEF Event!TypeOK, EventHandlers, EventOps, EventKind, Event!Keep

\* A handler begins, if alone of its kind over the event as it is.
LEMMA EventBegins ==
    ASSUME Event!IInv, NEW s \in Sessions, NEW r \in EventHandlers, Event!Begin(s, r),
           r.at \in {"save", "count", "row"},
           r.at = "count" <=> r.op = "add", r.at = "row" <=> r.op = "remove",
           r.at = "save" => r.op \in {"update", "cancel", "feature", "delete"},
           r.op = "add" => r.left # 0,
           r.op = "update" => Event!Final(r.starts, event.starts) < Event!Final(r.ends, event.ends),
           r.op \in {"cancel", "feature", "delete"} => r.featured = event.featured,
           r.op = "feature" => Event!Scheduled,
           r.at = "row" => r.image \in images, r.at # "row" => r.image = NoImage
    PROVE  Event!IInv'
<1> DEFINE under == UNION {Event!Writes(req[t].op) : t \in Sessions}
<1>1. /\ req[s] = Event!Idle /\ req' = [req EXCEPT ![s] = r] /\ ~event.deleted
      /\ overlapped' = overlapped \cup (Event!Writes(r.op) \cap under)
      /\ UNCHANGED <<event, images, files, cut>>
  BY DEF Event!Begin
<1>2. Event!TypeOK /\ Event!Stages /\ Event!OneOfEachKind /\ Event!ReadsHold /\ Event!ImagesApart
  BY DEF Event!IInv
<1>3. req'[s] = r /\ (\A t \in Sessions \ {s} : req'[t] = req[t]) /\ req' \in [Sessions -> EventHandlers]
  BY <1>1, <1>2, EventTypedReq
<1>4. overlapped \subseteq overlapped' /\ overlapped' \subseteq EventKind
  BY <1>1, <1>2, EventTypedReq, EventKinds DEF EventHandlers
<1>5. Event!TypeOK'
  BY <1>1, <1>2, <1>3, <1>4, EventTypedReq DEF Event!TypeOK, EventHandlers, EventOps, EventKind, Event!Keep
<1>6. Event!Stages'
  BY <1>2, <1>3 DEF Event!Stages, EventHandlers
<1>7. Event!OneOfEachKind'
  <2>1. \A t \in Sessions \ {s} : Event!Writes(r.op) \cap Event!Writes(req[t].op) \subseteq overlapped'
    BY <1>1
  <2> HIDE DEF under
  <2> QED
    BY <1>2, <1>3, <1>4, <2>1 DEF Event!OneOfEachKind
<1>8. Event!ReadsHold'
  <2> SUFFICES ASSUME NEW t \in Sessions
               PROVE  /\ req'[t].op = "update" /\ "schedule" \notin overlapped' =>
                            Event!Final(req'[t].starts, event.starts) < Event!Final(req'[t].ends, event.ends)
                      /\ req'[t].op \in {"cancel", "feature", "delete"} /\ "state" \notin overlapped' =>
                            /\ req'[t].featured = event.featured
                            /\ req'[t].op = "feature" => Event!Scheduled /\ ~event.deleted
                      /\ req'[t].at \in {"write", "insert"} /\ "images" \notin overlapped' =>
                            Event!Cardinality(images) + req'[t].left <= 2
    BY <1>1 DEF Event!ReadsHold, Event!Final, Event!Scheduled
  <2>1. CASE t = s
    BY <1>1, <1>3, <2>1
  <2>2. CASE t # s
    BY <1>2, <1>3, <1>4, <2>2 DEF Event!ReadsHold
  <2> QED
    BY <2>1, <2>2
<1>9. Event!ImagesApart'
  BY <1>1, <1>2, <1>3, NoneAssumption, EventTypedReq DEF Event!ImagesApart
<1>10. Event!EventConsistent'
  BY <1>1, <1>4 DEF Event!IInv, Event!EventConsistent, Event!Scheduled
<1>11. Event!FilesKept'
  BY <1>1, <1>3, EventIdle DEF Event!IInv, Event!FilesKept
<1> QED
  BY <1>5, <1>6, <1>7, <1>8, <1>9, <1>10, <1>11 DEF Event!IInv

\* A handler ends without having changed anything.
LEMMA EventGivesUp ==
    ASSUME Event!IInv, NEW s \in Sessions, Event!Refuse(s) \/ Event!Crash(s)
    PROVE  Event!IInv'
<1>1. /\ req' = [req EXCEPT ![s] = Event!Idle] /\ cut' \in {cut, TRUE}
      /\ UNCHANGED <<event, images, files, overlapped>>
      /\ ~cut' => ~cut /\ req[s].at \notin {"insert", "file"}
  <2>1. CASE Event!Refuse(s)
    BY <2>1 DEF Event!Refuse, Event!End
  <2>2. CASE Event!Crash(s)
    BY <2>2 DEF Event!Crash, Event!End
  <2> QED
    BY <2>1, <2>2
<1>2. Event!TypeOK /\ Event!Stages /\ Event!OneOfEachKind /\ Event!ReadsHold /\ Event!ImagesApart
  BY DEF Event!IInv
<1>3. req'[s] = Event!Idle /\ (\A t \in Sessions \ {s} : req'[t] = req[t]) /\ req' \in [Sessions -> EventHandlers]
  BY <1>1, <1>2, EventTypedReq, EventIdle
<1>4. Event!TypeOK'
  <2>1. cut' \in BOOLEAN
    BY <1>1, <1>2 DEF Event!TypeOK
  <2> QED
    BY <1>1, <1>2, <1>3, <2>1 DEF Event!TypeOK, EventHandlers, EventOps, EventKind, Event!Keep
<1>5. Event!Stages'
  BY <1>2, <1>3, EventIdle DEF Event!Stages
<1>6. Event!OneOfEachKind'
  BY <1>1, <1>2, <1>3, EventIdle, EventKinds DEF Event!OneOfEachKind
<1>7. Event!ReadsHold'
  BY <1>1, <1>2, <1>3, EventIdle DEF Event!ReadsHold, Event!Scheduled, Event!Final
<1>8. Event!ImagesApart'
  BY <1>1, <1>2, <1>3, EventIdle, NoneAssumption DEF Event!ImagesApart
<1>9. Event!EventConsistent'
  BY <1>1 DEF Event!IInv, Event!EventConsistent, Event!Scheduled
<1>10. Event!FilesKept'
  <2>1. CASE cut'
    BY <2>1 DEF Event!FilesKept
  <2>2. CASE ~cut'
    BY <1>1, <1>3, <2>2, EventIdle DEF Event!IInv, Event!FilesKept
  <2> QED
    BY <2>1, <2>2
<1> QED
  BY <1>4, <1>5, <1>6, <1>7, <1>8, <1>9, <1>10 DEF Event!IInv

\* An update, cancellation, featuring or deletion is committed.
LEMMA EventSaves ==
    ASSUME Event!IInv, NEW s \in Sessions, Event!Save(s)
    PROVE  Event!IInv'
<1> DEFINE r == req[s]
<1>1. /\ r.at = "save" /\ event' = Event!Saved(r) /\ req' = [req EXCEPT ![s] = Event!Idle]
      /\ UNCHANGED <<images, files, overlapped, cut>>
  BY DEF Event!Save, Event!End
<1>2. Event!TypeOK /\ Event!Stages /\ Event!OneOfEachKind /\ Event!ReadsHold /\ Event!ImagesApart /\ Event!EventConsistent
  BY DEF Event!IInv
<1>3. req'[s] = Event!Idle /\ (\A t \in Sessions \ {s} : req'[t] = req[t]) /\ req' \in [Sessions -> EventHandlers]
  BY <1>1, <1>2, EventTypedReq, EventIdle
<1>4. /\ r \in EventHandlers /\ r.op \in {"update", "cancel", "feature", "delete"}
      /\ event \in [status: {"SCHEDULED", "CANCELLED"}, featured: BOOLEAN, deleted: BOOLEAN, starts: 1..3, ends: 1..3]
  BY <1>1, <1>2, EventTypedReq DEF Event!Stages, EventHandlers, EventOps
<1>5. ASSUME r.op = "update"
      PROVE  Event!TypeOK' /\ Event!ReadsHold' /\ Event!EventConsistent'
  <2>1. /\ event' = [event EXCEPT !.starts = Event!Final(r.starts, event.starts), !.ends = Event!Final(r.ends, event.ends)]
        /\ Event!Final(r.starts, event.starts) \in 1..3 /\ Event!Final(r.ends, event.ends) \in 1..3
    BY <1>1, <1>4, <1>5 DEF Event!Saved, Event!Final, Event!Keep, EventHandlers
  <2>2. /\ event'.starts = Event!Final(r.starts, event.starts) /\ event'.ends = Event!Final(r.ends, event.ends)
        /\ event'.status = event.status
        /\ event' \in [status: {"SCHEDULED", "CANCELLED"}, featured: BOOLEAN, deleted: BOOLEAN, starts: 1..3, ends: 1..3]
    BY <1>4, <2>1
  <2>3. event'.featured = event.featured /\ event'.deleted = event.deleted
    BY <1>4, <2>1, Zenon
  <2>4. "schedule" \notin overlapped => \A t \in Sessions \ {s} : req[t].op # "update"
    BY <1>2, <1>5, EventKinds DEF Event!OneOfEachKind
  <2>5. Event!ReadsHold'
    BY <1>1, <1>2, <1>3, <2>2, <2>3, <2>4, EventIdle DEF Event!ReadsHold, Event!Scheduled
  <2>6. Event!EventConsistent'
    BY <1>1, <1>2, <1>5, <2>2, <2>3 DEF Event!ReadsHold, Event!EventConsistent, Event!Scheduled
  <2>7. Event!TypeOK'
    BY <1>1, <1>2, <1>3, <2>2 DEF Event!TypeOK, EventHandlers, EventOps, EventKind, Event!Keep
  <2> QED
    BY <2>5, <2>6, <2>7
<1>6. ASSUME r.op \in {"cancel", "feature", "delete"}
      PROVE  Event!TypeOK' /\ Event!ReadsHold' /\ Event!EventConsistent'
  <2>1. "state" \notin overlapped => \A t \in Sessions \ {s} : req[t].op \notin {"cancel", "feature", "delete"}
    BY <1>2, <1>6, EventKinds DEF Event!OneOfEachKind
  <2>2. /\ event'.starts = event.starts /\ event'.ends = event.ends
        /\ event' \in [status: {"SCHEDULED", "CANCELLED"}, featured: BOOLEAN, deleted: BOOLEAN, starts: 1..3, ends: 1..3]
    BY <1>1, <1>4, <1>6 DEF Event!Saved
  <2>3. Event!TypeOK'
    BY <1>1, <1>2, <1>3, <2>2 DEF Event!TypeOK, EventHandlers, EventOps, EventKind, Event!Keep
  <2>4. Event!ReadsHold'
    BY <1>1, <1>2, <1>3, <2>1, <2>2, EventIdle DEF Event!ReadsHold, Event!Scheduled
  <2>5. "state" \notin overlapped => ~event'.featured \/ (event'.status = "SCHEDULED" /\ ~event'.deleted)
    <3> SUFFICES ASSUME "state" \notin overlapped PROVE ~event'.featured \/ (event'.status = "SCHEDULED" /\ ~event'.deleted)
      OBVIOUS
    <3>1. r.featured = event.featured
      BY <1>2, <1>6 DEF Event!ReadsHold
    <3>2. CASE r.op = "cancel" \/ r.op = "delete"
      <4>1. \/ event' = [event EXCEPT !.status = "CANCELLED", !.featured = @ /\ ~r.featured]
            \/ event' = [event EXCEPT !.deleted = TRUE, !.featured = @ /\ ~r.featured]
        BY <1>1, <3>2 DEF Event!Saved
      <4>2. event'.featured = (event.featured /\ ~r.featured)
        BY <1>4, <4>1, Zenon
      <4> QED
        BY <3>1, <4>2
    <3>3. CASE r.op = "feature"
      <4>1. event.status = "SCHEDULED" /\ ~event.deleted
        BY <1>2, <3>3 DEF Event!ReadsHold, Event!Scheduled
      <4>2. event'.status = event.status /\ event'.deleted = event.deleted
        BY <1>1, <1>4, <3>3 DEF Event!Saved
      <4> QED
        BY <4>1, <4>2
    <3> QED
      BY <1>6, <3>2, <3>3
  <2>6. Event!EventConsistent'
    BY <1>1, <1>2, <2>2, <2>5 DEF Event!EventConsistent, Event!Scheduled
  <2> QED
    BY <2>3, <2>4, <2>6
<1>7. Event!Stages'
  BY <1>2, <1>3, EventIdle DEF Event!Stages
<1>8. Event!OneOfEachKind'
  BY <1>1, <1>2, <1>3, EventIdle, EventKinds DEF Event!OneOfEachKind
<1>9. Event!ImagesApart'
  BY <1>1, <1>2, <1>3, EventIdle, NoneAssumption DEF Event!ImagesApart
<1>10. Event!FilesKept'
  BY <1>1, <1>3, EventIdle DEF Event!IInv, Event!FilesKept
<1> QED
  BY <1>4, <1>5, <1>6, <1>7, <1>8, <1>9, <1>10 DEF Event!IInv

\* A handler of images goes on as r: only the addition of a row adds to the
\* images, and what is still to be added has room.
EventImageStep(s, r) ==
    /\ req' = [req EXCEPT ![s] = r] /\ r \in EventHandlers /\ UNCHANGED <<event, overlapped>>
    /\ images' \subseteq Images /\ files' \subseteq Images /\ cut' \in BOOLEAN
    /\ req[s].op \in {"add", "remove"} /\ (r = Event!Idle \/ r.op = req[s].op)
    /\ r.at = "idle" <=> r.op = "idle"
    /\ r.at \in {"count", "write", "insert"} <=> r.op = "add"
    /\ r.at \in {"row", "file"} <=> r.op = "remove"
    /\ r.op = "add" => r.left # 0
    /\ \/ Cardinality(images') <= Cardinality(images)
       \/ req[s].at = "insert" /\ Cardinality(images') = Cardinality(images) + 1
    /\ r.at \in {"write", "insert"} /\ "images" \notin overlapped => Cardinality(images') + r.left <= 2

LEMMA EventImagesKept ==
    ASSUME Event!IInv, NEW s \in Sessions, NEW r, EventImageStep(s, r),
           Event!ImagesApart', Event!FilesKept'
    PROVE  Event!IInv'
<1>0. USE DEF EventImageStep
<1>1. Event!TypeOK /\ Event!Stages /\ Event!OneOfEachKind /\ Event!ReadsHold /\ Event!ImagesApart /\ Event!EventConsistent
  BY DEF Event!IInv
<1>2. req'[s] = r /\ (\A t \in Sessions \ {s} : req'[t] = req[t]) /\ req' \in [Sessions -> EventHandlers]
  BY <1>1, EventTypedReq
<1>3. Event!TypeOK'
  BY <1>1, <1>2 DEF Event!TypeOK, EventHandlers, EventOps, EventKind, Event!Keep
<1>4. Event!Stages'
  BY <1>1, <1>2 DEF Event!Stages
<1>5. Event!OneOfEachKind'
  <2>1. Event!Writes(r.op) \subseteq Event!Writes(req[s].op)
    <3>1. CASE r = Event!Idle
      BY <3>1, EventIdle, EventKinds
    <3> QED
      BY <3>1
  <2> QED
    BY <1>1, <1>2, <2>1 DEF Event!OneOfEachKind
<1>6. Cardinality(images) \in Nat /\ Cardinality(images') \in Nat
  BY <1>1, FiniteAssumption, FS_Subset, FS_CardinalityType DEF Event!TypeOK
<1>7. "images" \notin overlapped /\ req[s].op = "add" => \A t \in Sessions \ {s} : req[t].op # "add"
  BY <1>1, EventKinds DEF Event!OneOfEachKind
<1>8. req[s].at = "insert" /\ "images" \notin overlapped => Cardinality(images) + req[s].left <= 2 /\ req[s].left \in 1..2
  BY <1>1, EventsByCardinality, EventTypedReq DEF Event!ReadsHold, Event!Stages, EventHandlers
<1>9. Event!ReadsHold'
  <2> SUFFICES ASSUME NEW t \in Sessions, req'[t].at \in {"write", "insert"}, "images" \notin overlapped
               PROVE  Cardinality(images') + req'[t].left <= 2
    <3>1. r.op \in {"idle", "add", "remove"}
      BY EventIdle
    <3>2. ASSUME NEW t \in Sessions
          PROVE  req'[t].op \in {"update", "cancel", "feature", "delete"} => req'[t] = req[t]
      BY <1>2, <3>1
    <3> QED
      BY <1>1, <3>2, EventsByCardinality DEF Event!ReadsHold, Event!Scheduled, Event!Final
  <2>1. CASE t = s
    BY <1>2, <2>1
  <2>2. CASE t # s
    <3>1. req[s].at # "insert"
      BY <1>1, <1>2, <1>7, <2>2 DEF Event!Stages
    <3>2. Cardinality(images) + req[t].left <= 2 /\ req[t].left \in Nat
      BY <1>1, <1>2, <2>2, EventsByCardinality, EventTypedReq DEF Event!ReadsHold, EventHandlers
    <3> QED
      BY <1>2, <1>6, <2>2, <3>1, <3>2
  <2> QED
    BY <2>1, <2>2
<1>10. Event!EventConsistent'
  <2>1. "images" \in overlapped \/ Cardinality(images') <= 2
    BY <1>1, <1>6, <1>8, EventsByCardinality DEF Event!EventConsistent
  <2> QED
    BY <1>1, <2>1, EventsByCardinality DEF Event!EventConsistent, Event!Scheduled
<1> QED
  BY <1>3, <1>4, <1>5, <1>9, <1>10 DEF Event!IInv

LEMMA EventHandler ==
    ASSUME Event!IInv, NEW s \in Sessions
    PROVE  /\ req[s] \in EventHandlers /\ overlapped \subseteq EventKind /\ cut \in BOOLEAN
           /\ images \subseteq Images /\ files \subseteq Images
           /\ req[s].at = "idle" <=> req[s].op = "idle"
           /\ req[s].at \in {"count", "write", "insert"} <=> req[s].op = "add"
           /\ req[s].at \in {"row", "file"} <=> req[s].op = "remove"
           /\ req[s].op = "add" => req[s].left \in 1..2
           /\ req[s].at = "insert" => /\ req[s].image \in Images /\ req[s].image \in files /\ req[s].image \notin images
                                      /\ \A t \in Sessions \ {s} : req[t].image # req[s].image
           /\ req[s].at = "file" => req[s].image \notin images
           /\ IsFiniteSet(images) /\ Cardinality(images) \in Nat
           /\ Event!Cardinality(images) = Cardinality(images)
           /\ Event!Cardinality(images') = Cardinality(images')
           /\ cut \/ images \subseteq files
           /\ cut \/ \A i \in files \ images : \E t \in Sessions : req[t].at \in {"insert", "file"} /\ req[t].image = i
<1>1. Event!TypeOK /\ Event!Stages /\ Event!ImagesApart /\ Event!FilesKept
  BY DEF Event!IInv
<1>2. IsFiniteSet(images) /\ Cardinality(images) \in Nat
  BY <1>1, EventTypedReq, EventImagesCounted
<1>3. req[s] \in EventHandlers /\ images \subseteq Images /\ files \subseteq Images /\ overlapped \subseteq EventKind /\ cut \in BOOLEAN
  BY <1>1, EventTypedReq
<1>4. req[s].op = "add" => req[s].left \in 1..2
  BY <1>1, <1>3 DEF Event!Stages, EventHandlers
<1> QED
  BY <1>1, <1>2, <1>3, <1>4, EventsByCardinality DEF Event!Stages, Event!ImagesApart, Event!FilesKept

\* The images are counted, and there is room for those to add.
LEMMA EventCounts ==
    ASSUME Event!IInv, NEW s \in Sessions, Event!CountImages(s)
    PROVE  Event!IInv'
<1> DEFINE r == [req[s] EXCEPT !.at = "write"]
<1>1. /\ req[s].at = "count" /\ Cardinality(images) + req[s].left <= 2
      /\ req' = [req EXCEPT ![s] = r] /\ UNCHANGED <<event, images, files, overlapped, cut>>
  BY EventHandler DEF Event!CountImages
<1>2. r \in EventHandlers /\ r.at = "write" /\ r.op = req[s].op /\ r.left = req[s].left
  BY EventHandler DEF EventHandlers
<1>3. req'[s] = r /\ \A t \in Sessions \ {s} : req'[t] = req[t]
  BY <1>1, EventTypedReq DEF Event!IInv
<1>4. \A t \in Sessions : req'[t].image = req[t].image
  BY <1>3, EventHandler DEF EventHandlers
<1>5. Event!ImagesApart' /\ Event!FilesKept'
  BY <1>1, <1>2, <1>3, <1>4 DEF Event!IInv, Event!ImagesApart, Event!FilesKept
<1> HIDE DEF r
<1>6. EventImageStep(s, r)
  BY <1>1, <1>2, EventHandler DEF EventImageStep
<1> QED
  BY <1>5, <1>6, EventImagesKept

\* A file is written, of a name of its own.
LEMMA EventWrites ==
    ASSUME Event!IInv, NEW s \in Sessions, Event!WriteFile(s)
    PROVE  Event!IInv'
<1>1. PICK i \in Images \ (images \cup files) :
        /\ req[s].at = "write" /\ \A t \in Sessions : req[t].image # i
        /\ files' = files \cup {i}
        /\ req' = [req EXCEPT ![s].at = "insert", ![s].image = i]
        /\ UNCHANGED <<event, images, overlapped, cut>>
  BY DEF Event!WriteFile
<1> DEFINE r == [req[s] EXCEPT !.at = "insert", !.image = i]
<1>0. req[s] \in EventHandlers
  BY EventHandler
<1>2. r \in EventHandlers /\ r.at = "insert" /\ r.op = req[s].op /\ r.left = req[s].left /\ r.image = i
  BY <1>0, <1>1 DEF EventHandlers
<1>3. req' = [req EXCEPT ![s] = r] /\ req'[s] = r /\ \A t \in Sessions \ {s} : req'[t] = req[t]
  BY <1>1, EventTypedReq DEF Event!IInv
<1> HIDE DEF r
<1>4. Event!ImagesApart'
  BY <1>1, <1>2, <1>3 DEF Event!IInv, Event!ImagesApart
<1>5. Event!FilesKept'
  <2>1. \A t \in Sessions : req[t].at \in {"insert", "file"} => req'[t] = req[t]
    BY <1>1, <1>3
  <2>2. cut \/ /\ images \subseteq files
               /\ \A j \in files \ images : \E t \in Sessions : req[t].at \in {"insert", "file"} /\ req[t].image = j
    BY EventHandler
  <2> SUFFICES ASSUME ~cut
               PROVE  /\ images' \subseteq files'
                      /\ \A j \in files' \ images' : \E t \in Sessions : req'[t].at \in {"insert", "file"} /\ req'[t].image = j
    BY <1>1 DEF Event!FilesKept
  <2>3. ASSUME NEW j \in files' \ images', j # i
        PROVE  \E t \in Sessions : req'[t].at \in {"insert", "file"} /\ req'[t].image = j
    <3>1. PICK t \in Sessions : req[t].at \in {"insert", "file"} /\ req[t].image = j
      BY <1>1, <2>2, <2>3
    <3> QED
      BY <2>1, <3>1
  <2> QED
    BY <1>1, <1>2, <1>3, <2>2, <2>3
<1>6. "images" \notin overlapped => Cardinality(images) + req[s].left <= 2
  BY <1>1, EventsByCardinality DEF Event!IInv, Event!ReadsHold
<1>7. /\ req[s].op = "add" /\ req[s].left # 0 /\ Cardinality(images) \in Nat
      /\ images \subseteq Images /\ files' \subseteq Images /\ cut \in BOOLEAN
      /\ UNCHANGED <<event, images, overlapped, cut>>
  BY <1>1, EventHandler
<1>8. EventImageStep(s, r)
  BY <1>2, <1>3, <1>6, <1>7 DEF EventImageStep
<1> QED
  BY <1>4, <1>5, <1>8, EventImagesKept

\* The row of a file just written is added.
LEMMA EventInserts ==
    ASSUME Event!IInv, NEW s \in Sessions, Event!InsertRow(s)
    PROVE  Event!IInv'
<1> DEFINE n == req[s].left
           r == IF n = 1 THEN Event!Idle ELSE [req[s] EXCEPT !.at = "write", !.left = n - 1, !.image = NoImage]
<1>1. /\ req[s].at = "insert" /\ images' = images \cup {req[s].image}
      /\ req' = [req EXCEPT ![s] = r] /\ UNCHANGED <<event, files, overlapped, cut>>
  BY EventHandler DEF Event!InsertRow
<1>2. /\ r \in EventHandlers
      /\ r = Event!Idle \/ (r.at = "write" /\ r.op = req[s].op /\ r.left = n - 1 /\ r.left # 0)
      /\ r.image = NoImage /\ r.at \in {"idle", "write"}
  <2>1. req[s] \in EventHandlers /\ n \in 1..2 /\ req[s].op = "add"
    BY <1>1, EventHandler
  <2>2. CASE n = 1
    BY <2>2, EventIdle
  <2>3. CASE n = 2
    <3> DEFINE q == [req[s] EXCEPT !.at = "write", !.left = 1, !.image = NoImage]
    <3>1. q \in EventHandlers /\ q.at = "write" /\ q.op = req[s].op /\ q.left = 1 /\ q.image = NoImage
      <4> DEFINE p == [req[s] EXCEPT !.at = "write", !.image = NoImage]
      <4>1. p \in EventHandlers /\ p.at = "write" /\ p.op = req[s].op /\ p.image = NoImage
        BY <2>1 DEF EventHandlers
      <4>2. q = [p EXCEPT !.left = 1]
        BY <2>1 DEF EventHandlers
      <4> HIDE DEF p, q
      <4> QED
        BY <4>1, <4>2 DEF EventHandlers
    <3>2. r = q
      BY <2>3
    <3> HIDE DEF q, r
    <3> QED
      BY <2>3, <3>1, <3>2
  <2> QED
    BY <2>1, <2>2, <2>3
<1>3. req'[s] = r /\ \A t \in Sessions \ {s} : req'[t] = req[t]
  BY <1>1, EventTypedReq DEF Event!IInv
<1> HIDE DEF r
<1>4. /\ \A t \in Sessions \ {s} : req[t].image # req[s].image
      /\ req[s].image \in Images /\ req[s].image \in files /\ req[s].image \notin images
  BY <1>1, EventHandler
<1>5. Event!ImagesApart'
  BY <1>1, <1>2, <1>3, <1>4, NoneAssumption, EventHandler DEF Event!IInv, Event!ImagesApart
<1>6. Event!FilesKept'
  BY <1>1, <1>2, <1>3, <1>4 DEF Event!IInv, Event!FilesKept
<1>7. Cardinality(images') = Cardinality(images) + 1 /\ images' \subseteq Images
  BY <1>1, <1>4, EventHandler, FS_AddElement
<1>8. r.at = "write" /\ "images" \notin overlapped => Cardinality(images') + r.left <= 2
  <2> SUFFICES ASSUME r.at = "write", "images" \notin overlapped PROVE Cardinality(images') + r.left <= 2
    OBVIOUS
  <2>1. Cardinality(images) + n <= 2
    BY <1>1, EventsByCardinality DEF Event!IInv, Event!ReadsHold
  <2>2. r.left = n - 1 /\ n \in 1..2
    BY <1>1, <1>2, EventIdle, EventHandler
  <2> HIDE DEF n
  <2> QED
    BY <1>7, <2>1, <2>2, EventHandler
<1>9. /\ r.op = "add" => r.left # 0
      /\ r.at = "idle" <=> r.op = "idle"
      /\ r.at \in {"count", "write", "insert"} <=> r.op = "add"
      /\ r.at \in {"row", "file"} <=> r.op = "remove"
      /\ r.at \notin {"save"} /\ req[s].op = "add"
      /\ r = Event!Idle \/ r.op = req[s].op
  BY <1>1, <1>2, EventIdle, EventHandler
<1>10. EventImageStep(s, r)
  <2>1. files \subseteq Images /\ cut \in BOOLEAN
    BY EventHandler
  <2> QED
    BY <1>1, <1>2, <1>7, <1>8, <1>9, <2>1 DEF EventImageStep
<1> QED
  BY <1>5, <1>6, <1>10, EventImagesKept

\* A file whose row was not added is deleted; the row may have been.
LEMMA EventInsertFails ==
    ASSUME Event!IInv, NEW s \in Sessions, Event!InsertFails(s)
    PROVE  Event!IInv'
<1>1. /\ req[s].at = "insert" /\ req' = [req EXCEPT ![s] = Event!Idle] /\ files' = files \ {req[s].image}
      /\ \/ UNCHANGED <<images, cut>>
         \/ images' = images \cup {req[s].image} /\ cut' = TRUE
      /\ UNCHANGED <<event, overlapped>>
  BY DEF Event!InsertFails, Event!End
<1>2. /\ req[s].op = "add" /\ images \subseteq Images /\ files \subseteq Images /\ cut \in BOOLEAN
      /\ req[s].image \in Images /\ req[s].image \notin images
      /\ \A t \in Sessions \ {s} : req[t].image # req[s].image
      /\ IsFiniteSet(images) /\ Cardinality(images) \in Nat
  BY <1>1, EventHandler
<1>3. req'[s] = Event!Idle /\ \A t \in Sessions \ {s} : req'[t] = req[t]
  BY <1>1, EventTypedReq DEF Event!IInv
<1>4. Event!ImagesApart'
  <2> SUFFICES ASSUME NEW t \in Sessions \ {s}
               PROVE  /\ req[t].at = "insert" =>
                           /\ req[t].image \in (files' \cap Images) \ images'
                           /\ \A u \in Sessions \ {t} : req'[u].image # req[t].image
                      /\ req[t].at = "file" => req[t].image \notin images'
    BY <1>3, EventIdle DEF Event!ImagesApart
  <2>1. req[t].at = "insert" => req[t].image # NoImage
    BY EventHandler, NoneAssumption
  <2>2. /\ req[t].at = "insert" =>
             /\ req[t].image \in (files \cap Images) \ images
             /\ \A u \in Sessions \ {t} : req[u].image # req[t].image
        /\ req[t].at = "file" => req[t].image \notin images
    BY DEF Event!IInv, Event!ImagesApart
  <2> QED
    BY <1>1, <1>2, <1>3, <2>1, <2>2, EventIdle
<1>5. Event!FilesKept'
  <2>1. CASE cut' = TRUE
    BY <2>1 DEF Event!FilesKept
  <2>2. CASE UNCHANGED <<images, cut>>
    <3> SUFFICES ASSUME ~cut
                 PROVE  /\ images' \subseteq files'
                        /\ \A j \in files' \ images' : \E t \in Sessions : req'[t].at \in {"insert", "file"} /\ req'[t].image = j
      BY <2>2 DEF Event!FilesKept
    <3>1. ASSUME NEW j \in files' \ images'
          PROVE  \E t \in Sessions : req'[t].at \in {"insert", "file"} /\ req'[t].image = j
      <4>1. PICK t \in Sessions : req[t].at \in {"insert", "file"} /\ req[t].image = j
        BY <1>1, <2>2, <3>1, EventHandler
      <4>2. t # s
        BY <1>1, <3>1, <4>1
      <4> QED
        BY <1>3, <4>1, <4>2
    <3>2. images \subseteq files
      BY EventHandler
    <3> QED
      BY <1>1, <1>2, <2>2, <3>1, <3>2
  <2> QED
    BY <1>1, <2>1, <2>2
<1>6. Cardinality(images') \in {Cardinality(images), Cardinality(images) + 1}
  BY <1>1, <1>2, FS_AddElement
<1>7. EventImageStep(s, Event!Idle)
  <2>1. cut' \in BOOLEAN /\ images' \subseteq Images /\ files' \subseteq Images
    BY <1>1, <1>2
  <2>2. /\ req' = [req EXCEPT ![s] = Event!Idle] /\ UNCHANGED <<event, overlapped>>
        /\ req[s].at = "insert" /\ req[s].op = "add" /\ Cardinality(images) \in Nat
    BY <1>1, <1>2
  <2> QED
    BY <1>6, <2>1, <2>2, EventIdle DEF EventImageStep
<1> QED
  BY <1>4, <1>5, <1>7, EventImagesKept

\* A row is deleted, and then its file.
LEMMA EventDeletesRow ==
    ASSUME Event!IInv, NEW s \in Sessions, Event!DeleteRow(s)
    PROVE  Event!IInv'
<1> DEFINE r == [req[s] EXCEPT !.at = "file"]
<1>1. /\ req[s].at = "row" /\ images' = images \ {req[s].image}
      /\ req' = [req EXCEPT ![s] = r] /\ UNCHANGED <<event, files, overlapped, cut>>
  BY EventHandler DEF Event!DeleteRow
<1>2. req[s] \in EventHandlers /\ req[s].op = "remove" /\ images \subseteq Images /\ files \subseteq Images
      /\ cut \in BOOLEAN
  BY <1>1, EventHandler
<1>3. r \in EventHandlers /\ r.at = "file" /\ r.op = "remove" /\ r.image = req[s].image
  BY <1>2 DEF EventHandlers
<1>4. req'[s] = r /\ \A t \in Sessions \ {s} : req'[t] = req[t]
  BY <1>1, EventTypedReq DEF Event!IInv
<1> HIDE DEF r
<1>5. \A t \in Sessions : req'[t].image = req[t].image
  BY <1>3, <1>4
<1>6. Event!ImagesApart'
  BY <1>1, <1>3, <1>4, <1>5 DEF Event!IInv, Event!ImagesApart
<1>7. Event!FilesKept'
  <2> SUFFICES ASSUME ~cut
               PROVE  /\ images' \subseteq files'
                      /\ \A j \in files' \ images' : \E t \in Sessions : req'[t].at \in {"insert", "file"} /\ req'[t].image = j
    BY <1>1 DEF Event!FilesKept
  <2>1. images' \subseteq files'
    BY <1>1, EventHandler
  <2>2. ASSUME NEW j \in files' \ images', j # req[s].image
        PROVE  \E t \in Sessions : req'[t].at \in {"insert", "file"} /\ req'[t].image = j
    <3>1. PICK t \in Sessions : req[t].at \in {"insert", "file"} /\ req[t].image = j
      BY <1>1, <2>2, EventHandler
    <3> QED
      BY <1>3, <1>4, <3>1
  <2> QED
    BY <1>3, <1>4, <2>1, <2>2
<1>8. Cardinality(images') <= Cardinality(images)
  BY <1>1, <1>2, EventImagesCounted
<1>9. EventImageStep(s, r)
  BY <1>1, <1>2, <1>3, <1>8 DEF EventImageStep
<1> QED
  BY <1>6, <1>7, <1>9, EventImagesKept

LEMMA EventDeletesFile ==
    ASSUME Event!IInv, NEW s \in Sessions, Event!DeleteFile(s)
    PROVE  Event!IInv'
<1>1. /\ req[s].at = "file" /\ req' = [req EXCEPT ![s] = Event!Idle] /\ files' = files \ {req[s].image}
      /\ UNCHANGED <<event, images, overlapped, cut>>
  BY DEF Event!DeleteFile, Event!End
<1>2. /\ req[s].op = "remove" /\ images \subseteq Images /\ files \subseteq Images /\ cut \in BOOLEAN
      /\ req[s].image \notin images /\ Cardinality(images) \in Nat
  BY <1>1, EventHandler
<1>3. req'[s] = Event!Idle /\ \A t \in Sessions \ {s} : req'[t] = req[t]
  BY <1>1, EventTypedReq DEF Event!IInv
<1>4. Event!ImagesApart'
  <2> SUFFICES ASSUME NEW t \in Sessions \ {s}
               PROVE  /\ req[t].at = "insert" =>
                           /\ req[t].image \in (files' \cap Images) \ images'
                           /\ \A u \in Sessions \ {t} : req'[u].image # req[t].image
                      /\ req[t].at = "file" => req[t].image \notin images'
    BY <1>3, EventIdle DEF Event!ImagesApart
  <2>1. /\ req[t].at = "insert" =>
             /\ req[t].image \in (files \cap Images) \ images
             /\ \A u \in Sessions \ {t} : req[u].image # req[t].image
        /\ req[t].at = "file" => req[t].image \notin images
    BY DEF Event!IInv, Event!ImagesApart
  <2> QED
    BY <1>1, <1>3, <2>1, EventIdle, NoneAssumption
<1>5. Event!FilesKept'
  <2> SUFFICES ASSUME ~cut
               PROVE  /\ images' \subseteq files'
                      /\ \A j \in files' \ images' : \E t \in Sessions : req'[t].at \in {"insert", "file"} /\ req'[t].image = j
    BY <1>1 DEF Event!FilesKept
  <2>1. ASSUME NEW j \in files' \ images'
        PROVE  \E t \in Sessions : req'[t].at \in {"insert", "file"} /\ req'[t].image = j
    <3>1. PICK t \in Sessions : req[t].at \in {"insert", "file"} /\ req[t].image = j
      BY <1>1, <2>1, EventHandler
    <3>2. t # s
      BY <1>1, <2>1, <3>1
    <3> QED
      BY <1>3, <3>1, <3>2
  <2>2. images \subseteq files
    BY EventHandler
  <2> QED
    BY <1>1, <1>2, <2>1, <2>2
<1>6. EventImageStep(s, Event!Idle)
  BY <1>1, <1>2, EventIdle DEF EventImageStep
<1> QED
  BY <1>4, <1>5, <1>6, EventImagesKept

LEMMA EventNext ==
    ASSUME Event!IInv, Event!Next
    PROVE  Event!IInv'
<1>1. PICK s \in Sessions :
        \/ \E starts, ends \in 1..3 \cup {Event!Keep} : Event!Update(s, starts, ends)
        \/ Event!Cancel(s) \/ Event!Feature(s) \/ Event!Delete(s) \/ Event!Save(s)
        \/ \E n \in 1..2 : Event!AddImages(s, n)
        \/ Event!CountImages(s) \/ Event!WriteFile(s) \/ Event!InsertRow(s) \/ Event!InsertFails(s)
        \/ \E i \in Images : Event!RemoveImage(s, i)
        \/ Event!DeleteRow(s) \/ Event!DeleteFile(s)
        \/ Event!Refuse(s) \/ Event!Crash(s)
  BY DEF Event!Next
<1>2. /\ event \in [status: {"SCHEDULED", "CANCELLED"}, featured: BOOLEAN, deleted: BOOLEAN,
                    starts: 1..3, ends: 1..3]
      /\ images \subseteq Images
  BY EventTypedReq DEF Event!IInv
<1>3. ASSUME NEW starts \in 1..3 \cup {Event!Keep}, NEW ends \in 1..3 \cup {Event!Keep},
             Event!Update(s, starts, ends)
      PROVE  Event!IInv'
  <2> DEFINE from == Event!Differing(starts, event.starts)
             to   == Event!Differing(ends, event.ends)
             r    == [Event!Idle EXCEPT !.op = "update", !.at = "save", !.starts = from, !.ends = to]
  <2>1. Event!Begin(s, r) /\ Event!InOrder(Event!Final(starts, event.starts), Event!Final(ends, event.ends))
    BY <1>3 DEF Event!Update
  <2>2. /\ from \in 1..3 \cup {0} /\ to \in 1..3 \cup {0}
        /\ Event!Final(from, event.starts) = Event!Final(starts, event.starts)
        /\ Event!Final(to, event.ends) = Event!Final(ends, event.ends)
    BY <1>2, <1>3 DEF Event!Differing, Event!Final, Event!Keep
  <2> HIDE DEF from, to
  <2>3. r \in EventHandlers /\ r.op = "update" /\ r.at = "save" /\ r.starts = from /\ r.ends = to /\ r.image = NoImage
    BY <2>2, EventIdle DEF Event!Idle, EventHandlers, EventOps, Event!Keep
  <2>4. Event!Final(r.starts, event.starts) < Event!Final(r.ends, event.ends)
    BY <2>1, <2>2, <2>3 DEF Event!InOrder
  <2> HIDE DEF r
  <2> QED
    BY <2>1, <2>3, <2>4, EventBegins
<1>4. ASSUME NEW op \in {"cancel", "feature", "delete"},
             Event!Begin(s, [Event!Idle EXCEPT !.op = op, !.at = "save", !.featured = event.featured]),
             op = "feature" => Event!Scheduled
      PROVE  Event!IInv'
  <2> DEFINE r == [Event!Idle EXCEPT !.op = op, !.at = "save", !.featured = event.featured]
  <2>1. r \in EventHandlers /\ r.op = op /\ r.at = "save" /\ r.image = NoImage
    BY <1>2, EventIdle DEF EventHandlers, EventOps
  <2>2. r.featured = event.featured
    BY <1>2, EventIdle, Zenon DEF EventHandlers
  <2> HIDE DEF r
  <2>3. Event!Begin(s, r)
    BY <1>4 DEF r
  <2> QED
    BY <1>4, <2>1, <2>2, <2>3, EventBegins
<1>5. ASSUME NEW n \in 1..2, Event!AddImages(s, n)
      PROVE  Event!IInv'
  <2> DEFINE r == [Event!Idle EXCEPT !.op = "add", !.at = "count", !.left = n]
  <2>1. r \in EventHandlers /\ r.op = "add" /\ r.at = "count" /\ r.left = n /\ r.image = NoImage
    <3> DEFINE p == [Event!Idle EXCEPT !.op = "add", !.at = "count"]
    <3>1. p \in EventHandlers /\ p.op = "add" /\ p.at = "count" /\ p.image = NoImage
      BY EventIdle DEF EventHandlers, EventOps
    <3>2. r = [p EXCEPT !.left = n]
      OBVIOUS
    <3> HIDE DEF p, r
    <3> QED
      BY <1>5, <3>1, <3>2 DEF EventHandlers
  <2>2. Event!Begin(s, r)
    BY <1>5 DEF Event!AddImages
  <2> HIDE DEF r
  <2> QED
    BY <1>5, <2>1, <2>2, EventBegins
<1>6. ASSUME NEW i \in Images, Event!RemoveImage(s, i)
      PROVE  Event!IInv'
  <2> DEFINE r == [Event!Idle EXCEPT !.op = "remove", !.at = "row", !.image = i]
  <2>1. r \in EventHandlers /\ r.op = "remove" /\ r.at = "row" /\ r.image = i
    BY <1>6, EventIdle DEF EventHandlers, EventOps
  <2>2. Event!Begin(s, r) /\ i \in images
    BY <1>6 DEF Event!RemoveImage
  <2> HIDE DEF r
  <2> QED
    BY <2>1, <2>2, EventBegins
<1>7. Event!Cancel(s) \/ Event!Feature(s) \/ Event!Delete(s) => Event!IInv'
  BY <1>4 DEF Event!Cancel, Event!Feature, Event!Delete
<1> QED
  BY <1>1, <1>3, <1>5, <1>6, <1>7, EventSaves, EventCounts, EventWrites, EventInserts, EventInsertFails,
     EventDeletesRow, EventDeletesFile, EventGivesUp

LEMMA EventPromises ==
    ASSUME Event!IInv
    PROVE  Event!EventConsistent /\ Event!ImagesHaveFiles
  BY DEF Event!IInv, Event!FilesKept, Event!ImagesHaveFiles

LEMMA EventStarts == ASSUME Event!Init PROVE Event!IInv
<1>1. PICK starts \in 1..3, ends \in 1..3 :
        /\ starts < ends
        /\ event = [status |-> "SCHEDULED", featured |-> FALSE, deleted |-> FALSE, starts |-> starts, ends |-> ends]
  BY DEF Event!Init
<1>2. /\ images = {} /\ files = {} /\ overlapped = {} /\ cut = FALSE
      /\ req \in [Sessions -> EventHandlers] /\ \A s \in Sessions : req[s] = Event!Idle
  BY EventIdle DEF Event!Init
<1>3. cut \in BOOLEAN
  BY <1>2, Zenon
<1>4. event \in [status: {"SCHEDULED", "CANCELLED"}, featured: BOOLEAN, deleted: BOOLEAN, starts: 1..3, ends: 1..3]
  BY <1>1
<1>5. event.starts < event.ends /\ event.status = "SCHEDULED"
  BY <1>1
<1>6. ~event.featured
  BY <1>1, Zenon
<1>7. Event!TypeOK
  BY <1>2, <1>3, <1>4, EventTypedReq
<1>8. Event!Cardinality(images) = 0
  BY <1>2, EventsByCardinality, FS_EmptySet
<1>9. Event!EventConsistent
  BY <1>5, <1>6, <1>8 DEF Event!EventConsistent
<1>10. Event!Stages /\ Event!OneOfEachKind /\ Event!ReadsHold /\ Event!ImagesApart /\ Event!FilesKept
  BY <1>2, EventIdle, EventKinds
     DEF Event!Stages, Event!OneOfEachKind, Event!ReadsHold, Event!ImagesApart, Event!FilesKept
<1> QED
  BY <1>7, <1>9, <1>10 DEF Event!IInv

----------------------------------------------------------------------------
(* A post: a handler that overlapped with none that changes the status     *)
(* writes over the status it read.                                         *)

PostHandlers ==
    [op: {"idle", "update", "block", "unblock", "delete"}, at: {"idle", "save", "attach", "announce"},
     to: Post!Statuses \cup {Post!Keep}, newly: BOOLEAN]

LEMMA PostTypedReq ==
    Post!ModerationTypeOK <=>
        /\ post \in [status: Post!Statuses, deleted: BOOLEAN, dated: BOOLEAN]
        /\ req \in [Sessions -> PostHandlers]
        /\ publications \in 0..2 /\ announced \in 0..3
        /\ barred \in BOOLEAN /\ overlapped \subseteq {"status", "updates"}
  BY DEF Post!ModerationTypeOK, PostHandlers

LEMMA PostIdle ==
    /\ Post!NoHandler \in PostHandlers /\ Post!NoHandler.op = "idle" /\ Post!NoHandler.at = "idle"
    /\ Post!NoHandler.to = Post!Keep /\ Post!Touched(Post!NoHandler) = {}
  BY DEF Post!NoHandler, PostHandlers, Post!Touched

LEMMA PostTouches ==
    ASSUME NEW r
    PROVE  /\ Post!Touched(r) \subseteq {"status", "updates"}
           /\ "status" \in Post!Touched(r) <=> r.to # Post!Keep
           /\ "updates" \in Post!Touched(r) <=> r.op = "update"
  BY DEF Post!Touched

\* A handler begins, of which the status it asks for differs from the post's.
LEMMA PostBegins ==
    ASSUME Post!ModerationIInv, NEW s \in Sessions, NEW r \in PostHandlers, Post!Begin(s, r),
           r.at = "save",
           r.op \in {"update", "block", "unblock", "delete"},
           r.op = "delete" => r.to = Post!Keep,
           r.op = "update" => r.to # "BLOCKED" /\ post.status # "BLOCKED" /\ (r.newly => post.status # "PUBLISHED"),
           r.op = "block" => r.to = "BLOCKED" /\ post.status = "PUBLISHED",
           r.op = "unblock" => r.to = "PUBLISHED" /\ post.status = "BLOCKED"
    PROVE  Post!ModerationIInv'
<1> DEFINE under == UNION {Post!Touched(req[t]) : t \in Sessions}
<1>1. /\ req' = [req EXCEPT ![s] = r]
      /\ overlapped' = overlapped \cup (Post!Touched(r) \cap under)
      /\ UNCHANGED <<post, publications, announced, barred>>
  BY DEF Post!Begin
<1>2. /\ Post!ModerationTypeOK /\ Post!OneOfEachKind /\ Post!StatusAsRead /\ Post!ToAnnounce
      /\ Post!BlockedStaysBlocked /\ Post!AnnouncedOnce
  BY DEF Post!ModerationIInv
<1>3. req'[s] = r /\ (\A t \in Sessions \ {s} : req'[t] = req[t]) /\ req' \in [Sessions -> PostHandlers]
  BY <1>1, <1>2, PostTypedReq
<1>4. overlapped \subseteq overlapped' /\ overlapped' \subseteq {"status", "updates"}
  BY <1>1, <1>2, PostTypedReq, PostTouches
<1>5. \A t \in Sessions \ {s} : Post!Touched(r) \cap Post!Touched(req[t]) \subseteq overlapped'
  BY <1>1
<1> HIDE DEF under
<1>6. Post!ModerationTypeOK'
  BY <1>1, <1>2, <1>3, <1>4, PostTypedReq DEF Post!ModerationTypeOK, PostHandlers
<1>7. Post!OneOfEachKind'
  BY <1>2, <1>3, <1>4, <1>5 DEF Post!OneOfEachKind
<1>8. Post!StatusAsRead'
  BY <1>1, <1>2, <1>3, <1>4 DEF Post!StatusAsRead
<1>9. Post!ToAnnounce'
  BY <1>1, <1>2, <1>3, <1>4 DEF Post!ToAnnounce
<1>10. Post!BlockedStaysBlocked' /\ Post!AnnouncedOnce'
  BY <1>1, <1>2, <1>4 DEF Post!BlockedStaysBlocked, Post!AnnouncedOnce
<1> QED
  BY <1>6, <1>7, <1>8, <1>9, <1>10 DEF Post!ModerationIInv

\* What a handler asked for is saved.
LEMMA PostSaves ==
    ASSUME Post!ModerationIInv, NEW s \in Sessions, Post!Save(s)
    PROVE  Post!ModerationIInv'
<1> DEFINE r == req[s]
           q == IF r.op = "update" THEN [r EXCEPT !.at = "announce", !.to = Post!Keep] ELSE Post!NoHandler
           published == r.op = "update" /\ r.to = "PUBLISHED"
<1>1. /\ r.at = "save" /\ post' = Post!Saved(r) /\ req' = [req EXCEPT ![s] = q]
      /\ publications' = publications + (IF published THEN 1 ELSE 0) /\ publications' <= 2
      /\ barred' = CASE r.op = "block" -> TRUE [] r.op = "unblock" -> FALSE [] OTHER -> barred
      /\ UNCHANGED <<announced, overlapped>>
  BY DEF Post!Save
<1>2. /\ Post!ModerationTypeOK /\ Post!OneOfEachKind /\ Post!StatusAsRead /\ Post!ToAnnounce
      /\ Post!BlockedStaysBlocked /\ Post!AnnouncedOnce
  BY DEF Post!ModerationIInv
<1>3. /\ r \in PostHandlers /\ publications \in 0..2 /\ announced \in 0..3 /\ barred \in BOOLEAN
      /\ post \in [status: Post!Statuses, deleted: BOOLEAN, dated: BOOLEAN]
  BY <1>2, PostTypedReq
<1>4. /\ q \in PostHandlers /\ q.to = Post!Keep
      /\ r.op = "update" => q.op = "update" /\ q.at = "announce"
      /\ r.op # "update" => q = Post!NoHandler
  <2>1. CASE r.op = "update"
    BY <1>3, <2>1 DEF PostHandlers
  <2>2. CASE r.op # "update"
    BY <2>2, PostIdle
  <2> QED
    BY <2>1, <2>2
<1>5. r.op = "update" => (q.newly => r.newly)
  <2> SUFFICES ASSUME r.op = "update", q.newly PROVE r.newly
    OBVIOUS
  <2>1. q = [r EXCEPT !.at = "announce", !.to = Post!Keep]
    OBVIOUS
  <2> HIDE DEF q
  <2> QED
    BY <1>3, <2>1, Zenon DEF PostHandlers
<1> HIDE DEF q
<1>6. req'[s] = q /\ (\A t \in Sessions \ {s} : req'[t] = req[t]) /\ req' \in [Sessions -> PostHandlers]
  BY <1>1, <1>2, <1>4, PostTypedReq
<1>7. /\ post'.status = (IF r.to = Post!Keep THEN post.status ELSE r.to) /\ post'.status \in Post!Statuses
  BY <1>1, <1>3 DEF Post!Saved, PostHandlers
<1>8. post'.dated = (post.dated \/ published)
  BY <1>1, <1>3, Zenon DEF Post!Saved
<1>9. post' \in [status: Post!Statuses, deleted: BOOLEAN, dated: BOOLEAN]
  <2>1. (IF r.to = Post!Keep THEN post.status ELSE r.to) \in Post!Statuses
    BY <1>3 DEF PostHandlers
  <2>2. (post.deleted \/ r.op = "delete") \in BOOLEAN /\ (post.dated \/ published) \in BOOLEAN
    OBVIOUS
  <2> QED
    BY <1>1, <1>3, <2>1, <2>2 DEF Post!Saved
<1>10. barred' \in BOOLEAN /\ (r.op = "block" => barred') /\ (r.op = "unblock" => ~barred')
       /\ (r.op \notin {"block", "unblock"} => barred' = barred)
  <2>1. CASE r.op = "block"
    BY <1>1, <2>1, Zenon
  <2>2. CASE r.op = "unblock"
    BY <1>1, <2>2
  <2>3. CASE r.op \notin {"block", "unblock"}
    BY <1>1, <1>3, <2>3
  <2> QED
    BY <2>1, <2>2, <2>3
<1>11. publications' \in 0..2 /\ publications' >= publications /\ (published => publications' = publications + 1)
  BY <1>1, <1>3
<1>12. /\ r.op = "update" => r.to # "BLOCKED"
       /\ r.op = "block" => r.to = "BLOCKED"
       /\ r.op = "unblock" => r.to = "PUBLISHED"
       /\ r.op \notin {"update", "block", "unblock"} => r.to = Post!Keep
       /\ "status" \notin overlapped =>
             /\ r.op = "update" /\ r.to # Post!Keep => post.status # "BLOCKED"
             /\ r.op = "block"   => post.status = "PUBLISHED"
             /\ r.op = "unblock" => post.status = "BLOCKED"
       /\ post.status \in {"PUBLISHED", "BLOCKED"} /\ "status" \notin overlapped => post.dated
  BY <1>2, <1>3 DEF Post!StatusAsRead, PostHandlers
<1>13. /\ "status" \notin overlapped /\ r.to # Post!Keep => \A t \in Sessions \ {s} : req[t].to = Post!Keep
       /\ "updates" \notin overlapped /\ r.op = "update" => \A t \in Sessions \ {s} : req[t].op # "update"
  BY <1>2, PostTouches DEF Post!OneOfEachKind
<1> HIDE DEF r, published
<1>14. Post!ModerationTypeOK'
  BY <1>1, <1>2, <1>6, <1>9, <1>10, <1>11, PostTypedReq DEF Post!ModerationTypeOK, PostHandlers
<1>15. Post!OneOfEachKind'
  <2>1. Post!Touched(q) \subseteq Post!Touched(r)
    BY <1>4, PostIdle, PostTouches
  <2> QED
    BY <1>1, <1>2, <1>6, <2>1 DEF Post!OneOfEachKind, r
<1>16. post'.status \in {"PUBLISHED", "BLOCKED"} /\ "status" \notin overlapped => post'.dated
  BY <1>7, <1>8, <1>12 DEF published
<1>17. Post!StatusAsRead'
  <2>1. ASSUME NEW t \in Sessions
        PROVE  /\ req'[t].op \in {"idle", "delete"} \/ req'[t].at = "announce" => req'[t].to = Post!Keep
               /\ req'[t].at = "announce" => req'[t].op = "update"
               /\ req'[t].op = "update" => req'[t].to # "BLOCKED"
               /\ req'[t].op = "block" => req'[t].to = "BLOCKED"
               /\ req'[t].op = "unblock" => req'[t].to = "PUBLISHED"
               /\ "status" \notin overlapped =>
                    /\ req'[t].op = "update" /\ req'[t].to # Post!Keep => post'.status # "BLOCKED"
                    /\ req'[t].op = "block"   => post'.status = "PUBLISHED"
                    /\ req'[t].op = "unblock" => post'.status = "BLOCKED"
    <3>1. CASE t = s
      BY <1>4, <1>6, <3>1, PostIdle DEF Post!Keep
    <3>2. CASE t # s
      BY <1>2, <1>6, <1>7, <1>13, <3>2 DEF Post!StatusAsRead, Post!Keep
    <3> QED
      BY <3>1, <3>2
  <2> QED
    BY <1>1, <1>16, <2>1 DEF Post!StatusAsRead
<1>18. Post!ToAnnounce'
  <2> SUFFICES ASSUME overlapped = {}, NEW t \in Sessions, req'[t].op = "update", req'[t].newly,
                      post'.status \in {"PUBLISHED", "BLOCKED"}
               PROVE  req'[t].at = "announce" /\ announced < publications'
    BY <1>1 DEF Post!ToAnnounce
  <2>1. CASE t = s
    <3>1. r.op = "update" /\ r.newly
      BY <1>4, <1>5, <1>6, <2>1, PostIdle
    <3>2. post.status \notin {"PUBLISHED", "BLOCKED"}
      BY <1>1, <1>2, <3>1 DEF Post!ToAnnounce, r
    <3>3. publications' = publications + 1
      BY <1>7, <1>11, <1>12, <3>1, <3>2 DEF published
    <3> QED
      BY <1>2, <1>3, <1>4, <1>6, <2>1, <3>1, <3>3 DEF Post!AnnouncedOnce
  <2>2. CASE t # s
    <3>1. r.op # "update" /\ req[t].op = "update" /\ req[t].newly /\ req'[t] = req[t]
      BY <1>6, <1>13, <2>2
    <3>2. post.status \in {"PUBLISHED", "BLOCKED"}
      BY <1>7, <1>12, <3>1
    <3> QED
      BY <1>2, <1>3, <1>11, <3>1, <3>2 DEF Post!ToAnnounce
  <2> QED
    BY <2>1, <2>2
<1>19. Post!BlockedStaysBlocked' /\ Post!AnnouncedOnce'
  <2>1. "status" \notin overlapped => (barred' <=> post'.status = "BLOCKED")
    BY <1>2, <1>7, <1>10, <1>12 DEF Post!BlockedStaysBlocked, Post!Keep
  <2>2. overlapped = {} => announced <= publications'
    BY <1>2, <1>3, <1>11 DEF Post!AnnouncedOnce
  <2> QED
    BY <1>1, <1>16, <2>1, <2>2 DEF Post!BlockedStaysBlocked, Post!AnnouncedOnce
<1> QED
  BY <1>14, <1>15, <1>17, <1>18, <1>19 DEF Post!ModerationIInv

\* A handler ends, announcing the post or giving up.
LEMMA PostEnds ==
    ASSUME Post!ModerationIInv, NEW s \in Sessions, Post!Announce(s) \/ Post!Abandon(s)
    PROVE  Post!ModerationIInv'
<1>1. /\ req' = [req EXCEPT ![s] = Post!NoHandler] /\ UNCHANGED <<post, publications, barred, overlapped>>
      /\ \/ announced' = announced
         \/ /\ req[s].at = "announce" /\ req[s].newly /\ post.status = "PUBLISHED"
            /\ announced' = announced + 1 /\ announced' <= 3
  <2>1. CASE Post!Announce(s)
    <3>1. announced \in 0..3
      BY PostTypedReq DEF Post!ModerationIInv
    <3>2. announced' = announced + (IF req[s].newly /\ post.status = "PUBLISHED" THEN 1 ELSE 0) /\ announced' <= 3
      BY <2>1 DEF Post!Announce
    <3> QED
      BY <2>1, <3>1, <3>2 DEF Post!Announce
  <2>2. CASE Post!Abandon(s)
    BY <2>2 DEF Post!Abandon
  <2> QED
    BY <2>1, <2>2
<1>2. /\ Post!ModerationTypeOK /\ Post!OneOfEachKind /\ Post!StatusAsRead /\ Post!ToAnnounce
      /\ Post!BlockedStaysBlocked /\ Post!AnnouncedOnce
  BY DEF Post!ModerationIInv
<1>3. req'[s] = Post!NoHandler /\ (\A t \in Sessions \ {s} : req'[t] = req[t]) /\ req' \in [Sessions -> PostHandlers]
  BY <1>1, <1>2, PostTypedReq, PostIdle
<1>4. announced \in 0..3 /\ publications \in 0..2 /\ announced' \in 0..3
  BY <1>1, <1>2, PostTypedReq
<1>5. Post!ModerationTypeOK'
  BY <1>1, <1>2, <1>3, <1>4, PostTypedReq DEF Post!ModerationTypeOK, PostHandlers
<1>6. Post!OneOfEachKind'
  BY <1>1, <1>2, <1>3, PostIdle DEF Post!OneOfEachKind
<1>7. Post!StatusAsRead'
  BY <1>1, <1>2, <1>3, PostIdle DEF Post!StatusAsRead
<1>8. overlapped = {} /\ announced' # announced =>
        /\ announced < publications
        /\ \A t \in Sessions \ {s} : req[t].op # "update"
  <2> SUFFICES ASSUME overlapped = {}, announced' # announced
               PROVE  /\ announced < publications
                      /\ \A t \in Sessions \ {s} : req[t].op # "update"
    OBVIOUS
  <2>1. req[s].op = "update" /\ req[s].newly /\ post.status = "PUBLISHED"
    BY <1>1, <1>2 DEF Post!StatusAsRead
  <2> QED
    BY <1>2, <2>1, PostTouches DEF Post!ToAnnounce, Post!OneOfEachKind
<1>9. Post!ToAnnounce'
  BY <1>1, <1>2, <1>3, <1>8, PostIdle DEF Post!ToAnnounce
<1>10. Post!BlockedStaysBlocked' /\ Post!AnnouncedOnce'
  BY <1>1, <1>2, <1>4, <1>8 DEF Post!BlockedStaysBlocked, Post!AnnouncedOnce
<1> QED
  BY <1>5, <1>6, <1>7, <1>9, <1>10 DEF Post!ModerationIInv

LEMMA PostNext ==
    ASSUME Post!ModerationIInv, Post!ModerationNext
    PROVE  Post!ModerationIInv'
<1>1. PICK s \in Sessions :
        \/ \E status \in Post!Statuses \ {"BLOCKED"} : Post!Update(s, status)
        \/ Post!Block(s) \/ Post!Unblock(s) \/ Post!Delete(s)
        \/ Post!Save(s) \/ Post!Announce(s) \/ Post!Abandon(s)
  BY DEF Post!ModerationNext
<1>2. ASSUME NEW status \in Post!Statuses \ {"BLOCKED"}, Post!Update(s, status)
      PROVE  Post!ModerationIInv'
  <2> DEFINE to == IF status = post.status THEN Post!Keep ELSE status
             r  == [op |-> "update", at |-> "save", newly |-> post.status # "PUBLISHED", to |-> to]
  <2>1. to \in Post!Statuses \cup {Post!Keep} /\ to # "BLOCKED" /\ post.status # "BLOCKED" /\ Post!Begin(s, r)
    BY <1>2 DEF Post!Update, Post!Editable, Post!Keep
  <2> HIDE DEF to
  <2>2. r \in PostHandlers /\ r.at = "save" /\ r.op = "update" /\ r.to = to
    BY <2>1 DEF PostHandlers
  <2>3. r.newly => post.status # "PUBLISHED"
    BY Zenon
  <2> HIDE DEF r
  <2> QED
    BY <2>1, <2>2, <2>3, PostBegins
<1>3. ASSUME Post!Block(s) PROVE Post!ModerationIInv'
  <2> DEFINE r == [Post!NoHandler EXCEPT !.op = "block", !.at = "save", !.to = "BLOCKED"]
  <2>1. r \in PostHandlers /\ r.at = "save" /\ r.op = "block" /\ r.to = "BLOCKED"
    BY PostIdle DEF PostHandlers, Post!Statuses
  <2>2. Post!Begin(s, r) /\ post.status = "PUBLISHED"
    BY <1>3 DEF Post!Block
  <2> HIDE DEF r
  <2> QED
    BY <2>1, <2>2, PostBegins
<1>4. ASSUME Post!Unblock(s) PROVE Post!ModerationIInv'
  <2> DEFINE r == [Post!NoHandler EXCEPT !.op = "unblock", !.at = "save", !.to = "PUBLISHED"]
  <2>1. r \in PostHandlers /\ r.at = "save" /\ r.op = "unblock" /\ r.to = "PUBLISHED"
    BY PostIdle DEF PostHandlers, Post!Statuses
  <2>2. Post!Begin(s, r) /\ post.status = "BLOCKED"
    BY <1>4 DEF Post!Unblock
  <2> HIDE DEF r
  <2> QED
    BY <2>1, <2>2, PostBegins
<1>5. ASSUME Post!Delete(s) PROVE Post!ModerationIInv'
  <2> DEFINE r == [Post!NoHandler EXCEPT !.op = "delete", !.at = "save"]
  <2>1. r \in PostHandlers /\ r.at = "save" /\ r.op = "delete" /\ r.to = Post!Keep
    BY PostIdle DEF PostHandlers
  <2>2. Post!Begin(s, r)
    BY <1>5 DEF Post!Delete
  <2> HIDE DEF r
  <2> QED
    BY <2>1, <2>2, PostBegins
<1> QED
  BY <1>1, <1>2, <1>3, <1>4, <1>5, PostSaves, PostEnds

LEMMA PostStarts == ASSUME Post!ModerationInit PROVE Post!ModerationIInv
<1>1. PICK status \in Post!Statuses \ {"BLOCKED"} :
        /\ post = [status |-> status, deleted |-> FALSE, dated |-> status = "PUBLISHED"]
        /\ publications = IF status = "PUBLISHED" THEN 1 ELSE 0
        /\ announced = publications
  BY DEF Post!ModerationInit
<1>2. /\ req \in [Sessions -> PostHandlers] /\ (\A s \in Sessions : req[s] = Post!NoHandler)
      /\ barred = FALSE /\ overlapped = {}
  BY PostIdle DEF Post!ModerationInit
<1>3. post \in [status: Post!Statuses, deleted: BOOLEAN, dated: BOOLEAN] /\ post.status = status /\ status # "BLOCKED"
  BY <1>1
<1>4. post.dated = (status = "PUBLISHED")
  BY <1>1, Zenon
<1>5. barred \in BOOLEAN
  BY <1>2, Zenon
<1>6. publications \in 0..1 /\ announced = publications
  BY <1>1
<1>7. Post!ModerationTypeOK
  BY <1>2, <1>3, <1>5, <1>6, PostTypedReq
<1>8. Post!OneOfEachKind /\ Post!StatusAsRead /\ Post!ToAnnounce
  BY <1>2, <1>3, <1>4, PostIdle DEF Post!OneOfEachKind, Post!StatusAsRead, Post!ToAnnounce
<1>9. Post!BlockedStaysBlocked /\ Post!AnnouncedOnce
  BY <1>2, <1>3, <1>4, <1>6 DEF Post!BlockedStaysBlocked, Post!AnnouncedOnce
<1> QED
  BY <1>7, <1>8, <1>9 DEF Post!ModerationIInv

----------------------------------------------------------------------------
(* A popular place: the new file of a handler is its own until the row has *)
(* it, and what a handler deletes is no place's.                           *)

PlaceHandlers ==
    [op: {"idle", "create", "update", "delete"}, at: {"idle", "file", "commit", "refresh", "undo", "unlink"},
     place: Businesses \cup {NoBusiness}, new: Images \cup {NoImage}, old: Images \cup {NoImage}]

LEMMA PlaceTypedReq ==
    Place!TypeOK <=>
        /\ rows \in [Businesses -> Images \cup {NoImage}] /\ files \subseteq Images
        /\ req \in [Sessions -> PlaceHandlers] /\ overlapped \in BOOLEAN /\ cut \in BOOLEAN
  BY DEF Place!TypeOK, PlaceHandlers

LEMMA PlaceIdle ==
    /\ Place!Idle \in PlaceHandlers /\ Place!Idle.op = "idle" /\ Place!Idle.at = "idle"
    /\ Place!Idle.place = NoBusiness /\ Place!Idle.new = NoImage /\ Place!Idle.old = NoImage
  BY DEF Place!Idle, PlaceHandlers

LEMMA PlaceHandler ==
    ASSUME Place!TypeOK, NEW s \in Sessions, NEW r \in PlaceHandlers, req' = [req EXCEPT ![s] = r]
    PROVE  /\ req' \in [Sessions -> PlaceHandlers] /\ req'[s] = r /\ (\A t \in Sessions \ {s} : req'[t] = req[t])
           /\ req[s] \in PlaceHandlers
  BY PlaceTypedReq

LEMMA PlaceBegins ==
    ASSUME Place!IInv, NEW s \in Sessions, NEW op \in {"create", "update", "delete"},
           NEW p \in Businesses, NEW old \in Images \cup {NoImage},
           Place!Begin(s, op, IF op = "delete" THEN "commit" ELSE "file", p, old),
           IF op = "create" THEN old = NoImage ELSE old = rows[p] /\ old # NoImage
    PROVE  Place!IInv'
<1> DEFINE r == [op |-> op, at |-> IF op = "delete" THEN "commit" ELSE "file", place |-> p, new |-> NoImage, old |-> old]
<1>1. /\ req[s] = Place!Idle /\ req' = [req EXCEPT ![s] = r]
      /\ overlapped' = (overlapped \/ \E t \in Sessions : req[t] # Place!Idle)
      /\ UNCHANGED <<rows, files, cut>>
  BY DEF Place!Begin
<1>2. /\ r \in PlaceHandlers /\ r.op = op /\ r.at = (IF op = "delete" THEN "commit" ELSE "file")
      /\ r.place = p /\ r.new = NoImage /\ r.old = old
  BY DEF PlaceHandlers
<1> HIDE DEF r
<1>3. Place!TypeOK
  BY DEF Place!IInv
<1>4. req' \in [Sessions -> PlaceHandlers] /\ req'[s] = r /\ (\A t \in Sessions \ {s} : req'[t] = req[t])
  BY <1>1, <1>2, <1>3, PlaceHandler
<1>5. Place!TypeOK'
  <2>1. overlapped' \in BOOLEAN
    BY <1>1
  <2> QED
    BY <1>1, <1>3, <1>4, <2>1, PlaceTypedReq DEF Place!TypeOK, PlaceHandlers
<1> SUFFICES ASSUME ~cut
             PROVE  Place!FilesApart' /\ Place!OneHandler' /\ Place!ImageServed'
  BY <1>1, <1>5 DEF Place!IInv, Place!ImageServed
<1>6. Place!FilesApart /\ Place!OneHandler /\ Place!ImageServed
  BY DEF Place!IInv
<1>7. ASSUME NEW t \in Sessions PROVE Place!HandlerApart(t)'
  <2>1. CASE t = s
    BY <1>1, <1>2, <1>4, <1>6, <2>1, NoneAssumption DEF Place!FilesApart, Place!HandlerApart
  <2>2. CASE t # s
    BY <1>1, <1>2, <1>4, <1>6, <2>2 DEF Place!FilesApart, Place!HandlerApart
  <2> QED
    BY <2>1, <2>2
<1>8. Place!FilesApart'
  BY <1>1, <1>6, <1>7 DEF Place!FilesApart
<1>9. Place!OneHandler'
  BY <1>1, <1>2, <1>4, <1>6, PlaceIdle DEF Place!OneHandler
<1>10. Place!ImageServed'
  <2>1. \A i \in Images : i \in Place!Named => i \in Place!Named'
    BY <1>1, <1>4, PlaceIdle, NoneAssumption DEF Place!Named
  <2>2. Place!Existing' = Place!Existing /\ files \subseteq Images
    BY <1>1, <1>3 DEF Place!Existing, Place!TypeOK
  <2> QED
    BY <1>1, <1>6, <2>1, <2>2 DEF Place!ImageServed
<1> QED
  BY <1>8, <1>9, <1>10

LEMMA PlaceWrites ==
    ASSUME Place!IInv, NEW s \in Sessions, Place!WriteFile(s)
    PROVE  Place!IInv'
<1>1. PICK i \in Images \ (files \cup Place!Named \cup {rows[p] : p \in Businesses}) :
        /\ req[s].at = "file" /\ files' = files \cup {i}
        /\ req' = [req EXCEPT ![s].at = "commit", ![s].new = i]
        /\ UNCHANGED <<rows, overlapped, cut>>
  BY DEF Place!WriteFile
<1> DEFINE r == [req[s] EXCEPT !.at = "commit", !.new = i]
<1>2. Place!TypeOK /\ req[s] \in PlaceHandlers
  BY PlaceTypedReq DEF Place!IInv
<1>3. req' = [req EXCEPT ![s] = r]
  BY <1>1, <1>2, PlaceTypedReq
<1>4. r \in PlaceHandlers /\ r.op = req[s].op /\ r.at = "commit" /\ r.place = req[s].place /\ r.new = i /\ r.old = req[s].old
  BY <1>2 DEF PlaceHandlers
<1> HIDE DEF r
<1>5. req' \in [Sessions -> PlaceHandlers] /\ req'[s] = r /\ (\A t \in Sessions \ {s} : req'[t] = req[t])
  BY <1>2, <1>3, <1>4, PlaceHandler
<1>6. /\ i \in Images /\ i \notin files /\ (\A p \in Businesses : rows[p] # i) /\ files' = files \cup {i}
      /\ \A t \in Sessions : req[t].new # i /\ req[t].old # i
      /\ UNCHANGED <<rows, overlapped, cut>> /\ req[s].at = "file"
  BY <1>1 DEF Place!Named
<1>7. Place!TypeOK'
  BY <1>2, <1>5, <1>6, PlaceTypedReq DEF Place!TypeOK, PlaceHandlers
<1> SUFFICES ASSUME ~cut
             PROVE  Place!FilesApart' /\ Place!OneHandler' /\ Place!ImageServed'
  BY <1>6, <1>7 DEF Place!IInv, Place!ImageServed
<1>8. Place!FilesApart /\ Place!OneHandler /\ Place!ImageServed
  BY DEF Place!IInv
<1>9. ASSUME NEW t \in Sessions PROVE Place!HandlerApart(t)'
  <2>1. CASE t = s
    BY <1>4, <1>5, <1>6, <1>8, <2>1, NoneAssumption, PlaceIdle DEF Place!FilesApart, Place!HandlerApart
  <2>2. CASE t # s
    BY <1>4, <1>5, <1>6, <1>8, <2>2 DEF Place!FilesApart, Place!HandlerApart
  <2> QED
    BY <2>1, <2>2
<1>10. Place!FilesApart'
  BY <1>6, <1>8, <1>9 DEF Place!FilesApart
<1>11. Place!OneHandler'
  BY <1>4, <1>5, <1>6, <1>8, PlaceIdle DEF Place!OneHandler
<1>12. Place!ImageServed'
  <2>1. req[s].new = NoImage
    BY <1>6, <1>8 DEF Place!FilesApart, Place!HandlerApart
  <2>2. i \in Place!Named' /\ \A j \in Images : j \in Place!Named => j \in Place!Named'
    BY <1>4, <1>5, <2>1, NoneAssumption DEF Place!Named
  <2>3. Place!Existing' = Place!Existing /\ files \subseteq Images
    BY <1>2, <1>6 DEF Place!Existing, Place!TypeOK
  <2> QED
    BY <1>6, <1>8, <2>2, <2>3 DEF Place!ImageServed
<1> QED
  BY <1>10, <1>11, <1>12

LEMMA PlaceCommits ==
    ASSUME Place!IInv, NEW s \in Sessions, Place!Commit(s)
    PROVE  Place!IInv'
<1> DEFINE p == req[s].place
           new == req[s].new
           r == [req[s] EXCEPT !.at = IF req[s].op = "delete" THEN "unlink" ELSE "refresh"]
<1>1. /\ req[s].at = "commit" /\ Place!Possible(req[s]) /\ rows' = [rows EXCEPT ![p] = new]
      /\ UNCHANGED <<files, overlapped, cut>>
  BY DEF Place!Commit
<1>2. Place!TypeOK /\ req[s] \in PlaceHandlers
  BY PlaceTypedReq DEF Place!IInv
<1>3. req' = [req EXCEPT ![s] = r]
  BY <1>2, PlaceTypedReq DEF Place!Commit
<1>4. /\ r \in PlaceHandlers /\ r.op = req[s].op /\ r.place = p /\ r.new = new /\ r.old = req[s].old
      /\ r.at = IF req[s].op = "delete" THEN "unlink" ELSE "refresh"
  BY <1>2 DEF PlaceHandlers
<1> HIDE DEF r
<1>5. req' \in [Sessions -> PlaceHandlers] /\ req'[s] = r /\ (\A t \in Sessions \ {s} : req'[t] = req[t])
  BY <1>2, <1>3, <1>4, PlaceHandler
<1>6. new \in Images \cup {NoImage} /\ rows' \in [Businesses -> Images \cup {NoImage}]
  BY <1>1, <1>2, PlaceTypedReq DEF PlaceHandlers
<1>7. Place!TypeOK'
  BY <1>1, <1>2, <1>5, <1>6, PlaceTypedReq DEF Place!TypeOK, PlaceHandlers
<1> SUFFICES ASSUME ~cut
             PROVE  Place!FilesApart' /\ Place!OneHandler' /\ Place!ImageServed'
  BY <1>1, <1>7 DEF Place!IInv, Place!ImageServed
<1>8. Place!FilesApart /\ Place!OneHandler /\ Place!ImageServed
  BY DEF Place!IInv
<1>9. /\ p \in Businesses /\ rows'[p] = new /\ (\A q \in Businesses \ {p} : rows'[q] = rows[q])
      /\ req[s].op = "delete" => new = NoImage
      /\ req[s].op # "delete" =>
            /\ new # NoImage /\ new \in files /\ new # req[s].old /\ (\A q \in Businesses : rows[q] # new)
            /\ \A t \in Sessions \ {s} : req[t].new # new /\ req[t].old # new
      /\ req[s].op \in {"create", "update", "delete"}
  BY <1>1, <1>2, <1>8, PlaceTypedReq DEF Place!FilesApart, Place!HandlerApart, PlaceHandlers
<1>10. ASSUME NEW t \in Sessions PROVE Place!HandlerApart(t)'
  <2>1. CASE t = s
    BY <1>1, <1>4, <1>5, <1>8, <1>9, <2>1 DEF Place!FilesApart, Place!HandlerApart
  <2>2. CASE t # s
    <3>1. Place!HandlerApart(t) /\ req'[t] = req[t] /\ req[t] \in PlaceHandlers
      BY <1>2, <1>5, <1>8, <2>2, PlaceTypedReq DEF Place!FilesApart
    <3>2. CASE req[s].op = "delete"
      BY <1>1, <1>4, <1>5, <1>9, <2>2, <3>1, <3>2 DEF Place!HandlerApart
    <3>3. CASE req[s].op # "delete"
      BY <1>1, <1>4, <1>5, <1>9, <2>2, <3>1, <3>3 DEF Place!HandlerApart
    <3> QED
      BY <3>2, <3>3
  <2> QED
    BY <2>1, <2>2
<1>11. Place!FilesApart'
  BY <1>8, <1>9, <1>10 DEF Place!FilesApart
<1>12. Place!OneHandler'
  BY <1>1, <1>4, <1>5, <1>8, <1>9, PlaceIdle DEF Place!OneHandler
<1>13. Place!ImageServed'
  <2>1. \A i : i \in Place!Named <=> i \in Place!Named'
    BY <1>4, <1>5 DEF Place!Named
  <2>2. ASSUME NEW q \in Businesses, rows'[q] # NoImage PROVE rows'[q] \in files
    BY <1>8, <1>9, <2>2 DEF Place!ImageServed, Place!Existing
  <2>3. ASSUME ~overlapped, NEW i \in files, i \notin Place!Named
        PROVE  \E q \in Businesses : rows'[q] # NoImage /\ rows'[q] = i
    <3>1. PICK q \in Businesses : rows[q] # NoImage /\ rows[q] = i
      BY <1>8, <2>3 DEF Place!ImageServed, Place!Existing
    <3>2. q # p
      <4> SUFFICES ASSUME q = p PROVE FALSE
        OBVIOUS
      <4>1. req[s].op # "create"
        BY <1>1, <3>1 DEF Place!Possible, Place!Existing
      <4>2. req[s].old # NoImage
        BY <1>8, <1>9, <4>1 DEF Place!FilesApart, Place!HandlerApart
      <4>3. req[s].old = rows[p]
        BY <1>1, <1>8, <2>3, <4>2 DEF Place!OneHandler
      <4> QED
        BY <2>3, <3>1, <4>3 DEF Place!Named
    <3> QED
      BY <1>9, <3>1, <3>2
  <2>4. \A q \in Businesses : q \in Place!Existing' <=> rows'[q] # NoImage
    BY DEF Place!Existing
  <2>5. Place!Existing' \subseteq Businesses
    BY DEF Place!Existing
  <2> QED
    BY <1>1, <2>1, <2>2, <2>3, <2>4, <2>5 DEF Place!ImageServed
<1> QED
  BY <1>11, <1>12, <1>13

\* A handler goes on to undo what it wrote or to delete what it replaced.
LEMMA PlaceGoesOn ==
    ASSUME Place!IInv, ~cut, NEW s \in Sessions, NEW stage \in {"undo", "unlink"},
           req' = [req EXCEPT ![s].at = stage], UNCHANGED <<rows, files, overlapped, cut>>,
           req[s].at \in {"commit", "refresh"}, req[s].op # "delete",
           stage = "undo" => rows[req[s].place] # req[s].new,
           stage = "unlink" => req[s].at = "refresh",
           stage = "undo" /\ ~overlapped => req[s].old \in {NoImage, rows[req[s].place]}
    PROVE  Place!IInv'
<1> DEFINE r == [req[s] EXCEPT !.at = stage]
<1>1. /\ Place!TypeOK /\ Place!FilesApart /\ Place!OneHandler /\ Place!ImageServed
      /\ req[s] \in PlaceHandlers
  BY PlaceTypedReq DEF Place!IInv
<1>2. r \in PlaceHandlers /\ r.op = req[s].op /\ r.at = stage /\ r.place = req[s].place /\ r.new = req[s].new /\ r.old = req[s].old
  BY <1>1 DEF PlaceHandlers
<1>3. req' = [req EXCEPT ![s] = r]
  BY <1>1, PlaceTypedReq
<1> HIDE DEF r
<1>4. req' \in [Sessions -> PlaceHandlers] /\ req'[s] = r /\ (\A t \in Sessions \ {s} : req'[t] = req[t])
  BY <1>1, <1>2, <1>3, PlaceHandler
<1>5. Place!TypeOK'
  BY <1>1, <1>4, PlaceTypedReq DEF Place!TypeOK, PlaceHandlers
<1>6. ASSUME NEW t \in Sessions PROVE Place!HandlerApart(t)'
  <2>1. CASE t = s
    BY <1>1, <1>2, <1>4, <2>1 DEF Place!FilesApart, Place!HandlerApart
  <2>2. CASE t # s
    BY <1>1, <1>2, <1>4, <2>2 DEF Place!FilesApart, Place!HandlerApart
  <2> QED
    BY <2>1, <2>2
<1>7. Place!FilesApart'
  BY <1>1, <1>6 DEF Place!FilesApart
<1>8. Place!OneHandler'
  BY <1>1, <1>2, <1>4, PlaceIdle DEF Place!OneHandler
<1>9. Place!ImageServed'
  <2>1. \A i : i \in Place!Named <=> i \in Place!Named'
    BY <1>2, <1>4 DEF Place!Named
  <2>2. Place!Existing' = Place!Existing
    BY DEF Place!Existing
  <2> QED
    BY <1>1, <2>1, <2>2 DEF Place!ImageServed
<1> QED
  BY <1>5, <1>7, <1>8, <1>9 DEF Place!IInv

\* A handler ends, and may have deleted a file that is no place's.
LEMMA PlaceEnds ==
    ASSUME Place!IInv, ~cut, NEW s \in Sessions, req' = [req EXCEPT ![s] = Place!Idle],
           UNCHANGED <<rows, overlapped, cut>>,
           req[s].at # "idle",
           files' = files \/ \E i \in {req[s].new, req[s].old} :
                                files' = files \ {i} /\ (i # NoImage => \A q \in Businesses : rows[q] # i),
           ~overlapped => \A i \in {req[s].new, req[s].old} \ {NoImage} :
                              i \notin files' \/ \E q \in Businesses : rows[q] = i
    PROVE  Place!IInv'
<1>1. /\ Place!TypeOK /\ Place!FilesApart /\ Place!OneHandler /\ Place!ImageServed
      /\ rows \in [Businesses -> Images \cup {NoImage}] /\ files \subseteq Images
  BY PlaceTypedReq DEF Place!IInv
<1>2. req' \in [Sessions -> PlaceHandlers] /\ req'[s] = Place!Idle /\ (\A t \in Sessions \ {s} : req'[t] = req[t])
  BY <1>1, PlaceHandler, PlaceIdle
<1>3. files' \subseteq files /\ \A i \in files \ files' : i \in {req[s].new, req[s].old} /\ (\A q \in Businesses : rows[q] # i)
  BY <1>1, NoneAssumption
<1>4. Place!TypeOK'
  BY <1>1, <1>2, <1>3, PlaceTypedReq DEF Place!TypeOK, PlaceHandlers
<1>5. ASSUME NEW t \in Sessions PROVE Place!HandlerApart(t)'
  <2>1. CASE t = s
    BY <1>1, <1>2, <2>1, PlaceIdle, NoneAssumption DEF Place!HandlerApart
  <2>2. CASE t # s
    <3>1. Place!HandlerApart(t)
      BY <1>1 DEF Place!FilesApart
    <3>2. req[t].at = "commit" /\ req[t].op # "delete" => req[t].new \in files' /\ req[t].new # NoImage
      BY <1>3, <2>2, <3>1 DEF Place!HandlerApart
    <3> QED
      BY <1>2, <2>2, <3>1, <3>2, PlaceIdle DEF Place!HandlerApart
  <2> QED
    BY <2>1, <2>2
<1>6. Place!FilesApart'
  BY <1>1, <1>5 DEF Place!FilesApart
<1>7. Place!OneHandler'
  BY <1>1, <1>2, PlaceIdle DEF Place!OneHandler
<1>8. Place!ImageServed'
  <2>1. \A i \in Place!Named : i \in {req[s].new, req[s].old} \/ i \in Place!Named'
    BY <1>2 DEF Place!Named
  <2>2. Place!Existing' = Place!Existing /\ Place!Existing = {q \in Businesses : rows[q] # NoImage}
    BY DEF Place!Existing
  <2>3. ASSUME NEW q \in Place!Existing PROVE rows[q] \in files'
    BY <1>1, <1>3, <2>2, <2>3 DEF Place!ImageServed
  <2>4. ASSUME ~overlapped, NEW i \in files', i \notin Place!Named'
        PROVE  \E q \in Place!Existing : rows[q] = i
    BY <1>1, <1>3, <2>1, <2>2, <2>4, NoneAssumption DEF Place!ImageServed
  <2> QED
    BY <2>2, <2>3, <2>4 DEF Place!ImageServed
<1> QED
  BY <1>4, <1>6, <1>7, <1>8 DEF Place!IInv

\* Nothing more is said of the files when a process died or lost its connection.
LEMMA PlaceCut ==
    ASSUME Place!IInv, NEW s \in Sessions, NEW r \in PlaceHandlers, req' = [req EXCEPT ![s] = r],
           rows' = rows, overlapped' = overlapped, files' \subseteq files, cut' = TRUE
    PROVE  Place!IInv'
<1>1. Place!TypeOK
  BY DEF Place!IInv
<1>2. req' \in [Sessions -> PlaceHandlers]
  BY <1>1, PlaceHandler
<1>3. cut' \in BOOLEAN
  BY Zenon
<1>4. Place!TypeOK'
  BY <1>1, <1>2, <1>3, PlaceTypedReq DEF Place!TypeOK, PlaceHandlers
<1> QED
  BY <1>4 DEF Place!IInv, Place!ImageServed

LEMMA PlaceMoves ==
    ASSUME Place!IInv, NEW s \in Sessions,
           Place!CommitFails(s) \/ Place!Refresh(s) \/ Place!DeleteFile(s) \/ Place!Refuse(s) \/ Place!Crash(s)
    PROVE  Place!IInv'
<1> DEFINE r == req[s]
<1>1. Place!TypeOK /\ r \in PlaceHandlers /\ cut \in BOOLEAN
  BY PlaceTypedReq DEF Place!IInv
<1>2. CASE cut
  <2>1. cut' = TRUE /\ rows' = rows /\ overlapped' = overlapped /\ files' \subseteq files
    BY <1>1, <1>2 DEF Place!CommitFails, Place!Refresh, Place!DeleteFile, Place!Refuse, Place!Crash
  <2>2. \A stage \in {"undo", "unlink"} : [r EXCEPT !.at = stage] \in PlaceHandlers
    BY <1>1 DEF PlaceHandlers
  <2>3. PICK q \in PlaceHandlers : req' = [req EXCEPT ![s] = q]
    BY <2>2, PlaceIdle DEF Place!CommitFails, Place!Refresh, Place!DeleteFile, Place!Refuse, Place!Crash
  <2> QED
    BY <2>1, <2>3, PlaceCut
<1> SUFFICES ASSUME ~cut PROVE Place!IInv'
  BY <1>2
<1>3. /\ Place!FilesApart /\ Place!OneHandler /\ Place!HandlerApart(s)
  BY DEF Place!IInv, Place!FilesApart
<1>4. CASE Place!CommitFails(s)
  <2>1. r.at = "commit" /\ UNCHANGED <<rows, files, overlapped, cut>>
    BY <1>4 DEF Place!CommitFails
  <2>2. CASE r.op = "delete"
    <3>1. req' = [req EXCEPT ![s] = Place!Idle]
      BY <1>4, <2>2 DEF Place!CommitFails
    <3>2. r.new = NoImage /\ r.place \in Businesses /\ (~overlapped => r.old \in {NoImage, rows[r.place]})
      BY <1>3, <2>1, <2>2 DEF Place!HandlerApart, Place!OneHandler
    <3> QED
      BY <2>1, <3>1, <3>2, PlaceEnds
  <2>3. CASE r.op # "delete"
    <3>1. req' = [req EXCEPT ![s].at = "undo"]
      BY <1>4, <2>3 DEF Place!CommitFails
    <3>2. rows[r.place] # r.new /\ (~overlapped => r.old \in {NoImage, rows[r.place]})
      BY <1>3, <2>1, <2>3 DEF Place!HandlerApart, Place!OneHandler
    <3> QED
      BY <2>1, <2>3, <3>1, <3>2, PlaceGoesOn
  <2> QED
    BY <2>2, <2>3
<1>5. CASE Place!Refresh(s)
  <2>1. r.at = "refresh" /\ UNCHANGED <<rows, files, overlapped>>
    BY <1>5 DEF Place!Refresh
  <2>2. r.op # "delete" /\ r.new # NoImage /\ r.place \in Businesses /\ (~overlapped => rows[r.place] = r.new)
    BY <1>3, <2>1 DEF Place!HandlerApart, Place!OneHandler
  <2>3. CASE req' = [req EXCEPT ![s].at = "undo"] /\ cut' = TRUE
    <3>1. [r EXCEPT !.at = "undo"] \in PlaceHandlers /\ req' = [req EXCEPT ![s] = [r EXCEPT !.at = "undo"]]
      BY <1>1, <2>3 DEF PlaceHandlers
    <3> QED
      BY <2>1, <2>3, <3>1, PlaceCut
  <2>4. CASE /\ req' = [req EXCEPT ![s] = CASE r.place \notin Place!Existing -> [r EXCEPT !.at = "undo"]
                                           [] r.place \in Place!Existing /\ r.op = "create" -> Place!Idle
                                           [] OTHER -> [r EXCEPT !.at = "unlink"]]
             /\ UNCHANGED cut
    <3>1. CASE r.place \notin Place!Existing
      <4>1. req' = [req EXCEPT ![s].at = "undo"] /\ rows[r.place] = NoImage
        BY <2>2, <2>4, <3>1 DEF Place!Existing
      <4> QED
        BY <2>1, <2>2, <2>4, <4>1, PlaceGoesOn
    <3>2. CASE r.place \in Place!Existing /\ r.op = "create"
      <4>1. req' = [req EXCEPT ![s] = Place!Idle] /\ r.old = NoImage /\ UNCHANGED cut
        BY <1>3, <2>4, <3>2 DEF Place!HandlerApart
      <4> QED
        BY <2>1, <2>2, <4>1, PlaceEnds
    <3>3. CASE r.place \in Place!Existing /\ r.op # "create"
      <4>1. req' = [req EXCEPT ![s].at = "unlink"]
        BY <2>4, <3>3
      <4> QED
        BY <2>1, <2>2, <2>4, <4>1, PlaceGoesOn
    <3> QED
      BY <3>1, <3>2, <3>3
  <2> QED
    BY <1>5, <2>3, <2>4 DEF Place!Refresh
<1>6. CASE Place!DeleteFile(s)
  <2>1. /\ r.at \in {"undo", "unlink"} /\ files' = files \ {IF r.at = "undo" THEN r.new ELSE r.old}
        /\ req' = [req EXCEPT ![s] = Place!Idle] /\ UNCHANGED <<rows, overlapped, cut>>
    BY <1>6 DEF Place!DeleteFile, Place!Deleted
  <2>2. CASE r.at = "undo"
    <3>1. /\ \A q \in Businesses : rows[q] # r.new
          /\ r.place \in Businesses /\ (~overlapped => r.old \in {NoImage, rows[r.place]})
      BY <1>3, <2>2 DEF Place!HandlerApart, Place!OneHandler
    <3> QED
      BY <2>1, <2>2, <3>1, PlaceEnds
  <2>3. CASE r.at = "unlink"
    <3>1. /\ r.old # NoImage => \A q \in Businesses : rows[q] # r.old
          /\ r.place \in Businesses /\ (~overlapped => rows[r.place] = r.new)
      BY <1>3, <2>3 DEF Place!HandlerApart, Place!OneHandler
    <3> QED
      BY <2>1, <2>3, <3>1, PlaceEnds
  <2> QED
    BY <2>1, <2>2, <2>3
<1>7. CASE Place!Refuse(s)
  <2>1. r.at = "file" /\ req' = [req EXCEPT ![s] = Place!Idle] /\ UNCHANGED <<rows, files, overlapped, cut>>
    BY <1>7 DEF Place!Refuse
  <2>2. r.new = NoImage /\ r.place \in Businesses /\ (~overlapped => r.old \in {NoImage, rows[r.place]})
    BY <1>3, <2>1 DEF Place!HandlerApart, Place!OneHandler
  <2> QED
    BY <2>1, <2>2, PlaceEnds
<1>8. CASE Place!Crash(s)
  BY <1>8, PlaceIdle, PlaceCut DEF Place!Crash
<1> QED
  BY <1>4, <1>5, <1>6, <1>7, <1>8

LEMMA PlaceNext ==
    ASSUME Place!IInv, Place!Next
    PROVE  Place!IInv'
<1>1. PICK s \in Sessions :
        \/ Place!Create(s) \/ \E p \in Businesses : Place!Update(s, p) \/ Place!Delete(s, p)
        \/ Place!WriteFile(s) \/ Place!Commit(s) \/ Place!CommitFails(s) \/ Place!Refresh(s) \/ Place!DeleteFile(s)
        \/ Place!Refuse(s) \/ Place!Crash(s)
  BY DEF Place!Next
<1>2. rows \in [Businesses -> Images \cup {NoImage}]
  BY PlaceTypedReq DEF Place!IInv
<1>3. ASSUME Place!Create(s) PROVE Place!IInv'
  <2>1. PICK p \in Businesses : Place!Begin(s, "create", "file", p, NoImage)
    BY <1>3 DEF Place!Create
  <2> QED
    BY <2>1, PlaceBegins
<1>4. ASSUME NEW p \in Businesses, Place!Update(s, p) PROVE Place!IInv'
  <2>1. Place!Begin(s, "update", "file", p, rows[p]) /\ rows[p] # NoImage /\ rows[p] \in Images \cup {NoImage}
    BY <1>2, <1>4 DEF Place!Update, Place!Existing
  <2> QED
    BY <2>1, PlaceBegins
<1>5. ASSUME NEW p \in Businesses, Place!Delete(s, p) PROVE Place!IInv'
  <2>1. Place!Begin(s, "delete", "commit", p, rows[p]) /\ rows[p] # NoImage /\ rows[p] \in Images \cup {NoImage}
    BY <1>2, <1>5 DEF Place!Delete, Place!Existing
  <2> QED
    BY <2>1, PlaceBegins
<1> QED
  BY <1>1, <1>3, <1>4, <1>5, PlaceWrites, PlaceCommits, PlaceMoves

LEMMA PlaceStarts == ASSUME Place!Init PROVE Place!IInv
<1>1. /\ rows = [p \in Businesses |-> NoImage] /\ files = {} /\ overlapped = FALSE /\ cut = FALSE
      /\ req \in [Sessions -> PlaceHandlers] /\ \A s \in Sessions : req[s] = Place!Idle
  BY PlaceIdle DEF Place!Init
<1>2. overlapped \in BOOLEAN /\ cut \in BOOLEAN
  BY <1>1, Zenon
<1>3. Place!TypeOK
  BY <1>1, <1>2, PlaceTypedReq
<1>4. \A s \in Sessions : Place!HandlerApart(s)
  BY <1>1, PlaceIdle DEF Place!HandlerApart
<1>5. Place!FilesApart /\ Place!OneHandler
  BY <1>1, <1>4, PlaceIdle DEF Place!FilesApart, Place!OneHandler
<1>6. Place!ImageServed
  BY <1>1 DEF Place!ImageServed, Place!Existing
<1> QED
  BY <1>3, <1>5, <1>6 DEF Place!IInv

----------------------------------------------------------------------------
(* Products: what a handler has read of one that no other wrote still      *)
(* holds, and the images it is to add are its own.                         *)

CatalogPrice == [selling: 1..2, original: 1..2]
CatalogHandlers ==
    [op: {"idle", "create", "price", "add_image", "remove_image"}, at: {"idle", "save", "commit", "erase"},
     product: Businesses \cup {NoBusiness}, sku: Users \cup {"no_sku"}, images: SUBSET Images,
     seen: CatalogPrice, write: CatalogPrice]

LEMMA CatalogTypedReq ==
    Catalog!TypeOK <=>
        /\ sku \in [Businesses -> Users \cup {"no_sku"}] /\ price \in [Businesses -> CatalogPrice]
        /\ rows \in [Images -> Businesses \cup {NoBusiness}] /\ files \subseteq Images
        /\ req \in [Sessions -> CatalogHandlers]
        /\ overlapped \subseteq Businesses /\ left \subseteq Images /\ cut \in BOOLEAN
  BY DEF Catalog!TypeOK, CatalogHandlers, CatalogPrice, Catalog!Price, Catalog!Prices, Catalog!NoSku

LEMMA CatalogIdle ==
    /\ Catalog!Idle \in CatalogHandlers /\ Catalog!Idle.op = "idle" /\ Catalog!Idle.at = "idle"
    /\ Catalog!Idle.product = NoBusiness /\ Catalog!Idle.images = {} /\ Catalog!Idle.seen \in CatalogPrice
    /\ Catalog!Idle.seen.selling = 1 /\ Catalog!Idle.seen.original = 1
<1>1. [selling |-> 1, original |-> 1] \in CatalogPrice
  BY DEF CatalogPrice
<1> QED
  BY <1>1 DEF Catalog!Idle, CatalogHandlers, Catalog!NoSku

LEMMA CatalogHandler ==
    ASSUME Catalog!TypeOK, NEW s \in Sessions, NEW r \in CatalogHandlers, req' = [req EXCEPT ![s] = r]
    PROVE  /\ req' \in [Sessions -> CatalogHandlers] /\ req'[s] = r /\ (\A t \in Sessions \ {s} : req'[t] = req[t])
           /\ req[s] \in CatalogHandlers
  BY CatalogTypedReq

LEMMA CatalogOf ==
    ASSUME NEW p
    PROVE  /\ \A i : i \in Catalog!Of(p) <=> i \in Images /\ rows[i] = p
           /\ \A i : i \in Catalog!Of(p)' <=> i \in Images /\ rows'[i] = p
           /\ IsFiniteSet(Catalog!Of(p)) /\ Cardinality(Catalog!Of(p)) \in Nat
           /\ IsFiniteSet(Catalog!Of(p)') /\ Cardinality(Catalog!Of(p)') \in Nat
           /\ Catalog!Cardinality(Catalog!Of(p)) = Cardinality(Catalog!Of(p))
           /\ Catalog!Cardinality(Catalog!Of(p)') = Cardinality(Catalog!Of(p)')
           /\ Catalog!Of(p)' \subseteq Catalog!Of(p) => Cardinality(Catalog!Of(p)') <= Cardinality(Catalog!Of(p))
<1>1. /\ \A i : i \in Catalog!Of(p) <=> i \in Images /\ rows[i] = p
      /\ \A i : i \in Catalog!Of(p)' <=> i \in Images /\ rows'[i] = p
  BY DEF Catalog!Of
<1>2. IsFiniteSet(Catalog!Of(p)) /\ IsFiniteSet(Catalog!Of(p)')
  BY <1>1, FiniteAssumption, FS_Subset
<1>3. \A S : Catalog!Cardinality(S) = Cardinality(S)
  BY DEF Catalog!Cardinality, Cardinality
<1>4. Catalog!Of(p)' \subseteq Catalog!Of(p) => Cardinality(Catalog!Of(p)') <= Cardinality(Catalog!Of(p))
  BY <1>2, FS_Subset
<1> QED
  BY <1>1, <1>2, <1>3, <1>4, FS_CardinalityType

\* What a handler knows and holds stays so when others leave its product and
\* images alone.
LEMMA CatalogOther ==
    ASSUME Catalog!IInv, NEW t \in Sessions, req'[t] = req[t], overlapped \subseteq overlapped',
           req[t].op # "idle" => (Catalog!Exists(req[t].product)' <=> Catalog!Exists(req[t].product)),
           \A u \in Sessions \ {t} : req[t].op = "create" \/ (req[t].op # "idle" /\ req[t].product \notin overlapped') =>
               req'[u].product # req[t].product,
           req[t].op = "price" /\ req[t].product \notin overlapped' => price'[req[t].product] = price[req[t].product],
           req[t].op = "add_image" /\ req[t].product \notin overlapped' =>
               \A i \in Images : rows'[i] = req[t].product => rows[i] = req[t].product,
           \A i \in req[t].images : rows[i] = NoBusiness => rows'[i] = NoBusiness,
           req[t].op \in {"create", "add_image"} =>
               /\ \A i \in req[t].images : i \in files <=> i \in files'
               /\ \A u \in Sessions \ {t} : req[t].images \cap req'[u].images = {}
    PROVE  Catalog!CreatesAlone(t)' /\ Catalog!ReadHolds(t)' /\ Catalog!ImagesApart(t)'
<1>1. Catalog!CreatesAlone(t) /\ Catalog!ReadHolds(t) /\ Catalog!ImagesApart(t)
  BY DEF Catalog!IInv
<1>2. Catalog!CreatesAlone(t)'
  BY <1>1 DEF Catalog!CreatesAlone
<1> DEFINE p == req[t].product
           size == Cardinality(Catalog!Of(p))
           size2 == Cardinality(Catalog!Of(p)')
<1>3. Catalog!ReadHolds(t)'
  <2>1. /\ size \in Nat /\ size2 \in Nat
        /\ Catalog!Cardinality(Catalog!Of(p)) = size /\ Catalog!Cardinality(Catalog!Of(p)') = size2
    BY CatalogOf
  <2>2. req[t].op = "add_image" /\ req[t].product \notin overlapped' => size2 <= size
    BY CatalogOf
  <2>3. Catalog!Of(req[t].product)' = Catalog!Of(p)'
    BY DEF Catalog!Of
  <2> HIDE DEF size, size2
  <2>4. req[t].op = "add_image" /\ req[t].product \notin overlapped' => size < 2
    BY <1>1, <2>1 DEF Catalog!ReadHolds
  <2>5. req[t].op = "add_image" /\ req[t].product \notin overlapped' => size2 < 2
    BY <2>1, <2>2, <2>4
  <2>6. req[t].op = "add_image" /\ req[t].product \notin overlapped' => Catalog!Cardinality(Catalog!Of(p)') < 2
    BY <2>1, <2>5
  <2> QED
    BY <1>1, <2>6 DEF Catalog!ReadHolds, Catalog!Of
<1>4. Catalog!ImagesApart(t)'
  BY <1>1 DEF Catalog!ImagesApart
<1> QED
  BY <1>2, <1>3, <1>4

\* A handler begins, of a product that is there, or to create one.
LEMMA CatalogBegins ==
    ASSUME Catalog!IInv, NEW s \in Sessions, NEW r \in CatalogHandlers, Catalog!Begin(s, r),
           r.op # "idle", r.product \in Businesses, Catalog!Exists(r.product) <=> r.op # "create",
           r.op = "create" =>
               /\ r.sku # "no_sku" /\ Catalog!Cardinality(r.images) <= 2 /\ r.write.selling <= r.write.original
               /\ \A o \in Sessions : req[o].product # r.product,
           r.op = "price" => /\ r.at = "commit" /\ r.write.selling <= r.write.original /\ r.images = {}
                             /\ r.seen = price[r.product],
           r.op = "add_image" =>
               /\ Catalog!Cardinality(Catalog!Of(r.product)) < 2
               /\ \E i \in Images : r.images = {i},
           r.op \in {"create", "add_image"} => r.at = "save" /\ \A i \in r.images : ~Catalog!InUse(i),
           r.op = "remove_image" => r.at = "commit" /\ \A i \in r.images : rows[i] # NoBusiness
    PROVE  Catalog!IInv'
<1> DEFINE busy == {p \in {r.product} : \E o \in Sessions : req[o].product = p}
<1>1. /\ req[s].op = "idle" /\ req' = [req EXCEPT ![s] = r] /\ overlapped' = overlapped \cup busy
      /\ UNCHANGED <<sku, price, rows, files, left, cut>>
  BY DEF Catalog!Begin
<1>2. Catalog!TypeOK /\ Catalog!ProductsConsistent /\ Catalog!FilesKept
  BY DEF Catalog!IInv
<1>3. req' \in [Sessions -> CatalogHandlers] /\ req'[s] = r /\ (\A t \in Sessions \ {s} : req'[t] = req[t])
  BY <1>1, <1>2, CatalogHandler
<1>4. overlapped \subseteq overlapped' /\ overlapped' \subseteq Businesses
  BY <1>1, <1>2, CatalogTypedReq
<1>5. Catalog!TypeOK'
  BY <1>1, <1>2, <1>3, <1>4, CatalogTypedReq
     DEF Catalog!TypeOK, CatalogHandlers, CatalogPrice, Catalog!Price, Catalog!Prices, Catalog!NoSku
<1>6. \A p : Catalog!Of(p)' = Catalog!Of(p) /\ (Catalog!Exists(p)' <=> Catalog!Exists(p))
  BY <1>1 DEF Catalog!Of, Catalog!Exists
<1>7. ASSUME NEW t \in Sessions \ {s}
      PROVE  Catalog!CreatesAlone(t)' /\ Catalog!ReadHolds(t)' /\ Catalog!ImagesApart(t)'
  <2>1. Catalog!CreatesAlone(t) /\ Catalog!ReadHolds(t) /\ Catalog!ImagesApart(t)
    BY DEF Catalog!IInv
  <2>2. ASSUME NEW u \in Sessions \ {t}, req[t].op = "create" \/ (req[t].op # "idle" /\ req[t].product \notin overlapped')
        PROVE  req'[u].product # req[t].product
    <3>1. CASE u = s
      <4>1. req[t].op = "create" => req[t].product # r.product
        BY <2>1 DEF Catalog!CreatesAlone
      <4>2. req[t].product \notin overlapped' => req[t].product # r.product
        BY <1>1
      <4> QED
        BY <1>3, <2>2, <3>1, <4>1, <4>2
    <3>2. CASE u # s
      BY <1>3, <1>4, <2>1, <2>2, <3>2 DEF Catalog!CreatesAlone, Catalog!ReadHolds
    <3> QED
      BY <3>1, <3>2
  <2>3. ASSUME req[t].op \in {"create", "add_image"}, NEW u \in Sessions \ {t}
        PROVE  req[t].images \cap req'[u].images = {}
    <3>1. CASE u = s
      <4>1. \A i \in req[t].images : i \in Images /\ rows[i] = NoBusiness /\ Catalog!InUse(i)
        BY <1>2, <2>1, <2>3, CatalogTypedReq DEF Catalog!ImagesApart, Catalog!InUse, CatalogHandlers
      <4>2. r.op = "price" => r.images = {}
        OBVIOUS
      <4> QED
        BY <1>3, <3>1, <4>1, <4>2 DEF CatalogHandlers
    <3>2. CASE u # s
      BY <1>3, <2>1, <2>3, <3>2 DEF Catalog!ImagesApart
    <3> QED
      BY <3>1, <3>2
  <2> QED
    BY <1>1, <1>3, <1>4, <1>6, <2>2, <2>3, CatalogOther
<1>8. Catalog!CreatesAlone(s)'
  BY <1>1, <1>3, <1>6 DEF Catalog!CreatesAlone, Catalog!NoSku
<1>9. Catalog!ReadHolds(s)'
  <2>1. r.product \notin overlapped' => \A t \in Sessions : req[t].product # r.product
    BY <1>1
  <2> HIDE DEF busy
  <2> QED
    BY <1>1, <1>3, <1>6, <2>1 DEF Catalog!ReadHolds
<1>10. Catalog!ImagesApart(s)'
  <2>1. r.op \in {"create", "add_image"} =>
          /\ \A i \in r.images : rows[i] = NoBusiness /\ i \notin files
          /\ \A t \in Sessions \ {s} : r.images \cap req[t].images = {}
    BY DEF Catalog!InUse
  <2>2. r.at # "erase" /\ (r.op \in {"create", "add_image"} => r.at = "save")
    BY DEF CatalogHandlers
  <2>3. r.op \in {"create", "add_image"} => r.images \cap files = {}
    BY <2>1
  <2> QED
    BY <1>1, <1>3, <2>1, <2>2, <2>3 DEF Catalog!ImagesApart
<1>11. Catalog!ProductsConsistent'
  BY <1>1, <1>2, <1>4, <1>6 DEF Catalog!ProductsConsistent
<1>12. Catalog!FilesKept'
  <2>1. req[s].images = {}
    BY <1>1 DEF Catalog!IInv, Catalog!CreatesAlone
  <2>2. \A t \in Sessions, i \in Images : i \in req[t].images => req'[t] = req[t]
    BY <1>3, <2>1
  <2>3. files \subseteq Images
    BY <1>2, CatalogTypedReq
  <2> QED
    BY <1>1, <1>2, <1>6, <2>2, <2>3 DEF Catalog!FilesKept
<1> QED
  BY <1>5, <1>7, <1>8, <1>9, <1>10, <1>11, <1>12 DEF Catalog!IInv

\* The end of a handler, or its next stage, with the same product and images.
CatalogGoesOn(s, r) ==
    /\ req' = [req EXCEPT ![s] = r] /\ r \in CatalogHandlers
    /\ r = Catalog!Idle \/ (r.op = req[s].op /\ r.product = req[s].product /\ r.images = req[s].images)

\* The others of a handler that goes on.
LEMMA CatalogOthers ==
    ASSUME Catalog!IInv, NEW s \in Sessions, NEW r, CatalogGoesOn(s, r), overlapped' = overlapped,
           NEW t \in Sessions \ {s},
           \A p \in Businesses \ {req[s].product} :
               sku'[p] = sku[p] /\ price'[p] = price[p] /\ \A i \in Images : rows'[i] = p => rows[i] = p,
           sku[req[s].product] # "no_sku" => sku'[req[s].product] # "no_sku",
           \A i \in Images \ req[s].images : (i \in files <=> i \in files') /\ rows'[i] = rows[i],
           req[s].op \notin {"create", "add_image"} => \A i \in Images : rows[i] = NoBusiness => rows'[i] = NoBusiness
    PROVE  Catalog!CreatesAlone(t)' /\ Catalog!ReadHolds(t)' /\ Catalog!ImagesApart(t)'
<1>1. /\ Catalog!TypeOK /\ Catalog!CreatesAlone(t) /\ Catalog!ReadHolds(t) /\ Catalog!ImagesApart(t)
      /\ Catalog!CreatesAlone(s) /\ Catalog!ReadHolds(s) /\ Catalog!ImagesApart(s)
      /\ req[t] \in CatalogHandlers /\ req[s] \in CatalogHandlers
  BY CatalogTypedReq DEF Catalog!IInv
<1>2. /\ req'[s] = r /\ \A u \in Sessions \ {s} : req'[u] = req[u]
      /\ r \in CatalogHandlers
  BY <1>1, CatalogHandler DEF CatalogGoesOn
<1>3. r.product \in {NoBusiness, req[s].product} /\ r.images \subseteq req[s].images
  BY CatalogIdle DEF CatalogGoesOn
<1>4. ASSUME NEW u \in Sessions \ {t}, req[t].op = "create" \/ (req[t].op # "idle" /\ req[t].product \notin overlapped')
      PROVE  req'[u].product # req[t].product /\ req[u].product # req[t].product
  <2>1. req[u].product # req[t].product
    BY <1>1, <1>4 DEF Catalog!CreatesAlone, Catalog!ReadHolds
  <2>2. req[t].product # NoBusiness
    BY <1>1, <1>4, NoneAssumption DEF Catalog!CreatesAlone
  <2> QED
    BY <1>2, <1>3, <2>1, <2>2
<1>5. req[t].op # "idle" => req[t].product \in Businesses
  BY <1>1 DEF Catalog!CreatesAlone
<1>6. req[t].op # "idle" => (sku'[req[t].product] # "no_sku" <=> sku[req[t].product] # "no_sku")
  <2>1. req[t].op # "idle" /\ req[t].product = req[s].product => sku[req[t].product] # "no_sku"
    BY <1>1, <1>4, <1>5, NoneAssumption DEF Catalog!CreatesAlone, Catalog!Exists, Catalog!NoSku
  <2> QED
    BY <1>5, <2>1
<1>7. req[t].op # "idle" /\ req[t].product \notin overlapped' =>
        /\ price'[req[t].product] = price[req[t].product]
        /\ \A i \in Images : rows'[i] = req[t].product => rows[i] = req[t].product
  <2>1. req[t].op # "idle" /\ req[t].product \notin overlapped' => req[t].product \in Businesses \ {req[s].product}
    BY <1>4, <1>5
  <2> QED
    BY <2>1
<1>8. req[t].images \subseteq Images
  BY <1>1 DEF CatalogHandlers
<1>9. \A i \in req[t].images : rows[i] = NoBusiness => rows'[i] = NoBusiness
  BY <1>1, <1>8 DEF Catalog!ImagesApart
<1>10. req[t].op \in {"create", "add_image"} =>
         /\ \A i \in req[t].images : i \in files <=> i \in files'
         /\ \A u \in Sessions \ {t} : req[t].images \cap req'[u].images = {}
  <2>1. req[t].op \in {"create", "add_image"} => req[t].images \cap req[s].images = {}
    BY <1>1 DEF Catalog!ImagesApart
  <2>2. req[t].op \in {"create", "add_image"} => \A u \in Sessions \ {t} : req[t].images \cap req'[u].images = {}
    BY <1>1, <1>2, <1>3, <2>1 DEF Catalog!ImagesApart
  <2> QED
    BY <1>8, <2>1, <2>2
<1>11. req[t].op # "idle" => (Catalog!Exists(req[t].product)' <=> Catalog!Exists(req[t].product))
  BY <1>2, <1>6 DEF Catalog!Exists, Catalog!NoSku
<1> QED
  BY <1>2, <1>4, <1>7, <1>9, <1>10, <1>11, CatalogOther

\* The files are saved, all or those before one that fails.
LEMMA CatalogSaves ==
    ASSUME Catalog!IInv, NEW s \in Sessions, Catalog!SaveFiles(s) \/ Catalog!SaveFails(s)
    PROVE  Catalog!IInv'
<1>1. /\ Catalog!TypeOK /\ Catalog!ProductsConsistent /\ Catalog!FilesKept
      /\ Catalog!CreatesAlone(s) /\ Catalog!ReadHolds(s) /\ Catalog!ImagesApart(s) /\ req[s] \in CatalogHandlers
  BY CatalogTypedReq DEF Catalog!IInv
<1>2. /\ req[s].op \in {"create", "add_image"} /\ req[s].at = "save"
      /\ UNCHANGED <<sku, price, rows, overlapped, cut>>
  BY DEF Catalog!SaveFiles, Catalog!SaveFails
<1> DEFINE next == [req[s] EXCEPT !.at = "commit"]
<1>3. /\ next \in CatalogHandlers /\ next.op = req[s].op /\ next.at = "commit" /\ next.product = req[s].product
      /\ next.sku = req[s].sku /\ next.images = req[s].images /\ next.write = req[s].write /\ next.seen = req[s].seen
  BY <1>1 DEF CatalogHandlers
<1>4. PICK r \in {next, Catalog!Idle} :
        /\ req' = [req EXCEPT ![s] = r]
        /\ r = next => files' = files \cup req[s].images /\ left' = left
        /\ r = Catalog!Idle => \E before \in SUBSET req[s].images : files' = files \cup before /\ left' = left \cup before
  <2>1. CASE Catalog!SaveFiles(s)
    <3>1. next # Catalog!Idle
      BY <1>3, CatalogIdle
    <3>2. req' = [req EXCEPT ![s] = next]
      BY <1>1, <2>1, CatalogTypedReq DEF Catalog!SaveFiles
    <3> QED
      BY <2>1, <3>1, <3>2 DEF Catalog!SaveFiles
  <2>2. CASE Catalog!SaveFails(s)
    <3>1. next # Catalog!Idle
      BY <1>3, CatalogIdle
    <3> QED
      BY <2>2, <3>1 DEF Catalog!SaveFails, Catalog!End
  <2> QED
    BY <2>1, <2>2
<1> HIDE DEF next
<1>5. CatalogGoesOn(s, r)
  BY <1>2, <1>3, <1>4, CatalogIdle DEF CatalogGoesOn
<1>6. req' \in [Sessions -> CatalogHandlers] /\ req'[s] = r /\ (\A t \in Sessions \ {s} : req'[t] = req[t])
  BY <1>1, <1>3, <1>4, CatalogIdle, CatalogHandler
<1>7. /\ files \subseteq files' /\ (\A i \in files' \ files : i \in req[s].images) /\ files' \subseteq Images
      /\ left \subseteq left' /\ left' \subseteq Images
      /\ \A i \in files' \ files : r = Catalog!Idle => i \in left'
  BY <1>1, <1>4, CatalogTypedReq DEF CatalogHandlers
<1>8. Catalog!TypeOK'
  BY <1>1, <1>2, <1>6, <1>7, CatalogTypedReq
     DEF Catalog!TypeOK, CatalogHandlers, CatalogPrice, Catalog!Price, Catalog!Prices, Catalog!NoSku
<1>9. \A p : Catalog!Of(p)' = Catalog!Of(p) /\ (Catalog!Exists(p)' <=> Catalog!Exists(p))
  BY <1>2 DEF Catalog!Of, Catalog!Exists
<1>10. \A t \in Sessions \ {s} : Catalog!CreatesAlone(t)' /\ Catalog!ReadHolds(t)' /\ Catalog!ImagesApart(t)'
  BY <1>2, <1>5, <1>7, <1>9, CatalogOthers
<1>11. Catalog!CreatesAlone(s)' /\ Catalog!ReadHolds(s)' /\ Catalog!ImagesApart(s)'
  <2>1. CASE r = next
    <3>1. Catalog!CreatesAlone(s)'
      BY <1>1, <1>2, <1>3, <1>6, <1>9, <2>1 DEF Catalog!CreatesAlone
    <3>2. Catalog!ReadHolds(s)'
      BY <1>1, <1>2, <1>3, <1>6, <1>9, <2>1 DEF Catalog!ReadHolds
    <3>3. Catalog!ImagesApart(s)'
      BY <1>1, <1>2, <1>3, <1>4, <1>6, <2>1 DEF Catalog!ImagesApart
    <3> QED
      BY <3>1, <3>2, <3>3
  <2>2. CASE r = Catalog!Idle
    BY <1>6, <2>2, CatalogIdle DEF Catalog!CreatesAlone, Catalog!ReadHolds, Catalog!ImagesApart
  <2> QED
    BY <1>4, <2>1, <2>2
<1>12. Catalog!ProductsConsistent'
  BY <1>1, <1>2, <1>9 DEF Catalog!ProductsConsistent
<1>13. Catalog!FilesKept'
  <2>1. ASSUME ~cut, NEW i \in files' \ left', rows[i] = NoBusiness
        PROVE  \E t \in Sessions : i \in req'[t].images /\ (req'[t].op \in {"create", "add_image"} \/ req'[t].at = "erase")
    <3>1. CASE i \in files
      <4>1. PICK t \in Sessions : i \in req[t].images /\ (req[t].op \in {"create", "add_image"} \/ req[t].at = "erase")
        BY <1>1, <1>7, <2>1, <3>1 DEF Catalog!FilesKept
      <4>2. t # s
        BY <1>1, <1>2, <3>1, <4>1 DEF Catalog!ImagesApart
      <4> QED
        BY <1>6, <4>1, <4>2
    <3>2. CASE i \notin files
      BY <1>2, <1>3, <1>4, <1>6, <1>7, <2>1, <3>2
    <3> QED
      BY <3>1, <3>2
  <2> QED
    BY <1>1, <1>2, <1>7, <1>9, <2>1 DEF Catalog!FilesKept
<1> QED
  BY <1>8, <1>10, <1>11, <1>12, <1>13 DEF Catalog!IInv

\* A handler ends with the rows as they were, having erased its files or kept
\* them; those it was to give a row, or to erase, only if its process died.
LEMMA CatalogEnds ==
    ASSUME Catalog!IInv, NEW s \in Sessions, req' = [req EXCEPT ![s] = Catalog!Idle],
           UNCHANGED <<sku, price, rows, overlapped, left>>,
           cut' \in BOOLEAN, cut => cut',
           \/ files' = files \ req[s].images /\ \A i \in req[s].images : rows[i] = NoBusiness
           \/ /\ files' = files
              /\ \/ cut' \/ req[s].images \cap files = {}
                 \/ req[s].op \notin {"create", "add_image"} /\ req[s].at # "erase"
    PROVE  Catalog!IInv'
<1>1. /\ Catalog!TypeOK /\ Catalog!ProductsConsistent /\ Catalog!FilesKept /\ Catalog!ImagesApart(s)
      /\ req[s] \in CatalogHandlers /\ files \subseteq Images
  BY CatalogTypedReq DEF Catalog!IInv
<1>2. CatalogGoesOn(s, Catalog!Idle)
  BY CatalogIdle DEF CatalogGoesOn
<1>3. req' \in [Sessions -> CatalogHandlers] /\ req'[s] = Catalog!Idle /\ (\A t \in Sessions \ {s} : req'[t] = req[t])
  BY <1>1, CatalogIdle, CatalogHandler
<1>4. files' \subseteq files /\ \A i \in files \ files' : i \in req[s].images /\ rows[i] = NoBusiness
  OBVIOUS
<1>5. Catalog!TypeOK'
  BY <1>1, <1>3, <1>4, CatalogTypedReq
     DEF Catalog!TypeOK, CatalogHandlers, CatalogPrice, Catalog!Price, Catalog!Prices, Catalog!NoSku
<1>6. \A p : Catalog!Of(p)' = Catalog!Of(p) /\ (Catalog!Exists(p)' <=> Catalog!Exists(p))
  BY DEF Catalog!Of, Catalog!Exists
<1>7. \A t \in Sessions \ {s} : Catalog!CreatesAlone(t)' /\ Catalog!ReadHolds(t)' /\ Catalog!ImagesApart(t)'
  BY <1>2, <1>4, CatalogOthers
<1>8. Catalog!CreatesAlone(s)' /\ Catalog!ReadHolds(s)' /\ Catalog!ImagesApart(s)'
  BY <1>3, CatalogIdle DEF Catalog!CreatesAlone, Catalog!ReadHolds, Catalog!ImagesApart
<1>9. Catalog!ProductsConsistent'
  BY <1>1, <1>6 DEF Catalog!ProductsConsistent
<1>10. Catalog!FilesKept'
  <2>1. ASSUME ~cut', NEW i \in files' \ left, rows[i] = NoBusiness
        PROVE  \E t \in Sessions : i \in req'[t].images /\ (req'[t].op \in {"create", "add_image"} \/ req'[t].at = "erase")
    <3>1. PICK t \in Sessions : i \in req[t].images /\ (req[t].op \in {"create", "add_image"} \/ req[t].at = "erase")
      BY <1>1, <1>4, <2>1 DEF Catalog!FilesKept
    <3>2. t # s
      BY <1>4, <2>1, <3>1
    <3> QED
      BY <1>3, <3>1, <3>2
  <2> QED
    BY <1>1, <1>4, <1>6, <2>1 DEF Catalog!FilesKept
<1> QED
  BY <1>5, <1>7, <1>8, <1>9, <1>10 DEF Catalog!IInv

\* A product is committed with its images.
LEMMA CatalogCreates ==
    ASSUME Catalog!IInv, NEW s \in Sessions, req[s].op = "create", req[s].at = "commit",
           req' = [req EXCEPT ![s] = Catalog!Idle], ~Catalog!Taken(req[s].sku),
           sku' = [sku EXCEPT ![req[s].product] = req[s].sku],
           price' = [price EXCEPT ![req[s].product] = req[s].write],
           rows' = [i \in Images |-> IF i \in req[s].images THEN req[s].product ELSE rows[i]],
           UNCHANGED <<files, overlapped, left, cut>>
    PROVE  Catalog!IInv'
<1> DEFINE p == req[s].product
<1>1. /\ Catalog!TypeOK /\ Catalog!ProductsConsistent /\ Catalog!FilesKept
      /\ Catalog!CreatesAlone(s) /\ Catalog!ReadHolds(s) /\ Catalog!ImagesApart(s)
      /\ req[s] \in CatalogHandlers /\ files \subseteq Images
  BY CatalogTypedReq DEF Catalog!IInv
<1>2. CatalogGoesOn(s, Catalog!Idle)
  BY CatalogIdle DEF CatalogGoesOn
<1>3. req' \in [Sessions -> CatalogHandlers] /\ req'[s] = Catalog!Idle /\ (\A t \in Sessions \ {s} : req'[t] = req[t])
  BY <1>1, CatalogIdle, CatalogHandler
<1>4. /\ p \in Businesses /\ p # NoBusiness /\ sku[p] = "no_sku" /\ req[s].sku # "no_sku" /\ req[s].sku \in Users \cup {"no_sku"}
      /\ req[s].write \in CatalogPrice /\ req[s].write.selling <= req[s].write.original
      /\ Catalog!Cardinality(req[s].images) <= 2 /\ req[s].images \subseteq files
      /\ \A i \in req[s].images : i \in Images /\ rows[i] = NoBusiness
  BY <1>1, NoneAssumption DEF Catalog!CreatesAlone, Catalog!ImagesApart, CatalogHandlers, Catalog!Exists, Catalog!NoSku
<1>5. /\ sku' \in [Businesses -> Users \cup {"no_sku"}] /\ sku'[p] = req[s].sku
      /\ \A q \in Businesses \ {p} : sku'[q] = sku[q] /\ sku[q] # req[s].sku
      /\ price' \in [Businesses -> CatalogPrice] /\ price'[p] = req[s].write
      /\ \A q \in Businesses \ {p} : price'[q] = price[q]
      /\ rows' \in [Images -> Businesses \cup {NoBusiness}]
      /\ \A i \in Images \ req[s].images : rows'[i] = rows[i]
      /\ \A i \in req[s].images : rows'[i] = p
  BY <1>1, <1>4, CatalogTypedReq DEF Catalog!Taken
<1>6. Catalog!TypeOK'
  BY <1>1, <1>3, <1>5, CatalogTypedReq
     DEF Catalog!TypeOK, CatalogHandlers, CatalogPrice, Catalog!Price, Catalog!Prices, Catalog!NoSku
<1>7. \A i \in Images : rows[i] # p
  BY <1>1, <1>4 DEF Catalog!FilesKept, Catalog!Exists, Catalog!Of, Catalog!NoSku
<1>8. \A q \in Businesses \ {p}, i \in Images : rows'[i] = q <=> rows[i] = q
  BY <1>4, <1>5, NoneAssumption
<1>9. \A t \in Sessions \ {s} : Catalog!CreatesAlone(t)' /\ Catalog!ReadHolds(t)' /\ Catalog!ImagesApart(t)'
  BY <1>2, <1>4, <1>5, <1>8, CatalogOthers
<1>10. Catalog!CreatesAlone(s)' /\ Catalog!ReadHolds(s)' /\ Catalog!ImagesApart(s)'
  BY <1>3, CatalogIdle DEF Catalog!CreatesAlone, Catalog!ReadHolds, Catalog!ImagesApart
<1>11. Catalog!ProductsConsistent'
  <2>1. ASSUME NEW q \in Businesses, NEW q2 \in Businesses, sku'[q] # "no_sku", sku'[q] = sku'[q2]
        PROVE  q = q2
    BY <1>1, <1>5, <2>1 DEF Catalog!ProductsConsistent, Catalog!Exists, Catalog!NoSku
  <2>2. ASSUME NEW q \in Businesses \ overlapped
        PROVE  price'[q].selling <= price'[q].original /\ Catalog!Cardinality(Catalog!Of(q)') <= 2
    <3>1. CASE q = p
      <4>1. Catalog!Of(q)' = req[s].images
        BY <1>4, <1>5, <1>7, <3>1 DEF Catalog!Of
      <4> QED
        BY <1>4, <1>5, <3>1, <4>1
    <3>2. CASE q # p
      <4>1. Catalog!Of(q)' = Catalog!Of(q)
        BY <1>8, <2>2, <3>2 DEF Catalog!Of
      <4> QED
        BY <1>1, <1>5, <2>2, <3>2, <4>1 DEF Catalog!ProductsConsistent
    <3> QED
      BY <3>1, <3>2
  <2> QED
    BY <2>1, <2>2 DEF Catalog!ProductsConsistent, Catalog!Exists, Catalog!NoSku, Catalog!Cardinality
<1>12. Catalog!FilesKept'
  <2>1. ASSUME ~cut, NEW i \in files \ left, rows'[i] = NoBusiness
        PROVE  \E t \in Sessions : i \in req'[t].images /\ (req'[t].op \in {"create", "add_image"} \/ req'[t].at = "erase")
    <3>1. i \notin req[s].images /\ rows[i] = NoBusiness
      BY <1>1, <1>4, <1>5, <2>1
    <3>2. PICK t \in Sessions : i \in req[t].images /\ (req[t].op \in {"create", "add_image"} \/ req[t].at = "erase")
      BY <1>1, <2>1, <3>1 DEF Catalog!FilesKept
    <3> QED
      BY <1>3, <3>1, <3>2
  <2>2. ASSUME NEW q \in Businesses, sku'[q] = "no_sku" PROVE Catalog!Of(q)' = {}
    <3>1. q # p /\ sku[q] = "no_sku"
      BY <1>4, <1>5, <2>2
    <3> QED
      BY <1>1, <1>8, <3>1 DEF Catalog!FilesKept, Catalog!Exists, Catalog!Of, Catalog!NoSku
  <2>3. \A i \in Images : rows'[i] # NoBusiness => i \in files
    BY <1>1, <1>4, <1>5 DEF Catalog!FilesKept
  <2> QED
    BY <2>1, <2>2, <2>3 DEF Catalog!FilesKept, Catalog!Exists, Catalog!NoSku
<1> QED
  BY <1>6, <1>9, <1>10, <1>11, <1>12 DEF Catalog!IInv

\* A price is written over the one read.
LEMMA CatalogPrices ==
    ASSUME Catalog!IInv, NEW s \in Sessions, Catalog!CommitPrice(s)
    PROVE  Catalog!IInv'
<1> DEFINE p == req[s].product
           seen == req[s].seen
           new == req[s].write
           now == [selling  |-> Catalog!Written(price[p].selling, seen.selling, new.selling),
                   original |-> Catalog!Written(price[p].original, seen.original, new.original)]
<1>1. /\ Catalog!TypeOK /\ Catalog!ProductsConsistent /\ Catalog!FilesKept
      /\ Catalog!CreatesAlone(s) /\ Catalog!ReadHolds(s)
      /\ req[s] \in CatalogHandlers /\ files \subseteq Images
  BY CatalogTypedReq DEF Catalog!IInv
<1>2. /\ req[s].op = "price" /\ req' = [req EXCEPT ![s] = Catalog!Idle] /\ price' = [price EXCEPT ![p] = now]
      /\ UNCHANGED <<sku, rows, files, overlapped, left, cut>>
  BY DEF Catalog!CommitPrice, Catalog!End
<1>3. CatalogGoesOn(s, Catalog!Idle)
  BY <1>2, CatalogIdle DEF CatalogGoesOn
<1>4. req' \in [Sessions -> CatalogHandlers] /\ req'[s] = Catalog!Idle /\ (\A t \in Sessions \ {s} : req'[t] = req[t])
  BY <1>1, <1>2, CatalogIdle, CatalogHandler
<1>5. /\ p \in Businesses /\ price[p] \in CatalogPrice /\ seen \in CatalogPrice /\ new \in CatalogPrice
      /\ new.selling <= new.original /\ (p \notin overlapped => seen = price[p])
  BY <1>1, <1>2, CatalogTypedReq DEF Catalog!CreatesAlone, Catalog!ReadHolds, CatalogHandlers
<1>6. now \in CatalogPrice /\ (p \notin overlapped => now.selling <= now.original)
  BY <1>5 DEF Catalog!Written, CatalogPrice
<1> HIDE DEF now
<1>7. price' \in [Businesses -> CatalogPrice] /\ price'[p] = now /\ \A q \in Businesses \ {p} : price'[q] = price[q]
  BY <1>1, <1>2, <1>5, <1>6, CatalogTypedReq
<1>8. Catalog!TypeOK'
  BY <1>1, <1>2, <1>4, <1>7, CatalogTypedReq
     DEF Catalog!TypeOK, CatalogHandlers, CatalogPrice, Catalog!Price, Catalog!Prices, Catalog!NoSku
<1>9. \A q : Catalog!Of(q)' = Catalog!Of(q) /\ (Catalog!Exists(q)' <=> Catalog!Exists(q))
  BY <1>2 DEF Catalog!Of, Catalog!Exists
<1>10. \A t \in Sessions \ {s} : Catalog!CreatesAlone(t)' /\ Catalog!ReadHolds(t)' /\ Catalog!ImagesApart(t)'
  BY <1>2, <1>3, <1>7, CatalogOthers
<1>11. Catalog!CreatesAlone(s)' /\ Catalog!ReadHolds(s)' /\ Catalog!ImagesApart(s)'
  BY <1>4, CatalogIdle DEF Catalog!CreatesAlone, Catalog!ReadHolds, Catalog!ImagesApart
<1>12. Catalog!ProductsConsistent'
  BY <1>1, <1>2, <1>6, <1>7, <1>9 DEF Catalog!ProductsConsistent
<1>13. Catalog!FilesKept'
  <2>1. ASSUME ~cut, NEW i \in files \ left, rows[i] = NoBusiness
        PROVE  \E t \in Sessions : i \in req'[t].images /\ (req'[t].op \in {"create", "add_image"} \/ req'[t].at = "erase")
    <3>1. PICK t \in Sessions : i \in req[t].images /\ (req[t].op \in {"create", "add_image"} \/ req[t].at = "erase")
      BY <1>1, <2>1 DEF Catalog!FilesKept
    <3>2. t # s
      BY <1>1, <1>2, <3>1 DEF Catalog!ReadHolds
    <3> QED
      BY <1>4, <3>1, <3>2
  <2> QED
    BY <1>1, <1>2, <1>9, <2>1 DEF Catalog!FilesKept
<1> QED
  BY <1>8, <1>10, <1>11, <1>12, <1>13 DEF Catalog!IInv

\* The row of one more image is committed.
LEMMA CatalogAddsImage ==
    ASSUME Catalog!IInv, NEW s \in Sessions, Catalog!CommitImage(s)
    PROVE  Catalog!IInv'
<1> DEFINE p == req[s].product
<1>1. /\ Catalog!TypeOK /\ Catalog!ProductsConsistent /\ Catalog!FilesKept
      /\ Catalog!CreatesAlone(s) /\ Catalog!ReadHolds(s) /\ Catalog!ImagesApart(s)
      /\ req[s] \in CatalogHandlers /\ files \subseteq Images
  BY CatalogTypedReq DEF Catalog!IInv
<1>2. /\ req[s].op = "add_image" /\ req[s].at = "commit" /\ req' = [req EXCEPT ![s] = Catalog!Idle]
      /\ rows' = [i \in Images |-> IF i \in req[s].images THEN p ELSE rows[i]]
      /\ UNCHANGED <<sku, price, files, overlapped, left, cut>>
  BY DEF Catalog!CommitImage, Catalog!End
<1>3. CatalogGoesOn(s, Catalog!Idle)
  BY <1>2, CatalogIdle DEF CatalogGoesOn
<1>4. req' \in [Sessions -> CatalogHandlers] /\ req'[s] = Catalog!Idle /\ (\A t \in Sessions \ {s} : req'[t] = req[t])
  BY <1>1, <1>2, CatalogIdle, CatalogHandler
<1>5. PICK new \in Images : req[s].images = {new} /\ rows[new] = NoBusiness /\ new \in files
  BY <1>1, <1>2 DEF Catalog!ImagesApart
<1>6. p \in Businesses /\ p # NoBusiness /\ sku[p] # "no_sku"
  BY <1>1, <1>2, NoneAssumption DEF Catalog!CreatesAlone, Catalog!Exists, Catalog!NoSku
<1>7. /\ rows' \in [Images -> Businesses \cup {NoBusiness}]
      /\ rows'[new] = p /\ \A i \in Images \ {new} : rows'[i] = rows[i]
  BY <1>1, <1>2, <1>5, <1>6, CatalogTypedReq
<1>8. Catalog!TypeOK'
  BY <1>1, <1>2, <1>4, <1>7, CatalogTypedReq
     DEF Catalog!TypeOK, CatalogHandlers, CatalogPrice, Catalog!Price, Catalog!Prices, Catalog!NoSku
<1>9. \A q \in Businesses \ {p}, i \in Images : rows'[i] = q <=> rows[i] = q
  BY <1>5, <1>6, <1>7, NoneAssumption
<1>10. \A t \in Sessions \ {s} : Catalog!CreatesAlone(t)' /\ Catalog!ReadHolds(t)' /\ Catalog!ImagesApart(t)'
  BY <1>2, <1>3, <1>5, <1>7, <1>9, CatalogOthers
<1>11. Catalog!CreatesAlone(s)' /\ Catalog!ReadHolds(s)' /\ Catalog!ImagesApart(s)'
  BY <1>4, CatalogIdle DEF Catalog!CreatesAlone, Catalog!ReadHolds, Catalog!ImagesApart
<1>12. Catalog!ProductsConsistent'
  <2>1. ASSUME NEW q \in Businesses \ overlapped
        PROVE  Catalog!Cardinality(Catalog!Of(q)') <= 2
    <3>1. CASE q = p
      <4>1. Catalog!Of(q)' = Catalog!Of(q) \cup {new}
        BY <1>7, <3>1, CatalogOf
      <4>2. Cardinality(Catalog!Of(q)) < 2
        BY <1>1, <1>2, <2>1, <3>1, CatalogOf DEF Catalog!ReadHolds
      <4>3. new \notin Catalog!Of(q)
        BY <1>5, <1>6, <3>1, CatalogOf
      <4>4. Cardinality(Catalog!Of(q) \cup {new}) = Cardinality(Catalog!Of(q)) + 1
        BY <4>3, CatalogOf, FS_AddElement
      <4> DEFINE size == Cardinality(Catalog!Of(q))
                 size2 == Cardinality(Catalog!Of(q)')
      <4>5. /\ size \in Nat /\ size2 = size + 1 /\ size < 2
            /\ Catalog!Cardinality(Catalog!Of(q)') = size2
        BY <4>1, <4>2, <4>4, CatalogOf
      <4> HIDE DEF size, size2
      <4>6. size2 <= 2
        BY <4>5
      <4> QED
        BY <4>5, <4>6
    <3>2. CASE q # p
      <4>1. Catalog!Of(q)' = Catalog!Of(q)
        BY <1>9, <2>1, <3>2 DEF Catalog!Of
      <4> QED
        BY <1>1, <2>1, <4>1 DEF Catalog!ProductsConsistent
    <3> QED
      BY <3>1, <3>2
  <2> QED
    BY <1>1, <1>2, <2>1 DEF Catalog!ProductsConsistent, Catalog!Exists, Catalog!NoSku, Catalog!Cardinality
<1>13. Catalog!FilesKept'
  <2>1. ASSUME ~cut, NEW i \in files \ left, rows'[i] = NoBusiness
        PROVE  \E t \in Sessions : i \in req'[t].images /\ (req'[t].op \in {"create", "add_image"} \/ req'[t].at = "erase")
    <3>1. i \notin req[s].images /\ rows[i] = NoBusiness
      BY <1>1, <1>5, <1>6, <1>7, <2>1
    <3>2. PICK t \in Sessions : i \in req[t].images /\ (req[t].op \in {"create", "add_image"} \/ req[t].at = "erase")
      BY <1>1, <2>1, <3>1 DEF Catalog!FilesKept
    <3> QED
      BY <1>4, <3>1, <3>2
  <2>2. ASSUME NEW q \in Businesses, sku[q] = "no_sku" PROVE Catalog!Of(q)' = {}
    BY <1>1, <1>6, <1>9, <2>2 DEF Catalog!FilesKept, Catalog!Exists, Catalog!Of, Catalog!NoSku
  <2>3. \A i \in Images : rows'[i] # NoBusiness => i \in files
    BY <1>1, <1>5, <1>7 DEF Catalog!FilesKept
  <2> QED
    BY <1>2, <2>1, <2>2, <2>3 DEF Catalog!FilesKept, Catalog!Exists, Catalog!NoSku
<1> QED
  BY <1>8, <1>10, <1>11, <1>12, <1>13 DEF Catalog!IInv

\* The row of an image is deleted, whose file is to go next.
LEMMA CatalogDeletesRow ==
    ASSUME Catalog!IInv, NEW s \in Sessions, Catalog!DeleteImage(s)
    PROVE  Catalog!IInv'
<1> DEFINE r == [req[s] EXCEPT !.at = "erase"]
<1>1. /\ Catalog!TypeOK /\ Catalog!ProductsConsistent /\ Catalog!FilesKept
      /\ Catalog!CreatesAlone(s) /\ Catalog!ReadHolds(s)
      /\ req[s] \in CatalogHandlers /\ files \subseteq Images
  BY CatalogTypedReq DEF Catalog!IInv
<1>2. /\ req[s].op = "remove_image" /\ req[s].at = "commit"
      /\ rows' = [i \in Images |-> IF i \in req[s].images THEN NoBusiness ELSE rows[i]]
      /\ UNCHANGED <<sku, price, files, overlapped, left, cut>>
  BY DEF Catalog!DeleteImage
<1>3. r \in CatalogHandlers /\ r.op = "remove_image" /\ r.at = "erase" /\ r.product = req[s].product /\ r.images = req[s].images
  BY <1>1, <1>2 DEF CatalogHandlers
<1>4. req' = [req EXCEPT ![s] = r]
  BY <1>1, CatalogTypedReq DEF Catalog!DeleteImage
<1> HIDE DEF r
<1>5. CatalogGoesOn(s, r)
  BY <1>2, <1>3, <1>4 DEF CatalogGoesOn
<1>6. req' \in [Sessions -> CatalogHandlers] /\ req'[s] = r /\ (\A t \in Sessions \ {s} : req'[t] = req[t])
  BY <1>1, <1>3, <1>4, CatalogHandler
<1>7. /\ rows' \in [Images -> Businesses \cup {NoBusiness}] /\ req[s].images \subseteq Images
      /\ \A i \in Images : rows'[i] = IF i \in req[s].images THEN NoBusiness ELSE rows[i]
  BY <1>1, <1>2, CatalogTypedReq DEF CatalogHandlers
<1>8. Catalog!TypeOK'
  BY <1>1, <1>2, <1>6, <1>7, CatalogTypedReq
     DEF Catalog!TypeOK, CatalogHandlers, CatalogPrice, Catalog!Price, Catalog!Prices, Catalog!NoSku
<1>9. \A q \in Businesses, i \in Images : rows'[i] = q => rows[i] = q
  BY <1>7, NoneAssumption
<1>10. \A t \in Sessions \ {s} : Catalog!CreatesAlone(t)' /\ Catalog!ReadHolds(t)' /\ Catalog!ImagesApart(t)'
  BY <1>2, <1>5, <1>7, <1>9, CatalogOthers
<1>11. Catalog!CreatesAlone(s)' /\ Catalog!ReadHolds(s)' /\ Catalog!ImagesApart(s)'
  <2>1. Catalog!CreatesAlone(s)'
    BY <1>1, <1>2, <1>3, <1>6 DEF Catalog!CreatesAlone, Catalog!Exists
  <2>2. Catalog!ReadHolds(s)'
    BY <1>1, <1>2, <1>3, <1>6 DEF Catalog!ReadHolds
  <2>3. Catalog!ImagesApart(s)'
    BY <1>2, <1>3, <1>6, <1>7 DEF Catalog!ImagesApart
  <2> QED
    BY <2>1, <2>2, <2>3
<1>12. Catalog!ProductsConsistent'
  <2>1. ASSUME NEW q \in Businesses \ overlapped
        PROVE  Catalog!Cardinality(Catalog!Of(q)') <= 2
    <3> DEFINE size == Cardinality(Catalog!Of(q))
               size2 == Cardinality(Catalog!Of(q)')
    <3>1. Catalog!Of(q)' \subseteq Catalog!Of(q)
      BY <1>9, CatalogOf
    <3>2. /\ size \in Nat /\ size2 \in Nat /\ size2 <= size
          /\ Catalog!Cardinality(Catalog!Of(q)) = size /\ Catalog!Cardinality(Catalog!Of(q)') = size2
      BY <3>1, CatalogOf
    <3> HIDE DEF size, size2
    <3>3. size <= 2
      BY <1>1, <2>1, <3>2 DEF Catalog!ProductsConsistent
    <3>4. size2 <= 2
      BY <3>2, <3>3
    <3> QED
      BY <3>2, <3>4
  <2> QED
    BY <1>1, <1>2, <2>1 DEF Catalog!ProductsConsistent, Catalog!Exists, Catalog!NoSku, Catalog!Cardinality
<1>13. Catalog!FilesKept'
  <2>1. ASSUME ~cut, NEW i \in files \ left, rows'[i] = NoBusiness
        PROVE  \E t \in Sessions : i \in req'[t].images /\ (req'[t].op \in {"create", "add_image"} \/ req'[t].at = "erase")
    <3>1. CASE i \in req[s].images
      BY <1>3, <1>6, <3>1
    <3>2. CASE i \notin req[s].images
      <4>1. rows[i] = NoBusiness
        BY <1>1, <1>7, <2>1, <3>2
      <4>2. PICK t \in Sessions : i \in req[t].images /\ (req[t].op \in {"create", "add_image"} \/ req[t].at = "erase")
        BY <1>1, <2>1, <4>1 DEF Catalog!FilesKept
      <4> QED
        BY <1>6, <3>2, <4>2
    <3> QED
      BY <3>1, <3>2
  <2>2. ASSUME NEW q \in Businesses, sku[q] = "no_sku" PROVE Catalog!Of(q)' = {}
    BY <1>1, <1>9, <2>2 DEF Catalog!FilesKept, Catalog!Exists, Catalog!Of, Catalog!NoSku
  <2>3. \A i \in Images : rows'[i] # NoBusiness => i \in files
    BY <1>1, <1>7 DEF Catalog!FilesKept
  <2> QED
    BY <1>2, <2>1, <2>2, <2>3 DEF Catalog!FilesKept, Catalog!Exists, Catalog!NoSku
<1> QED
  BY <1>8, <1>10, <1>11, <1>12, <1>13 DEF Catalog!IInv

LEMMA CatalogNext ==
    ASSUME Catalog!IInv, Catalog!Next
    PROVE  Catalog!IInv'
<1>1. PICK s \in Sessions :
        \/ \E p \in Businesses, k \in Users, w \in CatalogPrice, images_ \in SUBSET Images :
              Catalog!Create(s, p, k, w.selling, w.original, images_)
        \/ \E p \in Businesses, w \in CatalogPrice : Catalog!ChangePrice(s, p, w)
        \/ \E p \in Businesses, i \in Images : Catalog!AddImage(s, p, i)
        \/ \E i \in Images : Catalog!RemoveImage(s, i)
        \/ Catalog!SaveFiles(s) \/ Catalog!SaveFails(s) \/ Catalog!CommitProduct(s) \/ Catalog!CommitPrice(s)
        \/ Catalog!CommitImage(s) \/ Catalog!DeleteImage(s) \/ Catalog!DeleteFile(s)
        \/ Catalog!Fail(s) \/ Catalog!Crash(s)
  BY DEF Catalog!Next, CatalogPrice, Catalog!Price, Catalog!Prices
<1>2. /\ Catalog!TypeOK /\ Catalog!FilesKept /\ Catalog!CreatesAlone(s) /\ Catalog!ReadHolds(s) /\ Catalog!ImagesApart(s)
      /\ req[s] \in CatalogHandlers /\ cut \in BOOLEAN
  BY CatalogTypedReq DEF Catalog!IInv
<1>3. ASSUME NEW p \in Businesses, NEW k \in Users, NEW w \in CatalogPrice, NEW new \in SUBSET Images,
             Catalog!Create(s, p, k, w.selling, w.original, new)
      PROVE  Catalog!IInv'
  <2> DEFINE r0 == [Catalog!Idle EXCEPT !.op = "create", !.at = "save", !.product = p]
             r  == [Catalog!Idle EXCEPT !.op = "create", !.at = "save", !.product = p, !.sku = k, !.images = new,
                                        !.write = [selling |-> w.selling, original |-> w.original]]
  <2>1. r0 \in CatalogHandlers /\ r0.op = "create" /\ r0.at = "save" /\ r0.product = p
    BY CatalogIdle DEF CatalogHandlers
  <2>2. r = [r0 EXCEPT !.sku = k, !.images = new, !.write = [selling |-> w.selling, original |-> w.original]]
    OBVIOUS
  <2>3. Catalog!Begin(s, r)
    BY <1>3 DEF Catalog!Create
  <2> HIDE DEF r0, r
  <2>4. [selling |-> w.selling, original |-> w.original] = w
    BY DEF CatalogPrice
  <2>5. /\ r \in CatalogHandlers /\ r.op = "create" /\ r.at = "save" /\ r.product = p /\ r.sku = k
        /\ r.images = new /\ r.write = w
    BY <2>1, <2>2, <2>4 DEF CatalogHandlers
  <2>6. /\ ~Catalog!Exists(p) /\ (\A o \in Sessions : req[o].product # p) /\ w.selling <= w.original
        /\ Catalog!Cardinality(new) <= 2 /\ (\A i \in new : ~Catalog!InUse(i)) /\ k # "no_sku"
    BY <1>3, NoneAssumption DEF Catalog!Create
  <2> QED
    BY <2>3, <2>5, <2>6, CatalogBegins
<1>4. ASSUME NEW p \in Businesses, NEW w \in CatalogPrice, Catalog!ChangePrice(s, p, w)
      PROVE  Catalog!IInv'
  <2> DEFINE r0 == [Catalog!Idle EXCEPT !.op = "price", !.at = "commit", !.product = p]
             r  == [Catalog!Idle EXCEPT !.op = "price", !.at = "commit", !.product = p, !.seen = price[p], !.write = w]
  <2>1. /\ r0 \in CatalogHandlers /\ r0.op = "price" /\ r0.at = "commit" /\ r0.product = p /\ r0.images = {}
        /\ price[p] \in CatalogPrice
    BY <1>2, CatalogIdle, CatalogTypedReq DEF CatalogHandlers
  <2>2. r = [r0 EXCEPT !.seen = price[p], !.write = w]
    OBVIOUS
  <2>3. Catalog!Begin(s, r) /\ Catalog!Exists(p) /\ w.selling <= w.original
    BY <1>4 DEF Catalog!ChangePrice
  <2> HIDE DEF r0, r
  <2>4. /\ r \in CatalogHandlers /\ r.op = "price" /\ r.at = "commit" /\ r.product = p /\ r.images = {}
        /\ r.seen = price[p] /\ r.write = w
    BY <2>1, <2>2 DEF CatalogHandlers
  <2> QED
    BY <2>3, <2>4, CatalogBegins
<1>5. ASSUME NEW p \in Businesses, NEW i \in Images, Catalog!AddImage(s, p, i)
      PROVE  Catalog!IInv'
  <2> DEFINE r0 == [Catalog!Idle EXCEPT !.op = "add_image", !.at = "save", !.product = p]
             r  == [Catalog!Idle EXCEPT !.op = "add_image", !.at = "save", !.product = p, !.images = {i}]
             size == Cardinality(Catalog!Of(p))
  <2>1. r0 \in CatalogHandlers /\ r0.op = "add_image" /\ r0.at = "save" /\ r0.product = p
    BY CatalogIdle DEF CatalogHandlers
  <2>2. r = [r0 EXCEPT !.images = {i}]
    OBVIOUS
  <2>3. Catalog!Begin(s, r) /\ Catalog!Exists(p) /\ ~Catalog!InUse(i)
    BY <1>5 DEF Catalog!AddImage
  <2>4. size \in Nat /\ Catalog!Cardinality(Catalog!Of(p)) = size
    BY CatalogOf
  <2>5. Catalog!Cardinality(Catalog!Of(p)) + 1 <= 2
    BY <1>5 DEF Catalog!AddImage
  <2> HIDE DEF r0, r, size
  <2>6. r \in CatalogHandlers /\ r.op = "add_image" /\ r.at = "save" /\ r.product = p /\ r.images = {i}
    BY <2>1, <2>2 DEF CatalogHandlers
  <2>7. Catalog!Cardinality(Catalog!Of(p)) < 2
    BY <2>4, <2>5
  <2> QED
    BY <2>3, <2>6, <2>7, CatalogBegins
<1>6. ASSUME NEW i \in Images, Catalog!RemoveImage(s, i)
      PROVE  Catalog!IInv'
  <2> DEFINE p  == rows[i]
             r0 == [Catalog!Idle EXCEPT !.op = "remove_image", !.at = "commit", !.product = p]
             r  == [Catalog!Idle EXCEPT !.op = "remove_image", !.at = "commit", !.product = p, !.images = {i}]
  <2>1. Catalog!Begin(s, r) /\ p # NoBusiness
    BY <1>6 DEF Catalog!RemoveImage
  <2>2. p \in Businesses /\ Catalog!Exists(p)
    BY <1>2, <2>1, CatalogTypedReq DEF Catalog!FilesKept, Catalog!Of
  <2>3. r0 \in CatalogHandlers /\ r0.op = "remove_image" /\ r0.at = "commit" /\ r0.product = p
    BY <2>2, CatalogIdle DEF CatalogHandlers
  <2>4. r = [r0 EXCEPT !.images = {i}]
    OBVIOUS
  <2> HIDE DEF r0, r
  <2>5. r \in CatalogHandlers /\ r.op = "remove_image" /\ r.at = "commit" /\ r.product = p /\ r.images = {i}
    BY <2>3, <2>4 DEF CatalogHandlers
  <2>6. \A j \in r.images : rows[j] # NoBusiness
    BY <2>1, <2>5
  <2> QED
    BY <2>1, <2>2, <2>5, <2>6, CatalogBegins
<1>7. CASE Catalog!SaveFiles(s) \/ Catalog!SaveFails(s)
  BY <1>7, CatalogSaves
<1>8. CASE Catalog!CommitProduct(s)
  <2>1. /\ req[s].op = "create" /\ req[s].at = "commit" /\ req' = [req EXCEPT ![s] = Catalog!Idle]
        /\ UNCHANGED <<overlapped, left, cut>>
    BY <1>8 DEF Catalog!CommitProduct, Catalog!End
  <2>2. CASE Catalog!Taken(req[s].sku)
    <3>1. files' = files \ req[s].images /\ UNCHANGED <<sku, price, rows>>
      BY <1>8, <2>2 DEF Catalog!CommitProduct
    <3>2. \A i \in req[s].images : rows[i] = NoBusiness
      BY <1>2, <2>1 DEF Catalog!ImagesApart
    <3> QED
      BY <1>2, <2>1, <3>1, <3>2, CatalogEnds
  <2>3. CASE ~Catalog!Taken(req[s].sku)
    BY <1>8, <2>1, <2>3, CatalogCreates DEF Catalog!CommitProduct
  <2> QED
    BY <2>2, <2>3
<1>9. CASE Catalog!CommitPrice(s)
  BY <1>9, CatalogPrices
<1>10. CASE Catalog!CommitImage(s)
  BY <1>10, CatalogAddsImage
<1>11. CASE Catalog!DeleteImage(s)
  BY <1>11, CatalogDeletesRow
<1>12. CASE Catalog!DeleteFile(s)
  <2>1. /\ req[s].at = "erase" /\ files' = files \ req[s].images /\ req' = [req EXCEPT ![s] = Catalog!Idle]
        /\ UNCHANGED <<sku, price, rows, overlapped, left, cut>>
    BY <1>12 DEF Catalog!DeleteFile, Catalog!End
  <2>2. \A i \in req[s].images : rows[i] = NoBusiness
    BY <1>2, <2>1 DEF Catalog!ImagesApart
  <2> QED
    BY <1>2, <2>1, <2>2, CatalogEnds
<1>13. CASE Catalog!Fail(s)
  <2>1. /\ req[s].at = "commit" /\ req' = [req EXCEPT ![s] = Catalog!Idle]
        /\ UNCHANGED <<sku, price, rows, overlapped, left, cut>>
        /\ req[s].op \in {"create", "add_image"} => files' = files \ req[s].images
        /\ req[s].op \notin {"create", "add_image"} => files' = files
    BY <1>13 DEF Catalog!Fail, Catalog!End
  <2>2. CASE req[s].op \in {"create", "add_image"}
    <3>1. \A i \in req[s].images : rows[i] = NoBusiness
      BY <1>2, <2>2 DEF Catalog!ImagesApart
    <3> QED
      BY <1>2, <2>1, <2>2, <3>1, CatalogEnds
  <2>3. CASE req[s].op \notin {"create", "add_image"}
    BY <1>2, <2>1, <2>3, CatalogEnds
  <2> QED
    BY <2>2, <2>3
<1>14. CASE Catalog!Crash(s)
  <2>1. /\ req' = [req EXCEPT ![s] = Catalog!Idle] /\ files' = files
        /\ UNCHANGED <<sku, price, rows, overlapped, left>>
    BY <1>14 DEF Catalog!Crash, Catalog!End
  <2>2. cut' = (cut \/ req[s].images \cap files # {})
    BY <1>14 DEF Catalog!Crash
  <2>3. cut' \in BOOLEAN /\ (cut => cut') /\ (cut' \/ req[s].images \cap files = {})
    BY <1>2, <2>2, Zenon
  <2> QED
    BY <2>1, <2>3, CatalogEnds
<1> QED
  BY <1>1, <1>3, <1>4, <1>5, <1>6, <1>7, <1>8, <1>9, <1>10, <1>11, <1>12, <1>13, <1>14

LEMMA CatalogStarts ==
    ASSUME Catalog!Init
    PROVE  Catalog!IInv
<1>1. /\ sku = [p \in Businesses |-> "no_sku"] /\ price = [p \in Businesses |-> Catalog!Idle.seen]
      /\ rows = [i \in Images |-> NoBusiness] /\ files = {}
      /\ req = [s \in Sessions |-> Catalog!Idle] /\ overlapped = {} /\ left = {} /\ cut = FALSE
  BY DEF Catalog!Init, Catalog!NoSku
<1>2. Catalog!TypeOK
  BY <1>1, CatalogIdle
     DEF Catalog!TypeOK, CatalogHandlers, CatalogPrice, Catalog!Price, Catalog!Prices, Catalog!NoSku
<1>3. \A p \in Businesses : Catalog!Of(p) = {}
  BY <1>1, NoneAssumption DEF Catalog!Of
<1>4. Catalog!Cardinality({}) = 0
  BY FS_EmptySet DEF Catalog!Cardinality, Cardinality
<1>5. Catalog!ProductsConsistent
  BY <1>1, <1>3, <1>4, CatalogIdle DEF Catalog!ProductsConsistent, Catalog!Exists, Catalog!NoSku
<1>6. Catalog!FilesKept
  BY <1>1, <1>3 DEF Catalog!FilesKept
<1>7. \A s \in Sessions : Catalog!CreatesAlone(s) /\ Catalog!ReadHolds(s) /\ Catalog!ImagesApart(s)
  BY <1>1, CatalogIdle DEF Catalog!CreatesAlone, Catalog!ReadHolds, Catalog!ImagesApart
<1> QED
  BY <1>2, <1>5, <1>6, <1>7 DEF Catalog!IInv

LEMMA CatalogPromises == Catalog!IInv => Catalog!ProductsConsistent /\ Catalog!ImagesHaveFiles
<1> SUFFICES ASSUME Catalog!IInv PROVE Catalog!ProductsConsistent /\ Catalog!ImagesHaveFiles
  OBVIOUS
<1>1. Catalog!ProductsConsistent /\ Catalog!FilesKept
  BY DEF Catalog!IInv
<1>2. \A i \in Images : rows[i] # NoBusiness => i \in files
  BY <1>1 DEF Catalog!FilesKept
<1>3. cut \/ \A i \in files \ left : rows[i] # NoBusiness \/ \E s \in Sessions : i \in req[s].images
  BY <1>1 DEF Catalog!FilesKept
<1> QED
  BY <1>1, <1>2, <1>3 DEF Catalog!ImagesHaveFiles

----------------------------------------------------------------------------
(* Media of posts: a request has the files it stored to itself until their *)
(* row is there, and unless two attach at once the next row is the last.   *)

MediaKinds == {"image", "refused_image", "video", "video_of_refused_thumbnail"}
MediaRows(n) == [place: Nat, files: (SUBSET (1..n)) \ {{}}]
MediaHandlers(n) ==
    [op: {"idle", "attach", "remove"},
     at: {"idle", "count", "file", "thumbnail", "row", "delete_row", "delete_files"},
     todo: Seq(MediaKinds), next: Nat, mine: SUBSET (1..n)]

LEMMA MediaRow ==
    ASSUME NEW n \in Nat
    PROVE  /\ \A m \in MediaRows(n) : m.place \in Nat /\ m.files \subseteq 1..n /\ m.files # {}
           /\ \A place \in Nat, own \in SUBSET (1..n) : own # {} =>
                 [place |-> place, files |-> own] \in MediaRows(n)
<1> DEFINE S == (SUBSET (1..n)) \ {{}}
<1>1. ASSUME NEW own PROVE own \in S <=> own \subseteq 1..n /\ own # {}
  <2>1. own \in {{}} <=> own = {}
    OBVIOUS
  <2>2. own \in S <=> own \in SUBSET (1..n) /\ own \notin {{}}
    OBVIOUS
  <2>3. own \in SUBSET (1..n) <=> own \subseteq 1..n
    OBVIOUS
  <2> QED
    BY <2>1, <2>2, <2>3
<1>2. MediaRows(n) = [place: Nat, files: S]
  BY DEF MediaRows
<1> HIDE DEF S
<1>3. \A m \in MediaRows(n) : m.place \in Nat /\ m.files \in S
  BY <1>2
<1>4. \A place \in Nat, own \in S : [place |-> place, files |-> own] \in MediaRows(n)
  BY <1>2
<1> QED
  BY <1>1, <1>3, <1>4

LEMMA MediaTypesReq ==
    Post!MediaTypes <=>
        /\ uploaded \in Nat /\ IsFiniteSet(rows) /\ cut \in BOOLEAN /\ overlapped \in BOOLEAN
        /\ rows \subseteq MediaRows(uploaded) /\ req \in [Sessions -> MediaHandlers(uploaded)]
        /\ \A s \in Sessions : Post!HandlerFits(req[s])
<1>1. Post!IsFiniteSet(rows) <=> IsFiniteSet(rows)
  BY DEF Post!IsFiniteSet, IsFiniteSet
<1> QED
  BY <1>1 DEF Post!MediaTypes, MediaRows, MediaHandlers, MediaKinds, Post!Kinds

LEMMA MediaTypesReqNext ==
    (/\ uploaded' \in Nat /\ IsFiniteSet(rows') /\ cut' \in BOOLEAN /\ overlapped' \in BOOLEAN
     /\ rows' \subseteq MediaRows(uploaded') /\ req' \in [Sessions -> MediaHandlers(uploaded')]
     /\ \A s \in Sessions : Post!HandlerFits(req'[s])) => Post!MediaTypes'
<1>1. Post!IsFiniteSet(rows)' <=> IsFiniteSet(rows')
  BY DEF Post!IsFiniteSet, IsFiniteSet
<1> QED
  BY <1>1 DEF Post!MediaTypes, MediaRows, MediaHandlers, MediaKinds, Post!Kinds

LEMMA MediaCounted ==
    ASSUME Post!MediaTypes
    PROVE  Post!Counted = Cardinality(rows) /\ Post!Counted \in Nat
<1>1. Post!Cardinality(rows) = Cardinality(rows)
  BY DEF Post!Cardinality, Cardinality
<1> QED
  BY <1>1, MediaTypesReq, FS_CardinalityType DEF Post!Counted

LEMMA MediaIdle ==
    /\ \A n \in Nat : Post!Idle \in MediaHandlers(n)
    /\ Post!HandlerFits(Post!Idle)
    /\ Post!Idle.op = "idle" /\ Post!Idle.at = "idle" /\ Post!Idle.mine = {} /\ Post!Idle.todo = <<>>
  BY DEF Post!Idle, MediaHandlers, Post!HandlerFits

\* The handler of one session takes a step, and the state has its types.
LEMMA MediaHandler ==
    ASSUME Post!MediaTypes, NEW s \in Sessions, uploaded' \in Nat, uploaded <= uploaded',
           NEW r \in MediaHandlers(uploaded'), Post!HandlerFits(r), req' = [req EXCEPT ![s] = r],
           rows' \subseteq MediaRows(uploaded'), IsFiniteSet(rows'), cut' \in BOOLEAN, overlapped' \in BOOLEAN
    PROVE  /\ Post!MediaTypes'
           /\ req'[s] = r /\ \A t \in Sessions \ {s} : req'[t] = req[t]
<1>1. 1..uploaded \subseteq 1..uploaded'
  BY MediaTypesReq
<1>2. MediaHandlers(uploaded) \subseteq MediaHandlers(uploaded')
  BY <1>1 DEF MediaHandlers
<1>3. req' \in [Sessions -> MediaHandlers(uploaded')]
  BY <1>2, MediaTypesReq
<1>4. req'[s] = r /\ \A t \in Sessions \ {s} : req'[t] = req[t]
  BY MediaTypesReq
<1>5. \A t \in Sessions : Post!HandlerFits(req'[t])
  BY <1>4, MediaTypesReq
<1> QED
  BY <1>3, <1>4, <1>5, MediaTypesReqNext

\* A session with no handler begins to attach or remove.
LEMMA MediaBegins ==
    ASSUME Post!MediaIInv, NEW s \in Sessions, req[s] = Post!Idle,
           NEW r \in MediaHandlers(uploaded), Post!HandlerFits(r), req' = [req EXCEPT ![s] = r],
           r.op = "attach" => r.at = "count",
           r.op = "remove" => r.at = "delete_row" /\ \E m \in rows : r.mine = m.files,
           overlapped' \in BOOLEAN, overlapped => overlapped',
           ~overlapped' => r.op = "attach" /\ \A t \in Sessions : req[t].op # "attach",
           UNCHANGED <<rows, files, uploaded, cut>>
    PROVE  Post!MediaIInv'
<1>1. /\ Post!MediaTypes /\ Post!FilesApart /\ Post!NextPlace /\ Post!MediaHasFiles /\ Post!MediaInOrder
      /\ uploaded \in Nat /\ IsFiniteSet(rows) /\ cut \in BOOLEAN /\ rows \subseteq MediaRows(uploaded)
  BY MediaTypesReq DEF Post!MediaIInv
<1>2. Post!MediaTypes' /\ req'[s] = r /\ \A t \in Sessions \ {s} : req'[t] = req[t]
  <2>1. /\ uploaded' \in Nat /\ uploaded <= uploaded' /\ rows' \subseteq MediaRows(uploaded') /\ IsFiniteSet(rows')
        /\ cut' \in BOOLEAN /\ overlapped' \in BOOLEAN /\ r \in MediaHandlers(uploaded')
    BY <1>1
  <2> QED
    BY <1>1, MediaHandler, <2>1
<1>3. req[s].mine = {} /\ req[s].op = "idle"
  BY MediaIdle
<1>4. r.op = "attach" => r.mine = {}
  BY DEF Post!HandlerFits
<1>5. r.op # "remove" => r.mine = {}
  BY DEF Post!HandlerFits, MediaHandlers
<1>6. Post!FilesApart'
  <2>1. \A m \in rows : r.mine \cap m.files = {} \/ (r.at = "delete_row" /\ r.mine = m.files)
    BY <1>1, <1>5 DEF Post!FilesApart
  <2>2. ASSUME NEW t \in Sessions, req[t].op = "attach" PROVE req[t].mine \cap r.mine = {}
    <3>1. \A m \in rows : req[t].mine \cap m.files = {}
      BY <1>1, <2>2, MediaTypesReq DEF Post!FilesApart, Post!HandlerFits
    <3> QED
      BY <1>5, <3>1
  <2> QED
    BY <1>1, <1>2, <1>3, <1>4, <2>1, <2>2 DEF Post!FilesApart
<1>7. Post!NextPlace'
  <2>1. CASE overlapped'
    BY <2>1 DEF Post!NextPlace
  <2>2. CASE ~overlapped'
    <3>1. Post!Counted' = Post!Counted
      BY DEF Post!Counted
    <3>2. r.op = "attach" /\ r.at = "count" /\ r.mine = {} /\ ~overlapped
      BY <1>4, <2>2
    <3> QED
      BY <1>1, <1>2, <2>2, <3>1, <3>2 DEF Post!NextPlace
  <2> QED
    BY <2>1, <2>2
<1>8. Post!MediaHasFiles'
  <2>1. \A t \in Sessions : \A f : f \in req[t].mine => f \in req'[t].mine
    BY <1>2, <1>3
  <2>2. \A m \in rows : m.files \subseteq files
    BY <1>1 DEF Post!MediaHasFiles
  <2>3. ASSUME ~cut, NEW f \in files
        PROVE  (\E m \in rows : f \in m.files) \/ \E t \in Sessions : f \in req'[t].mine
    <3>1. (\E m \in rows : f \in m.files) \/ \E t \in Sessions : f \in req[t].mine
      BY <1>1, <2>3 DEF Post!MediaHasFiles
    <3> QED
      BY <2>1, <3>1
  <2> QED
    BY <2>2, <2>3 DEF Post!MediaHasFiles
<1>9. Post!MediaInOrder'
  BY <1>1 DEF Post!MediaInOrder, Post!Earlier
<1> QED
  BY <1>2, <1>6, <1>7, <1>8, <1>9 DEF Post!MediaIInv

\* A handler goes on with what it has: its next place is the count.
LEMMA MediaCounts ==
    ASSUME Post!MediaIInv, NEW s \in Sessions, Post!CountRows(s)
    PROVE  Post!MediaIInv'
<1> DEFINE r == [req[s] EXCEPT !.at = "file", !.next = Post!Counted]
<1>1. /\ Post!MediaTypes /\ Post!FilesApart /\ Post!NextPlace /\ Post!MediaHasFiles /\ Post!MediaInOrder
      /\ uploaded \in Nat /\ IsFiniteSet(rows) /\ cut \in BOOLEAN /\ overlapped \in BOOLEAN
      /\ rows \subseteq MediaRows(uploaded)
      /\ req[s] \in MediaHandlers(uploaded) /\ Post!HandlerFits(req[s]) /\ Post!Counted \in Nat
  BY MediaTypesReq, MediaCounted DEF Post!MediaIInv
<1>2. /\ req[s].at = "count" /\ UNCHANGED <<rows, files, uploaded, overlapped, cut>>
      /\ req[s].op = "attach" /\ req[s].mine = {}
  BY <1>1 DEF Post!CountRows, Post!At, Post!HandlerFits
<1>3. req' = [req EXCEPT ![s] = r]
  BY <1>1, MediaTypesReq DEF Post!CountRows
<1>4. /\ r \in MediaHandlers(uploaded) /\ r.op = "attach" /\ r.at = "file" /\ r.mine = {} /\ r.next = Post!Counted
      /\ r.todo = req[s].todo
  BY <1>1, <1>2 DEF MediaHandlers
<1> HIDE DEF r
<1>5. Post!HandlerFits(r)
  BY <1>1, <1>2, <1>4 DEF Post!HandlerFits
<1>6. Post!MediaTypes' /\ req'[s] = r /\ \A t \in Sessions \ {s} : req'[t] = req[t]
  <2>1. /\ uploaded' \in Nat /\ uploaded <= uploaded' /\ rows' \subseteq MediaRows(uploaded') /\ IsFiniteSet(rows')
        /\ cut' \in BOOLEAN /\ overlapped' \in BOOLEAN /\ r \in MediaHandlers(uploaded')
    BY <1>1, <1>2, <1>4
  <2> QED
    BY <1>1, <1>2, <1>3, <1>4, <1>5, MediaHandler, <2>1
<1>7. Post!FilesApart'
  BY <1>1, <1>2, <1>4, <1>6 DEF Post!FilesApart
<1>8. Post!NextPlace'
  <2>1. Post!Counted' = Post!Counted
    BY <1>2 DEF Post!Counted
  <2> QED
    BY <1>1, <1>2, <1>4, <1>6, <2>1 DEF Post!NextPlace
<1>9. Post!MediaHasFiles'
  <2>1. \A t \in Sessions : req'[t].mine = req[t].mine
    BY <1>2, <1>4, <1>6
  <2> QED
    BY <1>1, <1>2, <2>1 DEF Post!MediaHasFiles
<1>10. Post!MediaInOrder'
  BY <1>1, <1>2 DEF Post!MediaInOrder, Post!Earlier
<1> QED
  BY <1>6, <1>7, <1>8, <1>9, <1>10 DEF Post!MediaIInv

\* One more file is stored.
LEMMA MediaStores ==
    ASSUME Post!MediaIInv, NEW s \in Sessions, NEW at \in {"thumbnail", "row"}, Post!Store(s, at),
           req[s].at \in {"file", "thumbnail"}
    PROVE  Post!MediaIInv'
<1> DEFINE new == uploaded + 1
           r   == [req[s] EXCEPT !.mine = @ \cup {new}, !.at = at]
<1>1. /\ Post!MediaTypes /\ Post!FilesApart /\ Post!NextPlace /\ Post!MediaHasFiles /\ Post!MediaInOrder
      /\ uploaded \in Nat /\ IsFiniteSet(rows) /\ cut \in BOOLEAN /\ overlapped \in BOOLEAN
      /\ rows \subseteq MediaRows(uploaded)
      /\ req[s] \in MediaHandlers(uploaded) /\ Post!HandlerFits(req[s]) /\ Post!Counted \in Nat
  BY MediaTypesReq, MediaCounted DEF Post!MediaIInv
<1>2. /\ uploaded' = new /\ files' = files \cup {new} /\ UNCHANGED <<rows, overlapped, cut>>
      /\ req[s].op = "attach"
  BY <1>1 DEF Post!Store, Post!HandlerFits
<1>3. req' = [req EXCEPT ![s] = r]
  BY <1>1, MediaTypesReq DEF Post!Store
<1>4. new \in Nat /\ uploaded <= new /\ 1..uploaded \subseteq 1..new /\ new \in 1..new /\ new \notin 1..uploaded
  BY <1>1
<1>5. /\ r \in MediaHandlers(new) /\ r.op = "attach" /\ r.at = at /\ r.mine = req[s].mine \cup {new}
      /\ r.next = req[s].next /\ r.todo = req[s].todo
  BY <1>1, <1>2, <1>4 DEF MediaHandlers
<1> HIDE DEF r, new
<1>6. Post!HandlerFits(r)
  BY <1>1, <1>2, <1>5 DEF Post!HandlerFits
<1>7. rows \subseteq MediaRows(new)
  BY <1>1, <1>4 DEF MediaRows
<1>8. Post!MediaTypes' /\ req'[s] = r /\ \A t \in Sessions \ {s} : req'[t] = req[t]
  BY <1>1, <1>2, <1>3, <1>4, <1>5, <1>6, <1>7, MediaHandler
<1>9. /\ \A m \in rows : new \notin m.files
      /\ \A t \in Sessions : new \notin req[t].mine
  BY <1>1, <1>4, MediaTypesReq DEF MediaRows, MediaHandlers
<1>10. Post!FilesApart'
  <2>1. \A m \in rows : r.mine \cap m.files = {}
    BY <1>1, <1>2, <1>5, <1>9 DEF Post!FilesApart, Post!HandlerFits
  <2>2. r.mine \subseteq files'
    BY <1>1, <1>2, <1>5 DEF Post!FilesApart
  <2>3. \A t \in Sessions \ {s} : r.mine \cap req[t].mine = {}
    BY <1>1, <1>2, <1>5, <1>9 DEF Post!FilesApart
  <2> QED
    BY <1>1, <1>2, <1>8, <2>1, <2>2, <2>3 DEF Post!FilesApart
<1>11. Post!NextPlace'
  <2>1. CASE overlapped
    BY <1>2, <2>1 DEF Post!NextPlace
  <2>2. CASE ~overlapped
    <3>1. Post!Counted' = Post!Counted
      BY <1>2 DEF Post!Counted
    <3>2. \A m \in rows : \A g : g \in m.files => g \in 1..uploaded
      BY <1>1 DEF MediaRows
    <3>3. \A m \in rows : \A g \in m.files : g < new
      BY <1>1, <3>2 DEF new
    <3>4. \A f \in r.mine, m \in rows : \A g \in m.files : g < f
      BY <1>1, <1>5, <2>2, <3>3 DEF Post!NextPlace
    <3>5. \A t, u \in Sessions : req'[t].op = "attach" /\ req'[u].op = "attach" => t = u
      BY <1>1, <1>2, <1>8, <2>2 DEF Post!NextPlace
    <3>6. \A t \in Sessions : req'[t].op # "remove"
      BY <1>1, <1>5, <1>8, <2>2 DEF Post!NextPlace
    <3>7. \A m \in rows : m.place < Post!Counted
      BY <1>1, <2>2 DEF Post!NextPlace
    <3>8. r.next = Post!Counted
      BY <1>1, <1>5, <2>2 DEF Post!NextPlace
    <3>9. ASSUME NEW t \in Sessions
          PROVE  /\ req'[t].at \in {"file", "thumbnail", "row"} => req'[t].next = Post!Counted
                 /\ \A f \in req'[t].mine, m \in rows : \A g \in m.files : g < f
      BY <1>1, <1>8, <2>2, <3>4, <3>8 DEF Post!NextPlace
    <3> QED
      BY <1>2, <3>1, <3>5, <3>6, <3>7, <3>9 DEF Post!NextPlace
  <2> QED
    BY <2>1, <2>2
<1>12. Post!MediaHasFiles'
  <2>1. \A m \in rows : m.files \subseteq files'
    BY <1>1, <1>2 DEF Post!MediaHasFiles
  <2>2. \A t \in Sessions : \A f : f \in req[t].mine => f \in req'[t].mine
    BY <1>5, <1>8
  <2>3. ASSUME ~cut, NEW f \in files'
        PROVE  (\E m \in rows : f \in m.files) \/ \E t \in Sessions : f \in req'[t].mine
    <3>1. CASE f \in files
      <4>1. (\E m \in rows : f \in m.files) \/ \E t \in Sessions : f \in req[t].mine
        BY <1>1, <2>3, <3>1 DEF Post!MediaHasFiles
      <4> QED
        BY <2>2, <4>1
    <3>2. CASE f = new
      BY <1>5, <1>8, <3>2
    <3> QED
      BY <1>2, <2>3, <3>1, <3>2
  <2> QED
    BY <1>2, <2>1, <2>3 DEF Post!MediaHasFiles
<1>13. Post!MediaInOrder'
  BY <1>1, <1>2 DEF Post!MediaInOrder, Post!Earlier
<1> QED
  BY <1>8, <1>10, <1>11, <1>12, <1>13 DEF Post!MediaIInv

\* A request is refused or cut short, or ends having erased its files.
LEMMA MediaEnds ==
    ASSUME Post!MediaIInv, NEW s \in Sessions, req' = [req EXCEPT ![s] = Post!Idle],
           UNCHANGED <<rows, uploaded, overlapped>>,
           cut' \in BOOLEAN, cut => cut',
           \/ files' = files /\ (cut' \/ req[s].mine = {})
           \/ files' = files \ req[s].mine /\ req[s].at = "delete_files"
    PROVE  Post!MediaIInv'
<1>1. /\ Post!MediaTypes /\ Post!FilesApart /\ Post!NextPlace /\ Post!MediaHasFiles /\ Post!MediaInOrder
      /\ uploaded \in Nat /\ IsFiniteSet(rows) /\ cut \in BOOLEAN /\ overlapped \in BOOLEAN
      /\ rows \subseteq MediaRows(uploaded) /\ Post!HandlerFits(req[s])
  BY MediaTypesReq DEF Post!MediaIInv
<1>2. Post!MediaTypes' /\ req'[s] = Post!Idle /\ \A t \in Sessions \ {s} : req'[t] = req[t]
  <2>1. /\ uploaded' \in Nat /\ uploaded <= uploaded' /\ rows' \subseteq MediaRows(uploaded') /\ IsFiniteSet(rows')
        /\ cut' \in BOOLEAN /\ overlapped' \in BOOLEAN /\ Post!Idle \in MediaHandlers(uploaded') /\ Post!HandlerFits(Post!Idle)
    BY <1>1, MediaIdle
  <2> QED
    BY <1>1, MediaHandler, <2>1
<1>3. /\ \A m \in rows : m.files \subseteq files'
      /\ \A t \in Sessions \ {s} : req[t].op = "attach" => req[t].mine \subseteq files'
  <2>1. CASE files' = files
    BY <1>1, <2>1 DEF Post!FilesApart, Post!MediaHasFiles
  <2>2. CASE files' = files \ req[s].mine /\ req[s].at = "delete_files"
    BY <1>1, <2>2 DEF Post!FilesApart, Post!MediaHasFiles
  <2> QED
    BY <2>1, <2>2
<1>4. Post!FilesApart'
  BY <1>1, <1>2, <1>3, MediaIdle DEF Post!FilesApart
<1>5. Post!NextPlace'
  <2>1. CASE overlapped
    BY <2>1 DEF Post!NextPlace
  <2>2. CASE ~overlapped
    <3>1. Post!Counted' = Post!Counted
      BY DEF Post!Counted
    <3> QED
      BY <1>1, <1>2, <2>2, <3>1, MediaIdle DEF Post!NextPlace
  <2> QED
    BY <2>1, <2>2
<1>6. Post!MediaHasFiles'
  <2>1. ASSUME ~cut', NEW f \in files'
        PROVE  (\E m \in rows : f \in m.files) \/ \E t \in Sessions : f \in req'[t].mine
    <3>1. f \in files /\ f \notin req[s].mine
      BY <2>1
    <3>2. (\E m \in rows : f \in m.files) \/ \E t \in Sessions : f \in req[t].mine
      BY <1>1, <2>1, <3>1 DEF Post!MediaHasFiles
    <3> QED
      BY <1>2, <3>1, <3>2
  <2> QED
    BY <1>3, <2>1 DEF Post!MediaHasFiles
<1>7. Post!MediaInOrder'
  BY <1>1 DEF Post!MediaInOrder, Post!Earlier
<1> QED
  BY <1>2, <1>4, <1>5, <1>6, <1>7 DEF Post!MediaIInv

\* The row of a removed image or video is deleted; its files are to go.
LEMMA MediaDeletesRow ==
    ASSUME Post!MediaIInv, NEW s \in Sessions, Post!DeleteRow(s)
    PROVE  Post!MediaIInv'
<1> DEFINE r == [req[s] EXCEPT !.at = "delete_files"]
<1>1. /\ Post!MediaTypes /\ Post!FilesApart /\ Post!NextPlace /\ Post!MediaHasFiles /\ Post!MediaInOrder
      /\ uploaded \in Nat /\ IsFiniteSet(rows) /\ cut \in BOOLEAN /\ overlapped \in BOOLEAN
      /\ rows \subseteq MediaRows(uploaded)
      /\ req[s] \in MediaHandlers(uploaded) /\ Post!HandlerFits(req[s]) /\ Post!Counted \in Nat
      /\ Post!Counted = Cardinality(rows)
  BY MediaTypesReq, MediaCounted DEF Post!MediaIInv
<1>2. /\ req[s].at = "delete_row" /\ rows' = {m \in rows : m.files # req[s].mine}
      /\ UNCHANGED <<files, uploaded, overlapped, cut>> /\ req[s].op = "remove"
  BY <1>1 DEF Post!DeleteRow, Post!At, Post!HandlerFits
<1>3. req' = [req EXCEPT ![s] = r]
  BY <1>1, MediaTypesReq DEF Post!DeleteRow
<1>4. /\ r \in MediaHandlers(uploaded) /\ r.op = "remove" /\ r.at = "delete_files" /\ r.mine = req[s].mine
      /\ r.next = req[s].next /\ r.todo = req[s].todo
  BY <1>1, <1>2 DEF MediaHandlers
<1> HIDE DEF r
<1>5. Post!HandlerFits(r) /\ rows' \subseteq rows /\ IsFiniteSet(rows')
  BY <1>1, <1>2, <1>4, FS_Subset DEF Post!HandlerFits
<1>6. Post!MediaTypes' /\ req'[s] = r /\ \A t \in Sessions \ {s} : req'[t] = req[t]
  <2>1. /\ uploaded' \in Nat /\ uploaded <= uploaded' /\ rows' \subseteq MediaRows(uploaded') /\ IsFiniteSet(rows')
        /\ cut' \in BOOLEAN /\ overlapped' \in BOOLEAN /\ r \in MediaHandlers(uploaded')
    BY <1>1, <1>2, <1>4, <1>5
  <2> QED
    BY <1>1, <1>3, <1>5, <2>1, MediaHandler
<1>7. Post!FilesApart'
  <2>1. \A m \in rows' : req[s].mine \cap m.files = {}
    BY <1>1, <1>2 DEF Post!FilesApart
  <2> QED
    BY <1>1, <1>2, <1>4, <1>5, <1>6, <2>1 DEF Post!FilesApart
<1>8. Post!NextPlace'
  BY <1>1, <1>2 DEF Post!NextPlace
<1>9. Post!MediaHasFiles'
  <2>1. \A t \in Sessions : req'[t].mine = req[t].mine
    BY <1>4, <1>6
  <2>2. ASSUME ~cut, NEW f \in files
        PROVE  (\E m \in rows' : f \in m.files) \/ \E t \in Sessions : f \in req'[t].mine
    <3>1. (\E m \in rows : f \in m.files) \/ \E t \in Sessions : f \in req[t].mine
      BY <1>1, <2>2 DEF Post!MediaHasFiles
    <3> QED
      BY <1>2, <2>1, <3>1
  <2>3. \A m \in rows' : m.files \subseteq files
    BY <1>1, <1>5 DEF Post!MediaHasFiles
  <2> QED
    BY <1>2, <2>2, <2>3 DEF Post!MediaHasFiles
<1>10. Post!MediaInOrder'
  BY <1>1, <1>2, <1>5 DEF Post!MediaInOrder, Post!Earlier
<1> QED
  BY <1>6, <1>7, <1>8, <1>9, <1>10 DEF Post!MediaIInv

\* The row of what was stored is added, at the next place.
LEMMA MediaAddsRow ==
    ASSUME Post!MediaIInv, NEW s \in Sessions, Post!AddRow(s)
    PROVE  Post!MediaIInv'
<1> DEFINE rest == Tail(req[s].todo)
           row1 == [place |-> req[s].next, files |-> req[s].mine]
           r2   == [req[s] EXCEPT !.todo = rest, !.at = "file", !.mine = {}, !.next = req[s].next + 1]
           r0   == [req[s] EXCEPT !.todo = rest, !.at = "file"]
           r1   == [r0 EXCEPT !.mine = {}, !.next = req[s].next + 1]
           r    == IF rest = <<>> THEN Post!Idle ELSE r1
           size == Post!Counted
<1>1. /\ Post!MediaTypes /\ Post!FilesApart /\ Post!NextPlace /\ Post!MediaHasFiles /\ Post!MediaInOrder
      /\ uploaded \in Nat /\ IsFiniteSet(rows) /\ cut \in BOOLEAN /\ overlapped \in BOOLEAN
      /\ rows \subseteq MediaRows(uploaded)
      /\ req[s] \in MediaHandlers(uploaded) /\ Post!HandlerFits(req[s]) /\ Post!Counted \in Nat
      /\ Post!Counted = Cardinality(rows)
  BY MediaTypesReq, MediaCounted DEF Post!MediaIInv
<1>2. /\ req[s].at = "row" /\ rows' = rows \cup {row1} /\ UNCHANGED <<files, uploaded, overlapped, cut>>
      /\ req[s].op = "attach" /\ req[s].mine # {} /\ req[s].todo # <<>>
  BY <1>1 DEF Post!AddRow, Post!At, Post!HandlerFits
<1>3. req' = [req EXCEPT ![s] = r]
  <2>1. req' = [req EXCEPT ![s] = IF rest = <<>> THEN Post!Idle ELSE r2]
    <3>1. CASE rest = <<>>
      BY <3>1 DEF Post!AddRow
    <3>2. CASE rest # <<>>
      BY <1>1, <3>2, MediaTypesReq DEF Post!AddRow
    <3> QED
      BY <3>1, <3>2
  <2>2. r2 = r1
    BY <1>1 DEF MediaHandlers
  <2> HIDE DEF r1, r2
  <2> QED
    BY <2>1, <2>2
<1>4. rest \in Seq(MediaKinds) /\ req[s].next \in Nat /\ req[s].mine \in SUBSET (1..uploaded)
  BY <1>1, <1>2 DEF MediaHandlers
<1> HIDE DEF rest
<1>5. r0 \in MediaHandlers(uploaded) /\ r0.op = "attach" /\ r0.at = "file" /\ r0.todo = rest
  BY <1>1, <1>2, <1>4 DEF MediaHandlers
<1> HIDE DEF r0
<1>6. /\ r1 \in MediaHandlers(uploaded) /\ r1.op = "attach" /\ r1.at = "file" /\ r1.todo = rest /\ r1.mine = {}
      /\ r1.next = req[s].next + 1
  <2>1. req[s].next + 1 \in Nat /\ {} \in SUBSET (1..uploaded)
    BY <1>4
  <2> DEFINE place == req[s].next + 1
  <2> HIDE DEF place
  <2>2. LET x == [r0 EXCEPT !.mine = {}, !.next = place]
        IN  place \in Nat =>
              /\ x \in MediaHandlers(uploaded) /\ x.op = "attach" /\ x.at = "file" /\ x.todo = rest /\ x.mine = {}
              /\ x.next = place
    BY <1>5, <2>1 DEF MediaHandlers
  <2> QED
    BY <2>1, <2>2 DEF place
<1> HIDE DEF r1
<1>7. /\ r \in MediaHandlers(uploaded) /\ Post!HandlerFits(r) /\ r.op # "remove" /\ r.mine = {}
      /\ r.at \in {"file", "thumbnail", "row"} => r.next = req[s].next + 1
  BY <1>1, <1>6, MediaIdle DEF Post!HandlerFits
<1> HIDE DEF r
<1>8. row1.place = req[s].next /\ row1.files = req[s].mine /\ row1 \in MediaRows(uploaded)
  BY <1>1, <1>2, <1>4, MediaRow
<1> HIDE DEF row1
<1>9. rows' \subseteq MediaRows(uploaded) /\ IsFiniteSet(rows')
  BY <1>1, <1>2, <1>8, FS_AddElement
<1>10. Post!MediaTypes' /\ req'[s] = r /\ \A t \in Sessions \ {s} : req'[t] = req[t]
  <2>1. /\ uploaded' \in Nat /\ uploaded <= uploaded' /\ rows' \subseteq MediaRows(uploaded') /\ IsFiniteSet(rows')
        /\ cut' \in BOOLEAN /\ overlapped' \in BOOLEAN /\ r \in MediaHandlers(uploaded')
    BY <1>1, <1>2, <1>7, <1>9
  <2> QED
    BY <1>1, <1>3, <1>7, <2>1, MediaHandler
<1>11. \A m \in rows : req[s].mine \cap m.files = {}
  BY <1>1, <1>2 DEF Post!FilesApart
<1>12. \A t \in Sessions \ {s} : req[t].mine \cap req[s].mine = {}
  BY <1>1, <1>2 DEF Post!FilesApart
<1>13. Post!FilesApart'
  <2>1. \A m, n \in rows' : m = n \/ m.files \cap n.files = {}
    BY <1>1, <1>2, <1>8, <1>11 DEF Post!FilesApart
  <2>2. ASSUME NEW t \in Sessions, NEW m \in rows'
        PROVE  req'[t].mine \cap m.files = {} \/ (req'[t].at = "delete_row" /\ req'[t].mine = m.files)
    <3>1. CASE t = s
      BY <1>7, <1>10, <3>1
    <3>2. CASE t # s /\ m \in rows
      BY <1>1, <1>10, <3>2 DEF Post!FilesApart
    <3>3. CASE t # s /\ m = row1
      BY <1>8, <1>10, <1>12, <3>3
    <3> QED
      BY <1>2, <2>2, <3>1, <3>2, <3>3
  <2>3. ASSUME NEW t \in Sessions, req'[t].op = "attach"
        PROVE  req'[t].mine \subseteq files /\ \A u \in Sessions \ {t} : req'[t].mine \cap req'[u].mine = {}
    BY <1>1, <1>7, <1>10, <2>3 DEF Post!FilesApart
  <2> QED
    BY <1>2, <2>1, <2>2, <2>3 DEF Post!FilesApart
<1>14. row1 \notin rows
  BY <1>2, <1>8, <1>11
<1>15. Post!Counted' = size + 1
  <2>1. Cardinality(rows') = Cardinality(rows) + 1
    BY <1>1, <1>2, <1>14, FS_AddElement
  <2>2. Post!Counted' = Cardinality(rows')
    BY DEF Post!Counted, Post!Cardinality, Cardinality
  <2> QED
    BY <1>1, <2>1, <2>2
<1>16. ~overlapped => /\ req[s].next = size
                      /\ (\A t \in Sessions : req[t].op # "remove")
                      /\ (\A t \in Sessions \ {s} : req[t].op # "attach")
                      /\ (\A m \in rows : m.place < size)
                      /\ (\A f \in req[s].mine, m \in rows : \A g \in m.files : g < f)
  BY <1>1, <1>2 DEF Post!NextPlace
<1>17. size \in Nat /\ \A m \in rows : m.place \in Nat
  BY <1>1 DEF MediaRows
<1> HIDE DEF size
<1>18. Post!NextPlace'
  <2>1. CASE overlapped
    BY <1>2, <2>1 DEF Post!NextPlace
  <2>2. CASE ~overlapped
    <3>1. \A m \in rows' : m.place < size + 1
      BY <1>2, <1>8, <1>16, <1>17, <2>2
    <3>2. \A t \in Sessions \ {s} : req[t].at \notin {"file", "thumbnail", "row"} /\ req[t].mine = {}
      <4> SUFFICES ASSUME NEW t \in Sessions \ {s}
                   PROVE  req[t].at \notin {"file", "thumbnail", "row"} /\ req[t].mine = {}
        OBVIOUS
      <4>1. req[t] \in MediaHandlers(uploaded) /\ Post!HandlerFits(req[t]) /\ req[t].op = "idle"
        BY <1>1, <1>16, <2>2, MediaTypesReq DEF MediaHandlers
      <4> QED
        BY <4>1 DEF Post!HandlerFits, MediaHandlers
    <3>3. ASSUME NEW t \in Sessions
          PROVE  /\ req'[t].at \in {"file", "thumbnail", "row"} => req'[t].next = size + 1
                 /\ req'[t].mine = {} /\ req'[t].op # "remove"
      BY <1>7, <1>10, <1>16, <2>2, <3>2
    <3>4. \A t, u \in Sessions : req'[t].op = "attach" /\ req'[u].op = "attach" => t = u
      BY <1>10, <1>16, <2>2
    <3> QED
      BY <1>2, <1>15, <3>1, <3>3, <3>4 DEF Post!NextPlace
  <2> QED
    BY <2>1, <2>2
<1>19. Post!MediaHasFiles'
  <2>1. ASSUME ~cut, NEW f \in files
        PROVE  (\E m \in rows' : f \in m.files) \/ \E t \in Sessions : f \in req'[t].mine
    <3>1. (\E m \in rows : f \in m.files) \/ \E t \in Sessions : f \in req[t].mine
      BY <1>1, <2>1 DEF Post!MediaHasFiles
    <3>2. CASE f \in req[s].mine
      BY <1>2, <1>8, <3>2
    <3>3. CASE f \notin req[s].mine
      BY <1>2, <1>10, <3>1, <3>3
    <3> QED
      BY <3>2, <3>3
  <2>2. \A m \in rows' : m.files \subseteq files
    BY <1>1, <1>2, <1>8 DEF Post!MediaHasFiles, Post!FilesApart
  <2> QED
    BY <1>2, <2>1, <2>2 DEF Post!MediaHasFiles
<1>20. Post!MediaInOrder'
  <2>1. ASSUME ~overlapped, NEW m \in rows', NEW n \in rows', \A f \in m.files, g \in n.files : f < g
        PROVE  m.place <= n.place
    <3>1. CASE m \in rows /\ n \in rows
      BY <1>1, <2>1, <3>1 DEF Post!MediaInOrder, Post!Earlier
    <3>2. CASE m \in rows /\ n = row1
      BY <1>8, <1>16, <1>17, <2>1, <3>2
    <3>3. CASE m = row1 /\ n \in rows
      <4>1. PICK f \in req[s].mine : TRUE
        BY <1>2
      <4>2. PICK g \in n.files : TRUE
        BY <1>1, <3>3, MediaRow
      <4>3. f \in Nat /\ g \in Nat
        BY <1>1, <1>4, <3>3 DEF MediaRows
      <4>4. f < g /\ g < f
        BY <1>8, <1>16, <2>1, <3>3
      <4> QED
        BY <4>3, <4>4
    <3>4. CASE m = row1 /\ n = row1
      BY <1>8, <1>4, <3>4
    <3> QED
      BY <1>2, <2>1, <3>1, <3>2, <3>3, <3>4
  <2> QED
    BY <1>2, <2>1 DEF Post!MediaInOrder, Post!Earlier
<1> QED
  BY <1>10, <1>13, <1>18, <1>19, <1>20 DEF Post!MediaIInv

LEMMA MediaNext ==
    ASSUME Post!MediaIInv, Post!MediaNext
    PROVE  Post!MediaIInv'
<1> DEFINE Attached == {<<"image", "video">>, <<"image", "image", "refused_image">>, <<"video_of_refused_thumbnail">>}
<1>1. PICK s \in Sessions :
        \/ \E upload \in Attached : Post!Attach(s, upload)
        \/ Post!CountRows(s) \/ Post!SaveFile(s) \/ Post!SaveThumbnail(s) \/ Post!AddRow(s)
        \/ \E m \in rows : Post!Remove(s, m)
        \/ Post!DeleteRow(s) \/ Post!DeleteFiles(s) \/ Post!CutShort(s)
  BY DEF Post!MediaNext
<1>2. /\ Post!MediaTypes /\ uploaded \in Nat /\ cut \in BOOLEAN /\ overlapped \in BOOLEAN
      /\ rows \subseteq MediaRows(uploaded)
      /\ req[s] \in MediaHandlers(uploaded) /\ Post!HandlerFits(req[s])
  BY MediaTypesReq DEF Post!MediaIInv
<1>3. ASSUME NEW upload \in Attached, Post!Attach(s, upload)
      PROVE  Post!MediaIInv'
  <2> DEFINE r == [req[s] EXCEPT !.op = "attach", !.at = "count", !.todo = upload]
  <2>1. req[s] = Post!Idle /\ req' = [req EXCEPT ![s] = r] /\ UNCHANGED <<rows, files, uploaded, cut>>
    BY <1>2, <1>3, MediaTypesReq DEF Post!Attach
  <2>2. overlapped' = (overlapped \/ \E o \in Sessions : req[o].op = "attach")
    BY <1>3 DEF Post!Attach
  <2>3. /\ overlapped' \in BOOLEAN /\ (overlapped => overlapped')
        /\ ~overlapped' => \A t \in Sessions : req[t].op # "attach"
    BY <1>2, <2>2, Zenon
  <2>4. upload \in Seq(MediaKinds) /\ Len(upload) > 0
    <3>1. CASE upload = <<"image", "video">>
      BY <3>1 DEF MediaKinds
    <3>2. CASE upload = <<"image", "image", "refused_image">>
      BY <3>2 DEF MediaKinds
    <3>3. CASE upload = <<"video_of_refused_thumbnail">>
      BY <3>3 DEF MediaKinds
    <3> QED
      BY <1>3, <3>1, <3>2, <3>3, Zenon
  <2>5. upload # <<>>
    BY <2>4
  <2>6. /\ r \in MediaHandlers(uploaded) /\ r.op = "attach" /\ r.at = "count" /\ r.todo = upload
        /\ r.mine = req[s].mine
    BY <1>2, <2>4 DEF MediaHandlers
  <2> HIDE DEF r
  <2>7. Post!HandlerFits(r)
    BY <2>1, <2>6, <2>5, MediaIdle DEF Post!HandlerFits
  <2> QED
    BY <2>1, <2>3, <2>6, <2>7, MediaBegins
<1>4. CASE Post!CountRows(s)
  BY <1>4, MediaCounts
<1>5. CASE Post!SaveFile(s)
  <2>1. req[s].at = "file" /\ req[s].mine = {}
    BY <1>2, <1>5 DEF Post!SaveFile, Post!At, Post!HandlerFits
  <2>2. Post!Store(s, "row") \/ Post!Store(s, "thumbnail") \/ Post!Refuse(s)
    BY <1>5 DEF Post!SaveFile
  <2>3. CASE Post!Refuse(s)
    <3>1. /\ req' = [req EXCEPT ![s] = Post!Idle] /\ UNCHANGED <<rows, files, uploaded, overlapped>>
      BY <2>3 DEF Post!Refuse, Post!End
    <3>2. cut' = (cut \/ req[s].mine # {})
      BY <2>3 DEF Post!Refuse
    <3>3. cut' \in BOOLEAN /\ (cut => cut')
      BY <1>2, <3>2, Zenon
    <3> QED
      BY <2>1, <3>1, <3>3, MediaEnds
  <2> QED
    BY <2>1, <2>2, <2>3, MediaStores
<1>6. CASE Post!SaveThumbnail(s)
  <2>1. req[s].at = "thumbnail" /\ (Post!Store(s, "row") \/ Post!Refuse(s))
    BY <1>6 DEF Post!SaveThumbnail, Post!At
  <2>2. CASE Post!Refuse(s)
    <3>1. /\ req' = [req EXCEPT ![s] = Post!Idle] /\ UNCHANGED <<rows, files, uploaded, overlapped>>
      BY <2>2 DEF Post!Refuse, Post!End
    <3>2. cut' = (cut \/ req[s].mine # {})
      BY <2>2 DEF Post!Refuse
    <3>3. cut' \in BOOLEAN /\ (cut => cut') /\ (cut' \/ req[s].mine = {})
      BY <1>2, <3>2, Zenon
    <3> QED
      BY <3>1, <3>3, MediaEnds
  <2> QED
    BY <2>1, <2>2, MediaStores
<1>7. CASE Post!AddRow(s)
  BY <1>7, MediaAddsRow
<1>8. ASSUME NEW m \in rows, Post!Remove(s, m)
      PROVE  Post!MediaIInv'
  <2> DEFINE r == [req[s] EXCEPT !.op = "remove", !.at = "delete_row", !.mine = m.files]
  <2>1. /\ req[s] = Post!Idle /\ req' = [req EXCEPT ![s] = r] /\ overlapped' = TRUE
        /\ UNCHANGED <<rows, files, uploaded, cut>>
    BY <1>2, <1>8, MediaTypesReq DEF Post!Remove
  <2>2. m.files \in SUBSET (1..uploaded) /\ m.files # {}
    BY <1>2, MediaRow
  <2>3. r \in MediaHandlers(uploaded) /\ r.op = "remove" /\ r.at = "delete_row" /\ r.mine = m.files
    BY <1>2, <2>2 DEF MediaHandlers
  <2> HIDE DEF r
  <2>4. Post!HandlerFits(r)
    BY <2>2, <2>3 DEF Post!HandlerFits
  <2> QED
    BY <2>1, <2>3, <2>4, MediaBegins
<1>9. CASE Post!DeleteRow(s)
  BY <1>9, MediaDeletesRow
<1>10. CASE Post!DeleteFiles(s)
  BY <1>2, <1>10, MediaEnds DEF Post!DeleteFiles, Post!At, Post!End
<1>11. CASE Post!CutShort(s)
  <2>1. /\ req' = [req EXCEPT ![s] = Post!Idle] /\ UNCHANGED <<rows, files, uploaded, overlapped>>
    BY <1>11 DEF Post!CutShort, Post!Refuse, Post!End
  <2>2. cut' = (cut \/ req[s].mine # {})
    BY <1>11 DEF Post!CutShort, Post!Refuse
  <2>3. cut' \in BOOLEAN /\ (cut => cut') /\ (cut' \/ req[s].mine = {})
    BY <1>2, <2>2, Zenon
  <2> QED
    BY <2>1, <2>3, MediaEnds
<1> QED
  BY <1>1, <1>3, <1>4, <1>5, <1>6, <1>7, <1>8, <1>9, <1>10, <1>11

LEMMA MediaStarts ==
    ASSUME Post!MediaInit
    PROVE  Post!MediaIInv
<1>1. /\ rows = {} /\ files = {} /\ uploaded = 0 /\ overlapped = FALSE /\ cut = FALSE
      /\ req = [s \in Sessions |-> Post!Idle]
  BY DEF Post!MediaInit
<1>2. Post!MediaTypes
  <2>1. 0 \in Nat /\ IsFiniteSet({}) /\ {} \subseteq MediaRows(0)
    BY FS_EmptySet
  <2>2. /\ uploaded \in Nat /\ IsFiniteSet(rows) /\ rows \subseteq MediaRows(uploaded)
        /\ cut \in BOOLEAN /\ overlapped \in BOOLEAN
    BY <1>1, <2>1
  <2>3. Post!Idle \in MediaHandlers(uploaded) /\ Post!HandlerFits(Post!Idle)
    BY <2>2, MediaIdle
  <2>4. req \in [Sessions -> MediaHandlers(uploaded)] /\ \A s \in Sessions : Post!HandlerFits(req[s])
    BY <1>1, <2>3
  <2> QED
    BY <2>2, <2>4, MediaTypesReq
<1>3. Post!FilesApart
  BY <1>1, MediaIdle DEF Post!FilesApart
<1>4. Post!NextPlace
  BY <1>1, MediaIdle DEF Post!NextPlace
<1>5. Post!MediaHasFiles /\ Post!MediaInOrder
  BY <1>1 DEF Post!MediaHasFiles, Post!MediaInOrder
<1> QED
  BY <1>2, <1>3, <1>4, <1>5 DEF Post!MediaIInv

\* Nothing of it changes, and each invariant still holds.
LEMMA ContentStays ==
    ASSUME UNCHANGED vars
    PROVE  /\ Event!IInv => Event!IInv'
           /\ Post!ModerationIInv => Post!ModerationIInv'
           /\ Place!IInv => Place!IInv'
           /\ Catalog!IInv => Catalog!IInv'
           /\ Post!MediaIInv => Post!MediaIInv'
<1>1. /\ UNCHANGED <<req, overlapped, cut, files, rows, event, images, post, publications, announced, barred>>
      /\ UNCHANGED <<sku, price, left, uploaded>>
  BY DEF vars, eventVars, postVars, catalogVars, mediaVars
<1>2. Event!IInv => Event!IInv'
  <2>1. Event!TypeOK' <=> Event!TypeOK
    BY <1>1 DEF Event!TypeOK
  <2>2. Event!Stages' <=> Event!Stages
    BY <1>1 DEF Event!Stages
  <2>3. Event!OneOfEachKind' <=> Event!OneOfEachKind
    BY <1>1 DEF Event!OneOfEachKind
  <2>4. Event!ReadsHold' <=> Event!ReadsHold
    BY <1>1 DEF Event!ReadsHold, Event!Scheduled
  <2>5. Event!ImagesApart' <=> Event!ImagesApart
    BY <1>1 DEF Event!ImagesApart
  <2>6. Event!EventConsistent' <=> Event!EventConsistent
    BY <1>1 DEF Event!EventConsistent, Event!Scheduled
  <2>7. Event!FilesKept' <=> Event!FilesKept
    BY <1>1 DEF Event!FilesKept
  <2> QED
    BY <2>1, <2>2, <2>3, <2>4, <2>5, <2>6, <2>7 DEF Event!IInv
<1>3. Post!ModerationIInv => Post!ModerationIInv'
  <2>1. Post!ModerationTypeOK' <=> Post!ModerationTypeOK
    BY <1>1 DEF Post!ModerationTypeOK
  <2>2. Post!OneOfEachKind' <=> Post!OneOfEachKind
    BY <1>1 DEF Post!OneOfEachKind
  <2>3. Post!StatusAsRead' <=> Post!StatusAsRead
    BY <1>1 DEF Post!StatusAsRead
  <2>4. Post!ToAnnounce' <=> Post!ToAnnounce
    BY <1>1 DEF Post!ToAnnounce
  <2>5. Post!BlockedStaysBlocked' <=> Post!BlockedStaysBlocked
    BY <1>1 DEF Post!BlockedStaysBlocked
  <2>6. Post!AnnouncedOnce' <=> Post!AnnouncedOnce
    BY <1>1 DEF Post!AnnouncedOnce
  <2> QED
    BY <2>1, <2>2, <2>3, <2>4, <2>5, <2>6 DEF Post!ModerationIInv
<1>4. Place!IInv => Place!IInv'
  <2>1. Place!TypeOK' <=> Place!TypeOK
    BY <1>1 DEF Place!TypeOK
  <2>2. \A s : Place!HandlerApart(s)' <=> Place!HandlerApart(s)
    BY <1>1 DEF Place!HandlerApart
  <2>3. Place!FilesApart' <=> Place!FilesApart
    BY <1>1, <2>2 DEF Place!FilesApart
  <2>4. Place!OneHandler' <=> Place!OneHandler
    BY <1>1 DEF Place!OneHandler
  <2>5. Place!ImageServed' <=> Place!ImageServed
    BY <1>1 DEF Place!ImageServed, Place!Existing, Place!Named
  <2> QED
    BY <1>1, <2>1, <2>3, <2>4, <2>5 DEF Place!IInv
<1>5. Catalog!IInv => Catalog!IInv'
  <2>1. \A p : Catalog!Of(p)' = Catalog!Of(p) /\ (Catalog!Exists(p)' <=> Catalog!Exists(p))
    BY <1>1 DEF Catalog!Of, Catalog!Exists
  <2>2. Catalog!TypeOK' <=> Catalog!TypeOK
    BY <1>1 DEF Catalog!TypeOK
  <2>3. Catalog!ProductsConsistent' <=> Catalog!ProductsConsistent
    BY <1>1, <2>1 DEF Catalog!ProductsConsistent
  <2>4. Catalog!FilesKept' <=> Catalog!FilesKept
    BY <1>1, <2>1 DEF Catalog!FilesKept
  <2>5. \A s : Catalog!CreatesAlone(s)' <=> Catalog!CreatesAlone(s)
    BY <1>1 DEF Catalog!CreatesAlone, Catalog!Exists
  <2>6. \A s : Catalog!ReadHolds(s)' <=> Catalog!ReadHolds(s)
    BY <1>1 DEF Catalog!ReadHolds, Catalog!Of
  <2>7. \A s : Catalog!ImagesApart(s)' <=> Catalog!ImagesApart(s)
    BY <1>1 DEF Catalog!ImagesApart
  <2> QED
    BY <2>2, <2>3, <2>4, <2>5, <2>6, <2>7 DEF Catalog!IInv
<1>6. Post!MediaIInv => Post!MediaIInv'
  <2>1. Post!MediaTypes' <=> Post!MediaTypes
    BY <1>1 DEF Post!MediaTypes
  <2>2. Post!FilesApart' <=> Post!FilesApart
    BY <1>1 DEF Post!FilesApart
  <2>3. Post!NextPlace' <=> Post!NextPlace
    BY <1>1 DEF Post!NextPlace, Post!Counted
  <2>4. Post!MediaHasFiles' <=> Post!MediaHasFiles
    BY <1>1 DEF Post!MediaHasFiles
  <2>5. Post!MediaInOrder' <=> Post!MediaInOrder
    BY <1>1 DEF Post!MediaInOrder
  <2> QED
    BY <2>1, <2>2, <2>3, <2>4, <2>5 DEF Post!MediaIInv
<1> QED
  BY <1>2, <1>3, <1>4, <1>5, <1>6

\* Events end after they start, images have files and files images, what is
\* blocked stays so and is announced no more often than published, no product
\* costs more than it did or shares its SKU, and media are listed in order.
THEOREM ContentConsistentAlways == Spec => []ContentConsistent
<1> DEFINE Inv == /\ scenario = "event" => Event!IInv
                  /\ scenario = "post" => Post!ModerationIInv
                  /\ scenario = "place" => Place!IInv
                  /\ scenario = "catalog" => Catalog!IInv
                  /\ scenario = "media" => Post!MediaIInv
<1>1. Init => Inv
  BY EventStarts, PostStarts, PlaceStarts, CatalogStarts, MediaStarts DEF Init
<1>2. Inv /\ [Next]_vars => Inv'
  <2> SUFFICES ASSUME Inv, [Next]_vars PROVE Inv'
    OBVIOUS
  <2>1. CASE Next
    BY <2>1, EventNext, PostNext, PlaceNext, CatalogNext, MediaNext DEF Next
  <2>2. CASE UNCHANGED vars
    <3>1. UNCHANGED scenario
      BY <2>2 DEF vars
    <3> QED
      BY <2>2, <3>1, ContentStays
  <2> QED
    BY <2>1, <2>2
<1>3. Inv => ContentConsistent
  BY EventPromises, CatalogPromises
     DEF ContentConsistent, Post!ModerationIInv, Place!IInv, Post!MediaIInv
<1> QED
  BY <1>1, <1>2, <1>3, PTL DEF Spec
=============================================================================
