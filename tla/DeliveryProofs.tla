---------------------------- MODULE DeliveryProofs ----------------------------
(***************************************************************************)
(* Proofs about deliveries and the places they go to.  Requests for        *)
(* delivery, for every number of promoters, sessions and requests: type    *)
(* correctness, at most one active request, the order's promoter is the    *)
(* one whose request is accepted, the first acceptance wins, and a         *)
(* cancellation takes all active requests with it.  And of the components  *)
(* of MCAccounts: users' addresses, the plans of deliveries and the areas  *)
(* that are imported, for any addresses, promoters, routes, archives and   *)
(* imports.                                                                *)
(***************************************************************************)
EXTENDS DeliveryRequests, Sequences, FiniteSetTheorems, WellFoundedInduction, TLAPS

USE DEF locks, local, Anyone, RequestStatus, ActiveStatuses

(* What the handlers write into a request's row is a request's row. *)
LEMMA NewRow ==
    ASSUME NEW p \in Anyone, NEW t \in Nat
    PROVE  NewRequest(p, t) \in RequestRow /\ NewRequest(p, t).status = "REQUESTED"
<1>1. NewRequest(p, t) \in RequestRow
  <2> DEFINE e1 == [NoRequest EXCEPT !.status = "REQUESTED"]
             e2 == [e1 EXCEPT !.promoter = p]
             e3 == [e2 EXCEPT !.escalated = (p = NoPromoter)]
             end == t + IF p = NoPromoter THEN ClaimWindow ELSE ResponseWindow
             e4 == [e3 EXCEPT !.expires = end]
  <2>1. e1 \in RequestRow
    BY DEF NoRequest, RequestRow
  <2>2. e2 \in RequestRow
    BY <2>1 DEF RequestRow
  <2>3. e3 \in RequestRow
    <3>1. (p = NoPromoter) \in BOOLEAN
      OBVIOUS
    <3> HIDE DEF e2
    <3> QED BY <2>2, <3>1, Zenon DEF RequestRow
  <2>4. e4 \in RequestRow
    <3>1. end \in Nat
      BY WindowsAssumption
    <3> HIDE DEF e3, end
    <3> QED BY <2>3, <3>1 DEF RequestRow
  <2> QED
    BY <2>4 DEF NewRequest
<1>2. NewRequest(p, t).status = "REQUESTED"
  BY DEF NewRequest, NoRequest
<1> QED
  BY <1>1, <1>2

LEMMA EscalatedRow ==
    ASSUME NEW row \in RequestRow, NEW t \in Nat
    PROVE  Escalated(row, t) \in RequestRow /\ Escalated(row, t).status = row.status
<1>1. Escalated(row, t) \in RequestRow
  <2> DEFINE e1 == [row EXCEPT !.passed_over = row.promoter]
             e2 == [e1 EXCEPT !.promoter = NoPromoter]
             e3 == [e2 EXCEPT !.escalated = TRUE]
             e4 == [e3 EXCEPT !.expires = t + ClaimWindow]
  <2>1. e1 \in RequestRow
    BY DEF RequestRow
  <2>2. e2 \in RequestRow
    BY <2>1 DEF RequestRow
  <2>3. e3 \in RequestRow
    <3> HIDE DEF e2
    <3> QED BY <2>2 DEF RequestRow
  <2>4. e4 \in RequestRow
    <3> HIDE DEF e3
    <3> QED BY <2>3, WindowsAssumption DEF RequestRow
  <2> QED
    BY <2>4 DEF Escalated
<1>2. Escalated(row, t).status = row.status
  BY DEF Escalated, RequestRow
<1> QED
  BY <1>1, <1>2

LEMMA AcceptedRow ==
    ASSUME NEW row \in RequestRow, NEW p \in Promoters
    PROVE  /\ Accepted(row, p) \in RequestRow
           /\ Accepted(row, p).promoter = p
           /\ Accepted(row, p).passed_over = row.passed_over
BY DEF Accepted, RequestRow

LEMMA EndedRow ==
    ASSUME NEW row \in RequestRow, NEW st \in RequestStatus
    PROVE  [row EXCEPT !.status = st] \in RequestRow /\ [row EXCEPT !.status = st].status = st
BY DEF RequestRow

(* A refusal or an expiry accepts nothing. *)
LEMMA OpenedOrEndedRows ==
    ASSUME NEW row \in RequestRow, row.status = "REQUESTED", NEW t \in Nat, NEW st \in {"EXPIRED", "REJECTED"},
           NEW new \in OpenedOrEnded(row, st, t)
    PROVE  new \in RequestRow /\ new.status # "ACCEPTED"
<1>1. CASE new = [row EXCEPT !.status = st]
  BY <1>1, EndedRow
<1>2. CASE new = Escalated(row, t) /\ ~row.escalated
  BY <1>2, EscalatedRow
<1> QED
  BY <1>1, <1>2 DEF OpenedOrEnded

(* The end of a handler, of its transaction, and of a flush keep the types. *)
LEMMA IdleTypes ==
    ASSUME TypeOK, NEW s \in Sessions, Idle(s)
    PROVE  /\ job' \in [Sessions -> Jobs] /\ pc' \in [Sessions -> Stages]
           /\ actor' \in [Sessions -> Anyone] /\ target' \in [Sessions -> Ids]
           /\ began' \in [Sessions -> Nat] /\ seenOrder' \in [Sessions -> OrderRow]
           /\ draft' \in [Sessions -> RequestRow]
           /\ seenActive' \in [Sessions -> SUBSET Ids]
<1>1. NoOrder \in OrderRow /\ NoRequest \in RequestRow
  BY DEF NoOrder, OrderRow, OrderStatus, NoRequest, RequestRow
<1>2. "none" \in Jobs /\ "idle" \in Stages /\ 1 \in Ids
  BY WindowsAssumption DEF Jobs, Stages, Ids
<1> QED
  BY <1>1, <1>2 DEF TypeOK, Idle, Forget

LEMMA UnlockTypes ==
    ASSUME TypeOK, NEW s \in Sessions, Unlock(s)
    PROVE  /\ orderLock' \in Sessions \cup {NoSession}
           /\ requestLock' \in [Ids -> Sessions \cup {NoSession}]
BY DEF TypeOK, Unlock, Released

LEMMA RollbackTypes ==
    ASSUME TypeOK, NEW s \in Sessions, Rollback(s)
    PROVE  TypeOK'
<1>1. before' \in SUBSET ((Ids \cup Sessions) \X (Ids \cup Sessions))
  BY DEF TypeOK, Rollback
<1> QED
  BY <1>1, IdleTypes, UnlockTypes DEF TypeOK, Rollback

LEMMA FlushTypes ==
    ASSUME TypeOK, NEW s \in Sessions, Flush(s)
    PROVE  /\ requests' \in [Ids -> RequestRow]
           /\ order' \in OrderRow
           /\ order'.status = order.status
           /\ orderLock' \in Sessions \cup {NoSession}
           /\ requestLock' \in [Ids -> Sessions \cup {NoSession}]
<1>1. draft[s] \in RequestRow /\ draft[s].promoter \in Anyone
  BY DEF TypeOK, RequestRow
<1>2. requests' \in [Ids -> RequestRow]
  BY <1>1 DEF TypeOK, Flush
<1>3. order' \in OrderRow /\ order'.status = order.status
  BY <1>1 DEF TypeOK, Flush, OrderRow
<1>4. Unlock(s)
  BY DEF Flush
<1> QED
  BY <1>2, <1>3, <1>4, UnlockTypes

LEMMA AfterExpireTypes ==
    ASSUME TypeOK, NEW s \in Sessions, AfterExpire(s)
    PROVE  /\ job' \in [Sessions -> Jobs] /\ pc' \in [Sessions -> Stages]
           /\ actor' \in [Sessions -> Anyone] /\ target' \in [Sessions -> Ids]
           /\ began' \in [Sessions -> Nat] /\ seenOrder' \in [Sessions -> OrderRow]
           /\ draft' \in [Sessions -> RequestRow]
           /\ seenActive' \in [Sessions -> SUBSET Ids]
<1>1. CASE job[s] = "list"
  BY <1>1, IdleTypes DEF AfterExpire
<1>2. CASE job[s] # "list"
  <2>1. NoOrder \in OrderRow /\ NoRequest \in RequestRow
    BY DEF NoOrder, OrderRow, OrderStatus, NoRequest, RequestRow
  <2> QED
    BY <1>2, <2>1 DEF TypeOK, AfterExpire, Forget, Goto, Stages
<1> QED
  BY <1>1, <1>2

(* The rows that SELECT ... FOR UPDATE lets the handlers draft. *)
LEMMA ExpiryDraft ==
    ASSUME TypeOK, NEW s \in Sessions, ExpireOverdue(s)
    PROVE  \E r \in Ids, row \in RequestRow :
               /\ Lock(s, r)
               /\ requests[r].status = "REQUESTED"
               /\ row.status # "ACCEPTED"
               /\ draft' = [draft EXCEPT ![s] = row]
<1>1. PICK r \in Ids : /\ Overdue(requests[r], now)
                       /\ Lock(s, r)
                       /\ \E row \in OpenedOrEnded(requests[r], "EXPIRED", now) :
                              draft' = [draft EXCEPT ![s] = row]
  BY DEF ExpireOverdue
<1>2. PICK row \in OpenedOrEnded(requests[r], "EXPIRED", now) : draft' = [draft EXCEPT ![s] = row]
  BY <1>1
<1>3. requests[r] \in RequestRow /\ requests[r].status = "REQUESTED" /\ now \in Nat
  BY <1>1 DEF TypeOK, Overdue
<1>4. row \in RequestRow /\ row.status # "ACCEPTED"
  BY <1>2, <1>3, OpenedOrEndedRows
<1> QED
  BY <1>1, <1>2, <1>3, <1>4

LEMMA AnswerDraft ==
    ASSUME TypeOK, NEW s \in Sessions, OpenRequest(s), actor[s] \in Promoters
    PROVE  \E r \in Ids, row \in RequestRow :
               /\ Lock(s, r)
               /\ requests[r].status = "REQUESTED"
               /\ row.status = "ACCEPTED" => /\ row.promoter \in Promoters
                                             /\ row.promoter # row.passed_over
               /\ draft' = [draft EXCEPT ![s] = row]
<1> DEFINE r == target[s]
<1>1. /\ r \in Ids /\ requests[r] \in RequestRow /\ now \in Nat /\ actor[s] \in Anyone
      /\ Lock(s, r)
      /\ requests[r].status = "REQUESTED"
      /\ requests[r].passed_over # actor[s]
  BY DEF TypeOK, OpenRequest, OpenFor
<1>2. PICK row \in IF job[s] = "accept" THEN {Accepted(requests[r], actor[s])}
                   ELSE OpenedOrEnded(requests[r], "REJECTED", now) :
          draft' = [draft EXCEPT ![s] = row]
  BY DEF OpenRequest
<1>3. /\ row \in RequestRow
      /\ row.status = "ACCEPTED" => row.promoter \in Promoters /\ row.promoter # row.passed_over
  <2>1. CASE job[s] = "accept"
    BY <1>1, <1>2, <2>1, AcceptedRow
  <2>2. CASE job[s] # "accept"
    BY <1>1, <1>2, <2>2, OpenedOrEndedRows
  <2> QED
    BY <2>1, <2>2
<1> QED
  BY <1>1, <1>2, <1>3

-----------------------------------------------------------------------------
(* The invariant is inductive. *)

(* What a step of s does not touch: the other sessions' local state. *)
OthersKeep(s) ==
    \A t \in Sessions \ {s} :
        /\ job'[t] = job[t] /\ pc'[t] = pc[t] /\ actor'[t] = actor[t]
        /\ seenOrder'[t] = seenOrder[t] /\ draft'[t] = draft[t]
        /\ seenActive'[t] = seenActive[t]

LEMMA IdleKeeps ==
    ASSUME TypeOK, NEW s \in Sessions, Idle(s)
    PROVE  OthersKeep(s) /\ pc'[s] = "idle"
BY DEF TypeOK, Idle, Forget, OthersKeep

LEMMA AfterExpireKeeps ==
    ASSUME TypeOK, Answering, NEW s \in Sessions, AfterExpire(s),
           pc[s] \in {"expire", "expire_flush"}
    PROVE  /\ OthersKeep(s)
           /\ pc'[s] \in {"idle", "read", "open"}
           /\ pc'[s] = "open" => actor'[s] \in Promoters
<1>1. CASE job[s] = "list"
  BY <1>1, IdleKeeps DEF AfterExpire
<1>2. CASE job[s] # "list"
  BY <1>2 DEF TypeOK, Answering, AfterExpire, Forget, Goto, OthersKeep
<1> QED
  BY <1>1, <1>2

(* A step of s that changes neither the rows nor the locks, and leaves s where *)
(* it holds nothing, or where it held what it holds.                           *)
LEMMA LocalStep ==
    ASSUME IInv, TypeOK', NEW s \in Sessions, OthersKeep(s),
           UNCHANGED <<order, requests, locks>>,
           pc[s] \notin {"flush", "expire_flush"},
           pc'[s] \notin {"flush", "expire_flush"},
           pc'[s] \in {"active", "cancel_flush"} => orderLock = s,
           pc'[s] = "cancel_flush" => Active \subseteq seenActive'[s],
           pc'[s] = "open" => actor'[s] \in Promoters,
           pc'[s] = "expire" => job'[s] \in {"list", "re_request"} \/ actor'[s] \in Promoters,
           pc'[s] = "insert" => draft'[s].status = "REQUESTED"
    PROVE  IInv'
<1>1. Active' = Active
  BY DEF Active
<1>2. OneActive' /\ AcceptedByOrdersPromoter'
  BY <1>1 DEF IInv, OneActive, AcceptedByOrdersPromoter
<1>3. RequestsHeld'
  BY DEF IInv, LocksHeld, RequestsHeld, OthersKeep
<1>4. FlushersHold'
  BY DEF IInv, LocksHeld, FlushersHold, OthersKeep
<1>5. OrderHeld'
  BY <1>1 DEF IInv, LocksHeld, OrderHeld, OthersKeep
<1>6. Answering'
  BY DEF IInv, Answering, OthersKeep
<1> QED
  BY <1>2, <1>3, <1>4, <1>5, <1>6 DEF IInv, LocksHeld

LEMMA RollbackKeeps ==
    ASSUME IInv, NEW s \in Sessions, Rollback(s)
    PROVE  IInv'
<1> USE DEF IInv, LocksHeld
<1>1. TypeOK'
  BY RollbackTypes
<1>2. OthersKeep(s) /\ pc'[s] = "idle" /\ UNCHANGED <<order, requests>>
  BY IdleKeeps DEF Rollback
<1>3. Active' = Active
  BY <1>2 DEF Active
<1>4. \A r \in Ids, t \in Sessions : requestLock'[r] = t <=> requestLock[r] = t /\ t # s
  BY NoSessionAssumption DEF Rollback, Unlock, Released, TypeOK
<1>5. \A t \in Sessions \ {s} : orderLock = t => orderLock' = t
  BY DEF Rollback, Unlock
<1>6. OneActive' /\ AcceptedByOrdersPromoter'
  BY <1>2, <1>3 DEF OneActive, AcceptedByOrdersPromoter
<1>7. RequestsHeld'
  BY <1>2, <1>4 DEF RequestsHeld, OthersKeep
<1>8. FlushersHold'
  BY <1>2, <1>4 DEF FlushersHold, OthersKeep
<1>9. OrderHeld'
  BY <1>2, <1>3, <1>5 DEF OrderHeld, OthersKeep
<1>10. Answering'
  BY <1>2 DEF Answering, OthersKeep
<1> QED
  BY <1>1, <1>6, <1>7, <1>8, <1>9, <1>10

(* SELECT ... FOR UPDATE of an open request, and the order read after it. *)
LEMMA LockKeeps ==
    ASSUME IInv, TypeOK', NEW s \in Sessions, OthersKeep(s), NEW r \in Ids, Lock(s, r),
           requests[r].status = "REQUESTED", ReadsOrder(s), NEW row \in RequestRow,
           row.status = "ACCEPTED" => row.promoter \in Promoters /\ row.promoter # row.passed_over,
           draft' = [draft EXCEPT ![s] = row],
           UNCHANGED <<order, requests, job, actor>>,
           pc[s] \in {"expire", "open"},
           pc'[s] \in {"flush", "expire_flush"},
           pc'[s] = "expire_flush" => pc[s] = "expire"
    PROVE  IInv'
<1> USE DEF IInv, LocksHeld
<1>1. Active' = Active
  BY DEF Active
<1>2. OneActive' /\ AcceptedByOrdersPromoter'
  BY <1>1 DEF OneActive, AcceptedByOrdersPromoter
<1>3. /\ draft'[s] = row /\ seenOrder'[s].promoter = order'.promoter
      /\ requestLock'[r] = s /\ requestLock[r] = NoSession
      /\ \A q \in Ids \ {r} : requestLock'[q] = requestLock[q]
      /\ \A q \in Ids : requestLock[q] # s
  BY DEF TypeOK, ReadsOrder, Lock, RequestsHeld
<1>4. RequestsHeld'
  <2> SUFFICES ASSUME NEW q \in Ids, NEW t \in Sessions, requestLock'[q] = t
               PROVE  /\ requests'[q].status = "REQUESTED"
                      /\ pc'[t] \in {"flush", "expire_flush"}
                      /\ seenOrder'[t].promoter = order'.promoter
                      /\ draft'[t].status = "ACCEPTED" =>
                             /\ draft'[t].promoter \in Promoters
                             /\ draft'[t].promoter # draft'[t].passed_over
    BY DEF RequestsHeld
  <2>1. CASE q = r
    BY <1>3, <2>1
  <2>2. CASE q # r
    BY <1>3, <2>2 DEF RequestsHeld, OthersKeep
  <2> QED
    BY <2>1, <2>2
<1>5. FlushersHold'
  <2> SUFFICES ASSUME NEW t \in Sessions, pc'[t] \in {"flush", "expire_flush"}
               PROVE  \E q \in Ids : requestLock'[q] = t
    BY DEF FlushersHold
  <2>1. CASE t = s
    BY <1>3, <2>1
  <2>2. CASE t # s
    BY <1>3, <2>2, NoSessionAssumption DEF FlushersHold, OthersKeep
  <2> QED
    BY <2>1, <2>2
<1>6. OrderHeld'
  BY <1>1 DEF OrderHeld, OthersKeep, Lock
<1>7. Answering'
  BY DEF Answering, OthersKeep
<1> QED
  BY <1>2, <1>4, <1>5, <1>6, <1>7

(* The flush of an answer or an expiry: its session holds the one active       *)
(* request, so nobody else holds any, and nobody may have written the order's  *)
(* promoter since it was read.                                                 *)
LEMMA FlushKeeps ==
    ASSUME IInv, TypeOK', NEW s \in Sessions, OthersKeep(s), Flush(s),
           pc[s] \in {"flush", "expire_flush"},
           pc'[s] \in {"idle", "read", "open"},
           pc'[s] = "open" => actor'[s] \in Promoters
    PROVE  IInv'
<1> USE DEF IInv, LocksHeld
<1>1. PICK r \in Ids : requestLock[r] = s
  BY DEF FlushersHold
<1>2. /\ requests[r].status = "REQUESTED"
      /\ seenOrder[s].promoter = order.promoter
      /\ draft[s].status = "ACCEPTED" => /\ draft[s].promoter \in Promoters
                                        /\ draft[s].promoter # draft[s].passed_over
  BY <1>1 DEF RequestsHeld
<1>3. Active = {r}
  BY <1>2 DEF OneActive, Active
<1>4. \A q \in Ids, t \in Sessions : requestLock[q] = t => q = r /\ t = s
  <2>1. \A q \in Ids, t \in Sessions : requestLock[q] = t => q \in Active
    BY DEF RequestsHeld, Active
  <2> QED
    BY <2>1, <1>1, <1>3
<1>5. requests'[r] = draft[s] /\ \A q \in Ids \ {r} : requests'[q] = requests[q]
  BY <1>1, <1>4 DEF Flush
<1>6. Active' \subseteq {r}
  BY <1>3, <1>5 DEF Active
<1>7. OneActive'
  BY <1>6 DEF OneActive
<1>8. AcceptedByOrdersPromoter'
  <2> SUFFICES ASSUME NEW q \in Ids, requests'[q].status = "ACCEPTED"
               PROVE  /\ requests'[q].promoter \in Promoters
                      /\ requests'[q].promoter # requests'[q].passed_over
                      /\ requests'[q].promoter = order'.promoter
    BY DEF AcceptedByOrdersPromoter
  <2>1. q = r
    BY <1>6 DEF Active
  <2>2. draft[s].promoter = order'.promoter
    <3>1. CASE WritesOrder(s)
      BY <3>1 DEF Flush, TypeOK, OrderRow
    <3>2. CASE ~WritesOrder(s)
      BY <3>2, <2>1, <1>2, <1>5 DEF Flush, WritesOrder
    <3> QED
      BY <3>1, <3>2
  <2> QED
    BY <2>1, <2>2, <1>2, <1>5
<1>9. \A q \in Ids, t \in Sessions : requestLock'[q] # t
  BY <1>4, NoSessionAssumption DEF Flush, Unlock, Released
<1>10. \A t \in Sessions : pc'[t] \notin {"flush", "expire_flush"}
  BY <1>4 DEF FlushersHold, OthersKeep
<1>11. RequestsHeld' /\ FlushersHold'
  BY <1>9, <1>10 DEF RequestsHeld, FlushersHold
<1>12. OrderHeld'
  <2>1. \A t \in Sessions \ {s} : orderLock = t => orderLock' = t
    BY DEF Flush, Unlock
  <2> QED
    BY <2>1, <1>3, <1>6 DEF OrderHeld, OthersKeep
<1>13. Answering'
  BY DEF Answering, OthersKeep
<1> QED
  BY <1>7, <1>8, <1>11, <1>12, <1>13

(* The row that re_request inserts is new. *)
LEMMA NewId ==
    ASSUME Existing # Ids
    PROVE  NextId \in Ids \ Existing
BY DEF NextId, Existing

LEMMA InsertKeeps ==
    ASSUME IInv, TypeOK', NEW s \in Sessions, InsertRequest(s)
    PROVE  IInv'
<1> USE DEF IInv, LocksHeld
<1>1. /\ pc[s] = "insert" /\ orderLock = NoSession /\ Active = {}
      /\ requests' = [requests EXCEPT ![NextId] = draft[s]]
      /\ UNCHANGED locks
  BY DEF InsertRequest, IndexAllowsActive
<1>2. OthersKeep(s) /\ pc'[s] = "idle"
  BY IdleKeeps DEF InsertRequest
<1>3. NextId \in Ids
  BY NewId DEF InsertRequest
<1>4. requests'[NextId].status = "REQUESTED"
  BY <1>1, <1>3 DEF Answering, TypeOK
<1>5. Active' \subseteq {NextId}
  BY <1>1 DEF Active, TypeOK
<1>6. OneActive' /\ AcceptedByOrdersPromoter'
  BY <1>4, <1>5 DEF OneActive, AcceptedByOrdersPromoter, Active
<1>7. \A q \in Ids, t \in Sessions : requestLock[q] # t
  BY <1>1 DEF RequestsHeld, Active
<1>8. RequestsHeld' /\ FlushersHold'
  BY <1>1, <1>2, <1>7 DEF RequestsHeld, FlushersHold, OthersKeep
<1>9. OrderHeld'
  BY <1>1, <1>2, NoSessionAssumption DEF OrderHeld, OthersKeep
<1>10. Answering'
  BY <1>2 DEF Answering, OthersKeep
<1> QED
  BY <1>6, <1>8, <1>9, <1>10

(* What a cancellation commits: no request stays active. *)
LEMMA CancelEnds ==
    ASSUME IInv, NEW s \in Sessions, CommitCancellation(s)
    PROVE  Active' = {}
<1>1. Active \subseteq seenActive[s]
  BY DEF IInv, LocksHeld, OrderHeld, CommitCancellation
<1>2. \A r \in Ids : requests'[r].status = "CANCELLED" \/ (r \notin Active /\ requests'[r] = requests[r])
  <2> SUFFICES ASSUME NEW r \in Ids
               PROVE  requests'[r].status = "CANCELLED" \/ (r \notin Active /\ requests'[r] = requests[r])
    OBVIOUS
  <2>1. requests[r] \in RequestRow
    BY DEF IInv, TypeOK
  <2>2. CASE r \in seenActive[s]
    <3>1. requests'[r] = [requests[r] EXCEPT !.status = "CANCELLED"]
      BY <2>2 DEF CommitCancellation
    <3>2. [requests[r] EXCEPT !.status = "CANCELLED"].status = "CANCELLED"
      BY <2>1, EndedRow
    <3> QED
      BY <3>1, <3>2
  <2>3. CASE r \notin seenActive[s]
    BY <1>1, <2>3 DEF CommitCancellation
  <2> QED
    BY <2>2, <2>3
<1> QED
  BY <1>2 DEF Active

LEMMA CancelKeeps ==
    ASSUME IInv, TypeOK', NEW s \in Sessions, CommitCancellation(s)
    PROVE  IInv'
<1> USE DEF IInv, LocksHeld
<1>1. /\ pc[s] = "cancel_flush" /\ orderLock = s /\ Active \subseteq seenActive[s]
      /\ \A r \in seenActive[s] : requestLock[r] = NoSession
      /\ Unlock(s)
  BY DEF CommitCancellation, OrderHeld
<1>2. OthersKeep(s) /\ pc'[s] = "idle"
  BY IdleKeeps DEF CommitCancellation
<1>3. Active' = {}
  BY CancelEnds
<1>4. OneActive' /\ AcceptedByOrdersPromoter'
  BY <1>3 DEF OneActive, AcceptedByOrdersPromoter, Active
<1>5. \A q \in Ids, t \in Sessions : requestLock[q] # t
  <2>1. \A q \in Ids, t \in Sessions : requestLock[q] = t => q \in Active
    BY DEF RequestsHeld, Active
  <2> QED
    BY <2>1, <1>1, NoSessionAssumption
<1>6. \A q \in Ids, t \in Sessions : requestLock'[q] # t
  BY <1>1, <1>5, NoSessionAssumption DEF Unlock, Released
<1>7. RequestsHeld' /\ FlushersHold'
  BY <1>2, <1>5, <1>6 DEF RequestsHeld, FlushersHold, OthersKeep
<1>8. OrderHeld'
  BY <1>1, <1>2 DEF OrderHeld, OthersKeep
<1>9. Answering'
  BY <1>2 DEF Answering, OthersKeep
<1> QED
  BY <1>4, <1>7, <1>8, <1>9

(* Each step of a session keeps the invariant. *)
LEMMA BeginStep ==
    ASSUME IInv, NEW s \in Sessions, Arrive(s)
    PROVE  IInv'
<1>1. PICK j \in AllHandlers, p \in Anyone, r \in Ids :
          /\ Begin(s, j, p, r)
          /\ j \in {"list", "re_request", "cancel", "cancel_mine"} \/ p \in Promoters
          /\ j # "change_status"
  BY WindowsAssumption DEF Arrive, AllHandlers, Existing, Ids
<1>2. OthersKeep(s) /\ pc'[s] \in {"lock", "expire"} /\ pc[s] = "idle" /\ UNCHANGED <<order, requests, locks>>
  BY <1>1 DEF Begin, Goto, OthersKeep, IInv, TypeOK
<1>3. TypeOK'
  BY <1>1 DEF Begin, Goto, IInv, TypeOK, Jobs, Stages
<1>4. pc'[s] = "expire" => job'[s] \in {"list", "re_request"} \/ actor'[s] \in Promoters
  BY <1>1 DEF Begin, Goto, IInv, TypeOK
<1> QED
  BY <1>2, <1>3, <1>4, LocalStep

LEMMA ExpiryStep ==
    ASSUME IInv, NEW s \in Sessions, NothingOverdue(s) \/ ExpireOverdue(s) \/ CommitExpiry(s)
    PROVE  IInv'
<1> USE DEF IInv
<1>1. CASE NothingOverdue(s)
  <2>1. TypeOK'
    BY <1>1, AfterExpireTypes DEF NothingOverdue, TypeOK
  <2>2. OthersKeep(s) /\ pc'[s] \in {"idle", "read", "open"} /\ (pc'[s] = "open" => actor'[s] \in Promoters)
    BY <1>1, AfterExpireKeeps DEF NothingOverdue
  <2> QED
    BY <1>1, <2>1, <2>2, LocalStep DEF NothingOverdue
<1>2. CASE ExpireOverdue(s)
  <2>1. PICK r \in Ids, row \in RequestRow :
            /\ Lock(s, r)
            /\ requests[r].status = "REQUESTED"
            /\ row.status # "ACCEPTED"
            /\ draft' = [draft EXCEPT ![s] = row]
    BY <1>2, ExpiryDraft
  <2>2. TypeOK'
    BY <1>2, <2>1 DEF ExpireOverdue, Lock, ReadsOrder, Goto, TypeOK, Stages
  <2>3. OthersKeep(s) /\ pc[s] = "expire" /\ pc'[s] = "expire_flush"
    BY <1>2, <2>1 DEF ExpireOverdue, ReadsOrder, Goto, OthersKeep, TypeOK
  <2> QED
    BY <1>2, <2>1, <2>2, <2>3, LockKeeps DEF ExpireOverdue
<1>3. CASE CommitExpiry(s)
  <2>1. TypeOK'
    BY <1>3, FlushTypes, AfterExpireTypes DEF CommitExpiry, TypeOK
  <2>2. OthersKeep(s) /\ pc'[s] \in {"idle", "read", "open"} /\ (pc'[s] = "open" => actor'[s] \in Promoters)
    BY <1>3, AfterExpireKeeps DEF CommitExpiry
  <2> QED
    BY <1>3, <2>1, <2>2, FlushKeeps DEF CommitExpiry
<1> QED
  BY <1>1, <1>2, <1>3

LEMMA AnswerStep ==
    ASSUME IInv, NEW s \in Sessions, OpenRequest(s) \/ CommitAnswer(s)
    PROVE  IInv'
<1> USE DEF IInv
<1>1. CASE OpenRequest(s)
  <2>1. actor[s] \in Promoters
    BY <1>1 DEF OpenRequest, Answering
  <2>2. PICK r \in Ids, row \in RequestRow :
            /\ Lock(s, r)
            /\ requests[r].status = "REQUESTED"
            /\ row.status = "ACCEPTED" => row.promoter \in Promoters /\ row.promoter # row.passed_over
            /\ draft' = [draft EXCEPT ![s] = row]
    BY <1>1, <2>1, AnswerDraft
  <2>3. TypeOK'
    BY <1>1, <2>2 DEF OpenRequest, Lock, ReadsOrder, Goto, TypeOK, Stages
  <2>4. OthersKeep(s) /\ pc[s] = "open" /\ pc'[s] = "flush"
    BY <1>1, <2>2 DEF OpenRequest, ReadsOrder, Goto, OthersKeep, TypeOK
  <2> QED
    BY <1>1, <2>2, <2>3, <2>4, LockKeeps DEF OpenRequest
<1>2. CASE CommitAnswer(s)
  <2>1. TypeOK'
    BY <1>2, FlushTypes, IdleTypes DEF CommitAnswer, TypeOK
  <2>2. OthersKeep(s) /\ pc'[s] = "idle"
    BY <1>2, IdleKeeps DEF CommitAnswer
  <2> QED
    BY <1>2, <2>1, <2>2, FlushKeeps DEF CommitAnswer
<1> QED
  BY <1>1, <1>2

LEMMA RetryStep ==
    ASSUME IInv, NEW s \in Sessions, ReadOrder(s) \/ ReadLatest(s) \/ InsertRequest(s)
    PROVE  IInv'
<1> USE DEF IInv
<1>1. CASE ReadOrder(s)
  <2>1. before' \in SUBSET ((Ids \cup Sessions) \X (Ids \cup Sessions))
    BY <1>1 DEF ReadOrder, TypeOK, Existing
  <2>2. TypeOK'
    BY <1>1, <2>1 DEF ReadOrder, ReadsOrder, Goto, TypeOK, Stages
  <2>3. OthersKeep(s) /\ pc[s] = "read" /\ pc'[s] = "latest"
    BY <1>1 DEF ReadOrder, ReadsOrder, Goto, OthersKeep, TypeOK
  <2> QED
    BY <1>1, <2>2, <2>3, LocalStep DEF ReadOrder
<1>2. CASE ReadLatest(s)
  <2>1. PICK p \in Anyone : draft' = [draft EXCEPT ![s] = NewRequest(p, now)]
    BY <1>2 DEF ReadLatest
  <2>2. NewRequest(p, now) \in RequestRow /\ NewRequest(p, now).status = "REQUESTED"
    <3>1. draft[s] \in RequestRow /\ now \in Nat
      BY DEF TypeOK
    <3> QED
      BY <3>1, NewRow
  <2>3. TypeOK'
    BY <1>2, <2>1, <2>2 DEF ReadLatest, Goto, TypeOK, Stages
  <2>4. OthersKeep(s) /\ pc[s] = "latest" /\ pc'[s] = "insert" /\ draft'[s].status = "REQUESTED"
    BY <1>2, <2>1, <2>2 DEF ReadLatest, Goto, OthersKeep, TypeOK
  <2> QED
    BY <1>2, <2>3, <2>4, LocalStep DEF ReadLatest
<1>3. CASE InsertRequest(s)
  <2>1. NextId \in Ids /\ draft[s] \in RequestRow /\ draft[s].promoter \in Anyone
    BY <1>3, NewId DEF InsertRequest, TypeOK, RequestRow
  <2>2. before' \in SUBSET ((Ids \cup Sessions) \X (Ids \cup Sessions))
    BY <1>3, <2>1 DEF InsertRequest, TypeOK
  <2>3. order' \in OrderRow /\ requests' \in [Ids -> RequestRow]
    BY <1>3, <2>1 DEF InsertRequest, TypeOK, OrderRow
  <2>4. TypeOK'
    BY <1>3, <2>2, <2>3, IdleTypes DEF InsertRequest, TypeOK
  <2> QED
    BY <1>3, <2>4, InsertKeeps
<1> QED
  BY <1>1, <1>2, <1>3

LEMMA CancelStep ==
    ASSUME IInv, NEW s \in Sessions, LockOrder(s) \/ ListActive(s) \/ CommitCancellation(s)
    PROVE  IInv'
<1> USE DEF IInv
<1>1. CASE LockOrder(s)
  <2>1. TypeOK' /\ pc' = [pc EXCEPT ![s] = "active"]
    BY <1>1 DEF LockOrder, Goto, TypeOK, Stages
  <2>2. Active' = Active
    BY <1>1 DEF LockOrder, Active
  <2>3. OneActive' /\ AcceptedByOrdersPromoter'
    BY <1>1, <2>2 DEF LockOrder, OneActive, AcceptedByOrdersPromoter
  <2>4. RequestsHeld' /\ FlushersHold'
    BY <1>1, <2>1 DEF LockOrder, TypeOK, LocksHeld, RequestsHeld, FlushersHold
  <2>5. OrderHeld'
    BY <1>1, <2>1, <2>2, NoSessionAssumption DEF LockOrder, TypeOK, LocksHeld, OrderHeld
  <2>6. Answering'
    BY <1>1, <2>1 DEF LockOrder, TypeOK, Answering
  <2> QED
    BY <2>1, <2>3, <2>4, <2>5, <2>6 DEF LocksHeld
<1>2. CASE ListActive(s)
  <2>1. TypeOK'
    BY <1>2 DEF ListActive, Goto, TypeOK, Stages, Active
  <2>2. OthersKeep(s) /\ pc[s] = "active" /\ pc'[s] = "cancel_flush" /\ seenActive'[s] = Active
    BY <1>2 DEF ListActive, Goto, OthersKeep, TypeOK
  <2>3. orderLock = s
    BY <2>2 DEF LocksHeld, OrderHeld
  <2> QED
    BY <1>2, <2>1, <2>2, <2>3, LocalStep DEF ListActive
<1>3. CASE CommitCancellation(s)
  <2>1. requests' \in [Ids -> RequestRow]
    <3>1. \A r \in Ids : [requests[r] EXCEPT !.status = "CANCELLED"] \in RequestRow
      BY EndedRow DEF TypeOK
    <3> QED
      BY <1>3, <3>1 DEF CommitCancellation, TypeOK
  <2>2. order' \in OrderRow
    BY <1>3 DEF CommitCancellation, TypeOK, OrderRow, OrderStatus
  <2>3. TypeOK'
    BY <1>3, <2>1, <2>2, IdleTypes, UnlockTypes DEF CommitCancellation, TypeOK
  <2> QED
    BY <1>3, <2>3, CancelKeeps
<1> QED
  BY <1>1, <1>2, <1>3

(* What no session does: the business moves the order on, time passes. *)
LEMMA WorldStep ==
    ASSUME IInv, ChangeStatus \/ Tick \/ UNCHANGED vars
    PROVE  IInv'
<1> USE DEF IInv
<1>1. /\ UNCHANGED <<requests, before, locks, pc, local>>
      /\ now' \in Nat /\ order' \in OrderRow /\ order'.promoter = order.promoter
  <2>1. CASE ChangeStatus
    BY <2>1 DEF ChangeStatus, AfterStatus, TypeOK, OrderRow, OrderStatus
  <2>2. CASE Tick
    BY <2>2 DEF Tick, TypeOK
  <2>3. CASE UNCHANGED vars
    BY <2>3 DEF vars, TypeOK
  <2> QED
    BY <2>1, <2>2, <2>3
<1>2. TypeOK'
  BY <1>1 DEF TypeOK
<1>3. Active' = Active
  BY <1>1 DEF Active
<1>4. OneActive' /\ AcceptedByOrdersPromoter'
  BY <1>1, <1>3 DEF OneActive, AcceptedByOrdersPromoter
<1>5. LocksHeld'
  BY <1>1, <1>3 DEF LocksHeld, RequestsHeld, FlushersHold, OrderHeld
<1>6. Answering'
  BY <1>1 DEF Answering
<1> QED
  BY <1>2, <1>4, <1>5, <1>6

-----------------------------------------------------------------------------
(* The theorems. *)

LEMMA Initially == Init => IInv
<1> SUFFICES ASSUME Init PROVE IInv
  OBVIOUS
<1>1. PICK p \in Anyone :
          /\ order = [status |-> "PENDING", promoter |-> p]
          /\ requests = [r \in Ids |-> IF r = 1 THEN NewRequest(p, 1) ELSE NoRequest]
  BY DEF Init
<1>2. NewRequest(p, 1) \in RequestRow /\ NewRequest(p, 1).status = "REQUESTED"
  BY NewRow
<1>3. NoRequest \in RequestRow /\ NoOrder \in OrderRow /\ NoRequest.status = "NONE"
  BY DEF NoRequest, RequestRow, NoOrder, OrderRow, OrderStatus
<1>4. TypeOK
  <2>1. order \in OrderRow /\ requests \in [Ids -> RequestRow]
    BY <1>1, <1>2, <1>3 DEF OrderRow, OrderStatus
  <2>2. 1 \in Ids
    BY WindowsAssumption DEF Ids
  <2> QED
    BY <1>3, <2>1, <2>2 DEF Init, TypeOK, Jobs, Stages
<1>5. Active \subseteq {1}
  BY <1>1, <1>3 DEF Active
<1>6. OneActive /\ AcceptedByOrdersPromoter
  BY <1>1, <1>2, <1>3, <1>5 DEF OneActive, AcceptedByOrdersPromoter
<1>7. LocksHeld /\ Answering
  BY NoSessionAssumption DEF Init, LocksHeld, RequestsHeld, FlushersHold, OrderHeld, Answering
<1> QED
  BY <1>4, <1>6, <1>7 DEF IInv

LEMMA Preserved == IInv /\ [Next]_vars => IInv'
<1> SUFFICES ASSUME IInv, [Next]_vars PROVE IInv'
  OBVIOUS
<1>1. ASSUME NEW s \in Sessions, Arrive(s) PROVE IInv'
  BY <1>1, BeginStep
<1>2. ASSUME NEW s \in Sessions, Step(s) PROVE IInv'
  <2>1. CASE NothingOverdue(s) \/ ExpireOverdue(s) \/ CommitExpiry(s)
    BY <2>1, ExpiryStep
  <2>2. CASE OpenRequest(s) \/ CommitAnswer(s)
    BY <2>2, AnswerStep
  <2>3. CASE ReadOrder(s) \/ ReadLatest(s) \/ InsertRequest(s)
    BY <2>3, RetryStep
  <2>4. CASE LockOrder(s) \/ ListActive(s) \/ CommitCancellation(s)
    BY <2>4, CancelStep
  <2>5. CASE \/ NotOpen(s) \/ RouteRefused(s) \/ NotRetried(s) \/ InsertRefused(s)
             \/ NotCancellable(s) \/ StockNotReleased(s) \/ DeadlockVictim(s)
    BY <2>5, RollbackKeeps
       DEF NotOpen, RouteRefused, NotRetried, InsertRefused, NotCancellable, StockNotReleased,
           DeadlockVictim
  <2> QED
    BY <1>2, <2>1, <2>2, <2>3, <2>4, <2>5 DEF Step
<1>3. ASSUME NEW s \in Sessions, Crash(s) PROVE IInv'
  BY <1>3, RollbackKeeps DEF Crash
<1> QED
  BY <1>1, <1>2, <1>3, WorldStep DEF Next

(* The invariant on which the others rest holds of every reachable state: the *)
(* lock discipline of the handlers of delivery_request_service.py.            *)
THEOREM Inductive == Spec => []IInv
BY Initially, Preserved, PTL DEF Spec

(* Every variable keeps the type the models declare for it. *)
THEOREM TypeCorrect == Spec => []TypeOK
<1>1. IInv => TypeOK
  BY DEF IInv
<1> QED
  BY <1>1, Inductive, PTL

(* An order never has two active delivery requests, an accepted one is the    *)
(* order's promoter's, and whoever holds a lock finds what it read unchanged. *)
THEOREM Safety == Spec => [](RequestsConsistent /\ LocksHeld)
<1>1. IInv => RequestsConsistent /\ LocksHeld
  BY DEF IInv, RequestsConsistent
<1> QED
  BY <1>1, Inductive, PTL

(* A step that writes request rows: a flush of the open one, the insertion of *)
(* a new one, or the cancellation.                                            *)
LEMMA Writers ==
    ASSUME IInv, [Next]_vars
    PROVE  \/ UNCHANGED requests
           \/ \E s \in Sessions : Flush(s)
           \/ \E s \in Sessions : InsertRequest(s)
           \/ \E s \in Sessions : CommitCancellation(s)
<1>1. ASSUME NEW s \in Sessions, Step(s)
      PROVE  UNCHANGED requests \/ Flush(s) \/ InsertRequest(s) \/ CommitCancellation(s)
  BY <1>1 DEF Step, NothingOverdue, ExpireOverdue, CommitExpiry, OpenRequest, NotOpen, RouteRefused,
              CommitAnswer, ReadOrder, ReadLatest, NotRetried, InsertRefused, LockOrder,
              NotCancellable, ListActive, StockNotReleased, DeadlockVictim, Rollback
<1>2. ASSUME NEW s \in Sessions, Arrive(s) \/ Crash(s) PROVE UNCHANGED requests
  BY <1>2 DEF Arrive, Begin, Crash, Rollback
<1>3. ASSUME ChangeStatus \/ Tick \/ UNCHANGED vars PROVE UNCHANGED requests
  BY <1>3 DEF ChangeStatus, Tick, vars
<1> QED
  BY <1>1, <1>2, <1>3 DEF Next

(* "First to accept wins": the accepted request keeps its promoter, and what  *)
(* has ended stays ended, but for the cancellation of the order.              *)
THEOREM FirstWins == Spec => FirstAcceptWins
<1> DEFINE Kept(r) == requests[r].status \in RequestStatus \ {"REQUESTED"} =>
              \/ requests'[r] = requests[r]
              \/ /\ requests'[r] = [requests[r] EXCEPT !.status = "CANCELLED"]
                 /\ order'.status = "CANCELLED"
<1>1. ASSUME IInv, [Next]_vars PROVE [\A r \in Ids : Kept(r)]_vars
  <2> SUFFICES ASSUME NEW r \in Ids, requests[r].status \in RequestStatus \ {"REQUESTED"}
               PROVE  \/ requests'[r] = requests[r]
                      \/ /\ requests'[r] = [requests[r] EXCEPT !.status = "CANCELLED"]
                         /\ order'.status = "CANCELLED"
    OBVIOUS
  <2>1. CASE UNCHANGED requests
    BY <2>1
  <2>2. ASSUME NEW s \in Sessions, Flush(s) PROVE requests'[r] = requests[r]
    BY <1>1, <2>2 DEF IInv, LocksHeld, RequestsHeld, Flush
  <2>3. ASSUME NEW s \in Sessions, InsertRequest(s) PROVE requests'[r] = requests[r]
    <3>1. NextId # r
      BY <2>3, NewId DEF InsertRequest, Existing
    <3> QED
      BY <1>1, <2>3, <3>1 DEF InsertRequest, IInv, TypeOK
  <2>4. ASSUME NEW s \in Sessions, CommitCancellation(s)
        PROVE  \/ requests'[r] = requests[r]
               \/ /\ requests'[r] = [requests[r] EXCEPT !.status = "CANCELLED"]
                  /\ order'.status = "CANCELLED"
    BY <1>1, <2>4 DEF CommitCancellation, IInv, TypeOK, OrderRow
  <2> QED
    BY <1>1, <2>1, <2>2, <2>3, <2>4, Writers
<1> QED
  BY <1>1, Inductive, PTL DEF Spec, FirstAcceptWins

(* A cancellation takes all active requests with it, whatever is answered or  *)
(* asked for between its listing of them and its commit.                      *)
THEOREM CancelComplete == Spec => CancelTakesAll
<1>1. ASSUME IInv, [Next]_vars
      PROVE  [order.status # "CANCELLED" /\ order'.status = "CANCELLED"
                  => \A r \in Ids : requests'[r].status \notin ActiveStatuses]_vars
  <2> SUFFICES ASSUME order.status # "CANCELLED", order'.status = "CANCELLED"
               PROVE  \A r \in Ids : requests'[r].status \notin ActiveStatuses
    OBVIOUS
  <2>1. PICK s \in Sessions : CommitCancellation(s)
    <3>1. ASSUME NEW s \in Sessions, Flush(s) PROVE order'.status = order.status
      BY <1>1, <3>1, FlushTypes DEF IInv
    <3>2. ASSUME NEW s \in Sessions, InsertRequest(s) PROVE order'.status = order.status
      BY <1>1, <3>2 DEF InsertRequest, IInv, TypeOK, OrderRow
    <3>3. ASSUME ChangeStatus PROVE order'.status # "CANCELLED"
      BY <1>1, <3>3 DEF ChangeStatus, AfterStatus, IInv, TypeOK, OrderRow
    <3>4. ASSUME NEW s \in Sessions, Step(s)
          PROVE  CommitCancellation(s) \/ order'.status = order.status
      BY <3>1, <3>2, <3>4
         DEF Step, NothingOverdue, ExpireOverdue, CommitExpiry, OpenRequest, NotOpen, RouteRefused,
             CommitAnswer, ReadOrder, ReadLatest, NotRetried, InsertRefused, LockOrder,
             NotCancellable, ListActive, StockNotReleased, DeadlockVictim, Rollback
    <3>5. ASSUME NEW s \in Sessions, Arrive(s) \/ Crash(s) PROVE order' = order
      BY <3>5 DEF Arrive, Begin, Crash, Rollback
    <3>6. ASSUME Tick \/ UNCHANGED vars PROVE order' = order
      BY <3>6 DEF Tick, vars
    <3> QED
      BY <1>1, <3>3, <3>4, <3>5, <3>6 DEF Next
  <2> QED
    BY <1>1, <2>1, CancelEnds DEF Active
<1> QED
  BY <1>1, Inductive, PTL DEF Spec, CancelTakesAll

-----------------------------------------------------------------------------
(* Addresses: of the handlers that run at the same time the first to commit *)
(* clears all defaults that there are.                                      *)
CONSTANTS AddressIds, MaxOverlaps, Sections, Lists, Known, Payloads
VARIABLES req, crossed, saved, default, shipping, lock, overlaps, rows, preferred, wanted
Data == INSTANCE AccountData WITH Ids <- AddressIds

BookSetting ==
    /\ NoSession \notin Sessions /\ IsFiniteSet(Sessions) /\ IsFiniteSet(AddressIds)
    /\ 0 \notin AddressIds /\ MaxOverlaps \in Nat

BookHandlers == [op: Data!Edits \cup {"idle", "order"},
                 at: {"idle", "clear", "wait", "write", "delete", "replace"},
                 id: AddressIds \cup {0}, default: BOOLEAN, clearing: SUBSET AddressIds]

LEMMA BookByCardinality ==
    ASSUME NEW S
    PROVE  Data!Cardinality(S) = Cardinality(S)
  BY DEF Data!Cardinality, Cardinality

LEMMA BookTyped ==
    ASSUME Data!BookTypeOK
    PROVE  /\ default \subseteq saved /\ saved \subseteq AddressIds /\ shipping \subseteq AddressIds
           /\ lock \in [AddressIds -> Sessions \cup {NoSession}] /\ req \in [Sessions -> BookHandlers]
           /\ overlaps \in 0..MaxOverlaps /\ crossed \in BOOLEAN
  BY DEF Data!BookTypeOK, BookHandlers, Data!NoId

LEMMA BookTypes ==
    ASSUME default' \subseteq saved', saved' \subseteq AddressIds, shipping' \subseteq AddressIds,
           lock' \in [AddressIds -> Sessions \cup {NoSession}], req' \in [Sessions -> BookHandlers],
           overlaps' \in 0..MaxOverlaps, crossed' \in BOOLEAN
    PROVE  Data!BookTypeOK'
  BY DEF Data!BookTypeOK, BookHandlers, Data!NoId

LEMMA BookOps ==
    /\ Data!Edits = {"create", "set_default", "delete"}
    /\ Data!Idle \in BookHandlers /\ Data!Idle.op = "idle" /\ Data!Idle.at = "idle"
    /\ \A h \in BookHandlers :
          /\ h.op \in {"create", "set_default", "delete", "idle", "order"}
          /\ h.at \in {"idle", "clear", "wait", "write", "delete", "replace"}
          /\ h.id \in AddressIds \cup {0} /\ h.default \in BOOLEAN /\ h.clearing \subseteq AddressIds
  BY DEF Data!Edits, Data!Idle, Data!NoId, BookHandlers

\* The sizes are numbers.
LEMMA BookSizes ==
    ASSUME BookSetting, Data!BookTypeOK
    PROVE  /\ IsFiniteSet(Data!Editing) /\ Cardinality(Data!Editing) \in Nat
           /\ IsFiniteSet(default) /\ Cardinality(default) \in Nat
           /\ overlaps \in Nat
<1>1. Data!Editing \subseteq Sessions
  BY DEF Data!Editing, Data!Running
<1>2. default \subseteq AddressIds /\ overlaps \in Nat
  BY BookTyped DEF BookSetting
<1> QED
  BY <1>1, <1>2, FS_Subset, FS_CardinalityType DEF BookSetting

LEMMA BookCommits ==
    ASSUME BookSetting, Data!BookIInv, NEW s \in Sessions, req[s].op # "idle",
           NEW ids \in SUBSET AddressIds, NEW defaults \in SUBSET ids, NEW shipped \in SUBSET AddressIds,
           Data!Commit(s, ids, defaults, shipped),
           Cardinality(defaults) <= Cardinality(default) + 1,
           s \in Data!Editing /\ Data!ClearsAll(s) =>
               Cardinality(defaults) <= Cardinality(default) \/ Cardinality(defaults) <= 1,
           s \notin Data!Editing => ids = saved /\ defaults = default,
           overlaps = 0 /\ ids # {} => defaults # {},
           crossed \/ shipped \subseteq ids,
           ~crossed => \A t \in Data!Running({"delete"}) : t # s => req[t].id \notin shipped
    PROVE  Data!BookIInv'
<1> USE BookOps
<1>1. /\ saved' = ids /\ default' = defaults /\ shipping' = shipped
      /\ lock' = [i \in AddressIds |-> IF lock[i] = s THEN NoSession ELSE lock[i]]
      /\ req' = [req EXCEPT ![s] = Data!Idle] /\ overlaps' = overlaps /\ crossed' = crossed
  BY DEF Data!Commit
<1>2. /\ default \subseteq saved /\ saved \subseteq AddressIds /\ shipping \subseteq AddressIds
      /\ lock \in [AddressIds -> Sessions \cup {NoSession}] /\ req \in [Sessions -> BookHandlers]
      /\ overlaps \in 0..MaxOverlaps /\ crossed \in BOOLEAN
  BY BookTyped DEF Data!BookIInv
<1>3. /\ req' \in [Sessions -> BookHandlers] /\ req'[s] = Data!Idle
      /\ \A t \in Sessions : t # s => req'[t] = req[t]
  BY <1>1, <1>2
<1>4. lock' \in [AddressIds -> Sessions \cup {NoSession}]
  BY <1>1, <1>2
<1>5. Data!BookTypeOK'
  BY <1>1, <1>2, <1>3, <1>4, BookTypes
<1>6. Data!Editing' = Data!Editing \ {s} /\ Data!Running({"delete"})' = Data!Running({"delete"}) \ {s}
      /\ Data!Running({"order"})' = Data!Running({"order"}) \ {s}
  BY <1>3 DEF Data!Editing, Data!Running
<1>7. Data!LocksHeld'
  <2> SUFFICES ASSUME NEW t \in Sessions, NEW i \in AddressIds, lock'[i] = t
               PROVE  \/ req'[t].op \in {"create", "set_default"} /\ req'[t].at = "write" /\ req'[t].default
                      \/ req'[t].op = "delete" /\ req'[t].at = "replace" /\ req'[t].id = i
    BY DEF Data!LocksHeld
  <2>1. t # s /\ lock[i] = t
    BY <1>1 DEF BookSetting
  <2> QED
    BY <1>3, <2>1 DEF Data!BookIInv, Data!LocksHeld
<1>8. Data!Stages'
  BY <1>3 DEF Data!BookIInv, Data!Stages
<1>9. Data!DefaultsCounted'
  <2> DEFINE n == Cardinality(default)
             m == Cardinality(defaults)
             e == Cardinality(Data!Editing)
             f == Cardinality(Data!Editing')
             o == overlaps
  <2>1. n \in Nat /\ e \in Nat /\ o \in Nat
    BY BookSizes DEF Data!BookIInv
  <2>2. IsFiniteSet(defaults) /\ m \in Nat
    BY FS_Subset, FS_CardinalityType DEF BookSetting
  <2>3. f = IF s \in Data!Editing THEN e - 1 ELSE e
    BY <1>6, BookSizes, FS_RemoveElement DEF Data!BookIInv
  <2>4. f \in Nat
    BY <1>6, BookSizes, FS_RemoveElement, FS_CardinalityType DEF Data!BookIInv
  <2>5. /\ e <= 1 + o
        /\ \/ n + e <= 1 + o
           \/ n + e <= 2 + o /\ \A t \in Data!Editing : Data!ClearsAll(t)
    BY BookByCardinality DEF Data!BookIInv, Data!DefaultsCounted
  <2>6. CASE s \in Data!Editing
    <3>1. f <= 1 + o /\ m + f <= 1 + o
      <4>1. m <= n + 1 /\ f = e - 1
        BY <2>3, <2>6
      <4>2. n + e <= 1 + o \/ (n + e <= 2 + o /\ (m <= n \/ m <= 1))
        BY <2>5, <2>6
      <4> HIDE DEF n, m, e, f, o
      <4> QED
        BY <2>1, <2>2, <2>4, <2>5, <4>1, <4>2
    <3> QED
      BY <1>1, <3>1, BookByCardinality DEF Data!DefaultsCounted
  <2>7. CASE s \notin Data!Editing
    <3>1. defaults = default /\ Data!Editing' = Data!Editing
      BY <1>6, <2>7
    <3>2. \A t \in Data!Editing : Data!ClearsAll(t) => Data!ClearsAll(t)'
      <4> SUFFICES ASSUME NEW t \in Data!Editing, Data!ClearsAll(t) PROVE Data!ClearsAll(t)'
        OBVIOUS
      <4>1. t \in Sessions /\ t # s /\ req'[t] = req[t]
        BY <1>3, <2>7 DEF Data!Editing, Data!Running
      <4>2. Data!Held(t) \subseteq Data!Held(t)'
        BY <1>1, <1>2, <4>1 DEF Data!Held
      <4> QED
        BY <1>1, <3>1, <4>1, <4>2 DEF Data!ClearsAll
    <3> QED
      BY <1>1, <3>1, <3>2 DEF Data!BookIInv, Data!DefaultsCounted
  <2> QED
    BY <2>6, <2>7
<1>10. Data!AloneKnows'
  <2> SUFFICES ASSUME overlaps = 0
               PROVE  /\ saved' # {} => default' # {}
                      /\ \A t, o \in Data!Editing' : t = o
                      /\ \A t \in Data!Editing' :
                            /\ req'[t].op = "create" /\ ~req'[t].default => saved' # {}
                            /\ req'[t].op = "delete" => (req'[t].default <=> req'[t].id \in default')
    BY <1>1 DEF Data!AloneKnows
  <2>1. /\ \A t, o \in Data!Editing : t = o
        /\ \A t \in Data!Editing :
              /\ req[t].op = "create" /\ ~req[t].default => saved # {}
              /\ req[t].op = "delete" => (req[t].default <=> req[t].id \in default)
    BY DEF Data!BookIInv, Data!AloneKnows
  <2>2. CASE s \in Data!Editing
    BY <1>1, <1>6, <2>1, <2>2
  <2>3. CASE s \notin Data!Editing
    <3>1. \A t \in Data!Editing' : t \in Data!Editing /\ req'[t] = req[t]
      BY <1>3, <1>6 DEF Data!Editing, Data!Running
    <3> QED
      BY <1>1, <2>1, <2>3, <3>1
  <2> QED
    BY <2>2, <2>3
<1>11. Data!DeletedUnused'
  <2> SUFFICES ASSUME ~crossed, NEW t \in Data!Running({"delete"})'
               PROVE  req'[t].id \notin shipping' /\ Data!Running({"order"})' = {}
    BY <1>1 DEF Data!DeletedUnused
  <2>1. t \in Data!Running({"delete"}) /\ t # s /\ req'[t] = req[t]
    BY <1>3, <1>6 DEF Data!Running
  <2>2. Data!Running({"order"}) = {}
    BY <2>1 DEF Data!BookIInv, Data!DeletedUnused
  <2> QED
    BY <1>1, <1>6, <2>1, <2>2
<1>12. Data!OpenOrdersShip'
  BY <1>1 DEF Data!OpenOrdersShip
<1> QED
  BY <1>5, <1>7, <1>8, <1>9, <1>10, <1>11, <1>12 DEF Data!BookIInv

LEMMA BookBegins ==
    ASSUME BookSetting, Data!BookInit
    PROVE  Data!BookIInv
<1> USE BookOps
<1>1. /\ saved = {} /\ default = {} /\ shipping = {} /\ overlaps = 0 /\ crossed = FALSE
      /\ lock = [i \in AddressIds |-> NoSession] /\ req = [t \in Sessions |-> Data!Idle]
  BY DEF Data!BookInit
<1>2. Data!BookTypeOK
  <2>1. req \in [Sessions -> BookHandlers]
    BY <1>1
  <2>2. lock \in [AddressIds -> Sessions \cup {NoSession}]
    BY <1>1
  <2>3. overlaps \in 0..MaxOverlaps
    BY <1>1 DEF BookSetting
  <2>4. default \subseteq saved /\ saved \subseteq AddressIds /\ shipping \subseteq AddressIds /\ crossed \in BOOLEAN
    BY <1>1
  <2> QED
    BY <2>1, <2>2, <2>3, <2>4 DEF Data!BookTypeOK, BookHandlers, Data!NoId
<1>3. Data!Editing = {} /\ Data!Running({"delete"}) = {}
  BY <1>1 DEF Data!Editing, Data!Running
<1>4. Data!LocksHeld
  BY <1>1 DEF Data!LocksHeld, BookSetting
<1>5. Data!Stages
  BY <1>1 DEF Data!Stages
<1>6. Data!DefaultsCounted
  BY <1>1, <1>3, FS_EmptySet, BookByCardinality DEF Data!DefaultsCounted
<1>7. Data!AloneKnows /\ Data!DeletedUnused /\ Data!OpenOrdersShip
  BY <1>1, <1>3 DEF Data!AloneKnows, Data!DeletedUnused, Data!OpenOrdersShip
<1> QED
  BY <1>2, <1>4, <1>5, <1>6, <1>7 DEF Data!BookIInv

\* A handler of this user begins.
LEMMA BookHandlerBegins ==
    ASSUME BookSetting, Data!BookIInv, NEW s \in Sessions, NEW i \in AddressIds,
           NEW op \in {"create", "set_default", "delete", "order"}, NEW isDefault \in BOOLEAN,
           NEW at \in {"clear", "write", "delete"}, Data!Begin(s, op, i, isDefault, at),
           op = "create" => at = IF isDefault THEN "clear" ELSE "write",
           op = "create" /\ ~isDefault => saved # {},
           op = "set_default" => at = "clear" /\ isDefault,
           op = "delete" => at = "delete" /\ i \notin shipping /\ (isDefault <=> i \in default),
           op = "order" => at = "write"
    PROVE  Data!BookIInv'
<1> USE BookOps
<1> DEFINE h == [op |-> op, at |-> at, id |-> i, default |-> isDefault, clearing |-> {}]
<1>1. /\ saved' = saved /\ default' = default /\ shipping' = shipping /\ lock' = lock
      /\ req' = [req EXCEPT ![s] = h] /\ req[s].op = "idle"
      /\ overlaps' = overlaps + (IF op \in Data!Edits /\ Data!Editing # {} THEN 1 ELSE 0)
      /\ overlaps' <= MaxOverlaps
      /\ crossed' = (\/ crossed
                     \/ op = "order" /\ Data!Running({"delete"}) # {}
                     \/ op = "delete" /\ Data!Running({"order"}) # {})
  BY DEF Data!Begin, Data!Editing
<1>2. /\ default \subseteq saved /\ saved \subseteq AddressIds /\ shipping \subseteq AddressIds
      /\ lock \in [AddressIds -> Sessions \cup {NoSession}] /\ req \in [Sessions -> BookHandlers]
      /\ overlaps \in 0..MaxOverlaps /\ crossed \in BOOLEAN
  BY BookTyped DEF Data!BookIInv
<1>3. /\ h \in BookHandlers /\ h.op = op /\ h.at = at /\ h.id = i /\ h.default = isDefault
  BY DEF BookHandlers
<1> HIDE DEF h
<1>4. /\ req' \in [Sessions -> BookHandlers] /\ req'[s] = h
      /\ \A t \in Sessions : t # s => req'[t] = req[t]
  BY <1>1, <1>2, <1>3
<1>5. overlaps \in Nat /\ overlaps' \in Nat /\ overlaps' \in 0..MaxOverlaps /\ overlaps <= overlaps'
  BY <1>1, <1>2 DEF BookSetting
<1>6. Data!BookTypeOK'
  BY <1>1, <1>2, <1>4, <1>5, BookTypes
<1>7. /\ s \notin Data!Editing
      /\ Data!Editing' = IF op \in Data!Edits THEN Data!Editing \cup {s} ELSE Data!Editing
      /\ Data!Running({"delete"})' = IF op = "delete" THEN Data!Running({"delete"}) \cup {s} ELSE Data!Running({"delete"})
      /\ Data!Running({"order"})' = IF op = "order" THEN Data!Running({"order"}) \cup {s} ELSE Data!Running({"order"})
  BY <1>1, <1>3, <1>4 DEF Data!Editing, Data!Running
<1>8. Data!LocksHeld'
  <2> SUFFICES ASSUME NEW t \in Sessions, NEW j \in AddressIds, lock[j] = t
               PROVE  \/ req'[t].op \in {"create", "set_default"} /\ req'[t].at = "write" /\ req'[t].default
                      \/ req'[t].op = "delete" /\ req'[t].at = "replace" /\ req'[t].id = j
    BY <1>1 DEF Data!LocksHeld
  <2>1. \/ req[t].op \in {"create", "set_default"} /\ req[t].at = "write" /\ req[t].default
        \/ req[t].op = "delete" /\ req[t].at = "replace" /\ req[t].id = j
    BY DEF Data!BookIInv, Data!LocksHeld
  <2>2. t # s
    BY <1>1, <2>1
  <2> QED
    BY <1>4, <2>1, <2>2
<1>9. Data!Stages'
  BY <1>3, <1>4 DEF Data!BookIInv, Data!Stages
<1>10. Data!DefaultsCounted'
  <2> DEFINE n == Cardinality(default)
             e == Cardinality(Data!Editing)
             f == Cardinality(Data!Editing')
             o == overlaps
             p == overlaps'
  <2>1. n \in Nat /\ e \in Nat /\ o \in Nat /\ p \in Nat
    BY <1>5, BookSizes DEF Data!BookIInv
  <2>2. /\ e <= 1 + o
        /\ \/ n + e <= 1 + o
           \/ n + e <= 2 + o /\ Data!Editing # {} /\ \A t \in Data!Editing : Data!ClearsAll(t)
    BY BookByCardinality DEF Data!BookIInv, Data!DefaultsCounted
  <2>3. \A t \in Data!Editing : Data!ClearsAll(t) => Data!ClearsAll(t)'
    <3> SUFFICES ASSUME NEW t \in Data!Editing, Data!ClearsAll(t) PROVE Data!ClearsAll(t)'
      OBVIOUS
    <3>1. t \in Sessions /\ t # s /\ req'[t] = req[t]
      BY <1>4, <1>7 DEF Data!Editing, Data!Running
    <3>2. Data!Held(t)' = Data!Held(t)
      BY <1>1 DEF Data!Held
    <3> QED
      BY <1>1, <3>1, <3>2 DEF Data!ClearsAll
  <2>4. CASE op \notin Data!Edits
    <3>1. Data!Editing' = Data!Editing /\ overlaps' = overlaps
      BY <1>1, <1>5, <1>7, <2>4
    <3> QED
      BY <1>1, <2>3, <3>1 DEF Data!BookIInv, Data!DefaultsCounted
  <2>5. CASE op \in Data!Edits
    <3>1. Data!Editing' = Data!Editing \cup {s} /\ f = e + 1 /\ f \in Nat
      <4>1. Data!Editing' = Data!Editing \cup {s} /\ s \notin Data!Editing
        BY <1>7, <2>5
      <4>2. IsFiniteSet(Data!Editing)
        BY BookSizes DEF Data!BookIInv
      <4>3. f = e + 1
        BY <4>1, <4>2, FS_AddElement
      <4> QED
        BY <2>1, <4>1, <4>3
    <3>2. Data!ClearsAll(s)'
      BY <1>1, <1>3, <1>4, <2>5 DEF Data!ClearsAll
    <3>3. CASE Data!Editing = {}
      <4>1. e = 0 /\ p = o
        BY <1>1, <1>5, <3>3, FS_EmptySet
      <4>2. n <= 1 + o
        <5>1. n + e <= 1 + o
          BY <2>2, <3>3
        <5> HIDE DEF n, e, o
        <5> QED
          BY <2>1, <4>1, <5>1
      <4>3. f <= 1 + p /\ n + f <= 2 + p
        <5> HIDE DEF n, e, f, o, p
        <5> QED
          BY <2>1, <3>1, <4>1, <4>2
      <4>4. \A t \in Data!Editing' : t = s
        BY <3>1, <3>3
      <4> QED
        BY <1>1, <3>1, <3>2, <4>3, <4>4, BookByCardinality DEF Data!DefaultsCounted
    <3>4. CASE Data!Editing # {}
      <4>1. p = o + 1
        BY <1>1, <2>5, <3>4
      <4>2. CASE n + e <= 1 + o
        <5>1. f <= 1 + p /\ n + f <= 1 + p
          <6> HIDE DEF n, e, f, o, p
          <6> QED
            BY <2>1, <2>2, <3>1, <4>1, <4>2
        <5> QED
          BY <1>1, <5>1, BookByCardinality DEF Data!DefaultsCounted
      <4>3. CASE n + e <= 2 + o /\ \A t \in Data!Editing : Data!ClearsAll(t)
        <5>1. f <= 1 + p /\ n + f <= 2 + p
          <6> HIDE DEF n, e, f, o, p
          <6> QED
            BY <2>1, <2>2, <3>1, <4>1, <4>3
        <5>2. \A t \in Data!Editing' : Data!ClearsAll(t)'
          BY <2>3, <3>1, <3>2, <4>3
        <5> QED
          BY <1>1, <3>1, <5>1, <5>2, BookByCardinality DEF Data!DefaultsCounted
      <4> QED
        BY <2>2, <4>2, <4>3
    <3> QED
      BY <3>3, <3>4
  <2> QED
    BY <2>4, <2>5
<1>11. Data!AloneKnows'
  <2> SUFFICES ASSUME overlaps' = 0
               PROVE  /\ saved # {} => default # {}
                      /\ \A t, o \in Data!Editing' : t = o
                      /\ \A t \in Data!Editing' :
                            /\ req'[t].op = "create" /\ ~req'[t].default => saved # {}
                            /\ req'[t].op = "delete" => (req'[t].default <=> req'[t].id \in default)
    BY <1>1 DEF Data!AloneKnows
  <2>1. overlaps = 0
    BY <1>5
  <2>2. op \in Data!Edits => Data!Editing = {}
    BY <1>1, <2>1
  <2>3. /\ saved # {} => default # {}
        /\ \A t, o \in Data!Editing : t = o
        /\ \A t \in Data!Editing :
              /\ req[t].op = "create" /\ ~req[t].default => saved # {}
              /\ req[t].op = "delete" => (req[t].default <=> req[t].id \in default)
    BY <2>1 DEF Data!BookIInv, Data!AloneKnows
  <2>4. \A t \in Data!Editing : req'[t] = req[t]
    BY <1>4, <1>7 DEF Data!Editing, Data!Running
  <2>5. CASE op \in Data!Edits
    <3>1. Data!Editing' = {s}
      BY <1>7, <2>2, <2>5
    <3> QED
      BY <1>3, <1>4, <2>3, <3>1
  <2>6. CASE op \notin Data!Edits
    <3>1. Data!Editing' = Data!Editing
      BY <1>7, <2>6
    <3> QED
      BY <2>3, <2>4, <3>1
  <2> QED
    BY <2>5, <2>6
<1>12. Data!DeletedUnused'
  <2> SUFFICES ASSUME ~crossed', NEW t \in Data!Running({"delete"})'
               PROVE  req'[t].id \notin shipping /\ Data!Running({"order"})' = {}
    BY <1>1 DEF Data!DeletedUnused
  <2>1. ~crossed /\ ~(op = "order" /\ Data!Running({"delete"}) # {}) /\ ~(op = "delete" /\ Data!Running({"order"}) # {})
    BY <1>1
  <2>2. \A d \in Data!Running({"delete"}) : req[d].id \notin shipping /\ Data!Running({"order"}) = {}
    BY <2>1 DEF Data!BookIInv, Data!DeletedUnused
  <2>3. CASE t = s /\ op = "delete"
    BY <1>3, <1>4, <1>7, <2>1, <2>3
  <2>4. CASE t # s \/ op # "delete"
    <3>1. t \in Data!Running({"delete"}) /\ t # s
      BY <1>1, <1>4, <1>7, <2>4 DEF Data!Running
    <3>2. req'[t] = req[t] /\ op # "order"
      BY <1>4, <2>1, <3>1 DEF Data!Running
    <3> QED
      BY <1>7, <2>2, <3>1, <3>2
  <2> QED
    BY <2>3, <2>4
<1>13. Data!OpenOrdersShip'
  BY <1>1 DEF Data!BookIInv, Data!OpenOrdersShip
<1> QED
  BY <1>6, <1>8, <1>9, <1>10, <1>11, <1>12, <1>13 DEF Data!BookIInv

\* A handler goes on, and takes locks that nobody else has.
LEMMA BookGoesOn ==
    ASSUME BookSetting, Data!BookIInv, NEW s \in Sessions, NEW h \in BookHandlers,
           req' = [req EXCEPT ![s] = h], h.op = req[s].op, h.id = req[s].id, h.default = req[s].default,
           req[s].op \in Data!Edits,
           lock' \in [AddressIds -> Sessions \cup {NoSession}],
           \A i \in AddressIds : lock'[i] # lock[i] => lock[i] \in {s, NoSession} /\ lock'[i] = s,
           \A i \in AddressIds : lock'[i] = s =>
               \/ h.op \in {"create", "set_default"} /\ h.at = "write" /\ h.default
               \/ h.op = "delete" /\ h.at = "replace" /\ h.id = i,
           UNCHANGED <<saved, default, shipping, overlaps, crossed>>,
           h.op = "delete" => h.at \in {"delete", "replace"},
           h.op \in {"create", "set_default"} => h.at \in {"wait", "write"},
           h.at = "wait" => h.default,
           Data!ClearsAll(s) => Data!ClearsAll(s)'
    PROVE  Data!BookIInv'
<1> USE BookOps
<1>2. /\ default \subseteq saved /\ saved \subseteq AddressIds /\ shipping \subseteq AddressIds
      /\ lock \in [AddressIds -> Sessions \cup {NoSession}] /\ req \in [Sessions -> BookHandlers]
      /\ overlaps \in 0..MaxOverlaps /\ crossed \in BOOLEAN
  BY BookTyped DEF Data!BookIInv
<1>3. /\ req' \in [Sessions -> BookHandlers] /\ req'[s] = h
      /\ \A t \in Sessions : t # s => req'[t] = req[t]
      /\ \A t \in Sessions : req'[t].op = req[t].op /\ req'[t].id = req[t].id /\ req'[t].default = req[t].default
  BY <1>2
<1>4. Data!BookTypeOK'
  BY <1>2, <1>3, BookTypes
<1>5. /\ Data!Editing' = Data!Editing /\ Data!Running({"delete"})' = Data!Running({"delete"})
      /\ Data!Running({"order"})' = Data!Running({"order"})
  BY <1>3 DEF Data!Editing, Data!Running
<1>6. Data!LocksHeld'
  <2> SUFFICES ASSUME NEW t \in Sessions, NEW i \in AddressIds, lock'[i] = t
               PROVE  \/ req'[t].op \in {"create", "set_default"} /\ req'[t].at = "write" /\ req'[t].default
                      \/ req'[t].op = "delete" /\ req'[t].at = "replace" /\ req'[t].id = i
    BY DEF Data!LocksHeld
  <2>1. CASE t = s
    BY <1>3, <2>1
  <2>2. CASE t # s
    <3>1. lock[i] = t /\ req'[t] = req[t]
      BY <1>3, <2>2
    <3> QED
      BY <3>1 DEF Data!BookIInv, Data!LocksHeld
  <2> QED
    BY <2>1, <2>2
<1>7. Data!Stages'
  <2>1. /\ req[s].op # "idle" => req[s].id \in AddressIds
        /\ req[s].op = "set_default" => req[s].default
    BY DEF Data!BookIInv, Data!Stages
  <2> QED
    BY <1>3, <2>1 DEF Data!BookIInv, Data!Stages
<1>8. Data!DefaultsCounted'
  <2>1. \A t \in Data!Editing : Data!ClearsAll(t) => Data!ClearsAll(t)'
    <3> SUFFICES ASSUME NEW t \in Data!Editing, Data!ClearsAll(t) PROVE Data!ClearsAll(t)'
      OBVIOUS
    <3>1. CASE t = s
      BY <3>1
    <3>2. CASE t # s
      <4>1. t \in Sessions /\ req'[t] = req[t]
        BY <1>3, <3>2 DEF Data!Editing, Data!Running
      <4>2. Data!Held(t) \subseteq Data!Held(t)'
        BY <4>1, <3>2 DEF Data!Held, BookSetting
      <4> QED
        BY <4>1, <4>2 DEF Data!ClearsAll
    <3> QED
      BY <3>1, <3>2
  <2> QED
    BY <1>5, <2>1 DEF Data!BookIInv, Data!DefaultsCounted
<1>9. Data!AloneKnows'
  <2>1. \A t \in Data!Editing : t \in Sessions
    BY DEF Data!Editing, Data!Running
  <2> QED
    BY <1>3, <1>5, <2>1 DEF Data!BookIInv, Data!AloneKnows
<1>10. Data!DeletedUnused'
  <2>1. \A t \in Data!Running({"delete"}) : t \in Sessions
    BY DEF Data!Running
  <2> QED
    BY <1>3, <1>5, <2>1 DEF Data!BookIInv, Data!DeletedUnused
<1>11. Data!OpenOrdersShip'
  BY DEF Data!BookIInv, Data!OpenOrdersShip
<1> QED
  BY <1>4, <1>6, <1>7, <1>8, <1>9, <1>10, <1>11 DEF Data!BookIInv

LEMMA BookSteps ==
    ASSUME BookSetting, Data!BookIInv, NEW s \in Sessions,
           \/ \E asked \in BOOLEAN : Data!Create(s, asked)
           \/ \E i \in AddressIds : Data!SetDefault(s, i) \/ Data!Delete(s, i) \/ Data!Order(s, i)
           \/ Data!FindDefaults(s) \/ Data!ClearDefault(s) \/ Data!DeleteRow(s)
    PROVE  Data!BookIInv'
<1> USE BookOps
<1>0. /\ default \subseteq saved /\ saved \subseteq AddressIds /\ shipping \subseteq AddressIds
      /\ lock \in [AddressIds -> Sessions \cup {NoSession}] /\ req \in [Sessions -> BookHandlers]
      /\ req[s] \in BookHandlers
  BY BookTyped DEF Data!BookIInv
<1>1. CASE \E asked \in BOOLEAN : Data!Create(s, asked)
  <2>1. PICK asked \in BOOLEAN, i \in AddressIds :
             Data!Begin(s, "create", i, asked \/ saved = {}, IF asked \/ saved = {} THEN "clear" ELSE "write")
    BY <1>1 DEF Data!Create, Data!Unused
  <2> DEFINE d == asked \/ saved = {}
             to == IF d THEN "clear" ELSE "write"
  <2>2. d \in BOOLEAN /\ to \in {"clear", "write", "delete"} /\ (~d => saved # {})
    OBVIOUS
  <2>3. Data!Begin(s, "create", i, d, to) /\ to = IF d THEN "clear" ELSE "write"
    BY <2>1
  <2> HIDE DEF d, to
  <2> QED
    BY <2>2, <2>3, BookHandlerBegins
<1>2. CASE \E i \in AddressIds : Data!SetDefault(s, i)
  BY <1>2, BookHandlerBegins DEF Data!SetDefault
<1>3. CASE \E i \in AddressIds : Data!Delete(s, i)
  <2>1. PICK i \in AddressIds : i \notin shipping /\ Data!Begin(s, "delete", i, i \in default, "delete")
    BY <1>3 DEF Data!Delete
  <2> DEFINE d == i \in default
  <2>2. d \in BOOLEAN /\ (d <=> i \in default) /\ Data!Begin(s, "delete", i, d, "delete")
    BY <2>1
  <2> HIDE DEF d
  <2> QED
    BY <2>1, <2>2, BookHandlerBegins
<1>4. CASE \E i \in AddressIds : Data!Order(s, i)
  BY <1>4, BookHandlerBegins DEF Data!Order
<1>5. CASE Data!FindDefaults(s)
  <2> DEFINE h == [req[s] EXCEPT !.at = "wait", !.clearing = default]
  <2>1. /\ req' = [req EXCEPT ![s] = h] /\ req[s].at = "clear"
        /\ UNCHANGED <<saved, default, shipping, lock, overlaps, crossed>>
    BY <1>5 DEF Data!FindDefaults
  <2>2. /\ h \in BookHandlers /\ h.op = req[s].op /\ h.id = req[s].id /\ h.default = req[s].default
        /\ h.at = "wait" /\ h.clearing = default
    BY <1>0 DEF BookHandlers
  <2> HIDE DEF h
  <2>3. req[s].op \in {"create", "set_default"} /\ req[s].default
    BY <1>0, <2>1 DEF Data!BookIInv, Data!Stages
  <2>4. \A i \in AddressIds : lock[i] # s
    BY <2>1 DEF Data!BookIInv, Data!LocksHeld
  <2>5. Data!ClearsAll(s)'
    BY <1>0, <2>1, <2>2 DEF Data!ClearsAll
  <2> QED
    BY <1>0, <2>1, <2>2, <2>3, <2>4, <2>5, BookGoesOn
<1>6. CASE Data!ClearDefault(s)
  <2> DEFINE h == [req[s] EXCEPT !.at = "write"]
  <2>1. /\ req' = [req EXCEPT ![s] = h] /\ req[s].at = "wait"
        /\ lock' = [i \in AddressIds |-> IF i \in req[s].clearing \cap default THEN s ELSE lock[i]]
        /\ \A i \in req[s].clearing : lock[i] \in {s, NoSession}
        /\ UNCHANGED <<saved, default, shipping, overlaps, crossed>>
    BY <1>6 DEF Data!ClearDefault, Data!Goto, Data!Free
  <2>2. /\ h \in BookHandlers /\ h.op = req[s].op /\ h.id = req[s].id /\ h.default = req[s].default
        /\ h.at = "write"
    BY <1>0 DEF BookHandlers
  <2> HIDE DEF h
  <2>3. req[s].op \in {"create", "set_default"} /\ req[s].default
    BY <1>0, <2>1 DEF Data!BookIInv, Data!Stages
  <2>4. lock' \in [AddressIds -> Sessions \cup {NoSession}]
    BY <1>0, <2>1
  <2>5. \A i \in AddressIds : lock'[i] # lock[i] => lock[i] \in {s, NoSession} /\ lock'[i] = s
    BY <2>1
  <2>6. Data!ClearsAll(s) => Data!ClearsAll(s)'
    <3>1. ASSUME Data!ClearsAll(s) PROVE default \subseteq req[s].clearing
      BY <2>1, <2>3, <3>1 DEF Data!ClearsAll
    <3>2. default \subseteq req[s].clearing => default \subseteq Data!Held(s)'
      BY <1>0, <2>1 DEF Data!Held
    <3> QED
      BY <1>0, <2>1, <2>2, <3>1, <3>2 DEF Data!ClearsAll
  <2> QED
    BY <1>0, <2>1, <2>2, <2>3, <2>4, <2>5, <2>6, BookGoesOn
<1>7. CASE Data!DeleteRow(s)
  <2> DEFINE h == [req[s] EXCEPT !.at = "replace"]
             i == req[s].id
  <2>1. /\ req' = [req EXCEPT ![s] = h] /\ req[s].at = "delete"
        /\ lock' = (IF i \in saved THEN [lock EXCEPT ![i] = s] ELSE lock)
        /\ lock[i] \in {s, NoSession}
        /\ UNCHANGED <<saved, default, shipping, overlaps, crossed>>
    BY <1>7 DEF Data!DeleteRow, Data!Goto, Data!Free
  <2>2. /\ h \in BookHandlers /\ h.op = req[s].op /\ h.id = req[s].id /\ h.default = req[s].default
        /\ h.at = "replace"
    BY <1>0 DEF BookHandlers
  <2> HIDE DEF h, i
  <2>3. req[s].op = "delete"
    BY <1>0, <2>1 DEF Data!BookIInv, Data!Stages
  <2>4. lock' \in [AddressIds -> Sessions \cup {NoSession}]
    BY <1>0, <2>1
  <2>5. \A j \in AddressIds : lock'[j] # lock[j] => j = i /\ lock[j] \in {s, NoSession} /\ lock'[j] = s
    BY <1>0, <2>1
  <2>6. \A j \in AddressIds : lock[j] # s
    BY <2>1, <2>3 DEF Data!BookIInv, Data!LocksHeld
  <2>7. \A j \in AddressIds : lock'[j] = s => h.op = "delete" /\ h.at = "replace" /\ h.id = j
    BY <2>2, <2>3, <2>5, <2>6 DEF i
  <2>8. req'[s] = h
    BY <1>0, <2>1
  <2>9. Data!ClearsAll(s) => Data!ClearsAll(s)'
    BY <1>0, <2>1, <2>2, <2>3, <2>8 DEF Data!ClearsAll
  <2>10. \A j \in AddressIds : lock'[j] # lock[j] => lock[j] \in {s, NoSession} /\ lock'[j] = s
    BY <2>5
  <2>11. \A j \in AddressIds : lock'[j] = s =>
               \/ h.op \in {"create", "set_default"} /\ h.at = "write" /\ h.default
               \/ h.op = "delete" /\ h.at = "replace" /\ h.id = j
    BY <2>7
  <2>12. h.op = "delete" /\ req[s].op \in Data!Edits
    BY <2>2, <2>3
  <2> QED
    BY <2>1, <2>2, <2>4, <2>9, <2>10, <2>11, <2>12, BookGoesOn
<1> QED
  BY <1>1, <1>2, <1>3, <1>4, <1>5, <1>6, <1>7

LEMMA BookWrites ==
    ASSUME BookSetting, Data!BookIInv, NEW s \in Sessions, Data!Write(s)
    PROVE  Data!BookIInv'
<1> USE BookOps
<1> DEFINE i == req[s].id
           ids == saved \cup {i}
           defaults == (default \ Data!Held(s)) \cup (IF req[s].default THEN {i} ELSE {})
<1>0. /\ default \subseteq saved /\ saved \subseteq AddressIds /\ shipping \subseteq AddressIds
      /\ req[s] \in BookHandlers
  BY BookTyped DEF Data!BookIInv
<1>1. /\ req[s].op \in {"create", "set_default"} /\ req[s].at = "write"
      /\ Data!Commit(s, ids, defaults, shipping)
  BY DEF Data!Write
<1>2. i \in AddressIds /\ (req[s].op = "set_default" => req[s].default)
  BY <1>1 DEF Data!BookIInv, Data!Stages
<1>3. ~req[s].default => Data!Held(s) = {}
  BY <1>1 DEF Data!BookIInv, Data!LocksHeld, Data!Held
<1>4. /\ req[s].default => defaults = (default \ Data!Held(s)) \cup {i}
      /\ ~req[s].default => defaults = default
  BY <1>3
<1>5. s \in Data!Editing /\ req[s].op # "idle"
  BY <1>1 DEF Data!Editing, Data!Running
<1>6. ids \in SUBSET AddressIds /\ defaults \in SUBSET ids
  BY <1>0, <1>2
<1>7. IsFiniteSet(default) /\ Cardinality(default) \in Nat
  BY BookSizes DEF Data!BookIInv
<1>8. Cardinality(defaults) <= Cardinality(default) + 1
  <2> DEFINE kept == default \ Data!Held(s)
  <2>1. IsFiniteSet(kept) /\ Cardinality(kept) \in Nat /\ Cardinality(kept) <= Cardinality(default)
    BY <1>7, FS_Subset, FS_CardinalityType
  <2>2. Cardinality(kept \cup {i}) <= Cardinality(kept) + 1 /\ Cardinality(kept \cup {i}) \in Nat
    <3> HIDE DEF kept
    <3>1. /\ Cardinality(kept \cup {i}) = (IF i \in kept THEN Cardinality(kept) ELSE Cardinality(kept) + 1)
          /\ IsFiniteSet(kept \cup {i})
      BY <2>1, FS_AddElement
    <3> QED
      BY <2>1, <3>1, FS_CardinalityType
  <2>3. Cardinality(defaults) \in {Cardinality(kept \cup {i}), Cardinality(default)}
    BY <1>4
  <2> HIDE DEF kept, defaults
  <2> QED
    BY <1>7, <2>1, <2>2, <2>3
<1>9. Data!ClearsAll(s) => Cardinality(defaults) <= Cardinality(default) \/ Cardinality(defaults) <= 1
  <2>1. CASE req[s].default
    <3>1. ASSUME Data!ClearsAll(s) PROVE defaults = {i}
      <4>1. default \subseteq Data!Held(s)
        BY <1>1, <2>1, <3>1 DEF Data!ClearsAll
      <4> QED
        BY <1>4, <2>1, <4>1
    <3>2. Cardinality({i}) = 1
      BY FS_Singleton
    <3> HIDE DEF defaults
    <3>3. Data!ClearsAll(s) => Cardinality(defaults) = 1
      BY <3>1, <3>2
    <3> QED
      BY <3>3
  <2>2. CASE ~req[s].default
    <3> HIDE DEF defaults
    <3>1. Cardinality(defaults) = Cardinality(default)
      BY <1>4, <2>2
    <3> QED
      BY <1>7, <3>1
  <2> QED
    BY <1>0, <2>1, <2>2
<1>10. overlaps = 0 => defaults # {}
  <2>1. ASSUME overlaps = 0, ~req[s].default PROVE default # {}
    BY <1>1, <1>2, <1>5, <2>1 DEF Data!BookIInv, Data!AloneKnows
  <2> QED
    BY <1>4, <2>1
<1>11. crossed \/ shipping \subseteq ids
  BY DEF Data!BookIInv, Data!OpenOrdersShip
<1>12. ~crossed => \A t \in Data!Running({"delete"}) : t # s => req[t].id \notin shipping
  BY DEF Data!BookIInv, Data!DeletedUnused
<1> HIDE DEF ids, defaults
<1> QED
  BY <1>0, <1>1, <1>5, <1>6, <1>8, <1>9, <1>10, <1>11, <1>12, BookCommits

LEMMA BookReplaces ==
    ASSUME BookSetting, Data!BookIInv, NEW s \in Sessions, Data!DeleteAndReplace(s)
    PROVE  Data!BookIInv'
<1> USE BookOps
<1> DEFINE i == req[s].id
           ids == saved \ {i}
<1>0. /\ default \subseteq saved /\ saved \subseteq AddressIds /\ shipping \subseteq AddressIds
      /\ req[s] \in BookHandlers
  BY BookTyped DEF Data!BookIInv
<1>1. req[s].at = "replace"
  BY DEF Data!DeleteAndReplace, Data!Replace
<1>2. req[s].op = "delete" /\ s \in Data!Editing /\ req[s].op # "idle"
  BY <1>0, <1>1 DEF Data!BookIInv, Data!Stages, Data!Editing, Data!Running
<1>3. IsFiniteSet(default) /\ Cardinality(default) \in Nat
  BY BookSizes DEF Data!BookIInv
<1>4. \E defaults \in SUBSET ids :
         /\ Data!Commit(s, ids, defaults, shipping)
         /\ \/ (~req[s].default \/ ids = {}) /\ defaults = default \ {i}
            \/ req[s].default /\ \E j \in ids : defaults = (default \ {i}) \cup {j}
  <2>1. CASE ~req[s].default \/ ids = {}
    BY <1>0, <2>1 DEF Data!DeleteAndReplace, Data!Replace
  <2>2. CASE ~(~req[s].default \/ ids = {})
    <3>1. PICK j \in ids : Data!Commit(s, ids, (default \ {i}) \cup {j}, shipping)
      BY <2>2 DEF Data!DeleteAndReplace, Data!Replace
    <3>2. (default \ {i}) \cup {j} \in SUBSET ids
      BY <1>0
    <3> QED
      BY <1>0, <2>2, <3>1, <3>2
  <2> QED
    BY <2>1, <2>2
<1>5. PICK defaults \in SUBSET ids :
         /\ Data!Commit(s, ids, defaults, shipping)
         /\ \/ (~req[s].default \/ ids = {}) /\ defaults = default \ {i}
            \/ req[s].default /\ \E j \in ids : defaults = (default \ {i}) \cup {j}
  BY <1>4
<1>6. \/ defaults = default \ {i} /\ Cardinality(defaults) <= Cardinality(default)
      \/ /\ req[s].default /\ defaults # {} /\ Cardinality(defaults) <= Cardinality(default) + 1
         /\ i \in default => Cardinality(defaults) <= Cardinality(default)
  <2>1. /\ IsFiniteSet(default \ {i}) /\ Cardinality(default \ {i}) \in Nat
        /\ Cardinality(default \ {i}) = IF i \in default THEN Cardinality(default) - 1 ELSE Cardinality(default)
    BY <1>3, FS_RemoveElement, FS_CardinalityType
  <2>2. CASE defaults = default \ {i}
    BY <1>3, <2>1, <2>2
  <2>3. ASSUME NEW j \in ids, req[s].default, defaults = (default \ {i}) \cup {j}
        PROVE  /\ req[s].default /\ defaults # {} /\ Cardinality(defaults) <= Cardinality(default) + 1
               /\ i \in default => Cardinality(defaults) <= Cardinality(default)
    <3>1. Cardinality(defaults) = IF j \in default \ {i} THEN Cardinality(default \ {i}) ELSE Cardinality(default \ {i}) + 1
      BY <2>1, <2>3, FS_AddElement
    <3>2. Cardinality(defaults) \in {Cardinality(default \ {i}), Cardinality(default \ {i}) + 1}
      BY <3>1
    <3> QED
      BY <1>3, <2>1, <2>3, <3>2
  <2> QED
    BY <1>5, <2>2, <2>3
<1>7. Cardinality(defaults) <= Cardinality(default) + 1
  BY <1>3, <1>6, FS_Subset, FS_CardinalityType
<1>8. Data!ClearsAll(s) => Cardinality(defaults) <= Cardinality(default) \/ Cardinality(defaults) <= 1
  <2>1. Data!ClearsAll(s) /\ req[s].default => i \in default
    BY <1>1, <1>2 DEF Data!ClearsAll
  <2> QED
    BY <1>6, <2>1
<1>9. overlaps = 0 /\ ids # {} => defaults # {}
  <2> SUFFICES ASSUME overlaps = 0, ids # {}, ~req[s].default PROVE default \ {i} # {}
    BY <1>5, <1>6
  <2>1. i \notin default /\ (saved # {} => default # {})
    BY <1>2 DEF Data!BookIInv, Data!AloneKnows
  <2> QED
    BY <2>1
<1>10. crossed \/ shipping \subseteq ids
  <2>1. ~crossed => i \notin shipping
    BY <1>2 DEF Data!BookIInv, Data!DeletedUnused, Data!Running
  <2> QED
    BY <2>1 DEF Data!BookIInv, Data!OpenOrdersShip
<1>11. ~crossed => \A t \in Data!Running({"delete"}) : t # s => req[t].id \notin shipping
  BY DEF Data!BookIInv, Data!DeletedUnused
<1>12. ids \in SUBSET AddressIds
  BY <1>0
<1> HIDE DEF ids
<1> QED
  BY <1>0, <1>2, <1>5, <1>7, <1>8, <1>9, <1>10, <1>11, <1>12, BookCommits

LEMMA BookEnds ==
    ASSUME BookSetting, Data!BookIInv, NEW s \in Sessions, Data!PlaceOrder(s) \/ Data!Abandon(s)
    PROVE  Data!BookIInv'
<1> USE BookOps
<1>0. /\ default \subseteq saved /\ saved \subseteq AddressIds /\ shipping \subseteq AddressIds
      /\ req[s] \in BookHandlers
  BY BookTyped DEF Data!BookIInv
<1>1. IsFiniteSet(default) /\ Cardinality(default) \in Nat
  BY BookSizes DEF Data!BookIInv
<1>2. overlaps = 0 /\ saved # {} => default # {}
  BY DEF Data!BookIInv, Data!AloneKnows
<1>3. crossed \/ shipping \subseteq saved
  BY DEF Data!BookIInv, Data!OpenOrdersShip
<1>4. ~crossed => \A t \in Data!Running({"delete"}) : req[t].id \notin shipping /\ Data!Running({"order"}) = {}
  BY DEF Data!BookIInv, Data!DeletedUnused
<1>5. CASE Data!Abandon(s)
  BY <1>0, <1>1, <1>2, <1>3, <1>4, <1>5, BookCommits DEF Data!Abandon
<1>6. CASE Data!PlaceOrder(s)
  <2>1. /\ req[s].op = "order" /\ req[s].id \in saved
        /\ Data!Commit(s, saved, default, shipping \cup {req[s].id})
    BY <1>6 DEF Data!PlaceOrder
  <2>2. ~crossed => Data!Running({"delete"}) = {}
    BY <1>4, <2>1 DEF Data!Running
  <2>3. shipping \cup {req[s].id} \in SUBSET AddressIds /\ (crossed \/ shipping \cup {req[s].id} \subseteq saved)
    BY <1>0, <1>3, <2>1
  <2> QED
    BY <1>0, <1>1, <1>2, <2>1, <2>2, <2>3, BookCommits
<1> QED
  BY <1>5, <1>6

LEMMA BookOrderEnds ==
    ASSUME BookSetting, Data!BookIInv, NEW i \in AddressIds, Data!OrderEnds(i)
    PROVE  Data!BookIInv'
<1>1. shipping' \subseteq shipping /\ UNCHANGED <<saved, default, lock, req, overlaps, crossed>>
  BY DEF Data!OrderEnds
<1>2. /\ Data!Editing' = Data!Editing /\ Data!Running({"delete"})' = Data!Running({"delete"})
      /\ Data!Running({"order"})' = Data!Running({"order"})
  BY <1>1 DEF Data!Editing, Data!Running
<1>3. \A t : Data!ClearsAll(t)' <=> Data!ClearsAll(t)
  BY <1>1 DEF Data!ClearsAll, Data!Held
<1>4. Data!BookTypeOK' /\ Data!LocksHeld' /\ Data!Stages' /\ Data!AloneKnows' /\ Data!OpenOrdersShip'
  BY <1>1, <1>2 DEF Data!BookIInv, Data!BookTypeOK, Data!LocksHeld, Data!Stages, Data!AloneKnows, Data!OpenOrdersShip
<1>5. Data!DefaultsCounted' /\ Data!DeletedUnused'
  BY <1>1, <1>2, <1>3 DEF Data!BookIInv, Data!DefaultsCounted, Data!DeletedUnused
<1> QED
  BY <1>4, <1>5 DEF Data!BookIInv

LEMMA BookStep ==
    ASSUME BookSetting, Data!BookIInv, Data!BookNext
    PROVE  Data!BookIInv'
  BY BookSteps, BookWrites, BookReplaces, BookEnds, BookOrderEnds DEF Data!BookNext

LEMMA BookStands ==
    ASSUME Data!BookIInv, UNCHANGED <<saved, default, shipping, lock, req, overlaps, crossed>>
    PROVE  Data!BookIInv'
<1>1. /\ Data!Editing' = Data!Editing /\ Data!Running({"delete"})' = Data!Running({"delete"})
      /\ Data!Running({"order"})' = Data!Running({"order"})
  BY DEF Data!Editing, Data!Running
<1>2. \A t : Data!ClearsAll(t)' <=> Data!ClearsAll(t)
  BY DEF Data!ClearsAll, Data!Held
<1>3. Data!BookTypeOK' /\ Data!LocksHeld' /\ Data!Stages' /\ Data!AloneKnows' /\ Data!OpenOrdersShip'
  BY <1>1 DEF Data!BookIInv, Data!BookTypeOK, Data!LocksHeld, Data!Stages, Data!AloneKnows, Data!OpenOrdersShip
<1>4. Data!DefaultsCounted' /\ Data!DeletedUnused'
  BY <1>1, <1>2 DEF Data!BookIInv, Data!DefaultsCounted, Data!DeletedUnused
<1> QED
  BY <1>3, <1>4 DEF Data!BookIInv

LEMMA BookGood ==
    ASSUME BookSetting, Data!BookIInv
    PROVE  Data!OneDefault /\ Data!OpenOrdersShip
<1> DEFINE n == Cardinality(default)
           e == Cardinality(Data!Editing)
           o == overlaps
<1>1. n \in Nat /\ e \in Nat /\ o \in Nat /\ IsFiniteSet(Data!Editing) /\ IsFiniteSet(default)
  BY BookSizes DEF Data!BookIInv
<1>2. n <= 1 + o
  <2>1. n + e <= 1 + o \/ (n + e <= 2 + o /\ Data!Editing # {})
    BY BookByCardinality DEF Data!BookIInv, Data!DefaultsCounted
  <2>2. Data!Editing # {} => e # 0
    BY <1>1, FS_EmptySet
  <2> HIDE DEF n, e, o
  <2> QED
    BY <1>1, <2>1, <2>2
<1>3. saved # {} /\ o = 0 => n # 0
  BY <1>1, FS_EmptySet DEF Data!BookIInv, Data!AloneKnows
<1>4. saved # {} => n - 1 \in -o..o
  <2> HIDE DEF n, e, o
  <2> QED
    BY <1>1, <1>2, <1>3
<1> QED
  BY <1>4, BookByCardinality DEF Data!OneDefault, Data!BookIInv

-----------------------------------------------------------------------------
LEMMA LeastNatural ==
    ASSUME NEW S \in SUBSET Nat, S # {}
    PROVE  \E n \in S : \A m \in S : n <= m
<1>1. PICK n \in S : \A m \in S : ~ (<<m, n>> \in OpToRel(<, Nat))
  BY NatLessThanWellFounded, WFMin
<1>2. \A m \in S : ~ (m < n)
  BY <1>1 DEF OpToRel
<1> QED
  BY <1>2

-----------------------------------------------------------------------------
(* Plans of deliveries: what was relied on holds of every promoter who has *)
(* changed nothing since, and one planner at a time plans.                 *)
CONSTANTS Routes, NoRoute, OwnerOf, Elsewhere, Choices, DaysInWeek, MaxDay, MaxEdits
VARIABLES option, deal, today, settings, route, request, quoted, edited, edits, overlapped
Plan == INSTANCE DeliveryPlans

PlanSetting ==
    /\ NoPromoter \notin Promoters /\ NoRoute \notin Routes /\ "free" \notin Sessions
    /\ OwnerOf \in [Routes -> Promoters]
    /\ MaxDay \in Nat \ {0} /\ DaysInWeek \in Nat /\ MaxEdits \in Nat
    /\ \A c \in Choices : c.fee \in Nat
    /\ \A c \in Choices : \A t \in Nat : \E d \in t + 1..t + DaysInWeek : d % DaysInWeek \in c.days

PlanHandlers ==
    [op: {"idle", "place", "re_request", "accept"}, seen: Plan!Orders, order: Plan!Orders, row: Plan!Requests]

LEMMA PlanTyped ==
    ASSUME Plan!TypeOK
    PROVE  /\ option \in {"route", "instant"} /\ deal \in Plan!Anyone /\ today \in 1..MaxDay
           /\ settings \in [Promoters -> Choices] /\ route \in [Routes -> Plan!RouteStates]
           /\ order \in Plan!Orders /\ request \in Plan!Requests /\ quoted \in Plan!Fees \cup {0}
           /\ lock \in Sessions \cup {"free"} /\ req \in [Sessions -> PlanHandlers]
           /\ edited \subseteq Promoters /\ edits \in 0..MaxEdits /\ overlapped \in BOOLEAN
  BY DEF Plan!TypeOK, PlanHandlers

LEMMA PlanTypes ==
    ASSUME option' \in {"route", "instant"}, deal' \in Plan!Anyone, today' \in 1..MaxDay,
           settings' \in [Promoters -> Choices], route' \in [Routes -> Plan!RouteStates],
           order' \in Plan!Orders, request' \in Plan!Requests, quoted' \in Plan!Fees \cup {0},
           lock' \in Sessions \cup {"free"}, req' \in [Sessions -> PlanHandlers],
           edited' \subseteq Promoters, edits' \in 0..MaxEdits, overlapped' \in BOOLEAN
    PROVE  Plan!TypeOK'
  BY DEF Plan!TypeOK, PlanHandlers

LEMMA PlanRows ==
    /\ Plan!NoOrder \in Plan!Orders /\ Plan!NoRequest \in Plan!Requests /\ Plan!Idle \in PlanHandlers
    /\ Plan!Idle.op = "idle"
    /\ Plan!NoRequest.status = "none" /\ Plan!NoRequest.route = NoRoute
    /\ Plan!NoRequest.promoter = NoPromoter /\ ~Plan!NoRequest.escalated
    /\ \A r \in Plan!Requests :
          /\ r.status \in {"none", "requested", "accepted", "rejected", "expired"}
          /\ r.route \in Routes \cup {NoRoute} /\ r.promoter \in Plan!Anyone
          /\ r.escalated \in BOOLEAN /\ r.day \in Plan!Days \cup {0}
    /\ \A r \in Plan!Orders : r.fee \in Plan!Fees \cup {0} /\ r.day \in Plan!Days \cup {0}
    /\ \A h \in PlanHandlers : /\ h.op \in {"idle", "place", "re_request", "accept"}
                               /\ h.seen \in Plan!Orders /\ h.order \in Plan!Orders /\ h.row \in Plan!Requests
<1>1. Plan!NoOrder \in Plan!Orders
  BY DEF Plan!NoOrder, Plan!Orders
<1>2. /\ Plan!NoRequest \in Plan!Requests
      /\ Plan!NoRequest.status = "none" /\ Plan!NoRequest.route = NoRoute
      /\ Plan!NoRequest.promoter = NoPromoter /\ ~Plan!NoRequest.escalated
  BY DEF Plan!NoRequest, Plan!Requests, Plan!Anyone
<1>3. Plan!Idle \in PlanHandlers /\ Plan!Idle.op = "idle"
  BY <1>1, <1>2 DEF Plan!Idle, PlanHandlers
<1> QED
  BY <1>1, <1>2, <1>3 DEF Plan!Requests, Plan!Orders, PlanHandlers

\* What is known of a row of a request: who has not changed anything can deliver it.
Planner(h) == h.op \in {"place", "re_request"}
InForce(r) == r.status \in {"requested", "accepted"}
RowRouted(row) ==
    /\ row.route # NoRoute => OwnerOf[row.route] = row.promoter
    /\ ~row.escalated => row.promoter \in Promoters
    /\ row.escalated => row.promoter = NoPromoter /\ row.route = NoRoute
RowDelivers(row, set, rts) ==
    /\ row.route # NoRoute /\ OwnerOf[row.route] = row.promoter /\ rts[row.route] = "covers"
    /\ set[row.promoter].fee # 0 /\ row.day % DaysInWeek \in set[row.promoter].days
RowPlanned(row, opt, set, rts, ed) ==
    row.promoter # NoPromoter /\ row.promoter \notin ed =>
        /\ set[row.promoter].fee # 0 /\ row.day % DaysInWeek \in set[row.promoter].days
        /\ opt = "route" => RowDelivers(row, set, rts)
RowFits(row, set, rts, ed) == row.promoter \notin ed => RowDelivers(row, set, rts)

LEMMA PlanReads ==
    ASSUME Plan!IInv
    PROVE  /\ \A s \in Sessions : Planner(req[s]) =>
                 /\ req[s].row.status = "requested" /\ req[s].row.day = req[s].order.day
                 /\ RowRouted(req[s].row) /\ RowPlanned(req[s].row, option, settings, route, edited)
                 /\ ~overlapped => /\ ~InForce(request) /\ req[s].seen = order
                                   /\ \A o \in Sessions : Planner(req[o]) => o = s
           /\ request.status = "requested" =>
                 /\ RowRouted(request) /\ RowPlanned(request, option, settings, route, edited)
                 /\ request.route # NoRoute => route[request.route] # "deleted"
           /\ \A s \in Sessions : req[s].op = "accept" =>
                 /\ lock = s /\ request.status = "requested" /\ req[s].seen = order
                 /\ req[s].row.status = "accepted" /\ req[s].row.promoter \in Promoters
                 /\ req[s].row.route # NoRoute /\ OwnerOf[req[s].row.route] = req[s].row.promoter
                 /\ RowFits(req[s].row, settings, route, edited)
                 /\ request.escalated => req[s].order = [order EXCEPT !.day = req[s].row.day]
                 /\ ~request.escalated => req[s].order = order /\ req[s].row.day = request.day
           /\ InForce(request) /\ ~overlapped => order.day = request.day /\ order.fee = quoted
           /\ request.status = "accepted" =>
                 /\ request.route # NoRoute => /\ OwnerOf[request.route] = request.promoter
                                               /\ route[request.route] # "deleted"
                 /\ RowFits(request, settings, route, edited)
<1>1. ASSUME NEW s \in Sessions, Planner(req[s])
      PROVE  /\ req[s].row.status = "requested" /\ req[s].row.day = req[s].order.day
             /\ RowRouted(req[s].row) /\ RowPlanned(req[s].row, option, settings, route, edited)
             /\ ~overlapped => /\ ~InForce(request) /\ req[s].seen = order
                               /\ \A o \in Sessions : Planner(req[o]) => o = s
  <2>1. /\ req[s].row.status = "requested" /\ req[s].row.day = req[s].order.day
        /\ Plan!Routed(req[s].row) /\ Plan!PlannedFor(req[s].row)
        /\ ~overlapped => /\ request.status \notin {"requested", "accepted"} /\ req[s].seen = order
                          /\ \A o \in Plan!Planning : o = s
    BY <1>1 DEF Plan!IInv, Plan!PlansKnow, Plan!Planning, Planner
  <2>2. RowRouted(req[s].row)
    BY <2>1 DEF Plan!Routed, RowRouted
  <2>3. RowPlanned(req[s].row, option, settings, route, edited)
    BY <2>1 DEF Plan!PlannedFor, Plan!Serves, Plan!WorksOn, Plan!Weekday, RowPlanned, RowDelivers
  <2>4. \A o \in Sessions : Planner(req[o]) => o \in Plan!Planning
    BY DEF Plan!Planning, Planner
  <2> QED
    BY <2>1, <2>2, <2>3, <2>4 DEF InForce
<1>2. ASSUME request.status = "requested"
      PROVE  /\ RowRouted(request) /\ RowPlanned(request, option, settings, route, edited)
             /\ request.route # NoRoute => route[request.route] # "deleted"
  <2>1. /\ Plan!Routed(request) /\ Plan!PlannedFor(request)
        /\ request.route # NoRoute => route[request.route] # "deleted"
    BY <1>2 DEF Plan!IInv, Plan!RequestKnows
  <2>2. RowRouted(request)
    BY <2>1 DEF Plan!Routed, RowRouted
  <2>3. RowPlanned(request, option, settings, route, edited)
    BY <2>1 DEF Plan!PlannedFor, Plan!Serves, Plan!WorksOn, Plan!Weekday, RowPlanned, RowDelivers
  <2> QED
    BY <2>1, <2>2, <2>3
<1>3. ASSUME NEW s \in Sessions, req[s].op = "accept"
      PROVE  /\ lock = s /\ request.status = "requested" /\ req[s].seen = order
             /\ req[s].row.status = "accepted" /\ req[s].row.promoter \in Promoters
             /\ req[s].row.route # NoRoute /\ OwnerOf[req[s].row.route] = req[s].row.promoter
             /\ RowFits(req[s].row, settings, route, edited)
             /\ request.escalated => req[s].order = [order EXCEPT !.day = req[s].row.day]
             /\ ~request.escalated => req[s].order = order /\ req[s].row.day = request.day
  BY <1>3 DEF Plan!IInv, Plan!AcceptsKnow, RowFits, RowDelivers, Plan!Serves, Plan!WorksOn, Plan!Weekday
<1>4. InForce(request) /\ ~overlapped => order.day = request.day /\ order.fee = quoted
  BY DEF Plan!IInv, Plan!DeliveryAgreed, InForce
<1>5. request.status = "accepted" =>
         /\ request.route # NoRoute => /\ OwnerOf[request.route] = request.promoter
                                       /\ route[request.route] # "deleted"
         /\ RowFits(request, settings, route, edited)
  BY DEF Plan!IInv, Plan!AcceptedCanServe, RowFits, RowDelivers, Plan!WorksOn, Plan!Weekday
<1> QED
  BY <1>1, <1>2, <1>3, <1>4, <1>5

LEMMA PlanWrites ==
    ASSUME Plan!TypeOK',
           \A s \in Sessions : Planner(req'[s]) =>
                 /\ req'[s].row.status = "requested" /\ req'[s].row.day = req'[s].order.day
                 /\ RowRouted(req'[s].row) /\ RowPlanned(req'[s].row, option', settings', route', edited')
                 /\ ~overlapped' => /\ ~InForce(request') /\ req'[s].seen = order'
                                    /\ \A o \in Sessions : Planner(req'[o]) => o = s,
           request'.status = "requested" =>
                 /\ RowRouted(request') /\ RowPlanned(request', option', settings', route', edited')
                 /\ request'.route # NoRoute => route'[request'.route] # "deleted",
           \A s \in Sessions : req'[s].op = "accept" =>
                 /\ lock' = s /\ request'.status = "requested" /\ req'[s].seen = order'
                 /\ req'[s].row.status = "accepted" /\ req'[s].row.promoter \in Promoters
                 /\ req'[s].row.route # NoRoute /\ OwnerOf[req'[s].row.route] = req'[s].row.promoter
                 /\ RowFits(req'[s].row, settings', route', edited')
                 /\ request'.escalated => req'[s].order = [order' EXCEPT !.day = req'[s].row.day]
                 /\ ~request'.escalated => req'[s].order = order' /\ req'[s].row.day = request'.day,
           InForce(request') /\ ~overlapped' => order'.day = request'.day /\ order'.fee = quoted',
           request'.status = "accepted" =>
                 /\ request'.route # NoRoute => /\ OwnerOf[request'.route] = request'.promoter
                                                /\ route'[request'.route] # "deleted"
                 /\ RowFits(request', settings', route', edited')
    PROVE  Plan!IInv'
<1>1. Plan!PlansKnow'
  <2> SUFFICES ASSUME NEW s \in Plan!Planning'
               PROVE  /\ req'[s].row.status = "requested" /\ req'[s].row.day = req'[s].order.day
                      /\ Plan!Routed(req[s].row)' /\ Plan!PlannedFor(req[s].row)'
                      /\ ~overlapped' => /\ request'.status \notin {"requested", "accepted"}
                                         /\ req'[s].seen = order' /\ \A o \in Plan!Planning' : o = s
    BY DEF Plan!PlansKnow
  <2>1. s \in Sessions /\ Planner(req'[s])
    BY DEF Plan!Planning, Planner
  <2>2. \A o \in Plan!Planning' : o \in Sessions /\ Planner(req'[o])
    BY DEF Plan!Planning, Planner
  <2>3. Plan!Routed(req[s].row)'
    BY <2>1 DEF Plan!Routed, RowRouted
  <2>4. Plan!PlannedFor(req[s].row)'
    BY <2>1 DEF Plan!PlannedFor, Plan!Serves, Plan!WorksOn, Plan!Weekday, RowPlanned, RowDelivers
  <2> QED
    BY <2>1, <2>2, <2>3, <2>4 DEF InForce
<1>2. Plan!RequestKnows'
  BY DEF Plan!RequestKnows, Plan!Routed, RowRouted, Plan!PlannedFor, Plan!Serves, Plan!WorksOn,
         Plan!Weekday, RowPlanned, RowDelivers
<1>3. Plan!AcceptsKnow'
  BY DEF Plan!AcceptsKnow, RowFits, RowDelivers, Plan!Serves, Plan!WorksOn, Plan!Weekday
<1>4. Plan!DeliveryAgreed'
  BY DEF Plan!DeliveryAgreed, InForce
<1>5. Plan!AcceptedCanServe'
  BY DEF Plan!AcceptedCanServe, RowFits, RowDelivers, Plan!WorksOn, Plan!Weekday
<1> QED
  BY <1>1, <1>2, <1>3, <1>4, <1>5 DEF Plan!IInv

LEMMA PlanBegins ==
    ASSUME PlanSetting, Plan!Init
    PROVE  Plan!IInv
<1> USE PlanRows
<1>1. /\ option \in {"route", "instant"} /\ deal \in Plan!Anyone /\ today = 1
      /\ settings \in [Promoters -> Choices]
      /\ route = [r \in Routes |-> IF r \in Elsewhere THEN "elsewhere" ELSE "covers"]
      /\ order = Plan!NoOrder /\ request = Plan!NoRequest /\ quoted = 0 /\ lock = "free"
      /\ req = [s \in Sessions |-> Plan!Idle]
      /\ edited = {} /\ edits = 0 /\ overlapped = FALSE
  BY DEF Plan!Init
<1>2. Plan!TypeOK
  <2>1. route \in [Routes -> Plan!RouteStates]
    BY <1>1 DEF Plan!RouteStates
  <2>2. req \in [Sessions -> PlanHandlers] /\ order \in Plan!Orders /\ request \in Plan!Requests
    BY <1>1
  <2>3. today \in 1..MaxDay /\ edits \in 0..MaxEdits
    BY <1>1 DEF PlanSetting
  <2> QED
    BY <1>1, <2>1, <2>2, <2>3 DEF Plan!TypeOK, PlanHandlers
<1>3. \A s \in Sessions : req[s].op = "idle"
  BY <1>1
<1> QED
  BY <1>1, <1>2, <1>3 DEF Plan!IInv, Plan!PlansKnow, Plan!Planning, Plan!RequestKnows, Plan!AcceptsKnow,
     Plan!DeliveryAgreed, Plan!AcceptedCanServe

\* Whoever changes something is remembered.
LEMMA PlanRelied ==
    ASSUME PlanSetting, option' = option, edited \subseteq Promoters,
           \A p \in Promoters : p \notin edited' => /\ p \notin edited /\ settings'[p] = settings[p]
                                                    /\ \A r \in Routes : OwnerOf[r] = p => route'[r] = route[r]
    PROVE  \A row \in Plan!Requests :
              /\ RowPlanned(row, option, settings, route, edited) => RowPlanned(row, option', settings', route', edited')
              /\ RowFits(row, settings, route, edited) => RowFits(row, settings', route', edited')
<1> SUFFICES ASSUME NEW row \in Plan!Requests
             PROVE  /\ RowPlanned(row, option, settings, route, edited) => RowPlanned(row, option', settings', route', edited')
                    /\ RowFits(row, settings, route, edited) => RowFits(row, settings', route', edited')
  OBVIOUS
<1>1. row.promoter \in Promoters \cup {NoPromoter} /\ row.route \in Routes \cup {NoRoute}
  BY PlanRows DEF Plan!Anyone
<1>2. ASSUME row.promoter \in Promoters, row.promoter \notin edited', RowDelivers(row, settings, route)
      PROVE  RowDelivers(row, settings', route')
  BY <1>1, <1>2 DEF RowDelivers
<1>3. RowPlanned(row, option, settings, route, edited) => RowPlanned(row, option', settings', route', edited')
  BY <1>1, <1>2 DEF RowPlanned
<1>4. RowDelivers(row, settings, route) => row.promoter \in Promoters
  BY <1>1 DEF RowDelivers, PlanSetting
<1>5. NoPromoter \notin Promoters
  BY DEF PlanSetting
<1>6. RowFits(row, settings, route, edited) => RowFits(row, settings', route', edited')
  <2>1. CASE row.promoter \in Promoters
    BY <1>2, <2>1 DEF RowFits
  <2>2. CASE row.promoter \notin Promoters
    BY <1>4, <2>2 DEF RowFits
  <2> QED
    BY <2>1, <2>2
<1> QED
  BY <1>3, <1>6

\* The columns of what is written are those of an order.
LEMMA PlanColumns ==
    ASSUME NEW old \in Plan!Orders, NEW sees \in Plan!Orders, NEW new \in Plan!Orders
    PROVE  /\ Plan!Written(old, sees, new) = [fee |-> IF new.fee # sees.fee THEN new.fee ELSE old.fee,
                                              day |-> IF new.day # sees.day THEN new.day ELSE old.day]
           /\ Plan!Written(old, sees, new) \in Plan!Orders
           /\ old = sees => Plan!Written(old, sees, new) = new
<1>1. DOMAIN old = {"fee", "day"} /\ old = [fee |-> old.fee, day |-> old.day] /\ new = [fee |-> new.fee, day |-> new.day]
  BY DEF Plan!Orders
<1>2. Plan!Written(old, sees, new) = [c \in {"fee", "day"} |-> IF new[c] # sees[c] THEN new[c] ELSE old[c]]
  BY <1>1 DEF Plan!Written
<1>3. Plan!Written(old, sees, new) = [fee |-> IF new.fee # sees.fee THEN new.fee ELSE old.fee,
                                      day |-> IF new.day # sees.day THEN new.day ELSE old.day]
  BY <1>2
<1>4. Plan!Written(old, sees, new) \in Plan!Orders
  BY <1>3, PlanRows DEF Plan!Orders
<1>5. ASSUME old = sees PROVE Plan!Written(old, sees, new) = new
  <2>1. Plan!Written(old, sees, new) = [fee |-> new.fee, day |-> new.day]
    BY <1>3, <1>5
  <2> QED
    BY <1>1, <2>1
<1> QED
  BY <1>3, <1>4, <1>5

\* A promoter's next working day is within a week, and one on which they work.
LEMMA PlanAhead ==
    ASSUME PlanSetting, Plan!IInv, NEW p \in Promoters
    PROVE  /\ Plan!NextWorkingDay(p) \in Plan!Days
           /\ Plan!NextWorkingDay(p) % DaysInWeek \in settings[p].days
<1>1. /\ settings[p] \in Choices /\ today \in 1..MaxDay /\ MaxDay \in Nat /\ DaysInWeek \in Nat /\ today \in Nat
  <2>1. settings \in [Promoters -> Choices] /\ today \in 1..MaxDay
    BY PlanTyped DEF Plan!IInv
  <2>2. settings[p] \in Choices
    BY <2>1
  <2> QED
    BY <2>1, <2>2 DEF PlanSetting
<1> DEFINE ahead == {d \in today + 1..today + DaysInWeek : Plan!WorksOn(p, d)}
<1>2. \E d \in today + 1..today + DaysInWeek : d % DaysInWeek \in settings[p].days
  BY <1>1 DEF PlanSetting
<1>3. ahead # {} /\ ahead \subseteq Nat
  <2>1. \E d \in today + 1..today + DaysInWeek : Plan!WorksOn(p, d)
    BY <1>2 DEF Plan!WorksOn, Plan!Weekday
  <2>2. today + 1..today + DaysInWeek \subseteq Nat
    BY <1>1
  <2> QED
    BY <2>1, <2>2
<1>4. \E d \in ahead : \A e \in ahead : d <= e
  <2> HIDE DEF ahead
  <2> QED
    BY <1>3, LeastNatural
<1>5. Plan!NextWorkingDay(p) = CHOOSE d \in ahead : \A e \in ahead : d <= e
  BY <1>3 DEF Plan!NextWorkingDay
<1>6. Plan!NextWorkingDay(p) \in ahead
  <2> HIDE DEF ahead
  <2> QED
    BY <1>4, <1>5
<1>7. Plan!NextWorkingDay(p) \in today + 1..today + DaysInWeek /\ Plan!WorksOn(p, Plan!NextWorkingDay(p))
  BY <1>6
<1>8. today + 1..today + DaysInWeek \subseteq 1..MaxDay + DaysInWeek
  BY <1>1
<1> QED
  BY <1>7, <1>8 DEF Plan!Days, Plan!WorksOn, Plan!Weekday

\* What is planned can be delivered now.
LEMMA PlanFinds ==
    ASSUME PlanSetting, Plan!IInv, NEW open, NEW plan \in Plan!Plans(open)
    PROVE  /\ plan.fee \in Plan!Fees /\ plan.row \in Plan!Requests /\ plan.row.day \in Plan!Days
           /\ RowRouted(plan.row) /\ RowPlanned(plan.row, option, settings, route, {})
<1> USE PlanRows
<1>1. /\ option \in {"route", "instant"} /\ deal \in Promoters \cup {NoPromoter} /\ today \in 1..MaxDay
      /\ settings \in [Promoters -> Choices] /\ route \in [Routes -> Plan!RouteStates]
  BY PlanTyped DEF Plan!IInv, Plan!Anyone
<1>2. /\ OwnerOf \in [Routes -> Promoters] /\ NoPromoter \notin Promoters /\ NoRoute \notin Routes
      /\ \A c \in Choices : c.fee \in Nat
  BY DEF PlanSetting
<1>3. \A r \in Routes : OwnerOf[r] \in Promoters /\ settings[OwnerOf[r]] \in Choices
                        /\ settings[OwnerOf[r]].fee \in Plan!Fees
  BY <1>1, <1>2 DEF Plan!Fees
<1>4. \A r \in Plan!Eligible(deal, open) :
         /\ r \in Routes /\ route[r] = "covers" /\ (deal # NoPromoter => OwnerOf[r] = deal)
         /\ settings[OwnerOf[r]].fee # 0 /\ (option = "instant" => today % DaysInWeek \in settings[OwnerOf[r]].days)
  BY DEF Plan!Eligible, Plan!WorksOn, Plan!Weekday
<1>5. today \in Plan!Days
  BY <1>1 DEF Plan!Days, PlanSetting
<1>6. CASE option = "route"
  <2>1. PICK r \in Plan!Eligible(deal, open) :
           plan = [fee |-> settings[OwnerOf[r]].fee,
                   row |-> [Plan!NoRequest EXCEPT !.route = r, !.promoter = OwnerOf[r],
                                                  !.day = Plan!NextWorkingDay(OwnerOf[r])]]
    BY <1>6 DEF Plan!Plans
  <2> DEFINE d == Plan!NextWorkingDay(OwnerOf[r])
  <2>2. /\ r \in Routes /\ OwnerOf[r] \in Promoters /\ settings[OwnerOf[r]].fee \in Plan!Fees
        /\ d \in Plan!Days /\ d % DaysInWeek \in settings[OwnerOf[r]].days
    BY <1>3, <1>4, PlanAhead
  <2> HIDE DEF d
  <2>3. /\ plan.fee = settings[OwnerOf[r]].fee /\ plan.row \in Plan!Requests /\ plan.row.day = d
        /\ plan.row.route = r /\ plan.row.promoter = OwnerOf[r] /\ ~plan.row.escalated
    BY <2>1, <2>2 DEF d, Plan!NoRequest, Plan!Requests, Plan!Anyone
  <2>4. RowRouted(plan.row)
    BY <2>2, <2>3 DEF RowRouted
  <2>5. RowDelivers(plan.row, settings, route)
    BY <1>2, <1>4, <2>2, <2>3 DEF RowDelivers
  <2>6. RowPlanned(plan.row, option, settings, route, {})
    BY <2>5 DEF RowPlanned, RowDelivers
  <2> QED
    BY <2>2, <2>3, <2>4, <2>6
<1>7. CASE option = "instant"
  <2> DEFINE rs == Plan!Eligible(deal, open)
             F == {settings[OwnerOf[r]].fee : r \in rs}
  <2>1. rs # {} /\ plan = [fee |-> Plan!LowestFee(rs),
                           row |-> [Plan!NoRequest EXCEPT !.promoter = deal, !.escalated = deal = NoPromoter,
                                                          !.day = today]]
    BY <1>7 DEF Plan!Plans
  <2>2. F # {} /\ F \subseteq Nat /\ F \subseteq Plan!Fees
    BY <1>2, <1>3, <1>4, <2>1
  <2>3. \E f \in F : \A g \in F : f <= g
    <3> HIDE DEF F
    <3> QED
      BY <2>2, LeastNatural
  <2>4. Plan!LowestFee(rs) \in F
    <3>1. Plan!LowestFee(rs) = CHOOSE f \in F : \A r \in rs : f <= settings[OwnerOf[r]].fee
      BY DEF Plan!LowestFee
    <3>2. \E f \in F : \A r \in rs : f <= settings[OwnerOf[r]].fee
      BY <2>3
    <3> HIDE DEF F, rs
    <3> QED
      BY <3>1, <3>2
  <2>5. /\ plan.fee = Plan!LowestFee(rs) /\ plan.row \in Plan!Requests /\ plan.row.day = today
        /\ plan.row.route = NoRoute /\ plan.row.promoter = deal
        /\ (plan.row.escalated <=> deal = NoPromoter)
    <3>1. (deal = NoPromoter) \in BOOLEAN
      OBVIOUS
    <3> QED
      BY <1>1, <1>5, <2>1, <3>1 DEF Plan!NoRequest, Plan!Requests, Plan!Anyone
  <2>6. RowRouted(plan.row)
    BY <1>1, <2>5 DEF RowRouted
  <2>7. deal # NoPromoter => settings[deal].fee # 0 /\ today % DaysInWeek \in settings[deal].days
    BY <1>4, <1>7, <2>1
  <2>8. RowPlanned(plan.row, option, settings, route, {})
    BY <1>7, <2>5, <2>7 DEF RowPlanned
  <2> QED
    BY <1>5, <2>2, <2>4, <2>5, <2>6, <2>8
<1> QED
  BY <1>1, <1>6, <1>7

\* Somebody plans what they have read and found.
LEMMA PlanPlans ==
    ASSUME PlanSetting, Plan!IInv, NEW s \in Sessions, Plan!Plan(s)
    PROVE  Plan!IInv'
<1> USE PlanRows
<1>0. /\ option \in {"route", "instant"} /\ deal \in Plan!Anyone /\ today \in 1..MaxDay
      /\ settings \in [Promoters -> Choices] /\ route \in [Routes -> Plan!RouteStates]
      /\ order \in Plan!Orders /\ request \in Plan!Requests /\ quoted \in Plan!Fees \cup {0}
      /\ lock \in Sessions \cup {"free"} /\ req \in [Sessions -> PlanHandlers]
      /\ edited \subseteq Promoters /\ edits \in 0..MaxEdits /\ overlapped \in BOOLEAN
  BY PlanTyped DEF Plan!IInv
<1> DEFINE step(plan) ==
         req' = [req EXCEPT ![s] =
            [op    |-> IF request.status = "none" THEN "place" ELSE "re_request",
             seen  |-> order,
             order |-> [fee |-> plan.fee, day |-> plan.row.day],
             row   |-> [plan.row EXCEPT !.status = "requested"]]]
<1>a. PICK open \in SUBSET Promoters : \E plan \in Plan!Plans(open) : step(plan)
  BY DEF Plan!Plan
<1>1. PICK plan \in Plan!Plans(open) : step(plan)
  BY <1>a
<1>2. /\ req[s].op = "idle" /\ request.status \in {"none", "rejected", "expired"}
      /\ overlapped' = (overlapped \/ Plan!Planning # {})
      /\ edited' = IF \A o \in Sessions : req[o].op = "idle" THEN {} ELSE edited
      /\ option' = option /\ deal' = deal /\ today' = today /\ settings' = settings
      /\ route' = route /\ edits' = edits /\ order' = order /\ request' = request /\ quoted' = quoted /\ lock' = lock
  BY DEF Plan!Plan, Plan!world
<1> DEFINE row == [plan.row EXCEPT !.status = "requested"]
           h == [op    |-> IF request.status = "none" THEN "place" ELSE "re_request",
                 seen  |-> order, order |-> [fee |-> plan.fee, day |-> plan.row.day], row |-> row]
<1>3. /\ plan.fee \in Plan!Fees /\ plan.row \in Plan!Requests /\ plan.row.day \in Plan!Days
      /\ RowRouted(plan.row) /\ RowPlanned(plan.row, option, settings, route, {})
  BY PlanFinds
<1>4. /\ row \in Plan!Requests /\ row.status = "requested" /\ row.day = plan.row.day
      /\ row.route = plan.row.route /\ row.promoter = plan.row.promoter /\ row.escalated = plan.row.escalated
  BY <1>3 DEF Plan!Requests
<1>5. RowRouted(row) /\ \A ed : RowPlanned(row, option, settings, route, ed)
  BY <1>3, <1>4 DEF RowRouted, RowPlanned, RowDelivers
<1> HIDE DEF row
<1>6. h \in PlanHandlers /\ Planner(h) /\ h.op # "accept" /\ h.seen = order /\ h.row = row /\ h.row.day = h.order.day
  <2>1. [fee |-> plan.fee, day |-> plan.row.day] \in Plan!Orders
    BY <1>3 DEF Plan!Orders
  <2> QED
    BY <1>0, <1>4, <2>1 DEF PlanHandlers, Planner
<1> HIDE DEF h
<1>7. req' = [req EXCEPT ![s] = h]
  BY <1>1 DEF h, row
<1>8. req' \in [Sessions -> PlanHandlers] /\ req'[s] = h /\ \A o \in Sessions : o # s => req'[o] = req[o]
  BY <1>0, <1>6, <1>7
<1>9. Plan!TypeOK'
  <2>1. edited' \subseteq Promoters
    BY <1>0, <1>2
  <2>2. overlapped' \in BOOLEAN
    BY <1>0, <1>2
  <2> QED
    BY <1>0, <1>2, <1>8, <2>1, <2>2, PlanTypes
<1>10. ASSUME NEW o \in Sessions, Planner(req'[o])
       PROVE  /\ req'[o].row.status = "requested" /\ req'[o].row.day = req'[o].order.day
              /\ RowRouted(req'[o].row) /\ RowPlanned(req'[o].row, option', settings', route', edited')
              /\ ~overlapped' => /\ ~InForce(request') /\ req'[o].seen = order'
                                 /\ \A t \in Sessions : Planner(req'[t]) => t = o
  <2>1. CASE o = s
    <3>1. /\ req'[o].row.status = "requested" /\ req'[o].row.day = req'[o].order.day
          /\ RowRouted(req'[o].row) /\ RowPlanned(req'[o].row, option', settings', route', edited')
      BY <1>2, <1>4, <1>5, <1>6, <1>8, <2>1
    <3>2. ~overlapped' => \A t \in Sessions : ~Planner(req[t])
      BY <1>2 DEF Plan!Planning, Planner
    <3>3. ~InForce(request') /\ req'[o].seen = order'
      BY <1>2, <1>6, <1>8, <2>1 DEF InForce
    <3> QED
      BY <1>8, <2>1, <3>1, <3>2, <3>3
  <2>2. CASE o # s
    <3>1. req'[o] = req[o] /\ Planner(req[o])
      BY <1>8, <1>10, <2>2
    <3>2. edited' = edited /\ overlapped'
      BY <1>2, <3>1 DEF Plan!Planning, Planner
    <3>3. /\ req[o].row.status = "requested" /\ req[o].row.day = req[o].order.day
          /\ RowRouted(req[o].row) /\ RowPlanned(req[o].row, option, settings, route, edited)
      BY <3>1, PlanReads
    <3> QED
      BY <1>2, <3>1, <3>2, <3>3
  <2> QED
    BY <2>1, <2>2
<1>11. \A o \in Sessions : req'[o].op # "accept"
  BY <1>2, <1>6, <1>8, PlanReads
<1>12. request'.status # "requested" /\ request'.status # "accepted" /\ ~InForce(request')
  BY <1>2 DEF InForce
<1> QED
  BY <1>9, <1>10, <1>11, <1>12, PlanWrites

LEMMA PlanInserts ==
    ASSUME PlanSetting, Plan!IInv, NEW s \in Sessions, Plan!InsertRequest(s)
    PROVE  Plan!IInv'
<1> USE PlanRows
<1> DEFINE r == req[s]
<1>0. /\ option \in {"route", "instant"} /\ deal \in Plan!Anyone /\ today \in 1..MaxDay
      /\ settings \in [Promoters -> Choices] /\ route \in [Routes -> Plan!RouteStates]
      /\ order \in Plan!Orders /\ request \in Plan!Requests /\ quoted \in Plan!Fees \cup {0}
      /\ lock \in Sessions \cup {"free"} /\ req \in [Sessions -> PlanHandlers]
      /\ edited \subseteq Promoters /\ edits \in 0..MaxEdits /\ overlapped \in BOOLEAN
  BY PlanTyped DEF Plan!IInv
<1>1. /\ Planner(r) /\ req' = [req EXCEPT ![s] = Plan!Idle]
      /\ option' = option /\ deal' = deal /\ today' = today /\ settings' = settings
      /\ route' = route /\ edits' = edits /\ lock' = lock /\ edited' = edited /\ overlapped' = overlapped
  BY DEF Plan!InsertRequest, Plan!world, Plan!End, Planner
<1>2. req' \in [Sessions -> PlanHandlers] /\ req'[s] = Plan!Idle /\ \A o \in Sessions : o # s => req'[o] = req[o]
  BY <1>0, <1>1
<1>3. ~Planner(Plan!Idle) /\ Plan!Idle.op # "accept"
  BY DEF Planner
<1>4. CASE /\ request.status \in {"none", "rejected", "expired"}
           /\ r.row.route # NoRoute => route[r.row.route] # "deleted"
  <2>1. request' = r.row /\ order' = Plan!Written(order, r.seen, r.order) /\ quoted' = r.order.fee
    BY <1>4 DEF Plan!InsertRequest
  <2>2. r \in PlanHandlers /\ r.row \in Plan!Requests /\ r.order \in Plan!Orders /\ r.seen \in Plan!Orders
    BY <1>0
  <2>3. order' \in Plan!Orders /\ (order = r.seen => order' = r.order)
    BY <1>0, <2>1, <2>2, PlanColumns
  <2>4. Plan!TypeOK'
    BY <1>0, <1>1, <1>2, <2>1, <2>2, <2>3, PlanTypes
  <2>5. /\ r.row.status = "requested" /\ r.row.day = r.order.day
        /\ RowRouted(r.row) /\ RowPlanned(r.row, option, settings, route, edited)
        /\ ~overlapped => r.seen = order /\ \A o \in Sessions : Planner(req[o]) => o = s
    BY <1>1, PlanReads
  <2> HIDE DEF r
  <2>6. \A o \in Sessions : Planner(req'[o]) => o # s /\ req'[o] = req[o] /\ overlapped
    BY <1>2, <1>3, <2>5
  <2>7. ASSUME NEW o \in Sessions, Planner(req'[o])
       PROVE  /\ req'[o].row.status = "requested" /\ req'[o].row.day = req'[o].order.day
              /\ RowRouted(req'[o].row) /\ RowPlanned(req'[o].row, option', settings', route', edited')
              /\ ~overlapped' => /\ ~InForce(request') /\ req'[o].seen = order'
                                 /\ \A t \in Sessions : Planner(req'[t]) => t = o
    <3>1. Planner(req[o]) /\ req'[o] = req[o] /\ overlapped'
      BY <1>1, <2>6, <2>7
    <3>2. /\ req[o].row.status = "requested" /\ req[o].row.day = req[o].order.day
          /\ RowRouted(req[o].row) /\ RowPlanned(req[o].row, option, settings, route, edited)
      BY <3>1, PlanReads
    <3> QED
      BY <1>1, <3>1, <3>2
  <2>8. \A o \in Sessions : req'[o].op # "accept"
    BY <1>2, <1>3, <1>4, PlanReads
  <2>9. request'.status = "requested" =>
           /\ RowRouted(request') /\ RowPlanned(request', option', settings', route', edited')
           /\ request'.route # NoRoute => route'[request'.route] # "deleted"
    BY <1>1, <1>4, <2>1, <2>5 DEF r
  <2>10. ~overlapped' => order'.day = request'.day /\ order'.fee = quoted'
    BY <1>1, <2>1, <2>3, <2>5
  <2>11. request'.status # "accepted"
    BY <2>1, <2>5
  <2> QED
    BY <2>4, <2>7, <2>8, <2>9, <2>10, <2>11, PlanWrites
<1>5. CASE ~(/\ request.status \in {"none", "rejected", "expired"}
             /\ r.row.route # NoRoute => route[r.row.route] # "deleted")
  <2>1. request' = request /\ order' = order /\ quoted' = quoted
    BY <1>5 DEF Plan!InsertRequest
  <2>2. Plan!TypeOK'
    BY <1>0, <1>1, <1>2, <2>1, PlanTypes
  <2>3. \A o \in Sessions : Planner(req'[o]) \/ req'[o].op = "accept" => o # s /\ req'[o] = req[o]
    BY <1>2, <1>3
  <2> QED
    BY <1>1, <2>1, <2>2, <2>3, PlanReads, PlanWrites
<1> QED
  BY <1>4, <1>5

\* Who accepts can deliver: by what was planned with them, or as it is now.
LEMMA PlanServes ==
    ASSUME PlanSetting, Plan!IInv, NEW p \in Promoters, NEW r \in Routes,
           request.status = "requested", request.promoter \in {NoPromoter, p},
           request.route \in {NoRoute, r}, Plan!CanServe(p, r)
    PROVE  /\ OwnerOf[r] = p /\ Plan!RescheduledDay(p) \in Plan!Days \cup {0}
           /\ ~request.escalated => request.promoter = p
           /\ p \notin edited \/ request.escalated =>
                 /\ route[r] = "covers" /\ settings[p].fee # 0
                 /\ Plan!RescheduledDay(p) % DaysInWeek \in settings[p].days
<1> USE PlanRows
<1>0. /\ option \in {"route", "instant"} /\ today \in 1..MaxDay /\ request \in Plan!Requests /\ DaysInWeek \in Nat /\ MaxDay \in Nat
  BY PlanTyped DEF Plan!IInv, PlanSetting
<1>1. /\ OwnerOf[r] = p
      /\ \/ option = "route" /\ ~request.escalated
         \/ /\ settings[p].fee # 0 /\ route[r] = "covers"
            /\ option = "instant" => today % DaysInWeek \in settings[p].days
  BY DEF Plan!CanServe, Plan!WorksOn, Plan!Weekday
<1>2. /\ Plan!NextWorkingDay(p) \in Plan!Days
      /\ Plan!NextWorkingDay(p) % DaysInWeek \in settings[p].days
  BY PlanAhead
<1>3. today \in Plan!Days
  BY <1>0 DEF Plan!Days
<1>4. RowRouted(request) /\ RowPlanned(request, option, settings, route, edited)
  BY PlanReads
<1>5. NoPromoter \notin Promoters
  BY DEF PlanSetting
<1>6. CASE request.escalated
  <2>1. Plan!RescheduledDay(p) = IF option = "route" THEN Plan!NextWorkingDay(p) ELSE today
    BY <1>0, <1>6 DEF Plan!RescheduledDay
  <2> QED
    BY <1>0, <1>1, <1>2, <1>3, <1>6, <2>1
<1>7. CASE ~request.escalated
  <2>1. Plan!RescheduledDay(p) = request.day /\ request.day \in Plan!Days \cup {0}
    BY <1>0, <1>7 DEF Plan!RescheduledDay
  <2>2. request.promoter = p
    BY <1>4, <1>5, <1>7 DEF RowRouted
  <2>3. ASSUME p \notin edited
        PROVE  /\ settings[p].fee # 0 /\ request.day % DaysInWeek \in settings[p].days
               /\ option = "route" => request.route # NoRoute /\ route[request.route] = "covers"
    BY <1>4, <1>5, <2>2, <2>3 DEF RowPlanned, RowDelivers
  <2>4. ASSUME p \notin edited PROVE route[r] = "covers"
    BY <1>0, <1>1, <2>3, <2>4
  <2> QED
    BY <1>1, <1>7, <2>1, <2>2, <2>3, <2>4
<1> QED
  BY <1>6, <1>7

LEMMA PlanAccepts ==
    ASSUME PlanSetting, Plan!IInv, NEW s \in Sessions, NEW p \in Promoters, NEW r \in Routes, Plan!Accept(s, p, r)
    PROVE  Plan!IInv'
<1> USE PlanRows
<1> DEFINE day == Plan!RescheduledDay(p)
           row == [request EXCEPT !.status = "accepted", !.promoter = p, !.route = r, !.day = day]
           ord == IF request.escalated THEN [order EXCEPT !.day = day] ELSE order
           h == [op |-> "accept", seen |-> order, order |-> ord, row |-> row]
<1>0. /\ option \in {"route", "instant"} /\ deal \in Plan!Anyone /\ today \in 1..MaxDay
      /\ settings \in [Promoters -> Choices] /\ route \in [Routes -> Plan!RouteStates]
      /\ order \in Plan!Orders /\ request \in Plan!Requests /\ quoted \in Plan!Fees \cup {0}
      /\ lock \in Sessions \cup {"free"} /\ req \in [Sessions -> PlanHandlers]
      /\ edited \subseteq Promoters /\ edits \in 0..MaxEdits /\ overlapped \in BOOLEAN
  BY PlanTyped DEF Plan!IInv
<1>1. /\ req[s].op = "idle" /\ lock = "free" /\ request.status = "requested"
      /\ request.promoter \in {NoPromoter, p} /\ request.route \in {NoRoute, r} /\ Plan!CanServe(p, r)
      /\ lock' = s /\ req' = [req EXCEPT ![s] = h]
      /\ edited' = (IF request.escalated /\ Plan!Planning = {} THEN edited \ {p} ELSE edited)
      /\ option' = option /\ deal' = deal /\ today' = today /\ settings' = settings
      /\ route' = route /\ edits' = edits /\ order' = order /\ request' = request
      /\ quoted' = quoted /\ overlapped' = overlapped
  BY DEF Plan!Accept, Plan!world
<1>2. /\ OwnerOf[r] = p /\ day \in Plan!Days \cup {0}
      /\ ~request.escalated => request.promoter = p
      /\ p \notin edited \/ request.escalated =>
            /\ route[r] = "covers" /\ settings[p].fee # 0 /\ day % DaysInWeek \in settings[p].days
  BY <1>1, PlanServes
<1>3. ~request.escalated => day = request.day
  BY DEF Plan!RescheduledDay
<1>4. RowRouted(request) /\ RowPlanned(request, option, settings, route, edited)
  BY <1>1, PlanReads
<1> HIDE DEF day
<1>5. /\ row \in Plan!Requests /\ row.status = "accepted" /\ row.promoter = p /\ row.route = r /\ row.day = day
  BY <1>0, <1>2 DEF Plan!Requests, Plan!Anyone
<1>6. /\ ord \in Plan!Orders /\ (~request.escalated => ord = order)
      /\ request.escalated => ord = [order EXCEPT !.day = day]
  BY <1>0, <1>2 DEF Plan!Orders
<1> HIDE DEF row, ord
<1>7. h \in PlanHandlers /\ h.op = "accept" /\ h.seen = order /\ h.order = ord /\ h.row = row
  BY <1>0, <1>5, <1>6 DEF PlanHandlers
<1> HIDE DEF h
<1>8. req' \in [Sessions -> PlanHandlers] /\ req'[s] = h /\ \A o \in Sessions : o # s => req'[o] = req[o]
  BY <1>0, <1>1, <1>7
<1>9. Plan!TypeOK'
  <2>1. edited' \subseteq Promoters
    BY <1>0, <1>1
  <2> QED
    BY <1>0, <1>1, <1>8, <2>1, PlanTypes
<1>10. RowFits(row, settings, route, edited') /\ r # NoRoute
  <2>1. p \notin edited' => p \notin edited \/ request.escalated
    BY <1>1
  <2>2. r # NoRoute
    BY DEF PlanSetting
  <2> QED
    BY <1>2, <1>5, <2>1, <2>2 DEF RowFits, RowDelivers
<1>11. ~Planner(h)
  BY <1>7 DEF Planner
<1>12. ASSUME NEW o \in Sessions, Planner(req'[o])
       PROVE  /\ req'[o].row.status = "requested" /\ req'[o].row.day = req'[o].order.day
              /\ RowRouted(req'[o].row) /\ RowPlanned(req'[o].row, option', settings', route', edited')
              /\ ~overlapped' => /\ ~InForce(request') /\ req'[o].seen = order'
                                 /\ \A t \in Sessions : Planner(req'[t]) => t = o
  <2>1. req'[o] = req[o] /\ Planner(req[o])
    BY <1>8, <1>11, <1>12
  <2>2. edited' = edited
    BY <1>1, <2>1 DEF Plan!Planning, Planner
  <2>3. /\ req[o].row.status = "requested" /\ req[o].row.day = req[o].order.day
        /\ RowRouted(req[o].row) /\ RowPlanned(req[o].row, option, settings, route, edited)
        /\ overlapped
    BY <1>1, <2>1, PlanReads DEF InForce
  <2> QED
    BY <1>1, <2>1, <2>2, <2>3
<1>13. RowPlanned(request, option, settings, route, edited')
  <2>1. CASE request.escalated
    BY <1>4, <2>1 DEF RowPlanned, RowRouted
  <2>2. CASE ~request.escalated
    BY <1>1, <1>4, <2>2
  <2> QED
    BY <2>1, <2>2
<1>14. ASSUME NEW o \in Sessions, req'[o].op = "accept" PROVE o = s
  <2>1. o # s => lock = o
    BY <1>8, <1>14, PlanReads
  <2>2. "free" \notin Sessions
    BY DEF PlanSetting
  <2> QED
    BY <1>1, <2>1, <2>2
<1>15. request.route # NoRoute => route[request.route] # "deleted"
  BY <1>1, PlanReads
<1>16. InForce(request) /\ ~overlapped => order.day = request.day /\ order.fee = quoted
  BY PlanReads
<1>17. \A o \in Sessions : req'[o].op = "accept" =>
                 /\ lock' = o /\ request'.status = "requested" /\ req'[o].seen = order'
                 /\ req'[o].row.status = "accepted" /\ req'[o].row.promoter \in Promoters
                 /\ req'[o].row.route # NoRoute /\ OwnerOf[req'[o].row.route] = req'[o].row.promoter
                 /\ RowFits(req'[o].row, settings', route', edited')
                 /\ request'.escalated => req'[o].order = [order' EXCEPT !.day = req'[o].row.day]
                 /\ ~request'.escalated => req'[o].order = order' /\ req'[o].row.day = request'.day
  BY <1>1, <1>2, <1>3, <1>5, <1>6, <1>7, <1>8, <1>10, <1>14
<1> QED
  BY <1>1, <1>4, <1>9, <1>12, <1>13, <1>15, <1>16, <1>17, PlanWrites

LEMMA PlanCommits ==
    ASSUME PlanSetting, Plan!IInv, NEW s \in Sessions, Plan!CommitAccept(s)
    PROVE  Plan!IInv'
<1> USE PlanRows
<1> DEFINE r == req[s]
<1>0. /\ option \in {"route", "instant"} /\ deal \in Plan!Anyone /\ today \in 1..MaxDay
      /\ settings \in [Promoters -> Choices] /\ route \in [Routes -> Plan!RouteStates]
      /\ order \in Plan!Orders /\ request \in Plan!Requests /\ quoted \in Plan!Fees \cup {0}
      /\ lock \in Sessions \cup {"free"} /\ req \in [Sessions -> PlanHandlers]
      /\ edited \subseteq Promoters /\ edits \in 0..MaxEdits /\ overlapped \in BOOLEAN
  BY PlanTyped DEF Plan!IInv
<1>1. /\ r.op = "accept" /\ req' = [req EXCEPT ![s] = Plan!Idle] /\ lock' = "free"
      /\ option' = option /\ deal' = deal /\ today' = today /\ settings' = settings
      /\ route' = route /\ edits' = edits /\ quoted' = quoted /\ edited' = edited /\ overlapped' = overlapped
  BY DEF Plan!CommitAccept, Plan!world, Plan!End
<1>2. req' \in [Sessions -> PlanHandlers] /\ req'[s] = Plan!Idle /\ \A o \in Sessions : o # s => req'[o] = req[o]
  BY <1>0, <1>1
<1>3. ~Planner(Plan!Idle) /\ Plan!Idle.op # "accept"
  BY DEF Planner
<1>4. /\ lock = s /\ request.status = "requested" /\ r.seen = order
      /\ r.row.status = "accepted" /\ r.row.promoter \in Promoters
      /\ r.row.route # NoRoute /\ OwnerOf[r.row.route] = r.row.promoter
      /\ RowFits(r.row, settings, route, edited)
      /\ request.escalated => r.order = [order EXCEPT !.day = r.row.day]
      /\ ~request.escalated => r.order = order /\ r.row.day = request.day
  BY <1>1, PlanReads
<1>5. r \in PlanHandlers /\ r.row \in Plan!Requests /\ r.order \in Plan!Orders /\ r.seen \in Plan!Orders
  BY <1>0
<1> HIDE DEF r
<1>6. \A o \in Sessions : req'[o].op # "accept"
  <2>1. \A o \in Sessions : req[o].op = "accept" => o = s
    BY <1>4, PlanReads
  <2> QED
    BY <1>2, <1>3, <2>1
<1>7. \A o \in Sessions : Planner(req'[o]) => Planner(req[o]) /\ req'[o] = req[o]
  BY <1>2, <1>3
<1>8. \A o \in Sessions : Planner(req'[o]) => overlapped
  BY <1>4, <1>7, PlanReads DEF InForce
<1>9. \A o \in Sessions : Planner(req'[o]) =>
                 /\ req'[o].row.status = "requested" /\ req'[o].row.day = req'[o].order.day
                 /\ RowRouted(req'[o].row) /\ RowPlanned(req'[o].row, option', settings', route', edited')
                 /\ ~overlapped' => /\ ~InForce(request') /\ req'[o].seen = order'
                                    /\ \A t \in Sessions : Planner(req'[t]) => t = o
  BY <1>1, <1>7, <1>8, PlanReads
<1>10. ~overlapped => order.day = request.day /\ order.fee = quoted
  BY <1>4, PlanReads DEF InForce
<1>11. CASE route[r.row.route] # "deleted"
  <2>1. request' = r.row /\ order' = Plan!Written(order, r.seen, r.order)
    BY <1>11 DEF Plan!CommitAccept, r
  <2>2. order' = r.order /\ order' \in Plan!Orders
    <3>1. order' \in Plan!Orders /\ (order = r.seen => order' = r.order)
      BY <1>0, <1>5, <2>1, PlanColumns
    <3> QED
      BY <1>4, <3>1
  <2>3. Plan!TypeOK'
    BY <1>0, <1>1, <1>2, <1>5, <2>1, <2>2, PlanTypes
  <2>4. ~overlapped => order'.day = request'.day /\ order'.fee = quoted'
    <3>1. CASE request.escalated
      <4>1. r.order.day = r.row.day /\ r.order.fee = order.fee
        BY <1>0, <1>4, <3>1 DEF Plan!Orders
      <4> QED
        BY <1>1, <1>10, <2>1, <2>2, <4>1
    <3>2. CASE ~request.escalated
      BY <1>1, <1>4, <1>10, <2>1, <2>2, <3>2
    <3> QED
      BY <3>1, <3>2
  <2>5. request'.status # "requested"
    BY <1>4, <2>1
  <2>6. /\ request'.route # NoRoute => /\ OwnerOf[request'.route] = request'.promoter
                                       /\ route'[request'.route] # "deleted"
        /\ RowFits(request', settings', route', edited')
    BY <1>1, <1>4, <1>11, <2>1
  <2> QED
    BY <1>1, <1>6, <1>9, <2>3, <2>4, <2>5, <2>6, PlanWrites
<1>12. CASE route[r.row.route] = "deleted"
  <2>1. request' = request /\ order' = order
    BY <1>12 DEF Plan!CommitAccept, r
  <2>2. Plan!TypeOK'
    BY <1>0, <1>1, <1>2, <2>1, PlanTypes
  <2>3. /\ request.status = "requested" =>
                 /\ RowRouted(request) /\ RowPlanned(request, option, settings, route, edited)
                 /\ request.route # NoRoute => route[request.route] # "deleted"
        /\ request.status # "accepted"
    BY <1>4, PlanReads
  <2> QED
    BY <1>1, <1>6, <1>9, <1>10, <2>1, <2>2, <2>3, PlanWrites
<1> QED
  BY <1>11, <1>12

\* A handler is given up, without a trace.
LEMMA PlanAbandons ==
    ASSUME PlanSetting, Plan!IInv, NEW s \in Sessions, Plan!Abandon(s)
    PROVE  Plan!IInv'
<1> USE PlanRows
<1>0. /\ option \in {"route", "instant"} /\ deal \in Plan!Anyone /\ today \in 1..MaxDay
      /\ settings \in [Promoters -> Choices] /\ route \in [Routes -> Plan!RouteStates]
      /\ order \in Plan!Orders /\ request \in Plan!Requests /\ quoted \in Plan!Fees \cup {0}
      /\ lock \in Sessions \cup {"free"} /\ req \in [Sessions -> PlanHandlers]
      /\ edited \subseteq Promoters /\ edits \in 0..MaxEdits /\ overlapped \in BOOLEAN
  BY PlanTyped DEF Plan!IInv
<1>1. /\ req' = [req EXCEPT ![s] = Plan!Idle] /\ lock' = (IF lock = s THEN "free" ELSE lock)
      /\ option' = option /\ deal' = deal /\ today' = today /\ settings' = settings
      /\ route' = route /\ edits' = edits /\ quoted' = quoted /\ edited' = edited /\ overlapped' = overlapped
      /\ order' = order /\ request' = request
  BY DEF Plan!Abandon, Plan!world, Plan!End
<1>2. req' \in [Sessions -> PlanHandlers] /\ req'[s] = Plan!Idle /\ \A o \in Sessions : o # s => req'[o] = req[o]
  BY <1>0, <1>1
<1>3. ~Planner(Plan!Idle) /\ Plan!Idle.op # "accept"
  BY DEF Planner
<1>4. \A o \in Sessions : Planner(req'[o]) \/ req'[o].op = "accept" => o # s /\ req'[o] = req[o]
  BY <1>2, <1>3
<1>5. Plan!TypeOK'
  <2>1. lock' \in Sessions \cup {"free"}
    BY <1>0, <1>1
  <2> QED
    BY <1>0, <1>1, <1>2, <2>1, PlanTypes
<1>6. \A o \in Sessions : req'[o].op = "accept" => lock' = lock
  <2>1. \A o \in Sessions : req[o].op = "accept" => lock = o
    BY PlanReads
  <2> QED
    BY <1>1, <1>4, <2>1
<1> QED
  BY <1>1, <1>4, <1>5, <1>6, PlanReads, PlanWrites

\* A request that is refused or not answered is opened to others, or closed.
LEMMA PlanPassesOver ==
    ASSUME PlanSetting, Plan!IInv, NEW status \in {"rejected", "expired"}, Plan!PassOver(status)
    PROVE  Plan!IInv'
<1> USE PlanRows
<1> DEFINE opened == [request EXCEPT !.passed_over = request.promoter, !.promoter = NoPromoter,
                                     !.route = NoRoute, !.escalated = TRUE]
           closed == [request EXCEPT !.status = status]
<1>0. /\ option \in {"route", "instant"} /\ deal \in Plan!Anyone /\ today \in 1..MaxDay
      /\ settings \in [Promoters -> Choices] /\ route \in [Routes -> Plan!RouteStates]
      /\ order \in Plan!Orders /\ request \in Plan!Requests /\ quoted \in Plan!Fees \cup {0}
      /\ lock \in Sessions \cup {"free"} /\ req \in [Sessions -> PlanHandlers]
      /\ edited \subseteq Promoters /\ edits \in 0..MaxEdits /\ overlapped \in BOOLEAN
  BY PlanTyped DEF Plan!IInv
<1>1. /\ request.status = "requested" /\ lock = "free" /\ request' \in {opened, closed}
      /\ option' = option /\ deal' = deal /\ today' = today /\ settings' = settings
      /\ route' = route /\ edits' = edits /\ quoted' = quoted /\ edited' = edited /\ overlapped' = overlapped
      /\ order' = order /\ req' = req /\ lock' = lock
  BY DEF Plan!PassOver, Plan!world
<1>2. /\ opened \in Plan!Requests /\ opened.status = "requested" /\ opened.promoter = NoPromoter
      /\ opened.route = NoRoute /\ opened.escalated /\ opened.day = request.day
  BY <1>0, <1>1 DEF Plan!Requests, Plan!Anyone
<1>3. closed \in Plan!Requests /\ closed.status \in {"rejected", "expired"}
  BY <1>0 DEF Plan!Requests
<1> HIDE DEF opened, closed
<1>4. Plan!TypeOK'
  <2>1. request' \in Plan!Requests
    BY <1>1, <1>2, <1>3
  <2> QED
    BY <1>0, <1>1, <2>1, PlanTypes
<1>5. \A o \in Sessions : req[o].op # "accept"
  <2>1. "free" \notin Sessions
    BY DEF PlanSetting
  <2> QED
    BY <1>1, <2>1, PlanReads
<1>6. \A o \in Sessions : Planner(req[o]) => overlapped
  BY <1>1, PlanReads DEF InForce
<1>7. \A o \in Sessions : Planner(req'[o]) =>
                 /\ req'[o].row.status = "requested" /\ req'[o].row.day = req'[o].order.day
                 /\ RowRouted(req'[o].row) /\ RowPlanned(req'[o].row, option', settings', route', edited')
                 /\ ~overlapped' => /\ ~InForce(request') /\ req'[o].seen = order'
                                    /\ \A t \in Sessions : Planner(req'[t]) => t = o
  BY <1>1, <1>6, PlanReads
<1>8. ~overlapped => order.day = request.day /\ order.fee = quoted
  BY <1>1, PlanReads DEF InForce
<1>9. CASE request' = opened
  <2>1. RowRouted(opened) /\ RowPlanned(opened, option', settings', route', edited')
    BY <1>2 DEF RowRouted, RowPlanned
  <2>2. opened.status # "accepted"
    BY <1>2
  <2> QED
    BY <1>1, <1>2, <1>4, <1>5, <1>7, <1>8, <1>9, <2>1, <2>2, PlanWrites
<1>10. CASE request' = closed
  <2>1. request'.status # "requested" /\ request'.status # "accepted" /\ ~InForce(request')
    BY <1>3, <1>10 DEF InForce
  <2> QED
    BY <1>1, <1>4, <1>5, <1>7, <2>1, PlanWrites
<1> QED
  BY <1>1, <1>9, <1>10

\* A promoter changes something; nobody waits for it.
LEMMA PlanEdits ==
    ASSUME PlanSetting, Plan!IInv, NEW p \in Promoters, edited' = edited \cup {p},
           edits < MaxEdits, edits' = edits + 1,
           option' = option, deal' = deal, today' = today, order' = order, quoted' = quoted,
           req' = req, overlapped' = overlapped,
           settings' \in [Promoters -> Choices], \A q \in Promoters : q # p => settings'[q] = settings[q],
           route' \in [Routes -> Plan!RouteStates], \A q \in Routes : OwnerOf[q] # p => route'[q] = route[q],
           lock' = lock,
           \/ /\ request' = request
              /\ request.route # NoRoute /\ route[request.route] # "deleted" => route'[request.route] # "deleted"
           \/ /\ request' = [request EXCEPT !.route = NoRoute] /\ lock = "free"
              /\ request.route # NoRoute /\ OwnerOf[request.route] = p
    PROVE  Plan!IInv'
<1> USE PlanRows
<1>0. /\ option \in {"route", "instant"} /\ deal \in Plan!Anyone /\ today \in 1..MaxDay
      /\ order \in Plan!Orders /\ request \in Plan!Requests /\ quoted \in Plan!Fees \cup {0}
      /\ lock \in Sessions \cup {"free"} /\ req \in [Sessions -> PlanHandlers]
      /\ edited \subseteq Promoters /\ edits \in 0..MaxEdits /\ overlapped \in BOOLEAN
  BY PlanTyped DEF Plan!IInv
<1>1. \A row \in Plan!Requests :
         /\ RowPlanned(row, option, settings, route, edited) => RowPlanned(row, option', settings', route', edited')
         /\ RowFits(row, settings, route, edited) => RowFits(row, settings', route', edited')
  <2>1. \A q \in Promoters : q \notin edited' => /\ q \notin edited /\ settings'[q] = settings[q]
                                                 /\ \A r \in Routes : OwnerOf[r] = q => route'[r] = route[r]
    OBVIOUS
  <2> QED
    BY <1>0, <2>1, PlanRelied
<1>2. \A o \in Sessions : req[o].row \in Plan!Requests
  BY <1>0
<1>3. /\ request'.status = request.status /\ request'.day = request.day /\ request'.promoter = request.promoter
      /\ request'.escalated = request.escalated /\ request' \in Plan!Requests
  BY <1>0 DEF Plan!Requests
<1>4. Plan!TypeOK'
  <2>1. edits' \in 0..MaxEdits
    BY <1>0 DEF PlanSetting
  <2>2. edited' \subseteq Promoters
    BY <1>0
  <2> QED
    BY <1>0, <1>3, <2>1, <2>2, PlanTypes
<1>5. \A o \in Sessions : Planner(req'[o]) =>
                 /\ req'[o].row.status = "requested" /\ req'[o].row.day = req'[o].order.day
                 /\ RowRouted(req'[o].row) /\ RowPlanned(req'[o].row, option', settings', route', edited')
                 /\ ~overlapped' => /\ ~InForce(request') /\ req'[o].seen = order'
                                    /\ \A t \in Sessions : Planner(req'[t]) => t = o
  <2> SUFFICES ASSUME NEW o \in Sessions, Planner(req[o])
               PROVE  /\ req[o].row.status = "requested" /\ req[o].row.day = req[o].order.day
                      /\ RowRouted(req[o].row) /\ RowPlanned(req[o].row, option', settings', route', edited')
                      /\ ~overlapped => /\ ~InForce(request') /\ req[o].seen = order
                                        /\ \A t \in Sessions : Planner(req[t]) => t = o
    OBVIOUS
  <2>1. /\ req[o].row.status = "requested" /\ req[o].row.day = req[o].order.day
        /\ RowRouted(req[o].row) /\ RowPlanned(req[o].row, option, settings, route, edited)
        /\ ~overlapped => /\ ~InForce(request) /\ req[o].seen = order
                          /\ \A t \in Sessions : Planner(req[t]) => t = o
    BY PlanReads
  <2>2. RowPlanned(req[o].row, option', settings', route', edited')
    BY <1>1, <1>2, <2>1
  <2>3. InForce(request') <=> InForce(request)
    BY <1>3 DEF InForce
  <2> QED
    BY <2>1, <2>2, <2>3
<1>6. InForce(request') /\ ~overlapped' => order'.day = request'.day /\ order'.fee = quoted'
  <2>1. InForce(request) /\ ~overlapped => order.day = request.day /\ order.fee = quoted
    BY PlanReads
  <2> QED
    BY <1>3, <2>1 DEF InForce
<1>7. \A o \in Sessions : req'[o].op = "accept" =>
                 /\ lock' = o /\ request'.status = "requested" /\ req'[o].seen = order'
                 /\ req'[o].row.status = "accepted" /\ req'[o].row.promoter \in Promoters
                 /\ req'[o].row.route # NoRoute /\ OwnerOf[req'[o].row.route] = req'[o].row.promoter
                 /\ RowFits(req'[o].row, settings', route', edited')
                 /\ request'.escalated => req'[o].order = [order' EXCEPT !.day = req'[o].row.day]
                 /\ ~request'.escalated => req'[o].order = order' /\ req'[o].row.day = request'.day
  <2> SUFFICES ASSUME NEW o \in Sessions, req[o].op = "accept"
               PROVE  /\ lock = o /\ request'.status = "requested" /\ req[o].seen = order
                      /\ req[o].row.status = "accepted" /\ req[o].row.promoter \in Promoters
                      /\ req[o].row.route # NoRoute /\ OwnerOf[req[o].row.route] = req[o].row.promoter
                      /\ RowFits(req[o].row, settings', route', edited')
                      /\ request'.escalated => req[o].order = [order EXCEPT !.day = req[o].row.day]
                      /\ ~request'.escalated => req[o].order = order /\ req[o].row.day = request'.day
    OBVIOUS
  <2>1. /\ lock = o /\ request.status = "requested" /\ req[o].seen = order
        /\ req[o].row.status = "accepted" /\ req[o].row.promoter \in Promoters
        /\ req[o].row.route # NoRoute /\ OwnerOf[req[o].row.route] = req[o].row.promoter
        /\ RowFits(req[o].row, settings, route, edited)
        /\ request.escalated => req[o].order = [order EXCEPT !.day = req[o].row.day]
        /\ ~request.escalated => req[o].order = order /\ req[o].row.day = request.day
    BY PlanReads
  <2>2. RowFits(req[o].row, settings', route', edited')
    BY <1>1, <1>2, <2>1
  <2> QED
    BY <1>3, <2>1, <2>2
<1>8. CASE /\ request' = request
           /\ request.route # NoRoute /\ route[request.route] # "deleted" => route'[request.route] # "deleted"
  <2>1. request.status = "requested" =>
           /\ RowRouted(request) /\ RowPlanned(request, option', settings', route', edited')
           /\ request.route # NoRoute => route'[request.route] # "deleted"
    BY <1>0, <1>1, <1>8, PlanReads
  <2>2. request.status = "accepted" =>
           /\ request.route # NoRoute => /\ OwnerOf[request.route] = request.promoter
                                         /\ route'[request.route] # "deleted"
           /\ RowFits(request, settings', route', edited')
    BY <1>0, <1>1, <1>8, PlanReads
  <2> QED
    BY <1>4, <1>5, <1>6, <1>7, <1>8, <2>1, <2>2, PlanWrites
<1>9. CASE /\ request' = [request EXCEPT !.route = NoRoute] /\ lock = "free"
           /\ request.route # NoRoute /\ OwnerOf[request.route] = p
  <2>1. request'.route = NoRoute
    BY <1>0, <1>9 DEF Plan!Requests
  <2>2. InForce(request) => request.promoter = p
    BY <1>9, PlanReads DEF InForce, RowRouted
  <2>3. InForce(request) => RowPlanned(request', option', settings', route', edited')
                            /\ RowFits(request', settings', route', edited')
    BY <1>3, <2>2 DEF RowPlanned, RowFits
  <2>4. request.status = "requested" => RowRouted(request')
    BY <1>3, <2>1, PlanReads DEF RowRouted
  <2> QED
    BY <1>3, <1>4, <1>5, <1>6, <1>7, <2>1, <2>3, <2>4, PlanWrites DEF InForce
<1> QED
  BY <1>8, <1>9

LEMMA PlanSaves ==
    ASSUME PlanSetting, Plan!IInv, NEW p \in Promoters, Plan!SaveSettings(p)
    PROVE  Plan!IInv'
<1>0. settings \in [Promoters -> Choices] /\ route \in [Routes -> Plan!RouteStates]
  BY PlanTyped DEF Plan!IInv
<1>1. PICK c \in Choices : settings' = [settings EXCEPT ![p] = c]
  BY DEF Plan!SaveSettings
<1>2. /\ edits < MaxEdits /\ edits' = edits + 1 /\ edited' = edited \cup {p}
      /\ option' = option /\ deal' = deal /\ today' = today /\ order' = order /\ quoted' = quoted
      /\ req' = req /\ overlapped' = overlapped /\ route' = route /\ lock' = lock /\ request' = request
  BY DEF Plan!SaveSettings, Plan!Edit
<1>3. settings' \in [Promoters -> Choices] /\ \A q \in Promoters : q # p => settings'[q] = settings[q]
  BY <1>0, <1>1
<1> QED
  BY <1>0, <1>2, <1>3, PlanEdits

LEMMA PlanUpdates ==
    ASSUME PlanSetting, Plan!IInv, NEW r \in Routes, Plan!UpdateRoute(r)
    PROVE  Plan!IInv'
<1>0. settings \in [Promoters -> Choices] /\ route \in [Routes -> Plan!RouteStates] /\ request \in Plan!Requests
  BY PlanTyped DEF Plan!IInv
<1>1. PICK state \in {"inactive", "elsewhere", "covers"} : route' = [route EXCEPT ![r] = state]
  BY DEF Plan!UpdateRoute
<1>2. /\ edits < MaxEdits /\ edits' = edits + 1 /\ edited' = edited \cup {OwnerOf[r]}
      /\ option' = option /\ deal' = deal /\ today' = today /\ order' = order /\ quoted' = quoted
      /\ req' = req /\ overlapped' = overlapped /\ settings' = settings /\ lock' = lock /\ request' = request
  BY DEF Plan!UpdateRoute, Plan!Edit
<1>3. OwnerOf[r] \in Promoters
  BY DEF PlanSetting
<1>4. /\ route' \in [Routes -> Plan!RouteStates] /\ \A q \in Routes : OwnerOf[q] # OwnerOf[r] => route'[q] = route[q]
      /\ \A q \in Routes : route[q] # "deleted" => route'[q] # "deleted"
  BY <1>0, <1>1 DEF Plan!RouteStates
<1>5. request.route # NoRoute /\ route[request.route] # "deleted" => route'[request.route] # "deleted"
  BY <1>0, <1>4, PlanRows
<1> QED
  BY <1>0, <1>2, <1>3, <1>4, <1>5, PlanEdits

LEMMA PlanDeletes ==
    ASSUME PlanSetting, Plan!IInv, NEW r \in Routes, Plan!DeleteRoute(r)
    PROVE  Plan!IInv'
<1>0. settings \in [Promoters -> Choices] /\ route \in [Routes -> Plan!RouteStates] /\ request \in Plan!Requests
  BY PlanTyped DEF Plan!IInv
<1>1. /\ edits < MaxEdits /\ edits' = edits + 1 /\ edited' = edited \cup {OwnerOf[r]}
      /\ option' = option /\ deal' = deal /\ today' = today /\ order' = order /\ quoted' = quoted
      /\ req' = req /\ overlapped' = overlapped /\ settings' = settings /\ lock' = lock
      /\ route' = [route EXCEPT ![r] = "deleted"]
      /\ request.route = r => request' = [request EXCEPT !.route = NoRoute] /\ lock = "free"
      /\ request.route # r => request' = request
  BY DEF Plan!DeleteRoute, Plan!Edit
<1>2. OwnerOf[r] \in Promoters /\ r # NoRoute
  BY DEF PlanSetting
<1>3. /\ route' \in [Routes -> Plan!RouteStates] /\ \A q \in Routes : OwnerOf[q] # OwnerOf[r] => route'[q] = route[q]
      /\ \A q \in Routes : q # r => route'[q] = route[q]
  BY <1>0, <1>1 DEF Plan!RouteStates
<1>4. CASE request.route = r
  BY <1>0, <1>1, <1>2, <1>3, <1>4, PlanEdits
<1>5. CASE request.route # r
  <2>1. request.route # NoRoute /\ route[request.route] # "deleted" => route'[request.route] # "deleted"
    BY <1>0, <1>3, <1>5, PlanRows
  <2> QED
    BY <1>0, <1>1, <1>2, <1>3, <1>5, <2>1, PlanEdits
<1> QED
  BY <1>4, <1>5

LEMMA PlanWaits ==
    ASSUME PlanSetting, Plan!IInv, Plan!NextDay \/ UNCHANGED Plan!vars
    PROVE  Plan!IInv'
<1>0. /\ option \in {"route", "instant"} /\ deal \in Plan!Anyone /\ today \in 1..MaxDay
      /\ settings \in [Promoters -> Choices] /\ route \in [Routes -> Plan!RouteStates]
      /\ order \in Plan!Orders /\ request \in Plan!Requests /\ quoted \in Plan!Fees \cup {0}
      /\ lock \in Sessions \cup {"free"} /\ req \in [Sessions -> PlanHandlers]
      /\ edited \subseteq Promoters /\ edits \in 0..MaxEdits /\ overlapped \in BOOLEAN
  BY PlanTyped DEF Plan!IInv
<1>1. /\ UNCHANGED <<option, deal, settings, route, order, request, quoted, lock, req, edited, edits, overlapped>>
      /\ today' = today \/ (today < MaxDay /\ today' = today + 1)
  BY DEF Plan!NextDay, Plan!vars
<1>2. today' \in 1..MaxDay
  BY <1>0, <1>1 DEF PlanSetting
<1>3. Plan!TypeOK'
  BY <1>0, <1>1, <1>2, PlanTypes
<1> QED
  BY <1>1, <1>3, PlanReads, PlanWrites

LEMMA PlanStep ==
    ASSUME PlanSetting, Plan!IInv, Plan!Next
    PROVE  Plan!IInv'
<1>1. ASSUME Plan!Reject \/ Plan!Expire PROVE Plan!IInv'
  BY <1>1, PlanPassesOver DEF Plan!Reject, Plan!Expire
<1>2. ASSUME NEW s \in Sessions,
             \/ Plan!Plan(s) \/ Plan!InsertRequest(s) \/ Plan!CommitAccept(s) \/ Plan!Abandon(s)
             \/ \E p \in Promoters, r \in Routes : Plan!Accept(s, p, r)
      PROVE  Plan!IInv'
  BY <1>2, PlanPlans, PlanInserts, PlanCommits, PlanAbandons, PlanAccepts
<1>3. ASSUME NEW p \in Promoters, Plan!SaveSettings(p) PROVE Plan!IInv'
  BY <1>3, PlanSaves
<1>4. ASSUME NEW r \in Routes, Plan!UpdateRoute(r) \/ Plan!DeleteRoute(r) PROVE Plan!IInv'
  BY <1>4, PlanUpdates, PlanDeletes
<1> QED
  BY <1>1, <1>2, <1>3, <1>4, PlanWaits DEF Plan!Next

-----------------------------------------------------------------------------
(* Archives of areas: the layers that are taken are what their columns say, *)
(* and what is accepted of them is what was read.                          *)
CONSTANTS Files, Imports, Manual
VARIABLES areas, file, at, chosen, held, log
Areas == INSTANCE GeographyImport

SourceSetting == \A f \in Files : \A l \in f : Len(l.rows) \in Nat /\ DOMAIN l.rows = 1..Len(l.rows)

LEMMA AreasByCardinality ==
    ASSUME NEW S
    PROVE  Areas!Cardinality(S) = Cardinality(S)
  BY DEF Areas!Cardinality, Cardinality

LEMMA SourceBegins ==
    ASSUME Areas!SourceInit
    PROVE  Areas!SourceIInv
<1>1. file \in Files /\ at = "detect" /\ DOMAIN chosen = {}
  BY DEF Areas!SourceInit
<1> QED
  BY <1>1 DEF Areas!SourceIInv, Areas!SourceTypeOK, Areas!Recognised

\* What was taken and read stays as it is.
LEMMA SourceKeeps ==
    ASSUME Areas!SourceIInv, file' = file, chosen' = chosen, areas' = areas,
           at' \in {"detect", "read", "validate", "accepted", "refused"},
           at' \in {"validate", "accepted"} => at \in {"validate", "accepted"},
           at' = "accepted" => Areas!Valid
    PROVE  Areas!SourceIInv'
<1>1. Areas!SourceTypeOK'
  BY DEF Areas!SourceIInv, Areas!SourceTypeOK
<1>2. /\ Areas!Readable' = Areas!Readable /\ Areas!Read' = Areas!Read
      /\ Areas!Derivable' = Areas!Derivable /\ Areas!Derived' = Areas!Derived /\ Areas!Valid' = Areas!Valid
  BY DEF Areas!Readable, Areas!Read, Areas!Derivable, Areas!Derived, Areas!Valid, Areas!StateRows, Areas!CodesOf,
         Areas!Rows, Areas!StateCodes, Areas!MergedTaluk
<1>3. Areas!Recognised'
  BY <1>2 DEF Areas!SourceIInv, Areas!Recognised
<1> QED
  BY <1>1, <1>3 DEF Areas!SourceIInv

\* A layer is selected of the candidates.
LEMMA SourceSelects ==
    ASSUME NEW as
    PROVE  Areas!Selectable(as) \subseteq Areas!Candidates(as)
<1>1. Areas!Named(as) \subseteq Areas!Candidates(as)
  BY DEF Areas!Named
<1>2. Areas!Selectable(as) \in {Areas!Candidates(as), Areas!Named(as), {}}
  BY DEF Areas!Selectable
<1> QED
  BY <1>1, <1>2

LEMMA SourceTakes ==
    ASSUME Areas!SourceIInv, NEW as \in SUBSET (Areas!Levels \cup {"village"}), Areas!Take(as),
           \A a \in as : Areas!Selectable(a) # {}
    PROVE  Areas!SourceIInv'
<1>1. /\ chosen' = [a \in as |-> CHOOSE l \in Areas!Selectable(a) : TRUE]
      /\ at' = "read" /\ file' = file
  BY DEF Areas!Take
<1>2. DOMAIN chosen' = as
  BY <1>1
<1>3. \A a \in as : chosen'[a] \in file /\ Areas!Accepted(chosen'[a], a)
  <2> SUFFICES ASSUME NEW a \in as PROVE chosen'[a] \in Areas!Candidates(a)
    BY DEF Areas!Candidates
  <2>1. chosen'[a] \in Areas!Selectable(a)
    BY <1>1
  <2> QED
    BY <2>1, SourceSelects
<1>4. Areas!SourceTypeOK'
  BY <1>1, <1>2, <1>3 DEF Areas!SourceIInv, Areas!SourceTypeOK
<1>5. Areas!Recognised'
  BY <1>1, <1>2, <1>3 DEF Areas!Recognised
<1> QED
  BY <1>4, <1>5 DEF Areas!SourceIInv

LEMMA SourceStep ==
    ASSUME Areas!SourceIInv, Areas!SourceNext
    PROVE  Areas!SourceIInv'
<1>1. ASSUME Areas!Refuse PROVE Areas!SourceIInv'
  <2>1. at' = "refused" /\ file' = file /\ chosen' = chosen /\ areas' = areas
    BY <1>1 DEF Areas!Refuse
  <2> QED
    BY <2>1, SourceKeeps
<1>2. CASE Areas!Detect
  <2>1. \/ Areas!Refuse
        \/ (\A l \in Areas!Levels : Areas!Selectable(l) # {}) /\ Areas!Take(Areas!Levels)
        \/ Areas!Selectable("village") # {} /\ Areas!Take({"village"})
    BY <1>2 DEF Areas!Detect
  <2> QED
    BY <1>1, <2>1, SourceTakes
<1>3. CASE Areas!ReadDirect
  <2>1. CASE Areas!Refuse
    BY <1>1, <2>1
  <2>2. CASE ~Areas!Refuse
    <3>1. /\ DOMAIN chosen = Areas!Levels /\ Areas!Readable /\ areas' = Areas!Read
          /\ at' = "validate" /\ file' = file /\ chosen' = chosen
      BY <1>3, <2>2 DEF Areas!ReadDirect
    <3>2. Areas!Readable' = Areas!Readable /\ Areas!Read' = Areas!Read
      BY <3>1 DEF Areas!Readable, Areas!Read, Areas!Rows, Areas!StateCodes
    <3>3. Areas!SourceTypeOK' /\ Areas!Recognised'
      BY <3>1, <3>2 DEF Areas!SourceIInv, Areas!SourceTypeOK, Areas!Recognised
    <3> QED
      BY <3>3 DEF Areas!SourceIInv
  <2> QED
    BY <2>1, <2>2
<1>4. CASE Areas!Derive
  <2>1. CASE Areas!Refuse
    BY <1>1, <2>1
  <2>2. CASE ~Areas!Refuse
    <3>1. /\ DOMAIN chosen = {"village"} /\ Areas!Derivable /\ areas' = Areas!Derived
          /\ at' = "validate" /\ file' = file /\ chosen' = chosen
      BY <1>4, <2>2 DEF Areas!Derive
    <3>2. Areas!Derivable' = Areas!Derivable /\ Areas!Derived' = Areas!Derived
      <4>1. chosen' = chosen
        BY <3>1
      <4> QED
        BY <4>1 DEF Areas!Derivable, Areas!Derived, Areas!Rows, Areas!MergedTaluk
    <3>3. Areas!SourceTypeOK' /\ Areas!Recognised'
      BY <3>1, <3>2 DEF Areas!SourceIInv, Areas!SourceTypeOK, Areas!Recognised
    <3> QED
      BY <3>3 DEF Areas!SourceIInv
  <2> QED
    BY <2>1, <2>2
<1>5. CASE Areas!Validate
  <2>1. \/ Areas!Refuse
        \/ at = "validate" /\ Areas!Valid /\ at' = "accepted" /\ file' = file /\ chosen' = chosen /\ areas' = areas
    BY <1>5 DEF Areas!Validate
  <2> QED
    BY <1>1, <2>1, SourceKeeps
<1> QED
  BY <1>2, <1>3, <1>4, <1>5 DEF Areas!SourceNext

LEMMA SourceStands ==
    ASSUME Areas!SourceIInv, UNCHANGED Areas!sourceVars
    PROVE  Areas!SourceIInv'
<1>1. file' = file /\ at' = at /\ chosen' = chosen /\ areas' = areas
  BY DEF Areas!sourceVars
<1>2. at \in {"detect", "read", "validate", "accepted", "refused"} /\ (at = "accepted" => Areas!Valid)
  BY DEF Areas!SourceIInv, Areas!SourceTypeOK, Areas!Recognised
<1> QED
  BY <1>1, <1>2, SourceKeeps

\* No reader looks for a column that the layer was not recognised by.
LEMMA SourceColumns ==
    ASSUME Areas!SourceIInv
    PROVE  Areas!ColumnsPresent
<1> SUFFICES ASSUME NEW as \in DOMAIN chosen PROVE Areas!Reads[as] \subseteq Areas!Fields(chosen[as])
  BY DEF Areas!ColumnsPresent
<1>1. as \in Areas!Levels \cup {"village"} /\ Areas!Accepted(chosen[as], as)
  BY DEF Areas!SourceIInv, Areas!SourceTypeOK, Areas!Recognised
<1>2. CASE as = "village"
  <2>1. Areas!IsVillages(chosen[as])
    BY <1>1, <1>2 DEF Areas!Accepted, Areas!Levels
  <2> QED
    BY <1>2, <2>1 DEF Areas!IsVillages, Areas!Reads
<1>3. CASE as \in Areas!Levels
  <2>1. Areas!Required[as] \subseteq Areas!Fields(chosen[as])
    BY <1>1, <1>3 DEF Areas!Accepted, Areas!IsAdmin, Areas!Levels
  <2>2. Areas!Reads[as] \subseteq Areas!Required[as]
    BY <1>3 DEF Areas!Levels, Areas!Reads, Areas!Required
  <2> QED
    BY <2>1, <2>2
<1> QED
  BY <1>1, <1>2, <1>3

\* Areas of different codes are as many as their codes.
LEMMA AreasCounted ==
    ASSUME NEW S, IsFiniteSet(S), \A a, b \in S : a.code = b.code => a = b
    PROVE  Cardinality({a.code : a \in S}) = Cardinality(S)
<1> DEFINE T == {a.code : a \in S}
           f == [a \in S |-> a.code]
<1>1. f \in Bijection(S, T)
  <2>1. f \in [S -> T] /\ \A a \in S : f[a] = a.code
    OBVIOUS
  <2>2. \A c \in T : \E a \in S : f[a] = c
    BY <2>1
  <2>3. \A a, b \in S : f[a] = f[b] => a = b
    BY <2>1
  <2> HIDE DEF f, T
  <2> QED
    BY <2>1, <2>2, <2>3 DEF Bijection, Injection, Surjection, IsInjective
<1>2. ExistsBijection(S, T)
  BY <1>1 DEF ExistsBijection
<1> HIDE DEF T
<1>3. Cardinality(T) = Cardinality(S)
  BY <1>2, FS_Bijection
<1> QED
  BY <1>3 DEF T

\* Rows of different codes are as many as what is read of them.
LEMMA RowsCounted ==
    ASSUME NEW n \in Nat, NEW C, NEW c \in Surjection(1..n, C), Cardinality(C) = n,
           NEW S, NEW a \in Surjection(1..n, S), \A i \in 1..n : a[i].code = c[i]
    PROVE  /\ IsFiniteSet(S) /\ Cardinality(S) = n
           /\ \A x, y \in S : x.code = y.code => x = y
<1> DEFINE I == 1..n
<1>1. IsFiniteSet(I) /\ Cardinality(I) = n
  <2>1. Cardinality(1..n) = (IF 1 > n THEN 0 ELSE n - 1 + 1) /\ IsFiniteSet(1..n)
    BY FS_Interval
  <2> QED
    BY <2>1
<1>2. \A i \in I : a[i].code = c[i]
  OBVIOUS
<1>3. c \in Surjection(I, C) /\ a \in Surjection(I, S)
  OBVIOUS
<1> HIDE DEF I
<1>4. c \in Injection(I, C)
  BY <1>1, <1>3, FS_SurjSameCardinalityImpliesInj
<1>5. \A i, j \in I : c[i] = c[j] => i = j
  BY <1>4 DEF Injection, IsInjective
<1>6. a \in [I -> S] /\ \A x \in S : \E i \in I : a[i] = x
  BY <1>3 DEF Surjection
<1>7. \A x, y \in S : x.code = y.code => x = y
  <2> SUFFICES ASSUME NEW x \in S, NEW y \in S, x.code = y.code PROVE x = y
    OBVIOUS
  <2>1. PICK i \in I : a[i] = x
    BY <1>6
  <2>2. PICK j \in I : a[j] = y
    BY <1>6
  <2>3. c[i] = c[j]
    BY <1>2, <2>1, <2>2
  <2> QED
    BY <1>5, <2>1, <2>2, <2>3
<1>8. a \in Bijection(I, S)
  <2>1. \A i, j \in I : a[i] = a[j] => i = j
    BY <1>2, <1>5
  <2> QED
    BY <1>3, <1>6, <2>1 DEF Bijection, Injection, IsInjective
<1>9. ExistsBijection(I, S)
  BY <1>8 DEF ExistsBijection
<1>10. IsFiniteSet(S) /\ Cardinality(S) = n
  BY <1>1, <1>9, FS_Bijection
<1> QED
  BY <1>7, <1>10

\* A layer of districts or of taluks has a code of its own in each row.
RowAreas(l, code, parent) == {Areas!Area(r[code], r[parent]) : r \in Areas!Rows(l)}

LEMMA SourceLayer ==
    ASSUME SourceSetting, Areas!SourceIInv, NEW l \in {"district", "taluk"}, l \in DOMAIN chosen, NEW parent
    PROVE  /\ IsFiniteSet(RowAreas(l, Areas!CodeField[l], parent))
           /\ Cardinality(RowAreas(l, Areas!CodeField[l], parent)) = Len(chosen[l].rows)
           /\ \A a, b \in RowAreas(l, Areas!CodeField[l], parent) : a.code = b.code => a = b
<1> DEFINE code == Areas!CodeField[l]
           items == chosen[l].rows
           n == Len(items)
           C == {items[i][code] : i \in 1..n}
           S == {Areas!Area(items[i][code], items[i][parent]) : i \in 1..n}
           c == [i \in 1..n |-> items[i][code]]
           a == [i \in 1..n |-> Areas!Area(items[i][code], items[i][parent])]
<1>1. chosen[l] \in file /\ file \in Files /\ Areas!Accepted(chosen[l], l)
  BY DEF Areas!SourceIInv, Areas!SourceTypeOK, Areas!Recognised
<1>2. n \in Nat /\ DOMAIN items = 1..n
  BY <1>1 DEF SourceSetting
<1>3. Areas!IsAdmin(chosen[l], l)
  BY <1>1 DEF Areas!Accepted
<1>4. code \in Areas!Fields(chosen[l])
  <2>1. Areas!Required[l] \subseteq Areas!Fields(chosen[l])
    BY <1>3 DEF Areas!IsAdmin
  <2>2. code \in Areas!Required[l]
    BY DEF Areas!Required, Areas!CodeField
  <2> QED
    BY <2>1, <2>2
<1>5. Areas!Cardinality(Areas!CodesIn(chosen[l], code)) = n
  <2>1. Areas!Unique(chosen[l], code)
    BY <1>3, <1>4 DEF Areas!IsAdmin
  <2> QED
    BY <2>1 DEF Areas!Unique
<1>6. Areas!CodesIn(chosen[l], code) = C
  BY <1>2 DEF Areas!CodesIn
<1>7. Cardinality(C) = n
  BY <1>5, <1>6, AreasByCardinality
<1>8. S = RowAreas(l, code, parent)
  <2>1. Areas!Rows(l) = {items[i] : i \in 1..n}
    BY <1>2 DEF Areas!Rows
  <2> HIDE DEF items, n, code
  <2> QED
    BY <2>1 DEF RowAreas
<1>9. c \in Surjection(1..n, C)
  BY DEF Surjection
<1>10. a \in Surjection(1..n, S)
  BY DEF Surjection
<1>11. \A i \in 1..n : a[i].code = c[i]
  BY DEF Areas!Area
<1> HIDE DEF a, c, C, S
<1>12. /\ IsFiniteSet(S) /\ Cardinality(S) = n
       /\ \A x, y \in S : x.code = y.code => x = y
  <2> HIDE DEF n
  <2> QED
    BY <1>2, <1>7, <1>9, <1>10, <1>11, RowsCounted
<1> QED
  BY <1>8, <1>12

LEMMA AreasLevels ==
    /\ Areas!Levels = {"state", "district", "taluk"}
    /\ DOMAIN Areas!ParentLevel = {"district", "taluk", "village"}
    /\ Areas!ParentLevel["district"] = "state" /\ Areas!ParentLevel["taluk"] = "district"
    /\ Areas!ParentLevel["village"] = "taluk"
    /\ Areas!CodeField["district"] = "district_lgd" /\ Areas!CodeField["taluk"] = "taluk_lgd"
    /\ \A c, p : Areas!Area(c, p).code = c /\ Areas!Area(c, p).parent = p
  BY DEF Areas!Levels, Areas!ParentLevel, Areas!CodeField, Areas!Area

\* Each level has no code twice, and every area is in one of the level above.
LEMMA SourceTree ==
    ASSUME DOMAIN areas = {"state", "district", "taluk", "village"},
           IsFiniteSet(areas["state"]), IsFiniteSet(areas["district"]), IsFiniteSet(areas["taluk"]), IsFiniteSet(areas["village"]),
           Cardinality(areas["state"]) = 1,
           \A l \in {"state", "district", "taluk", "village"} : \A a, b \in areas[l] : a.code = b.code => a = b,
           \A a \in areas["district"] : a.parent \in Areas!CodesOf("state"),
           \A a \in areas["taluk"] : a.parent \in Areas!CodesOf("district"),
           \A a \in areas["village"] : a.parent \in Areas!CodesOf("taluk")
    PROVE  Areas!AcceptedIsTree
<1>1. Areas!Cardinality(areas.state) = 1
  BY AreasByCardinality
<1>2. ASSUME NEW l \in DOMAIN areas PROVE Areas!Cardinality(Areas!CodesOf(l)) = Areas!Cardinality(areas[l])
  <2>1. IsFiniteSet(areas[l]) /\ \A a, b \in areas[l] : a.code = b.code => a = b
    BY <1>2
  <2>2. Cardinality({a.code : a \in areas[l]}) = Cardinality(areas[l])
    BY <2>1, AreasCounted
  <2> QED
    BY <2>2, AreasByCardinality DEF Areas!CodesOf
<1>3. \A l \in DOMAIN Areas!ParentLevel : \A a \in areas[l] : a.parent \in Areas!CodesOf(Areas!ParentLevel[l])
  BY AreasLevels
<1> QED
  BY <1>1, <1>2, <1>3 DEF Areas!AcceptedIsTree

LEMMA SourceDirect ==
    ASSUME SourceSetting, Areas!SourceIInv, at = "accepted", DOMAIN chosen = Areas!Levels,
           Areas!Readable, areas = Areas!Read
    PROVE  Areas!AcceptedIsTree /\ Areas!RowsPlaced
<1> USE AreasLevels
<1> DEFINE blank == ""
<1>1. /\ areas["state"] = {Areas!Area(c, blank) : c \in Areas!StateCodes}
      /\ areas["district"] = {Areas!Area(r["district_lgd"], r["state_lgd"]) : r \in Areas!Rows("district")}
      /\ areas["taluk"] = {Areas!Area(r["taluk_lgd"], r["district_lgd"]) : r \in Areas!Rows("taluk")}
      /\ areas["village"] = {} /\ DOMAIN areas = {"state", "district", "taluk", "village"}
  BY Zenon DEF Areas!Read, Areas!NoAreas, Areas!Levels
<1> HIDE DEF blank
<1>2. Areas!StateRows = 1 /\ \A t \in areas["taluk"] : t.parent \in Areas!CodesOf("district")
  BY DEF Areas!SourceIInv, Areas!Recognised, Areas!Valid
<1>3. Len(chosen["state"].rows) = 1
  BY <1>2 DEF Areas!StateRows
<1>4. PICK c : Areas!StateCodes = {c}
  <2>1. chosen["state"] \in file /\ file \in Files
    BY DEF Areas!SourceIInv, Areas!SourceTypeOK
  <2>2. DOMAIN chosen["state"].rows = 1..1
    BY <1>3, <2>1 DEF SourceSetting
  <2>3. Areas!CodesIn(chosen["state"], "state_lgd") = {chosen["state"].rows[1]["state_lgd"]}
    BY <2>2 DEF Areas!CodesIn
  <2> QED
    BY <2>3 DEF Areas!StateCodes
<1>5. areas["state"] = {Areas!Area(c, blank)}
  BY <1>1, <1>4
<1>6. IsFiniteSet(areas["state"]) /\ Cardinality(areas["state"]) = 1
  <2> DEFINE x == Areas!Area(c, blank)
  <2>1. areas["state"] = {x}
    BY <1>5
  <2> HIDE DEF x
  <2>2. IsFiniteSet({x}) /\ Cardinality({x}) = 1
    BY FS_Singleton
  <2> QED
    BY <2>1, <2>2
<1>7. /\ IsFiniteSet(areas["district"]) /\ Cardinality(areas["district"]) = Len(chosen["district"].rows)
      /\ \A a, b \in areas["district"] : a.code = b.code => a = b
  <2>1. areas["district"] = RowAreas("district", Areas!CodeField["district"], "state_lgd")
    BY <1>1 DEF RowAreas
  <2> QED
    BY <2>1, SourceLayer
<1>8. /\ IsFiniteSet(areas["taluk"]) /\ Cardinality(areas["taluk"]) = Len(chosen["taluk"].rows)
      /\ \A a, b \in areas["taluk"] : a.code = b.code => a = b
  <2>1. areas["taluk"] = RowAreas("taluk", Areas!CodeField["taluk"], "district_lgd")
    BY <1>1 DEF RowAreas
  <2> QED
    BY <2>1, SourceLayer
<1>9. \A a \in areas["district"] : a.parent \in Areas!CodesOf("state")
  <2>1. Areas!CodesOf("state") = Areas!StateCodes
    BY <1>4, <1>5 DEF Areas!CodesOf
  <2>2. \A r \in Areas!Rows("district") : r["state_lgd"] \in Areas!StateCodes
    BY DEF Areas!Readable
  <2> QED
    BY <1>1, <2>1, <2>2
<1>10. Areas!AcceptedIsTree
  <2>1. IsFiniteSet(areas["village"]) /\ \A a \in areas["village"] : a.parent \in Areas!CodesOf("taluk")
    BY <1>1, FS_EmptySet
  <2>2. \A l \in {"state", "district", "taluk", "village"} : \A a, b \in areas[l] : a.code = b.code => a = b
    BY <1>1, <1>5, <1>7, <1>8
  <2> QED
    BY <1>1, <1>2, <1>6, <1>7, <1>8, <1>9, <2>1, <2>2, SourceTree
<1>11. Areas!RowsPlaced
  <2>1. \A l \in Areas!Levels : Cardinality(areas[l]) = Len(chosen[l].rows)
    BY <1>3, <1>6, <1>7, <1>8
  <2>2. \A l \in Areas!Levels : Areas!Cardinality(areas[l]) = Len(chosen[l].rows)
    BY <2>1, AreasByCardinality
  <2>3. "village" \notin DOMAIN chosen
    OBVIOUS
  <2> QED
    BY <2>2, <2>3 DEF Areas!RowsPlaced
<1> QED
  BY <1>10, <1>11

LEMMA SourceDerived ==
    ASSUME SourceSetting, Areas!SourceIInv, at = "accepted", DOMAIN chosen = {"village"},
           Areas!Derivable, areas = Areas!Derived
    PROVE  Areas!AcceptedIsTree /\ Areas!RowsPlaced
<1> USE AreasLevels
<1> DEFINE items == chosen["village"].rows
           R == Areas!Rows("village")
           n == Len(items)
           blank == ""
           V == Areas!CodesIn(chosen["village"], "village_lgd") \ {blank}
<1>1. /\ areas["state"] = {Areas!Area(r["state_lgd"], blank) : r \in R}
      /\ areas["district"] = {Areas!Area(r["district_lgd"], r["state_lgd"]) : r \in R}
      /\ areas["taluk"] = {Areas!Area(r["taluk_lgd"], r["district_lgd"]) : r \in R}
      /\ areas["village"] = {Areas!Area(c, Areas!MergedTaluk(c)) : c \in V}
      /\ DOMAIN areas = {"state", "district", "taluk", "village"}
  BY Zenon DEF Areas!Derived
<1> HIDE DEF blank
<1>2. /\ \A r, q \in R : r["taluk_lgd"] = q["taluk_lgd"] => r["district_lgd"] = q["district_lgd"]
      /\ \A r, q \in R : r["district_lgd"] = q["district_lgd"] => r["state_lgd"] = q["state_lgd"]
  BY Zenon DEF Areas!Derivable, Areas!SingleParent
<1>3. n \in Nat /\ DOMAIN items = 1..n
  <2>1. chosen["village"] \in file /\ file \in Files
    BY DEF Areas!SourceIInv, Areas!SourceTypeOK
  <2> QED
    BY <2>1 DEF SourceSetting
<1>4. R = {items[i] : i \in 1..n}
  BY <1>3 DEF Areas!Rows
<1>5. IsFiniteSet(1..n)
  BY <1>3, FS_Interval
<1> DEFINE f == [i \in 1..n |-> items[i]]
<1>6. IsFiniteSet(R)
  <2>1. f \in Surjection(1..n, R)
    BY <1>4 DEF Surjection
  <2> HIDE DEF f, R
  <2> QED
    BY <1>5, <2>1, FS_Surjection
<1>7. V = {r["village_lgd"] : r \in R} \ {blank}
  BY <1>3, <1>4 DEF Areas!CodesIn
<1>8. IsFiniteSet(V)
  <2> DEFINE T == {r["village_lgd"] : r \in R}
             g == [r \in R |-> r["village_lgd"]]
  <2>1. g \in Surjection(R, T)
    BY DEF Surjection
  <2>2. IsFiniteSet(T)
    <3> HIDE DEF g, T, R
    <3> QED
      BY <1>6, <2>1, FS_Surjection
  <2>3. V \subseteq T
    BY <1>7
  <2> HIDE DEF T, V
  <2> QED
    BY <2>2, <2>3, FS_Subset
<1>9. ASSUME NEW S, NEW X, IsFiniteSet(X), NEW h, DOMAIN h = X, S = {h[x] : x \in X} PROVE IsFiniteSet(S)
  <2>1. [x \in X |-> h[x]] \in Surjection(X, S)
    BY <1>9 DEF Surjection
  <2> QED
    BY <1>9, <2>1, FS_Surjection
<1> HIDE DEF R, V, f
<1>10. IsFiniteSet(areas["state"])
  <2> DEFINE h == [r \in R |-> Areas!Area(r["state_lgd"], blank)]
  <2>1. DOMAIN h = R /\ areas["state"] = {h[r] : r \in R}
    BY <1>1
  <2> HIDE DEF h
  <2> QED
    BY <1>6, <1>9, <2>1
<1>11. IsFiniteSet(areas["district"])
  <2> DEFINE h == [r \in R |-> Areas!Area(r["district_lgd"], r["state_lgd"])]
  <2>1. DOMAIN h = R /\ areas["district"] = {h[r] : r \in R}
    BY <1>1
  <2> HIDE DEF h
  <2> QED
    BY <1>6, <1>9, <2>1
<1>12. IsFiniteSet(areas["taluk"])
  <2> DEFINE h == [r \in R |-> Areas!Area(r["taluk_lgd"], r["district_lgd"])]
  <2>1. DOMAIN h = R /\ areas["taluk"] = {h[r] : r \in R}
    BY <1>1
  <2> HIDE DEF h
  <2> QED
    BY <1>6, <1>9, <2>1
<1>13. IsFiniteSet(areas["village"])
  <2> DEFINE h == [c \in V |-> Areas!Area(c, Areas!MergedTaluk(c))]
  <2>1. DOMAIN h = V /\ areas["village"] = {h[c] : c \in V}
    BY <1>1
  <2> HIDE DEF h
  <2> QED
    BY <1>8, <1>9, <2>1
<1>14. Cardinality(areas["state"]) = 1 /\ \A t \in areas["taluk"] : t.parent \in Areas!CodesOf("district")
  <2>1. Areas!StateRows = Areas!Cardinality(areas["state"])
    BY DEF Areas!StateRows
  <2>2. Areas!StateRows = 1 /\ \A t \in areas["taluk"] : t.parent \in Areas!CodesOf("district")
    BY DEF Areas!SourceIInv, Areas!Recognised, Areas!Valid
  <2> QED
    BY <2>1, <2>2, AreasByCardinality
\* A village of several parts is in the taluk of the first.
<1>15. ASSUME NEW c \in V PROVE \E q \in R : q["village_lgd"] = c /\ Areas!MergedTaluk(c) = q["taluk_lgd"]
  <2> DEFINE parts == {i \in DOMAIN items : items[i].village_lgd = c}
             first == CHOOSE i \in parts : \A j \in parts : i <= j
  <2>1. Areas!MergedTaluk(c) = items[first].taluk_lgd
    BY DEF Areas!MergedTaluk
  <2>2. parts # {} /\ parts \subseteq Nat
    <3>1. PICK r \in R : c = r["village_lgd"]
      BY <1>7
    <3>2. PICK i \in 1..n : r = items[i]
      BY <1>4
    <3>3. 1..n \subseteq Nat
      BY <1>3
    <3> QED
      BY <1>3, <3>1, <3>2, <3>3
  <2>3. first \in parts
    <3>1. \E i \in parts : \A j \in parts : i <= j
      <4> HIDE DEF parts
      <4> QED
        BY <2>2, LeastNatural
    <3> HIDE DEF parts
    <3> QED
      BY <3>1
  <2>4. items[first] \in R /\ items[first].village_lgd = c
    <3> HIDE DEF first
    <3> QED
      BY <1>3, <1>4, <2>3
  <2> QED
    BY <2>1, <2>4
<1>16. \A l \in {"state", "district", "taluk", "village"} : \A a, b \in areas[l] : a.code = b.code => a = b
  <2>1. \A a, b \in areas["state"] : a.code = b.code => a = b
    BY <1>1
  <2>2. \A a, b \in areas["district"] : a.code = b.code => a = b
    BY <1>1, <1>2
  <2>3. \A a, b \in areas["taluk"] : a.code = b.code => a = b
    BY <1>1, <1>2
  <2>4. \A a, b \in areas["village"] : a.code = b.code => a = b
    BY <1>1
  <2> QED
    BY <2>1, <2>2, <2>3, <2>4
<1>17. \A a \in areas["district"] : a.parent \in Areas!CodesOf("state")
  <2>1. \A r \in R : r["state_lgd"] \in Areas!CodesOf("state")
    BY <1>1 DEF Areas!CodesOf
  <2> QED
    BY <1>1, <2>1
<1>18. \A a \in areas["village"] : a.parent \in Areas!CodesOf("taluk")
  <2>1. \A r \in R : r["taluk_lgd"] \in Areas!CodesOf("taluk")
    <3>1. \A r \in R : Areas!Area(r["taluk_lgd"], r["district_lgd"]) \in areas["taluk"]
      BY <1>1
    <3>2. \A a \in areas["taluk"] : a.code \in Areas!CodesOf("taluk")
      BY DEF Areas!CodesOf
    <3> QED
      BY <3>1, <3>2
  <2>2. \A c \in V : Areas!MergedTaluk(c) \in Areas!CodesOf("taluk")
    BY <1>15, <2>1
  <2> QED
    BY <1>1, <2>2
<1>19. Areas!AcceptedIsTree
  BY <1>1, <1>10, <1>11, <1>12, <1>13, <1>14, <1>16, <1>17, <1>18, SourceTree
<1>20. Areas!RowsPlaced
  <2>1. ASSUME NEW r \in R, r["village_lgd"] # blank
        PROVE  \E q \in R : /\ q["village_lgd"] = r["village_lgd"]
                            /\ Areas!Area(r["village_lgd"], q["taluk_lgd"]) \in areas["village"]
    <3>1. r["village_lgd"] \in V
      BY <1>7, <2>1
    <3>2. PICK q \in R : q["village_lgd"] = r["village_lgd"] /\ Areas!MergedTaluk(r["village_lgd"]) = q["taluk_lgd"]
      BY <1>15, <3>1
    <3> QED
      BY <1>1, <3>1, <3>2
  <2>2. \A r \in R : /\ Areas!Area(r["taluk_lgd"], r["district_lgd"]) \in areas["taluk"]
                     /\ Areas!Area(r["district_lgd"], r["state_lgd"]) \in areas["district"]
    BY <1>1
  <2>3. DOMAIN chosen \cap Areas!Levels = {}
    OBVIOUS
  <2> QED
    BY Zenon, <2>1, <2>2, <2>3 DEF Areas!RowsPlaced, R, blank
<1> QED
  BY <1>19, <1>20

LEMMA SourceGood ==
    ASSUME SourceSetting, Areas!SourceIInv
    PROVE  Areas!ColumnsPresent /\ Areas!AcceptedIsTree /\ Areas!RowsPlaced
<1>1. CASE at = "accepted"
  BY <1>1, SourceColumns, SourceDirect, SourceDerived DEF Areas!SourceIInv, Areas!Recognised
<1>2. CASE at # "accepted"
  BY <1>2, SourceColumns DEF Areas!AcceptedIsTree, Areas!RowsPlaced
<1> QED
  BY <1>1, <1>2

-----------------------------------------------------------------------------
(* Imports of areas: each writes its areas in an order of its own, but for *)
(* the first, and holds what it has written until it commits.              *)

ImportSetting ==
    /\ NoSession \notin Sessions /\ <<>> \notin Imports
    /\ \A i \in Imports :
          /\ Len(i) \in Nat /\ DOMAIN i = 1..Len(i)
          /\ \A k \in DOMAIN i : i[k].point # "absent" /\ i[k].code # ""
    /\ \A i, j \in Imports : 1 \in DOMAIN i /\ i[1].code = j[1].code

ImportHandlers ==
    [op: {"idle", "import", "add"}, at: {"idle", "write", "log", "failed"},
     import: Imports \cup {<<>>}, next: Nat, code: Manual \cup {""},
     point: Areas!Points \cup {"nowhere"}]

\* What an import brings.
Brings(i) == {i[k].code : k \in DOMAIN i}

LEMMA ImportTyped ==
    ASSUME Areas!ImportTypeOK
    PROVE  /\ areas \in [Areas!Codes -> Areas!Points \cup {"nowhere", "absent"}]
           /\ held \in [Areas!Codes -> Sessions \cup {NoSession}]
           /\ log \in [Imports -> {"", "started", "failed", "completed"}]
           /\ req \in [Sessions -> ImportHandlers] /\ crossed \in BOOLEAN
  BY DEF Areas!ImportTypeOK, ImportHandlers, Areas!Nowhere, Areas!Absent

LEMMA ImportTypes ==
    ASSUME areas' \in [Areas!Codes -> Areas!Points \cup {"nowhere", "absent"}],
           held' \in [Areas!Codes -> Sessions \cup {NoSession}],
           log' \in [Imports -> {"", "started", "failed", "completed"}],
           req' \in [Sessions -> ImportHandlers], crossed' \in BOOLEAN
    PROVE  Areas!ImportTypeOK'
  BY DEF Areas!ImportTypeOK, ImportHandlers, Areas!Nowhere, Areas!Absent

LEMMA ImportRows ==
    ASSUME ImportSetting, NEW i \in Imports
    PROVE  /\ Areas!ToSet(i) = {i[k] : k \in DOMAIN i} /\ Len(i) \in Nat /\ DOMAIN i = 1..Len(i) /\ 1 \in DOMAIN i
           /\ \A k \in DOMAIN i : /\ i[k].code \in Areas!Codes /\ i[k].code \in Brings(i)
                                  /\ i[k].point \in Areas!Points \cup {"nowhere"}
           /\ Brings(i) \subseteq Areas!Codes
           /\ \A c \in Brings(i) : /\ Areas!PointIn(i, c) \in Areas!Points \cup {"nowhere"}
                                   /\ Areas!PointIn(i, c) # "absent"
<1>1. Areas!ToSet(i) = {i[k] : k \in DOMAIN i}
  BY DEF Areas!ToSet
<1>2. \A k \in DOMAIN i : i[k] \in Areas!Written
  BY <1>1 DEF Areas!Written
<1>3. \A k \in DOMAIN i : /\ i[k].code \in Areas!Codes /\ i[k].code \in Brings(i)
                          /\ i[k].point \in Areas!Points \cup {"nowhere"}
  BY <1>2 DEF Areas!Codes, Areas!Points, Areas!Nowhere, Brings
<1>4. Brings(i) \subseteq Areas!Codes
  BY <1>3 DEF Brings
<1>5. ASSUME NEW c \in Brings(i)
      PROVE  /\ Areas!PointIn(i, c) \in Areas!Points \cup {"nowhere"}
             /\ Areas!PointIn(i, c) # "absent"
  <2>1. \E a \in Areas!ToSet(i) : a.code = c
    BY <1>1 DEF Brings
  <2> DEFINE a == CHOOSE a \in Areas!ToSet(i) : a.code = c
  <2>2. a \in Areas!ToSet(i)
    BY <2>1
  <2>3. Areas!PointIn(i, c) = a.point
    BY DEF Areas!PointIn
  <2> HIDE DEF a
  <2>4. PICK k \in DOMAIN i : a = i[k]
    BY <1>1, <2>2
  <2> QED
    BY <1>3, <2>3, <2>4 DEF ImportSetting
<1> QED
  BY <1>1, <1>3, <1>4, <1>5 DEF ImportSetting

LEMMA ImportOps ==
    /\ ImportSetting => Areas!Idle \in ImportHandlers
    /\ Areas!Idle.op = "idle" /\ Areas!Idle.at = "idle"
    /\ \A h \in ImportHandlers :
          /\ h.op \in {"idle", "import", "add"} /\ h.at \in {"idle", "write", "log", "failed"}
          /\ h.import \in Imports \cup {<<>>} /\ h.next \in Nat
  BY DEF Areas!Idle, ImportHandlers, Areas!Nowhere

LEMMA ImportBegins ==
    ASSUME ImportSetting, Areas!ImportInit
    PROVE  Areas!ImportIInv
<1> USE ImportOps
<1>1. /\ areas = [c \in Areas!Codes |-> "absent"] /\ held = [c \in Areas!Codes |-> NoSession]
      /\ log = [i \in Imports |-> ""] /\ req = [s \in Sessions |-> Areas!Idle] /\ crossed = FALSE
  BY DEF Areas!ImportInit, Areas!Absent
<1>2. Areas!ImportTypeOK
  <2>1. req \in [Sessions -> ImportHandlers] /\ areas \in [Areas!Codes -> Areas!Points \cup {"nowhere", "absent"}]
    BY <1>1
  <2>2. held \in [Areas!Codes -> Sessions \cup {NoSession}] /\ crossed \in BOOLEAN
    BY <1>1
  <2>3. log \in [Imports -> {"", "started", "failed", "completed"}]
    BY <1>1
  <2> QED
    BY <2>1, <2>2, <2>3 DEF Areas!ImportTypeOK, ImportHandlers, Areas!Nowhere, Areas!Absent
<1>3. Areas!HeldWritten
  <2>1. \A s \in Sessions : Areas!Upserted(s) = {}
    BY <1>1 DEF Areas!Upserted
  <2> QED
    BY <1>1, <2>1 DEF Areas!HeldWritten, ImportSetting
<1>4. Areas!AddedAlone
  BY <1>1 DEF Areas!AddedAlone
<1>5. Areas!AllOrNothing
  <2>1. Areas!Completed = {}
    BY <1>1 DEF Areas!Completed
  <2>2. \A c \in Areas!Codes : areas[c] = Areas!Absent
    BY <1>1 DEF Areas!Absent
  <2> QED
    BY <2>1, <2>2 DEF Areas!AllOrNothing
<1>6. Areas!CoveredOnce
  <2>1. \A c \in Manual : areas[c] = Areas!Absent
    BY <1>1 DEF Areas!Absent, Areas!Codes
  <2> QED
    BY <2>1 DEF Areas!CoveredOnce
<1>7. Areas!BegunOnce
  BY <1>1 DEF Areas!BegunOnce
<1> QED
  BY <1>2, <1>3, <1>4, <1>5, <1>6, <1>7 DEF Areas!ImportIInv

\* A handler goes on; the others have what they had.
LEMMA ImportGoes ==
    ASSUME ImportSetting, Areas!ImportIInv, NEW s \in Sessions, NEW h \in ImportHandlers,
           req' = [req EXCEPT ![s] = h],
           \A t \in Sessions : t # s /\ req[t].op = "import" => log'[req[t].import] = log[req[t].import],
           h.op = "import" =>
              /\ h.import \in Imports /\ log'[h.import] = "started" /\ h.at # "idle"
              /\ h.at = "write" => h.next \in DOMAIN h.import
              /\ \A t \in Sessions : t # s /\ req[t].op = "import" => req[t].import # h.import,
           h.op = "add" => h.code \in Manual /\ h.point \in Areas!Points,
           held' \in [Areas!Codes -> Sessions \cup {NoSession}],
           \A c \in Areas!Codes : held'[c] # held[c] => held[c] \in {s, NoSession} /\ held'[c] \in {s, NoSession},
           \A c \in Areas!Codes : held'[c] = s <=> c \in Areas!Upserted(s)'
    PROVE  /\ req' \in [Sessions -> ImportHandlers] /\ req'[s] = h
           /\ \A t \in Sessions : t # s => req'[t] = req[t]
           /\ Areas!HeldWritten' /\ Areas!BegunOnce'
<1>0. /\ req \in [Sessions -> ImportHandlers] /\ held \in [Areas!Codes -> Sessions \cup {NoSession}]
  BY ImportTyped DEF Areas!ImportIInv
<1>1. req' \in [Sessions -> ImportHandlers] /\ req'[s] = h /\ \A t \in Sessions : t # s => req'[t] = req[t]
  BY <1>0
<1>2. ASSUME NEW t \in Sessions, NEW c \in Areas!Codes
      PROVE  held'[c] = t <=> c \in Areas!Upserted(t)'
  <2>1. CASE t = s
    BY <2>1
  <2>2. CASE t # s
    <3>1. Areas!Upserted(t)' = Areas!Upserted(t)
      BY <1>1, <2>2 DEF Areas!Upserted
    <3>2. held[c] = t <=> c \in Areas!Upserted(t)
      BY DEF Areas!ImportIInv, Areas!HeldWritten
    <3>3. t # NoSession
      BY DEF ImportSetting
    <3>4. held'[c] # held[c] => held[c] # t /\ held'[c] # t
      BY <2>2, <3>3
    <3> QED
      BY <3>1, <3>2, <3>4
  <2> QED
    BY <2>1, <2>2
<1>3. ASSUME NEW t \in Sessions
      PROVE  /\ req'[t].op = "import" =>
                  /\ req'[t].import \in Imports /\ log'[req'[t].import] = "started" /\ req'[t].at # "idle"
                  /\ req'[t].at = "write" => req'[t].next \in DOMAIN req'[t].import
                  /\ \A o \in Sessions \ {t} : req'[o].op = "import" => req'[o].import # req'[t].import
             /\ req'[t].op = "add" => req'[t].code \in Manual /\ req'[t].point \in Areas!Points
  <2>1. /\ req[t].op = "import" =>
             /\ req[t].import \in Imports /\ log[req[t].import] = "started" /\ req[t].at # "idle"
             /\ req[t].at = "write" => req[t].next \in DOMAIN req[t].import
             /\ \A o \in Sessions \ {t} : req[o].op = "import" => req[o].import # req[t].import
        /\ req[t].op = "add" => req[t].code \in Manual /\ req[t].point \in Areas!Points
    BY DEF Areas!ImportIInv, Areas!BegunOnce
  <2>2. CASE t = s
    BY <1>1, <2>2
  <2>3. CASE t # s
    <3>1. req'[t] = req[t]
      BY <1>1, <2>3
    <3>2. ASSUME req[t].op = "import" PROVE \A o \in Sessions \ {t} : req'[o].op = "import" => req'[o].import # req'[t].import
      BY <1>1, <2>1, <2>3, <3>1, <3>2
    <3> QED
      BY <2>1, <2>3, <3>1, <3>2
  <2> QED
    BY <2>2, <2>3
<1> QED
  BY <1>1, <1>2, <1>3 DEF Areas!HeldWritten, Areas!BegunOnce

LEMMA ImportStarts ==
    ASSUME ImportSetting, Areas!ImportIInv, NEW s \in Sessions, NEW i \in Imports, Areas!StartImport(s, i)
    PROVE  Areas!ImportIInv'
<1> USE ImportOps
<1> DEFINE h == [Areas!Idle EXCEPT !.op = "import", !.at = "write", !.import = i, !.next = 1]
<1>0. /\ areas \in [Areas!Codes -> Areas!Points \cup {"nowhere", "absent"}]
      /\ held \in [Areas!Codes -> Sessions \cup {NoSession}]
      /\ log \in [Imports -> {"", "started", "failed", "completed"}]
      /\ req \in [Sessions -> ImportHandlers] /\ crossed \in BOOLEAN
  BY ImportTyped DEF Areas!ImportIInv
<1>1. /\ req[s].op = "idle" /\ log[i] = "" /\ req' = [req EXCEPT ![s] = h]
      /\ log' = [log EXCEPT ![i] = "started"] /\ areas' = areas /\ held' = held
      /\ crossed' = (crossed \/ \E o \in Sessions : req[o].op = "add")
  BY DEF Areas!StartImport
<1>2. h \in ImportHandlers /\ h.op = "import" /\ h.at = "write" /\ h.import = i /\ h.next = 1
  BY DEF Areas!Idle, ImportHandlers, Areas!Nowhere
<1> HIDE DEF h
<1>3. /\ log' \in [Imports -> {"", "started", "failed", "completed"}] /\ log'[i] = "started"
      /\ \A j \in Imports : j # i => log'[j] = log[j]
  BY <1>0, <1>1
<1>4. \A t \in Sessions : req[t].op = "import" => req[t].import \in Imports /\ req[t].import # i
  BY <1>1 DEF Areas!ImportIInv, Areas!BegunOnce
<1>5. 1 \in DOMAIN i /\ DOMAIN i = 1..Len(i) /\ Len(i) \in Nat
  BY ImportRows
<1>6. req'[s] = h
  BY <1>0, <1>1
<1>7. Areas!Upserted(s)' = {} /\ Areas!Upserted(s) = {}
  <2>1. Areas!Upserted(s) = {}
    BY <1>1 DEF Areas!Upserted
  <2>2. \A k \in DOMAIN i : ~(k < 1)
    BY <1>5
  <2>3. Areas!Upserted(s)' = {i[k].code : k \in {k \in DOMAIN i : k < 1}}
    BY <1>2, <1>6 DEF Areas!Upserted
  <2> QED
    BY <2>1, <2>2, <2>3
<1>8. \A c \in Areas!Codes : held'[c] = s <=> c \in Areas!Upserted(s)'
  BY <1>1, <1>7 DEF Areas!ImportIInv, Areas!HeldWritten
<1>9. /\ req' \in [Sessions -> ImportHandlers] /\ \A t \in Sessions : t # s => req'[t] = req[t]
      /\ Areas!HeldWritten' /\ Areas!BegunOnce'
  BY <1>0, <1>1, <1>2, <1>3, <1>4, <1>5, <1>8, ImportGoes
<1>10. crossed' \in BOOLEAN
  BY <1>0, <1>1
<1>11. Areas!ImportTypeOK'
  BY <1>0, <1>1, <1>3, <1>9, <1>10, ImportTypes
<1>12. Areas!AddedAlone'
  BY <1>1, <1>2, <1>6, <1>9 DEF Areas!ImportIInv, Areas!AddedAlone
<1>13. Areas!AllOrNothing'
  <2>1. Areas!Completed' = Areas!Completed
    BY <1>1, <1>3 DEF Areas!Completed
  <2> QED
    BY <1>1, <2>1 DEF Areas!ImportIInv, Areas!AllOrNothing
<1>14. Areas!CoveredOnce'
  BY <1>1 DEF Areas!ImportIInv, Areas!CoveredOnce
<1> QED
  BY <1>9, <1>11, <1>12, <1>13, <1>14 DEF Areas!ImportIInv

LEMMA ImportUpserts ==
    ASSUME ImportSetting, Areas!ImportIInv, NEW s \in Sessions, Areas!Upsert(s)
    PROVE  Areas!ImportIInv'
<1> USE ImportOps
<1> DEFINE i == req[s].import
           n == req[s].next
           c == i[n].code
           h == [req[s] EXCEPT !.next = n + 1, !.at = IF n = Len(i) THEN "log" ELSE "write"]
<1>0. /\ areas \in [Areas!Codes -> Areas!Points \cup {"nowhere", "absent"}]
      /\ held \in [Areas!Codes -> Sessions \cup {NoSession}]
      /\ log \in [Imports -> {"", "started", "failed", "completed"}]
      /\ req \in [Sessions -> ImportHandlers] /\ crossed \in BOOLEAN /\ req[s] \in ImportHandlers
  BY ImportTyped DEF Areas!ImportIInv
<1>1. /\ req[s].op = "import" /\ req[s].at = "write" /\ held[c] \in {s, NoSession}
      /\ held' = [held EXCEPT ![c] = s] /\ req' = [req EXCEPT ![s] = h]
      /\ areas' = areas /\ log' = log /\ crossed' = crossed
  BY DEF Areas!Upsert, Areas!AreaOf, Areas!Free
<1>2. /\ i \in Imports /\ n \in DOMAIN i /\ log[i] = "started"
      /\ DOMAIN i = 1..Len(i) /\ Len(i) \in Nat /\ c \in Areas!Codes /\ n \in Nat /\ 1 \in DOMAIN i
      /\ \A t \in Sessions : t # s /\ req[t].op = "import" => req[t].import # i
  <2>1. i \in Imports /\ n \in DOMAIN i /\ log[i] = "started"
    BY <1>1 DEF Areas!ImportIInv, Areas!BegunOnce
  <2>2. \A t \in Sessions : t # s /\ req[t].op = "import" => req[t].import # i
    BY <1>1 DEF Areas!ImportIInv, Areas!BegunOnce
  <2> QED
    BY <2>1, <2>2, ImportRows
<1>3. /\ h \in ImportHandlers /\ h.op = "import" /\ h.import = i /\ h.next = n + 1
      /\ h.at = (IF n = Len(i) THEN "log" ELSE "write")
  <2>1. n + 1 \in Nat
    BY <1>2
  <2> QED
    BY <1>0, <1>1, <2>1 DEF ImportHandlers
<1> HIDE DEF h
<1>4. req'[s] = h
  BY <1>0, <1>1
<1>5. held' \in [Areas!Codes -> Sessions \cup {NoSession}]
  BY <1>0, <1>1, <1>2
<1>6. Areas!Upserted(s)' = Areas!Upserted(s) \cup {c}
  <2>1. Areas!Upserted(s) = {i[k].code : k \in {k \in DOMAIN i : k < n}}
    BY <1>1 DEF Areas!Upserted
  <2>2. {k \in DOMAIN i : h.at = "log" \/ (h.at = "write" /\ k < h.next)} = {k \in DOMAIN i : k < n} \cup {n}
    BY <1>2, <1>3
  <2>3. Areas!Upserted(s)' = {i[k].code : k \in {k \in DOMAIN i : h.at = "log" \/ (h.at = "write" /\ k < h.next)}}
    BY <1>3, <1>4 DEF Areas!Upserted
  <2> HIDE DEF i, n
  <2> QED
    BY <2>1, <2>2, <2>3
<1>7. \A d \in Areas!Codes : held'[d] = s <=> d \in Areas!Upserted(s)'
  <2>1. \A d \in Areas!Codes : held'[d] = s <=> (d = c \/ held[d] = s)
    BY <1>0, <1>1, <1>2
  <2> QED
    BY <1>6, <2>1 DEF Areas!ImportIInv, Areas!HeldWritten
<1>8. \A d \in Areas!Codes : held'[d] # held[d] => held[d] \in {s, NoSession} /\ held'[d] \in {s, NoSession}
  BY <1>0, <1>1, <1>2
<1>9. h.at # "idle" /\ (h.at = "write" => h.next \in DOMAIN i)
  BY <1>2, <1>3
<1>10. /\ req' \in [Sessions -> ImportHandlers] /\ \A t \in Sessions : t # s => req'[t] = req[t]
       /\ Areas!HeldWritten' /\ Areas!BegunOnce'
  <2> HIDE DEF i, n, c
  <2>1. h.op = "import" =>
              /\ h.import \in Imports /\ log'[h.import] = "started" /\ h.at # "idle"
              /\ h.at = "write" => h.next \in DOMAIN h.import
              /\ \A t \in Sessions : t # s /\ req[t].op = "import" => req[t].import # h.import
    BY <1>1, <1>2, <1>3, <1>9
  <2> QED
    BY <1>1, <1>3, <1>5, <1>7, <1>8, <2>1, ImportGoes
<1>11. Areas!ImportTypeOK'
  BY <1>0, <1>1, <1>5, <1>10, ImportTypes
<1>12. Areas!AddedAlone'
  BY <1>1, <1>3, <1>4, <1>10 DEF Areas!ImportIInv, Areas!AddedAlone
<1>13. Areas!AllOrNothing' /\ Areas!CoveredOnce'
  <2>1. Areas!Completed' = Areas!Completed
    BY <1>1 DEF Areas!Completed
  <2> QED
    BY <1>1, <2>1 DEF Areas!ImportIInv, Areas!AllOrNothing, Areas!CoveredOnce
<1> QED
  BY <1>10, <1>11, <1>12, <1>13 DEF Areas!ImportIInv

\* A handler gives back what it holds, and ends or goes on to log its failure.
LEMMA ImportReleases ==
    ASSUME ImportSetting, Areas!ImportIInv, NEW s \in Sessions, Areas!Release(s),
           NEW h \in ImportHandlers, req' = [req EXCEPT ![s] = h],
           h.op = "idle" \/ (h.op = "import" /\ h.at = "failed" /\ req[s].op = "import" /\ h.import = req[s].import),
           h.op = "import" => log'[h.import] = "started",
           log' \in [Imports -> {"", "started", "failed", "completed"}],
           \A t \in Sessions : t # s /\ req[t].op = "import" => log'[req[t].import] = log[req[t].import],
           areas' \in [Areas!Codes -> Areas!Points \cup {"nowhere", "absent"}], crossed' = crossed,
           \A c \in Areas!Codes : areas'[c] # areas[c] => req[s].op = "import" /\ c \in Brings(req[s].import),
           Areas!AllOrNothing'
    PROVE  Areas!ImportIInv'
<1> USE ImportOps
<1>0. /\ held \in [Areas!Codes -> Sessions \cup {NoSession}]
      /\ log \in [Imports -> {"", "started", "failed", "completed"}]
      /\ req \in [Sessions -> ImportHandlers] /\ crossed \in BOOLEAN /\ req[s] \in ImportHandlers
  BY ImportTyped DEF Areas!ImportIInv
<1>1. held' = [c \in Areas!Codes |-> IF held[c] = s THEN NoSession ELSE held[c]]
  BY DEF Areas!Release
<1>2. /\ held' \in [Areas!Codes -> Sessions \cup {NoSession}]
      /\ \A c \in Areas!Codes : held'[c] # held[c] => held[c] \in {s, NoSession} /\ held'[c] \in {s, NoSession}
      /\ \A c \in Areas!Codes : held'[c] # s
  BY <1>0, <1>1 DEF ImportSetting
<1>3. req'[s] = h
  BY <1>0
<1>4. Areas!Upserted(s)' = {}
  BY <1>3 DEF Areas!Upserted
<1>5. h.op = "import" =>
              /\ h.import \in Imports /\ log'[h.import] = "started" /\ h.at # "idle"
              /\ h.at = "write" => h.next \in DOMAIN h.import
              /\ \A t \in Sessions : t # s /\ req[t].op = "import" => req[t].import # h.import
  <2>1. req[s].op = "import" => /\ req[s].import \in Imports
                                /\ \A o \in Sessions \ {s} : req[o].op = "import" => req[o].import # req[s].import
    BY DEF Areas!ImportIInv, Areas!BegunOnce
  <2> QED
    BY <2>1
<1>6. /\ req' \in [Sessions -> ImportHandlers] /\ \A t \in Sessions : t # s => req'[t] = req[t]
      /\ Areas!HeldWritten' /\ Areas!BegunOnce'
  BY <1>2, <1>4, <1>5, ImportGoes
<1>7. Areas!ImportTypeOK'
  BY <1>0, <1>2, <1>6, ImportTypes
<1>8. Areas!AddedAlone'
  <2> SUFFICES ASSUME ~crossed, NEW t \in Sessions, req'[t].op = "add"
               PROVE  /\ \A o \in Sessions \ {t} : req'[o].op = "idle"
                      /\ \A c \in Areas!Codes : areas'[c] # req'[t].point
    BY DEF Areas!AddedAlone
  <2>1. t # s /\ req'[t] = req[t]
    BY <1>3, <1>6
  <2>2. req[t].op = "add" =>
           /\ \A o \in Sessions \ {t} : req[o].op = "idle"
           /\ \A c \in Areas!Codes : areas[c] # req[t].point
    BY DEF Areas!ImportIInv, Areas!AddedAlone
  <2>3. req[s].op = "idle" /\ req[t].op = "add"
    BY <2>1, <2>2
  <2>4. h.op = "idle"
    BY <2>3
  <2>5. \A o \in Sessions \ {t} : req'[o].op = "idle"
    BY <1>3, <1>6, <2>2, <2>3, <2>4
  <2>6. \A c \in Areas!Codes : areas'[c] = areas[c]
    BY <2>3
  <2>7. req'[t].point = req[t].point /\ \A c \in Areas!Codes : areas[c] # req[t].point
    BY <2>1, <2>2, <2>3
  <2>8. \A c \in Areas!Codes : areas'[c] # req'[t].point
    <3> TAKE c \in Areas!Codes
    <3>1. areas'[c] = areas[c] /\ areas[c] # req[t].point /\ req'[t].point = req[t].point
      BY <2>6, <2>7
    <3> QED
      BY <3>1, Zenon
  <2> QED
    BY <2>5, <2>8
<1>9. Areas!CoveredOnce'
  <2>1. ASSUME req[s].op = "import" PROVE \A c \in Brings(req[s].import) : c \in {a.code : a \in Areas!Written}
    <3>1. req[s].import \in Imports
      BY <2>1 DEF Areas!ImportIInv, Areas!BegunOnce
    <3>2. Areas!ToSet(req[s].import) = {req[s].import[k] : k \in DOMAIN req[s].import}
      BY <3>1, ImportRows
    <3>3. Areas!ToSet(req[s].import) \subseteq Areas!Written
      BY <3>1 DEF Areas!Written
    <3>4. ASSUME NEW c \in Brings(req[s].import) PROVE c \in {a.code : a \in Areas!Written}
      <4>1. PICK k \in DOMAIN req[s].import : c = req[s].import[k].code
        BY DEF Brings
      <4>2. req[s].import[k] \in Areas!Written
        BY <3>2, <3>3
      <4> QED
        BY <4>1, <4>2
    <3> QED
      BY <3>4
  <2>2. \A c \in Manual \ {a.code : a \in Areas!Written} : areas'[c] = areas[c]
    BY <2>1 DEF Areas!Codes
  <2>3. ~crossed => \A c, d \in Manual \ {a.code : a \in Areas!Written} :
                       c # d /\ areas[c] = areas[d] => areas[c] = Areas!Absent
    BY DEF Areas!ImportIInv, Areas!CoveredOnce
  <2>4. ~crossed => \A c, d \in Manual \ {a.code : a \in Areas!Written} :
                       c # d /\ areas'[c] = areas'[d] => areas'[c] = Areas!Absent
    <3> DEFINE M == Manual \ {a.code : a \in Areas!Written}
    <3>1. /\ \A c \in M : areas'[c] = areas[c]
          /\ ~crossed => \A c, d \in M : c # d /\ areas[c] = areas[d] => areas[c] = Areas!Absent
      BY <2>2, <2>3
    <3> HIDE DEF M
    <3>2. ~crossed => \A c, d \in M : c # d /\ areas'[c] = areas'[d] => areas'[c] = Areas!Absent
      <4> SUFFICES ASSUME ~crossed, NEW c \in M, NEW d \in M, c # d, areas'[c] = areas'[d]
                   PROVE  areas'[c] = Areas!Absent
        OBVIOUS
      <4>1. areas'[c] = areas[c] /\ areas'[d] = areas[d]
        BY <3>1
      <4>2. areas[c] = areas[d]
        BY <4>1
      <4>3. \A e, f \in M : e # f /\ areas[e] = areas[f] => areas[e] = Areas!Absent
        BY <3>1
      <4>4. areas[c] = Areas!Absent
        BY <4>2, <4>3
      <4> QED
        BY <4>1, <4>4
    <3> QED
      BY <3>2 DEF M
  <2> QED
    BY <2>4 DEF Areas!CoveredOnce
<1> QED
  BY <1>6, <1>7, <1>8, <1>9 DEF Areas!ImportIInv

\* What is rolled back was never there.
LEMMA ImportRollsBack ==
    ASSUME ImportSetting, Areas!ImportIInv, NEW s \in Sessions, Areas!RollBack(s)
    PROVE  Areas!ImportIInv'
<1> USE ImportOps
<1> DEFINE h == [req[s] EXCEPT !.at = "failed"]
<1>0. /\ areas \in [Areas!Codes -> Areas!Points \cup {"nowhere", "absent"}]
      /\ log \in [Imports -> {"", "started", "failed", "completed"}]
      /\ req \in [Sessions -> ImportHandlers] /\ req[s] \in ImportHandlers
  BY ImportTyped DEF Areas!ImportIInv
<1>1. /\ req[s].op = "import" /\ Areas!Release(s) /\ req' = [req EXCEPT ![s] = h]
      /\ areas' = areas /\ log' = log /\ crossed' = crossed
  BY DEF Areas!RollBack
<1>2. h \in ImportHandlers /\ h.op = "import" /\ h.at = "failed" /\ h.import = req[s].import
  BY <1>0, <1>1 DEF ImportHandlers
<1> HIDE DEF h
<1>3. log[req[s].import] = "started"
  BY <1>1 DEF Areas!ImportIInv, Areas!BegunOnce
<1>4. Areas!AllOrNothing'
  <2>1. Areas!Completed' = Areas!Completed
    BY <1>1 DEF Areas!Completed
  <2> QED
    BY <1>1, <2>1 DEF Areas!ImportIInv, Areas!AllOrNothing
<1> QED
  BY <1>0, <1>1, <1>2, <1>3, <1>4, ImportReleases

LEMMA ImportCrashes ==
    ASSUME ImportSetting, Areas!ImportIInv, NEW s \in Sessions, Areas!Crash(s)
    PROVE  Areas!ImportIInv'
<1> USE ImportOps
<1>0. /\ areas \in [Areas!Codes -> Areas!Points \cup {"nowhere", "absent"}]
      /\ log \in [Imports -> {"", "started", "failed", "completed"}]
  BY ImportTyped DEF Areas!ImportIInv
<1>1. /\ Areas!Release(s) /\ req' = [req EXCEPT ![s] = Areas!Idle]
      /\ areas' = areas /\ log' = log /\ crossed' = crossed
  BY DEF Areas!Crash
<1>2. Areas!AllOrNothing'
  <2>1. Areas!Completed' = Areas!Completed
    BY <1>1 DEF Areas!Completed
  <2> QED
    BY <1>1, <2>1 DEF Areas!ImportIInv, Areas!AllOrNothing
<1> QED
  BY <1>0, <1>1, <1>2, ImportReleases

\* What is committed is what was written, all of it once the log is.
LEMMA ImportCommits ==
    ASSUME ImportSetting, Areas!ImportIInv, NEW s \in Sessions, req[s].op = "import"
    PROVE  /\ req[s].import \in Imports
           /\ \A c \in Areas!Codes : held[c] = s => c \in Brings(req[s].import)
           /\ req[s].at = "log" => \A c \in Brings(req[s].import) : held[c] = s
           /\ req[s].at = "failed" => \A c \in Areas!Codes : held[c] # s
<1>1. req[s].import \in Imports
  BY DEF Areas!ImportIInv, Areas!BegunOnce
<1>2. \A c \in Areas!Codes : held[c] = s <=> c \in Areas!Upserted(s)
  BY DEF Areas!ImportIInv, Areas!HeldWritten
<1>3. Areas!Upserted(s) \subseteq Brings(req[s].import)
  BY DEF Areas!Upserted, Brings
<1>4. req[s].at = "log" => Brings(req[s].import) \subseteq Areas!Upserted(s)
  BY DEF Areas!Upserted, Brings
<1>5. req[s].at = "failed" => Areas!Upserted(s) = {}
  BY DEF Areas!Upserted
<1>6. Brings(req[s].import) \subseteq Areas!Codes
  BY <1>1, ImportRows
<1> QED
  BY <1>1, <1>2, <1>3, <1>4, <1>5, <1>6

LEMMA ImportCompletes ==
    ASSUME ImportSetting, Areas!ImportIInv, NEW s \in Sessions, Areas!Complete(s)
    PROVE  Areas!ImportIInv'
<1> USE ImportOps
<1> DEFINE i == req[s].import
<1>0. /\ areas \in [Areas!Codes -> Areas!Points \cup {"nowhere", "absent"}]
      /\ log \in [Imports -> {"", "started", "failed", "completed"}]
      /\ req \in [Sessions -> ImportHandlers]
  BY ImportTyped DEF Areas!ImportIInv
<1>1. /\ req[s].op = "import" /\ req[s].at = "log" /\ Areas!Release(s)
      /\ req' = [req EXCEPT ![s] = Areas!Idle] /\ crossed' = crossed
      /\ areas' = [c \in Areas!Codes |-> IF held[c] = s THEN Areas!PointIn(i, c) ELSE areas[c]]
      /\ log' = [log EXCEPT ![i] = "completed"]
  BY DEF Areas!Complete
<1>2. /\ i \in Imports /\ \A c \in Areas!Codes : held[c] = s => c \in Brings(i)
      /\ \A c \in Brings(i) : held[c] = s
  BY <1>1, ImportCommits
<1>3. /\ Brings(i) \subseteq Areas!Codes
      /\ \A c \in Brings(i) : /\ Areas!PointIn(i, c) \in Areas!Points \cup {"nowhere"}
                              /\ Areas!PointIn(i, c) # "absent"
  BY <1>2, ImportRows
<1>4. /\ areas' \in [Areas!Codes -> Areas!Points \cup {"nowhere", "absent"}]
      /\ \A c \in Areas!Codes : areas'[c] # areas[c] => c \in Brings(i)
      /\ \A c \in Brings(i) : areas'[c] # "absent"
  <2>1. \A c \in Areas!Codes : areas'[c] = IF held[c] = s THEN Areas!PointIn(i, c) ELSE areas[c]
    BY <1>1
  <2> HIDE DEF i
  <2>2. \A c \in Areas!Codes : /\ areas'[c] \in Areas!Points \cup {"nowhere", "absent"}
                               /\ areas'[c] # areas[c] => c \in Brings(i)
    BY <1>0, <1>2, <1>3, <2>1
  <2>3. \A c \in Brings(i) : areas'[c] # "absent"
    BY <1>2, <1>3, <2>1
  <2> QED
    BY <1>1, <2>2, <2>3
<1>5. /\ log' \in [Imports -> {"", "started", "failed", "completed"}] /\ log'[i] = "completed"
      /\ \A j \in Imports : j # i => log'[j] = log[j]
  BY <1>0, <1>1, <1>2
<1>6. \A t \in Sessions : t # s /\ req[t].op = "import" => log'[req[t].import] = log[req[t].import]
  <2>1. \A t \in Sessions : t # s /\ req[t].op = "import" => req[t].import \in Imports /\ req[t].import # i
    BY <1>1 DEF Areas!ImportIInv, Areas!BegunOnce
  <2> QED
    BY <1>5, <2>1
<1>7. Areas!AllOrNothing'
  <2>1. Areas!Completed' = Areas!Completed \cup {i}
    BY <1>2, <1>5 DEF Areas!Completed
  <2>2. /\ \A j \in Areas!Completed : \A a \in Areas!ToSet(j) : areas[a.code] # Areas!Absent
        /\ \A c \in Areas!Codes \ Manual : areas[c] # Areas!Absent => \E j \in Areas!Completed : \E a \in Areas!ToSet(j) : a.code = c
    BY DEF Areas!ImportIInv, Areas!AllOrNothing
  <2>3. \A c \in Areas!Codes : areas[c] # Areas!Absent => areas'[c] # Areas!Absent
    BY <1>4 DEF Areas!Absent
  <2>4. \A j \in Imports : \A a \in Areas!ToSet(j) : a.code \in Areas!Codes /\ a.code \in Brings(j)
    BY ImportRows
  <2>5. ASSUME NEW j \in Areas!Completed', NEW a \in Areas!ToSet(j) PROVE areas'[a.code] # Areas!Absent
    <3>1. j \in Imports
      BY <1>2, <2>1 DEF Areas!Completed
    <3>2. CASE j = i
      BY <1>4, <2>4, <3>1, <3>2 DEF Areas!Absent
    <3>3. CASE j # i
      BY <2>1, <2>2, <2>3, <2>4, <3>1, <3>3
    <3> QED
      BY <3>2, <3>3
  <2>6. \A a \in Brings(i) : \E b \in Areas!ToSet(i) : b.code = a
    BY <1>2, ImportRows DEF Brings
  <2>7. ASSUME NEW c \in Areas!Codes \ Manual, areas'[c] # Areas!Absent
        PROVE  \E j \in Areas!Completed' : \E a \in Areas!ToSet(j) : a.code = c
    <3>1. CASE areas'[c] = areas[c]
      BY <2>1, <2>2, <2>7, <3>1
    <3>2. CASE areas'[c] # areas[c]
      BY <1>4, <2>1, <2>6, <3>2
    <3> QED
      BY <3>1, <3>2
  <2> QED
    BY <2>5, <2>7 DEF Areas!AllOrNothing, Areas!Codes
<1> QED
  BY <1>1, <1>4, <1>5, <1>6, <1>7, ImportReleases

\* A failure is logged when nothing is held any more.
LEMMA ImportFails ==
    ASSUME ImportSetting, Areas!ImportIInv, NEW s \in Sessions, Areas!LogFailure(s)
    PROVE  Areas!ImportIInv'
<1> USE ImportOps
<1> DEFINE i == req[s].import
<1>0. /\ areas \in [Areas!Codes -> Areas!Points \cup {"nowhere", "absent"}]
      /\ log \in [Imports -> {"", "started", "failed", "completed"}]
  BY ImportTyped DEF Areas!ImportIInv
<1>1. /\ req[s].op = "import" /\ req[s].at = "failed" /\ Areas!Release(s)
      /\ req' = [req EXCEPT ![s] = Areas!Idle] /\ crossed' = crossed
      /\ areas' = [c \in Areas!Codes |-> IF held[c] = s THEN Areas!PointIn(i, c) ELSE areas[c]]
      /\ log' = [log EXCEPT ![i] = "failed"]
  BY DEF Areas!LogFailure
<1>2. /\ i \in Imports /\ \A c \in Areas!Codes : held[c] # s
  BY <1>1, ImportCommits
<1>3. areas' = areas
  BY <1>0, <1>1, <1>2
<1>4. log[i] = "started"
  BY <1>1 DEF Areas!ImportIInv, Areas!BegunOnce
<1>5. /\ log' \in [Imports -> {"", "started", "failed", "completed"}] /\ log'[i] = "failed"
      /\ \A j \in Imports : j # i => log'[j] = log[j]
  BY <1>0, <1>1, <1>2
<1>6. \A t \in Sessions : t # s /\ req[t].op = "import" => log'[req[t].import] = log[req[t].import]
  <2>1. \A t \in Sessions : t # s /\ req[t].op = "import" => req[t].import \in Imports /\ req[t].import # i
    BY <1>1 DEF Areas!ImportIInv, Areas!BegunOnce
  <2> QED
    BY <1>5, <2>1
<1>7. Areas!AllOrNothing'
  <2>1. Areas!Completed' = Areas!Completed
    BY <1>2, <1>4, <1>5 DEF Areas!Completed
  <2> QED
    BY <1>3, <2>1 DEF Areas!ImportIInv, Areas!AllOrNothing
<1> QED
  BY <1>0, <1>1, <1>3, <1>5, <1>6, <1>7, ImportReleases

\* A village is found to be placeable; while nobody else writes, it stays so.
LEMMA ImportAdds ==
    ASSUME ImportSetting, Areas!ImportIInv, NEW s \in Sessions, NEW c \in Manual, NEW p \in Areas!Points,
           Areas!AddVillage(s, c, p)
    PROVE  Areas!ImportIInv'
<1> USE ImportOps
<1> DEFINE h == [Areas!Idle EXCEPT !.op = "add", !.code = c, !.point = p]
<1>0. /\ areas \in [Areas!Codes -> Areas!Points \cup {"nowhere", "absent"}]
      /\ held \in [Areas!Codes -> Sessions \cup {NoSession}]
      /\ log \in [Imports -> {"", "started", "failed", "completed"}]
      /\ req \in [Sessions -> ImportHandlers] /\ crossed \in BOOLEAN
  BY ImportTyped DEF Areas!ImportIInv
<1>1. /\ req[s].op = "idle" /\ req' = [req EXCEPT ![s] = h]
      /\ \A v \in Areas!Codes : areas[v] # p
      /\ areas' = areas /\ held' = held /\ log' = log
      /\ crossed' = (crossed \/ \E o \in Sessions \ {s} : req[o].op # "idle")
  BY DEF Areas!AddVillage
<1>2. h \in ImportHandlers /\ h.op = "add" /\ h.code = c /\ h.point = p
  BY DEF Areas!Idle, ImportHandlers, Areas!Nowhere
<1> HIDE DEF h
<1>3. req'[s] = h
  BY <1>0, <1>1
<1>4. Areas!Upserted(s)' = {} /\ Areas!Upserted(s) = {}
  BY <1>1, <1>2, <1>3 DEF Areas!Upserted
<1>5. \A d \in Areas!Codes : held'[d] = s <=> d \in Areas!Upserted(s)'
  BY <1>1, <1>4 DEF Areas!ImportIInv, Areas!HeldWritten
<1>6. /\ req' \in [Sessions -> ImportHandlers] /\ \A t \in Sessions : t # s => req'[t] = req[t]
      /\ Areas!HeldWritten' /\ Areas!BegunOnce'
  BY <1>0, <1>1, <1>2, <1>5, ImportGoes
<1>7. crossed' \in BOOLEAN
  BY <1>0, <1>1
<1>8. Areas!ImportTypeOK'
  BY <1>0, <1>1, <1>6, <1>7, ImportTypes
<1>9. Areas!AddedAlone'
  <2> SUFFICES ASSUME ~crossed', NEW t \in Sessions, req'[t].op = "add"
               PROVE  /\ \A o \in Sessions \ {t} : req'[o].op = "idle"
                      /\ \A d \in Areas!Codes : areas'[d] # req'[t].point
    BY DEF Areas!AddedAlone
  <2>1. ~crossed /\ \A o \in Sessions \ {s} : req[o].op = "idle"
    BY <1>1
  <2>2. t = s
    BY <1>6, <2>1
  <2>3. \A o \in Sessions \ {t} : req'[o].op = "idle"
    BY <1>6, <2>1, <2>2
  <2>4. \A d \in Areas!Codes : areas'[d] # req'[t].point
    BY <1>1, <1>2, <1>3, <2>2
  <2> QED
    BY <2>3, <2>4
<1>10. Areas!AllOrNothing'
  <2>1. Areas!Completed' = Areas!Completed
    BY <1>1 DEF Areas!Completed
  <2> QED
    BY <1>1, <2>1 DEF Areas!ImportIInv, Areas!AllOrNothing
<1>11. Areas!CoveredOnce'
  BY <1>1 DEF Areas!ImportIInv, Areas!CoveredOnce
<1> QED
  BY <1>6, <1>8, <1>9, <1>10, <1>11 DEF Areas!ImportIInv

LEMMA ImportInserts ==
    ASSUME ImportSetting, Areas!ImportIInv, NEW s \in Sessions, Areas!InsertVillage(s)
    PROVE  Areas!ImportIInv'
<1> USE ImportOps
<1> DEFINE h == Areas!Idle
           c == req[s].code
           p == req[s].point
<1>0. /\ areas \in [Areas!Codes -> Areas!Points \cup {"nowhere", "absent"}]
      /\ held \in [Areas!Codes -> Sessions \cup {NoSession}]
      /\ log \in [Imports -> {"", "started", "failed", "completed"}]
      /\ req \in [Sessions -> ImportHandlers] /\ crossed \in BOOLEAN
  BY ImportTyped DEF Areas!ImportIInv
<1>1. /\ req[s].op = "add" /\ req' = [req EXCEPT ![s] = h]
      /\ areas' = IF areas[c] = "absent" THEN [areas EXCEPT ![c] = p] ELSE areas
      /\ held' = held /\ log' = log /\ crossed' = crossed
  BY DEF Areas!InsertVillage, Areas!Absent
<1>2. c \in Manual /\ c \in Areas!Codes /\ p \in Areas!Points
  BY <1>1 DEF Areas!ImportIInv, Areas!BegunOnce, Areas!Codes
<1>3. h \in ImportHandlers /\ h.op = "idle"
  OBVIOUS
<1> HIDE DEF h
<1>4. req'[s] = h
  BY <1>0, <1>1
<1>5. Areas!Upserted(s)' = {} /\ Areas!Upserted(s) = {}
  BY <1>1, <1>3, <1>4 DEF Areas!Upserted
<1>6. \A d \in Areas!Codes : held'[d] = s <=> d \in Areas!Upserted(s)'
  BY <1>1, <1>5 DEF Areas!ImportIInv, Areas!HeldWritten
<1>7. /\ req' \in [Sessions -> ImportHandlers] /\ \A t \in Sessions : t # s => req'[t] = req[t]
      /\ Areas!HeldWritten' /\ Areas!BegunOnce'
  BY <1>0, <1>1, <1>3, <1>6, ImportGoes
<1> HIDE DEF c, p
<1>8. /\ areas' \in [Areas!Codes -> Areas!Points \cup {"nowhere", "absent"}]
      /\ \A d \in Areas!Codes : d # c => areas'[d] = areas[d]
      /\ areas[c] # "absent" => areas' = areas
      /\ areas[c] = "absent" => areas'[c] = p
  BY <1>0, <1>1, <1>2
<1>9. Areas!ImportTypeOK'
  BY <1>0, <1>1, <1>7, <1>8, ImportTypes
<1>10. ~crossed => /\ \A o \in Sessions \ {s} : req[o].op = "idle"
                   /\ \A d \in Areas!Codes : areas[d] # p
  BY <1>1 DEF Areas!ImportIInv, Areas!AddedAlone, p
<1>11. Areas!AddedAlone'
  <2>1. ~crossed => \A t \in Sessions : req'[t].op # "add"
    BY <1>3, <1>4, <1>7, <1>10
  <2> QED
    BY <1>1, <2>1 DEF Areas!AddedAlone
<1>12. Areas!AllOrNothing'
  <2>1. Areas!Completed' = Areas!Completed
    BY <1>1 DEF Areas!Completed
  <2>2. Areas!Completed \subseteq Imports
    BY DEF Areas!Completed
  <2>3. /\ \A j \in Areas!Completed : \A a \in Areas!ToSet(j) : areas[a.code] # "absent"
        /\ \A d \in Areas!Codes \ Manual : areas[d] # "absent" => \E j \in Areas!Completed : \E a \in Areas!ToSet(j) : a.code = d
    BY DEF Areas!ImportIInv, Areas!AllOrNothing, Areas!Absent
  <2>4. \A d \in Areas!Codes \ Manual : areas'[d] = areas[d]
    BY <1>2, <1>8
  <2>5. p # "absent" => \A d \in Areas!Codes : areas[d] # "absent" => areas'[d] # "absent"
    BY <1>8
  <2>6. \A j \in Imports : \A a \in Areas!ToSet(j) : a.code \in Areas!Codes
    BY ImportRows
  <2>7. \A j \in Areas!Completed : \A a \in Areas!ToSet(j) : areas'[a.code] # "absent"
    BY <1>8, <2>2, <2>3, <2>6
  <2>8. \A d \in Areas!Codes \ Manual : areas'[d] # "absent" => \E j \in Areas!Completed : \E a \in Areas!ToSet(j) : a.code = d
    BY <2>3, <2>4
  <2> QED
    BY <2>1, <2>7, <2>8 DEF Areas!AllOrNothing, Areas!Codes, Areas!Absent
<1>13. Areas!CoveredOnce'
  <2> DEFINE M == Manual \ {a.code : a \in Areas!Written}
  <2>1. ~crossed => \A e, d \in M : e # d /\ areas[e] = areas[d] => areas[e] = "absent"
    BY DEF Areas!ImportIInv, Areas!CoveredOnce, Areas!Absent
  <2>2. M \subseteq Areas!Codes
    BY DEF Areas!Codes
  <2> HIDE DEF M
  <2>3. ASSUME ~crossed, NEW e \in M, NEW d \in M, e # d, areas'[e] = areas'[d] PROVE areas'[e] = "absent"
    <3>1. CASE areas[c] # "absent"
      BY <1>8, <2>1, <2>3, <3>1
    <3>2. CASE areas[c] = "absent"
      BY <1>8, <1>10, <2>1, <2>2, <2>3, <3>2
    <3> QED
      BY <3>1, <3>2
  <2>4. ~crossed' => \A e, d \in M : e # d /\ areas'[e] = areas'[d] => areas'[e] = "absent"
    BY <1>1, <2>3
  <2> QED
    BY <2>4 DEF M, Areas!CoveredOnce, Areas!Absent
<1> QED
  BY <1>7, <1>9, <1>11, <1>12, <1>13 DEF Areas!ImportIInv

LEMMA ImportStep ==
    ASSUME ImportSetting, Areas!ImportIInv, Areas!ImportNext
    PROVE  Areas!ImportIInv'
<1>1. PICK s \in Sessions :
        \/ \E i \in Imports : Areas!StartImport(s, i)
        \/ Areas!Upsert(s) \/ Areas!Complete(s) \/ Areas!RollBack(s) \/ Areas!LogFailure(s)
        \/ \E c \in Manual, p \in Areas!Points : Areas!AddVillage(s, c, p)
        \/ Areas!InsertVillage(s) \/ Areas!Crash(s)
  BY DEF Areas!ImportNext
<1>2. CASE \E i \in Imports : Areas!StartImport(s, i)
  BY <1>2, ImportStarts
<1>3. CASE \E c \in Manual, p \in Areas!Points : Areas!AddVillage(s, c, p)
  BY <1>3, ImportAdds
<1> QED
  BY <1>1, <1>2, <1>3, ImportUpserts, ImportCompletes, ImportRollsBack, ImportFails, ImportInserts, ImportCrashes

LEMMA ImportStands ==
    ASSUME Areas!ImportIInv, UNCHANGED Areas!importVars
    PROVE  Areas!ImportIInv'
<1>1. UNCHANGED <<areas, held, log, req, crossed>>
  BY DEF Areas!importVars
<1>2. /\ Areas!ImportTypeOK' = Areas!ImportTypeOK /\ Areas!CoveredOnce' = Areas!CoveredOnce
  BY <1>1 DEF Areas!ImportTypeOK, Areas!CoveredOnce
<1>3. Areas!AddedAlone' = Areas!AddedAlone /\ Areas!BegunOnce' = Areas!BegunOnce
  BY <1>1 DEF Areas!AddedAlone, Areas!BegunOnce
<1>4. Areas!AllOrNothing' = Areas!AllOrNothing
  BY <1>1 DEF Areas!AllOrNothing, Areas!Completed
<1>5. Areas!HeldWritten' = Areas!HeldWritten
  BY <1>1 DEF Areas!HeldWritten, Areas!Upserted
<1> QED
  BY <1>2, <1>3, <1>4, <1>5 DEF Areas!ImportIInv

\* Who waits for an import, and is one, is beyond its first area, which only one
\* of the two can hold.
LEMMA ImportGood ==
    ASSUME ImportSetting, Areas!ImportIInv
    PROVE  Areas!AllOrNothing /\ Areas!NoCircle /\ Areas!CoveredOnce
<1>1. ASSUME NEW s \in Sessions, NEW o \in Sessions, Areas!WaitsFor(s, o) /\ Areas!WaitsFor(o, s)
      PROVE  FALSE
  <2>1. /\ Areas!Wants(s) # "" /\ held[Areas!Wants(s)] = o /\ s # o
        /\ Areas!Wants(o) # "" /\ held[Areas!Wants(o)] = s
    BY <1>1 DEF Areas!WaitsFor
  <2>2. /\ req \in [Sessions -> ImportHandlers]
    BY ImportTyped DEF Areas!ImportIInv
  <2>3. ASSUME NEW t \in Sessions, Areas!Wants(t) # "" PROVE Areas!Wants(t) \in Areas!Codes
    <3>1. CASE req[t].op = "import"
      <4>1. req[t].at = "write" /\ Areas!Wants(t) = req[t].import[req[t].next].code
        BY <2>3, <3>1 DEF Areas!Wants, Areas!AreaOf
      <4>2. req[t].import \in Imports /\ req[t].next \in DOMAIN req[t].import
        BY <3>1, <4>1 DEF Areas!ImportIInv, Areas!BegunOnce
      <4> QED
        BY <4>1, <4>2, ImportRows
    <3>2. CASE req[t].op # "import"
      <4>1. Areas!Wants(t) = req[t].code
        BY <3>2 DEF Areas!Wants
      <4>2. req[t] \in ImportHandlers
        BY <2>2
      <4>3. req[t].code \in Manual \cup {""}
        BY <4>2 DEF ImportHandlers
      <4> QED
        BY <2>3, <4>1, <4>3 DEF Areas!Codes
    <3> QED
      BY <3>1, <3>2
  <2>4. ASSUME NEW t \in Sessions, NEW c \in Areas!Codes, held[c] = t, Areas!Wants(t) # ""
        PROVE  req[t].op = "import" /\ req[t].import \in Imports /\ held[req[t].import[1].code] = t
    <3>1. c \in Areas!Upserted(t)
      BY <2>4 DEF Areas!ImportIInv, Areas!HeldWritten
    <3>2. PICK k \in DOMAIN req[t].import :
             req[t].op = "import" /\ (req[t].at = "log" \/ (req[t].at = "write" /\ k < req[t].next))
      BY <3>1 DEF Areas!Upserted
    <3>3. req[t].import \in Imports
      BY <3>2 DEF Areas!ImportIInv, Areas!BegunOnce
    <3>4. 1 \in DOMAIN req[t].import /\ 1 <= k /\ k \in Nat /\ req[t].next \in Nat
      <4>1. 1 \in DOMAIN req[t].import /\ DOMAIN req[t].import = 1..Len(req[t].import) /\ Len(req[t].import) \in Nat
        BY <3>3, ImportRows
      <4>2. req[t].next \in Nat
        BY <2>2, ImportOps
      <4> QED
        BY <4>1, <4>2
    <3>5. req[t].at = "log" \/ (req[t].at = "write" /\ 1 < req[t].next)
      BY <3>2, <3>4
    <3>6. req[t].import[1].code \in Areas!Upserted(t)
      BY <3>2, <3>4, <3>5 DEF Areas!Upserted
    <3>7. req[t].import[1].code \in Areas!Codes
      BY <3>3, <3>4, ImportRows
    <3> QED
      BY <3>2, <3>3, <3>6, <3>7 DEF Areas!ImportIInv, Areas!HeldWritten
  <2>5. /\ req[s].import \in Imports /\ held[req[s].import[1].code] = s
        /\ req[o].import \in Imports /\ held[req[o].import[1].code] = o
    BY <2>1, <2>3, <2>4
  <2>6. req[s].import[1].code = req[o].import[1].code
    BY <2>5 DEF ImportSetting
  <2> QED
    BY <2>1, <2>5, <2>6
<1> QED
  BY <1>1 DEF Areas!NoCircle, Areas!ImportIInv
===============================================================================
