------------------------- MODULE DealLifecycleProofs -------------------------
(***************************************************************************)
(* Proofs about DealLifecycle for every number of users, sessions and      *)
(* acceptances: type correctness, the safety invariants that relate the    *)
(* deal's row to its invitations, the action properties, and that the      *)
(* detailed specification implements DealContract.                         *)
(***************************************************************************)
EXTENDS DealLifecycle, FiniteSetTheorems, TLAPS

USE DEF rows, local, outside, DealStatus, InvitationStatus, Stages, DealRow

(* A submitted row is a row, with the fields that mark_submitted sets. *)
LEMMA SubmittedRow ==
    ASSUME NEW d \in DealRow, NEW t \in Nat
    PROVE  /\ Submitted(d, t) \in DealRow
           /\ Submitted(d, t).status = "PENDING_ACCEPTANCE"
           /\ Submitted(d, t).accepted_count = 0
           /\ Submitted(d, t).submitted_at = t
           /\ Submitted(d, t).deadline = t + Timeout
           /\ Submitted(d, t).published_at = d.published_at
           /\ Submitted(d, t).deleted = d.deleted
<1>1. Submitted(d, t) \in DealRow
  <2> DEFINE e1 == [d EXCEPT !.status = "PENDING_ACCEPTANCE"]
             e2 == [e1 EXCEPT !.submitted_at = t]
             e3 == [e2 EXCEPT !.deadline = t + Timeout]
             e4 == [e3 EXCEPT !.accepted_count = 0]
  <2>1. e1 \in DealRow
    OBVIOUS
  <2>2. e2 \in DealRow
    BY <2>1
  <2>3. e3 \in DealRow
    <3> HIDE DEF e2
    <3> QED BY <2>2, LimitsAssumption
  <2>4. e4 \in DealRow
    <3> HIDE DEF e3
    <3> QED BY <2>3
  <2> QED
    BY <2>4 DEF Submitted
<1> QED
  BY <1>1, LimitsAssumption, Z3 DEF Submitted

(* An accepted row is a row, with the fields that record_acceptance sets. *)
LEMMA AcceptedRow ==
    ASSUME NEW d \in DealRow, NEW t \in Nat
    PROVE  LET r == AcceptedOnce(d, t)
               full == d.accepted_count + 1 >= MaxAcceptances
           IN  /\ r \in DealRow
               /\ r.accepted_count = d.accepted_count + 1
               /\ r.status = IF full THEN "PUBLISHED" ELSE d.status
               /\ r.published_at = IF full THEN t ELSE d.published_at
               /\ r.submitted_at = d.submitted_at
               /\ r.deadline = d.deadline
               /\ r.deleted = d.deleted
<1> DEFINE e1 == [d EXCEPT !.accepted_count = @ + 1]
           e2 == [e1 EXCEPT !.status = "PUBLISHED"]
           e3 == [e2 EXCEPT !.published_at = t]
<1>1. e1 \in DealRow
  OBVIOUS
<1>2. e2 \in DealRow
  BY <1>1
<1>3. e3 \in DealRow
  BY <1>2
<1>4. AcceptedOnce(d, t) = IF d.accepted_count + 1 >= MaxAcceptances THEN e3 ELSE e1
  BY DEF AcceptedOnce
<1>5. AcceptedOnce(d, t) \in DealRow
  BY <1>1, <1>3, <1>4
<1>6. CASE d.accepted_count + 1 >= MaxAcceptances
  BY <1>5, <1>6, Z3 DEF AcceptedOnce
<1>7. CASE ~(d.accepted_count + 1 >= MaxAcceptances)
  BY <1>5, <1>7, Z3 DEF AcceptedOnce
<1> QED
  BY <1>6, <1>7

(* The variables hold values of the model's types in every reachable state. *)
THEOREM TypeCorrect == Spec => []TypeOK
<1>1. Init => TypeOK
  BY LimitsAssumption DEF Init, TypeOK, Draft
<1>2. TypeOK /\ [Next]_vars => TypeOK'
  <2> SUFFICES ASSUME TypeOK, [Next]_vars PROVE TypeOK'
    OBVIOUS
  <2> USE LimitsAssumption DEF TypeOK, Goto, Finish
  <2>1. CASE UNCHANGED vars
    BY <2>1 DEF vars
  <2>2. CASE Tick
    BY <2>2 DEF Tick
  <2>3. ASSUME NEW s \in Sessions, Arrive(s) PROVE TypeOK'
    BY <2>3, RequestsAssumption DEF Arrive, Begin, AllRequests
  <2>4. ASSUME NEW s \in Sessions, Crash(s) PROVE TypeOK'
    BY <2>4 DEF Crash, RollbackWrites, Released
  <2>5. ASSUME NEW s \in Sessions, Step(s) PROVE TypeOK'
    <3>1. CASE NothingOverdue(s)
      BY <3>1 DEF NothingOverdue, AfterExpire
    <3>2. CASE ExpireOverdue(s)
      BY <3>2 DEF ExpireOverdue, WriteDeal
    <3>3. CASE ReadDeal(s)
      BY <3>3 DEF ReadDeal, ReadOn
    <3>4. CASE ReadInvitation(s)
      BY <3>4 DEF ReadInvitation, ReadOn
    <3>5. CASE Reject(s)
      BY <3>5 DEF Reject
    <3>6. CASE SubmitDeal(s)
      BY <3>6, SubmittedRow DEF SubmitDeal, WriteDeal
    <3>7. CASE InviteEligible(s)
      BY <3>7 DEF InviteEligible, WriteInvitations
    <3>8. CASE RecordAcceptance(s)
      BY <3>8, AcceptedRow DEF RecordAcceptance, WriteDeal
    <3>9. CASE CancelDeal(s)
      BY <3>9 DEF CancelDeal, WriteDeal
    <3>10. CASE DeleteDeal(s)
      BY <3>10 DEF DeleteDeal, WriteDeal
    <3>11. CASE EditItem(s)
      BY <3>11 DEF EditItem
    <3>12. CASE UpdateMissed(s)
      BY <3>12 DEF UpdateMissed, RollbackWrites, Released
    <3>13. CASE Decide(s)
      BY <3>13 DEF Decide, WriteInvitations
    <3>14. CASE DecideMissed(s)
      BY <3>14 DEF DecideMissed, RollbackWrites, Released
    <3>15. CASE CloseOpen(s)
      BY <3>15 DEF CloseOpen, WriteInvitations
    <3>16. CASE Commit(s)
      BY <3>16 DEF Commit, CommitWrites, Released, AfterExpire
    <3>17. CASE ListUnnotified(s)
      BY <3>17 DEF ListUnnotified
    <3>18. CASE ClaimForNotification(s)
      BY <3>18 DEF ClaimForNotification
    <3>19. CASE AlreadyClaimed(s)
      BY <3>19 DEF AlreadyClaimed
    <3>20. CASE NotifyAcceptanceRequested(s)
      <4>1. \A u \in Users : notices'[u] \in Nat
        BY <3>20 DEF NotifyAcceptanceRequested
      <4>2. notices' \in [Users -> Nat]
        BY <3>20, <4>1 DEF NotifyAcceptanceRequested
      <4> QED
        BY <3>20, <4>2 DEF NotifyAcceptanceRequested
    <3>21. CASE NotifyDone(s)
      BY <3>21 DEF NotifyDone
    <3> QED
      BY <2>5, <3>1, <3>2, <3>3, <3>4, <3>5, <3>6, <3>7, <3>8, <3>9, <3>10, <3>11,
         <3>12, <3>13, <3>14, <3>15, <3>16, <3>17, <3>18, <3>19, <3>20, <3>21 DEF Step
  <2> QED
    BY <2>1, <2>2, <2>3, <2>4, <2>5 DEF Next
<1> QED
  BY <1>1, <1>2, PTL DEF Spec

-----------------------------------------------------------------------------
(* The inductive invariant, one lemma per way a step treats the rows. *)

(* What a step of s leaves to the other sessions. *)
OthersLocal(s) ==
    \A t \in Sessions \ {s} : pc'[t] = pc[t] /\ req'[t] = req[t] /\ user'[t] = user[t]

(* What t wrote to the deal stays what DealWritten says while others move on ... *)
LEMMA DealWrittenStable ==
    ASSUME NEW t, pc'[t] = pc[t], req'[t] = req[t], deal' = deal, newDeal' = newDeal,
           now \in Nat, now' \in Nat, now <= now', deal.deadline \in Nat, DealWritten(t)
    PROVE  DealWritten(t)'
<1>1. 1..now \subseteq 1..now'
  OBVIOUS
<1>2. Overdue(deal, now) => Overdue(deal, now)'
  BY DEF Overdue
<1> QED
  BY <1>1, <1>2 DEF DealWritten, Submittable, Submitted, Acceptable, AcceptedOnce, Cancellable

(* ... and so does what t wrote to an invitation. *)
LEMMA InvitationWrittenStable ==
    ASSUME NEW t, NEW u, pc'[t] = pc[t], req'[t] = req[t], user'[t] = user[t],
           inv'[u] = inv[u], newInv'[u] = newInv[u],
           dealLock = t => dealLock' = t /\ newDeal' = newDeal,
           InvitationWritten(t, u)
    PROVE  InvitationWritten(t, u)'
  BY DEF InvitationWritten, Ended

(* A step of s that neither writes rows nor leaves a transaction that did. *)
LEMMA ReadStep ==
    ASSUME IInv, TypeOK', NEW s \in Sessions, OthersLocal(s),
           UNCHANGED <<rows, now>>, 
           ~HoldsDeal(s), ~HoldsDeal(s)', pc[s] # "commit", pc'[s] # "commit"
    PROVE  TransactionsInv'
<1> USE DEF IInv, TransactionsInv
<1>1. CleanRows'
  BY DEF CleanRows
<1>2. DealHeld'
  BY DEF DealHeld, HoldsDeal, OthersLocal
<1>3. DealWrites'
  <2> SUFFICES ASSUME NEW t \in Sessions, dealLock' = t PROVE DealWritten(t)'
    BY DEF DealWrites
  <2>1. t # s
    BY DEF DealHeld
  <2> QED
    BY <2>1, DealWrittenStable DEF DealWrites, OthersLocal, TypeOK
<1>4. InvitationWrites'
  <2> SUFFICES ASSUME NEW t \in Sessions, NEW u \in Users, invLock'[u] = t
               PROVE  InvitationWritten(t, u)'
    BY DEF InvitationWrites
  <2>1. t # s
    BY DEF InvitationWrites, InvitationWritten, HoldsDeal
  <2> QED
    BY <2>1, InvitationWrittenStable DEF InvitationWrites, OthersLocal
<1>5. AcceptanceWritten'
  BY DEF AcceptanceWritten, OthersLocal, HoldsDeal
<1> QED
  BY <1>1, <1>2, <1>3, <1>4, <1>5

(* A step of s that updates the deal's row. *)
LEMMA WriteStep ==
    ASSUME IInv, TypeOK', NEW s \in Sessions, OthersLocal(s),
           NEW r, WriteDeal(s, r), UNCHANGED <<now, deal, inv, newInv, invLock>>,
           pc[s] \in {"expire", "write"}, HoldsDeal(s)', DealWritten(s)',
           req'[s] = "accept" => pc'[s] \notin {"close", "commit"}
    PROVE  TransactionsInv'
<1> USE NoSessionAssumption DEF IInv, TransactionsInv, WriteDeal
<1>1. CleanRows'
  BY DEF CleanRows
<1>2. DealHeld'
  BY DEF DealHeld, HoldsDeal, OthersLocal
<1>3. DealWrites'
  BY DEF DealWrites
<1>4. InvitationWrites'
  <2> SUFFICES ASSUME NEW t \in Sessions, NEW u \in Users, invLock'[u] = t
               PROVE  InvitationWritten(t, u)'
    BY DEF InvitationWrites
  <2>1. t # s
    BY DEF InvitationWrites, InvitationWritten
  <2> QED
    BY <2>1, InvitationWrittenStable DEF InvitationWrites, OthersLocal
<1>5. AcceptanceWritten'
  BY DEF AcceptanceWritten, OthersLocal
<1> QED
  BY <1>1, <1>2, <1>3, <1>4, <1>5

(* A step of s that writes the invitations of S, all open to it. *)
LEMMA InvitationStep ==
    ASSUME IInv, TypeOK', NEW s \in Sessions, OthersLocal(s),
           NEW S \in SUBSET Users, NEW st, WriteInvitations(s, S, st),
           UNCHANGED <<now, deal, newDeal, dealLock, inv>>,
           HoldsDeal(s)' <=> HoldsDeal(s), HoldsDeal(s) => DealWritten(s)',
           \A u \in Users : invLock'[u] = s => InvitationWritten(s, u)',
           req'[s] = "accept" /\ pc'[s] \in {"close", "commit"}
               => user'[s] \in Users /\ invLock'[user'[s]] = s /\ newInv'[user'[s]] = "ACCEPTED"
    PROVE  TransactionsInv'
<1> USE NoSessionAssumption DEF IInv, TransactionsInv, WriteInvitations
<1>1. CleanRows'
  BY DEF CleanRows
<1>2. DealHeld'
  BY DEF DealHeld, HoldsDeal, OthersLocal
<1>3. DealWrites'
  <2> SUFFICES ASSUME NEW t \in Sessions, dealLock' = t PROVE DealWritten(t)'
    BY DEF DealWrites
  <2>1. CASE t = s
    BY <2>1 DEF DealHeld
  <2>2. CASE t # s
    BY <2>2, DealWrittenStable DEF DealWrites, OthersLocal, TypeOK
  <2> QED
    BY <2>1, <2>2
<1>4. InvitationWrites'
  <2> SUFFICES ASSUME NEW t \in Sessions, NEW u \in Users, invLock'[u] = t, t # s
               PROVE  InvitationWritten(t, u)'
    BY DEF InvitationWrites
  <2>1. invLock[u] = t /\ newInv'[u] = newInv[u]
    OBVIOUS
  <2> QED
    BY <2>1, InvitationWrittenStable DEF InvitationWrites, OthersLocal
<1>5. AcceptanceWritten'
  <2> SUFFICES ASSUME NEW t \in Sessions, req'[t] = "accept", pc'[t] \in {"close", "commit"},
                      t # s
               PROVE  user'[t] \in Users /\ invLock'[user'[t]] = t
                          /\ newInv'[user'[t]] = "ACCEPTED"
    BY DEF AcceptanceWritten
  <2>1. user[t] \in Users /\ invLock[user[t]] = t /\ newInv[user[t]] = "ACCEPTED"
    BY DEF AcceptanceWritten, OthersLocal
  <2>2. user'[t] = user[t] /\ user[t] \notin S
    BY <2>1 DEF OthersLocal
  <2> QED
    BY <2>1, <2>2
<1> QED
  BY <1>1, <1>2, <1>3, <1>4, <1>5

(* A step of s that ends its transaction, by a commit or a rollback. *)
LEMMA ReleaseStep ==
    ASSUME IInv, TypeOK', NEW s \in Sessions, OthersLocal(s),
           CommitWrites(s) \/ RollbackWrites(s), now' = now,
           ~HoldsDeal(s)', pc'[s] # "commit"
    PROVE  TransactionsInv'
<1> USE NoSessionAssumption DEF IInv, TransactionsInv, CommitWrites, RollbackWrites, Released
<1>1. CleanRows'
  BY DEF CleanRows, TypeOK
<1>2. DealHeld'
  BY DEF DealHeld, HoldsDeal, OthersLocal
<1>3. DealWrites'
  <2> SUFFICES ASSUME NEW t \in Sessions, dealLock' = t PROVE DealWritten(t)'
    BY DEF DealWrites
  <2>1. t # s /\ dealLock = t
    OBVIOUS
  <2> QED
    BY <2>1, DealWrittenStable DEF DealWrites, OthersLocal, TypeOK
<1>4. InvitationWrites'
  <2> SUFFICES ASSUME NEW t \in Sessions, NEW u \in Users, invLock'[u] = t
               PROVE  InvitationWritten(t, u)'
    BY DEF InvitationWrites
  <2>1. t # s /\ invLock[u] = t /\ newInv'[u] = newInv[u] /\ inv'[u] = inv[u]
    OBVIOUS
  <2>2. dealLock = t => dealLock' = t /\ newDeal' = newDeal
    BY <2>1
  <2> QED
    BY <2>1, <2>2, InvitationWrittenStable DEF InvitationWrites, OthersLocal
<1>5. AcceptanceWritten'
  <2> SUFFICES ASSUME NEW t \in Sessions, req'[t] = "accept", pc'[t] \in {"close", "commit"}
               PROVE  user'[t] \in Users /\ invLock'[user'[t]] = t
                          /\ newInv'[user'[t]] = "ACCEPTED"
    BY DEF AcceptanceWritten
  <2>1. t # s
    BY DEF HoldsDeal
  <2>2. user[t] \in Users /\ invLock[user[t]] = t /\ newInv[user[t]] = "ACCEPTED"
    BY <2>1 DEF AcceptanceWritten, OthersLocal
  <2>3. user'[t] = user[t]
    BY <2>1 DEF OthersLocal
  <2> QED
    BY <2>1, <2>2, <2>3
<1> QED
  BY <1>1, <1>2, <1>3, <1>4, <1>5

(* RowInv speaks of the committed rows and the clock only. *)
LEMMA RowStable ==
    ASSUME TypeOK, TypeOK', RowInv, deal' = deal, inv' = inv, now <= now'
    PROVE  RowInv'
  BY DEF TypeOK, RowInv, AcceptancesCounted, AcceptedBy, PublishedWhenFull, PublishedInTime,
         ExpiredAfterDeadline, ClosedWithDeal

(* Each statement of a handler other than a commit preserves the invariant. *)
LEMMA InductiveStep ==
    ASSUME IInv, TypeOK', NEW s \in Sessions, Step(s), ~Commit(s)
    PROVE  TransactionsInv' /\ ReadsInv' /\ RowInv'
<1> USE NoSessionAssumption, LimitsAssumption DEF Goto, Finish
<1>1. CASE NothingOverdue(s)
  <2>1. OthersLocal(s)
    BY <1>1 DEF NothingOverdue, AfterExpire, OthersLocal, IInv, TypeOK
  <2>2. TransactionsInv'
    <3>1. ~HoldsDeal(s) /\ ~HoldsDeal(s)'
      BY <1>1 DEF NothingOverdue, AfterExpire, HoldsDeal, IInv, TypeOK
    <3> QED
      BY <1>1, <2>1, <3>1, ReadStep DEF NothingOverdue, AfterExpire, IInv, TypeOK
  <2>3. ReadsInv'
    BY <1>1 DEF NothingOverdue, AfterExpire, IInv, TypeOK, ReadsInv
  <2>4. RowInv'
    BY <1>1, RowStable DEF NothingOverdue, AfterExpire, IInv, TypeOK
  <2> QED
    BY <2>2, <2>3, <2>4
<1>2. CASE ExpireOverdue(s)
  <2>1. OthersLocal(s)
    BY <1>2 DEF ExpireOverdue, WriteDeal, OthersLocal, IInv, TypeOK
  <2>2. TransactionsInv'
    <3>1. HoldsDeal(s)'
      BY <1>2 DEF ExpireOverdue, WriteDeal, HoldsDeal, IInv, TypeOK
    <3>2. DealWritten(s)'
      BY <1>2 DEF ExpireOverdue, WriteDeal, DealWritten, IInv, TypeOK, ReadsInv, Overdue
    <3> QED
      BY <1>2, <2>1, <3>1, <3>2, WriteStep DEF ExpireOverdue, IInv, TypeOK
  <2>3. ReadsInv'
    BY <1>2 DEF ExpireOverdue, WriteDeal, IInv, TypeOK, ReadsInv
  <2>4. RowInv'
    BY <1>2, RowStable DEF ExpireOverdue, WriteDeal, IInv, TypeOK
  <2> QED
    BY <2>2, <2>3, <2>4
<1>3. CASE ReadDeal(s)
  <2>1. OthersLocal(s)
    BY <1>3 DEF ReadDeal, ReadOn, OthersLocal, IInv, TypeOK
  <2>2. TransactionsInv'
    <3>1. ~HoldsDeal(s) /\ ~HoldsDeal(s)'
      BY <1>3 DEF ReadDeal, ReadOn, HoldsDeal, IInv, TypeOK
    <3> QED
      BY <1>3, <2>1, <3>1, ReadStep DEF ReadDeal, ReadOn, IInv, TypeOK
  <2>3. ReadsInv'
    BY <1>3 DEF ReadDeal, ReadOn, IInv, TypeOK, ReadsInv
  <2>4. RowInv'
    BY <1>3, RowStable DEF ReadDeal, ReadOn, IInv, TypeOK
  <2> QED
    BY <2>2, <2>3, <2>4
<1>4. CASE ReadInvitation(s)
  <2>1. OthersLocal(s)
    BY <1>4 DEF ReadInvitation, ReadOn, OthersLocal, IInv, TypeOK
  <2>2. TransactionsInv'
    <3>1. ~HoldsDeal(s) /\ ~HoldsDeal(s)'
      BY <1>4 DEF ReadInvitation, ReadOn, HoldsDeal, IInv, TypeOK, ReadsInv
    <3> QED
      BY <1>4, <2>1, <3>1, ReadStep DEF ReadInvitation, ReadOn, IInv, TypeOK
  <2>3. ReadsInv'
    <3>1. /\ req[s] \in {"accept", "decline"} /\ user[s] \in Users /\ deal.status # "DRAFT"
          /\ deal.submitted_at <= now
      <4>1. req[s] \in {"accept", "decline"} /\ user[s] \in Users /\ deal.status # "DRAFT"
        BY <1>4 DEF ReadInvitation, IInv, ReadsInv
      <4>2. deal.submitted_at <= now
        BY <4>1 DEF IInv, TypeOK, RowInv
      <4> QED
        BY <4>1, <4>2
    <3>2. /\ pc'[s] \in {"write", "decide"} /\ at'[s] \in {0, now}
          /\ pc'[s] = "write" => at'[s] = now
          /\ \A t \in Sessions \ {s} : at'[t] = at[t]
          /\ UNCHANGED <<req, user, deal, now>>
      BY <1>4, <3>1 DEF ReadInvitation, ReadOn, IInv, TypeOK
    <3> QED
      BY <2>1, <3>1, <3>2 DEF OthersLocal, ReadsInv, IInv, TypeOK
  <2>4. RowInv'
    BY <1>4, RowStable DEF ReadInvitation, ReadOn, IInv, TypeOK
  <2> QED
    BY <2>2, <2>3, <2>4
<1>5. CASE Reject(s)
  <2>1. OthersLocal(s)
    BY <1>5 DEF Reject, OthersLocal, IInv, TypeOK
  <2>2. TransactionsInv'
    <3>1. ~HoldsDeal(s) /\ ~HoldsDeal(s)'
      BY <1>5 DEF Reject, HoldsDeal, IInv, TypeOK
    <3> QED
      BY <1>5, <2>1, <3>1, ReadStep DEF Reject, IInv, TypeOK
  <2>3. ReadsInv'
    BY <1>5 DEF Reject, IInv, TypeOK, ReadsInv
  <2>4. RowInv'
    BY <1>5, RowStable DEF Reject, IInv, TypeOK
  <2> QED
    BY <2>2, <2>3, <2>4
<1>6. CASE SubmitDeal(s)
  <2>1. OthersLocal(s)
    BY <1>6 DEF SubmitDeal, WriteDeal, OthersLocal, IInv, TypeOK
  <2>2. TransactionsInv'
    <3>1. HoldsDeal(s)'
      BY <1>6 DEF SubmitDeal, WriteDeal, HoldsDeal, IInv, TypeOK
    <3>2. DealWritten(s)'
      BY <1>6 DEF SubmitDeal, WriteDeal, DealWritten, IInv, TypeOK, ReadsInv
    <3> QED
      BY <1>6, <2>1, <3>1, <3>2, WriteStep DEF SubmitDeal, IInv, TypeOK
  <2>3. ReadsInv'
    BY <1>6 DEF SubmitDeal, WriteDeal, IInv, TypeOK, ReadsInv
  <2>4. RowInv'
    BY <1>6, RowStable DEF SubmitDeal, WriteDeal, IInv, TypeOK
  <2> QED
    BY <2>2, <2>3, <2>4
<1>7. CASE InviteEligible(s)
  <2>1. OthersLocal(s)
    BY <1>7 DEF InviteEligible, WriteInvitations, OthersLocal, IInv, TypeOK
  <2>2. TransactionsInv'
    <3>1. HoldsDeal(s)' <=> HoldsDeal(s)
      BY <1>7 DEF InviteEligible, WriteInvitations, HoldsDeal, IInv, TypeOK
    <3>2. HoldsDeal(s) => DealWritten(s)'
      BY <1>7 DEF InviteEligible, WriteInvitations, DealWritten, IInv, TransactionsInv, DealHeld, DealWrites, TypeOK, HoldsDeal, Submittable, Submitted, Acceptable, AcceptedOnce, Cancellable, Overdue
    <3>3. ASSUME NEW u \in Users, invLock'[u] = s PROVE InvitationWritten(s, u)'
      <4>1. invLock[u] # s
        BY <1>7 DEF InviteEligible, IInv, TransactionsInv, InvitationWrites, InvitationWritten
      <4>2. newInv'[u] = "INVITED" /\ inv'[u] = "NONE" /\ pc'[s] = "commit" /\ req'[s] = req[s]
        BY <1>7, <3>3, <4>1 DEF InviteEligible, WriteInvitations, IInv, TypeOK
      <4>3. req[s] \in {"submit", "refresh"}
        BY <1>7 DEF InviteEligible, IInv, ReadsInv
      <4> QED
        BY <4>2, <4>3 DEF InvitationWritten
    <3>4. req'[s] = "accept" /\ pc'[s] \in {"close", "commit"}
              => user'[s] \in Users /\ invLock'[user'[s]] = s /\ newInv'[user'[s]] = "ACCEPTED"
      BY <1>7 DEF InviteEligible, IInv, TypeOK, ReadsInv
    <3> QED
      BY <1>7, <2>1, <3>1, <3>2, <3>3, <3>4, InvitationStep DEF InviteEligible, IInv, TypeOK
  <2>3. ReadsInv'
    BY <1>7 DEF InviteEligible, WriteInvitations, IInv, TypeOK, ReadsInv
  <2>4. RowInv'
    BY <1>7, RowStable DEF InviteEligible, WriteInvitations, IInv, TypeOK
  <2> QED
    BY <2>2, <2>3, <2>4
<1>8. CASE RecordAcceptance(s)
  <2>1. OthersLocal(s)
    BY <1>8 DEF RecordAcceptance, WriteDeal, OthersLocal, IInv, TypeOK
  <2>2. TransactionsInv'
    <3>1. HoldsDeal(s)'
      BY <1>8 DEF RecordAcceptance, WriteDeal, HoldsDeal, IInv, TypeOK
    <3>2. DealWritten(s)'
      <4>1. deal.submitted_at <= at[s] /\ at[s] \in 1..now
        BY <1>8 DEF RecordAcceptance, Acceptable, IInv, TypeOK, ReadsInv, RowInv
      <4>2. pc'[s] = "decide" /\ req'[s] = "accept" /\ now' = now /\ deal' = deal
            /\ newDeal' = AcceptedOnce(deal, at[s]) /\ Acceptable(deal, at[s])
        BY <1>8 DEF RecordAcceptance, WriteDeal, IInv, TypeOK
      <4> QED
        BY <4>1, <4>2 DEF DealWritten, Acceptable, AcceptedOnce
    <3> QED
      BY <1>8, <2>1, <3>1, <3>2, WriteStep DEF RecordAcceptance, IInv, TypeOK
  <2>3. ReadsInv'
    BY <1>8 DEF RecordAcceptance, WriteDeal, IInv, TypeOK, ReadsInv
  <2>4. RowInv'
    BY <1>8, RowStable DEF RecordAcceptance, WriteDeal, IInv, TypeOK
  <2> QED
    BY <2>2, <2>3, <2>4
<1>9. CASE CancelDeal(s)
  <2>1. OthersLocal(s)
    BY <1>9 DEF CancelDeal, WriteDeal, OthersLocal, IInv, TypeOK
  <2>2. TransactionsInv'
    <3>1. HoldsDeal(s)'
      BY <1>9 DEF CancelDeal, WriteDeal, HoldsDeal, IInv, TypeOK
    <3>2. DealWritten(s)'
      BY <1>9 DEF CancelDeal, WriteDeal, DealWritten, IInv, TypeOK, ReadsInv
    <3> QED
      BY <1>9, <2>1, <3>1, <3>2, WriteStep DEF CancelDeal, IInv, TypeOK
  <2>3. ReadsInv'
    BY <1>9 DEF CancelDeal, WriteDeal, IInv, TypeOK, ReadsInv
  <2>4. RowInv'
    BY <1>9, RowStable DEF CancelDeal, WriteDeal, IInv, TypeOK
  <2> QED
    BY <2>2, <2>3, <2>4
<1>10. CASE DeleteDeal(s)
  <2>1. OthersLocal(s)
    BY <1>10 DEF DeleteDeal, WriteDeal, OthersLocal, IInv, TypeOK
  <2>2. TransactionsInv'
    <3>1. HoldsDeal(s)'
      BY <1>10 DEF DeleteDeal, WriteDeal, HoldsDeal, IInv, TypeOK
    <3>2. DealWritten(s)'
      BY <1>10 DEF DeleteDeal, WriteDeal, DealWritten, IInv, TypeOK, ReadsInv
    <3> QED
      BY <1>10, <2>1, <3>1, <3>2, WriteStep DEF DeleteDeal, IInv, TypeOK
  <2>3. ReadsInv'
    BY <1>10 DEF DeleteDeal, WriteDeal, IInv, TypeOK, ReadsInv
  <2>4. RowInv'
    BY <1>10, RowStable DEF DeleteDeal, WriteDeal, IInv, TypeOK
  <2> QED
    BY <2>2, <2>3, <2>4
<1>11. CASE EditItem(s)
  <2>1. OthersLocal(s)
    BY <1>11 DEF EditItem, OthersLocal, IInv, TypeOK
  <2>2. TransactionsInv'
    <3>1. ~HoldsDeal(s) /\ ~HoldsDeal(s)'
      BY <1>11 DEF EditItem, HoldsDeal, IInv, TypeOK
    <3> QED
      BY <1>11, <2>1, <3>1, ReadStep DEF EditItem, IInv, TypeOK
  <2>3. ReadsInv'
    BY <1>11 DEF EditItem, IInv, TypeOK, ReadsInv
  <2>4. RowInv'
    BY <1>11, RowStable DEF EditItem, IInv, TypeOK
  <2> QED
    BY <2>2, <2>3, <2>4
<1>12. CASE UpdateMissed(s)
  <2>1. OthersLocal(s)
    BY <1>12 DEF UpdateMissed, RollbackWrites, Released, OthersLocal, IInv, TypeOK
  <2>2. TransactionsInv'
    <3>1. ~HoldsDeal(s)'
      BY <1>12 DEF UpdateMissed, RollbackWrites, Released, HoldsDeal, IInv, TypeOK
    <3> QED
      BY <1>12, <2>1, <3>1, ReleaseStep DEF UpdateMissed, IInv, TypeOK
  <2>3. ReadsInv'
    BY <1>12 DEF UpdateMissed, RollbackWrites, Released, IInv, TypeOK, ReadsInv
  <2>4. RowInv'
    BY <1>12, RowStable DEF UpdateMissed, RollbackWrites, IInv, TypeOK
  <2> QED
    BY <2>2, <2>3, <2>4
<1>13. CASE Decide(s)
  <2>1. OthersLocal(s)
    BY <1>13 DEF Decide, WriteInvitations, OthersLocal, IInv, TypeOK
  <2>2. TransactionsInv'
    <3>1. HoldsDeal(s)' <=> HoldsDeal(s)
      BY <1>13 DEF Decide, WriteInvitations, HoldsDeal, IInv, TypeOK
    <3>2. HoldsDeal(s) => DealWritten(s)'
      <4> SUFFICES ASSUME HoldsDeal(s) PROVE DealWritten(s)'
        OBVIOUS
      <4>1. DealWritten(s)
        BY DEF IInv, TransactionsInv, DealHeld, DealWrites
      <4>2. /\ pc[s] = "decide" /\ now' = now /\ deal' = deal /\ newDeal' = newDeal
            /\ req'[s] = req[s]
            /\ pc'[s] = IF req[s] = "accept" /\ newDeal.status = "PUBLISHED"
                       THEN "close" ELSE "commit"
        BY <1>13 DEF Decide, WriteInvitations, IInv, TypeOK
      <4>3. /\ req[s] = "accept"
            /\ \E t \in 1..now : /\ Acceptable(deal, t) /\ deal.submitted_at <= t
                                 /\ newDeal = AcceptedOnce(deal, t)
        BY <4>1, <4>2 DEF DealWritten
      <4> QED
        BY <4>2, <4>3 DEF DealWritten, Acceptable, AcceptedOnce
    <3>3. ASSUME NEW u \in Users, invLock'[u] = s PROVE InvitationWritten(s, u)'
      <4>1. invLock[u] # s
        BY <1>13 DEF Decide, IInv, TransactionsInv, InvitationWrites, InvitationWritten
      <4>2. /\ u = user[s] /\ inv'[u] = "INVITED" /\ req'[s] = req[s] /\ user'[s] = user[s]
            /\ newInv'[u] = IF req[s] = "accept" THEN "ACCEPTED" ELSE "DECLINED"
            /\ pc'[s] = IF req[s] = "accept" /\ newDeal.status = "PUBLISHED"
                        THEN "close" ELSE "commit"
        BY <1>13, <3>3, <4>1 DEF Decide, WriteInvitations, IInv, TypeOK
      <4>3. req[s] \in {"accept", "decline"}
        BY <1>13 DEF Decide, IInv, ReadsInv
      <4> QED
        BY <4>2, <4>3 DEF InvitationWritten
    <3>4. req'[s] = "accept" /\ pc'[s] \in {"close", "commit"}
              => user'[s] \in Users /\ invLock'[user'[s]] = s /\ newInv'[user'[s]] = "ACCEPTED"
      BY <1>13 DEF Decide, WriteInvitations, IInv, TypeOK, ReadsInv
    <3> QED
      <4>1. {user[s]} \in SUBSET Users
        BY <1>13 DEF Decide, IInv, ReadsInv
      <4> QED
        BY <1>13, <2>1, <3>1, <3>2, <3>3, <3>4, <4>1, InvitationStep DEF Decide
  <2>3. ReadsInv'
    BY <1>13 DEF Decide, WriteInvitations, IInv, TypeOK, ReadsInv
  <2>4. RowInv'
    BY <1>13, RowStable DEF Decide, WriteInvitations, IInv, TypeOK
  <2> QED
    BY <2>2, <2>3, <2>4
<1>14. CASE DecideMissed(s)
  <2>1. OthersLocal(s)
    BY <1>14 DEF DecideMissed, RollbackWrites, Released, OthersLocal, IInv, TypeOK
  <2>2. TransactionsInv'
    <3>1. ~HoldsDeal(s)'
      BY <1>14 DEF DecideMissed, RollbackWrites, Released, HoldsDeal, IInv, TypeOK
    <3> QED
      BY <1>14, <2>1, <3>1, ReleaseStep DEF DecideMissed, IInv, TypeOK
  <2>3. ReadsInv'
    BY <1>14 DEF DecideMissed, RollbackWrites, Released, IInv, TypeOK, ReadsInv
  <2>4. RowInv'
    BY <1>14, RowStable DEF DecideMissed, RollbackWrites, Released, IInv, TypeOK
  <2> QED
    BY <2>2, <2>3, <2>4
<1>15. CASE CloseOpen(s)
  <2>1. OthersLocal(s)
    BY <1>15 DEF CloseOpen, WriteInvitations, Open, OthersLocal, IInv, TypeOK
  <2>2. TransactionsInv'
    <3>1. HoldsDeal(s)' <=> HoldsDeal(s)
      BY <1>15 DEF CloseOpen, WriteInvitations, Open, HoldsDeal, IInv, TypeOK, ReadsInv
    <3>2. HoldsDeal(s) => DealWritten(s)'
      BY <1>15 DEF CloseOpen, WriteInvitations, Open, DealWritten, IInv, TransactionsInv, DealHeld, DealWrites, TypeOK, HoldsDeal, Submittable, Submitted, Acceptable, AcceptedOnce, Cancellable, Overdue
    <3>3. ASSUME NEW u \in Users, invLock'[u] = s PROVE InvitationWritten(s, u)'
      <4>1. dealLock = s /\ newDeal.status \in Ended
        <5>1. dealLock = s /\ DealWritten(s)
          BY <1>15 DEF CloseOpen, IInv, TransactionsInv, DealHeld, DealWrites, HoldsDeal
        <5> QED
          BY <1>15, <5>1 DEF CloseOpen, DealWritten, Ended, IInv, TypeOK
      <4>2. CASE invLock[u] = s
        <5>1. InvitationWritten(s, u)
          BY <4>2 DEF IInv, TransactionsInv, InvitationWrites
        <5>2. u \notin Open(s)
          BY <4>2 DEF Open
        <5> QED
          BY <1>15, <5>1, <5>2 DEF CloseOpen, WriteInvitations, InvitationWritten, IInv, TypeOK
      <4>3. CASE invLock[u] # s
        <5>1. newInv'[u] = "CLOSED" /\ inv[u] = "INVITED"
          BY <1>15, <3>3, <4>3 DEF CloseOpen, WriteInvitations, Open
        <5>2. pc'[s] = "expire_commit" \/ (req[s] \in {"accept", "cancel"} /\ pc'[s] = "commit")
          BY <1>15 DEF CloseOpen, IInv, TypeOK, ReadsInv
        <5> QED
          BY <1>15, <4>1, <5>1, <5>2 DEF CloseOpen, InvitationWritten, Ended
      <4> QED
        BY <4>2, <4>3
    <3>4. req'[s] = "accept" /\ pc'[s] \in {"close", "commit"}
              => user'[s] \in Users /\ invLock'[user'[s]] = s /\ newInv'[user'[s]] = "ACCEPTED"
      BY <1>15 DEF CloseOpen, WriteInvitations, Open, IInv, TypeOK, TransactionsInv, AcceptanceWritten
    <3> QED
      <4>1. Open(s) \in SUBSET Users
        BY DEF Open
      <4> QED
        BY <1>15, <2>1, <3>1, <3>2, <3>3, <3>4, <4>1, InvitationStep DEF CloseOpen
  <2>3. ReadsInv'
    BY <1>15 DEF CloseOpen, WriteInvitations, Open, IInv, TypeOK, ReadsInv
  <2>4. RowInv'
    BY <1>15, RowStable DEF CloseOpen, WriteInvitations, Open, IInv, TypeOK
  <2> QED
    BY <2>2, <2>3, <2>4
<1>16. CASE ListUnnotified(s)
  <2>1. OthersLocal(s)
    BY <1>16 DEF ListUnnotified, OthersLocal, IInv, TypeOK
  <2>2. TransactionsInv'
    <3>1. ~HoldsDeal(s) /\ ~HoldsDeal(s)'
      BY <1>16 DEF ListUnnotified, HoldsDeal, IInv, TypeOK
    <3> QED
      BY <1>16, <2>1, <3>1, ReadStep DEF ListUnnotified, IInv, TypeOK
  <2>3. ReadsInv'
    BY <1>16 DEF ListUnnotified, IInv, TypeOK, ReadsInv
  <2>4. RowInv'
    BY <1>16, RowStable DEF ListUnnotified, IInv, TypeOK
  <2> QED
    BY <2>2, <2>3, <2>4
<1>17. CASE ClaimForNotification(s)
  <2>1. OthersLocal(s)
    BY <1>17 DEF ClaimForNotification, OthersLocal, IInv, TypeOK
  <2>2. TransactionsInv'
    <3>1. ~HoldsDeal(s) /\ ~HoldsDeal(s)'
      BY <1>17 DEF ClaimForNotification, HoldsDeal, IInv, TypeOK
    <3> QED
      BY <1>17, <2>1, <3>1, ReadStep DEF ClaimForNotification, IInv, TypeOK
  <2>3. ReadsInv'
    BY <1>17 DEF ClaimForNotification, IInv, TypeOK, ReadsInv
  <2>4. RowInv'
    BY <1>17, RowStable DEF ClaimForNotification, IInv, TypeOK
  <2> QED
    BY <2>2, <2>3, <2>4
<1>18. CASE AlreadyClaimed(s)
  <2>1. OthersLocal(s)
    BY <1>18 DEF AlreadyClaimed, OthersLocal, IInv, TypeOK
  <2>2. TransactionsInv'
    <3>1. ~HoldsDeal(s) /\ ~HoldsDeal(s)'
      BY <1>18 DEF AlreadyClaimed, HoldsDeal, IInv, TypeOK
    <3> QED
      BY <1>18, <2>1, <3>1, ReadStep DEF AlreadyClaimed, IInv, TypeOK
  <2>3. ReadsInv'
    BY <1>18 DEF AlreadyClaimed, IInv, TypeOK, ReadsInv
  <2>4. RowInv'
    BY <1>18, RowStable DEF AlreadyClaimed, IInv, TypeOK
  <2> QED
    BY <2>2, <2>3, <2>4
<1>19. CASE NotifyAcceptanceRequested(s)
  <2>1. OthersLocal(s)
    BY <1>19 DEF NotifyAcceptanceRequested, OthersLocal, IInv, TypeOK
  <2>2. TransactionsInv'
    <3>1. ~HoldsDeal(s) /\ ~HoldsDeal(s)'
      BY <1>19 DEF NotifyAcceptanceRequested, HoldsDeal, IInv, TypeOK
    <3> QED
      BY <1>19, <2>1, <3>1, ReadStep DEF NotifyAcceptanceRequested, IInv, TypeOK
  <2>3. ReadsInv'
    BY <1>19 DEF NotifyAcceptanceRequested, IInv, TypeOK, ReadsInv
  <2>4. RowInv'
    BY <1>19, RowStable DEF NotifyAcceptanceRequested, IInv, TypeOK
  <2> QED
    BY <2>2, <2>3, <2>4
<1>20. CASE NotifyDone(s)
  <2>1. OthersLocal(s)
    BY <1>20 DEF NotifyDone, OthersLocal, IInv, TypeOK
  <2>2. TransactionsInv'
    <3>1. ~HoldsDeal(s) /\ ~HoldsDeal(s)'
      BY <1>20 DEF NotifyDone, HoldsDeal, IInv, TypeOK
    <3> QED
      BY <1>20, <2>1, <3>1, ReadStep DEF NotifyDone, IInv, TypeOK
  <2>3. ReadsInv'
    BY <1>20 DEF NotifyDone, IInv, TypeOK, ReadsInv
  <2>4. RowInv'
    BY <1>20, RowStable DEF NotifyDone, IInv, TypeOK
  <2> QED
    BY <2>2, <2>3, <2>4
<1> QED
  BY <1>1, <1>2, <1>3, <1>4, <1>5, <1>6, <1>7, <1>8, <1>9, <1>10, <1>11, <1>12, <1>13, <1>14, <1>15, <1>16, <1>17, <1>18, <1>19, <1>20 DEF Step

(* What a commit of s does to the accepted invitations ... *)
LEMMA CommitAccepted ==
    ASSUME IInv, NEW s \in Sessions, Commit(s)
    PROVE  IF req[s] = "accept" /\ pc[s] = "commit"
           THEN user[s] \in Users \ AcceptedBy /\ AcceptedBy' = AcceptedBy \cup {user[s]}
           ELSE AcceptedBy' = AcceptedBy
<1> USE DEF IInv, TypeOK, TransactionsInv, InvitationWrites, InvitationWritten, AcceptedBy
<1>1. \A u \in Users : inv'[u] = IF invLock[u] = s THEN newInv[u] ELSE inv[u]
  BY DEF Commit, CommitWrites
<1>2. pc[s] \in {"commit", "expire_commit"}
  BY DEF Commit
<1>3. CASE req[s] = "accept" /\ pc[s] = "commit"
  <2>1. user[s] \in Users /\ invLock[user[s]] = s /\ newInv[user[s]] = "ACCEPTED"
    BY <1>3 DEF AcceptanceWritten
  <2>2. inv[user[s]] = "INVITED"
    BY <2>1
  <2>3. \A u \in Users : u # user[s] => (inv'[u] = "ACCEPTED" <=> inv[u] = "ACCEPTED")
    BY <1>1, <1>3
  <2> QED
    BY <1>1, <1>3, <2>1, <2>2, <2>3
<1>4. CASE ~(req[s] = "accept" /\ pc[s] = "commit")
  <2>1. \A u \in Users : inv'[u] = "ACCEPTED" <=> inv[u] = "ACCEPTED"
    BY <1>1, <1>2, <1>4
  <2> QED
    BY <1>4, <2>1
<1> QED
  BY <1>3, <1>4

(* ... to the closed ones ... *)
LEMMA CommitClosed ==
    ASSUME IInv, NEW s \in Sessions, Commit(s), NEW u \in Users, inv'[u] = "CLOSED"
    PROVE  inv[u] = "CLOSED" \/ (dealLock = s /\ newDeal.status \in Ended)
  BY DEF Commit, CommitWrites, IInv, TypeOK, TransactionsInv, InvitationWrites, InvitationWritten

(* ... and to the deal. *)
LEMMA CommitDeal ==
    ASSUME IInv, NEW s \in Sessions, Commit(s)
    PROVE  \/ /\ deal' = deal
              /\ ~(req[s] = "accept" /\ pc[s] = "commit")
              /\ dealLock # s
           \/ /\ deal' = newDeal /\ dealLock = s
              /\ DealWritten(s)
<1>1. CASE dealLock = s
  BY <1>1 DEF Commit, CommitWrites, IInv, TransactionsInv, DealWrites
<1>2. CASE dealLock # s
  BY <1>2 DEF Commit, CommitWrites, IInv, TransactionsInv, DealHeld, HoldsDeal
<1> QED
  BY <1>1, <1>2

(* One more accepted invitation is counted as one more. *)
LEMMA AcceptedFinite ==
    ASSUME NEW u \in Users \ AcceptedBy
    PROVE  /\ Cardinality(AcceptedBy) \in Nat
           /\ Cardinality(AcceptedBy \cup {u}) = Cardinality(AcceptedBy) + 1
<1>1. IsFiniteSet(AcceptedBy)
  BY UsersFinite, FS_Subset DEF AcceptedBy
<1> QED
  BY <1>1, FS_CardinalityType, FS_AddElement

(* A commit preserves the invariant, whichever handler commits. *)
LEMMA CommitStep ==
    ASSUME IInv, TypeOK', NEW s \in Sessions, Commit(s)
    PROVE  TransactionsInv' /\ ReadsInv' /\ RowInv'
<1> USE LimitsAssumption DEF Goto, Finish
<1>0. now' = now /\ now \in Nat \ {0} /\ deal \in DealRow
  BY DEF Commit, IInv, TypeOK
<1>1. TransactionsInv'
  <2>1. OthersLocal(s)
    BY DEF Commit, AfterExpire, OthersLocal, IInv, TypeOK
  <2>2. ~HoldsDeal(s)' /\ pc'[s] # "commit"
    BY DEF Commit, AfterExpire, HoldsDeal, IInv, TypeOK
  <2> QED
    BY <2>1, <2>2, ReleaseStep DEF Commit
<1> DEFINE deals ==
      \/ deal' = deal /\ ~(req[s] = "accept" /\ pc[s] = "commit") /\ dealLock # s
      \/ deal' = [deal EXCEPT !.status = "EXPIRED"] /\ Overdue(deal, now)
          /\ pc[s] = "expire_commit"
      \/ req[s] = "submit" /\ Submittable(deal) /\ \E t \in 1..now : deal' = Submitted(deal, t)
      \/ /\ req[s] = "accept" /\ pc[s] = "commit"
         /\ \E t \in 1..now : /\ Acceptable(deal, t) /\ deal.submitted_at <= t
                              /\ deal' = AcceptedOnce(deal, t)
      \/ req[s] = "cancel" /\ Cancellable(deal) /\ deal' = [deal EXCEPT !.status = "CANCELLED"]
      \/ req[s] = "delete" /\ deal' = [deal EXCEPT !.deleted = TRUE]
<1>2. deals
  BY CommitDeal DEF DealWritten, Commit
<1>3. /\ deal.status # "DRAFT" => /\ deal'.status # "DRAFT"
                                  /\ deal'.submitted_at = deal.submitted_at
  BY <1>0, <1>2, AcceptedRow DEF Submittable, Acceptable, Cancellable, Overdue
<1>4. ReadsInv'
  <2>1. /\ pc'[s] \in {"idle", "read", "notify"}
        /\ \A t \in Sessions \ {s} : /\ pc'[t] = pc[t] /\ req'[t] = req[t]
                                     /\ user'[t] = user[t] /\ at'[t] = at[t]
        /\ at'[s] \in {0, at[s]}
        /\ req'[s] \in {"accept", "decline"} => req'[s] = req[s] /\ user'[s] = user[s]
    BY DEF Commit, AfterExpire, IInv, TypeOK
  <2>2. ASSUME NEW t \in Sessions \ {s}
        PROVE  /\ req[t] = "accept" /\ pc[t] = "write" =>
                      deal.status # "DRAFT" /\ deal'.submitted_at <= at'[t]
               /\ pc[t] = "read_invitation" \/ (req[t] = "refresh" /\ pc[t] \in {"invite", "commit"})
                      => deal'.status # "DRAFT"
    BY <1>3, <2>1 DEF IInv, ReadsInv
  <2>3. \A t \in Sessions : at'[t] <= now'
    BY <1>0, <2>1 DEF IInv, TypeOK, ReadsInv
  <2> QED
    BY <1>3, <2>1, <2>2, <2>3 DEF IInv, ReadsInv
<1>5. RowInv'
  <2> USE <1>0 DEF IInv, RowInv
  <2> DEFINE ROW == /\ deal'.status = "DRAFT" => deal'.accepted_count = 0
                    /\ deal'.status \in {"DRAFT", "PENDING_ACCEPTANCE", "EXPIRED"}
                           => deal'.published_at = 0
                    /\ deal'.status # "DRAFT" => deal'.submitted_at \in 1..now
                    /\ PublishedWhenFull' /\ PublishedInTime' /\ ExpiredAfterDeadline'
                    /\ deal.status \in Ended => deal'.status \in Ended
             COUNT == deal'.accepted_count = Cardinality(AcceptedBy')
  <2> USE DEF PublishedWhenFull, PublishedInTime, ExpiredAfterDeadline, Ended, DealRow
  <2>1. ROW /\ COUNT
    <3>1. CASE deal' = deal /\ ~(req[s] = "accept" /\ pc[s] = "commit") /\ dealLock # s
      BY <3>1, CommitAccepted DEF AcceptancesCounted
    <3>2. CASE /\ deal' = [deal EXCEPT !.status = "EXPIRED"] /\ Overdue(deal, now)
               /\ pc[s] = "expire_commit"
      BY <3>2, CommitAccepted DEF AcceptancesCounted, Overdue
    <3>3. CASE /\ req[s] = "submit" /\ Submittable(deal)
               /\ \E t \in 1..now : deal' = Submitted(deal, t)
      <4>1. PICK t \in 1..now : deal' = Submitted(deal, t)
        BY <3>3
      <4>2. AcceptedBy' = AcceptedBy
        BY <3>3, CommitAccepted
      <4>3. t \in Nat
        OBVIOUS
      <4>4. /\ deal'.status = "PENDING_ACCEPTANCE" /\ deal'.accepted_count = 0
            /\ deal'.submitted_at = t /\ deal'.published_at = deal.published_at
        BY <4>1, <4>3, SubmittedRow
      <4>5. deal.status = "DRAFT" /\ deal.accepted_count = 0 /\ deal.published_at = 0
        BY <3>3 DEF Submittable
      <4>6. COUNT
        BY <4>2, <4>4, <4>5 DEF AcceptancesCounted
      <4>7. ROW
        BY <4>4, <4>5
      <4> QED
        BY <4>6, <4>7
    <3>4. CASE /\ req[s] = "accept" /\ pc[s] = "commit"
               /\ \E t \in 1..now : /\ Acceptable(deal, t) /\ deal.submitted_at <= t
                                    /\ deal' = AcceptedOnce(deal, t)
      <4>1. PICK t \in 1..now : /\ Acceptable(deal, t) /\ deal.submitted_at <= t
                                /\ deal' = AcceptedOnce(deal, t)
        BY <3>4
      <4>2. t \in Nat
        OBVIOUS
      <4>3. COUNT
        <5>1. Cardinality(AcceptedBy') = Cardinality(AcceptedBy) + 1
          BY <3>4, CommitAccepted, AcceptedFinite
        <5> QED
          BY <4>1, <4>2, <5>1, AcceptedRow DEF AcceptancesCounted
      <4>4. ROW
        <5> DEFINE full == deal.accepted_count + 1 >= MaxAcceptances
        <5>1. /\ deal'.accepted_count = deal.accepted_count + 1
              /\ deal'.status = IF full THEN "PUBLISHED" ELSE deal.status
              /\ deal'.published_at = IF full THEN t ELSE deal.published_at
              /\ deal'.submitted_at = deal.submitted_at /\ deal'.deadline = deal.deadline
          BY <4>1, <4>2, AcceptedRow
        <5>2. /\ deal.status = "PENDING_ACCEPTANCE" /\ deal.accepted_count < MaxAcceptances
              /\ deal.submitted_at <= t /\ t < deal.deadline /\ deal.accepted_count \in Nat
              /\ deal.submitted_at \in 1..now /\ deal.published_at = 0
              /\ deal.deadline \in Nat
          BY <4>1, <4>2 DEF Acceptable
        <5> QED
          BY <4>2, <5>1, <5>2
      <4> QED
        BY <4>3, <4>4
    <3>5. CASE req[s] = "cancel" /\ Cancellable(deal) /\ deal' = [deal EXCEPT !.status = "CANCELLED"]
      BY <3>5, CommitAccepted DEF AcceptancesCounted, Cancellable
    <3>6. CASE req[s] = "delete" /\ deal' = [deal EXCEPT !.deleted = TRUE]
      BY <3>6, CommitAccepted DEF AcceptancesCounted
    <3> QED
      BY <1>2, <3>1, <3>2, <3>3, <3>4, <3>5, <3>6
  <2>2. ClosedWithDeal'
    <3> SUFFICES ASSUME NEW u \in Users, inv'[u] = "CLOSED" PROVE deal'.status \in Ended
      BY DEF ClosedWithDeal
    <3>1. CASE inv[u] = "CLOSED"
      BY <2>1, <3>1 DEF ClosedWithDeal
    <3>2. CASE dealLock = s /\ newDeal.status \in Ended
      BY <3>2 DEF Commit, CommitWrites
    <3> QED
      BY <3>1, <3>2, CommitClosed
  <2> QED
    BY <2>1, <2>2 DEF AcceptancesCounted
<1> QED
  BY <1>1, <1>4, <1>5

(* The inductive invariant holds in every reachable state. *)
THEOREM Inductive == Spec => []IInv
<1>1. Init => IInv
  <2> SUFFICES ASSUME Init PROVE IInv
    OBVIOUS
  <2> USE NoSessionAssumption, LimitsAssumption DEF Init, Draft
  <2>1. TypeOK
    BY DEF TypeOK
  <2>2. TransactionsInv
    BY DEF TransactionsInv, CleanRows, DealHeld, HoldsDeal, DealWrites, InvitationWrites,
           AcceptanceWritten
  <2>3. ReadsInv
    BY DEF ReadsInv
  <2>4. RowInv
    <3>1. AcceptedBy = {}
      BY DEF AcceptedBy
    <3>2. AcceptancesCounted
      BY <3>1, FS_EmptySet DEF AcceptancesCounted
    <3> QED
      BY <3>2 DEF RowInv, PublishedWhenFull, PublishedInTime, ExpiredAfterDeadline,
                  ClosedWithDeal
  <2> QED
    BY <2>1, <2>2, <2>3, <2>4 DEF IInv
<1>2. IInv /\ TypeOK' /\ [Next]_vars => IInv'
  <2> SUFFICES ASSUME IInv, TypeOK', [Next]_vars PROVE TransactionsInv' /\ ReadsInv' /\ RowInv'
    BY DEF IInv
  <2> USE NoSessionAssumption, LimitsAssumption
  <2>1. ASSUME now' \in {now, now + 1}, UNCHANGED <<rows, local, pc>>
        PROVE  TransactionsInv' /\ ReadsInv' /\ RowInv'
    <3> USE <2>1 DEF IInv, TransactionsInv, TypeOK
    <3>1. CleanRows' /\ DealHeld' /\ AcceptanceWritten'
      BY DEF CleanRows, DealHeld, HoldsDeal, AcceptanceWritten
    <3>2. DealWrites'
      BY DealWrittenStable DEF DealWrites
    <3>3. InvitationWrites'
      BY InvitationWrittenStable DEF InvitationWrites
    <3>4. ReadsInv'
      BY DEF ReadsInv
    <3>5. RowInv'
      BY RowStable
    <3> QED
      BY <3>1, <3>2, <3>3, <3>4, <3>5
  <2>2. CASE UNCHANGED vars
    BY <2>1, <2>2 DEF vars
  <2>3. CASE Tick
    BY <2>1, <2>3 DEF Tick
  <2>4. ASSUME NEW s \in Sessions, Arrive(s) PROVE TransactionsInv' /\ ReadsInv' /\ RowInv'
    <3>1. PICK r \in AllRequests, u \in Users \cup {NoUser} :
              /\ Begin(s, r, u)
              /\ r \in {"accept", "decline"} => u \in Users
      BY <2>4, RequestsAssumption DEF Arrive
    <3>2. OthersLocal(s)
      BY <3>1 DEF Begin, OthersLocal, IInv, TypeOK
    <3>3. /\ pc[s] = "idle" /\ pc'[s] \in {"expire", "read"} /\ req'[s] = r
          /\ user'[s] = u /\ at'[s] \in {0, now} /\ \A t \in Sessions \ {s} : at'[t] = at[t]
      BY <3>1 DEF Begin, IInv, TypeOK
    <3>4. TransactionsInv'
      <4>1. ~HoldsDeal(s) /\ ~HoldsDeal(s)'
        BY <3>3 DEF HoldsDeal
      <4> QED
        BY <3>1, <3>2, <3>3, <4>1, ReadStep DEF Begin
    <3>5. ReadsInv'
      BY <3>1, <3>2, <3>3 DEF ReadsInv, OthersLocal, Begin, IInv, TypeOK
    <3>6. RowInv'
      BY <3>1, RowStable DEF Begin, IInv, TypeOK
    <3> QED
      BY <3>4, <3>5, <3>6
  <2>5. ASSUME NEW s \in Sessions, Crash(s) PROVE TransactionsInv' /\ ReadsInv' /\ RowInv'
    <3>1. OthersLocal(s) /\ pc'[s] = "idle" /\ now' = now
      BY <2>5 DEF Crash, Finish, OthersLocal, IInv, TypeOK
    <3>2. TransactionsInv'
      <4>1. ~HoldsDeal(s)'
        BY <2>5, <3>1 DEF Crash, Finish, HoldsDeal, IInv, TypeOK
      <4> QED
        BY <2>5, <3>1, <4>1, ReleaseStep DEF Crash
    <3>3. ReadsInv'
      BY <2>5 DEF Crash, Finish, RollbackWrites, ReadsInv, IInv, TypeOK
    <3>4. RowInv'
      BY <2>5, <3>1, RowStable DEF Crash, RollbackWrites, IInv, TypeOK
    <3> QED
      BY <3>2, <3>3, <3>4
  <2>6. ASSUME NEW s \in Sessions, Step(s) PROVE TransactionsInv' /\ ReadsInv' /\ RowInv'
    BY <2>6, InductiveStep, CommitStep
  <2> QED
    BY <2>2, <2>3, <2>4, <2>5, <2>6 DEF Next
<1>3. IInv => TypeOK
  BY DEF IInv
<1> QED
  BY <1>1, <1>2, <1>3, TypeCorrect, PTL DEF Spec

(* In every reachable state the acceptances are counted, the deal is published    *)
(* exactly with its last acceptance and in time, it expires only after its       *)
(* deadline, and invitations are closed only on a deal that no longer waits.     *)
THEOREM Safety == Spec => []AcceptanceOutcome
<1>1. IInv => AcceptanceOutcome
  BY DEF IInv, RowInv, AcceptanceOutcome
<1> QED
  BY <1>1, Inductive, PTL

(* Only a commit changes what other sessions can read. *)
LEMMA OnlyCommits ==
    ASSUME TypeOK, [Next]_vars
    PROVE  (deal' = deal /\ inv' = inv) \/ \E s \in Sessions : Commit(s)
<1> USE DEF Goto, Finish
<1>1. CASE UNCHANGED vars
  BY <1>1 DEF vars
<1>2. CASE Tick
  BY <1>2 DEF Tick
<1>3. ASSUME NEW s \in Sessions, Arrive(s) PROVE deal' = deal /\ inv' = inv
  BY <1>3 DEF Arrive, Begin
<1>4. ASSUME NEW s \in Sessions, Crash(s) PROVE deal' = deal /\ inv' = inv
  BY <1>4 DEF Crash, RollbackWrites
<1>5. ASSUME NEW s \in Sessions, Step(s), ~Commit(s) PROVE deal' = deal /\ inv' = inv
  BY <1>5 DEF Step, NothingOverdue, AfterExpire, ExpireOverdue, ReadDeal, ReadOn,
     ReadInvitation, Reject, SubmitDeal, InviteEligible, RecordAcceptance, CancelDeal,
     DeleteDeal, EditItem, UpdateMissed, RollbackWrites, Decide, DecideMissed, CloseOpen,
     ListUnnotified, ClaimForNotification, AlreadyClaimed, NotifyAcceptanceRequested,
     NotifyDone
<1> QED
  BY <1>1, <1>2, <1>3, <1>4, <1>5 DEF Next

(* What a commit writes, handler by handler. *)
LEMMA CommitCases ==
    ASSUME IInv, NEW s \in Sessions, Commit(s)
    PROVE  LET W == {u \in Users : invLock[u] = s}
           IN  /\ \A u \in Users \ W : inv'[u] = inv[u]
               /\ \/ /\ req[s] \in {"submit", "refresh"} /\ pc[s] = "commit"
                     /\ \A u \in W : inv[u] = "NONE" /\ inv'[u] = "INVITED"
                  \/ /\ req[s] = "accept" /\ pc[s] = "commit"
                     /\ user[s] \in W /\ inv'[user[s]] = "ACCEPTED"
                     /\ \A u \in W : inv[u] = "INVITED"
                     /\ \A u \in W \ {user[s]} :
                            inv'[u] = "CLOSED" /\ newDeal.status \in Ended
                  \/ /\ req[s] = "decline" /\ pc[s] = "commit" /\ W \subseteq {user[s]}
                     /\ \A u \in W : inv[u] = "INVITED" /\ inv'[u] = "DECLINED"
                  \/ /\ \/ pc[s] = "expire_commit"
                        \/ req[s] \notin {"submit", "refresh", "accept", "decline"}
                     /\ \A u \in W : /\ inv[u] = "INVITED" /\ inv'[u] = "CLOSED"
                                    /\ dealLock = s /\ newDeal.status \in Ended
<1> DEFINE W == {u \in Users : invLock[u] = s}
<1>1. \A u \in Users : inv'[u] = IF u \in W THEN newInv[u] ELSE inv[u]
  BY DEF Commit, CommitWrites
<1>2. \A u \in W : InvitationWritten(s, u)
  BY DEF IInv, TransactionsInv, InvitationWrites
<1>3. pc[s] \in {"commit", "expire_commit"}
  BY DEF Commit
<1>4. CASE pc[s] = "expire_commit"
  BY <1>1, <1>2, <1>4 DEF InvitationWritten
<1>5. CASE pc[s] = "commit" /\ req[s] \in {"submit", "refresh"}
  BY <1>1, <1>2, <1>5 DEF InvitationWritten
<1>6. CASE pc[s] = "commit" /\ req[s] = "accept"
  <2>1. user[s] \in W /\ newInv[user[s]] = "ACCEPTED"
    BY <1>6 DEF IInv, TransactionsInv, AcceptanceWritten
  <2> QED
    BY <1>1, <1>2, <1>6, <2>1 DEF InvitationWritten
<1>7. CASE pc[s] = "commit" /\ req[s] = "decline"
  BY <1>1, <1>2, <1>7 DEF InvitationWritten
<1>8. CASE pc[s] = "commit" /\ req[s] \notin {"submit", "refresh", "accept", "decline"}
  BY <1>1, <1>2, <1>8 DEF InvitationWritten
<1> QED
  BY <1>3, <1>4, <1>5, <1>6, <1>7, <1>8

(* The contract counts as this module does. *)
LEMMA SameCardinality == ASSUME NEW S PROVE Contract!Cardinality(S) = Cardinality(S)
  BY DEF Contract!Cardinality, Cardinality

(* Each commit is an operation of the contract, or changes nothing it speaks of. *)
LEMMA CommitRefines ==
    ASSUME IInv, NEW s \in Sessions, Commit(s)
    PROVE  Contract!Next \/ (deal'.status = deal.status /\ inv' = inv)
<1> DEFINE W == {u \in Users : invLock[u] = s}
<1> USE DEF IInv, TypeOK
<1>1. inv' \in [Users -> InvitationStatus] /\ inv \in [Users -> InvitationStatus]
      /\ deal \in DealRow
  BY DEF Commit, CommitWrites
<1>2. \A u \in Users \ W : inv'[u] = inv[u]
  BY CommitCases
<1>3. \A u \in W : u \in Users
  OBVIOUS
<1>4. CASE req[s] \in {"submit", "refresh"} /\ pc[s] = "commit"
  <2>1. \A u \in W : inv[u] = "NONE" /\ inv'[u] = "INVITED"
    BY <1>4, CommitCases
  <2>2. W \in SUBSET Contract!With("NONE")
    BY <2>1 DEF Contract!With
  <2>3. inv' = [u \in Users |-> IF u \in W THEN "INVITED" ELSE inv[u]]
    BY <1>1, <1>2, <2>1
  <2>4. \E E \in SUBSET Contract!With("NONE") : Contract!Invite(E)
    BY <2>2, <2>3 DEF Contract!Invite
  <2>5. CASE req[s] = "submit"
    <3>1. deal' = newDeal /\ dealLock = s
      BY <1>4, <2>5 DEF Commit, CommitWrites, TransactionsInv, DealHeld, HoldsDeal
    <3>2. Submittable(deal) /\ \E t \in 1..now : newDeal = Submitted(deal, t)
      BY <1>4, <2>5, <3>1 DEF TransactionsInv, DealWrites, DealWritten
    <3>3. deal.status = "DRAFT" /\ deal'.status = "PENDING_ACCEPTANCE"
      <4>1. PICK t \in 1..now : newDeal = Submitted(deal, t)
        BY <3>2
      <4>2. t \in Nat
        OBVIOUS
      <4> QED
        BY <1>1, <3>1, <3>2, <4>1, <4>2, SubmittedRow DEF Submittable
    <3> QED
      BY <2>4, <3>3 DEF Contract!Next, Contract!Submit
  <2>6. CASE req[s] = "refresh"
    <3>1. deal.status # "DRAFT"
      BY <1>4, <2>6 DEF ReadsInv
    <3>2. deal' = deal
      BY <1>4, <2>6 DEF Commit, CommitWrites, TransactionsInv, DealHeld, HoldsDeal
    <3> QED
      BY <2>4, <3>1, <3>2 DEF Contract!Next, Contract!Refresh
  <2> QED
    BY <1>4, <2>5, <2>6
<1>5. CASE req[s] = "accept" /\ pc[s] = "commit"
  <2> DEFINE u == user[s]
             C == W \ {u}
  <2>1. /\ u \in W /\ inv'[u] = "ACCEPTED" /\ \A v \in W : inv[v] = "INVITED"
        /\ \A v \in C : inv'[v] = "CLOSED" /\ newDeal.status \in Ended
    BY <1>5, CommitCases
  <2>2. deal' = newDeal /\ dealLock = s
    BY <1>5 DEF Commit, CommitWrites, TransactionsInv, DealHeld, HoldsDeal
  <2>3. PICK t \in 1..now : Acceptable(deal, t) /\ newDeal = AcceptedOnce(deal, t)
    BY <1>5, <2>2 DEF TransactionsInv, DealWrites, DealWritten
  <2>4. t \in Nat
    OBVIOUS
  <2>5. /\ deal.status = "PENDING_ACCEPTANCE"
        /\ deal.accepted_count < MaxAcceptances
        /\ deal'.status = IF deal.accepted_count + 1 >= MaxAcceptances
                          THEN "PUBLISHED" ELSE deal.status
    BY <1>1, <2>2, <2>3, <2>4, AcceptedRow DEF Acceptable
  <2>6. Contract!Cardinality(Contract!With("ACCEPTED")) = deal.accepted_count
    BY SameCardinality DEF Contract!With, RowInv, AcceptancesCounted, AcceptedBy
  <2>7. u \in Contract!With("INVITED") /\ C \in SUBSET (Contract!With("INVITED") \ {u})
    BY <2>1 DEF Contract!With
  <2>8. inv' = Contract!Closing([inv EXCEPT ![u] = "ACCEPTED"], C)
    BY <1>1, <1>2, <2>1 DEF Contract!Closing
  <2>9. CASE deal.accepted_count + 1 = MaxAcceptances
    <3>1. deal'.status = "PUBLISHED"
      BY <2>5, <2>9, LimitsAssumption
    <3> QED
      <4>1. Contract!Cardinality(Contract!With("ACCEPTED")) + 1 = MaxAcceptances
        BY <2>6, <2>9
      <4>2. Contract!Accept(u)
        <5>1. \E D \in SUBSET (Contract!With("INVITED") \ {u}) :
                  inv' = Contract!Closing([inv EXCEPT ![u] = "ACCEPTED"], D)
          BY <2>7, <2>8
        <5>2. deal.status = "PENDING_ACCEPTANCE" /\ u \in Contract!With("INVITED")
          BY <2>5, <2>7
        <5> HIDE DEF u
        <5> QED
          BY <3>1, <4>1, <5>1, <5>2, Zenon DEF Contract!Accept
      <4> QED
        BY <2>1, <4>2 DEF Contract!Next
  <2>10. CASE deal.accepted_count + 1 # MaxAcceptances
    <3>1. deal'.status = "PENDING_ACCEPTANCE"
      BY <1>1, <2>5, <2>10, LimitsAssumption DEF DealRow
    <3>2. C = {}
      BY <2>1, <2>2, <3>1 DEF Ended
    <3>3. inv' = [inv EXCEPT ![u] = "ACCEPTED"]
      BY <1>1, <1>2, <2>1, <3>2
    <3> QED
      <4>1. Contract!Cardinality(Contract!With("ACCEPTED")) + 1 # MaxAcceptances
        BY <2>6, <2>10
      <4>2. Contract!Accept(u)
        <5>1. deal.status = "PENDING_ACCEPTANCE" /\ u \in Contract!With("INVITED")
          BY <2>5, <2>7
        <5>2. deal'.status = deal.status
          BY <3>1, <5>1
        <5> HIDE DEF u
        <5> QED
          BY <3>3, <4>1, <5>1, <5>2, Zenon DEF Contract!Accept
      <4> QED
        BY <2>1, <4>2 DEF Contract!Next
  <2> QED
    BY <2>9, <2>10
<1>6. CASE req[s] = "decline" /\ pc[s] = "commit"
  <2>1. W \subseteq {user[s]} /\ \A u \in W : inv[u] = "INVITED" /\ inv'[u] = "DECLINED"
    BY <1>6, CommitCases
  <2>2. deal' = deal
    BY <1>6 DEF Commit, CommitWrites, TransactionsInv, DealHeld, HoldsDeal
  <2>3. CASE W = {}
    BY <1>1, <1>2, <2>2, <2>3
  <2>4. CASE W # {}
    <3>1. user[s] \in Users /\ W = {user[s]}
      BY <2>1, <2>4
    <3>2. inv' = [inv EXCEPT ![user[s]] = "DECLINED"]
      BY <1>1, <1>2, <2>1, <3>1
    <3> QED
      BY <2>1, <2>2, <3>1, <3>2 DEF Contract!Next, Contract!Decline, Contract!With
  <2> QED
    BY <2>3, <2>4
<1>7. CASE pc[s] = "expire_commit" \/ req[s] \notin {"submit", "refresh", "accept", "decline"}
  <2>1. /\ \A u \in W : inv[u] = "INVITED" /\ inv'[u] = "CLOSED"
        /\ W # {} => dealLock = s /\ newDeal.status \in Ended
    BY <1>7, CommitCases DEF Commit
  <2>2. W \in SUBSET Contract!With("INVITED") /\ inv' = Contract!Closing(inv, W)
    BY <1>1, <1>2, <2>1 DEF Contract!With, Contract!Closing
  <2>3. CASE dealLock # s
    <3>1. deal' = deal /\ W = {}
      BY <2>1, <2>3 DEF Commit, CommitWrites
    <3> QED
      BY <1>1, <1>2, <3>1
  <2>4. CASE dealLock = s
    <3>1. deal' = newDeal /\ DealWritten(s) /\ pc[s] \in {"commit", "expire_commit"}
      BY <2>4 DEF Commit, CommitWrites, TransactionsInv, DealWrites
    <3>2. \/ deal' = [deal EXCEPT !.status = "EXPIRED"] /\ Overdue(deal, now)
          \/ deal' = [deal EXCEPT !.status = "CANCELLED"] /\ Cancellable(deal)
          \/ deal' = [deal EXCEPT !.deleted = TRUE] /\ W = {}
      <4>1. CASE req[s] = "delete" /\ pc[s] = "commit"
        <5>1. W = {}
          BY <4>1 DEF TransactionsInv, InvitationWrites, InvitationWritten
        <5> QED
          BY <3>1, <4>1, <5>1 DEF DealWritten
      <4>2. CASE ~(req[s] = "delete" /\ pc[s] = "commit")
        BY <1>7, <3>1, <4>2 DEF DealWritten
      <4> QED
        BY <4>1, <4>2
    <3>3. CASE deal' = [deal EXCEPT !.status = "EXPIRED"] /\ Overdue(deal, now)
      <4>1. deal'.status = "EXPIRED" /\ deal.status = "PENDING_ACCEPTANCE"
        BY <1>1, <3>3 DEF Overdue
      <4> QED
        BY <2>2, <4>1 DEF Contract!Next, Contract!Expire
    <3>4. CASE deal' = [deal EXCEPT !.status = "CANCELLED"] /\ Cancellable(deal)
      <4>1. deal'.status = "CANCELLED" /\ deal.status \in {"PENDING_ACCEPTANCE", "PUBLISHED"}
        BY <1>1, <3>4 DEF Cancellable
      <4> QED
        BY <2>2, <4>1 DEF Contract!Next, Contract!Cancel
    <3>5. CASE deal' = [deal EXCEPT !.deleted = TRUE] /\ W = {}
      <4>1. deal'.status = deal.status
        BY <1>1, <3>5
      <4> QED
        BY <1>1, <1>2, <3>5, <4>1
    <3> QED
      BY <3>2, <3>3, <3>4, <3>5
  <2> QED
    BY <2>3, <2>4
<1> QED
  BY <1>4, <1>5, <1>6, <1>7 DEF Commit

(* DealLifecycle implements DealContract with its committed rows. *)
THEOREM Refinement == Spec => ImplementsContract
<1>1. Init => Contract!Init
  BY DEF Init, Draft, Contract!Init
<1>2. IInv /\ [Next]_vars => [Contract!Next]_(Contract!dealVars)
  <2> SUFFICES ASSUME IInv, [Next]_vars PROVE [Contract!Next]_(Contract!dealVars)
    OBVIOUS
  <2>1. CASE deal' = deal /\ inv' = inv
    BY <2>1 DEF Contract!dealVars
  <2>2. CASE \E s \in Sessions : Commit(s)
    BY <2>2, CommitRefines DEF Contract!dealVars
  <2> QED
    BY <2>1, <2>2, OnlyCommits DEF IInv
<1> QED
  BY <1>1, <1>2, Inductive, PTL DEF Spec, ImplementsContract, Contract!Spec

(* A decision about an invitation is final, and only a waiting deal is accepted. *)
THEOREM FinalDecisions == Spec => DecisionsFinal
<1> DEFINE Final(u) ==
        /\ inv[u] \in Decisions => inv'[u] = inv[u]
        /\ inv[u] # "NONE" => inv'[u] # "NONE"
        /\ inv[u] # inv'[u] /\ inv'[u] = "ACCEPTED"
               => /\ inv[u] = "INVITED"
                  /\ deal.status = "PENDING_ACCEPTANCE" /\ ~deal.deleted
<1>1. IInv /\ [Next]_vars => [\A u \in Users : Final(u)]_vars
  <2> SUFFICES ASSUME IInv, [Next]_vars, NEW u \in Users PROVE Final(u)
    OBVIOUS
  <2>1. CASE inv' = inv
    BY <2>1
  <2>2. ASSUME NEW s \in Sessions, Commit(s) PROVE Final(u)
    <3>1. /\ inv[u] # inv'[u] => inv[u] \in {"NONE", "INVITED"} /\ inv'[u] # "NONE"
          /\ inv[u] = "NONE" => inv'[u] \in {"NONE", "INVITED"}
      BY <2>2, CommitCases
    <3>2. inv[u] # inv'[u] /\ inv'[u] = "ACCEPTED" => req[s] = "accept" /\ pc[s] = "commit"
      BY <2>2, CommitCases
    <3>3. req[s] = "accept" /\ pc[s] = "commit"
              => deal.status = "PENDING_ACCEPTANCE" /\ ~deal.deleted
      BY <2>2, CommitDeal DEF DealWritten, Acceptable
    <3> QED
      BY <3>1, <3>2, <3>3 DEF Decisions
  <2> QED
    BY <2>1, <2>2, OnlyCommits DEF IInv
<1> QED
  BY <1>1, Inductive, PTL DEF Spec, DecisionsFinal

(* The deal's status only moves forward, and its deadline never moves. *)
THEOREM ForwardStatus == Spec => StatusFlow
<1> DEFINE Moves == {<<"DRAFT", "PENDING_ACCEPTANCE">>,
                     <<"PENDING_ACCEPTANCE", "PUBLISHED">>,
                     <<"PENDING_ACCEPTANCE", "CANCELLED">>,
                     <<"PENDING_ACCEPTANCE", "EXPIRED">>,
                     <<"PUBLISHED", "CANCELLED">>}
           Flow == /\ deal.status # deal'.status => <<deal.status, deal'.status>> \in Moves
                   /\ deal.status # "DRAFT" => deal'.deadline = deal.deadline
<1>1. IInv /\ [Next]_vars => [Flow]_vars
  <2> SUFFICES ASSUME IInv, [Next]_vars PROVE Flow
    OBVIOUS
  <2>1. CASE deal' = deal
    BY <2>1
  <2>2. ASSUME NEW s \in Sessions, Commit(s), deal' = newDeal, DealWritten(s) PROVE Flow
    <3>1. deal \in DealRow /\ \A t \in 1..now : t \in Nat
      BY DEF IInv, TypeOK
    <3>2. CASE deal' = [deal EXCEPT !.status = "EXPIRED"] /\ Overdue(deal, now)
      BY <3>1, <3>2 DEF Overdue
    <3>3. CASE Submittable(deal) /\ \E t \in 1..now : deal' = Submitted(deal, t)
      <4>1. deal.status = "DRAFT" /\ deal'.status = "PENDING_ACCEPTANCE"
        BY <3>1, <3>3, SubmittedRow DEF Submittable
      <4> QED
        BY <4>1
    <3>4. CASE \E t \in 1..now : Acceptable(deal, t) /\ deal' = AcceptedOnce(deal, t)
      <4>1. /\ deal.status = "PENDING_ACCEPTANCE" /\ deal'.deadline = deal.deadline
            /\ deal'.status \in {"PUBLISHED", "PENDING_ACCEPTANCE"}
        BY <3>1, <3>4, AcceptedRow DEF Acceptable
      <4> QED
        BY <4>1
    <3>5. CASE deal' = [deal EXCEPT !.status = "CANCELLED"] /\ Cancellable(deal)
      BY <3>1, <3>5 DEF Cancellable
    <3>6. CASE deal' = [deal EXCEPT !.deleted = TRUE]
      BY <3>1, <3>6
    <3> QED
      BY <2>2, <3>2, <3>3, <3>4, <3>5, <3>6 DEF DealWritten
  <2> QED
    BY <2>1, <2>2, OnlyCommits, CommitDeal DEF IInv
<1> QED
  BY <1>1, Inductive, PTL DEF Spec, StatusFlow

(* An invitation that is there stays there. *)
LEMMA InvitationsStay ==
    ASSUME IInv, [Next]_vars, NEW u \in Users, inv[u] # "NONE"
    PROVE  inv'[u] # "NONE"
<1>1. ASSUME NEW s \in Sessions, Commit(s) PROVE inv'[u] # "NONE"
  BY <1>1, CommitCases
<1> QED
  BY <1>1, OnlyCommits DEF IInv

(* The steps of s that have nothing to do with a notice about to be sent. *)
Quiet(s) ==
    /\ UNCHANGED <<notified, notices>>
    /\ pc'[s] # "send" /\ todo'[s] \subseteq todo[s]
    /\ \A t \in Sessions \ {s} : pc'[t] = pc[t] /\ user'[t] = user[t] /\ todo'[t] = todo[t]

LEMMA OtherSteps ==
    ASSUME TypeOK, NEW s \in Sessions, Arrive(s) \/ Step(s) \/ Crash(s)
    PROVE  \/ Quiet(s)
           \/ ListUnnotified(s) \/ ClaimForNotification(s) \/ NotifyAcceptanceRequested(s)
<1> USE DEF TypeOK, Quiet, Goto, Finish
<1>1. CASE Arrive(s)
  BY <1>1 DEF Arrive, Begin
<1>2. CASE Crash(s)
  BY <1>2 DEF Crash
<1>3. CASE NothingOverdue(s)
  BY <1>3 DEF NothingOverdue, AfterExpire
<1>4. CASE ExpireOverdue(s)
  BY <1>4 DEF ExpireOverdue
<1>5. CASE ReadDeal(s) \/ ReadInvitation(s)
  BY <1>5 DEF ReadDeal, ReadInvitation, ReadOn
<1>6. CASE Reject(s) \/ UpdateMissed(s) \/ DecideMissed(s) \/ NotifyDone(s)
  BY <1>6 DEF Reject, UpdateMissed, DecideMissed, NotifyDone
<1>7. CASE SubmitDeal(s) \/ InviteEligible(s) \/ RecordAcceptance(s)
  BY <1>7 DEF SubmitDeal, InviteEligible, RecordAcceptance
<1>8. CASE CancelDeal(s) \/ DeleteDeal(s) \/ EditItem(s)
  BY <1>8 DEF CancelDeal, DeleteDeal, EditItem
<1>9. CASE Decide(s)
  BY <1>9 DEF Decide
<1>10. CASE CloseOpen(s)
  BY <1>10 DEF CloseOpen
<1>11. CASE Commit(s)
  BY <1>11 DEF Commit, AfterExpire
<1>12. CASE AlreadyClaimed(s)
  BY <1>12 DEF AlreadyClaimed
<1> QED
  BY <1>1, <1>2, <1>3, <1>4, <1>5, <1>6, <1>7, <1>8, <1>9, <1>10, <1>11, <1>12 DEF Step

LEMMA NoticesStep ==
    ASSUME IInv, NoticesInv, [Next]_vars
    PROVE  NoticesInv'
<1>1. TypeOK /\ \A u \in Users : inv[u] # "NONE" => inv'[u] # "NONE"
  BY InvitationsStay DEF IInv
<1>2. CASE UNCHANGED <<pc, user, todo, notified, notices>>
  BY <1>1, <1>2 DEF TypeOK, NoticesInv, Sending
<1>3. ASSUME NEW s \in Sessions, Quiet(s)
      PROVE  NoticesInv'
  BY <1>1, <1>3 DEF TypeOK, NoticesInv, Sending, Quiet
<1>4. ASSUME NEW s \in Sessions, ListUnnotified(s)
      PROVE  NoticesInv'
  <2>1. /\ todo'[s] \subseteq {u \in Users : inv[u] # "NONE"}
        /\ \A t \in Sessions \ {s} : todo'[t] = todo[t] /\ pc'[t] = pc[t]
        /\ pc'[s] = "claim" /\ UNCHANGED <<user, notified, notices>>
    BY <1>4 DEF ListUnnotified, TypeOK, IInv
  <2> QED
    BY <1>1, <2>1 DEF TypeOK, NoticesInv, Sending
<1>5. ASSUME NEW s \in Sessions, ClaimForNotification(s)
      PROVE  NoticesInv'
  <2>1. PICK u \in todo[s] : /\ u \notin notified /\ notified' = notified \cup {u}
                             /\ user' = [user EXCEPT ![s] = u]
                             /\ todo' = [todo EXCEPT ![s] = @ \ {u}]
    BY <1>5 DEF ClaimForNotification, Claimable
  <2>2. u \in Users /\ notices[u] = 0 /\ inv[u] # "NONE"
    BY <1>1, <2>1 DEF TypeOK, NoticesInv
  <2>3. /\ user'[s] = u /\ todo'[s] \subseteq todo[s] /\ notices' = notices
        /\ \A t \in Sessions \ {s} : todo'[t] = todo[t] /\ pc'[t] = pc[t] /\ user'[t] = user[t]
    BY <1>1, <1>5, <2>1 DEF ClaimForNotification, TypeOK
  <2> QED
    BY <1>1, <2>1, <2>2, <2>3 DEF TypeOK, NoticesInv, Sending
<1>6. ASSUME NEW s \in Sessions, NotifyAcceptanceRequested(s)
      PROVE  NoticesInv'
  <2>1. user[s] \in notified /\ notices[user[s]] = 0 /\ pc[s] = "send"
    BY <1>6 DEF NotifyAcceptanceRequested, NoticesInv
  <2>2. /\ notices'[user[s]] = 1 /\ \A u \in Users \ {user[s]} : notices'[u] = notices[u]
        /\ pc'[s] = "claim" /\ \A t \in Sessions \ {s} : pc'[t] = pc[t]
        /\ UNCHANGED <<notified, user, todo>>
    BY <1>1, <1>6, <2>1 DEF NotifyAcceptanceRequested, Goto, TypeOK
  <2>3. \A t \in Sessions \ {s} : pc[t] = "send" => user[t] # user[s]
    BY <1>1, <2>1 DEF TypeOK, NoticesInv, Sending
  <2> QED
    BY <1>1, <2>1, <2>2, <2>3 DEF TypeOK, NoticesInv, Sending
<1> QED
  BY <1>1, <1>2, <1>3, <1>4, <1>5, <1>6, OtherSteps DEF Next, Tick, vars

(* No user is sent the acceptance request twice, nor without an invitation that *)
(* was committed (DealSubmissionService._notify_open_invitations).             *)
THEOREM NotifiedOnceAlways == Spec => []NotifiedOnce
<1>1. Init => NoticesInv
  BY DEF Init, NoticesInv, Sending
<1>2. IInv /\ NoticesInv /\ [Next]_vars => NoticesInv'
  BY NoticesStep
<1>3. TypeOK /\ NoticesInv => NotifiedOnce
  BY DEF TypeOK, NoticesInv, NotifiedOnce
<1> QED
  BY <1>1, <1>2, <1>3, Inductive, TypeCorrect, PTL DEF Spec
==============================================================================
