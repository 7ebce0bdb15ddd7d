---------------------------- MODULE DealLifecycle ----------------------------
(***************************************************************************)
(* The life of one deal: draft, submission with its invitations,           *)
(* acceptance, refusal, cancellation, expiry, and the notices sent to the  *)
(* invited users.  Every request runs in a database session of its own,    *)
(* with PostgreSQL's READ COMMITTED isolation, and every statement of a    *)
(* handler is a step of its own, so that the requests of several users     *)
(* interleave between statements as they do in production.                 *)
(*                                                                         *)
(* A row has one committed value (deal, inv[u]) and at most one            *)
(* uncommitted value (newDeal, newInv[u]) which belongs to the session     *)
(* that holds the row's lock (dealLock, invLock[u]).  A conditional UPDATE *)
(* whose WHERE clause the committed row fails touches no row and does not  *)
(* wait; one whose WHERE clause it satisfies waits for the lock and is     *)
(* evaluated against the row committed by then.                            *)
(***************************************************************************)
EXTENDS Integers, FiniteSets, TLC

CONSTANTS Users,           \* the users who may be invited (never the creator)
          Sessions,        \* database sessions, one per request in progress
          NoSession,       \* nobody holds the row's lock
          NoUser,          \* the request is not about one invited user
          Items,           \* identities of the deal's items
          Requests,        \* the kinds of request that arrive
          MaxAcceptances,  \* DEAL_MAX_ACCEPTANCES
          Timeout,         \* deal_acceptance_timeout_hours
          MaxTime,         \* bound on the clock, for TLC
          MaxCrashes       \* bound on the crashes

AllRequests == {"submit", "refresh", "accept", "decline", "cancel", "delete",
                "edit", "expire"}

ASSUME UsersFinite == IsFiniteSet(Users)
ASSUME NoSessionAssumption == NoSession \notin Sessions
ASSUME NoUserAssumption == NoUser \notin Users
ASSUME RequestsAssumption == Requests \subseteq AllRequests
ASSUME LimitsAssumption == /\ MaxAcceptances \in Nat \ {0}
                           /\ Timeout \in Nat \ {0}
                           /\ MaxTime \in Nat
                           /\ MaxCrashes \in Nat

VARIABLES now,       \* the application clock
          deal,      \* the deal's row as committed
          newDeal,   \* the row as the lock holder sees it
          dealLock,  \* the session that updated the row and did not commit
          items,     \* the deal's items
          inv,       \* the invitations' statuses as committed, NONE: no row
          newInv,    \* the statuses as their lock holders see them
          invLock,   \* per invitation, the session that wrote it
          notified,  \* invitations whose notified_at is set
          notices,   \* acceptance requests pushed to each user
          req,       \* per session, the request it serves
          pc,        \* per session, the statement it executes next
          user,      \* per session, the invited user concerned
          at,        \* per session, the time it read from the clock
          todo,      \* per session, the invitations left to notify
          crashes    \* crashes so far

rows == <<deal, newDeal, dealLock, inv, newInv, invLock>>
local == <<req, user, at, todo>>
outside == <<now, items, notified, notices, crashes>>
vars == <<rows, outside, local, pc>>

DealStatus == {"DRAFT", "PENDING_ACCEPTANCE", "PUBLISHED", "CANCELLED", "EXPIRED"}
InvitationStatus == {"NONE", "INVITED", "ACCEPTED", "DECLINED", "CLOSED"}
Stages == {"idle", "expire", "expire_close", "expire_commit", "read",
           "read_invitation", "write", "invite", "decide", "close", "commit",
           "notify", "claim", "send"}

DealRow == [status : DealStatus, accepted_count : Nat, submitted_at : Nat,
            deadline : Nat, published_at : Nat, deleted : BOOLEAN]

\* The clock starts at 1; 0 stands for a timestamp that is still NULL.
Draft == [status |-> "DRAFT", accepted_count |-> 0, submitted_at |-> 0,
          deadline |-> 0, published_at |-> 0, deleted |-> FALSE]

Init == /\ now = 1
        /\ deal = Draft /\ newDeal = Draft /\ dealLock = NoSession
        /\ items \in SUBSET Items
        /\ inv = [u \in Users |-> "NONE"]
        /\ newInv = [u \in Users |-> "NONE"]
        /\ invLock = [u \in Users |-> NoSession]
        /\ notified = {}
        /\ notices = [u \in Users |-> 0]
        /\ req = [s \in Sessions |-> "none"]
        /\ pc = [s \in Sessions |-> "idle"]
        /\ user = [s \in Sessions |-> NoUser]
        /\ at = [s \in Sessions |-> 0]
        /\ todo = [s \in Sessions |-> {}]
        /\ crashes = 0

-----------------------------------------------------------------------------
(* The WHERE clauses of the deal repository's conditional updates.  The      *)
(* definitions named Broken... are faulty variants, each of the definition   *)
(* that follows it: the properties below must fail with them in its place.   *)

BrokenSubmittable(d) == ~d.deleted
Submittable(d) == d.status = "DRAFT" /\ ~d.deleted

Acceptable(d, t) == /\ d.status = "PENDING_ACCEPTANCE"
                    /\ ~d.deleted
                    /\ d.accepted_count < MaxAcceptances
                    /\ d.deadline > t

Cancellable(d) == d.status \in {"PENDING_ACCEPTANCE", "PUBLISHED"} /\ ~d.deleted

Overdue(d, t) == d.status = "PENDING_ACCEPTANCE" /\ ~d.deleted /\ d.deadline <= t

(* What those updates write. *)

Submitted(d, t) ==
    [d EXCEPT !.status = "PENDING_ACCEPTANCE", !.submitted_at = t,
              !.deadline = t + Timeout, !.accepted_count = 0]

UncountedAcceptance(d, t) ==
    [d EXCEPT !.accepted_count = @ - 1, !.status = "PUBLISHED", !.published_at = t]

AcceptedOnce(d, t) ==
    IF d.accepted_count + 1 >= MaxAcceptances
    THEN [d EXCEPT !.accepted_count = @ + 1, !.status = "PUBLISHED",
                   !.published_at = t]
    ELSE [d EXCEPT !.accepted_count = @ + 1]

-----------------------------------------------------------------------------
(* Transactions. *)

Goto(s, stage) == pc' = [pc EXCEPT ![s] = stage] /\ UNCHANGED local

\* The response is sent and the session closed.
Finish(s) == /\ pc' = [pc EXCEPT ![s] = "idle"]
             /\ req' = [req EXCEPT ![s] = "none"]
             /\ user' = [user EXCEPT ![s] = NoUser]
             /\ at' = [at EXCEPT ![s] = 0]
             /\ todo' = [todo EXCEPT ![s] = {}]

\* UPDATE deals ... WHERE id = deal_id: the lock is free, s takes it.
WriteDeal(s, row) == /\ dealLock = NoSession
                     /\ dealLock' = s
                     /\ newDeal' = row

\* The invitations in S, all unlocked, get the status st in s's transaction.
WriteInvitations(s, S, st) ==
    /\ \A u \in S : invLock[u] = NoSession
    /\ invLock' = [u \in Users |-> IF u \in S THEN s ELSE invLock[u]]
    /\ newInv' = [u \in Users |-> IF u \in S THEN st ELSE newInv[u]]

BrokenReleased(s) == invLock
Released(s) == [u \in Users |-> IF invLock[u] = s THEN NoSession ELSE invLock[u]]

CommitWrites(s) ==
    /\ deal' = IF dealLock = s THEN newDeal ELSE deal
    /\ dealLock' = IF dealLock = s THEN NoSession ELSE dealLock
    /\ inv' = [u \in Users |-> IF invLock[u] = s THEN newInv[u] ELSE inv[u]]
    /\ invLock' = Released(s)
    /\ UNCHANGED <<newDeal, newInv>>

RollbackWrites(s) ==
    /\ newDeal' = IF dealLock = s THEN deal ELSE newDeal
    /\ dealLock' = IF dealLock = s THEN NoSession ELSE dealLock
    /\ newInv' = [u \in Users |-> IF invLock[u] = s THEN inv[u] ELSE newInv[u]]
    /\ invLock' = Released(s)
    /\ UNCHANGED <<deal, inv>>

-----------------------------------------------------------------------------
(* Requests arrive. *)

\* Handlers that call DealExpiryService.expire_overdue before anything else.
BrokenExpireFirst == {"refresh", "accept", "decline", "cancel"}
ExpireFirst == {"refresh", "accept", "decline", "cancel", "expire"}

Begin(s, r, u) ==
    /\ pc[s] = "idle"
    /\ req' = [req EXCEPT ![s] = r]
    /\ user' = [user EXCEPT ![s] = u]
    /\ at' = [at EXCEPT ![s] = IF r \in ExpireFirst THEN now ELSE 0]
    /\ pc' = [pc EXCEPT ![s] = IF r \in ExpireFirst THEN "expire" ELSE "read"]
    /\ UNCHANGED <<outside, todo, rows>>

Arrive(s) ==
    \/ \E r \in Requests \ {"accept", "decline"} : Begin(s, r, NoUser)
    \/ \E r \in Requests \cap {"accept", "decline"}, u \in Users : Begin(s, r, u)

-----------------------------------------------------------------------------
(* DealExpiryService.expire_overdue, a transaction of its own. *)

AfterExpire(s) == IF req[s] = "expire" THEN Finish(s) ELSE Goto(s, "read")

NothingOverdue(s) ==
    /\ pc[s] = "expire"
    /\ ~Overdue(deal, at[s])
    /\ AfterExpire(s)
    /\ UNCHANGED <<outside, rows>>

ExpireOverdue(s) ==
    /\ pc[s] = "expire"
    /\ Overdue(deal, at[s])
    /\ WriteDeal(s, [deal EXCEPT !.status = "EXPIRED"])
    /\ Goto(s, "expire_close")
    /\ UNCHANGED <<outside, deal, inv, newInv, invLock>>

-----------------------------------------------------------------------------
(* The handlers' reads and the checks they make on what they read. *)

\* The stage after a successful read; the clock is read again for the writes
\* that carry a time.
ReadOn(s, stage) ==
    /\ pc' = [pc EXCEPT ![s] = stage]
    /\ at' = [at EXCEPT ![s] = IF stage = "write" /\ req[s] \in {"submit", "accept"}
                               THEN now ELSE 0]
    /\ UNCHANGED <<outside, req, user, todo, rows>>

ReadDeal(s) ==
    /\ pc[s] = "read"
    /\ ~deal.deleted
    /\ \/ req[s] = "submit" /\ deal.status = "DRAFT" /\ items # {} /\ ReadOn(s, "write")
       \/ req[s] \in {"delete", "edit"} /\ deal.status = "DRAFT" /\ ReadOn(s, "write")
       \/ req[s] = "cancel" /\ ReadOn(s, "write")
       \/ req[s] = "refresh" /\ deal.status = "PENDING_ACCEPTANCE" /\ ReadOn(s, "invite")
       \/ /\ req[s] \in {"accept", "decline"}
          /\ deal.status = "PENDING_ACCEPTANCE"
          /\ ReadOn(s, "read_invitation")

ReadInvitation(s) ==
    /\ pc[s] = "read_invitation"
    /\ inv[user[s]] = "INVITED"
    /\ ReadOn(s, IF req[s] = "accept" THEN "write" ELSE "decide")

\* A check fails: the wrong status, not the owner, not eligible, not ready.
Reject(s) ==
    /\ pc[s] \in {"read", "read_invitation"}
    /\ Finish(s)
    /\ UNCHANGED <<outside, rows>>

-----------------------------------------------------------------------------
(* The handlers' writes. *)

SubmitDeal(s) ==
    /\ pc[s] = "write" /\ req[s] = "submit"
    /\ Submittable(deal)
    /\ WriteDeal(s, Submitted(deal, at[s]))
    /\ Goto(s, "invite")
    /\ UNCHANGED <<outside, deal, inv, newInv, invLock>>

\* INSERT ... ON CONFLICT DO NOTHING for the users E eligible at that moment;
\* it waits for an insertion of the same row that is not committed yet.
InviteEligible(s) ==
    /\ pc[s] = "invite"
    /\ \E E \in SUBSET Users :
           WriteInvitations(s, {u \in E : inv[u] = "NONE"}, "INVITED")
    /\ Goto(s, "commit")
    /\ UNCHANGED <<outside, deal, newDeal, dealLock, inv>>

RecordAcceptance(s) ==
    /\ pc[s] = "write" /\ req[s] = "accept"
    /\ Acceptable(deal, at[s])
    /\ WriteDeal(s, AcceptedOnce(deal, at[s]))
    /\ Goto(s, "decide")
    /\ UNCHANGED <<outside, deal, inv, newInv, invLock>>

CancelDeal(s) ==
    /\ pc[s] = "write" /\ req[s] = "cancel"
    /\ Cancellable(deal)
    /\ WriteDeal(s, [deal EXCEPT !.status = "CANCELLED"])
    /\ Goto(s, "close")
    /\ UNCHANGED <<outside, deal, inv, newInv, invLock>>

\* The flush of deal.deleted_at = now: by primary key, whatever the status.
DeleteDeal(s) ==
    /\ pc[s] = "write" /\ req[s] = "delete"
    /\ WriteDeal(s, [deal EXCEPT !.deleted = TRUE])
    /\ Goto(s, "commit")
    /\ UNCHANGED <<outside, deal, inv, newInv, invLock>>

\* An item is added to or removed from the deal; deal_items rows only.
EditItem(s) ==
    /\ pc[s] = "write" /\ req[s] = "edit"
    /\ \E i \in Items : items' = IF i \in items THEN items \ {i} ELSE items \cup {i}
    /\ Finish(s)
    /\ UNCHANGED <<now, notified, notices, crashes, rows>>

\* The deal's conditional UPDATE matched no row: rollback, 409.
UpdateMissed(s) ==
    /\ pc[s] = "write"
    /\ \/ req[s] = "submit" /\ ~Submittable(deal)
       \/ req[s] = "accept" /\ ~Acceptable(deal, at[s])
       \/ req[s] = "cancel" /\ ~Cancellable(deal)
    /\ RollbackWrites(s)
    /\ Finish(s)
    /\ UNCHANGED outside

Decide(s) ==
    /\ pc[s] = "decide"
    /\ inv[user[s]] = "INVITED"
    /\ WriteInvitations(s, {user[s]}, IF req[s] = "accept" THEN "ACCEPTED" ELSE "DECLINED")
    /\ Goto(s, IF req[s] = "accept" /\ newDeal.status = "PUBLISHED"
               THEN "close" ELSE "commit")
    /\ UNCHANGED <<outside, deal, newDeal, dealLock, inv>>

\* The invitation is no longer INVITED: the acceptance is rolled back too.
DecideMissed(s) ==
    /\ pc[s] = "decide"
    /\ inv[user[s]] # "INVITED"
    /\ RollbackWrites(s)
    /\ Finish(s)
    /\ UNCHANGED outside

\* The rows close_open updates: INVITED as committed, not rewritten by s.
BrokenOpen(s) == {u \in Users : inv[u] # "NONE" /\ invLock[u] # s}
Open(s) == {u \in Users : inv[u] = "INVITED" /\ invLock[u] # s}

CloseOpen(s) ==
    /\ pc[s] \in {"close", "expire_close"}
    /\ WriteInvitations(s, Open(s), "CLOSED")
    /\ Goto(s, IF pc[s] = "close" THEN "commit" ELSE "expire_commit")
    /\ UNCHANGED <<outside, deal, newDeal, dealLock, inv>>

Commit(s) ==
    /\ pc[s] \in {"commit", "expire_commit"}
    /\ CommitWrites(s)
    /\ IF pc[s] = "expire_commit" THEN AfterExpire(s)
       ELSE IF req[s] \in {"submit", "refresh"} THEN Goto(s, "notify")
       ELSE Finish(s)
    /\ UNCHANGED outside

-----------------------------------------------------------------------------
(* _notify_open_invitations, after the commit of submit and refresh. *)

ListUnnotified(s) ==
    /\ pc[s] = "notify"
    /\ todo' = [todo EXCEPT ![s] = {u \in Users : inv[u] = "INVITED" /\ u \notin notified}]
    /\ pc' = [pc EXCEPT ![s] = "claim"]
    /\ UNCHANGED <<outside, req, user, at, rows>>

\* UPDATE ... SET notified_at WHERE notified_at IS NULL, committed at once.
BrokenClaimable(u) == TRUE
Claimable(u) == u \notin notified

ClaimForNotification(s) ==
    /\ pc[s] = "claim"
    /\ \E u \in todo[s] :
           /\ Claimable(u)
           /\ invLock[u] = NoSession
           /\ notified' = notified \cup {u}
           /\ user' = [user EXCEPT ![s] = u]
           /\ todo' = [todo EXCEPT ![s] = @ \ {u}]
    /\ pc' = [pc EXCEPT ![s] = "send"]
    /\ UNCHANGED <<now, items, notices, crashes, req, at, rows>>

AlreadyClaimed(s) ==
    /\ pc[s] = "claim"
    /\ \E u \in todo[s] : ~Claimable(u) /\ todo' = [todo EXCEPT ![s] = @ \ {u}]
    /\ UNCHANGED <<outside, req, pc, user, at, rows>>

NotifyAcceptanceRequested(s) ==
    /\ pc[s] = "send"
    /\ notices' = [notices EXCEPT ![user[s]] = @ + 1]
    /\ Goto(s, "claim")
    /\ UNCHANGED <<now, items, notified, crashes, rows>>

NotifyDone(s) ==
    /\ pc[s] = "claim" /\ todo[s] = {}
    /\ Finish(s)
    /\ UNCHANGED <<outside, rows>>

-----------------------------------------------------------------------------
(* The environment. *)

\* The process or its connection dies: PostgreSQL rolls its transaction back.
Crash(s) ==
    /\ pc[s] # "idle"
    /\ crashes < MaxCrashes
    /\ crashes' = crashes + 1
    /\ RollbackWrites(s)
    /\ Finish(s)
    /\ UNCHANGED <<now, items, notified, notices>>

Tick == /\ now < MaxTime
        /\ now' = now + 1
        /\ UNCHANGED <<items, notified, notices, crashes, pc, local, rows>>

\* One statement of the request that s serves.
Step(s) ==
    \/ NothingOverdue(s) \/ ExpireOverdue(s)
    \/ ReadDeal(s) \/ ReadInvitation(s) \/ Reject(s)
    \/ SubmitDeal(s) \/ InviteEligible(s) \/ RecordAcceptance(s)
    \/ CancelDeal(s) \/ DeleteDeal(s) \/ EditItem(s) \/ UpdateMissed(s)
    \/ Decide(s) \/ DecideMissed(s) \/ CloseOpen(s) \/ Commit(s)
    \/ ListUnnotified(s) \/ ClaimForNotification(s) \/ AlreadyClaimed(s)
    \/ NotifyAcceptanceRequested(s) \/ NotifyDone(s)

Next == \/ \E s \in Sessions : Arrive(s) \/ Step(s) \/ Crash(s)
        \/ Tick

Spec == Init /\ [][Next]_vars

\* A request in progress goes on (row locks are granted in the order they are
\* asked for, so a statement that can run infinitely often does), and the
\* expiry script runs again and again.
Fairness == /\ \A s \in Sessions : SF_vars(Step(s))
            /\ SF_vars(\E s \in Sessions : Begin(s, "expire", NoUser))

FairSpec == Spec /\ Fairness

-----------------------------------------------------------------------------
(* Properties. *)

Decisions == {"ACCEPTED", "DECLINED", "CLOSED"}
Ended == {"PUBLISHED", "CANCELLED", "EXPIRED"}
AcceptedBy == {u \in Users : inv[u] = "ACCEPTED"}

\* The variables hold values of the model's types.
TypeOK ==
    /\ now \in Nat \ {0} /\ crashes \in Nat
    /\ deal \in DealRow /\ newDeal \in DealRow
    /\ dealLock \in Sessions \cup {NoSession}
    /\ items \in SUBSET Items
    /\ inv \in [Users -> InvitationStatus] /\ newInv \in [Users -> InvitationStatus]
    /\ invLock \in [Users -> Sessions \cup {NoSession}]
    /\ notified \in SUBSET Users
    /\ notices \in [Users -> Nat]
    /\ req \in [Sessions -> AllRequests \cup {"none"}]
    /\ pc \in [Sessions -> Stages]
    /\ user \in [Sessions -> Users \cup {NoUser}]
    /\ at \in [Sessions -> Nat]
    /\ todo \in [Sessions -> SUBSET Users]

\* The deal's accepted_count and its ACCEPTED invitations always agree, although
\* an acceptance writes them in two statements and may lose the second one to a
\* refusal by the same user in another session.
AcceptancesCounted == deal.accepted_count = Cardinality(AcceptedBy)

\* A deal is published exactly when it has its last acceptance: with users racing
\* to accept, with a cancellation or with the expiry, it is never published
\* without one and never left waiting with all of them.
PublishedWhenFull ==
    /\ deal.status = "PUBLISHED" => deal.accepted_count = MaxAcceptances
    /\ deal.status \in {"DRAFT", "PENDING_ACCEPTANCE", "EXPIRED"}
           => deal.accepted_count < MaxAcceptances

\* A deal that has been published was published before its acceptance deadline
\* and not before its submission, whatever the acceptance waited for.
PublishedInTime ==
    deal.published_at # 0 => /\ deal.submitted_at <= deal.published_at
                             /\ deal.published_at < deal.deadline

\* Only a deal whose deadline has come is expired.
ExpiredAfterDeadline == deal.status = "EXPIRED" => deal.deadline <= now

\* Invitations are closed only together with the end of the deal's wait: no crash
\* or lost race leaves a user's invitation closed on a deal that still waits.
ClosedWithDeal == (\E u \in Users : inv[u] = "CLOSED") => deal.status \in Ended

\* What is promised of the acceptances and of how the wait for them ends.
AcceptanceOutcome ==
    /\ AcceptancesCounted /\ PublishedWhenFull /\ PublishedInTime
    /\ ExpiredAfterDeadline /\ ClosedWithDeal

\* An invited user is sent the acceptance request at most once, although submit
\* and any number of refreshes list the same open invitations.
NotifiedOnce == \A u \in Users : notices[u] <= 1 /\ (notices[u] = 1 => inv[u] # "NONE")

\* What was decided about an invitation stays decided, and an acceptance is
\* committed only for an open invitation of a deal that waits for one.
DecisionsFinal ==
    [][\A u \in Users :
           /\ inv[u] \in Decisions => inv'[u] = inv[u]
           /\ inv[u] # "NONE" => inv'[u] # "NONE"
           /\ inv[u] # inv'[u] /\ inv'[u] = "ACCEPTED"
                  => /\ inv[u] = "INVITED"
                     /\ deal.status = "PENDING_ACCEPTANCE" /\ ~deal.deleted]_vars

\* The status only moves forward, and the deadline is "fixed when the deal is
\* first submitted".
StatusFlow ==
    [][/\ deal.status # deal'.status
              => <<deal.status, deal'.status>> \in
                     {<<"DRAFT", "PENDING_ACCEPTANCE">>,
                      <<"PENDING_ACCEPTANCE", "PUBLISHED">>,
                      <<"PENDING_ACCEPTANCE", "CANCELLED">>,
                      <<"PENDING_ACCEPTANCE", "EXPIRED">>,
                      <<"PUBLISHED", "CANCELLED">>}
       /\ deal.status # "DRAFT" => deal'.deadline = deal.deadline]_vars

\* The inductive invariant behind the properties of the deal's row.  First, what
\* an open transaction has written, by the statement its session is at.
HoldsDeal(s) ==
    \/ pc[s] \in {"expire_close", "expire_commit", "close"}
    \/ /\ req[s] \in {"submit", "accept", "cancel", "delete"}
       /\ pc[s] \in {"invite", "decide", "commit"}

DealWritten(s) ==
    \/ /\ pc[s] \in {"expire_close", "expire_commit"}
       /\ Overdue(deal, now)
       /\ newDeal = [deal EXCEPT !.status = "EXPIRED"]
    \/ /\ req[s] = "submit" /\ pc[s] \in {"invite", "commit"}
       /\ Submittable(deal)
       /\ \E t \in 1..now : newDeal = Submitted(deal, t)
    \/ /\ req[s] = "accept" /\ pc[s] \in {"decide", "close", "commit"}
       /\ \E t \in 1..now : /\ Acceptable(deal, t) /\ deal.submitted_at <= t
                            /\ newDeal = AcceptedOnce(deal, t)
       /\ pc[s] = "close" => newDeal.status = "PUBLISHED"
    \/ /\ req[s] = "cancel" /\ pc[s] \in {"close", "commit"}
       /\ Cancellable(deal)
       /\ newDeal = [deal EXCEPT !.status = "CANCELLED"]
    \/ /\ req[s] = "delete" /\ pc[s] = "commit"
       /\ newDeal = [deal EXCEPT !.deleted = TRUE]

InvitationWritten(s, u) ==
    \/ /\ newInv[u] = "INVITED" /\ inv[u] = "NONE"
       /\ req[s] \in {"submit", "refresh"} /\ pc[s] = "commit"
    \/ /\ newInv[u] = "ACCEPTED" /\ inv[u] = "INVITED"
       /\ req[s] = "accept" /\ pc[s] \in {"close", "commit"} /\ user[s] = u
    \/ /\ newInv[u] = "DECLINED" /\ inv[u] = "INVITED"
       /\ req[s] = "decline" /\ pc[s] = "commit" /\ user[s] = u
    \/ /\ newInv[u] = "CLOSED" /\ inv[u] = "INVITED"
       /\ \/ pc[s] = "expire_commit"
          \/ req[s] \in {"accept", "cancel"} /\ pc[s] = "commit"
       /\ dealLock = s /\ newDeal.status \in Ended

CleanRows ==
    /\ dealLock = NoSession => newDeal = deal
    /\ \A u \in Users : invLock[u] = NoSession => newInv[u] = inv[u]

DealHeld == \A s \in Sessions : dealLock = s <=> HoldsDeal(s)

DealWrites == \A s \in Sessions : dealLock = s => DealWritten(s)

InvitationWrites ==
    \A s \in Sessions, u \in Users : invLock[u] = s => InvitationWritten(s, u)

AcceptanceWritten ==
    \A s \in Sessions : req[s] = "accept" /\ pc[s] \in {"close", "commit"}
        => user[s] \in Users /\ invLock[user[s]] = s /\ newInv[user[s]] = "ACCEPTED"

TransactionsInv ==
    CleanRows /\ DealHeld /\ DealWrites /\ InvitationWrites /\ AcceptanceWritten

\* Then what a session remembers of its reads, and what a row always satisfies.
ReadsInv ==
    \A s \in Sessions :
        /\ at[s] <= now
        /\ pc[s] \in {"read_invitation", "decide"} => req[s] \in {"accept", "decline"}
        /\ pc[s] = "invite" => req[s] \in {"submit", "refresh"}
        /\ pc[s] = "close" => req[s] \in {"accept", "cancel"}
        /\ req[s] = "submit" /\ pc[s] = "write" => at[s] >= 1
        /\ req[s] \in {"accept", "decline"} => user[s] \in Users
        /\ pc[s] = "read_invitation" => deal.status # "DRAFT"
        /\ req[s] = "accept" /\ pc[s] = "write" => deal.status # "DRAFT"
        /\ req[s] = "refresh" /\ pc[s] \in {"invite", "commit"} => deal.status # "DRAFT"
        /\ req[s] = "accept" /\ pc[s] = "write" => deal.submitted_at <= at[s]

RowInv ==
    /\ deal.status = "DRAFT" => deal.accepted_count = 0
    /\ deal.status \in {"DRAFT", "PENDING_ACCEPTANCE", "EXPIRED"} => deal.published_at = 0
    /\ deal.status # "DRAFT" => deal.submitted_at \in 1..now
    /\ AcceptancesCounted /\ PublishedWhenFull /\ PublishedInTime
    /\ ExpiredAfterDeadline /\ ClosedWithDeal

IInv == TypeOK /\ TransactionsInv /\ ReadsInv /\ RowInv

\* The invariant behind the notices: one that was sent or is about to be sent was
\* claimed, by one session only, for an invitation that was committed.
Sending(s, u) == pc[s] = "send" /\ user[s] = u

NoticesInv ==
    /\ \A u \in Users : notices[u] <= 1 /\ (u \notin notified => notices[u] = 0)
    /\ \A u \in notified : inv[u] # "NONE"
    /\ \A s \in Sessions :
        /\ \A u \in todo[s] : inv[u] # "NONE"
        /\ pc[s] = "send" => user[s] \in notified /\ notices[user[s]] = 0
        /\ \A t \in Sessions, u \in Users : Sending(s, u) /\ Sending(t, u) => s = t

\* Each commit of a session is one operation of the deal's contract, and nothing
\* else changes what the contract speaks of.
Contract == INSTANCE DealContract WITH status <- deal.status, invitation <- inv

ImplementsContract == Contract!Spec

\* Every request is answered: no wait for a row lock lasts for ever.
RequestsFinish == \A s \in Sessions : pc[s] # "idle" ~> pc[s] = "idle"

\* A deal that waits past its deadline does not wait for ever.
OverdueResolved == Overdue(deal, now) ~> ~Overdue(deal, now)

\* For TLC: users are alike, and so are sessions.
Symmetry == Permutations(Users) \cup Permutations(Sessions)
=============================================================================
