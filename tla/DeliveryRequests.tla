--------------------------- MODULE DeliveryRequests ---------------------------
(***************************************************************************)
(* The delivery requests of one order: offered to a promoter, opened to    *)
(* the others when that one refuses or lets the time pass, claimed by the  *)
(* first of them, asked for again by the customer, and cancelled with the  *)
(* order.  Promoters, the customer and the business act at the same time,  *)
(* each request of theirs in a database session of its own (READ           *)
(* COMMITTED).                                                             *)
(*                                                                         *)
(* The ORM session of a handler does not flush until it commits, so what a *)
(* handler writes is kept in draft[s] and reaches the rows in one step:    *)
(* the statements of a flush and the commit after them wait for no lock    *)
(* but those the step waits for.  Only SELECT ... FOR UPDATE holds a lock  *)
(* across steps (orderLock, requestLock).                                  *)
(***************************************************************************)
EXTENDS Integers, FiniteSets

CONSTANTS Promoters,       \* users who may deliver
          NoPromoter,      \* promoter_id IS NULL
          Sessions,        \* database sessions, one per request in progress
          NoSession,       \* nobody holds the lock
          Handlers,        \* the handlers that are called, a subset of AllHandlers
          Crashes,         \* TRUE if processes and connections may die
          ResponseWindow,  \* delivery_response_minutes
          ClaimWindow,     \* delivery_claim_minutes
          MaxRequests,     \* bound on the order's delivery requests, for TLC
          MaxTime          \* bound on the clock, for TLC

ASSUME NoPromoterAssumption == NoPromoter \notin Promoters
ASSUME NoSessionAssumption == NoSession \notin Sessions
ASSUME CrashesAssumption == Crashes \in BOOLEAN
ASSUME WindowsAssumption == /\ ResponseWindow \in Nat \ {0}
                            /\ ClaimWindow \in Nat \ {0}
                            /\ MaxRequests \in Nat \ {0}
                            /\ MaxTime \in Nat

AllHandlers == {"list", "accept", "reject", "re_request", "cancel_mine", "cancel",
                "change_status"}
ASSUME HandlersAssumption == Handlers \subseteq AllHandlers

VARIABLES now,          \* the application clock
          order,        \* the order's row as committed
          orderLock,    \* the session that selected it FOR UPDATE
          requests,     \* the delivery_requests rows, in order of creation
          before,       \* which transactions started before which: those that
                        \* inserted a request and those that are about to
          requestLock,  \* per row, the session that selected it FOR UPDATE
          job,          \* per session, the handler it runs
          pc,           \* per session, the handler's next statement
          actor,        \* per session, the promoter who called
          target,       \* per session, the request it is about
          began,        \* per session, the time its promoter accepted
          seenOrder,    \* per session, the order as it read it
          draft,        \* per session, the request row to be flushed
          seenActive    \* per session, the active requests it listed

locks == <<orderLock, requestLock>>
local == <<job, actor, target, began, seenOrder, draft, seenActive>>
vars == <<now, order, requests, before, locks, pc, local>>

Ids == 1..MaxRequests
OrderStatus == {"PENDING", "CONFIRMED", "SHIPPED", "DELIVERED", "CANCELLED"}
RequestStatus == {"REQUESTED", "ACCEPTED", "REJECTED", "EXPIRED", "CANCELLED"}
ActiveStatuses == {"REQUESTED", "ACCEPTED"}
Anyone == Promoters \cup {NoPromoter}
Jobs == (AllHandlers \ {"change_status"}) \cup {"none"}
Stages == {"idle", "expire", "expire_flush", "open", "flush", "read", "latest",
           "insert", "lock", "active", "cancel_flush"}

OrderRow == [status : OrderStatus, promoter : Anyone]
RequestRow == [status : RequestStatus \cup {"NONE"}, promoter : Anyone,
               passed_over : Anyone, escalated : BOOLEAN, expires : Nat]

NoOrder == [status |-> "PENDING", promoter |-> NoPromoter]
NoRequest == [status |-> "NONE", promoter |-> NoPromoter, passed_over |-> NoPromoter,
              escalated |-> FALSE, expires |-> 0]

\* A plan names a promoter, or (instant delivery outside a deal) nobody: then the
\* request is open to all from the start.
NewRequest(p, t) ==
    [NoRequest EXCEPT !.status = "REQUESTED", !.promoter = p,
                      !.escalated = (p = NoPromoter),
                      !.expires = t + IF p = NoPromoter THEN ClaimWindow ELSE ResponseWindow]

Existing == {r \in Ids : requests[r].status # "NONE"}
Active == {r \in Ids : requests[r].status \in ActiveStatuses}

\* latest_for_order goes by created_at, the time PostgreSQL's now() gives: that of
\* the start of the transaction which inserts the row.
Latest == CHOOSE r \in Existing : \A q \in Existing \ {r} : <<q, r>> \in before

Init ==
    /\ now = 1
    /\ \E p \in Anyone :
           /\ order = [status |-> "PENDING", promoter |-> p]
           /\ requests = [r \in Ids |-> IF r = 1 THEN NewRequest(p, 1) ELSE NoRequest]
    /\ before = {}
    /\ orderLock = NoSession
    /\ requestLock = [r \in Ids |-> NoSession]
    /\ job = [s \in Sessions |-> "none"]
    /\ pc = [s \in Sessions |-> "idle"]
    /\ actor = [s \in Sessions |-> NoPromoter]
    /\ target = [s \in Sessions |-> 1]
    /\ began = [s \in Sessions |-> 0]
    /\ seenOrder = [s \in Sessions |-> NoOrder]
    /\ draft = [s \in Sessions |-> NoRequest]
    /\ seenActive = [s \in Sessions |-> {}]

-----------------------------------------------------------------------------
(* What the handlers test and write.  The definitions named Broken... are    *)
(* faulty variants, each of the definition that follows it.                  *)

BrokenOpenFor(row, p) == row.promoter \in {NoPromoter, p} /\ row.passed_over # p
OpenFor(row, p) == /\ row.status = "REQUESTED"
                   /\ row.promoter \in {NoPromoter, p}
                   /\ row.passed_over # p

BrokenOverdue(row, t) == /\ row.status = "REQUESTED" /\ row.expires < t
                         /\ ~row.escalated
Overdue(row, t) == row.status = "REQUESTED" /\ row.expires < t

BrokenEscalated(row, t) ==
    [row EXCEPT !.passed_over = row.promoter, !.promoter = NoPromoter,
                !.escalated = TRUE, !.expires = t - ClaimWindow - ResponseWindow]
Escalated(row, t) ==
    [row EXCEPT !.passed_over = row.promoter, !.promoter = NoPromoter,
                !.escalated = TRUE, !.expires = t + ClaimWindow]

BrokenOpenedOrEnded(row, st, t) ==
    {[row EXCEPT !.status = st]}
    \cup {Escalated(row, t) : p \in {p \in Promoters : p # row.promoter}}

\* A refused or overdue request is opened to the other promoters, once, if any of
\* them can serve it; otherwise it ends with the status st.
OpenedOrEnded(row, st, t) ==
    {[row EXCEPT !.status = st]}
    \cup {Escalated(row, t) : p \in {p \in Promoters : ~row.escalated /\ p # row.promoter}}

Accepted(row, p) == [row EXCEPT !.status = "ACCEPTED", !.promoter = p]

\* The flush updates the order's promoter only when its value changed since it
\* was read; a request that ends leaves the order alone.
WritesOrder(s) == /\ draft[s].status \in {"REQUESTED", "ACCEPTED"}
                  /\ seenOrder[s].promoter # draft[s].promoter

Cancellable(s) ==
    IF job[s] = "cancel_mine" THEN {"PENDING"} ELSE {"PENDING", "CONFIRMED"}

BrokenNoIndex == TRUE
\* uq_delivery_requests_one_active_per_order
IndexAllowsActive == Active = {}

-----------------------------------------------------------------------------
(* Control. *)

Goto(s, stage) == pc' = [pc EXCEPT ![s] = stage]

Forget(s) == /\ seenOrder' = [seenOrder EXCEPT ![s] = NoOrder]
             /\ draft' = [draft EXCEPT ![s] = NoRequest]

Idle(s) == /\ pc' = [pc EXCEPT ![s] = "idle"]
           /\ job' = [job EXCEPT ![s] = "none"]
           /\ actor' = [actor EXCEPT ![s] = NoPromoter]
           /\ target' = [target EXCEPT ![s] = 1]
           /\ began' = [began EXCEPT ![s] = 0]
           /\ Forget(s)
           /\ seenActive' = [seenActive EXCEPT ![s] = {}]

\* The transaction of s ends.
BrokenReleased(s) == requestLock
Released(s) == [r \in Ids |-> IF requestLock[r] = s THEN NoSession ELSE requestLock[r]]

Unlock(s) == /\ orderLock' = IF orderLock = s THEN NoSession ELSE orderLock
             /\ requestLock' = Released(s)

Rollback(s) == /\ Unlock(s)
               /\ Idle(s)
               /\ before' = {p \in before : s \notin {p[1], p[2]}}
               /\ UNCHANGED <<now, order, requests>>

\* SELECT ... FOR UPDATE of request r.
Lock(s, r) == /\ requestLock[r] = NoSession
              /\ requestLock' = [requestLock EXCEPT ![r] = s]
              /\ UNCHANGED orderLock

ReadsOrder(s) == seenOrder' = [seenOrder EXCEPT ![s] = order]

Begin(s, j, p, r) ==
    /\ pc[s] = "idle" /\ j \in Handlers
    /\ job' = [job EXCEPT ![s] = j]
    /\ actor' = [actor EXCEPT ![s] = p]
    /\ target' = [target EXCEPT ![s] = r]
    /\ began' = [began EXCEPT ![s] = IF j = "accept" THEN now ELSE 0]
    /\ Goto(s, IF j \in {"cancel", "cancel_mine"} THEN "lock" ELSE "expire")
    /\ UNCHANGED <<now, order, requests, before, locks, seenOrder, draft, seenActive>>

Arrive(s) ==
    \/ \E j \in {"list", "re_request", "cancel", "cancel_mine"} : Begin(s, j, NoPromoter, 1)
    \/ \E j \in {"accept", "reject"}, p \in Promoters, r \in Existing : Begin(s, j, p, r)

-----------------------------------------------------------------------------
(* DeliveryRequestService.expire_overdue, called first by all but cancel.    *)

AfterExpire(s) ==
    IF job[s] = "list" THEN Idle(s)
    ELSE /\ Goto(s, IF job[s] = "re_request" THEN "read" ELSE "open")
         /\ Forget(s)
         /\ UNCHANGED <<job, actor, target, began, seenActive>>

\* SELECT ... FOR UPDATE SKIP LOCKED finds no overdue request that nobody holds.
NothingOverdue(s) ==
    /\ pc[s] = "expire"
    /\ \A r \in Ids : Overdue(requests[r], now) => requestLock[r] # NoSession
    /\ AfterExpire(s)
    /\ UNCHANGED <<now, order, requests, before, locks>>

ExpireOverdue(s) ==
    /\ pc[s] = "expire"
    /\ \E r \in Ids : /\ Overdue(requests[r], now)
                      /\ Lock(s, r)
                      /\ \E row \in OpenedOrEnded(requests[r], "EXPIRED", now) :
                             draft' = [draft EXCEPT ![s] = row]
    /\ ReadsOrder(s)
    /\ Goto(s, "expire_flush")
    /\ UNCHANGED <<now, order, requests, before, job, actor, target, began, seenActive>>

\* The flush waits for the order's row if it updates it.
Flush(s) ==
    /\ requests' = [r \in Ids |-> IF requestLock[r] = s THEN draft[s] ELSE requests[r]]
    /\ IF WritesOrder(s)
       THEN orderLock = NoSession /\ order' = [order EXCEPT !.promoter = draft[s].promoter]
       ELSE UNCHANGED order
    /\ Unlock(s)

CommitExpiry(s) ==
    /\ pc[s] = "expire_flush"
    /\ Flush(s)
    /\ AfterExpire(s)
    /\ UNCHANGED <<now, before>>

-----------------------------------------------------------------------------
(* accept and reject. *)

\* _open_request: SELECT ... FOR UPDATE, then the checks; the order is read next.
OpenRequest(s) ==
    /\ pc[s] = "open"
    /\ LET row == requests[target[s]]
       IN  /\ OpenFor(row, actor[s])
           /\ job[s] = "reject" => row.promoter = actor[s]
           /\ \E new \in IF job[s] = "accept" THEN {Accepted(row, actor[s])}
                         ELSE OpenedOrEnded(row, "REJECTED", now) :
                  draft' = [draft EXCEPT ![s] = new]
    /\ Lock(s, target[s])
    /\ ReadsOrder(s)
    /\ Goto(s, "flush")
    /\ UNCHANGED <<now, order, requests, before, job, actor, target, began, seenActive>>

NotOpen(s) ==
    /\ pc[s] = "open"
    /\ requestLock[target[s]] = NoSession
    /\ \/ ~OpenFor(requests[target[s]], actor[s])
       \/ job[s] = "reject" /\ requests[target[s]].promoter # actor[s]
    /\ Rollback(s)

\* No route given, or the route cannot serve the order: the lock is given back.
RouteRefused(s) ==
    /\ pc[s] = "flush" /\ job[s] = "accept"
    /\ Rollback(s)

CommitAnswer(s) ==
    /\ pc[s] = "flush"
    /\ Flush(s)
    /\ Idle(s)
    /\ UNCHANGED <<now, before>>

-----------------------------------------------------------------------------
(* re_request. *)

ReadOrder(s) ==
    /\ pc[s] = "read"
    /\ ReadsOrder(s)
    /\ before' = before \cup {<<x, s>> : x \in Existing
                                   \cup {t \in Sessions : pc[t] \in {"latest", "insert"}}}
    /\ Goto(s, "latest")
    /\ UNCHANGED <<now, order, requests, locks, job, actor, target, began, draft, seenActive>>

Retryable == {"REJECTED", "EXPIRED"}

ReadLatest(s) ==
    /\ pc[s] = "latest"
    /\ requests[Latest].status \in Retryable
    /\ seenOrder[s].status \in {"PENDING", "CONFIRMED"}
    /\ \E p \in Anyone : draft' = [draft EXCEPT ![s] = NewRequest(p, now)]
    /\ Goto(s, "insert")
    /\ UNCHANGED <<now, order, requests, before, locks, job, actor, target, began, seenOrder, seenActive>>

\* Not retryable, closed, or no plan serves the order now.
NotRetried(s) ==
    /\ pc[s] = "latest"
    /\ Rollback(s)

\* The insertion's foreign key (or the update of the order before it) waits while
\* the order is selected FOR UPDATE.
NextId == CHOOSE r \in Ids : r \notin Existing

InsertRequest(s) ==
    /\ pc[s] = "insert"
    /\ orderLock = NoSession
    /\ IndexAllowsActive
    /\ Existing # Ids
    /\ requests' = [requests EXCEPT ![NextId] = draft[s]]
    /\ LET Renamed(x) == IF x = s THEN NextId ELSE x
       IN  before' = {<<Renamed(p[1]), Renamed(p[2])>> : p \in before}
    /\ order' = [order EXCEPT !.promoter = IF WritesOrder(s) THEN draft[s].promoter ELSE @]
    /\ Idle(s)
    /\ UNCHANGED <<now, locks>>

\* The unique index refuses a second active request (or the bound is reached).
InsertRefused(s) ==
    /\ pc[s] = "insert"
    /\ orderLock = NoSession
    /\ ~IndexAllowsActive \/ Existing = Ids
    /\ Rollback(s)

-----------------------------------------------------------------------------
(* OrderCancellation.cancel, for the customer or the seller. *)

LockOrder(s) ==
    /\ pc[s] = "lock"
    /\ orderLock = NoSession
    /\ order.status \in Cancellable(s)
    /\ orderLock' = s
    /\ Goto(s, "active")
    /\ UNCHANGED <<now, order, requests, before, requestLock, local>>

NotCancellable(s) ==
    /\ pc[s] = "lock"
    /\ orderLock = NoSession
    /\ order.status \notin Cancellable(s)
    /\ Rollback(s)

BrokenListActive(s) ==
    /\ pc[s] = "active"
    /\ seenActive' = [seenActive EXCEPT ![s] = {r \in Active : requests[r].status = "REQUESTED"}]
    /\ Goto(s, "cancel_flush")
    /\ UNCHANGED <<now, order, requests, before, locks, job, actor, target, began, seenOrder, draft>>

\* cancel_for_order lists the active requests without locking them.
ListActive(s) ==
    /\ pc[s] = "active"
    /\ seenActive' = [seenActive EXCEPT ![s] = Active]
    /\ Goto(s, "cancel_flush")
    /\ UNCHANGED <<now, order, requests, before, locks, job, actor, target, began, seenOrder, draft>>

\* The stock cannot be released: the cancellation fails.
StockNotReleased(s) ==
    /\ pc[s] = "active"
    /\ Rollback(s)

\* The flush updates the listed requests by primary key, whatever they are by now.
CommitCancellation(s) ==
    /\ pc[s] = "cancel_flush"
    /\ \A r \in seenActive[s] : requestLock[r] = NoSession
    /\ requests' = [r \in Ids |-> IF r \in seenActive[s]
                                  THEN [requests[r] EXCEPT !.status = "CANCELLED"]
                                  ELSE requests[r]]
    /\ order' = [order EXCEPT !.status = "CANCELLED"]
    /\ Unlock(s)
    /\ Idle(s)
    /\ UNCHANGED <<now, before>>

-----------------------------------------------------------------------------
(* The rest of the world. *)

\* OrderFulfilment.change_status: locked, checked and committed by one handler.
AfterStatus(st) == CASE st = "PENDING" -> {"CONFIRMED"}
                     [] st = "CONFIRMED" -> {"SHIPPED"}
                     [] st = "SHIPPED" -> {"DELIVERED"}
                     [] OTHER -> {}

ChangeStatus ==
    /\ "change_status" \in Handlers /\ orderLock = NoSession
    /\ \E st \in AfterStatus(order.status) : order' = [order EXCEPT !.status = st]
    /\ UNCHANGED <<now, requests, before, locks, pc, local>>

\* s waits for t, which waits for s: PostgreSQL fails the statement of one of them.
WaitsForOrder(s, t) == /\ pc[s] \in {"flush", "expire_flush"} /\ WritesOrder(s)
                       /\ orderLock = t
WaitsForRequest(t, s) == /\ pc[t] = "cancel_flush"
                         /\ \E r \in seenActive[t] : requestLock[r] = s

DeadlockVictim(s) ==
    /\ \E t \in Sessions : \/ WaitsForOrder(s, t) /\ WaitsForRequest(t, s)
                           \/ WaitsForRequest(s, t) /\ WaitsForOrder(t, s)
    /\ Rollback(s)

\* The process or its connection dies: PostgreSQL rolls its transaction back.
Crash(s) == Crashes /\ pc[s] # "idle" /\ Rollback(s)

Tick == /\ now < MaxTime
        /\ now' = now + 1
        /\ UNCHANGED <<order, requests, before, locks, pc, local>>

Step(s) ==
    \/ NothingOverdue(s) \/ ExpireOverdue(s) \/ CommitExpiry(s)
    \/ OpenRequest(s) \/ NotOpen(s) \/ RouteRefused(s) \/ CommitAnswer(s)
    \/ ReadOrder(s) \/ ReadLatest(s) \/ NotRetried(s) \/ InsertRequest(s) \/ InsertRefused(s)
    \/ LockOrder(s) \/ NotCancellable(s) \/ ListActive(s) \/ StockNotReleased(s)
    \/ CommitCancellation(s) \/ DeadlockVictim(s)

Next == \/ \E s \in Sessions : Arrive(s) \/ Step(s) \/ Crash(s)
        \/ ChangeStatus
        \/ Tick

Spec == Init /\ [][Next]_vars

\* Statements in progress go on; one that waits for a row's lock gets it when its
\* holder gives it back (PostgreSQL queues them), so an expiry is not overtaken for
\* ever.  Promoters go on listing their requests, also at times when nobody holds
\* one: it is such a listing that expires the overdue ones.
Fairness ==
    /\ \A s \in Sessions : /\ SF_vars(Step(s))
                           /\ SF_vars(ExpireOverdue(s))
                           /\ SF_vars(CommitExpiry(s))
    /\ SF_vars(\E s \in Sessions : /\ requestLock = [r \in Ids |-> NoSession]
                                   /\ Begin(s, "list", NoPromoter, 1))

FairSpec == Spec /\ Fairness

-----------------------------------------------------------------------------
(* Properties. *)

\* The variables hold values of the model's types.
TypeOK ==
    /\ now \in Nat
    /\ order \in OrderRow
    /\ orderLock \in Sessions \cup {NoSession}
    /\ requests \in [Ids -> RequestRow]
    /\ before \in SUBSET ((Ids \cup Sessions) \X (Ids \cup Sessions))
    /\ requestLock \in [Ids -> Sessions \cup {NoSession}]
    /\ job \in [Sessions -> Jobs]
    /\ pc \in [Sessions -> Stages]
    /\ actor \in [Sessions -> Anyone]
    /\ target \in [Sessions -> Ids]
    /\ began \in [Sessions -> Nat]
    /\ seenOrder \in [Sessions -> OrderRow]
    /\ draft \in [Sessions -> RequestRow]
    /\ seenActive \in [Sessions -> SUBSET Ids]

\* An order never has two active requests, although every check of re_request is
\* made on rows it did not lock.
OneActive == \A q, r \in Active : q = r

\* An accepted request belongs to a promoter who was not passed over for it, and
\* the order names the same promoter, whatever expired, was refused or was asked
\* for again meanwhile.
AcceptedByOrdersPromoter ==
    \A r \in Ids : requests[r].status = "ACCEPTED" =>
        /\ requests[r].promoter \in Promoters
        /\ requests[r].promoter # requests[r].passed_over
        /\ requests[r].promoter = order.promoter

\* What is promised of an order's requests.
RequestsConsistent == OneActive /\ AcceptedByOrdersPromoter

\* What the locks give: a request somebody holds is open, its holder is about to
\* flush and knows the order's promoter; a cancellation holds its order and knows
\* all the active requests, whatever was answered since it listed them.
RequestsHeld ==
    \A r \in Ids : \A s \in Sessions : requestLock[r] = s =>
        /\ requests[r].status = "REQUESTED"
        /\ pc[s] \in {"flush", "expire_flush"}
        /\ seenOrder[s].promoter = order.promoter
        /\ draft[s].status = "ACCEPTED" => /\ draft[s].promoter \in Promoters
                                          /\ draft[s].promoter # draft[s].passed_over

FlushersHold == \A s \in Sessions : pc[s] \in {"flush", "expire_flush"} =>
                    \E r \in Ids : requestLock[r] = s

OrderHeld ==
    \A s \in Sessions : /\ pc[s] \in {"active", "cancel_flush"} => orderLock = s
                        /\ pc[s] = "cancel_flush" => Active \subseteq seenActive[s]

LocksHeld == RequestsHeld /\ FlushersHold /\ OrderHeld

\* Only promoters answer, and what is inserted is open.
Answering ==
    \A s \in Sessions :
        /\ pc[s] = "open" => actor[s] \in Promoters
        /\ pc[s] \in {"expire", "expire_flush"} =>
               job[s] \in {"list", "re_request"} \/ actor[s] \in Promoters
        /\ pc[s] = "insert" => draft[s].status = "REQUESTED"

\* Inductive: the proofs rest on it.
IInv == TypeOK /\ OneActive /\ AcceptedByOrdersPromoter /\ LocksHeld /\ Answering

\* "First to accept wins": an accepted request keeps its promoter, and it and
\* those that ended change only to CANCELLED, together with their order.
FirstAcceptWins ==
    [][\A r \in Ids :
          requests[r].status \in RequestStatus \ {"REQUESTED"} =>
              \/ requests'[r] = requests[r]
              \/ /\ requests'[r] = [requests[r] EXCEPT !.status = "CANCELLED"]
                 /\ order'.status = "CANCELLED"]_vars

\* A request is opened to the other promoters at most once, and its time is
\* extended then and only then.
OpenedOnce ==
    [][\A r \in Existing :
          /\ requests[r].escalated => requests'[r].expires = requests[r].expires
          /\ requests'[r].expires # requests[r].expires
                 => requests'[r].escalated /\ requests'[r].passed_over = requests[r].promoter]_vars

\* The cancellation of an order takes all its active requests with it, also one
\* that is answered or opened to others while the cancellation runs.
CancelTakesAll ==
    [][order.status # "CANCELLED" /\ order'.status = "CANCELLED"
           => \A r \in Ids : requests'[r].status \notin ActiveStatuses]_vars

\* "This order can no longer be delivered": a cancelled order has no active
\* request.  re_request reads the order without a lock, so this fails.
CancelledNotDelivered == order.status = "CANCELLED" => Active = {}

\* Every handler ends, also when a cancellation and an answer wait for each other.
HandlersFinish == \A s \in Sessions : pc[s] # "idle" ~> pc[s] = "idle"

\* A request does not stay open past its time for ever.
OverdueResolved ==
    \A r \in Ids : requests[r].status = "REQUESTED" /\ requests[r].expires < now
        ~> ~(requests[r].status = "REQUESTED" /\ requests[r].expires < now)
=============================================================================
