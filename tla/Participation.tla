---------------------------- MODULE Participation ---------------------------
(***************************************************************************)
(* The customers of one published deal: who joined it, the deal's          *)
(* joined_count, their cart lines for an item of the deal, and their       *)
(* orders.  What a request reads to decide (joined? ordered? in the cart?) *)
(* it reads without a lock and acts upon later.  Its writes, of which      *)
(* nobody sees a part, are one step with their commit: they lock the       *)
(* user's participant row or its unique key first and the deal's row then, *)
(* in every request, so that they do not wait in a circle.  A crash before *)
(* it is a request that gets no further.                                   *)
(***************************************************************************)
EXTENDS Integers, FiniteSets

CONSTANTS Users, NoUser, Sessions,
          MaxQuantity,  \* MAX_ORDER_LINE_QUANTITY
          MaxOrders     \* bound: open orders of one user

VARIABLES
    open,         \* the deal is published and within its time
    participants, \* the users with a deal_participants row
    joined,       \* deals.joined_count
    cart,         \* each user's cart line: its quantity, 0 when there is none
    orders,       \* each user's orders on the deal that are not cancelled
    req,          \* each session's handler, user, next statement, and what it read
    overlapped    \* users who had two requests under way at once

vars == <<open, participants, joined, cart, orders, req, overlapped>>

Idle == [at |-> "idle", user |-> NoUser, seen |-> 0]
Statements == {"join", "joining", "leave", "leaving", "blocked", "order", "ordering",
               "add", "adding", "update", "remove"}

TypeOK ==
    /\ open \in BOOLEAN
    /\ participants \subseteq Users /\ overlapped \subseteq Users
    /\ joined \in 0..Cardinality(Users)
    /\ cart \in [Users -> 0..MaxQuantity]
    /\ orders \in [Users -> 0..MaxOrders]
    /\ req \in [Sessions -> [at: Statements \cup {"idle"}, user: Users \cup {NoUser}, seen: 0..MaxQuantity]]

Init ==
    /\ open = TRUE /\ participants = {} /\ joined = 0 /\ overlapped = {}
    /\ cart = [u \in Users |-> 0] /\ orders = [u \in Users |-> 0]
    /\ req = [s \in Sessions |-> Idle]

rows == <<participants, joined, cart, orders>>

Begin(s, u, statement, seen) ==
    /\ req[s] = Idle
    /\ req' = [req EXCEPT ![s] = [at |-> statement, user |-> u, seen |-> seen]]
    /\ overlapped' = IF \E r \in Sessions : req[r].user = u THEN overlapped \cup {u} ELSE overlapped
    /\ UNCHANGED <<open, rows>>

Continue(s, statement, seen) ==
    /\ req' = [req EXCEPT ![s].at = statement, ![s].seen = seen]
    /\ UNCHANGED <<open, rows, overlapped>>

End(s) == req' = [req EXCEPT ![s] = Idle] /\ UNCHANGED <<open, overlapped>>

\* A check that refuses: on what was read, or on data that is not modelled.
Refuse(s) == req[s] # Idle /\ End(s) /\ UNCHANGED rows

At(s, statement) == req[s].at = statement
User(s) == req[s].user

----------------------------------------------------------------------------
(* join *)
AskJoin(s, u) == open /\ Begin(s, u, "join", 0)
CheckNotJoined(s) == At(s, "join") /\ User(s) \notin participants /\ Continue(s, "joining", 0)

\* greatest(joined_count + delta, 0)
BrokenAdjusted(delta) == joined + delta
Adjusted(delta) == IF joined + delta < 0 THEN 0 ELSE joined + delta

\* The unique key refuses a second row; the session is then rolled back.
CommitJoin(s) ==
    /\ At(s, "joining")
    /\ User(s) \notin participants
    /\ participants' = participants \cup {User(s)}
    /\ joined' = Adjusted(1)
    /\ End(s)
    /\ UNCHANGED <<cart, orders>>

(* leave *)
AskLeave(s, u) == Begin(s, u, "leave", 0)
CheckJoined(s) == At(s, "leave") /\ User(s) \in participants /\ Continue(s, "blocked", 0)
BrokenCheckNoOrder(s) == At(s, "blocked") /\ Continue(s, "leaving", 0)
CheckNoOrder(s) == At(s, "blocked") /\ orders[User(s)] = 0 /\ Continue(s, "leaving", 0)

\* The DELETE may find no row any more; the count is decremented all the same.
CommitLeave(s) ==
    /\ At(s, "leaving")
    /\ participants' = participants \ {User(s)}
    /\ joined' = Adjusted(-1)
    /\ cart' = [cart EXCEPT ![User(s)] = 0]
    /\ End(s)
    /\ UNCHANGED orders

----------------------------------------------------------------------------
(* DealOrderService.place: for what the cart holds (checkout) or for a     *)
(* list that the client sends; limits and stock are OrderStock's.          *)
AskCheckout(s, u) == cart[u] > 0 /\ Begin(s, u, "order", cart[u])
AskOrder(s, u, q) == Begin(s, u, "order", q)
CheckOrderer(s) ==
    /\ At(s, "order") /\ User(s) \in participants /\ open
    /\ Continue(s, "ordering", req[s].seen)

\* The item's cart line goes, whatever its quantity is by now.
CommitOrder(s) ==
    /\ At(s, "ordering") /\ orders[User(s)] < MaxOrders
    /\ orders' = [orders EXCEPT ![User(s)] = @ + 1]
    /\ cart' = [cart EXCEPT ![User(s)] = 0]
    /\ End(s)
    /\ UNCHANGED <<participants, joined>>

CancelOrder(u) ==
    /\ orders[u] > 0
    /\ orders' = [orders EXCEPT ![u] = @ - 1]
    /\ UNCHANGED <<open, participants, joined, cart, req, overlapped>>

----------------------------------------------------------------------------
(* CartService: add_item, update_item, remove_item, remove_deal.  A line   *)
(* is written as an absolute quantity, computed from the one that was read.*)
AskAdd(s, u) == open /\ u \in participants /\ Begin(s, u, "add", 0)
ReadLine(s) == At(s, "add") /\ Continue(s, "adding", cart[User(s)])

WriteLine(s, q) ==
    /\ cart' = [cart EXCEPT ![User(s)] = q]
    /\ End(s)
    /\ UNCHANGED <<participants, joined, orders>>

\* An INSERT meets the unique key, an UPDATE a row that is gone: then it fails.
WriteAdded(s, q) ==
    /\ At(s, "adding") /\ req[s].seen + q <= MaxQuantity
    /\ (req[s].seen = 0) = (cart[User(s)] = 0)
    /\ WriteLine(s, req[s].seen + q)

AskUpdate(s, u, statement) == cart[u] > 0 /\ Begin(s, u, statement, cart[u])
WriteUpdated(s, q) == At(s, "update") /\ cart[User(s)] > 0 /\ WriteLine(s, q)
DeleteLine(s) == At(s, "remove") /\ WriteLine(s, 0)
RemoveDeal(u) ==
    /\ cart[u] > 0
    /\ cart' = [cart EXCEPT ![u] = 0]
    /\ UNCHANGED <<open, participants, joined, orders, req, overlapped>>

\* The deal ends or is cancelled: DealLifecycle.
CloseDeal == open /\ open' = FALSE /\ UNCHANGED <<rows, req, overlapped>>

Step(s) ==
    \/ CheckNotJoined(s) \/ CommitJoin(s) \/ CheckJoined(s) \/ CheckNoOrder(s) \/ CommitLeave(s)
    \/ CheckOrderer(s) \/ CommitOrder(s) \/ ReadLine(s) \/ DeleteLine(s) \/ Refuse(s)
    \/ \E q \in 1..MaxQuantity : WriteAdded(s, q) \/ WriteUpdated(s, q)

Next ==
    \/ \E s \in Sessions :
        \/ Step(s)
        \/ \E u \in Users :
            \/ AskJoin(s, u) \/ AskLeave(s, u) \/ AskCheckout(s, u) \/ AskAdd(s, u)
            \/ AskUpdate(s, u, "update") \/ AskUpdate(s, u, "remove")
            \/ \E q \in 1..MaxQuantity : AskOrder(s, u, q)
    \/ \E u \in Users : CancelOrder(u) \/ RemoveDeal(u)
    \/ CloseDeal

Spec == Init /\ [][Next]_vars

----------------------------------------------------------------------------
\* joined_count never says more than joined, and is exact as long as no user
\* sent two requests at once, however the requests of different users
\* interleave (two leaves of one user both decrement it).
JoinedCounted ==
    /\ joined <= Cardinality(participants)
    /\ overlapped = {} => joined = Cardinality(participants)

\* A user who sends one request at a time has orders and cart lines only on a
\* deal joined, whatever the others do.
SerialUsersConsistent ==
    \A u \in Users \ overlapped : orders[u] > 0 \/ cart[u] > 0 => u \in participants
----------------------------------------------------------------------------
(* The inductive invariant. *)

\* joined_count is within the bounds that hold whoever sends what at once.
Counted == IsFiniteSet(participants) /\ JoinedCounted

\* A user who never had two requests under way at once has one now at most.
OneRequestEach ==
    \A u \in Users \ overlapped : \A s, t \in Sessions : User(s) = u /\ User(t) = u => s = t

\* What a request of such a user was told is still so: a participant remains one,
\* and who may leave has no order.
AsParticipant == {"blocked", "leaving", "ordering", "add", "adding"}
ReadsHold ==
    \A s \in Sessions :
        /\ req[s].at # "idle" => User(s) \in Users
        /\ User(s) \in Users \ overlapped =>
              /\ req[s].at \in AsParticipant => User(s) \in participants
              /\ At(s, "leaving") => orders[User(s)] = 0

IInv == TypeOK /\ Counted /\ OneRequestEach /\ ReadsHold /\ SerialUsersConsistent
=============================================================================
