------------------------------ MODULE OrderStock ------------------------------
(***************************************************************************)
(* The orders on the products of one shop (a business with the e-commerce  *)
(* plugin), placed on its deal or directly, and the stock that backs them. *)
(* Customers place and cancel, the shop fulfils, cancels and adjusts its   *)
(* stock, all at the same time, each request in a database session of its  *)
(* own (READ COMMITTED).                                                   *)
(*                                                                         *)
(* The rows a handler protects are selected FOR UPDATE one by one, each    *)
(* kind in the order of its ids, and stay locked until its transaction     *)
(* ends: the order or the deal items first, the stock levels after them.   *)
(* What it writes under these locks shows with its commit, in one step.    *)
(*                                                                         *)
(* A request that the checks before the first lock refuse (the deal is not *)
(* open, the customer has not joined it, a product is inactive or now      *)
(* cheaper than in the deal, the plugin does not serve the business, the   *)
(* delivery plan fails) writes nothing, and is no step here.               *)
(***************************************************************************)
EXTENDS Integers, FiniteSets

CONSTANTS Products,    \* ids of the products, numbers in the order of the ids
          ItemId,      \* id of the deal's item for each product (once per deal)
          MaxId,       \* the largest of these ids
          Limit,       \* the item's quantity: the most units the deal may sell
          Orders,      \* ids of the orders that may be placed
          NoOrder,     \* order_id IS NULL
          Sessions,    \* database sessions, one per request in progress
          NoSession,   \* nobody holds the lock
          Handlers,    \* the handlers that are called, a subset of AllHandlers
          MaxStock,    \* MAX_STOCK_QUANTITY
          MaxQuantity  \* bound on the units of one line or adjustment, for TLC

ASSUME ProductsAssumption == MaxId \in Nat /\ Products \subseteq 0..MaxId
ASSUME ItemIdAssumption ==
           /\ ItemId \in [Products -> 0..MaxId]
           /\ \A p, q \in Products : ItemId[p] = ItemId[q] => p = q
ASSUME LimitAssumption == Limit \in [Products -> Nat \ {0}]
ASSUME NoOrderAssumption == NoOrder \notin Orders
ASSUME NoSessionAssumption == NoSession \notin Sessions
ASSUME BoundsAssumption == MaxStock \in Nat /\ MaxQuantity \in Nat

AllHandlers == {"deal", "direct", "cancel_mine", "cancel", "change_status", "adjust"}
ASSUME HandlersAssumption == Handlers \subseteq AllHandlers

VARIABLES stock,      \* plg_ecommerce_stock_levels.quantity, as committed
          movements,  \* plg_ecommerce_stock_movements: per order id (NoOrder: the
                      \* shop's own), the sum of the changes of each product
          orders,     \* the orders and their items, as committed
          itemLock,   \* the session that selected the deal item FOR UPDATE
          orderLock,  \* the session that selected the order FOR UPDATE
          stockLock,  \* the session that selected the stock level FOR UPDATE
          job,        \* per session, the handler it runs
          pc,         \* per session, the handler's next statement
          target,     \* per session, the order it is about
          change,     \* per session, what it will add to each product's stock
          seenStatus, \* per session, the order's status as selected
          seenStock   \* per session, the stock quantities as selected

locks == <<itemLock, orderLock, stockLock>>
rows == <<stock, movements, orders>>
local == <<job, pc, target, change, seenStatus, seenStock>>
vars == <<rows, locks, local>>

OrderStatus == {"PENDING", "CONFIRMED", "SHIPPED", "DELIVERED", "CANCELLED"}
Jobs == AllHandlers \cup {"none"}
Stages == {"idle", "lock_items", "limits", "lock_order", "lock_stock", "write"}

Changes == [Products -> Int]
OrderRow == [status : OrderStatus \cup {"NONE"}, deal : BOOLEAN, quantity : [Products -> Nat]]

Nothing == [p \in Products |-> 0]
NoRow == [status |-> "NONE", deal |-> FALSE, quantity |-> Nothing]

Init ==
    /\ stock \in [Products -> 0..MaxStock]
    /\ movements = [o \in Orders \cup {NoOrder} |-> IF o = NoOrder THEN stock ELSE Nothing]
    /\ orders = [o \in Orders |-> NoRow]
    /\ itemLock = [p \in Products |-> NoSession]
    /\ orderLock = [o \in Orders |-> NoSession]
    /\ stockLock = [p \in Products |-> NoSession]
    /\ job = [s \in Sessions |-> "none"]
    /\ pc = [s \in Sessions |-> "idle"]
    /\ target = [s \in Sessions |-> NoOrder]
    /\ change = [s \in Sessions |-> Nothing]
    /\ seenStatus = [s \in Sessions |-> "NONE"]
    /\ seenStock = [s \in Sessions |-> Nothing]

-----------------------------------------------------------------------------
(* What the handlers compute.  The definitions named Broken... are faulty    *)
(* variants, each of the definition that follows it.                         *)

Live == {o \in Orders : orders[o].status \notin {"NONE", "CANCELLED"}}

\* SUM: of a number of units per order, one pair for each unit is counted.
Units(q) == UNION {{o} \X (1..q[o]) : o \in DOMAIN q}
Total(q) == Cardinality(Units(q))

OnDeal(o) == o \in Live /\ orders[o].deal
DealUnits(p) == [o \in Orders |-> IF OnDeal(o) THEN orders[o].quantity[p] ELSE 0]

\* deal_item_ordered_quantity
Ordered(p) == Total(DealUnits(p))

BrokenCancellable(j) == {"PENDING", "CONFIRMED", "SHIPPED"}
Cancellable(j) == IF j = "cancel_mine" THEN {"PENDING"} ELSE {"PENDING", "CONFIRMED"}

\* ORDER_TRANSITIONS
Transitions(st) == CASE st = "PENDING" -> {"CONFIRMED"}
                     [] st = "CONFIRMED" -> {"SHIPPED"}
                     [] st = "SHIPPED" -> {"DELIVERED"}
                     [] OTHER -> {}

BrokenChangeAllowed(old, c) == old + c <= MaxStock
\* ensure_change_allowed
ChangeAllowed(old, c) == old + c >= 0 /\ old + c <= MaxStock

\* The rows of the session's lines, and those of them that it holds.
Lines(s) == {p \in Products : change[s][p] # 0}
HeldItems(s) == {p \in Products : itemLock[p] = s}
HeldStock(s) == {p \in Products : stockLock[p] = s}

\* ORDER BY id: the item to be locked next.
NextItems(s) == {p \in Lines(s) \ HeldItems(s) :
                     \A q \in Lines(s) \ HeldItems(s) : ItemId[p] <= ItemId[q]}

BrokenNextStock(s) == Lines(s) \ HeldStock(s)
\* ORDER BY product_id
NextStock(s) == {p \in Lines(s) \ HeldStock(s) :
                     \A q \in Lines(s) \ HeldStock(s) : p <= q}

-----------------------------------------------------------------------------
(* Control. *)

Goto(s, stage) == pc' = [pc EXCEPT ![s] = stage]

\* The row locks of s are released when its transaction ends.
BrokenUnlock(s) == /\ itemLock' = [p \in Products |-> IF itemLock[p] = s THEN NoSession ELSE itemLock[p]]
                   /\ stockLock' = [p \in Products |-> IF stockLock[p] = s THEN NoSession ELSE stockLock[p]]
                   /\ UNCHANGED orderLock
Unlock(s) ==
    /\ itemLock' = [p \in Products |-> IF itemLock[p] = s THEN NoSession ELSE itemLock[p]]
    /\ orderLock' = [o \in Orders |-> IF orderLock[o] = s THEN NoSession ELSE orderLock[o]]
    /\ stockLock' = [p \in Products |-> IF stockLock[p] = s THEN NoSession ELSE stockLock[p]]

End(s) ==
    /\ Goto(s, "idle")
    /\ job' = [job EXCEPT ![s] = "none"]
    /\ target' = [target EXCEPT ![s] = NoOrder]
    /\ change' = [change EXCEPT ![s] = Nothing]
    /\ seenStatus' = [seenStatus EXCEPT ![s] = "NONE"]
    /\ seenStock' = [seenStock EXCEPT ![s] = Nothing]
    /\ Unlock(s)

Rollback(s) == End(s) /\ UNCHANGED rows

Begin(s, j, o, c, stage) ==
    /\ pc[s] = "idle" /\ j \in Handlers
    /\ Goto(s, stage)
    /\ job' = [job EXCEPT ![s] = j]
    /\ target' = [target EXCEPT ![s] = o]
    /\ change' = [change EXCEPT ![s] = c]
    /\ UNCHANGED <<rows, locks, seenStatus, seenStock>>

-----------------------------------------------------------------------------
(* The requests. *)

\* An id that is nobody's yet.
NewOrder(o) == orders[o].status = "NONE" /\ \A s \in Sessions : target[s] # o

\* A cart of at least one line, each product once.
Carts == [Products -> 0..MaxQuantity] \ {Nothing}

Negated(q) == [p \in Products |-> -q[p]]

PlaceOnDeal(s, o) ==
    /\ NewOrder(o)
    /\ \E q \in Carts : Begin(s, "deal", o, Negated(q), "lock_items")

PlaceDirect(s, o) ==
    /\ NewOrder(o)
    /\ \E q \in Carts : Begin(s, "direct", o, Negated(q), "lock_stock")

\* The customer, or the business, cancels; the business changes the status.
AskCancel(s, o) ==
    /\ orders[o].status # "NONE"
    /\ \E j \in {"cancel_mine", "cancel"} : Begin(s, j, o, Nothing, "lock_order")

AskChangeStatus(s, o) ==
    /\ orders[o].status # "NONE"
    /\ Begin(s, "change_status", o, Nothing, "lock_order")

AskAdjust(s) ==
    \E p \in Products, c \in (-MaxQuantity..MaxQuantity) \ {0} :
        Begin(s, "adjust", NoOrder, [Nothing EXCEPT ![p] = c], "lock_stock")

-----------------------------------------------------------------------------
(* Selecting the rows FOR UPDATE. *)

\* lock_deal_items, one row of it
SelectItem(s, p) == /\ itemLock[p] = NoSession
                    /\ itemLock' = [itemLock EXCEPT ![p] = s]

LockItem(s) ==
    /\ pc[s] = "lock_items"
    /\ \E p \in NextItems(s) :
           /\ SelectItem(s, p)
           /\ Goto(s, IF Lines(s) \ HeldItems(s) = {p} THEN "limits" ELSE "lock_items")
    /\ UNCHANGED <<rows, orderLock, stockLock, job, target, change, seenStatus, seenStock>>

\* _ensure_within_deal_limits
WithinLimits(s) == \A p \in Lines(s) : Ordered(p) - change[s][p] <= Limit[p]

CheckLimits(s) ==
    /\ pc[s] = "limits"
    /\ WithinLimits(s)
    /\ Goto(s, "lock_stock")
    /\ UNCHANGED <<rows, locks, job, target, change, seenStatus, seenStock>>

LimitExceeded(s) ==
    /\ pc[s] = "limits"
    /\ ~WithinLimits(s)
    /\ Rollback(s)

BrokenSelectOrder(s, o) == orderLock' = [orderLock EXCEPT ![o] = s]
\* OrderRepository.get(for_update=True)
SelectOrder(s, o) == /\ orderLock[o] = NoSession
                     /\ orderLock' = [orderLock EXCEPT ![o] = s]

Permitted(j, st) == IF j = "change_status" THEN Transitions(st) # {} ELSE st \in Cancellable(j)

LockOrder(s) ==
    /\ pc[s] = "lock_order"
    /\ SelectOrder(s, target[s])
    /\ LET row == orders[target[s]]
       IN  /\ Permitted(job[s], row.status)
           /\ seenStatus' = [seenStatus EXCEPT ![s] = row.status]
           /\ IF job[s] = "change_status"
              THEN Goto(s, "write") /\ UNCHANGED change
              ELSE Goto(s, "lock_stock") /\ change' = [change EXCEPT ![s] = row.quantity]
    /\ UNCHANGED <<rows, itemLock, stockLock, job, target, seenStock>>

\* NOT_CANCELLABLE, or the status asked for does not follow the order's.
NotPermitted(s) ==
    /\ pc[s] = "lock_order"
    /\ orderLock[target[s]] = NoSession
    /\ job[s] = "change_status" \/ ~Permitted(job[s], orders[target[s]].status)
    /\ Rollback(s)

\* The plugin no longer serves the business (COMMERCE_UNAVAILABLE).
NotServed(s) ==
    /\ pc[s] = "lock_stock"
    /\ job[s] \in {"cancel_mine", "cancel"}
    /\ HeldStock(s) = {}
    /\ Rollback(s)

BrokenSelectStock(s, p) == stockLock' = [stockLock EXCEPT ![p] = s]
\* lock_stock, one row of it
SelectStock(s, p) == /\ stockLock[p] = NoSession
                     /\ stockLock' = [stockLock EXCEPT ![p] = s]

LockStock(s) ==
    /\ pc[s] = "lock_stock"
    /\ \E p \in NextStock(s) :
           /\ SelectStock(s, p)
           /\ seenStock' = [seenStock EXCEPT ![s][p] = stock[p]]
           /\ Goto(s, IF Lines(s) \ HeldStock(s) = {p} THEN "write" ELSE "lock_stock")
    /\ UNCHANGED <<rows, itemLock, orderLock, job, target, change, seenStatus>>

-----------------------------------------------------------------------------
(* Writing and committing. *)

Sufficient(s) == \A p \in Lines(s) : ChangeAllowed(seenStock[s][p], change[s][p])

\* StockLedger.apply for every line; o is the order id the movements carry.
ApplyChange(s, o) ==
    /\ stock' = [p \in Products |-> IF p \in Lines(s) THEN seenStock[s][p] + change[s][p]
                                                      ELSE stock[p]]
    /\ movements' = [movements EXCEPT ![o] = [p \in Products |-> @[p] + change[s][p]]]

CommitPlace(s) ==
    /\ pc[s] = "write" /\ job[s] \in {"deal", "direct"}
    /\ Sufficient(s)
    /\ ApplyChange(s, target[s])
    /\ orders' = [orders EXCEPT ![target[s]] = [status |-> "PENDING", deal |-> job[s] = "deal",
                                                quantity |-> Negated(change[s])]]
    /\ End(s)

CommitCancel(s) ==
    /\ pc[s] = "write" /\ job[s] \in {"cancel_mine", "cancel"}
    /\ Sufficient(s)
    /\ ApplyChange(s, target[s])
    /\ orders' = [orders EXCEPT ![target[s]].status = "CANCELLED"]
    /\ End(s)

CommitStatus(s) ==
    /\ pc[s] = "write" /\ job[s] = "change_status"
    /\ \E st \in Transitions(seenStatus[s]) :
           orders' = [orders EXCEPT ![target[s]].status = st]
    /\ End(s)
    /\ UNCHANGED <<stock, movements>>

CommitAdjust(s) ==
    /\ pc[s] = "write" /\ job[s] = "adjust"
    /\ Sufficient(s)
    /\ ApplyChange(s, NoOrder)
    /\ End(s)
    /\ UNCHANGED orders

\* Too little stock for a line, or too much: the whole request is rolled back.
Insufficient(s) ==
    /\ pc[s] = "write" /\ job[s] # "change_status"
    /\ ~Sufficient(s)
    /\ Rollback(s)

\* The process or its connection dies, or the commit fails; nothing is written.
Die(s) == pc[s] # "idle" /\ Rollback(s)

Request(s) == \/ AskAdjust(s)
              \/ \E o \in Orders : \/ PlaceOnDeal(s, o) \/ PlaceDirect(s, o)
                                   \/ AskCancel(s, o) \/ AskChangeStatus(s, o)

Commit(s) == CommitPlace(s) \/ CommitCancel(s) \/ CommitStatus(s) \/ CommitAdjust(s)

Proceed(s) == \/ LockItem(s) \/ CheckLimits(s) \/ LimitExceeded(s)
              \/ LockOrder(s) \/ NotPermitted(s) \/ NotServed(s) \/ LockStock(s)
              \/ Commit(s) \/ Insufficient(s)

Next == \E s \in Sessions : Request(s) \/ Proceed(s) \/ Die(s)

Spec == Init /\ [][Next]_vars

\* PostgreSQL serves those who wait for a row in turn, so nobody waits for ever for
\* rows that are released again and again; a handler goes on to its commit.
Fairness ==
    \A s \in Sessions : /\ SF_vars(LockItem(s)) /\ SF_vars(LockStock(s))
                        /\ SF_vars(LockOrder(s) \/ NotPermitted(s))
                        /\ WF_vars(CheckLimits(s) \/ LimitExceeded(s))
                        /\ WF_vars(Commit(s) \/ Insufficient(s))

FairSpec == Spec /\ Fairness

-----------------------------------------------------------------------------
(* Type correctness. *)

\* Every variable has its type; in particular a committed stock level is between
\* zero and MAX_STOCK_QUANTITY, whoever reserves, releases and adjusts it.
TypeOK ==
    /\ stock \in [Products -> 0..MaxStock]
    /\ movements \in [Orders \cup {NoOrder} -> Changes]
    /\ orders \in [Orders -> OrderRow]
    /\ itemLock \in [Products -> Sessions \cup {NoSession}]
    /\ orderLock \in [Orders -> Sessions \cup {NoSession}]
    /\ stockLock \in [Products -> Sessions \cup {NoSession}]
    /\ job \in [Sessions -> Jobs]
    /\ pc \in [Sessions -> Stages]
    /\ target \in [Sessions -> Orders \cup {NoOrder}]
    /\ change \in [Sessions -> Changes]
    /\ seenStatus \in [Sessions -> OrderStatus \cup {"NONE"}]
    /\ seenStock \in [Sessions -> [Products -> Nat]]

(* Safety. *)

\* What the stock movements say of an order is what the order holds: the quantities
\* of its lines while it lives, nothing once it is cancelled.  So an order is
\* reserved once and released once, however many cancel it at the same time
\* (OrderCancellation.cancel, DealStockService._apply).
OrderLedger ==
    \A o \in Orders, p \in Products :
        movements[o][p] = IF o \in Live THEN -orders[o].quantity[p] ELSE 0

\* What the movements say each order has taken of product p.
Taken(p) == [o \in Orders |-> -movements[o][p]]

\* The movements account for every unit of stock, what the shop put in less what the
\* orders took: no change of another session is lost ("every stock change writes a
\* movement record under row locks").
StockIsLedger ==
    \A p \in Products :
        /\ \A o \in Orders : movements[o][p] <= 0
        /\ stock[p] = movements[NoOrder][p] - Total(Taken(p))

\* However many order at once, the orders that are not cancelled keep within each
\* deal item's quantity ("the deal item quantity caps the units sold").
WithinLimit == \A p \in Products : Ordered(p) <= Limit[p]

\* What is promised of the stock and of the deal items.
StockAccounted == StockIsLedger /\ WithinLimit

\* The sessions that hold a row for which s waits.
BlockedBy(s) ==
    CASE pc[s] = "lock_items" -> {itemLock[p] : p \in NextItems(s)} \ {NoSession}
      [] pc[s] = "lock_order" -> {orderLock[target[s]]} \ {NoSession}
      [] pc[s] = "lock_stock" -> {stockLock[p] : p \in NextStock(s)} \ {NoSession}
      [] OTHER -> {}

\* Sessions never wait for each other in a circle: whatever sessions are waiting,
\* one of them waits for none of the others (the ORDER BY of lock_deal_items and of
\* lock_stock, and the order's row before the stock).  The delivery requests, whose
\* rows a cancellation writes last, are DeliveryRequests' subject.
NoDeadlock ==
    \A W \in (SUBSET Sessions) \ {{}} : \E s \in W : BlockedBy(s) \cap W = {}

(* Action properties. *)

\* An order goes from PENDING to CONFIRMED, SHIPPED and DELIVERED one by one, is
\* cancelled only before it is shipped, and what it contains stays, also when a
\* cancellation and a change of status were asked for at the same time.
StatusPath ==
    [][\A o \in Orders :
           \/ orders'[o] = orders[o]
           \/ orders[o].status = "NONE" /\ orders'[o].status = "PENDING"
           \/ /\ orders'[o].status \in Transitions(orders[o].status)
                                        \cup (IF orders[o].status \in {"PENDING", "CONFIRMED"}
                                              THEN {"CANCELLED"} ELSE {})
              /\ orders'[o].quantity = orders[o].quantity]_vars

\* Each commit is one atomic operation of OrderContract on the rows as they are at
\* that time: no check is made on a row that has changed since.
Contract == INSTANCE OrderContract
ImplementsContract == Contract!Spec

(* Liveness. *)

\* A request that was begun comes to its end, although others keep asking for the
\* same rows (unless the process dies, which ends it too).
RequestsEnd == \A s \in Sessions : pc[s] # "idle" ~> pc[s] = "idle"

-----------------------------------------------------------------------------
(* The inductive invariant. *)

Placing(s) == pc[s] # "idle" /\ job[s] \in {"deal", "direct"}
Cancelling(s) == pc[s] # "idle" /\ job[s] \in {"cancel_mine", "cancel"}

\* A session selects its order before anything else, and holds it until it ends.
HoldsOrder(s) == /\ job[s] \in {"cancel_mine", "cancel", "change_status"}
                 /\ pc[s] \in {"lock_stock", "write"}

OrderSeen ==
    /\ \A s \in Sessions : HoldsOrder(s) =>
           /\ target[s] \in Orders
           /\ orderLock[target[s]] = s
           /\ seenStatus[s] = orders[target[s]].status
           /\ Permitted(job[s], seenStatus[s])
           /\ Cancelling(s) => change[s] = orders[target[s]].quantity
    /\ \A s \in Sessions : pc[s] = "lock_order" => target[s] \in Orders

\* What a session has read of the stock levels it selected is still so.
StockSeen ==
    \A s \in Sessions :
        /\ \A p \in Products : stockLock[p] = s => seenStock[s][p] = stock[p]
        /\ pc[s] = "write" => Lines(s) \subseteq HeldStock(s)

\* An order that is being placed belongs to one session, and has taken nothing yet.
OrdersApart ==
    \A s \in Sessions : Placing(s) =>
        /\ target[s] \in Orders
        /\ orders[target[s]].status = "NONE"
        /\ \A t \in Sessions \ {s} : target[t] # target[s]
        /\ \A p \in Products : change[s][p] <= 0

\* The stage a session has reached fits what it does.
StagesFit ==
    \A s \in Sessions :
        /\ pc[s] = "idle" <=> job[s] = "none"
        /\ pc[s] \in {"lock_items", "limits"} => job[s] = "deal"
        /\ pc[s] = "lock_order" => job[s] \in {"cancel_mine", "cancel", "change_status"}
        /\ pc[s] = "lock_stock" => job[s] # "change_status"
        /\ job[s] = "adjust" => target[s] = NoOrder
        /\ job[s] = "change_status" => Lines(s) = {}

\* Only a session that goes on holds locks, and what it has still to lock comes
\* after what it holds.
LocksInOrder ==
    \A s \in Sessions :
        /\ \A o \in Orders : orderLock[o] = s => pc[s] \in {"lock_stock", "write"}
        /\ \A p \in Products : itemLock[p] = s =>
              /\ pc[s] \in {"lock_items", "limits", "lock_stock", "write"}
              /\ pc[s] = "lock_items" =>
                     \A q \in Lines(s) \ HeldItems(s) : ItemId[p] < ItemId[q]
        /\ \A p \in Products : stockLock[p] = s =>
              /\ pc[s] \in {"lock_stock", "write"}
              /\ pc[s] = "lock_stock" => \A q \in Lines(s) \ HeldStock(s) : p < q

\* A session that orders on the deal holds the item of each of its lines when it
\* checks the limits, and the limits stay as it found them.  A session that adjusts
\* changes one product.
LimitsSeen ==
    \A s \in Sessions :
        /\ job[s] = "deal" =>
              /\ pc[s] \in {"limits", "lock_stock", "write"} => Lines(s) \subseteq HeldItems(s)
              /\ pc[s] \in {"lock_stock", "write"} => WithinLimits(s)
        /\ job[s] = "adjust" => \E p \in Products : Lines(s) = {p}

\* There are finitely many units to be counted.
Countable == \A p \in Products : IsFiniteSet(Units(DealUnits(p))) /\ IsFiniteSet(Units(Taken(p)))

Accounted == StockAccounted /\ LimitsSeen /\ Countable

Protected == TypeOK /\ OrderLedger /\ OrderSeen /\ StockSeen /\ OrdersApart /\ StagesFit

IInv == Protected /\ LocksInOrder
===============================================================================
