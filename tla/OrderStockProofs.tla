--------------------------- MODULE OrderStockProofs ---------------------------
(***************************************************************************)
(* Proofs about OrderStock for every number of products, orders and        *)
(* sessions: type correctness with the bounds of the stock, that the       *)
(* movements of an order are what the order holds, the order of its        *)
(* statuses, that no sessions wait for each other, that the stock is the   *)
(* sum of its movements, and that the handlers implement OrderContract.    *)
(***************************************************************************)
EXTENDS OrderStock, TLAPS, WellFoundedInduction, FiniteSetTheorems

USE DEF locks, rows, local

LEMMA NothingType == Nothing \in [Products -> Nat] /\ Nothing \in Changes
BY DEF Nothing, Changes

LEMMA TransitionsType ==
    ASSUME NEW st \in OrderStatus \cup {"NONE"}
    PROVE  /\ Transitions(st) \subseteq {"CONFIRMED", "SHIPPED", "DELIVERED"}
           /\ Transitions("NONE") = {} /\ Transitions("CANCELLED") = {}
BY DEF Transitions, OrderStatus

(* A status is permitted only of an order that lives. *)
LEMMA PermittedLive ==
    ASSUME NEW j, NEW st \in OrderStatus \cup {"NONE"}, Permitted(j, st)
    PROVE  st \notin {"NONE", "CANCELLED"}
BY TransitionsType DEF Permitted, Cancellable

(* A session that ends gives back its locks and no others. *)
LEMMA EndLocks ==
    ASSUME TypeOK, NEW s \in Sessions, End(s)
    PROVE  /\ \A p \in Products : stockLock'[p] # s
           /\ \A t \in Sessions \ {s}, p \in Products : stockLock'[p] = t <=> stockLock[p] = t
           /\ \A t \in Sessions \ {s}, o \in Orders : orderLock'[o] = t <=> orderLock[o] = t
BY NoSessionAssumption DEF TypeOK, End, Unlock

LEMMA EndTypes ==
    ASSUME TypeOK, NEW s \in Sessions, End(s)
    PROVE  /\ itemLock' \in [Products -> Sessions \cup {NoSession}]
           /\ orderLock' \in [Orders -> Sessions \cup {NoSession}]
           /\ stockLock' \in [Products -> Sessions \cup {NoSession}]
           /\ job' \in [Sessions -> Jobs]
           /\ pc' \in [Sessions -> Stages]
           /\ target' \in [Sessions -> Orders \cup {NoOrder}]
           /\ change' \in [Sessions -> Changes]
           /\ seenStatus' \in [Sessions -> OrderStatus \cup {"NONE"}]
           /\ seenStock' \in [Sessions -> [Products -> Nat]]
<1>1. "none" \in Jobs /\ "idle" \in Stages
  BY DEF Jobs, Stages
<1> QED
  BY <1>1, NothingType DEF TypeOK, End, Unlock, Goto

(* What the session that ends was doing is forgotten, the others go on. *)
LEMMA EndLocal ==
    ASSUME TypeOK, NEW s \in Sessions, End(s)
    PROVE  /\ pc'[s] = "idle" /\ job'[s] = "none" /\ target'[s] = NoOrder
           /\ \A t \in Sessions \ {s} :
                  /\ pc'[t] = pc[t] /\ job'[t] = job[t] /\ target'[t] = target[t]
                  /\ change'[t] = change[t] /\ seenStatus'[t] = seenStatus[t]
                  /\ seenStock'[t] = seenStock[t]
BY DEF TypeOK, End, Goto

(* The rest of the invariant after an end, given what the commit leaves alone:  *)
(* the order of nobody else, and the stock that nobody else has selected.       *)
LEMMA EndKeeps ==
    ASSUME TypeOK, OrderSeen, StockSeen, OrdersApart, StagesFit, NEW s \in Sessions, End(s),
           \A t \in Sessions \ {s} : target[t] \in Orders /\ (Placing(t) \/ HoldsOrder(t))
                                        => orders'[target[t]] = orders[target[t]],
           \A p \in Products : stockLock[p] # s => stock'[p] = stock[p]
    PROVE  OrderSeen' /\ StockSeen' /\ OrdersApart' /\ StagesFit'
<1>1. OrderSeen'
  BY EndLocal, EndLocks DEF OrderSeen, HoldsOrder, Cancelling, Permitted, Transitions, Cancellable
<1>2. StockSeen'
  BY EndLocal, EndLocks, NoSessionAssumption DEF StockSeen, Lines, HeldStock
<1>3. OrdersApart'
  BY EndLocal, NoOrderAssumption DEF OrdersApart, Placing
<1>4. StagesFit'
  BY EndLocal DEF StagesFit, Lines
<1> QED
  BY <1>1, <1>2, <1>3, <1>4

LEMMA RollbackKeeps ==
    ASSUME Protected, NEW s \in Sessions, Rollback(s)
    PROVE  Protected'
<1>1. TypeOK'
  BY EndTypes DEF Protected, Rollback, TypeOK
<1>2. OrderLedger'
  BY DEF Protected, Rollback, OrderLedger, Live
<1>3. OrderSeen' /\ StockSeen' /\ OrdersApart' /\ StagesFit'
  BY EndKeeps DEF Protected, Rollback
<1> QED
  BY <1>1, <1>2, <1>3 DEF Protected

(* A request that begins: an order to be placed is new, another one exists. *)
LEMMA BeginKeeps ==
    ASSUME Protected, NEW s \in Sessions, NEW j \in AllHandlers, NEW o \in Orders \cup {NoOrder},
           NEW c \in Changes, NEW stage \in {"lock_items", "lock_order", "lock_stock"},
           Begin(s, j, o, c, stage),
           j \in {"deal", "direct"} => /\ o \in Orders /\ NewOrder(o)
                                       /\ \A p \in Products : c[p] <= 0,
           o \in Orders /\ j \notin {"deal", "direct"} => orders[o].status # "NONE",
           stage = "lock_items" => j = "deal",
           stage = "lock_order" => /\ j \in {"cancel_mine", "cancel", "change_status"}
                                   /\ o \in Orders,
           stage = "lock_stock" => j \in {"direct", "adjust"},
           j = "adjust" => o = NoOrder,
           j = "change_status" => c = Nothing
    PROVE  Protected'
<1> USE DEF Protected
<1>0. /\ pc[s] = "idle"
      /\ pc'[s] = stage /\ job'[s] = j /\ target'[s] = o /\ change'[s] = c
      /\ \A t \in Sessions \ {s} : /\ pc'[t] = pc[t] /\ job'[t] = job[t]
                                   /\ target'[t] = target[t] /\ change'[t] = change[t]
      /\ UNCHANGED <<rows, locks, seenStatus, seenStock>>
  BY DEF Begin, Goto, TypeOK
<1>1. TypeOK'
  BY DEF TypeOK, Begin, Goto, Jobs, Stages
<1>2. OrderLedger'
  BY <1>0 DEF OrderLedger, Live
<1>3. OrderSeen'
  BY <1>0 DEF OrderSeen, HoldsOrder, Cancelling, Permitted, Transitions, Cancellable
<1>4. StockSeen'
  BY <1>0 DEF StockSeen, Lines, HeldStock
<1>5. OrdersApart'
  BY <1>0, NoOrderAssumption DEF OrdersApart, Placing, NewOrder
<1>6. StagesFit'
  BY <1>0, NoOrderAssumption DEF StagesFit, AllHandlers, Lines, Nothing
<1> QED
  BY <1>1, <1>2, <1>3, <1>4, <1>5, <1>6

LEMMA RequestKeeps ==
    ASSUME Protected, NEW s \in Sessions, Request(s)
    PROVE  Protected'
<1>1. CASE AskAdjust(s)
  <2>1. PICK p \in Products, c \in (-MaxQuantity..MaxQuantity) \ {0} :
            Begin(s, "adjust", NoOrder, [Nothing EXCEPT ![p] = c], "lock_stock")
    BY <1>1 DEF AskAdjust
  <2>2. [Nothing EXCEPT ![p] = c] \in Changes
    BY NothingType, BoundsAssumption DEF Changes
  <2> QED
    BY <2>1, <2>2, BeginKeeps, NoOrderAssumption DEF AllHandlers
<1>2. ASSUME NEW q \in Carts
      PROVE  Negated(q) \in Changes /\ \A p \in Products : Negated(q)[p] <= 0
  BY BoundsAssumption DEF Carts, Negated, Changes
<1>3. ASSUME NEW o \in Orders, PlaceOnDeal(s, o)
      PROVE  Protected'
  BY <1>2, <1>3, BeginKeeps DEF PlaceOnDeal, AllHandlers
<1>4. ASSUME NEW o \in Orders, PlaceDirect(s, o)
      PROVE  Protected'
  BY <1>2, <1>4, BeginKeeps DEF PlaceDirect, AllHandlers
<1>5. ASSUME NEW o \in Orders, AskCancel(s, o)
      PROVE  Protected'
  BY <1>5, NothingType, BeginKeeps DEF AskCancel, AllHandlers
<1>6. ASSUME NEW o \in Orders, AskChangeStatus(s, o)
      PROVE  Protected'
  BY <1>6, NothingType, BeginKeeps DEF AskChangeStatus, AllHandlers
<1> QED
  BY <1>1, <1>3, <1>4, <1>5, <1>6 DEF Request

LEMMA LockItemKeeps ==
    ASSUME Protected, NEW s \in Sessions, LockItem(s)
    PROVE  Protected'
<1> USE DEF Protected
<1>1. PICK p \in Products : /\ SelectItem(s, p)
                            /\ Goto(s, IF Lines(s) \ HeldItems(s) = {p} THEN "limits" ELSE "lock_items")
  BY DEF LockItem, NextItems, Lines
<1>2. /\ pc[s] = "lock_items" /\ pc'[s] \in {"limits", "lock_items"}
      /\ pc' \in [Sessions -> Stages]
      /\ \A t \in Sessions \ {s} : pc'[t] = pc[t]
      /\ UNCHANGED <<rows, orderLock, stockLock, job, target, change, seenStatus, seenStock>>
  BY <1>1 DEF LockItem, Goto, TypeOK, Stages
<1>3. TypeOK'
  BY <1>1, <1>2 DEF TypeOK, SelectItem
<1>4. OrderLedger'
  BY <1>2 DEF OrderLedger, Live
<1>5. OrderSeen'
  BY <1>2 DEF OrderSeen, HoldsOrder, Cancelling, Permitted, Transitions, Cancellable
<1>6. StockSeen'
  BY <1>2 DEF StockSeen, Lines, HeldStock
<1>7. OrdersApart'
  BY <1>2 DEF OrdersApart, Placing
<1>8. StagesFit'
  BY <1>2 DEF StagesFit, Lines
<1> QED
  BY <1>3, <1>4, <1>5, <1>6, <1>7, <1>8

LEMMA CheckLimitsKeeps ==
    ASSUME Protected, NEW s \in Sessions, CheckLimits(s)
    PROVE  Protected'
<1> USE DEF Protected
<1>1. /\ pc[s] = "limits" /\ pc'[s] = "lock_stock"
      /\ pc' \in [Sessions -> Stages]
      /\ \A t \in Sessions \ {s} : pc'[t] = pc[t]
      /\ UNCHANGED <<rows, locks, job, target, change, seenStatus, seenStock>>
  BY DEF CheckLimits, Goto, TypeOK, Stages
<1>2. TypeOK'
  BY <1>1 DEF TypeOK
<1>3. OrderLedger'
  BY <1>1 DEF OrderLedger, Live
<1>4. OrderSeen'
  BY <1>1 DEF OrderSeen, HoldsOrder, StagesFit, Cancelling, Permitted, Transitions, Cancellable
<1>5. StockSeen'
  BY <1>1 DEF StockSeen, Lines, HeldStock
<1>6. OrdersApart'
  BY <1>1 DEF OrdersApart, Placing
<1>7. StagesFit'
  BY <1>1 DEF StagesFit, Lines
<1> QED
  BY <1>2, <1>3, <1>4, <1>5, <1>6, <1>7

LEMMA LockOrderKeeps ==
    ASSUME Protected, NEW s \in Sessions, LockOrder(s)
    PROVE  Protected'
<1> USE DEF Protected
<1> DEFINE row == orders[target[s]]
<1>1. /\ pc[s] = "lock_order" /\ target[s] \in Orders
      /\ job[s] \in {"cancel_mine", "cancel", "change_status"}
  BY DEF LockOrder, OrderSeen, StagesFit
<1>2. /\ row \in OrderRow /\ row.status \in OrderStatus \cup {"NONE"}
      /\ row.quantity \in [Products -> Nat]
  BY <1>1 DEF TypeOK, OrderRow
<1>3. /\ orderLock[target[s]] = NoSession
      /\ orderLock' = [orderLock EXCEPT ![target[s]] = s]
      /\ Permitted(job[s], row.status)
      /\ seenStatus' = [seenStatus EXCEPT ![s] = row.status]
      /\ UNCHANGED <<rows, itemLock, stockLock, job, target, seenStock>>
  BY DEF LockOrder, SelectOrder
<1>4. /\ pc' \in [Sessions -> Stages] /\ pc'[s] \in {"lock_stock", "write"}
      /\ change' \in [Sessions -> Changes]
      /\ \A t \in Sessions \ {s} : pc'[t] = pc[t] /\ change'[t] = change[t]
      /\ IF job[s] = "change_status" THEN pc'[s] = "write" /\ change' = change
                                    ELSE pc'[s] = "lock_stock" /\ change'[s] = row.quantity
  <2>1. row.quantity \in Changes
    BY <1>2 DEF Changes
  <2>2. CASE job[s] = "change_status"
    BY <2>2 DEF LockOrder, Goto, TypeOK, Stages
  <2>3. CASE job[s] # "change_status"
    <3>1. pc' = [pc EXCEPT ![s] = "lock_stock"] /\ change' = [change EXCEPT ![s] = row.quantity]
      BY <2>3 DEF LockOrder, Goto
    <3> QED
      BY <2>1, <2>3, <3>1 DEF TypeOK, Stages
  <2> QED
    BY <2>2, <2>3
<1>5. TypeOK'
  BY <1>1, <1>2, <1>3, <1>4 DEF TypeOK
<1>6. OrderLedger'
  BY <1>3 DEF OrderLedger, Live
<1>7. OrderSeen'
  <2>1. ASSUME NEW t \in Sessions, HoldsOrder(t)'
        PROVE  /\ target'[t] \in Orders
               /\ orderLock'[target'[t]] = t
               /\ seenStatus'[t] = orders'[target'[t]].status
               /\ Permitted(job'[t], seenStatus'[t])
               /\ Cancelling(t)' => change'[t] = orders'[target'[t]].quantity
    <3>1. CASE t = s
      BY <1>1, <1>2, <1>3, <1>4, <2>1, <3>1 DEF HoldsOrder, Cancelling, TypeOK
    <3>2. CASE t # s
      <4>1. HoldsOrder(t)
        BY <1>3, <1>4, <2>1, <3>2 DEF HoldsOrder
      <4>2. target[t] # target[s]
        BY <1>3, <4>1, NoSessionAssumption DEF OrderSeen
      <4> QED
        BY <1>1, <1>3, <1>4, <3>2, <4>1, <4>2 DEF OrderSeen, TypeOK, Cancelling
    <3> QED
      BY <3>1, <3>2
  <2>2. \A t \in Sessions : pc'[t] = "lock_order" => target'[t] \in Orders
    BY <1>3, <1>4 DEF OrderSeen
  <2>3. (\A t \in Sessions : HoldsOrder(t) =>
           /\ target[t] \in Orders
           /\ orderLock[target[t]] = t
           /\ seenStatus[t] = orders[target[t]].status
           /\ Permitted(job[t], seenStatus[t])
           /\ Cancelling(t) => change[t] = orders[target[t]].quantity)'
    BY <2>1 DEF Permitted, Transitions, Cancellable
  <2> QED
    BY <2>2, <2>3 DEF OrderSeen
<1>8. StockSeen'
  BY <1>1, <1>3, <1>4 DEF StockSeen, Lines, HeldStock, StagesFit
<1>9. OrdersApart'
  BY <1>1, <1>3, <1>4 DEF OrdersApart, Placing
<1>10. StagesFit'
  BY <1>1, <1>3, <1>4 DEF StagesFit, Lines
<1> QED
  BY <1>5, <1>6, <1>7, <1>8, <1>9, <1>10

LEMMA LockStockKeeps ==
    ASSUME Protected, NEW s \in Sessions, LockStock(s)
    PROVE  Protected'
<1> USE DEF Protected
<1>1. PICK p \in Products : /\ p \in Lines(s) \ HeldStock(s)
                            /\ stockLock[p] = NoSession
                            /\ stockLock' = [stockLock EXCEPT ![p] = s]
                            /\ seenStock' = [seenStock EXCEPT ![s][p] = stock[p]]
                            /\ Goto(s, IF Lines(s) \ HeldStock(s) = {p} THEN "write" ELSE "lock_stock")
  BY DEF LockStock, NextStock, SelectStock, Lines
<1>2. /\ pc[s] = "lock_stock" /\ pc'[s] \in {"write", "lock_stock"}
      /\ pc'[s] = "write" => Lines(s) \ HeldStock(s) = {p}
      /\ pc' \in [Sessions -> Stages]
      /\ \A t \in Sessions \ {s} : pc'[t] = pc[t] /\ seenStock'[t] = seenStock[t]
      /\ \A q \in Products : seenStock'[s][q] = IF q = p THEN stock[p] ELSE seenStock[s][q]
      /\ UNCHANGED <<rows, itemLock, orderLock, job, target, change, seenStatus>>
  BY <1>1 DEF LockStock, Goto, TypeOK, Stages
<1>3. TypeOK'
  <2>1. stock[p] \in Nat /\ seenStock[s] \in [Products -> Nat]
    BY BoundsAssumption DEF TypeOK
  <2>2. seenStock' = [seenStock EXCEPT ![s] = [seenStock[s] EXCEPT ![p] = stock[p]]]
    BY <1>1 DEF TypeOK
  <2>3. seenStock' \in [Sessions -> [Products -> Nat]]
    BY <2>1, <2>2 DEF TypeOK
  <2> QED
    BY <1>1, <1>2, <2>3 DEF TypeOK
<1>4. OrderLedger'
  BY <1>2 DEF OrderLedger, Live
<1>5. OrderSeen'
  BY <1>2 DEF OrderSeen, HoldsOrder, StagesFit, Cancelling, Permitted, Transitions, Cancellable
<1>6. StockSeen'
  BY <1>1, <1>2, NoSessionAssumption DEF StockSeen, Lines, HeldStock, TypeOK
<1>7. OrdersApart'
  BY <1>2 DEF OrdersApart, Placing
<1>8. StagesFit'
  BY <1>2 DEF StagesFit, Lines
<1> QED
  BY <1>3, <1>4, <1>5, <1>6, <1>7, <1>8

(* A change that the ledger allows leaves a stock level between its bounds, and *)
(* touches only levels that the session has selected.                           *)
LEMMA Applied ==
    ASSUME Protected, NEW s \in Sessions, pc[s] = "write", Sufficient(s),
           NEW o \in Orders \cup {NoOrder}, ApplyChange(s, o)
    PROVE  /\ stock' \in [Products -> 0..MaxStock]
           /\ movements' \in [Orders \cup {NoOrder} -> Changes]
           /\ \A p \in Products : movements'[o][p] = movements[o][p] + change[s][p]
           /\ \A q \in Orders \ {o} : movements'[q] = movements[q]
           /\ \A p \in Products : stockLock[p] # s => stock'[p] = stock[p]
           /\ \A p \in Products : stock'[p] = stock[p] + change[s][p]
<1> USE DEF Protected
<1>1. change[s] \in Changes /\ seenStock[s] \in [Products -> Nat]
  BY DEF TypeOK
<1>2. ASSUME NEW p \in Lines(s)
      PROVE  /\ p \in Products /\ stockLock[p] = s /\ seenStock[s][p] = stock[p]
             /\ seenStock[s][p] + change[s][p] \in 0..MaxStock
  BY <1>1, BoundsAssumption DEF StockSeen, Lines, HeldStock, Sufficient, ChangeAllowed, Changes
<1>3. ASSUME NEW p \in Products \ Lines(s)
      PROVE  change[s][p] = 0
  BY DEF Lines
<1>4. movements[o] \in Changes
  BY DEF TypeOK
<1>5. [p \in Products |-> movements[o][p] + change[s][p]] \in Changes
  BY <1>1, <1>4 DEF Changes
<1>6. movements' = [movements EXCEPT ![o] = [p \in Products |-> movements[o][p] + change[s][p]]]
  BY DEF ApplyChange, TypeOK
<1>7. /\ movements' \in [Orders \cup {NoOrder} -> Changes]
      /\ \A p \in Products : movements'[o][p] = movements[o][p] + change[s][p]
      /\ \A q \in Orders \ {o} : movements'[q] = movements[q]
  BY <1>5, <1>6 DEF TypeOK
<1>8. stock' = [p \in Products |-> IF p \in Lines(s) THEN seenStock[s][p] + change[s][p]
                                                    ELSE stock[p]]
  BY DEF ApplyChange
<1>9. stock' \in [Products -> 0..MaxStock]
  BY <1>2, <1>8 DEF TypeOK
<1>10. \A p \in Products : /\ stockLock[p] # s => stock'[p] = stock[p]
                           /\ stock'[p] = stock[p] + change[s][p]
  BY <1>1, <1>2, <1>3, <1>8 DEF TypeOK, Changes
<1> QED
  BY <1>7, <1>9, <1>10

LEMMA CommitPlaceKeeps ==
    ASSUME Protected, NEW s \in Sessions, CommitPlace(s)
    PROVE  Protected'
<1> USE DEF Protected
<1> DEFINE o == target[s]
           row == [status |-> "PENDING", deal |-> job[s] = "deal", quantity |-> Negated(change[s])]
<1>1. /\ pc[s] = "write" /\ Placing(s) /\ o \in Orders /\ orders[o].status = "NONE"
      /\ \A t \in Sessions \ {s} : target[t] # o
      /\ \A p \in Products : change[s][p] <= 0
      /\ End(s) /\ Sufficient(s) /\ ApplyChange(s, o)
      /\ orders' = [orders EXCEPT ![o] = row]
      /\ change[s] \in Changes
  BY DEF CommitPlace, Placing, OrdersApart, TypeOK
<1>2. Negated(change[s]) \in [Products -> Nat]
  BY <1>1 DEF Negated, Changes
<1>3. row \in OrderRow
  BY <1>2 DEF OrderRow, OrderStatus
<1>4. orders' \in [Orders -> OrderRow] /\ orders'[o] = row
      /\ \A q \in Orders \ {o} : orders'[q] = orders[q]
  BY <1>1, <1>3 DEF TypeOK
<1> HIDE DEF row
<1>5. TypeOK'
  BY <1>1, <1>4, Applied, EndTypes DEF TypeOK
<1>6. OrderLedger'
  <2>1. \A p \in Products : movements[o][p] = 0 /\ change[s][p] \in Int
    BY <1>1 DEF OrderLedger, Live, Changes
  <2>2. \A p \in Products : movements'[o][p] = change[s][p]
    BY <1>1, <2>1, Applied
  <2>3. o \in Live' /\ \A p \in Products : orders'[o].quantity[p] = -change[s][p]
    BY <1>1, <1>4 DEF Live, row, Negated
  <2>4. \A q \in Orders \ {o} : movements'[q] = movements[q] /\ (q \in Live' <=> q \in Live)
    BY <1>1, <1>4, Applied DEF Live
  <2> QED
    BY <1>4, <2>1, <2>2, <2>3, <2>4 DEF OrderLedger
<1>7. OrderSeen' /\ StockSeen' /\ OrdersApart' /\ StagesFit'
  BY <1>1, <1>4, Applied, EndKeeps
<1> QED
  BY <1>5, <1>6, <1>7

LEMMA CommitCancelKeeps ==
    ASSUME Protected, NEW s \in Sessions, CommitCancel(s)
    PROVE  Protected'
<1> USE DEF Protected
<1> DEFINE o == target[s]
<1>1. /\ pc[s] = "write" /\ HoldsOrder(s) /\ o \in Orders
      /\ orders[o].status \notin {"NONE", "CANCELLED"}
      /\ change[s] = orders[o].quantity
      /\ End(s) /\ Sufficient(s) /\ ApplyChange(s, o)
      /\ orders' = [orders EXCEPT ![o].status = "CANCELLED"]
  BY PermittedLive DEF CommitCancel, HoldsOrder, Cancelling, OrderSeen, TypeOK
<1>2. /\ orders' \in [Orders -> OrderRow] /\ orders'[o].status = "CANCELLED"
      /\ \A q \in Orders \ {o} : orders'[q] = orders[q]
  BY <1>1 DEF TypeOK, OrderRow, OrderStatus
<1>3. TypeOK'
  BY <1>1, <1>2, Applied, EndTypes DEF TypeOK
<1>4. OrderLedger'
  <2>1. \A p \in Products : /\ orders[o].quantity[p] \in Int
                           /\ movements[o][p] = -orders[o].quantity[p]
    BY <1>1 DEF OrderLedger, Live, TypeOK, OrderRow
  <2>2. \A p \in Products : movements'[o][p] = 0
    BY <1>1, <2>1, Applied
  <2>3. o \notin Live'
    BY <1>2 DEF Live
  <2>4. \A q \in Orders \ {o} : movements'[q] = movements[q] /\ (q \in Live' <=> q \in Live)
    BY <1>1, <1>2, Applied DEF Live
  <2> QED
    BY <1>2, <2>2, <2>3, <2>4 DEF OrderLedger
<1>5. \A t \in Sessions \ {s} : target[t] \in Orders /\ (Placing(t) \/ HoldsOrder(t))
                                => orders'[target[t]] = orders[target[t]]
  BY <1>1, <1>2 DEF OrdersApart, OrderSeen
<1>6. OrderSeen' /\ StockSeen' /\ OrdersApart' /\ StagesFit'
  BY <1>1, <1>5, Applied, EndKeeps
<1> QED
  BY <1>3, <1>4, <1>6

LEMMA CommitStatusKeeps ==
    ASSUME Protected, NEW s \in Sessions, CommitStatus(s)
    PROVE  Protected'
<1> USE DEF Protected
<1> DEFINE o == target[s]
<1>1. /\ HoldsOrder(s) /\ o \in Orders
      /\ orders[o].status \notin {"NONE", "CANCELLED"}
      /\ seenStatus[s] \in OrderStatus \cup {"NONE"}
      /\ End(s) /\ UNCHANGED <<stock, movements>>
  BY PermittedLive DEF CommitStatus, HoldsOrder, OrderSeen, TypeOK
<1>2. PICK st \in Transitions(seenStatus[s]) : orders' = [orders EXCEPT ![o].status = st]
  BY DEF CommitStatus
<1>3. st \in {"CONFIRMED", "SHIPPED", "DELIVERED"}
  BY <1>1, TransitionsType
<1>4. /\ orders' \in [Orders -> OrderRow] /\ orders'[o].status = st
      /\ orders'[o].quantity = orders[o].quantity
      /\ \A q \in Orders \ {o} : orders'[q] = orders[q]
  BY <1>1, <1>2, <1>3 DEF TypeOK, OrderRow, OrderStatus
<1>5. TypeOK'
  BY <1>1, <1>4, EndTypes DEF TypeOK
<1>6. OrderLedger'
  <2>1. Live' = Live
    BY <1>1, <1>3, <1>4 DEF Live
  <2>2. \A q \in Orders : orders'[q].quantity = orders[q].quantity
    BY <1>4
  <2> QED
    BY <1>1, <2>1, <2>2 DEF OrderLedger
<1>7. \A t \in Sessions \ {s} : target[t] \in Orders /\ (Placing(t) \/ HoldsOrder(t))
                                => orders'[target[t]] = orders[target[t]]
  BY <1>1, <1>4 DEF OrdersApart, OrderSeen
<1>8. OrderSeen' /\ StockSeen' /\ OrdersApart' /\ StagesFit'
  BY <1>1, <1>7, EndKeeps
<1> QED
  BY <1>5, <1>6, <1>8

LEMMA CommitAdjustKeeps ==
    ASSUME Protected, NEW s \in Sessions, CommitAdjust(s)
    PROVE  Protected'
<1> USE DEF Protected
<1>1. /\ pc[s] = "write" /\ End(s) /\ Sufficient(s) /\ ApplyChange(s, NoOrder)
      /\ orders' = orders
  BY DEF CommitAdjust
<1>2. TypeOK'
  BY <1>1, Applied, EndTypes DEF TypeOK
<1>3. OrderLedger'
  BY <1>1, Applied, NoOrderAssumption DEF OrderLedger, Live
<1>4. OrderSeen' /\ StockSeen' /\ OrdersApart' /\ StagesFit'
  BY <1>1, Applied, EndKeeps
<1> QED
  BY <1>2, <1>3, <1>4

LEMMA StutterKeeps == ASSUME Protected, UNCHANGED vars PROVE Protected'
<1> USE DEF Protected, vars
<1>1. TypeOK'
  BY DEF TypeOK
<1>2. OrderLedger'
  BY DEF OrderLedger, Live
<1>3. OrderSeen'
  BY DEF OrderSeen, HoldsOrder, Cancelling, Permitted, Transitions, Cancellable
<1>4. StockSeen' /\ OrdersApart' /\ StagesFit'
  BY DEF StockSeen, Lines, HeldStock, OrdersApart, Placing, StagesFit
<1> QED
  BY <1>1, <1>2, <1>3, <1>4

(* The locks of a session come one after the other in the order of their ids.     *)
LEMMA EndInOrder ==
    ASSUME TypeOK, LocksInOrder, NEW s \in Sessions, End(s)
    PROVE  LocksInOrder'
<1>1. /\ \A o \in Orders, t \in Sessions : orderLock'[o] = t => t # s /\ orderLock[o] = t
      /\ \A p \in Products, t \in Sessions : itemLock'[p] = t => t # s /\ itemLock[p] = t
      /\ \A p \in Products, t \in Sessions : stockLock'[p] = t => t # s /\ stockLock[p] = t
      /\ \A p \in Products, t \in Sessions \ {s} : itemLock[p] = t => itemLock'[p] = t
      /\ \A p \in Products, t \in Sessions \ {s} : stockLock[p] = t => stockLock'[p] = t
  BY NoSessionAssumption DEF TypeOK, End, Unlock
<1>2. \A t \in Sessions \ {s} : pc'[t] = pc[t] /\ change'[t] = change[t]
  BY EndLocal
<1> QED
  BY <1>1, <1>2 DEF LocksInOrder, Lines, HeldItems, HeldStock

(* A session that has just begun holds nothing. *)
LEMMA BeginInOrder ==
    ASSUME TypeOK, LocksInOrder, NEW s \in Sessions, NEW j, NEW o, NEW c, NEW stage,
           Begin(s, j, o, c, stage)
    PROVE  LocksInOrder'
<1>1. /\ pc[s] = "idle" /\ UNCHANGED locks
      /\ \A t \in Sessions \ {s} : pc'[t] = pc[t] /\ change'[t] = change[t]
  BY DEF TypeOK, Begin, Goto
<1>2. ASSUME NEW t \in Sessions \ {s}
      PROVE  Lines(t)' = Lines(t) /\ HeldItems(t)' = HeldItems(t) /\ HeldStock(t)' = HeldStock(t)
  BY <1>1 DEF Lines, HeldItems, HeldStock
<1> QED
  BY <1>1, <1>2 DEF LocksInOrder

LEMMA RequestInOrder ==
    ASSUME TypeOK, LocksInOrder, NEW s \in Sessions, Request(s)
    PROVE  LocksInOrder'
BY BeginInOrder DEF Request, AskAdjust, PlaceOnDeal, PlaceDirect, AskCancel, AskChangeStatus

LEMMA LockItemInOrder ==
    ASSUME TypeOK, LocksInOrder, NEW s \in Sessions, LockItem(s)
    PROVE  LocksInOrder'
<1>1. PICK p \in NextItems(s) :
          /\ SelectItem(s, p)
          /\ Goto(s, IF Lines(s) \ HeldItems(s) = {p} THEN "limits" ELSE "lock_items")
  BY DEF LockItem
<1>2. /\ pc[s] = "lock_items" /\ pc'[s] \in {"limits", "lock_items"}
      /\ \A t \in Sessions \ {s} : pc'[t] = pc[t]
      /\ UNCHANGED <<orderLock, stockLock, change>>
      /\ itemLock[p] = NoSession /\ p \in Products
      /\ p \in Lines(s) /\ \A q \in Lines(s) \ HeldItems(s) : ItemId[p] <= ItemId[q]
      /\ itemLock'[p] = s /\ \A q \in Products \ {p} : itemLock'[q] = itemLock[q]
  BY <1>1 DEF LockItem, Goto, SelectItem, NextItems, Lines, TypeOK
<1>3. \A t \in Sessions : Lines(t)' = Lines(t) /\ HeldStock(t)' = HeldStock(t)
  BY <1>2 DEF Lines, HeldStock
<1>4. \A t \in Sessions \ {s} : HeldItems(t)' = HeldItems(t)
  BY <1>2, NoSessionAssumption DEF HeldItems
<1>5. HeldItems(s)' = HeldItems(s) \cup {p}
  BY <1>2 DEF HeldItems
<1>6. \A q \in Lines(s) \ (HeldItems(s) \cup {p}) : ItemId[p] < ItemId[q]
  <2>1. \A q \in Lines(s) : ItemId[q] \in Nat /\ (ItemId[q] = ItemId[p] => q = p)
    BY <1>2, ItemIdAssumption DEF Lines
  <2> QED
    BY <1>2, <2>1, ItemIdAssumption
<1>7. \A t \in Sessions, q \in Products : itemLock'[q] = t =>
          /\ pc'[t] \in {"lock_items", "limits", "lock_stock", "write"}
          /\ pc'[t] = "lock_items" => \A r \in Lines(t)' \ HeldItems(t)' : ItemId[q] < ItemId[r]
  <2> SUFFICES ASSUME NEW t \in Sessions, NEW q \in Products, itemLock'[q] = t
               PROVE  /\ pc'[t] \in {"lock_items", "limits", "lock_stock", "write"}
                      /\ pc'[t] = "lock_items" =>
                             \A r \in Lines(t)' \ HeldItems(t)' : ItemId[q] < ItemId[r]
    OBVIOUS
  <2>1. CASE q = p
    BY <1>2, <1>3, <1>5, <1>6, <2>1
  <2>2. CASE q # p /\ t = s
    BY <1>2, <1>3, <1>5, <2>2 DEF LocksInOrder
  <2>3. CASE q # p /\ t # s
    BY <1>2, <1>3, <1>4, <2>3 DEF LocksInOrder
  <2> QED
    BY <2>1, <2>2, <2>3
<1>8. /\ \A t \in Sessions, o \in Orders : orderLock'[o] = t => pc'[t] \in {"lock_stock", "write"}
      /\ \A t \in Sessions, q \in Products : stockLock'[q] = t =>
             /\ pc'[t] \in {"lock_stock", "write"}
             /\ pc'[t] = "lock_stock" => \A r \in Lines(t)' \ HeldStock(t)' : q < r
  BY <1>2, <1>3 DEF LocksInOrder
<1> QED
  BY <1>7, <1>8 DEF LocksInOrder

LEMMA CheckLimitsInOrder ==
    ASSUME Protected, LocksInOrder, NEW s \in Sessions, CheckLimits(s)
    PROVE  LocksInOrder'
<1>1. /\ pc[s] = "limits" /\ pc'[s] = "lock_stock" /\ UNCHANGED <<locks, change>>
      /\ \A t \in Sessions \ {s} : pc'[t] = pc[t]
  BY DEF CheckLimits, Goto, Protected, TypeOK
<1>2. \A t \in Sessions : /\ Lines(t)' = Lines(t) /\ HeldItems(t)' = HeldItems(t)
                          /\ HeldStock(t)' = HeldStock(t)
  BY <1>1 DEF Lines, HeldItems, HeldStock
<1> QED
  BY <1>1, <1>2 DEF LocksInOrder

LEMMA LockOrderInOrder ==
    ASSUME Protected, LocksInOrder, NEW s \in Sessions, LockOrder(s)
    PROVE  LocksInOrder'
<1>1. /\ pc[s] = "lock_order" /\ pc'[s] \in {"lock_stock", "write"}
      /\ UNCHANGED <<itemLock, stockLock>>
      /\ \A t \in Sessions \ {s} : pc'[t] = pc[t] /\ change'[t] = change[t]
      /\ \A o \in Orders : orderLock'[o] \in {orderLock[o], s}
  BY DEF LockOrder, SelectOrder, Goto, Protected, TypeOK
<1>2. \A t \in Sessions \ {s} : /\ Lines(t)' = Lines(t) /\ HeldItems(t)' = HeldItems(t)
                                /\ HeldStock(t)' = HeldStock(t)
  BY <1>1 DEF Lines, HeldItems, HeldStock
<1> QED
  BY <1>1, <1>2 DEF LocksInOrder

LEMMA LockStockInOrder ==
    ASSUME Protected, LocksInOrder, NEW s \in Sessions, LockStock(s)
    PROVE  LocksInOrder'
<1> USE DEF Protected
<1>1. PICK p \in NextStock(s) :
          /\ SelectStock(s, p)
          /\ Goto(s, IF Lines(s) \ HeldStock(s) = {p} THEN "write" ELSE "lock_stock")
  BY DEF LockStock
<1>2. /\ pc[s] = "lock_stock" /\ pc'[s] \in {"write", "lock_stock"}
      /\ \A t \in Sessions \ {s} : pc'[t] = pc[t]
      /\ UNCHANGED <<orderLock, itemLock, change>>
      /\ stockLock[p] = NoSession /\ p \in Products
      /\ p \in Lines(s) /\ \A q \in Lines(s) \ HeldStock(s) : p <= q
      /\ stockLock'[p] = s /\ \A q \in Products \ {p} : stockLock'[q] = stockLock[q]
  BY <1>1 DEF LockStock, Goto, SelectStock, NextStock, Lines, TypeOK
<1>3. \A t \in Sessions : Lines(t)' = Lines(t) /\ HeldItems(t)' = HeldItems(t)
  BY <1>2 DEF Lines, HeldItems
<1>4. \A t \in Sessions \ {s} : HeldStock(t)' = HeldStock(t)
  BY <1>2, NoSessionAssumption DEF HeldStock
<1>5. HeldStock(s)' = HeldStock(s) \cup {p}
  BY <1>2 DEF HeldStock
<1>6. \A q \in Lines(s) \ (HeldStock(s) \cup {p}) : p < q
  BY <1>2, ProductsAssumption DEF Lines
<1>7. \A t \in Sessions, q \in Products : stockLock'[q] = t =>
          /\ pc'[t] \in {"lock_stock", "write"}
          /\ pc'[t] = "lock_stock" => \A r \in Lines(t)' \ HeldStock(t)' : q < r
  <2> SUFFICES ASSUME NEW t \in Sessions, NEW q \in Products, stockLock'[q] = t
               PROVE  /\ pc'[t] \in {"lock_stock", "write"}
                      /\ pc'[t] = "lock_stock" => \A r \in Lines(t)' \ HeldStock(t)' : q < r
    OBVIOUS
  <2>1. CASE q = p
    BY <1>2, <1>3, <1>5, <1>6, <2>1
  <2>2. CASE q # p /\ t = s
    BY <1>2, <1>3, <1>5, <2>2 DEF LocksInOrder
  <2>3. CASE q # p /\ t # s
    BY <1>2, <1>3, <1>4, <2>3 DEF LocksInOrder
  <2> QED
    BY <2>1, <2>2, <2>3
<1>8. /\ \A t \in Sessions, o \in Orders : orderLock'[o] = t => pc'[t] \in {"lock_stock", "write"}
      /\ \A t \in Sessions, q \in Products : itemLock'[q] = t =>
             /\ pc'[t] \in {"lock_items", "limits", "lock_stock", "write"}
             /\ pc'[t] = "lock_items" => \A r \in Lines(t)' \ HeldItems(t)' : ItemId[q] < ItemId[r]
  BY <1>2, <1>3 DEF LocksInOrder
<1> QED
  BY <1>7, <1>8 DEF LocksInOrder

(* The lock discipline with the ledger it protects is an invariant: what a       *)
(* session read under its locks is still so when it writes.                      *)
THEOREM Inductive == Spec => []IInv
<1>1. Init => IInv
  <2> SUFFICES ASSUME Init PROVE Protected /\ LocksInOrder
    BY DEF IInv
  <2>1. TypeOK
    <3>1. NoRow \in OrderRow
      BY NothingType DEF NoRow, OrderRow
    <3>2. "none" \in Jobs /\ "idle" \in Stages
      BY DEF Jobs, Stages
    <3>3. stock \in Changes
      BY BoundsAssumption DEF Init, Changes
    <3> QED
      BY <3>1, <3>2, <3>3, NothingType DEF Init, TypeOK
  <2>2. OrderLedger
    BY NoOrderAssumption DEF Init, OrderLedger, Live, NoRow, Nothing
  <2>3. OrderSeen /\ StockSeen /\ OrdersApart /\ StagesFit
    BY NoSessionAssumption DEF Init, OrderSeen, HoldsOrder, StockSeen, OrdersApart, Placing, StagesFit
  <2>4. LocksInOrder
    BY NoSessionAssumption DEF Init, LocksInOrder
  <2> QED
    BY <2>1, <2>2, <2>3, <2>4 DEF Protected
<1>2. IInv /\ [Next]_vars => IInv'
  <2> SUFFICES ASSUME Protected, LocksInOrder, [Next]_vars
               PROVE  Protected' /\ LocksInOrder'
    BY DEF IInv
  <2>1. CASE UNCHANGED vars
    <3>1. LocksInOrder'
      BY <2>1 DEF LocksInOrder, vars, Lines, HeldItems, HeldStock
    <3> QED
      BY <2>1, <3>1, StutterKeeps
  <2>2. ASSUME NEW s \in Sessions, Request(s) \/ Proceed(s) \/ Die(s)
        PROVE  Protected' /\ LocksInOrder'
    <3> USE DEF Protected
    <3>1. CASE Request(s)
      BY <3>1, RequestKeeps, RequestInOrder
    <3>2. CASE LockItem(s)
      BY <3>2, LockItemKeeps, LockItemInOrder
    <3>3. CASE CheckLimits(s)
      BY <3>3, CheckLimitsKeeps, CheckLimitsInOrder
    <3>4. CASE LockOrder(s)
      BY <3>4, LockOrderKeeps, LockOrderInOrder
    <3>5. CASE LockStock(s)
      BY <3>5, LockStockKeeps, LockStockInOrder
    <3>6. CASE Commit(s)
      <4>1. LocksInOrder'
        BY <3>6, EndInOrder DEF Commit, CommitPlace, CommitCancel, CommitStatus, CommitAdjust
      <4>2. Protected'
        BY <3>6, CommitPlaceKeeps, CommitCancelKeeps, CommitStatusKeeps, CommitAdjustKeeps DEF Commit
      <4> QED
        BY <4>1, <4>2
    <3>7. CASE LimitExceeded(s) \/ NotPermitted(s) \/ NotServed(s) \/ Insufficient(s) \/ Die(s)
      <4>1. Rollback(s)
        BY <3>7 DEF LimitExceeded, NotPermitted, NotServed, Insufficient, Die
      <4> QED
        BY <4>1, RollbackKeeps, EndInOrder DEF Rollback
    <3> QED
      BY <2>2, <3>1, <3>2, <3>3, <3>4, <3>5, <3>6, <3>7 DEF Proceed
  <2> QED
    BY <2>1, <2>2 DEF Next
<1> QED
  BY <1>1, <1>2, PTL DEF Spec

(* Every variable keeps its type, and the stock its bounds, however many order,  *)
(* cancel and adjust at once.                                                    *)
THEOREM TypeCorrect == Spec => []TypeOK
BY Inductive, PTL DEF IInv, Protected

(* The movements of an order are what it holds: each order takes its units once  *)
(* and gives them back at most once.                                             *)
THEOREM LedgerHolds == Spec => []OrderLedger
BY Inductive, PTL DEF IInv, Protected

(* Each order's statuses follow one another as ORDER_TRANSITIONS and the two     *)
(* CANCELLABLE_STATUSES say, and an order's lines never change.                  *)
THEOREM StatusesFollow == Spec => StatusPath
<1> DEFINE Path(o) ==
       \/ orders'[o] = orders[o]
       \/ orders[o].status = "NONE" /\ orders'[o].status = "PENDING"
       \/ /\ orders'[o].status \in Transitions(orders[o].status)
                                    \cup (IF orders[o].status \in {"PENDING", "CONFIRMED"}
                                          THEN {"CANCELLED"} ELSE {})
          /\ orders'[o].quantity = orders[o].quantity
<1>1. ASSUME IInv, [Next]_vars
      PROVE  \A o \in Orders : Path(o)
  <2> USE DEF IInv, Protected
  <2>1. CASE orders' = orders
    BY <2>1
  <2>2. ASSUME NEW s \in Sessions, CommitPlace(s)
        PROVE  \A o \in Orders : Path(o)
    <3> DEFINE row == [status |-> "PENDING", deal |-> job[s] = "deal",
                       quantity |-> Negated(change[s])]
    <3>1. Placing(s) /\ orders' = [orders EXCEPT ![target[s]] = row]
      BY <2>2 DEF CommitPlace, Placing
    <3>2. row.status = "PENDING"
      OBVIOUS
    <3>3. target[s] \in Orders /\ orders[target[s]].status = "NONE"
      BY <1>1, <3>1 DEF OrdersApart
    <3> HIDE DEF row
    <3> QED
      BY <1>1, <3>1, <3>2, <3>3 DEF TypeOK
  <2>3. ASSUME NEW s \in Sessions, CommitCancel(s)
        PROVE  \A o \in Orders : Path(o)
    <3>1. /\ HoldsOrder(s) /\ job[s] \in {"cancel_mine", "cancel"}
          /\ orders' = [orders EXCEPT ![target[s]].status = "CANCELLED"]
      BY <2>3 DEF CommitCancel, HoldsOrder
    <3>2. target[s] \in Orders /\ orders[target[s]].status \in {"PENDING", "CONFIRMED"}
      BY <1>1, <3>1 DEF OrderSeen, Permitted, Cancellable
    <3> QED
      BY <1>1, <3>1, <3>2 DEF TypeOK, OrderRow
  <2>4. ASSUME NEW s \in Sessions, CommitStatus(s)
        PROVE  \A o \in Orders : Path(o)
    <3>1. HoldsOrder(s) /\ target[s] \in Orders /\ seenStatus[s] = orders[target[s]].status
      BY <1>1, <2>4 DEF CommitStatus, HoldsOrder, OrderSeen
    <3>2. PICK st \in Transitions(orders[target[s]].status) :
              orders' = [orders EXCEPT ![target[s]].status = st]
      BY <2>4, <3>1 DEF CommitStatus
    <3> QED
      BY <1>1, <3>1, <3>2 DEF TypeOK, OrderRow
  <2>5. ASSUME NEW s \in Sessions, ~CommitPlace(s), ~CommitCancel(s), ~CommitStatus(s),
               Request(s) \/ Proceed(s) \/ Die(s)
        PROVE  orders' = orders
    BY <2>5 DEF Request, AskAdjust, PlaceOnDeal, PlaceDirect, AskCancel, AskChangeStatus, Begin,
                Proceed, LockItem, CheckLimits, LimitExceeded, LockOrder, NotPermitted, NotServed,
                LockStock, Commit, CommitAdjust, Insufficient, Die, Rollback
  <2> QED
    BY <1>1, <2>1, <2>2, <2>3, <2>4, <2>5 DEF Next, vars
<1>2. ASSUME IInv, [Next]_vars
      PROVE  [\A o \in Orders : Path(o)]_vars
  BY <1>1, <1>2
<1> QED
  BY <1>2, Inductive, PTL DEF Spec, StatusPath

(* A set of natural numbers has a least one. *)
LEMMA Least ==
    ASSUME NEW T, T \subseteq Nat, T # {}
    PROVE  \E x \in T : \A y \in T : x <= y
<1>1. PICK x \in T : \A y \in T : ~ (<<y, x>> \in OpToRel(<, Nat))
  BY NatLessThanWellFounded, WFMin
<1>2. \A y \in T : ~ (y < x)
  BY <1>1 DEF OpToRel
<1> QED
  BY <1>2

(* What a waiting session waits for, as a number: the rows are locked in the order *)
(* of these numbers, first the order, then the items, then the stock levels.       *)
Awaited(s) ==
    CASE pc[s] = "lock_order" -> 0
      [] pc[s] = "lock_items" -> 1 + ItemId[CHOOSE p \in NextItems(s) : TRUE]
      [] pc[s] = "lock_stock" -> 2 + MaxId + (CHOOSE p \in NextStock(s) : TRUE)
      [] OTHER -> 0

LEMMA AwaitedBounds ==
    ASSUME NEW s \in Sessions, BlockedBy(s) # {}
    PROVE  /\ Awaited(s) \in 0..(2 + 2 * MaxId)
           /\ pc[s] \in {"lock_order", "lock_items", "lock_stock"}
           /\ pc[s] = "lock_items" => /\ NextItems(s) # {} /\ Awaited(s) <= 1 + MaxId
                                       /\ \A p \in NextItems(s) : Awaited(s) = 1 + ItemId[p]
           /\ pc[s] = "lock_stock" => /\ NextStock(s) # {} /\ Awaited(s) >= 2 + MaxId
                                       /\ \A p \in NextStock(s) : Awaited(s) = 2 + MaxId + p
<1>1. pc[s] \in {"lock_order", "lock_items", "lock_stock"}
  BY DEF BlockedBy
<1>2. CASE pc[s] = "lock_order"
  BY <1>2, ProductsAssumption DEF Awaited
<1>3. CASE pc[s] = "lock_items"
  <2> DEFINE q == CHOOSE p \in NextItems(s) : TRUE
  <2>1. NextItems(s) # {}
    BY <1>3 DEF BlockedBy
  <2>2. q \in NextItems(s) /\ Awaited(s) = 1 + ItemId[q]
    BY <1>3, <2>1 DEF Awaited
  <2> HIDE DEF q
  <2>3. \A p \in NextItems(s) : ItemId[p] \in 0..MaxId /\ ItemId[p] <= ItemId[q] /\ ItemId[q] <= ItemId[p]
    BY <2>2, ItemIdAssumption DEF NextItems, Lines
  <2>4. \A p \in NextItems(s) : ItemId[p] = ItemId[q]
    BY <2>2, <2>3, ProductsAssumption
  <2> QED
    BY <1>3, <2>1, <2>2, <2>3, <2>4, ProductsAssumption
<1>4. CASE pc[s] = "lock_stock"
  <2> DEFINE q == CHOOSE p \in NextStock(s) : TRUE
  <2>1. NextStock(s) # {}
    BY <1>4 DEF BlockedBy
  <2>2. q \in NextStock(s) /\ Awaited(s) = 2 + MaxId + q
    BY <1>4, <2>1 DEF Awaited
  <2> HIDE DEF q
  <2>3. \A p \in NextStock(s) : p \in 0..MaxId /\ p <= q /\ q <= p
    BY <2>2, ProductsAssumption DEF NextStock, Lines
  <2>4. \A p \in NextStock(s) : p = q
    BY <2>2, <2>3, ProductsAssumption
  <2> QED
    BY <1>4, <2>1, <2>2, <2>3, <2>4, ProductsAssumption
<1> QED
  BY <1>1, <1>2, <1>3, <1>4

(* Whoever holds what s waits for waits, if at all, for something later. *)
LEMMA BlockersAwaitMore ==
    ASSUME IInv, NEW s \in Sessions, NEW t \in Sessions,
           t \in BlockedBy(s), BlockedBy(t) # {}
    PROVE  Awaited(s) < Awaited(t)
<1> USE DEF IInv, Protected
<1>1. /\ pc[s] \in {"lock_order", "lock_items", "lock_stock"}
      /\ pc[t] \in {"lock_order", "lock_items", "lock_stock"}
      /\ Awaited(s) \in Nat /\ Awaited(t) \in Nat
      /\ pc[t] = "lock_stock" => Awaited(t) >= 2 + MaxId
      /\ BlockedBy(s) # {}
  BY AwaitedBounds, ProductsAssumption
<1>2. CASE pc[s] = "lock_order"
  <2>1. target[s] \in Orders /\ orderLock[target[s]] = t
    BY <1>2 DEF BlockedBy, OrderSeen
  <2>2. pc[t] = "lock_stock"
    BY <1>1, <2>1 DEF LocksInOrder
  <2>3. Awaited(s) = 0
    BY <1>2 DEF Awaited
  <2> QED
    BY <1>1, <2>2, <2>3, ProductsAssumption
<1>3. CASE pc[s] = "lock_items"
  <2>1. PICK p \in NextItems(s) : itemLock[p] = t
    BY <1>3 DEF BlockedBy
  <2>2. p \in Products /\ ItemId[p] \in 0..MaxId /\ Awaited(s) = 1 + ItemId[p]
    BY <1>1, <1>3, <2>1, AwaitedBounds, ItemIdAssumption DEF NextItems, Lines
  <2>3. CASE pc[t] = "lock_stock"
    BY <1>1, <2>2, <2>3, ProductsAssumption
  <2>4. CASE pc[t] = "lock_items"
    <3>1. PICK q \in NextItems(t) : Awaited(t) = 1 + ItemId[q]
      BY <2>4, AwaitedBounds
    <3>2. q \in Lines(t) \ HeldItems(t) /\ ItemId[q] \in 0..MaxId
      BY <3>1, ItemIdAssumption DEF NextItems, Lines
    <3>3. ItemId[p] < ItemId[q]
      BY <2>1, <2>2, <2>4, <3>2 DEF LocksInOrder
    <3> QED
      BY <2>2, <3>1, <3>2, <3>3, ProductsAssumption
  <2> QED
    BY <1>1, <2>1, <2>2, <2>3, <2>4 DEF LocksInOrder
<1>4. CASE pc[s] = "lock_stock"
  <2>1. PICK p \in NextStock(s) : stockLock[p] = t
    BY <1>4 DEF BlockedBy
  <2>2. p \in Products /\ p \in 0..MaxId /\ Awaited(s) = 2 + MaxId + p
    BY <1>1, <1>4, <2>1, AwaitedBounds, ProductsAssumption DEF NextStock, Lines
  <2>3. pc[t] = "lock_stock"
    BY <1>1, <2>1, <2>2 DEF LocksInOrder
  <2>4. PICK q \in NextStock(t) : Awaited(t) = 2 + MaxId + q
    BY <2>3, AwaitedBounds
  <2>5. q \in Lines(t) \ HeldStock(t) /\ q \in 0..MaxId
    BY <2>4, ProductsAssumption DEF NextStock, Lines
  <2>6. p < q
    BY <2>1, <2>2, <2>3, <2>5 DEF LocksInOrder
  <2> QED
    BY <2>2, <2>4, <2>5, <2>6, ProductsAssumption
<1> QED
  BY <1>1, <1>2, <1>3, <1>4

(* No sessions wait for each other in a circle: of those that wait for a row, the   *)
(* one that waits for the last of them waits for nobody who waits.                  *)
THEOREM NeverDeadlocked == Spec => []NoDeadlock
<1>1. IInv => NoDeadlock
  <2> SUFFICES ASSUME IInv, NEW W \in (SUBSET Sessions) \ {{}}
               PROVE  \E s \in W : BlockedBy(s) \cap W = {}
    BY DEF NoDeadlock
  <2>1. CASE \E s \in W : BlockedBy(s) = {}
    BY <2>1
  <2>2. CASE \A s \in W : BlockedBy(s) # {}
    <3> DEFINE Margin(s) == 2 + 2 * MaxId - Awaited(s)
    <3>1. \A s \in W : Margin(s) \in Nat /\ Awaited(s) \in Nat
      BY <2>2, AwaitedBounds, ProductsAssumption
    <3>2. PICK m \in {Margin(s) : s \in W} : \A n \in {Margin(s) : s \in W} : m <= n
      <4> DEFINE T == {Margin(s) : s \in W}
      <4>1. T \subseteq Nat /\ T # {}
        <5> HIDE DEF Margin
        <5>1. T \subseteq Nat
          BY <3>1
        <5>2. PICK s \in W : TRUE
          OBVIOUS
        <5>3. Margin(s) \in T
          BY <5>2
        <5> QED
          BY <5>1, <5>3
      <4> HIDE DEF T
      <4>2. \E x \in T : \A y \in T : x <= y
        BY <4>1, Least
      <4> QED
        BY <4>2 DEF T
    <3>3. PICK s \in W : m = Margin(s)
      BY <3>2
    <3>4. \A t \in W : Margin(s) <= Margin(t)
      BY <3>2, <3>3
    <3>5. \A t \in W : t \in BlockedBy(s) => Margin(t) < Margin(s)
      <4> SUFFICES ASSUME NEW t \in W, t \in BlockedBy(s)
                   PROVE  Margin(t) < Margin(s)
        OBVIOUS
      <4>1. Awaited(s) < Awaited(t)
        BY <2>2, BlockersAwaitMore
      <4> QED
        BY <3>1, <4>1, ProductsAssumption
    <3>6. \A t \in W : t \notin BlockedBy(s)
      <4> HIDE DEF Margin
      <4> QED BY <3>1, <3>4, <3>5
    <3> QED
      BY <3>6
  <2> QED
    BY <2>1, <2>2
<1> QED
  BY <1>1, Inductive, PTL

-----------------------------------------------------------------------------
(* The units that are counted. *)

LEMMA UnitsOfOne ==
    ASSUME NEW o, NEW n \in Nat
    PROVE  IsFiniteSet({o} \X (1..n)) /\ Cardinality({o} \X (1..n)) = n
<1>1. IsFiniteSet(1..n) /\ Cardinality(1..n) = n
  BY FS_Interval
<1>2. IsFiniteSet({o}) /\ Cardinality({o}) = 1
  BY FS_Singleton
<1>3. /\ IsFiniteSet({o} \X (1..n))
      /\ Cardinality({o} \X (1..n)) = Cardinality({o}) * Cardinality(1..n)
  BY <1>1, <1>2, FS_Product
<1> QED
  BY <1>1, <1>2, <1>3

(* The total follows the one number that changes. *)
LEMMA TotalFollows ==
    ASSUME NEW q \in [Orders -> Nat], NEW r \in [Orders -> Nat], NEW o \in Orders,
           \A x \in Orders \ {o} : r[x] = q[x], IsFiniteSet(Units(q))
    PROVE  /\ IsFiniteSet(Units(r))
           /\ Total(q) \in Nat /\ Total(r) \in Nat
           /\ Total(r) = Total(q) - q[o] + r[o]
<1> DEFINE Others == UNION {{x} \X (1..q[x]) : x \in Orders \ {o}}
           Own(n) == {o} \X (1..n)
<1>1. Units(q) = Others \cup Own(q[o]) /\ Units(r) = Others \cup Own(r[o])
  BY DEF Units
<1>2. \A n \in Nat : Others \cap Own(n) = {}
  OBVIOUS
<1>3. \A n \in Nat : IsFiniteSet(Own(n)) /\ Cardinality(Own(n)) = n
  BY UnitsOfOne
<1>4. q[o] \in Nat /\ r[o] \in Nat
  OBVIOUS
<1> HIDE DEF Others, Own
<1>5. IsFiniteSet(Others) /\ Cardinality(Others) \in Nat
  <2>1. Others \subseteq Units(q)
    BY <1>1
  <2> QED
    BY <2>1, FS_Subset, FS_CardinalityType
<1>6. ASSUME NEW n \in Nat
      PROVE  /\ IsFiniteSet(Others \cup Own(n))
             /\ Cardinality(Others \cup Own(n)) = Cardinality(Others) + n
  <2>1. /\ IsFiniteSet(Others \cup Own(n))
        /\ Cardinality(Others \cup Own(n)) = Cardinality(Others) + Cardinality(Own(n))
                                             - Cardinality(Others \cap Own(n))
    BY <1>3, <1>5, FS_Union
  <2>2. Cardinality(Others \cap Own(n)) = 0
    BY <1>2, FS_EmptySet
  <2> QED
    BY <1>3, <1>5, <2>1, <2>2
<1> QED
  BY <1>1, <1>4, <1>5, <1>6 DEF Total

LEMMA TotalOfNothing ==
    ASSUME NEW q \in [Orders -> Nat], \A o \in Orders : q[o] = 0
    PROVE  Units(q) = {} /\ IsFiniteSet(Units(q)) /\ Total(q) = 0
<1>1. Units(q) = {}
  BY DEF Units
<1> QED
  BY <1>1, FS_EmptySet DEF Total

LEMMA UnitTypes ==
    ASSUME TypeOK, OrderLedger, NEW p \in Products
    PROVE  /\ DealUnits(p) \in [Orders -> Nat] /\ Taken(p) \in [Orders -> Nat]
           /\ \A o \in Orders : movements[o][p] \in Int /\ movements[o][p] <= 0
           /\ movements[NoOrder][p] \in Int
<1>1. \A o \in Orders : orders[o].quantity[p] \in Nat
  BY DEF TypeOK, OrderRow
<1>2. \A o \in Orders \cup {NoOrder} : movements[o][p] \in Int
  BY DEF TypeOK, Changes
<1>3. \A o \in Orders : movements[o][p] <= 0 /\ -movements[o][p] \in Nat
  BY <1>1, <1>2 DEF OrderLedger
<1> QED
  BY <1>1, <1>2, <1>3 DEF DealUnits, Taken

LEMMA TakenIsNegative ==
    ASSUME TypeOK', OrderLedger', NEW p \in Products
    PROVE  \A x \in Orders : movements'[x][p] <= 0
<1>1. \A x \in Orders : orders'[x].quantity[p] \in Nat
  BY DEF TypeOK, OrderRow
<1> QED
  BY <1>1 DEF OrderLedger

LEMMA OrderedType ==
    ASSUME TypeOK, OrderLedger, Countable, NEW p \in Products
    PROVE  Ordered(p) \in Nat
BY FS_CardinalityType DEF Countable, Ordered, Total

(* Of an order that changes, the units on the deal and the units taken: the counts *)
(* follow it, and those of the others stay.                                        *)
LEMMA CountsFollow ==
    ASSUME TypeOK, OrderLedger, TypeOK', OrderLedger', Countable, NEW o \in Orders,
           \A x \in Orders \ {o} : orders'[x] = orders[x] /\ movements'[x] = movements[x]
    PROVE  /\ Countable'
           /\ \A p \in Products :
                 /\ Ordered(p) \in Nat /\ Total(Taken(p)) \in Nat
                 /\ Ordered(p)' = Ordered(p) - DealUnits(p)[o] + DealUnits(p)'[o]
                 /\ Total(Taken(p))' = Total(Taken(p)) + movements[o][p] - movements'[o][p]
<1> SUFFICES ASSUME NEW p \in Products
             PROVE  /\ IsFiniteSet(Units(DealUnits(p)'))
                    /\ IsFiniteSet(Units(Taken(p)'))
                    /\ Ordered(p) \in Nat /\ Total(Taken(p)) \in Nat
                    /\ Ordered(p)' = Ordered(p) - DealUnits(p)[o] + DealUnits(p)'[o]
                    /\ Total(Taken(p)') = Total(Taken(p)) + movements[o][p] - movements'[o][p]
  BY DEF Countable, Units, Total
<1>1. /\ DealUnits(p) \in [Orders -> Nat] /\ Taken(p) \in [Orders -> Nat]
      /\ IsFiniteSet(Units(DealUnits(p))) /\ IsFiniteSet(Units(Taken(p)))
      /\ movements[o][p] \in Int
  BY UnitTypes DEF Countable
<1>2. DealUnits(p)' \in [Orders -> Nat] /\ Taken(p)' \in [Orders -> Nat] /\ movements'[o][p] \in Int
  <2>1. \A x \in Orders : orders'[x].quantity[p] \in Nat /\ movements'[x][p] \in Int
    BY DEF TypeOK, OrderRow, Changes
  <2>2. \A x \in Orders : movements'[x][p] <= 0 /\ -movements'[x][p] \in Nat
    BY <2>1 DEF OrderLedger
  <2> QED
    BY <2>1, <2>2 DEF DealUnits, Taken
<1>3. \A x \in Orders \ {o} : DealUnits(p)'[x] = DealUnits(p)[x] /\ Taken(p)'[x] = Taken(p)[x]
  BY DEF DealUnits, Taken, OnDeal, Live
<1>4. /\ IsFiniteSet(Units(DealUnits(p)')) /\ Ordered(p) \in Nat
      /\ Total(DealUnits(p)') = Total(DealUnits(p)) - DealUnits(p)[o] + DealUnits(p)'[o]
  BY <1>1, <1>2, <1>3, TotalFollows DEF Ordered
<1>5. /\ IsFiniteSet(Units(Taken(p)')) /\ Total(Taken(p)) \in Nat
      /\ Total(Taken(p)') = Total(Taken(p)) - Taken(p)[o] + Taken(p)'[o]
  BY <1>1, <1>2, <1>3, TotalFollows
<1>6. Taken(p)[o] = -movements[o][p] /\ Taken(p)'[o] = -movements'[o][p]
  BY DEF Taken
<1> HIDE DEF Taken
<1>7. Ordered(p)' = Total(DealUnits(p)')
  BY DEF Ordered, Total, Units
<1> QED
  BY <1>1, <1>2, <1>4, <1>5, <1>6, <1>7 DEF Ordered

(* Nothing is counted anew while the rows stay. *)
LEMMA RowsStay ==
    ASSUME StockAccounted, Countable, UNCHANGED rows
    PROVE  StockAccounted' /\ Countable' /\ \A p \in Products : Ordered(p)' = Ordered(p)
BY DEF StockAccounted, StockIsLedger, WithinLimit, Countable, Ordered, DealUnits, Taken, OnDeal,
       Live, Units, Total

(* A session that ends leaves the others within the limits they saw, when the item *)
(* of none of their lines is ordered more.                                         *)
LEMMA EndLimits ==
    ASSUME TypeOK, LimitsSeen, NEW s \in Sessions, End(s),
           \A p \in Products : /\ Ordered(p) \in Nat /\ Ordered(p)' \in Nat
                               /\ itemLock[p] # s => Ordered(p)' <= Ordered(p)
    PROVE  LimitsSeen'
<1>1. job'[s] = "none"
  BY EndLocal
<1>2. ASSUME NEW t \in Sessions \ {s}
      PROVE  /\ pc'[t] = pc[t] /\ job'[t] = job[t] /\ change'[t] = change[t]
             /\ Lines(t)' = Lines(t) /\ HeldItems(t)' = HeldItems(t)
  <2>1. pc'[t] = pc[t] /\ job'[t] = job[t] /\ change'[t] = change[t]
    BY EndLocal
  <2>2. \A p \in Products : itemLock'[p] = t <=> itemLock[p] = t
    BY NoSessionAssumption DEF TypeOK, End, Unlock
  <2> QED
    BY <2>1, <2>2 DEF Lines, HeldItems
<1>3. ASSUME NEW t \in Sessions \ {s}, job[t] = "deal", pc[t] \in {"lock_stock", "write"}
      PROVE  WithinLimits(t)'
  <2> SUFFICES ASSUME NEW p \in Lines(t)
               PROVE  Ordered(p)' - change[t][p] <= Limit[p]
    BY <1>2 DEF WithinLimits
  <2>1. /\ p \in Products /\ itemLock[p] = t /\ Ordered(p) - change[t][p] <= Limit[p]
    BY <1>3 DEF LimitsSeen, WithinLimits, HeldItems, Lines
  <2>2. change[t][p] \in Int /\ Limit[p] \in Nat
    BY <2>1, LimitAssumption DEF TypeOK, Changes
  <2> HIDE DEF Ordered
  <2> QED
    BY <2>1, <2>2
<1> QED
  BY <1>1, <1>2, <1>3 DEF LimitsSeen

LEMMA RollbackAccounted ==
    ASSUME TypeOK, OrderLedger, Accounted, NEW s \in Sessions, Rollback(s)
    PROVE  Accounted'
<1>1. StockAccounted' /\ Countable' /\ \A p \in Products : Ordered(p)' = Ordered(p)
  BY RowsStay DEF Accounted, Rollback
<1>2. \A p \in Products : Ordered(p) \in Nat
  BY OrderedType DEF Accounted
<1>3. LimitsSeen'
  BY <1>1, <1>2, EndLimits DEF Accounted, Rollback
<1> QED
  BY <1>1, <1>3 DEF Accounted

LEMMA CommitPlaceAccounted ==
    ASSUME Protected, Protected', Accounted, NEW s \in Sessions, CommitPlace(s)
    PROVE  Accounted'
<1> USE DEF Protected
<1> DEFINE o == target[s]
<1>1. /\ pc[s] = "write" /\ job[s] \in {"deal", "direct"}
      /\ o \in Orders /\ orders[o].status = "NONE"
      /\ End(s) /\ Sufficient(s) /\ ApplyChange(s, o) /\ change[s] \in Changes
      /\ orders' = [orders EXCEPT ![o] = [status |-> "PENDING", deal |-> job[s] = "deal",
                                          quantity |-> Negated(change[s])]]
  BY DEF CommitPlace, Placing, OrdersApart, TypeOK
<1>2. /\ \A x \in Orders \ {o} : orders'[x] = orders[x] /\ movements'[x] = movements[x]
      /\ \A p \in Products : /\ stock'[p] = stock[p] + change[s][p]
                             /\ movements'[o][p] = movements[o][p] + change[s][p]
      /\ movements'[NoOrder] = movements[NoOrder]
  <2>1. o # NoOrder
    BY <1>1, NoOrderAssumption
  <2>2. movements' = [movements EXCEPT ![o] = [p \in Products |-> @[p] + change[s][p]]]
    BY <1>1 DEF ApplyChange
  <2>3. movements'[NoOrder] = movements[NoOrder]
    BY <2>1, <2>2 DEF TypeOK
  <2> QED
    BY <1>1, <2>3, Applied DEF TypeOK
<1>3. /\ Countable'
      /\ \A p \in Products :
            /\ Ordered(p) \in Nat /\ Total(Taken(p)) \in Nat
            /\ Ordered(p)' = Ordered(p) - DealUnits(p)[o] + DealUnits(p)'[o]
            /\ Total(Taken(p))' = Total(Taken(p)) + movements[o][p] - movements'[o][p]
  BY <1>1, <1>2, CountsFollow DEF Accounted
<1>4. ASSUME NEW p \in Products
      PROVE  /\ change[s][p] \in Int
             /\ Ordered(p)' = IF job[s] = "deal" THEN Ordered(p) - change[s][p] ELSE Ordered(p)
  <2>1. DealUnits(p)[o] = 0
    BY <1>1 DEF DealUnits, OnDeal, Live
  <2>2. orders'[o].status = "PENDING" /\ orders'[o].deal = (job[s] = "deal")
        /\ orders'[o].quantity[p] = -change[s][p]
    BY <1>1 DEF TypeOK, Negated
  <2>3. DealUnits(p)'[o] = IF job[s] = "deal" THEN -change[s][p] ELSE 0
    BY <1>1, <2>2 DEF DealUnits, OnDeal, Live
  <2>4. change[s][p] \in Int
    BY <1>1 DEF Changes
  <2> QED
    BY <1>3, <2>1, <2>3, <2>4
<1>5. StockIsLedger'
  <2> SUFFICES ASSUME NEW p \in Products
               PROVE  /\ \A x \in Orders : movements'[x][p] <= 0
                      /\ stock'[p] = movements'[NoOrder][p] - Total(Taken(p))'
    BY DEF StockIsLedger
  <2>1. \A x \in Orders : movements'[x][p] <= 0
    BY TakenIsNegative
  <2>2. stock[p] = movements[NoOrder][p] - Total(Taken(p)) /\ movements[NoOrder][p] \in Int
        /\ movements[o][p] \in Int
    BY <1>1, UnitTypes DEF Accounted, StockAccounted, StockIsLedger
  <2> QED
    BY <1>2, <1>3, <1>4, <2>1, <2>2
<1>6. WithinLimit'
  <2> SUFFICES ASSUME NEW p \in Products
               PROVE  Ordered(p)' <= Limit[p]
    BY DEF WithinLimit
  <2>1. Ordered(p) <= Limit[p]
    BY DEF Accounted, StockAccounted, WithinLimit
  <2>2. CASE job[s] = "deal" /\ p \in Lines(s)
    BY <1>1, <1>4, <2>2 DEF Accounted, LimitsSeen, WithinLimits
  <2>3. CASE job[s] # "deal" \/ p \notin Lines(s)
    BY <1>3, <1>4, <2>1, <2>3 DEF Lines
  <2> QED
    BY <2>2, <2>3
<1>7. LimitsSeen'
  <2>1. ASSUME NEW p \in Products, itemLock[p] # s
        PROVE  Ordered(p)' = Ordered(p)
    <3>1. job[s] = "deal" => change[s][p] = 0
      BY <1>1, <2>1 DEF Accounted, LimitsSeen, Lines, HeldItems
    <3> QED
      BY <1>3, <1>4, <3>1
  <2>2. \A p \in Products : Ordered(p)' \in Nat
    BY <1>3, FS_CardinalityType DEF Countable, Ordered, Total
  <2> QED
    BY <1>1, <1>3, <2>1, <2>2, EndLimits DEF Accounted
<1> QED
  BY <1>3, <1>5, <1>6, <1>7 DEF Accounted, StockAccounted

LEMMA CommitCancelAccounted ==
    ASSUME Protected, Protected', Accounted, NEW s \in Sessions, CommitCancel(s)
    PROVE  Accounted'
<1> USE DEF Protected
<1> DEFINE o == target[s]
<1>1. /\ pc[s] = "write" /\ HoldsOrder(s) /\ o \in Orders
      /\ change[s] = orders[o].quantity
      /\ End(s) /\ Sufficient(s) /\ ApplyChange(s, o) /\ change[s] \in Changes
      /\ orders' = [orders EXCEPT ![o].status = "CANCELLED"]
  BY DEF CommitCancel, HoldsOrder, Cancelling, OrderSeen, TypeOK
<1>2. /\ \A x \in Orders \ {o} : orders'[x] = orders[x] /\ movements'[x] = movements[x]
      /\ \A p \in Products : /\ stock'[p] = stock[p] + change[s][p]
                             /\ movements'[o][p] = movements[o][p] + change[s][p]
      /\ movements'[NoOrder] = movements[NoOrder]
  <2>1. o # NoOrder
    BY <1>1, NoOrderAssumption
  <2>2. movements' = [movements EXCEPT ![o] = [p \in Products |-> @[p] + change[s][p]]]
    BY <1>1 DEF ApplyChange
  <2>3. movements'[NoOrder] = movements[NoOrder]
    BY <2>1, <2>2 DEF TypeOK
  <2> QED
    BY <1>1, <2>3, Applied DEF TypeOK
<1>3. /\ Countable'
      /\ \A p \in Products :
            /\ Ordered(p) \in Nat /\ Total(Taken(p)) \in Nat
            /\ Ordered(p)' = Ordered(p) - DealUnits(p)[o] + DealUnits(p)'[o]
            /\ Total(Taken(p))' = Total(Taken(p)) + movements[o][p] - movements'[o][p]
  BY <1>1, <1>2, CountsFollow DEF Accounted
<1>4. ASSUME NEW p \in Products
      PROVE  Ordered(p)' \in Nat /\ Ordered(p)' <= Ordered(p)
  <2>1. DealUnits(p)[o] \in Nat
    BY <1>1, UnitTypes
  <2>2. DealUnits(p)'[o] = 0
    BY <1>1 DEF DealUnits, OnDeal, Live, TypeOK, OrderRow
  <2>3. Ordered(p)' \in Nat
    BY <1>3, FS_CardinalityType DEF Countable, Ordered, Total
  <2> QED
    BY <1>3, <2>1, <2>2, <2>3
<1>5. StockIsLedger'
  <2> SUFFICES ASSUME NEW p \in Products
               PROVE  /\ \A x \in Orders : movements'[x][p] <= 0
                      /\ stock'[p] = movements'[NoOrder][p] - Total(Taken(p))'
    BY DEF StockIsLedger
  <2>1. \A x \in Orders : movements'[x][p] <= 0
    BY TakenIsNegative
  <2>2. stock[p] = movements[NoOrder][p] - Total(Taken(p)) /\ movements[NoOrder][p] \in Int
        /\ movements[o][p] \in Int /\ change[s][p] \in Int
    BY <1>1, UnitTypes DEF Accounted, StockAccounted, StockIsLedger, Changes
  <2> QED
    BY <1>2, <1>3, <2>1, <2>2
<1>6. WithinLimit'
  <2> SUFFICES ASSUME NEW p \in Products
               PROVE  Ordered(p)' <= Limit[p]
    BY DEF WithinLimit
  <2>1. Ordered(p) <= Limit[p] /\ Limit[p] \in Nat
    BY LimitAssumption DEF Accounted, StockAccounted, WithinLimit
  <2> QED
    BY <1>3, <1>4, <2>1
<1>7. LimitsSeen'
  BY <1>1, <1>3, <1>4, EndLimits DEF Accounted
<1> QED
  BY <1>3, <1>5, <1>6, <1>7 DEF Accounted, StockAccounted

LEMMA CommitStatusAccounted ==
    ASSUME Protected, Protected', Accounted, NEW s \in Sessions, CommitStatus(s)
    PROVE  Accounted'
<1> USE DEF Protected
<1> DEFINE o == target[s]
<1>1. /\ HoldsOrder(s) /\ o \in Orders
      /\ orders[o].status \notin {"NONE", "CANCELLED"}
      /\ seenStatus[s] \in OrderStatus \cup {"NONE"}
      /\ End(s) /\ UNCHANGED <<stock, movements>>
  BY PermittedLive DEF CommitStatus, HoldsOrder, OrderSeen, TypeOK
<1>2. PICK st \in Transitions(seenStatus[s]) : orders' = [orders EXCEPT ![o].status = st]
  BY DEF CommitStatus
<1>3. st \in {"CONFIRMED", "SHIPPED", "DELIVERED"}
  BY <1>1, TransitionsType
<1>4. \A p \in Products : DealUnits(p)' = DealUnits(p) /\ Taken(p)' = Taken(p)
  <2>1. \A x \in Orders : /\ orders'[x].quantity = orders[x].quantity
                          /\ orders'[x].deal = orders[x].deal
                          /\ x \in Live' <=> x \in Live
    BY <1>1, <1>2, <1>3 DEF TypeOK, OrderRow, Live
  <2> QED
    BY <1>1, <2>1 DEF DealUnits, Taken, OnDeal
<1>5. \A p \in Products : /\ Units(DealUnits(p))' = Units(DealUnits(p))
                          /\ Units(Taken(p))' = Units(Taken(p))
                          /\ Ordered(p)' = Ordered(p) /\ Total(Taken(p))' = Total(Taken(p))
  BY <1>4 DEF Ordered, Total, Units
<1>6. StockAccounted' /\ Countable'
  BY <1>1, <1>5 DEF Accounted, StockAccounted, StockIsLedger, WithinLimit, Countable
<1>7. LimitsSeen'
  BY <1>1, <1>5, OrderedType, EndLimits DEF Accounted
<1> QED
  BY <1>6, <1>7 DEF Accounted

LEMMA CommitAdjustAccounted ==
    ASSUME Protected, Protected', Accounted, NEW s \in Sessions, CommitAdjust(s)
    PROVE  Accounted'
<1> USE DEF Protected
<1>1. /\ pc[s] = "write" /\ End(s) /\ Sufficient(s) /\ ApplyChange(s, NoOrder)
      /\ orders' = orders /\ change[s] \in Changes
  BY DEF CommitAdjust, TypeOK
<1>2. /\ \A x \in Orders : movements'[x] = movements[x]
      /\ \A p \in Products : /\ stock'[p] = stock[p] + change[s][p]
                             /\ movements'[NoOrder][p] = movements[NoOrder][p] + change[s][p]
  BY <1>1, Applied, NoOrderAssumption
<1>3. \A p \in Products : DealUnits(p)' = DealUnits(p) /\ Taken(p)' = Taken(p)
  BY <1>1, <1>2 DEF DealUnits, Taken, OnDeal, Live
<1>4. \A p \in Products : Ordered(p)' = Ordered(p)
  BY <1>3 DEF Ordered, Total, Units
<1>5. Countable' /\ WithinLimit'
  BY <1>3, <1>4 DEF Accounted, StockAccounted, WithinLimit, Countable, Units
<1>6. StockIsLedger'
  <2> SUFFICES ASSUME NEW p \in Products
               PROVE  /\ \A x \in Orders : movements'[x][p] <= 0
                      /\ stock'[p] = movements'[NoOrder][p] - Total(Taken(p))'
    BY DEF StockIsLedger
  <2>1. /\ \A x \in Orders : movements[x][p] <= 0
        /\ stock[p] = movements[NoOrder][p] - Total(Taken(p)) /\ movements[NoOrder][p] \in Int
        /\ change[s][p] \in Int
    BY <1>1, UnitTypes DEF Accounted, StockAccounted, StockIsLedger, Changes
  <2>2. Total(Taken(p)) \in Nat /\ Total(Taken(p))' = Total(Taken(p))
    BY <1>3, FS_CardinalityType DEF Accounted, Countable, Total, Units
  <2> QED
    BY <1>2, <2>1, <2>2
<1>7. LimitsSeen'
  BY <1>1, <1>4, OrderedType, EndLimits DEF Accounted
<1> QED
  BY <1>5, <1>6, <1>7 DEF Accounted, StockAccounted

(* A cart has a line, and an adjustment one. *)
LEMMA RequestAccounted ==
    ASSUME TypeOK, OrderLedger, StagesFit, Accounted, NEW s \in Sessions, Request(s)
    PROVE  Accounted'
<1>1. PICK j \in Handlers, o \in Orders \cup {NoOrder},
           c \in Changes, stage \in {"lock_items", "lock_order", "lock_stock"} :
          /\ Begin(s, j, o, c, stage)
          /\ stage = "lock_stock" => j # "deal"
          /\ j = "adjust" => \E p \in Products : \A q \in Products : c[q] # 0 <=> q = p
  <2>1. CASE AskAdjust(s)
    <3>1. PICK p \in Products, n \in (-MaxQuantity..MaxQuantity) \ {0} :
              Begin(s, "adjust", NoOrder, [Nothing EXCEPT ![p] = n], "lock_stock")
      BY <2>1 DEF AskAdjust
    <3>2. /\ [Nothing EXCEPT ![p] = n] \in Changes
          /\ \A q \in Products : [Nothing EXCEPT ![p] = n][q] # 0 <=> q = p
      BY NothingType, BoundsAssumption DEF Changes, Nothing
    <3>3. "adjust" \in Handlers
      BY <3>1 DEF Begin
    <3> QED
      BY <3>1, <3>2, <3>3
  <2>2. ASSUME NEW q \in Carts
        PROVE  Negated(q) \in Changes
    BY BoundsAssumption DEF Carts, Negated, Changes
  <2>3. ASSUME NEW o \in Orders, PlaceOnDeal(s, o) \/ PlaceDirect(s, o)
        PROVE  \E j \in {"deal", "direct"}, c \in Changes, stage \in {"lock_items", "lock_stock"} :
                   Begin(s, j, o, c, stage) /\ j \in Handlers /\ (stage = "lock_stock" => j # "deal")
    <3>1. CASE PlaceOnDeal(s, o)
      BY <2>2, <3>1 DEF PlaceOnDeal, Begin
    <3>2. CASE PlaceDirect(s, o)
      BY <2>2, <3>2 DEF PlaceDirect, Begin
    <3> QED
      BY <2>3, <3>1, <3>2
  <2>4. ASSUME NEW o \in Orders, AskCancel(s, o) \/ AskChangeStatus(s, o)
        PROVE  \E j \in {"cancel_mine", "cancel", "change_status"} :
                   Begin(s, j, o, Nothing, "lock_order") /\ j \in Handlers
    BY <2>4 DEF AskCancel, AskChangeStatus, Begin
  <2>5. CASE \E o \in Orders : PlaceOnDeal(s, o) \/ PlaceDirect(s, o)
    BY <2>3, <2>5
  <2>6. CASE \E o \in Orders : AskCancel(s, o) \/ AskChangeStatus(s, o)
    BY <2>4, <2>6, NothingType
  <2> QED
    BY <2>1, <2>5, <2>6 DEF Request
<1>2. /\ pc[s] = "idle" /\ UNCHANGED <<rows, itemLock>>
      /\ pc'[s] = stage /\ job'[s] = j /\ change'[s] = c
      /\ \A t \in Sessions \ {s} : pc'[t] = pc[t] /\ job'[t] = job[t] /\ change'[t] = change[t]
  BY <1>1 DEF Begin, Goto, TypeOK
<1>3. StockAccounted' /\ Countable' /\ \A p \in Products : Ordered(p)' = Ordered(p)
  BY <1>2, RowsStay DEF Accounted
<1>4. LimitsSeen'
  BY <1>1, <1>2, <1>3 DEF Accounted, LimitsSeen, Lines, HeldItems, WithinLimits
<1> QED
  BY <1>3, <1>4 DEF Accounted

LEMMA LockItemAccounted ==
    ASSUME TypeOK, StagesFit, Accounted, NEW s \in Sessions, LockItem(s)
    PROVE  Accounted'
<1>1. PICK p \in Lines(s) \ HeldItems(s) :
          /\ SelectItem(s, p)
          /\ Goto(s, IF Lines(s) \ HeldItems(s) = {p} THEN "limits" ELSE "lock_items")
  BY DEF LockItem, NextItems
<1>2. /\ pc[s] = "lock_items" /\ job[s] = "deal" /\ pc'[s] \in {"limits", "lock_items"}
      /\ pc'[s] = "limits" => Lines(s) \ HeldItems(s) = {p}
      /\ \A t \in Sessions \ {s} : pc'[t] = pc[t]
      /\ UNCHANGED <<rows, job, change>>
      /\ p \in Products /\ itemLock[p] = NoSession /\ itemLock' = [itemLock EXCEPT ![p] = s]
  BY <1>1 DEF LockItem, Goto, SelectItem, Lines, TypeOK, StagesFit
<1>3. /\ HeldItems(s)' = HeldItems(s) \cup {p}
      /\ \A t \in Sessions \ {s} : HeldItems(t)' = HeldItems(t)
      /\ \A t \in Sessions : Lines(t)' = Lines(t)
  BY <1>2, NoSessionAssumption DEF HeldItems, Lines, TypeOK
<1>4. StockAccounted' /\ Countable' /\ \A q \in Products : Ordered(q)' = Ordered(q)
  BY <1>2, RowsStay DEF Accounted
<1>5. \A t \in Sessions : WithinLimits(t)' <=> WithinLimits(t)
  BY <1>2, <1>3, <1>4 DEF WithinLimits, Lines
<1>6. LimitsSeen'
  BY <1>2, <1>3, <1>5 DEF Accounted, LimitsSeen
<1> QED
  BY <1>4, <1>6 DEF Accounted

(* The other steps of a session before its commit neither change a row nor take *)
(* the lock of an item; the limits are passed only by the check.                *)
LEMMA OtherAccounted ==
    ASSUME TypeOK, OrderSeen, StagesFit, Accounted, NEW s \in Sessions,
           CheckLimits(s) \/ LockOrder(s) \/ LockStock(s)
    PROVE  Accounted'
<1>1. /\ UNCHANGED <<rows, itemLock, job>>
      /\ \A t \in Sessions \ {s} : pc'[t] = pc[t] /\ change'[t] = change[t]
      /\ job[s] \in {"deal", "adjust"} => /\ change'[s] = change[s]
                                          /\ pc[s] \in {"limits", "lock_stock"}
                                          /\ pc[s] = "limits" => WithinLimits(s)
  BY DEF CheckLimits, LockOrder, LockStock, Goto, StagesFit, TypeOK
<1>2. StockAccounted' /\ Countable' /\ \A p \in Products : Ordered(p)' = Ordered(p)
  BY <1>1, RowsStay DEF Accounted
<1>3. ASSUME NEW t \in Sessions, change'[t] = change[t]
      PROVE  /\ Lines(t)' = Lines(t) /\ HeldItems(t)' = HeldItems(t)
             /\ WithinLimits(t)' <=> WithinLimits(t)
  BY <1>1, <1>2, <1>3 DEF Lines, HeldItems, WithinLimits
<1>4. LimitsSeen'
  BY <1>1, <1>3 DEF Accounted, LimitsSeen
<1> QED
  BY <1>2, <1>4 DEF Accounted

LEMMA AccountedAlways == Spec => []Accounted
<1>1. Init => Accounted
  <2> SUFFICES ASSUME Init PROVE Accounted
    OBVIOUS
  <2>1. ASSUME NEW p \in Products
        PROVE  /\ DealUnits(p) \in [Orders -> Nat] /\ \A o \in Orders : DealUnits(p)[o] = 0
               /\ Taken(p) \in [Orders -> Nat] /\ \A o \in Orders : Taken(p)[o] = 0
               /\ \A o \in Orders : movements[o][p] = 0
               /\ movements[NoOrder][p] = stock[p] /\ stock[p] \in Nat
    <3>1. \A o \in Orders : /\ movements[o][p] = 0 /\ orders[o].status = "NONE"
      BY NoOrderAssumption DEF Init, NoRow, Nothing
    <3>2. movements[NoOrder] = stock /\ stock[p] \in Nat
      BY BoundsAssumption DEF Init
    <3> QED
      BY <3>1, <3>2 DEF DealUnits, OnDeal, Live, Taken
  <2>2. Countable /\ \A p \in Products : Ordered(p) = 0 /\ Total(Taken(p)) = 0
    BY <2>1, TotalOfNothing DEF Countable, Ordered
  <2>3. StockIsLedger
    BY <2>1, <2>2 DEF StockIsLedger
  <2>4. WithinLimit
    BY <2>2, LimitAssumption DEF WithinLimit
  <2>5. LimitsSeen
    BY DEF Init, LimitsSeen
  <2> QED
    BY <2>2, <2>3, <2>4, <2>5 DEF Accounted, StockAccounted
<1>2. IInv /\ IInv' /\ Accounted /\ [Next]_vars => Accounted'
  <2> SUFFICES ASSUME Protected, Protected', Accounted, [Next]_vars
               PROVE  Accounted'
    BY DEF IInv
  <2>1. CASE UNCHANGED vars
    <3>1. StockAccounted' /\ Countable' /\ \A p \in Products : Ordered(p)' = Ordered(p)
      BY <2>1, RowsStay DEF Accounted, vars
    <3>2. LimitsSeen'
      BY <2>1, <3>1 DEF vars, Accounted, LimitsSeen, Lines, HeldItems, WithinLimits
    <3> QED
      BY <3>1, <3>2 DEF Accounted
  <2>2. ASSUME NEW s \in Sessions, Request(s) \/ Proceed(s) \/ Die(s)
        PROVE  Accounted'
    <3>1. CASE Request(s)
      BY <3>1, RequestAccounted DEF Protected
    <3>2. CASE LockItem(s)
      BY <3>2, LockItemAccounted DEF Protected
    <3>3. CASE CheckLimits(s) \/ LockOrder(s) \/ LockStock(s)
      BY <3>3, OtherAccounted DEF Protected
    <3>4. CASE Commit(s)
      BY <3>4, CommitPlaceAccounted, CommitCancelAccounted, CommitStatusAccounted,
         CommitAdjustAccounted DEF Commit
    <3>5. CASE LimitExceeded(s) \/ NotPermitted(s) \/ NotServed(s) \/ Insufficient(s) \/ Die(s)
      <4>1. Rollback(s)
        BY <3>5 DEF LimitExceeded, NotPermitted, NotServed, Insufficient, Die
      <4> QED
        BY <4>1, RollbackAccounted DEF Protected
    <3> QED
      BY <2>2, <3>1, <3>2, <3>3, <3>4, <3>5 DEF Proceed
  <2> QED
    BY <2>1, <2>2 DEF Next
<1> QED
  BY <1>1, <1>2, Inductive, PTL DEF Spec

(* The movements account for every unit of stock, and the orders on the deal keep *)
(* within the quantity of each of its items, however many place, cancel and       *)
(* adjust at once.                                                                *)
THEOREM StockAccountedAlways == Spec => []StockAccounted
BY AccountedAlways, PTL DEF Accounted

LEMMA ContractCardinality == ASSUME NEW S PROVE Contract!Cardinality(S) = Cardinality(S)
BY DEF Contract!Cardinality, Cardinality

(* The contract counts the units ordered as the handlers do. *)
LEMMA ContractCounts ==
    ASSUME NEW p \in Products
    PROVE  Contract!Ordered(p) = Ordered(p)
<1> DEFINE q == DealUnits(p)
<1>1. \A o \in Orders : q[o] = IF Contract!OnDeal(o) THEN orders[o].quantity[p] ELSE 0
  BY DEF DealUnits, OnDeal, Live, Contract!OnDeal, Contract!Live
<1>2. DOMAIN q = Orders
  BY DEF DealUnits
<1> HIDE DEF q
<1>3. Units(q) = UNION {{o} \X (1..IF Contract!OnDeal(o) THEN orders[o].quantity[p] ELSE 0) : o \in Orders}
  BY <1>1, <1>2 DEF Units
<1> QED
  BY <1>3, ContractCardinality DEF Contract!Ordered, Ordered, Total, q

(* Every step of the handlers is a step of the contract or leaves its rows alone: *)
(* what a commit relies on, it has checked on the rows as they still are.         *)
THEOREM ContractImplemented == Spec => ImplementsContract
<1>1. Init => Contract!Init
  BY DEF Init, Contract!Init, NoRow
<1>2. IInv /\ Accounted /\ [Next]_vars => [Contract!Next]_(Contract!contractVars)
  <2> SUFFICES ASSUME Protected, Accounted, [Next]_vars
               PROVE  Contract!Next \/ UNCHANGED <<stock, orders>>
    BY DEF IInv, Contract!contractVars
  <2> USE DEF Protected
  <2>1. ASSUME NEW s \in Sessions, CommitPlace(s)
        PROVE  Contract!Next
    <3> DEFINE o == target[s]
               row == [status |-> "PENDING", deal |-> job[s] = "deal", quantity |-> Negated(change[s])]
    <3>1. /\ pc[s] = "write" /\ job[s] \in {"deal", "direct"}
          /\ o \in Orders /\ orders[o].status = "NONE"
          /\ Sufficient(s) /\ ApplyChange(s, o) /\ change[s] \in Changes
          /\ orders' = [orders EXCEPT ![o] = row]
      BY <2>1 DEF CommitPlace, Placing, OrdersApart, TypeOK
    <3>2. orders'[o] = row /\ \A q \in Orders \ {o} : orders'[q] = orders[q]
      BY <3>1 DEF TypeOK
    <3>3. ASSUME NEW p \in Products
          PROVE  /\ row.quantity[p] = -change[s][p] /\ change[s][p] \in Int
                 /\ stock'[p] = stock[p] + change[s][p]
                 /\ stock[p] \in Int /\ stock'[p] \in Nat
      <4>1. change[s][p] \in Int /\ stock[p] \in 0..MaxStock
        BY <3>1 DEF Changes, TypeOK
      <4>2. stock'[p] = stock[p] + change[s][p] /\ stock'[p] \in 0..MaxStock
        BY <3>1, Applied
      <4>3. row.quantity[p] = -change[s][p]
        BY DEF Negated
      <4> QED
        BY <4>1, <4>2, <4>3, BoundsAssumption
    <3>4. ASSUME NEW p \in Products, row.deal, row.quantity[p] > 0
          PROVE  Contract!Ordered(p) + row.quantity[p] <= Limit[p]
      <4>1. job[s] = "deal"
        <5>1. row.deal = (job[s] = "deal")
          BY Zenon
        <5> QED
          BY <3>4, <5>1, Zenon
      <4>2. p \in Lines(s)
        <5> HIDE DEF row
        <5> QED
          BY <3>3, <3>4 DEF Lines
      <4>3. Ordered(p) - change[s][p] <= Limit[p]
        BY <3>1, <4>1, <4>2 DEF Accounted, LimitsSeen, WithinLimits
      <4>4. Ordered(p) \in Nat /\ Limit[p] \in Nat
        BY OrderedType, LimitAssumption DEF Accounted
      <4>5. Contract!Ordered(p) = Ordered(p)
        BY ContractCounts
      <4> QED
        BY <3>3, <4>3, <4>4, <4>5
    <3>5. row.status = "PENDING"
      OBVIOUS
    <3> HIDE DEF row
    <3>6. Contract!Place(o)
      BY <3>1, <3>2, <3>3, <3>4, <3>5 DEF Contract!Place
    <3> QED
      BY <3>1, <3>2, <3>6 DEF Contract!Next, Contract!OnlyThis
  <2>2. ASSUME NEW s \in Sessions, CommitCancel(s)
        PROVE  Contract!Next
    <3> DEFINE o == target[s]
    <3>1. /\ pc[s] = "write" /\ HoldsOrder(s) /\ o \in Orders
          /\ orders[o].status \in {"PENDING", "CONFIRMED"}
          /\ change[s] = orders[o].quantity /\ change[s] \in Changes
          /\ Sufficient(s) /\ ApplyChange(s, o)
          /\ orders' = [orders EXCEPT ![o].status = "CANCELLED"]
      BY <2>2 DEF CommitCancel, HoldsOrder, Cancelling, OrderSeen, Permitted, Cancellable, TypeOK
    <3>2. \A p \in Products : /\ stock'[p] = stock[p] + orders[o].quantity[p]
                              /\ stock[p] + orders[o].quantity[p] <= MaxStock
      BY <3>1, Applied, BoundsAssumption
    <3>3. \A q \in Orders \ {o} : orders'[q] = orders[q]
      BY <3>1
    <3> QED
      BY <3>1, <3>2, <3>3 DEF Contract!Next, Contract!OnlyThis, Contract!Cancel
  <2>3. ASSUME NEW s \in Sessions, CommitStatus(s)
        PROVE  Contract!Next
    <3>1. /\ HoldsOrder(s) /\ target[s] \in Orders /\ seenStatus[s] = orders[target[s]].status
          /\ UNCHANGED stock
      BY <2>3 DEF CommitStatus, HoldsOrder, OrderSeen
    <3>2. PICK st \in Transitions(orders[target[s]].status) :
              orders' = [orders EXCEPT ![target[s]].status = st]
      BY <2>3, <3>1 DEF CommitStatus
    <3>3. Contract!Fulfil(target[s])
      BY <3>1, <3>2 DEF Contract!Fulfil, Transitions
    <3>4. \A q \in Orders \ {target[s]} : orders'[q] = orders[q]
      BY <3>2
    <3> QED
      BY <3>1, <3>3, <3>4 DEF Contract!Next, Contract!OnlyThis
  <2>4. ASSUME NEW s \in Sessions, CommitAdjust(s)
        PROVE  Contract!Next
    <3>1. /\ pc[s] = "write" /\ Sufficient(s) /\ ApplyChange(s, NoOrder) /\ UNCHANGED orders
      BY <2>4 DEF CommitAdjust
    <3>2. PICK p \in Products : Lines(s) = {p}
      BY <2>4 DEF CommitAdjust, Accounted, LimitsSeen
    <3>3. stock' \in [Products -> 0..MaxStock]
      BY <3>1, Applied
    <3>4. \A q \in Products \ {p} : stock'[q] = stock[q]
      BY <3>1, <3>2 DEF ApplyChange
    <3>5. stock' = [stock EXCEPT ![p] = stock'[p]]
      BY <3>3, <3>4 DEF TypeOK
    <3> QED
      BY <3>1, <3>3, <3>5 DEF Contract!Next, Contract!Adjust
  <2>5. ASSUME NEW s \in Sessions, ~Commit(s), Request(s) \/ Proceed(s) \/ Die(s)
        PROVE  UNCHANGED <<stock, orders>>
    BY <2>5 DEF Request, AskAdjust, PlaceOnDeal, PlaceDirect, AskCancel, AskChangeStatus, Begin,
                Proceed, LockItem, CheckLimits, LimitExceeded, LockOrder, NotPermitted, NotServed,
                LockStock, Insufficient, Die, Rollback
  <2> QED
    BY <2>1, <2>2, <2>3, <2>4, <2>5 DEF Next, vars, Commit
<1> QED
  BY <1>1, <1>2, Inductive, AccountedAlways, PTL DEF Spec, ImplementsContract, Contract!Spec
===============================================================================
