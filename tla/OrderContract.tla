---------------------------- MODULE OrderContract ----------------------------
(***************************************************************************)
(* What the orders on a shop's products promise to its customers and to    *)
(* the shop, without sessions, locks or statements: each operation is one  *)
(* step and looks at the rows as they are.  OrderStock implements this     *)
(* specification.                                                          *)
(***************************************************************************)
EXTENDS Integers, FiniteSets

CONSTANTS Products, Orders, Limit, MaxStock

VARIABLES stock,   \* units on hand of each product
          orders   \* each order: its status, whether it is on the deal, its quantities

contractVars == <<stock, orders>>

Live == {o \in Orders : orders[o].status \notin {"NONE", "CANCELLED"}}

\* Units of the deal's item for p that have been ordered and not cancelled.
OnDeal(o) == o \in Live /\ orders[o].deal
Ordered(p) == Cardinality(UNION {{o} \X (1..IF OnDeal(o) THEN orders[o].quantity[p] ELSE 0) : o \in Orders})

Init == /\ stock \in [Products -> 0..MaxStock]
        /\ \A o \in Orders : orders[o].status = "NONE"

\* An order takes its units from the stock, all of them or none, and an order on
\* the deal stays within what is left of each of the deal's items.
Place(o) ==
    /\ orders[o].status = "NONE"
    /\ orders'[o].status = "PENDING"
    /\ \A p \in Products : orders'[o].deal /\ orders'[o].quantity[p] > 0
                               => Ordered(p) + orders'[o].quantity[p] <= Limit[p]
    /\ \A p \in Products : /\ orders'[o].quantity[p] <= stock[p]
                           /\ stock'[p] = stock[p] - orders'[o].quantity[p]

\* A cancelled order gives back what it took, if there is room for it.
Cancel(o) ==
    /\ orders[o].status \in {"PENDING", "CONFIRMED"}
    /\ orders' = [orders EXCEPT ![o].status = "CANCELLED"]
    /\ \A p \in Products : /\ stock[p] + orders[o].quantity[p] <= MaxStock
                           /\ stock'[p] = stock[p] + orders[o].quantity[p]

Fulfil(o) ==
    /\ \/ orders[o].status = "PENDING" /\ orders' = [orders EXCEPT ![o].status = "CONFIRMED"]
       \/ orders[o].status = "CONFIRMED" /\ orders' = [orders EXCEPT ![o].status = "SHIPPED"]
       \/ orders[o].status = "SHIPPED" /\ orders' = [orders EXCEPT ![o].status = "DELIVERED"]
    /\ UNCHANGED stock

\* The shop counts or restocks a product.
Adjust(p) == /\ \E n \in 0..MaxStock : stock' = [stock EXCEPT ![p] = n]
             /\ UNCHANGED orders

OnlyThis(o) == \A q \in Orders \ {o} : orders'[q] = orders[q]

Next == \/ \E o \in Orders : OnlyThis(o) /\ (Place(o) \/ Cancel(o) \/ Fulfil(o))
        \/ \E p \in Products : Adjust(p)

Spec == Init /\ [][Next]_contractVars
==============================================================================
