----------------------------- MODULE MCOrderStock -----------------------------
EXTENDS OrderStock, TLC

\* The items' ids go the other way round than the products'.
TwoProducts == 1..2
TwoItemIds == [p \in TwoProducts |-> 3 - p]
TwoLimits == [p \in TwoProducts |-> p]

Symmetry == Permutations(Orders) \cup Permutations(Sessions)
===============================================================================
