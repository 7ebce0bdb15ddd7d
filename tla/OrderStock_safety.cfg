SPECIFICATION Spec
CONSTANTS
  Products <- TwoProducts
  ItemId <- TwoItemIds
  MaxId = 2
  Limit <- TwoLimits
  Orders = {o1, o2}
  NoOrder = NoOrder
  Sessions = {s1, s2}
  NoSession = NoSession
  Handlers = {"deal", "direct", "cancel_mine", "cancel", "change_status", "adjust"}
  MaxStock = 2
  MaxQuantity = 1
SYMMETRY Symmetry
INVARIANTS
  TypeOK
  OrderLedger
  StockAccounted
  NoDeadlock
PROPERTIES
  StatusPath
  ImplementsContract
