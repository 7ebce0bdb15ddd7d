SPECIFICATION FairSpec
CONSTANTS
  Products <- TwoProducts
  ItemId <- TwoItemIds
  MaxId = 2
  Limit <- TwoLimits
  Orders = {o1, o2}
  NoOrder = NoOrder
  Sessions = {s1, s2}
  NoSession = NoSession
  Handlers = {"deal", "direct", "cancel", "change_status"}
  MaxStock = 1
  MaxQuantity = 1
PROPERTIES
  RequestsEnd
