SPECIFICATION Spec
CONSTANTS
  Promoters = {p1, p2}
  NoPromoter = NoPromoter
  Sessions = {s1, s2}
  NoSession = NoSession
  Handlers = {"list", "accept", "reject", "re_request", "cancel_mine", "cancel", "change_status"}
  Crashes = TRUE
  ResponseWindow = 1
  ClaimWindow = 1
  MaxRequests = 2
  MaxTime = 1
INVARIANT CancelledNotDelivered
