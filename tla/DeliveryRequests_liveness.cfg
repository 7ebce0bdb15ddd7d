SPECIFICATION MCFairSpec
CONSTANTS
  Promoters = {p1, p2}
  NoPromoter = NoPromoter
  Sessions = {s1, s2}
  NoSession = NoSession
  Handlers = {"list", "accept", "reject", "cancel"}
  Crashes = FALSE
  ResponseWindow = 1
  ClaimWindow = 1
  MaxRequests = 1
  MaxTime = 3
PROPERTIES
  HandlersFinish
  OverdueResolved
