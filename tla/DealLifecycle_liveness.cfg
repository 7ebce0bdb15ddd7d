SPECIFICATION FairSpec
CONSTANTS
  Users = {u1}
  Sessions = {s1, s2}
  NoSession = NoSession
  NoUser = NoUser
  Items = {i1}
  Requests = {"submit", "refresh", "accept", "decline", "cancel", "delete", "expire"}
  MaxAcceptances = 1
  Timeout = 1
  MaxTime = 2
  MaxCrashes = 1
PROPERTIES
  RequestsFinish
  OverdueResolved
