SPECIFICATION NoPluginReview
CONSTANTS
  Businesses = {b1, b2}
  NoBusiness = NoBusiness
  Sessions = {s1, s2}
  NoSession = NoSession
INVARIANT ActiveIsVerified
CHECK_DEADLOCK FALSE
