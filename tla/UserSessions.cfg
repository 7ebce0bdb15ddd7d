SPECIFICATION MCSpec
CONSTANTS
  Tokens = {t1, t2, t3}
  NoToken = NoToken
  Requests = {r1, r2}
  NoRequest = NoRequest
  Sockets = {c1, c2, c3}
  FirstRequest = r1
  FirstToken = t1
  SecondToken = t2
  MaxConnections = 2
INVARIANTS
  TypeOK
  TokensPaired
  PresenceTrue
PROPERTIES
  EverythingEnds
CHECK_DEADLOCK FALSE
