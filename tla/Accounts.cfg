SPECIFICATION Spec
CONSTANTS
  Users = {u1, u2}
  NoUser = NoUser
  Owner = owner
  Phones = {p1, p2}
  SomePhone = p1
  NoPhone = NoPhone
  Roles = {promoter, club}
  Base = base
  Options = {o1, o2}
  Addresses = {"a", "b"}
  Sessions = {s1, s2}
  NoSession = NoSession
  MaxRequests = 3
  MaxTime = 3
SYMMETRY Symmetry
INVARIANTS
  TypeOK
  CodesProved
  RolesReviewed
  AudienceConsistent
  CountersTrue
  PlacesConsistent
  DevicesInformed
PROPERTIES
  DecisionsHold
CHECK_DEADLOCK FALSE
