SPECIFICATION Spec
CONSTANTS
  Users = {u1, u2}
  Sessions = {s1, s2}
  NoSession = NoSession
  NoUser = NoUser
  Items = {i1}
  Requests = {"submit", "refresh", "accept", "decline", "cancel", "delete", "edit", "expire"}
  MaxAcceptances = 1
  Timeout = 1
  MaxTime = 2
  MaxCrashes = 1
SYMMETRY Symmetry
INVARIANTS
  TypeOK
  AcceptanceOutcome
  NotifiedOnce
PROPERTIES
  DecisionsFinal
  ImplementsContract
