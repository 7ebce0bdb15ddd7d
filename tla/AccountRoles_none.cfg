SPECIFICATION NoVillageRoles
CONSTANTS
  Roles = {promoter, club}
  Base = base
  Sessions = {s1, s2}
  NoSession = NoSession
  MaxRequests = 2
  MaxTime = 3
  Accounts = {}
  NoUser = NoUser
INVARIANT AlwaysARole
CHECK_DEADLOCK FALSE
