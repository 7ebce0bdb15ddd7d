SPECIFICATION Spec
CONSTANTS
  Users = {u1, u2}
  NoUser = NoUser
  Businesses = {b1, b2}
  NoBusiness = NoBusiness
  Images = {i1, i2, i3}
  NoImage = NoImage
  Sessions = {s1, s2}
  NoSession = NoSession
SYMMETRY Symmetry
INVARIANTS
  TypeOK
  CustomersConsistent
  PluginsConsistent
  BusinessesConsistent
  CategoriesConsistent
  ContentConsistent
PROPERTIES
  VersionsRise
CHECK_DEADLOCK FALSE
