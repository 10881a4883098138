SPECIFICATION Spec
CONSTANTS
  Owners = {o1, o2}
  Rows = {x1, x2}
  Tables <- AnyTable
  Hashes = {h1, h2}
  Columns = {k1, k2}
  Null = Null
  Callers = {c1, c2}
  MaxTime = 1
SYMMETRY Symmetry
INVARIANTS
  TypeOK
  DeletedOnce
  ReferencesExist
  OrphansAreLate
  PasswordKept
PROPERTIES
  LeaveForAReason
