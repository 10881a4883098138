SPECIFICATION ContactsSpec
CONSTANTS
  Nodes = {n1, n2}
  Tokens = {t1, t2}
  Handlers = {h1, h2}
  Nothing = Nothing
  MaxTime = 2
SYMMETRY Symmetry
INVARIANTS
  ContactsTypeOK
  SettledContactsStay
  OwnConfiguration
