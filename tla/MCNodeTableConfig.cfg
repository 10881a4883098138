SPECIFICATION Spec
CONSTANTS
  Nodes = {n1}
  Handlers = {h1, h2}
  Tokens = {t1, t2}
  Names = {a, b}
  Groups = {g1}
  Configs = {c1}
  Default = Default
  None = None
SYMMETRY Symmetry
INVARIANTS
  ConfigurationKept
