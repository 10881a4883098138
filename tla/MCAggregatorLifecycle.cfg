SPECIFICATION FairSpec
CONSTANTS
  Nodes = {n1, n2}
  Handlers = {h1, h2}
  MaxSamples = 2
  None = None
INVARIANTS
  ShutdownJoins
  RequestsDrained
PROPERTIES
  NothingNewSent
  ShutdownReturns
CHECK_DEADLOCK FALSE
