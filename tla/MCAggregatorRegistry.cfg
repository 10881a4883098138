SPECIFICATION FairSpec
CONSTANTS
  Nodes = {n1, n2}
  Handlers = {h1, h2}
  ConnectionTimeout = 1
INVARIANTS
  VerifiedWasValidated
  ServedIsConnected
PROPERTIES
  ImplementsLeases
  IdleNodesAreEvicted
