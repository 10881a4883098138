SPECIFICATION FairSpec
CONSTANTS
  n1 = n1
  n2 = n2
  Nodes <- TwoNodes
  NoNode = NoNode
  RetryCount <- RetriesOf
  MaxSamples <- SamplesOf
  MaxLate = 1
  Reliable = {n1}
INVARIANTS
  AckedIsCached
  AccountedFor
PROPERTIES
  StoredInOrder
  AckedIsStored
  StoreCatchesUp
