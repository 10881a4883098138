SPECIFICATION StoreSpec
CONSTANTS
  Nodes = {n1, n2}
  Payloads = {a}
  Readers = {q1}
  MaxItems = 2
  Window = 1
  MaxTime = 2
  MaxStores = 3
  Calls = {c1, c2, c3, c4}
SYMMETRY Symmetric
CHECK_DEADLOCK FALSE
INVARIANTS
  KeepsNewest
  AnswersHoldWhatWasStored
  StoreTypeOK
  StuckTookTwo
  UnheardComesLate
