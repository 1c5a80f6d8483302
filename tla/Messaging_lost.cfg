\* One message, one failed operation: the next post of the message is a duplicate.
SPECIFICATION Spec
CONSTANTS
  m1 = m1
  m2 = m2
  st = st
  Events <- MCEvents
  TextMessages <- MCTexts
  Batches <- SmallBatches
  Handlers = {h1, h2}
  MaxFaults = 1
  None = None
SYMMETRY Symmetry
INVARIANTS
  NothingLost
