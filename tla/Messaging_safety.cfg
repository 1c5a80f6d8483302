\* Two posts at a time of two overlapping batches, two faults, restarts that may
\* fail; any number of posts at a time is what the proofs are about.
SPECIFICATION FairSpec
CONSTANTS
  m1 = m1
  m2 = m2
  st = st
  Events <- MCEvents
  TextMessages <- MCTexts
  Batches <- TwoBatches
  Handlers = {h1, h2}
  MaxFaults = 2
  None = None
INVARIANTS
  RepliedOnce
  StatusTruthful
  AcknowledgedIsRecorded
PROPERTIES
  FinalStays
  RefinesAtMostOnce
  EveryBatchAcknowledged
