\* Two processes, any of six configurations, the database down or failing.
SPECIFICATION FairSpec
CONSTANTS
  Processes = {p1, p2}
  Environments <- SomeEnvironments
  MaxFaults = 2
  None = None
INVARIANTS
  ProductionConfigured
PROPERTIES
  KeepsGate
  StartNotBlocked
