\* One process whose database is down when it starts.
SPECIFICATION Spec
CONSTANTS
  Processes = {p1}
  Environments <- FewEnvironments
  MaxFaults = 1
  None = None
INVARIANTS
  ReadyTruthful
