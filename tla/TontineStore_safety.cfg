SPECIFICATION Spec
CONSTANTS
  Calls = {c1, c2, c3}
  Users = {u1, u2, u3}
  Tontines = {t1, t2}
  Codes = {k1, k2}
  Capacities = {2}
  None = None
  MaxGenerationAttempts = 2
SYMMETRY Symmetry
INVARIANTS
  CounterMatchesMembers
  CapacityRespected
  InviteCodesUnique
  OneMembershipPerUser
  CreatedWithOwner
  RefusalsJustified
  OutcomesTruthful
PROPERTIES
  NothingUndone
  RefinesRegistry
CHECK_DEADLOCK FALSE
