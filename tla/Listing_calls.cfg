\* A list asked for while a tontine is created and another user joins it.
SPECIFICATION ListingFairSpec
CONSTANTS
  Calls = {c1, c2}
  Users = {u1, u2}
  Tontines = {t1, t2}
  Codes = {k1, k2}
  Capacities = {2}
  Readers = {r1}
  None = None
  MaxGenerationAttempts = 1
INVARIANTS
  ListComplete
  ReadsOwnWrites
  SeatsMakeSense
  CodeOnlyToOwner
PROPERTIES
  EveryCallEnds
  ReservationsResolved
CHECK_DEADLOCK FALSE
