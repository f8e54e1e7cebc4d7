SPECIFICATION Spec
CONSTANTS
  Users = {u1, u2}
  Seats = {s1}
  Calls = {1, 2}
  Pays = {1}
  Price = 1
  BatchSize = 2
  InitialPoint = 2
  MaxFaults = 0
  BrokerUp = TRUE
  None = None
INVARIANT
  SeatHasOneHolder
CHECK_DEADLOCK FALSE
