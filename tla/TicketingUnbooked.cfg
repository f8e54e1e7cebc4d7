SPECIFICATION FairSpec
CONSTANTS
  Users = {u1}
  Seats = {s1}
  Calls = {1}
  Pays = {1}
  Price = 1
  BatchSize = 2
  InitialPoint = 2
  MaxFaults = 0
  BrokerUp = TRUE
  None = None
PROPERTY
  PaidSeatIsBooked
CHECK_DEADLOCK FALSE
