SPECIFICATION Spec
CONSTANTS
  Users = {u1, u2}
  Seats = {s1}
  Calls = {1, 2}
  Pays = {1, 2}
  Price = 1
  BatchSize = 2
  InitialPoint = 1
  MaxFaults = 1
  BrokerUp = FALSE
  None = None
SYMMETRY SafetySymmetry
INVARIANTS
  TypeOK
  CommittedHasOutbox
  MoneyMatchesPayments
  PaymentFollowsReservation
  SeatStateIsExplained
CHECK_DEADLOCK FALSE
