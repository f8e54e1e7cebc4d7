SPECIFICATION FairSpec
CONSTANTS
  MaxId = 2
  Written <- TwoReservations
  BatchSize = 2
  MaxFaults = 1
  BrokerUp = FALSE
INVARIANTS
  TypeOK
  UnsentHasSend
PROPERTIES
  ActsAsDelivery
  ReservationRowsAreSent
