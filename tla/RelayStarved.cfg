SPECIFICATION FairSpec
CONSTANTS
  MaxId = 2
  Written <- TwoReservations
  BatchSize = 1
  MaxFaults = 1
  BrokerUp = TRUE
PROPERTY
  ReservationRowsAreSent
