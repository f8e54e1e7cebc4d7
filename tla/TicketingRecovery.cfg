SPECIFICATION FairSpec
CONSTANTS
  Users = {u1}
  Seats = {s1}
  Calls = {1, 2}
  Pays = {1}
  Price = 1
  BatchSize = 1
  InitialPoint = 1
  MaxFaults = 1
  BrokerUp = FALSE
  None = None
PROPERTIES
  SendsFollowDelivery
  LateRequestIsRefused
  ReservedSeatIsTaken
  TimelyPaymentBooks
  PaymentIsSent
CHECK_DEADLOCK FALSE
