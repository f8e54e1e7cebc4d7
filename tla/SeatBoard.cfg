SPECIFICATION FairBoardSpec
CONSTANTS
  s1 = s1
  s2 = s2
  id1 = id1
  id2 = id2
  Seats <- TwoSeats
  Handlers = {h1, h2, h3}
  None = None
  Concerts = {id1}
  Performances = {id1, id2}
  ConcertOf <- OneConcert
  PerformanceOf <- OneSeatEach
  Readers = {r1}
INVARIANTS
  OneWinnerPerSeat
  ConflictWasDone
  BoardTypeOK
  NoSeatHidden
  AnswerFitsQuestion
PROPERTIES
  OfferNeverReturns
  ActsAsLifecycle
  StaleOfferEnds
CHECK_DEADLOCK FALSE
