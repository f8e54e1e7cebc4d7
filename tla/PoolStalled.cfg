SPECIFICATION FairSpec
CONSTANTS
  r1 = r1
  r2 = r2
  p1 = p1
  c1 = c1
  m1 = m1
  n1 = n1
  u1 = u1
  Conns = {k1, k2}
  Tasks <- TwoReservations
  Kind <- ReservationKind
  Users <- OneUser
  Payer <- ReservationPayer
  None = None
PROPERTY
  TaskEnds
CHECK_DEADLOCK FALSE
