SPECIFICATION Spec
CONSTANTS
  Users = {u1, u2}
  Ops = {o1, o2, o3, o4}
  Amounts <- Charges
  InitialPoint = 2
  MaxPoint = 3
  None = None
SYMMETRY OpSymmetry
INVARIANTS
  TypeOK
  OneWinnerPerVersion
  ConflictHasWinner
PROPERTIES
  ActsAsLedger
CHECK_DEADLOCK FALSE
