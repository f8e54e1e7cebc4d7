SPECIFICATION FairSpec
CONSTANTS
  Users = {u1}
  Tokens = {t1, t2}
  Concerts = {1, 2}
  BatchSize = 1
  Accesses = {g1, g2}
  Polls = {q1}
  MaxFaults = 1
  None = None
INVARIANTS
  TypeOK
  WaitsBeforeActive
  TokenIsSomewhere
  NoOvertaking
  NoRankHasLeft
PROPERTIES
  WaitingTokenIsActivated
  PassedTokenExpires
  UnknownIsGone
  FollowsLifecycle
CHECK_DEADLOCK FALSE
