SPECIFICATION Spec
CONSTANTS
  u1 = u1
  u2 = u2
  k1 = k1
  k2 = k2
  Nothing = Nothing
  Users <- MCUsers
  Keys <- MCKeys
  Setups <- MCSetups
  Timeouts <- MCTimeouts
  MaxNow = 3
  PurgeEvery = 1
INVARIANTS TypeOK
PROPERTIES ImplementsExpiringCache FreshLostOnlyToRemovers
CHECK_DEADLOCK FALSE
