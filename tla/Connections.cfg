SPECIFICATION Spec
CONSTANTS
  u1 = u1
  u2 = u2
  t1 = t1
  t2 = t2
  Nothing = Nothing
  Users <- MCUsers
  Threads <- MCThreads
  Setups <- MCSetups
  MaxFaults = 1
  MaxAdapters = 6
  MaxLayers = 1
INVARIANTS TypeOK NothingLost StoredIsOpen KeepsItsOwn LoneNeverFails LayersFitBlocks LeftBlocksHoldNothing
CHECK_DEADLOCK FALSE
