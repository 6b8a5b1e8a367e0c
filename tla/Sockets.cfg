SPECIFICATION Spec
CONSTANTS
  u1 = u1
  u2 = u2
  Users = {u1, u2}
  s1 = s1
  s2 = s2
  s3 = s3
  s4 = s4
  s5 = s5
  s6 = s6
  Socks = {s1, s2, s3, s4, s5, s6}
  Nothing = Nothing
  Setups <- MCSetups
  Chunks = 2
  MaxChunks = 2
  MaxRecursion = 3
INVARIANTS TypeOK NoSocketLost LeftBlocksClosed SendsBounded
PROPERTIES CallsEnd
