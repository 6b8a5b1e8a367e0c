SPECIFICATION Spec
CONSTANTS
  addr4 = addr4
  addr6 = addr6
  mapped6 = mapped6
  hostA = hostA
  user1 = user1
  user2 = user2
  fld = fld
  fldLate = fldLate
  fldExtra = fldExtra
  mth = mth
  num1 = num1
  val1 = val1
  val2 = val2
  pubA = pubA
  stubA = stubA
  allowA = allowA
  privA = privA
  slotA = slotA
  V4 = {addr4}
  V6 = {addr6}
  Mapped = {mapped6}
  Names = {hostA}
  Nothing = Nothing
  MaxAddrs = 2
  MaxHeard = 2
  Boundaries = {0, 4, 8, 16, 20, 24, 32, 128, 132}
  Callers = {user1, user2}
  Plans <- MCPlans
  V4_TEST_HOSTS <- MCV4
  V6_TEST_HOSTS <- MCV6
  NET_CHECK_HOST_COUNT = 2
  NET_CHECK_TIMEOUT = 1
  Fields = {fld}
  LateFields = {fldLate}
  Extras = {fldExtra}
  Methods = {mth}
  Numbers = {num1}
  Vals = {val1, val2}
  Default = Default
  Absent = Absent
  Public = {pubA}
  Stubborn = {stubA}
  Allowed = {allowA}
  Private = {privA}
  Slots = {slotA}
  MaxClasses = 3
  MaxAppends = 2
CHECK_DEADLOCK FALSE
INVARIANTS AnswersFit VerdictJustified ReadsLastWrite CopiesApart
