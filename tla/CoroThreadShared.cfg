SPECIFICATION Spec
CONSTANTS
    c1 = c1
    c2 = c2
    c3 = c3
    Calls = {c1, c2}
    Polls = 1
    MaxInterrupts = 0
    None = None
INVARIANTS ReportsOwnCoroutine
CHECK_DEADLOCK FALSE
