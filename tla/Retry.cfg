SPECIFICATION FairRetrySpec
CONSTANTS
    c1 = c1
    c2 = c2
    Retriers <- MCCallers
    MaxRetries = 2
    MaxIgnore = 1
    Unlimited = Unlimited
INVARIANTS RetryTypeOK CallBound ExactRetries
PROPERTIES CallsEnd
