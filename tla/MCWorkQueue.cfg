CONSTANTS
    Keys <- MCKeys
    Workers = {w1, w2}
    MaxVersion = 2
    MaxRequeues = 5
    NoKey = NoKey
    Handled = TRUE
SPECIFICATION FairSpec
INVARIANT TypeOK
INVARIANT AtMostOneInFlight
INVARIANT UnreadVersionPending
INVARIANT FailedKeyRetried
PROPERTY NoLostUpdate
PROPERTY WorkersExit
CHECK_DEADLOCK FALSE
