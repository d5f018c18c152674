\* The work queue of MCWorkQueue.cfg checked against the abstract KeyedSync:
\* two keys, two workers, two versions, the code's budget of 5 requeues.
CONSTANTS
    Keys <- MCKeys
    Workers = {w1, w2}
    MaxVersion = 2
    MaxRequeues = 5
    NoKey = NoKey
    Handled = TRUE
SPECIFICATION FairSpec
PROPERTY ImplementsKeyedSync
PROPERTY KeyedSyncServed
CHECK_DEADLOCK FALSE
