\* Two concurrent callers (e.g. the two ReportDataSource workers), three
\* connections, one network break, the code's maxRetries of 3.
CONSTANTS
    Callers = {c1, c2}
    NoCaller = NoCaller
    MaxConns = 3
    MaxBreaks = 1
    MaxWaitTicks = 1
    MaxRetries = 3
SPECIFICATION FairSpec
INVARIANT TypeOK
INVARIANT NoLeakedConnection
PROPERTY QueryReturns
