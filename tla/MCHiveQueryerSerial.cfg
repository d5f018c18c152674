\* One caller at a time, as spec section 4.2 requires of callers; two
\* breaks, three connections, maxRetries 3.
CONSTANTS
    Callers = {c1}
    NoCaller = NoCaller
    MaxConns = 3
    MaxBreaks = 2
    MaxWaitTicks = 1
    MaxRetries = 3
SPECIFICATION FairSpec
INVARIANT OnlyBrokenConnectionsClosed
