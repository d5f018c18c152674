\* One caller: the connect loop that retries after the stop signal
\* needs no interleaving.  Three connections, maxRetries 3.
CONSTANTS
    Callers = {c1}
    NoCaller = NoCaller
    MaxConns = 3
    MaxBreaks = 1
    MaxWaitTicks = 1
    MaxRetries = 3
SPECIFICATION Spec
PROPERTY NoConnectRetryAfterStop
