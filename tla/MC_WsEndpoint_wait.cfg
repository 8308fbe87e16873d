\* waitForOpen() after a failed first connection attempt: two scripts, two
\* sockets, no events, two application calls.
CONSTANTS
    s1 = s1
    s2 = s2
    Scripts <- MCScripts
    MaxConns = 2
    MaxEvents = 0
    MaxCalls = 2
SPECIFICATION Spec
PROPERTY WaitForOpenReturns
CHECK_DEADLOCK FALSE
