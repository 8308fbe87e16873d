\* Safety of the subscription channel: two scripts, up to three sockets
\* (two connection failures), two events, five application calls.
CONSTANTS
    s1 = s1
    s2 = s2
    Scripts <- MCScripts
    MaxConns = 3
    MaxEvents = 2
    MaxCalls = 5
SYMMETRY MCSymmetry
INIT Init
NEXT Next
INVARIANT SubsAgree Agreement
PROPERTY ClosedIsFinal WaitHangPermanent
\* With the calls and events used up and every callback run, the client
\* sits idle on its open socket: a real terminal state.
CHECK_DEADLOCK FALSE
