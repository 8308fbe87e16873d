\* The endpoint refines the abstract channel: two scripts, up to three
\* sockets (two connection failures), two events (so two can be queued at
\* once), four application calls.
CONSTANTS
    s1 = s1
    s2 = s2
    Scripts <- MCScripts
    MaxConns = 3
    MaxEvents = 2
    MaxCalls = 4
INIT Init
NEXT Next
INVARIANT DeliveryOrder
PROPERTY ChannelSpec
\* With the calls and events used up and every callback run, the client
\* sits idle on its open socket: a real terminal state.
CHECK_DEADLOCK FALSE
