\* Liveness of subscriptions under the callback fairness of Spec: two
\* scripts, up to three sockets, one event, three application calls.
CONSTANTS
    s1 = s1
    s2 = s2
    Scripts <- MCScripts
    MaxConns = 3
    MaxEvents = 1
    MaxCalls = 3
SPECIFICATION Spec
INVARIANT TypeOK
PROPERTY SubscriptionEventuallyActive
CHECK_DEADLOCK FALSE
