CONSTANTS
    Methods <- MCMethodsNone
    Values <- MCValues
    HashLen <- MCHashLen
    DataKinds = {"Buffer", "Blob"}
    MaxPushes = 3
INIT Init
NEXT Next
CHECK_DEADLOCK FALSE
INVARIANTS
    HandleMsgDelivers
