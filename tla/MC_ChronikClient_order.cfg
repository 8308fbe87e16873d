CONSTANTS
    Methods <- MCMethodsNone
    Values <- MCValues
    HashLen <- MCHashLen
    DataKinds = {"Blob"}
    MaxPushes = 3
INIT Init
NEXT Next
CHECK_DEADLOCK FALSE
INVARIANTS
    DeliveredInOrder
