CONSTANTS
    Methods <- MCMethodsTx
    Values <- MCValues
    HashLen <- MCHashLen
    DataKinds = {"Buffer"}
    MaxPushes = 0
INIT Init
NEXT Next
INVARIANTS
    TxidDisplayConsistent
