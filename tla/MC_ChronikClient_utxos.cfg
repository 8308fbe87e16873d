CONSTANTS
    Methods <- MCMethodsUtxos
    Values <- MCValues
    HashLen <- MCHashLen
    DataKinds = {"Buffer"}
    MaxPushes = 0
INIT Init
NEXT Next
INVARIANTS
    WireCompatible
