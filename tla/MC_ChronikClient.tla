--------------------------- MODULE MC_ChronikClient ---------------------------
(* Small instances of ChronikClient for TLC.                               *)
EXTENDS ChronikClient

\* Scalars: the default and one other value of each kind; -1 makes int32 and
\* int64 write ten varint groups, 300 makes a two-group varint; 2 is a valid
\* enum value other than 0.  A hash is two bytes.
MCValues ==
    [bytes  |-> {<< >>, <<1, 2>>},
     string |-> {<< >>, <<104>>},
     bool   |-> BOOLEAN,
     int32  |-> {0, -1},
     enum   |-> {0, 2},
     uint32 |-> {0, 300},
     int64  |-> {0, -1},
     uint64 |-> {0, 300}]

MCHashLen == 2

\* The methods whose messages chronik.proto and chronik.ts agree on.
MCMethodsCompat == {"block", "blocks", "tx", "validateUtxos", "history"}
MCMethodsUtxos == {"utxos"}
MCMethodsTx == {"tx"}
MCMethodsNone == {}
=============================================================================
