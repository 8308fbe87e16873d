----------------------------- MODULE ChronikSchema -----------------------------
(***************************************************************************)
(* The two schemas of chronik's client-facing wire format.                 *)
(*                                                                         *)
(* Ts*: the messages of src/ts/chronik-client/chronik.ts.  Each one stands *)
(* for the generated base object, encode() and decode() of the message:    *)
(* the field numbers, the writer and reader call of each field (int32,     *)
(* uint32, int64, uint64, bool, bytes, string; enums are written with      *)
(* int32 and read "as any"), and the sub-message codec a field forks to.   *)
(* Encode and Decode of ProtoWire give them their behaviour.               *)
(*                                                                         *)
(* Proto*: the messages of src/chronik-http/proto/chronik.proto, the       *)
(* schema the server encodes with (prost).  Field names are the proto's.  *)
(***************************************************************************)
EXTENDS ProtoWire

\* A scalar field, and a sub-message field of message type sub.
F(num, name, kind) == [num |-> num, name |-> name, kind |-> kind, sub |-> ""]
M(num, name, kind, sub) == [num |-> num, name |-> name, kind |-> kind, sub |-> sub]

-----------------------------------------------------------------------------
(* chronik.ts                                                              *)

TsValidateUtxoRequest ==
    << M(1, "outpoints", "rep", "OutPoint") >>

TsValidateUtxoResponse ==
    << M(1, "utxoStates", "rep", "UtxoState") >>

TsBroadcastTxRequest ==
    << F(1, "rawTx", "bytes"),
       F(2, "skipSlpCheck", "bool") >>

TsBroadcastTxResponse ==
    << F(1, "txid", "bytes") >>

TsTx ==
    << F(1, "txid", "bytes"),
       F(2, "version", "int32"),
       M(3, "inputs", "rep", "TxInput"),
       M(4, "outputs", "rep", "TxOutput"),
       F(5, "lockTime", "uint32"),
       M(6, "slpTxData", "msg", "SlpTxData"),
       F(7, "slpErrorMsg", "string"),
       M(8, "block", "msg", "BlockMetadata"),
       F(9, "timeFirstSeen", "int64"),
       F(10, "network", "enum") >>

TsUtxo ==
    << M(1, "outpoint", "msg", "OutPoint"),
       F(2, "blockHeight", "int32"),
       F(3, "isCoinbase", "bool"),
       F(5, "value", "int64"),
       M(6, "slpMeta", "msg", "SlpMeta"),
       M(7, "slpToken", "msg", "SlpToken"),
       F(9, "network", "enum") >>

TsBlockInfo ==
    << F(1, "hash", "bytes"),
       F(2, "prevHash", "bytes"),
       F(3, "height", "int32"),
       F(4, "nBits", "uint32"),
       F(5, "timestamp", "int64"),
       F(6, "blockSize", "uint64"),
       F(7, "numTxs", "uint64"),
       F(8, "numInputs", "uint64"),
       F(9, "numOutputs", "uint64"),
       F(10, "sumInputSats", "int64"),
       F(11, "sumCoinbaseOutputSats", "int64"),
       F(12, "sumNormalOutputSats", "int64"),
       F(13, "sumBurnedSats", "int64") >>

TsBlock ==
    << M(1, "blockInfo", "msg", "BlockInfo"),
       M(2, "txs", "rep", "Tx") >>

TsScriptUtxos ==
    << F(1, "outputScript", "bytes"),
       M(2, "utxos", "rep", "Utxo") >>

TsTxHistoryPage ==
    << M(1, "txs", "rep", "Tx"),
       F(2, "numPages", "uint32") >>

TsUtxos ==
    << M(1, "scriptUtxos", "rep", "ScriptUtxos") >>

TsBlocks ==
    << M(1, "blocks", "rep", "BlockInfo") >>

TsSlpTxData ==
    << M(1, "slpMeta", "msg", "SlpMeta"),
       M(2, "genesisInfo", "msg", "SlpGenesisInfo") >>

TsSlpMeta ==
    << F(1, "tokenType", "enum"),
       F(2, "txType", "enum"),
       F(3, "tokenId", "bytes"),
       F(4, "groupTokenId", "bytes") >>

TsTxInput ==
    << M(1, "prevOut", "msg", "OutPoint"),
       F(2, "inputScript", "bytes"),
       F(3, "outputScript", "bytes"),
       F(4, "value", "int64"),
       F(5, "sequenceNo", "uint32"),
       M(6, "slpBurn", "msg", "SlpBurn"),
       M(7, "slpToken", "msg", "SlpToken") >>

\* Mutant: TxOutput.decode reading value with reader.uint64().
TsTxOutputValueU64 ==
    << F(1, "value", "uint64"),
       F(2, "outputScript", "bytes"),
       M(3, "slpToken", "msg", "SlpToken"),
       M(4, "spentBy", "msg", "OutPoint") >>

TsTxOutput ==
    << F(1, "value", "int64"),
       F(2, "outputScript", "bytes"),
       M(3, "slpToken", "msg", "SlpToken"),
       M(4, "spentBy", "msg", "OutPoint") >>

TsBlockMetadata ==
    << F(1, "height", "int32"),
       F(2, "hash", "bytes"),
       F(3, "timestamp", "int64") >>

TsOutPoint ==
    << F(1, "txid", "bytes"),
       F(2, "outIdx", "uint32") >>

TsSlpToken ==
    << F(1, "amount", "uint64"),
       F(2, "isMintBaton", "bool") >>

TsSlpBurn ==
    << M(1, "token", "msg", "SlpToken"),
       F(2, "tokenId", "bytes") >>

TsSlpGenesisInfo ==
    << F(1, "tokenTicker", "bytes"),
       F(2, "tokenName", "bytes"),
       F(3, "tokenDocumentUrl", "bytes"),
       F(4, "tokenDocumentHash", "bytes"),
       F(5, "decimals", "uint32") >>

TsUtxoState ==
    << F(1, "height", "int32"),
       F(2, "isConfirmed", "bool"),
       F(3, "state", "enum") >>

TsSubscription ==
    << F(1, "scriptType", "string"),
       F(2, "payload", "bytes"),
       F(3, "isSubscribe", "bool") >>

TsSubscribeMsg ==
    << M(1, "error", "msg", "Error"),
       M(2, "AddedToMempool", "msg", "MsgAddedToMempool"),
       M(3, "RemovedFromMempool", "msg", "MsgRemovedFromMempool"),
       M(4, "Confirmed", "msg", "MsgConfirmed"),
       M(5, "Reorg", "msg", "MsgReorg") >>

TsMsgAddedToMempool ==
    << F(1, "txid", "bytes") >>

TsMsgRemovedFromMempool ==
    << F(1, "txid", "bytes") >>

TsMsgConfirmed ==
    << F(1, "txid", "bytes") >>

TsMsgReorg ==
    << F(1, "txid", "bytes") >>

TsError ==
    << F(1, "errorCode", "string"),
       F(2, "msg", "string"),
       F(3, "isUserError", "bool") >>

TsSchema ==
    [ValidateUtxoRequest |-> TsValidateUtxoRequest,
     ValidateUtxoResponse |-> TsValidateUtxoResponse,
     BroadcastTxRequest |-> TsBroadcastTxRequest,
     BroadcastTxResponse |-> TsBroadcastTxResponse,
     Tx |-> TsTx,
     Utxo |-> TsUtxo,
     BlockInfo |-> TsBlockInfo,
     Block |-> TsBlock,
     ScriptUtxos |-> TsScriptUtxos,
     TxHistoryPage |-> TsTxHistoryPage,
     Utxos |-> TsUtxos,
     Blocks |-> TsBlocks,
     SlpTxData |-> TsSlpTxData,
     SlpMeta |-> TsSlpMeta,
     TxInput |-> TsTxInput,
     TxOutput |-> TsTxOutput,
     BlockMetadata |-> TsBlockMetadata,
     OutPoint |-> TsOutPoint,
     SlpToken |-> TsSlpToken,
     SlpBurn |-> TsSlpBurn,
     SlpGenesisInfo |-> TsSlpGenesisInfo,
     UtxoState |-> TsUtxoState,
     Subscription |-> TsSubscription,
     SubscribeMsg |-> TsSubscribeMsg,
     MsgAddedToMempool |-> TsMsgAddedToMempool,
     MsgRemovedFromMempool |-> TsMsgRemovedFromMempool,
     MsgConfirmed |-> TsMsgConfirmed,
     MsgReorg |-> TsMsgReorg,
     Error |-> TsError]

-----------------------------------------------------------------------------
(* chronik.proto                                                           *)

ProtoValidateUtxoRequest ==
    << M(1, "outpoints", "rep", "OutPoint") >>

ProtoValidateUtxoResponse ==
    << M(1, "utxo_states", "rep", "UtxoState") >>

ProtoTx ==
    << F(1, "txid", "bytes"),
       F(2, "version", "int32"),
       M(3, "inputs", "rep", "TxInput"),
       M(4, "outputs", "rep", "TxOutput"),
       F(5, "lock_time", "uint32"),
       M(6, "slp_tx_data", "msg", "SlpTxData"),
       F(7, "slp_error_msg", "string"),
       M(8, "block", "msg", "BlockMetadata"),
       F(9, "time_first_seen", "int64"),
       F(10, "network", "enum") >>

ProtoUtxo ==
    << M(1, "outpoint", "msg", "OutPoint"),
       M(2, "block", "msg", "BlockMetadata"),
       F(3, "is_coinbase", "bool"),
       F(4, "output_script", "bytes"),
       F(5, "value", "int64"),
       M(6, "slp_meta", "msg", "SlpMeta"),
       M(7, "slp_token", "msg", "SlpToken"),
       F(8, "time_first_seen", "int64"),
       F(9, "network", "enum") >>

ProtoTxHistoryPage ==
    << M(1, "txs", "rep", "Tx"),
       F(2, "num_pages", "uint32") >>

ProtoUtxos ==
    << M(1, "utxos", "rep", "Utxo") >>

ProtoSlpTxData ==
    << M(1, "slp_meta", "msg", "SlpMeta"),
       M(2, "genesis_info", "msg", "SlpGenesisInfo") >>

ProtoSlpMeta ==
    << F(1, "token_type", "enum"),
       F(2, "tx_type", "enum"),
       F(3, "token_id", "bytes"),
       F(4, "group_token_id", "bytes") >>

ProtoTxInput ==
    << M(1, "prev_out", "msg", "OutPoint"),
       F(2, "input_script", "bytes"),
       F(3, "output_script", "bytes"),
       F(4, "value", "int64"),
       F(5, "sequence_no", "uint32"),
       M(6, "slp_burn", "msg", "SlpBurn"),
       M(7, "slp_token", "msg", "SlpToken") >>

ProtoTxOutput ==
    << F(1, "value", "int64"),
       F(2, "output_script", "bytes"),
       M(3, "slp_token", "msg", "SlpToken"),
       M(4, "spent_by", "msg", "OutPoint") >>

ProtoBlockMetadata ==
    << F(1, "height", "int32"),
       F(2, "hash", "bytes"),
       F(3, "timestamp", "int64") >>

ProtoOutPoint ==
    << F(1, "txid", "bytes"),
       F(2, "out_idx", "uint32") >>

ProtoSlpToken ==
    << F(1, "amount", "uint64"),
       F(2, "is_mint_baton", "bool") >>

ProtoSlpBurn ==
    << M(1, "token", "msg", "SlpToken"),
       F(2, "token_id", "bytes") >>

ProtoSlpGenesisInfo ==
    << F(1, "token_ticker", "bytes"),
       F(2, "token_name", "bytes"),
       F(3, "token_document_url", "bytes"),
       F(4, "token_document_hash", "bytes"),
       F(5, "decimals", "uint32") >>

ProtoUtxoState ==
    << F(1, "height", "int32"),
       F(2, "is_confirmed", "bool"),
       F(3, "state", "enum") >>

ProtoError ==
    << F(1, "error_code", "string"),
       F(2, "msg", "string"),
       F(3, "is_user_error", "bool") >>

ProtoSchema ==
    [ValidateUtxoRequest |-> ProtoValidateUtxoRequest,
     ValidateUtxoResponse |-> ProtoValidateUtxoResponse,
     Tx |-> ProtoTx,
     Utxo |-> ProtoUtxo,
     TxHistoryPage |-> ProtoTxHistoryPage,
     Utxos |-> ProtoUtxos,
     SlpTxData |-> ProtoSlpTxData,
     SlpMeta |-> ProtoSlpMeta,
     TxInput |-> ProtoTxInput,
     TxOutput |-> ProtoTxOutput,
     BlockMetadata |-> ProtoBlockMetadata,
     OutPoint |-> ProtoOutPoint,
     SlpToken |-> ProtoSlpToken,
     SlpBurn |-> ProtoSlpBurn,
     SlpGenesisInfo |-> ProtoSlpGenesisInfo,
     UtxoState |-> ProtoUtxoState,
     Error |-> ProtoError]

=============================================================================
