---------------------------- MODULE ChronikClient ----------------------------
(***************************************************************************)
(* The wire boundary of the chronik client, src/ts/chronik-client/index.ts *)
(* on top of the codec of chronik.ts: the query methods of ChronikClient   *)
(* and ScriptEndpoint (block, blocks, tx, validateUtxos, history, utxos)   *)
(* with _get/_post, ensureResponseErrorThrown and the convertTo* functions *)
(* that turn decoded messages into client objects; and the decode step of *)
(* WsEndpoint._handleMsg.                                                  *)
(*                                                                         *)
(* A query method is two steps of the event loop: the call sends the      *)
(* request and awaits axios; the continuation decodes the response and    *)
(* converts it, resolving or rejecting the returned promise.  The server   *)
(* (not in src/) answers as spec.md 4.4 and 6 say, encoding with the       *)
(* schema of chronik.proto (ServerSchema), or with an Error body and a    *)
(* non-200 status.  The request's path (URL formatting) is left out: the   *)
(* server's answer is any message of the response type.                   *)
(*                                                                         *)
(* The hex helpers of ./hex are not in src/; module ChronikHex models     *)
(* them from spec.md 6.                                                    *)
(***************************************************************************)
EXTENDS ChronikSchema, ChronikDispatch

CONSTANTS
    Methods,     \* the query methods the application calls
    Values,      \* Values[kind]: the scalar values a server message uses
    HashLen      \* the byte length of a hash (32 in the code)

ASSUME ClientAssumption ==
    /\ Methods \subseteq {"block", "blocks", "tx", "validateUtxos",
                          "history", "utxos"}
    /\ HashLen \in Nat

-----------------------------------------------------------------------------
(* TextDecoder (spec_modelled).                                            *)

\* TextDecoder.decode: UTF-8; a byte above 127 that starts no valid
\* sequence decodes to U+FFFD (the model's byte values start none).
Utf8Decode(b) == [i \in DOMAIN b |-> IF b[i] < 128 THEN b[i] ELSE 65533]

-----------------------------------------------------------------------------
(* Conversions (index.ts).  XOk(m) holds when convertToX(m) returns, that  *)
(* is when none of its checks throws; ConvertToX(m) is what it returns.   *)
(* An optional value is << >> (undefined) or <<v>>.                        *)

MapSeq(s, Op(_)) == [i \in DOMAIN s |-> Op(s[i])]

IfSet(o, Op(_)) == IF o = << >> THEN << >> ELSE <<Op(o[1])>>

\* The names of the enum values, from 0 (switch statements of index.ts).
NetworkNames == <<"BCH", "XEC", "XPI", "XRG">>
TokenTypeNames == <<"FUNGIBLE", "NFT1_GROUP", "NFT1_CHILD", "UNKNOWN_TOKEN_TYPE">>
TxTypeNames == <<"GENESIS", "SEND", "MINT", "UNKNOWN_TX_TYPE">>
VariantNames == <<"UNSPENT", "SPENT", "NO_SUCH_TX", "NO_SUCH_OUTPUT">>

\* A switch over an enum: the case's name; the default throws.
EnumOk(names, v) == v \in 0..(Len(names) - 1)
EnumName(names, v) == names[v + 1]

NetworkOk(n) == EnumOk(NetworkNames, n)
ConvertToNetwork(n) == EnumName(NetworkNames, n)

VariantOk(v) == EnumOk(VariantNames, v)
ConvertToUtxoStateVariant(v) == EnumName(VariantNames, v)

ConvertToSlpToken(t) == [amount |-> t.amount, isMintBaton |-> t.isMintBaton]

SlpBurnOk(b) == b.token # << >>
ConvertToSlpBurn(b) ==
    [token |-> ConvertToSlpToken(b.token[1]), tokenId |-> ToHex(b.tokenId)]

SlpMetaOk(m) == EnumOk(TokenTypeNames, m.tokenType) /\ EnumOk(TxTypeNames, m.txType)
ConvertToSlpMeta(m) ==
    [tokenType    |-> EnumName(TokenTypeNames, m.tokenType),
     txType       |-> EnumName(TxTypeNames, m.txType),
     tokenId      |-> ToHex(m.tokenId),
     groupTokenId |-> IF Len(m.groupTokenId) = HashLen
                      THEN <<ToHex(m.groupTokenId)>> ELSE << >>]

ConvertToSlpGenesisInfo(i) ==
    [tokenTicker       |-> Utf8Decode(i.tokenTicker),
     tokenName         |-> Utf8Decode(i.tokenName),
     tokenDocumentUrl  |-> Utf8Decode(i.tokenDocumentUrl),
     tokenDocumentHash |-> ToHex(i.tokenDocumentHash),
     decimals          |-> i.decimals]

SlpTxDataOk(d) == d.slpMeta # << >> /\ SlpMetaOk(d.slpMeta[1])
ConvertToSlpTxData(d) ==
    [slpMeta     |-> ConvertToSlpMeta(d.slpMeta[1]),
     genesisInfo |-> IfSet(d.genesisInfo, ConvertToSlpGenesisInfo)]

ConvertToBlockMeta(b) ==
    [height |-> b.height, hash |-> ToHexRev(b.hash), timestamp |-> b.timestamp]

\* {...block, hash: toHexRev(block.hash), prevHash: toHexRev(block.prevHash)}
ConvertToBlockInfo(b) ==
    [b EXCEPT !.hash = ToHexRev(b.hash), !.prevHash = ToHexRev(b.prevHash)]

TxInputOk(i) ==
    /\ i.prevOut # << >>
    /\ i.slpBurn # << >> => SlpBurnOk(i.slpBurn[1])
ConvertToTxInput(i) ==
    [prevOut      |-> [txid |-> ToHexRev(i.prevOut[1].txid),
                       outIdx |-> i.prevOut[1].outIdx],
     inputScript  |-> ToHex(i.inputScript),
     outputScript |-> IF Len(i.outputScript) > 0
                      THEN <<ToHex(i.outputScript)>> ELSE << >>,
     value        |-> i.value,
     sequenceNo   |-> i.sequenceNo,
     slpBurn      |-> IfSet(i.slpBurn, ConvertToSlpBurn),
     slpToken     |-> IfSet(i.slpToken, ConvertToSlpToken)]

ConvertToTxOutput(o) ==
    [value        |-> o.value,
     outputScript |-> ToHex(o.outputScript),
     slpToken     |-> IfSet(o.slpToken, ConvertToSlpToken),
     spentBy      |-> IfSet(o.spentBy, LAMBDA p : [txid |-> ToHex(p.txid),
                                                   outIdx |-> p.outIdx])]

TxOk(tx) ==
    /\ \A i \in DOMAIN tx.inputs : TxInputOk(tx.inputs[i])
    /\ tx.slpTxData # << >> => SlpTxDataOk(tx.slpTxData[1])
    /\ NetworkOk(tx.network)
ConvertToTx(tx) ==
    [txid          |-> ToHexRev(tx.txid),
     version       |-> tx.version,
     inputs        |-> MapSeq(tx.inputs, ConvertToTxInput),
     outputs       |-> MapSeq(tx.outputs, ConvertToTxOutput),
     lockTime      |-> tx.lockTime,
     slpTxData     |-> IfSet(tx.slpTxData, ConvertToSlpTxData),
     slpErrorMsg   |-> IF Len(tx.slpErrorMsg) # 0 THEN <<tx.slpErrorMsg>> ELSE << >>,
     block         |-> IfSet(tx.block, ConvertToBlockMeta),
     timeFirstSeen |-> tx.timeFirstSeen,
     network       |-> ConvertToNetwork(tx.network)]

UtxoOk(u) ==
    /\ u.outpoint # << >>
    /\ u.slpMeta # << >> => SlpMetaOk(u.slpMeta[1])
    /\ NetworkOk(u.network)
ConvertToUtxo(u) ==
    [outpoint    |-> [txid |-> ToHexRev(u.outpoint[1].txid),
                      outIdx |-> u.outpoint[1].outIdx],
     blockHeight |-> u.blockHeight,
     isCoinbase  |-> u.isCoinbase,
     value       |-> u.value,
     slpMeta     |-> IfSet(u.slpMeta, ConvertToSlpMeta),
     slpToken    |-> IfSet(u.slpToken, ConvertToSlpToken),
     network     |-> ConvertToNetwork(u.network)]

BlockOk(b) ==
    /\ b.blockInfo # << >>
    /\ \A i \in DOMAIN b.txs : TxOk(b.txs[i])
ConvertToBlock(b) ==
    [blockInfo |-> ConvertToBlockInfo(b.blockInfo[1]),
     txs       |-> MapSeq(b.txs, ConvertToTx)]


-----------------------------------------------------------------------------
(* The query methods (index.ts 30-120): what each does with the decoded    *)
(* response.  XResult(m) is the value the promise resolves to and XOk(m)   *)
(* holds when computing it throws nothing.                                 *)

BlocksResult(m) == MapSeq(m.blocks, ConvertToBlockInfo)

ValidateUtxosOk(m) == \A i \in DOMAIN m.utxoStates : VariantOk(m.utxoStates[i].state)
ValidateUtxosResult(m) ==
    MapSeq(m.utxoStates, LAMBDA st : [height      |-> st.height,
                                      isConfirmed |-> st.isConfirmed,
                                      state       |-> ConvertToUtxoStateVariant(st.state)])

\* The request body: the display-order txids turned back to wire order.
ValidateUtxosRequest(outpoints) ==
    [outpoints |-> MapSeq(outpoints, LAMBDA op : [txid   |-> FromHexRev(op.txid),
                                                  outIdx |-> op.outIdx])]

HistoryOk(m) == \A i \in DOMAIN m.txs : TxOk(m.txs[i])
HistoryResult(m) == [txs |-> MapSeq(m.txs, ConvertToTx), numPages |-> m.numPages]

UtxosOk(m) == \A i \in DOMAIN m.scriptUtxos :
                 \A j \in DOMAIN m.scriptUtxos[i].utxos : UtxoOk(m.scriptUtxos[i].utxos[j])
UtxosResult(m) ==
    MapSeq(m.scriptUtxos, LAMBDA su : [outputScript |-> ToHex(su.outputScript),
                                       utxos        |-> MapSeq(su.utxos, ConvertToUtxo)])

\* The message type proto.X.decode reads for each method.
RespType == [block |-> "Block", blocks |-> "Blocks", tx |-> "Tx",
             validateUtxos |-> "ValidateUtxoResponse", history |-> "TxHistoryPage",
             utxos |-> "Utxos"]

MethodOk(meth, m) ==
    CASE meth = "block"         -> BlockOk(m)
      [] meth = "blocks"        -> TRUE
      [] meth = "tx"            -> TxOk(m)
      [] meth = "validateUtxos" -> ValidateUtxosOk(m)
      [] meth = "history"       -> HistoryOk(m)
      [] meth = "utxos"         -> UtxosOk(m)

MethodResult(meth, m) ==
    CASE meth = "block"         -> ConvertToBlock(m)
      [] meth = "blocks"        -> BlocksResult(m)
      [] meth = "tx"            -> ConvertToTx(m)
      [] meth = "validateUtxos" -> ValidateUtxosResult(m)
      [] meth = "history"       -> HistoryResult(m)
      [] meth = "utxos"         -> UtxosResult(m)

\* The continuation after `await _get/_post`: ensureResponseErrorThrown
\* decodes an Error body on a non-200 status and throws (its own decode may
\* throw first); otherwise proto.X.decode and the conversion, either of which
\* may throw.  A rejection carries the decoded error, or nothing.
Settle(meth, st, bytes) ==
    IF st # 200
    THEN LET e == Decode(TsSchema, "Error", bytes, FALSE)
         IN  [kind |-> "rejected",
              error |-> IF e.ok THEN <<[errorCode |-> e.msg.errorCode, msg |-> e.msg.msg]>>
                                ELSE << >>]
    ELSE LET d == Decode(TsSchema, RespType[meth], bytes, FALSE)
         IN  IF d.ok /\ MethodOk(meth, d.msg)
             THEN [kind |-> "resolved", decoded |-> d.msg, val |-> MethodResult(meth, d.msg)]
             ELSE [kind |-> "rejected", error |-> << >>]

-----------------------------------------------------------------------------
(* The server (spec_modelled: not in src/).  It encodes with chronik.proto *)
(* where that file defines the message, and otherwise with the shape       *)
(* spec.md 6 gives, which is chronik.ts's.                                 *)

ServerSchema == [t \in DOMAIN TsSchema |->
                    IF t \in DOMAIN ProtoSchema THEN ProtoSchema[t] ELSE TsSchema[t]]

\* The value of a scalar kind that is not the default.
FullOf(kind) == CHOOSE v \in Values[kind] : v # DefaultOf(kind)

\* A message with every field set to a non-default value, recursively.
RECURSIVE FullMsg(_, _)
FullMsg(S, t) ==
    [n \in FieldNames(S, t) |->
        LET f == FieldNamed(S, t, n)
        IN  IF f.kind \in ScalarKinds THEN FullOf(f.kind) ELSE <<FullMsg(S, f.sub)>>]

\* The values a server gives a field: each scalar of Values; an optional
\* sub-message absent, empty or full; a repeated one empty or of one full entry.
FieldValues(S, f) ==
    CASE f.kind \in ScalarKinds -> Values[f.kind]
      [] f.kind = "msg" -> {<< >>, <<DefaultMsg(S, f.sub)>>, <<FullMsg(S, f.sub)>>}
      [] f.kind = "rep" -> {<< >>, <<FullMsg(S, f.sub)>>}

RECURSIVE Rows(_, _, _)
Rows(S, t, i) ==
    IF i > Len(S[t]) THEN {<< >>}
    ELSE {<<c>> \o r : c \in FieldValues(S, S[t][i]), r \in Rows(S, t, i + 1)}

\* The messages of type t the server may send.
Messages(S, t) == {[n \in FieldNames(S, t) |->
                      row[CHOOSE i \in DOMAIN S[t] : S[t][i].name = n]] : row \in Rows(S, t, 1)}

\* The display-order outpoints an application passes to validateUtxos: txids
\* it was given by the client, so toHexRev of wire bytes.
OutPointArgs == {<< >>} \cup
                {<<[txid |-> ToHexRev(b), outIdx |-> i]>> : b \in Values["bytes"],
                                                           i \in Values["uint32"]}

\* The answers to a request: prost decodes a POST body and answers one
\* UtxoState per outpoint; a body it cannot decode gets only an Error.
Answers(meth, reqBytes) ==
    IF meth # "validateUtxos" THEN Messages(ServerSchema, RespType[meth])
    ELSE LET r == Decode(ProtoSchema, "ValidateUtxoRequest", reqBytes, TRUE)
         IN  IF ~r.ok THEN {}
             ELSE {[utxo_states |-> s] :
                     s \in [1..Len(r.msg.outpoints) -> Messages(ServerSchema, "UtxoState")]}

-----------------------------------------------------------------------------
(* WsEndpoint._handleMsg (index.ts 202-237) on the frames the server       *)
(* pushes: a SubscribeMsg with one of its members set (spec.md 6).         *)


ServerFrames ==
    UNION {{[DefaultMsg(TsSchema, "SubscribeMsg") EXCEPT ![k] = <<x>>] :
               x \in Messages(TsSchema, FieldNamed(TsSchema, "SubscribeMsg", k).sub)} :
             k \in SubscribeKinds}

\* Every frame the model's server pushes is a SubscribeMsg with exactly one
\* member set, to a decoded Error or a txid message: the messages for which
\* ChronikDispatchProofs proves that _handleMsg's if-chain calls onMessage
\* as spec.md 6 says.
ASSUME FramesHaveOneMember == \A m \in ServerFrames : IsPushedMsg(m)

\* The body of _handleMsg after the data is in hand: decode, then the chain
\* of `if (msg.X)` tests (DispatchMsg); a decode failure throws inside the
\* async handler (an unhandled rejection).
HandleMsg(data) ==
    LET d == Decode(TsSchema, "SubscribeMsg", data, FALSE)
    IN  IF ~d.ok THEN Thrown ELSE DispatchMsg(d.msg)

-----------------------------------------------------------------------------
CONSTANTS
    DataKinds,   \* what ws hands onmessage: "Buffer" (node) or "Blob" (browser)
    MaxPushes    \* the number of frames the server pushes

ASSUME WsAssumption ==
    /\ DataKinds \subseteq {"Buffer", "Blob"}
    /\ MaxPushes \in Nat

VARIABLES
    pending,    \* the method whose promise is outstanding or last settled
    request,    \* the ValidateUtxoRequest the call encoded
    status,     \* the HTTP status of the response; 0 before it arrives
    sent,       \* the message the server encoded into the response
    body,       \* response.data
    result,     \* how the method's promise settled
    dataKind,   \* what this socket hands onmessage, fixed by the runtime
    inbox,      \* frames pushed and not yet handed to onmessage, in order
    awaiting,   \* frames whose Blob arrayBuffer() is pending
    delivered,  \* what each handled frame did, in handling order
    pushes      \* the number of frames pushed

rest == <<pending, request, status, sent, body, result>>
ws == <<dataKind, inbox, awaiting, delivered, pushes>>
vars == <<rest, ws>>

Init ==
    /\ pending = "none"
    /\ request = << >>
    /\ status = 0
    /\ sent = << >>
    /\ body = << >>
    /\ result = [kind |-> "none"]
    /\ dataKind \in DataKinds
    /\ inbox = << >>
    /\ awaiting = {}
    /\ delivered = << >>
    /\ pushes = 0

\* A call of a query method: validateUtxos encodes its request; every method
\* then awaits the HTTP exchange.  One call is outstanding at a time (calls
\* share no state, so concurrent ones are independent).
Call(meth) ==
    /\ pending = "none" \/ result.kind # "none"
    /\ pending' = meth
    /\ IF meth = "validateUtxos"
       THEN \E ops \in OutPointArgs : request' = ValidateUtxosRequest(ops)
       ELSE request' = << >>
    /\ status' = 0
    /\ sent' = << >>
    /\ body' = << >>
    /\ result' = [kind |-> "none"]
    /\ UNCHANGED ws

\* The server answers: 200 with a message of the response type, or an error
\* status with an Error body.
Respond ==
    /\ pending # "none"
    /\ status = 0
    /\ \/ \E m \in Answers(pending, Encode(TsSchema, "ValidateUtxoRequest", request)) :
             /\ status' = 200
             /\ sent' = m
             /\ body' = Encode(ServerSchema, RespType[pending], m)
       \/ \E e \in Messages(ServerSchema, "Error") :
             /\ status' = 404
             /\ sent' = e
             /\ body' = Encode(ServerSchema, "Error", e)
    /\ UNCHANGED <<pending, request, result>>
    /\ UNCHANGED ws

\* The continuation of the method after the await.
Return ==
    /\ pending # "none"
    /\ status # 0
    /\ result.kind = "none"
    /\ result' = Settle(pending, status, body)
    /\ UNCHANGED <<pending, request, status, sent, body>>
    /\ UNCHANGED ws

\* The server pushes a frame on the open socket.
Push ==
    /\ pushes < MaxPushes
    /\ \E m \in ServerFrames : inbox' = Append(inbox, [n |-> pushes + 1, msg |-> m])
    /\ pushes' = pushes + 1
    /\ UNCHANGED <<dataKind, awaiting, delivered>>
    /\ UNCHANGED rest

\* onmessage runs _handleMsg on the next frame: a Buffer is handled to the
\* end at once; a Blob suspends at `await arrayBuffer()`.  A socket hands
\* onmessage one kind only (Buffers under node's ws, Blobs in a browser).
OnMessage ==
    /\ inbox # << >>
    /\ LET x == Head(inbox)
       IN  IF dataKind = "Buffer"
             THEN /\ delivered' = Append(delivered,
                        [n |-> x.n, msg |-> x.msg,
                         out |-> HandleMsg(Encode(TsSchema, "SubscribeMsg", x.msg))])
                  /\ UNCHANGED awaiting
             ELSE /\ awaiting' = awaiting \cup {x}
                  /\ UNCHANGED delivered
    /\ inbox' = Tail(inbox)
    /\ UNCHANGED <<dataKind, pushes>>
    /\ UNCHANGED rest

\* A pending arrayBuffer() settles (in no order the code fixes) and the rest
\* of _handleMsg runs.
BlobRead ==
    /\ \E x \in awaiting :
         /\ delivered' = Append(delivered,
                [n |-> x.n, msg |-> x.msg,
                 out |-> HandleMsg(Encode(TsSchema, "SubscribeMsg", x.msg))])
         /\ awaiting' = awaiting \ {x}
    /\ UNCHANGED <<dataKind, inbox, pushes>>
    /\ UNCHANGED rest

Next ==
    \/ \E meth \in Methods : Call(meth)
    \/ Respond
    \/ Return
    \/ Push
    \/ OnMessage
    \/ BlobRead

Spec == Init /\ [][Next]_vars

-----------------------------------------------------------------------------
(* Properties.                                                             *)

\* Every message crossing the wire is read as the receiver's schema says it
\* should be: the ValidateUtxoRequest that chronik.ts encodes is decoded by
\* the server's prost with the values of the fields both schemas share, and
\* the response (or Error) the server encodes is decoded by chronik.ts
\* (proto.X.decode in the methods and ensureResponseErrorThrown) with the
\* values of the fields both schemas share.
WireCompatible ==
    /\ pending = "validateUtxos" =>
         LET r == Decode(ProtoSchema, "ValidateUtxoRequest",
                         Encode(TsSchema, "ValidateUtxoRequest", request), TRUE)
         IN  /\ r.ok
             /\ r.msg = Translate(TsSchema, ProtoSchema, "ValidateUtxoRequest",
                                  "ValidateUtxoRequest", request)
    /\ status # 0 =>
         LET t == IF status = 200 THEN RespType[pending] ELSE "Error"
             d == Decode(TsSchema, t, body, FALSE)
         IN  /\ d.ok
             /\ d.msg = Translate(ServerSchema, TsSchema, t, t, sent)

\* The txids a settled query shows, paired with the wire bytes they come
\* from: Tx.txid, each input's prevOut, each output's spentBy (convertToTx,
\* convertToTxInput, convertToTxOutput) and each utxo's outpoint.
TxTxids(d, c) ==
    {<<d.txid, c.txid>>}
    \cup {<<d.inputs[i].prevOut[1].txid, c.inputs[i].prevOut.txid>> : i \in DOMAIN d.inputs}
    \cup {<<d.outputs[k].spentBy[1].txid, c.outputs[k].spentBy[1].txid>> :
            k \in {k \in DOMAIN d.outputs : d.outputs[k].spentBy # << >>}}

Txids(meth, d, c) ==
    CASE meth = "tx"      -> TxTxids(d, c)
      [] meth = "block"   -> UNION {TxTxids(d.txs[i], c.txs[i]) : i \in DOMAIN d.txs}
      [] meth = "history" -> UNION {TxTxids(d.txs[i], c.txs[i]) : i \in DOMAIN d.txs}
      [] meth = "utxos"   ->
           UNION {{<<d.scriptUtxos[i].utxos[j].outpoint[1].txid, c[i].utxos[j].outpoint.txid>> :
                     j \in DOMAIN d.scriptUtxos[i].utxos} : i \in DOMAIN d.scriptUtxos}
      [] OTHER            -> {}

\* spec.md 6: one display convention for hashes at the client boundary, so
\* one txid's bytes show as one string wherever a query result carries it.
TxidDisplayConsistent ==
    result.kind = "resolved" =>
        \A p, q \in Txids(pending, result.decoded, result.val) :
            p[1] = q[1] => p[2] = q[2]

\* Every frame the server pushes reaches onMessage as spec.md 6 says: its
\* kind with the txid in display order, or the error; _handleMsg neither
\* throws "Unknown message" nor mistakes one kind for another.
HandleMsgDelivers ==
    \A i \in DOMAIN delivered : delivered[i].out = Expected(delivered[i].msg)

\* spec.md 5: events reach a channel in commit order, so onMessage sees the
\* frames in the order the server pushed them.
DeliveredInOrder ==
    \A i, j \in DOMAIN delivered : i < j => delivered[i].n < delivered[j].n

=============================================================================
