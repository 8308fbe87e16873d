# Formal models of the chronik client and its subscription channel

This directory holds TLA+ models of the chronik repository. It has the TLC configurations
that model-check them and TLAPS proofs of their main invariants. The repository contains
the TypeScript client (`src/ts/chronik-client/index.ts`), the generated protobuf codec
(`chronik.ts`), the wire schema (`src/chronik-http/proto/chronik.proto`) and the
`Cargo.toml` of the HTTP server. The indexer itself (storage, synchronizer, token
validity, query service, subscription registry) is described only by `spec.md`.

## 1. Inventory

### Components and how they interact

| Part | Source | State | Operations |
|---|---|---|---|
| `WsEndpoint` | index.ts 128-238 | `_ws`, `_connected`, `_closed`, `_subs` | constructor, `waitForOpen`, `subscribe`, `unsubscribe`, `close`, `_connect`, `_subUnsub`; callbacks `onopen`, `onmessage` (`_handleMsg`), `onclose` |
| WebSocket connection | `ws` library (not in src) | readyState; frames in flight both ways | `send` (throws while CONNECTING, discards while CLOSING/CLOSED), `close`, spontaneous failure |
| Subscription Registry (server) | spec.md 4.5, 5 | per connection, a set of scripts | apply a Subscription frame, publish an event to subscribed channels, drop a channel |
| `ChronikClient`, `ScriptEndpoint` | index.ts 10-121, 240-270 | URL only; a pending promise per call | one HTTP GET/POST per query, error decoding |
| Conversion functions | index.ts 272-490 | none | proto message to client object |
| Protobuf codec | chronik.ts | none | `encode`/`decode`/`fromJSON`/`toJSON` per message |
| Indexer core | spec.md 4.1-4.4 | UTXO set, spentBy, history, token cache | putBlock, removeBlock, mempool add/remove, validateUtxos, history pages |

The client's `ws()` creates a `WsEndpoint`, which opens a socket at once. The
application calls `subscribe`, `unsubscribe` and `close` at any time. Each call of
`subscribe` or `unsubscribe` updates `_subs` and sends one `Subscription` frame. The
server applies the frames to the channel's script set. For each committed event it
pushes a `SubscribeMsg` to every channel subscribed to a touched script.

When a socket closes without `close()`, `onclose` calls `_connect()`. That creates a
new socket and replaces `this._ws` and `this._connected`. The new socket's `onopen`
sends a subscribe frame for every entry of `_subs`, then resolves its promise.

### Hard behaviours in this code

- JavaScript runs each method and each callback to completion, but they interleave
  in any order with each other and with the server.
- A connection can fail at any time. The frames in flight and the server's registry
  are then lost.
- `send` throws on a CONNECTING socket and discards on a CLOSING one.
- `close()` can race the `onclose` of a socket that already failed.
- `_connected` is replaced on each reconnect.

PROJECT.json `hazards` lists each hazard at its line.

### Properties that matter

- After the server reads everything sent on the open socket, its registry equals
  `_subs` (**SubsAgree**).
- `close()` is final: no reconnect, no replay, no new frame (**ClosedIsFinal**).
- Every subscription is eventually active on an open socket
  (**SubscriptionEventuallyActive**).
- `waitForOpen()` eventually returns (**WaitForOpenReturns**).
- `onMessage` sees committed events only, each at most once, in commit order, across
  reconnects: the endpoint implements `WsChannel` (**ChannelSpec**, **DeliveryOrder**).
- Every message crossing the wire is read as the receiver's schema says
  (**WireCompatible**).
- One txid's bytes are shown as one string in a query result (**TxidDisplayConsistent**).
- Every pushed frame reaches `onMessage` with its kind and display-order txid
  (**HandleMsgDelivers**), in push order (**DeliveredInOrder**).

## 2. Modules

| Module | Models |
|---|---|
| `WsServer` | The connection and the server's registry (spec_modelled: that code is not in src). |
| `WsEndpoint` | EXTENDS `WsServer` with the client. This composes the client with the server. |
| `WsChannel` | The abstract channel: what the endpoint promises the application. |
| `MC_WsEndpoint` | Model values for the scripts, and symmetry. |
| `WsEndpointProofs` | TLAPS proofs about `WsEndpoint`. |
| `WsChannelProofs` | TLAPS proof that `WsEndpoint` implements `WsChannel`. |
| `ProtoWire` | The protobuf wire format as chronik.ts's generated code uses it (protobufjs), and as the server reads it (prost). |
| `ChronikSchema` | The message schemas of chronik.ts (`Ts*`) and of chronik.proto (`Proto*`). |
| `ChronikHex` | The `./hex` helpers (`toHex`, `toHexRev`, `fromHex`, `fromHexRev`), spec_modelled. The module has no recursion, so facts about them can be proved. |
| `ChronikHexProofs` | TLAPS proofs about the hex helpers, for byte strings of every length. |
| `ChronikDispatch` | The `if/else if` chain of `_handleMsg` on a decoded `SubscribeMsg`, with `Expected` (spec.md 6). The module has no recursion. |
| `ChronikDispatchProofs` | TLAPS proof that the chain does what spec.md 6 says on every frame the server pushes. |
| `ChronikClient` | The query methods, the conversions and `_handleMsg`'s decode step, with a server that encodes with chronik.proto. |
| `MC_ChronikClient` | Scalar values, hash length and method sets for TLC. |

### How the state corresponds to the code

- Sockets are numbered in creation order. `sock[c]` is the readyState of the c-th
  socket and `cur` is the one in `this._ws`.
- `subs` is the set of entries of `_subs`. The array is kept as a set because the
  server treats repeated subscribes as one, so neither multiplicity nor order can
  be observed.
- Replayed subscribe frames (`replay[c]`) precede later frames (`toServer[c]`, FIFO)
  on the socket.
- `reg[c]` is the server's script set for the connection.
- `toClient[c]` holds the pushed event ids.
- `resolved` holds the sockets whose `_connected` promise is resolved.
- `waitOn` is the socket whose promise a pending `waitForOpen()` awaits.

### Actions

| Action | Code |
|---|---|
| `Init` | constructor plus `_connect()` |
| `Subscribe`, `Unsubscribe` | the methods, with `_subUnsub` |
| `Close` | `close()` |
| `WaitForOpen` | the call |
| `WaitForOpenReturn` | the resumption of the await |
| `OnOpen`, `OnMessage`, `OnClose` | the callbacks |
| `ServerReadReplay`, `ServerReadFrame`, `Publish`, `Fail` | the server and the network |

Each action is one whole handler. In `OnClose`, for example, the check of `_closed`,
the new socket and the replaced promise happen in the same step.

### The wire and the query boundary

`ProtoWire` gives a schema (a sequence of fields: number, name, kind, sub-message
type) its encode and decode.

- **Encode** follows the generated `X.encode`. Fields are written in declaration
  order, and a scalar equal to its default is omitted. Repeated fields and set
  sub-messages are written as tag, length, bytes. A varint is written low group
  first. A negative int32 or int64 takes ten groups (`NegGroups`).
- **Decode** follows the generated `X.decode` loop: read a tag, dispatch on the field
  number, and `skipType` on an unknown number. A read past the buffer fails.
- **Wire types.** protobufjs ignores the tag's wire type (`checked = FALSE`). prost
  (the server, `checked = TRUE`) rejects a wrong wire type, field 0, and a
  sub-message that overruns its length.
- **Integer widths.** Unsigned values saturate at `Cap = 2^30` (TLC integers are
  32-bit). int32 keeps its exact 32-bit value.
- **Byte data.** Bytes and strings are sequences of byte values. Strings are ASCII,
  so UTF-8 decoding is the identity on them.
- **Translate** is the compatibility rule of protobuf schemas and the reference
  against which decoding is judged. A field keeps its value when the sender's schema
  has the same number with the same kind (int32 and enum are the same on the wire).
  Any other field is at its default.

`ChronikSchema` has one definition per generated message of chronik.ts, checked
against its `encode`/`decode`, and one per message of chronik.proto.

`ChronikClient` models the query methods:

- `Call(meth)`: the method up to its `await`. `validateUtxos` encodes its request
  from display-order txids via `fromHexRev`.
- `Respond`: the server (spec_modelled). It sends 200 with any message of the
  response type, encoded with chronik.proto where the proto has the message, or an
  error status with an `Error` body. For `validateUtxos` it sends one `UtxoState` per
  outpoint it decoded.
- `Return`: the continuation `Settle`. It runs `ensureResponseErrorThrown`, then
  `proto.X.decode`, then the `convertTo*` functions. A throw anywhere rejects.
- **Server messages.** The server's messages are all combinations of the scalar
  values of `MC_ChronikClient`. Sub-messages are absent, empty or full, and
  repeated fields hold zero entries or one full entry.

On the subscription side:

- `Push`: the server pushes a `SubscribeMsg` with one member set.
- `OnMessage`: runs `_handleMsg` on the next frame. A Buffer is handled at once. A
  Blob suspends at `await arrayBuffer()`. A socket hands `onmessage` one kind only:
  node's `ws` gives Buffers and a browser gives Blobs. `Init` therefore picks the
  kind (`dataKind`) once, from `DataKinds`.
- `BlobRead`: resumes one of the suspended handlers, in any order.

`HandleMsg` is the decode followed by `DispatchMsg` (module `ChronikDispatch`).
`DispatchMsg` is the `if/else if` chain, including the "Unknown message" throw. The
assumption `FramesHaveOneMember` is evaluated by TLC on every ChronikClient run. It
checks that every frame the model's server pushes has exactly one member set
(`IsPushedMsg`), which is the hypothesis of `DispatchDelivers`.

## 3. Runs

### Subscription channel (`MC_WsEndpoint`, two scripts as model values)

| Run | Bounds | Checks | Result |
|---|---|---|---|
| `ws_safety` | 3 sockets, 2 events, 5 calls | `SubsAgree`, `Agreement`, `ClosedIsFinal`, `WaitHangPermanent` | pass, about 970k states |
| `ws_refine` | 3 sockets, 2 events, 4 calls (no symmetry) | `DeliveryOrder`, `ChannelSpec` | pass, about 470k states |
| `ws_live` | 3 sockets, 1 event, 3 calls | `TypeOK`, `SubscriptionEventuallyActive` under `Spec`'s fairness | pass |
| `ws_wait_hang` | 2 sockets, 0 events, 2 calls | `WaitForOpenReturns` | violation |

In `ws_safety`, three sockets allow two failures, so a reconnect can be followed by
another failure during the replay. Five calls allow subscribe, unsubscribe and
re-subscribe of one script, around a close.

`ws_wait_hang` is a **finding**: `waitForOpen()` on socket 1, socket 1 fails,
`onclose` creates socket 2, socket 2 opens, and the waiter still awaits socket 1's
promise forever (index.ts 145, 169). `ws_safety` checks, and `WaitHangPermanentHolds`
proves, that this hang is permanent. Once the awaited socket has closed without
opening, every later step leaves the call pending.

Deadlock is not checked in the WsEndpoint runs or in the WS runs of ChronikClient.
Once calls and events are used up, an idle client on an open socket is a legitimate
final state.

Every property of a passing run has a mutant in PROJECT.json that TLC refutes:

| Mutant | Property refuted |
|---|---|
| `onopen` without replay | `SubsAgree` |
| send on a CLOSING socket | `ClosedIsFinal` |
| `unsubscribe` that filters `_subs` but sends no frame | `Agreement` |
| `onclose` that ignores `_closed` (cur leaves `Conns`) | `TypeOK` |
| `onclose` that never reconnects | `SubscriptionEventuallyActive` |
| `onmessage` that takes the newest queued event | `DeliveryOrder`, `ChannelSpec` |
| `waitForOpen` that returns once the *current* socket's promise resolves | `WaitHangPermanent` |

With two events, two can be queued on one socket at once, so an out-of-order
delivery is reachable.

### Wire and query boundary (`MC_ChronikClient`)

In `MC_ChronikClient`, each scalar kind has its default and one other value:

- int32 and int64 use -1, so each writes a ten-group varint;
- uint32 and uint64 use 300, a two-group varint;
- enums use 2;
- bytes use a two-byte string (the hash length is 2).

A full `Tx` with its nested inputs, outputs, token data and block therefore
exercises every writer and reader path.

REST runs use no pushes. WS runs make no calls. Each is a question of its own, and
the product of the two would only multiply states. The REST methods are
sequential: calls share no state, so one outstanding call loses nothing.

| Run | Methods / pushes | Checks | Result |
|---|---|---|---|
| `rest_compat` | block, blocks, tx, validateUtxos, history | `WireCompatible` | pass, about 4.8k states |
| `rest_utxos_mismatch` | utxos | `WireCompatible` | violation |
| `rest_txid_display` | tx | `TxidDisplayConsistent` | violation |
| `ws_deliver` | 3 pushes, Buffer socket or Blob socket | `HandleMsgDelivers` | pass, about 100k states |
| `ws_blob_order` | 3 pushes, Blob socket | `DeliveredInOrder` | violation |

Findings:

- **`rest_utxos_mismatch`** (index.ts `utxos`, chronik.proto:28). chronik.proto and
  chronik.ts disagree on `Utxos` and `Utxo`:
  - proto `Utxos` field 1 is `repeated Utxo`, while ts reads `repeated ScriptUtxos`;
  - proto `Utxo` field 2 is `BlockMetadata block`, while ts reads `int32 blockHeight`.

  protobufjs dispatches on the field number alone, so it reads the server's bytes
  with the wrong readers. spec.md 3 and 6 describe the ts shape.
- **`rest_txid_display`** (index.ts:353). `convertToTxOutput` shows `spentBy.txid`
  with `toHex`. Every other txid (tx, prevOut, utxo outpoint) uses `toHexRev`. The
  same transaction id therefore appears in two byte orders, against the single
  convention spec.md 6 requires.
- **`ws_blob_order`** (index.ts:207). On a browser socket every frame is a Blob, and
  each message awaits `arrayBuffer()`. Nothing in the code orders the continuations.
  The code relies on the runtime settling those promises in call order, and the
  model does not assume that. TLC's trace pushes two frames and suspends both. Their
  reads then settle in the opposite order, so onMessage gets frame 2 before frame 1.
  spec.md 5 promises delivery in commit order.

Mutants of the wire runs:

| Mutant | Property refuted |
|---|---|
| `TxOutput.decode` reading `value` with `uint64` | `WireCompatible` (a -1 becomes a huge value) |
| `_handleMsg`'s chain (`DispatchMsg`) without the `Reorg` branch | `HandleMsgDelivers` (throws "Unknown message") |
### Fairness

`Spec` assumes weak fairness of each callback (`OnOpen`, `OnMessage`, `OnClose`), of
the server's reads, and of the resumption of an await. This is justified because
the event loop eventually runs every queued callback and the server is up.

Failures and application calls get no fairness. `Fail` is bounded (`c < MaxConns`),
so the last socket stays up. Without that bound, no liveness property could hold
against a network that fails forever.

## 4. Proofs (WsEndpointProofs, WsChannelProofs, ChronikHexProofs and ChronikDispatchProofs, checked by tlapm)

The constants are assumed to satisfy `ConstantsAssumption` (at least one script;
`MaxConns` ≥ 1; `MaxEvents` in Nat) and `MaxCallsAssumption`.

- `TypeCorrect`: `Spec => []TypeOK`.
- `SubsAgreeInvariant`: `Spec => []SubsAgree`.
- `ClosedIsFinalHolds`: `Spec => ClosedIsFinal`, by the step lemma `ClosedStep`.
- `WaitHangPermanentHolds`: `Spec => WaitHangPermanent`, by the step lemma
  `WaitHungStep`. `WaitHung` says that a `waitForOpen()` is pending on a socket that
  is closed and was never resolved. The step lemma needs `IInv` for one case. An
  `onclose` that creates socket `c + 1` must not create the awaited one, and
  `OtherSockets` says that a socket above the current one was never created. The
  other cases follow from the guards: only the onopen of a *connecting* socket
  resolves a promise, and only a resolved promise lets the wait return. Together
  with the `ws_wait_hang` trace, which shows that `WaitHung` is reachable, this
  makes the finding hold for every number of sockets, scripts and calls.

- `AgreementInvariant`: `Spec => []Agreement`. `SubsAgree` says only that the
  server agrees once it has caught up. `Agreement` holds at every moment: the frames
  in flight, read in order after the replay, bring the server's registry to
  `_subs`. `ws_safety` checks it.

`SubsAgree` is not inductive. While frames are in flight the server disagrees with
`_subs`. The inductive invariant `IInv` (in `WsEndpoint`, also checked by TLC)
adds three conjuncts:

- **`OtherSockets`**: every socket but the current one is unborn or closed, and the
  unborn ones carry nothing.
- **`CurrentSocket`**: a connecting socket carries nothing; a failed one leaves room
  for the next while not closed; after `close()` it is closing or closed.
- **`Agreement`**: on an open current socket, for each script `s`, the last frame
  for `s` in flight carries the client's current choice for `s`. With no frame in
  flight for `s`, the replayed or registered state for `s` agrees with `_subs`.

The proof is split into `TypeStep`, `SocketsStep` and `AgreementStep`, with one case
per action. They rest on the sequence lemmas `AppendSame`, `AppendOther` and
`TailLast`, which state how the last frame for a script changes under `Append` and
`Tail`. `SubsAgree` follows from `Agreement` when nothing is in flight.

### Refinement (WsChannelProofs)

- `DeliveryOrderInvariant`: `Spec => []DeliveryOrder`.
- `ChannelRefinement`: `Spec => ChannelSpec`, where `ChannelSpec` is `WsChannel`'s
  `Spec` under the mapping that keeps `subs`, `closed`, `published` and `delivered`
  and hides sockets, frames, registries and waits.

`DeliveryOrder` says:

- delivered ids and each socket's queue are increasing and within `published`;
- every queued id is above every delivered one;
- only the current socket has a queue.

It is inductive only together with `IInv`, whose `OtherSockets` says that no socket
but the current one can be open or closing. Without it, a `Publish` could queue an
event on a stale socket, or an `OnClose` that moves to the next socket could leave
another queue behind.

The step is proved in one lemma per action kind:

- `DeliveryQuiet`;
- `DeliveryOnMessage`, which uses `TailIncreasing`;
- `DeliveryDrop`, which covers `OnClose` and `Fail`;
- `DeliveryPublish`, which uses `AppendIncreasing`.

`ChannelStep` maps each action:

- `Subscribe`, `Unsubscribe`, `Close` and `Publish` map to the channel's actions of
  the same name;
- `OnMessage` maps to `Deliver`, with the head of the queue as the witness;
- every other action is a stutter.

### The hex helpers (ChronikHexProofs)

No assumption is needed. The statements quantify over `Seq(Bytes)`, that is,
byte strings of every length.

- `HexRoundTrip`: `fromHex(toHex(b)) = b`. Hence `ToHexInjective`.
- `HexRevRoundTrip`: `fromHexRev(toHexRev(b)) = b`. A txid the application takes
  from a result, in display order, and passes back to `validateUtxos` reaches the
  request as its original bytes. `rest_compat` relies on this at 2-byte hashes.
- `DisplayOrdersAgree`: `toHex(b) = toHexRev(b)` exactly when `b` is a palindrome.
  `rest_txid_display` finds the spentBy mismatch with 2-byte hashes. This theorem
  shows the mismatch at every hash length, 32 bytes included, for every
  non-palindromic txid.

The proofs rest on `NibbleSplit`, which says that a byte is `16 * high + low`, and
on `ReversedShape`. Z3 handles `\div` and `%` only on a named integer, not on an
element of a sequence. So the byte facts are stated once for `x \in Bytes` and
cited.

The helpers used to sit in `ChronikClient`. They were moved into `ChronikHex`,
which `ChronikClient` extends, because a theorem cannot live in a module that
reaches the RECURSIVE codec.

### `_handleMsg` on pushed frames (ChronikDispatchProofs)

- `DispatchDelivers`: for every message with exactly one member set (`IsPushedMsg`),
  `DispatchMsg(m) = Expected(m)`. The set member is an Error or a txid message of
  any content.

It rests on two lemmas. `OnlyMember` says that the set member is the only one.
`ExpectedOfOne` says that `Expected`'s CHOOSE picks that member. The order of the
tests therefore cannot matter, and no pushed frame falls through to "Unknown
message".

`HandleMsgDelivers` is the composition of this theorem with the decode round trip
`Decode(Encode(m)) = m`. The round trip stays with TLC (see below).

### Out of the prover's reach

Only TLC checks these:

- the liveness properties;
- the whole wire and query boundary. `ProtoWire`, `ChronikSchema` and
  `ChronikClient` are built from RECURSIVE operators (varints, the decode loop,
  `Translate`), and tlapm cannot reason about those. Their properties are
  model-checked over the bounded value sets above. `WireCompatible` and
  `HandleMsgDelivers` both rest on a message decoding to what was encoded. For
  `HandleMsgDelivers`, the rest is proved (`DispatchDelivers`). Any proof of the
  round trip is an induction over the message's structure, and TLAPS cannot
  instantiate the library's induction theorems.

## 5. Not modelled, and plan

Not modelled:

- **URL handling**: the constructor's URL checks, the path and query-string
  formatting of the methods, and `script()`. They are string formatting with no
  state, and the server's answer does not depend on them in the model.
- **`fromJSON`/`toJSON`/`fromPartial` of chronik.ts**: index.ts never calls them.
  The `BroadcastTx*` messages are modelled as schemas, but no method sends them.
- **Concurrent query calls**: they share no client state. One outstanding call at a
  time loses no behaviour.
- **onMessage left unset**: `_handleMsg` then returns at once, with no observable
  effect.
- **Server-side refcounting of repeated subscribes** (spec.md 4.5): the client's
  unsubscribe removes every duplicate from `_subs` but sends one frame.
- **Build configuration**: no behaviour.
- **Indexer core** (spec.md 4.1-4.4): no code under src/.
- **UTF-8 beyond ASCII and 64-bit values above 2^30**: TLC integers are 32-bit, and
  only saturation is modelled.

Plan:

1. A refcounted registry variant, checked against the client's filter-all
   unsubscribe.
2. A spec-modelled indexer core covering UTXO/spentBy consistency across connect,
   disconnect and reorg, and `validateUtxos`, refined to an abstract chain.
