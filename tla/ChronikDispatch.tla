---------------------------- MODULE ChronikDispatch ----------------------------
(***************************************************************************)
(* What WsEndpoint._handleMsg (src/ts/chronik-client/index.ts) does with a *)
(* decoded SubscribeMsg: the chain of `if (msg.X)` tests on its members in *)
(* declaration order, each calling config.onMessage with the member's kind *)
(* and its txid in display order, or with the error's fields; a message   *)
(* with no member set throws "Unknown message".  The decode step before   *)
(* it is in ChronikClient (HandleMsg).                                     *)
(*                                                                         *)
(* A decoded message is a record with one field per member, << >> when the *)
(* member is undefined and <<x>> when it is set.  A decoded Error starts   *)
(* from baseError, so its own properties are errorCode, msg, isUserError,  *)
(* and the spread {type: "Error", ...msg.error} has exactly those and type.*)
(* The module has no recursion, so what it computes can be proved for     *)
(* every message (ChronikDispatchProofs).                                  *)
(***************************************************************************)
EXTENDS ChronikHex

\* The members of SubscribeMsg (its oneof).
SubscribeKinds == {"error", "AddedToMempool", "RemovedFromMempool", "Confirmed", "Reorg"}

\* onMessage's argument for a set txid member k of m.
TxidCall(m, k) == [kind |-> "called", arg |-> [type |-> k, txid |-> ToHexRev(m[k][1].txid)]]

\* {type: "Error", ...e} for a decoded Error e.
ErrorCall(e) ==
    [kind |-> "called",
     arg  |-> [type |-> "Error", errorCode |-> e.errorCode, msg |-> e.msg,
               isUserError |-> e.isUserError]]

Thrown == [kind |-> "thrown"]

\* Mutant: the chain without the `else if (msg.Reorg)` branch.
DispatchMsgNoReorg(m) ==
    IF m.error # << >> THEN ErrorCall(m.error[1])
    ELSE IF m.AddedToMempool # << >> THEN TxidCall(m, "AddedToMempool")
    ELSE IF m.RemovedFromMempool # << >> THEN TxidCall(m, "RemovedFromMempool")
    ELSE IF m.Confirmed # << >> THEN TxidCall(m, "Confirmed")
    ELSE Thrown

\* The if-chain of _handleMsg on the decoded message m.
DispatchMsg(m) ==
    IF m.error # << >> THEN ErrorCall(m.error[1])
    ELSE IF m.AddedToMempool # << >> THEN TxidCall(m, "AddedToMempool")
    ELSE IF m.RemovedFromMempool # << >> THEN TxidCall(m, "RemovedFromMempool")
    ELSE IF m.Confirmed # << >> THEN TxidCall(m, "Confirmed")
    ELSE IF m.Reorg # << >> THEN TxidCall(m, "Reorg")
    ELSE Thrown

-----------------------------------------------------------------------------
(* The frames the server pushes (spec.md 6): a SubscribeMsg with exactly  *)
(* one member set, to an Error or to a message carrying a txid.           *)

DecodedErrors == [errorCode : Seq(Bytes), msg : Seq(Bytes), isUserError : BOOLEAN]

TxidPayloads == [txid : Seq(Bytes)]

Payloads(k) == IF k = "error" THEN DecodedErrors ELSE TxidPayloads

\* The SubscribeMsg whose only set member is k, set to x.
OneMember(k, x) == [j \in SubscribeKinds |-> IF j = k THEN <<x>> ELSE << >>]

\* m is such a frame.
IsPushedMsg(m) ==
    \E k \in SubscribeKinds : /\ m[k] # << >>
                              /\ m[k][1] \in Payloads(k)
                              /\ m = OneMember(k, m[k][1])

\* What spec.md 6 says the application is told of a pushed frame: its kind,
\* and its txid in display order, or the error's fields.
Expected(m) ==
    LET member == CHOOSE j \in SubscribeKinds : m[j] # << >>
    IN  IF member = "error" THEN ErrorCall(m.error[1]) ELSE TxidCall(m, member)

=============================================================================
