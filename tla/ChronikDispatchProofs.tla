------------------------- MODULE ChronikDispatchProofs -------------------------
(***************************************************************************)
(* _handleMsg's if-chain on the frames the server pushes, for messages of *)
(* every content: the decode-free half of HandleMsgDelivers.              *)
(***************************************************************************)
EXTENDS ChronikDispatch, TLAPS

\* In a pushed frame the set member is the only one.
LEMMA OnlyMember ==
  ASSUME NEW k \in SubscribeKinds, NEW x
  PROVE  /\ OneMember(k, x)[k] = <<x>>
         /\ \A j \in SubscribeKinds : OneMember(k, x)[j] # << >> <=> j = k
BY DEF OneMember

\* Expected names the set member.
LEMMA ExpectedOfOne ==
  ASSUME NEW k \in SubscribeKinds, NEW x
  PROVE  Expected(OneMember(k, x)) =
           IF k = "error" THEN ErrorCall(x) ELSE TxidCall(OneMember(k, x), k)
<1> DEFINE m == OneMember(k, x)
           member == CHOOSE j \in SubscribeKinds : m[j] # << >>
<1>1. member = k
  BY OnlyMember
<1>2. Expected(m) = IF member = "error" THEN ErrorCall(m.error[1]) ELSE TxidCall(m, member)
  BY DEF Expected
<1>3. k = "error" => m.error[1] = x
  BY OnlyMember
<1>4. QED
  BY <1>1, <1>2, <1>3

(***************************************************************************)
(* For every frame the server pushes (one member of SubscribeMsg set, to  *)
(* an Error or to a txid message), the if-chain of _handleMsg calls        *)
(* onMessage with exactly what spec.md 6 says: the member's kind with its *)
(* txid in display order, or type "Error" with the error's fields.  The    *)
(* order of the tests cannot matter and no member falls through to        *)
(* "Unknown message".  Together with the decode round trip that TLC checks *)
(* in run ws_deliver, this is HandleMsgDelivers.                           *)
(***************************************************************************)
THEOREM DispatchDelivers ==
  \A m : IsPushedMsg(m) => DispatchMsg(m) = Expected(m)
<1> SUFFICES ASSUME NEW k \in SubscribeKinds, NEW x
             PROVE  DispatchMsg(OneMember(k, x)) = Expected(OneMember(k, x))
  BY DEF IsPushedMsg
<1> DEFINE m == OneMember(k, x)
<1>1. /\ m.error = IF k = "error" THEN <<x>> ELSE << >>
      /\ m.AddedToMempool = IF k = "AddedToMempool" THEN <<x>> ELSE << >>
      /\ m.RemovedFromMempool = IF k = "RemovedFromMempool" THEN <<x>> ELSE << >>
      /\ m.Confirmed = IF k = "Confirmed" THEN <<x>> ELSE << >>
      /\ m.Reorg = IF k = "Reorg" THEN <<x>> ELSE << >>
  BY DEF OneMember, SubscribeKinds
<1>2. CASE k = "error"
  BY <1>1, <1>2, ExpectedOfOne DEF DispatchMsg
<1>3. CASE k # "error"
  <2>1. Expected(m) = TxidCall(m, k)
    BY <1>3, ExpectedOfOne
  <2>2. DispatchMsg(m) = TxidCall(m, k)
    BY <1>1, <1>3 DEF DispatchMsg, SubscribeKinds
  <2>3. QED
    BY <2>1, <2>2
<1>4. QED
  BY <1>2, <1>3

=============================================================================
