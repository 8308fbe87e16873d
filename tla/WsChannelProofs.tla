-------------------------- MODULE WsChannelProofs ---------------------------
(***************************************************************************)
(* WsEndpoint implements WsChannel for every value of the constants:       *)
(* onMessage is called only with committed events, each at most once and   *)
(* in commit order.  The argument rests on DeliveryOrder, which is         *)
(* inductive together with the invariant IInv of WsEndpointProofs (IInv   *)
(* supplies that only the current socket can be open or closing).          *)
(***************************************************************************)
EXTENDS WsEndpointProofs

-----------------------------------------------------------------------------
(* Increasing sequences.                                                   *)

\* Dropping the head of an increasing sequence keeps it increasing and
\* leaves only elements above the head.
LEMMA TailIncreasing ==
    ASSUME NEW q \in Seq(Int), q # << >>, Increasing(q)
    PROVE  /\ Increasing(Tail(q))
           /\ \A i \in DOMAIN Tail(q) : Head(q) < Tail(q)[i]
<1>1. /\ Len(Tail(q)) = Len(q) - 1
      /\ \A i \in 1..Len(q) - 1 : Tail(q)[i] = q[i + 1]
  BY HeadTailProperties
<1>2. Increasing(Tail(q))
  BY <1>1 DEF Increasing
<1>3. \A i \in DOMAIN Tail(q) : Head(q) < Tail(q)[i]
  BY <1>1 DEF Increasing
<1>4. QED
  BY <1>2, <1>3

\* Appending an element above all others keeps a sequence increasing.
LEMMA AppendIncreasing ==
    ASSUME NEW q \in Seq(Int), NEW x \in Int, Increasing(q),
           \A i \in DOMAIN q : q[i] < x
    PROVE  Increasing(Append(q, x))
  BY AppendProperties DEF Increasing

-----------------------------------------------------------------------------
(* DeliveryOrder is an invariant.                                          *)

LEMMA InitDelivery == Init => DeliveryOrder
  BY DEF Init, ServerInit, DeliveryOrder, Increasing

\* The actions that leave the events, the queues and the current socket alone.
LEMMA DeliveryQuiet ==
    ASSUME DeliveryOrder,
           delivered' = delivered, toClient' = toClient,
           published' = published, cur' = cur
    PROVE  DeliveryOrder'
  BY DEF DeliveryOrder

LEMMA DeliveryOnMessage ==
    ASSUME TypeOK, DeliveryOrder, NEW c \in Conns, OnMessage(c)
    PROVE  DeliveryOrder'
<1> DEFINE q == toClient[c]
           h == Head(q)
<1>1. q \in Seq(Int) /\ q # << >> /\ Increasing(q)
  BY DEF TypeOK, ServerTypeOK, EventIds, OnMessage, DeliveryOrder
<1>2. c = cur
  BY <1>1 DEF DeliveryOrder
<1>3. /\ h \in 1..Len(published)
      /\ \A j \in DOMAIN delivered : delivered[j] < h
  <2>1. 1 \in DOMAIN q /\ h = q[1]
    BY <1>1
  <2>2. QED
    BY <2>1 DEF DeliveryOrder
<1>4. /\ Increasing(Tail(q))
      /\ \A i \in DOMAIN Tail(q) : h < Tail(q)[i]
  BY <1>1, TailIncreasing
<1>5. Tail(q) \in Seq(Int) /\ \A i \in DOMAIN Tail(q) : Tail(q)[i] = q[i + 1]
  BY <1>1, HeadTailProperties
<1>6. delivered \in Seq(Int)
  <2>1. delivered \in Seq(EventIds) /\ EventIds \subseteq Int
    BY DEF TypeOK, EventIds
  <2>2. QED
    BY <2>1, SeqMonotonic
<1>7. delivered' = Append(delivered, h) /\ published' = published /\ cur' = cur
  BY DEF OnMessage
<1>8. toClient' = [toClient EXCEPT ![c] = Tail(q)]
  BY DEF OnMessage
<1>9. Increasing(delivered')
  BY <1>3, <1>6, <1>7, AppendIncreasing DEF DeliveryOrder
<1>10. \A i \in DOMAIN delivered' : delivered'[i] \in 1..Len(published')
  BY <1>3, <1>6, <1>7, AppendProperties DEF DeliveryOrder
<1>11. ASSUME NEW d \in Conns PROVE
         /\ toClient'[d] # << >> => d = cur'
         /\ Increasing(toClient'[d])
         /\ \A i \in DOMAIN toClient'[d] :
               /\ toClient'[d][i] \in 1..Len(published')
               /\ \A j \in DOMAIN delivered' : delivered'[j] < toClient'[d][i]
  <2>1. CASE d = c
    <3>1. toClient'[d] = Tail(q)
      BY <2>1, <1>8 DEF TypeOK, ServerTypeOK
    <3>2. \A i \in DOMAIN Tail(q) : Tail(q)[i] \in 1..Len(published)
      BY <1>1, <1>5 DEF DeliveryOrder
    <3>3. \A i \in DOMAIN Tail(q) : \A j \in DOMAIN delivered' : delivered'[j] < Tail(q)[i]
      <4> SUFFICES ASSUME NEW i \in DOMAIN Tail(q), NEW j \in DOMAIN delivered'
                   PROVE  delivered'[j] < Tail(q)[i]
        OBVIOUS
      <4>1. CASE j \in DOMAIN delivered
        <5>1. delivered'[j] = delivered[j]
          BY <4>1, <1>6, <1>7, AppendProperties
        <5>2. QED
          BY <4>1, <5>1, <1>1, <1>5, <2>1 DEF DeliveryOrder
      <4>2. CASE j \notin DOMAIN delivered
        <5>1. delivered'[j] = h
          BY <4>2, <1>6, <1>7, AppendProperties
        <5>2. QED
          BY <5>1, <1>4
      <4>3. QED
        BY <4>1, <4>2
    <3>4. QED
      BY <2>1, <1>2, <1>4, <1>7, <3>1, <3>2, <3>3
  <2>2. CASE d # c
    <3>1. toClient'[d] = toClient[d]
      BY <2>2, <1>8 DEF TypeOK, ServerTypeOK
    <3>2. toClient[d] = << >>
      BY <2>2, <1>2 DEF DeliveryOrder
    <3>3. QED
      BY <3>1, <3>2, <1>7 DEF Increasing
  <2>3. QED
    BY <2>1, <2>2
<1>12. QED
  BY <1>9, <1>10, <1>11 DEF DeliveryOrder


\* A step that empties the queue of socket c (onclose, a failure) and may
\* move to the next socket only if no other socket carries events.
LEMMA DeliveryDrop ==
    ASSUME TypeOK, DeliveryOrder, NEW c \in Conns,
           toClient' = [toClient EXCEPT ![c] = << >>],
           delivered' = delivered, published' = published,
           cur' = cur \/ \A d \in Conns : d # c => toClient[d] = << >>
    PROVE  DeliveryOrder'
<1>1. ASSUME NEW d \in Conns PROVE
         /\ toClient'[d] # << >> => d = cur'
         /\ Increasing(toClient'[d])
         /\ \A i \in DOMAIN toClient'[d] :
               /\ toClient'[d][i] \in 1..Len(published')
               /\ \A j \in DOMAIN delivered' : delivered'[j] < toClient'[d][i]
  <2>1. CASE d = c
    <3>1. toClient'[d] = << >>
      BY <2>1 DEF TypeOK, ServerTypeOK
    <3>2. QED
      BY <3>1 DEF Increasing
  <2>2. CASE d # c
    <3>1. toClient'[d] = toClient[d]
      BY <2>2 DEF TypeOK, ServerTypeOK
    <3>2. toClient[d] # << >> => d = cur'
      BY <2>2 DEF DeliveryOrder
    <3>3. QED
      BY <3>1, <3>2 DEF DeliveryOrder
  <2>3. QED
    BY <2>1, <2>2
<1>2. QED
  BY <1>1 DEF DeliveryOrder

LEMMA DeliveryOnClose ==
    ASSUME TypeOK, OtherSockets, DeliveryOrder, NEW c \in Conns, OnClose(c)
    PROVE  DeliveryOrder'
<1>1. c = cur
  BY DEF OnClose, OtherSockets
<1>2. \A d \in Conns : d # c => toClient[d] = << >>
  BY <1>1 DEF DeliveryOrder
<1>3. toClient' = [toClient EXCEPT ![c] = << >>]
      /\ delivered' = delivered /\ published' = published
  BY DEF OnClose
<1>4. QED
  BY <1>2, <1>3, DeliveryDrop

LEMMA DeliveryFail ==
    ASSUME TypeOK, DeliveryOrder, NEW c \in Conns, Fail(c), UNCHANGED clientVars
    PROVE  DeliveryOrder'
<1>1. toClient' = [toClient EXCEPT ![c] = << >>]
      /\ delivered' = delivered /\ published' = published /\ cur' = cur
  BY DEF Fail, clientVars
<1>2. QED
  BY <1>1, DeliveryDrop

LEMMA DeliveryPublish ==
    ASSUME TypeOK, OtherSockets, DeliveryOrder, NEW T \in Touched, Publish(T),
           UNCHANGED clientVars
    PROVE  DeliveryOrder'
<1> DEFINE n == Len(published) + 1
<1>1. /\ published \in Seq(SUBSET Scripts)
      /\ Len(published') = n
  BY AppendProperties DEF Publish, TypeOK, ServerTypeOK
<1>2. /\ delivered' = delivered /\ cur' = cur
      /\ toClient' = [d \in Conns |->
                        IF sock[d] = "open" /\ reg[d] \cap T # {}
                        THEN Append(toClient[d], n) ELSE toClient[d]]
  BY DEF Publish, clientVars
<1>3. Increasing(delivered') /\ \A i \in DOMAIN delivered' : delivered'[i] \in 1..Len(published')
  BY <1>1, <1>2 DEF DeliveryOrder
<1>4. ASSUME NEW d \in Conns PROVE
         /\ toClient'[d] # << >> => d = cur'
         /\ Increasing(toClient'[d])
         /\ \A i \in DOMAIN toClient'[d] :
               /\ toClient'[d][i] \in 1..Len(published')
               /\ \A j \in DOMAIN delivered' : delivered'[j] < toClient'[d][i]
  <2>0. toClient[d] \in Seq(Int)
    <3>1. toClient[d] \in Seq(EventIds) /\ EventIds \subseteq Int
      BY DEF TypeOK, ServerTypeOK, EventIds
    <3>2. QED
      BY <3>1, SeqMonotonic
  <2>a. /\ Increasing(toClient[d])
        /\ \A i \in DOMAIN toClient[d] :
              /\ toClient[d][i] \in 1..Len(published)
              /\ \A j \in DOMAIN delivered : delivered[j] < toClient[d][i]
    BY DEF DeliveryOrder
  <2>1. CASE sock[d] = "open" /\ reg[d] \cap T # {}
    <3>1. d = cur
      BY <2>1 DEF OtherSockets
    <3>2. toClient'[d] = Append(toClient[d], n)
      BY <2>1, <1>2
    <3>3. Increasing(Append(toClient[d], n))
      BY <2>0, <2>a, AppendIncreasing
    <3>4. \A i \in DOMAIN Append(toClient[d], n) :
             /\ Append(toClient[d], n)[i] \in 1..n
             /\ \A j \in DOMAIN delivered : delivered[j] < Append(toClient[d], n)[i]
      <4> SUFFICES ASSUME NEW i \in DOMAIN Append(toClient[d], n)
                   PROVE  /\ Append(toClient[d], n)[i] \in 1..n
                          /\ \A j \in DOMAIN delivered : delivered[j] < Append(toClient[d], n)[i]
        OBVIOUS
      <4>1. CASE i \in DOMAIN toClient[d]
        <5>1. Append(toClient[d], n)[i] = toClient[d][i]
          BY <2>0, <4>1, AppendProperties
        <5>2. QED
          BY <5>1, <4>1, <2>a
      <4>2. CASE i \notin DOMAIN toClient[d]
        <5>1. Append(toClient[d], n)[i] = n
          BY <2>0, <4>2, AppendProperties
        <5>2. \A j \in DOMAIN delivered : delivered[j] < n
          BY DEF DeliveryOrder
        <5>3. QED
          BY <5>1, <5>2
      <4>3. QED
        BY <4>1, <4>2
    <3>5. QED
      BY <1>1, <1>2, <3>1, <3>2, <3>3, <3>4
  <2>2. CASE ~(sock[d] = "open" /\ reg[d] \cap T # {})
    <3>1. toClient'[d] = toClient[d]
      BY <2>2, <1>2
    <3>2. toClient[d] # << >> => d = cur
      BY DEF DeliveryOrder
    <3>3. \A i \in DOMAIN toClient[d] : toClient[d][i] \in 1..Len(published')
      BY <1>1, <2>a
    <3>4. QED
      BY <1>2, <2>a, <3>1, <3>2, <3>3
  <2>3. QED
    BY <2>1, <2>2
<1>5. QED
  BY <1>3, <1>4 DEF DeliveryOrder


LEMMA DeliveryStep == IInv /\ DeliveryOrder /\ [Next]_vars => DeliveryOrder'
<1> SUFFICES ASSUME IInv, DeliveryOrder, [Next]_vars PROVE DeliveryOrder'
  OBVIOUS
<1>0. TypeOK /\ OtherSockets
  BY DEF IInv
<1>1. ASSUME NEW s \in Scripts, Subscribe(s) \/ Unsubscribe(s) PROVE DeliveryOrder'
  BY <1>1, DeliveryQuiet DEF Subscribe, Unsubscribe
<1>2. CASE Close
  BY <1>2, DeliveryQuiet DEF Close
<1>3. CASE WaitForOpen \/ WaitForOpenReturn
  BY <1>3, DeliveryQuiet DEF WaitForOpen, WaitForOpenReturn, serverVars
<1>4. ASSUME NEW c \in Conns, OnOpen(c) PROVE DeliveryOrder'
  BY <1>4, DeliveryQuiet DEF OnOpen
<1>5. ASSUME NEW c \in Conns, OnMessage(c) PROVE DeliveryOrder'
  BY <1>0, <1>5, DeliveryOnMessage
<1>6. ASSUME NEW c \in Conns, OnClose(c) PROVE DeliveryOrder'
  BY <1>0, <1>6, DeliveryOnClose
<1>7. ASSUME NEW c \in Conns, NEW s \in Scripts, ServerReadReplay(c, s),
             UNCHANGED clientVars
      PROVE DeliveryOrder'
  BY <1>7, DeliveryQuiet DEF ServerReadReplay, clientVars
<1>8. ASSUME NEW c \in Conns, ServerReadFrame(c), UNCHANGED clientVars
      PROVE DeliveryOrder'
  BY <1>8, DeliveryQuiet DEF ServerReadFrame, clientVars
<1>9. ASSUME NEW T \in Touched, Publish(T), UNCHANGED clientVars
      PROVE DeliveryOrder'
  BY <1>0, <1>9, DeliveryPublish
<1>10. ASSUME NEW c \in Conns, Fail(c), UNCHANGED clientVars
       PROVE DeliveryOrder'
  BY <1>0, <1>10, DeliveryFail
<1>11. CASE UNCHANGED vars
  BY <1>11, DeliveryQuiet DEF vars, serverVars, clientVars
<1>12. QED
  BY <1>1, <1>2, <1>3, <1>4, <1>5, <1>6, <1>7, <1>8, <1>9, <1>10, <1>11
     DEF Next, ClientNext, ServerNext

\* The endpoint's states satisfy IInv and DeliveryOrder.
LEMMA DeliveryInvariant == Spec => [](IInv /\ DeliveryOrder)
<1>1. Init => IInv /\ DeliveryOrder
  BY InitIInv, InitDelivery
<1>2. IInv /\ DeliveryOrder /\ [Next]_vars => IInv' /\ DeliveryOrder'
  BY NextIInv, DeliveryStep
<1>3. QED
  BY <1>1, <1>2, PTL DEF Spec


(***************************************************************************)
(* For every value of the constants, the events onMessage has seen and the *)
(* events queued on each socket are committed and increasing, queued ones *)
(* come after all delivered ones, and only the current socket carries any *)
(* (ws.onmessage against onclose, failures and the server's pushes).       *)
(***************************************************************************)
THEOREM DeliveryOrderInvariant == Spec => []DeliveryOrder
  BY DeliveryInvariant, PTL

-----------------------------------------------------------------------------
(* The refinement.                                                         *)

LEMMA ChannelInit == Init => Channel!Init
  BY DEF Init, ServerInit, Channel!Init

\* Each step of the endpoint is a step of the channel or leaves the
\* channel's state alone.
LEMMA ChannelStep ==
    TypeOK /\ DeliveryOrder /\ [Next]_vars => [Channel!Next]_(Channel!vars)
<1> SUFFICES ASSUME TypeOK, DeliveryOrder, [Next]_vars
             PROVE  [Channel!Next]_(Channel!vars)
  OBVIOUS
<1>. DEFINE Quiet == UNCHANGED <<subs, closed, published, delivered>>
<1>q. Quiet => [Channel!Next]_(Channel!vars)
  BY DEF Channel!vars
<1>1. ASSUME NEW s \in Scripts, Subscribe(s) PROVE Channel!Next
  BY <1>1 DEF Subscribe, Channel!Next, Channel!Subscribe
<1>2. ASSUME NEW s \in Scripts, Unsubscribe(s) PROVE Channel!Next
  BY <1>2 DEF Unsubscribe, Channel!Next, Channel!Unsubscribe
<1>3. CASE Close
  BY <1>3 DEF Close, Channel!Next, Channel!Close
<1>4. ASSUME NEW c \in Conns, OnMessage(c) PROVE Channel!Deliver
  <2>1. toClient[c] # << >> /\ 1 \in DOMAIN toClient[c]
    BY <1>4 DEF OnMessage, TypeOK, ServerTypeOK
  <2>2. /\ Head(toClient[c]) \in 1..Len(published)
        /\ \A i \in DOMAIN delivered : delivered[i] < Head(toClient[c])
    BY <2>1 DEF DeliveryOrder
  <2>3. QED
    BY <1>4, <2>2 DEF OnMessage, Channel!Deliver
<1>5. ASSUME NEW T \in Touched, Publish(T), UNCHANGED clientVars
      PROVE Channel!Next
  <2>1. T \in SUBSET Scripts /\ T # {}
    BY DEF Touched
  <2>2. Channel!Publish(T)
    BY <1>5, <2>1 DEF Publish, clientVars, Channel!Publish
  <2>3. QED
    BY <2>1, <2>2 DEF Channel!Next
<1>6. CASE WaitForOpen \/ WaitForOpenReturn
  <2>1. Quiet
    BY <1>6 DEF WaitForOpen, WaitForOpenReturn, serverVars
  <2>2. QED
    BY <2>1, <1>q
<1>7. ASSUME NEW c \in Conns, OnOpen(c) \/ OnClose(c) PROVE Quiet
  BY <1>7 DEF OnOpen, OnClose
<1>8. ASSUME NEW c \in Conns, NEW s \in Scripts,
             ServerReadReplay(c, s) \/ ServerReadFrame(c) \/ Fail(c),
             UNCHANGED clientVars
      PROVE Quiet
  BY <1>8 DEF ServerReadReplay, ServerReadFrame, Fail, clientVars
<1>9. CASE UNCHANGED vars
  BY <1>9, <1>q DEF vars, serverVars, clientVars
<1>10. CASE ClientNext
  BY <1>1, <1>2, <1>3, <1>4, <1>6, <1>7, <1>10, <1>q
     DEF ClientNext, Channel!Next
<1>11. CASE ServerNext /\ UNCHANGED clientVars
  <2>1. PICK s0 \in Scripts : TRUE
    BY ConstantsAssumption
  <2>2. QED
    BY <1>5, <1>8, <1>11, <1>q, <2>1 DEF ServerNext
<1>12. QED
  BY <1>9, <1>10, <1>11 DEF Next

(***************************************************************************)
(* WsEndpoint implements WsChannel for every value of the constants:       *)
(* whatever the connection failures, reconnects, close() and the server's *)
(* pushes, onMessage is called only with committed events, each at most    *)
(* once and in commit order (ChannelSpec, checked by TLC in ws_refine).    *)
(***************************************************************************)
THEOREM ChannelRefinement == Spec => ChannelSpec
<1>1. Spec => [](IInv /\ DeliveryOrder)
  BY DeliveryInvariant
<1>2. (IInv /\ DeliveryOrder) /\ [Next]_vars => [Channel!Next]_(Channel!vars)
  BY ChannelStep DEF IInv
<1>3. QED
  BY ChannelInit, <1>1, <1>2, PTL DEF Spec, ChannelSpec, Channel!Spec

=============================================================================
