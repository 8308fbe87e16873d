-------------------------- MODULE WsEndpointProofs --------------------------
(***************************************************************************)
(* Proofs about WsEndpoint for every value of the constants: type,         *)
(* SubsAgree, ClosedIsFinal and the permanence of a waitForOpen() hang,   *)
(* all from the inductive invariant IInv.                                  *)
(***************************************************************************)
EXTENDS WsEndpoint, SequenceTheorems, TLAPS

USE ConstantsAssumption, MaxCallsAssumption

\* Client-side part of TypeOK other than the Boolean _closed flag.
ClientTypeRest ==
    /\ subs \in SUBSET Scripts
    /\ cur \in Conns
    /\ waitOn \in 0..MaxConns
    /\ resolved \in SUBSET Conns
    /\ delivered \in Seq(EventIds)
    /\ calls \in 0..MaxCalls

LEMMA TypeSplit == TypeOK <=> ServerTypeOK /\ closed \in BOOLEAN /\ ClientTypeRest
  BY DEF TypeOK, ClientTypeRest

\* Every initial state satisfies the inductive invariant.
LEMMA InitIInv == Init => IInv
<1> SUFFICES ASSUME Init PROVE IInv
  OBVIOUS
<1>1. ServerTypeOK
  <2>1. << >> \in Seq(Frames) /\ << >> \in Seq(EventIds)
    OBVIOUS
  <2>2. QED
    BY <2>1 DEF Init, ServerInit, ServerTypeOK, Conns, SockStates
<1>2. TypeOK
  <2>1. closed \in BOOLEAN
    BY DEF Init
  <2>2. ClientTypeRest
    BY DEF Init, ClientTypeRest, Conns
  <2>3. QED
    BY <1>1, <2>1, <2>2, TypeSplit
<1>3. OtherSockets
  BY DEF Init, ServerInit, OtherSockets, Conns
<1>4. CurrentSocket
  BY DEF Init, ServerInit, CurrentSocket, Conns
<1>5. QED
  <2>1. Agreement
    BY DEF Init, ServerInit, Agreement, Conns
  <2>2. QED
    BY <1>2, <1>3, <1>4, <2>1 DEF IInv

LEMMA TypeStep == IInv /\ [Next]_vars => TypeOK'
<1> SUFFICES ASSUME IInv, [Next]_vars PROVE TypeOK'
  OBVIOUS
<1>0. TypeOK
  BY DEF IInv
<1>a. /\ ServerTypeOK /\ closed \in BOOLEAN /\ ClientTypeRest
  BY <1>0, TypeSplit
<1>b. SUFFICES ServerTypeOK' /\ closed' \in BOOLEAN /\ ClientTypeRest'
  BY Zenon DEF TypeOK, ClientTypeRest
<1>. USE DEF ServerTypeOK, ClientTypeRest, Conns, SockStates
<1>1. ASSUME NEW s \in Scripts, NEW b \in BOOLEAN,
             calls < MaxCalls, calls' = calls + 1, subs' \in SUBSET Scripts,
             SubUnsub(b, s),
             UNCHANGED <<sock, replay, reg, toClient, published,
                   closed, cur, waitOn, resolved, delivered>>
      PROVE ServerTypeOK' /\ closed' \in BOOLEAN /\ ClientTypeRest'
  <2>1. toServer' \in [Conns -> Seq(Frames)]
    <3>1. [sub |-> b, script |-> s] \in Frames
      BY DEF Frames
    <3>2. Append(toServer[cur], [sub |-> b, script |-> s]) \in Seq(Frames)
      BY <1>a, <3>1, AppendProperties
    <3>3. QED
      BY <1>a, <1>1, <3>2 DEF SubUnsub
  <2>2. closed' \in BOOLEAN
    BY <1>a, <1>1
  <2>3. QED
    BY <1>a, <1>1, <2>1, <2>2
<1>2. CASE Close
  <2>1. closed' \in BOOLEAN
    BY <1>2 DEF Close
  <2>2. sock' \in [Conns -> SockStates]
    <3>1. [sock EXCEPT ![cur] = "closing"] \in [Conns -> SockStates]
      BY <1>a
    <3>2. CASE sock[cur] \in {"connecting", "open"}
      BY <1>2, <3>1, <3>2 DEF Close
    <3>3. CASE sock[cur] \notin {"connecting", "open"}
      BY <1>a, <1>2, <3>3 DEF Close
    <3>4. QED
      BY <3>2, <3>3
  <2>3. QED
    BY <1>a, <1>2, <2>1, <2>2 DEF Close
<1>3. CASE WaitForOpen
  <2>1. closed' \in BOOLEAN
    BY <1>a, <1>3 DEF WaitForOpen
  <2>2. ServerTypeOK'
    BY <1>a, <1>3 DEF WaitForOpen, serverVars
  <2>3. ClientTypeRest'
    BY <1>a, <1>3 DEF WaitForOpen
  <2>4. QED
    BY <2>1, <2>2, <2>3
<1>14. CASE WaitForOpenReturn
  <2>1. closed' \in BOOLEAN
    BY <1>a, <1>14 DEF WaitForOpenReturn
  <2>2. ServerTypeOK'
    BY <1>a, <1>14 DEF WaitForOpenReturn, serverVars
  <2>3. ClientTypeRest'
    BY <1>a, <1>14 DEF WaitForOpenReturn
  <2>4. QED
    BY <2>1, <2>2, <2>3
<1>4. ASSUME NEW c \in Conns, OnOpen(c) PROVE ServerTypeOK' /\ closed' \in BOOLEAN /\ ClientTypeRest'
  <2>1. closed' \in BOOLEAN
    BY <1>a, <1>4 DEF OnOpen
  <2>2. QED
    BY <1>a, <1>4, <2>1 DEF OnOpen
<1>5. ASSUME NEW c \in Conns, OnMessage(c) PROVE ServerTypeOK' /\ closed' \in BOOLEAN /\ ClientTypeRest'
  <2>1. Head(toClient[c]) \in EventIds /\ Tail(toClient[c]) \in Seq(EventIds)
    BY <1>a, <1>5, HeadTailProperties DEF OnMessage
  <2>2. Append(delivered, Head(toClient[c])) \in Seq(EventIds)
    BY <1>a, <2>1, AppendProperties
  <2>3. closed' \in BOOLEAN
    BY <1>a, <1>5 DEF OnMessage
  <2>4. QED
    BY <1>a, <1>5, <2>1, <2>2, <2>3 DEF OnMessage
<1>6. ASSUME NEW c \in Conns, OnClose(c) PROVE ServerTypeOK' /\ closed' \in BOOLEAN /\ ClientTypeRest'
  <2>1. c = cur
    BY <1>6 DEF OnClose, IInv, OtherSockets
  <2>2. closed' \in BOOLEAN
    BY <1>a, <1>6 DEF OnClose
  <2>a. /\ replay' \in [Conns -> SUBSET Scripts]
        /\ toServer' \in [Conns -> Seq(Frames)]
        /\ reg' \in [Conns -> SUBSET Scripts]
        /\ toClient' \in [Conns -> Seq(EventIds)]
        /\ UNCHANGED <<published, subs, waitOn, resolved, delivered, calls>>
    BY <1>a, <1>6 DEF OnClose
  <2>3. CASE closed
    <3>1. sock' \in [Conns -> SockStates] /\ cur' = cur
      BY <1>a, <1>6, <2>3 DEF OnClose
    <3>2. QED
      BY <1>a, <2>a, <2>2, <3>1
  <2>4. CASE ~closed
    <3>1. c + 1 \in Conns
      BY <1>6, <2>1, <2>4 DEF OnClose, IInv, CurrentSocket
    <3>2. sock' \in [Conns -> SockStates] /\ cur' = c + 1
      BY <1>a, <1>6, <2>4, <3>1 DEF OnClose
    <3>3. QED
      BY <1>a, <2>a, <2>2, <3>1, <3>2
  <2>5. QED
    BY <2>3, <2>4
<1>7. ASSUME NEW c \in Conns, NEW s \in Scripts, ServerReadReplay(c, s),
             UNCHANGED clientVars
      PROVE ServerTypeOK' /\ closed' \in BOOLEAN /\ ClientTypeRest'
  <2>1. closed' \in BOOLEAN
    BY <1>a, <1>7 DEF clientVars
  <2>2. QED
    BY <1>a, <1>7, <2>1 DEF ServerReadReplay, clientVars
<1>8. ASSUME NEW c \in Conns, ServerReadFrame(c), UNCHANGED clientVars
      PROVE ServerTypeOK' /\ closed' \in BOOLEAN /\ ClientTypeRest'
  <2>1. Head(toServer[c]) \in Frames /\ Tail(toServer[c]) \in Seq(Frames)
    BY <1>a, <1>8, HeadTailProperties DEF ServerReadFrame
  <2>2. ApplyFrame(reg[c], Head(toServer[c])) \in SUBSET Scripts
    BY <1>a, <2>1 DEF ApplyFrame, Frames
  <2>3. closed' \in BOOLEAN
    BY <1>a, <1>8 DEF clientVars
  <2>4. QED
    BY <1>a, <1>8, <2>1, <2>2, <2>3 DEF ServerReadFrame, clientVars
<1>9. ASSUME NEW T \in Touched, Publish(T), UNCHANGED clientVars
      PROVE ServerTypeOK' /\ closed' \in BOOLEAN /\ ClientTypeRest'
  <2>1. Len(published) + 1 \in EventIds
    BY <1>a, <1>9 DEF Publish, EventIds
  <2>0. T \in SUBSET Scripts
    BY DEF Touched
  <2>2. \A c \in Conns : Append(toClient[c], Len(published) + 1) \in Seq(EventIds)
    BY <1>a, <2>1, AppendProperties
  <2>3. Append(published, T) \in Seq(SUBSET Scripts) /\ Len(Append(published, T)) = Len(published) + 1
    BY <1>a, <2>0, AppendProperties
  <2>4. closed' \in BOOLEAN
    BY <1>a, <1>9 DEF clientVars
  <2>5. QED
    BY <1>a, <1>9, <2>2, <2>3, <2>4 DEF Publish, clientVars
<1>10. ASSUME NEW c \in Conns, Fail(c), UNCHANGED clientVars
       PROVE ServerTypeOK' /\ closed' \in BOOLEAN /\ ClientTypeRest'
  <2>1. closed' \in BOOLEAN
    BY <1>a, <1>10 DEF clientVars
  <2>2. QED
    BY <1>a, <1>10, <2>1 DEF Fail, clientVars
<1>11. CASE UNCHANGED vars
  <2>1. closed' \in BOOLEAN
    BY <1>a, <1>11 DEF vars, clientVars
  <2>2. QED
    BY <1>a, <1>11, <2>1 DEF vars, serverVars, clientVars
<1>12. ASSUME NEW s \in Scripts, Subscribe(s) \/ Unsubscribe(s)
       PROVE ServerTypeOK' /\ closed' \in BOOLEAN /\ ClientTypeRest'
  <2>1. CASE Subscribe(s)
    <3>1. subs' \in SUBSET Scripts
      BY <1>a, <2>1 DEF Subscribe
    <3>2. QED
      BY <1>1, <2>1, <3>1 DEF Subscribe
  <2>2. CASE Unsubscribe(s)
    <3>1. subs' \in SUBSET Scripts
      BY <1>a, <2>2 DEF Unsubscribe
    <3>2. QED
      BY <1>1, <2>2, <3>1 DEF Unsubscribe
  <2>3. QED
    BY <1>12, <2>1, <2>2
<1>13. CASE ClientNext
  BY <1>13, <1>12, <1>2, <1>3, <1>14, <1>4, <1>5, <1>6 DEF ClientNext
<1>15. CASE ServerNext /\ UNCHANGED clientVars
  BY <1>15, <1>7, <1>8, <1>9, <1>10 DEF ServerNext
<1>16. QED
  BY <1>11, <1>13, <1>15 DEF Next

LEMMA SocketsStep == IInv /\ [Next]_vars => OtherSockets' /\ CurrentSocket'
<1> SUFFICES ASSUME IInv, [Next]_vars PROVE OtherSockets' /\ CurrentSocket'
  OBVIOUS
<1>0. /\ TypeOK /\ OtherSockets /\ CurrentSocket /\ TypeOK'
  BY TypeStep DEF IInv
<1>. USE DEF TypeOK, ServerTypeOK, Conns, SockStates
<1>1. ASSUME NEW s \in Scripts, NEW b \in BOOLEAN, SubUnsub(b, s),
             UNCHANGED <<sock, replay, reg, toClient, published, closed, cur>>
      PROVE OtherSockets' /\ CurrentSocket'
  <2>1. \A c \in Conns : (c # cur \/ sock[cur] # "open") => toServer'[c] = toServer[c]
    BY <1>0, <1>1 DEF SubUnsub
  <2>2. QED
    BY <1>0, <1>1, <2>1 DEF OtherSockets, CurrentSocket
<1>2. CASE Close
  BY <1>0, <1>2 DEF Close, OtherSockets, CurrentSocket
<1>3. CASE WaitForOpen \/ WaitForOpenReturn
  BY <1>0, <1>3 DEF WaitForOpen, WaitForOpenReturn, serverVars,
                     OtherSockets, CurrentSocket
<1>4. ASSUME NEW c \in Conns, OnOpen(c) PROVE OtherSockets' /\ CurrentSocket'
  <2>1. c = cur
    BY <1>0, <1>4 DEF OnOpen, OtherSockets
  <2>2. QED
    BY <1>0, <1>4, <2>1 DEF OnOpen, OtherSockets, CurrentSocket
<1>5. ASSUME NEW c \in Conns, OnMessage(c) PROVE OtherSockets' /\ CurrentSocket'
  BY <1>0, <1>5 DEF OnMessage, OtherSockets, CurrentSocket
<1>6. ASSUME NEW c \in Conns, OnClose(c) PROVE OtherSockets' /\ CurrentSocket'
  <2>1. c = cur
    BY <1>0, <1>6 DEF OnClose, OtherSockets
  <2>0. /\ \A d \in Conns \ {c} : /\ replay'[d] = replay[d]
                                  /\ toServer'[d] = toServer[d]
                                  /\ reg'[d] = reg[d]
        /\ replay'[c] = {} /\ toServer'[c] = << >> /\ reg'[c] = {}
    BY <1>0, <1>6 DEF OnClose
  <2>2. CASE closed
    <3>1. /\ sock' = [sock EXCEPT ![c] = "closed"]
          /\ cur' = cur /\ closed' = closed
      BY <1>6, <2>2 DEF OnClose
    <3>2. OtherSockets'
      <4> SUFFICES ASSUME NEW d \in Conns
                   PROVE  /\ d # cur' => sock'[d] \in {"none", "closed"}
                          /\ d > cur' => /\ sock'[d] = "none"
                                         /\ replay'[d] = {} /\ toServer'[d] = << >>
                                         /\ reg'[d] = {}
        BY DEF OtherSockets
      <4>1. CASE d = c
        BY <2>1, <3>1, <4>1
      <4>2. CASE d # c
        <5>1. sock'[d] = sock[d]
          BY <1>0, <3>1, <4>2
        <5>2. QED
          BY <1>0, <2>0, <2>1, <3>1, <4>2, <5>1 DEF OtherSockets
      <4>3. QED
        BY <4>1, <4>2
    <3>3. CurrentSocket'
      BY <1>0, <2>1, <2>2, <3>1 DEF CurrentSocket
    <3>4. QED
      BY <3>2, <3>3
  <2>3. CASE ~closed
    <3>1. c + 1 \in Conns /\ cur' = c + 1
      BY <1>0, <1>6, <2>1, <2>3 DEF OnClose, CurrentSocket
    <3>2. /\ sock' = [sock EXCEPT ![c] = "closed", ![c + 1] = "connecting"]
          /\ closed' = closed
      BY <1>6, <2>3 DEF OnClose
    <3>3. OtherSockets'
      <4> SUFFICES ASSUME NEW d \in Conns
                   PROVE  /\ d # cur' => sock'[d] \in {"none", "closed"}
                          /\ d > cur' => /\ sock'[d] = "none"
                                         /\ replay'[d] = {} /\ toServer'[d] = << >>
                                         /\ reg'[d] = {}
        BY DEF OtherSockets
      <4>1. CASE d = c
        BY <1>0, <2>1, <3>1, <3>2, <4>1
      <4>2. CASE d = c + 1
        BY <1>0, <2>1, <3>1, <3>2, <4>2
      <4>3. CASE d # c /\ d # c + 1
        <5>1. sock'[d] = sock[d]
          BY <1>0, <3>2, <4>3
        <5>2. /\ d # cur => sock[d] \in {"none", "closed"}
              /\ d > cur => /\ sock[d] = "none"
                            /\ replay[d] = {} /\ toServer[d] = << >> /\ reg[d] = {}
          BY <1>0 DEF OtherSockets
        <5>3. d # cur /\ (d > cur' => d > cur)
          BY <2>1, <3>1, <4>3
        <5>4. QED
          BY <2>0, <4>3, <5>1, <5>2, <5>3
      <4>4. QED
        BY <4>1, <4>2, <4>3
    <3>4. CurrentSocket'
      <4>1. sock'[cur'] = "connecting"
        BY <1>0, <3>1, <3>2
      <4>2. replay'[cur'] = {} /\ toServer'[cur'] = << >> /\ reg'[cur'] = {}
        <5>1. c + 1 > cur /\ c + 1 # c
          BY <2>1
        <5>2. replay[c + 1] = {} /\ toServer[c + 1] = << >> /\ reg[c + 1] = {}
          BY <3>1, <5>1, <1>0 DEF OtherSockets
        <5>3. QED
          BY <2>0, <3>1, <5>1, <5>2
      <4>3. QED
        BY <2>3, <3>2, <4>1, <4>2 DEF CurrentSocket
    <3>5. QED
      BY <3>3, <3>4
  <2>4. QED
    BY <2>2, <2>3
<1>7. ASSUME NEW c \in Conns, NEW s \in Scripts, ServerReadReplay(c, s),
             UNCHANGED clientVars
      PROVE OtherSockets' /\ CurrentSocket'
  BY <1>0, <1>7 DEF ServerReadReplay, clientVars, OtherSockets, CurrentSocket
<1>8. ASSUME NEW c \in Conns, ServerReadFrame(c), UNCHANGED clientVars
      PROVE OtherSockets' /\ CurrentSocket'
  BY <1>0, <1>8 DEF ServerReadFrame, clientVars, OtherSockets, CurrentSocket
<1>9. ASSUME NEW T \in Touched, Publish(T), UNCHANGED clientVars
      PROVE OtherSockets' /\ CurrentSocket'
  BY <1>0, <1>9 DEF Publish, clientVars, OtherSockets, CurrentSocket
<1>10. ASSUME NEW c \in Conns, Fail(c), UNCHANGED clientVars
       PROVE OtherSockets' /\ CurrentSocket'
  <2>1. c = cur
    BY <1>0, <1>10 DEF Fail, OtherSockets
  <2>2. QED
    BY <1>0, <1>10, <2>1 DEF Fail, clientVars, OtherSockets, CurrentSocket
<1>11. CASE UNCHANGED vars
  BY <1>0, <1>11 DEF vars, serverVars, clientVars, OtherSockets, CurrentSocket
<1>12. ASSUME NEW s \in Scripts, Subscribe(s) \/ Unsubscribe(s)
       PROVE OtherSockets' /\ CurrentSocket'
  BY <1>1, <1>12 DEF Subscribe, Unsubscribe
<1>13. CASE ClientNext
  BY <1>13, <1>12, <1>2, <1>3, <1>4, <1>5, <1>6 DEF ClientNext
<1>14. CASE ServerNext /\ UNCHANGED clientVars
  BY <1>14, <1>7, <1>8, <1>9, <1>10 DEF ServerNext
<1>15. QED
  BY <1>11, <1>13, <1>14 DEF Next

\* Appending a frame for script s makes it the last frame for s.
LEMMA AppendSame ==
  ASSUME NEW q \in Seq(Frames), NEW f \in Frames, NEW s \in Scripts, f.script = s
  PROVE  LET q2 == Append(q, f) IN
         /\ \E i \in 1..Len(q2) : q2[i].script = s
         /\ \A i \in 1..Len(q2) : IsLastFor(q2, i, s) => q2[i] = f
<1>1. /\ Len(Append(q, f)) = Len(q) + 1
      /\ Append(q, f)[Len(q) + 1] = f
      /\ Len(q) \in Nat
  BY AppendProperties
<1>2. QED
  BY <1>1 DEF IsLastFor

\* Appending a frame for another script leaves the frames for s as they were.
LEMMA AppendOther ==
  ASSUME NEW q \in Seq(Frames), NEW f \in Frames, NEW s \in Scripts, f.script # s
  PROVE  LET q2 == Append(q, f) IN
         /\ (\E i \in 1..Len(q2) : q2[i].script = s) <=>
            (\E i \in 1..Len(q) : q[i].script = s)
         /\ \A i \in 1..Len(q2) : IsLastFor(q2, i, s) =>
               i \in 1..Len(q) /\ IsLastFor(q, i, s) /\ q2[i] = q[i]
<1>1. /\ Len(Append(q, f)) = Len(q) + 1
      /\ Append(q, f)[Len(q) + 1] = f
      /\ \A i \in 1..Len(q) : Append(q, f)[i] = q[i]
      /\ Len(q) \in Nat
  BY AppendProperties
<1>2. QED
  BY <1>1 DEF IsLastFor

\* The last frame for s in the tail of q is the last one for s in q.
LEMMA TailLast ==
  ASSUME NEW q \in Seq(Frames), q # << >>, NEW s \in Scripts
  PROVE  /\ \A i \in 1..Len(Tail(q)) :
               IsLastFor(Tail(q), i, s) => IsLastFor(q, i + 1, s) /\ Tail(q)[i] = q[i + 1]
         /\ Head(q).script # s =>
               ((\E i \in 1..Len(Tail(q)) : Tail(q)[i].script = s) <=>
                (\E i \in 1..Len(q) : q[i].script = s))
         /\ (Head(q).script = s /\ ~\E i \in 1..Len(Tail(q)) : Tail(q)[i].script = s)
               => IsLastFor(q, 1, s)
<1>1. /\ Len(Tail(q)) = Len(q) - 1
      /\ \A i \in 1..Len(Tail(q)) : Tail(q)[i] = q[i + 1]
      /\ Head(q) = q[1]
      /\ Len(q) \in Nat \ {0}
  BY HeadTailProperties, EmptySeq, LenProperties
<1>2. \A i \in 1..Len(Tail(q)) :
        IsLastFor(Tail(q), i, s) => IsLastFor(q, i + 1, s) /\ Tail(q)[i] = q[i + 1]
  <2> SUFFICES ASSUME NEW i \in 1..Len(Tail(q)), IsLastFor(Tail(q), i, s)
               PROVE  IsLastFor(q, i + 1, s) /\ Tail(q)[i] = q[i + 1]
    OBVIOUS
  <2>1. q[i + 1].script = s
    BY <1>1 DEF IsLastFor
  <2>2. \A j \in (i + 2)..Len(q) : q[j].script # s
    <3> SUFFICES ASSUME NEW j \in (i + 2)..Len(q) PROVE q[j].script # s
      OBVIOUS
    <3>1. j - 1 \in (i + 1)..Len(Tail(q)) /\ Tail(q)[j - 1] = q[j]
      BY <1>1
    <3>2. QED
      BY <3>1 DEF IsLastFor
  <2>3. QED
    BY <1>1, <2>1, <2>2 DEF IsLastFor
<1>3. Head(q).script # s =>
        ((\E i \in 1..Len(Tail(q)) : Tail(q)[i].script = s) <=>
         (\E i \in 1..Len(q) : q[i].script = s))
  <2> SUFFICES ASSUME Head(q).script # s
               PROVE  (\E i \in 1..Len(Tail(q)) : Tail(q)[i].script = s) <=>
                      (\E i \in 1..Len(q) : q[i].script = s)
    OBVIOUS
  <2>1. ASSUME NEW i \in 1..Len(q), q[i].script = s
        PROVE  \E k \in 1..Len(Tail(q)) : Tail(q)[k].script = s
    <3>1. i # 1
      BY <1>1, <2>1
    <3>2. i - 1 \in 1..Len(Tail(q)) /\ Tail(q)[i - 1] = q[i]
      BY <1>1, <3>1
    <3>3. QED
      BY <2>1, <3>2
  <2>2. QED
    BY <1>1, <2>1
<1>4. (Head(q).script = s /\ ~\E i \in 1..Len(Tail(q)) : Tail(q)[i].script = s)
        => IsLastFor(q, 1, s)
  <2> SUFFICES ASSUME Head(q).script = s,
                      ~\E i \in 1..Len(Tail(q)) : Tail(q)[i].script = s
               PROVE  IsLastFor(q, 1, s)
    OBVIOUS
  <2>1. \A j \in 2..Len(q) : q[j].script # s
    <3> SUFFICES ASSUME NEW j \in 2..Len(q) PROVE q[j].script # s
      OBVIOUS
    <3>1. j - 1 \in 1..Len(Tail(q)) /\ Tail(q)[j - 1] = q[j]
      BY <1>1
    <3>2. QED
      BY <3>1
  <2>2. QED
    BY <1>1, <2>1 DEF IsLastFor
<1>5. QED
  BY <1>2, <1>3, <1>4

\* Steps after which the current socket is not open say nothing.
LEMMA AgreementStep == IInv /\ [Next]_vars => Agreement'
<1> SUFFICES ASSUME IInv, [Next]_vars PROVE Agreement'
  OBVIOUS
<1>0. /\ TypeOK /\ OtherSockets /\ CurrentSocket /\ Agreement
      /\ TypeOK' /\ OtherSockets' /\ CurrentSocket'
  BY TypeStep, SocketsStep DEF IInv
<1>. USE DEF TypeOK, ServerTypeOK, Conns, SockStates
<1>1. ASSUME NEW s0 \in Scripts, NEW b \in BOOLEAN,
             subs' = IF b THEN subs \cup {s0} ELSE subs \ {s0},
             SubUnsub(b, s0),
             UNCHANGED <<sock, replay, reg, cur>>
      PROVE Agreement'
  <2> SUFFICES ASSUME sock[cur] = "open", NEW s \in Scripts PROVE Agree(s)'
    BY <1>1 DEF Agreement
  <2> DEFINE q == toServer[cur]
             f == [sub |-> b, script |-> s0]
  <2>1. q \in Seq(Frames) /\ f \in Frames
    BY <1>0 DEF Frames
  <2>2. toServer'[cur] = Append(q, f)
    BY <1>0, <1>1 DEF SubUnsub
  <2>3. CASE s = s0
    <3>1. s \in subs' <=> b
      BY <1>1, <2>3
    <3>2. QED
      BY <1>1, <2>1, <2>2, <2>3, <3>1, AppendSame DEF Agree
  <2>4. CASE s # s0
    <3>1. s \in subs' <=> s \in subs
      BY <1>1, <2>4
    <3>2. Agree(s)
      BY <1>0 DEF Agreement
    <3>3. QED
      BY <1>1, <2>1, <2>2, <2>4, <3>1, <3>2, AppendOther DEF Agree
  <2>5. QED
    BY <2>3, <2>4
<1>2. CASE Close
  <2>1. sock'[cur'] # "open"
    BY <1>0, <1>2 DEF Close
  <2>2. QED
    BY <2>1 DEF Agreement
<1>3. CASE WaitForOpen \/ WaitForOpenReturn \/ UNCHANGED vars
  BY <1>0, <1>3 DEF WaitForOpen, WaitForOpenReturn, vars, serverVars, clientVars,
                     Agreement, Agree
<1>4. ASSUME NEW c \in Conns, OnOpen(c) PROVE Agreement'
  <2>1. c = cur /\ sock[cur] = "connecting"
    BY <1>0, <1>4 DEF OnOpen, OtherSockets
  <2>2. toServer[cur] = << >> /\ reg[cur] = {}
    BY <1>0, <2>1 DEF CurrentSocket
  <2>3. /\ toServer' = toServer /\ reg' = reg /\ cur' = cur /\ subs' = subs
        /\ replay'[cur] = subs
    BY <1>0, <1>4, <2>1 DEF OnOpen
  <2>4. QED
    BY <2>2, <2>3 DEF Agreement, Agree
<1>5. ASSUME NEW c \in Conns, OnMessage(c) PROVE Agreement'
  BY <1>0, <1>5 DEF OnMessage, Agreement, Agree
<1>6. ASSUME NEW c \in Conns, OnClose(c) PROVE Agreement'
  <2>1. c = cur
    BY <1>0, <1>6 DEF OnClose, OtherSockets
  <2>2. CASE closed
    <3>1. sock'[cur'] = "closed"
      BY <1>0, <1>6, <2>1, <2>2 DEF OnClose
    <3>2. QED
      BY <3>1 DEF Agreement
  <2>3. CASE ~closed
    <3>1. sock'[cur'] = "connecting"
      BY <1>0, <1>6, <2>1, <2>3 DEF OnClose
    <3>2. QED
      BY <3>1 DEF Agreement
  <2>4. QED
    BY <2>2, <2>3
<1>7. ASSUME NEW c \in Conns, NEW s0 \in Scripts, ServerReadReplay(c, s0),
             UNCHANGED clientVars
      PROVE Agreement'
  <2>1. c = cur
    BY <1>0, <1>7 DEF ServerReadReplay, OtherSockets
  <2> SUFFICES ASSUME sock[cur] = "open", NEW s \in Scripts PROVE Agree(s)'
    BY <1>7 DEF Agreement, ServerReadReplay, clientVars
  <2>2. /\ toServer' = toServer /\ cur' = cur /\ subs' = subs
        /\ replay'[cur] \cup reg'[cur] = replay[cur] \cup reg[cur]
    BY <1>0, <1>7, <2>1 DEF ServerReadReplay, clientVars
  <2>3. Agree(s)
    BY <1>0 DEF Agreement
  <2>4. QED
    BY <2>2, <2>3 DEF Agree
<1>8. ASSUME NEW c \in Conns, ServerReadFrame(c), UNCHANGED clientVars
      PROVE Agreement'
  <2>1. c = cur
    BY <1>0, <1>8 DEF ServerReadFrame, OtherSockets
  <2> SUFFICES ASSUME sock[cur] = "open", NEW s \in Scripts PROVE Agree(s)'
    BY <1>8 DEF Agreement, ServerReadFrame, clientVars
  <2> DEFINE q == toServer[cur]
  <2>2. q \in Seq(Frames) /\ q # << >> /\ replay[cur] = {}
    BY <1>0, <1>8, <2>1 DEF ServerReadFrame
  <2>3. /\ toServer'[cur] = Tail(q) /\ cur' = cur /\ subs' = subs
        /\ replay'[cur] = {}
        /\ reg'[cur] = ApplyFrame(reg[cur], Head(q))
    BY <1>0, <1>8, <2>1, <2>2 DEF ServerReadFrame, clientVars
  <2>4. Agree(s)
    BY <1>0 DEF Agreement
  <2>5. Head(q) \in Frames
    BY <2>2, HeadTailProperties
  <2>6. CASE \E i \in 1..Len(Tail(q)) : Tail(q)[i].script = s
    <3>1. \E i \in 1..Len(q) : q[i].script = s
      <4>1. PICK i \in 1..Len(Tail(q)) : Tail(q)[i].script = s
        BY <2>6
      <4>2. i + 1 \in 1..Len(q) /\ Tail(q)[i] = q[i + 1]
        BY <2>2, HeadTailProperties
      <4>3. QED
        BY <4>1, <4>2
    <3>2. \A i \in 1..Len(q) : IsLastFor(q, i, s) => (q[i].sub <=> s \in subs)
      BY <2>4, <3>1 DEF Agree
    <3>3. \A i \in 1..Len(Tail(q)) :
            IsLastFor(Tail(q), i, s) => (Tail(q)[i].sub <=> s \in subs)
      <4> SUFFICES ASSUME NEW i \in 1..Len(Tail(q)), IsLastFor(Tail(q), i, s)
                   PROVE  Tail(q)[i].sub <=> s \in subs
        OBVIOUS
      <4>1. IsLastFor(q, i + 1, s) /\ Tail(q)[i] = q[i + 1]
        BY <2>2, TailLast
      <4>2. i + 1 \in 1..Len(q)
        BY <2>2, HeadTailProperties
      <4>3. QED
        BY <3>2, <4>1, <4>2
    <3>4. QED
      BY <2>3, <2>6, <3>3 DEF Agree
  <2>7. CASE ~\E i \in 1..Len(Tail(q)) : Tail(q)[i].script = s
    <3>1. CASE Head(q).script = s
      <4>1. IsLastFor(q, 1, s) /\ 1 \in 1..Len(q) /\ Head(q) = q[1]
        BY <2>2, <2>7, <3>1, TailLast, EmptySeq, LenProperties
      <4>2. Head(q).sub <=> s \in subs
        BY <2>4, <4>1 DEF Agree, IsLastFor
      <4>3. QED
        BY <2>3, <2>5, <2>7, <3>1, <4>2 DEF Agree, ApplyFrame, Frames
    <3>2. CASE Head(q).script # s
      <4>1. ~\E i \in 1..Len(q) : q[i].script = s
        BY <2>2, <2>7, <3>2, TailLast
      <4>2. s \in reg'[cur] <=> s \in reg[cur]
        BY <2>3, <2>5, <3>2 DEF ApplyFrame, Frames
      <4>3. QED
        BY <2>2, <2>3, <2>4, <2>7, <4>1, <4>2 DEF Agree
    <3>3. QED
      BY <3>1, <3>2
  <2>8. QED
    BY <2>6, <2>7
<1>9. ASSUME NEW T \in Touched, Publish(T), UNCHANGED clientVars
      PROVE Agreement'
  BY <1>0, <1>9 DEF Publish, clientVars, Agreement, Agree
<1>10. ASSUME NEW c \in Conns, Fail(c), UNCHANGED clientVars PROVE Agreement'
  <2>1. c = cur
    BY <1>0, <1>10 DEF Fail, OtherSockets
  <2>2. sock'[cur'] = "closing"
    BY <1>0, <1>10, <2>1 DEF Fail, clientVars
  <2>3. QED
    BY <2>2 DEF Agreement
<1>11. ASSUME NEW s \in Scripts, Subscribe(s) \/ Unsubscribe(s) PROVE Agreement'
  <2>1. CASE Subscribe(s)
    BY <1>1, <2>1 DEF Subscribe
  <2>2. CASE Unsubscribe(s)
    BY <1>1, <2>2 DEF Unsubscribe
  <2>3. QED
    BY <1>11, <2>1, <2>2
<1>12. CASE ClientNext
  BY <1>12, <1>11, <1>2, <1>3, <1>4, <1>5, <1>6 DEF ClientNext
<1>13. CASE ServerNext /\ UNCHANGED clientVars
  BY <1>13, <1>7, <1>8, <1>9, <1>10 DEF ServerNext
<1>14. QED
  BY <1>3, <1>12, <1>13 DEF Next

\* The inductive step: IInv is preserved by every step of Next.
LEMMA NextIInv == IInv /\ [Next]_vars => IInv'
  BY TypeStep, SocketsStep, AgreementStep DEF IInv

\* IInv yields SubsAgree: with nothing left in flight on the open current
\* socket, Agree(s) reduces to s \in subs <=> s \in reg[cur].
LEMMA IInvSubsAgree == IInv => SubsAgree
<1> SUFFICES ASSUME IInv, sock[cur] = "open", replay[cur] = {},
                    toServer[cur] = << >>
             PROVE  reg[cur] = subs
  BY DEF SubsAgree
<1>1. \A s \in Scripts : s \in subs <=> s \in reg[cur]
  <2> SUFFICES ASSUME NEW s \in Scripts PROVE s \in subs <=> s \in reg[cur]
    OBVIOUS
  <2>1. Agree(s)
    BY DEF IInv, Agreement
  <2>2. ~\E i \in 1..Len(toServer[cur]) : toServer[cur][i].script = s
    OBVIOUS
  <2>3. QED
    BY <2>1, <2>2 DEF Agree
<1>2. reg[cur] \subseteq Scripts /\ subs \subseteq Scripts
  BY DEF IInv, TypeOK, ServerTypeOK, Conns
<1>3. QED
  BY <1>1, <1>2

(***************************************************************************)
(* Type correctness of the client and the connection, for every set of    *)
(* scripts and every bound on sockets, events and calls.                   *)
(***************************************************************************)
THEOREM TypeCorrect == Spec => []TypeOK
<1>1. IInv => TypeOK
  BY DEF IInv
<1>2. QED
  BY InitIInv, NextIInv, <1>1, PTL DEF Spec

(***************************************************************************)
(* SubsAgree for every value of the constants: whenever the server has    *)
(* read everything the client sent over the open current socket, its      *)
(* registry is exactly the client's _subs, across any number of            *)
(* connection failures, reconnects and replays.                            *)
(***************************************************************************)
THEOREM SubsAgreeInvariant == Spec => []SubsAgree
  BY InitIInv, NextIInv, IInvSubsAgree, PTL DEF Spec

(***************************************************************************)
(* Agreement for every value of the constants: at every moment the frames *)
(* in flight on the open current socket, read in order after the replay,  *)
(* bring the server's registry to _subs, whatever subscribes, unsubscribes,*)
(* failures and reconnects came before.                                    *)
(***************************************************************************)
THEOREM AgreementInvariant == Spec => []Agreement
<1>1. IInv => Agreement
  BY DEF IInv
<1>2. QED
  BY InitIInv, NextIInv, <1>1, PTL DEF Spec

(***************************************************************************)
(* One step from a closed endpoint: closed is never reset, onclose does   *)
(* not reconnect, and since the current socket is closing or closed no     *)
(* frame is sent and onopen cannot run.                                    *)
(***************************************************************************)
LEMMA ClosedStep == IInv /\ [Next]_vars => ClosedStays
<1> SUFFICES ASSUME IInv, [Next]_vars, closed = TRUE
             PROVE  /\ closed' = TRUE
                    /\ cur' = cur
                    /\ \A c \in Conns :
                          /\ Len(toServer'[c]) <= Len(toServer[c])
                          /\ replay'[c] \subseteq replay[c]
  BY Zenon DEF ClosedStays
<1>0. /\ TypeOK /\ OtherSockets /\ CurrentSocket
      /\ sock[cur] \in {"closing", "closed"}
  BY DEF IInv, CurrentSocket
<1>. USE DEF TypeOK, ServerTypeOK, Conns, SockStates
<1>1. ASSUME NEW s \in Scripts, Subscribe(s) \/ Unsubscribe(s)
      PROVE  /\ cur' = cur /\ toServer' = toServer /\ replay' = replay
  <2>1. toServer' = toServer
    BY <1>0, <1>1 DEF Subscribe, Unsubscribe, SubUnsub
  <2>2. QED
    BY <1>1, <2>1 DEF Subscribe, Unsubscribe
<1>2. ASSUME Close \/ WaitForOpen \/ WaitForOpenReturn \/ UNCHANGED vars
      PROVE  /\ cur' = cur /\ toServer' = toServer /\ replay' = replay
  BY <1>2 DEF Close, WaitForOpen, WaitForOpenReturn, vars, serverVars,
              clientVars
<1>3. ASSUME NEW c \in Conns, OnOpen(c) PROVE FALSE
  BY <1>0, <1>3 DEF OnOpen, OtherSockets
<1>4. ASSUME NEW c \in Conns, OnMessage(c)
      PROVE  /\ cur' = cur /\ toServer' = toServer /\ replay' = replay
  BY <1>4 DEF OnMessage
<1>5. ASSUME NEW c \in Conns, OnClose(c)
      PROVE  /\ cur' = cur
             /\ toServer' = [toServer EXCEPT ![c] = << >>]
             /\ replay' = [replay EXCEPT ![c] = {}]
  BY <1>5 DEF OnClose
<1>6. ASSUME NEW c \in Conns, NEW s \in Scripts, ServerReadReplay(c, s),
             UNCHANGED clientVars
      PROVE  /\ cur' = cur /\ toServer' = toServer
             /\ replay' = [replay EXCEPT ![c] = @ \ {s}]
  BY <1>6 DEF ServerReadReplay, clientVars
<1>7. ASSUME NEW c \in Conns, ServerReadFrame(c), UNCHANGED clientVars
      PROVE  /\ cur' = cur /\ replay' = replay
             /\ toServer' = [toServer EXCEPT ![c] = Tail(@)]
             /\ toServer[c] # << >>
  BY <1>7 DEF ServerReadFrame, clientVars
<1>8. ASSUME NEW T \in Touched, Publish(T), UNCHANGED clientVars
      PROVE  /\ cur' = cur /\ toServer' = toServer /\ replay' = replay
  BY <1>8 DEF Publish, clientVars
<1>9. ASSUME NEW c \in Conns, Fail(c), UNCHANGED clientVars
      PROVE  /\ cur' = cur
             /\ toServer' = [toServer EXCEPT ![c] = << >>]
             /\ replay' = [replay EXCEPT ![c] = {}]
  BY <1>9 DEF Fail, clientVars
<1>10. ASSUME NEW c \in Conns
       PROVE  /\ \A d \in Conns :
                    Len([toServer EXCEPT ![c] = << >>][d]) <= Len(toServer[d])
              /\ toServer[c] # << >> =>
                   \A d \in Conns :
                     Len([toServer EXCEPT ![c] = Tail(@)][d]) <= Len(toServer[d])
              /\ \A d \in Conns : [replay EXCEPT ![c] = {}][d] \subseteq replay[d]
              /\ \A s \in Scripts, d \in Conns :
                    [replay EXCEPT ![c] = @ \ {s}][d] \subseteq replay[d]
  <2>1. toServer[c] # << >> =>
          \A d \in Conns :
            Len([toServer EXCEPT ![c] = Tail(@)][d]) <= Len(toServer[d])
    <3> SUFFICES ASSUME toServer[c] # << >>, NEW d \in Conns
                 PROVE  Len([toServer EXCEPT ![c] = Tail(@)][d]) <= Len(toServer[d])
      OBVIOUS
    <3>1. CASE d = c
      <4>1. Len(Tail(toServer[c])) = Len(toServer[c]) - 1
        BY <1>0, HeadTailProperties
      <4>2. QED
        BY <1>0, <3>1, <4>1
    <3>2. CASE d # c
      BY <1>0, <3>2
    <3>3. QED
      BY <3>1, <3>2
  <2>2. \A d \in Conns :
          Len([toServer EXCEPT ![c] = << >>][d]) <= Len(toServer[d])
    <3> SUFFICES ASSUME NEW d \in Conns
                 PROVE  Len([toServer EXCEPT ![c] = << >>][d]) <= Len(toServer[d])
      OBVIOUS
    <3>1. CASE d = c
      BY <1>0, <3>1
    <3>2. CASE d # c
      BY <1>0, <3>2
    <3>3. QED
      BY <3>1, <3>2
  <2>3. \A d \in Conns : [replay EXCEPT ![c] = {}][d] \subseteq replay[d]
    BY <1>0
  <2>4. \A s \in Scripts, d \in Conns :
          [replay EXCEPT ![c] = @ \ {s}][d] \subseteq replay[d]
    BY <1>0
  <2>5. QED
    BY <2>1, <2>2, <2>3, <2>4
<1>11. ASSUME ClientNext
       PROVE  /\ cur' = cur
              /\ \A c \in Conns :
                    /\ Len(toServer'[c]) <= Len(toServer[c])
                    /\ replay'[c] \subseteq replay[c]
  <2>1. CASE \E s \in Scripts : Subscribe(s) \/ Unsubscribe(s)
    BY <1>0, <1>1, <2>1
  <2>2. CASE Close \/ WaitForOpen \/ WaitForOpenReturn
    BY <1>0, <1>2, <2>2
  <2>3. CASE \E c \in Conns : OnOpen(c)
    BY <1>0, <1>3, <2>3
  <2>4. CASE \E c \in Conns : OnMessage(c)
    BY <1>0, <1>4, <2>4
  <2>5. CASE \E c \in Conns : OnClose(c)
    <3>1. PICK c \in Conns : OnClose(c)
      BY <2>5
    <3>2. QED
      BY <1>5, <1>10, <3>1
  <2>6. QED
    BY <1>11, <2>1, <2>2, <2>3, <2>4, <2>5 DEF ClientNext
<1>12. ASSUME ServerNext, UNCHANGED clientVars
       PROVE  /\ cur' = cur
              /\ \A c \in Conns :
                    /\ Len(toServer'[c]) <= Len(toServer[c])
                    /\ replay'[c] \subseteq replay[c]
  <2>1. CASE \E c \in Conns, s \in Scripts : ServerReadReplay(c, s)
    <3>1. PICK c \in Conns, s \in Scripts : ServerReadReplay(c, s)
      BY <2>1
    <3>2. \A d \in Conns : replay'[d] \subseteq replay[d]
      BY <1>6, <1>10, <1>12, <3>1
    <3>3. toServer' = toServer
      BY <1>6, <1>12, <3>1
    <3>4. \A d \in Conns : Len(toServer'[d]) <= Len(toServer[d])
      BY <1>0, <3>3
    <3>5. QED
      BY <1>6, <1>12, <3>1, <3>2, <3>4
  <2>2. CASE \E c \in Conns : ServerReadFrame(c)
    <3>1. PICK c \in Conns : ServerReadFrame(c)
      BY <2>2
    <3>2. QED
      BY <1>0, <1>7, <1>10, <1>12, <3>1
  <2>3. CASE \E T \in Touched : Publish(T)
    <3>1. PICK T \in Touched : Publish(T)
      BY <2>3
    <3>2. cur' = cur /\ toServer' = toServer /\ replay' = replay
      BY <1>8, <1>12, <3>1
    <3>3. QED
      BY <1>0, <3>2
  <2>4. CASE \E c \in Conns : Fail(c)
    <3>1. PICK c \in Conns : Fail(c)
      BY <2>4
    <3>2. QED
      BY <1>9, <1>10, <1>12, <3>1
  <2>5. QED
    BY <1>12, <2>1, <2>2, <2>3, <2>4 DEF ServerNext
<1>13. /\ cur' = cur
       /\ \A c \in Conns :
             /\ Len(toServer'[c]) <= Len(toServer[c])
             /\ replay'[c] \subseteq replay[c]
  BY <1>2, <1>11, <1>12 DEF Next
<1>14. closed' = TRUE
  <2>1. closed' = closed \/ closed' = TRUE
    BY Zenon DEF Next, ClientNext, ServerNext, Subscribe, Unsubscribe, Close,
                 WaitForOpen, WaitForOpenReturn, OnOpen, OnMessage, OnClose,
                 vars, clientVars
  <2>2. QED
    BY <2>1
<1>15. QED
  BY <1>13, <1>14

(***************************************************************************)
(* ClosedIsFinal for every value of the constants: after close() the      *)
(* endpoint never reconnects, never replays and never sends a frame,       *)
(* whichever order close() and the onclose of a failed socket run in.      *)
(***************************************************************************)
THEOREM ClosedIsFinalHolds == Spec => ClosedIsFinal
<1>1. []IInv /\ [][Next]_vars => [][ClosedStays]_vars
  BY ClosedStep, PTL
<1>2. QED
  BY InitIInv, NextIInv, <1>1, PTL DEF Spec, ClosedIsFinal


(***************************************************************************)
(* One step from a hung waitForOpen(): waitOn is reset only by the return,  *)
(* which needs the awaited promise resolved; a promise is resolved only by *)
(* the onopen of a connecting socket; and a closed socket is never reopened *)
(* (onclose and a failure touch a closing, connecting or open socket, and  *)
(* the next socket onclose creates was never created before).              *)
(***************************************************************************)
LEMMA WaitHungStep == IInv /\ [Next]_vars /\ WaitHung => WaitHung'
<1> SUFFICES ASSUME IInv, [Next]_vars, WaitHung PROVE WaitHung'
  OBVIOUS
<1>0. /\ TypeOK /\ OtherSockets
      /\ waitOn \in Conns
  BY DEF IInv, WaitHung, TypeOK, Conns
<1>. USE DEF TypeOK, ServerTypeOK, Conns, SockStates
<1>1. ASSUME NEW s \in Scripts, Subscribe(s) \/ Unsubscribe(s) PROVE WaitHung'
  BY <1>1 DEF Subscribe, Unsubscribe, WaitHung
<1>2. CASE Close
  BY <1>0, <1>2 DEF Close, WaitHung
<1>3. CASE WaitForOpen \/ WaitForOpenReturn
  BY <1>3 DEF WaitForOpen, WaitForOpenReturn, WaitHung
<1>4. ASSUME NEW c \in Conns, OnOpen(c) PROVE WaitHung'
  <2>1. c # waitOn
    BY <1>4 DEF OnOpen, WaitHung
  <2>2. QED
    BY <1>0, <1>4, <2>1 DEF OnOpen, WaitHung
<1>5. ASSUME NEW c \in Conns, OnMessage(c) PROVE WaitHung'
  BY <1>5 DEF OnMessage, WaitHung
<1>6. ASSUME NEW c \in Conns, OnClose(c) PROVE WaitHung'
  <2>1. c # waitOn /\ c = cur
    BY <1>0, <1>6 DEF OnClose, WaitHung, OtherSockets
  <2>2. c + 1 # waitOn
    BY <1>0, <2>1 DEF WaitHung, OtherSockets
  <2>3. QED
    BY <1>0, <1>6, <2>1, <2>2 DEF OnClose, WaitHung
<1>7. CASE ServerNext /\ UNCHANGED clientVars
  <2>1. ASSUME NEW c \in Conns, Fail(c) PROVE sock'[waitOn] = "closed"
    BY <1>0, <2>1 DEF Fail, WaitHung
  <2>2. sock'[waitOn] = "closed"
    BY <1>7, <2>1 DEF ServerNext, ServerReadReplay, ServerReadFrame, Publish,
                      WaitHung
  <2>3. QED
    BY <1>7, <2>2 DEF WaitHung, clientVars
<1>8. CASE UNCHANGED vars
  BY <1>8 DEF vars, serverVars, clientVars, WaitHung
<1>9. QED
  BY <1>1, <1>2, <1>3, <1>4, <1>5, <1>6, <1>7, <1>8 DEF Next, ClientNext

(***************************************************************************)
(* The waitForOpen() hang of run ws_wait_hang, for every value of the      *)
(* constants: once the socket a pending waitForOpen() awaits has closed   *)
(* without opening, every later step leaves the call pending on a promise *)
(* that is never resolved, so waitForOpen() never returns.                 *)
(***************************************************************************)
THEOREM WaitHangPermanentHolds == Spec => WaitHangPermanent
<1>1. []IInv /\ [][Next]_vars => [][WaitHung => WaitHung']_vars
  BY WaitHungStep, PTL
<1>2. QED
  BY InitIInv, NextIInv, <1>1, PTL DEF Spec, WaitHangPermanent

=============================================================================
