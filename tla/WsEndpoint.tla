----------------------------- MODULE WsEndpoint -----------------------------
(***************************************************************************)
(* The chronik client's WebSocket endpoint, class WsEndpoint of            *)
(* src/ts/chronik-client/index.ts, composed with the server end and the    *)
(* connection of module WsServer.                                          *)
(*                                                                         *)
(* The client runs on a JavaScript event loop: each public method and each *)
(* socket callback (onopen, onmessage, onclose) runs to completion, so     *)
(* each is one atomic action.  Every _connect() creates a fresh socket;    *)
(* the model numbers them 1, 2, ... and cur is the one in this._ws.        *)
(*                                                                         *)
(* Data abstraction: a (scriptType, scriptPayload) pair is an element of   *)
(* Scripts; the _subs array is kept as the set of its entries (the server  *)
(* treats repeated subscribes as one, so the multiplicity of an entry and  *)
(* the order of the array change nothing the server or the client can     *)
(* observe apart from the order of the replayed frames, see WsServer);     *)
(* a SubscribeMsg is the id of the published event it carries.  The        *)
(* message path modelled is the Node one (data is a Buffer), where         *)
(* _handleMsg calls onMessage synchronously.                               *)
(***************************************************************************)
EXTENDS WsServer

CONSTANT
    MaxCalls     \* bound on the calls the application makes

ASSUME MaxCallsAssumption == MaxCalls \in Nat

VARIABLES
    closed,      \* this._closed
    subs,        \* the entries of this._subs
    cur,         \* the socket in this._ws
    waitOn,      \* socket whose _connected promise a pending waitForOpen()
                 \* awaits; 0 when no call is pending
    resolved,    \* sockets whose _connected promise has been resolved
    delivered,   \* event ids passed to config.onMessage, in order
    calls        \* number of calls the application has made

clientVars == <<closed, subs, cur, waitOn, resolved, delivered, calls>>

vars == <<serverVars, clientVars>>

TypeOK ==
    /\ ServerTypeOK
    /\ closed \in BOOLEAN
    /\ subs \in SUBSET Scripts
    /\ cur \in Conns
    /\ waitOn \in 0..MaxConns
    /\ resolved \in SUBSET Conns
    /\ delivered \in Seq(EventIds)
    /\ calls \in 0..MaxCalls

\* new WsEndpoint(url, config): the constructor's _connect() creates socket 1.
Init ==
    /\ ServerInit
    /\ closed = FALSE
    /\ subs = {}
    /\ cur = 1
    /\ waitOn = 0
    /\ resolved = {}
    /\ delivered = << >>
    /\ calls = 0

(***************************************************************************)
(* _subUnsub(isSubscribe, ...) ends in this._ws.send(frame).  On an open   *)
(* socket the frame is queued to the server; on a connecting socket send   *)
(* throws ("WebSocket is not open"), so the frame is not sent and the      *)
(* exception reaches the caller of subscribe/unsubscribe; on a closing or  *)
(* closed socket the frame is discarded.                                   *)
(***************************************************************************)
\* Variant with a bug: send also queues on a closing socket.
SubUnsubOnClosing(isSubscribe, s) ==
    toServer' = IF sock[cur] \in {"open", "closing"}
                THEN [toServer EXCEPT ![cur] =
                        Append(@, [sub |-> isSubscribe, script |-> s])]
                ELSE toServer

SubUnsub(isSubscribe, s) ==
    toServer' = IF sock[cur] = "open"
                THEN [toServer EXCEPT ![cur] =
                        Append(@, [sub |-> isSubscribe, script |-> s])]
                ELSE toServer

\* subscribe(scriptType, scriptPayload): push to _subs, then _subUnsub(true).
Subscribe(s) ==
    /\ calls < MaxCalls
    /\ calls' = calls + 1
    /\ subs' = subs \cup {s}
    /\ SubUnsub(TRUE, s)
    /\ UNCHANGED <<sock, replay, reg, toClient, published,
                   closed, cur, waitOn, resolved, delivered>>

\* Variant with a bug: unsubscribe filters _subs but sends no frame.
UnsubscribeNoSend(s) ==
    /\ calls < MaxCalls
    /\ calls' = calls + 1
    /\ subs' = subs \ {s}
    /\ UNCHANGED <<sock, replay, toServer, reg, toClient, published,
                   closed, cur, waitOn, resolved, delivered>>

\* unsubscribe(...): filter the entry out of _subs, then _subUnsub(false).
Unsubscribe(s) ==
    /\ calls < MaxCalls
    /\ calls' = calls + 1
    /\ subs' = subs \ {s}
    /\ SubUnsub(FALSE, s)
    /\ UNCHANGED <<sock, replay, reg, toClient, published,
                   closed, cur, waitOn, resolved, delivered>>

\* close(): set _closed, then this._ws.close(), which starts the closing
\* handshake of a connecting or open socket and is a no-op otherwise.
Close ==
    /\ calls < MaxCalls
    /\ calls' = calls + 1
    /\ closed' = TRUE
    /\ sock' = IF sock[cur] \in {"connecting", "open"}
               THEN [sock EXCEPT ![cur] = "closing"]
               ELSE sock
    /\ UNCHANGED <<replay, toServer, reg, toClient, published,
                   subs, cur, waitOn, resolved, delivered>>

\* waitForOpen(): awaits the _connected promise of the current socket.
WaitForOpen ==
    /\ calls < MaxCalls
    /\ waitOn = 0
    /\ calls' = calls + 1
    /\ waitOn' = cur
    /\ UNCHANGED <<serverVars, closed, subs, cur, resolved, delivered>>

\* Variant with a bug: the wait returns once the promise of the socket now
\* in this._ws is resolved (as if it re-read this._connected).
WaitForOpenReturnCurrent ==
    /\ waitOn # 0
    /\ cur \in resolved
    /\ waitOn' = 0
    /\ UNCHANGED <<serverVars, closed, subs, cur, resolved, delivered, calls>>

\* The awaited promise has been resolved: waitForOpen() returns.
WaitForOpenReturn ==
    /\ waitOn \in resolved
    /\ waitOn' = 0
    /\ UNCHANGED <<serverVars, closed, subs, cur, resolved, delivered, calls>>

(***************************************************************************)
(* ws.onopen: replay a subscribe frame for every entry of _subs, then      *)
(* resolve the socket's _connected promise.                                *)
(***************************************************************************)
\* Variant with a bug: onopen resolves the promise without replaying _subs.
OnOpenNoReplay(c) ==
    /\ sock[c] = "connecting"
    /\ sock' = [sock EXCEPT ![c] = "open"]
    /\ resolved' = resolved \cup {c}
    /\ UNCHANGED <<replay, toServer, reg, toClient, published,
                   closed, subs, cur, waitOn, delivered, calls>>

OnOpen(c) ==
    /\ sock[c] = "connecting"
    /\ sock' = [sock EXCEPT ![c] = "open"]
    /\ replay' = [replay EXCEPT ![c] = subs]
    /\ resolved' = resolved \cup {c}
    /\ UNCHANGED <<toServer, reg, toClient, published,
                   closed, subs, cur, waitOn, delivered, calls>>

\* Variant with a bug: onmessage takes the newest frame instead of the oldest.
OnMessageNewest(c) ==
    /\ sock[c] \in {"open", "closing"}
    /\ toClient[c] # << >>
    /\ delivered' = Append(delivered, toClient[c][Len(toClient[c])])
    /\ toClient' = [toClient EXCEPT ![c] = SubSeq(@, 1, Len(@) - 1)]
    /\ UNCHANGED <<sock, replay, toServer, reg, published,
                   closed, subs, cur, waitOn, resolved, calls>>

\* ws.onmessage: _handleMsg decodes the frame and calls config.onMessage.
OnMessage(c) ==
    /\ sock[c] \in {"open", "closing"}
    /\ toClient[c] # << >>
    /\ delivered' = Append(delivered, Head(toClient[c]))
    /\ toClient' = [toClient EXCEPT ![c] = Tail(@)]
    /\ UNCHANGED <<sock, replay, toServer, reg, published,
                   closed, subs, cur, waitOn, resolved, calls>>

(***************************************************************************)
(* ws.onclose: the socket is closed and what was still in flight on it is *)
(* lost.  Unless close() was called, _connect() creates the next socket,   *)
(* stores it in this._ws and replaces this._connected by its promise.      *)
(***************************************************************************)
\* Variant with a bug: onclose reconnects even after close().
OnCloseIgnoringClosed(c) ==
    /\ sock[c] = "closing"
    /\ replay' = [replay EXCEPT ![c] = {}]
    /\ toServer' = [toServer EXCEPT ![c] = << >>]
    /\ reg' = [reg EXCEPT ![c] = {}]
    /\ toClient' = [toClient EXCEPT ![c] = << >>]
    /\ sock' = [sock EXCEPT ![c] = "closed", ![c + 1] = "connecting"]
    /\ cur' = c + 1
    /\ UNCHANGED <<published, closed, subs, waitOn, resolved, delivered, calls>>

\* Variant with a bug: onclose never reconnects.
OnCloseNoReconnect(c) ==
    /\ sock[c] = "closing"
    /\ replay' = [replay EXCEPT ![c] = {}]
    /\ toServer' = [toServer EXCEPT ![c] = << >>]
    /\ reg' = [reg EXCEPT ![c] = {}]
    /\ toClient' = [toClient EXCEPT ![c] = << >>]
    /\ sock' = [sock EXCEPT ![c] = "closed"]
    /\ UNCHANGED <<published, closed, subs, cur, waitOn, resolved, delivered,
                   calls>>

OnClose(c) ==
    /\ sock[c] = "closing"
    /\ replay' = [replay EXCEPT ![c] = {}]
    /\ toServer' = [toServer EXCEPT ![c] = << >>]
    /\ reg' = [reg EXCEPT ![c] = {}]
    /\ toClient' = [toClient EXCEPT ![c] = << >>]
    /\ IF closed
       THEN /\ sock' = [sock EXCEPT ![c] = "closed"]
            /\ cur' = cur
       ELSE /\ sock' = [sock EXCEPT ![c] = "closed", ![c + 1] = "connecting"]
            /\ cur' = c + 1
    /\ UNCHANGED <<published, closed, subs, waitOn, resolved, delivered, calls>>

ClientNext ==
    \/ \E s \in Scripts : Subscribe(s) \/ Unsubscribe(s)
    \/ Close
    \/ WaitForOpen
    \/ WaitForOpenReturn
    \/ \E c \in Conns : OnOpen(c) \/ OnMessage(c) \/ OnClose(c)

Next ==
    \/ ClientNext
    \/ ServerNext /\ UNCHANGED clientVars

(***************************************************************************)
(* Fairness.  The event loop eventually runs every callback whose event   *)
(* has happened and every resumable await; the server is up, so a         *)
(* connecting socket eventually opens (unless it fails) and the server     *)
(* eventually reads the frames sent to it.  Failures and the application's *)
(* calls are not fair: they may never happen.                              *)
(***************************************************************************)
Fairness ==
    /\ \A c \in Conns :
          /\ WF_vars(OnOpen(c))
          /\ WF_vars(OnMessage(c))
          /\ WF_vars(OnClose(c))
          /\ WF_vars(ServerReadFrame(c) /\ UNCHANGED clientVars)
          /\ \A s \in Scripts :
                WF_vars(ServerReadReplay(c, s) /\ UNCHANGED clientVars)
    /\ WF_vars(WaitForOpenReturn)

Spec == Init /\ [][Next]_vars /\ Fairness

-----------------------------------------------------------------------------
(***************************************************************************)
(* Properties.                                                             *)
(***************************************************************************)

(***************************************************************************)
(* Once the server has read every frame the client sent on the current    *)
(* socket while it is open, the server's subscription set for the         *)
(* connection is exactly the client's _subs: no subscription is lost by a *)
(* reconnect (onopen replays _subs), by a subscribe made while the socket  *)
(* was connecting (send throws) or closing (send discards), and no script  *)
(* stays subscribed on the server after unsubscribe.                       *)
(***************************************************************************)
SubsAgree ==
    (sock[cur] = "open" /\ replay[cur] = {} /\ toServer[cur] = << >>)
        => reg[cur] = subs

(***************************************************************************)
(* After close() the endpoint never creates another socket, never reopens *)
(* and never sends another Subscription frame, whatever order close() and *)
(* a pending onclose of a failed connection run in.                        *)
(***************************************************************************)
ClosedStays ==
    closed =>
        /\ closed'
        /\ cur' = cur
        /\ \A c \in Conns :
              /\ Len(toServer'[c]) <= Len(toServer[c])
              /\ replay'[c] \subseteq replay[c]

\* Every step after close() keeps the endpoint closed, on the same socket,
\* with no new frame sent or replayed (ClosedStays).
ClosedIsFinal == [][ClosedStays]_vars

(***************************************************************************)
(* While the endpoint is not closed, every script in _subs is eventually  *)
(* registered on the server over an open socket (or unsubscribed): the    *)
(* reconnect and replay of onclose/onopen recover subscriptions lost with *)
(* a failed connection.                                                    *)
(***************************************************************************)
SubscriptionEventuallyActive ==
    \A s \in Scripts :
        (s \in subs /\ ~closed)
            ~> (closed \/ s \notin subs \/ (sock[cur] = "open" /\ s \in reg[cur]))

(***************************************************************************)
(* A call of waitForOpen() on an endpoint that is not closed eventually    *)
(* returns: the reconnect policy eventually opens a socket.                *)
(***************************************************************************)
WaitForOpenReturns ==
    (waitOn # 0) ~> (waitOn = 0 \/ closed)

(***************************************************************************)
(* A waitForOpen() whose socket closed before it ever opened is hung for  *)
(* good: that socket's onopen can no longer run, so its _connected promise *)
(* is never resolved, whatever reconnects, subscribes, closes and server  *)
(* steps follow (waitForOpen awaits the promise read at the call).         *)
(***************************************************************************)
WaitHung ==
    /\ waitOn # 0
    /\ waitOn \notin resolved
    /\ sock[waitOn] = "closed"

\* Every step keeps a hung waitForOpen() hung.
WaitHangPermanent == [][WaitHung => WaitHung']_vars

-----------------------------------------------------------------------------
(***************************************************************************)
(* The inductive invariant behind SubsAgree (proved in WsEndpointProofs).  *)
(* SubsAgree alone is not inductive: while frames are in flight the       *)
(* server's set differs from _subs, and what restores agreement is that   *)
(* for every script the LAST frame in flight for it carries the client's  *)
(* current choice, and, with no frame in flight for it, the replayed or   *)
(* registered state does.                                                  *)
(***************************************************************************)

\* The frame at index i of q is the last one in q for script s.
IsLastFor(q, i, s) ==
    /\ q[i].script = s
    /\ \A j \in (i + 1)..Len(q) : q[j].script # s

\* The server will end up agreeing with _subs on script s once it has read
\* the current socket's replay and frames.
Agree(s) ==
    LET q == toServer[cur] IN
    IF \E i \in 1..Len(q) : q[i].script = s
    THEN \A i \in 1..Len(q) : IsLastFor(q, i, s) => (q[i].sub <=> s \in subs)
    ELSE (s \in subs <=> s \in replay[cur] \cup reg[cur])

\* Sockets other than the current one are not yet created or closed for
\* good; those not yet created carry nothing.
OtherSockets ==
    \A c \in Conns :
        /\ c # cur => sock[c] \in {"none", "closed"}
        /\ c > cur => /\ sock[c] = "none"
                      /\ replay[c] = {} /\ toServer[c] = << >> /\ reg[c] = {}

\* The current socket: nothing has crossed it before it opens, unless
\* close() was called a failed one leaves room for the next socket, and
\* after close() it is closing or closed.
CurrentSocket ==
    /\ sock[cur] # "none"
    /\ sock[cur] = "connecting" =>
          replay[cur] = {} /\ toServer[cur] = << >> /\ reg[cur] = {}
    /\ sock[cur] = "closing" /\ ~closed => cur < MaxConns
    /\ sock[cur] = "closed" => closed
    /\ closed => sock[cur] \in {"closing", "closed"}

(***************************************************************************)
(* At every moment, not only once the server has caught up: over an open  *)
(* current socket, the server ends up holding exactly _subs once it reads *)
(* what is in flight.  For each script the last Subscription frame in     *)
(* flight carries the client's current choice (an unsubscribe that filters *)
(* _subs is followed by its frame, a re-subscribe by its own), and with   *)
(* no frame in flight the onopen replay or the registry already agrees.   *)
(***************************************************************************)
Agreement == sock[cur] = "open" => \A s \in Scripts : Agree(s)

IInv == TypeOK /\ OtherSockets /\ CurrentSocket /\ Agreement


-----------------------------------------------------------------------------
(***************************************************************************)
(* WsEndpoint implements the channel of WsChannel: _subs, _closed, the     *)
(* committed events and the onMessage calls are its state, everything else *)
(* (sockets, frames, the registry, pending waits) is hidden.               *)
(***************************************************************************)
Channel == INSTANCE WsChannel
              WITH subs <- subs, closed <- closed,
                   published <- published, delivered <- delivered

\* Every behaviour of the endpoint and the server is one of the channel's:
\* onMessage is called only with committed events, each at most once and
\* in commit order, whatever reconnects, closes and failures happen between
\* (ws.onmessage, onclose and _connect against the server's pushes).
ChannelSpec == Channel!Spec

\* q is strictly increasing.
Increasing(q) == \A i, j \in DOMAIN q : i < j => q[i] < q[j]

\* The invariant behind ChannelSpec: the events delivered and the events
\* queued on each socket are committed and increasing, every queued event
\* is later than every delivered one, and only the current socket carries
\* events (a failed or closed socket dropped its queue).
DeliveryOrder ==
    /\ Increasing(delivered)
    /\ \A i \in DOMAIN delivered : delivered[i] \in 1..Len(published)
    /\ \A c \in Conns :
          /\ toClient[c] # << >> => c = cur
          /\ Increasing(toClient[c])
          /\ \A i \in DOMAIN toClient[c] :
                /\ toClient[c][i] \in 1..Len(published)
                /\ \A j \in DOMAIN delivered : delivered[j] < toClient[c][i]

=============================================================================
