------------------------------ MODULE WsServer ------------------------------
(***************************************************************************)
(* The server end of the chronik WebSocket subscription channel and the    *)
(* connection between it and one client.  The server code is not part of *)
(* src/ (only its interface is), so this module is modelled from spec.md,  *)
(* sections 4.5 and 5:                                                     *)
(*   - each connection keeps its own set of subscribed scripts; subscribe  *)
(*     and unsubscribe frames are applied in arrival order and are         *)
(*     idempotent;                                                         *)
(*   - the synchronizer publishes each committed event, keyed by the set   *)
(*     of scripts the transaction touches, once to every open connection   *)
(*     subscribed to any of them, in commit order;                         *)
(*   - a connection may be dropped (network failure, slow consumer); its   *)
(*     in-flight frames and its registry are then lost.                    *)
(* The connection state sock[c] is the readyState the client observes for *)
(* the c-th socket it creates; "none" means not created yet.               *)
(***************************************************************************)
EXTENDS Naturals, Sequences

CONSTANTS
    Scripts,     \* script fingerprints (scriptType, scriptPayload)
    MaxConns,    \* bound on the number of sockets the client creates
    MaxEvents    \* bound on the number of events the indexer publishes

ASSUME ConstantsAssumption ==
    /\ Scripts # {}
    /\ MaxConns \in Nat \ {0}
    /\ MaxEvents \in Nat

VARIABLES
    sock,        \* sock[c]: readyState of the c-th socket
    replay,      \* replay[c]: subscribe frames sent by onopen, not yet read
    toServer,    \* toServer[c]: later Subscription frames, FIFO
    reg,         \* reg[c]: the server's subscription set for connection c
    toClient,    \* toClient[c]: event ids pushed to connection c, FIFO
    published    \* published[e]: the scripts touched by the e-th event

serverVars == <<sock, replay, toServer, reg, toClient, published>>

Conns == 1..MaxConns

SockStates == {"none", "connecting", "open", "closing", "closed"}

\* A Subscription frame {isSubscribe, scriptType, payload}.
Frames == [sub : BOOLEAN, script : Scripts]

EventIds == 1..MaxEvents

\* The script sets a transaction can touch (a transaction has at least one
\* input or output script).
Touched == (SUBSET Scripts) \ {{}}

ServerTypeOK ==
    /\ sock \in [Conns -> SockStates]
    /\ replay \in [Conns -> SUBSET Scripts]
    /\ toServer \in [Conns -> Seq(Frames)]
    /\ reg \in [Conns -> SUBSET Scripts]
    /\ toClient \in [Conns -> Seq(EventIds)]
    /\ published \in Seq(SUBSET Scripts)
    /\ Len(published) <= MaxEvents

ServerInit ==
    /\ sock = [c \in Conns |-> IF c = 1 THEN "connecting" ELSE "none"]
    /\ replay = [c \in Conns |-> {}]
    /\ toServer = [c \in Conns |-> << >>]
    /\ reg = [c \in Conns |-> {}]
    /\ toClient = [c \in Conns |-> << >>]
    /\ published = << >>

(***************************************************************************)
(* The server reads one of the subscribe frames the client's onopen        *)
(* handler sent.  They precede every later frame on the socket; their      *)
(* order among themselves follows the client's _subs array, which the     *)
(* model keeps as a set, so they are read in any order.                    *)
(***************************************************************************)
ServerReadReplay(c, s) ==
    /\ sock[c] = "open"
    /\ s \in replay[c]
    /\ reg' = [reg EXCEPT ![c] = @ \cup {s}]
    /\ replay' = [replay EXCEPT ![c] = @ \ {s}]
    /\ UNCHANGED <<sock, toServer, toClient, published>>

\* Applying one Subscription frame to a registry: idempotent set update.
ApplyFrame(r, f) == IF f.sub THEN r \cup {f.script} ELSE r \ {f.script}

\* The server reads the next Subscription frame of connection c.
ServerReadFrame(c) ==
    /\ sock[c] = "open"
    /\ replay[c] = {}
    /\ toServer[c] # << >>
    /\ reg' = [reg EXCEPT ![c] = ApplyFrame(@, Head(toServer[c]))]
    /\ toServer' = [toServer EXCEPT ![c] = Tail(@)]
    /\ UNCHANGED <<sock, replay, toClient, published>>

(***************************************************************************)
(* The synchronizer commits an event touching the scripts T and pushes it *)
(* once to every open connection subscribed to at least one of them.      *)
(***************************************************************************)
Publish(T) ==
    /\ Len(published) < MaxEvents
    /\ published' = Append(published, T)
    /\ toClient' = [c \in Conns |->
                      IF sock[c] = "open" /\ reg[c] \cap T # {}
                      THEN Append(toClient[c], Len(published) + 1)
                      ELSE toClient[c]]
    /\ UNCHANGED <<sock, replay, toServer, reg>>

(***************************************************************************)
(* The connection of socket c fails while connecting or open (network     *)
(* failure, or the server drops a slow client).  Frames and events in      *)
(* flight are lost and the server forgets the connection's registry; the  *)
(* client will see the close event.  At most MaxConns - 1 failures happen, *)
(* so the last socket the client can create stays up.                      *)
(***************************************************************************)
Fail(c) ==
    /\ c < MaxConns
    /\ sock[c] \in {"connecting", "open"}
    /\ sock' = [sock EXCEPT ![c] = "closing"]
    /\ replay' = [replay EXCEPT ![c] = {}]
    /\ toServer' = [toServer EXCEPT ![c] = << >>]
    /\ reg' = [reg EXCEPT ![c] = {}]
    /\ toClient' = [toClient EXCEPT ![c] = << >>]
    /\ UNCHANGED published

ServerNext ==
    \/ \E c \in Conns, s \in Scripts : ServerReadReplay(c, s)
    \/ \E c \in Conns : ServerReadFrame(c)
    \/ \E T \in Touched : Publish(T)
    \/ \E c \in Conns : Fail(c)

=============================================================================
