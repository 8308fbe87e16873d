------------------------------ MODULE WsChannel ------------------------------
(***************************************************************************)
(* What the chronik client's subscription channel promises the           *)
(* application, with sockets, frames and the server's registry hidden:    *)
(* the application subscribes, unsubscribes and closes; the indexer        *)
(* commits events; and config.onMessage is called with committed events,  *)
(* each at most once and in commit order (spec.md 5), across any number   *)
(* of reconnects.  Events may be missed (a failed connection loses them),  *)
(* so delivery is not promised here; WsEndpoint's liveness property says  *)
(* what is eventually restored.                                           *)
(*                                                                         *)
(* WsEndpoint implements this specification under the mapping that keeps *)
(* _subs, _closed, the committed events and the onMessage calls.          *)
(***************************************************************************)
EXTENDS Naturals, Sequences

CONSTANT Scripts

VARIABLES
    subs,        \* the scripts the application is subscribed to
    closed,      \* close() has been called
    published,   \* the committed events, each the set of scripts it touches
    delivered    \* the ids (positions in published) passed to onMessage

vars == <<subs, closed, published, delivered>>

Init ==
    /\ subs = {}
    /\ closed = FALSE
    /\ published = << >>
    /\ delivered = << >>

Subscribe(s) ==
    /\ subs' = subs \cup {s}
    /\ UNCHANGED <<closed, published, delivered>>

Unsubscribe(s) ==
    /\ subs' = subs \ {s}
    /\ UNCHANGED <<closed, published, delivered>>

Close ==
    /\ closed' = TRUE
    /\ UNCHANGED <<subs, published, delivered>>

\* The indexer commits an event touching the non-empty script set T.
Publish(T) ==
    /\ T # {}
    /\ published' = Append(published, T)
    /\ UNCHANGED <<subs, closed, delivered>>

\* onMessage is called with a committed event later than every event it was
\* called with before.
Deliver ==
    /\ \E e \in 1..Len(published) :
          /\ \A i \in DOMAIN delivered : delivered[i] < e
          /\ delivered' = Append(delivered, e)
    /\ UNCHANGED <<subs, closed, published>>

Next ==
    \/ \E s \in Scripts : Subscribe(s) \/ Unsubscribe(s)
    \/ Close
    \/ \E T \in SUBSET Scripts : Publish(T)
    \/ Deliver

Spec == Init /\ [][Next]_vars

=============================================================================
