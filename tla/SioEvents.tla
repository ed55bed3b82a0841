----------------------------- MODULE SioEvents -----------------------------
(***************************************************************************)
(* Event bindings of FSocketIONative over several namespaces: the map of   *)
(* what it bound, and the listeners of the sockets.  A socket takes its    *)
(* listeners along when its namespace is over; the map is what binds them  *)
(* again.                                                                  *)
(*                                                                         *)
(* When a socket is removed is SioSocket and SioNative; here it is at any  *)
(* time.                                                                   *)
(***************************************************************************)
EXTENDS Naturals

CONSTANTS Namespaces, EventNames,
          Bindings,  \* a function and the thread it asks for
          Unbound,
          Raw        \* what OnRawEvent and OnRawBinaryEvent bind

ASSUME EventsAssumption ==
    /\ Raw \notin Bindings /\ Raw # Unbound
    /\ Unbound \notin Bindings \cup [nsp : Namespaces, binding : Bindings]

VARIABLES
    boundEvents,  \* EventFunctionMap, which has one entry for a name
    listeners,    \* m_event_binding of each namespace's socket
    overlaid,     \* history: a call was raw, or of a name another namespace has bound
    dropped,      \* history: entries whose listener went with its socket
    cleared       \* history: listeners whose entry went in ClearAllCallbacks

eventVars == <<boundEvents, listeners, overlaid, dropped, cleared>>

EventKeys   == Namespaces \X EventNames
Entries == [nsp : Namespaces, binding : Bindings]

EventsTypeOK ==
    /\ boundEvents \in [EventNames -> Entries \cup {Unbound}]
    /\ listeners \in [EventKeys -> Bindings \cup {Unbound, Raw}]
    /\ overlaid \in BOOLEAN
    /\ dropped \subseteq EventKeys /\ cleared \subseteq EventKeys

EventsInit ==
    /\ boundEvents = [e \in EventNames |-> Unbound]
    /\ listeners = [p \in EventKeys |-> Unbound]
    /\ overlaid = FALSE /\ dropped = {} /\ cleared = {}

InMap(n, e) == boundEvents[e] # Unbound /\ boundEvents[e].nsp = n

-----------------------------------------------------------------------------
(* Calls.                                                                  *)

On(n, e, b) ==
    /\ listeners' = [listeners EXCEPT ![<<n, e>>] = b]
    /\ cleared' = cleared \ {<<n, e>>}

\* The map's only entry for e is written; a listener of e in another namespace stays.
EntryOf(n, e, entry) ==
    /\ boundEvents' = [boundEvents EXCEPT ![e] = entry]
    /\ dropped' = {p \in dropped : p[2] # e}
    /\ overlaid' = (overlaid \/ \E m \in Namespaces \ {n} :
                                   listeners[<<m, e>>] # Unbound /\ <<m, e>> \notin cleared)

\* OnEvent, and with it BindEventToFunction and BindEventToDelegate.
OnEvent(n, e, b) == On(n, e, b) /\ EntryOf(n, e, [nsp |-> n, binding |-> b])

\* (mutant) the listener goes, the entry stays.
UnbindEventFromSocket(n, e) == On(n, e, Unbound) /\ UNCHANGED <<boundEvents, overlaid, dropped>>

UnbindEvent(n, e) == On(n, e, Unbound) /\ EntryOf(n, e, Unbound)

\* OnRawEvent does not look at the map, and unbinds if it is given no function;
OnRawEvent(n, e) ==
    /\ On(n, e, Raw) \/ On(n, e, Unbound)
    /\ overlaid' = TRUE
    /\ UNCHANGED <<boundEvents, dropped>>

\* OnRawBinaryEvent's listener passes on nothing but bytes.
OnRawBinaryEvent(n, e) ==
    /\ On(n, e, Raw)
    /\ overlaid' = TRUE
    /\ UNCHANGED <<boundEvents, dropped>>

\* At the end of Disconnect() and SyncDisconnect().
RebindCurrentEventMap ==
    /\ listeners' = [p \in EventKeys |-> IF InMap(p[1], p[2]) THEN boundEvents[p[2]].binding ELSE listeners[p]]
    /\ dropped' = {}
    /\ UNCHANGED <<boundEvents, overlaid, cleared>>

\* Instead of it, at their beginning, if bUnbindEventsOnDisconnect: the client's
\* clear_socket_listeners does nothing, so that the listeners stay.
ClearAllCallbacks ==
    /\ boundEvents' = [e \in EventNames |-> Unbound]
    /\ overlaid' = FALSE /\ dropped' = {}
    /\ cleared' = cleared \cup {p \in EventKeys : listeners[p] # Unbound}
    /\ UNCHANGED listeners

\* SyncPrivateClientToTLSMode: a new client has the sockets that the map binds.
NewClient ==
    /\ listeners' = [p \in EventKeys |-> IF InMap(p[1], p[2]) THEN boundEvents[p[2]].binding ELSE Unbound]
    /\ overlaid' = FALSE /\ dropped' = {} /\ cleared' = {}
    /\ UNCHANGED boundEvents

\* socket::on_close: a disconnect, a leave, a CONNECT without an answer, or the
\* server's DISCONNECT.
SocketRemoved(n) ==
    /\ listeners' = [p \in EventKeys |-> IF p[1] = n THEN Unbound ELSE listeners[p]]
    /\ dropped' = dropped \cup {p \in EventKeys : p[1] = n /\ InMap(n, p[2])}
    /\ cleared' = {p \in cleared : p[1] # n}
    /\ UNCHANGED <<boundEvents, overlaid>>

-----------------------------------------------------------------------------

EventsNext ==
    \/ \E n \in Namespaces, e \in EventNames :
          \/ UnbindEvent(n, e)
          \/ \E b \in Bindings : OnEvent(n, e, b)
          \/ OnRawEvent(n, e) \/ OnRawBinaryEvent(n, e)
    \/ RebindCurrentEventMap \/ ClearAllCallbacks \/ NewClient
    \/ \E n \in Namespaces : SocketRemoved(n)

EventsSpec == EventsInit /\ [][EventsNext]_eventVars

-----------------------------------------------------------------------------
(* Properties.                                                             *)

\* What the map says is bound: in its namespace, with its function and thread.  Only a
\* socket that was removed since, by itself or behind a Disconnect() that had bound
\* the map again, leaves an entry without its listener, until the next rebinding; and
\* a listener without an entry is one that ClearAllCallbacks left in its socket.  (As
\* long as a name is bound and unbound in one namespace only, and by no raw call.)
BindingsAgree ==
    ~overlaid =>
        \A n \in Namespaces, e \in EventNames :
            IF InMap(n, e)
            THEN \/ listeners[<<n, e>>] = boundEvents[e].binding
                 \/ listeners[<<n, e>>] = Unbound /\ <<n, e>> \in dropped
            ELSE listeners[<<n, e>>] = Unbound \/ <<n, e>> \in cleared
=============================================================================
