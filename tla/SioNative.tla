----------------------------- MODULE SioNative -----------------------------
(***************************************************************************)
(* FSocketIONative and the component that owns it: Connect() on background *)
(* threads, SetAuth, the calls of the game thread, event bindings and the  *)
(* callbacks that go back to the game thread.                              *)
(*                                                                         *)
(* sio::client below it is reduced to its state, its transport and the     *)
(* socket of "/"; SioClient and SioSocket are the detailed models.  The    *)
(* query is kept by the same code as the auth, with a version of its own:  *)
(* the model has the auth.                                                 *)
(***************************************************************************)
EXTENDS Naturals, Sequences

CONSTANTS Auths, Urls, Events,
          TlsUrls,     \* IsTLSURL
          None,
          Slots,       \* bounds the Connect() calls on their way
          MaxVersion,  \* bounds the SetAuth() calls
          MaxQueue     \* bounds the callbacks waiting for the game thread

ASSUME NativeAssumption ==
    /\ TlsUrls \subseteq Urls
    /\ None \notin Auths \cup Urls
    /\ MaxVersion \in Nat /\ MaxQueue \in Nat

VARIABLES
    params,     \* the auth in URLParams
    latest,     \* LatestAuth
    version,    \* AuthVersion
    held,       \* history: it was set by SetAuth
    task,       \* the lambda Connect() hands to a background thread, by slot
    call,       \* where the game thread is inside a call
    unbind,     \* bUnbindEventsOnDisconnect
    eventMap,   \* EventFunctionMap
    callbacks,  \* the component's callbacks are set
    connected,  \* bIsConnected
    gameQueue,  \* callbacks sent to the game thread
    seen,       \* the component's own bIsConnected
    con,        \* m_con_state
    link,       \* the transport
    retrying,   \* the reconnection timer is armed
    url,        \* m_base_url
    tls,        \* bIsSetupForTLS
    sock,       \* the socket of "/" and what the server said of it
    timer,      \* its m_connection_timer
    leaving,    \* its m_close_pending
    handlers    \* its m_event_binding

authVars   == <<params, latest, version, held>>
gameVars   == <<call, unbind, eventMap, callbacks>>
statusVars == <<connected, gameQueue, seen>>
clientVars == <<con, link, retrying, url, tls>>
sockVars   == <<sock, timer, leaving, handlers>>
nativeVars == <<authVars, task, gameVars, statusVars, clientVars, sockVars>>

Notices == {"connected", "disconnected", "reconnection", "fail"}
Steps   == {"queued", "sync", "update", "reask", "connect", "ask", "join"}
Task    == [auth : Auths, url : Urls, version : 0..MaxVersion, at : Steps]

NativeTypeOK ==
    /\ params \in Auths
    /\ latest \in Auths \cup {None}
    /\ version \in 0..MaxVersion
    /\ held \in BOOLEAN
    /\ task \in [Slots -> Task \cup {None}]
    /\ call \in {"idle", "error", "close", "rebind", "syncClose", "syncJoin"}
    /\ unbind \in BOOLEAN /\ callbacks \in BOOLEAN
    /\ eventMap \subseteq Events
    /\ connected \in BOOLEAN /\ seen \in BOOLEAN
    /\ gameQueue \in Seq(Notices)
    /\ con \in {"opening", "opened", "closing", "closed"}
    /\ link \in {"none", "dialing", "up"}
    /\ retrying \in BOOLEAN /\ tls \in BOOLEAN
    /\ url \in Urls \cup {None}
    /\ sock \in {"none", "idle", "joining", "joined", "rejected"}
    /\ timer \in BOOLEAN /\ leaving \in BOOLEAN
    /\ handlers \subseteq Events

\* The component after InitializeNative: its callbacks are set.
NativeInit ==
    /\ params \in Auths
    /\ latest = None /\ version = 0 /\ held = FALSE
    /\ task = [s \in Slots |-> None]
    /\ call = "idle" /\ unbind \in BOOLEAN
    /\ eventMap = {} /\ callbacks = TRUE
    /\ connected = FALSE /\ gameQueue = <<>> /\ seen = FALSE
    /\ con = "closed" /\ link = "none" /\ retrying = FALSE
    /\ url = None /\ tls = FALSE
    /\ sock = "none" /\ timer = FALSE /\ leaving = FALSE /\ handlers = {}

-----------------------------------------------------------------------------
(* sio::client, as FSocketIONative uses it.                                *)

\* The run loop has nothing left: a join of the network thread returns.
ThreadOver == link = "none" /\ ~retrying /\ ~timer

\* send_connect.
AskToJoin == sock' = "joining" /\ timer' = TRUE /\ leaving' = FALSE

\* client_impl::socket("/"): found, or created and joined if the client is open.
RefSocket ==
    IF sock # "none" THEN UNCHANGED <<sock, timer, leaving>>
    ELSE IF con = "opened" THEN AskToJoin
    ELSE sock' = "idle" /\ UNCHANGED <<timer, leaving>>

\* socket("/")->connect().
SocketConnect ==
    LET rejoin == sock \in {"none", "idle", "rejected"} /\ ~timer
    IN  IF rejoin /\ con = "opened" THEN AskToJoin
        ELSE /\ sock' = IF sock \in {"none", "rejected"} THEN "idle" ELSE sock
             /\ UNCHANGED <<timer, leaving>>

\* socket::close() when the client is closing: the wait for a leave uses the
\* same timer; a CONNECT on its way is given up.
SocketCloses ==
    /\ timer' = (timer \/ sock = "joined")
    /\ leaving' = (leaving \/ sock \in {"idle", "joining", "joined"})
    /\ UNCHANGED <<sock, handlers>>

\* client_impl::close() and the close_impl it posts, which cancels a reconnection.
ClientClose ==
    /\ con' = "closing"
    /\ retrying' = FALSE
    /\ SocketCloses
    /\ UNCHANGED <<link, url, tls>>

\* socket::on_close: the socket is removed, and its bindings with it.
SocketGone ==
    /\ sock' = "none" /\ timer' = FALSE /\ leaving' = FALSE
    /\ handlers' = {}

\* socket::on_disconnect; a wait for a leave then runs out at once.
SocketDown ==
    /\ sock' = IF sock \in {"joining", "joined"} THEN "idle" ELSE sock
    /\ UNCHANGED <<timer, leaving, handlers>>

-----------------------------------------------------------------------------
(* The game thread: calls of the application and the component.            *)

Room == Len(gameQueue) < MaxQueue

\* SetupInternalCallbacks's listeners hand a callback to the game thread if the
\* component has set one.
Notify(notice) ==
    gameQueue' = IF callbacks THEN Append(gameQueue, notice) ELSE gameQueue

\* The close listener.
Closed == connected' = FALSE /\ Notify("disconnected")

\* SyncPrivateClientToTLSMode: a client of the other kind replaces this one,
\* which is closed first; the bindings go to the new one.
SwapClient(u) ==
    LET swap == (u \in TlsUrls) # tls
    IN  /\ tls' = (u \in TlsUrls)
        /\ IF swap
           THEN /\ con' = "closed" /\ link' = "none" /\ retrying' = FALSE /\ url' = None
                /\ IF link = "up" THEN Closed ELSE UNCHANGED <<connected, gameQueue>>
                /\ sock' = IF eventMap = {} THEN "none" ELSE "idle"
                /\ timer' = FALSE /\ leaving' = FALSE
                /\ handlers' = eventMap
           ELSE UNCHANGED <<con, link, retrying, url, connected, gameQueue, sockVars>>

\* FSocketIONative::Connect.  Premise: no lambda is on its way to the client that
\* is swapped out.
Connect(u, a) ==
    /\ (u \in TlsUrls) # tls => Room /\ \A s \in Slots : task[s] = None
    /\ params' = a
    /\ held' = (held /\ a = params)
    /\ SwapClient(u)
    /\ \E s \in Slots :
        /\ task[s] = None
        /\ task' = [task EXCEPT ![s] =
                       [auth |-> a, url |-> u, version |-> version, at |-> "queued"]]
    /\ UNCHANGED <<latest, version, seen>>

\* The component's Connect,
ConnectWithParams(u, a) ==
    /\ call = "idle"
    /\ Connect(u, a)
    /\ call' = "error"
    /\ UNCHANGED <<unbind, eventMap, callbacks>>

\* which then binds the errors of "/", and so refers to its socket.
OnError ==
    /\ call = "error"
    /\ call' = "idle"
    /\ RefSocket
    /\ UNCHANGED <<authVars, task, unbind, eventMap, callbacks, statusVars, clientVars, handlers>>

SetAuth(a) ==
    /\ call = "idle"
    /\ version < MaxVersion
    /\ params' = a
    /\ latest' = a
    /\ version' = version + 1
    /\ held' = TRUE
    /\ UNCHANGED <<task, gameVars, statusVars, clientVars, sockVars>>

\* ClearAllCallbacks: clear_socket_listeners is empty in client_impl, so the
\* bindings of the sockets stay.
ClearAllCallbacks == eventMap' = {} /\ callbacks' = FALSE

\* Disconnect(): the part before close().  ReconnectionTimeout calls it too.
BeginDisconnect ==
    /\ connected' = FALSE
    /\ call' = "close"
    /\ IF unbind THEN ClearAllCallbacks ELSE UNCHANGED <<eventMap, callbacks>>
    /\ UNCHANGED unbind

Disconnect ==
    /\ call = "idle"
    /\ BeginDisconnect
    /\ UNCHANGED <<authVars, task, gameQueue, seen, clientVars, sockVars>>

DisconnectClose ==
    /\ call = "close"
    /\ ClientClose
    /\ call' = IF unbind THEN "idle" ELSE "rebind"
    /\ UNCHANGED <<authVars, task, unbind, eventMap, callbacks, statusVars>>

\* RebindCurrentEventMap.
Rebind ==
    /\ \/ call = "rebind"
       \/ call = "syncJoin" /\ ThreadOver /\ ~unbind
    /\ call' = "idle"
    /\ IF eventMap = {} THEN UNCHANGED sockVars
       ELSE RefSocket /\ handlers' = handlers \cup eventMap
    /\ UNCHANGED <<authVars, task, unbind, eventMap, callbacks, statusVars, clientVars>>

\* (mutant) bIsConnected is left to the close listener.
SyncDisconnectKept ==
    /\ call = "idle"
    /\ seen' = (seen /\ ~callbacks)
    /\ call' = "syncClose"
    /\ IF unbind THEN ClearAllCallbacks ELSE UNCHANGED <<eventMap, callbacks>>
    /\ UNCHANGED <<authVars, task, unbind, connected, gameQueue, clientVars, sockVars>>

\* SyncDisconnect calls the component back first, and returns when the network
\* thread has ended.
SyncDisconnect ==
    /\ call = "idle"
    /\ seen' = (seen /\ ~callbacks)
    /\ connected' = FALSE
    /\ call' = "syncClose"
    /\ IF unbind THEN ClearAllCallbacks ELSE UNCHANGED <<eventMap, callbacks>>
    /\ UNCHANGED <<authVars, task, unbind, gameQueue, clientVars, sockVars>>

SyncClose ==
    /\ call = "syncClose"
    /\ ClientClose
    /\ call' = "syncJoin"
    /\ UNCHANGED <<authVars, task, unbind, eventMap, callbacks, statusVars>>

SyncUnbound ==
    /\ call = "syncJoin" /\ ThreadOver /\ unbind
    /\ call' = "idle"
    /\ UNCHANGED <<authVars, task, unbind, eventMap, callbacks, statusVars, clientVars, sockVars>>

OnEvent(e) ==
    /\ call = "idle"
    /\ eventMap' = eventMap \cup {e}
    /\ RefSocket
    /\ handlers' = handlers \cup {e}
    /\ UNCHANGED <<authVars, task, call, unbind, callbacks, statusVars, clientVars>>

\* (mutant) the entry goes, the listener stays.
UnbindEventFromMap(e) ==
    /\ call = "idle"
    /\ RefSocket
    /\ eventMap' = eventMap \ {e}
    /\ UNCHANGED <<authVars, task, call, unbind, callbacks, statusVars, clientVars, handlers>>

UnbindEvent(e) ==
    /\ call = "idle"
    /\ RefSocket
    /\ handlers' = handlers \ {e}
    /\ eventMap' = eventMap \ {e}
    /\ UNCHANGED <<authVars, task, call, unbind, callbacks, statusVars, clientVars>>

\* The game thread runs a callback; one that was cleared meanwhile is not called.
\* A reconnection that lasts longer than ReconnectionTimeout disconnects.
GameTick ==
    /\ call = "idle"
    /\ gameQueue # <<>>
    /\ gameQueue' = Tail(gameQueue)
    /\ seen' = IF ~callbacks THEN seen
               ELSE CASE Head(gameQueue) = "connected" -> TRUE
                      [] Head(gameQueue) = "disconnected" -> FALSE
                      [] OTHER -> seen
    /\ \/ UNCHANGED <<connected, gameVars>>
       \/ Head(gameQueue) = "reconnection" /\ callbacks /\ BeginDisconnect
    /\ UNCHANGED <<authVars, task, clientVars, sockVars>>

-----------------------------------------------------------------------------
(* The background threads.                                                 *)

At(s, step) == task[s] # None /\ task[s].at = step
Goes(s, step) == task' = [task EXCEPT ![s].at = step]
Ends(s) == task' = [task EXCEPT ![s] = None]

\* opened(), get_url() and bIsConnected decide what the call is for.
TaskStarts(s) ==
    /\ At(s, "queued")
    /\ \/ con # "opened" /\ Goes(s, "update") /\ UNCHANGED <<clientVars, sockVars>>
       \/ con = "opened" /\ url # task[s].url /\ Goes(s, "sync") /\ ClientClose
       \/ /\ con = "opened" /\ url = task[s].url
          /\ IF connected THEN Ends(s) ELSE Goes(s, "reask")
          /\ UNCHANGED <<clientVars, sockVars>>
    /\ UNCHANGED <<authVars, gameVars, statusVars>>

\* sync_close() returns.
TaskSynced(s) ==
    /\ At(s, "sync") /\ ThreadOver
    /\ Goes(s, "update")
    /\ UNCHANGED <<authVars, gameVars, statusVars, clientVars, sockVars>>

\* (mutant) the last lambda to run has its way.
TaskUpdatesAlways(s) ==
    /\ At(s, "update") \/ At(s, "reask")
    /\ latest' = task[s].auth
    /\ Goes(s, IF At(s, "update") THEN "connect" ELSE "ask")
    /\ UNCHANGED <<params, version, held, gameVars, statusVars, clientVars, sockVars>>

\* UpdateLatestAuth: a SetAuth made after the Connect() stays.
TaskUpdates(s) ==
    /\ At(s, "update") \/ At(s, "reask")
    /\ latest' = IF version = task[s].version THEN task[s].auth ELSE latest
    /\ Goes(s, IF At(s, "update") THEN "connect" ELSE "ask")
    /\ UNCHANGED <<params, version, held, gameVars, statusVars, clientVars, sockVars>>

\* connect() of a client that is not closed does nothing; otherwise it cancels a
\* reconnection and joins the network thread.
TaskConnects(s) ==
    /\ At(s, "connect")
    /\ IF con \in {"opening", "opened"} THEN Ends(s) /\ UNCHANGED retrying
       ELSE Goes(s, "join") /\ retrying' = FALSE
    /\ UNCHANGED <<authVars, gameVars, statusVars, con, link, url, tls, sockVars>>

TaskDials(s) ==
    /\ At(s, "join") /\ ThreadOver
    /\ Ends(s)
    /\ con' = "opening" /\ link' = "dialing" /\ url' = task[s].url
    /\ sock' = IF sock = "rejected" THEN "idle" ELSE sock
    /\ UNCHANGED <<authVars, gameVars, statusVars, retrying, tls, timer, leaving, handlers>>

\* The transport is up but "/" is not: its connect is retried.
TaskAsks(s) ==
    /\ At(s, "ask")
    /\ Ends(s)
    /\ SocketConnect
    /\ UNCHANGED <<authVars, gameVars, statusVars, clientVars, handlers>>

-----------------------------------------------------------------------------
(* The network thread and the server.                                      *)

\* on_open: every socket that was not rejected is joined, "/" also if there is none.
Open ==
    /\ link = "dialing"
    /\ link' = "up"
    /\ \/ /\ con = "opening" /\ con' = "opened"
          /\ IF sock = "rejected" THEN UNCHANGED <<sock, timer, leaving>> ELSE AskToJoin
          /\ UNCHANGED handlers
       \/ con = "closing" /\ UNCHANGED con /\ SocketCloses
    /\ UNCHANGED <<authVars, task, gameVars, statusVars, retrying, url, tls>>

\* (mutant) bIsConnected stays over a reconnection.
RetryKept ==
    /\ retrying' = TRUE
    /\ UNCHANGED connected
    /\ Notify("reconnection")

\* The reconnect listener of on_fail and on_close, unless no attempt is left.
Retry ==
    /\ retrying' = TRUE
    /\ connected' = FALSE
    /\ Notify("reconnection")

\* The fail listener.
Failed == Notify("fail") /\ UNCHANGED <<retrying, connected>>

DialFails ==
    /\ link = "dialing" /\ Room
    /\ link' = "none"
    /\ \/ /\ con = "opening" /\ con' = "closed"
          /\ SocketDown
          /\ \/ Retry
             \/ Failed
       \/ con = "closing" /\ SocketCloses /\ UNCHANGED <<con, retrying, connected, gameQueue>>
    /\ UNCHANGED <<authVars, task, gameVars, seen, url, tls>>

\* on_close: of a close() that was asked for, or of a connection that drops.
LinkEnds ==
    /\ link = "up" /\ Room
    /\ link' = "none"
    /\ con' = "closed"
    /\ SocketDown
    /\ \/ Closed /\ UNCHANGED retrying
       \/ con = "opened" /\ Retry
    /\ UNCHANGED <<authVars, task, gameVars, seen, url, tls>>

Redial ==
    /\ retrying /\ con = "closed"
    /\ retrying' = FALSE
    /\ con' = "opening" /\ link' = "dialing"
    /\ UNCHANGED <<authVars, task, gameVars, statusVars, url, tls, sockVars>>

\* The server accepts "/": on_connected and the socket open listener.  The answer
\* may come when the client is closing already.
Accepted ==
    /\ link = "up" /\ sock = "joining" /\ Room
    /\ sock' = "joined" /\ timer' = FALSE
    /\ connected' = TRUE
    /\ IF connected THEN UNCHANGED gameQueue ELSE Notify("connected")
    /\ UNCHANGED <<authVars, task, gameVars, seen, clientVars, leaving, handlers>>

Rejected ==
    /\ link = "up" /\ sock = "joining"
    /\ sock' = "rejected" /\ timer' = FALSE
    /\ UNCHANGED <<authVars, task, gameVars, statusVars, clientVars, leaving, handlers>>

ServerLeaves ==
    /\ link = "up" /\ sock = "joined"
    /\ SocketGone
    /\ UNCHANGED <<authVars, task, gameVars, statusVars, clientVars>>

\* timeout_connection, or the wait for a leave.
TimerFires ==
    /\ timer
    /\ SocketGone
    /\ UNCHANGED <<authVars, task, gameVars, statusVars, clientVars>>

-----------------------------------------------------------------------------

GameThread ==
    \/ (\E u \in Urls, a \in Auths : ConnectWithParams(u, a)) \/ OnError
    \/ \E a \in Auths : SetAuth(a)
    \/ \E e \in Events : OnEvent(e) \/ UnbindEvent(e)
    \/ Disconnect \/ DisconnectClose \/ Rebind
    \/ SyncDisconnect \/ SyncClose \/ SyncUnbound
    \/ GameTick

Background ==
    \E s \in Slots :
        \/ TaskStarts(s) \/ TaskSynced(s) \/ TaskUpdates(s)
        \/ TaskConnects(s) \/ TaskDials(s) \/ TaskAsks(s)

Network ==
    \/ Open \/ DialFails \/ LinkEnds \/ Redial
    \/ Accepted \/ Rejected \/ ServerLeaves \/ TimerFires

NativeNext == GameThread \/ Background \/ Network

NativeSpec == NativeInit /\ [][NativeNext]_nativeVars

-----------------------------------------------------------------------------
(* Properties.                                                             *)

\* bIsConnected, which the game thread, the background threads and the listeners
\* share, is never left set without a transport: not by an acceptance that comes
\* after Disconnect() cleared it, and not over a reconnection.
ConnectedHasLink == connected => link = "up"

\* Once the game thread has run what waits for it, the component holds itself
\* connected if its client is (bIsConnected of both, while its callbacks are set).
ComponentFollows ==
    connected /\ callbacks /\ ~seen => \E i \in DOMAIN gameQueue : gameQueue[i] = "connected"

\* SocketIONative.h: SetAuth replaces "the auth sent with every later namespace
\* connect": no Connect() still on its way to a background thread puts an older
\* auth back.
SetAuthStays == held => latest = params

\* An event that was unbound stays unbound, whatever Disconnect() binds again.
UnboundStays == ~unbind => handlers \subseteq eventMap

\* README.md: a binding "should be typically called once e.g. on beginplay", and
\* bUnbindEventsOnDisconnect is what makes a disconnect take it away.  Without it the
\* socket that a Disconnect() has bound again, and that goes later, takes no binding
\* along.  It does not hold, and is in no run: on_close of that socket comes after
\* RebindCurrentEventMap.
KeepsBindings ==
    [][~unbind /\ call = "idle" /\ leaving /\ eventMap' = eventMap
          => eventMap \cap handlers \subseteq handlers']_nativeVars

=============================================================================
