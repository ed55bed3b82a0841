----------------------------- MODULE SioSocket -----------------------------
(***************************************************************************)
(* The namespaces of a client: sio::socket (SocketIOLib/Private/           *)
(* sio_socket.cpp), the map client_impl keeps them in, and what            *)
(* FSocketIONative's JoinNamespace, LeaveNamespace and Emit do to it.      *)
(*                                                                         *)
(* Each namespace has one m_connection_timer, used in turn for the answer  *)
(* to a CONNECT (20 s), for the end of a leave (3 s) and for a leave whose *)
(* transport went away (at once).  A wait that has expired is a handler in *)
(* the io_service's queue: cancel() and reset() no longer reach it.        *)
(*                                                                         *)
(* The transport is reduced to m_con_state and the link; SioClient has its *)
(* threads.  Calls of the application are atomic with respect to handlers  *)
(* here.  The server is the environment: it may accept, reject or ignore a *)
(* CONNECT, and disconnect a namespace; a second CONNECT for a namespace   *)
(* it already holds is ignored, as socket.io's server does.                *)
(***************************************************************************)
EXTENDS Naturals, Sequences

CONSTANTS Nsps,         \* namespaces
          Root,         \* "/", which on_open always joins
          MaxPackets    \* bound on the packets of one namespace in one direction

ASSUME RootAssumption       == Root \in Nsps
ASSUME MaxPacketsAssumption == MaxPackets \in Nat

VARIABLES
    conState,   \* client_impl::m_con_state
    link,       \* the WebSocket connection
    retrying,   \* m_reconn_timer is armed
    reg,        \* the namespaces in m_sockets
    connected,  \* those with m_connected
    rejected,   \* those with m_rejected
    leaving,    \* those with m_close_pending
    timer,      \* what m_connection_timer waits for; spent: its wait expired
    timedOut,   \* namespaces with an expired answer wait queued
    closeDue,   \* namespaces with an expired leave wait queued
    c2s,        \* packets to the server, per namespace
    s2c,        \* packets from the server, per namespace
    members,    \* the namespaces the server has this client in
    late        \* history: namespaces torn down over this connection with a
                \* CONNECT unanswered, which the server may still answer

clientVars == <<conState, link, retrying>>
sockVars   == <<reg, connected, rejected, leaving, timer, timedOut, closeDue>>
netVars    == <<c2s, s2c, members, late>>
vars       == <<clientVars, sockVars, netVars>>

Packets == {"connect", "disconnect", "error"}
Waits   == {"none", "answer", "leave", "now", "spent"}

TypeOK ==
    /\ conState \in {"opening", "opened", "closing", "closed"}
    /\ link \in {"down", "dialing", "up", "closing"}
    /\ retrying \in BOOLEAN
    /\ reg \subseteq Nsps /\ connected \subseteq reg /\ rejected \subseteq reg
    /\ leaving \subseteq reg /\ timedOut \subseteq reg /\ closeDue \subseteq reg
    /\ timer \in [Nsps -> Waits] /\ (\A n \in Nsps \ reg : timer[n] = "none")
    /\ c2s \in [Nsps -> Seq({"connect", "disconnect"})]
    /\ s2c \in [Nsps -> Seq(Packets)]
    /\ members \subseteq Nsps /\ late \subseteq Nsps

Silence == [n \in Nsps |-> <<>>]

Init ==
    /\ conState = "closed" /\ link = "down" /\ retrying = FALSE
    /\ reg = {} /\ connected = {} /\ rejected = {} /\ leaving = {}
    /\ timer = [n \in Nsps |-> "none"]
    /\ timedOut = {} /\ closeDue = {}
    /\ c2s = Silence /\ s2c = Silence
    /\ members = {} /\ late = {}

-----------------------------------------------------------------------------
(* sio::socket, one namespace.                                             *)

\* send_impl drops what is sent while m_con_state is not con_opened.
Send(n, type) ==
    c2s' = IF conState = "opened" THEN [c2s EXCEPT ![n] = Append(@, type)] ELSE c2s

\* send_connect: a new CONNECT replaces any earlier close.
SendConnect(n) ==
    /\ Send(n, "connect")
    /\ timer' = [timer EXCEPT ![n] = "answer"]
    /\ leaving' = leaving \ {n}

NothingSent == UNCHANGED <<c2s, timer, leaving>>

\* connect(): forget a rejection; an armed timer means a CONNECT is in flight.
SocketConnect(n) ==
    /\ rejected' = rejected \ {n}
    /\ IF n \notin connected /\ timer[n] = "none" /\ conState = "opened"
       THEN SendConnect(n)
       ELSE NothingSent

\* close() on a namespace of a client that is not closing.
SocketClose(n) ==
    IF n \in connected
    THEN /\ Send(n, "disconnect")
         /\ timer' = [timer EXCEPT ![n] = "leave"]
         /\ leaving' = leaving \cup {n}
    ELSE /\ leaving' = IF n \notin rejected /\ conState # "opened"
                       THEN leaving \cup {n} ELSE leaving
         /\ UNCHANGED <<c2s, timer>>

\* (mutant) m_close_pending outlives the socket.
SocketOnCloseLeaving(n) ==
    /\ reg' = reg \ {n}
    /\ connected' = connected \ {n}
    /\ rejected' = rejected \ {n}
    /\ timer' = [timer EXCEPT ![n] = "none"]
    /\ timedOut' = timedOut \ {n}
    /\ closeDue' = closeDue \ {n}
    /\ UNCHANGED <<leaving, late>>

\* on_close(): the socket is torn down and leaves m_sockets.  Handlers still
\* queued for it find m_close_invoked set (timeout_connection, which does not
\* pin the socket, finds it destroyed): they have no further effect here.
SocketOnClose(n) ==
    /\ reg' = reg \ {n}
    /\ connected' = connected \ {n}
    /\ rejected' = rejected \ {n}
    /\ leaving' = leaving \ {n}
    /\ timer' = [timer EXCEPT ![n] = "none"]
    /\ timedOut' = timedOut \ {n}
    /\ closeDue' = closeDue \ {n}
    /\ late' = IF n \notin connected /\ link = "up" THEN late \cup {n} ELSE late

\* on_connected(): the wait is over; a leave that was pending is not looked at.
SocketOnConnected(n) ==
    /\ timer' = [timer EXCEPT ![n] = "none"]
    /\ connected' = connected \cup {n}
    /\ UNCHANGED <<reg, rejected, leaving, timedOut, closeDue, late>>

\* (mutant) A connect error stops the wait and does not mark the socket.
SocketOnErrorUnmarked(n) ==
    /\ timer' = IF n \in connected THEN timer ELSE [timer EXCEPT ![n] = "none"]
    /\ UNCHANGED <<reg, connected, rejected, leaving, timedOut, closeDue, late>>

\* A connect error keeps the socket, rejected; on a connected one it is an event.
SocketOnError(n) ==
    /\ IF n \in connected
       THEN UNCHANGED <<rejected, timer>>
       ELSE /\ rejected' = rejected \cup {n}
            /\ timer' = [timer EXCEPT ![n] = "none"]
    /\ UNCHANGED <<reg, connected, leaving, timedOut, closeDue, late>>

-----------------------------------------------------------------------------
(* All sockets at once, as client_impl::sockets_invoke_void calls them.    *)

\* close() on every socket; m_con_state is con_closing, so nothing is sent.
CloseAll ==
    /\ leaving' = leaving \cup connected \cup (reg \ rejected)
    /\ timer' = [n \in Nsps |-> IF n \in connected THEN "leave" ELSE timer[n]]
    /\ UNCHANGED <<reg, connected, rejected, timedOut, closeDue>>

\* (mutant) m_connected survives the transport.
DisconnectAllKept ==
    /\ timer' = [n \in Nsps |-> IF n \in leaving /\ timer[n] # "none" THEN "now"
                                ELSE timer[n]]
    /\ UNCHANGED <<reg, connected, rejected, leaving, timedOut, closeDue>>

\* (mutant) The wait of a leave is cancelled with the transport, not ended.
DisconnectAllCancels ==
    /\ connected' = {}
    /\ timer' = [n \in Nsps |-> IF n \in leaving THEN "none" ELSE timer[n]]
    /\ UNCHANGED <<reg, rejected, leaving, timedOut, closeDue>>

\* on_disconnect() on every socket: a leave in progress ends at once.
DisconnectAll ==
    /\ connected' = {}
    /\ timer' = [n \in Nsps |-> IF n \in leaving /\ timer[n] # "none" THEN "now"
                                ELSE timer[n]]
    /\ UNCHANGED <<reg, rejected, leaving, timedOut, closeDue>>

\* (mutant) A reopened transport retries rejected namespaces too.
OpenAllRejected ==
    /\ reg' = reg \cup {Root}
    /\ leaving' = leaving \ reg'
    /\ timer' = [n \in Nsps |-> IF n \in reg' THEN "answer" ELSE timer[n]]
    /\ c2s' = [n \in Nsps |-> IF n \in reg' THEN <<"connect">> ELSE <<>>]
    /\ UNCHANGED <<connected, rejected, timedOut, closeDue>>

\* on_open() on every socket, then socket("") joins the root namespace.
OpenAll ==
    LET joining == (reg \ rejected) \cup ({Root} \ reg)
    IN  /\ reg' = reg \cup {Root}
        /\ leaving' = leaving \ joining
        /\ timer' = [n \in Nsps |-> IF n \in joining THEN "answer" ELSE timer[n]]
        /\ c2s' = [n \in Nsps |-> IF n \in joining THEN <<"connect">> ELSE <<>>]
        /\ UNCHANGED <<connected, rejected, timedOut, closeDue>>

-----------------------------------------------------------------------------
(* The application.                                                        *)

Room(n) == Len(c2s[n]) < MaxPackets

\* client_impl::connect() behind its join: no handler and no wait is left.
Connect ==
    /\ conState \in {"closing", "closed"}
    /\ link = "down"
    /\ timedOut = {} /\ closeDue = {}
    /\ \A n \in Nsps : timer[n] = "none"
    /\ conState' = "opening"
    /\ link' = "dialing"
    /\ retrying' = FALSE
    /\ rejected' = {}
    /\ UNCHANGED <<reg, connected, leaving, timer, timedOut, closeDue, netVars>>

\* client_impl::close(); close_impl cancels the reconnection.
Disconnect ==
    /\ conState' = "closing"
    /\ retrying' = FALSE
    /\ CloseAll
    /\ UNCHANGED <<link, netVars>>

\* socket(n) by Emit or a binding: an unknown namespace is created, and joined
\* if the client is open.
Touch(n) ==
    /\ Room(n)
    /\ n \notin reg
    /\ reg' = reg \cup {n}
    /\ IF conState = "opened" THEN SendConnect(n) ELSE NothingSent
    /\ UNCHANGED <<clientVars, connected, rejected, timedOut, closeDue, s2c, members, late>>

\* JoinNamespace: socket(n)->connect(); a socket just created has sent already.
JoinNamespace(n) ==
    /\ Room(n)
    /\ reg' = reg \cup {n}
    /\ SocketConnect(n)
    /\ UNCHANGED <<clientVars, connected, timedOut, closeDue, s2c, members, late>>

\* LeaveNamespace: socket(n)->close(); an unknown namespace is created first.
LeaveNamespace(n) ==
    /\ Room(n)
    /\ reg' = reg \cup {n}
    /\ IF n \notin reg /\ conState = "opened" THEN SendConnect(n) ELSE SocketClose(n)
    /\ UNCHANGED <<clientVars, connected, rejected, timedOut, closeDue, s2c, members, late>>

-----------------------------------------------------------------------------
(* The network thread.                                                     *)

\* timeout_reconnect.
Redial ==
    /\ retrying
    /\ retrying' = FALSE
    /\ conState' = "opening"
    /\ link' = "dialing"
    /\ UNCHANGED <<sockVars, netVars>>

OnOpen ==
    /\ link = "dialing"
    /\ link' = "up"
    /\ \/ /\ conState = "opening"
          /\ conState' = "opened"
          /\ OpenAll
       \/ /\ conState = "closing"
          /\ CloseAll
          /\ UNCHANGED <<conState, c2s>>
    /\ UNCHANGED <<retrying, s2c, members, late>>

OnFail ==
    /\ link = "dialing"
    /\ link' = "down"
    /\ \/ /\ conState = "opening"
          /\ conState' = "closed"
          /\ retrying' \in BOOLEAN     \* unless the attempts are used up
          /\ DisconnectAll
       \/ /\ conState = "closing"
          /\ CloseAll
          /\ UNCHANGED <<conState, retrying>>
    /\ UNCHANGED netVars

\* close_impl starts the close handshake: no message is delivered after it.
CloseImpl ==
    /\ conState = "closing"
    /\ link = "up"
    /\ link' = "closing"
    /\ UNCHANGED <<conState, retrying, sockVars, netVars>>

OnClose ==
    /\ link \in {"up", "closing"}
    /\ link' = "down"
    /\ conState' = "closed"
    /\ retrying' \in IF conState = "closing" THEN {FALSE} ELSE BOOLEAN
    /\ DisconnectAll
    /\ c2s' = Silence /\ s2c' = Silence /\ members' = {} /\ late' = {}

\* A packet from the server; without a socket for its namespace it is dropped.
OnMessage(n) ==
    /\ link = "up"
    /\ s2c[n] # <<>>
    /\ s2c' = [s2c EXCEPT ![n] = Tail(@)]
    /\ IF n \notin reg THEN UNCHANGED <<sockVars, late>>
       ELSE \/ Head(s2c[n]) = "connect" /\ SocketOnConnected(n)
            \/ Head(s2c[n]) = "disconnect" /\ SocketOnClose(n)
            \/ Head(s2c[n]) = "error" /\ SocketOnError(n)
    /\ UNCHANGED <<clientVars, c2s, members>>

WaitExpires(n) ==
    /\ timer[n] \in {"answer", "leave", "now"}
    /\ timer' = [timer EXCEPT ![n] = "spent"]
    /\ IF timer[n] = "answer"
       THEN timedOut' = timedOut \cup {n} /\ UNCHANGED closeDue
       ELSE closeDue' = closeDue \cup {n} /\ UNCHANGED timedOut
    /\ UNCHANGED <<clientVars, reg, connected, rejected, leaving, netVars>>

\* timeout_connection: "should close socket if no connected message arrive".
TimeoutConnection(n) ==
    /\ n \in timedOut
    /\ SocketOnClose(n)
    /\ UNCHANGED <<clientVars, c2s, s2c, members>>

\* The lambda close() and on_disconnect() leave with the timer.
DeferredClose(n) ==
    /\ n \in closeDue
    /\ SocketOnClose(n)
    /\ UNCHANGED <<clientVars, c2s, s2c, members>>

-----------------------------------------------------------------------------
(* The server.                                                             *)

Answer(n, type) == s2c' = [s2c EXCEPT ![n] = Append(@, type)]

ServerTakes(n) ==
    /\ link = "up"
    /\ c2s[n] # <<>>
    /\ Len(s2c[n]) < MaxPackets
    /\ c2s' = [c2s EXCEPT ![n] = Tail(@)]
    /\ \/ /\ Head(c2s[n]) = "connect" /\ n \notin members
          /\ members' = members \cup {n}
          /\ Answer(n, "connect")
       \/ /\ Head(c2s[n]) = "connect" /\ n \notin members
          /\ Answer(n, "error")
          /\ UNCHANGED members
       \/ /\ Head(c2s[n]) = "connect"
          /\ UNCHANGED <<s2c, members>>
       \/ /\ Head(c2s[n]) = "disconnect"
          /\ members' = members \ {n}
          /\ UNCHANGED s2c
    /\ UNCHANGED <<clientVars, sockVars, late>>

ServerDisconnects(n) ==
    /\ link = "up"
    /\ n \in members
    /\ Len(s2c[n]) < MaxPackets
    /\ members' = members \ {n}
    /\ Answer(n, "disconnect")
    /\ UNCHANGED <<clientVars, sockVars, c2s, late>>

-----------------------------------------------------------------------------

Next ==
    \/ Connect \/ Disconnect \/ Redial \/ OnOpen \/ OnFail \/ CloseImpl \/ OnClose
    \/ \E n \in Nsps :
        \/ Touch(n) \/ JoinNamespace(n) \/ LeaveNamespace(n)
        \/ OnMessage(n) \/ WaitExpires(n) \/ TimeoutConnection(n) \/ DeferredClose(n)
        \/ ServerTakes(n) \/ ServerDisconnects(n)

(* The network thread handles what has arrived or expired; the server owes *)
(* nothing, and nobody has to call.                                        *)
Fairness ==
    /\ WF_vars(CloseImpl)
    /\ WF_vars(OnClose /\ link = "closing")
    /\ WF_vars(OnOpen \/ OnFail)
    /\ \A n \in Nsps :
        /\ WF_vars(WaitExpires(n))
        /\ WF_vars(TimeoutConnection(n))
        /\ WF_vars(DeferredClose(n))

Spec     == Init /\ [][Next]_vars
FairSpec == Spec /\ Fairness

-----------------------------------------------------------------------------
(* Properties.                                                             *)

\* A namespace is connected only over a live connection: no handler or call
\* leaves one behind when the transport goes.
ConnectedNeedsLink ==
    connected # {} => conState \in {"opened", "closing"} /\ link \in {"up", "closing"}

\* While the client is open, a namespace that is neither connected nor rejected
\* has a wait under way that will end it: no order of joins, leaves, rejections,
\* reconnections and timeouts leaves a namespace silently unjoined for good.
JoinIsWatched ==
    conState = "opened" =>
        \A n \in reg \ (connected \cup rejected) :
            timer[n] \in {"answer", "now"} \/ n \in timedOut \cup closeDue

\* What makes the two above inductive: how m_con_state and the link go together,
\* that an expired wait is queued, and that only a connected namespace waits for
\* the end of a leave.
StateFitsLink ==
    /\ link = "dialing" => conState \in {"opening", "closing"}
    /\ link = "up" => conState \in {"opened", "closing"}
    /\ link = "closing" => conState = "closing"
    /\ link = "down" => conState \in {"closing", "closed"}
    /\ retrying => conState = "closed"
SpentIsQueued == \A n \in Nsps : timer[n] = "spent" => n \in timedOut \cup closeDue
LeaverIsConnected == \A n \in Nsps : timer[n] = "leave" => n \in connected \cap leaving

IInv == /\ TypeOK /\ StateFitsLink /\ ConnectedNeedsLink /\ JoinIsWatched
        /\ SpentIsQueued /\ LeaverIsConnected

\* With no packet of a namespace in flight, one the client holds connected and
\* is not leaving is one the server holds: unless the client gave up on a
\* CONNECT of it that the server answers after all.
SettledAgreement ==
    conState = "opened" =>
        \A n \in connected \ (leaving \cup late) :
            c2s[n] = <<>> /\ s2c[n] = <<>> => n \in members

Sends(n, type) == c2s'[n] = Append(c2s[n], type)

\* No CONNECT is sent for a namespace that stays rejected (sio_socket.cpp on
\* m_rejected: not on a transport reopen, until connect() is called).
RejectionHolds ==
    [][\A n \in rejected \cap rejected' : ~Sends(n, "connect")]_vars

\* A leave of a connected namespace completes, also when the transport goes or
\* comes back in between: the namespace is removed, or joined afresh.
LeaveCompletes ==
    \A n \in Nsps : timer[n] = "leave" ~> (n \notin leaving \/ n \in late)

\* timeout_connection "should close socket if no connected message arrive": a
\* namespace whose CONNECT was answered is not timed out any more.  It does not hold,
\* and is in no run.
AnswerStopsTimeout == connected \cap timedOut = {}
=============================================================================
