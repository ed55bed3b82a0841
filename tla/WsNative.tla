------------------------------ MODULE WsNative ------------------------------
(***************************************************************************)
(* FWebSocketNative and UWebSocketClientComponent: calls of the game       *)
(* thread, callbacks of the network threads, and the queue of the game     *)
(* thread between them.  What a connection calls back, and when, is        *)
(* WsContract, which WsClient shows FWebSocketLibClient to implement.      *)
(***************************************************************************)
EXTENDS Naturals, Sequences

CONSTANTS Conns,
          NoConn,
          MaxConnects, \* bounds the Connect() calls
          MaxPosted    \* bounds the callbacks waiting for the game thread

ASSUME WsNativeAssumption ==
    /\ NoConn \notin Conns
    /\ MaxConnects \in Nat /\ MaxPosted \in Nat

VARIABLES
    asked, enabled, last,   \* of WsContract
    made,       \* connections started
    current,    \* FImpl::Connection
    alive,      \* NativeClient is valid
    posted,     \* callbacks Deliver() queued for the game thread, oldest first
    isConnected,
    refused,    \* history: the last Connect() was refused for its Url
    connects    \* calls of Connect()

wsVars == <<asked, enabled, last, made, current, alive, posted, isConnected, refused, connects>>

Ws == INSTANCE WsContract WITH Conns <- Conns, asked <- asked, enabled <- enabled, last <- last

WsNativeTypeOK ==
    /\ asked \in [Conns -> BOOLEAN] /\ enabled \in [Conns -> BOOLEAN]
    /\ last \in [Conns -> {"none", "open", "text", "close", "fail"}]
    /\ made \subseteq Conns
    /\ current \in made \cup {NoConn}
    /\ alive \in BOOLEAN /\ isConnected \in BOOLEAN /\ refused \in BOOLEAN
    /\ posted \in Seq({"open", "text", "close", "fail"})
    /\ connects \in 0..MaxConnects

WsNativeInit ==
    /\ Ws!Init
    /\ made = {} /\ current = NoConn
    /\ alive = TRUE /\ isConnected = FALSE /\ refused = FALSE
    /\ posted = <<>>
    /\ connects = 0

\* (mutant) the old connection goes on calling back.
ReplacedLoud ==
    /\ asked' = [c \in Conns |-> asked[c] \/ c = current]
    /\ UNCHANGED <<enabled, last>>

\* Replace: callbacks first, then the close.
Replaced ==
    /\ enabled' = [c \in Conns |-> enabled[c] /\ c # current]
    /\ asked' = [c \in Conns |-> asked[c] \/ c = current]
    /\ UNCHANGED last

\* Connect() of the component and of its native.
BeginConnect ==
    /\ connects < MaxConnects /\ Len(posted) < MaxPosted
    /\ connects' = connects + 1
    /\ alive' = TRUE
    /\ isConnected' = FALSE

\* The client refuses a Url that is neither ws nor wss before it replaces anything.
Refuse ==
    /\ BeginConnect
    /\ refused' = TRUE
    /\ posted' = Append(posted, "fail")
    /\ UNCHANGED <<asked, enabled, last, made, current>>

\* A connection is started, or cannot be.
StartConnection ==
    /\ BeginConnect
    /\ refused' = FALSE
    /\ Replaced
    /\ \/ \E c \in Conns \ made : made' = made \cup {c} /\ current' = c /\ UNCHANGED posted
       \/ current' = NoConn /\ posted' = Append(posted, "fail") /\ UNCHANGED made

\* Disconnect(), and SyncDisconnect(): the callbacks tell when it is done.
CloseConnection ==
    /\ current # NoConn
    /\ Ws!Ask(current)
    /\ UNCHANGED <<made, current, alive, posted, isConnected, refused, connects>>

\* A callback of a network thread, and Deliver().
CallBack(c, callback) ==
    /\ c \in made /\ Len(posted) < MaxPosted
    /\ Ws!Say(c, callback)
    /\ posted' = Append(posted, callback)
    /\ UNCHANGED <<made, current, alive, isConnected, refused, connects>>

\* The game thread runs a callback.
RunCallback ==
    /\ posted # <<>>
    /\ posted' = Tail(posted)
    /\ isConnected' = CASE Head(posted) = "open" -> TRUE
                        [] Head(posted) \in {"close", "fail"} -> FALSE
                        [] OTHER -> isConnected
    /\ UNCHANGED <<asked, enabled, last, made, current, alive, refused, connects>>

\* The native goes, and its queued callbacks find it gone.
UninitializeComponent ==
    /\ alive
    /\ alive' = FALSE
    /\ Replaced /\ current' = NoConn
    /\ posted' = <<>>
    /\ isConnected' = FALSE
    /\ UNCHANGED <<made, refused, connects>>

WsNativeNext ==
    \/ Refuse \/ StartConnection \/ CloseConnection
    \/ RunCallback \/ UninitializeComponent
    \/ \E c \in Conns, callback \in {"open", "text", "close", "fail"} : CallBack(c, callback)

WsNativeSpec == WsNativeInit /\ [][WsNativeNext]_wsVars

-----------------------------------------------------------------------------
(* Properties.                                                             *)

\* Callbacks of a connection that was replaced may still wait for the game thread
\* when Connect() returns, and run.  They do not confuse the component for good:
\* once nothing waits and the present connection has reported, bIsConnected is
\* what that connection is (a Connect() that was refused for its Url leaves the
\* connection as it is, and clears bIsConnected).
StatusSettles ==
    posted = <<>> =>
        IF current = NoConn THEN ~isConnected
        ELSE last[current] # "none" =>
                /\ isConnected => Ws!Opened(current)
                /\ Ws!Opened(current) /\ ~asked[current] /\ ~refused => isConnected
=============================================================================
