----------------------------- MODULE SioClient -----------------------------
(***************************************************************************)
(* The transport side of sio::client_impl (SocketIOLib/Private/internal/   *)
(* sio_client_impl.cpp): connect(), close() and sync_close() called by     *)
(* application threads, the handlers the io_service runs on the network    *)
(* thread, and the reconnection timer between them.                        *)
(*                                                                         *)
(* m_con_state is read and written by both sides without a lock, so a      *)
(* handler that reads it and writes it later is two steps here, and the    *)
(* calls of the application are cut at the same points.  Handlers run one  *)
(* at a time: the next one starts only when `net' is idle again.           *)
(*                                                                         *)
(* Left to SioSocket: what the namespaces do when the transport opens or   *)
(* closes.  Here they only keep run() alive with their timers, `nspTimer'. *)
(* Premise: connect() and sync_close() calls, which move m_network_thread, *)
(* do not overlap; close() overlaps with anything.                         *)
(***************************************************************************)
EXTENDS Naturals, Sequences

CONSTANTS Threads,      \* application threads that call into the client
          Attempts,     \* m_reconn_attempts
          MaxPosted     \* bound on the handlers waiting in the io_service queue

ASSUME AttemptsAssumption  == Attempts \in Nat
ASSUME MaxPostedAssumption == MaxPosted \in Nat

VARIABLES
    conState,   \* m_con_state
    thread,     \* m_network_thread: none, or its run loop is running or has exited
    pc,         \* where each application thread is inside connect() or close()
    net,        \* the handler the network thread is inside, cut at m_con_state
    was,        \* on_close's m_con_state_was
    posted,     \* the io_service's queue of ready handlers
    timerArmed, \* m_reconn_timer has a wait that has neither expired nor been cancelled
    made,       \* m_reconn_made
    con,        \* the websocketpp connection in flight
    code,       \* its local close code, normal or other
    hdl,        \* m_con refers to that connection
    nspTimer,   \* some namespace's m_connection_timer is pending on the io_service
    owed        \* history: a close() the close listener has not reported yet

vars == <<conState, thread, pc, net, was, posted, timerArmed, made, con, code,
          hdl, nspTimer, owed>>

appVars  == <<thread, pc>>
linkVars == <<con, code, hdl>>

ConStates == {"opening", "opened", "closing", "closed"}
Handlers  == {"dial", "close", "reconnect"}
Owning    == {"joining", "starting", "launching", "syncClosing", "syncJoin"}
NetSteps  == {"idle", "onOpen", "onFail", "rearmFail", "onClose", "rearmClose",
              "reconnect"}

\* Handler h is queued, at most once.
Has(h)  == \E i \in DOMAIN posted : posted[i] = h
Once(h) == \A i, j \in DOMAIN posted : posted[i] = h /\ posted[j] = h => i = j

TypeOK ==
    /\ conState \in ConStates
    /\ thread \in {"none", "running", "exited"}
    /\ pc \in [Threads -> {"idle", "closing"} \cup Owning]
    /\ net \in NetSteps
    /\ was \in ConStates
    /\ posted \in Seq(Handlers)
    /\ timerArmed \in BOOLEAN
    /\ made \in Nat
    /\ con \in {"none", "dialing", "open", "closing"}
    /\ code \in {"normal", "other"}
    /\ hdl \in BOOLEAN
    /\ nspTimer \in BOOLEAN
    /\ owed \in BOOLEAN

Init ==
    /\ conState = "closed"
    /\ thread = "none"
    /\ pc = [t \in Threads |-> "idle"]
    /\ net = "idle"
    /\ was = "closed"
    /\ posted = <<>>
    /\ timerArmed = FALSE
    /\ made = 0
    /\ con = "none"
    /\ code = "normal"
    /\ hdl = FALSE
    /\ nspTimer = FALSE
    /\ owed = FALSE

-----------------------------------------------------------------------------
(* The application's side.                                                 *)

\* No connect() or sync_close() is in progress.
NoOwner == \A t \in Threads : pc[t] \notin Owning

\* (mutant) A client in con_closed is restarted without joining its old thread.
ConnectBeginUnjoined(t) ==
    /\ pc[t] = "idle"
    /\ NoOwner
    /\ timerArmed' = FALSE
    /\ pc' = [pc EXCEPT ![t] = IF thread = "none" \/ conState = "closed" THEN "starting"
                              ELSE IF conState = "closing" THEN "joining" ELSE "idle"]
    /\ UNCHANGED <<conState, thread, net, was, posted, made, linkVars, nspTimer, owed>>

\* connect() up to its decision: cancel the reconnection, then start at once,
\* join the old thread first, or return because the client is opening or open.
ConnectBegin(t) ==
    /\ pc[t] = "idle"
    /\ NoOwner
    /\ timerArmed' = FALSE
    /\ \/ /\ thread = "none"
          /\ pc' = [pc EXCEPT ![t] = "starting"]
       \/ /\ thread # "none"
          /\ conState \in {"closing", "closed"}
          /\ pc' = [pc EXCEPT ![t] = "joining"]
       \/ /\ thread # "none"
          /\ conState \notin {"closing", "closed"}
          /\ UNCHANGED pc
    /\ UNCHANGED <<conState, thread, net, was, posted, made, linkVars, nspTimer, owed>>

\* m_network_thread->join() returns once the run loop has ended.
ConnectJoined(t) ==
    /\ pc[t] = "joining"
    /\ thread = "exited"
    /\ thread' = "none"
    /\ pc' = [pc EXCEPT ![t] = "starting"]
    /\ UNCHANGED <<conState, net, was, posted, timerArmed, made, linkVars, nspTimer, owed>>

ConnectStart(t) ==
    /\ pc[t] = "starting"
    /\ conState' = "opening"
    /\ made' = 0
    /\ owed' = FALSE
    /\ pc' = [pc EXCEPT ![t] = "launching"]
    /\ UNCHANGED <<thread, net, was, posted, timerArmed, linkVars, nspTimer>>

\* connect_impl is queued behind whatever was posted while no thread ran.
ConnectLaunch(t) ==
    /\ pc[t] = "launching"
    /\ posted' = Append(posted, "dial")
    /\ thread' = "running"
    /\ pc' = [pc EXCEPT ![t] = "idle"]
    /\ UNCHANGED <<conState, net, was, timerArmed, made, linkVars, nspTimer, owed>>

\* Something close() is to end: a connection, an attempt or a coming attempt.
Engaged ==
    \/ conState \in {"opening", "opened"}
    \/ timerArmed
    \/ Has("reconnect") \/ net = "reconnect"

\* close() and sync_close() first write con_closing, then close the namespaces
\* (which may arm their 3 s timers) and post close_impl.
CloseBegin(t) ==
    /\ pc[t] = "idle"
    /\ Len(posted) < MaxPosted
    /\ conState' = "closing"
    /\ \/ /\ pc' = [pc EXCEPT ![t] = "closing"]
          /\ owed' = (owed \/ Engaged)
       \/ /\ NoOwner
          /\ pc' = [pc EXCEPT ![t] = "syncClosing"]
          /\ UNCHANGED owed
    /\ UNCHANGED <<thread, net, was, posted, timerArmed, made, linkVars, nspTimer>>

ClosePost(t) ==
    /\ \/ /\ pc[t] = "closing"
          /\ pc' = [pc EXCEPT ![t] = "idle"]
       \/ /\ pc[t] = "syncClosing"
          /\ pc' = [pc EXCEPT ![t] = "syncJoin"]
    /\ posted' = Append(posted, "close")
    /\ nspTimer' \in {nspTimer, nspTimer \/ hdl}
    /\ UNCHANGED <<conState, thread, net, was, timerArmed, made, linkVars, owed>>

SyncCloseJoined(t) ==
    /\ pc[t] = "syncJoin"
    /\ thread # "running"
    /\ thread' = "none"
    /\ pc' = [pc EXCEPT ![t] = "idle"]
    /\ UNCHANGED <<conState, net, was, posted, timerArmed, made, linkVars, nspTimer, owed>>

\* Joining or leaving a namespace of an open client arms that namespace's timer.
NspTimerArmed ==
    /\ conState = "opened"
    /\ ~nspTimer
    /\ nspTimer' = TRUE
    /\ UNCHANGED <<conState, appVars, net, was, posted, timerArmed, made, linkVars, owed>>

-----------------------------------------------------------------------------
(* The network thread.                                                     *)

NetIdle == thread = "running" /\ net = "idle"

TakeHandler(h) ==
    /\ NetIdle
    /\ posted # <<>>
    /\ Head(posted) = h
    /\ posted' = Tail(posted)

\* (mutant) A refused connection leaves the state alone.
ConnectImplUnreported ==
    \/ con' = "dialing" /\ UNCHANGED <<conState, code, hdl>>
    \/ UNCHANGED <<conState, linkVars>>

\* connect_impl: websocketpp takes the connection, or the URI or the
\* connection is refused and the client is closed with a fail event.
ConnectImpl ==
    \/ /\ con' = "dialing"
       /\ UNCHANGED <<conState, code, hdl>>
    \/ /\ conState' = "closed"
       /\ UNCHANGED linkVars

RunConnectImpl ==
    /\ TakeHandler("dial")
    /\ ConnectImpl
    /\ UNCHANGED <<appVars, net, was, timerArmed, made, nspTimer, owed>>

\* close_impl(c): cancels the reconnection, starts the close handshake if m_con
\* is alive.  A connection that is closing already keeps its first close code;
\* websocketpp may refuse a reserved code (1006), and the error is ignored.
CloseImpl(c) ==
    /\ timerArmed' = FALSE
    /\ \/ /\ hdl /\ con = "open"
          /\ con' = "closing"
          /\ code' = c
       \/ /\ ~(hdl /\ con = "open") \/ c = "other"
          /\ UNCHANGED <<con, code>>

RunCloseImpl ==
    /\ TakeHandler("close")
    /\ CloseImpl("normal")
    /\ UNCHANGED <<conState, appVars, net, was, made, hdl, nspTimer, owed>>

\* An engine.io close frame or a handshake without a sid: close_impl with
\* another code, run inside the message handler; m_con_state is not touched.
ServerEndsSession ==
    /\ NetIdle
    /\ con = "open"
    /\ CloseImpl("other")
    /\ UNCHANGED <<conState, appVars, net, was, posted, made, hdl, nspTimer, owed>>

\* (mutant) close_impl finds no handle and leaves the connection open.
OpenedWhileClosingKept ==
    /\ con' = "open"
    /\ timerArmed' = FALSE
    /\ UNCHANGED <<hdl, code>>

\* The connection opened while closing: take its handle, so that the inline
\* close_impl of close() closes it.
OpenedWhileClosing ==
    /\ hdl' = TRUE
    /\ con' = "closing"
    /\ code' = "normal"
    /\ timerArmed' = FALSE

\* on_open reads m_con_state.
OnOpen ==
    /\ NetIdle
    /\ con = "dialing"
    /\ \/ /\ conState = "closing"
          /\ OpenedWhileClosing
          /\ UNCHANGED net
       \/ /\ conState # "closing"
          /\ con' = "open"
          /\ net' = "onOpen"
          /\ UNCHANGED <<hdl, code, timerArmed>>
    /\ UNCHANGED <<conState, appVars, was, posted, made, nspTimer, owed>>

\* The rest of on_open; the namespaces send CONNECT and arm their timers
\* (none does when all of them were rejected).
OnOpenFinish ==
    /\ net = "onOpen"
    /\ conState' = "opened"
    /\ hdl' = TRUE
    /\ made' = 0
    /\ nspTimer' \in {nspTimer, TRUE}
    /\ net' = "idle"
    /\ UNCHANGED <<appVars, was, posted, timerArmed, con, code, owed>>


\* on_fail reads m_con_state; while closing it only calls close() again.
OnFail ==
    /\ NetIdle
    /\ con = "dialing"
    /\ con' = "none"
    /\ \/ /\ conState = "closing"
          /\ timerArmed' = FALSE
          /\ UNCHANGED net
       \/ /\ conState # "closing"
          /\ net' = "onFail"
          /\ UNCHANGED timerArmed
    /\ UNCHANGED <<conState, appVars, was, posted, made, code, hdl, nspTimer, owed>>

OnFailReset ==
    /\ net = "onFail"
    /\ hdl' = FALSE
    /\ conState' = "closed"
    /\ net' = "rearmFail"
    /\ UNCHANGED <<appVars, was, posted, timerArmed, made, con, code, nspTimer, owed>>

\* The connection is gone, by the server's doing (with either close code) or at
\* the end of a close handshake.  on_close first saves m_con_state.
OnClose ==
    /\ NetIdle
    /\ con \in {"open", "closing"}
    /\ code' \in (IF con = "open" THEN {"normal", "other"} ELSE {code})
    /\ con' = "none"
    /\ was' = conState
    /\ net' = "onClose"
    /\ UNCHANGED <<conState, appVars, posted, timerArmed, made, hdl, nspTimer, owed>>

\* (mutant) m_con_state keeps its value until the reconnection dials.
OnCloseResetLate ==
    /\ net = "onClose"
    /\ hdl' = FALSE
    /\ IF code = "normal" \/ was = "closing"
       THEN net' = "idle" /\ conState' = "closed" /\ owed' = FALSE
       ELSE net' = "rearmClose" /\ UNCHANGED <<conState, owed>>
    /\ UNCHANGED <<appVars, was, posted, timerArmed, made, con, code, nspTimer>>

\* Ours or a normal close ends in the close listener, anything else in Rearm.
OnCloseReset ==
    /\ net = "onClose"
    /\ conState' = "closed"
    /\ hdl' = FALSE
    /\ IF code = "normal" \/ was = "closing"
       THEN net' = "idle" /\ owed' = FALSE
       ELSE net' = "rearmClose" /\ UNCHANGED owed
    /\ UNCHANGED <<appVars, was, posted, timerArmed, made, con, code, nspTimer>>

MayRetryOnce == made <= Attempts  \* (mutant) one attempt too many
MayRetry     == made < Attempts

\* The common end of on_fail and on_close: wait for the next attempt, or give
\* up (the fail listener, or the close listener with reason drop).
Rearm ==
    /\ net \in {"rearmFail", "rearmClose"}
    /\ net' = "idle"
    /\ IF MayRetry
       THEN timerArmed' = TRUE /\ UNCHANGED owed
       ELSE /\ UNCHANGED timerArmed
            /\ owed' = (owed /\ net = "rearmFail")
    /\ UNCHANGED <<conState, appVars, was, posted, made, linkVars, nspTimer>>

\* The wait expires: its handler is ready, and cancel() no longer reaches it.
ReconnTimerExpires ==
    /\ thread = "running"
    /\ timerArmed
    /\ timerArmed' = FALSE
    /\ posted' = Append(posted, "reconnect")
    /\ UNCHANGED <<conState, appVars, net, was, made, linkVars, nspTimer, owed>>

\* timeout_reconnect's test of m_con_state...
TimeoutReconnect ==
    /\ TakeHandler("reconnect")
    /\ net' = IF conState = "closed" THEN "reconnect" ELSE "idle"
    /\ UNCHANGED <<conState, appVars, was, timerArmed, made, linkVars, nspTimer, owed>>

CountedDown == made - 1  \* (mutant)
Counted     == made + 1

\* ...and its writes; connect_impl is dispatched, hence inline, and a refused
\* connection leaves con_closed.
TimeoutReconnectDial ==
    /\ net = "reconnect"
    /\ made' = Counted
    /\ net' = "idle"
    /\ \/ /\ conState' = "opening"
          /\ con' = "dialing"
       \/ /\ conState' = "closed"
          /\ UNCHANGED con
    /\ UNCHANGED <<appVars, was, posted, timerArmed, code, hdl, nspTimer, owed>>

\* A namespace's timer fires or is cancelled by the server's answer.
NspTimerEnds ==
    /\ NetIdle
    /\ nspTimer
    /\ nspTimer' = FALSE
    /\ UNCHANGED <<conState, appVars, net, was, posted, timerArmed, made, linkVars, owed>>

\* run() returns when no handler, wait or connection is left.
RunLoopEnds ==
    /\ NetIdle
    /\ posted = <<>>
    /\ con = "none"
    /\ ~timerArmed
    /\ ~nspTimer
    /\ thread' = "exited"
    /\ UNCHANGED <<conState, pc, net, was, posted, timerArmed, made, linkVars, nspTimer, owed>>

-----------------------------------------------------------------------------

Proceed(t) == \* what a thread does once it is inside a call
    \/ ConnectJoined(t) \/ ConnectStart(t) \/ ConnectLaunch(t)
    \/ ClosePost(t) \/ SyncCloseJoined(t)

Handler == \* the network thread
    \/ RunConnectImpl \/ RunCloseImpl
    \/ OnOpenFinish \/ OnFailReset \/ OnCloseReset \/ Rearm
    \/ TimeoutReconnect \/ TimeoutReconnectDial
    \/ RunLoopEnds

DialAnswered == OnOpen \/ OnFail

Next ==
    \/ \E t \in Threads : ConnectBegin(t) \/ CloseBegin(t) \/ Proceed(t)
    \/ Handler \/ DialAnswered \/ OnClose \/ ServerEndsSession
    \/ ReconnTimerExpires
    \/ NspTimerArmed \/ NspTimerEnds

(* Calls return, the network thread runs its handlers, timers expire, and  *)
(* websocketpp's own handshake timeouts end every dial and every close     *)
(* handshake.  Nobody is obliged to call, to drop or to end a session.     *)
Fairness ==
    /\ \A t \in Threads : WF_vars(Proceed(t))
    /\ WF_vars(Handler)
    /\ WF_vars(DialAnswered)
    /\ WF_vars(OnClose /\ con = "closing")
    /\ WF_vars(ReconnTimerExpires)
    /\ WF_vars(NspTimerEnds)

Spec     == Init /\ [][Next]_vars
FairSpec == Spec /\ Fairness

-----------------------------------------------------------------------------
(* Properties.                                                             *)

\* A handler that ends or replaces the connection, or is about to dial.
InHandler == net \in {"onFail", "rearmFail", "onClose", "rearmClose", "reconnect"}

\* A client never has two attempts or connections under way, however its
\* calls, its queued handlers and its timer interleave: at most one dial is
\* queued, and the link, the timer, the queue and the handler in progress
\* exclude each other.  (A second m_client.connect would orphan the first.)
SingleFlight ==
    /\ Once("dial") /\ Once("reconnect")
    /\ Has("dial") => ~Has("reconnect") /\ ~timerArmed /\ con = "none" /\ net = "idle"
    /\ Has("reconnect") => ~timerArmed /\ con = "none" /\ net = "idle"
    /\ timerArmed => con = "none" /\ net = "idle"
    /\ InHandler => con = "none"

\* The attempt counter stays within m_reconn_attempts, and an attempt that is
\* waiting or queued still has one left to use (on_fail, on_close).
AttemptsRespected ==
    /\ made <= Attempts
    /\ timerArmed \/ Has("reconnect") \/ net = "reconnect" => made < Attempts

\* con_opened is only ever seen with a connection that m_con refers to, so
\* send_impl and on_ping, which test the state alone, have one to send on.
OpenedHasConnection ==
    conState = "opened" => hdl /\ (con \in {"open", "closing"} \/ net = "onClose")

\* Without a network thread the client is never left opening or opened, where
\* connect() would be ignored for good (the comment in connect_impl).
NeverWedged ==
    thread # "running" /\ (\A t \in Threads : pc[t] # "launching") =>
        conState \in {"closing", "closed"}

\* What makes the four above inductive: the calls that move m_network_thread
\* exclude each other and know whether it runs; without a running thread
\* nothing is under way; m_con is exactly the open connection; and con_opening
\* is always on its way to an answer.
OneOwner == \A s, t \in Threads : pc[s] \in Owning /\ pc[t] \in Owning => s = t
OwnerKnows ==
    /\ \A t \in Threads : pc[t] \in {"starting", "launching"} => thread = "none"
    /\ \A t \in Threads : pc[t] = "joining" => thread # "none"
Quiet ==
    thread # "running" =>
        /\ ~Has("dial") /\ ~Has("reconnect") /\ ~timerArmed
        /\ con = "none" /\ net = "idle" /\ ~hdl
HandleIsConnection ==
    /\ hdl => con \in {"open", "closing"} \/ net = "onClose"
    /\ con \in {"open", "closing"} => hdl \/ net = "onOpen"
    /\ net = "onClose" => hdl
    /\ net = "onOpen" => con = "open"
OpeningIsUnderWay ==
    conState = "opening" =>
        \/ \E t \in Threads : pc[t] = "launching"
        \/ Has("dial")
        \/ con # "none"
        \/ net \in {"onFail", "onClose"}

IInv == /\ TypeOK /\ SingleFlight /\ AttemptsRespected /\ OpenedHasConnection
        /\ NeverWedged /\ OneOwner /\ OwnerKnows /\ Quiet /\ HandleIsConnection
        /\ OpeningIsUnderWay

\* The client keeps its promise of one attempt per connect() and Attempts more
\* (SioAttempts): a retry follows the end of an attempt or a connection and uses
\* one up, and neither a connect() nor a retry begins while a link is left.
Asked   == Has("dial") \/ \E t \in Threads : pc[t] = "launching"
Waiting == timerArmed \/ Has("reconnect") \/ net = "reconnect"
Promise == INSTANCE SioAttempts WITH link <- con, asked <- Asked, waiting <- Waiting
KeepsAttempts == Promise!Spec

\* Every attempt ends: opened, failed or closed.
OpeningEnds == conState = "opening" ~> conState # "opening"

\* A close that finds a connection or a dial under way ends it, also when the
\* dial is answered only afterwards (on_open's closing branch) or the
\* application's write is overtaken by on_open's.
CloseEndsConnection ==
    (conState = "closing" /\ con # "none") ~> con = "none"

\* The application makes no more calls from some point on: what follows is the
\* client's own doing.
Begins  == \E t \in Threads : ConnectBegin(t) \/ CloseBegin(t)
Settles == <>[][~Begins]_vars

\* close() issued while the client is open, opening or waiting to reconnect is
\* reported by the close listener, as SocketIONative.cpp's Disconnect says.  It does
\* not hold, and is in no run.
CloseIsReported == Settles => (owed ~> ~owed)

\* A close() that no connect() follows leaves no connection: never, from some
\* point on, a live connection with the close still unanswered.
CloseDisconnects == Settles => []<>(owed => con = "none")

\* connect() on a client in con_closed returns from its join.  It does not hold, and
\* is in no run.
JoinReturns == Settles => \A t \in Threads : pc[t] = "joining" ~> pc[t] # "joining"
=============================================================================
