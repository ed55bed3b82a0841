----------------------------- MODULE WsClient ------------------------------
(***************************************************************************)
(* FWebSocketLibClient and its connections (WebSocketLib/Private/          *)
(* WebSocketLibClient.cpp): Connect, Close, SyncClose and the destructor,  *)
(* called by application threads and from within callbacks, and the        *)
(* handlers each connection runs on its own network thread.                *)
(*                                                                         *)
(* A connection lives on its thread after the client has let go of it.     *)
(* FCallbackHolder's lock is held while a callback runs: Disable() waits   *)
(* for it, unless it is the callback itself that reconnects (the lock is   *)
(* recursive).  Sends, TLS and the texts of errors are not here.           *)
(***************************************************************************)
CONSTANTS Threads,  \* application threads
          Conns,    \* connections, one for each Connect
          None      \* no connection

ASSUME NoneAssumption    == None \notin Conns
ASSUME ThreadsAssumption == Threads \cap (Conns \cup {None}) = {}

VARIABLES
    alive,      \* the client has not been destroyed
    current,    \* FImpl::Connection
    call,       \* what each caller is doing inside a method of the client
    state,      \* EState of a connection
    session,    \* websocketpp's session
    asked,      \* bCloseRequested
    task,       \* the task Close() posts
    enabled,    \* the callbacks are enabled
    net,        \* where the network thread is
    stopped,    \* the io_service was stopped: by the close task, or by SyncClose
    last,       \* history: the last callback
    crossed     \* history: two Connects overlapped

clientVars == <<alive, current, call, crossed>>
connVars   == <<state, session, asked, task, enabled, net, stopped, last>>
vars       == <<clientVars, connVars>>

Callers == Threads \cup Conns   \* a connection's thread calls from its callbacks

Calls == [at   : {"idle", "disable", "ask", "post", "start", "publish", "wait"},
          conn : Conns \cup {None},         \* the connection to close
          then : {"idle", "start", "wait"}, \* what follows closing it
          new  : Conns \cup {None}]         \* the connection Connect makes

NoCall == [at |-> "idle", conn |-> None, then |-> "idle", new |-> None]

TypeOK ==
    /\ alive \in BOOLEAN /\ crossed \in BOOLEAN
    /\ current \in Conns \cup {None}
    /\ call \in [Callers -> Calls]
    /\ \A x \in Callers :
          /\ call[x].at \in {"disable", "ask", "post", "wait"} => call[x].conn # None
          /\ call[x].at \in {"start", "publish"} \/ call[x].then = "start" => call[x].new # None
    /\ state \in [Conns -> {"idle", "connecting", "open", "closed"}]
    /\ session \in [Conns -> {"none", "connecting", "open", "closing", "closed"}]
    /\ asked \in [Conns -> BOOLEAN] /\ enabled \in [Conns -> BOOLEAN]
    /\ task \in [Conns -> {"none", "queued", "done"}]
    /\ net \in [Conns -> {"none", "idle", "opened", "failed", "sayOpen", "sayFail",
                          "sayClose", "callback", "finished"}]
    /\ stopped \in [Conns -> {"no", "aborted", "cut"}]
    /\ last \in [Conns -> {"none", "open", "text", "close", "fail"}]

Init ==
    /\ alive = TRUE /\ crossed = FALSE
    /\ current = None
    /\ call = [x \in Callers |-> NoCall]
    /\ state = [c \in Conns |-> "idle"]
    /\ session = [c \in Conns |-> "none"]
    /\ asked = [c \in Conns |-> FALSE]
    /\ task = [c \in Conns |-> "none"]
    /\ enabled = [c \in Conns |-> TRUE]
    /\ net = [c \in Conns |-> "none"]
    /\ stopped = [c \in Conns |-> "no"]
    /\ last = [c \in Conns |-> "none"]

-----------------------------------------------------------------------------
(* The methods of the client.                                              *)

CanCall(x) == alive /\ call[x] = NoCall /\ (x \in Conns => net[x] = "callback")

Unused == {c \in Conns : session[c] = "none" /\ \A x \in Callers : call[x].new # c}

Goes(x, at) == call' = [call EXCEPT ![x].at = at]
Returns(x)  == call' = [call EXCEPT ![x] = NoCall]

\* (mutant) Connect leaves the old connection running.
TakeOutKept(x, then, new) ==
    /\ call' = [call EXCEPT ![x] =
                   [at |-> then, conn |-> current, then |-> then, new |-> new]]
    /\ current' = None

\* Replace(nullptr): take the connection out of the client, under its lock.
TakeOut(x, then, new) ==
    /\ call' = [call EXCEPT ![x] =
                   [at   |-> IF current = None THEN then ELSE "disable",
                    conn |-> current, then |-> then, new |-> new]]
    /\ current' = None

Connect(x) ==
    /\ CanCall(x)
    /\ \E c \in Unused : TakeOut(x, "start", c)
    /\ crossed' = (crossed \/ \E y \in Callers : call[y].new # None)
    /\ UNCHANGED <<alive, connVars>>

\* The destructor: nobody else is inside the client, or comes to it later.
Destroy(x) ==
    /\ CanCall(x)
    /\ \A y \in Callers : call[y] = NoCall
    /\ alive' = FALSE
    /\ IF current = None THEN UNCHANGED <<current, call>> ELSE TakeOut(x, "idle", None)
    /\ UNCHANGED <<crossed, connVars>>

\* Close and SyncClose, on the connection the client has at that moment.
Close(x) ==
    /\ CanCall(x)
    /\ current # None
    /\ \E then \in {"idle", "wait"} :
          call' = [call EXCEPT ![x] =
                      [at |-> "ask", conn |-> current, then |-> then, new |-> None]]
    /\ UNCHANGED <<alive, current, crossed, connVars>>

\* (mutant) the lock is not recursive, a callback waits for itself.
DisableOldNotRecursive(x) ==
    /\ call[x].at = "disable"
    /\ net[call[x].conn] # "callback"
    /\ enabled' = [enabled EXCEPT ![call[x].conn] = FALSE]
    /\ Goes(x, "ask")
    /\ UNCHANGED <<alive, current, crossed, state, session, asked, task, net, stopped, last>>

\* DisableCallbacks of the old connection, behind its running callback.
DisableOld(x) ==
    LET old == call[x].conn
    IN  /\ call[x].at = "disable"
        /\ net[old] # "callback" \/ x = old
        /\ enabled' = [enabled EXCEPT ![old] = FALSE]
        /\ Goes(x, "ask")
        /\ UNCHANGED <<alive, current, crossed, state, session, asked, task, net, stopped, last>>

\* What a caller does once the connection is closing; SyncClose does not wait
\* for the thread it runs on.
Continues(x) ==
    IF call[x].then = "start" \/ (call[x].then = "wait" /\ x # call[x].conn)
    THEN Goes(x, call[x].then)
    ELSE Returns(x)

\* (mutant) a flag only, no task.
AskCloseOnly(x) ==
    /\ call[x].at = "ask"
    /\ asked' = [asked EXCEPT ![call[x].conn] = TRUE]
    /\ Continues(x)
    /\ UNCHANGED <<alive, current, crossed, state, session, task, enabled, net, stopped, last>>

\* IConnection::Close: the flag, under CloseMutex...
AskClose(x) ==
    LET c == call[x].conn
    IN  /\ call[x].at = "ask"
        /\ asked' = [asked EXCEPT ![c] = TRUE]
        /\ IF asked[c] THEN Continues(x) ELSE Goes(x, "post")
        /\ UNCHANGED <<alive, current, crossed, state, session, task, enabled, net, stopped, last>>

\* ...and then the task.
PostClose(x) ==
    /\ call[x].at = "post"
    /\ task' = [task EXCEPT ![call[x].conn] = "queued"]
    /\ Continues(x)
    /\ UNCHANGED <<alive, current, crossed, state, session, asked, enabled, net, stopped, last>>

\* Start: refused (a bad url or protocol), or dialing with a thread of its own.
Start(x) ==
    LET c == call[x].new
    IN  /\ call[x].at = "start"
        /\ \/ /\ session' = [session EXCEPT ![c] = "closed"]
              /\ Returns(x)
              /\ UNCHANGED <<state, net>>
           \/ /\ session' = [session EXCEPT ![c] = "connecting"]
              /\ state' = [state EXCEPT ![c] = "connecting"]
              /\ net' = [net EXCEPT ![c] = "idle"]
              /\ Goes(x, "publish")
        /\ UNCHANGED <<alive, current, crossed, asked, task, enabled, stopped, last>>

\* Connect puts the connection into the client, whatever is there by now.
Publish(x) ==
    /\ call[x].at = "publish"
    /\ current' = call[x].new
    /\ Returns(x)
    /\ UNCHANGED <<alive, crossed, connVars>>

\* SyncClose: the thread has finished, or the time is up and the loop is stopped.
WaitEnds(x) ==
    LET c == call[x].conn
    IN  /\ call[x].at = "wait"
        /\ \/ net[c] = "finished" /\ UNCHANGED stopped
           \/ /\ net[c] # "finished"
              /\ stopped' = [stopped EXCEPT ![c] = IF @ = "no" THEN "cut" ELSE @]
        /\ Returns(x)
        /\ UNCHANGED <<alive, current, crossed, state, session, asked, task, enabled, net, last>>

-----------------------------------------------------------------------------
(* The network thread of a connection.                                     *)

Runs(c) == net[c] = "idle" /\ stopped[c] = "no"

At(c, place) == net' = [net EXCEPT ![c] = place]

HandleOpen(c) ==
    /\ Runs(c) /\ session[c] = "connecting"
    /\ session' = [session EXCEPT ![c] = "open"]
    /\ state' = [state EXCEPT ![c] = "open"]
    /\ At(c, "opened")
    /\ UNCHANGED <<clientVars, asked, task, enabled, stopped, last>>

\* Closed while connecting: OnOpen is left out, the close task reports it.
OpenChecksClose(c) ==
    /\ net[c] = "opened"
    /\ At(c, IF asked[c] THEN "idle" ELSE "sayOpen")
    /\ UNCHANGED <<clientVars, state, session, asked, task, enabled, stopped, last>>

HandleFail(c) ==
    /\ Runs(c) /\ session[c] = "connecting"
    /\ session' = [session EXCEPT ![c] = "closed"]
    /\ state' = [state EXCEPT ![c] = "closed"]
    /\ At(c, "failed")
    /\ UNCHANGED <<clientVars, asked, task, enabled, stopped, last>>

\* A failure after Close is reported as the close that was asked for.
FailChecksClose(c) ==
    /\ net[c] = "failed"
    /\ At(c, IF asked[c] THEN "sayClose" ELSE "sayFail")
    /\ UNCHANGED <<clientVars, state, session, asked, task, enabled, stopped, last>>

\* The connection drops, the server closes it, or the close handshake ends.
HandleClose(c) ==
    /\ Runs(c) /\ session[c] \in {"open", "closing"}
    /\ session' = [session EXCEPT ![c] = "closed"]
    /\ state' = [state EXCEPT ![c] = "closed"]
    /\ At(c, "sayClose")
    /\ UNCHANGED <<clientVars, asked, task, enabled, stopped, last>>

\* FCallbackHolder::Call.
CallBack(c, callback) ==
    IF enabled[c]
    THEN At(c, "callback") /\ last' = [last EXCEPT ![c] = callback]
    ELSE At(c, "idle") /\ UNCHANGED last

HandleMessage(c) ==
    /\ Runs(c) /\ session[c] = "open"
    /\ CallBack(c, "text")
    /\ UNCHANGED <<clientVars, state, session, asked, task, enabled, stopped>>

Reports(c) ==
    /\ \/ net[c] = "sayOpen" /\ CallBack(c, "open")
       \/ net[c] = "sayFail" /\ CallBack(c, "fail")
       \/ net[c] = "sayClose" /\ CallBack(c, "close")
    /\ UNCHANGED <<clientVars, state, session, asked, task, enabled, stopped>>

\* (mutant) a connecting session is not closed.
CloseSessionOpenOnly(c) ==
    /\ session' = [session EXCEPT ![c] = IF @ = "open" THEN "closing" ELSE @]
    /\ UNCHANGED <<state, net, stopped>>

\* (mutant) an aborted dial goes on.
CloseSessionUnstopped(c) ==
    \/ /\ session[c] = "open"
       /\ session' = [session EXCEPT ![c] = "closing"]
       /\ UNCHANGED <<state, net, stopped>>
    \/ /\ session[c] = "connecting"
       /\ state' = [state EXCEPT ![c] = "closed"]
       /\ At(c, "sayClose")
       /\ UNCHANGED <<session, stopped>>

\* (mutant) the state stays connecting.
CloseSessionUnmarked(c) ==
    \/ /\ session[c] = "open"
       /\ session' = [session EXCEPT ![c] = "closing"]
       /\ UNCHANGED <<state, net, stopped>>
    \/ /\ session[c] = "connecting"
       /\ stopped' = [stopped EXCEPT ![c] = "aborted"]
       /\ At(c, "sayClose")
       /\ UNCHANGED <<session, state>>

\* The posted task: close an open connection; report and stop a connecting one.
CloseSession(c) ==
    \/ /\ session[c] = "open"
       /\ session' = [session EXCEPT ![c] = "closing"]
       /\ UNCHANGED <<state, net, stopped>>
    \/ /\ session[c] = "connecting"
       /\ state' = [state EXCEPT ![c] = "closed"]
       /\ stopped' = [stopped EXCEPT ![c] = "aborted"]
       /\ At(c, "sayClose")
       /\ UNCHANGED session
    \/ /\ session[c] \in {"closing", "closed"}
       /\ UNCHANGED <<session, state, net, stopped>>

CloseTask(c) ==
    /\ Runs(c) /\ task[c] = "queued"
    /\ task' = [task EXCEPT ![c] = "done"]
    /\ CloseSession(c)
    /\ UNCHANGED <<clientVars, asked, enabled, last>>

\* The application's callback returns, when its own calls have.
CallbackEnds(c) ==
    /\ net[c] = "callback"
    /\ call[c] = NoCall
    /\ At(c, "idle")
    /\ UNCHANGED <<clientVars, state, session, asked, task, enabled, stopped, last>>

\* run() returns when it was stopped or has nothing left to do.
RunLoopEnds(c) ==
    /\ net[c] = "idle"
    /\ stopped[c] # "no" \/ (session[c] = "closed" /\ task[c] # "queued")
    /\ state' = [state EXCEPT ![c] = "closed"]
    /\ At(c, "finished")
    /\ UNCHANGED <<clientVars, session, asked, task, enabled, stopped, last>>

-----------------------------------------------------------------------------

CallStep(x) == AskClose(x) \/ PostClose(x) \/ Start(x) \/ Publish(x) \/ WaitEnds(x)

NetStep(c) ==
    \/ OpenChecksClose(c) \/ FailChecksClose(c) \/ Reports(c)
    \/ RunLoopEnds(c)

Next ==
    \/ \E x \in Callers :
        Connect(x) \/ Destroy(x) \/ Close(x) \/ DisableOld(x) \/ CallStep(x)
    \/ \E c \in Conns :
        \/ NetStep(c) \/ CallbackEnds(c) \/ CloseTask(c)
        \/ HandleOpen(c) \/ HandleFail(c) \/ HandleClose(c) \/ HandleMessage(c)

(* Threads go on, and websocketpp's timers end every dial and every close   *)
(* handshake.  Strong fairness where other steps may come between for ever: *)
(* a callback does not go on calling without end, the io_service's queue is *)
(* first in first out, and a thread that waits for a lock gets it.          *)
Fairness ==
    /\ \A x \in Callers : WF_vars(CallStep(x)) /\ SF_vars(DisableOld(x))
    /\ \A c \in Conns :
        /\ WF_vars(NetStep(c))
        /\ SF_vars(CallbackEnds(c))
        /\ SF_vars(CloseTask(c))
        /\ WF_vars(HandleOpen(c) \/ HandleFail(c))
        /\ WF_vars(HandleClose(c) /\ session[c] = "closing")

Spec     == Init /\ [][Next]_vars

-----------------------------------------------------------------------------
(* Properties.                                                             *)

Contract == INSTANCE WsContract
    WITH Conns <- Conns, asked <- asked, enabled <- enabled, last <- last

\* Every connection keeps the contract of its callbacks, whatever calls come
\* from other threads and from the callbacks themselves.
KeepsContract == Contract!Spec

\* Running with its callbacks enabled.
Live(c)  == enabled[c] /\ net[c] \notin {"none", "finished"}
\* The client's, being started, or being taken out by a call.
Owned(c) ==
    \/ c = current
    \/ \E x \in Callers : call[x].new = c \/ (call[x].at = "disable" /\ call[x].conn = c)

\* As long as Connects do not overlap, every live connection is owned: none is
\* left that nobody can close and that goes on calling back.  Overlapping
\* Connects break it: the later one stores over the connection of the other.
NoOrphan == ~crossed => \A c \in Conns : Live(c) => Owned(c)

\* A callback's thread c, holding c's lock, waits for the callback of d.
Waits(c, d) == c # d /\ call[c].at = "disable" /\ call[c].conn = d

\* "FCriticalSection is recursive, a callback may reconnect or destroy its own
\* client", and "methods can be called from any thread": no two callbacks that
\* reconnect wait for each other.  It does not hold when Connects overlap, and is in
\* no run: a callback's Connect takes the connection of the other one out of the
\* client, and DisableOld waits for the callback that runs there.
CallbacksMayReconnect == \A c, d \in Conns : ~(Waits(c, d) /\ Waits(d, c))

\* Calls and the connections they hold: a connection being started is fresh,
\* and nobody else's.
CallsFit ==
    \A x \in Callers :
        LET k == call[x]
        IN  /\ k.at = "post" => asked[k.conn]
            /\ k.new # None /\ k.at # "publish" => session[k.new] = "none"
            /\ k.new # None => \A y \in Callers : call[y].new = k.new => x = y

\* Connects that do not overlap: one at a time, with no connection in the client.
OneConnect ==
    /\ \A x \in Callers :
          /\ call[x].new # None => call[x].then = "start"
          /\ call[x].at = "wait" => call[x].new = None
    /\ ~crossed => \A x \in Callers :
          call[x].new # None => current = None /\ \A y \in Callers : call[y].new # None => x = y

\* The callbacks a connection may still make are those of its session.
Met(c) == last[c] \in {"open", "text"} \/ (last[c] = "none" /\ asked[c])

CallbacksFit ==
    \A c \in Conns :
        /\ task[c] # "none" => asked[c]
        /\ session[c] = "none" => net[c] = "none"
        /\ net[c] \in {"failed", "sayFail"} => session[c] = "closed"
        /\ net[c] \in {"opened", "sayOpen"} => session[c] = "open"
        /\ net[c] \in {"none", "opened", "sayOpen", "failed", "sayFail"} => last[c] = "none"
        /\ session[c] = "connecting" => last[c] = "none" \/ stopped[c] = "aborted"
        /\ net[c] = "sayClose" => session[c] = "closed" \/ stopped[c] = "aborted"
        /\ stopped[c] = "aborted" => session[c] = "connecting"
        /\ enabled[c] =>
            /\ net[c] = "sayClose" => Met(c)
            /\ session[c] \in {"open", "closing"} /\ net[c] \in {"idle", "callback"} => Met(c)

\* A connection that has reported its end is closed, and IsConnected says so.
OverIsClosed ==
    \A c \in Conns :
        last[c] \in {"close", "fail"} =>
            /\ state[c] = "closed"
            /\ session[c] = "closed" \/ stopped[c] = "aborted"
            /\ net[c] \in {"callback", "idle", "finished"}

ClosesFirst ==
    \A c \in Conns :
        net[c] \in {"failed", "sayFail", "sayClose"} => state[c] = "closed"

IInv == TypeOK /\ CallsFit /\ OneConnect /\ CallbacksFit /\ OverIsClosed /\ ClosesFirst

\* As long as Connects do not overlap, every call returns: a caller that waits
\* for a running callback gets past it, also when that callback connects again,
\* closes or destroys the client, whose own calls wait in turn.
CallsReturn == \A x \in Callers : call[x] # NoCall ~> (call[x] = NoCall \/ crossed)

\* "OnClose follows" a Close: a terminal callback comes, unless the callbacks
\* are disabled or SyncClose's time is up.
CloseIsAnswered ==
    \A c \in Conns :
        asked[c] ~> (last[c] \in {"close", "fail"} \/ ~enabled[c] \/ stopped[c] = "cut")

\* A connection that was asked to close ends its thread, with or without an owner.
ClosedThreadEnds == \A c \in Conns : asked[c] ~> net[c] = "finished"
=============================================================================
