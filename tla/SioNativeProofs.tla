-------------------------- MODULE SioNativeProofs --------------------------
(***************************************************************************)
(* Proofs about SioNative for every set of auths, urls and events, and any *)
(* number of Connect() calls at a time.  Each result has an inductive      *)
(* invariant of its own, over the variables it is about.                   *)
(***************************************************************************)
EXTENDS SioNative, TLAPS

-----------------------------------------------------------------------------
(* The auth: a Connect() of the present version has the present auth.      *)

TasksAgree ==
    \A s \in Slots : task[s] # None =>
        /\ task[s].version <= version
        /\ held /\ task[s].version = version => task[s].auth = params

AuthTypes ==
    /\ params \in Auths /\ latest \in Auths \cup {None}
    /\ version \in 0..MaxVersion /\ held \in BOOLEAN
    /\ task \in [Slots -> Task \cup {None}]

AuthInv == AuthTypes /\ TasksAgree /\ SetAuthStays

\* A step of a lambda changes where it is, or ends it.
LEMMA TaskGoes ==
  ASSUME AuthInv, NEW s \in Slots, task[s] # None, NEW step \in Steps,
         Goes(s, step) \/ Ends(s),
         UNCHANGED <<params, version, held>>
  PROVE  /\ task' \in [Slots -> Task \cup {None}]
         /\ TasksAgree'
  <1>1. task[s] \in Task
    BY DEF AuthInv, AuthTypes
  <1>2. CASE Goes(s, step)
    <2>1. /\ [task[s] EXCEPT !.at = step] \in Task
          /\ [task[s] EXCEPT !.at = step].version = task[s].version
          /\ [task[s] EXCEPT !.at = step].auth = task[s].auth
      BY <1>1 DEF Task
    <2>2. task' = [task EXCEPT ![s] = [task[s] EXCEPT !.at = step]]
      BY <1>2 DEF Goes, AuthInv, AuthTypes
    <2> QED
      BY <2>1, <2>2 DEF AuthInv, AuthTypes, TasksAgree
  <1>3. CASE Ends(s)
    BY <1>3 DEF Ends, AuthInv, AuthTypes, TasksAgree
  <1> QED
    BY <1>2, <1>3

LEMMA ConnectAuth ==
  ASSUME AuthInv, NEW u \in Urls, NEW a \in Auths, Connect(u, a)
  PROVE  AuthInv'
  <1>1. PICK s \in Slots :
          task' = [task EXCEPT ![s] = [auth |-> a, url |-> u, version |-> version, at |-> "queued"]]
    BY DEF Connect
  <1>2. [auth |-> a, url |-> u, version |-> version, at |-> "queued"] \in Task
    BY DEF Task, Steps, AuthInv, AuthTypes
  <1>3. params' = a /\ UNCHANGED <<latest, version>> /\ held' \in BOOLEAN /\ (held' => held /\ a = params)
    BY DEF Connect, AuthInv, AuthTypes
  <1>4. AuthTypes'
    BY <1>1, <1>2, <1>3 DEF AuthInv, AuthTypes
  <1>5. TasksAgree'
    BY <1>1, <1>3 DEF AuthInv, AuthTypes, TasksAgree
  <1>6. SetAuthStays'
    BY <1>3 DEF AuthInv, SetAuthStays
  <1> QED
    BY <1>4, <1>5, <1>6 DEF AuthInv

LEMMA SetAuthAuth ==
  ASSUME AuthInv, NEW a \in Auths, SetAuth(a)
  PROVE  AuthInv'
  <1>1. AuthTypes'
    BY NativeAssumption DEF SetAuth, AuthInv, AuthTypes
  <1>2. TasksAgree'
    BY NativeAssumption DEF SetAuth, AuthInv, AuthTypes, TasksAgree, Task
  <1> QED
    BY <1>1, <1>2 DEF SetAuth, AuthInv, SetAuthStays

\* UpdateLatestAuth writes the auth of the present version, which is the present one.
LEMMA UpdateAuth ==
  ASSUME AuthInv, NEW s \in Slots, TaskUpdates(s)
  PROVE  AuthInv'
  <1>1. task[s] # None /\ UNCHANGED <<params, version, held>>
    BY DEF TaskUpdates, At
  <1>2. task[s] \in Task
    BY <1>1 DEF AuthInv, AuthTypes
  <1>3. latest' = IF version = task[s].version THEN task[s].auth ELSE latest
    BY DEF TaskUpdates
  <1>4. task' \in [Slots -> Task \cup {None}] /\ TasksAgree'
    BY <1>1, TaskGoes DEF TaskUpdates, Steps
  <1>5. AuthTypes'
    BY <1>1, <1>2, <1>3, <1>4 DEF AuthInv, AuthTypes, Task
  <1>6. SetAuthStays'
    BY <1>1, <1>3 DEF AuthInv, SetAuthStays, TasksAgree
  <1> QED
    BY <1>4, <1>5, <1>6 DEF AuthInv

LEMMA BackgroundAuth ==
  ASSUME AuthInv, Background
  PROVE  AuthInv'
  <1>1. PICK s \in Slots : \/ TaskStarts(s) \/ TaskSynced(s) \/ TaskUpdates(s)
                           \/ TaskConnects(s) \/ TaskDials(s) \/ TaskAsks(s)
    BY DEF Background
  <1>2. CASE TaskUpdates(s)
    BY <1>2, UpdateAuth
  <1>3. CASE ~TaskUpdates(s)
    <2>1. task[s] # None /\ UNCHANGED authVars
      BY <1>1, <1>3 DEF TaskStarts, TaskSynced, TaskConnects, TaskDials, TaskAsks, At
    <2>2. \E step \in Steps : Goes(s, step) \/ Ends(s)
      BY <1>1, <1>3 DEF TaskStarts, TaskSynced, TaskConnects, TaskDials, TaskAsks, Steps
    <2>3. task' \in [Slots -> Task \cup {None}] /\ TasksAgree'
      BY <2>1, <2>2, TaskGoes DEF authVars
    <2> QED
      BY <2>1, <2>3 DEF authVars, AuthInv, AuthTypes, SetAuthStays
  <1> QED
    BY <1>2, <1>3

\* The other steps leave the auth and the lambdas alone.
LEMMA OthersKeepAuth ==
  ASSUME \/ OnError \/ Disconnect \/ DisconnectClose \/ Rebind
         \/ \E e \in Events : OnEvent(e) \/ UnbindEvent(e)
         \/ SyncDisconnect \/ SyncClose \/ SyncUnbound \/ GameTick \/ Network
  PROVE  UNCHANGED <<authVars, task>>
  BY DEF OnError, Disconnect, DisconnectClose, Rebind, OnEvent, UnbindEvent, SyncDisconnect,
         SyncClose, SyncUnbound, GameTick, Network, Open, DialFails, LinkEnds, Redial, Accepted,
         Rejected, ServerLeaves, TimerFires

LEMMA NextAuth == AuthInv /\ [NativeNext]_nativeVars => AuthInv'
  <1> SUFFICES ASSUME AuthInv, [NativeNext]_nativeVars PROVE AuthInv'
    OBVIOUS
  <1>1. CASE UNCHANGED <<authVars, task>>
    BY <1>1 DEF authVars, AuthInv, AuthTypes, TasksAgree, SetAuthStays
  <1>2. CASE Background
    BY <1>2, BackgroundAuth
  <1>3. CASE \E u \in Urls, a \in Auths : ConnectWithParams(u, a)
    BY <1>3, ConnectAuth DEF ConnectWithParams
  <1>4. CASE \E a \in Auths : SetAuth(a)
    BY <1>4, SetAuthAuth
  <1> QED
    BY <1>1, <1>2, <1>3, <1>4, OthersKeepAuth DEF NativeNext, GameThread, nativeVars

LEMMA InitAuth == NativeInit => AuthInv
  <1> SUFFICES ASSUME NativeInit PROVE AuthInv
    OBVIOUS
  <1>1. /\ params \in Auths /\ latest = None /\ version = 0 /\ held = FALSE
        /\ task = [s \in Slots |-> None]
    BY DEF NativeInit
  <1>2. AuthTypes
    <2>1. version \in 0..MaxVersion
      BY <1>1, NativeAssumption
    <2>2. task \in [Slots -> Task \cup {None}]
      BY <1>1
    <2> QED
      BY <1>1, <2>1, <2>2 DEF AuthTypes
  <1>3. TasksAgree /\ SetAuthStays
    BY <1>1 DEF TasksAgree, SetAuthStays
  <1> QED
    BY <1>2, <1>3 DEF AuthInv

\* An auth set with SetAuth is the one every later join sends, whatever Connect()
\* lambdas, of any number of threads, are still on their way.
THEOREM SetAuthIsKept == NativeSpec => []SetAuthStays
  <1>1. AuthInv => SetAuthStays
    BY DEF AuthInv
  <1> QED
    BY <1>1, InitAuth, NextAuth, PTL DEF NativeSpec

-----------------------------------------------------------------------------
(* The status: bIsConnected is set over an open transport only.            *)

LinkInv ==
    /\ connected \in BOOLEAN /\ retrying \in BOOLEAN
    /\ link \in {"none", "dialing", "up"}
    /\ retrying => link = "none"
    /\ ConnectedHasLink

\* Most steps can only clear the two flags.
Quiet ==
    /\ link' = link
    /\ connected' = connected \/ connected' = FALSE
    /\ retrying' = retrying \/ retrying' = FALSE

LEMMA QuietLink == LinkInv /\ Quiet => LinkInv'
  <1> SUFFICES ASSUME LinkInv, Quiet PROVE LinkInv'
    OBVIOUS
  <1>1. connected' \in BOOLEAN /\ (connected' => connected)
    <2>1. CASE connected' = connected
      BY <2>1 DEF LinkInv
    <2>2. CASE connected' = FALSE
      BY <2>2
    <2> QED
      BY <2>1, <2>2 DEF Quiet
  <1>2. retrying' \in BOOLEAN /\ (retrying' => retrying)
    <2>1. CASE retrying' = retrying
      BY <2>1 DEF LinkInv
    <2>2. CASE retrying' = FALSE
      BY <2>2
    <2> QED
      BY <2>1, <2>2 DEF Quiet
  <1> QED
    BY <1>1, <1>2 DEF LinkInv, Quiet, ConnectedHasLink

LEMMA SwapLink ==
  ASSUME LinkInv, NEW u \in Urls, SwapClient(u)
  PROVE  LinkInv'
  BY DEF SwapClient, Closed, LinkInv, ConnectedHasLink

LEMMA GameThreadLink ==
  ASSUME LinkInv, GameThread
  PROVE  LinkInv'
  <1>1. CASE \E u \in Urls, a \in Auths : ConnectWithParams(u, a)
    BY <1>1, SwapLink DEF ConnectWithParams, Connect
  <1>2. CASE OnError \/ Rebind \/ SyncUnbound
    BY <1>2 DEF OnError, Rebind, SyncUnbound, statusVars, clientVars, LinkInv, ConnectedHasLink
  <1>3. CASE \E a \in Auths : SetAuth(a)
    BY <1>3 DEF SetAuth, statusVars, clientVars, LinkInv, ConnectedHasLink
  <1>4. CASE \E e \in Events : OnEvent(e) \/ UnbindEvent(e)
    BY <1>4 DEF OnEvent, UnbindEvent, statusVars, clientVars, LinkInv, ConnectedHasLink
  <1>5. CASE Disconnect \/ SyncDisconnect
    <2>1. Quiet
      BY <1>5 DEF Disconnect, SyncDisconnect, BeginDisconnect, clientVars, Quiet
    <2> QED
      BY <2>1, QuietLink
  <1>6. CASE DisconnectClose \/ SyncClose
    <2>1. Quiet
      BY <1>6 DEF DisconnectClose, SyncClose, ClientClose, statusVars, Quiet
    <2> QED
      BY <2>1, QuietLink
  <1>7. CASE GameTick
    <2>1. Quiet
      BY <1>7 DEF GameTick, BeginDisconnect, clientVars, Quiet
    <2> QED
      BY <2>1, QuietLink
  <1> QED
    BY <1>1, <1>2, <1>3, <1>4, <1>5, <1>6, <1>7 DEF GameThread

LEMMA BackgroundLink ==
  ASSUME LinkInv, Background
  PROVE  LinkInv'
  <1> PICK s \in Slots : \/ TaskStarts(s) \/ TaskSynced(s) \/ TaskUpdates(s)
                         \/ TaskConnects(s) \/ TaskDials(s) \/ TaskAsks(s)
    BY DEF Background
  <1>1. CASE TaskStarts(s)
    <2>1. Quiet
      BY <1>1 DEF TaskStarts, ClientClose, statusVars, clientVars, Quiet
    <2> QED
      BY <2>1, QuietLink
  <1>2. CASE TaskSynced(s) \/ TaskUpdates(s) \/ TaskAsks(s)
    BY <1>2 DEF TaskSynced, TaskUpdates, TaskAsks, statusVars, clientVars, LinkInv, ConnectedHasLink
  <1>3. CASE TaskConnects(s)
    BY <1>3 DEF TaskConnects, statusVars, LinkInv, ConnectedHasLink
  <1>4. CASE TaskDials(s)
    BY <1>4 DEF TaskDials, ThreadOver, statusVars, LinkInv, ConnectedHasLink
  <1> QED
    BY <1>1, <1>2, <1>3, <1>4

LEMMA NetworkLink ==
  ASSUME LinkInv, Network
  PROVE  LinkInv'
  <1>1. CASE Open
    BY <1>1 DEF Open, statusVars, LinkInv, ConnectedHasLink
  <1>2. CASE DialFails
    <2>1. ~connected /\ ~retrying
      BY <1>2 DEF DialFails, LinkInv, ConnectedHasLink
    <2>2. /\ link' = "none"
          /\ connected' = connected \/ connected' = FALSE
          /\ retrying' = retrying \/ retrying' = TRUE
      BY <1>2 DEF DialFails, Retry, Failed
    <2>3. connected' = FALSE
      BY <2>1, <2>2 DEF LinkInv
    <2>4. retrying' \in BOOLEAN
      <3>1. CASE retrying' = retrying
        BY <3>1 DEF LinkInv
      <3>2. CASE retrying' = TRUE
        BY <3>2
      <3> QED
        BY <2>2, <3>1, <3>2
    <2> QED
      BY <2>2, <2>3, <2>4 DEF LinkInv, ConnectedHasLink
  <1>3. CASE LinkEnds
    BY <1>3 DEF LinkEnds, Closed, Retry, LinkInv, ConnectedHasLink
  <1>4. CASE Redial
    BY <1>4 DEF Redial, statusVars, LinkInv, ConnectedHasLink
  <1>5. CASE Accepted
    BY <1>5 DEF Accepted, clientVars, LinkInv, ConnectedHasLink
  <1>6. CASE Rejected \/ ServerLeaves \/ TimerFires
    BY <1>6 DEF Rejected, ServerLeaves, TimerFires, statusVars, clientVars, LinkInv, ConnectedHasLink
  <1> QED
    BY <1>1, <1>2, <1>3, <1>4, <1>5, <1>6 DEF Network

LEMMA NextLink == LinkInv /\ [NativeNext]_nativeVars => LinkInv'
  <1>1. LinkInv /\ UNCHANGED nativeVars => LinkInv'
    BY DEF nativeVars, statusVars, clientVars, LinkInv, ConnectedHasLink
  <1> QED
    BY <1>1, GameThreadLink, BackgroundLink, NetworkLink DEF NativeNext

LEMMA InitLink == NativeInit => LinkInv
  BY DEF NativeInit, LinkInv, ConnectedHasLink

\* bIsConnected is never set without a transport: of whatever its writers on three
\* kinds of threads do, the close and reconnect listeners have the last word.
THEOREM ConnectedOverLink == NativeSpec => []ConnectedHasLink
  <1>1. LinkInv => ConnectedHasLink
    BY DEF LinkInv
  <1> QED
    BY <1>1, InitLink, NextLink, PTL DEF NativeSpec

-----------------------------------------------------------------------------
(* Bindings.                                                               *)

LEMMA GameThreadUnbound ==
  ASSUME UnboundStays, GameThread
  PROVE  UnboundStays'
  <1>1. CASE \E u \in Urls, a \in Auths : ConnectWithParams(u, a)
    BY <1>1 DEF ConnectWithParams, Connect, SwapClient, sockVars, UnboundStays
  <1>2. CASE OnError \/ SyncUnbound
    BY <1>2 DEF OnError, SyncUnbound, sockVars, UnboundStays
  <1>3. CASE Rebind
    <2>1. unbind' = unbind /\ eventMap' = eventMap /\ handlers' \in {handlers, handlers \cup eventMap}
      BY <1>3 DEF Rebind, sockVars
    <2> QED
      BY <2>1 DEF UnboundStays
  <1>4. CASE \E a \in Auths : SetAuth(a)
    BY <1>4 DEF SetAuth, gameVars, sockVars, UnboundStays
  <1>5. CASE \E e \in Events : OnEvent(e) \/ UnbindEvent(e)
    BY <1>5 DEF OnEvent, UnbindEvent, UnboundStays
  <1>6. CASE Disconnect \/ SyncDisconnect \/ GameTick
    <2>1. /\ unbind' = unbind /\ handlers' = handlers
          /\ unbind \/ eventMap' = eventMap
      BY <1>6 DEF Disconnect, SyncDisconnect, GameTick, BeginDisconnect, gameVars, sockVars
    <2> QED
      BY <2>1 DEF UnboundStays
  <1>7. CASE DisconnectClose \/ SyncClose
    BY <1>7 DEF DisconnectClose, SyncClose, ClientClose, SocketCloses, UnboundStays
  <1> QED
    BY <1>1, <1>2, <1>3, <1>4, <1>5, <1>6, <1>7 DEF GameThread

\* Below the game thread listeners go, and none comes.
LEMMA BelowUnbound ==
  ASSUME UnboundStays, Background \/ Network
  PROVE  UnboundStays'
  <1>1. unbind' = unbind /\ eventMap' = eventMap /\ handlers' \in {handlers, {}}
    <2>1. CASE Background
      BY <2>1 DEF Background, TaskStarts, TaskSynced, TaskUpdates, TaskConnects, TaskDials, TaskAsks,
                  ClientClose, SocketCloses, gameVars, sockVars
    <2>2. CASE Network
      BY <2>2 DEF Network, Open, DialFails, LinkEnds, Redial, Accepted, Rejected, ServerLeaves,
                  TimerFires, SocketCloses, SocketDown, SocketGone, gameVars, sockVars
    <2> QED
      BY <2>1, <2>2
  <1> QED
    BY <1>1 DEF UnboundStays

LEMMA NextUnbound == UnboundStays /\ [NativeNext]_nativeVars => UnboundStays'
  <1>1. UnboundStays /\ UNCHANGED nativeVars => UnboundStays'
    BY DEF nativeVars, gameVars, sockVars, UnboundStays
  <1> QED
    BY <1>1, GameThreadUnbound, BelowUnbound DEF NativeNext

\* UnbindEvent holds: neither a rebind after a disconnect nor a client of the other
\* kind brings back what was unbound.
THEOREM UnboundForGood == NativeSpec => []UnboundStays
  <1>1. NativeInit => UnboundStays
    BY DEF NativeInit, UnboundStays
  <1> QED
    BY <1>1, NextUnbound, PTL DEF NativeSpec

-----------------------------------------------------------------------------
(* The component: of what waits for the game thread, the last notice of a  *)
(* connection or a disconnection tells what the client is.                 *)

Last(i) == \A j \in DOMAIN gameQueue : j > i => gameQueue[j] # "disconnected"

FollowsInv ==
    /\ gameQueue \in Seq(Notices)
    /\ connected /\ callbacks =>
          \/ \E i \in DOMAIN gameQueue : gameQueue[i] = "connected" /\ Last(i)
          \/ seen /\ Last(0)

\* A notice joins the queue's end.
LEMMA NotifyQueue ==
  ASSUME FollowsInv, NEW notice \in Notices, Notify(notice)
  PROVE  /\ gameQueue' \in Seq(Notices)
         /\ notice # "disconnected" => \A i \in Nat : Last(i) => Last(i)'
         /\ DOMAIN gameQueue \subseteq DOMAIN gameQueue'
         /\ \A i \in DOMAIN gameQueue : gameQueue'[i] = gameQueue[i]
         /\ callbacks /\ notice = "connected" =>
               \E i \in DOMAIN gameQueue' : gameQueue'[i] = "connected" /\ Last(i)'
  BY DEF Notify, FollowsInv, Last

LEMMA ClearedFollows ==
  ASSUME gameQueue' \in Seq(Notices), connected' = FALSE
  PROVE  FollowsInv'
  BY DEF FollowsInv

LEMMA SameFollows ==
  ASSUME FollowsInv, UNCHANGED <<statusVars, callbacks>>
  PROVE  FollowsInv'
  BY DEF statusVars, FollowsInv, Last

\* The game thread runs the first callback.
LEMMA TickFollows ==
  ASSUME FollowsInv, GameTick
  PROVE  FollowsInv'
  <1>1. gameQueue # <<>> /\ gameQueue' = Tail(gameQueue)
    BY DEF GameTick
  <1>2. /\ gameQueue' \in Seq(Notices)
        /\ 1 \in DOMAIN gameQueue /\ Head(gameQueue) = gameQueue[1]
        /\ \A j \in DOMAIN gameQueue' : j + 1 \in DOMAIN gameQueue /\ gameQueue'[j] = gameQueue[j + 1]
        /\ \A j \in DOMAIN gameQueue : j > 1 => j - 1 \in DOMAIN gameQueue'
    BY <1>1 DEF FollowsInv
  <1>3. \A i \in DOMAIN gameQueue \cup {0} : Last(i) => \A k \in Nat : k + 1 >= i => Last(k)'
    BY <1>2 DEF Last, FollowsInv
  <1>4. CASE connected' = FALSE
    BY <1>2, <1>4, ClearedFollows
  <1>5. CASE connected' = connected /\ callbacks' = callbacks /\ callbacks /\ connected
    <2>1. CASE \E i \in DOMAIN gameQueue : gameQueue[i] = "connected" /\ Last(i) /\ i > 1
      <3>1. PICK i \in DOMAIN gameQueue : gameQueue[i] = "connected" /\ Last(i) /\ i > 1
        BY <2>1
      <3>2. /\ i - 1 \in DOMAIN gameQueue' /\ i - 1 \in Nat /\ (i - 1) + 1 >= i
            /\ gameQueue'[i - 1] = "connected"
        BY <1>2, <3>1 DEF FollowsInv
      <3>3. Last(i - 1)'
        BY <1>3, <3>1, <3>2
      <3> QED
        BY <1>2, <3>2, <3>3 DEF FollowsInv
    <2>2. CASE gameQueue[1] = "connected" /\ Last(1)
      <3>1. seen' = TRUE
        BY <1>2, <1>5, <2>2 DEF GameTick
      <3>2. Last(0)'
        BY <1>2, <1>3, <2>2
      <3> QED
        BY <1>2, <3>1, <3>2 DEF FollowsInv
    <2>3. CASE seen /\ Last(0)
      <3>1. gameQueue[1] # "disconnected"
        BY <1>2, <2>3 DEF Last
      <3>2. seen'
        BY <1>2, <1>5, <2>3, <3>1 DEF GameTick
      <3>3. Last(0)'
        BY <1>3, <2>3
      <3> QED
        BY <1>2, <3>2, <3>3 DEF FollowsInv
    <2> QED
      BY <1>5, <2>1, <2>2, <2>3 DEF FollowsInv
  <1>6. CASE connected' = connected /\ callbacks' = callbacks /\ ~(callbacks /\ connected)
    BY <1>2, <1>6 DEF FollowsInv
  <1> QED
    BY <1>4, <1>5, <1>6 DEF GameTick, BeginDisconnect, gameVars

LEMMA GameThreadFollows ==
  ASSUME FollowsInv, GameThread
  PROVE  FollowsInv'
  <1>1. CASE \E u \in Urls, a \in Auths : ConnectWithParams(u, a)
    <2>1. PICK u \in Urls : SwapClient(u) /\ UNCHANGED <<seen, callbacks>>
      BY <1>1 DEF ConnectWithParams, Connect
    <2>2. CASE Closed
      <3>1. gameQueue' \in Seq(Notices) /\ connected' = FALSE
        BY <2>2, NotifyQueue DEF Closed, Notices
      <3> QED
        BY <3>1, ClearedFollows
    <2>3. CASE UNCHANGED <<connected, gameQueue>>
      BY <2>1, <2>3, SameFollows DEF statusVars
    <2> QED
      BY <2>1, <2>2, <2>3 DEF SwapClient
  <1>2. CASE Disconnect \/ SyncDisconnect
    <2>1. gameQueue' = gameQueue /\ connected' = FALSE
      BY <1>2 DEF Disconnect, SyncDisconnect, BeginDisconnect
    <2> QED
      BY <2>1, ClearedFollows DEF FollowsInv
  <1>3. CASE GameTick
    BY <1>3, TickFollows
  <1>4. CASE \/ OnError \/ Rebind \/ SyncUnbound \/ DisconnectClose \/ SyncClose
             \/ \E a \in Auths : SetAuth(a)
             \/ \E e \in Events : OnEvent(e) \/ UnbindEvent(e)
    <2>1. UNCHANGED <<statusVars, callbacks>>
      BY <1>4 DEF OnError, Rebind, SyncUnbound, DisconnectClose, SyncClose, SetAuth, OnEvent,
                  UnbindEvent, gameVars
    <2> QED
      BY <2>1, SameFollows
  <1> QED
    BY <1>1, <1>2, <1>3, <1>4 DEF GameThread

LEMMA NetworkFollows ==
  ASSUME FollowsInv, Network
  PROVE  FollowsInv'
  <1>1. UNCHANGED callbacks
    BY DEF Network, Open, DialFails, LinkEnds, Redial, Accepted, Rejected, ServerLeaves, TimerFires,
           gameVars
  <1>2. CASE UNCHANGED statusVars
    BY <1>1, <1>2, SameFollows
  <1>3. CASE Closed \/ Retry
    <2>1. gameQueue' \in Seq(Notices) /\ connected' = FALSE
      BY <1>3, NotifyQueue DEF Closed, Retry, Notices
    <2> QED
      BY <2>1, ClearedFollows
  <1>4. CASE Failed /\ UNCHANGED seen
    <2>1. /\ gameQueue' \in Seq(Notices)
          /\ \A i \in Nat : Last(i) => Last(i)'
          /\ DOMAIN gameQueue \subseteq DOMAIN gameQueue'
          /\ \A i \in DOMAIN gameQueue : gameQueue'[i] = gameQueue[i]
          /\ connected' = connected /\ seen' = seen
      BY <1>4, NotifyQueue DEF Failed, Notices
    <2>2. \A i \in DOMAIN gameQueue : i \in Nat
      BY DEF FollowsInv
    <2> QED
      BY <1>1, <2>1, <2>2 DEF FollowsInv
  <1>5. CASE Accepted
    <2>1. CASE connected
      <3>1. UNCHANGED <<gameQueue, seen, callbacks>>
        BY <1>5, <2>1 DEF Accepted, gameVars
      <3> QED
        BY <2>1, <3>1 DEF FollowsInv, Last
    <2>2. CASE ~connected
      <3>1. Notify("connected")
        BY <1>5, <2>2 DEF Accepted
      <3>2. /\ gameQueue' \in Seq(Notices)
            /\ callbacks => \E i \in DOMAIN gameQueue' : gameQueue'[i] = "connected" /\ Last(i)'
        BY <3>1, NotifyQueue DEF Notices
      <3> QED
        BY <1>1, <3>2 DEF FollowsInv
    <2> QED
      BY <2>1, <2>2
  <1> QED
    BY <1>2, <1>3, <1>4, <1>5
    DEF Network, Open, DialFails, LinkEnds, Redial, Rejected, ServerLeaves, TimerFires, statusVars

LEMMA NextFollows == FollowsInv /\ [NativeNext]_nativeVars => FollowsInv'
  <1>1. FollowsInv /\ UNCHANGED nativeVars => FollowsInv'
    BY SameFollows DEF nativeVars, gameVars
  <1>2. Background => UNCHANGED <<statusVars, callbacks>>
    BY DEF Background, TaskStarts, TaskSynced, TaskUpdates, TaskConnects, TaskDials, TaskAsks, gameVars
  <1> QED
    BY <1>1, <1>2, SameFollows, GameThreadFollows, NetworkFollows DEF NativeNext

\* A component is told of every connection its client holds to be open: when its
\* queue is empty, it holds itself connected.
THEOREM ComponentIsTold == NativeSpec => []ComponentFollows
  <1>1. NativeInit => FollowsInv
    BY DEF NativeInit, FollowsInv
  <1>2. FollowsInv => ComponentFollows
    BY DEF FollowsInv, ComponentFollows
  <1> QED
    BY <1>1, <1>2, NextFollows, PTL DEF NativeSpec
=============================================================================
