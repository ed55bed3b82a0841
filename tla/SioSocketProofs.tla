-------------------------- MODULE SioSocketProofs --------------------------
(***************************************************************************)
(* Proofs about SioSocket for every set of namespaces: its inductive       *)
(* invariant, that a namespace is connected only over a connection, that   *)
(* no namespace of an open client is left without a wait, that a rejection *)
(* holds until connect() is called, and, by a second invariant over the    *)
(* packets in flight, that client and server agree once these are handled. *)
(***************************************************************************)
EXTENDS SioSocket, SequenceTheorems, TLAPS

\* The packets in each direction, and the queues of all namespaces.
Out  == {"connect", "disconnect"}
In   == Packets
Outs == [Nsps -> Seq(Out)]
Ins  == [Nsps -> Seq(In)]

\* Queues of packets keep their type when nothing or one CONNECT is in each.
LEMMA QueuesOpened ==
  /\ OpenAll => c2s' \in Outs
  /\ Silence \in Outs /\ Silence \in Ins
  <1>1. <<>> \in Seq(Out) /\ <<"connect">> \in Seq(Out) /\ <<>> \in Seq(In)
    BY DEF Out
  <1> QED
    BY <1>1 DEF OpenAll, Outs, Ins, Silence

\* ... and when a packet is sent on one of them
LEMMA QueueSent ==
  ASSUME NEW n \in Nsps, NEW type \in Out, c2s \in Outs, Send(n, type)
  PROVE  c2s' \in Outs
  <1>1. Append(c2s[n], type) \in Seq(Out)
    BY DEF Outs
  <1> QED
    BY <1>1 DEF Outs, Send

\* ... by the client or by the server,
LEMMA QueueAnswered ==
  ASSUME NEW n \in Nsps, NEW type \in In, s2c \in Ins, Answer(n, type)
  PROVE  s2c' \in Ins
  <1>1. Append(s2c[n], type) \in Seq(In)
    BY DEF Ins
  <1> QED
    BY <1>1 DEF Ins, Answer

\* ... or taken from it.
LEMMA QueueTaken ==
  ASSUME NEW n \in Nsps, NEW T, NEW q \in [Nsps -> Seq(T)], q[n] # <<>>
  PROVE  [q EXCEPT ![n] = Tail(@)] \in [Nsps -> Seq(T)]
  <1>1. Tail(q[n]) \in Seq(T)
    OBVIOUS
  <1> QED
    BY <1>1

\* The initial state.
LEMMA InvInit == Init => IInv
  <1>1. Init => TypeOK
    BY QueuesOpened DEF Init, TypeOK, Waits, Outs, Ins, Out, In
  <1> QED
    BY <1>1 DEF Init, IInv, StateFitsLink, ConnectedNeedsLink, JoinIsWatched, SpentIsQueued,
                LeaverIsConnected

-----------------------------------------------------------------------------
(* The invariant is kept: one lemma per action, one step per conjunct.     *)

LEMMA ConnectKeeps ==
  ASSUME IInv, Connect
  PROVE  IInv'
  <1>1. TypeOK'
    BY DEF IInv, TypeOK, Waits, Packets, Connect, netVars
  <1>2. StateFitsLink'
    BY DEF IInv, StateFitsLink, Connect, netVars
  <1>3. ConnectedNeedsLink'
    BY DEF IInv, TypeOK, StateFitsLink, ConnectedNeedsLink, Connect, netVars
  <1>4. JoinIsWatched'
    BY DEF IInv, TypeOK, Waits, StateFitsLink, JoinIsWatched, SpentIsQueued,
       LeaverIsConnected, Connect, netVars
  <1>5. SpentIsQueued'
    BY DEF IInv, TypeOK, SpentIsQueued, Connect, netVars
  <1>6. LeaverIsConnected'
    BY DEF IInv, TypeOK, LeaverIsConnected, Connect, netVars
  <1> QED
    BY <1>1, <1>2, <1>3, <1>4, <1>5, <1>6 DEF IInv

LEMMA DisconnectKeeps ==
  ASSUME IInv, Disconnect
  PROVE  IInv'
  <1>1. TypeOK'
    BY DEF IInv, TypeOK, Waits, Packets, Disconnect, CloseAll, netVars
  <1>2. StateFitsLink'
    BY DEF IInv, StateFitsLink, Disconnect, CloseAll, netVars
  <1>3. ConnectedNeedsLink'
    BY DEF IInv, TypeOK, StateFitsLink, ConnectedNeedsLink, Disconnect,
       CloseAll, netVars
  <1>4. JoinIsWatched'
    BY DEF IInv, TypeOK, Waits, StateFitsLink, JoinIsWatched, SpentIsQueued,
       LeaverIsConnected, Disconnect, CloseAll, netVars
  <1>5. SpentIsQueued'
    BY DEF IInv, TypeOK, SpentIsQueued, Disconnect, CloseAll, netVars
  <1>6. LeaverIsConnected'
    BY DEF IInv, TypeOK, LeaverIsConnected, Disconnect, CloseAll, netVars
  <1> QED
    BY <1>1, <1>2, <1>3, <1>4, <1>5, <1>6 DEF IInv

LEMMA RedialKeeps ==
  ASSUME IInv, Redial
  PROVE  IInv'
  <1>1. TypeOK'
    BY DEF IInv, TypeOK, Waits, Packets, Redial, sockVars, netVars
  <1>2. StateFitsLink'
    BY DEF IInv, StateFitsLink, Redial, sockVars, netVars
  <1>3. ConnectedNeedsLink'
    BY DEF IInv, TypeOK, StateFitsLink, ConnectedNeedsLink, Redial, sockVars,
       netVars
  <1>4. JoinIsWatched'
    BY DEF IInv, TypeOK, Waits, StateFitsLink, JoinIsWatched, SpentIsQueued,
       LeaverIsConnected, Redial, sockVars, netVars
  <1>5. SpentIsQueued'
    BY DEF IInv, TypeOK, SpentIsQueued, Redial, sockVars, netVars
  <1>6. LeaverIsConnected'
    BY DEF IInv, TypeOK, LeaverIsConnected, Redial, sockVars, netVars
  <1> QED
    BY <1>1, <1>2, <1>3, <1>4, <1>5, <1>6 DEF IInv

LEMMA OnOpenKeeps ==
  ASSUME IInv, OnOpen
  PROVE  IInv'
  <1>1. TypeOK'
    <2>1. c2s' \in Outs
      BY QueuesOpened, QueueSent, QueueTaken DEF IInv, TypeOK, Outs, Out,
         OnOpen, CloseAll
    <2>2. s2c' \in Ins
      BY QueuesOpened, QueueAnswered, QueueTaken DEF IInv, TypeOK, Ins, In,
         Packets, OnOpen, OpenAll, CloseAll
    <2>3. timer' \in [Nsps -> Waits]
      BY DEF IInv, TypeOK, Waits, OnOpen, OpenAll, CloseAll
    <2> QED
      BY <2>1, <2>2, <2>3, RootAssumption DEF IInv, TypeOK, Outs, Ins, Out, In,
         OnOpen, OpenAll, CloseAll
  <1>2. StateFitsLink'
    BY DEF IInv, StateFitsLink, OnOpen, OpenAll, CloseAll
  <1>3. ConnectedNeedsLink'
    BY DEF IInv, TypeOK, StateFitsLink, ConnectedNeedsLink, OnOpen, OpenAll,
       CloseAll
  <1>4. JoinIsWatched'
    BY RootAssumption DEF IInv, TypeOK, Waits, StateFitsLink, JoinIsWatched,
       SpentIsQueued, LeaverIsConnected, OnOpen, OpenAll, CloseAll
  <1>5. SpentIsQueued'
    BY DEF IInv, TypeOK, SpentIsQueued, OnOpen, OpenAll, CloseAll
  <1>6. LeaverIsConnected'
    BY DEF IInv, TypeOK, LeaverIsConnected, OnOpen, OpenAll, CloseAll
  <1> QED
    BY <1>1, <1>2, <1>3, <1>4, <1>5, <1>6 DEF IInv

LEMMA OnFailKeeps ==
  ASSUME IInv, OnFail
  PROVE  IInv'
  <1>1. TypeOK'
    BY DEF IInv, TypeOK, Waits, Packets, OnFail, DisconnectAll, CloseAll,
       netVars
  <1>2. StateFitsLink'
    BY DEF IInv, StateFitsLink, OnFail, DisconnectAll, CloseAll, netVars
  <1>3. ConnectedNeedsLink'
    BY DEF IInv, TypeOK, StateFitsLink, ConnectedNeedsLink, OnFail,
       DisconnectAll, CloseAll, netVars
  <1>4. JoinIsWatched'
    BY DEF IInv, TypeOK, Waits, StateFitsLink, JoinIsWatched, SpentIsQueued,
       LeaverIsConnected, OnFail, DisconnectAll, CloseAll, netVars
  <1>5. SpentIsQueued'
    BY DEF IInv, TypeOK, SpentIsQueued, OnFail, DisconnectAll, CloseAll, netVars
  <1>6. LeaverIsConnected'
    BY DEF IInv, TypeOK, LeaverIsConnected, OnFail, DisconnectAll, CloseAll,
       netVars
  <1> QED
    BY <1>1, <1>2, <1>3, <1>4, <1>5, <1>6 DEF IInv

LEMMA CloseImplKeeps ==
  ASSUME IInv, CloseImpl
  PROVE  IInv'
  <1>1. TypeOK'
    BY DEF IInv, TypeOK, Waits, Packets, CloseImpl, sockVars, netVars
  <1>2. StateFitsLink'
    BY DEF IInv, StateFitsLink, CloseImpl, sockVars, netVars
  <1>3. ConnectedNeedsLink'
    BY DEF IInv, TypeOK, StateFitsLink, ConnectedNeedsLink, CloseImpl, sockVars,
       netVars
  <1>4. JoinIsWatched'
    BY DEF IInv, TypeOK, Waits, StateFitsLink, JoinIsWatched, SpentIsQueued,
       LeaverIsConnected, CloseImpl, sockVars, netVars
  <1>5. SpentIsQueued'
    BY DEF IInv, TypeOK, SpentIsQueued, CloseImpl, sockVars, netVars
  <1>6. LeaverIsConnected'
    BY DEF IInv, TypeOK, LeaverIsConnected, CloseImpl, sockVars, netVars
  <1> QED
    BY <1>1, <1>2, <1>3, <1>4, <1>5, <1>6 DEF IInv

LEMMA OnCloseKeeps ==
  ASSUME IInv, OnClose
  PROVE  IInv'
  <1>1. TypeOK'
    <2>1. c2s' \in Outs
      BY QueuesOpened, QueueSent, QueueTaken DEF IInv, TypeOK, Outs, Out,
         OnClose, DisconnectAll, Silence
    <2>2. s2c' \in Ins
      BY QueuesOpened, QueueAnswered, QueueTaken DEF IInv, TypeOK, Ins, In,
         Packets, OnClose, DisconnectAll, Silence
    <2>3. timer' \in [Nsps -> Waits]
      BY DEF IInv, TypeOK, Waits, OnClose, DisconnectAll, Silence
    <2> QED
      BY <2>1, <2>2, <2>3 DEF IInv, TypeOK, Outs, Ins, Out, In, OnClose,
         DisconnectAll, Silence
  <1>2. StateFitsLink'
    BY DEF IInv, StateFitsLink, OnClose, DisconnectAll, Silence
  <1>3. ConnectedNeedsLink'
    BY DEF IInv, TypeOK, StateFitsLink, ConnectedNeedsLink, OnClose,
       DisconnectAll, Silence
  <1>4. JoinIsWatched'
    BY DEF IInv, TypeOK, Waits, StateFitsLink, JoinIsWatched, SpentIsQueued,
       LeaverIsConnected, OnClose, DisconnectAll, Silence
  <1>5. SpentIsQueued'
    BY DEF IInv, TypeOK, SpentIsQueued, OnClose, DisconnectAll, Silence
  <1>6. LeaverIsConnected'
    BY DEF IInv, TypeOK, LeaverIsConnected, OnClose, DisconnectAll, Silence
  <1> QED
    BY <1>1, <1>2, <1>3, <1>4, <1>5, <1>6 DEF IInv

LEMMA TouchKeeps ==
  ASSUME NEW n \in Nsps, IInv, Touch(n)
  PROVE  IInv'
  <1>1. TypeOK'
    <2>1. c2s' \in Outs
      BY QueuesOpened, QueueSent, QueueTaken DEF IInv, TypeOK, Outs, Out, Touch,
         SendConnect, NothingSent, Room, clientVars
    <2>2. s2c' \in Ins
      BY QueuesOpened, QueueAnswered, QueueTaken DEF IInv, TypeOK, Ins, In,
         Packets, Touch, SendConnect, Send, NothingSent, Room, clientVars
    <2>3. timer' \in [Nsps -> Waits]
      BY DEF IInv, TypeOK, Waits, Touch, SendConnect, Send, NothingSent, Room,
         clientVars
    <2> QED
      BY <2>1, <2>2, <2>3 DEF IInv, TypeOK, Outs, Ins, Out, In, Touch,
         SendConnect, Send, NothingSent, Room, clientVars
  <1>2. StateFitsLink'
    BY DEF IInv, StateFitsLink, Touch, SendConnect, Send, NothingSent, Room,
       clientVars
  <1>3. ConnectedNeedsLink'
    BY DEF IInv, TypeOK, StateFitsLink, ConnectedNeedsLink, Touch, SendConnect,
       Send, NothingSent, Room, clientVars
  <1>4. JoinIsWatched'
    BY DEF IInv, TypeOK, Waits, StateFitsLink, JoinIsWatched, SpentIsQueued,
       LeaverIsConnected, Touch, SendConnect, Send, NothingSent, Room,
       clientVars
  <1>5. SpentIsQueued'
    BY DEF IInv, TypeOK, SpentIsQueued, Touch, SendConnect, Send, NothingSent,
       Room, clientVars
  <1>6. LeaverIsConnected'
    BY DEF IInv, TypeOK, LeaverIsConnected, Touch, SendConnect, Send,
       NothingSent, Room, clientVars
  <1> QED
    BY <1>1, <1>2, <1>3, <1>4, <1>5, <1>6 DEF IInv

LEMMA JoinNamespaceKeeps ==
  ASSUME NEW n \in Nsps, IInv, JoinNamespace(n)
  PROVE  IInv'
  <1>1. TypeOK'
    <2>1. c2s' \in Outs
      BY QueuesOpened, QueueSent, QueueTaken DEF IInv, TypeOK, Outs, Out,
         JoinNamespace, SocketConnect, SendConnect, NothingSent, Room,
         clientVars
    <2>2. s2c' \in Ins
      BY QueuesOpened, QueueAnswered, QueueTaken DEF IInv, TypeOK, Ins, In,
         Packets, JoinNamespace, SocketConnect, SendConnect, Send, NothingSent,
         Room, clientVars
    <2>3. timer' \in [Nsps -> Waits]
      BY DEF IInv, TypeOK, Waits, JoinNamespace, SocketConnect, SendConnect,
         Send, NothingSent, Room, clientVars
    <2> QED
      BY <2>1, <2>2, <2>3 DEF IInv, TypeOK, Outs, Ins, Out, In, JoinNamespace,
         SocketConnect, SendConnect, Send, NothingSent, Room, clientVars
  <1>2. StateFitsLink'
    BY DEF IInv, StateFitsLink, JoinNamespace, SocketConnect, SendConnect, Send,
       NothingSent, Room, clientVars
  <1>3. ConnectedNeedsLink'
    BY DEF IInv, TypeOK, StateFitsLink, ConnectedNeedsLink, JoinNamespace,
       SocketConnect, SendConnect, Send, NothingSent, Room, clientVars
  <1>4. JoinIsWatched'
    BY DEF IInv, TypeOK, Waits, StateFitsLink, JoinIsWatched, SpentIsQueued,
       LeaverIsConnected, JoinNamespace, SocketConnect, SendConnect, Send,
       NothingSent, Room, clientVars
  <1>5. SpentIsQueued'
    BY DEF IInv, TypeOK, SpentIsQueued, JoinNamespace, SocketConnect,
       SendConnect, Send, NothingSent, Room, clientVars
  <1>6. LeaverIsConnected'
    BY DEF IInv, TypeOK, LeaverIsConnected, JoinNamespace, SocketConnect,
       SendConnect, Send, NothingSent, Room, clientVars
  <1> QED
    BY <1>1, <1>2, <1>3, <1>4, <1>5, <1>6 DEF IInv

LEMMA LeaveNamespaceKeeps ==
  ASSUME NEW n \in Nsps, IInv, LeaveNamespace(n)
  PROVE  IInv'
  <1>1. TypeOK'
    <2>1. c2s' \in Outs
      BY QueuesOpened, QueueSent, QueueTaken DEF IInv, TypeOK, Outs, Out,
         LeaveNamespace, SocketClose, SendConnect, Room, clientVars
    <2>2. s2c' \in Ins
      BY QueuesOpened, QueueAnswered, QueueTaken DEF IInv, TypeOK, Ins, In,
         Packets, LeaveNamespace, SocketClose, SendConnect, Send, Room,
         clientVars
    <2>3. timer' \in [Nsps -> Waits]
      BY DEF IInv, TypeOK, Waits, LeaveNamespace, SocketClose, SendConnect,
         Send, Room, clientVars
    <2> QED
      BY <2>1, <2>2, <2>3 DEF IInv, TypeOK, Outs, Ins, Out, In, LeaveNamespace,
         SocketClose, SendConnect, Send, Room, clientVars
  <1>2. StateFitsLink'
    BY DEF IInv, StateFitsLink, LeaveNamespace, SocketClose, SendConnect, Send,
       Room, clientVars
  <1>3. ConnectedNeedsLink'
    BY DEF IInv, TypeOK, StateFitsLink, ConnectedNeedsLink, LeaveNamespace,
       SocketClose, SendConnect, Send, Room, clientVars
  <1>4. JoinIsWatched'
    BY DEF IInv, TypeOK, Waits, StateFitsLink, JoinIsWatched, SpentIsQueued,
       LeaverIsConnected, LeaveNamespace, SocketClose, SendConnect, Send, Room,
       clientVars
  <1>5. SpentIsQueued'
    BY DEF IInv, TypeOK, SpentIsQueued, LeaveNamespace, SocketClose,
       SendConnect, Send, Room, clientVars
  <1>6. LeaverIsConnected'
    BY DEF IInv, TypeOK, LeaverIsConnected, LeaveNamespace, SocketClose,
       SendConnect, Send, Room, clientVars
  <1> QED
    BY <1>1, <1>2, <1>3, <1>4, <1>5, <1>6 DEF IInv

LEMMA OnMessageKeeps ==
  ASSUME NEW n \in Nsps, IInv, OnMessage(n)
  PROVE  IInv'
  <1>1. TypeOK'
    <2>1. c2s' \in Outs
      BY QueuesOpened, QueueSent, QueueTaken DEF IInv, TypeOK, Outs, Out,
         OnMessage, SocketOnConnected, SocketOnClose, SocketOnError, clientVars,
         sockVars
    <2>2. s2c' \in Ins
      BY QueuesOpened, QueueAnswered, QueueTaken DEF IInv, TypeOK, Ins, In,
         Packets, OnMessage, SocketOnConnected, SocketOnClose, SocketOnError,
         clientVars, sockVars
    <2>3. timer' \in [Nsps -> Waits]
      BY DEF IInv, TypeOK, Waits, OnMessage, SocketOnConnected, SocketOnClose,
         SocketOnError, clientVars, sockVars
    <2> QED
      BY <2>1, <2>2, <2>3 DEF IInv, TypeOK, Outs, Ins, Out, In, Packets,
         OnMessage, SocketOnConnected, SocketOnClose, SocketOnError, clientVars,
         sockVars
  <1>2. StateFitsLink'
    BY DEF IInv, StateFitsLink, OnMessage, SocketOnConnected, SocketOnClose,
       SocketOnError, clientVars, sockVars
  <1>3. ConnectedNeedsLink'
    BY DEF IInv, TypeOK, StateFitsLink, ConnectedNeedsLink, OnMessage,
       SocketOnConnected, SocketOnClose, SocketOnError, clientVars, sockVars
  <1>4. JoinIsWatched'
    BY DEF IInv, TypeOK, Waits, StateFitsLink, JoinIsWatched, SpentIsQueued,
       LeaverIsConnected, OnMessage, SocketOnConnected, SocketOnClose,
       SocketOnError, clientVars, sockVars
  <1>5. SpentIsQueued'
    BY DEF IInv, TypeOK, SpentIsQueued, OnMessage, SocketOnConnected,
       SocketOnClose, SocketOnError, clientVars, sockVars
  <1>6. LeaverIsConnected'
    BY DEF IInv, TypeOK, LeaverIsConnected, OnMessage, SocketOnConnected,
       SocketOnClose, SocketOnError, clientVars, sockVars
  <1> QED
    BY <1>1, <1>2, <1>3, <1>4, <1>5, <1>6 DEF IInv

LEMMA WaitExpiresKeeps ==
  ASSUME NEW n \in Nsps, IInv, WaitExpires(n)
  PROVE  IInv'
  <1>1. TypeOK'
    <2>1. c2s' \in Outs
      BY QueuesOpened, QueueSent, QueueTaken DEF IInv, TypeOK, Outs, Out,
         WaitExpires, clientVars, netVars
    <2>2. s2c' \in Ins
      BY QueuesOpened, QueueAnswered, QueueTaken DEF IInv, TypeOK, Ins, In,
         Packets, WaitExpires, clientVars, netVars
    <2>3. timer' \in [Nsps -> Waits]
      BY DEF IInv, TypeOK, Waits, WaitExpires, clientVars, netVars
    <2> QED
      BY <2>1, <2>2, <2>3 DEF IInv, TypeOK, Outs, Ins, Out, In, WaitExpires,
         clientVars, netVars
  <1>2. StateFitsLink'
    BY DEF IInv, StateFitsLink, WaitExpires, clientVars, netVars
  <1>3. ConnectedNeedsLink'
    BY DEF IInv, TypeOK, StateFitsLink, ConnectedNeedsLink, WaitExpires,
       clientVars, netVars
  <1>4. JoinIsWatched'
    BY DEF IInv, TypeOK, Waits, StateFitsLink, JoinIsWatched, SpentIsQueued,
       LeaverIsConnected, WaitExpires, clientVars, netVars
  <1>5. SpentIsQueued'
    BY DEF IInv, TypeOK, SpentIsQueued, WaitExpires, clientVars, netVars
  <1>6. LeaverIsConnected'
    BY DEF IInv, TypeOK, LeaverIsConnected, WaitExpires, clientVars, netVars
  <1> QED
    BY <1>1, <1>2, <1>3, <1>4, <1>5, <1>6 DEF IInv

LEMMA TimeoutConnectionKeeps ==
  ASSUME NEW n \in Nsps, IInv, TimeoutConnection(n)
  PROVE  IInv'
  <1>1. TypeOK'
    BY DEF IInv, TypeOK, Waits, Packets, TimeoutConnection, SocketOnClose,
       clientVars
  <1>2. StateFitsLink'
    BY DEF IInv, StateFitsLink, TimeoutConnection, SocketOnClose, clientVars
  <1>3. ConnectedNeedsLink'
    BY DEF IInv, TypeOK, StateFitsLink, ConnectedNeedsLink, TimeoutConnection,
       SocketOnClose, clientVars
  <1>4. JoinIsWatched'
    BY DEF IInv, TypeOK, Waits, StateFitsLink, JoinIsWatched, SpentIsQueued,
       LeaverIsConnected, TimeoutConnection, SocketOnClose, clientVars
  <1>5. SpentIsQueued'
    BY DEF IInv, TypeOK, SpentIsQueued, TimeoutConnection, SocketOnClose,
       clientVars
  <1>6. LeaverIsConnected'
    BY DEF IInv, TypeOK, LeaverIsConnected, TimeoutConnection, SocketOnClose,
       clientVars
  <1> QED
    BY <1>1, <1>2, <1>3, <1>4, <1>5, <1>6 DEF IInv

LEMMA DeferredCloseKeeps ==
  ASSUME NEW n \in Nsps, IInv, DeferredClose(n)
  PROVE  IInv'
  <1>1. TypeOK'
    BY DEF IInv, TypeOK, Waits, Packets, DeferredClose, SocketOnClose,
       clientVars
  <1>2. StateFitsLink'
    BY DEF IInv, StateFitsLink, DeferredClose, SocketOnClose, clientVars
  <1>3. ConnectedNeedsLink'
    BY DEF IInv, TypeOK, StateFitsLink, ConnectedNeedsLink, DeferredClose,
       SocketOnClose, clientVars
  <1>4. JoinIsWatched'
    BY DEF IInv, TypeOK, Waits, StateFitsLink, JoinIsWatched, SpentIsQueued,
       LeaverIsConnected, DeferredClose, SocketOnClose, clientVars
  <1>5. SpentIsQueued'
    BY DEF IInv, TypeOK, SpentIsQueued, DeferredClose, SocketOnClose, clientVars
  <1>6. LeaverIsConnected'
    BY DEF IInv, TypeOK, LeaverIsConnected, DeferredClose, SocketOnClose,
       clientVars
  <1> QED
    BY <1>1, <1>2, <1>3, <1>4, <1>5, <1>6 DEF IInv

LEMMA ServerTakesKeeps ==
  ASSUME NEW n \in Nsps, IInv, ServerTakes(n)
  PROVE  IInv'
  <1>1. TypeOK'
    <2>1. c2s' \in Outs
      BY QueuesOpened, QueueSent, QueueTaken DEF IInv, TypeOK, Outs, Out,
         ServerTakes, Answer, clientVars, sockVars
    <2>2. s2c' \in Ins
      BY QueuesOpened, QueueAnswered, QueueTaken DEF IInv, TypeOK, Ins, In,
         Packets, ServerTakes, clientVars, sockVars
    <2>3. timer' \in [Nsps -> Waits]
      BY DEF IInv, TypeOK, Waits, ServerTakes, Answer, clientVars, sockVars
    <2> QED
      BY <2>1, <2>2, <2>3 DEF IInv, TypeOK, Outs, Ins, Out, In, ServerTakes,
         Answer, clientVars, sockVars
  <1>2. StateFitsLink'
    BY DEF IInv, StateFitsLink, ServerTakes, Answer, clientVars, sockVars
  <1>3. ConnectedNeedsLink'
    BY DEF IInv, TypeOK, StateFitsLink, ConnectedNeedsLink, ServerTakes, Answer,
       clientVars, sockVars
  <1>4. JoinIsWatched'
    BY DEF IInv, TypeOK, Waits, StateFitsLink, JoinIsWatched, SpentIsQueued,
       LeaverIsConnected, ServerTakes, Answer, clientVars, sockVars
  <1>5. SpentIsQueued'
    BY DEF IInv, TypeOK, SpentIsQueued, ServerTakes, Answer, clientVars,
       sockVars
  <1>6. LeaverIsConnected'
    BY DEF IInv, TypeOK, LeaverIsConnected, ServerTakes, Answer, clientVars,
       sockVars
  <1> QED
    BY <1>1, <1>2, <1>3, <1>4, <1>5, <1>6 DEF IInv

LEMMA ServerDisconnectsKeeps ==
  ASSUME NEW n \in Nsps, IInv, ServerDisconnects(n)
  PROVE  IInv'
  <1>1. TypeOK'
    BY DEF IInv, TypeOK, Waits, Packets, ServerDisconnects, Answer, clientVars,
       sockVars
  <1>2. StateFitsLink'
    BY DEF IInv, StateFitsLink, ServerDisconnects, Answer, clientVars, sockVars
  <1>3. ConnectedNeedsLink'
    BY DEF IInv, TypeOK, StateFitsLink, ConnectedNeedsLink, ServerDisconnects,
       Answer, clientVars, sockVars
  <1>4. JoinIsWatched'
    BY DEF IInv, TypeOK, Waits, StateFitsLink, JoinIsWatched, SpentIsQueued,
       LeaverIsConnected, ServerDisconnects, Answer, clientVars, sockVars
  <1>5. SpentIsQueued'
    BY DEF IInv, TypeOK, SpentIsQueued, ServerDisconnects, Answer, clientVars,
       sockVars
  <1>6. LeaverIsConnected'
    BY DEF IInv, TypeOK, LeaverIsConnected, ServerDisconnects, Answer,
       clientVars, sockVars
  <1> QED
    BY <1>1, <1>2, <1>3, <1>4, <1>5, <1>6 DEF IInv

\* Every step of the program keeps the invariant.
LEMMA InvStep == IInv /\ [Next]_vars => IInv'
  <1> SUFFICES ASSUME IInv, [Next]_vars
               PROVE  IInv'
    OBVIOUS
  <1>1. CASE Connect
    BY <1>1, ConnectKeeps
  <1>2. CASE Disconnect
    BY <1>2, DisconnectKeeps
  <1>3. CASE Redial
    BY <1>3, RedialKeeps
  <1>4. CASE OnOpen
    BY <1>4, OnOpenKeeps
  <1>5. CASE OnFail
    BY <1>5, OnFailKeeps
  <1>6. CASE CloseImpl
    BY <1>6, CloseImplKeeps
  <1>7. CASE OnClose
    BY <1>7, OnCloseKeeps
  <1>8. ASSUME NEW n \in Nsps, Touch(n)
        PROVE  IInv'
    BY <1>8, TouchKeeps
  <1>9. ASSUME NEW n \in Nsps, JoinNamespace(n)
        PROVE  IInv'
    BY <1>9, JoinNamespaceKeeps
  <1>10. ASSUME NEW n \in Nsps, LeaveNamespace(n)
        PROVE  IInv'
    BY <1>10, LeaveNamespaceKeeps
  <1>11. ASSUME NEW n \in Nsps, OnMessage(n)
        PROVE  IInv'
    BY <1>11, OnMessageKeeps
  <1>12. ASSUME NEW n \in Nsps, WaitExpires(n)
        PROVE  IInv'
    BY <1>12, WaitExpiresKeeps
  <1>13. ASSUME NEW n \in Nsps, TimeoutConnection(n)
        PROVE  IInv'
    BY <1>13, TimeoutConnectionKeeps
  <1>14. ASSUME NEW n \in Nsps, DeferredClose(n)
        PROVE  IInv'
    BY <1>14, DeferredCloseKeeps
  <1>15. ASSUME NEW n \in Nsps, ServerTakes(n)
        PROVE  IInv'
    BY <1>15, ServerTakesKeeps
  <1>16. ASSUME NEW n \in Nsps, ServerDisconnects(n)
        PROVE  IInv'
    BY <1>16, ServerDisconnectsKeeps
  <1>17. CASE UNCHANGED vars
    BY <1>17 DEF IInv, TypeOK, StateFitsLink, ConnectedNeedsLink, JoinIsWatched,
       SpentIsQueued, LeaverIsConnected, vars, clientVars, sockVars, netVars
  <1> QED
    BY <1>1, <1>2, <1>3, <1>4, <1>5, <1>6, <1>7, <1>8, <1>9, <1>10, <1>11,
       <1>12, <1>13, <1>14, <1>15, <1>16, <1>17 DEF Next

-----------------------------------------------------------------------------
(* A rejection holds.                                                      *)

\* What a queue of packets becomes without a CONNECT being sent on it.
LEMMA NotSent ==
  ASSUME NEW q \in Seq(Out)
  PROVE  /\ q # Append(q, "connect")
         /\ <<>> # Append(q, "connect")
         /\ q # <<>> => Tail(q) # Append(q, "connect")
         /\ Append(q, "disconnect") # Append(q, "connect")
  <1>1. Len(Append(q, "connect")) = Len(q) + 1
    OBVIOUS
  <1>2. q # <<>> => Len(Tail(q)) = Len(q) - 1
    OBVIOUS
  <1>3. /\ Append(q, "disconnect")[Len(q) + 1] = "disconnect"
        /\ Append(q, "connect")[Len(q) + 1] = "connect"
    OBVIOUS
  <1> QED
    BY <1>1, <1>2, <1>3

\* The four things a step does to the queue of a namespace that stays rejected.
LEMMA RejectedQueue ==
  ASSUME IInv, Next, NEW n \in rejected \cap rejected'
  PROVE  \/ c2s'[n] = c2s[n]
         \/ c2s'[n] = <<>>
         \/ c2s[n] # <<>> /\ c2s'[n] = Tail(c2s[n])
         \/ c2s'[n] = Append(c2s[n], "disconnect")
  <1>0. n \in Nsps /\ n \in reg /\ c2s \in [Nsps -> Seq({"connect", "disconnect"})]
    BY DEF IInv, TypeOK
  <1>1. CASE Connect \/ Disconnect \/ Redial \/ OnFail \/ CloseImpl
    BY <1>1 DEF Connect, Disconnect, Redial, OnFail, CloseImpl, netVars
  <1>2. CASE OnOpen
    BY <1>0, <1>2 DEF OnOpen, OpenAll
  <1>3. CASE OnClose
    BY <1>0, <1>3 DEF OnClose, Silence
  <1>4. ASSUME NEW m \in Nsps, Touch(m)
        PROVE  c2s'[n] = c2s[n]
    BY <1>0, <1>4 DEF Touch, SendConnect, Send, NothingSent
  <1>5. ASSUME NEW m \in Nsps, JoinNamespace(m)
        PROVE  c2s'[n] = c2s[n]
    <2>1. n # m
      BY <1>5 DEF JoinNamespace, SocketConnect
    <2> QED
      BY <1>0, <1>5, <2>1 DEF JoinNamespace, SocketConnect, SendConnect, Send, NothingSent
  <1>6. ASSUME NEW m \in Nsps, LeaveNamespace(m)
        PROVE  c2s'[n] \in {c2s[n], Append(c2s[n], "disconnect")}
    BY <1>0, <1>6 DEF LeaveNamespace, SocketClose, SendConnect, Send
  <1>7. ASSUME NEW m \in Nsps,
               OnMessage(m) \/ WaitExpires(m) \/ TimeoutConnection(m) \/ DeferredClose(m)
        PROVE  c2s'[n] = c2s[n]
    BY <1>7 DEF OnMessage, WaitExpires, TimeoutConnection, DeferredClose, netVars
  <1>8. ASSUME NEW m \in Nsps, ServerTakes(m)
        PROVE  c2s'[n] = c2s[n] \/ (c2s[n] # <<>> /\ c2s'[n] = Tail(c2s[n]))
    BY <1>0, <1>8 DEF ServerTakes
  <1>9. ASSUME NEW m \in Nsps, ServerDisconnects(m)
        PROVE  c2s'[n] = c2s[n]
    BY <1>9 DEF ServerDisconnects
  <1> QED
    BY <1>1, <1>2, <1>3, <1>4, <1>5, <1>6, <1>7, <1>8, <1>9 DEF Next

-----------------------------------------------------------------------------
(* What the client holds connected, the server holds: a second invariant,  *)
(* about the packets of one namespace in flight.                           *)

Answers == {"connect", "error"}

\* A CONNECT, or the answer to one, is in flight.
Pending(c, s) == (\E i \in DOMAIN c : c[i] = "connect") \/ \E i \in DOMAIN s : s[i] \in Answers

Told(s) == \E i \in DOMAIN s : s[i] = "disconnect"

\* The server accepted, and did not take it back.
Accepted(s) == \E i \in DOMAIN s : s[i] = "connect" /\ \A j \in DOMAIN s : i < j => s[j] # "disconnect"

\* There is one CONNECT or one answer at a time, and nothing behind a CONNECT.
Fits(c, s) ==
    /\ \A i \in DOMAIN c : c[i] = "connect" =>
          i = Len(c) /\ \A j \in DOMAIN s : s[j] \notin Answers
    /\ \A i \in DOMAIN s : s[i] \in Answers =>
          c = <<>> /\ \A j \in DOMAIN s : s[j] \in Answers => i = j

Agrees(n) ==
    /\ Fits(c2s[n], s2c[n])
    /\ Accepted(s2c[n]) => n \in members
    /\ n \in connected \cup rejected \/ n \notin reg => ~Pending(c2s[n], s2c[n])
    /\ n \in connected \ leaving => c2s[n] = <<>> /\ (n \in members \/ Told(s2c[n]))

Agreement == conState = "opened" => \A n \in Nsps \ late : Agrees(n)

\* Without a link nothing is in flight, and the server holds nothing.
NoLink ==
    link \in {"down", "dialing"} =>
        c2s = Silence /\ s2c = Silence /\ members = {} /\ late = {}

\* A namespace that may be joined has no timer.
JoinWaits ==
    conState = "opened" => \A n \in reg \ (connected \cup rejected) : timer[n] # "none"

AInv == NoLink /\ JoinWaits /\ Agreement

\* Nothing in flight fits.
LEMMA SilenceFits ==
  /\ Fits(<<>>, <<>>) /\ Fits(<<"connect">>, <<>>)
  /\ ~Pending(<<>>, <<>>) /\ ~Accepted(<<>>)
  BY DEF Fits, Pending, Accepted

LEMMA SendFits ==
  ASSUME NEW c \in Seq(Out), NEW s \in Seq(In), ~Pending(c, s)
  PROVE  /\ Fits(Append(c, "connect"), s)
         /\ Fits(Append(c, "disconnect"), s)
         /\ ~Pending(Append(c, "disconnect"), s)
  <1>1. ASSUME NEW x \in Out
        PROVE  /\ Len(Append(c, x)) = Len(c) + 1
               /\ \A i \in DOMAIN Append(c, x) :
                     \/ i \in DOMAIN c /\ Append(c, x)[i] = c[i]
                     \/ i = Len(c) + 1 /\ Append(c, x)[i] = x
    <2>1. /\ \A i \in 1 .. Len(c) : Append(c, x)[i] = c[i]
          /\ Append(c, x)[Len(c) + 1] = x /\ Len(Append(c, x)) = Len(c) + 1
          /\ Append(c, x) \in Seq(Out)
      BY AppendProperties
    <2>2. Len(c) \in Nat /\ DOMAIN c = 1 .. Len(c) /\ DOMAIN Append(c, x) = 1 .. (Len(c) + 1)
      BY <2>1, LenProperties
    <2> QED
      BY <2>1, <2>2
  <1> DEFINE a == Append(c, "connect")
             d == Append(c, "disconnect")
  <1>2. /\ Len(a) = Len(c) + 1
        /\ \A i \in DOMAIN a : (i \in DOMAIN c /\ a[i] = c[i]) \/ (i = Len(c) + 1 /\ a[i] = "connect")
        /\ \A i \in DOMAIN d : (i \in DOMAIN c /\ d[i] = c[i]) \/ (i = Len(c) + 1 /\ d[i] = "disconnect")
    BY <1>1 DEF Out
  <1> HIDE DEF a, d
  <1>3. Fits(a, s)
    BY <1>2 DEF Fits, Pending
  <1>4. Fits(d, s) /\ ~Pending(d, s)
    BY <1>2 DEF Fits, Pending
  <1> QED
    BY <1>3, <1>4 DEF a, d

\* A packet taken from a queue: what is left.
LEMMA TailIs ==
  ASSUME NEW T, NEW q \in Seq(T), q # <<>>
  PROVE  /\ Tail(q) \in Seq(T) /\ Len(Tail(q)) = Len(q) - 1 /\ Len(q) \in Nat \ {0}
         /\ \A i \in DOMAIN Tail(q) : i \in Nat \ {0} /\ i + 1 \in DOMAIN q /\ Tail(q)[i] = q[i + 1]
         /\ \A i \in DOMAIN q : /\ i \in Nat \ {0} /\ i <= Len(q)
                                /\ i = 1 \/ (i - 1 \in DOMAIN Tail(q) /\ Tail(q)[i - 1] = q[i])
         /\ 1 \in DOMAIN q /\ q[1] = Head(q)
         /\ Tail(q) = <<>> <=> Len(q) = 1
  <1>1. /\ Tail(q) \in Seq(T) /\ Len(Tail(q)) = Len(q) - 1
        /\ \A i \in 1 .. Len(Tail(q)) : Tail(q)[i] = q[i + 1]
    BY HeadTailProperties
  <1>2. Len(q) \in Nat \ {0} /\ DOMAIN q = 1 .. Len(q) /\ DOMAIN Tail(q) = 1 .. (Len(q) - 1)
    BY <1>1, LenProperties, EmptySeq
  <1>3. Tail(q) = <<>> <=> Len(q) = 1
    BY <1>1, <1>2, EmptySeq
  <1> QED
    BY <1>1, <1>2, <1>3

LEMMA TakeFits ==
  ASSUME NEW c \in Seq(Out), NEW s \in Seq(In), c # <<>>, Fits(c, s)
  PROVE  /\ Fits(Tail(c), s) /\ ~Accepted(s)
         /\ Pending(Tail(c), s) => Pending(c, s)
         /\ Head(c) = "connect" =>
               /\ Tail(c) = <<>> /\ Pending(c, s)
               /\ \A a \in Answers : Fits(<<>>, Append(s, a))
               /\ ~Accepted(Append(s, "error"))
  <1> DEFINE r == Tail(c)
  <1>1. /\ r \in Seq(Out) /\ Len(r) = Len(c) - 1 /\ Len(c) \in Nat \ {0}
        /\ \A i \in DOMAIN r : i \in Nat \ {0} /\ i + 1 \in DOMAIN c /\ r[i] = c[i + 1]
        /\ 1 \in DOMAIN c /\ c[1] = Head(c)
        /\ r = <<>> <=> Len(c) = 1
    BY TailIs
  <1>2. \A j \in DOMAIN s : s[j] \notin Answers
    BY DEF Fits
  <1> HIDE DEF r
  <1>3. Fits(r, s)
    BY <1>1, <1>2 DEF Fits
  <1>4. ~Accepted(s)
    BY <1>2 DEF Accepted, Answers
  <1>5. Pending(r, s) => Pending(c, s)
    BY <1>1 DEF Pending
  <1>6. ASSUME Head(c) = "connect"
        PROVE  /\ r = <<>> /\ Pending(c, s)
               /\ \A a \in Answers : Fits(<<>>, Append(s, a))
               /\ ~Accepted(Append(s, "error"))
    <2>1. r = <<>> /\ Pending(c, s)
      BY <1>1, <1>6 DEF Fits, Pending
    <2>2. ASSUME NEW a \in Answers
          PROVE  /\ Fits(<<>>, Append(s, a))
                 /\ a = "error" => ~Accepted(Append(s, a))
      <3> DEFINE t == Append(s, a)
      <3>1. /\ \A i \in 1 .. Len(s) : t[i] = s[i]
            /\ Len(t) = Len(s) + 1 /\ t[Len(s) + 1] = a /\ t \in Seq(In)
        BY AppendProperties DEF Answers, In, Packets
      <3>2. Len(s) \in Nat /\ DOMAIN s = 1 .. Len(s) /\ DOMAIN t = 1 .. (Len(s) + 1)
        BY <3>1, LenProperties
      <3>3. \A i \in DOMAIN t : (i \in DOMAIN s /\ t[i] = s[i]) \/ (i = Len(s) + 1 /\ t[i] = a)
        BY <3>1, <3>2
      <3> HIDE DEF t
      <3>4. Fits(<<>>, t)
        BY <1>2, <3>3 DEF Fits
      <3>5. a = "error" => ~Accepted(t)
        BY <1>2, <3>3 DEF Accepted, Answers
      <3> QED
        BY <3>4, <3>5 DEF t
    <2> QED
      BY <2>1, <2>2 DEF Answers
  <1> QED
    BY <1>3, <1>4, <1>5, <1>6 DEF r

LEMMA ToldFits ==
  ASSUME NEW c \in Seq(Out), NEW s \in Seq(In), Fits(c, s)
  PROVE  /\ Fits(c, Append(s, "disconnect"))
         /\ ~Accepted(Append(s, "disconnect")) /\ Told(Append(s, "disconnect"))
         /\ Pending(c, Append(s, "disconnect")) => Pending(c, s)
  <1> DEFINE t == Append(s, "disconnect")
  <1>1. /\ \A i \in 1 .. Len(s) : t[i] = s[i]
        /\ t[Len(s) + 1] = "disconnect" /\ Len(t) = Len(s) + 1 /\ t \in Seq(In)
    BY AppendProperties DEF In, Packets
  <1>2. Len(s) \in Nat /\ DOMAIN s = 1 .. Len(s) /\ DOMAIN t = 1 .. (Len(s) + 1)
    BY <1>1, LenProperties
  <1>3. /\ \A i \in DOMAIN t : (i \in DOMAIN s /\ i < Len(s) + 1 /\ t[i] = s[i])
                                  \/ (i = Len(s) + 1 /\ t[i] = "disconnect")
        /\ Len(s) + 1 \in DOMAIN t /\ t[Len(s) + 1] = "disconnect"
    BY <1>1, <1>2
  <1> HIDE DEF t
  <1>4. Fits(c, t)
    BY <1>3 DEF Fits, Answers
  <1>5. ~Accepted(t) /\ Told(t)
    BY <1>3 DEF Accepted, Told
  <1>6. Pending(c, t) => Pending(c, s)
    BY <1>3 DEF Pending, Answers
  <1> QED
    BY <1>4, <1>5, <1>6 DEF t

LEMMA MessageFits ==
  ASSUME NEW c \in Seq(Out), NEW s \in Seq(In), s # <<>>, Fits(c, s)
  PROVE  /\ Fits(c, Tail(s))
         /\ Pending(c, Tail(s)) => Pending(c, s)
         /\ Accepted(Tail(s)) => Accepted(s)
         /\ Told(s) /\ Head(s) # "disconnect" => Told(Tail(s))
         /\ Head(s) \in Answers => c = <<>> /\ ~Pending(c, Tail(s)) /\ Pending(c, s)
         /\ Head(s) = "connect" => Accepted(s) \/ Told(Tail(s))
  <1> DEFINE r == Tail(s)
  <1>1. /\ \A i \in DOMAIN r : i \in Nat \ {0} /\ i + 1 \in DOMAIN s /\ r[i] = s[i + 1]
        /\ \A i \in DOMAIN s : i \in Nat \ {0} /\ (i = 1 \/ (i - 1 \in DOMAIN r /\ r[i - 1] = s[i]))
        /\ 1 \in DOMAIN s /\ s[1] = Head(s)
    BY TailIs
  <1> HIDE DEF r
  <1>2. Fits(c, r)
    BY <1>1 DEF Fits
  <1>3. Pending(c, r) => Pending(c, s)
    BY <1>1 DEF Pending
  <1>4. Accepted(r) => Accepted(s)
    <2> SUFFICES ASSUME NEW i \in DOMAIN r, r[i] = "connect",
                        \A j \in DOMAIN r : i < j => r[j] # "disconnect"
                 PROVE  Accepted(s)
      BY DEF Accepted
    <2>1. ASSUME NEW j \in DOMAIN s, i + 1 < j PROVE s[j] # "disconnect"
      <3>1. j \in Nat /\ i \in Nat \ {0} /\ j - 1 \in DOMAIN r /\ r[j - 1] = s[j]
        BY <1>1, <2>1
      <3>2. i < j - 1
        BY <2>1, <3>1
      <3> QED
        BY <3>1, <3>2
    <2> QED
      BY <1>1, <2>1 DEF Accepted
  <1>5. Told(s) /\ Head(s) # "disconnect" => Told(r)
    BY <1>1 DEF Told
  <1>6. Head(s) \in Answers => c = <<>> /\ ~Pending(c, r) /\ Pending(c, s)
    BY <1>1 DEF Fits, Pending
  <1>7. ASSUME Head(s) = "connect", ~Told(r)
        PROVE  Accepted(s)
    <2>1. ASSUME NEW j \in DOMAIN s, 1 < j PROVE s[j] # "disconnect"
      BY <1>1, <1>7, <2>1 DEF Told
    <2> QED
      BY <1>1, <1>7, <2>1 DEF Accepted
  <1> QED
    BY <1>2, <1>3, <1>4, <1>5, <1>6, <1>7 DEF r

-----------------------------------------------------------------------------
(* The second invariant is kept.                                           *)

LEMMA AInvInit == Init => AInv
  BY DEF Init, AInv, NoLink, JoinWaits, Agreement

\* An open client has its link, and the queues have their types.
LEMMA OpenState ==
  ASSUME IInv
  PROVE  /\ conState = "opened" => link = "up"
         /\ \A n \in Nsps : c2s[n] \in Seq(Out) /\ s2c[n] \in Seq(In)
         /\ c2s \in Outs /\ s2c \in Ins
         /\ connected \subseteq reg /\ rejected \subseteq reg
         /\ \A n \in Nsps \ reg : timer[n] = "none"
         /\ timer \in [Nsps -> Waits] /\ reg \subseteq Nsps
  BY DEF IInv, TypeOK, StateFitsLink, Out, In, Outs, Ins

LEMMA NoLinkStep ==
  ASSUME IInv, NoLink, Next
  PROVE  NoLink'
  <1>1. CASE Connect \/ Disconnect \/ Redial \/ OnFail \/ CloseImpl
    BY <1>1 DEF NoLink, IInv, TypeOK, StateFitsLink, Connect, Disconnect, Redial, OnFail,
                CloseImpl, netVars
  <1>2. CASE OnOpen
    BY <1>2 DEF NoLink, OnOpen
  <1>3. CASE OnClose
    BY <1>3 DEF NoLink, OnClose
  <1>4. ASSUME NEW m \in Nsps, Touch(m) \/ JoinNamespace(m) \/ LeaveNamespace(m)
        PROVE  NoLink'
    BY <1>4 DEF NoLink, IInv, StateFitsLink, Touch, JoinNamespace, LeaveNamespace, SocketConnect,
                SocketClose, SendConnect, Send, NothingSent, clientVars
  <1>5. ASSUME NEW m \in Nsps, OnMessage(m) \/ ServerTakes(m) \/ ServerDisconnects(m)
        PROVE  NoLink'
    BY <1>5 DEF NoLink, OnMessage, ServerTakes, ServerDisconnects, clientVars
  <1>6. ASSUME NEW m \in Nsps, WaitExpires(m) \/ TimeoutConnection(m) \/ DeferredClose(m)
        PROVE  NoLink'
    BY <1>6 DEF NoLink, WaitExpires, TimeoutConnection, DeferredClose, SocketOnClose, clientVars,
                netVars
  <1> QED
    BY <1>1, <1>2, <1>3, <1>4, <1>5, <1>6 DEF Next

LEMMA JoinWaitsStep ==
  ASSUME IInv, JoinWaits, Next
  PROVE  JoinWaits'
  <1> SUFFICES ASSUME conState' = "opened", NEW n \in reg' \ (connected' \cup rejected')
               PROVE  timer'[n] # "none"
    BY DEF JoinWaits
  <1>0. /\ timer \in [Nsps -> Waits] /\ reg \subseteq Nsps
        /\ connected \subseteq reg /\ rejected \subseteq reg
        /\ \A k \in Nsps \ reg : timer[k] = "none"
    BY OpenState
  <1>1. CASE Connect \/ Disconnect \/ Redial \/ OnFail \/ CloseImpl \/ OnClose
    BY <1>1 DEF IInv, StateFitsLink, Connect, Disconnect, Redial, OnFail, CloseImpl, OnClose
  <1>2. CASE OnOpen
    BY <1>0, <1>2, RootAssumption DEF OnOpen, OpenAll
  <1>3. ASSUME NEW m \in Nsps, Touch(m)
        PROVE  timer'[n] # "none"
    BY <1>0, <1>3 DEF JoinWaits, Touch, SendConnect, clientVars
  <1>4. ASSUME NEW m \in Nsps, JoinNamespace(m)
        PROVE  timer'[n] # "none"
    BY <1>0, <1>4 DEF JoinWaits, JoinNamespace, SocketConnect, SendConnect, NothingSent, clientVars
  <1>5. ASSUME NEW m \in Nsps, LeaveNamespace(m)
        PROVE  timer'[n] # "none"
    BY <1>0, <1>5 DEF JoinWaits, LeaveNamespace, SocketClose, SendConnect, clientVars
  <1>6. ASSUME NEW m \in Nsps, OnMessage(m)
        PROVE  timer'[n] # "none"
    BY <1>0, <1>6 DEF JoinWaits, OnMessage, SocketOnConnected, SocketOnClose, SocketOnError,
                      clientVars, sockVars
  <1>7. ASSUME NEW m \in Nsps, WaitExpires(m) \/ TimeoutConnection(m) \/ DeferredClose(m)
        PROVE  timer'[n] # "none"
    BY <1>0, <1>7 DEF JoinWaits, WaitExpires, TimeoutConnection, DeferredClose, SocketOnClose,
                      clientVars
  <1>8. ASSUME NEW m \in Nsps, ServerTakes(m) \/ ServerDisconnects(m)
        PROVE  timer'[n] # "none"
    BY <1>8 DEF JoinWaits, ServerTakes, ServerDisconnects, clientVars, sockVars
  <1> QED
    BY <1>1, <1>2, <1>3, <1>4, <1>5, <1>6, <1>7, <1>8 DEF Next

\* A namespace a step does not touch still agrees.
LEMMA AgreesFrame ==
  ASSUME NEW n \in Nsps, Agrees(n),
         c2s'[n] = c2s[n], s2c'[n] = s2c[n], n \in members' <=> n \in members,
         n \in connected' => n \in connected \ (leaving \ leaving'),
         n \in connected' \cup rejected' \/ n \notin reg'
             => n \in connected \cup rejected \/ n \notin reg
  PROVE  Agrees(n)'
  BY DEF Agrees

\* A CONNECT sent when none is pending,
LEMMA AgreesConnect ==
  ASSUME IInv, NEW n \in Nsps, Agrees(n), ~Pending(c2s[n], s2c[n]),
         c2s'[n] = Append(c2s[n], "connect"), s2c'[n] = s2c[n], members' = members,
         n \notin connected' \cup rejected', n \in reg'
  PROVE  Agrees(n)'
  <1>1. Fits(Append(c2s[n], "connect"), s2c[n])
    BY OpenState, SendFits
  <1> QED
    BY <1>1 DEF Agrees

\* a leave of a connected namespace,
LEMMA AgreesLeave ==
  ASSUME IInv, NEW n \in Nsps, Agrees(n), n \in connected,
         c2s'[n] = Append(c2s[n], "disconnect"), s2c'[n] = s2c[n], members' = members,
         n \in leaving'
  PROVE  Agrees(n)'
  <1>1. ~Pending(c2s[n], s2c[n])
    BY DEF Agrees
  <1>2. /\ Fits(Append(c2s[n], "disconnect"), s2c[n])
        /\ ~Pending(Append(c2s[n], "disconnect"), s2c[n])
    BY <1>1, OpenState, SendFits
  <1> QED
    BY <1>2 DEF Agrees

\* a namespace torn down: connected, or else exempt from now on,
LEMMA AgreesClosed ==
  ASSUME IInv, NEW n \in Nsps, Agrees(n), link = "up", n \notin late', SocketOnClose(n),
         c2s' = c2s, s2c'[n] = s2c[n], members' = members
  PROVE  Agrees(n)'
  <1>1. n \in connected
    BY DEF SocketOnClose
  <1> QED
    BY <1>1 DEF Agrees, SocketOnClose

\* and a packet of the server handled.
LEMMA AgreesMessage ==
  ASSUME IInv, NEW n \in Nsps, Agrees(n), n \notin late', OnMessage(n)
  PROVE  Agrees(n)'
  <1> DEFINE c == c2s[n]
             s == s2c[n]
  <1>1. c2s'[n] = c /\ s2c'[n] = Tail(s) /\ members' = members /\ link = "up" /\ s # <<>>
    BY OpenState DEF OnMessage, Ins
  <1>2. /\ Fits(c, Tail(s))
        /\ Pending(c, Tail(s)) => Pending(c, s)
        /\ Accepted(Tail(s)) => Accepted(s)
        /\ Told(s) /\ Head(s) # "disconnect" => Told(Tail(s))
        /\ Head(s) \in Answers => c = <<>> /\ ~Pending(c, Tail(s)) /\ Pending(c, s)
        /\ Head(s) = "connect" => Accepted(s) \/ Told(Tail(s))
    BY <1>1, OpenState, MessageFits DEF Agrees
  <1>3. CASE n \notin reg
    <2>1. reg' = reg /\ connected' = connected /\ n \notin connected
      BY <1>3, OpenState DEF OnMessage, sockVars
    <2> QED
      BY <1>1, <1>2, <1>3, <2>1 DEF Agrees
  <1>4. CASE n \in reg /\ Head(s) = "connect" /\ SocketOnConnected(n)
    <2>1. ~Pending(c, Tail(s)) /\ c = <<>>
      BY <1>2, <1>4 DEF Answers
    <2> QED
      BY <1>1, <1>2, <1>4, <2>1 DEF Agrees
  <1>5. CASE n \in reg /\ Head(s) = "disconnect" /\ SocketOnClose(n)
    <2>1. n \in connected /\ n \notin connected'
      BY <1>1, <1>5 DEF SocketOnClose
    <2> QED
      BY <1>1, <1>2, <2>1 DEF Agrees
  <1>6. CASE n \in reg /\ Head(s) = "error" /\ SocketOnError(n)
    <2>1. ~Pending(c, Tail(s)) /\ Pending(c, s)
      BY <1>2, <1>6 DEF Answers
    <2>2. n \notin connected' /\ reg' = reg
      BY <1>6, <2>1 DEF Agrees, SocketOnError
    <2> QED
      BY <1>1, <1>2, <2>1, <2>2 DEF Agrees
  <1> QED
    BY <1>3, <1>4, <1>5, <1>6 DEF OnMessage

\* The server takes a packet,
LEMMA AgreesTaken ==
  ASSUME IInv, NEW n \in Nsps, Agrees(n), ServerTakes(n)
  PROVE  Agrees(n)'
  <1> DEFINE c == c2s[n]
             s == s2c[n]
  <1>1. /\ c2s'[n] = Tail(c) /\ c # <<>>
        /\ reg' = reg /\ connected' = connected /\ rejected' = rejected /\ leaving' = leaving
    BY OpenState DEF ServerTakes, Outs, sockVars
  <1>2. /\ Fits(Tail(c), s) /\ ~Accepted(s)
        /\ Pending(Tail(c), s) => Pending(c, s)
        /\ Head(c) = "connect" =>
              /\ Tail(c) = <<>> /\ Pending(c, s)
              /\ \A a \in Answers : Fits(<<>>, Append(s, a))
              /\ ~Accepted(Append(s, "error"))
    BY <1>1, OpenState, TakeFits DEF Agrees
  <1>3. CASE Head(c) = "connect" /\ Answer(n, "connect") /\ members' = members \cup {n}
    <2>1. s2c'[n] = Append(s, "connect") /\ n \in members'
      BY <1>3, OpenState DEF Answer, Ins
    <2>2. Fits(<<>>, Append(s, "connect")) /\ Tail(c) = <<>> /\ Pending(c, s)
      BY <1>2, <1>3 DEF Answers
    <2> QED
      BY <1>1, <2>1, <2>2 DEF Agrees
  <1>4. CASE Head(c) = "connect" /\ Answer(n, "error")
    <2>1. s2c'[n] = Append(s, "error")
      BY <1>4, OpenState DEF Answer, Ins
    <2>2. /\ Fits(<<>>, Append(s, "error")) /\ Tail(c) = <<>> /\ Pending(c, s)
          /\ ~Accepted(Append(s, "error"))
      BY <1>2, <1>4 DEF Answers
    <2> QED
      BY <1>1, <2>1, <2>2 DEF Agrees
  <1>5. CASE Head(c) = "connect" /\ UNCHANGED <<s2c, members>>
    BY <1>1, <1>2, <1>5 DEF Agrees
  <1>6. CASE Head(c) = "disconnect" /\ UNCHANGED s2c
    BY <1>1, <1>2, <1>6 DEF Agrees
  <1> QED
    BY <1>3, <1>4, <1>5, <1>6 DEF ServerTakes

\* or disconnects the namespace.
LEMMA AgreesTold ==
  ASSUME IInv, NEW n \in Nsps, Agrees(n), ServerDisconnects(n)
  PROVE  Agrees(n)'
  <1> DEFINE c == c2s[n]
             s == s2c[n]
  <1>1. /\ c2s'[n] = c /\ s2c'[n] = Append(s, "disconnect")
        /\ reg' = reg /\ connected' = connected /\ rejected' = rejected /\ leaving' = leaving
    BY OpenState DEF ServerDisconnects, Answer, Ins, sockVars
  <1>2. /\ Fits(c, Append(s, "disconnect"))
        /\ ~Accepted(Append(s, "disconnect")) /\ Told(Append(s, "disconnect"))
        /\ Pending(c, Append(s, "disconnect")) => Pending(c, s)
    BY OpenState, ToldFits DEF Agrees
  <1> QED
    BY <1>1, <1>2 DEF Agrees

\* A namespace the program sends for or tears down, and all the others.
LEMMA AgreementStep ==
  ASSUME IInv, AInv, Next, StateFitsLink'
  PROVE  Agreement'
  <1> SUFFICES ASSUME conState' = "opened", NEW n \in Nsps \ late'
               PROVE  Agrees(n)'
    BY DEF Agreement
  <1>0. /\ conState = "opened" => link = "up"
        /\ c2s \in Outs /\ s2c \in Ins /\ timer \in [Nsps -> Waits]
        /\ connected \subseteq reg /\ rejected \subseteq reg /\ reg \subseteq Nsps
        /\ \A k \in Nsps \ reg : timer[k] = "none"
    BY OpenState
  <1>a. conState = "opened" /\ n \notin late => Agrees(n)
    BY DEF AInv, Agreement
  <1>1. CASE Connect \/ Disconnect \/ Redial \/ OnFail \/ CloseImpl \/ OnClose
    BY <1>1 DEF Connect, Disconnect, Redial, OnFail, CloseImpl, OnClose, IInv, StateFitsLink
  <1>2. CASE OnOpen
    <2>1. conState = "opening" /\ link = "dialing" /\ OpenAll /\ UNCHANGED <<s2c, members>>
      BY <1>2 DEF OnOpen
    <2>2. s2c = Silence /\ members = {} /\ connected = {}
      BY <2>1 DEF AInv, NoLink, IInv, ConnectedNeedsLink
    <2>3. /\ s2c'[n] = <<>> /\ connected' = {}
          /\ \/ c2s'[n] = <<>>
             \/ c2s'[n] = <<"connect">> /\ n \notin connected' \cup rejected' /\ n \in reg'
      BY <1>0, <2>1, <2>2 DEF OpenAll, Silence
    <2> QED
      BY <2>2, <2>3, SilenceFits DEF Agrees
  <1>3. ASSUME NEW m \in Nsps, Touch(m)
        PROVE  Agrees(n)'
    <2>1. /\ conState = "opened" /\ Agrees(n) /\ SendConnect(m) /\ m \notin reg
          /\ reg' = reg \cup {m} /\ connected' = connected /\ rejected' = rejected
          /\ s2c' = s2c /\ members' = members
      BY <1>3, <1>a DEF Touch, clientVars
    <2>2. /\ c2s' = [c2s EXCEPT ![m] = Append(@, "connect")]
          /\ leaving' = leaving \ {m}
      BY <2>1 DEF SendConnect, Send
    <2>3. CASE n = m
      <3>1. c2s'[n] = Append(c2s[n], "connect") /\ ~Pending(c2s[n], s2c[n])
        BY <1>0, <2>1, <2>2, <2>3 DEF Outs, Agrees
      <3> QED
        BY <1>0, <2>1, <2>3, <3>1, AgreesConnect
    <2>4. CASE n # m
      BY <1>0, <2>1, <2>2, <2>4, AgreesFrame DEF Outs
    <2> QED
      BY <2>3, <2>4
  <1>4. ASSUME NEW m \in Nsps, JoinNamespace(m)
        PROVE  Agrees(n)'
    <2>1. /\ conState = "opened" /\ Agrees(n)
          /\ reg' = reg \cup {m} /\ connected' = connected /\ rejected' = rejected \ {m}
          /\ s2c' = s2c /\ members' = members
      BY <1>4, <1>a DEF JoinNamespace, SocketConnect, clientVars
    <2>2. CASE m \notin connected /\ timer[m] = "none"
      <3>1. /\ c2s' = [c2s EXCEPT ![m] = Append(@, "connect")]
            /\ leaving' = leaving \ {m}
        BY <1>4, <2>1, <2>2 DEF JoinNamespace, SocketConnect, SendConnect, Send
      <3>2. CASE n = m
        <4>1. m \notin reg \/ m \in rejected
          BY <2>1, <2>2 DEF AInv, JoinWaits
        <4>2. c2s'[n] = Append(c2s[n], "connect") /\ ~Pending(c2s[n], s2c[n])
          BY <1>0, <2>1, <3>1, <3>2, <4>1 DEF Outs, Agrees
        <4> QED
          BY <2>1, <2>2, <3>2, <4>2, AgreesConnect
      <3>3. CASE n # m
        BY <1>0, <2>1, <3>1, <3>3, AgreesFrame DEF Outs
      <3> QED
        BY <3>2, <3>3
    <2>3. CASE ~(m \notin connected /\ timer[m] = "none")
      <3>1. UNCHANGED <<c2s, leaving>>
        BY <1>4, <2>1, <2>3 DEF JoinNamespace, SocketConnect, NothingSent
      <3>2. m \in reg
        BY <1>0, <2>3
      <3> QED
        BY <2>1, <2>3, <3>1, <3>2, AgreesFrame
    <2> QED
      BY <2>2, <2>3
  <1>5. ASSUME NEW m \in Nsps, LeaveNamespace(m)
        PROVE  Agrees(n)'
    <2>1. /\ conState = "opened" /\ Agrees(n)
          /\ reg' = reg \cup {m} /\ connected' = connected /\ rejected' = rejected
          /\ s2c' = s2c /\ members' = members
      BY <1>5, <1>a DEF LeaveNamespace, clientVars
    <2>2. CASE m \notin reg
      <3>1. /\ c2s' = [c2s EXCEPT ![m] = Append(@, "connect")]
            /\ leaving' = leaving \ {m}
        BY <1>5, <2>1, <2>2 DEF LeaveNamespace, SendConnect, Send
      <3>2. CASE n = m
        <4>1. c2s'[n] = Append(c2s[n], "connect") /\ ~Pending(c2s[n], s2c[n])
          BY <1>0, <2>1, <2>2, <3>1, <3>2 DEF Outs, Agrees
        <4> QED
          BY <1>0, <2>1, <2>2, <3>2, <4>1, AgreesConnect
      <3>3. CASE n # m
        BY <1>0, <2>1, <3>1, <3>3, AgreesFrame DEF Outs
      <3> QED
        BY <3>2, <3>3
    <2>3. CASE m \in connected
      <3>1. /\ c2s' = [c2s EXCEPT ![m] = Append(@, "disconnect")]
            /\ leaving' = leaving \cup {m}
        BY <1>0, <1>5, <2>1, <2>3 DEF LeaveNamespace, SocketClose, Send
      <3>2. CASE n = m
        <4>1. c2s'[n] = Append(c2s[n], "disconnect") /\ n \in leaving'
          BY <1>0, <3>1, <3>2 DEF Outs
        <4> QED
          BY <2>1, <2>3, <3>2, <4>1, AgreesLeave
      <3>3. CASE n # m
        BY <1>0, <2>1, <3>1, <3>3, AgreesFrame DEF Outs
      <3> QED
        BY <3>2, <3>3
    <2>4. CASE m \in reg \ connected
      <3>1. UNCHANGED <<c2s, leaving>>
        BY <1>5, <2>1, <2>4 DEF LeaveNamespace, SocketClose
      <3> QED
        BY <2>1, <2>4, <3>1, AgreesFrame
    <2> QED
      BY <2>2, <2>3, <2>4
  <1>6. ASSUME NEW m \in Nsps, OnMessage(m)
        PROVE  Agrees(n)'
    <2>1. conState = "opened" /\ link = "up" /\ late \subseteq late' /\ Agrees(n)
      BY <1>6, <1>a DEF OnMessage, SocketOnConnected, SocketOnClose, SocketOnError, clientVars
    <2>2. CASE n = m
      BY <1>6, <2>1, <2>2, AgreesMessage
    <2>3. CASE n # m
      <3>1. s2c'[n] = s2c[n] /\ c2s' = c2s /\ members' = members
        BY <1>0, <1>6, <2>3 DEF OnMessage, Ins
      <3>2. /\ n \in connected' <=> n \in connected
            /\ n \in rejected' <=> n \in rejected
            /\ n \in leaving' <=> n \in leaving
            /\ n \in reg' <=> n \in reg
        BY <1>6, <2>3 DEF OnMessage, SocketOnConnected, SocketOnClose, SocketOnError, sockVars
      <3> QED
        BY <2>1, <3>1, <3>2, AgreesFrame
    <2> QED
      BY <2>2, <2>3
  <1>7. ASSUME NEW m \in Nsps, WaitExpires(m)
        PROVE  Agrees(n)'
    <2>1. /\ conState = "opened" /\ Agrees(n)
          /\ UNCHANGED <<c2s, s2c, members, reg, connected, rejected, leaving>>
      BY <1>7, <1>a DEF WaitExpires, clientVars, netVars
    <2> QED
      BY <2>1, AgreesFrame
  <1>8. ASSUME NEW m \in Nsps, TimeoutConnection(m) \/ DeferredClose(m)
        PROVE  Agrees(n)'
    <2>1. /\ conState = "opened" /\ link = "up" /\ late \subseteq late' /\ Agrees(n)
          /\ SocketOnClose(m) /\ UNCHANGED <<c2s, s2c, members>>
      BY <1>0, <1>8, <1>a DEF TimeoutConnection, DeferredClose, SocketOnClose, clientVars
    <2>2. CASE n = m
      BY <2>1, <2>2, AgreesClosed
    <2>3. CASE n # m
      <3>1. /\ n \in connected' <=> n \in connected
            /\ n \in rejected' <=> n \in rejected
            /\ n \in leaving' <=> n \in leaving
            /\ n \in reg' <=> n \in reg
        BY <2>1, <2>3 DEF SocketOnClose
      <3> QED
        BY <2>1, <3>1, AgreesFrame
    <2> QED
      BY <2>2, <2>3
  <1>9. ASSUME NEW m \in Nsps, ServerTakes(m) \/ ServerDisconnects(m)
        PROVE  Agrees(n)'
    <2>1. /\ conState = "opened" /\ Agrees(n)
          /\ UNCHANGED <<reg, connected, rejected, leaving>>
      BY <1>9, <1>a DEF ServerTakes, ServerDisconnects, clientVars, sockVars
    <2>2. CASE n = m
      BY <1>9, <2>1, <2>2, AgreesTaken, AgreesTold
    <2>3. CASE n # m
      <3>1. /\ c2s'[n] = c2s[n] /\ s2c'[n] = s2c[n]
            /\ n \in members' <=> n \in members
        BY <1>0, <1>9, <2>3 DEF ServerTakes, ServerDisconnects, Answer, Outs, Ins
      <3> QED
        BY <2>1, <3>1, AgreesFrame
    <2> QED
      BY <2>2, <2>3
  <1> QED
    BY <1>1, <1>2, <1>3, <1>4, <1>5, <1>6, <1>7, <1>8, <1>9 DEF Next

\* Every step keeps the second invariant, given the first.
LEMMA AInvStep == IInv /\ IInv' /\ AInv /\ [Next]_vars => AInv'
  <1> SUFFICES ASSUME IInv, IInv', AInv, [Next]_vars
               PROVE  AInv'
    OBVIOUS
  <1>1. CASE Next
    BY <1>1, NoLinkStep, JoinWaitsStep, AgreementStep DEF AInv, IInv
  <1>2. CASE UNCHANGED vars
    BY <1>2 DEF AInv, NoLink, JoinWaits, Agreement, Agrees, vars, clientVars, sockVars, netVars
  <1> QED
    BY <1>1, <1>2

-----------------------------------------------------------------------------
(* The properties.                                                         *)

\* The inductive invariant of the namespaces holds in every reachable state.
THEOREM SocketInvariance == Spec => []IInv
  BY InvInit, InvStep, PTL DEF Spec

\* Every variable of the namespaces keeps its type.
THEOREM SocketTypes == Spec => []TypeOK
  <1>1. IInv => TypeOK
    BY DEF IInv
  <1> QED
    BY <1>1, SocketInvariance, PTL

\* A namespace is connected only over a live connection (on_disconnect reaches
\* every namespace whenever the transport goes).
THEOREM ConnectedOverLink == Spec => []ConnectedNeedsLink
  <1>1. IInv => ConnectedNeedsLink
    BY DEF IInv
  <1> QED
    BY <1>1, SocketInvariance, PTL

\* No order of calls, packets and expiring waits leaves a namespace of an open
\* client neither connected, nor rejected, nor waited for.
THEOREM EveryJoinWatched == Spec => []JoinIsWatched
  <1>1. IInv => JoinIsWatched
    BY DEF IInv
  <1> QED
    BY <1>1, SocketInvariance, PTL

\* Nothing but connect() makes the client send a CONNECT for a rejected namespace.
THEOREM RejectionStands == Spec => RejectionHolds
  <1>1. ASSUME IInv, [Next]_vars
        PROVE  [\A n \in rejected \cap rejected' : ~Sends(n, "connect")]_vars
    <2>1. CASE Next
      <3> SUFFICES ASSUME NEW n \in rejected \cap rejected'
                   PROVE  ~Sends(n, "connect")
        OBVIOUS
      <3>1. c2s[n] \in Seq(Out)
        BY <1>1 DEF IInv, TypeOK, Out
      <3> QED
        BY <1>1, <2>1, <3>1, RejectedQueue, NotSent DEF Sends
    <2>2. CASE UNCHANGED vars
      BY <2>2
    <2> QED
      BY <1>1, <2>1, <2>2
  <1> QED
    BY <1>1, SocketInvariance, PTL DEF Spec, RejectionHolds

\* The client's view of an open connection and the packets in flight fit the
\* server's view, namespace by namespace.
THEOREM AgreementInvariance == Spec => []AInv
  BY AInvInit, AInvStep, SocketInvariance, PTL DEF Spec

\* Once no packet of a namespace is in flight, the client holds it connected only
\* if the server does, unless the client gave up on a CONNECT of it
\* (timeout_connection, or a disconnect while unanswered).
THEOREM Settles == Spec => []SettledAgreement
  <1>1. IInv /\ AInv => SettledAgreement
    <2>1. ~Told(<<>>)
      BY DEF Told
    <2> QED
      BY <2>1 DEF SettledAgreement, IInv, TypeOK, AInv, Agreement, Agrees
  <1> QED
    BY <1>1, SocketInvariance, AgreementInvariance, PTL

=============================================================================
