------------------------------ MODULE SioEmit ------------------------------
(***************************************************************************)
(* Packets of one namespace on their way to the server (sio_socket.cpp     *)
(* emit, send_packet, on_connected, on_disconnect, on_socketio_ack;        *)
(* packet_manager::encode; client_impl's on_encode and send_impl).         *)
(*                                                                         *)
(* Application threads emit.  A packet is queued while the namespace is    *)
(* not connected; on_connected and later emits drain that queue.  Each     *)
(* payload (the text, and the attachment of a binary packet) is dispatched *)
(* to the io_service on its own: an application thread's waits its turn,   *)
(* the network thread's goes out at once.                                  *)
(***************************************************************************)
EXTENDS Naturals, FiniteSets, Sequences, SequencesExt

CONSTANTS Threads,     \* application threads
          Packets,     \* what they emit, each once
          Binary,      \* the packets with an attachment
          Acked,       \* the packets emitted with a callback
          None,        \* no packet
          MaxDrops,    \* bounds the drops of the transport
          MaxEvents,   \* bounds the events that want a reply
          MaxAnswers   \* bounds the answers to one packet

ASSUME PacketsAssumption ==
    /\ Binary \subseteq Packets /\ Acked \subseteq Packets /\ None \notin Packets \cup Threads
    /\ IsFiniteSet(Packets)
ASSUME BoundsAssumption  == MaxDrops \in Nat /\ MaxEvents \in Nat /\ MaxAnswers \in Nat

VARIABLES
    opened,     \* m_con_state = con_opened, as send_impl reads it
    connected,  \* m_connected
    queue,      \* m_packet_queue
    eventId,    \* s_global_event_id
    acks,       \* m_acks: the packet whose callback waits for an id
    idOf,       \* the id a packet went out with
    call,       \* where a thread is inside emit
    net,        \* where the network thread is inside a handler
    io,         \* the io_service's queue
    wire,       \* what the server gets
    drops, events, answers,  \* counted for the bounds
    emitted,    \* history: what each thread emitted
    called,     \* history: the callbacks called, for whose answer
    handled,    \* history: the answers handled
    mixed,      \* history: a drain went on while another packet was on its way
    twice       \* history: two emits took an id at the same time

sockVars == <<connected, queue>>
ackVars  == <<eventId, acks, idOf>>
bounds   == <<drops, events, answers>>
history  == <<emitted, called, handled, mixed, twice>>
vars     == <<opened, sockVars, ackVars, call, net, io, wire, bounds, history>>

Ids == 1 .. Cardinality(Packets)

Payloads == [kind : {"text", "attachment"}, p : Packets \cup {None}]
Reads    == [kind : {"accept", "event", "answer", "drop"}, p : Packets \cup {None}]
Opening  == [kind |-> "open", p |-> None]  \* a new connection begins

Calls == [at   : {"idle", "count", "register", "route", "push", "drain", "send", "attach"},
          mine : Packets \cup {None},     \* the packet of this emit
          id   : Ids \cup {0},
          now  : Packets \cup {None}]     \* the one being sent

NoCall == [at |-> "idle", mine |-> None, id |-> 0, now |-> None]

TypeOK ==
    /\ opened \in BOOLEAN /\ connected \in BOOLEAN
    /\ queue \in Seq(Packets)
    /\ eventId \in Ids \cup {Cardinality(Packets) + 1}
    /\ acks \in [Ids -> Acked \cup {None}]
    /\ idOf \in [Packets -> Ids \cup {0}]
    /\ call \in [Threads -> Calls]
    /\ net \in {"idle", "drain", "drainReply", "clear"}
    /\ io \in Seq(Payloads \cup Reads)
    /\ wire \in Seq(Payloads \cup {Opening})
    /\ drops \in 0 .. MaxDrops /\ events \in 0 .. MaxEvents
    /\ answers \in [Acked -> 0 .. MaxAnswers]
    /\ emitted \in [Threads -> Seq(Packets)]
    /\ called \in Seq(Acked \X Acked)
    /\ handled \subseteq Acked
    /\ mixed \in BOOLEAN /\ twice \in BOOLEAN

Init ==
    /\ opened = TRUE /\ connected = FALSE
    /\ queue = <<>>
    /\ eventId = 1
    /\ acks = [i \in Ids |-> None]
    /\ idOf = [p \in Packets |-> 0]
    /\ call = [t \in Threads |-> NoCall]
    /\ net = "idle"
    /\ io = <<>> /\ wire = <<>>
    /\ drops = 0 /\ events = 0
    /\ answers = [p \in Acked |-> 0]
    /\ emitted = [t \in Threads |-> <<>>]
    /\ called = <<>> /\ handled = {}
    /\ mixed = FALSE /\ twice = FALSE

-----------------------------------------------------------------------------
(* emit on an application thread.                                          *)

Goes(t, at) == call' = [call EXCEPT ![t].at = at]

Emit(t) ==
    /\ call[t] = NoCall
    /\ \E p \in Packets :
          /\ \A u \in Threads : p \notin ToSet(emitted[u])
          /\ emitted' = [emitted EXCEPT ![t] = Append(@, p)]
          /\ call' = [call EXCEPT ![t] =
                         [NoCall EXCEPT !.at = IF p \in Acked THEN "count" ELSE "route", !.mine = p]]
    /\ UNCHANGED <<opened, sockVars, ackVars, net, io, wire, bounds, called, handled, mixed, twice>>

\* s_global_event_id++ is a read and a write: nothing synchronises it.
ReadId(t) ==
    /\ call[t].at = "count" /\ call[t].id = 0
    /\ call' = [call EXCEPT ![t].id = eventId]
    /\ twice' = (twice \/ \E u \in Threads : call[u].at = "count" /\ call[u].id # 0)
    /\ UNCHANGED <<opened, sockVars, ackVars, net, io, wire, bounds, emitted, called, handled, mixed>>

WriteId(t) ==
    /\ call[t].at = "count" /\ call[t].id # 0
    /\ eventId' = call[t].id + 1
    /\ Goes(t, "register")
    /\ UNCHANGED <<opened, sockVars, acks, idOf, net, io, wire, bounds, history>>

\* (mutant) the packet goes out with the id before the registered one.
RegisterOffByOne(t) ==
    /\ call[t].at = "register"
    /\ acks' = [acks EXCEPT ![call[t].id + 1] = call[t].mine]
    /\ idOf' = [idOf EXCEPT ![call[t].mine] = call[t].id]
    /\ Goes(t, "route")
    /\ UNCHANGED <<opened, sockVars, eventId, net, io, wire, bounds, history>>

\* m_acks[pack_id] = ack, under m_event_mutex.
Register(t) ==
    LET c == call[t]
    IN  /\ c.at = "register"
        /\ acks' = [acks EXCEPT ![c.id] = c.mine]
        /\ idOf' = [idOf EXCEPT ![c.mine] = c.id]
        /\ Goes(t, "route")
        /\ UNCHANGED <<opened, sockVars, eventId, net, io, wire, bounds, history>>

\* send_packet reads m_connected...
Route(t) ==
    /\ call[t].at = "route"
    /\ Goes(t, IF connected THEN "drain" ELSE "push")
    /\ UNCHANGED <<opened, sockVars, ackVars, net, io, wire, bounds, history>>

\* ...and queues the packet, whatever m_connected is by now...
Push(t) ==
    /\ call[t].at = "push"
    /\ queue' = Append(queue, call[t].mine)
    /\ call' = [call EXCEPT ![t] = NoCall]
    /\ UNCHANGED <<opened, connected, ackVars, net, io, wire, bounds, history>>

\* Another thread holds a packet it popped and has not passed on.
HeldByOther(t) == \E u \in Threads \ {t} : call[u].at \in {"send", "attach"}

\* (mutant) the front is sent and not popped.
DrainKept(t) ==
    /\ call[t].at = "drain"
    /\ call' = [call EXCEPT ![t].at = "send",
                           ![t].now = IF queue = <<>> THEN call[t].mine ELSE Head(queue)]
    /\ mixed' = (mixed \/ HeldByOther(t))
    /\ UNCHANGED <<opened, sockVars, ackVars, net, io, wire, bounds, emitted, called, handled, twice>>

\* (mutant) a connected namespace does not look into the queue.
DrainSkipped(t) ==
    /\ call[t].at = "drain"
    /\ call' = [call EXCEPT ![t].at = "send", ![t].now = call[t].mine]
    /\ mixed' = (mixed \/ HeldByOther(t))
    /\ UNCHANGED <<opened, sockVars, ackVars, net, io, wire, bounds, emitted, called, handled, twice>>

\* ...or takes what is queued first, one packet at a time, and then its own.
Drain(t) ==
    /\ call[t].at = "drain"
    /\ IF queue = <<>>
       THEN /\ call' = [call EXCEPT ![t].at = "send", ![t].now = call[t].mine]
            /\ UNCHANGED queue
       ELSE /\ call' = [call EXCEPT ![t].at = "send", ![t].now = Head(queue)]
            /\ queue' = Tail(queue)
    /\ mixed' = (mixed \/ HeldByOther(t))
    /\ UNCHANGED <<opened, connected, ackVars, net, io, wire, bounds, emitted, called, handled, twice>>

\* (mutant) the call ends with any packet, also one of the queue.
PassedEnds(t) == call' = [call EXCEPT ![t] = NoCall]

\* A packet is passed on: the call ends with its own.
Passed(t) ==
    IF call[t].now = call[t].mine
    THEN call' = [call EXCEPT ![t] = NoCall]
    ELSE call' = [call EXCEPT ![t].at = "drain", ![t].now = None]

\* encode dispatches the text, then the attachment.
SendText(t) ==
    /\ call[t].at = "send"
    /\ io' = Append(io, [kind |-> "text", p |-> call[t].now])
    /\ IF call[t].now \in Binary THEN Goes(t, "attach") ELSE Passed(t)
    /\ UNCHANGED <<opened, sockVars, ackVars, net, wire, bounds, history>>

SendAttachment(t) ==
    /\ call[t].at = "attach"
    /\ io' = Append(io, [kind |-> "attachment", p |-> call[t].now])
    /\ Passed(t)
    /\ UNCHANGED <<opened, sockVars, ackVars, net, wire, bounds, history>>

-----------------------------------------------------------------------------
(* The network thread.                                                     *)

Takes(kind) == net = "idle" /\ io # <<>> /\ Head(io).kind = kind /\ io' = Tail(io)

\* send_impl drops what comes while the client is not open.
OnWire(payloads) == wire' = IF opened THEN wire \o payloads ELSE wire

PayloadsOf(p) ==
    IF p \in Binary
    THEN << [kind |-> "text", p |-> p], [kind |-> "attachment", p |-> p] >>
    ELSE << [kind |-> "text", p |-> p] >>

SendImpl ==
    /\ \E kind \in {"text", "attachment"} : Takes(kind)
    /\ OnWire(<<Head(io)>>)
    /\ UNCHANGED <<opened, sockVars, ackVars, call, net, bounds, history>>

OnConnected ==
    /\ Takes("accept")
    /\ connected' = TRUE
    /\ net' = IF connected THEN "idle" ELSE "drain"
    /\ UNCHANGED <<opened, queue, ackVars, call, wire, bounds, history>>

\* An event that wants a reply: ack() sends it like any packet, from this thread.
OnEvent ==
    /\ Takes("event")
    /\ net' = "drainReply"
    /\ UNCHANGED <<opened, sockVars, ackVars, call, wire, bounds, history>>

\* A packet of another thread waits in the io_service.
Posted == \E i \in DOMAIN io : io[i].kind \in {"text", "attachment"}

\* The network thread's own drain; what it pops goes out at once.
NetDrain ==
    /\ net \in {"drain", "drainReply"}
    /\ IF queue # <<>>
       THEN /\ OnWire(PayloadsOf(Head(queue)))
            /\ queue' = Tail(queue)
            /\ UNCHANGED net
       ELSE /\ net' = "idle"
            /\ OnWire(IF net = "drainReply" THEN PayloadsOf(None) ELSE <<>>)
            /\ UNCHANGED queue
    /\ mixed' = (mixed \/ HeldByOther(None) \/ Posted)
    /\ UNCHANGED <<opened, connected, ackVars, call, io, bounds, emitted, called, handled, twice>>

\* (mutant) the callback stays registered.
OnAckKept ==
    /\ Takes("answer")
    /\ LET p == Head(io).p
       IN  /\ called' = IF acks[idOf[p]] = None THEN called ELSE Append(called, <<acks[idOf[p]], p>>)
           /\ handled' = handled \cup {p}
    /\ UNCHANGED <<opened, sockVars, ackVars, call, net, wire, bounds, emitted, mixed, twice>>

\* (mutant) an id that is not registered is not expected.
OnAckUnchecked ==
    /\ Takes("answer")
    /\ LET p == Head(io).p
       IN  /\ called' = Append(called, <<acks[idOf[p]], p>>)
           /\ acks' = [acks EXCEPT ![idOf[p]] = None]
           /\ handled' = handled \cup {p}
    /\ UNCHANGED <<opened, sockVars, eventId, idOf, call, net, wire, bounds, emitted, mixed, twice>>

\* on_socketio_ack: the callback is taken out before it is called.
OnAck ==
    /\ Takes("answer")
    /\ LET p  == Head(io).p
           id == idOf[p]
       IN  /\ called' = IF acks[id] = None THEN called ELSE Append(called, <<acks[id], p>>)
           /\ acks' = [acks EXCEPT ![id] = None]
           /\ handled' = handled \cup {p}
    /\ UNCHANGED <<opened, sockVars, eventId, idOf, call, net, wire, bounds, emitted, mixed, twice>>

\* The transport closes: on_disconnect clears m_connected, then the queue.
OnDisconnect ==
    /\ Takes("drop")
    /\ opened' = FALSE /\ connected' = FALSE
    /\ net' = IF connected THEN "clear" ELSE "idle"
    /\ UNCHANGED <<queue, ackVars, call, wire, bounds, history>>

ClearQueue ==
    /\ net = "clear"
    /\ queue' = <<>>
    /\ net' = "idle"
    /\ UNCHANGED <<opened, connected, ackVars, call, io, wire, bounds, history>>

\* The next connection opens; its CONNECT goes out with it.
OnOpen ==
    /\ net = "idle" /\ ~opened
    /\ opened' = TRUE
    /\ wire' = Append(wire, Opening)
    /\ UNCHANGED <<sockVars, ackVars, call, net, io, bounds, history>>

-----------------------------------------------------------------------------
(* The server, whose packets are read in order.                            *)

Arrives(kind, p) == io' = Append(io, [kind |-> kind, p |-> p])

Reading(kind) == \E i \in DOMAIN io : io[i].kind = kind

\* Nothing is read behind the drop.
Up == opened /\ ~Reading("drop")

Accept ==
    /\ Up /\ ~connected /\ ~Reading("accept")
    /\ Arrives("accept", None)
    /\ UNCHANGED <<opened, sockVars, ackVars, call, net, wire, bounds, history>>

ServerEvent ==
    /\ Up /\ connected /\ events < MaxEvents
    /\ Arrives("event", None)
    /\ events' = events + 1
    /\ UNCHANGED <<opened, sockVars, ackVars, call, net, wire, drops, answers, history>>

\* The packet is complete on this connection.
Arrived(p) ==
    LET has(kind) == \E i \in DOMAIN wire :
                        /\ wire[i] = [kind |-> kind, p |-> p]
                        /\ \A j \in i .. Len(wire) : wire[j] # Opening
    IN  has("text") /\ (p \in Binary => has("attachment"))

ServerAnswers ==
    /\ Up
    /\ \E p \in Acked :
          /\ Arrived(p) /\ answers[p] < MaxAnswers
          /\ answers' = [answers EXCEPT ![p] = @ + 1]
          /\ Arrives("answer", p)
    /\ UNCHANGED <<opened, sockVars, ackVars, call, net, wire, drops, events, history>>

Drop ==
    /\ Up /\ drops < MaxDrops
    /\ Arrives("drop", None)
    /\ drops' = drops + 1
    /\ UNCHANGED <<opened, sockVars, ackVars, call, net, wire, events, answers, history>>

-----------------------------------------------------------------------------

Next ==
    \/ \E t \in Threads :
          \/ Emit(t) \/ ReadId(t) \/ WriteId(t) \/ Register(t)
          \/ Route(t) \/ Push(t) \/ Drain(t) \/ SendText(t) \/ SendAttachment(t)
    \/ SendImpl \/ OnConnected \/ OnEvent \/ NetDrain \/ OnAck
    \/ OnDisconnect \/ ClearQueue \/ OnOpen
    \/ Accept \/ ServerEvent \/ ServerAnswers \/ Drop

Spec == Init /\ [][Next]_vars

-----------------------------------------------------------------------------
(* Properties.                                                             *)

Places(p, kind) == {i \in DOMAIN wire : wire[i] = [kind |-> kind, p |-> p]}

\* No packet goes out twice, whoever drains the queue, over all connections.
SentOnce ==
    \A p \in Packets, kind \in {"text", "attachment"} : Cardinality(Places(p, kind)) <= 1

\* The server gets what a thread emits in the order it emitted it, as long as
\* no drain goes on while a packet of another thread is on its way.
SentInOrder ==
    ~mixed =>
        \A t \in Threads : \A i, j \in DOMAIN emitted[t] : i < j =>
            \A k \in Places(emitted[t][i], "text"), l \in Places(emitted[t][j], "text") : k < l

\* Nothing is lost while the transport lasts: whatever threads push, pop and
\* drain, an emitted packet is in somebody's hands, or queued, or its payloads
\* are dispatched or sent.
NoneLost ==
    drops = 0 =>
        \A t \in Threads : \A p \in ToSet(emitted[t]) :
            \/ \E u \in Threads : p \in {call[u].mine, call[u].now}
            \/ p \in ToSet(queue)
            \/ ToSet(PayloadsOf(p)) \subseteq ToSet(io \o wire)

\* "the server can only use the callback once per emit": a callback is called
\* once at most, however often the server answers.
CalledOnce == \A i, j \in DOMAIN called : called[i][1] = called[j][1] => i = j

\* An answer finds the callback it is for: registered before its packet is
\* sent, by an id no other packet has, unless two emits raced for the id.
AnswersFindCallbacks ==
    ~twice => \A p \in handled : \E i \in DOMAIN called : called[i] = <<p, p>>

\* "Emit an event with a binary message": the attachment follows its text.
AttachmentFollows ==
    \A i \in DOMAIN wire :
        wire[i].kind = "attachment" =>
            i > 1 /\ wire[i - 1] = [kind |-> "text", p |-> wire[i].p]
=============================================================================
