--------------------------- MODULE SioEmitProofs ---------------------------
(***************************************************************************)
(* Proofs about SioEmit for every set of threads and every finite set of   *)
(* packets: its types, that no packet goes out twice or is lost while the  *)
(* transport lasts, that the packets of a thread keep their order, and     *)
(* that an answer finds its callback and calls it once.                    *)
(***************************************************************************)
EXTENDS SioEmit, FiniteSetTheorems, SequenceTheorems, TLAPS

-----------------------------------------------------------------------------
(* What a queue holds.                                                     *)

Has(s, x)       == \E i \in DOMAIN s : s[i] = x
Once(s, x)      == \A i, j \in DOMAIN s : s[i] = x /\ s[j] = x => i = j
Before(s, x, y) == \A i, j \in DOMAIN s : s[i] = x /\ s[j] = y => i < j

Kinds == {"text", "attachment"}
Pay(kind, p) == [kind |-> kind, p |-> p]

-----------------------------------------------------------------------------
(* Where a packet is.                                                      *)

\* p is the packet of t's emit, which did not get to it.
Waits(t, p) == call[t].mine = p /\ call[t].now # p

\* t popped p, or got to its own, and has not dispatched that payload.
Holds(t, p, kind) ==
    /\ call[t].now = p
    /\ call[t].at = "send" \/ (call[t].at = "attach" /\ kind = "attachment")

IsEmitted(p) == \E t \in Threads : Has(emitted[t], p)

\* p is the packet of t's emit, which has not registered its callback.
Unregistered(t, p) == call[t].mine = p /\ call[t].at \in {"count", "register"}

\* The packet has no id yet.
IsCounted(p) == IsEmitted(p) /\ \A t \in Threads : ~(call[t].mine = p /\ call[t].at = "count")
Counted == {p \in Acked : IsCounted(p)}

-----------------------------------------------------------------------------
(* The inductive invariant, in parts.                                      *)

\* A call has a packet, and one it sends exactly while it sends.
CallsFit ==
    \A t \in Threads :
        LET c == call[t]
        IN  /\ c.at = "idle" => c = NoCall
            /\ c.at # "idle" => c.mine \in Packets
            /\ c.now # None <=> c.at \in {"send", "attach"}
            /\ c.at \in {"count", "register"} => c.mine \in Acked
            /\ c.at = "register" => c.id # 0

\* Nothing is emitted twice, and a call is about the last packet of its thread.
EmittedOnce ==
    /\ \A t \in Threads, p \in Packets : Once(emitted[t], p)
    /\ \A t, u \in Threads, p \in Packets : Has(emitted[t], p) /\ Has(emitted[u], p) => t = u
    /\ \A t \in Threads : call[t].at # "idle" =>
          emitted[t] # <<>> /\ emitted[t][Len(emitted[t])] = call[t].mine

\* What is anywhere was emitted.
OnlyEmitted ==
    \A p \in Packets :
        \/ IsEmitted(p)
        \/ /\ \A t \in Threads : call[t].mine # p /\ call[t].now # p
           /\ ~Has(queue, p)
           /\ \A kind \in Kinds : ~Has(io, Pay(kind, p)) /\ ~Has(wire, Pay(kind, p))

\* A payload is in one place.
OnePlaceOf(p, kind) ==
    /\ \A t, u \in Threads : Holds(t, p, kind) /\ Holds(u, p, kind) => t = u
    /\ Once(queue, p) /\ Once(io, Pay(kind, p)) /\ Once(wire, Pay(kind, p))
    /\ \A t \in Threads : Waits(t, p) =>
          /\ \A u \in Threads : ~Holds(u, p, kind)
          /\ ~Has(queue, p) /\ ~Has(io, Pay(kind, p)) /\ ~Has(wire, Pay(kind, p))
    /\ \A t \in Threads : Holds(t, p, kind) =>
          ~Has(queue, p) /\ ~Has(io, Pay(kind, p)) /\ ~Has(wire, Pay(kind, p))
    /\ Has(queue, p) => ~Has(io, Pay(kind, p)) /\ ~Has(wire, Pay(kind, p))
    /\ Has(io, Pay(kind, p)) => ~Has(wire, Pay(kind, p))

OnePlace == \A p \in Packets, kind \in Kinds : OnePlaceOf(p, kind)

\* The ids that were taken do not outnumber the packets that took one.
IdsBounded ==
    /\ eventId <= Cardinality(Counted) + 1
    /\ \A t \in Threads : call[t].at = "count" => call[t].id <= Cardinality(Counted) + 1

\* A packet with a callback has its id from its registration on, and what is
\* answered is such a packet.
Registered ==
    /\ \A p \in Acked : IsEmitted(p) =>
          idOf[p] # 0 \/ \E t \in Threads : Unregistered(t, p)
    /\ \A p \in Packets \cup {None} : Has(io, Pay("answer", p)) => p \in Acked /\ idOf[p] # 0

\* A callback is registered once, and only before it is called.
CallbacksFit ==
    /\ \A i, j \in Ids : acks[i] = acks[j] /\ acks[i] # None => i = j
    /\ \A i \in Ids : acks[i] # None =>
          IsEmitted(acks[i]) /\ \A t \in Threads : ~Unregistered(t, acks[i])
    /\ \A p \in Acked :
          \/ ~IsEmitted(p)
          \/ \E t \in Threads : Unregistered(t, p)
          \/ \E i \in Ids : acks[i] = p
          => \A k \in DOMAIN called : called[k][1] # p

\* An id that was read is the next one, and no other call has it.
TakenDiffer ==
    \A t \in Threads : call[t].at = "count" /\ call[t].id # 0 =>
        /\ call[t].id = eventId
        /\ \A u \in Threads : call[u].at = "count" /\ call[u].id # 0 => t = u

\* An id about to be registered is no other call's and no packet's.
RegisterDiffer ==
    \A t \in Threads : call[t].at = "register" =>
        /\ call[t].id < eventId
        /\ \A u \in Threads : call[u].at = "register" /\ call[u].id = call[t].id => t = u
        /\ \A p \in Packets : idOf[p] # call[t].id

\* An id is one packet's, and leads to its callback until it was answered.
RegisteredDiffer ==
    \A p \in Packets :
        /\ idOf[p] < eventId
        /\ \A q \in Packets : idOf[p] = idOf[q] /\ idOf[p] # 0 => p = q
        /\ idOf[p] # 0 => acks[idOf[p]] = p \/ p \in handled

\* Unless two emits raced for an id, ids are taken one after another.
IdsDiffer == ~twice => TakenDiffer /\ RegisterDiffer /\ RegisteredDiffer

OneHolder ==
    \A t, u \in Threads :
        call[t].at \in {"send", "attach"} /\ call[u].at \in {"send", "attach"} => t = u

\* q, emitted after p by the same thread, is behind it everywhere.
Behind(p, q) ==
    /\ Before(queue, p, q)
    /\ Before(io, Pay("text", p), Pay("text", q))
    /\ Before(wire, Pay("text", p), Pay("text", q))
    /\ Has(queue, p) =>
          /\ \A t \in Threads : ~Holds(t, q, "text")
          /\ ~Has(io, Pay("text", q)) /\ ~Has(wire, Pay("text", q))
    /\ \A t \in Threads : Holds(t, p, "text") =>
          ~Has(io, Pay("text", q)) /\ ~Has(wire, Pay("text", q))
    /\ Has(io, Pay("text", p)) => ~Has(wire, Pay("text", q))

InOrder ==
    ~mixed =>
        /\ OneHolder
        /\ \A t \in Threads : \A i, j \in DOMAIN emitted[t] :
              i < j => Behind(emitted[t][i], emitted[t][j])

IInv ==
    /\ TypeOK /\ CallsFit /\ EmittedOnce /\ OnlyEmitted /\ OnePlace
    /\ IdsBounded /\ Registered /\ CallbacksFit /\ CalledOnce
    /\ IdsDiffer /\ AnswersFindCallbacks /\ InOrder

-----------------------------------------------------------------------------
(* Sequences.                                                              *)

LEMMA EmptyHas ==
  ASSUME NEW x, NEW y
  PROVE  ~Has(<<>>, x) /\ Once(<<>>, x) /\ Before(<<>>, x, y)
  BY DEF Has, Once, Before

LEMMA AppendHas ==
  ASSUME NEW S, NEW s \in Seq(S), NEW z \in S
  PROVE  /\ \A x : Has(Append(s, z), x) <=> Has(s, x) \/ x = z
         /\ \A x : Once(s, x) /\ (x = z => ~Has(s, x)) => Once(Append(s, z), x)
         /\ \A x, y : Before(s, x, y) /\ x # y /\ (x = z => ~Has(s, y)) => Before(Append(s, z), x, y)
  <1> DEFINE a == Append(s, z)
  <1>1. /\ a \in Seq(S) /\ Len(a) = Len(s) + 1
        /\ \A i \in 1 .. Len(s) : a[i] = s[i]
        /\ a[Len(s) + 1] = z
    BY AppendProperties
  <1>2. Len(s) \in Nat /\ DOMAIN s = 1 .. Len(s) /\ DOMAIN a = 1 .. (Len(s) + 1)
    BY <1>1, LenProperties
  <1>3. \A i \in DOMAIN a : i \in DOMAIN s \/ i = Len(s) + 1
    BY <1>2
  <1>4. \A i \in DOMAIN s : i \in DOMAIN a /\ a[i] = s[i] /\ i < Len(s) + 1
    BY <1>1, <1>2
  <1>5. Len(s) + 1 \in DOMAIN a
    BY <1>2
  <1> HIDE DEF a
  <1>6. \A x : Has(a, x) <=> Has(s, x) \/ x = z
    BY <1>1, <1>3, <1>4, <1>5 DEF Has
  <1>7. \A x : Once(s, x) /\ (x = z => ~Has(s, x)) => Once(a, x)
    BY <1>1, <1>3, <1>4 DEF Has, Once
  <1>8. \A x, y : Before(s, x, y) /\ x # y /\ (x = z => ~Has(s, y)) => Before(a, x, y)
    BY <1>1, <1>3, <1>4 DEF Has, Before
  <1> QED
    BY <1>6, <1>7, <1>8 DEF a

LEMMA TailHas ==
  ASSUME NEW S, NEW s \in Seq(S), s # <<>>
  PROVE  /\ \A x : Has(s, x) <=> x = Head(s) \/ Has(Tail(s), x)
         /\ \A x : Once(s, x) => Once(Tail(s), x) /\ ~(x = Head(s) /\ Has(Tail(s), x))
         /\ \A x, y : Before(s, x, y) => Before(Tail(s), x, y) /\ (y = Head(s) => ~Has(s, x))
  <1> DEFINE r == Tail(s)
  <1>1. /\ r \in Seq(S) /\ Len(r) = Len(s) - 1
        /\ \A i \in 1 .. Len(r) : r[i] = s[i + 1]
    BY HeadTailProperties
  <1>2. Len(s) \in Nat \ {0} /\ DOMAIN s = 1 .. Len(s) /\ DOMAIN r = 1 .. (Len(s) - 1)
    BY <1>1, LenProperties, EmptySeq
  <1>3. \A i \in DOMAIN r : i \in Nat \ {0} /\ i + 1 \in DOMAIN s /\ r[i] = s[i + 1]
    BY <1>1, <1>2
  <1>4. \A i \in DOMAIN s : i \in Nat /\ (i = 1 \/ (i > 1 /\ i - 1 \in DOMAIN r /\ r[i - 1] = s[i]))
    BY <1>1, <1>2
  <1>5. 1 \in DOMAIN s /\ Head(s) = s[1]
    BY <1>2
  <1> HIDE DEF r
  <1>6. \A x : Has(s, x) <=> x = Head(s) \/ Has(r, x)
    BY <1>3, <1>4, <1>5 DEF Has
  <1>7. \A x : Once(s, x) => Once(r, x) /\ ~(x = Head(s) /\ Has(r, x))
    <2> SUFFICES ASSUME NEW x, Once(s, x) PROVE Once(r, x) /\ ~(x = Head(s) /\ Has(r, x))
      OBVIOUS
    <2>1. Once(r, x)
      BY <1>3 DEF Once
    <2>2. ~(x = Head(s) /\ Has(r, x))
      BY <1>3, <1>5 DEF Once, Has
    <2> QED
      BY <2>1, <2>2
  <1>8. \A x, y : Before(s, x, y) => Before(r, x, y) /\ (y = Head(s) => ~Has(s, x))
    <2> SUFFICES ASSUME NEW x, NEW y, Before(s, x, y)
                 PROVE  Before(r, x, y) /\ (y = Head(s) => ~Has(s, x))
      OBVIOUS
    <2>1. Before(r, x, y)
      BY <1>3 DEF Before
    <2>2. y = Head(s) => ~Has(s, x)
      BY <1>4, <1>5 DEF Before, Has
    <2> QED
      BY <2>1, <2>2
  <1> QED
    BY <1>6, <1>7, <1>8 DEF r

-----------------------------------------------------------------------------
(* Ids and callbacks, as far as a step leaves them alone.                  *)

CallbacksInv ==
    /\ IdsBounded /\ Registered /\ CallbacksFit /\ CalledOnce
    /\ IdsDiffer /\ AnswersFindCallbacks

PlacesInv == OnlyEmitted /\ OnePlace /\ InOrder

CallsInv == CallsFit /\ EmittedOnce

LEMMA CallbacksFrame ==
  ASSUME CallbacksInv,
         UNCHANGED <<eventId, acks, idOf, emitted, called, handled, twice>>,
         \A t \in Threads : call[t].at \in {"count", "register"} \/ call'[t].at \in {"count", "register"}
                              => call'[t] = call[t],
         \A p \in Packets \cup {None} : Has(io', Pay("answer", p)) => Has(io, Pay("answer", p))
  PROVE  CallbacksInv'
  <1>1. \A p : IsEmitted(p)' <=> IsEmitted(p)
    BY DEF IsEmitted
  <1>2. \A t \in Threads : \A p : Unregistered(t, p)' <=> Unregistered(t, p)
    BY DEF Unregistered
  <1>3. IdsBounded'
    <2>1. Counted' = Counted
      BY <1>1 DEF Counted, IsCounted
    <2> QED
      BY <2>1 DEF CallbacksInv, IdsBounded
  <1>4. Registered'
    BY <1>1, <1>2 DEF CallbacksInv, Registered
  <1>5. CallbacksFit' /\ CalledOnce'
    BY <1>1, <1>2 DEF CallbacksInv, CallbacksFit, CalledOnce
  <1>6. IdsDiffer'
    BY DEF CallbacksInv, IdsDiffer, TakenDiffer, RegisterDiffer, RegisteredDiffer
  <1>7. AnswersFindCallbacks'
    BY DEF CallbacksInv, AnswersFindCallbacks
  <1> QED
    BY <1>3, <1>4, <1>5, <1>6, <1>7 DEF CallbacksInv

\* What is in r is in s, and in its order.
Within(r, s) ==
    \A kind \in Kinds, p, q \in Packets :
        /\ Has(r, Pay(kind, p)) => Has(s, Pay(kind, p))
        /\ Once(s, Pay(kind, p)) => Once(r, Pay(kind, p))
        /\ Before(s, Pay(kind, p), Pay(kind, q)) => Before(r, Pay(kind, p), Pay(kind, q))

LEMMA PlacesFrame ==
  ASSUME PlacesInv, EmittedOnce, TypeOK,
         UNCHANGED emitted, mixed => mixed',
         \A t \in Threads : /\ call'[t].mine = call[t].mine /\ call'[t].now = call[t].now
                            /\ call'[t].at = call[t].at
                                 \/ {call'[t].at, call[t].at} \cap {"send", "attach"} = {},
         queue' \in {queue, <<>>}, Within(io', io), Within(wire', wire)
  PROVE  PlacesInv'
  <1>1. \A p : IsEmitted(p)' <=> IsEmitted(p)
    BY DEF IsEmitted
  <1>2. \A t \in Threads, p \in Packets, kind \in Kinds :
           /\ Waits(t, p)' <=> Waits(t, p)
           /\ Holds(t, p, kind)' <=> Holds(t, p, kind)
    BY DEF Waits, Holds
  <1>3. \A p, q : /\ Has(queue', p) => Has(queue, p)
                  /\ Once(queue, p) => Once(queue', p)
                  /\ Before(queue, p, q) => Before(queue', p, q)
    BY EmptyHas
  <1>4. OnlyEmitted'
    BY <1>1, <1>3 DEF PlacesInv, OnlyEmitted, Within
  <1>5. OnePlace'
    BY <1>2, <1>3 DEF PlacesInv, OnePlace, OnePlaceOf, Within
  <1>6. InOrder'
    <2> SUFFICES ASSUME ~mixed' PROVE OneHolder' /\ \A t \in Threads : \A i, j \in DOMAIN emitted[t] :
                                              i < j => Behind(emitted[t][i], emitted[t][j])'
      BY DEF InOrder
    <2>1. OneHolder'
      BY DEF PlacesInv, InOrder, OneHolder
    <2>2. \A p, q \in Packets : Behind(p, q) => Behind(p, q)'
      BY <1>2, <1>3 DEF Within, Behind, Kinds
    <2>3. \A t \in Threads : \A i \in DOMAIN emitted[t] : emitted[t][i] \in Packets
      BY DEF TypeOK
    <2> QED
      BY <2>1, <2>2, <2>3 DEF PlacesInv, InOrder
  <1> QED
    BY <1>4, <1>5, <1>6 DEF PlacesInv

-----------------------------------------------------------------------------
(* Calls and types.                                                        *)

Stations == {"idle", "count", "register", "route", "push", "drain", "send", "attach"}

\* What a step of a call does to the calls.
LEMMA CallGoes ==
  ASSUME TypeOK, NEW t \in Threads, NEW c \in Calls, call' = [call EXCEPT ![t] = c]
  PROVE  /\ call' \in [Threads -> Calls] /\ call'[t] = c
         /\ \A u \in Threads : u # t => call'[u] = call[u]
  BY DEF TypeOK

LEMMA AtGoes ==
  ASSUME TypeOK, NEW t \in Threads, NEW at \in Stations, Goes(t, at)
  PROVE  /\ call' \in [Threads -> Calls]
         /\ \A u \in Threads : u # t => call'[u] = call[u]
         /\ call'[t].at = at
         /\ call'[t].mine = call[t].mine /\ call'[t].id = call[t].id /\ call'[t].now = call[t].now
  <1>1. call \in [Threads -> Calls]
    BY DEF TypeOK
  <1>2. [call[t] EXCEPT !.at = at] \in Calls
    BY <1>1 DEF Calls, Stations
  <1>3. call' = [call EXCEPT ![t] = [call[t] EXCEPT !.at = at]]
    BY DEF Goes
  <1>4. call'[t] = [call[t] EXCEPT !.at = at]
    BY <1>1, <1>3
  <1>5. call' \in [Threads -> Calls] /\ \A u \in Threads : u # t => call'[u] = call[u]
    BY <1>1, <1>2, <1>3
  <1> QED
    BY <1>1, <1>4, <1>5 DEF Calls

LEMMA NoCallFits == NoCall \in Calls
  BY DEF NoCall, Calls

\* An emit begins; the packet is new.
LEMMA EmitDoes ==
  ASSUME TypeOK, NEW t \in Threads, Emit(t)
  PROVE  \E p \in Packets :
            /\ ~IsEmitted(p)
            /\ emitted' \in [Threads -> Seq(Packets)]
            /\ emitted'[t] = Append(emitted[t], p)
            /\ \A u \in Threads : u # t => emitted'[u] = emitted[u] /\ call'[u] = call[u]
            /\ call' \in [Threads -> Calls]
            /\ call'[t].at = IF p \in Acked THEN "count" ELSE "route"
            /\ call'[t].mine = p /\ call'[t].id = 0 /\ call'[t].now = None
  <1>1. PICK p \in Packets :
          /\ \A u \in Threads : p \notin ToSet(emitted[u])
          /\ emitted' = [emitted EXCEPT ![t] = Append(@, p)]
          /\ call' = [call EXCEPT ![t] =
                        [NoCall EXCEPT !.at = IF p \in Acked THEN "count" ELSE "route", !.mine = p]]
    BY DEF Emit
  <1>2. ~IsEmitted(p)
    BY <1>1 DEF IsEmitted, Has, ToSet
  <1>3. Append(emitted[t], p) \in Seq(Packets)
    BY DEF TypeOK
  <1>4. /\ emitted' \in [Threads -> Seq(Packets)]
        /\ emitted'[t] = Append(emitted[t], p)
        /\ \A u \in Threads : u # t => emitted'[u] = emitted[u]
    BY <1>1, <1>3 DEF TypeOK
  <1> DEFINE c == [NoCall EXCEPT !.at = IF p \in Acked THEN "count" ELSE "route", !.mine = p]
  <1>5. /\ c \in Calls /\ c.at = IF p \in Acked THEN "count" ELSE "route"
        /\ c.mine = p /\ c.id = 0 /\ c.now = None
    BY DEF NoCall, Calls
  <1>6. /\ call' \in [Threads -> Calls] /\ call'[t] = c
        /\ \A u \in Threads : u # t => call'[u] = call[u]
    BY <1>1, <1>5 DEF TypeOK
  <1> QED
    BY <1>2, <1>4, <1>5, <1>6

\* A drain takes the head of the queue, or at last the packet of the emit.
LEMMA DrainDoes ==
  ASSUME TypeOK, CallsFit, NEW t \in Threads, Drain(t)
  PROVE  /\ call[t].at = "drain" /\ call[t].now = None /\ call[t].mine \in Packets
         /\ call' \in [Threads -> Calls]
         /\ \A u \in Threads : u # t => call'[u] = call[u]
         /\ call'[t].at = "send" /\ call'[t].mine = call[t].mine
         /\ call'[t].now = IF queue = <<>> THEN call[t].mine ELSE Head(queue)
         /\ queue' = IF queue = <<>> THEN queue ELSE Tail(queue)
         /\ queue' \in Seq(Packets) /\ call'[t].now \in Packets
  <1>1. call[t].at = "drain" /\ call[t].now = None /\ call[t].mine \in Packets
    BY DEF Drain, CallsFit
  <1> DEFINE p == IF queue = <<>> THEN call[t].mine ELSE Head(queue)
             c == [call[t] EXCEPT !.at = "send", !.now = p]
  <1>2. p \in Packets
    BY <1>1 DEF TypeOK
  <1>3. queue' = (IF queue = <<>> THEN queue ELSE Tail(queue)) /\ queue' \in Seq(Packets)
    <2>1. queue' = IF queue = <<>> THEN queue ELSE Tail(queue)
      BY DEF Drain
    <2>2. queue \in Seq(Packets)
      BY DEF TypeOK
    <2> QED
      BY <2>1, <2>2, HeadTailProperties
  <1>4. call[t] \in Calls
    BY DEF TypeOK
  <1>5. c \in Calls /\ c.at = "send" /\ c.mine = call[t].mine /\ c.now = p
    BY <1>2, <1>4 DEF Calls
  <1>6. call' = [call EXCEPT ![t] = c]
    BY DEF Drain
  <1> HIDE DEF c
  <1>7. /\ call' \in [Threads -> Calls] /\ call'[t] = c
        /\ \A u \in Threads : u # t => call'[u] = call[u]
    BY <1>5, <1>6, CallGoes
  <1> QED
    BY <1>1, <1>2, <1>3, <1>5, <1>7

\* A packet was passed on: the call ends, or drains on.
LEMMA PassedDoes ==
  ASSUME TypeOK, NEW t \in Threads, Passed(t)
  PROVE  /\ call' \in [Threads -> Calls]
         /\ \A u \in Threads : u # t => call'[u] = call[u]
         /\ call'[t].now = None
         /\ \/ call[t].now = call[t].mine /\ call'[t] = NoCall
            \/ call[t].now # call[t].mine /\ call'[t].at = "drain" /\ call'[t].mine = call[t].mine
  <1>1. CASE call[t].now = call[t].mine
    <2>1. call' = [call EXCEPT ![t] = NoCall]
      BY <1>1 DEF Passed
    <2> QED
      BY <1>1, <2>1, CallGoes, NoCallFits DEF NoCall
  <1>2. CASE call[t].now # call[t].mine
    <2> DEFINE c == [call[t] EXCEPT !.at = "drain", !.now = None]
    <2>1. call[t] \in Calls
      BY DEF TypeOK
    <2>2. c \in Calls /\ c.at = "drain" /\ c.mine = call[t].mine /\ c.now = None
      BY <2>1 DEF Calls
    <2>3. call' = [call EXCEPT ![t] = c]
      BY <1>2 DEF Passed
    <2> HIDE DEF c
    <2> QED
      BY <1>2, <2>2, <2>3, CallGoes
  <1> QED
    BY <1>1, <1>2

LEMMA EmittedFrame ==
  ASSUME EmittedOnce, UNCHANGED emitted,
         \A t \in Threads : call'[t].at # "idle" =>
            call[t].at # "idle" /\ call'[t].mine = call[t].mine
  PROVE  EmittedOnce'
  BY DEF EmittedOnce

LEMMA EmitCalls ==
  ASSUME TypeOK, CallsInv, NEW t \in Threads, Emit(t)
  PROVE  CallsInv'
  <1>1. PICK p \in Packets :
            /\ ~IsEmitted(p)
            /\ emitted' \in [Threads -> Seq(Packets)]
            /\ emitted'[t] = Append(emitted[t], p)
            /\ \A u \in Threads : u # t => emitted'[u] = emitted[u] /\ call'[u] = call[u]
            /\ call'[t].at = IF p \in Acked THEN "count" ELSE "route"
            /\ call'[t].mine = p /\ call'[t].id = 0 /\ call'[t].now = None
    BY EmitDoes
  <1>2. emitted[t] \in Seq(Packets)
    BY DEF TypeOK
  <1>3. \A q : Has(emitted'[t], q) <=> Has(emitted[t], q) \/ q = p
    BY <1>1, <1>2, AppendHas
  <1>4. \A q : Once(emitted[t], q) => Once(emitted'[t], q)
    BY <1>1, <1>2, AppendHas DEF IsEmitted
  <1>5. emitted'[t] # <<>> /\ emitted'[t][Len(emitted'[t])] = p
    BY <1>1, <1>2, AppendProperties, EmptySeq
  <1>6. CallsFit'
    BY <1>1 DEF CallsInv, CallsFit
  <1>7. EmittedOnce'
    <2>1. ASSUME NEW u \in Threads, NEW q \in Packets PROVE Once(emitted'[u], q)
      BY <1>1, <1>4 DEF CallsInv, EmittedOnce
    <2>2. ASSUME NEW u \in Threads, NEW v \in Threads, NEW q \in Packets,
                 Has(emitted'[u], q), Has(emitted'[v], q)
          PROVE  u = v
      <3>1. \A w \in Threads : Has(emitted'[w], q) => Has(emitted[w], q) \/ (w = t /\ q = p)
        BY <1>1, <1>3
      <3>2. CASE q = p
        BY <1>1, <2>2, <3>1, <3>2 DEF IsEmitted
      <3>3. CASE q # p
        BY <2>2, <3>1, <3>3 DEF CallsInv, EmittedOnce
      <3> QED
        BY <3>2, <3>3
    <2>3. ASSUME NEW u \in Threads, call'[u].at # "idle"
          PROVE  emitted'[u] # <<>> /\ emitted'[u][Len(emitted'[u])] = call'[u].mine
      BY <1>1, <1>5, <2>3 DEF CallsInv, EmittedOnce
    <2> QED
      BY <2>1, <2>2, <2>3 DEF EmittedOnce
  <1> QED
    BY <1>6, <1>7 DEF CallsInv

LEMMA ReadIdCalls ==
  ASSUME TypeOK, CallsInv, NEW t \in Threads, ReadId(t)
  PROVE  /\ CallsInv'
         /\ \A u \in Threads : u # t => call'[u] = call[u]
         /\ call'[t].at = "count" /\ call'[t].mine = call[t].mine
         /\ call'[t].now = call[t].now /\ call'[t].id = eventId
  <1> DEFINE c == [call[t] EXCEPT !.id = eventId]
  <1>1. call \in [Threads -> Calls] /\ call[t] \in Calls /\ call[t].at = "count"
    BY DEF TypeOK, ReadId
  <1>2. c.at = "count" /\ c.mine = call[t].mine /\ c.now = call[t].now /\ c.id = eventId
    BY <1>1 DEF Calls
  <1>3. call' = [call EXCEPT ![t] = c]
    BY DEF ReadId
  <1> HIDE DEF c
  <1>4. call'[t] = c /\ \A u \in Threads : u # t => call'[u] = call[u]
    BY <1>1, <1>3
  <1>5. CallsFit'
    BY <1>1, <1>2, <1>4 DEF CallsInv, CallsFit
  <1>6. EmittedOnce'
    BY <1>1, <1>2, <1>4, EmittedFrame DEF ReadId, history, CallsInv
  <1> QED
    BY <1>2, <1>4, <1>5, <1>6 DEF CallsInv

LEMMA IdCalls ==
  ASSUME TypeOK, CallsInv, NEW t \in Threads, WriteId(t) \/ Register(t) \/ Route(t)
  PROVE  CallsInv'
  <1>1. PICK at \in {"register", "route", "push", "drain"} :
          Goes(t, at) /\ (at = "register" => WriteId(t))
    BY DEF WriteId, Register, Route
  <1>2. /\ call[t].at \in {"count", "register", "route"} /\ UNCHANGED emitted
        /\ at = "register" => call[t].at = "count" /\ call[t].id # 0
    BY <1>1 DEF WriteId, Register, Route, history
  <1>3. /\ \A u \in Threads : u # t => call'[u] = call[u]
        /\ call'[t].at = at
        /\ call'[t].mine = call[t].mine /\ call'[t].id = call[t].id /\ call'[t].now = call[t].now
    BY <1>1, AtGoes DEF Stations
  <1>4. CallsFit'
    BY <1>2, <1>3 DEF CallsInv, CallsFit
  <1>5. EmittedOnce'
    BY <1>2, <1>3, EmittedFrame DEF CallsInv
  <1> QED
    BY <1>4, <1>5 DEF CallsInv

LEMMA PushCalls ==
  ASSUME TypeOK, CallsInv, NEW t \in Threads, Push(t)
  PROVE  CallsInv'
  <1>1. call'[t] = NoCall /\ \A u \in Threads : u # t => call'[u] = call[u]
    BY NoCallFits, CallGoes DEF Push
  <1>2. CallsFit'
    BY <1>1 DEF CallsInv, CallsFit, NoCall
  <1>3. EmittedOnce'
    BY <1>1, EmittedFrame DEF CallsInv, NoCall, Push, history
  <1> QED
    BY <1>2, <1>3 DEF CallsInv

LEMMA DrainCalls ==
  ASSUME TypeOK, CallsInv, NEW t \in Threads, Drain(t)
  PROVE  CallsInv'
  <1>1. /\ call[t].at = "drain" /\ call[t].mine \in Packets
        /\ \A u \in Threads : u # t => call'[u] = call[u]
        /\ call'[t].at = "send" /\ call'[t].mine = call[t].mine /\ call'[t].now \in Packets
    BY DrainDoes DEF CallsInv
  <1>2. CallsFit'
    BY <1>1, PacketsAssumption DEF CallsInv, CallsFit
  <1>3. EmittedOnce'
    BY <1>1, EmittedFrame DEF CallsInv, Drain
  <1> QED
    BY <1>2, <1>3 DEF CallsInv

LEMMA SendCalls ==
  ASSUME TypeOK, CallsInv, NEW t \in Threads, SendText(t) \/ SendAttachment(t)
  PROVE  CallsInv'
  <1>1. call[t].at \in {"send", "attach"} /\ UNCHANGED emitted
    BY DEF SendText, SendAttachment, history
  <1>2. CASE Goes(t, "attach")
    <2>1. /\ \A u \in Threads : u # t => call'[u] = call[u]
          /\ call'[t].at = "attach"
          /\ call'[t].mine = call[t].mine /\ call'[t].now = call[t].now
      BY <1>2, AtGoes DEF Stations
    <2>2. CallsFit'
      BY <1>1, <2>1 DEF CallsInv, CallsFit
    <2>3. EmittedOnce'
      BY <1>1, <2>1, EmittedFrame DEF CallsInv
    <2> QED
      BY <2>2, <2>3 DEF CallsInv
  <1>3. CASE Passed(t)
    <2>1. /\ \A u \in Threads : u # t => call'[u] = call[u]
          /\ call'[t].now = None
          /\ \/ call'[t] = NoCall
             \/ call'[t].at = "drain" /\ call'[t].mine = call[t].mine
      BY <1>3, PassedDoes
    <2>2. CallsFit'
      BY <1>1, <2>1 DEF CallsInv, CallsFit, NoCall
    <2>3. EmittedOnce'
      BY <1>1, <2>1, EmittedFrame DEF CallsInv, NoCall
    <2> QED
      BY <2>2, <2>3 DEF CallsInv
  <1> QED
    BY <1>2, <1>3 DEF SendText, SendAttachment

\* The steps that are not an emit's.
NetworkStep ==
    \/ SendImpl \/ OnConnected \/ OnEvent \/ NetDrain \/ OnAck
    \/ OnDisconnect \/ ClearQueue \/ OnOpen
    \/ Accept \/ ServerEvent \/ ServerAnswers \/ Drop

LEMMA NetworkCalls ==
  ASSUME CallsInv, NetworkStep
  PROVE  UNCHANGED <<call, emitted>> /\ CallsInv'
  <1>1. UNCHANGED <<call, emitted>>
    BY DEF NetworkStep, SendImpl, OnConnected, OnEvent, NetDrain, OnAck, OnDisconnect, ClearQueue,
           OnOpen, Accept, ServerEvent, ServerAnswers, Drop, history
  <1>2. CallsFit' /\ EmittedOnce'
    BY <1>1 DEF CallsInv, CallsFit, EmittedOnce
  <1> QED
    BY <1>1, <1>2 DEF CallsInv

-----------------------------------------------------------------------------
(* The io_service's queue, and the wire.                                   *)

Heard == {"accept", "event", "answer", "drop"}

LEMMA WithinSame == ASSUME NEW s PROVE Within(s, s)
  BY DEF Within

LEMMA WithinTail ==
  ASSUME NEW S, NEW s \in Seq(S), s # <<>>
  PROVE  Within(Tail(s), s)
  BY TailHas DEF Within

\* What is no payload of a packet may come in between.
LEMMA WithinAppend ==
  ASSUME NEW S, NEW s \in Seq(S), NEW z \in S,
         \A kind \in Kinds, p \in Packets : z # Pay(kind, p)
  PROVE  Within(Append(s, z), s)
  <1>1. \A kind \in Kinds, p, q \in Packets :
           Before(s, Pay(kind, p), Pay(kind, q)) => Before(Append(s, z), Pay(kind, p), Pay(kind, q))
    <2> SUFFICES ASSUME NEW kind \in Kinds, NEW p \in Packets, NEW q \in Packets,
                        Before(s, Pay(kind, p), Pay(kind, q))
                 PROVE  Before(Append(s, z), Pay(kind, p), Pay(kind, q))
      OBVIOUS
    <2>1. Len(s) \in Nat /\ DOMAIN s = 1 .. Len(s) /\ DOMAIN Append(s, z) = 1 .. (Len(s) + 1)
      BY LenProperties, AppendProperties
    <2>2. \A i \in 1 .. Len(s) : Append(s, z)[i] = s[i]
      BY AppendProperties
    <2>3. Append(s, z)[Len(s) + 1] = z
      BY AppendProperties
    <2>4. \A i \in DOMAIN Append(s, z) : Append(s, z)[i] # z => i \in DOMAIN s /\ Append(s, z)[i] = s[i]
      BY <2>1, <2>2, <2>3
    <2> QED
      BY <2>4 DEF Before
  <1>2. \A kind \in Kinds, p \in Packets :
           /\ Has(Append(s, z), Pay(kind, p)) => Has(s, Pay(kind, p))
           /\ Once(s, Pay(kind, p)) => Once(Append(s, z), Pay(kind, p))
    BY AppendHas
  <1> QED
    BY <1>1, <1>2 DEF Within

LEMMA TakesDoes ==
  ASSUME TypeOK, NEW kind, Takes(kind)
  PROVE  /\ io' \in Seq(Payloads \cup Reads)
         /\ Within(io', io)
         /\ \A x : Has(io', x) => Has(io, x)
         /\ Head(io) = Pay(kind, Head(io).p) /\ Head(io).p \in Packets \cup {None}
         /\ Has(io, Head(io))
         /\ kind \in Kinds \cup Heard
  <1>1. io \in Seq(Payloads \cup Reads) /\ io # <<>> /\ io' = Tail(io) /\ Head(io).kind = kind
    BY DEF TypeOK, Takes
  <1>2. Head(io) \in Payloads \cup Reads /\ io' \in Seq(Payloads \cup Reads)
    BY <1>1, HeadTailProperties
  <1>3. /\ Head(io) = Pay(kind, Head(io).p) /\ Head(io).p \in Packets \cup {None}
        /\ kind \in Kinds \cup Heard
    BY <1>1, <1>2 DEF Payloads, Reads, Pay, Kinds, Heard
  <1>4. Within(io', io)
    BY <1>1, WithinTail
  <1>5. Has(io, Head(io)) /\ \A x : Has(io', x) => Has(io, x)
    BY <1>1, TailHas
  <1> QED
    BY <1>2, <1>3, <1>4, <1>5

LEMMA ArrivesDoes ==
  ASSUME TypeOK, NEW kind \in Heard, NEW p \in Packets \cup {None}, Arrives(kind, p)
  PROVE  /\ io' \in Seq(Payloads \cup Reads)
         /\ Within(io', io)
         /\ \A x : Has(io', x) <=> Has(io, x) \/ x = Pay(kind, p)
  <1>1. io \in Seq(Payloads \cup Reads) /\ io' = Append(io, Pay(kind, p))
    BY DEF TypeOK, Arrives, Pay
  <1>2. Pay(kind, p) \in Payloads \cup Reads
    BY DEF Pay, Reads, Heard
  <1>3. \A k \in Kinds, q \in Packets : Pay(kind, p) # Pay(k, q)
    BY DEF Pay, Kinds, Heard
  <1> HIDE DEF Pay
  <1>4. Within(io', io)
    BY <1>1, <1>2, <1>3, WithinAppend
  <1>5. /\ io' \in Seq(Payloads \cup Reads)
        /\ \A x : Has(io', x) <=> Has(io, x) \/ x = Pay(kind, p)
    BY <1>1, <1>2, AppendHas, AppendProperties
  <1> QED
    BY <1>4, <1>5

\* The network thread's writes: nothing, one payload, or a text and its attachment.
LEMMA WireOne ==
  ASSUME TypeOK, NEW x \in Payloads \cup {Opening}, OnWire(<<x>>)
  PROVE  wire' = wire \/ wire' = Append(wire, x)
  <1>1. wire \in Seq(Payloads \cup {Opening})
    BY DEF TypeOK
  <1>2. Append(wire, x) = wire \o <<x>>
    BY <1>1, AppendIsConcat
  <1> QED
    BY <1>2 DEF OnWire

LEMMA WireTwo ==
  ASSUME TypeOK, NEW x \in Payloads \cup {Opening}, NEW y \in Payloads \cup {Opening},
         OnWire(<<x, y>>)
  PROVE  wire' = wire \/ wire' = Append(Append(wire, x), y)
  <1> DEFINE P == Payloads \cup {Opening}
  <1>1. wire \in Seq(P) /\ <<x>> \in Seq(P) /\ <<y>> \in Seq(P)
    BY DEF TypeOK
  <1>2. Append(wire, x) = wire \o <<x>> /\ Append(wire, x) \in Seq(P)
    BY <1>1, AppendIsConcat, AppendProperties
  <1>3. Append(Append(wire, x), y) = Append(wire, x) \o <<y>>
    BY <1>2, AppendIsConcat
  <1>4. (wire \o <<x>>) \o <<y>> = wire \o (<<x>> \o <<y>>)
    BY <1>1, ConcatAssociative
  <1>5. <<x>> \o <<y>> = <<x, y>>
    <2> DEFINE s == <<x>> \o <<y>>
               r == <<x, y>>
    <2>1. Len(<<x>>) = 1 /\ Len(<<y>>) = 1 /\ <<x>>[1] = x /\ <<y>>[1] = y
      OBVIOUS
    <2>2. s \in Seq(P) /\ Len(s) = 2 /\ s[1] = x /\ s[2] = y
      BY <1>1, <2>1, ConcatProperties
    <2>3. r \in Seq(P) /\ Len(r) = 2 /\ r[1] = x /\ r[2] = y
      OBVIOUS
    <2> HIDE DEF s, r
    <2>4. \A i \in 1 .. Len(s) : s[i] = r[i]
      BY <2>2, <2>3
    <2>5. s = r
      BY <2>2, <2>3, <2>4, SeqEqual
    <2> QED
      BY <2>5 DEF s, r
  <1> QED
    BY <1>2, <1>3, <1>4, <1>5 DEF OnWire

\* r is s, or what is left of it, and more at its end.
Gains(r, s, more) ==
    /\ \A x : Has(r, x) => Has(s, x) \/ x \in more
    /\ \A x : Once(s, x) /\ (x \in more => ~Has(s, x)) => Once(r, x)
    /\ \A x, y : Before(s, x, y) /\ x # y /\ (x \in more => ~Has(s, y) /\ y \notin more)
                    => Before(r, x, y)

LEMMA GainsNothing == ASSUME NEW s PROVE Gains(s, s, {})
  BY DEF Gains

LEMMA GainsOne ==
  ASSUME NEW S, NEW s \in Seq(S), NEW z \in S
  PROVE  Gains(Append(s, z), s, {z})
  BY AppendHas DEF Gains

LEMMA GainsTwo ==
  ASSUME NEW S, NEW s \in Seq(S), NEW y \in S, NEW z \in S, y # z
  PROVE  Gains(Append(Append(s, y), z), s, {y, z})
  <1>1. Append(s, y) \in Seq(S)
    BY AppendProperties
  <1>2. Gains(Append(s, y), s, {y}) /\ Gains(Append(Append(s, y), z), Append(s, y), {z})
    BY <1>1, GainsOne
  <1>3. \A x : Has(Append(s, y), x) <=> Has(s, x) \/ x = y
    BY AppendHas
  <1> QED
    BY <1>2, <1>3 DEF Gains

LEMMA GainsMore ==
  ASSUME NEW r, NEW s, NEW more, NEW all, Gains(r, s, more), more \subseteq all
  PROVE  Gains(r, s, all)
  BY DEF Gains

\* What the network thread writes for a packet, or for its reply.
LEMMA NetWrites ==
  ASSUME TypeOK, NEW p \in Packets \cup {None}, OnWire(PayloadsOf(p))
  PROVE  /\ wire' \in Seq(Payloads \cup {Opening})
         /\ Gains(wire', wire, {Pay("text", p), Pay("attachment", p)})
  <1> DEFINE x == Pay("text", p)
             y == Pay("attachment", p)
  <1>1. x \in Payloads \cup {Opening} /\ y \in Payloads \cup {Opening} /\ x # y
    BY DEF Payloads, Pay
  <1>2. wire \in Seq(Payloads \cup {Opening})
    BY DEF TypeOK
  <1>3. OnWire(<<x>>) \/ OnWire(<<x, y>>)
    BY DEF OnWire, PayloadsOf, Pay
  <1> HIDE DEF x, y
  <1>4. wire' = wire \/ wire' = Append(wire, x) \/ wire' = Append(Append(wire, x), y)
    BY <1>1, <1>3, WireOne, WireTwo
  <1>5. Append(wire, x) \in Seq(Payloads \cup {Opening})
    BY <1>1, <1>2, AppendProperties
  <1>6. wire' \in Seq(Payloads \cup {Opening})
    BY <1>1, <1>2, <1>4, <1>5, AppendProperties
  <1>7. Gains(wire', wire, {x, y})
    <2>1. CASE wire' = wire
      BY <2>1, GainsNothing, GainsMore
    <2>2. CASE wire' = Append(wire, x)
      <3>1. Gains(wire', wire, {x})
        BY <1>1, <1>2, <2>2, GainsOne
      <3> QED
        BY <3>1, GainsMore
    <2>3. CASE wire' = Append(Append(wire, x), y)
      BY <1>1, <1>2, <2>3, GainsTwo
    <2> QED
      BY <1>4, <2>1, <2>2, <2>3
  <1> QED
    BY <1>6, <1>7 DEF x, y

-----------------------------------------------------------------------------
(* One place for each payload, and the order of a thread's packets.        *)

LEMMA Distinct ==
  ASSUME TypeOK, EmittedOnce, NEW t \in Threads,
         NEW i \in DOMAIN emitted[t], NEW j \in DOMAIN emitted[t], i < j
  PROVE  /\ emitted[t][i] \in Packets /\ emitted[t][j] \in Packets
         /\ emitted[t][i] # emitted[t][j]
         /\ \A u \in Threads : call[u].at # "idle" => emitted[t][i] # call[u].mine
  <1>1. emitted[t] \in Seq(Packets)
    BY DEF TypeOK
  <1>2. i \in 1 .. Len(emitted[t]) /\ j \in 1 .. Len(emitted[t]) /\ Len(emitted[t]) \in Nat
    BY <1>1, LenProperties
  <1>3. emitted[t][i] \in Packets /\ emitted[t][j] \in Packets
    BY <1>1, <1>2, ElementOfSeq
  <1>4. emitted[t][i] # emitted[t][j]
    BY <1>2, <1>3 DEF EmittedOnce, Once
  <1>5. ASSUME NEW u \in Threads, call[u].at # "idle", emitted[t][i] = call[u].mine
        PROVE  FALSE
    <2> DEFINE p == emitted[t][i]
    <2>1. emitted[u] # <<>> /\ emitted[u][Len(emitted[u])] = p
      BY <1>5 DEF EmittedOnce
    <2>2. emitted[u] \in Seq(Packets)
      BY DEF TypeOK
    <2>3. Len(emitted[u]) \in DOMAIN emitted[u]
      BY <2>1, <2>2, LenProperties, EmptySeq
    <2>4. Has(emitted[u], p) /\ Has(emitted[t], p)
      BY <2>1, <2>3 DEF Has
    <2>5. t = u
      BY <1>3, <2>4 DEF EmittedOnce
    <2>6. i = Len(emitted[t])
      BY <1>3, <2>1, <2>3, <2>5 DEF EmittedOnce, Once
    <2> QED
      BY <1>2, <2>6
  <1> QED
    BY <1>3, <1>4, <1>5

LEMMA EmitPlaces ==
  ASSUME TypeOK, CallsInv, PlacesInv, NEW t \in Threads, Emit(t)
  PROVE  PlacesInv'
  <1>1. PICK p \in Packets :
            /\ ~IsEmitted(p)
            /\ emitted' \in [Threads -> Seq(Packets)]
            /\ emitted'[t] = Append(emitted[t], p)
            /\ \A u \in Threads : u # t => emitted'[u] = emitted[u] /\ call'[u] = call[u]
            /\ call'[t].at = IF p \in Acked THEN "count" ELSE "route"
            /\ call'[t].mine = p /\ call'[t].id = 0 /\ call'[t].now = None
    BY EmitDoes
  <1>2. emitted[t] \in Seq(Packets) /\ call[t] = NoCall /\ UNCHANGED <<queue, io, wire, mixed>>
    BY DEF TypeOK, Emit, sockVars
  <1>3. \A q : IsEmitted(q)' <=> IsEmitted(q) \/ q = p
    <2>1. \A q : Has(emitted'[t], q) <=> Has(emitted[t], q) \/ q = p
      BY <1>1, <1>2, AppendHas
    <2> QED
      BY <1>1, <2>1 DEF IsEmitted
  <1>4. \A u \in Threads, q \in Packets, kind \in Kinds :
           /\ Waits(u, q)' => Waits(u, q) \/ (u = t /\ q = p)
           /\ Holds(u, q, kind)' <=> Holds(u, q, kind)
    BY <1>1, <1>2, PacketsAssumption DEF Waits, Holds, NoCall
  <1>5. /\ \A u \in Threads : call[u].mine # p /\ call[u].now # p
        /\ ~Has(queue, p)
        /\ \A kind \in Kinds : ~Has(io, Pay(kind, p)) /\ ~Has(wire, Pay(kind, p))
        /\ \A u \in Threads, kind \in Kinds : ~Holds(u, p, kind) /\ ~Waits(u, p)
    BY <1>1 DEF PlacesInv, OnlyEmitted, Holds, Waits
  <1>6. OnlyEmitted'
    BY <1>1, <1>2, <1>3, PacketsAssumption DEF PlacesInv, OnlyEmitted
  <1>7. OnePlace'
    BY <1>2, <1>4, <1>5 DEF PlacesInv, OnePlace, OnePlaceOf
  <1>8. InOrder'
    <2> SUFFICES ASSUME ~mixed' PROVE OneHolder' /\ \A u \in Threads : \A i, j \in DOMAIN emitted'[u] :
                                              i < j => Behind(emitted[u][i], emitted[u][j])'
      BY DEF InOrder
    <2>1. OneHolder'
      BY <1>1, <1>2 DEF PlacesInv, InOrder, OneHolder
    <2>2. \A q, r \in Packets : Behind(q, r) => Behind(q, r)'
      BY <1>2, <1>4 DEF Behind, Kinds
    <2>3. \A q \in Packets : Behind(q, p)'
      BY <1>2, <1>4, <1>5 DEF Behind, Before, Has, Kinds, Holds
    <2>4. ASSUME NEW u \in Threads, NEW i \in DOMAIN emitted'[u], NEW j \in DOMAIN emitted'[u], i < j
          PROVE  Behind(emitted[u][i], emitted[u][j])'
      <3>1. CASE u # t
        BY <1>1, <1>2, <2>2, <2>4, <3>1, Distinct DEF CallsInv, PlacesInv, InOrder
      <3>2. CASE u = t
        <4>1. /\ Len(emitted[t]) \in Nat /\ DOMAIN emitted[t] = 1 .. Len(emitted[t])
              /\ DOMAIN emitted'[t] = 1 .. (Len(emitted[t]) + 1)
              /\ \A k \in 1 .. Len(emitted[t]) : emitted'[t][k] = emitted[t][k]
              /\ emitted'[t][Len(emitted[t]) + 1] = p
          BY <1>1, <1>2, AppendProperties, LenProperties
        <4>2. i \in DOMAIN emitted[t] /\ emitted'[t][i] = emitted[t][i]
          BY <2>4, <3>2, <4>1
        <4>3. emitted[t][i] \in Packets
          BY <1>2, <4>1, <4>2, ElementOfSeq
        <4>4. CASE j \in DOMAIN emitted[t]
          <5>1. emitted'[t][j] = emitted[t][j] /\ emitted[t][j] \in Packets
            BY <1>2, <4>1, <4>4, ElementOfSeq
          <5>2. Behind(emitted[t][i], emitted[t][j])
            BY <1>2, <2>4, <4>2, <4>4 DEF PlacesInv, InOrder
          <5> QED
            BY <2>2, <3>2, <4>2, <4>3, <5>1, <5>2
        <4>5. CASE j = Len(emitted[t]) + 1
          BY <2>3, <3>2, <4>1, <4>2, <4>3, <4>5
        <4> QED
          BY <2>4, <3>2, <4>1, <4>4, <4>5
      <3> QED
        BY <3>1, <3>2
    <2> QED
      BY <2>1, <2>4
  <1> QED
    BY <1>6, <1>7, <1>8 DEF PlacesInv

\* A step keeps the order if it keeps it for p and q, of which p is not the packet of
\* a call any more.
LEMMA OrderStep ==
  ASSUME TypeOK, CallsInv, InOrder, UNCHANGED emitted, mixed => mixed',
         ~mixed' => OneHolder',
         ASSUME ~mixed', NEW p \in Packets, NEW q \in Packets, p # q, Behind(p, q),
                \A u \in Threads : call[u].at # "idle" => p # call[u].mine
         PROVE  Behind(p, q)'
  PROVE  InOrder'
  <1> SUFFICES ASSUME ~mixed', NEW t \in Threads,
                      NEW i \in DOMAIN emitted[t], NEW j \in DOMAIN emitted[t], i < j
               PROVE  Behind(emitted[t][i], emitted[t][j])'
    BY DEF InOrder
  <1> DEFINE p == emitted[t][i]
             q == emitted[t][j]
  <1>1. p \in Packets /\ q \in Packets /\ p # q
        /\ \A u \in Threads : call[u].at # "idle" => p # call[u].mine
    BY Distinct DEF CallsInv
  <1>2. Behind(p, q)
    BY DEF InOrder
  <1>3. p' = p /\ q' = q
    OBVIOUS
  <1> HIDE DEF p, q
  <1>4. Behind(p, q)'
    BY <1>1, <1>2, <1>3
  <1> QED
    BY <1>4 DEF p, q

\* A packet waits in one call.
LEMMA WaitsOnce ==
  ASSUME TypeOK, CallsInv, NEW p \in Packets, NEW t \in Threads, NEW u \in Threads,
         Waits(t, p), Waits(u, p)
  PROVE  u = t
  <1>1. \A v \in {t, u} : call[v].at # "idle" /\ call[v].mine = p
    BY PacketsAssumption DEF CallsInv, CallsFit, NoCall, Waits
  <1>2. \A v \in {t, u} : emitted[v] # <<>> /\ emitted[v][Len(emitted[v])] = p
    BY <1>1 DEF CallsInv, EmittedOnce
  <1>3. Has(emitted[t], p) /\ Has(emitted[u], p)
    BY <1>2, LenProperties, EmptySeq DEF TypeOK, Has
  <1> QED
    BY <1>3 DEF CallsInv, EmittedOnce

LEMMA PushPlaces ==
  ASSUME TypeOK, CallsInv, PlacesInv, NEW t \in Threads, Push(t)
  PROVE  PlacesInv'
  <1> DEFINE m == call[t].mine
  <1>1. /\ call[t].at = "push" /\ m \in Packets /\ call[t].now = None /\ Waits(t, m)
        /\ UNCHANGED <<emitted, mixed, io, wire>>
    BY PacketsAssumption DEF Push, CallsInv, CallsFit, history, Waits
  <1>2. call'[t] = NoCall /\ \A u \in Threads : u # t => call'[u] = call[u]
    BY NoCallFits, CallGoes DEF Push
  <1>3. Gains(queue', queue, {m})
    BY <1>1, GainsOne DEF Push, TypeOK
  <1>4. \A u \in Threads, q \in Packets, kind \in Kinds :
           /\ Waits(u, q)' => Waits(u, q) /\ u # t
           /\ Holds(u, q, kind)' => Holds(u, q, kind)
    BY <1>2, PacketsAssumption DEF Waits, Holds, NoCall
  <1>5. \A u \in Threads : Waits(u, m) => u = t
    BY <1>1, WaitsOnce
  <1>6. IsEmitted(m)
    BY <1>1 DEF PlacesInv, OnlyEmitted
  <1>7. \A q : IsEmitted(q)' <=> IsEmitted(q)
    BY <1>1 DEF IsEmitted
  <1>8. ~Has(queue, m) /\ \A kind \in Kinds : /\ ~Has(io, Pay(kind, m)) /\ ~Has(wire, Pay(kind, m))
                                              /\ \A u \in Threads : ~Holds(u, m, kind)
    BY <1>1 DEF PlacesInv, OnePlace, OnePlaceOf, Kinds
  <1> HIDE DEF m
  <1>9. OnlyEmitted'
    BY <1>1, <1>2, <1>3, <1>6, <1>7, PacketsAssumption DEF PlacesInv, OnlyEmitted, Gains, NoCall
  <1>10. OnePlace'
    <2> SUFFICES ASSUME NEW p \in Packets, NEW kind \in Kinds PROVE OnePlaceOf(p, kind)'
      BY DEF OnePlace
    <2> QED
      BY <1>1, <1>3, <1>4, <1>5, <1>8 DEF PlacesInv, OnePlace, OnePlaceOf, Gains
  <1>11. InOrder'
    <2>1. ~mixed' => OneHolder'
      BY <1>1, <1>2 DEF PlacesInv, InOrder, OneHolder, NoCall
    <2>2. ASSUME NEW p \in Packets, NEW q \in Packets, p # q, Behind(p, q), p # m
          PROVE  Behind(p, q)'
      BY <1>1, <1>3, <1>4, <2>2 DEF Behind, Gains, Kinds
    <2> QED
      BY <1>1, <2>1, <2>2, OrderStep DEF PlacesInv, m
  <1> QED
    BY <1>9, <1>10, <1>11 DEF PlacesInv

LEMMA DrainPlaces ==
  ASSUME TypeOK, CallsInv, PlacesInv, NEW t \in Threads, Drain(t)
  PROVE  PlacesInv'
  <1> DEFINE m == call[t].mine
             n == call'[t].now
  <1>1. /\ call[t].at = "drain" /\ m \in Packets /\ call[t].now = None /\ Waits(t, m)
        /\ \A u \in Threads : u # t => call'[u] = call[u]
        /\ call'[t].at = "send" /\ call'[t].mine = m
        /\ n = IF queue = <<>> THEN m ELSE Head(queue)
        /\ queue' = IF queue = <<>> THEN queue ELSE Tail(queue)
        /\ n \in Packets
    BY DrainDoes, PacketsAssumption DEF CallsInv, Waits
  <1>2. UNCHANGED <<emitted, io, wire>> /\ mixed' = (mixed \/ HeldByOther(t))
    BY DEF Drain
  <1>3. queue \in Seq(Packets)
    BY DEF TypeOK
  <1>4. /\ \A x : Has(queue', x) => Has(queue, x)
        /\ \A x : Once(queue, x) => Once(queue', x) /\ (x = n => ~Has(queue', x))
        /\ \A x, y : Before(queue, x, y) => Before(queue', x, y) /\ (y = n => ~Has(queue', x))
    <2>1. CASE queue = <<>>
      BY <1>1, <2>1, EmptyHas
    <2>2. CASE queue # <<>>
      BY <1>1, <1>3, <2>2, TailHas
    <2> QED
      BY <2>1, <2>2
  <1>5. /\ n = m \/ Has(queue, n)
        /\ n = m => ~Has(queue', m)
    <2>1. CASE queue = <<>>
      BY <1>1, <2>1, EmptyHas
    <2>2. CASE queue # <<>>
      BY <1>1, <1>3, <2>2, TailHas DEF PlacesInv, OnePlace, OnePlaceOf, Kinds
    <2> QED
      BY <2>1, <2>2
  <1>6. \A u \in Threads, q \in Packets, kind \in Kinds :
           /\ Waits(u, q)' => Waits(u, q) /\ (u = t => n # m)
           /\ Holds(u, q, kind)' => Holds(u, q, kind) \/ (u = t /\ q = n)
           /\ ~Holds(t, q, kind)
    BY <1>1, PacketsAssumption DEF Waits, Holds
  <1>7. \A u \in Threads : Waits(u, m) => u = t
    BY <1>1, WaitsOnce
  <1>8. \A q : IsEmitted(q)' <=> IsEmitted(q)
    BY <1>2 DEF IsEmitted
  <1>9. IsEmitted(n)
    BY <1>1, <1>5 DEF PlacesInv, OnlyEmitted
  <1> HIDE DEF m, n
  <1>10. OnlyEmitted'
    BY <1>1, <1>2, <1>4, <1>8, <1>9 DEF PlacesInv, OnlyEmitted, m, n
  <1>11. OnePlace'
    <2> SUFFICES ASSUME NEW p \in Packets, NEW kind \in Kinds PROVE OnePlaceOf(p, kind)'
      BY DEF OnePlace
    <2>1. CASE p # n
      BY <1>2, <1>4, <1>6, <2>1 DEF PlacesInv, OnePlace, OnePlaceOf
    <2>2. CASE p = n
      BY <1>1, <1>2, <1>4, <1>5, <1>6, <1>7, <2>2 DEF PlacesInv, OnePlace, OnePlaceOf
    <2> QED
      BY <2>1, <2>2
  <1>12. InOrder'
    <2>1. ~mixed' => OneHolder'
      BY <1>1, <1>2 DEF OneHolder, HeldByOther
    <2>2. ASSUME NEW p \in Packets, NEW q \in Packets, p # q, Behind(p, q), p # m
          PROVE  Behind(p, q)'
      BY <1>2, <1>4, <1>5, <1>6, <2>2 DEF Behind, Kinds
    <2>3. ASSUME NEW p, \A u \in Threads : call[u].at # "idle" => p # call[u].mine
          PROVE  p # m
      BY <1>1, <2>3 DEF m
    <2> QED
      BY <1>2, <2>1, <2>2, <2>3, OrderStep DEF PlacesInv
  <1> QED
    BY <1>10, <1>11, <1>12 DEF PlacesInv

\* A payload is dispatched.
LEMMA SendDoes ==
  ASSUME TypeOK, CallsInv, NEW t \in Threads, SendText(t) \/ SendAttachment(t)
  PROVE  \E kind \in Kinds :
            /\ call[t].now \in Packets /\ Holds(t, call[t].now, kind)
            /\ io' = Append(io, Pay(kind, call[t].now))
            /\ Pay(kind, call[t].now) \in Payloads
            /\ call' \in [Threads -> Calls]
            /\ call'[t].at \in {"idle", "drain", "attach"}
            /\ \A u \in Threads : u # t => call'[u] = call[u]
            /\ \A u \in Threads, q \in Packets, k \in Kinds :
                  /\ Waits(u, q)' => Waits(u, q)
                  /\ Holds(u, q, k)' => Holds(u, q, k) /\ ~(u = t /\ k = kind)
            /\ \A u \in Threads : \/ call'[u].at \in {"send", "attach"}
                                       /\ call[u].at \in {"send", "attach"}
                                  \/ call'[u].at \notin {"send", "attach"}
            /\ \A u \in Threads, q \in Packets : call'[u].mine = q \/ call'[u].now = q
                                  => call[u].mine = q \/ call[u].now = q
            /\ UNCHANGED <<emitted, mixed, queue, wire>>
  <1>1. /\ call[t].at \in {"send", "attach"} /\ call[t].now # None
        /\ call[t].mine \in Packets /\ call[t] \in Calls
        /\ UNCHANGED <<emitted, mixed, queue, wire>>
    BY DEF SendText, SendAttachment, CallsInv, CallsFit, TypeOK, sockVars, history
  <1>2. call[t].now \in Packets
    BY <1>1 DEF Calls
  <1>3. CASE SendText(t) /\ Goes(t, "attach")
    <2>1. /\ call' \in [Threads -> Calls] /\ call'[t].at = "attach"
          /\ \A u \in Threads : u # t => call'[u] = call[u]
          /\ call'[t].mine = call[t].mine /\ call'[t].now = call[t].now
      BY <1>3, AtGoes DEF Stations
    <2>2. io' = Append(io, Pay("text", call[t].now)) /\ call[t].at = "send"
      BY <1>3 DEF SendText, Pay
    <2> USE DEF Kinds
    <2> WITNESS "text" \in Kinds
    <2> QED
      BY <1>1, <1>2, <2>1, <2>2 DEF Holds, Waits, Payloads, Pay, Kinds
  <1>4. CASE Passed(t)
    <2>1. /\ call' \in [Threads -> Calls]
          /\ \A u \in Threads : u # t => call'[u] = call[u]
          /\ call'[t].now = None
          /\ \/ call[t].now = call[t].mine /\ call'[t] = NoCall
             \/ call[t].now # call[t].mine /\ call'[t].at = "drain" /\ call'[t].mine = call[t].mine
      BY <1>4, PassedDoes
    <2>2. PICK kind \in Kinds : io' = Append(io, Pay(kind, call[t].now)) /\ Holds(t, call[t].now, kind)
      BY <1>1 DEF SendText, SendAttachment, Pay, Kinds, Holds
    <2>3. \A q \in Packets, k \in Kinds : ~Holds(t, q, k)' /\ (Waits(t, q)' => Waits(t, q))
      BY <1>1, <2>1, PacketsAssumption DEF Holds, Waits, NoCall
    <2>4. \A u \in Threads, q \in Packets, k \in Kinds :
                  /\ Waits(u, q)' => Waits(u, q)
                  /\ Holds(u, q, k)' => Holds(u, q, k) /\ ~(u = t /\ k = kind)
      BY <2>1, <2>3 DEF Holds, Waits
    <2>5. /\ call'[t].at \in {"idle", "drain", "attach"}
          /\ \A u \in Threads : \/ call'[u].at \in {"send", "attach"}
                                       /\ call[u].at \in {"send", "attach"}
                                \/ call'[u].at \notin {"send", "attach"}
          /\ \A u \in Threads, q \in Packets : call'[u].mine = q \/ call'[u].now = q
                                => call[u].mine = q \/ call[u].now = q
      BY <2>1, PacketsAssumption DEF NoCall
    <2>6. Pay(kind, call[t].now) \in Payloads
      BY <1>2 DEF Pay, Payloads, Kinds
    <2> WITNESS kind \in Kinds
    <2> QED
      BY <1>1, <1>2, <2>1, <2>2, <2>4, <2>5, <2>6
  <1> QED
    BY <1>3, <1>4 DEF SendText, SendAttachment

LEMMA SendPlaces ==
  ASSUME TypeOK, CallsInv, PlacesInv, NEW t \in Threads, SendText(t) \/ SendAttachment(t)
  PROVE  PlacesInv'
  <1> DEFINE n == call[t].now
  <1>1. PICK kind \in Kinds :
            /\ n \in Packets /\ Holds(t, n, kind)
            /\ io' = Append(io, Pay(kind, n)) /\ Pay(kind, n) \in Payloads
            /\ \A u \in Threads, q \in Packets, k \in Kinds :
                  /\ Waits(u, q)' => Waits(u, q)
                  /\ Holds(u, q, k)' => Holds(u, q, k) /\ ~(u = t /\ k = kind)
            /\ \A u \in Threads : \/ call'[u].at \in {"send", "attach"}
                                       /\ call[u].at \in {"send", "attach"}
                                  \/ call'[u].at \notin {"send", "attach"}
            /\ \A u \in Threads, q \in Packets : call'[u].mine = q \/ call'[u].now = q
                                  => call[u].mine = q \/ call[u].now = q
            /\ UNCHANGED <<emitted, mixed, queue, wire>>
    BY SendDoes
  <1>2. Gains(io', io, {Pay(kind, n)})
    <2>1. io \in Seq(Payloads \cup Reads) /\ Pay(kind, n) \in Payloads \cup Reads
      BY <1>1 DEF TypeOK
    <2> QED
      BY <1>1, <2>1, GainsOne
  <1>3. \A q : IsEmitted(q)' <=> IsEmitted(q)
    BY <1>1 DEF IsEmitted
  <1>4. IsEmitted(n)
    BY <1>1 DEF PlacesInv, OnlyEmitted, Holds
  <1>5. \A p, q, k, l : Pay(k, p) = Pay(l, q) <=> k = l /\ p = q
    BY DEF Pay
  <1>6. \A u \in Threads : call[u].at \in {"send", "attach"} => call[u].at # "idle"
    OBVIOUS
  <1>7. OneHolder => \A u \in Threads : \A k, p : Holds(u, p, k) => u = t /\ p = n
    BY <1>1 DEF OneHolder, Holds
  <1> HIDE DEF n
  <1>8. OnlyEmitted'
    <2> SUFFICES ASSUME NEW p \in Packets, ~IsEmitted(p)
                 PROVE  /\ \A u \in Threads : call'[u].mine # p /\ call'[u].now # p
                        /\ ~Has(queue', p)
                        /\ \A k \in Kinds : ~Has(io', Pay(k, p)) /\ ~Has(wire', Pay(k, p))
      BY <1>3 DEF OnlyEmitted
    <2> QED
      BY <1>1, <1>2, <1>4, <1>5 DEF PlacesInv, OnlyEmitted, Gains
  <1>9. OnePlace'
    <2> SUFFICES ASSUME NEW p \in Packets, NEW k \in Kinds PROVE OnePlaceOf(p, k)'
      BY DEF OnePlace
    <2>1. CASE p = n /\ k = kind
      BY <1>1, <1>2, <1>5, <2>1 DEF PlacesInv, OnePlace, OnePlaceOf, Gains
    <2>2. CASE ~(p = n /\ k = kind)
      BY <1>1, <1>2, <1>5, <2>2 DEF PlacesInv, OnePlace, OnePlaceOf, Gains
    <2> QED
      BY <2>1, <2>2
  <1>10. InOrder'
    <2>1. ~mixed' => OneHolder'
      BY <1>1 DEF PlacesInv, InOrder, OneHolder
    <2>2. ASSUME ~mixed', NEW p \in Packets, NEW q \in Packets, p # q, Behind(p, q)
          PROVE  Behind(p, q)'
      <3>1. OneHolder
        BY <1>1, <2>2 DEF PlacesInv, InOrder
      <3>2. Has(queue, p) => ~Holds(t, q, "text")
        BY <2>2 DEF Behind
      <3>3. /\ "text" \in Kinds
            /\ n = p /\ kind = "text" => ~Has(io, Pay("text", q)) /\ ~Has(wire, Pay("text", q))
        BY <1>1, <2>2 DEF Behind, Kinds
      <3>4. Before(io', Pay("text", p), Pay("text", q))
        BY <1>2, <1>5, <2>2, <3>3 DEF Behind, Gains
      <3>5. Has(queue', p) =>
              /\ \A u \in Threads : ~Holds(u, q, "text")'
              /\ ~Has(io', Pay("text", q)) /\ ~Has(wire', Pay("text", q))
        BY <1>1, <1>2, <1>5, <2>2, <3>2, <3>3 DEF Behind, Gains
      <3>6. \A u \in Threads : Holds(u, p, "text")' =>
              ~Has(io', Pay("text", q)) /\ ~Has(wire', Pay("text", q))
        BY <1>1, <1>2, <1>5, <1>7, <2>2, <3>1, <3>3 DEF Behind, Gains
      <3>7. Has(io', Pay("text", p)) => ~Has(wire', Pay("text", q))
        BY <1>1, <1>2, <1>5, <2>2, <3>3 DEF Behind, Gains
      <3> QED
        BY <1>1, <2>2, <3>4, <3>5, <3>6, <3>7 DEF Behind
    <2> QED
      BY <1>1, <2>1, <2>2, OrderStep DEF PlacesInv
  <1> QED
    BY <1>8, <1>9, <1>10 DEF PlacesInv

\* Nothing changes where a call is.
LEMMA SameCalls ==
  ASSUME UNCHANGED <<call, emitted>>
  PROVE  /\ \A q : IsEmitted(q)' <=> IsEmitted(q)
         /\ \A u \in Threads, q \in Packets, kind \in Kinds :
               /\ Waits(u, q)' <=> Waits(u, q)
               /\ Holds(u, q, kind)' <=> Holds(u, q, kind)
         /\ OneHolder => OneHolder'
  BY DEF IsEmitted, Waits, Holds, OneHolder

LEMMA SendImplPlaces ==
  ASSUME TypeOK, CallsInv, PlacesInv, SendImpl
  PROVE  PlacesInv'
  <1> DEFINE x == Head(io)
  <1>1. UNCHANGED <<queue, call, emitted, mixed>> /\ OnWire(<<x>>) /\ io # <<>> /\ io' = Tail(io)
    BY DEF SendImpl, Takes, sockVars, history
  <1>2. PICK k \in Kinds : x = Pay(k, x.p)
    <2>1. PICK k \in Kinds : Takes(k)
      BY DEF SendImpl, Kinds
    <2> QED
      BY <2>1, TakesDoes
  <1>3. io \in Seq(Payloads \cup Reads) /\ wire \in Seq(Payloads \cup {Opening})
    BY DEF TypeOK
  <1>4. x \in Payloads
    BY <1>1, <1>2, <1>3, HeadTailProperties DEF Payloads, Reads, Pay, Kinds
  <1>5. /\ \A z : Has(io, z) <=> z = x \/ Has(io', z)
        /\ \A z : Once(io, z) => Once(io', z) /\ ~(z = x /\ Has(io', z))
        /\ \A z, y : Before(io, z, y) => Before(io', z, y) /\ (y = x => ~Has(io, z))
    BY <1>1, <1>3, TailHas
  <1>6. Gains(wire', wire, {x})
    <2>1. wire' = wire \/ wire' = Append(wire, x)
      BY <1>1, <1>4, WireOne
    <2>2. CASE wire' = wire
      BY <2>2, GainsNothing, GainsMore
    <2>3. CASE wire' = Append(wire, x)
      BY <1>3, <1>4, <2>3, GainsOne
    <2> QED
      BY <2>1, <2>2, <2>3
  <1>7. /\ \A q : IsEmitted(q)' <=> IsEmitted(q)
        /\ \A u \in Threads, q \in Packets, kind \in Kinds :
              /\ Waits(u, q)' <=> Waits(u, q)
              /\ Holds(u, q, kind)' <=> Holds(u, q, kind)
        /\ OneHolder => OneHolder'
    BY <1>1, SameCalls
  <1> HIDE DEF x
  <1>8. OnlyEmitted'
    <2> SUFFICES ASSUME NEW p \in Packets, ~IsEmitted(p)
                 PROVE  /\ \A u \in Threads : call'[u].mine # p /\ call'[u].now # p
                        /\ ~Has(queue', p)
                        /\ \A kind \in Kinds : ~Has(io', Pay(kind, p)) /\ ~Has(wire', Pay(kind, p))
      BY <1>7 DEF OnlyEmitted
    <2> QED
      BY <1>1, <1>5, <1>6 DEF PlacesInv, OnlyEmitted, Gains
  <1>9. OnePlace'
    <2> SUFFICES ASSUME NEW p \in Packets, NEW kind \in Kinds PROVE OnePlaceOf(p, kind)'
      BY DEF OnePlace
    <2> QED
      BY <1>1, <1>5, <1>6, <1>7 DEF PlacesInv, OnePlace, OnePlaceOf, Gains
  <1>10. InOrder'
    <2>1. ~mixed' => OneHolder'
      BY <1>1, <1>7 DEF PlacesInv, InOrder
    <2>2. ASSUME ~mixed', NEW p \in Packets, NEW q \in Packets, p # q, Behind(p, q)
          PROVE  Behind(p, q)'
      <3> DEFINE a == Pay("text", p)
                 b == Pay("text", q)
      <3>1. a # b
        BY <2>2 DEF Pay
      <3>2. "text" \in Kinds
        BY DEF Kinds
      <3>3. x = a => ~Has(wire, b) /\ b # x
        BY <1>5, <2>2, <3>1 DEF Behind
      <3>4. Before(wire', a, b) /\ Before(io', a, b)
        BY <1>5, <1>6, <2>2, <3>1, <3>3 DEF Behind, Gains
      <3>5. Has(io', a) => ~Has(wire', b)
        BY <1>5, <1>6, <2>2 DEF Behind, Gains
      <3> QED
        BY <1>1, <1>5, <1>6, <1>7, <2>2, <3>4, <3>5 DEF Behind, Gains, Kinds
    <2> QED
      BY <1>1, <2>1, <2>2, OrderStep DEF PlacesInv
  <1> QED
    BY <1>8, <1>9, <1>10 DEF PlacesInv

LEMMA NetDrainPlaces ==
  ASSUME TypeOK, CallsInv, PlacesInv, NetDrain
  PROVE  PlacesInv'
  <1>1. UNCHANGED <<call, io, emitted>> /\ mixed' = (mixed \/ HeldByOther(None) \/ Posted)
    BY DEF NetDrain
  <1>2. /\ \A q : IsEmitted(q)' <=> IsEmitted(q)
        /\ \A u \in Threads, q \in Packets, kind \in Kinds :
              /\ Waits(u, q)' <=> Waits(u, q)
              /\ Holds(u, q, kind)' <=> Holds(u, q, kind)
        /\ OneHolder => OneHolder'
    BY <1>1, SameCalls
  <1>3. ASSUME ~mixed'
        PROVE  /\ \A kind \in Kinds : \A p : ~Has(io, Pay(kind, p))
               /\ \A u \in Threads : \A p, kind : ~Holds(u, p, kind)
    <2>1. ~HeldByOther(None) /\ ~Posted
      BY <1>1, <1>3
    <2>2. \A kind \in Kinds : \A p : ~Has(io, Pay(kind, p))
      <3> SUFFICES ASSUME NEW kind \in Kinds, NEW p, NEW i \in DOMAIN io, io[i] = Pay(kind, p)
                   PROVE  FALSE
        BY DEF Has
      <3>1. io[i].kind = kind
        BY DEF Pay
      <3> QED
        BY <2>1, <3>1 DEF Posted, Kinds
    <2>3. \A u \in Threads : \A p, kind : ~Holds(u, p, kind)
      BY <2>1, PacketsAssumption DEF HeldByOther, Holds
    <2> QED
      BY <2>2, <2>3
  <1>4. CASE queue = <<>>
    <2>1. UNCHANGED queue /\ (OnWire(PayloadsOf(None)) \/ OnWire(<<>>))
      BY <1>4 DEF NetDrain
    <2>2. Within(wire', wire)
      <3>1. CASE OnWire(PayloadsOf(None))
        <4>1. Gains(wire', wire, {Pay("text", None), Pay("attachment", None)})
          BY <3>1, NetWrites
        <4>2. \A kind \in Kinds, p \in Packets :
                  Pay(kind, p) \notin {Pay("text", None), Pay("attachment", None)}
          BY PacketsAssumption DEF Pay
        <4>3. \A kind \in Kinds, p, q \in Packets :
                  Pay(kind, p) = Pay(kind, q) => p = q
          BY DEF Pay
        <4>4. \A y : Before(wire, y, y) => Before(wire', y, y) \/ Has(wire', y)
          BY DEF Before, Has
        <4>5. \A y : Before(wire, y, y) => ~Has(wire, y)
          BY DEF TypeOK, Before, Has
        <4> QED
          BY <4>1, <4>2, <4>3, <4>4, <4>5 DEF Gains, Within
      <3>2. CASE OnWire(<<>>)
        <4>1. wire' = wire
          BY <3>2, ConcatEmptySeq DEF OnWire, TypeOK
        <4> QED
          BY <4>1, WithinSame
      <3> QED
        BY <2>1, <3>1, <3>2
    <2> QED
      BY <1>1, <2>1, <2>2, WithinSame, PlacesFrame DEF CallsInv
  <1>5. CASE queue # <<>>
    <2> DEFINE n == Head(queue)
               more == {Pay("text", n), Pay("attachment", n)}
    <2>1. queue' = Tail(queue) /\ OnWire(PayloadsOf(n))
      BY <1>5 DEF NetDrain
    <2>2. n \in Packets /\ queue \in Seq(Packets)
      BY <1>5, HeadTailProperties DEF TypeOK
    <2>3. /\ \A z : Has(queue, z) <=> z = n \/ Has(queue', z)
          /\ \A z : Once(queue, z) => Once(queue', z) /\ ~(z = n /\ Has(queue', z))
          /\ \A z, y : Before(queue, z, y) => Before(queue', z, y) /\ (y = n => ~Has(queue, z))
      BY <1>5, <2>1, <2>2, TailHas
    <2>4. Gains(wire', wire, more)
      BY <2>1, <2>2, NetWrites
    <2>5. \A kind \in Kinds, p \in Packets : Pay(kind, p) \in more <=> p = n
      BY DEF Pay, Kinds
    <2> HIDE DEF n, more
    <2>6. OnlyEmitted'
      <3> SUFFICES ASSUME NEW p \in Packets, ~IsEmitted(p)
                   PROVE  /\ \A u \in Threads : call'[u].mine # p /\ call'[u].now # p
                          /\ ~Has(queue', p)
                          /\ \A kind \in Kinds : ~Has(io', Pay(kind, p)) /\ ~Has(wire', Pay(kind, p))
        BY <1>2 DEF OnlyEmitted
      <3> QED
        BY <1>1, <2>3, <2>4, <2>5 DEF PlacesInv, OnlyEmitted, Gains
    <2>7. OnePlace'
      <3> SUFFICES ASSUME NEW p \in Packets, NEW kind \in Kinds PROVE OnePlaceOf(p, kind)'
        BY DEF OnePlace
      <3> QED
        BY <1>1, <1>2, <2>3, <2>4, <2>5 DEF PlacesInv, OnePlace, OnePlaceOf, Gains
    <2>8. InOrder'
      <3>1. ~mixed' => OneHolder'
        BY <1>1, <1>2 DEF PlacesInv, InOrder
      <3>2. ASSUME ~mixed', NEW p \in Packets, NEW q \in Packets, p # q, Behind(p, q)
            PROVE  Behind(p, q)'
        <4> DEFINE a == Pay("text", p)
                   b == Pay("text", q)
        <4>1. a # b /\ ~Has(io', a) /\ ~Has(io', b)
          BY <1>1, <1>3, <3>2 DEF Pay, Kinds
        <4>2. \A u \in Threads : Holds(u, p, "text") => FALSE
          BY <1>3, <3>2
        <4>3. (a \in more <=> p = n) /\ (b \in more <=> q = n)
          BY <2>5 DEF Kinds
        <4>4. a \in more => ~Has(wire, b) /\ b \notin more
          BY <2>3, <3>2, <4>3 DEF Behind
        <4>5. Before(wire', a, b)
          BY <2>4, <3>2, <4>1, <4>4 DEF Behind, Gains
        <4>6. Has(queue', p) => ~Has(wire', b)
          BY <2>3, <2>4, <3>2, <4>3 DEF Behind, Gains
        <4> QED
          BY <1>1, <1>2, <2>3, <3>2, <4>1, <4>2, <4>5, <4>6 DEF Behind, Kinds
      <3> QED
        BY <1>1, <3>1, <3>2, OrderStep DEF PlacesInv
    <2> QED
      BY <2>6, <2>7, <2>8 DEF PlacesInv
  <1> QED
    BY <1>4, <1>5

LEMMA IdPlaces ==
  ASSUME TypeOK, CallsInv, PlacesInv, NEW t \in Threads,
         ReadId(t) \/ WriteId(t) \/ Register(t) \/ Route(t)
  PROVE  PlacesInv'
  <1>1. UNCHANGED <<emitted, mixed, queue, io, wire>>
    BY DEF ReadId, WriteId, Register, Route, sockVars, history
  <1>2. \A u \in Threads : /\ call'[u].mine = call[u].mine /\ call'[u].now = call[u].now
                           /\ call'[u].at = call[u].at
                                \/ {call'[u].at, call[u].at} \cap {"send", "attach"} = {}
    <2>1. CASE ReadId(t)
      <3>1. call[t].at = "count"
        BY <2>1 DEF ReadId
      <3> QED
        BY <2>1, <3>1, ReadIdCalls
    <2>2. CASE WriteId(t) \/ Register(t) \/ Route(t)
      <3>1. PICK at \in {"register", "route", "push", "drain"} : Goes(t, at)
        BY <2>2 DEF WriteId, Register, Route
      <3>2. call[t].at \in {"count", "register", "route"}
        BY <2>2 DEF WriteId, Register, Route
      <3>3. /\ \A u \in Threads : u # t => call'[u] = call[u]
            /\ call'[t].at = at
            /\ call'[t].mine = call[t].mine /\ call'[t].now = call[t].now
        BY <3>1, AtGoes DEF Stations
      <3> QED
        BY <3>2, <3>3
    <2> QED
      BY <2>1, <2>2
  <1>3. Within(io', io) /\ Within(wire', wire)
    BY <1>1, WithinSame
  <1> QED
    BY <1>1, <1>2, <1>3, PlacesFrame DEF CallsInv

\* Handlers that write nothing, and the server.
LEMMA ReadingPlaces ==
  ASSUME TypeOK, CallsInv, PlacesInv,
         \/ OnConnected \/ OnEvent \/ OnAck \/ OnDisconnect \/ ClearQueue \/ OnOpen
         \/ Accept \/ ServerEvent \/ ServerAnswers \/ Drop
  PROVE  PlacesInv'
  <1>1. UNCHANGED <<call, emitted, mixed>>
    BY DEF OnConnected, OnEvent, OnAck, OnDisconnect, ClearQueue, OnOpen, Accept, ServerEvent,
           ServerAnswers, Drop, history
  <1>2. CASE OnConnected \/ OnEvent \/ OnAck \/ OnDisconnect
    <2>1. UNCHANGED <<queue, wire>> /\ \E kind \in Heard : Takes(kind)
      BY <1>2 DEF OnConnected, OnEvent, OnAck, OnDisconnect, sockVars, Heard
    <2>2. Within(io', io) /\ Within(wire', wire)
      BY <2>1, TakesDoes, WithinSame
    <2> QED
      BY <1>1, <2>1, <2>2, PlacesFrame DEF CallsInv
  <1>3. CASE Accept \/ ServerEvent \/ ServerAnswers \/ Drop
    <2>1. UNCHANGED <<queue, wire>>
          /\ \E kind \in Heard, p \in Packets \cup {None} : Arrives(kind, p)
      BY <1>3, PacketsAssumption DEF Accept, ServerEvent, ServerAnswers, Drop, sockVars, Heard
    <2>2. Within(io', io) /\ Within(wire', wire)
      BY <2>1, ArrivesDoes, WithinSame
    <2> QED
      BY <1>1, <2>1, <2>2, PlacesFrame DEF CallsInv
  <1>4. CASE ClearQueue
    <2>1. queue' = <<>> /\ UNCHANGED <<io, wire>>
      BY <1>4 DEF ClearQueue
    <2>2. Within(io', io) /\ Within(wire', wire)
      BY <2>1, WithinSame
    <2> QED
      BY <1>1, <2>1, <2>2, PlacesFrame DEF CallsInv
  <1>5. CASE OnOpen
    <2>1. UNCHANGED <<queue, io>> /\ wire' = Append(wire, Opening)
      BY <1>5 DEF OnOpen, sockVars
    <2>2. wire \in Seq(Payloads \cup {Opening})
      BY DEF TypeOK
    <2>3. \A kind \in Kinds, p \in Packets : Opening # Pay(kind, p)
      BY DEF Opening, Pay, Kinds
    <2>4. Within(io', io) /\ Within(wire', wire)
      BY <2>1, <2>2, <2>3, WithinSame, WithinAppend
    <2> QED
      BY <1>1, <2>1, <2>4, PlacesFrame DEF CallsInv
  <1> QED
    BY <1>2, <1>3, <1>4, <1>5

LEMMA PlacesStep ==
  ASSUME TypeOK, CallsInv, PlacesInv, Next
  PROVE  PlacesInv'
  <1>1. ASSUME NEW t \in Threads,
               \/ Emit(t) \/ ReadId(t) \/ WriteId(t) \/ Register(t)
               \/ Route(t) \/ Push(t) \/ Drain(t) \/ SendText(t) \/ SendAttachment(t)
        PROVE  PlacesInv'
    BY <1>1, EmitPlaces, IdPlaces, PushPlaces, DrainPlaces, SendPlaces
  <1>2. CASE SendImpl \/ NetDrain
    BY <1>2, SendImplPlaces, NetDrainPlaces
  <1>3. CASE OnConnected \/ OnEvent \/ OnAck \/ OnDisconnect \/ ClearQueue \/ OnOpen
             \/ Accept \/ ServerEvent \/ ServerAnswers \/ Drop
    BY <1>3, ReadingPlaces
  <1> QED
    BY <1>1, <1>2, <1>3 DEF Next

LEMMA CallsStep ==
  ASSUME TypeOK, CallsInv, Next
  PROVE  CallsInv'
  <1>1. ASSUME NEW t \in Threads,
               \/ Emit(t) \/ ReadId(t) \/ WriteId(t) \/ Register(t)
               \/ Route(t) \/ Push(t) \/ Drain(t) \/ SendText(t) \/ SendAttachment(t)
        PROVE  CallsInv'
    BY <1>1, EmitCalls, ReadIdCalls, IdCalls, PushCalls, DrainCalls, SendCalls
  <1>2. CASE NetworkStep
    BY <1>2, NetworkCalls
  <1> QED
    BY <1>1, <1>2 DEF Next, NetworkStep

-----------------------------------------------------------------------------
(* Ids and callbacks.                                                      *)

LEMMA CountedFinite ==
  /\ Counted \subseteq Packets /\ IsFiniteSet(Counted)
  /\ Cardinality(Counted) \in Nat /\ Cardinality(Packets) \in Nat
  /\ Cardinality(Counted) <= Cardinality(Packets)
  /\ \A p \in Packets \ Counted :
        /\ Cardinality(Counted \cup {p}) = Cardinality(Counted) + 1
        /\ Cardinality(Counted) + 1 <= Cardinality(Packets)
  <1>1. Counted \subseteq Packets /\ IsFiniteSet(Packets)
    BY PacketsAssumption DEF Counted
  <1>2. /\ IsFiniteSet(Counted)
        /\ Cardinality(Counted) \in Nat /\ Cardinality(Packets) \in Nat
        /\ Cardinality(Counted) <= Cardinality(Packets)
    BY <1>1, FS_Subset, FS_CardinalityType
  <1>3. ASSUME NEW p \in Packets \ Counted
        PROVE  /\ Cardinality(Counted \cup {p}) = Cardinality(Counted) + 1
               /\ Cardinality(Counted) + 1 <= Cardinality(Packets)
    <2>1. Cardinality(Counted \cup {p}) = Cardinality(Counted) + 1
      BY <1>2, FS_AddElement
    <2>2. Counted \cup {p} \subseteq Packets
      BY <1>1
    <2>3. Cardinality(Counted \cup {p}) <= Cardinality(Packets)
      BY <1>1, <2>2, FS_Subset
    <2> QED
      BY <2>1, <2>3
  <1> QED
    BY <1>1, <1>2, <1>3

\* The packet of a call is emitted, and nobody else's.
LEMMA MineEmitted ==
  ASSUME TypeOK, CallsInv, NEW t \in Threads, call[t].at # "idle"
  PROVE  /\ call[t].mine \in Packets /\ IsEmitted(call[t].mine)
         /\ \A u \in Threads : call[u].mine = call[t].mine => u = t
  <1> DEFINE m == call[t].mine
  <1>1. m \in Packets /\ emitted[t] # <<>> /\ emitted[t][Len(emitted[t])] = m
    BY DEF CallsInv, CallsFit, EmittedOnce
  <1>2. Has(emitted[t], m)
    BY <1>1, LenProperties, EmptySeq DEF TypeOK, Has
  <1>3. ASSUME NEW u \in Threads, call[u].mine = m PROVE u = t
    <2>1. call[u].at # "idle"
      BY <1>1, <1>3, PacketsAssumption DEF CallsInv, CallsFit, NoCall
    <2>2. emitted[u] # <<>> /\ emitted[u][Len(emitted[u])] = m
      BY <1>3, <2>1 DEF CallsInv, EmittedOnce
    <2>3. Has(emitted[u], m)
      BY <2>2, LenProperties, EmptySeq DEF TypeOK, Has
    <2> QED
      BY <1>1, <1>2, <2>3 DEF CallsInv, EmittedOnce
  <1> QED
    BY <1>1, <1>2, <1>3 DEF IsEmitted

LEMMA EmitCallbacks ==
  ASSUME TypeOK, CallsInv, CallbacksInv, NEW t \in Threads, Emit(t)
  PROVE  CallbacksInv'
  <1>1. PICK p \in Packets :
            /\ ~IsEmitted(p)
            /\ emitted'[t] = Append(emitted[t], p)
            /\ \A u \in Threads : u # t => emitted'[u] = emitted[u] /\ call'[u] = call[u]
            /\ call'[t].at = IF p \in Acked THEN "count" ELSE "route"
            /\ call'[t].mine = p /\ call'[t].id = 0
    BY EmitDoes
  <1>2. emitted[t] \in Seq(Packets) /\ call[t] = NoCall
        /\ UNCHANGED <<eventId, acks, idOf, io, called, handled, twice>>
    BY DEF TypeOK, Emit, ackVars
  <1>3. \A q : IsEmitted(q)' <=> IsEmitted(q) \/ q = p
    <2>1. \A q : Has(emitted'[t], q) <=> Has(emitted[t], q) \/ q = p
      BY <1>1, <1>2, AppendHas
    <2> QED
      BY <1>1, <2>1 DEF IsEmitted
  <1>4. \A u \in Threads, q \in Packets :
           Unregistered(u, q)' <=> Unregistered(u, q) \/ (u = t /\ q = p /\ p \in Acked)
    BY <1>1, <1>2 DEF Unregistered, NoCall
  <1>5. Counted' = Counted
    <2>1. \A q \in Acked : IsCounted(q)' <=> IsCounted(q)
      BY <1>1, <1>2, <1>3, PacketsAssumption DEF IsCounted, NoCall
    <2> QED
      BY <2>1 DEF Counted
  <1>6. IdsBounded'
    BY <1>1, <1>2, <1>5, CountedFinite DEF CallbacksInv, IdsBounded
  <1>7. Registered'
    BY <1>2, <1>3, <1>4, PacketsAssumption DEF CallbacksInv, Registered
  <1>8. CallbacksFit'
    <2>1. \A i \in Ids : acks[i] # None => acks[i] \in Acked /\ acks[i] # p
      BY <1>1 DEF TypeOK, CallbacksInv, CallbacksFit
    <2>2. \A k \in DOMAIN called : called[k][1] # p
      <3>1. \A k \in DOMAIN called : called[k][1] \in Acked
        BY DEF TypeOK
      <3>2. p \in Acked => \A k \in DOMAIN called : called[k][1] # p
        BY <1>1 DEF CallbacksInv, CallbacksFit
      <3> QED
        BY <3>1, <3>2
    <2> QED
      BY <1>2, <1>3, <1>4, <2>1, <2>2, PacketsAssumption DEF CallbacksInv, CallbacksFit
  <1>9. IdsDiffer'
    BY <1>1, <1>2 DEF CallbacksInv, IdsDiffer, TakenDiffer, RegisterDiffer, RegisteredDiffer
  <1>10. CalledOnce' /\ AnswersFindCallbacks'
    BY <1>2 DEF CallbacksInv, CalledOnce, AnswersFindCallbacks
  <1> QED
    BY <1>6, <1>7, <1>8, <1>9, <1>10 DEF CallbacksInv

LEMMA ReadIdCallbacks ==
  ASSUME TypeOK, CallsInv, CallbacksInv, NEW t \in Threads, ReadId(t)
  PROVE  CallbacksInv'
  <1>1. /\ \A u \in Threads : u # t => call'[u] = call[u]
        /\ call'[t].at = "count" /\ call'[t].mine = call[t].mine /\ call'[t].id = eventId
    BY ReadIdCalls
  <1>2. /\ call[t].at = "count" /\ call[t].id = 0
        /\ twice' = (twice \/ \E u \in Threads : call[u].at = "count" /\ call[u].id # 0)
        /\ UNCHANGED <<eventId, acks, idOf, emitted, called, handled, io>>
    BY DEF ReadId, ackVars
  <1>3. /\ \A q : IsEmitted(q)' <=> IsEmitted(q)
        /\ \A u \in Threads : \A q : Unregistered(u, q)' <=> Unregistered(u, q)
    BY <1>1, <1>2 DEF IsEmitted, Unregistered
  <1>4. Counted' = Counted
    <2>1. \A q : IsCounted(q)' <=> IsCounted(q)
      BY <1>1, <1>2, <1>3 DEF IsCounted
    <2> QED
      BY <2>1 DEF Counted
  <1>5. IdsBounded'
    BY <1>1, <1>2, <1>4 DEF CallbacksInv, IdsBounded
  <1>6. Registered' /\ CallbacksFit'
    BY <1>2, <1>3 DEF CallbacksInv, Registered, CallbacksFit
  <1>7. ASSUME ~twice' PROVE ~twice /\ \A u \in Threads : ~(call[u].at = "count" /\ call[u].id # 0)
    BY <1>2, <1>7
  <1>8. IdsDiffer'
    <2> SUFFICES ASSUME ~twice' PROVE TakenDiffer' /\ RegisterDiffer' /\ RegisteredDiffer'
      BY DEF IdsDiffer
    <2>1. TakenDiffer'
      BY <1>1, <1>2, <1>7 DEF TakenDiffer
    <2>2. RegisterDiffer'
      <3>1. \A u \in Threads : call'[u].at = "register" => call'[u] = call[u]
        BY <1>1
      <3>2. \A u \in Threads : call[u].at = "register" => call'[u] = call[u]
        BY <1>1, <1>2
      <3> QED
        BY <1>2, <1>7, <3>1 DEF CallbacksInv, IdsDiffer, RegisterDiffer
    <2>3. RegisteredDiffer'
      BY <1>2, <1>7 DEF CallbacksInv, IdsDiffer, RegisteredDiffer
    <2> QED
      BY <2>1, <2>2, <2>3
  <1>9. CalledOnce' /\ AnswersFindCallbacks'
    BY <1>2, <1>7 DEF CallbacksInv, CalledOnce, AnswersFindCallbacks
  <1> QED
    BY <1>5, <1>6, <1>8, <1>9 DEF CallbacksInv

LEMMA Numbers ==
  ASSUME TypeOK
  PROVE  /\ eventId \in Nat \ {0}
         /\ \A t \in Threads : call[t].id \in Ids \cup {0} /\ call[t].id \in Nat
         /\ \A p \in Packets : idOf[p] \in Ids \cup {0} /\ idOf[p] \in Nat
         /\ \A i \in Ids : i \in Nat \ {0} /\ acks[i] \in Acked \cup {None}
  <1>1. Cardinality(Packets) \in Nat
    BY CountedFinite
  <1>2. \A i \in Ids : i \in Nat \ {0}
    BY <1>1 DEF Ids
  <1>3. eventId \in Nat \ {0}
    BY <1>1, <1>2 DEF TypeOK
  <1>4. \A t \in Threads : call[t].id \in Ids \cup {0}
    BY DEF TypeOK, Calls
  <1>5. \A p \in Packets : idOf[p] \in Ids \cup {0}
    BY DEF TypeOK
  <1>6. \A i \in Ids : acks[i] \in Acked \cup {None}
    BY DEF TypeOK
  <1> QED
    BY <1>2, <1>3, <1>4, <1>5, <1>6

LEMMA WriteIdCallbacks ==
  ASSUME TypeOK, CallsInv, CallbacksInv, NEW t \in Threads, WriteId(t)
  PROVE  CallbacksInv'
  <1> DEFINE m == call[t].mine
  <1>1. /\ \A u \in Threads : u # t => call'[u] = call[u]
        /\ call'[t].at = "register" /\ call'[t].mine = m /\ call'[t].id = call[t].id
    BY AtGoes DEF WriteId, Stations
  <1>2. /\ call[t].at = "count" /\ call[t].id # 0 /\ eventId' = call[t].id + 1
        /\ UNCHANGED <<acks, idOf, emitted, called, handled, io, twice>>
    BY DEF WriteId, history
  <1>3. m \in Acked /\ IsEmitted(m) /\ \A u \in Threads : call[u].mine = m => u = t
    BY <1>2, MineEmitted DEF CallsInv, CallsFit
  <1> HIDE DEF m
  <1>4. /\ \A q : IsEmitted(q)' <=> IsEmitted(q)
        /\ \A u \in Threads : \A q : Unregistered(u, q)' <=> Unregistered(u, q)
    BY <1>1, <1>2 DEF IsEmitted, Unregistered, m
  <1>5. Counted' = Counted \cup {m} /\ m \in Packets \ Counted
    <2>1. ~IsCounted(m) /\ \A q : q = m => IsCounted(q)'
      BY <1>1, <1>2, <1>3, <1>4 DEF IsCounted, m
    <2>2. \A q : q # m => (IsCounted(q)' <=> IsCounted(q))
      BY <1>1, <1>2, <1>4 DEF IsCounted, m
    <2>3. \A q : q \in Counted' <=> q \in Counted \cup {m}
      BY <1>3, <2>1, <2>2 DEF Counted
    <2>4. m \in Packets \ Counted
      BY <1>3, <2>1, PacketsAssumption DEF Counted
    <2> QED
      BY <2>3, <2>4
  <1>6. Cardinality(Counted') = Cardinality(Counted) + 1 /\ Cardinality(Counted) \in Nat
    BY <1>5, CountedFinite
  <1>7. IdsBounded'
    <2>1. eventId' <= Cardinality(Counted') + 1
      BY <1>2, <1>6, Numbers DEF CallbacksInv, IdsBounded
    <2>2. ASSUME NEW u \in Threads, call'[u].at = "count" PROVE call'[u].id <= Cardinality(Counted') + 1
      BY <1>1, <1>6, <2>2, Numbers DEF CallbacksInv, IdsBounded
    <2> QED
      BY <2>1, <2>2 DEF IdsBounded
  <1>8. Registered' /\ CallbacksFit'
    BY <1>2, <1>4 DEF CallbacksInv, Registered, CallbacksFit
  <1>9. IdsDiffer'
    <2> SUFFICES ASSUME ~twice' PROVE TakenDiffer' /\ RegisterDiffer' /\ RegisteredDiffer'
      BY DEF IdsDiffer
    <2>1. TakenDiffer /\ RegisterDiffer /\ RegisteredDiffer
      BY <1>2 DEF CallbacksInv, IdsDiffer
    <2>2. call[t].id = eventId /\ eventId' = eventId + 1
      BY <1>2, <2>1 DEF TakenDiffer
    <2>3. TakenDiffer'
      BY <1>1, <1>2, <2>1 DEF TakenDiffer
    <2>4. RegisterDiffer'
      <3> SUFFICES ASSUME NEW u \in Threads, call'[u].at = "register"
                   PROVE  /\ call'[u].id < eventId'
                          /\ \A v \in Threads : call'[v].at = "register" /\ call'[v].id = call'[u].id
                                                   => u = v
                          /\ \A p \in Packets : idOf[p] # call'[u].id
        BY <1>2 DEF RegisterDiffer
      <3>1. CASE u = t
        BY <1>1, <2>1, <2>2, <3>1, Numbers DEF RegisterDiffer, RegisteredDiffer
      <3>2. CASE u # t
        BY <1>1, <2>1, <2>2, <3>2, Numbers DEF RegisterDiffer
      <3> QED
        BY <3>1, <3>2
    <2>5. RegisteredDiffer'
      BY <1>2, <2>1, <2>2, Numbers DEF RegisteredDiffer
    <2> QED
      BY <2>3, <2>4, <2>5
  <1>10. CalledOnce' /\ AnswersFindCallbacks'
    BY <1>2 DEF CallbacksInv, CalledOnce, AnswersFindCallbacks
  <1> QED
    BY <1>7, <1>8, <1>9, <1>10 DEF CallbacksInv

LEMMA RegisterCallbacks ==
  ASSUME TypeOK, CallsInv, CallbacksInv, NEW t \in Threads, Register(t)
  PROVE  CallbacksInv'
  <1> DEFINE m  == call[t].mine
             id == call[t].id
  <1>1. /\ \A u \in Threads : u # t => call'[u] = call[u]
        /\ call'[t].at = "route"
    BY AtGoes DEF Register, Stations
  <1>2. /\ call[t].at = "register"
        /\ acks' = [acks EXCEPT ![id] = m] /\ idOf' = [idOf EXCEPT ![m] = id]
        /\ UNCHANGED <<eventId, emitted, called, handled, io, twice>>
    BY DEF Register, history
  <1>3. m \in Acked /\ m \in Packets /\ m # None /\ IsEmitted(m)
        /\ \A u \in Threads : call[u].mine = m => u = t
    BY <1>2, MineEmitted, PacketsAssumption DEF CallsInv, CallsFit
  <1>4. id \in Ids /\ id # 0
    BY <1>2, Numbers DEF CallsInv, CallsFit
  <1>5. /\ acks'[id] = m /\ \A i \in Ids : i # id => acks'[i] = acks[i]
        /\ idOf'[m] = id /\ \A q \in Packets : q # m => idOf'[q] = idOf[q]
    BY <1>2, <1>3, <1>4 DEF TypeOK
  <1>6. Unregistered(t, m)
    BY <1>2 DEF Unregistered
  <1>7. /\ \A q : IsEmitted(q)' <=> IsEmitted(q)
        /\ \A u \in Threads : \A q : Unregistered(u, q)' <=> Unregistered(u, q) /\ q # m
    BY <1>1, <1>2, <1>3 DEF IsEmitted, Unregistered
  <1> HIDE DEF m, id
  <1>8. IdsBounded'
    <2>1. \A q : IsCounted(q)' <=> IsCounted(q)
      BY <1>1, <1>2, <1>7 DEF IsCounted
    <2>2. Counted' = Counted
      BY <2>1 DEF Counted
    <2> QED
      BY <1>1, <1>2, <2>2 DEF CallbacksInv, IdsBounded
  <1>9. Registered'
    <2>1. ASSUME NEW p \in Acked, IsEmitted(p)'
          PROVE  idOf'[p] # 0 \/ \E u \in Threads : Unregistered(u, p)'
      BY <1>4, <1>5, <1>7, <2>1, PacketsAssumption DEF CallbacksInv, Registered
    <2>2. ASSUME NEW p \in Packets \cup {None}, Has(io, Pay("answer", p)) PROVE p \in Acked /\ idOf'[p] # 0
      BY <1>4, <1>5, <2>2, PacketsAssumption DEF CallbacksInv, Registered
    <2> QED
      BY <1>2, <2>1, <2>2 DEF Registered
  <1>10. CallbacksFit'
    <2>1. \A i \in Ids : acks[i] # m
      BY <1>3, <1>6 DEF CallbacksInv, CallbacksFit
    <2>2. \A i, j \in Ids : acks'[i] = acks'[j] /\ acks'[i] # None => i = j
      BY <1>5, <2>1 DEF CallbacksInv, CallbacksFit
    <2>3. ASSUME NEW q, q # None, \E i \in Ids : acks'[i] = q
          PROVE  IsEmitted(q)' /\ \A u \in Threads : ~Unregistered(u, q)'
      BY <1>3, <1>5, <1>7, <2>3 DEF CallbacksInv, CallbacksFit
    <2>4. ASSUME NEW p \in Acked,
                 \/ ~IsEmitted(p)'
                 \/ \E u \in Threads : Unregistered(u, p)'
                 \/ \E i \in Ids : acks'[i] = p
          PROVE  \A k \in DOMAIN called : called[k][1] # p
      BY <1>5, <1>6, <1>7, <2>4 DEF CallbacksInv, CallbacksFit
    <2> QED
      BY <1>2, <2>2, <2>3, <2>4 DEF CallbacksFit
  <1>11. IdsDiffer'
    <2> SUFFICES ASSUME ~twice' PROVE TakenDiffer' /\ RegisterDiffer' /\ RegisteredDiffer'
      BY DEF IdsDiffer
    <2>1. TakenDiffer /\ RegisterDiffer /\ RegisteredDiffer
      BY <1>2 DEF CallbacksInv, IdsDiffer
    <2>2. TakenDiffer'
      BY <1>1, <1>2, <2>1 DEF TakenDiffer
    <2>3. RegisterDiffer'
      BY <1>1, <1>2, <1>5, <2>1 DEF RegisterDiffer, id
    <2>4. RegisteredDiffer'
      <3> SUFFICES ASSUME NEW p \in Packets
                   PROVE  /\ idOf'[p] < eventId
                          /\ \A q \in Packets : idOf'[p] = idOf'[q] /\ idOf'[p] # 0 => p = q
                          /\ idOf'[p] # 0 => acks'[idOf'[p]] = p \/ p \in handled
        BY <1>2 DEF RegisteredDiffer
      <3>1. id < eventId /\ \A q \in Packets : idOf[q] # id
        BY <1>2, <2>1 DEF RegisterDiffer, id
      <3>2. CASE p = m
        BY <1>5, <3>1, <3>2
      <3>3. CASE p # m
        <4>1. idOf[p] # 0 => idOf[p] \in Ids
          BY Numbers
        <4> QED
          BY <1>5, <2>1, <3>1, <3>3, <4>1 DEF RegisteredDiffer
      <3> QED
        BY <3>2, <3>3
    <2> QED
      BY <2>2, <2>3, <2>4
  <1>12. CalledOnce' /\ AnswersFindCallbacks'
    BY <1>2 DEF CallbacksInv, CalledOnce, AnswersFindCallbacks
  <1> QED
    BY <1>8, <1>9, <1>10, <1>11, <1>12 DEF CallbacksInv

\* The steps of a call after its registration.
LEMMA QuietCallbacks ==
  ASSUME TypeOK, CallsInv, CallbacksInv, NEW t \in Threads,
         Route(t) \/ Push(t) \/ Drain(t) \/ SendText(t) \/ SendAttachment(t)
  PROVE  CallbacksInv'
  <1>1. /\ UNCHANGED <<eventId, acks, idOf, emitted, called, handled, twice>>
        /\ call[t].at \in {"route", "push", "drain", "send", "attach"}
    BY DEF Route, Push, Drain, SendText, SendAttachment, ackVars, history
  <1>2. /\ \A u \in Threads : u # t => call'[u] = call[u]
        /\ call'[t].at \notin {"count", "register"}
    <2>1. CASE \E at \in {"push", "drain", "attach"} : Goes(t, at)
      BY <2>1, AtGoes DEF Stations
    <2>2. CASE Push(t)
      BY <2>2, NoCallFits, CallGoes DEF Push, NoCall
    <2>3. CASE Drain(t)
      BY <2>3, DrainDoes DEF CallsInv
    <2>4. CASE Passed(t)
      BY <2>4, PassedDoes DEF NoCall
    <2> QED
      BY <2>1, <2>2, <2>3, <2>4 DEF Route, SendText, SendAttachment
  <1>3. \A p \in Packets \cup {None} : Has(io', Pay("answer", p)) => Has(io, Pay("answer", p))
    <2>1. CASE io' = io
      BY <2>1
    <2>2. CASE io' # io
      <3>1. PICK kind \in Kinds : io' = Append(io, Pay(kind, call[t].now))
        BY <2>2 DEF Route, Push, Drain, SendText, SendAttachment, Kinds, Pay
      <3>2. io \in Seq(Payloads \cup Reads) /\ Pay(kind, call[t].now) \in Payloads \cup Reads
        BY DEF TypeOK, Pay, Payloads, Kinds, Calls
      <3>3. \A p : Pay("answer", p) # Pay(kind, call[t].now)
        BY DEF Pay, Kinds
      <3> QED
        BY <3>1, <3>2, <3>3, AppendHas
    <2> QED
      BY <2>1, <2>2
  <1> QED
    BY <1>1, <1>2, <1>3, CallbacksFrame

\* What the server answers was sent, and registered before.
LEMMA AnswersCallbacks ==
  ASSUME TypeOK, CallsInv, CallbacksInv, PlacesInv, ServerAnswers
  PROVE  CallbacksInv'
  <1>1. PICK p \in Acked : Arrived(p) /\ Arrives("answer", p)
    BY DEF ServerAnswers
  <1>2. UNCHANGED <<eventId, acks, idOf, call, emitted, called, handled, twice>>
    BY DEF ServerAnswers, ackVars, history
  <1>3. \A x : Has(io', x) <=> Has(io, x) \/ x = Pay("answer", p)
    BY <1>1, PacketsAssumption, ArrivesDoes DEF Heard
  <1>4. Has(wire, Pay("text", p)) /\ p \in Packets
    BY <1>1, PacketsAssumption DEF Arrived, Has, Pay
  <1>5. IsEmitted(p)
    BY <1>4 DEF PlacesInv, OnlyEmitted, Kinds
  <1>6. ASSUME NEW t \in Threads PROVE ~Unregistered(t, p)
    <2> SUFFICES ASSUME Unregistered(t, p) PROVE FALSE
      OBVIOUS
    <2>1. call[t].mine = p /\ call[t].now = None
      BY DEF Unregistered, CallsInv, CallsFit
    <2>2. Waits(t, p)
      BY <1>4, <2>1, PacketsAssumption DEF Waits
    <2> QED
      BY <1>4, <2>2 DEF PlacesInv, OnePlace, OnePlaceOf, Kinds
  <1>7. idOf[p] # 0
    BY <1>5, <1>6 DEF CallbacksInv, Registered
  <1>8. Registered'
    <2>1. ASSUME NEW q \in Packets \cup {None}, Has(io', Pay("answer", q)) PROVE q \in Acked /\ idOf[q] # 0
      <3>1. Pay("answer", q) = Pay("answer", p) => q = p
        BY DEF Pay
      <3> QED
        BY <1>3, <1>7, <2>1, <3>1 DEF CallbacksInv, Registered
    <2> QED
      BY <1>2, <2>1 DEF CallbacksInv, Registered, IsEmitted, Unregistered
  <1>9. IdsBounded'
    BY <1>2 DEF CallbacksInv, IdsBounded, Counted, IsCounted, IsEmitted
  <1>10. CallbacksFit' /\ CalledOnce'
    BY <1>2 DEF CallbacksInv, CallbacksFit, CalledOnce, IsEmitted, Unregistered
  <1>11. IdsDiffer' /\ AnswersFindCallbacks'
    BY <1>2 DEF CallbacksInv, IdsDiffer, TakenDiffer, RegisterDiffer, RegisteredDiffer,
                AnswersFindCallbacks
  <1> QED
    BY <1>8, <1>9, <1>10, <1>11 DEF CallbacksInv

\* An answer takes the callback of its id, if that was not called before.
LEMMA OnAckCallbacks ==
  ASSUME TypeOK, CallsInv, CallbacksInv, OnAck
  PROVE  CallbacksInv' /\ called' \in Seq(Acked \X Acked) /\ acks' \in [Ids -> Acked \cup {None}]
         /\ handled' \subseteq Acked
  <1> DEFINE p  == Head(io).p
             id == idOf[p]
             a  == acks[id]
             C  == Acked \X Acked
  <1>1. /\ Takes("answer")
        /\ called' = IF a = None THEN called ELSE Append(called, <<a, p>>)
        /\ acks' = [acks EXCEPT ![id] = None]
        /\ handled' = handled \cup {p}
        /\ UNCHANGED <<eventId, idOf, call, emitted, twice>>
    BY DEF OnAck
  <1>2. /\ \A x : Has(io', x) => Has(io, x)
        /\ Has(io, Pay("answer", p)) /\ p \in Packets \cup {None}
    BY <1>1, TakesDoes
  <1>3. p \in Acked /\ p \in Packets /\ id # 0
    BY <1>2, PacketsAssumption DEF CallbacksInv, Registered
  <1>4. id \in Ids /\ a \in Acked \cup {None} /\ None \notin Acked
    BY <1>3, Numbers, PacketsAssumption
  <1>5. called \in Seq(C) /\ acks \in [Ids -> Acked \cup {None}] /\ handled \subseteq Acked
    BY DEF TypeOK
  <1>6. acks'[id] = None /\ \A i \in Ids : i # id => acks'[i] = acks[i]
    BY <1>1, <1>4, <1>5
  <1>7. /\ \A q : IsEmitted(q)' <=> IsEmitted(q)
        /\ \A u \in Threads : \A q : Unregistered(u, q)' <=> Unregistered(u, q)
    BY <1>1 DEF IsEmitted, Unregistered
  <1> HIDE DEF p, id, a, C
  <1>8. /\ called' \in Seq(C)
        /\ \A k \in DOMAIN called : k \in DOMAIN called' /\ called'[k] = called[k]
        /\ \A k \in DOMAIN called' : k \in DOMAIN called \/ (a # None /\ called'[k] = <<a, p>>)
        /\ \A k, l \in DOMAIN called' : k \in DOMAIN called \/ l \in DOMAIN called \/ k = l
        /\ a # None => \E k \in DOMAIN called' : called'[k] = <<a, p>>
    <2>1. CASE a = None
      BY <1>1, <1>5, <2>1
    <2>2. CASE a # None
      <3>1. <<a, p>> \in C /\ called' = Append(called, <<a, p>>)
        BY <1>1, <1>3, <1>4, <2>2 DEF C
      <3>2. /\ called' \in Seq(C) /\ Len(called') = Len(called) + 1
            /\ \A k \in 1 .. Len(called) : called'[k] = called[k]
            /\ called'[Len(called) + 1] = <<a, p>>
        BY <1>5, <3>1, AppendProperties
      <3>3. Len(called) \in Nat /\ DOMAIN called = 1 .. Len(called)
            /\ DOMAIN called' = 1 .. (Len(called) + 1)
        BY <1>5, <3>2, LenProperties
      <3>4. /\ \A k \in DOMAIN called : k \in DOMAIN called'
            /\ \A k \in DOMAIN called' : k \in DOMAIN called \/ k = Len(called) + 1
            /\ Len(called) + 1 \in DOMAIN called'
        BY <3>3
      <3> QED
        BY <2>2, <3>2, <3>3, <3>4
    <2> QED
      BY <2>1, <2>2
  <1>9. a # None => /\ IsEmitted(a) /\ \A u \in Threads : ~Unregistered(u, a)
                    /\ \A k \in DOMAIN called : called[k][1] # a
                    /\ \A i \in Ids : acks[i] = a => i = id
    BY <1>4 DEF CallbacksInv, CallbacksFit, a
  <1>10. IdsBounded'
    BY <1>1 DEF CallbacksInv, IdsBounded, Counted, IsCounted, IsEmitted
  <1>11. Registered'
    BY <1>1, <1>2, <1>7 DEF CallbacksInv, Registered
  <1>12. CallbacksFit'
    <2>1. \A i, j \in Ids : acks'[i] = acks'[j] /\ acks'[i] # None => i = j
      BY <1>6 DEF CallbacksInv, CallbacksFit
    <2>2. ASSUME NEW q, q # None, \E i \in Ids : acks'[i] = q
          PROVE  IsEmitted(q)' /\ \A u \in Threads : ~Unregistered(u, q)'
      BY <1>6, <1>7, <2>2 DEF CallbacksInv, CallbacksFit
    <2>3. ASSUME NEW q \in Acked,
                 \/ ~IsEmitted(q)'
                 \/ \E u \in Threads : Unregistered(u, q)'
                 \/ \E i \in Ids : acks'[i] = q
          PROVE  \A k \in DOMAIN called' : called'[k][1] # q
      <3>1. q # None
        BY <1>4
      <3>2. a # None => q # a
        BY <1>6, <1>7, <1>9, <2>3, <3>1
      <3>3. \A k \in DOMAIN called : called[k][1] # q
        BY <1>6, <1>7, <2>3, <3>1 DEF CallbacksInv, CallbacksFit
      <3> QED
        BY <1>8, <3>2, <3>3
    <2> QED
      BY <2>1, <2>2, <2>3 DEF CallbacksFit
  <1>13. CalledOnce'
    BY <1>8, <1>9 DEF CallbacksInv, CalledOnce
  <1>14. IdsDiffer'
    <2> SUFFICES ASSUME ~twice' PROVE TakenDiffer' /\ RegisterDiffer' /\ RegisteredDiffer'
      BY DEF IdsDiffer
    <2>1. TakenDiffer /\ RegisterDiffer /\ RegisteredDiffer
      BY <1>1 DEF CallbacksInv, IdsDiffer
    <2>2. TakenDiffer' /\ RegisterDiffer'
      BY <1>1, <2>1 DEF TakenDiffer, RegisterDiffer
    <2>3. RegisteredDiffer'
      <3> SUFFICES ASSUME NEW q \in Packets, idOf[q] # 0 PROVE acks'[idOf[q]] = q \/ q \in handled'
        BY <1>1, <2>1 DEF RegisteredDiffer
      <3>1. CASE idOf[q] = id
        <4>1. q = p
          BY <1>3, <2>1, <3>1 DEF RegisteredDiffer, id
        <4> QED
          BY <1>1, <4>1
      <3>2. CASE idOf[q] # id
        BY <1>1, <1>6, <2>1, <3>2, Numbers DEF RegisteredDiffer
      <3> QED
        BY <3>1, <3>2
    <2> QED
      BY <2>2, <2>3
  <1>15. AnswersFindCallbacks'
    <2> SUFFICES ASSUME ~twice', NEW q \in handled'
                 PROVE  \E k \in DOMAIN called' : called'[k] = <<q, q>>
      BY DEF AnswersFindCallbacks
    <2>1. CASE q \in handled
      BY <1>1, <1>8, <2>1 DEF CallbacksInv, AnswersFindCallbacks
    <2>2. CASE q \notin handled
      <3>1. q = p
        BY <1>1, <2>2
      <3>2. a = p
        BY <1>1, <1>3, <2>2, <3>1 DEF CallbacksInv, IdsDiffer, RegisteredDiffer, id, a
      <3> QED
        BY <1>3, <1>4, <1>8, <3>1, <3>2
    <2> QED
      BY <2>1, <2>2
  <1>16. called' \in Seq(Acked \X Acked)
    BY <1>8 DEF C
  <1>17. acks' \in [Ids -> Acked \cup {None}] /\ handled' \subseteq Acked
    BY <1>1, <1>3, <1>5
  <1> QED
    BY <1>10, <1>11, <1>12, <1>13, <1>14, <1>15, <1>16, <1>17 DEF CallbacksInv

\* The rest of the network thread and of the server.
LEMMA NetworkCallbacks ==
  ASSUME TypeOK, CallsInv, CallbacksInv,
         \/ SendImpl \/ OnConnected \/ OnEvent \/ NetDrain \/ OnDisconnect \/ ClearQueue \/ OnOpen
         \/ Accept \/ ServerEvent \/ Drop
  PROVE  CallbacksInv'
  <1>1. UNCHANGED <<eventId, acks, idOf, call, emitted, called, handled, twice>>
    BY DEF SendImpl, OnConnected, OnEvent, NetDrain, OnDisconnect, ClearQueue, OnOpen, Accept,
           ServerEvent, Drop, ackVars, history
  <1>2. \A p \in Packets \cup {None} : Has(io', Pay("answer", p)) => Has(io, Pay("answer", p))
    <2>1. CASE io' = io
      BY <2>1
    <2>2. CASE SendImpl \/ OnConnected \/ OnEvent \/ OnDisconnect
      <3>1. PICK kind \in Kinds \cup Heard : Takes(kind)
        BY <2>2 DEF SendImpl, OnConnected, OnEvent, OnDisconnect, Kinds, Heard
      <3> QED
        BY <3>1, TakesDoes
    <2>3. CASE Accept \/ ServerEvent \/ Drop
      <3>1. PICK kind \in {"accept", "event", "drop"} : Arrives(kind, None)
        BY <2>3 DEF Accept, ServerEvent, Drop
      <3>2. \A x : Has(io', x) <=> Has(io, x) \/ x = Pay(kind, None)
        BY <3>1, ArrivesDoes DEF Heard
      <3>3. \A p : Pay("answer", p) # Pay(kind, None)
        BY DEF Pay
      <3> QED
        BY <3>2, <3>3
    <2>4. NetDrain \/ ClearQueue \/ OnOpen => io' = io
      BY DEF NetDrain, ClearQueue, OnOpen
    <2> QED
      BY <2>1, <2>2, <2>3, <2>4
  <1> QED
    BY <1>1, <1>2, CallbacksFrame

LEMMA CallbacksStep ==
  ASSUME TypeOK, CallsInv, CallbacksInv, PlacesInv, Next
  PROVE  CallbacksInv'
  <1>1. ASSUME NEW t \in Threads,
               \/ Emit(t) \/ ReadId(t) \/ WriteId(t) \/ Register(t)
               \/ Route(t) \/ Push(t) \/ Drain(t) \/ SendText(t) \/ SendAttachment(t)
        PROVE  CallbacksInv'
    BY <1>1, EmitCallbacks, ReadIdCallbacks, WriteIdCallbacks, RegisterCallbacks, QuietCallbacks
  <1>2. CASE OnAck \/ ServerAnswers
    BY <1>2, OnAckCallbacks, AnswersCallbacks
  <1>3. CASE \/ SendImpl \/ OnConnected \/ OnEvent \/ NetDrain \/ OnDisconnect \/ ClearQueue
             \/ OnOpen \/ Accept \/ ServerEvent \/ Drop
    BY <1>3, NetworkCallbacks
  <1> QED
    BY <1>1, <1>2, <1>3 DEF Next

-----------------------------------------------------------------------------
(* Types.                                                                  *)

\* There is an id for every packet that takes one.
LEMMA IdsSuffice ==
  ASSUME TypeOK, CallsInv, IdsBounded, NEW t \in Threads, call[t].at = "count"
  PROVE  /\ call[t].id # 0 => call[t].id + 1 \in Ids \cup {Cardinality(Packets) + 1}
         /\ eventId \in Ids
  <1> DEFINE m == call[t].mine
  <1>1. m \in Packets /\ m \notin Counted
    BY MineEmitted DEF Counted, IsCounted
  <1>2. Cardinality(Counted) + 1 <= Cardinality(Packets)
        /\ Cardinality(Counted) \in Nat /\ Cardinality(Packets) \in Nat
    BY <1>1, CountedFinite
  <1>3. eventId <= Cardinality(Counted) + 1 /\ call[t].id <= Cardinality(Counted) + 1
    BY DEF IdsBounded
  <1> QED
    BY <1>2, <1>3, Numbers DEF Ids

LEMMA IdTypes ==
  ASSUME TypeOK, CallsInv, IdsBounded, NEW t \in Threads,
         Emit(t) \/ ReadId(t) \/ WriteId(t) \/ Register(t)
  PROVE  TypeOK'
  <1>1. CASE Emit(t)
    <2>1. call' \in [Threads -> Calls] /\ emitted' \in [Threads -> Seq(Packets)]
      BY <1>1, EmitDoes
    <2>2. UNCHANGED <<opened, sockVars, ackVars, net, io, wire, bounds, called, handled, mixed, twice>>
      BY <1>1 DEF Emit
    <2> QED
      BY <2>1, <2>2 DEF TypeOK, sockVars, ackVars, bounds
  <1>2. CASE ReadId(t)
    <2> DEFINE c == [call[t] EXCEPT !.id = eventId]
    <2>1. eventId \in Ids /\ call[t] \in Calls
      BY <1>2, IdsSuffice DEF TypeOK, ReadId
    <2>2. c \in Calls
      BY <2>1 DEF Calls
    <2>3. call' = [call EXCEPT ![t] = c]
      BY <1>2 DEF ReadId
    <2> HIDE DEF c
    <2>4. call' \in [Threads -> Calls]
      BY <2>2, <2>3, CallGoes
    <2>5. twice' \in BOOLEAN
      BY <1>2 DEF ReadId
    <2>6. UNCHANGED <<opened, sockVars, ackVars, net, io, wire, bounds, emitted, called, handled, mixed>>
      BY <1>2 DEF ReadId
    <2> QED
      BY <2>4, <2>5, <2>6 DEF TypeOK, sockVars, ackVars, bounds
  <1>3. CASE WriteId(t)
    <2>1. call' \in [Threads -> Calls]
      BY <1>3, AtGoes DEF WriteId, Stations
    <2>2. eventId' \in Ids \cup {Cardinality(Packets) + 1}
      BY <1>3, IdsSuffice DEF WriteId
    <2>3. UNCHANGED <<opened, sockVars, acks, idOf, net, io, wire, bounds, history>>
      BY <1>3 DEF WriteId
    <2> QED
      BY <2>1, <2>2, <2>3 DEF TypeOK, sockVars, bounds, history
  <1>4. CASE Register(t)
    <2>1. call' \in [Threads -> Calls]
      BY <1>4, AtGoes DEF Register, Stations
    <2>2. call[t].id \in Ids /\ call[t].mine \in Acked
      BY <1>4, Numbers DEF CallsInv, CallsFit, Register
    <2>3. acks' = [acks EXCEPT ![call[t].id] = call[t].mine]
          /\ idOf' = [idOf EXCEPT ![call[t].mine] = call[t].id]
      BY <1>4 DEF Register
    <2>4. acks' \in [Ids -> Acked \cup {None}] /\ idOf' \in [Packets -> Ids \cup {0}]
      BY <2>2, <2>3 DEF TypeOK
    <2>5. UNCHANGED <<opened, sockVars, eventId, net, io, wire, bounds, history>>
      BY <1>4 DEF Register
    <2> QED
      BY <2>1, <2>4, <2>5 DEF TypeOK, sockVars, bounds, history
  <1> QED
    BY <1>1, <1>2, <1>3, <1>4

LEMMA SendTypes ==
  ASSUME TypeOK, CallsInv, NEW t \in Threads,
         Route(t) \/ Push(t) \/ Drain(t) \/ SendText(t) \/ SendAttachment(t)
  PROVE  TypeOK'
  <1>1. CASE Route(t)
    <2>1. call' \in [Threads -> Calls]
      BY <1>1, AtGoes DEF Route, Stations
    <2> QED
      BY <1>1, <2>1 DEF Route, TypeOK, sockVars, ackVars, bounds, history
  <1>2. CASE Push(t)
    <2>1. call' \in [Threads -> Calls]
      BY <1>2, NoCallFits, CallGoes DEF Push
    <2>2. queue \in Seq(Packets) /\ call[t].mine \in Packets
      BY <1>2 DEF TypeOK, Push, CallsInv, CallsFit
    <2>3. queue' \in Seq(Packets)
      BY <1>2, <2>2, AppendProperties DEF Push
    <2> QED
      BY <1>2, <2>1, <2>3 DEF Push, TypeOK, ackVars, bounds, history
  <1>3. CASE Drain(t)
    <2>1. call' \in [Threads -> Calls] /\ queue' \in Seq(Packets)
      BY <1>3, DrainDoes DEF CallsInv
    <2>2. mixed' \in BOOLEAN
      BY <1>3 DEF Drain, TypeOK
    <2>3. UNCHANGED <<opened, connected, ackVars, net, io, wire, bounds, emitted, called, handled, twice>>
      BY <1>3 DEF Drain
    <2> QED
      BY <2>1, <2>2, <2>3 DEF TypeOK, ackVars, bounds
  <1>4. CASE SendText(t) \/ SendAttachment(t)
    <2>1. PICK kind \in Kinds : /\ io' = Append(io, Pay(kind, call[t].now))
                                /\ Pay(kind, call[t].now) \in Payloads
                                /\ call' \in [Threads -> Calls]
      BY <1>4, SendDoes
    <2>2. io \in Seq(Payloads \cup Reads)
      BY DEF TypeOK
    <2>3. io' \in Seq(Payloads \cup Reads)
      BY <2>1, <2>2, AppendProperties
    <2>4. UNCHANGED <<opened, sockVars, ackVars, net, wire, bounds, history>>
      BY <1>4 DEF SendText, SendAttachment
    <2> QED
      BY <2>1, <2>3, <2>4 DEF TypeOK, sockVars, ackVars, bounds, history
  <1> QED
    BY <1>1, <1>2, <1>3, <1>4

LEMMA NetworkTypes ==
  ASSUME TypeOK, CallsInv, CallbacksInv,
         \/ SendImpl \/ OnConnected \/ OnEvent \/ NetDrain \/ OnAck
         \/ OnDisconnect \/ ClearQueue \/ OnOpen
  PROVE  TypeOK'
  <1>1. ASSUME NEW kind, Takes(kind) PROVE io' \in Seq(Payloads \cup Reads)
    BY <1>1, TakesDoes
  <1>2. CASE SendImpl
    <2>1. PICK kind \in Kinds : Takes(kind)
      BY <1>2 DEF SendImpl, Kinds
    <2>2. Head(io) \in Payloads /\ OnWire(<<Head(io)>>)
      BY <1>2, <2>1, TakesDoes DEF SendImpl, Pay, Payloads, Kinds
    <2>3. wire \in Seq(Payloads \cup {Opening})
      BY DEF TypeOK
    <2>4. wire' = wire \/ wire' = Append(wire, Head(io))
      BY <2>2, WireOne
    <2>5. wire' \in Seq(Payloads \cup {Opening})
      BY <2>2, <2>3, <2>4, AppendProperties
    <2> QED
      BY <1>1, <1>2, <2>1, <2>5 DEF SendImpl, TypeOK, sockVars, ackVars, bounds, history
  <1>3. CASE OnConnected
    <2>1. io' \in Seq(Payloads \cup Reads)
      BY <1>1, <1>3 DEF OnConnected
    <2>2. connected' \in BOOLEAN /\ net' \in {"idle", "drain", "drainReply", "clear"}
      BY <1>3 DEF OnConnected
    <2>3. UNCHANGED <<opened, queue, ackVars, call, wire, bounds, history>>
      BY <1>3 DEF OnConnected
    <2> QED
      BY <2>1, <2>2, <2>3 DEF TypeOK, ackVars, bounds, history
  <1>4. CASE OnEvent
    <2>1. io' \in Seq(Payloads \cup Reads)
      BY <1>1, <1>4 DEF OnEvent
    <2> QED
      BY <1>4, <2>1 DEF OnEvent, TypeOK, sockVars, ackVars, bounds, history
  <1>5. CASE NetDrain
    <2>1. queue \in Seq(Packets) /\ wire \in Seq(Payloads \cup {Opening})
      BY DEF TypeOK
    <2>2. queue' \in Seq(Packets) /\ net' \in {"idle", "drain", "drainReply", "clear"}
      BY <1>5, <2>1, HeadTailProperties DEF NetDrain
    <2>3. wire' \in Seq(Payloads \cup {Opening})
      <3>1. CASE OnWire(<<>>)
        BY <2>1, <3>1, ConcatEmptySeq DEF OnWire
      <3>2. CASE \E p \in Packets \cup {None} : OnWire(PayloadsOf(p))
        BY <3>2, NetWrites
      <3>3. queue # <<>> => Head(queue) \in Packets
        BY <2>1, HeadTailProperties
      <3> QED
        BY <1>5, <3>1, <3>2, <3>3 DEF NetDrain
    <2>4. mixed' \in BOOLEAN
      BY <1>5 DEF NetDrain, TypeOK
    <2>5. UNCHANGED <<opened, connected, ackVars, call, io, bounds, emitted, called, handled, twice>>
      BY <1>5 DEF NetDrain
    <2> QED
      BY <2>2, <2>3, <2>4, <2>5 DEF TypeOK, ackVars, bounds
  <1>6. CASE OnAck
    <2>1. io' \in Seq(Payloads \cup Reads)
      BY <1>1, <1>6 DEF OnAck
    <2>2. /\ called' \in Seq(Acked \X Acked) /\ acks' \in [Ids -> Acked \cup {None}]
          /\ handled' \subseteq Acked
      BY <1>6, OnAckCallbacks
    <2>3. UNCHANGED <<opened, sockVars, eventId, idOf, call, net, wire, bounds, emitted, mixed, twice>>
      BY <1>6 DEF OnAck
    <2> QED
      BY <2>1, <2>2, <2>3 DEF TypeOK, sockVars, bounds
  <1>7. CASE OnDisconnect
    <2>1. io' \in Seq(Payloads \cup Reads)
      BY <1>1, <1>7 DEF OnDisconnect
    <2>2. opened' \in BOOLEAN /\ connected' \in BOOLEAN
          /\ net' \in {"idle", "drain", "drainReply", "clear"}
      BY <1>7 DEF OnDisconnect
    <2>3. UNCHANGED <<queue, ackVars, call, wire, bounds, history>>
      BY <1>7 DEF OnDisconnect
    <2> QED
      BY <2>1, <2>2, <2>3 DEF TypeOK, ackVars, bounds, history
  <1>8. CASE ClearQueue
    BY <1>8 DEF ClearQueue, TypeOK, ackVars, bounds, history
  <1>9. CASE OnOpen
    <2>1. wire \in Seq(Payloads \cup {Opening})
      BY DEF TypeOK
    <2>2. wire' \in Seq(Payloads \cup {Opening})
      BY <1>9, <2>1, AppendProperties DEF OnOpen
    <2> QED
      BY <1>9, <2>2 DEF OnOpen, TypeOK, sockVars, ackVars, bounds, history
  <1> QED
    BY <1>2, <1>3, <1>4, <1>5, <1>6, <1>7, <1>8, <1>9

LEMMA ServerTypes ==
  ASSUME TypeOK, Accept \/ ServerEvent \/ ServerAnswers \/ Drop
  PROVE  TypeOK'
  <1>1. io' \in Seq(Payloads \cup Reads)
    BY ArrivesDoes, PacketsAssumption DEF Accept, ServerEvent, ServerAnswers, Drop, Heard
  <1>2. /\ drops' \in 0 .. MaxDrops /\ events' \in 0 .. MaxEvents
        /\ answers' \in [Acked -> 0 .. MaxAnswers]
    <2>1. CASE Accept
      BY <2>1 DEF Accept, TypeOK, bounds
    <2>2. CASE ServerEvent
      BY <2>2, BoundsAssumption DEF ServerEvent, TypeOK
    <2>3. CASE ServerAnswers
      BY <2>3, BoundsAssumption DEF ServerAnswers, TypeOK
    <2>4. CASE Drop
      BY <2>4, BoundsAssumption DEF Drop, TypeOK
    <2> QED
      BY <2>1, <2>2, <2>3, <2>4
  <1>3. UNCHANGED <<opened, sockVars, ackVars, call, net, wire, history>>
    BY DEF Accept, ServerEvent, ServerAnswers, Drop
  <1> QED
    BY <1>1, <1>2, <1>3 DEF TypeOK, sockVars, ackVars, history

LEMMA TypesStep ==
  ASSUME TypeOK, CallsInv, CallbacksInv, Next
  PROVE  TypeOK'
  <1>1. ASSUME NEW t \in Threads,
               \/ Emit(t) \/ ReadId(t) \/ WriteId(t) \/ Register(t)
               \/ Route(t) \/ Push(t) \/ Drain(t) \/ SendText(t) \/ SendAttachment(t)
        PROVE  TypeOK'
    BY <1>1, IdTypes, SendTypes DEF CallbacksInv
  <1>2. CASE \/ SendImpl \/ OnConnected \/ OnEvent \/ NetDrain \/ OnAck
             \/ OnDisconnect \/ ClearQueue \/ OnOpen
    BY <1>2, NetworkTypes
  <1>3. CASE Accept \/ ServerEvent \/ ServerAnswers \/ Drop
    BY <1>3, ServerTypes
  <1> QED
    BY <1>1, <1>2, <1>3 DEF Next

-----------------------------------------------------------------------------
(* The invariant.                                                          *)

LEMMA InvariantParts == IInv <=> TypeOK /\ CallsInv /\ PlacesInv /\ CallbacksInv
  BY DEF IInv, CallsInv, PlacesInv, CallbacksInv

LEMMA InitInvariant ==
  ASSUME Init
  PROVE  IInv
  <1>1. /\ call = [t \in Threads |-> NoCall] /\ emitted = [t \in Threads |-> <<>>]
        /\ acks = [i \in Ids |-> None] /\ idOf = [p \in Packets |-> 0]
        /\ queue = <<>> /\ io = <<>> /\ wire = <<>> /\ called = <<>> /\ handled = {}
        /\ eventId = 1
    BY DEF Init
  <1>2. /\ \A t \in Threads : call[t] = NoCall /\ emitted[t] = <<>>
        /\ \A i \in Ids : acks[i] = None
        /\ \A p \in Packets : idOf[p] = 0
    BY <1>1
  <1>3. TypeOK
    <2>1. 1 \in Ids \cup {Cardinality(Packets) + 1}
      BY CountedFinite DEF Ids
    <2>2. 0 \in 0 .. MaxDrops /\ 0 \in 0 .. MaxEvents /\ 0 \in 0 .. MaxAnswers
      BY BoundsAssumption
    <2>3. /\ call \in [Threads -> Calls] /\ emitted \in [Threads -> Seq(Packets)]
          /\ acks \in [Ids -> Acked \cup {None}] /\ idOf \in [Packets -> Ids \cup {0}]
      BY <1>1, NoCallFits
    <2>4. answers \in [Acked -> 0 .. MaxAnswers]
      BY <2>2 DEF Init
    <2>5. /\ queue \in Seq(Packets) /\ io \in Seq(Payloads \cup Reads)
          /\ wire \in Seq(Payloads \cup {Opening}) /\ called \in Seq(Acked \X Acked)
      BY <1>1
    <2>6. eventId \in Ids \cup {Cardinality(Packets) + 1} /\ handled \subseteq Acked
      BY <1>1, <2>1
    <2>7. /\ opened \in BOOLEAN /\ connected \in BOOLEAN /\ mixed \in BOOLEAN /\ twice \in BOOLEAN
          /\ net \in {"idle", "drain", "drainReply", "clear"}
          /\ drops \in 0 .. MaxDrops /\ events \in 0 .. MaxEvents
      BY <2>2 DEF Init
    <2> QED
      BY <2>3, <2>4, <2>5, <2>6, <2>7 DEF TypeOK
  <1>4. \A p : ~IsEmitted(p)
    BY <1>2, EmptyHas DEF IsEmitted
  <1>5. \A t \in Threads : /\ call[t].at = "idle" /\ call[t].mine = None
                           /\ call[t].now = None /\ call[t].id = 0
    BY <1>2 DEF NoCall
  <1>6. CallsInv
    BY <1>2, <1>5, EmptyHas DEF CallsInv, CallsFit, EmittedOnce
  <1>7. PlacesInv
    <2>1. \A t \in Threads, p \in Packets, kind \in Kinds : ~Waits(t, p) /\ ~Holds(t, p, kind)
      BY <1>5, PacketsAssumption DEF Waits, Holds
    <2>2. OnlyEmitted
      BY <1>1, <1>5, EmptyHas, PacketsAssumption DEF OnlyEmitted
    <2>3. OnePlace
      BY <1>1, <2>1, EmptyHas DEF OnePlace, OnePlaceOf
    <2>4. InOrder
      <3>1. OneHolder
        BY <1>5 DEF OneHolder
      <3> QED
        BY <1>2, <3>1 DEF InOrder
    <2> QED
      BY <2>2, <2>3, <2>4 DEF PlacesInv
  <1>8. CallbacksInv
    <2>1. IdsBounded
      BY <1>1, <1>5, CountedFinite DEF IdsBounded
    <2>2. Registered
      BY <1>1, <1>4, EmptyHas DEF Registered
    <2>3. CallbacksFit /\ CalledOnce
      BY <1>1, <1>2 DEF CallbacksFit, CalledOnce
    <2>4. IdsDiffer
      BY <1>1, <1>2, <1>5 DEF IdsDiffer, TakenDiffer, RegisterDiffer, RegisteredDiffer
    <2>5. AnswersFindCallbacks
      BY <1>1 DEF AnswersFindCallbacks
    <2> QED
      BY <2>1, <2>2, <2>3, <2>4, <2>5 DEF CallbacksInv
  <1> QED
    BY <1>3, <1>6, <1>7, <1>8, InvariantParts

LEMMA StutterInvariant ==
  ASSUME IInv, UNCHANGED vars
  PROVE  IInv'
  <1>1. UNCHANGED <<opened, connected, queue, eventId, acks, idOf, call, net, io, wire, drops,
                    events, answers, emitted, called, handled, mixed, twice>>
    BY DEF vars, sockVars, ackVars, bounds, history
  <1>2. TypeOK'
    BY <1>1 DEF IInv, TypeOK
  <1>3. CallsInv'
    BY <1>1 DEF IInv, CallsInv, CallsFit, EmittedOnce
  <1>4. PlacesInv'
    <2>1. Within(io', io) /\ Within(wire', wire)
      BY <1>1, WithinSame
    <2> QED
      BY <1>1, <2>1, PlacesFrame, InvariantParts DEF IInv
  <1>5. CallbacksInv'
    BY <1>1, CallbacksFrame, InvariantParts
  <1> QED
    BY <1>2, <1>3, <1>4, <1>5 DEF IInv, CallsInv, PlacesInv, CallbacksInv

-----------------------------------------------------------------------------
(* Nothing is lost while the transport lasts: a second invariant.          *)

Sent(kind, p) == Has(io, Pay(kind, p)) \/ Has(wire, Pay(kind, p))

Somewhere(p) ==
    \/ \E u \in Threads : call[u].mine = p \/ call[u].now = p
    \/ Has(queue, p)
    \/ Sent("text", p) /\ (p \in Binary => Sent("attachment", p))

\* The transport has not dropped, nor will it with what was read so far.
NoDrop ==
    drops = 0 =>
        /\ opened /\ net # "clear"
        /\ \A p \in Packets \cup {None} : ~Has(io, Pay("drop", p))

\* A packet of which the attachment is left to send had its text sent.
TextFirst == drops = 0 => \A t \in Threads : call[t].at = "attach" => Sent("text", call[t].now)

Kept == drops = 0 => \A p \in Packets : IsEmitted(p) => Somewhere(p)

KeptInv == NoDrop /\ TextFirst /\ Kept

LEMMA ConcatHas ==
  ASSUME NEW S, NEW s \in Seq(S), NEW r \in Seq(S)
  PROVE  \A x : Has(s \o r, x) <=> Has(s, x) \/ Has(r, x)
  <1> DEFINE a == s \o r
  <1>1. /\ Len(a) = Len(s) + Len(r) /\ a \in Seq(S)
        /\ \A i \in 1 .. Len(s) : a[i] = s[i]
        /\ \A i \in 1 .. Len(r) : a[Len(s) + i] = r[i]
    BY ConcatProperties
  <1>2. /\ Len(s) \in Nat /\ Len(r) \in Nat /\ DOMAIN s = 1 .. Len(s) /\ DOMAIN r = 1 .. Len(r)
        /\ DOMAIN a = 1 .. (Len(s) + Len(r))
    BY <1>1, LenProperties
  <1>3. \A i \in DOMAIN a : i \in DOMAIN s \/ (i - Len(s) \in DOMAIN r /\ i = Len(s) + (i - Len(s)))
    BY <1>2
  <1>4. /\ \A i \in DOMAIN s : i \in DOMAIN a /\ a[i] = s[i]
        /\ \A i \in DOMAIN r : Len(s) + i \in DOMAIN a /\ a[Len(s) + i] = r[i]
    BY <1>1, <1>2
  <1> HIDE DEF a
  <1>5. \A x : Has(a, x) <=> Has(s, x) \/ Has(r, x)
    BY <1>3, <1>4 DEF Has
  <1> QED
    BY <1>5 DEF a

\* What the network thread writes while the client is open is on the wire.
LEMMA WritesAdd ==
  ASSUME TypeOK, opened, NEW s \in Seq(Payloads), OnWire(s)
  PROVE  \A x : Has(wire', x) <=> Has(wire, x) \/ Has(s, x)
  <1>1. wire \in Seq(Payloads \cup {Opening}) /\ s \in Seq(Payloads \cup {Opening})
    BY DEF TypeOK
  <1> QED
    BY <1>1, ConcatHas DEF OnWire

LEMMA PayloadsHas ==
  ASSUME NEW p \in Packets \cup {None}
  PROVE  /\ PayloadsOf(p) \in Seq(Payloads)
         /\ Has(PayloadsOf(p), Pay("text", p))
         /\ p \in Binary => Has(PayloadsOf(p), Pay("attachment", p))
         /\ \A x \in ToSet(PayloadsOf(p)) :
               x = Pay("text", p) \/ (p \in Binary /\ x = Pay("attachment", p))
  <1>1. Pay("text", p) \in Payloads /\ Pay("attachment", p) \in Payloads
    BY DEF Pay, Payloads
  <1>2. PayloadsOf(p) = IF p \in Binary THEN << Pay("text", p), Pay("attachment", p) >>
                        ELSE << Pay("text", p) >>
    BY DEF PayloadsOf, Pay
  <1> QED
    BY <1>1, <1>2 DEF Has, ToSet

\* A thread's payload is dispatched behind what is.
LEMMA PayloadSent ==
  ASSUME TypeOK, NEW kind \in Kinds, NEW p \in Packets,
         io' = Append(io, [kind |-> kind, p |-> p]), UNCHANGED wire
  PROVE  /\ \A x : Has(io', x) <=> Has(io, x) \/ x = Pay(kind, p)
         /\ Sent(kind, p)'
  <1>1. io \in Seq(Payloads \cup Reads) /\ Pay(kind, p) \in Payloads \cup Reads
    BY DEF TypeOK, Pay, Payloads, Kinds
  <1>2. io' = Append(io, Pay(kind, p))
    BY DEF Pay
  <1> HIDE DEF Pay
  <1> QED
    BY <1>1, <1>2, AppendHas DEF Sent

\* What a step of the network thread that handles a payload or an answer, a packet of
\* the server or nothing at all does.
LEMMA NoDropStep ==
  ASSUME TypeOK, CallsInv, NoDrop, Next
  PROVE  NoDrop'
  <1> SUFFICES ASSUME drops' = 0
               PROVE  /\ opened' /\ net' # "clear"
                      /\ \A p \in Packets \cup {None} : ~Has(io', Pay("drop", p))
    BY DEF NoDrop
  <1>0. drops = 0 => /\ opened /\ net # "clear"
                     /\ \A p \in Packets \cup {None} : ~Has(io, Pay("drop", p))
    BY DEF NoDrop
  <1>1. ASSUME NEW t \in Threads, Emit(t) \/ ReadId(t) \/ WriteId(t) \/ Register(t) \/ Route(t)
                                    \/ Push(t) \/ Drain(t)
        PROVE  UNCHANGED <<drops, opened, net, io>>
    BY <1>1 DEF Emit, ReadId, WriteId, Register, Route, Push, Drain, bounds
  <1>2. ASSUME NEW t \in Threads, SendText(t) \/ SendAttachment(t)
        PROVE  /\ UNCHANGED <<drops, opened, net>>
               /\ \A p \in Packets \cup {None} : Has(io', Pay("drop", p)) => Has(io, Pay("drop", p))
    <2>1. call[t].now \in Packets /\ UNCHANGED <<drops, opened, net, wire>>
      BY <1>2, PacketsAssumption
      DEF SendText, SendAttachment, CallsInv, CallsFit, TypeOK, Calls, bounds
    <2>2. \E kind \in Kinds : io' = Append(io, [kind |-> kind, p |-> call[t].now])
      BY <1>2 DEF SendText, SendAttachment, Kinds
    <2>3. \A p : \A kind \in Kinds : Pay("drop", p) # Pay(kind, call[t].now)
      BY DEF Pay, Kinds
    <2> QED
      BY <2>1, <2>2, <2>3, PayloadSent
  <1>3. CASE SendImpl \/ OnConnected \/ OnEvent \/ OnAck
    <2>1. \A x : Has(io', x) => Has(io, x)
      BY <1>3, TakesDoes DEF SendImpl, OnConnected, OnEvent, OnAck
    <2>2. UNCHANGED <<drops, opened>> /\ (net' = net \/ net' \in {"idle", "drain", "drainReply"})
      BY <1>3 DEF SendImpl, OnConnected, OnEvent, OnAck, bounds
    <2> QED
      BY <1>0, <2>1, <2>2
  <1>4. CASE OnDisconnect
    <2>1. Head(io) = Pay("drop", Head(io).p) /\ Head(io).p \in Packets \cup {None} /\ Has(io, Head(io))
      BY <1>4, TakesDoes DEF OnDisconnect
    <2>2. UNCHANGED drops
      BY <1>4 DEF OnDisconnect, bounds
    <2> QED
      BY <1>0, <2>1, <2>2
  <1>5. CASE NetDrain \/ ClearQueue \/ OnOpen
    BY <1>0, <1>5 DEF NetDrain, ClearQueue, OnOpen, bounds
  <1>6. CASE Accept \/ ServerEvent \/ ServerAnswers
    <2>1. UNCHANGED <<drops, opened, net>>
          /\ \E kind \in {"accept", "event", "answer"}, p \in Packets \cup {None} : Arrives(kind, p)
      BY <1>6, PacketsAssumption DEF Accept, ServerEvent, ServerAnswers, bounds
    <2>2. PICK kind \in {"accept", "event", "answer"}, p \in Packets \cup {None} : Arrives(kind, p)
      BY <2>1
    <2>3. \A x : Has(io', x) <=> Has(io, x) \/ x = Pay(kind, p)
      BY <2>2, ArrivesDoes DEF Heard
    <2>4. \A q : Pay("drop", q) # Pay(kind, p)
      BY DEF Pay
    <2> QED
      BY <1>0, <2>1, <2>3, <2>4
  <1>7. CASE Drop
    BY <1>7 DEF Drop, TypeOK
  <1> QED
    BY <1>0, <1>1, <1>2, <1>3, <1>4, <1>5, <1>6, <1>7 DEF Next

\* A payload that was dispatched or sent stays so.
LEMMA SentStays ==
  ASSUME TypeOK, CallsInv, NoDrop, Next, drops' = 0, NEW kind \in Kinds, NEW p \in Packets,
         Sent(kind, p)
  PROVE  Sent(kind, p)'
  <1>0. drops = 0 => opened
    BY DEF NoDrop
  <1>1. ASSUME NEW t \in Threads, Emit(t) \/ ReadId(t) \/ WriteId(t) \/ Register(t) \/ Route(t)
                                    \/ Push(t) \/ Drain(t)
        PROVE  UNCHANGED <<io, wire>>
    BY <1>1 DEF Emit, ReadId, WriteId, Register, Route, Push, Drain
  <1>2. ASSUME NEW t \in Threads, SendText(t) \/ SendAttachment(t)
        PROVE  Sent(kind, p)'
    <2>1. call[t].now \in Packets /\ UNCHANGED wire
      BY <1>2, PacketsAssumption DEF SendText, SendAttachment, CallsInv, CallsFit, TypeOK, Calls
    <2>2. \E k \in Kinds : io' = Append(io, [kind |-> k, p |-> call[t].now])
      BY <1>2 DEF SendText, SendAttachment, Kinds
    <2> QED
      BY <2>1, <2>2, PayloadSent DEF Sent
  <1>3. CASE SendImpl
    <2>1. PICK k \in Kinds : Takes(k)
      BY <1>3 DEF SendImpl, Kinds
    <2>2. /\ io # <<>> /\ io' = Tail(io) /\ io \in Seq(Payloads \cup Reads)
          /\ Head(io) = Pay(k, Head(io).p) /\ Head(io).p \in Packets \cup {None}
      BY <2>1, TakesDoes DEF Takes, TypeOK
    <2>3. Head(io) \in Payloads
      BY <2>2 DEF Pay, Payloads, Kinds
    <2>4. opened /\ OnWire(<<Head(io)>>)
      BY <1>0, <1>3 DEF SendImpl, bounds
    <2>5. <<Head(io)>> \in Seq(Payloads) /\ Has(<<Head(io)>>, Head(io))
      BY <2>3 DEF Has
    <2>6. \A x : Has(wire', x) <=> Has(wire, x) \/ Has(<<Head(io)>>, x)
      BY <2>4, <2>5, WritesAdd
    <2>7. \A x : Has(io, x) <=> x = Head(io) \/ Has(io', x)
      BY <2>2, TailHas
    <2> QED
      BY <2>5, <2>6, <2>7 DEF Sent
  <1>4. ASSUME NEW k \in Heard, Takes(k), UNCHANGED wire
        PROVE  Sent(kind, p)'
    <2>1. /\ io # <<>> /\ io' = Tail(io) /\ io \in Seq(Payloads \cup Reads)
          /\ Head(io).kind = k
      BY <1>4 DEF Takes, TypeOK
    <2>2. Head(io) # Pay(kind, p)
      BY <2>1 DEF Pay, Kinds, Heard
    <2>3. \A x : Has(io, x) <=> x = Head(io) \/ Has(io', x)
      BY <2>1, TailHas
    <2> QED
      BY <1>4, <2>2, <2>3 DEF Sent
  <1>5. CASE OnConnected \/ OnEvent \/ OnAck \/ OnDisconnect
    BY <1>4, <1>5 DEF OnConnected, OnEvent, OnAck, OnDisconnect, Heard
  <1>6. CASE NetDrain
    <2>1. \E s \in Seq(Payloads) : OnWire(s)
      <3>1. CASE queue # <<>>
        <4>1. Head(queue) \in Packets
          BY <3>1 DEF TypeOK
        <4> QED
          BY <1>6, <3>1, <4>1, PayloadsHas DEF NetDrain
      <3>2. CASE queue = <<>>
        <4>1. <<>> \in Seq(Payloads)
          OBVIOUS
        <4> QED
          BY <1>6, <3>2, <4>1, PayloadsHas DEF NetDrain
      <3> QED
        BY <3>1, <3>2
    <2>2. opened /\ UNCHANGED io
      BY <1>0, <1>6 DEF NetDrain, bounds
    <2>3. \A x : Has(wire, x) => Has(wire', x)
      BY <2>1, <2>2, WritesAdd
    <2> QED
      BY <2>2, <2>3 DEF Sent
  <1>7. CASE ClearQueue
    BY <1>7 DEF ClearQueue, Sent
  <1>8. CASE OnOpen
    <2>1. Opening \in Payloads \cup {Opening} /\ wire \in Seq(Payloads \cup {Opening})
      BY DEF TypeOK
    <2>2. \A x : Has(wire, x) => Has(wire', x)
      BY <1>8, <2>1, AppendHas DEF OnOpen
    <2> QED
      BY <1>8, <2>2 DEF OnOpen, Sent
  <1>9. CASE Accept \/ ServerEvent \/ ServerAnswers \/ Drop
    <2>1. UNCHANGED wire /\ \E k \in Heard, q \in Packets \cup {None} : Arrives(k, q)
      BY <1>9, PacketsAssumption DEF Accept, ServerEvent, ServerAnswers, Drop, Heard
    <2> QED
      BY <2>1, ArrivesDoes DEF Sent
  <1> QED
    BY <1>1, <1>2, <1>3, <1>5, <1>6, <1>7, <1>8, <1>9 DEF Next, Sent

\* A step that takes no packet out of a hand or the queue loses none.
LEMMA KeptFrame ==
  ASSUME TextFirst, Kept, drops' = 0 => drops = 0, UNCHANGED emitted,
         \A t \in Threads : /\ call'[t].mine = call[t].mine /\ call'[t].now = call[t].now
                            /\ call'[t].at = "attach" => call[t].at = "attach"
                            /\ call[t].at = "attach" => call[t].now \in Packets,
         \A p \in Packets : Has(queue, p) => Has(queue', p),
         drops' = 0 => \A kind \in Kinds, p \in Packets : Sent(kind, p) => Sent(kind, p)'
  PROVE  TextFirst' /\ Kept'
  <1>1. TextFirst'
    <2> SUFFICES ASSUME drops' = 0, NEW t \in Threads, call'[t].at = "attach",
                        NEW q, q = call'[t].now
                 PROVE  Sent("text", q)'
      BY DEF TextFirst
    <2>1. q = call[t].now /\ q \in Packets /\ Sent("text", call[t].now)
      BY DEF TextFirst
    <2> QED
      BY <2>1 DEF Kinds
  <1>2. Kept'
    <2> SUFFICES ASSUME drops' = 0, NEW p \in Packets, IsEmitted(p)'
                 PROVE  Somewhere(p)'
      BY DEF Kept
    <2>1. Somewhere(p)
      BY DEF Kept, IsEmitted
    <2> QED
      BY <2>1 DEF Somewhere, Kinds
  <1> QED
    BY <1>1, <1>2

\* What is known before a step that loses nothing.
LEMMA HandsKnown ==
  ASSUME TypeOK, CallsInv
  PROVE  \A t \in Threads :
            /\ call[t].at = "attach" => call[t].now \in Packets
            /\ call[t].at = "send" => call[t].now \in Packets
            /\ call[t].at \notin {"send", "attach"} => call[t].now = None
  BY PacketsAssumption DEF CallsInv, CallsFit, TypeOK, Calls

LEMMA EmitKeeps ==
  ASSUME TypeOK, CallsInv, TextFirst, Kept, NEW t \in Threads, Emit(t),
         \A kind \in Kinds, p \in Packets : Sent(kind, p) => Sent(kind, p)'
  PROVE  TextFirst' /\ Kept'
  <1>1. PICK p \in Packets :
            /\ ~IsEmitted(p)
            /\ emitted' \in [Threads -> Seq(Packets)]
            /\ emitted'[t] = Append(emitted[t], p)
            /\ \A u \in Threads : u # t => emitted'[u] = emitted[u] /\ call'[u] = call[u]
            /\ call' \in [Threads -> Calls]
            /\ call'[t].at = IF p \in Acked THEN "count" ELSE "route"
            /\ call'[t].mine = p /\ call'[t].id = 0 /\ call'[t].now = None
    BY EmitDoes
  <1>2. emitted[t] \in Seq(Packets) /\ call[t] = NoCall /\ UNCHANGED <<queue, drops>>
    BY DEF TypeOK, Emit, sockVars, bounds
  <1>3. \A q : Has(emitted'[t], q) <=> Has(emitted[t], q) \/ q = p
    BY <1>1, <1>2, AppendHas
  <1>4. \A q : IsEmitted(q)' => IsEmitted(q) \/ q = p
    BY <1>1, <1>3 DEF IsEmitted
  <1>5. ASSUME NEW u \in Threads, drops' = 0, call'[u].at = "attach", NEW q, q = call'[u].now
        PROVE  Sent("text", q)'
    <2>1. u # t /\ call'[u] = call[u]
      BY <1>1, <1>5
    <2>2. Sent("text", q) /\ q \in Packets
      BY <1>2, <1>5, <2>1, HandsKnown DEF TextFirst
    <2> QED
      BY <2>2 DEF Kinds
  <1>6. ASSUME NEW q \in Packets, drops' = 0, IsEmitted(q)'
        PROVE  Somewhere(q)'
    <2>1. CASE q = p
      BY <1>1, <2>1 DEF Somewhere
    <2>2. CASE q # p
      <3>1. Somewhere(q)
        BY <1>2, <1>4, <1>6, <2>2 DEF Kept
      <3>2. \A u \in Threads : call[u].mine = q \/ call[u].now = q => u # t /\ call'[u] = call[u]
        BY <1>1, <1>2, PacketsAssumption DEF NoCall
      <3> QED
        BY <1>2, <3>1, <3>2 DEF Somewhere, Kinds
    <2> QED
      BY <2>1, <2>2
  <1> QED
    BY <1>5, <1>6 DEF TextFirst, Kept

LEMMA PushKeeps ==
  ASSUME TypeOK, CallsInv, TextFirst, Kept, NEW t \in Threads, Push(t),
         \A kind \in Kinds, p \in Packets : Sent(kind, p) => Sent(kind, p)'
  PROVE  TextFirst' /\ Kept'
  <1> DEFINE m == call[t].mine
  <1>1. /\ call[t].at = "push" /\ m \in Packets /\ call[t].now = None
        /\ UNCHANGED <<emitted, drops>>
    BY HandsKnown DEF Push, CallsInv, CallsFit, history, bounds
  <1>2. call'[t] = NoCall /\ \A u \in Threads : u # t => call'[u] = call[u]
    BY NoCallFits, CallGoes DEF Push
  <1>3. \A x : Has(queue', x) <=> Has(queue, x) \/ x = m
    BY <1>1, AppendHas DEF Push, TypeOK
  <1>4. ASSUME NEW u \in Threads, drops' = 0, call'[u].at = "attach", NEW q, q = call'[u].now
        PROVE  Sent("text", q)'
    <2>1. u # t /\ call'[u] = call[u]
      BY <1>2, <1>4 DEF NoCall
    <2>2. Sent("text", q) /\ q \in Packets
      BY <1>1, <1>4, <2>1, HandsKnown DEF TextFirst
    <2> QED
      BY <2>2 DEF Kinds
  <1>5. ASSUME NEW q \in Packets, drops' = 0, IsEmitted(q)'
        PROVE  Somewhere(q)'
    <2>1. Somewhere(q)
      BY <1>1, <1>5 DEF Kept, IsEmitted
    <2>2. \A u \in Threads : call[u].mine = q \/ call[u].now = q => q = m \/ call'[u] = call[u]
      BY <1>1, <1>2, PacketsAssumption
    <2> QED
      BY <1>3, <2>1, <2>2 DEF Somewhere, Kinds
  <1> QED
    BY <1>4, <1>5 DEF TextFirst, Kept

LEMMA DrainKeeps ==
  ASSUME TypeOK, CallsInv, TextFirst, Kept, NEW t \in Threads, Drain(t),
         \A kind \in Kinds, p \in Packets : Sent(kind, p) => Sent(kind, p)'
  PROVE  TextFirst' /\ Kept'
  <1>1. /\ call[t].now = None
        /\ \A u \in Threads : u # t => call'[u] = call[u]
        /\ call'[t].at = "send" /\ call'[t].mine = call[t].mine
        /\ call'[t].now = IF queue = <<>> THEN call[t].mine ELSE Head(queue)
        /\ queue' = IF queue = <<>> THEN queue ELSE Tail(queue)
    BY DrainDoes DEF CallsInv
  <1>2. UNCHANGED <<emitted, drops>>
    BY DEF Drain, bounds
  <1>3. \A x : Has(queue, x) => Has(queue', x) \/ x = call'[t].now
    <2>1. queue # <<>> => \A x : Has(queue, x) <=> x = Head(queue) \/ Has(Tail(queue), x)
      BY TailHas DEF TypeOK
    <2> QED
      BY <1>1, <2>1
  <1>4. ASSUME NEW u \in Threads, drops' = 0, call'[u].at = "attach", NEW q, q = call'[u].now
        PROVE  Sent("text", q)'
    <2>1. u # t /\ call'[u] = call[u]
      BY <1>1, <1>4
    <2>2. Sent("text", q) /\ q \in Packets
      BY <1>2, <1>4, <2>1, HandsKnown DEF TextFirst
    <2> QED
      BY <2>2 DEF Kinds
  <1>5. ASSUME NEW q \in Packets, drops' = 0, IsEmitted(q)'
        PROVE  Somewhere(q)'
    <2>1. Somewhere(q)
      BY <1>2, <1>5 DEF Kept, IsEmitted
    <2>2. \A u \in Threads : call[u].mine = q \/ call[u].now = q =>
             call'[u].mine = q \/ call'[u].now = q
      BY <1>1, PacketsAssumption
    <2> QED
      BY <1>3, <2>1, <2>2 DEF Somewhere, Kinds
  <1> QED
    BY <1>4, <1>5 DEF TextFirst, Kept

\* The call goes on to the attachment, or is done with the packet.
LEMMA SendKeeps ==
  ASSUME TypeOK, CallsInv, TextFirst, Kept, NEW t \in Threads, SendText(t) \/ SendAttachment(t),
         NEW n, n = call[t].now,
         \A kind \in Kinds, p \in Packets : Sent(kind, p) => Sent(kind, p)'
  PROVE  TextFirst' /\ Kept'
  <1>1. /\ call[t].at \in {"send", "attach"} /\ n \in Packets
        /\ UNCHANGED <<emitted, drops, queue, wire>>
    BY HandsKnown DEF SendText, SendAttachment, history, bounds, sockVars
  <1>2. drops = 0 => Sent("text", n)'
    <2>1. CASE SendText(t)
      BY <1>1, <2>1, PayloadSent DEF SendText, Kinds
    <2>2. CASE SendAttachment(t)
      BY <1>1, <2>2 DEF SendAttachment, TextFirst, Kinds
    <2> QED
      BY <2>1, <2>2
  <1>3. \/ Goes(t, "attach") /\ n \in Binary
        \/ Passed(t) /\ (n \in Binary => Sent("attachment", n)')
    BY <1>1, PayloadSent DEF SendText, SendAttachment, Kinds
  <1>4. /\ \A u \in Threads : u # t => call'[u] = call[u]
        /\ \/ /\ call'[t].at = "attach" /\ call'[t].now = n /\ call'[t].mine = call[t].mine
              /\ n \in Binary
           \/ /\ call'[t].at # "attach" /\ call'[t].now = None
              /\ call'[t].mine = call[t].mine \/ n = call[t].mine
              /\ n \in Binary => Sent("attachment", n)'
    <2>1. CASE Goes(t, "attach") /\ n \in Binary
      BY <2>1, AtGoes DEF Stations
    <2>2. CASE Passed(t) /\ (n \in Binary => Sent("attachment", n)')
      BY <2>2, PassedDoes DEF NoCall
    <2> QED
      BY <1>3, <2>1, <2>2
  <1>5. ASSUME NEW u \in Threads, drops' = 0, call'[u].at = "attach", NEW q, q = call'[u].now
        PROVE  Sent("text", q)'
    <2>1. CASE u = t
      BY <1>1, <1>2, <1>4, <1>5, <2>1
    <2>2. CASE u # t
      <3>1. Sent("text", q) /\ q \in Packets
        BY <1>1, <1>4, <1>5, <2>2, HandsKnown DEF TextFirst
      <3> QED
        BY <3>1 DEF Kinds
    <2> QED
      BY <2>1, <2>2
  <1>6. ASSUME NEW q \in Packets, drops' = 0, IsEmitted(q)'
        PROVE  Somewhere(q)'
    <2>1. Somewhere(q)
      BY <1>1, <1>6 DEF Kept, IsEmitted
    <2>2. CASE q # n
      <3>1. \A u \in Threads : call[u].mine = q \/ call[u].now = q =>
               call'[u].mine = q \/ call'[u].now = q
        BY <1>4, <2>2
      <3> QED
        BY <1>1, <2>1, <3>1 DEF Somewhere, Kinds
    <2>3. CASE q = n
      BY <1>1, <1>2, <1>4, <1>6, <2>3 DEF Somewhere
    <2> QED
      BY <2>2, <2>3
  <1> QED
    BY <1>5, <1>6 DEF TextFirst, Kept

\* The network thread sends what it pops.
LEMMA NetDrainKeeps ==
  ASSUME TypeOK, CallsInv, KeptInv, NetDrain,
         drops = 0 => \A kind \in Kinds, p \in Packets : Sent(kind, p) => Sent(kind, p)'
  PROVE  TextFirst' /\ Kept'
  <1>1. UNCHANGED <<call, emitted, drops, io>>
    BY DEF NetDrain, bounds
  <1>2. CASE queue = <<>>
    <2>1. UNCHANGED queue
      BY <1>2 DEF NetDrain
    <2> QED
      BY <1>1, <2>1, HandsKnown, KeptFrame DEF KeptInv
  <1>3. CASE queue # <<>>
    <2>0. PICK h : h = Head(queue)
      OBVIOUS
    <2>1. h \in Packets /\ OnWire(PayloadsOf(h)) /\ queue' = Tail(queue)
      BY <1>3, <2>0 DEF NetDrain, TypeOK
    <2>2. \A x : Has(queue, x) <=> x = h \/ Has(queue', x)
      BY <1>3, <2>0, <2>1, TailHas DEF TypeOK
    <2>3. drops = 0 => Sent("text", h)' /\ (h \in Binary => Sent("attachment", h)')
      <3>1. drops = 0 => opened
        BY DEF KeptInv, NoDrop
      <3>2. /\ PayloadsOf(h) \in Seq(Payloads)
            /\ Has(PayloadsOf(h), Pay("text", h))
            /\ h \in Binary => Has(PayloadsOf(h), Pay("attachment", h))
        BY <2>1, PayloadsHas
      <3>3. drops = 0 => \A x : Has(wire', x) <=> Has(wire, x) \/ Has(PayloadsOf(h), x)
        BY <2>1, <3>1, <3>2, WritesAdd
      <3> QED
        BY <3>2, <3>3 DEF Sent, Kinds
    <2>4. ASSUME NEW u \in Threads, drops' = 0, call'[u].at = "attach", NEW q, q = call'[u].now
          PROVE  Sent("text", q)'
      <3>1. Sent("text", q) /\ q \in Packets
        BY <1>1, <2>4, HandsKnown DEF KeptInv, TextFirst
      <3> QED
        BY <1>1, <2>4, <3>1 DEF Kinds
    <2>5. ASSUME NEW q \in Packets, drops' = 0, IsEmitted(q)'
          PROVE  Somewhere(q)'
      <3>1. Somewhere(q)
        BY <1>1, <2>5 DEF KeptInv, Kept, IsEmitted
      <3> QED
        BY <1>1, <2>2, <2>3, <2>5, <3>1 DEF Somewhere, Kinds
    <2> QED
      BY <2>4, <2>5 DEF TextFirst, Kept
  <1> QED
    BY <1>2, <1>3

LEMMA KeptStep ==
  ASSUME TypeOK, CallsInv, KeptInv, Next
  PROVE  KeptInv'
  <1>1. NoDrop'
    BY NoDropStep DEF KeptInv
  <1>2. drops' = 0 => drops = 0
    <2>1. UNCHANGED drops \/ drops' = drops + 1
      BY DEF Next, Emit, ReadId, WriteId, Register, Route, Push, Drain, SendText, SendAttachment,
             SendImpl, OnConnected, OnEvent, NetDrain, OnAck, OnDisconnect, ClearQueue, OnOpen,
             Accept, ServerEvent, ServerAnswers, Drop, bounds
    <2> QED
      BY <2>1 DEF TypeOK
  <1>3. drops' = 0 => \A kind \in Kinds, p \in Packets : Sent(kind, p) => Sent(kind, p)'
    BY SentStays DEF KeptInv
  <1>4. CASE drops' # 0
    BY <1>1, <1>4 DEF KeptInv, TextFirst, Kept
  <1>5. CASE drops' = 0
    <2>1. \A kind \in Kinds, p \in Packets : Sent(kind, p) => Sent(kind, p)'
      BY <1>3, <1>5
    <2>2. ASSUME NEW t \in Threads, Emit(t) \/ Push(t) \/ Drain(t) \/ SendText(t) \/ SendAttachment(t)
          PROVE  TextFirst' /\ Kept'
      BY <2>1, <2>2, EmitKeeps, PushKeeps, DrainKeeps, SendKeeps DEF KeptInv
    <2>3. ASSUME NEW t \in Threads, ReadId(t) \/ WriteId(t) \/ Register(t) \/ Route(t)
          PROVE  TextFirst' /\ Kept'
      <3>1. /\ UNCHANGED <<queue, emitted>>
            /\ \A u \in Threads : /\ call'[u].mine = call[u].mine /\ call'[u].now = call[u].now
                                  /\ call'[u].at = "attach" => call[u].at = "attach"
        <4>1. CASE ReadId(t)
          BY <4>1 DEF ReadId, TypeOK, sockVars, Calls
        <4>2. CASE WriteId(t) \/ Register(t) \/ Route(t)
          <5>1. \E at \in {"register", "route", "drain", "push"} : Goes(t, at)
            BY <4>2 DEF WriteId, Register, Route
          <5>2. UNCHANGED <<queue, emitted>>
            BY <4>2 DEF WriteId, Register, Route, sockVars, history
          <5> QED
            BY <5>1, <5>2, AtGoes DEF Stations
        <4> QED
          BY <2>3, <4>1, <4>2
      <3> QED
        BY <1>2, <2>1, <3>1, HandsKnown, KeptFrame DEF KeptInv
    <2>4. CASE NetDrain
      BY <1>1, <2>1, <2>4, NetDrainKeeps DEF KeptInv
    <2>5. CASE NetworkStep /\ ~NetDrain
      <3>1. UNCHANGED <<call, emitted>>
        BY <2>5, NetworkCalls
      <3>2. UNCHANGED queue
        BY <1>2, <1>5, <2>5 DEF NetworkStep, SendImpl, OnConnected, OnEvent, OnAck, OnDisconnect, ClearQueue,
           OnOpen, Accept, ServerEvent, ServerAnswers, Drop, sockVars, KeptInv, NoDrop
      <3> QED
        BY <1>1, <1>2, <2>1, <3>1, <3>2, HandsKnown, KeptFrame DEF KeptInv
    <2> QED
      BY <1>1, <2>2, <2>3, <2>4, <2>5 DEF Next, NetworkStep, KeptInv
  <1> QED
    BY <1>4, <1>5

LEMMA InitKept == Init => KeptInv
  <1> SUFFICES ASSUME Init PROVE KeptInv
    OBVIOUS
  <1>1. NoDrop
    BY EmptyHas DEF Init, NoDrop
  <1>2. TextFirst
    BY DEF Init, TextFirst, NoCall
  <1>3. Kept
    BY EmptyHas DEF Init, Kept, IsEmitted
  <1> QED
    BY <1>1, <1>2, <1>3 DEF KeptInv

-----------------------------------------------------------------------------
(* The theorems.                                                           *)

\* The inductive invariant holds in every state: a payload is in one place, the
\* packets of a thread stay behind one another, and ids lead to callbacks.
THEOREM EmitInvariance == Spec => []IInv
  <1>1. Init => IInv
    BY InitInvariant
  <1>2. IInv /\ [Next]_vars => IInv'
    <2> SUFFICES ASSUME IInv, [Next]_vars PROVE IInv'
      OBVIOUS
    <2>1. CASE Next
      <3>1. TypeOK /\ CallsInv /\ PlacesInv /\ CallbacksInv
        BY InvariantParts
      <3>2. TypeOK' /\ CallsInv' /\ PlacesInv' /\ CallbacksInv'
        BY <2>1, <3>1, TypesStep, CallsStep, PlacesStep, CallbacksStep
      <3> QED
        BY <3>2 DEF IInv, CallsInv, PlacesInv, CallbacksInv
    <2>2. CASE UNCHANGED vars
      BY <2>2, StutterInvariant
    <2> QED
      BY <2>1, <2>2
  <1> QED
    BY <1>1, <1>2, PTL DEF Spec

\* Every variable of emit, send_packet and the io_service keeps its type; an id
\* there is for every packet, however the threads race for the counter.
THEOREM EmitTypes == Spec => []TypeOK
  <1>1. IInv => TypeOK
    BY DEF IInv
  <1> QED
    BY <1>1, EmitInvariance, PTL

\* No payload reaches the server twice, whoever drains the queue (send_packet,
\* on_connected, ack) and whatever the transport drops.
THEOREM SendsOnce == Spec => []SentOnce
  <1>1. IInv => SentOnce
    <2> SUFFICES ASSUME IInv, NEW p \in Packets, NEW kind \in Kinds
                 PROVE  Cardinality(Places(p, kind)) <= 1
      BY DEF SentOnce, Kinds
    <2>1. Once(wire, Pay(kind, p))
      BY DEF IInv, OnePlace, OnePlaceOf
    <2>2. \A i, j \in Places(p, kind) : i = j
      BY <2>1 DEF Places, Once, Pay
    <2>3. CASE Places(p, kind) = {}
      BY <2>3, FS_EmptySet
    <2>4. CASE Places(p, kind) # {}
      <3>1. PICK i : Places(p, kind) = {i}
        BY <2>2, <2>4
      <3> QED
        BY <3>1, FS_Singleton
    <2> QED
      BY <2>3, <2>4
  <1> QED
    BY <1>1, EmitInvariance, PTL

\* The server gets the packets of a thread in the order of its emits, as long as
\* no drain goes on while a packet of another thread is between queue and wire.
THEOREM SendsInOrder == Spec => []SentInOrder
  <1>1. IInv => SentInOrder
    <2> SUFFICES ASSUME IInv, ~mixed, NEW t \in Threads,
                        NEW i \in DOMAIN emitted[t], NEW j \in DOMAIN emitted[t], i < j,
                        NEW k \in Places(emitted[t][i], "text"),
                        NEW l \in Places(emitted[t][j], "text")
                 PROVE  k < l
      BY DEF SentInOrder
    <2>1. Before(wire, Pay("text", emitted[t][i]), Pay("text", emitted[t][j]))
      BY DEF IInv, InOrder, Behind
    <2> QED
      BY <2>1 DEF Before, Places, Pay
  <1> QED
    BY <1>1, EmitInvariance, PTL

\* send_packet and on_connected lose nothing between front and pop, or between
\* push and drain, whoever runs them: until the transport drops, every packet is
\* in somebody's hands, queued, dispatched or sent.
THEOREM LosesNone == Spec => []NoneLost
  <1>1. KeptInv /\ [Next]_vars /\ IInv => KeptInv'
    <2> SUFFICES ASSUME KeptInv, [Next]_vars, IInv PROVE KeptInv'
      OBVIOUS
    <2>1. CASE Next
      BY <2>1, KeptStep, InvariantParts
    <2>2. CASE UNCHANGED vars
      BY <2>2 DEF KeptInv, NoDrop, TextFirst, Kept, Somewhere, Sent, IsEmitted, vars, sockVars,
                  bounds, history
    <2> QED
      BY <2>1, <2>2
  <1>2. IInv /\ KeptInv => NoneLost
    <2> SUFFICES ASSUME IInv, KeptInv, drops = 0, NEW t \in Threads, NEW p \in ToSet(emitted[t])
                 PROVE  \/ \E u \in Threads : p \in {call[u].mine, call[u].now}
                        \/ p \in ToSet(queue)
                        \/ ToSet(PayloadsOf(p)) \subseteq ToSet(io \o wire)
      BY DEF NoneLost
    <2>1. /\ emitted[t] \in Seq(Packets) /\ io \in Seq(Payloads \cup Reads)
          /\ wire \in Seq(Payloads \cup {Opening})
      BY DEF IInv, TypeOK
    <2>2. p \in Packets /\ IsEmitted(p)
      BY <2>1 DEF ToSet, IsEmitted, Has
    <2>3. Somewhere(p)
      BY <2>2 DEF KeptInv, Kept
    <2>4. Has(queue, p) => p \in ToSet(queue)
      BY DEF Has, ToSet
    <2>5. \A x : Has(io, x) \/ Has(wire, x) => x \in ToSet(io \o wire)
      <3>1. io \in Seq(Payloads \cup Reads \cup {Opening}) /\ wire \in Seq(Payloads \cup Reads \cup {Opening})
        BY <2>1
      <3>2. \A x : Has(io \o wire, x) <=> Has(io, x) \/ Has(wire, x)
        BY <3>1, ConcatHas
      <3>3. \A x : Has(io \o wire, x) => x \in ToSet(io \o wire)
        BY DEF Has, ToSet
      <3> QED
        BY <3>2, <3>3
    <2>6. Sent("text", p) /\ (p \in Binary => Sent("attachment", p))
             => ToSet(PayloadsOf(p)) \subseteq ToSet(io \o wire)
      BY <2>2, <2>5, PayloadsHas DEF Sent
    <2> QED
      BY <2>3, <2>4, <2>6 DEF Somewhere
  <1> QED
    BY <1>1, <1>2, InitKept, EmitInvariance, PTL DEF Spec

\* on_socketio_ack calls the callback of an emit at most once, however often the
\* server answers and whichever emits raced for an id.
THEOREM CallsOnce == Spec => []CalledOnce
  <1>1. IInv => CalledOnce
    BY DEF IInv
  <1> QED
    BY <1>1, EmitInvariance, PTL

\* An answer finds the callback of its own emit, unless two emits raced for the
\* counter of the ids.
THEOREM AnswersFind == Spec => []AnswersFindCallbacks
  <1>1. IInv => AnswersFindCallbacks
    BY DEF IInv
  <1> QED
    BY <1>1, EmitInvariance, PTL
=============================================================================
