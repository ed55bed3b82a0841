----------------------------- MODULE PartsProofs -----------------------------
(***************************************************************************)
(* Proofs about the parts that MCParts checks side by side.                *)
(*                                                                         *)
(* SioAssembly, for every set of packets and every codec that is right     *)
(* about one packet at a time: what the server sent is delivered whole and *)
(* in order.  SioEvents, for every set of namespaces, names and functions: *)
(* its types, and that the map and the listeners agree but for what a      *)
(* removed socket took along.  WsNative, for every set of connections: its *)
(* types, and that bIsConnected settles to what the present connection is. *)
(***************************************************************************)
EXTENDS SioAssembly, SioEvents, WsNative, SequenceTheorems, TLAPS

-----------------------------------------------------------------------------
(* SioAssembly.  The inductive invariant relates the wire, the reader and  *)
(* the history through the packets that are still to be delivered.         *)

\* Every packet the server sends.
Sendable == Packets \cup {CodecHandshake, CodecPing}

\* What may be in a payload.
Contents == (UNION {Range(CodecPayloads(p)) : p \in Sendable}) \ {<<>>}

\* The wire is the payloads of the packets s one packet behind the other, packet i
\* behind position at[i]; of the first one some payloads may have been read.
Carries(w, s, at) ==
    /\ w \in Seq(Contents)
    /\ s \in Seq(Sendable)
    /\ at \in [1..(Len(s) + 1) -> Int]
    /\ at[1] <= 0
    /\ at[Len(s) + 1] = Len(w)
    /\ \A i \in 2..(Len(s) + 1) : at[i] >= 1
    /\ \A i, j \in 1..(Len(s) + 1) : i < j => at[i] < at[j]
    /\ \A i \in 1..Len(s) :
          /\ at[i + 1] = at[i] + Len(CodecPayloads(s[i]))
          /\ \A j \in 1..Len(CodecPayloads(s[i])) :
                at[i] + j >= 1 => w[at[i] + j] = CodecPayloads(s[i])[j]

\* A binary packet of which k payloads have been read.
HalfParsed(p, k) ==
    [CodecParse(CodecPayloads(p)[1]) EXCEPT !.pending = Len(CodecPayloads(p)) - k,
                                  !.buffers = SubSeq(CodecPayloads(p), 2, k)]

\* The packets s are what is missing of what was sent.
Misses(s) ==
    /\ Len(sent) = Len(got) + Len(s)
    /\ \A i \in 1..Len(got) : sent[i] = got[i]
    /\ \A i \in 1..Len(s) : sent[Len(got) + i] = CodecAsDecoded(s[i])

\* The reader stands at a packet, or inside one whose first payloads it keeps.
Stands(s, at) ==
    \/ partial = <<>> /\ at[1] = 0
    \/ s # <<>> /\ at[1] < 0 /\ partial = <<HalfParsed(s[1], -at[1])>>

InStep == \E s \in Seq(Sendable), at \in UNION {[1..n -> Int] : n \in Nat \ {0}} :
              Carries(wire, s, at) /\ Misses(s) /\ Stands(s, at)

AssemblyInv ==
    /\ up \in BOOLEAN
    /\ sent \in Seq({CodecAsDecoded(p) : p \in Sendable})
    /\ got \in Seq({CodecAsDecoded(p) : p \in Sendable})
    /\ up => InStep
    /\ ~up => IsPrefix(got, sent)

-----------------------------------------------------------------------------

\* A position and what it was before a payload was read.
LEMMA Shifted ==
  ASSUME NEW a \in Int, NEW b, b = a - 1, NEW j \in Int, NEW m \in Int, j <= m,
         NEW l \in Nat, a + m <= l, b + j >= 1
  PROVE  b + j \in 1..(l - 1) /\ (b + j) + 1 = a + j /\ a + j >= 1
  OBVIOUS

LEMMA PayloadsAreSeq ==
  ASSUME CodecDecodes, NEW p \in Sendable
  PROVE  /\ CodecPayloads(p) \in Seq(Contents)
         /\ Len(CodecPayloads(p)) \in Nat \ {0}
         /\ CodecPayloads(p) # <<>>
         /\ \A j \in 1..Len(CodecPayloads(p)) : CodecPayloads(p)[j] \in Contents /\ CodecPayloads(p)[j] # <<>>
  <1>1. Decodes(p)
    BY DEF CodecDecodes, Sendable
  <1>2. CodecPayloads(p) \in Seq(Range(CodecPayloads(p)) \ {<<>>})
    BY <1>1 DEF Decodes
  <1>3. Range(CodecPayloads(p)) \ {<<>>} \subseteq Contents
    BY DEF Contents
  <1>4. CodecPayloads(p) \in Seq(Contents)
    BY <1>2, <1>3, SeqMonotonic
  <1>5. Len(CodecPayloads(p)) >= 1
    BY <1>1 DEF Decodes, DecodesPlain, DecodesBinary
  <1>6. Len(CodecPayloads(p)) \in Nat
    BY <1>4, LenProperties
  <1>7. \A j \in 1..Len(CodecPayloads(p)) : CodecPayloads(p)[j] \in Contents
    BY <1>4, ElementOfSeq
  <1>8. <<>> \notin Contents
    BY DEF Contents
  <1>9. CodecPayloads(p) # <<>>
    BY <1>5, EmptySeq
  <1> QED
    BY <1>4, <1>5, <1>6, <1>7, <1>8, <1>9

\* The first packet on an empty wire.
LEMMA StartCarries ==
  ASSUME CodecDecodes, NEW p \in Sendable
  PROVE  Carries(CodecPayloads(p), <<p>>, <<0, Len(CodecPayloads(p))>>)
  <1> DEFINE n == Len(CodecPayloads(p))
             at == <<0, n>>
  <1>1. CodecPayloads(p) \in Seq(Contents) /\ n \in Nat \ {0}
    BY PayloadsAreSeq
  <1>2. <<p>> \in Seq(Sendable) /\ Len(<<p>>) = 1 /\ <<p>>[1] = p
    OBVIOUS
  <1>3. at \in [1..2 -> Int] /\ at[1] = 0 /\ at[2] = n
    BY <1>1
  <1> HIDE DEF n, at
  <1>4. \A i, j \in 1..2 : i < j => at[i] < at[j]
    BY <1>1, <1>3
  <1>5. \A j \in 1..n : at[1] + j = j
    BY <1>1, <1>3
  <1>6. Carries(CodecPayloads(p), <<p>>, at)
    BY <1>1, <1>2, <1>3, <1>4, <1>5 DEF Carries, n
  <1> QED
    BY <1>6 DEF at, n

LEMMA AppendCarries ==
  ASSUME CodecDecodes, NEW w, NEW s, NEW at, Carries(w, s, at), NEW p \in Sendable
  PROVE  Carries(w \o CodecPayloads(p), Append(s, p),
                 [i \in 1..(Len(s) + 2) |->
                     IF i <= Len(s) + 1 THEN at[i] ELSE Len(w) + Len(CodecPayloads(p))])
  <1> DEFINE n == Len(s)
             l == Len(w)
             k == Len(CodecPayloads(p))
             v == w \o CodecPayloads(p)
             r == Append(s, p)
             to == [i \in 1..(n + 2) |-> IF i <= n + 1 THEN at[i] ELSE l + k]
  <1>1. /\ w \in Seq(Contents) /\ s \in Seq(Sendable) /\ at \in [1..(n + 1) -> Int]
        /\ at[1] <= 0 /\ at[n + 1] = l
        /\ \A i \in 2..(n + 1) : at[i] >= 1
        /\ \A i, j \in 1..(n + 1) : i < j => at[i] < at[j]
        /\ \A i \in 1..n :
              /\ at[i + 1] = at[i] + Len(CodecPayloads(s[i]))
              /\ \A j \in 1..Len(CodecPayloads(s[i])) :
                    at[i] + j >= 1 => w[at[i] + j] = CodecPayloads(s[i])[j]
    BY DEF Carries
  <1>2. CodecPayloads(p) \in Seq(Contents) /\ k \in Nat \ {0}
    BY PayloadsAreSeq
  <1>3. n \in Nat /\ l \in Nat
    BY <1>1, LenProperties
  <1>4. /\ v \in Seq(Contents) /\ Len(v) = l + k
        /\ \A i \in 1..(l + k) : v[i] = IF i <= l THEN w[i] ELSE CodecPayloads(p)[i - l]
    BY <1>1, <1>2, ConcatProperties
  <1>5. /\ r \in Seq(Sendable) /\ Len(r) = n + 1 /\ r[n + 1] = p
        /\ \A i \in 1..n : r[i] = s[i]
    BY <1>1, AppendProperties
  <1>6. \A i \in 1..n : Len(CodecPayloads(s[i])) \in Nat \ {0}
    <2> TAKE i \in 1..n
    <2>1. s[i] \in Sendable
      BY <1>1, ElementOfSeq
    <2> QED
      BY <2>1, PayloadsAreSeq
  <1>7. /\ to \in [1..(n + 2) -> Int] /\ to[n + 2] = l + k
        /\ \A i \in 1..(n + 1) : to[i] = at[i]
    BY <1>1, <1>2, <1>3
  <1> HIDE DEF n, l, k, v, r, to
  <1>8. to[1] <= 0 /\ to[n + 1] = l
    BY <1>1, <1>3, <1>7
  <1>9. \A i \in 1..(n + 1) : at[i] \in Int /\ at[i] <= l
    <2> TAKE i \in 1..(n + 1)
    <2>1. n + 1 \in 1..(n + 1) /\ (i = n + 1 \/ i < n + 1)
      BY <1>3
    <2>2. at[i] \in Int /\ (i = n + 1 \/ at[i] < at[n + 1])
      BY <1>1, <2>1
    <2> QED
      BY <1>1, <1>3, <2>2
  <1>10. \A i \in 2..(n + 2) : to[i] >= 1
    BY <1>1, <1>2, <1>3, <1>7
  <1>11. \A i, j \in 1..(n + 2) : i < j => to[i] < to[j]
    <2> TAKE i, j \in 1..(n + 2)
    <2> SUFFICES ASSUME i < j PROVE to[i] < to[j]
      OBVIOUS
    <2>1. CASE j <= n + 1
      <3>1. i \in 1..(n + 1) /\ j \in 1..(n + 1)
        BY <1>3, <2>1
      <3>2. to[i] = at[i] /\ to[j] = at[j]
        BY <1>7, <3>1
      <3> QED
        BY <1>1, <3>1, <3>2
    <2>2. CASE j = n + 2
      BY <1>2, <1>3, <1>7, <1>9, <2>2
    <2> QED
      BY <1>3, <2>1, <2>2
  <1>12. ASSUME NEW i \in 1..(n + 1)
         PROVE  /\ to[i + 1] = to[i] + Len(CodecPayloads(r[i]))
                /\ \A j \in 1..Len(CodecPayloads(r[i])) :
                      to[i] + j >= 1 => v[to[i] + j] = CodecPayloads(r[i])[j]
    <2>1. CASE i \in 1..n
      <3>1. r[i] = s[i] /\ to[i] = at[i] /\ to[i + 1] = at[i + 1]
        BY <1>3, <1>5, <1>7, <2>1
      <3>2. at[i + 1] <= l /\ at[i + 1] = at[i] + Len(CodecPayloads(s[i])) /\ at[i] \in Int
        BY <1>1, <1>3, <1>9, <2>1
      <3>3. ASSUME NEW j \in 1..Len(CodecPayloads(s[i])), at[i] + j >= 1
            PROVE  v[at[i] + j] = CodecPayloads(s[i])[j]
        <4>1. at[i] + j \in 1..l
          BY <1>3, <1>6, <2>1, <3>2, <3>3
        <4>2. v[at[i] + j] = w[at[i] + j]
          BY <1>2, <1>3, <1>4, <4>1
        <4> QED
          BY <1>1, <2>1, <3>3, <4>2
      <3> QED
        BY <3>1, <3>2, <3>3
    <2>2. CASE i = n + 1
      <3>1. r[i] = p /\ to[i] = l /\ to[i + 1] = l + k
        BY <1>3, <1>5, <1>7, <1>8, <2>2
      <3>2. ASSUME NEW j \in 1..k PROVE v[l + j] = CodecPayloads(p)[j]
        BY <1>2, <1>3, <1>4
      <3> QED
        BY <3>1, <3>2 DEF k
    <2> QED
      BY <1>3, <2>1, <2>2
  <1>13. Carries(v, r, to)
    <2>1. /\ Len(r) + 1 = n + 2 /\ to[Len(r) + 1] = Len(v)
      BY <1>3, <1>4, <1>5, <1>7
    <2> QED
      BY <1>4, <1>5, <1>7, <1>8, <1>10, <1>11, <1>12, <2>1 DEF Carries
  <1> QED
    BY <1>13 DEF n, l, k, v, r, to

\* Reading a payload that is not the last one of its packet.
LEMMA ReadInside ==
  ASSUME CodecDecodes, NEW w, NEW s, NEW at, Carries(w, s, at), w # <<>>, at[2] > 1
  PROVE  Carries(Tail(w), s, [i \in 1..(Len(s) + 1) |-> at[i] - 1])
  <1> DEFINE n == Len(s)
             v == Tail(w)
             to == [i \in 1..(n + 1) |-> at[i] - 1]
  <1>1. /\ w \in Seq(Contents) /\ s \in Seq(Sendable) /\ at \in [1..(n + 1) -> Int]
        /\ at[1] <= 0 /\ at[n + 1] = Len(w)
        /\ \A i \in 2..(n + 1) : at[i] >= 1
        /\ \A i, j \in 1..(n + 1) : i < j => at[i] < at[j]
        /\ \A i \in 1..n :
              /\ at[i + 1] = at[i] + Len(CodecPayloads(s[i]))
              /\ \A j \in 1..Len(CodecPayloads(s[i])) :
                    at[i] + j >= 1 => w[at[i] + j] = CodecPayloads(s[i])[j]
    BY DEF Carries
  <1>2. n \in Nat /\ Len(w) \in Nat \ {0}
    BY <1>1, LenProperties, EmptySeq
  <1>3. /\ v \in Seq(Contents) /\ Len(v) = Len(w) - 1
        /\ \A i \in 1..(Len(w) - 1) : v[i] = w[i + 1]
    BY <1>1, HeadTailProperties
  <1>4. \A i \in 1..n : Len(CodecPayloads(s[i])) \in Nat \ {0}
    <2> TAKE i \in 1..n
    <2>1. s[i] \in Sendable
      BY <1>1, ElementOfSeq
    <2> QED
      BY <2>1, PayloadsAreSeq
  <1>5. to \in [1..(n + 1) -> Int] /\ \A i \in 1..(n + 1) : to[i] = at[i] - 1
    BY <1>1
  <1> HIDE DEF n, v, to
  <1>6. \A i \in 1..(n + 1) : at[i] \in Int /\ at[i] <= Len(w)
    BY <1>1, <1>2
  <1>7. to[1] <= 0 /\ to[n + 1] = Len(v)
    <2>1. 1 \in 1..(n + 1) /\ n + 1 \in 1..(n + 1)
      BY <1>2
    <2>2. to[1] = at[1] - 1 /\ to[n + 1] = at[n + 1] - 1 /\ at[1] \in Int
      BY <1>5, <1>6, <2>1
    <2> QED
      BY <1>1, <1>2, <1>3, <2>2
  <1>8. \A i \in 2..(n + 1) : to[i] >= 1
    <2> TAKE i \in 2..(n + 1)
    <2>1. i \in 1..(n + 1) /\ 2 \in 1..(n + 1)
      BY <1>2
    <2>2. i = 2 \/ at[2] < at[i]
      BY <1>1, <2>1
    <2> QED
      BY <1>5, <1>6, <2>1, <2>2
  <1>9. \A i, j \in 1..(n + 1) : i < j => to[i] < to[j]
    BY <1>1, <1>5, <1>6
  <1>10. ASSUME NEW i \in 1..n
         PROVE  /\ to[i + 1] = to[i] + Len(CodecPayloads(s[i]))
                /\ \A j \in 1..Len(CodecPayloads(s[i])) :
                      to[i] + j >= 1 => v[to[i] + j] = CodecPayloads(s[i])[j]
    <2>1. i \in 1..(n + 1) /\ i + 1 \in 1..(n + 1)
      BY <1>2
    <2>2. to[i] = at[i] - 1 /\ to[i + 1] = at[i + 1] - 1 /\ at[i + 1] <= Len(w)
          /\ at[i + 1] = at[i] + Len(CodecPayloads(s[i])) /\ at[i] \in Int
          /\ Len(CodecPayloads(s[i])) \in Nat
      BY <1>1, <1>4, <1>5, <1>6, <2>1
    <2>3. ASSUME NEW j \in 1..Len(CodecPayloads(s[i])), to[i] + j >= 1
          PROVE  v[to[i] + j] = CodecPayloads(s[i])[j]
      <3>1. to[i] + j \in 1..(Len(w) - 1) /\ (to[i] + j) + 1 = at[i] + j /\ at[i] + j >= 1
        <4>1. j \in Int /\ j <= Len(CodecPayloads(s[i])) /\ Len(CodecPayloads(s[i])) \in Int
          BY <2>2
        <4>2. at[i] + Len(CodecPayloads(s[i])) <= Len(w) /\ Len(w) \in Nat
          BY <1>2, <2>2
        <4> QED
          BY <2>2, <2>3, <4>1, <4>2, Shifted
      <3>2. v[to[i] + j] = w[(to[i] + j) + 1]
        BY <1>3, <3>1
      <3>3. v[to[i] + j] = w[at[i] + j]
        BY <3>1, <3>2
      <3> QED
        BY <1>1, <3>1, <3>3
    <2> QED
      BY <1>4, <2>2, <2>3
  <1>11. Carries(v, s, to)
    BY <1>1, <1>3, <1>5, <1>7, <1>8, <1>9, <1>10 DEF Carries, n
  <1> QED
    BY <1>11 DEF n, v, to

\* Reading the last payload of a packet.
LEMMA ReadToEnd ==
  ASSUME CodecDecodes, NEW w, NEW s, NEW at, Carries(w, s, at), w # <<>>, s # <<>>, at[2] = 1
  PROVE  Carries(Tail(w), Tail(s), [i \in 1..Len(s) |-> at[i + 1] - 1])
  <1> DEFINE n == Len(s)
             v == Tail(w)
             r == Tail(s)
             to == [i \in 1..n |-> at[i + 1] - 1]
  <1>1. /\ w \in Seq(Contents) /\ s \in Seq(Sendable) /\ at \in [1..(n + 1) -> Int]
        /\ at[1] <= 0 /\ at[n + 1] = Len(w)
        /\ \A i \in 2..(n + 1) : at[i] >= 1
        /\ \A i, j \in 1..(n + 1) : i < j => at[i] < at[j]
        /\ \A i \in 1..n :
              /\ at[i + 1] = at[i] + Len(CodecPayloads(s[i]))
              /\ \A j \in 1..Len(CodecPayloads(s[i])) :
                    at[i] + j >= 1 => w[at[i] + j] = CodecPayloads(s[i])[j]
    BY DEF Carries
  <1>2. n \in Nat \ {0} /\ Len(w) \in Nat \ {0}
    BY <1>1, LenProperties, EmptySeq
  <1>3. /\ v \in Seq(Contents) /\ Len(v) = Len(w) - 1
        /\ \A i \in 1..(Len(w) - 1) : v[i] = w[i + 1]
    BY <1>1, HeadTailProperties
  <1>4. /\ r \in Seq(Sendable) /\ Len(r) = n - 1
        /\ \A i \in 1..(n - 1) : r[i] = s[i + 1]
    BY <1>1, HeadTailProperties
  <1>5. \A i \in 1..n : Len(CodecPayloads(s[i])) \in Nat \ {0}
    <2> TAKE i \in 1..n
    <2>1. s[i] \in Sendable
      BY <1>1, ElementOfSeq
    <2> QED
      BY <2>1, PayloadsAreSeq
  <1>6. to \in [1..n -> Int] /\ \A i \in 1..n : to[i] = at[i + 1] - 1
    BY <1>1, <1>2
  <1> HIDE DEF n, v, r, to
  <1>7. \A i \in 1..(n + 1) : at[i] \in Int /\ at[i] <= Len(w)
    <2> TAKE i \in 1..(n + 1)
    <2>1. n + 1 \in 1..(n + 1) /\ (i = n + 1 \/ i < n + 1)
      BY <1>2
    <2>2. at[i] \in Int /\ (i = n + 1 \/ at[i] < at[n + 1])
      BY <1>1, <2>1
    <2> QED
      BY <1>1, <1>2, <2>2
  <1>8. to[1] = 0 /\ to[n] = Len(v)
    <2>1. 1 \in 1..n /\ n \in 1..n
      BY <1>2
    <2>2. to[1] = at[1 + 1] - 1 /\ to[n] = at[n + 1] - 1
      BY <1>6, <2>1
    <2> QED
      BY <1>1, <1>2, <1>3, <2>2
  <1>9. \A i, j \in 1..n : i < j => to[i] < to[j]
    <2> SUFFICES ASSUME NEW i \in 1..n, NEW j \in 1..n, i < j PROVE to[i] < to[j]
      OBVIOUS
    <2>1. i + 1 \in 1..(n + 1) /\ j + 1 \in 1..(n + 1) /\ i + 1 < j + 1
      BY <1>2
    <2>2. at[i + 1] < at[j + 1]
      BY <1>1, <2>1
    <2> QED
      BY <1>6, <1>7, <2>1, <2>2
  <1>10. \A i \in 2..n : to[i] >= 1
    <2> TAKE i \in 2..n
    <2>1. 1 \in 1..n /\ i \in 1..n /\ 1 < i
      BY <1>2
    <2>2. to[1] < to[i]
      BY <1>9, <2>1
    <2> QED
      BY <1>6, <1>8, <2>1, <2>2
  <1>11. ASSUME NEW i \in 1..(n - 1)
         PROVE  /\ to[i + 1] = to[i] + Len(CodecPayloads(r[i]))
                /\ \A j \in 1..Len(CodecPayloads(r[i])) :
                      to[i] + j >= 1 => v[to[i] + j] = CodecPayloads(r[i])[j]
    <2> DEFINE m == i + 1
    <2>1. m \in 1..n /\ i \in 1..n /\ m \in 1..(n + 1) /\ m + 1 \in 1..(n + 1) /\ m \in Nat
      BY <1>2
    <2>2. r[i] = s[m]
      BY <1>4
    <2>3. to[i] = at[m] - 1 /\ to[m] = at[m + 1] - 1
      BY <1>6, <2>1
    <2> HIDE DEF m
    <2>4. /\ at[m + 1] = at[m] + Len(CodecPayloads(s[m])) /\ at[m] \in Int /\ at[m + 1] <= Len(w)
          /\ Len(CodecPayloads(s[m])) \in Nat
          /\ \A j \in 1..Len(CodecPayloads(s[m])) :
                at[m] + j >= 1 => w[at[m] + j] = CodecPayloads(s[m])[j]
      BY <1>1, <1>5, <1>7, <2>1
    <2>5. ASSUME NEW j \in 1..Len(CodecPayloads(s[m])), to[i] + j >= 1
          PROVE  v[to[i] + j] = CodecPayloads(s[m])[j]
      <3>1. to[i] + j \in 1..(Len(w) - 1) /\ (to[i] + j) + 1 = at[m] + j /\ at[m] + j >= 1
        <4>1. j \in Int /\ j <= Len(CodecPayloads(s[m])) /\ Len(CodecPayloads(s[m])) \in Int
          BY <2>4
        <4>2. at[m] + Len(CodecPayloads(s[m])) <= Len(w) /\ Len(w) \in Nat
          BY <1>2, <2>4
        <4> QED
          BY <2>3, <2>4, <2>5, <4>1, <4>2, Shifted
      <3>2. v[to[i] + j] = w[(to[i] + j) + 1]
        BY <1>3, <3>1
      <3>3. v[to[i] + j] = w[at[m] + j]
        BY <3>1, <3>2
      <3> QED
        BY <2>4, <3>1, <3>3
    <2>6. to[m] = to[i] + Len(CodecPayloads(s[m]))
      BY <2>3, <2>4
    <2> QED
      BY <2>2, <2>5, <2>6 DEF m
  <1>12. Carries(v, r, to)
    <2>1. Len(r) + 1 = n
      BY <1>2, <1>4
    <2> QED
      BY <1>3, <1>4, <1>6, <1>8, <1>9, <1>10, <1>11, <2>1 DEF Carries
  <1> QED
    BY <1>12 DEF n, v, r, to

-----------------------------------------------------------------------------
(* A binary packet, payload by payload.                                    *)

LEMMA HalfOfFirst ==
  ASSUME CodecDecodes, NEW p \in Sendable, DecodesBinary(p)
  PROVE  HalfParsed(p, 1) = CodecParse(CodecPayloads(p)[1]) /\ CodecParse(CodecPayloads(p)[1]).more
  <1> DEFINE P == CodecPayloads(p)
             q == CodecParse(P[1])
  <1>1. q = [f \in ParsedFields |-> q[f]] /\ q.more /\ q.pending = Len(P) - 1 /\ q.buffers = <<>>
    BY DEF DecodesBinary
  <1>2. SubSeq(P, 2, 1) = <<>>
    BY SubSeqEmpty
  <1> HIDE DEF q, P
  <1>3. [q EXCEPT !.pending = Len(P) - 1, !.buffers = <<>>] = q
    BY <1>1 DEF ParsedFields
  <1> QED
    BY <1>1, <1>2, <1>3 DEF HalfParsed, q, P

LEMMA AttachmentsSoFar ==
  ASSUME CodecDecodes, NEW p \in Sendable, NEW k \in 1..(Len(CodecPayloads(p)) - 1)
  PROVE  Append(SubSeq(CodecPayloads(p), 2, k), CodecPayloads(p)[k + 1]) = SubSeq(CodecPayloads(p), 2, k + 1)
  <1> DEFINE P == CodecPayloads(p)
  <1>1. P \in Seq(Contents) /\ Len(P) \in Nat \ {0}
    BY PayloadsAreSeq
  <1> HIDE DEF P
  <1>2. \A i \in 1..Len(P) : P[i] \in Contents
    BY <1>1, ElementOfSeq
  <1>3. k \in 1..(Len(P) - 1)
    BY DEF P
  <1>4. \A i \in 2..(k + 1) : P[i] \in Contents
    BY <1>1, <1>2, <1>3
  <1>5. \A i \in 2..k : P[i] \in Contents
    BY <1>3, <1>4
  <1>6. k \in Int /\ k + 1 \in Int /\ 2 \in Int /\ P[k + 1] \in Contents /\ k \in Nat \ {0}
    BY <1>1, <1>3, <1>4
  <1>7. /\ SubSeq(P, 2, k) \in Seq(Contents) /\ Len(SubSeq(P, 2, k)) = k - 1
        /\ \A i \in 1..(k - 1) : SubSeq(P, 2, k)[i] = P[i + 1]
    <2>1. /\ SubSeq(P, 2, k) \in Seq(Contents)
          /\ Len(SubSeq(P, 2, k)) = IF 2 <= k THEN k - 2 + 1 ELSE 0
          /\ \A i \in 1..(k - 2 + 1) : SubSeq(P, 2, k)[i] = P[2 + i - 1]
      BY <1>5, <1>6, SubSeqProperties
    <2>2. \A i \in 1..(k - 1) : 2 + i - 1 = i + 1 /\ i \in 1..(k - 2 + 1)
      BY <1>6
    <2> QED
      BY <1>6, <2>1, <2>2
  <1>8. /\ SubSeq(P, 2, k + 1) \in Seq(Contents) /\ Len(SubSeq(P, 2, k + 1)) = k
        /\ \A i \in 1..k : SubSeq(P, 2, k + 1)[i] = P[i + 1]
    <2>1. /\ SubSeq(P, 2, k + 1) \in Seq(Contents)
          /\ Len(SubSeq(P, 2, k + 1)) = IF 2 <= k + 1 THEN (k + 1) - 2 + 1 ELSE 0
          /\ \A i \in 1..((k + 1) - 2 + 1) : SubSeq(P, 2, k + 1)[i] = P[2 + i - 1]
      BY <1>4, <1>6, SubSeqProperties
    <2>2. \A i \in 1..k : 2 + i - 1 = i + 1 /\ i \in 1..((k + 1) - 2 + 1)
      BY <1>6
    <2> QED
      BY <1>6, <2>1, <2>2
  <1> DEFINE u == SubSeq(P, 2, k)
             v == SubSeq(P, 2, k + 1)
             a == Append(u, P[k + 1])
  <1>9. /\ a \in Seq(Contents) /\ Len(a) = Len(u) + 1
        /\ \A i \in 1..Len(u) : a[i] = u[i]
        /\ a[Len(u) + 1] = P[k + 1]
    BY <1>6, <1>7, AppendProperties
  <1> HIDE DEF u, v, a
  <1>10. Len(a) = k /\ Len(u) = k - 1
    BY <1>6, <1>7, <1>9 DEF u
  <1>11. \A i \in 1..k : a[i] = v[i]
    <2> TAKE i \in 1..k
    <2>1. CASE i = k
      BY <1>6, <1>8, <1>9, <1>10, <2>1 DEF v
    <2>2. CASE i # k
      <3>1. i \in 1..(k - 1)
        BY <1>6, <2>2
      <3>2. a[i] = u[i]
        BY <1>9, <1>10, <3>1
      <3> QED
        BY <1>7, <1>8, <3>1, <3>2 DEF u, v
    <2> QED
      BY <2>1, <2>2
  <1>12. a = v
    BY <1>8, <1>9, <1>10, <1>11, SeqEqual DEF v
  <1> QED
    BY <1>12 DEF a, u, v, P

\* Another attachment, and there are more.
LEMMA HalfOfMore ==
  ASSUME CodecDecodes, NEW p \in Sendable, DecodesBinary(p), NEW k \in 1..(Len(CodecPayloads(p)) - 2)
  PROVE  /\ ParseBuffer(HalfParsed(p, k), CodecPayloads(p)[k + 1]) = HalfParsed(p, k + 1)
         /\ HalfParsed(p, k + 1).more
  <1> DEFINE P == CodecPayloads(p)
             q == CodecParse(P[1])
             n == Len(P)
             b == SubSeq(P, 2, k)
             c == SubSeq(P, 2, k + 1)
             h == [q EXCEPT !.pending = n - k, !.buffers = b]
  <1>1. q = [f \in ParsedFields |-> q[f]] /\ q.more
    BY DEF DecodesBinary
  <1>2. n \in Nat \ {0}
    BY PayloadsAreSeq
  <1>3. k \in 1..(n - 1) /\ k \in Nat
    BY <1>2
  <1>4. Append(b, P[k + 1]) = c
    BY <1>3, AttachmentsSoFar
  <1>5. n - k \in Int /\ n - k # 0 /\ n - k # 1 /\ (n - k) - 1 = n - (k + 1)
    BY <1>2
  <1>6. HalfParsed(p, k) = h /\ HalfParsed(p, k + 1) = [q EXCEPT !.pending = n - (k + 1), !.buffers = c]
    BY DEF HalfParsed
  <1> HIDE DEF q, P, n, b, c
  <1>7. /\ h.pending = n - k /\ h.buffers = b
        /\ [h EXCEPT !.pending = n - (k + 1), !.buffers = c] = [q EXCEPT !.pending = n - (k + 1), !.buffers = c]
        /\ [q EXCEPT !.pending = n - (k + 1), !.buffers = c].more
    BY <1>1 DEF ParsedFields
  <1> HIDE DEF h
  <1>8. ParseBuffer(h, P[k + 1]) = [h EXCEPT !.pending = n - (k + 1), !.buffers = c]
    BY <1>4, <1>5, <1>7 DEF ParseBuffer
  <1> QED
    BY <1>6, <1>7, <1>8 DEF P

\* The last attachment.
LEMMA WholeParsed ==
  ASSUME CodecDecodes, NEW p \in Sendable, DecodesBinary(p), NEW k, k = Len(CodecPayloads(p)) - 1
  PROVE  LET q == ParseBuffer(HalfParsed(p, k), CodecPayloads(p)[k + 1])
         IN  ~q.more /\ CodecPassesOn(q) = <<CodecAsDecoded(p)>>
  <1> DEFINE P == CodecPayloads(p)
             q == CodecParse(P[1])
             n == Len(P)
             b == SubSeq(P, 2, k)
             h == [q EXCEPT !.pending = 1, !.buffers = b]
             m == CodecFromJson(q.json, Tail(P))
             e == [q EXCEPT !.more = FALSE, !.pending = 1, !.buffers = b, !.message = m]
  <1>1. q = [f \in ParsedFields |-> q[f]] /\ n > 1
    BY DEF DecodesBinary
  <1>2. n \in Nat \ {0} /\ P \in Seq(Contents) /\ P # <<>>
    BY PayloadsAreSeq
  <1>3. k \in 1..(n - 1) /\ k + 1 = n /\ n - k = 1
    BY <1>1, <1>2
  <1>4. Append(b, P[k + 1]) = Tail(P)
    <2>1. Append(b, P[k + 1]) = SubSeq(P, 2, k + 1)
      BY <1>3, AttachmentsSoFar
    <2>2. Tail(P) = SubSeq(P, 2, n)
      BY <1>2, TailIsSubSeq
    <2> QED
      BY <1>3, <2>1, <2>2
  <1>5. HalfParsed(p, k) = h
    BY <1>3 DEF HalfParsed
  <1>6. CodecPassesOn(e) = <<CodecAsDecoded(p)>>
    BY DEF DecodesBinary
  <1> HIDE DEF P, n, q, b, m
  <1>7. /\ h.pending = 1 /\ h.buffers = b /\ h.json = q.json
        /\ [h EXCEPT !.more = FALSE, !.message = m] = e
        /\ ~e.more
    BY <1>1 DEF ParsedFields
  <1> HIDE DEF h, e
  <1>8. ParseBuffer(h, P[k + 1]) = e
    <2>1. m = CodecFromJson(h.json, Append(h.buffers, P[k + 1]))
      BY <1>4, <1>7 DEF m
    <2>2. ParseBuffer(h, P[k + 1]) = [h EXCEPT !.more = FALSE, !.message = m]
      BY <1>7, <2>1 DEF ParseBuffer
    <2> QED
      BY <1>7, <2>2
  <1> QED
    BY <1>5, <1>6, <1>7, <1>8 DEF P

-----------------------------------------------------------------------------
(* The history.                                                            *)

LEMMA HandedOn ==
  ASSUME NEW s \in Seq(Sendable), s # <<>>, Misses(s),
         sent \in Seq({CodecAsDecoded(p) : p \in Sendable}), got \in Seq({CodecAsDecoded(p) : p \in Sendable}),
         UNCHANGED sent, got' = got \o <<CodecAsDecoded(s[1])>>
  PROVE  Misses(Tail(s))' /\ got' \in Seq({CodecAsDecoded(p) : p \in Sendable})
  <1> DEFINE D == {CodecAsDecoded(p) : p \in Sendable}
             r == Tail(s)
             x == CodecAsDecoded(s[1])
             l == Len(got)
             n == Len(s)
  <1>1. l \in Nat /\ n \in Nat \ {0}
    BY LenProperties, EmptySeq
  <1>2. r \in Seq(Sendable) /\ Len(r) = n - 1 /\ \A i \in 1..(n - 1) : r[i] = s[i + 1]
    BY HeadTailProperties
  <1>3. s[1] \in Sendable /\ x \in D
    BY <1>1, ElementOfSeq
  <1>4. <<x>> \in Seq(D) /\ Len(<<x>>) = 1 /\ <<x>>[1] = x
    BY <1>3
  <1>5. /\ got' \in Seq(D) /\ Len(got') = l + 1
        /\ \A i \in 1..(l + 1) : got'[i] = IF i <= l THEN got[i] ELSE <<x>>[i - l]
    BY <1>4, ConcatProperties
  <1>6. /\ Len(sent) = l + n
        /\ \A i \in 1..l : sent[i] = got[i]
        /\ \A i \in 1..n : sent[l + i] = CodecAsDecoded(s[i])
    BY DEF Misses
  <1>7. sent' = sent
    OBVIOUS
  <1> DEFINE g == got'
  <1>8. sent[l + 1] = x
    BY <1>1, <1>6
  <1> HIDE DEF r, x, l, n, g
  <1>9. \A i \in 1..(l + 1) : sent[i] = g[i]
    <2> TAKE i \in 1..(l + 1)
    <2>1. CASE i <= l
      BY <1>1, <1>5, <1>6, <2>1 DEF g
    <2>2. CASE i = l + 1
      <3>1. i - l = 1 /\ ~(i <= l)
        BY <1>1, <2>2
      <3> QED
        BY <1>4, <1>5, <1>8, <2>2, <3>1 DEF g
    <2> QED
      BY <1>1, <2>1, <2>2
  <1>10. ASSUME NEW i \in 1..(n - 1) PROVE sent[(l + 1) + i] = CodecAsDecoded(r[i])
    <2>1. i + 1 \in 1..n /\ l + (i + 1) = (l + 1) + i
      BY <1>1
    <2> QED
      BY <1>2, <1>6, <2>1
  <1>11. Len(sent) = (l + 1) + (n - 1)
    BY <1>1, <1>6
  <1>12. Misses(r)'
    BY <1>2, <1>5, <1>7, <1>9, <1>10, <1>11 DEF Misses, g, r
  <1> QED
    BY <1>5, <1>12 DEF r

LEMMA Queued ==
  ASSUME NEW s \in Seq(Sendable), Misses(s), NEW p \in Sendable,
         sent \in Seq({CodecAsDecoded(d) : d \in Sendable}), got \in Seq({CodecAsDecoded(d) : d \in Sendable}),
         UNCHANGED got, sent' = Append(sent, CodecAsDecoded(p))
  PROVE  Misses(Append(s, p))' /\ sent' \in Seq({CodecAsDecoded(d) : d \in Sendable})
  <1> DEFINE D == {CodecAsDecoded(d) : d \in Sendable}
             r == Append(s, p)
             l == Len(got)
             n == Len(s)
             t == sent'
  <1>1. l \in Nat /\ n \in Nat
    BY LenProperties
  <1>2. r \in Seq(Sendable) /\ Len(r) = n + 1 /\ r[n + 1] = p /\ \A i \in 1..n : r[i] = s[i]
    BY AppendProperties
  <1>3. CodecAsDecoded(p) \in D
    OBVIOUS
  <1>4. /\ t \in Seq(D) /\ Len(t) = Len(sent) + 1
        /\ t[Len(sent) + 1] = CodecAsDecoded(p)
        /\ \A i \in 1..Len(sent) : t[i] = sent[i]
    BY <1>3, AppendProperties
  <1>5. /\ Len(sent) = l + n
        /\ \A i \in 1..l : sent[i] = got[i]
        /\ \A i \in 1..n : sent[l + i] = CodecAsDecoded(s[i])
    BY DEF Misses
  <1>6. got' = got
    OBVIOUS
  <1> HIDE DEF r, l, n, t
  <1>7. \A i \in 1..l : t[i] = got[i]
    <2> TAKE i \in 1..l
    <2>1. i \in 1..(l + n)
      BY <1>1
    <2> QED
      BY <1>4, <1>5, <2>1
  <1>8. ASSUME NEW i \in 1..(n + 1) PROVE t[l + i] = CodecAsDecoded(r[i])
    <2>1. CASE i \in 1..n
      <3>1. l + i \in 1..(l + n)
        BY <1>1, <2>1
      <3> QED
        BY <1>2, <1>4, <1>5, <2>1, <3>1
    <2>2. CASE i = n + 1
      <3>1. l + i = Len(sent) + 1
        BY <1>1, <1>5, <2>2
      <3> QED
        BY <1>2, <1>4, <2>2, <3>1
    <2> QED
      BY <1>1, <2>1, <2>2
  <1>9. Len(t) = l + (n + 1)
    BY <1>1, <1>4, <1>5
  <1>10. Misses(r)'
    BY <1>2, <1>6, <1>7, <1>8, <1>9 DEF Misses, t, l, r
  <1> QED
    BY <1>4, <1>10 DEF r, t

\* What the inductive invariant says of the application.
LEMMA PrefixOf ==
  ASSUME NEW s \in Seq(Sendable), Misses(s),
         sent \in Seq({CodecAsDecoded(p) : p \in Sendable}), got \in Seq({CodecAsDecoded(p) : p \in Sendable})
  PROVE  IsPrefix(got, sent) /\ (s = <<>> => got = sent)
  <1> DEFINE D == {CodecAsDecoded(p) : p \in Sendable}
             l == Len(got)
             u == SubSeq(sent, 1, l)
  <1>1. /\ l \in Nat /\ Len(s) \in Nat /\ Len(sent) = l + Len(s)
        /\ \A i \in 1..l : sent[i] = got[i]
    BY LenProperties DEF Misses
  <1>2. \A i \in 1..l : sent[i] \in D
    BY <1>1, ElementOfSeq
  <1>3. SubSeq(got, 1, l) = got
    BY SubSeqFull
  <1>4. /\ u \in Seq(D) /\ Len(u) = l
        /\ \A i \in 1..l : u[i] = sent[i]
    <2> HIDE DEF l, D
    <2>1. /\ SubSeq(sent, 1, l) \in Seq(D)
          /\ Len(SubSeq(sent, 1, l)) = IF 1 <= l THEN l - 1 + 1 ELSE 0
          /\ \A i \in 1..(l - 1 + 1) : SubSeq(sent, 1, l)[i] = sent[1 + i - 1]
      BY <1>1, <1>2, SubSeqProperties
    <2> QED
      BY <1>1, <2>1
  <1> HIDE DEF u
  <1>5. u = got
    BY <1>1, <1>4, SeqEqual
  <1>6. IsPrefix(got, sent)
    BY <1>1, <1>3, <1>5 DEF IsPrefix, u
  <1>7. ASSUME s = <<>> PROVE got = sent
    <2>1. Len(sent) = l
      BY <1>1, <1>7, EmptySeq
    <2> QED
      BY <1>1, <2>1, SeqEqual
  <1> QED
    BY <1>6, <1>7

-----------------------------------------------------------------------------
(* Every step keeps the reader in step with the wire.                      *)

LEMMA AtTyped ==
  ASSUME NEW w, NEW s, NEW at, Carries(w, s, at)
  PROVE  at \in UNION {[1..n -> Int] : n \in Nat \ {0}}
  <1>1. s \in Seq(Sendable) /\ at \in [1..(Len(s) + 1) -> Int]
    BY DEF Carries
  <1>2. Len(s) + 1 \in Nat \ {0}
    BY <1>1, LenProperties
  <1> QED
    BY <1>1, <1>2

\* Where the reader stands in what is on the wire.
LEMMA FirstOnWire ==
  ASSUME CodecDecodes, NEW s, NEW at, Carries(wire, s, at)
  PROVE  /\ wire = <<>> <=> s = <<>>
         /\ s # <<>> =>
               /\ s[1] \in Sendable /\ at[1] \in Int /\ -at[1] \in 0..(Len(CodecPayloads(s[1])) - 1)
               /\ at[2] = at[1] + Len(CodecPayloads(s[1])) /\ at[2] >= 1 /\ at[2] \in Int
               /\ Head(wire) = CodecPayloads(s[1])[-at[1] + 1]
  <1>1. /\ wire \in Seq(Contents) /\ s \in Seq(Sendable) /\ at \in [1..(Len(s) + 1) -> Int]
        /\ at[1] <= 0 /\ at[Len(s) + 1] = Len(wire)
        /\ \A i \in 2..(Len(s) + 1) : at[i] >= 1
        /\ \A i \in 1..Len(s) :
              /\ at[i + 1] = at[i] + Len(CodecPayloads(s[i]))
              /\ \A j \in 1..Len(CodecPayloads(s[i])) :
                    at[i] + j >= 1 => wire[at[i] + j] = CodecPayloads(s[i])[j]
    BY DEF Carries
  <1>2. /\ Len(s) \in Nat /\ Len(wire) \in Nat
        /\ s = <<>> <=> Len(s) = 0
        /\ wire = <<>> <=> Len(wire) = 0
    BY <1>1, LenProperties, EmptySeq
  <1>3. ASSUME s = <<>> PROVE Len(wire) = 0
    BY <1>1, <1>2, <1>3
  <1>4. ASSUME s # <<>>
        PROVE  /\ Len(wire) # 0
               /\ s[1] \in Sendable /\ at[1] \in Int /\ -at[1] \in 0..(Len(CodecPayloads(s[1])) - 1)
               /\ at[2] = at[1] + Len(CodecPayloads(s[1])) /\ at[2] >= 1 /\ at[2] \in Int
               /\ Head(wire) = CodecPayloads(s[1])[-at[1] + 1]
    <2>1. Len(s) \in Nat \ {0}
      BY <1>2, <1>4
    <2>2. Len(s) + 1 \in 2..(Len(s) + 1) /\ 2 \in 2..(Len(s) + 1) /\ 1 \in 1..Len(s)
          /\ 1 \in 1..(Len(s) + 1) /\ 2 \in 1..(Len(s) + 1) /\ 1 + 1 = 2
      BY <2>1
    <2>3. Len(wire) >= 1 /\ at[2] >= 1 /\ at[1] \in Int /\ at[2] \in Int /\ s[1] \in Sendable
      BY <1>1, <2>2, ElementOfSeq
    <2>4. Len(CodecPayloads(s[1])) \in Nat
      BY <2>3, PayloadsAreSeq
    <2>5. at[2] = at[1] + Len(CodecPayloads(s[1]))
      BY <1>1, <2>2
    <2>6. -at[1] \in 0..(Len(CodecPayloads(s[1])) - 1)
      BY <1>1, <2>3, <2>4, <2>5
    <2>7. /\ -at[1] + 1 \in 1..Len(CodecPayloads(s[1])) /\ at[1] + (-at[1] + 1) = 1
      BY <2>3, <2>4, <2>6
    <2>8. wire[1] = CodecPayloads(s[1])[-at[1] + 1]
      <3>1. \A j \in 1..Len(CodecPayloads(s[1])) :
               at[1] + j >= 1 => wire[at[1] + j] = CodecPayloads(s[1])[j]
        BY <1>1, <2>2
      <3> DEFINE m == -at[1] + 1
      <3>2. m \in 1..Len(CodecPayloads(s[1])) /\ at[1] + m = 1
        BY <2>7
      <3> HIDE DEF m
      <3>3. wire[at[1] + m] = CodecPayloads(s[1])[m]
        BY <3>1, <3>2
      <3> QED
        BY <3>2, <3>3 DEF m
    <2> QED
      BY <1>2, <2>3, <2>5, <2>6, <2>8
  <1> QED
    BY <1>2, <1>3, <1>4

LEMMA ReadsPlain ==
  ASSUME CodecDecodes, AssemblyInv, up, PutPayload, NEW s \in Seq(Sendable), NEW at,
         Carries(wire, s, at), Misses(s), Stands(s, at), at[1] = 0, DecodesPlain(s[1])
  PROVE  InStep' /\ got' \in Seq({CodecAsDecoded(d) : d \in Sendable})
  <1> DEFINE p == s[1]
             P == CodecPayloads(p)
             t == Head(wire)
             to == [i \in 1..Len(s) |-> at[i + 1] - 1]
  <1>1. wire # <<>> /\ wire' = Tail(wire) /\ UNCHANGED sent
    BY DEF PutPayload
  <1>2. /\ s # <<>> /\ p \in Sendable
        /\ at[2] = at[1] + Len(P)
        /\ t = P[-at[1] + 1]
    BY <1>1, FirstOnWire
  <1>3. /\ partial = <<>>
        /\ t = P[1]
        /\ at[2] = 1
    <2>1. partial = <<>>
      BY DEF Stands
    <2>2. -at[1] + 1 = 1 /\ Len(P) = 1
      BY DEF DecodesPlain
    <2> QED
      BY <1>2, <2>1, <2>2
  <1>4. ~CodecParse(t).more /\ CodecPassesOn(CodecParse(t)) = <<CodecAsDecoded(p)>>
    BY <1>3 DEF DecodesPlain
  <1> HIDE DEF p, P, t
  <1>5. got' = got \o <<CodecAsDecoded(p)>> /\ partial' = <<>>
    BY <1>3, <1>4 DEF PutPayload, t
  <1>6. Misses(Tail(s))' /\ got' \in Seq({CodecAsDecoded(d) : d \in Sendable})
    BY <1>1, <1>2, <1>5, HandedOn DEF AssemblyInv, p
  <1>7. Carries(Tail(wire), Tail(s), to)
    BY <1>1, <1>2, <1>3, ReadToEnd
  <1>8. to[1] = 0
    <2>1. 1 \in 1..Len(s)
      BY <1>2, EmptySeq
    <2> QED
      BY <1>3, <2>1
  <1>9. Tail(s) \in Seq(Sendable) /\ to \in UNION {[1..n -> Int] : n \in Nat \ {0}}
    BY <1>7, AtTyped DEF Carries
  <1> HIDE DEF to
  <1>10. Stands(Tail(s), to)'
    BY <1>5, <1>8 DEF Stands
  <1> QED
    BY <1>1, <1>6, <1>7, <1>9, <1>10 DEF InStep

LEMMA ReadsText ==
  ASSUME CodecDecodes, AssemblyInv, up, PutPayload, NEW s \in Seq(Sendable), NEW at,
         Carries(wire, s, at), Misses(s), Stands(s, at), at[1] = 0, DecodesBinary(s[1])
  PROVE  InStep' /\ got' = got
  <1> DEFINE p == s[1]
             P == CodecPayloads(p)
             t == Head(wire)
             to == [i \in 1..(Len(s) + 1) |-> at[i] - 1]
  <1>1. wire # <<>> /\ wire' = Tail(wire) /\ UNCHANGED sent
    BY DEF PutPayload
  <1>2. /\ s # <<>> /\ p \in Sendable
        /\ at[2] = at[1] + Len(P)
        /\ t = P[-at[1] + 1]
    BY <1>1, FirstOnWire
  <1>3. /\ partial = <<>>
        /\ t = P[1]
        /\ at[2] > 1
    <2>1. partial = <<>>
      BY DEF Stands
    <2>2. -at[1] + 1 = 1 /\ Len(P) > 1
      BY DEF DecodesBinary
    <2>3. Len(P) \in Nat
      BY <1>2, PayloadsAreSeq
    <2> QED
      BY <1>2, <2>1, <2>2, <2>3
  <1>4. CodecParse(t).more /\ HalfParsed(p, 1) = CodecParse(t)
    BY <1>2, <1>3, HalfOfFirst
  <1> HIDE DEF p, P, t
  <1>5. got' = got /\ partial' = <<HalfParsed(p, 1)>>
    BY <1>3, <1>4 DEF PutPayload, t
  <1>6. Misses(s)'
    BY <1>1, <1>5 DEF Misses
  <1>7. Carries(Tail(wire), s, to)
    BY <1>1, <1>3, ReadInside
  <1>8. to[1] < 0 /\ -to[1] = 1
    <2>1. 1 \in 1..(Len(s) + 1)
      BY <1>2, EmptySeq
    <2>2. to[1] + 1 = 0 /\ to[1] \in Int
      BY <2>1
    <2>3. \A x \in Int : x + 1 = 0 => x < 0 /\ -x = 1
      OBVIOUS
    <2> HIDE DEF to
    <2> QED
      BY <2>2, <2>3
  <1>9. to \in UNION {[1..n -> Int] : n \in Nat \ {0}}
    BY <1>7, AtTyped
  <1> HIDE DEF to
  <1>10. Stands(s, to)'
    BY <1>2, <1>5, <1>8 DEF Stands, p
  <1> QED
    BY <1>1, <1>5, <1>6, <1>7, <1>9, <1>10 DEF InStep

\* An attachment of a packet whose text has been read.
LEMMA TakesAttachment ==
  ASSUME CodecDecodes, AssemblyInv, up, PutPayload, NEW s \in Seq(Sendable), NEW at,
         Carries(wire, s, at), Misses(s), Stands(s, at), at[1] # 0
  PROVE  /\ s # <<>> /\ s[1] \in Sendable /\ DecodesBinary(s[1])
         /\ at[1] \in Int /\ -at[1] \in 1..(Len(CodecPayloads(s[1])) - 1)
         /\ at[2] = at[1] + Len(CodecPayloads(s[1]))
         /\ Len(CodecPayloads(s[1])) \in Nat
         /\ LET q == ParseBuffer(HalfParsed(s[1], -at[1]), CodecPayloads(s[1])[-at[1] + 1])
            IN  /\ got' = IF q.more THEN got ELSE got \o CodecPassesOn(q)
                /\ q.more => partial' = <<q>>
                /\ ~q.more => partial' = <<>>
  <1> DEFINE p == s[1]
             P == CodecPayloads(p)
             k == -at[1]
             t == Head(wire)
             h == HalfParsed(p, k)
  <1>1. wire # <<>>
    BY DEF PutPayload
  <1>2. /\ s # <<>> /\ p \in Sendable /\ at[1] \in Int /\ k \in 0..(Len(P) - 1)
        /\ at[2] = at[1] + Len(P)
        /\ t = P[k + 1]
    BY <1>1, FirstOnWire
  <1>3. Len(P) \in Nat
    BY <1>2, PayloadsAreSeq
  <1>4. k \in 1..(Len(P) - 1) /\ k + 1 \in 2..Len(P)
    <2> DEFINE l == Len(P)
    <2>1. l \in Nat /\ k \in 0..(l - 1) /\ k # 0
      BY <1>2, <1>3
    <2> HIDE DEF k, l
    <2>2. k \in 1..(l - 1) /\ k + 1 \in 2..l
      BY <2>1
    <2> QED
      BY <2>2 DEF l
  <1>5. DecodesBinary(p)
    <2>1. Decodes(p)
      BY <1>2 DEF CodecDecodes, Sendable
    <2>2. Len(P) # 1
      BY <1>2, <1>3, <1>4
    <2> QED
      BY <2>1, <2>2 DEF Decodes, DecodesPlain
  <1>6. ~CodecIsTextMessage(t)
    BY <1>2, <1>4, <1>5 DEF DecodesBinary
  <1>7. t # <<>>
    <2>1. k + 1 \in 1..Len(P)
      BY <1>3, <1>4
    <2>2. \A j \in 1..Len(P) : P[j] # <<>>
      BY <1>2, PayloadsAreSeq
    <2> QED
      BY <1>2, <2>1, <2>2
  <1>8. partial = <<h>>
    BY <1>2 DEF Stands
  <1> HIDE DEF t, h
  <1>9. partial # <<>> /\ partial[1] = h
    BY <1>8
  <1> DEFINE q == ParseBuffer(h, t)
  <1>10. /\ got' = IF q.more THEN got ELSE got \o CodecPassesOn(q)
         /\ partial' = CASE q.more -> <<q>>
                         [] ~q.more /\ ~CodecIsTextMessage(t) /\ t # <<>> -> <<>>
                         [] OTHER -> partial
    BY <1>6, <1>7, <1>9 DEF PutPayload, t
  <1>11. (q.more => partial' = <<q>>) /\ (~q.more => partial' = <<>>)
    <2> HIDE DEF q
    <2> QED
      BY <1>6, <1>7, <1>10
  <1> QED
    BY <1>2, <1>3, <1>4, <1>5, <1>10, <1>11 DEF h

LEMMA ReadsAttachment ==
  ASSUME CodecDecodes, AssemblyInv, up, PutPayload, NEW s \in Seq(Sendable), NEW at,
         Carries(wire, s, at), Misses(s), Stands(s, at), at[1] # 0, at[2] > 1
  PROVE  InStep' /\ got' = got
  <1> DEFINE p == s[1]
             P == CodecPayloads(p)
             k == -at[1]
             to == [i \in 1..(Len(s) + 1) |-> at[i] - 1]
  <1>1. wire # <<>> /\ wire' = Tail(wire) /\ UNCHANGED sent
    BY DEF PutPayload
  <1>2. /\ s # <<>> /\ p \in Sendable /\ DecodesBinary(p) /\ at[1] \in Int /\ k \in 1..(Len(P) - 1)
        /\ at[2] = at[1] + Len(P) /\ Len(P) \in Nat
    BY TakesAttachment
  <1>3. k \in 1..(Len(P) - 2) /\ k + 1 = -(at[1] - 1)
    BY <1>2
  <1>4. /\ ParseBuffer(HalfParsed(p, k), P[k + 1]) = HalfParsed(p, k + 1)
        /\ HalfParsed(p, k + 1).more
    BY <1>2, <1>3, HalfOfMore
  <1>5. got' = got /\ partial' = <<HalfParsed(p, k + 1)>>
    BY <1>4, TakesAttachment
  <1>6. Misses(s)'
    BY <1>1, <1>5 DEF Misses
  <1>7. Carries(Tail(wire), s, to)
    BY <1>1, ReadInside
  <1>8. to[1] < 0 /\ -to[1] = k + 1
    <2>1. 1 \in 1..(Len(s) + 1)
      BY <1>2, EmptySeq
    <2>2. to[1] = at[1] - 1 /\ to[1] \in Int
      BY <1>2, <2>1
    <2> HIDE DEF to
    <2> QED
      BY <1>2, <1>3, <2>2
  <1>9. to \in UNION {[1..n -> Int] : n \in Nat \ {0}}
    BY <1>7, AtTyped
  <1> HIDE DEF to, k, p
  <1>10. Stands(s, to)'
    BY <1>2, <1>5, <1>8 DEF Stands, p
  <1> QED
    BY <1>1, <1>5, <1>6, <1>7, <1>9, <1>10 DEF InStep

LEMMA ReadsLastAttachment ==
  ASSUME CodecDecodes, AssemblyInv, up, PutPayload, NEW s \in Seq(Sendable), NEW at,
         Carries(wire, s, at), Misses(s), Stands(s, at), at[1] # 0, at[2] = 1
  PROVE  InStep' /\ got' \in Seq({CodecAsDecoded(d) : d \in Sendable})
  <1> DEFINE p == s[1]
             P == CodecPayloads(p)
             k == -at[1]
             to == [i \in 1..Len(s) |-> at[i + 1] - 1]
             q == ParseBuffer(HalfParsed(p, k), P[k + 1])
  <1>1. wire # <<>> /\ wire' = Tail(wire) /\ UNCHANGED sent
    BY DEF PutPayload
  <1>2. /\ s # <<>> /\ p \in Sendable /\ DecodesBinary(p) /\ at[1] \in Int
        /\ at[2] = at[1] + Len(P) /\ Len(P) \in Nat
    BY TakesAttachment
  <1>3. k = Len(P) - 1
    BY <1>2
  <1>4. ~q.more /\ CodecPassesOn(q) = <<CodecAsDecoded(p)>>
    BY <1>2, <1>3, WholeParsed
  <1>5. got' = got \o <<CodecAsDecoded(p)>> /\ partial' = <<>>
    <2>1. /\ got' = IF q.more THEN got ELSE got \o CodecPassesOn(q)
          /\ ~q.more => partial' = <<>>
      BY TakesAttachment
    <2> HIDE DEF q
    <2> QED
      BY <1>4, <2>1
  <1>6. Misses(Tail(s))' /\ got' \in Seq({CodecAsDecoded(d) : d \in Sendable})
    BY <1>1, <1>2, <1>5, HandedOn DEF AssemblyInv
  <1>7. Carries(Tail(wire), Tail(s), to)
    BY <1>1, <1>2, ReadToEnd
  <1>8. to[1] = 0
    <2>1. 1 \in 1..Len(s)
      BY <1>2, EmptySeq
    <2> QED
      BY <2>1
  <1>9. Tail(s) \in Seq(Sendable) /\ to \in UNION {[1..n -> Int] : n \in Nat \ {0}}
    BY <1>7, AtTyped DEF Carries
  <1> HIDE DEF to
  <1>10. Stands(Tail(s), to)'
    BY <1>5, <1>8 DEF Stands
  <1> QED
    BY <1>1, <1>6, <1>7, <1>9, <1>10 DEF InStep

LEMMA PutPayloadInv ==
  ASSUME CodecDecodes, AssemblyInv, PutPayload
  PROVE  AssemblyInv'
  <1>1. up /\ UNCHANGED <<up, sent>>
    BY DEF PutPayload
  <1>2. PICK s \in Seq(Sendable), at \in UNION {[1..n -> Int] : n \in Nat \ {0}} :
            Carries(wire, s, at) /\ Misses(s) /\ Stands(s, at)
    BY <1>1 DEF AssemblyInv, InStep
  <1>3. /\ s # <<>> /\ s[1] \in Sendable /\ at[2] >= 1 /\ at[2] \in Int
    BY <1>2, FirstOnWire DEF PutPayload
  <1>4. InStep' /\ got' \in Seq({CodecAsDecoded(d) : d \in Sendable})
    <2>1. CASE at[1] = 0
      <3>1. DecodesPlain(s[1]) \/ DecodesBinary(s[1])
        BY <1>3 DEF CodecDecodes, Decodes, Sendable
      <3> QED
        BY <1>1, <1>2, <2>1, <3>1, ReadsPlain, ReadsText DEF AssemblyInv
    <2>2. CASE at[1] # 0 /\ at[2] > 1
      BY <1>1, <1>2, <2>2, ReadsAttachment DEF AssemblyInv
    <2>3. CASE at[1] # 0 /\ at[2] = 1
      BY <1>1, <1>2, <2>3, ReadsLastAttachment
    <2> QED
      BY <1>3, <2>1, <2>2, <2>3
  <1> QED
    BY <1>1, <1>4 DEF AssemblyInv

LEMMA ServerSendsInv ==
  ASSUME CodecDecodes, AssemblyInv, NEW p \in Packets \cup {CodecPing}, ServerSends(p)
  PROVE  AssemblyInv'
  <1>1. /\ up /\ UNCHANGED <<up, got, partial>> /\ p \in Sendable
        /\ wire' = wire \o CodecPayloads(p) /\ sent' = Append(sent, CodecAsDecoded(p))
    BY DEF ServerSends, Sendable
  <1>2. PICK s \in Seq(Sendable), at \in UNION {[1..n -> Int] : n \in Nat \ {0}} :
            Carries(wire, s, at) /\ Misses(s) /\ Stands(s, at)
    BY <1>1 DEF AssemblyInv, InStep
  <1> DEFINE r == Append(s, p)
  <1> PICK to : to = [i \in 1..(Len(s) + 2) |->
                        IF i <= Len(s) + 1 THEN at[i] ELSE Len(wire) + Len(CodecPayloads(p))]
    OBVIOUS
  <1>3. Carries(wire \o CodecPayloads(p), r, to)
    BY <1>1, <1>2, AppendCarries
  <1>4. Misses(r)' /\ sent' \in Seq({CodecAsDecoded(d) : d \in Sendable})
    BY <1>1, <1>2, Queued DEF AssemblyInv
  <1>5. r \in Seq(Sendable) /\ to \in UNION {[1..n -> Int] : n \in Nat \ {0}}
    <2> HIDE DEF r
    <2>1. to \in UNION {[1..n -> Int] : n \in Nat \ {0}}
      BY <1>3, AtTyped
    <2> QED
      BY <1>3, <2>1 DEF Carries
  <1>6. to[1] = at[1]
    <2>1. 1 \in 1..(Len(s) + 2) /\ 1 <= Len(s) + 1
      BY LenProperties
    <2> QED
      BY <2>1
  <1>7. s # <<>> => r # <<>> /\ r[1] = s[1]
    <2>1. r # <<>> /\ \A i \in 1..Len(s) : r[i] = s[i]
      <3>1. p \in Sendable /\ s \in Seq(Sendable)
        BY <1>1
      <3> QED
        BY <3>1, AppendProperties
    <2>2. s # <<>> => 1 \in 1..Len(s)
      BY EmptySeq
    <2> QED
      BY <2>1, <2>2
  <1> HIDE DEF r
  <1>8. Stands(r, to)'
    BY <1>1, <1>2, <1>6, <1>7 DEF Stands
  <1>9. InStep'
    BY <1>1, <1>3, <1>4, <1>5, <1>8 DEF InStep
  <1> QED
    BY <1>1, <1>4, <1>9 DEF AssemblyInv

LEMMA ConnectsInv ==
  ASSUME CodecDecodes, AssemblyInv, Connects
  PROVE  AssemblyInv'
  <1> DEFINE s == <<CodecHandshake>>
             at == <<0, Len(CodecPayloads(CodecHandshake))>>
  <1>1. /\ up' = TRUE /\ partial' = <<>> /\ got' = <<>>
        /\ wire' = CodecPayloads(CodecHandshake) /\ sent' = <<CodecAsDecoded(CodecHandshake)>>
        /\ CodecHandshake \in Sendable
    BY DEF Connects, Sendable
  <1>2. Carries(wire', s, at)
    BY <1>1, StartCarries
  <1>3. s \in Seq(Sendable) /\ at \in UNION {[1..n -> Int] : n \in Nat \ {0}}
    BY <1>1, <1>2, AtTyped
  <1>4. Misses(s)'
    <2>1. Len(s) = 1 /\ s[1] = CodecHandshake /\ Len(sent') = 1 /\ Len(got') = 0 /\ 0 + 1 = 1
      BY <1>1
    <2>2. sent'[0 + 1] = CodecAsDecoded(s[1])
      BY <1>1
    <2> HIDE DEF s
    <2> QED
      BY <2>1, <2>2 DEF Misses
  <1>5. at[1] = 0
    OBVIOUS
  <1> HIDE DEF s, at
  <1>6. Stands(s, at)'
    BY <1>1, <1>5 DEF Stands
  <1>7. InStep'
    BY <1>2, <1>3, <1>4, <1>6 DEF InStep
  <1>8. /\ sent' \in Seq({CodecAsDecoded(d) : d \in Sendable})
        /\ got' \in Seq({CodecAsDecoded(d) : d \in Sendable})
    BY <1>1
  <1> QED
    BY <1>1, <1>7, <1>8 DEF AssemblyInv

LEMMA DropsInv ==
  ASSUME CodecDecodes, AssemblyInv, Drops
  PROVE  AssemblyInv'
  <1>1. up /\ up' = FALSE /\ UNCHANGED <<sent, got>>
    BY DEF Drops
  <1>2. PICK s \in Seq(Sendable) : Misses(s)
    BY <1>1 DEF AssemblyInv, InStep
  <1>3. IsPrefix(got, sent)
    BY <1>2, PrefixOf DEF AssemblyInv
  <1> QED
    BY <1>1, <1>3 DEF AssemblyInv

LEMMA PacketInitInv == PacketInit => AssemblyInv
  <1> SUFFICES ASSUME PacketInit PROVE AssemblyInv
    OBVIOUS
  <1>1. IsPrefix(<<>>, <<>>)
    BY DEF IsPrefix
  <1>2. <<>> \in Seq({CodecAsDecoded(d) : d \in Sendable})
    OBVIOUS
  <1> QED
    BY <1>1, <1>2 DEF PacketInit, AssemblyInv

LEMMA PacketNextInv ==
  ASSUME CodecDecodes, AssemblyInv, [PacketNext]_packetVars
  PROVE  AssemblyInv'
  <1>1. CASE UNCHANGED packetVars
    BY <1>1 DEF packetVars, AssemblyInv, InStep, Misses, Stands
  <1>2. CASE PacketNext
    BY <1>2, ConnectsInv, PutPayloadInv, DropsInv, ServerSendsInv DEF PacketNext
  <1> QED
    BY <1>1, <1>2

LEMMA AssemblyInvDelivers ==
  ASSUME CodecDecodes, AssemblyInv
  PROVE  Delivered
  <1>1. CASE up
    <2>1. PICK s \in Seq(Sendable), at \in UNION {[1..n -> Int] : n \in Nat \ {0}} :
              Carries(wire, s, at) /\ Misses(s)
      BY <1>1 DEF AssemblyInv, InStep
    <2>2. wire = <<>> => s = <<>>
      BY <2>1, FirstOnWire
    <2>3. IsPrefix(got, sent) /\ (s = <<>> => got = sent)
      BY <2>1, PrefixOf DEF AssemblyInv
    <2> QED
      BY <2>2, <2>3 DEF Delivered
  <1>2. CASE ~up
    BY <1>2 DEF AssemblyInv, Delivered
  <1> QED
    BY <1>1, <1>2

\* Whatever packets the server sends, if the codec is right about each of them, the
\* application gets all that was sent, whole and in order, however the connection
\* drops between the payloads of one (packet_manager::put_payload and reset).
THEOREM PacketsDelivered == CodecDecodes => (PacketSpec => []Delivered)
  <1> SUFFICES ASSUME CodecDecodes PROVE PacketSpec => []Delivered
    OBVIOUS
  <1>1. PacketInit => AssemblyInv
    BY PacketInitInv
  <1>2. AssemblyInv /\ [PacketNext]_packetVars => AssemblyInv'
    BY PacketNextInv
  <1>3. AssemblyInv => Delivered
    BY AssemblyInvDelivers
  <1> QED
    BY <1>1, <1>2, <1>3, PTL DEF PacketSpec

-----------------------------------------------------------------------------
(* SioEvents.                                                              *)

EventsInv == EventsTypeOK /\ BindingsAgree

Listeners == [EventKeys -> Bindings \cup {Unbound, Raw}]

\* What BindingsAgree says of a name in a namespace.
PairAgrees(n, e) ==
    IF InMap(n, e)
    THEN \/ listeners[<<n, e>>] = boundEvents[e].binding
         \/ listeners[<<n, e>>] = Unbound /\ <<n, e>> \in dropped
    ELSE listeners[<<n, e>>] = Unbound \/ <<n, e>> \in cleared

LEMMA EventsInitInv == EventsInit => EventsInv
  BY DEF EventsInit, EventsInv, EventsTypeOK, BindingsAgree, InMap, EventKeys

LEMMA KeyTypes ==
  /\ \A n \in Namespaces, e \in EventNames : <<n, e>> \in EventKeys
  /\ \A p \in EventKeys : p[1] \in Namespaces /\ p[2] \in EventNames
  BY DEF EventKeys

LEMMA MapTypes ==
  ASSUME EventsTypeOK
  PROVE  \A n, e : e \in EventNames /\ InMap(n, e) => boundEvents[e].binding \in Bindings
  BY DEF EventsTypeOK, Entries, InMap

\* A binding of n replaces what n had for the name, and nothing else.
LEMMA OnSets ==
  ASSUME NEW n \in Namespaces, NEW e \in EventNames, NEW b \in Bindings \cup {Unbound, Raw},
         EventsTypeOK, On(n, e, b)
  PROVE  /\ listeners' \in Listeners /\ cleared' \subseteq EventKeys
         /\ listeners'[<<n, e>>] = b
         /\ \A m \in Namespaces, f \in EventNames : <<m, f>> # <<n, e>> =>
               /\ listeners'[<<m, f>>] = listeners[<<m, f>>]
               /\ <<m, f>> \in cleared => <<m, f>> \in cleared'
  BY DEF On, EventsTypeOK, Listeners, EventKeys

\* OnEvent and UnbindEvent: the map has what the namespace has, and no other one has
\* the name unless it was cleared there.
LEMMA EntryAgrees ==
  ASSUME EventsInv, NEW n \in Namespaces, NEW e \in EventNames, NEW b \in Bindings \cup {Unbound},
         NEW entry, entry = IF b = Unbound THEN Unbound ELSE [nsp |-> n, binding |-> b],
         On(n, e, b), EntryOf(n, e, entry)
  PROVE  EventsInv'
  <1>1. EventsTypeOK
    BY DEF EventsInv
  <1>2. /\ listeners' \in Listeners /\ cleared' \subseteq EventKeys
        /\ listeners'[<<n, e>>] = b
        /\ \A m \in Namespaces, f \in EventNames : <<m, f>> # <<n, e>> =>
              /\ listeners'[<<m, f>>] = listeners[<<m, f>>]
              /\ <<m, f>> \in cleared => <<m, f>> \in cleared'
    BY <1>1, OnSets
  <1>3. b # Unbound => /\ entry \in Entries /\ entry # Unbound
                       /\ entry.nsp = n /\ entry.binding = b
    BY EventsAssumption DEF Entries
  <1>4. /\ boundEvents' \in [EventNames -> Entries \cup {Unbound}]
        /\ boundEvents'[e] = entry
        /\ \A f \in EventNames \ {e} : boundEvents'[f] = boundEvents[f]
    BY <1>1, <1>3 DEF EntryOf, EventsTypeOK
  <1>5. EventsTypeOK'
    <2>1. overlaid' \in BOOLEAN /\ dropped' \subseteq EventKeys
      BY <1>1 DEF EntryOf, EventsTypeOK
    <2> QED
      BY <1>2, <1>4, <2>1 DEF EventsTypeOK, Listeners
  <1>6. ASSUME ~overlaid', NEW m \in Namespaces, NEW f \in EventNames
        PROVE  PairAgrees(m, f)'
    <2>1. ~overlaid /\ \A k \in Namespaces \ {n} :
                          listeners[<<k, e>>] = Unbound \/ <<k, e>> \in cleared
      BY <1>6 DEF EntryOf
    <2>2. CASE f = e /\ m = n
      BY <1>2, <1>3, <1>4, <2>2 DEF PairAgrees, InMap
    <2>3. CASE f = e /\ m # n
      <3>1. ~InMap(m, f)'
        BY <1>3, <1>4, <2>3 DEF InMap
      <3>2. <<m, f>> # <<n, e>>
        BY <2>3
      <3> QED
        BY <1>2, <2>1, <2>3, <3>1, <3>2 DEF PairAgrees
    <2>4. CASE f # e
      <3>1. PairAgrees(m, f)
        BY <2>1 DEF EventsInv, BindingsAgree, PairAgrees
      <3>2. <<m, f>> # <<n, e>> /\ boundEvents'[f] = boundEvents[f]
        BY <1>4, <2>4
      <3>3. <<m, f>> \in dropped => <<m, f>> \in dropped'
        BY <2>4 DEF EntryOf
      <3>4. /\ listeners'[<<m, f>>] = listeners[<<m, f>>]
            /\ <<m, f>> \in cleared => <<m, f>> \in cleared'
        BY <1>2, <3>2
      <3> QED
        BY <3>1, <3>2, <3>3, <3>4 DEF PairAgrees, InMap
    <2> QED
      BY <2>2, <2>3, <2>4
  <1> QED
    BY <1>5, <1>6 DEF EventsInv, BindingsAgree, PairAgrees

\* A listener that is not in the map is one the property leaves out.
LEMMA RawAgree ==
  ASSUME EventsInv, NEW n \in Namespaces, NEW e \in EventNames,
         OnRawEvent(n, e) \/ OnRawBinaryEvent(n, e)
  PROVE  EventsInv'
  <1>1. listeners' \in Listeners /\ cleared' \subseteq EventKeys
    <2>1. On(n, e, Raw) \/ On(n, e, Unbound)
      BY DEF OnRawEvent, OnRawBinaryEvent
    <2> QED
      BY <2>1, OnSets DEF EventsInv
  <1> QED
    BY <1>1 DEF OnRawEvent, OnRawBinaryEvent, EventsInv, EventsTypeOK, BindingsAgree, Listeners

LEMMA RebindAgrees ==
  ASSUME EventsInv, RebindCurrentEventMap
  PROVE  EventsInv'
  <1>1. EventsTypeOK
    BY DEF EventsInv
  <1>2. EventsTypeOK'
    <2>1. ASSUME NEW p \in EventKeys
          PROVE  (IF InMap(p[1], p[2]) THEN boundEvents[p[2]].binding ELSE listeners[p])
                     \in Bindings \cup {Unbound, Raw}
      <3>1. InMap(p[1], p[2]) => boundEvents[p[2]].binding \in Bindings
        BY <1>1, MapTypes, KeyTypes
      <3>2. listeners[p] \in Bindings \cup {Unbound, Raw}
        BY <1>1 DEF EventsTypeOK
      <3> QED
        BY <3>1, <3>2
    <2>2. listeners' \in [EventKeys -> Bindings \cup {Unbound, Raw}]
      BY <2>1 DEF RebindCurrentEventMap
    <2> QED
      BY <1>1, <2>2 DEF RebindCurrentEventMap, EventsTypeOK
  <1>3. ASSUME ~overlaid', NEW n \in Namespaces, NEW e \in EventNames
        PROVE  PairAgrees(n, e)'
    <2>1. listeners'[<<n, e>>] = IF InMap(n, e) THEN boundEvents[e].binding ELSE listeners[<<n, e>>]
      BY KeyTypes DEF RebindCurrentEventMap
    <2>2. PairAgrees(n, e)
      BY <1>3 DEF RebindCurrentEventMap, EventsInv, BindingsAgree, PairAgrees
    <2> QED
      BY <2>1, <2>2 DEF RebindCurrentEventMap, PairAgrees, InMap
  <1> QED
    BY <1>2, <1>3 DEF EventsInv, BindingsAgree, PairAgrees

LEMMA ClearAgrees ==
  ASSUME EventsInv, ClearAllCallbacks
  PROVE  EventsInv'
  <1>1. EventsTypeOK'
    BY DEF ClearAllCallbacks, EventsInv, EventsTypeOK
  <1>2. ASSUME NEW n \in Namespaces, NEW e \in EventNames
        PROVE  PairAgrees(n, e)'
    <2>1. ~InMap(n, e)'
      BY DEF ClearAllCallbacks, InMap
    <2>2. <<n, e>> \in EventKeys
      BY DEF EventKeys
    <2> QED
      BY <2>1, <2>2 DEF ClearAllCallbacks, PairAgrees
  <1> QED
    BY <1>1, <1>2 DEF EventsInv, BindingsAgree, PairAgrees

LEMMA NewClientAgrees ==
  ASSUME EventsInv, NewClient
  PROVE  EventsInv'
  <1>1. EventsTypeOK
    BY DEF EventsInv
  <1>2. EventsTypeOK'
    <2>1. ASSUME NEW p \in EventKeys
          PROVE  (IF InMap(p[1], p[2]) THEN boundEvents[p[2]].binding ELSE Unbound)
                     \in Bindings \cup {Unbound, Raw}
      <3>1. InMap(p[1], p[2]) => boundEvents[p[2]].binding \in Bindings
        BY <1>1, MapTypes, KeyTypes
      <3>2. listeners[p] \in Bindings \cup {Unbound, Raw}
        BY <1>1 DEF EventsTypeOK
      <3> QED
        BY <3>1, <3>2
    <2>2. listeners' \in [EventKeys -> Bindings \cup {Unbound, Raw}]
      BY <2>1 DEF NewClient
    <2> QED
      BY <1>1, <2>2 DEF NewClient, EventsTypeOK
  <1>3. ASSUME NEW n \in Namespaces, NEW e \in EventNames
        PROVE  PairAgrees(n, e)'
    <2>1. listeners'[<<n, e>>] = IF InMap(n, e) THEN boundEvents[e].binding ELSE Unbound
      BY KeyTypes DEF NewClient
    <2> QED
      BY <2>1 DEF NewClient, PairAgrees, InMap
  <1> QED
    BY <1>2, <1>3 DEF EventsInv, BindingsAgree, PairAgrees

LEMMA RemovalAgrees ==
  ASSUME EventsInv, NEW gone \in Namespaces, SocketRemoved(gone)
  PROVE  EventsInv'
  <1>1. EventsTypeOK
    BY DEF EventsInv
  <1>2. EventsTypeOK'
    <2>1. \A p \in EventKeys : listeners[p] \in Bindings \cup {Unbound, Raw}
      BY <1>1 DEF EventsTypeOK
    <2>2. listeners' \in [EventKeys -> Bindings \cup {Unbound, Raw}]
      BY <2>1 DEF SocketRemoved
    <2> QED
      BY <1>1, <2>2 DEF SocketRemoved, EventsTypeOK
  <1>3. ASSUME ~overlaid', NEW n \in Namespaces, NEW e \in EventNames
        PROVE  PairAgrees(n, e)'
    <2>1. PairAgrees(n, e) /\ <<n, e>> \in EventKeys
      BY <1>3 DEF SocketRemoved, EventsInv, BindingsAgree, PairAgrees, EventKeys
    <2>2. InMap(n, e)' = InMap(n, e) /\ boundEvents' = boundEvents
      BY DEF SocketRemoved, InMap
    <2>3. CASE n = gone
      <3>1. listeners'[<<n, e>>] = Unbound
        BY <2>1, <2>3 DEF SocketRemoved
      <3>2. InMap(n, e) => <<n, e>> \in dropped'
        BY <2>1, <2>3 DEF SocketRemoved
      <3> QED
        BY <2>2, <3>1, <3>2 DEF PairAgrees
    <2>4. CASE n # gone
      <3>1. listeners'[<<n, e>>] = listeners[<<n, e>>]
        BY <2>1, <2>4 DEF SocketRemoved
      <3>2. /\ <<n, e>> \in dropped => <<n, e>> \in dropped'
            /\ <<n, e>> \in cleared => <<n, e>> \in cleared'
        BY <2>4 DEF SocketRemoved
      <3> QED
        BY <2>1, <2>2, <3>1, <3>2 DEF PairAgrees
    <2> QED
      BY <2>3, <2>4
  <1> QED
    BY <1>2, <1>3 DEF EventsInv, BindingsAgree, PairAgrees

LEMMA EventsNextInv == EventsInv /\ [EventsNext]_eventVars => EventsInv'
  <1> SUFFICES ASSUME EventsInv, [EventsNext]_eventVars PROVE EventsInv'
    OBVIOUS
  <1>1. CASE UNCHANGED eventVars
    BY <1>1 DEF eventVars, EventsInv, EventsTypeOK, BindingsAgree, InMap
  <1>2. ASSUME NEW n \in Namespaces, NEW e \in EventNames, NEW b \in Bindings, OnEvent(n, e, b)
        PROVE  EventsInv'
    <2>1. b # Unbound
      BY EventsAssumption
    <2> QED
      BY <1>2, <2>1, EntryAgrees DEF OnEvent
  <1>3. ASSUME NEW n \in Namespaces, NEW e \in EventNames, UnbindEvent(n, e)
        PROVE  EventsInv'
    BY <1>3, EntryAgrees DEF UnbindEvent
  <1>4. CASE \E n \in Namespaces, e \in EventNames : OnRawEvent(n, e) \/ OnRawBinaryEvent(n, e)
    BY <1>4, RawAgree
  <1>5. CASE RebindCurrentEventMap \/ ClearAllCallbacks \/ NewClient
    BY <1>5, RebindAgrees, ClearAgrees, NewClientAgrees
  <1>6. CASE \E n \in Namespaces : SocketRemoved(n)
    BY <1>6, RemovalAgrees
  <1> QED
    BY <1>1, <1>2, <1>3, <1>4, <1>5, <1>6 DEF EventsNext

-----------------------------------------------------------------------------

\* Types and agreement together.
THEOREM EventsInvariance == EventsSpec => []EventsInv
  BY EventsInitInv, EventsNextInv, PTL DEF EventsSpec

\* Whatever is bound, unbound, cleared and bound again, and whichever socket goes when,
\* an entry of the map has its listener unless its socket was removed since it was
\* last bound, and a listener without an entry was left by ClearAllCallbacks.
THEOREM MapIsBound == EventsSpec => []BindingsAgree
  <1>1. EventsInv => BindingsAgree
    BY DEF EventsInv
  <1> QED
    BY <1>1, EventsInvariance, PTL

-----------------------------------------------------------------------------
(* WsNative.  The argument is about the status the game thread will have   *)
(* shown once it has run what waits for it.                                *)

Callbacks == {"open", "text", "close", "fail"}

-----------------------------------------------------------------------------
(* The inductive invariant.                                                *)

\* After the callbacks s, a status b has become TRUE, or stayed it.
Ends(s, b) ==
    \/ \E i \in DOMAIN s : s[i] = "open" /\ \A j \in DOMAIN s : i < j => s[j] = "text"
    \/ b /\ \A i \in DOMAIN s : s[i] = "text"

\* Nobody but the present connection calls back, and a new one did not.
OnlyCurrent ==
    /\ \A c \in made : enabled[c] => c = current
    /\ \A c \in Conns \ made : last[c] = "none"

\* StatusSettles, said of what waits.
WillSettle ==
    IF current = NoConn THEN ~Ends(posted, isConnected)
    ELSE last[current] # "none" =>
            /\ Ends(posted, isConnected) => Ws!Opened(current)
            /\ Ws!Opened(current) /\ ~asked[current] /\ ~refused => Ends(posted, isConnected)

WsNativeInv == WsNativeTypeOK /\ OnlyCurrent /\ WillSettle

-----------------------------------------------------------------------------
(* The queue of the game thread.                                           *)

LEMMA EmptyEnds == \A b \in BOOLEAN : Ends(<<>>, b) <=> b
  BY DEF Ends

LEMMA AppendEnds ==
  ASSUME NEW s \in Seq(Callbacks), NEW b \in BOOLEAN, NEW x \in Callbacks
  PROVE  Ends(Append(s, x), b) <=> x = "open" \/ (x = "text" /\ Ends(s, b))
  <1> DEFINE a == Append(s, x)
             n == Len(s) + 1
  <1>1. /\ \A i \in 1 .. Len(s) : a[i] = s[i]
        /\ a[n] = x /\ Len(a) = n /\ a \in Seq(Callbacks)
    BY AppendProperties
  <1>2. Len(s) \in Nat /\ DOMAIN s = 1 .. Len(s) /\ DOMAIN a = 1 .. n
    BY <1>1, LenProperties
  <1>3. /\ \A i \in DOMAIN a : i \in DOMAIN s \/ i = n
        /\ \A i \in DOMAIN s : i \in DOMAIN a /\ i \in Nat /\ i < n /\ a[i] = s[i]
        /\ n \in DOMAIN a /\ n \in Nat
    BY <1>1, <1>2
  <1> HIDE DEF a, n
  <1>4. CASE x = "open"
    <2>1. \A j \in DOMAIN a : n < j => a[j] = "text"
      BY <1>3
    <2> QED
      BY <1>1, <1>3, <1>4, <2>1 DEF Ends, a
  <1>5. CASE x = "text"
    <2>1. (\A i \in DOMAIN a : a[i] = "text") <=> \A i \in DOMAIN s : s[i] = "text"
      BY <1>1, <1>3, <1>5
    <2>2. ASSUME NEW i \in DOMAIN s
          PROVE  (\A j \in DOMAIN a : i < j => a[j] = "text") <=> \A j \in DOMAIN s : i < j => s[j] = "text"
      BY <1>1, <1>3, <1>5
    <2>3. \A i \in DOMAIN a : a[i] = "open" => i \in DOMAIN s
      BY <1>1, <1>3, <1>5
    <2>4. Ends(a, b) <=> Ends(s, b)
      BY <1>3, <2>1, <2>2, <2>3 DEF Ends
    <2> QED
      BY <1>5, <2>4 DEF a
  <1>6. CASE x \notin {"open", "text"}
    <2>1. \A i \in DOMAIN s : i < n /\ a[n] # "text"
      BY <1>1, <1>3, <1>6
    <2>2. ~Ends(a, b)
      BY <1>1, <1>3, <1>6, <2>1 DEF Ends
    <2> QED
      BY <1>6, <2>2 DEF a
  <1> QED
    BY <1>4, <1>5, <1>6

\* Running the oldest callback changes the status now, not in the end.
LEMMA TailEnds ==
  ASSUME NEW s \in Seq(Callbacks), s # <<>>, NEW b \in BOOLEAN, NEW c \in BOOLEAN,
         Head(s) = "open" => c,
         Head(s) \in {"close", "fail"} => ~c,
         Head(s) = "text" => (c <=> b)
  PROVE  Ends(Tail(s), c) <=> Ends(s, b)
  <1> DEFINE r == Tail(s)
  <1>1. /\ r \in Seq(Callbacks) /\ Len(r) = Len(s) - 1
        /\ \A i \in 1 .. Len(r) : r[i] = s[i + 1]
    BY HeadTailProperties
  <1>2. Len(s) \in Nat \ {0} /\ DOMAIN s = 1 .. Len(s) /\ DOMAIN r = 1 .. (Len(s) - 1)
    BY <1>1, LenProperties, EmptySeq
  <1>3. /\ \A i \in DOMAIN r : i \in Nat \ {0} /\ i + 1 \in DOMAIN s /\ r[i] = s[i + 1]
        /\ \A i \in DOMAIN s : i \in Nat \ {0} /\ (i = 1 \/ (i - 1 \in DOMAIN r /\ r[i - 1] = s[i]))
        /\ 1 \in DOMAIN s /\ s[1] = Head(s) /\ Head(s) \in Callbacks
    BY <1>1, <1>2
  <1> HIDE DEF r
  <1>4. (\A i \in DOMAIN s : s[i] = "text") <=> Head(s) = "text" /\ \A i \in DOMAIN r : r[i] = "text"
    BY <1>3
  <1>5. (\A j \in DOMAIN s : 1 < j => s[j] = "text") <=> \A i \in DOMAIN r : r[i] = "text"
    BY <1>3
  <1>6. ASSUME NEW i \in DOMAIN r
        PROVE  /\ s[i + 1] = "open" <=> r[i] = "open"
               /\ (\A j \in DOMAIN s : i + 1 < j => s[j] = "text")
                    <=> \A j \in DOMAIN r : i < j => r[j] = "text"
    <2>1. ASSUME \A j \in DOMAIN s : i + 1 < j => s[j] = "text", NEW j \in DOMAIN r, i < j
          PROVE  r[j] = "text"
      <3>1. j + 1 \in DOMAIN s /\ i + 1 < j + 1 /\ r[j] = s[j + 1]
        BY <1>3, <2>1
      <3> QED
        BY <2>1, <3>1
    <2>2. ASSUME \A j \in DOMAIN r : i < j => r[j] = "text", NEW j \in DOMAIN s, i + 1 < j
          PROVE  s[j] = "text"
      <3>1. j \in Nat /\ i \in Nat \ {0} /\ j - 1 \in DOMAIN r /\ r[j - 1] = s[j]
        BY <1>3, <2>2
      <3>2. i < j - 1
        BY <2>2, <3>1
      <3> QED
        BY <2>2, <3>1, <3>2
    <2> QED
      BY <1>3, <2>1, <2>2
  <1> DEFINE P(i) == s[i] = "open" /\ \A j \in DOMAIN s : i < j => s[j] = "text"
             Q(i) == r[i] = "open" /\ \A j \in DOMAIN r : i < j => r[j] = "text"
  <1>7. P(1) <=> Head(s) = "open" /\ \A i \in DOMAIN r : r[i] = "text"
    BY <1>3, <1>5
  <1>8. \A i \in DOMAIN r : P(i + 1) <=> Q(i)
    BY <1>6
  <1>9. /\ Ends(s, b) <=> (\E i \in DOMAIN s : P(i)) \/ (b /\ \A i \in DOMAIN s : s[i] = "text")
        /\ Ends(r, c) <=> (\E i \in DOMAIN r : Q(i)) \/ (c /\ \A i \in DOMAIN r : r[i] = "text")
    BY DEF Ends
  <1> HIDE DEF P, Q
  <1>10. (\E i \in DOMAIN s : P(i)) <=> P(1) \/ \E i \in DOMAIN r : Q(i)
    <2>1. ASSUME NEW i \in DOMAIN s, P(i) PROVE P(1) \/ \E j \in DOMAIN r : Q(j)
      <3>1. CASE i = 1
        BY <2>1, <3>1
      <3>2. CASE i # 1
        <4>1. i - 1 \in DOMAIN r /\ (i - 1) + 1 = i
          BY <1>3, <3>2
        <4> QED
          BY <1>8, <2>1, <4>1
      <3> QED
        BY <3>1, <3>2
    <2> QED
      BY <1>3, <1>8, <2>1
  <1>11. CASE Head(s) = "open"
    BY <1>4, <1>7, <1>9, <1>10, <1>11 DEF r
  <1>12. CASE Head(s) = "text"
    BY <1>4, <1>7, <1>9, <1>10, <1>12 DEF r
  <1>13. CASE Head(s) \in {"close", "fail"}
    BY <1>4, <1>7, <1>9, <1>10, <1>13 DEF r
  <1> QED
    BY <1>3, <1>11, <1>12, <1>13 DEF Callbacks

-----------------------------------------------------------------------------
(* Every step keeps it.                                                    *)

LEMMA WsInitInv == ASSUME WsNativeInit PROVE WsNativeInv
  <1>1. /\ asked = [c \in Conns |-> FALSE] /\ enabled = [c \in Conns |-> TRUE]
        /\ last = [c \in Conns |-> "none"]
        /\ made = {} /\ current = NoConn /\ posted = <<>> /\ connects = 0
        /\ alive = TRUE /\ isConnected = FALSE /\ refused = FALSE
    BY DEF WsNativeInit, Ws!Init
  <1>2. posted \in Seq(Callbacks) /\ connects \in 0 .. MaxConnects
    BY <1>1, WsNativeAssumption
  <1>3. WsNativeTypeOK
    BY <1>1, <1>2 DEF WsNativeTypeOK, Callbacks
  <1>4. OnlyCurrent
    BY <1>1 DEF OnlyCurrent
  <1>5. WillSettle
    BY <1>1, EmptyEnds DEF WillSettle
  <1> QED
    BY <1>3, <1>4, <1>5 DEF WsNativeInv

\* A callback joins the queue.
LEMMA PostedTypes ==
  ASSUME WsNativeTypeOK, NEW x \in Callbacks, posted' = Append(posted, x)
  PROVE  /\ posted' \in Seq(Callbacks)
         /\ \A b \in BOOLEAN : Ends(posted', b) <=> x = "open" \/ (x = "text" /\ Ends(posted, b))
  <1>1. posted \in Seq(Callbacks)
    BY DEF WsNativeTypeOK, Callbacks
  <1> QED
    BY <1>1, AppendProperties, AppendEnds

LEMMA RefuseInv == ASSUME WsNativeInv, Refuse PROVE WsNativeInv'
  <1>1. /\ posted' = Append(posted, "fail") /\ isConnected' = FALSE /\ refused' = TRUE
        /\ UNCHANGED <<asked, enabled, last, made, current>>
        /\ connects' \in 0 .. MaxConnects /\ alive' = TRUE
    BY WsNativeAssumption DEF Refuse, BeginConnect, WsNativeInv, WsNativeTypeOK
  <1>2. posted' \in Seq(Callbacks) /\ ~Ends(posted', isConnected')
    BY <1>1, PostedTypes DEF WsNativeInv, Callbacks
  <1>3. WsNativeTypeOK'
    BY <1>1, <1>2 DEF WsNativeInv, WsNativeTypeOK, Callbacks
  <1>4. OnlyCurrent' /\ WillSettle'
    BY <1>1, <1>2 DEF WsNativeInv, OnlyCurrent, WillSettle, Ws!Opened
  <1> QED
    BY <1>3, <1>4 DEF WsNativeInv

\* The old connection is silent, and the new one, if there is one, said nothing.
LEMMA StartInv == ASSUME WsNativeInv, StartConnection PROVE WsNativeInv'
  <1>1. /\ isConnected' = FALSE /\ refused' = FALSE /\ alive' = TRUE /\ UNCHANGED last
        /\ connects' \in 0 .. MaxConnects
        /\ enabled' = [c \in Conns |-> enabled[c] /\ c # current]
        /\ asked' = [c \in Conns |-> asked[c] \/ c = current]
    BY WsNativeAssumption DEF StartConnection, BeginConnect, Replaced, WsNativeInv, WsNativeTypeOK
  <1>2. enabled' \in [Conns -> BOOLEAN] /\ asked' \in [Conns -> BOOLEAN]
    BY <1>1
  <1>3. \A c \in made : ~enabled'[c]
    BY <1>1 DEF WsNativeInv, WsNativeTypeOK, OnlyCurrent
  <1>4. CASE \E c \in Conns \ made : made' = made \cup {c} /\ current' = c /\ UNCHANGED posted
    <2> PICK c \in Conns \ made : made' = made \cup {c} /\ current' = c /\ UNCHANGED posted
      BY <1>4
    <2>1. last'[c] = "none" /\ c # NoConn
      BY <1>1, WsNativeAssumption DEF WsNativeInv, OnlyCurrent
    <2>2. WsNativeTypeOK'
      BY <1>1, <1>2 DEF WsNativeInv, WsNativeTypeOK
    <2>3. OnlyCurrent'
      BY <1>1, <1>3 DEF WsNativeInv, OnlyCurrent
    <2>4. WillSettle'
      BY <2>1 DEF WillSettle
    <2> QED
      BY <2>2, <2>3, <2>4 DEF WsNativeInv
  <1>5. CASE current' = NoConn /\ posted' = Append(posted, "fail") /\ UNCHANGED made
    <2>1. posted' \in Seq(Callbacks) /\ ~Ends(posted', isConnected')
      BY <1>1, <1>5, PostedTypes DEF WsNativeInv, Callbacks
    <2>2. WsNativeTypeOK'
      BY <1>1, <1>2, <1>5, <2>1 DEF WsNativeInv, WsNativeTypeOK, Callbacks
    <2>3. OnlyCurrent'
      BY <1>1, <1>3, <1>5 DEF WsNativeInv, OnlyCurrent
    <2>4. WillSettle'
      BY <1>5, <2>1 DEF WillSettle
    <2> QED
      BY <2>2, <2>3, <2>4 DEF WsNativeInv
  <1> QED
    BY <1>4, <1>5 DEF StartConnection

LEMMA CloseInv == ASSUME WsNativeInv, CloseConnection PROVE WsNativeInv'
  <1>1. /\ current # NoConn /\ asked' = [asked EXCEPT ![current] = TRUE]
        /\ UNCHANGED <<enabled, last, made, current, alive, posted, isConnected, refused, connects>>
    BY DEF CloseConnection, Ws!Ask
  <1>2. WsNativeTypeOK'
    BY <1>1 DEF WsNativeInv, WsNativeTypeOK
  <1>3. OnlyCurrent'
    BY <1>1 DEF WsNativeInv, OnlyCurrent
  <1>4. asked'[current] = TRUE
    BY <1>1 DEF WsNativeInv, WsNativeTypeOK
  <1>5. WillSettle'
    BY <1>1, <1>4 DEF WsNativeInv, WillSettle, Ws!Opened
  <1> QED
    BY <1>2, <1>3, <1>5 DEF WsNativeInv

\* Only the present connection calls back, and its last word is what the status
\* comes to.
LEMMA CallBackInv ==
  ASSUME WsNativeInv, NEW c \in Conns, NEW callback \in Callbacks, CallBack(c, callback)
  PROVE  WsNativeInv'
  <1>1. /\ c \in made /\ enabled[c] /\ Ws!MaySay(c, callback)
        /\ last' = [last EXCEPT ![c] = callback]
        /\ posted' = Append(posted, callback)
        /\ UNCHANGED <<asked, enabled, made, current, alive, isConnected, refused, connects>>
    BY DEF CallBack, Ws!Say
  <1>2. c = current /\ c # NoConn
    BY <1>1, WsNativeAssumption DEF WsNativeInv, OnlyCurrent
  <1>3. last'[c] = callback /\ \A d \in Conns : d # c => last'[d] = last[d]
    BY <1>1 DEF WsNativeInv, WsNativeTypeOK
  <1>4. /\ posted' \in Seq(Callbacks)
        /\ Ends(posted', isConnected) <=>
              callback = "open" \/ (callback = "text" /\ Ends(posted, isConnected))
    BY <1>1, PostedTypes DEF WsNativeInv, WsNativeTypeOK
  <1>5. WsNativeTypeOK'
    BY <1>1, <1>4 DEF WsNativeInv, WsNativeTypeOK, Callbacks
  <1>6. OnlyCurrent'
    BY <1>1, <1>3 DEF WsNativeInv, OnlyCurrent
  <1>7. WillSettle'
    <2>1. callback = "text" => Ws!Opened(c) \/ (last[c] = "none" /\ asked[c])
      BY <1>1 DEF Ws!MaySay
    <2>2. Ends(posted', isConnected) => callback \in {"open", "text"}
      BY <1>4
    <2>3. callback \in {"open", "text"} /\ ~asked[c] /\ ~refused => Ends(posted', isConnected)
      BY <1>2, <1>4, <2>1 DEF WsNativeInv, WillSettle, Ws!Opened
    <2> QED
      BY <1>1, <1>2, <1>3, <2>2, <2>3 DEF WillSettle, Ws!Opened
  <1> QED
    BY <1>5, <1>6, <1>7 DEF WsNativeInv

LEMMA RunInv == ASSUME WsNativeInv, RunCallback PROVE WsNativeInv'
  <1>1. /\ posted # <<>> /\ posted' = Tail(posted)
        /\ isConnected' = CASE Head(posted) = "open" -> TRUE
                             [] Head(posted) \in {"close", "fail"} -> FALSE
                             [] OTHER -> isConnected
        /\ UNCHANGED <<asked, enabled, last, made, current, alive, refused, connects>>
    BY DEF RunCallback
  <1>2. posted \in Seq(Callbacks) /\ isConnected \in BOOLEAN
    BY DEF WsNativeInv, WsNativeTypeOK, Callbacks
  <1>3. /\ isConnected' \in BOOLEAN
        /\ Head(posted) = "open" => isConnected'
        /\ Head(posted) \in {"close", "fail"} => ~isConnected'
        /\ Head(posted) = "text" => (isConnected' <=> isConnected)
    BY <1>1, <1>2
  <1>4. posted' \in Seq(Callbacks)
    BY <1>1, <1>2, HeadTailProperties
  <1>5. Ends(posted', isConnected') <=> Ends(posted, isConnected)
    <2>1. ASSUME NEW b \in BOOLEAN, NEW c \in BOOLEAN,
                 Head(posted) = "open" => c,
                 Head(posted) \in {"close", "fail"} => ~c,
                 Head(posted) = "text" => (c <=> b)
          PROVE  Ends(Tail(posted), c) <=> Ends(posted, b)
      BY <1>1, <1>2, <2>1, TailEnds
    <2>2. Ends(Tail(posted), isConnected') <=> Ends(posted, isConnected)
      BY <1>2, <1>3, <2>1
    <2> QED
      BY <1>1, <2>2
  <1>6. WsNativeTypeOK'
    BY <1>1, <1>3, <1>4 DEF WsNativeInv, WsNativeTypeOK, Callbacks
  <1>7. OnlyCurrent' /\ WillSettle'
    BY <1>1, <1>5 DEF WsNativeInv, OnlyCurrent, WillSettle, Ws!Opened
  <1> QED
    BY <1>6, <1>7 DEF WsNativeInv

LEMMA UninitializeInv == ASSUME WsNativeInv, UninitializeComponent PROVE WsNativeInv'
  <1>1. /\ alive' = FALSE /\ current' = NoConn /\ posted' = <<>> /\ isConnected' = FALSE
        /\ UNCHANGED <<last, made, refused, connects>>
        /\ enabled' = [c \in Conns |-> enabled[c] /\ c # current]
        /\ asked' = [c \in Conns |-> asked[c] \/ c = current]
    BY DEF UninitializeComponent, Replaced
  <1>2. enabled' \in [Conns -> BOOLEAN] /\ asked' \in [Conns -> BOOLEAN]
    BY <1>1
  <1>3. posted' \in Seq(Callbacks)
    BY <1>1
  <1>4. WsNativeTypeOK'
    BY <1>1, <1>2, <1>3 DEF WsNativeInv, WsNativeTypeOK, Callbacks
  <1>5. OnlyCurrent'
    BY <1>1 DEF WsNativeInv, WsNativeTypeOK, OnlyCurrent
  <1>6. WillSettle'
    BY <1>1, EmptyEnds DEF WillSettle
  <1> QED
    BY <1>4, <1>5, <1>6 DEF WsNativeInv

LEMMA WsNextInv == WsNativeInv /\ [WsNativeNext]_wsVars => WsNativeInv'
  <1> SUFFICES ASSUME WsNativeInv, [WsNativeNext]_wsVars PROVE WsNativeInv'
    OBVIOUS
  <1>1. CASE WsNativeNext
    BY <1>1, RefuseInv, StartInv, CloseInv, RunInv, UninitializeInv, CallBackInv
    DEF WsNativeNext, Callbacks
  <1>2. CASE UNCHANGED wsVars
    BY <1>2 DEF wsVars, WsNativeInv, WsNativeTypeOK, OnlyCurrent, WillSettle, Ws!Opened
  <1> QED
    BY <1>1, <1>2

-----------------------------------------------------------------------------
(* The theorems.                                                           *)

\* The inductive invariant: what waits for the game thread will bring
\* bIsConnected to what the present connection is.
THEOREM WsNativeInvariance == WsNativeSpec => []WsNativeInv
  BY WsInitInv, WsNextInv, PTL DEF WsNativeSpec

\* Callbacks of replaced connections, which may still run after Connect(), never
\* leave bIsConnected wrong about the present connection.
THEOREM StatusIsRight == WsNativeSpec => []StatusSettles
  <1>1. WsNativeInv => StatusSettles
    <2> SUFFICES ASSUME WsNativeInv, posted = <<>>
                 PROVE  IF current = NoConn THEN ~isConnected
                        ELSE last[current] # "none" =>
                                /\ isConnected => Ws!Opened(current)
                                /\ Ws!Opened(current) /\ ~asked[current] /\ ~refused => isConnected
      BY DEF StatusSettles
    <2>1. Ends(posted, isConnected) <=> isConnected
      BY EmptyEnds DEF WsNativeInv, WsNativeTypeOK
    <2> QED
      BY <2>1 DEF WsNativeInv, WillSettle
  <1> QED
    BY <1>1, WsNativeInvariance, PTL
=============================================================================
