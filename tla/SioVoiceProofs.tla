---------------------------- MODULE SioVoiceProofs ----------------------------
(***************************************************************************)
(* What was said over SioVoice is decoded, for all recordings, frame       *)
(* sizes, rates and codes: VoiceIsHeard.  It goes along the way of the     *)
(* samples: numbers and streams survive serialization (RoundTripStream),   *)
(* the loop of DecodeStream finds the packets where FlattenSeq put them    *)
(* (DecodeStreamOf), and VoiceInv says which of these the state is at.     *)
(***************************************************************************)
EXTENDS SioVoice, SequenceTheorems, FiniteSetTheorems, TLAPS

\* Induction, by counting: if m were not in T, n -> n - 1 would put the numbers up to
\* m that are not in T into one pigeonhole less.
LEMMA Counting ==
  ASSUME NEW T, 0 \in T, \A n \in Nat : n \in T => n + 1 \in T, NEW m \in Nat
  PROVE  m \in T
  <1> DEFINE C == {n \in 0..m : n \notin T}
             H == C \ {m}
             f == [n \in C |-> n - 1]
  <1> SUFFICES ASSUME m \notin T PROVE FALSE
    OBVIOUS
  <1>1. m \in C
    OBVIOUS
  <1>2. IsFiniteSet(C) /\ IsFiniteSet(H) /\ Cardinality(H) = Cardinality(C) - 1
        /\ Cardinality(C) \in Nat
    <2>1. IsFiniteSet(0..m)
      BY FS_Interval
    <2>2. IsFiniteSet(C)
      BY <2>1, FS_Subset
    <2> HIDE DEF C
    <2>3. IsFiniteSet(H) /\ Cardinality(H) = Cardinality(C) - 1
      BY <1>1, <2>2, FS_RemoveElement
    <2> QED
      BY <2>2, <2>3, FS_CardinalityType
  <1>3. ASSUME NEW n \in C PROVE n - 1 \in H
    <2>1. n \in Nat /\ n <= m /\ n \notin T /\ n # 0
      OBVIOUS
    <2>2. n - 1 \in Nat /\ (n - 1) + 1 = n
      BY <2>1
    <2>3. n - 1 \notin T
      BY <2>1, <2>2
    <2> QED
      BY <2>1, <2>2, <2>3
  <1>4. f \in [C -> H]
    BY <1>3
  <1>5. \A x, y \in C : f[x] = f[y] => x = y
    OBVIOUS
  <1> HIDE DEF C, H, f
  <1>6. Cardinality(H) < Cardinality(C)
    BY <1>2
  <1>7. \E x, y \in C : x # y /\ f[x] = f[y]
    BY <1>2, <1>4, <1>6, FS_PigeonHole
  <1> QED
    BY <1>5, <1>7

-----------------------------------------------------------------------------
(* FlattenSeq.                                                             *)

\* f[i] is the first i elements of s, one behind the other.
Flat(f, s, n) == f = [i \in 1..n |-> IF i = 1 THEN s[i] ELSE f[i - 1] \o s[i]]

LEMMA FlatExists ==
  ASSUME NEW s, NEW n \in Nat
  PROVE  \E f : Flat(f, s, n)
  <1> DEFINE T == {m \in Nat : \E f : Flat(f, s, m)}
  <1>1. 0 \in T
    <2> DEFINE f == [i \in 1..0 |-> s]
    <2>1. Flat(f, s, 0)
      BY DEF Flat
    <2> QED
      BY <2>1
  <1>2. ASSUME NEW m \in Nat, m \in T PROVE m + 1 \in T
    <2>1. PICK f : Flat(f, s, m)
      BY <1>2
    <2> DEFINE g == [i \in 1..(m + 1) |->
                        IF i = m + 1 THEN IF i = 1 THEN s[i] ELSE f[i - 1] \o s[i] ELSE f[i]]
               h == [i \in 1..(m + 1) |-> IF i = 1 THEN s[i] ELSE g[i - 1] \o s[i]]
    <2>2. \A i \in 1..m : f[i] = IF i = 1 THEN s[i] ELSE f[i - 1] \o s[i]
      BY <2>1 DEF Flat
    <2>3. ASSUME NEW i \in 1..(m + 1) PROVE g[i] = h[i]
      <3>1. i # 1 => i - 1 \in 1..m /\ i - 1 \in 1..(m + 1) /\ i - 1 # m + 1
        OBVIOUS
      <3>2. i # 1 => g[i - 1] = f[i - 1]
        BY <3>1
      <3>3. i # m + 1 => i \in 1..m
        OBVIOUS
      <3> QED
        BY <2>2, <3>2, <3>3
    <2>4. g = h
      BY <2>3
    <2>5. Flat(g, s, m + 1)
      BY <2>4 DEF Flat
    <2> QED
      BY <2>5
  <1>3. n \in T
    <2> HIDE DEF T
    <2> QED
      BY <1>1, <1>2, Counting
  <1> QED
    BY <1>3

Agree(s, t, n) == \A i \in 1..n : s[i] = t[i]

LEMMA FlatUnique ==
  ASSUME NEW s, NEW t, NEW n \in Nat, NEW m \in Nat, n <= m, NEW f, NEW g,
         Flat(f, s, n), Flat(g, t, m), Agree(s, t, n)
  PROVE  Agree(f, g, n)
  <1> DEFINE T == {k \in Nat : k \in 1..n => f[k] = g[k]}
  <1>1. /\ \A i \in 1..n : f[i] = IF i = 1 THEN s[i] ELSE f[i - 1] \o s[i]
        /\ \A i \in 1..m : g[i] = IF i = 1 THEN t[i] ELSE g[i - 1] \o t[i]
    BY DEF Flat
  <1>2. 0 \in T
    OBVIOUS
  <1>3. ASSUME NEW k \in Nat, k \in T PROVE k + 1 \in T
    <2> SUFFICES ASSUME k + 1 \in 1..n PROVE f[k + 1] = g[k + 1]
      OBVIOUS
    <2>1. k + 1 \in 1..m /\ s[k + 1] = t[k + 1] /\ (k + 1) - 1 = k
      BY DEF Agree
    <2>2. CASE k = 0
      BY <1>1, <2>1, <2>2
    <2>3. CASE k # 0
      <3>1. k \in 1..n /\ k + 1 # 1
        BY <2>3
      <3>2. f[k] = g[k]
        BY <1>3, <3>1
      <3>3. f[k + 1] = f[k] \o s[k + 1] /\ g[k + 1] = g[k] \o t[k + 1]
        BY <1>1, <2>1, <3>1
      <3> QED
        BY <2>1, <3>2, <3>3
    <2> QED
      BY <2>2, <2>3
  <1>4. ASSUME NEW k \in 1..n PROVE f[k] = g[k]
    <2>1. k \in Nat
      OBVIOUS
    <2>2. k \in T
      <3> HIDE DEF T
      <3> QED
        BY <1>2, <1>3, <2>1, Counting
    <2> QED
      BY <2>2
  <1> QED
    BY <1>4 DEF Agree

LEMMA FlattenIsFlat ==
  ASSUME NEW s, Len(s) \in Nat \ {0}
  PROVE  \E f : Flat(f, s, Len(s)) /\ FlattenSeq(s) = f[Len(s)]
  <1> DEFINE F(f) == f = [i \in 1..Len(s) |-> IF i = 1 THEN s[i] ELSE f[i - 1] \o s[i]]
             c == CHOOSE f : F(f)
  <1>1. \E f : F(f)
    BY FlatExists DEF Flat
  <1>2. F(c)
    BY <1>1
  <1>3. FlattenSeq(s) = c[Len(s)]
    BY DEF FlattenSeq
  <1> QED
    BY <1>2, <1>3 DEF Flat

LEMMA FlattenEmpty == FlattenSeq(<<>>) = <<>>
  BY DEF FlattenSeq

LEMMA FlattenAppend ==
  ASSUME NEW S, NEW s \in Seq(Seq(S)), NEW x \in Seq(S)
  PROVE  FlattenSeq(Append(s, x)) = FlattenSeq(s) \o x
  <1> DEFINE t == Append(s, x)
             n == Len(s)
  <1>1. /\ n \in Nat /\ t \in Seq(Seq(S)) /\ Len(t) = n + 1 /\ t[n + 1] = x
        /\ \A i \in 1..n : t[i] = s[i]
    <2>1. n \in Nat /\ s \in Seq(Seq(S))
      BY LenProperties
    <2>2. t \in Seq(Seq(S)) /\ Len(t) = n + 1
      BY <2>1, AppendProperties
    <2>3. t[n + 1] = x /\ \A i \in 1..n : t[i] = s[i]
      BY <2>1, AppendProperties
    <2> QED
      BY <2>1, <2>2, <2>3
  <1> HIDE DEF t
  <1>2. PICK g : Flat(g, t, n + 1) /\ FlattenSeq(t) = g[n + 1]
    <2>1. Len(t) = n + 1 /\ Len(t) \in Nat \ {0}
      BY <1>1
    <2>2. \E g : Flat(g, t, Len(t)) /\ FlattenSeq(t) = g[Len(t)]
      BY <2>1, FlattenIsFlat
    <2> QED
      BY <2>1, <2>2
  <1>3. g[n + 1] = IF n + 1 = 1 THEN t[n + 1] ELSE g[(n + 1) - 1] \o t[n + 1]
    <2>1. n + 1 \in 1..(n + 1)
      BY <1>1
    <2> HIDE DEF n
    <2> QED
      BY <1>2, <2>1 DEF Flat
  <1>4. CASE n = 0
    <2>1. s = <<>>
      BY <1>4, EmptySeq
    <2>2. FlattenSeq(t) = x
      BY <1>1, <1>2, <1>3, <1>4
    <2> QED
      BY <2>1, <2>2, FlattenEmpty, ConcatEmptySeq DEF t
  <1>5. CASE n # 0
    <2>1. PICK f : Flat(f, s, n) /\ FlattenSeq(s) = f[n]
      BY <1>1, <1>5, FlattenIsFlat
    <2>2. n <= n + 1 /\ n \in 1..n /\ n + 1 \in Nat /\ (n + 1) - 1 = n /\ n + 1 # 1
      BY <1>1, <1>5
    <2> HIDE DEF n
    <2>3. Agree(f, g, n)
      <3>1. Agree(s, t, n)
        BY <1>1 DEF Agree, n
      <3> DEFINE m == n + 1
      <3>2. n \in Nat /\ m \in Nat /\ n <= m /\ Flat(f, s, n) /\ Flat(g, t, m)
        BY <1>1, <1>2, <2>1, <2>2
      <3> HIDE DEF m
      <3> QED
        BY <3>1, <3>2, FlatUnique
    <2>4. f[n] = g[n]
      BY <2>2, <2>3 DEF Agree
    <2>5. g[n + 1] = g[n] \o x
      BY <1>1, <1>3, <2>2
    <2> QED
      BY <1>2, <2>1, <2>4, <2>5 DEF t
  <1> QED
    BY <1>4, <1>5

LEMMA FlattenSeqType ==
  ASSUME NEW S, NEW s \in Seq(Seq(S))
  PROVE  FlattenSeq(s) \in Seq(S)
  <1> DEFINE T == {n \in Nat : \A r \in Seq(Seq(S)) : Len(r) = n => FlattenSeq(r) \in Seq(S)}
  <1>1. 0 \in T
    <2>1. ASSUME NEW r \in Seq(Seq(S)), Len(r) = 0 PROVE FlattenSeq(r) \in Seq(S)
      BY <2>1, EmptySeq, FlattenEmpty
    <2> QED
      BY <2>1
  <1>2. ASSUME NEW n \in Nat, n \in T PROVE n + 1 \in T
    <2>1. ASSUME NEW r \in Seq(Seq(S)), Len(r) = n + 1 PROVE FlattenSeq(r) \in Seq(S)
      <3>1. PICK u \in Seq(Seq(S)), x \in Seq(S) : r = Append(u, x)
        <4>1. r # <<>>
          BY <2>1, EmptySeq
        <4> QED
          BY <4>1, SequenceEmptyOrAppend
      <3>2. Len(u) = n
        <4>1. Len(r) = Len(u) + 1
          BY <3>1, AppendProperties
        <4>2. Len(u) \in Nat
          BY LenProperties
        <4> QED
          BY <2>1, <4>1, <4>2
      <3>3. FlattenSeq(u) \in Seq(S)
        BY <1>2, <3>2
      <3>4. FlattenSeq(r) = FlattenSeq(u) \o x
        BY <3>1, FlattenAppend
      <3> QED
        BY <3>3, <3>4, ConcatProperties
    <2> QED
      BY <2>1
  <1>3. Len(s) \in T
    <2>1. Len(s) \in Nat
      BY LenProperties
    <2> HIDE DEF T
    <2> QED
      BY <1>1, <1>2, <2>1, Counting
  <1> QED
    BY <1>3

LEMMA AppendBehind ==
  ASSUME NEW S, NEW s \in Seq(S), NEW u \in Seq(S), NEW x \in S
  PROVE  s \o Append(u, x) = Append(s \o u, x)
  <1>1. s \o u \in Seq(S) /\ <<x>> \in Seq(S)
    BY ConcatProperties
  <1>2. Append(u, x) = u \o <<x>> /\ Append(s \o u, x) = (s \o u) \o <<x>>
    BY <1>1, AppendIsConcat
  <1>3. (s \o u) \o <<x>> = s \o (u \o <<x>>)
    BY <1>1
  <1> QED
    BY <1>2, <1>3

\* A name keeps \o out of the goals that only regroup.
Join(a, b) == a \o b

LEMMA JoinAssociative ==
  ASSUME NEW S, NEW a \in Seq(S), NEW b \in Seq(S), NEW c \in Seq(S)
  PROVE  Join(Join(a, b), c) = Join(a, Join(b, c))
  <1>1. (a \o b) \o c = a \o (b \o c)
    BY ConcatAssociative
  <1> QED
    BY <1>1 DEF Join

LEMMA FlattenNext ==
  ASSUME NEW S, NEW s \in Seq(Seq(S)), NEW u \in Seq(Seq(S)), NEW x \in Seq(S),
         FlattenSeq(s \o u) = FlattenSeq(s) \o FlattenSeq(u)
  PROVE  FlattenSeq(s \o Append(u, x)) = FlattenSeq(s) \o FlattenSeq(Append(u, x))
  <1> DEFINE a == FlattenSeq(s)
             b == FlattenSeq(u)
             p == FlattenSeq(s \o u)
             q == FlattenSeq(Append(u, x))
  <1>1. s \o Append(u, x) = Append(s \o u, x)
    BY AppendBehind
  <1>2. FlattenSeq(s \o Append(u, x)) = p \o x
    <2>1. s \o u \in Seq(Seq(S))
      BY ConcatProperties
    <2>2. FlattenSeq(Append(s \o u, x)) = p \o x
      BY <2>1, FlattenAppend
    <2> QED
      BY <1>1, <2>2
  <1>3. q = b \o x
    BY FlattenAppend
  <1>4. a \in Seq(S) /\ b \in Seq(S)
    BY FlattenSeqType
  <1>5. p = Join(a, b) /\ q = Join(b, x)
    BY <1>3 DEF Join
  <1> HIDE DEF a, b, p, q
  <1>6. Join(p, x) = Join(a, q)
    BY <1>4, <1>5, JoinAssociative
  <1>7. p \o x = a \o q
    BY <1>6 DEF Join
  <1> QED
    BY <1>2, <1>7 DEF a, q

LEMMA FlattenConcat ==
  ASSUME NEW S, NEW s \in Seq(Seq(S)), NEW t \in Seq(Seq(S))
  PROVE  FlattenSeq(s \o t) = FlattenSeq(s) \o FlattenSeq(t)
  <1> DEFINE P(r) == FlattenSeq(s \o r) = FlattenSeq(s) \o FlattenSeq(r)
             T    == {n \in Nat : \A r \in Seq(Seq(S)) : Len(r) = n => P(r)}
  <1>1. 0 \in T
    <2>1. ASSUME NEW r \in Seq(Seq(S)), Len(r) = 0 PROVE P(r)
      <3>1. r = <<>>
        BY <2>1, EmptySeq
      <3>2. s \o <<>> = s
        BY ConcatEmptySeq
      <3>3. FlattenSeq(s) \o <<>> = FlattenSeq(s)
        BY FlattenSeqType, ConcatEmptySeq
      <3> QED
        BY <3>1, <3>2, <3>3, FlattenEmpty
    <2> QED
      BY <2>1
  <1>2. ASSUME NEW n \in Nat, n \in T PROVE n + 1 \in T
    <2>1. ASSUME NEW r \in Seq(Seq(S)), Len(r) = n + 1 PROVE P(r)
      <3>1. PICK u \in Seq(Seq(S)), x \in Seq(S) : r = Append(u, x)
        <4>1. r # <<>>
          BY <2>1, EmptySeq
        <4> QED
          BY <4>1, SequenceEmptyOrAppend
      <3>2. Len(u) = n
        <4>1. Len(r) = Len(u) + 1
          BY <3>1, AppendProperties
        <4>2. Len(u) \in Nat
          BY LenProperties
        <4> QED
          BY <2>1, <4>1, <4>2
      <3>3. P(u)
        BY <1>2, <3>2
      <3>4. FlattenSeq(s \o u) = FlattenSeq(s) \o FlattenSeq(u)
        BY <3>3
      <3> HIDE DEF P, T
      <3>5. FlattenSeq(s \o r) = FlattenSeq(s) \o FlattenSeq(r)
        BY <3>1, <3>4, FlattenNext
      <3> QED
        BY <3>5 DEF P
    <2> QED
      BY <2>1
  <1>3. Len(t) \in T
    <2>1. Len(t) \in Nat
      BY LenProperties
    <2> HIDE DEF T
    <2> QED
      BY <1>1, <1>2, <2>1, Counting
  <1> QED
    BY <1>3

-----------------------------------------------------------------------------
(* DecodeStream.                                                           *)

\* What the loop of DecodeStream is at.
LoopState == [outcome : {"decoded", "failed"}, pcm : Seq(Int), offset : Nat]

\* A stream that DeserializeMinimal may return.
Streams == [ok : {TRUE}, sizes : Seq(Int), bytes : Seq(Int)]

Start == [outcome |-> "decoded", pcm |-> <<>>, offset |-> 0]

\* after[i] is what the loop is at after i rounds.
Loop(after, s, room, noise, n) ==
    after = [i \in 0..n |-> IF i = 0 THEN Start ELSE DecodeRound(s, room, noise, after[i - 1], i)]

LEMMA LoopExists ==
  ASSUME NEW s, NEW room, NEW noise, NEW n \in Nat
  PROVE  \E f : Loop(f, s, room, noise, n)
  <1> DEFINE T == {m \in Nat : \E f : Loop(f, s, room, noise, m)}
  <1>1. 0 \in T
    <2> DEFINE f == [i \in 0..0 |-> Start]
    <2>1. Loop(f, s, room, noise, 0)
      BY DEF Loop
    <2> QED
      BY <2>1
  <1>2. ASSUME NEW m \in Nat, m \in T PROVE m + 1 \in T
    <2>1. PICK f : Loop(f, s, room, noise, m)
      BY <1>2
    <2> DEFINE R(x, i) == DecodeRound(s, room, noise, x, i)
               g == [i \in 0..(m + 1) |->
                        IF i = m + 1 THEN R(f[m], m + 1) ELSE f[i]]
               h == [i \in 0..(m + 1) |-> IF i = 0 THEN Start ELSE R(g[i - 1], i)]
    <2>2. \A i \in 0..m : f[i] = IF i = 0 THEN Start ELSE R(f[i - 1], i)
      BY <2>1 DEF Loop
    <2>3. ASSUME NEW i \in 0..(m + 1) PROVE g[i] = h[i]
      <3> HIDE DEF R
      <3>1. i # 0 => i - 1 \in 0..m /\ i - 1 \in 0..(m + 1) /\ i - 1 # m + 1
        OBVIOUS
      <3>2. i # 0 => g[i - 1] = f[i - 1]
        BY <3>1
      <3>3. i # m + 1 => i \in 0..m
        OBVIOUS
      <3>4. i = m + 1 => i - 1 = m /\ i # 0
        OBVIOUS
      <3> QED
        BY <2>2, <3>2, <3>3, <3>4
    <2>4. g = h
      BY <2>3
    <2>5. Loop(g, s, room, noise, m + 1)
      BY <2>4 DEF Loop
    <2> QED
      BY <2>5
  <1>3. n \in T
    <2> HIDE DEF T
    <2> QED
      BY <1>1, <1>2, Counting
  <1> QED
    BY <1>3

LEMMA DecodeStreamIsLoop ==
  ASSUME NEW s, NEW room, NEW noise, Len(s.sizes) \in Nat
  PROVE  \E f : /\ Loop(f, s, room, noise, Len(s.sizes) + 1)
                /\ DecodeStream(s, room, noise) = f[Len(s.sizes) + 1]
  <1> DEFINE F(f) == f = [n \in 0..(Len(s.sizes) + 1) |->
                             IF n = 0 THEN [outcome |-> "decoded", pcm |-> <<>>, offset |-> 0]
                             ELSE DecodeRound(s, room, noise, f[n - 1], n)]
             c == CHOOSE f : F(f)
  <1>1. \E f : F(f)
    <2> DEFINE m == Len(s.sizes) + 1
    <2>1. m \in Nat
      OBVIOUS
    <2> HIDE DEF m
    <2>2. \E f : Loop(f, s, room, noise, m)
      BY <2>1, LoopExists
    <2> QED
      BY <2>2 DEF Loop, Start, m
  <1>2. F(c)
    BY <1>1
  <1>3. DecodeStream(s, room, noise) = c[Len(s.sizes) + 1]
    BY DEF DecodeStream
  <1> QED
    BY <1>2, <1>3 DEF Loop, Start

\* Of bytes inside the stream, opus_decode makes samples or an error.
LEMMA OpusDecodeType ==
  ASSUME NEW bytes, NEW offset \in Nat, NEW size \in Int, NEW room \in Nat, NEW noise,
         Len(bytes) \in Nat, offset + size <= Len(bytes)
  PROVE  /\ OpusDecode(bytes, offset, size, room, noise).outcome \in {"decoded", "failed"}
         /\ OpusDecode(bytes, offset, size, room, noise).pcm \in Seq(Int)
  <1> DEFINE packet == SubSeq(bytes, offset + 1, offset + size)
             frames == {f \in DOMAIN Code : Code[f] = packet}
             frame  == CHOOSE f \in frames : TRUE
  <1>1. ~(offset + size > Len(bytes))
    OBVIOUS
  <1>2. Silence(room) \in Seq(Int) /\ <<>> \in Seq(Int)
    BY DEF Silence
  <1>3. frames # {} => frame \in Seq(Int)
    <2>1. frames # {} => frame \in frames
      OBVIOUS
    <2>2. frames \subseteq DOMAIN Code
      OBVIOUS
    <2>3. DOMAIN Code \subseteq Seq(Int)
      BY CodeAssumption
    <2> HIDE DEF frames, frame
    <2> QED
      BY <2>1, <2>2, <2>3
  <1> HIDE DEF frames, frame
  <1> QED
    BY <1>1, <1>2, <1>3 DEF OpusDecode, PcmOf, Failed, frames, frame

\* Every stream that came is decoded or refused; nothing behind its bytes is read.
LEMMA DecodeStreamType ==
  ASSUME NEW s \in Streams, NEW room \in Nat, NEW noise
  PROVE  /\ DecodeStream(s, room, noise).outcome \in {"decoded", "failed"}
         /\ DecodeStream(s, room, noise).pcm \in Seq(Int)
  <1> DEFINE N == Len(s.sizes) + 1
  <1>1. N \in Nat /\ Len(s.sizes) \in Nat /\ Len(s.bytes) \in Nat /\ N = Len(s.sizes) + 1
    BY LenProperties DEF Streams
  <1>2. PICK f : Loop(f, s, room, noise, N) /\ DecodeStream(s, room, noise) = f[N]
    BY <1>1, DecodeStreamIsLoop
  <1> HIDE DEF N
  <1>3. f[0] \in LoopState
    <2>1. f[0] = Start
      BY <1>1, <1>2 DEF Loop
    <2> QED
      BY <2>1 DEF Start, LoopState
  <1>4. ASSUME NEW n \in Nat, n + 1 <= N, f[n] \in LoopState PROVE f[n + 1] \in LoopState
    <2>1. f[n + 1] = DecodeRound(s, room, noise, f[n], n + 1)
      <3>1. n + 1 \in 0..N /\ n + 1 # 0 /\ (n + 1) - 1 = n
        BY <1>1, <1>4
      <3> QED
        BY <1>2, <3>1 DEF Loop
    <2> DEFINE m == n + 1
    <2>2. CASE f[n].outcome # "decoded" \/ f[n].offset = Len(s.bytes)
      BY <1>4, <2>1, <2>2 DEF DecodeRound
    <2>3. CASE ~(f[n].outcome # "decoded" \/ f[n].offset = Len(s.bytes)) /\ ~PacketFits(s, m, f[n].offset)
      <3>1. f[n + 1] = [f[n] EXCEPT !.outcome = "failed"]
        BY <2>1, <2>3 DEF DecodeRound
      <3> QED
        BY <1>4, <3>1 DEF LoopState
    <2>4. CASE ~(f[n].outcome # "decoded" \/ f[n].offset = Len(s.bytes)) /\ PacketFits(s, m, f[n].offset)
      <3> DEFINE o == f[n].offset
                 p == OpusDecode(s.bytes, o, s.sizes[m], room, noise)
      <3>1. f[n + 1] = [outcome |-> p.outcome, pcm |-> f[n].pcm \o p.pcm, offset |-> o + s.sizes[m]]
        BY <2>1, <2>4 DEF DecodeRound
      <3>2. o \in Nat /\ f[n].pcm \in Seq(Int)
        BY <1>4 DEF LoopState
      <3>3. m \in DOMAIN s.sizes /\ s.sizes[m] > 0 /\ o + s.sizes[m] <= Len(s.bytes)
        BY <2>4 DEF PacketFits
      <3>4. s.sizes[m] \in Int
        BY <3>3, ElementOfSeq DEF Streams
      <3>5. p.outcome \in {"decoded", "failed"} /\ p.pcm \in Seq(Int)
        <4> HIDE DEF m, o
        <4> QED
          BY <1>1, <3>2, <3>3, <3>4, OpusDecodeType
      <3>6. f[n].pcm \o p.pcm \in Seq(Int)
        BY <3>2, <3>5, ConcatProperties
      <3>7. o + s.sizes[m] \in Nat
        BY <3>2, <3>3, <3>4
      <3> HIDE DEF p, o, m
      <3> QED
        BY <3>1, <3>5, <3>6, <3>7 DEF LoopState
    <2> QED
      BY <2>2, <2>3, <2>4
  <1>5. f[N] \in LoopState
    <2> DEFINE T == {n \in Nat : n <= N => f[n] \in LoopState}
    <2>1. 0 \in T
      BY <1>3
    <2>2. ASSUME NEW n \in Nat, n \in T PROVE n + 1 \in T
      <3>1. n + 1 <= N => n <= N
        BY <1>1
      <3> QED
        BY <1>4, <2>2, <3>1
    <2>3. N \in T
      <3> HIDE DEF T
      <3> QED
        BY <1>1, <2>1, <2>2, Counting
    <2> QED
      BY <1>1, <2>3
  <1> QED
    BY <1>2, <1>5 DEF LoopState

-----------------------------------------------------------------------------
(* Serialization.                                                          *)

LEMMA RoundTrip16 ==
  ASSUME NEW n \in Nat, n <= 32767
  PROVE  /\ Bytes16(n) \in Seq(Bytes) /\ Len(Bytes16(n)) = 2
         /\ Bytes16(n)[1] \in Bytes /\ Bytes16(n)[2] \in Bytes
         /\ Int16(Bytes16(n)[1], Bytes16(n)[2]) = n
  <1>1. n % 256 \in Bytes /\ (n \div 256) % 256 \in Bytes
    BY DEF Bytes
  <1>2. n \div 256 <= 127 /\ n \div 256 \in Nat
    OBVIOUS
  <1>3. (n \div 256) % 256 = n \div 256
    BY <1>2
  <1>4. n = (n % 256) + 256 * (n \div 256)
    OBVIOUS
  <1>5. Signed(n \div 256) = n \div 256
    BY <1>2 DEF Signed
  <1>6. Bytes16(n)[1] = n % 256 /\ Bytes16(n)[2] = (n \div 256) % 256
    BY DEF Bytes16
  <1>7. Bytes16(n) \in Seq(Bytes) /\ Len(Bytes16(n)) = 2
    BY <1>1 DEF Bytes16
  <1> QED
    BY <1>1, <1>3, <1>4, <1>5, <1>6, <1>7 DEF Int16

LEMMA RoundTrip32 ==
  ASSUME NEW n \in Nat, n <= MaxCount
  PROVE  /\ Bytes32(n) \in Seq(Bytes) /\ Len(Bytes32(n)) = 4
         /\ Int32(Bytes32(n)[1], Bytes32(n)[2], Bytes32(n)[3], Bytes32(n)[4]) = n
  <1> DEFINE p == n \div 256
             q == p \div 256
             r == q \div 256
  <1>1. n \div 65536 = q /\ n \div 16777216 = r
    OBVIOUS
  <1>2. /\ n % 256 \in Bytes /\ p % 256 \in Bytes /\ q % 256 \in Bytes /\ r % 256 \in Bytes
    BY DEF Bytes
  <1>3. r \in Nat /\ r <= 127
    BY DEF MaxCount
  <1>4. r % 256 = r
    BY <1>3
  <1>5. n = (n % 256) + 256 * p /\ p = (p % 256) + 256 * q /\ q = (q % 256) + 256 * r
    OBVIOUS
  <1>6. Bytes32(n) = <<n % 256, p % 256, q % 256, r % 256>>
    BY <1>1 DEF Bytes32
  <1> HIDE DEF p, q, r
  <1>7. Signed(r) = r
    BY <1>3 DEF Signed
  <1>8. Bytes32(n) \in Seq(Bytes) /\ Len(Bytes32(n)) = 4
    BY <1>2, <1>6
  <1> QED
    BY <1>4, <1>5, <1>6, <1>7, <1>8 DEF Int32

\* Where the elements of a concatenation are.
LEMMA ConcatPlaces ==
  ASSUME NEW S, NEW a \in Seq(S), NEW b \in Seq(S)
  PROVE  /\ a \o b \in Seq(S) /\ Len(a \o b) = Len(a) + Len(b)
         /\ \A i \in 1..Len(a) : (a \o b)[i] = a[i]
         /\ \A i \in 1..Len(b) : (a \o b)[Len(a) + i] = b[i]
  OBVIOUS

LEMMA ConcatPlaces3 ==
  ASSUME NEW S, NEW a \in Seq(S), NEW b \in Seq(S), NEW c \in Seq(S)
  PROVE  /\ (a \o b) \o c \in Seq(S) /\ Len((a \o b) \o c) = Len(a) + Len(b) + Len(c)
         /\ \A i \in 1..Len(a) : ((a \o b) \o c)[i] = a[i]
         /\ \A i \in 1..Len(b) : ((a \o b) \o c)[Len(a) + i] = b[i]
         /\ \A i \in 1..Len(c) : ((a \o b) \o c)[Len(a) + Len(b) + i] = c[i]
  OBVIOUS

\* Where those of a part of it are.
LEMMA SubSeqPlaces ==
  ASSUME NEW S, NEW s \in Seq(S), NEW k \in Nat, NEW l \in Nat, k + l <= Len(s)
  PROVE  /\ SubSeq(s, k + 1, k + l) \in Seq(S) /\ Len(SubSeq(s, k + 1, k + l)) = l
         /\ \A i \in 1..l : SubSeq(s, k + 1, k + l)[i] = s[k + i]
  <1> DEFINE u == SubSeq(s, k + 1, k + l)
  <1>1. u \in Seq(S) /\ Len(u) = l
    OBVIOUS
  <1>2. \A i \in 1..l : u[i] = s[k + i]
    <2> TAKE i \in 1..l
    <2>1. (k + 1) + i - 1 = k + i /\ i \in 1..((k + l) - (k + 1) + 1)
      OBVIOUS
    <2> QED
      BY <2>1
  <1> QED
    BY <1>1, <1>2

\* An int32 counts the sizes, and an int16 holds each.
Counted(sizes) ==
    /\ sizes \in Seq(Nat) /\ Len(sizes) <= MaxCount
    /\ \A i \in 1..Len(sizes) : sizes[i] <= 32767

LEMMA RoundTripStream ==
  ASSUME NEW s, Counted(s.sizes), s.bytes \in Seq(Bytes)
  PROVE  /\ SerializeMinimal(s) \in Seq(Bytes)
         /\ SerializeMinimal(s) # <<>>
         /\ Len(SerializeMinimal(s)) = 4 + 2 * Len(s.sizes) + Len(s.bytes)
         /\ DeserializeMinimal(SerializeMinimal(s)) =
                [ok |-> TRUE, sizes |-> s.sizes, bytes |-> s.bytes]
  <1> DEFINE N == Len(s.sizes)
             A == Bytes32(N)
             B == [k \in 1..(2 * N) |-> Bytes16(s.sizes[(k + 1) \div 2])[2 - (k % 2)]]
             C == s.bytes
             b == SerializeMinimal(s)
  <1>0. /\ s.sizes \in Seq(Nat) /\ N <= MaxCount
        /\ \A i \in 1..N : s.sizes[i] <= 32767
    BY DEF Counted
  <1>1. N \in Nat /\ C \in Seq(Bytes) /\ Len(C) \in Nat
    BY <1>0, LenProperties
  <1>2. A \in Seq(Bytes) /\ Len(A) = 4 /\ Int32(A[1], A[2], A[3], A[4]) = N
    BY <1>0, <1>1, RoundTrip32
  <1>3. ASSUME NEW i \in 1..N
        PROVE  /\ s.sizes[i] \in Nat
               /\ Bytes16(s.sizes[i])[1] \in Bytes /\ Bytes16(s.sizes[i])[2] \in Bytes
               /\ Int16(Bytes16(s.sizes[i])[1], Bytes16(s.sizes[i])[2]) = s.sizes[i]
    <2>1. s.sizes[i] \in Nat /\ s.sizes[i] <= 32767
      BY <1>0, <1>3, ElementOfSeq
    <2> QED
      BY <2>1, RoundTrip16
  <1>4. B \in Seq(Bytes) /\ Len(B) = 2 * N
    <2>1. ASSUME NEW k \in 1..(2 * N) PROVE B[k] \in Bytes
      <3>1. (k + 1) \div 2 \in 1..N
        BY <1>1
      <3>2. k % 2 = 0 \/ k % 2 = 1
        OBVIOUS
      <3>3. B[k] = Bytes16(s.sizes[(k + 1) \div 2])[2 - (k % 2)]
        OBVIOUS
      <3> HIDE DEF B, N
      <3> QED
        BY <1>3, <3>1, <3>2, <3>3
    <2>2. 2 * N \in Nat
      BY <1>1
    <2> HIDE DEF N
    <2>3. B \in [1..(2 * N) -> Bytes]
      <3> DEFINE E(k) == Bytes16(s.sizes[(k + 1) \div 2])[2 - (k % 2)]
      <3>1. \A k \in 1..(2 * N) : E(k) \in Bytes
        BY <2>1
      <3> HIDE DEF E
      <3>2. [k \in 1..(2 * N) |-> E(k)] \in [1..(2 * N) -> Bytes]
        BY <3>1
      <3> QED
        BY <3>2 DEF E
    <2> HIDE DEF B
    <2> QED
      BY <2>2, <2>3, IsASeq, LenProperties
  <1>5. ASSUME NEW i \in 1..N
        PROVE  /\ 2 * i - 1 \in 1..(2 * N) /\ 2 * i \in 1..(2 * N)
               /\ B[2 * i - 1] = Bytes16(s.sizes[i])[1] /\ B[2 * i] = Bytes16(s.sizes[i])[2]
    <2>1. 2 * i - 1 \in 1..(2 * N) /\ 2 * i \in 1..(2 * N)
      BY <1>1
    <2>2. /\ ((2 * i - 1) + 1) \div 2 = i /\ 2 - ((2 * i - 1) % 2) = 1
          /\ (2 * i + 1) \div 2 = i /\ 2 - ((2 * i) % 2) = 2
      BY <1>1
    <2> QED
      BY <2>1, <2>2
  <1>6. b = (A \o B) \o C
    BY DEF SerializeMinimal
  <1> HIDE DEF N, A, B, C, b
  <1>8. /\ b \in Seq(Bytes) /\ Len(b) = 4 + 2 * N + Len(C)
        /\ \A i \in 1..4 : b[i] = A[i]
        /\ \A k \in 1..(2 * N) : b[4 + k] = B[k]
        /\ \A j \in 1..Len(C) : b[4 + 2 * N + j] = C[j]
    <2>1. A \in Seq(Bytes) /\ B \in Seq(Bytes) /\ C \in Seq(Bytes)
      BY <1>1, <1>2, <1>4
    <2>2. /\ b \in Seq(Bytes) /\ Len(b) = Len(A) + Len(B) + Len(C)
          /\ \A i \in 1..Len(A) : b[i] = A[i]
          /\ \A i \in 1..Len(B) : b[Len(A) + i] = B[i]
          /\ \A i \in 1..Len(C) : b[Len(A) + Len(B) + i] = C[i]
      BY <1>6, <2>1, ConcatPlaces3
    <2>3. Len(A) = 4 /\ Len(B) = 2 * N
      BY <1>2, <1>4
    <2> QED
      BY <2>2, <2>3
  <1>9. Int32(b[1], b[2], b[3], b[4]) = N
    BY <1>2, <1>8
  <1> DEFINE t == [i \in 1..N |-> Int16(b[3 + 2 * i], b[4 + 2 * i])]
             u == SubSeq(b, 5 + 2 * N, Len(b))
  <1>10. t = s.sizes
    <2>1. ASSUME NEW i \in 1..N PROVE t[i] = s.sizes[i] /\ t[i] \in Nat
      <3>1. b[4 + (2 * i - 1)] = B[2 * i - 1] /\ b[4 + 2 * i] = B[2 * i]
        BY <1>5, <1>8
      <3>2. 4 + (2 * i - 1) = 3 + 2 * i
        BY <1>1
      <3>3. t[i] = Int16(b[3 + 2 * i], b[4 + 2 * i])
        OBVIOUS
      <3> HIDE DEF t
      <3> DEFINE y == Bytes16(s.sizes[i])
      <3>4. B[2 * i - 1] = y[1] /\ B[2 * i] = y[2]
        BY <1>5
      <3>5. s.sizes[i] \in Nat /\ Int16(y[1], y[2]) = s.sizes[i]
        BY <1>3
      <3> HIDE DEF y
      <3>6. b[3 + 2 * i] = y[1] /\ b[4 + 2 * i] = y[2]
        BY <3>1, <3>2, <3>4
      <3> QED
        BY <3>3, <3>5, <3>6
    <2>2. DOMAIN t = 1..N /\ t = [i \in 1..N |-> t[i]]
      OBVIOUS
    <2> HIDE DEF t
    <2>3. t \in [1..N -> Nat]
      BY <2>1, <2>2
    <2>4. t \in Seq(Nat) /\ Len(t) = N
      BY <1>1, <2>3, IsASeq, LenProperties
    <2>5. s.sizes \in Seq(Nat)
      BY <1>0
    <2> QED
      BY <2>1, <2>4, <2>5, SeqEqual DEF N
  <1>11. u = C
    <2>1. /\ u \in Seq(Bytes) /\ Len(u) = Len(C)
          /\ \A j \in 1..Len(C) : u[j] = b[4 + 2 * N + j]
      <3> DEFINE k == 4 + 2 * N
                 l == Len(C)
      <3>1. k \in Nat /\ l \in Nat /\ b \in Seq(Bytes) /\ Len(b) = k + l
        BY <1>1, <1>8
      <3>2. 5 + 2 * N = k + 1
        BY <1>1
      <3> HIDE DEF k, l
      <3>3. u = SubSeq(b, k + 1, k + l)
        BY <3>1, <3>2
      <3> HIDE DEF u
      <3>4. k + l <= Len(b)
        BY <3>1
      <3>5. /\ SubSeq(b, k + 1, k + l) \in Seq(Bytes) /\ Len(SubSeq(b, k + 1, k + l)) = l
            /\ \A i \in 1..l : SubSeq(b, k + 1, k + l)[i] = b[k + i]
        BY <3>1, <3>4, SubSeqPlaces
      <3> QED
        BY <3>3, <3>5 DEF k, l
    <2> HIDE DEF u
    <2>2. \A j \in 1..Len(u) : u[j] = C[j]
      BY <1>8, <2>1
    <2> QED
      BY <1>1, <2>1, <2>2, SeqEqual
  <1>12. ~(Len(b) < 4) /\ ~(N < 0 \/ N > (Len(b) - 4) \div 2)
    <2>1. Len(b) - 4 = 2 * N + Len(C)
      BY <1>1, <1>8
    <2>2. N <= (2 * N + Len(C)) \div 2
      BY <1>1
    <2> QED
      BY <1>1, <1>8, <2>1, <2>2
  <1>13. DeserializeMinimal(b) = [ok |-> TRUE, sizes |-> s.sizes, bytes |-> C]
    <2>1. DeserializeMinimal(b) = [ok |-> TRUE, sizes |-> t, bytes |-> u]
      BY <1>9, <1>12 DEF DeserializeMinimal
    <2> HIDE DEF t, u
    <2> QED
      BY <1>10, <1>11, <2>1
  <1>14. b # <<>>
    BY <1>1, <1>8
  <1> QED
    BY <1>8, <1>13, <1>14 DEF b, C, N

\* The elements of a sequence of sequences lie side by side in the flattened one.
Until(s, n) == FlattenSeq(SubSeq(s, 1, n))

LEMMA PrefixAppend ==
  ASSUME NEW S, NEW s \in Seq(S), NEW n \in Nat, n < Len(s)
  PROVE  /\ SubSeq(s, 1, n) \in Seq(S) /\ s[n + 1] \in S
         /\ SubSeq(s, 1, n + 1) = Append(SubSeq(s, 1, n), s[n + 1])
  <1>1. n + 1 \in 1..Len(s) /\ Len(s) \in Nat
    BY LenProperties
  <1>2. /\ SubSeq(s, 1, n) \in Seq(S) /\ Len(SubSeq(s, 1, n)) = n
        /\ \A i \in 1..n : SubSeq(s, 1, n)[i] = s[i]
    BY <1>1
  <1>3. /\ SubSeq(s, 1, n + 1) \in Seq(S) /\ Len(SubSeq(s, 1, n + 1)) = n + 1
        /\ \A i \in 1..(n + 1) : SubSeq(s, 1, n + 1)[i] = s[i]
    BY <1>1
  <1>4. s[n + 1] \in S
    BY <1>1, ElementOfSeq
  <1> DEFINE p == SubSeq(s, 1, n)
             q == SubSeq(s, 1, n + 1)
             x == s[n + 1]
  <1>5. /\ p \in Seq(S) /\ Len(p) = n /\ q \in Seq(S) /\ Len(q) = n + 1 /\ x \in S
        /\ \A i \in 1..(n + 1) : q[i] = IF i = n + 1 THEN x ELSE p[i]
    BY <1>2, <1>3, <1>4
  <1> HIDE DEF p, q, x
  <1>6. q = Append(p, x)
    <2>1. /\ Append(p, x) \in Seq(S) /\ Len(Append(p, x)) = n + 1
          /\ \A i \in 1..(n + 1) : Append(p, x)[i] = IF i = n + 1 THEN x ELSE p[i]
      BY <1>5, AppendProperties
    <2> DEFINE r == Append(p, x)
    <2> HIDE DEF r
    <2>2. r \in Seq(S) /\ Len(r) = n + 1 /\ \A i \in 1..(n + 1) : r[i] = q[i]
      BY <1>5, <2>1 DEF r
    <2>3. q = r
      BY <1>5, <2>2, SeqEqual
    <2> QED
      BY <2>3 DEF r
  <1> QED
    BY <1>4, <1>5, <1>6 DEF p, q, x

LEMMA SplitAt ==
  ASSUME NEW S, NEW s \in Seq(S), NEW n \in Nat, n < Len(s)
  PROVE  \E t \in Seq(S) : s = Append(SubSeq(s, 1, n), s[n + 1]) \o t
  <1> DEFINE p == SubSeq(s, 1, n + 1)
             t == SubSeq(s, n + 2, Len(s))
  <1>1. Len(s) \in Nat
    BY LenProperties
  <1>2. /\ p \in Seq(S) /\ Len(p) = n + 1
        /\ \A i \in 1..(n + 1) : p[i] = s[i]
    BY <1>1
  <1>3. /\ t \in Seq(S) /\ Len(t) = Len(s) - (n + 1)
        /\ \A i \in 1..Len(t) : t[i] = s[n + 1 + i]
    BY <1>1
  <1>4. p = Append(SubSeq(s, 1, n), s[n + 1])
    BY PrefixAppend
  <1> HIDE DEF p, t
  <1>5. p \o t = s
    <2> DEFINE w == p \o t
    <2>1. /\ w \in Seq(S) /\ Len(w) = Len(p) + Len(t)
          /\ \A i \in 1..Len(p) : w[i] = p[i]
          /\ \A i \in 1..Len(t) : w[Len(p) + i] = t[i]
      <3>1. p \in Seq(S) /\ t \in Seq(S)
        BY <1>2, <1>3
      <3> QED
        BY <3>1, ConcatPlaces
    <2> HIDE DEF w
    <2>2. Len(w) = Len(s)
      BY <1>1, <1>2, <1>3, <2>1
    <2>3. ASSUME NEW i \in 1..Len(w) PROVE w[i] = s[i]
      <3>1. CASE i <= n + 1
        BY <1>1, <1>2, <2>1, <2>3, <3>1
      <3>2. CASE i > n + 1
        <4>1. i - (n + 1) \in 1..Len(t) /\ n + 1 + (i - (n + 1)) = i
          BY <1>1, <1>2, <1>3, <2>2, <2>3, <3>2
        <4>2. w[i] = t[i - (n + 1)]
          BY <1>2, <2>1, <4>1
        <4> QED
          BY <1>3, <4>1, <4>2
      <3> QED
        BY <3>1, <3>2
    <2>4. w = s
      BY <2>1, <2>2, <2>3, SeqEqual
    <2> QED
      BY <2>4 DEF w
  <1> QED
    BY <1>3, <1>4, <1>5

LEMMA FlattenPlaces ==
  ASSUME NEW S, NEW s \in Seq(Seq(S)), NEW n \in Nat, n < Len(s)
  PROVE  /\ Until(s, n + 1) = Until(s, n) \o s[n + 1]
         /\ Len(Until(s, n)) \in Nat /\ Len(s[n + 1]) \in Nat
         /\ Len(Until(s, n + 1)) = Len(Until(s, n)) + Len(s[n + 1])
         /\ Len(Until(s, n + 1)) <= Len(FlattenSeq(s))
         /\ SubSeq(FlattenSeq(s), Len(Until(s, n)) + 1, Len(Until(s, n)) + Len(s[n + 1])) = s[n + 1]
  <1> DEFINE p == SubSeq(s, 1, n)
             x == s[n + 1]
             a == FlattenSeq(p)
  <1>1. p \in Seq(Seq(S)) /\ x \in Seq(S) /\ SubSeq(s, 1, n + 1) = Append(p, x)
    BY PrefixAppend
  <1>2. PICK t \in Seq(Seq(S)) : s = Append(p, x) \o t
    BY SplitAt
  <1> HIDE DEF p, x
  <1>3. FlattenSeq(Append(p, x)) = a \o x
    BY <1>1, FlattenAppend
  <1>4. a \in Seq(S) /\ FlattenSeq(t) \in Seq(S)
    BY <1>1, FlattenSeqType
  <1>5. FlattenSeq(s) = (a \o x) \o FlattenSeq(t)
    <2>1. Append(p, x) \in Seq(Seq(S))
      BY <1>1, AppendProperties
    <2> QED
      BY <1>2, <1>3, <2>1, FlattenConcat
  <1> DEFINE c == FlattenSeq(t)
             w == FlattenSeq(s)
  <1> HIDE DEF a, c, w
  <1>6. /\ w \in Seq(S) /\ Len(w) = Len(a) + Len(x) + Len(c)
        /\ \A i \in 1..Len(x) : w[Len(a) + i] = x[i]
    <2>1. w = (a \o x) \o c
      BY <1>5 DEF c, w
    <2>2. a \in Seq(S) /\ x \in Seq(S) /\ c \in Seq(S)
      BY <1>1, <1>4 DEF c
    <2> QED
      BY <2>1, <2>2, ConcatPlaces3
  <1>7. Len(a) \in Nat /\ Len(x) \in Nat /\ Len(c) \in Nat
    BY <1>1, <1>4, LenProperties DEF c
  <1>8. SubSeq(w, Len(a) + 1, Len(a) + Len(x)) = x
    <2> DEFINE u == SubSeq(w, Len(a) + 1, Len(a) + Len(x))
    <2>1. /\ u \in Seq(S) /\ Len(u) = Len(x)
          /\ \A i \in 1..Len(x) : u[i] = w[Len(a) + i]
      <3>1. w \in Seq(S) /\ Len(a) + Len(x) <= Len(w)
        BY <1>6, <1>7
      <3> DEFINE k == Len(a)
                 l == Len(x)
      <3> HIDE DEF k, l
      <3>2. k \in Nat /\ l \in Nat /\ k + l <= Len(w)
        BY <1>7, <3>1 DEF k, l
      <3> QED
        BY <3>1, <3>2, SubSeqPlaces DEF k, l
    <2> HIDE DEF u
    <2>2. u = x
      BY <1>1, <1>6, <2>1, SeqEqual
    <2> QED
      BY <2>2 DEF u
  <1>9. Until(s, n) = a /\ Until(s, n + 1) = a \o x
    BY <1>1, <1>3 DEF Until, a, p
  <1>10. Len(a \o x) = Len(a) + Len(x)
    BY <1>1, <1>4, ConcatProperties
  <1>11. Len(a \o x) <= Len(w)
    BY <1>6, <1>7, <1>10
  <1>12. /\ Until(s, n + 1) = Until(s, n) \o x
         /\ Len(Until(s, n)) \in Nat /\ Len(x) \in Nat
         /\ Len(Until(s, n + 1)) = Len(Until(s, n)) + Len(x)
         /\ Len(Until(s, n + 1)) <= Len(w)
         /\ SubSeq(w, Len(Until(s, n)) + 1, Len(Until(s, n)) + Len(x)) = x
    BY <1>7, <1>8, <1>9, <1>10, <1>11
  <1> QED
    BY <1>12 DEF w, x

LEMMA UntilEnds ==
  ASSUME NEW S, NEW s \in Seq(Seq(S))
  PROVE  Until(s, 0) = <<>> /\ Until(s, Len(s)) = FlattenSeq(s)
  <1>1. SubSeq(s, 1, 0) = <<>> /\ SubSeq(s, 1, Len(s)) = s
    <2>1. SubSeq(s, 1, 0) \in Seq(Seq(S)) /\ Len(SubSeq(s, 1, 0)) = 0
      OBVIOUS
    <2> DEFINE u == SubSeq(s, 1, Len(s))
    <2>2. u \in Seq(Seq(S)) /\ Len(u) = Len(s) /\ \A i \in 1..Len(s) : u[i] = s[i]
      OBVIOUS
    <2> HIDE DEF u
    <2>3. u = s
      BY <2>2, SeqEqual
    <2> QED
      BY <2>1, <2>3, EmptySeq DEF u
  <1> QED
    BY <1>1, FlattenEmpty DEF Until

-----------------------------------------------------------------------------
(* What EncodeStream leaves of frames, and what is decoded of it.          *)

Frames == DOMAIN Code

PacketsOf(frames) == [i \in 1..Len(frames) |-> Code[frames[i]]]
SizesOf(frames)   == [i \in 1..Len(frames) |-> Len(Code[frames[i]])]

StreamOf(frames) == [sizes |-> SizesOf(frames), bytes |-> FlattenSeq(PacketsOf(frames))]

LEMMA CodeFacts ==
  ASSUME NEW f \in Frames
  PROVE  /\ f \in Seq(Int) /\ Code[f] \in Seq(Bytes)
         /\ Len(Code[f]) \in Nat /\ Len(Code[f]) >= 1 /\ Len(Code[f]) <= 32767
  <1>1. Code[f] \in Seq(Bytes) /\ Len(Code[f]) >= 1 /\ Len(Code[f]) <= 32767 /\ f \in Seq(Int)
    BY CodeAssumption DEF Frames
  <1>2. Len(Code[f]) \in Nat
    BY <1>1, LenProperties
  <1> QED
    BY <1>1, <1>2

LEMMA StreamFacts ==
  ASSUME NEW frames \in Seq(Frames)
  PROVE  /\ PacketsOf(frames) \in Seq(Seq(Bytes)) /\ Len(PacketsOf(frames)) = Len(frames)
         /\ SizesOf(frames) \in Seq(Nat) /\ Len(SizesOf(frames)) = Len(frames)
         /\ FlattenSeq(PacketsOf(frames)) \in Seq(Bytes)
         /\ \A i \in 1..Len(frames) :
               /\ PacketsOf(frames)[i] = Code[frames[i]]
               /\ SizesOf(frames)[i] = Len(Code[frames[i]])
               /\ frames[i] \in Frames
  <1> DEFINE n == Len(frames)
             p == PacketsOf(frames)
             z == SizesOf(frames)
  <1>1. n \in Nat
    BY LenProperties
  <1>2. \A i \in 1..n : frames[i] \in Frames
    BY ElementOfSeq
  <1>3. \A i \in 1..n : p[i] = Code[frames[i]] /\ z[i] = Len(Code[frames[i]])
    BY DEF PacketsOf, SizesOf
  <1>4. DOMAIN p = 1..n /\ DOMAIN z = 1..n /\ p = [i \in 1..n |-> p[i]] /\ z = [i \in 1..n |-> z[i]]
    BY DEF PacketsOf, SizesOf
  <1> HIDE DEF n, p, z
  <1>5. \A i \in 1..n : p[i] \in Seq(Bytes) /\ z[i] \in Nat
    BY <1>2, <1>3, CodeFacts
  <1>6. p \in [1..n -> Seq(Bytes)]
    BY <1>4, <1>5
  <1>7. z \in [1..n -> Nat]
    BY <1>4, <1>5
  <1>8. p \in Seq(Seq(Bytes)) /\ Len(p) = n
    BY <1>1, <1>6, IsASeq, LenProperties
  <1>9. z \in Seq(Nat) /\ Len(z) = n
    BY <1>1, <1>7, IsASeq, LenProperties
  <1>10. FlattenSeq(p) \in Seq(Bytes)
    BY <1>8, FlattenSeqType
  <1> QED
    BY <1>2, <1>3, <1>8, <1>9, <1>10 DEF n, p, z

Holds(bytes, offset, packet) ==
    /\ Len(bytes) \in Nat /\ offset + Len(packet) <= Len(bytes)
    /\ SubSeq(bytes, offset + 1, offset + Len(packet)) = packet

\* opus_decode finds the frame of a packet that was not damaged.
LEMMA OpusDecodePacket ==
  ASSUME NEW bytes, NEW offset \in Nat, NEW room \in Nat, NEW noise, NEW f \in Frames,
         NEW size, size = Len(Code[f]), Holds(bytes, offset, Code[f])
  PROVE  OpusDecode(bytes, offset, size, room, noise) =
             IF Len(f) > room THEN Failed ELSE PcmOf(f)
  <1> DEFINE packet == SubSeq(bytes, offset + 1, offset + size)
             frames == {g \in DOMAIN Code : Code[g] = packet}
             frame  == CHOOSE g \in frames : TRUE
  <1>1. size \in Nat
    BY CodeFacts
  <1>2. ~(offset + size > Len(bytes))
    BY <1>1 DEF Holds
  <1>3. \A g \in DOMAIN Code : Code[g] = Code[f] => g = f
    BY CodeAssumption DEF Frames
  <1>4. frames = {f}
    BY <1>3 DEF Frames, Holds
  <1>5. frame = f
    BY <1>4
  <1> HIDE DEF frame, frames
  <1> QED
    BY <1>2, <1>4, <1>5 DEF OpusDecode, frame, frames

LEMMA OpusDecodeFits ==
  ASSUME NEW bytes, NEW offset \in Nat, NEW room \in Nat, NEW noise, NEW f \in Frames,
         NEW size, size = Len(Code[f]), Holds(bytes, offset, Code[f]), Len(f) <= room
  PROVE  OpusDecode(bytes, offset, size, room, noise) = [outcome |-> "decoded", pcm |-> f]
  <1>1. ~(Len(f) > room)
    BY CodeFacts, LenProperties
  <1>2. OpusDecode(bytes, offset, size, room, noise) =
             IF Len(f) > room THEN Failed ELSE PcmOf(f)
    BY OpusDecodePacket
  <1> QED
    BY <1>1, <1>2 DEF PcmOf

LEMMA OpusDecodeTooLong ==
  ASSUME NEW bytes, NEW offset \in Nat, NEW room \in Nat, NEW noise, NEW f \in Frames,
         NEW size, size = Len(Code[f]), Holds(bytes, offset, Code[f]), Len(f) > room
  PROVE  OpusDecode(bytes, offset, size, room, noise).outcome = "failed"
  <1>1. OpusDecode(bytes, offset, size, room, noise) =
             IF Len(f) > room THEN Failed ELSE PcmOf(f)
    BY OpusDecodePacket
  <1> QED
    BY <1>1 DEF Failed

\* The loop is at the packet of f, which has the size m says.
AtPacket(s, at, m, w, o, size, f) ==
    /\ size = Len(Code[f]) /\ s.bytes = w /\ at.offset = o /\ o # Len(w)
    /\ at.outcome = "decoded"
    /\ m \in DOMAIN s.sizes /\ s.sizes[m] = size /\ Holds(w, o, Code[f])

\* So is it in a round of the loop.
LEMMA DecodeOne ==
  ASSUME NEW s, NEW room \in Nat, NEW noise, NEW at, NEW m, NEW w, NEW o \in Nat, NEW size,
         NEW f \in Frames, AtPacket(s, at, m, w, o, size, f)
  PROVE  /\ Len(f) > room => DecodeRound(s, room, noise, at, m).outcome = "failed"
         /\ Len(f) <= room =>
                /\ DecodeRound(s, room, noise, at, m).outcome = "decoded"
                /\ DecodeRound(s, room, noise, at, m).pcm = at.pcm \o f
                /\ DecodeRound(s, room, noise, at, m).offset = o + size
  <1> DEFINE packet == OpusDecode(w, o, size, room, noise)
             joined == at.pcm \o packet.pcm
             sum    == o + size
             next   == DecodeRound(s, room, noise, at, m)
  <1>0. /\ size = Len(Code[f]) /\ s.bytes = w /\ at.offset = o /\ o # Len(w)
        /\ at.outcome = "decoded"
        /\ m \in DOMAIN s.sizes /\ s.sizes[m] = size /\ Holds(w, o, Code[f])
    BY DEF AtPacket
  <1>1. size \in Nat /\ size >= 1
    BY <1>0, CodeFacts
  <1>2. PacketFits(s, m, o)
    BY <1>0, <1>1 DEF PacketFits, Holds
  <1>3. next = [outcome |-> packet.outcome, pcm |-> joined, offset |-> sum]
    BY <1>0, <1>2 DEF DecodeRound
  <1>4. ASSUME Len(f) > room PROVE packet.outcome = "failed"
    BY <1>0, <1>4, OpusDecodeTooLong
  <1>5. ASSUME Len(f) <= room PROVE packet.outcome = "decoded" /\ packet.pcm = f
    <2>1. packet = [outcome |-> "decoded", pcm |-> f]
      BY <1>0, <1>5, OpusDecodeFits
    <2> HIDE DEF packet
    <2> QED
      BY <2>1
  <1> HIDE DEF packet
  <1>6. ASSUME Len(f) <= room PROVE joined = at.pcm \o f
    BY <1>5, <1>6
  <1> HIDE DEF joined, sum, next
  <1>7. next.outcome = packet.outcome /\ next.pcm = joined /\ next.offset = sum
    BY <1>3
  <1>8. /\ Len(f) > room => next.outcome = "failed"
        /\ Len(f) <= room => next.outcome = "decoded" /\ next.pcm = at.pcm \o f /\ next.offset = sum
    BY <1>4, <1>5, <1>6, <1>7
  <1> QED
    BY <1>8 DEF next, sum

\* What of the frames has been decoded after n rounds.
DecodedUntil(at, frames, room, n) ==
    \/ /\ at.outcome = "decoded"
       /\ at.offset = Len(Until(PacketsOf(frames), n))
       /\ at.pcm = Until(frames, n)
    \/ /\ at.outcome = "failed"
       /\ \E i \in 1..Len(frames) : Len(frames[i]) > room

LEMMA DecodeNext ==
  ASSUME NEW frames \in Seq(Frames), NEW room \in Nat, NEW noise, NEW at, NEW n \in Nat,
         n < Len(frames), DecodedUntil(at, frames, room, n),
         NEW s, s.sizes = SizesOf(frames), s.bytes = FlattenSeq(PacketsOf(frames))
  PROVE  DecodedUntil(DecodeRound(s, room, noise, at, n + 1), frames, room, n + 1)
  <1> DEFINE p == PacketsOf(frames)
             z == SizesOf(frames)
             w == FlattenSeq(p)
             m == n + 1
             f == frames[m]
             o == Len(Until(p, n))
             next == DecodeRound(s, room, noise, at, m)
  <1>1. m \in 1..Len(frames) /\ Len(frames) \in Nat
    BY LenProperties
  <1>2. /\ p \in Seq(Seq(Bytes)) /\ Len(p) = Len(frames)
        /\ z \in Seq(Nat) /\ Len(z) = Len(frames)
        /\ w \in Seq(Bytes)
        /\ p[m] = Code[f] /\ z[m] = Len(Code[f]) /\ f \in Frames
    BY <1>1, StreamFacts
  <1>3. frames \in Seq(Seq(Int))
    <2>1. Frames \subseteq Seq(Int)
      BY CodeFacts
    <2> QED
      BY <2>1
  <1>4. Len(Code[f]) \in Nat /\ Len(Code[f]) >= 1
    BY <1>2, CodeFacts
  <1>5. /\ o \in Nat /\ Len(Until(p, m)) = o + Len(Code[f])
        /\ Len(Until(p, m)) <= Len(w)
        /\ SubSeq(w, o + 1, o + Len(Code[f])) = Code[f]
    <2>1. /\ Len(Until(p, n)) \in Nat
          /\ Len(Until(p, n + 1)) = Len(Until(p, n)) + Len(p[n + 1])
          /\ Len(Until(p, n + 1)) <= Len(FlattenSeq(p))
          /\ SubSeq(FlattenSeq(p), Len(Until(p, n)) + 1, Len(Until(p, n)) + Len(p[n + 1])) = p[n + 1]
      <3>1. p \in Seq(Seq(Bytes)) /\ n < Len(p)
        BY <1>2
      <3> HIDE DEF p
      <3> QED
        BY <3>1, FlattenPlaces
    <2>2. p[n + 1] = Code[f]
      BY <1>2
    <2> HIDE DEF p, f
    <2> QED
      BY <2>1, <2>2
  <1>6. Until(frames, m) = Until(frames, n) \o f
    BY <1>3, FlattenPlaces
  <1>7. Len(w) \in Nat /\ DOMAIN z = 1..Len(frames)
    BY <1>2, LenProperties
  <1> HIDE DEF p, z, w, f, o, next, m
  <1>8. CASE at.outcome = "failed" /\ \E i \in 1..Len(frames) : Len(frames[i]) > room
    <2>1. next = at
      BY <1>8 DEF next, DecodeRound
    <2> QED
      BY <1>8, <2>1 DEF DecodedUntil, next, m
  <1>9. CASE at.outcome = "decoded" /\ at.offset = o /\ at.pcm = Until(frames, n)
    <2>1. s.bytes = w /\ s.sizes = z
      BY DEF w, z, p
    <2>2. at.offset # Len(s.bytes) /\ at.offset \in Nat
      BY <1>4, <1>5, <1>7, <1>9, <2>1
    <2>3. m \in DOMAIN s.sizes /\ s.sizes[m] = Len(Code[f])
      BY <1>1, <1>2, <1>7, <2>1
    <2>4. Holds(s.bytes, at.offset, Code[f])
      BY <1>5, <1>7, <1>9, <2>1 DEF Holds
    <2>5. /\ Len(f) > room => next.outcome = "failed"
          /\ Len(f) <= room =>
                 /\ next.outcome = "decoded" /\ next.pcm = at.pcm \o f
                 /\ next.offset = at.offset + Len(Code[f])
      <3> DEFINE size == Len(Code[f])
      <3>1. f \in Frames /\ o \in Nat /\ AtPacket(s, at, m, w, o, size, f)
        BY <1>2, <1>5, <1>9, <2>1, <2>2, <2>3, <2>4 DEF AtPacket
      <3> HIDE DEF size
      <3>2. /\ Len(f) > room => DecodeRound(s, room, noise, at, m).outcome = "failed"
            /\ Len(f) <= room =>
                   /\ DecodeRound(s, room, noise, at, m).outcome = "decoded"
                   /\ DecodeRound(s, room, noise, at, m).pcm = at.pcm \o f
                   /\ DecodeRound(s, room, noise, at, m).offset = o + size
        BY <3>1, DecodeOne
      <3> QED
        BY <1>9, <3>2 DEF next, size
    <2>6. CASE Len(f) > room
      <3>1. next.outcome = "failed"
        BY <2>5, <2>6
      <3>2. \E i \in 1..Len(frames) : Len(frames[i]) > room
        BY <1>1, <2>6 DEF f
      <3> QED
        BY <3>1, <3>2 DEF DecodedUntil, next, m
    <2>7. CASE Len(f) <= room
      <3>1. next.outcome = "decoded" /\ next.pcm = at.pcm \o f /\ next.offset = o + Len(Code[f])
        BY <1>9, <2>5, <2>7
      <3> QED
        BY <1>5, <1>6, <1>9, <3>1 DEF DecodedUntil, next, m, p
    <2>8. Len(f) \in Nat
      BY <1>2, CodeFacts, LenProperties
    <2> QED
      BY <2>6, <2>7, <2>8
  <1> QED
    BY <1>8, <1>9 DEF DecodedUntil, o, p

\* A stream that was not damaged is decoded as what was said, unless a frame is too long.
LEMMA DecodeStreamOf ==
  ASSUME NEW frames \in Seq(Frames), NEW room \in Nat, NEW noise,
         NEW s, s.sizes = SizesOf(frames), s.bytes = FlattenSeq(PacketsOf(frames))
  PROVE  \/ /\ DecodeStream(s, room, noise).outcome = "decoded"
            /\ DecodeStream(s, room, noise).pcm = FlattenSeq(frames)
         \/ /\ DecodeStream(s, room, noise).outcome = "failed"
            /\ \E i \in 1..Len(frames) : Len(frames[i]) > room
  <1> DEFINE N == Len(frames)
  <1>1. N \in Nat /\ Len(s.sizes) = N /\ PacketsOf(frames) \in Seq(Seq(Bytes))
        /\ Len(PacketsOf(frames)) = N
    BY StreamFacts, LenProperties
  <1>2. PICK g : Loop(g, s, room, noise, N + 1) /\ DecodeStream(s, room, noise) = g[N + 1]
    BY <1>1, DecodeStreamIsLoop
  <1>3. frames \in Seq(Seq(Int))
    <2>1. Frames \subseteq Seq(Int)
      BY CodeFacts
    <2> QED
      BY <2>1
  <1>4. /\ Until(frames, 0) = <<>> /\ Until(frames, N) = FlattenSeq(frames)
        /\ Until(PacketsOf(frames), 0) = <<>>
        /\ Until(PacketsOf(frames), N) = FlattenSeq(PacketsOf(frames))
    BY <1>1, <1>3, UntilEnds
  <1> HIDE DEF N
  <1>5. g[0] = Start
    BY <1>1, <1>2 DEF Loop
  <1>6. ASSUME NEW n \in Nat, n <= N PROVE g[n + 1] = DecodeRound(s, room, noise, g[n], n + 1)
    <2>1. n + 1 \in 0..(N + 1) /\ n + 1 # 0 /\ (n + 1) - 1 = n
      BY <1>1, <1>6
    <2> QED
      BY <1>2, <2>1 DEF Loop
  <1>7. DecodedUntil(g[N], frames, room, N)
    <2> DEFINE T == {n \in Nat : n <= N => DecodedUntil(g[n], frames, room, n)}
    <2>1. 0 \in T
      BY <1>4, <1>5 DEF Start, DecodedUntil
    <2>2. ASSUME NEW n \in Nat, n \in T PROVE n + 1 \in T
      <3> SUFFICES ASSUME n + 1 <= N PROVE DecodedUntil(g[n + 1], frames, room, n + 1)
        OBVIOUS
      <3>1. n <= N /\ n < N
        BY <1>1
      <3>2. DecodedUntil(g[n], frames, room, n)
        BY <2>2, <3>1
      <3>3. g[n + 1] = DecodeRound(s, room, noise, g[n], n + 1)
        BY <1>6, <3>1
      <3>4. DecodedUntil(DecodeRound(s, room, noise, g[n], n + 1), frames, room, n + 1)
        BY <3>1, <3>2, DecodeNext DEF N
      <3> QED
        BY <3>3, <3>4
    <2>3. N \in T
      <3> HIDE DEF T
      <3> QED
        BY <1>1, <2>1, <2>2, Counting
    <2> QED
      BY <1>1, <2>3
  <1>8. g[N + 1] = g[N]
    <2>1. g[N + 1] = DecodeRound(s, room, noise, g[N], N + 1)
      BY <1>1, <1>6
    <2>2. g[N].outcome # "decoded" \/ g[N].offset = Len(s.bytes)
      BY <1>4, <1>7 DEF DecodedUntil
    <2> QED
      BY <2>1, <2>2 DEF DecodeRound
  <1> QED
    BY <1>2, <1>4, <1>7, <1>8 DEF DecodedUntil, N

LEMMA MaxOfTwo ==
  \A a, b \in Int : Max({a, b}) \in {a, b} /\ Max({a, b}) >= a /\ Max({a, b}) >= b
  <1> SUFFICES ASSUME NEW a \in Int, NEW b \in Int
               PROVE  Max({a, b}) \in {a, b} /\ Max({a, b}) >= a /\ Max({a, b}) >= b
    OBVIOUS
  <1>1. \E x \in {a, b} : \A y \in {a, b} : x >= y
    OBVIOUS
  <1>2. Max({a, b}) \in {a, b} /\ \A y \in {a, b} : Max({a, b}) >= y
    BY <1>1 DEF Max
  <1> QED
    BY <1>2

-----------------------------------------------------------------------------
(* What EncodeStream adds.                                                 *)

LEMMA FrameLength ==
  ASSUME NEW s \in Seq(Int), NEW k \in Nat, NEW l \in Nat
  PROVE  Len(SubSeq(s, k + 1, k + l)) = l
  OBVIOUS

LEMMA FramesFacts ==
  ASSUME NEW pcm \in Recordings, NEW size \in FrameSizes
  PROVE  /\ FramesOf(pcm, size) \in Seq(Frames)
         /\ \A i \in 1..Len(FramesOf(pcm, size)) : Len(FramesOf(pcm, size)[i]) = size
         /\ MaxCalls * Len(FramesOf(pcm, size)) <= MaxCount
  <1> DEFINE rest == (size - (Len(pcm) % size)) % size
             padded == pcm \o Silence(rest)
             k == Len(padded) \div size
             f == FramesOf(pcm, size)
  <1>1. size \in Nat /\ size > 0
    BY SizeAssumption
  <1>2. pcm \in Seq(Int) /\ Len(pcm) \in Nat
    BY RecordingAssumption, LenProperties
  <1>3. rest \in Nat
    <2> DEFINE r == Len(pcm) % size
               q == size - r
    <2>1. r \in Int
      BY <1>1, <1>2
    <2> HIDE DEF r
    <2>2. q \in Int
      BY <1>1, <2>1
    <2> HIDE DEF q
    <2>3. q % size \in Nat
      BY <1>1, <2>2
    <2> QED
      BY <2>3 DEF q, r
  <1>4. padded \in Seq(Int) /\ Len(padded) \in Nat
    <2> HIDE DEF rest
    <2>1. Silence(rest) \in Seq(Int)
      BY <1>3 DEF Silence
    <2> QED
      BY <1>2, <2>1, ConcatProperties, LenProperties
  <1> HIDE DEF padded
  <1>5. k \in Nat
    BY <1>1, <1>4
  <1> HIDE DEF k
  <1>6. f = [i \in 1..k |-> SubSeq(padded, (i - 1) * size + 1, i * size)]
    BY DEF FramesOf, k, padded
  <1>7. DOMAIN f = 1..k /\ f = [i \in 1..k |-> f[i]]
    BY <1>6
  <1>8. \A i \in 1..k : f[i] \in Frames
    <2>1. Range(f) \subseteq Frames
      BY RecordingAssumption DEF Frames
    <2> HIDE DEF f
    <2> QED
      BY <1>7, <2>1 DEF Range
  <1>9. \A i \in 1..k : Len(f[i]) = size
    <2> TAKE i \in 1..k
    <2>1. f[i] = SubSeq(padded, (i - 1) * size + 1, i * size)
      BY <1>6
    <2> DEFINE m == (i - 1) * size
    <2>2. m \in Nat /\ i * size = m + size
      BY <1>1, <1>5
    <2> HIDE DEF m, f
    <2>3. f[i] = SubSeq(padded, m + 1, m + size)
      BY <2>1, <2>2 DEF m
    <2>4. Len(SubSeq(padded, m + 1, m + size)) = size
      BY <1>1, <1>4, <2>2, FrameLength
    <2> QED
      BY <2>3, <2>4
  <1> HIDE DEF f
  <1>10. f \in [1..k -> Frames]
    BY <1>7, <1>8
  <1>11. f \in Seq(Frames) /\ Len(f) = k
    BY <1>5, <1>10, IsASeq, LenProperties
  <1>12. MaxCalls * Len(f) <= MaxCount
    BY RecordingAssumption DEF f
  <1> QED
    BY <1>9, <1>11, <1>12 DEF f

LEMMA StreamOfConcat ==
  ASSUME NEW a \in Seq(Frames), NEW b \in Seq(Frames)
  PROVE  /\ PacketsOf(a \o b) = PacketsOf(a) \o PacketsOf(b)
         /\ SizesOf(a \o b) = SizesOf(a) \o SizesOf(b)
         /\ FlattenSeq(PacketsOf(a \o b)) = FlattenSeq(PacketsOf(a)) \o FlattenSeq(PacketsOf(b))
  <1> DEFINE c == a \o b
             p == PacketsOf(c)
             q == PacketsOf(a) \o PacketsOf(b)
             y == SizesOf(c)
             z == SizesOf(a) \o SizesOf(b)
             k == Len(a)
             l == Len(b)
  <1>1. k \in Nat /\ l \in Nat
    BY LenProperties
  <1>2. /\ c \in Seq(Frames) /\ Len(c) = k + l
        /\ \A i \in 1..k : c[i] = a[i]
        /\ \A i \in 1..l : c[k + i] = b[i]
    BY ConcatPlaces
  <1> HIDE DEF c
  <1>3. /\ p \in Seq(Seq(Bytes)) /\ Len(p) = k + l /\ y \in Seq(Nat) /\ Len(y) = k + l
        /\ \A i \in 1..(k + l) : p[i] = Code[c[i]] /\ y[i] = Len(Code[c[i]])
    <2>1. c \in Seq(Frames)
      BY <1>2
    <2>2. /\ p \in Seq(Seq(Bytes)) /\ Len(p) = Len(c) /\ y \in Seq(Nat) /\ Len(y) = Len(c)
          /\ \A i \in 1..Len(c) : p[i] = Code[c[i]] /\ y[i] = Len(Code[c[i]])
      BY <2>1, StreamFacts
    <2> QED
      BY <1>2, <2>2
  <1> DEFINE pa == PacketsOf(a)
             pb == PacketsOf(b)
             ya == SizesOf(a)
             yb == SizesOf(b)
  <1>4. /\ pa \in Seq(Seq(Bytes)) /\ Len(pa) = k /\ ya \in Seq(Nat) /\ Len(ya) = k
        /\ \A i \in 1..k : pa[i] = Code[a[i]] /\ ya[i] = Len(Code[a[i]])
    BY StreamFacts
  <1>5. /\ pb \in Seq(Seq(Bytes)) /\ Len(pb) = l /\ yb \in Seq(Nat) /\ Len(yb) = l
        /\ \A i \in 1..l : pb[i] = Code[b[i]] /\ yb[i] = Len(Code[b[i]])
    BY StreamFacts
  <1>6. q = pa \o pb /\ z = ya \o yb
    OBVIOUS
  <1> HIDE DEF p, q, y, z, pa, pb, ya, yb, k, l
  <1>7. /\ q \in Seq(Seq(Bytes)) /\ Len(q) = k + l
        /\ \A i \in 1..k : q[i] = pa[i]
        /\ \A i \in 1..l : q[k + i] = pb[i]
    <2>1. pa \in Seq(Seq(Bytes)) /\ pb \in Seq(Seq(Bytes))
      BY <1>4, <1>5
    <2>2. /\ q \in Seq(Seq(Bytes)) /\ Len(q) = Len(pa) + Len(pb)
          /\ \A i \in 1..Len(pa) : q[i] = pa[i]
          /\ \A i \in 1..Len(pb) : q[Len(pa) + i] = pb[i]
      BY <1>6, <2>1, ConcatPlaces
    <2>3. Len(pa) = k /\ Len(pb) = l
      BY <1>4, <1>5
    <2> QED
      BY <2>2, <2>3
  <1>8. /\ z \in Seq(Nat) /\ Len(z) = k + l
        /\ \A i \in 1..k : z[i] = ya[i]
        /\ \A i \in 1..l : z[k + i] = yb[i]
    <2>1. ya \in Seq(Nat) /\ yb \in Seq(Nat)
      BY <1>4, <1>5
    <2>2. /\ z \in Seq(Nat) /\ Len(z) = Len(ya) + Len(yb)
          /\ \A i \in 1..Len(ya) : z[i] = ya[i]
          /\ \A i \in 1..Len(yb) : z[Len(ya) + i] = yb[i]
      BY <1>6, <2>1, ConcatPlaces
    <2>3. Len(ya) = k /\ Len(yb) = l
      BY <1>4, <1>5
    <2> QED
      BY <2>2, <2>3
  <1>9. ASSUME NEW i \in 1..(k + l) PROVE p[i] = q[i] /\ y[i] = z[i]
    <2>1. CASE i <= k
      <3>1. i \in 1..k
        BY <1>1, <2>1
      <3>2. c[i] = a[i] /\ q[i] = pa[i] /\ z[i] = ya[i]
        BY <1>2, <1>7, <1>8, <3>1
      <3>3. p[i] = Code[c[i]] /\ y[i] = Len(Code[c[i]])
        BY <1>3
      <3>4. pa[i] = Code[a[i]] /\ ya[i] = Len(Code[a[i]])
        BY <1>4, <3>1
      <3> QED
        BY <3>2, <3>3, <3>4
    <2>2. CASE i > k
      <3> DEFINE j == i - k
      <3>1. j \in 1..l /\ k + j = i
        BY <1>1, <2>2
      <3> HIDE DEF j
      <3>2. c[i] = b[j] /\ q[i] = pb[j] /\ z[i] = yb[j]
        BY <1>2, <1>7, <1>8, <3>1
      <3>3. p[i] = Code[c[i]] /\ y[i] = Len(Code[c[i]])
        BY <1>3
      <3>4. pb[j] = Code[b[j]] /\ yb[j] = Len(Code[b[j]])
        BY <1>5, <3>1
      <3> QED
        BY <3>2, <3>3, <3>4
    <2> QED
      BY <1>1, <2>1, <2>2
  <1>10. p = q
    <2>1. /\ p \in Seq(Seq(Bytes)) /\ q \in Seq(Seq(Bytes)) /\ Len(p) = Len(q)
          /\ \A i \in 1..Len(p) : p[i] = q[i]
      BY <1>3, <1>7, <1>9
    <2> QED
      BY <2>1, SeqEqual
  <1>11. y = z
    BY <1>3, <1>8, <1>9, SeqEqual
  <1>12. FlattenSeq(q) = FlattenSeq(pa) \o FlattenSeq(pb)
    BY <1>4, <1>5, <1>6, FlattenConcat
  <1> QED
    BY <1>10, <1>11, <1>12 DEF c, p, q, y, z, pa, pb

\* What a call of EncodeStream may add, so that an int32 counts the frames of all calls.
Share == MaxCount \div MaxCalls

LEMMA ShareFacts ==
  /\ Share \in Nat /\ MaxCalls \in Nat /\ MaxCount \in Nat
  /\ MaxCalls * Share <= MaxCount
  /\ \A l \in Nat : MaxCalls * l <= MaxCount => l <= Share
  <1> DEFINE m == MaxCalls
             x == MaxCount
             q == x \div m
  <1>1. m \in Nat /\ m > 0 /\ x \in Nat
    BY SizeAssumption DEF MaxCount
  <1> HIDE DEF m, x
  <1>2. q \in Nat /\ m * q <= x /\ x < m * q + m
    BY <1>1
  <1> HIDE DEF q
  <1>3. ASSUME NEW l \in Nat, m * l <= x PROVE l <= q
    <2> SUFFICES ASSUME l >= q + 1 PROVE FALSE
      BY <1>2
    <2>1. m * l >= m * (q + 1)
      BY <1>1, <1>2
    <2>2. m * (q + 1) = m * q + m
      BY <1>1, <1>2
    <2>3. m * l \in Nat /\ m * q \in Nat
      BY <1>1, <1>2
    <2> QED
      BY <1>1, <1>2, <1>3, <2>1, <2>2, <2>3
  <1>4. q = Share
    BY DEF q, m, x, Share
  <1> QED
    BY <1>1, <1>2, <1>3, <1>4 DEF m, x

LEMMA CountBound ==
  ASSUME NEW a \in Nat, NEW n \in Nat, NEW c \in Nat, NEW l \in Nat,
         a <= c * Share, MaxCalls * l <= MaxCount, n <= l
  PROVE  a + n <= (c + 1) * Share
  <1>1. Share \in Nat /\ l <= Share
    BY ShareFacts
  <1> DEFINE d == c * Share
  <1>2. d \in Nat /\ (c + 1) * Share = d + Share
    BY <1>1
  <1> HIDE DEF d
  <1>3. a <= d
    BY DEF d
  <1> QED
    BY <1>1, <1>2, <1>3

LEMMA CountFits ==
  ASSUME NEW a \in Nat, NEW c \in Nat, c <= MaxCalls, a <= c * Share
  PROVE  a <= MaxCount
  <1>1. /\ Share \in Nat /\ MaxCalls \in Nat /\ MaxCount \in Nat
        /\ MaxCalls * Share <= MaxCount
    BY ShareFacts
  <1>2. c * Share <= MaxCalls * Share
    BY <1>1
  <1>3. c * Share \in Nat /\ MaxCalls * Share \in Nat
    BY <1>1
  <1> QED
    BY <1>1, <1>2, <1>3

-----------------------------------------------------------------------------
(* The inductive invariant.                                                *)

\* The stream is that of what was said, and an int32 counts its packets.
Recorded ==
    /\ frameSize \in [{"sender", "receiver"} -> FrameSizes]
    /\ said \in Seq(Frames) /\ stream = StreamOf(said)
    /\ calls \in 0..MaxCalls /\ Len(said) <= calls * Share
    /\ longest \in Nat /\ \A i \in 1..Len(said) : Len(said[i]) <= longest

Sent ==
    /\ payload \in Seq(Bytes) /\ damaged \in BOOLEAN
    /\ outcome \in {"none", "failed", "decoded"}
    /\ payload = <<>> => outcome = "none"
    /\ payload # <<>> => payload = SerializeMinimal(stream) \/ damaged

VoiceInv == Recorded /\ Sent /\ VoiceArrives

\* What came is refused, or a stream.
LEMMA DeserializeType ==
  ASSUME NEW b \in Seq(Bytes), DeserializeMinimal(b).ok
  PROVE  DeserializeMinimal(b) \in Streams
  <1> DEFINE count == Int32(b[1], b[2], b[3], b[4])
             s == DeserializeMinimal(b)
  <1>1. ~(Len(b) < 4)
    BY DEF DeserializeMinimal, Refused
  <1>2. Len(b) \in Nat /\ Bytes \subseteq Int
    BY LenProperties DEF Bytes
  <1>3. \A i \in 1..Len(b) : b[i] \in Int
    BY <1>2, ElementOfSeq
  <1>4. \A x, y \in Int : Int16(x, y) \in Int
    BY DEF Int16, Signed
  <1>5. count \in Int
    <2>1. 1 \in 1..Len(b) /\ 2 \in 1..Len(b) /\ 3 \in 1..Len(b) /\ 4 \in 1..Len(b)
      BY <1>1, <1>2
    <2>2. b[1] \in Int /\ b[2] \in Int /\ b[3] \in Int /\ b[4] \in Int
      BY <1>3, <2>1
    <2>3. \A x \in Int : Signed(x) \in Int
      BY DEF Signed
    <2>4. \A x, y, z, u \in Int : Int32(x, y, z, u) \in Int
      <3> SUFFICES ASSUME NEW x \in Int, NEW y \in Int, NEW z \in Int, NEW u \in Int
                   PROVE  Int32(x, y, z, u) \in Int
        OBVIOUS
      <3> DEFINE e == Signed(u)
      <3>1. e \in Int
        BY <2>3
      <3> HIDE DEF e
      <3>2. x + 256 * (y + 256 * (z + 256 * e)) \in Int
        BY <3>1
      <3> QED
        BY <3>2 DEF Int32, e
    <2> QED
      BY <2>2, <2>4
  <1> DEFINE t == [ok |-> TRUE,
                   sizes |-> [i \in 1..count |-> Int16(b[3 + 2 * i], b[4 + 2 * i])],
                   bytes |-> SubSeq(b, 5 + 2 * count, Len(b))]
  <1>6. s = IF count < 0 \/ count > (Len(b) - 4) \div 2 THEN Refused ELSE t
    BY <1>1 DEF DeserializeMinimal
  <1> HIDE DEF count, s, t
  <1>7. s.ok
    BY DEF s
  <1>8. ~(count < 0 \/ count > (Len(b) - 4) \div 2) /\ s = t
    BY <1>6, <1>7 DEF Refused
  <1>9. count \in Nat /\ 4 + 2 * count <= Len(b)
    BY <1>1, <1>2, <1>5, <1>8
  <1>10. [i \in 1..count |-> Int16(b[3 + 2 * i], b[4 + 2 * i])] \in Seq(Int)
    <2>1. ASSUME NEW i \in 1..count PROVE Int16(b[3 + 2 * i], b[4 + 2 * i]) \in Int
      <3>1. 3 + 2 * i \in 1..Len(b) /\ 4 + 2 * i \in 1..Len(b)
        BY <1>2, <1>9
      <3>2. b[3 + 2 * i] \in Int /\ b[4 + 2 * i] \in Int
        BY <1>3, <3>1
      <3> QED
        BY <1>4, <3>2
    <2> QED
      BY <1>9, <2>1, IsASeq
  <1>11. SubSeq(b, 5 + 2 * count, Len(b)) \in Seq(Int)
    <2>1. b \in Seq(Int)
      <3>1. b \in [1..Len(b) -> Int]
        BY <1>3, LenProperties
      <3> QED
        BY <1>2, <3>1, IsASeq
    <2> DEFINE k == 5 + 2 * count
    <2>2. k \in Int /\ k >= 1
      BY <1>9
    <2> HIDE DEF k
    <2>3. SubSeq(b, k, Len(b)) \in Seq(Int)
      BY <1>2, <2>1, <2>2
    <2> QED
      BY <2>3 DEF k
  <1> QED
    BY <1>8, <1>10, <1>11 DEF s, t, Streams

-----------------------------------------------------------------------------
(* It is inductive.                                                        *)

\* What was said arrives as the stream of what was said.
LEMMA StreamSent ==
  ASSUME Recorded
  PROVE  /\ SerializeMinimal(stream) \in Seq(Bytes) /\ SerializeMinimal(stream) # <<>>
         /\ DeserializeMinimal(SerializeMinimal(stream)).ok
         /\ DeserializeMinimal(SerializeMinimal(stream)).sizes = SizesOf(said)
         /\ DeserializeMinimal(SerializeMinimal(stream)).bytes = FlattenSeq(PacketsOf(said))
  <1>1. said \in Seq(Frames) /\ stream = StreamOf(said)
    BY DEF Recorded
  <1>2. stream.sizes = SizesOf(said) /\ stream.bytes = FlattenSeq(PacketsOf(said))
    BY <1>1 DEF StreamOf
  <1>3. /\ stream.sizes \in Seq(Nat) /\ stream.bytes \in Seq(Bytes)
        /\ Len(stream.sizes) = Len(said)
        /\ \A i \in 1..Len(said) : stream.sizes[i] = Len(Code[said[i]]) /\ said[i] \in Frames
    BY <1>1, <1>2, StreamFacts
  <1>4. Counted(stream.sizes)
    <2>1. \A i \in 1..Len(stream.sizes) : stream.sizes[i] <= 32767
      BY <1>3, CodeFacts
    <2>2. Len(stream.sizes) <= MaxCount
      <3>1. Len(said) \in Nat /\ calls \in Nat /\ calls <= MaxCalls /\ Len(said) <= calls * Share
        BY <1>1, LenProperties DEF Recorded
      <3> QED
        BY <1>3, <3>1, CountFits
    <2> QED
      BY <1>3, <2>1, <2>2 DEF Counted
  <1>5. /\ SerializeMinimal(stream) \in Seq(Bytes) /\ SerializeMinimal(stream) # <<>>
        /\ DeserializeMinimal(SerializeMinimal(stream)) =
               [ok |-> TRUE, sizes |-> stream.sizes, bytes |-> stream.bytes]
    BY <1>3, <1>4, RoundTripStream
  <1> QED
    BY <1>2, <1>5

LEMMA VoiceInitial == VoiceInit => VoiceInv
  <1> SUFFICES ASSUME VoiceInit PROVE VoiceInv
    OBVIOUS
  <1> USE DEF VoiceInit
  <1>1. StreamOf(<<>>) = [sizes |-> <<>>, bytes |-> <<>>]
    <2>1. PacketsOf(<<>>) = <<>> /\ SizesOf(<<>>) = <<>>
      BY DEF PacketsOf, SizesOf
    <2> QED
      BY <2>1, FlattenEmpty DEF StreamOf
  <1>2. Recorded
    <2>1. Share \in Nat /\ MaxCalls \in Nat
      BY ShareFacts
    <2> QED
      BY <1>1, <2>1 DEF Recorded
  <1>3. Sent
    <2>1. damaged = FALSE /\ outcome = "none" /\ payload = <<>>
      OBVIOUS
    <2>2. payload \in Seq(Bytes) /\ damaged \in BOOLEAN
      BY <2>1, EmptySeq
    <2> HIDE DEF VoiceInit
    <2> QED
      BY <2>1, <2>2 DEF Sent
  <1>4. VoiceArrives
    BY DEF VoiceArrives
  <1> QED
    BY <1>2, <1>3, <1>4 DEF VoiceInv

\* A coder is set before anything is decoded.
LEMMA CoderStep ==
  ASSUME VoiceInv, NEW end \in {"sender", "receiver"}, NEW size \in FrameSizes,
         SetFrameSizeMs(end, size) \/ \E r \in Rates : SetSampleRate(end, r, size)
  PROVE  VoiceInv'
  <1>1. /\ outcome = "none" /\ frameSize' = [frameSize EXCEPT ![end] = size]
        /\ stream' = stream /\ said' = said /\ longest' = longest /\ calls' = calls
        /\ payload' = payload /\ damaged' = damaged /\ outcome' = outcome
    BY DEF SetFrameSizeMs, SetSampleRate, wireVars
  <1>2. Recorded'
    BY <1>1 DEF VoiceInv, Recorded
  <1>3. Sent'
    BY <1>1 DEF VoiceInv, Sent
  <1>4. VoiceArrives'
    BY <1>1 DEF VoiceArrives
  <1> QED
    BY <1>2, <1>3, <1>4 DEF VoiceInv

LEMMA SendsStep ==
  ASSUME VoiceInv, Sends
  PROVE  VoiceInv'
  <1> USE DEF Sends, wireVars, coders
  <1>1. outcome = "none"
    BY DEF VoiceInv, Sent
  <1>2. Recorded'
    BY DEF VoiceInv, Recorded
  <1>3. SerializeMinimal(stream) \in Seq(Bytes) /\ SerializeMinimal(stream) # <<>>
    BY StreamSent DEF VoiceInv
  <1>4. Sent'
    BY <1>3 DEF VoiceInv, Sent
  <1>5. VoiceArrives'
    BY <1>1 DEF VoiceArrives
  <1> QED
    BY <1>2, <1>4, <1>5 DEF VoiceInv

LEMMA DamageStep ==
  ASSUME VoiceInv, Damage
  PROVE  VoiceInv'
  <1> USE DEF Damage, wireVars, coders
  <1>1. outcome = "none"
    OBVIOUS
  <1>2. Recorded'
    BY DEF VoiceInv, Recorded
  <1>3. payload \in Seq(Bytes) /\ Len(payload) \in Nat /\ payload # <<>>
    BY LenProperties DEF VoiceInv, Sent
  <1>4. payload' \in Seq(Bytes) /\ payload' # <<>>
    <2>1. ASSUME NEW n \in 1..(Len(payload) - 1), payload' = SubSeq(payload, 1, n)
          PROVE  payload' \in Seq(Bytes) /\ payload' # <<>>
      BY <1>3, <2>1
    <2>2. ASSUME NEW i \in 1..(4 + 2 * Len(stream.sizes)), NEW b \in Tampers,
                 payload' = [payload EXCEPT ![i] = b]
          PROVE  payload' \in Seq(Bytes) /\ payload' # <<>>
      <3>1. b \in Bytes
        BY TamperAssumption
      <3>2. payload \in [1..Len(payload) -> Bytes]
        BY <1>3, LenProperties
      <3>3. payload' \in [1..Len(payload) -> Bytes]
        BY <2>2, <3>1, <3>2
      <3>4. payload' \in Seq(Bytes) /\ Len(payload') = Len(payload)
        BY <1>3, <3>3, IsASeq, LenProperties
      <3>5. Len(payload) # 0
        BY <1>3, EmptySeq
      <3> QED
        BY <3>4, <3>5
    <2> QED
      BY <2>1, <2>2
  <1>5. Sent'
    BY <1>4 DEF VoiceInv, Sent
  <1>6. VoiceArrives'
    BY <1>1 DEF VoiceArrives
  <1> QED
    BY <1>2, <1>5, <1>6 DEF VoiceInv

LEMMA EncodeStreamStep ==
  ASSUME VoiceInv, NEW pcm \in Recordings, EncodeStream(pcm)
  PROVE  VoiceInv'
  <1> DEFINE size == frameSize["sender"]
             frames == FramesOf(pcm, size)
             encoded(n) == [i \in 1..n |-> Code[frames[i]]]
  <1>1. PICK n \in 0..Len(frames) :
            /\ stream' = [sizes |-> stream.sizes \o [i \in 1..n |-> Len(encoded(n)[i])],
                          bytes |-> stream.bytes \o FlattenSeq(encoded(n))]
            /\ said' = said \o SubSeq(frames, 1, n)
            /\ longest' = IF n = 0 THEN longest ELSE Max({longest, frameSize["sender"]})
    BY DEF EncodeStream
  <1>2. /\ payload = <<>> /\ calls < MaxCalls /\ calls' = calls + 1
        /\ frameSize' = frameSize /\ payload' = payload /\ damaged' = damaged /\ outcome' = outcome
    BY DEF EncodeStream, coders
  <1>3. Recorded /\ outcome = "none"
    BY <1>2 DEF VoiceInv, Sent
  <1>4. size \in FrameSizes /\ size \in Nat
    BY <1>3, SizeAssumption DEF Recorded
  <1>5. /\ frames \in Seq(Frames) /\ Len(frames) \in Nat
        /\ \A i \in 1..Len(frames) : Len(frames[i]) = size
        /\ MaxCalls * Len(frames) <= MaxCount
    BY <1>4, FramesFacts, LenProperties
  <1> DEFINE more == SubSeq(frames, 1, n)
             all == Len(frames)
  <1> HIDE DEF frames, size
  <1>6. n \in Nat /\ n <= all
    BY <1>5
  <1>7. /\ more \in Seq(Frames) /\ Len(more) = n
        /\ \A i \in 1..n : more[i] = frames[i]
    <2>1. /\ SubSeq(frames, 0 + 1, 0 + n) \in Seq(Frames) /\ Len(SubSeq(frames, 0 + 1, 0 + n)) = n
          /\ \A i \in 1..n : SubSeq(frames, 0 + 1, 0 + n)[i] = frames[0 + i]
      BY <1>5, <1>6, SubSeqPlaces
    <2>2. SubSeq(frames, 0 + 1, 0 + n) = more
      BY <1>6
    <2>3. \A i \in 1..n : frames[0 + i] = frames[i]
      BY <1>6
    <2> QED
      BY <2>1, <2>2, <2>3
  <1>8. /\ encoded(n) = PacketsOf(more)
        /\ [i \in 1..n |-> Len(encoded(n)[i])] = SizesOf(more)
    BY <1>7 DEF PacketsOf, SizesOf
  <1> HIDE DEF more, encoded, all
  <1>9. said \in Seq(Frames) /\ Len(said) \in Nat /\ stream = StreamOf(said)
    BY <1>3, LenProperties DEF Recorded
  <1>10. /\ said' = said \o more /\ said' \in Seq(Frames) /\ Len(said') = Len(said) + n
         /\ \A i \in 1..Len(said) : said'[i] = said[i]
         /\ \A i \in 1..n : said'[Len(said) + i] = more[i]
    <2>1. said' = said \o more
      BY <1>1 DEF more
    <2>2. said \in Seq(Frames) /\ more \in Seq(Frames)
      BY <1>7, <1>9
    <2>3. /\ said \o more \in Seq(Frames) /\ Len(said \o more) = Len(said) + Len(more)
          /\ \A i \in 1..Len(said) : (said \o more)[i] = said[i]
          /\ \A i \in 1..Len(more) : (said \o more)[Len(said) + i] = more[i]
      BY <2>2, ConcatPlaces
    <2> QED
      BY <1>7, <2>1, <2>3
  <1>11. stream' = StreamOf(said')
    <2>1. stream' = [sizes |-> SizesOf(said) \o SizesOf(more),
                     bytes |-> FlattenSeq(PacketsOf(said)) \o FlattenSeq(PacketsOf(more))]
      BY <1>1, <1>8, <1>9 DEF StreamOf
    <2>2. /\ SizesOf(said \o more) = SizesOf(said) \o SizesOf(more)
          /\ FlattenSeq(PacketsOf(said \o more)) =
                 FlattenSeq(PacketsOf(said)) \o FlattenSeq(PacketsOf(more))
      BY <1>7, <1>9, StreamOfConcat
    <2> QED
      BY <1>10, <2>1, <2>2 DEF StreamOf
  <1>12. Len(said') <= calls' * Share /\ calls' \in 0..MaxCalls
    <2>1. calls \in Nat /\ Len(said) <= calls * Share /\ MaxCalls \in Nat
      BY <1>3, ShareFacts DEF Recorded
    <2>2. all \in Nat /\ MaxCalls * all <= MaxCount
      BY <1>5 DEF all
    <2>3. Len(said) + n <= (calls + 1) * Share
      BY <1>6, <1>9, <2>1, <2>2, CountBound
    <2> QED
      BY <1>2, <1>10, <2>1, <2>3
  <1>13. longest' \in Nat /\ \A i \in 1..Len(said') : Len(said'[i]) <= longest'
    <2>1. longest \in Nat /\ \A i \in 1..Len(said) : Len(said[i]) <= longest
      BY <1>3 DEF Recorded
    <2>2. \A i \in 1..n : Len(more[i]) = size
      BY <1>5, <1>6, <1>7 DEF all
    <2>3. longest' \in Nat /\ longest' >= longest /\ (n > 0 => longest' >= size)
      <3> DEFINE m == Max({longest, size})
      <3>1. m \in {longest, size} /\ m >= longest /\ m >= size
        <4>1. longest \in Int /\ size \in Int
          BY <1>4, <2>1
        <4>2. \A a, b \in Int : Max({a, b}) \in {a, b} /\ Max({a, b}) >= a /\ Max({a, b}) >= b
          BY MaxOfTwo
        <4> QED
          BY <4>1, <4>2
      <3>2. longest' = IF n = 0 THEN longest ELSE m
        BY <1>1 DEF size
      <3> HIDE DEF m
      <3> QED
        BY <1>4, <1>6, <2>1, <3>1, <3>2
    <2>4. ASSUME NEW i \in 1..Len(said') PROVE Len(said'[i]) <= longest'
      <3>1. CASE i <= Len(said)
        <4>1. i \in 1..Len(said)
          BY <1>9, <3>1
        <4>2. said'[i] = said[i] /\ Len(said[i]) <= longest
          BY <1>10, <2>1, <4>1
        <4>3. Len(said[i]) \in Nat
          BY <1>9, <4>1, ElementOfSeq, CodeFacts, LenProperties
        <4> QED
          BY <2>1, <2>3, <4>2, <4>3
      <3>2. CASE i > Len(said)
        <4> DEFINE j == i - Len(said)
        <4>1. j \in 1..n /\ Len(said) + j = i
          BY <1>6, <1>9, <1>10, <3>2
        <4> HIDE DEF j
        <4>2. said'[i] = more[j] /\ Len(more[j]) = size
          BY <1>10, <2>2, <4>1
        <4> QED
          BY <1>6, <2>3, <4>1, <4>2
      <3> QED
        BY <1>6, <1>9, <1>10, <3>1, <3>2
    <2> QED
      BY <2>3, <2>4
  <1>14. Recorded'
    BY <1>2, <1>3, <1>10, <1>11, <1>12, <1>13 DEF Recorded
  <1>15. Sent'
    BY <1>2 DEF VoiceInv, Sent
  <1>16. VoiceArrives'
    BY <1>2, <1>3 DEF VoiceArrives
  <1> QED
    BY <1>14, <1>15, <1>16 DEF VoiceInv

\* What is made of a stream is its samples, unless the rates differ, or an error.
LEMMA DecodesType ==
  ASSUME NEW b \in Seq(Bytes), NEW noise, NEW result \in DecodeResults(DeserializeMinimal(b), noise),
         frameSize["receiver"] \in Nat
  PROVE  result.outcome \in {"decoded", "failed"}
  <1> DEFINE s == DeserializeMinimal(b)
             room == frameSize["receiver"]
  <1>1. Failed.outcome = "failed" /\ PcmOf(Silence(room)).outcome = "decoded"
    BY DEF Failed, PcmOf
  <1>2. CASE result \in {Failed, PcmOf(Silence(room))}
    BY <1>1, <1>2
  <1>3. CASE s.ok /\ result.outcome = DecodeStream(s, room, noise).outcome
    <2>1. s \in Streams
      BY <1>3, DeserializeType
    <2> HIDE DEF s, room
    <2>2. room \in Nat
      BY DEF room
    <2> QED
      BY <1>3, <2>1, <2>2, DecodeStreamType
  <1> QED
    BY <1>2, <1>3 DEF DecodeResults

LEMMA DecodesSaid ==
  ASSUME Recorded, payload = SerializeMinimal(stream), SameRate, rate["receiver"] \in OpusRates,
         NEW noise, NEW result \in DecodeResults(DeserializeMinimal(payload), noise)
  PROVE  \/ result.outcome = "decoded" /\ result.pcm = FlattenSeq(said)
         \/ result.outcome = "failed" /\ longest > frameSize["receiver"]
  <1> DEFINE s == DeserializeMinimal(payload)
             room == frameSize["receiver"]
             done == DecodeStream(s, room, noise)
  <1>1. s.ok /\ s.sizes = SizesOf(said) /\ s.bytes = FlattenSeq(PacketsOf(said))
    BY StreamSent
  <1>2. result = [outcome |-> done.outcome, pcm |-> done.pcm]
    BY <1>1 DEF DecodeResults
  <1>3. said \in Seq(Frames) /\ room \in Nat
    BY SizeAssumption DEF Recorded
  <1> HIDE DEF s, room
  <1>4. \/ done.outcome = "decoded" /\ done.pcm = FlattenSeq(said)
        \/ done.outcome = "failed" /\ \E i \in 1..Len(said) : Len(said[i]) > room
    BY <1>1, <1>3, DecodeStreamOf
  <1>5. (\E i \in 1..Len(said) : Len(said[i]) > room) => longest > room
    <2> SUFFICES ASSUME NEW i \in 1..Len(said), Len(said[i]) > room PROVE longest > room
      OBVIOUS
    <2>1. longest \in Nat /\ Len(said[i]) <= longest
      BY DEF Recorded
    <2>2. Len(said[i]) \in Nat
      BY <1>3, ElementOfSeq, CodeFacts, LenProperties
    <2> QED
      BY <1>3, <2>1, <2>2
  <1> QED
    BY <1>2, <1>4, <1>5 DEF room

LEMMA OpusBytesToWavStep ==
  ASSUME VoiceInv, OpusBytesToWav
  PROVE  VoiceInv'
  <1>1. PICK noise \in BOOLEAN : \E result \in DecodeResults(DeserializeMinimal(payload), noise) :
            /\ outcome' = result.outcome
            /\ decoded' = IF result.outcome = "decoded" THEN result.pcm ELSE <<>>
    BY DEF OpusBytesToWav
  <1>2. PICK result \in DecodeResults(DeserializeMinimal(payload), noise) :
            /\ outcome' = result.outcome
            /\ decoded' = IF result.outcome = "decoded" THEN result.pcm ELSE <<>>
    BY <1>1
  <1>3. /\ payload # <<>>
        /\ frameSize' = frameSize /\ rate' = rate /\ stream' = stream /\ said' = said
        /\ longest' = longest /\ rates' = rates /\ calls' = calls
        /\ payload' = payload /\ damaged' = damaged
    BY DEF OpusBytesToWav, wireVars, coders
  <1>4. /\ Recorded /\ payload \in Seq(Bytes) /\ damaged \in BOOLEAN
        /\ payload = SerializeMinimal(stream) \/ damaged
        /\ frameSize["receiver"] \in Nat
    BY <1>3, SizeAssumption DEF VoiceInv, Sent, Recorded
  <1>5. result.outcome \in {"decoded", "failed"}
    BY <1>4, DecodesType
  <1>6. Recorded'
    BY <1>3, <1>4 DEF Recorded
  <1>7. Sent'
    BY <1>2, <1>3, <1>4, <1>5 DEF Sent
  <1>8. VoiceArrives'
    <2>1. SameRate' = SameRate
      BY <1>3 DEF SameRate
    <2>2. CASE damaged \/ ~SameRate
      BY <1>2, <1>3, <1>5, <2>1, <2>2 DEF VoiceArrives
    <2>3. CASE rate["receiver"] \notin OpusRates
      <3>1. result = Failed
        BY <2>3 DEF DecodeResults
      <3> QED
        BY <1>2, <1>3, <2>3, <3>1 DEF VoiceArrives, Failed
    <2>4. CASE ~damaged /\ SameRate /\ rate["receiver"] \in OpusRates
      <3>1. payload = SerializeMinimal(stream)
        BY <1>4, <2>4
      <3>2. \/ result.outcome = "decoded" /\ result.pcm = FlattenSeq(said)
            \/ result.outcome = "failed" /\ longest > frameSize["receiver"]
        BY <1>4, <2>4, <3>1, DecodesSaid
      <3> QED
        BY <1>2, <1>3, <3>2 DEF VoiceArrives
    <2> QED
      BY <2>2, <2>3, <2>4
  <1> QED
    BY <1>6, <1>7, <1>8 DEF VoiceInv

\* Whatever bytes came, DecodeStream decodes or refuses them: no size of theirs makes it
\* read a packet past their end (the check of sizes against CompressedBytes.Num()).
THEOREM NothingOverread ==
  \A b \in Seq(Bytes), room \in Nat, noise \in BOOLEAN :
      DeserializeMinimal(b).ok =>
          DecodeStream(DeserializeMinimal(b), room, noise).outcome \in {"decoded", "failed"}
  <1> SUFFICES ASSUME NEW b \in Seq(Bytes), NEW room \in Nat, NEW noise \in BOOLEAN,
                      DeserializeMinimal(b).ok
               PROVE  DecodeStream(DeserializeMinimal(b), room, noise).outcome \in {"decoded", "failed"}
    OBVIOUS
  <1>1. DeserializeMinimal(b) \in Streams
    BY DeserializeType
  <1> QED
    BY <1>1, DecodeStreamType

\* What was said is decoded, or refused where it must be, for all recordings, sizes of
\* frames, rates, codes and damage: the property of the same name (EncodeStream,
\* SerializeMinimal, DeserializeMinimal, DecodeStream, Conv_OpusBytesToWav).
THEOREM VoiceIsHeard == VoiceSpec => []VoiceArrives
  <1>1. VoiceInit => VoiceInv
    BY VoiceInitial
  <1>2. VoiceInv /\ [VoiceNext]_voiceVars => VoiceInv'
    <2> SUFFICES ASSUME VoiceInv, [VoiceNext]_voiceVars PROVE VoiceInv'
      OBVIOUS
    <2>1. CASE UNCHANGED voiceVars
      BY <2>1 DEF voiceVars, VoiceInv, Recorded, Sent, VoiceArrives, SameRate
    <2>2. CASE \E end \in {"sender", "receiver"}, size \in FrameSizes :
                  SetFrameSizeMs(end, size) \/ \E r \in Rates : SetSampleRate(end, r, size)
      BY <2>2, CoderStep
    <2>3. ASSUME NEW pcm \in Recordings, EncodeStream(pcm) PROVE VoiceInv'
      BY <2>3, EncodeStreamStep
    <2>4. CASE Sends
      BY <2>4, SendsStep
    <2>5. CASE Damage
      BY <2>5, DamageStep
    <2>6. CASE OpusBytesToWav
      BY <2>6, OpusBytesToWavStep
    <2> QED
      BY <2>1, <2>2, <2>3, <2>4, <2>5, <2>6 DEF VoiceNext
  <1>3. VoiceInv => VoiceArrives
    BY DEF VoiceInv
  <1> QED
    BY <1>1, <1>2, <1>3, PTL DEF VoiceSpec
=============================================================================
