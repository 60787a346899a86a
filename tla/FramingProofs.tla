---------------------------- MODULE FramingProofs ----------------------------
(***************************************************************************)
(* What holds of a direction of a connection for buffers and packets of    *)
(* any size: the partial line and what recv() may return next fit in the   *)
(* buffer that reassembles lines, however the stream was cut.              *)
(***************************************************************************)
EXTENDS Framing, TLAPS, SequenceTheorems, FiniteSetTheorems

(* What was sent and is not dispatched: from start on, lines to come.      *)
Stream == accum \o wire

(* No line of the stream is longer than a packet: every PacketSize - 1     *)
(* bytes of it have the end of one.                                        *)
LinesShort ==
  \A i \in start .. Len(Stream) - (PacketSize - 2) :
    \E j \in i .. i + PacketSize - 2 : Stream[j] = NL

(* The stream ends between two packets, or breaks.                         *)
EndsWithLine ==
  conn # "broken" =>
    Len(Stream) < start \/ Stream[Len(Stream)] = NL

(* Back in recv() there is part of a line, at the front.                   *)
Leftover ==
  pc = "recv" => start = 1 /\ Len(accum) <= PacketSize - 2

IInv == TypeOK /\ LinesShort /\ EndsWithLine /\ Leftover

-----------------------------------------------------------------------------
(* Every set of numbers with a member has a least one.                     *)
LEMMA NatMinimum ==
  ASSUME NEW P \in SUBSET Nat, P # {}
  PROVE  \E n \in P : \A m \in P : n <= m
<1>1. PICK n \in P : \A m \in P : <<m, n>> \notin OpToRel(<, Nat)
  BY NatLessThanWellFounded, WFMin, Zenon
<1>2. \A m \in P : ~(m < n)
  BY <1>1 DEF OpToRel
<1> QED
  BY <1>2

(* ... and, if it is bounded, a greatest one.                              *)
LEMMA NatMaximum ==
  ASSUME NEW n \in Nat, NEW P \in SUBSET (0 .. n), P # {}
  PROVE  /\ Max(P) \in P
         /\ \A m \in P : m <= Max(P)
<1> DEFINE Q == {n - m : m \in P}
<1>1. Q \in SUBSET Nat /\ Q # {}
  <2>1. \A m \in P : n - m \in Nat
    OBVIOUS
  <2> QED
    BY <2>1, Zenon
<1>2. PICK q \in Q : \A r \in Q : q <= r
  <2> HIDE DEF Q
  <2> QED
    BY <1>1, NatMinimum
<1>3. PICK m \in P : q = n - m
  BY <1>2
<1>4. ASSUME NEW k \in P PROVE m >= k
  <2>1. n - k \in Q
    BY Zenon
  <2> HIDE DEF Q
  <2>2. n - m <= n - k
    BY <1>2, <1>3, <2>1
  <2> QED
    BY <2>2
<1> QED
  BY <1>4 DEF Max

LEMMA MinimumOf ==
  ASSUME NEW P \in SUBSET Nat, P # {}
  PROVE  /\ Min(P) \in P
         /\ \A m \in P : Min(P) <= m
BY NatMinimum DEF Min

(* A set of numbers with 0, and with n + 1 if it has n, has all of them.   *)
LEMMA NatFromZero ==
  ASSUME NEW P, 0 \in P, \A n \in Nat : n \in P => n + 1 \in P
  PROVE  \A n \in Nat : n \in P
<1> SUFFICES ASSUME NEW k \in Nat, k \notin P PROVE FALSE
  OBVIOUS
<1>1. PICK n \in Nat \ P : \A m \in Nat \ P : n <= m
  <2>1. Nat \ P \in SUBSET Nat /\ Nat \ P # {}
    OBVIOUS
  <2> QED
    BY <2>1, NatMinimum
<1>2. n - 1 \in Nat /\ n - 1 \in P
  BY <1>1
<1> QED
  BY <1>1, <1>2

-----------------------------------------------------------------------------
(* The codec.                                                              *)

(* Strings over an alphabet are put together one after the other: the      *)
(* recursion of FlattenSeq has a solution, so its CHOOSE finds it.         *)
LEMMA FlattenSteps ==
  ASSUME NEW S, NEW strings \in Seq(Seq(S))
  PROVE  \E upto \in [0 .. Len(strings) -> Seq(S)] :
           /\ upto[0] = <<>>
           /\ \A i \in 1 .. Len(strings) : upto[i] = upto[i - 1] \o strings[i]
           /\ FlattenSeq(strings) = upto[Len(strings)]
<1> DEFINE n == Len(strings)
           Sol(f, m) == /\ f \in [1 .. m -> Seq(S)]
                        /\ \A i \in 1 .. m :
                             f[i] = IF i = 1 THEN strings[i]
                                             ELSE f[i - 1] \o strings[i]
           Body(f) == [i \in 1 .. n |-> IF i = 1 THEN strings[i]
                                                 ELSE f[i - 1] \o strings[i]]
           P == {m \in Nat : m <= n => \E f : Sol(f, m)}
<1>1. FlattenSeq(strings) = IF n = 0 THEN strings
                            ELSE (CHOOSE f : f = Body(f))[n]
  BY DEF FlattenSeq
<1>2. n \in Nat
  OBVIOUS
<1>3. 0 \in P
  <2>1. Sol([i \in 1 .. 0 |-> <<>>], 0)
    OBVIOUS
  <2> QED
    BY <2>1
<1>4. ASSUME NEW m \in Nat, m \in P PROVE m + 1 \in P
  <2> SUFFICES ASSUME m + 1 <= n PROVE \E f : Sol(f, m + 1)
    <3> HIDE DEF Sol
    <3>1. m + 1 \in Nat
      OBVIOUS
    <3> QED
      BY <3>1, Zenon
  <2>1. PICK f : Sol(f, m)
    BY <1>2, <1>4
  <2> DEFINE last == IF m = 0 THEN strings[m + 1] ELSE f[m] \o strings[m + 1]
             g == [i \in 1 .. m + 1 |-> IF i <= m THEN f[i] ELSE last]
  <2>2. strings[m + 1] \in Seq(S)
    BY <1>2
  <2>3. last \in Seq(S)
    BY <2>1, <2>2
  <2>4. g \in [1 .. m + 1 -> Seq(S)]
    <3> HIDE DEF last
    <3> QED
      BY <2>1, <2>3
  <2>5. ASSUME NEW i \in 1 .. m + 1
        PROVE  g[i] = IF i = 1 THEN strings[i] ELSE g[i - 1] \o strings[i]
    <3>1. CASE i <= m
      <4>1. g[i] = f[i] /\ i \in 1 .. m
        BY <3>1
      <4>2. i # 1 => g[i - 1] = f[i - 1]
        BY <3>1
      <4>3. f[i] = IF i = 1 THEN strings[i] ELSE f[i - 1] \o strings[i]
        BY <2>1, <4>1
      <4> HIDE DEF g, Sol
      <4> QED
        BY <4>1, <4>2, <4>3
    <3>2. CASE i = m + 1
      <4>1. g[i] = last
        BY <3>2
      <4>2. i # 1 => g[i - 1] = f[m]
        BY <3>2
      <4> HIDE DEF g
      <4> QED
        BY <3>2, <4>1, <4>2
    <3> QED
      BY <3>1, <3>2
  <2> QED
    <3> HIDE DEF g
    <3>1. Sol(g, m + 1)
      BY <2>4, <2>5
    <3> QED
      BY <3>1
<1>5. n \in P
  <2> HIDE DEF P
  <2> QED
    BY <1>2, <1>3, <1>4, NatFromZero
<1>6. PICK f : Sol(f, n)
  BY <1>2, <1>5
<1>7. f = Body(f)
  BY <1>6
<1>8. (CHOOSE g : g = Body(g)) = Body(CHOOSE g : g = Body(g))
  BY <1>7, Zenon
<1>9. PICK h : h = Body(h) /\ FlattenSeq(strings) = IF n = 0 THEN strings ELSE h[n]
  BY <1>1, <1>8, Zenon
<1>10. n \in {m \in Nat : m <= n => \A i \in 1 .. m : h[i] \in Seq(S)}
  <2> DEFINE R == {m \in Nat : m <= n => \A i \in 1 .. m : h[i] \in Seq(S)}
  <2>1. 0 \in R
    OBVIOUS
  <2>2. ASSUME NEW m \in Nat, m \in R PROVE m + 1 \in R
    <3> SUFFICES ASSUME m + 1 <= n PROVE \A i \in 1 .. m + 1 : h[i] \in Seq(S)
      OBVIOUS
    <3>1. \A i \in 1 .. m : h[i] \in Seq(S)
      BY <1>2, <2>2
    <3>2. h[m + 1] = IF m + 1 = 1 THEN strings[m + 1] ELSE h[m] \o strings[m + 1]
      <4>1. m + 1 \in 1 .. n /\ m + 1 - 1 = m
        BY <1>2
      <4>2. Body(h)[m + 1] = IF m + 1 = 1 THEN strings[m + 1]
                                          ELSE h[m + 1 - 1] \o strings[m + 1]
        BY <4>1
      <4> QED
        BY <1>9, <4>1, <4>2, Zenon
    <3>3. strings[m + 1] \in Seq(S)
      BY <1>2
    <3>4. h[m + 1] \in Seq(S)
      <4>1. CASE m = 0
        BY <3>2, <3>3, <4>1
      <4>2. CASE m # 0
        <5>1. h[m] \in Seq(S)
          BY <3>1, <4>2
        <5>2. m + 1 # 1
          BY <4>2
        <5>3. h[m + 1] = h[m] \o strings[m + 1]
          BY <3>2, <5>2, Zenon
        <5> QED
          BY <5>1, <5>3, <3>3, ConcatProperties
      <4> QED
        BY <4>1, <4>2
    <3> QED
      BY <3>1, <3>4
  <2> HIDE DEF R
  <2>3. n \in R
    BY <1>2, <2>1, <2>2, NatFromZero
  <2> QED
    BY <2>3 DEF R
<1>11. \A i \in 1 .. n : h[i] \in Seq(S)
  BY <1>2, <1>10
<1> DEFINE upto == [i \in 0 .. n |-> IF i = 0 THEN <<>> ELSE h[i]]
<1>12. upto \in [0 .. n -> Seq(S)] /\ upto[0] = <<>>
  <2>1. <<>> \in Seq(S)
    OBVIOUS
  <2>2. \A i \in 0 .. n : i # 0 => i \in 1 .. n
    BY <1>2
  <2> QED
    BY <1>2, <1>11, <2>1, <2>2
<1>13. ASSUME NEW i \in 1 .. n PROVE upto[i] = upto[i - 1] \o strings[i]
  <2>1. upto[i] = h[i] /\ strings[i] \in Seq(S) /\ i \in Nat
    BY <1>2
  <2>2. h[i] = IF i = 1 THEN strings[i] ELSE h[i - 1] \o strings[i]
    <3>1. Body(h)[i] = IF i = 1 THEN strings[i] ELSE h[i - 1] \o strings[i]
      OBVIOUS
    <3> QED
      BY <1>9, <3>1, Zenon
  <2>3. CASE i = 1
    <3>1. upto[i - 1] = <<>>
      BY <1>2, <2>3
    <3> HIDE DEF upto
    <3> QED
      BY <2>1, <2>2, <2>3, <3>1, ConcatEmptySeq
  <2>4. CASE i # 1
    <3>1. upto[i - 1] = h[i - 1]
      BY <1>2, <2>1, <2>4
    <3> HIDE DEF upto
    <3> QED
      BY <2>1, <2>2, <2>4, <3>1
  <2> QED
    BY <2>3, <2>4
<1>14. FlattenSeq(strings) = upto[n]
  <2>1. CASE n = 0
    <3>1. strings = <<>>
      BY <2>1
    <3> QED
      BY <1>9, <1>12, <2>1, <3>1
  <2>2. CASE n # 0
    <3>1. upto[n] = h[n]
      BY <1>2, <2>2
    <3> HIDE DEF upto
    <3> QED
      BY <1>9, <2>2, <3>1
  <2> QED
    BY <2>1, <2>2
<1> HIDE DEF upto
<1> QED
  BY <1>12, <1>13, <1>14

LEMMA FlattenType ==
  ASSUME NEW S, NEW strings \in Seq(Seq(S))
  PROVE  FlattenSeq(strings) \in Seq(S)
<1>1. PICK upto \in [0 .. Len(strings) -> Seq(S)] :
        FlattenSeq(strings) = upto[Len(strings)]
  BY FlattenSteps
<1>2. Len(strings) \in 0 .. Len(strings)
  OBVIOUS
<1> QED
  BY <1>1, <1>2

(* A finite set of numbers has a k-th one, for every k it has members for. *)
LEMMA Ranks ==
  ASSUME NEW n \in Nat, NEW T \in SUBSET (1 .. n)
  PROVE  /\ IsFiniteSet(T) /\ Cardinality(T) \in Nat
         /\ \A k \in 1 .. Cardinality(T) :
              \E i \in T : Cardinality({j \in T : j < i}) = k - 1
<1> DEFINE Below(i) == {j \in T : j < i}
<1>1. IsFiniteSet(T)
  <2>1. IsFiniteSet(1 .. n)
    BY FS_Interval
  <2> QED
    BY <2>1, FS_Subset
<1>2. Cardinality(T) \in Nat
  BY <1>1, FS_CardinalityType
<1>3. ASSUME NEW P \in SUBSET T
      PROVE  IsFiniteSet(P) /\ Cardinality(P) \in Nat
  BY <1>1, FS_Subset, FS_CardinalityType
<1> DEFINE Q == {k \in Nat : k + 1 <= Cardinality(T) =>
                               \E i \in T : Cardinality(Below(i)) = k}
<1> HIDE DEF Q
<1>4. 0 \in Q
  <2> SUFFICES ASSUME 1 <= Cardinality(T)
               PROVE  \E i \in T : Cardinality(Below(i)) = 0
    BY DEF Q
  <2>1. T # {}
    BY FS_EmptySet
  <2>2. PICK i \in T : \A j \in T : i <= j
    BY <2>1, NatMinimum
  <2>3. Below(i) = {}
    <3>1. \A j \in T : ~(j < i)
      BY <2>2
    <3> QED
      BY <3>1, Zenon
  <2> HIDE DEF Below
  <2> QED
    BY <2>3, FS_EmptySet
<1>5. ASSUME NEW k \in Nat, k \in Q PROVE k + 1 \in Q
  <2> SUFFICES ASSUME k + 1 + 1 <= Cardinality(T)
               PROVE  \E i \in T : Cardinality(Below(i)) = k + 1
    BY DEF Q
  <2>1. PICK i \in T : Cardinality(Below(i)) = k
    BY <1>2, <1>5 DEF Q
  <2>2. /\ Below(i) \cup {i} \subseteq T /\ i \notin Below(i)
        /\ Cardinality(Below(i) \cup {i}) = k + 1
    <3>1. IsFiniteSet(Below(i)) /\ i \notin Below(i) /\ Below(i) \cup {i} \subseteq T
      BY <1>3
    <3> HIDE DEF Below
    <3> QED
      BY <2>1, <3>1, FS_AddElement
  <2>3. T \ (Below(i) \cup {i}) # {}
    <3> HIDE DEF Below
    <3> SUFFICES ASSUME T = Below(i) \cup {i} PROVE FALSE
      BY <2>2
    <3> QED
      BY <1>2, <2>2
  <2>4. PICK h \in T \ (Below(i) \cup {i}) :
          \A j \in T \ (Below(i) \cup {i}) : h <= j
    <3> HIDE DEF Below
    <3>1. T \ (Below(i) \cup {i}) \in SUBSET Nat
      <4>1. \A j \in T : j \in Nat
        OBVIOUS
      <4> QED
        BY <4>1, Zenon
    <3> QED
      BY <2>3, <3>1, NatMinimum
  <2>5. Below(h) = Below(i) \cup {i}
    <3>1. ASSUME NEW j \in Below(h) PROVE j \in Below(i) \cup {i}
      <4>1. j \in T /\ ~(h <= j)
        BY <2>4
      <4> QED
        BY <2>4, <4>1
    <3>2. ASSUME NEW j \in Below(i) \cup {i} PROVE j \in Below(h)
      <4>1. j \in T /\ j <= i
        BY <2>1
      <4>2. h \in T /\ h \in Nat /\ i < h
        <5>1. h \in T /\ ~(h < i) /\ h # i
          BY <2>4
        <5> QED
          BY <5>1
      <4>3. j < h
        BY <4>1, <4>2
      <4> QED
        BY <4>1, <4>3
    <3> QED
      BY <3>1, <3>2, Zenon
  <2> HIDE DEF Below
  <2> QED
    BY <2>2, <2>4, <2>5
<1>6. ASSUME NEW k \in 1 .. Cardinality(T)
      PROVE  \E i \in T : Cardinality(Below(i)) = k - 1
  <2>1. k - 1 \in Nat /\ k - 1 + 1 <= Cardinality(T)
    BY <1>2
  <2>2. k - 1 \in Q
    BY <1>4, <1>5, <2>1, NatFromZero
  <2> HIDE DEF Below
  <2> QED
    BY <2>1, <2>2 DEF Q
<1> QED
  BY <1>1, <1>2, <1>6

LEMMA Bytes == {NL, Pipe, EscPipe, EscNL} \subseteq Byte
BY DEF Byte

LEMMA SeqOver ==
  ASSUME NEW S, NEW n \in Nat, NEW f \in [1 .. n -> S]
  PROVE  f \in Seq(S)
BY SeqDef

(* The parser cuts a line into strings of bytes.                           *)
LEMMA TokensType ==
  ASSUME NEW line \in Seq(Byte)
  PROVE  Tokens[line] \in Seq(Seq(Byte))
<1> DEFINE starts == {i \in DOMAIN line :
                        line[i] # Pipe /\ (i = 1 \/ line[i - 1] = Pipe)}
           Nth(k) == CHOOSE i \in starts :
                       Cardinality({j \in starts : j < i}) = k - 1
           Run(i) == {j \in i .. Len(line) : \A h \in i .. j : line[h] # Pipe}
           Token(i) == SubSeq(line, i, Max(Run(i)))
<1>1. Tokens[line] = [k \in 1 .. Cardinality(starts) |-> Token(Nth(k))]
  BY DEF Tokens
<1>2. Len(line) \in Nat /\ starts \in SUBSET (1 .. Len(line))
  OBVIOUS
<1>3. ASSUME NEW i \in starts PROVE Token(i) \in Seq(Byte)
  <2>1. i \in 1 .. Len(line) /\ i \in Run(i) /\ Run(i) \in SUBSET (0 .. Len(line))
    BY <1>2
  <2>2. Max(Run(i)) \in i .. Len(line)
    <3>1. Max(Run(i)) \in Run(i)
      BY <1>2, <2>1, NatMaximum
    <3> QED
      BY <3>1
  <2> HIDE DEF Run
  <2> QED
    BY <1>2, <2>1, <2>2, SubSeqProperties
<1> HIDE DEF starts, Token
<1>4. Cardinality(starts) \in Nat
  BY <1>2, Ranks
<1>5. ASSUME NEW k \in 1 .. Cardinality(starts) PROVE Nth(k) \in starts
  <2>1. \E i \in starts : Cardinality({j \in starts : j < i}) = k - 1
    BY <1>2, Ranks
  <2> QED
    BY <2>1
<1>6. ASSUME NEW k \in 1 .. Cardinality(starts) PROVE Token(Nth(k)) \in Seq(Byte)
  BY <1>3, <1>5
<1> HIDE DEF Nth
<1>7. [k \in 1 .. Cardinality(starts) |-> Token(Nth(k))]
        \in [1 .. Cardinality(starts) -> Seq(Byte)]
  BY <1>6
<1> QED
  BY <1>1, <1>4, <1>7, IsASeq

(* What the parser makes of them is a packet, or nothing.                  *)
LEMMA DeserializeType ==
  ASSUME NEW line \in Seq(Byte)
  PROVE  packet_deserialize(line) \in Packet \cup {Malformed}
<1> DEFINE head == SubSeq(line, 1, IF Len(line) < PacketSize
                                   THEN Len(line) ELSE PacketSize - 1)
           tokens == Tokens[head]
<1>1. head \in Seq(Byte)
  BY SizesAssumption, SubSeqProperties
<1>2. tokens \in Seq(Seq(Byte))
  <2> HIDE DEF head
  <2> QED
    BY <1>1, TokensType
<1> HIDE DEF tokens
<1>3. ASSUME NEW field \in Seq(Byte) PROVE packet_restore_field(field) \in Seq(Byte)
  BY Bytes DEF packet_restore_field
<1>4. CASE \/ tokens = <<>>
           \/ tokens[1] \notin {<<type>> : type \in Type}
           \/ Len(tokens) > MaxFields + 1
           \/ \E i \in 2 .. Len(tokens) : Len(tokens[i]) >= FieldSize
  <2>1. PacketOf[tokens] = Malformed
    BY <1>2, <1>4 DEF PacketOf
  <2> QED
    BY <2>1 DEF packet_deserialize, tokens
<1>5. CASE ~ \/ tokens = <<>>
             \/ tokens[1] \notin {<<type>> : type \in Type}
             \/ Len(tokens) > MaxFields + 1
             \/ \E i \in 2 .. Len(tokens) : Len(tokens[i]) >= FieldSize
  <2> DEFINE fields == [i \in 1 .. Len(tokens) - 1 |-> packet_restore_field(tokens[i + 1])]
  <2>1. PacketOf[tokens] = [type |-> tokens[1][1], fields |-> fields]
    BY <1>2, <1>5 DEF PacketOf
  <2>2. tokens[1][1] \in Type
    BY <1>5
  <2>3. Len(tokens) - 1 \in Nat
    BY <1>2, <1>5
  <2>4. \A i \in 1 .. Len(tokens) - 1 : tokens[i + 1] \in Seq(Byte)
    BY <1>2, <2>3
  <2>5. fields \in Seq(Seq(Byte))
    BY <1>3, <2>3, <2>4, IsASeq
  <2> HIDE DEF fields
  <2>6. PacketOf[tokens] \in Packet
    BY <2>1, <2>2, <2>5 DEF Packet
  <2> QED
    BY <2>6 DEF packet_deserialize, tokens
<1> QED
  BY <1>4, <1>5

(* A packet that is built of strings is one.                               *)
LEMMA BuildType ==
  ASSUME NEW type \in Type, NEW fields \in Content
  PROVE  packet_build(type, fields) \in Packet
<1>1. fields \in Seq(Seq(Byte))
  <2>1. fields \in Seq(Seq(Letter \cup {Pipe, NL, EscPipe, EscNL}))
    BY ContentAssumption
  <2>2. Letter \cup {Pipe, NL, EscPipe, EscNL} \subseteq Byte
    BY DEF Byte
  <2>3. \A i \in 1 .. Len(fields) : fields[i] \in Seq(Byte)
    <3>1. ASSUME NEW i \in 1 .. Len(fields) PROVE fields[i] \in Seq(Byte)
      <4>1. fields[i] \in Seq(Letter \cup {Pipe, NL, EscPipe, EscNL})
        BY <2>1
      <4> QED
        BY <2>2, <4>1, SeqMonotonic
    <3> QED
      BY <3>1
  <2>4. fields \in [1 .. Len(fields) -> Seq(Byte)] /\ Len(fields) \in Nat
    BY <2>1, <2>3
  <2> QED
    BY <2>4, SeqOver
<1> DEFINE Cut(i) == SubSeq(fields[i], 1,
                            IF Len(fields[i]) < FieldSize THEN Len(fields[i])
                                                          ELSE FieldSize - 1)
<1>2. ASSUME NEW i \in DOMAIN fields PROVE Cut(i) \in Seq(Byte)
  <2>1. fields[i] \in Seq(Byte)
    BY <1>1
  <2> QED
    BY <2>1, SizesAssumption, SubSeqProperties
<1> HIDE DEF Cut
<1>3. [i \in DOMAIN fields |-> Cut(i)] \in Seq(Seq(Byte))
  BY <1>1, <1>2
<1> QED
  BY <1>3 DEF packet_build, Packet, Cut

(* On the wire it is one line of at most PacketSize - 1 bytes: '\n' is the *)
(* last of them and no other.                                              *)
LEMMA SerializeType ==
  ASSUME NEW packet \in Packet
  PROVE  /\ LineOf(packet) \in Seq(Byte \ {NL})
         /\ packet_serialize(packet) \in Seq(Byte)
         /\ Len(packet_serialize(packet)) \in Nat \ {0}
         /\ packet_serialize(packet)[Len(packet_serialize(packet))] = NL
         /\ CanSerialize(packet) => Len(packet_serialize(packet)) < PacketSize
<1> DEFINE S == Byte \ {NL}
           part(i) == <<Pipe>> \o packet_sanitize_field(packet.fields[i])
           parts == [i \in DOMAIN packet.fields |-> part(i)]
<1>1. packet.type \in S /\ Pipe \in S /\ EscPipe \in S /\ EscNL \in S
  BY BytesAssumption DEF Packet, Byte
<1>2. packet.fields \in Seq(Seq(Byte))
  BY DEF Packet
<1>3. ASSUME NEW field \in Seq(Byte) PROVE packet_sanitize_field(field) \in Seq(S)
  <2>1. ASSUME NEW i \in DOMAIN field
        PROVE  (CASE field[i] = Pipe -> EscPipe [] field[i] = NL -> EscNL
                  [] OTHER -> field[i]) \in S
    BY <1>1
  <2> HIDE DEF S
  <2> QED
    BY <2>1 DEF packet_sanitize_field
<1> HIDE DEF S
<1>4. ASSUME NEW i \in DOMAIN packet.fields PROVE part(i) \in Seq(S)
  <2>1. packet.fields[i] \in Seq(Byte)
    BY <1>2
  <2>2. packet_sanitize_field(packet.fields[i]) \in Seq(S) /\ <<Pipe>> \in Seq(S)
    BY <1>1, <1>3, <2>1
  <2> QED
    BY <2>2, ConcatProperties
<1>5. parts \in Seq(Seq(S))
  <2> HIDE DEF part
  <2>1. parts \in [1 .. Len(packet.fields) -> Seq(S)] /\ Len(packet.fields) \in Nat
    BY <1>2, <1>4
  <2> HIDE DEF parts
  <2> QED
    BY <2>1, SeqOver
<1>6. LineOf(packet) \in Seq(S)
  <2>1. FlattenSeq(parts) \in Seq(S)
    <3> HIDE DEF parts
    <3> QED
      BY <1>5, FlattenType
  <2>2. LineOf(packet) = <<packet.type>> \o FlattenSeq(parts)
    BY DEF LineOf
  <2>3. <<packet.type>> \in Seq(S)
    BY <1>1
  <2> QED
    BY <2>1, <2>2, <2>3, ConcatProperties
<1>7. S \subseteq Byte
  BY DEF S
<1>8. LineOf(packet) \in Seq(Byte) /\ Len(LineOf(packet)) \in Nat
  BY <1>6, <1>7, SeqMonotonic
<1> QED
  BY <1>6, <1>8, Bytes, SizesAssumption, AppendProperties
     DEF packet_serialize, CanSerialize, S

-----------------------------------------------------------------------------
(* The types.                                                              *)

LEMMA Sizes == /\ PacketSize \in Nat /\ PacketSize > 2
               /\ AccumSize \in Nat /\ AccumSize >= 2 * PacketSize
               /\ MaxSends \in Nat
BY SizesAssumption, AccumAssumption

LEMMA NextCases ==
  ASSUME [Next]_vars
  PROVE  \/ \E type \in Type, fields \in Content : Send(type, fields)
         \/ Close \/ Break \/ RecvNothing \/ TakeLine \/ KeepLeftover
         \/ \E bytes \in 1 .. PacketSize - 1 : Recv(bytes)
         \/ UNCHANGED vars
BY DEF Next, Receiver

(* The first '\n' of the lines.                                            *)
LEMMA FirstEnd ==
  ASSUME TypeOK, Ends # {}
  PROVE  /\ Min(Ends) \in start .. Len(accum)
         /\ accum[Min(Ends)] = NL
         /\ \A i \in Ends : Min(Ends) <= i
<1>1. Ends \in SUBSET Nat
  BY DEF Ends, TypeOK
<1>2. Min(Ends) \in Ends /\ \A i \in Ends : Min(Ends) <= i
  BY <1>1, MinimumOf
<1> QED
  BY <1>2 DEF Ends

LEMMA SendFacts ==
  ASSUME NEW type \in Type, NEW fields \in Content, Send(type, fields), TypeOK
  PROVE  \/ UNCHANGED <<conn, wire, accum, start, pc, received, sent>>
         \/ \E packet \in Packet :
              /\ CanSerialize(packet)
              /\ wire' = wire \o packet_serialize(packet)
              /\ sent' = Append(sent, packet)
              /\ conn = "open" /\ UNCHANGED <<conn, accum, start, pc, received>>
<1>1. packet_build(type, fields) \in Packet
  BY BuildType
<1> QED
  BY <1>1 DEF Send, SendPacket

LEMMA TypesInit == Init => TypeOK
BY Sizes DEF Init, TypeOK

LEMMA TypesStep == TypeOK /\ Leftover /\ [Next]_vars => TypeOK'
<1> SUFFICES ASSUME TypeOK, Leftover, [Next]_vars PROVE TypeOK'
  OBVIOUS
<1> USE Sizes
<1>1. ASSUME NEW type \in Type, NEW fields \in Content, Send(type, fields)
      PROVE  TypeOK'
  <2>1. sends' \in 0 .. MaxSends /\ sends' = sends + 1
    BY <1>1 DEF Send, TypeOK
  <2>2. CASE UNCHANGED <<conn, wire, accum, start, pc, received, sent>>
    BY <2>1, <2>2 DEF TypeOK
  <2>3. ASSUME NEW packet \in Packet,
               wire' = wire \o packet_serialize(packet),
               sent' = Append(sent, packet),
               UNCHANGED <<conn, accum, start, pc, received>>
        PROVE  TypeOK'
    <3>1. wire' \in Seq(Byte)
      BY <2>3, SerializeType, ConcatProperties DEF TypeOK
    <3>2. sent' \in Seq(Packet) /\ Len(sent') <= sends'
      BY <2>1, <2>3, AppendProperties DEF TypeOK
    <3> QED
      BY <2>1, <2>3, <3>1, <3>2 DEF TypeOK
  <2> QED
    BY <1>1, <2>2, <2>3, SendFacts
<1>2. CASE Close
  BY <1>2 DEF Close, TypeOK
<1>3. CASE Break
  BY <1>3 DEF Break, TypeOK
<1>4. ASSUME NEW bytes \in 1 .. PacketSize - 1, Recv(bytes) PROVE TypeOK'
  <2>1. bytes \in 1 .. Len(wire)
    BY <1>4 DEF Recv, TypeOK
  <2>2. SubSeq(wire, 1, bytes) \in Seq(Byte) /\ Len(SubSeq(wire, 1, bytes)) = bytes
    BY <2>1, SubSeqProperties DEF TypeOK
  <2>3. wire' \in Seq(Byte)
    BY <1>4, <2>1, SubSeqProperties DEF Recv, TypeOK
  <2>4. accum' \in Seq(Byte) /\ Len(accum') < AccumSize /\ start \in 1 .. Len(accum') + 1
    <3>1. start = 1
      BY <1>4 DEF Recv, Leftover
    <3>2. CASE Len(accum) + bytes >= AccumSize
      BY <1>4, <3>1, <3>2 DEF Recv
    <3>3. CASE ~(Len(accum) + bytes >= AccumSize)
      <4>1. accum' = accum \o SubSeq(wire, 1, bytes)
        BY <1>4, <3>3 DEF Recv
      <4>2. accum' \in Seq(Byte) /\ Len(accum') = Len(accum) + bytes
        BY <2>1, <2>2, <4>1, ConcatProperties DEF TypeOK
      <4> QED
        BY <2>1, <3>1, <3>3, <4>2 DEF TypeOK
    <3> QED
      BY <3>2, <3>3
  <2> QED
    BY <1>4, <2>3, <2>4 DEF Recv, TypeOK
<1>5. CASE RecvNothing
  BY <1>5 DEF RecvNothing, TypeOK
<1>6. CASE TakeLine
  <2>1. /\ Min(Ends) \in start .. Len(accum)
    BY <1>6, FirstEnd DEF TakeLine
  <2>2. SubSeq(accum, start, Min(Ends) - 1) \in Seq(Byte)
    BY <2>1, SubSeqProperties DEF TypeOK
  <2>3. packet_deserialize(SubSeq(accum, start, Min(Ends) - 1)) \in Packet \cup {Malformed}
    BY <2>2, DeserializeType
  <2>4. received' \in Seq(Packet)
    BY <1>6, <2>3, AppendProperties DEF TakeLine, TypeOK
  <2>5. start' \in 1 .. Len(accum) + 1
    BY <1>6, <2>1 DEF TakeLine, TypeOK
  <2> QED
    BY <1>6, <2>4, <2>5 DEF TakeLine, TypeOK
<1>7. CASE KeepLeftover
  <2>1. accum' \in Seq(Byte) /\ Len(accum') <= Len(accum) /\ Len(accum') \in Nat
    BY <1>7, SubSeqProperties DEF KeepLeftover, TypeOK
  <2> QED
    BY <1>7, <2>1 DEF KeepLeftover, TypeOK
<1>8. CASE UNCHANGED vars
  BY <1>8 DEF vars, TypeOK
<1> QED
  BY <1>1, <1>2, <1>3, <1>4, <1>5, <1>6, <1>7, <1>8, NextCases

-----------------------------------------------------------------------------
(* The stream.                                                             *)

LEMMA Associative ==
  ASSUME NEW u \in Seq(Byte), NEW v \in Seq(Byte), NEW w \in Seq(Byte)
  PROVE  (u \o v) \o w = u \o (v \o w)
BY ConcatAssociative

LEMMA Joined ==
  ASSUME NEW u \in Seq(Byte), NEW v \in Seq(Byte)
  PROVE  /\ u \o v \in Seq(Byte) /\ Len(u \o v) = Len(u) + Len(v)
         /\ \A i \in 1 .. Len(u) : (u \o v)[i] = u[i]
         /\ \A i \in Len(u) + 1 .. Len(u) + Len(v) : (u \o v)[i] = v[i - Len(u)]
OBVIOUS

LEMMA StreamFacts ==
  ASSUME TypeOK
  PROVE  /\ Stream \in Seq(Byte) /\ Len(Stream) = Len(accum) + Len(wire)
         /\ Len(accum) \in Nat /\ Len(wire) \in Nat
         /\ \A i \in 1 .. Len(accum) : Stream[i] = accum[i]
         /\ start \in 1 .. Len(accum) + 1
BY ConcatProperties DEF TypeOK, Stream

LEMMA Fits == TypeOK /\ Leftover => NeverOverflows
BY Sizes DEF TypeOK, Leftover, NeverOverflows

(* What recv() takes from the wire it adds to the lines.                   *)
LEMMA RecvStream ==
  ASSUME TypeOK, Leftover, NEW bytes \in 1 .. PacketSize - 1, Recv(bytes)
  PROVE  Stream' = Stream /\ pc' = "lines"
<1>1. bytes \in 1 .. Len(wire) /\ bytes <= PacketSize - 1
  BY Sizes DEF Recv, TypeOK
<1>2. ~(Len(accum) + bytes >= AccumSize)
  <2>1. pc = "recv"
    BY DEF Recv
  <2> QED
    BY <1>1, <2>1, Sizes DEF Leftover, TypeOK
<1>3. /\ accum' = accum \o SubSeq(wire, 1, bytes) /\ pc' = "lines"
      /\ wire' = SubSeq(wire, bytes + 1, Len(wire))
  BY <1>2 DEF Recv
<1>4. wire = SubSeq(wire, 1, bytes) \o SubSeq(wire, bytes + 1, Len(wire))
  BY <1>1 DEF TypeOK
<1>5. /\ SubSeq(wire, 1, bytes) \in Seq(Byte)
      /\ SubSeq(wire, bytes + 1, Len(wire)) \in Seq(Byte)
  BY <1>1, SubSeqProperties DEF TypeOK
<1>6. accum \in Seq(Byte)
  BY DEF TypeOK
<1>7. (accum \o SubSeq(wire, 1, bytes)) \o SubSeq(wire, bytes + 1, Len(wire))
        = accum \o (SubSeq(wire, 1, bytes) \o SubSeq(wire, bytes + 1, Len(wire)))
  BY <1>5, <1>6, Associative, Zenon
<1>8. Stream' = accum' \o wire'
  BY DEF Stream
<1> QED
  BY <1>3, <1>4, <1>7, <1>8, Zenon DEF Stream

LEMMA StreamInit == Init => LinesShort /\ EndsWithLine /\ Leftover
BY Sizes DEF Init, LinesShort, EndsWithLine, Leftover, Stream

(* A line that is sent comes after one that has ended.                     *)
LEMMA SendStream ==
  ASSUME IInv, NEW packet \in Packet, CanSerialize(packet),
         wire' = wire \o packet_serialize(packet),
         conn = "open", UNCHANGED <<conn, accum, start>>
  PROVE  LinesShort' /\ EndsWithLine'
<1> DEFINE old == Len(Stream)
           more == packet_serialize(packet)
           new == old + Len(more)
<1>1. /\ more \in Seq(Byte) /\ Len(more) \in Nat \ {0}
      /\ more[Len(more)] = NL /\ Len(more) < PacketSize
  BY SerializeType
<1>2. /\ Stream \in Seq(Byte) /\ old \in Nat /\ start \in Nat \ {0}
  BY StreamFacts DEF IInv
<1>3. Stream' = Stream \o more
  <2>1. accum \in Seq(Byte) /\ wire \in Seq(Byte)
    BY DEF IInv, TypeOK
  <2>2. (accum \o wire) \o more = accum \o (wire \o more)
    BY <1>1, <2>1, Associative, Zenon
  <2>3. Stream' = accum' \o wire'
    BY DEF Stream
  <2>4. accum' = accum /\ wire' = wire \o more
    OBVIOUS
  <2> QED
    BY <2>2, <2>3, <2>4, Zenon DEF Stream
<1> HIDE DEF more
<1>4. /\ Len(Stream') = new
      /\ \A i \in 1 .. old : Stream'[i] = Stream[i]
      /\ Stream'[new] = NL
  <2>1. new \in old + 1 .. new /\ new - old = Len(more)
    BY <1>1, <1>2
  <2>2. /\ Len(Stream \o more) = new
        /\ \A i \in 1 .. old : (Stream \o more)[i] = Stream[i]
        /\ (Stream \o more)[new] = more[Len(more)]
    BY <1>1, <1>2, <2>1, ConcatProperties
  <2> QED
    BY <1>1, <1>3, <2>2
<1>5. start' = start /\ conn' = conn
  OBVIOUS
<1>6. EndsWithLine'
  BY <1>4 DEF EndsWithLine
<1>7. LinesShort'
  <2> SUFFICES ASSUME NEW i \in start .. new - (PacketSize - 2)
               PROVE  \E j \in i .. i + PacketSize - 2 : Stream'[j] = NL
    BY <1>4, <1>5 DEF LinesShort
  <2> HIDE DEF old
  <2>0. i \in Nat /\ i >= start /\ i + PacketSize - 2 <= new /\ i >= 1
    BY <1>1, <1>2, Sizes
  <2>1. CASE i + PacketSize - 2 <= old
    <3>1. i \in start .. old - (PacketSize - 2)
      BY <1>2, <2>0, <2>1, Sizes
    <3>2. PICK j \in i .. i + PacketSize - 2 : Stream[j] = NL
      BY <3>1 DEF IInv, LinesShort, old
    <3>3. j \in 1 .. old
      BY <1>2, <2>0, <2>1, <3>2, Sizes
    <3> QED
      BY <1>4, <3>2, <3>3
  <2>2. CASE i + PacketSize - 2 > old /\ i <= old
    <3>1. Stream[old] = NL
      BY <1>2, <2>0, <2>2 DEF IInv, EndsWithLine, old
    <3>2. old \in i .. i + PacketSize - 2 /\ old \in 1 .. old
      BY <1>2, <2>0, <2>2, Sizes
    <3> QED
      BY <1>4, <3>1, <3>2
  <2>3. CASE i > old
    <3>1. new \in i .. i + PacketSize - 2
      BY <1>1, <1>2, <2>0, <2>3, Sizes
    <3> QED
      BY <1>4, <3>1
  <2> QED
    BY <1>2, <2>0, <2>1, <2>2, <2>3, Sizes
<1> QED
  BY <1>6, <1>7

(* Keeping a partial line takes the bytes before it from the stream.       *)
LEMMA LeftoverBytes ==
  ASSUME IInv, KeepLeftover
  PROVE  /\ Stream' \in Seq(Byte) /\ Len(Stream') = Len(Stream) - start + 1
         /\ \A i \in 1 .. Len(Stream') : Stream'[i] = Stream[start + i - 1]
         /\ Len(accum') = Len(accum) - start + 1
<1> DEFINE keep == Len(accum) - start + 1
<1>1. /\ Stream \in Seq(Byte) /\ Len(Stream) = Len(accum) + Len(wire)
      /\ Len(accum) \in Nat /\ Len(wire) \in Nat
      /\ \A i \in 1 .. Len(accum) : Stream[i] = accum[i]
      /\ start \in 1 .. Len(accum) + 1
  BY StreamFacts DEF IInv
<1>2. /\ accum' = SubSeq(accum, start, Len(accum)) /\ start' = 1
      /\ wire' = wire /\ conn' = conn
      /\ \A i \in start .. Len(accum) : accum[i] # NL
  BY DEF KeepLeftover, Ends
<1>3. /\ accum' \in Seq(Byte) /\ Len(accum') = keep
      /\ \A i \in 1 .. keep : accum'[i] = accum[start + i - 1]
  BY <1>1, <1>2, SubSeqProperties DEF IInv, TypeOK
<1>4. /\ Stream' \in Seq(Byte) /\ Len(Stream') = Len(Stream) - start + 1
      /\ \A i \in 1 .. Len(Stream') : Stream'[i] = Stream[start + i - 1]
  <2>1. PICK s : s = accum' \o wire
    OBVIOUS
  <2>2. /\ Len(s) = keep + Len(wire) /\ s \in Seq(Byte)
        /\ \A i \in 1 .. keep : s[i] = accum'[i]
        /\ \A i \in keep + 1 .. keep + Len(wire) : s[i] = wire[i - keep]
    <3>1. accum' \in Seq(Byte) /\ wire \in Seq(Byte) /\ Len(accum') = keep
      BY <1>3 DEF IInv, TypeOK
    <3>2. /\ s \in Seq(Byte) /\ Len(s) = Len(accum') + Len(wire)
          /\ \A i \in 1 .. Len(accum') : s[i] = accum'[i]
          /\ \A i \in Len(accum') + 1 .. Len(accum') + Len(wire) : s[i] = wire[i - Len(accum')]
      BY <2>1, <3>1, Joined, Zenon
    <3> HIDE DEF keep
    <3> QED
      BY <3>1, <3>2
  <2>3. \A i \in Len(accum) + 1 .. Len(accum) + Len(wire) : Stream[i] = wire[i - Len(accum)]
    BY <1>1, ConcatProperties DEF IInv, TypeOK, Stream
  <2>4. ASSUME NEW i \in 1 .. keep + Len(wire)
        PROVE  s[i] = Stream[start + i - 1]
    <3>0. keep \in Nat /\ start \in Nat
      BY <1>1
    <3>1. CASE i <= keep
      <4>1. i \in 1 .. keep /\ start + i - 1 \in 1 .. Len(accum)
        BY <1>1, <3>1
      <4>2. s[i] = accum[start + i - 1]
        BY <1>3, <2>2, <4>1
      <4> QED
        BY <1>1, <4>1, <4>2
    <3>2. CASE i > keep
      <4>1. PICK k : k = start + i - 1
        OBVIOUS
      <4>2. /\ i \in keep + 1 .. keep + Len(wire)
            /\ k \in Len(accum) + 1 .. Len(accum) + Len(wire)
            /\ k - Len(accum) = i - keep
        BY <1>1, <3>2, <4>1
      <4>3. s[i] = wire[i - keep]
        BY <2>2, <4>2
      <4>4. Stream[k] = wire[k - Len(accum)]
        BY <2>3, <4>2
      <4> QED
        BY <4>1, <4>2, <4>3, <4>4
    <3> QED
      BY <3>0, <3>1, <3>2
  <2>5. keep + Len(wire) = Len(Stream) - start + 1
    BY <1>1
  <2>6. Stream' = s
    BY <1>2, <2>1 DEF Stream
  <2> QED
    BY <2>2, <2>4, <2>5, <2>6
<1> QED
  BY <1>3, <1>4

(* A partial line that is kept is shorter than a packet.                   *)
LEMMA LeftoverStream ==
  ASSUME IInv, KeepLeftover
  PROVE  LinesShort' /\ EndsWithLine' /\ Leftover'
<1> DEFINE keep == Len(accum) - start + 1
<1>1. /\ Stream \in Seq(Byte) /\ Len(Stream) = Len(accum) + Len(wire)
      /\ Len(accum) \in Nat /\ Len(wire) \in Nat
      /\ \A i \in 1 .. Len(accum) : Stream[i] = accum[i]
      /\ start \in 1 .. Len(accum) + 1
  BY StreamFacts DEF IInv
<1>2. /\ start' = 1 /\ wire' = wire /\ conn' = conn
      /\ \A i \in start .. Len(accum) : accum[i] # NL
  BY DEF KeepLeftover, Ends
<1>3. /\ Stream' \in Seq(Byte) /\ Len(Stream') = Len(Stream) - start + 1
      /\ \A i \in 1 .. Len(Stream') : Stream'[i] = Stream[start + i - 1]
      /\ Len(accum') = keep
  BY LeftoverBytes
<1>4. LinesShort'
  <2> SUFFICES ASSUME NEW i \in 1 .. Len(Stream') - (PacketSize - 2)
               PROVE  \E j \in i .. i + PacketSize - 2 : Stream'[j] = NL
    BY <1>2 DEF LinesShort
  <2>1. start + i - 1 \in start .. Len(Stream) - (PacketSize - 2)
    BY <1>1, <1>3, Sizes
  <2>2. PICK j \in start + i - 1 .. start + i - 1 + PacketSize - 2 : Stream[j] = NL
    BY <2>1 DEF IInv, LinesShort
  <2>3. /\ j - start + 1 \in i .. i + PacketSize - 2
        /\ j - start + 1 \in 1 .. Len(Stream')
        /\ start + (j - start + 1) - 1 = j
    BY <1>1, <1>3, <2>1, <2>2, Sizes
  <2> QED
    BY <1>3, <2>2, <2>3
<1>5. EndsWithLine'
  <2> SUFFICES ASSUME conn # "broken", Len(Stream') >= 1
               PROVE  Stream'[Len(Stream')] = NL
    BY <1>1, <1>2, <1>3 DEF EndsWithLine
  <2>1. Len(Stream) >= start /\ start + Len(Stream') - 1 = Len(Stream)
    BY <1>1, <1>3
  <2>2. Stream[Len(Stream)] = NL
    BY <1>1, <2>1 DEF IInv, EndsWithLine
  <2>3. Len(Stream') \in 1 .. Len(Stream')
    BY <1>3
  <2> QED
    BY <1>3, <2>1, <2>2, <2>3
<1>6. Leftover'
  <2> SUFFICES keep <= PacketSize - 2
    BY <1>2, <1>3 DEF Leftover
  <2> SUFFICES ASSUME keep > PacketSize - 2 PROVE FALSE
    BY <1>1, Sizes
  <2>1. start \in start .. Len(Stream) - (PacketSize - 2)
    BY <1>1, Sizes
  <2>2. PICK j \in start .. start + PacketSize - 2 : Stream[j] = NL
    BY <2>1 DEF IInv, LinesShort
  <2>3. j \in start .. Len(accum) /\ j \in 1 .. Len(accum)
    BY <1>1, <2>2, Sizes
  <2> QED
    BY <1>1, <1>2, <2>2, <2>3
<1> QED
  BY <1>4, <1>5, <1>6

LEMMA StreamStep == IInv /\ [Next]_vars => LinesShort' /\ EndsWithLine' /\ Leftover'
<1> SUFFICES ASSUME IInv, [Next]_vars PROVE LinesShort' /\ EndsWithLine' /\ Leftover'
  OBVIOUS
<1> USE Sizes
<1>1. CASE UNCHANGED <<conn, wire, accum, start, pc>>
  BY <1>1 DEF IInv, LinesShort, EndsWithLine, Leftover, Stream
<1>2. ASSUME NEW type \in Type, NEW fields \in Content, Send(type, fields)
      PROVE  LinesShort' /\ EndsWithLine' /\ Leftover'
  <2>1. CASE UNCHANGED <<conn, wire, accum, start, pc, received, sent>>
    BY <1>1, <2>1
  <2>2. ASSUME NEW packet \in Packet, CanSerialize(packet),
               wire' = wire \o packet_serialize(packet),
               conn = "open", UNCHANGED <<conn, accum, start, pc, received>>
        PROVE  LinesShort' /\ EndsWithLine' /\ Leftover'
    <3>1. LinesShort' /\ EndsWithLine'
      BY <2>2, SendStream
    <3> QED
      BY <2>2, <3>1 DEF IInv, Leftover
  <2> QED
    BY <1>2, <2>1, <2>2, SendFacts DEF IInv
<1>3. CASE Close
  <2>1. Stream' = Stream /\ start' = start /\ conn = "open"
    BY <1>3 DEF Close, Stream
  <2> QED
    BY <1>3, <2>1 DEF Close, IInv, LinesShort, EndsWithLine, Leftover
<1>4. CASE Break
  <2>1. /\ wire' = <<>> /\ accum' = accum /\ start' = start /\ pc' = pc
        /\ conn' = "broken"
    BY <1>4 DEF Break
  <2>2. /\ Stream' = accum
        /\ Len(Stream) = Len(accum) + Len(wire) /\ Len(accum) \in Nat /\ Len(wire) \in Nat
        /\ \A i \in 1 .. Len(accum) : Stream[i] = accum[i]
        /\ start \in 1 .. Len(accum) + 1
    BY <2>1, StreamFacts, ConcatEmptySeq DEF Stream, IInv, TypeOK
  <2>3. ASSUME NEW i \in start .. Len(accum) - (PacketSize - 2)
        PROVE  \E j \in i .. i + PacketSize - 2 : accum[j] = NL
    <3>1. i \in start .. Len(Stream) - (PacketSize - 2)
      BY <2>2
    <3>2. PICK j \in i .. i + PacketSize - 2 : Stream[j] = NL
      BY <3>1 DEF IInv, LinesShort
    <3>3. j \in 1 .. Len(accum)
      BY <2>2, <3>2
    <3> QED
      BY <2>2, <3>2, <3>3
  <2>4. LinesShort'
    BY <2>1, <2>2, <2>3 DEF LinesShort
  <2> QED
    BY <2>1, <2>4 DEF EndsWithLine, Leftover, IInv
<1>5. ASSUME NEW bytes \in 1 .. PacketSize - 1, Recv(bytes)
      PROVE  LinesShort' /\ EndsWithLine' /\ Leftover'
  <2>1. Stream' = Stream /\ pc' = "lines"
    BY <1>5, RecvStream DEF IInv
  <2>2. start' = start /\ conn' = conn
    BY <1>5 DEF Recv
  <2> QED
    BY <2>1, <2>2 DEF IInv, LinesShort, EndsWithLine, Leftover
<1>6. CASE RecvNothing
  BY <1>6 DEF RecvNothing, IInv, LinesShort, EndsWithLine, Leftover, Stream
<1>7. CASE TakeLine
  <2>1. /\ Stream' = Stream /\ conn' = conn /\ pc' = "lines"
        /\ start' = Min(Ends) + 1 /\ Min(Ends) \in start .. Len(accum)
        /\ accum[Min(Ends)] = NL
    BY <1>7, FirstEnd DEF TakeLine, Stream, IInv
  <2>2. /\ start \in Nat /\ Len(Stream) \in Nat /\ Len(accum) <= Len(Stream)
        /\ Stream[Min(Ends)] = NL
    BY <2>1, StreamFacts DEF IInv
  <2>3. LinesShort'
    <3>1. \A i : i \in start' .. Len(Stream) - (PacketSize - 2)
                   => i \in start .. Len(Stream) - (PacketSize - 2)
      BY <2>1, <2>2
    <3> QED
      BY <2>1, <3>1 DEF IInv, LinesShort
  <2>4. EndsWithLine'
    BY <2>1, <2>2 DEF IInv, EndsWithLine
  <2> QED
    BY <2>1, <2>3, <2>4 DEF Leftover
<1>8. CASE KeepLeftover
  BY <1>8, LeftoverStream
<1>9. CASE UNCHANGED vars
  BY <1>1, <1>9 DEF vars
<1> QED
  BY <1>2, <1>3, <1>4, <1>5, <1>6, <1>7, <1>8, <1>9, NextCases

LEMMA Invariant == Spec => []IInv
<1>1. Init => IInv
  BY TypesInit, StreamInit DEF IInv
<1>2. IInv /\ [Next]_vars => IInv'
  BY TypesStep, StreamStep DEF IInv
<1> QED
  BY <1>1, <1>2, PTL DEF Spec

(* Every variable keeps its type; above all the parser makes a packet of   *)
(* whatever line it accepts, and the buffer and the line in it keep their  *)
(* bounds (packet.c:42-85, server.c:196-245).                              *)
THEOREM TypeCorrect == Spec => []TypeOK
<1>1. IInv => TypeOK
  BY DEF IInv
<1> QED
  BY <1>1, Invariant, PTL

(* The branch that drops the backlog is never taken, for packets of every  *)
(* size and a buffer of two of them or more: a line is shorter than a      *)
(* packet, so what is left in the buffer is too (server.c:219-223,         *)
(* client_socket.c:64-66).                                                 *)
THEOREM BacklogNeverDropped == Spec => []NeverOverflows
<1>1. IInv => NeverOverflows
  BY Fits DEF IInv
<1> QED
  BY <1>1, Invariant, PTL
=============================================================================
