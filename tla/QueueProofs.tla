---------------------------- MODULE QueueProofs ----------------------------
(***************************************************************************)
(* One direction of a connection is a queue of packets.  Two facts carry   *)
(* the proof: the parser undoes what the codec did to a packet, and the    *)
(* bytes between two threads are the lines of the packets not dispatched.  *)
(***************************************************************************)
EXTENDS FramingProofs

-----------------------------------------------------------------------------
LEMMA ConcatPlaces ==
  ASSUME NEW S, NEW u \in Seq(S), NEW v \in Seq(S)
  PROVE  /\ Len(u \o v) = Len(u) + Len(v)
         /\ \A p \in 1 .. Len(u) : (u \o v)[p] = u[p]
         /\ \A k \in 1 .. Len(v) : (u \o v)[Len(u) + k] = v[k]
OBVIOUS

LEMMA OneElement ==
  ASSUME NEW S, NEW b \in S
  PROVE  <<b>> \in Seq(S) /\ Len(<<b>>) = 1 /\ <<b>>[1] = b
OBVIOUS

(* Where each string is in the one put together of them: behind those      *)
(* before it.                                                              *)
LEMMA FlattenPositions ==
  ASSUME NEW S, NEW strings \in Seq(Seq(S))
  PROVE  \E off \in [0 .. Len(strings) -> Nat] :
           /\ off[0] = 0 /\ off[Len(strings)] = Len(FlattenSeq(strings))
           /\ \A i \in 1 .. Len(strings) :
                /\ off[i] = off[i - 1] + Len(strings[i])
                /\ off[i] <= Len(FlattenSeq(strings))
                /\ \A k \in 1 .. Len(strings[i]) :
                     FlattenSeq(strings)[off[i - 1] + k] = strings[i][k]
           /\ \A p \in 1 .. Len(FlattenSeq(strings)) :
                \E i \in 1 .. Len(strings) : off[i - 1] < p /\ p <= off[i]
<1> DEFINE n == Len(strings)
<1>1. PICK upto \in [0 .. n -> Seq(S)] :
        /\ upto[0] = <<>>
        /\ \A i \in 1 .. n : upto[i] = upto[i - 1] \o strings[i]
        /\ FlattenSeq(strings) = upto[n]
  BY FlattenSteps
<1>2. n \in Nat /\ \A i \in 1 .. n : strings[i] \in Seq(S) /\ Len(strings[i]) \in Nat
  <2>1. \A i \in 1 .. n : strings[i] \in Seq(S)
    OBVIOUS
  <2> QED
    BY <2>1
<1> DEFINE off == [i \in 0 .. n |-> Len(upto[i])]
<1>3. off \in [0 .. n -> Nat] /\ \A i \in 0 .. n : off[i] = Len(upto[i]) /\ upto[i] \in Seq(S)
  <2>1. \A i \in 0 .. n : upto[i] \in Seq(S)
    OBVIOUS
  <2> QED
    BY <2>1
<1>4. off[0] = 0 /\ off[n] = Len(FlattenSeq(strings))
  BY <1>1, <1>2, <1>3
<1> HIDE DEF off, n
<1>5. ASSUME NEW i \in 1 .. n
      PROVE  /\ off[i] = off[i - 1] + Len(strings[i])
             /\ \A p \in 1 .. off[i - 1] : upto[i][p] = upto[i - 1][p]
             /\ \A k \in 1 .. Len(strings[i]) : upto[i][off[i - 1] + k] = strings[i][k]
  <2>0. i \in 0 .. n /\ i - 1 \in 0 .. n
    BY <1>2
  <2>1. upto[i] = upto[i - 1] \o strings[i] /\ strings[i] \in Seq(S)
    BY <1>1, <1>2, Zenon
  <2>2. /\ upto[i - 1] \in Seq(S) /\ off[i - 1] = Len(upto[i - 1])
        /\ off[i] = Len(upto[i]) /\ off[i - 1] \in Nat /\ Len(strings[i]) \in Nat
    BY <1>2, <1>3, <2>0, <2>1
  <2>3. PICK u \in Seq(S) : u = upto[i - 1]
    BY <2>2
  <2>4. PICK v \in Seq(S) : v = strings[i]
    BY <2>1
  <2>5. upto[i] = u \o v
    BY <2>1, <2>3, <2>4, Zenon
  <2>6. /\ Len(u \o v) = Len(u) + Len(v)
        /\ \A p \in 1 .. Len(u) : (u \o v)[p] = u[p]
        /\ \A k \in 1 .. Len(v) : (u \o v)[Len(u) + k] = v[k]
    BY ConcatPlaces
  <2> QED
    BY <2>2, <2>3, <2>4, <2>5, <2>6, Zenon
<1> DEFINE Placed(m) ==
      /\ \A i \in 1 .. m :
           /\ off[i] <= off[m]
           /\ \A k \in 1 .. Len(strings[i]) : upto[m][off[i - 1] + k] = strings[i][k]
      /\ \A p \in 1 .. off[m] : \E i \in 1 .. m : off[i - 1] < p /\ p <= off[i]
           P == {m \in Nat : m <= n => Placed(m)}
<1>6. 0 \in P
  BY <1>4
<1>7. ASSUME NEW m \in Nat, m \in P PROVE m + 1 \in P
  <2> SUFFICES ASSUME m + 1 <= n PROVE Placed(m + 1)
    OBVIOUS
  <2>1. /\ Placed(m) /\ m + 1 \in 1 .. n /\ m + 1 - 1 = m
        /\ off[m] \in Nat /\ off[m + 1] \in Nat
    <3>1. /\ m + 1 \in 1 .. n /\ m + 1 - 1 = m
          /\ m \in 0 .. n /\ m + 1 \in 0 .. n /\ m <= n
      BY <1>2
    <3>2. Placed(m)
      BY <1>7, <3>1
    <3> HIDE DEF Placed
    <3> QED
      BY <1>3, <3>1, <3>2
  <2>2. /\ off[m + 1] = off[m] + Len(strings[m + 1]) /\ Len(strings[m + 1]) \in Nat
        /\ \A p \in 1 .. off[m] : upto[m + 1][p] = upto[m][p]
        /\ \A k \in 1 .. Len(strings[m + 1]) :
             upto[m + 1][off[m] + k] = strings[m + 1][k]
    BY <1>2, <1>5, <2>1
  <2>3. ASSUME NEW i \in 1 .. m + 1
        PROVE  /\ off[i] <= off[m + 1]
               /\ \A k \in 1 .. Len(strings[i]) :
                    upto[m + 1][off[i - 1] + k] = strings[i][k]
    <3>1. CASE i = m + 1
      BY <2>1, <2>2, <3>1
    <3>2. CASE i # m + 1
      <4>1. i \in 1 .. m /\ i \in 1 .. n /\ off[i] \in Nat /\ off[i - 1] \in Nat
        BY <1>2, <1>3, <2>1, <3>2
      <4>2. off[i] <= off[m]
        BY <2>1, <4>1
      <4>3. ASSUME NEW k \in 1 .. Len(strings[i])
            PROVE  upto[m + 1][off[i - 1] + k] = strings[i][k]
        <5>1. off[i] = off[i - 1] + Len(strings[i]) /\ Len(strings[i]) \in Nat
          BY <1>2, <1>5, <4>1
        <5>2. off[i - 1] + k \in 1 .. off[m]
          <6>1. off[i] \in Nat /\ off[i - 1] \in Nat /\ off[m] \in Nat
            BY <2>1, <4>1
          <6> QED
            BY <4>2, <5>1, <6>1
        <5>3. upto[m + 1][off[i - 1] + k] = upto[m][off[i - 1] + k]
          BY <2>2, <5>2
        <5> QED
          BY <2>1, <4>1, <5>3
      <4> QED
        BY <2>1, <2>2, <4>1, <4>2, <4>3, SMTT(30)
    <3> QED
      BY <3>1, <3>2
  <2>4. ASSUME NEW p \in 1 .. off[m + 1]
        PROVE  \E i \in 1 .. m + 1 : off[i - 1] < p /\ p <= off[i]
    <3>1. CASE p <= off[m]
      <4>1. p \in 1 .. off[m]
        BY <2>1, <3>1
      <4>2. PICK i \in 1 .. m : off[i - 1] < p /\ p <= off[i]
        BY <2>1, <4>1
      <4> QED
        BY <4>2
    <3>2. CASE ~(p <= off[m])
      <4>1. m + 1 \in 1 .. m + 1 /\ off[m + 1 - 1] < p /\ p <= off[m + 1]
        BY <2>1, <3>2
      <4> QED
        BY <4>1
    <3> QED
      BY <3>1, <3>2
  <2> QED
    BY <2>3, <2>4
<1>8. Placed(n)
  <2>1. n \in P
    <3> HIDE DEF P
    <3> QED
      BY <1>2, <1>6, <1>7, NatFromZero
  <2> QED
    BY <1>2, <2>1
<1>9. ASSUME NEW i \in 1 .. n
      PROVE  /\ off[i] = off[i - 1] + Len(strings[i])
             /\ off[i] <= Len(FlattenSeq(strings))
             /\ \A k \in 1 .. Len(strings[i]) :
                  FlattenSeq(strings)[off[i - 1] + k] = strings[i][k]
  BY <1>1, <1>4, <1>5, <1>8 DEF n
<1>10. \A p \in 1 .. Len(FlattenSeq(strings)) :
         \E i \in 1 .. n : off[i - 1] < p /\ p <= off[i]
  BY <1>4, <1>8 DEF n
<1> QED
  BY <1>3, <1>4, <1>9, <1>10 DEF n

-----------------------------------------------------------------------------
(* Ranks.                                                                  *)

(* An injective renaming of a finite set of numbers keeps its size.        *)
LEMMA Renaming ==
  ASSUME NEW n \in Nat, NEW P \in SUBSET (1 .. n), NEW g \in [1 .. n -> Nat],
         \A i, j \in 1 .. n : g[i] = g[j] => i = j
  PROVE  /\ IsFiniteSet({g[i] : i \in P})
         /\ Cardinality({g[i] : i \in P}) = Cardinality(P)
<1> DEFINE Q == {g[i] : i \in P}
           h == [i \in P |-> g[i]]
<1>1. IsFiniteSet(P)
  BY Ranks
<1>2. h \in Bijection(P, Q)
  <2>1. h \in [P -> Q] /\ \A i \in P : h[i] = g[i]
    OBVIOUS
  <2>2. \A i, j \in P : h[i] = h[j] => i = j
    BY <2>1
  <2>3. \A q \in Q : \E i \in P : h[i] = q
    BY <2>1
  <2> HIDE DEF Q, h
  <2> QED
    BY <2>1, <2>2, <2>3 DEF Bijection, Injection, Surjection, IsInjective
<1>3. ExistsBijection(P, Q)
  BY <1>2 DEF ExistsBijection
<1> QED
  BY <1>1, <1>3, FS_Bijection

(* A rank belongs to one member.                                           *)
LEMMA RankUnique ==
  ASSUME NEW n \in Nat, NEW T \in SUBSET (1 .. n), NEW i \in T, NEW j \in T,
         Cardinality({h \in T : h < i}) = Cardinality({h \in T : h < j})
  PROVE  i = j
<1>1. ASSUME NEW a \in T, NEW b \in T, a < b,
             Cardinality({h \in T : h < a}) = Cardinality({h \in T : h < b})
      PROVE  FALSE
  <2> DEFINE A == {h \in T : h < a}
             B == {h \in T : h < b}
  <2>1. A \subseteq B /\ a \in B /\ a \notin A /\ B \subseteq T
    <3>1. \A h \in T : h < a => h < b
      <4>1. a \in Nat /\ b \in Nat /\ \A h \in T : h \in Nat
        OBVIOUS
      <4> QED
        BY <1>1, <4>1
    <3>2. ~(a < a)
      OBVIOUS
    <3> QED
      BY <1>1, <3>1, <3>2, Zenon
  <2>2. IsFiniteSet(B)
    BY <2>1, Ranks, FS_Subset
  <2> HIDE DEF A, B
  <2>3. A = B
    BY <1>1, <2>1, <2>2, FS_Subset DEF A, B
  <2> QED
    BY <2>1, <2>3
<1>2. i \in Int /\ j \in Int
  OBVIOUS
<1> QED
  BY <1>1, <1>2

LEMMA SameCardinality == \A P : Queue!Cardinality(P) = Cardinality(P)
BY Zenon DEF Cardinality, Queue!Cardinality

LEMMA NthChosen ==
  \A k, P : Queue!Nth(k, P) =
             CHOOSE i \in P : Cardinality({j \in P : j < i}) = k - 1
BY Zenon DEF Queue!Nth, Cardinality, Queue!Cardinality

(* The member of a rank is there, and is the one with that rank.           *)
LEMMA NthIn ==
  ASSUME NEW n \in Nat, NEW P \in SUBSET (1 .. n), NEW k \in 1 .. Cardinality(P)
  PROVE  /\ Queue!Nth(k, P) \in P
         /\ Cardinality({j \in P : j < Queue!Nth(k, P)}) = k - 1
<1>1. \E i \in P : Cardinality({j \in P : j < i}) = k - 1
  BY Ranks
<1> QED
  BY <1>1, SameCardinality DEF Queue!Nth

LEMMA NthIs ==
  ASSUME NEW n \in Nat, NEW P \in SUBSET (1 .. n), NEW k \in Int, NEW i \in P,
         Cardinality({j \in P : j < i}) = k - 1
  PROVE  Queue!Nth(k, P) = i
<1> DEFINE m == Queue!Nth(k, P)
<1>1. m \in P /\ Cardinality({j \in P : j < m}) = k - 1
  BY SameCardinality DEF Queue!Nth
<1> HIDE DEF m
<1>2. Cardinality({j \in P : j < m}) = Cardinality({j \in P : j < i})
  BY <1>1
<1>3. m = i
  BY <1>1, <1>2, RankUnique, SMTT(30)
<1> QED
  BY <1>3 DEF m

LEMMA MaxIs ==
  ASSUME NEW P \in SUBSET Int, NEW m \in P, \A j \in P : j <= m
  PROVE  Max(P) = m
<1>1. Max(P) \in P /\ \A j \in P : Max(P) >= j
  BY DEF Max
<1>2. Max(P) <= m /\ Max(P) >= m
  BY <1>1
<1>3. Max(P) \in Int /\ m \in Int
  BY <1>1
<1> HIDE <1>1
<1> QED
  BY <1>2, <1>3

LEMMA FirstElement ==
  ASSUME NEW S, NEW s \in Seq(S), Len(s) >= 1
  PROVE  SubSeq(s, 1, 1) = <<s[1]>>
<1> DEFINE u == SubSeq(s, 1, 1)
           v == <<s[1]>>
<1>1. s[1] \in S
  BY ElementOfSeq
<1>2. v \in Seq(S) /\ Len(v) = 1 /\ v[1] = s[1]
  BY <1>1, OneElement
<1>3. u \in Seq(S) /\ Len(u) = 1 /\ u[1] = s[1]
  OBVIOUS
<1> HIDE DEF u, v
<1>4. u = v
  BY <1>2, <1>3, SeqEqual
<1> QED
  BY <1>4 DEF u, v

-----------------------------------------------------------------------------
(* The parser undoes what the codec did.                                   *)

LEMMA Sanitized ==
  ASSUME NEW field \in Seq(Byte)
  PROVE  /\ packet_sanitize_field(field) \in Seq(Byte \ {NL, Pipe})
         /\ Len(packet_sanitize_field(field)) = Len(field)
<1> DEFINE S == Byte \ {NL, Pipe}
           Byte1(b) == CASE b = Pipe -> EscPipe [] b = NL -> EscNL [] OTHER -> b
<1>1. EscPipe \in S /\ EscNL \in S
  BY BytesAssumption, Bytes
<1>2. ASSUME NEW i \in 1 .. Len(field) PROVE Byte1(field[i]) \in S
  BY <1>1
<1>3. packet_sanitize_field(field) = [i \in 1 .. Len(field) |-> Byte1(field[i])]
  BY DEF packet_sanitize_field
<1> HIDE DEF S, Byte1
<1>4. [i \in 1 .. Len(field) |-> Byte1(field[i])] \in [1 .. Len(field) -> S]
  BY <1>2
<1>5. Len(field) \in Nat
  OBVIOUS
<1> QED
  BY <1>3, <1>4, <1>5, SeqOver DEF S

(* A line is the label and, behind a '|' each, the fields: at[i] is where  *)
(* the '|' of field i is, and the last at where one more would be.         *)
LEMMA LineShape ==
  ASSUME NEW packet \in Packet
  PROVE  LET fields == packet.fields
             n == Len(fields)
             line == LineOf(packet)
         IN  \E at \in [1 .. n + 1 -> Nat] :
               /\ at[1] = 2 /\ Len(line) = at[n + 1] - 1
               /\ line[1] = packet.type
               /\ \A i \in 1 .. n :
                    /\ at[i + 1] = at[i] + Len(fields[i]) + 1
                    /\ line[at[i]] = Pipe
                    /\ \A k \in 1 .. Len(fields[i]) :
                         line[at[i] + k] = packet_sanitize_field(fields[i])[k]
               /\ \A p \in 2 .. Len(line) :
                    \E i \in 1 .. n : at[i] <= p /\ p < at[i + 1]
<1> DEFINE fields == packet.fields
           n == Len(fields)
           part(i) == <<Pipe>> \o packet_sanitize_field(fields[i])
           parts == [i \in DOMAIN fields |-> part(i)]
           flat == FlattenSeq(parts)
<1>1. fields \in Seq(Seq(Byte)) /\ packet.type \in Byte /\ n \in Nat
  BY DEF Packet, Byte
<1>2. ASSUME NEW i \in 1 .. n
      PROVE  /\ fields[i] \in Seq(Byte) /\ Len(fields[i]) \in Nat
             /\ part(i) \in Seq(Byte) /\ Len(part(i)) = Len(fields[i]) + 1
             /\ part(i)[1] = Pipe
             /\ \A k \in 1 .. Len(fields[i]) :
                  part(i)[1 + k] = packet_sanitize_field(fields[i])[k]
  <2>1. fields[i] \in Seq(Byte) /\ Len(fields[i]) \in Nat
    BY <1>1
  <2>2. PICK clean \in Seq(Byte) :
          clean = packet_sanitize_field(fields[i]) /\ Len(clean) = Len(fields[i])
    <3>1. Byte \ {NL, Pipe} \subseteq Byte
      OBVIOUS
    <3>2. packet_sanitize_field(fields[i]) \in Seq(Byte)
      BY <2>1, <3>1, Sanitized, SeqMonotonic
    <3> QED
      BY <2>1, <3>2, Sanitized
  <2>3. PICK bar \in Seq(Byte) : bar = <<Pipe>> /\ Len(bar) = 1 /\ bar[1] = Pipe
    <3>1. Pipe \in Byte
      BY Bytes
    <3> QED
      BY <3>1, OneElement, Zenon
  <2>4. /\ bar \o clean \in Seq(Byte)
        /\ Len(bar \o clean) = Len(bar) + Len(clean)
        /\ \A p \in 1 .. Len(bar) : (bar \o clean)[p] = bar[p]
        /\ \A k \in 1 .. Len(clean) : (bar \o clean)[Len(bar) + k] = clean[k]
    BY ConcatPlaces, ConcatProperties
  <2>5. part(i) = bar \o clean
    BY <2>2, <2>3
  <2> HIDE DEF part
  <2> QED
    BY <2>1, <2>2, <2>3, <2>4, <2>5
<1> HIDE DEF part
<1>3. /\ parts \in Seq(Seq(Byte)) /\ Len(parts) = n
      /\ \A i \in 1 .. n : parts[i] = part(i)
  <2>1. DOMAIN fields = 1 .. n
    BY <1>1
  <2>2. parts \in [1 .. n -> Seq(Byte)]
    BY <1>2, <2>1
  <2>3. parts \in Seq(Seq(Byte))
    <3> HIDE DEF parts, n
    <3> QED
      BY <1>1, <2>2, SeqOver
  <2> QED
    BY <1>1, <2>1, <2>3
<1> HIDE DEF parts, fields, n
<1>4. PICK off \in [0 .. n -> Nat] :
        /\ off[0] = 0 /\ off[n] = Len(flat)
        /\ \A i \in 1 .. n :
             /\ off[i] = off[i - 1] + Len(parts[i])
             /\ off[i] <= Len(flat)
             /\ \A k \in 1 .. Len(parts[i]) : flat[off[i - 1] + k] = parts[i][k]
        /\ \A p \in 1 .. Len(flat) : \E i \in 1 .. n : off[i - 1] < p /\ p <= off[i]
  <2>1. \E off \in [0 .. Len(parts) -> Nat] :
           /\ off[0] = 0 /\ off[Len(parts)] = Len(flat)
           /\ \A i \in 1 .. Len(parts) :
                /\ off[i] = off[i - 1] + Len(parts[i])
                /\ off[i] <= Len(flat)
                /\ \A k \in 1 .. Len(parts[i]) :
                     flat[off[i - 1] + k] = parts[i][k]
           /\ \A p \in 1 .. Len(flat) :
                \E i \in 1 .. Len(parts) : off[i - 1] < p /\ p <= off[i]
    BY <1>3, FlattenPositions, Zenon
  <2>2. Len(parts) = n
    BY <1>3
  <2> HIDE DEF flat
  <2> QED
    BY <2>1, <2>2, Zenon
<1>5. /\ LineOf(packet)[1] = packet.type
      /\ Len(LineOf(packet)) = 1 + Len(flat) /\ Len(flat) \in Nat
      /\ \A p \in 1 .. Len(flat) : LineOf(packet)[1 + p] = flat[p]
  <2>1. PICK f \in Seq(Byte) : f = flat
    BY <1>3, FlattenType
  <2>2. PICK label \in Seq(Byte) :
          label = <<packet.type>> /\ Len(label) = 1 /\ label[1] = packet.type
    BY <1>1, OneElement, Zenon
  <2>3. /\ Len(label \o f) = Len(label) + Len(f)
        /\ \A p \in 1 .. Len(label) : (label \o f)[p] = label[p]
        /\ \A k \in 1 .. Len(f) : (label \o f)[Len(label) + k] = f[k]
    BY ConcatPlaces
  <2>4. LineOf(packet) = label \o f
    BY <2>1, <2>2 DEF LineOf, parts, part, fields
  <2>5. Len(f) \in Nat /\ 1 \in 1 .. Len(label)
    BY <2>2
  <2> HIDE DEF flat
  <2> QED
    BY <2>1, <2>2, <2>3, <2>4, <2>5
<1> HIDE DEF flat
<1> DEFINE at == [i \in 1 .. n + 1 |-> off[i - 1] + 2]
<1>6. /\ at \in [1 .. n + 1 -> Nat]
      /\ \A i \in 1 .. n + 1 : at[i] = off[i - 1] + 2
  <2>1. \A i \in 1 .. n + 1 : off[i - 1] \in Nat
    BY <1>1
  <2> QED
    BY <2>1
<1> HIDE DEF at
<1>7. at[1] = 2 /\ Len(LineOf(packet)) = at[n + 1] - 1
  <2>2. at[1] = off[0] + 2 /\ at[n + 1] = off[n] + 2
    <3>1. PICK first \in 1 .. n + 1 : first = 1
      BY <1>1
    <3>2. PICK last \in 1 .. n + 1 : last = n + 1
      BY <1>1
    <3>3. at[first] = off[first - 1] + 2 /\ at[last] = off[last - 1] + 2
      BY <1>6
    <3>4. first - 1 = 0 /\ last - 1 = n
      BY <1>1, <3>1, <3>2
    <3> QED
      BY <3>1, <3>2, <3>3, <3>4, Zenon
  <2>3. off[0] = 0 /\ off[n] = Len(flat) /\ Len(flat) \in Nat
    BY <1>4, <1>5, Zenon
  <2>4. Len(LineOf(packet)) = 1 + Len(flat)
    BY <1>5, Zenon
  <2> QED
    BY <2>2, <2>3, <2>4
<1>8. ASSUME NEW i \in 1 .. n
      PROVE  /\ at[i + 1] = at[i] + Len(fields[i]) + 1
             /\ LineOf(packet)[at[i]] = Pipe
             /\ \A k \in 1 .. Len(fields[i]) :
                  LineOf(packet)[at[i] + k] = packet_sanitize_field(fields[i])[k]
  <2>1. /\ i \in 1 .. n + 1 /\ i + 1 \in 1 .. n + 1 /\ i + 1 - 1 = i
        /\ i \in 0 .. n /\ i - 1 \in 0 .. n
    BY <1>1
  <2>2. /\ at[i] = off[i - 1] + 2 /\ at[i + 1] = off[i] + 2
        /\ off[i - 1] \in Nat /\ off[i] \in Nat
    BY <1>6, <2>1
  <2>3. /\ off[i] = off[i - 1] + Len(parts[i]) /\ Len(parts[i]) = Len(fields[i]) + 1
        /\ Len(fields[i]) \in Nat
    BY <1>2, <1>3, <1>4
  <2>4. /\ off[i] <= Len(flat)
        /\ \A k \in 1 .. Len(parts[i]) : flat[off[i - 1] + k] = parts[i][k]
    BY <1>4
  <2>5. ASSUME NEW k \in 1 .. Len(parts[i])
        PROVE  LineOf(packet)[at[i] + k - 1] = parts[i][k]
    <3>0. Len(flat) \in Nat
      BY <1>5, Zenon
    <3>1. off[i - 1] + k \in 1 .. Len(flat) /\ at[i] + k - 1 = 1 + (off[i - 1] + k)
      <4>1. PICK m \in Nat : m = Len(parts[i]) /\ off[i] = off[i - 1] + m
        BY <2>3
      <4>2. k \in 1 .. m
        BY <4>1
      <4> HIDE <2>3
      <4> QED
        BY <2>2, <2>4, <3>0, <4>1, <4>2, SMTT(30)
    <3>2. LineOf(packet)[1 + (off[i - 1] + k)] = flat[off[i - 1] + k]
      BY <1>5, <3>1
    <3> QED
      BY <2>4, <3>1, <3>2
  <2>6. LineOf(packet)[at[i]] = Pipe
    <3>1. 1 \in 1 .. Len(parts[i]) /\ at[i] + 1 - 1 = at[i]
      BY <2>2, <2>3
    <3>2. parts[i][1] = Pipe
      BY <1>2, <1>3
    <3> QED
      BY <2>5, <3>1, <3>2
  <2>7. ASSUME NEW k \in 1 .. Len(fields[i])
        PROVE  LineOf(packet)[at[i] + k] = packet_sanitize_field(fields[i])[k]
    <3>1. 1 + k \in 1 .. Len(parts[i]) /\ at[i] + (1 + k) - 1 = at[i] + k
      BY <2>2, <2>3
    <3>2. parts[i][1 + k] = packet_sanitize_field(fields[i])[k]
      BY <1>2, <1>3
    <3> QED
      BY <2>5, <3>1, <3>2
  <2>8. at[i + 1] = at[i] + Len(fields[i]) + 1
    BY <2>2, <2>3, SMTT(30)
  <2> QED
    BY <2>6, <2>7, <2>8
<1>9. ASSUME NEW p \in 2 .. Len(LineOf(packet))
      PROVE  \E i \in 1 .. n : at[i] <= p /\ p < at[i + 1]
  <2>1. p - 1 \in 1 .. Len(flat)
    BY <1>5
  <2>2. PICK i \in 1 .. n : off[i - 1] < p - 1 /\ p - 1 <= off[i]
    BY <1>4, <2>1
  <2>3. /\ i \in 1 .. n + 1 /\ i + 1 \in 1 .. n + 1 /\ i + 1 - 1 = i
        /\ i \in 0 .. n /\ i - 1 \in 0 .. n
    BY <1>1
  <2>4. /\ at[i] = off[i - 1] + 2 /\ at[i + 1] = off[i] + 2
        /\ off[i - 1] \in Nat /\ off[i] \in Nat
    BY <1>6, <2>3
  <2> QED
    BY <2>2, <2>4
<1> QED
  BY <1>5, <1>6, <1>7, <1>8, <1>9 DEF n, fields

LEMMA Growing ==
  ASSUME NEW n \in Nat, NEW at \in [1 .. n + 1 -> Nat],
         \A i \in 1 .. n : at[i] < at[i + 1]
  PROVE  \A i, j \in 1 .. n + 1 : i < j => at[i] < at[j]
<1> DEFINE P == {d \in Nat : \A i, j \in 1 .. n + 1 : j = i + d + 1 => at[i] < at[j]}
<1>1. 0 \in P
  <2> SUFFICES ASSUME NEW i \in 1 .. n + 1, NEW j \in 1 .. n + 1, j = i + 1
               PROVE  at[i] < at[j]
    OBVIOUS
  <2>1. i \in 1 .. n
    OBVIOUS
  <2> QED
    BY <2>1
<1>2. ASSUME NEW d \in Nat, d \in P PROVE d + 1 \in P
  <2> SUFFICES ASSUME NEW i \in 1 .. n + 1, NEW j \in 1 .. n + 1, j = i + (d + 1) + 1
               PROVE  at[i] < at[j]
    OBVIOUS
  <2>1. PICK h \in 1 .. n : h = i + d + 1 /\ h + 1 = j
    OBVIOUS
  <2>2. at[i] < at[h]
    BY <1>2, <2>1
  <2>3. at[h] < at[j]
    BY <2>1
  <2>4. at[i] \in Nat /\ at[j] \in Nat /\ at[h] \in Nat
    BY <2>1
  <2> QED
    BY <2>2, <2>3, <2>4
<1>3. \A d \in Nat : d \in P
  <2> HIDE DEF P
  <2> QED
    BY <1>1, <1>2, NatFromZero
<1> SUFFICES ASSUME NEW i \in 1 .. n + 1, NEW j \in 1 .. n + 1, i < j
             PROVE  at[i] < at[j]
  OBVIOUS
<1>4. PICK d \in Nat : j = i + d + 1
  <2>1. j - i - 1 \in Nat /\ j = i + (j - i - 1) + 1
    OBVIOUS
  <2> QED
    BY <2>1
<1> QED
  BY <1>3, <1>4

(* The label is one byte, a field that is sent empty leaves no token, and  *)
(* no field leaves more than one: its '|'s have been replaced.             *)
LEMMA TokensOfLine ==
  ASSUME NEW packet \in Packet
  PROVE  LET fields == packet.fields
             kept   == Queue!Kept(fields)
         IN  Tokens[LineOf(packet)] =
               [k \in 1 .. Cardinality(kept) + 1 |->
                  IF k = 1 THEN <<packet.type>>
                           ELSE packet_sanitize_field(fields[Queue!Nth(k - 1, kept)])]
<1> DEFINE fields == packet.fields
           kept == Queue!Kept(fields)
           n == Len(fields)
           line == LineOf(packet)
           clean(i) == packet_sanitize_field(fields[i])
<1>1. PICK at \in [1 .. n + 1 -> Nat] :
        /\ at[1] = 2 /\ Len(line) = at[n + 1] - 1
        /\ line[1] = packet.type
        /\ \A i \in 1 .. n :
             /\ at[i + 1] = at[i] + Len(fields[i]) + 1
             /\ line[at[i]] = Pipe
             /\ \A k \in 1 .. Len(fields[i]) : line[at[i] + k] = clean(i)[k]
        /\ \A p \in 2 .. Len(line) : \E i \in 1 .. n : at[i] <= p /\ p < at[i + 1]
  BY LineShape, Zenon
<1>2. /\ n \in Nat /\ fields \in Seq(Seq(Byte)) /\ DOMAIN fields = 1 .. n
      /\ packet.type # Pipe /\ packet.type \in Byte
  BY BytesAssumption DEF Packet, Byte
<1>3. \A i \in 1 .. n : /\ fields[i] \in Seq(Byte) /\ Len(fields[i]) \in Nat
                        /\ fields[i] # <<>> <=> Len(fields[i]) >= 1
  <2> SUFFICES ASSUME NEW i \in 1 .. n
               PROVE  /\ fields[i] \in Seq(Byte) /\ Len(fields[i]) \in Nat
                      /\ fields[i] # <<>> <=> Len(fields[i]) >= 1
    OBVIOUS
  <2>1. fields[i] \in Seq(Byte)
    BY <1>2
  <2> QED
    BY <2>1
<1>4. \A i \in 1 .. n : /\ clean(i) \in Seq(Byte \ {NL, Pipe})
                        /\ Len(clean(i)) = Len(fields[i])
  BY <1>3, Sanitized
<1>5. line \in Seq(Byte) /\ Len(line) \in Nat /\ DOMAIN line = 1 .. Len(line)
  <2>1. line \in Seq(Byte \ {NL})
    BY SerializeType
  <2>2. line \in Seq(Byte)
    BY <2>1, SeqMonotonic
  <2> QED
    BY <2>2
<1>6. kept = {i \in 1 .. n : Len(fields[i]) >= 1} /\ kept \in SUBSET (1 .. n)
  BY <1>2, <1>3 DEF Queue!Kept
<1>7. /\ \A i, j \in 1 .. n + 1 : i < j => at[i] < at[j]
      /\ \A i \in 1 .. n + 1 : at[i] \in Nat /\ at[i] >= 2 /\ at[i] <= Len(line) + 1
  <2>1. \A i \in 1 .. n : at[i] < at[i + 1]
    <3> SUFFICES ASSUME NEW i \in 1 .. n PROVE at[i] < at[i + 1]
      OBVIOUS
    <3>1. at[i] \in Nat /\ Len(fields[i]) \in Nat
      BY <1>2, <1>3
    <3> QED
      BY <1>1, <3>1
  <2>2. \A i, j \in 1 .. n + 1 : i < j => at[i] < at[j]
    BY <1>2, <2>1, Growing
  <2>3. ASSUME NEW i \in 1 .. n + 1
        PROVE  at[i] \in Nat /\ at[i] >= 2 /\ at[i] <= Len(line) + 1
    <3>1. 1 \in 1 .. n + 1 /\ n + 1 \in 1 .. n + 1
      BY <1>2
    <3>2. at[i] \in Nat /\ (1 < i => at[1] < at[i]) /\ (i < n + 1 => at[i] < at[n + 1])
      BY <2>2, <3>1
    <3>3. at[1] = 2 /\ at[n + 1] = Len(line) + 1
      <4>1. at[n + 1] \in Nat /\ Len(line) = at[n + 1] - 1 /\ at[1] = 2
        BY <1>1, <3>1
      <4> QED
        BY <4>1
    <3>4. i = 1 \/ 1 < i
      BY <1>2
    <3>5. i = n + 1 \/ i < n + 1
      BY <1>2
    <3> QED
      BY <1>5, <3>2, <3>3, <3>4, <3>5
  <2> QED
    BY <2>2, <2>3
<1> HIDE DEF fields, kept, n, line, clean
(* Where the line has no '|' behind one.                                   *)
<1>8. ASSUME NEW i \in 1 .. n, NEW k \in 1 .. Len(fields[i])
      PROVE  line[at[i] + k] # Pipe /\ at[i] + k \in 1 .. Len(line)
  <2>1. line[at[i] + k] = clean(i)[k]
    BY <1>1
  <2>2. clean(i)[k] \in Byte \ {NL, Pipe}
    BY <1>4, ElementOfSeq
  <2>3. /\ i \in 1 .. n + 1 /\ i + 1 \in 1 .. n + 1 /\ Len(fields[i]) \in Nat
        /\ at[i + 1] = at[i] + Len(fields[i]) + 1
    BY <1>1, <1>2, <1>3
  <2>4. at[i] \in Nat /\ at[i + 1] <= Len(line) + 1
    BY <1>7, <2>3
  <2> QED
    BY <1>5, <2>1, <2>2, <2>3, <2>4
<1>9. ASSUME NEW i \in 1 .. n
      PROVE  line[at[i]] = Pipe /\ at[i] \in 1 .. Len(line) /\ at[i] >= 2
  <2>1. i \in 1 .. n + 1 /\ i + 1 \in 1 .. n + 1 /\ i < i + 1
    BY <1>2
  <2>2. at[i] < at[i + 1] /\ at[i + 1] <= Len(line) + 1 /\ at[i] >= 2
        /\ at[i] \in Nat /\ at[i + 1] \in Nat
    BY <1>7, <2>1
  <2> QED
    BY <1>1, <1>5, <2>2
<1> DEFINE starts  == {i \in DOMAIN line :
                         line[i] # Pipe /\ (i = 1 \/ line[i - 1] = Pipe)}
           From(U) == {1} \cup {at[i] + 1 : i \in U}
<1>10. 1 \in starts /\ line[1] # Pipe /\ Len(line) >= 1
  <2>1. n + 1 \in 1 .. n + 1
    BY <1>2
  <2>2. at[n + 1] \in Nat /\ at[n + 1] >= 2
    BY <1>7, <2>1
  <2>3. Len(line) >= 1
    BY <1>1, <2>2
  <2> QED
    BY <1>1, <1>2, <1>5, <2>3
<1>11. starts = From(kept)
  <2>1. ASSUME NEW i \in kept PROVE at[i] + 1 \in starts
    <3>1. i \in 1 .. n /\ 1 \in 1 .. Len(fields[i])
      BY <1>3, <1>6
    <3>2. line[at[i] + 1] # Pipe /\ at[i] + 1 \in 1 .. Len(line)
      BY <1>8, <3>1
    <3>3. line[at[i]] = Pipe /\ at[i] \in Nat
      BY <1>9, <3>1
    <3>4. at[i] + 1 - 1 = at[i]
      BY <3>3
    <3> QED
      BY <1>5, <3>2, <3>3, <3>4
  <2>2. ASSUME NEW p \in starts, p # 1 PROVE \E i \in kept : p = at[i] + 1
    <3>1. p \in 2 .. Len(line) /\ line[p] # Pipe /\ line[p - 1] = Pipe
      BY <1>5, <2>2
    <3>2. PICK i \in 1 .. n : at[i] <= p /\ p < at[i + 1]
      BY <1>1, <3>1
    <3>3. /\ line[at[i]] = Pipe /\ at[i] \in Nat /\ Len(fields[i]) \in Nat
          /\ at[i + 1] = at[i] + Len(fields[i]) + 1
      BY <1>1, <1>3, <1>9
    <3>4. PICK k \in 1 .. Len(fields[i]) : p = at[i] + k
      <4>1. p # at[i]
        BY <3>1, <3>3
      <4>2. p - at[i] \in 1 .. Len(fields[i]) /\ p = at[i] + (p - at[i])
        BY <3>1, <3>2, <3>3, <4>1, SMTT(30)
      <4> QED
        BY <4>2
    <3>5. k = 1
      <4> SUFFICES ASSUME k # 1 PROVE FALSE
        OBVIOUS
      <4>1. k - 1 \in 1 .. Len(fields[i]) /\ at[i] + (k - 1) = p - 1
        BY <3>3, <3>4
      <4>2. line[at[i] + (k - 1)] # Pipe
        BY <1>8, <4>1
      <4> QED
        BY <3>1, <4>1, <4>2
    <3>6. i \in kept
      BY <1>6, <3>3, <3>4
    <3> QED
      BY <3>4, <3>5, <3>6
  <2>3. ASSUME NEW p \in starts PROVE p \in From(kept)
    BY <2>2
  <2>4. ASSUME NEW p \in From(kept) PROVE p \in starts
    <3> HIDE DEF starts
    <3> QED
      BY <1>10, <2>1
  <2> HIDE DEF starts, From
  <2> QED
    BY <2>3, <2>4
<1>12. ASSUME NEW U \in SUBSET (1 .. n)
       PROVE  Cardinality(From(U)) = Cardinality(U) + 1 /\ Cardinality(U) \in Nat
  <2> DEFINE g == [i \in 1 .. n |-> at[i] + 1]
             Q == {g[i] : i \in U}
  <2>1. g \in [1 .. n -> Nat] /\ \A i \in 1 .. n : g[i] = at[i] + 1
    BY <1>9
  <2>2. ASSUME NEW i \in 1 .. n, NEW j \in 1 .. n, g[i] = g[j] PROVE i = j
    <3>1. at[i] \in Nat /\ at[j] \in Nat /\ at[i] + 1 = at[j] + 1
      BY <1>9, <2>1, <2>2
    <3>2. /\ i \in 1 .. n + 1 /\ j \in 1 .. n + 1
          /\ i < j \/ j < i \/ i = j
      BY <1>2
    <3> HIDE DEF g
    <3>3. (i < j => at[i] < at[j]) /\ (j < i => at[j] < at[i])
      BY <1>7, <3>2
    <3> QED
      BY <3>1, <3>2, <3>3
  <2>3. Q = {at[i] + 1 : i \in U}
    BY <2>1
  <2>4. 1 \notin Q
    <3>1. \A i \in U : at[i] + 1 # 1
      BY <1>9
    <3> HIDE DEF g, Q
    <3> QED
      BY <2>3, <3>1
  <2> HIDE DEF g
  <2>5. IsFiniteSet(Q) /\ Cardinality(Q) = Cardinality(U)
    <3>1. \A i, j \in 1 .. n : g[i] = g[j] => i = j
      BY <2>2
    <3>2. g \in [1 .. n -> Nat]
      BY <2>1
    <3> QED
      BY <1>2, <3>1, <3>2, Renaming
  <2>6. IsFiniteSet(U) /\ Cardinality(U) \in Nat
    BY <1>2, Ranks
  <2> HIDE DEF Q
  <2>7. From(U) = Q \cup {1}
    BY <2>3
  <2> QED
    <3>1. Cardinality(Q \cup {1}) = Cardinality(Q) + 1
      BY <2>4, <2>5, FS_AddElement
    <3> HIDE DEF From
    <3> QED
      BY <2>5, <2>6, <2>7, <3>1
<1>13. ASSUME NEW i \in kept
       PROVE  {j \in starts : j < at[i] + 1} = From({j \in kept : j < i})
  <2>1. i \in 1 .. n /\ i \in 1 .. n + 1 /\ at[i] \in Nat /\ at[i] >= 2
    BY <1>2, <1>6, <1>9
  <2>2. ASSUME NEW j \in kept PROVE at[j] + 1 < at[i] + 1 <=> j < i
    <3>1. /\ j \in 1 .. n /\ j \in 1 .. n + 1 /\ at[j] \in Nat
          /\ i < j \/ j < i \/ i = j
      BY <1>2, <1>6, <1>9, <2>1
    <3>2. (i < j => at[i] < at[j]) /\ (j < i => at[j] < at[i])
      BY <1>7, <2>1, <3>1
    <3> QED
      BY <2>1, <3>1, <3>2
  <2>3. 1 < at[i] + 1
    BY <2>1
  <2> HIDE DEF starts
  <2> QED
    BY <1>11, <2>2, <2>3
<1> DEFINE Nth(k) == Queue!Nth(k, starts)
           Run(i) == {j \in i .. Len(line) : \A h \in i .. j : line[h] # Pipe}
           Token(i) == SubSeq(line, i, Max(Run(i)))
<1>14. starts \in SUBSET (1 .. Len(line))
  BY <1>5
<1> HIDE DEF starts
<1>rank. \A k \in Int : \A i \in starts :
         Cardinality({j \in starts : j < i}) = k - 1 => Nth(k) = i
  BY <1>5, <1>14, NthIs
<1> USE DEF starts
<1>15. Nth(1) = 1
  <2>1. {j \in starts : j < 1} = {}
    BY <1>14
  <2> HIDE DEF starts
  <2>2. Cardinality({j \in starts : j < 1}) = 0
    BY <2>1, FS_EmptySet
  <2>3. Cardinality({j \in starts : j < 1}) = 1 - 1
    BY <2>2
  <2> HIDE DEF Nth
  <2> QED
    BY <1>10, <1>rank, <2>3
<1>16. ASSUME NEW k \in 1 .. Cardinality(kept)
       PROVE  /\ Queue!Nth(k, kept) \in kept
              /\ Nth(k + 1) = at[Queue!Nth(k, kept)] + 1
  <2> DEFINE i == Queue!Nth(k, kept)
             p == at[i] + 1
  <2>1. i \in kept /\ Cardinality({j \in kept : j < i}) = k - 1
    BY <1>2, <1>6, NthIn
  <2> HIDE DEF i, starts
  <2>2. p \in starts
    BY <1>11, <2>1
  <2>3. {j \in kept : j < i} \in SUBSET (1 .. n)
    BY <1>6
  <2>4. Cardinality({j \in starts : j < p}) = k + 1 - 1
    <3>1. {j \in starts : j < p} = From({j \in kept : j < i})
      BY <1>13, <2>1
    <3>2. Cardinality(From({j \in kept : j < i})) = Cardinality({j \in kept : j < i}) + 1
      BY <1>12, <2>3
    <3>3. k - 1 + 1 = k + 1 - 1
      OBVIOUS
    <3> HIDE DEF From, p
    <3> QED
      BY <2>1, <3>1, <3>2, <3>3
  <2> HIDE DEF p
  <2>5. Nth(k + 1) = p
    <3>1. k + 1 \in Int
      OBVIOUS
    <3> HIDE DEF Nth
    <3> QED
      BY <1>rank, <2>2, <2>4, <3>1
  <2> QED
    BY <2>1, <2>5 DEF p, i
<1>18. Token(1) = <<packet.type>>
  <2>1. 1 \in Run(1)
    BY <1>5, <1>10
  <2>2. ASSUME NEW j \in Run(1) PROVE j <= 1
    <3> SUFFICES ASSUME j > 1 PROVE FALSE
      BY <1>5
    <3>1. j \in 2 .. Len(line) /\ line[2] # Pipe /\ 2 \in 2 .. Len(line)
      BY <1>5
    <3>2. PICK i \in 1 .. n : at[i] <= 2 /\ 2 < at[i + 1]
      BY <1>1, <3>1
    <3>3. at[i] = 2
      BY <1>9, <3>2
    <3> QED
      BY <1>9, <3>1, <3>3
  <2>3. Max(Run(1)) = 1
    <3>1. Run(1) \in SUBSET Int
      OBVIOUS
    <3> HIDE DEF Run
    <3> QED
      BY <2>1, <2>2, <3>1, MaxIs
  <2>4. SubSeq(line, 1, 1) = <<line[1]>>
    BY <1>5, <1>10, FirstElement
  <2> QED
    BY <1>1, <2>3, <2>4
<1>19. ASSUME NEW i \in kept PROVE Token(at[i] + 1) = clean(i)
  <2> DEFINE first == at[i] + 1
             last  == at[i] + Len(fields[i])
  <2>1. /\ i \in 1 .. n /\ at[i] \in Nat /\ Len(fields[i]) \in Nat
        /\ Len(fields[i]) >= 1 /\ fields[i] \in Seq(Byte)
    BY <1>3, <1>6, <1>9
  <2>2. last \in Run(first)
    <3>1. ASSUME NEW h \in first .. last PROVE line[h] # Pipe
      <4>1. PICK k \in 1 .. Len(fields[i]) : h = at[i] + k
        <5>1. h - at[i] \in 1 .. Len(fields[i]) /\ h = at[i] + (h - at[i])
          BY <2>1
        <5> QED
          BY <5>1
      <4> QED
        BY <1>8, <2>1, <4>1
    <3>2. last \in first .. Len(line)
      <4>1. Len(fields[i]) \in 1 .. Len(fields[i])
        BY <2>1
      <4>2. last \in 1 .. Len(line)
        BY <1>8, <2>1, <4>1
      <4> QED
        BY <2>1, <4>2
    <3> QED
      BY <3>1, <3>2
  <2>3. ASSUME NEW j \in Run(first) PROVE j <= last
    <3> SUFFICES ASSUME j > last PROVE FALSE
      BY <1>5, <2>1
    <3>1. at[i + 1] = last + 1
      BY <1>1, <2>1
    <3>2. i + 1 \in 1 .. n
      <4> SUFFICES ASSUME i = n PROVE FALSE
        BY <1>2, <2>1
      <4>1. Len(line) = last
        BY <1>1, <2>1, <3>1
      <4> QED
        BY <2>1, <4>1
    <3>3. line[last + 1] = Pipe
      BY <1>9, <3>1, <3>2
    <3>4. last + 1 \in first .. j
      BY <1>5, <2>1
    <3> QED
      BY <3>3, <3>4
  <2>4. Max(Run(first)) = last
    <3>1. Run(first) \in SUBSET Int
      BY <1>5, <2>1
    <3> HIDE DEF Run, first, last
    <3> QED
      BY <2>2, <2>3, <3>1, MaxIs
  <2>5. Token(first) = SubSeq(line, first, last)
    BY <2>4
  <2>6. /\ SubSeq(line, first, last) \in Seq(Byte)
        /\ Len(SubSeq(line, first, last)) = Len(fields[i])
        /\ \A k \in 1 .. Len(fields[i]) : SubSeq(line, first, last)[k] = line[at[i] + k]
    <3>1. \A h \in first .. last : line[h] \in Byte
      <4>1. last \in 1 .. Len(line)
        BY <1>5, <2>1, <2>2
      <4> QED
        BY <1>5, <2>1, <4>1
    <3>2. last - first + 1 = Len(fields[i]) /\ first <= last /\ first \in Int /\ last \in Int
      BY <2>1
    <3>3. \A k \in 1 .. Len(fields[i]) : first + k - 1 = at[i] + k
      BY <2>1
    <3> HIDE DEF first, last
    <3>4. /\ SubSeq(line, first, last) \in Seq(Byte)
          /\ Len(SubSeq(line, first, last)) = last - first + 1
          /\ \A k \in 1 .. last - first + 1 :
               SubSeq(line, first, last)[k] = line[first + k - 1]
      BY <3>1, <3>2, SubSeqProperties
    <3> QED
      BY <3>2, <3>3, <3>4
  <2> HIDE DEF first, last, Token
  <2>7. clean(i) \in Seq(Byte) /\ Len(clean(i)) = Len(fields[i])
    <3>1. Byte \ {NL, Pipe} \subseteq Byte
      OBVIOUS
    <3> QED
      BY <1>4, <2>1, <3>1, SeqMonotonic
  <2>8. \A k \in 1 .. Len(fields[i]) : SubSeq(line, first, last)[k] = clean(i)[k]
    BY <1>1, <2>1, <2>6
  <2>9. SubSeq(line, first, last) = clean(i)
    BY <2>6, <2>7, <2>8, SeqEqual
  <2> QED
    BY <2>5, <2>9 DEF first
<1>20. Tokens[line] = [k \in 1 .. Cardinality(starts) |-> Token(Nth(k))]
  <2> DEFINE Chosen(k) == CHOOSE i \in starts : Cardinality({j \in starts : j < i}) = k - 1
  <2>1. Tokens[line] = [k \in 1 .. Cardinality(starts) |-> Token(Chosen(k))]
    BY <1>5 DEF Tokens
  <2>2. \A k : Chosen(k) = Nth(k)
    <3> HIDE DEF starts
    <3> QED
      BY NthChosen, Zenon
  <2> HIDE DEF starts, Chosen, Nth, Token
  <2> QED
    BY <2>1, <2>2
<1> HIDE DEF Token, Nth, starts
<1>21. Cardinality(starts) = Cardinality(kept) + 1 /\ Cardinality(kept) \in Nat
  BY <1>6, <1>11, <1>12
<1>22. ASSUME NEW k \in 1 .. Cardinality(kept) + 1
       PROVE  Token(Nth(k)) = IF k = 1 THEN <<packet.type>>
                              ELSE clean(Queue!Nth(k - 1, kept))
  <2>1. CASE k = 1
    BY <1>15, <1>18, <2>1
  <2>2. CASE k # 1
    <3>1. PICK m \in 1 .. Cardinality(kept) : m = k - 1 /\ k = m + 1
      BY <1>21, <2>2
    <3>2. /\ Queue!Nth(m, kept) \in kept
          /\ Nth(m + 1) = at[Queue!Nth(m, kept)] + 1
      BY <1>16
    <3>3. Token(Nth(m + 1)) = clean(Queue!Nth(m, kept))
      BY <1>19, <3>2
    <3> QED
      BY <2>2, <3>1, <3>3
  <2> QED
    BY <2>1, <2>2
<1>23. Tokens[line] = [k \in 1 .. Cardinality(kept) + 1 |->
                         IF k = 1 THEN <<packet.type>>
                                  ELSE clean(Queue!Nth(k - 1, kept))]
  BY <1>20, <1>21, <1>22
<1> QED
  BY <1>23 DEF line, clean, kept, fields

(* The bytes of a field.                                                   *)
Text == Letter \cup {Pipe, NL, EscPipe, EscNL}

LEMMA ReadType ==
  ASSUME NEW field \in Seq(Byte)
  PROVE  Queue!Read(field) \in Seq(Byte)
<1> DEFINE Back(b) == CASE b = EscPipe -> Pipe [] b = EscNL -> NL [] OTHER -> b
<1>1. \A b \in Byte : Back(b) \in Byte
  BY DEF Byte
<1>2. Queue!Read(field) = [i \in 1 .. Len(field) |-> Back(field[i])]
  BY DEF Queue!Read
<1> HIDE DEF Back
<1> QED
  BY <1>1, <1>2

(* What can be written to the stream: fields cut to their arrays.          *)
Sendable(packet) ==
  /\ packet \in Packet /\ CanSerialize(packet)
  /\ Len(packet.fields) <= MaxFields
  /\ \A i \in 1 .. Len(packet.fields) :
       /\ packet.fields[i] \in Seq(Text)
       /\ Len(packet.fields[i]) < FieldSize

(* The separators come back, and so do the bytes that stood for them.      *)
LEMMA Restored ==
  ASSUME NEW field \in Seq(Text)
  PROVE  packet_restore_field(packet_sanitize_field(field)) = Queue!Read(field)
<1> DEFINE Out(b) == CASE b = Pipe -> EscPipe [] b = NL -> EscNL [] OTHER -> b
           Back(b) == CASE b = EscPipe -> Pipe [] b = EscNL -> NL [] OTHER -> b
           wired == [i \in DOMAIN field |-> Out(field[i])]
<1>1. \A b \in Text : Back(Out(b)) = Back(b)
  BY BytesAssumption DEF Text
<1>2. \A i \in DOMAIN field : field[i] \in Text
  OBVIOUS
<1>3. packet_sanitize_field(field) = wired
  BY DEF packet_sanitize_field
<1> HIDE DEF Out, Back
<1>4. DOMAIN wired = DOMAIN field /\ \A i \in DOMAIN field : wired[i] = Out(field[i])
  OBVIOUS
<1> HIDE DEF wired
<1>5. packet_restore_field(wired) = [i \in DOMAIN field |-> Back(wired[i])]
  BY <1>4 DEF packet_restore_field, Back
<1>6. [i \in DOMAIN field |-> Back(wired[i])] = [i \in DOMAIN field |-> Back(field[i])]
  BY <1>1, <1>2, <1>4
<1>7. Queue!Read(field) = [i \in DOMAIN field |-> Back(field[i])]
  BY DEF Queue!Read, Back
<1> QED
  BY <1>3, <1>5, <1>6, <1>7

(* From the line of a packet the parser makes the packet again, without    *)
(* its empty fields and with the two bytes that stand for the separators   *)
(* read as these: whatever bytes its fields hold, separators included, and *)
(* however many fields it has (packet.c:35-173).                           *)
THEOREM RoundTrip ==
  ASSUME NEW packet, Sendable(packet)
  PROVE  /\ packet_deserialize(LineOf(packet)) = Queue!Arriving(packet)
         /\ Queue!Arriving(packet) \in Packet
<1> DEFINE fields == packet.fields
           kept   == Queue!Kept(fields)
           c      == Cardinality(kept)
           line   == LineOf(packet)
           N(k)   == Queue!Nth(k, kept)
           tokens == Tokens[line]
           left   == [k \in 1 .. c |-> Queue!Read(fields[N(k)])]
<1>1. /\ packet \in Packet /\ fields \in Seq(Seq(Byte)) /\ packet.type \in Type
      /\ Len(fields) \in Nat /\ DOMAIN fields = 1 .. Len(fields)
  BY DEF Sendable, Packet
<1>2. line \in Seq(Byte) /\ Len(line) < PacketSize /\ Len(line) \in Nat
  <2>1. line \in Seq(Byte \ {NL})
    BY <1>1, SerializeType
  <2>2. line \in Seq(Byte)
    BY <2>1, SeqMonotonic
  <2> QED
    BY <2>2, SizesAssumption DEF Sendable, CanSerialize
<1>3. packet_deserialize(line) = PacketOf[tokens]
  <2>1. SubSeq(line, 1, Len(line)) = line
    BY <1>2, SubSeqFull
  <2> HIDE DEF line
  <2> QED
    BY <1>2, <2>1 DEF packet_deserialize
<1>4. kept \in SUBSET (1 .. Len(fields)) /\ c \in Nat /\ c <= Len(fields)
  <2>1. kept \in SUBSET (1 .. Len(fields))
    BY <1>1 DEF Queue!Kept
  <2>2. IsFiniteSet(1 .. Len(fields)) /\ Cardinality(1 .. Len(fields)) = Len(fields)
    BY <1>1, FS_Interval
  <2> HIDE DEF kept
  <2>3. IsFiniteSet(kept) /\ Cardinality(kept) <= Cardinality(1 .. Len(fields))
    BY <2>1, <2>2, FS_Subset
  <2>4. Cardinality(kept) \in Nat
    BY <2>3, FS_CardinalityType
  <2> QED
    BY <1>1, <2>1, <2>2, <2>3, <2>4
<1>5. \A k \in 1 .. c : N(k) \in 1 .. Len(fields)
  <2> HIDE DEF kept
  <2> QED
    BY <1>1, <1>4, NthIn
<1>6. tokens = [k \in 1 .. c + 1 |-> IF k = 1 THEN <<packet.type>>
                                     ELSE packet_sanitize_field(fields[N(k - 1)])]
  BY <1>1, TokensOfLine, Zenon
<1>7. tokens \in Seq(Seq(Byte))
  BY <1>2, TokensType
<1> HIDE DEF tokens, line, c, kept, fields, N
<1>8. /\ Len(tokens) = c + 1 /\ tokens[1] = <<packet.type>>
      /\ \A k \in 1 .. c : tokens[k + 1] = packet_sanitize_field(fields[N(k)])
  <2>1. Len(tokens) = c + 1 /\ tokens[1] = <<packet.type>>
    BY <1>4, <1>6
  <2>2. ASSUME NEW k \in 1 .. c
        PROVE  tokens[k + 1] = packet_sanitize_field(fields[N(k)])
    <3>1. k + 1 \in 1 .. c + 1 /\ k + 1 # 1 /\ k + 1 - 1 = k
      BY <1>4
    <3>2. tokens[k + 1] = packet_sanitize_field(fields[N(k + 1 - 1)])
      BY <1>6, <3>1
    <3> QED
      BY <3>1, <3>2
  <2> QED
    BY <2>1, <2>2
<1>9. ~ \/ tokens = <<>>
        \/ tokens[1] \notin {<<type>> : type \in Type}
        \/ Len(tokens) > MaxFields + 1
        \/ \E i \in 2 .. Len(tokens) : Len(tokens[i]) >= FieldSize
  <2>1. tokens # <<>>
    BY <1>4, <1>8
  <2>2. tokens[1] \in {<<type>> : type \in Type}
    BY <1>1, <1>8
  <2>3. Len(tokens) <= MaxFields + 1
    BY <1>1, <1>4, <1>8, SizesAssumption DEF Sendable, fields
  <2>4. ASSUME NEW i \in 2 .. Len(tokens) PROVE Len(tokens[i]) < FieldSize
    <3>1. PICK k \in 1 .. c : i = k + 1
      <4>1. i - 1 \in 1 .. c /\ i = (i - 1) + 1
        BY <1>4, <1>8
      <4> QED
        BY <4>1
    <3>2. N(k) \in 1 .. Len(fields)
      BY <1>5
    <3>3. fields[N(k)] \in Seq(Byte) /\ Len(fields[N(k)]) < FieldSize
      BY <1>1, <3>2 DEF Sendable, fields
    <3>4. Len(packet_sanitize_field(fields[N(k)])) = Len(fields[N(k)])
      BY <3>3, Sanitized
    <3> QED
      BY <1>8, <3>1, <3>3, <3>4
  <2>5. \A i \in 2 .. Len(tokens) : Len(tokens[i]) \in Nat
    BY <1>7
  <2> QED
    BY <1>4, <1>8, <2>1, <2>2, <2>3, <2>4, <2>5, SizesAssumption
<1>10. PacketOf[tokens] = [type   |-> tokens[1][1],
                           fields |-> [i \in 1 .. Len(tokens) - 1 |->
                                         packet_restore_field(tokens[i + 1])]]
  BY <1>7, <1>9 DEF PacketOf
<1>11. tokens[1][1] = packet.type
  BY <1>8
<1>12. [i \in 1 .. Len(tokens) - 1 |-> packet_restore_field(tokens[i + 1])] = left
  <2>1. Len(tokens) - 1 = c
    BY <1>4, <1>8
  <2>2. ASSUME NEW k \in 1 .. c
        PROVE  packet_restore_field(tokens[k + 1]) = Queue!Read(fields[N(k)])
    <3>1. N(k) \in 1 .. Len(fields)
      BY <1>5
    <3>2. fields[N(k)] \in Seq(Text)
      BY <3>1 DEF Sendable, fields
    <3> QED
      BY <1>8, <3>2, Restored
  <2> QED
    BY <2>1, <2>2
<1>13. Queue!Arriving(packet) = [type |-> packet.type, fields |-> left]
  <2>1. Queue!Arriving(packet) = [packet EXCEPT !.fields = left]
    BY SameCardinality DEF Queue!Arriving, left, kept, c, fields, N
  <2> HIDE DEF left
  <2> QED
    BY <1>1, <2>1 DEF Packet
<1>14. left \in Seq(Seq(Byte))
  <2>1. \A k \in 1 .. c : Queue!Read(fields[N(k)]) \in Seq(Byte)
    BY <1>1, <1>5, ReadType
  <2>2. left \in [1 .. c -> Seq(Byte)]
    BY <2>1
  <2> HIDE DEF left
  <2> QED
    BY <1>4, <2>2, SeqOver
<1> HIDE DEF left
<1>15. Queue!Arriving(packet) \in Packet
  BY <1>1, <1>13, <1>14 DEF Packet
<1> QED
  BY <1>3, <1>10, <1>11, <1>12, <1>13, <1>15 DEF line

LEMMA BuildSendable ==
  ASSUME NEW type \in Type, NEW fields \in Content,
         CanSerialize(packet_build(type, fields))
  PROVE  Sendable(packet_build(type, fields))
<1> DEFINE S == Text
           packet == packet_build(type, fields)
           cut(field) == SubSeq(field, 1,
                                IF Len(field) < FieldSize THEN Len(field)
                                                          ELSE FieldSize - 1)
<1>1. fields \in Seq(Seq(S)) /\ Len(fields) <= MaxFields /\ Len(fields) \in Nat
  BY ContentAssumption DEF Text
<1>2. packet \in Packet
  BY BuildType
<1>3. ASSUME NEW field \in Seq(S)
      PROVE  cut(field) \in Seq(S) /\ Len(cut(field)) < FieldSize
  <2> HIDE DEF S
  <2> QED
    BY SizesAssumption, SubSeqProperties
<1> HIDE DEF S, cut
<1>4. packet.fields = [i \in 1 .. Len(fields) |-> cut(fields[i])]
  BY <1>1 DEF packet_build, cut
<1>5. Len(packet.fields) = Len(fields) /\ DOMAIN packet.fields = 1 .. Len(fields)
  <2>1. packet.fields \in Seq(Seq(Byte))
    BY <1>2 DEF Packet
  <2> HIDE DEF packet
  <2> QED
    BY <1>1, <1>4, <2>1
<1> HIDE DEF packet
<1>6. \A i \in 1 .. Len(packet.fields) :
        packet.fields[i] \in Seq(S) /\ Len(packet.fields[i]) < FieldSize
  BY <1>1, <1>3, <1>4, <1>5
<1>7. CanSerialize(packet)
  BY DEF packet
<1> QED
  BY <1>1, <1>2, <1>5, <1>6, <1>7 DEF Sendable, S, packet

-----------------------------------------------------------------------------
(* The bytes between two threads.                                          *)

Written(k) == packet_serialize(sent[k])

(* off[k] is where the line of packet k ends.  The lines of the packets    *)
(* not dispatched follow each other from the first byte not read; a        *)
(* connection that breaks loses the end.                                   *)
Laid(off) ==
  /\ off \in [Len(received) .. Len(sent) -> Nat]
  /\ off[Len(received)] = start - 1
  /\ \A k \in Len(received) + 1 .. Len(sent) :
       /\ off[k] = off[k - 1] + Len(Written(k))
       /\ \A i \in 1 .. Len(Written(k)) :
            off[k - 1] + i <= Len(Stream) => Stream[off[k - 1] + i] = Written(k)[i]
  /\ \A j, k \in Len(received) .. Len(sent) : j <= k => off[j] <= off[k]
  /\ Len(Stream) <= off[Len(sent)]
  /\ conn # "broken" => Len(Stream) = off[Len(sent)]

Flow ==
  /\ Len(received) <= Len(sent)
  /\ \A k \in 1 .. Len(sent) : Sendable(sent[k])
  /\ \E off : Laid(off)

LEMMA FlowInit == Init => Flow
<1> SUFFICES ASSUME Init PROVE Flow
  OBVIOUS
<1> DEFINE off == [k \in 0 .. 0 |-> 0]
<1>1. /\ received = <<>> /\ sent = <<>> /\ start = 1
      /\ Stream = <<>> /\ Len(received) = 0 /\ Len(sent) = 0
  BY DEF Init, Stream
<1>2. off \in [0 .. 0 -> Nat] /\ off[0] = 0
  OBVIOUS
<1> HIDE DEF off
<1>3. Laid(off)
  BY <1>1, <1>2 DEF Laid
<1> QED
  BY <1>1, <1>3 DEF Flow

LEMMA Counts ==
  ASSUME TypeOK
  PROVE  /\ Len(received) \in Nat /\ Len(sent) \in Nat
         /\ \A k \in 1 .. Len(sent) : sent[k] \in Packet
         /\ \A k \in 1 .. Len(sent) :
              Written(k) \in Seq(Byte) /\ Len(Written(k)) \in Nat \ {0}
<1>1. received \in Seq(Packet) /\ sent \in Seq(Packet)
  BY DEF TypeOK
<1>2. \A k \in 1 .. Len(sent) : sent[k] \in Packet
  BY <1>1
<1> QED
  BY <1>1, <1>2, SerializeType DEF Written

(* A step that reads nothing and writes nothing.                           *)
LEMMA FlowKept ==
  ASSUME Flow, UNCHANGED <<received, sent, start>>, Stream' = Stream,
         conn' # "broken" => conn # "broken"
  PROVE  Flow'
<1>1. PICK off : Laid(off)
  BY DEF Flow
<1>2. Laid(off)'
  BY <1>1 DEF Laid, Written
<1> QED
  BY <1>2 DEF Flow

(* A line that is written comes behind the others.                         *)
LEMMA FlowSend ==
  ASSUME IInv, Flow, conn = "open",
         NEW packet, Sendable(packet),
         wire' = wire \o packet_serialize(packet),
         sent' = Append(sent, packet),
         UNCHANGED <<conn, accum, start, received>>
  PROVE  Flow'
<1> DEFINE more == packet_serialize(packet)
<1>1. PICK r, m : r = Len(received) /\ m = Len(sent)
  OBVIOUS
<1>2. /\ r \in Nat /\ m \in Nat /\ r <= m
      /\ more \in Seq(Byte) /\ Len(more) \in Nat
      /\ \A k \in 1 .. m : Written(k) \in Seq(Byte) /\ Len(Written(k)) \in Nat
  BY <1>1, Counts, SerializeType DEF IInv, Flow, Sendable
<1>3. PICK off : Laid(off)
  BY DEF Flow
<1>4. Stream \in Seq(Byte) /\ Len(Stream) \in Nat
  BY StreamFacts DEF IInv
<1>5. Stream' = Stream \o more
  <2>1. accum \in Seq(Byte) /\ wire \in Seq(Byte)
    BY DEF IInv, TypeOK
  <2>2. (accum \o wire) \o more = accum \o (wire \o more)
    BY <1>2, <2>1, Associative, Zenon
  <2>3. Stream' = accum' \o wire'
    BY DEF Stream
  <2>4. accum' = accum /\ wire' = wire \o more
    OBVIOUS
  <2> QED
    BY <2>2, <2>3, <2>4, Zenon DEF Stream
<1>6. /\ Len(Stream') = Len(Stream) + Len(more)
      /\ \A i \in 1 .. Len(Stream) : Stream'[i] = Stream[i]
      /\ \A i \in 1 .. Len(more) : Stream'[Len(Stream) + i] = more[i]
  <2> HIDE DEF more
  <2> QED
    BY <1>2, <1>4, <1>5, ConcatPlaces
<1>7. /\ Len(sent') = m + 1 /\ sent'[m + 1] = packet
      /\ \A k \in 1 .. m : sent'[k] = sent[k]
  BY <1>1, AppendProperties DEF IInv, TypeOK
<1>8. Written(m + 1)' = more /\ \A k \in 1 .. m : Written(k)' = Written(k)
  BY <1>7 DEF Written
<1>9. /\ off \in [r .. m -> Nat] /\ off[m] = Len(Stream) /\ off[r] = start - 1
      /\ \A k \in r + 1 .. m :
           /\ off[k] = off[k - 1] + Len(Written(k))
           /\ \A i \in 1 .. Len(Written(k)) :
                off[k - 1] + i <= Len(Stream) =>
                  Stream[off[k - 1] + i] = Written(k)[i]
      /\ \A j, k \in r .. m : j <= k => off[j] <= off[k]
  BY <1>3, <1>1 DEF Laid
<1>10. PICK longer \in [r .. m + 1 -> Nat] :
        /\ longer[m + 1] = Len(Stream) + Len(more)
        /\ \A k \in r .. m : longer[k] = off[k]
  <2> DEFINE l == [k \in r .. m + 1 |-> IF k = m + 1 THEN off[m] + Len(more) ELSE off[k]]
  <2> HIDE DEF more
  <2>1. /\ l \in [r .. m + 1 -> Nat] /\ l[m + 1] = Len(Stream) + Len(more)
        /\ \A k \in r .. m : l[k] = off[k]
    BY <1>2, <1>9
  <2> QED
    BY <2>1
<1>11. ASSUME NEW k \in r + 1 .. m + 1
      PROVE  /\ longer[k] = longer[k - 1] + Len(Written(k)')
             /\ \A i \in 1 .. Len(Written(k)') :
                  longer[k - 1] + i <= Len(Stream') =>
                    Stream'[longer[k - 1] + i] = Written(k)'[i]
  <2> HIDE DEF more
  <2>1. CASE k = m + 1
    <3>1. m \in r .. m /\ k - 1 = m /\ longer[m] = Len(Stream)
      <4>1. m \in r .. m /\ k - 1 = m
        BY <1>2, <2>1
      <4> QED
        BY <1>9, <1>10, <4>1
    <3>2. Len(Stream') = longer[m + 1] /\ longer[m + 1] \in Nat
      BY <1>2, <1>6, <1>10
    <3>3. /\ longer[k] = longer[k - 1] + Len(more)
          /\ \A i \in 1 .. Len(more) : Stream'[longer[k - 1] + i] = more[i]
      BY <1>6, <1>10, <2>1, <3>1
    <3>4. Written(k)' = more
      BY <1>8, <2>1
    <3> QED
      BY <2>1, <3>2, <3>3, <3>4
  <2>2. CASE k # m + 1
    <3>1. k \in r + 1 .. m /\ k \in r .. m /\ k - 1 \in r .. m /\ k \in 1 .. m
      BY <1>2, <2>2
    <3>2. /\ longer[k] = off[k] /\ longer[k - 1] = off[k - 1]
          /\ Written(k)' = Written(k)
      BY <1>8, <1>10, <3>1
    <3>3. \A i \in 1 .. Len(Written(k)) :
            off[k - 1] + i \in 1 .. Len(Stream)
      <4> SUFFICES ASSUME NEW i \in 1 .. Len(Written(k))
                   PROVE  off[k - 1] + i \in 1 .. Len(Stream)
        OBVIOUS
      <4>1. off[k - 1] \in Nat /\ off[k] \in Nat
        BY <1>9, <3>1
      <4>2. off[k] = off[k - 1] + Len(Written(k)) /\ off[k] <= off[m] /\ off[m] = Len(Stream)
        BY <1>2, <1>9, <3>1
      <4>3. Len(Written(k)) \in Nat
        BY <1>2, <3>1
      <4> QED
        BY <1>4, <4>1, <4>2, <4>3
    <3>4. \A i \in 1 .. Len(Written(k)) :
            /\ Stream[off[k - 1] + i] = Written(k)[i]
            /\ Stream'[off[k - 1] + i] = Stream[off[k - 1] + i]
      BY <1>4, <1>6, <1>9, <3>1, <3>3
    <3>5. longer[k] = longer[k - 1] + Len(Written(k)')
      BY <1>9, <3>1, <3>2
    <3> QED
      BY <3>2, <3>4, <3>5
  <2> QED
    BY <2>1, <2>2
<1>12. Laid(longer)'
  <2>1. /\ Len(received') = r /\ Len(sent') = m + 1 /\ start' = start /\ conn' = conn
        /\ longer[r] = start - 1
    BY <1>1, <1>2, <1>7, <1>9, <1>10
  <2> HIDE DEF more
  <2>2. longer \in [Len(received') .. Len(sent') -> Nat]
    BY <1>10, <2>1
  <2>3. Len(Stream') = longer[Len(sent')]
    BY <1>6, <1>10, <2>1
  <2>4. \A k \in Len(received') + 1 .. Len(sent') :
          /\ longer[k] = longer[k - 1] + Len(Written(k)')
          /\ \A i \in 1 .. Len(Written(k)') :
               longer[k - 1] + i <= Len(Stream') =>
                 Stream'[longer[k - 1] + i] = Written(k)'[i]
    BY <1>11, <2>1
  <2>5. \A j, k \in Len(received') .. Len(sent') : j <= k => longer[j] <= longer[k]
    <3> SUFFICES ASSUME NEW j \in r .. m + 1, NEW k \in r .. m + 1, j <= k
                 PROVE  longer[j] <= longer[k]
      BY <2>1
    <3>1. CASE k \in r .. m
      BY <1>2, <1>9, <1>10, <3>1
    <3>2. CASE k = m + 1 /\ j \in r .. m
      <4>1. m \in r .. m /\ off[j] \in Nat
        BY <1>2, <1>9, <3>2
      <4>2. off[j] <= off[m]
        BY <1>2, <1>9, <3>2, <4>1
      <4> QED
        BY <1>2, <1>4, <1>9, <1>10, <3>2, <4>1, <4>2
    <3>3. CASE j = m + 1
      BY <1>2, <1>10, <3>3
    <3> QED
      BY <1>2, <3>1, <3>2, <3>3
  <2>6. Len(Stream') <= longer[Len(sent')] /\ longer[Len(received')] = start' - 1
    BY <1>2, <1>4, <2>1, <2>3
  <2> QED
    BY <2>2, <2>3, <2>4, <2>6, <2>5, Zenon DEF Laid
<1>13. Len(received') <= Len(sent') /\ \A k \in 1 .. Len(sent') : Sendable(sent'[k])
  BY <1>1, <1>2, <1>7 DEF Flow
<1> QED
  BY <1>12, <1>13 DEF Flow

(* A connection that breaks loses what has not arrived.                    *)
LEMMA FlowBreak ==
  ASSUME IInv, Flow, Break
  PROVE  Flow'
<1>1. PICK off : Laid(off)
  BY DEF Flow
<1>2. /\ Stream \in Seq(Byte) /\ Len(Stream) = Len(accum) + Len(wire)
      /\ Len(accum) \in Nat /\ Len(wire) \in Nat
      /\ \A i \in 1 .. Len(accum) : Stream[i] = accum[i]
  BY StreamFacts DEF IInv
<1>3. /\ Stream' = accum /\ conn' = "broken"
      /\ UNCHANGED <<received, sent, start>>
  BY ConcatEmptySeq DEF Break, Stream, IInv, TypeOK
<1>4. /\ Len(received) \in Nat /\ Len(sent) \in Nat /\ Len(received) <= Len(sent)
      /\ \A k \in 1 .. Len(sent) : Len(Written(k)) \in Nat
  BY Counts DEF IInv, Flow
<1>5. off \in [Len(received) .. Len(sent) -> Nat]
  BY <1>1 DEF Laid
<1>6. ASSUME NEW k \in Len(received) + 1 .. Len(sent), NEW i \in 1 .. Len(Written(k)),
             off[k - 1] + i <= Len(accum)
      PROVE  accum[off[k - 1] + i] = Written(k)[i]
  <2>1. off[k - 1] \in Nat /\ i \in Nat \ {0}
    <3>1. k - 1 \in Len(received) .. Len(sent) /\ k \in 1 .. Len(sent)
      BY <1>4
    <3> QED
      BY <1>4, <1>5, <3>1, SMTT(30)
  <2>2. off[k - 1] + i \in 1 .. Len(accum) /\ off[k - 1] + i <= Len(Stream)
    BY <1>2, <1>6, <2>1
  <2>3. Stream[off[k - 1] + i] = Written(k)[i]
    BY <1>1, <2>2 DEF Laid
  <2> QED
    BY <1>2, <2>2, <2>3
<1>7. Len(accum) <= off[Len(sent)]
  <2>1. Len(sent) \in Len(received) .. Len(sent)
    BY <1>4
  <2>2. Len(Stream) <= off[Len(sent)] /\ off[Len(sent)] \in Nat
    BY <1>1, <1>5, <2>1 DEF Laid
  <2> QED
    BY <1>2, <2>2
<1>8. Laid(off)'
  BY <1>1, <1>3, <1>6, <1>7 DEF Laid, Written
<1> QED
  BY <1>3, <1>8 DEF Flow

(* The partial line that is kept begins where it did in the stream.        *)
LEMMA FlowLeftover ==
  ASSUME IInv, Flow, KeepLeftover
  PROVE  Flow'
<1>1. PICK off : Laid(off)
  BY DEF Flow
<1>2. PICK r, m, s : r = Len(received) /\ m = Len(sent) /\ s = start - 1
  OBVIOUS
<1>3. /\ r \in Nat /\ m \in Nat /\ r <= m /\ s \in Nat
      /\ \A k \in 1 .. m : Len(Written(k)) \in Nat
      /\ Len(Stream) \in Nat
  BY <1>2, Counts, StreamFacts DEF IInv, Flow
<1>4. /\ Len(Stream') = Len(Stream) - s
      /\ \A i \in 1 .. Len(Stream') : Stream'[i] = Stream[s + i]
  <2>1. start \in Nat
    BY StreamFacts DEF IInv
  <2>2. /\ Len(Stream') = Len(Stream) - start + 1
        /\ \A i \in 1 .. Len(Stream') : Stream'[i] = Stream[start + i - 1]
    BY LeftoverBytes
  <2>3. \A i \in 1 .. Len(Stream') : start + i - 1 = s + i
    BY <1>2, <2>1
  <2> QED
    BY <1>2, <1>3, <2>1, <2>2, <2>3
<1>5. UNCHANGED <<received, sent, conn>> /\ start' = 1
  BY DEF KeepLeftover
<1>6. /\ off \in [r .. m -> Nat] /\ off[r] = s
      /\ \A k \in r + 1 .. m :
           /\ off[k] = off[k - 1] + Len(Written(k))
           /\ \A i \in 1 .. Len(Written(k)) :
                off[k - 1] + i <= Len(Stream) => Stream[off[k - 1] + i] = Written(k)[i]
      /\ \A j, k \in r .. m : j <= k => off[j] <= off[k]
      /\ Len(Stream) <= off[m]
      /\ conn # "broken" => Len(Stream) = off[m]
  BY <1>1, <1>2 DEF Laid
<1>7. \A k \in r .. m : off[k] \in Nat /\ off[k] >= s
  BY <1>3, <1>6
<1>8. PICK shifted \in [r .. m -> Nat] : \A k \in r .. m : shifted[k] = off[k] - s
  <2> DEFINE f == [k \in r .. m |-> off[k] - s]
  <2>1. f \in [r .. m -> Nat] /\ \A k \in r .. m : f[k] = off[k] - s
    BY <1>3, <1>7
  <2> QED
    BY <2>1
<1>9. ASSUME NEW k \in r + 1 .. m
      PROVE  /\ shifted[k] = shifted[k - 1] + Len(Written(k))
             /\ \A i \in 1 .. Len(Written(k)) :
                  shifted[k - 1] + i <= Len(Stream') =>
                    Stream'[shifted[k - 1] + i] = Written(k)[i]
  <2>1. k \in r .. m /\ k - 1 \in r .. m /\ k \in 1 .. m
    BY <1>3
  <2>2. /\ off[k] \in Nat /\ off[k - 1] \in Nat /\ off[k - 1] >= s
        /\ off[k] = off[k - 1] + Len(Written(k)) /\ Len(Written(k)) \in Nat
        /\ shifted[k] = off[k] - s /\ shifted[k - 1] = off[k - 1] - s
    BY <1>3, <1>6, <1>7, <1>8, <2>1
  <2>3. ASSUME NEW i \in 1 .. Len(Written(k)), shifted[k - 1] + i <= Len(Stream')
        PROVE  Stream'[shifted[k - 1] + i] = Written(k)[i]
    <3>1. /\ off[k - 1] + i <= Len(Stream) /\ shifted[k - 1] + i \in 1 .. Len(Stream')
          /\ s + (shifted[k - 1] + i) = off[k - 1] + i
      <4>1. Len(Stream') = Len(Stream) - s /\ Len(Stream) \in Nat /\ s \in Nat
        BY <1>3, <1>4
      <4>2. i \in Nat /\ i >= 1
        BY <2>2
      <4> QED
        BY <2>2, <2>3, <4>1, <4>2, SMTT(30)
    <3>2. Stream[off[k - 1] + i] = Written(k)[i]
      BY <1>6, <3>1
    <3> QED
      BY <1>4, <3>1, <3>2
  <2>4. shifted[k] = shifted[k - 1] + Len(Written(k))
    BY <1>3, <2>2
  <2> QED
    BY <2>3, <2>4
<1>10. /\ shifted[r] = 0 /\ Len(Stream') <= shifted[m]
       /\ conn # "broken" => Len(Stream') = shifted[m]
       /\ \A j, k \in r .. m : j <= k => shifted[j] <= shifted[k]
  <2>1. r \in r .. m /\ m \in r .. m
    BY <1>3
  <2>2. shifted[r] = 0 /\ shifted[m] = off[m] - s /\ off[m] \in Nat
    BY <1>3, <1>6, <1>8, <2>1
  <2>3. \A j, k \in r .. m : j <= k => shifted[j] <= shifted[k]
    BY <1>3, <1>6, <1>7, <1>8
  <2> QED
    BY <1>3, <1>4, <1>6, <2>2, <2>3
<1>11. Laid(shifted)'
  <2>1. /\ Len(received') = r /\ Len(sent') = m /\ start' - 1 = 0
        /\ \A k : Written(k)' = Written(k)
    BY <1>2, <1>5 DEF Written
  <2> QED
    BY <1>5, <1>8, <1>9, <1>10, <2>1 DEF Laid
<1> QED
  BY <1>5, <1>11 DEF Flow

(* The line that is taken is the line of the packet that was sent next.    *)
LEMMA Taken ==
  ASSUME IInv, Flow, TakeLine, NEW off, Laid(off)
  PROVE  /\ Len(received) < Len(sent)
         /\ start' - 1 = off[Len(received) + 1]
         /\ received' = Append(received, Queue!Arriving(sent[Len(received) + 1]))
<1> DEFINE r == Len(received)
           m == Len(sent)
           end == Min(Ends)
<1>1. /\ r \in Nat /\ m \in Nat /\ r <= m
      /\ \A k \in 1 .. m : Written(k) \in Seq(Byte) /\ Len(Written(k)) \in Nat \ {0}
  BY Counts DEF IInv, Flow
<1>2. /\ Stream \in Seq(Byte) /\ Len(Stream) = Len(accum) + Len(wire)
      /\ Len(accum) \in Nat /\ Len(wire) \in Nat
      /\ \A i \in 1 .. Len(accum) : Stream[i] = accum[i]
      /\ start \in 1 .. Len(accum) + 1
  BY StreamFacts DEF IInv
<1>3. /\ end \in start .. Len(accum) /\ accum[end] = NL
      /\ \A i \in Ends : end <= i
      /\ start' = end + 1
      /\ received' = LET packet == packet_deserialize(SubSeq(accum, start, end - 1))
                     IN  IF packet = Malformed THEN received
                                               ELSE Append(received, packet)
  BY FirstEnd DEF TakeLine, IInv
<1> HIDE DEF end
<1>4. r < m
  <2> SUFFICES ASSUME r = m PROVE FALSE
    BY <1>1
  <2>1. Len(Stream) <= start - 1
    BY DEF Laid
  <2> QED
    BY <1>2, <1>3, <2>1
<1> DEFINE packet == sent[r + 1]
           line == LineOf(packet)
           w == Len(line)
<1>5. r + 1 \in r + 1 .. m /\ r + 1 - 1 = r /\ r + 1 \in 1 .. m
  BY <1>1, <1>4
<1>6. Sendable(packet) /\ packet \in Packet
  BY <1>5 DEF Flow, Sendable
<1>7. /\ line \in Seq(Byte) /\ w \in Nat
      /\ \A i \in 1 .. w : line[i] # NL
      /\ Len(Written(r + 1)) = w + 1 /\ Written(r + 1)[w + 1] = NL
      /\ \A i \in 1 .. w : Written(r + 1)[i] = line[i]
  <2>1. line \in Seq(Byte \ {NL})
    BY <1>6, SerializeType
  <2>2. line \in Seq(Byte)
    BY <2>1, SeqMonotonic
  <2>3. Written(r + 1) = Append(line, NL)
    BY DEF Written, packet_serialize
  <2> HIDE DEF line
  <2>4. \A i \in 1 .. w : line[i] # NL
    BY <2>1
  <2> QED
    BY <2>2, <2>3, <2>4, Bytes, AppendProperties
<1> HIDE DEF line, packet
<1>8. /\ off[r] = start - 1
      /\ off[r + 1] = off[r] + Len(Written(r + 1))
      /\ \A i \in 1 .. Len(Written(r + 1)) :
           off[r] + i <= Len(Stream) => Stream[off[r] + i] = Written(r + 1)[i]
  BY <1>5 DEF Laid
<1> HIDE DEF r, m
<1>9. \A i \in 1 .. w + 1 :
        start - 1 + i <= Len(accum) => accum[start - 1 + i] = Written(r + 1)[i]
  <2> SUFFICES ASSUME NEW i \in 1 .. w + 1, start - 1 + i <= Len(accum)
               PROVE  accum[start - 1 + i] = Written(r + 1)[i]
    OBVIOUS
  <2>1. start - 1 + i \in 1 .. Len(accum) /\ start - 1 + i <= Len(Stream)
    BY <1>2, <1>7
  <2> QED
    BY <1>2, <1>7, <1>8, <2>1
<1>10. end = start + w
  <2>1. end >= start + w
    <3> SUFFICES ASSUME end < start + w PROVE FALSE
      BY <1>2, <1>3, <1>7
    <3>1. end - start + 1 \in 1 .. w /\ start - 1 + (end - start + 1) = end /\ end <= Len(accum)
      BY <1>2, <1>3, <1>7
    <3>2. end - start + 1 \in 1 .. w + 1
      BY <1>7, <3>1
    <3>3. accum[end] = Written(r + 1)[end - start + 1]
      BY <1>9, <3>1, <3>2
    <3> QED
      BY <1>3, <1>7, <3>1, <3>3
  <2>2. start + w <= Len(accum) /\ start + w \in start .. Len(accum)
    BY <1>2, <1>3, <1>7, <2>1
  <2>3. accum[start + w] = NL
    <3>1. w + 1 \in 1 .. w + 1 /\ start - 1 + (w + 1) = start + w
      BY <1>2, <1>7
    <3> QED
      BY <1>7, <1>9, <2>2, <3>1
  <2>4. end <= start + w
    BY <1>3, <2>2, <2>3 DEF Ends
  <2> QED
    BY <1>2, <1>3, <1>7, <2>1, <2>4
<1>11. SubSeq(accum, start, end - 1) = line
  <2> DEFINE cut == SubSeq(accum, start, end - 1)
  <2>1. /\ cut \in Seq(Byte) /\ Len(cut) = w
        /\ \A i \in 1 .. w : cut[i] = accum[start + i - 1]
    <3>1. accum \in Seq(Byte) /\ end - 1 = start + w - 1
      BY <1>2, <1>7, <1>10 DEF IInv, TypeOK
    <3> QED
      BY <1>2, <1>3, <1>7, <1>10, <3>1, SubSeqProperties
  <2> HIDE DEF cut
  <2>2. ASSUME NEW i \in 1 .. w PROVE cut[i] = line[i]
    <3>1. /\ i \in 1 .. w + 1 /\ start - 1 + i <= Len(accum)
          /\ start + i - 1 = start - 1 + i
      BY <1>2, <1>3, <1>7, <1>10, SMTT(30)
    <3> QED
      BY <1>7, <1>9, <2>1, <3>1
  <2>3. cut = line
    BY <1>7, <2>1, <2>2
  <2> QED
    BY <2>3 DEF cut
<1>12. received' = Append(received, Queue!Arriving(packet))
  <2>1. /\ packet_deserialize(line) = Queue!Arriving(packet)
        /\ Queue!Arriving(packet) \in Packet
    BY <1>6, RoundTrip DEF line
  <2>2. packet_deserialize(line) # Malformed
    BY <2>1, MalformedAssumption
  <2> QED
    BY <1>3, <1>11, <2>1, <2>2
<1>13. start' - 1 = off[r + 1]
  <2>1. off[r + 1] = start - 1 + (w + 1)
    BY <1>7, <1>8
  <2>2. start' = start + w + 1 /\ start \in Nat /\ w \in Nat
    BY <1>2, <1>3, <1>7, <1>10
  <2> QED
    BY <2>1, <2>2
<1> QED
  BY <1>4, <1>12, <1>13 DEF r, m, packet

LEMMA FlowTake ==
  ASSUME IInv, Flow, TakeLine
  PROVE  Flow'
<1>1. PICK off : Laid(off)
  BY DEF Flow
<1>2. PICK r, m : r = Len(received) /\ m = Len(sent)
  OBVIOUS
<1>3. /\ r \in Nat /\ m \in Nat /\ r < m
      /\ start' - 1 = off[r + 1] /\ Len(received') = r + 1
  <2>1. received \in Seq(Packet)
    BY DEF IInv, TypeOK
  <2> QED
    BY <1>1, <1>2, <2>1, Taken, Counts DEF IInv
<1>4. Stream' = Stream /\ UNCHANGED <<sent, conn>>
  BY DEF TakeLine, Stream
<1>5. /\ off \in [r .. m -> Nat]
      /\ \A k \in r + 1 .. m :
           /\ off[k] = off[k - 1] + Len(Written(k))
           /\ \A i \in 1 .. Len(Written(k)) :
                off[k - 1] + i <= Len(Stream) => Stream[off[k - 1] + i] = Written(k)[i]
      /\ \A j, k \in r .. m : j <= k => off[j] <= off[k]
      /\ Len(Stream) <= off[m]
      /\ conn # "broken" => Len(Stream) = off[m]
  BY <1>1, <1>2 DEF Laid
<1>6. PICK rest \in [r + 1 .. m -> Nat] : \A k \in r + 1 .. m : rest[k] = off[k]
  <2> DEFINE f == [k \in r + 1 .. m |-> off[k]]
  <2>1. f \in [r + 1 .. m -> Nat] /\ \A k \in r + 1 .. m : f[k] = off[k]
    BY <1>3, <1>5
  <2> QED
    BY <2>1
<1>7. /\ rest[r + 1] = off[r + 1] /\ rest[m] = off[m]
      /\ \A j, k \in r + 1 .. m : j <= k => rest[j] <= rest[k]
  BY <1>3, <1>5, <1>6
<1>8. ASSUME NEW k \in r + 1 + 1 .. m
      PROVE  /\ rest[k] = rest[k - 1] + Len(Written(k))
             /\ \A i \in 1 .. Len(Written(k)) :
                  rest[k - 1] + i <= Len(Stream) => Stream[rest[k - 1] + i] = Written(k)[i]
  <2>1. k \in r + 1 .. m /\ k - 1 \in r + 1 .. m
    BY <1>3
  <2>2. rest[k] = off[k] /\ rest[k - 1] = off[k - 1]
    BY <1>6, <2>1
  <2> QED
    BY <1>5, <2>1, <2>2
<1>9. Laid(rest)'
  <2>1. /\ Len(received') = r + 1 /\ Len(sent') = m
        /\ \A k : Written(k)' = Written(k)
    BY <1>2, <1>3, <1>4 DEF Written
  <2> QED
    BY <1>3, <1>4, <1>5, <1>6, <1>7, <1>8, <2>1 DEF Laid
<1>10. Len(received') <= Len(sent')
  BY <1>2, <1>3, <1>4
<1> QED
  BY <1>4, <1>9, <1>10 DEF Flow

LEMMA FlowStep == IInv /\ Flow /\ [Next]_vars => Flow'
<1> SUFFICES ASSUME IInv, Flow, [Next]_vars PROVE Flow'
  OBVIOUS
<1>1. ASSUME NEW type \in Type, NEW fields \in Content, Send(type, fields)
      PROVE  Flow'
  <2> DEFINE packet == packet_build(type, fields)
  <2>1. CASE CanSerialize(packet)
    <3>1. Sendable(packet)
      BY <2>1, BuildSendable
    <3>2. /\ conn = "open"
          /\ wire' = wire \o packet_serialize(packet) /\ sent' = Append(sent, packet)
          /\ UNCHANGED <<conn, accum, start, received>>
      BY <1>1, <2>1 DEF Send, SendPacket
    <3> HIDE DEF packet
    <3> QED
      BY <3>1, <3>2, FlowSend
  <2>2. CASE ~CanSerialize(packet)
    <3>1. UNCHANGED <<wire, sent, conn, accum, start, received>>
      BY <1>1, <2>2 DEF Send, SendPacket
    <3> QED
      BY <3>1, FlowKept DEF Stream
  <2> QED
    BY <2>1, <2>2
<1>2. CASE Close
  BY <1>2, FlowKept DEF Close, Stream
<1>3. CASE Break
  BY <1>3, FlowBreak
<1>4. ASSUME NEW bytes \in 1 .. PacketSize - 1, Recv(bytes) PROVE Flow'
  <2>1. Stream' = Stream
    BY <1>4, RecvStream DEF IInv
  <2>2. UNCHANGED <<received, sent, start, conn>>
    BY <1>4 DEF Recv
  <2> QED
    BY <2>1, <2>2, FlowKept
<1>5. CASE RecvNothing
  BY <1>5, FlowKept DEF RecvNothing, Stream
<1>6. CASE TakeLine
  BY <1>6, FlowTake
<1>7. CASE KeepLeftover
  BY <1>7, FlowLeftover
<1>8. CASE UNCHANGED vars
  BY <1>8, FlowKept DEF vars, Stream
<1> QED
  BY <1>1, <1>2, <1>3, <1>4, <1>5, <1>6, <1>7, <1>8, NextCases

-----------------------------------------------------------------------------
(* The queue.                                                              *)

Waiting == SubSeq(sent, Len(received) + 1, Len(sent))

(* What is left of a sequence after its first n.                           *)
LEMMA Behind ==
  ASSUME NEW S, NEW s \in Seq(S), NEW n \in Nat, n <= Len(s)
  PROVE  /\ \A e \in S : SubSeq(Append(s, e), n + 1, Len(s) + 1)
                           = Append(SubSeq(s, n + 1, Len(s)), e)
         /\ n < Len(s) =>
              /\ SubSeq(s, n + 1, Len(s)) # <<>>
              /\ Head(SubSeq(s, n + 1, Len(s))) = s[n + 1]
              /\ Tail(SubSeq(s, n + 1, Len(s))) = SubSeq(s, n + 2, Len(s))
<1> DEFINE rest == SubSeq(s, n + 1, Len(s))
<1>1. /\ Len(s) \in Nat /\ rest \in Seq(S) /\ Len(rest) = Len(s) - n
      /\ \A i \in 1 .. Len(s) - n : rest[i] = s[n + i]
  OBVIOUS
<1>2. ASSUME NEW e \in S
      PROVE  SubSeq(Append(s, e), n + 1, Len(s) + 1) = Append(rest, e)
  <2> DEFINE more == Append(s, e)
             left == SubSeq(more, n + 1, Len(s) + 1)
             right == Append(rest, e)
             d == Len(s) - n
  <2>1. /\ more \in Seq(S) /\ Len(more) = Len(s) + 1
        /\ more[Len(s) + 1] = e /\ \A i \in 1 .. Len(s) : more[i] = s[i]
    OBVIOUS
  <2> HIDE DEF more
  <2>2. /\ left \in Seq(S) /\ Len(left) = d + 1
        /\ \A i \in 1 .. d + 1 : left[i] = more[n + i]
    BY <1>1, <2>1
  <2> HIDE DEF left, rest
  <2>3. /\ right \in Seq(S) /\ Len(right) = d + 1
        /\ right[d + 1] = e /\ \A i \in 1 .. d : right[i] = rest[i]
    BY <1>1, AppendProperties
  <2> HIDE DEF right
  <2>4. ASSUME NEW i \in 1 .. d + 1 PROVE left[i] = right[i]
    <3>1. CASE i = d + 1
      <4>1. n + i = Len(s) + 1
        BY <1>1, <3>1
      <4> QED
        BY <2>1, <2>2, <2>3, <3>1, <4>1
    <3>2. CASE i # d + 1
      <4>1. i \in 1 .. d /\ n + i \in 1 .. Len(s)
        BY <1>1, <3>2
      <4> QED
        BY <1>1, <2>1, <2>2, <2>3, <4>1
    <3> QED
      BY <3>1, <3>2
  <2>5. left = right
    BY <1>1, <2>2, <2>3, <2>4
  <2> QED
    BY <2>5 DEF left, right, more
<1>3. ASSUME n < Len(s)
      PROVE  /\ rest # <<>> /\ Head(rest) = s[n + 1]
             /\ Tail(rest) = SubSeq(s, n + 2, Len(s))
  <2>1. n + 1 \in 1 .. Len(s) /\ n + 1 <= Len(s) /\ n + 1 + 1 = n + 2
    BY <1>1, <1>3
  <2>2. Head(rest) = s[n + 1] /\ Tail(rest) = SubSeq(s, n + 2, Len(s))
    BY <1>1, <2>1, HeadTailOfSubSeq
  <2> HIDE DEF rest
  <2>3. rest # <<>>
    BY <1>1, <1>3
  <2> QED
    BY <2>2, <2>3
<1> QED
  BY <1>2, <1>3 DEF rest

LEMMA QueueSend ==
  ASSUME IInv, Flow, NEW type \in Type, NEW fields \in Content, Send(type, fields)
  PROVE  [Queue!Next]_(Queue!vars)
<1> DEFINE packet == packet_build(type, fields)
<1>1. received' = received
  BY DEF Send
<1>2. CASE CanSerialize(packet)
  <2>1. sent' = Append(sent, packet) /\ packet \in Packet
    BY <1>2, BuildType DEF Send, SendPacket
  <2>2. /\ sent \in Seq(Packet) /\ Len(received) \in Nat
        /\ Len(received) <= Len(sent)
    BY Counts DEF IInv, TypeOK, Flow
  <2> HIDE DEF packet
  <2>3. Len(sent') = Len(sent) + 1
    BY <2>1, <2>2
  <2>4. SubSeq(sent', Len(received') + 1, Len(sent'))
          = Append(SubSeq(sent, Len(received) + 1, Len(sent)), packet)
    BY <1>1, <2>1, <2>2, <2>3, Behind
  <2>5. Queue!Send(packet)
    BY <1>1, <2>4 DEF Queue!Send
  <2>6. packet \in {packet_build(t, f) : t \in Type, f \in Content}
    BY DEF packet
  <2> QED
    BY <2>5, <2>6 DEF Queue!Next
<1>3. CASE ~CanSerialize(packet)
  <2>1. sent' = sent
    BY <1>3 DEF Send, SendPacket
  <2> QED
    BY <1>1, <2>1 DEF Queue!vars
<1> QED
  BY <1>2, <1>3

LEMMA QueueDispatch ==
  ASSUME IInv, Flow, TakeLine
  PROVE  Queue!Dispatch
<1>1. PICK off : Laid(off)
  BY DEF Flow
<1>2. /\ Len(received) < Len(sent)
      /\ received' = Append(received, Queue!Arriving(sent[Len(received) + 1]))
  BY <1>1, Taken
<1>3. /\ sent \in Seq(Packet) /\ received \in Seq(Packet)
      /\ Len(received) \in Nat /\ sent' = sent
  BY Counts DEF IInv, TypeOK, TakeLine
<1>4. Len(received') = Len(received) + 1
  BY <1>2, <1>3
<1>5. /\ Waiting # <<>> /\ Head(Waiting) = sent[Len(received) + 1]
      /\ Tail(Waiting) = SubSeq(sent, Len(received) + 2, Len(sent))
  BY <1>2, <1>3, Behind DEF Waiting
<1>6. SubSeq(sent', Len(received') + 1, Len(sent')) = Tail(Waiting)
  <2>1. Len(received) + 1 + 1 = Len(received) + 2
    BY <1>3
  <2> QED
    BY <1>3, <1>4, <1>5, <2>1
<1> QED
  BY <1>2, <1>5, <1>6 DEF Queue!Dispatch, Waiting

LEMMA QueueStep == IInv /\ Flow /\ [Next]_vars => [Queue!Next]_(Queue!vars)
<1> SUFFICES ASSUME IInv, Flow, [Next]_vars PROVE [Queue!Next]_(Queue!vars)
  OBVIOUS
<1>1. CASE UNCHANGED <<received, sent>>
  BY <1>1 DEF Queue!vars
<1>2. ASSUME NEW type \in Type, NEW fields \in Content, Send(type, fields)
      PROVE  [Queue!Next]_(Queue!vars)
  BY <1>2, QueueSend
<1>3. CASE TakeLine
  BY <1>3, QueueDispatch DEF Queue!Next
<1>4. ASSUME NEW bytes \in 1 .. PacketSize - 1, Recv(bytes) PROVE UNCHANGED <<received, sent>>
  BY <1>4 DEF Recv
<1>5. Close \/ Break \/ RecvNothing \/ KeepLeftover \/ UNCHANGED vars
        => UNCHANGED <<received, sent>>
  BY DEF Close, Break, RecvNothing, KeepLeftover, vars
<1> QED
  BY <1>1, <1>2, <1>3, <1>4, <1>5, NextCases

LEMMA QueueInit == Init => Queue!Init
BY DEF Init, Queue!Init

(* The stream, the reassembly and the escapes make a queue of packets: for *)
(* every sequence of fields that is sent and however recv() cuts the       *)
(* bytes, what is dispatched is what was sent, in its order, without its   *)
(* empty fields (packet.c:35-173, server.c:196-245, client_socket.c).      *)
THEOREM QueueImplemented == Spec => ImplementsQueue
<1>1. Init => IInv
  BY TypesInit, StreamInit DEF IInv
<1>2. IInv /\ [Next]_vars => IInv'
  BY TypesStep, StreamStep DEF IInv
<1> QED
  BY <1>1, <1>2, FlowInit, FlowStep, QueueInit, QueueStep, PTL
     DEF Spec, ImplementsQueue, Queue!Spec
=============================================================================
