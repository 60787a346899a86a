---------------------------- MODULE PacketCodec ----------------------------
(***************************************************************************)
(* The wire format: server/src/packet.c, of which client/network/src holds *)
(* an identical copy.  A packet is a type and at most MaxFields fields; on *)
(* the wire it is its type's label, '|' before each field, and '\n'.       *)
(*                                                                         *)
(* A string is a sequence of bytes without its terminating '\0'.  A label  *)
(* is one byte: what matters of it is that it is known and is not a field. *)
(***************************************************************************)
EXTENDS Integers, Sequences, FiniteSets, SequencesExt

CONSTANTS
  Type,           \* the packet types, and the labels that stand for them
  Letter,         \* the bytes without a meaning of their own
  Pipe, NL,       \* '|' and '\n'
  EscPipe, EscNL, \* what replaces them inside a field, '\x01' and '\x02'
  PacketSize,     \* PACKET_MAX_SIZE
  FieldSize,      \* PACKET_FIELD_SIZE
  MaxFields,      \* PACKET_MAX_FIELDS
  Malformed       \* a line that packet_deserialize rejects

ASSUME SizesAssumption ==
  /\ PacketSize \in Nat /\ FieldSize \in Nat /\ MaxFields \in Nat
  /\ FieldSize > 1 /\ PacketSize > 2

ASSUME BytesAssumption ==
  /\ Pipe # NL /\ EscPipe # EscNL
  /\ {Pipe, NL} \cap {EscPipe, EscNL} = {}
  /\ (Letter \cup Type) \cap {Pipe, NL, EscPipe, EscNL} = {}
  /\ Letter \cap Type = {}

Byte == Letter \cup Type \cup {Pipe, NL, EscPipe, EscNL}

Packet == [type : Type, fields : Seq(Seq(Byte))]

ASSUME MalformedAssumption == Malformed \notin Packet

(* Every caller gives at most MaxFields fields; each is cut to its array.  *)
packet_build(type, fields) ==
  [type   |-> type,
   fields |-> [i \in DOMAIN fields |->
                 SubSeq(fields[i], 1,
                        IF Len(fields[i]) < FieldSize THEN Len(fields[i])
                                                      ELSE FieldSize - 1)]]

(* (The mutant forgets '\n'.)                                              *)
packet_sanitize_field_Pipe(field) ==
  [i \in DOMAIN field |-> IF field[i] = Pipe THEN EscPipe ELSE field[i]]
packet_sanitize_field(field) ==
  [i \in DOMAIN field |-> CASE field[i] = Pipe -> EscPipe
                            [] field[i] = NL   -> EscNL
                            [] OTHER           -> field[i]]

packet_restore_field(field) ==
  [i \in DOMAIN field |-> CASE field[i] = EscPipe -> Pipe
                            [] field[i] = EscNL   -> NL
                            [] OTHER              -> field[i]]

(* The line of a packet, without its '\n'.                                 *)
LineOf(packet) ==
  <<packet.type>> \o
  FlattenSeq([i \in DOMAIN packet.fields |->
                <<Pipe>> \o packet_sanitize_field(packet.fields[i])])

(* packet_serialize succeeds if the line, '\n' and '\0' fit its buffer.    *)
CanSerialize(packet) == Len(LineOf(packet)) + 2 <= PacketSize

packet_serialize(packet) == Append(LineOf(packet), NL)

(* strtok: the longest stretches of a line without a '|'; between two '|'  *)
(* that follow each other there is no token.                               *)
Tokens[line \in Seq(Byte)] ==
  LET starts   == {i \in DOMAIN line :
                     line[i] # Pipe /\ (i = 1 \/ line[i - 1] = Pipe)}
      Nth(k)   == CHOOSE i \in starts :
                    Cardinality({j \in starts : j < i}) = k - 1
      Token(i) == SubSeq(line, i, Max({j \in i .. Len(line) :
                                         \A h \in i .. j : line[h] # Pipe}))
  IN  [k \in 1 .. Cardinality(starts) |-> Token(Nth(k))]

(* The first token is the label of a type, the others are the fields.      *)
PacketOf[tokens \in Seq(Seq(Byte))] ==
  IF \/ tokens = <<>>
     \/ tokens[1] \notin {<<type>> : type \in Type}
     \/ Len(tokens) > MaxFields + 1
     \/ \E i \in 2 .. Len(tokens) : Len(tokens[i]) >= FieldSize
  THEN Malformed
  ELSE [type   |-> tokens[1][1],
        fields |-> [i \in 1 .. Len(tokens) - 1 |->
                      packet_restore_field(tokens[i + 1])]]

(* Both callers have replaced the '\n' of the line, so none is stripped.   *)
packet_deserialize(line) ==
  PacketOf[Tokens[SubSeq(line, 1, IF Len(line) < PacketSize
                                  THEN Len(line) ELSE PacketSize - 1)]]
=============================================================================
