------------------------------ MODULE Framing ------------------------------
(***************************************************************************)
(* One direction of a connection: packets are written to a TCP stream,     *)
(* which has no message boundaries, and the receiving thread cuts what     *)
(* each recv() returns into lines again.  handle_client_packets of the     *)
(* server and listener_thread of the client are the same loop; send_packet *)
(* and client_socket_send are the same function.                           *)
(*                                                                         *)
(* A send() is one step: TCP keeps the order of the bytes of one call.     *)
(***************************************************************************)
EXTENDS PacketCodec

CONSTANTS
  AccumSize,  \* RECV_ACCUM_SIZE, 16 packets in the code
  Content,    \* the sequences of fields that are sent
  MaxSends    \* bound on the calls that send a packet

ASSUME AccumAssumption == /\ AccumSize \in Nat /\ AccumSize >= 2 * PacketSize
                          /\ MaxSends \in Nat

(* A field holds whatever the caller has: packet_sanitize_field replaces   *)
(* the separators, and lets the bytes that replace them through unchanged. *)
ASSUME ContentAssumption ==
  \A fields \in Content :
    /\ fields \in Seq(Seq(Letter \cup {Pipe, NL, EscPipe, EscNL}))
    /\ Len(fields) <= MaxFields

VARIABLES
  conn,      \* "open"; "closed" by the sender; "broken"
  wire,      \* the bytes sent and not yet received
  accum,     \* accum[0 .. accum_len - 1]
  start,     \* line_start, counted from 1
  pc,        \* of the receiving thread: in recv(), at the lines, ended
  received,  \* the packets dispatched
  sent,      \* the packets written to the stream, as they were built
  sends      \* how many calls tried to

vars == <<conn, wire, accum, start, pc, received, sent, sends>>

Init ==
  /\ conn = "open"
  /\ wire = <<>> /\ accum = <<>> /\ start = 1
  /\ pc = "recv"
  /\ received = <<>>
  /\ sent = <<>> /\ sends = 0

-----------------------------------------------------------------------------
(* The sender.                                                             *)

(* A packet that does not serialise is not sent: the caller gets -1.       *)
SendPacket(packet) ==
  IF CanSerialize(packet)
  THEN wire' = wire \o packet_serialize(packet) /\ sent' = Append(sent, packet)
  ELSE UNCHANGED <<wire, sent>>

Send(type, fields) ==
  /\ conn = "open" /\ sends < MaxSends
  /\ SendPacket(packet_build(type, fields))
  /\ sends' = sends + 1
  /\ UNCHANGED <<conn, accum, start, pc, received>>

(* closesocket: the bytes sent before it still arrive.                     *)
Close ==
  /\ conn = "open"
  /\ conn' = "closed"
  /\ UNCHANGED <<wire, accum, start, pc, received, sent, sends>>

(* The connection breaks: what has not arrived never will.                 *)
Break ==
  /\ conn = "open"
  /\ conn' = "broken" /\ wire' = <<>>
  /\ UNCHANGED <<accum, start, pc, received, sent, sends>>

-----------------------------------------------------------------------------
(* The receiving thread.                                                   *)

(* recv() returns between 1 and sizeof recv_buf - 1 bytes.  If they do not *)
(* fit, they are dropped with the backlog.                                 *)
Recv(bytes) ==
  /\ pc = "recv" /\ bytes <= Len(wire)
  /\ wire' = SubSeq(wire, bytes + 1, Len(wire))
  /\ IF Len(accum) + bytes >= AccumSize
     THEN accum' = <<>> /\ pc' = "recv"
     ELSE accum' = accum \o SubSeq(wire, 1, bytes) /\ pc' = "lines"
  /\ UNCHANGED <<conn, start, received, sent, sends>>

(* recv() returns 0 or fails.                                              *)
RecvNothing ==
  /\ pc = "recv" /\ conn # "open" /\ wire = <<>>
  /\ pc' = "ended"
  /\ UNCHANGED <<conn, wire, accum, start, received, sent, sends>>

Ends == {i \in start .. Len(accum) : accum[i] = NL}

(* The next '\n': its line is parsed, and dispatched if it is a packet.    *)
(* (The mutant has an if for the while, and leaves the rest for later.)    *)
TakeLine_Once ==
  /\ pc = "lines" /\ Ends # {}
  /\ LET packet == packet_deserialize(SubSeq(accum, start, Min(Ends) - 1))
     IN  received' = IF packet = Malformed THEN received
                                           ELSE Append(received, packet)
  /\ accum' = SubSeq(accum, Min(Ends) + 1, Len(accum)) /\ start' = 1
  /\ pc' = "recv"
  /\ UNCHANGED <<conn, wire, sent, sends>>
TakeLine ==
  /\ pc = "lines" /\ Ends # {}
  /\ LET packet == packet_deserialize(SubSeq(accum, start, Min(Ends) - 1))
     IN  received' = IF packet = Malformed THEN received
                                           ELSE Append(received, packet)
  /\ start' = Min(Ends) + 1
  /\ UNCHANGED <<conn, wire, accum, pc, sent, sends>>

(* No '\n' left: the partial line moves to the front.  (The mutants move   *)
(* nothing; or move it and leave line_start behind.)                       *)
KeepLeftover_InPlace ==
  /\ pc = "lines" /\ Ends = {}
  /\ pc' = "recv"
  /\ UNCHANGED <<conn, wire, accum, start, received, sent, sends>>
KeepLeftover_OldStart ==
  /\ pc = "lines" /\ Ends = {}
  /\ accum' = SubSeq(accum, start, Len(accum))
  /\ pc' = "recv"
  /\ UNCHANGED <<conn, wire, start, received, sent, sends>>
KeepLeftover ==
  /\ pc = "lines" /\ Ends = {}
  /\ accum' = SubSeq(accum, start, Len(accum)) /\ start' = 1
  /\ pc' = "recv"
  /\ UNCHANGED <<conn, wire, received, sent, sends>>

Receiver == \/ \E bytes \in 1 .. PacketSize - 1 : Recv(bytes)
            \/ RecvNothing \/ TakeLine \/ KeepLeftover

Next == \/ \E type \in Type, fields \in Content : Send(type, fields)
        \/ Close \/ Break
        \/ Receiver

Spec == Init /\ [][Next]_vars

(* recv() returns when there are bytes, and handlers return: see           *)
(* BroadcastEnds of Registry and HandlersReturn of Accounts.               *)
FairSpec == Spec /\ WF_vars(Receiver)

-----------------------------------------------------------------------------
(* The type of every variable.                                             *)
TypeOK ==
  /\ conn \in {"open", "closed", "broken"}
  /\ wire \in Seq(Byte)
  /\ accum \in Seq(Byte) /\ Len(accum) < AccumSize
  /\ start \in 1 .. Len(accum) + 1
  /\ pc \in {"recv", "lines", "ended"}
  /\ received \in Seq(Packet)
  /\ sent \in Seq(Packet) /\ Len(sent) <= sends
  /\ sends \in 0 .. MaxSends

(* However the stream is cut and however many packets are coalesced, the   *)
(* branch that drops the backlog (server.c:219, client_socket.c:64) is not *)
(* taken: whatever recv() returns next fits behind the partial line.       *)
NeverOverflows ==
  pc = "recv" => Len(accum) + PacketSize - 1 < AccumSize

Queue == INSTANCE PacketQueue WITH
           queue  <- SubSeq(sent, Len(received) + 1, Len(sent)),
           Packet <- {packet_build(type, fields) :
                        type \in Type, fields \in Content}

(* The stream, the reassembly and the escapes make a queue of packets:     *)
(* server.c:201-203, "a single recv() call can return zero, one, or        *)
(* several whole/partial packets".  Separators inside a field survive; the *)
(* bytes that stand for them on the way do not (packet.c:35-76).           *)
ImplementsQueue == Queue!Spec

(* Every packet written to the stream is dispatched in the end, unless the *)
(* connection breaks: no complete line waits for a recv() that may never   *)
(* return (server.c:228-241).                                              *)
AllDispatched ==
  \A n \in 1 .. MaxSends :
    Len(sent) = n ~> (Len(received) >= n \/ conn = "broken")
=============================================================================
