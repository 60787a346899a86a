---------------------------- MODULE PacketQueue ----------------------------
(***************************************************************************)
(* What one direction of a connection promises to the code above it: a     *)
(* queue of packets.  A packet is dispatched once, in the order of sending *)
(* and as it was sent, with two exceptions: a field sent empty is not there*)
(* when it arrives, and the two bytes that stand for the separators on the *)
(* way arrive as the separators.  Packets may stay in the queue for ever:  *)
(* the connection broke.                                                   *)
(***************************************************************************)
EXTENDS Integers, Sequences, FiniteSets

CONSTANTS Packet, Pipe, NL, EscPipe, EscNL

VARIABLES
  queue,     \* the packets sent and not yet dispatched
  received   \* the packets dispatched

vars == <<queue, received>>

(* The n-th smallest of a set of numbers.                                  *)
Nth(n, numbers) ==
  CHOOSE i \in numbers : Cardinality({j \in numbers : j < i}) = n - 1

(* How a field reads when it arrives.                                      *)
Read(field) ==
  [i \in DOMAIN field |-> CASE field[i] = EscPipe -> Pipe
                            [] field[i] = EscNL   -> NL
                            [] OTHER              -> field[i]]

(* How a packet arrives: with those of its fields that are not empty.      *)
Kept(fields) == {i \in DOMAIN fields : fields[i] # <<>>}

Arriving(packet) ==
  LET kept == Kept(packet.fields)
  IN  [packet EXCEPT !.fields =
         [k \in 1 .. Cardinality(kept) |-> Read(@[Nth(k, kept)])]]

Init == queue = <<>> /\ received = <<>>

Send(packet) ==
  /\ queue' = Append(queue, packet)
  /\ UNCHANGED received

Dispatch ==
  /\ queue # <<>>
  /\ received' = Append(received, Arriving(Head(queue)))
  /\ queue' = Tail(queue)

Next == Dispatch \/ \E packet \in Packet : Send(packet)

Spec == Init /\ [][Next]_vars
=============================================================================
