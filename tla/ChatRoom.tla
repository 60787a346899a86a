------------------------------ MODULE ChatRoom ------------------------------
(***************************************************************************)
(* What messaging promises its users, without threads, packets or tables.  *)
(* Messages are numbered as they are posted; a posted message may be       *)
(* retracted, for good.  A window comes to show a message only after it    *)
(* was posted, shows it once, and stops showing it only when it has been   *)
(* retracted or, the oldest first, to make room in a full window.          *)
(***************************************************************************)
EXTENDS Integers, Sequences

CONSTANTS Window, Capacity

VARIABLES
  posts,  \* messages posted so far are 1..posts
  board,  \* those that have not been retracted
  panes   \* the messages each window shows, in the order they came

roomVars == <<posts, board, panes>>

RoomInit == posts = 0 /\ board = {} /\ panes = [w \in Window |-> <<>>]

Post == /\ posts' = posts + 1
        /\ board' = board \cup {posts'}
        /\ UNCHANGED panes

Retract == /\ \E m \in board : board' = board \ {m}
           /\ UNCHANGED <<posts, panes>>

Shows(w, m) == \E i \in DOMAIN panes[w] : panes[w][i] = m

Show(w) ==
  /\ \E m \in 1..posts :
       /\ ~Shows(w, m)
       /\ panes' = [panes EXCEPT ![w] =
            Append(IF Len(@) >= Capacity THEN Tail(@) ELSE @, m)]
  /\ UNCHANGED <<posts, board>>

Hide(w) ==
  /\ \E i \in DOMAIN panes[w] :
       /\ panes[w][i] \notin board
       /\ panes' = [panes EXCEPT ![w] =
            [k \in 1..(Len(@) - 1) |-> IF k < i THEN @[k] ELSE @[k + 1]]]
  /\ UNCHANGED <<posts, board>>

RoomNext == Post \/ Retract \/ \E w \in Window : Show(w) \/ Hide(w)

RoomSpec == RoomInit /\ [][RoomNext]_roomVars
=============================================================================
