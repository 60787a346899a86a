---------------------------- MODULE MCChatClient ----------------------------
(* Small instances of ChatClient for TLC.                                  *)
EXTENDS ChatClient, TLC

CONSTANT window

(* A channel of each of two users, the one of the second with a name that  *)
(* comes apart, and a third one that nobody lists.                         *)
ThreeChannels ==
  {[id |-> 1, name |-> "main", private |-> FALSE, creator |-> 1],
   [id |-> 2, name |-> "a|0", private |-> TRUE, creator |-> 2],
   [id |-> 3, name |-> "endless", private |-> FALSE, creator |-> 2]}

(* A name as it should be, one with a '|', and one too long for a row.     *)
Names  == {"main", "a|0", "endless"}
Texts  == Names \cup {"a", "0", "end", "t", "f"}
Cuts   == [text \in Texts |-> IF text = "endless" THEN "end" ELSE text]
Pieces == [name \in Names |-> IF name = "a|0" THEN <<"a", "0">> ELSE <<name>>]
=============================================================================
