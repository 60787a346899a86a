---------------------------- MODULE MCChatWindow ----------------------------
(* A small instance of ChatWindow.                                         *)
EXTENDS ChatWindow

CONSTANTS here, there

(* Two messages in one channel, one in another.                            *)
TwoHere == <<here, there, here>>
=============================================================================
