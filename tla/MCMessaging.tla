---------------------------- MODULE MCMessaging ----------------------------
(***************************************************************************)
(* Instances of Messaging for TLC.  Users are model values; a session has  *)
(* a user of its own, who is named like the session, or all sessions are   *)
(* logins of one user, which the server does not refuse.                   *)
(***************************************************************************)
EXTENDS Messaging, TLC

CONSTANTS s1, s2,  \* sessions
          u1       \* the user of SameUser

(* Who is logged in where: everyone once, or one user everywhere.          *)
OwnUser  == [s \in Session |-> s]
SameUser == [s \in Session |-> u1]

(* Sessions with users of their own, or with the same one, are             *)
(* interchangeable; so are channels and emojis.                            *)
Symmetry == Permutations(Session) \cup Permutations(Channel)
            \cup Permutations(Emoji)
=============================================================================
