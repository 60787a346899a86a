----------------------------- MODULE MCAccounts -----------------------------
(* Small instances of Accounts for TLC.                                    *)
EXTENDS Accounts, TLC

CONSTANTS root, guard, guest, s1, s2

(* An admin and a moderator, and somebody who has yet to register.         *)
Staff == root :> "admin" @@ guard :> "moderator" @@ guest :> "none"

AllButTheCheck == Statements \ {"is_banned"}

SessionSymmetry == Permutations(Session)
=============================================================================
