----------------------------- MODULE MCRegistry -----------------------------
(* Small instances of Registry for TLC.                                    *)
EXTENDS Registry, TLC

CONSTANTS c1, c2, c3, k1

TwoClients   == {c1, c2}
ThreeClients == {c1, c2, c3}
OneChannel   == {k1}

(* Clients are interchangeable in the safety runs.                         *)
ClientSymmetry == Permutations(Client)
=============================================================================
