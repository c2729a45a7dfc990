---------------------------- MODULE MCConnection ----------------------------
(* Small instances of Connection for TLC. *)
EXTENDS ConnectionInv, TLC

\* Clients are interchangeable: no definition tells one from another.
ClientSymmetry == Permutations(Clients)
=============================================================================
