---------------------------- MODULE MCResources ----------------------------
(* Small instances of Resources for TLC. *)
EXTENDS Resources, TLC

\* Processes are interchangeable, and so are the boxes of one
\* type.
BoxSymmetry ==
  Permutations(Processes) \union Permutations(Connections)
    \union Permutations(Statements)
=============================================================================
