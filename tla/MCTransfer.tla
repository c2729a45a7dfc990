----------------------------- MODULE MCTransfer -----------------------------
(* Small instances of Transfer for TLC. *)
EXTENDS TransferInv, TLC

CONSTANTS A, B

\* Applications that call the destination from readers of the source only.
OneWay == {<<A, B>>}

\* Applications that transfer in either direction.
BothWays == {<<A, B>>, <<B, A>>}

\* A statement prepared on A is executed on B.
Mixed == {<<B, A>>}

NoPairs == {}
=============================================================================
