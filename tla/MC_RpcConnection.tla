------------------------- MODULE MC_RpcConnection -------------------------
(* Model-checking instance of RpcConnection.                               *)
EXTENDS RpcConnection, TLC

CONSTANTS c1, c2

MCCallers == {c1, c2}
MCTimeoutsDefault == {5000}
MCTimeouts == {5000, 100}

(* Callers are interchangeable model values (safety runs only).           *)
CallerSymmetry == Permutations(MCCallers)
=============================================================================
