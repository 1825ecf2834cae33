----------------------------- MODULE MCPairing -----------------------------
(***************************************************************************)
(* Instances of Pairing: one site makes all codes.                         *)
(***************************************************************************)
EXTENDS Pairing, TLC

CONSTANT s1

OneSite == [c \in Codes |-> s1]

Interchangeable == Permutations(Pairs) \cup Permutations(Codes)
=============================================================================
