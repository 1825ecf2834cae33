-------------------------- MODULE MCBridgeSigning --------------------------
(***************************************************************************)
(* A small instance of BridgeSigning: a token with a signing certificate   *)
(* in a slot of each of two PKCS#11 modules, and a second token that only  *)
(* one of them knows.                                                      *)
(***************************************************************************)
EXTENDS BridgeSigning

CONSTANTS k1, k2, t1, t2, vendor1, opensc1, vendor2

MCTokenOf == [k \in Certs |-> IF k = k1 THEN t1 ELSE t2]
MCCardOf == [s \in Slots |-> IF s = vendor2 THEN t2 ELSE t1]
MCFirstKey == [s \in Slots |-> IF s = vendor2 THEN k2 ELSE k1]
=============================================================================
