---------------------------- MODULE MCSendSigned ----------------------------
(***************************************************************************)
(* Instances of SendSigned for TLC: three writes of one signer, of which   *)
(* two ask for the same thing in the same second and so sign the same      *)
(* payload.                                                                *)
(***************************************************************************)
EXTENDS SendSigned

CONSTANTS w1, w2, w3, pay, payAgain

TwoPayloads == [c \in {w1, w2, w3} |-> IF c = w3 THEN payAgain ELSE pay]
=============================================================================
