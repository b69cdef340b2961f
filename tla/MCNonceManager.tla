--------------------------- MODULE MCNonceManager ---------------------------
(***************************************************************************)
(* Instances of NonceManager for TLC: three or four submissions, two       *)
(* signing addresses, the odd ones signed by the agent.                    *)
(***************************************************************************)
EXTENDS NonceManager

CONSTANTS s1, s2, s3, s4, agent, treasury

OneSigner == [c \in Calls |-> treasury]
TwoSigners == [c \in Calls |-> IF c \in {s1, s3} THEN treasury ELSE agent]
=============================================================================
