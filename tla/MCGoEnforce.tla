---------------------------- MODULE MCGoEnforce ----------------------------
(***************************************************************************)
(* Instances of GoEnforce for TLC.                                         *)
(***************************************************************************)
EXTENDS GoEnforce

CONSTANTS c1, c2, n1, n2, shop, other

MCAction(amount, cp) == [amount |-> amount, counterparty |-> cp, time |-> 1, bound |-> TRUE]

MCCapability(maxSpend, validUntil, allowlist) ==
  [status |-> "Active", maxSpend |-> maxSpend, validUntil |-> validUntil,
   totalSpent |-> 0, actionCount |-> 0, allowlist |-> allowlist, allowed |-> {shop}]

TwoActions == {MCAction(1, shop), MCAction(2, shop)}
ManyActions == TwoActions \cup {MCAction(1, other)}
LargeAction == {MCAction(2, shop)}

(* A ceiling of 2 with int64 ending at 3: spending 2 twice overflows.      *)
OpenCapability == {MCCapability(2, 1, FALSE)}
ExpiredCapability == {MCCapability(2, 0, FALSE)}
ListCapability == {MCCapability(2, 1, TRUE)}
Mintable == {[MCCapability(2, 1, FALSE) EXCEPT !.allowed = {}]}
Capabilities3 == OpenCapability \cup ExpiredCapability \cup ListCapability \cup {Unminted}

(* The principal only tightens, the renewal of the expired capability      *)
(* aside.                                                                  *)
TightLimits == {[maxSpend |-> 1, validUntil |-> 1]}
=============================================================================
