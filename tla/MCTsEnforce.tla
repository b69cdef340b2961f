---------------------------- MODULE MCTsEnforce ----------------------------
(***************************************************************************)
(* Instances of TsEnforce for TLC.                                         *)
(***************************************************************************)
EXTENDS TsEnforce, TLC

CONSTANTS c1, c2, c3, n1, n2, shop, other

MCAction(amount, cp, time) ==
  [amount |-> amount, counterparty |-> cp, time |-> time, bound |-> TRUE]

MCCapability(maxSpend, validUntil, allowlist, allowed) ==
  [status |-> "Active", maxSpend |-> maxSpend, validUntil |-> validUntil,
   totalSpent |-> 0, actionCount |-> 0, allowlist |-> allowlist, allowed |-> allowed]

(* Spending that fits once, twice or not at all; two counterparties; a     *)
(* time that some policies have expired by.                                *)
OneActions == {MCAction(1, shop, 1)}
TwoActions == {MCAction(1, shop, 1), MCAction(2, shop, 1)}
ManyActions == TwoActions \cup {MCAction(1, other, 1)}

OpenCapability == {MCCapability(3, 1, FALSE, {})}
ListCapability == {MCCapability(2, 1, TRUE, {shop})}
TightCapability == {MCCapability(2, 1, FALSE, {})}
VisibleCapabilities == TightCapability \cup ListCapability
AllCapabilities ==
  OpenCapability \cup VisibleCapabilities \cup {MCCapability(2, 0, FALSE, {})}
MintedCapabilities == {MCCapability(2, 1, b, {}) : b \in BOOLEAN}
NotYetMinted == {Unminted}

TwoLimits == {[maxSpend |-> 1, validUntil |-> 1], [maxSpend |-> 3, validUntil |-> 1]}
ExpiringLimits == TwoLimits \cup {[maxSpend |-> 3, validUntil |-> 0]}
NoLimits == {}

CallSymmetry == Permutations(Calls)
=============================================================================
