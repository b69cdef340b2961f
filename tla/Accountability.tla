--------------------------- MODULE Accountability ---------------------------
(***************************************************************************)
(* The vocabulary the SDKs share with the on-chain accountability          *)
(* contract: capability status, enforcement codes, the state of one        *)
(* capability, and the two places where an action is judged:               *)
(*                                                                         *)
(*   - prejudge, in the SDK, from the fields a client has read;            *)
(*   - record_action, in the contract (external), from the committed       *)
(*     state of the capability.                                            *)
(*                                                                         *)
(* The two are separate definitions although they agree today, because the *)
(* SDK's correctness is exactly that agreement.  One capability is         *)
(* modelled: every identifier, allowlist key and baseline of the code is   *)
(* scoped to one capability id.                                            *)
(***************************************************************************)
EXTENDS Integers, FiniteSets

CONSTANT Counterparties  \* the counterparties an action may name

CapabilityStatus == {"NotFound", "Active", "Revoked"}

(* Code 1 is the only allow; every other code is a refusal that commits    *)
(* nothing.  The numbers are also the contract's precedence order.         *)
EnforcementCode ==
  [ NotFound       |-> 0,
    Allowed        |-> 1,
    Revoked        |-> 2,
    Expired        |-> 3,
    OverBudget     |-> 4,
    OutOfAllowlist |-> 5,
    Unauthorized   |-> 6 ]

Codes == DOMAIN EnforcementCode
Refusals == Codes \ {"Allowed"}

(* The on-chain state of a capability, as far as a verdict depends on it.  *)
CapabilityState ==
  [ status      : CapabilityStatus,
    maxSpend    : Nat,
    validUntil  : Nat,
    totalSpent  : Nat,
    actionCount : Nat,
    allowlist   : BOOLEAN,
    allowed     : SUBSET Counterparties ]

(* What reads of an id nobody has minted return: every getter yields zero. *)
Unminted ==
  [ status |-> "NotFound", maxSpend |-> 0, validUntil |-> 0,
    totalSpent |-> 0, actionCount |-> 0, allowlist |-> FALSE, allowed |-> {} ]

(* What an agent asks to be authorised.  `bound` says that the signer is   *)
(* the agent the capability was minted to; `time` is the caller's          *)
(* currentTime, which is sent to the contract with the action.             *)
Action == [amount : Nat, counterparty : Counterparties, time : Nat, bound : BOOLEAN]

(* The first refusal in the contract's precedence order, or Allowed.       *)
Verdict(refusals) ==
  IF refusals = {} THEN "Allowed"
  ELSE CHOOSE c \in refusals :
         \A d \in refusals : EnforcementCode[c] <= EnforcementCode[d]

-----------------------------------------------------------------------------
(* prejudge: the refusals an SDK derives from the fields it has read.  The *)
(* allowlist is consulted only when no field refuses, by two more queries. *)

(* Mutations: spending the last unit is refused; expiry is not judged.     *)
FieldRefusal_LastUnit(seen, a) ==
  [ NotFound   |-> seen.status = "NotFound",
    Revoked    |-> seen.status = "Revoked",
    Expired    |-> a.time > seen.validUntil,
    OverBudget |-> seen.totalSpent + a.amount >= seen.maxSpend ]

FieldRefusal_NoExpiry(seen, a) ==
  [ NotFound   |-> seen.status = "NotFound",
    Revoked    |-> seen.status = "Revoked",
    OverBudget |-> seen.totalSpent + a.amount > seen.maxSpend ]

FieldRefusal(seen, a) ==
  [ NotFound   |-> seen.status = "NotFound",
    Revoked    |-> seen.status = "Revoked",
    Expired    |-> a.time > seen.validUntil,
    OverBudget |-> seen.totalSpent + a.amount > seen.maxSpend ]

Prejudge(seen, a) ==
  Verdict({c \in DOMAIN FieldRefusal(seen, a) : FieldRefusal(seen, a)[c]})

(* Mutation: the allowlist is consulted although it is not enabled.        *)
PrejudgeAllowlist_Always(allowlistEnabled, allowed, a) ==
  IF a.counterparty \notin allowed THEN "OutOfAllowlist" ELSE "Allowed"

PrejudgeAllowlist(allowlistEnabled, allowed, a) ==
  IF allowlistEnabled /\ a.counterparty \notin allowed
  THEN "OutOfAllowlist" ELSE "Allowed"

-----------------------------------------------------------------------------
(* The contract (external).  record_action refuses without writing, or     *)
(* commits the spend and the count; the principal's operations follow.     *)

ContractRefuses(cap, a) ==
  [ NotFound       |-> cap.status = "NotFound",
    Revoked        |-> cap.status = "Revoked",
    Expired        |-> a.time > cap.validUntil,
    OverBudget     |-> cap.totalSpent + a.amount > cap.maxSpend,
    OutOfAllowlist |-> cap.allowlist /\ a.counterparty \notin cap.allowed,
    Unauthorized   |-> ~a.bound ]

ContractRefusals(cap, a) ==
  {c \in DOMAIN ContractRefuses(cap, a) : ContractRefuses(cap, a)[c]}

ContractCode(cap, a) == Verdict(ContractRefusals(cap, a))

RecordAction(cap, a) ==
  [cap EXCEPT !.totalSpent = @ + a.amount, !.actionCount = @ + 1]

UpdatePolicy(cap, limits) ==
  [cap EXCEPT !.maxSpend = limits.maxSpend, !.validUntil = limits.validUntil]

RevokePermission(cap) == [cap EXCEPT !.status = "Revoked"]

AddAllowedCounterparty(cap, cp) == [cap EXCEPT !.allowed = @ \cup {cp}]
=============================================================================
