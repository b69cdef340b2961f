------------------------------ MODULE Substrate ------------------------------
(***************************************************************************)
(* The chain as the SDKs see it (external to the repository, modelled from *)
(* how its clients use it).                                                *)
(*                                                                         *)
(*   ledger  the committed states of the capability, oldest first: one     *)
(*           entry per committed change, so an index is a height and the   *)
(*           last entry is what the contract judges the next transaction   *)
(*           against;                                                      *)
(*   view    the height each queried node has caught up to: a node that    *)
(*           has included a transaction need not answer from it yet        *)
(*           ("state reads are not read-your-writes", client.ts);          *)
(*   fate    what became of each call's record_action: never accepted by a *)
(*           mempool, waiting in one, or decided with the contract's code. *)
(*                                                                         *)
(* The principal's operations are the other transactions of the            *)
(* capability; PrincipalOps says which of them a run has, and              *)
(* MaxPrincipalOps bounds their number.                                    *)
(***************************************************************************)
EXTENDS Accountability, Sequences

CONSTANTS
  Calls,            \* the enforce calls made with the capability
  Nodes,            \* the RPC nodes behind the client's endpoint
  Actions,          \* the actions the calls ask for, a subset of Action
  Capabilities,     \* the states the capability may start in
  MintTerms,        \* the states a mint may commit
  Limits,           \* the (maxSpend, validUntil) pairs of updatePolicy
  PrincipalOps,     \* a subset of {"mint", "updatePolicy", "revoke", "allow"}
  MaxPrincipalOps   \* a bound on how many of them are committed

ASSUME SubstrateAssumption ==
  /\ Nodes # {}
  /\ Actions \subseteq Action
  /\ Capabilities \subseteq CapabilityState
  /\ \A cap \in Capabilities : cap.status = "NotFound" => cap = Unminted
  /\ MintTerms \subseteq
       {cap \in CapabilityState : cap.status = "Active" /\ cap.totalSpent = 0
                                 /\ cap.actionCount = 0 /\ cap.allowed = {}}
  /\ Limits \subseteq [maxSpend : Nat, validUntil : Nat]
  /\ MaxPrincipalOps \in Nat

VARIABLES ledger, view, fate, act

chainVars == <<ledger, view, fate, act>>

Heights == 1 .. Len(ledger)
Latest == ledger[Len(ledger)]

Recorded(c) == fate[c] = "Allowed"
InFlight(c) == fate[c] = "mempool"
VisibleEverywhere == \A n \in Nodes : view[n] = Len(ledger)

ChainInit ==
  /\ ledger \in {<<cap>> : cap \in Capabilities}
  /\ view = [n \in Nodes |-> 1]
  /\ fate = [c \in Calls |-> "none"]
  /\ act \in [Calls -> Actions]

ChainTypeOK ==
  /\ ledger \in Seq(CapabilityState)
  /\ ledger # <<>>
  /\ view \in [Nodes -> Heights]
  /\ fate \in [Calls -> {"none", "mempool"} \cup Codes]
  /\ act \in [Calls -> Actions]

Commit(cap) == ledger' = Append(ledger, cap)

-----------------------------------------------------------------------------
(* A block includes the record_action of call c: the contract commits the  *)
(* action or refuses it and writes nothing.                                *)
Include(c) ==
  /\ InFlight(c)
  /\ LET code == ContractCode(Latest, act[c])
     IN /\ fate' = [fate EXCEPT ![c] = code]
        /\ IF code = "Allowed"
           THEN Commit(RecordAction(Latest, act[c]))
           ELSE UNCHANGED ledger
  /\ UNCHANGED <<view, act>>

(* A node catches up with a later height.                                  *)
Replicate(n) ==
  /\ \E h \in Heights : h > view[n] /\ view' = [view EXCEPT ![n] = h]
  /\ UNCHANGED <<ledger, fate, act>>

-----------------------------------------------------------------------------
(* The principal's transactions.  One that the contract refuses (a second  *)
(* mint, any operation on a revoked capability) changes nothing and is     *)
(* left out.                                                               *)

PrincipalCommits == Len(ledger) - 1 - Cardinality({c \in Calls : Recorded(c)})

PrincipalMay(op) ==
  /\ op \in PrincipalOps
  /\ PrincipalCommits < MaxPrincipalOps

Mint ==
  /\ PrincipalMay("mint")
  /\ Latest.status = "NotFound"
  /\ \E cap \in MintTerms : Commit(cap)
  /\ UNCHANGED <<view, fate, act>>

ChangeLimits ==
  /\ PrincipalMay("updatePolicy")
  /\ Latest.status = "Active"
  /\ \E limits \in Limits : Commit(UpdatePolicy(Latest, limits))
  /\ UNCHANGED <<view, fate, act>>

Revoke ==
  /\ PrincipalMay("revoke")
  /\ Latest.status = "Active"
  /\ Commit(RevokePermission(Latest))
  /\ UNCHANGED <<view, fate, act>>

Allow ==
  /\ PrincipalMay("allow")
  /\ Latest.status = "Active"
  /\ \E cp \in Counterparties \ Latest.allowed :
       Commit(AddAllowedCounterparty(Latest, cp))
  /\ UNCHANGED <<view, fate, act>>

Principal == Mint \/ ChangeLimits \/ Revoke \/ Allow

ChainNext ==
  \/ \E c \in Calls : Include(c)
  \/ \E n \in Nodes : Replicate(n)
  \/ Principal
=============================================================================
