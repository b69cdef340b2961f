------------------------------ MODULE StateReads ------------------------------
(***************************************************************************)
(* How a client reads a capability: one query per field, each answered by  *)
(* some node behind the endpoint from what that node shows at the moment.  *)
(* `since` remembers what each node showed when the current read of a call *)
(* began, so that a field may come from any height in between.             *)
(***************************************************************************)
EXTENDS Substrate

VARIABLE since  \* what each node answered from when a call's read started

Fields == {"status", "maxSpend", "validUntil", "totalSpent", "actionCount"}

CapabilityRead ==
  [status : CapabilityStatus, maxSpend : Nat, validUntil : Nat,
   totalSpent : Nat, actionCount : Nat]

Unread == [f \in Fields |-> Unminted[f]]
NoRead == [n \in Nodes |-> 1]

(* A read starts: whatever the nodes answer from now on may be its answer. *)
StartRead(c) == since' = [since EXCEPT ![c] = view]

(* The heights a read of call c that ends now may have been answered from. *)
Window(c) == UNION {since[c][n] .. view[n] : n \in Nodes}

ReadOf(c, field) == {ledger[h][field] : h \in Window(c)}

(* getAllowlistEnabled, and isCounterpartyAllowed when it is enabled.      *)
AllowlistCode(c, code) ==
  \E enabled \in ReadOf(c, "allowlist"), allowed \in ReadOf(c, "allowed") :
    code = PrejudgeAllowlist(enabled, allowed, act[c])
=============================================================================
