--------------------------- MODULE SubstrateProofs ---------------------------
(***************************************************************************)
(* What both SDKs build on: the verdicts of prejudge and of the contract,  *)
(* and the ledger, for any calls, nodes, actions and capabilities.         *)
(***************************************************************************)
EXTENDS StateReads, TLAPS

(* A verdict is the first of the refusals, or Allowed.                     *)
LEMMA VerdictOf ==
  ASSUME NEW S \in SUBSET Refusals
  PROVE  IF S = {} THEN Verdict(S) = "Allowed" ELSE Verdict(S) \in S
<1>1. CASE S = {}
  BY <1>1 DEF Verdict
<1>2. CASE S # {}
  <2> DEFINE First(c) == c \in S /\ \A d \in S : EnforcementCode[c] <= EnforcementCode[d]
  <2>1. \A c \in S : c \in {"NotFound", "Revoked", "Expired", "OverBudget",
                            "OutOfAllowlist", "Unauthorized"}
    BY DEF Refusals, Codes, EnforcementCode
  <2>2. /\ EnforcementCode["NotFound"] = 0
        /\ EnforcementCode["Revoked"] = 2
        /\ EnforcementCode["Expired"] = 3
        /\ EnforcementCode["OverBudget"] = 4
        /\ EnforcementCode["OutOfAllowlist"] = 5
        /\ EnforcementCode["Unauthorized"] = 6
    BY DEF EnforcementCode
  <2>3. \E c : First(c)
    <3>1. CASE "NotFound" \in S
      <4> First("NotFound")
        BY <2>1, <2>2, <3>1
      <4> QED OBVIOUS
    <3>2. CASE "NotFound" \notin S /\ "Revoked" \in S
      <4> First("Revoked")
        BY <2>1, <2>2, <3>2
      <4> QED OBVIOUS
    <3>3. CASE S \cap {"NotFound", "Revoked"} = {} /\ "Expired" \in S
      <4> First("Expired")
        BY <2>1, <2>2, <3>3
      <4> QED OBVIOUS
    <3>4. CASE S \cap {"NotFound", "Revoked", "Expired"} = {} /\ "OverBudget" \in S
      <4> First("OverBudget")
        BY <2>1, <2>2, <3>4
      <4> QED OBVIOUS
    <3>5. CASE /\ S \cap {"NotFound", "Revoked", "Expired", "OverBudget"} = {}
               /\ "OutOfAllowlist" \in S
      <4> First("OutOfAllowlist")
        BY <2>1, <2>2, <3>5
      <4> QED OBVIOUS
    <3>6. CASE S \cap {"NotFound", "Revoked", "Expired", "OverBudget",
                       "OutOfAllowlist"} = {}
      <4> First("Unauthorized")
        BY <1>2, <2>1, <2>2, <3>6
      <4> QED OBVIOUS
    <3> QED
      BY <3>1, <3>2, <3>3, <3>4, <3>5, <3>6
  <2> QED
    BY <1>2, <2>3 DEF Verdict
<1> QED
  BY <1>1, <1>2

(* What prejudge returns, and what a NotFound or an Allowed rests on.      *)
LEMMA PrejudgeOf ==
  ASSUME NEW seen, NEW a
  PROVE  /\ Prejudge(seen, a) \in Codes
         /\ Prejudge(seen, a) = "NotFound" => seen.status = "NotFound"
<1> DEFINE S == {c \in DOMAIN FieldRefusal(seen, a) : FieldRefusal(seen, a)[c]}
<1>1. DOMAIN FieldRefusal(seen, a) = {"NotFound", "Revoked", "Expired", "OverBudget"}
  BY DEF FieldRefusal
<1>2. S \in SUBSET Refusals
  BY <1>1 DEF Refusals, Codes, EnforcementCode
<1>3. "NotFound" \in S => seen.status = "NotFound"
  BY DEF FieldRefusal
<1>4. Prejudge(seen, a) = Verdict(S)
  BY DEF Prejudge
<1>5. "Allowed" \in Codes /\ Refusals \subseteq Codes /\ "Allowed" # "NotFound"
  BY DEF Codes, Refusals, EnforcementCode
<1> HIDE DEF S
<1>6. IF S = {} THEN Verdict(S) = "Allowed" ELSE Verdict(S) \in S
  BY <1>2, VerdictOf
<1> QED
  BY <1>2, <1>3, <1>4, <1>5, <1>6

(* A field code that prejudge returns is a refusal by that field, and      *)
(* Allowed is the absence of all of them.                                  *)
LEMMA PrejudgeRests ==
  ASSUME NEW seen, NEW a
  PROVE  /\ Prejudge(seen, a) \in {"NotFound", "Revoked", "Expired", "OverBudget", "Allowed"}
         /\ Prejudge(seen, a) = "Revoked" => seen.status = "Revoked"
         /\ Prejudge(seen, a) = "Expired" => a.time > seen.validUntil
         /\ Prejudge(seen, a) = "OverBudget" => seen.totalSpent + a.amount > seen.maxSpend
         /\ Prejudge(seen, a) = "Allowed" =>
              /\ seen.status # "Revoked"
              /\ ~(a.time > seen.validUntil)
              /\ ~(seen.totalSpent + a.amount > seen.maxSpend)
<1> DEFINE S == {c \in DOMAIN FieldRefusal(seen, a) : FieldRefusal(seen, a)[c]}
<1>1. S \subseteq {"NotFound", "Revoked", "Expired", "OverBudget"}
  BY DEF FieldRefusal
<1>2. S \in SUBSET Refusals
  BY <1>1 DEF Refusals, Codes, EnforcementCode
<1>3. /\ "Revoked" \in S <=> seen.status = "Revoked"
      /\ "Expired" \in S <=> a.time > seen.validUntil
      /\ "OverBudget" \in S <=> seen.totalSpent + a.amount > seen.maxSpend
  BY DEF FieldRefusal
<1>4. Prejudge(seen, a) = Verdict(S)
  BY DEF Prejudge
<1> HIDE DEF S
<1>5. IF S = {} THEN Verdict(S) = "Allowed" ELSE Verdict(S) \in S
  BY <1>2, VerdictOf
<1> QED
  BY <1>1, <1>3, <1>4, <1>5

(* Of an absent capability nothing else is said.                           *)
LEMMA PrejudgeAbsent ==
  ASSUME NEW seen, NEW a, seen.status = "NotFound"
  PROVE  Prejudge(seen, a) = "NotFound"
<1> DEFINE S == {c \in DOMAIN FieldRefusal(seen, a) : FieldRefusal(seen, a)[c]}
<1>1. "NotFound" \in S /\ S \subseteq {"NotFound", "Revoked", "Expired", "OverBudget"}
  BY DEF FieldRefusal
<1>2. Prejudge(seen, a) = Verdict(S)
  BY DEF Prejudge
<1> HIDE DEF S
<1>3. \A c \in S : EnforcementCode[c] >= 0 /\ (c # "NotFound" => EnforcementCode[c] > 0)
  BY <1>1 DEF EnforcementCode
<1>4. EnforcementCode["NotFound"] = 0
  BY DEF EnforcementCode
<1>5. "NotFound" \in S /\ \A d \in S : EnforcementCode["NotFound"] <= EnforcementCode[d]
  BY <1>1, <1>3, <1>4
<1>6. \A c \in S : (\A d \in S : EnforcementCode[c] <= EnforcementCode[d]) => c = "NotFound"
  BY <1>1, <1>4 DEF EnforcementCode
<1> QED
  BY <1>1, <1>2, <1>5, <1>6 DEF Verdict

(* The contract answers with a code.                                       *)
LEMMA ContractCodeType == ASSUME NEW cap, NEW a PROVE ContractCode(cap, a) \in Codes
<1>1. DOMAIN ContractRefuses(cap, a) = {"NotFound", "Revoked", "Expired", "OverBudget",
                                        "OutOfAllowlist", "Unauthorized"}
  BY DEF ContractRefuses
<1>2. ContractRefusals(cap, a) \in SUBSET Refusals
  BY <1>1 DEF ContractRefusals, Refusals, Codes, EnforcementCode
<1>3. "Allowed" \in Codes /\ Refusals \subseteq Codes
  BY DEF Codes, Refusals, EnforcementCode
<1>4. IF ContractRefusals(cap, a) = {} THEN ContractCode(cap, a) = "Allowed"
      ELSE ContractCode(cap, a) \in ContractRefusals(cap, a)
  BY <1>2, VerdictOf DEF ContractCode
<1> QED
  BY <1>2, <1>3, <1>4

(* The refusals of the contract.                                           *)
LEMMA RefusalsOf ==
  ASSUME NEW cap, NEW a
  PROVE  /\ "Revoked" \in ContractRefusals(cap, a) <=> cap.status = "Revoked"
         /\ "Expired" \in ContractRefusals(cap, a) <=> a.time > cap.validUntil
         /\ "OverBudget" \in ContractRefusals(cap, a) <=>
              cap.totalSpent + a.amount > cap.maxSpend
         /\ "OutOfAllowlist" \in ContractRefusals(cap, a) <=>
              (cap.allowlist /\ a.counterparty \notin cap.allowed)
         /\ "NotFound" \in ContractRefusals(cap, a) <=> cap.status = "NotFound"
         /\ "Unauthorized" \in ContractRefusals(cap, a) <=> ~a.bound
         /\ ContractRefusals(cap, a) \subseteq {"NotFound", "Revoked", "Expired",
              "OverBudget", "OutOfAllowlist", "Unauthorized"}
  BY DEF ContractRefusals, ContractRefuses

(* The contract allows what it does not refuse.                            *)
LEMMA ContractCodeOf ==
  ASSUME NEW cap, NEW a
  PROVE  /\ ContractCode(cap, a) = "Allowed" <=> ContractRefusals(cap, a) = {}
         /\ ContractCode(cap, a) # "Allowed" => ContractCode(cap, a) \in ContractRefusals(cap, a)
<1>1. ContractRefusals(cap, a) \in SUBSET Refusals
  BY RefusalsOf DEF Refusals, Codes, EnforcementCode
<1>2. "Allowed" \notin Refusals
  BY DEF Refusals
<1> QED
  BY <1>1, <1>2, VerdictOf DEF ContractCode

(* Of an absent capability it says nothing else.                           *)
LEMMA ContractAbsent ==
  ASSUME NEW cap, NEW a, cap.status = "NotFound"
  PROVE  ContractCode(cap, a) = "NotFound"
<1> DEFINE S == ContractRefusals(cap, a)
<1>1. "NotFound" \in S /\ S \subseteq {"NotFound", "Revoked", "Expired", "OverBudget",
                                      "OutOfAllowlist", "Unauthorized"}
  BY RefusalsOf
<1>2. ContractCode(cap, a) = Verdict(S)
  BY DEF ContractCode
<1> HIDE DEF S
<1>3. \A c \in S : EnforcementCode[c] >= 0 /\ (c # "NotFound" => EnforcementCode[c] > 0)
  BY <1>1 DEF EnforcementCode
<1>4. EnforcementCode["NotFound"] = 0
  BY DEF EnforcementCode
<1>5. "NotFound" \in S /\ \A d \in S : EnforcementCode["NotFound"] <= EnforcementCode[d]
  BY <1>1, <1>3, <1>4
<1>6. \A c \in S : (\A d \in S : EnforcementCode[c] <= EnforcementCode[d]) => c = "NotFound"
  BY <1>1, <1>4 DEF EnforcementCode
<1> QED
  BY <1>1, <1>2, <1>5, <1>6 DEF Verdict

-----------------------------------------------------------------------------
(* The ledger only grows.                                                  *)
LEMMA CommitAppends ==
  ASSUME ChainTypeOK, NEW cap \in CapabilityState, Commit(cap)
  PROVE  /\ ledger' \in Seq(CapabilityState) /\ ledger' # <<>>
         /\ Len(ledger') = Len(ledger) + 1
         /\ \A h \in Heights : ledger'[h] = ledger[h]
         /\ ledger'[Len(ledger) + 1] = cap
         /\ Len(ledger) \in Nat \ {0}
  BY DEF ChainTypeOK, Commit, Heights

(* Recording an action gives a capability state.                           *)
LEMMA RecordActionType ==
  ASSUME NEW cap \in CapabilityState, NEW a, a.amount \in Nat
  PROVE  RecordAction(cap, a) \in CapabilityState /\ RecordAction(cap, a).status = cap.status
<1> DEFINE spent == [cap EXCEPT !.totalSpent = @ + a.amount]
<1>1. spent \in CapabilityState /\ spent.status = cap.status
  BY DEF CapabilityState
<1>2. RecordAction(cap, a) = [spent EXCEPT !.actionCount = @ + 1]
  BY DEF RecordAction, CapabilityState
<1> HIDE DEF spent
<1> QED
  BY <1>1, <1>2 DEF CapabilityState

(* What a change of the limits or of the allowlist leaves alone.           *)
LEMMA RecordActionKeeps ==
  ASSUME NEW cap \in CapabilityState, NEW a, a.amount \in Nat
  PROVE  /\ RecordAction(cap, a) \in CapabilityState
         /\ RecordAction(cap, a).totalSpent = cap.totalSpent + a.amount
         /\ RecordAction(cap, a).actionCount = cap.actionCount + 1
         /\ \A f \in {"status", "maxSpend", "validUntil", "allowlist", "allowed"} :
              RecordAction(cap, a)[f] = cap[f]
<1> DEFINE spent == [cap EXCEPT !.totalSpent = @ + a.amount]
<1>1. /\ spent \in CapabilityState
      /\ spent.totalSpent = cap.totalSpent + a.amount
      /\ spent.actionCount = cap.actionCount
      /\ \A f \in {"status", "maxSpend", "validUntil", "allowlist", "allowed"} :
           spent[f] = cap[f]
  BY DEF CapabilityState
<1>2. RecordAction(cap, a) = [spent EXCEPT !.actionCount = @ + 1]
  BY DEF RecordAction, CapabilityState
<1> HIDE DEF spent
<1>3. RecordAction(cap, a) \in CapabilityState
  BY RecordActionType
<1> QED
  BY <1>1, <1>2, <1>3 DEF CapabilityState

(* The committed state is a capability state.                              *)
LEMMA LatestType == ChainTypeOK => Latest \in CapabilityState
  BY DEF ChainTypeOK, Latest

(* The principal commits nothing to a revoked capability, and mints only   *)
(* one that is not there; spending and the choice to have an allowlist are *)
(* not the principal's to change.                                          *)
LEMMA PrincipalsCommit ==
  ASSUME ChainTypeOK, Principal
  PROVE  \E cap \in CapabilityState :
            /\ Commit(cap)
            /\ UNCHANGED <<view, fate, act>>
            /\ Latest.status # "Revoked" /\ cap.status # "NotFound"
            /\ Latest.status = "NotFound" =>
                 cap.totalSpent = 0 /\ cap.actionCount = 0 /\ cap.allowed = {}
            /\ Latest.status = "Active" =>
                 /\ cap.allowlist = Latest.allowlist
                 /\ cap.totalSpent = Latest.totalSpent
                 /\ cap.actionCount = Latest.actionCount
<1>1. Latest \in CapabilityState
  BY LatestType
<1>2. CASE Mint
  BY <1>2, SubstrateAssumption DEF Mint
<1>3. CASE ChangeLimits
  <2>1. PICK limits \in Limits : Commit(UpdatePolicy(Latest, limits))
    BY <1>3 DEF ChangeLimits
  <2>2. /\ UpdatePolicy(Latest, limits) \in CapabilityState
        /\ UpdatePolicy(Latest, limits).status = Latest.status
        /\ UpdatePolicy(Latest, limits).allowlist = Latest.allowlist
        /\ UpdatePolicy(Latest, limits).totalSpent = Latest.totalSpent
        /\ UpdatePolicy(Latest, limits).actionCount = Latest.actionCount
    BY <1>1, SubstrateAssumption DEF UpdatePolicy, CapabilityState
  <2> QED
    BY <1>3, <2>1, <2>2 DEF ChangeLimits
<1>4. CASE Revoke
  <2>1. /\ RevokePermission(Latest) \in CapabilityState
        /\ RevokePermission(Latest).status = "Revoked"
        /\ RevokePermission(Latest).allowlist = Latest.allowlist
        /\ RevokePermission(Latest).totalSpent = Latest.totalSpent
        /\ RevokePermission(Latest).actionCount = Latest.actionCount
    BY <1>1 DEF RevokePermission, CapabilityState, CapabilityStatus
  <2> QED
    BY <1>4, <2>1 DEF Revoke
<1>5. CASE Allow
  <2>1. PICK cp \in Counterparties : Commit(AddAllowedCounterparty(Latest, cp))
    BY <1>5 DEF Allow
  <2>2. /\ AddAllowedCounterparty(Latest, cp) \in CapabilityState
        /\ AddAllowedCounterparty(Latest, cp).status = Latest.status
        /\ AddAllowedCounterparty(Latest, cp).allowlist = Latest.allowlist
        /\ AddAllowedCounterparty(Latest, cp).totalSpent = Latest.totalSpent
        /\ AddAllowedCounterparty(Latest, cp).actionCount = Latest.actionCount
    BY <1>1 DEF AddAllowedCounterparty, CapabilityState
  <2> QED
    BY <1>5, <2>1, <2>2 DEF Allow
<1> QED
  BY <1>2, <1>3, <1>4, <1>5 DEF Principal

(* What a step of the chain commits.  Nothing is committed to a revoked    *)
(* capability.  The first commit of an unminted one is its mint.           *)
LEMMA CommitsOf ==
  ASSUME ChainTypeOK, ChainNext, ledger' # ledger
  PROVE  \E cap \in CapabilityState :
            /\ Commit(cap)
            /\ view' = view
            /\ Latest.status # "Revoked" /\ cap.status # "NotFound"
            /\ Latest.status = "NotFound" => cap.totalSpent = 0 /\ fate' = fate
            /\ Latest.status = "Active" =>
                 /\ cap.allowlist = Latest.allowlist
                 /\ \/ /\ fate' = fate
                       /\ cap.totalSpent = Latest.totalSpent
                       /\ cap.actionCount = Latest.actionCount
                    \/ \E c \in Calls :
                         /\ InFlight(c)
                         /\ fate' = [fate EXCEPT ![c] = "Allowed"]
                         /\ cap.actionCount = Latest.actionCount + 1
                         /\ cap.totalSpent = Latest.totalSpent + act[c].amount
<1>1. Latest \in CapabilityState
  BY LatestType
<1>2. ASSUME NEW c \in Calls, Include(c)
      PROVE  /\ InFlight(c) /\ view' = view
             /\ fate' = [fate EXCEPT ![c] = "Allowed"]
             /\ Commit(RecordAction(Latest, act[c]))
             /\ Latest.status = "Active"
             /\ act[c].amount \in Nat
  <2>1. /\ InFlight(c) /\ view' = view
        /\ fate' = [fate EXCEPT ![c] = ContractCode(Latest, act[c])]
        /\ ContractCode(Latest, act[c]) = "Allowed"
        /\ Commit(RecordAction(Latest, act[c]))
    BY <1>2 DEF Include
  <2>2. Latest.status \notin {"NotFound", "Revoked"}
    BY <2>1, ContractCodeOf, RefusalsOf
  <2>3. Latest.status \in CapabilityStatus
    BY <1>1 DEF CapabilityState
  <2>4. act[c].amount \in Nat
    BY SubstrateAssumption DEF ChainTypeOK, Action
  <2> QED
    BY <2>1, <2>2, <2>3, <2>4 DEF CapabilityStatus
<1>3. ASSUME NEW c \in Calls, Include(c) PROVE RecordAction(Latest, act[c]) \in CapabilityState
  BY <1>1, <1>2, <1>3, RecordActionKeeps
<1>4. CASE \E c \in Calls : Include(c)
  <2>1. PICK c \in Calls : Include(c)
    BY <1>4
  <2> QED
    BY <1>1, <1>2, <1>3, <2>1, RecordActionKeeps
<1>5. CASE Principal
  BY <1>5, PrincipalsCommit
<1>6. ASSUME NEW n \in Nodes, Replicate(n) PROVE FALSE
  BY <1>6 DEF Replicate
<1> QED
  BY <1>4, <1>5, <1>6 DEF ChainNext

(* What else a step of the chain does.                                     *)
LEMMA ChainStep ==
  ASSUME ChainTypeOK, ChainNext
  PROVE  /\ ChainTypeOK'
         /\ Heights \subseteq Heights'
         /\ \A c \in Calls : fate'[c] # fate[c] => InFlight(c)
<1> USE SubstrateAssumption
<1>1. act' = act
  BY DEF ChainNext, Include, Replicate, Principal, Mint, ChangeLimits, Revoke, Allow
<1>2. fate' \in [Calls -> {"none", "mempool"} \cup Codes]
  <2>1. ASSUME NEW c \in Calls, Include(c)
        PROVE  fate' = [fate EXCEPT ![c] = ContractCode(Latest, act[c])]
    BY <2>1 DEF Include
  <2>2. ASSUME Principal PROVE fate' = fate
    BY <2>2 DEF Principal, Mint, ChangeLimits, Revoke, Allow
  <2>3. ASSUME NEW n \in Nodes, Replicate(n) PROVE fate' = fate
    BY <2>3 DEF Replicate
  <2> QED
    BY <2>1, <2>2, <2>3, ContractCodeType DEF ChainNext, ChainTypeOK
<1>3. \A c \in Calls : fate'[c] # fate[c] => InFlight(c)
  BY DEF ChainTypeOK, ChainNext, Include, Replicate, Principal, Mint, ChangeLimits,
         Revoke, Allow, InFlight
<1>4. /\ ledger' \in Seq(CapabilityState) /\ ledger' # <<>>
      /\ Heights \subseteq Heights'
  <2>1. CASE ledger' = ledger
    BY <2>1 DEF ChainTypeOK, Heights
  <2>2. CASE ledger' # ledger
    BY <2>2, CommitsOf, CommitAppends DEF Heights
  <2> QED
    BY <2>1, <2>2
<1>5. view' \in [Nodes -> Heights']
  <2>1. CASE view' = view
    BY <1>4, <2>1 DEF ChainTypeOK
  <2>2. ASSUME NEW n \in Nodes, Replicate(n) PROVE view' \in [Nodes -> Heights']
    BY <1>4, <2>2 DEF Replicate, ChainTypeOK
  <2> QED
    BY <2>1, <2>2 DEF ChainNext, Include, Principal, Mint, ChangeLimits, Revoke, Allow
<1> QED
  BY <1>1, <1>2, <1>3, <1>4, <1>5 DEF ChainTypeOK

(* The cleared pre-state has the type of a read.                           *)
LEMMA UnreadType == Unread \in CapabilityRead
  BY DEF Unread, Unminted, Fields, CapabilityRead, CapabilityStatus
=============================================================================
