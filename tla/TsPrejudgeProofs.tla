-------------------------- MODULE TsPrejudgeProofs --------------------------
(***************************************************************************)
(* What prejudge decides against what the contract would decide.           *)
(*                                                                         *)
(* A fast denial is final whatever the nodes, the overlap of the calls and *)
(* the skew of the fields: the fields that refused were committed at some  *)
(* heights (Grounds), and along the ledger spending only grows, revocation *)
(* lasts and an allowlist stays enabled (LedgerGrows).                     *)
(*                                                                         *)
(* The other direction needs the documented pattern (Serial): a call that  *)
(* reads there sees the committed count, and so the committed spending     *)
(* (TotalsFollowCounts), and until its own record nobody else spends       *)
(* (OneInFlight).  So what its fields allow is what the contract allows,   *)
(* unless the principal acts, and what they refuse the contract refused at *)
(* one height of the read.                                                 *)
(*                                                                         *)
(* With several nodes, calls that begin when all of them agree ("quiet")   *)
(* and have seen the mint deny on evidence too: nothing is spent while     *)
(* they read (QInv).                                                       *)
(***************************************************************************)
EXTENDS TsAllowedProofs

(* What lasts when the capability goes from state p to a later state q.    *)
Later(p, q) ==
  /\ p.totalSpent <= q.totalSpent
  /\ p.status = "Revoked" => q.status = "Revoked"
  /\ p.allowlist => q.allowlist

LedgerGrows == \A i, j \in Heights : i <= j => Later(ledger[i], ledger[j])

UnmintedIsBlank == Latest.status = "NotFound" => Latest = Unminted

(* Committed evidence against the action of call c: each field may have    *)
(* been served from a height of its own.                                   *)
Grounds(c) ==
  \/ \E h \in Heights : ledger[h].status = "Revoked"
  \/ \E h \in Heights : act[c].time > ledger[h].validUntil
  \/ \E g, h \in Heights : ledger[g].totalSpent + act[c].amount > ledger[h].maxSpend
  \/ \E g, h \in Heights : /\ ledger[g].allowlist
                           /\ act[c].counterparty \notin ledger[h].allowed

DeniedOnGrounds == \A c \in Calls : FastDenied(c) => Grounds(c)

SentWhenSettling == \A c \in Calls : pc[c] \in {"settling", "rejudging"} => fate[c] # "none"

EInv == TypeOK /\ LedgerGrows /\ UnmintedIsBlank /\ DeniedOnGrounds /\ SentWhenSettling

-----------------------------------------------------------------------------
(* The documented pattern.                                                 *)
TotalsFollowCounts ==
  \A i, j \in Heights : Count(i) = Count(j) => ledger[i].totalSpent = ledger[j].totalSpent

OneAllowlist == \A h \in Heights : ledger[h].allowlist = ledger[1].allowlist

OneInFlight == \A c, d \in Calls : InFlight(c) /\ InFlight(d) => c = d

(* What the fields let pass the contract would let pass ...                *)
Budgeted ==
  \A c \in Calls :
    PolicyUnchanged /\ (pc[c] \in {"judging", "sending"} \/ InFlight(c)) =>
      /\ act[c].time <= Latest.validUntil
      /\ Latest.totalSpent + act[c].amount <= Latest.maxSpend

(* ... and so with the allowlist.                                          *)
Listed ==
  \A c \in Calls :
    PolicyUnchanged /\ (pc[c] = "sending" \/ InFlight(c)) =>
      (Latest.allowlist => act[c].counterparty \in Latest.allowed)

BInv ==
  /\ AInv
  /\ TotalsFollowCounts
  /\ OneAllowlist
  /\ OneInFlight
  /\ Budgeted
  /\ Listed

-----------------------------------------------------------------------------
(* FastDenyFinal: any discipline, any nodes.  A mint during the run is a   *)
(* change of the policy.                                                   *)

(* The invariant makes a fast denial final.                                *)
LEMMA GroundsStand == EInv => FastDenyFinal
<1> SUFFICES ASSUME EInv, NEW c \in Calls, PolicyUnchanged, FastDenied(c)
             PROVE  ContractRefusals(Latest, act[c]) # {}
  BY DEF FastDenyFinal
<1>1. /\ Len(ledger) \in Heights /\ Latest = ledger[Len(ledger)]
      /\ \A h \in Heights : h <= Len(ledger) /\ ledger[h] \in CapabilityState
      /\ Latest \in CapabilityState
  BY DEF EInv, TypeOK, ChainTypeOK, Heights, Latest
<1>2. \A h \in Heights : Later(ledger[h], Latest)
  BY <1>1 DEF EInv, LedgerGrows
<1>3. \A h \in Heights : /\ ledger[h].maxSpend = Latest.maxSpend
                         /\ ledger[h].validUntil = Latest.validUntil
                         /\ ledger[h].allowed = Latest.allowed
  BY <1>1 DEF PolicyUnchanged
<1>4. act[c].amount \in Nat
  BY SubstrateAssumption DEF EInv, TypeOK, ChainTypeOK, Action
<1>5. Grounds(c)
  BY DEF EInv, DeniedOnGrounds
<1>6. CASE \E h \in Heights : ledger[h].status = "Revoked"
  BY <1>2, <1>6, RefusalsOf DEF Later
<1>7. CASE \E h \in Heights : act[c].time > ledger[h].validUntil
  BY <1>3, <1>7, RefusalsOf
<1>8. CASE \E g, h \in Heights : ledger[g].totalSpent + act[c].amount > ledger[h].maxSpend
  <2>1. PICK g \in Heights : ledger[g].totalSpent + act[c].amount > Latest.maxSpend
    BY <1>3, <1>8
  <2>2. /\ ledger[g].totalSpent \in Nat /\ Latest.totalSpent \in Nat
        /\ Latest.maxSpend \in Nat
        /\ ledger[g].totalSpent <= Latest.totalSpent
    BY <1>1, <1>2 DEF Later, CapabilityState
  <2>3. Latest.totalSpent + act[c].amount > Latest.maxSpend
    BY <1>4, <2>1, <2>2
  <2> QED
    BY <2>3, RefusalsOf
<1>9. CASE \E g, h \in Heights : /\ ledger[g].allowlist
                                 /\ act[c].counterparty \notin ledger[h].allowed
  <2>1. Latest.allowlist
    BY <1>2, <1>9 DEF Later
  <2>2. act[c].counterparty \notin Latest.allowed
    BY <1>3, <1>9
  <2> QED
    BY <2>1, <2>2, RefusalsOf
<1> QED
  BY <1>5, <1>6, <1>7, <1>8, <1>9 DEF Grounds

(* It holds before the first call.                                         *)
LEMMA InitEInv == Init => EInv
<1> SUFFICES ASSUME Init PROVE EInv
  OBVIOUS
<1>1. PICK cap \in Capabilities : ledger = <<cap>>
  BY DEF Init, ChainInit
<1>2. Heights = {1} /\ ledger[1] = cap /\ Latest = cap /\ cap \in CapabilityState
  BY <1>1, SubstrateAssumption DEF Heights, Latest
<1>3. Later(cap, cap)
  BY <1>2 DEF Later, CapabilityState
<1>4. LedgerGrows /\ UnmintedIsBlank
  BY <1>2, <1>3, SubstrateAssumption DEF LedgerGrows, UnmintedIsBlank
<1>5. DeniedOnGrounds /\ SentWhenSettling
  BY DEF Init, DeniedOnGrounds, SentWhenSettling, FastDenied, Refusals, Codes, EnforcementCode
<1> QED
  BY <1>4, <1>5, InitType DEF EInv

(* A state later than the latest is later than every one.                  *)
LEMMA LaterCommits ==
  ASSUME ChainTypeOK, LedgerGrows, UnmintedIsBlank, ChainNext, ledger' # ledger
  PROVE  LedgerGrows' /\ UnmintedIsBlank'
<1>1. PICK cap \in CapabilityState :
         /\ Commit(cap)
         /\ Latest.status # "Revoked" /\ cap.status # "NotFound"
         /\ Latest.status = "NotFound" => cap.totalSpent = 0
         /\ Latest.status = "Active" =>
              /\ cap.allowlist = Latest.allowlist
              /\ \/ cap.totalSpent = Latest.totalSpent
                 \/ \E c \in Calls : cap.totalSpent = Latest.totalSpent + act[c].amount
  BY CommitsOf
<1>2. /\ Len(ledger') = Len(ledger) + 1
      /\ \A h \in Heights : ledger'[h] = ledger[h]
      /\ ledger'[Len(ledger) + 1] = cap
      /\ Len(ledger) \in Nat \ {0}
  BY <1>1, CommitAppends
<1>3. /\ Latest \in CapabilityState
      /\ \A h \in Heights : ledger[h] \in CapabilityState
      /\ \A c \in Calls : act[c].amount \in Nat
  BY LatestType, SubstrateAssumption DEF ChainTypeOK, Heights, Action
<1>4. Later(Latest, cap)
  <2>1. CASE Latest.status = "NotFound"
    <3>1. Latest.totalSpent = 0 /\ ~Latest.allowlist
      BY <2>1 DEF UnmintedIsBlank, Unminted
    <3> QED
      BY <1>1, <2>1, <3>1 DEF Later
  <2>2. CASE Latest.status = "Active"
    <3>1. cap.totalSpent >= Latest.totalSpent
      <4>1. Latest.totalSpent \in Nat
        BY <1>3 DEF CapabilityState
      <4> QED
        BY <1>1, <1>3, <2>2, <4>1
    <3> QED
      BY <1>1, <2>2, <3>1 DEF Later
  <2> QED
    BY <1>1, <1>3, <2>1, <2>2 DEF CapabilityState, CapabilityStatus
<1>5. \A h \in Heights : Later(ledger[h], cap)
  <2> SUFFICES ASSUME NEW h \in Heights PROVE Later(ledger[h], cap)
    OBVIOUS
  <2>1. Later(ledger[h], Latest)
    BY <1>2 DEF LedgerGrows, Heights, Latest
  <2>2. ledger[h].totalSpent \in Nat /\ Latest.totalSpent \in Nat /\ cap.totalSpent \in Nat
    BY <1>3 DEF CapabilityState
  <2> QED
    BY <1>4, <2>1, <2>2 DEF Later
<1>6. Later(cap, cap)
  BY DEF Later, CapabilityState
<1>7. LedgerGrows'
  <2> SUFFICES ASSUME NEW i \in Heights', NEW j \in Heights', i <= j
               PROVE  Later(ledger'[i], ledger'[j])
    BY DEF LedgerGrows
  <2>1. CASE i \in Heights /\ j \in Heights
    BY <1>2, <2>1 DEF LedgerGrows
  <2>2. CASE i \in Heights /\ j = Len(ledger) + 1
    BY <1>2, <1>5, <2>2
  <2>3. CASE i = Len(ledger) + 1 /\ j = Len(ledger) + 1
    BY <1>2, <1>6, <2>3
  <2> QED
    BY <1>2, <2>1, <2>2, <2>3 DEF Heights
<1>8. UnmintedIsBlank'
  BY <1>1, <1>2 DEF UnmintedIsBlank, Latest
<1> QED
  BY <1>7, <1>8

(* Evidence on the ledger stays there.                                     *)
LEMMA GroundsStay ==
  ASSUME ChainTypeOK, ChainNext, NEW c \in Calls, Grounds(c)
  PROVE  Grounds(c)'
<1>1. act' = act
  BY DEF ChainNext, Include, Replicate, Principal, Mint, ChangeLimits, Revoke, Allow
<1>2. Heights \subseteq Heights' /\ \A h \in Heights : ledger'[h] = ledger[h]
  <2>1. CASE ledger' = ledger
    BY <2>1 DEF Heights
  <2>2. CASE ledger' # ledger
    BY <2>2, CommitsOf, CommitAppends, ChainStep
  <2> QED
    BY <2>1, <2>2
<1>3. CASE \E h \in Heights : ledger[h].status = "Revoked"
  BY <1>2, <1>3 DEF Grounds
<1>4. CASE \E h \in Heights : act[c].time > ledger[h].validUntil
  BY <1>1, <1>2, <1>4 DEF Grounds
<1>5. CASE \E g, h \in Heights : ledger[g].totalSpent + act[c].amount > ledger[h].maxSpend
  BY <1>1, <1>2, <1>5 DEF Grounds
<1>6. CASE \E g, h \in Heights : /\ ledger[g].allowlist
                                 /\ act[c].counterparty \notin ledger[h].allowed
  BY <1>1, <1>2, <1>6 DEF Grounds
<1> QED
  BY <1>3, <1>4, <1>5, <1>6 DEF Grounds

(* The chain keeps the invariant.                                          *)
LEMMA ChainEInv == ASSUME EInv, Chain PROVE EInv'
<1>1. TypeOK' /\ ChainTypeOK
  BY ChainType DEF EInv, TypeOK
<1>2. UNCHANGED <<pc, before, since, outcome>>
  BY DEF Chain, callVars
<1>3. \A c \in Calls : fate'[c] = "none" <=> fate[c] = "none"
  <2>1. \A c \in Calls : fate'[c] # fate[c] => InFlight(c)
    BY <1>1, ChainStep DEF Chain
  <2>2. \A c \in Calls : fate'[c] # fate[c] => fate'[c] # "none"
    <3>1. ASSUME NEW d \in Calls, Include(d)
          PROVE  fate' = [fate EXCEPT ![d] = ContractCode(Latest, act[d])]
                 /\ ContractCode(Latest, act[d]) # "none"
      BY <3>1, ContractCodeType DEF Include, Codes, EnforcementCode
    <3> QED
      BY <1>1, <3>1 DEF Chain, ChainNext, Replicate, Principal, Mint, ChangeLimits, Revoke,
                        Allow, ChainTypeOK
  <2> QED
    BY <2>1, <2>2 DEF InFlight
<1>4. LedgerGrows' /\ UnmintedIsBlank'
  <2>1. CASE ledger' = ledger
    BY <2>1 DEF EInv, LedgerGrows, UnmintedIsBlank, Heights, Latest
  <2>2. CASE ledger' # ledger
    BY <1>1, <2>2, LaterCommits DEF EInv, Chain
  <2> QED
    BY <2>1, <2>2
<1>5. DeniedOnGrounds'
  <2> SUFFICES ASSUME NEW c \in Calls, FastDenied(c)' PROVE Grounds(c)'
    BY DEF DeniedOnGrounds
  <2>1. FastDenied(c)
    BY <1>2, <1>3 DEF FastDenied
  <2> QED
    BY <1>1, <2>1, GroundsStay DEF EInv, DeniedOnGrounds, Chain
<1>6. SentWhenSettling'
  BY <1>2, <1>3 DEF EInv, SentWhenSettling
<1> QED
  BY <1>1, <1>4, <1>5, <1>6 DEF EInv

(* The fields a read returns, and the heights it found them at.            *)
LEMMA FieldsOfReads ==
  ASSUME TypeOK, NEW c \in Calls, NEW seen \in CapabilityReads(c)
  PROVE  /\ \E h \in Window(c) : seen.status = ledger[h].status
         /\ \E h \in Window(c) : seen.maxSpend = ledger[h].maxSpend
         /\ \E h \in Window(c) : seen.validUntil = ledger[h].validUntil
         /\ \E h \in Window(c) : seen.totalSpent = ledger[h].totalSpent
         /\ Window(c) \subseteq Heights
<1>1. /\ seen.status \in ReadOf(c, "status")
      /\ seen.maxSpend \in ReadOf(c, "maxSpend")
      /\ seen.validUntil \in ReadOf(c, "validUntil")
      /\ seen.totalSpent \in ReadOf(c, "totalSpent")
  BY DEF CapabilityReads
<1> QED
  BY <1>1, ReadsCommitted DEF ReadOf

(* A denial by a field has grounds on the ledger ...                       *)
LEMMA FieldGrounds ==
  ASSUME TypeOK, NEW c \in Calls, NEW seen \in CapabilityReads(c),
         Prejudge(seen, act[c]) \notin {"NotFound", "Allowed"}
  PROVE  Grounds(c)
<1>1. Prejudge(seen, act[c]) \in {"Revoked", "Expired", "OverBudget"}
  BY PrejudgeRests
<1>2. CASE Prejudge(seen, act[c]) = "Revoked"
  <2>1. seen.status = "Revoked"
    BY <1>2, PrejudgeRests
  <2> QED
    BY <2>1, FieldsOfReads DEF Grounds
<1>3. CASE Prejudge(seen, act[c]) = "Expired"
  <2>1. act[c].time > seen.validUntil
    BY <1>3, PrejudgeRests
  <2> QED
    BY <2>1, FieldsOfReads DEF Grounds
<1>4. CASE Prejudge(seen, act[c]) = "OverBudget"
  <2>1. seen.totalSpent + act[c].amount > seen.maxSpend
    BY <1>4, PrejudgeRests
  <2> QED
    BY <2>1, FieldsOfReads DEF Grounds
<1> QED
  BY <1>1, <1>2, <1>3, <1>4

(* ... and so has one by the allowlist.                                    *)
LEMMA AllowlistRests ==
  ASSUME NEW c \in Calls
  PROVE  /\ AllowlistCode(c, "OutOfAllowlist") =>
              \E g, h \in Window(c) : /\ ledger[g].allowlist
                                      /\ act[c].counterparty \notin ledger[h].allowed
         /\ AllowlistCode(c, "Allowed") =>
              \E g, h \in Window(c) :
                ledger[g].allowlist => act[c].counterparty \in ledger[h].allowed
  BY DEF AllowlistCode, PrejudgeAllowlist, ReadOf

(* A call that ends keeps the invariant, if a denial has grounds.          *)
LEMMA FinishEInv ==
  ASSUME EInv, TypeOK', UNCHANGED <<ledger, act>>, NEW c \in Calls, NEW o, Finish(c, o),
         \A d \in Calls : d # c => fate'[d] = fate[d],
         o \in Refusals /\ fate'[c] = "none" => Grounds(c)
  PROVE  EInv'
<1>1. /\ pc'[c] = "done" /\ outcome'[c] = o
      /\ \A d \in Calls : d # c => pc'[d] = pc[d] /\ outcome'[d] = outcome[d]
  BY DEF Finish, EInv, TypeOK
<1>2. LedgerGrows' /\ UnmintedIsBlank'
  BY DEF EInv, LedgerGrows, UnmintedIsBlank, Heights, Latest
<1>3. \A d \in Calls : Grounds(d) => Grounds(d)'
  BY DEF Grounds, Heights
<1>4. DeniedOnGrounds'
  <2> SUFFICES ASSUME NEW d \in Calls, FastDenied(d)' PROVE Grounds(d)'
    BY DEF DeniedOnGrounds
  <2>1. CASE d = c
    BY <1>1, <1>3, <2>1 DEF FastDenied
  <2>2. CASE d # c
    BY <1>1, <1>3, <2>2 DEF EInv, DeniedOnGrounds, FastDenied
  <2> QED
    BY <2>1, <2>2
<1>5. SentWhenSettling'
  BY <1>1 DEF EInv, SentWhenSettling
<1> QED
  BY <1>2, <1>4, <1>5 DEF EInv

(* A call that goes on keeps it, if what it waits to settle was sent.      *)
LEMMA GoesOnEInv ==
  ASSUME EInv, TypeOK', UNCHANGED <<ledger, act, outcome>>, NEW c \in Calls,
         \A d \in Calls : d # c => fate'[d] = fate[d] /\ pc'[d] = pc[d],
         fate'[c] = "none" => fate[c] = "none",
         pc'[c] \in {"settling", "rejudging"} => fate'[c] # "none"
  PROVE  EInv'
<1>1. LedgerGrows' /\ UnmintedIsBlank'
  BY DEF EInv, LedgerGrows, UnmintedIsBlank, Heights, Latest
<1>2. \A d \in Calls : Grounds(d) => Grounds(d)'
  BY DEF Grounds, Heights
<1>3. \A d \in Calls : FastDenied(d)' => FastDenied(d)
  BY DEF FastDenied
<1>4. DeniedOnGrounds'
  BY <1>2, <1>3 DEF EInv, DeniedOnGrounds
<1>5. SentWhenSettling'
  BY DEF EInv, SentWhenSettling
<1> QED
  BY <1>1, <1>4, <1>5 DEF EInv

(* Every leg of enforce keeps it.                                          *)
LEMMA CallEInv == ASSUME EInv, NEW c \in Calls, Call(c) PROVE EInv'
<1>1. TypeOK /\ TypeOK' /\ ChainTypeOK
  BY NextType DEF EInv, Next, TypeOK
<1>2. \A o \in Throws : o \notin Refusals
  BY DEF Throws, Refusals, Codes, EnforcementCode
<1>3. \A label : Goto(c, label) =>
        pc'[c] = label /\ outcome' = outcome /\ \A d \in Calls : d # c => pc'[d] = pc[d]
  BY <1>1, OtherCallsStay
<1>4. CASE Enforce(c)
  <2>1. UNCHANGED <<ledger, act, fate>> /\ Goto(c, "reading")
    BY <1>4 DEF Enforce, chainVars
  <2> QED
    BY <1>1, <1>3, <2>1, GoesOnEInv
<1>5. CASE ReadBefore(c)
  <2>1. UNCHANGED <<ledger, act, fate>>
    BY <1>5 DEF ReadBefore, chainVars
  <2>2. ASSUME NEW label \in {"judging", "sending"}, Goto(c, label) PROVE EInv'
    BY <1>1, <1>3, <2>1, <2>2, GoesOnEInv
  <2>3. ASSUME NEW seen \in CapabilityReads(c),
               Prejudge(seen, act[c]) \notin {"NotFound", "Allowed"},
               Finish(c, Prejudge(seen, act[c]))
        PROVE  EInv'
    BY <1>1, <2>1, <2>3, FieldGrounds, FinishEInv
  <2> QED
    BY <1>5, <2>2, <2>3 DEF ReadBefore
<1>6. CASE JudgeAllowlist(c)
  <2>1. UNCHANGED <<ledger, act, fate>>
    BY <1>6 DEF JudgeAllowlist, chainVars
  <2>2. CASE Goto(c, "sending")
    BY <1>1, <1>3, <2>1, <2>2, GoesOnEInv
  <2>3. CASE AllowlistCode(c, "OutOfAllowlist") /\ Finish(c, "OutOfAllowlist")
    <3>1. Grounds(c)
      BY <1>1, <2>3, AllowlistRests, ReadsCommitted DEF Grounds
    <3> QED
      BY <1>1, <2>1, <2>3, <3>1, FinishEInv
  <2> QED
    BY <1>6, <2>2, <2>3 DEF JudgeAllowlist
<1>7. CASE ReadFails(c)
  BY <1>1, <1>2, <1>7, FinishEInv DEF ReadFails, Throws, chainVars
<1>8. CASE SendAccepted(c)
  <2>1. /\ UNCHANGED <<ledger, act>> /\ Goto(c, "settling") /\ fate'[c] = "mempool"
        /\ \A d \in Calls : d # c => fate'[d] = fate[d]
    BY <1>1, <1>8 DEF SendAccepted, ChainTypeOK
  <2> QED
    BY <1>1, <1>3, <2>1, GoesOnEInv
<1>9. CASE SendRejected(c) \/ SendReplyLost(c)
  <2>1. /\ UNCHANGED <<ledger, act>> /\ Finish(c, "failed")
        /\ \A d \in Calls : d # c => fate'[d] = fate[d]
    BY <1>1, <1>9 DEF SendRejected, SendReplyLost, ChainTypeOK, chainVars
  <2> QED
    BY <1>1, <1>2, <2>1, FinishEInv DEF Throws
<1>10. CASE SettleAgain(c)
  <2>1. UNCHANGED <<ledger, act, fate, pc, outcome>>
    BY <1>10 DEF SettleAgain, chainVars
  <2> QED
    BY <1>1, <2>1, GoesOnEInv DEF EInv, SentWhenSettling
<1>11. CASE Conclude(c)
  <2>1. UNCHANGED <<ledger, act, fate>> /\ fate[c] # "none"
    BY <1>1, <1>11, ConcludeOf DEF EInv, SentWhenSettling, chainVars
  <2>2. ASSUME NEW o, Finish(c, o) PROVE EInv'
    BY <1>1, <2>1, <2>2, FinishEInv
  <2>3. CASE Goto(c, "rejudging")
    BY <1>1, <1>3, <2>1, <2>3, GoesOnEInv
  <2> QED
    BY <1>1, <1>11, <2>2, <2>3, ConcludeOf
<1> QED
  BY <1>4, <1>5, <1>6, <1>7, <1>8, <1>9, <1>10, <1>11 DEF Call, Read, Submit

(* Every step keeps it.                                                    *)
LEMMA NextEInv == ASSUME EInv, [Next]_vars PROVE EInv'
<1>1. ASSUME UNCHANGED vars PROVE EInv'
  BY <1>1, NextType
  DEF EInv, vars, chainVars, callVars, LedgerGrows, UnmintedIsBlank, Heights, Latest,
      DeniedOnGrounds, FastDenied, Grounds, SentWhenSettling
<1> QED
  BY <1>1, ChainEInv, CallEInv DEF Next

(* enforce's comment, "spend only grows, expiry and revocation are         *)
(* monotonic": whatever the nodes answered and however the calls overlap,  *)
(* what was denied at once would be refused by the contract from then on,  *)
(* unless the principal changes the policy.                                *)
THEOREM FastDenialsStand == Spec => []FastDenyFinal
<1>1. Init => EInv
  BY InitEInv
<1>2. EInv /\ [Next]_vars => EInv'
  BY NextEInv
<1>3. EInv => FastDenyFinal
  BY GroundsStand
<1> QED
  BY <1>1, <1>2, <1>3, PTL DEF Spec

-----------------------------------------------------------------------------
(* NoDoomedTransaction and FastDenyJustified, for the documented pattern.  *)
(* A transaction is in flight only while its call settles, or after it     *)
(* threw.                                                                  *)
LEMMA InFlightWhere ==
  ASSUME AInv, NEW d \in Calls, InFlight(d)
  PROVE  pc[d] = "settling" \/ (pc[d] = "done" /\ outcome[d] \in Throws)
<1>1. TypeOK /\ fate[d] = "mempool"
  BY DEF AInv, DInv, InFlight
<1>2. pc[d] \in {"settling", "done"}
  BY <1>1 DEF AInv, DInv, TypeOK, UnsentUntilSend, SeenMinted
<1>3. CASE pc[d] = "done"
  <2>1. outcome[d] \in Codes \cup Throws
    BY <1>1, <1>3 DEF TypeOK, Finished, Verdicts
  <2>2. outcome[d] # "Allowed" /\ outcome[d] \notin Refusals
    BY <1>1 DEF AInv, AllowedSound, DInv, DeniedUnsent, Recorded
  <2> QED
    BY <1>3, <2>1, <2>2 DEF Refusals
<1> QED
  BY <1>2, <1>3

(* Nothing is in flight while a call has yet to submit.                    *)
LEMMA NoneInFlight ==
  ASSUME AInv, NEW c \in Calls, pc[c] \in {"reading", "judging", "sending"}
  PROVE  \A d \in Calls : ~InFlight(d)
<1> SUFFICES ASSUME NEW d \in Calls, InFlight(d) PROVE FALSE
  OBVIOUS
<1>1. d # c
  BY DEF AInv, DInv, UnsentUntilSend, InFlight
<1>2. ~Active(d) /\ outcome[d] \notin Throws
  BY <1>1 DEF AInv, OneAtATime, NoThrow, Active
<1> QED
  BY <1>2, InFlightWhere DEF Active

(* A policy unchanged at the end of the ledger was unchanged before.       *)
LEMMA PolicyPrefix ==
  ASSUME ChainTypeOK, NEW cap \in CapabilityState, Commit(cap), PolicyUnchanged'
  PROVE  /\ PolicyUnchanged
         /\ \A f \in {"maxSpend", "validUntil", "allowed"} : cap[f] = Latest[f]
<1>1. /\ Len(ledger') = Len(ledger) + 1
      /\ \A h \in Heights : ledger'[h] = ledger[h]
      /\ ledger'[Len(ledger) + 1] = cap
      /\ Len(ledger) \in Nat \ {0}
  BY CommitAppends
<1>2. Heights \subseteq Heights' /\ 1 \in Heights /\ Len(ledger) \in Heights
      /\ Len(ledger) + 1 \in Heights'
  BY <1>1 DEF Heights
<1>3. \A h \in Heights' : \A f \in {"maxSpend", "validUntil", "allowed"} :
        ledger'[h][f] = ledger'[1][f]
  BY DEF PolicyUnchanged
<1>4. \A h \in Heights : \A f \in {"maxSpend", "validUntil", "allowed"} :
        ledger[h][f] = ledger[1][f]
  BY <1>1, <1>2, <1>3
<1>5. PolicyUnchanged
  BY <1>4 DEF PolicyUnchanged
<1>6. \A f \in {"maxSpend", "validUntil", "allowed"} : cap[f] = ledger[1][f]
  BY <1>1, <1>2, <1>3
<1> QED
  BY <1>2, <1>4, <1>5, <1>6 DEF Latest

(* With an unchanged policy every height has the limits of the latest.     *)
LEMMA PolicyOfLatest ==
  ASSUME ChainTypeOK, PolicyUnchanged, NEW h \in Heights
  PROVE  /\ ledger[h].maxSpend = Latest.maxSpend
         /\ ledger[h].validUntil = Latest.validUntil
         /\ ledger[h].allowed = Latest.allowed
<1>1. Len(ledger) \in Heights
  BY DEF ChainTypeOK, Heights
<1> QED
  BY <1>1 DEF PolicyUnchanged, Latest

(* Steps of the chain that commit nothing.                                 *)
LEMMA QuietBInv ==
  ASSUME Serial, BInv, Chain, ledger' = ledger
  PROVE  BInv'
<1>1. AInv' /\ TypeOK /\ ChainTypeOK
  BY QuietAInv DEF BInv, AInv, DInv, TypeOK
<1>2. /\ UNCHANGED <<pc, outcome, before, since>>
      /\ act' = act /\ Latest' = Latest /\ Heights' = Heights
      /\ PolicyUnchanged' = PolicyUnchanged
      /\ \A h : Count(h)' = Count(h)
  BY DEF Chain, callVars, ChainNext, Include, Replicate, Principal, Mint, ChangeLimits,
         Revoke, Allow, Latest, Heights, PolicyUnchanged, Count
<1>3. \A c \in Calls : fate'[c] # fate[c] => Include(c)
  BY <1>1 DEF Chain, ChainNext, Include, Replicate, Principal, Mint, ChangeLimits,
              Revoke, Allow, ChainTypeOK
<1>4. \A c \in Calls : Include(c) => fate'[c] = ContractCode(Latest, act[c]) /\ InFlight(c)
  BY <1>1 DEF Include, ChainTypeOK
<1>5. \A c \in Calls : InFlight(c)' => InFlight(c)
  BY <1>3, <1>4, ContractCodeType DEF InFlight, Codes, EnforcementCode
<1>6. TotalsFollowCounts' /\ OneAllowlist'
  BY <1>2 DEF BInv, TotalsFollowCounts, OneAllowlist
<1>7. OneInFlight' /\ Budgeted' /\ Listed'
  BY <1>2, <1>5 DEF BInv, OneInFlight, Budgeted, Listed
<1> QED
  BY <1>1, <1>6, <1>7 DEF BInv

(* Commits: the principal's, or the record of the one action in flight.    *)
LEMMA CommitBInv ==
  ASSUME Serial, BInv, Chain, ledger' # ledger
  PROVE  BInv'
<1>1. AInv' /\ TypeOK /\ ChainTypeOK
  BY CommitAInv DEF BInv, AInv, DInv, TypeOK
<1>2. Latest \in CapabilityState /\ Latest.status # "NotFound"
  <2>1. Len(ledger) \in Heights
    BY <1>1 DEF ChainTypeOK, Heights
  <2> QED
    BY <1>1, <2>1, LatestType DEF BInv, AInv, DInv, MintedSince, Latest
<1>3. PICK cap \in CapabilityState :
         /\ Commit(cap)
         /\ Latest.status # "Revoked"
         /\ Latest.status = "Active" =>
              /\ cap.allowlist = Latest.allowlist
              /\ \/ /\ fate' = fate
                    /\ cap.totalSpent = Latest.totalSpent
                    /\ cap.actionCount = Latest.actionCount
                 \/ \E c \in Calls :
                      /\ InFlight(c)
                      /\ fate' = [fate EXCEPT ![c] = "Allowed"]
                      /\ cap.actionCount = Latest.actionCount + 1
                      /\ cap.totalSpent = Latest.totalSpent + act[c].amount
  BY <1>1, CommitsOf DEF Chain
<1>4. Latest.status = "Active"
  BY <1>2, <1>3 DEF CapabilityState, CapabilityStatus
<1>0. PICK N : N = Len(ledger)
  OBVIOUS
<1>5. /\ Len(ledger') = N + 1
      /\ \A h \in Heights : ledger'[h] = ledger[h]
      /\ ledger'[N + 1] = cap
      /\ N \in Nat \ {0}
  BY <1>0, <1>1, <1>3, CommitAppends
<1>6. /\ Heights = 1 .. N /\ Heights' = 1 .. (N + 1)
      /\ Latest = ledger[N] /\ Latest' = cap
      /\ 1 \in Heights /\ N \in Heights
      /\ \A h \in Heights' : h \in Heights \/ h = N + 1
  BY <1>0, <1>5 DEF Heights, Latest
<1>7. /\ UNCHANGED <<pc, outcome, before, since>>
      /\ act' = act
  BY DEF Chain, callVars, ChainNext, Include, Replicate, Principal, Mint, ChangeLimits,
         Revoke, Allow
<1>8. \A c \in Calls : InFlight(c)' => InFlight(c)
  BY <1>1, <1>3, <1>4 DEF InFlight, ChainTypeOK
<1>9. OneInFlight'
  BY <1>8 DEF BInv, OneInFlight
<1>10. OneAllowlist'
  <2> SUFFICES ASSUME NEW h \in Heights' PROVE ledger'[h].allowlist = ledger'[1].allowlist
    BY DEF OneAllowlist
  <2>1. ledger[N].allowlist = ledger[1].allowlist
    BY <1>6 DEF BInv, OneAllowlist
  <2>2. ledger'[1] = ledger[1]
    BY <1>5, <1>6
  <2>3. CASE h \in Heights
    BY <1>5, <2>2, <2>3 DEF BInv, OneAllowlist
  <2>4. CASE h = N + 1
    BY <1>3, <1>4, <1>5, <1>6, <2>1, <2>2, <2>4
  <2> QED
    BY <1>6, <2>3, <2>4
<1>11. TotalsFollowCounts'
  <2>1. /\ \A h \in Heights : Count(h)' = Count(h) /\ Count(h) \in Nat /\ Count(h) <= Count(N)
        /\ Count(N + 1)' = cap.actionCount
        /\ Count(N) = Latest.actionCount
    BY <1>0, <1>5, <1>6, CountFacts DEF BInv, Count, Committed
  <2>2. \A h \in Heights : Count(h) = cap.actionCount => ledger[h].totalSpent = cap.totalSpent
    <3> SUFFICES ASSUME NEW h \in Heights, Count(h) = cap.actionCount
                 PROVE  ledger[h].totalSpent = cap.totalSpent
      OBVIOUS
    <3>1. cap.actionCount # Latest.actionCount + 1
      BY <1>6, <2>1
    <3>2. cap.totalSpent = Latest.totalSpent /\ cap.actionCount = Latest.actionCount
      BY <1>3, <1>4, <3>1
    <3> QED
      BY <1>6, <2>1, <3>2 DEF BInv, TotalsFollowCounts
  <2> SUFFICES ASSUME NEW i \in Heights', NEW j \in Heights', Count(i)' = Count(j)'
               PROVE  ledger'[i].totalSpent = ledger'[j].totalSpent
    BY DEF TotalsFollowCounts
  <2>3. CASE i \in Heights /\ j \in Heights
    BY <1>5, <2>1, <2>3 DEF BInv, TotalsFollowCounts
  <2>4. CASE i \in Heights /\ j = N + 1
    BY <1>5, <2>1, <2>2, <2>4
  <2>5. CASE i = N + 1 /\ j \in Heights
    BY <1>5, <2>1, <2>2, <2>5
  <2>6. CASE i = N + 1 /\ j = N + 1
    BY <2>6
  <2> QED
    BY <1>6, <2>3, <2>4, <2>5, <2>6
<1>12. ASSUME PolicyUnchanged'
       PROVE  /\ PolicyUnchanged
              /\ cap.maxSpend = Latest.maxSpend /\ cap.validUntil = Latest.validUntil
              /\ cap.allowed = Latest.allowed
  BY <1>1, <1>3, <1>12, PolicyPrefix
<1>13. ASSUME NEW c \in Calls, pc[c] \in {"judging", "sending"} \/ InFlight(c)'
       PROVE  cap.totalSpent = Latest.totalSpent
  <2> SUFFICES ASSUME NEW d \in Calls, InFlight(d), fate' = [fate EXCEPT ![d] = "Allowed"]
               PROVE  FALSE
    BY <1>3, <1>4
  <2>1. pc[c] \notin {"judging", "sending"}
    BY NoneInFlight DEF BInv
  <2>2. c # d
    BY <1>1, <1>13, <2>1 DEF InFlight, ChainTypeOK
  <2> QED
    BY <1>8, <1>13, <2>1, <2>2 DEF BInv, OneInFlight
<1>14. Budgeted'
  <2> SUFFICES ASSUME NEW c \in Calls, PolicyUnchanged',
                      pc[c] \in {"judging", "sending"} \/ InFlight(c)'
               PROVE  /\ act[c].time <= cap.validUntil
                      /\ cap.totalSpent + act[c].amount <= cap.maxSpend
    BY <1>6, <1>7 DEF Budgeted
  <2>1. /\ act[c].time <= Latest.validUntil
        /\ Latest.totalSpent + act[c].amount <= Latest.maxSpend
    BY <1>8, <1>12 DEF BInv, Budgeted
  <2> QED
    BY <1>12, <1>13, <2>1
<1>15. Listed'
  <2> SUFFICES ASSUME NEW c \in Calls, PolicyUnchanged', pc[c] = "sending" \/ InFlight(c)'
               PROVE  cap.allowlist => act[c].counterparty \in cap.allowed
    BY <1>6, <1>7 DEF Listed
  <2>1. Latest.allowlist => act[c].counterparty \in Latest.allowed
    BY <1>8, <1>12 DEF BInv, Listed
  <2> QED
    BY <1>3, <1>4, <1>12, <2>1
<1> QED
  BY <1>1, <1>9, <1>10, <1>11, <1>14, <1>15 DEF BInv

(* What a reading call is served has the committed spending, whichever     *)
(* heights it comes from.                                                  *)
LEMMA ReadingTotals ==
  ASSUME Serial, BInv, NEW c \in Calls, pc[c] = "reading", NEW h \in Window(c)
  PROVE  h \in Heights /\ ledger[h].totalSpent = Latest.totalSpent
<1>1. PICK n \in Nodes : TRUE
  BY SubstrateAssumption
<1>2. h \in Heights /\ since[c][n] <= h
  BY OneNodeWindow DEF BInv
<1>3. /\ Count(since[c][n]) = Committed /\ since[c][n] \in Heights
      /\ Count(h) \in Nat /\ Count(h) <= Committed
      /\ Len(ledger) \in Heights
  BY <1>2, CountFacts DEF BInv, AInv, Baseline
<1>4. Count(h) = Committed
  <2>1. Committed <= Count(h) /\ Committed \in Nat
    BY <1>2, <1>3, CountFacts DEF BInv, AInv, CountsGrow
  <2> QED
    BY <1>3, <2>1
<1> QED
  BY <1>2, <1>3, <1>4 DEF BInv, TotalsFollowCounts, Committed, Latest

(* A running call keeps the invariant, if what passes each judgement is    *)
(* what the contract would let pass.                                       *)
LEMMA GoesOnBInv ==
  ASSUME BInv, AInv', NEW c \in Calls, UNCHANGED <<ledger, act>>,
         \A d \in Calls : d # c => fate'[d] = fate[d] /\ pc'[d] = pc[d],
         fate'[c] = fate[c] \/ (pc[c] = "sending" /\ fate'[c] = "mempool"),
         PolicyUnchanged /\ pc'[c] \in {"judging", "sending"} =>
           /\ act[c].time <= Latest.validUntil
           /\ Latest.totalSpent + act[c].amount <= Latest.maxSpend,
         PolicyUnchanged /\ pc'[c] = "sending" =>
           (Latest.allowlist => act[c].counterparty \in Latest.allowed)
  PROVE  BInv'
<1>1. /\ Latest' = Latest /\ Heights' = Heights /\ PolicyUnchanged' = PolicyUnchanged
      /\ \A h : Count(h)' = Count(h)
  BY DEF Latest, Heights, PolicyUnchanged, Count
<1>2. TotalsFollowCounts' /\ OneAllowlist'
  BY <1>1 DEF BInv, TotalsFollowCounts, OneAllowlist
<1>3. \A d \in Calls : InFlight(d)' => InFlight(d) \/ (d = c /\ pc[c] = "sending")
  BY DEF InFlight
<1>4. OneInFlight'
  BY <1>3, NoneInFlight DEF BInv, OneInFlight
<1>5. Budgeted' /\ Listed'
  BY <1>1, <1>3 DEF BInv, Budgeted, Listed
<1> QED
  BY <1>2, <1>4, <1>5 DEF BInv

(* What passes prejudge and its allowlist.                                 *)
LEMMA FieldsPass ==
  ASSUME Serial, BInv, NEW c \in Calls, pc[c] = "reading", PolicyUnchanged,
         NEW seen \in CapabilityReads(c), Prejudge(seen, act[c]) = "Allowed"
  PROVE  /\ act[c].time <= Latest.validUntil
         /\ Latest.totalSpent + act[c].amount <= Latest.maxSpend
<1>1. TypeOK /\ ChainTypeOK
  BY DEF BInv, AInv, DInv, TypeOK
<1>2. ~(act[c].time > seen.validUntil) /\ ~(seen.totalSpent + act[c].amount > seen.maxSpend)
  BY PrejudgeRests
<1>3. /\ seen.validUntil = Latest.validUntil
      /\ seen.maxSpend = Latest.maxSpend
      /\ seen.totalSpent = Latest.totalSpent
  BY <1>1, FieldsOfReads, PolicyOfLatest, ReadingTotals
<1>4. /\ act[c].time \in Nat /\ act[c].amount \in Nat
      /\ Latest.validUntil \in Nat /\ Latest.totalSpent \in Nat /\ Latest.maxSpend \in Nat
  BY <1>1, LatestType, SubstrateAssumption DEF ChainTypeOK, Action, CapabilityState
<1> QED
  BY <1>2, <1>3, <1>4

(* The allowlist is enabled at every height or at none.                    *)
LEMMA ListPasses ==
  ASSUME BInv, NEW c \in Calls, PolicyUnchanged, AllowlistCode(c, "Allowed")
  PROVE  Latest.allowlist => act[c].counterparty \in Latest.allowed
<1>1. TypeOK /\ ChainTypeOK /\ Len(ledger) \in Heights
  BY DEF BInv, AInv, DInv, TypeOK, ChainTypeOK, Heights
<1>2. PICK g, h \in Window(c) : ledger[g].allowlist => act[c].counterparty \in ledger[h].allowed
  BY AllowlistRests
<1>3. g \in Heights /\ h \in Heights
  BY <1>1, ReadsCommitted
<1>4. ledger[g].allowlist = Latest.allowlist
  BY <1>1, <1>3 DEF BInv, OneAllowlist, Latest
<1>5. ledger[h].allowed = Latest.allowed
  BY <1>1, <1>3, PolicyOfLatest
<1> QED
  BY <1>2, <1>4, <1>5

(* Every leg of enforce keeps the invariant.                               *)
LEMMA CallBInv == ASSUME Serial, BInv, NEW c \in Calls, Call(c) PROVE BInv'
<1>1. AInv' /\ TypeOK /\ ChainTypeOK
  BY CallAInv DEF BInv, AInv, DInv, TypeOK
<1>2. \A label : Goto(c, label) =>
        pc'[c] = label /\ outcome' = outcome /\ \A d \in Calls : d # c => pc'[d] = pc[d]
  BY <1>1, OtherCallsStay
<1>3. \A o : Finish(c, o) => pc'[c] = "done" /\ \A d \in Calls : d # c => pc'[d] = pc[d]
  BY <1>1 DEF Finish, TypeOK
<1>4. CASE Enforce(c)
  <2>1. UNCHANGED <<ledger, act, fate>> /\ Goto(c, "reading")
    BY <1>4 DEF Enforce, chainVars
  <2> QED
    BY <1>1, <1>2, <2>1, GoesOnBInv
<1>5. CASE ReadBefore(c)
  <2>1. UNCHANGED <<ledger, act, fate>> /\ pc[c] = "reading"
    BY <1>5 DEF ReadBefore, chainVars
  <2>2. ASSUME NEW seen \in CapabilityReads(c) PROVE Prejudge(seen, act[c]) # "NotFound"
    BY <1>1, PrejudgeOf, ReadsCommitted DEF BInv, AInv, DInv, MintedSince
  <2>3. ASSUME NEW seen \in CapabilityReads(c), Prejudge(seen, act[c]) = "Allowed",
               Goto(c, "judging")
        PROVE  BInv'
    <3>1. PolicyUnchanged => /\ act[c].time <= Latest.validUntil
                             /\ Latest.totalSpent + act[c].amount <= Latest.maxSpend
      BY <2>1, <2>3, FieldsPass
    <3> QED
      BY <1>1, <1>2, <2>1, <2>3, <3>1, GoesOnBInv
  <2>4. ASSUME NEW o, Finish(c, o) PROVE BInv'
    BY <1>1, <1>3, <2>1, <2>4, GoesOnBInv
  <2> QED
    BY <1>5, <2>2, <2>3, <2>4 DEF ReadBefore
<1>6. CASE JudgeAllowlist(c)
  <2>1. UNCHANGED <<ledger, act, fate>> /\ pc[c] = "judging"
    BY <1>6 DEF JudgeAllowlist, chainVars
  <2>2. CASE AllowlistCode(c, "Allowed") /\ Goto(c, "sending")
    <3>1. PolicyUnchanged => /\ act[c].time <= Latest.validUntil
                             /\ Latest.totalSpent + act[c].amount <= Latest.maxSpend
      BY <2>1 DEF BInv, Budgeted
    <3>2. PolicyUnchanged => (Latest.allowlist => act[c].counterparty \in Latest.allowed)
      BY <2>2, ListPasses
    <3> QED
      BY <1>1, <1>2, <2>1, <2>2, <3>1, <3>2, GoesOnBInv
  <2>3. CASE Finish(c, "OutOfAllowlist")
    BY <1>1, <1>3, <2>1, <2>3, GoesOnBInv
  <2> QED
    BY <1>6, <2>2, <2>3 DEF JudgeAllowlist
<1>7. CASE ReadFails(c)
  BY <1>1, <1>3, <1>7, GoesOnBInv DEF ReadFails, chainVars
<1>8. CASE SendAccepted(c)
  <2>1. /\ UNCHANGED <<ledger, act>> /\ Goto(c, "settling") /\ pc[c] = "sending"
        /\ fate'[c] = "mempool" /\ \A d \in Calls : d # c => fate'[d] = fate[d]
    BY <1>1, <1>8 DEF SendAccepted, ChainTypeOK
  <2> QED
    BY <1>1, <1>2, <2>1, GoesOnBInv
<1>9. CASE SendRejected(c) \/ SendReplyLost(c)
  <2>1. /\ UNCHANGED <<ledger, act>> /\ Finish(c, "failed") /\ pc[c] = "sending"
        /\ fate'[c] \in {fate[c], "mempool"}
        /\ \A d \in Calls : d # c => fate'[d] = fate[d]
    BY <1>1, <1>9 DEF SendRejected, SendReplyLost, ChainTypeOK, chainVars
  <2> QED
    BY <1>1, <1>3, <2>1, GoesOnBInv
<1>10. CASE SettleAgain(c)
  <2>1. UNCHANGED <<ledger, act, fate, pc>> /\ pc[c] = "settling"
    BY <1>10 DEF SettleAgain, chainVars
  <2> QED
    BY <1>1, <2>1, GoesOnBInv
<1>11. CASE Conclude(c)
  <2>1. UNCHANGED <<ledger, act, fate>>
    BY <1>1, <1>11, ConcludeOf DEF chainVars
  <2>2. ASSUME NEW o, Finish(c, o) PROVE BInv'
    BY <1>1, <1>3, <2>1, <2>2, GoesOnBInv
  <2>3. CASE Goto(c, "rejudging")
    BY <1>1, <1>2, <2>1, <2>3, GoesOnBInv
  <2> QED
    BY <1>1, <1>11, <2>2, <2>3, ConcludeOf
<1> QED
  BY <1>4, <1>5, <1>6, <1>7, <1>8, <1>9, <1>10, <1>11 DEF Call, Read, Submit

(* It holds before the first call.                                         *)
LEMMA InitBInv == Serial /\ Init => BInv
<1> SUFFICES ASSUME Serial, Init PROVE BInv
  OBVIOUS
<1>1. PICK cap \in Capabilities : ledger = <<cap>>
  BY DEF Init, ChainInit
<1>2. Heights = {1}
  BY <1>1 DEF Heights
<1>3. TotalsFollowCounts /\ OneAllowlist
  BY <1>2 DEF TotalsFollowCounts, OneAllowlist
<1>4. \A c \in Calls : pc[c] = "idle" /\ fate[c] = "none"
  BY DEF Init, ChainInit
<1>5. OneInFlight /\ Budgeted /\ Listed
  BY <1>4 DEF OneInFlight, Budgeted, Listed, InFlight
<1> QED
  BY <1>3, <1>5, InitAInv DEF BInv

(* Every step of the documented pattern keeps it.                          *)
LEMMA NextBInv == ASSUME Serial, BInv, [Next]_vars PROVE BInv'
<1>1. ASSUME UNCHANGED vars PROVE BInv'
  <2>1. AInv'
    BY <1>1, NextAInv DEF BInv
  <2>2. /\ Latest' = Latest /\ Heights' = Heights /\ PolicyUnchanged' = PolicyUnchanged
        /\ \A h : Count(h)' = Count(h)
    BY <1>1 DEF vars, chainVars, Latest, Heights, PolicyUnchanged, Count
  <2> QED
    BY <1>1, <2>1, <2>2
    DEF BInv, vars, chainVars, callVars, TotalsFollowCounts, OneAllowlist, OneInFlight,
        InFlight, Budgeted, Listed
<1>2. ASSUME Chain PROVE BInv'
  BY <1>2, QuietBInv, CommitBInv
<1> QED
  BY <1>1, <1>2, CallBInv DEF Next

(* The calls are signed by the agent the capability was minted to.         *)
AllBound == \A a \in Actions : a.bound

(* What the contract cannot hold against a call it has been judged for.    *)
LEMMA OnlyRevoked ==
  ASSUME BInv, AllBound, NEW c \in Calls, InFlight(c), PolicyUnchanged,
         ContractCode(Latest, act[c]) # "Allowed"
  PROVE  Latest.status = "Revoked"
<1>1. /\ Latest \in CapabilityState /\ Latest.status # "NotFound"
      /\ act[c] \in Action /\ act[c].bound
  <2>1. ChainTypeOK
    BY DEF BInv, AInv, DInv, TypeOK
  <2>2. Len(ledger) \in Heights /\ act[c] \in Actions
    BY <2>1 DEF ChainTypeOK, Heights
  <2> QED
    BY <2>1, <2>2, LatestType, SubstrateAssumption
    DEF BInv, AInv, DInv, MintedSince, Latest, AllBound
<1>2. /\ act[c].time <= Latest.validUntil
      /\ Latest.totalSpent + act[c].amount <= Latest.maxSpend
      /\ Latest.allowlist => act[c].counterparty \in Latest.allowed
  BY DEF BInv, Budgeted, Listed
<1>3. /\ act[c].time \in Nat /\ act[c].amount \in Nat
      /\ Latest.validUntil \in Nat /\ Latest.totalSpent \in Nat /\ Latest.maxSpend \in Nat
  BY <1>1 DEF Action, CapabilityState
<1>4. ~(act[c].time > Latest.validUntil)
      /\ ~(Latest.totalSpent + act[c].amount > Latest.maxSpend)
  BY <1>2, <1>3
<1>5. ContractRefusals(Latest, act[c]) \subseteq {"Revoked"}
  BY <1>1, <1>2, <1>4, RefusalsOf
<1> QED
  BY <1>5, ContractCodeOf, RefusalsOf

(* A step has the contract refuse an action only on a revoked capability,  *)
(* or under a policy that has changed.                                     *)
LEMMA StepDooms ==
  ASSUME Serial, AllBound, BInv, NoDoomedTransaction, [Next]_vars
  PROVE  NoDoomedTransaction'
<1>1. TypeOK /\ ChainTypeOK
  BY DEF BInv, AInv, DInv, TypeOK
<1>2. \A c \in Calls : fate'[c] \in Refusals /\ fate'[c] # fate[c] =>
        InFlight(c) /\ fate'[c] = ContractCode(Latest, act[c])
  <2>1. ASSUME NEW c \in Calls, Call(c)
        PROVE  fate' = fate \/ fate' = [fate EXCEPT ![c] = "mempool"]
    BY <1>1, <2>1, ConcludeOf
    DEF Call, Enforce, Read, ReadBefore, JudgeAllowlist, ReadFails, Submit, SendAccepted,
        SendRejected, SendReplyLost, SettleAgain, chainVars
  <2>2. "mempool" \notin Refusals
    BY DEF Refusals, Codes, EnforcementCode
  <2>3. CASE \E c \in Calls : Call(c)
    BY <1>1, <2>1, <2>2, <2>3 DEF ChainTypeOK
  <2>4. CASE Chain
    BY <1>1, <2>4 DEF Chain, ChainNext, Include, Replicate, Principal, Mint, ChangeLimits,
                      Revoke, Allow, ChainTypeOK
  <2>5. CASE UNCHANGED vars
    BY <2>5 DEF vars, chainVars
  <2> QED
    BY <2>3, <2>4, <2>5 DEF Next
<1>3. CASE ledger' = ledger
  <2>1. Latest' = Latest /\ PolicyUnchanged' = PolicyUnchanged
    BY <1>3 DEF Latest, PolicyUnchanged, Heights
  <2> SUFFICES ASSUME NEW c \in Calls, PolicyUnchanged, fate'[c] \in Refusals
               PROVE  Latest.status = "Revoked"
    BY <2>1 DEF NoDoomedTransaction
  <2>2. CASE fate'[c] = fate[c]
    BY <2>2 DEF NoDoomedTransaction
  <2>3. CASE fate'[c] # fate[c]
    BY <1>2, <2>3, OnlyRevoked DEF Refusals
  <2> QED
    BY <2>2, <2>3
<1>4. CASE ledger' # ledger
  <2>1. Chain
    BY <1>1, <1>4, CallLedger DEF Next, vars, chainVars
  <2>2. PICK cap \in CapabilityState :
           /\ Commit(cap) /\ Latest.status # "Revoked"
           /\ Latest.status = "NotFound" => fate' = fate
           /\ Latest.status = "Active" =>
                fate' = fate \/ \E c \in Calls : fate' = [fate EXCEPT ![c] = "Allowed"]
    BY <1>1, <1>4, <2>1, CommitsOf DEF Chain
  <2>3. Latest.status \in {"NotFound", "Active"}
    BY <1>1, <2>2, LatestType DEF CapabilityState, CapabilityStatus
  <2>4. \A c \in Calls : fate'[c] \in Refusals => fate[c] \in Refusals
    BY <1>1, <2>2, <2>3 DEF ChainTypeOK, Refusals
  <2>5. PolicyUnchanged' => PolicyUnchanged
    BY <1>1, <2>2, PolicyPrefix
  <2> QED
    BY <2>2, <2>4, <2>5 DEF NoDoomedTransaction
<1> QED
  BY <1>3, <1>4

(* enforce's "no doomed transaction": in the documented pattern, signed by *)
(* the bound agent, a transaction is refused by the contract only after    *)
(* the principal has revoked the capability or changed its policy.         *)
THEOREM NothingDoomed ==
  ASSUME Serial, AllBound PROVE Spec => []NoDoomedTransaction
<1>1. Init => BInv
  BY InitBInv
<1>2. Init => NoDoomedTransaction
  BY DEF Init, ChainInit, NoDoomedTransaction, Refusals, Codes, EnforcementCode
<1>3. BInv /\ [Next]_vars => BInv'
  BY NextBInv
<1>4. BInv /\ NoDoomedTransaction /\ [Next]_vars => NoDoomedTransaction'
  BY StepDooms
<1> QED
  BY <1>1, <1>2, <1>3, <1>4, PTL DEF Spec

-----------------------------------------------------------------------------
(* A height the read was served from is one it spans.                      *)
LEMMA WindowInSpan == ASSUME TypeOK, NEW c \in Calls PROVE Window(c) \subseteq Span(c)
  BY ReadsCommitted DEF Span, Heights

(* In the documented pattern the capability exists at every height.        *)
LEMMA SpanMinted ==
  ASSUME BInv, NEW c \in Calls
  PROVE  \A h \in Span(c) : ledger[h].status # "NotFound"
  BY DEF BInv, AInv, DInv, MintedSince, Span

(* A refusal by a field is one the contract had at one of the heights.     *)
LEMMA FieldJustified ==
  ASSUME Serial, BInv, NEW c \in Calls, pc[c] = "reading",
         NEW seen \in CapabilityReads(c),
         Prejudge(seen, act[c]) \notin {"NotFound", "Allowed"}
  PROVE  Evidence(c, Prejudge(seen, act[c]))
<1> SUFFICES \E h \in Span(c) : Prejudge(seen, act[c]) \in ContractRefusals(ledger[h], act[c])
  BY SpanMinted DEF Evidence
<1>1. TypeOK /\ Window(c) \subseteq Span(c)
  BY WindowInSpan DEF BInv, AInv, DInv
<1>2. Prejudge(seen, act[c]) \in {"Revoked", "Expired", "OverBudget"}
  BY PrejudgeRests
<1>3. CASE Prejudge(seen, act[c]) = "Revoked"
  <2>1. seen.status = "Revoked"
    BY <1>3, PrejudgeRests
  <2> QED
    BY <1>1, <1>3, <2>1, FieldsOfReads, RefusalsOf
<1>4. CASE Prejudge(seen, act[c]) = "Expired"
  <2>1. act[c].time > seen.validUntil
    BY <1>4, PrejudgeRests
  <2> QED
    BY <1>1, <1>4, <2>1, FieldsOfReads, RefusalsOf
<1>5. CASE Prejudge(seen, act[c]) = "OverBudget"
  <2>1. seen.totalSpent + act[c].amount > seen.maxSpend
    BY <1>5, PrejudgeRests
  <2>2. PICK h \in Window(c) : seen.maxSpend = ledger[h].maxSpend
    BY <1>1, FieldsOfReads
  <2>3. seen.totalSpent = ledger[h].totalSpent
    BY <1>1, FieldsOfReads, ReadingTotals
  <2>4. ledger[h].totalSpent + act[c].amount > ledger[h].maxSpend
    BY <2>1, <2>2, <2>3
  <2> QED
    BY <1>1, <1>5, <2>4, RefusalsOf
<1> QED
  BY <1>2, <1>3, <1>4, <1>5

(* So is a refusal by the allowlist.                                       *)
LEMMA ListJustified ==
  ASSUME BInv, NEW c \in Calls, AllowlistCode(c, "OutOfAllowlist")
  PROVE  Evidence(c, "OutOfAllowlist")
<1> SUFFICES \E h \in Span(c) : "OutOfAllowlist" \in ContractRefusals(ledger[h], act[c])
  BY SpanMinted DEF Evidence
<1>1. TypeOK /\ Window(c) \subseteq Span(c) /\ Window(c) \subseteq Heights
  BY WindowInSpan, ReadsCommitted DEF BInv, AInv, DInv
<1>2. PICK g, h \in Window(c) : ledger[g].allowlist /\ act[c].counterparty \notin ledger[h].allowed
  BY AllowlistRests
<1>3. ledger[h].allowlist
  BY <1>1, <1>2 DEF BInv, OneAllowlist
<1> QED
  BY <1>1, <1>2, <1>3, RefusalsOf

(* A step that denies at once refuses by a field or by the allowlist.      *)
LEMMA InstantDenial ==
  ASSUME EInv, [Next]_vars, NEW d \in Calls, DeniesAtOnce(d)
  PROVE  \/ /\ pc[d] = "reading"
            /\ \E seen \in CapabilityReads(d) :
                 /\ Prejudge(seen, act[d]) \notin {"NotFound", "Allowed"}
                 /\ outcome'[d] = Prejudge(seen, act[d])
         \/ AllowlistCode(d, "OutOfAllowlist") /\ outcome'[d] = "OutOfAllowlist"
<1>1. TypeOK /\ ChainTypeOK
  BY DEF EInv, TypeOK
<1>2. /\ fate'[d] = "none" /\ outcome'[d] \in Refusals
      /\ fate[d] # "none" \/ outcome[d] \notin Refusals
  BY DEF DeniesAtOnce, FastDenied
<1>3. CASE UNCHANGED vars
  BY <1>2, <1>3 DEF vars, chainVars, callVars
<1>4. CASE Chain
  <2>1. ASSUME NEW c \in Calls, Include(c)
        PROVE  fate' = [fate EXCEPT ![c] = ContractCode(Latest, act[c])]
               /\ ContractCode(Latest, act[c]) # "none"
    BY <2>1, ContractCodeType DEF Include, Codes, EnforcementCode
  <2>2. fate[d] = "none"
    BY <1>1, <1>2, <1>4, <2>1 DEF Chain, ChainNext, Replicate, Principal, Mint, ChangeLimits,
                                  Revoke, Allow, ChainTypeOK
  <2> QED
    BY <1>2, <1>4, <2>2 DEF Chain, callVars
<1>5. ASSUME NEW c \in Calls, Call(c)
      PROVE  \/ /\ pc[d] = "reading"
                /\ \E seen \in CapabilityReads(d) :
                     /\ Prejudge(seen, act[d]) \notin {"NotFound", "Allowed"}
                     /\ outcome'[d] = Prejudge(seen, act[d])
             \/ AllowlistCode(d, "OutOfAllowlist") /\ outcome'[d] = "OutOfAllowlist"
  <2>1. fate' = fate \/ fate' = [fate EXCEPT ![c] = "mempool"]
    BY <1>1, <1>5, ConcludeOf
    DEF Call, Enforce, Read, ReadBefore, JudgeAllowlist, ReadFails, Submit, SendAccepted,
        SendRejected, SendReplyLost, SettleAgain, chainVars
  <2>2. fate[d] = "none" /\ outcome'[d] # outcome[d]
    BY <1>1, <1>2, <2>1 DEF ChainTypeOK
  <2>3. ASSUME NEW o, Finish(c, o) PROVE d = c /\ outcome'[d] = o /\ o \in Refusals
    BY <1>1, <1>2, <2>2, <2>3 DEF Finish, TypeOK
  <2>4. ASSUME NEW label, Goto(c, label) PROVE FALSE
    BY <2>2, <2>4 DEF Goto
  <2>5. CASE Enforce(c) \/ SettleAgain(c)
    BY <2>2, <2>5 DEF Enforce, SettleAgain, Goto
  <2>6. CASE ReadBefore(c)
    <3>1. PICK seen \in CapabilityReads(c) :
             /\ Prejudge(seen, act[c]) \notin {"NotFound", "Allowed"}
             /\ Finish(c, Prejudge(seen, act[c]))
      BY <2>4, <2>6 DEF ReadBefore
    <3> QED
      BY <2>3, <2>6, <3>1 DEF ReadBefore
  <2>7. CASE JudgeAllowlist(c)
    <3>1. AllowlistCode(c, "OutOfAllowlist") /\ Finish(c, "OutOfAllowlist")
      BY <2>4, <2>7 DEF JudgeAllowlist
    <3> QED
      BY <2>3, <3>1
  <2>8. "failed" \notin Refusals
    BY DEF Refusals, Codes, EnforcementCode
  <2>9. CASE ReadFails(c) \/ Submit(c)
    BY <2>3, <2>4, <2>8, <2>9 DEF ReadFails, Submit, SendAccepted, SendRejected, SendReplyLost
  <2>10. CASE Conclude(c)
    <3>1. \E o : Finish(c, o)
      BY <1>1, <2>4, <2>10, ConcludeOf
    <3>2. d = c /\ fate[c] # "none"
      BY <1>1, <2>3, <2>10, <3>1, ConcludeOf DEF EInv, SentWhenSettling
    <3> QED
      BY <2>2, <3>2
  <2> QED
    BY <1>5, <2>5, <2>6, <2>7, <2>9, <2>10 DEF Call, Read
<1> QED
  BY <1>3, <1>4, <1>5 DEF Next

(* enforce denies "backed by POSITIVE evidence": in the documented         *)
(* pattern, at one height the read spans the capability existed and the    *)
(* contract would have refused the action for the reason that enforce      *)
(* reports, although the fields come from several.                         *)
THEOREM FastDenialsJustified ==
  ASSUME Serial PROVE Spec => FastDenyJustified
<1> DEFINE Justified == \A c \in Calls : DeniesAtOnce(c) => Evidence(c, outcome'[c])
<1>1. Init => BInv /\ EInv
  BY InitBInv, InitEInv
<1>2. BInv /\ EInv /\ [Next]_vars => (BInv /\ EInv)'
  BY NextBInv, NextEInv
<1>3. BInv /\ EInv /\ [Next]_vars => Justified
  BY InstantDenial, FieldJustified, ListJustified
<1> HIDE DEF Justified
<1>4. Spec => [][Justified]_vars
  BY <1>1, <1>2, <1>3, PTL DEF Spec
<1> QED
  BY <1>4, PTL DEF FastDenyJustified, Justified

-----------------------------------------------------------------------------
(* VisibleDenyJustified, for the discipline "quiet" with any nodes: calls  *)
(* begin when all nodes agree, the mint may be in flight.                  *)

(* What is minted stays so, with or without its allowlist.                 *)
AllowlistLasts ==
  \A i, j \in Heights :
    i <= j /\ ledger[i].status # "NotFound" =>
      ledger[j].status # "NotFound" /\ ledger[j].allowlist = ledger[i].allowlist

Reading(c) == pc[c] = "reading"

(* While a call reads its pre-state, no other runs and nothing is in       *)
(* flight ...                                                              *)
ReadsAlone ==
  \A c \in Calls : Reading(c) =>
    \A d \in Calls : ~InFlight(d) /\ (d # c => pc[d] \in {"idle", "done"})

(* ... so that nothing is spent from the oldest height it may read.        *)
SpendingStands ==
  \A c \in Calls : Reading(c) =>
    \A n \in Nodes : \A h \in Heights :
      since[c][n] <= h => ledger[h].totalSpent = Latest.totalSpent

QInv == EInv /\ AllowlistLasts /\ ReadsAlone /\ SpendingStands

(* It holds before the first call.                                         *)
LEMMA InitQInv == Init => QInv
<1> SUFFICES ASSUME Init PROVE QInv
  OBVIOUS
<1>1. Heights = {1}
  <2>1. PICK cap \in Capabilities : ledger = <<cap>>
    BY DEF Init, ChainInit
  <2> QED
    BY <2>1 DEF Heights
<1>2. AllowlistLasts
  BY <1>1 DEF AllowlistLasts
<1>3. ReadsAlone /\ SpendingStands
  BY DEF Init, ReadsAlone, SpendingStands, Reading
<1> QED
  BY <1>2, <1>3, InitEInv DEF QInv

(* The chain keeps it: what is committed during a read spends nothing.     *)
LEMMA ChainQInv == ASSUME QInv, Chain PROVE QInv'
<1>1. EInv' /\ ChainTypeOK /\ ChainNext /\ UNCHANGED <<pc, since>>
  BY ChainEInv DEF QInv, EInv, TypeOK, Chain, callVars
<1>2. ReadsAlone'
  <2>1. \A c \in Calls : InFlight(c)' => InFlight(c)
    BY <1>1, ChainStep DEF InFlight
  <2> QED
    BY <1>1, <2>1 DEF QInv, ReadsAlone, Reading
<1>3. CASE ledger' = ledger
  BY <1>1, <1>2, <1>3 DEF QInv, AllowlistLasts, SpendingStands, Reading, Heights, Latest
<1>4. CASE ledger' # ledger
  <2>1. PICK cap \in CapabilityState :
           /\ Commit(cap)
           /\ Latest.status # "Revoked" /\ cap.status # "NotFound"
           /\ Latest.status = "NotFound" => cap.totalSpent = 0 /\ fate' = fate
           /\ Latest.status = "Active" =>
                /\ cap.allowlist = Latest.allowlist
                /\ cap.totalSpent = Latest.totalSpent \/ \E c \in Calls : InFlight(c)
    BY <1>1, <1>4, CommitsOf
  <2>2. /\ Len(ledger') = Len(ledger) + 1
        /\ \A h \in Heights : ledger'[h] = ledger[h]
        /\ ledger'[Len(ledger) + 1] = cap /\ Len(ledger) \in Nat \ {0}
    BY <1>1, <2>1, CommitAppends
  <2>3. Latest.status \in {"NotFound", "Active"}
    BY <1>1, <2>1, LatestType DEF CapabilityState, CapabilityStatus
  <2>4. AllowlistLasts'
    <3> SUFFICES ASSUME NEW i \in Heights', NEW j \in Heights', i <= j,
                        ledger'[i].status # "NotFound"
                 PROVE  /\ ledger'[j].status # "NotFound"
                        /\ ledger'[j].allowlist = ledger'[i].allowlist
      BY DEF AllowlistLasts
    <3>1. CASE i \in Heights /\ j \in Heights
      BY <2>2, <3>1 DEF QInv, AllowlistLasts
    <3>2. CASE i \in Heights /\ j = Len(ledger) + 1
      <4>1. Latest.status # "NotFound" /\ Latest.allowlist = ledger[i].allowlist
        BY <2>2, <3>2 DEF QInv, AllowlistLasts, Heights, Latest
      <4> QED
        BY <2>1, <2>2, <2>3, <3>2, <4>1
    <3>3. CASE i = Len(ledger) + 1 /\ j = Len(ledger) + 1
      BY <3>3
    <3> QED
      BY <2>2, <3>1, <3>2, <3>3 DEF Heights
  <2>5. SpendingStands'
    <3> SUFFICES ASSUME NEW c \in Calls, Reading(c), NEW n \in Nodes, NEW h \in Heights',
                        since[c][n] <= h
                 PROVE  ledger'[h].totalSpent = cap.totalSpent
      BY <1>1, <2>2 DEF SpendingStands, Reading, Latest
    <3>1. cap.totalSpent = Latest.totalSpent
      <4>1. Latest.status = "NotFound" => Latest.totalSpent = 0
        BY DEF QInv, EInv, UnmintedIsBlank, Unminted
      <4>2. \A d \in Calls : ~InFlight(d)
        BY DEF QInv, ReadsAlone
      <4> QED
        BY <2>1, <2>3, <4>1, <4>2
    <3>2. h \in Heights \/ h = Len(ledger) + 1
      BY <2>2 DEF Heights
    <3> QED
      BY <2>2, <3>1, <3>2 DEF QInv, SpendingStands
  <2> QED
    BY <1>1, <1>2, <2>4, <2>5 DEF QInv
<1> QED
  BY <1>3, <1>4

(* So does a call: only one that begins is reading afterwards.             *)
LEMMA CallQInv ==
  ASSUME Discipline = "quiet", QInv, NEW c \in Calls, Call(c)
  PROVE  QInv'
<1>1. EInv' /\ TypeOK /\ ChainTypeOK
  BY CallEInv DEF QInv, EInv, TypeOK
<1>2. UNCHANGED <<ledger, view>>
  BY <1>1, CallLedger
<1>3. AllowlistLasts'
  BY <1>2 DEF QInv, AllowlistLasts, Heights
<1>4. CASE Enforce(c)
  <2>1. /\ \A d \in Calls : ~InFlight(d) /\ pc[d] \in {"idle", "done"}
        /\ \A n \in Nodes : view[n] = Len(ledger)
        /\ UNCHANGED fate
    BY <1>4 DEF Enforce, MayStart, VisibleEverywhere, Finished, chainVars
  <2>2. /\ pc' = [pc EXCEPT ![c] = "reading"] /\ since' = [since EXCEPT ![c] = view]
        /\ since'[c] = view
    BY <1>1, <1>4 DEF Enforce, Goto, StartRead, TypeOK
  <2>3. \A d \in Calls : Reading(d)' => d = c
    BY <1>1, <2>1, <2>2 DEF Reading, TypeOK
  <2>4. ReadsAlone'
    BY <1>1, <2>1, <2>2, <2>3 DEF ReadsAlone, InFlight, TypeOK
  <2>5. SpendingStands'
    <3> SUFFICES ASSUME NEW n \in Nodes, NEW h \in Heights, since'[c][n] <= h
                 PROVE  ledger[h].totalSpent = Latest.totalSpent
      BY <1>2, <2>3 DEF SpendingStands, Heights, Latest
    <3>1. h = Len(ledger)
      BY <1>1, <2>1, <2>2 DEF Heights, ChainTypeOK
    <3> QED
      BY <3>1 DEF Latest
  <2> QED
    BY <1>1, <1>3, <2>4, <2>5 DEF QInv
<1>5. CASE ~Enforce(c)
  <2>1. pc[c] \notin {"idle", "done"}
    BY <1>1, <1>5, ConcludeOf
    DEF Call, Read, ReadBefore, JudgeAllowlist, ReadFails, Submit, SendAccepted, SendRejected,
        SendReplyLost, SettleAgain
  <2>2. /\ \A d \in Calls : d # c => pc'[d] = pc[d]
        /\ pc'[c] # "reading"
    <3>1. ASSUME NEW label \in {"judging", "sending", "settling", "rejudging"}, Goto(c, label)
          PROVE  pc' = [pc EXCEPT ![c] = label]
      BY <3>1 DEF Goto
    <3>2. ASSUME NEW o, Finish(c, o) PROVE pc' = [pc EXCEPT ![c] = "done"]
      BY <3>2 DEF Finish
    <3>3. \/ \E label \in {"judging", "sending", "settling", "rejudging", "done"} :
               pc' = [pc EXCEPT ![c] = label]
          \/ pc[c] = "settling" /\ pc' = pc
      BY <1>1, <1>5, <3>1, <3>2, ConcludeOf
      DEF Call, Read, ReadBefore, JudgeAllowlist, ReadFails, Submit, SendAccepted, SendRejected,
          SendReplyLost, SettleAgain
    <3> QED
      BY <1>1, <3>3 DEF TypeOK
  <2>3. \A d \in Calls : ~Reading(d)'
    BY <2>1, <2>2 DEF QInv, ReadsAlone, Reading
  <2> QED
    BY <1>1, <1>3, <2>3 DEF QInv, ReadsAlone, SpendingStands
<1> QED
  BY <1>4, <1>5

(* A window is between what one node showed and what it shows.             *)
LEMMA WindowSince ==
  ASSUME TypeOK, NEW c \in Calls, NEW h \in Window(c)
  PROVE  h \in Heights /\ h \in Span(c) /\ \E n \in Nodes : since[c][n] <= h
<1>1. h \in Heights /\ h \in Span(c)
  BY ReadsCommitted, WindowInSpan
<1>2. PICK n \in Nodes : h \in since[c][n] .. view[n]
  BY DEF Window
<1> QED
  BY <1>1, <1>2

(* Without the zeros of an unminted capability, a refusal by a field is    *)
(* one the contract had ...                                                *)
LEMMA FieldEvidence ==
  ASSUME QInv, NEW c \in Calls, Reading(c), NEW seen \in CapabilityReads(c),
         Prejudge(seen, act[c]) \notin {"NotFound", "Allowed"},
         \A h \in Span(c) : ledger[h].status # "NotFound"
  PROVE  Evidence(c, Prejudge(seen, act[c]))
<1> SUFFICES \E h \in Window(c) : Prejudge(seen, act[c]) \in ContractRefusals(ledger[h], act[c])
  BY WindowInSpan DEF QInv, EInv, Evidence
<1>1. TypeOK
  BY DEF QInv, EInv
<1>2. Prejudge(seen, act[c]) \in {"Revoked", "Expired", "OverBudget"}
  BY PrejudgeRests
<1>3. CASE Prejudge(seen, act[c]) = "Revoked"
  <2>1. seen.status = "Revoked"
    BY <1>3, PrejudgeRests
  <2> QED
    BY <1>1, <1>3, <2>1, FieldsOfReads, RefusalsOf
<1>4. CASE Prejudge(seen, act[c]) = "Expired"
  <2>1. act[c].time > seen.validUntil
    BY <1>4, PrejudgeRests
  <2> QED
    BY <1>1, <1>4, <2>1, FieldsOfReads, RefusalsOf
<1>5. CASE Prejudge(seen, act[c]) = "OverBudget"
  <2>1. seen.totalSpent + act[c].amount > seen.maxSpend
    BY <1>5, PrejudgeRests
  <2>2. PICK g, h \in Window(c) : /\ seen.totalSpent = ledger[g].totalSpent
                                  /\ seen.maxSpend = ledger[h].maxSpend
    BY <1>1, FieldsOfReads
  <2>3. ledger[g].totalSpent = ledger[h].totalSpent
    BY <1>1, <2>2, WindowSince DEF QInv, SpendingStands
  <2>4. ledger[h].totalSpent + act[c].amount > ledger[h].maxSpend
    BY <2>1, <2>2, <2>3
  <2> QED
    BY <1>5, <2>2, <2>4, RefusalsOf
<1> QED
  BY <1>2, <1>3, <1>4, <1>5

(* ... and so is one by the allowlist.                                     *)
LEMMA ListEvidence ==
  ASSUME QInv, NEW c \in Calls, AllowlistCode(c, "OutOfAllowlist"),
         \A h \in Span(c) : ledger[h].status # "NotFound"
  PROVE  Evidence(c, "OutOfAllowlist")
<1>1. TypeOK
  BY DEF QInv, EInv
<1>2. PICK g, h \in Window(c) : ledger[g].allowlist /\ act[c].counterparty \notin ledger[h].allowed
  BY AllowlistRests
<1>3. /\ g \in Heights /\ h \in Heights /\ h \in Span(c)
      /\ ledger[g].status # "NotFound" /\ ledger[h].status # "NotFound"
  BY <1>1, <1>2, WindowSince
<1>4. ledger[h].allowlist
  BY <1>2, <1>3 DEF QInv, AllowlistLasts, Heights
<1> QED
  BY <1>2, <1>3, <1>4, RefusalsOf DEF Evidence

(* Two nodes or more, and a mint that may be in flight: a read that meets  *)
(* only minted heights denies at once on evidence, if calls begin when     *)
(* nothing is in flight and all nodes agree.                               *)
THEOREM VisibleDenialsJustified ==
  ASSUME Discipline = "quiet" PROVE Spec => VisibleDenyJustified
<1> DEFINE Justified ==
      \A c \in Calls :
        DeniesAtOnce(c) /\ (\A h \in Span(c) : ledger[h].status # "NotFound") =>
          Evidence(c, outcome'[c])
<1>1. Init => QInv
  BY InitQInv
<1>2. QInv /\ [Next]_vars => QInv'
  <2>1. ASSUME QInv, UNCHANGED vars PROVE QInv'
    <3>1. EInv'
      BY <2>1, NextEInv DEF QInv
    <3> QED
      BY <2>1, <3>1
      DEF QInv, vars, chainVars, callVars, AllowlistLasts, ReadsAlone, SpendingStands, Reading,
          InFlight, Heights, Latest
  <2> QED
    BY <2>1, ChainQInv, CallQInv DEF Next
<1>3. QInv /\ [Next]_vars => Justified
  BY InstantDenial, FieldEvidence, ListEvidence DEF QInv, Reading
<1> HIDE DEF Justified
<1>4. Spec => [][Justified]_vars
  BY <1>1, <1>2, <1>3, PTL DEF Spec
<1> QED
  BY <1>4, PTL DEF VisibleDenyJustified, Justified
=============================================================================
