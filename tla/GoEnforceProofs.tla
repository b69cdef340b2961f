--------------------------- MODULE GoEnforceProofs ---------------------------
(***************************************************************************)
(* GoEnforce for any calls, workers, attempts, faults and actions.         *)
(*                                                                         *)
(* That the contract counts and charges an action once holds whatever the  *)
(* nodes and the principal do: a worker's submissions share one ActionID,  *)
(* and a blocking call submits once (KeyedOnce).  The total is a fold over *)
(* a set, whose unfolding rests on the well-foundedness of finite sets.    *)
(*                                                                         *)
(* That the verdicts agree with the record is proved for one node and a    *)
(* principal that only tightens the policy.  The running operation is the  *)
(* only writer, because what was denied before it stays refused            *)
(* (DeniedBarred) although a transaction of it may still be in a mempool;  *)
(* so its baseline is the committed state up to the height that recorded   *)
(* its own action (Baseline, PassedAt), and a sequential read that shows a *)
(* refusal and not that record is of a ledger without it (AfterBars).      *)
(*                                                                         *)
(* That prejudge lets no transaction through that the contract refuses is  *)
(* proved while the principal does nothing (Quiet): then an action that    *)
(* fits (Fitting) fits until it is recorded.                               *)
(***************************************************************************)
EXTENDS GoEnforce, SubstrateProofs, FiniteSetTheorems, WellFoundedInduction

(* Each action is recorded under a key that no submission of it escapes.   *)
KeyedOnce ==
  \A c \in Calls :
    /\ Worker(c) /\ Recorded(c) => ActionID(c, 0) \in keys
    /\ ~Worker(c) =>
         /\ Len(tx[c]) <= 1
         /\ Recorded(c) => \A k \in DOMAIN tx[c] : tx[c][k] # "mempool"
         /\ pc[c] = "submitting" => tx[c] = <<>>
         /\ pc[c] = "confirming" => hash[c] # 0
    /\ pc[c] \in {"idle", "reading", "judging"} => tx[c] = <<>>
    /\ tx[c] = <<>> => fate[c] = "none"

KInv == TypeOK /\ KeyedOnce

-----------------------------------------------------------------------------
OneNode == \A m, n \in Nodes : m = n

(* The principal's changes refuse no less than before.                     *)
Tightens ==
  Latest.status # "NotFound" =>
    /\ Latest'.maxSpend <= Latest.maxSpend
    /\ Latest'.validUntil <= Latest.validUntil
    /\ Latest'.allowed = Latest.allowed

Running(c) == pc[c] \notin {"idle", "done"}
Frozen(c) == pc[c] \in {"judging", "submitting", "confirming", "receipt", "naming"}
NoThrow == \A c \in Calls : outcome[c] \notin Throws

Count(h) == ledger[h].actionCount
Spent(h) == ledger[h].totalSpent
Committed == Count(Len(ledger))

(* What lasts from a state p of the ledger to a later state q.             *)
Tighter(p, q) ==
  /\ p.actionCount <= q.actionCount
  /\ p.totalSpent <= q.totalSpent
  /\ q.allowed = p.allowed
  /\ p.status # "NotFound" =>
       /\ q.status # "NotFound"
       /\ p.status = "Revoked" => q.status = "Revoked"
       /\ q.maxSpend <= p.maxSpend
       /\ q.validUntil <= p.validUntil
       /\ q.allowlist = p.allowlist

LedgerTightens == \A i, j \in Heights : i <= j => Tighter(ledger[i], ledger[j])

UnmintedIsBlank == \A h \in Heights : ledger[h].status = "NotFound" => ledger[h] = Unminted

SpentFollowsCount == \A i, j \in Heights : Count(i) = Count(j) => Spent(i) = Spent(j)

(* The contract refuses the action at this state and at all later ones.    *)
Barred(cap, a) ==
  /\ cap.status # "NotFound"
  /\ \/ cap.status = "Revoked"
     \/ a.time > cap.validUntil
     \/ cap.totalSpent + a.amount > cap.maxSpend
     \/ cap.allowlist /\ a.counterparty \notin cap.allowed

NeverRecorded(c) == ~Recorded(c) /\ Barred(Latest, act[c])

DeniedBarred == \A c \in Calls : outcome[c] \in Refusals => NeverRecorded(c)

AfterBars ==
  \A c \in Calls :
    pc[c] = "receipt" /\ GoPrejudge(after[c], act[c]) \notin Inconclusive => NeverRecorded(c)

OneAtATime ==
  \A c \in Calls : Running(c) => NoThrow /\ \A d \in Calls : d # c => ~Running(d)

ReadsStarted == \A c \in Calls, n \in Nodes : since[c][n] <= view[n]

CaughtUp ==
  (NoThrow /\ \A c \in Calls : ~Running(c)) => \A n \in Nodes : Count(view[n]) = Committed

(* Height r was the last before the record of c's action.                  *)
PassedAt(c, r) ==
  /\ r < Len(ledger)
  /\ Count(r) = baseline[c].actionCount
  /\ Spent(r) = baseline[c].totalSpent
  /\ ContractRefusals(ledger[r], act[c]) = {}
  /\ \A h \in Heights : h > r =>
       /\ Count(h) = baseline[c].actionCount + 1
       /\ Spent(h) = baseline[c].totalSpent + act[c].amount

Baseline ==
  \A c \in Calls :
    /\ pc[c] = "reading" => \A n \in Nodes : Count(since[c][n]) = Committed
    /\ Frozen(c) =>
         /\ \A n \in Nodes : Count(since[c][n]) >= baseline[c].actionCount
         /\ IF Recorded(c) THEN \E r \in Heights : PassedAt(c, r)
            ELSE /\ Committed = baseline[c].actionCount
                 /\ Spent(Len(ledger)) = baseline[c].totalSpent

GInv ==
  /\ KInv
  /\ LedgerTightens /\ UnmintedIsBlank /\ SpentFollowsCount
  /\ OneAtATime /\ ReadsStarted /\ CaughtUp
  /\ Baseline
  /\ DeniedBarred /\ AfterBars /\ AllowedSound

-----------------------------------------------------------------------------
(* What is read.                                                           *)

(* A window lies on the ledger.                                            *)
LEMMA WindowOnLedger ==
  ASSUME ChainTypeOK, since \in [Calls -> [Nodes -> Heights]], NEW c \in Calls
  PROVE  Window(c) \subseteq Heights
<1> SUFFICES ASSUME NEW n \in Nodes, NEW h \in since[c][n] .. view[n] PROVE h \in Heights
  BY DEF Window
<1>1. since[c][n] \in Heights /\ view[n] \in Heights
  BY DEF ChainTypeOK
<1> QED
  BY <1>1 DEF Heights

(* Each field was committed at a height of the window, and at one node the *)
(* fields come in the order in which they are asked for.                   *)
LEMMA SequentialOf ==
  ASSUME NEW c \in Calls, NEW seen \in SequentialReads(c)
  PROVE  \E h1, h2, h3, h4, h5 \in Window(c) :
            /\ seen.status = ledger[h1].status
            /\ seen.maxSpend = ledger[h2].maxSpend
            /\ seen.validUntil = ledger[h3].validUntil
            /\ seen.totalSpent = ledger[h4].totalSpent
            /\ seen.actionCount = ledger[h5].actionCount
            /\ OneNode => h1 <= h2 /\ h2 <= h3 /\ h3 <= h4 /\ h4 <= h5
<1>1. PICK at \in [Fields -> Sources(c)] :
         /\ seen = [f \in Fields |-> ledger[at[f].height][f]]
         /\ \A f, g \in Fields :
              QueryOrder[f] < QueryOrder[g] /\ at[f].node = at[g].node
                => at[f].height <= at[g].height
  BY DEF SequentialReads
<1>2. \A f \in Fields : at[f].node \in Nodes /\ at[f].height \in Window(c)
  BY DEF Sources
<1>3. Fields = {"status", "maxSpend", "validUntil", "totalSpent", "actionCount"}
  BY DEF Fields
<1>4. OneNode => /\ at["status"].height <= at["maxSpend"].height
                 /\ at["maxSpend"].height <= at["validUntil"].height
                 /\ at["validUntil"].height <= at["totalSpent"].height
                 /\ at["totalSpent"].height <= at["actionCount"].height
  BY <1>1, <1>2, <1>3 DEF OneNode, QueryOrder
<1>5. /\ seen.status = ledger[at["status"].height].status
      /\ seen.maxSpend = ledger[at["maxSpend"].height].maxSpend
      /\ seen.validUntil = ledger[at["validUntil"].height].validUntil
      /\ seen.totalSpent = ledger[at["totalSpent"].height].totalSpent
      /\ seen.actionCount = ledger[at["actionCount"].height].actionCount
  BY <1>1, <1>3
<1>6. /\ at["status"].height \in Window(c) /\ at["maxSpend"].height \in Window(c)
      /\ at["validUntil"].height \in Window(c) /\ at["totalSpent"].height \in Window(c)
      /\ at["actionCount"].height \in Window(c)
  BY <1>2, <1>3
<1> QED
  BY <1>4, <1>5, <1>6

(* So what it returns has the type of a read.                              *)
LEMMA SequentialType ==
  ASSUME ChainTypeOK, since \in [Calls -> [Nodes -> Heights]], NEW c \in Calls
  PROVE  SequentialReads(c) \subseteq CapabilityRead
<1> SUFFICES ASSUME NEW seen \in SequentialReads(c) PROVE seen \in CapabilityRead
  OBVIOUS
<1>1. \A h \in Window(c) : ledger[h] \in CapabilityState
  BY WindowOnLedger DEF ChainTypeOK, Heights
<1>2. /\ seen.status \in CapabilityStatus /\ seen.maxSpend \in Nat /\ seen.validUntil \in Nat
      /\ seen.totalSpent \in Nat /\ seen.actionCount \in Nat
  BY <1>1, SequentialOf DEF CapabilityState
<1>3. \E v : seen = [f \in Fields |-> v[f]]
  <2>1. PICK at : seen = [f \in Fields |-> ledger[at[f].height][f]]
    BY DEF SequentialReads
  <2> DEFINE v == [f \in Fields |-> ledger[at[f].height][f]]
  <2>2. seen = [f \in Fields |-> v[f]]
    BY <2>1
  <2> QED
    BY <2>2
<1>4. seen = [status |-> seen.status, maxSpend |-> seen.maxSpend,
              validUntil |-> seen.validUntil, totalSpent |-> seen.totalSpent,
              actionCount |-> seen.actionCount]
  BY <1>3 DEF Fields
<1> QED
  BY <1>2, <1>4 DEF CapabilityRead

(* What the Go prejudge returns rests on the same fields: an int64 sum is  *)
(* never more than the sum.                                                *)
LEMMA GoPrejudgeOf ==
  ASSUME NEW seen \in CapabilityRead, NEW a \in Action
  PROVE  /\ GoPrejudge(seen, a) \in {"NotFound", "Revoked", "Expired", "OverBudget", "Allowed"}
         /\ GoPrejudge(seen, a) \in Codes
         /\ GoPrejudge(seen, a) = "NotFound" => seen.status = "NotFound"
         /\ seen.status = "NotFound" => GoPrejudge(seen, a) = "NotFound"
         /\ GoPrejudge(seen, a) = "Revoked" => seen.status = "Revoked"
         /\ GoPrejudge(seen, a) = "Expired" => a.time > seen.validUntil
         /\ GoPrejudge(seen, a) = "OverBudget" => seen.totalSpent + a.amount > seen.maxSpend
         /\ GoPrejudge(seen, a) = "Allowed" =>
              /\ seen.status # "Revoked"
              /\ a.time <= seen.validUntil
              /\ seen.totalSpent + a.amount <= MaxInt =>
                   seen.totalSpent + a.amount <= seen.maxSpend
<1> DEFINE int == [seen EXCEPT !.totalSpent = Int64(@ + a.amount) - a.amount]
<1>1. /\ int.status = seen.status /\ int.maxSpend = seen.maxSpend
      /\ int.validUntil = seen.validUntil
      /\ int.totalSpent = Int64(seen.totalSpent + a.amount) - a.amount
  BY DEF CapabilityRead
<1>2. /\ seen.totalSpent \in Nat /\ seen.maxSpend \in Nat /\ seen.validUntil \in Nat
      /\ a.amount \in Nat /\ a.time \in Nat /\ MaxInt \in Nat
  BY GoAssumption DEF CapabilityRead, Action
<1>3. /\ Int64(seen.totalSpent + a.amount) \in Int
      /\ Int64(seen.totalSpent + a.amount) <= seen.totalSpent + a.amount
      /\ seen.totalSpent + a.amount <= MaxInt =>
           Int64(seen.totalSpent + a.amount) = seen.totalSpent + a.amount
  BY <1>2 DEF Int64
<1>4. GoPrejudge(seen, a) = Prejudge(int, a)
  BY DEF GoPrejudge
<1> HIDE DEF int
<1>5. int.totalSpent + a.amount = Int64(seen.totalSpent + a.amount)
  BY <1>1, <1>2, <1>3
<1>6. seen.status = "NotFound" => Prejudge(int, a) = "NotFound"
  BY <1>1, PrejudgeAbsent
<1> QED
  BY <1>1, <1>2, <1>3, <1>4, <1>5, <1>6, PrejudgeOf, PrejudgeRests

-----------------------------------------------------------------------------
(* Types.                                                                  *)

(* What TypeOK says of the calls and of their transactions.                *)
CallTypeOK ==
  /\ pc \in [Calls -> {"idle", "reading", "judging", "submitting", "confirming",
                       "receipt", "naming", "done"}]
  /\ baseline \in [Calls -> CapabilityRead]
  /\ after \in [Calls -> CapabilityRead]
  /\ since \in [Calls -> [Nodes -> Heights]]
  /\ hash \in [Calls -> 0 .. MaxAttempts]
  /\ outcome \in [Calls -> {"none"} \cup Codes \cup Throws]
  /\ \A c \in Calls :
       /\ outcome[c] = "none" <=> ~Finished(c)
       /\ pc[c] \in {"receipt", "naming"} => hash[c] # 0

TxTypeOK ==
  /\ tx \in [Calls -> Seq({"mempool", "success", "failed"})]
  /\ keys \subseteq [call : Calls, submission : 0 .. MaxAttempts]
  /\ \A c \in Calls : Len(tx[c]) <= MaxAttempts /\ hash[c] <= Len(tx[c])

(* The type invariant from its parts.                                      *)
LEMMA TypeOKParts ==
  /\ TypeOK <=> ChainTypeOK /\ CallTypeOK /\ TxTypeOK /\ faults \in 0 .. MaxFaults
  /\ TypeOK' <=> ChainTypeOK' /\ CallTypeOK' /\ TxTypeOK' /\ faults' \in 0 .. MaxFaults
  BY DEF TypeOK, CallTypeOK, TxTypeOK

(* A call that ends keeps the types.                                       *)
LEMMA FinishType ==
  ASSUME TypeOK, NEW c \in Calls, NEW o \in Codes \cup Throws, Finish(c, o), Heights' = Heights
  PROVE  CallTypeOK'
<1>1. o # "none"
  BY DEF Codes, EnforcementCode, Throws
<1>2. NoRead \in [Nodes -> Heights]
  BY DEF TypeOK, ChainTypeOK, Heights, NoRead
<1> QED
  BY <1>1, <1>2, UnreadType DEF TypeOK, CallTypeOK, Finish, Finished

(* So does one that goes on.                                               *)
LEMMA GotoType ==
  ASSUME TypeOK, NEW c \in Calls, pc[c] # "done", Heights' = Heights,
         NEW label \in {"reading", "judging", "submitting", "confirming", "receipt", "naming"},
         Goto(c, label),
         baseline' \in [Calls -> CapabilityRead],
         after' \in [Calls -> CapabilityRead],
         since' = since \/ StartRead(c),
         hash' \in [Calls -> 0 .. MaxAttempts],
         \A d \in Calls : hash'[d] = 0 => hash[d] = 0,
         label \in {"receipt", "naming"} => hash[c] # 0
  PROVE  CallTypeOK'
<1>1. since' \in [Calls -> [Nodes -> Heights']]
  BY DEF TypeOK, ChainTypeOK, StartRead
<1> QED
  BY <1>1 DEF TypeOK, CallTypeOK, Goto, Finished

(* So does a confirmation.                                                 *)
LEMMA ConfirmType ==
  ASSUME TypeOK, NEW c \in Calls, pc[c] # "done", Heights' = Heights, Confirm(c),
         hash' = hash \/ hash' = [hash EXCEPT ![c] = Len(tx[c]) + 1],
         Len(tx[c]) < MaxAttempts \/ hash' = hash
  PROVE  CallTypeOK'
<1>1. after' \in [Calls -> CapabilityRead]
  BY UnreadType DEF TypeOK, Confirm
<1>2. hash' \in [Calls -> 0 .. MaxAttempts] /\ \A d \in Calls : hash'[d] = 0 => hash[d] = 0
  <2>1. hash \in [Calls -> 0 .. MaxAttempts] /\ Len(tx[c]) \in Nat /\ MaxAttempts \in Nat
    BY GoAssumption DEF TypeOK
  <2>2. CASE hash' = hash
    BY <2>1, <2>2
  <2>3. CASE hash' # hash
    <3>1. /\ hash' = [hash EXCEPT ![c] = Len(tx[c]) + 1]
          /\ Len(tx[c]) + 1 \in 0 .. MaxAttempts /\ Len(tx[c]) + 1 # 0
      BY <2>1, <2>3
    <3> QED
      BY <2>1, <3>1
  <2> QED
    BY <2>2, <2>3
<1> QED
  BY <1>1, <1>2, GotoType DEF TypeOK, Confirm

(* So does a fault at the caller.                                          *)
LEMMA AbortType ==
  ASSUME TypeOK, NEW c \in Calls, pc[c] # "done", Heights' = Heights, Abort(c)
  PROVE  CallTypeOK' /\ hash' = hash
  BY ConfirmType, FinishType DEF Abort, Throws, Finish

(* The legs that leave the chain alone.                                    *)
LEMMA LocalType ==
  ASSUME TypeOK, NEW c \in Calls, UNCHANGED <<chainVars, goChain>>, Call(c)
  PROVE  TypeOK'
<1>1. ChainTypeOK' /\ Heights' = Heights /\ ChainTypeOK
  BY DEF TypeOK, ChainTypeOK, Heights, chainVars
<1>2. TxTypeOK /\ (hash' = hash => TxTypeOK')
  BY DEF TypeOK, TxTypeOK, goChain
<1>3. faults \in 0 .. MaxFaults /\ (Fault => faults' \in 0 .. MaxFaults)
  BY GoAssumption DEF TypeOK, Fault
<1>4. SequentialReads(c) \subseteq CapabilityRead
  BY <1>1, SequentialType DEF TypeOK
<1>5. act[c] \in Action
  BY SubstrateAssumption DEF TypeOK, ChainTypeOK
<1>6. ASSUME NEW o \in Codes \cup Throws, Finish(c, o) PROVE CallTypeOK' /\ TxTypeOK'
  BY <1>1, <1>2, <1>6, FinishType DEF Finish
<1>7. ASSUME pc[c] # "done", Confirm(c), hash' = hash PROVE CallTypeOK' /\ TxTypeOK'
  BY <1>1, <1>2, <1>7, ConfirmType
<1>8. ASSUME pc[c] # "done", Abort(c) PROVE CallTypeOK' /\ TxTypeOK'
  BY <1>1, <1>2, <1>8, AbortType
<1>9. ASSUME pc[c] # "done", hash' = hash,
             NEW label \in {"reading", "judging", "submitting", "receipt", "naming"},
             Goto(c, label), since' = since \/ StartRead(c),
             baseline' \in [Calls -> CapabilityRead], after' \in [Calls -> CapabilityRead],
             label \in {"receipt", "naming"} => hash[c] # 0
      PROVE  CallTypeOK' /\ TxTypeOK'
  BY <1>1, <1>2, <1>9, GotoType DEF TypeOK
<1>10. baseline \in [Calls -> CapabilityRead] /\ after \in [Calls -> CapabilityRead]
  BY DEF TypeOK
<1>11. ASSUME NEW seen \in CapabilityRead
       PROVE  /\ [baseline EXCEPT ![c] = seen] \in [Calls -> CapabilityRead]
              /\ [after EXCEPT ![c] = seen] \in [Calls -> CapabilityRead]
  BY <1>10, <1>11
<1>12. {"failed", "unsettled"} \subseteq Throws /\ {"Allowed", "OutOfAllowlist"} \subseteq Codes
  BY DEF Throws, Codes, EnforcementCode
<1>13. CASE Enforce(c)
  BY <1>1, <1>3, <1>9, <1>10, <1>13, TypeOKParts DEF Enforce
<1>14. CASE PrejudgeFields(c)
  <2>1. PICK seen \in SequentialReads(c) :
          LET code == GoPrejudge(seen, act[c])
          IN \/ /\ code = "NotFound"
                /\ baseline' = [baseline EXCEPT ![c] = seen]
                /\ Goto(c, "submitting")
                /\ UNCHANGED <<since, after, hash>>
             \/ /\ code = "Allowed"
                /\ baseline' = [baseline EXCEPT ![c] = seen]
                /\ StartRead(c)
                /\ Goto(c, "judging")
                /\ UNCHANGED <<after, hash>>
             \/ /\ code \notin {"NotFound", "Allowed"}
                /\ Finish(c, code)
    BY <1>14 DEF PrejudgeFields
  <2>2. seen \in CapabilityRead /\ GoPrejudge(seen, act[c]) \in Codes
    BY <1>4, <1>5, GoPrejudgeOf
  <2>3. CallTypeOK' /\ TxTypeOK'
    BY <1>6, <1>9, <1>10, <1>11, <1>14, <2>1, <2>2 DEF PrejudgeFields
  <2> QED
    BY <1>1, <1>3, <1>14, <2>3, TypeOKParts DEF PrejudgeFields
<1>15. CASE JudgeAllowlist(c)
  BY <1>1, <1>3, <1>6, <1>9, <1>10, <1>12, <1>15, TypeOKParts DEF JudgeAllowlist
<1>16. CASE SubmitAccepted(c) \/ SubmitUnheard(c)
  <2>1. tx' = [tx EXCEPT ![c] = Append(@, "mempool")] /\ tx' = tx
    BY <1>16 DEF SubmitAccepted, SubmitUnheard, goChain
  <2>2. tx[c] \in Seq({"mempool", "success", "failed"}) /\ tx[c] = Append(tx[c], "mempool")
    BY <2>1 DEF TypeOK
  <2> QED
    BY <2>2
<1>17. CASE SubmitRejected(c)
  BY <1>1, <1>3, <1>8, <1>17, TypeOKParts DEF SubmitRejected
<1>18. CASE ConfirmRead(c)
  <2>1. PICK seen \in SequentialReads(c) :
           \/ Finish(c, "Allowed")
           \/ Goto(c, "submitting") /\ UNCHANGED <<baseline, after, since, hash>>
           \/ /\ hash[c] # 0
              /\ after' = [after EXCEPT ![c] = seen]
              /\ Goto(c, "receipt")
              /\ UNCHANGED <<baseline, since, hash>>
    BY <1>18 DEF ConfirmRead
  <2>2. CallTypeOK' /\ TxTypeOK'
    BY <1>4, <1>6, <1>9, <1>10, <1>11, <1>12, <1>18, <2>1 DEF ConfirmRead
  <2> QED
    BY <1>1, <1>3, <1>18, <2>2, TypeOKParts DEF ConfirmRead
<1>19. CASE ReceiptFound(c)
  <2>1. pc[c] = "receipt" /\ hash[c] # 0 /\ GoPrejudge(after[c], act[c]) \in Codes
    BY <1>5, <1>10, <1>19, GoPrejudgeOf DEF ReceiptFound, TypeOK
  <2>2. [after EXCEPT ![c] = Unread] \in [Calls -> CapabilityRead]
    BY <1>11, UnreadType
  <2>3. CallTypeOK' /\ TxTypeOK'
    BY <1>6, <1>7, <1>9, <1>10, <1>12, <1>19, <2>1, <2>2
    DEF ReceiptFound, ReceiptFailed, ReceiptSuccess
  <2> QED
    BY <1>1, <1>3, <1>19, <2>3, TypeOKParts DEF ReceiptFound
<1>20. CASE ReceiptUnknown(c)
  BY <1>1, <1>3, <1>7, <1>20, TypeOKParts DEF ReceiptUnknown
<1>21. CASE NameAllowlist(c)
  BY <1>1, <1>3, <1>6, <1>7, <1>12, <1>21, TypeOKParts DEF NameAllowlist
<1>22. CASE Deadline(c)
  BY <1>1, <1>3, <1>6, <1>12, <1>22, TypeOKParts DEF Deadline
<1>23. CASE ReadFails(c)
  BY <1>1, <1>3, <1>6, <1>8, <1>12, <1>23, TypeOKParts DEF ReadFails
<1>24. CASE Crash(c)
  BY <1>1, <1>3, <1>7, <1>24, TypeOKParts DEF Crash
<1> QED
  BY <1>13, <1>14, <1>15, <1>16, <1>17, <1>18, <1>19, <1>20, <1>21, <1>22, <1>23, <1>24
  DEF Call

(* What the execution of a transaction commits: an action is recorded when *)
(* the contract refuses nothing and knows no record under its ActionID.    *)
LEMMA IncludesTx ==
  ASSUME TypeOK, NEW c \in Calls, NEW k \in DOMAIN tx[c], IncludeTx(c, k)
  PROVE  /\ tx[c][k] = "mempool" /\ tx' = [tx EXCEPT ![c][k] = "success"]
         /\ UNCHANGED <<view, act>>
         /\ \/ /\ UNCHANGED <<ledger, keys>>
               /\ \/ UNCHANGED fate
                  \/ /\ ActionID(c, k) \notin keys
                     /\ ContractRefusals(Latest, act[c]) # {}
                     /\ fate' = [fate EXCEPT ![c] = ContractCode(Latest, act[c])]
                     /\ fate'[c] \in ContractRefusals(Latest, act[c]) /\ ~Recorded(c)'
            \/ /\ ActionID(c, k) \notin keys
               /\ keys' = keys \cup {ActionID(c, k)}
               /\ ContractRefusals(Latest, act[c]) = {}
               /\ RecordAction(Latest, act[c]) \in CapabilityState
               /\ Commit(RecordAction(Latest, act[c]))
               /\ fate' = [fate EXCEPT ![c] = "Allowed"]
<1>1. fate \in [Calls -> {"none", "mempool"} \cup Codes]
  BY DEF TypeOK, ChainTypeOK
<1>2. act[c] \in Action /\ act[c].amount \in Nat /\ Latest \in CapabilityState
  BY LatestType, SubstrateAssumption DEF TypeOK, ChainTypeOK, Action
<1>3. RecordAction(Latest, act[c]) \in CapabilityState
  BY <1>2, RecordActionKeeps
<1>4. /\ ContractCode(Latest, act[c]) = "Allowed" <=> ContractRefusals(Latest, act[c]) = {}
      /\ ContractCode(Latest, act[c]) # "Allowed" =>
           ContractCode(Latest, act[c]) \in ContractRefusals(Latest, act[c])
  BY ContractCodeOf
<1>5. CASE ActionID(c, k) \in keys
  BY <1>5 DEF IncludeTx
<1>6. CASE ActionID(c, k) \notin keys
  <2>1. fate' = [fate EXCEPT ![c] = ContractCode(Latest, act[c])]
    BY <1>6 DEF IncludeTx
  <2> QED
    BY <1>1, <1>3, <1>4, <1>6, <2>1 DEF IncludeTx, Recorded
<1> QED
  BY <1>5, <1>6

(* The chain's steps keep the types.                                       *)
LEMMA ChainType ==
  ASSUME TypeOK, Chain
  PROVE  TypeOK' /\ Heights \subseteq Heights'
<1> USE SubstrateAssumption
<1>1. ChainTypeOK /\ CallTypeOK /\ TxTypeOK /\ faults \in 0 .. MaxFaults
  BY TypeOKParts
<1>2. UNCHANGED <<callVars, faults>>
  BY DEF Chain
<1>3. ASSUME ChainTypeOK', TxTypeOK', Heights \subseteq Heights' PROVE TypeOK'
  <2>1. CallTypeOK'
    BY <1>1, <1>2, <1>3 DEF CallTypeOK, callVars, Finished
  <2> QED
    BY <1>1, <1>2, <1>3, <2>1, TypeOKParts
<1>4. ASSUME NEW c \in Calls, NEW k \in DOMAIN tx[c], NEW s \in {"success", "failed"},
             tx' = [tx EXCEPT ![c][k] = s],
             keys' \subseteq keys \cup {ActionID(c, k)}
      PROVE  TxTypeOK'
  <2>1. /\ tx[c] \in Seq({"mempool", "success", "failed"})
        /\ Len(tx[c]) <= MaxAttempts /\ k \in 1 .. Len(tx[c])
        /\ Len(tx[c]) \in Nat /\ MaxAttempts \in Nat
    BY <1>1, GoAssumption DEF TxTypeOK
  <2> DEFINE new == [tx[c] EXCEPT ![k] = s]
  <2>2. new \in Seq({"mempool", "success", "failed"}) /\ Len(new) = Len(tx[c])
    BY <2>1
  <2>3. tx' = [tx EXCEPT ![c] = new]
    BY <1>4
  <2> HIDE DEF new
  <2>4. tx' \in [Calls -> Seq({"mempool", "success", "failed"})]
    BY <1>1, <2>2, <2>3 DEF TxTypeOK
  <2>5. \A d \in Calls : Len(tx'[d]) = Len(tx[d])
    BY <1>1, <2>2, <2>3 DEF TxTypeOK
  <2>6. ActionID(c, k) \in [call : Calls, submission : 0 .. MaxAttempts]
    BY <2>1 DEF ActionID
  <2> QED
    BY <1>1, <1>2, <1>4, <2>4, <2>5, <2>6 DEF TxTypeOK, callVars
<1>5. CASE \E c \in Calls : \E k \in DOMAIN tx[c] : IncludeTx(c, k)
  <2>1. PICK c \in Calls : \E k \in DOMAIN tx[c] : IncludeTx(c, k)
    BY <1>5
  <2>2. PICK k \in DOMAIN tx[c] : IncludeTx(c, k)
    BY <2>1
  <2>3. TxTypeOK'
    BY <1>4, <2>2, IncludesTx
  <2>4. fate' \in [Calls -> {"none", "mempool"} \cup Codes]
    BY <1>1, <2>2, IncludesTx, ContractCodeType DEF ChainTypeOK, Codes, EnforcementCode
  <2>5. \/ ledger' = ledger
        \/ /\ RecordAction(Latest, act[c]) \in CapabilityState
           /\ Commit(RecordAction(Latest, act[c]))
    BY <2>2, IncludesTx
  <2>6. ledger' \in Seq(CapabilityState) /\ ledger' # <<>> /\ Heights \subseteq Heights'
    BY <1>1, <2>5, CommitAppends DEF ChainTypeOK, Heights
  <2>7. ChainTypeOK'
    BY <1>1, <2>2, <2>4, <2>6, IncludesTx DEF ChainTypeOK
  <2> QED
    BY <1>3, <2>3, <2>6, <2>7
<1>6. CASE \E c \in Calls : \E k \in DOMAIN tx[c] : ExecFails(c, k)
  <2>1. PICK c \in Calls : \E k \in DOMAIN tx[c] : ExecFails(c, k)
    BY <1>6
  <2>2. PICK k \in DOMAIN tx[c] : ExecFails(c, k)
    BY <2>1
  <2>3. TxTypeOK'
    BY <1>4, <2>2 DEF ExecFails
  <2> QED
    BY <1>1, <1>3, <2>2, <2>3 DEF ExecFails, ChainTypeOK, Heights, chainVars
<1>7. CASE Principal /\ UNCHANGED goChain
  BY <1>1, <1>2, <1>3, <1>7, ChainStep DEF ChainNext, TxTypeOK, goChain, callVars
<1>8. CASE \E n \in Nodes : Replicate(n) /\ UNCHANGED goChain
  BY <1>1, <1>2, <1>3, <1>8, ChainStep DEF ChainNext, TxTypeOK, goChain, callVars
<1> QED
  BY <1>5, <1>6, <1>7, <1>8 DEF Chain

(* So does a submission that the mempool accepts: a blocking call has no   *)
(* other.                                                                  *)
LEMMA SubmitType ==
  ASSUME KInv, NEW c \in Calls, SubmitAccepted(c) \/ SubmitUnheard(c)
  PROVE  TypeOK'
<1>1. TypeOK /\ ChainTypeOK /\ CallTypeOK /\ TxTypeOK /\ faults \in 0 .. MaxFaults
  BY TypeOKParts DEF KInv
<1>2. UNCHANGED chainVars /\ keys' = keys /\ pc[c] = "submitting"
  BY DEF SubmitAccepted, SubmitUnheard
<1>3. ChainTypeOK' /\ Heights' = Heights
  BY <1>1, <1>2 DEF chainVars, ChainTypeOK, Heights
<1>4. Len(tx[c]) \in Nat /\ MaxAttempts \in Nat \ {0} /\ Len(tx[c]) < MaxAttempts
  <2>1. Len(tx[c]) \in Nat /\ MaxAttempts \in Nat \ {0}
    BY <1>1, GoAssumption DEF TxTypeOK
  <2>2. CASE SubmitAccepted(c)
    BY <2>1, <2>2 DEF SubmitAccepted
  <2>3. CASE SubmitUnheard(c)
    <3>1. CASE Worker(c)
      BY <2>1, <2>3, <3>1 DEF SubmitUnheard
    <3>2. CASE ~Worker(c)
      <4>1. tx[c] = <<>>
        BY <1>2, <3>2 DEF KInv, KeyedOnce
      <4> QED
        BY <2>1, <4>1
    <3> QED
      BY <3>1, <3>2
  <2> QED
    BY <2>1, <2>2, <2>3
<1>5. tx' = [tx EXCEPT ![c] = Append(@, "mempool")]
  BY DEF SubmitAccepted, SubmitUnheard
<1>6. /\ tx' \in [Calls -> Seq({"mempool", "success", "failed"})]
      /\ Len(tx'[c]) = Len(tx[c]) + 1
      /\ \A d \in Calls : d # c => tx'[d] = tx[d]
  BY <1>1, <1>5 DEF TxTypeOK
<1>7. CASE SubmitAccepted(c)
  <2>1. hash' = [hash EXCEPT ![c] = Len(tx[c]) + 1] /\ Confirm(c) /\ faults' = faults
    BY <1>7 DEF SubmitAccepted
  <2>2. CallTypeOK'
    BY <1>1, <1>2, <1>3, <1>4, <2>1, ConfirmType
  <2>3. \A d \in Calls : Len(tx'[d]) <= MaxAttempts /\ hash'[d] <= Len(tx'[d])
    <3>1. hash'[c] = Len(tx[c]) + 1 /\ \A d \in Calls : d # c => hash'[d] = hash[d]
      BY <1>1, <2>1 DEF CallTypeOK
    <3>2. \A d \in Calls : Len(tx[d]) <= MaxAttempts /\ hash[d] <= Len(tx[d])
      BY <1>1 DEF TxTypeOK
    <3>3. Len(tx'[c]) <= MaxAttempts /\ hash'[c] <= Len(tx'[c])
      BY <1>4, <1>6, <3>1
    <3> QED
      BY <1>6, <3>1, <3>2, <3>3
  <2> QED
    BY <1>1, <1>2, <1>3, <1>6, <2>1, <2>2, <2>3, TypeOKParts DEF TxTypeOK
<1>8. CASE SubmitUnheard(c)
  <2>1. Abort(c) /\ Fault
    BY <1>8 DEF SubmitUnheard
  <2>2. CallTypeOK' /\ hash' = hash
    BY <1>1, <1>2, <1>3, <2>1, AbortType
  <2>3. \A d \in Calls : Len(tx'[d]) <= MaxAttempts /\ hash'[d] <= Len(tx'[d])
    <3>1. hash[c] \in Nat /\ hash[c] <= Len(tx[c])
      BY <1>1 DEF CallTypeOK, TxTypeOK
    <3>2. \A d \in Calls : Len(tx[d]) <= MaxAttempts /\ hash[d] <= Len(tx[d])
      BY <1>1 DEF TxTypeOK
    <3>3. Len(tx'[c]) <= MaxAttempts /\ hash[c] <= Len(tx'[c])
      BY <1>4, <1>6, <3>1
    <3> QED
      BY <1>6, <2>2, <3>2, <3>3
  <2>4. faults' \in 0 .. MaxFaults
    BY <1>1, <2>1, GoAssumption DEF Fault
  <2> QED
    BY <1>1, <1>2, <1>3, <1>6, <2>2, <2>3, <2>4, TypeOKParts DEF TxTypeOK
<1> QED
  BY <1>7, <1>8

-----------------------------------------------------------------------------
(* Submissions.                                                            *)

(* Where a caller's operation moves it.                                    *)
LEMMA CallMoves ==
  ASSUME KInv, NEW c \in Calls, Call(c)
  PROVE  /\ UNCHANGED <<chainVars, keys>>
         /\ \/ tx' = tx
            \/ pc[c] = "submitting" /\ tx' = [tx EXCEPT ![c] = Append(@, "mempool")]
         /\ pc' \in [Calls -> {"idle", "reading", "judging", "submitting", "confirming",
                               "receipt", "naming", "done"}]
         /\ \A d \in Calls : d # c => pc'[d] = pc[d] /\ hash'[d] = hash[d]
         /\ pc[c] # "done" /\ pc'[c] # "idle"
         /\ pc'[c] \in {"reading", "judging"} => pc[c] \in {"idle", "reading"} /\ tx' = tx
         /\ ~Worker(c) /\ pc'[c] = "submitting" =>
              pc[c] \in {"reading", "judging"} /\ tx' = tx
         /\ ~Worker(c) /\ pc'[c] = "confirming" => hash'[c] # 0
<1>1. /\ pc \in [Calls -> {"idle", "reading", "judging", "submitting", "confirming",
                           "receipt", "naming", "done"}]
      /\ hash \in [Calls -> 0 .. MaxAttempts]
      /\ pc[c] \in {"receipt", "naming"} => hash[c] # 0
      /\ Len(tx[c]) \in Nat
  BY DEF KInv, TypeOK
<1>2. ~Worker(c) /\ pc[c] = "confirming" => hash[c] # 0
  BY DEF KInv, KeyedOnce
<1> USE DEF Goto, Finish, Confirm, goChain
<1>3. CASE Enforce(c) \/ PrejudgeFields(c) \/ JudgeAllowlist(c)
  BY <1>1, <1>3 DEF Enforce, PrejudgeFields, JudgeAllowlist
<1>4. CASE SubmitAccepted(c)
  BY <1>1, <1>4 DEF SubmitAccepted
<1>5. CASE SubmitUnheard(c) \/ SubmitRejected(c)
  BY <1>1, <1>5 DEF SubmitUnheard, SubmitRejected, Abort
<1>6. CASE ConfirmRead(c)
  BY <1>1, <1>2, <1>6 DEF ConfirmRead
<1>7. CASE ReceiptFound(c)
  BY <1>1, <1>7 DEF ReceiptFound, ReceiptFailed, ReceiptSuccess
<1>8. CASE ReceiptUnknown(c) \/ NameAllowlist(c) \/ Deadline(c)
  BY <1>1, <1>8 DEF ReceiptUnknown, NameAllowlist, Deadline
<1>9. CASE ReadFails(c) \/ Crash(c)
  BY <1>1, <1>2, <1>9 DEF ReadFails, Crash, Abort
<1> QED
  BY <1>3, <1>4, <1>5, <1>6, <1>7, <1>8, <1>9 DEF Call

(* Every step keeps the types.                                             *)
LEMMA NextType == KInv /\ [Next]_vars => TypeOK'
<1> SUFFICES ASSUME KInv, [Next]_vars PROVE TypeOK'
  OBVIOUS
<1>1. TypeOK
  BY DEF KInv
<1>2. CASE UNCHANGED vars
  BY <1>1, <1>2 DEF vars, chainVars, goChain, callVars, TypeOK, ChainTypeOK, Heights, Finished
<1>3. CASE Chain
  BY <1>1, <1>3, ChainType
<1>4. ASSUME NEW c \in Calls, Call(c) PROVE TypeOK'
  <2>1. UNCHANGED <<chainVars, keys>> /\ (tx' = tx \/ tx' = [tx EXCEPT ![c] = Append(@, "mempool")])
    BY <1>4, CallMoves
  <2>2. CASE tx' = tx
    BY <1>1, <1>4, <2>1, <2>2, LocalType DEF goChain
  <2>3. CASE tx' # tx
    <3>1. SubmitAccepted(c) \/ SubmitUnheard(c)
      BY <1>4, <2>3 DEF Call, Enforce, PrejudgeFields, JudgeAllowlist, SubmitRejected,
         ConfirmRead, ReceiptFound, ReceiptUnknown, NameAllowlist, Deadline, ReadFails,
         Crash, goChain
    <3> QED
      BY <3>1, SubmitType
  <2> QED
    BY <2>2, <2>3
<1> QED
  BY <1>2, <1>3, <1>4 DEF Next

(* Every step keeps the keys.                                              *)
LEMMA NextKeyed == KInv /\ [Next]_vars => KeyedOnce'
<1> SUFFICES ASSUME KInv, [Next]_vars PROVE KeyedOnce'
  OBVIOUS
<1>1. TypeOK /\ KeyedOnce
  BY DEF KInv
<1>2. CASE UNCHANGED vars
  BY <1>1, <1>2 DEF vars, chainVars, goChain, callVars, KeyedOnce, Recorded
<1>3. ASSUME NEW c \in Calls, Call(c) PROVE KeyedOnce'
  <2>1. /\ fate' = fate /\ keys' = keys
        /\ \A d \in Calls : d # c => pc'[d] = pc[d] /\ hash'[d] = hash[d]
        /\ pc[c] # "done" /\ pc'[c] # "idle"
        /\ pc'[c] \in {"reading", "judging"} => pc[c] \in {"idle", "reading"} /\ tx' = tx
        /\ ~Worker(c) /\ pc'[c] = "submitting" =>
             pc[c] \in {"reading", "judging"} /\ tx' = tx
        /\ ~Worker(c) /\ pc'[c] = "confirming" => hash'[c] # 0
    BY <1>3, CallMoves DEF chainVars
  <2>2. CASE tx' = tx
    BY <1>1, <2>1, <2>2 DEF KeyedOnce, Recorded
  <2>3. CASE tx' # tx
    <3>1. pc[c] = "submitting" /\ tx' = [tx EXCEPT ![c] = Append(@, "mempool")]
      BY <1>3, <2>3, CallMoves
    <3>2. /\ tx[c] \in Seq({"mempool", "success", "failed"})
          /\ \A d \in Calls : d # c => tx'[d] = tx[d]
          /\ tx'[c] = Append(tx[c], "mempool")
          /\ Append(tx[c], "mempool") # <<>>
          /\ Len(Append(tx[c], "mempool")) = Len(tx[c]) + 1
      <4>1. /\ tx[c] \in Seq({"mempool", "success", "failed"})
            /\ \A d \in Calls : d # c => tx'[d] = tx[d]
            /\ tx'[c] = Append(tx[c], "mempool")
        BY <1>1, <3>1 DEF TypeOK
      <4> QED
        BY <4>1
    <3>3. ~Worker(c) => Len(tx'[c]) <= 1 /\ ~Recorded(c)
      BY <1>1, <3>1, <3>2 DEF KeyedOnce, Recorded
    <3> QED
      BY <1>1, <2>1, <2>3, <3>1, <3>2, <3>3 DEF KeyedOnce, Recorded
  <2> QED
    BY <2>2, <2>3
<1>4. CASE Chain
  <2>1. pc' = pc /\ hash' = hash
    BY <1>4 DEF Chain, callVars
  <2>2. CASE fate' = fate /\ UNCHANGED goChain
    BY <1>1, <2>1, <2>2 DEF KeyedOnce, Recorded, goChain
  <2>3. ASSUME NEW c \in Calls, NEW k \in DOMAIN tx[c], NEW s \in {"success", "failed"},
               tx[c][k] = "mempool", tx' = [tx EXCEPT ![c][k] = s]
        PROVE  /\ \A d \in Calls : d # c => tx'[d] = tx[d]
               /\ tx[c] # <<>> /\ tx'[c] # <<>> /\ Len(tx'[c]) = Len(tx[c])
               /\ ~Worker(c) => \A j \in DOMAIN tx'[c] : tx'[c][j] # "mempool"
               /\ ~Worker(c) => ~Recorded(c)
    <3>1. /\ tx[c] \in Seq({"mempool", "success", "failed"})
          /\ tx'[c] = [tx[c] EXCEPT ![k] = s]
          /\ \A d \in Calls : d # c => tx'[d] = tx[d]
      BY <1>1, <2>3 DEF TypeOK
    <3>2. tx[c] # <<>> /\ tx'[c] # <<>> /\ Len(tx'[c]) = Len(tx[c]) /\ k \in 1 .. Len(tx[c])
      BY <3>1
    <3>3. ~Worker(c) => Len(tx[c]) <= 1
      BY <1>1 DEF KeyedOnce
    <3>4. ASSUME ~Worker(c) PROVE \A j \in DOMAIN tx'[c] : tx'[c][j] # "mempool"
      <4>1. \A j \in DOMAIN tx'[c] : j \in 1 .. Len(tx[c])
        BY <3>1, <3>2
      <4>2. \A j \in DOMAIN tx'[c] : j = k
        BY <3>1, <3>2, <3>3, <3>4, <4>1
      <4> QED
        BY <3>1, <4>2
    <3> QED
      BY <1>1, <2>3, <3>1, <3>2, <3>4 DEF KeyedOnce
  <2>4. ASSUME NEW c \in Calls, NEW k \in DOMAIN tx[c], IncludeTx(c, k) PROVE KeyedOnce'
    <3>1. /\ tx[c][k] = "mempool" /\ tx' = [tx EXCEPT ![c][k] = "success"]
          /\ \A d \in Calls : d # c => fate'[d] = fate[d]
          /\ keys \subseteq keys'
          /\ \/ fate' = fate
             \/ ActionID(c, k) \notin keys /\ ~Recorded(c)'
             \/ ActionID(c, k) \in keys'
      <4>1. fate \in [Calls -> {"none", "mempool"} \cup Codes]
        BY <1>1 DEF TypeOK, ChainTypeOK
      <4>2. /\ tx[c][k] = "mempool" /\ tx' = [tx EXCEPT ![c][k] = "success"]
            /\ \/ keys' = keys /\ fate' = fate
               \/ /\ keys' = keys /\ ActionID(c, k) \notin keys /\ ~Recorded(c)'
                  /\ \E code : fate' = [fate EXCEPT ![c] = code]
               \/ /\ keys' = keys \cup {ActionID(c, k)}
                  /\ fate' = [fate EXCEPT ![c] = "Allowed"]
        BY <1>1, <2>4, IncludesTx
      <4> QED
        BY <4>1, <4>2
    <3>2. Worker(c) => ActionID(c, k) = ActionID(c, 0)
      BY DEF ActionID
    <3>3. Worker(c) /\ Recorded(c)' => ActionID(c, 0) \in keys'
      BY <1>1, <3>1, <3>2 DEF KeyedOnce, Recorded
    <3>4. /\ \A d \in Calls : d # c => tx'[d] = tx[d]
          /\ tx[c] # <<>> /\ tx'[c] # <<>> /\ Len(tx'[c]) = Len(tx[c])
          /\ ~Worker(c) => \A j \in DOMAIN tx'[c] : tx'[c][j] # "mempool"
      BY <2>3, <3>1
    <3> QED
      BY <1>1, <2>1, <3>1, <3>3, <3>4 DEF KeyedOnce, Recorded
  <2>5. ASSUME NEW c \in Calls, NEW k \in DOMAIN tx[c], ExecFails(c, k) PROVE KeyedOnce'
    <3>1. /\ tx[c][k] = "mempool" /\ tx' = [tx EXCEPT ![c][k] = "failed"]
          /\ fate' = fate /\ keys' = keys
      BY <2>5 DEF ExecFails, chainVars
    <3> QED
      BY <1>1, <2>1, <2>3, <3>1 DEF KeyedOnce, Recorded
  <2>6. Principal => fate' = fate
    BY DEF Principal, Mint, ChangeLimits, Revoke, Allow
  <2>7. \A n \in Nodes : Replicate(n) => fate' = fate
    BY DEF Replicate
  <2> QED
    BY <1>4, <2>2, <2>4, <2>5, <2>6, <2>7 DEF Chain
<1> QED
  BY <1>2, <1>3, <1>4 DEF Next

(* Initially nothing is submitted.                                         *)
LEMMA InitKeyed == Init => KInv
<1> SUFFICES ASSUME Init PROVE KInv
  OBVIOUS
<1>1. ChainTypeOK /\ Heights = 1 .. 1
  <2>1. PICK cap \in Capabilities : ledger = <<cap>>
    BY DEF Init, ChainInit
  <2>2. cap \in CapabilityState /\ ledger \in Seq(CapabilityState) /\ Len(ledger) = 1
    BY <2>1, SubstrateAssumption
  <2>3. ledger # <<>> /\ Heights = 1 .. 1
    BY <2>1, <2>2 DEF Heights
  <2> QED
    BY <2>2, <2>3 DEF Init, ChainInit, ChainTypeOK
<1>2. NoRead \in [Nodes -> Heights]
  BY <1>1 DEF NoRead
<1>3. TypeOK
  BY <1>1, <1>2, UnreadType, GoAssumption DEF Init, TypeOK, Finished
<1>4. KeyedOnce
  BY DEF Init, ChainInit, KeyedOnce, Recorded
<1> QED
  BY <1>3, <1>4 DEF KInv

(* Every variable keeps its type, a call has an outcome exactly when it is *)
(* done, and whoever waits for a receipt has a transaction of its own.     *)
THEOREM TypeCorrect == Spec => []TypeOK
<1>1. Init => KInv
  BY InitKeyed
<1>2. KInv /\ [Next]_vars => KInv'
  BY NextType, NextKeyed DEF KInv
<1>3. KInv => TypeOK
  BY DEF KInv
<1> QED
  BY <1>1, <1>2, <1>3, PTL DEF Spec

-----------------------------------------------------------------------------
(* Sums.  The library computes the sum of what is charged by taking one    *)
(* element after the other; that the order does not matter follows from    *)
(* the function that gives every subset its sum.  Induction over finite    *)
(* sets is by a smallest counterexample.                                   *)
Total(a, S) == MapThenSumSet(LAMBDA c : a[c].amount, S)
Sums(g, a, S) ==
  /\ g \in [SUBSET S -> Nat]
  /\ g[{}] = 0
  /\ \A s \in SUBSET S : \A x \in s : g[s] = a[x].amount + g[s \ {x}]

(* A family of subsets of a finite set has a smallest member.              *)
LEMMA SmallestSubset ==
  ASSUME NEW S, IsFiniteSet(S), NEW T \in SUBSET SUBSET S, T # {}
  PROVE  \E s \in T : \A t \in T : t \subseteq s => t = s
<1>1. T \subseteq FiniteSubsetsOf(S)
  BY FS_Subset DEF FiniteSubsetsOf
<1>2. IsWellFoundedOn(StrictSubsetOrdering(S), FiniteSubsetsOf(S))
  BY FS_StrictSubsetOrderingWellFounded
<1>3. PICK s \in T : \A t \in T : ~(<<t, s>> \in StrictSubsetOrdering(S))
  BY <1>1, <1>2, WFMin
<1>4. \A t \in T : t \subseteq s => t = s
  BY <1>3 DEF StrictSubsetOrdering
<1> QED
  BY <1>4

(* Every finite set has its sums.                                          *)
LEMMA SumsExist ==
  ASSUME NEW a, NEW S, IsFiniteSet(S), \A x \in S : a[x].amount \in Nat
  PROVE  \E g : Sums(g, a, S)
<1> DEFINE Without == {s \in SUBSET S : ~\E g : Sums(g, a, s)}
<1> SUFFICES ASSUME Without # {} PROVE FALSE
  OBVIOUS
<1>1. PICK s \in Without : \A t \in Without : t \subseteq s => t = s
  <2>1. Without \in SUBSET SUBSET S
    OBVIOUS
  <2> HIDE DEF Without
  <2> QED
    BY <2>1, SmallestSubset
<1>2. CASE s = {}
  <2> DEFINE g == [u \in SUBSET {} |-> 0]
  <2>1. g \in [SUBSET {} -> Nat] /\ g[{}] = 0 /\ SUBSET {} = {{}}
    OBVIOUS
  <2>2. Sums(g, a, {})
    BY <2>1 DEF Sums
  <2> QED
    BY <1>1, <1>2, <2>2
<1>3. ASSUME NEW x \in s PROVE FALSE
  <2>1. s \ {x} \in SUBSET S /\ s \ {x} \subseteq s /\ s \ {x} # s
    BY <1>1, <1>3
  <2>2. PICK g : Sums(g, a, s \ {x})
    BY <1>1, <2>1
  <2> DEFINE h == [u \in SUBSET s |-> IF x \in u THEN a[x].amount + g[u \ {x}] ELSE g[u]]
  <2>3. \A u \in SUBSET s : (x \notin u => u \in SUBSET (s \ {x})) /\ u \ {x} \in SUBSET (s \ {x})
    OBVIOUS
  <2>4. a[x].amount \in Nat /\ \A u \in SUBSET (s \ {x}) : g[u] \in Nat
    BY <2>2, <1>1 DEF Sums
  <2>5. h \in [SUBSET s -> Nat] /\ h[{}] = 0
    BY <2>2, <2>3, <2>4 DEF Sums
  <2>6. ASSUME NEW u \in SUBSET s, NEW y \in u PROVE h[u] = a[y].amount + h[u \ {y}]
    <3>1. a[y].amount \in Nat /\ u \ {y} \in SUBSET s
      BY <1>1, <2>6
    <3>2. CASE x \notin u
      <4>1. g[u] = a[y].amount + g[u \ {y}]
        BY <2>2, <2>3, <3>2 DEF Sums
      <4>2. h[u] = g[u] /\ h[u \ {y}] = g[u \ {y}]
        BY <3>1, <3>2
      <4> QED
        BY <4>1, <4>2
    <3>3. CASE x \in u /\ y = x
      BY <3>1, <3>3
    <3>4. CASE x \in u /\ y # x
      <4>1. g[u \ {x}] = a[y].amount + g[(u \ {x}) \ {y}]
        BY <2>2, <2>3, <3>4 DEF Sums
      <4>2. (u \ {x}) \ {y} = (u \ {y}) \ {x} /\ (u \ {y}) \ {x} \in SUBSET (s \ {x})
        OBVIOUS
      <4>3. h[u] = a[x].amount + g[u \ {x}] /\ h[u \ {y}] = a[x].amount + g[(u \ {y}) \ {x}]
        BY <3>1, <3>4
      <4>4. g[(u \ {y}) \ {x}] \in Nat
        BY <2>4, <4>2
      <4> HIDE DEF h
      <4>5. g[u \ {x}] = a[y].amount + g[(u \ {y}) \ {x}]
        BY <4>1, <4>2
      <4> QED
        BY <2>4, <3>1, <4>3, <4>4, <4>5
    <3> QED
      BY <3>2, <3>3, <3>4
  <2> HIDE DEF h
  <2>7. Sums(h, a, s)
    BY <2>5, <2>6 DEF Sums
  <2> QED
    BY <1>1, <2>7
<1> QED
  BY <1>1, <1>2, <1>3

(* They are what the library computes.                                     *)
LEMMA TotalOf ==
  ASSUME NEW a, NEW S, IsFiniteSet(S), NEW g, Sums(g, a, S)
  PROVE  Total(a, S) = g[S]
<1> DEFINE Is(h) ==
      h = [s \in SUBSET S |-> IF s = {} THEN 0
             ELSE a[CHOOSE x \in s : TRUE].amount + h[s \ {CHOOSE x \in s : TRUE}]]
<1>1. Total(a, S) = (CHOOSE h : Is(h))[S]
  BY Zenon DEF Total, MapThenSumSet, MapThenFoldSet
<1>2. \A s \in SUBSET S : s # {} => (CHOOSE x \in s : TRUE) \in s
  OBVIOUS
<1>3. Is(g)
  <2>1. \A s \in SUBSET S : g[s] = IF s = {} THEN 0
             ELSE a[CHOOSE x \in s : TRUE].amount + g[s \ {CHOOSE x \in s : TRUE}]
    BY <1>2 DEF Sums
  <2>2. g = [s \in SUBSET S |-> g[s]]
    BY DEF Sums
  <2> QED
    BY <2>1, <2>2
<1>4. ASSUME NEW h, Is(h) PROVE h[S] = g[S]
  <2> DEFINE Differs == {s \in SUBSET S : h[s] # g[s]}
  <2> SUFFICES ASSUME Differs # {} PROVE FALSE
    OBVIOUS
  <2>1. PICK s \in Differs : \A t \in Differs : t \subseteq s => t = s
    <3>1. Differs \in SUBSET SUBSET S
      OBVIOUS
    <3> HIDE DEF Differs
    <3> QED
      BY <3>1, SmallestSubset
  <2>2. \A t \in SUBSET S : h[t] = IF t = {} THEN 0
             ELSE a[CHOOSE x \in t : TRUE].amount + h[t \ {CHOOSE x \in t : TRUE}]
    BY <1>4
  <2>3. s # {}
    BY <2>1, <2>2 DEF Sums
  <2> DEFINE x == CHOOSE x \in s : TRUE
  <2>4. x \in s /\ h[s] = a[x].amount + h[s \ {x}]
    BY <1>2, <2>1, <2>2, <2>3
  <2> HIDE DEF x
  <2>5. h[s \ {x}] = g[s \ {x}]
    BY <2>1, <2>4
  <2>6. g[s] = a[x].amount + g[s \ {x}]
    BY <2>1, <2>4 DEF Sums
  <2> QED
    BY <2>1, <2>4, <2>5, <2>6
<1> HIDE DEF Is
<1>5. Is(CHOOSE h : Is(h))
  BY <1>3
<1> QED
  BY <1>1, <1>4, <1>5

(* One more element adds its amount.                                       *)
LEMMA TotalAdds ==
  ASSUME NEW a, NEW S, IsFiniteSet(S), NEW x, x \notin S, \A y \in S \cup {x} : a[y].amount \in Nat
  PROVE  Total(a, S \cup {x}) = Total(a, S) + a[x].amount /\ Total(a, S) \in Nat
<1>1. IsFiniteSet(S \cup {x})
  BY FS_AddElement
<1>2. PICK g : Sums(g, a, S \cup {x})
  BY <1>1, SumsExist
<1> DEFINE h == [s \in SUBSET S |-> g[s]]
<1>3. Sums(h, a, S)
  <2>1. \A s \in SUBSET S : s \in SUBSET (S \cup {x}) /\ h[s] = g[s]
    OBVIOUS
  <2>2. \A s \in SUBSET S : \A y \in s : s \ {y} \in SUBSET S
    OBVIOUS
  <2>3. h \in [SUBSET S -> Nat] /\ h[{}] = 0
    BY <1>2, <2>1 DEF Sums
  <2> QED
    BY <1>2, <2>1, <2>2, <2>3 DEF Sums
<1>4. Total(a, S \cup {x}) = g[S \cup {x}] /\ Total(a, S) = h[S]
  BY <1>1, <1>2, <1>3, TotalOf
<1>5. g[S \cup {x}] = a[x].amount + g[(S \cup {x}) \ {x}] /\ (S \cup {x}) \ {x} = S
  BY <1>2 DEF Sums
<1>6. h[S] = g[S] /\ g[S] \in Nat /\ a[x].amount \in Nat
  BY <1>2 DEF Sums
<1> HIDE DEF h
<1>7. g[S \cup {x}] = a[x].amount + g[S]
  BY <1>5
<1> QED
  BY <1>4, <1>6, <1>7

(* Nothing sums up to zero.                                                *)
LEMMA TotalOfNone == ASSUME NEW a PROVE Total(a, {}) = 0
<1>1. PICK g : Sums(g, a, {})
  BY SumsExist, FS_EmptySet
<1> QED
  BY <1>1, FS_EmptySet, TotalOf DEF Sums

-----------------------------------------------------------------------------
(* An action is charged once.                                              *)

Charged == {c \in Calls : Recorded(c)}

(* A capability that no other agent has spent from.                        *)
Fresh == \A cap \in Capabilities : cap.actionCount = 0 /\ cap.totalSpent = 0

CInv ==
  /\ KInv
  /\ UnmintedIsBlank
  /\ IsFiniteSet(Charged)
  /\ ExactlyOnce

(* The count and the sum of what is recorded.                              *)
LEMMA ExactlyOnceIs ==
  /\ ExactlyOnce <=>
       Latest.actionCount = Cardinality(Charged) /\ Latest.totalSpent = Total(act, Charged)
  /\ ExactlyOnce' <=>
       Latest'.actionCount = Cardinality(Charged') /\ Latest'.totalSpent = Total(act', Charged')
<1>1. ExactlyOnce <=>
       Latest.actionCount = Cardinality(Charged) /\ Latest.totalSpent = Total(act, Charged)
  BY DEF ExactlyOnce, Charged, Total
<1>2. ExactlyOnce' <=>
       (Latest.actionCount = Cardinality(Charged) /\ Latest.totalSpent = Total(act, Charged))'
  BY <1>1, PTL
<1> QED
  BY <1>1, <1>2

(* The last height is one.                                                 *)
LEMMA LatestHeight == ChainTypeOK => Len(ledger) \in Heights
  BY DEF ChainTypeOK, Heights

(* A step of the chain commits nothing, an operation of the principal, or  *)
(* one action that was not recorded before.                                *)
LEMMA GoCommits ==
  ASSUME KInv, Chain
  PROVE  /\ act' = act /\ UNCHANGED <<callVars, faults>>
         /\ \/ ledger' = ledger /\ \A c \in Calls : Recorded(c)' <=> Recorded(c)
            \/ Principal /\ UNCHANGED goChain
            \/ \E c \in Calls :
                 /\ \E k \in DOMAIN tx[c] : tx[c][k] = "mempool"
                 /\ ~Recorded(c)
                 /\ \A d \in Calls : Recorded(d)' <=> Recorded(d) \/ d = c
                 /\ ContractRefusals(Latest, act[c]) = {}
                 /\ Commit(RecordAction(Latest, act[c]))
                 /\ view' = view
<1>1. UNCHANGED <<callVars, faults>>
  BY DEF Chain
<1>2. TypeOK /\ fate \in [Calls -> {"none", "mempool"} \cup Codes]
  BY DEF KInv, TypeOK, ChainTypeOK
<1>3. ASSUME NEW c \in Calls, NEW k \in DOMAIN tx[c], tx[c][k] = "mempool",
             ActionID(c, k) \notin keys
      PROVE  ~Recorded(c)
  BY <1>3 DEF KInv, KeyedOnce, ActionID
<1>4. CASE \E c \in Calls : \E k \in DOMAIN tx[c] : IncludeTx(c, k)
  <2>1. PICK c \in Calls : \E k \in DOMAIN tx[c] : IncludeTx(c, k)
    BY <1>4
  <2>2. PICK k \in DOMAIN tx[c] : IncludeTx(c, k)
    BY <2>1
  <2>3. tx[c][k] = "mempool" /\ act' = act /\ view' = view
    BY <1>2, <2>2, IncludesTx
  <2>4. \/ ledger' = ledger /\ fate' = fate
        \/ /\ ledger' = ledger /\ ActionID(c, k) \notin keys /\ ~Recorded(c)'
           /\ \E code : fate' = [fate EXCEPT ![c] = code]
        \/ /\ ActionID(c, k) \notin keys /\ ContractRefusals(Latest, act[c]) = {}
           /\ Commit(RecordAction(Latest, act[c]))
           /\ fate' = [fate EXCEPT ![c] = "Allowed"]
    BY <1>2, <2>2, IncludesTx
  <2> QED
    BY <1>1, <1>2, <1>3, <2>3, <2>4 DEF Recorded
<1>5. CASE \E c \in Calls : \E k \in DOMAIN tx[c] : ExecFails(c, k)
  BY <1>1, <1>5 DEF ExecFails, chainVars, Recorded
<1>6. CASE Principal /\ UNCHANGED goChain
  BY <1>1, <1>6 DEF Principal, Mint, ChangeLimits, Revoke, Allow
<1>7. CASE \E n \in Nodes : Replicate(n) /\ UNCHANGED goChain
  BY <1>1, <1>7 DEF Replicate, Recorded
<1> QED
  BY <1>4, <1>5, <1>6, <1>7 DEF Chain

(* Each step charges what it records.                                      *)
LEMMA NextCharges == CInv /\ [Next]_vars => CInv'
<1> SUFFICES ASSUME CInv, [Next]_vars PROVE CInv'
  OBVIOUS
<1>1. KInv /\ KInv' /\ ChainTypeOK /\ Latest \in CapabilityState
  BY NextType, NextKeyed, LatestType DEF CInv, KInv, TypeOK
<1>2. /\ UnmintedIsBlank /\ IsFiniteSet(Charged)
      /\ Latest.actionCount = Cardinality(Charged)
      /\ Latest.totalSpent = Total(act, Charged)
  BY ExactlyOnceIs DEF CInv
<1>3. ASSUME UnmintedIsBlank', IsFiniteSet(Charged'),
             Latest'.actionCount = Cardinality(Charged'),
             Latest'.totalSpent = Total(act', Charged')
      PROVE  CInv'
  BY <1>1, <1>3, ExactlyOnceIs DEF CInv
<1>4. ASSUME ledger' = ledger, act' = act, \A c \in Calls : Recorded(c)' <=> Recorded(c)
      PROVE  CInv'
  <2>1. Charged' = Charged /\ Latest' = Latest /\ (UnmintedIsBlank' <=> UnmintedIsBlank)
    BY <1>4 DEF Charged, Latest, UnmintedIsBlank, Heights
  <2> QED
    BY <1>2, <1>3, <1>4, <2>1
<1>5. CASE UNCHANGED vars
  BY <1>4, <1>5 DEF vars, chainVars, Recorded
<1>6. ASSUME NEW c \in Calls, Call(c) PROVE CInv'
  BY <1>1, <1>4, <1>6, CallMoves DEF chainVars, Recorded
<1>7. ASSUME NEW cap \in CapabilityState, Commit(cap), cap.status # "NotFound"
      PROVE  Latest' = cap /\ UnmintedIsBlank'
  <2>1. Len(ledger) \in Nat /\ Heights' = Heights \cup {Len(ledger) + 1}
    BY <1>1, <1>7, CommitAppends DEF Heights
  <2> QED
    BY <1>1, <1>2, <1>7, <2>1, CommitAppends DEF Latest, UnmintedIsBlank
<1>8. CASE Principal
  <2>1. PICK cap \in CapabilityState :
          /\ Commit(cap) /\ cap.status # "NotFound"
          /\ fate' = fate /\ act' = act
          /\ Latest.status # "Revoked"
          /\ Latest.status = "NotFound" => cap.totalSpent = 0 /\ cap.actionCount = 0
          /\ Latest.status = "Active" =>
               cap.totalSpent = Latest.totalSpent /\ cap.actionCount = Latest.actionCount
    BY <1>1, <1>8, PrincipalsCommit
  <2>2. cap.totalSpent = Latest.totalSpent /\ cap.actionCount = Latest.actionCount
    <3>1. Latest.status = "NotFound" => Latest = Unminted
      BY <1>1, <1>2, LatestHeight DEF UnmintedIsBlank, Latest
    <3> QED
      BY <1>1, <2>1, <3>1 DEF Unminted, CapabilityState, CapabilityStatus
  <2>3. Charged' = Charged /\ Latest' = cap /\ UnmintedIsBlank'
    BY <1>7, <2>1 DEF Charged, Recorded
  <2> QED
    BY <1>2, <1>3, <2>1, <2>2, <2>3
<1>9. ASSUME NEW c \in Calls, ~Recorded(c), act' = act,
             \A d \in Calls : Recorded(d)' <=> Recorded(d) \/ d = c,
             ContractRefusals(Latest, act[c]) = {}, Commit(RecordAction(Latest, act[c]))
      PROVE  CInv'
  <2>1. Charged' = Charged \cup {c} /\ c \notin Charged
    BY <1>9 DEF Charged
  <2>2. \A d \in Charged \cup {c} : act[d].amount \in Nat
    BY <1>1, SubstrateAssumption DEF ChainTypeOK, Action, Charged
  <2>3. /\ RecordAction(Latest, act[c]) \in CapabilityState
        /\ RecordAction(Latest, act[c]).totalSpent = Latest.totalSpent + act[c].amount
        /\ RecordAction(Latest, act[c]).actionCount = Latest.actionCount + 1
        /\ RecordAction(Latest, act[c]).status = Latest.status
    BY <1>1, <2>2, RecordActionKeeps
  <2>4. Latest.status # "NotFound"
    BY <1>9, RefusalsOf
  <2>5. Latest' = RecordAction(Latest, act[c]) /\ UnmintedIsBlank'
    BY <1>7, <1>9, <2>3, <2>4
  <2>6. IsFiniteSet(Charged') /\ Cardinality(Charged') = Cardinality(Charged) + 1
    BY <1>2, <2>1, FS_AddElement
  <2>7. Total(act, Charged \cup {c}) = Total(act, Charged) + act[c].amount
    BY <1>2, <2>1, <2>2, TotalAdds
  <2> QED
    BY <1>2, <1>3, <1>9, <2>1, <2>3, <2>5, <2>6, <2>7
<1>10. CASE Chain
  BY <1>1, <1>4, <1>8, <1>9, <1>10, GoCommits
<1> QED
  BY <1>5, <1>6, <1>10 DEF Next

(* However often a worker submits an action, crashes or is told of a       *)
(* failure, the contract counts it once and charges its amount once,       *)
(* whatever the nodes show and the principal does in between.              *)
THEOREM ChargedOnce ==
  ASSUME Fresh
  PROVE  Spec => []ExactlyOnce
<1>1. Init => CInv
  <2> SUFFICES ASSUME Init PROVE CInv
    OBVIOUS
  <2>1. KInv
    BY InitKeyed
  <2>2. PICK cap \in Capabilities : ledger = <<cap>>
    BY DEF Init, ChainInit
  <2>3. Latest = cap
    BY <2>2 DEF Latest
  <2>4. Charged = {}
    BY DEF Init, ChainInit, Charged, Recorded
  <2>5. ExactlyOnce
    BY <2>3, <2>4, FS_EmptySet, TotalOfNone, ExactlyOnceIs DEF Fresh
  <2>6. UnmintedIsBlank
    BY <2>2, SubstrateAssumption DEF UnmintedIsBlank, Heights
  <2> QED
    BY <2>1, <2>4, <2>5, <2>6, FS_EmptySet DEF CInv
<1>2. CInv /\ [Next]_vars => CInv'
  BY NextCharges
<1>3. CInv => ExactlyOnce
  BY DEF CInv
<1> QED
  BY <1>1, <1>2, <1>3, PTL DEF Spec

-----------------------------------------------------------------------------
(* A ledger that tightens.                                                 *)

(* Tightening is transitive, and does not undo a refusal.                  *)
LEMMA TighterLasts ==
  ASSUME NEW p \in CapabilityState, NEW q \in CapabilityState, NEW r \in CapabilityState,
         Tighter(p, q), Tighter(q, r)
  PROVE  Tighter(p, r)
  BY DEF Tighter, CapabilityState

LEMMA BarredLasts ==
  ASSUME NEW p \in CapabilityState, NEW q \in CapabilityState, NEW a \in Action,
         Tighter(p, q), Barred(p, a)
  PROVE  Barred(q, a)
  BY DEF Tighter, Barred, CapabilityState, Action

(* What is barred is refused.                                              *)
LEMMA BarredRefused ==
  ASSUME NEW cap, NEW a, Barred(cap, a) PROVE ContractRefusals(cap, a) # {}
  BY RefusalsOf DEF Barred

(* Recording an action tightens.                                           *)
LEMMA RecordTightens ==
  ASSUME NEW cap \in CapabilityState, NEW a, a.amount \in Nat
  PROVE  Tighter(cap, RecordAction(cap, a))
<1>1. \A f \in {"status", "maxSpend", "validUntil", "allowlist", "allowed"} :
        RecordAction(cap, a)[f] = cap[f]
  BY RecordActionKeeps
<1>2. /\ RecordAction(cap, a).status = cap.status
      /\ RecordAction(cap, a).maxSpend = cap.maxSpend
      /\ RecordAction(cap, a).validUntil = cap.validUntil
      /\ RecordAction(cap, a).allowlist = cap.allowlist
      /\ RecordAction(cap, a).allowed = cap.allowed
  BY <1>1
<1>3. /\ RecordAction(cap, a).totalSpent = cap.totalSpent + a.amount
      /\ RecordAction(cap, a).actionCount = cap.actionCount + 1
  BY RecordActionKeeps
<1>4. cap.totalSpent \in Nat /\ cap.actionCount \in Nat /\ cap.maxSpend \in Nat
      /\ cap.validUntil \in Nat
  BY DEF CapabilityState
<1> QED
  BY <1>2, <1>3, <1>4 DEF Tighter

(* So does what a tightening principal commits, and it spends nothing.     *)
LEMMA PrincipalTightens ==
  ASSUME ChainTypeOK, UnmintedIsBlank, Principal, Tightens
  PROVE  \E cap \in CapabilityState :
            /\ Commit(cap) /\ UNCHANGED <<view, fate, act>>
            /\ Tighter(Latest, cap)
            /\ cap.actionCount = Latest.actionCount
            /\ cap.totalSpent = Latest.totalSpent
            /\ cap.status # "NotFound"
<1>1. PICK cap \in CapabilityState :
        /\ Commit(cap) /\ UNCHANGED <<view, fate, act>>
        /\ Latest.status # "Revoked" /\ cap.status # "NotFound"
        /\ Latest.status = "NotFound" =>
             cap.totalSpent = 0 /\ cap.actionCount = 0 /\ cap.allowed = {}
        /\ Latest.status = "Active" =>
             /\ cap.allowlist = Latest.allowlist
             /\ cap.totalSpent = Latest.totalSpent
             /\ cap.actionCount = Latest.actionCount
  BY PrincipalsCommit
<1>2. Latest' = cap
  BY <1>1, CommitAppends DEF Latest
<1>3. Latest \in CapabilityState /\ Latest.status \in {"NotFound", "Active"}
  BY <1>1, LatestType DEF CapabilityState, CapabilityStatus
<1>4. CASE Latest.status = "NotFound"
  <2>1. Latest = Unminted
    BY <1>4, LatestHeight DEF UnmintedIsBlank, Latest
  <2>2. Latest.actionCount = 0 /\ Latest.totalSpent = 0 /\ Latest.allowed = {}
    BY <2>1 DEF Unminted
  <2>3. Tighter(Latest, cap)
    BY <1>1, <1>4, <2>2 DEF Tighter
  <2> QED
    BY <1>1, <1>4, <2>2, <2>3
<1>5. CASE Latest.status = "Active"
  <2>1. Tighter(Latest, cap)
    BY <1>1, <1>2, <1>3, <1>5 DEF Tighter, Tightens, CapabilityState
  <2> QED
    BY <1>1, <1>5, <2>1
<1> QED
  BY <1>3, <1>4, <1>5

(* What is known of the ledger.                                            *)
LEMMA LedgerOf ==
  ASSUME ChainTypeOK
  PROVE  /\ Len(ledger) \in Nat \ {0} /\ Len(ledger) \in Heights
         /\ \A h \in Heights : h \in Nat /\ h <= Len(ledger) /\ ledger[h] \in CapabilityState
         /\ \A h \in Heights : /\ Count(h) \in Nat /\ Spent(h) \in Nat
                               /\ ledger[h].maxSpend \in Nat /\ ledger[h].validUntil \in Nat
<1>1. \A h \in Heights : ledger[h] \in CapabilityState
  BY DEF ChainTypeOK, Heights
<1>2. Len(ledger) \in Nat \ {0}
  BY DEF ChainTypeOK
<1> QED
  BY <1>1, <1>2 DEF Heights, CapabilityState, Count, Spent

(* The last state is as tight as any.                                      *)
LEMMA LatestTightest ==
  ASSUME ChainTypeOK, LedgerTightens
  PROVE  \A h \in Heights : Tighter(ledger[h], Latest) /\ Count(h) <= Committed
  BY LedgerOf DEF LedgerTightens, Tighter, Latest, Count, Committed

-----------------------------------------------------------------------------
(* What a read shows, when the ledger tightens.                            *)

LEMMA ReadsHold ==
  ASSUME TypeOK
  PROVE  /\ ChainTypeOK
         /\ \A c \in Calls : act[c] \in Action /\ Window(c) \subseteq Heights
         /\ \A c \in Calls, n \in Nodes : since[c][n] \in Heights /\ view[n] \in Heights
<1>1. ChainTypeOK /\ since \in [Calls -> [Nodes -> Heights]]
  BY DEF TypeOK
<1> QED
  BY <1>1, WindowOnLedger, SubstrateAssumption DEF ChainTypeOK

(* A refusal by the fields of one node holds at every height from the one  *)
(* that answered for the spending.                                         *)
LEMMA ReadBars ==
  ASSUME OneNode, TypeOK, LedgerTightens, NEW c \in Calls, NEW seen \in SequentialReads(c),
         GoPrejudge(seen, act[c]) \notin Inconclusive
  PROVE  \E h4, h5 \in Window(c) :
            /\ h4 <= h5
            /\ seen.totalSpent = Spent(h4)
            /\ seen.actionCount = Count(h5)
            /\ \A r \in Heights : h4 <= r => Barred(ledger[r], act[c])
<1>1. PICK h1, h2, h3, h4, h5 \in Window(c) :
        /\ seen.status = ledger[h1].status
        /\ seen.maxSpend = ledger[h2].maxSpend
        /\ seen.validUntil = ledger[h3].validUntil
        /\ seen.totalSpent = ledger[h4].totalSpent
        /\ seen.actionCount = ledger[h5].actionCount
        /\ h1 <= h2 /\ h2 <= h3 /\ h3 <= h4 /\ h4 <= h5
  BY SequentialOf
<1>2. /\ act[c] \in Action
      /\ h1 \in Heights /\ h2 \in Heights /\ h3 \in Heights /\ h4 \in Heights /\ h5 \in Heights
      /\ seen \in CapabilityRead
  BY ReadsHold, SequentialType DEF TypeOK
<1>3. /\ GoPrejudge(seen, act[c]) \in {"Revoked", "Expired", "OverBudget"}
      /\ seen.status # "NotFound"
  BY <1>2, GoPrejudgeOf DEF Inconclusive
<1>4. ASSUME NEW r \in Heights, h4 <= r PROVE Barred(ledger[r], act[c])
  <2>1. h1 <= r /\ h2 <= r /\ h3 <= r /\ h1 <= h3
    <3>1. h1 \in Nat /\ h2 \in Nat /\ h3 \in Nat /\ h4 \in Nat /\ r \in Nat
      BY <1>2, ReadsHold, LedgerOf
    <3> QED
      BY <1>1, <1>4, <3>1
  <2>2. /\ Tighter(ledger[h1], ledger[r]) /\ Tighter(ledger[h2], ledger[r])
        /\ Tighter(ledger[h3], ledger[r]) /\ Tighter(ledger[h4], ledger[r])
        /\ Tighter(ledger[h1], ledger[h2]) /\ Tighter(ledger[h1], ledger[h3])
    BY <1>1, <1>2, <1>4, <2>1 DEF LedgerTightens
  <2>3. /\ ledger[h1].status # "NotFound" /\ ledger[h2].status # "NotFound"
        /\ ledger[h3].status # "NotFound" /\ ledger[r].status # "NotFound"
    BY <1>1, <1>3, <2>2 DEF Tighter
  <2>4. CASE GoPrejudge(seen, act[c]) = "Revoked"
    <3>1. ledger[h1].status = "Revoked"
      BY <1>1, <1>2, <2>4, GoPrejudgeOf
    <3> QED
      BY <2>2, <2>3, <3>1 DEF Tighter, Barred
  <2>5. CASE GoPrejudge(seen, act[c]) = "Expired"
    <3>1. act[c].time > ledger[h3].validUntil
      BY <1>1, <1>2, <2>5, GoPrejudgeOf
    <3>2. ledger[r].validUntil <= ledger[h3].validUntil
      BY <2>2, <2>3 DEF Tighter
    <3>3. ledger[r].validUntil \in Nat /\ ledger[h3].validUntil \in Nat /\ act[c].time \in Nat
      BY <1>2, ReadsHold, LedgerOf DEF Action
    <3> QED
      BY <2>3, <3>1, <3>2, <3>3 DEF Barred
  <2>6. CASE GoPrejudge(seen, act[c]) = "OverBudget"
    <3>1. ledger[h4].totalSpent + act[c].amount > ledger[h2].maxSpend
      BY <1>1, <1>2, <2>6, GoPrejudgeOf
    <3>2. ledger[r].maxSpend <= ledger[h2].maxSpend /\ ledger[h4].totalSpent <= ledger[r].totalSpent
      BY <2>2, <2>3 DEF Tighter
    <3>3. /\ ledger[r].maxSpend \in Nat /\ ledger[h2].maxSpend \in Nat /\ act[c].amount \in Nat
          /\ ledger[r].totalSpent \in Nat /\ ledger[h4].totalSpent \in Nat
      BY <1>2, ReadsHold, LedgerOf DEF Action, Spent
    <3> QED
      BY <2>3, <3>1, <3>2, <3>3 DEF Barred
  <2> QED
    BY <1>3, <2>4, <2>5, <2>6
<1> QED
  BY <1>1, <1>4 DEF Spent, Count

(* A refusal by the allowlist lasts.                                       *)
LEMMA ListBars ==
  ASSUME TypeOK, LedgerTightens, UnmintedIsBlank, NEW c \in Calls,
         AllowlistCode(c, "OutOfAllowlist")
  PROVE  /\ Latest.status # "NotFound" /\ Latest.allowlist
         /\ act[c].counterparty \notin Latest.allowed
<1>1. PICK g, h \in Window(c) : ledger[g].allowlist /\ act[c].counterparty \notin ledger[h].allowed
  <2>1. PICK enabled \in ReadOf(c, "allowlist"), allowed \in ReadOf(c, "allowed") :
          "OutOfAllowlist" = PrejudgeAllowlist(enabled, allowed, act[c])
    BY DEF AllowlistCode
  <2>2. enabled /\ act[c].counterparty \notin allowed
    BY <2>1 DEF PrejudgeAllowlist
  <2>3. PICK g \in Window(c) : enabled = ledger[g].allowlist
    BY <2>1 DEF ReadOf
  <2>4. PICK h \in Window(c) : allowed = ledger[h].allowed
    BY <2>1 DEF ReadOf
  <2> QED
    BY <2>2, <2>3, <2>4
<1>2. g \in Heights /\ h \in Heights
  BY <1>1, ReadsHold
<1>3. ledger[g].status # "NotFound"
  BY <1>1, <1>2 DEF UnmintedIsBlank, Unminted
<1>4. Tighter(ledger[g], Latest) /\ Tighter(ledger[h], Latest)
  BY <1>2, ReadsHold, LatestTightest
<1> QED
  BY <1>1, <1>3, <1>4 DEF Tighter

(* The first read is of what is committed.                                 *)
LEMMA PreStateRead ==
  ASSUME GInv, NEW c \in Calls, pc[c] = "reading"
  PROVE  /\ \A h \in Window(c) : Count(h) = Committed /\ Spent(h) = Spent(Len(ledger))
         /\ \A n \in Nodes : Count(view[n]) = Committed
<1>1. TypeOK /\ ChainTypeOK /\ LedgerTightens /\ SpentFollowsCount /\ ReadsStarted
  BY ReadsHold DEF GInv, KInv
<1>2. \A n \in Nodes : Count(since[c][n]) = Committed
  BY DEF GInv, Baseline
<1>3. ASSUME NEW n \in Nodes, NEW h \in Heights, since[c][n] <= h
      PROVE  Count(h) = Committed
  <2>1. Tighter(ledger[since[c][n]], ledger[h]) /\ Tighter(ledger[h], Latest)
    BY <1>1, <1>3, ReadsHold, LatestTightest DEF LedgerTightens
  <2>2. Count(since[c][n]) <= Count(h) /\ Count(h) <= Committed
    BY <2>1, <1>1, <1>3, LatestTightest DEF Tighter, Count
  <2> QED
    BY <1>1, <1>2, <1>3, <2>2, LedgerOf DEF Committed
<1>4. ASSUME NEW h \in Window(c) PROVE Count(h) = Committed
  <2>1. h \in Heights /\ \E n \in Nodes : since[c][n] <= h
    BY <1>1, <1>4, ReadsHold DEF Window, Heights
  <2> QED
    BY <1>3, <2>1
<1>5. \A h \in Window(c) : Spent(h) = Spent(Len(ledger))
  BY <1>1, <1>4, ReadsHold, LedgerOf DEF SpentFollowsCount, Committed
<1>6. \A n \in Nodes : Count(view[n]) = Committed
  BY <1>1, <1>3, ReadsHold DEF ReadsStarted
<1> QED
  BY <1>4, <1>5, <1>6

(* Later ones are not older than the baseline.                             *)
LEMMA LaterRead ==
  ASSUME GInv, NEW c \in Calls, Frozen(c)
  PROVE  /\ \A h \in Window(c) : Count(h) >= baseline[c].actionCount
         /\ \A n \in Nodes : Count(view[n]) >= baseline[c].actionCount
<1>1. TypeOK /\ ChainTypeOK /\ LedgerTightens /\ ReadsStarted
  BY ReadsHold DEF GInv, KInv
<1>2. \A n \in Nodes : Count(since[c][n]) >= baseline[c].actionCount
  BY DEF GInv, Baseline
<1>3. baseline[c].actionCount \in Nat
  BY <1>1 DEF TypeOK, CapabilityRead
<1>4. ASSUME NEW n \in Nodes, NEW h \in Heights, since[c][n] <= h
      PROVE  Count(h) >= baseline[c].actionCount
  <2>1. Tighter(ledger[since[c][n]], ledger[h])
    BY <1>1, <1>4, ReadsHold DEF LedgerTightens
  <2>2. Count(since[c][n]) <= Count(h)
    BY <2>1 DEF Tighter, Count
  <2>3. Count(since[c][n]) \in Nat /\ Count(h) \in Nat
    BY <1>1, <1>4, ReadsHold, LedgerOf
  <2> QED
    BY <1>2, <1>3, <2>2, <2>3
<1>5. ASSUME NEW h \in Window(c) PROVE h \in Heights /\ \E n \in Nodes : since[c][n] <= h
  BY <1>1, <1>5, ReadsHold DEF Window, Heights
<1>6. \A n \in Nodes : Count(view[n]) >= baseline[c].actionCount
  BY <1>1, <1>4, ReadsHold DEF ReadsStarted
<1> QED
  BY <1>4, <1>5, <1>6

-----------------------------------------------------------------------------
(* The invariant of the verdicts.                                          *)

(* A confirmation that sees the delta sees the record of its own action.   *)
LEMMA DeltaIsOwn ==
  ASSUME OneNode, GInv, NEW c \in Calls, pc[c] = "confirming",
         NEW seen \in SequentialReads(c), Delta(c, seen)
  PROVE  Recorded(c) /\ \A n \in Nodes : Count(view[n]) = Committed
<1>1. TypeOK /\ ChainTypeOK /\ LedgerTightens /\ Frozen(c)
  BY ReadsHold DEF GInv, KInv, Frozen
<1>2. PICK h5 \in Window(c) : seen.actionCount = Count(h5)
  BY SequentialOf DEF Count
<1>3. h5 \in Heights /\ \A n \in Nodes : h5 <= view[n]
  <2>1. h5 \in Heights
    BY <1>1, ReadsHold
  <2>2. \E n \in Nodes : h5 <= view[n]
    BY <1>1, ReadsHold DEF Window, Heights
  <2> QED
    BY <2>1, <2>2 DEF OneNode
<1>4. Count(h5) = baseline[c].actionCount + 1 /\ baseline[c].actionCount \in Nat
  BY <1>1, <1>2 DEF Delta, TypeOK, CapabilityRead
<1>5. Count(h5) <= Committed /\ Committed \in Nat
  BY <1>1, <1>3, LatestTightest, LedgerOf DEF Committed
<1>6. Recorded(c)
  BY <1>1, <1>4, <1>5 DEF GInv, Baseline
<1>7. Committed = baseline[c].actionCount + 1
  <2>1. PICK r \in Heights : PassedAt(c, r)
    BY <1>1, <1>6 DEF GInv, Baseline
  <2> QED
    BY <1>1, <2>1, LedgerOf DEF PassedAt, Committed
<1>8. ASSUME NEW n \in Nodes PROVE Count(view[n]) = Committed
  <2>1. view[n] \in Heights /\ h5 <= view[n]
    BY <1>1, <1>3, ReadsHold
  <2>2. Tighter(ledger[h5], ledger[view[n]])
    BY <1>1, <1>3, <2>1 DEF LedgerTightens
  <2>3. Count(h5) <= Count(view[n]) /\ Count(view[n]) <= Committed /\ Count(view[n]) \in Nat
    BY <1>1, <2>1, <2>2, LatestTightest, LedgerOf DEF Tighter, Count
  <2> QED
    BY <1>4, <1>5, <1>7, <2>3
<1> QED
  BY <1>6, <1>8

(* One that sees a refusal and not the delta sees a ledger on which the    *)
(* action was not recorded and will not be.                                *)
LEMMA RefusalStays ==
  ASSUME OneNode, GInv, NEW c \in Calls, pc[c] = "confirming",
         NEW seen \in SequentialReads(c), ~Delta(c, seen),
         GoPrejudge(seen, act[c]) \notin Inconclusive
  PROVE  NeverRecorded(c)
<1>1. TypeOK /\ ChainTypeOK /\ LedgerTightens /\ Frozen(c)
  BY ReadsHold DEF GInv, KInv, Frozen
<1>2. PICK h4, h5 \in Window(c) :
        /\ h4 <= h5
        /\ seen.totalSpent = Spent(h4)
        /\ seen.actionCount = Count(h5)
        /\ \A r \in Heights : h4 <= r => Barred(ledger[r], act[c])
  BY <1>1, ReadBars
<1>3. h4 \in Heights /\ h5 \in Heights
  BY <1>1, ReadsHold
<1>4. Barred(Latest, act[c])
  BY <1>1, <1>2, <1>3, LedgerOf DEF Latest
<1>5. ASSUME NEW r \in Heights, PassedAt(c, r) PROVE FALSE
  <2>1. ~Barred(ledger[r], act[c])
    BY <1>5, BarredRefused DEF PassedAt
  <2>2. r < h4 /\ r < h5
    <3>1. r \in Nat /\ h4 \in Nat /\ h5 \in Nat
      BY <1>1, <1>3, LedgerOf
    <3> QED
      BY <1>2, <2>1, <3>1
  <2>3. /\ Count(h5) = baseline[c].actionCount + 1
        /\ Spent(h4) = baseline[c].totalSpent + act[c].amount
    BY <1>3, <1>5, <2>2 DEF PassedAt
  <2> QED
    BY <1>2, <2>3 DEF Delta
<1>6. ~Recorded(c)
  BY <1>1, <1>5 DEF GInv, Baseline
<1> QED
  BY <1>4, <1>6 DEF NeverRecorded

(* So does the allowlist, when the fields allow.                           *)
LEMMA ListStays ==
  ASSUME GInv, NEW c \in Calls, Frozen(c), AllowlistCode(c, "OutOfAllowlist")
  PROVE  NeverRecorded(c)
<1>1. TypeOK /\ ChainTypeOK /\ LedgerTightens /\ UnmintedIsBlank
  BY ReadsHold DEF GInv, KInv
<1>2. /\ Latest.status # "NotFound" /\ Latest.allowlist
      /\ act[c].counterparty \notin Latest.allowed
  BY <1>1, ListBars
<1>3. ASSUME NEW r \in Heights, PassedAt(c, r) PROVE FALSE
  <2>1. ContractRefusals(ledger[r], act[c]) = {}
    BY <1>3 DEF PassedAt
  <2>2. ledger[r].status # "NotFound" /\ ~(ledger[r].allowlist /\ act[c].counterparty \notin ledger[r].allowed)
    BY <2>1, RefusalsOf
  <2>3. Tighter(ledger[r], Latest)
    BY <1>1, <1>3, LatestTightest
  <2> QED
    BY <1>2, <2>2, <2>3 DEF Tighter
<1>4. ~Recorded(c)
  BY <1>3 DEF GInv, Baseline
<1> QED
  BY <1>2, <1>4 DEF NeverRecorded, Barred

(* A call that is not recorded leaves the count where it found it.         *)
LEMMA NothingMissed ==
  ASSUME GInv, NEW c \in Calls, Frozen(c), ~Recorded(c)
  PROVE  \A n \in Nodes : Count(view[n]) = Committed
<1>1. TypeOK /\ ChainTypeOK /\ LedgerTightens
  BY ReadsHold DEF GInv, KInv
<1>2. Committed = baseline[c].actionCount /\ Committed \in Nat
  BY <1>1, LedgerOf DEF GInv, Baseline, Committed
<1>3. ASSUME NEW n \in Nodes PROVE Count(view[n]) = Committed
  <2>1. Count(view[n]) >= baseline[c].actionCount
    BY LaterRead
  <2>2. Count(view[n]) <= Committed /\ Count(view[n]) \in Nat
    BY <1>1, ReadsHold, LatestTightest, LedgerOf
  <2> QED
    BY <1>2, <2>1, <2>2
<1> QED
  BY <1>3

-----------------------------------------------------------------------------
(* What an operation of a caller leaves alone.                             *)
LEMMA LedgerStays ==
  ASSUME GInv, UNCHANGED chainVars
  PROVE  /\ LedgerTightens' /\ UnmintedIsBlank' /\ SpentFollowsCount'
         /\ Heights' = Heights /\ Committed' = Committed /\ ledger' = ledger
         /\ view' = view /\ act' = act /\ fate' = fate
         /\ \A c \in Calls : (NeverRecorded(c)' <=> NeverRecorded(c))
                             /\ (Recorded(c)' <=> Recorded(c))
<1>1. ledger' = ledger /\ view' = view /\ act' = act /\ fate' = fate
  BY DEF chainVars
<1>2. Heights' = Heights /\ Latest' = Latest /\ Committed' = Committed
  BY <1>1 DEF Heights, Latest, Committed, Count
<1>3. LedgerTightens' /\ UnmintedIsBlank' /\ SpentFollowsCount'
  BY <1>1, <1>2 DEF GInv, LedgerTightens, UnmintedIsBlank, SpentFollowsCount, Count, Spent
<1>4. \A c \in Calls : (NeverRecorded(c)' <=> NeverRecorded(c)) /\ (Recorded(c)' <=> Recorded(c))
  BY <1>1, <1>2 DEF NeverRecorded, Recorded
<1> QED
  BY <1>1, <1>2, <1>3, <1>4

(* A running call that goes on.                                            *)
LEMMA GoesOn ==
  ASSUME GInv, KInv', UNCHANGED chainVars, NEW c \in Calls,
         Running(c), Running(c)', outcome' = outcome,
         \A d \in Calls : d # c => /\ pc'[d] = pc[d] /\ baseline'[d] = baseline[d]
                                   /\ after'[d] = after[d],
         since' = since \/ StartRead(c),
         \/ Frozen(c) /\ baseline'[c] = baseline[c]
         \/ /\ pc[c] = "reading" /\ ~Recorded(c)
            /\ baseline'[c].actionCount = Committed
            /\ baseline'[c].totalSpent = Spent(Len(ledger)),
         pc'[c] # "reading",
         pc'[c] = "receipt" =>
           (GoPrejudge(after'[c], act[c]) \notin Inconclusive => NeverRecorded(c))
  PROVE  GInv'
<1>1. /\ LedgerTightens' /\ UnmintedIsBlank' /\ SpentFollowsCount'
      /\ Heights' = Heights /\ Committed' = Committed /\ ledger' = ledger
      /\ view' = view /\ act' = act /\ fate' = fate
      /\ \A d \in Calls : (NeverRecorded(d)' <=> NeverRecorded(d))
                          /\ (Recorded(d)' <=> Recorded(d))
  BY LedgerStays
<1>2. TypeOK /\ ChainTypeOK
  BY ReadsHold DEF GInv, KInv
<1>3. /\ \A d \in Calls : d # c => since'[d] = since[d]
      /\ since'[c] = since[c] \/ since'[c] = view
  BY <1>2 DEF StartRead, TypeOK
<1>4. OneAtATime'
  BY <1>1 DEF GInv, OneAtATime, NoThrow, Running
<1>5. \A d \in Calls : d # c => ~Running(d)
  BY DEF GInv, OneAtATime
<1>6. ReadsStarted'
  <2>1. \A n \in Nodes : view[n] \in Nat
    BY <1>2, ReadsHold, LedgerOf
  <2> QED
    BY <1>1, <1>3, <2>1 DEF GInv, ReadsStarted
<1>7. CaughtUp'
  BY DEF CaughtUp
<1>8. Frozen(c)' /\ pc'[c] # "reading"
  BY <1>2 DEF Frozen, Running, KInv, TypeOK
<1>9. \A n \in Nodes : Count(since'[c][n]) >= baseline'[c].actionCount
  <2>1. CASE Frozen(c) /\ baseline'[c] = baseline[c]
    BY <1>3, <2>1, LaterRead DEF GInv, Baseline
  <2>2. CASE pc[c] = "reading" /\ baseline'[c].actionCount = Committed
    <3>1. \A n \in Nodes : Count(since'[c][n]) = Committed
      BY <1>3, <2>2, PreStateRead DEF GInv, Baseline
    <3>2. Committed \in Nat
      BY <1>2, LedgerOf DEF Committed
    <3> QED
      BY <2>2, <3>1, <3>2
  <2> QED
    BY <2>1, <2>2
<1>10. IF Recorded(c) THEN \E r \in Heights : PassedAt(c, r)'
       ELSE /\ Committed = baseline'[c].actionCount
            /\ Spent(Len(ledger)) = baseline'[c].totalSpent
  <2>1. CASE Frozen(c) /\ baseline'[c] = baseline[c]
    <3>1. ASSUME NEW r \in Heights, PassedAt(c, r) PROVE PassedAt(c, r)'
      BY <1>1, <2>1, <3>1 DEF PassedAt, Count, Spent
    <3> QED
      BY <2>1, <3>1 DEF GInv, Baseline
  <2> QED
    BY <2>1
<1>11. Baseline'
  <2>1. ASSUME NEW d \in Calls, d # c PROVE pc'[d] # "reading" /\ ~Frozen(d)'
    BY <1>5, <2>1 DEF Running, Frozen
  <2>2. \A n \in Nodes : Count(since[c][n])' >= baseline'[c].actionCount
    BY <1>1, <1>9 DEF Count
  <2>3. Spent(Len(ledger))' = Spent(Len(ledger))
    BY <1>1 DEF Spent
  <2> QED
    BY <1>1, <1>8, <1>10, <2>1, <2>2, <2>3 DEF Baseline
<1>12. DeniedBarred' /\ AllowedSound'
  BY <1>1 DEF GInv, DeniedBarred, AllowedSound
<1>13. AfterBars'
  <2>1. ASSUME NEW d \in Calls, d # c, pc'[d] = "receipt" PROVE FALSE
    BY <1>5, <2>1 DEF Running
  <2> QED
    BY <1>1, <2>1 DEF AfterBars
<1> QED
  BY <1>1, <1>4, <1>6, <1>7, <1>11, <1>12, <1>13 DEF GInv

(* A running call that ends: it fails, or its verdict agrees with the      *)
(* record for good and no node is behind.                                  *)
LEMMA Finishes ==
  ASSUME GInv, KInv', UNCHANGED chainVars, NEW c \in Calls, Running(c), NEW o, Finish(c, o),
         \/ o \in Throws
         \/ /\ \A n \in Nodes : Count(view[n]) = Committed
            /\ \/ o \in Refusals /\ NeverRecorded(c)
               \/ o = "Allowed" /\ Recorded(c)
  PROVE  GInv'
<1>1. /\ LedgerTightens' /\ UnmintedIsBlank' /\ SpentFollowsCount'
      /\ Heights' = Heights /\ Committed' = Committed /\ ledger' = ledger
      /\ view' = view /\ act' = act /\ fate' = fate
      /\ \A d \in Calls : (NeverRecorded(d)' <=> NeverRecorded(d))
                          /\ (Recorded(d)' <=> Recorded(d))
  BY LedgerStays
<1>2. TypeOK /\ ChainTypeOK
  BY ReadsHold DEF GInv, KInv
<1>3. \A d \in Calls : d # c => ~Running(d)
  BY DEF GInv, OneAtATime
<1>4. /\ \A d \in Calls : d # c => /\ pc'[d] = pc[d] /\ outcome'[d] = outcome[d]
                                   /\ since'[d] = since[d]
      /\ pc'[c] = "done" /\ outcome'[c] = o /\ since'[c] = NoRead
  BY <1>2 DEF TypeOK, Finish
<1>5. \A d \in Calls : ~Running(d)' /\ pc'[d] # "reading" /\ ~Frozen(d)' /\ pc'[d] # "receipt"
  BY <1>3, <1>4 DEF Running, Frozen
<1>6. OneAtATime' /\ Baseline' /\ AfterBars'
  BY <1>5 DEF OneAtATime, Baseline, AfterBars
<1>7. ReadsStarted'
  <2>1. \A n \in Nodes : NoRead[n] <= view[n]
    BY <1>2, ReadsHold DEF NoRead, Heights
  <2> QED
    BY <1>1, <1>4, <2>1 DEF GInv, ReadsStarted
<1>8. CaughtUp'
  <2>1. CASE o \in Throws
    BY <1>4, <2>1 DEF CaughtUp, NoThrow
  <2>2. CASE \A n \in Nodes : Count(view[n]) = Committed
    <3>1. \A n \in Nodes : Count(view[n])' = Committed'
      BY <1>1, <2>2 DEF Count
    <3> QED
      BY <3>1 DEF CaughtUp
  <2> QED
    BY <2>1, <2>2
<1>9. DeniedBarred' /\ AllowedSound'
  <2>1. Throws \cap Codes = {} /\ Refusals \subseteq Codes /\ "Allowed" \in Codes
        /\ "Allowed" \notin Refusals
    BY DEF Throws, Refusals, Codes, EnforcementCode
  <2> QED
    BY <1>1, <1>4, <2>1 DEF GInv, DeniedBarred, AllowedSound
<1> QED
  BY <1>1, <1>6, <1>7, <1>8, <1>9 DEF GInv

-----------------------------------------------------------------------------
(* A call starts: every node shows what is committed.                      *)
LEMMA EnforceKeeps ==
  ASSUME GInv, KInv', NEW c \in Calls, Enforce(c)
  PROVE  GInv'
<1>1. TypeOK /\ ChainTypeOK
  BY ReadsHold DEF GInv, KInv
<1>2. UNCHANGED chainVars /\ outcome' = outcome /\ after' = after
  BY DEF Enforce, Goto
<1>3. /\ LedgerTightens' /\ UnmintedIsBlank' /\ SpentFollowsCount'
      /\ Heights' = Heights /\ Committed' = Committed /\ ledger' = ledger
      /\ view' = view /\ act' = act /\ fate' = fate
      /\ \A d \in Calls : (NeverRecorded(d)' <=> NeverRecorded(d))
                          /\ (Recorded(d)' <=> Recorded(d))
  BY <1>2, LedgerStays
<1>4. NoThrow /\ \A d \in Calls : ~Running(d)
  <2>1. MayStart
    BY DEF Enforce
  <2>2. \A d \in Calls : pc[d] = "idle" => outcome[d] = "none"
    BY <1>1 DEF TypeOK, Finished
  <2> QED
    BY <2>1, <2>2 DEF MayStart, NoThrow, Running, Finished, Throws
<1>5. /\ \A d \in Calls : d # c => pc'[d] = pc[d] /\ since'[d] = since[d]
      /\ pc'[c] = "reading" /\ since'[c] = view
  BY <1>1 DEF TypeOK, Enforce, Goto, StartRead
<1>6. OneAtATime'
  BY <1>2, <1>4, <1>5 DEF OneAtATime, NoThrow, Running
<1>7. ReadsStarted'
  <2>1. \A n \in Nodes : view[n] \in Nat
    BY <1>1, ReadsHold, LedgerOf
  <2> QED
    BY <1>3, <1>5, <2>1 DEF GInv, ReadsStarted
<1>8. CaughtUp'
  BY <1>5 DEF CaughtUp, Running
<1>9. Baseline'
  <2>1. \A n \in Nodes : Count(since'[c][n]) = Committed
    BY <1>4, <1>5 DEF GInv, CaughtUp
  <2>2. \A n \in Nodes : Count(since[c][n])' = Committed'
    BY <1>3, <2>1 DEF Count
  <2>3. \A d \in Calls : ~Frozen(d)' /\ (d # c => pc'[d] # "reading")
    BY <1>4, <1>5 DEF Frozen, Running
  <2> QED
    BY <2>2, <2>3 DEF Baseline
<1>10. DeniedBarred' /\ AllowedSound' /\ AfterBars'
  BY <1>2, <1>3, <1>4, <1>5 DEF GInv, DeniedBarred, AllowedSound, AfterBars, Running
<1> QED
  BY <1>3, <1>6, <1>7, <1>8, <1>9, <1>10 DEF GInv

(* Prejudge freezes what is committed, or denies for good.                 *)
LEMMA PrejudgeKeeps ==
  ASSUME OneNode, GInv, KInv', NEW c \in Calls, PrejudgeFields(c)
  PROVE  GInv'
<1>1. TypeOK /\ ChainTypeOK /\ LedgerTightens /\ pc[c] = "reading" /\ Running(c)
  BY ReadsHold DEF GInv, KInv, PrejudgeFields, Running
<1>2. UNCHANGED chainVars
  BY DEF PrejudgeFields
<1>3. ~Recorded(c)
  BY <1>1 DEF GInv, KInv, KeyedOnce, Recorded
<1>4. PICK seen \in SequentialReads(c) :
        LET code == GoPrejudge(seen, act[c])
        IN \/ /\ code = "NotFound"
              /\ baseline' = [baseline EXCEPT ![c] = seen]
              /\ Goto(c, "submitting")
              /\ UNCHANGED <<since, after, hash>>
           \/ /\ code = "Allowed"
              /\ baseline' = [baseline EXCEPT ![c] = seen]
              /\ StartRead(c)
              /\ Goto(c, "judging")
              /\ UNCHANGED <<after, hash>>
           \/ /\ code \notin {"NotFound", "Allowed"}
              /\ Finish(c, code)
  BY DEF PrejudgeFields
<1>5. /\ seen \in CapabilityRead /\ act[c] \in Action
      /\ GoPrejudge(seen, act[c]) \in Codes
  BY <1>1, SequentialType, ReadsHold, GoPrejudgeOf DEF TypeOK
<1>6. seen.actionCount = Committed /\ seen.totalSpent = Spent(Len(ledger))
  BY <1>1, SequentialOf, PreStateRead DEF Count, Spent
<1>7. ASSUME NEW label \in {"submitting", "judging"}, Goto(c, label),
             baseline' = [baseline EXCEPT ![c] = seen], after' = after,
             since' = since \/ StartRead(c)
      PROVE  GInv'
  <2>1. /\ \A d \in Calls : d # c => /\ pc'[d] = pc[d] /\ baseline'[d] = baseline[d]
                                     /\ after'[d] = after[d]
        /\ pc'[c] = label /\ baseline'[c] = seen /\ outcome' = outcome
    BY <1>1, <1>7 DEF TypeOK, Goto
  <2> QED
    BY <1>1, <1>2, <1>3, <1>6, <1>7, <2>1, GoesOn DEF Running
<1>8. ASSUME GoPrejudge(seen, act[c]) \notin {"NotFound", "Allowed"},
             Finish(c, GoPrejudge(seen, act[c]))
      PROVE  GInv'
  <2>1. PICK h4 \in Window(c) : \A r \in Heights : h4 <= r => Barred(ledger[r], act[c])
    BY <1>1, <1>8, ReadBars DEF Inconclusive
  <2>2. h4 \in Heights /\ h4 <= Len(ledger) /\ Len(ledger) \in Heights
    BY <1>1, ReadsHold, LedgerOf
  <2>3. NeverRecorded(c)
    BY <1>3, <2>1, <2>2 DEF NeverRecorded, Latest
  <2>4. GoPrejudge(seen, act[c]) \in Refusals
    BY <1>5, <1>8 DEF Refusals
  <2> QED
    BY <1>1, <1>2, <1>8, <2>3, <2>4, PreStateRead, Finishes
<1> QED
  BY <1>4, <1>7, <1>8

(* A confirmation starts anew, and a fault starts one or ends the call.    *)
LEMMA ConfirmKeeps ==
  ASSUME GInv, KInv', UNCHANGED chainVars, NEW c \in Calls, Frozen(c), Confirm(c)
  PROVE  GInv'
<1>1. TypeOK
  BY DEF GInv, KInv
<1>2. /\ \A d \in Calls : d # c => pc'[d] = pc[d] /\ after'[d] = after[d]
      /\ pc'[c] = "confirming" /\ outcome' = outcome /\ baseline' = baseline
      /\ StartRead(c)
  BY <1>1 DEF TypeOK, Confirm, Goto
<1> QED
  BY <1>2, GoesOn DEF Frozen, Running

LEMMA AbortKeeps ==
  ASSUME GInv, KInv', UNCHANGED chainVars, NEW c \in Calls, Frozen(c), Abort(c)
  PROVE  GInv'
  BY ConfirmKeeps, Finishes DEF Abort, Frozen, Running, Throws

(* An operation of a frozen call that goes on from the same reads.         *)
LEMMA LegKeeps ==
  ASSUME GInv, KInv', UNCHANGED chainVars, NEW c \in Calls, Frozen(c),
         NEW label \in {"submitting", "receipt", "naming"}, Goto(c, label),
         baseline' = baseline, since' = since \/ StartRead(c),
         NEW read \in CapabilityRead, after' = after \/ after' = [after EXCEPT ![c] = read],
         label = "receipt" =>
           /\ after' = [after EXCEPT ![c] = read]
           /\ GoPrejudge(read, act[c]) \notin Inconclusive => NeverRecorded(c)
  PROVE  GInv'
<1>1. TypeOK
  BY DEF GInv, KInv
<1>2. /\ \A d \in Calls : d # c => pc'[d] = pc[d] /\ after'[d] = after[d]
      /\ pc'[c] = label /\ outcome' = outcome
      /\ label = "receipt" => after'[c] = read
  BY <1>1 DEF TypeOK, Goto
<1> QED
  BY <1>2, GoesOn DEF Frozen, Running

(* Whatever a caller does.                                                 *)
LEMMA CallKeeps ==
  ASSUME OneNode, GInv, KInv', NEW c \in Calls, Call(c)
  PROVE  GInv'
<1>1. TypeOK /\ ChainTypeOK /\ UNCHANGED chainVars
  BY ReadsHold, CallMoves DEF GInv, KInv
<1>2. Unread \in CapabilityRead
  BY UnreadType
<1>3. "failed" \in Throws /\ "unsettled" \in Throws /\ "OutOfAllowlist" \in Refusals
  BY DEF Throws, Refusals, Codes, EnforcementCode
<1>4. CASE Enforce(c)
  BY <1>4, EnforceKeeps
<1>5. CASE PrejudgeFields(c)
  BY <1>5, PrejudgeKeeps
<1>6. ASSUME Frozen(c), AllowlistCode(c, "OutOfAllowlist"), Finish(c, "OutOfAllowlist")
      PROVE  GInv'
  <2>1. NeverRecorded(c)
    BY <1>6, ListStays
  <2>2. \A n \in Nodes : Count(view[n]) = Committed
    BY <1>6, <2>1, NothingMissed DEF NeverRecorded
  <2> QED
    BY <1>1, <1>3, <1>6, <2>1, <2>2, Finishes DEF Frozen, Running
<1>7. CASE JudgeAllowlist(c)
  BY <1>1, <1>2, <1>6, <1>7, LegKeeps DEF JudgeAllowlist, Frozen
<1>8. CASE SubmitAccepted(c)
  BY <1>1, <1>8, ConfirmKeeps DEF SubmitAccepted, Frozen
<1>9. CASE SubmitUnheard(c) \/ SubmitRejected(c)
  BY <1>1, <1>9, AbortKeeps DEF SubmitUnheard, SubmitRejected, Frozen
<1>10. CASE ConfirmRead(c)
  <2>1. pc[c] = "confirming" /\ Frozen(c) /\ Running(c)
    BY <1>10 DEF ConfirmRead, Frozen, Running
  <2>2. PICK seen \in SequentialReads(c) :
          \/ Delta(c, seen) /\ Finish(c, "Allowed")
          \/ /\ ~Delta(c, seen)
             /\ Goto(c, "submitting")
             /\ UNCHANGED <<baseline, after, since, hash>>
          \/ /\ ~Delta(c, seen)
             /\ after' = [after EXCEPT ![c] = seen]
             /\ Goto(c, "receipt")
             /\ UNCHANGED <<baseline, since, hash>>
    BY <1>10 DEF ConfirmRead
  <2>3. seen \in CapabilityRead
    BY <1>1, SequentialType DEF TypeOK
  <2>4. CASE Delta(c, seen) /\ Finish(c, "Allowed")
    BY <1>1, <2>1, <2>4, DeltaIsOwn, Finishes
  <2>5. CASE Goto(c, "submitting") /\ UNCHANGED <<baseline, after, since, hash>>
    BY <1>1, <2>1, <2>3, <2>5, LegKeeps
  <2>6. CASE /\ ~Delta(c, seen)
             /\ after' = [after EXCEPT ![c] = seen]
             /\ Goto(c, "receipt")
             /\ UNCHANGED <<baseline, since, hash>>
    <3>1. GoPrejudge(seen, act[c]) \notin Inconclusive => NeverRecorded(c)
      BY <2>1, <2>6, RefusalStays
    <3> QED
      BY <1>1, <2>1, <2>3, <2>6, <3>1, LegKeeps
  <2> QED
    BY <2>2, <2>4, <2>5, <2>6
<1>11. CASE ReceiptFound(c)
  <2>1. pc[c] = "receipt" /\ Frozen(c) /\ Running(c)
    BY <1>11 DEF ReceiptFound, Frozen, Running
  <2>2. CASE ReceiptFailed(c)
    BY <1>1, <1>2, <1>3, <2>1, <2>2, LegKeeps, Finishes DEF ReceiptFailed
  <2>3. CASE ReceiptSuccess(c)
    <3>1. CASE StartRead(c) /\ Goto(c, "naming") /\ UNCHANGED <<baseline, after, hash>>
      BY <1>1, <1>2, <2>1, <3>1, LegKeeps
    <3>2. CASE Confirm(c)
      BY <1>1, <2>1, <3>2, ConfirmKeeps
    <3>3. CASE /\ GoPrejudge(after[c], act[c]) \notin Inconclusive
               /\ Finish(c, GoPrejudge(after[c], act[c]))
      <4>1. NeverRecorded(c)
        BY <2>1, <3>3 DEF GInv, AfterBars
      <4>2. GoPrejudge(after[c], act[c]) \in Refusals
        <5>1. after[c] \in CapabilityRead /\ act[c] \in Action
          BY <1>1, ReadsHold DEF TypeOK
        <5> QED
          BY <3>3, <5>1, GoPrejudgeOf DEF Refusals, Inconclusive
      <4>3. \A n \in Nodes : Count(view[n]) = Committed
        BY <2>1, <4>1, NothingMissed DEF NeverRecorded
      <4> QED
        BY <1>1, <2>1, <3>3, <4>1, <4>2, <4>3, Finishes
    <3> QED
      BY <2>3, <3>1, <3>2, <3>3 DEF ReceiptSuccess
  <2> QED
    BY <1>11, <2>2, <2>3 DEF ReceiptFound
<1>12. CASE ReceiptUnknown(c)
  BY <1>1, <1>12, ConfirmKeeps DEF ReceiptUnknown, Frozen
<1>13. CASE NameAllowlist(c)
  BY <1>1, <1>6, <1>13, ConfirmKeeps DEF NameAllowlist, Frozen
<1>14. CASE Deadline(c)
  BY <1>1, <1>3, <1>14, Finishes DEF Deadline, Running
<1>15. CASE ReadFails(c)
  BY <1>1, <1>3, <1>15, AbortKeeps, Finishes DEF ReadFails, Running, Frozen
<1>16. CASE Crash(c)
  BY <1>1, <1>16, ConfirmKeeps DEF Crash, Frozen
<1> QED
  BY <1>4, <1>5, <1>7, <1>8, <1>9, <1>10, <1>11, <1>12, <1>13, <1>14, <1>15, <1>16 DEF Call

-----------------------------------------------------------------------------
(* A tighter state is committed.                                           *)
LEMMA TightCommit ==
  ASSUME ChainTypeOK, LedgerTightens, UnmintedIsBlank,
         NEW cap \in CapabilityState, Commit(cap), Tighter(Latest, cap), cap.status # "NotFound"
  PROVE  /\ LedgerTightens' /\ UnmintedIsBlank'
         /\ Len(ledger') = Len(ledger) + 1
         /\ Heights' = Heights \cup {Len(ledger) + 1}
         /\ Latest' = cap /\ Committed' = cap.actionCount
         /\ ledger'[Len(ledger) + 1] = cap
         /\ \A h \in Heights : ledger'[h] = ledger[h]
<1>1. /\ Len(ledger') = Len(ledger) + 1 /\ Len(ledger) \in Nat \ {0}
      /\ ledger'[Len(ledger) + 1] = cap
      /\ \A h \in Heights : ledger'[h] = ledger[h]
  BY CommitAppends
<1>2. Heights' = Heights \cup {Len(ledger) + 1}
  BY <1>1 DEF Heights
<1>3. Latest' = cap /\ Committed' = cap.actionCount
  BY <1>1 DEF Latest, Committed, Count
<1>4. Latest \in CapabilityState /\ \A h \in Heights : ledger[h] \in CapabilityState
  BY LatestType, LedgerOf
<1>5. \A h \in Heights : Tighter(ledger[h], cap)
  BY <1>4, LatestTightest, TighterLasts
<1>6. Tighter(cap, cap)
  BY DEF Tighter, CapabilityState
<1>7. \A i, j \in Heights' : i <= j => Tighter(ledger'[i], ledger'[j])
  <2>1. ASSUME NEW i \in Heights', NEW j \in Heights', i <= j
        PROVE  Tighter(ledger'[i], ledger'[j])
    <3>1. \A h \in Heights : h \in Nat /\ h <= Len(ledger)
      BY LedgerOf
    <3>2. j \in Heights => i \in Heights
      BY <1>1, <1>2, <2>1, <3>1
    <3>3. CASE j \in Heights
      BY <1>1, <2>1, <3>2, <3>3 DEF LedgerTightens
    <3>4. CASE j = Len(ledger) + 1
      BY <1>1, <1>2, <1>5, <1>6, <2>1, <3>4
    <3> QED
      BY <1>2, <2>1, <3>3, <3>4
  <2> QED
    BY <2>1
<1>8. LedgerTightens'
  BY <1>7 DEF LedgerTightens
<1>9. UnmintedIsBlank'
  BY <1>1, <1>2 DEF UnmintedIsBlank
<1> QED
  BY <1>1, <1>2, <1>3, <1>8, <1>9

(* The principal's commits leave the counts, and what is denied barred.    *)
LEMMA PrincipalKeeps ==
  ASSUME GInv, KInv', Principal, Tightens, UNCHANGED callVars
  PROVE  GInv'
<1>1. TypeOK /\ ChainTypeOK /\ LedgerTightens /\ UnmintedIsBlank
  BY ReadsHold DEF GInv, KInv
<1>2. PICK cap \in CapabilityState :
        /\ Commit(cap) /\ UNCHANGED <<view, fate, act>>
        /\ Tighter(Latest, cap)
        /\ cap.actionCount = Latest.actionCount
        /\ cap.totalSpent = Latest.totalSpent
        /\ cap.status # "NotFound"
  BY <1>1, PrincipalTightens
<1> DEFINE new == Len(ledger) + 1
<1>3. /\ LedgerTightens' /\ UnmintedIsBlank'
      /\ Len(ledger') = new /\ Heights' = Heights \cup {new}
      /\ Latest' = cap /\ Committed' = cap.actionCount
      /\ ledger'[new] = cap
      /\ \A h \in Heights : ledger'[h] = ledger[h]
  BY <1>1, <1>2, TightCommit
<1>4. /\ Len(ledger) \in Nat \ {0} /\ Len(ledger) \in Heights /\ new \notin Heights
      /\ \A h \in Heights : h \in Nat /\ h <= Len(ledger)
  BY <1>1, LedgerOf
<1> HIDE DEF new
<1>5. /\ ledger'[new].actionCount = Committed /\ ledger'[new].totalSpent = Spent(Len(ledger))
      /\ Committed' = Committed /\ Spent(Len(ledger))' = Spent(Len(ledger))
  BY <1>2, <1>3 DEF Count, Spent, Committed, Latest
<1>6. \A h \in Heights : /\ ledger'[h].actionCount = Count(h)
                         /\ ledger'[h].totalSpent = Spent(h)
  BY <1>3 DEF Count, Spent
<1>7. /\ pc' = pc /\ baseline' = baseline /\ after' = after /\ since' = since
      /\ outcome' = outcome /\ view' = view /\ act' = act /\ fate' = fate
  BY <1>2 DEF callVars
<1>8. SpentFollowsCount'
  <2>1. ASSUME NEW i \in Heights', NEW j \in Heights', ledger'[i].actionCount = ledger'[j].actionCount
        PROVE  ledger'[i].totalSpent = ledger'[j].totalSpent
    <3>1. \A h \in Heights' :
            \E k \in Heights : /\ ledger'[h].actionCount = ledger[k].actionCount
                               /\ ledger'[h].totalSpent = ledger[k].totalSpent
      BY <1>2, <1>3, <1>4 DEF Latest
    <3> QED
      BY <2>1, <3>1 DEF GInv, SpentFollowsCount, Count, Spent
  <2> QED
    BY <2>1 DEF SpentFollowsCount, Count, Spent
<1>9. OneAtATime' /\ ReadsStarted' /\ AllowedSound'
  BY <1>7 DEF GInv, OneAtATime, ReadsStarted, AllowedSound, NoThrow, Running, Recorded
<1>10. CaughtUp'
  <2>1. \A n \in Nodes : ledger'[view'[n]].actionCount = Count(view[n])
    BY <1>1, <1>6, <1>7 DEF ChainTypeOK
  <2> QED
    BY <1>5, <1>7, <2>1 DEF GInv, CaughtUp, NoThrow, Running, Count
<1>11. \A c \in Calls : (NeverRecorded(c) => NeverRecorded(c)')
  <2>1. ASSUME NEW c \in Calls, NeverRecorded(c) PROVE NeverRecorded(c)'
    <3>1. Barred(cap, act[c])
      BY <1>1, <1>2, <2>1, LatestType, ReadsHold, BarredLasts DEF NeverRecorded
    <3> QED
      BY <1>3, <1>7, <2>1, <3>1 DEF NeverRecorded, Recorded
  <2> QED
    BY <2>1
<1>12. DeniedBarred' /\ AfterBars'
  BY <1>7, <1>11 DEF GInv, DeniedBarred, AfterBars
<1>13. Baseline'
  <2>1. \A c \in Calls, n \in Nodes :
          ledger'[since'[c][n]].actionCount = Count(since[c][n])
    BY <1>1, <1>6, <1>7, ReadsHold
  <2>2. ASSUME NEW c \in Calls, NEW r \in Heights, PassedAt(c, r)
        PROVE  \E q \in Heights' : PassedAt(c, q)'
    <3>1. /\ r < Len(ledger')
          /\ ledger'[r].actionCount = baseline'[c].actionCount
          /\ ledger'[r].totalSpent = baseline'[c].totalSpent
          /\ ContractRefusals(ledger'[r], act'[c]) = {}
      BY <1>3, <1>4, <1>6, <1>7, <2>2 DEF PassedAt, Count, Spent, new
    <3>2. ASSUME NEW h \in Heights', h > r
          PROVE  /\ ledger'[h].actionCount = baseline'[c].actionCount + 1
                 /\ ledger'[h].totalSpent = baseline'[c].totalSpent + act'[c].amount
      <4>1. Len(ledger) > r
        BY <1>4, <2>2 DEF PassedAt
      <4>2. CASE h \in Heights
        BY <1>3, <1>7, <2>2, <3>2, <4>2 DEF PassedAt, Count, Spent
      <4>3. CASE h = new
        BY <1>2, <1>3, <1>4, <1>7, <2>2, <4>1, <4>3 DEF PassedAt, Count, Spent, Latest
      <4> QED
        BY <1>3, <3>2, <4>2, <4>3
    <3> QED
      BY <1>3, <3>1, <3>2 DEF PassedAt, Count, Spent
  <2> QED
    BY <1>3, <1>5, <1>7, <2>1, <2>2 DEF GInv, Baseline, Frozen, Recorded, Count
<1> QED
  BY <1>3, <1>8, <1>9, <1>10, <1>12, <1>13 DEF GInv

-----------------------------------------------------------------------------
(* The record of an action is the running operation's own, or that of a    *)
(* call that has thrown.                                                   *)
LEMMA RecordKeeps ==
  ASSUME GInv, KInv', UNCHANGED callVars, UNCHANGED <<view, act>>, NEW c \in Calls,
         \E k \in DOMAIN tx[c] : tx[c][k] = "mempool",
         ~Recorded(c), \A d \in Calls : Recorded(d)' <=> Recorded(d) \/ d = c,
         ContractRefusals(Latest, act[c]) = {}, Commit(RecordAction(Latest, act[c]))
  PROVE  GInv'
<1> DEFINE cap == RecordAction(Latest, act[c])
           new == Len(ledger) + 1
<1>1. TypeOK /\ ChainTypeOK /\ LedgerTightens /\ UnmintedIsBlank
  BY ReadsHold DEF GInv, KInv
<1>2. /\ Latest \in CapabilityState /\ act[c].amount \in Nat
      /\ cap \in CapabilityState
      /\ cap.actionCount = Committed + 1
      /\ cap.totalSpent = Spent(Len(ledger)) + act[c].amount
      /\ cap.status = Latest.status
      /\ Tighter(Latest, cap)
  <2>1. Latest \in CapabilityState /\ act[c].amount \in Nat
    BY <1>1, ReadsHold, LatestType DEF Action
  <2> QED
    BY <2>1, RecordActionKeeps, RecordTightens DEF Committed, Count, Spent, Latest
<1>3. cap.status # "NotFound"
  BY <1>2, RefusalsOf
<1>4. Commit(cap)
  OBVIOUS
<1> HIDE DEF cap
<1>5. /\ LedgerTightens' /\ UnmintedIsBlank'
      /\ Len(ledger') = new /\ Heights' = Heights \cup {new}
      /\ Latest' = cap /\ Committed' = cap.actionCount
      /\ ledger'[new] = cap
      /\ \A h \in Heights : ledger'[h] = ledger[h]
  BY <1>1, <1>2, <1>3, <1>4, TightCommit
<1>6. /\ Len(ledger) \in Nat \ {0} /\ Len(ledger) \in Heights /\ new \notin Heights
      /\ \A h \in Heights : h \in Nat /\ h <= Len(ledger) /\ h < new
      /\ Committed \in Nat
      /\ \A h \in Heights : Count(h) \in Nat /\ Count(h) <= Committed
  BY <1>1, LedgerOf, LatestTightest DEF Committed
<1> HIDE DEF new
<1>7. \A h \in Heights : /\ ledger'[h].actionCount = Count(h)
                         /\ ledger'[h].totalSpent = Spent(h)
  BY <1>5 DEF Count, Spent
<1>8. /\ pc' = pc /\ baseline' = baseline /\ after' = after /\ since' = since
      /\ outcome' = outcome /\ view' = view /\ act' = act
  BY DEF callVars
<1>9. tx[c] # <<>> /\ outcome[c] \notin Refusals \cup {"Allowed"} /\ ~NeverRecorded(c)
  <2>1. tx[c] # <<>>
    OBVIOUS
  <2>2. ~NeverRecorded(c)
    BY BarredRefused DEF NeverRecorded
  <2> QED
    BY <2>1, <2>2 DEF GInv, DeniedBarred, AllowedSound
<1>10. Frozen(c) \/ outcome[c] \in Throws
  <2>1. pc[c] \notin {"idle", "reading"}
    BY <1>9 DEF GInv, KInv, KeyedOnce
  <2>2. pc[c] = "done" => outcome[c] \in Throws
    BY <1>1, <1>9 DEF TypeOK, Finished, Refusals
  <2> QED
    BY <1>1, <2>1, <2>2 DEF TypeOK, Frozen
<1>11. ASSUME NEW d \in Calls, d # c PROVE ~Running(d)
  BY <1>10, <1>11 DEF GInv, OneAtATime, NoThrow, Running, Frozen
<1>12. SpentFollowsCount'
  <2>1. ASSUME NEW i \in Heights', NEW j \in Heights', ledger'[i].actionCount = ledger'[j].actionCount
        PROVE  ledger'[i].totalSpent = ledger'[j].totalSpent
    <3>1. \A h \in Heights : ledger'[h].actionCount # Committed + 1
      BY <1>6, <1>7
    <3>2. CASE i \in Heights /\ j \in Heights
      BY <1>7, <2>1, <3>2 DEF GInv, SpentFollowsCount
    <3>3. CASE i = new \/ j = new
      BY <1>2, <1>5, <2>1, <3>1, <3>3
    <3> QED
      BY <1>5, <2>1, <3>2, <3>3
  <2> QED
    BY <2>1 DEF SpentFollowsCount, Count, Spent
<1>13. OneAtATime' /\ ReadsStarted' /\ AllowedSound'
  BY <1>8 DEF GInv, OneAtATime, ReadsStarted, AllowedSound, NoThrow, Running
<1>14. CaughtUp'
  BY <1>8, <1>10 DEF CaughtUp, NoThrow, Running, Frozen
<1>15. \A d \in Calls : NeverRecorded(d) => NeverRecorded(d)'
  <2>1. ASSUME NEW d \in Calls, NeverRecorded(d) PROVE NeverRecorded(d)'
    <3>1. Barred(cap, act[d])
      BY <1>1, <1>2, <2>1, ReadsHold, BarredLasts DEF NeverRecorded
    <3> QED
      BY <1>5, <1>8, <1>9, <2>1, <3>1 DEF NeverRecorded
  <2> QED
    BY <2>1
<1>16. DeniedBarred' /\ AfterBars'
  BY <1>8, <1>15 DEF GInv, DeniedBarred, AfterBars
<1>17. ASSUME Frozen(c)
       PROVE  /\ \A n \in Nodes : ledger'[since'[c][n]].actionCount >= baseline'[c].actionCount
              /\ \E r \in Heights' : PassedAt(c, r)'
  <2>1. /\ Committed = baseline[c].actionCount
        /\ Spent(Len(ledger)) = baseline[c].totalSpent
        /\ \A n \in Nodes : Count(since[c][n]) >= baseline[c].actionCount
    BY <1>17 DEF GInv, Baseline
  <2>2. \A n \in Nodes : ledger'[since'[c][n]].actionCount >= baseline'[c].actionCount
    BY <1>1, <1>7, <1>8, <2>1, ReadsHold
  <2>3. PICK r \in Heights' :
        /\ r = Len(ledger) /\ r < Len(ledger')
        /\ ledger'[r].actionCount = baseline'[c].actionCount
        /\ ledger'[r].totalSpent = baseline'[c].totalSpent
        /\ ledger'[r] = Latest
    BY <1>5, <1>6, <1>7, <1>8, <2>1 DEF Committed, Latest
  <2>4. \A h \in Heights' : h > r => h = new
    BY <1>5, <1>6, <2>3
  <2>5. /\ ledger'[new].actionCount = baseline'[c].actionCount + 1
        /\ ledger'[new].totalSpent = baseline'[c].totalSpent + act'[c].amount
    BY <1>2, <1>5, <1>8, <2>1
  <2>6. PassedAt(c, r)'
    BY <1>5, <1>8, <2>3, <2>4, <2>5 DEF PassedAt, Count, Spent
  <2> QED
    BY <2>2, <2>3, <2>6
<1>18. Baseline'
  <2>1. ASSUME NEW d \in Calls PROVE pc'[d] # "reading" /\ (Frozen(d)' => d = c /\ Frozen(c))
    BY <1>8, <1>10, <1>11 DEF Running, Frozen, GInv, OneAtATime, NoThrow
  <2> QED
    BY <1>17, <2>1 DEF Baseline, Count
<1> QED
  BY <1>5, <1>12, <1>13, <1>14, <1>16, <1>18 DEF GInv

(* A node that catches up shows nothing that was not committed, and a      *)
(* transaction that writes nothing changes nothing.                        *)
LEMMA NothingWritten ==
  ASSUME GInv, KInv', UNCHANGED callVars, ledger' = ledger, act' = act,
         \A c \in Calls : Recorded(c)' <=> Recorded(c),
         \A n \in Nodes : view'[n] \in Heights /\ view[n] <= view'[n]
  PROVE  GInv'
<1>1. TypeOK /\ ChainTypeOK /\ LedgerTightens
  BY ReadsHold DEF GInv, KInv
<1>2. /\ pc' = pc /\ baseline' = baseline /\ after' = after /\ since' = since
      /\ outcome' = outcome /\ act' = act
  BY DEF callVars
<1>3. Heights' = Heights /\ Latest' = Latest /\ Committed' = Committed
  BY DEF Heights, Latest, Committed, Count
<1>4. LedgerTightens' /\ UnmintedIsBlank' /\ SpentFollowsCount'
  BY <1>3 DEF GInv, LedgerTightens, UnmintedIsBlank, SpentFollowsCount, Count, Spent
<1>5. \A c \in Calls : NeverRecorded(c)' <=> NeverRecorded(c)
  BY <1>2, <1>3 DEF NeverRecorded
<1>6. OneAtATime' /\ DeniedBarred' /\ AfterBars' /\ AllowedSound'
  BY <1>2, <1>5 DEF GInv, OneAtATime, DeniedBarred, AfterBars, AllowedSound, NoThrow, Running
<1>7. ReadsStarted'
  <2>1. ASSUME NEW c \in Calls, NEW n \in Nodes PROVE since'[c][n] <= view'[n]
    <3>1. since[c][n] \in Nat /\ view[n] \in Nat /\ view'[n] \in Nat
      BY <1>1, <2>1, ReadsHold, LedgerOf
    <3> QED
      BY <1>2, <3>1 DEF GInv, ReadsStarted
  <2> QED
    BY <2>1 DEF ReadsStarted
<1>8. CaughtUp'
  <2>1. ASSUME NEW n \in Nodes, Count(view[n]) = Committed PROVE Count(view'[n]) = Committed
    <3>1. view[n] \in Heights /\ view'[n] \in Heights /\ view[n] <= view'[n]
      BY <1>1 DEF ChainTypeOK
    <3>2. Count(view[n]) <= Count(view'[n]) /\ Count(view'[n]) <= Committed
      BY <1>1, <3>1, LatestTightest DEF LedgerTightens, Tighter, Count
    <3> QED
      BY <1>1, <2>1, <3>1, <3>2, LedgerOf DEF Committed
  <2> QED
    BY <1>2, <1>3, <2>1 DEF GInv, CaughtUp, NoThrow, Running, Count
<1>9. Baseline'
  BY <1>2, <1>3 DEF GInv, Baseline, Frozen, PassedAt, Count, Spent
<1> QED
  BY <1>4, <1>6, <1>7, <1>8, <1>9 DEF GInv

(* What the chain does to the nodes.                                       *)
LEMMA ViewsGrow ==
  ASSUME ChainTypeOK, Chain, ledger' = ledger
  PROVE  \A n \in Nodes : view'[n] \in Heights /\ view[n] <= view'[n]
<1>1. \A n \in Nodes : view[n] \in Heights /\ view[n] <= view[n]
  BY DEF ChainTypeOK, Heights
<1>2. CASE view' = view
  BY <1>1, <1>2
<1>3. ASSUME NEW m \in Nodes, Replicate(m)
      PROVE  \A n \in Nodes : view'[n] \in Heights /\ view[n] <= view'[n]
  <2>1. PICK h \in Heights : h > view[m] /\ view' = [view EXCEPT ![m] = h]
    BY <1>3 DEF Replicate
  <2>2. view \in [Nodes -> Heights] /\ h \in Nat /\ view[m] \in Nat
    BY LedgerOf DEF ChainTypeOK
  <2> QED
    BY <1>1, <2>1, <2>2
<1> QED
  BY <1>2, <1>3 DEF Chain, IncludeTx, ExecFails, Principal, Mint, ChangeLimits, Revoke, Allow,
                    chainVars

(* Every step keeps the invariant, when the principal tightens.            *)
LEMMA NextGInv ==
  ASSUME OneNode, GInv, [Next]_vars, Principal => Tightens
  PROVE  GInv'
<1>1. KInv /\ KInv' /\ TypeOK /\ ChainTypeOK
  BY NextType, NextKeyed, ReadsHold DEF GInv, KInv
<1>2. CASE UNCHANGED vars
  <2>1. \A n \in Nodes : view'[n] \in Heights /\ view[n] <= view'[n]
    BY <1>1, <1>2 DEF vars, chainVars, ChainTypeOK, Heights
  <2> QED
    BY <1>1, <1>2, <2>1, NothingWritten DEF vars, chainVars, Recorded
<1>3. ASSUME NEW c \in Calls, Call(c) PROVE GInv'
  BY <1>1, <1>3, CallKeeps
<1>4. CASE Chain
  <2>1. act' = act /\ UNCHANGED callVars
    BY <1>1, <1>4, GoCommits
  <2>2. CASE ledger' = ledger /\ \A c \in Calls : Recorded(c)' <=> Recorded(c)
    BY <1>1, <1>4, <2>1, <2>2, ViewsGrow, NothingWritten
  <2>3. CASE Principal
    BY <1>1, <2>1, <2>3, PrincipalKeeps
  <2>4. CASE \E c \in Calls :
               /\ \E k \in DOMAIN tx[c] : tx[c][k] = "mempool"
               /\ ~Recorded(c)
               /\ \A d \in Calls : Recorded(d)' <=> Recorded(d) \/ d = c
               /\ ContractRefusals(Latest, act[c]) = {}
               /\ Commit(RecordAction(Latest, act[c]))
               /\ view' = view
    BY <1>1, <2>1, <2>4, RecordKeeps
  <2> QED
    BY <1>1, <1>4, <2>2, <2>3, <2>4, GoCommits
<1> QED
  BY <1>2, <1>3, <1>4 DEF Next

-----------------------------------------------------------------------------
(* A step that the principal's discipline allows.                          *)
LEMMA TightStep ==
  ASSUME OneNode, GInv, [Next]_vars, [Tightens]_vars
  PROVE  GInv'
<1>1. ChainTypeOK /\ Latest \in CapabilityState
  BY ReadsHold, LatestType DEF GInv, KInv
<1>2. UNCHANGED vars => Tightens
  BY <1>1 DEF vars, chainVars, Tightens, Latest, CapabilityState
<1> QED
  BY <1>2, NextGInv

(* Initially no call has started.                                          *)
LEMMA InitGInv == Init => GInv
<1> SUFFICES ASSUME Init PROVE GInv
  OBVIOUS
<1>1. KInv /\ ChainTypeOK
  BY InitKeyed, ReadsHold DEF KInv
<1>2. PICK cap \in Capabilities : ledger = <<cap>>
  BY DEF Init, ChainInit
<1>3. cap \in CapabilityState /\ Len(ledger) = 1 /\ Heights = {1} /\ ledger[1] = cap
  BY <1>2, SubstrateAssumption DEF Heights
<1>4. Tighter(cap, cap)
  BY <1>3 DEF Tighter, CapabilityState
<1>5. LedgerTightens /\ UnmintedIsBlank /\ SpentFollowsCount
  BY <1>2, <1>3, <1>4, SubstrateAssumption DEF LedgerTightens, UnmintedIsBlank, SpentFollowsCount
<1>6. \A c \in Calls : pc[c] = "idle" /\ outcome[c] = "none"
  BY DEF Init
<1>7. ReadsStarted /\ CaughtUp
  BY <1>3 DEF Init, ChainInit, ReadsStarted, CaughtUp, NoRead, Committed
<1>8. "none" \notin Refusals /\ "none" \notin Throws /\ "none" # "Allowed"
  BY DEF Refusals, Throws, Codes, EnforcementCode
<1>9. OneAtATime /\ Baseline /\ DeniedBarred /\ AfterBars /\ AllowedSound
  BY <1>6, <1>8 DEF OneAtATime, Baseline, DeniedBarred, AfterBars, AllowedSound, Running, Frozen
<1> QED
  BY <1>1, <1>5, <1>7, <1>9 DEF GInv

(* The delta that ConfirmEnforce attributes to its operation is that       *)
(* operation's: an action reported as allowed is recorded.                 *)
THEOREM AllowedRecorded ==
  ASSUME OneNode
  PROVE  Spec /\ [][Tightens]_vars => []AllowedSound
<1>1. Init => GInv
  BY InitGInv
<1>2. GInv /\ [Next]_vars /\ [Tightens]_vars => GInv'
  BY TightStep
<1>3. GInv => AllowedSound
  BY DEF GInv
<1> QED
  BY <1>1, <1>2, <1>3, PTL DEF Spec

(* ConfirmRefused is terminal: the action of a call that was denied is not *)
(* recorded, although a transaction of it may still be in a mempool.       *)
THEOREM DeniedForGood ==
  ASSUME OneNode
  PROVE  Spec /\ [][Tightens]_vars => []DeniedNeverCommits
<1>1. Init => GInv
  BY InitGInv
<1>2. GInv /\ [Next]_vars /\ [Tightens]_vars => GInv'
  BY TightStep
<1>3. GInv => DeniedNeverCommits
  BY DEF GInv, DeniedBarred, NeverRecorded, DeniedNeverCommits
<1> QED
  BY <1>1, <1>2, <1>3, PTL DEF Spec

(* What the chain does to the promise: it records the action of a call     *)
(* that has not returned a verdict, or nothing.                            *)
LEMMA ChainPromise ==
  ASSUME GInv, Chain
  PROVE  \/ UNCHANGED <<Charged, outcome>>
         \/ \E c \in Calls : Promise!Record(c)
<1>1. TypeOK /\ outcome' = outcome
  BY GoCommits DEF GInv, KInv, callVars
<1>2. CASE \A c \in Calls : Recorded(c)' <=> Recorded(c)
  BY <1>1, <1>2 DEF Charged
<1>3. CASE Principal
  BY <1>1, <1>3 DEF Principal, Mint, ChangeLimits, Revoke, Allow, Charged, Recorded
<1>4. ASSUME NEW c \in Calls, ~Recorded(c), \A d \in Calls : Recorded(d)' <=> Recorded(d) \/ d = c,
             ContractRefusals(Latest, act[c]) = {}
      PROVE  Promise!Record(c)
  <2>1. outcome[c] \notin Refusals \cup {"Allowed"}
    BY <1>4, BarredRefused DEF GInv, DeniedBarred, NeverRecorded, AllowedSound
  <2>2. outcome[c] \in {"none"} \cup Throws
    BY <1>1, <2>1 DEF TypeOK, Refusals
  <2>3. c \notin Charged /\ Charged' = Charged \cup {c}
    BY <1>4 DEF Charged
  <2> QED
    BY <1>1, <2>2, <2>3 DEF Promise!Record, Charged
<1> QED
  BY <1>2, <1>3, <1>4, GoCommits DEF GInv

(* An operation of a caller ends its call, or leaves all outcomes.         *)
LEMMA CallOutcome ==
  ASSUME GInv, NEW c \in Calls, Call(c)
  PROVE  /\ Charged' = Charged
         /\ \/ outcome' = outcome
            \/ /\ outcome[c] = "none"
               /\ \E o : outcome' = [outcome EXCEPT ![c] = o]
<1>1. UNCHANGED chainVars /\ pc[c] # "done" /\ TypeOK
  BY CallMoves DEF GInv, KInv
<1>2. Charged' = Charged
  BY <1>1 DEF chainVars, Charged, Recorded
<1>3. outcome[c] = "none"
  BY <1>1 DEF TypeOK, Finished
<1>4. outcome' = outcome \/ \E o : outcome' = [outcome EXCEPT ![c] = o]
  <2> USE DEF Goto, Finish, Confirm
  <2>1. CASE Enforce(c) \/ PrejudgeFields(c) \/ JudgeAllowlist(c) \/ SubmitAccepted(c)
    BY <2>1 DEF Enforce, PrejudgeFields, JudgeAllowlist, SubmitAccepted
  <2>2. CASE SubmitUnheard(c) \/ SubmitRejected(c) \/ ReadFails(c) \/ Crash(c)
    BY <2>2 DEF SubmitUnheard, SubmitRejected, ReadFails, Crash, Abort
  <2>3. CASE ConfirmRead(c) \/ NameAllowlist(c) \/ Deadline(c) \/ ReceiptUnknown(c)
    BY <2>3 DEF ConfirmRead, NameAllowlist, Deadline, ReceiptUnknown
  <2>4. CASE ReceiptFound(c)
    BY <2>4 DEF ReceiptFound, ReceiptFailed, ReceiptSuccess
  <2> QED
    BY <2>1, <2>2, <2>3, <2>4 DEF Call
<1> QED
  BY <1>2, <1>3, <1>4

(* Each step of the phases is a step of the promise, or changes nothing it *)
(* speaks of.                                                              *)
LEMMA StepPromises ==
  ASSUME GInv, GInv', [Next]_vars
  PROVE  [Promise!Next]_<<Charged, outcome>>
<1>1. ASSUME NEW c \in Calls, Call(c), outcome' # outcome PROVE Promise!Next
  <2>1. Charged' = Charged /\ outcome[c] = "none"
    BY <1>1, CallOutcome
  <2>2. PICK o : outcome' = [outcome EXCEPT ![c] = o]
    BY <1>1, CallOutcome
  <2>3. outcome'[c] = o /\ o \in {"none"} \cup Codes \cup Throws
    <3>1. outcome \in [Calls -> {"none"} \cup Codes \cup Throws]
      BY DEF GInv, KInv, TypeOK
    <3>2. outcome' \in [Calls -> {"none"} \cup Codes \cup Throws]
      BY DEF GInv, KInv, TypeOK
    <3> QED
      BY <2>2, <3>1, <3>2
  <2>4. o # "none"
    <3>1. outcome \in [Calls -> {"none"} \cup Codes \cup Throws]
      BY DEF GInv, KInv, TypeOK
    <3> QED
      BY <1>1, <2>1, <2>2, <3>1
  <2>5. Promise!Return(c, o)
    BY <2>1, <2>2 DEF Promise!Return, Charged
  <2>6. CASE o = "Allowed"
    <3>1. c \in Charged
      BY <2>1, <2>3, <2>6 DEF GInv, AllowedSound, Charged
    <3> QED
      BY <2>5, <2>6, <3>1 DEF Promise!Next, Promise!ReturnAllowed, Charged
  <2>7. CASE o \in Refusals
    <3>1. c \notin Charged
      BY <2>1, <2>3, <2>7 DEF GInv, DeniedBarred, NeverRecorded, Charged
    <3> QED
      BY <2>5, <2>7, <3>1 DEF Promise!Next, Promise!ReturnDenied, Charged
  <2>8. CASE o \in Throws
    BY <2>5, <2>8 DEF Promise!Next, Promise!GiveUp
  <2> QED
    BY <2>3, <2>4, <2>6, <2>7, <2>8 DEF Refusals
<1>2. ASSUME NEW c \in Calls, Call(c), outcome' = outcome PROVE UNCHANGED <<Charged, outcome>>
  BY <1>2, CallOutcome
<1>3. ASSUME Chain PROVE [Promise!Next]_<<Charged, outcome>>
  BY <1>3, ChainPromise DEF Promise!Next
<1>4. CASE UNCHANGED vars
  BY <1>4 DEF vars, chainVars, callVars, Charged, Recorded
<1> QED
  BY <1>1, <1>2, <1>3, <1>4 DEF Next

(* The Go phases implement the promise of enforce: outcomes and recorded   *)
(* actions never contradict each other, whichever comes first, through     *)
(* crashes and resubmissions.                                              *)
THEOREM ImplementsPromise ==
  ASSUME OneNode
  PROVE  Spec /\ [][Tightens]_vars => KeepsPromise
<1>1. Init => GInv
  BY InitGInv
<1>2. GInv /\ [Next]_vars /\ [Tightens]_vars => GInv'
  BY TightStep
<1>3. Init => Promise!Init
  BY DEF Init, ChainInit, Promise!Init, Recorded
<1>4. GInv /\ GInv' /\ [Next]_vars => [Promise!Next]_<<Charged, outcome>>
  BY StepPromises
<1> QED
  BY <1>1, <1>2, <1>3, <1>4, PTL DEF Spec, KeepsPromise, Promise!Spec, Promise!promiseVars, Charged

-----------------------------------------------------------------------------
(* No doomed transaction.                                                  *)

AllBound == \A a \in Actions : a.bound

(* While the principal does nothing, only the totals change; an action     *)
(* that got past prejudge fits in the budget until it is recorded, because *)
(* nothing else is; and the operations end with the first that throws.     *)
Untouched ==
  \A h \in Heights :
    /\ ledger[h].status = Latest.status
    /\ ledger[h].maxSpend = Latest.maxSpend
    /\ ledger[h].validUntil = Latest.validUntil
    /\ ledger[h].allowlist = Latest.allowlist

Late(c) == pc[c] \in {"submitting", "confirming", "receipt", "naming"} \/ tx[c] # <<>>

Fitting(c) ==
  Latest.status # "NotFound" /\ ~Overflows(c) /\ ~Recorded(c) =>
    /\ pc[c] = "judging" => ContractRefusals(Latest, act[c]) \subseteq {"OutOfAllowlist"}
    /\ Late(c) => ContractRefusals(Latest, act[c]) = {}

Fits == \A c \in Calls : Fitting(c)

OneThrow == \A c, d \in Calls : outcome[c] \in Throws /\ outcome[d] \in Throws => c = d

Quiet == GInv /\ Untouched /\ Fits /\ OneThrow

QInv ==
  /\ KInv
  /\ IsFiniteSet(Charged)
  /\ PrincipalCommits >= 0
  /\ PrincipalCommits = 0 => Quiet
  /\ NoDoomedTransaction

(* Whose transaction is decided, and how.                                  *)
LEMMA Decides ==
  ASSUME KInv, [Next]_vars, NEW c \in Calls, fate'[c] # fate[c]
  PROVE  \/ fate'[c] = "Allowed"
         \/ /\ ledger' = ledger
            /\ tx[c] # <<>> /\ ~Recorded(c)
            /\ fate'[c] = ContractCode(Latest, act[c])
<1>1. TypeOK /\ fate \in [Calls -> {"none", "mempool"} \cup Codes]
  BY DEF KInv, TypeOK, ChainTypeOK
<1>2. ASSUME NEW d \in Calls, Call(d) PROVE FALSE
  BY <1>2, CallMoves DEF chainVars
<1>3. CASE UNCHANGED vars
  BY <1>3 DEF vars, chainVars
<1>4. CASE Chain
  <2>1. PICK d \in Calls : \E k \in DOMAIN tx[d] : IncludeTx(d, k)
    BY <1>4 DEF Chain, ExecFails, chainVars, Principal, Mint, ChangeLimits, Revoke, Allow, Replicate
  <2>2. PICK k \in DOMAIN tx[d] : IncludeTx(d, k)
    BY <2>1
  <2>3. tx[d][k] = "mempool" /\ tx[d] # <<>>
    BY <2>2 DEF IncludeTx
  <2>4. ActionID(d, k) \notin keys => ~Recorded(d)
    BY <2>3 DEF KInv, KeyedOnce, ActionID
  <2>5. \/ fate' = fate
        \/ /\ ledger' = ledger /\ ActionID(d, k) \notin keys
           /\ fate' = [fate EXCEPT ![d] = ContractCode(Latest, act[d])]
        \/ fate' = [fate EXCEPT ![d] = "Allowed"]
    BY <1>1, <2>2, IncludesTx
  <2> QED
    BY <1>1, <2>3, <2>4, <2>5
<1> QED
  BY <1>2, <1>3, <1>4 DEF Next

(* Each commit is the principal's or records an action.                    *)
LEMMA CountsCommits ==
  ASSUME KInv, IsFiniteSet(Charged), PrincipalCommits >= 0, [Next]_vars
  PROVE  /\ IsFiniteSet(Charged')
         /\ PrincipalCommits' >= PrincipalCommits
         /\ Principal => PrincipalCommits' > 0
         /\ PrincipalCommits \in Nat /\ PrincipalCommits' \in Nat
<1>1. ChainTypeOK /\ Len(ledger) \in Nat \ {0}
  BY ReadsHold, LedgerOf DEF KInv
<1>2. Cardinality(Charged) \in Nat
  BY FS_CardinalityType
<1>3. /\ PrincipalCommits = Len(ledger) - 1 - Cardinality(Charged)
      /\ PrincipalCommits' = Len(ledger') - 1 - Cardinality(Charged')
  BY DEF PrincipalCommits, Charged
<1>4. \A cap : Commit(cap) => Len(ledger') = Len(ledger) + 1
  BY <1>1 DEF Commit, ChainTypeOK
<1>5. Principal => Len(ledger') = Len(ledger) + 1 /\ Charged' = Charged
  <2>1. ASSUME Principal PROVE fate' = fate /\ Len(ledger') = Len(ledger) + 1
    BY <1>4, <2>1 DEF Principal, Mint, ChangeLimits, Revoke, Allow
  <2> QED
    BY <2>1 DEF Charged, Recorded
<1>6. CASE ledger' = ledger /\ \A c \in Calls : Recorded(c)' <=> Recorded(c)
  <2>1. Charged' = Charged
    BY <1>6 DEF Charged
  <2> QED
    BY <1>1, <1>2, <1>3, <1>5, <1>6, <2>1
<1>7. CASE Principal
  BY <1>1, <1>2, <1>3, <1>5, <1>7
<1>8. ASSUME NEW c \in Calls, ~Recorded(c), \A d \in Calls : Recorded(d)' <=> Recorded(d) \/ d = c,
             Commit(RecordAction(Latest, act[c]))
      PROVE  /\ IsFiniteSet(Charged') /\ PrincipalCommits' = PrincipalCommits
             /\ Len(ledger') = Len(ledger) + 1 /\ Charged' # Charged
  <2>1. Charged' = Charged \cup {c} /\ c \notin Charged /\ Charged' # Charged
    BY <1>8 DEF Charged
  <2>2. IsFiniteSet(Charged') /\ Cardinality(Charged') = Cardinality(Charged) + 1
    BY <2>1, FS_AddElement
  <2> QED
    BY <1>1, <1>2, <1>3, <1>4, <1>8, <2>1, <2>2
<1>9. ASSUME NEW c \in Calls, Call(c)
      PROVE  ledger' = ledger /\ \A d \in Calls : Recorded(d)' <=> Recorded(d)
  BY <1>9, CallMoves DEF chainVars, Recorded
<1>10. UNCHANGED vars => ledger' = ledger /\ \A d \in Calls : Recorded(d)' <=> Recorded(d)
  BY DEF vars, chainVars, Recorded
<1>11. PrincipalCommits \in Nat
  BY <1>1, <1>2, <1>3
<1>12. CASE Chain
  BY <1>5, <1>6, <1>7, <1>8, <1>11, <1>12, GoCommits
<1> QED
  BY <1>6, <1>9, <1>10, <1>12 DEF Next

(* Nothing is committed: only the call that moves has to fit anew.         *)
LEMMA QuietLedger ==
  ASSUME Untouched, Fits, ledger' = ledger, act' = act,
         \A d \in Calls : Recorded(d)' <=> Recorded(d)
  PROVE  /\ Untouched'
         /\ \A d \in Calls :
              (Late(d)' => Late(d)) /\ (pc'[d] = "judging" => pc[d] = "judging") => Fitting(d)'
<1>1. Heights' = Heights /\ Latest' = Latest
  BY DEF Heights, Latest
<1>2. Untouched'
  BY <1>1 DEF Untouched
<1>3. ASSUME NEW d \in Calls, Late(d)' => Late(d), pc'[d] = "judging" => pc[d] = "judging"
      PROVE  Fitting(d)'
  <2>1. Overflows(d)' <=> Overflows(d)
    BY <1>1 DEF Overflows
  <2> QED
    BY <1>1, <1>3, <2>1 DEF Fitting, Fits
<1> QED
  BY <1>2, <1>3

(* An action gets past prejudge only if the fields allow it, and past the  *)
(* allowlist only if that does.                                            *)
LEMMA CallFits ==
  ASSUME AllBound, GInv, Untouched, Fits, NEW c \in Calls, Call(c)
  PROVE  Fitting(c)'
<1>1. TypeOK /\ ChainTypeOK /\ LedgerTightens /\ act[c] \in Actions /\ act[c] \in Action
  BY ReadsHold DEF GInv, KInv, ChainTypeOK
<1>2. UNCHANGED chainVars /\ KInv
  BY CallMoves DEF GInv
<1>3. /\ ledger' = ledger /\ act' = act /\ Latest' = Latest /\ Heights' = Heights
      /\ (Recorded(c)' <=> Recorded(c)) /\ (Overflows(c)' <=> Overflows(c))
  BY <1>2 DEF chainVars, Latest, Heights, Recorded, Overflows
<1> SUFFICES ASSUME Latest.status # "NotFound", ~Overflows(c), ~Recorded(c)
             PROVE  /\ pc'[c] = "judging" =>
                         ContractRefusals(Latest, act[c]) \subseteq {"OutOfAllowlist"}
                    /\ Late(c)' => ContractRefusals(Latest, act[c]) = {}
  BY <1>3 DEF Fitting
<1>4. CASE Late(c)
  BY <1>4 DEF Fits, Fitting
<1>5. CASE ~Late(c) /\ PrejudgeFields(c)
  <2>1. PICK seen \in SequentialReads(c) :
          \/ /\ GoPrejudge(seen, act[c]) \in {"NotFound", "Allowed"}
             /\ GoPrejudge(seen, act[c]) = "Allowed" => Goto(c, "judging")
          \/ Finish(c, GoPrejudge(seen, act[c]))
    BY <1>5 DEF PrejudgeFields
  <2>2. seen \in CapabilityRead
    BY <1>1, <2>1, SequentialType DEF TypeOK
  <2>3. pc[c] = "reading" /\ tx' = tx /\ tx[c] = <<>>
    BY <1>5 DEF PrejudgeFields, goChain, Late
  <2>4. /\ seen.status = Latest.status /\ seen.maxSpend = Latest.maxSpend
        /\ seen.validUntil = Latest.validUntil /\ seen.totalSpent = Latest.totalSpent
    <3>1. PICK h1, h2, h3, h4, h5 \in Window(c) :
            /\ seen.status = ledger[h1].status
            /\ seen.maxSpend = ledger[h2].maxSpend
            /\ seen.validUntil = ledger[h3].validUntil
            /\ seen.totalSpent = ledger[h4].totalSpent
      BY <2>1, SequentialOf
    <3>2. h1 \in Heights /\ h2 \in Heights /\ h3 \in Heights
      BY <1>1, ReadsHold
    <3>3. Spent(h4) = Spent(Len(ledger))
      BY <2>3, PreStateRead
    <3> QED
      BY <3>1, <3>2, <3>3 DEF Untouched, Spent, Latest
  <2>5. CASE GoPrejudge(seen, act[c]) = "NotFound"
    BY <1>1, <2>2, <2>4, <2>5, GoPrejudgeOf
  <2>6. CASE GoPrejudge(seen, act[c]) = "Allowed"
    <3>1. ~(Latest.totalSpent + act[c].amount > MaxInt)
      BY <1>1, LatestHeight DEF Overflows, Latest
    <3>2. /\ Latest.totalSpent \in Nat /\ Latest.maxSpend \in Nat /\ Latest.validUntil \in Nat
          /\ act[c].amount \in Nat /\ act[c].time \in Nat /\ MaxInt \in Nat
      BY <1>1, LatestType, GoAssumption DEF CapabilityState, Action
    <3>3. /\ Latest.status # "Revoked"
          /\ ~(act[c].time > Latest.validUntil)
          /\ ~(Latest.totalSpent + act[c].amount > Latest.maxSpend)
      BY <1>1, <2>2, <2>4, <2>6, <3>1, <3>2, GoPrejudgeOf
    <3>4. ContractRefusals(Latest, act[c]) \subseteq {"OutOfAllowlist"}
      BY <1>1, <3>3, RefusalsOf DEF AllBound
    <3>5. Goto(c, "judging") \/ pc'[c] = "done"
      BY <1>1, <2>1, <2>6 DEF Finish, TypeOK
    <3>6. ~Late(c)'
      BY <1>1, <2>3, <3>5 DEF Late, Goto, TypeOK
    <3> QED
      BY <3>4, <3>6
  <2>7. CASE GoPrejudge(seen, act[c]) \notin {"NotFound", "Allowed"}
    <3>1. pc'[c] = "done"
      BY <1>1, <2>1, <2>7 DEF Finish, TypeOK
    <3> QED
      BY <2>3, <3>1 DEF Late
  <2> QED
    BY <2>5, <2>6, <2>7
<1>6. CASE ~Late(c) /\ JudgeAllowlist(c)
  <2>1. pc[c] = "judging" /\ tx' = tx /\ tx[c] = <<>>
    BY <1>6 DEF JudgeAllowlist, goChain, Late
  <2>2. ContractRefusals(Latest, act[c]) \subseteq {"OutOfAllowlist"}
    BY <2>1 DEF Fits, Fitting
  <2>3. CASE AllowlistCode(c, "Allowed")
    <3>1. PICK enabled \in ReadOf(c, "allowlist"), allowed \in ReadOf(c, "allowed") :
            "Allowed" = PrejudgeAllowlist(enabled, allowed, act[c])
      BY <2>3 DEF AllowlistCode
    <3>2. ~(enabled /\ act[c].counterparty \notin allowed)
      BY <3>1 DEF PrejudgeAllowlist
    <3>3. PICK g \in Window(c) : enabled = ledger[g].allowlist
      BY <3>1 DEF ReadOf
    <3>4. PICK h \in Window(c) : allowed = ledger[h].allowed
      BY <3>1 DEF ReadOf
    <3>5. g \in Heights /\ h \in Heights
      BY <1>1, ReadsHold
    <3>6. ledger[g].allowlist = Latest.allowlist /\ Latest.allowed = ledger[h].allowed
      BY <1>1, <3>5, LatestTightest DEF Untouched, Tighter
    <3>7. "OutOfAllowlist" \notin ContractRefusals(Latest, act[c])
      BY <3>2, <3>3, <3>4, <3>6, RefusalsOf
    <3> QED
      BY <2>2, <3>7
  <2>4. CASE Finish(c, "OutOfAllowlist")
    BY <1>1, <2>1, <2>4 DEF Finish, Late, TypeOK
  <2> QED
    BY <1>6, <2>3, <2>4 DEF JudgeAllowlist
<1>7. CASE ~Late(c) /\ Enforce(c)
  BY <1>1, <1>7 DEF Enforce, Goto, goChain, Late, TypeOK
<1>8. CASE ~Late(c) /\ ReadFails(c)
  <2>1. Finish(c, "failed") /\ tx' = tx
    BY <1>8 DEF ReadFails, goChain, Late
  <2> QED
    BY <1>1, <1>8, <2>1 DEF Finish, Late, TypeOK
<1> QED
  BY <1>4, <1>5, <1>6, <1>7, <1>8
     DEF Call, Late, SubmitAccepted, SubmitUnheard, SubmitRejected, ConfirmRead,
         ReceiptFound, ReceiptUnknown, NameAllowlist, Deadline, Crash

(* Only a running call can throw, and only while none has.                 *)
LEMMA CallThrows ==
  ASSUME GInv, OneThrow, NEW c \in Calls, Call(c)
  PROVE  OneThrow'
<1>1. TypeOK /\ pc[c] # "done"
  BY CallMoves DEF GInv, KInv
<1>2. CASE outcome' = outcome
  BY <1>2 DEF OneThrow
<1>3. ASSUME NEW o, outcome' = [outcome EXCEPT ![c] = o], pc[c] # "idle" PROVE OneThrow'
  <2>1. NoThrow
    BY <1>1, <1>3 DEF GInv, OneAtATime, Running
  <2>2. \A d \in Calls : d # c => outcome'[d] \notin Throws
    BY <1>1, <1>3, <2>1 DEF NoThrow, TypeOK
  <2> QED
    BY <2>2 DEF OneThrow
<1>4. pc[c] = "idle" => outcome' = outcome
  BY DEF Call, Enforce, Goto, PrejudgeFields, JudgeAllowlist, SubmitAccepted, SubmitUnheard,
         SubmitRejected, ConfirmRead, ReceiptFound, ReceiptUnknown, NameAllowlist, Deadline,
         ReadFails, Crash
<1> QED
  BY <1>2, <1>3, <1>4, CallOutcome

(* When an action is recorded no other is on its way: the other calls have *)
(* not started, are recorded, or were denied for good.                     *)
LEMMA RecordFits ==
  ASSUME GInv, Untouched, Fits, OneThrow, UNCHANGED callVars, UNCHANGED act,
         \A d \in Calls : tx'[d] # <<>> => tx[d] # <<>>,
         NEW c \in Calls, tx[c] # <<>>, ~Recorded(c),
         \A d \in Calls : Recorded(d)' <=> Recorded(d) \/ d = c,
         ContractRefusals(Latest, act[c]) = {}, Commit(RecordAction(Latest, act[c]))
  PROVE  Untouched' /\ Fits'
<1> DEFINE cap == RecordAction(Latest, act[c])
           new == Len(ledger) + 1
<1>1. TypeOK /\ ChainTypeOK
  BY ReadsHold DEF GInv, KInv
<1>2. /\ Latest \in CapabilityState /\ act[c].amount \in Nat
      /\ cap \in CapabilityState
      /\ \A f \in {"status", "maxSpend", "validUntil", "allowlist", "allowed"} :
           cap[f] = Latest[f]
  <2>1. Latest \in CapabilityState /\ act[c].amount \in Nat
    BY <1>1, ReadsHold, LatestType DEF Action
  <2> QED
    BY <2>1, RecordActionKeeps
<1>3. Commit(cap)
  OBVIOUS
<1> HIDE DEF cap
<1>4. /\ Len(ledger') = new /\ Heights' = Heights \cup {new}
      /\ ledger'[new] = cap /\ Latest' = cap
      /\ \A h \in Heights : ledger'[h] = ledger[h]
  BY <1>1, <1>2, <1>3, CommitAppends DEF Heights, Latest
<1>5. /\ cap.status = Latest.status /\ cap.maxSpend = Latest.maxSpend
      /\ cap.validUntil = Latest.validUntil /\ cap.allowlist = Latest.allowlist
  BY <1>2
<1>6. Untouched'
  BY <1>4, <1>5 DEF Untouched
<1>7. pc' = pc /\ outcome' = outcome
  BY DEF callVars
<1>8. outcome[c] \notin Refusals \cup {"Allowed"}
  <2>1. ~NeverRecorded(c)
    BY BarredRefused DEF NeverRecorded
  <2> QED
    BY <2>1 DEF GInv, DeniedBarred, AllowedSound
<1>9. Running(c) \/ outcome[c] \in Throws
  <2>1. pc[c] # "idle"
    BY DEF GInv, KInv, KeyedOnce
  <2>2. pc[c] = "done" => outcome[c] \in Throws
    BY <1>1, <1>8 DEF TypeOK, Finished, Refusals
  <2> QED
    BY <1>1, <2>1, <2>2 DEF TypeOK, Running
<1>10. ASSUME NEW d \in Calls, d # c, Latest.status # "NotFound", ~Overflows(d), ~Recorded(d)
       PROVE  pc[d] # "judging" /\ ~Late(d)
  <2>1. ~Running(d)
    BY <1>9, <1>10 DEF GInv, OneAtATime, NoThrow
  <2>2. outcome[d] \notin Throws
    BY <1>9, <1>10 DEF GInv, OneAtATime, NoThrow, OneThrow
  <2>3. pc[d] = "done" => outcome[d] \in Refusals
    BY <1>1, <1>10, <2>2 DEF TypeOK, Finished, Refusals, GInv, AllowedSound
  <2>4. pc[d] = "done" => ContractRefusals(Latest, act[d]) # {}
    BY <2>3, BarredRefused DEF GInv, DeniedBarred, NeverRecorded
  <2>5. ~Late(d)
    <3>1. ASSUME Late(d) PROVE FALSE
      <4>1. pc[d] = "done"
        BY <2>1, <3>1 DEF Late, Running, GInv, KInv, KeyedOnce
      <4> QED
        BY <1>10, <2>4, <3>1, <4>1 DEF Fits, Fitting
    <3> QED
      BY <3>1
  <2> QED
    BY <2>1, <2>5 DEF Running
<1>11. ASSUME NEW d \in Calls, ~Overflows(d)' PROVE ~Overflows(d)
  <2>1. \A h \in Heights' : ~(ledger'[h].totalSpent + act'[d].amount > MaxInt)
    BY <1>11 DEF Overflows
  <2> QED
    BY <1>4, <2>1 DEF Overflows
<1>12. ASSUME NEW d \in Calls PROVE Fitting(d)'
  <2>1. CASE d = c
    BY <2>1 DEF Fitting
  <2>2. CASE d # c
    <3> SUFFICES ASSUME Latest'.status # "NotFound", ~Overflows(d)', ~Recorded(d)'
                 PROVE  pc'[d] # "judging" /\ ~Late(d)'
      BY DEF Fitting
    <3>1. pc[d] # "judging" /\ ~Late(d)
      BY <1>4, <1>5, <1>10, <1>11, <2>2
    <3> QED
      BY <1>7, <3>1 DEF Late
  <2> QED
    BY <2>1, <2>2
<1> QED
  BY <1>6, <1>12 DEF Fits, Fitting

(* A step that is not the principal's.                                     *)
LEMMA QuietStep ==
  ASSUME OneNode, AllBound, Quiet, [Next]_vars, ~Principal
  PROVE  Quiet'
<1>1. GInv' /\ KInv /\ TypeOK
  BY NextGInv DEF Quiet, GInv, KInv
<1>2. ASSUME ledger' = ledger, act' = act, pc' = pc, outcome' = outcome,
             \A d \in Calls : Recorded(d)' <=> Recorded(d),
             \A d \in Calls : tx'[d] # <<>> => tx[d] # <<>>
      PROVE  Quiet'
  <2>1. OneThrow'
    BY <1>2 DEF Quiet, OneThrow
  <2>2. \A d \in Calls : Late(d)' => Late(d)
    BY <1>2 DEF Late
  <2>3. Untouched' /\ \A d \in Calls : Fitting(d)'
    BY <1>2, <2>2, QuietLedger DEF Quiet
  <2> QED
    BY <1>1, <2>1, <2>3 DEF Quiet, Fits, Fitting
<1>3. ASSUME NEW c \in Calls, Call(c) PROVE Quiet'
  <2>1. /\ UNCHANGED chainVars
        /\ \A d \in Calls : d # c => pc'[d] = pc[d] /\ tx'[d] = tx[d]
    <3>1. tx \in [Calls -> Seq({"mempool", "success", "failed"})]
      BY <1>1 DEF TypeOK
    <3>2. tx' = tx \/ tx' = [tx EXCEPT ![c] = Append(tx[c], "mempool")]
      BY <1>1, <1>3, CallMoves
    <3>3. \A d \in Calls : d # c => tx'[d] = tx[d]
      BY <3>1, <3>2
    <3> QED
      BY <1>1, <1>3, <3>3, CallMoves
  <2>2. OneThrow'
    BY <1>3, CallThrows DEF Quiet
  <2>3. \A d \in Calls : d # c => (Late(d)' => Late(d)) /\ (pc'[d] = "judging" => pc[d] = "judging")
    BY <2>1 DEF Late
  <2>4. \A d \in Calls : Recorded(d)' <=> Recorded(d)
    BY <2>1 DEF chainVars, Recorded
  <2>5. Untouched' /\ \A d \in Calls : d # c => Fitting(d)'
    BY <2>1, <2>3, <2>4, QuietLedger DEF Quiet, chainVars
  <2>6. Fitting(c)'
    BY <1>3, CallFits DEF Quiet
  <2> QED
    BY <1>1, <2>2, <2>5, <2>6 DEF Quiet, Fits, Fitting
<1>4. CASE UNCHANGED vars
  BY <1>2, <1>4 DEF vars, chainVars, goChain, callVars, Recorded
<1>5. CASE Chain
  <2>1. act' = act /\ UNCHANGED callVars
    BY <1>1, <1>5, GoCommits
  <2>2. \A d \in Calls : tx'[d] # <<>> => tx[d] # <<>>
    <3>1. ASSUME NEW d \in Calls, NEW k \in DOMAIN tx[d], NEW s, tx' = [tx EXCEPT ![d][k] = s]
          PROVE  \A e \in Calls : tx'[e] # <<>> => tx[e] # <<>>
      BY <1>1, <3>1 DEF TypeOK
    <3>2. CASE tx' = tx
      BY <3>2
    <3> QED
      BY <1>5, <3>1, <3>2 DEF Chain, IncludeTx, ExecFails, goChain
  <2>3. CASE ledger' = ledger /\ \A c \in Calls : Recorded(c)' <=> Recorded(c)
    BY <1>2, <2>1, <2>2, <2>3 DEF callVars
  <2>4. ASSUME NEW c \in Calls,
               \E k \in DOMAIN tx[c] : tx[c][k] = "mempool",
               ~Recorded(c),
               \A d \in Calls : Recorded(d)' <=> Recorded(d) \/ d = c,
               ContractRefusals(Latest, act[c]) = {},
               Commit(RecordAction(Latest, act[c]))
        PROVE  Quiet'
    <3>1. tx[c] # <<>>
      BY <2>4
    <3>2. Untouched' /\ Fits'
      BY <2>1, <2>2, <2>4, <3>1, RecordFits DEF Quiet
    <3>3. OneThrow'
      BY <2>1 DEF callVars, Quiet, OneThrow
    <3> QED
      BY <1>1, <3>2, <3>3 DEF Quiet
  <2> QED
    BY <1>1, <1>5, <2>3, <2>4, GoCommits
<1> QED
  BY <1>3, <1>4, <1>5 DEF Next

(* The totals only grow in number: a sum that overflows stays one.         *)
LEMMA OverflowStays ==
  ASSUME KInv, [Next]_vars, NEW c \in Calls, Overflows(c)
  PROVE  Overflows(c)'
<1>1. ChainTypeOK
  BY ReadsHold DEF KInv
<1>2. act' = act /\ (ledger' = ledger \/ \E cap \in CapabilityState : Commit(cap))
  <2>1. ASSUME NEW d \in Calls, Call(d) PROVE act' = act /\ ledger' = ledger
    BY <2>1, CallMoves DEF chainVars
  <2>2. CASE UNCHANGED vars
    BY <2>2 DEF vars, chainVars
  <2>3. CASE Chain
    <3>1. ASSUME NEW d \in Calls PROVE RecordAction(Latest, act[d]) \in CapabilityState
      BY <1>1, LatestType, RecordActionKeeps, ReadsHold DEF KInv, Action
    <3> QED
      BY <1>1, <2>3, <3>1, GoCommits, PrincipalsCommit
  <2> QED
    BY <2>1, <2>2, <2>3 DEF Next
<1>3. Heights \subseteq Heights' /\ \A h \in Heights : ledger'[h] = ledger[h]
  BY <1>1, <1>2, CommitAppends DEF Heights
<1>4. PICK h \in Heights : ledger[h].totalSpent + act[c].amount > MaxInt
  BY DEF Overflows
<1>5. h \in Heights' /\ ledger'[h].totalSpent + act'[c].amount > MaxInt
  BY <1>2, <1>3, <1>4
<1> QED
  BY <1>5 DEF Overflows

(* The invariant behind it, step by step.                                  *)
LEMMA NextQInv ==
  ASSUME OneNode, AllBound, QInv, [Next]_vars
  PROVE  QInv'
<1>1. KInv /\ KInv' /\ TypeOK /\ ChainTypeOK
  BY NextType, NextKeyed, ReadsHold DEF QInv, KInv
<1>2. /\ IsFiniteSet(Charged') /\ PrincipalCommits' >= PrincipalCommits
      /\ Principal => PrincipalCommits' > 0
      /\ PrincipalCommits \in Nat /\ PrincipalCommits' \in Nat
  BY <1>1, CountsCommits DEF QInv
<1>3. PrincipalCommits' = 0 => PrincipalCommits = 0 /\ ~Principal /\ Quiet /\ Quiet'
  BY <1>2, QuietStep DEF QInv
<1>4. ASSUME NEW c \in Calls, fate'[c] \in Refusals \ {"NotFound"}, PrincipalCommits' = 0
      PROVE  Overflows(c)'
  <2>1. Quiet /\ PrincipalCommits = 0
    BY <1>3, <1>4
  <2>2. Overflows(c) => Overflows(c)'
    BY OverflowStays, <1>1
  <2>3. CASE fate'[c] = fate[c]
    BY <1>4, <2>1, <2>2, <2>3 DEF QInv, NoDoomedTransaction
  <2>4. CASE fate'[c] # fate[c]
    <3>1. /\ tx[c] # <<>> /\ ~Recorded(c)
          /\ fate'[c] = ContractCode(Latest, act[c])
      BY <1>1, <1>4, <2>4, Decides DEF Refusals
    <3>2. Latest.status # "NotFound" /\ ContractRefusals(Latest, act[c]) # {}
      BY <1>4, <3>1, ContractAbsent, ContractCodeOf DEF Refusals
    <3> QED
      BY <2>1, <2>2, <3>1, <3>2 DEF Quiet, Fits, Fitting, Late
  <2> QED
    BY <2>3, <2>4
<1>5. NoDoomedTransaction'
  <2>1. ASSUME NEW c \in Calls, fate'[c] \in Refusals \ {"NotFound"}
        PROVE  PrincipalCommits' > 0 \/ Overflows(c)'
    BY <1>2, <1>4, <2>1
  <2> QED
    BY <2>1 DEF NoDoomedTransaction
<1> QED
  BY <1>1, <1>2, <1>3, <1>5 DEF QInv

(* While the principal does nothing, no operation submits what the         *)
(* contract will refuse, unless the sum of its budget check overflows.     *)
THEOREM NothingDoomed ==
  ASSUME OneNode, AllBound
  PROVE  Spec => []NoDoomedTransaction
<1>1. Init => QInv
  <2> SUFFICES ASSUME Init PROVE QInv
    OBVIOUS
  <2>1. GInv
    BY InitGInv
  <2>2. Len(ledger) = 1 /\ Heights = {1} /\ Latest = ledger[1]
    BY DEF Init, ChainInit, Heights, Latest
  <2>3. Untouched
    BY <2>2 DEF Untouched
  <2>4. Fits /\ OneThrow
    BY DEF Init, ChainInit, Fits, Fitting, Late, OneThrow, Throws
  <2>5. Charged = {}
    BY DEF Init, ChainInit, Charged, Recorded
  <2>6. PrincipalCommits = 0
    BY <2>2, <2>5, FS_EmptySet DEF PrincipalCommits, Charged
  <2>7. NoDoomedTransaction
    BY DEF Init, ChainInit, NoDoomedTransaction, Refusals, Codes, EnforcementCode
  <2> QED
    BY <2>1, <2>3, <2>4, <2>5, <2>6, <2>7, FS_EmptySet DEF QInv, Quiet, GInv
<1>2. QInv /\ [Next]_vars => QInv'
  BY NextQInv
<1>3. QInv => NoDoomedTransaction
  BY DEF QInv
<1> QED
  BY <1>1, <1>2, <1>3, PTL DEF Spec
=============================================================================
