------------------------------ MODULE GoEnforce ------------------------------
(***************************************************************************)
(* enforce of the Go SDK, which comes in phases: Prejudge decides at once  *)
(* or freezes a baseline, SubmitEnforce returns on mempool acceptance, and *)
(* ConfirmEnforce looks for the delta of exactly this action, or for a     *)
(* receipt and then for the reason of the refusal.                         *)
(*                                                                         *)
(*   idle -> reading -> judging -> submitting -> confirming -> receipt     *)
(*                                     ^  ^         |  ^          |        *)
(*                                     |  '---------'  '-------- naming    *)
(*                                     '-- (execution failed, resubmit)    *)
(*                                                                         *)
(* Two callers use the phases.  EnforceAndConfirm blocks: it submits once, *)
(* polls until a deadline and returns every error.  The worker of a        *)
(* gateway (not in the repository, modelled from the comments that define  *)
(* the phases for it) persists options, baseline and transaction hash, so  *)
(* it starts again with a confirmation after a crash or an error, and      *)
(* submits again when it knows of no transaction or its execution failed.  *)
(* What makes that exactly-once is the ActionID, by which the contract     *)
(* recognises an action it has recorded.                                   *)
(***************************************************************************)
EXTENDS StateReads, FiniteSetsExt

CONSTANTS
  Blocking,     \* the calls of EnforceAndConfirm; the others are a worker's
  MaxAttempts,  \* a bound on the submissions of one worker's action
  MaxFaults,    \* a bound on crashes, failing queries and lost answers
  MaxInt        \* the largest int64

ASSUME GoAssumption ==
  /\ Blocking \subseteq Calls
  /\ MaxAttempts \in Nat \ {0}
  /\ {MaxFaults, MaxInt} \subseteq Nat

VARIABLES
  pc,        \* where each call is
  baseline,  \* the frozen pre-state
  after,     \* the state the running confirmation has read
  hash,      \* TxHash: which of its transactions the caller knows, 0 if none
  tx,        \* the transactions of each call: "mempool", "success", "failed"
  keys,      \* the ActionIDs under which the contract has recorded actions
  faults,    \* how many faults there have been
  outcome    \* "none", the code returned, or how it failed

callVars == <<pc, baseline, after, since, hash, outcome>>
goChain == <<tx, keys>>
vars == <<chainVars, goChain, callVars, faults>>

Throws == {"unsettled", "failed"}
Finished(c) == pc[c] = "done"
Worker(c) == c \notin Blocking

-----------------------------------------------------------------------------
(* GetCapabilityState: one query after the other, in this order.  Of two   *)
(* answers of one node, the later one is not older.                        *)
QueryOrder ==
  [status |-> 1, maxSpend |-> 2, validUntil |-> 3, totalSpent |-> 4, actionCount |-> 5]

Sources(c) ==
  {s \in [node : Nodes, height : Window(c)] :
     s.height \in since[c][s.node] .. view[s.node]}

SequentialReads(c) ==
  {[f \in Fields |-> ledger[at[f].height][f]] :
     at \in {at \in [Fields -> Sources(c)] :
               \A f, g \in Fields :
                 QueryOrder[f] < QueryOrder[g] /\ at[f].node = at[g].node
                   => at[f].height <= at[g].height}}

(* Two's complement: a sum past the largest int64 becomes negative.        *)
Int64(n) == IF n > MaxInt THEN n - 2 * (MaxInt + 1) ELSE n

(* prejudge, with the sum of the budget check computed in int64.           *)
GoPrejudge(seen, a) ==
  Prejudge([seen EXCEPT !.totalSpent = Int64(@ + a.amount) - a.amount], a)

(* The idempotency key: derived for each submission of a blocking call,    *)
(* frozen by the worker.  Mutation: derived for each submission.           *)
ActionID_PerSubmit(c, k) == [call |-> c, submission |-> k]

ActionID(c, k) == [call |-> c, submission |-> IF Worker(c) THEN 0 ELSE k]

-----------------------------------------------------------------------------
(* The chain.  A transaction whose ActionID is recorded succeeds and       *)
(* writes nothing, like one that the contract refuses.                     *)
IncludeTx(c, k) ==
  /\ tx[c][k] = "mempool"
  /\ tx' = [tx EXCEPT ![c][k] = "success"]
  /\ IF ActionID(c, k) \in keys
     THEN UNCHANGED <<ledger, fate, keys>>
     ELSE LET code == ContractCode(Latest, act[c])
          IN /\ fate' = [fate EXCEPT ![c] = code]
             /\ IF code = "Allowed"
                THEN /\ Commit(RecordAction(Latest, act[c]))
                     /\ keys' = keys \cup {ActionID(c, k)}
                ELSE UNCHANGED <<ledger, keys>>
  /\ UNCHANGED <<view, act>>

(* Execution fails (out of gas) and writes nothing.  A worker's last       *)
(* attempt is not wasted: the bound is the model's.                        *)
ExecFails(c, k) ==
  /\ tx[c][k] = "mempool"
  /\ Worker(c) => k < MaxAttempts
  /\ tx' = [tx EXCEPT ![c][k] = "failed"]
  /\ UNCHANGED <<chainVars, keys>>

Chain ==
  /\ \/ \E c \in Calls : \E k \in DOMAIN tx[c] : IncludeTx(c, k) \/ ExecFails(c, k)
     \/ Principal /\ UNCHANGED goChain
     \/ \E n \in Nodes : Replicate(n) /\ UNCHANGED goChain
  /\ UNCHANGED <<callVars, faults>>

-----------------------------------------------------------------------------
(* Mutation of MayStart: a call starts while another is in flight.         *)
MayStart_Anytime == TRUE

(* "the single-writer-per-capability invariant guarantees no other         *)
(* in-flight enforce", which the application keeps.                        *)
MayStart ==
  \A d \in Calls : pc[d] = "idle" \/ (Finished(d) /\ outcome[d] \notin Throws)

Goto(c, label) ==
  /\ pc' = [pc EXCEPT ![c] = label]
  /\ UNCHANGED outcome

Finish(c, o) ==
  /\ pc' = [pc EXCEPT ![c] = "done"]
  /\ outcome' = [outcome EXCEPT ![c] = o]
  /\ baseline' = [baseline EXCEPT ![c] = Unread]
  /\ after' = [after EXCEPT ![c] = Unread]
  /\ since' = [since EXCEPT ![c] = NoRead]
  /\ UNCHANGED hash

Enforce(c) ==
  /\ pc[c] = "idle"
  /\ MayStart
  /\ StartRead(c)
  /\ Goto(c, "reading")
  /\ UNCHANGED <<chainVars, goChain, baseline, after, hash, faults>>

(* Prejudge returns the pre-state, which the caller freezes as baseline    *)
(* when nothing refuses the action or the capability is not visible.       *)
PrejudgeFields(c) ==
  /\ pc[c] = "reading"
  /\ \E seen \in SequentialReads(c) :
       LET code == GoPrejudge(seen, act[c])
       IN \/ /\ code = "NotFound"
             /\ baseline' = [baseline EXCEPT ![c] = seen]
             /\ Goto(c, "submitting")
             /\ UNCHANGED <<since, after, hash>>
          \/ /\ code = "Allowed"
             /\ baseline' = [baseline EXCEPT ![c] = seen]
             /\ StartRead(c)
             /\ Goto(c, "judging")
             /\ UNCHANGED <<after, hash>>
          \/ /\ code \notin {"NotFound", "Allowed"}
             /\ Finish(c, code)
  /\ UNCHANGED <<chainVars, goChain, faults>>

JudgeAllowlist(c) ==
  /\ pc[c] = "judging"
  /\ \/ /\ AllowlistCode(c, "Allowed")
        /\ Goto(c, "submitting")
        /\ UNCHANGED <<baseline, after, since, hash>>
     \/ /\ AllowlistCode(c, "OutOfAllowlist")
        /\ Finish(c, "OutOfAllowlist")
  /\ UNCHANGED <<chainVars, goChain, faults>>

-----------------------------------------------------------------------------
(* ConfirmEnforce is called, or called again with the same frozen options. *)
Confirm(c) ==
  /\ StartRead(c)
  /\ after' = [after EXCEPT ![c] = Unread]
  /\ Goto(c, "confirming")
  /\ UNCHANGED baseline

(* A call that fails outright, or a worker that carries on from what it    *)
(* has persisted.                                                          *)
Abort(c) ==
  \/ Worker(c) /\ Confirm(c) /\ UNCHANGED hash
  \/ ~Worker(c) /\ Finish(c, "failed")

Fault ==
  /\ faults < MaxFaults
  /\ faults' = faults + 1

SubmitAccepted(c) ==
  /\ pc[c] = "submitting"
  /\ Len(tx[c]) < MaxAttempts
  /\ tx' = [tx EXCEPT ![c] = Append(@, "mempool")]
  /\ hash' = [hash EXCEPT ![c] = Len(tx[c]) + 1]
  /\ Confirm(c)
  /\ UNCHANGED <<chainVars, keys, faults>>

(* The mempool has accepted, and the caller sees an error, or crashes      *)
(* before it has persisted the hash.                                       *)
SubmitUnheard(c) ==
  /\ pc[c] = "submitting"
  /\ Fault
  /\ Worker(c) => Len(tx[c]) + 1 < MaxAttempts
  /\ tx' = [tx EXCEPT ![c] = Append(@, "mempool")]
  /\ Abort(c)
  /\ UNCHANGED <<chainVars, keys>>

SubmitRejected(c) ==
  /\ pc[c] = "submitting"
  /\ Fault
  /\ Abort(c)
  /\ UNCHANGED <<chainVars, goChain>>

-----------------------------------------------------------------------------
Delta(c, seen) ==
  /\ seen.actionCount = baseline[c].actionCount + 1
  /\ seen.totalSpent = baseline[c].totalSpent + act[c].amount

(* The codes that a refusal found after inclusion is not taken for: the    *)
(* delta is not visible yet, or the capability is not.  Mutation: an       *)
(* absent capability is a refusal.                                         *)
Inconclusive_Visible == {"Allowed"}
Inconclusive == {"Allowed", "NotFound"}

(* Mutation of ConfirmRead: the receipt is asked for without a hash.       *)
ConfirmRead_NoHash(c) ==
  /\ pc[c] = "confirming"
  /\ \E seen \in SequentialReads(c) :
       \/ /\ Delta(c, seen)
          /\ Finish(c, "Allowed")
       \/ /\ ~Delta(c, seen)
          /\ after' = [after EXCEPT ![c] = seen]
          /\ Goto(c, "receipt")
          /\ UNCHANGED <<baseline, since, hash>>
  /\ UNCHANGED <<chainVars, goChain, faults>>

(* The state is read first; without a hash nothing more can be learnt, and *)
(* the worker submits.                                                     *)
ConfirmRead(c) ==
  /\ pc[c] = "confirming"
  /\ \E seen \in SequentialReads(c) :
       \/ /\ Delta(c, seen)
          /\ Finish(c, "Allowed")
       \/ /\ ~Delta(c, seen)
          /\ hash[c] = 0
          /\ Goto(c, "submitting")
          /\ UNCHANGED <<baseline, after, since, hash>>
       \/ /\ ~Delta(c, seen)
          /\ hash[c] # 0
          /\ after' = [after EXCEPT ![c] = seen]
          /\ Goto(c, "receipt")
          /\ UNCHANGED <<baseline, since, hash>>
  /\ UNCHANGED <<chainVars, goChain, faults>>

Receipt(c) == tx[c][hash[c]]

(* Mutation of ReceiptFailed: it is retried as if still propagating.       *)
ReceiptFailed_Pending(c) ==
  /\ Receipt(c) = "failed"
  /\ Confirm(c)
  /\ UNCHANGED hash

(* Execution failed: the worker resubmits, the blocking call fails.        *)
ReceiptFailed(c) ==
  /\ Receipt(c) = "failed"
  /\ \/ /\ Worker(c)
        /\ after' = [after EXCEPT ![c] = Unread]
        /\ Goto(c, "submitting")
        /\ UNCHANGED <<baseline, since, hash>>
     \/ ~Worker(c) /\ Finish(c, "failed")

(* Included and executed, and no delta in the state read before: the       *)
(* contract refused, and the fields or the allowlist name the reason.      *)
ReceiptSuccess(c) ==
  LET code == GoPrejudge(after[c], act[c])
  IN /\ Receipt(c) = "success"
     /\ \/ /\ code = "Allowed"
           /\ StartRead(c)
           /\ Goto(c, "naming")
           /\ UNCHANGED <<baseline, after, hash>>
        \/ /\ code # "Allowed"
           /\ code \in Inconclusive
           /\ Confirm(c)
           /\ UNCHANGED hash
        \/ /\ code \notin Inconclusive
           /\ Finish(c, code)

ReceiptFound(c) ==
  /\ pc[c] = "receipt"
  /\ ReceiptFailed(c) \/ ReceiptSuccess(c)
  /\ UNCHANGED <<chainVars, goChain, faults>>

(* The transaction is in no block yet, or the node that is asked does not  *)
(* know its receipt yet: still propagating.                                *)
ReceiptUnknown(c) ==
  /\ pc[c] = "receipt"
  /\ \/ Receipt(c) = "mempool" /\ UNCHANGED faults
     \/ Receipt(c) # "mempool" /\ Fault
  /\ Confirm(c)
  /\ UNCHANGED <<chainVars, goChain, hash>>

NameAllowlist(c) ==
  /\ pc[c] = "naming"
  /\ \/ /\ AllowlistCode(c, "OutOfAllowlist")
        /\ Finish(c, "OutOfAllowlist")
     \/ /\ AllowlistCode(c, "Allowed")
        /\ Confirm(c)
        /\ UNCHANGED hash
  /\ UNCHANGED <<chainVars, goChain, faults>>

(* The deadline of EnforceAndConfirm passes while nothing is conclusive.   *)
Deadline(c) ==
  /\ ~Worker(c)
  /\ \/ pc[c] = "receipt" /\ Receipt(c) # "failed"
     \/ pc[c] = "naming" /\ AllowlistCode(c, "Allowed")
  /\ Finish(c, "unsettled")
  /\ UNCHANGED <<chainVars, goChain, faults>>

(* A query fails: Prejudge returns the error, and so does ConfirmEnforce.  *)
(* A worker may also crash at any time after it has persisted the action.  *)
ReadFails(c) ==
  /\ Fault
  /\ \/ pc[c] \in {"reading", "judging"} /\ Finish(c, "failed")
     \/ pc[c] \in {"confirming", "receipt", "naming"} /\ Abort(c)
  /\ UNCHANGED <<chainVars, goChain>>

Crash(c) ==
  /\ Worker(c)
  /\ Fault
  /\ pc[c] \in {"submitting", "receipt", "naming"}
  /\ Confirm(c)
  /\ UNCHANGED <<chainVars, goChain, hash>>

-----------------------------------------------------------------------------
Init ==
  /\ ChainInit
  /\ pc = [c \in Calls |-> "idle"]
  /\ baseline = [c \in Calls |-> Unread]
  /\ after = [c \in Calls |-> Unread]
  /\ since = [c \in Calls |-> NoRead]
  /\ hash = [c \in Calls |-> 0]
  /\ tx = [c \in Calls |-> <<>>]
  /\ keys = {}
  /\ faults = 0
  /\ outcome = [c \in Calls |-> "none"]

Call(c) ==
  \/ Enforce(c) \/ PrejudgeFields(c) \/ JudgeAllowlist(c)
  \/ SubmitAccepted(c) \/ SubmitUnheard(c) \/ SubmitRejected(c)
  \/ ConfirmRead(c) \/ ReceiptFound(c) \/ ReceiptUnknown(c) \/ NameAllowlist(c)
  \/ Deadline(c) \/ ReadFails(c) \/ Crash(c)

Next == Chain \/ \E c \in Calls : Call(c)

Spec == Init /\ [][Next]_vars

(* A caller goes on, faults being finitely many; a blocking call reaches   *)
(* its deadline; and the chain does its part: a transaction in a mempool   *)
(* is executed in the end, and a node catches up.                          *)
Continue(c) ==
  \/ PrejudgeFields(c) \/ JudgeAllowlist(c) \/ SubmitAccepted(c) \/ ConfirmRead(c)
  \/ ReceiptFound(c) \/ ReceiptUnknown(c) \/ NameAllowlist(c)

Execute(c) ==
  /\ \E k \in DOMAIN tx[c] : IncludeTx(c, k) \/ ExecFails(c, k)
  /\ UNCHANGED <<callVars, faults>>

CatchUp ==
  /\ \E n \in Nodes : Replicate(n)
  /\ UNCHANGED <<goChain, callVars, faults>>

Fairness ==
  /\ WF_vars(CatchUp)
  /\ \A c \in Calls : WF_vars(Execute(c)) /\ WF_vars(Continue(c))
  /\ \A c \in Blocking : SF_vars(Deadline(c))

FairSpec == Spec /\ Fairness

-----------------------------------------------------------------------------
(* Every variable has its type; a call has an outcome exactly when it is   *)
(* done, and whoever waits for a receipt has a transaction of its own.     *)
TypeOK ==
  /\ ChainTypeOK
  /\ pc \in [Calls -> {"idle", "reading", "judging", "submitting", "confirming",
                       "receipt", "naming", "done"}]
  /\ baseline \in [Calls -> CapabilityRead]
  /\ after \in [Calls -> CapabilityRead]
  /\ since \in [Calls -> [Nodes -> Heights]]
  /\ hash \in [Calls -> 0 .. MaxAttempts]
  /\ tx \in [Calls -> Seq({"mempool", "success", "failed"})]
  /\ keys \subseteq [call : Calls, submission : 0 .. MaxAttempts]
  /\ faults \in 0 .. MaxFaults
  /\ outcome \in [Calls -> {"none"} \cup Codes \cup Throws]
  /\ \A c \in Calls :
       /\ outcome[c] = "none" <=> ~Finished(c)
       /\ Len(tx[c]) <= MaxAttempts
       /\ hash[c] <= Len(tx[c])
       /\ pc[c] \in {"receipt", "naming"} => hash[c] # 0

(* "a crash-resubmit dedups to exactly-once": however often a worker       *)
(* submits an action, the contract counts and charges it once.             *)
ExactlyOnce ==
  LET charged == {c \in Calls : Recorded(c)}
  IN /\ Latest.actionCount = Cardinality(charged)
     /\ Latest.totalSpent = MapThenSumSet(LAMBDA c : act[c].amount, charged)

(* "attributes any (+1 count, +amount spent) delta to THIS operation".     *)
AllowedSound == \A c \in Calls : outcome[c] = "Allowed" => Recorded(c)

(* ConfirmRefused is terminal, "the contract refused it": no transaction   *)
(* of the action is recorded afterwards, and none was.                     *)
DeniedNeverCommits == \A c \in Calls : outcome[c] \in Refusals => ~Recorded(c)

(* The sum that prejudge computes for the call does not fit an int64.      *)
Overflows(c) ==
  \E h \in Heights : ledger[h].totalSpent + act[c].amount > MaxInt

(* "refuse instantly": an action that the contract refuses on a visible    *)
(* capability was overtaken by the principal, or its sum overflowed.       *)
NoDoomedTransaction ==
  \A c \in Calls :
    fate[c] \in Refusals \ {"NotFound"} => PrincipalCommits > 0 \/ Overflows(c)

(* What no later read can explain: an action executed before its           *)
(* capability was committed, and one whose sum overflows.                  *)
Unnameable(c) == fate[c] = "NotFound" \/ Overflows(c)

(* Every operation that starts is confirmed, refused, or fails, however    *)
(* often its worker crashes, unless the refusal cannot be named: such a    *)
(* worker polls for ever.                                                  *)
EveryCallEnds == \A c \in Calls : pc[c] # "idle" ~> Finished(c) \/ Unnameable(c)

(* The Go port keeps the promise of enforce.                               *)
Promise ==
  INSTANCE EnforcementPromise
    WITH recorded <- {c \in Calls : Recorded(c)}, verdict <- outcome,
         Denials <- Refusals, GivesUp <- Throws

KeepsPromise == Promise!Spec
=============================================================================
