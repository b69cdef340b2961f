------------------------------ MODULE TsEnforce ------------------------------
(***************************************************************************)
(* enforce() of the TypeScript SDK, several calls against one capability.  *)
(*                                                                         *)
(* A call reads the capability, denies at once when what it read refuses   *)
(* the action, otherwise submits record_action and infers the verdict from *)
(* the change of actionCount and totalSpent it can observe, because a      *)
(* receipt does not carry the contract's return code.  Each await is a     *)
(* place where the chain moves, so each leg is an action:                  *)
(*                                                                         *)
(*   idle -> reading -> judging -> sending -> settling -> rejudging -> done *)
(*                                                                         *)
(* getCapabilityState is one query per field in parallel, and the endpoint *)
(* may hand each to another node: a field comes from any height some node  *)
(* answered from between the start of the read (`since`) and its end.      *)
(* Every submission is a transaction of its own; module SendSigned has the *)
(* nonces, and the calls whose transactions a node takes for one.          *)
(***************************************************************************)
EXTENDS StateReads

CONSTANT
  Discipline  \* what the application promises about overlapping calls:
              \*   "overlapping"  nothing
              \*   "awaited"      a call starts when no other is running
              \*   "settled"      ... and every finished one returned a verdict
              \*   "quiet"        ... no action is in flight, all nodes agree

ASSUME DisciplineAssumption ==
  Discipline \in {"overlapping", "awaited", "settled", "quiet"}

VARIABLES
  pc,       \* where each call is
  before,   \* the capability fields it read first (of the re-read: rejudging)
  outcome   \* "none", the code it returned, or how it threw

callVars == <<pc, before, since, outcome>>
vars == <<chainVars, callVars>>

Verdicts == Codes
Throws == {"unsettled", "failed"}

(* getCapabilityState: Promise.all of one query per field.                 *)
CapabilityReads(c) ==
  [status      : ReadOf(c, "status"),
   maxSpend    : ReadOf(c, "maxSpend"),
   validUntil  : ReadOf(c, "validUntil"),
   totalSpent  : ReadOf(c, "totalSpent"),
   actionCount : ReadOf(c, "actionCount")]

-----------------------------------------------------------------------------
Finished(c) == pc[c] = "done"

MayStart ==
  /\ Discipline # "overlapping" => \A d \in Calls : pc[d] = "idle" \/ Finished(d)
  /\ Discipline = "settled" => \A d \in Calls : outcome[d] \notin Throws
  /\ Discipline = "quiet" => VisibleEverywhere /\ \A d \in Calls : ~InFlight(d)

Goto(c, label) ==
  /\ pc' = [pc EXCEPT ![c] = label]
  /\ UNCHANGED outcome

(* Mutation of Finish: the call ends and delivers no outcome.              *)
Finish_Silent(c, o) ==
  /\ pc' = [pc EXCEPT ![c] = "done"]
  /\ before' = [before EXCEPT ![c] = Unread]
  /\ since' = [since EXCEPT ![c] = NoRead]
  /\ UNCHANGED outcome

(* The call returns or throws; its locals are gone.                        *)
Finish(c, o) ==
  /\ pc' = [pc EXCEPT ![c] = "done"]
  /\ outcome' = [outcome EXCEPT ![c] = o]
  /\ before' = [before EXCEPT ![c] = Unread]
  /\ since' = [since EXCEPT ![c] = NoRead]

Enforce(c) ==
  /\ pc[c] = "idle"
  /\ MayStart
  /\ StartRead(c)
  /\ Goto(c, "reading")
  /\ UNCHANGED <<chainVars, before>>

(* The pre-state arrives.  Absence is no evidence: NotFound goes on to     *)
(* submit, any other refusal by a field denies at once.                    *)
ReadBefore(c) ==
  /\ pc[c] = "reading"
  /\ \E seen \in CapabilityReads(c) :
       LET code == Prejudge(seen, act[c])
       IN \/ /\ code = "NotFound"
             /\ before' = [before EXCEPT ![c] = seen]
             /\ Goto(c, "sending")
             /\ UNCHANGED since
          \/ /\ code = "Allowed"
             /\ before' = [before EXCEPT ![c] = seen]
             /\ StartRead(c)
             /\ Goto(c, "judging")
          \/ /\ code \notin {"NotFound", "Allowed"}
             /\ Finish(c, code)
  /\ UNCHANGED chainVars

JudgeAllowlist(c) ==
  /\ pc[c] = "judging"
  /\ \/ /\ AllowlistCode(c, "Allowed")
        /\ Goto(c, "sending")
        /\ UNCHANGED <<before, since>>
     \/ /\ AllowlistCode(c, "OutOfAllowlist")
        /\ Finish(c, "OutOfAllowlist")
  /\ UNCHANGED chainVars

-----------------------------------------------------------------------------
(* recordAction.  The receipt poll that follows an accepted submission     *)
(* waits but decides nothing: it never throws, and a receipt that does not *)
(* come within its window is reported as pending.                          *)
SendAccepted(c) ==
  /\ pc[c] = "sending"
  /\ fate' = [fate EXCEPT ![c] = "mempool"]
  /\ StartRead(c)
  /\ Goto(c, "settling")
  /\ UNCHANGED <<ledger, view, act, before>>

(* The node refuses the transaction, or cannot be reached.                 *)
SendRejected(c) ==
  /\ pc[c] = "sending"
  /\ Finish(c, "failed")
  /\ UNCHANGED chainVars

(* The node accepts the transaction and its answer is lost.                *)
SendReplyLost(c) ==
  /\ pc[c] = "sending"
  /\ fate' = [fate EXCEPT ![c] = "mempool"]
  /\ Finish(c, "failed")
  /\ UNCHANGED <<ledger, view, act>>

-----------------------------------------------------------------------------
(* settle: read until a later action count shows, or the window is over.   *)
Settled(c, after) == after.actionCount > before[c].actionCount

Delta(c, after) ==
  /\ after.actionCount > before[c].actionCount
  /\ after.totalSpent = before[c].totalSpent + act[c].amount

(* What is concluded when no delta shows and the capability was visible.   *)
(* Mutations: deny it, as the Python SDK does; or assume the best.         *)
NoDelta_Denies(c) == Finish(c, "NotFound")
NoDelta_Allows(c) == Finish(c, "Allowed")
NoDelta(c) == Finish(c, "unsettled")

(* A capability unseen before the submission is judged again from the last *)
(* read; otherwise nothing is concluded and the call throws.               *)
Classify(c, after) ==
  \/ /\ Delta(c, after)
     /\ Finish(c, "Allowed")
  \/ /\ ~Delta(c, after)
     /\ before[c].status = "NotFound"
     /\ LET late == Prejudge(after, act[c])
        IN \/ /\ late # "Allowed"
              /\ Finish(c, late)
           \/ /\ late = "Allowed"
              /\ StartRead(c)
              /\ Goto(c, "rejudging")
              /\ UNCHANGED before
  \/ /\ ~Delta(c, after)
     /\ before[c].status # "NotFound"
     /\ NoDelta(c)

SettleAgain(c) ==
  /\ pc[c] = "settling"
  /\ \E after \in CapabilityReads(c) : ~Settled(c, after)
  /\ StartRead(c)
  /\ UNCHANGED <<chainVars, pc, before, outcome>>

SettleDone(c) ==
  /\ pc[c] = "settling"
  /\ \E after \in CapabilityReads(c) : Settled(c, after) /\ Classify(c, after)
  /\ UNCHANGED chainVars

(* Mutation of SettleTimeout: the loop has no deadline.                    *)
SettleTimeout_NoDeadline(c) == FALSE

SettleTimeout(c) ==
  /\ pc[c] = "settling"
  /\ \E after \in CapabilityReads(c) : ~Settled(c, after) /\ Classify(c, after)
  /\ UNCHANGED chainVars

Rejudge(c) ==
  /\ pc[c] = "rejudging"
  /\ \/ AllowlistCode(c, "OutOfAllowlist") /\ Finish(c, "OutOfAllowlist")
     \/ AllowlistCode(c, "Allowed") /\ Finish(c, "unsettled")
  /\ UNCHANGED chainVars

(* Any query may fail, and the error leaves enforce wherever it is.        *)
ReadFails(c) ==
  /\ pc[c] \in {"reading", "judging", "settling", "rejudging"}
  /\ Finish(c, "failed")
  /\ UNCHANGED chainVars

-----------------------------------------------------------------------------
Init ==
  /\ ChainInit
  /\ pc = [c \in Calls |-> "idle"]
  /\ before = [c \in Calls |-> Unread]
  /\ since = [c \in Calls |-> NoRead]
  /\ outcome = [c \in Calls |-> "none"]

Read(c) == ReadBefore(c) \/ JudgeAllowlist(c)
Submit(c) == SendAccepted(c) \/ SendRejected(c) \/ SendReplyLost(c)
Conclude(c) == SettleDone(c) \/ SettleTimeout(c) \/ Rejudge(c)

Call(c) ==
  \/ Enforce(c) \/ Read(c) \/ ReadFails(c)
  \/ Submit(c) \/ SettleAgain(c) \/ Conclude(c)

Chain == ChainNext /\ UNCHANGED callVars

Next == Chain \/ \E c \in Calls : Call(c)

Spec == Init /\ [][Next]_vars

(* The runtime resumes a call whose query was answered, and settle polls   *)
(* no longer than its window: its exit is taken in the end.  Nothing is    *)
(* assumed of the chain, of failures, or of another poll.                  *)
FairSpec == Spec /\ \A c \in Calls : WF_vars(Read(c) \/ Submit(c) \/ Conclude(c))

-----------------------------------------------------------------------------
(* Every variable has its type, and a call has an outcome exactly when it  *)
(* is done (enforce returns or throws once).                               *)
TypeOK ==
  /\ ChainTypeOK
  /\ pc \in [Calls -> {"idle", "reading", "judging", "sending", "settling",
                       "rejudging", "done"}]
  /\ before \in [Calls -> CapabilityRead]
  /\ since \in [Calls -> [Nodes -> Heights]]
  /\ outcome \in [Calls -> {"none"} \cup Verdicts \cup Throws]
  /\ \A c \in Calls : outcome[c] = "none" <=> ~Finished(c)

(* README.md, "What enforce returns": `allowed` is true only when the      *)
(* substrate authorized and recorded the action.  The verdict is inferred  *)
(* from counters every writer of the capability moves, so this is about    *)
(* attributing a change to the right call.                                 *)
AllowedSound == \A c \in Calls : outcome[c] = "Allowed" => Recorded(c)

(* CHANGELOG.md: "an action that later commits is never misreported as     *)
(* denied".  A denial stays true however late the transaction lands.       *)
DeniedNeverCommits == \A c \in Calls : outcome[c] \in Refusals => ~Recorded(c)

(* A denial that no submission precedes.                                   *)
FastDenied(c) == outcome[c] \in Refusals /\ fate[c] = "none"

(* From the oldest to the newest height the current read was served from.  *)
Span(c) == {h \in Heights : \E i, j \in Window(c) : i <= h /\ h <= j}

(* Evidence that the capability refuses the action of call c with code: at *)
(* a height the read spans it existed, and the contract would have refused *)
(* the action for that reason.  The zeros that the getters of an unminted  *)
(* capability return are not evidence of anything.                         *)
Evidence(c, code) ==
  \E h \in Span(c) :
    ledger[h].status # "NotFound" /\ code \in ContractRefusals(ledger[h], act[c])

DeniesAtOnce(c) == ~FastDenied(c) /\ FastDenied(c)'

(* enforce denies at once "backed by POSITIVE evidence (a committed        *)
(* capability observed revoked / expired / over budget ...)": absence is   *)
(* never a fast-deny.  Fields come from different heights, so a torn read  *)
(* could invent a refusal, or take half of it from before the mint.        *)
FastDenyJustified ==
  [][\A c \in Calls : DeniesAtOnce(c) => Evidence(c, outcome'[c])]_vars

(* The same of a read that began when the nodes it may use had all seen    *)
(* the mint: the principal's changes do not tear it into a false denial.   *)
VisibleDenyJustified ==
  [][\A c \in Calls :
       DeniesAtOnce(c) /\ (\A h \in Span(c) : ledger[h].status # "NotFound") =>
         Evidence(c, outcome'[c])]_vars

(* Nobody has changed the limits or the allowlist: all that happened to    *)
(* the capability is spending and, perhaps, its revocation.  A mint sets   *)
(* them, and so counts as a change of the blank state before it.           *)
PolicyUnchanged ==
  \A h \in Heights : \A f \in {"maxSpend", "validUntil", "allowed"} :
    ledger[h][f] = ledger[1][f]

(* "Deny outcomes are decided from the pre-state (spend only grows, expiry *)
(* and revocation are monotonic)": what was denied at once would be        *)
(* refused by the contract now and at any later time, unless the principal *)
(* changes the policy.                                                     *)
FastDenyFinal ==
  \A c \in Calls :
    PolicyUnchanged /\ FastDenied(c) => ContractRefusals(Latest, act[c]) # {}

(* "A refusal returns immediately -- no doomed transaction": of calls      *)
(* signed by the bound agent, only one that a change by the principal      *)
(* overtook is submitted for the contract to refuse.  This is the converse *)
(* of a justified denial: what prejudge lets pass, record_action accepts.  *)
NoDoomedTransaction ==
  \A c \in Calls :
    PolicyUnchanged /\ fate[c] \in Refusals => Latest.status = "Revoked"

(* A call that has started ends, with a verdict or an exception, whatever  *)
(* the chain does with its transaction.                                    *)
EveryCallEnds == \A c \in Calls : pc[c] # "idle" ~> Finished(c)

(* enforce keeps the promise: its outcomes against the recorded actions.   *)
Promise ==
  INSTANCE EnforcementPromise
    WITH recorded <- {c \in Calls : Recorded(c)}, verdict <- outcome,
         Denials <- Refusals, GivesUp <- Throws

KeepsPromise == Promise!Spec
=============================================================================
