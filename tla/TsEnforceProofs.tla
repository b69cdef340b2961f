-------------------------- MODULE TsEnforceProofs --------------------------
(***************************************************************************)
(* TsEnforce for any calls, nodes, actions, capabilities and discipline.   *)
(***************************************************************************)
EXTENDS TsEnforce, SubstrateProofs

-----------------------------------------------------------------------------
(* A read is answered from committed heights.                              *)
LEMMA ReadsCommitted ==
  ASSUME TypeOK, NEW c \in Calls
  PROVE  /\ Window(c) \subseteq Heights
         /\ CapabilityReads(c) \subseteq CapabilityRead
         /\ \A seen \in CapabilityReads(c) :
              \E h \in Heights : seen.status = ledger[h].status
<1>1. Window(c) \subseteq Heights
  <2> SUFFICES ASSUME NEW n \in Nodes, NEW h \in since[c][n] .. view[n]
               PROVE  h \in Heights
    BY DEF Window
  <2>1. since[c][n] \in Heights /\ view[n] \in Heights
    BY DEF TypeOK, ChainTypeOK
  <2> QED
    BY <2>1 DEF Heights
<1>2. \A h \in Heights : ledger[h] \in CapabilityState
  BY DEF TypeOK, ChainTypeOK, Heights
<1>3. /\ ReadOf(c, "status") \subseteq CapabilityStatus
      /\ ReadOf(c, "maxSpend") \subseteq Nat
      /\ ReadOf(c, "validUntil") \subseteq Nat
      /\ ReadOf(c, "totalSpent") \subseteq Nat
      /\ ReadOf(c, "actionCount") \subseteq Nat
  BY <1>1, <1>2 DEF ReadOf, CapabilityState
<1>4. CapabilityReads(c) \subseteq CapabilityRead
  BY <1>3 DEF CapabilityReads, CapabilityRead
<1>5. \A seen \in CapabilityReads(c) : seen.status \in ReadOf(c, "status")
  BY DEF CapabilityReads
<1>6. \A s \in ReadOf(c, "status") : \E h \in Heights : s = ledger[h].status
  BY <1>1 DEF ReadOf
<1> QED
  BY <1>1, <1>4, <1>5, <1>6

(* The cleared window starts at a height.                                  *)
LEMMA NoReadType == TypeOK => NoRead \in [Nodes -> Heights]
  BY DEF TypeOK, ChainTypeOK, Heights, NoRead

-----------------------------------------------------------------------------
(* The types, one lemma for each kind of step.  CallTypeOK is what TypeOK  *)
(* says of the calls.                                                      *)
CallTypeOK ==
  /\ pc \in [Calls -> {"idle", "reading", "judging", "sending", "settling",
                       "rejudging", "done"}]
  /\ before \in [Calls -> CapabilityRead]
  /\ since \in [Calls -> [Nodes -> Heights]]
  /\ outcome \in [Calls -> {"none"} \cup Verdicts \cup Throws]
  /\ \A c \in Calls : outcome[c] = "none" <=> ~Finished(c)

(* The type invariant, from the chain and the calls.                       *)
LEMMA TypeOKParts == ASSUME ChainTypeOK', CallTypeOK' PROVE TypeOK'
  BY DEF TypeOK, CallTypeOK

(* A call that ends keeps the types, and has an outcome.                   *)
LEMMA FinishType ==
  ASSUME TypeOK, NEW c \in Calls, NEW o \in Verdicts \cup Throws, Finish(c, o),
         Heights' = Heights
  PROVE  CallTypeOK'
<1>1. o # "none"
  BY DEF Verdicts, Codes, EnforcementCode, Throws
<1> QED
  BY <1>1, UnreadType, NoReadType DEF TypeOK, CallTypeOK, Finish, Finished

(* A call that goes on keeps the types, and has none.                      *)
LEMMA GotoType ==
  ASSUME TypeOK, NEW c \in Calls, pc[c] # "done", Heights' = Heights,
         NEW label \in {"reading", "judging", "sending", "settling", "rejudging"},
         Goto(c, label),
         before' \in [Calls -> CapabilityRead],
         since' = since \/ StartRead(c)
  PROVE  CallTypeOK'
<1>1. since' \in [Calls -> [Nodes -> Heights']]
  BY DEF TypeOK, ChainTypeOK, StartRead
<1> QED
  BY <1>1 DEF TypeOK, CallTypeOK, Goto, Finished

(* The legs before the submission keep the types.                          *)
LEMMA ReadType ==
  ASSUME TypeOK, NEW c \in Calls, Enforce(c) \/ Read(c) \/ ReadFails(c)
  PROVE  TypeOK'
<1>1. UNCHANGED chainVars
  BY DEF Enforce, Read, ReadBefore, JudgeAllowlist, ReadFails
<1>2. ChainTypeOK' /\ Heights' = Heights
  BY <1>1 DEF TypeOK, ChainTypeOK, Heights, chainVars
<1>3. CASE Enforce(c)
  BY <1>2, <1>3, GotoType, TypeOKParts DEF Enforce, TypeOK
<1>4. CASE ReadBefore(c)
  <2>1. PICK seen \in CapabilityReads(c) :
          LET code == Prejudge(seen, act[c])
          IN \/ /\ code = "NotFound"
                /\ before' = [before EXCEPT ![c] = seen]
                /\ Goto(c, "sending")
                /\ UNCHANGED since
             \/ /\ code = "Allowed"
                /\ before' = [before EXCEPT ![c] = seen]
                /\ StartRead(c)
                /\ Goto(c, "judging")
             \/ /\ code \notin {"NotFound", "Allowed"}
                /\ Finish(c, code)
    BY <1>4 DEF ReadBefore
  <2>2. seen \in CapabilityRead
    BY ReadsCommitted
  <2>3. CASE before' = [before EXCEPT ![c] = seen]
    <3>1. before' \in [Calls -> CapabilityRead]
      BY <2>2, <2>3 DEF TypeOK
    <3>2. CASE Goto(c, "sending") /\ UNCHANGED since
      BY <1>2, <1>4, <3>1, <3>2, GotoType, TypeOKParts DEF ReadBefore
    <3>3. CASE Goto(c, "judging") /\ StartRead(c)
      BY <1>2, <1>4, <3>1, <3>3, GotoType, TypeOKParts DEF ReadBefore
    <3>4. CASE \E code \in Codes : Finish(c, code)
      BY <1>2, <3>4, FinishType, TypeOKParts DEF Verdicts
    <3> QED
      BY <2>1, <3>2, <3>3, <3>4, PrejudgeOf
  <2>4. CASE \E code \in Codes : Finish(c, code)
    BY <1>2, <2>4, FinishType, TypeOKParts DEF Verdicts
  <2> QED
    BY <2>1, <2>3, <2>4, PrejudgeOf
<1>5. CASE JudgeAllowlist(c)
  <2>1. CASE Goto(c, "sending") /\ UNCHANGED <<before, since>>
    BY <1>2, <1>5, <2>1, GotoType, TypeOKParts DEF JudgeAllowlist, TypeOK
  <2>2. CASE Finish(c, "OutOfAllowlist")
    BY <1>2, <2>2, FinishType, TypeOKParts DEF Verdicts, Codes, EnforcementCode
  <2> QED
    BY <1>5, <2>1, <2>2 DEF JudgeAllowlist
<1>6. CASE ReadFails(c)
  BY <1>2, <1>6, FinishType, TypeOKParts DEF ReadFails, Throws
<1> QED
  BY <1>3, <1>4, <1>5, <1>6 DEF Read

(* The submission keeps the types, whatever the node answers.              *)
LEMMA SubmitType ==
  ASSUME TypeOK, NEW c \in Calls, Submit(c)
  PROVE  TypeOK'
<1>1. /\ fate' = [fate EXCEPT ![c] = "mempool"] \/ fate' = fate
      /\ UNCHANGED <<ledger, view, act>>
  BY DEF Submit, SendAccepted, SendRejected, SendReplyLost, chainVars
<1>2. ChainTypeOK' /\ Heights' = Heights
  BY <1>1 DEF TypeOK, ChainTypeOK, Heights
<1>3. CASE SendAccepted(c)
  BY <1>2, <1>3, GotoType, TypeOKParts DEF SendAccepted, TypeOK
<1>4. CASE SendRejected(c) \/ SendReplyLost(c)
  BY <1>2, <1>4, FinishType, TypeOKParts DEF SendRejected, SendReplyLost, Throws
<1> QED
  BY <1>3, <1>4 DEF Submit

(* What settle and its classification may do to the call.                  *)
LEMMA ConcludeOf ==
  ASSUME TypeOK, NEW c \in Calls, Conclude(c)
  PROVE  /\ pc[c] \in {"settling", "rejudging"}
         /\ UNCHANGED chainVars
         /\ \/ \E o \in {"Allowed", "unsettled"} : Finish(c, o)
            \/ /\ pc[c] = "rejudging" \/ before[c].status = "NotFound"
               /\ \/ \E o \in Codes : Finish(c, o)
                  \/ StartRead(c) /\ Goto(c, "rejudging") /\ UNCHANGED before
<1>1. CASE Rejudge(c)
  BY <1>1 DEF Rejudge, Codes, EnforcementCode
<1>2. ASSUME NEW after, Classify(c, after)
      PROVE  \/ \E o \in {"Allowed", "unsettled"} : Finish(c, o)
             \/ /\ before[c].status = "NotFound"
                /\ \/ \E o \in Codes : Finish(c, o)
                   \/ StartRead(c) /\ Goto(c, "rejudging") /\ UNCHANGED before
  BY <1>2, PrejudgeOf DEF Classify, NoDelta
<1>3. CASE SettleDone(c) \/ SettleTimeout(c)
  BY <1>2, <1>3 DEF SettleDone, SettleTimeout
<1> QED
  BY <1>1, <1>3 DEF Conclude

(* The legs after the submission keep the types.                           *)
LEMMA ConcludeType ==
  ASSUME TypeOK, NEW c \in Calls, SettleAgain(c) \/ Conclude(c)
  PROVE  TypeOK'
<1>1. UNCHANGED chainVars
  BY ConcludeOf DEF SettleAgain
<1>2. ChainTypeOK' /\ Heights' = Heights
  BY <1>1 DEF TypeOK, ChainTypeOK, Heights, chainVars
<1>3. CASE SettleAgain(c)
  <2>1. since' \in [Calls -> [Nodes -> Heights]]
    BY <1>3 DEF SettleAgain, StartRead, TypeOK, ChainTypeOK
  <2> QED
    BY <1>2, <1>3, <2>1, TypeOKParts DEF SettleAgain, TypeOK, CallTypeOK, Finished
<1>4. CASE Conclude(c)
  <2>1. CASE \E o \in Codes \cup Throws : Finish(c, o)
    BY <1>2, <2>1, FinishType, TypeOKParts DEF Verdicts
  <2>2. CASE StartRead(c) /\ Goto(c, "rejudging") /\ UNCHANGED before
    BY <1>2, <1>4, <2>2, ConcludeOf, GotoType, TypeOKParts DEF TypeOK
  <2>3. "Allowed" \in Codes /\ "unsettled" \in Throws
    BY DEF Codes, EnforcementCode, Throws
  <2> QED
    BY <1>4, <2>1, <2>2, <2>3, ConcludeOf
<1> QED
  BY <1>3, <1>4

(* The chain keeps the types.                                              *)
LEMMA ChainType ==
  ASSUME TypeOK, Chain
  PROVE  TypeOK'
<1>1. ChainTypeOK' /\ Heights \subseteq Heights'
  BY ChainStep DEF Chain, TypeOK
<1>2. UNCHANGED <<pc, before, since, outcome>>
  BY DEF Chain, callVars
<1>3. since' \in [Calls -> [Nodes -> Heights']]
  BY <1>1, <1>2 DEF TypeOK
<1> QED
  BY <1>1, <1>2, <1>3, TypeOKParts DEF TypeOK, CallTypeOK, Finished

(* The types hold at the start.                                            *)
LEMMA InitType == Init => TypeOK
<1> SUFFICES ASSUME Init PROVE TypeOK
  OBVIOUS
<1> USE SubstrateAssumption DEF Init, ChainInit
<1>1. PICK cap \in Capabilities : ledger = <<cap>>
  OBVIOUS
<1>2. ledger \in Seq(CapabilityState) /\ Len(ledger) = 1 /\ ledger # <<>>
  BY <1>1
<1>3. Heights = {1}
  BY <1>2 DEF Heights
<1>4. ChainTypeOK
  BY <1>2, <1>3 DEF ChainTypeOK
<1>5. CallTypeOK
  BY <1>3, UnreadType DEF CallTypeOK, NoRead, Finished
<1> QED
  BY <1>4, <1>5 DEF TypeOK, CallTypeOK

(* Every step keeps the types.                                             *)
LEMMA NextType == TypeOK /\ [Next]_vars => TypeOK'
<1> SUFFICES ASSUME TypeOK, [Next]_vars PROVE TypeOK'
  OBVIOUS
<1>1. CASE Chain
  BY <1>1, ChainType
<1>2. ASSUME NEW c \in Calls, Call(c) PROVE TypeOK'
  BY <1>2, ReadType, SubmitType, ConcludeType DEF Call
<1>3. CASE UNCHANGED vars
  BY <1>3 DEF vars, chainVars, callVars, TypeOK, ChainTypeOK, Heights, Finished
<1> QED
  BY <1>1, <1>2, <1>3 DEF Next

(* client.ts, enforce: every variable has its type, and a call has an      *)
(* outcome exactly when it is done.                                        *)
THEOREM TypeCorrect == Spec => []TypeOK
  BY InitType, NextType, PTL DEF Spec

-----------------------------------------------------------------------------
(* Denials.  When the capability is visible before the first call, on      *)
(* every node, a denial is decided before anything is submitted, so no     *)
(* commit can contradict it, however the calls overlap and however far the *)
(* nodes lag.  (While a mint is in flight this fails: run ts_unminted.)    *)
Visible == \A cap \in Capabilities : cap.status # "NotFound"

MintedSince == \A h \in Heights : ledger[h].status # "NotFound"

SeenMinted ==
  \A c \in Calls :
    /\ pc[c] # "rejudging"
    /\ pc[c] \in {"judging", "sending", "settling"} => before[c].status # "NotFound"

UnsentUntilSend ==
  \A c \in Calls : pc[c] \in {"idle", "reading", "judging", "sending"} => fate[c] = "none"

DeniedUnsent == \A c \in Calls : outcome[c] \in Refusals => fate[c] = "none"

DInv == TypeOK /\ MintedSince /\ SeenMinted /\ UnsentUntilSend /\ DeniedUnsent

(* The invariant of denials holds before the first call.                   *)
LEMMA InitDInv == Visible /\ Init => DInv
<1> SUFFICES ASSUME Visible, Init PROVE DInv
  OBVIOUS
<1>1. PICK cap \in Capabilities : ledger = <<cap>>
  BY DEF Init, ChainInit
<1>2. MintedSince
  BY <1>1 DEF Visible, MintedSince, Heights
<1>3. SeenMinted /\ UnsentUntilSend /\ DeniedUnsent
  BY DEF Init, ChainInit, SeenMinted, UnsentUntilSend, DeniedUnsent, Refusals, Codes,
         EnforcementCode
<1> QED
  BY <1>2, <1>3, InitType DEF DInv

(* The chain keeps it: what a call was denied is never included.           *)
LEMMA ChainDInv == ASSUME DInv, Chain PROVE DInv'
<1>1. TypeOK' /\ ChainTypeOK
  BY ChainType DEF DInv, TypeOK
<1>2. \A c \in Calls : fate[c] = "none" => fate'[c] = "none"
  BY <1>1, ChainStep DEF Chain, InFlight
<1>3. UNCHANGED <<pc, before, since, outcome>>
  BY DEF Chain, callVars
<1>4. MintedSince'
  <2>1. CASE ledger' = ledger
    BY <2>1 DEF DInv, MintedSince, Heights
  <2>2. CASE ledger' # ledger
    <3>1. PICK cap \in CapabilityState :
             /\ Commit(cap)
             /\ cap.status # "NotFound"
      BY <1>1, <2>2, CommitsOf DEF Chain
    <3>2. /\ Len(ledger') = Len(ledger) + 1
          /\ \A h \in Heights : ledger'[h] = ledger[h]
          /\ ledger'[Len(ledger) + 1] = cap
          /\ Len(ledger) \in Nat \ {0}
      BY <1>1, <3>1, CommitAppends
    <3>3. Latest.status # "NotFound"
      BY <3>2 DEF DInv, MintedSince, Heights, Latest
    <3> QED
      BY <3>1, <3>2, <3>3 DEF DInv, MintedSince, Heights
  <2> QED
    BY <2>1, <2>2
<1> QED
  BY <1>1, <1>2, <1>3, <1>4 DEF DInv, SeenMinted, UnsentUntilSend, DeniedUnsent

(* A call that ends keeps it, if it denies only what it did not submit.    *)
LEMMA FinishDInv ==
  ASSUME DInv, TypeOK', MintedSince', NEW c \in Calls, NEW o, Finish(c, o),
         \A d \in Calls : d # c => fate'[d] = fate[d],
         o \in Refusals => fate'[c] = "none"
  PROVE  DInv'
<1>1. /\ pc'[c] = "done"
      /\ outcome'[c] = o
      /\ \A d \in Calls : d # c => /\ pc'[d] = pc[d]
                                  /\ outcome'[d] = outcome[d]
                                  /\ before'[d] = before[d]
  BY DEF Finish, DInv, TypeOK
<1>2. SeenMinted'
  BY <1>1 DEF DInv, SeenMinted
<1>3. UnsentUntilSend'
  BY <1>1 DEF DInv, UnsentUntilSend
<1>4. DeniedUnsent'
  BY <1>1 DEF DInv, DeniedUnsent
<1> QED
  BY <1>2, <1>3, <1>4 DEF DInv

(* Every leg of enforce keeps it: on a visible capability the only denials *)
(* are those that precede a submission.                                    *)
LEMMA CallDInv == ASSUME DInv, NEW c \in Calls, Call(c) PROVE DInv'
<1>1. TypeOK /\ TypeOK'
  BY NextType DEF DInv, Next
<1>2. ledger' = ledger
  BY <1>1, ConcludeOf
  DEF Call, Enforce, Read, ReadBefore, JudgeAllowlist, ReadFails, Submit, SendAccepted,
      SendRejected, SendReplyLost, SettleAgain, chainVars
<1>3. MintedSince'
  BY <1>2 DEF DInv, MintedSince, Heights
<1>4. ASSUME NEW o, Finish(c, o), fate' = fate, o \in Refusals => fate[c] = "none"
      PROVE  DInv'
  BY <1>1, <1>3, <1>4, FinishDInv
<1>5. \A o \in Throws : o \notin Refusals
  BY DEF Throws, Refusals, Codes, EnforcementCode
<1> USE <1>1 DEF DInv, TypeOK
<1>6. CASE Enforce(c)
  BY <1>3, <1>6 DEF Enforce, Goto, chainVars, SeenMinted, UnsentUntilSend, DeniedUnsent
<1>7. CASE ReadBefore(c)
  <2>1. PICK seen \in CapabilityReads(c) :
          LET code == Prejudge(seen, act[c])
          IN \/ /\ code = "NotFound"
                /\ before' = [before EXCEPT ![c] = seen]
                /\ Goto(c, "sending")
                /\ UNCHANGED since
             \/ /\ code = "Allowed"
                /\ before' = [before EXCEPT ![c] = seen]
                /\ StartRead(c)
                /\ Goto(c, "judging")
             \/ /\ code \notin {"NotFound", "Allowed"}
                /\ Finish(c, code)
    BY <1>7 DEF ReadBefore
  <2>2. seen.status # "NotFound"
    BY ReadsCommitted DEF MintedSince
  <2>3. Prejudge(seen, act[c]) # "NotFound"
    BY <2>2, PrejudgeOf
  <2>4. fate' = fate /\ fate[c] = "none"
    BY <1>7 DEF ReadBefore, chainVars, UnsentUntilSend
  <2>5. CASE before' = [before EXCEPT ![c] = seen] /\ Goto(c, "judging")
    BY <1>3, <1>7, <2>2, <2>4, <2>5
    DEF ReadBefore, Goto, SeenMinted, UnsentUntilSend, DeniedUnsent
  <2>6. CASE \E o : Finish(c, o)
    BY <1>4, <2>4, <2>6
  <2> QED
    BY <2>1, <2>3, <2>5, <2>6
<1>8. CASE JudgeAllowlist(c)
  <2>1. fate' = fate /\ fate[c] = "none"
    BY <1>8 DEF JudgeAllowlist, chainVars, UnsentUntilSend
  <2>2. CASE Goto(c, "sending") /\ UNCHANGED before
    BY <1>3, <1>8, <2>1, <2>2
    DEF JudgeAllowlist, Goto, SeenMinted, UnsentUntilSend, DeniedUnsent
  <2>3. CASE Finish(c, "OutOfAllowlist")
    BY <1>4, <2>1, <2>3
  <2> QED
    BY <1>8, <2>2, <2>3 DEF JudgeAllowlist
<1>9. CASE ReadFails(c)
  BY <1>4, <1>5, <1>9 DEF ReadFails, Throws, chainVars
<1>10. CASE SendAccepted(c)
  <2>1. outcome[c] = "none" /\ "none" \notin Refusals
    BY <1>10 DEF SendAccepted, Finished, Refusals, Codes, EnforcementCode
  <2>2. /\ pc[c] = "sending" /\ pc'[c] = "settling"
        /\ \A d \in Calls : d # c => pc'[d] = pc[d] /\ fate'[d] = fate[d]
        /\ UNCHANGED <<before, outcome>>
    BY <1>10 DEF SendAccepted, Goto, ChainTypeOK
  <2> QED
    BY <1>3, <2>1, <2>2 DEF SeenMinted, UnsentUntilSend, DeniedUnsent
<1>11. CASE SendRejected(c) \/ SendReplyLost(c)
  <2>1. /\ Finish(c, "failed")
        /\ \A d \in Calls : d # c => fate'[d] = fate[d]
    BY <1>11 DEF SendRejected, SendReplyLost, ChainTypeOK, chainVars
  <2>2. "failed" \notin Refusals
    BY <1>5 DEF Throws
  <2> QED
    BY <1>1, <1>3, <2>1, <2>2, FinishDInv
<1>12. CASE SettleAgain(c)
  BY <1>3, <1>12 DEF SettleAgain, chainVars, SeenMinted, UnsentUntilSend, DeniedUnsent
<1>13. CASE Conclude(c)
  <2>1. /\ UNCHANGED fate
        /\ \E o \in {"Allowed", "unsettled"} : Finish(c, o)
    BY <1>13, ConcludeOf DEF SeenMinted, chainVars
  <2>2. "Allowed" \notin Refusals /\ "unsettled" \notin Refusals
    BY DEF Refusals, Codes, EnforcementCode
  <2> QED
    BY <1>4, <2>1, <2>2
<1> QED
  BY <1>6, <1>7, <1>8, <1>9, <1>10, <1>11, <1>12, <1>13 DEF Call, Read, Submit

(* CHANGELOG.md: "an action that later commits is never misreported as     *)
(* denied", once the capability is visible.                                *)
THEOREM DenialsHold == ASSUME Visible PROVE Spec => []DeniedNeverCommits
<1>1. Init => DInv
  BY InitDInv
<1>2. DInv /\ [Next]_vars => DInv'
  <2>1. ASSUME DInv, UNCHANGED vars PROVE DInv'
    BY <2>1, NextType
    DEF DInv, vars, chainVars, callVars, MintedSince, Heights, SeenMinted,
        UnsentUntilSend, DeniedUnsent
  <2> QED
    BY <2>1, ChainDInv, CallDInv DEF Next
<1>3. DInv => DeniedNeverCommits
  BY DEF DInv, DeniedUnsent, DeniedNeverCommits, Recorded
<1> QED
  BY <1>1, <1>2, <1>3, PTL DEF Spec
=============================================================================
