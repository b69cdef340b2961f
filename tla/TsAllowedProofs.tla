-------------------------- MODULE TsAllowedProofs --------------------------
(***************************************************************************)
(* The documented pattern of use is enough for `allowed`: one call at a    *)
(* time, each started after the previous one returned a verdict, through   *)
(* one node, on a capability that is visible.  Then a change of the        *)
(* counters that a call observes is its own, so `allowed` is returned only *)
(* for a recorded action, for any number of calls, whatever the principal  *)
(* does meanwhile and however far the node lags.  Run ts_nodes shows that  *)
(* a second node is too many; a call that starts while an action is still  *)
(* in flight ("awaited") is another counterexample.                        *)
(*                                                                         *)
(* The argument: when a call starts, the node already shows every recorded *)
(* action, because the call before it returned `allowed` on seeing its own *)
(* (CaughtUp); so the count it reads first is the committed one, and stays *)
(* so until its own action is recorded (Baseline).                         *)
(***************************************************************************)
EXTENDS TsEnforceProofs

Serial ==
  /\ Discipline = "settled"
  /\ \A m, n \in Nodes : m = n
  /\ Visible

Active(c) == pc[c] \notin {"idle", "done"}

NoThrow == \A c \in Calls : outcome[c] \notin Throws

Count(h) == ledger[h].actionCount
Committed == Count(Len(ledger))

CountsGrow == \A i, j \in Heights : i <= j => Count(i) <= Count(j)

OneAtATime ==
  \A c \in Calls :
    Active(c) => NoThrow /\ \A d \in Calls : d # c => ~Active(d)

ReadsStarted == \A c \in Calls, n \in Nodes : since[c][n] <= view[n]

CaughtUp ==
  (NoThrow /\ \A c \in Calls : ~Active(c)) => \A n \in Nodes : Count(view[n]) = Committed

(* What the running call knows of the committed count.                     *)
Baseline ==
  \A c \in Calls :
    /\ pc[c] = "reading" => \A n \in Nodes : Count(since[c][n]) = Committed
    /\ pc[c] \in {"judging", "sending"} =>
         /\ before[c].actionCount = Committed
         /\ \A n \in Nodes : Count(view[n]) = Committed
    /\ pc[c] = "settling" =>
         Committed = before[c].actionCount + (IF Recorded(c) THEN 1 ELSE 0)

AInv ==
  /\ DInv
  /\ CountsGrow
  /\ OneAtATime
  /\ ReadsStarted
  /\ CaughtUp
  /\ Baseline
  /\ AllowedSound

-----------------------------------------------------------------------------
(* A commit leaves the count, or is the record of a call in flight.        *)
LEMMA ChainCounts ==
  ASSUME DInv, ChainNext, ledger' # ledger
  PROVE  \E cap \in CapabilityState :
            /\ Commit(cap)
            /\ view' = view
            /\ \/ fate' = fate /\ cap.actionCount = Latest.actionCount
               \/ \E c \in Calls : /\ InFlight(c)
                                   /\ fate' = [fate EXCEPT ![c] = "Allowed"]
                                   /\ cap.actionCount = Latest.actionCount + 1
<1>1. ChainTypeOK /\ Latest \in CapabilityState /\ Latest.status # "NotFound"
  <2>1. ChainTypeOK
    BY DEF DInv, TypeOK
  <2>2. Len(ledger) \in Heights
    BY <2>1 DEF ChainTypeOK, Heights
  <2> QED
    BY <2>1, <2>2, LatestType DEF DInv, MintedSince, Latest
<1>2. Latest.status # "Revoked" => Latest.status = "Active"
  BY <1>1 DEF CapabilityState, CapabilityStatus
<1> QED
  BY <1>1, <1>2, CommitsOf

(* Counts are natural numbers, and no height has more than the last.       *)
LEMMA CountFacts ==
  ASSUME AInv
  PROVE  /\ Len(ledger) \in Heights
         /\ \A h \in Heights : Count(h) \in Nat /\ Count(h) <= Committed
         /\ \A n \in Nodes : view[n] \in Heights
         /\ \A c \in Calls, n \in Nodes : since[c][n] \in Heights
<1>1. TypeOK /\ ChainTypeOK
  BY DEF AInv, DInv, TypeOK
<1>2. Len(ledger) \in Heights /\ \A h \in Heights : h <= Len(ledger)
  BY <1>1 DEF ChainTypeOK, Heights
<1>3. \A h \in Heights : Count(h) \in Nat
  <2>1. \A h \in Heights : ledger[h] \in CapabilityState
    BY <1>1 DEF ChainTypeOK, Heights
  <2> QED
    BY <2>1 DEF Count, CapabilityState
<1>4. \A h \in Heights : Count(h) <= Committed
  BY <1>2 DEF AInv, CountsGrow, Committed
<1> QED
  BY <1>1, <1>2, <1>3, <1>4 DEF TypeOK, ChainTypeOK

(* With one node, a read is served between two heights of that node.       *)
LEMMA OneNodeWindow ==
  ASSUME Serial, AInv, NEW c \in Calls, NEW n \in Nodes, NEW h \in Window(c)
  PROVE  h \in Heights /\ since[c][n] <= h /\ h <= view[n]
<1>1. PICK m \in Nodes : h \in since[c][m] .. view[m]
  BY DEF Window
<1>2. m = n
  BY DEF Serial
<1> QED
  BY <1>1, <1>2, CountFacts DEF Heights

(* The count a call reads is the count of a height in its window.          *)
LEMMA CountsOfReads ==
  ASSUME NEW c \in Calls, NEW seen \in CapabilityReads(c)
  PROVE  \E h \in Window(c) : seen.actionCount = Count(h)
<1>1. seen.actionCount \in ReadOf(c, "actionCount")
  BY DEF CapabilityReads
<1> QED
  BY <1>1 DEF ReadOf, Count

(* A reading call finds the committed count, and so does the node.         *)
LEMMA ReadingSeesAll ==
  ASSUME Serial, AInv, NEW c \in Calls, pc[c] = "reading"
  PROVE  /\ \A n \in Nodes : Count(view[n]) = Committed
         /\ \A seen \in CapabilityReads(c) : seen.actionCount = Committed
<1>1. \A n \in Nodes : Count(since[c][n]) = Committed
  BY DEF AInv, Baseline
<1>2. ASSUME NEW n \in Nodes, NEW h \in Heights, since[c][n] <= h
      PROVE  Count(h) = Committed
  BY <1>1, <1>2, CountFacts DEF AInv, CountsGrow
<1>3. PICK n \in Nodes : TRUE
  BY SubstrateAssumption
<1>4. \A h \in Window(c) : Count(h) = Committed
  BY <1>2, <1>3, OneNodeWindow
<1>5. \A m \in Nodes : Count(view[m]) = Committed
  <2> SUFFICES ASSUME NEW m \in Nodes PROVE Count(view[m]) = Committed
    OBVIOUS
  <2>1. since[c][m] \in Heights /\ view[m] \in Heights
    BY CountFacts
  <2> QED
    BY <1>2, <2>1 DEF AInv, ReadsStarted
<1> QED
  BY <1>4, <1>5, CountsOfReads

-----------------------------------------------------------------------------
(* The invariant holds before the first call.                              *)
LEMMA InitAInv == Serial /\ Init => AInv
<1> SUFFICES ASSUME Serial, Init PROVE AInv
  OBVIOUS
<1>1. DInv
  BY InitDInv DEF Serial
<1>2. PICK cap \in Capabilities : ledger = <<cap>>
  BY DEF Init, ChainInit
<1>3. Len(ledger) = 1 /\ Heights = {1} /\ view = [n \in Nodes |-> 1]
  BY <1>2 DEF Heights, Init, ChainInit
<1>4. \A c \in Calls : pc[c] = "idle" /\ outcome[c] = "none" /\ since[c] = NoRead
  BY DEF Init
<1>5. Count(1) \in Nat
  <2>1. ledger[1] \in CapabilityState
    BY <1>2, SubstrateAssumption
  <2> QED
    BY <2>1 DEF Count, CapabilityState
<1>6. CountsGrow
  BY <1>3, <1>5 DEF CountsGrow
<1>7. OneAtATime /\ Baseline /\ AllowedSound
  BY <1>4 DEF OneAtATime, Active, Baseline, AllowedSound
<1>8. CaughtUp /\ ReadsStarted
  BY <1>3, <1>4 DEF CaughtUp, Committed, ReadsStarted, NoRead
<1> QED
  BY <1>1, <1>6, <1>7, <1>8 DEF AInv

(* Steps of the chain that commit nothing: a refusal, a node catching up.  *)
LEMMA QuietAInv ==
  ASSUME Serial, AInv, Chain, ledger' = ledger
  PROVE  AInv'
<1>1. DInv' /\ TypeOK /\ ChainTypeOK
  BY ChainDInv DEF AInv, DInv, TypeOK
<1>2. /\ \A h : Count(h)' = Count(h)
      /\ Committed' = Committed
      /\ Heights' = Heights
      /\ UNCHANGED <<pc, before, since, outcome>>
  BY DEF Chain, callVars, Count, Committed, Heights
<1>3. \A c \in Calls : Recorded(c) => Recorded(c)'
  BY <1>1, ChainStep DEF Chain, InFlight, Recorded
<1>4. \A c \in Calls : Recorded(c)' => Recorded(c)
  <2>1. ASSUME NEW d \in Calls, Include(d)
        PROVE  \A c \in Calls : Recorded(c)' => Recorded(c)
    <3>1. ContractCode(Latest, act[d]) # "Allowed"
      <4>1. Commit(RecordAction(Latest, act[d])) => ledger' # ledger
        <5>1. RecordAction(Latest, act[d]) \in CapabilityState
          <6>1. Latest \in CapabilityState /\ act[d].amount \in Nat
            BY <1>1, LatestType, SubstrateAssumption DEF ChainTypeOK, Action
          <6> QED
            BY <6>1, RecordActionType
        <5> QED
          BY <1>1, <5>1, CommitAppends
      <4> QED
        BY <2>1, <4>1 DEF Include
    <3> QED
      BY <1>1, <2>1, <3>1 DEF Include, Recorded, ChainTypeOK
  <2>2. ASSUME \A d \in Calls : ~Include(d) PROVE fate' = fate
    BY <2>2 DEF Chain, ChainNext, Replicate, Principal, Mint, ChangeLimits, Revoke, Allow
  <2> QED
    BY <2>1, <2>2 DEF Recorded
<1>5. \A n \in Nodes : view'[n] \in Heights /\ view[n] <= view'[n]
  <2>1. ASSUME NEW m \in Nodes, Replicate(m)
        PROVE  \A n \in Nodes : view'[n] \in Heights /\ view[n] <= view'[n]
    BY <1>1, <2>1 DEF Replicate, ChainTypeOK, Heights
  <2>2. ASSUME view' = view
        PROVE  \A n \in Nodes : view'[n] \in Heights /\ view[n] <= view'[n]
    BY <1>1, <2>2 DEF ChainTypeOK, Heights
  <2> QED
    BY <2>1, <2>2 DEF Chain, ChainNext, Include, Principal, Mint, ChangeLimits, Revoke, Allow
<1>6. \A n \in Nodes : Count(view[n]) = Committed => Count(view'[n]) = Committed
  BY <1>5, CountFacts DEF AInv, CountsGrow
<1>7. CountsGrow' /\ OneAtATime'
  BY <1>2 DEF AInv, CountsGrow, OneAtATime, NoThrow, Active
<1>8. CaughtUp'
  BY <1>2, <1>6 DEF AInv, CaughtUp, NoThrow, Active
<1>9. Baseline'
  BY <1>2, <1>3, <1>4, <1>6 DEF AInv, Baseline
<1>10. ReadsStarted'
  BY <1>2, <1>5, CountFacts DEF AInv, ReadsStarted, Heights
<1>11. AllowedSound'
  BY <1>2, <1>3 DEF AInv, AllowedSound
<1> QED
  BY <1>1, <1>7, <1>8, <1>9, <1>10, <1>11 DEF AInv

(* Commits: the count stays, or it is the running call's record.           *)
LEMMA CommitAInv ==
  ASSUME Serial, AInv, Chain, ledger' # ledger
  PROVE  AInv'
<1>1. DInv' /\ TypeOK /\ ChainTypeOK
  BY ChainDInv DEF AInv, DInv, TypeOK
<1>2. PICK cap \in CapabilityState :
         /\ Commit(cap)
         /\ view' = view
         /\ \/ fate' = fate /\ cap.actionCount = Latest.actionCount
            \/ \E c \in Calls : /\ InFlight(c)
                                /\ fate' = [fate EXCEPT ![c] = "Allowed"]
                                /\ cap.actionCount = Latest.actionCount + 1
  BY ChainCounts DEF AInv, Chain
<1>0. PICK N : N = Len(ledger)
  OBVIOUS
<1>3. /\ Len(ledger') = N + 1
      /\ \A h \in Heights : ledger'[h] = ledger[h]
      /\ ledger'[N + 1] = cap
      /\ N \in Nat \ {0}
  BY <1>1, <1>2, <1>0, CommitAppends
<1>4. UNCHANGED <<pc, before, since, outcome, view>>
  BY <1>2 DEF Chain, callVars
<1>5. /\ \A h \in Heights : Count(h)' = Count(h)
      /\ Committed' = cap.actionCount
      /\ Committed = Latest.actionCount
      /\ \A h \in Heights' : h \in Heights \/ h = N + 1
      /\ \A h \in Heights : h \in Nat /\ h < N + 1
      /\ Count(N + 1)' = cap.actionCount
  BY <1>3, <1>0 DEF Count, Committed, Latest, Heights
<1>6. Committed \in Nat /\ \A h \in Heights : Count(h) \in Nat /\ Count(h) <= Committed
  BY CountFacts DEF Committed
<1>7. CountsGrow'
  <2>1. cap.actionCount >= Committed /\ cap.actionCount \in Nat
    BY <1>2, <1>5, <1>6
  <2> QED
    BY <1>3, <1>5, <1>6, <2>1, SMTT(30) DEF AInv, CountsGrow
<1>8. OneAtATime' /\ ReadsStarted'
  BY <1>4 DEF AInv, OneAtATime, ReadsStarted, NoThrow, Active
<1>9. \A n \in Nodes : view[n] \in Heights
  BY CountFacts
<1>10. \A c \in Calls, n \in Nodes : since[c][n] \in Heights
  BY CountFacts
<1>11. CASE fate' = fate /\ cap.actionCount = Latest.actionCount
  <2>1. CaughtUp'
    BY <1>4, <1>5, <1>9, <1>11 DEF AInv, CaughtUp, NoThrow, Active
  <2>2. Baseline'
    BY <1>4, <1>5, <1>9, <1>10, <1>11 DEF AInv, Baseline, Recorded
  <2>3. AllowedSound'
    BY <1>4, <1>11 DEF AInv, AllowedSound, Recorded
  <2> QED
    BY <1>1, <1>7, <1>8, <2>1, <2>2, <2>3 DEF AInv
<1>12. ASSUME NEW c \in Calls, InFlight(c), fate' = [fate EXCEPT ![c] = "Allowed"],
              cap.actionCount = Latest.actionCount + 1
       PROVE  AInv'
  <2>1. /\ Recorded(c)' /\ ~Recorded(c) /\ fate[c] = "mempool"
        /\ \A d \in Calls : d # c => Recorded(d)' = Recorded(d)
    BY <1>1, <1>12 DEF ChainTypeOK, Recorded, InFlight
  <2>2. pc[c] \in {"settling", "done"}
    BY <1>1, <2>1 DEF AInv, DInv, TypeOK, UnsentUntilSend, SeenMinted
  <2>3. AllowedSound'
    BY <1>4, <2>1 DEF AInv, AllowedSound
  <2>4. CASE pc[c] = "settling"
    <3>1. Active(c) /\ \A d \in Calls : d # c => pc[d] \in {"idle", "done"}
      BY <2>4 DEF AInv, OneAtATime, Active
    <3>2. CaughtUp'
      BY <1>4, <3>1 DEF CaughtUp, Active
    <3>3. Committed' = before[c].actionCount + 1
      <4>1. before[c].actionCount \in Nat
        BY <1>1 DEF TypeOK, CapabilityRead
      <4>2. Committed = before[c].actionCount + 0
        BY <2>1, <2>4 DEF AInv, Baseline
      <4> QED
        BY <1>5, <1>12, <4>1, <4>2
    <3>4. Baseline'
      BY <1>4, <2>1, <2>4, <3>1, <3>3 DEF Baseline
    <3> QED
      BY <1>1, <1>7, <1>8, <2>3, <3>2, <3>4 DEF AInv
  <2>5. CASE pc[c] = "done"
    <3>1. outcome[c] \in Throws
      <4>1. outcome[c] \in Codes \cup Throws
        BY <1>1, <2>5 DEF TypeOK, Finished, Verdicts
      <4>2. outcome[c] # "Allowed"
        BY <2>1 DEF AInv, AllowedSound
      <4>3. outcome[c] \notin Refusals
        BY <2>1 DEF AInv, DInv, DeniedUnsent
      <4> QED
        BY <4>1, <4>2, <4>3 DEF Refusals
    <3>2. \A d \in Calls : pc[d] \in {"idle", "done"}
      BY <3>1 DEF AInv, OneAtATime, NoThrow, Active
    <3>3. CaughtUp' /\ Baseline'
      BY <1>4, <3>1, <3>2 DEF CaughtUp, NoThrow, Baseline
    <3> QED
      BY <1>1, <1>7, <1>8, <2>3, <3>3 DEF AInv
  <2> QED
    BY <2>2, <2>4, <2>5
<1> QED
  BY <1>2, <1>11, <1>12

-----------------------------------------------------------------------------
(* A running call leaves the ledger to the chain.                          *)
LEMMA CallLedger ==
  ASSUME TypeOK, NEW c \in Calls, Call(c)
  PROVE  UNCHANGED <<ledger, view>> /\ Heights' = Heights /\ Committed' = Committed
         /\ \A h : Count(h)' = Count(h)
<1>1. UNCHANGED <<ledger, view>>
  BY ConcludeOf
  DEF Call, Enforce, Read, ReadBefore, JudgeAllowlist, ReadFails, Submit, SendAccepted,
      SendRejected, SendReplyLost, SettleAgain, chainVars
<1> QED
  BY <1>1 DEF Heights, Committed, Count

(* A call ends.  When it throws, no other will start.  When it returns a   *)
(* code, the node must have caught up for the next.                        *)
LEMMA FinishAInv ==
  ASSUME AInv, DInv', NEW c \in Calls, Call(c), Active(c), NEW o, Finish(c, o),
         \/ o \in Throws /\ \A d \in Calls : d # c => fate'[d] = fate[d]
         \/ /\ fate' = fate
            /\ \A n \in Nodes : Count(view[n]) = Committed
            /\ o = "Allowed" => Recorded(c)
  PROVE  AInv'
<1>1. TypeOK /\ ChainTypeOK
  BY DEF AInv, DInv, TypeOK
<1>2. UNCHANGED <<ledger, view>> /\ Heights' = Heights /\ Committed' = Committed
      /\ \A h : Count(h)' = Count(h)
  BY <1>1, CallLedger
<1>3. /\ pc'[c] = "done" /\ outcome'[c] = o /\ since'[c] = NoRead
      /\ \A d \in Calls : d # c => /\ pc'[d] = pc[d] /\ outcome'[d] = outcome[d]
                                  /\ since'[d] = since[d]
  BY <1>1 DEF Finish, TypeOK
<1>4. \A d \in Calls : pc'[d] \in {"idle", "done"}
  BY <1>3 DEF AInv, OneAtATime, Active
<1>5. CountsGrow'
  BY <1>2 DEF AInv, CountsGrow
<1>6. OneAtATime' /\ Baseline'
  BY <1>4 DEF OneAtATime, Active, Baseline
<1>7. ReadsStarted'
  <2>1. \A n \in Nodes : 1 <= view[n]
    BY CountFacts DEF Heights
  <2> QED
    BY <1>2, <1>3, <2>1 DEF AInv, ReadsStarted, NoRead
<1>8. CaughtUp'
  BY <1>2, <1>3 DEF CaughtUp, NoThrow
<1>9. AllowedSound'
  <2>1. \A d \in Calls : d # c => (Recorded(d) <=> Recorded(d)')
    BY DEF Recorded
  <2>2. o = "Allowed" => Recorded(c)'
    BY DEF Recorded, Throws
  <2> QED
    BY <1>3, <2>1, <2>2 DEF AInv, AllowedSound
<1> QED
  BY <1>5, <1>6, <1>7, <1>8, <1>9 DEF AInv

(* A call goes on: what is new is its own label, baseline and read.        *)
LEMMA GoesOnAInv ==
  ASSUME AInv, DInv', NEW c \in Calls, Call(c), outcome' = outcome, Active(c)',
         \A d \in Calls : d # c => /\ pc'[d] = pc[d] /\ ~Active(d)
                                 /\ since'[d] = since[d] /\ fate'[d] = fate[d],
         NoThrow, fate'[c] = fate[c] \/ fate'[c] = "mempool",
         since'[c] = since[c] \/ since'[c] = view,
         pc'[c] = "reading" => \A n \in Nodes : Count(since'[c][n]) = Committed,
         pc'[c] \in {"judging", "sending"} =>
           before'[c].actionCount = Committed /\ \A n \in Nodes : Count(view[n]) = Committed,
         pc'[c] = "settling" =>
           Committed = before'[c].actionCount + (IF Recorded(c)' THEN 1 ELSE 0)
  PROVE  AInv'
<1>1. TypeOK /\ ChainTypeOK
  BY DEF AInv, DInv, TypeOK
<1>2. UNCHANGED <<ledger, view>> /\ Heights' = Heights /\ Committed' = Committed
      /\ \A h : Count(h)' = Count(h)
  BY <1>1, CallLedger
<1>3. CountsGrow'
  BY <1>2 DEF AInv, CountsGrow
<1>4. \A d \in Calls : d # c => pc'[d] \in {"idle", "done"}
  BY DEF Active
<1>5. OneAtATime'
  BY <1>4 DEF OneAtATime, Active, NoThrow
<1>6. CaughtUp'
  BY DEF CaughtUp, Active
<1>7. ReadsStarted'
  <2>1. \A n \in Nodes : view[n] \in Nat
    BY CountFacts DEF Heights
  <2> QED
    BY <1>2, <2>1 DEF AInv, ReadsStarted
<1>8. Baseline'
  BY <1>2, <1>4 DEF Baseline
<1>9. AllowedSound'
  <2>1. outcome[c] # "Allowed"
    BY DEF AInv, DInv, TypeOK, Finished, Active
  <2> QED
    BY <2>1 DEF AInv, AllowedSound, Recorded
<1> QED
  BY <1>3, <1>5, <1>6, <1>7, <1>8, <1>9 DEF AInv

(* A call that goes on moves its own label only.                           *)
LEMMA OtherCallsStay ==
  ASSUME TypeOK, NEW c \in Calls, NEW label, Goto(c, label)
  PROVE  /\ pc'[c] = label /\ outcome' = outcome
         /\ \A d \in Calls : d # c => pc'[d] = pc[d]
  BY DEF Goto, TypeOK

(* Every leg of enforce keeps the invariant.                               *)
LEMMA CallAInv == ASSUME Serial, AInv, NEW c \in Calls, Call(c) PROVE AInv'
<1>1. DInv' /\ TypeOK /\ ChainTypeOK
  BY CallDInv DEF AInv, DInv, TypeOK
<1>2. ASSUME Active(c)
      PROVE  NoThrow /\ \A d \in Calls : d # c => ~Active(d)
  BY <1>2 DEF AInv, OneAtATime
<1>3. CASE Enforce(c)
  <2>1. NoThrow /\ \A d \in Calls : ~Active(d)
    BY <1>3 DEF Enforce, MayStart, Serial, NoThrow, Active, Finished
  <2>2. \A n \in Nodes : Count(view[n]) = Committed
    BY <2>1 DEF AInv, CaughtUp
  <2>3. /\ pc'[c] = "reading" /\ outcome' = outcome /\ fate' = fate /\ since'[c] = view
        /\ \A d \in Calls : d # c => pc'[d] = pc[d] /\ since'[d] = since[d]
    BY <1>1, <1>3, OtherCallsStay DEF Enforce, StartRead, TypeOK, chainVars
  <2>4. \A n \in Nodes : Count(since'[c][n]) = Committed
    BY <2>2, <2>3
  <2>5. Active(c)'
    BY <2>3 DEF Active
  <2> QED
    BY <1>1, <2>1, <2>3, <2>4, <2>5, GoesOnAInv
<1>4. CASE ReadBefore(c)
  <2>1. Active(c) /\ pc[c] = "reading" /\ fate' = fate
    BY <1>4 DEF ReadBefore, Active, chainVars
  <2>2. /\ \A n \in Nodes : Count(view[n]) = Committed
        /\ \A seen \in CapabilityReads(c) : seen.actionCount = Committed
    BY <2>1, ReadingSeesAll
  <2>3. ASSUME NEW seen \in CapabilityReads(c), before' = [before EXCEPT ![c] = seen],
               NEW label \in {"judging", "sending"}, Goto(c, label),
               UNCHANGED since \/ StartRead(c)
        PROVE  AInv'
    <3>1. /\ pc'[c] = label /\ outcome' = outcome
          /\ \A d \in Calls : d # c => pc'[d] = pc[d] /\ since'[d] = since[d]
          /\ since'[c] = since[c] \/ since'[c] = view
          /\ before'[c].actionCount = Committed
      BY <1>1, <2>2, <2>3, OtherCallsStay DEF StartRead, TypeOK
    <3>2. Active(c)'
      BY <2>3, <3>1 DEF Active
    <3> QED
      BY <1>1, <1>2, <2>1, <2>2, <2>3, <3>1, <3>2, GoesOnAInv
  <2>4. ASSUME NEW o, Finish(c, o), o # "Allowed" PROVE AInv'
    BY <1>1, <2>1, <2>2, <2>4, FinishAInv
  <2> QED
    BY <1>4, <2>3, <2>4 DEF ReadBefore
<1>5. CASE JudgeAllowlist(c)
  <2>1. /\ Active(c) /\ pc[c] = "judging" /\ fate' = fate
        /\ before[c].actionCount = Committed
        /\ \A n \in Nodes : Count(view[n]) = Committed
    BY <1>5 DEF JudgeAllowlist, Active, chainVars, AInv, Baseline
  <2>2. CASE Goto(c, "sending") /\ UNCHANGED <<before, since>>
    <3>1. /\ pc'[c] = "sending" /\ outcome' = outcome
          /\ \A d \in Calls : d # c => pc'[d] = pc[d] /\ since'[d] = since[d]
          /\ since'[c] = since[c] /\ before'[c].actionCount = Committed
      BY <1>1, <2>1, <2>2, OtherCallsStay
    <3>2. Active(c)'
      BY <3>1 DEF Active
    <3> QED
      BY <1>1, <1>2, <2>1, <3>1, <3>2, GoesOnAInv
  <2>3. CASE Finish(c, "OutOfAllowlist")
    BY <1>1, <2>1, <2>3, FinishAInv
  <2> QED
    BY <1>5, <2>2, <2>3 DEF JudgeAllowlist
<1>6. CASE ReadFails(c)
  BY <1>1, <1>6, FinishAInv DEF ReadFails, Active, Throws, chainVars
<1>7. CASE SendAccepted(c)
  <2>1. Active(c) /\ pc[c] = "sending" /\ before[c].actionCount = Committed
    BY <1>7 DEF SendAccepted, Active, AInv, Baseline
  <2>2. /\ pc'[c] = "settling" /\ outcome' = outcome
        /\ \A d \in Calls : d # c => /\ pc'[d] = pc[d] /\ since'[d] = since[d]
                                    /\ fate'[d] = fate[d]
        /\ since'[c] = view /\ before'[c] = before[c] /\ fate'[c] = "mempool"
    BY <1>1, <1>7, OtherCallsStay DEF SendAccepted, StartRead, TypeOK, ChainTypeOK
  <2>3. Committed = before'[c].actionCount + (IF Recorded(c)' THEN 1 ELSE 0)
    BY <2>1, <2>2, CountFacts DEF Recorded, Committed
  <2>4. Active(c)'
    BY <2>2 DEF Active
  <2> QED
    BY <1>1, <1>2, <2>1, <2>2, <2>3, <2>4, GoesOnAInv
<1>8. CASE SendRejected(c) \/ SendReplyLost(c)
  <2>1. /\ Active(c) /\ Finish(c, "failed") /\ "failed" \in Throws
        /\ \A d \in Calls : d # c => fate'[d] = fate[d]
    BY <1>1, <1>8 DEF SendRejected, SendReplyLost, Active, ChainTypeOK, chainVars, Throws
  <2> QED
    BY <1>1, <2>1, FinishAInv
<1>9. CASE SettleAgain(c)
  <2>1. /\ Active(c) /\ pc[c] = "settling" /\ UNCHANGED <<pc, before, outcome, fate>>
        /\ \A d \in Calls : d # c => since'[d] = since[d]
        /\ since'[c] = view
    BY <1>1, <1>9 DEF SettleAgain, StartRead, Active, TypeOK, chainVars
  <2>2. Committed = before'[c].actionCount + (IF Recorded(c)' THEN 1 ELSE 0)
    BY <2>1 DEF AInv, Baseline, Recorded
  <2>3. Active(c)'
    BY <2>1 DEF Active
  <2> QED
    BY <1>1, <1>2, <2>1, <2>2, <2>3, GoesOnAInv
<1>10. CASE Conclude(c)
  <2>1. /\ pc[c] = "settling" /\ Active(c) /\ fate' = fate
        /\ before[c].status # "NotFound"
    BY <1>1, <1>10, ConcludeOf DEF AInv, DInv, SeenMinted, Active, chainVars
  <2>2. \/ Finish(c, "unsettled")
        \/ \E after \in CapabilityReads(c) : Delta(c, after) /\ Finish(c, "Allowed")
    BY <1>10, <2>1 DEF Conclude, SettleDone, SettleTimeout, Rejudge, Classify, NoDelta
  <2>3. CASE Finish(c, "unsettled")
    BY <1>1, <2>1, <2>3, FinishAInv DEF Throws
  <2>4. ASSUME NEW after \in CapabilityReads(c), Delta(c, after), Finish(c, "Allowed")
        PROVE  AInv'
    <3>1. PICK h \in Window(c) : after.actionCount = Count(h)
      BY CountsOfReads
    <3>2. \A n \in Nodes : h \in Heights /\ h <= view[n]
      BY OneNodeWindow
    <3>3. PICK n \in Nodes : h \in Heights /\ h <= view[n]
      BY <3>2, SubstrateAssumption
    <3>4. /\ Count(h) \in Nat /\ Count(h) <= Committed
          /\ Committed = before[c].actionCount + (IF Recorded(c) THEN 1 ELSE 0)
          /\ Count(h) > before[c].actionCount
          /\ before[c].actionCount \in Nat
      BY <1>1, <2>1, <2>4, <3>1, <3>3, CountFacts
      DEF AInv, Baseline, Delta, TypeOK, CapabilityRead
    <3>5. Recorded(c) /\ Count(h) = Committed
      BY <3>4
    <3>6. \A m \in Nodes : Count(view[m]) = Committed
      <4> SUFFICES ASSUME NEW m \in Nodes PROVE Count(view[m]) = Committed
        OBVIOUS
      <4>1. /\ view[m] \in Heights /\ Count(h) <= Count(view[m])
            /\ Count(view[m]) \in Nat /\ Count(view[m]) <= Committed
        BY <3>2, CountFacts DEF AInv, CountsGrow
      <4> QED
        BY <3>4, <3>5, <4>1
    <3> QED
      BY <1>1, <2>1, <2>4, <3>5, <3>6, FinishAInv
  <2> QED
    BY <2>2, <2>3, <2>4
<1> QED
  BY <1>3, <1>4, <1>5, <1>6, <1>7, <1>8, <1>9, <1>10 DEF Call, Read, Submit

(* Every step of the documented pattern keeps the invariant.               *)
LEMMA NextAInv == ASSUME Serial, AInv, [Next]_vars PROVE AInv'
<1>1. ASSUME UNCHANGED vars PROVE AInv'
  <2>1. DInv'
    BY <1>1, NextType
    DEF AInv, DInv, vars, chainVars, callVars, MintedSince, Heights, SeenMinted,
        UnsentUntilSend, DeniedUnsent
  <2>2. (\A h : Count(h)' = Count(h)) /\ Committed' = Committed /\ Heights' = Heights
    BY <1>1 DEF vars, chainVars, Count, Committed, Heights
  <2> QED
    BY <1>1, <2>1, <2>2
    DEF AInv, vars, chainVars, callVars, CountsGrow, OneAtATime, ReadsStarted, CaughtUp,
        Baseline, AllowedSound, NoThrow, Active, Recorded
<1>2. ASSUME Chain PROVE AInv'
  BY <1>2, QuietAInv, CommitAInv
<1> QED
  BY <1>1, <1>2, CallAInv DEF Next

(* README.md, "What enforce returns": allowed is "true only when the       *)
(* substrate authorized and recorded the action", in the integration       *)
(* pattern that it documents.                                              *)
THEOREM AllowedHolds == ASSUME Serial PROVE Spec => []AllowedSound
<1>1. Init => AInv
  BY InitAInv
<1>2. AInv /\ [Next]_vars => AInv'
  BY NextAInv
<1>3. AInv => AllowedSound
  BY DEF AInv
<1> QED
  BY <1>1, <1>2, <1>3, PTL DEF Spec

-----------------------------------------------------------------------------
(* The refinement of EnforcementPromise.                                   *)
RecordedCalls == {c \in Calls : Recorded(c)}

(* What the chain does to the promise: it records the action of a call     *)
(* that has not returned a verdict, or nothing.                            *)
LEMMA ChainPromise ==
  ASSUME AInv, Chain
  PROVE  \/ UNCHANGED <<RecordedCalls, outcome>>
         \/ \E c \in Calls : Promise!Record(c)
<1>1. TypeOK /\ ChainTypeOK /\ UNCHANGED outcome
  BY DEF AInv, DInv, TypeOK, Chain, callVars
<1>2. ASSUME NEW c \in Calls, Include(c), ContractCode(Latest, act[c]) = "Allowed"
      PROVE  Promise!Record(c)
  <2>1. InFlight(c) /\ fate' = [fate EXCEPT ![c] = "Allowed"]
    BY <1>2 DEF Include
  <2>2. c \notin RecordedCalls /\ RecordedCalls' = RecordedCalls \cup {c}
    BY <1>1, <2>1 DEF RecordedCalls, Recorded, InFlight, ChainTypeOK
  <2>3. outcome[c] # "Allowed" /\ outcome[c] \notin Refusals
    BY <2>1 DEF AInv, AllowedSound, DInv, DeniedUnsent, Recorded, InFlight
  <2>4. outcome[c] \in {"none"} \cup Throws
    BY <1>1, <2>3 DEF TypeOK, Verdicts, Refusals
  <2> QED
    BY <1>1, <2>2, <2>4 DEF Promise!Record, RecordedCalls
<1>3. ASSUME NEW c \in Calls, Include(c), ContractCode(Latest, act[c]) # "Allowed"
      PROVE  RecordedCalls' = RecordedCalls
  BY <1>1, <1>3 DEF Include, RecordedCalls, Recorded, InFlight, ChainTypeOK
<1>4. fate' = fate => RecordedCalls' = RecordedCalls
  BY DEF RecordedCalls, Recorded
<1> QED
  BY <1>1, <1>2, <1>3, <1>4
  DEF Chain, ChainNext, Replicate, Principal, Mint, ChangeLimits, Revoke, Allow

(* A leg of enforce records nothing, and either ends the call or leaves    *)
(* all outcomes as they are.                                               *)
LEMMA CallOutcome ==
  ASSUME TypeOK, UnsentUntilSend, NEW c \in Calls, Call(c)
  PROVE  /\ RecordedCalls' = RecordedCalls
         /\ \/ outcome' = outcome
            \/ /\ outcome[c] = "none"
               /\ \E o \in Codes \cup Throws : outcome' = [outcome EXCEPT ![c] = o]
<1>1. ASSUME fate' = fate PROVE RecordedCalls' = RecordedCalls
  BY <1>1 DEF RecordedCalls, Recorded
<1>2. ASSUME pc[c] = "sending", fate' = [fate EXCEPT ![c] = "mempool"]
      PROVE  RecordedCalls' = RecordedCalls
  BY <1>2 DEF RecordedCalls, Recorded, UnsentUntilSend, TypeOK, ChainTypeOK
<1>3. pc[c] # "done" => outcome[c] = "none"
  BY DEF TypeOK, Finished
<1>4. {"Allowed", "OutOfAllowlist"} \subseteq Codes /\ Throws = {"unsettled", "failed"}
  BY DEF Codes, EnforcementCode, Throws
<1>5. CASE Enforce(c) \/ SettleAgain(c)
  BY <1>1, <1>5 DEF Enforce, SettleAgain, Goto, chainVars
<1>6. CASE ReadBefore(c)
  BY <1>1, <1>3, <1>6, PrejudgeOf DEF ReadBefore, Goto, Finish, chainVars
<1>7. CASE JudgeAllowlist(c) \/ ReadFails(c)
  BY <1>1, <1>3, <1>4, <1>7 DEF JudgeAllowlist, ReadFails, Goto, Finish, chainVars
<1>8. CASE Submit(c)
  BY <1>1, <1>2, <1>3, <1>4, <1>8
  DEF Submit, SendAccepted, SendRejected, SendReplyLost, Goto, Finish, chainVars
<1>9. CASE Conclude(c)
  BY <1>1, <1>3, <1>4, <1>9, ConcludeOf DEF Goto, Finish, chainVars
<1> QED
  BY <1>5, <1>6, <1>7, <1>8, <1>9 DEF Call, Read

(* Each step of enforce is a step of the promise, or changes nothing it    *)
(* speaks of.                                                              *)
LEMMA StepPromises ==
  ASSUME Serial, AInv, [Next]_vars
  PROVE  [Promise!Next]_<<RecordedCalls, outcome>>
<1>1. AInv'
  BY NextAInv
<1>2. ASSUME NEW c \in Calls, Call(c), outcome' # outcome PROVE Promise!Next
  <2>1. RecordedCalls' = RecordedCalls /\ outcome[c] = "none"
    BY <1>2, CallOutcome DEF AInv, DInv
  <2>2. PICK o \in Codes \cup Throws : outcome' = [outcome EXCEPT ![c] = o]
    BY <1>2, CallOutcome DEF AInv, DInv
  <2>3. outcome'[c] = o
    BY <2>2 DEF AInv, DInv, TypeOK
  <2>4. Promise!Return(c, o)
    BY <2>1, <2>2 DEF Promise!Return, RecordedCalls
  <2>5. CASE o = "Allowed"
    <3>1. c \in RecordedCalls
      BY <1>1, <2>1, <2>3, <2>5 DEF AInv, AllowedSound, RecordedCalls
    <3> QED
      BY <2>4, <2>5, <3>1 DEF Promise!Next, Promise!ReturnAllowed, RecordedCalls
  <2>6. CASE o \in Refusals
    <3>1. fate'[c] = "none"
      BY <1>1, <2>3, <2>6 DEF AInv, DInv, DeniedUnsent
    <3>2. c \notin RecordedCalls
      BY <2>1, <3>1 DEF RecordedCalls, Recorded
    <3> QED
      BY <2>4, <2>6, <3>2 DEF Promise!Next, Promise!ReturnDenied, RecordedCalls
  <2>7. CASE o \in Throws
    BY <2>4, <2>7 DEF Promise!Next, Promise!GiveUp
  <2> QED
    BY <2>5, <2>6, <2>7 DEF Refusals
<1>3. ASSUME NEW c \in Calls, Call(c), outcome' = outcome PROVE UNCHANGED <<RecordedCalls, outcome>>
  BY <1>3, CallOutcome DEF AInv, DInv
<1>4. ASSUME Chain PROVE [Promise!Next]_<<RecordedCalls, outcome>>
  BY <1>4, ChainPromise DEF Promise!Next
<1>5. CASE UNCHANGED vars
  BY <1>5 DEF vars, chainVars, callVars, RecordedCalls, Recorded
<1> QED
  BY <1>2, <1>3, <1>4, <1>5 DEF Next

(* enforce of the documented pattern implements the promise: outcomes and  *)
(* recorded actions never contradict each other, whichever comes first.    *)
THEOREM ImplementsPromise == ASSUME Serial PROVE Spec => KeepsPromise
<1>1. Init => AInv
  BY InitAInv
<1>2. AInv /\ [Next]_vars => AInv'
  BY NextAInv
<1>3. Init => Promise!Init
  BY DEF Init, ChainInit, Promise!Init, Recorded
<1>4. AInv /\ [Next]_vars => [Promise!Next]_<<RecordedCalls, outcome>>
  BY StepPromises
<1> QED
  BY <1>1, <1>2, <1>3, <1>4, PTL DEF Spec, KeepsPromise, Promise!Spec, Promise!promiseVars, RecordedCalls
=============================================================================
