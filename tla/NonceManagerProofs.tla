------------------------- MODULE NonceManagerProofs -------------------------
(***************************************************************************)
(* NonceManager for any submissions, addresses and number of restarts.     *)
(*                                                                         *)
(* The invariant behind the safety properties relates the counter to what  *)
(* the mempool has accepted: below it, except for the transaction whose    *)
(* submitter holds the mutex and has yet to advance the counter; and as    *)
(* long as the counter is not seeded, below the committed nonce that it    *)
(* will be seeded with.                                                    *)
(***************************************************************************)
EXTENDS NonceManager, FiniteSetTheorems, TLAPS

(* Every transaction was submitted by its own call, which has moved on.    *)
TxOfCall ==
  \A t \in accepted :
    /\ t.addr = Signer[t.call]
    /\ pc[t.call] \in {"accepted"} \cup Ended

OneTxPerCall == \A t, u \in accepted : t.call = u.call => t = u

SeededToSend == \A c \in Calls : pc[c] \in {"sending", "accepted"} => seeded[Signer[c]]

(* The nonces the mempool has accepted, against the counter, as far as     *)
(* every send hears the mempool's answer.                                  *)
BelowCounter ==
  \A t \in Heard :
    IF pc[t.call] = "accepted" THEN t.nonce = next[t.addr]
    ELSE IF seeded[t.addr] THEN t.nonce < next[t.addr]
    ELSE t.nonce < committed[t.addr]

IInv ==
  /\ TypeOK
  /\ TxOfCall
  /\ OneTxPerCall
  /\ SeededToSend
  /\ BelowCounter
  /\ NonceUnique

(* TypeOK, the mutual exclusion included, needs no assumption on replies   *)
(* or restarts.                                                            *)
LEMMA InitTypeOK == Init => TypeOK
<1> SUFFICES ASSUME Init PROVE TypeOK
  OBVIOUS
<1> USE NonceAssumption DEF Init
<1>1. committed \in [Addrs -> Nat]
  <2>1. \A a \in Addrs : committed[a] \in Nat
    OBVIOUS
  <2> QED
    BY <2>1, ZenonT(30)
<1>2. \A c \in Calls : ~InMutex(c)
  BY DEF InMutex
<1>3. \A a \in Addrs, c \in Calls : holder[a] # c
  OBVIOUS
<1>4. restarts \in 0 .. MaxRestarts
  OBVIOUS
<1> QED
  BY <1>1, <1>2, <1>3, <1>4 DEF TypeOK, Ended

(* Every step keeps the types and the ownership of the mutexes, one case   *)
(* for each action.                                                        *)
LEMMA NextTypeOK == TypeOK /\ [Next]_vars => TypeOK'
<1> USE NonceAssumption
<1> SUFFICES ASSUME TypeOK, [Next]_vars PROVE TypeOK'
  OBVIOUS
<1> USE DEF TypeOK, Ended, InMutex
<1>1. ASSUME NEW c \in Calls, Submit(c) PROVE TypeOK'
  BY <1>1 DEF Submit, acctVars, chainVars
<1>2. ASSUME NEW c \in Calls, Lock(c) PROVE TypeOK'
  BY <1>2 DEF Lock, chainVars
<1>3. ASSUME NEW c \in Calls, Seed(c) PROVE TypeOK'
  BY <1>3 DEF Seed, Reseed, chainVars
<1>4. ASSUME NEW c \in Calls, SeedFails(c) PROVE TypeOK'
  BY <1>4 DEF SeedFails, Return, chainVars
<1>5. ASSUME NEW c \in Calls, SendAccepted(c) PROVE TypeOK'
  <2>1. Tx(c) \in Transaction
    BY DEF Tx, Transaction
  <2> QED
    BY <1>5, <2>1 DEF SendAccepted, acctVars
<1>6. ASSUME NEW c \in Calls, SendRejected(c) PROVE TypeOK'
  BY <1>6 DEF SendRejected, SendError, Return, IsNonceError, chainVars
<1>7. ASSUME NEW c \in Calls, SendReplyLost(c) PROVE TypeOK'
  <2>1. Tx(c) \in Transaction
    BY DEF Tx, Transaction
  <2> QED
    BY <1>7, <2>1 DEF SendReplyLost, SendError, Return, IsNonceError
<1>8. ASSUME NEW c \in Calls, Advance(c) PROVE TypeOK'
  BY <1>8 DEF Advance, Return, chainVars
<1>9. ASSUME NEW t \in accepted, Include(t) PROVE TypeOK'
  BY <1>9 DEF Include, acctVars, Transaction
<1>10. ASSUME Restart PROVE TypeOK'
  <2>1. accepted' \subseteq Transaction /\ accepted \subseteq accepted'
    BY <1>10 DEF Restart, Tx, Transaction
  <2>2. restarts' \in 0 .. MaxRestarts
    BY <1>10 DEF Restart
  <2> QED
    BY <1>10, <2>1, <2>2 DEF Restart
<1>11. CASE UNCHANGED vars
  BY <1>11 DEF vars, acctVars, chainVars
<1> QED
  BY <1>1, <1>2, <1>3, <1>4, <1>5, <1>6, <1>7, <1>8, <1>9, <1>10, <1>11
  DEF Next, Call, Answer

(* The mutex of an account is held by the one invocation between its lock  *)
(* and its unlock, and every variable keeps its type: manager.go, Submit.  *)
THEOREM TypeCorrect == Spec => []TypeOK
  BY InitTypeOK, NextTypeOK, PTL DEF Spec

-----------------------------------------------------------------------------
(* A process that restarts only when what it sent is committed: without    *)
(* this the run nonce, with DrainedRestart = FALSE, violates NonceUnique.  *)
(* Nothing is assumed of the addresses whose replies may be lost, which    *)
(* NonceUnique is not about.                                               *)
Reliable == DrainedRestart

(* The strengthened invariant holds before anything is submitted.          *)
LEMMA InitIInv == Init => IInv
  BY InitTypeOK
  DEF Init, IInv, TxOfCall, OneTxPerCall, SeededToSend, BelowCounter, NonceUnique, Heard

(* The steps that leave the accepted transactions alone.                   *)
LEMMA KeepsIInv ==
  ASSUME IInv, TypeOK', accepted' = accepted,
         TxOfCall', SeededToSend', BelowCounter'
  PROVE  IInv'
  BY DEF IInv, OneTxPerCall, NonceUnique, Heard

(* The nonce that the holder of the mutex sends with is above all that the *)
(* mempool has accepted from the address, if none of it went unheard.      *)
LEMMA FreshNonce ==
  ASSUME IInv, NEW c \in Calls, pc[c] = "sending"
  PROVE  /\ Signer[c] \in Addrs /\ seeded[Signer[c]]
         /\ \A t \in accepted : t.call # c
         /\ \A t \in Heard : t.addr = Signer[c] => t.nonce < next[Signer[c]]
<1> USE NonceAssumption
<1>1. Signer[c] \in Addrs /\ seeded[Signer[c]]
  BY DEF IInv, SeededToSend
<1>2. \A t \in accepted : t \in Transaction
  BY DEF IInv, TypeOK
<1>3. \A t \in accepted : t.call # c
  BY DEF IInv, TxOfCall, Ended
<1>4. \A t \in accepted : t.addr = Signer[c] => pc[t.call] # "accepted"
  <2> SUFFICES ASSUME NEW t \in accepted, t.addr = Signer[c], pc[t.call] = "accepted"
               PROVE  FALSE
    OBVIOUS
  <2>1. t.call \in Calls /\ Signer[t.call] = Signer[c]
    BY <1>2 DEF IInv, TxOfCall, Transaction
  <2>2. holder[Signer[c]] = t.call /\ holder[Signer[c]] = c
    BY <2>1 DEF IInv, TypeOK, InMutex
  <2> QED
    BY <2>2, <1>3
<1>5. \A t \in Heard : t.addr = Signer[c] => t.nonce < next[Signer[c]]
  BY <1>1, <1>4 DEF IInv, BelowCounter, Heard
<1> QED
  BY <1>1, <1>3, <1>5

(* The step that adds a transaction.                                       *)
LEMMA SendKeepsIInv ==
  ASSUME IInv, TypeOK', NEW c \in Calls, SendAccepted(c)
  PROVE  IInv'
<1> USE NonceAssumption
<1>1. /\ pc[c] = "sending"
      /\ accepted' = accepted \cup {Tx(c)}
      /\ pc' = [pc EXCEPT ![c] = "accepted"]
      /\ UNCHANGED <<seeded, next, committed>>
  BY DEF SendAccepted, acctVars
<1>2. Signer[c] \in Addrs /\ seeded[Signer[c]]
  BY <1>1, FreshNonce
<1>3. \A t \in accepted : t \in Transaction
  BY DEF IInv, TypeOK
<1>4. \A t \in accepted : t.call # c
  BY <1>1, FreshNonce
<1>6. \A t \in Heard : t.addr = Signer[c] => t.nonce < next[Signer[c]]
  BY <1>1, FreshNonce
<1>7. Tx(c).addr = Signer[c] /\ Tx(c).nonce = next[Signer[c]] /\ Tx(c).call = c
  BY DEF Tx
<1>8. pc'[c] = "accepted" /\ \A d \in Calls : d # c => pc'[d] = pc[d]
  BY <1>1 DEF IInv, TypeOK
<1>9. \A t \in accepted : t.call \in Calls
  BY <1>3 DEF Transaction
<1>10. TxOfCall'
  BY <1>1, <1>4, <1>7, <1>8, <1>9 DEF IInv, TxOfCall
<1>11. OneTxPerCall'
  BY <1>1, <1>4, <1>7 DEF IInv, OneTxPerCall
<1>12. SeededToSend'
  BY <1>1, <1>2, <1>8 DEF IInv, SeededToSend
<1>13. BelowCounter'
  BY <1>1, <1>4, <1>7, <1>8, <1>9 DEF IInv, BelowCounter, Heard
<1>14. NonceUnique'
  <2>1. next[Signer[c]] \in Nat /\ \A t \in accepted : t.nonce \in Nat
    BY <1>2, <1>3 DEF IInv, TypeOK, Transaction
  <2> QED
    BY <1>1, <1>6, <1>7, <2>1 DEF IInv, NonceUnique, Heard
<1> QED
  BY <1>10, <1>11, <1>12, <1>13, <1>14 DEF IInv

(* A transaction whose reply is lost is nobody's nonce grant: it belongs   *)
(* to an address that the nonce conjuncts leave out.                       *)
LEMMA LostReplyKeepsIInv ==
  ASSUME IInv, TypeOK', NEW c \in Calls, SendReplyLost(c)
  PROVE  IInv'
<1> USE NonceAssumption
<1>1. /\ pc[c] = "sending"
      /\ Signer[c] \in Lossy
      /\ accepted' = accepted \cup {Tx(c)}
      /\ pc' = [pc EXCEPT ![c] = "failed"]
      /\ UNCHANGED <<seeded, next, committed>>
  BY DEF SendReplyLost, SendError, Return, IsNonceError
<1>2. \A t \in accepted : t \in Transaction /\ t.call \in Calls /\ t.call # c
  BY <1>1, FreshNonce DEF IInv, TypeOK, Transaction
<1>3. Tx(c).addr = Signer[c] /\ Tx(c).call = c
  BY DEF Tx
<1>4. pc'[c] = "failed" /\ \A d \in Calls : d # c => pc'[d] = pc[d]
  BY <1>1 DEF IInv, TypeOK
<1>5. Heard' = Heard
  BY <1>1, <1>3 DEF Heard
<1>6. TxOfCall'
  BY <1>1, <1>2, <1>3, <1>4 DEF IInv, TxOfCall, Ended
<1>7. OneTxPerCall'
  BY <1>1, <1>2, <1>3 DEF IInv, OneTxPerCall
<1>8. SeededToSend'
  BY <1>1, <1>4 DEF IInv, SeededToSend
<1>9. BelowCounter'
  <2>1. \A t \in Heard : t.call \in Calls /\ t.call # c
    BY <1>2 DEF Heard
  <2> QED
    BY <1>1, <1>4, <1>5, <2>1 DEF IInv, BelowCounter
<1>10. NonceUnique'
  BY <1>5 DEF IInv, NonceUnique
<1> QED
  BY <1>6, <1>7, <1>8, <1>9, <1>10 DEF IInv

(* Every step of a reliable process keeps the strengthened invariant: an   *)
(* acceptance takes a fresh nonce, an advance passes it, a drained restart *)
(* forgets a counter that the committed nonce has overtaken.               *)
LEMMA NextIInv ==
  ASSUME Reliable, IInv, [Next]_vars
  PROVE  IInv'
<1> USE NonceAssumption
<1>1. TypeOK'
  BY NextTypeOK DEF IInv
<1>2. \A t \in accepted : t \in Transaction /\ t.call \in Calls /\ t.addr \in Addrs
                           /\ t.nonce \in Nat /\ t.addr = Signer[t.call]
  BY DEF IInv, TypeOK, TxOfCall, Transaction
<1> USE DEF Ended, Heard
<1>3. ASSUME NEW c \in Calls, Submit(c) PROVE IInv'
  <2>1. TxOfCall' /\ SeededToSend' /\ BelowCounter'
    BY <1>2, <1>3 DEF IInv, TypeOK, Submit, TxOfCall, SeededToSend, BelowCounter,
                      acctVars, chainVars
  <2> QED
    BY <1>1, <1>3, <2>1, KeepsIInv DEF Submit, chainVars
<1>4. ASSUME NEW c \in Calls, Lock(c) PROVE IInv'
  <2>1. TxOfCall' /\ SeededToSend' /\ BelowCounter'
    BY <1>2, <1>4 DEF IInv, TypeOK, Lock, TxOfCall, SeededToSend, BelowCounter, chainVars
  <2> QED
    BY <1>1, <1>4, <2>1, KeepsIInv DEF Lock, chainVars
<1>5. ASSUME NEW c \in Calls, Seed(c) PROVE IInv'
  <2>1. \A t \in accepted : pc[t.call] = "accepted" => t.addr # Signer[c]
    BY <1>2, <1>5 DEF IInv, TypeOK, InMutex, Seed
  <2>2. TxOfCall' /\ SeededToSend'
    BY <1>2, <1>5 DEF IInv, TypeOK, Seed, Reseed, TxOfCall, SeededToSend, chainVars
  <2>3. BelowCounter'
    BY <1>2, <1>5, <2>1 DEF IInv, TypeOK, Seed, Reseed, BelowCounter, chainVars
  <2> QED
    BY <1>1, <1>5, <2>2, <2>3, KeepsIInv DEF Seed, chainVars
<1>6. ASSUME NEW c \in Calls, SeedFails(c) PROVE IInv'
  <2>1. TxOfCall' /\ SeededToSend' /\ BelowCounter'
    BY <1>2, <1>6 DEF IInv, TypeOK, SeedFails, Return, TxOfCall, SeededToSend,
                      BelowCounter, chainVars
  <2> QED
    BY <1>1, <1>6, <2>1, KeepsIInv DEF SeedFails, chainVars
<1>7. ASSUME NEW c \in Calls, SendAccepted(c) PROVE IInv'
  BY <1>1, <1>7, SendKeepsIInv
<1>8. ASSUME NEW c \in Calls, SendRejected(c) PROVE IInv'
  <2>1. TxOfCall' /\ SeededToSend' /\ BelowCounter'
    BY <1>2, <1>8 DEF IInv, TypeOK, SendRejected, SendError, IsNonceError, Return,
                      TxOfCall, SeededToSend, BelowCounter, chainVars
  <2> QED
    BY <1>1, <1>8, <2>1, KeepsIInv DEF SendRejected, chainVars
<1>9. ASSUME NEW c \in Calls, SendReplyLost(c) PROVE IInv'
  BY <1>1, <1>9, LostReplyKeepsIInv
<1>10. ASSUME NEW c \in Calls, Advance(c) PROVE IInv'
  <2>1. \A t \in accepted : pc[t.call] = "accepted" /\ t.addr = Signer[c] => t.call = c
    BY <1>2, <1>10 DEF IInv, TypeOK, InMutex, Advance
  <2>2. seeded[Signer[c]]
    BY <1>10 DEF IInv, SeededToSend, Advance
  <2>3. TxOfCall' /\ SeededToSend'
    BY <1>2, <1>10 DEF IInv, TypeOK, Advance, Return, TxOfCall, SeededToSend, chainVars
  <2>4. BelowCounter'
    BY <1>2, <1>10, <2>1, <2>2 DEF IInv, TypeOK, Advance, Return, BelowCounter, chainVars
  <2> QED
    BY <1>1, <1>10, <2>3, <2>4, KeepsIInv DEF Advance, chainVars
<1>11. ASSUME NEW t \in accepted, Include(t) PROVE IInv'
  <2>1. TxOfCall' /\ SeededToSend' /\ BelowCounter'
    BY <1>2, <1>11 DEF IInv, TypeOK, Include, TxOfCall, SeededToSend, BelowCounter, acctVars
  <2> QED
    BY <1>1, <1>11, <2>1, KeepsIInv DEF Include
<1>12. ASSUME Restart PROVE IInv'
  <2>1. Drained
    BY <1>12 DEF Restart, Reliable
  <2>2. accepted' = accepted
    BY <1>12, <2>1 DEF Restart, Drained
  <2>3. TxOfCall' /\ SeededToSend' /\ BelowCounter'
    BY <1>2, <1>12, <2>1, <2>2
    DEF IInv, TypeOK, Restart, Drained, TxOfCall, SeededToSend, BelowCounter
  <2> QED
    BY <1>1, <2>2, <2>3, KeepsIInv
<1>13. CASE UNCHANGED vars
  <2>1. TxOfCall' /\ SeededToSend' /\ BelowCounter'
    BY <1>13 DEF IInv, TxOfCall, SeededToSend, BelowCounter, vars, acctVars, chainVars
  <2> QED
    BY <1>1, <1>13, <2>1, KeepsIInv DEF vars, chainVars
<1> QED
  BY <1>3, <1>4, <1>5, <1>6, <1>7, <1>8, <1>9, <1>10, <1>11, <1>12, <1>13
  DEF Next, Call, Answer

(* manager.go, "Why it exists": of two transactions that the mempool has   *)
(* accepted from one signer, no two have the same nonce, however many      *)
(* goroutines submit and however often the process restarts.               *)
THEOREM NoncesUnique == ASSUME Reliable PROVE Spec => []NonceUnique
<1>1. Init => IInv
  BY InitIInv
<1>2. IInv /\ [Next]_vars => IInv'
  BY NextIInv
<1>3. IInv => NonceUnique
  BY DEF IInv
<1> QED
  BY <1>1, <1>2, <1>3, PTL DEF Spec

-----------------------------------------------------------------------------
(* Each step grants the transaction it adds, or nothing.                   *)
LEMMA StepGrants ==
  ASSUME Reliable, IInv, [Next]_vars
  PROVE  [Authority!Next]_Heard
<1> USE NonceAssumption
<1>1. ASSUME NEW c \in Calls, SendAccepted(c), Signer[c] \notin Lossy
      PROVE  Authority!Next
  <2>1. pc[c] = "sending" /\ accepted' = accepted \cup {Tx(c)}
    BY <1>1 DEF SendAccepted
  <2>2. Tx(c) \in [addr : Addrs, nonce : Nat, call : Calls]
    BY DEF IInv, TypeOK, Tx
  <2>3. /\ Tx(c).addr = Signer[c] /\ Tx(c).nonce = next[Signer[c]] /\ Tx(c).call = c
    BY DEF Tx
  <2>4. Heard' = Heard \cup {Tx(c)}
    BY <1>1, <2>1, <2>3 DEF Heard
  <2>5. Authority!Grant(Tx(c))
    BY <2>1, <2>2, <2>3, <2>4, FreshNonce DEF Authority!Grant, Heard
  <2>6. Tx(c) \in Heard' \ Heard
    BY <2>1, <2>3, <2>4, FreshNonce DEF Heard
  <2> QED
    BY <2>5, <2>6 DEF Authority!Next
<1>2. ASSUME NEW c \in Calls, Signer[c] \in Lossy,
             SendReplyLost(c) \/ SendAccepted(c)
      PROVE  Heard' = Heard
  <2>1. Tx(c).addr = Signer[c]
    BY DEF Tx
  <2> QED
    BY <1>2, <2>1 DEF SendReplyLost, SendAccepted, Heard
<1>7. ASSUME NEW c \in Calls, SendReplyLost(c) PROVE Signer[c] \in Lossy
  BY <1>7 DEF SendReplyLost
<1>8. accepted' = accepted => Heard' = Heard
  BY DEF Heard
<1>3. ASSUME Restart PROVE accepted' = accepted
  BY <1>3 DEF Restart, Reliable, Drained
<1>4. ASSUME NEW t \in accepted, Include(t) PROVE accepted' = accepted
  BY <1>4 DEF Include
<1>5. ASSUME NEW c \in Calls,
             Submit(c) \/ Lock(c) \/ Seed(c) \/ SeedFails(c) \/ SendRejected(c) \/ Advance(c)
      PROVE  accepted' = accepted
  BY <1>5 DEF Submit, Lock, Seed, SeedFails, SendRejected, Advance, chainVars
<1>6. CASE UNCHANGED vars
  BY <1>6, <1>8 DEF vars, chainVars
<1> QED
  BY <1>1, <1>2, <1>3, <1>4, <1>5, <1>6, <1>7, <1>8 DEF Next, Call, Answer

(* "hands out monotonically increasing nonces": the manager implements the *)
(* abstract nonce authority, each acceptance being a grant.                *)
THEOREM ImplementsAuthority == ASSUME Reliable PROVE Spec => IsAuthority
<1>1. Init => Authority!Init
  BY DEF Init, Heard, Authority!Init
<1>2. Init => IInv
  BY InitIInv
<1>3. IInv /\ [Next]_vars => IInv'
  BY NextIInv
<1>4. IInv /\ [Next]_vars => [Authority!Next]_Heard
  BY StepGrants
<1> QED
  BY <1>1, <1>2, <1>3, <1>4, PTL DEF Spec, IsAuthority, Authority!Spec

-----------------------------------------------------------------------------
(* The submissions that succeeded, against the counter, also where the     *)
(* replies of others are lost.                                             *)
SucceededBelow ==
  \A t \in accepted :
    /\ pc[t.call] = "accepted" => t.nonce = next[t.addr]
    /\ pc[t.call] = "ok" =>
         t.nonce < IF seeded[t.addr] THEN next[t.addr] ELSE committed[t.addr]

KInv == IInv /\ SucceededBelow /\ SucceededUnique

LEMMA InitKInv == Init => KInv
  BY InitIInv DEF Init, KInv, SucceededBelow, SucceededUnique

(* Each account has one invocation in its mutex.                           *)
LEMMA OneInMutex ==
  ASSUME TypeOK, NEW c \in Calls, NEW d \in Calls, InMutex(c), InMutex(d),
         Signer[c] = Signer[d]
  PROVE  c = d
<1>1. holder[Signer[c]] = c /\ holder[Signer[d]] = d
  BY DEF TypeOK
<1> QED
  BY <1>1

(* The facts about accepted transactions that every step uses.             *)
LEMMA AcceptedFacts ==
  ASSUME IInv, NEW t \in accepted
  PROVE  t \in Transaction /\ t.call \in Calls /\ t.addr \in Addrs
         /\ t.nonce \in Nat /\ t.addr = Signer[t.call]
  BY DEF IInv, TypeOK, TxOfCall, Transaction

(* A submission succeeds at the counter, above all that succeeded before.  *)
LEMMA NextKInv ==
  ASSUME Reliable, KInv, [Next]_vars
  PROVE  KInv'
<1> USE NonceAssumption
<1> IInv /\ TypeOK /\ IInv'
  BY NextIInv DEF KInv, IInv
<1>1. \A t \in accepted : t \in Transaction /\ t.call \in Calls /\ t.addr \in Addrs
                           /\ t.nonce \in Nat /\ t.addr = Signer[t.call]
  BY AcceptedFacts
<1>2. ASSUME accepted' = accepted,
             \A t \in accepted : pc'[t.call] = "ok" => pc[t.call] = "ok"
      PROVE  SucceededUnique'
  BY <1>2 DEF KInv, SucceededUnique
<1>3. ASSUME NEW c \in Calls, Submit(c) \/ Lock(c) \/ SeedFails(c) \/ SendRejected(c)
      PROVE  KInv'
  <2>1. /\ UNCHANGED <<seeded, next, committed, accepted>>
        /\ pc'[c] \notin {"ok", "accepted"} /\ \A d \in Calls \ {c} : pc'[d] = pc[d]
    BY <1>3 DEF Submit, Lock, SeedFails, SendRejected, SendError, IsNonceError, Return,
       acctVars, chainVars, TypeOK
  <2>2. SucceededBelow' /\ SucceededUnique'
    BY <1>1, <1>2, <2>1 DEF KInv, SucceededBelow
  <2> QED
    BY <2>2 DEF KInv
<1>4. ASSUME NEW c \in Calls, Seed(c) PROVE KInv'
  <2>1. \A t \in accepted : pc[t.call] = "accepted" => t.addr # Signer[c]
    BY <1>1, <1>4, OneInMutex DEF InMutex, Seed
  <2>2. SucceededBelow'
    BY <1>1, <1>4, <2>1 DEF KInv, TypeOK, Seed, Reseed, SucceededBelow, chainVars
  <2>3. SucceededUnique'
    BY <1>1, <1>2, <1>4 DEF Seed, chainVars, TypeOK
  <2> QED
    BY <2>2, <2>3 DEF KInv
<1>5. ASSUME NEW c \in Calls, SendAccepted(c) \/ SendReplyLost(c) PROVE KInv'
  <2>1. /\ accepted' = accepted \cup {Tx(c)} /\ UNCHANGED <<seeded, next, committed>>
        /\ pc[c] = "sending" /\ pc'[c] \in {"accepted", "failed"}
        /\ \A d \in Calls \ {c} : pc'[d] = pc[d]
    BY <1>5 DEF SendAccepted, SendReplyLost, SendError, IsNonceError, Return, acctVars, TypeOK
  <2>2. Tx(c).addr = Signer[c] /\ Tx(c).nonce = next[Signer[c]] /\ Tx(c).call = c
    BY DEF Tx
  <2>3. \A t \in accepted : t.call # c
    BY <2>1, FreshNonce
  <2>4. SucceededBelow' /\ SucceededUnique'
    BY <1>1, <2>1, <2>2, <2>3 DEF KInv, SucceededBelow, SucceededUnique
  <2> QED
    BY <2>4 DEF KInv
<1>6. ASSUME NEW c \in Calls, Advance(c) PROVE KInv'
  <2>1. /\ UNCHANGED <<seeded, committed, accepted>>
        /\ next' = [next EXCEPT ![Signer[c]] = @ + 1]
        /\ pc[c] = "accepted" /\ pc'[c] = "ok" /\ \A d \in Calls \ {c} : pc'[d] = pc[d]
    BY <1>6 DEF Advance, Return, chainVars, TypeOK
  <2>2. seeded[Signer[c]] /\ Signer[c] \in Addrs
    BY <2>1 DEF IInv, SeededToSend
  <2>3. \A t \in accepted :
          /\ pc[t.call] = "accepted" /\ t.addr = Signer[c] => t.call = c
          /\ t.call = c => t.nonce = next[Signer[c]] /\ t.addr = Signer[c]
    BY <1>1, <2>1, OneInMutex DEF InMutex, KInv, SucceededBelow
  <2>4. \A a \in Addrs : next[a] \in Nat
    BY DEF TypeOK
  <2>5. next'[Signer[c]] = next[Signer[c]] + 1 /\ \A a \in Addrs \ {Signer[c]} : next'[a] = next[a]
    BY <2>1, <2>2 DEF TypeOK
  <2>6. SucceededBelow'
    <3> SUFFICES ASSUME NEW t \in accepted
                 PROVE /\ pc'[t.call] = "accepted" => t.nonce = next'[t.addr]
                       /\ pc'[t.call] = "ok" => t.nonce < IF seeded[t.addr] THEN next'[t.addr]
                                                          ELSE committed[t.addr]
      BY <2>1 DEF SucceededBelow
    <3>1. CASE t.call = c
      BY <1>1, <2>1, <2>2, <2>3, <2>4, <2>5, <3>1
    <3>2. CASE t.call # c
      <4>1. pc'[t.call] = pc[t.call]
        BY <1>1, <2>1, <3>2
      <4>2. CASE t.addr = Signer[c]
        BY <1>1, <2>2, <2>3, <2>4, <2>5, <3>2, <4>1, <4>2 DEF KInv, SucceededBelow
      <4>3. CASE t.addr # Signer[c]
        BY <1>1, <2>5, <4>1, <4>3 DEF KInv, SucceededBelow
      <4> QED
        BY <4>2, <4>3
    <3> QED
      BY <3>1, <3>2
  <2>7. \A t \in accepted : t.addr = Signer[c] /\ pc[t.call] = "ok" => t.nonce # next[Signer[c]]
    BY <1>1, <2>2, <2>4 DEF KInv, SucceededBelow
  <2>8. SucceededUnique'
    BY <1>1, <2>1, <2>3, <2>7 DEF KInv, SucceededUnique, IInv, OneTxPerCall
  <2> QED
    BY <2>6, <2>8 DEF KInv
<1>7. ASSUME NEW t \in accepted, Include(t) PROVE KInv'
  <2>1. UNCHANGED <<seeded, next, accepted, pc>>
        /\ \A a \in Addrs : committed'[a] \in {committed[a], committed[a] + 1}
    BY <1>7 DEF Include, acctVars, TypeOK
  <2>2. \A a \in Addrs : committed[a] \in Nat
    BY DEF TypeOK
  <2>3. SucceededBelow' /\ SucceededUnique'
    BY <1>1, <1>2, <2>1, <2>2 DEF KInv, SucceededBelow
  <2> QED
    BY <2>3 DEF KInv
<1>8. ASSUME Restart PROVE KInv'
  <2>1. Drained /\ accepted' = accepted /\ committed' = committed
        /\ (\A a \in Addrs : ~seeded'[a])
        /\ \A c \in Calls : pc'[c] \notin {"accepted"} /\ (pc'[c] = "ok" => pc[c] = "ok")
    BY <1>8 DEF Restart, Reliable, Drained, Ended
  <2>2. SucceededBelow' /\ SucceededUnique'
    BY <1>1, <1>2, <2>1 DEF SucceededBelow, Drained
  <2> QED
    BY <2>2 DEF KInv
<1>9. CASE UNCHANGED vars
  BY <1>9 DEF vars, acctVars, chainVars, KInv, SucceededBelow, SucceededUnique
<1> QED
  BY <1>3, <1>4, <1>5, <1>6, <1>7, <1>8, <1>9 DEF Next, Call, Answer

(* "advances only on a successful mempool-accept": of the submissions that *)
(* returned success, no two share a nonce, although a send whose reply was *)
(* lost leaves its nonce to be handed out again.                           *)
THEOREM SucceededApart == ASSUME Reliable PROVE Spec => []SucceededUnique
<1>1. Init => KInv
  BY InitKInv
<1>2. KInv /\ [Next]_vars => KInv'
  BY NextKInv
<1>3. KInv => SucceededUnique
  BY DEF KInv
<1> QED
  BY <1>1, <1>2, <1>3, PTL DEF Spec

-----------------------------------------------------------------------------
(* What the address sends at next, or would send at if seeded now.         *)
Counter == [a \in Addrs |-> IF seeded[a] THEN next[a] ELSE committed[a]]

Pending == [a \in Addrs |-> {t \in accepted \ included : t.addr = a}]

(* The transaction the counter has yet to be advanced past, if any.        *)
Accepting ==
  [a \in Addrs |-> IF \E c \in Calls : pc[c] = "accepted" /\ Signer[c] = a THEN 1 ELSE 0]

AcceptedTx ==
  \A c \in Calls : pc[c] = "accepted" => \E t \in accepted : t.call = c

(* An account is seeded once, when all it sent before is included.         *)
Seeding ==
  /\ \A c \in Calls : pc[c] = "seeding" => ~seeded[Signer[c]]
  /\ \A a \in Addrs : ~seeded[a] => next[a] = 0 /\ (GaplessUse(a) => Pending[a] = {})

Contiguous ==
  \A t \in accepted :
    GaplessUse(t.addr) =>
      \A n \in t.nonce .. Counter[t.addr] - 1 :
        \E u \in accepted : u.addr = t.addr /\ u.nonce = n

(* The committed count is behind the counter by what is pending, which is  *)
(* why a restart that waits for all of it to be committed misses nothing.  *)
Accounts ==
  \A a \in Addrs \ Lossy :
    seeded[a] => next[a] + Accepting[a] = committed[a] + Cardinality(Pending[a])

LInv ==
  /\ KInv
  /\ IsFiniteSet(accepted)
  /\ AcceptedTx
  /\ Seeding
  /\ Contiguous
  /\ Accounts

LEMMA InitLInv == Init => LInv
<1> SUFFICES ASSUME Init PROVE LInv
  OBVIOUS
<1> USE NonceAssumption DEF Init
<1>1. KInv
  BY InitKInv
<1>2. IsFiniteSet(accepted)
  BY FS_EmptySet
<1>3. AcceptedTx /\ Contiguous
  BY DEF AcceptedTx, Contiguous
<1>4. Seeding /\ Accounts
  BY DEF Seeding, Accounts, Pending
<1> QED
  BY <1>1, <1>2, <1>3, <1>4 DEF LInv

(* The steps that neither add a transaction nor move a counter.            *)
LEMMA KeepsLInv ==
  ASSUME LInv, KInv', NEW c \in Calls,
         UNCHANGED <<seeded, next, accepted, included, committed, restarts>>,
         pc[c] # "accepted", pc'[c] # "accepted",
         pc'[c] = "seeding" => ~seeded[Signer[c]],
         \A d \in Calls \ {c} : pc'[d] = pc[d]
  PROVE  LInv'
<1>1. Counter' = Counter /\ Pending' = Pending /\ Accepting' = Accepting
  BY DEF Counter, Pending, Accepting
<1>2. AcceptedTx' /\ Seeding'
  BY <1>1 DEF LInv, AcceptedTx, Seeding, GaplessUse
<1>3. Contiguous' /\ Accounts'
  BY <1>1 DEF LInv, Contiguous, Accounts, GaplessUse
<1> QED
  BY <1>2, <1>3 DEF LInv

LEMMA SeedKeepsLInv ==
  ASSUME LInv, KInv', NEW c \in Calls, Seed(c)
  PROVE  LInv'
<1> USE NonceAssumption
<1> DEFINE a == Signer[c]
<1>0. KInv /\ IInv /\ TypeOK /\ a \in Addrs
  BY DEF LInv, KInv, IInv
<1>1. /\ pc[c] = "seeding" /\ pc'[c] = "sending" /\ \A d \in Calls \ {c} : pc'[d] = pc[d]
      /\ UNCHANGED <<accepted, included, committed, restarts>>
  BY <1>0 DEF Seed, chainVars, TypeOK
<1>2. ~seeded[a] /\ next[a] = 0 /\ committed[a] \in Nat
  BY <1>0, <1>1 DEF LInv, Seeding, TypeOK
<1>3. /\ seeded'[a] /\ next'[a] = committed[a]
      /\ \A b \in Addrs \ {a} : seeded'[b] = seeded[b] /\ next'[b] = next[b]
  BY <1>0, <1>2 DEF Seed, Reseed, TypeOK
<1>4. \A d \in Calls : Signer[d] = a => pc[d] # "accepted" /\ (pc[d] = "seeding" => d = c)
  BY <1>0, <1>1, OneInMutex DEF InMutex
<1>5. Counter' = Counter /\ Pending' = Pending /\ Accepting' = Accepting
  BY <1>1, <1>2, <1>3 DEF Counter, Pending, Accepting
<1>6. AcceptedTx' /\ Seeding'
  BY <1>0, <1>1, <1>3, <1>4, <1>5 DEF LInv, AcceptedTx, Seeding, GaplessUse
<1>7. Contiguous'
  BY <1>1, <1>5 DEF LInv, Contiguous, GaplessUse
<1>8. Accounts'
  <2>1. a \notin Lossy => Pending[a] = {} /\ Cardinality(Pending[a]) = 0 /\ Accepting[a] = 0
    BY <1>0, <1>2, <1>4, FS_EmptySet DEF LInv, Seeding, GaplessUse, Accepting
  <2> QED
    BY <1>1, <1>2, <1>3, <1>5, <2>1 DEF LInv, Accounts
<1> QED
  BY <1>1, <1>6, <1>7, <1>8 DEF LInv

(* A new transaction is at the counter: it opens no gap and is pending.    *)
LEMMA SendKeepsLInv ==
  ASSUME LInv, KInv', NEW c \in Calls, SendAccepted(c) \/ SendReplyLost(c)
  PROVE  LInv'
<1> USE NonceAssumption
<1> DEFINE a == Signer[c]
<1>0. KInv /\ IInv /\ TypeOK /\ a \in Addrs
  BY DEF LInv, KInv, IInv
<1>1. /\ pc[c] = "sending" /\ \A d \in Calls \ {c} : pc'[d] = pc[d]
      /\ accepted' = accepted \cup {Tx(c)}
      /\ UNCHANGED <<seeded, next, included, committed, restarts>>
      /\ SendAccepted(c) => pc'[c] = "accepted"
      /\ ~SendAccepted(c) => pc'[c] = "failed" /\ a \in Lossy
  BY <1>0 DEF SendAccepted, SendReplyLost, SendError, IsNonceError, Return, acctVars, TypeOK
<1>2. Tx(c).addr = a /\ Tx(c).nonce = next[a] /\ Tx(c).call = c
  BY DEF Tx
<1>3. Tx(c) \notin accepted /\ Tx(c) \notin included /\ seeded[a]
  BY <1>0, <1>1, <1>2, FreshNonce DEF TypeOK
<1>4. /\ Pending'[a] = Pending[a] \cup {Tx(c)}
      /\ \A b \in Addrs \ {a} : Pending'[b] = Pending[b]
  BY <1>0, <1>1, <1>2, <1>3 DEF Pending
<1>5. Counter' = Counter /\ Counter[a] = next[a] /\ next[a] \in Nat
  BY <1>0, <1>1, <1>3 DEF Counter, TypeOK
<1>6. /\ \A b \in Addrs \ {a} : Accepting'[b] = Accepting[b]
      /\ SendAccepted(c) => Accepting[a] = 0 /\ Accepting'[a] = 1
  <2>1. \A d \in Calls : Signer[d] = a => pc[d] # "accepted"
    BY <1>0, <1>1, OneInMutex DEF InMutex
  <2>2. \A b \in Addrs \ {a}, d \in Calls : Signer[d] = b => pc'[d] = pc[d]
    BY <1>1
  <2>3. \A b \in Addrs \ {a} : Accepting'[b] = Accepting[b]
    BY <2>2 DEF Accepting
  <2>4. SendAccepted(c) => Accepting[a] = 0 /\ Accepting'[a] = 1
    BY <1>0, <1>1, <2>1 DEF Accepting
  <2> QED
    BY <2>3, <2>4
<1>7. IsFiniteSet(accepted')
  BY <1>1, FS_AddElement DEF LInv
<1>8. AcceptedTx' /\ Seeding'
  BY <1>0, <1>1, <1>2, <1>3, <1>4 DEF LInv, AcceptedTx, Seeding, GaplessUse
<1>9. Contiguous'
  <2>1. \A n \in next[a] .. next[a] - 1 : FALSE
    BY <1>5
  <2> QED
    BY <1>1, <1>2, <1>5, <2>1 DEF LInv, Contiguous, GaplessUse
<1>10. Accounts'
  <2>1. IsFiniteSet(Pending[a])
    BY <1>0, FS_Subset DEF LInv, Pending
  <2>2. Tx(c) \notin Pending[a]
    BY <1>0, <1>3 DEF Pending
  <2>3. Cardinality(Pending'[a]) = Cardinality(Pending[a]) + 1 /\ Cardinality(Pending[a]) \in Nat
    BY <1>4, <2>1, <2>2, FS_AddElement, FS_CardinalityType
  <2>4. a \notin Lossy => SendAccepted(c)
    BY <1>1
  <2>5. committed[a] \in Nat
    BY <1>0 DEF TypeOK
  <2>6. a \notin Lossy => next'[a] + Accepting'[a] = committed'[a] + Cardinality(Pending'[a])
    BY <1>0, <1>1, <1>3, <1>5, <1>6, <2>3, <2>4, <2>5 DEF LInv, Accounts
  <2>7. \A b \in Addrs \ {a} : Pending'[b] = Pending[b] /\ Accepting'[b] = Accepting[b]
    BY <1>4, <1>6
  <2> QED
    BY <1>1, <2>6, <2>7 DEF LInv, Accounts
<1> QED
  BY <1>7, <1>8, <1>9, <1>10 DEF LInv

(* The counter passes the transaction that was accepted at it.             *)
LEMMA AdvanceKeepsLInv ==
  ASSUME LInv, KInv', NEW c \in Calls, Advance(c)
  PROVE  LInv'
<1> USE NonceAssumption
<1> DEFINE a == Signer[c]
<1>0. KInv /\ IInv /\ TypeOK /\ a \in Addrs
  BY DEF LInv, KInv, IInv
<1>1. /\ pc[c] = "accepted" /\ pc'[c] = "ok" /\ \A d \in Calls \ {c} : pc'[d] = pc[d]
      /\ UNCHANGED <<seeded, accepted, included, committed, restarts>>
      /\ next'[a] = next[a] + 1 /\ \A b \in Addrs \ {a} : next'[b] = next[b]
  BY <1>0 DEF Advance, Return, chainVars, TypeOK
<1>2. seeded[a] /\ next[a] \in Nat
  BY <1>0, <1>1 DEF IInv, SeededToSend, TypeOK
<1>3. PICK x \in accepted : x.call = c
  BY <1>1 DEF LInv, AcceptedTx
<1>4. x.addr = a /\ x.nonce = next[a]
  BY <1>0, <1>1, <1>3, AcceptedFacts DEF KInv, SucceededBelow
<1>5. /\ Counter[a] = next[a] /\ Counter'[a] = next[a] + 1
      /\ \A b \in Addrs \ {a} : Counter'[b] = Counter[b]
      /\ Pending' = Pending
  BY <1>0, <1>1, <1>2 DEF Counter, Pending
<1>6. /\ Accepting[a] = 1 /\ Accepting'[a] = 0
      /\ \A b \in Addrs \ {a} : Accepting'[b] = Accepting[b]
  <2>1. \A d \in Calls : Signer[d] = a => pc'[d] # "accepted"
    BY <1>0, <1>1, OneInMutex DEF InMutex
  <2>2. \A b \in Addrs \ {a}, d \in Calls : Signer[d] = b => pc'[d] = pc[d]
    BY <1>1
  <2>3. \A b \in Addrs \ {a} : Accepting'[b] = Accepting[b]
    BY <2>2 DEF Accepting
  <2>4. Accepting[a] = 1 /\ Accepting'[a] = 0
    BY <1>0, <1>1, <2>1 DEF Accepting
  <2> QED
    BY <2>3, <2>4
<1>7. AcceptedTx' /\ Seeding'
  BY <1>0, <1>1, <1>2, <1>5 DEF LInv, AcceptedTx, Seeding, GaplessUse
<1>8. Contiguous'
  <2> SUFFICES ASSUME NEW t \in accepted, GaplessUse(t.addr),
                      NEW n \in t.nonce .. Counter'[t.addr] - 1
               PROVE  \E u \in accepted : u.addr = t.addr /\ u.nonce = n
    BY <1>1 DEF Contiguous, GaplessUse
  <2>1. t.nonce \in Nat /\ t.addr \in Addrs
    BY <1>0, AcceptedFacts
  <2>2. CASE n \in t.nonce .. Counter[t.addr] - 1
    BY <2>2 DEF LInv, Contiguous
  <2>3. CASE n \notin t.nonce .. Counter[t.addr] - 1
    <3>1. t.addr = a
      BY <1>5, <2>1, <2>3
    <3>2. n = next[a]
      BY <1>2, <1>5, <2>1, <2>3, <3>1
    <3> QED
      BY <1>4, <3>1, <3>2
  <2> QED
    BY <2>2, <2>3
<1>9. Accounts'
  BY <1>0, <1>1, <1>2, <1>5, <1>6 DEF LInv, Accounts
<1> QED
  BY <1>1, <1>7, <1>8, <1>9 DEF LInv

(* What a block includes moves from the pending to the committed count.    *)
LEMMA IncludeKeepsLInv ==
  ASSUME LInv, KInv', NEW t \in accepted, Include(t)
  PROVE  LInv'
<1> USE NonceAssumption
<1> DEFINE a == t.addr
<1>0. KInv /\ IInv /\ TypeOK /\ a \in Addrs
  BY AcceptedFacts DEF LInv, KInv, IInv
<1>1. /\ t \notin included /\ included' = included \cup {t}
      /\ committed'[a] = committed[a] + 1 /\ \A b \in Addrs \ {a} : committed'[b] = committed[b]
      /\ UNCHANGED <<pc, seeded, next, accepted, restarts>>
  BY <1>0 DEF Include, acctVars, TypeOK
<1>2. /\ t \in Pending[a] /\ Pending'[a] = Pending[a] \ {t}
      /\ \A b \in Addrs \ {a} : Pending'[b] = Pending[b]
  BY <1>0, <1>1 DEF Pending
<1>3. GaplessUse(a) => seeded[a]
  BY <1>0, <1>2 DEF LInv, Seeding
<1>4. \A b \in Addrs : GaplessUse(b) => Counter'[b] = Counter[b]
  BY <1>0, <1>1, <1>3 DEF Counter
<1>5. AcceptedTx' /\ Accepting' = Accepting
  BY <1>1 DEF LInv, AcceptedTx, Accepting
<1>6. Seeding'
  BY <1>0, <1>1, <1>2, <1>3 DEF LInv, Seeding, GaplessUse
<1>7. Contiguous'
  BY <1>0, <1>1, <1>4, AcceptedFacts DEF LInv, Contiguous, GaplessUse
<1>8. Accounts'
  <2>1. IsFiniteSet(Pending[a])
    BY <1>0, FS_Subset DEF LInv, Pending
  <2>2. Cardinality(Pending'[a]) = Cardinality(Pending[a]) - 1 /\ Cardinality(Pending[a]) \in Nat
    BY <1>2, <2>1, FS_RemoveElement, FS_CardinalityType
  <2>3. committed[a] \in Nat
    BY <1>0 DEF TypeOK
  <2>4. \A b \in Addrs \ {a} : Pending'[b] = Pending[b] /\ committed'[b] = committed[b]
    BY <1>1, <1>2
  <2>5. a \notin Lossy /\ seeded[a] =>
          next'[a] + Accepting'[a] = committed'[a] + Cardinality(Pending'[a])
    BY <1>0, <1>1, <1>5, <2>2, <2>3 DEF LInv, Accounts
  <2> QED
    BY <1>1, <1>5, <2>4, <2>5 DEF LInv, Accounts
<1> QED
  BY <1>1, <1>5, <1>6, <1>7, <1>8 DEF LInv

(* A drained restart: the committed nonce it will adopt is the counter it  *)
(* forgets, because that was contiguous and nothing is pending any more.   *)
LEMMA RestartKeepsLInv ==
  ASSUME Reliable, LInv, KInv', Restart
  PROVE  LInv'
<1> USE NonceAssumption
<1>0. KInv /\ IInv /\ TypeOK
  BY DEF LInv, KInv, IInv
<1>1. /\ Drained /\ accepted' = accepted /\ UNCHANGED <<included, committed>>
      /\ restarts' = restarts + 1 /\ restarts \in Nat
      /\ \A a \in Addrs : ~seeded'[a] /\ next'[a] = 0
      /\ \A c \in Calls : pc'[c] \notin {"accepted", "seeding"}
  BY <1>0 DEF Restart, Reliable, Drained, Ended, TypeOK
<1>2. Pending' = Pending
  BY <1>1 DEF Pending
<1>3. ASSUME NEW a \in Addrs \ Lossy
      PROVE  /\ Pending[a] = {}
             /\ \A t \in accepted : t.addr = a => Counter[a] = committed[a]
  <2>1. CASE ~seeded[a]
    BY <2>1 DEF LInv, Seeding, GaplessUse, Counter
  <2>2. CASE seeded[a] /\ \A t \in accepted : t.addr # a
    BY <2>2 DEF Pending
  <2>3. ASSUME seeded[a], NEW t \in accepted, t.addr = a
        PROVE  Pending[a] = {} /\ Counter[a] = committed[a]
    <3>1. /\ next[a] \in Nat /\ committed[a] \in Nat /\ t.nonce \in Nat /\ Counter[a] = next[a]
      BY <1>0, <2>3, AcceptedFacts DEF Counter, TypeOK
    <3>2. t.nonce < next[a]
      BY <1>0, <1>1, <2>3, AcceptedFacts DEF IInv, BelowCounter, Heard, Drained
    <3>3. PICK u \in accepted : u.addr = a /\ u.nonce = next[a] - 1
      BY <2>3, <3>1, <3>2 DEF LInv, Contiguous, GaplessUse
    <3>4. next[a] <= committed[a]
      BY <1>1, <3>1, <3>3 DEF Drained
    <3>5. Accepting[a] = 0
      BY <1>1 DEF Accepting, Drained
    <3>6. IsFiniteSet(Pending[a])
      BY FS_Subset DEF LInv, Pending
    <3>7. Cardinality(Pending[a]) \in Nat
      BY <3>6, FS_CardinalityType
    <3>8. next[a] = committed[a] + Cardinality(Pending[a])
      BY <2>3, <3>1, <3>5 DEF LInv, Accounts
    <3>9. Cardinality(Pending[a]) = 0 /\ next[a] = committed[a]
      BY <3>1, <3>4, <3>7, <3>8
    <3> QED
      BY <3>1, <3>6, <3>9, FS_EmptySet
  <2> QED
    BY <2>1, <2>2, <2>3
<1>4. AcceptedTx' /\ Accounts'
  BY <1>1 DEF AcceptedTx, Accounts
<1>5. \A a : GaplessUse(a)' => a \notin Lossy
  BY <1>1 DEF GaplessUse
<1>6. Seeding'
  BY <1>1, <1>2, <1>3, <1>5 DEF Seeding
<1>7. Contiguous'
  <2>1. \A a \in Addrs : Counter'[a] = committed[a]
    BY <1>1 DEF Counter
  <2>2. \A t \in accepted : t.addr \notin Lossy => Counter'[t.addr] = Counter[t.addr] /\ GaplessUse(t.addr)
    BY <1>0, <1>3, <2>1, AcceptedFacts DEF GaplessUse
  <2> QED
    BY <1>1, <2>2 DEF LInv, Contiguous, GaplessUse
<1> QED
  BY <1>1, <1>4, <1>6, <1>7 DEF LInv

LEMMA NextLInv ==
  ASSUME Reliable, LInv, [Next]_vars
  PROVE  LInv'
<1> USE NonceAssumption
<1>0. KInv /\ KInv' /\ TypeOK
  BY NextKInv DEF LInv, KInv, IInv
<1>1. ASSUME NEW c \in Calls, Submit(c) \/ Lock(c) \/ SeedFails(c) \/ SendRejected(c)
      PROVE  LInv'
  <2>1. /\ UNCHANGED <<seeded, next, accepted, included, committed, restarts>>
        /\ pc[c] # "accepted" /\ pc'[c] # "accepted" /\ \A d \in Calls \ {c} : pc'[d] = pc[d]
        /\ pc'[c] = "seeding" => ~seeded[Signer[c]]
    BY <1>0, <1>1 DEF Submit, Lock, SeedFails, SendRejected, SendError, IsNonceError, Return,
       acctVars, chainVars, TypeOK
  <2> QED
    BY <1>0, <2>1, KeepsLInv
<1>2. CASE UNCHANGED vars
  <2>1. Counter' = Counter /\ Pending' = Pending /\ Accepting' = Accepting
    BY <1>2 DEF Counter, Pending, Accepting, vars, acctVars, chainVars
  <2> QED
    BY <1>0, <1>2, <2>1 DEF LInv, AcceptedTx, Seeding, Contiguous, Accounts, GaplessUse,
       vars, acctVars, chainVars
<1> QED
  BY <1>0, <1>1, <1>2, SeedKeepsLInv, SendKeepsLInv, AdvanceKeepsLInv, IncludeKeepsLInv,
     RestartKeepsLInv
  DEF Next, Call, Answer

(* "a failed submit leaves the nonce unconsumed for the next call (no      *)
(* gap)": whatever fails and however often the process restarts drained,   *)
(* the mempool is offered every nonce up to the counter.                   *)
THEOREM NoNonceSkipped == ASSUME Reliable PROVE Spec => []NoGap
<1>1. Init => LInv
  BY InitLInv
<1>2. LInv /\ [Next]_vars => LInv'
  BY NextLInv
<1>3. LInv => NoGap
  <2> SUFFICES ASSUME LInv, NEW t \in accepted, GaplessUse(t.addr),
                      NEW n \in t.nonce .. next[t.addr] - 1
               PROVE  \E u \in accepted : u.addr = t.addr /\ u.nonce = n
    BY DEF NoGap
  <2>1. t.addr \in Addrs /\ t.nonce \in Nat
    BY AcceptedFacts DEF LInv, KInv
  <2>2. seeded[t.addr]
    BY <2>1 DEF LInv, Seeding
  <2> QED
    BY <2>1, <2>2 DEF LInv, Contiguous, Counter
<1> QED
  BY <1>1, <1>2, <1>3, PTL DEF Spec
=============================================================================
