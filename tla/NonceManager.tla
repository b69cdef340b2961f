---------------------------- MODULE NonceManager ----------------------------
(***************************************************************************)
(* The per-account nonce allocator of the Go SDK (go/nonce/manager.go).    *)
(*                                                                         *)
(* Goroutines call Submit for an address.  The account's mutex is held     *)
(* from the seeding of the counter to the mempool's answer; the counter    *)
(* advances only when the mempool accepted the transaction.  The counter   *)
(* lives in memory: a process that restarts seeds it again from the        *)
(* committed nonce, which counts the transactions of the address that a    *)
(* block has included and so lags what the mempool has accepted.           *)
(*                                                                         *)
(* The node is external: it enforces no nonce order, accepts any           *)
(* transaction, and includes accepted ones in any order.                   *)
(***************************************************************************)
EXTENDS Integers, FiniteSets

CONSTANTS
  Calls,           \* the invocations of Submit, each made once
  Addrs,           \* the signing addresses
  Signer,          \* the address each invocation signs for
  None,            \* no holder of a mutex
  Lossy,           \* addresses whose send may fail although it was accepted
  DrainedRestart,  \* whether a restart waits until all accepted is committed
  InitialNonces,   \* what omne_getNonce may answer before the first submission
  MaxRestarts,     \* a bound on the restarts of the process
  Hung             \* addresses whose node may never answer a send

ASSUME NonceAssumption ==
  /\ Signer \in [Calls -> Addrs]
  /\ None \notin Calls
  /\ Lossy \subseteq Addrs
  /\ DrainedRestart \in BOOLEAN
  /\ InitialNonces \subseteq Nat
  /\ MaxRestarts \in Nat
  /\ Hung \subseteq Addrs

VARIABLES
  pc,        \* where each invocation is
  holder,    \* acct.mu: the invocation that holds it, or None
  seeded,    \* acct.seeded
  next,      \* acct.next
  accepted,  \* what the mempool accepted: records [addr, nonce, call]
  included,  \* the accepted transactions that a block includes
  committed, \* what omne_getNonce answers for each address
  restarts   \* how often the process has restarted

acctVars == <<holder, seeded, next>>
chainVars == <<accepted, included, committed>>
vars == <<pc, acctVars, chainVars, restarts>>

Transaction == [addr : Addrs, nonce : Nat, call : Calls]

Ended == {"ok", "failed", "dead"}

Tx(c) == [addr |-> Signer[c], nonce |-> next[Signer[c]], call |-> c]

Init ==
  /\ pc = [c \in Calls |-> "new"]
  /\ holder = [a \in Addrs |-> None]
  /\ seeded = [a \in Addrs |-> FALSE]
  /\ next = [a \in Addrs |-> 0]
  /\ accepted = {}
  /\ included = {}
  /\ committed \in [Addrs -> InitialNonces]
  /\ restarts = 0

-----------------------------------------------------------------------------
(* Submit finds or creates the account (acctFor, under the manager's own   *)
(* mutex, so the lookup is one step) and queues for its mutex.             *)
Submit(c) ==
  /\ pc[c] = "new"
  /\ pc' = [pc EXCEPT ![c] = "waiting"]
  /\ UNCHANGED <<acctVars, chainVars, restarts>>

(* Mutations of Lock: the mutex is not waited for; one mutex serves every  *)
(* address.                                                                *)
Lock_Shared(c) ==
  LET a == Signer[c]
  IN /\ pc[c] = "waiting"
     /\ holder' = [holder EXCEPT ![a] = c]
     /\ pc' = [pc EXCEPT ![c] = IF seeded[a] THEN "sending" ELSE "seeding"]
     /\ UNCHANGED <<seeded, next, chainVars, restarts>>

Lock_Global(c) ==
  LET a == Signer[c]
  IN /\ pc[c] = "waiting"
     /\ \A b \in Addrs : holder[b] = None
     /\ holder' = [holder EXCEPT ![a] = c]
     /\ pc' = [pc EXCEPT ![c] = IF seeded[a] THEN "sending" ELSE "seeding"]
     /\ UNCHANGED <<seeded, next, chainVars, restarts>>

Lock(c) ==
  LET a == Signer[c]
  IN /\ pc[c] = "waiting"
     /\ holder[a] = None
     /\ holder' = [holder EXCEPT ![a] = c]
     /\ pc' = [pc EXCEPT ![c] = IF seeded[a] THEN "sending" ELSE "seeding"]
     /\ UNCHANGED <<seeded, next, chainVars, restarts>>

(* Mutation of Return: the failed submission is not unlocked.              *)
Return_KeepsLock(c, how) ==
  /\ pc' = [pc EXCEPT ![c] = how]
  /\ IF how = "failed" THEN UNCHANGED holder
     ELSE holder' = [holder EXCEPT ![Signer[c]] = None]

(* The deferred unlock runs on every return.                               *)
Return(c, how) ==
  /\ pc' = [pc EXCEPT ![c] = how]
  /\ holder' = [holder EXCEPT ![Signer[c]] = None]

(* reseed adopts the committed nonce, and only ever moves forward.         *)
Reseed(a) ==
  /\ next' = [next EXCEPT ![a] = IF committed[a] > @ THEN committed[a] ELSE @]
  /\ seeded' = [seeded EXCEPT ![a] = TRUE]

Seed(c) ==
  /\ pc[c] = "seeding"
  /\ Reseed(Signer[c])
  /\ pc' = [pc EXCEPT ![c] = "sending"]
  /\ UNCHANGED <<holder, chainVars, restarts>>

SeedFails(c) ==
  /\ pc[c] = "seeding"
  /\ Return(c, "failed")
  /\ UNCHANGED <<seeded, next, chainVars, restarts>>

(* send(a.next): the closure signs at exactly that nonce and submits.      *)
SendAccepted(c) ==
  /\ pc[c] = "sending"
  /\ accepted' = accepted \cup {Tx(c)}
  /\ pc' = [pc EXCEPT ![c] = "accepted"]
  /\ UNCHANGED <<acctVars, included, committed, restarts>>

(* The send failed.  isNonceError is a dormant seam that recognises no     *)
(* error, so the counter stays where it is for the next invocation.        *)
IsNonceError == FALSE

(* Mutation of SendError: the failed submission has consumed its nonce.    *)
SendError_Consumes(c) ==
  /\ pc[c] = "sending"
  /\ Return(c, "failed")
  /\ next' = [next EXCEPT ![Signer[c]] = @ + 1]
  /\ UNCHANGED seeded

SendError(c) ==
  /\ pc[c] = "sending"
  /\ Return(c, "failed")
  /\ IF IsNonceError THEN Reseed(Signer[c]) ELSE UNCHANGED <<seeded, next>>

SendRejected(c) == SendError(c) /\ UNCHANGED <<chainVars, restarts>>

SendReplyLost(c) ==
  /\ Signer[c] \in Lossy
  /\ SendError(c)
  /\ accepted' = accepted \cup {Tx(c)}
  /\ UNCHANGED <<included, committed, restarts>>

(* Mutation of Advance: the counter stays.                                 *)
Advance_Stays(c) ==
  /\ pc[c] = "accepted"
  /\ Return(c, "ok")
  /\ UNCHANGED <<seeded, next, chainVars, restarts>>

Advance(c) ==
  /\ pc[c] = "accepted"
  /\ next' = [next EXCEPT ![Signer[c]] = @ + 1]
  /\ Return(c, "ok")
  /\ UNCHANGED <<seeded, chainVars, restarts>>

-----------------------------------------------------------------------------
(* A block includes a transaction; the committed nonce counts it.          *)
Include(t) ==
  /\ t \notin included
  /\ included' = included \cup {t}
  /\ committed' = [committed EXCEPT ![t.addr] = @ + 1]
  /\ UNCHANGED <<pc, acctVars, accepted, restarts>>

(* The process dies and starts again with a fresh Manager.  Of the sends   *)
(* on the wire some arrive.  A drained restart has none, and waits until   *)
(* the committed nonce has passed every accepted one.                      *)
Drained ==
  /\ \A c \in Calls : pc[c] \notin {"sending", "accepted"}
  /\ \A t \in accepted : t.nonce < committed[t.addr]

Restart ==
  /\ restarts < MaxRestarts
  /\ DrainedRestart => Drained
  /\ \E arrive \in SUBSET {c \in Calls : pc[c] = "sending"} :
       accepted' = accepted \cup {Tx(c) : c \in arrive}
  /\ pc' = [c \in Calls |-> IF pc[c] \in {"new"} \cup Ended THEN pc[c] ELSE "dead"]
  /\ holder' = [a \in Addrs |-> None]
  /\ seeded' = [a \in Addrs |-> FALSE]
  /\ next' = [a \in Addrs |-> 0]
  /\ restarts' = restarts + 1
  /\ UNCHANGED <<included, committed>>

Answer(c) ==
  SendAccepted(c) \/ SendRejected(c) \/ SendReplyLost(c)

Call(c) ==
  Submit(c) \/ Lock(c) \/ Seed(c) \/ SeedFails(c) \/ Answer(c) \/ Advance(c)

Next ==
  \/ \E c \in Calls : Call(c)
  \/ \E t \in accepted : Include(t)
  \/ Restart

Spec == Init /\ [][Next]_vars

(* Goroutines run, a query is answered or fails, and so is a send unless   *)
(* the address is Hung.  A sync.Mutex hands over to the longest waiter     *)
(* after a millisecond, so a waiter whose mutex is released again and      *)
(* again gets it: strong fairness.                                         *)
Fairness ==
  \A c \in Calls :
    /\ SF_vars(Lock(c))
    /\ WF_vars(Seed(c) \/ SeedFails(c))
    /\ WF_vars(Advance(c))
    /\ Signer[c] \notin Hung => WF_vars(Answer(c))

FairSpec == Spec /\ Fairness

-----------------------------------------------------------------------------
InMutex(c) == pc[c] \in {"seeding", "sending", "accepted"}

(* Every variable has its type, and a mutex is held by the invocation that *)
(* is between its lock and its unlock, and by no other.                    *)
TypeOK ==
  /\ pc \in [Calls -> {"new", "waiting", "seeding", "sending", "accepted"} \cup Ended]
  /\ holder \in [Addrs -> Calls \cup {None}]
  /\ seeded \in [Addrs -> BOOLEAN]
  /\ next \in [Addrs -> Nat]
  /\ accepted \subseteq Transaction
  /\ included \subseteq accepted
  /\ committed \in [Addrs -> Nat]
  /\ restarts \in 0 .. MaxRestarts
  /\ \A c \in Calls : InMutex(c) => holder[Signer[c]] = c
  /\ \A a \in Addrs, c \in Calls : holder[a] = c => InMutex(c) /\ Signer[c] = a

(* What was accepted from the addresses whose sends always hear of it.     *)
Heard == {t \in accepted : t.addr \notin Lossy}

(* manager.go, "Why it exists": no two transactions with different         *)
(* payloads are accepted from one signer at one nonce (the treasury        *)
(* double-funding hazard), as long as a failed send was not accepted.      *)
NonceUnique ==
  \A t, u \in Heard : t.addr = u.addr /\ t.nonce = u.nonce => t = u

(* The same of every address, as the package comment has it.               *)
NonceNeverReused ==
  \A t, u \in accepted : t.addr = u.addr /\ t.nonce = u.nonce => t = u

(* "advances only on a successful mempool-accept": two submissions that    *)
(* succeeded never share a nonce, also when the reply of others was lost.  *)
SucceededUnique ==
  \A t, u \in accepted :
    /\ t.addr = u.addr /\ t.nonce = u.nonce
    /\ pc[t.call] = "ok" /\ pc[u.call] = "ok"
    => t = u

(* Where a lost reply has let two transactions share a nonce, the          *)
(* committed count that a restart adopts runs ahead of the nonces.         *)
GaplessUse(a) == a \notin Lossy \/ restarts = 0

(* "a failed submit leaves the nonce unconsumed for the next call (no      *)
(* gap)": below the counter, every nonce was used, from the first one the  *)
(* address ever sent.                                                      *)
NoGap ==
  \A t \in accepted :
    GaplessUse(t.addr) =>
      \A n \in t.nonce .. next[t.addr] - 1 :
        \E u \in accepted : u.addr = t.addr /\ u.nonce = n

(* "distinct addresses stay fully parallel": an invocation that queues for *)
(* an address ends although the node never answers for other addresses.    *)
DistinctParallel ==
  \A c \in Calls :
    Signer[c] \notin Hung => (pc[c] = "waiting" ~> pc[c] \in Ended)

(* The manager is a nonce authority: what is accepted is granted a fresh   *)
(* nonce, above all earlier ones of the address, across restarts too.      *)
Authority == INSTANCE NonceAuthority WITH granted <- Heard

IsAuthority == Authority!Spec
=============================================================================
