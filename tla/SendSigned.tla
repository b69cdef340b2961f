----------------------------- MODULE SendSigned -----------------------------
(***************************************************************************)
(* The write path of the TypeScript SDK: sendSigned and what it calls      *)
(* (src/capability-registry.ts), for the calls of one signer.              *)
(*                                                                         *)
(* Every write takes its nonce from a cache that is seeded from the node,  *)
(* signs, submits, and moves the cache only when the node's answer is      *)
(* back.  JavaScript runs one continuation at a time, so a call is atomic  *)
(* between two awaits and other calls run at each await:                   *)
(*                                                                         *)
(*   new -> seeding -> posting -> answered -> polling -> returned          *)
(*                        ^          |                                     *)
(*                        '------ refetching        (or threw, anywhere)   *)
(*                                                                         *)
(* The node is external.  It holds a transaction once, keyed by its hash;  *)
(* a tracking node also refuses a nonce below the account's and counts the *)
(* ones it includes, while the devnet node answers 0 for ever and takes    *)
(* any nonce.                                                              *)
(***************************************************************************)
EXTENDS Integers, FiniteSets

CONSTANTS
  Calls,         \* the sendSigned calls, each made once
  Payload,       \* what each call signs besides the nonce
  None,          \* an empty cache, a call with no nonce yet
  MaxOutside     \* a bound on the transactions the signer sends elsewhere

ASSUME SendSignedAssumption ==
  /\ None \notin Calls \cup Nat
  /\ Calls \subseteq DOMAIN Payload
  /\ MaxOutside \in Nat

VARIABLES
  tracking,   \* whether the node tracks nonces, which the SDK does not know
  serial,     \* whether the application awaits a write before the next
  reliable,   \* whether every answer of the node reaches the process
  pc,         \* where each call is
  cache,      \* nonces.get(signer.address), None when unset
  nonce,      \* the nonce a call signs at
  attempt,    \* the loop counter of a call
  answer,     \* the node's answer to a call's last submission
  held,       \* the transactions the node has accepted: [call, payload, nonce]
  included,   \* those a block includes
  nodeNonce,  \* what omne_getNonce answers
  outside     \* how many transactions the signer has sent from elsewhere

callVars == <<pc, cache, nonce, attempt, answer>>
nodeVars == <<held, included, nodeNonce, outside>>
setting == <<tracking, serial, reliable>>
vars == <<setting, callVars, nodeVars>>

Ended == {"returned", "threw"}
Answers == {"none", "ok", "duplicate", "stale_nonce", "error"}

Wire(c) == [payload |-> Payload[c], nonce |-> nonce[c]]
WireOf(t) == [payload |-> t.payload, nonce |-> t.nonce]
Held(wire) == \E t \in held : WireOf(t) = wire

Init ==
  /\ tracking \in BOOLEAN /\ serial \in BOOLEAN /\ reliable \in BOOLEAN
  /\ pc = [c \in Calls |-> "new"]
  /\ cache = None
  /\ nonce = [c \in Calls |-> None]
  /\ attempt = [c \in Calls |-> 0]
  /\ answer = [c \in Calls |-> "none"]
  /\ held = {}
  /\ included = {}
  /\ nodeNonce = 0
  /\ outside = 0

-----------------------------------------------------------------------------
Goto(c, label) == pc' = [pc EXCEPT ![c] = label]

(* The cached nonce is used at once; an unset cache is seeded first.       *)
Start(c) ==
  /\ pc[c] = "new"
  /\ serial => \A d \in Calls : pc[d] \in {"new"} \cup Ended
  /\ nonce' = [nonce EXCEPT ![c] = cache]
  /\ Goto(c, IF cache = None THEN "seeding" ELSE "posting")
  /\ UNCHANGED <<cache, attempt, answer, nodeVars>>

(* fetchNonce.  The seed is not put in the cache: only an answer is.       *)
Seed(c) ==
  /\ pc[c] = "seeding"
  /\ nonce' = [nonce EXCEPT ![c] = nodeNonce]
  /\ Goto(c, "posting")
  /\ UNCHANGED <<cache, attempt, answer, nodeVars>>

(* Both queries of fetchNonce fail.                                        *)
FetchFails(c) ==
  /\ pc[c] \in {"seeding", "refetching"}
  /\ Goto(c, "threw")
  /\ UNCHANGED <<cache, nonce, attempt, answer, nodeVars>>

-----------------------------------------------------------------------------
(* The node (external) answers a submission.                               *)
Hold(c) ==
  held' = held \cup {[call |-> c, payload |-> Payload[c], nonce |-> nonce[c]]}

NodeAnswer(c) ==
  IF Held(Wire(c)) THEN "duplicate"
  ELSE IF tracking /\ nonce[c] < nodeNonce THEN "stale_nonce"
  ELSE "ok"

Answer(c) ==
  /\ pc[c] = "posting"
  /\ answer' = [answer EXCEPT ![c] = NodeAnswer(c)]
  /\ IF NodeAnswer(c) = "ok" THEN Hold(c) ELSE UNCHANGED held
  /\ Goto(c, "answered")
  /\ UNCHANGED <<cache, nonce, attempt, included, nodeNonce, outside>>

(* The node cannot be reached, or refuses the transaction as malformed,    *)
(* underpriced or unfunded.                                                *)
AnswerError(c) ==
  /\ pc[c] = "posting"
  /\ answer' = [answer EXCEPT ![c] = "error"]
  /\ Goto(c, "answered")
  /\ UNCHANGED <<cache, nonce, attempt, nodeVars>>

(* The node has accepted the transaction, and the call sees an error.      *)
AnswerLost(c) ==
  /\ ~reliable
  /\ pc[c] = "posting"
  /\ NodeAnswer(c) = "ok"
  /\ Hold(c)
  /\ answer' = [answer EXCEPT ![c] = "error"]
  /\ Goto(c, "answered")
  /\ UNCHANGED <<cache, nonce, attempt, included, nodeNonce, outside>>

(* A block includes a transaction.  A tracking node includes the account's *)
(* transactions in the order of their nonces, one for each.                *)
Include(t) ==
  /\ t \notin included
  /\ tracking => t.nonce = nodeNonce
  /\ included' = included \cup {t}
  /\ nodeNonce' = IF tracking THEN nodeNonce + 1 ELSE nodeNonce
  /\ UNCHANGED <<callVars, held, outside>>

(* The same key signs elsewhere: another process uses the account's nonce. *)
Outside ==
  /\ tracking
  /\ outside < MaxOutside
  /\ nodeNonce' = nodeNonce + 1
  /\ outside' = outside + 1
  /\ UNCHANGED <<callVars, held, included>>

-----------------------------------------------------------------------------
(* Mutation of Accepted: the cache is not moved.                           *)
Accepted_NotCached(c) ==
  /\ answer[c] \in {"ok", "duplicate"}
  /\ Goto(c, IF answer[c] = "ok" THEN "polling" ELSE "returned")
  /\ UNCHANGED <<cache, nonce, attempt>>

(* ok and duplicate are both acceptance; a duplicate has no hash to poll.  *)
Accepted(c) ==
  /\ answer[c] \in {"ok", "duplicate"}
  /\ cache' = nonce[c] + 1
  /\ Goto(c, IF answer[c] = "ok" THEN "polling" ELSE "returned")
  /\ UNCHANGED <<nonce, attempt>>

(* Mutations of Failed: a failed submission is tried again one higher; the *)
(* cache is seeded again; the nonce is consumed.                           *)
Failed_Resigns(c) ==
  /\ answer[c] = "error"
  /\ IF attempt[c] = 0
     THEN /\ nonce' = [nonce EXCEPT ![c] = @ + 1]
          /\ attempt' = [attempt EXCEPT ![c] = 1]
          /\ Goto(c, "posting")
     ELSE /\ Goto(c, "threw")
          /\ UNCHANGED <<nonce, attempt>>
  /\ UNCHANGED cache

Failed_Reseeds(c) ==
  /\ answer[c] = "error"
  /\ cache' = nodeNonce
  /\ Goto(c, "threw")
  /\ UNCHANGED <<nonce, attempt>>

Failed_Consumes(c) ==
  /\ answer[c] = "error"
  /\ cache' = nonce[c] + 1
  /\ Goto(c, "threw")
  /\ UNCHANGED <<nonce, attempt>>

(* Any other error of the node or the transport is thrown to the caller.   *)
Failed(c) ==
  /\ answer[c] = "error"
  /\ Goto(c, "threw")
  /\ UNCHANGED <<cache, nonce, attempt>>

Stale(c) ==
  /\ answer[c] = "stale_nonce"
  /\ Goto(c, "refetching")
  /\ UNCHANGED <<cache, nonce, attempt>>

Resume(c) ==
  /\ pc[c] = "answered"
  /\ Accepted(c) \/ Failed(c) \/ Stale(c)
  /\ UNCHANGED <<answer, nodeVars>>

(* Mutation of Retry: the loop has no bound.                               *)
Retry_Unbounded(c) ==
  /\ nodeNonce > nonce[c]
  /\ nonce' = [nonce EXCEPT ![c] = nodeNonce]
  /\ cache' = nodeNonce
  /\ attempt' = [attempt EXCEPT ![c] = @ + 1]
  /\ Goto(c, "posting")

(* The first stale nonce is signed again at a fresh one that is higher.    *)
Retry(c) ==
  /\ attempt[c] = 0
  /\ nodeNonce > nonce[c]
  /\ nonce' = [nonce EXCEPT ![c] = nodeNonce]
  /\ cache' = nodeNonce
  /\ attempt' = [attempt EXCEPT ![c] = 1]
  /\ Goto(c, "posting")

GiveUp(c) ==
  /\ attempt[c] = 1 \/ nodeNonce <= nonce[c]
  /\ Goto(c, "threw")
  /\ UNCHANGED <<cache, nonce, attempt>>

Refetch(c) ==
  /\ pc[c] = "refetching"
  /\ Retry(c) \/ GiveUp(c)
  /\ UNCHANGED <<answer, nodeVars>>

(* Mutation of PollReceipt: it waits for the receipt.                      *)
PollReceipt_NoDeadline(c) ==
  /\ pc[c] = "polling"
  /\ \E t \in included : t.call = c
  /\ Goto(c, "returned")
  /\ UNCHANGED <<cache, nonce, attempt, answer, nodeVars>>

(* pollReceipt ends with a receipt or when its window is over, and returns *)
(* either way: it tolerates every error.                                   *)
PollReceipt(c) ==
  /\ pc[c] = "polling"
  /\ Goto(c, "returned")
  /\ UNCHANGED <<cache, nonce, attempt, answer, nodeVars>>

-----------------------------------------------------------------------------
Run(c) == Start(c) \/ Seed(c) \/ Resume(c) \/ Refetch(c) \/ PollReceipt(c)

Node ==
  \/ \E c \in Calls : Answer(c) \/ AnswerError(c) \/ AnswerLost(c)
  \/ \E t \in held : Include(t)
  \/ Outside

Next ==
  /\ Node \/ \E c \in Calls : Run(c) \/ FetchFails(c)
  /\ UNCHANGED setting

Spec == Init /\ [][Next]_vars

(* A started call is resumed, and each of its requests is answered.        *)
Continue(c) ==
  /\ Seed(c) \/ Answer(c) \/ Resume(c) \/ Refetch(c) \/ PollReceipt(c)
  /\ UNCHANGED setting

FairSpec == Spec /\ \A c \in Calls : WF_vars(Continue(c))

-----------------------------------------------------------------------------
(* Every variable has its type; a call that signs has a nonce, and a       *)
(* second attempt is made only of a call that the node has answered.       *)
TypeOK ==
  /\ tracking \in BOOLEAN /\ serial \in BOOLEAN /\ reliable \in BOOLEAN
  /\ pc \in [Calls -> {"new", "seeding", "posting", "answered", "refetching",
                       "polling"} \cup Ended]
  /\ cache \in Nat \cup {None}
  /\ nonce \in [Calls -> Nat \cup {None}]
  /\ attempt \in [Calls -> 0 .. 1]
  /\ answer \in [Calls -> Answers]
  /\ held \subseteq [call : Calls, payload : {Payload[c] : c \in Calls}, nonce : Nat]
  /\ included \subseteq held
  /\ nodeNonce \in Nat
  /\ outside \in 0 .. MaxOutside
  /\ \A c \in Calls : nonce[c] = None => pc[c] \in {"new", "seeding", "threw"}
  /\ \A c \in Calls : attempt[c] = 1 => answer[c] # "none"

(* "re-signing higher cannot double-submit": whatever is lost or retried,  *)
(* the node never holds two transactions of one call.                      *)
AtMostOnce == \A t, u \in held : t.call = u.call => t = u

(* A call that returned has its transaction with the node, and no other    *)
(* returned call stands for the same one, although a "duplicate" is        *)
(* "treated as accepted".                                                  *)
OwnTransaction ==
  \A c \in Calls :
    serial /\ pc[c] = "returned" =>
      /\ Held(Wire(c))
      /\ \A d \in Calls \ {c} : pc[d] = "returned" => Wire(d) # Wire(c)

(* "We keep a client-side monotonic counter".                              *)
CacheMonotone == [][serial /\ cache # None => cache' >= cache]_vars

(* No two accepted transactions of the signer carry the same nonce, which  *)
(* is what the counter is kept for: a tracking node includes one of them.  *)
NonceUnique ==
  serial /\ reliable => \A t, u \in held : t.nonce = u.nonce => t = u

(* The nonces the node holds follow each other: one that left a gap would  *)
(* wait for ever at a tracking node, and all later ones behind it.         *)
NoGap ==
  \A t \in held :
    \A n \in nodeNonce .. t.nonce - 1 : \E u \in held : u.nonce = n

(* Every call that started ends: the recovery loop does not run for ever.  *)
EveryCallEnds == \A c \in Calls : pc[c] # "new" ~> pc[c] \in Ended
=============================================================================
