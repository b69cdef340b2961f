-------------------------- MODULE SendSignedProofs --------------------------
(***************************************************************************)
(* SendSigned for any calls, payloads and interleavings: what sendSigned   *)
(* promises of one signer's writes, with and without an application that   *)
(* awaits each of them, and whatever the node loses.                       *)
(*                                                                         *)
(* The invariant is in four parts, each of which needs the ones before it: *)
(* the types, where a call stands when the node holds its transaction, the *)
(* nonces that a gap could open below, and - for an application that       *)
(* awaits its writes - the cache against the nonces signed so far.         *)
(***************************************************************************)
EXTENDS SendSigned, TLAPS

(* Only a stale nonce is fetched again.                                    *)
RefetchesStale ==
  \A c \in Calls : pc[c] = "refetching" => answer[c] = "stale_nonce"

TInv == TypeOK /\ RefetchesStale

LEMMA InitTInv == Init => TInv
  BY SendSignedAssumption DEF Init, TInv, TypeOK, RefetchesStale, Ended, Answers

(* A step of the node or of a call keeps the types.                        *)
LEMMA NextTInv == TInv /\ [Next]_vars => TInv'
<1> USE SendSignedAssumption
<1> SUFFICES ASSUME TInv, [Next]_vars PROVE TInv'
  OBVIOUS
<1> USE DEF TInv, TypeOK, RefetchesStale, Ended, Answers, setting, Goto
<1>1. ASSUME NEW c \in Calls, Start(c), UNCHANGED setting PROVE TInv'
  BY <1>1 DEF Start, nodeVars
<1>2. ASSUME NEW c \in Calls, Seed(c), UNCHANGED setting PROVE TInv'
  BY <1>2 DEF Seed, nodeVars
<1>3. ASSUME NEW c \in Calls, FetchFails(c), UNCHANGED setting PROVE TInv'
  BY <1>3 DEF FetchFails, nodeVars
<1>4. ASSUME NEW c \in Calls, Answer(c), UNCHANGED setting PROVE TInv'
  <2>1. NodeAnswer(c) \in Answers \ {"none"}
    BY DEF NodeAnswer
  <2>2. /\ held' \subseteq [call : Calls, payload : {Payload[d] : d \in Calls}, nonce : Nat]
        /\ held \subseteq held'
    BY <1>4 DEF Answer, Hold
  <2> QED
    BY <1>4, <2>1, <2>2 DEF Answer
<1>5. ASSUME NEW c \in Calls, AnswerError(c), UNCHANGED setting PROVE TInv'
  BY <1>5 DEF AnswerError, nodeVars
<1>6. ASSUME NEW c \in Calls, AnswerLost(c), UNCHANGED setting PROVE TInv'
  <2>1. /\ held' \subseteq [call : Calls, payload : {Payload[d] : d \in Calls}, nonce : Nat]
        /\ held \subseteq held'
    BY <1>6 DEF AnswerLost, Hold
  <2> QED
    BY <1>6, <2>1 DEF AnswerLost
<1>7. ASSUME NEW t \in held, Include(t), UNCHANGED setting PROVE TInv'
  BY <1>7 DEF Include, callVars
<1>8. ASSUME Outside, UNCHANGED setting PROVE TInv'
  BY <1>8 DEF Outside, callVars
<1>9. ASSUME NEW c \in Calls, Resume(c), UNCHANGED setting PROVE TInv'
  BY <1>9 DEF Resume, Accepted, Failed, Stale, nodeVars
<1>10. ASSUME NEW c \in Calls, Refetch(c), UNCHANGED setting PROVE TInv'
  BY <1>10 DEF Refetch, Retry, GiveUp, nodeVars
<1>11. ASSUME NEW c \in Calls, PollReceipt(c), UNCHANGED setting PROVE TInv'
  BY <1>11 DEF PollReceipt, nodeVars
<1>12. CASE UNCHANGED vars
  BY <1>12 DEF vars, callVars, nodeVars
<1> QED
  BY <1>1, <1>2, <1>3, <1>4, <1>5, <1>6, <1>7, <1>8, <1>9, <1>10, <1>11, <1>12
  DEF Next, Node, Run

(* Every variable of sendSigned has its type, a call that signs has a      *)
(* nonce, and only what the node answered is tried again.                  *)
THEOREM TypeCorrect == Spec => []TypeOK
<1>1. TInv => TypeOK
  BY DEF TInv
<1> QED
  BY <1>1, InitTInv, NextTInv, PTL DEF Spec

-----------------------------------------------------------------------------
(* A call whose transaction the node holds has passed its last submission: *)
(* it was accepted, or the answer was lost on the way back.                *)
Submitted ==
  \A t \in held :
    /\ t.payload = Payload[t.call]
    /\ pc[t.call] \in {"answered", "polling"} \cup Ended
    /\ pc[t.call] = "answered" => answer[t.call] \in {"ok", "error"}

(* A call stands for the transaction it signed last, once it was accepted. *)
AcceptedHeld ==
  \A c \in Calls :
    \/ pc[c] \in {"polling", "returned"}
    \/ pc[c] = "answered" /\ answer[c] \in {"ok", "duplicate"}
    => Held(Wire(c))

SInv == TInv /\ Submitted /\ AtMostOnce /\ AcceptedHeld

LEMMA InitSInv == Init => SInv
  BY InitTInv DEF Init, SInv, Submitted, AtMostOnce, AcceptedHeld

(* The parts of SInv that speak of the node's transactions need a look     *)
(* only where the node takes one.                                          *)
LEMMA NoneTakenKeepsSInv ==
  ASSUME SInv, TInv', held' = held, Submitted', AcceptedHeld'
  PROVE  SInv'
  BY DEF SInv, AtMostOnce

(* The submission the node takes is the first of its call that it holds.   *)
LEMMA TakenKeepsSInv ==
  ASSUME SInv, TInv', NEW c \in Calls, Hold(c), pc[c] = "posting",
         NEW a \in {"ok", "error"}, answer' = [answer EXCEPT ![c] = a],
         Goto(c, "answered"), UNCHANGED nonce
  PROVE  SInv'
<1> DEFINE new == [call |-> c, payload |-> Payload[c], nonce |-> nonce[c]]
<1>1. held' = held \cup {new}
  BY DEF Hold
<1>2. /\ pc'[c] = "answered" /\ \A d \in Calls \ {c} : pc'[d] = pc[d]
      /\ answer'[c] = a /\ \A d \in Calls \ {c} : answer'[d] = answer[d]
  BY DEF SInv, TInv, TypeOK, Goto
<1>3. \A t \in held : t.call \in Calls \ {c}
  BY DEF SInv, TInv, TypeOK, Submitted, Ended
<1>4. Submitted'
  BY <1>1, <1>2, <1>3 DEF SInv, Submitted
<1>5. AtMostOnce'
  BY <1>1, <1>3 DEF SInv, AtMostOnce
<1>6. AcceptedHeld'
  <2>1. \A w : Held(w) => Held(w)'
    BY <1>1 DEF Held
  <2>2. WireOf(new) = Wire(c) /\ \A d \in Calls : Wire(d)' = Wire(d)
    BY DEF WireOf, Wire
  <2>3. Held(Wire(c))'
    BY <1>1, <2>2 DEF Held
  <2> QED
    BY <1>2, <2>1, <2>2, <2>3 DEF SInv, AcceptedHeld
<1> QED
  BY <1>4, <1>5, <1>6 DEF SInv

(* A step of one call leaves what every other call stands at alone.        *)
LEMMA OneCallMoves ==
  ASSUME TInv, NEW c \in Calls,
         Run(c) \/ FetchFails(c) \/ Answer(c) \/ AnswerError(c) \/ AnswerLost(c)
  PROVE  \A d \in Calls \ {c} :
           pc'[d] = pc[d] /\ nonce'[d] = nonce[d] /\ answer'[d] = answer[d]
<1> USE DEF TInv, TypeOK, Goto
<1>1. CASE Start(c)
  BY <1>1 DEF Start
<1>2. CASE Seed(c)
  BY <1>2 DEF Seed
<1>3. CASE Resume(c)
  BY <1>3 DEF Resume, Accepted, Failed, Stale
<1>4. CASE Refetch(c)
  BY <1>4 DEF Refetch, Retry, GiveUp
<1>5. CASE PollReceipt(c)
  BY <1>5 DEF PollReceipt
<1>6. CASE FetchFails(c)
  BY <1>6 DEF FetchFails
<1>7. CASE Answer(c)
  BY <1>7 DEF Answer
<1>8. CASE AnswerError(c)
  BY <1>8 DEF AnswerError
<1>9. CASE AnswerLost(c)
  BY <1>9 DEF AnswerLost
<1> QED
  BY <1>1, <1>2, <1>3, <1>4, <1>5, <1>6, <1>7, <1>8, <1>9 DEF Run

(* A step of one call that the node takes nothing in: only what the call   *)
(* itself stands at must be looked at.                                     *)
LEMMA CallKeepsSInv ==
  ASSUME SInv, TInv', held' = held, NEW c \in Calls,
         \A d \in Calls \ {c} :
           pc'[d] = pc[d] /\ nonce'[d] = nonce[d] /\ answer'[d] = answer[d],
         (\E t \in held : t.call = c) =>
           /\ pc'[c] \in {"answered", "polling"} \cup Ended
           /\ pc'[c] = "answered" => answer'[c] \in {"ok", "error"},
         \/ pc'[c] \in {"polling", "returned"}
         \/ pc'[c] = "answered" /\ answer'[c] \in {"ok", "duplicate"}
         => Held(Wire(c))'
  PROVE  SInv'
<1>1. \A t \in held : t.call \in Calls
  BY DEF SInv, TInv, TypeOK
<1>2. Submitted'
  BY <1>1 DEF SInv, Submitted
<1>3. \A d \in Calls \ {c} : Held(Wire(d))' = Held(Wire(d))
  BY DEF Held, Wire, WireOf
<1>4. AcceptedHeld'
  BY <1>3 DEF SInv, AcceptedHeld
<1> QED
  BY <1>2, <1>4 DEF SInv, AtMostOnce

LEMMA NextSInv == SInv /\ [Next]_vars => SInv'
<1> USE SendSignedAssumption
<1> SUFFICES ASSUME SInv, [Next]_vars PROVE SInv'
  OBVIOUS
<1> TInv'
  BY NextTInv DEF SInv
<1> TInv
  BY DEF SInv
<1>1. ASSUME NEW c \in Calls, Start(c) PROVE SInv'
  <2>1. pc[c] = "new" /\ pc'[c] \in {"seeding", "posting"} /\ held' = held
    BY <1>1 DEF Start, Goto, nodeVars, TInv, TypeOK
  <2>2. \A t \in held : t.call # c
    BY <2>1 DEF SInv, Submitted, Ended
  <2> QED
    BY <1>1, <2>1, <2>2, OneCallMoves, CallKeepsSInv DEF Run
<1>2. ASSUME NEW c \in Calls, Seed(c) PROVE SInv'
  <2>1. pc[c] = "seeding" /\ pc'[c] = "posting" /\ held' = held
    BY <1>2 DEF Seed, Goto, nodeVars, TInv, TypeOK
  <2>2. \A t \in held : t.call # c
    BY <2>1 DEF SInv, Submitted, Ended
  <2> QED
    BY <1>2, <2>1, <2>2, OneCallMoves, CallKeepsSInv DEF Run
<1>3. ASSUME NEW c \in Calls, FetchFails(c) PROVE SInv'
  <2>1. pc'[c] = "threw" /\ held' = held
    BY <1>3 DEF FetchFails, Goto, nodeVars, TInv, TypeOK
  <2> QED
    BY <1>3, <2>1, OneCallMoves, CallKeepsSInv DEF Ended
<1>4. ASSUME NEW c \in Calls, Answer(c) PROVE SInv'
  <2>1. CASE NodeAnswer(c) = "ok"
    BY <1>4, <2>1, TakenKeepsSInv DEF Answer
  <2>2. CASE NodeAnswer(c) # "ok"
    <3>1. /\ pc[c] = "posting" /\ pc'[c] = "answered" /\ answer'[c] = NodeAnswer(c)
          /\ held' = held /\ nonce' = nonce
      BY <1>4, <2>2 DEF Answer, Goto, TInv, TypeOK
    <3>2. \A t \in held : t.call # c
      BY <3>1 DEF SInv, Submitted, Ended
    <3>3. answer'[c] \in {"ok", "duplicate"} => Held(Wire(c))'
      BY <2>2, <3>1 DEF NodeAnswer, Held, Wire, WireOf
    <3> QED
      BY <1>4, <3>1, <3>2, <3>3, OneCallMoves, CallKeepsSInv
  <2> QED
    BY <2>1, <2>2
<1>5. ASSUME NEW c \in Calls, AnswerError(c) PROVE SInv'
  <2>1. pc'[c] = "answered" /\ answer'[c] = "error" /\ held' = held
    BY <1>5 DEF AnswerError, Goto, nodeVars, TInv, TypeOK
  <2> QED
    BY <1>5, <2>1, OneCallMoves, CallKeepsSInv
<1>6. ASSUME NEW c \in Calls, AnswerLost(c) PROVE SInv'
  BY <1>6, TakenKeepsSInv DEF AnswerLost
<1>7. ASSUME NEW t \in held, Include(t) PROVE SInv'
  BY <1>7, NoneTakenKeepsSInv
  DEF Include, callVars, SInv, Submitted, AcceptedHeld, Held, Wire, WireOf
<1>8. ASSUME Outside PROVE SInv'
  BY <1>8, NoneTakenKeepsSInv
  DEF Outside, callVars, SInv, Submitted, AcceptedHeld, Held, Wire, WireOf
<1>9. ASSUME NEW c \in Calls, Resume(c) PROVE SInv'
  <2>1. /\ pc[c] = "answered" /\ held' = held /\ nonce' = nonce /\ answer' = answer
        /\ \/ answer[c] \in {"ok", "duplicate"} /\ pc'[c] \in {"polling", "returned"}
           \/ answer[c] = "error" /\ pc'[c] = "threw"
           \/ answer[c] = "stale_nonce" /\ pc'[c] = "refetching"
    BY <1>9 DEF Resume, Accepted, Failed, Stale, Goto, nodeVars, TInv, TypeOK
  <2>2. \A t \in held : t.call = c => answer[c] \in {"ok", "error"}
    BY <2>1 DEF SInv, Submitted
  <2>3. pc'[c] \in {"polling", "returned"} => Held(Wire(c))'
    BY <2>1 DEF SInv, AcceptedHeld, Held, Wire, WireOf
  <2> QED
    BY <1>9, <2>1, <2>2, <2>3, OneCallMoves, CallKeepsSInv DEF Run, Ended
<1>10. ASSUME NEW c \in Calls, Refetch(c) PROVE SInv'
  <2>1. pc[c] = "refetching" /\ pc'[c] \in {"posting", "threw"} /\ held' = held
    BY <1>10 DEF Refetch, Retry, GiveUp, Goto, nodeVars, TInv, TypeOK
  <2>2. \A t \in held : t.call # c
    BY <2>1 DEF SInv, Submitted, Ended
  <2> QED
    BY <1>10, <2>1, <2>2, OneCallMoves, CallKeepsSInv DEF Run
<1>11. ASSUME NEW c \in Calls, PollReceipt(c) PROVE SInv'
  <2>1. pc[c] = "polling" /\ pc'[c] = "returned" /\ held' = held /\ nonce' = nonce
    BY <1>11 DEF PollReceipt, Goto, nodeVars, TInv, TypeOK
  <2>2. Held(Wire(c))'
    BY <2>1 DEF SInv, AcceptedHeld, Held, Wire, WireOf
  <2> QED
    BY <1>11, <2>1, <2>2, OneCallMoves, CallKeepsSInv DEF Run, Ended
<1>12. CASE UNCHANGED vars
  BY <1>12, NoneTakenKeepsSInv
  DEF vars, callVars, nodeVars, SInv, Submitted, AcceptedHeld, Held, Wire, WireOf
<1> QED
  BY <1>1, <1>2, <1>3, <1>4, <1>5, <1>6, <1>7, <1>8, <1>9, <1>10, <1>11, <1>12
  DEF Next, Node, Run

(* sendSigned, "re-signing higher cannot double-submit": whatever the node *)
(* loses, refuses or is asked again, it never holds two transactions of    *)
(* one call.                                                               *)
THEOREM SubmittedOnce == Spec => []AtMostOnce
<1>1. SInv => AtMostOnce
  BY DEF SInv
<1> QED
  BY <1>1, InitSInv, NextSInv, PTL DEF Spec

-----------------------------------------------------------------------------
(* Every nonce from the one the node asks for up to n is held.             *)
FilledTo(n) == \A m \in nodeNonce .. n - 1 : \E u \in held : u.nonce = m

(* Nothing that the SDK keeps, signs or has submitted is above a gap.      *)
Filled ==
  /\ \A t \in held : FilledTo(t.nonce)
  /\ cache # None => FilledTo(cache)
  /\ \A c \in Calls : nonce[c] # None => FilledTo(nonce[c])

GInv == SInv /\ Filled

LEMMA InitGInv == Init => GInv
  BY InitSInv DEF Init, GInv, Filled

(* What is filled stays so: the node forgets no transaction and asks for   *)
(* no lower nonce.                                                         *)
LEMMA FilledStays ==
  ASSUME TInv, held \subseteq held', nodeNonce' \in Nat, nodeNonce' >= nodeNonce,
         NEW n \in Nat, FilledTo(n)
  PROVE  FilledTo(n)'
<1> SUFFICES ASSUME NEW m \in nodeNonce' .. n - 1 PROVE \E u \in held' : u.nonce = m
  BY DEF FilledTo
<1>1. m \in nodeNonce .. n - 1
  BY DEF TInv, TypeOK
<1> QED
  BY <1>1 DEF FilledTo

LEMMA NodeGrows ==
  ASSUME TInv, [Next]_vars
  PROVE  /\ held \subseteq held'
         /\ nodeNonce' \in Nat /\ nodeNonce' >= nodeNonce
<1>1. ASSUME NEW c \in Calls, Answer(c) PROVE held \subseteq held' /\ nodeNonce' = nodeNonce
  BY <1>1 DEF Answer, Hold
<1>2. ASSUME NEW c \in Calls, AnswerError(c) \/ AnswerLost(c) \/ FetchFails(c)
      PROVE  held \subseteq held' /\ nodeNonce' = nodeNonce
  BY <1>2 DEF AnswerError, AnswerLost, FetchFails, Hold, nodeVars
<1>3. ASSUME NEW c \in Calls, Run(c) PROVE held' = held /\ nodeNonce' = nodeNonce
  BY <1>3 DEF Run, Start, Seed, Resume, Refetch, PollReceipt, nodeVars
<1>4. ASSUME NEW t \in held, Include(t)
      PROVE  held' = held /\ nodeNonce' \in {nodeNonce, nodeNonce + 1}
  BY <1>4 DEF Include
<1>5. ASSUME Outside PROVE held' = held /\ nodeNonce' = nodeNonce + 1
  BY <1>5 DEF Outside
<1>6. CASE UNCHANGED vars
  BY <1>6 DEF vars, nodeVars, TInv, TypeOK
<1>7. nodeNonce \in Nat
  BY DEF TInv, TypeOK
<1> QED
  BY <1>1, <1>2, <1>3, <1>4, <1>5, <1>6, <1>7 DEF Next, Node

(* Where each nonce of the next state comes from: it was there, the node   *)
(* asked for it, a call signed it, or it follows one that is held.         *)
LEMMA NextGInv == GInv /\ [Next]_vars => GInv'
<1> USE SendSignedAssumption
<1> SUFFICES ASSUME GInv, [Next]_vars PROVE GInv'
  OBVIOUS
<1> /\ SInv /\ TInv /\ SInv' /\ TInv' /\ nodeNonce \in Nat
  BY NextSInv DEF GInv, SInv, TInv, TypeOK
<1> DEFINE FilledNext(n) == \A m \in nodeNonce' .. n - 1 : \E u \in held' : u.nonce = m
<1>1. \A n \in Nat : FilledTo(n) => FilledNext(n)
  BY NodeGrows, FilledStays DEF FilledTo
<1>2. FilledTo(nodeNonce)
  BY DEF FilledTo
<1>3. ASSUME NEW c \in Calls, Held(Wire(c)), nonce[c] \in Nat PROVE FilledTo(nonce[c] + 1)
  <2>1. PICK t \in held : t.nonce = nonce[c]
    BY <1>3 DEF Held, Wire, WireOf
  <2>2. FilledTo(nonce[c])
    BY <1>3, <2>1 DEF GInv, Filled
  <2> SUFFICES ASSUME NEW m \in nodeNonce .. nonce[c] PROVE \E u \in held : u.nonce = m
    BY <1>3 DEF FilledTo
  <2> QED
    BY <1>3, <2>1, <2>2 DEF FilledTo
<1>4. /\ \A t \in held : t.nonce \in Nat
      /\ cache # None => cache \in Nat
      /\ \A c \in Calls : nonce[c] # None => nonce[c] \in Nat
  BY DEF TInv, TypeOK
<1>5. \A t \in held' : t \in held \/ \E c \in Calls : nonce[c] # None /\ t.nonce = nonce[c]
  <2>1. ASSUME NEW c \in Calls, Hold(c), pc[c] = "posting"
        PROVE  \A t \in held' : t \in held \/ (nonce[c] # None /\ t.nonce = nonce[c])
    BY <2>1 DEF Hold, TInv, TypeOK, Ended
  <2>2. CASE UNCHANGED held
    BY <2>2
  <2> QED
    BY <2>1, <2>2 DEF Next, Node, Run, Answer, AnswerError, AnswerLost, Start, Seed, Resume,
       Refetch, PollReceipt, FetchFails, Include, Outside, nodeVars, vars
<1>6. cache' # None => \/ cache' = cache /\ cache # None
                       \/ cache' = nodeNonce
                       \/ \E c \in Calls : Held(Wire(c)) /\ nonce[c] \in Nat /\ cache' = nonce[c] + 1
  <2>1. ASSUME NEW c \in Calls, Resume(c)
        PROVE  cache' = cache \/ (Held(Wire(c)) /\ nonce[c] \in Nat /\ cache' = nonce[c] + 1)
    BY <2>1 DEF Resume, Accepted, Failed, Stale, SInv, AcceptedHeld, TInv, TypeOK, Ended
  <2>2. ASSUME NEW c \in Calls, Refetch(c) PROVE cache' \in {cache, nodeNonce}
    BY <2>2 DEF Refetch, Retry, GiveUp
  <2>3. CASE UNCHANGED cache
    BY <2>3
  <2> QED
    BY <2>1, <2>2, <2>3 DEF Next, Node, Run, Answer, AnswerError, AnswerLost, Start, Seed,
       PollReceipt, FetchFails, Include, Outside, callVars, vars
<1>7. \A c \in Calls : nonce'[c] \in {nonce[c], cache, nodeNonce}
  <2>1. ASSUME NEW c \in Calls, Run(c) \/ FetchFails(c)
        PROVE  nonce'[c] \in {nonce[c], cache, nodeNonce}
               /\ \A d \in Calls \ {c} : nonce'[d] = nonce[d]
    BY <2>1 DEF Run, FetchFails, Start, Seed, Resume, Accepted, Failed, Stale, Refetch, Retry,
       GiveUp, PollReceipt, TInv, TypeOK
  <2>2. CASE UNCHANGED nonce
    BY <2>2
  <2> QED
    BY <2>1, <2>2 DEF Next, Node, Answer, AnswerError, AnswerLost, Include, Outside,
       callVars, vars
<1> HIDE DEF FilledNext
<1>8. \A t \in held' : FilledNext(t.nonce)
  <2> SUFFICES ASSUME NEW t \in held' PROVE FilledNext(t.nonce)
    OBVIOUS
  <2>1. t.nonce \in Nat /\ FilledTo(t.nonce)
    BY <1>4, <1>5 DEF GInv, Filled
  <2> QED
    BY <1>1, <2>1
<1>9. cache' # None => FilledNext(cache')
  <2> SUFFICES ASSUME cache' # None PROVE FilledNext(cache')
    OBVIOUS
  <2>1. cache' \in Nat /\ FilledTo(cache')
    BY <1>2, <1>3, <1>4, <1>6 DEF GInv, Filled
  <2> QED
    BY <1>1, <2>1
<1>10. \A c \in Calls : nonce'[c] # None => FilledNext(nonce'[c])
  <2> SUFFICES ASSUME NEW c \in Calls, nonce'[c] # None PROVE FilledNext(nonce'[c])
    OBVIOUS
  <2>1. nonce'[c] \in Nat /\ FilledTo(nonce'[c])
    BY <1>2, <1>4, <1>7 DEF GInv, Filled
  <2> QED
    BY <1>1, <2>1
<1> QED
  BY <1>8, <1>9, <1>10 DEF GInv, Filled, FilledTo, FilledNext

(* "a client-side monotonic counter": whichever calls overlap and whatever *)
(* the node loses, no transaction waits behind a nonce nobody used.        *)
THEOREM NoncesFollow == Spec => []NoGap
<1>1. GInv => NoGap
  BY DEF GInv, Filled, FilledTo, NoGap
<1> QED
  BY <1>1, InitGInv, NextGInv, PTL DEF Spec

-----------------------------------------------------------------------------
Active == {"seeding", "posting", "answered", "refetching", "polling"}

(* An application that awaits each write has one call under way.           *)
OneActive ==
  serial => \A c, d \in Calls : pc[c] \in Active /\ pc[d] \in Active => c = d

(* The cache is behind the call that is signing and ahead of those that    *)
(* were accepted.                                                          *)
CacheBetween ==
  serial =>
    \A c \in Calls :
      /\ pc[c] = "seeding" => cache = None
      /\ pc[c] \in {"posting", "answered", "refetching"} /\ cache # None
         => nonce[c] >= cache
      /\ pc[c] \in {"polling", "returned"} => cache # None /\ nonce[c] < cache

CInv == SInv /\ OneActive /\ CacheBetween

LEMMA InitCInv == Init => CInv
  BY InitSInv DEF Init, CInv, OneActive, CacheBetween, Active

LEMMA NextCInv == CInv /\ [Next]_vars => CInv'
<1> USE SendSignedAssumption
<1> SUFFICES ASSUME CInv, [Next]_vars PROVE CInv'
  OBVIOUS
<1> /\ TInv /\ SInv' /\ TInv'
  BY NextSInv DEF CInv, SInv
<1> SUFFICES ASSUME serial, serial' PROVE OneActive' /\ CacheBetween'
  BY DEF CInv, OneActive, CacheBetween, Next, setting, vars
<1>0. \A c \in Calls : pc[c] \in Active =>
        nonce[c] = None \/ nonce[c] \in Nat
  BY DEF TInv, TypeOK
<1> USE DEF Active, OneActive, CacheBetween, CInv, TInv, TypeOK, Goto, Ended
<1>1. ASSUME NEW c \in Calls, Start(c) PROVE OneActive' /\ CacheBetween'
  <2>1. \A d \in Calls : pc[d] \in {"new"} \cup Ended
    BY <1>1 DEF Start
  <2>2. \A d \in Calls \ {c} : pc'[d] = pc[d] /\ nonce'[d] = nonce[d]
    BY <1>1, OneCallMoves DEF Run
  <2> QED
    BY <1>1, <2>1, <2>2 DEF Start
<1>2. ASSUME NEW c \in Calls, pc[c] \in Active,
             Run(c) \/ FetchFails(c) \/ Answer(c) \/ AnswerError(c) \/ AnswerLost(c)
      PROVE  OneActive' /\ CacheBetween'
  <2>1. \A d \in Calls \ {c} :
          pc'[d] = pc[d] /\ nonce'[d] = nonce[d] /\ pc[d] \in {"new"} \cup Ended
    BY <1>2, OneCallMoves
  <2>2. OneActive'
    BY <2>1
  <2>4. CASE Seed(c)
    BY <2>1, <2>2, <2>4 DEF Seed
  <2>5. CASE Resume(c)
    <3>1. pc[c] = "answered" /\ nonce' = nonce /\ nonce[c] \in Nat
      BY <2>5 DEF Resume, Accepted, Failed, Stale
    <3>2. CASE cache' = cache
      BY <2>1, <2>2, <2>5, <3>1, <3>2 DEF Resume, Accepted, Failed, Stale
    <3>3. CASE cache' # cache
      <4>1. cache' = nonce[c] + 1 /\ pc'[c] \in {"polling", "returned"}
        BY <2>5, <3>1, <3>3 DEF Resume, Accepted, Failed, Stale
      <4> QED
        BY <2>1, <2>2, <3>1, <4>1
    <3> QED
      BY <3>2, <3>3
  <2>6. CASE Refetch(c)
    BY <2>1, <2>2, <2>6 DEF Refetch, Retry, GiveUp
  <2>7. CASE PollReceipt(c)
    BY <2>1, <2>2, <2>7 DEF PollReceipt
  <2>8. CASE FetchFails(c)
    BY <2>1, <2>2, <2>8 DEF FetchFails
  <2>9. CASE Answer(c) \/ AnswerError(c) \/ AnswerLost(c)
    BY <2>1, <2>2, <2>9 DEF Answer, AnswerError, AnswerLost
  <2> QED
    BY <1>2, <2>4, <2>5, <2>6, <2>7, <2>8, <2>9 DEF Run, Start
<1>3. CASE UNCHANGED callVars
  BY <1>3 DEF callVars
<1> QED
  BY <1>1, <1>2, <1>3 DEF Next, Node, Run, Seed, Resume, Refetch, PollReceipt, FetchFails,
     Answer, AnswerError, AnswerLost, Include, Outside, vars

(* The cache moves in the two steps of a call that sets it.                *)
LEMMA CacheMoves ==
  ASSUME CInv, [Next]_vars, serial, cache # None
  PROVE  cache' >= cache
<1> /\ TInv /\ cache \in Nat /\ nodeNonce \in Nat
  BY DEF CInv, SInv, TInv, TypeOK
<1>1. ASSUME NEW c \in Calls, Resume(c) PROVE cache' >= cache
  <2>1. pc[c] = "answered" /\ nonce[c] >= cache /\ nonce[c] \in Nat
    BY <1>1 DEF Resume, CInv, CacheBetween, TInv, TypeOK, Ended
  <2> QED
    BY <1>1, <2>1 DEF Resume, Accepted, Failed, Stale
<1>2. ASSUME NEW c \in Calls, Refetch(c) PROVE cache' >= cache
  <2>1. pc[c] = "refetching" /\ nonce[c] >= cache /\ nonce[c] \in Nat
    BY <1>2 DEF Refetch, CInv, CacheBetween, TInv, TypeOK, Ended
  <2> QED
    BY <1>2, <2>1 DEF Refetch, Retry, GiveUp
<1>3. CASE UNCHANGED cache
  BY <1>3
<1> QED
  BY <1>1, <1>2, <1>3 DEF Next, Node, Run, Start, Seed, PollReceipt, FetchFails,
     Answer, AnswerError, AnswerLost, Include, Outside, callVars, vars

(* "We keep a client-side monotonic counter": for an application that      *)
(* awaits its writes the cached nonce never goes back, also when the node  *)
(* answers a stale nonce or a lost answer throws.                          *)
THEOREM CounterMonotone == Spec => CacheMonotone
<1>1. CInv /\ [Next]_vars => [serial /\ cache # None => cache' >= cache]_vars
  BY CacheMoves
<1> QED
  BY <1>1, InitCInv, NextCInv, PTL DEF Spec, CacheMonotone

-----------------------------------------------------------------------------
(* Calls that were accepted signed at different nonces.                    *)
AcceptedApart ==
  serial =>
    \A c, d \in Calls :
      /\ pc[c] \in {"polling", "returned"} /\ pc[d] \in {"polling", "returned"}
      /\ nonce[c] = nonce[d]
      => c = d

OInv == CInv /\ AcceptedApart

LEMMA InitOInv == Init => OInv
  BY InitCInv DEF Init, OInv, AcceptedApart

(* A call joins the accepted ones at or above the cache, which is above    *)
(* the others.                                                             *)
LEMMA NextOInv == OInv /\ [Next]_vars => OInv'
<1> SUFFICES ASSUME OInv, [Next]_vars PROVE OInv'
  OBVIOUS
<1> /\ CInv /\ SInv /\ TInv /\ CInv'
  BY NextCInv DEF OInv, CInv, SInv
<1> SUFFICES ASSUME serial PROVE AcceptedApart'
  BY DEF OInv, AcceptedApart, Next, setting, vars
<1> DEFINE Accept == {"polling", "returned"}
<1>1. ASSUME NEW c \in Calls, Resume(c), pc'[c] \in Accept
      PROVE  \A d \in Calls \ {c} : pc[d] \in Accept => nonce'[d] # nonce'[c]
  <2>1. pc[c] = "answered" /\ nonce' = nonce
    BY <1>1 DEF Resume, Accepted, Failed, Stale
  <2>2. \A d \in Calls : nonce[d] \in Nat \/ nonce[d] = None
    BY DEF TInv, TypeOK
  <2>3. cache # None => cache \in Nat
    BY DEF TInv, TypeOK
  <2> SUFFICES ASSUME NEW d \in Calls \ {c}, pc[d] \in Accept PROVE nonce[d] # nonce[c]
    BY <2>1
  <2>4. nonce[d] \in Nat /\ nonce[c] \in Nat
    BY <2>1, <2>2 DEF TInv, TypeOK, Ended
  <2>5. cache # None /\ nonce[d] < cache /\ nonce[c] >= cache
    BY <2>1 DEF CInv, CacheBetween
  <2> QED
    BY <2>3, <2>4, <2>5
<1>2. ASSUME NEW c \in Calls,
             Run(c) \/ FetchFails(c) \/ Answer(c) \/ AnswerError(c) \/ AnswerLost(c)
      PROVE  AcceptedApart'
  <2>1. \A d \in Calls \ {c} : pc'[d] = pc[d] /\ nonce'[d] = nonce[d]
    BY <1>2, OneCallMoves
  <2>2. CASE pc'[c] \notin Accept
    BY <2>1, <2>2 DEF OInv, AcceptedApart
  <2>3. CASE pc[c] \in Accept /\ nonce'[c] = nonce[c]
    BY <2>1, <2>3 DEF OInv, AcceptedApart
  <2>4. CASE Resume(c) /\ pc'[c] \in Accept
    BY <2>1, <2>4, <1>1 DEF OInv, AcceptedApart
  <2>5. PollReceipt(c) => pc[c] \in Accept /\ nonce' = nonce
    BY DEF PollReceipt
  <2>6. Start(c) \/ Seed(c) \/ Refetch(c) \/ FetchFails(c) \/ Answer(c) \/ AnswerError(c)
        \/ AnswerLost(c) => pc'[c] \notin Accept
    BY DEF Start, Seed, Refetch, Retry, GiveUp, FetchFails, Answer, AnswerError, AnswerLost,
           Goto, TInv, TypeOK
  <2> QED
    BY <1>2, <2>2, <2>3, <2>4, <2>5, <2>6 DEF Run
<1>3. CASE UNCHANGED callVars
  BY <1>3 DEF callVars, OInv, AcceptedApart
<1> QED
  BY <1>2, <1>3 DEF Next, Node, Include, Outside, vars

(* "treated as accepted": a call that returned has its transaction with    *)
(* the node, and no other returned call counts on the same one, although   *)
(* two calls may ask for the same payload and a duplicate is a success.    *)
THEOREM ReturnsOwn == Spec => []OwnTransaction
<1>1. OInv => OwnTransaction
  BY DEF OInv, CInv, SInv, AcceptedHeld, AcceptedApart, OwnTransaction, Wire
<1> QED
  BY <1>1, InitOInv, NextOInv, PTL DEF Spec

-----------------------------------------------------------------------------
(* As long as every answer arrives and every write is awaited, all that    *)
(* the node holds is below the cache, but for what it has just answered.   *)
HeldBelow ==
  serial /\ reliable =>
    \A t \in held :
      IF pc[t.call] = "answered"
      THEN t.nonce = nonce[t.call] /\ answer[t.call] = "ok"
      ELSE cache # None /\ t.nonce < cache

NInv == CInv /\ HeldBelow /\ NonceUnique

LEMMA InitNInv == Init => NInv
  BY InitCInv DEF Init, NInv, HeldBelow, NonceUnique

LEMMA NextNInv == NInv /\ [Next]_vars => NInv'
<1> SUFFICES ASSUME NInv, [Next]_vars PROVE NInv'
  OBVIOUS
<1> /\ CInv /\ SInv /\ TInv /\ CInv'
  BY NextCInv DEF NInv, CInv, SInv
<1> SUFFICES ASSUME serial, reliable PROVE HeldBelow' /\ NonceUnique'
  BY DEF NInv, HeldBelow, NonceUnique, Next, setting, vars
<1>1. /\ \A t \in held : t.call \in Calls /\ t.nonce \in Nat
      /\ cache # None => cache \in Nat
  BY DEF TInv, TypeOK
<1> USE DEF NInv, HeldBelow
<1>2. ASSUME NEW c \in Calls, Answer(c), NodeAnswer(c) = "ok"
      PROVE  HeldBelow' /\ NonceUnique'
  <2> DEFINE new == [call |-> c, payload |-> Payload[c], nonce |-> nonce[c]]
  <2>1. /\ pc[c] = "posting" /\ pc'[c] = "answered" /\ answer'[c] = "ok"
        /\ held' = held \cup {new} /\ cache' = cache /\ nonce' = nonce /\ nonce[c] \in Nat
    BY <1>2 DEF Answer, Hold, Goto, TInv, TypeOK, Ended
  <2>2. \A d \in Calls \ {c} : pc'[d] = pc[d] /\ answer'[d] = answer[d] /\ pc[d] \notin Active
    BY <1>2, <2>1, OneCallMoves DEF CInv, OneActive, Active
  <2>3. \A t \in held : t.call # c
    BY <2>1 DEF SInv, Submitted, Ended
  <2>4. \A t \in held : cache # None /\ t.nonce < cache
    BY <1>1, <2>2, <2>3 DEF Active
  <2>5. \A t \in held : t.nonce # nonce[c]
    BY <1>1, <2>1, <2>4 DEF CInv, CacheBetween
  <2> QED
    BY <1>1, <2>1, <2>2, <2>3, <2>4, <2>5 DEF NonceUnique, Active
<1>3. ASSUME held' = held PROVE NonceUnique'
  BY <1>3 DEF NonceUnique
<1>4. ASSUME NEW c \in Calls, Resume(c) PROVE HeldBelow'
  <2>1. \A d \in Calls \ {c} : pc'[d] = pc[d] /\ pc[d] # "answered"
    BY <1>4, OneCallMoves DEF Run, Resume, CInv, OneActive, Active
  <2>2. /\ pc[c] = "answered" /\ pc'[c] # "answered" /\ held' = held
        /\ nonce' = nonce /\ nonce[c] \in Nat
        /\ \/ cache' = nonce[c] + 1 /\ answer[c] \in {"ok", "duplicate"}
           \/ cache' = cache /\ answer[c] # "ok"
    BY <1>4 DEF Resume, Accepted, Failed, Stale, Goto, nodeVars, TInv, TypeOK, Ended
  <2>3. cache # None => cache' >= cache
    BY <1>1, <2>2 DEF CInv, CacheBetween
  <2>4. cache' \in Nat \/ cache' = cache
    BY <2>2
  <2>5. ASSUME NEW t \in held, t.call # c PROVE cache' # None /\ t.nonce < cache'
    <3>1. cache # None /\ t.nonce < cache
      BY <1>1, <2>1, <2>5
    <3> QED
      BY <1>1, <2>3, <2>4, <3>1, SendSignedAssumption
  <2>6. ASSUME NEW t \in held, t.call = c PROVE cache' # None /\ t.nonce < cache'
    BY <1>1, <2>2, <2>6, SendSignedAssumption
  <2> QED
    BY <1>1, <2>1, <2>2, <2>5, <2>6
<1>5. ASSUME NEW c \in Calls, Refetch(c) PROVE HeldBelow'
  <2>1. \A d \in Calls \ {c} : pc'[d] = pc[d]
    BY <1>5, OneCallMoves DEF Run
  <2>2. /\ pc[c] = "refetching" /\ pc'[c] # "answered" /\ held' = held
        /\ nonce[c] \in Nat /\ nodeNonce \in Nat /\ answer' = answer
        /\ cache' = cache \/ (cache' = nodeNonce /\ nodeNonce > nonce[c])
    BY <1>5 DEF Refetch, Retry, GiveUp, Goto, nodeVars, TInv, TypeOK, Ended
  <2>3. \A d \in Calls \ {c} : nonce'[d] = nonce[d]
    BY <1>5, OneCallMoves DEF Run
  <2>4. \A t \in held : t.call # c
    BY <2>2 DEF SInv, Submitted, Ended
  <2>5. cache # None => cache' >= cache
    BY <1>1, <2>2 DEF CInv, CacheBetween
  <2>6. ASSUME NEW t \in held, pc[t.call] # "answered" PROVE cache' # None /\ t.nonce < cache'
    <3>1. cache # None /\ t.nonce < cache
      BY <2>6
    <3> QED
      BY <1>1, <2>2, <2>5, <3>1, SendSignedAssumption
  <2> QED
    BY <1>1, <2>1, <2>2, <2>3, <2>4, <2>6
<1>6. ASSUME NEW c \in Calls, Answer(c), NodeAnswer(c) # "ok" PROVE HeldBelow'
  <2>1. pc[c] = "posting" /\ held' = held /\ cache' = cache /\ nonce' = nonce
    BY <1>6 DEF Answer
  <2>2. \A t \in held : t.call # c
    BY <2>1 DEF SInv, Submitted, Ended
  <2> QED
    BY <1>1, <1>6, <2>1, <2>2, OneCallMoves
<1>7. ASSUME NEW c \in Calls, AnswerError(c) PROVE HeldBelow'
  <2>1. pc[c] = "posting" /\ held' = held /\ cache' = cache /\ nonce' = nonce
    BY <1>7 DEF AnswerError, nodeVars
  <2>2. \A t \in held : t.call # c
    BY <2>1 DEF SInv, Submitted, Ended
  <2> QED
    BY <1>1, <1>7, <2>1, <2>2, OneCallMoves
<1>8. ASSUME NEW c \in Calls, Start(c) \/ Seed(c) \/ PollReceipt(c) \/ FetchFails(c)
      PROVE  HeldBelow'
  <2>1. pc[c] # "answered" /\ pc'[c] # "answered" /\ held' = held /\ cache' = cache
    BY <1>8 DEF Start, Seed, PollReceipt, FetchFails, Goto, nodeVars, TInv, TypeOK
  <2> QED
    BY <1>1, <1>8, <2>1, OneCallMoves DEF Run
<1>9. ASSUME UNCHANGED <<callVars, held>> PROVE HeldBelow'
  BY <1>9 DEF callVars
<1>10. ASSUME NEW c \in Calls, AnswerLost(c) PROVE FALSE
  BY <1>10 DEF AnswerLost
<1>11. ASSUME NEW c \in Calls, Run(c) \/ FetchFails(c) \/ AnswerError(c)
       PROVE held' = held
  BY <1>11 DEF Run, Start, Seed, Resume, Refetch, PollReceipt, FetchFails, AnswerError, nodeVars
<1>12. ASSUME NEW c \in Calls, Answer(c), NodeAnswer(c) # "ok" PROVE held' = held
  BY <1>12 DEF Answer
<1>13. CASE UNCHANGED <<callVars, held>>
  BY <1>3, <1>9, <1>13
<1> QED
  BY <1>2, <1>3, <1>4, <1>5, <1>6, <1>7, <1>8, <1>10, <1>11, <1>12, <1>13
  DEF Next, Node, Run, Include, Outside, vars, nodeVars

(* The hazard the counter is kept for: with awaited writes and answers     *)
(* that arrive, the node never holds two transactions at one nonce, of     *)
(* which a tracking node could include only one.                           *)
THEOREM NoncesUnique == Spec => []NonceUnique
<1>1. NInv => NonceUnique
  BY DEF NInv
<1> QED
  BY <1>1, InitNInv, NextNInv, PTL DEF Spec
=============================================================================
