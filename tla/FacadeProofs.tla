----------------------------- MODULE FacadeProofs -----------------------------
(***************************************************************************)
(* Facade for any scripts and behaviour of the chain.                      *)
(*                                                                         *)
(* With any number of nodes: what an audit read reports was put on the     *)
(* ledger by a call of the script (OriginInv), and a settled write is      *)
(* committed for good (FInv: the ledger takes nothing back).               *)
(*                                                                         *)
(* With one node also read-after-write: what has settled the node shows,   *)
(* so a read that begins afterwards spans only heights that have it        *)
(* (OneInv).                                                               *)
(***************************************************************************)
EXTENDS Facade, TLAPS

(* The ledger is a sequence of contract states, and nodes show its heights.*)
Shape ==
  /\ \E S : ledger \in Seq(S)
  /\ Len(ledger) \in Nat \ {0}
  /\ \A h \in Heights : DOMAIN ledger[h] = {"caps", "allowed", "records"}
  /\ view \in [Nodes -> Heights]
  /\ req \in Scripts
  /\ since \in [Calls -> [Nodes -> Nat \ {0}]]
  /\ DOMAIN tx = Calls /\ DOMAIN pc = Calls
  /\ DOMAIN outcome = Calls /\ DOMAIN answer = Calls

(* Only writes are sent, and each once.                                    *)
WritesSentOnce ==
  \A o \in Calls :
    /\ pc[o] = "sending" \/ tx[o] # "none" => req[o].op \in Writes
    /\ pc[o] \in {"idle", "sending"} => tx[o] = "none"

(* The keys that committed calls of the script have allowed, each for its  *)
(* capability; nothing else is allowed on the ledger.                      *)
AllowedKeys ==
  {CounterpartyKey(req[w].capability, req[w].counterparty) :
     w \in {w \in Calls : req[w].op = "allow" /\ tx[w] = "committed"}}

KeyOrigin == \A h \in Heights : ledger[h].allowed \subseteq AllowedKeys

(* The ids that committed calls have attested, with the commitments; the   *)
(* ledger has no other records.                                            *)
Attested ==
  {<<AttestedAs(req[w]), ContextHash(req[w].sdk, req[w].context)>> :
     w \in {w \in Calls : req[w].op = "attest" /\ tx[w] = "committed"}}

RecordOrigin ==
  \A h \in Heights : \A id \in DOMAIN ledger[h].records :
    <<id, ledger[h].records[id].hash>> \in Attested

OriginInv == Shape /\ WritesSentOnce /\ KeyOrigin /\ RecordOrigin

-----------------------------------------------------------------------------
LEMMA InitOrigin == Init => OriginInv
<1> SUFFICES ASSUME Init PROVE OriginInv
  OBVIOUS
<1> DEFINE genesis == [caps |-> Standing, allowed |-> {}, records |-> <<>>]
<1>1. ledger = <<genesis>> /\ Heights = {1} /\ ledger[1] = genesis
  BY DEF Init, Heights
<1>2. ledger \in Seq({genesis})
  BY <1>1
<1>3. DOMAIN genesis.records = {}
  OBVIOUS
<1>4. Shape
  <2>1. (\E S : ledger \in Seq(S)) /\ Len(ledger) \in Nat \ {0}
    <3>1. \E S : ledger \in Seq(S)
      BY <1>2
    <3>2. Len(ledger) = 1
      BY <1>1
    <3> QED
      BY <3>1, <3>2
  <2>2. \A h \in Heights : DOMAIN ledger[h] = {"caps", "allowed", "records"}
    BY <1>1
  <2>3. view \in [Nodes -> Heights] /\ since \in [Calls -> [Nodes -> Nat \ {0}]]
    BY <1>1 DEF Init, NoRead
  <2>4. /\ DOMAIN tx = Calls /\ DOMAIN pc = Calls
        /\ DOMAIN outcome = Calls /\ DOMAIN answer = Calls
    BY DEF Init
  <2> QED
    BY <2>1, <2>2, <2>3, <2>4 DEF Init, Shape
<1>5. KeyOrigin /\ RecordOrigin
  BY <1>1, <1>3 DEF KeyOrigin, RecordOrigin
<1>6. WritesSentOnce
  BY DEF Init, WritesSentOnce
<1> QED
  BY <1>4, <1>5, <1>6 DEF OriginInv

(* What a call of the script has put on the ledger stays its own.          *)
LEMMA OriginsStay ==
  ASSUME req' = req, \A w \in Calls : tx[w] = "committed" => tx'[w] = "committed"
  PROVE  AllowedKeys \subseteq AllowedKeys' /\ Attested \subseteq Attested'
BY DEF AllowedKeys, Attested, Calls, CounterpartyKey, AttestedAs, AttestationId

(* A committed state, and what the contract makes of it.                   *)
LEMMA EffectShape ==
  ASSUME NEW s, DOMAIN s = {"caps", "allowed", "records"}, NEW call
  PROVE  /\ call.method \in {"mint_permission", "revoke_permission", "update_policy"}
              => /\ DOMAIN Effect(s, call) = DOMAIN s
                 /\ Effect(s, call).allowed = s.allowed
                 /\ Effect(s, call).records = s.records
         /\ call.method = "add_allowed_counterparty"
              => /\ DOMAIN Effect(s, call) = DOMAIN s
                 /\ Effect(s, call).allowed = s.allowed \cup {call.key}
                 /\ Effect(s, call).records = s.records
         /\ call.method = "record_attestation"
              => /\ DOMAIN Effect(s, call) = DOMAIN s
                 /\ Effect(s, call).allowed = s.allowed
                 /\ DOMAIN Effect(s, call).records = {call.id} \cup DOMAIN s.records
                 /\ \A id \in DOMAIN Effect(s, call).records :
                      \/ id = call.id /\ Effect(s, call).records[id].hash = call.hash
                      \/ /\ id \in DOMAIN s.records
                         /\ Effect(s, call).records[id] = s.records[id]
<1>1. ASSUME call.method \in {"mint_permission", "revoke_permission", "update_policy"}
      PROVE  /\ DOMAIN Effect(s, call) = DOMAIN s
             /\ Effect(s, call).allowed = s.allowed
             /\ Effect(s, call).records = s.records
  BY <1>1 DEF Effect
<1>2. ASSUME call.method = "add_allowed_counterparty"
      PROVE  /\ DOMAIN Effect(s, call) = DOMAIN s
             /\ Effect(s, call).allowed = s.allowed \cup {call.key}
             /\ Effect(s, call).records = s.records
  BY <1>2 DEF Effect
<1>3. ASSUME call.method = "record_attestation"
      PROVE  /\ DOMAIN Effect(s, call) = DOMAIN s
             /\ Effect(s, call).allowed = s.allowed
             /\ DOMAIN Effect(s, call).records = {call.id} \cup DOMAIN s.records
             /\ \A id \in DOMAIN Effect(s, call).records :
                  \/ id = call.id /\ Effect(s, call).records[id].hash = call.hash
                  \/ /\ id \in DOMAIN s.records
                     /\ Effect(s, call).records[id] = s.records[id]
  BY <1>3 DEF Effect, Written
<1> QED
  BY <1>1, <1>2, <1>3

-----------------------------------------------------------------------------
(* A transaction is committed by Include only, and stays committed; the    *)
(* script does not change.                                                 *)
LEMMA Committed ==
  ASSUME Shape, WritesSentOnce, [Next]_vars
  PROVE  /\ req' = req /\ Calls' = Calls
         /\ \A w \in Calls : tx[w] = "committed" => tx'[w] = "committed"
<1>1. req' = req
  BY DEF Next, vars, chain, Include, Refuse, Replicate, Begin, Send, SendAccepted,
         SendRejected, SendReplyLost, Receipt, SettleAgain, Conclude, SettleDone,
         SettleTimeout, Read, ReadFails
<1>2. ASSUME NEW w \in Calls, tx[w] = "committed" PROVE tx'[w] = "committed"
  <2>1. CASE UNCHANGED tx
    BY <1>2, <2>1
  <2>2. ASSUME NEW o \in Calls, Include(o) PROVE tx'[w] = "committed"
    BY <1>2, <2>2 DEF Include, Shape
  <2>3. ASSUME NEW o \in Calls, Refuse(o) PROVE tx'[w] = "committed"
    BY <1>2, <2>3 DEF Refuse, Shape
  <2>4. ASSUME NEW o \in Calls, Send(o), ~UNCHANGED tx PROVE tx'[w] = "committed"
    BY <1>2, <2>4 DEF Send, SendAccepted, SendRejected, SendReplyLost, Shape, WritesSentOnce, chain
  <2> QED
    BY <2>1, <2>2, <2>3, <2>4
    DEF Next, vars, chain, Replicate, Begin, Receipt, SettleAgain, Conclude,
        SettleDone, SettleTimeout, Read, ReadFails
<1> QED
  BY <1>1, <1>2 DEF Calls

(* The ledger after a transaction, which is a write of the script.         *)
LEMMA IncludeGrows ==
  ASSUME Shape, NEW o \in Calls, Include(o)
  PROVE  /\ \E S : ledger' \in Seq(S)
         /\ Heights' = Heights \cup {Len(ledger) + 1}
         /\ \A h \in Heights : ledger'[h] = ledger[h]
         /\ ledger'[Len(ledger) + 1] = Effect(Latest, ContractCall(req[o]))
         /\ Len(ledger) \in Nat
<1> DEFINE new == Effect(Latest, ContractCall(req[o]))
<1>1. PICK S : ledger \in Seq(S)
  BY DEF Shape
<1>2. ledger \in Seq(S \cup {new})
  BY <1>1
<1>3. ledger' = Append(ledger, new)
  BY DEF Include
<1> HIDE DEF new
<1>4. ledger' \in Seq(S \cup {new}) /\ Len(ledger') = Len(ledger) + 1
  BY <1>2, <1>3
<1>5. /\ \A h \in 1 .. Len(ledger) : ledger'[h] = ledger[h]
      /\ ledger'[Len(ledger) + 1] = new
  BY <1>2, <1>3
<1>6. Len(ledger) \in Nat
  BY <1>1
<1> QED
  BY <1>4, <1>5, <1>6 DEF Heights, new

(* What a write asks of the contract, by its operation.                    *)
LEMMA ContractCallOf ==
  ASSUME NEW r, r.op \in Writes
  PROVE  \/ /\ r.op \in {"mint", "revoke", "updatePolicy"}
            /\ ContractCall(r).method
                 \in {"mint_permission", "revoke_permission", "update_policy"}
         \/ /\ r.op = "allow"
            /\ ContractCall(r).method = "add_allowed_counterparty"
            /\ ContractCall(r).key = CounterpartyKey(r.capability, r.counterparty)
         \/ /\ r.op = "attest"
            /\ ContractCall(r).method = "record_attestation"
            /\ ContractCall(r).id = AttestedAs(r)
            /\ ContractCall(r).hash = ContextHash(r.sdk, r.context)
BY DEF Writes, ContractCall, MintPermission, RevokePermission, UpdatePolicy,
       AddAllowedCounterparty, RecordAttestation

-----------------------------------------------------------------------------
LEMMA IncludeShape ==
  ASSUME Shape, WritesSentOnce, NEW o \in Calls, Include(o)
  PROVE  Shape'
<1>1. /\ Heights' = Heights \cup {Len(ledger) + 1}
      /\ \A h \in Heights : ledger'[h] = ledger[h]
      /\ ledger'[Len(ledger) + 1] = Effect(Latest, ContractCall(req[o]))
      /\ \E S : ledger' \in Seq(S)
  BY IncludeGrows
<1>2. DOMAIN Latest = {"caps", "allowed", "records"}
  <2>1. Len(ledger) \in Heights
    BY DEF Shape, Heights
  <2> QED
    BY <2>1 DEF Shape, Latest
<1>3. req[o].op \in Writes
  BY DEF WritesSentOnce, Include
<1>4. DOMAIN Effect(Latest, ContractCall(req[o])) = {"caps", "allowed", "records"}
  BY <1>2, <1>3, EffectShape, ContractCallOf
<1>5. \A h \in Heights' : DOMAIN ledger'[h] = {"caps", "allowed", "records"}
  BY <1>1, <1>4 DEF Shape
<1>6. Len(ledger') \in Nat \ {0}
  BY <1>1 DEF Heights, Shape
<1>7. view' \in [Nodes -> Heights'] /\ since' \in [Calls' -> [Nodes -> Nat \ {0}]]
  BY <1>1 DEF Include, Shape, Calls
<1>8. /\ DOMAIN tx' = Calls' /\ DOMAIN pc' = Calls'
      /\ DOMAIN outcome' = Calls' /\ DOMAIN answer' = Calls'
  BY DEF Include, Shape, Calls
<1> QED
  BY <1>1, <1>5, <1>6, <1>7, <1>8 DEF Shape, Include

(* Everything else leaves the ledger as it is.                             *)
LEMMA OtherSteps ==
  ASSUME [Next]_vars, \A o \in Calls : ~Include(o)
  PROVE  ledger' = ledger
BY DEF Next, vars, chain, Refuse, Replicate, Begin, Send, SendAccepted,
       SendRejected, SendReplyLost, Receipt, SettleAgain, Conclude, SettleDone,
       SettleTimeout, Read, ReadFails

LEMMA NextShape ==
  ASSUME Shape, WritesSentOnce, [Next]_vars
  PROVE  Shape'
<1>1. CASE \E o \in Calls : Include(o)
  BY <1>1, IncludeShape
<1>2. CASE ~\E o \in Calls : Include(o)
  <2>1. ledger' = ledger /\ Heights' = Heights /\ req' = req /\ Calls' = Calls
    BY <1>2, OtherSteps, Committed DEF Heights
  <2>2. view \in [Nodes -> Nat \ {0}] /\ NoRead \in [Nodes -> Nat \ {0}]
    BY DEF Shape, Heights, NoRead
  <2>3. view' \in [Nodes -> Heights]
    <3>1. ASSUME NEW n \in Nodes, Replicate(n) PROVE view' \in [Nodes -> Heights]
      BY <3>1 DEF Replicate, Shape
    <3> QED
      BY <1>2, <3>1
      DEF Next, vars, chain, Refuse, Begin, Send, SendAccepted, SendRejected,
          SendReplyLost, Receipt, SettleAgain, Conclude, SettleDone, SettleTimeout,
          Read, ReadFails, Shape
  <2>4. since' \in [Calls -> [Nodes -> Nat \ {0}]]
    <3>1. \/ since' = since
          \/ \E o \in Calls : since' = [since EXCEPT ![o] = view]
          \/ \E o \in Calls : since' = [since EXCEPT ![o] = NoRead]
      BY <1>2
      DEF Next, vars, Refuse, Replicate, Begin, Send, SendAccepted, SendRejected,
          SendReplyLost, Receipt, SettleAgain, Conclude, SettleDone, SettleTimeout,
          Read, GetCapability, VerifyAttestation, IsCounterpartyAllowed, ReadFails,
          AfterReceipt, Finish, Return, Goto, StartRead
    <3> QED
      BY <2>2, <3>1 DEF Shape
  <2>5. /\ DOMAIN tx' = Calls /\ DOMAIN pc' = Calls
        /\ DOMAIN outcome' = Calls /\ DOMAIN answer' = Calls
    BY <1>2
    DEF Shape, Next, vars, chain, Refuse, Replicate, Begin, Send, SendAccepted,
        SendRejected, SendReplyLost, Receipt, SettleAgain, Conclude, SettleDone,
        SettleTimeout, Read, GetCapability, VerifyAttestation, IsCounterpartyAllowed,
        ReadFails, AfterReceipt, Finish, Return, Goto
  <2> QED
    BY <2>1, <2>3, <2>4, <2>5 DEF Shape
<1> QED
  BY <1>1, <1>2

LEMMA NextWrites ==
  ASSUME Shape, WritesSentOnce, [Next]_vars
  PROVE  WritesSentOnce'
<1>1. req' = req /\ Calls' = Calls
  BY Committed
<1> SUFFICES ASSUME NEW p \in Calls
             PROVE  /\ pc'[p] = "sending" \/ tx'[p] # "none" => req[p].op \in Writes
                    /\ pc'[p] \in {"idle", "sending"} => tx'[p] = "none"
  BY <1>1 DEF WritesSentOnce
<1> DEFINE Kept == /\ pc'[p] = "sending" \/ tx'[p] # "none" => req[p].op \in Writes
                   /\ pc'[p] \in {"idle", "sending"} => tx'[p] = "none"
<1> USE DEF Shape, WritesSentOnce
<1>2. ASSUME NEW o \in Calls, Include(o) \/ Refuse(o)
      PROVE  Kept
  BY <1>2 DEF Include, Refuse
<1>3. ASSUME NEW o \in Calls, Begin(o)
      PROVE  Kept
  BY <1>3 DEF Begin, Finish, Return, Goto, chain
<1>4. ASSUME NEW o \in Calls, Send(o)
      PROVE  Kept
  BY <1>4 DEF Send, SendAccepted, SendRejected, SendReplyLost, AfterReceipt,
              Finish, Return, Goto, chain
<1>5. ASSUME NEW o \in Calls,
             Receipt(o) \/ SettleAgain(o) \/ Conclude(o) \/ Read(o) \/ ReadFails(o)
      PROVE  Kept
  BY <1>5 DEF Receipt, SettleAgain, Conclude, SettleDone, SettleTimeout, Read,
              GetCapability, VerifyAttestation, IsCounterpartyAllowed, ReadFails,
              AfterReceipt, Finish, Return, Goto, chain
<1>6. ASSUME (\E n \in Nodes : Replicate(n)) \/ UNCHANGED vars
      PROVE  Kept
  BY <1>6 DEF Replicate, vars
<1> QED
  BY <1>2, <1>3, <1>4, <1>5, <1>6 DEF Next

LEMMA NextOrigins ==
  ASSUME OriginInv, [Next]_vars
  PROVE  KeyOrigin' /\ RecordOrigin'
<1> USE DEF OriginInv
<1>1. AllowedKeys \subseteq AllowedKeys' /\ Attested \subseteq Attested'
  BY Committed, OriginsStay
<1>2. CASE ~\E o \in Calls : Include(o)
  BY <1>1, <1>2, OtherSteps DEF KeyOrigin, RecordOrigin, Heights
<1>3. ASSUME NEW o \in Calls, Include(o) PROVE KeyOrigin' /\ RecordOrigin'
  <2> DEFINE call == ContractCall(req[o])
             top == Len(ledger) + 1
  <2>1. /\ Heights' = Heights \cup {top}
        /\ \A h \in Heights : ledger'[h] = ledger[h]
        /\ ledger'[top] = Effect(Latest, call)
    BY <1>3, IncludeGrows
  <2>2. Len(ledger) \in Heights
    BY DEF Shape, Heights
  <2>3. DOMAIN Latest = {"caps", "allowed", "records"}
    BY <2>2 DEF Shape, Latest
  <2>4. /\ Latest.allowed \subseteq AllowedKeys
        /\ \A id \in DOMAIN Latest.records : <<id, Latest.records[id].hash>> \in Attested
    BY <2>2 DEF KeyOrigin, RecordOrigin, Latest
  <2>5. req[o].op \in Writes /\ tx'[o] = "committed" /\ req' = req /\ Calls' = Calls
    BY <1>3, Committed DEF WritesSentOnce, Include, Shape
  <2>6. req[o].op = "allow" =>
          CounterpartyKey(req[o].capability, req[o].counterparty) \in AllowedKeys'
    BY <2>5 DEF AllowedKeys, CounterpartyKey
  <2>7. req[o].op = "attest" =>
          <<AttestedAs(req[o]), ContextHash(req[o].sdk, req[o].context)>> \in Attested'
    BY <2>5 DEF Attested, AttestedAs, AttestationId
  <2>8. /\ call.method = "add_allowed_counterparty" => call.key \in AllowedKeys'
        /\ call.method = "record_attestation" => <<call.id, call.hash>> \in Attested'
        /\ call.method \in {"mint_permission", "revoke_permission", "update_policy",
                            "add_allowed_counterparty", "record_attestation"}
    BY <2>5, <2>6, <2>7, ContractCallOf
  <2> HIDE DEF call, top
  <2>9. Effect(Latest, call).allowed \subseteq AllowedKeys'
    BY <1>1, <2>3, <2>4, <2>8, EffectShape
  <2>10. \A id \in DOMAIN Effect(Latest, call).records :
           <<id, Effect(Latest, call).records[id].hash>> \in Attested'
    <3>1. CASE call.method = "record_attestation"
      <4> SUFFICES ASSUME NEW id \in DOMAIN Effect(Latest, call).records
                   PROVE  <<id, Effect(Latest, call).records[id].hash>> \in Attested'
        OBVIOUS
      <4>1. \/ id = call.id /\ Effect(Latest, call).records[id].hash = call.hash
            \/ /\ id \in DOMAIN Latest.records
               /\ Effect(Latest, call).records[id] = Latest.records[id]
        BY <2>3, <3>1, EffectShape
      <4> QED
        BY <1>1, <2>4, <2>8, <3>1, <4>1
    <3>2. CASE call.method # "record_attestation"
      BY <1>1, <2>3, <2>4, <2>8, <3>2, EffectShape
    <3> QED
      BY <3>1, <3>2
  <2> QED
    BY <1>1, <2>1, <2>9, <2>10 DEF KeyOrigin, RecordOrigin
<1> QED
  BY <1>2, <1>3

LEMMA NextOriginInv == OriginInv /\ [Next]_vars => OriginInv'
BY NextShape, NextWrites, NextOrigins DEF OriginInv

-----------------------------------------------------------------------------
(* A call gets an answer by reading, and keeps it.                         *)
LEMMA Answers ==
  ASSUME Shape, [Next]_vars, NEW p \in Calls, outcome'[p] = "answered"
  PROVE  \/ outcome[p] = "answered" /\ answer'[p] = answer[p]
         \/ Read(p)
<1> USE DEF Shape
<1>1. ASSUME NEW o \in Calls, Begin(o) \/ Send(o) \/ Receipt(o)
      PROVE  outcome[p] = "answered" /\ answer'[p] = answer[p]
  BY <1>1 DEF Begin, Send, SendAccepted, SendRejected, SendReplyLost, Receipt,
              AfterReceipt, Finish, Return, Goto
<1>2. ASSUME NEW o \in Calls, SettleAgain(o) \/ Conclude(o) \/ ReadFails(o)
      PROVE  outcome[p] = "answered" /\ answer'[p] = answer[p]
  BY <1>2 DEF SettleAgain, Conclude, SettleDone, SettleTimeout, ReadFails, Finish, Return
<1>3. ASSUME NEW o \in Calls, Read(o)
      PROVE  \/ outcome[p] = "answered" /\ answer'[p] = answer[p]
             \/ Read(p)
  BY <1>3 DEF Read, GetCapability, VerifyAttestation, IsCounterpartyAllowed, Return
<1>4. ASSUME \/ \E o \in Calls : Include(o) \/ Refuse(o)
             \/ \E n \in Nodes : Replicate(n)
             \/ UNCHANGED vars
      PROVE  outcome[p] = "answered" /\ answer'[p] = answer[p]
  BY <1>4 DEF Include, Refuse, Replicate, vars
<1> QED
  BY <1>1, <1>2, <1>3, <1>4 DEF Next

(* A read sees states of the ledger only.                                  *)
LEMMA ShownIsCommitted ==
  ASSUME Shape, NEW o \in Calls, NEW s \in Shown(o)
  PROVE  \E h \in Heights : s = ledger[h]
BY DEF Shape, Shown, Heights

LEMMA NextScoped ==
  ASSUME OriginInv, AllowlistScoped, [Next]_vars
  PROVE  AllowlistScoped'
<1>1. /\ req' = req /\ Calls' = Calls
      /\ \A w \in Calls : tx[w] = "committed" => tx'[w] = "committed"
  BY Committed DEF OriginInv
<1> SUFFICES ASSUME NEW o \in Calls, outcome'[o] = "answered",
                    req[o].op = "isAllowed", answer'[o].allowed
             PROVE  \E w \in Calls : /\ req[w].op = "allow" /\ tx'[w] = "committed"
                                     /\ req[w].capability = req[o].capability
                                     /\ req[w].counterparty = req[o].counterparty
  BY <1>1 DEF AllowlistScoped
<1>2. CASE outcome[o] = "answered" /\ answer'[o] = answer[o]
  BY <1>1, <1>2 DEF AllowlistScoped
<1>3. CASE Read(o)
  <2> DEFINE key == CounterpartyKey(req[o].capability, req[o].counterparty)
  <2>1. PICK s \in Shown(o) : Return(o, "answered", [allowed |-> key \in s.allowed])
    BY <1>3 DEF Read, GetCapability, VerifyAttestation, IsCounterpartyAllowed
  <2> DEFINE isAllowed == key \in s.allowed
  <2>2. answer'[o] = [allowed |-> isAllowed]
    BY <2>1 DEF Return, OriginInv, Shape
  <2> HIDE DEF isAllowed
  <2>3. isAllowed
    BY <2>2
  <2>4. key \in AllowedKeys
    BY <2>1, <2>3, ShownIsCommitted DEF OriginInv, KeyOrigin, isAllowed
  <2> QED
    BY <1>1, <2>4 DEF AllowedKeys, CounterpartyKey
<1> QED
  BY <1>2, <1>3, Answers DEF OriginInv

(* "so there is no cross-capability collision" (the comment at             *)
(* counterpartyKey): whatever the chain does and the scripts are, a        *)
(* counterparty reads as allowed only under the capability for which the   *)
(* principal allowed it.                                                   *)
THEOREM AllowancesScoped == Spec => []AllowlistScoped
<1>1. Init => OriginInv /\ AllowlistScoped
  BY InitOrigin DEF Init, AllowlistScoped
<1>2. OriginInv /\ AllowlistScoped /\ [Next]_vars => OriginInv' /\ AllowlistScoped'
  BY NextOriginInv, NextScoped
<1> QED
  BY <1>1, <1>2, PTL DEF Spec

-----------------------------------------------------------------------------
LEMMA NextTamperEvident ==
  ASSUME FaithfulHash(Scripts), OriginInv, TamperEvident, [Next]_vars
  PROVE  TamperEvident'
<1>1. /\ req' = req /\ Calls' = Calls
      /\ \A w \in Calls : tx[w] = "committed" => tx'[w] = "committed"
  BY Committed DEF OriginInv
<1> SUFFICES ASSUME NEW o \in Calls, outcome'[o] = "answered",
                    req[o].op = "verify", answer'[o].ok
             PROVE  \E w \in Calls :
                      /\ req[w].op = "attest" /\ tx'[w] = "committed"
                      /\ SameContext(req[w].context, req[o].context)
                      /\ req[w].capability = req[req[o].target].capability
                      /\ req[w].seq = req[req[o].target].seq
  BY <1>1 DEF TamperEvident
<1>2. CASE outcome[o] = "answered" /\ answer'[o] = answer[o]
  BY <1>1, <1>2 DEF TamperEvident
<1>3. CASE Read(o)
  <2> DEFINE id == AttestedAs(req[req[o].target])
             recomputed == ContextHash(req[o].sdk, req[o].context)
  <2>1. PICK onChain \in AttestationReads(o, id) :
          Return(o, "answered", [ok |-> Verified(recomputed, onChain), onChain |-> onChain])
    BY <1>3 DEF Read, GetCapability, VerifyAttestation, IsCounterpartyAllowed
  <2>2. answer'[o] = [ok |-> Verified(recomputed, onChain), onChain |-> onChain]
    BY <2>1 DEF Return, OriginInv, Shape
  <2>3. Verified(recomputed, onChain)
    BY <2>2
  <2>4. PICK s \in Shown(o) : onChain.contextHash = ParseAddressReturn(s, id)
    BY <2>1 DEF AttestationReads
  <2>5. recomputed = ParseAddressReturn(s, id)
    BY <2>3, <2>4 DEF Verified
  <2>6. recomputed # <<"zero">>
    BY DEF FaithfulHash, Calls, OriginInv, Shape
  <2>7. id \in DOMAIN s.records /\ s.records[id].hash = recomputed
    BY <2>5, <2>6 DEF ParseAddressReturn
  <2>8. <<id, recomputed>> \in Attested
    BY <2>7, ShownIsCommitted DEF OriginInv, RecordOrigin
  <2>9. PICK w \in Calls :
          /\ req[w].op = "attest" /\ tx[w] = "committed"
          /\ id = AttestedAs(req[w])
          /\ recomputed = ContextHash(req[w].sdk, req[w].context)
    BY <2>8 DEF Attested
  <2>10. SameContext(req[w].context, req[o].context)
    BY <2>9 DEF FaithfulHash, Calls, OriginInv, Shape
  <2>11. /\ req[w].capability = req[req[o].target].capability
         /\ req[w].seq = req[req[o].target].seq
    BY <2>9 DEF AttestedAs, AttestationId
  <2> QED
    BY <1>1, <2>9, <2>10, <2>11
<1> QED
  BY <1>2, <1>3, Answers DEF OriginInv

(* "If a byte changed, the hashes diverge and tampering is detected"       *)
(* (src/attestation.ts), given that they do: whatever the chain does, torn *)
(* reads included, only what was attested verifies.                        *)
THEOREM TamperingShows ==
  ASSUME FaithfulHash(Scripts)
  PROVE  Spec => []TamperEvident
<1>1. Init => OriginInv /\ TamperEvident
  BY InitOrigin DEF Init, TamperEvident
<1>2. OriginInv /\ TamperEvident /\ [Next]_vars => OriginInv' /\ TamperEvident'
  BY NextOriginInv, NextTamperEvident
<1> QED
  BY <1>1, <1>2, PTL DEF Spec

-----------------------------------------------------------------------------
(* Types, and what the contract makes of a committed state.                *)

(* How a transaction changes one capability, from state s to state t.      *)
Mints(r, s, t, id) ==
  /\ r.op = "mint" /\ id = CapabilityId(r) /\ id \notin DOMAIN s.caps
  /\ t.caps[id] = [status |-> "Active", version |-> 1,
                   maxSpend |-> r.maxSpend, validUntil |-> ValidUntil(r)]

Revokes(r, s, t, id) ==
  /\ r.op = "revoke" /\ id = r.capability /\ id \in DOMAIN s.caps
  /\ s.caps[id].status = "Active"
  /\ t.caps[id] = [s.caps[id] EXCEPT !.status = "Revoked"]

Updates(r, s, t, id) ==
  /\ r.op = "updatePolicy" /\ id = r.capability /\ id \in DOMAIN s.caps
  /\ s.caps[id].status = "Active"
  /\ t.caps[id] = [s.caps[id] EXCEPT !.maxSpend = r.maxSpend,
                     !.validUntil = r.validUntil, !.version = @ + 1]

Same(s, t, id) == id \in DOMAIN s.caps /\ t.caps[id] = s.caps[id]

(* A capability of the next state is one of this state, its change by the  *)
(* transaction while it is active, or its mint.                            *)
LEMMA EffectOnCapabilities ==
  ASSUME NEW s, DOMAIN s = {"caps", "allowed", "records"}, NEW r, r.op \in Writes,
         Accepts(s, ContractCall(r)), NEW t, t = Effect(s, ContractCall(r))
  PROVE  /\ DOMAIN s.caps \subseteq DOMAIN t.caps
         /\ \A id \in DOMAIN t.caps :
              Same(s, t, id) \/ Mints(r, s, t, id) \/ Revokes(r, s, t, id) \/ Updates(r, s, t, id)
         /\ r.op = "mint" => CapabilityId(r) \in DOMAIN t.caps
         /\ r.op = "revoke" => r.capability \in DOMAIN t.caps /\ Revokes(r, s, t, r.capability)
<1>1. CASE r.op = "mint"
  <2>1. /\ CapabilityId(r) \notin DOMAIN s.caps
        /\ t.caps = Written(s.caps, CapabilityId(r),
                            [status |-> "Active", version |-> 1,
                             maxSpend |-> r.maxSpend, validUntil |-> ValidUntil(r)])
    BY <1>1 DEF Accepts, Effect, ContractCall, MintPermission
  <2>2. /\ DOMAIN t.caps = DOMAIN s.caps \cup {CapabilityId(r)}
        /\ \A id \in DOMAIN s.caps : Same(s, t, id)
    BY <2>1 DEF Written, Same
  <2>3. Mints(r, s, t, CapabilityId(r))
    BY <1>1, <2>1 DEF Written, Mints
  <2> QED
    BY <1>1, <2>2, <2>3
<1>2. CASE r.op = "revoke"
  <2>1. /\ r.capability \in DOMAIN s.caps /\ s.caps[r.capability].status = "Active"
        /\ t.caps = [s.caps EXCEPT ![r.capability].status = "Revoked"]
    BY <1>2 DEF Accepts, Effect, ContractCall, RevokePermission, Status
  <2>2. Revokes(r, s, t, r.capability) /\ DOMAIN t.caps = DOMAIN s.caps
    BY <1>2, <2>1 DEF Revokes
  <2>3. \A id \in DOMAIN s.caps : id # r.capability => Same(s, t, id)
    BY <2>1 DEF Same
  <2> QED
    BY <1>2, <2>1, <2>2, <2>3
<1>3. CASE r.op = "updatePolicy"
  <2>1. /\ r.capability \in DOMAIN s.caps /\ s.caps[r.capability].status = "Active"
        /\ t.caps = [s.caps EXCEPT ![r.capability].maxSpend = r.maxSpend,
                                   ![r.capability].validUntil = r.validUntil,
                                   ![r.capability].version = @ + 1]
    BY <1>3 DEF Accepts, Effect, ContractCall, UpdatePolicy, Status
  <2>2. Updates(r, s, t, r.capability) /\ DOMAIN t.caps = DOMAIN s.caps
    BY <1>3, <2>1 DEF Updates
  <2>3. \A id \in DOMAIN s.caps : id # r.capability => Same(s, t, id)
    BY <2>1 DEF Same
  <2> QED
    BY <1>3, <2>1, <2>2, <2>3
<1>4. CASE r.op \in {"allow", "attest"}
  <2>1. t.caps = s.caps
    BY <1>4 DEF Effect, ContractCall, AddAllowedCounterparty, RecordAttestation
  <2> QED
    BY <1>4, <2>1 DEF Same
<1> QED
  BY <1>1, <1>2, <1>3, <1>4 DEF Writes

(* Its records are those of this state, or the one that is attested.       *)
LEMMA EffectOnRecords ==
  ASSUME NEW s, DOMAIN s = {"caps", "allowed", "records"}, NEW r, r.op \in Writes,
         Accepts(s, ContractCall(r)), NEW t, t = Effect(s, ContractCall(r))
  PROVE  /\ \A id \in DOMAIN s.records : id \in DOMAIN t.records /\ t.records[id] = s.records[id]
         /\ \A id \in DOMAIN t.records :
              \/ id \in DOMAIN s.records
              \/ /\ r.op = "attest" /\ id = AttestedAs(r)
                 /\ t.records[id].hash = ContextHash(r.sdk, r.context)
                 /\ t.records[id].verdict = r.verdict
         /\ r.op = "attest" => AttestedAs(r) \in DOMAIN t.records
<1>1. CASE r.op = "attest"
  <2>1. /\ AttestedAs(r) \notin DOMAIN s.records
        /\ t.records = Written(s.records, AttestedAs(r),
                            [hash |-> ContextHash(r.sdk, r.context), verdict |-> r.verdict,
                             version |-> Version(s, r.capability)])
    BY <1>1 DEF Accepts, Effect, ContractCall, RecordAttestation
  <2> QED
    BY <1>1, <2>1 DEF Written
<1>2. CASE r.op # "attest"
  <2>1. t.records = s.records
    BY <1>2 DEF Writes, Effect, ContractCall, AddAllowedCounterparty, MintPermission,
                RevokePermission, UpdatePolicy
  <2> QED
    BY <1>2, <2>1
<1> QED
  BY <1>1, <1>2

(* What TypeOK says of a committed state.                                  *)
StateOK(s) ==
  /\ \A id \in DOMAIN s.caps : s.caps[id] \in Capability
  /\ \A id \in DOMAIN s.records : s.records[id].verdict \in {Verdict[v] : v \in DOMAIN Verdict}

(* The contract keeps the types.                                           *)
LEMMA EffectType ==
  ASSUME NEW s, DOMAIN s = {"caps", "allowed", "records"}, StateOK(s),
         NEW r, r.op \in Writes, WellTyped(r),
         Accepts(s, ContractCall(r)), NEW t, t = Effect(s, ContractCall(r))
  PROVE  StateOK(t)
<1>1. ASSUME NEW id \in DOMAIN t.caps PROVE t.caps[id] \in Capability
  <2>1. CASE Same(s, t, id)
    BY <2>1 DEF Same, StateOK
  <2>2. CASE Mints(r, s, t, id)
    <3>1. ValidUntil(r) \in Int /\ r.maxSpend \in Int
      BY <2>2 DEF Mints, WellTyped, ValidUntil
    <3> QED
      BY <2>2, <3>1 DEF Mints, Capability
  <2>3. CASE Revokes(r, s, t, id)
    BY <2>3 DEF Revokes, StateOK, Capability
  <2>4. CASE Updates(r, s, t, id)
    <3>1. PICK cap \in Capability :
            t.caps[id] = [cap EXCEPT !.maxSpend = r.maxSpend,
                                     !.validUntil = r.validUntil, !.version = cap.version + 1]
      BY <2>4 DEF Updates, StateOK
    <3>2. r.maxSpend \in Int /\ r.validUntil \in Int /\ cap.version + 1 \in Nat
      BY <2>4 DEF Updates, WellTyped, Capability
    <3>3. [cap EXCEPT !.maxSpend = r.maxSpend] \in Capability
      BY <3>2 DEF Capability
    <3>4. [cap EXCEPT !.maxSpend = r.maxSpend, !.validUntil = r.validUntil] \in Capability
      BY <3>2, <3>3 DEF Capability
    <3> QED
      BY <3>1, <3>2, <3>4 DEF Capability
  <2> QED
    BY <1>1, <2>1, <2>2, <2>3, <2>4, EffectOnCapabilities
<1>2. ASSUME NEW id \in DOMAIN t.records
      PROVE  t.records[id].verdict \in {Verdict[v] : v \in DOMAIN Verdict}
  <2>1. CASE id \in DOMAIN s.records
    BY <2>1, EffectOnRecords DEF StateOK
  <2>2. CASE r.op = "attest" /\ t.records[id].verdict = r.verdict
    BY <2>2 DEF WellTyped
  <2> QED
    BY <1>2, <2>1, <2>2, EffectOnRecords
<1> QED
  BY <1>1, <1>2 DEF StateOK

(* What an inclusion is judged against.                                    *)
LEMMA LatestShape ==
  ASSUME Shape
  PROVE  Len(ledger) \in Heights /\ DOMAIN Latest = {"caps", "allowed", "records"}
<1>1. Len(ledger) \in Heights
  BY DEF Shape, Heights
<1> QED
  BY <1>1 DEF Shape, Latest

LedgerOK == \A h \in Heights : StateOK(ledger[h])

(* What TypeOK says of the calls.                                          *)
CallsOK ==
  /\ tx \in [Calls -> {"none", "mempool", "committed", "refused"}]
  /\ pc \in [Calls -> {"idle", "sending", "receipt", "settling", "reading", "done"}]
  /\ past \in [Calls -> SUBSET Calls]
  /\ outcome \in [Calls -> {"none", "returned", "settled", "timedOut", "answered", "threw"}]
  /\ \A o \in Calls :
       /\ outcome[o] = "none" <=> ~Ended(o)
       /\ answer[o] # Unanswered <=> outcome[o] = "answered"

TInv == Shape /\ WritesSentOnce /\ LedgerOK /\ CallsOK /\ since \in [Calls -> [Nodes -> Heights]]

LEMMA TypeOKFrom == TInv => TypeOK
  BY DEF TInv, TypeOK, LedgerOK, StateOK, CallsOK, Shape

LEMMA NextLedgerOK ==
  ASSUME TInv, [Next]_vars
  PROVE  LedgerOK'
<1>1. Shape /\ WritesSentOnce /\ LedgerOK
  BY DEF TInv
<1>2. CASE ~\E o \in Calls : Include(o)
  BY <1>1, <1>2, OtherSteps DEF LedgerOK, Heights
<1>3. ASSUME NEW o \in Calls, Include(o) PROVE LedgerOK'
  <2> DEFINE new == Effect(Latest, ContractCall(req[o]))
             top == Len(ledger) + 1
  <2>1. /\ Heights' = Heights \cup {top}
        /\ \A h \in Heights : ledger'[h] = ledger[h]
        /\ ledger'[top] = new
    BY <1>1, <1>3, IncludeGrows
  <2>2. DOMAIN Latest = {"caps", "allowed", "records"} /\ StateOK(Latest)
    BY <1>1, LatestShape DEF LedgerOK, Latest
  <2>3. req[o].op \in Writes /\ WellTyped(req[o]) /\ Accepts(Latest, ContractCall(req[o]))
    BY <1>1, <1>3, FacadeAssumption DEF WritesSentOnce, Include, Shape, Calls
  <2>4. StateOK(new)
    BY <2>2, <2>3, EffectType
  <2> HIDE DEF new, top
  <2>5. \A h \in Heights' : StateOK(ledger'[h])
    <3>1. ASSUME NEW h \in Heights PROVE StateOK(ledger'[h])
      BY <1>1, <2>1, <3>1 DEF LedgerOK, StateOK
    <3>2. StateOK(ledger'[top])
      BY <2>1, <2>4 DEF StateOK
    <3> QED
      BY <2>1, <3>1, <3>2
  <2> QED
    BY <2>5 DEF LedgerOK, StateOK
<1> QED
  BY <1>2, <1>3

(* Every step keeps the types of the calls.                                *)
LEMMA NextCallsOK ==
  ASSUME TInv, [Next]_vars
  PROVE  CallsOK'
<1>1. /\ Shape /\ WritesSentOnce /\ CallsOK
      /\ req' = req /\ Calls' = Calls
  BY Committed DEF TInv
<1> USE DEF Ended
<1>2. ASSUME NEW o \in Calls, Include(o) \/ Refuse(o) PROVE CallsOK'
  BY <1>1, <1>2 DEF Include, Refuse, CallsOK
<1>3. ASSUME (\E n \in Nodes : Replicate(n)) \/ UNCHANGED vars PROVE CallsOK'
  BY <1>1, <1>3 DEF Replicate, vars, CallsOK
<1>4. ASSUME NEW o \in Calls, pc[o] # "done", NEW how \in {"returned", "settled", "timedOut", "threw"},
             Finish(o, how), past' \in [Calls -> SUBSET Calls],
             tx' \in [Calls -> {"none", "mempool", "committed", "refused"}]
      PROVE  CallsOK'
  BY <1>1, <1>4 DEF Finish, Return, CallsOK, Shape
<1>5. ASSUME NEW o \in Calls, pc[o] # "done",
             NEW label \in {"sending", "receipt", "settling", "reading"}, Goto(o, label),
             past' \in [Calls -> SUBSET Calls],
             tx' \in [Calls -> {"none", "mempool", "committed", "refused"}]
      PROVE  CallsOK'
  BY <1>1, <1>5 DEF Goto, CallsOK, Shape
<1>6. ASSUME NEW o \in Calls, Begin(o) PROVE CallsOK'
  <2>1. past' \in [Calls -> SUBSET Calls] /\ tx' = tx /\ pc[o] # "done"
    BY <1>1, <1>6 DEF Begin, CallsOK, chain
  <2> QED
    BY <1>1, <1>4, <1>5, <1>6, <2>1 DEF Begin, CallsOK
<1>7. ASSUME NEW o \in Calls, Send(o) \/ Receipt(o) PROVE CallsOK'
  <2>1. /\ past' \in [Calls -> SUBSET Calls] /\ pc[o] # "done"
        /\ tx' \in [Calls -> {"none", "mempool", "committed", "refused"}]
    BY <1>1, <1>7 DEF Send, SendAccepted, SendRejected, SendReplyLost, Receipt, CallsOK, chain
  <2> QED
    BY <1>4, <1>5, <1>7, <2>1
       DEF Send, SendAccepted, SendRejected, SendReplyLost, Receipt, AfterReceipt
<1>8. ASSUME NEW o \in Calls, Conclude(o) \/ ReadFails(o) PROVE CallsOK'
  <2>1. past' = past /\ tx' = tx /\ pc[o] # "done"
    BY <1>8 DEF Conclude, SettleDone, SettleTimeout, ReadFails, chain
  <2> QED
    BY <1>1, <1>4, <1>8, <2>1 DEF Conclude, SettleDone, SettleTimeout, ReadFails, CallsOK
<1>9. ASSUME NEW o \in Calls, SettleAgain(o) PROVE CallsOK'
  BY <1>1, <1>9 DEF SettleAgain, CallsOK, chain
<1>10. ASSUME NEW o \in Calls, Read(o) PROVE CallsOK'
  <2>1. past' = past /\ tx' = tx /\ pc[o] # "done"
    BY <1>10 DEF Read, chain
  <2>2. PICK what : Return(o, "answered", what) /\ what # Unanswered
    <3>1. CASE GetCapability(o)
      <4>1. PICK seen \in CapabilityReads(o, req[o].capability) : Return(o, "answered", seen)
        BY <3>1 DEF GetCapability
      <4>2. DOMAIN seen = {"status", "maxSpend", "validUntil"}
        BY DEF CapabilityReads
      <4>3. DOMAIN Unanswered = {"returned"}
        BY DEF Unanswered
      <4> QED
        BY <4>1, <4>2, <4>3
    <3>2. CASE VerifyAttestation(o)
      <4>1. PICK ok, onChain : Return(o, "answered", [ok |-> ok, onChain |-> onChain])
        BY <3>2 DEF VerifyAttestation
      <4>2. [ok |-> ok, onChain |-> onChain] # Unanswered
        BY DEF Unanswered
      <4> QED
        BY <4>1, <4>2
    <3>3. CASE IsCounterpartyAllowed(o)
      <4>1. PICK allowed : Return(o, "answered", [allowed |-> allowed])
        BY <3>3 DEF IsCounterpartyAllowed
      <4>2. [allowed |-> allowed] # Unanswered
        BY DEF Unanswered
      <4> QED
        BY <4>1, <4>2
    <3> QED
      BY <1>10, <3>1, <3>2, <3>3 DEF Read
  <2> QED
    BY <1>1, <2>1, <2>2 DEF Return, CallsOK, Shape
<1> QED
  BY <1>2, <1>3, <1>6, <1>7, <1>8, <1>9, <1>10 DEF Next

(* Heights stay, and what is committed at them.                            *)
LEMMA LedgerGrows ==
  ASSUME Shape, WritesSentOnce, [Next]_vars
  PROVE  /\ Heights \subseteq Heights' /\ Len(ledger) \in Nat \ {0} /\ Len(ledger') \in Nat \ {0}
         /\ Len(ledger) <= Len(ledger')
         /\ \A h \in Heights : ledger'[h] = ledger[h]
<1>1. Len(ledger) \in Nat \ {0} /\ Len(ledger') \in Nat \ {0}
  BY NextShape DEF Shape
<1>2. CASE ~\E o \in Calls : Include(o)
  BY <1>1, <1>2, OtherSteps DEF Heights
<1>3. CASE \E o \in Calls : Include(o)
  BY <1>1, <1>3, IncludeGrows DEF Heights
<1> QED
  BY <1>2, <1>3

(* A read starts from what the nodes show.                                 *)
LEMMA SinceMoves ==
  ASSUME Shape, [Next]_vars
  PROVE  \/ since' = since
         \/ \E o \in Calls : since' = [since EXCEPT ![o] = view]
         \/ \E o \in Calls : since' = [since EXCEPT ![o] = NoRead]
  BY DEF Next, vars, Include, Refuse, Replicate, Begin, Send, SendAccepted, SendRejected,
         SendReplyLost, Receipt, SettleAgain, Conclude, SettleDone, SettleTimeout,
         Read, GetCapability, VerifyAttestation, IsCounterpartyAllowed, ReadFails,
         AfterReceipt, Finish, Return, Goto, StartRead

LEMMA NextTInv == TInv /\ [Next]_vars => TInv'
<1> SUFFICES ASSUME TInv, [Next]_vars PROVE TInv'
  OBVIOUS
<1>1. Shape /\ WritesSentOnce /\ since \in [Calls -> [Nodes -> Heights]]
  BY DEF TInv
<1>2. view \in [Nodes -> Heights] /\ NoRead \in [Nodes -> Heights]
  BY <1>1 DEF Shape, Heights, NoRead
<1>3. Calls' = Calls /\ Heights \subseteq Heights'
  BY <1>1, Committed, LedgerGrows
<1>4. since' \in [Calls -> [Nodes -> Heights]]
  BY <1>1, <1>2, SinceMoves
<1>5. since' \in [Calls' -> [Nodes -> Heights']]
  BY <1>3, <1>4
<1> QED
  BY <1>1, <1>5, NextShape, NextWrites, NextLedgerOK, NextCallsOK DEF TInv

LEMMA InitTInv == Init => TInv
<1> SUFFICES ASSUME Init PROVE TInv
  OBVIOUS
<1>1. Shape /\ WritesSentOnce
  BY InitOrigin DEF OriginInv
<1>2. Heights = {1} /\ ledger[1] = [caps |-> Standing, allowed |-> {}, records |-> <<>>]
  BY DEF Init, Heights
<1>3. ledger[1].caps = Standing /\ DOMAIN ledger[1].records = {}
  BY <1>2
<1>4. LedgerOK
  BY <1>2, <1>3, FacadeAssumption DEF LedgerOK, StateOK
<1>5. CallsOK
  BY DEF Init, CallsOK, Ended
<1>6. since \in [Calls -> [Nodes -> Heights]]
  BY <1>2 DEF Init, NoRead
<1> QED
  BY <1>1, <1>4, <1>5, <1>6 DEF TInv

(* Every variable keeps its type, and a call has an outcome exactly when   *)
(* it has returned.                                                        *)
THEOREM TypeCorrect == Spec => []TypeOK
<1>1. Init => TInv
  BY InitTInv
<1>2. TInv /\ [Next]_vars => TInv'
  BY NextTInv
<1>3. TInv => TypeOK
  BY TypeOKFrom
<1> QED
  BY <1>1, <1>2, <1>3, PTL DEF Spec

-----------------------------------------------------------------------------
(* What the ledger says it goes on saying.                                 *)

(* Nothing that was committed in s is taken back in t.                     *)
Keeps(s, t) ==
  /\ DOMAIN s.caps \subseteq DOMAIN t.caps
  /\ \A id \in DOMAIN s.caps : s.caps[id].status = "Revoked" => t.caps[id].status = "Revoked"
  /\ \A id \in DOMAIN s.records : id \in DOMAIN t.records /\ t.records[id] = s.records[id]

LedgerKeeps == \A h, k \in Heights : h <= k => Keeps(ledger[h], ledger[k])

(* What a settled write leaves behind for good.  A mint's status may still *)
(* change, the id does not go away.                                        *)
Effective(r, s) ==
  /\ r.op = "mint" => CapabilityId(r) \in DOMAIN s.caps
  /\ r.op = "revoke" => Status(s, r.capability) = "Revoked"
  /\ r.op = "attest" => AttestedAs(r) \in DOMAIN s.records

(* A record carries what the call that attested it committed to.           *)
VerdictOrigin ==
  \A h \in Heights : \A id \in DOMAIN ledger[h].records :
    \E x \in Calls :
      /\ req[x].op = "attest" /\ tx[x] = "committed" /\ id = AttestedAs(req[x])
      /\ ledger[h].records[id].verdict = req[x].verdict

LEMMA KeepsAll ==
  ASSUME NEW s, NEW t, Keeps(s, t)
  PROVE  /\ Keeps(s, s)
         /\ \A u : Keeps(t, u) => Keeps(s, u)
         /\ \A r : Effective(r, s) => Effective(r, t)
<1>1. Keeps(s, s)
  BY DEF Keeps
<1>2. ASSUME NEW u, Keeps(t, u) PROVE Keeps(s, u)
  BY <1>2 DEF Keeps
<1>3. ASSUME NEW r, Effective(r, s) PROVE Effective(r, t)
  BY <1>3 DEF Keeps, Effective, Status
<1> QED
  BY <1>1, <1>2, <1>3

LEMMA EffectKeeps ==
  ASSUME NEW s, DOMAIN s = {"caps", "allowed", "records"}, NEW r, r.op \in Writes,
         Accepts(s, ContractCall(r)), NEW t, t = Effect(s, ContractCall(r))
  PROVE  Keeps(s, t)
<1>1. \A id \in DOMAIN s.records : id \in DOMAIN t.records /\ t.records[id] = s.records[id]
  BY EffectOnRecords
<1>2. DOMAIN s.caps \subseteq DOMAIN t.caps
  BY EffectOnCapabilities
<1>3. ASSUME NEW id \in DOMAIN s.caps, s.caps[id].status = "Revoked"
      PROVE  t.caps[id].status = "Revoked"
  <2>1. ~Mints(r, s, t, id) /\ ~Revokes(r, s, t, id) /\ ~Updates(r, s, t, id)
    BY <1>3 DEF Mints, Revokes, Updates
  <2>2. Same(s, t, id)
    BY <1>2, <2>1, EffectOnCapabilities
  <2> QED
    BY <1>3, <2>2 DEF Same
<1> QED
  BY <1>1, <1>2, <1>3 DEF Keeps

LEMMA NextLedgerKeeps ==
  ASSUME Shape, WritesSentOnce, LedgerKeeps, [Next]_vars
  PROVE  LedgerKeeps'
<1>1. CASE ~\E o \in Calls : Include(o)
  BY <1>1, OtherSteps DEF LedgerKeeps, Heights, Keeps
<1>2. ASSUME NEW o \in Calls, Include(o) PROVE LedgerKeeps'
  <2> DEFINE new == Effect(Latest, ContractCall(req[o]))
             top == Len(ledger) + 1
  <2>1. /\ Heights' = Heights \cup {top}
        /\ \A h \in Heights : ledger'[h] = ledger[h]
        /\ ledger'[top] = new
    BY <1>2, IncludeGrows
  <2>2. DOMAIN Latest = {"caps", "allowed", "records"} /\ Len(ledger) \in Heights
    BY LatestShape
  <2>3. req[o].op \in Writes /\ Accepts(Latest, ContractCall(req[o]))
    BY <1>2 DEF WritesSentOnce, Include
  <2>4. Keeps(Latest, new)
    BY <2>2, <2>3, EffectKeeps
  <2>5. \A h \in Heights : Keeps(ledger[h], Latest) /\ h < top
    BY <2>2 DEF LedgerKeeps, Heights, Latest, Shape
  <2> HIDE DEF new
  <2>6. Keeps(new, new)
    BY DEF Keeps
  <2>7. \A h, k \in Heights' : h <= k => Keeps(ledger'[h], ledger'[k])
    <3> SUFFICES ASSUME NEW h \in Heights', NEW k \in Heights', h <= k
                 PROVE  Keeps(ledger'[h], ledger'[k])
      OBVIOUS
    <3>1. CASE h \in Heights /\ k \in Heights
      <4>1. Keeps(ledger[h], ledger[k])
        BY <3>1 DEF LedgerKeeps
      <4> QED
        BY <2>1, <3>1, <4>1
    <3>2. CASE h \in Heights /\ k = top
      <4>1. Keeps(ledger[h], new)
        BY <2>4, <2>5, <3>2, KeepsAll
      <4> QED
        BY <2>1, <3>2, <4>1
    <3>3. CASE h = top
      <4>1. k = top
        <5>1. k \in Heights => k < top
          BY <2>5
        <5>2. k \in Heights => k \in Int
          BY DEF Heights
        <5>3. top \in Int
          BY DEF Shape
        <5> QED
          BY <2>1, <3>3, <5>1, <5>2, <5>3
      <4> QED
        BY <2>1, <2>6, <3>3, <4>1
    <3> QED
      BY <2>1, <3>1, <3>2, <3>3
  <2> QED
    BY <2>7 DEF LedgerKeeps, Keeps
<1> QED
  BY <1>1, <1>2

LEMMA NextVerdictOrigin ==
  ASSUME Shape, WritesSentOnce, VerdictOrigin, [Next]_vars
  PROVE  VerdictOrigin'
<1>1. /\ req' = req /\ Calls' = Calls
      /\ \A w \in Calls : tx[w] = "committed" => tx'[w] = "committed"
  BY Committed
<1> DEFINE Origin(s, id) ==
             \E x \in Calls :
               /\ req[x].op = "attest" /\ tx'[x] = "committed" /\ id = AttestedAs(req[x])
               /\ s.records[id].verdict = req[x].verdict
<1>2. \A h \in Heights : \A id \in DOMAIN ledger[h].records : Origin(ledger[h], id)
  BY <1>1 DEF VerdictOrigin
<1>3. SUFFICES \A h \in Heights' : \A id \in DOMAIN ledger'[h].records : Origin(ledger'[h], id)
  BY <1>1 DEF VerdictOrigin, AttestedAs, AttestationId
<1>4. CASE ~\E o \in Calls : Include(o)
  BY <1>2, <1>4, OtherSteps DEF Heights
<1>5. ASSUME NEW o \in Calls, Include(o)
      PROVE  \A h \in Heights' : \A id \in DOMAIN ledger'[h].records : Origin(ledger'[h], id)
  <2> DEFINE new == Effect(Latest, ContractCall(req[o]))
             top == Len(ledger) + 1
  <2>1. /\ Heights' = Heights \cup {top}
        /\ \A h \in Heights : ledger'[h] = ledger[h]
        /\ ledger'[top] = new
    BY <1>5, IncludeGrows
  <2>2. DOMAIN Latest = {"caps", "allowed", "records"} /\ Len(ledger) \in Heights
    BY LatestShape
  <2>3. /\ req[o].op \in Writes /\ Accepts(Latest, ContractCall(req[o]))
        /\ tx'[o] = "committed"
    BY <1>5 DEF WritesSentOnce, Include, Shape
  <2>4. ASSUME NEW id \in DOMAIN new.records PROVE Origin(new, id)
    <3>1. CASE id \in DOMAIN Latest.records
      <4>1. new.records[id] = Latest.records[id]
        BY <2>2, <2>3, <3>1, EffectOnRecords
      <4>2. Origin(Latest, id)
        BY <1>2, <2>2, <3>1 DEF Latest
      <4> QED
        BY <4>1, <4>2
    <3>2. CASE id \notin DOMAIN Latest.records
      <4>1. req[o].op = "attest" /\ id = AttestedAs(req[o]) /\ new.records[id].verdict = req[o].verdict
        BY <2>2, <2>3, <2>4, <3>2, EffectOnRecords
      <4> QED
        BY <2>3, <4>1
    <3> QED
      BY <3>1, <3>2
  <2> HIDE DEF new, top, Origin
  <2> QED
    BY <1>2, <2>1, <2>4
<1> QED
  BY <1>4, <1>5

-----------------------------------------------------------------------------
(* How calls end.                                                          *)

(* A call that has returned does nothing more.                             *)
LEMMA EndedStays ==
  ASSUME Shape, [Next]_vars, NEW p \in Calls, Ended(p)
  PROVE  pc'[p] = "done" /\ outcome'[p] = outcome[p] /\ answer'[p] = answer[p]
<1> USE DEF Shape, Ended
<1>1. ASSUME NEW o \in Calls, Begin(o) \/ Send(o) \/ Receipt(o)
      PROVE  pc'[p] = "done" /\ outcome'[p] = outcome[p] /\ answer'[p] = answer[p]
  BY <1>1 DEF Begin, Send, SendAccepted, SendRejected, SendReplyLost, Receipt,
              AfterReceipt, Finish, Return, Goto
<1>2. ASSUME NEW o \in Calls, SettleAgain(o) \/ Conclude(o) \/ ReadFails(o) \/ Read(o)
      PROVE  pc'[p] = "done" /\ outcome'[p] = outcome[p] /\ answer'[p] = answer[p]
  BY <1>2 DEF SettleAgain, Conclude, SettleDone, SettleTimeout, ReadFails, Finish, Return,
              Read, GetCapability, VerifyAttestation, IsCounterpartyAllowed
<1>3. ASSUME \/ \E o \in Calls : Include(o) \/ Refuse(o)
             \/ \E n \in Nodes : Replicate(n)
             \/ UNCHANGED vars
      PROVE  pc'[p] = "done" /\ outcome'[p] = outcome[p] /\ answer'[p] = answer[p]
  BY <1>3 DEF Include, Refuse, Replicate, vars
<1> QED
  BY <1>1, <1>2, <1>3 DEF Next

(* A call remembers what had ended when it began.                          *)
LEMMA PastStays ==
  ASSUME TInv, [Next]_vars, NEW p \in Calls
  PROVE  \/ past'[p] = past[p]
         \/ pc[p] = "idle" /\ past'[p] = {q \in Calls : Ended(q)}
  BY DEF TInv, CallsOK, Next, vars, Include, Refuse, Replicate, Begin, Send, SendAccepted,
         SendRejected, SendReplyLost, Receipt, SettleAgain, Conclude, SettleDone,
         SettleTimeout, Read, ReadFails

(* Only the settling writes settle, by a query that shows them done.       *)
SettlesItsWrites ==
  \A o \in Calls : pc[o] = "settling" \/ outcome[o] = "settled" => req[o].op \in Settling

LEMMA Settles ==
  ASSUME Shape, [Next]_vars, NEW p \in Calls, outcome'[p] = "settled"
  PROVE  outcome[p] = "settled" \/ SettleDone(p)
<1> USE DEF Shape
<1>1. ASSUME NEW o \in Calls, Begin(o) \/ Send(o) \/ Receipt(o) \/ SettleAgain(o)
      PROVE  outcome[p] = "settled"
  BY <1>1 DEF Begin, Send, SendAccepted, SendRejected, SendReplyLost, Receipt, SettleAgain,
              AfterReceipt, Finish, Return, Goto
<1>2. ASSUME NEW o \in Calls, SettleTimeout(o) \/ ReadFails(o) \/ Read(o)
      PROVE  outcome[p] = "settled"
  BY <1>2 DEF SettleTimeout, ReadFails, Finish, Return,
              Read, GetCapability, VerifyAttestation, IsCounterpartyAllowed
<1>3. ASSUME NEW o \in Calls, SettleDone(o)
      PROVE  outcome[p] = "settled" \/ SettleDone(p)
  BY <1>3 DEF SettleDone, Finish, Return
<1>4. ASSUME \/ \E o \in Calls : Include(o) \/ Refuse(o)
             \/ \E n \in Nodes : Replicate(n)
             \/ UNCHANGED vars
      PROVE  outcome[p] = "settled"
  BY <1>4 DEF Include, Refuse, Replicate, vars
<1> QED
  BY <1>1, <1>2, <1>3, <1>4 DEF Next, Conclude

LEMMA StartsToSettle ==
  ASSUME Shape, [Next]_vars, NEW p \in Calls, pc'[p] = "settling"
  PROVE  pc[p] = "settling" \/ req[p].op \in Settling
<1> USE DEF Shape
<1>1. ASSUME NEW o \in Calls, Begin(o) \/ Send(o) \/ Receipt(o)
      PROVE  pc[p] = "settling" \/ req[p].op \in Settling
  BY <1>1 DEF Begin, Send, SendAccepted, SendRejected, SendReplyLost, Receipt,
              AfterReceipt, Finish, Return, Goto
<1>2. ASSUME NEW o \in Calls, SettleAgain(o) \/ Conclude(o) \/ ReadFails(o) \/ Read(o)
      PROVE  pc[p] = "settling"
  BY <1>2 DEF SettleAgain, Conclude, SettleDone, SettleTimeout, ReadFails, Finish, Return,
              Read, GetCapability, VerifyAttestation, IsCounterpartyAllowed
<1>3. ASSUME \/ \E o \in Calls : Include(o) \/ Refuse(o)
             \/ \E n \in Nodes : Replicate(n)
             \/ UNCHANGED vars
      PROVE  pc[p] = "settling"
  BY <1>3 DEF Include, Refuse, Replicate, vars
<1> QED
  BY <1>1, <1>2, <1>3 DEF Next

LEMMA NextSettlesItsWrites ==
  ASSUME Shape, WritesSentOnce, SettlesItsWrites, [Next]_vars
  PROVE  SettlesItsWrites'
<1>1. req' = req /\ Calls' = Calls
  BY Committed
<1>2. ASSUME NEW p \in Calls, pc'[p] = "settling" \/ outcome'[p] = "settled"
      PROVE  req[p].op \in Settling
  BY <1>2, Settles, StartsToSettle DEF SettlesItsWrites, SettleDone
<1> QED
  BY <1>1, <1>2 DEF SettlesItsWrites

(* The states that a query shows lie between two heights of one node.      *)
LEMMA ShownAt ==
  ASSUME TInv, NEW o \in Calls, NEW s \in Shown(o)
  PROVE  \E n \in Nodes, h \in Heights :
           /\ s = ledger[h] /\ since[o][n] \in Heights /\ view[n] \in Heights
           /\ since[o][n] <= h /\ h <= view[n]
<1>1. PICK n \in Nodes : \E h \in since[o][n] .. view[n] : s = ledger[h]
  BY DEF Shown
<1>2. PICK h \in since[o][n] .. view[n] : s = ledger[h]
  BY <1>1
<1>3. since[o][n] \in Heights /\ view[n] \in Heights /\ Len(ledger) \in Nat
  BY DEF TInv, Shape
<1>4. h \in Heights
  BY <1>3 DEF Heights
<1> QED
  BY <1>2, <1>3, <1>4 DEF Heights

LEMMA DoneEffective ==
  ASSUME NEW r, r.op \in Settling, NEW s, Done(r, s)
  PROVE  Effective(r, s)
  BY DEF Settling, Done, Effective, Status

(* What a settled write did has been committed.                            *)
SettledCommitted ==
  \A w \in Calls : outcome[w] = "settled" => Effective(req[w], Latest)

LatestKept == Keeps(Latest, Latest')

LEMMA LatestKeeps ==
  ASSUME Shape, WritesSentOnce, LedgerKeeps, [Next]_vars
  PROVE  LatestKept
<1>1. /\ Len(ledger) \in Heights /\ Len(ledger) \in Heights' /\ Len(ledger') \in Heights'
      /\ Len(ledger) <= Len(ledger') /\ ledger'[Len(ledger)] = ledger[Len(ledger)]
  BY LatestShape, LedgerGrows DEF Heights
<1>2. Keeps(ledger'[Len(ledger)], ledger'[Len(ledger')])
  BY <1>1, NextLedgerKeeps DEF LedgerKeeps, Keeps
<1> QED
  BY <1>1, <1>2 DEF Latest, LatestKept

LEMMA NextSettledCommitted ==
  ASSUME TInv, LedgerKeeps, SettlesItsWrites, SettledCommitted, [Next]_vars
  PROVE  SettledCommitted'
<1>1. Shape /\ WritesSentOnce /\ req' = req /\ Calls' = Calls
  BY Committed DEF TInv
<1>2. ASSUME NEW w \in Calls, outcome'[w] = "settled"
      PROVE  Effective(req[w], Latest)
  <2>1. CASE outcome[w] = "settled"
    BY <2>1 DEF SettledCommitted
  <2>2. CASE SettleDone(w)
    <3>1. PICK s \in Shown(w) : Done(req[w], s)
      BY <2>2 DEF SettleDone
    <3>2. PICK h \in Heights : s = ledger[h]
      BY <3>1, ShownAt
    <3>3. Effective(req[w], s)
      BY <2>2, <3>1, DoneEffective DEF SettlesItsWrites, SettleDone
    <3>4. Keeps(s, Latest)
      BY <1>1, <3>2, LatestShape DEF LedgerKeeps, Latest, Heights
    <3> QED
      BY <3>3, <3>4, KeepsAll
  <2> QED
    BY <1>1, <1>2, <2>1, <2>2, Settles
<1>3. Keeps(Latest, Latest')
  BY <1>1, LatestKeeps DEF LatestKept
<1>4. ASSUME NEW w \in Calls, outcome'[w] = "settled"
      PROVE  Effective(req[w], Latest')
  BY <1>2, <1>3, <1>4, KeepsAll
<1> QED
  BY <1>1, <1>4 DEF SettledCommitted, Effective, CapabilityId, AttestedAs, AttestationId, Status

(* What holds whatever the nodes show.                                     *)
FInv == TInv /\ RecordOrigin /\ KeyOrigin /\ VerdictOrigin /\ LedgerKeeps
          /\ SettlesItsWrites /\ SettledCommitted

LEMMA InitFInv == Init => FInv
<1> SUFFICES ASSUME Init PROVE FInv
  OBVIOUS
<1>1. TInv /\ RecordOrigin /\ KeyOrigin
  BY InitTInv, InitOrigin DEF OriginInv
<1>2. Heights = {1} /\ ledger[1] = [caps |-> Standing, allowed |-> {}, records |-> <<>>]
  BY DEF Init, Heights
<1>3. DOMAIN ledger[1].records = {}
  BY <1>2
<1>4. VerdictOrigin
  BY <1>2, <1>3 DEF VerdictOrigin
<1>5. LedgerKeeps
  BY <1>2, <1>3 DEF LedgerKeeps, Keeps
<1>6. SettlesItsWrites /\ SettledCommitted
  BY DEF Init, SettlesItsWrites, SettledCommitted
<1> QED
  BY <1>1, <1>4, <1>5, <1>6 DEF FInv

LEMMA NextFInv == FInv /\ [Next]_vars => FInv'
<1> SUFFICES ASSUME FInv, [Next]_vars PROVE FInv'
  OBVIOUS
<1>1. OriginInv
  BY DEF FInv, TInv, OriginInv
<1> QED
  BY <1>1, NextTInv, NextOriginInv, NextVerdictOrigin, NextLedgerKeeps,
     NextSettlesItsWrites, NextSettledCommitted DEF FInv, TInv, OriginInv

(* "Sequence number disambiguating multiple attestations" (src/client.ts): *)
(* what a settled attest committed to is what the ledger says, unless      *)
(* another call attested the same decision under the same number.          *)
THEOREM AttestationsBind ==
  ASSUME FaithfulHash(Scripts)
  PROVE  Spec => []AttestBinds
<1>1. ASSUME FInv PROVE AttestBinds
  <2> SUFFICES ASSUME NEW w \in Calls, outcome[w] = "settled", req[w].op = "attest",
                      Latest.records[AttestedAs(req[w])].verdict # req[w].verdict
               PROVE  \E x \in Calls \ {w} :
                        /\ req[x].op = "attest" /\ tx[x] = "committed"
                        /\ SameContext(req[x].context, req[w].context)
                        /\ req[x].capability = req[w].capability
                        /\ req[x].seq = req[w].seq
    BY DEF AttestBinds
  <2>1. AttestedAs(req[w]) \in DOMAIN Latest.records
    BY <1>1 DEF FInv, SettledCommitted, Effective
  <2>2. PICK x \in Calls :
          /\ req[x].op = "attest" /\ tx[x] = "committed" /\ AttestedAs(req[w]) = AttestedAs(req[x])
          /\ Latest.records[AttestedAs(req[w])].verdict = req[x].verdict
    BY <1>1, <2>1, LatestShape DEF FInv, TInv, VerdictOrigin, Latest
  <2>3. /\ ContextHash(req[x].sdk, req[x].context) = ContextHash(req[w].sdk, req[w].context)
        /\ req[x].capability = req[w].capability /\ req[x].seq = req[w].seq
    BY <2>2 DEF AttestedAs, AttestationId
  <2>4. SameContext(req[x].context, req[w].context)
    BY <1>1, <2>2, <2>3 DEF FaithfulHash, Calls, FInv, TInv, Shape
  <2> QED
    BY <2>2, <2>3, <2>4
<1> QED
  BY <1>1, InitFInv, NextFInv, PTL DEF Spec

-----------------------------------------------------------------------------
(* Read after write, where all queries are answered by one node.           *)

OneNode == \A m, n \in Nodes : m = n

PastEnded == \A o \in Calls : \A w \in past[o] : Ended(w)

(* What has settled, the nodes show ...                                    *)
SettledShown ==
  \A w \in Calls, n \in Nodes : outcome[w] = "settled" => Effective(req[w], ledger[view[n]])

(* ... and a read that began afterwards starts from there.                 *)
ReadsAfter ==
  \A o \in Calls, n \in Nodes :
    pc[o] = "reading" =>
      \A w \in past[o] : outcome[w] = "settled" => Effective(req[w], ledger[since[o][n]])

(* A node shows no less than before.                                       *)
LEMMA ViewGrows ==
  ASSUME TInv, [Next]_vars, NEW n \in Nodes
  PROVE  view[n] \in Heights /\ view'[n] \in Heights' /\ view[n] <= view'[n]
<1>1. view[n] \in Heights /\ view'[n] \in Heights'
  BY NextTInv DEF TInv, Shape
<1>2. CASE UNCHANGED view
  BY <1>1, <1>2 DEF Heights
<1>3. ASSUME NEW m \in Nodes, Replicate(m)
      PROVE  view[n] <= view'[n]
  <2>1. PICK h \in Heights : h > view[m] /\ view' = [view EXCEPT ![m] = h]
    BY <1>3 DEF Replicate
  <2>2. view \in [Nodes -> Heights] /\ Heights \subseteq Int
    BY DEF TInv, Shape, Heights
  <2>3. CASE n = m
    <3>1. view'[m] = h
      BY <2>1, <2>2
    <3>2. view[m] \in Int /\ h \in Int
      BY <2>2
    <3> QED
      BY <2>1, <2>3, <3>1, <3>2
  <2>4. CASE n # m
    <3>1. view'[n] = view[n] /\ view[n] \in Int
      BY <2>1, <2>2, <2>4
    <3> QED
      BY <3>1
  <2> QED
    BY <2>3, <2>4
<1>4. UNCHANGED view \/ \E m \in Nodes : Replicate(m)
  BY DEF Next, vars, chain, Include, Refuse, Begin, Send, SendAccepted, SendRejected,
         SendReplyLost, Receipt, SettleAgain, Conclude, SettleDone, SettleTimeout,
         Read, ReadFails
<1> QED
  BY <1>1, <1>2, <1>3, <1>4

(* A read that is going on goes on, or it has just begun.                  *)
LEMMA Reads ==
  ASSUME Shape, [Next]_vars, NEW p \in Calls, pc'[p] = "reading"
  PROVE  \/ pc[p] = "reading" /\ since'[p] = since[p]
         \/ pc[p] = "idle" /\ since'[p] = view /\ view' = view /\ outcome' = outcome
<1> USE DEF Shape
<1> DEFINE Reading == \/ pc[p] = "reading" /\ since'[p] = since[p]
                      \/ /\ pc[p] = "idle" /\ since'[p] = view
                         /\ view' = view /\ outcome' = outcome
<1>1. ASSUME NEW o \in Calls, Begin(o) PROVE Reading
  BY <1>1 DEF Begin, Finish, Return, Goto, StartRead, chain
<1>2. ASSUME NEW o \in Calls, Send(o) \/ Receipt(o) \/ SettleAgain(o) PROVE Reading
  BY <1>2 DEF Send, SendAccepted, SendRejected, SendReplyLost, Receipt, SettleAgain,
              AfterReceipt, Finish, Return, Goto, StartRead
<1>3. ASSUME NEW o \in Calls, Conclude(o) \/ ReadFails(o) \/ Read(o) PROVE Reading
  BY <1>3 DEF Conclude, SettleDone, SettleTimeout, ReadFails, Finish, Return,
              Read, GetCapability, VerifyAttestation, IsCounterpartyAllowed
<1>4. ASSUME \/ \E o \in Calls : Include(o) \/ Refuse(o)
             \/ \E n \in Nodes : Replicate(n)
             \/ UNCHANGED vars
      PROVE  Reading
  BY <1>4 DEF Include, Refuse, Replicate, vars
<1> QED
  BY <1>1, <1>2, <1>3, <1>4 DEF Next

LEMMA NextPastEnded ==
  ASSUME TInv, PastEnded, [Next]_vars
  PROVE  PastEnded'
<1>1. Shape /\ Calls' = Calls /\ past \in [Calls -> SUBSET Calls]
  BY Committed DEF TInv, CallsOK
<1>2. ASSUME NEW o \in Calls, NEW w \in past'[o] PROVE w \in Calls /\ Ended(w)
  BY <1>1, <1>2, PastStays DEF PastEnded
<1>3. ASSUME NEW o \in Calls, NEW w \in past'[o] PROVE pc'[w] = "done"
  BY <1>1, <1>2, <1>3, EndedStays
<1> QED
  BY <1>1, <1>3 DEF PastEnded, Ended

LEMMA NextSettledShown ==
  ASSUME OneNode, FInv, SettledShown, [Next]_vars
  PROVE  SettledShown'
<1>1. TInv /\ Shape /\ WritesSentOnce /\ LedgerKeeps /\ req' = req /\ Calls' = Calls
  BY Committed DEF FInv, TInv
<1>2. LedgerKeeps' /\ TInv'
  BY <1>1, NextLedgerKeeps, NextTInv
<1>3. ASSUME NEW w \in Calls, NEW n \in Nodes, outcome'[w] = "settled"
      PROVE  Effective(req[w], ledger[view[n]])
  <2>1. CASE outcome[w] = "settled"
    BY <2>1 DEF SettledShown
  <2>2. CASE SettleDone(w)
    <3>1. PICK s \in Shown(w) : Done(req[w], s)
      BY <2>2 DEF SettleDone
    <3>2. PICK m \in Nodes, h \in Heights :
            s = ledger[h] /\ view[m] \in Heights /\ h <= view[m]
      BY <1>1, <3>1, ShownAt
    <3>3. Effective(req[w], s)
      BY <2>2, <3>1, DoneEffective DEF FInv, SettlesItsWrites, SettleDone
    <3>4. Keeps(s, ledger[view[m]])
      BY <1>1, <3>2 DEF LedgerKeeps
    <3>5. m = n
      BY DEF OneNode
    <3> QED
      BY <3>3, <3>4, <3>5, KeepsAll
  <2> QED
    BY <1>1, <1>3, <2>1, <2>2, Settles
<1>4. ASSUME NEW w \in Calls, NEW n \in Nodes, outcome'[w] = "settled"
      PROVE  Effective(req[w], ledger'[view'[n]])
  <2>1. view[n] \in Heights' /\ view'[n] \in Heights' /\ view[n] <= view'[n]
        /\ ledger'[view[n]] = ledger[view[n]]
    BY <1>1, ViewGrows, LedgerGrows
  <2>2. Keeps(ledger[view[n]], ledger'[view'[n]])
    BY <1>2, <2>1 DEF LedgerKeeps, Keeps
  <2> QED
    BY <1>3, <1>4, <2>2, KeepsAll
<1> QED
  BY <1>1, <1>4 DEF SettledShown, Effective, CapabilityId, AttestedAs, AttestationId, Status

LEMMA NextReadsAfter ==
  ASSUME FInv, PastEnded, SettledShown, ReadsAfter, [Next]_vars
  PROVE  ReadsAfter'
<1>1. TInv /\ Shape /\ WritesSentOnce /\ req' = req /\ Calls' = Calls
  BY Committed DEF FInv, TInv
<1>2. ASSUME NEW o \in Calls, NEW n \in Nodes, pc'[o] = "reading",
             NEW w \in past'[o], outcome'[w] = "settled"
      PROVE  Effective(req[w], ledger'[since'[o][n]])
  <2>1. w \in Calls /\ Ended(w) /\ outcome[w] = "settled"
    <3>1. w \in Calls /\ Ended(w)
      BY <1>1, PastStays DEF PastEnded, TInv, CallsOK
    <3> QED
      BY <1>1, <1>2, <3>1, EndedStays
  <2>2. since[o][n] \in Heights /\ view[n] \in Heights
    BY <1>1 DEF TInv, Shape
  <2>3. CASE pc[o] = "reading" /\ since'[o] = since[o]
    <3>1. past'[o] = past[o]
      BY <1>1, <2>3, PastStays
    <3>2. Effective(req[w], ledger[since[o][n]])
      BY <2>1, <2>3, <3>1 DEF ReadsAfter
    <3> QED
      BY <1>1, <2>2, <2>3, <3>2, LedgerGrows
  <2>4. CASE since'[o] = view
    BY <1>1, <2>1, <2>2, <2>4, LedgerGrows DEF SettledShown
  <2> QED
    BY <1>1, <1>2, <2>3, <2>4, Reads
<1> QED
  BY <1>1, <1>2 DEF ReadsAfter, Effective, CapabilityId, AttestedAs, AttestationId, Status

(* The invariant of one node.                                              *)
OneInv == FInv /\ PastEnded /\ SettledShown /\ ReadsAfter

LEMMA InitOneInv == Init => OneInv
<1> SUFFICES ASSUME Init PROVE OneInv
  OBVIOUS
<1>1. PastEnded /\ SettledShown /\ ReadsAfter
  BY DEF Init, PastEnded, SettledShown, ReadsAfter
<1> QED
  BY <1>1, InitFInv DEF OneInv

LEMMA NextOneInv ==
  ASSUME OneNode
  PROVE  OneInv /\ [Next]_vars => OneInv'
<1> SUFFICES ASSUME OneInv, [Next]_vars PROVE OneInv'
  OBVIOUS
<1>1. TInv
  BY DEF OneInv, FInv
<1> QED
  BY <1>1, NextFInv, NextPastEnded, NextSettledShown, NextReadsAfter DEF OneInv

(* A read sees what had settled when it began.                             *)
LEMMA ReadSees ==
  ASSUME OneInv, NEW o \in Calls, pc[o] = "reading", NEW w \in past[o],
         outcome[w] = "settled", NEW s \in Shown(o)
  PROVE  Effective(req[w], s) /\ \E h \in Heights : s = ledger[h]
<1>1. PICK n \in Nodes, h \in Heights :
        s = ledger[h] /\ since[o][n] \in Heights /\ since[o][n] <= h
  BY ShownAt DEF OneInv, FInv
<1>2. Effective(req[w], ledger[since[o][n]])
  BY DEF OneInv, ReadsAfter
<1>3. Keeps(ledger[since[o][n]], ledger[h])
  BY <1>1 DEF OneInv, FInv, LedgerKeeps
<1> QED
  BY <1>1, <1>2, <1>3, KeepsAll

(* An answer that counts as one after the write w: it was there before, or *)
(* it is being read now.                                                   *)
LEMMA SettledBeforeSteps ==
  ASSUME OneInv, [Next]_vars, NEW o \in Calls, NEW w \in Calls, SettledBefore(w, o)'
  PROVE  \/ SettledBefore(w, o) /\ answer'[o] = answer[o]
         \/ /\ Read(o) /\ w \in past[o] /\ outcome[w] = "settled"
<1>1. TInv /\ Shape
  BY DEF OneInv, FInv, TInv
<1>2. w \in past'[o] /\ outcome'[o] = "answered" /\ outcome'[w] = "settled"
  BY DEF SettledBefore
<1>3. outcome[o] = "answered" => Ended(o)
  BY <1>1 DEF TInv, CallsOK
<1>4. past'[o] = past[o]
  <2>1. Ended(o) \/ Read(o) => pc[o] # "idle"
    BY DEF Ended, Read
  <2> QED
    BY <1>1, <1>2, <1>3, <2>1, Answers, PastStays
<1>5. Ended(w)
  BY <1>2, <1>4 DEF OneInv, PastEnded
<1>6. outcome[w] = "settled"
  BY <1>1, <1>2, <1>5, EndedStays
<1> QED
  BY <1>1, <1>2, <1>4, <1>6, Answers DEF SettledBefore

LEMMA NextRevokeReadsBack ==
  ASSUME OneInv, RevokeReadsBack, [Next]_vars
  PROVE  RevokeReadsBack'
<1>1. Shape /\ req' = req /\ Calls' = Calls
  BY Committed DEF OneInv, FInv, TInv
<1> SUFFICES ASSUME NEW o \in Calls, NEW w \in Calls, SettledBefore(w, o)',
                    req[w].op = "revoke", req[o].op = "getCapability",
                    req[o].capability = req[w].capability
             PROVE  answer'[o].status = "Revoked"
  BY <1>1 DEF RevokeReadsBack, SettledBefore
<1>2. CASE SettledBefore(w, o) /\ answer'[o] = answer[o]
  BY <1>2 DEF RevokeReadsBack
<1>3. CASE Read(o) /\ w \in past[o] /\ outcome[w] = "settled"
  <2>1. PICK seen \in CapabilityReads(o, req[o].capability) : Return(o, "answered", seen)
    BY <1>3 DEF Read, GetCapability, VerifyAttestation, IsCounterpartyAllowed
  <2>2. PICK s \in Shown(o) : seen.status = Status(s, req[w].capability)
    BY <2>1 DEF CapabilityReads
  <2>3. Effective(req[w], s)
    BY <1>3, <2>2, ReadSees DEF Read
  <2> QED
    BY <1>1, <2>1, <2>2, <2>3 DEF Effective, Return, Shape
<1> QED
  BY <1>2, <1>3, SettledBeforeSteps

(* "settling makes read-after-write deterministic for the caller"          *)
(* (src/client.ts), where one node answers: a settled revocation reads     *)
(* back as revoked, for ever.                                              *)
THEOREM RevocationsReadBack ==
  ASSUME OneNode
  PROVE  Spec => []RevokeReadsBack
<1>1. Init => OneInv /\ RevokeReadsBack
  BY InitOneInv DEF Init, RevokeReadsBack, SettledBefore
<1>2. OneInv /\ RevokeReadsBack /\ [Next]_vars => OneInv' /\ RevokeReadsBack'
  BY NextOneInv, NextRevokeReadsBack
<1> QED
  BY <1>1, <1>2, PTL DEF Spec

-----------------------------------------------------------------------------
(* After a settled attestation all queries of an audit find one record.    *)
LEMMA AuditSees ==
  ASSUME OneInv, NEW o \in Calls, pc[o] = "reading", NEW w \in past[o], w \in Calls,
         outcome[w] = "settled", req[w].op = "attest", NEW s \in Shown(o)
  PROVE  /\ AttestedAs(req[w]) \in DOMAIN s.records
         /\ s.records[AttestedAs(req[w])] = Latest.records[AttestedAs(req[w])]
         /\ s.records[AttestedAs(req[w])].hash = ContextHash(req[w].sdk, req[w].context)
<1> DEFINE id == AttestedAs(req[w])
<1>1. PICK h \in Heights : s = ledger[h]
  BY ReadSees
<1>2. id \in DOMAIN s.records
  BY ReadSees DEF Effective
<1>3. Keeps(s, Latest)
  <2>1. Len(ledger) \in Heights /\ h <= Len(ledger)
    BY LatestShape DEF OneInv, FInv, TInv, Heights
  <2> QED
    BY <1>1, <2>1 DEF OneInv, FInv, LedgerKeeps, Latest
<1>4. PICK x \in Calls : /\ id = AttestedAs(req[x])
                         /\ s.records[id].hash = ContextHash(req[x].sdk, req[x].context)
  <2>1. <<id, s.records[id].hash>> \in Attested
    BY <1>1, <1>2 DEF OneInv, FInv, RecordOrigin
  <2> QED
    BY <2>1 DEF Attested
<1>5. ContextHash(req[x].sdk, req[x].context) = ContextHash(req[w].sdk, req[w].context)
  BY <1>4 DEF AttestedAs, AttestationId
<1> QED
  BY <1>2, <1>3, <1>4, <1>5 DEF Keeps

LEMMA NextAttestReadsBack ==
  ASSUME AgreeingHash(Scripts), OneInv, AttestReadsBack, [Next]_vars
  PROVE  AttestReadsBack'
<1>1. Shape /\ WritesSentOnce /\ LedgerKeeps /\ req' = req /\ Calls' = Calls
  BY Committed DEF OneInv, FInv, TInv
<1> DEFINE record(w) == Latest.records[AttestedAs(req[w])]
           Whole(a, r) == /\ a.ok
                          /\ a.onChain = [exists |-> TRUE, contextHash |-> r.hash,
                                          version |-> r.version, verdict |-> r.verdict]
<1>2. ASSUME NEW o \in Calls, NEW w \in Calls, SettledBefore(w, o)',
             req[w].op = "attest", req[o].op = "verify", req[o].target = w,
             SameContext(req[o].context, req[w].context)
      PROVE  Whole(answer'[o], record(w)) /\ outcome[w] = "settled"
  <2>1. CASE SettledBefore(w, o) /\ answer'[o] = answer[o]
    BY <1>2, <2>1 DEF AttestReadsBack, SettledBefore
  <2>2. CASE Read(o) /\ w \in past[o] /\ outcome[w] = "settled"
    <3> DEFINE id == AttestedAs(req[w])
               recomputed == ContextHash(req[o].sdk, req[o].context)
    <3>1. PICK onChain \in AttestationReads(o, id) :
            Return(o, "answered", [ok |-> Verified(recomputed, onChain), onChain |-> onChain])
      BY <1>2, <2>2 DEF Read, GetCapability, VerifyAttestation, IsCounterpartyAllowed
    <3>2. answer'[o] = [ok |-> Verified(recomputed, onChain), onChain |-> onChain]
      BY <1>1, <3>1 DEF Return, Shape
    <3>3. \A s \in Shown(o) : /\ id \in DOMAIN s.records /\ s.records[id] = record(w)
                              /\ s.records[id].hash = ContextHash(req[w].sdk, req[w].context)
      BY <1>2, <2>2, AuditSees DEF Read
    <3>4. onChain = [exists |-> TRUE, contextHash |-> record(w).hash,
                     version |-> record(w).version, verdict |-> record(w).verdict]
      <4> HIDE DEF record
      <4>1. /\ onChain.exists = TRUE /\ onChain.contextHash = record(w).hash
            /\ onChain.version = record(w).version /\ onChain.verdict = record(w).verdict
        BY <3>1, <3>3 DEF AttestationReads, ParseAddressReturn
      <4>2. onChain = [exists |-> onChain.exists, contextHash |-> onChain.contextHash,
                       version |-> onChain.version, verdict |-> onChain.verdict]
        BY <3>1 DEF AttestationReads
      <4> QED
        BY <4>1, <4>2
    <3>5. recomputed = record(w).hash
      <4>1. recomputed = ContextHash(req[w].sdk, req[w].context)
        BY <1>1, <1>2 DEF AgreeingHash, Calls, Shape
      <4>2. PICK s : s \in Shown(o)
        BY <3>1 DEF AttestationReads
      <4> QED
        BY <3>3, <4>1, <4>2
    <3> HIDE DEF record, recomputed
    <3>6. Verified(recomputed, onChain)
      BY <3>4, <3>5 DEF Verified
    <3> QED
      BY <2>2, <3>2, <3>4, <3>6
  <2> QED
    BY <1>2, <2>1, <2>2, SettledBeforeSteps
<1>3. ASSUME NEW w \in Calls, outcome[w] = "settled", req[w].op = "attest"
      PROVE  record(w)' = record(w)
  <2>1. AttestedAs(req[w]) \in DOMAIN Latest.records
    BY <1>3 DEF OneInv, FInv, SettledCommitted, Effective
  <2>2. Keeps(Latest, Latest')
    BY <1>1, LatestKeeps DEF LatestKept
  <2> QED
    BY <1>1, <2>1, <2>2 DEF Keeps, AttestedAs, AttestationId
<1> HIDE DEF record
<1>4. ASSUME NEW o \in Calls, NEW w \in Calls, SettledBefore(w, o)',
             req[w].op = "attest", req[o].op = "verify", req[o].target = w,
             SameContext(req[o].context, req[w].context)
      PROVE  Whole(answer'[o], record(w)')
  BY <1>2, <1>3, <1>4
<1> QED
  BY <1>1, <1>4 DEF AttestReadsBack, SettledBefore, record

(* The same for attestations, given that the SDKs in use commit to equal   *)
(* contexts alike: every audit that begins after one has settled verifies  *)
(* it, and gets the whole record, none of its five queries torn.           *)
THEOREM AttestationsReadBack ==
  ASSUME OneNode, AgreeingHash(Scripts)
  PROVE  Spec => []AttestReadsBack
<1>1. Init => OneInv /\ AttestReadsBack
  BY InitOneInv DEF Init, AttestReadsBack, SettledBefore
<1>2. OneInv /\ AttestReadsBack /\ [Next]_vars => OneInv' /\ AttestReadsBack'
  BY NextOneInv, NextAttestReadsBack
<1> QED
  BY <1>1, <1>2, PTL DEF Spec

-----------------------------------------------------------------------------
Alone(w) == \A x \in Calls \ {w} : ~Touches(x, w)

(* A capability as w would mint it, up to its version.                     *)
AsMinted(cap, w) ==
  /\ cap.status = "Active" /\ cap.maxSpend = req[w].maxSpend
  /\ cap.validUntil = ValidUntil(req[w])

(* What only w touches is as w minted it.                                  *)
MintsTheirs ==
  \A w \in Calls : req[w].op = "mint" /\ Alone(w) =>
    \A h \in Heights : CapabilityId(req[w]) \in DOMAIN ledger[h].caps =>
      AsMinted(ledger[h].caps[CapabilityId(req[w])], w)

(* What was sent stays sent, so a call that is alone has always been.      *)
LEMMA AloneBefore ==
  ASSUME Shape, WritesSentOnce, [Next]_vars, NEW w \in Calls, Alone(w)'
  PROVE  Alone(w)
<1>1. req' = req /\ Calls' = Calls
  BY Committed
<1>2. ASSUME NEW x \in Calls, tx'[x] = "none" PROVE tx[x] = "none"
  <2>1. ASSUME NEW o \in Calls, Include(o) \/ Refuse(o) PROVE tx[x] = "none"
    BY <1>2, <2>1 DEF Include, Refuse, Shape
  <2>2. ASSUME NEW o \in Calls, Send(o) PROVE tx[x] = "none"
    BY <1>2, <2>2 DEF Send, SendAccepted, SendRejected, SendReplyLost, Shape, WritesSentOnce, chain
  <2>3. CASE UNCHANGED tx
    BY <1>2, <2>3
  <2> QED
    BY <2>1, <2>2, <2>3
    DEF Next, vars, chain, Replicate, Begin, Receipt, SettleAgain, Conclude,
        SettleDone, SettleTimeout, Read, ReadFails
<1>3. ASSUME NEW x \in Calls \ {w}, Touches(x, w) PROVE FALSE
  <2>1. Touches(x, w)'
    BY <1>1, <1>2, <1>3 DEF Touches, CapabilityId
  <2> QED
    BY <1>1, <2>1 DEF Alone
<1> QED
  BY <1>3 DEF Alone

LEMMA NextMintsTheirs ==
  ASSUME TInv, MintsTheirs, [Next]_vars
  PROVE  MintsTheirs'
<1>1. Shape /\ WritesSentOnce /\ req' = req /\ Calls' = Calls
  BY Committed DEF TInv
<1>2. SUFFICES ASSUME NEW w \in Calls, req[w].op = "mint", Alone(w), NEW h \in Heights',
                      CapabilityId(req[w]) \in DOMAIN ledger'[h].caps
               PROVE  AsMinted(ledger'[h].caps[CapabilityId(req[w])], w)
  BY <1>1, AloneBefore DEF MintsTheirs, AsMinted, CapabilityId, ValidUntil
<1> DEFINE id == CapabilityId(req[w])
<1>3. \A k \in Heights : id \in DOMAIN ledger[k].caps => AsMinted(ledger[k].caps[id], w)
  BY <1>2 DEF MintsTheirs
<1>4. CASE ~\E o \in Calls : Include(o)
  BY <1>2, <1>3, <1>4, OtherSteps DEF Heights
<1>5. ASSUME NEW o \in Calls, Include(o) PROVE AsMinted(ledger'[h].caps[id], w)
  <2> DEFINE new == Effect(Latest, ContractCall(req[o]))
             top == Len(ledger) + 1
  <2>1. /\ Heights' = Heights \cup {top}
        /\ \A k \in Heights : ledger'[k] = ledger[k]
        /\ ledger'[top] = new
    BY <1>1, <1>5, IncludeGrows
  <2>2. DOMAIN Latest = {"caps", "allowed", "records"} /\ Len(ledger) \in Heights
    BY <1>1, LatestShape
  <2>3. /\ req[o].op \in Writes /\ Accepts(Latest, ContractCall(req[o])) /\ tx[o] # "none"
    BY <1>1, <1>5 DEF WritesSentOnce, Include
  <2>4. ASSUME id \in DOMAIN new.caps PROVE AsMinted(new.caps[id], w)
    <3>1. CASE Same(Latest, new, id)
      BY <1>3, <2>2, <3>1 DEF Same, Latest
    <3>2. CASE Mints(req[o], Latest, new, id)
      <4>1. req[o].op = "mint" /\ CapabilityId(req[o]) = CapabilityId(req[w])
        BY <3>2 DEF Mints
      <4>2. \A field \in {"principal", "agent", "nonce", "time"} : req[o][field] = req[w][field]
        BY <4>1 DEF CapabilityId
      <4>3. o = w
        BY <1>2, <2>3, <4>1, <4>2 DEF Alone, Touches
      <4> QED
        BY <3>2, <4>3 DEF Mints, AsMinted
    <3>3. CASE Revokes(req[o], Latest, new, id) \/ Updates(req[o], Latest, new, id)
      <4>1. req[o].op \in {"revoke", "updatePolicy"} /\ req[o].capability = CapabilityId(req[w])
        BY <3>3 DEF Revokes, Updates
      <4>2. Touches(o, w) /\ o # w
        BY <1>2, <2>3, <4>1 DEF Touches
      <4> QED
        BY <1>2, <4>2 DEF Alone
    <3> QED
      BY <2>2, <2>3, <2>4, <3>1, <3>2, <3>3, EffectOnCapabilities
  <2> HIDE DEF new, top, id
  <2>5. CASE h \in Heights
    BY <1>2, <1>3, <2>1, <2>5 DEF id
  <2>6. CASE h = top
    BY <1>2, <2>1, <2>4, <2>6 DEF id
  <2> QED
    BY <2>1, <2>5, <2>6
<1> QED
  BY <1>4, <1>5

LEMMA InitMintsTheirs ==
  ASSUME FreshMints(Scripts)
  PROVE  Init => MintsTheirs
<1> SUFFICES ASSUME Init PROVE MintsTheirs
  OBVIOUS
<1>1. Heights = {1} /\ ledger[1] = [caps |-> Standing, allowed |-> {}, records |-> <<>>]
  BY DEF Init, Heights
<1>2. ledger[1].caps = Standing
  BY <1>1
<1>3. \A w \in Calls : req[w].op = "mint" => CapabilityId(req[w]) \notin DOMAIN Standing
  BY DEF Init, FreshMints, Calls
<1> QED
  BY <1>1, <1>2, <1>3 DEF MintsTheirs

LEMMA NextMintReadsBack ==
  ASSUME OneInv, MintsTheirs, MintReadsBack, [Next]_vars
  PROVE  MintReadsBack'
<1>1. TInv /\ Shape /\ WritesSentOnce /\ req' = req /\ Calls' = Calls
  BY Committed DEF OneInv, FInv, TInv
<1> DEFINE ReadsBack(a, w) ==
      /\ a.status = "Active"
      /\ a.maxSpend = req[w].maxSpend
      /\ CASE req[w].expiry[1] = "validUntil" -> a.validUntil = req[w].expiry[2]
           [] req[w].expiry[1] = "ttlSeconds" ->
                a.validUntil - req[w].time = req[w].expiry[2]
           [] OTHER -> TRUE
<1>2. SUFFICES ASSUME NEW o \in Calls, NEW w \in Calls, SettledBefore(w, o)',
                      req[w].op = "mint", req[o].op = "getCapability",
                      req[o].capability = CapabilityId(req[w]), Alone(w)
               PROVE  ReadsBack(answer'[o], w)
  BY <1>1, AloneBefore DEF MintReadsBack, SettledBefore, Alone, CapabilityId
<1>3. CASE SettledBefore(w, o) /\ answer'[o] = answer[o]
  BY <1>2, <1>3 DEF MintReadsBack, Alone
<1>4. CASE Read(o) /\ w \in past[o] /\ outcome[w] = "settled"
  <2> DEFINE id == CapabilityId(req[w])
  <2>1. PICK seen \in CapabilityReads(o, id) : Return(o, "answered", seen)
    BY <1>2, <1>4 DEF Read, GetCapability, VerifyAttestation, IsCounterpartyAllowed
  <2>2. \A s \in Shown(o) : id \in DOMAIN s.caps /\ AsMinted(s.caps[id], w)
    BY <1>2, <1>4, ReadSees DEF Read, Effective, MintsTheirs
  <2>3. /\ seen.status = "Active" /\ seen.maxSpend = req[w].maxSpend
        /\ seen.validUntil = ValidUntil(req[w])
    BY <2>1, <2>2 DEF CapabilityReads, Status, AsMinted
  <2>4. req[w].time \in Int /\ req[w].expiry[2] \in Int
    BY <1>1, <1>2, FacadeAssumption DEF WellTyped, Shape, Calls
  <2>5. ReadsBack(seen, w)
    BY <2>3, <2>4 DEF ValidUntil
  <2> QED
    BY <1>1, <2>1, <2>5 DEF Return, Shape
<1> QED
  BY <1>2, <1>3, <1>4, SettledBeforeSteps

(* ... and for mints of fresh ids, which no other call touches: a settled  *)
(* mint reads back active, with the terms that were asked for.             *)
THEOREM MintsReadBack ==
  ASSUME OneNode, FreshMints(Scripts)
  PROVE  Spec => []MintReadsBack
<1>1. Init => OneInv /\ MintsTheirs /\ MintReadsBack
  BY InitOneInv, InitMintsTheirs DEF Init, MintReadsBack, SettledBefore
<1>2. OneInv /\ MintsTheirs /\ MintReadsBack /\ [Next]_vars
        => OneInv' /\ MintsTheirs' /\ MintReadsBack'
  BY NextOneInv, NextMintsTheirs, NextMintReadsBack DEF OneInv, FInv
<1> QED
  BY <1>1, <1>2, PTL DEF Spec

=============================================================================
