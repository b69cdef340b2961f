------------------------------- MODULE Facade -------------------------------
(***************************************************************************)
(* The rest of the facade: the capability lifecycle (mint, revoke, update  *)
(* policy, allow a counterparty), attestations, and the audit reads.       *)
(*                                                                         *)
(* The behaviour starts with a script: the calls that principals, agents   *)
(* and auditors make, each with its arguments, the SDK it is made with,    *)
(* and the calls its program awaits first (`after`).  A write is sent,     *)
(* waits for a receipt, and, when it is a mint, a revocation or an         *)
(* attestation, polls the state until its effect shows or the window ends: *)
(*                                                                         *)
(*    idle -> sending -> receipt -> settling -> done                       *)
(*    idle -> reading -> done                                              *)
(*                                                                         *)
(* `ledger` holds the committed states of the contract (external), oldest  *)
(* first; a query is answered by some node from the height it has reached. *)
(* enforce has modules of its own, and SendSigned the nonces.              *)
(***************************************************************************)
EXTENDS Integers, Sequences

CONSTANTS
  Nodes,
  Scripts,            \* sequences of requests
  Standing,           \* the capabilities that are committed from the start
  Malformed,          \* addresses that do not decode
  ContextHash(_, _),  \* hashDecisionContext of an SDK
  SameContext(_, _)   \* whether two contexts are logically the same

VARIABLES
  ledger,   \* committed states of the contract, oldest first
  view,     \* the height each node has caught up to
  req,      \* the script
  tx,       \* "none", "mempool", "committed" or "refused", for each call
  pc,       \* where each call is
  since,    \* what each node answered from when the current read began
  past,     \* the calls that had ended when this one began (history)
  outcome,  \* how the call ended
  answer    \* what an audit read returned

chain == <<ledger, view, tx>>
vars == <<ledger, view, req, tx, pc, since, past, outcome, answer>>

Calls == DOMAIN req
Heights == 1 .. Len(ledger)
Latest == ledger[Len(ledger)]
Unanswered == [returned |-> FALSE]
NoRead == [n \in Nodes |-> 1]

-----------------------------------------------------------------------------
(* Identifiers are hashes of fixed-width fields: taken to be injective.    *)

(* Mutation of CapabilityId: the nonce is forgotten.                       *)
CapabilityId_NoNonce(r) == <<"capability", r.principal, r.agent, r.time>>
CapabilityId(r) == <<"capability", r.principal, r.agent, r.nonce, r.time>>

(* Mutation of CounterpartyKey: not scoped to the capability.              *)
CounterpartyKey_Global(capability, cp) == <<"key", cp>>
CounterpartyKey(capability, cp) == <<"key", capability, cp>>

(* Mutation of AttestationId: the sequence number is forgotten.            *)
AttestationId_NoSeq(capability, hash, seq) == <<"attestation", capability, hash>>
AttestationId(capability, hash, seq) == <<"attestation", capability, hash, seq>>

AttestedAs(r) == AttestationId(r.capability, ContextHash(r.sdk, r.context), r.seq)

(* An address that does not decode throws before anything is sent.         *)
Decodes(r) == r.op \in {"allow", "isAllowed"} => r.counterparty \notin Malformed

(* A mint without an expiry throws; in Go an absent one counts as zero.    *)
HasExpiry(r) == r.op = "mint" /\ r.expiry[1] = "neither" => r.sdk = "go"

(* Mutation of ValidUntil: a relative expiry is taken for an absolute one. *)
ValidUntil_Relative(r) == r.expiry[2]
ValidUntil(r) ==
  IF r.expiry[1] = "validUntil" THEN r.expiry[2] ELSE r.time + r.expiry[2]

(* The typed writes of the registry: a contract method and its arguments.  *)
MintPermission(r) ==
  [method |-> "mint_permission", id |-> CapabilityId(r),
   maxSpend |-> r.maxSpend, validUntil |-> ValidUntil(r)]

RevokePermission(r) == [method |-> "revoke_permission", id |-> r.capability]

UpdatePolicy(r) ==
  [method |-> "update_policy", id |-> r.capability,
   maxSpend |-> r.maxSpend, validUntil |-> r.validUntil]

AddAllowedCounterparty(r) ==
  [method |-> "add_allowed_counterparty", id |-> r.capability,
   key |-> CounterpartyKey(r.capability, r.counterparty)]

RecordAttestation(r) ==
  [method |-> "record_attestation", id |-> AttestedAs(r), capability |-> r.capability,
   hash |-> ContextHash(r.sdk, r.context), verdict |-> r.verdict]

ContractCall(r) ==
  CASE r.op = "mint"         -> MintPermission(r)
    [] r.op = "revoke"       -> RevokePermission(r)
    [] r.op = "updatePolicy" -> UpdatePolicy(r)
    [] r.op = "allow"        -> AddAllowedCounterparty(r)
    [] r.op = "attest"       -> RecordAttestation(r)

Verdict == [InPolicy |-> 1, OutOfPolicy |-> 2]

Writes == {"mint", "revoke", "updatePolicy", "allow", "attest"}
Settling == {"mint", "revoke", "attest"}

(* What the types of the arguments say of a request and a capability.      *)
WellTyped(r) ==
  /\ r.op = "mint" => r.time \in Int /\ r.maxSpend \in Int /\ r.expiry[2] \in Int
  /\ r.op = "updatePolicy" => r.maxSpend \in Int /\ r.validUntil \in Int
  /\ r.op = "attest" => r.verdict \in {Verdict[v] : v \in DOMAIN Verdict}

Capability ==
  [status : {"Active", "Revoked"}, version : Nat, maxSpend : Int, validUntil : Int]

ASSUME FacadeAssumption ==
  /\ \A id \in DOMAIN Standing : Standing[id] \in Capability
  /\ \A script \in Scripts : \A o \in DOMAIN script : WellTyped(script[o])

-----------------------------------------------------------------------------
(* The contract (external).  Ids are written once; a capability that is    *)
(* not active changes no more; an attestation carries the policy version   *)
(* in force when it is committed.                                          *)

Status(s, id) == IF id \in DOMAIN s.caps THEN s.caps[id].status ELSE "NotFound"
Version(s, id) == IF id \in DOMAIN s.caps THEN s.caps[id].version ELSE 0

Accepts(s, call) ==
  CASE call.method = "mint_permission"    -> call.id \notin DOMAIN s.caps
    [] call.method = "record_attestation" -> call.id \notin DOMAIN s.records
    [] OTHER                              -> Status(s, call.id) = "Active"

(* The entries with one more (none is there under its id, see Accepts).    *)
Written(entries, id, entry) ==
  [i \in DOMAIN entries \cup {id} |-> IF i = id THEN entry ELSE entries[i]]

Effect(s, call) ==
  CASE call.method = "mint_permission" ->
         [s EXCEPT !.caps = Written(@, call.id, [status |-> "Active", version |-> 1,
            maxSpend |-> call.maxSpend, validUntil |-> call.validUntil])]
    [] call.method = "revoke_permission" ->
         [s EXCEPT !.caps[call.id].status = "Revoked"]
    [] call.method = "update_policy" ->
         [s EXCEPT !.caps[call.id].maxSpend = call.maxSpend,
                   !.caps[call.id].validUntil = call.validUntil,
                   !.caps[call.id].version = @ + 1]
    [] call.method = "add_allowed_counterparty" ->
         [s EXCEPT !.allowed = @ \cup {call.key}]
    [] call.method = "record_attestation" ->
         [s EXCEPT !.records = Written(@, call.id, [hash |-> call.hash,
            verdict |-> call.verdict, version |-> Version(s, call.capability)])]

Include(o) ==
  /\ tx[o] = "mempool"
  /\ Accepts(Latest, ContractCall(req[o]))
  /\ ledger' = Append(ledger, Effect(Latest, ContractCall(req[o])))
  /\ tx' = [tx EXCEPT ![o] = "committed"]
  /\ UNCHANGED <<view, req, pc, since, past, outcome, answer>>

(* Also for reasons of its own: the caller, gas.                           *)
Refuse(o) ==
  /\ tx[o] = "mempool"
  /\ tx' = [tx EXCEPT ![o] = "refused"]
  /\ UNCHANGED <<ledger, view, req, pc, since, past, outcome, answer>>

Replicate(n) ==
  /\ \E h \in Heights : h > view[n] /\ view' = [view EXCEPT ![n] = h]
  /\ UNCHANGED <<ledger, req, tx, pc, since, past, outcome, answer>>

-----------------------------------------------------------------------------
Ended(o) == pc[o] = "done"

Goto(o, label) ==
  /\ pc' = [pc EXCEPT ![o] = label]
  /\ UNCHANGED <<outcome, answer>>

(* Mutation of StartRead: the answers may come from a cache of any age.    *)
StartRead_Cached(o) == since' = [since EXCEPT ![o] = NoRead]

(* A read sends its queries: they are answered from here on.               *)
StartRead(o) == since' = [since EXCEPT ![o] = view]

(* Mutation of Return: the promise is never resolved.                      *)
Return_Silent(o, how, what) ==
  /\ pc' = [pc EXCEPT ![o] = "done"]
  /\ since' = [since EXCEPT ![o] = NoRead]
  /\ answer' = [answer EXCEPT ![o] = what]
  /\ UNCHANGED outcome

Return(o, how, what) ==
  /\ pc' = [pc EXCEPT ![o] = "done"]
  /\ since' = [since EXCEPT ![o] = NoRead]
  /\ outcome' = [outcome EXCEPT ![o] = how]
  /\ answer' = [answer EXCEPT ![o] = what]

Finish(o, how) == Return(o, how, Unanswered)

(* A program makes a call when the ones it awaits have returned.           *)
Awaited(o) == \A p \in req[o].after : Ended(p) /\ outcome[p] # "threw"

Begin(o) ==
  /\ pc[o] = "idle"
  /\ Awaited(o)
  /\ past' = [past EXCEPT ![o] = {p \in Calls : Ended(p)}]
  /\ IF ~Decodes(req[o]) \/ ~HasExpiry(req[o])
     THEN Finish(o, "threw")
     ELSE IF req[o].op \in Writes
     THEN Goto(o, "sending") /\ UNCHANGED since
     ELSE Goto(o, "reading") /\ StartRead(o)
  /\ UNCHANGED <<chain, req>>

(* What follows a receipt: updatePolicy and allowCounterparty return it.   *)
AfterReceipt(o) ==
  \/ /\ req[o].op \in Settling
     /\ Goto(o, "settling")
     /\ StartRead(o)
  \/ /\ req[o].op \notin Settling
     /\ Finish(o, "returned")

(* The registry's write.  Go's returns on mempool acceptance, the others   *)
(* poll for a receipt, but not for ever.                                   *)
SendAccepted(o) ==
  /\ pc[o] = "sending"
  /\ tx' = [tx EXCEPT ![o] = "mempool"]
  /\ IF req[o].sdk = "go"
     THEN AfterReceipt(o)
     ELSE Goto(o, "receipt") /\ UNCHANGED since
  /\ UNCHANGED <<ledger, view, req, past>>

SendRejected(o) ==
  /\ pc[o] = "sending"
  /\ Finish(o, "threw")
  /\ UNCHANGED <<chain, req, past>>

SendReplyLost(o) ==
  /\ pc[o] = "sending"
  /\ tx' = [tx EXCEPT ![o] = "mempool"]
  /\ Finish(o, "threw")
  /\ UNCHANGED <<ledger, view, req, past>>

Receipt(o) ==
  /\ pc[o] = "receipt"
  /\ AfterReceipt(o)
  /\ UNCHANGED <<chain, req, past>>

-----------------------------------------------------------------------------
(* The states that a query of the current read may be answered from.       *)
Shown(o) == {ledger[h] : h \in UNION {since[o][n] .. view[n] : n \in Nodes}}

(* getCapabilityState and getAttestation: one query per field.  The hash   *)
(* of a record that does not exist reads as the all-zero address.          *)
CapabilityReads(o, id) ==
  LET field(s, f) == IF id \in DOMAIN s.caps THEN s.caps[id][f] ELSE 0
  IN [status     : {Status(s, id) : s \in Shown(o)},
      maxSpend   : {field(s, "maxSpend") : s \in Shown(o)},
      validUntil : {field(s, "validUntil") : s \in Shown(o)}]

ParseAddressReturn(s, id) ==
  IF id \in DOMAIN s.records THEN s.records[id].hash ELSE <<"zero">>

AttestationReads(o, id) ==
  LET field(s, f) == IF id \in DOMAIN s.records THEN s.records[id][f] ELSE 0
  IN [exists      : {(id \in DOMAIN s.records) : s \in Shown(o)},
      contextHash : {ParseAddressReturn(s, id) : s \in Shown(o)},
      version     : {field(s, "version") : s \in Shown(o)},
      verdict     : {field(s, "verdict") : s \in Shown(o)}]

(* Mutation of Done: any committed status will do.                         *)
Done_Exists(r, s) ==
  CASE r.op = "mint"   -> Status(s, CapabilityId(r)) # "NotFound"
    [] r.op = "revoke" -> Status(s, r.capability) # "NotFound"
    [] r.op = "attest" -> AttestedAs(r) \in DOMAIN s.records

(* The predicate of each settle loop.                                      *)
Done(r, s) ==
  CASE r.op = "mint"   -> Status(s, CapabilityId(r)) = "Active"
    [] r.op = "revoke" -> Status(s, r.capability) = "Revoked"
    [] r.op = "attest" -> AttestedAs(r) \in DOMAIN s.records

(* settle returns its last read in either case, and no caller looks at it: *)
(* "settled" and "timedOut" tell apart what the caller cannot.             *)
SettleDone(o) ==
  /\ pc[o] = "settling"
  /\ \E s \in Shown(o) : Done(req[o], s)
  /\ Finish(o, "settled")
  /\ UNCHANGED <<chain, req, past>>

SettleAgain(o) ==
  /\ pc[o] = "settling"
  /\ \E s \in Shown(o) : ~Done(req[o], s)
  /\ StartRead(o)
  /\ UNCHANGED <<chain, req, pc, past, outcome, answer>>

(* Mutation of SettleTimeout: the loop has no deadline.                    *)
SettleTimeout_NoDeadline(o) == FALSE

SettleTimeout(o) ==
  /\ pc[o] = "settling"
  /\ \E s \in Shown(o) : ~Done(req[o], s)
  /\ Finish(o, "timedOut")
  /\ UNCHANGED <<chain, req, past>>

(* Mutation of Verified: the hashes are not compared.                      *)
Verified_ExistsOnly(recomputed, onChain) == onChain.exists
Verified(recomputed, onChain) == recomputed = onChain.contextHash /\ onChain.exists

GetCapability(o) ==
  /\ req[o].op = "getCapability"
  /\ \E seen \in CapabilityReads(o, req[o].capability) : Return(o, "answered", seen)

VerifyAttestation(o) ==
  /\ req[o].op = "verify"
  /\ \E onChain \in AttestationReads(o, AttestedAs(req[req[o].target])) :
       LET ok == Verified(ContextHash(req[o].sdk, req[o].context), onChain)
       IN Return(o, "answered", [ok |-> ok, onChain |-> onChain])

IsCounterpartyAllowed(o) ==
  /\ req[o].op = "isAllowed"
  /\ LET key == CounterpartyKey(req[o].capability, req[o].counterparty)
     IN \E s \in Shown(o) : Return(o, "answered", [allowed |-> key \in s.allowed])

Read(o) ==
  /\ pc[o] = "reading"
  /\ GetCapability(o) \/ VerifyAttestation(o) \/ IsCounterpartyAllowed(o)
  /\ UNCHANGED <<chain, req, past>>

(* A query fails.  Go's Revoke drops the error of its settle loop.         *)
ReadFails(o) ==
  /\ \/ pc[o] = "reading" /\ Finish(o, "threw")
     \/ /\ pc[o] = "settling"
        /\ IF req[o].op = "revoke" /\ req[o].sdk = "go"
           THEN Finish(o, "timedOut")
           ELSE Finish(o, "threw")
  /\ UNCHANGED <<chain, req, past>>

-----------------------------------------------------------------------------
Init ==
  /\ ledger = <<[caps |-> Standing, allowed |-> {}, records |-> <<>>]>>
  /\ view = [n \in Nodes |-> 1]
  /\ req \in Scripts
  /\ tx = [o \in Calls |-> "none"]
  /\ pc = [o \in Calls |-> "idle"]
  /\ since = [o \in Calls |-> NoRead]
  /\ past = [o \in Calls |-> {}]
  /\ outcome = [o \in Calls |-> "none"]
  /\ answer = [o \in Calls |-> Unanswered]

Send(o) == SendAccepted(o) \/ SendRejected(o) \/ SendReplyLost(o)
Conclude(o) == SettleDone(o) \/ SettleTimeout(o)

Next ==
  \/ \E o \in Calls :
       \/ Include(o) \/ Refuse(o)
       \/ Begin(o) \/ Send(o) \/ Receipt(o)
       \/ SettleAgain(o) \/ Conclude(o) \/ Read(o) \/ ReadFails(o)
  \/ \E n \in Nodes : Replicate(n)

Spec == Init /\ [][Next]_vars

(* The runtime resumes calls whose requests were answered, and both loops  *)
(* have deadlines; no call can take these steps for ever, so that fairness *)
(* for all calls together is fairness for each.  Nothing is assumed of the *)
(* chain.                                                                  *)
Proceed(o) == Send(o) \/ Receipt(o) \/ Conclude(o) \/ Read(o)
FairSpec == Spec /\ WF_vars(\E o \in Calls : Proceed(o))

-----------------------------------------------------------------------------
(* Every variable has its type, and a call has an outcome exactly when it  *)
(* is done, an answer only if it is a read.                                *)
TypeOK ==
  /\ \A h \in Heights :
       /\ \A id \in DOMAIN ledger[h].caps : ledger[h].caps[id] \in Capability
       /\ \A id \in DOMAIN ledger[h].records :
            ledger[h].records[id].verdict \in {Verdict[v] : v \in DOMAIN Verdict}
  /\ view \in [Nodes -> Heights]
  /\ req \in Scripts
  /\ tx \in [Calls -> {"none", "mempool", "committed", "refused"}]
  /\ pc \in [Calls -> {"idle", "sending", "receipt", "settling", "reading", "done"}]
  /\ since \in [Calls -> [Nodes -> Heights]]
  /\ past \in [Calls -> SUBSET Calls]
  /\ outcome \in [Calls -> {"none", "returned", "settled", "timedOut", "answered", "threw"}]
  /\ \A o \in Calls :
       /\ outcome[o] = "none" <=> ~Ended(o)
       /\ answer[o] # Unanswered <=> outcome[o] = "answered"

(* A read o that began when the write w had returned, its effect settled.  *)
SettledBefore(w, o) == outcome[o] = "answered" /\ w \in past[o] /\ outcome[w] = "settled"

(* Another call that may have touched the capability that w mints: told by *)
(* what the ids are made from.                                             *)
Touches(x, w) ==
  /\ tx[x] # "none"
  /\ IF req[x].op = "mint"
     THEN \A field \in {"principal", "agent", "nonce", "time"} :
            req[x][field] = req[w][field]
     ELSE req[x].op # "attest" /\ req[x].capability = CapabilityId(req[w])

(* "settling makes read-after-write deterministic for the caller", and     *)
(* what examples/full-flow.ts checks step by step: a settled mint reads    *)
(* back active with the terms that were asked for.                         *)
MintReadsBack ==
  \A o, w \in Calls :
    /\ SettledBefore(w, o)
    /\ req[w].op = "mint" /\ req[o].op = "getCapability"
    /\ req[o].capability = CapabilityId(req[w])
    /\ \A x \in Calls \ {w} : ~Touches(x, w)
    =>
      /\ answer[o].status = "Active"
      /\ answer[o].maxSpend = req[w].maxSpend
      /\ CASE req[w].expiry[1] = "validUntil" -> answer[o].validUntil = req[w].expiry[2]
           [] req[w].expiry[1] = "ttlSeconds" ->
                answer[o].validUntil - req[w].time = req[w].expiry[2]
           [] OTHER -> TRUE

(* What MintReadsBack rests on: a mint is of an id that was not used up    *)
(* before the script began.                                                *)
FreshMints(scripts) ==
  \A script \in scripts : \A o \in DOMAIN script :
    script[o].op = "mint" => CapabilityId(script[o]) \notin DOMAIN Standing

(* ... a settled revocation reads back as revoked, for ever ...            *)
RevokeReadsBack ==
  \A o, w \in Calls :
    SettledBefore(w, o) /\ req[w].op = "revoke" /\ req[o].op = "getCapability"
      /\ req[o].capability = req[w].capability => answer[o].status = "Revoked"

(* ... and after a settled attestation every auditor, with whichever SDK   *)
(* and however the entries are ordered, verifies the same context, and     *)
(* gets the whole record: five queries cannot tear it any more.            *)
AttestReadsBack ==
  \A o, w \in Calls :
    SettledBefore(w, o) /\ req[w].op = "attest" /\ req[o].op = "verify"
      /\ req[o].target = w /\ SameContext(req[o].context, req[w].context) =>
      LET record == Latest.records[AttestedAs(req[w])]
      IN /\ answer[o].ok
         /\ answer[o].onChain = [exists |-> TRUE, contextHash |-> record.hash,
                                 version |-> record.version, verdict |-> record.verdict]

(* "If a byte changed, the hashes diverge and tampering is detected": a    *)
(* context that verifies was attested, under that capability and sequence  *)
(* number, and committed.                                                  *)
TamperEvident ==
  \A o \in Calls :
    outcome[o] = "answered" /\ req[o].op = "verify" /\ answer[o].ok =>
      \E w \in Calls :
        /\ req[w].op = "attest" /\ tx[w] = "committed"
        /\ SameContext(req[w].context, req[o].context)
        /\ req[w].capability = req[req[o].target].capability
        /\ req[w].seq = req[req[o].target].seq

(* What TamperEvident rests on, for the contexts in use: equal commitments *)
(* are of the same context, and none is the hash that reads as absent.     *)
FaithfulHash(scripts) ==
  \A script \in scripts :
    LET hashed == {o \in DOMAIN script : script[o].op \in {"attest", "verify"}}
        hash(o) == ContextHash(script[o].sdk, script[o].context)
    IN \A o, w \in hashed :
         /\ hash(o) # <<"zero">>
         /\ hash(w) = hash(o) => SameContext(script[w].context, script[o].context)

(* What AttestReadsBack rests on: all SDKs in use commit to equal contexts *)
(* alike.                                                                  *)
AgreeingHash(scripts) ==
  \A script \in scripts :
    LET hashed == {o \in DOMAIN script : script[o].op \in {"attest", "verify"}}
    IN \A o, w \in hashed :
         SameContext(script[o].context, script[w].context) =>
           ContextHash(script[o].sdk, script[o].context)
             = ContextHash(script[w].sdk, script[w].context)

(* Sequence numbers keep attestations apart: the verdict a settled attest  *)
(* reports is the committed one, unless the same decision was attested     *)
(* under the same number by another call.                                  *)
AttestBinds ==
  \A w \in Calls :
    outcome[w] = "settled" /\ req[w].op = "attest" =>
      \/ Latest.records[AttestedAs(req[w])].verdict = req[w].verdict
      \/ \E x \in Calls \ {w} :
           /\ req[x].op = "attest" /\ tx[x] = "committed"
           /\ SameContext(req[x].context, req[w].context)
           /\ req[x].capability = req[w].capability
           /\ req[x].seq = req[w].seq

(* "Capability-scoped ... so there is no cross-capability collision": a    *)
(* counterparty reads as allowed only where the principal allowed it.  The *)
(* contract keeps bare keys, so this rests on their derivation.            *)
AllowlistScoped ==
  \A o \in Calls :
    outcome[o] = "answered" /\ req[o].op = "isAllowed" /\ answer[o].allowed =>
      \E w \in Calls :
        /\ req[w].op = "allow" /\ tx[w] = "committed"
        /\ req[w].capability = req[o].capability
        /\ req[w].counterparty = req[o].counterparty

(* Every call that begins ends, whatever becomes of its transaction: again *)
(* and again there is a moment when none of the script's calls is running. *)
EveryCallEnds == []<>(\A o \in Calls : pc[o] \in {"idle", "done"})
=============================================================================
