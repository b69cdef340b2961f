------------------------------ MODULE MCFacade ------------------------------
(***************************************************************************)
(* Instances of Facade for TLC: scripts and decision contexts.             *)
(***************************************************************************)
EXTENDS Facade, CanonicalJson

CONSTANTS n1, n2

-----------------------------------------------------------------------------
(* Keys: five words, two array indices, and two characters whose order by  *)
(* UTF-16 (surrogates first) is not that by code point.                    *)
MCUtf16 == [k \in {"10", "9", "at", "claim", "input", "output", "U+1F600", "U+FF61"} |->
  CASE k = "10" -> 1 [] k = "9" -> 2 [] k = "at" -> 3 [] k = "claim" -> 4
    [] k = "input" -> 5 [] k = "output" -> 6 [] k = "U+1F600" -> 7 [] k = "U+FF61" -> 8]
MCCodePoint == [MCUtf16 EXCEPT !["U+1F600"] = 8, !["U+FF61"] = 7]
MCArrayIndex == "9" :> 9 @@ "10" :> 10

Atom(a) == <<"atom", a>>
Entry(k, v) == <<k, v>>
Two(k, v, l, w) == <<"object", <<Entry(k, Atom(v)), Entry(l, Atom(w))>>>>
Dated(t) == <<"object", <<Entry("at", <<"date", t>>)>>>>
Input(a, b) == <<"array", <<Atom(a), Two("output", b, "at", "1")>>>>

(* The contexts, by name: a decision, the same written in another order,   *)
(* and a tampered one; keys whose order the SDKs do not agree on; dates.   *)
Contexts ==
  [ decision  |-> <<"object", <<Entry("output", Atom("approve")), Entry("input", Input("A", "B"))>>>>,
    rewritten |-> <<"object", <<Entry("input", <<"array", <<Atom("A"),
                      Two("at", "1", "output", "B")>>>>), Entry("output", Atom("approve"))>>>>,
    tampered  |-> <<"object", <<Entry("output", Atom("approve")), Entry("input", Input("A", "C"))>>>>,
    indices   |-> Two("9", "x", "10", "y"),
    astral    |-> Two("U+FF61", "x", "U+1F600", "y"),
    monday    |-> Dated("monday"),
    tuesday   |-> Dated("tuesday") ]

Commitments == {"ts", "go", "py"} \X DOMAIN Contexts
Commit(c) == HashDecisionContext(c[1], Contexts[c[2]])

(* Equal commitments are one value: some context and SDK that hash to it.  *)
HashTable == [c \in Commitments |-> CHOOSE d \in Commitments : Commit(d) = Commit(c)]
SameTable == [c, d \in DOMAIN Contexts |-> Same(Contexts[c], Contexts[d])]

MCContextHash(sdk, name) == HashTable[sdk, name]
MCSameContext(c, d) == SameTable[c, d]

-----------------------------------------------------------------------------
MintOf(nonce, expiry, maxSpend, sdk) ==
  [op |-> "mint", principal |-> "P", agent |-> "A", nonce |-> nonce, time |-> 1,
   expiry |-> expiry, maxSpend |-> maxSpend, sdk |-> sdk, after |-> {}]
Mint1 == MintOf(1, <<"ttlSeconds", 2>>, 1, "ts")

Cap1 == CapabilityId(Mint1)
Cap2 == <<"capability", "P", "B", 0, 0>>
Standing2 == Cap2 :> [status |-> "Active", version |-> 1, maxSpend |-> 1, validUntil |-> 5]

Get(cap, after) == [op |-> "getCapability", capability |-> cap, sdk |-> "ts", after |-> after]
RevokeOf(cap, sdk, after) == [op |-> "revoke", capability |-> cap, sdk |-> sdk, after |-> after]
Policy(cap, maxSpend) ==
  [op |-> "updatePolicy", capability |-> cap, maxSpend |-> maxSpend, validUntil |-> 7,
   sdk |-> "ts", after |-> {}]
AllowOf(cap, cp) ==
  [op |-> "allow", capability |-> cap, counterparty |-> cp, sdk |-> "ts", after |-> {}]
Ask(cap, cp) ==
  [op |-> "isAllowed", capability |-> cap, counterparty |-> cp, sdk |-> "ts", after |-> {}]
Attest(cap, context, seq, verdict, sdk, after) ==
  [op |-> "attest", capability |-> cap, context |-> context, seq |-> seq,
   verdict |-> verdict, sdk |-> sdk, after |-> after]
Verify(target, context, sdk, after) ==
  [op |-> "verify", target |-> target, context |-> context, sdk |-> sdk, after |-> after]

(* examples/full-flow.ts without its enforce calls, in three parts: every  *)
(* call is awaited before the next.                                        *)
ExampleMint == <<Mint1, Get(Cap1, {1})>>
ExampleAttest ==
  <<Attest(Cap1, "decision", 0, Verdict.InPolicy, "ts", {2}),
    Verify(3, "decision", "ts", {3}), Verify(3, "tampered", "ts", {4})>>
ExampleRevoke == <<RevokeOf(Cap1, "ts", {5}), Get(Cap1, {6})>>
FullFlow == ExampleMint \o ExampleAttest \o ExampleRevoke

(* Two mints of one principal in the same second, or one of them again; in *)
(* Go a mint without an expiry is one.                                     *)
MintScripts ==
  {<<Mint1, MintOf(2, <<"validUntil", 1>>, 2, "py"), Get(Cap1, {1})>>,
   <<Mint1, MintOf(1, <<"validUntil", 1>>, 2, "ts"), Get(Cap1, {1})>>,
   <<MintOf(2, <<"neither", 0>>, 2, "go"), MintOf(2, <<"neither", 0>>, 2, "ts")>>}

(* Revocations and policy updates of a standing capability, and a read.    *)
RevokeScripts ==
  {<<RevokeOf(Cap2, sdk, {}), Policy(Cap2, 2), Get(Cap2, {})>> : sdk \in {"ts", "go"}}

(* Counterparties of two capabilities; one address does not decode.        *)
AllowScripts ==
  {<<AllowOf(Cap2, "bad"), AllowOf(Cap2, "shop"), Ask(Cap2, "shop")>>,
   <<Mint1, [AllowOf(Cap1, "shop") EXCEPT !.after = {1}], Ask(Cap2, "shop")>>}

(* Attestations of one decision, under the same number or the next; an     *)
(* auditor, who may come too early; and a principal who changes policy.    *)
AttestScripts ==
  {<<Attest(Cap2, "decision", 0, Verdict.InPolicy, "ts", {}),
     Attest(Cap2, "rewritten", seq, Verdict.OutOfPolicy, "go", {}),
     Verify(1, "rewritten", "py", {1})>> : seq \in {0, 1}}
    \cup {<<Attest(Cap2, "decision", 0, Verdict.InPolicy, "ts", {}), Policy(Cap2, 2),
            Verify(1, audited, "py", {})>> : audited \in {"rewritten", "tampered"}}

AllScripts == {FullFlow} \cup MintScripts \cup RevokeScripts \cup AllowScripts \cup AttestScripts

ASSUME ScriptAssumption ==
  FaithfulHash(AllScripts) /\ AgreeingHash(AllScripts) /\ FreshMints(AllScripts)

(* An attestation that another SDK verifies, or with another date.        *)
PortScripts ==
  {<<Attest(Cap2, name, 0, Verdict.InPolicy, "ts", {}), Verify(1, name, sdk, {1})>> :
     name \in {"indices", "astral"}, sdk \in {"go", "py"}}
DateScripts ==
  {<<Attest(Cap2, "monday", 0, Verdict.InPolicy, "ts", {}), Verify(1, "tuesday", "ts", {})>>}
=============================================================================
