# A verification of the Cinchor SDK

TLA+ models of the Cinchor SDK (TypeScript, with Go and Python ports), the TLC
runs that check them on small instances, and proofs that TLAPS checks for every
instance. Paths below are relative to the repository.

The SDK gives an agent a *capability* on a chain: a spend ceiling, an expiry,
an optional allowlist, revocable by its principal. `enforce` asks the contract
to record an action and reports the verdict. What makes it hard is that **a
receipt does not carry the contract's verdict**: every SDK infers it from reads
of the capability before and after the submission, the reads lag behind the
chain, and other transactions move the same counters.

## Inventory

| component | state it keeps | operations | what is hard | what makes it correct |
|---|---|---|---|---|
| TypeScript client, `src/client.ts` | none between calls; `before`, `after` and the receipt inside one | `enforce`, `attest`, `mintCapability`, `revoke`, `updatePolicy`, `allowCounterparty`, `verifyAttestation` | nine awaits in `enforce`, with the chain and other calls moving at each; time-outs that decide a verdict | a verdict never contradicts what is recorded; a denial rests on evidence; calls end |
| TypeScript registry, `src/capability-registry.ts` | the nonce cache, one number per signer | `sendSigned` and seven typed writes, getters, `getCapabilityState`, `getAttestation`, `pollReceipt` | cache read before an await and written after one; lost answers; duplicates; retry; torn multi-query reads | a call is submitted at most once, each on a nonce of its own, without gaps |
| TypeScript addresses, ids, hashing, configuration | none | encodings, SHA-256 pre-images, canonical JSON | equal bytes in three languages; what the canonical form drops | ids that keep capabilities, allowances and attestations apart; a commitment that changes with the decision |
| Go client, `go/client.go` | none; a worker freezes the options and baselines of an operation | `Prejudge`, `SubmitEnforce`, `ConfirmEnforce`, `EnforceAndConfirm`, and the same phases of mint and attest | state read before the receipt; confirmation by equality; resubmission after a crash; `int64` sums | as `enforce`, and exactly once across a crash |
| Go nonce manager, `go/nonce/manager.go` | per address: mutex, `seeded`, `next` | `Submit`, `reseed` | goroutines, failing seeds and sends, restarts, a node that hangs | nonces unique, increasing, without gaps; addresses independent |
| Go registry, ids, attestation | none | as TypeScript; returns on mempool acceptance | as above | as above |
| Python SDK, `py/src/cinchor` | none | as TypeScript, without the instant denial | the classification on a time-out | as above |
| contract and chain (external) | capabilities, mempool, blocks, one view per node | `record_action`, `mint_permission`, `update_policy`, `revoke_permission`, `add_allowed_counterparty`, `omne_getNonce` | inclusion at any time, lagging nodes | external |

How they interact: a client calls its registry; the registry sends JSON-RPC
queries (any node behind the endpoint may answer each) and signed transactions.
In TypeScript the nonce comes from the registry's cache, in Go from the nonce
manager, which every path of the gateway shares (`go/config.go`), in Python
from the base SDK. Clients of one capability interact only through the chain:
the counters `actionCount` and `totalSpent`, the limits, the status.

`PROJECT.json` lists the components with what is modelled of each, and the
hazards of the code at their lines with the properties that would catch them.

## Modules

| module | models |
|---|---|
| `Accountability` | codes, capability state, `prejudge` of the SDKs; the contract's `record_action` and the principal's operations (external) |
| `Substrate` | the chain as its clients see it (external): committed states as a `ledger`, the height each node shows, the fate of each submission, the principal's transactions |
| `StateReads` | `getCapabilityState` and the allowlist queries: one answer per field |
| `TsEnforce` | `CinchorClient.enforce`, several calls against one capability |
| `GoEnforce` | the Go phases of `enforce`, for a blocking caller and for a worker that crashes |
| `EnforcementPromise` | abstract: what `enforce` promises, without how; `TsEnforce` and `GoEnforce` implement it |
| `SendSigned` | `sendSigned`, `fetchNonce`, `submitOnce`, `pollReceipt`: the write path of the TypeScript registry for one signer |
| `NonceManager` | `Manager.Submit` and `reseed` of the Go SDK |
| `NonceAuthority` | abstract: what the nonce manager is for; `NonceManager` implements it |
| `Facade` | the rest of the facade in all three SDKs: mint, revoke, policy, allowlist, attest, and the audit reads |
| `CanonicalJson` | canonical JSON in each language, against a reference equality of contexts |
| `TsEnforceProofs`, `TsAllowedProofs`, `TsPrejudgeProofs` | theorems about `TsEnforce`: types and denials; `allowed` and the refinement; the instant denial |
| `GoEnforceProofs`, `SendSignedProofs`, `NonceManagerProofs`, `FacadeProofs` | theorems about those modules |
| `SubstrateProofs` | lemmas about the ledger and the contract, for both `enforce` modules |
| `MCTsEnforce`, `MCGoEnforce`, `MCSendSigned`, `MCNonceManager`, `MCFacade` | the values of the constants for TLC |

### TsEnforce

`TsEnforce` extends `StateReads`, which extends `Substrate`, which extends
`Accountability`. A call's `pc`
is the await it is at; everything between two awaits is one action.

| `pc` | code (`src/client.ts`) | actions out of it |
|---|---|---|
| `idle` | not called | `Enforce` |
| `reading` | `await getCapabilityState` (246) | `ReadBefore`: deny at once, go on, or, for an invisible capability, submit |
| `judging` | the allowlist queries of `prejudge` (311-316) | `JudgeAllowlist` |
| `sending` | `await recordAction` (257-264) | `SendAccepted`, `SendRejected`, `SendReplyLost` |
| `settling` | `settle` (267-271) and the classification (272-294) | `SettleAgain`, `SettleDone`, `SettleTimeout` |
| `rejudging` | the second `prejudge` (284) | `Rejudge` |
| `done` | returned or threw | |

`before` is the pre-state (it holds only the fields the code looks at); `since`
remembers what each node answered from when the current read began.
`getCapabilityState` is a `Promise.all` of one query per field, so a field's
value is taken from any height that some node showed between the beginning of
the read and its end, independently of the other fields (`CapabilityReads`).
`ReadFails` is a rejected query. The receipt poll inside `recordAction` decides
nothing and is part of `settling`. Time is abstract: a read that is not settled
may be the last one (`SettleTimeout`) or not (`SettleAgain`), and the caller's
`currentTime` is data of the action. Every submission is its own transaction;
duplicates are the subject of `SendSigned`.

The chain commits an action (`Include`) at any time after its submission, or
never, judging it against the last committed state; `Replicate` lets one node
catch up to any later height; a node never goes back. The principal's operations
are committed at any time, at most `MaxPrincipalOps` of them.

`Discipline` is what the application promises about overlapping calls.
README.md says that "classification assumes serial, single-signer use of a
capability (one in-flight action at a time)"; the disciplines make that precise:
`overlapping` (nothing), `awaited` (a call starts when no other runs), `settled`
(and none of the earlier ones threw), `quiet` (and nothing is in flight and all
nodes show the same). `awaited` alone is not the documented pattern: a call that
throws leaves its action in flight. With it TLC finds `AllowedSound` violated by
a second call that takes the first one's late record for its own (in
`ts_nodes.cfg`: one node, `Discipline = "awaited"`).

### GoEnforce

The Go SDK offers `enforce` in phases, and `GoEnforce` has one action per stretch
between two requests of a phase.

| `pc` | code (`go/client.go`) | actions out of it |
|---|---|---|
| `reading`, `judging` | `Prejudge` (the fields one after the other, then the allowlist) | `PrejudgeFields`, `JudgeAllowlist` |
| `submitting` | `SubmitEnforce` | `SubmitAccepted`, `SubmitUnheard`, `SubmitRejected` |
| `confirming` | `ConfirmEnforce`: the state | `ConfirmRead` |
| `receipt` | `ConfirmEnforce`: `TxReceipt`, and the fields of its refusal | `ReceiptFound`, `ReceiptUnknown` |
| `naming` | the allowlist queries of that refusal | `NameAllowlist` |
| `done` | returned | |

Reads are sequential here: two answers of one node do not go backwards
(`SequentialReads`). A call is either `EnforceAndConfirm` (`Blocking`: one
submission, a poll until `Deadline`, every error returned) or an operation of a
gateway worker. The worker is not in the repository. It is modelled from the
comments that define the phases for it (`go/client.go:179-186`, `:225-259`):
baseline, options, `ActionID` and transaction hash are persisted, each after the
step that yields it; after a crash or an error the worker starts with a
confirmation; it submits when it knows of no hash, and again when execution
failed. `Crash` and the two failures of a submission are where that goes wrong.
The contract deduplicates by `ActionID`, which the worker freezes and a blocking
call draws for each submission. `Int64` wraps the sum of the budget check.

`MayStart` is the single-writer rule of `go/client.go:226-232`; a call that ended
with an error frees nobody, as its transaction may be in flight.

### SendSigned

One signer, because the cache is a map by address and the entries do not
interact. `pc` again names the await: `seeding` (`fetchNonce`), `posting`
(`submitOnce` sent), `answered` (the answer arrived at the process and the
continuation has not run), `refetching`, `polling`. `Resume` is the continuation
after `submitOnce`: `Accepted` (`ok` and `duplicate`), `Failed`, `Stale`;
`Refetch` the one after the second `fetchNonce`: `Retry` or `GiveUp`. `Outside`
is another process that signs with the same key.

Three settings are chosen when a behaviour starts, so that one run has all
combinations: whether the node tracks nonces or is the devnet node that answers
0 for ever (`tracking`; both are described in the comment at
`src/capability-registry.ts:118-131`), whether the application awaits a write
before it makes the next (`serial`), and whether every answer arrives
(`reliable`). A property that needs one of them says so. The cache is only read
before one await and written after another, so the "client-side monotonic
counter" of that comment needs serial writes: without that condition TLC finds
`CacheMonotone` violated by an answer that arrives late and sets the counter
back, and `NonceUnique` by two writes that read the cache before either was
answered.

### NonceManager

One action per stretch between two blocking operations of `Submit`: queue for
the account's mutex, `Lock`, `Seed`, send, `Advance` and the deferred unlock.
`acctFor` holds the manager's own mutex for a map lookup only, so it is part of
the first step. `isNonceError` is the constant false it is in the code. A send
of an address in `Lossy` may fail after the mempool accepted, the node of one in
`Hung` may never answer, and the process may restart with an empty `Manager`,
with some of the sends on the wire arriving (`Restart`). `omne_getNonce` counts
included transactions, in any order, as the package comment says. `NonceUnique`
speaks of the transactions whose acceptance was heard of (`Heard`);
`NonceNeverReused` of all of them. `NoGap` speaks of lossy signers too, but only
until a restart (`GaplessUse`): where two transactions share a nonce, the count that a
restart seeds from is ahead of the nonces.

### Facade and CanonicalJson

`Facade` has everything else the client offers. A behaviour starts with a
*script*: a few calls with their arguments, the SDK each is made with, and the
calls its program awaits first. A write is sent (`SendAccepted`, `SendRejected`,
`SendReplyLost`), waits for a receipt except in Go (`Receipt`), and, when it is a
mint, a revocation or an attestation, polls until its effect shows or the window
ends (`SettleDone`, `SettleAgain`, `SettleTimeout`). The callers cannot tell the
last two apart, as `settle` returns its last read either way; the model's
`settled` and `timedOut` can, and the properties are about `settled`. Reads
(`getCapability`, `verifyAttestation`, `isCounterpartyAllowed`) take each field
from any height shown while the read ran. `ReadFails` is a failing query; Go's
`Revoke` drops it (`go/client.go:149`).

Ids are what goes into their pre-images, taken to be injective. The derivations,
the expiry rule and the arguments of each contract method are operators.
`hashDecisionContext` is a constant of `Facade`, given by `CanonicalJson` in the
instances: `norm` and the key order of each language on trees of contexts, with
the rank of a key by UTF-16 units, by code points, and as an array index as
constants. `Same` is the reference: two contexts are the same when they differ
in the order of their entries only. `MCFacade!FullFlow` is
`examples/full-flow.ts` without its `enforce` calls.

## Runs

All cfgs turn deadlock checking off: calls are made once and then the system
stops. Runs that expect a violation check one statement of the repository that the
code does not keep; they are listed with the quotation under `findings`.

| run | instance | checks | shows |
|---|---|---|---|
| `ts_serial` | 3 calls, 1 lagging node, `settled`, 2 principal operations (limits, revocation, allowlist) | `TypeOK`, `AllowedSound`, `DeniedNeverCommits`, `FastDenyFinal`, `NoDoomedTransaction`, `FastDenyJustified`, `KeepsPromise` | in the documented pattern verdicts and records never contradict each other, `prejudge` and the contract agree, and `enforce` implements `EnforcementPromise` |
| `ts_quiet` | 2 calls, 2 nodes, `quiet`, a mint in flight and another principal operation | `AllowedSound`, `VisibleDenyJustified`, `EveryCallEnds` | when calls start from agreement, reads torn between two nodes invent no allow, and no denial once the mint is visible; every call ends |
| `ts_nodes` | 2 calls, 2 nodes, `settled` | `AllowedSound` violated | one node behind is enough to take the previous action's record for one's own |
| `ts_unminted` | 1 call, the mint in flight | `DeniedNeverCommits` violated | `not_found` after the settle window, then both transactions land |
| `ts_torn_mint` | 1 call, 1 node, the mint in flight | `FastDenyJustified` violated | a read torn across the mint denies a fresh capability at once: status from after it, expiry zero from before |
| `go` | 1 worker and 1 blocking call, 1 lagging node, 4 initial capabilities (one not minted), 1 principal operation (mint, tighten, revoke) | `TypeOK`, `ExactlyOnce`, `AllowedSound`, `DeniedNeverCommits`, `NoDoomedTransaction`, `KeepsPromise`, `EveryCallEnds` | each action is charged once however often the worker crashes and submits; terminal verdicts are right; the port implements `EnforcementPromise` |
| `go_refused` | 1 worker, 2 nodes, no principal | `DeniedNeverCommits` violated | a confirmation judges the action against the budget that it has itself used |
| `send` | 3 writes (two with equal payload), every setting, 1 transaction from elsewhere | `TypeOK`, `AtMostOnce`, `OwnTransaction`, `NonceUnique`, `NoGap`, `CacheMonotone`, `EveryCallEnds` | no write is submitted twice whatever is lost; in serial use the counter keeps writes apart and the retry recovers |
| `nonce` | 4 submissions, 2 signers, 1 drained restart; one signer's node loses replies and may hang | `TypeOK`, `NonceUnique`, `SucceededUnique`, `NoGap`, `IsAuthority`, `DistinctParallel` | nonces are unique and grow across the restart, none is skipped, and addresses are independent |
| `nonce_lost_reply` | 2 submissions of a lossy signer | `NonceNeverReused` violated | a failed submission can have consumed its nonce |
| `facade` | 12 scripts of 2 to 7 calls on three SDKs, 1 lagging node | `TypeOK`, `MintReadsBack`, `RevokeReadsBack`, `AttestReadsBack`, `TamperEvident`, `AttestBinds`, `AllowlistScoped`, `EveryCallEnds` | what has settled reads back whoever reads it, only what was attested verifies, and ids keep attestations and allowances apart |
| `json_ports` | a context with index keys or astral characters, attested in TypeScript | `AttestReadsBack` violated | Go and Python fail to verify it |

Bounds, all in the cfgs. Two calls are what it takes for one to disturb another;
`ts_serial` has a third, so that a call starts after a call that itself started
late. Two nodes are what it takes to tear a read across nodes. Amounts 1 and 2
against ceilings of 1 to 3 give spends that fit exactly, fit once and do not
fit; times 0 and 1 give a policy that is just not and just expired. Two principal
operations put one change on each side of a read, or a mint and a change after
it. In `go`, `MaxAttempts` 2 is a submission and a resubmission, `MaxFaults` 2 a
crash and another one while recovering from it, and `MaxInt` 3 makes a second
action of 2 overflow; the model does not spend a worker's last attempt on a
failure, so that the bound is not what stops an operation. A restart and four
submissions let a nonce be seeded, used, seeded again and used. The facade's
scripts put next to each other the calls that touch the same id, and the
example's order; contexts nest an object in an array in an object. Symmetry is
used for calls, in `ts_serial` only, whose temporal properties do not tell calls
apart and have no fairness.

Fairness. `ts_quiet` assumes that a call whose query was answered goes on, and
that `settle` comes to an end (its loop has a deadline): weak fairness of the
legs of a call. Nothing is assumed of blocks, nodes or the principal. `send` and
`facade` assume the same, and that a request is answered or fails. None of this
is enforced by the code: `fetch` has no timeout (`rpc`, `submitOnce`), so that
the real guarantee is that of the transport. `nonce` assumes running goroutines,
answered sends except for the addresses in `Hung`, and strong fairness of `Lock`:
Go's `sync.Mutex` hands over to the longest waiter once it has waited a
millisecond. `go` assumes that callers go on, that a transaction in a mempool is
executed or fails in the end and that the node catches up (a worker has no deadline, so
its end depends on the chain), and strong fairness of the deadline of a
blocking call, which passes in one of infinitely many polls.

Each property has a mutation in the modules (`X_What` beside `X`), a plausible
bug that the same run detects; `PROJECT.json` lists them. `NoDelta_Denies` is
what the Python SDK does (`py/src/cinchor/client.py:132`).

### Remarks

What the models show besides, and where to look.

* Absence can be a fast-deny (`ts_torn_mint`). `enforce` rules absence out by the
  status and refuses by the other fields, which come from other queries; all of
  them read zero before the mint. `FastDenyJustified` demands evidence at a
  minted height and fails in `ts_quiet.cfg` too; `VisibleDenyJustified`, which
  `ts_quiet` checks, leaves out the reads that straddle the mint. The Go SDK asks
  for the status first, so that one node cannot tear its read in this way.
* With `Discipline = "awaited"`, two calls, `TightCapability` and only
  `updatePolicy` in `ts_serial.cfg`, `FastDenyJustified` fails. The ceiling of one
  state and the spend of another deny an action that no committed state denies;
  the caller sees a denial that was never true.
* `FastDenyFinal` holds while the policy is unchanged. Raising a limit outdates
  an over-budget denial, which neither `src/client.ts:235` ("spend only grows,
  expiry and revocation are monotonic") nor `go/client.go:194` ("authoritative
  and final") counts on. For the same reason `go` has a principal who only
  tightens: with a limit raised again after it was lowered, one node is enough for
  a false `ConfirmRefused`.
* `enforce` never returns code 6, unauthorized: `prejudge` does not compare the
  caller with the agent, and a refusal on chain shows as "still settling".
* A Go worker whose refusal cannot be named (executed before its mint, or with an
  overflowing sum) polls for ever. `EveryCallEnds` excludes it by `Unnameable`.
* With `Nodes = {n1, n2}` in `facade.cfg`, `MintReadsBack`, `RevokeReadsBack` and
  `AttestReadsBack` fail: the poll saw one node and the read asks another.
  `src/client.ts:41-43` says that settling "makes read-after-write deterministic
  for the caller", which holds for one node.
* A second attestation of the same capability, decision and sequence number is
  refused by the chain, settles on the first one's record, and returns the verdict it
  was called with. `AttestBinds` excepts it. The policy version of a record
  is that of its commit, not of the decision (`src/attestation.ts:6`).
* `canonicalJson` in TypeScript turns every `Date` (`Map`, `Set`) into `{}`
  (`src/attestation.ts:24`): with `Scripts <- DateScripts` and `TamperEvident` alone in
  `facade.cfg`, a context with another date verifies although it was never
  attested, against `src/attestation.ts:9` ("If a byte changed, the hashes diverge and
  tampering is detected").
* `verifyAttestation` during an attestation in flight may answer
  `exists` without `ok`: the five queries straddle the commit.
* The hash of a record that does not exist reads as the all-zero address in
  TypeScript, as `parseAddressReturn('0')` pads it.
* Go mints without an expiry with a TTL of zero, where TypeScript throws.

## Proofs

Checked by `tlapm`, for all values of the constants. Every safety property and
action property that a passing run checks is stated by a theorem, and both
refinements.

Assumptions. Each module assumes the types of its constants, named, and TLC
evaluates these for every run. `SubstrateAssumption` says besides that amounts are
not negative and that a capability which is not minted is blank.
`FacadeAssumption` types the arguments of the calls. What a theorem assumes beyond that is
in its statement:

| assumption | module | meaning | why |
|---|---|---|---|
| `Visible` | `TsEnforceProofs` | the capability is committed from the start | `ts_unminted` and `ts_torn_mint` show that it is needed |
| `Serial` | `TsAllowedProofs` | the documented pattern: discipline `settled`, one node, `Visible` | `ts_nodes` shows that one node is needed; the discipline is the one of README.md |
| `AllBound` | `TsPrejudgeProofs`, `GoEnforceProofs` | actions are signed by the bound agent | `prejudge` does not look at the signer, the contract does |
| `OneNode` | `GoEnforceProofs`, `FacadeProofs` | one node answers all queries | `go_refused`, and the remark on two nodes in `facade.cfg` |
| `Tightens` | `GoEnforceProofs` | the principal changes the policy only to refuse more, an action formula in the antecedent | with a limit that is raised again `ConfirmRefused` may be wrong, see the remarks |
| `Fresh` | `GoEnforceProofs` | no record on the capability before the calls begin | `ExactlyOnce` counts from zero |
| `Reliable` | `NonceManagerProofs` | a restart waits until what was sent is committed | without it `NonceUnique` fails in `nonce.cfg` |
| `FaithfulHash` | `Facade` | contexts with equal commitments are the same, none commits to the all-zero address | dates make it false, see the remarks |
| `AgreeingHash` | `Facade` | the SDKs in use commit to equal contexts alike | `json_ports` shows contexts for which it is false |
| `FreshMints` | `Facade` | minted ids are not in use before the script | a refused mint settles on the other capability |

TLC evaluates the last three for the scripts of `facade` (`MCFacade!ScriptAssumption`),
so that a mistake in the key order of `CanonicalJson` shows as a false assumption.

### enforce in TypeScript

* `TsEnforceProofs!TypeCorrect`: `TypeOK`, which says that a call has an
  outcome exactly when it is done. One lemma per kind of step.
* `TsEnforceProofs!DenialsHold`: `DeniedNeverCommits`, for any discipline, any
  overlap, any number of nodes and any behaviour of the principal, assuming
  `Visible`. The invariant `DInv`
  adds that every height has a minted state (`MintedSince`), so that no call
  past its first read has seen it absent and none rejudges (`SeenMinted`), that
  a call that has not sent has no fate (`UnsentUntilSend`), and hence that a
  denied call sent nothing (`DeniedUnsent`).
* `TsAllowedProofs!AllowedHolds`: `AllowedSound` under `Serial`. It is far from
  inductive: what makes a delta one's own is that the pre-state was current.
  `AInv` adds that
  counts only grow along the ledger, that one call runs at a time and none after
  a throw, that between calls the node shows the committed count (`CaughtUp`,
  because the previous `allowed` rests on having seen it), and that while a call
  runs the committed count is its baseline plus its own record (`Baseline`).
* `TsAllowedProofs!ImplementsPromise`: `KeepsPromise`, the refinement of
  `EnforcementPromise`, from `AInv` and `DInv`: an inclusion is the promise's
  `Record` or a stutter, a return its `ReturnAllowed`, `ReturnDenied` or `GiveUp`.
* `TsPrejudgeProofs!FastDenialsStand`: `FastDenyFinal`, with no assumption (a mint
  during the run is a change of the policy, which the property excepts). The
  fields that refused were committed at some heights (`Grounds`), and spending,
  revocation and the enabled allowlist only go one way along the ledger.
* `TsPrejudgeProofs!FastDenialsJustified` and `NothingDoomed`:
  `FastDenyJustified` under `Serial`, `NoDoomedTransaction` under `Serial` and
  `AllBound`. In the documented pattern a call sees the committed
  count and therefore the committed spending (`TotalsFollowCounts`), and nobody else
  spends until its own record; `MintedSince` gives the minted height.
* `TsPrejudgeProofs!VisibleDenialsJustified`: `VisibleDenyJustified` for any number of
  nodes under the discipline `quiet`. While a call reads, no other runs and nothing
  is in flight (`ReadsAlone`), so that every height it may be served from has the
  committed spending (`SpendingStands`); what is minted keeps its allowlist
  (`AllowlistLasts`).

### enforce in Go

* `GoEnforceProofs!TypeCorrect`: `TypeOK`.
* `GoEnforceProofs!ChargedOnce`: `ExactlyOnce`, for any nodes, faults and
  behaviour of the principal, assuming `Fresh`. A worker's submissions share one
  `ActionID` and a blocking call submits once (`KeyedOnce`); the contract's total is a
  fold over the recorded calls, whose unfolding is proved from the
  well-foundedness of finite sets.
* `AllowedRecorded`, `DeniedForGood`, `ImplementsPromise`: `AllowedSound`,
  `DeniedNeverCommits` and `KeepsPromise`, assuming `OneNode`, for behaviours that
  satisfy `[][Tightens]_vars`. In `GInv` the running operation
  is the only writer (`OneAtATime`), because what was denied before it stays refused
  (`DeniedBarred`): a transaction that a crash left in a mempool may be
  included at any time, and is refused then. The committed count is therefore the
  baseline plus the running operation's own record (`Baseline`), which is the
  reason why a delta is the operation's own.
* `NothingDoomed`: `NoDoomedTransaction`, assuming `OneNode` and `AllBound`. While
  the principal does nothing an action that got past `prejudge` fits until it is
  recorded (`Fitting`).

### Nonces

* `SendSignedProofs`: `TypeOK`, `AtMostOnce` and `NoGap` whatever calls overlap
  and whatever is lost; `CacheMonotone` (an action property) and `OwnTransaction`
  for serial writes; `NonceUnique` for serial writes whose answers arrive. The
  properties themselves name these settings. The invariants build on
  each other: where a call stands when the node holds its transaction (`SInv`),
  the nonces below which a gap could open (`GInv`), the cache against the nonces
  signed so far (`CInv`), and that a returned call's transaction is its
  own (`OInv`) and alone at its nonce (`NInv`).
* `NonceManagerProofs!TypeCorrect`, with the ownership of the mutexes;
  `NoncesUnique`, `SucceededApart`, `NoNonceSkipped` and `ImplementsAuthority`
  (`NonceUnique`, `SucceededUnique`, `NoGap`, `IsAuthority`), assuming
  `Reliable`. `IInv` adds that
  a transaction in the mempool belongs to a call that got that far, one per call,
  that an account is seeded before it sends, and that accepted nonces are below
  the counter, strictly unless the holder of the mutex is about to advance it, or,
  while the account is unseeded, below the committed nonce. `nonce_lost_reply`
  shows that more cannot be had for lossy signers.

### The facade

* `FacadeProofs!TypeCorrect`: `TypeOK`, of the committed states as well as the
  calls.
* `AllowancesScoped` and `TamperingShows`: `AllowlistScoped` and `TamperEvident`
  for any scripts, any number of nodes and any behaviour of the chain, the first
  without an assumption, the second assuming `FaithfulHash`. `OriginInv` says where what is on
  the ledger comes from: each key was allowed, and each record attested, by a
  committed call of the script, and a read only sees states of the ledger.
* `AttestationsBind`: `AttestBinds` for any number of nodes, assuming
  `FaithfulHash`. `FInv` adds that the ledger takes nothing back
  (`LedgerKeeps`), so that what a settled write saw is committed for good
  (`SettledCommitted`), and that a record carries the verdict of the call that
  attested it (`VerdictOrigin`).
* `RevocationsReadBack`, `AttestationsReadBack`, `MintsReadBack`: the
  read-after-write that `settle` is there for, assuming `OneNode`, the second
  also `AgreeingHash`, the third `FreshMints`. In `OneInv` the node shows what has
  settled (`SettledShown`), and so does every height that a read which began
  afterwards spans (`ReadsAfter`); a mint that no other call touches is on every height
  as it was asked for (`MintsTheirs`).

### Only model-checked

* Liveness: `EveryCallEnds` of all modules and `DistinctParallel`. TLAPS proves
  nothing about fairness here.
* `AllowedSound` under the discipline `quiet` with several nodes (`ts_quiet`): the
  theorem is about one node.
* `CanonicalJson`, whose operators are recursive: what the proofs need of it is
  `FaithfulHash` and `AgreeingHash`, which TLC evaluates for the contexts in use.

## Not modelled

* Bytes: bech32m and SHA-256, wire encodings, gas, the contents of receipts,
  number and string formatting in canonical JSON (`undefined` members, exponents,
  U+2028), configuration, exports.
* The fields `enforce` does not look at (principal, agent, `createdAt`,
  `revokedAt`) and the single getters on their own.
* `enforce` in Python: its legs are those of TypeScript without the instant
  denial, and its conclusion on a time-out appears as the mutation
  `NoDelta_Denies`, which breaks `DeniedNeverCommits` and `KeepsPromise`.
* The `Prepare`, `Submit` and `Confirm` phases of the Go mint and attest as
  separate actions: in `Facade` they are one blocking call.
* The contract is not in the repository. `ContractRefuses` has the conditions that
  the SDKs attribute to it, in the precedence of the codes; a contract that judged
  differently would not be covered.
* 64-bit overflow outside `prejudge` of the Go SDK (TypeScript computes with
  `bigint`).

## Plan

What is left, in this order:

1. Proofs: `AllowedSound` for any number of nodes under the discipline `quiet`,
   where all nodes agree whenever a call begins.
2. `PyEnforce` on `StateReads`, and the worker's phases of mint and attest.
