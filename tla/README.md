# A TLA+ model of the covenant emulator

The covenant emulator is the daemon a Babylon covenant committee member runs.
It polls the Babylon chain for pending BTC delegations, checks them, has them
signed by a separate signer service and submits the signatures in batches.
This directory holds TLA+ modules that model that system, TLC configurations
that check them on small instances, and proofs checked by TLAPS.

## The system

| Part | State | Operations | Talks to |
|---|---|---|---|
| Submission loop (`covenant/covenant.go`) | current round: delegations, batch, collected signatures; `quit` | ticker round, `AddCovenantSignatures`, `Start`, `Stop`, `CheckReadiness` | controller, signer, parameter cache |
| Parameter cache (`covenant/cache_params.go`) | parameters by version, never dropped | `Get` with retries | controller |
| Babylon controller (`clientcontroller/babylon.go`) | none of its own; one call's page key, accepted delegations, messages left | `QueryPendingDelegations`, `QueryBTCDelegation`, `QueryStakingParamsByVersion`, `SubmitCovenantSigs` | the chain |
| Babylon chain (external) | delegations, signatures, mempool | delegations appear, expire, collect signatures; transactions are included, refused or lost | the committee |
| Remote signer client (`remotesigner`, `signerservice/client.go`) | none | one HTTP call per delegation, HMAC, timeout | signer service |
| Signer service (`covenant-signer`) | the unlocked key, its mutex, counters, unlock gauge | sign, public key, unlock, lock; one goroutine per request | keyring |
| Process (`cmd/covd/start.go`, `covenant/service`) | where the main goroutine stands, the Prometheus server, both loops, running `/health` handlers | start, signal, the two stops, `CheckReadiness` | signer, submission loop |
| Emulator metrics (`covenant/metrics.go`) | two counters, a gauge, three times | recorded by the submission loop, exported by the metrics loop | submission loop |
| Configuration and home directory (`config`, `cmd/covd`, `keyring`) | configuration file, keyring | `init`, `create-key`, `show-key`, `LoadConfig` | the operator |
| Signer process (`covenant-signer/cmd`, `config`, `keyutils`) | configuration file, two listeners | `dump-cfg`, `start`, `derive-child-key` | the operator, the daemon's ports |

What is hard here: the chain changes while a page is filtered and while a
batch is signed; a transaction may be included after its submission was
reported as failed; the daemon crashes or panics between signing and
submitting; one refused message makes the rest be sent again; handlers of the
signer use a key another handler is erasing; the shutdown waits for a loop
that is in the middle of a round; a health check that is waiting for the signer
meets the shutdown; a client gives up on a call the signer goes on with; a
command is killed while it rewrites the configuration file; two processes want
the same port. `PROJECT.json` lists these hazards with the
line where each bites and the properties that cover it.

What makes each part right:

- the query misses nothing that was pending all the while and returns nothing
  that was already signed (`QueryComplete`, `QuerySound`);
- the rules let this member's signature appear on deserving delegations only
  (`SignsOnlyDeserved`);
- a batch is not thrown away in the middle (`CacheCoversBatch`), only messages
  refused for good are dropped (`DroppedOnlyIfRefused`), success means there is
  nothing left to do (`SuccessMeansSettled`);
- a deserving delegation is signed in the end, and the daemon can be stopped
  (`EventuallySigned`, `StopCompletes`);
- as a whole, daemon and chain implement the abstract member (`MemberSpec`);
- the signer's key does not outlive `Lock` (`LockErases`), one response uses
  one key (`HeldIsCurrentOrErased`), the counters account for every request but
  those whose handler panics on an index out of range (`CountersBalance`), and
  every handler ends (`EveryRequestAnswered`);
- a signing call returns what the caller may rely on, whatever is lost, late or
  restarted (`OracleSpec`), and the operator's calls have taken effect when they
  return (`OperatorCallsTakeEffect`);
- no conversion exchanges two fields (`MessageMatchesRequest`) and both ends
  agree on what is complete (`CompleteRequestsPass`);
- the process ends after a signal (`ShutdownCompletes`), clean (`CleanExit`), and
  calls itself healthy at no time after it began to stop the emulator
  (`HealthyOnlyBeforeQuit`);
- the counters account for every signature (`CountersCoverSignatures`) and the
  metrics loop gets its times (`SubmissionCompletesTimer`);
- the configuration names keys that exist (`NamedKeyExists`), a running daemon
  has an account and a signer (`StartedIsConfigured`), signer and daemon come up
  next to each other exactly if their ports differ (`BothComeUp`), no two derivation paths give one key
  (`DistinctPathsDistinctKeys`).

## Modules

```
CovenantRules            pure checks on one delegation
  BabylonChain           the chain (external)
    PendingQuery         QueryPendingDelegations with the filter
      QueryContract      ... with a history of the chain, on its own
        QueryContractProofs
    BatchSubmission      SubmitCovenantSigs
      CovenantEmulator   the daemon (extends PendingQuery and BatchSubmission)
        EmulatorMetrics  ... with its counters and times
        CovenantEmulatorProofs
          CovenantRefinementProofs
          SubmissionProofs (extends EmulatorMetrics too)
CovenantMember           abstract specification of one committee member
SignerService            the signer
  SignerServiceProofs
SigningOracle            abstract specification of a call of the signer
SigningCall              the calls from both ends (an instance of SignerService)
WireFormat               the conversions of a request and its response
  SigningCallProofs      (extends both)
Configuration            parsing and validation of the daemon's configuration
  Lifecycle              the daemon's process
    LifecycleProofs
CovdHome                 home directory and commands of the daemon
KeyDerivation            derivation paths
  OperatorProofs         (extends both)
SignerProcess            the signer's process next to the daemon's
MCRules, MCEmulator, MCMetrics, MCQuery, MCSigner, MCCall, MCLifecycle,
MCOperator               instances for TLC
```

**CovenantRules.** `Info[d]` is the immutable part of a delegation. Bitcoin
transactions and scripts are reduced to the verdict of the check the code runs
on them (one BOOLEAN each, named after the function: `DecodeDelegationTransactions`,
`PkScriptPaths`, ...); times, amounts, fees, versions, committees and quorums
keep their values, and the uint16 bounds of staking times are kept. `ReachesSigner`
is the chain of `continue`s of `AddCovenantSignatures`; `Panics` is
`GetStakingTime`'s panic, reached by the delegation itself in step 4 or by its
previous delegation in step 9. `Deserves` states what the committee wants
without the code's order of checks and is not translated from the code.
The response's three signature lists are one set, because the chain extends
them together.

**BabylonChain.** `status[d]`, `sigs[d]` and `mempool`, the transactions of
unknown fate. A transaction of `MsgAddCovenantSigs` is atomic and an error names
the first failing message, which is what `FailedMessageIndex` relies on.

**PendingQuery.** One step per remote answer and per delegation filtered. The
page is a snapshot; the chain moves between any two steps. Key 0 is the nil key,
so the wrap-around after a full last page is in the model. The filter's calls
read data that never changes on chain, so they are part of the filter's step;
each may fail, and a failure gives up the whole query, as in the code.

**BatchSubmission.** `attempts` counts down what the code counts up to
`BatchRetries`. `SendUnconfirmed` is the client library's broadcast without an
answer; any later answer of the same call may follow, and `LandLate` may include
the transaction at any time. `dupSeen` is the part of the joined error the code
looks at.

**CovenantEmulator.** `phase` is the program counter of the submission loop
(`idle`, `fetch`, `filter`, `batch`, `sign`, `send`, `exited`, `down`). `dels`
is the list of delegations not yet handled and `left` how many of them belong to
the current batch, which is what `delegationsToBatches` computes. One step
handles one delegation of a batch: `SkipDelegation`, `SignFails`,
`SignDelegation`. `Crash` and `Panic` lose everything but the chain.

**SignerService.** One record of `pc`, `held`, `todo` per request, since handlers
are goroutines. The retriever's mutex is only visible across steps while `Lock`
is zeroing the key. A key object is named after the unlock request that loaded
it. Signing with an intact key gives a good signature or an error; reading a key
that is being zeroed is a data race, and may give a bad one too.
`SignDelegation(s, FALSE)` is the daemon's view of a bad one. `BadIndex` are the
requests for an expansion whose index is not one of an output of the previous
transaction: `stkExpSig` uses it unchecked (`signer.go:167`) and `Panics`;
`net/http` recovers, the connection is closed, and a request counted as received
is counted as neither succeeded nor failed. `LockErases` is about the key
objects; the bytes `Unlock` reads from the keyring are never zeroed.

**CovenantMember.** Abstract: `state` and `signed`. A member adds its signature
to open, deserving delegations it has not signed yet, any number at once, and
never takes one back. The refinement maps `status` to `state` and
`{d : Own \in sigs[d]}` to `signed`.

**EmulatorMetrics.** Every step of `CovenantEmulator` with what the code records
in it. Of a time only matters whether it was recorded. `MaxRounds` bounds the
counters through the ticker.

**SigningCall, SigningOracle.** `call` and `result` are the client's side of a
request of `SignerService`; `lost` are exchanges the connection drops, `Timeout`
and `ConnectionFails` return to a caller while the handler goes on, `Restart`
kills the signer with everything in its memory. `Program` is the daemon's
order of calls: the health check and the public key at the start, each of which
must succeed, then signing. `deployment` is the HMAC keys of the callers and of
the signer and the bodies within its limit; the middlewares refuse the rest.
`seen` is a history of the signer's states during
each call. `SigningOracle` says what is left of all this for the emulator, and
is what the steps `SignFails` and `SignDelegation` of `CovenantEmulator` rely
on: a call may fail at any time, succeeds only if the signer was unlocked
during it, and gives bad signatures only if a key was erased during it. A
public key read in such a moment is kept by the daemon for its life
(`covenant.go:60`); `DaemonMayCall` has it sign nothing then.

**WireFormat.** One request on its way through the emulator's structure, the
client's, the JSON body, the handler's, the signatures, the JSON answer and
back into the message for the chain. A transaction, script or key is a model
value, its text is `Text(x)`; an undecodable text is `Junk`, an empty one
`Empty`, and a signature is the record of what was signed for whom. The fields
keep the names of the structures, so a copy of the wrong one shows.

**Configuration, Lifecycle.** A file maps entries to values or to `Absent`; the
entries are those a check or a goroutine looks at. `LoadConfig` starts from
zero values, not from the defaults. `main` is the main goroutine from loading
the configuration to the end of the process; the deferred stops run in the
code's order, Prometheus server first. Its shutdown lets nobody in but waits for
the connections it had accepted: a request whose header arrives during it is
still served, and one whose header does not is cut off by `ReadHeaderTimeout`. A
round takes any time, whether it finds delegations or not; one with an empty
batch size never ends.

**CovdHome.** The configuration file is written in place by `init` and
`create-key`, so it is modelled as a sequence of parts and a killed command
leaves a prefix. The first part ends with the metrics host: a file cut before it
is refused, one cut after it is accepted and leaves the rest at zero. The daemon keeps what it read when it started.

**SignerProcess.** The signer's file is read over the defaults. Both metrics
servers have port 2112 by default, bind it in a goroutine and end the process
if it is taken; an address is a port, as all have the same IP. A fresh signer is
locked; the operator unlocks it, which needs a key of the configured name, before
the daemon is started (`docs/covenant-emulator-setup.md:33`): the daemon's health
check and then `NewEmulator` ask for the public key, and a locked signer has
none.

**KeyDerivation.** The runs of `derive-child-key` and the indexes they gave. An
element is the number its text stands for and the postfix; leading zeros are
one path. That different indexes give different keys is BIP32's business.

MCCall and MCOperator check components that share no variables in one run: one
component moves while the others are still where they began, so the states are
those of each component, not their product.

Definitions marked *Mutant* are plausible mistakes in the definition that
follows them. No specification uses them; `PROJECT.json` names, for every
property of a passing run, the one that makes TLC report it.

## Runs

| Run | Instance | Shows |
|---|---|---|
| Eligibility | 4 delegations of different merit, pages of 1, limit 2, batches of 1, 1 crash | only deserved delegations are signed, the cache covers the batch, the refinement of `CovenantMember` |
| Submission | 2 signable delegations (one expands the other), one batch, 1 transaction in flight, 1 crash, 2 rounds | the resending loop and the metrics it records |
| Liveness | 1 invalid and 1 good delegation, limit 3, 1 in flight, 1 crash | `EventuallySigned`, `StopCompletes` |
| Query | 3 delegations, pages of 1, limit 3, everything on chain may move | completeness and soundness of the walk |
| Signer | 2 signing requests (1 for an expansion with a wrong index), 1 unauthenticated, 3 unlock (1 with a wrong passphrase), 1 lock request, all concurrent | key erasure, counters, the handler of every admitted request ends |
| Call | the daemon's 3 calls, an unlock and a lock, 4 deployments (HMAC keys that agree or not, a body over the limit), lost messages, timeouts, 1 restart; and every request with up to 2 finality providers, an expansion or not, one field missing or undecodable | the refinement of `SigningOracle`, the conversions |
| Lifecycle | the default file and every file with one entry changed, 2 health requests, a signal | clean and complete shutdown |
| Operator | 2 backends, 3 names (1 empty); every edit of the signer's file; any 2 paths with 3-bit indexes | the home directory after any sequence of commands and kills, both processes up and unlocked exactly if the ports differ, distinct keys |
| StopHangs | 2 delegations, limit 2; the trace has both signed, so the filter accepts neither | **violated**: endless query, `Stop` hangs |
| RetriesRunOut | 1 attempt for 2 messages | **violated**: success reported for an unsent signature |
| SignerGauge | 2 unlock, 2 lock requests | **violated**: the gauge contradicts the key |
| SaneConfig | as Lifecycle | **violated**: a file without an interval or batch size is accepted, and panics or hangs the daemon |

The violated properties quote what the code or its documentation says of itself;
`findings` in `PROJECT.json` has the lines. Disagreements met on the way that
have no run of their own:

- the walk of StopHangs, where it does end, returns a delegation twice, which
  the gauge "The number of current pending delegations" (`covenant/metrics.go:78`)
  then counts twice;
- `covenant.go:124` says the unbonding time must be "larger or equal" to the
  parameter, the check at line 128 wants it equal;
- the configuration offers the log level `trace` (`config/config.go:38`), the
  logger refuses it (`log/log.go:51`) and `start` fails;
- `CheckReadiness` "verifies internal state (if the main loop is running)"
  (`covenant.go:807`) but looks at `quit` only, and the Prometheus server is
  started before the emulator (`service/server.go:57`, 59): `/health` may answer
  200 with no loop running;
- the key is "checked at the start of BabylonController"
  (`clientcontroller/babylon.go:91`), but the constructor does not read it: a
  daemon started without `create-key` runs, and panics at its first submission
  (`MustGetTxSigner` in `CovdHome`).

**Bounds.** Two delegations are enough for what happens within a batch: a
refused message before or after a good one, an expansion and its previous
delegation. Four give an expansion, a delegation of another committee, a signable one and a panic. Pages of one make
every delegation a page boundary. `MaxInFlight` 1 lets an earlier transaction
land before, during and after a new submission; `MaxCrashes` 1 lets the daemon
die anywhere and run complete rounds before and after. `MaxRounds` 2 is a failed
round and the one that repeats it. `MaxRestarts` 1 puts a restart of the signer
anywhere in the daemon's three calls; public key requests are in Call, not in
Signer, and the wrong index in Signer, not in Call, where a second signing call
is beyond TLC's reach (the proofs cover both in both modules). Two health requests let one be waiting
for the signer while the other comes in during the shutdown. One changed entry
of the configuration is enough because every check of it looks at one entry.
`MaxDerived` 2 compares any two derivations; with indexes of three bits the
numbers 0 to 9 lie on both sides of the hardened bound and of the end of the
range. `CHECK_DEADLOCK FALSE` is set because processes and commands may end,
because the crash bound makes a panic unavailable, and because requests, rounds
and derivations are finite.

**Fairness.** `CallsReturn`: the loop does not pause and its calls return
(gRPC and HTTP calls have timeouts and `ReliablySendMsgs` gives up), the ticker
keeps firing, an operator restarts a dead daemon. `CallsSucceed` (strong): a
call that is made again and again does not fail each time; without it nothing
can be promised (made strong because the calls of a round come and go).
`SelectIsFair`: Go's `select` chooses at random among ready
channels, so a ready `quit` is not passed over for ever. For the signer, every
started handler runs. `FairLifeSpec`: goroutines run, `select` is fair, a timer
fires; nobody owes a signal or an answer of the signer. That no round lasts for
ever, be it one that finds nothing or one that submits, is no part of the
fairness but the hypothesis of `ShutdownCompletes`. `ProcessFairness`: the
operator starts what is not running and unlocks a locked signer, and listeners
get to bind. Nothing is assumed of the chain, of crashes, of when
`Stop` is called or of when requests arrive. The conclusion of
`EventuallySigned` allows that the delegation leaves the pending list or the
daemon is stopped. It is checked with a limit larger than the number of
delegations: when `DelegationLimit` delegations pass the filter and fail a
check, the code does not get past them, and with a limit that the pages meet
exactly the walk need not end (StopHangs).

## Proofs

TLAPS proves, for every set of delegations, committee, parameters, limit and
bound that satisfies the ASSUMEs:

- `CovenantEmulatorProofs`: `TypeCorrect`, `OnlyDeserved`, `BatchNeverAborted`,
  `NoEmptySend`, all from `Invariance == Spec => []IInv`. `SignsOnlyDeserved` is
  not inductive: the checks before signing do not repeat the committee check,
  so the invariant must remember that everything queued has passed the filter
  (`QueueInv`), that what the filter read is cached, that a batch lies within
  the queue and that attempts never outnumber messages (`CountInv`).
- `CovenantRefinementProofs`: `Refinement == Spec => MemberSpec`. Only steps of
  the chain and the inclusion of a transaction are visible; an executed
  transaction is `CovenantMember!Sign` of what it carries, because execution
  refuses duplicates and closed delegations and `IInv` says all of it deserves
  the signature.
- `SubmissionProofs`: `OnlyRefusedDropped`, `SuccessIsComplete`, from
  `SubmissionInv`. A message is dropped only at the index the chain reports, and
  the chain refuses it there for good; that it stays refused needs `KnownInv`,
  that everything in hand has been on the chain's list. `SuccessIsComplete` has
  the hypothesis `EnoughAttempts`: no limit on the attempts, or one not below the
  batch size. The loop leaves without an error also when the attempts have run
  out after duplicates, so without the hypothesis the claim is false
  (RetriesRunOut); with it, `AttemptInv` shows that every refusal uses up one
  attempt and one message. The metrics, `CountersCover` and `TimerComplete`: the
  cardinality in `CountersCoverSignatures` is not inductive, because a
  signature may be on the chain, in the pool and in the batch being sent at
  once; `CoverInv` keeps a set no larger than the counters that contains all of
  them but those in the batch.
- `QueryContractProofs`: `QueryTypeCorrect`, `NothingMissed`, `NothingStale`, for
  every page size, limit and movement of the list. `CoverageInv` says that
  nothing wanted lies behind the walk: below the page's key it is in the result,
  below the next key in the result or still on the page, and a page shorter than
  asked for is the last. The lemmas on `Page` count what the chain puts on one.
- `SignerServiceProofs`: `SignerTypeCorrect`, `LockErasesAlways`,
  `OneKeyPerResponse`, `CountersAlwaysBalance`, from an invariant that ties the
  mutex to the handler that zeroes and the state of a key's memory to the
  reference, and says that a handler that has not ended has no answer
  (`AnswerInv`), so that exactly those running and those that panicked are
  uncounted. `SerialGauge` is the other half of the run SignerGauge: as long as
  no two `Lock` or `Unlock` requests overlap (`[]OneAtATime`), the gauge is right
  whenever none is in progress. `GaugeInv` adds what a handler between the key
  and the gauge is about to write.
- `SigningCallProofs`, the calls: `CallTypeCorrect`, `OperatorsInformed` and the
  refinement `CallsImplementOracle == CallSpec => OracleSpec`. `CInv` adds the
  retriever's part (`RetrieverInv`, weaker than the signer's own invariant, and
  true across restarts), what a caller that has not returned cannot have
  (`CallerInv`), and `SeenInv`: a waiting caller has seen the state its handler
  relied on when it went past the retriever, and the erasing if its answer is
  torn. `SignerStep` sums up what one step of any handler does, so that arrival
  and all eight handler steps share one argument; a step that leaves the
  signer's state alone is a stutter of the oracle because the state was seen.
- `SigningCallProofs`, the conversions: `MessageFaithful` and
  `ParsersAcceptComplete`, for every set of requests. `StageInv` says that the
  value at each stage is the image of the request; `RequestRoundTrip` and
  `ResponseRoundTrip` that parsing inverts marshalling in both directions,
  `ParsersAgree` that the two parsers together accept exactly the complete
  requests.
- `LifecycleProofs`: `LifeTypeCorrect`, `ExitsClean`, `NoHealthyAnswerAfterQuit`,
  for every set of configuration files and health requests. `ShutdownInv` adds
  what the order of the stops establishes: `quit` is closed only when the server
  is shut and drained, and from then on no connection is open and no handler waits
  for the signer. `PositiveConfigRuns` is the other half of the run SaneConfig: with
  the check that `Validate` lacks (`AcceptedPositive`) no accepted file panics
  the daemon or has it split batches without end.
- `OperatorProofs`: `HomeTypeCorrect`, `ConfigNamesExistingKey`,
  `RunningIsConfigured`, for all backends and names. `HomeInv` adds that an
  account in the file, or in the content of a command past the creation of its
  key, is the default or exists, and that the file has at most its four parts,
  each of its type; a file with the backend `test` and a url then has a complete
  account. `NoTwoPathsOneKey`, for every width of the index: `DerivedInv` adds
  that every recorded path was accepted and gave the recorded indexes; the rest
  is arithmetic on the ranges of `ParseHardened` and `ParseNormal`.

The assumptions are typing facts about the constants (`RulesAssumption`,
`ChainAssumption`, `QueryAssumption`, `SubmissionAssumption`,
`EmulatorAssumption`, `MetricsAssumption`, `SignerAssumption`, `CallAssumption`,
`HomeAssumption`, `DerivationAssumption`). `EmulatorAssumption` excludes a batch
size of zero, with which `delegationsToBatches` does not end. `WireAssumption`
says that finality providers come in a sequence and that the structures made for
an expansion are no nil pointers. Hypotheses the code does not establish
(`EnoughAttempts`, `OneAtATime`, `AcceptedPositive`) are not assumed but stand in
the theorem; each has a run that shows the property violated without it.

Model-checked only: `EventuallySigned`, `StopCompletes`, `EveryRequestAnswered`,
`ShutdownCompletes` and `BothComeUp`, which are liveness under fairness and
outside the prover's reach. Every invariant and action property of a passing run
is proved.

## Not modelled

Cryptography: transactions, scripts, signatures and derived keys are values with
the verdict of the check the code makes. The keyring's encryption and the
cosmos-sdk's `keys` commands of the signer. The controller's operations that
only tests call, and the helpers of the tests. Output of the commands and flag
parsing. Retries inside `getParamsByVersion` are one call that fails or not.

## Plan

1. Done: rules, chain, query, submission, daemon, signer, abstract member, the
   refinement, and the first proofs.
2. Done: the signing call and its wire format, the processes of both programs,
   configuration, home directory, key derivation, metrics; proofs about the
   shutdown, the home directory, the derivation.
3. Done: proofs about the submission, the metrics, the query, the signing call
   with its refinement, the conversions, and the hypotheses under which the
   violated properties hold.
4. Left: that the key is erased also across restarts of the signer
   (`Signer!LockErases` of `CallSpec`); that a walk whose last page is not full
   ends; that every call of the client returns when it has a timeout.
