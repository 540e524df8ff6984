# TLA+ verification of vibehouse

vibehouse is an Ethereum consensus client: a beacon node (networking, sync, fork
choice, state transition, storage), a validator client (duties, signing,
slashing and doppelganger protection) and tools around them. This directory
holds TLA+ modules translated from the source, TLC configurations that check
them on small instances, and TLAPS proofs. The parts modelled are the validator
client's protection against slashing, the doppelganger service, the fork choice
before the Gloas fork, range sync and the slasher. `PROJECT.json` maps every
definition to the lines it models and lists components, runs, hazards and
theorems.

## Parts of the system

| Part | Source | Modules |
| --- | --- | --- |
| slashing protection database | `validator_client/slashing_protection` | `SlashingDatabase`, `SlashingConditions`, `ValidatorStore` |
| validator store, start-up, pruning | `validator_client/vibehouse_validator_store`, `validator_client/src` | `Signer`, `ValidatorStore` |
| keystore endpoints, initialized validators | `validator_client/http_api`, `validator_client/initialized_validators` | `ValidatorStore` |
| doppelganger service | `validator_client/doppelganger_service` | `Doppelganger` |
| fork choice | `consensus/fork_choice`, `consensus/proto_array`, `beacon_node/beacon_chain/src/beacon_fork_choice_store.rs` | `ProtoArray`, `ForkChoice` |
| range sync | `beacon_node/network/src/sync/range_sync`, `beacon_node/network/src/sync/batch.rs` | `SyncingChain`, `RangeSync` |
| slasher | `slasher` | `Slasher` |
| everything else | see `PROJECT.json` | none: see Not modelled |

The parts meet at few places. The doppelganger service decides whether the
validator store may be asked to sign at all. The fork choice, range sync and the
slasher run in the beacon node and do not call each other: blocks that range sync
processes and attestations from gossip enter the fork choice and, in parallel,
the slasher's queues. Each is therefore modelled with its callers as
environment.

## Modules

`SlashingDatabase` has no state. Its operators are the decisions of
`slashing_database.rs` on the rows of one key: `BlockIsValid` and
`AttestationIsValid` (`check_block_proposal`, `check_attestation`), the two
prunes, and the import of an interchange record. A signing root is abstracted to
the message it hashes; `NullData` is the zero root of an imported row, which
equals no other root. `ToSql` is the conversion to `i64`: a larger value makes
the statement fail and the transaction abort.

`ValidatorStore` is the state machine around it. Durable state is the three
tables (`status`, `blockRows`, `attRows`) and the validator definitions;
everything else is lost in a `Crash`. Each transaction of the database is one
step, because the pool has one connection and transactions are exclusive. A
signing call takes three steps: it obtains the signing method, it runs
check-and-insert, and it signs; it may fail in between. `SameData` and every
error end the call without a signature. Pruning takes two transactions over keys
read at its start. Adding a key takes two steps, the first of which registers it
unconditionally. Deleting one takes two as well and holds the write lock of
`InitializedValidators` (`deleting`) while the row is disabled and exported; the
first may fail halfway and leave the definition or the signing method. Start-up either registers the enabled keys
(`--init-slashing-protection`) or requires them to be registered.

`Doppelganger` is the doppelganger service together with its environment: the
clock, another client that may use the same keys, and a beacon node that sees
messages late. A detection takes four steps, one up to each await and one per
loop of `process_liveness_responses`, whose lock is released between the loops.

`SlashingConditions` defines slashable pairs of messages. `Signer` is the
abstract promise of a validator client: without databases, tasks or crashes, it
signs nothing that is slashable together with what a protected key has signed.
`ValidatorStore` implements it: the refinement mapping is the record of signed
messages, and every step of the database, of a task or of a crash is a stutter
except the two that sign.

`ProtoArray` has no state. Its operators are the methods of the block tree: the
score changes in two loops over the vector, the cached links to the best child
and the best descendant, the validation and invalidation of payloads, insertion
and pruning. What never changes in a node is looked up in the constant `Block`.
An error in the middle of a method leaves what was written before it.

`ForkChoice` is the state machine around it. The beacon chain calls the fork
choice under one lock, so a call is one action: `get_head`, `OnBlock`,
`OnAttestation`, `OnAttesterSlashing`, the two answers of the execution engine,
`prune` and `Restart`. Every call that takes the time first ticks the store and
empties the attestation queue, and a call that is refused still does so. `head`
is the answer of the last `get_head` while no other call came after it. A second
set of definitions computes weights, viability and the head from the blocks and
the votes alone; the properties compare the two. The execution engine is
external: it accepts a fixed set of payloads and answers consistently.

`SyncingChain` is one chain of range sync: the state machine of a batch and the
chain that downloads, processes and validates its batches. A method is an
operator on the record of the chain, a handler is an action that composes them
as the code does, and a request or a segment that is out of the chain's hands is
a member of `requests` or `segments`. Any answer, error, partial answer, verdict,
peer or stop may come at any moment; the network, the processor or the execution
engine may be down in any call.

`RangeSync` is the collection of chains: which chains exist, which are syncing,
what the collection's `state` says of it, and the head peers that wait for the
finalized chains. A chain is its set of peers and may end in any call. A handler
that calls `update` several times is a sequence of steps (`pending`), during
which nothing else happens.

`Slasher` is the slasher: its queues, a round of `process_queued` over them, the
attester records, the two target arrays in their chunks, the block records,
pruning and the slashings handed over. A transaction that fails leaves the
database as it was and loses what was taken from the queues, except the deferred
attestations; the root cache and the slashings found, which are in memory, keep
what was put there before the failure. A prune that fails may have dropped its
roots from the cache or not. A restart loses the queues, the cache and
the slashings not handed over.

`MCValidatorStore`, `MCForkChoice`, `MCRangeSync` and `MCSlasher` give the sets of
messages, trees and the symmetry for TLC. `ValidatorStoreProofs`,
`DoppelgangerProofs`, `ForkChoiceProofs`, `RangeSyncProofs` and
`SyncingChainProofs` hold the theorems, `ForkChoiceProofs` on top of the lemmas
about the block tree in `ProtoArrayProofs` and `SyncingChainProofs` on top of those
in `SyncingChainInvariant` (requests, downloads and processing) and
`SyncingChainVerdicts` (what follows a verdict on a batch).

## Runs

| Run | Instance | Shows |
| --- | --- | --- |
| `attestations` | 1 key, 1 task, epochs 0..4, columns hold 0..3, imports | all attestation properties through pruning, crashes, import, delete and re-import |
| `blocks` | 1 key, 2 tasks, slots 0..3, columns hold 0..2, imports | no double proposal with concurrent calls; a deleted key's record covers the blocks still being signed |
| `doppelganger` | 1 key, 4 epochs of 2 slots | a key waits for a full quiet epoch, never detects itself, and is decided in the end |
| `doppelganger_stop` | 2 keys | violation: see Findings |
| `fc_payloads` | 5 blocks in two forks, 2 of them with an invalid payload, 2 validators, 2 attestations, one slashable, slots 0..3 | incremental weights and links give the head of the fork choice rule while votes move, payloads are confirmed and invalidated in any order, and after restarts that lose nothing (below); every restart finds a head; every queued attestation is applied |
| `fc_finality` | 6 blocks, 1 slot per epoch, balances that change | the same through justification, finality and pruning; checkpoints never go back |
| `fc_balances`, `fc_stale_link` | the trees of `fc_finality` and `fc_payloads` | violations: see Findings |
| `sync_chain` | 1 peer, target epoch 2, buffer of 1 batch, 2 attempts of each kind | the batches stay consistent whatever arrives in whatever order, and the chain ends, unless it steps over its last batch (Disagreements) |
| `sync_overtaken` | target epoch 4, otherwise as above | violation: see Findings |
| `range_sync` | 2 finalized and 3 head targets, 2 peers, 2 parallel head chains | the collection's state agrees with its chains; no head peer is forgotten |
| `slasher` | 2 validators in 2 validator chunks, history of 6 epochs in chunks of 2, epochs 0..7, 9 attestations, 2 blocks, 3 arrivals | what is slashable and processed is caught, what is reported is slashable |

Properties of the signing pipeline: `NoSlashableAttestations` and
`NoDoubleProposal` (what was signed), `SignedStaysGuarded` (the rows refuse
whatever conflicts with a signed or approved message), `RowsOrdered` (the claim
in the comment of `prune_signed_attestations`), `BoundsNeverFall` (an action
property), `HandoverIsSafe` (a client that imports the history exported at a
deletion refuses whatever conflicts with what this one signed, also with a
signature that was under way). That the store implements `Signer` is a theorem
only. Of the doppelganger
service: `ClearedOnlyIfQuiet`, `WaitsForAFullEpoch`, `NoSelfDetection` and
`KeysAreDecided`. Of the fork choice: `WeightsMatchVotes` and `HeadIsGhost`
(against the reference), `StatusesPropagate`, `TreeWellFormed`,
`CheckpointsInTree`, `FinalityAdvances` (an action property), `RestartFindsHead`
and `QueueDrains`. Of a syncing chain: `NoCriticalRemoval` (the errors the code
holds for impossible never occur), `ProcessedPrefix` and `NoSkippedBatch`, each
unless the target overtakes an optimistic batch (Findings), `DownloadsAreInFlight`,
`OneBatchProcessing` and `SyncFinishes` (unless `SteppedOverTheEnd`). Of the
collection: `StateMatchesChains`, `DebugAssertsHold` and `NoForgottenHeadPeers`.
Of the slasher: `SlashableIsCaught`, `SlashingsAreValid`,
`DoubleProposalIsCaught`, `NeverFails` (no inconsistency error) and
`ArraysMatchHistory` (the arrays against their definition).

Bounds. `HistoryEpochs` is 2 instead of 512 so that pruning is due and removes
rows within the epochs of a run. Four to five epochs allow a surround inside
another vote together with a row below it, which is what a lower bound alone
misses. `SqlMax` below `MaxEpoch` makes the conversion fail. Two data values
suffice, since every property compares two messages. The runs have no key on a
remote signer with its own protection, and one attestation task; the theorems
cover any number of both. Four epochs let a key be registered, checked, enabled,
restarted and registered again. Two validators with
different balances make every order of two branches possible, with ties from
branches without votes. `fc_finality` has one slot per epoch, so that four blocks
justify and finalize, and starts in epoch 2, because viability is not checked
while the checkpoints are those of epoch 0. It has no queue (`MaxQueue` is 0),
which `fc_payloads` covers, its payloads are valid on import, and its anchor is
from before the merge (`Irrelevant`).
`PruneThreshold` is 1 instead of 256.

`sync_chain` has a target two batches away and a buffer of one, so that the
buffer fills, an optimistic start may skip a batch, and the chain may be started
again ahead of it; two attempts make both the retry and the last failure happen.
In `range_sync`, three head targets exceed the two parallel head chains. Its
sets of targets and of peers are symmetric: the module only compares their
members.

In `slasher` the history is six epochs and a run has eight, so that cells of the
arrays and records are reused; chunks of two epochs make an update stop within a
chunk, cross into the next and wrap around. Three arrivals are the two votes of a
pair and one that comes before, between or after them. Failures of transactions
and of pruning and restarts are not bounded. The history has the greatest length
the code admits for its largest distance (`MAX_HISTORY_LENGTH`); with one epoch
more TLC finds `NeverFails` violated, so the limit is exact.

Restarts of the fork choice. A restart may come in any state, and resets the
statuses or not. In the states of `StaleWeights`, `get_head` has yet to correct
the weights: a payload was invalidated after the last `get_head` and kept its
weight, or the justified balances are not those behind the weights. A restart
there makes the weights wrong for good (Disagreements), and each may add to them,
so their number is counted (`stale_restarts`) and bounded by `MaxStaleRestarts`:
one in `fc_payloads` and `fc_finality`, none in the two runs whose findings need
no restart. `WeightsMatchVotes` and `HeadIsGhost` are claimed for behaviours
without such a restart; every other property holds after it as well.

Fairness. In `ForkChoice`, `FairSpec` says that the store's clock goes on as
long as it can: the slot timer recomputes the head in every slot. Nothing else is
assumed to happen. `dequeue_attestations` stops at the first attestation that is
not in the past, so an attestation may wait behind one of a later slot;
`QueueDrains` shows that it is only late.

In `SyncingChain`, the network, the processor and the execution engine stop
failing at some moment (`calm`): while they fail, a batch whose failure is
nobody's fault is retried without limit. From then on each request is answered or
fails, the processor returns a verdict on the
current batch, and the status messages that peers repeat start the chain again
when that changes anything. Each assumption is weak fairness, written with the
condition under which the step is possible. The network context has a timeout for
each request it has sent. It sends none for columns without a custody peer: these
are deferred (`network_context.rs:720`) until a peer is added or the chain is
resumed (`try_send_deferred_columns`), and time out only then. For a batch with
deferred columns the assumption is therefore one on the network: custody peers of
all its columns are found in the end. No peer is assumed to be honest: a
chain that is removed has finished as well.

In `Doppelganger`, the service's loop, the poll for validator indices, the clock
and the delivery of messages go on, and a beacon node that is asked again and
again answers in full every now and then. The last slot of the run stands for the
last slots of all later epochs, so that a detection may be repeated in it.

Environment of `Doppelganger`. A message of epoch `e` reaches the beacon node
before the last slot of epoch `e + 1`; this is the assumption the service states
for its satisfaction slot ("*probably*"), and `ClearedOnlyIfQuiet` depends on
it. An answer may miss keys, may be empty (a failed query), and may hold an
index that was not asked for. An answer with a wrong epoch is not modelled.

## Findings

`doppelganger_stop`: a comment says that one detection enables checks "on all
validators forever", which stops activity "even if the validator client fails to
shut down". The loop only updates the keys in the previous epoch's answer. Keys
that had finished their checks are not in it.

`fc_balances`: `maybe_update_balances` compares the length, the total and the
number of active validators. If the justified balances change and keep all
three, the old ones stay and the same difference is applied by every `get_head`,
until a weight would fall below zero and `get_head` fails. The comment at
`proto_array.rs:278` knows no reason for that.

`fc_stale_link`: invalidating a block that has descendants clears the
`best_child` of the latest valid ancestor but can leave it a `best_descendant`
that is invalidated later in the same call. `get_head` then fails although that
ancestor is viable.

`sync_overtaken`: `start_syncing` may choose as the optimistic start the very
epoch that is to be downloaded next, while the batch before it is being
processed. When that batch is done, the processing target is the optimistic
batch, which the chain does not count as part of its buffer. If it is empty,
`reject_optimistic_batch` drops it as a batch out of sequence, the target moves
past it all the same, and it is created and downloaded again behind the target.
A later batch is then processed before it, against the comment of
`handle_invalid_batch`: "All previous batches must be awaiting validation". When
the later batch is faulty the chain is removed as `WrongBatchState`. The
predicate `Overtaken` describes the moment before, and the theorems of
`SyncingChainProofs` show that there is no other way to get there.

### Disagreements

Four disagreements of a comment and the code have no run of their own.

The weights after a restart. `proto_array_fork_choice.rs:963` restores the weight
of an invalid node because "it would have been set to `0` in
`apply_score_changes` when it was invalidated". That happens only in the next
`get_head`. If the process stops before it, the node still has its weight and
gets it a second time. The same is true of the balances: `from_persisted` takes
those of the justified state for the ones behind the persisted weights, and if
the justified checkpoint moved after the last `get_head` the difference is never
applied. `Restart` models both. TLC finds `WeightsMatchVotes` violated in
`fc_payloads` and in `fc_finality` when its condition `stale_restarts = 0` is
dropped, so the condition cannot be left out.

The end of a chain. `ProcessingResult` "informs the caller whether the chain has
been completed and should be removed or to be kept if further processing is
required" (`chain.rs:38`). The chain asks for its removal as completed in
`on_batch_process_result` (line 569), after a batch was processed. If
the last batch is an empty optimistic one, it is processed before its turn, and
`process_completed_batches` only moves the target past it (lines 448 to 462)
without looking for the end. The chain then has nothing to request or to process
and stays until its peers leave or `purge_outdated_chains` finds its target known.
`SteppedOverTheEnd` is this state; TLC finds `<>~Kept` violated by reaching it, and
`SyncFinishes` shows that a chain is left waiting in no other.

The order of head chains. `chain_collection.rs:352` says "if two chains have the
same number of peers, prefer one that is already syncing". The sort key of
line 357 holds `!chain.is_syncing()` and the order is descending, so a chain that
is not syncing comes first and may replace a running one. `RangeSync` orders
them as the code does, and its properties hold.

The exit on a detection. `doppelganger_service/src/lib.rs:12` says "If a
doppelganger is detected, the entire validator client will exit". If the answer
also holds an index that was not asked for, `process_liveness_responses` returns
early (line 532), before the shutdown is requested. `UpdateStates` models this;
the next detection finds the same doppelganger only while the beacon node still
reports it.

## Proofs

`ValidatorStoreProofs` proves, for every value of the constants (any keys,
tasks, duties, imports and bounds satisfying the two assumptions), `TypeCorrect`,
`AttestationSafety`, `ProposalSafety`, `GuardedForever`, `PruneClaim`,
`ExportIsComplete`, `SafeHandover`, `BoundsAreMonotonic` and `Refinement` (the
specification implements `Signer`).

The safety properties are not inductive: pruning and import delete the rows of
what was signed. The inductive invariant `Inv` therefore says of each promised
message (signed, or approved and about to be signed) that it is *guarded*: it is
still a row, or no row is below it. Together with the order of the rows and the
absence of slashable pairs among promised messages this is preserved by each
operator: an insertion passed the checks, so it conflicts with no guarded
message; a prune keeps the largest row; an import stores the maxima. The lemmas
about the operators come first, then one step lemma for the attestations, one
for the blocks and one for the exports. `HasMaximum` (a nonempty bounded set of
naturals has a largest element) is proved from well-founded induction.
`SafeHandover` follows from `ExportIsComplete` and two lemmas on what an import
refuses. In `Refinement`, a signature is a step of `Signer` because the message
was promised, and promised messages are not slashable with each other.

`DoppelgangerProofs` proves `TypeCorrect`, `QuietWhenCleared`,
`FullEpochOfWaiting` and `NeverDetectsItself` for any keys, slots per epoch and
length of the run. The invariant adds three parts to the properties: what a
key's state says of the epochs still to be checked, given when it was registered
(`StatesInv`); that what the detection in flight has read is still true although
keys were registered again and the clock went on (`RequestInv`); and that the
beacon node sees every message in time and a key under check has signed nothing
in the epochs that count (`MessagesInv`). `CompletedEpoch` is the heart:
the epoch that completes a check is a whole one after the registration, it is
over, and no other client used the key in it.

`RangeSyncProofs` proves `StateIsConsistent`, `AssertsNeverFail`,
`NoEmptyChain`, `BoundedHeadChains` and `HeadPeersAreServed` for any targets,
peers and number of parallel chains. The invariant is their conjunction with the
type invariant; none is inductive alone, since whether `update` may set `state`
depends on the chains having peers and on the bound. There is one lemma per
method of the collection.

`SyncingChainProofs` proves, for any target, peers, buffer and numbers of
attempts, `TypeCorrect`, `DownloadsInFlight`, `OneAtATime`, `NeverCritical`,
`PrefixIsProcessed`, `TargetIsRobust` and `NothingSkipped`. There are two
inductive invariants. `SoundInv` holds always: types, `InFlight` (requests are in
flight for the batches that are Downloading and, beyond them, only for batches
dropped behind the start, so that an id names one request), `Current` and
`Bounds`. `OrderInv` holds as long as the target does not overtake an optimistic
batch: what lies before the target has been processed (`Prefix`), what lies
before `to_be_downloaded` has a batch and beyond it only the optimistic start has
one (`Buffer`), and only the optimistic batch and the target are ever processed,
anything else that was processed being a former optimistic start (`Turns`). The
wrong states are excluded by it, not assumed away: each method is shown to keep
the invariant or to remove the chain for another reason, so every `Then` of a
handler is one application of a lemma. Within a handler the order is broken for
one batch at a time (`OrderlyBut`): a batch that has just been processed is
neither before the target nor a former start until the target moves. The loops of
the code over batches are closed forms in the model (`SendBatches`,
`IncludeBatches`, `validation_failed`), so that no induction is needed; the least
epoch at which they stop exists by `HasMinimum`.

`ForkChoiceProofs` proves `InvariantHolds`, `TypeCorrect`, `TreeStaysWellFormed`,
`StatusesAgree`, `CheckpointsStay` and `FinalityOnlyAdvances` for every block
tree, number of validators, balances, attestations, boost and pruning threshold,
on top of the lemmas about the block tree in `ProtoArrayProofs`. The invariant
`IInv` was checked by TLC on the instances of both runs first. It says four
things. The vector is a tree in topological order and its links stay inside it:
a best descendant is the best child or behind it (`TreeOK`). The statuses are
true as well as consistent: a node is valid only if the engine accepts its
payload and invalid only if it does not (`StatusesOK`); `StatusesPropagate` alone
is not inductive, since an invalidation stops at a valid node only because that
node deserves to be valid. The finalized block is in the tree, and so is
the block of every other checkpoint of the store, the unrealized ones included,
that is not older; behind the finalized block no node has lost its parent
(`StoreOK`, `Rooted`). Votes, balances and the queue are well typed.

The methods of the tree are loops over the vector, written as recursive
functions. `Recursion`, `Loop` and `LoopInvariant` show once that such a
function exists and that what its step keeps it keeps; each loop then needs one
lemma about its step (`WeightStepKeeps`, `UpdateBestKeepsLinks`,
`FallStepFacts`). `WalkBack` is the way from a node back to the first one, and
`WalkIsOnChain` and `WalkMeets` relate it to the chain of the block, which is
defined without the vector. Pruning renumbers every index: `DroppedWalk` shows
that the ways back are the old ones, shifted and cut.

Four assumptions on the inputs are named where they are declared.
`BlockAssumption`: a block is of a later slot than its parent, which block
verification ensures. `CheckpointsAssumption`: the checkpoints of a block lie on
its chain, and finalized is not after justified, as the state transition computes
them. `AccountableSafety`: what is justified as late as a finalized checkpoint or
later is behind it, which is what the protocol guarantees unless a third of the
stake is slashable; without it `CheckpointsInTree` is false, since a conflicting
justified block may have been pruned. `PayloadsAssumption`: the engine accepts no
payload behind one that it rejects. TLC evaluates all four in the runs.

Only model-checked. The liveness properties, which are out of the prover's reach.
The slasher, whose loops over chunks and queues are recursions over data.
`WeightsMatchVotes`, `HeadIsGhost` and `RestartFindsHead`: they are not theorems
of the code for every constant, because of the findings `fc_balances` and
`fc_stale_link`, and hold on instances that exclude these.

## Not modelled

In the parts above: schema migrations, keystore files and the key cache,
remote-key endpoints, signatures that are not slashable, and several validators
per interchange file (each record is independent and the batch is atomic). Of
the fork choice: everything that Gloas adds (its head, bids, payload attestations
and envelopes), the proposer re-org helper, failures to read a justified state,
the cached parameters of the next `forkchoiceUpdated`, and contradictory answers
of the execution engine. Of range sync: the composition of the collection with
its chains, the choice of the peers a batch is requested from, penalties, the
custody of columns and the contents of blocks. Of the slasher: encodings and
compression, the database backends and their migration, the capacity of the root
cache, and the publication of the slashings.

Other parts. Backfill sync and block lookups, the data availability checker, the
beacon processor's queues, the canonical head and the migration to the cold
database, the peer database and the engine state machine hold protocol state of
their own; each would need a model and none is written. The duties, block and
fallback services of the validator client are the source of the inputs of
`ValidatorStore`. The state transition, the operation pool, the diffs of the
database, cryptography and the encodings are sequential computations on large
values; a model small enough for TLC would say nothing of them. The HTTP API, the
command line tools and the common helpers have little state.
