# Citrate chain: a TLA+ model of admission, chain application, finality and the transaction pool

This directory holds TLA+ modules for the parts of the Citrate node whose
correctness depends on the order of things: which tasks interleave, which write
reaches the disk before a crash, which vote arrives before the checkpoint it is
for. TLC checks them on small instances; TLAPS proves the safety properties of the
finality protocol and of the applied chain for every instance. Paths below are
relative to the repository.

## 1. The system

Citrate is a BlockDAG layer-1 chain. A node

* receives blocks over P2P, stores them in the DAG store, and ranks the tips by
  GhostDAG blue score (`core/consensus`, `core/network`);
* executes blocks as they arrive and keeps one *applied chain*, in memory and on
  disk (`node/src/canonical_apply.rs`, `core/execution`, `core/storage`);
* produces blocks on that chain (`node/src/producer.rs`, `core/sequencer`);
* takes part in committee finality: at every checkpoint boundary validators sign
  the buried block, and a quorum of signatures makes a durable certificate
  (`core/consensus/src/checkpoint*.rs`, `node/src/finality_driver.rs`);
* derives from certificates a floor below which it never reorganises
  (`node/src/finality_floor.rs`).

Around that core are peer and sync code, the bridge, economics, the learning
daemon, an MCP service, RPC servers, Solidity contracts, wallets, a faucet and
command-line tools. `PROJECT.json` lists every one of them under `components`
with the modules that model it, or the reason it is not modelled.

How the modelled parts depend on one another:

```
 peers ─blocks─> BlockAdmission ─stored blocks─> CanonicalApply <──floor── certificates
                  (GhostDag)                      (BlockTree)                   ▲
                      ▲                            │      ▲                     │
     Mempool ─transactions─> (producer) ───────────┼──────┘               FinalityGadget <── votes
                                                   │                       ▲  │        ▲
                                  applied tip ──> FinalityDriver ─────────┘  │        └── EarlyBuffer
                                                                        VoteSigning
            many nodes together:  FinalityNetwork  ──implements──>  Finality
```

The producer has no module of its own: what it does to the applied chain is in
`CanonicalApply`, what it does to the two block stores in `BlockAdmission`, and
what it takes from the pool in `Mempool`.

## 2. The modules

| module | models | source |
|---|---|---|
| `VoteSigning` | one validator's own signatures: durable record, watermarks, pruning, safety stop | `checkpoint_gadget.rs` |
| `CheckpointManager` | pending and finalized checkpoints, admission of a vote, quorum, finalization | `checkpoint.rs` |
| `FinalityGadget` | the driver task and the network task over one manager | `checkpoint_gadget.rs`, `checkpoint.rs` |
| `EarlyBuffer` | the three bounded buffers of votes that come before their checkpoint | `checkpoint_gadget.rs` |
| `FinalityDriver` | the once-a-second pass over buried boundaries, retries and held votes | `finality_driver.rs` |
| `FinalityNetwork` | many validators, some Byzantine, lossy gossip | composition of the above |
| `Finality` | abstract promise: a boundary is decided at most once, for good | `CHECKPOINT_FINALITY_WIRING.md`, S1 |
| `BlockTree` | the tree of blocks: chains, ancestry, rank, what execution yields | `canonical_apply.rs`, `executor.rs` |
| `CanonicalApply` | the applied chain: drain, reorg, rebuild, production, floor, crash and restart | `canonical_apply.rs`, `producer.rs`, `finality_floor.rs`, `main.rs`, stores |
| `GhostDag` | the consistency gate, blue scores derived from what a node holds, registration, the selected tip | `ghostdag.rs` |
| `BlockAdmission` | two block stores filled by gossip, sync and the producer; pruning, crash, start-up repair | `admission.rs`, `dag_store.rs`, `block_store.rs`, `producer.rs`, `dag_prune.rs`, `main.rs` |
| `Mempool` | the pool's six collections under submitters, producer and timer | `mempool.rs`, `producer.rs` |
| `MC*` | the small instances TLC runs | |
| `VoteSigning_proofs`, `FinalityNetwork_proofs`, `EarlyBuffer_proofs`, `FinalityDriver_proofs` | the theorems about these four modules | |
| `FinalityGadget_lemmas`, `FinalityGadget_proofs` | the invariant of the gadget and the operators it is built from; the proof step by step and the theorems | |
| `CanonicalApply_lemmas`, `CanonicalApply_proofs` | facts about chains, ancestors and forks, the invariant of the applied chain, drain, production and in-memory reorg; rebuild, restart and the theorems | |

`LeastNatural`, `FiniteHasMax` and `QuorumsMeet`, small facts about finite sets, stand
in each proof module that needs them.

Operators followed by a comment that starts with "mutant", or whose comment
describes a slip ("Rounded down: ...", "No signed-vote record: ..."), are faulty
variants of the definition after them. They are not used by any specification;
`PROJECT.json` names, for each property, a variant that breaks it.

### VoteSigning

*State.* `record` and `meta` are the keys `checkpoint_signed:*` and
`checkpoint_signed_meta:*` on disk; `cached` is the watermark cache in
`GadgetState`; `engaged` and `gate` are the two halves of `SafetyStop`; `pc` and
`job` say where the driver is in `sign_own_vote`; `votes` is a history of every
vote let out.

*Actions.* Reporting a buried boundary, taking the gate, the authorisation in its
three outcomes (first signature, repeat of the same block, refusal), a failed
write, letting the vote out, pruning after a finalization, engaging and clearing
the stop, and a crash that keeps only the disk.

### CheckpointManager and FinalityGadget

`CheckpointManager` has the state of `CheckpointManager` in the code (pending
set with votes, finalized set in memory, certificates on disk, latest height)
and its operations as actions on that state: propose with eviction at the cap,
submit, the quorum test, prune.

`FinalityGadget` runs two tasks over it. Each lock section of the code is one
step, so that the tasks interleave exactly where the code releases a lock:

* the driver: `on_buried_checkpoint` → `ensure_proposed` (for a checkpoint already
  pending, a second read whether the own vote is missing, `OwnVoteMissing`) →
  `sign_own_vote` → drain of the early buffer → replay of its votes → prune; and
  `retry_finalizations` on a timer;
* the network task: `on_inbound_vote`, either submitting to a pending checkpoint
  or buffering under the state lock after a second look at the pending set;
* both: `finalize_checkpoint` (the early read, the finalization lock, the
  optional guard, the certificate write that may fail, the in-memory update) and
  the three prunes.

The buffer's own caps are abstracted here (an insertion may be refused), because
`EarlyBuffer` models them.

### EarlyBuffer

`EarlyBuffer` as the code keeps it: the votes, a per-voter index, the arrival of
the voters (a relation "no later than", in place of the code's stamps) and a
counter, each updated separately, for the three buffers `early`, `unverified` and
`unknown`. Insertion with the per-voter cap, the total cap and fair eviction;
drain; prune; expiry beyond the horizon; and the promotion of waiting votes, for
which the driver looks the validator snapshot up *outside* the lock and comes
back with what it found. The promotion is the one operation that takes several
steps under the lock (`TakeResolved`, `Promote` for one vote, `Promoted`); while
it does, nothing else that needs the lock is enabled.

### FinalityDriver

*State.* `cursor` and `retries` (`OwnVoteRetries`: attempts, halted heights, held
votes) are the driver's own; `pass` and `job` say where it is in `run_pass` and
in one `report`; `outbound` is the pass's result and `sent` a history of what was
broadcast. The gadget appears as the driver sees it: `pending`, `own` (heights
whose pending checkpoint has this node's vote) and the signed-vote `record`.

*Actions.* The walk and its failure, each report (handing over, signing under
the gate, the second look at the stop after the gadget returns), the revisit and
its failure (which counts an attempt for one boundary after the other),
`gate_outbound`, the broadcast; around it the tip moves or changes chain, the
stop engages and clears, checkpoints go, the node restarts. Peers' votes
replayed by the gadget are left out: the driver treats only its own with care. A
committee member is assumed; an observer signs nothing. The record's floor is
left to `VoteSigning`.

### FinalityNetwork and Finality

One step per node operation, with the inside of the node abstracted: `Propose`,
`Sign` (only what the durable record allows, which is what `VoteSigning`
establishes), `Finalize` on a quorum, `Forget` (restart or eviction), and
Byzantine votes. A vote, once sent, may be delivered any number of times, at any
time or never. `Finality` is the abstract specification; the refinement mapping
reads "decided at h" as "some honest node holds a certificate at h".

### BlockTree and CanonicalApply

State of a chain is represented by the sequence of blocks executed to get it, so
that "the right state for this tip" is `Chain[tip]` and any mixture is visible
as another value. `WrongRoot` is the set of blocks whose committed root
execution does not reproduce, `Unexecutable` the set that execution rejects.

*State.* In memory `tip`, `world` (the executor's state) and `ring` (the
snapshots of `AppliedState`); on `disk` one record with tip, state, receipt
index, undo records and the marker of an unfinished rebuild; `stored`, the
blocks of the DAG store; `floor`, registered and checked certificates; and `op`,
what the holder of the state-advance lock is doing.

*Actions.* Storing a block, the drain (forward step, switch to fork choice), the
in-memory reorg (walk to the fork, move the store to it, re-apply, or abort and
move everything back), the from-genesis rebuild (plan, reset, removal of old
receipts in chunks, replay block by block, final root comparison, rollback),
production (store, state batch, receipt batch), certificate registration and the
two halves of the floor check, and crash with restart: the receipts cleanup of
an interrupted rebuild, the root check at boot, the undo records that restore
the window, and the floor that the stored certificates give back. Each disk
batch is one step and may fail; a crash may come between any two.

Fork choice enters as its order (blue score, then hash), and before the DAG has
hydrated it may name any stored tip. That a node which is up really selects by
this order is `ForkChoiceHead` of `BlockAdmission`.

### GhostDag and BlockAdmission

`GhostDag` has the content of the blocks as constants and what one node holds of
them as variables: the DAG store, the stored scores, `relations` and the tips.
`ExactScore` is the score a node with every block would compute; `ScoreOf` and
`DeriveScore` are the walks the code does over what is there, and may fail.

`BlockAdmission` adds the chain store with its height index, the applied tip, the
pruning point, the orphan buffer and two tasks. The *network task* takes a block
by gossip or an answer of sync and carries it through `admit`: refusal of
withdrawn blocks, the check of both stores, consistency, the DAG write, the
registration, the chain write, the drain, and the passes over the deferred
blocks until nothing moves. The *main task* boots (genesis, the repair of both
stores, the rehydration of the tips as snapshot, registration and replacement,
the eager load of a mining node) and then produces, in the order in which
`produce_block` writes. The pruning task moves the point and deletes. A write of
admission may fail, which rejects the block (`AdmitFails`), and one of production,
which ends the round (`ProduceFails`); what was written before stays. A crash comes
between any two writes, in a prune after any number of its deletions
(`PartlyPruned`), and loses all but the stores. The producer builds on its applied
tip instead of fork choice's when a walk of at most `SupersedeWalkCap` blocks down
from the one reaches the other, as `applied_tip_supersedes` has it.

### Mempool

*State.* `transactions`, `queue`, `listed` (how often `by_sender` has a hash),
`nonces`, `total` and `evicted` are the six collections; `task` says for every
task where it is; `torn` is a history of the slots (sender, nonce) on which two
operations were ever at work together.

*Actions.* One per access of a collection, because `add_transaction` and
`remove_transaction` hold no lock from one access to the next: six checks, the
two capacity checks with their evictions, five writes, six steps of a removal.
The producer selects, discards, executes, bans on a failure, commits, removes
and reconciles; after an empty block, or when the write of transactions and
receipts failed, it does neither. The timer expires; the window for legacy
signatures closes. Transactions of equal priority are taken and evicted in any
order, because their time stamps are in seconds. A run begins with a pool at rest, chosen by the scenario together with what the
tasks are going to do.

## 3. What is checked

Every property is stated in a comment above its definition. "Bounds" are the
constants that make the interesting case happen and keep the run small.

| run | shows | bounds |
|---|---|---|
| `vote_signing` | no equivocation, an authorised block stays the only one voted for at its height, votes stay on record, records stay inside their span, no vote while stopped | 4 boundaries, 2 rival blocks, span of 2 records, so the third signature pushes the first out |
| `gadget` | a certificate is durable before anyone sees it, an own vote is never locked out by a forged one, no vote is stranded in the buffer, certificates hold a quorum of valid votes and never change, no pending checkpoint at or below the finalized height at rest, memory bounds, no finalization without the guard's consent | two instances in one run: 1 boundary with 2 candidates and a Byzantine validator among 4 (the smallest finalizing committee); 2 boundaries with a pending set of 1, so they evict each other |
| `gadget_live` | quorum leads to finality although any certificate write may fail | 1 boundary, 4 voters |
| `finality_network` | agreement; the nodes implement `Finality` | 4 validators, 1 Byzantine, 2 boundaries, 3 blocks |
| `early_buffer` | the buffer's parts agree and keep their caps, fair share, nobody crowded out, only members of the governing snapshot get in, nothing outside the window, every waiting vote is looked at again | 2 voters, one joins at the second boundary, every buffer small enough to fill |
| `finality_driver` | one vote per height whatever is retried or sent again, first reports only of buried boundaries, a vote kept in by the stop gets out, a boundary passed during the stop is revisited | 2 boundaries, 2 chains (one steps over the first boundary), each list capped at 1, 2 attempts, one reorg, stop, failure and restart |
| `apply_window` | in-window operation: receipts, roots, start after any crash, the floor is on the applied chain and certified blocks stay | 5 blocks, window of 2, one failed write, one crash, one own block |
| `apply_rebuild` | rebuild from genesis: durable and in-memory consistency, receipts, convergence | window of 1 so a fork at genesis is outside it, one failed write, one crash, a bad head |
| `apply_floor_crash` | *violation*: see 6 | a crash in the middle of a rebuild |
| `admission` | the DAG store is closed under parents but for what was pruned, every score is the exact one, fork choice's head is the heaviest block, every offered sound block ends up in both stores | four nodes in one run: a new one, one with holes left by a crash, a mining one and a pruning one; 12 blocks, two merges, a window of the score that the pruning depth just covers, `SupersedeWalkCap` of 1, one crash or failed write |
| `admission_pruned` | *violation*: see 6 | a node that mines and prunes, restarted |
| `mempool` | the collections agree on every slot no two operations collided on, a selection is each sender's run of nonces, every submission is answered | 7 scenarios of three tasks over 5 transactions of 2 senders, three of them of equal priority, a pool of 2 by count and by bytes |

Why the bounds are enough for these questions. The signing record has one
behaviour below the floor, one inside the span and one above it; four boundaries
at a span of two reach all three and every crossing between them. Four
validators is the least committee the code finalizes with, and two of its
quorums already meet in just two members, one of which may be Byzantine. The applied chain
distinguishes forks inside the window, at its edge and below it: heights 0 to 3
with a window of 1 or 2 have all three. One failed write and one crash reach every
pair (operation, fault position); several failures in a row are reached only in
`gadget_live`, where writes may fail without bound. In the DAG a merge at the
bottom and one at the top put a merged sibling on either side of the pruning
point. In the pool every pair of operations meets on the same slot, on two slots
of one sender and on two senders.

Deadlock is checked in `vote_signing`. The other instances are finite (blocks to
arrive, heights to finalize and faults run out), so they come to rest, and their
configurations switch the deadlock check off.

### Fairness

* `FinalityGadget!Fairness`. Neither task stops inside a call (weak fairness).
  The driver's loop calls `retry_finalizations` on every pass, so a height that
  keeps being due is retried, and the store does not fail every write for ever
  (strong fairness for those two). The run has one boundary: with several, the
  buffering of later votes shares the state lock with the retry, and whether the
  retry gets it is a question of lock fairness that the model does not settle.
* `FinalityDriver!LiveSpec`. The loop ticks every second and none of its calls
  hangs (weak fairness of the driver as a whole). The two liveness properties
  excuse a stop that engages for ever or again and again, and a chain on which
  no boundary is buried.
* `EarlyBuffer!LiveSpec`. The driver's maintenance pass runs again and again.
* `CanonicalApply!LiveSpec`. The lock's holder goes on, hydration ends, a
  requested rebuild starts (weak fairness); the drain and the rebuild get the
  lock when they ask for it again and again (strong fairness), because
  the state-advance lock is a `tokio::sync::Mutex`, which is FIFO.

* `BlockAdmission!Fairness`. Neither task stops inside a call (weak fairness);
  peers offer the blocks of `Offered` again and again, which is what `Heals` is
  about (strong fairness of their delivery, since the task is busy in between).
* `Mempool!Fairness`. A task that has begun goes on (weak fairness): a step waits
  only for a lock that is held for one access.

Otherwise arrival of blocks and votes, certificates, crashes and failures are never fair.

## 4. What is proved

TLAPS checks the theorems below for every value of the constants that the named
assumptions of the modules allow; `PROJECT.json` lists them with the property each
one states. The assumptions are about the shape of the data (caps are numbers,
boundaries are positive multiples of the interval, heights and voters are finite
sets, `None` is none of them, following selected parents ends at genesis, and a set
of blocks that is not empty has a lowest and a highest one, which is what finitely
many blocks comes to). TLC evaluates them in the runs. Whatever goes beyond that is a hypothesis of the
theorem and is named here.

An invariant the runs check is seldom inductive: it is about a state at rest,
and says nothing of what a task holds in the middle of its code. Each
proof therefore has an inductive invariant of its own, which says for every
point of the code what the task at that point knows and what it still owes. TLC
checked those of the gadget, the buffers, the driver and the applied chain on the
runs' instances before they were proved.

**`VoteSigning_proofs`**: `NeverEquivocates`, `AuthorizedStaysAlone`,
`StopIsRespected`, `RecordIsKept`. Once a record is pruned nothing in it says that the height was
signed, so `NoEquivocation` needs `VotesOnRecord` (each vote let out is on record
or at or below the durable floor), `AuthorizedAlone` (between authorisation and
sending, the authorised block is the only one that can have a vote at its height,
although a prune may run in between) and `PermitInv` (the cached watermarks are
the stored ones, and the gate is held where a vote is let out). `RecordsInSpan`
says in addition that the deletions, which look at a bounded number of boundaries
above the old floor (`boundaries_between`), leave nothing behind.

**`FinalityNetwork_proofs`**, under `SharedCommittee` and `FewByzantine` (less than
a third of each committee): `NoConflictingFinality` (`Agreement`) and `Refinement`
(`ImplementsFinality`). The invariant adds that an honest validator signs one
block per height and that a certificate is backed by a quorum of sent votes.
`QuorumsMeet` shows that two quorums of `floor(2n/3) + 1` in one committee share an
honest member; the two facts then give agreement, and agreement makes the
refinement mapping change only from "undecided".

**`FinalityGadget_proofs`**: `Invariance` and, from it,

* `TypesAndCaps`, `StoredCertificatesSound`, `NobodyLockedOut`, `NoVoteStranded`,
  `NoZombieStays` and `GuardOkFinalizes`, for any committees;
* `CertificatesStable` and `VisibleIsDurable`, under `SharedCommittee` and
  `FewByzantine` again: a certificate is overwritten by one for the same block only
  because two quorums for different blocks cannot both be signed.

The invariant (`IInv` of `FinalityGadget_lemmas`) says what each task holds at each
point of its code (`TypeInv`); that pending entries, certificates and votes under
way carry real signatures (`SoundInv`); that what a guard saw is still on disk
(`GuardInv`); and that a prune works with a height that was finalized (`FloorInv`).
The other two parts are debts: a vote in the buffer beside its pending checkpoint
is allowed as long as the driver is still going to drain that height
(`StrandInv`), and a checkpoint pending at or below the finalized height as long
as some task is on its way to a prune that reaches it (`ZombieInv`). The
argument goes through the calls of the manager: `CallsNext` shows that a step of
either task makes at most one of them, in a state that meets what the call
relies on.

**`EarlyBuffer_proofs`**: `PartsAgree` (`TypeOK`), `SharesAreFair` (`FairShare`),
`VotesArePlaced` (`Placed`) and the action property `NobodyIsCrowdedOut`
(`NoCrowding`), for all finite sets of voters and heights, all hashes and snapshots
and all positive caps. The four parts of a buffer are proved to agree operation by operation
(removal, insertion, taking whole heights), and fair share is counting: if every
voter held at most `c` votes the buffer would hold at most `c` times the number of
voters, so a full buffer has a voter with at least an equal split, and the heaviest
one, from which the eviction takes, is such a voter. The invariant adds that the
vote the network task carries and the votes taken for promotion are entitled to
their place by what was known when they were classified, which is what makes
`Placed` survive a snapshot that appears in between.

**`FinalityDriver_proofs`**: `DriverIsSafe` (`DriverInv`: one vote per height, the
caps of the retry and the revisit list) and the action property `NeverAtTheTip`
(`FirstReportBuried`). The invariant says that every vote, wherever the driver
keeps it (sent, in the pass's result, held, taken for a revisit, just back from
the gadget), is the one on record for its height, and that what is being
reported is the block of the walked chain, buried if it is a first report.

**`CanonicalApply_lemmas`** and **`CanonicalApply_proofs`**, if the write that undoes
an aborted switch succeeds (`~RestoreFails`, see 5):

* `Invariance`, and from it `DiskIsRight`, `ReceiptsFollow`, `MemoryIsRight` and
  `FloorIsCertified`, for every tree of blocks, window, set of bad blocks and
  number of failures and crashes.
* `WrongOnlyReplayed`: the drain, the producer, a switch and a restart from
  anywhere but a replay bring no wrong root onto the applied chain, and a rebuild
  never leaves one at the tip.
* `OnlyVerifiedApplied`, for runs in which no rebuild is made onto a head that
  stands on a wrong root (`SpineVerifies`). The replay compares the root of its
  target only and the code does not see to the blocks below, so the hypothesis is
  about the run and not about the tree; without a rebuild it always holds.
* `RefusedOnlyWrong`: a node that refuses to start has its state intact, and the
  durable tip commits to a wrong root.
* `StartsAgain` (under `SpineVerifies`) and `FinalStays`, for runs in which the
  node does not crash in the replay of a rebuild (`Uninterrupted`). The run
  `apply_floor_crash` shows that `FinalKept` fails without that; the theorem shows
  that this is the only way.

The invariant has a part for the disk (it is the state of the durable tip, the
undo records fit the window, the receipts those of the chain), for memory, for
the ring, for the floor, and one for each operation that holds the
state-advance lock: what a switch has re-applied so far, what a rebuild has
planned, removed and replayed. It says for each of them where the durable tip
is between fork and head, which is what a crash at that point exposes. The
theorems about restarts use a second layer, `StepShape`: every step either leaves
tip and floor as they are, extends the tip by a verified block, switches above the
floor to a verified branch, is a step of a rebuild, or is a restart.

### Only model-checked

* All liveness (`QuorumFinalizes`, `Rechecked`, `VoteGetsOut`, `Revisited`,
  `Converges`, `Heals`, `AddReturns`), which is beyond the prover.
* `GhostDag` and `BlockAdmission`: a score is a walk over the DAG, defined by
  recursion, and `ScoresExact` compares two of them.
* `Mempool`: `Indexed` speaks of the slots no two operations ever met on, over
  nineteen kinds of steps; the selection is a fold over the queue.

## 5. What is left out

* Inside the modelled parts: encodings and key layouts, metrics and logging, the
  stake registry behind a committee, reward settlement and gas metering in the
  producer, the reward-policy resync of the applicator. A disk batch is
  atomic, as RocksDB's write batches are.
* The write that undoes an aborted switch is assumed to succeed (constant
  `RestoreFails`). The code logs its failure and goes on; with `RestoreFails`
  TRUE the model then reaches a durable tip over a state that is not its own
  (`canonical_apply.rs:2088`).
* `ReceiptsExact` excuses blocks the node produced itself: the producer writes
  receipts in a batch after the state (`producer.rs:2718`, `:2777`), so a crash
  between the two loses them.
* `OnlyVerified` and `Starts` are checked where no from-genesis rebuild runs, and
  proved for runs with rebuilds only under the hypotheses in 4
  (`SpineVerifies`, `Uninterrupted`). The
  trusted replay compares the head's root only (`canonical_apply.rs:3094`), and
  persists the head before it does (`:3050`): after a crash there with a bad
  head, the boot check halts the node.
* **Sibling candidates.** `committee_for` draws the committee with the candidate
  block's own beacon, so with more validators than `committee_size` two candidates
  of one boundary have different committees and both can reach quorum, against S1
  (`docs/consensus/CHECKPOINT_FINALITY_WIRING.md:447`). The document lists this as
  open (line 578). `finality_network` has one committee for all candidates, and
  the theorems assume it by name (`SharedCommittee`).
* In `GhostDag` chain work is taken to grow with the blue score; in
  `BlockAdmission` refusals by canonical checkpoints and by the hardening rules
  are one set of withdrawn blocks, and the drain moves the applied tip to fork
  choice's head in one step (its inside is `CanonicalApply`). `AddBlock` registers
  a block in one step although the code awaits between its locks; the one race
  that this hides and a task can lose, the replacement of the tips at start-up, is
  a step of its own (`overtaken`, see 6). The writes of the start-up repair, whose
  failures the code only logs, are taken to succeed.
* In `CheckpointManager` a certificate is a block and its voters, without the bytes
  of their signatures; where `extends_certificate` compares signatures too, the
  model compares the voters.
* In `Mempool` the operator's `clear`, the AI selection and the read-only queries;
  what `validate_transaction` decides from the transaction alone. A transaction
  is in no block but this node's own.
* **Collisions in the pool.** `Indexed` and `AddReturns` except what two
  operations on the same slot can do to each other, which the locks do not
  prevent: two submissions of one transaction both pass the duplicate check
  (`mempool.rs:616`), so its bytes are counted twice and `by_sender` lists it
  twice; with a removal between the insert and the push (`:770`, `:771`) the queue
  keeps an entry without a transaction. Two evictions may choose one victim, so
  the pool may exceed `max_size` by the number of tasks. A legacy transaction
  validated before the one-time sweep may be inserted after it, and a sender's
  transaction after its ban.

### Not modelled

`PROJECT.json` gives the reason for each component. In short:

* Cryptography, numeric code and pure I/O (EVM, precompiles, tensors, folding,
  model runtimes, IPFS, transport): nothing a model checker would add to.
* Code the node does not run: the parallel executor and its MVCC store (blocks
  are executed one transaction after the other), the sequencer's block builder,
  the total order of the DAG, the depth-based finality tracker.
* Sequential code whose whole effect is a function the models take as given:
  state after a block, committee of an epoch, rewards.
* Services beside the chain (bridge, learning daemon, MCP, faucet, wallets) and
  the Solidity contracts, each a system of its own.
* Peer and sync management: the modelled parts are checked against every order,
  repetition and loss of what peers send, so they do not rely on it.

## 6. Where code and documents disagree

* **Scores after pruning and a restart** (`admission_pruned`). A mining node loads
  its chain into the DAG from height 0. The height index names one block per
  height, so a merged sibling below the pruning point does not come back; the
  score of the block that merged it cannot be derived, the header's is taken, and
  the error passes to every block above. `node/src/dag_prune.rs:48` says pruned and
  unpruned nodes compute the same score.
* **Crash during a rebuild** (`apply_floor_crash`). The rebuild moves the durable
  tip to genesis and replays. After a crash in the middle the tip is below a
  certified block, the boot check finds no certificate on the applied chain, the
  floor stays 0, and a heavier conflicting branch is applied.
  `node/src/finality_floor.rs:327` says a restart restores the floor from the
  certificate before any reorg.

Met while modelling, without a run of their own:

* **A vote at the tip.** `OwnVoteRetries::due` drops what is far below the highest
  buried boundary, not what is above it. After a reorg to a heavier but shorter
  chain, a remembered boundary is reported and signed although it is not buried,
  even at the tip. `node/src/finality_driver.rs:8` says a boundary is handed over
  once buried `vote_depth` deep, "never vote at the tip". `FirstReportBuried` is
  therefore about first reports only.
* **An addition that never returns.** The loop of `mempool.rs:757` evicts until the
  newcomer fits, "`Full` if nothing is left to evict". It takes the lowest entry
  of the queue and does not look whether anything was removed: with an entry whose
  transaction is gone (see *Collisions in the pool*) it goes round for ever.
  `AddReturns` without its second disjunct shows it in `mempool`.
* **A tip lost in the rehydration.** `reconcile_tips_from_dag_store` replaces the
  tips by a snapshot taken earlier; a block admitted in between is not among them
  until a descendant comes (`ghostdag.rs:956`). `ForkChoiceHead` excepts it
  (`overtaken`).
* **Redelivery.** `admission.rs:617` says of a block whose registration failed that
  "fork choice will re-register on a later delivery", but a later delivery finds
  it in both stores and returns before that.
* **Repair at start-up** goes up to the chain store's latest height, so a newest
  block that only the DAG store has waits for a delivery, which `main.rs` says the
  repair is there to avoid.
* **Dropped as unpayable.** `producer.rs:3312` says the sender "may re-submit once
  funded"; the removal puts the hash among the evicted, and the same transaction
  is refused as a duplicate until it ages out.

## 7. Next

Proofs: `DagClosed` for nodes that prune or mine but not both; `Indexed` for every
set of transactions and tasks.

## 8. Running

```
tlc -config MCVoteSigning.cfg MCVoteSigning
tlapm VoteSigning_proofs.tla
```

and likewise for the other pairs in `PROJECT.json`. The longest run takes about
two minutes on two cores. The proofs are checked module by module: ten to twelve
minutes for each of the two modules on the applied chain, five to eight for each of
the gadget's two and for `EarlyBuffer_proofs`, about four for
`FinalityDriver_proofs`, less than one for the others. A loaded machine makes leaves
run into the provers' time limits.
