# TLA+ models of Manifoldchain

These are TLA+ models of the block tree, the multichain, the cross-shard
confirmation engine and the mempool with the miner's packaging loop of Manifoldchain (`src/src/manifoldchain`). Manifoldchain is
a sharded proof-of-work UTXO chain, and the models are checked with TLC.

## The system and how its parts interact

A node belongs to one shard (`config.shard_id`). It keeps a **Multichain**, which
holds one **Blockchain** per shard, each behind its own mutex. Every Blockchain
is a tree of `Node`s. A block inserted under two parents appears twice in the
tree, so `hash2node` remembers only its last insertion. A block's status is
Verified or Unverified:

- full blocks of the node's own shard arrive Verified;
- header blocks of other shards arrive Unverified and become Verified when their
  data-availability samples check out (`verify_block`).

`insert_block_with_parent` and `verify_block` return a *confirmation report*
whenever the longest verified fork rises. The report names the block k below the
new tip.

Three kinds of thread drive the node. `main.rs` starts them, and they share one
Multichain and one **Confirmation** (a single mutex):

- **Miner worker** (`miner/worker.rs`). It inserts each mined block under each of
  its parents, then takes the Confirmation lock (`handle_confirmation`).
  - An exclusive block goes into the node's own shard.
  - An inclusive block goes into every shard, starting with shard 0.
- **Network workers**, `p2p_workers` clones (`network/worker.rs`).
  - `handle_blocks` inserts received blocks per parent, then calls
    `Confirmation::update` after the chain lock is released.
  - `handle_samples` and the early-sample path of the ExBlocks/InBlocks handlers
    verify blocks.
- **Confirmation** (`confirmation/mod.rs`). This is a module, not a thread. An
  Output transaction spends inputs whose originator blocks live in other shards.
  `handle_new_block` registers it as unstable. A report of shard s
  (`handle_confirmed_block`) marks a block confirmed and raises `progress[s]`.
  Once every originator block is either confirmed or "deconfirmed" (its shard's
  progress has reached its height), `return_tx` broadcasts an Accept, or a Reject
  that refunds the sender.

Transactions flow through the **Mempool** (`mempool/mod.rs`), one per node
behind one mutex:

- network workers insert received txs (`handle_transactions`, after
  `validate_tx`), request announced ones (`handle_new_transaction_hash`) and
  merge testimonies (`handle_testimonies` -> `add_testimony`);
- the **miner** (`miner/mod.rs`, `miner_loop`) repackages whenever the parents
  it reads have changed. It puts the previous candidate's txs and testimonies
  back, reads the state of the longest chain's tip, pops up to `block_size` txs
  one lock at a time, and checks each one. An Initial tx is taken at once.
  Any other tx is checked against the longest chain, then for a complete
  testimony, then against the state, then for a double spend inside the block.
  Rejected txs and testimonies go back. When a block is found, the miner
  adds to its own mempool the Output tx and testimony of each Input tx that
  pays to its shard. It also adds the testimony of each Output tx whose inputs
  are in its shard.

## Modules

| module | models | state / actions |
|---|---|---|
| `BlockTree` | `blockchain/mod.rs`: `Node` and `Blockchain` | Pure operators over a chain record (details below). |
| `Blockchain` | one shard's Blockchain and its callers | Variables `chain`, `decl`, `report`, `reported`. Actions `NewBlock`, `InsertUnderParent` (one insertion under one declared parent), `Verify`. |
| `Confirmation` | `confirmation/mod.rs` | Pure operators over a record `cf` (details below). |
| `Mempool` | `mempool/mod.rs`, the packaging and post-mining part of `miner_loop`, the tx and testimony handlers of `network/worker.rs`, the longest chain with its UTXO state | Variables `mp`, `mphase`, `changed`, `base`, `pack`, `pre`, `mined`, `chain`, `born`, `inflight`, `resent`, and the history variables `delivered`, `included`. Actions `Broadcast(t)`, `HandleNewTransactionHash(t)`, `HandleTransactions(t)`, `HandleTestimonies(y)`, `Repackage`, `PopOne`, `FinishPackaging`, `PowMiss`, `MineBlock`, `InsertMined`, `ForeignBlock`. |
| `TxPool` | spec 4.6 (the mempool's ordering rule) | Abstract pool: variables `work`, `boot`; actions `Put`, `Take`. `Mempool` refines it (`PoolSpec`). |
| `Node` | one process (`main.rs`): Multichain, Confirmation, miner worker, network workers with their orphan buffers | Variables `chains`, `decl`, `content`, `conf`, `pending`, `sent`, `registered`, `buff`, `asked`, `blk2fp`, `reported`. Actions `MineBlock`, `MineInclusive`, `MinerNextParent`, `HandleNewBlockHash(w)`, `ReceiveBlock(w)`, `NextParent(w)`, `ApplyUpdate(w)`, `DrainBuffer(w)`, `EarlySampleVerify(w)`, `FinishBlocks(w)`, `SampleVerify(w)`, `HandleFraudProofs(w)`. |
| `MCBlockchain`, `MCNode`, `MCMempool` | TLC instantiations | Small constant sets for the runs. |

### BlockTree

A tree node is its path from genesis. `c.tree` lists the nodes in creation order,
which is the order of every `children` vector. A pre-order search therefore
compares two paths by the creation index where they first diverge (`PreBefore`).
Hashes are naturals, and their order stands for the `H256` order used in
tie-breaks.

The operators:

- `InsertBlock` models `insert_block_with_parent`, including `Node::insert`.
- `VerifyBlock` models `verify_block`.
- `LongestVerifiedFork`, `LeavesFrom`, `GetPath` and `ConfirmReport` model the
  searches and the report.

### Confirmation

`cf` holds `progress`, `confirmed`, `unstable` and `final`. The operators are
`Update`, `HandleConfirmedBlock`, `HandleNewBlock`, `Replies` (`return_tx`) and
`FinalOutputs` (the Output part of `confirm_tx`).

### Node

Every call on a chain holds that chain's lock only for the call. A thread's chain
step (an insertion or a verification) is therefore one action. It leaves
`Confirmation::update` pending in `pending[w]`, and `ApplyUpdate(w)` runs the
update later, under the Confirmation lock. This is how the model captures the
code's lock sequence: chain lock released, then Confirmation lock taken. Other
threads' steps may interleave between the two.

Each handler is a loop, and `pending[w]` records where the thread is in it:
`"idle"`, `"loop"` (its `ctx` holds the block, the `<<shard, parent>>` pairs
still to do, the `new_hashs` so far and the `missing_parents`), `"update"` (a
chain step done, its Confirmation update to come), `"drain"` (an orphan found
in `blk_buff` under the block just handled) and `"early"` (after
`handle_blocks`, the ExBlocks handler's sample step). One action is one
iteration, so other threads run between the iterations exactly as they can
between the code's lock acquisitions.

The miner worker (`miner/worker.rs:132-210`) gets a mined block from
`MineBlock` (exclusive: its parents are this shard's leaves) or
`MineInclusive` (inclusive: every shard's leaves). `MinerNextParent` is one
iteration of its loop: shard by shard in the order of `global_parents`, the
block is inserted under the next parent, and `ApplyUpdate(Miner)` runs
`handle_confirmation`. The miner's blocks carry this node's shard id, so they
are Verified on first insertion (`Arrives`, `blockchain/mod.rs:815-848`). A
peer's header of another shard arrives Unverified and becomes Verified only
through `SampleVerify` or `EarlySampleVerify`.

Block gossip is a pull protocol. A peer announces hashes (NewExBlockHash). The
worker asks for the ones its chain of that shard lacks (GetExBlocks), and the
peer answers with the blocks. `HandleNewBlockHash(w)` models the announcement
and the request (`handle_new_block_hash`, `worker.rs:716-750`, the exclusive
arm only). `asked` holds the `<<shard, block>>` pairs requested so far, and
`ReceiveBlock(w)` takes one of them: `handle_blocks` starts its loop over the
block's declared parents (`ParentChoices`: an antichain of held blocks and,
with `OrphanArrival`, one block not yet seen). The block may be one already
held and requested again (`handle_blocks` has no presence check). Answers may
come late, twice or not at all: nothing forces a requested block to arrive.

`NextParent(w)` is one iteration of `handle_blocks`' loop
(`worker.rs:1049-1121`). A parent the chain lacks gets the block stored in
`buff[w][parent]`, overwriting what was there, and joins `missing_parents`.
A held parent leads to the insertion. A block whose parents are partly
held and partly missing is therefore inserted under the held ones and
buffered under the others. Each network worker is a clone with its own
`blk_buff`. After `ApplyUpdate(w)` has handled an inserted block that is a
key of `buff[w]`, `DrainBuffer(w)` (`worker.rs:1170-1203`) inserts the child
under the loop's *original* parent hash, not under the key, and removes the
key whether or not that insertion succeeded. When the loop is done, each hash
of `new_hashs` goes through `EarlySampleVerify(w)` (`worker.rs:196-238`). If
the block's samples are already held (`EarlySamples`), the block is verified,
and the report `verify_block_with_shard` returns is discarded. Then
`FinishBlocks(w)` sends the NewMissBlockHash requests for `missing_parents`
(`worker.rs:1231-1240`, written at 262-267), which adds them to `asked`.
`SampleVerify(w)` is `handle_samples`: samples (from GetSamples or NewSamples
gossip) verify any Unverified block, in any order.

A peer's FraudProofs message is handled by `HandleFraudProofs(w)`
(`handle_fraud_proofs`, `worker.rs:1387-1418`). The proof's invalid block goes
into the receiving worker's `blk2fp[w]`, which is a field of that worker's clone.
`verify_fraud_proof` returns `true` (`VerifyFraudProof`), and the pruning it
would trigger is commented out, so no chain changes. When a worker later inserts
a block linked in its `blk2fp`, the insert loop breaks right after the chain
insertion (`SkipsInsert`, `worker.rs:1133-1146`). The block stays out of
`new_hashs`, and the Confirmation update with its report and the orphan drain
never happen; the loop over the other parents goes on. `FraudBlocks` is the
set of blocks a proof may name: {3} in `MCNode.cfg` and
`MCNode_inclusive.cfg`, and empty in the violation runs.

`reported` is a history variable: every `<<block, shard>>` a chain step has
reported confirmed. `ReportsApplied` compares it with `conf.confirmed`.

### Mempool

`mp` is the Mempool struct: `txs_map` (a set), `txs_queue`, `testimony_map` (a
set of testimonies) and `tx2tmy`. A testimony is a record of its tx, its unit
set and the order its units are listed in. `Testimony::hash` hashes the units
in order. `add_testimony` lists a merged union in HashMap order, so a merge
picks the order nondeterministically from `Orders`. `InsertTx`, `AddTestimony`
and `PopOneTx` are operators translating the three mutating calls. One detail
is kept on purpose: on a merge, `AddTestimony` removes the *new* testimony
(never stored), not the old one, exactly as `mempool/mod.rs:178-181` does.

The miner is a small state machine over `mphase`:

- `Repackage` (parents changed) puts `pre` back and reads `base`, the chain
  whose state is used.
- Each `PopOne` is one iteration of the packaging loop with its own lock. It
  uses the checks `Accepted`, `StateChecked` and `SetAfter`. `SetAfter`
  reproduces the inputs inserted into `set` before the first duplicate.
- `FinishPackaging` puts the invalid txs and testimonies back. The candidate
  becomes `pre`.
- `PowMiss` and `MineBlock` end a PoW attempt.

`TxPool` is the abstract specification of what the mempool promises (spec
4.6). It has two FIFO sequences, `work` (non-Initial txs) and `boot` (Initial
txs). `Put` appends new txs to the back of their class. It may append several
at once, because the miner puts a whole candidate back under one loop. `Take`
removes the oldest work tx, or the oldest boot tx when no work is pending.
`Mempool` instantiates it with `work` and `boot` mapped to the two
subsequences (`SelectSeq`) of `txs_queue`. The mempool run checks `Pool!Spec`
as the property `PoolSpec`, so each `insert_tx` and `pop_one_tx`, in every
interleaving of the miner and the workers, is a step of the abstract pool.

`changed` stands for the comparison of the parents with `pre_*_parents`. Any
block inserted into the chain sets it, and so does mining, which resets
`pre_*`. `InsertMined` is the miner worker inserting the mined block.
`ForeignBlock` is a block of another miner, honest or not, that the code's
`validate_block` accepts. It holds up to `block_size` txs and extends the tip or
forks one block below it. The peer sends an Output tx together with a testimony
(`PeerTmys`). The validator is modelled by operators named after its functions:

- `ValidateBlock` checks each tx with `ValidateTx` against the parent's state.
  It takes the tx's testimony from the block's map (`TmyIn`), and it rejects a
  coin spent twice in the block.
- `ValidateTx` accepts an Initial tx at once. For a received tx
  (`FromTransaction`) it requires the tx to be in neither the mempool nor the
  longest chain. For a tx of a block (`FromBlock`) it calls `CheckTxFromState`.
- `CheckTxFromState` dispatches on the flag. A Domestic or Input tx goes to
  `CheckDomesticInputTx`: no input listed twice, and each own-shard input in
  the state (`CheckInputFromState`). An Output tx needs a testimony and
  `CheckOutputTx`. `CheckOutputTx` is `TRUE` because the code's
  `check_output_tx` returns `Ok(false)` when no input is confirmed, and every
  caller treats any `Ok` as valid.
- `CheckCompleteTestimony` is the miner's check that a testimony covers every
  unit the Output's inputs need.

So a foreign block may re-include an Initial or Output tx, as the code allows.
The longest chain is modelled as a sequence of tx sets. `Utxo(c)` folds
`update_state` over it: Domestic and Input txs spend their own-shard inputs, and
the other txs create coins. The miner records each mined block with its
testimonies and base chain in `mined`, so `CandidateValid` can ask whether
`validate_block` on a peer would accept it.

A tx enters the network through `Broadcast` (a peer's Transactions message).
A peer may later announce it again, and `HandleNewTransactionHash` requests it
then, at most `MaxResend` times. The constant `OwnTmy[t]` is what
`Testimony::generate` makes when this node mines `t`:

- for an Input tx, the unit of its Output for this shard;
- for an Output tx, the unit of its inputs in this shard.

`TmyParts[t]` are the testimonies other shards send.

### What the data is abstracted to

- A block is its hash, its declared parents (`decl`) and, for a block of this
  shard, its Output transactions (`content`).
- An Output is a model value. `Ori[o]` gives the originator `<<block, shard>>`
  locates that its testimony names.
- A reply keeps the block, the transaction, the verdict and the target shards.
- Non-Output transactions are confirmed immediately in the code, so they are
  left out.

## Runs

Pass runs:

| run | cfg | checks | shows |
|---|---|---|---|
| node_one_worker | `MCNode.cfg` | `TypeOK`, `NoRejectOfConfirmedOrigin`, `TipIsCanonical`, `VerifiedTipCurrent` | With one network worker and the miner (no inclusive blocks), no Output is rejected whose originators are later all confirmed. In every shard the tip is the deepest block with the least hash, whatever order the (parent, block) insertions happen in. The cached `lvch`, `vheight` and `leaves` equal their recomputation from the tree. Peer headers arrive Unverified and are verified by samples in any order, early or late; a block may have two parents. A peer's fraud proof may name block 3, whose insert then skips its update. |
| node_inclusive | `MCNode_inclusive.cfg` | `DecidedOutputsAnswered` | A node of shard 1 mining inclusive blocks inserts each into shard 0 before its own shard. `return_tx` drops an Output decided while the block is not yet in shard 1's chain, without a reply. The own-shard insertion later in the same loop registers it again, and `handle_new_block` answers it. So once the miner's loop is over, every registered and decided Output has a reply. Foreign blocks may arrive before their parents and have two parents, so the orphan buffer and its drain run too, as does a fraud proof naming block 3. |
| mempool | `MCMempool.cfg` | `TypeOK`, `MempoolConsistent`, `UnitsConserved`, `CandidateValid`, `PoolSpec` (refinement) | Network workers insert txs and merge testimonies between the miner's pops and put-backs, while foreign blocks move the chain. The mempool's queue and maps stay consistent: no duplicate, and `tx2tmy` always names a stored testimony, so `pop_one_tx`'s `unwrap` cannot panic. No delivered testimony unit of a not-yet-included Output is lost. Every packaged and mined block passes `validate_block`, testimonies included, on the chain whose state it read. The queue implements the abstract pool `TxPool`: two FIFO classes, non-Initial work served before Initial bootstrap txs. |

Violation runs, each a finding in `PROJECT.json`:

| run | property | what TLC shows |
|---|---|---|
| chain_report | `ReportOnVerifiedChain` | `get_path` reaches the tip through an Unverified occurrence, so an Unverified block is reported confirmed (`blockchain/mod.rs:871`). |
| chain_deep | `DeepBlocksConfirmed` | A verified height that jumps by more than one reports only one block; the blocks it skips are never confirmed (`:866`). |
| node_init | `NoRejectOfConfirmedOrigin` | `progress` starts at `0..shard_num`, so shard s behaves as if height s were already settled (`confirmation/mod.rs:80`). |
| node_race | `NoRejectOfConfirmedOrigin` | With `confirmation_depth` 0 (a value the option accepts), two network workers apply their reports in the opposite order of their insertions (`network/worker.rs:1173`). Progress passes block 2 from the later report, and the Output waiting on it is rejected before block 2 is confirmed. With one worker the same blocks give no such Reject. |
| node_sampling | `RejectOnlyIfOvertaken` (action property) | Samples verify block 4 before its parent 3 (no early sampling). Verifying 3 then raises the verified height by two, and only block 3 is reported (`blockchain/mod.rs:866`). Block 2 is never confirmed, progress passes it, and the Output waiting on it is rejected although block 2 is on the longest verified chain. |
| node_early | `ReportsApplied` | A block whose samples are held before it arrives is verified by the ExBlocks handler, which discards the report (`network/worker.rs:221`). The reported block never reaches Confirmation. With `EarlySamples = {FALSE}` the property holds over the same blocks. |
| node_orphan | `OrphansKept` | Block 2 arrives naming block 3, not yet seen, and is buffered under it. Block 3 arrives under genesis, and the drain inserts block 2 under the loop's parent, genesis, which it does not declare (`network/worker.rs:1186`). The insertion fails with "Wrong parent", the key is removed anyway, and block 2 is lost from every buffer although its parent has arrived. |
| mempool_initial | `CandidateFresh` | An Initial tx sits in the mempool when another miner's block including it becomes the tip. The packaging loop takes Initial txs before the in-longest-chain check (`miner/mod.rs:378`), so the miner packages and mines it again on top. Peers accept the block, because validation passes Initial txs unconditionally, and `update_state` re-creates the coin. The spec says every candidate is re-checked for inclusion in the longest chain. |

Every property of a pass run has a mutant in `PROJECT.json`. The mutant is a
plausible bug in a mapped definition that TLC must catch:

| mutant | mutated definition |
|---|---|
| `NewTipNoTieBreak` | `NewTip` |
| `VerifyBlockStaleLeaves` | `VerifyBlock` |
| `UpdateOwnShard` | `Update` |
| `SettledEarly` | `Settled` |
| `RepliesFromOrigin` | `Replies` |
| `InsertTxAtBack` | `InsertTx` |
| `PopOneTxKeepIndex` | `PopOneTx` |
| `AddTestimonyOverwrite` | `AddTestimony` |
| `AcceptedNoSetCheck` | `Accepted` |
| `TysKeepNone` | `Tys` |

`prune_fork` (`blockchain/mod.rs:1161`) and `Multichain::prune_fork_with_shard`
have no caller, so fork pruning is not a step of any module. It would delete
blocks still reachable under another parent, and its tip tie-break differs from
insertion's. These are not hazards of the running code, because it never runs.

## Bounds and why they suffice

### MCBlockchain

- Three blocks and `K = 1`.
- Up to 2 parents per block, as an antichain of held blocks, with any arrival
  status.

This produces every tree shape the findings need:

- a block under two parents;
- two forks of equal height;
- a verified height rising by 3.

Four blocks take over three minutes and add no new shape.

### MCNode

- Two shards and `K = 1`, except `K = 0` in the race run (`confirmation_depth`
  is a command-line option, and 0 is accepted). With `K = 1` and two workers
  the race needs three foreign blocks, and that run takes over four minutes.
- One block of the own shard and two or three foreign blocks.
- One Output whose originator is foreign block 2.
- Optionally one inclusive block.
- At most two parents per block (`MaxParents`), one in the violation runs.
- One network worker in the pass runs, two in the race run.

These sizes reach every situation the runs are about:

- overtaking on a fork;
- reports applied out of order;
- a header block that arrives Unverified and is verified before or after its
  parent;
- samples held before the block (`EarlySamples`);
- a block naming a parent not yet seen, with another parent held or not;
- an inclusive block that is registered before its own-shard insert.

The two-worker and inclusive pass configurations are kept small so that each run
finishes within minutes. The races they would add are exhibited by the
violation runs.

### MCMempool

- Three txs: an Initial `i1` creating coin `c1`; an Input `x1` spending `c1`
  that pays back to this shard; its Output `o2`, whose testimony needs `u3`
  (made by this miner when it mines `x1`) and `u5` (from another shard).
- `BlockSize = 2`, `MaxHeight = 2`, at most one mined block waiting for the
  miner worker (`MaxSent = 1`), and one re-request (`MaxResend = 1`).
- A single unit order (`Orders = {1}`), and no hash tie-breaks between equally
  long forks (`Ties = FALSE`).

These sizes reach every path the properties are about:

- a tx re-delivered while the loop pops;
- a testimony merged while its tx is popped;
- an Output packaged with an incomplete testimony and put back;
- a foreign block at the tip or on a fork;
- a mined block losing to a foreign one.

The run takes about a minute and 386,000 states. A second network testimony
for `o2` (unit `u3` from another miner of this shard, for when `x1` is in a
foreign block) raises it to 920,000 states, too many next to the refinement
check, so it is left out. Two unit orders or equal-fork
tie-breaks multiply the state space by ten or more. A fourth tx (a Domestic
spending `c1`) makes it too large for the run. With one order, the case of a
merged testimony hashing differently from an identical one is not checked.

Deadlock is checked in the `MCBlockchain` and `MCMempool` runs. A state with
nothing enabled there has run out of blocks to mine, which is the end of the
finite model. The `MCNode` configurations say `CHECK_DEADLOCK FALSE`. Once every
block is mined, received and verified, every thread of the node is idle, and
the real node waits for the next message, which is correct. The phases of
`pending` make every unfinished handler enabled, so a stop is always in that
quiescent state.

## Fairness

Every property checked is a safety property, and no `Spec` has fairness. Both
liveness candidates were examined and dropped, for these reasons:

- Every registered Output is eventually answered (`Node`). `DecidedOutputsAnswered`
  already checks that an Output is answered in the step that decides it, and
  the decision depends on blocks arriving, which no fairness of this node's
  threads guarantees. A leads-to property would say no more than the invariant.
- The packaging loop eventually ends (`Mempool`). Under weak fairness of
  `PopOne` and `FinishPackaging` the temporal check over the mempool instance
  takes close to four minutes by itself. The loop pops a finite queue, so its
  ending is clear from the code. The hazards of the loop are ones of order and
  content, and the invariants check those.

## Not modelled

- Hashing, Merkle proofs and the block and transaction encodings are data only.
- The network server's sockets are replaced by the nondeterminism of which block
  arrives when, including duplicates.
- The transaction generator is the workload source. Its flaws are listed as
  hazards (`generator.rs:403/428/492/494`) but not checked.
- Fraud-proof creation and gossip. A proof is made when a full block of this
  node's shard fails validation, and the model has no peer mining this shard.
  The hash exchange (NewFraudProofHash, GetFraudProofs) only moves proofs.
  `prune_fork`, the intended consequence, has no caller.
- The serving handlers (`handle_get_blocks`, the NewMissBlockHash answer,
  samples) only read this node's state. The inclusive and full-block announce
  arms of `handle_new_block_hash` are left out: in the model this node mines
  its shard's blocks and every inclusive block itself.
- No sample monitor re-requests samples (`miner/mod.rs:149` is commented out).
  A lost Samples reply leaves a block Unverified forever (hazard
  `worker.rs:237`). Stating that would need fairness the code does not give.
- In `Mempool`, the longest chain is one sequence of tx sets, with the state
  folded along it. The block tree is in `BlockTree`, which has no per-block
  states or `tx_map`, and the two modules are not composed. A block under two
  parents keeps the state of its first one (`blockchain/mod.rs:897`), and
  that is not checked.
- `delete_txs` and `remove_testimony` are called only from tests.
- The validator's hash and signature checks are not modelled, so neither is
  the panic its error handler hits on a wrong signature (`validator/mod.rs:876`).
  Coin values and their u32 sums are not modelled either, and `validate_tx`
  never compares them with the spent outputs (`validator/mod.rs:242`). Nor is
  `validate_cross_utxo`, which looks at the other shard's confirmations.
- Most of the remaining source is data and I/O. That includes the block and
  transaction types with their hashing and encodings (`versa_block`,
  `transaction/mod.rs`), the socket server, the API, the database (I/O) and
  the bitcoin baseline (a separate system). The mapped definitions translate about a fifth of
  the source lines. What is left either changes no modelled state or would only
  spell out a model value character by character.
- Messages to other shards (testimonies and Output txs sent after mining) are
  not modelled. Their effect on this node is `TmyParts` arriving.

## Plan for later work

1. `ReportsApplied` with fraud proofs: the skip drops the inserted block's
   report as early sampling does (hazard `worker.rs:1139`).
2. The UTXO state per block in the block tree (the state inherited from the
   first parent, `blockchain/mod.rs:897`), composing `Mempool` with `BlockTree`.
3. Coin values in the validator, to check the inflation that the missing
   input-value check allows (`validator/mod.rs:242`).
4. A two-shard composition of `Node` and `Mempool`: an Output mined on one
   shard while its originator shard refunds it (`validator/mod.rs:802`).
5. Beyond `TxPool`, an abstract specification of confirmation (a verdict per Output from the final
   verified chains), with `Node` shown to refine it where the findings allow.
6. Fraud-proof creation on a failed full-block validation, once `Node` has a
   second miner of its own shard.
