# TLA+ models of the devinsidercoin node

This directory holds TLA+ models of the devinsidercoin full node. TLC checks them on small instances, and TLAPS proves some of their theorems for every value of the constants.

## The system

Three parts of the node change the chain state:

- **Chain state machine.** This is `Blockchain` in `src/internal/blockchain/chain.go` together with `StakeManager` in `pos.go`.
  - The in-memory state is `Balances`, `Stakes`, `TotalMinted`, `Mempool` and `lastBlock`.
  - It changes through three methods:
    - `AddToMempool` admits a transaction.
    - `CreateBlockTemplate` builds a block, using `CalcBlockReward` and `CalcPOSRewards`.
    - `AddBlock` validates a block, applies its transactions, commits and prunes the mempool.
  - Every method holds `bc.mu` for its whole body. `AddBlock` and `AddToMempool` take the write lock; the template takes the read lock.
- **Store.** This is `Store.CommitBlock` in `src/internal/storage/store.go`. It writes the block, the changed balances and stakes, and the minted total in one Bolt transaction. `NewBlockchain` reloads memory from it at start-up.
- **Inputs.**
  - The RPC server (`src/internal/rpc/server.go`) turns wallet send, stake and unstake into `AddToMempool` calls.
  - `getblocktemplate` and `submitblock` feed the external miner (`src/unnamed/part_000`).
  - The P2P node (`src/internal/network/node.go`) calls `AddToMempool` for gossiped transactions and `AddBlock` for relayed blocks.

- **Difficulty.** `CreateBlockTemplate` sets a block's bits. It copies the parent's bits, except at every `DifficultyAdjustInterval`-th height, where `calcNextBitsFromDB` retargets with `CalcNextBits` over `Store.GetRecentBlocks`. It then clamps them to the progressive floor (`ApplyProgressiveDifficulty`). `validateBlock` checks the proof of work and the floor. The compact-target codecs are `BitsToTarget`/`TargetToBits` (in `src/unnamed/part_001`, the file whose functions `chain.go` calls) and `CompactToBig`/`BigToCompact` in `pow.go`.
- **P2P layer.** Each node runs one goroutine per TCP connection (`handlePeer`). That goroutine registers the peer in `n.Peers` under `n.mu.Lock`, sends `version` with its best height, and then reads messages.
  - `version` records the peer's height and asks for `getblocks` from `best+1` when the peer is higher.
  - `getblocks` is answered by `sendBlocks`.
  - `block` is dropped at or below the local height; otherwise it goes to `AddBlock`, and on success is relayed to the other peers under `n.mu.RLock`.
  - `submitblock` on the RPC server adds a block and calls `BroadcastBlock`.
  - `main` dials each `--addpeer` address once and never retries.

## Modules

### `Chain.tla`

`Chain.tla` models the chain state machine and the store. Its variables fall into groups:

- **Store:** `blocks`, `sBal`, `sStake`, `sMinted`. These are what a restart reloads.
- **Memory:** `bal`, `stake`, `minted`, `tip` (`lastBlock`), `mempool`.
- **AddBlock locals:** `pc` ∈ {idle, apply, prune}, with the loop indices `i` and `j`, and the change sets `chBal` and `chStake` (`changedBalances` and `changedStakes`).
- **Template locals:** `tpc` ∈ {idle, halve, sum, out}, with the halving counter, the eligible-stake sum `tE` and the PoS outputs `touts`.
- **Environment:** `inflight` (templates handed to miners) and `failures`.

Each loop of the code is one action per iteration, so TLC sees every intermediate state:

| Action | Code |
|---|---|
| `AddToMempool` | `AddToMempool`, chain.go 281-306 |
| `BeginTemplate`, `HalveReward`, `RewardDone` | `CreateBlockTemplate` and `CalcBlockReward`, 262-279 |
| `SumEligible`, `StartDistribute`, `Distribute` | `CalcPOSRewards`, pos.go 79-106 |
| `FinishTemplate` | the rest of `CreateBlockTemplate`: head transactions and mempool slice |
| `BeginAddBlock` | `AddBlock` with `validateBlock`: height and prev-hash, transaction count |
| `ApplyOutput`, `SkipNoOutputs`, `ApplyTransfer`, `ApplyStake`, `ApplyUnstake` | the type switch of `AddBlock`, 408-443 |
| `CommitBlock` / `CommitFails` | `Store.CommitBlock` succeeding or returning an error, chain.go 446-460 |
| `PruneStep`, `FinishAddBlock` | the mempool prune and `bc.lastBlock = block`, 462-473 |
| `Restart` | the reload branch of `NewBlockchain`, 65-72 and 103-111; the mempool is lost |
| `DropBlock` | a template the miner never submits, or a rejected `submitblock` |

Modelling choices:

- **Amounts** are integers in units of 1e-8. The code's `< 0.00000001` tests become `= 0`, and float division becomes `\div`.
- **Block hashes** are the injective abstraction `Hash(b) = <<height, txs>>`.
- **Proof of work, bits and the size limit** are not modelled.
- **Time stamps** come from a constant set `Times`.

### `Compact.tla`

`Compact.tla` holds the pure compact-target arithmetic as operators, one per Go function: `CompactToBig`, `BigToCompact`, `BitsToTarget`, `TargetToBits`, `CheckProofOfWork`, `CalcNextBits`, `ProgressiveDifficultyFloor` and `ApplyProgressiveDifficulty`.

- A `big.Int` is a natural number.
- Masks and shifts become `%` and `\div` by powers of two.
- `target.Bytes()` is described by `ByteLen` and `ByteAt`.

### `Difficulty.tla`

`Difficulty.tla` models the chain as a sequence of `[bits, ts]` records and runs the operators the way the node does:

- `TemplateBitsOn(c)` is the bits computation of `CreateBlockTemplate`, with `calcNextBitsFromDB` and `GetRecentBlocks`.
- `ValidateBits` is the proof-of-work and floor check of `validateBlock`.
- The actions:
  - `MineTemplate` mines the node's own template; the timestamp advances by a spacing from `Spacings`.
  - `AcceptForeignBlock` appends a block whose bits were chosen by other software, as long as `validateBlock` accepts them.
  - `RequestTemplate` is a `getblocktemplate` that changes nothing.
- `MCDifficulty.tla` adds the reference definitions `SpecDecode` and `SpecEncode` of spec 4.1. It checks the codecs over bounded sets of targets and bits (every byte boundary and power of two below 2^31; TLC's integers are 32-bit) and over the tip's bits.

### `Network.tla`

`Network.tla` models several nodes of the P2P layer.

- **Blocks.** A block is its ancestry: the sequence of the miners of heights 1..h. Genesis is `<<>>`. The height check is then `Len` and the prev-hash check is a prefix test.
- **Connections.** Each direction of a connection is a FIFO channel `msgs[<<n, m>>]`. `Peer.Send` appends to it.
- **Goroutines.** `g[<<n, m>>]` is the state of n's read loop for peer m; `<<n, n>>` is n's RPC handler. The states are `down`, `hello`, `idle`, `added`, `relay` and `send`.

| Action | Code |
|---|---|
| `ConnectPeer` | `main`'s dial of one `--addpeer` entry; it may fail for good when `DialCanFail` |
| `RegisterPeer` | `handlePeer`: `n.Peers[addr] = peer` under `n.mu.Lock`, so it waits while any goroutine of n is relaying |
| `SendVersion` | `handlePeer`: version with `GetBestHeight()` |
| `HandleVersion`, `HandleGetBlocks`, `HandleBlock` | the cases of `handleMessage` |
| `SendBlock` | one send of `sendBlocks`, after `GetBlocks` was read once |
| `BeginRelay`, `RelayTo`, `EndRelay` | the relay loop under `n.mu.RLock`, one `p.Send` per step, in map order |
| `SubmitBlock` | `rpcSubmitBlock`'s `AddBlock`; `BroadcastBlock` is the relay of goroutine `<<n, n>>` |

Left out:

- `verack`, whose handler does nothing;
- transaction gossip, which is an input of module `Chain`;
- disconnection, because nothing closes a connection while nodes run;
- blocking socket writes, because channels are unbounded.

`MCNetwork.tla` names the nodes and the `--addpeer` links.

### `BlockTree.tla`

`BlockTree.tla` is the abstract specification of what the P2P layer promises about the chains (spec 4.7 and 9). It has no connections, messages or goroutines, only `tip`, and two actions:

- `Mine(n)`: a miner of n adds the block above n's tip.
- `Adopt(n, k)`: n's chain is a proper prefix of k's, and n takes k's next block.

`Network.tla` instantiates it as `Tree == INSTANCE BlockTree WITH Node <- Node, Miner <- Miner, MaxHeight <- MaxHeight, tip <- tip`, with the identity refinement mapping: the abstract tip is the concrete tip. The property `ImplementsBlockTree == Tree!Spec` says that `Network` implements it.

### `LedgerStore.tla`

`LedgerStore.tla` is the abstract specification of what the BoltDB store promises (spec 4.5, 4.6). It has no memory, mempool, templates or crashes. Its variables are the stored `chain`, `balances`, `stakes` and `total` (total_minted). Its one action, `Commit(b)`, is an atomic commit:

- b has the next height and the hash of the stored tip, and is appended;
- no balance or stake of an account that b's transactions do not name (`Names(b)`) changes;
- `total` does not decrease.

`Chain.tla` instantiates it as `Store == INSTANCE LedgerStore WITH chain <- blocks, balances <- sBal, stakes <- sStake, total <- sMinted, Genesis <- GenesisBlock, Hash <- Hash, Names <- TouchedKeys, Keys <- Keys`. `TouchedKeys(b)` is the senders, receivers and output addresses of b's transactions: the only keys `AddBlock` puts in `changedBalances`/`changedStakes`. The property `ImplementsLedgerStore == Store!Spec` says the store of `Chain` implements it.

### `MCChain.tla`

`MCChain.tla` instantiates the model for TLC:

- two addresses as model values, with symmetry on them;
- a gossiped coinbase;
- a peer block whose coinbase has no outputs.

## Runs

| Run | Module / cfg | Result | Checks |
|---|---|---|---|
| chain_core | MCChain / MCChain.cfg | pass | TypeOK, ChainLinked, MemoryMatchesStore, SupplyCap, StoredMintedMatchesBlocks |
| chain_commit_fail | MCChain / MCChainFail.cfg | pass | ChainLinked, ImplementsLedgerStore |
| commit_fail_divergence | MCChain / MCChainFailV.cfg | violation | StoredMintedMatchesBlocks |
| gossip_coinbase_inflation | MCChain / MCChainGossipV.cfg | violation | SupplyCap |
| mempool_double_spend | MCChain / MCChainDoubleSpendV.cfg | violation | TransferCovered |
| unstake_unchecked | MCChain / MCChainUnstakeV.cfg | violation | UnstakeCovered |
| difficulty_regulator | MCDifficulty / MCDifficulty.cfg | pass | RetargetBounded, BitsStableBetweenRetargets, DecodersMatchSpec, TargetToBitsNeverEasier |
| compact_encoders_spec | MCDifficulty / MCDifficultyEncodersV.cfg | violation | EncodersMatchSpec |
| difficulty_steady_rate | MCDifficulty / MCDifficultySteadyV.cfg | violation | SteadyRateKeepsTarget |
| retarget_not_validated | MCDifficulty / MCDifficultyForeignV.cfg | violation | RetargetEnforced |
| network_catchup | MCNetwork / MCNetworkCatchUp.cfg | pass | TypeOK, HandshakeCatchUp, ImplementsBlockTree |
| network_out_of_sync | MCNetwork / MCNetworkSyncV.cfg | violation | EventuallyInSync |

### The properties

- **ChainLinked.**
  - The stored chain starts at genesis.
  - Each block has the next height and its parent's hash.
  - The in-memory tip is the stored tip. The one exception is during the prune, when the tip is one block behind.
- **ImplementsLedgerStore** (refinement). The store changes only by atomic commits of a block linked to the stored tip, which write the entries of the accounts the block names and never lower total_minted. It is checked with a failing commit: then memory is ahead of the store, and a commit that wrote the whole in-memory maps would persist the failed block's effects on accounts the block does not name. It cannot notice what the code really does wrong there (finding 1): the named accounts and total_minted are written from memory, which still holds the failed block's effects, and LedgerStore allows any value for those.
- **MemoryMatchesStore.** Outside block application, memory equals what a restart would reload. This means the change sets cover every entry `AddBlock` mutated.
- **StoredMintedMatchesBlocks.** The store's total_minted equals the sum of the coinbase and pos_reward outputs of the stored blocks. It relates the counter `CommitBlock` writes to the blocks it wrote, so it catches a minted total persisted out of step with the chain, which a restart then reloads.
- **SupplyCap.** The minted total never exceeds `MaxSupply`.
- **TransferCovered** and **UnstakeCovered** state the spec's requirements on applied transactions.
- **Template properties.** These are about the next template, so they also hold after blocks with foreign bits:
  - **RetargetBounded:** the template's target is at most four times the parent's and at most `target(MinBits)`.
  - **BitsStableBetweenRetargets:** away from retarget heights and floor epochs, the template copies the parent's bits.
- **DecodersMatchSpec** and **TargetToBitsNeverEasier** check the codecs.
- **EncodersMatchSpec, SteadyRateKeepsTarget and RetargetEnforced** are the spec's requirements (4.1, 4.3) that the code breaks.
- **HandshakeCatchUp** (liveness). A node that heard a higher height in a peer's version message eventually reaches it, unless one of the two forks away.
- **ImplementsBlockTree** (refinement). A node's chain is only ever extended: every tip change is a block the node's own miner submitted on that tip, or the next block of the chain the sending peer holds now. This holds even though `sendBlocks` or a relay may have read the block long before, and both chains moved on while it sat in the connection.
- **EventuallyInSync** (liveness). With one miner and every link up, all nodes eventually hold the same chain.

### Bounds

**Chain.** 2 addresses, chain height 2 or 3, a mempool of 1 or 2, and one template in flight. The amounts are chosen so that the boundary cases occur:

- A reward of 10 with `MaxSupply` 12 makes the clamp bite at the second block.
- `HalvingInterval` 2 makes a halving happen.
- `POSMinThreshold` 2 with stakes of 2 makes PoS distribution happen. A node's own stake transactions do not make a staker eligible within the height bound: a stake must be funded by a confirmed coinbase before it is admitted, and by then no height is left for a template that reads it. What makes it happen is `MCStakedPeerBodies`: relayed blocks whose second transaction is a stake of 2 by either address. `AddBlock` applies a relayed block without a balance check, so the stake is recorded, and the next template pays `pos_reward` outputs. chain_core thereby checks `SupplyCap` and `StoredMintedMatchesBlocks` across the PoW/PoS split of `CreateBlockTemplate`.
- The double-spend run (mempool_double_spend) uses amounts of 6 with a fee of 1: a coinbase of 10 covers a stake of 6 and a transfer of 6 + 1 each, but not both. The trace it finds applies the stake, then the transfer against the balance of 6 that the stake and the next coinbase left. It does not need the unchecked unstake of finding 4.

**Difficulty.**

- `AdjustInterval` 2 and `EpochBlocks` 3 with 7 blocks give three retargets and two floor halvings.
- The spacings 1, 5 and 50 seconds hit the lower clamp, the exact rate and the upper clamp.
- `MinBits` is `0x037fffff`: a three-byte mantissa with the top bit clear, so that halving it crosses byte boundaries.
- The foreign bits are that value and `0x0300ffff`.

**Network.**

- Two nodes, both miners, and two blocks. One block can be mined before the connection, one during the catch-up, and two competing blocks at one height.
- Three nodes in a line with height 2 ran for minutes under the liveness check and were left out of the runs.

Together the passing runs fire every action and every disjunct.

### Fairness

The chain and difficulty properties are safety properties. `Network`'s `Spec` adds weak fairness:

- on each `--addpeer` dial, because `main` makes it at start-up;
- on each goroutine's steps. `handlePeer` loops on `scanner.Scan` while its connection is up, TCP delivers what was sent, and locks are released after a bounded relay.

The miner (`SubmitBlock`) has no fairness, because a miner may stop.

### Mutants

Each property of a passing run is broken by a plausible bug in the code it is about:

- an unchecked `RemoveStake`;
- `lastBlock` not updated;
- a transfer that does not record `To` as changed;
- a missing reward clamp;
- `lastBlock` moved on a failed commit;
- `CommitBlock` writing `TotalMinted` before the block's mint is added to it (it breaks `StoredMintedMatchesBlocks`);
- `Store.CommitBlock` writing the whole in-memory maps instead of the changed entries (it breaks `ImplementsLedgerStore` after a failed commit).
- no upper clamp in `CalcNextBits`;
- a retarget at every height;
- a bit shift instead of a byte shift in `BitsToTarget`;
- a mantissa that is not shifted in `TargetToBits`;
- `requestBlocks(best)`;
- `GetBlocks` skipping its first block;
- a missing prev-hash check (it breaks `ImplementsBlockTree`).

## Findings

1. **A failed commit corrupts the store at the next commit.** `AddBlock` mutates memory before `Store.CommitBlock` and does not roll back on error (chain.go:458). The spec requires a rollback. The damage does not stay in memory: the block can be added again, and the next successful `CommitBlock` writes the in-memory `TotalMinted`, which still counts the failed block's mint, and the named accounts' in-memory balances. Run commit_fail_divergence ends with a stored total_minted of 20 over a stored chain that minted 10. A restart reloads these wrong values, so they are durable.
2. **Gossiped coinbase inflates the supply.** `AddToMempool` admits gossiped coinbase transactions (chain.go:304). They are mined and minted beyond `MaxSupply`, because `validateBlock` checks no rewards.
3. **Mempool double-spend.** `AddToMempool` checks a transfer or a stake against the confirmed balance only, not against what is already pending from the same account (chain.go:285). A stake and a transfer, each covered, can then both land in one block and overdraw the account.
4. **Unchecked unstake.** Unstakes are admitted unchecked, and `AddBlock` ignores `RemoveStake`'s error (chain.go:434). The balance is credited without any stake being removed.

5. **TargetToBits does not left-align short targets** (part_001:32). Target 1 encodes as `0x01000001`, which decodes to 0. Spec 4.1 gives `0x01010000`. `ProgressiveDifficultyFloor` raises a vanishing floor target to 1 precisely to keep the chain mineable. It then encodes that 1 with `TargetToBits`, which yields target 0, so no hash meets it.
6. **BigToCompact shifts the size byte into the mantissa** (pow.go:46). Target 128 becomes `0x02018000`, which decodes to 384. This encoder is reached only from `pow.go`'s own `CalcNextBits`.
7. **The retarget window is one interval short** (part_001:71, store.go:171). `GetRecentBlocks(interval)` returns `interval` blocks, which span `interval-1` block times, while the expected time is `interval` block times. A chain mined exactly on schedule gets harder at every retarget.
8. **The retarget is not validated** (chain.go:507). `validateBlock` checks only the floor, so a peer may keep the easiest bits the floor allows. Spec 4.3 requires both checks.
9. **A node can stay behind for good** (node.go:215). The sequence is:
   - A node catching up asks for `getblocks`.
   - The peer reads `GetBlocks` and then mines a block.
   - The peer's `BroadcastBlock` reaches the node before the reply. `AddBlock` rejects it because it is two ahead.
   - Nothing asks for it again. Every later block is rejected the same way.

   Spec 9 says higher blocks require a catch-up via `getblocks`.

## Proofs (`ChainProofs.tla`, `ChainStoreProofs.tla`, `ChainLedgerProofs.tla`, `NetworkProofs.tla`, `NetworkRefinement.tla`)

`ChainProofs.tla` proves two theorems for every value of the constants, under the assumptions in `Chain.tla`:

- `AddrAssumption`: the genesis and empty addresses are distinct from wallet addresses, and the zero hash is not a block hash.
- Amounts, shares, the halving interval and the thresholds are naturals, and the interval and the threshold are non-zero.
- The environment sets are sets of transactions.

### `TypeCorrect`

`TypeCorrect == Spec => []TypeOK`.

TypeOK alone is not inductive, because `Distribute` divides by `tE`. The inductive invariant is `IInv == TypeOK /\ (tpc = "out" => tE # 0)`.

The proof has one lemma per action of the form `IInv /\ A => IInv'`. Each lemma first states the types of the changed variables, then the unchanged tuples. Further lemmas cover the constants (`ConstantsTyped`) and `TemplateTxs` (built from `SubSeqProperties` and `ConcatProperties`).

### `ChainLinkedInvariant`

`ChainLinkedInvariant == Spec => []ChainLinked`.

Its inductive invariant is `LInv == IInv /\ ChainLinked /\ CurLinked`. `CurLinked` says that a block being applied has the next height and the tip's hash. TLC checks it on the chain_commit_fail instance. `CurLinked` is what makes `CommitBlock`'s append keep the links.

The cases of the proof:

- The template, mempool and apply actions leave `blocks`, `tip` and `pc` alone, so they are handled by a frame lemma.
- The other actions each have their own lemma: `BeginAddBlock`, `CommitBlock`, `CommitFails`, `FinishAddBlock` and `Restart`.

### `NetworkProofs.tla`: `TypeCorrect`

These hold for every set of nodes, miners and `--addpeer` links and every height bound allowed by `NetworkAssumption`. That assumption says the links join distinct nodes, miners are nodes and `MaxHeight` is a natural.

- `TypeCorrect == Spec => []TypeOK`.

`TypeOK` alone is not inductive:

- `RelayTo` and `SendBlock` put on the wire the blocks a goroutine carries.
- `SendBlock` takes the `Head` of the list `sendBlocks` walks.

The inductive invariant `IInv` therefore also types the state of every goroutine (`GState`):

- the block an `added` or `relay` goroutine carries;
- the peers still to receive a relayed block;
- the non-empty block list of a `send` goroutine.

It also types every message in flight. There is one lemma per action. `GetBlocksTyped` and `PrefixTyped` show that `Chain.GetBlocks` returns prefixes of the tip, which are blocks.

### `ChainStoreProofs.tla`: `MemoryMatchesStoreHolds`

`MemoryMatchesStoreHolds` states that `MaxCommitFailures = 0 => (Spec => []MemoryMatchesStore)`. The hypothesis says that `Store.CommitBlock` never fails, as in run chain_core. It cannot be dropped: run commit_fail_divergence shows the property fails when a commit fails (finding 1).

`MemoryMatchesStore` is not inductive. During `AddBlock`'s transaction loop, `bal` and `stake` run ahead of the store, and `CommitBlock` writes back only the entries in `changedBalances` and `changedStakes`. The strengthening `SInv` says:

- every balance and stake outside the change sets still equals the stored one;
- `TotalMinted` equals the stored `total_minted`;
- outside the loop, memory and store are equal.

TLC checked `IInv /\ SInv` as an invariant on the chain_core instance before the proof was written. There is one lemma per `AddBlock` step:

- the apply steps add each entry they mutate to its change set;
- `CommitBlock` writes exactly those entries, so memory and store become equal;
- `Restart` reloads from the store;
- every other action is covered by a frame lemma.

### `ChainLedgerProofs.tla`: `RefinesLedgerStore`

`RefinesLedgerStore == Spec => ImplementsLedgerStore` holds for every value of the constants under the assumptions of `Chain.tla`. It holds with any number of failed commits, because `MaxCommitFailures` is not restricted. The proof has three parts:

- `Init` maps to `Store!Init`.
- `CommitBlock` is `Store!Commit` of the block it appends (lemma `CommitBlockIsCommit`).
- Every other action leaves the four store variables unchanged, which is a stutter.

`Commit` needs three facts in the state where `CommitBlock` runs:

- The block has the next height and the hash of the stored tip. `LInv` of `ChainProofs` gives this: `CurLinked` plus `tip = blocks[Len(blocks)]`.
- `chBal` and `chStake` hold only accounts the block names.
- `sMinted <= minted`. After a failed commit, memory's TotalMinted is ahead of the store; it is never behind.

The inductive invariant is therefore `RefInv == LInv /\ KInv`, where `KInv` states the last two facts. TLC checked `KInv` on both chain instances before the proof. Lemma `CurTxTouched` shows that the `from`, `to` and output addresses of the transaction being applied are in `TouchedKeys(cur)`. Each apply action adds only those addresses.

### `NetworkRefinement.tla`: `RefinesBlockTree`

`RefinesBlockTree == Spec => ImplementsBlockTree` holds for every network allowed by `NetworkAssumption`. The proof follows the usual refinement pattern:

- `Init` maps to `Tree!Init`.
- Under the invariant, every step of `Next` maps to a step of `Tree!Next` or leaves `tip` alone:
  - `SubmitBlock` is `Mine`.
  - The accepting branch of `HandleBlock(n, m)` is `Adopt(n, m)` (lemma `AcceptIsAdopt`).
  - Every other step leaves the tips alone.

`Adopt(n, m)` needs the accepted block to be a prefix of m's current tip. The block may have been put on the wire, or taken by a relaying or sending goroutine, many steps earlier. The inductive invariant `RInv` therefore says two things:

- `MsgsOK`: every block in flight from m is a prefix of m's tip;
- `GoOK`: every block a goroutine of m holds in `added`, `relay` or `send` is a prefix of m's tip.

TLC checked `RInv` on the two-node pair and on a three-node line before the proof. `RInv` is preserved for the following reasons:

- tips only grow (`TipGrows`);
- prefixes are transitive (`OKGrow`);
- every block an action puts on the wire or in a goroutine is a prefix of the sender's tip at that moment. For `sendBlocks` this is `GetBlocksPrefix`; for a block just added it is the tip itself.

The lemmas `SendOK` and `PopOK` show that `Peer.Send` and the read loop's receive keep `MsgsOK`.

### What stays with TLC

The following are checked only by TLC:

- `SupplyCap`. `minted` grows by the sum of a block's minting outputs. The PoS outputs are `floor(PosReward * stake / tE)` summed over the eligible stakers. Bounding that sum needs induction over the transaction sequence and the key set. The installed provers cannot do such induction, because the library's induction theorems take an operator parameter.
- `StoredMintedMatchesBlocks`. It sums over the stored blocks with a recursive function, and its preservation by `CommitBlock` needs that sum unfolded over an `Append`, an induction over the sequence.
- `MemoryMatchesStore` when `MaxCommitFailures > 0`. It does not hold there (finding 1).
- Every property of `Difficulty` and `MCDifficulty`. `BitsToTarget` raises 256 to a power that depends on the bits. The installed backends prove nothing about `256^k` for a variable `k`, not even that it is a natural. `Compact.ByteLen` is also a `CHOOSE` over `0..32` whose witness exists only for targets below `256^32`. TLC's enumeration settles these.
- Liveness (`HandshakeCatchUp`, `EventuallyInSync`). TLAPS does not reason about fairness or `ENABLED`.
- The properties of the violation runs.

## Not modelled

- **The nonce search and double SHA-256.** A header's hash is a number drawn from `Hashes`.
- **`pow.go`'s `CalcNextBits`.** It is superseded by `part_001`'s; the two files cannot be built together.
- **Disconnection, verack, transaction gossip between nodes, and blocking socket writes.** The relay-deadlock hazard (node.go:229) needs bounded channels and is not modelled.
- **Three or more nodes under the liveness checks.** They are beyond the five-minute runs.
- **The wallet and configuration loading.** These are I/O only.
- **The earlier JSON-file versions of the chain** kept in `src/docs/mining/RPC_MINING_API.md`.
- **Float rounding.**
