------------------------------- MODULE Chain -------------------------------
(***************************************************************************)
(* The chain state machine of the full node (Blockchain in                 *)
(* internal/blockchain/chain.go, the StakeManager of pos.go) and the       *)
(* BoltDB store it commits to (internal/storage/store.go).                 *)
(*                                                                         *)
(* Every exported method of Blockchain takes bc.mu for its whole body, so  *)
(* a method is atomic with respect to the others, except that the loops    *)
(* of AddBlock and of CreateBlockTemplate are split into one step per      *)
(* iteration (pc and tpc).  A writer (AddBlock, AddToMempool) starts only  *)
(* when no template is being built (RLock held) and no other AddBlock is   *)
(* running; a template starts only when no writer holds the lock.          *)
(*                                                                         *)
(* Amounts are integers in units of the smallest amount the code keeps     *)
(* apart (1e-8), so the code's "< 0.00000001" tests become "= 0" and       *)
(* float division becomes \div.  Hashes are the injective abstraction      *)
(* Hash(b) == <<height, txs>>; proof-of-work, bits and the size limit    *)
(* checks of validateBlock are not modelled.                               *)
(***************************************************************************)
EXTENDS Integers, Sequences, FiniteSets

CONSTANTS
    Addr,            \* wallet addresses that send requests and mine
    GenesisAddr,     \* the literal address "genesis" of the genesis coinbase
    NoAddr,          \* the empty string in From/To of minting transactions
    ZeroHash,        \* 64 zero hex digits, the prev hash of genesis
    GenesisTime,     \* cfg.GenesisTimestamp in Unix seconds
    Times,           \* values time.Now().Unix() may return
    Amounts,         \* amounts users put in transfer/stake/unstake requests
    Fee,             \* the fixed wallet fee of handleWalletSend
    InitialReward, HalvingInterval, MaxSupply,
    POWRewardShare, POSRewardShare,   \* reward shares, in percent
    MinStakeAmount, POSMinThreshold, MaxBlockTransactions,
    GossipTxs,       \* transactions peers gossip besides user requests
    PeerBodies,      \* transaction lists of blocks peers relay
    MaxCommitFailures, \* how often Store.CommitBlock may return an error
    MaxHeight, MaxMempool, MaxInflight   \* model bounds

Accounts == Addr \cup {GenesisAddr}
Keys == Accounts \cup {NoAddr}    \* every string the Go maps can be indexed by here
TxTypes == {"coinbase", "pos_reward", "transfer", "stake", "unstake"}
MintTypes == {"coinbase", "pos_reward"}
Output == [address : Keys, amount : Nat]
Tx == [type : TxTypes, from : Keys, to : Keys,
       amount : Nat, fee : Nat, ts : Nat, outs : Seq(Output)]
HashVal == {ZeroHash} \cup (Nat \X Seq(Tx))
Block == [height : Nat, prev : HashVal, txs : Seq(Tx)]

ASSUME AddrAssumption ==
    /\ GenesisAddr \notin Addr
    /\ NoAddr \notin Accounts
    /\ ZeroHash \notin Nat \X Seq(Tx)
ASSUME TimeAssumption == GenesisTime \in Nat /\ Times \subseteq Nat
ASSUME AmountAssumption ==
    /\ Amounts \subseteq Nat /\ Fee \in Nat
    /\ InitialReward \in Nat /\ MaxSupply \in Nat
    /\ HalvingInterval \in Nat \ {0}
    /\ POWRewardShare \in 0..100 /\ POSRewardShare \in 0..100
    /\ POWRewardShare + POSRewardShare <= 100
    /\ MinStakeAmount \in Nat /\ POSMinThreshold \in Nat \ {0}
    /\ MaxBlockTransactions \in Nat \ {0}
ASSUME EnvAssumption ==
    /\ GossipTxs \subseteq Tx /\ PeerBodies \subseteq Seq(Tx)
    /\ MaxCommitFailures \in Nat
    /\ MaxHeight \in Nat /\ MaxMempool \in Nat /\ MaxInflight \in Nat

MinOf(x, y) == IF x < y THEN x ELSE y

(* block.go: ComputeTxID hashes {type, from, to, amount, timestamp}.      *)
TxID(tx) == <<tx.type, tx.from, tx.to, tx.amount, tx.ts>>
(* block.go: NewCoinbaseTransaction.                                       *)
NewCoinbaseTransaction(miner, reward, ts) ==
    [type |-> "coinbase", from |-> NoAddr, to |-> miner, amount |-> reward,
     fee |-> 0, ts |-> ts, outs |-> <<[address |-> miner, amount |-> reward]>>]
(* block.go: NewTransferTransaction, with the fee of handleWalletSend.     *)
NewTransferTransaction(from, to, amount, ts) ==
    [type |-> "transfer", from |-> from, to |-> to, amount |-> amount,
     fee |-> Fee, ts |-> ts, outs |-> <<>>]
(* server.go: the transactions of handleWalletStake / handleWalletUnstake. *)
NewStakeTransaction(kind, from, amount, ts) ==
    [type |-> kind, from |-> from, to |-> NoAddr, amount |-> amount,
     fee |-> 0, ts |-> ts, outs |-> <<>>]
(* genesis.go: CreateGenesisBlock.                                         *)
GenesisBlock ==
    [height |-> 0, prev |-> ZeroHash,
     txs |-> <<[type |-> "coinbase", from |-> NoAddr, to |-> GenesisAddr,
                amount |-> 0, fee |-> 0, ts |-> GenesisTime,
                outs |-> <<[address |-> GenesisAddr, amount |-> 0]>>]>>]
Hash(b) == <<b.height, b.txs>>
TxIDs(b) == {TxID(b.txs[k]) : k \in DOMAIN b.txs}

(* What users submit through the wallet RPC and peers gossip as "tx".      *)
Requests ==
    {NewTransferTransaction(f, t, a, ts) : f \in Addr, t \in Addr, a \in Amounts, ts \in Times}
    \cup {NewStakeTransaction(k, f, a, ts) :
            k \in {"stake", "unstake"}, f \in Addr, a \in Amounts, ts \in Times}
    \cup GossipTxs

VARIABLES
    blocks, sBal, sStake, sMinted,     \* the store: blocks bucket, balances, stakes, total_minted
    bal, stake, minted, tip, mempool,  \* bc.Balances, bc.Stakes, bc.TotalMinted, bc.lastBlock, bc.Mempool
    pc, cur, i, j, chBal, chStake, bm, rem,   \* AddBlock in progress
    tpc, tminer, tts, tr, tk, tleft, tE, touts, \* CreateBlockTemplate in progress
    inflight,                                 \* solved templates not yet submitted
    failures                                  \* failed commits so far

storeVars == <<blocks, sBal, sStake, sMinted>>
memVars == <<bal, stake, minted, tip, mempool>>
addVars == <<pc, cur, i, j, chBal, chStake, bm, rem>>
tmplVars == <<tpc, tminer, tts, tr, tk, tleft, tE, touts>>
vars == <<storeVars, memVars, addVars, tmplVars, inflight, failures>>

(* NewBlockchain on an empty store: commit genesis with empty balances.    *)
Init ==
    /\ blocks = <<GenesisBlock>>
    /\ sBal = [a \in Keys |-> 0] /\ sStake = [a \in Keys |-> 0] /\ sMinted = 0
    /\ bal = [a \in Keys |-> 0] /\ stake = [a \in Keys |-> 0] /\ minted = 0
    /\ tip = GenesisBlock /\ mempool = <<>>
    /\ pc = "idle" /\ cur = GenesisBlock /\ i = 1 /\ j = 1
    /\ chBal = {} /\ chStake = {} /\ bm = 0 /\ rem = <<>>
    /\ tpc = "idle" /\ tminer = GenesisAddr /\ tts = GenesisTime
    /\ tr = 0 /\ tk = 0 /\ tleft = {} /\ tE = 0 /\ touts = <<>>
    /\ inflight = {} /\ failures = 0

(* The locals of a finished or abandoned call are dead; they are reset so  *)
(* that states differing only in them are not told apart.                  *)
AddBlockLocalsReset ==
    /\ cur' = GenesisBlock /\ i' = 1 /\ j' = 1
    /\ chBal' = {} /\ chStake' = {} /\ bm' = 0 /\ rem' = <<>>
TemplateLocalsReset ==
    /\ tpc' = "idle" /\ tminer' = GenesisAddr /\ tts' = GenesisTime
    /\ tr' = 0 /\ tk' = 0 /\ tleft' = {} /\ tE' = 0 /\ touts' = <<>>

(* bc.mu is free: no AddBlock and no CreateBlockTemplate in progress.      *)
Free == pc = "idle" /\ tpc = "idle"

(*************************** AddToMempool *********************************)
AdmitOK(tx) ==
    /\ tx.type = "transfer" => bal[tx.from] >= tx.amount + tx.fee
    /\ tx.type = "stake" =>
          /\ bal[tx.from] - stake[tx.from] >= tx.amount
          /\ tx.amount >= MinStakeAmount
          /\ stake[tx.from] + tx.amount >= POSMinThreshold
AddToMempool(tx) ==
    /\ Free /\ Len(mempool) < MaxMempool
    /\ AdmitOK(tx)
    /\ mempool' = Append(mempool, tx)
    /\ UNCHANGED <<storeVars, bal, stake, minted, tip, addVars, tmplVars, inflight, failures>>

(*********************** CreateBlockTemplate ******************************)
(* Take the read lock; height is Store.GetBlockCount.  CalcBlockReward     *)
(* starts from InitialReward and halves it once per HalvingInterval.       *)
BeginTemplate(miner, ts) ==
    /\ Free /\ Len(blocks) <= MaxHeight /\ Cardinality(inflight) < MaxInflight
    /\ tpc' = "halve" /\ tminer' = miner /\ tts' = ts
    /\ tr' = InitialReward /\ tk' = 0
    /\ UNCHANGED <<storeVars, memVars, addVars, tleft, tE, touts, inflight, failures>>
Halvings == Len(blocks) \div HalvingInterval
HalveReward ==
    /\ tpc = "halve" /\ minted < MaxSupply /\ tk < Halvings
    /\ tr' = tr \div 2 /\ tk' = tk + 1
    /\ UNCHANGED <<storeVars, memVars, addVars, tpc, tminer, tts, tleft, tE, touts, inflight, failures>>
(* The early return for a minted-out supply, the dust cut and the clamp to *)
(* the remaining supply; then CalcPOSRewards' first loop starts.           *)
(* Mutant: the reward is not clamped to the remaining supply.             *)
RewardDoneNoClamp ==
    /\ tpc = "halve" /\ (minted >= MaxSupply \/ tk = Halvings)
    /\ tr' = IF minted >= MaxSupply THEN 0 ELSE tr
    /\ tpc' = "sum" /\ tleft' = Keys /\ tE' = 0
    /\ UNCHANGED <<storeVars, memVars, addVars, tminer, tts, tk, touts, inflight, failures>>
RewardDone ==
    /\ tpc = "halve" /\ (minted >= MaxSupply \/ tk = Halvings)
    /\ tr' = IF minted >= MaxSupply \/ tr = 0 THEN 0 ELSE MinOf(tr, MaxSupply - minted)
    /\ tpc' = "sum" /\ tleft' = Keys /\ tE' = 0
    /\ UNCHANGED <<storeVars, memVars, addVars, tminer, tts, tk, touts, inflight, failures>>
(* One iteration of the eligibleStaked loop, in Go's random map order.     *)
SumEligible(a) ==
    /\ tpc = "sum" /\ a \in tleft
    /\ tE' = tE + (IF stake[a] >= POSMinThreshold THEN stake[a] ELSE 0)
    /\ tleft' = tleft \ {a}
    /\ UNCHANGED <<storeVars, memVars, addVars, tpc, tminer, tts, tr, tk, touts, inflight, failures>>
StartDistribute ==
    /\ tpc = "sum" /\ tleft = {} /\ tE # 0
    /\ tpc' = "out" /\ tleft' = Keys /\ touts' = <<>>
    /\ UNCHANGED <<storeVars, memVars, addVars, tminer, tts, tr, tk, tE, inflight, failures>>
PosReward == (tr * POSRewardShare) \div 100
PowReward == (tr * POWRewardShare) \div 100
(* One iteration of the outputs loop: an eligible staker's share, if not   *)
(* dust.                                                                   *)
Distribute(a) ==
    /\ tpc = "out" /\ a \in tleft
    /\ LET reward == (PosReward * stake[a]) \div tE
       IN touts' = IF stake[a] >= POSMinThreshold /\ reward > 0
                   THEN Append(touts, [address |-> a, amount |-> reward])
                   ELSE touts
    /\ tleft' = tleft \ {a}
    /\ UNCHANGED <<storeVars, memVars, addVars, tpc, tminer, tts, tr, tk, tE, inflight, failures>>
(* The transactions of the template, the first mempool entries after them, *)
(* and the header linked to lastBlock; the miner solves it and it joins    *)
(* the blocks awaiting submission.                                         *)
TemplateTxs ==
    LET head == IF touts # <<>>
                THEN <<NewCoinbaseTransaction(tminer, PowReward, tts),
                       [type |-> "pos_reward", from |-> NoAddr, to |-> NoAddr,
                        amount |-> PosReward, fee |-> 0, ts |-> tts, outs |-> touts]>>
                ELSE <<NewCoinbaseTransaction(tminer, tr, tts)>>
        room == MinOf(MaxBlockTransactions - Len(head), Len(mempool))
    IN IF room > 0 THEN head \o SubSeq(mempool, 1, room) ELSE head
FinishTemplate ==
    /\ \/ tpc = "sum" /\ tleft = {} /\ tE = 0
       \/ tpc = "out" /\ tleft = {}
    /\ inflight' = inflight \cup
         {[height |-> Len(blocks), prev |-> Hash(tip), txs |-> TemplateTxs]}
    /\ TemplateLocalsReset
    /\ UNCHANGED <<storeVars, memVars, addVars, failures>>

(****************************** AddBlock ***********************************)
(* Blocks peers relay, built on this node's tip at its next height.        *)
PeerBlocks ==
    {[height |-> Len(blocks), prev |-> Hash(tip), txs |-> body] : body \in PeerBodies}
(* validateBlock: the height is the store's block count, prev is the hash  *)
(* of lastBlock, and the transaction count is within the limit.            *)
ValidateBlock(b) ==
    /\ b.height = Len(blocks)
    /\ b.prev = Hash(tip)
    /\ Len(b.txs) <= MaxBlockTransactions
(* Take the write lock, validate, and start the transaction loop.          *)
BeginAddBlock(b) ==
    /\ Free /\ Len(blocks) <= MaxHeight
    /\ ValidateBlock(b)
    /\ pc' = "apply" /\ cur' = b /\ i' = 1 /\ j' = 1
    /\ chBal' = {} /\ chStake' = {} /\ bm' = 0
    /\ UNCHANGED <<storeVars, memVars, rem, tmplVars, inflight, failures>>
CurTx == cur.txs[i]
Applying(type) == pc = "apply" /\ i <= Len(cur.txs) /\ CurTx.type = type
(* coinbase / pos_reward: credit one output and count it as minted.        *)
ApplyOutput ==
    /\ pc = "apply" /\ i <= Len(cur.txs) /\ CurTx.type \in MintTypes
    /\ j <= Len(CurTx.outs)
    /\ LET o == CurTx.outs[j]
       IN /\ bal' = [bal EXCEPT ![o.address] = @ + o.amount]
          /\ chBal' = chBal \cup {o.address}
          /\ bm' = bm + o.amount
    /\ IF j = Len(CurTx.outs) THEN i' = i + 1 /\ j' = 1 ELSE i' = i /\ j' = j + 1
    /\ UNCHANGED <<storeVars, stake, minted, tip, mempool, pc, cur, chStake, rem,
                   tmplVars, inflight, failures>>
(* A minting transaction without outputs changes nothing.                  *)
SkipNoOutputs ==
    /\ pc = "apply" /\ i <= Len(cur.txs) /\ CurTx.type \in MintTypes
    /\ CurTx.outs = <<>>
    /\ i' = i + 1
    /\ UNCHANGED <<storeVars, memVars, pc, cur, j, chBal, chStake, bm, rem,
                   tmplVars, inflight, failures>>
(* Mutant: the receiver is left out of changedBalances.                   *)
ApplyTransferNoTo ==
    /\ Applying("transfer")
    /\ LET tx == CurTx
           debited == [bal EXCEPT ![tx.from] = @ - (tx.amount + tx.fee)]
       IN /\ bal' = [debited EXCEPT ![tx.to] = @ + tx.amount]
          /\ chBal' = chBal \cup {tx.from}
    /\ i' = i + 1
    /\ UNCHANGED <<storeVars, stake, minted, tip, mempool, pc, cur, j, chStake, bm,
                   rem, tmplVars, inflight, failures>>
ApplyTransfer ==
    /\ Applying("transfer")
    /\ LET tx == CurTx
           debited == [bal EXCEPT ![tx.from] = @ - (tx.amount + tx.fee)]
       IN /\ bal' = [debited EXCEPT ![tx.to] = @ + tx.amount]
          /\ chBal' = chBal \cup {tx.from, tx.to}
    /\ i' = i + 1
    /\ UNCHANGED <<storeVars, stake, minted, tip, mempool, pc, cur, j, chStake, bm,
                   rem, tmplVars, inflight, failures>>
(* stake: debit the balance, StakeManager.AddStake.                        *)
ApplyStake ==
    /\ Applying("stake")
    /\ bal' = [bal EXCEPT ![CurTx.from] = @ - CurTx.amount]
    /\ stake' = [stake EXCEPT ![CurTx.from] = @ + CurTx.amount]
    /\ chBal' = chBal \cup {CurTx.from} /\ chStake' = chStake \cup {CurTx.from}
    /\ i' = i + 1
    /\ UNCHANGED <<storeVars, minted, tip, mempool, pc, cur, j, bm, rem,
                   tmplVars, inflight, failures>>
(* StakeManager.RemoveStake: an error (no or too little stake) changes     *)
(* nothing; a remainder of zero deletes the entry (stake 0).               *)
(* Mutant: RemoveStake without the "insufficient stake" check.           *)
RemoveStakeUnchecked(st, a, amount) == [st EXCEPT ![a] = @ - amount]
RemoveStake(st, a, amount) ==
    IF st[a] >= amount THEN [st EXCEPT ![a] = @ - amount] ELSE st
(* unstake: RemoveStake, whose error is ignored, then credit the balance.  *)
ApplyUnstake ==
    /\ Applying("unstake")
    /\ stake' = RemoveStake(stake, CurTx.from, CurTx.amount)
    /\ bal' = [bal EXCEPT ![CurTx.from] = @ + CurTx.amount]
    /\ chBal' = chBal \cup {CurTx.from} /\ chStake' = chStake \cup {CurTx.from}
    /\ i' = i + 1
    /\ UNCHANGED <<storeVars, minted, tip, mempool, pc, cur, j, bm, rem,
                   tmplVars, inflight, failures>>
(* Mutant: TotalMinted is written before blockMinted is added to it.    *)
CommitBlockStaleMinted ==
    /\ pc = "apply" /\ i > Len(cur.txs)
    /\ minted' = minted + bm
    /\ blocks' = Append(blocks, cur)
    /\ sBal' = [a \in Keys |-> IF a \in chBal THEN bal[a] ELSE sBal[a]]
    /\ sStake' = [a \in Keys |-> IF a \in chStake THEN stake[a] ELSE sStake[a]]
    /\ sMinted' = minted
    /\ pc' = "prune" /\ i' = 1 /\ rem' = <<>>
    /\ UNCHANGED <<bal, stake, tip, mempool, cur, j, chBal, chStake, bm,
                   tmplVars, inflight, failures>>
(* Mutant: the whole in-memory maps are written, not the changed entries. *)
CommitBlockWritesAll ==
    /\ pc = "apply" /\ i > Len(cur.txs)
    /\ minted' = minted + bm
    /\ blocks' = Append(blocks, cur)
    /\ sBal' = bal
    /\ sStake' = stake
    /\ sMinted' = minted + bm
    /\ pc' = "prune" /\ i' = 1 /\ rem' = <<>>
    /\ UNCHANGED <<bal, stake, tip, mempool, cur, j, chBal, chStake, bm,
                   tmplVars, inflight, failures>>
(* TotalMinted += blockMinted, then Store.CommitBlock: one bolt            *)
(* transaction writes the block, the changed balances and stakes and       *)
(* total_minted.                                                           *)
CommitBlock ==
    /\ pc = "apply" /\ i > Len(cur.txs)
    /\ minted' = minted + bm
    /\ blocks' = Append(blocks, cur)
    /\ sBal' = [a \in Keys |-> IF a \in chBal THEN bal[a] ELSE sBal[a]]
    /\ sStake' = [a \in Keys |-> IF a \in chStake THEN stake[a] ELSE sStake[a]]
    /\ sMinted' = minted + bm
    /\ pc' = "prune" /\ i' = 1 /\ rem' = <<>>
    /\ UNCHANGED <<bal, stake, tip, mempool, cur, j, chBal, chStake, bm,
                   tmplVars, inflight, failures>>
(* CommitBlock returns an error: AddBlock returns it, nothing is undone.   *)
(* Mutant: lastBlock is set before the commit is known to succeed.         *)
CommitFailsKeepsTip ==
    /\ failures < MaxCommitFailures
    /\ pc = "apply" /\ i > Len(cur.txs)
    /\ failures' = failures + 1
    /\ minted' = minted + bm /\ tip' = cur
    /\ pc' = "idle"
    /\ AddBlockLocalsReset
    /\ UNCHANGED <<storeVars, bal, stake, mempool, tmplVars, inflight>>
CommitFails ==
    /\ failures < MaxCommitFailures
    /\ pc = "apply" /\ i > Len(cur.txs)
    /\ failures' = failures + 1
    /\ minted' = minted + bm
    /\ pc' = "idle"
    /\ AddBlockLocalsReset
    /\ UNCHANGED <<storeVars, bal, stake, tip, mempool, tmplVars, inflight>>
(* One iteration of the mempool loop: keep what the block did not include. *)
PruneStep ==
    /\ pc = "prune" /\ i <= Len(mempool)
    /\ rem' = IF TxID(mempool[i]) \in TxIDs(cur) THEN rem ELSE Append(rem, mempool[i])
    /\ i' = i + 1
    /\ UNCHANGED <<storeVars, memVars, pc, cur, j, chBal, chStake, bm,
                   tmplVars, inflight, failures>>
(* Mutant: lastBlock is not moved to the committed block.                  *)
FinishAddBlockNoTip ==
    /\ pc = "prune" /\ i > Len(mempool)
    /\ mempool' = rem /\ pc' = "idle"
    /\ AddBlockLocalsReset
    /\ UNCHANGED <<storeVars, bal, stake, minted, tip, tmplVars, inflight, failures>>
FinishAddBlock ==
    /\ pc = "prune" /\ i > Len(mempool)
    /\ mempool' = rem /\ tip' = cur /\ pc' = "idle"
    /\ AddBlockLocalsReset
    /\ UNCHANGED <<storeVars, bal, stake, minted, tmplVars, inflight, failures>>

(**************************** Environment *********************************)
(* The process stops at any point and NewBlockchain reloads the store:     *)
(* balances, total_minted, stakes and the block at best_height; the        *)
(* mempool starts empty.                                                   *)
Restart ==
    /\ bal' = sBal /\ stake' = sStake /\ minted' = sMinted
    /\ tip' = blocks[Len(blocks)] /\ mempool' = <<>>
    /\ pc' = "idle" /\ AddBlockLocalsReset /\ TemplateLocalsReset
    /\ UNCHANGED <<storeVars, inflight, failures>>
(* A miner gives up a solved block, or peers stop relaying it.             *)
DropBlock(b) ==
    /\ b \in inflight
    /\ inflight' = inflight \ {b}
    /\ UNCHANGED <<storeVars, memVars, addVars, tmplVars, failures>>

Next ==
    \/ \E tx \in Requests : AddToMempool(tx)
    \/ \E m \in Addr, ts \in Times : BeginTemplate(m, ts)
    \/ HalveReward \/ RewardDone \/ StartDistribute \/ FinishTemplate
    \/ \E a \in Keys : SumEligible(a) \/ Distribute(a)
    \/ \E b \in inflight \cup PeerBlocks : BeginAddBlock(b)
    \/ ApplyOutput \/ SkipNoOutputs \/ ApplyTransfer \/ ApplyStake \/ ApplyUnstake
    \/ CommitBlock \/ CommitFails \/ PruneStep \/ FinishAddBlock
    \/ Restart
    \/ \E b \in inflight : DropBlock(b)

Spec == Init /\ [][Next]_vars

(****************************** Properties ********************************)
(* Every variable keeps the shape of the Go field or local it models; in   *)
(* particular stakes stay non-negative (RemoveStake refuses to go below    *)
(* zero) and the minted total is a natural number.                         *)
TypeOK ==
    /\ blocks \in Seq(Block) /\ blocks # <<>>
    /\ sBal \in [Keys -> Int] /\ sStake \in [Keys -> Nat] /\ sMinted \in Nat
    /\ bal \in [Keys -> Int] /\ stake \in [Keys -> Nat] /\ minted \in Nat
    /\ tip \in Block /\ mempool \in Seq(Tx)
    /\ pc \in {"idle", "apply", "prune"} /\ cur \in Block
    /\ i \in Nat \ {0} /\ j \in Nat \ {0}
    /\ chBal \subseteq Keys /\ chStake \subseteq Keys /\ bm \in Nat /\ rem \in Seq(Tx)
    /\ tpc \in {"idle", "halve", "sum", "out"} /\ tminer \in Keys /\ tts \in Nat
    /\ tr \in Nat /\ tk \in Nat /\ tleft \subseteq Keys /\ tE \in Nat
    /\ touts \in Seq(Output)
    /\ inflight \subseteq Block /\ failures \in Nat

(* The store holds a hash-linked chain from genesis at consecutive         *)
(* heights, and bc.lastBlock, from which AddBlock validates and templates  *)
(* take prev, is the stored tip (one block behind only while AddBlock      *)
(* prunes the mempool after committing).  Breaks if lastBlock is moved on  *)
(* a failed commit or not reloaded on restart.                             *)
ChainLinked ==
    /\ blocks[1] = GenesisBlock
    /\ \A k \in 2..Len(blocks) :
          blocks[k].height = k - 1 /\ blocks[k].prev = Hash(blocks[k-1])
    /\ IF pc = "prune"
       THEN Len(blocks) > 1 /\ tip = blocks[Len(blocks)-1] /\ cur = blocks[Len(blocks)]
       ELSE tip = blocks[Len(blocks)]

(* Whenever no block is being applied, the in-memory balances, stakes and  *)
(* TotalMinted equal what the store would reload on restart: AddBlock's    *)
(* changedBalances/changedStakes deltas cover every entry it mutated.      *)
MemoryMatchesStore ==
    pc \in {"idle", "prune"} => bal = sBal /\ stake = sStake /\ minted = sMinted

(* The supply cap of CalcBlockReward: TotalMinted, in memory and in the    *)
(* store, never exceeds MaxSupply.                                         *)
SupplyCap == minted <= MaxSupply /\ sMinted <= MaxSupply

\* The sum of a sequence of naturals.
SeqSum(s) == LET part[k \in 0..Len(s)] == IF k = 0 THEN 0 ELSE part[k - 1] + s[k]
             IN  part[Len(s)]
\* What AddBlock adds to blockMinted for block b: the outputs of its
\* coinbase and pos_reward transactions.
MintedBy(b) ==
    SeqSum([k \in 1..Len(b.txs) |->
              IF b.txs[k].type \in MintTypes
              THEN SeqSum([o \in 1..Len(b.txs[k].outs) |-> b.txs[k].outs[o].amount])
              ELSE 0])

(* The total_minted of the store is what the stored blocks minted: a      *)
(* restart reloads a TotalMinted that the chain on disk accounts for.      *)
(* Store.CommitBlock must write TotalMinted after adding blockMinted, and   *)
(* must not carry the minting of a block whose commit failed.              *)
StoredMintedMatchesBlocks ==
    sMinted = SeqSum([k \in 1..Len(blocks) |-> MintedBy(blocks[k])])

(* Spec section 3: a transfer is applied only when balances[from] covers   *)
(* amount + fee; AddToMempool checks each transfer against the balance     *)
(* alone, not against the transfers already pending.                       *)
TransferCovered ==
    Applying("transfer") => bal[CurTx.from] >= CurTx.amount + CurTx.fee

(* Spec section 9: an unstake is applied only when the stake covers it;    *)
(* AddBlock ignores RemoveStake's error and credits the balance anyway,    *)
(* and AddToMempool admits unstakes unchecked.                             *)
UnstakeCovered ==
    Applying("unstake") => stake[CurTx.from] >= CurTx.amount

(* The accounts the transactions of block b name: senders, receivers and  *)
(* output addresses, the only keys AddBlock's loop puts in changedBalances *)
(* and changedStakes.                                                      *)
TouchedKeys(b) ==
    UNION {{b.txs[k].from, b.txs[k].to}
             \cup {b.txs[k].outs[o].address : o \in DOMAIN b.txs[k].outs}
           : k \in DOMAIN b.txs}

Store == INSTANCE LedgerStore
            WITH Keys <- Keys, Genesis <- GenesisBlock, Hash <- Hash,
                 Names <- TouchedKeys,
                 chain <- blocks, balances <- sBal, stakes <- sStake,
                 total <- sMinted

(* The store behaves as LedgerStore says, failed commits and restarts      *)
(* included: Store.CommitBlock is the only writer, it appends the block    *)
(* above the stored tip, writes no balance or stake of an account the      *)
(* block does not name (changedBalances/changedStakes, not the whole maps, *)
(* even when a failed commit left memory ahead of the store), and never    *)
(* lowers total_minted (memory's TotalMinted is never behind the store's). *)
ImplementsLedgerStore == Store!Spec
====
