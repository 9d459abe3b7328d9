---------------------------- MODULE ChainProofs ----------------------------
(***************************************************************************)
(* Machine-checked proofs about module Chain, for every value of its       *)
(* constants that satisfies the assumptions declared there.                *)
(***************************************************************************)
EXTENDS Chain, SequenceTheorems, TLAPS

(* The constant facts the type proofs use.                                 *)
LEMMA ConstantsTyped ==
    /\ Accounts \subseteq Keys /\ Addr \subseteq Keys
    /\ GenesisBlock \in Block
    /\ Requests \subseteq Tx
    /\ PeerBodies \subseteq Seq(Tx)
  <1>1. GenesisBlock \in Block
    BY TimeAssumption DEF GenesisBlock, Block, Tx, Output, TxTypes, Keys, Accounts, HashVal
  <1>2. Requests \subseteq Tx
    <2>1. <<>> \in Seq(Output)
      BY EmptySeq
    <2>2. <<>> \in Seq(Output) /\ NoAddr \in Keys /\ Addr \subseteq Keys
      BY <2>1 DEF Keys, Accounts
    <2>3. {NewTransferTransaction(f, t, a, ts) :
              f \in Addr, t \in Addr, a \in Amounts, ts \in Times} \subseteq Tx
      <3>1. ASSUME NEW f \in Addr, NEW t \in Addr, NEW a \in Amounts, NEW ts \in Times
            PROVE  NewTransferTransaction(f, t, a, ts) \in Tx
        BY <2>2, TimeAssumption, AmountAssumption
        DEF Tx, TxTypes, NewTransferTransaction
      <3>2. QED
        BY <3>1
    <2>4. {NewStakeTransaction(k, f, a, ts) :
              k \in {"stake", "unstake"}, f \in Addr, a \in Amounts, ts \in Times} \subseteq Tx
      <3>1. ASSUME NEW k \in {"stake", "unstake"}, NEW f \in Addr, NEW a \in Amounts,
                   NEW ts \in Times
            PROVE  NewStakeTransaction(k, f, a, ts) \in Tx
        BY <2>2, TimeAssumption, AmountAssumption
        DEF Tx, TxTypes, NewStakeTransaction
      <3>2. QED
        BY <3>1
    <2>5. QED
      BY <2>3, <2>4, EnvAssumption DEF Requests
  <1>3. QED
    BY <1>1, <1>2, EnvAssumption DEF Keys, Accounts

(* TypeOK is not inductive on its own: Distribute divides by the eligible  *)
(* stake, which CalcPOSRewards' early return guarantees is not zero.       *)
IInv == TypeOK /\ (tpc = "out" => tE # 0)

(* The transaction AddBlock is applying, and the output it is crediting.  *)
LEMMA CurTxTyped ==
    ASSUME IInv, i <= Len(cur.txs)
    PROVE  /\ CurTx \in Tx
           /\ j <= Len(CurTx.outs) => CurTx.outs[j] \in Output
  <1>1. cur.txs \in Seq(Tx) /\ i \in 1..Len(cur.txs)
    BY DEF IInv, TypeOK, Block
  <1>2. CurTx \in Tx
    BY <1>1, ElementOfSeq DEF CurTx
  <1>3. CurTx.outs \in Seq(Output) /\ (j <= Len(CurTx.outs) => j \in 1..Len(CurTx.outs))
    BY <1>2 DEF Tx, IInv, TypeOK
  <1>4. QED
    BY <1>2, <1>3, ElementOfSeq

(* The steps of AddToMempool and CreateBlockTemplate keep the state typed. *)
LEMMA AddToMempoolTyped ==
    ASSUME IInv, NEW tx \in Requests, AddToMempool(tx) PROVE IInv'
  <1>1. mempool' \in Seq(Tx)
    BY ConstantsTyped, AppendProperties DEF AddToMempool, IInv, TypeOK
  <1>2. UNCHANGED <<storeVars, bal, stake, minted, tip, addVars, tmplVars, inflight, failures>>
    BY DEF AddToMempool
  <1>3. QED
    BY <1>1, <1>2 DEF IInv, TypeOK, storeVars, addVars, tmplVars

LEMMA BeginTemplateTyped ==
    ASSUME IInv, NEW m \in Addr, NEW ts \in Times, BeginTemplate(m, ts) PROVE IInv'
  <1>1. tpc' = "halve" /\ tminer' \in Keys /\ tts' \in Nat /\ tr' \in Nat /\ tk' \in Nat
    BY ConstantsTyped, TimeAssumption, AmountAssumption DEF BeginTemplate
  <1>2. UNCHANGED <<storeVars, memVars, addVars, tleft, tE, touts, inflight, failures>>
    BY DEF BeginTemplate
  <1>3. QED
    BY <1>1, <1>2 DEF IInv, TypeOK, storeVars, memVars, addVars

LEMMA HalveRewardTyped == ASSUME IInv, HalveReward PROVE IInv'
  <1>1. tr' \in Nat /\ tk' \in Nat
    BY AmountAssumption DEF HalveReward, IInv, TypeOK
  <1>2. UNCHANGED <<storeVars, memVars, addVars, tpc, tminer, tts, tleft, tE, touts,
                    inflight, failures>>
    BY DEF HalveReward
  <1>3. QED
    BY <1>1, <1>2 DEF IInv, TypeOK, storeVars, memVars, addVars

LEMMA RewardDoneTyped == ASSUME IInv, RewardDone PROVE IInv'
  <1>1. tr' \in Nat
    BY AmountAssumption DEF RewardDone, MinOf, IInv, TypeOK
  <1>2. tpc' = "sum" /\ tleft' = Keys /\ tE' = 0
    BY DEF RewardDone
  <1>3. UNCHANGED <<storeVars, memVars, addVars, tminer, tts, tk, touts, inflight, failures>>
    BY DEF RewardDone
  <1>4. QED
    BY <1>1, <1>2, <1>3 DEF IInv, TypeOK, storeVars, memVars, addVars

LEMMA SumEligibleTyped == ASSUME IInv, NEW a \in Keys, SumEligible(a) PROVE IInv'
  <1>1. tE' \in Nat
    <2>1. tE \in Nat /\ stake[a] \in Nat
      BY DEF IInv, TypeOK
    <2>2. QED
      BY <2>1 DEF SumEligible
  <1>2. tleft' \subseteq Keys
    BY DEF SumEligible, IInv, TypeOK
  <1>3. tpc = "sum"
    BY DEF SumEligible
  <1>4. UNCHANGED <<storeVars, memVars, addVars, tpc, tminer, tts, tr, tk, touts,
                    inflight, failures>>
    BY DEF SumEligible
  <1>5. TypeOK'
    BY <1>1, <1>2, <1>4 DEF IInv, TypeOK, storeVars, memVars, addVars
  <1>6. QED
    BY <1>3, <1>4, <1>5 DEF IInv

LEMMA StartDistributeTyped == ASSUME IInv, StartDistribute PROVE IInv'
  <1>1. tpc' = "out" /\ tE' # 0 /\ tleft' = Keys /\ touts' \in Seq(Output)
    BY EmptySeq DEF StartDistribute
  <1>2. UNCHANGED <<storeVars, memVars, addVars, tminer, tts, tr, tk, tE, inflight, failures>>
    BY DEF StartDistribute
  <1>3. QED
    BY <1>1, <1>2 DEF IInv, TypeOK, storeVars, memVars, addVars

LEMMA DistributeTyped == ASSUME IInv, NEW a \in Keys, Distribute(a) PROVE IInv'
  <1>1. tE \in Nat \ {0} /\ PosReward \in Nat /\ stake[a] \in Nat
    <2>1. tE \in Nat \ {0}
      BY DEF Distribute, IInv, TypeOK
    <2>2. stake[a] \in Nat /\ tr \in Nat
      BY DEF IInv, TypeOK
    <2>3. POSRewardShare \in 0..100
      BY AmountAssumption
    <2>4. PosReward \in Nat
      BY <2>2, <2>3 DEF PosReward
    <2>5. QED
      BY <2>1, <2>2, <2>4
  <1>2. (PosReward * stake[a]) \div tE \in Nat
    BY <1>1
  <1>3. [address |-> a, amount |-> (PosReward * stake[a]) \div tE] \in Output
    BY <1>2 DEF Output
  <1>4. touts' \in Seq(Output)
    BY <1>3, AppendProperties DEF Distribute, IInv, TypeOK
  <1>5. tleft' \subseteq Keys
    BY DEF Distribute, IInv, TypeOK
  <1>6. UNCHANGED <<storeVars, memVars, addVars, tpc, tminer, tts, tr, tk, tE,
                    inflight, failures>>
    BY DEF Distribute
  <1>7. QED
    BY <1>4, <1>5, <1>6 DEF IInv, TypeOK, storeVars, memVars, addVars

(* A coinbase built by NewCoinbaseTransaction is a well-formed transaction. *)
LEMMA CoinbaseTyped ==
    ASSUME NEW m \in Keys, NEW r \in Nat, NEW ts \in Nat
    PROVE  NewCoinbaseTransaction(m, r, ts) \in Tx
  <1>1. <<[address |-> m, amount |-> r]>> \in Seq(Output)
    BY DEF Output
  <1>2. QED
    BY <1>1 DEF NewCoinbaseTransaction, Tx, TxTypes, Keys, Accounts

(* The transactions of a template: the minting ones, then a prefix of the  *)
(* mempool.                                                                *)
LEMMA TemplateTxsTyped == ASSUME IInv PROVE TemplateTxs \in Seq(Tx)
  <1> DEFINE head == IF touts # <<>>
                THEN <<NewCoinbaseTransaction(tminer, PowReward, tts),
                       [type |-> "pos_reward", from |-> NoAddr, to |-> NoAddr,
                        amount |-> PosReward, fee |-> 0, ts |-> tts, outs |-> touts]>>
                ELSE <<NewCoinbaseTransaction(tminer, tr, tts)>>
             room == MinOf(MaxBlockTransactions - Len(head), Len(mempool))
  <1>1. PowReward \in Nat /\ PosReward \in Nat
    BY AmountAssumption DEF PowReward, PosReward, IInv, TypeOK
  <1>2. /\ NewCoinbaseTransaction(tminer, PowReward, tts) \in Tx
        /\ NewCoinbaseTransaction(tminer, tr, tts) \in Tx
    BY <1>1, CoinbaseTyped DEF IInv, TypeOK
  <1>3. [type |-> "pos_reward", from |-> NoAddr, to |-> NoAddr,
         amount |-> PosReward, fee |-> 0, ts |-> tts, outs |-> touts] \in Tx
    BY <1>1 DEF Tx, TxTypes, Keys, IInv, TypeOK
  <1>4. head \in Seq(Tx)
    BY <1>2, <1>3
  <1>5. room > 0 => SubSeq(mempool, 1, room) \in Seq(Tx)
    <2>1. Len(head) \in Nat /\ mempool \in Seq(Tx) /\ Len(mempool) \in Nat
      BY <1>4, LenProperties DEF IInv, TypeOK
    <2>2. room \in Int /\ room <= Len(mempool)
      BY <2>1, AmountAssumption DEF MinOf
    <2>3. ASSUME NEW k \in 1..room PROVE mempool[k] \in Tx
      <3>1. k \in 1..Len(mempool)
        BY <2>1, <2>2
      <3>2. QED
        BY <2>1, <3>1, ElementOfSeq
    <2>4. QED
      BY <2>2, <2>3, SubSeqProperties
  <1>6. QED
    BY <1>4, <1>5, ConcatProperties DEF TemplateTxs

LEMMA FinishTemplateTyped == ASSUME IInv, FinishTemplate PROVE IInv'
  <1>1. Hash(tip) \in HashVal /\ Len(blocks) \in Nat
    BY DEF Hash, HashVal, Block, IInv, TypeOK
  <1>2. [height |-> Len(blocks), prev |-> Hash(tip), txs |-> TemplateTxs] \in Block
    BY <1>1, TemplateTxsTyped DEF Block
  <1>3. inflight' \subseteq Block
    BY <1>2 DEF FinishTemplate, IInv, TypeOK
  <1>4. /\ tpc' = "idle" /\ tminer' \in Keys /\ tts' \in Nat /\ tr' \in Nat /\ tk' \in Nat
        /\ tleft' \subseteq Keys /\ tE' \in Nat /\ touts' \in Seq(Output)
    BY TimeAssumption, EmptySeq DEF FinishTemplate, TemplateLocalsReset, Keys, Accounts
  <1>5. UNCHANGED <<storeVars, memVars, addVars, failures>>
    BY DEF FinishTemplate
  <1>6. QED
    BY <1>3, <1>4, <1>5 DEF IInv, TypeOK, storeVars, memVars, addVars

(* The steps of AddBlock keep the state typed.                             *)
LEMMA BeginAddBlockTyped ==
    ASSUME IInv, NEW b \in inflight \cup PeerBlocks, BeginAddBlock(b) PROVE IInv'
  <1>1. PeerBlocks \subseteq Block
    <2>1. Hash(tip) \in HashVal /\ Len(blocks) \in Nat
      BY DEF Hash, HashVal, Block, IInv, TypeOK
    <2>2. QED
      BY <2>1, ConstantsTyped DEF PeerBlocks, Block
  <1>2. cur' \in Block
    BY <1>1 DEF BeginAddBlock, IInv, TypeOK
  <1>3. /\ pc' = "apply" /\ i' = 1 /\ j' = 1 /\ chBal' = {} /\ chStake' = {} /\ bm' = 0
    BY DEF BeginAddBlock
  <1>4. UNCHANGED <<storeVars, memVars, rem, tmplVars, inflight, failures>>
    BY DEF BeginAddBlock
  <1>5. QED
    BY <1>2, <1>3, <1>4 DEF IInv, TypeOK, storeVars, memVars, tmplVars

LEMMA ApplyOutputTyped == ASSUME IInv, ApplyOutput PROVE IInv'
  <1>1. CurTx.outs[j] \in Output
    BY CurTxTyped DEF ApplyOutput
  <1>2. /\ bal \in [Keys -> Int] /\ chBal \subseteq Keys /\ bm \in Nat
        /\ i \in Nat \ {0} /\ j \in Nat \ {0}
        /\ CurTx.outs[j].address \in Keys /\ CurTx.outs[j].amount \in Nat
    BY <1>1 DEF Output, IInv, TypeOK
  <1>3. bal' \in [Keys -> Int] /\ chBal' \subseteq Keys /\ bm' \in Nat
    <2>1. bal' = [bal EXCEPT ![CurTx.outs[j].address] = @ + CurTx.outs[j].amount]
      BY DEF ApplyOutput
    <2>2. bal' \in [Keys -> Int]
      BY <1>2, <2>1
    <2>3. chBal' \subseteq Keys
      BY <1>2 DEF ApplyOutput
    <2>4. bm' \in Nat
      BY <1>2 DEF ApplyOutput
    <2>5. QED
      BY <2>2, <2>3, <2>4
  <1>4. i' \in Nat \ {0} /\ j' \in Nat \ {0}
    BY <1>2 DEF ApplyOutput
  <1>5. UNCHANGED <<storeVars, stake, minted, tip, mempool, pc, cur, chStake, rem,
                    tmplVars, inflight, failures>>
    BY DEF ApplyOutput
  <1>6. TypeOK'
    BY <1>3, <1>4, <1>5 DEF IInv, TypeOK, storeVars, tmplVars
  <1>7. (tpc = "out" => tE # 0)'
    BY <1>5 DEF IInv, tmplVars
  <1>8. QED
    BY <1>6, <1>7 DEF IInv

LEMMA SkipNoOutputsTyped == ASSUME IInv, SkipNoOutputs PROVE IInv'
  <1>1. i' \in Nat \ {0}
    <2>1. i \in Nat \ {0}
      BY DEF IInv, TypeOK
    <2>2. i' = i + 1
      BY DEF SkipNoOutputs
    <2>3. QED
      BY <2>1, <2>2
  <1>2. UNCHANGED <<storeVars, memVars, pc, cur, j, chBal, chStake, bm, rem,
                    tmplVars, inflight, failures>>
    BY DEF SkipNoOutputs
  <1>3. QED
    BY <1>1, <1>2 DEF IInv, TypeOK, storeVars, memVars, tmplVars

LEMMA ApplyTransferTyped == ASSUME IInv, ApplyTransfer PROVE IInv'
  <1>1. CurTx \in Tx
    BY CurTxTyped DEF ApplyTransfer, Applying
  <1>0. /\ CurTx.from \in Keys /\ CurTx.to \in Keys
        /\ CurTx.amount \in Nat /\ CurTx.fee \in Nat
        /\ bal \in [Keys -> Int] /\ stake \in [Keys -> Nat]
        /\ chBal \subseteq Keys /\ chStake \subseteq Keys /\ i \in Nat \ {0}
    BY <1>1 DEF Tx, IInv, TypeOK
  <1>2. /\ bal' \in [Keys -> Int] /\ chBal' \subseteq Keys /\ i' \in Nat \ {0}
    <2> DEFINE tx == CurTx
               debited == [bal EXCEPT ![tx.from] = @ - (tx.amount + tx.fee)]
    <2>1. debited \in [Keys -> Int]
      BY <1>0
    <2>2. bal' = [debited EXCEPT ![tx.to] = @ + tx.amount]
      BY DEF ApplyTransfer
    <2>3. bal' \in [Keys -> Int]
      BY <1>0, <2>1, <2>2
    <2>4. chBal' = chBal \cup {tx.from, tx.to} /\ i' = i + 1
      BY DEF ApplyTransfer
    <2>5. chBal' \subseteq Keys
      BY <1>0, <2>4
    <2>6. i' \in Nat \ {0}
      BY <1>0, <2>4
    <2>7. QED
      BY <2>3, <2>5, <2>6
  <1>3. UNCHANGED <<storeVars, stake, minted, tip, mempool, pc, cur, j, chStake, bm,
                    rem, tmplVars, inflight, failures>>
    BY DEF ApplyTransfer
  <1>4. QED
    BY <1>2, <1>3 DEF IInv, TypeOK, storeVars, tmplVars

LEMMA ApplyStakeTyped == ASSUME IInv, ApplyStake PROVE IInv'
  <1>1. CurTx \in Tx
    BY CurTxTyped DEF ApplyStake, Applying
  <1>0. /\ CurTx.from \in Keys /\ CurTx.to \in Keys
        /\ CurTx.amount \in Nat /\ CurTx.fee \in Nat
        /\ bal \in [Keys -> Int] /\ stake \in [Keys -> Nat]
        /\ chBal \subseteq Keys /\ chStake \subseteq Keys /\ i \in Nat \ {0}
    BY <1>1 DEF Tx, IInv, TypeOK
  <1>2. /\ bal' \in [Keys -> Int] /\ stake' \in [Keys -> Nat]
        /\ chBal' \subseteq Keys /\ chStake' \subseteq Keys /\ i' \in Nat \ {0}
    <2>1. bal' = [bal EXCEPT ![CurTx.from] = @ - CurTx.amount]
          /\ stake' = [stake EXCEPT ![CurTx.from] = @ + CurTx.amount]
      BY DEF ApplyStake
    <2>2. bal' \in [Keys -> Int] /\ stake' \in [Keys -> Nat]
      BY <1>0, <2>1
    <2>3. /\ chBal' = chBal \cup {CurTx.from} /\ chStake' = chStake \cup {CurTx.from}
          /\ i' = i + 1
      BY DEF ApplyStake
    <2>4. QED
      BY <1>0, <2>2, <2>3
  <1>3. UNCHANGED <<storeVars, minted, tip, mempool, pc, cur, j, bm, rem,
                    tmplVars, inflight, failures>>
    BY DEF ApplyStake
  <1>4. QED
    BY <1>2, <1>3 DEF IInv, TypeOK, storeVars, tmplVars

(* RemoveStake never takes a stake below zero.                             *)
LEMMA RemoveStakeTyped ==
    ASSUME NEW st \in [Keys -> Nat], NEW a \in Keys, NEW amount \in Nat
    PROVE  RemoveStake(st, a, amount) \in [Keys -> Nat]
  BY DEF RemoveStake

LEMMA ApplyUnstakeTyped == ASSUME IInv, ApplyUnstake PROVE IInv'
  <1>1. CurTx \in Tx
    BY CurTxTyped DEF ApplyUnstake, Applying
  <1>0. /\ CurTx.from \in Keys /\ CurTx.to \in Keys
        /\ CurTx.amount \in Nat /\ CurTx.fee \in Nat
        /\ bal \in [Keys -> Int] /\ stake \in [Keys -> Nat]
        /\ chBal \subseteq Keys /\ chStake \subseteq Keys /\ i \in Nat \ {0}
    BY <1>1 DEF Tx, IInv, TypeOK
  <1>2. stake' \in [Keys -> Nat]
    BY <1>0, RemoveStakeTyped DEF ApplyUnstake
  <1>3. /\ bal' \in [Keys -> Int]
        /\ chBal' \subseteq Keys /\ chStake' \subseteq Keys /\ i' \in Nat \ {0}
    <2>1. bal' = [bal EXCEPT ![CurTx.from] = @ + CurTx.amount]
      BY DEF ApplyUnstake
    <2>2. /\ chBal' = chBal \cup {CurTx.from} /\ chStake' = chStake \cup {CurTx.from}
          /\ i' = i + 1
      BY DEF ApplyUnstake
    <2>3. QED
      BY <1>0, <2>1, <2>2
  <1>4. UNCHANGED <<storeVars, minted, tip, mempool, pc, cur, j, bm, rem,
                    tmplVars, inflight, failures>>
    BY DEF ApplyUnstake
  <1>5. QED
    BY <1>2, <1>3, <1>4 DEF IInv, TypeOK, storeVars, tmplVars

(* The locals reset when a call ends are well typed.                       *)
LEMMA ResetsTyped ==
    /\ AddBlockLocalsReset =>
          /\ cur' \in Block /\ i' \in Nat \ {0} /\ j' \in Nat \ {0}
          /\ chBal' \subseteq Keys /\ chStake' \subseteq Keys /\ bm' \in Nat
          /\ rem' \in Seq(Tx)
    /\ TemplateLocalsReset =>
          /\ tpc' = "idle" /\ tminer' \in Keys /\ tts' \in Nat /\ tr' \in Nat
          /\ tk' \in Nat /\ tleft' \subseteq Keys /\ tE' \in Nat /\ touts' \in Seq(Output)
  <1>1. <<>> \in Seq(Tx) /\ <<>> \in Seq(Output)
    BY EmptySeq
  <1>2. GenesisBlock \in Block /\ GenesisAddr \in Keys /\ GenesisTime \in Nat
    BY ConstantsTyped, TimeAssumption DEF Keys, Accounts
  <1>3. AddBlockLocalsReset =>
          /\ cur' \in Block /\ i' \in Nat \ {0} /\ j' \in Nat \ {0}
          /\ chBal' \subseteq Keys /\ chStake' \subseteq Keys /\ bm' \in Nat
          /\ rem' \in Seq(Tx)
    BY <1>1, <1>2 DEF AddBlockLocalsReset
  <1>4. TemplateLocalsReset =>
          /\ tpc' = "idle" /\ tminer' \in Keys /\ tts' \in Nat /\ tr' \in Nat
          /\ tk' \in Nat /\ tleft' \subseteq Keys /\ tE' \in Nat /\ touts' \in Seq(Output)
    BY <1>1, <1>2 DEF TemplateLocalsReset
  <1>5. QED
    BY <1>3, <1>4

LEMMA CommitBlockTyped == ASSUME IInv, CommitBlock PROVE IInv'
  <1>1. blocks' \in Seq(Block) /\ blocks' # <<>>
    <2>1. blocks \in Seq(Block) /\ cur \in Block
      BY DEF IInv, TypeOK
    <2>2. QED
      BY <2>1, AppendProperties DEF CommitBlock
  <1>2. /\ sBal' \in [Keys -> Int] /\ sStake' \in [Keys -> Nat] /\ sMinted' \in Nat
        /\ minted' \in Nat
    BY DEF CommitBlock, IInv, TypeOK
  <1>3. pc' = "prune" /\ i' = 1 /\ rem' \in Seq(Tx)
    BY EmptySeq DEF CommitBlock
  <1>4. UNCHANGED <<bal, stake, tip, mempool, cur, j, chBal, chStake, bm,
                    tmplVars, inflight, failures>>
    BY DEF CommitBlock
  <1>5. QED
    BY <1>1, <1>2, <1>3, <1>4 DEF IInv, TypeOK, tmplVars

LEMMA CommitFailsTyped == ASSUME IInv, CommitFails PROVE IInv'
  <1>1. failures' \in Nat /\ minted' \in Nat /\ pc' = "idle"
    BY DEF CommitFails, IInv, TypeOK
  <1>2. AddBlockLocalsReset
    BY DEF CommitFails
  <1>3. UNCHANGED <<storeVars, bal, stake, tip, mempool, tmplVars, inflight>>
    BY DEF CommitFails
  <1>4. QED
    BY <1>1, <1>2, <1>3, ResetsTyped DEF IInv, TypeOK, storeVars, tmplVars

LEMMA PruneStepTyped == ASSUME IInv, PruneStep PROVE IInv'
  <1>1. mempool[i] \in Tx
    BY ElementOfSeq DEF PruneStep, IInv, TypeOK
  <1>2. rem' \in Seq(Tx) /\ i' \in Nat \ {0}
    BY <1>1, AppendProperties DEF PruneStep, IInv, TypeOK
  <1>3. UNCHANGED <<storeVars, memVars, pc, cur, j, chBal, chStake, bm,
                    tmplVars, inflight, failures>>
    BY DEF PruneStep
  <1>4. QED
    BY <1>2, <1>3 DEF IInv, TypeOK, storeVars, memVars, tmplVars

LEMMA FinishAddBlockTyped == ASSUME IInv, FinishAddBlock PROVE IInv'
  <1>1. mempool' \in Seq(Tx) /\ tip' \in Block /\ pc' = "idle"
    BY DEF FinishAddBlock, IInv, TypeOK
  <1>2. AddBlockLocalsReset
    BY DEF FinishAddBlock
  <1>3. UNCHANGED <<storeVars, bal, stake, minted, tmplVars, inflight, failures>>
    BY DEF FinishAddBlock
  <1>4. QED
    BY <1>1, <1>2, <1>3, ResetsTyped DEF IInv, TypeOK, storeVars, tmplVars

LEMMA RestartTyped == ASSUME IInv, Restart PROVE IInv'
  <1>1. tip' \in Block
    BY ElementOfSeq, LenProperties, EmptySeq DEF Restart, IInv, TypeOK
  <1>2. /\ bal' \in [Keys -> Int] /\ stake' \in [Keys -> Nat] /\ minted' \in Nat
        /\ mempool' \in Seq(Tx) /\ pc' = "idle"
    BY EmptySeq DEF Restart, IInv, TypeOK
  <1>3. AddBlockLocalsReset /\ TemplateLocalsReset
    BY DEF Restart
  <1>4. UNCHANGED <<storeVars, inflight, failures>>
    BY DEF Restart
  <1>5. QED
    BY <1>1, <1>2, <1>3, <1>4, ResetsTyped DEF IInv, TypeOK, storeVars

LEMMA DropBlockTyped == ASSUME IInv, NEW b \in inflight, DropBlock(b) PROVE IInv'
  <1>1. inflight' \subseteq Block
    BY DEF DropBlock, IInv, TypeOK
  <1>2. UNCHANGED <<storeVars, memVars, addVars, tmplVars, failures>>
    BY DEF DropBlock
  <1>3. QED
    BY <1>1, <1>2 DEF IInv, TypeOK, storeVars, memVars, addVars, tmplVars

LEMMA StutterTyped == ASSUME IInv, UNCHANGED vars PROVE IInv'
  BY DEF vars, storeVars, memVars, addVars, tmplVars, IInv, TypeOK

(* The initial state, the store right after NewBlockchain committed       *)
(* genesis, satisfies the inductive invariant.                            *)
LEMMA InitIInv == ASSUME Init PROVE IInv
  <1>1. <<>> \in Seq(Tx) /\ <<>> \in Seq(Output)
    BY EmptySeq
  <1>2. blocks \in Seq(Block) /\ blocks # <<>> /\ tip \in Block /\ cur \in Block
    BY ConstantsTyped DEF Init
  <1>3. /\ sBal \in [Keys -> Int] /\ sStake \in [Keys -> Nat] /\ sMinted \in Nat
        /\ bal \in [Keys -> Int] /\ stake \in [Keys -> Nat] /\ minted \in Nat
        /\ mempool \in Seq(Tx) /\ rem \in Seq(Tx) /\ touts \in Seq(Output)
    BY <1>1 DEF Init
  <1>4. /\ tminer \in Keys /\ tts \in Nat
    BY TimeAssumption DEF Init, Keys, Accounts
  <1>5. /\ pc \in {"idle", "apply", "prune"} /\ i \in Nat \ {0} /\ j \in Nat \ {0}
        /\ chBal \subseteq Keys /\ chStake \subseteq Keys /\ bm \in Nat
        /\ tpc \in {"idle", "halve", "sum", "out"} /\ tpc # "out"
        /\ tr \in Nat /\ tk \in Nat /\ tleft \subseteq Keys /\ tE \in Nat
        /\ inflight \subseteq Block /\ failures \in Nat
    BY DEF Init
  <1>6. QED
    BY <1>2, <1>3, <1>4, <1>5 DEF IInv, TypeOK

(* Every step of the node and of its environment keeps the invariant.     *)
LEMMA NextIInv == IInv /\ [Next]_vars => IInv'
  <1> SUFFICES ASSUME IInv, [Next]_vars PROVE IInv'
    OBVIOUS
  <1>1. CASE \E tx \in Requests : AddToMempool(tx)
    BY <1>1, AddToMempoolTyped
  <1>2. CASE \E m \in Addr, ts \in Times : BeginTemplate(m, ts)
    BY <1>2, BeginTemplateTyped
  <1>3. CASE HalveReward \/ RewardDone \/ StartDistribute \/ FinishTemplate
    BY <1>3, HalveRewardTyped, RewardDoneTyped, StartDistributeTyped, FinishTemplateTyped
  <1>4. CASE \E a \in Keys : SumEligible(a) \/ Distribute(a)
    BY <1>4, SumEligibleTyped, DistributeTyped
  <1>5. CASE \E b \in inflight \cup PeerBlocks : BeginAddBlock(b)
    BY <1>5, BeginAddBlockTyped
  <1>6. CASE ApplyOutput \/ SkipNoOutputs \/ ApplyTransfer \/ ApplyStake \/ ApplyUnstake
    BY <1>6, ApplyOutputTyped, SkipNoOutputsTyped, ApplyTransferTyped, ApplyStakeTyped,
       ApplyUnstakeTyped
  <1>7. CASE CommitBlock \/ CommitFails \/ PruneStep \/ FinishAddBlock
    BY <1>7, CommitBlockTyped, CommitFailsTyped, PruneStepTyped, FinishAddBlockTyped
  <1>8. CASE Restart
    BY <1>8, RestartTyped
  <1>9. CASE \E b \in inflight : DropBlock(b)
    BY <1>9, DropBlockTyped
  <1>10. CASE UNCHANGED vars
    BY <1>10, StutterTyped
  <1>11. QED
    BY <1>1, <1>2, <1>3, <1>4, <1>5, <1>6, <1>7, <1>8, <1>9, <1>10 DEF Next

(* Type correctness of the chain state machine: every variable of the      *)
(* node (store, memory, the AddBlock and CreateBlockTemplate locals) keeps *)
(* its type in every reachable state, for all constants meeting Chain's    *)
(* assumptions; in particular no stake goes negative.                      *)
THEOREM TypeCorrect == Spec => []TypeOK
  <1>1. Init => IInv
    BY InitIInv
  <1>2. IInv => TypeOK
    BY DEF IInv
  <1>3. QED
    BY <1>1, <1>2, NextIInv, PTL DEF Spec

(***************************************************************************)
(* ChainLinked.  It is not inductive on its own: CommitBlock appends the   *)
(* block AddBlock validated, so the block being applied must still be the  *)
(* next one on top of lastBlock (CurLinked).                               *)
(***************************************************************************)
CurLinked == pc = "apply" => cur.height = Len(blocks) /\ cur.prev = Hash(tip)
LInv == IInv /\ ChainLinked /\ CurLinked

(* Steps that leave the store's blocks, lastBlock and AddBlock's control   *)
(* alone keep the chain invariants.                                        *)
LEMMA LinkFrame ==
    ASSUME LInv, UNCHANGED <<blocks, tip, pc, cur>>
    PROVE  (ChainLinked /\ CurLinked)'
  BY DEF LInv, ChainLinked, CurLinked

LEMMA BeginAddBlockLinked ==
    ASSUME LInv, NEW b \in inflight \cup PeerBlocks, BeginAddBlock(b)
    PROVE  (ChainLinked /\ CurLinked)'
  <1>1. pc = "idle" /\ tip = blocks[Len(blocks)]
    BY DEF BeginAddBlock, Free, LInv, ChainLinked
  <1>2. pc' = "apply" /\ cur'.height = Len(blocks') /\ cur'.prev = Hash(tip')
    BY DEF BeginAddBlock, ValidateBlock, storeVars, memVars
  <1>3. UNCHANGED <<blocks, tip>>
    BY DEF BeginAddBlock, storeVars, memVars
  <1>4. QED
    BY <1>1, <1>2, <1>3 DEF LInv, ChainLinked, CurLinked

LEMMA CommitBlockLinked ==
    ASSUME LInv, CommitBlock PROVE (ChainLinked /\ CurLinked)'
  <1> DEFINE n == Len(blocks)
  <1>1. blocks \in Seq(Block) /\ cur \in Block /\ n \in Nat /\ n >= 1
    BY EmptySeq, LenProperties DEF LInv, IInv, TypeOK
  <1>2. pc = "apply" /\ tip = blocks[n] /\ cur.height = n /\ cur.prev = Hash(blocks[n])
    BY DEF CommitBlock, LInv, ChainLinked, CurLinked
  <1>3. /\ Len(blocks') = n + 1
        /\ \A k \in 1..n : blocks'[k] = blocks[k]
        /\ blocks'[n + 1] = cur
    BY <1>1, AppendProperties DEF CommitBlock
  <1>4. pc' = "prune" /\ UNCHANGED <<tip, cur>>
    BY DEF CommitBlock
  <1>5. blocks'[1] = GenesisBlock
    BY <1>1, <1>3 DEF LInv, ChainLinked
  <1>6. \A k \in 2..Len(blocks') :
           blocks'[k].height = k - 1 /\ blocks'[k].prev = Hash(blocks'[k-1])
    <2>1. SUFFICES ASSUME NEW k \in 2..(n + 1)
                   PROVE  blocks'[k].height = k - 1 /\ blocks'[k].prev = Hash(blocks'[k-1])
      BY <1>3
    <2>2. CASE k <= n
      BY <1>1, <1>3, <2>2 DEF LInv, ChainLinked
    <2>3. CASE k = n + 1
      BY <1>1, <1>2, <1>3, <2>3
    <2>4. QED
      BY <1>1, <2>2, <2>3
  <1>7. Len(blocks') > 1 /\ tip' = blocks'[Len(blocks') - 1] /\ cur' = blocks'[Len(blocks')]
    BY <1>1, <1>2, <1>3, <1>4
  <1>8. QED
    BY <1>4, <1>5, <1>6, <1>7 DEF ChainLinked, CurLinked

LEMMA CommitFailsLinked ==
    ASSUME LInv, CommitFails PROVE (ChainLinked /\ CurLinked)'
  <1>1. pc = "apply" /\ tip = blocks[Len(blocks)]
    BY DEF CommitFails, LInv, ChainLinked
  <1>2. pc' = "idle" /\ UNCHANGED <<blocks, tip>>
    BY DEF CommitFails, storeVars
  <1>3. QED
    BY <1>1, <1>2 DEF LInv, ChainLinked, CurLinked

LEMMA FinishAddBlockLinked ==
    ASSUME LInv, FinishAddBlock PROVE (ChainLinked /\ CurLinked)'
  <1>1. pc = "prune" /\ cur = blocks[Len(blocks)]
    BY DEF FinishAddBlock, LInv, ChainLinked
  <1>2. pc' = "idle" /\ tip' = cur /\ UNCHANGED blocks
    BY DEF FinishAddBlock, storeVars
  <1>3. QED
    BY <1>1, <1>2 DEF LInv, ChainLinked, CurLinked

LEMMA RestartLinked ==
    ASSUME LInv, Restart PROVE (ChainLinked /\ CurLinked)'
  <1>1. pc' = "idle" /\ tip' = blocks[Len(blocks)] /\ UNCHANGED blocks
    BY DEF Restart, storeVars
  <1>2. QED
    BY <1>1 DEF LInv, ChainLinked, CurLinked

LEMMA NextLInv == LInv /\ [Next]_vars => LInv'
  <1> SUFFICES ASSUME LInv, [Next]_vars PROVE LInv'
    OBVIOUS
  <1>1. IInv'
    BY NextIInv DEF LInv
  <1>2. (ChainLinked /\ CurLinked)'
    <2> DEFINE Frame == UNCHANGED <<blocks, tip, pc, cur>>
    <2>1. CASE \E tx \in Requests : AddToMempool(tx)
      <3>1. Frame
        BY <2>1 DEF AddToMempool, storeVars, addVars
      <3>2. QED
        BY <3>1, LinkFrame
    <2>2. CASE \/ \E m \in Addr, ts \in Times : BeginTemplate(m, ts)
               \/ HalveReward \/ RewardDone \/ StartDistribute \/ FinishTemplate
               \/ \E a \in Keys : SumEligible(a) \/ Distribute(a)
      <3>1. Frame
        BY <2>2 DEF BeginTemplate, HalveReward, RewardDone, StartDistribute, FinishTemplate,
                    SumEligible, Distribute, storeVars, memVars, addVars
      <3>2. QED
        BY <3>1, LinkFrame
    <2>3. CASE \E b \in inflight \cup PeerBlocks : BeginAddBlock(b)
      BY <2>3, BeginAddBlockLinked
    <2>4. CASE ApplyOutput \/ SkipNoOutputs \/ ApplyTransfer \/ ApplyStake \/ ApplyUnstake
      <3>1. Frame
        BY <2>4 DEF ApplyOutput, SkipNoOutputs, ApplyTransfer, ApplyStake, ApplyUnstake,
                    storeVars, memVars
      <3>2. QED
        BY <3>1, LinkFrame
    <2>5. CASE CommitBlock
      BY <2>5, CommitBlockLinked
    <2>6. CASE CommitFails
      BY <2>6, CommitFailsLinked
    <2>7. CASE PruneStep
      <3>1. Frame
        BY <2>7 DEF PruneStep, storeVars, memVars
      <3>2. QED
        BY <3>1, LinkFrame
    <2>8. CASE FinishAddBlock
      BY <2>8, FinishAddBlockLinked
    <2>9. CASE Restart
      BY <2>9, RestartLinked
    <2>10. CASE (\E b \in inflight : DropBlock(b)) \/ UNCHANGED vars
      <3>1. Frame
        BY <2>10 DEF DropBlock, vars, storeVars, memVars, addVars
      <3>2. QED
        BY <3>1, LinkFrame
    <2>11. QED
      BY <2>1, <2>2, <2>3, <2>4, <2>5, <2>6, <2>7, <2>8, <2>9, <2>10 DEF Next
  <1>3. QED
    BY <1>1, <1>2 DEF LInv

(* The store always holds a hash-linked chain from genesis at consecutive  *)
(* heights, and AddBlock and CreateBlockTemplate link new blocks to the    *)
(* stored tip: lastBlock is moved only after CommitBlock succeeded, and    *)
(* reloaded from best_height on restart.  Holds with commits that fail.    *)
THEOREM ChainLinkedInvariant == Spec => []ChainLinked
  <1>1. Init => LInv
    <2>1. Init => IInv
      BY InitIInv
    <2>2. Init => blocks = <<GenesisBlock>> /\ tip = GenesisBlock /\ pc = "idle"
      BY DEF Init
    <2>3. QED
      BY <2>1, <2>2 DEF LInv, ChainLinked, CurLinked
  <1>2. LInv => ChainLinked
    BY DEF LInv
  <1>3. QED
    BY <1>1, <1>2, NextLInv, PTL DEF Spec
====
