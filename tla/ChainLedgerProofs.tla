------------------------- MODULE ChainLedgerProofs -------------------------
(***************************************************************************)
(* Proof that the store of module Chain implements LedgerStore under the   *)
(* mapping Store of Chain, for every value of the constants and with       *)
(* commits that fail (MaxCommitFailures unrestricted).                     *)
(***************************************************************************)
EXTENDS ChainProofs

(***************************************************************************)
(* The refinement is not a consequence of the chain invariants alone.      *)
(* CommitBlock writes bal[a] for every a in changedBalances, so the sets   *)
(* AddBlock collects must hold only accounts the block being applied       *)
(* names; and it writes memory's TotalMinted plus the block's minting, so  *)
(* memory must never be behind the store (after a failed commit it is      *)
(* ahead, until Restart reloads it).                                       *)
(***************************************************************************)
KInv ==
    /\ sMinted <= minted
    /\ pc = "apply" => chBal \subseteq TouchedKeys(cur) /\ chStake \subseteq TouchedKeys(cur)
RefInv == LInv /\ KInv

(* The accounts of the transaction AddBlock is applying are named by the   *)
(* block.                                                                  *)
LEMMA CurTxTouched ==
    ASSUME IInv, i <= Len(cur.txs)
    PROVE  /\ CurTx.from \in TouchedKeys(cur)
           /\ CurTx.to \in TouchedKeys(cur)
           /\ j <= Len(CurTx.outs) => CurTx.outs[j].address \in TouchedKeys(cur)
  <1>1. i \in DOMAIN cur.txs
    BY DEF IInv, TypeOK, Block
  <1>2. CurTx \in Tx
    BY CurTxTyped
  <1>3. j <= Len(CurTx.outs) => j \in DOMAIN CurTx.outs
    <2>1. CurTx.outs \in Seq(Output)
      BY <1>2 DEF Tx
    <2>2. j \in Nat \ {0}
      BY DEF IInv, TypeOK
    <2>3. QED
      BY <2>1, <2>2
  <1> DEFINE S == {cur.txs[i].from, cur.txs[i].to}
                    \cup {cur.txs[i].outs[o].address : o \in DOMAIN cur.txs[i].outs}
  <1>4. S \subseteq TouchedKeys(cur)
    BY <1>1 DEF TouchedKeys
  <1>5. QED
    BY <1>3, <1>4 DEF CurTx

(* Steps that leave the totals and AddBlock's collected sets alone.        *)
LEMMA KFrame ==
    ASSUME KInv, UNCHANGED <<sMinted, minted, pc, cur, chBal, chStake>>
    PROVE  KInv'
  BY DEF KInv

LEMMA BeginAddBlockK ==
    ASSUME KInv, NEW b \in inflight \cup PeerBlocks, BeginAddBlock(b)
    PROVE  KInv'
  BY DEF BeginAddBlock, KInv, storeVars, memVars

LEMMA ApplyOutputK == ASSUME RefInv, ApplyOutput PROVE KInv'
  <1>1. CurTx.outs[j].address \in TouchedKeys(cur)
    BY CurTxTouched DEF ApplyOutput, RefInv, LInv
  <1>2. chBal' = chBal \cup {CurTx.outs[j].address}
    BY DEF ApplyOutput
  <1>3. UNCHANGED <<sMinted, minted, pc, cur, chStake>>
    BY DEF ApplyOutput, storeVars
  <1>4. QED
    BY <1>1, <1>2, <1>3 DEF RefInv, KInv

LEMMA ApplyTransferK == ASSUME RefInv, ApplyTransfer PROVE KInv'
  <1>1. CurTx.from \in TouchedKeys(cur) /\ CurTx.to \in TouchedKeys(cur)
    BY CurTxTouched DEF ApplyTransfer, Applying, RefInv, LInv
  <1>2. chBal' = chBal \cup {CurTx.from, CurTx.to}
    BY DEF ApplyTransfer
  <1>3. UNCHANGED <<sMinted, minted, pc, cur, chStake>>
    BY DEF ApplyTransfer, storeVars
  <1>4. QED
    BY <1>1, <1>2, <1>3 DEF RefInv, KInv

LEMMA ApplyStakeK == ASSUME RefInv, ApplyStake \/ ApplyUnstake PROVE KInv'
  <1>1. CurTx.from \in TouchedKeys(cur)
    BY CurTxTouched DEF ApplyStake, ApplyUnstake, Applying, RefInv, LInv
  <1>2. chBal' = chBal \cup {CurTx.from} /\ chStake' = chStake \cup {CurTx.from}
    BY DEF ApplyStake, ApplyUnstake
  <1>3. UNCHANGED <<sMinted, minted, pc, cur>>
    BY DEF ApplyStake, ApplyUnstake, storeVars
  <1>4. QED
    BY <1>1, <1>2, <1>3 DEF RefInv, KInv

LEMMA CommitFailsK == ASSUME RefInv, CommitFails PROVE KInv'
  <1>1. minted \in Nat /\ bm \in Nat /\ sMinted \in Nat /\ sMinted <= minted
    BY DEF RefInv, LInv, IInv, TypeOK, KInv
  <1>2. minted' = minted + bm /\ pc' = "idle" /\ UNCHANGED sMinted
    BY DEF CommitFails, storeVars
  <1>3. sMinted' <= minted'
    BY <1>1, <1>2
  <1>4. QED
    BY <1>2, <1>3 DEF KInv

LEMMA CommitBlockK == ASSUME RefInv, CommitBlock PROVE KInv'
  <1>1. minted \in Nat /\ bm \in Nat
    BY DEF RefInv, LInv, IInv, TypeOK
  <1>2. sMinted' = minted + bm /\ minted' = minted + bm /\ pc' = "prune"
    BY DEF CommitBlock
  <1>3. sMinted' <= minted'
    BY <1>1, <1>2
  <1>4. QED
    BY <1>2, <1>3 DEF KInv

LEMMA FinishAddBlockK == ASSUME KInv, FinishAddBlock PROVE KInv'
  BY DEF FinishAddBlock, KInv, storeVars

LEMMA RestartK == ASSUME RefInv, Restart PROVE KInv'
  <1>1. sMinted \in Nat
    BY DEF RefInv, LInv, IInv, TypeOK
  <1>2. minted' = sMinted /\ pc' = "idle" /\ UNCHANGED sMinted
    BY DEF Restart, storeVars
  <1>3. sMinted' <= minted'
    BY <1>1, <1>2
  <1>4. QED
    BY <1>2, <1>3 DEF KInv

LEMMA NextRefInv == RefInv /\ [Next]_vars => RefInv'
  <1> SUFFICES ASSUME RefInv, [Next]_vars PROVE RefInv'
    OBVIOUS
  <1>1. LInv'
    BY NextLInv DEF RefInv
  <1>2. KInv
    BY DEF RefInv
  <1>3. KInv'
    <2> DEFINE Frame == UNCHANGED <<sMinted, minted, pc, cur, chBal, chStake>>
    <2>1. CASE \E tx \in Requests : AddToMempool(tx)
      <3>1. Frame
        BY <2>1 DEF AddToMempool, storeVars, addVars
      <3>2. QED
        BY <1>2, <3>1, KFrame
    <2>2. CASE \/ \E m \in Addr, ts \in Times : BeginTemplate(m, ts)
               \/ HalveReward \/ RewardDone \/ StartDistribute \/ FinishTemplate
               \/ \E a \in Keys : SumEligible(a) \/ Distribute(a)
      <3>1. Frame
        BY <2>2 DEF BeginTemplate, HalveReward, RewardDone, StartDistribute, FinishTemplate,
                    SumEligible, Distribute, storeVars, memVars, addVars
      <3>2. QED
        BY <1>2, <3>1, KFrame
    <2>3. CASE \E b \in inflight \cup PeerBlocks : BeginAddBlock(b)
      BY <1>2, <2>3, BeginAddBlockK
    <2>4. CASE ApplyOutput
      BY <2>4, ApplyOutputK
    <2>5. CASE SkipNoOutputs
      <3>1. Frame
        BY <2>5 DEF SkipNoOutputs, storeVars, memVars
      <3>2. QED
        BY <1>2, <3>1, KFrame
    <2>6. CASE ApplyTransfer
      BY <2>6, ApplyTransferK
    <2>7. CASE ApplyStake \/ ApplyUnstake
      BY <2>7, ApplyStakeK
    <2>8. CASE CommitBlock
      BY <2>8, CommitBlockK
    <2>9. CASE CommitFails
      BY <2>9, CommitFailsK
    <2>10. CASE PruneStep
      <3>1. Frame
        BY <2>10 DEF PruneStep, storeVars, memVars
      <3>2. QED
        BY <1>2, <3>1, KFrame
    <2>11. CASE FinishAddBlock
      BY <1>2, <2>11, FinishAddBlockK
    <2>12. CASE Restart
      BY <2>12, RestartK
    <2>13. CASE (\E b \in inflight : DropBlock(b)) \/ UNCHANGED vars
      <3>1. Frame
        BY <2>13 DEF DropBlock, vars, storeVars, memVars, addVars
      <3>2. QED
        BY <1>2, <3>1, KFrame
    <2>14. QED
      BY <2>1, <2>2, <2>3, <2>4, <2>5, <2>6, <2>7, <2>8, <2>9, <2>10, <2>11, <2>12,
         <2>13 DEF Next
  <1>4. QED
    BY <1>1, <1>3 DEF RefInv

LEMMA InitRefInv == Init => RefInv
  <1> SUFFICES ASSUME Init PROVE RefInv
    OBVIOUS
  <1>1. IInv
    BY InitIInv
  <1>2. blocks = <<GenesisBlock>> /\ tip = GenesisBlock /\ pc = "idle"
    BY DEF Init
  <1>3. sMinted = 0 /\ minted = 0
    BY DEF Init
  <1>4. QED
    BY <1>1, <1>2, <1>3 DEF RefInv, LInv, ChainLinked, CurLinked, KInv

(* CommitBlock is LedgerStore's Commit of the block AddBlock applied.      *)
LEMMA CommitBlockIsCommit == ASSUME RefInv, CommitBlock PROVE Store!Next
  <1> DEFINE n == Len(blocks)
  <1>1. blocks \in Seq(Block) /\ cur \in Block /\ n \in Nat
    BY DEF RefInv, LInv, IInv, TypeOK
  <1>2. pc = "apply"
    BY DEF CommitBlock
  <1>3. blocks' = Append(blocks, cur)
    BY DEF CommitBlock
  <1>4. Store!Appended = cur
    <2>1. Len(blocks') = n + 1 /\ blocks'[n + 1] = cur
      BY <1>1, <1>3, AppendProperties
    <2>2. QED
      BY <2>1 DEF Store!Appended
  <1>5. cur.height = n /\ cur.prev = Hash(blocks[n])
    BY <1>2 DEF RefInv, LInv, ChainLinked, CurLinked
  <1>6. ASSUME NEW a \in Keys \ TouchedKeys(cur)
        PROVE  sBal'[a] = sBal[a] /\ sStake'[a] = sStake[a]
    <2>1. a \notin chBal /\ a \notin chStake
      BY <1>2 DEF RefInv, KInv
    <2>2. sBal'[a] = sBal[a]
      BY <2>1 DEF CommitBlock
    <2>3. sStake'[a] = sStake[a]
      BY <2>1 DEF CommitBlock
    <2>4. QED
      BY <2>2, <2>3
  <1>7. sMinted' >= sMinted
    <2>1. minted \in Nat /\ bm \in Nat /\ sMinted \in Nat /\ sMinted <= minted
      BY DEF RefInv, LInv, IInv, TypeOK, KInv
    <2>2. sMinted' = minted + bm
      BY DEF CommitBlock
    <2>3. QED
      BY <2>1, <2>2
  <1>8. Store!Commit(cur)
    BY <1>3, <1>5, <1>6, <1>7 DEF Store!Commit
  <1>9. QED
    BY <1>4, <1>8 DEF Store!Next

(* Every step of Chain is a commit of LedgerStore or leaves the store.     *)
LEMMA StepRefinesLedger == RefInv /\ [Next]_vars => [Store!Next]_Store!vars
  <1> SUFFICES ASSUME RefInv, [Next]_vars PROVE [Store!Next]_Store!vars
    OBVIOUS
  <1>1. CASE CommitBlock
    BY <1>1, CommitBlockIsCommit
  <1>2. CASE ~CommitBlock
    <2>1. UNCHANGED storeVars
      BY <1>2 DEF Next, vars, AddToMempool, BeginTemplate, HalveReward, RewardDone,
         StartDistribute, FinishTemplate, SumEligible, Distribute, BeginAddBlock,
         ApplyOutput, SkipNoOutputs, ApplyTransfer, ApplyStake, ApplyUnstake,
         CommitFails, PruneStep, FinishAddBlock, Restart, DropBlock
    <2>2. QED
      BY <2>1 DEF storeVars, Store!vars
  <1>3. QED
    BY <1>1, <1>2

(* Refinement: the store of chain.go and store.go, with AddBlock's         *)
(* transaction loop, failed commits that leave memory ahead, restarts and  *)
(* templates, implements LedgerStore for every value of the constants:     *)
(* the store changes only by CommitBlock, which appends the block above    *)
(* the stored tip, writes no balance or stake of an account the block does *)
(* not name, and never lowers total_minted.                                *)
THEOREM RefinesLedgerStore == Spec => ImplementsLedgerStore
  <1>1. Init => RefInv
    BY InitRefInv
  <1>2. RefInv /\ [Next]_vars => RefInv'
    BY NextRefInv
  <1>3. Init => Store!Init
    BY DEF Init, Store!Init
  <1>4. RefInv /\ [Next]_vars => [Store!Next]_Store!vars
    BY StepRefinesLedger
  <1>5. QED
    BY <1>1, <1>2, <1>3, <1>4, PTL DEF Spec, ImplementsLedgerStore, Store!Spec
====
