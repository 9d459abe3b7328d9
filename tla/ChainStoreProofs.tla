-------------------------- MODULE ChainStoreProofs --------------------------
(***************************************************************************)
(* Proof that the in-memory state of the chain agrees with the BoltDB      *)
(* store whenever no block is being applied, for every value of the        *)
(* constants of module Chain whose Store.CommitBlock never fails.  With    *)
(* failing commits the agreement is lost (run commit_fail_divergence), so *)
(* the theorem assumes MaxCommitFailures = 0, the value of run chain_core. *)
(***************************************************************************)
EXTENDS ChainProofs

(* MemoryMatchesStore is not inductive: during the transaction loop of     *)
(* AddBlock bal and stake run ahead of the store, and CommitBlock writes   *)
(* back only the entries in changedBalances and changedStakes.  SInv says  *)
(* that every entry outside those sets still equals the stored one, and    *)
(* that TotalMinted only moves together with total_minted.                 *)
SInv ==
    /\ minted = sMinted /\ failures = 0
    /\ \A a \in Keys \ chBal : bal[a] = sBal[a]
    /\ \A a \in Keys \ chStake : stake[a] = sStake[a]
    /\ pc # "apply" => bal = sBal /\ stake = sStake

MInv == IInv /\ SInv

(* Steps that touch neither the balances, stakes and minted totals nor     *)
(* AddBlock's change sets and control keep SInv.                           *)
LEMMA StoreFrame ==
    ASSUME SInv, UNCHANGED <<bal, stake, minted, sBal, sStake, sMinted, chBal, chStake,
                             pc, failures>>
    PROVE  SInv'
  BY DEF SInv

LEMMA BeginAddBlockStore ==
    ASSUME MInv, NEW b \in inflight \cup PeerBlocks, BeginAddBlock(b) PROVE SInv'
  <1>1. pc = "idle" /\ chBal' = {} /\ chStake' = {} /\ pc' = "apply"
    BY DEF BeginAddBlock, Free
  <1>2. UNCHANGED <<bal, stake, minted, sBal, sStake, sMinted, failures>>
    BY DEF BeginAddBlock, storeVars, memVars
  <1>3. QED
    BY <1>1, <1>2 DEF MInv, SInv

LEMMA ApplyOutputStore == ASSUME MInv, ApplyOutput PROVE SInv'
  <1> DEFINE o == CurTx.outs[j]
  <1>1. bal' = [bal EXCEPT ![o.address] = @ + o.amount] /\ chBal' = chBal \cup {o.address}
    BY DEF ApplyOutput
  <1>2. \A a \in Keys \ chBal' : bal'[a] = sBal'[a]
    BY <1>1 DEF ApplyOutput, MInv, SInv, storeVars
  <1>3. UNCHANGED <<stake, minted, sStake, sMinted, chStake, pc, failures>>
    BY DEF ApplyOutput, storeVars
  <1>4. QED
    BY <1>2, <1>3 DEF MInv, SInv, ApplyOutput

LEMMA SkipNoOutputsStore == ASSUME MInv, SkipNoOutputs PROVE SInv'
  BY StoreFrame DEF SkipNoOutputs, MInv, storeVars, memVars

LEMMA ApplyTransferStore == ASSUME MInv, ApplyTransfer PROVE SInv'
  <1> DEFINE tx == CurTx
             debited == [bal EXCEPT ![tx.from] = @ - (tx.amount + tx.fee)]
  <1>0. bal \in [Keys -> Int]
    BY DEF MInv, IInv, TypeOK
  <1>1. bal' = [debited EXCEPT ![tx.to] = @ + tx.amount] /\ chBal' = chBal \cup {tx.from, tx.to}
    BY DEF ApplyTransfer
  <1>2. \A a \in Keys \ chBal' : bal'[a] = sBal'[a]
    <2>1. \A a \in Keys \ {tx.from, tx.to} : bal'[a] = bal[a]
      BY <1>0, <1>1
    <2>2. UNCHANGED sBal
      BY DEF ApplyTransfer, storeVars
    <2>3. QED
      BY <1>1, <2>1, <2>2 DEF MInv, SInv
  <1>3. UNCHANGED <<stake, minted, sStake, sMinted, chStake, pc, failures>>
    BY DEF ApplyTransfer, storeVars
  <1>4. pc = "apply"
    BY DEF ApplyTransfer, Applying
  <1>5. QED
    BY <1>2, <1>3, <1>4 DEF MInv, SInv

LEMMA ApplyStakeStore == ASSUME MInv, ApplyStake PROVE SInv'
  <1>1. /\ bal' = [bal EXCEPT ![CurTx.from] = @ - CurTx.amount]
        /\ stake' = [stake EXCEPT ![CurTx.from] = @ + CurTx.amount]
        /\ chBal' = chBal \cup {CurTx.from} /\ chStake' = chStake \cup {CurTx.from}
    BY DEF ApplyStake
  <1>2. UNCHANGED <<minted, sBal, sStake, sMinted, pc, failures>>
    BY DEF ApplyStake, storeVars
  <1>3. pc = "apply"
    BY DEF ApplyStake, Applying
  <1>4. QED
    BY <1>1, <1>2, <1>3 DEF MInv, SInv

LEMMA ApplyUnstakeStore == ASSUME MInv, ApplyUnstake PROVE SInv'
  <1>0. bal \in [Keys -> Int] /\ stake \in [Keys -> Nat]
    BY DEF MInv, IInv, TypeOK
  <1>1. /\ \A a \in Keys \ {CurTx.from} : stake'[a] = stake[a]
        /\ bal' = [bal EXCEPT ![CurTx.from] = @ + CurTx.amount]
        /\ chBal' = chBal \cup {CurTx.from} /\ chStake' = chStake \cup {CurTx.from}
    BY DEF ApplyUnstake, RemoveStake
  <1>2. UNCHANGED <<minted, sBal, sStake, sMinted, pc, failures>>
    BY DEF ApplyUnstake, storeVars
  <1>3. pc = "apply"
    BY DEF ApplyUnstake, Applying
  <1>4. QED
    BY <1>0, <1>1, <1>2, <1>3 DEF MInv, SInv

(* CommitBlock writes exactly the changed entries, and by SInv the others  *)
(* already agree: afterwards memory and store are equal.                   *)
LEMMA CommitBlockStore == ASSUME MInv, CommitBlock PROVE SInv'
  <1>1. bal \in [Keys -> Int] /\ stake \in [Keys -> Nat]
    BY DEF MInv, IInv, TypeOK
  <1>2. /\ sBal' = [a \in Keys |-> IF a \in chBal THEN bal[a] ELSE sBal[a]]
        /\ sStake' = [a \in Keys |-> IF a \in chStake THEN stake[a] ELSE sStake[a]]
        /\ minted' = minted + bm /\ sMinted' = minted + bm
        /\ pc' = "prune" /\ UNCHANGED <<bal, stake, chBal, chStake, failures>>
    BY DEF CommitBlock
  <1>3. sBal' = bal /\ sStake' = stake
    BY <1>1, <1>2 DEF MInv, SInv
  <1>4. QED
    BY <1>2, <1>3 DEF MInv, SInv

(* With MaxCommitFailures = 0 the error branch of CommitBlock never runs.  *)
LEMMA CommitFailsStore ==
    ASSUME MInv, CommitFails, MaxCommitFailures = 0 PROVE FALSE
  BY DEF CommitFails, MInv, SInv

LEMMA PruneStepStore == ASSUME MInv, PruneStep PROVE SInv'
  BY StoreFrame DEF PruneStep, MInv, storeVars, memVars

LEMMA FinishAddBlockStore == ASSUME MInv, FinishAddBlock PROVE SInv'
  <1>1. pc = "prune" /\ pc' = "idle" /\ chBal' = {} /\ chStake' = {}
    BY DEF FinishAddBlock, AddBlockLocalsReset
  <1>2. UNCHANGED <<bal, stake, minted, sBal, sStake, sMinted, failures>>
    BY DEF FinishAddBlock, storeVars
  <1>3. QED
    BY <1>1, <1>2 DEF MInv, SInv

(* NewBlockchain reloads balances, stakes and total_minted from the store. *)
LEMMA RestartStore == ASSUME MInv, Restart PROVE SInv'
  <1>1. bal' = sBal /\ stake' = sStake /\ minted' = sMinted /\ pc' = "idle"
        /\ chBal' = {} /\ chStake' = {}
    BY DEF Restart, AddBlockLocalsReset
  <1>2. UNCHANGED <<sBal, sStake, sMinted, failures>>
    BY DEF Restart, storeVars
  <1>3. QED
    BY <1>1, <1>2 DEF MInv, SInv
(* Init satisfies SInv: memory and store both start empty.                 *)
LEMMA InitSInv == Init => SInv
  BY DEF Init, SInv

LEMMA NextMInv ==
    ASSUME MaxCommitFailures = 0
    PROVE  MInv /\ [Next]_vars => MInv'
  <1> SUFFICES ASSUME MInv, [Next]_vars PROVE MInv'
    OBVIOUS
  <1>1. IInv'
    BY NextIInv DEF MInv
  <1> DEFINE Frame == UNCHANGED <<bal, stake, minted, sBal, sStake, sMinted, chBal, chStake,
                                  pc, failures>>
  <1>2. SInv'
    <2>1. CASE \/ \E tx \in Requests : AddToMempool(tx)
               \/ \E m \in Addr, ts \in Times : BeginTemplate(m, ts)
               \/ HalveReward \/ RewardDone \/ StartDistribute \/ FinishTemplate
               \/ \E a \in Keys : SumEligible(a) \/ Distribute(a)
               \/ \E b \in inflight : DropBlock(b)
               \/ UNCHANGED vars
      <3>1. Frame
        BY <2>1 DEF AddToMempool, BeginTemplate, HalveReward, RewardDone, StartDistribute,
                    FinishTemplate, SumEligible, Distribute, DropBlock,
                    vars, storeVars, memVars, addVars
      <3>2. QED
        BY <3>1, StoreFrame DEF MInv
    <2>2. CASE \E b \in inflight \cup PeerBlocks : BeginAddBlock(b)
      BY <2>2, BeginAddBlockStore
    <2>3. CASE ApplyOutput
      BY <2>3, ApplyOutputStore
    <2>4. CASE SkipNoOutputs
      BY <2>4, SkipNoOutputsStore
    <2>5. CASE ApplyTransfer
      BY <2>5, ApplyTransferStore
    <2>6. CASE ApplyStake
      BY <2>6, ApplyStakeStore
    <2>7. CASE ApplyUnstake
      BY <2>7, ApplyUnstakeStore
    <2>8. CASE CommitBlock
      BY <2>8, CommitBlockStore
    <2>9. CASE CommitFails
      BY <2>9, CommitFailsStore
    <2>10. CASE PruneStep
      BY <2>10, PruneStepStore
    <2>11. CASE FinishAddBlock
      BY <2>11, FinishAddBlockStore
    <2>12. CASE Restart
      BY <2>12, RestartStore
    <2>13. QED
      BY <2>1, <2>2, <2>3, <2>4, <2>5, <2>6, <2>7, <2>8, <2>9, <2>10, <2>11, <2>12
      DEF Next
  <1>3. QED
    BY <1>1, <1>2 DEF MInv

(* When Store.CommitBlock never fails, the balances, stakes and            *)
(* TotalMinted in memory equal what NewBlockchain would reload from the    *)
(* store whenever no AddBlock is in its transaction loop: changedBalances  *)
(* and changedStakes name every entry the loop mutated, and a restart at   *)
(* any point reloads a state the running node agrees with.                 *)
THEOREM MemoryMatchesStoreHolds ==
    ASSUME MaxCommitFailures = 0
    PROVE  Spec => []MemoryMatchesStore
  <1>1. Init => MInv
    BY InitIInv, InitSInv DEF MInv
  <1>2. MInv /\ [Next]_vars => MInv'
    BY NextMInv
  <1>3. MInv => MemoryMatchesStore
    BY DEF MInv, SInv, MemoryMatchesStore
  <1>4. QED
    BY <1>1, <1>2, <1>3, PTL DEF Spec
=============================================================================
