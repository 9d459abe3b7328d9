----------------------------- MODULE Difficulty -----------------------------
(***************************************************************************)
(* The difficulty regulator as the node runs it: the bits of every block  *)
(* template (CreateBlockTemplate, chain.go 316-375, with                   *)
(* calcNextBitsFromDB and Store.GetRecentBlocks), proof of work by the     *)
(* miner, and the checks validateBlock makes of a block's bits before      *)
(* AddBlock appends it.  Balances and transactions are the business of     *)
(* module Chain; here a block is its bits and its timestamp.               *)
(***************************************************************************)
EXTENDS Compact

CONSTANTS
    AdjustInterval,     \* cfg.DifficultyAdjustInterval
    BlockTimeSeconds,   \* cfg.BlockTimeSeconds
    MinBits,            \* cfg.MinDifficultyBits, the easiest target
    EpochBlocks,        \* cfg.DifficultyEpochBlocks
    GenesisTime,        \* cfg.GenesisTimestamp
    Spacings,           \* seconds time.Now() advances between two headers
    Hashes,             \* header hashes a nonce search can produce
    ForeignBits,        \* bits in blocks mined by other software
    MaxBlocks           \* model bound on the chain length

ASSUME DifficultyAssumption ==
    /\ AdjustInterval \in Nat \ {0} /\ BlockTimeSeconds \in Nat \ {0}
    /\ EpochBlocks \in Nat /\ MinBits \in Nat /\ GenesisTime \in Nat
    /\ Spacings \subseteq Nat /\ Hashes \subseteq Nat
    /\ ForeignBits \subseteq Nat /\ MaxBlocks \in Nat

\* The stored chain, oldest first: chain[h + 1] is the block at height h.
VARIABLE chain

\* CreateGenesisBlock: Bits = cfg.MinDifficultyBits at the genesis time.
Init == chain = <<[bits |-> MinBits, ts |-> GenesisTime]>>

Height == Len(chain)          \* Store.GetBlockCount, the next height
LastBlock == chain[Len(chain)]

\* Store.GetRecentBlocks(count) on the stored chain c: heights
\* best-count+1 .. best.
GetRecentBlocks(c, count) ==
    LET best == Len(c) - 1
        start == IF best >= count THEN best - count + 1 ELSE 0
    IN  SubSeq(c, start + 1, best + 1)

calcNextBitsFromDB(c) ==
    LET rawBlocks == GetRecentBlocks(c, AdjustInterval)
    IN  IF Len(rawBlocks) < AdjustInterval THEN c[Len(c)].bits
        ELSE CalcNextBits(rawBlocks, AdjustInterval, BlockTimeSeconds, MinBits)

\* Mutant: retargets at every height once a full window exists.
TemplateBitsOnEveryHeight(c) ==
    ApplyProgressiveDifficulty(calcNextBitsFromDB(c), Len(c), EpochBlocks, MinBits)

\* The bits CreateBlockTemplate puts in the header on top of chain c.
TemplateBitsOn(c) ==
    LET height == Len(c)
        prevBits == c[Len(c)].bits
        bits == IF height > 0 /\ height % AdjustInterval = 0
                THEN calcNextBitsFromDB(c) ELSE prevBits
    IN  ApplyProgressiveDifficulty(bits, height, EpochBlocks, MinBits)

TemplateBits == TemplateBitsOn(chain)

FloorTarget(h) == BitsToTarget(ProgressiveDifficultyFloor(h, EpochBlocks, MinBits))

\* The bits checks of validateBlock: proof of work of the header hash, and
\* the target not above the floor of the block's height.  Height and prev
\* hash are checked as in module Chain; this module only appends at the tip.
ValidateBits(bits, hash) ==
    /\ CheckProofOfWork(hash, bits)
    /\ BitsToTarget(bits) <= FloorTarget(Height)

\* The external miner takes a template, searches nonces until the hash
\* meets the target and submits; AddBlock validates and appends.
MineTemplate(dt, hash) ==
    /\ Len(chain) < MaxBlocks
    /\ ValidateBits(TemplateBits, hash)
    /\ chain' = Append(chain, [bits |-> TemplateBits, ts |-> LastBlock.ts + dt])

\* A peer relays, or a miner submits, a block whose bits it chose itself.
AcceptForeignBlock(bits, dt, hash) ==
    /\ Len(chain) < MaxBlocks
    /\ ValidateBits(bits, hash)
    /\ chain' = Append(chain, [bits |-> bits, ts |-> LastBlock.ts + dt])

\* getblocktemplate with no block found: the read-locked template changes
\* nothing.
RequestTemplate == UNCHANGED chain

Next ==
    \/ \E dt \in Spacings, hash \in Hashes : MineTemplate(dt, hash)
    \/ \E bits \in ForeignBits, dt \in Spacings, hash \in Hashes :
          AcceptForeignBlock(bits, dt, hash)
    \/ RequestTemplate

Spec == Init /\ [][Next]_chain

(******************************* properties *******************************)
(* A retarget makes mining at most four times easier than the parent      *)
(* block and never easier than MinBits: the clamp of actualTime to four    *)
(* times the expected time and the cap at target(minBits) in CalcNextBits, *)
(* after re-encoding by TargetToBits, whatever bits the parent carries.    *)
RetargetBounded ==
    /\ BitsToTarget(TemplateBits) <= 4 * BitsToTarget(LastBlock.bits)
    /\ BitsToTarget(TemplateBits) <= BitsToTarget(MinBits)

(* Between retarget heights and within one floor epoch, CreateBlockTemplate *)
(* copies the parent's bits, also when the parent came from a peer.        *)
BitsStableBetweenRetargets ==
    Height % AdjustInterval # 0 /\ FloorTarget(Height) = FloorTarget(Height - 1)
        => TemplateBits = LastBlock.bits

(* Spec 4.3: the retarget measures the time of the last adjust_interval    *)
(* block intervals, so blocks arriving exactly every BlockTimeSeconds keep *)
(* the target (only the floor may lower it).  GetRecentBlocks returns      *)
(* adjust_interval blocks, which span one interval fewer.                  *)
SteadyRateKeepsTarget ==
    \A k \in 2..Len(chain) :
        (\A g \in 2..k : chain[g].ts - chain[g-1].ts = BlockTimeSeconds)
        => BitsToTarget(chain[k].bits) >=
             IF BitsToTarget(chain[k-1].bits) < FloorTarget(k - 1)
             THEN BitsToTarget(chain[k-1].bits) ELSE FloorTarget(k - 1)

(* Spec 4.3: the retarget and the floor MUST be enforced during validation *)
(* as well: every appended block carries the bits the node's own template  *)
(* would have at that height.  validateBlock only checks the floor.        *)
RetargetEnforced ==
    \A k \in 2..Len(chain) :
        chain[k].bits = TemplateBitsOn(SubSeq(chain, 1, k - 1))
=============================================================================
