------------------------------ MODULE Compact ------------------------------
(***************************************************************************)
(* Compact-target ("nBits") arithmetic and the difficulty regulator.       *)
(*                                                                         *)
(* Two encodings exist in the tree: CompactToBig/BigToCompact of           *)
(* internal/blockchain/pow.go and BitsToTarget/TargetToBits of the         *)
(* blockchain file kept as unnamed/part_001, whose functions chain.go      *)
(* calls (ApplyProgressiveDifficulty, ProgressiveDifficultyFloor,          *)
(* CheckProofOfWork, CalcNextBits).  Both are modelled operator by         *)
(* operator.                                                               *)
(*                                                                         *)
(* A big.Int is a natural number and a uint32 is a natural below 2^32;     *)
(* the Go masks and shifts become \div and % by powers of two:             *)
(*   x & 0x007fffff = x % 2^23      (x & 0x00800000) != 0 : Bit23(x)       *)
(*   x >> 24        = x \div 2^24   t.Rsh(k) = t \div 2^k                  *)
(* target.Bytes() is the big-endian byte string without leading zeros:     *)
(* its length is ByteLen(t) and its k-th byte (from 0) is ByteAt(t, k).    *)
(***************************************************************************)
EXTENDS Integers, Sequences

\* The number of bytes of target.Bytes(); a 256-bit target has at most 32.
ByteLen(t) ==
    CHOOSE n \in 0..32 : IF n = 0 THEN t = 0 ELSE t \div 256^(n-1) \in 1..255

ByteAt(t, k) == (t \div 256^(ByteLen(t) - 1 - k)) % 256

Bit23(x) == (x \div 2^23) % 2 = 1

Exponent(bits) == bits \div 2^24

(***************************** pow.go ************************************)
CompactToBig(compact) ==
    LET mantissa == compact % 2^23
        exponent == Exponent(compact)
        bn == IF exponent <= 3 THEN mantissa \div 256^(3 - exponent)
                               ELSE mantissa * 256^(exponent - 3)
    IN  IF Bit23(compact) THEN -bn ELSE bn

\* Before the sign-bit test, size << 24 | the top three bytes, left-aligned
\* when there are fewer than three.
PowWord(target) ==
    LET size == ByteLen(target)
    IN  IF size <= 3
        THEN size * 2^24 + target * 256^(3 - size)
        ELSE size * 2^24 + ByteAt(target, 0) * 2^16
                         + ByteAt(target, 1) * 2^8 + ByteAt(target, 2)

\* compact >>= 8 shifts the whole word, size byte included, before the
\* mantissa is masked out again.
BigToCompact(target) ==
    LET compact == PowWord(target)
        size == ByteLen(target)
    IN  IF target = 0 THEN 0
        ELSE IF Bit23(compact)
             THEN (size + 1) * 2^24 + ((compact \div 256) % 2^23)
             ELSE compact

(*************************** unnamed/part_001 *****************************)
\* Mutant: shifts by exponent - 3 bits instead of bytes.
BitsToTargetBitShift(bits) ==
    LET mantissa == bits % 2^23
        exponent == Exponent(bits)
    IN  IF exponent <= 3 THEN mantissa \div 2^(3 - exponent)
                         ELSE mantissa * 2^(exponent - 3)

BitsToTarget(bits) ==
    LET mantissa == bits % 2^23
        exponent == Exponent(bits)
    IN  IF exponent <= 3 THEN mantissa \div 256^(3 - exponent)
                         ELSE mantissa * 256^(exponent - 3)

\* Mutant: bumps the exponent for a set high bit but keeps the mantissa.
TargetToBitsNoShift(target) ==
    LET exponent == ByteLen(target)
        mantissa ==
            IF exponent >= 3
            THEN ByteAt(target, 0) * 2^16 + ByteAt(target, 1) * 2^8 + ByteAt(target, 2)
            ELSE target
    IN  IF target = 0 THEN 0
        ELSE IF Bit23(mantissa)
             THEN (exponent + 1) * 2^24 + mantissa
             ELSE exponent * 2^24 + mantissa

\* The mantissa is the leading bytes right-aligned: one or two bytes are
\* not shifted up.
TargetToBits(target) ==
    LET exponent == ByteLen(target)
        mantissa ==
            IF exponent >= 3
            THEN ByteAt(target, 0) * 2^16 + ByteAt(target, 1) * 2^8 + ByteAt(target, 2)
            ELSE target
    IN  IF target = 0 THEN 0
        ELSE IF Bit23(mantissa)
             THEN (exponent + 1) * 2^24 + mantissa \div 256
             ELSE exponent * 2^24 + mantissa

\* The header hash read as a big-endian integer against the target; a hash
\* that is not 32 bytes of hex is outside the modelled hash values.
CheckProofOfWork(hash, bits) == hash <= BitsToTarget(bits)

\* Mutant: no upper clamp of actualTime.
CalcNextBitsNoUpperClamp(blocks, adjustInterval, targetSeconds, minBits) ==
    LET n == Len(blocks)
        last == blocks[n]
        first == blocks[n - adjustInterval + 1]
        expectedTime == adjustInterval * targetSeconds
        raw == last.ts - first.ts
        actualTime == IF raw < expectedTime \div 4 THEN expectedTime \div 4 ELSE raw
        newTarget == (BitsToTarget(last.bits) * actualTime) \div expectedTime
        maxTarget == BitsToTarget(minBits)
    IN  IF n = 0 THEN minBits
        ELSE IF n < adjustInterval THEN last.bits
        ELSE TargetToBits(IF newTarget > maxTarget THEN maxTarget ELSE newTarget)

\* Blocks are records [bits, ts]; blocks is the window GetRecentBlocks
\* returned, oldest first.
CalcNextBits(blocks, adjustInterval, targetSeconds, minBits) ==
    LET n == Len(blocks)
        last == blocks[n]
        first == blocks[n - adjustInterval + 1]
        expectedTime == adjustInterval * targetSeconds
        raw == last.ts - first.ts
        low == IF raw < expectedTime \div 4 THEN expectedTime \div 4 ELSE raw
        actualTime == IF low > expectedTime * 4 THEN expectedTime * 4 ELSE low
        newTarget == (BitsToTarget(last.bits) * actualTime) \div expectedTime
        maxTarget == BitsToTarget(minBits)
    IN  IF n = 0 THEN minBits
        ELSE IF n < adjustInterval THEN last.bits
        ELSE TargetToBits(IF newTarget > maxTarget THEN maxTarget ELSE newTarget)

ProgressiveDifficultyFloor(height, epochBlocks, minBits) ==
    LET epoch == IF height \div epochBlocks > 60 THEN 60 ELSE height \div epochBlocks
        floorTarget == BitsToTarget(minBits) \div 2^epoch
    IN  IF epochBlocks = 0 \/ epoch = 0 THEN minBits
        ELSE TargetToBits(IF floorTarget = 0 THEN 1 ELSE floorTarget)

ApplyProgressiveDifficulty(bits, height, epochBlocks, minBits) ==
    LET floorBits == ProgressiveDifficultyFloor(height, epochBlocks, minBits)
    IN  IF BitsToTarget(bits) > BitsToTarget(floorBits) THEN floorBits ELSE bits
=============================================================================
