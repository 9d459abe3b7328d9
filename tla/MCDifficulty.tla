---------------------------- MODULE MCDifficulty ----------------------------
(***************************************************************************)
(* TLC harness of the difficulty regulator.  Beside the runs of module     *)
(* Difficulty it checks both compact-target codecs against the reference   *)
(* definition of spec section 4.1, over bounded sets of targets and bits.  *)
(***************************************************************************)
EXTENDS Difficulty

\* Targets around every byte boundary and every power of two below 2^31,
\* so that lengths 1..4 and a set top bit in the mantissa all occur.
Targets == (0..300) \cup {2^k + d : k \in 8..30, d \in {-1, 0, 1}}
                    \cup {2^k + 2^(k-1) : k \in 8..30}

\* Bits with exponents 0..4 and mantissas at the edges of 23 bits.
Bits == {e * 2^24 + m : e \in 0..4,
                        m \in {0, 1, 127, 128, 255, 256, 2^15, 2^16 - 1, 2^16,
                               2^22, 2^23 - 1}}

(************************** reference (spec 4.1) **************************)
\* Decode: the 23-bit mantissa shifted by 8 * (exponent - 3).
SpecDecode(bits) ==
    IF Exponent(bits) <= 3 THEN (bits % 2^23) \div 256^(3 - Exponent(bits))
                           ELSE (bits % 2^23) * 256^(Exponent(bits) - 3)

\* Encode: exponent = byte length, mantissa = top three bytes left-aligned
\* in 24 bits; a set high bit moves the mantissa down a byte.
SpecEncode(t) ==
    LET n == ByteLen(t)
        m == IF n <= 3 THEN t * 256^(3 - n) ELSE t \div 256^(n - 3)
    IN  IF t = 0 THEN 0
        ELSE IF Bit23(m) THEN (n + 1) * 2^24 + m \div 256
        ELSE n * 2^24 + m

(******************************* properties *******************************)
(* Both decoders agree with the reference on every bits value whose sign   *)
(* bit is clear (the only values the encoders produce): CompactToBig of    *)
(* pow.go and BitsToTarget that validateBlock and CheckProofOfWork use,    *)
(* the tip's bits included.                                               *)
DecodersMatchSpec ==
    \A b \in Bits \cup {LastBlock.bits} : ~Bit23(b) =>
        /\ BitsToTarget(b) = SpecDecode(b)
        /\ CompactToBig(b) = SpecDecode(b)

(* Re-encoding never makes a target easier: CalcNextBits caps the new      *)
(* target at target(minBits) and the floor halves it before TargetToBits   *)
(* encodes it, so the decoded bits must not exceed the target encoded.     *)
TargetToBitsNeverEasier ==
    \A t \in Targets \cup {BitsToTarget(LastBlock.bits)} :
        BitsToTarget(TargetToBits(t)) <= t

(* Spec 4.1: both encoders produce the reference encoding.  TargetToBits   *)
(* of part_001 (every retarget and floor) does not left-align targets      *)
(* below 2^16; BigToCompact of pow.go shifts the exponent byte into the    *)
(* mantissa when the mantissa's high bit is set.                           *)
EncodersMatchSpec ==
    \A t \in Targets \cup {BitsToTarget(LastBlock.bits)} :
        TargetToBits(t) = SpecEncode(t) /\ BigToCompact(t) = SpecEncode(t)
=============================================================================
