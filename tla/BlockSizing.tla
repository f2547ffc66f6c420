----------------------------- MODULE BlockSizing -----------------------------
(***************************************************************************)
(* The arithmetic that lays out a nanots file: the block size from the      *)
(* durability asked for, the number of blocks from the data expected, in    *)
(* integers of the widths the code uses, and how many frames a block takes. *)
(***************************************************************************)
EXTENDS Integers, FiniteSetsExt

CONSTANTS
    MinBlockSize,     \* 65536
    MinBlocks,        \* 16
    SpareBlocks,      \* 4
    DefaultBlocks,    \* 256
    SafetyFactor,     \* 4
    Word32, Word64    \* 2^32 and 2^64: where the unsigned types wrap round

ASSUME SizingAssumption ==
    /\ {MinBlockSize, MinBlocks, DefaultBlocks, SafetyFactor} \subseteq Nat \ {0}
    /\ {SpareBlocks, Word32, Word64} \subseteq Nat
    /\ 16 <= MinBlockSize   \* the header of a block
    /\ MinBlockSize < Word32 /\ MinBlocks < Word32 /\ Word32 < Word64

\* The maximum is taken in 64 bits and cut to 32.
BlockSize(durability) == Max({MinBlockSize, durability}) % Word32

\* A plausible slip: nothing is added for what a frame costs besides its payload.
ExpectedBytesTight(frames, size) == (frames * size) % Word64
ExpectedBytes(frames, size) == (frames * size * SafetyFactor) % Word64

\* The division of BlocksFor is by zero.
DividesByZero(requested, blockSize) == requested = 0 /\ blockSize = 0

BlocksFor(requested, expected, blockSize) ==
    LET bytes  == IF expected > 0 THEN expected ELSE blockSize * DefaultBlocks
        needed == ((bytes + blockSize - 1) % Word64) \div blockSize + SpareBlocks
    IN  IF requested # 0 THEN requested ELSE Max({MinBlocks, needed}) % Word32

\* nanots: a header of 16 bytes per block, and per frame a header of 21 bytes,
\* padded with the payload to a multiple of 8, and an index entry of 16.
FramesPerBlock(blockSize, size) ==
    (blockSize - 16) \div (((21 + size + 7) \div 8) * 8 + 16)

==============================================================================
