\* Every TLV, package and primitive value of the instance, written and read.
SPECIFICATION CodecSpec
CONSTANTS
    Trees <- MCTrees
    Packages <- MCPackages
    Alphabet <- MCAlphabet
    MaxArrived = 5
    MaxOctets = 264
    MaxLevels = 132
    Ints <- MCInts
    Bits <- MCBits
    Digits <- MCDigits
INVARIANTS
    ReadsBack
    StableReading
    SegmentsArePackage
    PrimitivesReadBack
CHECK_DEADLOCK FALSE
