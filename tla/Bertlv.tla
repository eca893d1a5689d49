------------------------------- MODULE Bertlv --------------------------------
(***************************************************************************)
(* The octets of bertlv and bertlv/primitive: tags, lengths, integers, bit *)
(* strings, and the digits of v2/identifier.go, each with its writer and   *)
(* its reader.                                                             *)
(*                                                                         *)
(* A reader works on a sequence of octets s from a position i and returns  *)
(* whether it succeeded and the position that follows.                     *)
(***************************************************************************)
EXTENDS Integers, Sequences, SequencesExt

Octet == 0..255

Failed == [ok |-> FALSE]

-----------------------------------------------------------------------------
(* Tags: bertlv/tag.go.                                                    *)

Universal == 0
Application == 1
ContextSpecific == 2
Primitive == 0
Constructed == 1

FormOf(tag) == (tag[1] \div 32) % 2

\* Weights of the groups of seven bits in a tag number.  The code takes 64 bits;
\* 28 are enough for numbers of one to four groups.
Weight == <<1, 128, 16384, 2097152>>
MaxTagNumber == 268435455

\* The number of groups of a tag number.
GroupsOf(value) ==
    CHOOSE k \in 1..4 : value >= Weight[k] /\ (k < 4 => value < Weight[k+1])

\* NewTag writes the least significant group first, and sets the continuation
\* bit in every group of a number that has more than one, the last one too.
NewTag(class, form, value) ==
    LET mask   == class * 64 + form * 32
        groups == GroupsOf(value)
        more   == IF groups > 1 THEN 128 ELSE 0
    IN  IF value < 31 THEN <<mask + value>>
        ELSE <<mask + 31>> \o [k \in 1..groups |-> ((value \div Weight[k]) % 128) + more]

\* Where a long tag that starts at i may end, and where it does.  Its buffer has
\* eleven octets: a longer tag makes the code panic, and is not read here either.
TagEnds(s, i) == {j \in (i+1)..(i+10) : j <= Len(s) /\ s[j] < 128}
EndOfTag(s, i) == CHOOSE j \in TagEnds(s, i) : \A k \in TagEnds(s, i) : j <= k

\* Tag.ReadFrom: the tag is kept as it was read, up to an octet without the
\* continuation bit.
ReadTag(s, i) ==
    IF i > Len(s) THEN Failed
    ELSE IF s[i] % 32 # 31 THEN [ok |-> TRUE, tag |-> <<s[i]>>, next |-> i + 1]
    ELSE IF TagEnds(s, i) = {} THEN Failed
    ELSE [ok |-> TRUE, tag |-> SubSeq(s, i, EndOfTag(s, i)), next |-> EndOfTag(s, i) + 1]

\* Tag.Value: the most significant group first.
TagValue(tag) ==
    IF tag[1] % 32 # 31 THEN tag[1] % 32
    ELSE FoldLeft(LAMBDA v, b : v * 128 + (b % 128), 0, Tail(tag))

-----------------------------------------------------------------------------
(* Lengths: bertlv/length.go.                                              *)

MaxLength == 16777215

MarshalLength(n) ==
    IF n < 128 THEN <<n>>
    ELSE IF n < 256 THEN <<129, n>>
    ELSE IF n < 65536 THEN <<130, n \div 256, n % 256>>
    ELSE <<131, n \div 65536, (n \div 256) % 256, n % 256>>

\* The short form, and 0x81 to 0x83 followed by one to three octets.
ReadLength(s, i) ==
    IF i > Len(s) THEN Failed
    ELSE LET wide == IF s[i] \in 129..131 THEN s[i] - 128 ELSE 0
         IN  IF (s[i] >= 128 /\ wide = 0) \/ i + wide > Len(s) THEN Failed
             ELSE [ok    |-> TRUE,
                   value |-> IF wide = 0 THEN s[i]
                             ELSE IF wide = 1 THEN s[i+1]
                             ELSE IF wide = 2 THEN s[i+1] * 256 + s[i+2]
                             ELSE s[i+1] * 65536 + s[i+2] * 256 + s[i+3],
                   next  |-> i + wide + 1]

-----------------------------------------------------------------------------
(* Integers: bertlv/primitive/integer.go.                                  *)

\* Octets of the writer's buffer: 8 in the code, 4 hold the integers of TLC.
IntWidth == 4

Int32 == {v \in Int : -2147483647 - 1 <= v /\ v <= 2147483647}

Pow256 == <<1, 256, 65536, 16777216>>

\* The value of an integer of size octets that overflows.
Wrap(size, n) ==
    IF size >= IntWidth THEN n
    ELSE LET m == n % Pow256[size + 1]
         IN  IF m >= Pow256[size + 1] \div 2 THEN m - Pow256[size + 1] ELSE m

\* Mutant: leading octets dropped without a look at the sign of what follows.
MarshalIntShortest(v) ==
    LET buf   == [k \in 1..IntWidth |-> (v \div Pow256[IntWidth + 1 - k]) % 256]
        Skip(k) == k < IntWidth /\ buf[k] \in {0, 255}
        start == CHOOSE k \in 1..IntWidth : ~Skip(k) /\ \A j \in 1..(k-1) : Skip(j)
    IN  SubSeq(buf, start, IntWidth)

\* MarshalInt drops each leading octet that repeats the sign of the next.
MarshalInt(v) ==
    LET buf   == [k \in 1..IntWidth |-> (v \div Pow256[IntWidth + 1 - k]) % 256]
        Skip(k) == /\ k < IntWidth
                   /\ \/ buf[k] = 0 /\ buf[k+1] < 128
                      \/ buf[k] = 255 /\ buf[k+1] >= 128
        start == CHOOSE k \in 1..IntWidth : ~Skip(k) /\ \A j \in 1..(k-1) : Skip(j)
    IN  SubSeq(buf, start, IntWidth)

\* The loop over the octets: each is shifted in, and what overflows is lost.
Accumulate(size, sign, data) ==
    LET n[k \in 0..Len(data)] ==
            IF k = 0 THEN sign ELSE Wrap(size, n[k-1] * 256 + data[k])
    IN  n[Len(data)]

\* The loop that skips repeated signs stops at the first octet that is not one,
\* or before the last.
SignsSkipped(data) ==
    LET n == Len(data)
        Stops(k) == data[k] # data[1] \/ data[k+1] \div 128 # data[1] \div 128
    IN  IF n = 1 \/ data[1] \notin {0, 255} THEN 1
        ELSE CHOOSE k \in 1..(n-1) :
               (Stops(k) \/ k = n - 1) /\ \A j \in 1..(k-1) : ~Stops(j)

\* UnmarshalInt into an integer of size octets.
UnmarshalInt(size, data) ==
    LET rest == SubSeq(data, SignsSkipped(data), Len(data))
    IN  IF Len(data) > size THEN Failed
        ELSE [ok |-> TRUE,
              value |-> IF data = <<>> THEN 0
                        ELSE Accumulate(size, IF rest[1] > 127 THEN -1 ELSE 0, rest)]

-----------------------------------------------------------------------------
(* Bit strings: bertlv/primitive/bitstring.go; digits: v2/identifier.go.   *)

\* Bit x (0 to 7, from the most significant) of octet b.
Bit(b, x) == (b \div <<128, 64, 32, 16, 8, 4, 2, 1>>[x + 1]) % 2

OctetOf(bits) == bits[1] * 128 + bits[2] * 64 + bits[3] * 32 + bits[4] * 16
                   + bits[5] * 8 + bits[6] * 4 + bits[7] * 2 + bits[8]

\* MarshalBitString: the number of padding bits, from 1 to 8, then the bits.
MarshalBitString(bits) ==
    LET n == Len(bits)
    IN  <<8 - (n % 8)>> \o
        [k \in 1..(n \div 8 + 1) |->
           OctetOf([x \in 1..8 |-> LET i == (k-1) * 8 + x IN IF i <= n THEN bits[i] ELSE 0])]

UnmarshalBitString(data) ==
    LET n == Len(data) IN
    IF \/ data[1] > 7
       \/ n = 1 /\ data[1] > 0
       \/ \E x \in (8 - data[1])..7 : Bit(data[n], x) = 1
    THEN Failed
    ELSE [ok |-> TRUE,
          value |-> [i \in 1..((n-1) * 8 - data[1]) |->
                       Bit(data[2 + (i-1) \div 8], (i-1) % 8)]]

\* binaryCodedDecimalEncode and ...Decode: an odd digit is paired with F, and
\* the digits from the last F on are cut off.
EncodeBCD(digits) ==
    LET padded == IF Len(digits) % 2 = 1 THEN Append(digits, 15) ELSE digits
    IN  [k \in 1..(Len(padded) \div 2) |-> padded[2*k] * 16 + padded[2*k - 1]]

DecodeBCD(data) ==
    LET points == [k \in 1..(2 * Len(data)) |->
                     LET b == data[(k + 1) \div 2] IN IF k % 2 = 1 THEN b % 16 ELSE b \div 16]
        fs == {k \in 1..Len(points) : points[k] = 15}
    IN  IF fs = {} THEN points
        ELSE SubSeq(points, 1, (CHOOSE k \in fs : \A j \in fs : j <= k) - 1)
=============================================================================
