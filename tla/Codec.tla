-------------------------------- MODULE Codec --------------------------------
(***************************************************************************)
(* The BER-TLV trees of bertlv (tlv_writer.go, tlv_reader.go), the         *)
(* segments of a bound profile package (v2/bpp.go) and the primitive       *)
(* values, written and read back.                                          *)
(*                                                                         *)
(* One run of the machine is one value: it is written, perhaps cut short   *)
(* on its way, and read; or octets arrive that nobody of ours wrote.       *)
(***************************************************************************)
EXTENDS Bertlv

CONSTANTS
    Trees,       \* TLVs that callers write
    Packages,    \* bound profile packages
    Alphabet,    \* octets of foreign data
    MaxArrived,  \* bound on their number
    MaxOctets,   \* bound on the octets of a TLV
    MaxLevels,   \* and on the levels of its tree: each takes a tag and a length
    Ints, Bits, Digits   \* primitive values

VARIABLES phase, source, octets, got

codec == <<phase, source, octets, got>>

\* A missing child: a nil pointer in the code.
Nil == [tag |-> <<>>, value |-> <<>>, children |-> <<>>]

Tlv(tag, value, children) == [tag |-> tag, value |-> value, children |-> children]

\* The TLVs of at most n levels.
TLVs[n \in 0..MaxLevels] ==
    IF n = 0 THEN {Nil}
    ELSE [tag : Seq(Octet), value : Seq(Octet), children : Seq(TLVs[n-1])]

TLV == TLVs[MaxLevels]

Each(f, ts) == [i \in DOMAIN ts |-> f[ts[i]]]

\* The nodes of a tree, without its nil children.
Nodes[t \in TLV] ==
    IF t = Nil THEN {}
    ELSE {t} \cup UNION {Nodes[t.children[i]] : i \in DOMAIN t.children}

-----------------------------------------------------------------------------
(* Writing.                                                                *)

Sum(lengths) ==
    LET upTo[k \in 0..Len(lengths)] == IF k = 0 THEN 0 ELSE upTo[k-1] + lengths[k]
    IN  upTo[Len(lengths)]

\* contentLength, with the length of a child.
ContentLength(t, len) ==
    IF FormOf(t.tag) = Primitive THEN Len(t.value) ELSE Sum(Each(len, t.children))

\* Mutant: 128 octets are given the short form.
WithHeaderOf128(tag, n) ==
    n + Len(tag) + (IF n <= 128 THEN 1 ELSE IF n < 256 THEN 2 ELSE IF n < 65536 THEN 3 ELSE 4)

\* The length of n octets with their tag and length.
WithHeader(tag, n) ==
    n + Len(tag) + (IF n < 128 THEN 1 ELSE IF n < 256 THEN 2 ELSE IF n < 65536 THEN 3 ELSE 4)

\* TLV.Len; a nil child is passed over.
TlvLen[t \in TLV] ==
    IF t = Nil THEN 0 ELSE WithHeader(t.tag, ContentLength(t, TlvLen))

\* WriteTo refuses a value on a constructed tag and children on a primitive one.
Writable(t) ==
    \A u \in Nodes[t] : /\ FormOf(u.tag) = Constructed => u.value = <<>>
                        /\ FormOf(u.tag) = Primitive => u.children = <<>>

WriteTo[t \in TLV] ==
    IF t = Nil THEN <<>>
    ELSE t.tag \o MarshalLength(ContentLength(t, TlvLen)) \o
            (IF FormOf(t.tag) = Primitive THEN t.value
             ELSE FlattenSeq(Each(WriteTo, t.children)))

Present(ts) == FlattenSeq([i \in DOMAIN ts |-> IF ts[i] = Nil THEN <<>> ELSE <<ts[i]>>])

Clone[t \in TLV] ==
    IF t = Nil THEN Nil
    ELSE IF FormOf(t.tag) = Primitive THEN Tlv(t.tag, t.value, <<>>)
    ELSE Tlv(t.tag, <<>>, Present(Each(Clone, t.children)))

-----------------------------------------------------------------------------
(* Reading.  ReadFrom is given children[<<i, stop>>], what is read from i   *)
(* up to stop.                                                             *)

\* Mutant: the value is what is there of it.
ReadShort(s, i, children) ==
    LET t == ReadTag(s, i)
        l == ReadLength(s, t.next)
        c == children[<<l.next, l.next + l.value>>]
        end == IF l.next + l.value - 1 <= Len(s) THEN l.next + l.value - 1 ELSE Len(s)
    IN  IF ~t.ok THEN Failed
        ELSE IF ~l.ok THEN Failed
        ELSE IF FormOf(t.tag) = Constructed
        THEN IF c.ok THEN [ok |-> TRUE, tlv |-> Tlv(t.tag, <<>>, c.children), next |-> c.next]
             ELSE Failed
        ELSE [ok |-> TRUE, tlv |-> Tlv(t.tag, SubSeq(s, l.next, end), <<>>), next |-> end + 1]

\* TLV.ReadFrom.
ReadFrom(s, i, children) ==
    LET t == ReadTag(s, i)
        l == ReadLength(s, t.next)
        c == children[<<l.next, l.next + l.value>>]
    IN  IF ~t.ok THEN Failed
        ELSE IF ~l.ok THEN Failed
        ELSE IF FormOf(t.tag) = Constructed
        THEN IF c.ok THEN [ok |-> TRUE, tlv |-> Tlv(t.tag, <<>>, c.children), next |-> c.next]
             ELSE Failed
        ELSE IF l.next + l.value - 1 > Len(s) THEN Failed
        ELSE [ok |-> TRUE, tlv |-> Tlv(t.tag, SubSeq(s, l.next, l.next + l.value - 1), <<>>),
              next |-> l.next + l.value]

\* Its loop: until as many octets are read as the parent announces, or more, as
\* the last child may reach past the end of its parent.
ReadChildren(s) ==
    LET from[p \in (1..(Len(s)+1)) \X Nat] ==
            LET child == ReadFrom(s, p[1], from)
                rest  == from[<<child.next, p[2]>>]
            IN  IF p[1] >= p[2] THEN [ok |-> TRUE, children |-> <<>>, next |-> p[1]]
                ELSE IF ~child.ok THEN Failed
                ELSE IF ~rest.ok THEN Failed
                ELSE [ok |-> TRUE, children |-> <<child.tlv>> \o rest.children,
                      next |-> rest.next]
    IN  from

ReadTLV(s, i) == ReadFrom(s, i, ReadChildren(s))

-----------------------------------------------------------------------------
(* The segments of a bound profile package.                                *)

Ctx(n) == NewTag(ContextSpecific, Constructed, n)

First(t, tag) ==
    LET hits == {i \in DOMAIN t.children : t.children[i].tag = tag}
    IN  IF hits = {} THEN Nil ELSE t.children[CHOOSE i \in hits : \A j \in hits : i <= j]

\* Mutant: the contents of the children are counted without their headers.
HeaderOfContents(t) ==
    t.tag \o MarshalLength(Sum([i \in DOMAIN t.children |-> ContentLength(t.children[i], TlvLen)]))

MarshalHeader(t) == t.tag \o MarshalLength(Sum(Each(TlvLen, t.children)))

ValidBoundProfilePackage(p) ==
    p.tag = Ctx(54) /\ \A n \in {35, 0, 1, 3} : First(p, Ctx(n)) # Nil

\* The second sequence of '87' is optional.
SegmentedBoundProfilePackage(p) ==
    LET second == First(p, Ctx(2))
    IN  <<MarshalHeader(p) \o WriteTo[First(p, Ctx(35))],
          WriteTo[First(p, Ctx(0))],
          MarshalHeader(First(p, Ctx(1)))>>
        \o Each(WriteTo, First(p, Ctx(1)).children)
        \o (IF second = Nil THEN <<>> ELSE <<WriteTo[second]>>)
        \o <<MarshalHeader(First(p, Ctx(3)))>>
        \o Each(WriteTo, First(p, Ctx(3)).children)

-----------------------------------------------------------------------------
(* The machine.                                                            *)

\* The shape of what NewTag makes: a number below 31 and one below 128, or the
\* continuation bit in every group of seven bits.
FromNewTag(tag) ==
    \/ Len(tag) = 1 /\ tag[1] % 32 # 31
    \/ Len(tag) = 2 /\ tag[1] % 32 = 31 /\ tag[2] < 128
    \/ Len(tag) > 2 /\ tag[1] % 32 = 31 /\ \A k \in 2..Len(tag) : tag[k] >= 128

\* A tag that was read.
FromOctets(tag) == ReadTag(tag, 1) = [ok |-> TRUE, tag |-> tag, next |-> Len(tag) + 1]

\* Callers make their tags with NewTag; packages were read from a server's octets.
\* All are short enough that they still have a length when they were read and
\* every length octet became four.
ASSUME CodecAssumption ==
    /\ MaxOctets \in Nat /\ 4 * MaxOctets <= MaxLength
    /\ MaxLevels \in Nat /\ MaxOctets <= 2 * MaxLevels
    /\ MaxArrived \in 0..MaxOctets /\ Alphabet \subseteq Octet
    /\ Trees \subseteq TLV \ {Nil} /\ Packages \subseteq TLV \ {Nil}
    /\ \A t \in Trees : TlvLen[t] <= MaxOctets
    /\ \A p \in Packages : TlvLen[p] <= MaxLength
    /\ \A t \in Trees : \A u \in Nodes[t] : FromNewTag(u.tag)
    /\ \A p \in Packages :
          Writable(p) /\ \A u \in Nodes[p] : /\ FromOctets(u.tag)
                                             /\ \A i \in DOMAIN u.children : u.children[i] # Nil
    /\ Ints \subseteq Int32
    /\ Bits \subseteq Seq({0, 1}) /\ Digits \subseteq Seq(0..14)

NoSource == [kind |-> "none"]

CodecInit == phase = "idle" /\ source = NoSource /\ octets = <<>> /\ got = Failed

Start(kind, x, bytes) ==
    /\ phase = "idle"
    /\ phase' = "written" /\ source' = [kind |-> kind, of |-> x]
    /\ octets' = bytes /\ UNCHANGED got

MarshalTree(t) == Writable(t) /\ Start("tree", t, WriteTo[t])
MarshalInteger(v) == Start("int", v, MarshalInt(v))
MarshalBits(bits) == Start("bits", bits, MarshalBitString(bits))
MarshalDigits(d) == Start("digits", d, EncodeBCD(d))

RefuseTree(t) ==
    /\ phase = "idle" /\ ~Writable(t)
    /\ phase' = "refused" /\ source' = [kind |-> "tree", of |-> t]
    /\ UNCHANGED <<octets, got>>

\* The stream ends before the TLV does.
Cut ==
    /\ phase = "written" /\ source.kind = "tree" /\ octets # <<>>
    /\ octets' = Front(octets)
    /\ UNCHANGED <<phase, source, got>>

\* Octets of a card, a modem or a server.
Arrive(b) ==
    /\ phase \in {"idle", "arriving"} /\ Len(octets) < MaxArrived
    /\ phase' = "arriving" /\ octets' = Append(octets, b)
    /\ UNCHANGED <<source, got>>

UnmarshalBinary ==
    /\ phase = "arriving" \/ (phase = "written" /\ source.kind = "tree")
    /\ phase' = "read" /\ got' = ReadTLV(octets, 1)
    /\ UNCHANGED <<source, octets>>

UnmarshalInteger(size) ==
    /\ phase = "arriving" \/ (phase = "written" /\ source.kind = "int")
    /\ phase' = "readInt" /\ got' = [size |-> size, read |-> UnmarshalInt(size, octets)]
    /\ UNCHANGED <<source, octets>>

UnmarshalValue ==
    /\ phase = "written"
    /\ \/ source.kind = "bits" /\ got' = UnmarshalBitString(octets)
       \/ source.kind = "digits" /\ got' = [ok |-> TRUE, value |-> DecodeBCD(octets)]
    /\ phase' = "readValue"
    /\ UNCHANGED <<source, octets>>

SegmentPackage(p) ==
    /\ phase = "idle"
    /\ phase' = "segmented" /\ source' = [kind |-> "package", of |-> p]
    /\ octets' = WriteTo[p]
    /\ got' = IF ValidBoundProfilePackage(p)
              THEN [ok |-> TRUE, segments |-> SegmentedBoundProfilePackage(p)] ELSE Failed

CodecNext ==
    \/ \E t \in Trees : MarshalTree(t) \/ RefuseTree(t)
    \/ \E v \in Ints : MarshalInteger(v)
    \/ \E b \in Bits : MarshalBits(b)
    \/ \E d \in Digits : MarshalDigits(d)
    \/ \E b \in Alphabet : Arrive(b)
    \/ \E size \in {1, 2, 4} : UnmarshalInteger(size)
    \/ Cut \/ UnmarshalBinary \/ UnmarshalValue
    \/ \E p \in Packages : SegmentPackage(p)

CodecSpec == CodecInit /\ [][CodecNext]_codec

-----------------------------------------------------------------------------
(* Properties.                                                             *)

\* NewTag gave every tag a number below 128, as its one or two octets show.
SmallTags(t) == \A u \in Nodes[t] : Len(u.tag) <= 2

\* A TLV that was written reads back as it was, without its nil children, to its
\* last octet, and never from fewer octets: as long as no tag number is 128 or
\* more.  With such a number NewTag writes what Tag.ReadFrom reads differently.
ReadsBack ==
    phase = "read" /\ source.kind = "tree" =>
        LET t == source.of
            whole == Len(octets) = TlvLen[t]
            same  == got.ok /\ got.tlv = Clone[t] /\ got.next = TlvLen[t] + 1
        IN  /\ whole => (same <=> SmallTags(t))
            /\ ~whole /\ SmallTags(t) => ~got.ok

\* Whatever octets are read as a TLV, a child past its parent's end or a long
\* form for a short length, what was read writes to octets that read the same,
\* and has the length that Len says: reading settles what a TLV is.
StableReading ==
    phase = "read" /\ got.ok =>
        LET again == ReadTLV(WriteTo[got.tlv], 1)
        IN  Writable(got.tlv) /\ again.ok /\ again.tlv = got.tlv
            /\ again.next = TlvLen[got.tlv] + 1

\* The segments sent to the card are the octets of the package, in order and
\* complete, for every package of the five known children in their order, and
\* for no other: a child more, twice or elsewhere is lost or moved while the
\* header of the package still counts it.
KnownChildren(p) ==
    /\ p.tag = Ctx(54)
    /\ [i \in DOMAIN p.children |-> p.children[i].tag] \in
        { <<Ctx(35), Ctx(0), Ctx(1), Ctx(3)>>, <<Ctx(35), Ctx(0), Ctx(1), Ctx(2), Ctx(3)>> }

SegmentsArePackage ==
    phase = "segmented" =>
        (KnownChildren(source.of) <=> got.ok /\ FlattenSeq(got.segments) = octets)

\* The value of octets in two's complement, the most significant first.
TwosComplement(s) ==
    LET upTo[k \in 0..Len(s)] ==
            IF k = 0 THEN IF s[1] > 127 THEN -1 ELSE 0 ELSE upTo[k-1] * 256 + s[k]
    IN  upTo[Len(s)]

\* An integer reads back in every size that holds it and is refused in a smaller
\* one, and foreign octets, with any number of leading signs, have the value of
\* their two's complement; bits read back unless they fill their octets; digits
\* read back, odd or even.
PrimitivesReadBack ==
    /\ phase = "readInt" =>
          /\ got.read.ok <=> Len(octets) <= got.size
          /\ got.read.ok => got.read.value = TwosComplement(octets)
          /\ source.kind = "int" /\ got.size = 4 => got.read.ok /\ got.read.value = source.of
    /\ phase = "readValue" /\ source.kind = "bits" =>
          IF Len(source.of) % 8 = 0 THEN ~got.ok ELSE got.ok /\ got.value = source.of
    /\ phase = "readValue" /\ source.kind = "digits" => got.value = source.of
=============================================================================
