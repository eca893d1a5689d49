------------------------------ MODULE MCCodec -------------------------------
(***************************************************************************)
(* Codec on TLVs around every boundary of their lengths and tags.          *)
(***************************************************************************)
EXTENDS Codec

Zeros(n) == [i \in 1..n |-> 0]
Leaf(class, number, n) == Tlv(NewTag(class, Primitive, number), Zeros(n), <<>>)
Node(class, number, children) == Tlv(NewTag(class, Constructed, number), <<>>, children)

\* Values around the limits of the length forms; numbers around those of the
\* tag forms; nodes whose own length crosses a limit, nested and with nil children.
MCLeaves ==
    {Leaf(Application, 26, n) : n \in {0, 1, 5, 127, 128, 255, 256}}
    \cup {Leaf(ContextSpecific, v, n) : v \in {0, 30, 31, 127, 128, 200, 16383, 16384}, n \in {0, 2, 128}}

MCSmall == {Leaf(Universal, 2, n) : n \in {0, 1, 62}}

MCTrees ==
    MCLeaves
    \cup {Node(ContextSpecific, v, kids) : v \in {1, 45, 128},
            kids \in {<<>>, <<Nil>>} \cup {<<a, b>> : a, b \in MCSmall \cup {Nil}}}
    \cup {Node(Universal, 16, <<Leaf(Universal, 4, 3), Node(ContextSpecific, 54, <<a, Nil, b>>), c>>) :
            a, b, c \in MCSmall}
    \cup {Tlv(NewTag(Universal, Constructed, 16), <<1>>, <<>>),
          Tlv(NewTag(Universal, Primitive, 4), <<>>, <<Leaf(Universal, 2, 1)>>),
          Node(Universal, 16, <<Tlv(NewTag(Universal, Constructed, 16), <<1>>, <<>>)>>)}

\* Contents that keep a sequence under, at and over 128 and 256 octets.
MCSizes == {1, 60, 124, 252}
Elements(number, sizes) == [i \in DOMAIN sizes |-> Leaf(ContextSpecific, number, sizes[i])]

MCSequences == {<<>>} \cup {<<a>> : a \in MCSizes} \cup {<<a, b>> : a, b \in {60, 124}}

MCKnown ==
    { Node(ContextSpecific, 54,
         <<Node(ContextSpecific, 35, Elements(2, <<z>>)), Node(ContextSpecific, 0, Elements(7, <<a>>)),
           Node(ContextSpecific, 1, Elements(8, s))>> \o two \o
         <<Node(ContextSpecific, 3, Elements(6, t))>>) :
      z \in {1, 124}, a \in {1, 124}, s \in MCSequences, t \in MCSequences,
      two \in {<<>>, <<Node(ContextSpecific, 2, Elements(7, <<60>>))>>} }

\* One that lacks a child, has one twice or has an unknown one, in any place.
MCUnknown ==
    LET p == Node(ContextSpecific, 54,
               <<Node(ContextSpecific, 35, <<>>), Node(ContextSpecific, 0, Elements(7, <<1>>)),
                 Node(ContextSpecific, 1, Elements(8, <<60, 60>>)),
                 Node(ContextSpecific, 3, Elements(6, <<124>>))>>)
        extra == {Node(ContextSpecific, 2, <<>>), Node(ContextSpecific, 5, <<>>),
                  Node(ContextSpecific, 1, <<>>), Leaf(ContextSpecific, 1, 1)}
    IN  {[p EXCEPT !.children = InsertAt(@, i, e)] : i \in 1..5, e \in extra}
        \cup {[p EXCEPT !.children = RemoveAt(@, i)] : i \in 1..4}
        \cup {[p EXCEPT !.children = Reverse(@)], [p EXCEPT !.tag = Ctx(53)]}

MCPackages == MCKnown \cup MCUnknown

\* A tag, a short length, a long length, constructed tags, a tag of two octets.
MCAlphabet == {0, 2, 3, 48, 63, 129, 255}

MCInts == {-32769, -32768, -256, -255, -129, -128, -2, -1, 0, 1, 127, 128, 255, 256,
           32767, 32768, 65535, 65536, 8388607, 8388608, -8388608, -8388609}
MCBits == UNION {[1..n -> {0, 1}] : n \in 0..5} \cup UNION {[1..n -> {1}] : n \in 6..17}
MCDigits == {SubSeq(<<8, 9, 4, 0, 1, 5, 7>>, 1, n) : n \in 0..7}
=============================================================================
