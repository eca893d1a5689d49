-------------------------- MODULE Transmitter_proofs --------------------------
(***************************************************************************)
(* Proofs about Transmitter, for any block size, any commands, channels    *)
(* and answers.                                                            *)
(***************************************************************************)
EXTENDS Transmitter, TLAPS

USE MSSAssumption, InputsAssumption

Running == {"block", "blockSent", "get", "getSent"}

-----------------------------------------------------------------------------
(* Arithmetic.                                                             *)

\* The class byte is a byte that names the channel, whatever byte it was.
LEMMA ClassNamesChannel ==
    ASSUME NEW x \in Byte, NEW ch \in 0..19
    PROVE  SetChannelToCLA(x, ch) \in Byte /\ ChannelOf(SetChannelToCLA(x, ch)) = ch
<1>1. (x \div 128) % 2 \in 0..1
  BY DEF Byte
<1>2. (x \div 4) % 8 \in 0..7 /\ (x \div 16) % 4 \in 0..3
  BY DEF Byte
<1>3. CASE ch < 4
  BY <1>1, <1>2, <1>3 DEF SetChannelToCLA, ChannelOf, Keep, Byte
<1>4. CASE ~(ch < 4)
  BY <1>1, <1>2, <1>4 DEF SetChannelToCLA, ChannelOf, Keep, Byte
<1> QED
  BY <1>3, <1>4

LEMMA BlockSizeIs ==
    ASSUME cmd \in Nat, n \in Nat
    PROVE  /\ n < cmd => BlockSize \in 1..MSS /\ n + BlockSize <= cmd
           /\ n < cmd /\ n + BlockSize < cmd => BlockSize = MSS
           /\ n < cmd /\ BlockSize < MSS => n + BlockSize = cmd
           /\ n <= cmd => BlockSize \in 0..MSS
BY DEF BlockSize

\* Counting blocks: what is left of it needs no product of two variables.
LEMMA BlocksCount ==
    ASSUME NEW p \in Nat
    PROVE  /\ p * MSS \in Nat /\ (p + 1) * MSS = p * MSS + MSS
           /\ p > 0 => p * MSS > 0
           /\ (p + 1) * MSS < 256 * MSS => p + 1 < 256
BY SMT

LEMMA LastBlock ==
    ASSUME NEW c \in Nat, NEW p \in Nat, p * MSS < c
    PROVE  p = c \div MSS <=> c < p * MSS + MSS
BY SMT

LEMMA ShortBlock ==
    ASSUME NEW c \in Nat, NEW p \in Nat, p * MSS < c, c <= p * MSS + MSS
    PROVE  c % MSS = 0 <=> c = p * MSS + MSS
BY SMT

-----------------------------------------------------------------------------
(* Types.                                                                  *)

\* A block that was sent had bytes left to send, and before the channel is opened
\* nothing has been.
InCommand ==
    /\ n <= cmd /\ (pc = "blockSent" => n < cmd)
    /\ pc = "new" => last.size = 0 /\ result = "none"

LEMMA TypesKept ==
    ASSUME TypeOK, InCommand, Next
    PROVE  TypeOK' /\ InCommand'
<1> USE DEF TypeOK, InCommand, call
<1>0. 128 \in Byte /\ 0 \in Byte
  BY DEF Byte
<1>1. CASE Connect \/ OpenFails \/ Return \/ TransmitFails
  <2>1. CASE Connect
    BY <2>1 DEF Connect
  <2>2. CASE OpenFails
    BY <2>2 DEF OpenFails
  <2>3. CASE Return
    BY <2>3 DEF Return
  <2>4. CASE TransmitFails
    BY <2>4 DEF TransmitFails
  <2> QED
    BY <1>1, <2>1, <2>2, <2>3, <2>4
<1>7. CASE Close
  BY <1>7 DEF Close
<1>8. CASE \E ch \in Channels : OpenLogicalChannel(ch)
  BY <1>8 DEF OpenLogicalChannel
<1>2. CASE \E length \in Lengths : Write(length)
  BY <1>2 DEF Write, Byte
<1>3. CASE SendBlock
  <2>1. BlockSize \in Nat /\ n < cmd
    BY <1>3, BlockSizeIs DEF SendBlock
  <2>2. cla' \in Byte /\ last' \in [cla : Byte, size : Nat]
    BY <1>3, <2>1, ClassNamesChannel DEF SendBlock
  <2>3. p2 + 1 \in Nat /\ card' \in [got : Nat, next : Nat, done : BOOLEAN]
    BY <1>3, <2>1 DEF SendBlock, CardTakes, Byte
  <2> QED
    BY <1>3, <2>2, <2>3 DEF SendBlock
<1>4. CASE GetResponse
  <2>1. SetChannelToCLA(128, channel) \in Byte
    BY <1>0, ClassNamesChannel
  <2> QED
    BY <1>4, <2>1 DEF GetResponse
<1>5. CASE BlockDone \/ (\E xx \in Announced : BlockHasMore(xx))
  <2>1. BlockSize \in Nat /\ n + BlockSize <= cmd
    BY <1>5, BlockSizeIs DEF BlockDone, BlockHasMore
  <2>2. (p2 + 1) % 256 \in Byte /\ \A xx \in Announced : xx \in Byte
    BY DEF Byte
  <2>3. n' \in Nat /\ n' <= cmd' /\ p2' \in Byte /\ UNCHANGED <<cmd, chunks>>
    BY <1>5, <2>1, <2>2 DEF BlockDone, BlockHasMore, NextBlock
  <2>4. said' \in Nat /\ response' \in Seq(Nat)
    <3>1. said + 1 \in Nat /\ Append(response, said + 1) \in Seq(Nat)
      OBVIOUS
    <3> QED
      BY <1>5, <3>1 DEF BlockDone, BlockHasMore
  <2>5. /\ pc' \in {"block", "get"} /\ announced' \in Byte \cup {Nothing} /\ le' \in Byte
        /\ UNCHANGED <<link, channel, cla, result, last, card>>
    BY <1>5, <2>2 DEF BlockDone, BlockHasMore
  <2> QED
    BY <2>3, <2>4, <2>5
<1>6. CASE GetDone \/ (\E xx \in Announced : GetHasMore(xx))
  <2>1. \A xx \in Announced : xx \in Byte
    BY DEF Byte
  <2>2. said' \in Nat /\ response' \in Seq(Nat)
    <3>1. said + 1 \in Nat /\ Append(response, said + 1) \in Seq(Nat)
      OBVIOUS
    <3> QED
      BY <1>6, <3>1 DEF GetDone, GetHasMore
  <2>3. /\ pc' \in {"block", "get"} /\ announced' \in Byte \cup {Nothing} /\ le' \in Byte
        /\ UNCHANGED <<link, channel, call, cla, result, last, card>>
    BY <1>0, <1>6, <2>1 DEF GetDone, GetHasMore
  <2> QED
    BY <2>2, <2>3
<1> QED
  BY <1>1, <1>2, <1>3, <1>4, <1>5, <1>6, <1>7, <1>8 DEF Next

LEMMA AlwaysInCommand == Spec => [](TypeOK /\ InCommand)
<1>1. Init => TypeOK /\ InCommand
  BY DEF Init, TypeOK, InCommand, Byte
<1>2. TypeOK /\ InCommand /\ UNCHANGED vars => TypeOK' /\ InCommand'
  BY DEF TypeOK, InCommand, vars, call
<1> QED
  BY <1>1, <1>2, TypesKept, PTL DEF Spec

\* Every variable of Transmitter keeps its type: the numbers of blocks, the class
\* bytes and the announced lengths stay bytes.
THEOREM TypeCorrect == Spec => []TypeOK
BY AlwaysInCommand, PTL

-----------------------------------------------------------------------------
(* The channel and the answer.                                             *)

\* What has been read of the answer, and what the card waits to be asked for.
Collected ==
    /\ pc \in Running \/ Ended("ok") => response = [i \in 1..said |-> i]
    /\ pc \in {"block", "blockSent"} => announced = Nothing
    /\ pc \in {"get", "getSent"} => announced # Nothing /\ le = announced

LEMMA ChannelKept ==
    ASSUME TypeOK, InCommand, OnOurChannel, Next
    PROVE  OnOurChannel'
<1> USE DEF InCommand, OnOurChannel
<1>1. CASE SendBlock
  BY <1>1, ClassNamesChannel DEF SendBlock, TypeOK, call
<1>2. CASE GetResponse
  <2>1. 128 \in Byte
    BY DEF Byte
  <2>2. ChannelOf(SetChannelToCLA(128, channel)) = channel
    BY <2>1, ClassNamesChannel DEF TypeOK
  <2> QED
    BY <1>2, <2>2 DEF GetResponse
<1>3. CASE ~SendBlock /\ ~GetResponse
  BY <1>3 DEF Next, Connect, OpenLogicalChannel, OpenFails, Close, Write, BlockDone, GetDone,
              TransmitFails, Return, BlockHasMore, GetHasMore, TypeOK
<1> QED
  BY <1>1, <1>2, <1>3

LEMMA PieceAppended ==
    ASSUME NEW k \in Nat
    PROVE  Append([i \in 1..k |-> i], k + 1) = [i \in 1..(k + 1) |-> i]
OBVIOUS

LEMMA AnswerKept ==
    ASSUME TypeOK, InCommand, Collected, Next
    PROVE  Collected'
<1> USE DEF Collected, Running, Ended
<1>1. CASE Connect \/ OpenFails \/ TransmitFails
  BY <1>1 DEF Connect, OpenFails, TransmitFails
<1>8. CASE Close
  <2>1. pc' = "closed"
    BY <1>8 DEF Close
  <2> QED
    BY <2>1
<1>9. CASE \E ch \in Channels : OpenLogicalChannel(ch)
  BY <1>9 DEF OpenLogicalChannel, InCommand
<1>2. CASE \E length \in Lengths : Write(length)
  <2>1. <<>> = [i \in 1..0 |-> i]
    OBVIOUS
  <2> QED
    BY <1>2, <2>1 DEF Write
<1>3. CASE SendBlock \/ GetResponse \/ Return
  BY <1>3 DEF SendBlock, GetResponse, Return
<1>4. CASE BlockDone
  BY <1>4, PieceAppended DEF BlockDone, TypeOK
<1>5. CASE \E xx \in Announced : BlockHasMore(xx)
  BY <1>5 DEF BlockHasMore, Nothing
<1>6. CASE GetDone
  BY <1>6, PieceAppended DEF GetDone, TypeOK
<1>7. CASE \E xx \in Announced : GetHasMore(xx)
  BY <1>7, PieceAppended DEF GetHasMore, TypeOK, Nothing
<1> QED
  BY <1>1, <1>2, <1>3, <1>4, <1>5, <1>6, <1>7, <1>8, <1>9 DEF Next

\* Every APDU goes to the logical channel that was opened, for all twenty of them
\* and however often the class byte is masked.
THEOREM ChannelNamed == Spec => []OnOurChannel
<1>1. Init => OnOurChannel
  BY DEF Init, OnOurChannel
<1>2. OnOurChannel /\ UNCHANGED vars => OnOurChannel'
  BY DEF OnOurChannel, vars
<1> QED
  BY <1>1, <1>2, AlwaysInCommand, ChannelKept, PTL DEF Spec

\* A call that succeeds returns the whole answer, of any number of pieces.
THEOREM AnswerComplete == Spec => []WholeAnswer
<1>1. Init => Collected
  BY DEF Init, Collected, Running, Ended
<1>2. Collected /\ UNCHANGED vars => Collected'
  BY DEF Collected, Running, Ended, vars
<1>3. Collected => WholeAnswer
  BY DEF Collected, WholeAnswer
<1> QED
  BY <1>1, <1>2, <1>3, AlwaysInCommand, AnswerKept, PTL DEF Spec

-----------------------------------------------------------------------------
(* The command.                                                            *)

\* The card has n bytes, and expects the block that Write numbers next.
UpToDate == card.got = n /\ (n < cmd => card.next = p2)

\* It was told that the command is complete.
Complete == card.done <=> card.got = cmd /\ cmd % MSS # 0

\* p2 wraps only when all is sent, so until then it is the number of blocks.
Fits == cmd <= 256 * MSS
Placed ==
    Fits =>
        /\ n <= cmd
        /\ pc \in Running /\ n < cmd => n = p2 * MSS
        /\ pc = "blockSent" => n < cmd /\ card.got = n + BlockSize /\ card.next = p2 + 1
        /\ pc \in {"block", "get", "getSent"} /\ n > 0 => UpToDate
        /\ n > 0 => card.got \in {n, n + BlockSize}
        /\ pc \in {"get", "getSent"} => n > 0
        /\ Ended("ok") => n = cmd /\ (n > 0 => card.got = n)

\* With fewer blocks the block count does not wrap either.
Flagged ==
    Numbered =>
        /\ pc \in Running => chunks = cmd \div MSS
        /\ pc = "blockSent" \/ n > 0 => Complete

\* The card puts no more than 256 blocks together.
Bounded == card.next <= 256 /\ card.got <= card.next * MSS

LEMMA SendPlaces ==
    ASSUME TypeOK, Placed, SendBlock, Fits
    PROVE  /\ Placed' /\ UNCHANGED <<cmd, n, chunks, p2>>
           /\ n = p2 * MSS /\ n < cmd /\ (p2 > 0 => n > 0 /\ card.next = p2)
           /\ card'.got = n + BlockSize /\ BlockSize \in 1..MSS /\ n + BlockSize <= cmd
<1>1. /\ n < cmd /\ pc = "block" /\ n = p2 * MSS
      /\ n > 0 => UpToDate
      /\ UNCHANGED <<cmd, n, chunks, p2>> /\ pc' = "blockSent" /\ CardTakes(BlockP1, p2, BlockSize)
      /\ cmd \in Nat /\ n \in Nat /\ p2 \in Nat
  BY DEF SendBlock, Placed, Running, TypeOK, Byte, call
<1>2. /\ p2 > 0 => n > 0
      /\ p2 = 0 => n = 0
  BY <1>1, BlocksCount
<1>3. BlockSize \in 1..MSS /\ n + BlockSize <= cmd
  BY <1>1, BlockSizeIs
<1>4. card'.got = n + BlockSize /\ card'.next = p2 + 1
  BY <1>1, <1>2, <1>3 DEF CardTakes, UpToDate
<1>5. Placed'
  BY <1>1, <1>3, <1>4 DEF Placed, Fits, Running, Ended, BlockSize
<1> QED
  BY <1>1, <1>2, <1>3, <1>4, <1>5 DEF UpToDate

LEMMA SendFlags ==
    ASSUME TypeOK, Placed, Flagged, SendBlock, Numbered
    PROVE  Flagged'
<1>0. Fits
  BY DEF Fits, Numbered, TypeOK
<1>1. /\ n = p2 * MSS /\ n < cmd /\ (p2 > 0 => n > 0 /\ card.next = p2)
      /\ UNCHANGED <<cmd, n, chunks, p2>>
      /\ card'.got = n + BlockSize /\ BlockSize \in 1..MSS /\ n + BlockSize <= cmd
  BY <1>0, SendPlaces
<1>2. /\ pc = "block" /\ chunks = cmd \div MSS /\ (n > 0 => Complete /\ UpToDate)
      /\ pc' = "blockSent" /\ CardTakes(BlockP1, p2, BlockSize)
      /\ cmd \in Nat /\ n \in Nat /\ p2 \in Nat
  BY <1>0 DEF SendBlock, Placed, Flagged, Running, TypeOK, Byte
<1>5. p2 = chunks <=> cmd < n + MSS
  BY <1>1, <1>2, LastBlock
<1>6. p2 = chunks <=> n + BlockSize = cmd /\ cmd % MSS # 0
  BY <1>1, <1>2, <1>5, ShortBlock DEF BlockSize
<1>7. card'.done <=> n + BlockSize = cmd /\ cmd % MSS # 0
  <2>0. BlockP1 = 145 <=> p2 = chunks
    BY DEF BlockP1
  <2>1. CASE p2 = 0
    <3>1. card'.done = (BlockP1 = 145)
      BY <1>2, <2>1 DEF CardTakes
    <3> QED
      BY <1>6, <2>0, <3>1
  <2>2. CASE p2 # 0
    <3>1. n > 0 /\ card.got = n /\ card.next = p2 /\ Complete
      BY <1>1, <1>2, <2>2 DEF UpToDate
    <3>2. ~card.done
      BY <1>1, <3>1 DEF Complete
    <3> QED
      <4>1. card'.done = (card.done \/ BlockP1 = 145)
        BY <1>2, <2>2, <3>1 DEF CardTakes
      <4> QED
        BY <1>6, <2>0, <3>2, <4>1
  <2> QED
    BY <2>1, <2>2
<1> QED
  BY <1>1, <1>2, <1>7 DEF Flagged, Complete, Numbered

LEMMA AnsweredPlaces ==
    ASSUME TypeOK, Placed, BlockDone \/ (\E xx \in Announced : BlockHasMore(xx)), Fits
    PROVE  Placed'
<1>1. /\ pc = "blockSent" /\ n < cmd /\ n = p2 * MSS
      /\ card.got = n + BlockSize /\ card.next = p2 + 1
      /\ p2' = (p2 + 1) % 256 /\ n' = n + BlockSize /\ UNCHANGED <<cmd, card>>
      /\ pc' \in {"block", "get"} /\ cmd \in Nat /\ n \in Nat /\ p2 \in Nat /\ p2 < 256
  BY DEF BlockDone, BlockHasMore, NextBlock, Placed, Running, TypeOK, Byte
<1>2. BlockSize \in 1..MSS /\ n + BlockSize <= cmd /\ (n + BlockSize < cmd => BlockSize = MSS)
  BY <1>1, BlockSizeIs
<1>3. n' < cmd => n' = p2' * MSS /\ p2' = p2 + 1
  <2> SUFFICES ASSUME n' < cmd
               PROVE  n' = p2' * MSS /\ p2' = p2 + 1
    OBVIOUS
  <2>1. n' = (p2 + 1) * MSS
    BY <1>1, <1>2, BlocksCount
  <2>2. p2 + 1 < 256
    BY <1>1, <2>1, BlocksCount DEF Fits
  <2> QED
    BY <1>1, <2>1, <2>2
<1> QED
  BY <1>1, <1>2, <1>3 DEF Placed, UpToDate, Fits, Running, Ended

LEMMA AnsweredFlags ==
    ASSUME TypeOK, Placed, Flagged, BlockDone \/ (\E xx \in Announced : BlockHasMore(xx)), Numbered
    PROVE  Flagged'
<1>1. /\ pc = "blockSent" /\ chunks = cmd \div MSS /\ Complete
      /\ UNCHANGED <<cmd, chunks, card>>
  BY DEF BlockDone, BlockHasMore, NextBlock, Flagged, Running
<1> QED
  BY <1>1 DEF Flagged, Complete, Numbered

LEMMA OthersPlace ==
    ASSUME TypeOK, InCommand, Placed, Flagged, Next, ~SendBlock, ~BlockDone,
           \A xx \in Announced : ~BlockHasMore(xx)
    PROVE  Placed' /\ Flagged'
<1>1. CASE \E length \in Lengths : Write(length)
  <2>1. PICK length \in Lengths : Write(length)
    BY <1>1
  <2>2. Placed'
    BY <2>1 DEF Write, Placed, Running, Ended
  <2>3. SUFFICES ASSUME length < 256 * MSS
                 PROVE  chunks' = length \div MSS
    BY <2>1, <2>2, <2>3 DEF Write, Flagged, Numbered, Running
  <2>4. length \div MSS \in 0..255
    BY <2>3
  <2> QED
    BY <2>1, <2>4 DEF Write
<1>2. CASE Return
  BY <1>2 DEF Return, Placed, Flagged, Numbered, Fits, Running, Ended, UpToDate, Complete,
              BlockSize, TypeOK, call
<1>3. CASE TransmitFails
  BY <1>3 DEF TransmitFails, Placed, Flagged, Numbered, Fits, Running, Ended, UpToDate, Complete,
              BlockSize, call
<1>4. CASE GetResponse \/ GetDone \/ (\E xx \in Announced : GetHasMore(xx))
  BY <1>4 DEF GetResponse, GetDone, GetHasMore, Placed, Flagged, Numbered, Fits, Running, Ended,
              UpToDate, Complete, BlockSize, call
<1>6. CASE Close
  <2>1. pc' = "closed" /\ UNCHANGED <<cmd, n, chunks, p2, card>>
    BY <1>6 DEF Close, call
  <2> QED
    BY <2>1 DEF Placed, Flagged, Numbered, Fits, Running, Ended, UpToDate, Complete, BlockSize
<1>5. CASE Connect \/ OpenFails \/ \E ch \in Channels : OpenLogicalChannel(ch)
  BY <1>5 DEF Connect, OpenFails, OpenLogicalChannel, InCommand, Placed, Flagged, Numbered, Fits,
              Running, Ended, UpToDate, Complete, BlockSize, call
<1> QED
  BY <1>1, <1>2, <1>3, <1>4, <1>5, <1>6 DEF Next

LEMMA PlacesKept ==
    ASSUME TypeOK, InCommand, Placed, Flagged, Next
    PROVE  Placed' /\ Flagged'
<1>1. CASE ~SendBlock /\ ~BlockDone /\ \A xx \in Announced : ~BlockHasMore(xx)
  BY <1>1, OthersPlace
<1>2. CASE SendBlock \/ BlockDone \/ (\E xx \in Announced : BlockHasMore(xx))
  <2>1. cmd' = cmd
    BY <1>2 DEF SendBlock, BlockDone, BlockHasMore, NextBlock, call
  <2>2. Placed'
    BY <1>2, <2>1, SendPlaces, AnsweredPlaces DEF Placed, Fits
  <2>3. Flagged'
    BY <1>2, <2>1, SendFlags, AnsweredFlags DEF Flagged, Numbered
  <2> QED
    BY <2>2, <2>3
<1> QED
  BY <1>1, <1>2

LEMMA CardBounded ==
    ASSUME TypeOK, Bounded, Next
    PROVE  Bounded'
<1>1. CASE SendBlock
  <2>1. /\ CardTakes(BlockP1, p2, BlockSize) /\ n < cmd /\ p2 \in 0..255
        /\ cmd \in Nat /\ n \in Nat /\ card.got \in Nat /\ card.next \in Nat
    BY <1>1 DEF SendBlock, TypeOK, Byte
  <2>2. BlockSize \in 1..MSS
    BY <2>1, BlockSizeIs
  <2>3. (p2 + 1) * MSS = p2 * MSS + MSS /\ p2 * MSS \in Nat
    BY <2>1, BlocksCount
  <2>4. CASE p2 = 0
    <3>1. card'.got = BlockSize /\ card'.next = 1
      BY <2>1, <2>4 DEF CardTakes
    <3> QED
      BY <2>2, <3>1 DEF Bounded
  <2>5. CASE p2 # 0 /\ p2 = card.next
    <3>1. card'.got = card.got + BlockSize /\ card'.next = p2 + 1
      BY <2>1, <2>5 DEF CardTakes
    <3>2. card.got <= p2 * MSS
      BY <2>5 DEF Bounded
    <3>3. card.got + BlockSize <= p2 * MSS + MSS
      BY <2>1, <2>2, <2>3, <3>2
    <3>4. card'.got <= (p2 + 1) * MSS
      BY <2>3, <3>1, <3>3
    <3>5. card'.got <= card'.next * MSS /\ card'.next <= 256
      BY <2>1, <3>1, <3>4
    <3> QED
      BY <3>5 DEF Bounded
  <2>6. CASE p2 # 0 /\ p2 # card.next
    BY <2>1, <2>6 DEF CardTakes, Bounded
  <2> QED
    BY <2>4, <2>5, <2>6
<1>2. CASE ~SendBlock
  <2>1. card' = card
    BY <1>2 DEF Next, Connect, OpenLogicalChannel, OpenFails, Close, Write, BlockDone, GetResponse,
                GetDone, TransmitFails, Return, BlockHasMore, GetHasMore
  <2> QED
    BY <2>1 DEF Bounded
<1> QED
  BY <1>1, <1>2

LEMMA BytesBounded ==
    ASSUME TypeOK, Bounded
    PROVE  card.got <= 256 * MSS
<1> DEFINE k == card.next
           g == card.got
<1>1. k \in Nat /\ k <= 256 /\ g \in Nat /\ g <= k * MSS
  BY DEF TypeOK, Bounded
<1> HIDE DEF k, g
<1>2. PICK d \in Nat : k + d = 256
  <2>1. 256 - k \in Nat /\ k + (256 - k) = 256
    BY <1>1
  <2> QED
    BY <2>1
<1>3. d * MSS \in Nat /\ k * MSS \in Nat
  BY <1>1, BlocksCount
<1>4. k * MSS + d * MSS = (k + d) * MSS
  BY <1>1, MSSAssumption, SMT
<1>5. g <= 256 * MSS
  BY <1>1, <1>2, <1>3, <1>4
<1> QED
  BY <1>5 DEF g

LEMMA AlwaysPlaced == Spec => [](Placed /\ Flagged /\ Bounded)
<1>1. Init => Placed /\ Flagged /\ Bounded
  BY DEF Init, Placed, Flagged, Bounded, Running, Ended
<1>2. Placed /\ Flagged /\ Bounded /\ UNCHANGED vars => Placed' /\ Flagged' /\ Bounded'
  BY DEF Placed, Flagged, Bounded, Numbered, Fits, Running, Ended, UpToDate, Complete, BlockSize,
         vars, call
<1> QED
  BY <1>1, <1>2, PlacesKept, CardBounded, AlwaysInCommand, PTL DEF Spec

\* A command of at most 256 blocks, of any size, is on the card as far as Write
\* counts it.  A call that succeeds leaves the whole command there exactly if it
\* has no more blocks than that.
THEOREM CommandComplete == Spec => []WholeCommand
<1>1. TypeOK /\ Placed /\ Bounded => WholeCommand
  <2> SUFFICES ASSUME TypeOK, Placed, Bounded
               PROVE  WholeCommand
    OBVIOUS
  <2>1. card.got <= 256 * MSS
    BY BytesBounded
  <2> QED
    BY <2>1 DEF Placed, Fits, WholeCommand, UpToDate, Running, Ended, TypeOK
<1> QED
  BY <1>1, TypeCorrect, AlwaysPlaced, PTL

\* A command of fewer blocks is flagged on its last one if that is short, and
\* never else.
THEOREM FlagIsLast == Spec => []FlaggedLast
<1>1. Flagged => FlaggedLast
  BY DEF Flagged, FlaggedLast, Complete
<1> QED
  BY <1>1, AlwaysPlaced, PTL
=============================================================================
