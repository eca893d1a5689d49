----------------------------- MODULE Transmitter ----------------------------
(***************************************************************************)
(* The APDU transmitter of apdu/transmitter.go under TransmitRaw of        *)
(* driver/transmitter.go: a command is cut into STORE DATA blocks of at    *)
(* most MSS bytes, and after each block the answer is collected, with GET  *)
(* RESPONSE as long as the card announces more (SW 61xx).                  *)
(*                                                                         *)
(* A command is its length, an answer the sequence of the pieces the card  *)
(* said, numbered from 1 in each call.  One call runs at a time: Write and *)
(* the ReadAll after it share t.response and t.mu covers one APDU only.    *)
(* The card is external: it assembles blocks that continue one another and *)
(* sends no data with the 61xx that answers a block, which carries no Le.  *)
(***************************************************************************)
EXTENDS Integers, Sequences

CONSTANTS
    MSS,        \* Options.MSS, after setDefaults and validate
    Lengths,    \* lengths of the commands
    Channels,   \* logical channels the card may open
    Announced,  \* the xx of a 61xx; 0 is 256 bytes or more
    MaxPieces   \* bound on the pieces the card says in one call

ASSUME MSSAssumption == MSS \in 1..254
ASSUME InputsAssumption ==
    /\ Lengths \subseteq Nat /\ Channels \subseteq 0..19
    /\ Announced \subseteq 0..255 /\ MaxPieces \in Nat

VARIABLES
    pc,         \* where the call is
    link,       \* "down", "connected" or "open": the SmartCardChannel
    channel,    \* t.logicalChannel
    cmd,        \* len(command)
    n,          \* bytes of it in answered blocks
    chunks,     \* the last block's number, as Write computes it
    p2, cla,    \* of the request that Write reuses
    le,         \* of readCommandResponse's request
    response,   \* t.response
    result,     \* of the last call
    last,       \* the APDU sent last: its class byte and its size
    card,       \* the card's view of the command
    said,       \* pieces the card said in this call
    announced   \* the xx of the 61xx the card waits to be asked about, or Nothing

call == <<cmd, n, chunks, p2>>
vars == <<pc, link, channel, call, cla, le, response, result, last, card, said, announced>>

Byte == 0..255
Nothing == -1

TypeOK ==
    /\ pc \in {"new", "idle", "block", "blockSent", "get", "getSent", "closed"}
    /\ link \in {"down", "connected", "open"}
    /\ channel \in 0..19
    /\ cmd \in Nat /\ n \in Nat
    /\ chunks \in Byte /\ p2 \in Byte /\ cla \in Byte /\ le \in Byte
    /\ response \in Seq(Nat)
    /\ result \in {"none", "ok", "error"}
    /\ last \in [cla : Byte, size : Nat]
    /\ card \in [got : Nat, next : Nat, done : BOOLEAN]
    /\ said \in Nat /\ announced \in Byte \cup {Nothing}

Init ==
    /\ pc = "new" /\ link = "down" /\ channel = 0
    /\ cmd = 0 /\ n = 0 /\ chunks = 0 /\ p2 = 0 /\ cla = 128 /\ le = 0
    /\ response = <<>> /\ result = "none"
    /\ last = [cla |-> 128, size |-> 0]
    /\ card = [got |-> 0, next |-> 0, done |-> FALSE]
    /\ said = 0 /\ announced = Nothing

-----------------------------------------------------------------------------
(* Operators.                                                              *)

\* The bits of x that take these values from this unit on, the others cleared.
Keep(x, unit, values) == ((x \div unit) % values) * unit

\* Mutant: the channel is or-ed in without clearing the bits before it.
ChannelOred(x, ch) == IF ch < 4 THEN x + ch ELSE x + 64 + (ch - 4)

\* The masks are 0x9C and 0xB0, and the bits or-ed in are clear in them.
SetChannelToCLA(x, ch) ==
    IF ch < 4 THEN Keep(x, 128, 2) + Keep(x, 4, 8) + ch
    ELSE Keep(x, 128, 2) + Keep(x, 16, 4) + 64 + (ch - 4)

\* How ISO 7816-4 reads the logical channel back.
ChannelOf(x) == IF Keep(x, 64, 2) = 0 THEN x % 4 ELSE 4 + (x % 16)

\* The block that starts at byte n, and its P1.
BlockSize == IF cmd - n < MSS THEN cmd - n ELSE MSS

\* Mutant: the last block's number is one too low.
FlagEarly == IF p2 + 1 = chunks THEN 145 ELSE 17
BlockP1   == IF p2 = chunks THEN 145 ELSE 17

\* The card takes a block: number 0 starts a command anew.
CardTakes(p1, num, size) ==
    card' = IF num = 0
            THEN [got |-> size, next |-> 1, done |-> p1 = 145]
            ELSE IF num = card.next
            THEN [got |-> card.got + size, next |-> num + 1, done |-> card.done \/ p1 = 145]
            ELSE card

-----------------------------------------------------------------------------
(* NewTransmitter and Close.                                               *)

Connect ==
    /\ pc = "new" /\ link = "down"
    /\ link' = "connected"
    /\ UNCHANGED <<pc, channel, call, cla, le, response, result, last, card, said, announced>>

OpenLogicalChannel(ch) ==
    /\ pc = "new" /\ link = "connected"
    /\ link' = "open" /\ channel' = ch /\ pc' = "idle"
    /\ UNCHANGED <<call, cla, le, response, result, last, card, said, announced>>

\* NewTransmitter reports the error and leaves the channel connected.
OpenFails ==
    /\ pc = "new" /\ link = "connected"
    /\ pc' = "closed" /\ result' = "error"
    /\ UNCHANGED <<link, channel, call, cla, le, response, last, card, said, announced>>

\* Disconnect follows CloseLogicalChannel whether or not that failed.
Close ==
    /\ pc = "idle"
    /\ link' = "down" /\ pc' = "closed"
    /\ \E r \in {"ok", "error"} : result' = r
    /\ UNCHANGED <<channel, call, cla, le, response, last, card, said, announced>>

-----------------------------------------------------------------------------
(* Write.                                                                  *)

Write(length) ==
    /\ pc = "idle"
    /\ response' = <<>> /\ result' = "none"
    /\ cmd' = length /\ n' = 0 /\ p2' = 0 /\ cla' = 128
    /\ chunks' = (length \div MSS) % 256
    /\ said' = 0 /\ announced' = Nothing
    /\ pc' = "block"
    /\ UNCHANGED <<link, channel, le, last, card>>

\* transmit, with the block that comes next: the card has the APDU.
SendBlock ==
    /\ pc = "block" /\ n < cmd
    /\ cla' = SetChannelToCLA(cla, channel)
    /\ last' = [cla |-> cla', size |-> 5 + BlockSize]
    /\ CardTakes(BlockP1, p2, BlockSize)
    /\ pc' = "blockSent"
    /\ UNCHANGED <<link, channel, call, le, response, result, said, announced>>

\* Mutant: P2 is not counted up.
NumberKept == n' = n + BlockSize /\ UNCHANGED <<cmd, chunks, p2>>
\* The request is reused for the next block.
NextBlock == p2' = (p2 + 1) % 256 /\ n' = n + BlockSize /\ UNCHANGED <<cmd, chunks>>

\* 9000, with or without data: some channels ask for the response themselves.
BlockDone ==
    /\ pc = "blockSent"
    /\ NextBlock
    /\ \/ UNCHANGED <<said, response>>
       \/ /\ said < MaxPieces
          /\ said' = said + 1 /\ response' = Append(response, said + 1)
    /\ pc' = "block"
    /\ UNCHANGED <<link, channel, cla, le, result, last, card, announced>>

\* 61xx: HasMore looks at SW1 alone, so 6100 is asked about too, with Le 0.
BlockHasMore(xx) ==
    /\ pc = "blockSent" /\ said < MaxPieces
    /\ NextBlock
    /\ announced' = xx /\ le' = xx
    /\ pc' = "get"
    /\ UNCHANGED <<link, channel, cla, response, result, last, card, said>>

\* readCommandResponse's APDU; the request is a new one in every call.
GetResponse ==
    /\ pc = "get"
    /\ last' = [cla |-> SetChannelToCLA(128, channel), size |-> 5]
    /\ pc' = "getSent"
    /\ UNCHANGED <<link, channel, call, cla, le, response, result, card, said, announced>>

\* Mutant: the answer to GET RESPONSE replaces what was read before.
GetReplaces ==
    /\ pc = "getSent" /\ said < MaxPieces
    /\ said' = said + 1 /\ response' = <<said + 1>>
    /\ announced' = Nothing
    /\ pc' = "block"
    /\ UNCHANGED <<link, channel, call, cla, le, result, last, card>>

\* A piece of the answer, with 9000 or with another 61xx.
GetDone ==
    /\ pc = "getSent" /\ said < MaxPieces
    /\ said' = said + 1 /\ response' = Append(response, said + 1)
    /\ announced' = Nothing
    /\ pc' = "block"
    /\ UNCHANGED <<link, channel, call, cla, le, result, last, card>>

GetHasMore(xx) ==
    /\ pc = "getSent" /\ said + 1 < MaxPieces
    /\ said' = said + 1 /\ response' = Append(response, said + 1)
    /\ announced' = xx /\ le' = xx
    /\ pc' = "get"
    /\ UNCHANGED <<link, channel, call, cla, result, last, card>>

\* The channel fails, before or after the card has seen the APDU, or the
\* status word is neither 9000 nor 61xx: the call ends there.
TransmitFails ==
    /\ pc \in {"blockSent", "getSent"} \/ (pc = "block" /\ n < cmd) \/ pc = "get"
    /\ result' = "error" /\ pc' = "idle"
    /\ UNCHANGED <<link, channel, call, cla, le, response, last, card, said, announced>>

\* Every block is answered: ReadAll hands t.response to the caller.
Return ==
    /\ pc = "block" /\ n >= cmd
    /\ result' = "ok" /\ pc' = "idle"
    /\ UNCHANGED <<link, channel, call, cla, le, response, last, card, said, announced>>

Next ==
    \/ Connect \/ (\E ch \in Channels : OpenLogicalChannel(ch)) \/ OpenFails \/ Close
    \/ (\E length \in Lengths : Write(length)) \/ SendBlock \/ BlockDone \/ GetResponse
    \/ GetDone \/ TransmitFails \/ Return
    \/ \E xx \in Announced : BlockHasMore(xx) \/ GetHasMore(xx)

Spec == Init /\ [][Next]_vars

-----------------------------------------------------------------------------
(* Properties.                                                             *)

Ended(r) == pc = "idle" /\ result = r

\* P2 and the block count are one byte.
Numbered == cmd < 256 * MSS

\* While 256 numbers are enough the card has what Write counts as sent, or one
\* block more, without a gap and in order.  So a call that succeeds has put the
\* whole command on the card exactly if it has at most 256 blocks: a longer one
\* numbers a block 0 again, which the card takes for a new command.
WholeCommand ==
    /\ cmd <= 256 * MSS /\ n > 0 =>
          /\ card.got \in {n, n + BlockSize}
          /\ pc = "block" => card.got = n
          /\ pc = "blockSent" => card.got = n + BlockSize
    /\ Ended("ok") /\ cmd > 0 => (card.got = cmd <=> cmd <= 256 * MSS)

\* The card learns that the command is complete from P1 = 0x91.  Write flags
\* the block number len/MSS, so a command whose length is a multiple of MSS is
\* never flagged, and any other is flagged on its last block, no sooner.  The
\* block count wraps at 256 blocks, of which the first is then flagged.
FlaggedLast ==
    Numbered /\ n > 0 => (card.done <=> card.got = cmd /\ cmd % MSS # 0)

\* A call that succeeds returns every piece the card said, in order: GET RESPONSE
\* asks for what was announced last, 256 bytes or more (6100) included, and no
\* block is sent before nothing is.
WholeAnswer ==
    /\ Ended("ok") => response = [i \in 1..said |-> i]
    /\ pc = "get" => announced # Nothing /\ le = announced
    /\ pc = "block" => announced = Nothing

\* Every APDU of the dialogue, the reused request included, goes to the logical
\* channel that was opened.
OnOurChannel == last.size > 0 => ChannelOf(last.cla) = channel
=============================================================================
