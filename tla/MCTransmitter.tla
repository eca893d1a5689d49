---------------------------- MODULE MCTransmitter ---------------------------
(***************************************************************************)
(* Transmitter with two-byte blocks: lengths around a multiple of MSS, and *)
(* around 256 blocks, where P2 and the block count wrap.                   *)
(***************************************************************************)
EXTENDS Transmitter

MCLengths == 0..5 \cup {510, 511, 512, 513}
MCChannels == {0, 3, 4, 19}
=============================================================================
