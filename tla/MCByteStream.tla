---------------------------- MODULE MCByteStream ----------------------------
(* Packets for TLC: one with a zero, and one that fills a block and whose    *)
(* frame overruns the accumulator, with an end that is read as a packet.     *)
EXTENDS ByteStream
SomePackets == {<<0, 1>>, <<1, 2, 0, 1>>}
=============================================================================
