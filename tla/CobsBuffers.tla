---------------------------- MODULE CobsBuffers ----------------------------
(***************************************************************************)
(* Every buffer an application may hand to the COBS functions, up to       *)
(* MaxLen bytes.                                                           *)
(***************************************************************************)
EXTENDS Cobs

CONSTANT MaxLen  \* bound: the length of a buffer

VARIABLE data

BufferInit == data = <<>>

Extend == Len(data) < MaxLen /\ \E b \in Byte : data' = Append(data, b)

-----------------------------------------------------------------------------
\* What either client encodes holds no delimiter, and both decoders get the
\* data back from it: also where a block fills up, at the last byte, before a
\* zero, and with several full blocks in a row.
RoundTrip ==
    LET encoded == CobsEncode(data) IN
    /\ \A i \in 1 .. Len(encoded) : encoded[i] # 0
    /\ JsDecode(encoded) = data
    /\ PyDecode(encoded) = data

\* Whatever arrives between two delimiters, damaged or not, both clients read
\* as the same packet, which is no longer than what arrived.
DecodersAgree ==
    (\A i \in 1 .. Len(data) : data[i] # 0) =>
        /\ JsDecode(data) = PyDecode(data)
        /\ Len(JsDecode(data)) <= Len(data)

\* The overhead is a byte, and one more for every full block.
Overhead ==
    Len(CobsEncode(data)) <= Len(data) + 1 + Len(data) \div (Full - 1)

\* All three, of the COBS functions that both clients export.
CobsHolds == RoundTrip /\ DecodersAgree /\ Overhead
=============================================================================
