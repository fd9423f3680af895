------------------------------ MODULE PyStream ------------------------------
(***************************************************************************)
(* receive_bytes() of the Python client at the end of a serial line.       *)
(***************************************************************************)
EXTENDS ByteLine

-----------------------------------------------------------------------------
\* Mutant: a chunk's packets are looked for in the chunk alone.
Complete_ChunkOnly(buffer, chunk) == chunk

\* The bytes that are searched for delimiters: those left from before too.
Complete(buffer, chunk) == buffer \o chunk

\* Mutant: what was decoded is left in the buffer.
Rest_Everything(buffer, from) == buffer

\* What stands behind the last delimiter is left for the next call.
Rest(buffer, from) == SubSeq(buffer, from, Len(buffer))

\* The packet that the delimiter at i ends is cut from the buffer and decoded;
\* receive_raw_datagram() drops those below the header's length.
PyDelimiter(r, buffer, i) ==
    LET data == PyDecode(Bytes(SubSeq(buffer, r.from, i - 1))) IN
    [from |-> i + 1,
     got |-> IF Len(data) >= MinLen
             THEN Append(r.got, [data |-> data, of |-> buffer[i].of]) ELSE r.got]

\* receive_bytes(): from one delimiter in the buffer to the next.
PyReceiveBytes ==
    \E n \in 1 .. Len(line) :
        LET buffer == Complete(rx, Chunk(n))
            received[i \in 0 .. Len(buffer)] ==
                IF i = 0 THEN [from |-> 1, got |-> delivered]
                ELSE IF buffer[i].b = 0 THEN PyDelimiter(received[i - 1], buffer, i)
                ELSE received[i - 1]
            r == received[Len(buffer)]
        IN /\ Arrive(n)
           /\ rx' = Rest(buffer, r.from)
           /\ delivered' = r.got
           /\ UNCHANGED <<sent, faults, damaged>>
=============================================================================
