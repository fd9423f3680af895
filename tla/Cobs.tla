-------------------------------- MODULE Cobs --------------------------------
(***************************************************************************)
(* COBS byte stuffing as the generated JavaScript and Python clients do    *)
(* it.  A code byte n stands before n - 1 non-zero bytes and for the zero  *)
(* after them; the code Full (0xFF) stands before a block without a zero.  *)
(* The two encoders are one algorithm and differ in the delimiter, which   *)
(* Python's appends itself; the two decoders differ on a zero byte.        *)
(***************************************************************************)
EXTENDS Integers, Sequences

CONSTANT Full  \* the largest byte, and the code of a full block: 255

ASSUME FullAssumption == Full \in Nat \ {0, 1}

Byte == 0 .. Full

-----------------------------------------------------------------------------
\* Mutant: a full block is closed a byte late.
Closes_Late(b, code) == b = 0 \/ code > Full

\* The block is closed by a zero and when it is full.
Closes(b, code) == b = 0 \/ code = Full

\* What the encoder has written (out), the place of the code byte of the open
\* block (at), and that code byte so far.
EncodeByte(e, b) ==
    LET out == IF b = 0 THEN e.out ELSE Append(e.out, b)
        code == IF b = 0 THEN e.code ELSE e.code + 1
    IN IF Closes(b, code)
       THEN [out |-> Append([out EXCEPT ![e.at] = code], 0),
             at |-> Len(out) + 1, code |-> 1]
       ELSE [out |-> out, at |-> e.at, code |-> code]

CobsEncode(data) ==
    LET encoder[n \in 0 .. Len(data)] ==
            IF n = 0 THEN [out |-> <<0>>, at |-> 1, code |-> 1]
            ELSE EncodeByte(encoder[n - 1], data[n])
        e == encoder[Len(data)]
    IN [e.out EXCEPT ![e.at] = e.code]

\* The bytes of the block at i, as many of them as there are.
BlockEnd(input, i) ==
    IF i + input[i] - 1 < Len(input) THEN i + input[i] - 1 ELSE Len(input)

\* Mutant: a zero is put back after a full block too.
ImpliedZero_AfterFull(input, i, next) == IF next <= Len(input) THEN <<0>> ELSE <<>>

\* A block is followed by a zero unless it is full or the last.
ImpliedZero(input, i, next) ==
    IF input[i] < Full /\ next <= Len(input) THEN <<0>> ELSE <<>>

\* cobs_decode() of the Python client, for input without a zero byte: it
\* raises ValueError on one that is not the last.
PyDecode(input) ==
    LET decoded[i \in 1 .. Len(input) + 1] ==
            IF i = Len(input) + 1 THEN <<>>
            ELSE LET end == BlockEnd(input, i) IN
                 SubSeq(input, i + 1, end) \o ImpliedZero(input, i, end + 1)
                     \o decoded[end + 1]
    IN decoded[1]

\* The JavaScript decoder puts no zero back before a zero.
JsImpliedZero(input, i, next) ==
    IF input[i] < Full /\ next <= Len(input) /\ input[next] # 0 THEN <<0>> ELSE <<>>

\* cobsDecode() of the JavaScript client stops at a code byte of zero.
JsDecode(input) ==
    LET decoded[i \in 1 .. Len(input) + 1] ==
            IF i > Len(input) THEN <<>>
            ELSE IF input[i] = 0 THEN <<>>
            ELSE LET end == BlockEnd(input, i) IN
                 SubSeq(input, i + 1, end) \o JsImpliedZero(input, i, end + 1)
                     \o decoded[end + 1]
    IN decoded[1]
=============================================================================
