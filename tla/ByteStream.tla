----------------------------- MODULE ByteStream -----------------------------
(***************************************************************************)
(* A client of either language at the end of a serial line; or a buffer of *)
(* the application's own, for the COBS functions, which both export.       *)
(***************************************************************************)
EXTENDS JsStream, PyStream, CobsBuffers

VARIABLE client  \* which client it is

vars == <<lineVars, client, data>>

TypeOK ==
    /\ LineTypeOK
    /\ client \in {"js", "py"}
    /\ client = "js" =>
        /\ Len(rx) <= MaxAccumulator
        /\ \A i \in 1 .. Len(rx) : rx[i].b # 0

Init == LineInit /\ BufferInit /\ client \in {"js", "py"}

Js ==
    /\ client = "js"
    /\ JsReceiveBytes \/ ResetAccumulator

Py == client = "py" /\ PyReceiveBytes

Stream ==
    /\ data = <<>>
    /\ Line \/ Js \/ Py
    /\ UNCHANGED <<client, data>>

FillBuffer == sent = <<>> /\ Extend /\ UNCHANGED <<lineVars, client>>

Next == FillBuffer \/ Stream

Spec == Init /\ [][Next]_vars

-----------------------------------------------------------------------------
\* The frame can be read if it is not spoilt and fits the accumulator.
Readable(n) ==
    /\ n \notin damaged
    /\ client = "js" => Len(CobsEncode(sent[n])) <= MaxAccumulator

\* Whatever was lost or changed, and right behind a frame that overran the
\* JavaScript accumulator, the frames around it arrive: each readable frame
\* that has left the line was delivered by receiveBytes(), receive_bytes(), as
\* it was sent.  A fault does not reach beyond the next delimiter, and it does
\* not matter how the bytes were cut into chunks.
FramesArrive ==
    \A n \in 1 .. Len(sent) :
        (Readable(n) /\ \A i \in 1 .. Len(line) : line[i].of # n)
            => [data |-> sent[n], of |-> n] \in ToSet(delivered)

\* Packets are delivered in the order of their frames, and none twice; only a
\* frame that a fault cut in two may deliver both parts.
DeliveredOnce ==
    \A i \in 1 .. Len(delivered) - 1 :
        LET n == delivered[i].of IN
        \/ n < delivered[i + 1].of
        \/ n = delivered[i + 1].of /\ n \in damaged

\* Frames that a fault spoilt, or that the accumulator cannot hold.
Unreadable == damaged \cup {n \in 1 .. Len(sent) : ~ Readable(n)}

Channel == INSTANCE FrameChannel WITH unreadable <- Unreadable

\* Line and receiver together are such a channel: what receiveBytes() and
\* receive_bytes() hand on is never taken back, no readable frame is skipped or
\* comes before an earlier one, and no fault, overrun or resetAccumulator()
\* spoils a frame that has been delivered or stands before one that has.
ImplementsChannel == Channel!Spec
=============================================================================
