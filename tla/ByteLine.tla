------------------------------ MODULE ByteLine ------------------------------
(***************************************************************************)
(* A serial line (UART, USB-CDC) into a client: the peer's transport sends *)
(* COBS frames, each ended by a zero byte; the line may lose or change a   *)
(* byte.  Sender and line are code outside the repository; the receivers   *)
(* (JsStream, PyStream) extend this module.                                *)
(*                                                                         *)
(* Bytes carry the number of the frame they belong to: that is history, no *)
(* receiver reads it.                                                      *)
(***************************************************************************)
EXTENDS Cobs, SequencesExt

CONSTANTS
    Packets,   \* the raw packets the sender may send
    MinLen,    \* the shortest packet that is dispatched: the 6-byte header
    MaxSent,   \* bound: packets sent
    MaxFaults  \* bound: bytes lost or changed

ASSUME LineAssumption ==
    /\ MinLen \in Nat \ {0} /\ MaxSent \in Nat /\ MaxFaults \in Nat
    /\ \A p \in Packets : p \in Seq(Byte) /\ Len(p) >= MinLen

VARIABLES
    line,      \* the bytes under way
    sent,      \* history: the packets sent
    faults,    \* how many bytes were lost or changed
    damaged,   \* history: the numbers of the frames that cannot be read
    rx,        \* this._rxAccumulator, self._rx_buffer
    delivered  \* the packets handed to _dispatchFrame, receive_raw_datagram

lineVars == <<line, sent, faults, damaged, rx, delivered>>

OnLine == [b : Byte, of : 1 .. MaxSent]

LineTypeOK ==
    /\ line \in Seq(OnLine)
    /\ sent \in Seq(Packets) /\ Len(sent) <= MaxSent
    /\ faults \in 0 .. MaxFaults
    /\ damaged \subseteq 1 .. MaxSent + 1
    /\ rx \in Seq(OnLine)
    /\ delivered \in Seq([data : Seq(Byte), of : 1 .. MaxSent])

LineInit ==
    /\ line = <<>> /\ sent = <<>>
    /\ faults = 0 /\ damaged = {}
    /\ rx = <<>> /\ delivered = <<>>

\* The bytes alone.
Bytes(t) == [i \in 1 .. Len(t) |-> t[i].b]

Frame(packet, n) ==
    LET encoded == Append(CobsEncode(packet), 0)
    IN [i \in 1 .. Len(encoded) |-> [b |-> encoded[i], of |-> n]]

SendPacket ==
    /\ Len(sent) < MaxSent
    /\ \E p \in Packets :
        /\ sent' = Append(sent, p)
        /\ line' = line \o Frame(p, Len(sent) + 1)
    /\ UNCHANGED <<faults, damaged, rx, delivered>>

\* What a fault at byte t spoils: its frame and, if the delimiter is gone, the
\* frame that follows, which is read as the end of the same one.
Spoils(t) == IF t.b = 0 THEN {t.of, t.of + 1} ELSE {t.of}

LineFault ==
    /\ faults < MaxFaults
    /\ faults' = faults + 1
    /\ \E i \in 1 .. Len(line) :
        /\ damaged' = damaged \cup Spoils(line[i])
        /\ \/ line' = RemoveAt(line, i)
           \/ \E b \in Byte \ {line[i].b} : line' = [line EXCEPT ![i].b = b]
    /\ UNCHANGED <<sent, rx, delivered>>

\* The operating system hands over the first n bytes.
Chunk(n) == SubSeq(line, 1, n)
Arrive(n) == line' = SubSeq(line, n + 1, Len(line))

Line == SendPacket \/ LineFault
=============================================================================
