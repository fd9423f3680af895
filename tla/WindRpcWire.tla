---------------------------- MODULE WindRpcWire ----------------------------
(***************************************************************************)
(* What travels between a WindRPC client and the server, and the network   *)
(* it travels over.  A frame is [RPC_ID:2][SEQ_ID:2][PAYLOAD_LEN:2] and a  *)
(* payload.  Of the RPC id only its kind matters here (a method, an event, *)
(* the reserved 0x0000, bit 7 of the low byte); a payload is abstracted to *)
(* what the receiver does with it.  Each frame also carries the call whose *)
(* request or answer it is: that field is history, no component reads it.  *)
(*                                                                         *)
(* The network (UDP, BLE, or a serial line that drops corrupt frames) is   *)
(* code outside the repository: it may lose, reorder and duplicate frames. *)
(***************************************************************************)
EXTENDS Integers, FiniteSets

CONSTANTS
    Calls,    \* the requests an application makes, one element each
    NoCall,   \* the provenance of a frame that belongs to no request
    Methods,  \* the RPC ids a client may put in a request
    Events,   \* the RPC ids of notification frames, (svc << 8) | (rpc | 0x80)
    SysError, \* the reserved RPC id 0x0000 of a Status error frame
    HighBit,  \* the RPC ids with bit 7 of the low byte set
    SeqSpace, \* how many sequence ids there are: 65536 in the code
    Codes,    \* the non-zero status codes a callback may return
    MaxDups,  \* bound: how many deliveries leave a copy behind
    Runt,     \* a datagram shorter than the 6-byte header
    NoFrame   \* the absence of a frame or packet

ASSUME RpcIdAssumption ==
    /\ Methods \cap Events = {}
    /\ SysError \notin Methods \cup Events
    /\ SysError \notin HighBit
    /\ Events \subseteq HighBit

VARIABLES
    c2s,   \* frames sent by the client, not yet delivered or lost
    s2c,   \* frames sent by the server, not yet delivered or lost
    dups   \* how many deliveries have left a copy behind

wire == <<c2s, s2c, dups>>

Seqs == 0 .. SeqSpace - 1

\* A request: its method, its sequence id, and its payload: one that decodes,
\* one that does not, or one cut off below the header's PAYLOAD_LEN.
Request == [rpc : Methods, seq : Seqs, body : {"good", "bad", "cut"}, call : Calls]

Packet == Request \cup {Runt}

\* The status code as it is read back from an error frame: the server writes
\* it with pb_encode_svarint (windrpc.c:108), which maps n to 2n or -2n-1,
\* and the generated decoders read the int32 that Status declares.
ZigZag(code) == IF code >= 0 THEN 2 * code ELSE -2 * code - 1

WireCode == {0} \cup {ZigZag(code) : code \in Codes \cup {12, 13, 17}}

\* A frame from the server: a response (rpc a method), an error (rpc
\* SysError, code the code a client reads) or a notification (rpc an event).
ServerFrame == [rpc  : Methods \cup Events \cup {SysError},
                seq  : Seqs,
                code : WireCode,
                call : Calls \cup {NoCall}]

ASSUME WireAssumption ==
    /\ NoCall \notin Calls
    /\ \A f \in {Runt, NoFrame} : f \notin Request /\ f \notin ServerFrame
    /\ Runt # NoFrame
    /\ SeqSpace \in Nat \ {0, 1}
    /\ MaxDups \in Nat
    /\ Codes \subseteq Int \ {0}

WireTypeOK ==
    /\ c2s \subseteq Packet
    /\ s2c \subseteq ServerFrame
    /\ dups \in 0 .. MaxDups

WireInit == c2s = {} /\ s2c = {} /\ dups = 0

-----------------------------------------------------------------------------
\* Delivery of frame f takes it off its channel or leaves a duplicate.
\* (The two channels are passed as their current and their next value.)
Take(f, channel, channelNext) ==
    /\ f \in channel
    /\ \/ channelNext = channel \ {f} /\ dups' = dups
       \/ channelNext = channel /\ dups < MaxDups /\ dups' = dups + 1

LoseRequest ==
    \E p \in c2s : c2s' = c2s \ {p} /\ UNCHANGED <<s2c, dups>>

LoseAnswer ==
    \E f \in s2c : s2c' = s2c \ {f} /\ UNCHANGED <<c2s, dups>>

\* A datagram that arrives shorter than it was sent: part of its payload is
\* gone, or part of its header too.
Truncate ==
    \E p \in c2s \ {Runt} : \E cut \in {Runt, [p EXCEPT !.body = "cut"]} :
        c2s' = (c2s \ {p}) \cup {cut} /\ UNCHANGED <<s2c, dups>>

Network == LoseRequest \/ LoseAnswer \/ Truncate

-----------------------------------------------------------------------------
(* In place of a server: a peer that sends any frame at any time.  The     *)
(* fields a client cannot see are left out of what it sends.               *)
AnyFrame == [rpc : Methods \cup Events \cup {SysError}, seq : Seqs,
             code : {0}, call : {NoCall}]

PeerSends == s2c = {} /\ (\E f \in AnyFrame : s2c' = {f}) /\ UNCHANGED <<c2s, dups>>

PeerDiscards == c2s # {} /\ c2s' = {} /\ UNCHANGED <<s2c, dups>>

Peer == PeerSends \/ PeerDiscards
=============================================================================
