--------------------------- MODULE WindRpcHandle ---------------------------
(***************************************************************************)
(* The C server engine: windrpc_handle() of the generated windrpc.c, one   *)
(* action per way through the function, over the windrpc_transaction the   *)
(* transport passes in.  windrpc_handle() is sequential and its handlers   *)
(* are plain callbacks, so a call is one step.  The transport loops that   *)
(* own a transaction (UdpServer, ProcessPacket) extend this module.        *)
(***************************************************************************)
EXTENDS WindRpcWire

CONSTANTS
    Registered,  \* the methods in the generated dispatch table
    NoBody,      \* registered methods whose request is Empty: nothing decoded
    RequestOnly, \* registered methods with has_response = false
    TxSizes,     \* the sizes of transmit buffers; 0 stands for a NULL tx_data
    PayloadLens  \* the payload lengths answers may have

ASSUME HandleAssumption ==
    /\ Registered \subseteq Methods
    /\ NoBody \subseteq Registered
    /\ RequestOnly \subseteq Registered
    /\ TxSizes \subseteq Nat
    /\ PayloadLens \subseteq Nat

VARIABLES
    pkt,          \* the packet in buffer->data
    tx,           \* the frame last written into buffer->tx_data
    bytesWritten, \* buffer->bytes_written: received length in, frame length out
    txSize,       \* buffer->tx_size
    ret,          \* what windrpc_handle() returned
    status,       \* ctx->status_code
    executed      \* history: how often each call's callback has run

txn == <<pkt, tx, bytesWritten, txSize, ret, status>>

HeaderLen == 6
RuntLen == 5  \* any length in 1..5 takes the same path

OK == 0
UNIMPLEMENTED == 12
INTERNAL == 13
INVALID_DATA_FORMAT == 17

Blank == [frame |-> NoFrame, len |-> 0]

HandleTypeOK ==
    /\ pkt \in Packet \cup {NoFrame}
    /\ tx \in [frame : ServerFrame, len : Nat] \cup {Blank}
    /\ bytesWritten \in Nat
    /\ txSize \in TxSizes
    /\ ret \in {0, -1}
    /\ status \in {OK, UNIMPLEMENTED, INTERNAL, INVALID_DATA_FORMAT} \cup Codes
    /\ executed \in [Calls -> Nat]

HandleInit ==
    /\ pkt = NoFrame
    /\ tx = Blank
    /\ bytesWritten = 0
    /\ txSize \in TxSizes
    /\ ret = 0
    /\ status = OK
    /\ executed = [c \in Calls |-> 0]

-----------------------------------------------------------------------------
Fits(len) == HeaderLen + len <= txSize

\* Mutant: the header is taken off the length instead of added to it.
Write_HeaderSubtracted(frame, len) ==
    /\ tx' = [frame |-> frame, len |-> len]
    /\ bytesWritten' = len - HeaderLen
    /\ ret' = 0

\* The frame is written to tx_data and bytes_written set to its length.
Write(frame, len) ==
    /\ tx' = [frame |-> frame, len |-> len]
    /\ bytesWritten' = HeaderLen + len
    /\ ret' = 0

\* Mutant: bytes_written keeps the length of the request.
WriteNothing_KeepsLength(value) ==
    /\ bytesWritten' = HeaderLen
    /\ ret' = value
    /\ UNCHANGED tx

\* No frame: tx_data is left as it was.
WriteNothing(value) ==
    /\ bytesWritten' = 0
    /\ ret' = value
    /\ UNCHANGED tx

\* Mutant: the error frame leaves the sequence id out.
SendError_NoSeq(p, code) ==
    \/ txSize < HeaderLen /\ WriteNothing(-1)
    \/ \E len \in PayloadLens :
        /\ Fits(len)
        /\ Write([rpc |-> SysError, seq |-> 0, call |-> p.call,
                  code |-> IF len = 0 THEN 0 ELSE ZigZag(code)], len)

\* send_flat_error_response(): a Status under the reserved id 0x0000 with the
\* request's sequence id.  Its encode calls are unchecked, so a message that
\* does not fit leaves a shorter payload, an empty one without the code.
SendError(p, code) ==
    \/ txSize < HeaderLen /\ WriteNothing(-1)
    \/ \E len \in PayloadLens :
        /\ Fits(len)
        /\ Write([rpc |-> SysError, seq |-> p.seq, call |-> p.call,
                  code |-> IF len = 0 THEN 0 ELSE ZigZag(code)], len)

\* pb_decode: bytes cut off the payload are read from whatever the receive
\* buffer held, so such a request may decode or not.
Decodes(p) == p.rpc \in NoBody \/ p.body \in {"good", "cut"}
FailsToDecode(p) == p.rpc \notin NoBody /\ p.body \in {"bad", "cut"}

HandleRunt(p) ==
    /\ p = Runt
    /\ status' = INVALID_DATA_FORMAT
    /\ bytesWritten' = RuntLen
    /\ ret' = -1
    /\ UNCHANGED <<tx, executed>>

HandleUnknown(p) ==
    /\ p # Runt /\ p.rpc \notin Registered
    /\ status' = UNIMPLEMENTED
    /\ SendError(p, UNIMPLEMENTED)
    /\ UNCHANGED executed

\* Mutant: the failure is noted, and the cleared response struct sent.
HandleUndecodable_Answered(p) ==
    /\ p # Runt /\ p.rpc \in Registered /\ FailsToDecode(p)
    /\ status' = INVALID_DATA_FORMAT
    /\ \E len \in PayloadLens :
        /\ Fits(len)
        /\ Write([rpc |-> p.rpc, seq |-> p.seq, code |-> 0, call |-> p.call], len)
    /\ UNCHANGED executed

HandleUndecodable(p) ==
    /\ p # Runt /\ p.rpc \in Registered /\ FailsToDecode(p)
    /\ status' = INVALID_DATA_FORMAT
    /\ SendError(p, INVALID_DATA_FORMAT)
    /\ UNCHANGED executed

\* The callback of the request's method is invoked.
Execute(p) ==
    /\ p # Runt /\ p.rpc \in Registered /\ Decodes(p)
    /\ executed' = [executed EXCEPT ![p.call] = @ + 1]

HandleFailed(p) ==
    /\ Execute(p)
    /\ \E code \in Codes : status' = code /\ SendError(p, code)

\* The callback returned 0; it may have called windrpc_set_error() before.
Succeeds(p) == Execute(p) /\ status' \in {OK} \cup Codes

HandleRequestOnly(p) ==
    /\ Succeeds(p)
    /\ p.rpc \in RequestOnly
    /\ WriteNothing(0)

HandleNoTx(p) ==
    /\ Succeeds(p)
    /\ p.rpc \notin RequestOnly
    /\ txSize < HeaderLen
    /\ WriteNothing(-1)

\* Mutant: the failure is returned as if there was nothing to send.
HandleUnencodable_Silent(p) ==
    /\ Succeeds(p)
    /\ p.rpc \notin RequestOnly
    /\ ~ txSize < HeaderLen
    /\ WriteNothing(0)

\* The response is too long for tx_data, or nanopb refuses it (a string field
\* the callback left unterminated): INTERNAL is sent, ctx->status_code stays.
HandleUnencodable(p) ==
    /\ Succeeds(p)
    /\ p.rpc \notin RequestOnly
    /\ ~ txSize < HeaderLen
    /\ SendError(p, INTERNAL)

HandleReply(p) ==
    /\ Succeeds(p)
    /\ p.rpc \notin RequestOnly
    /\ \E len \in PayloadLens :
        /\ Fits(len)
        /\ Write([rpc |-> p.rpc, seq |-> p.seq, code |-> 0, call |-> p.call], len)

Handle(p) ==
    /\ pkt' = p
    /\ UNCHANGED txSize
    /\ \/ HandleRunt(p)
       \/ HandleUnknown(p)
       \/ HandleUndecodable(p)
       \/ HandleFailed(p)
       \/ HandleRequestOnly(p)
       \/ HandleNoTx(p)
       \/ HandleUnencodable(p)
       \/ HandleReply(p)
=============================================================================
