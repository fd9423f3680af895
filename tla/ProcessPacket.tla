--------------------------- MODULE ProcessPacket ---------------------------
(***************************************************************************)
(* windrpc_process_packet(): the engine behind one call, for transports    *)
(* that hold a packet and want a response frame back.  The transmit buffer *)
(* it hands to windrpc_handle() is static, so it still holds the frame of  *)
(* an earlier packet when the next one is processed.                       *)
(***************************************************************************)
EXTENDS WindRpcHandle

CONSTANTS
    MaxResp,  \* max_resp_len; 0 also stands for a NULL out_resp_buf
    MaxRuns   \* bound: how often the callback of one request runs

ASSUME PacketAssumption == MaxResp \in Nat /\ MaxRuns \in Nat

VARIABLES
    out,    \* the frame copied to out_resp_buf
    outLen, \* *out_resp_len
    err     \* the value returned

packetVars == <<wire, txn, executed, out, outLen, err>>

PacketTypeOK ==
    /\ WireTypeOK /\ HandleTypeOK
    /\ out \in ServerFrame \cup {NoFrame}
    /\ outLen \in Nat
    /\ err \in {0, -1}

PacketInit ==
    /\ WireInit /\ HandleInit
    /\ out = NoFrame /\ outLen = 0 /\ err = 0

ProcessRunt ==
    /\ pkt' = Runt
    /\ outLen' = 0
    /\ err' = -1
    /\ UNCHANGED <<wire, tx, bytesWritten, txSize, ret, status, executed, out>>

\* The response is copied as far as the caller's buffer reaches.
CopyOut ==
    IF bytesWritten' > 0
    THEN /\ out' = tx'.frame
         /\ outLen' = IF bytesWritten' < MaxResp THEN bytesWritten' ELSE MaxResp
    ELSE out' = out /\ outLen' = 0

Process(p) ==
    /\ executed[p.call] < MaxRuns
    /\ Handle(p)
    /\ CopyOut
    /\ err' = ret'
    /\ UNCHANGED wire

PacketNext == ProcessRunt \/ \E p \in Request : Process(p)

PacketSpec == PacketInit /\ [][PacketNext]_packetVars

-----------------------------------------------------------------------------
\* What the caller gets is the answer to the packet it passed, never the frame
\* an earlier packet left in the static transmit buffer: if anything comes
\* out, it bears this request's sequence id and its method or the error id.
OutputAnswersThisPacket ==
    outLen > 0 =>
        /\ err = 0
        /\ pkt \in Request
        /\ out = tx.frame
        /\ out.call = pkt.call /\ out.seq = pkt.seq
        /\ out.rpc \in {pkt.rpc, SysError}

\* A response leaves only in the step that ran the callback of its request,
\* once, and ran no other: a request that was turned away is not answered as
\* if it had been served, nor with what an earlier one produced.
ResponseMeansRun ==
    [][outLen' > 0 /\ out'.rpc # SysError
        => executed' = [executed EXCEPT ![out'.call] = @ + 1]]_packetVars

\* What the caller may conclude (windrpc.h:57, windrpc.c:230).  -1: no frame, and
\* packet or transmit buffer were too short for a header.  0 without a frame: the
\* request was fire-and-forget and its callback has run, or there is no room for
\* a frame to be copied to.  0 with one: it is whole if it leaves room in the
\* caller's buffer; one that fills the buffer may have been cut off.
ReturnTellsOutput ==
    [][/\ err' = -1 => outLen' = 0 /\ (pkt' = Runt \/ txSize < HeaderLen)
       /\ err' = 0 /\ outLen' = 0 =>
            \/ MaxResp = 0
            \/ /\ pkt'.rpc \in RequestOnly
               /\ executed' = [executed EXCEPT ![pkt'.call] = @ + 1]
       /\ err' = 0 /\ outLen' \in 1 .. MaxResp - 1 =>
            outLen' = HeaderLen + tx'.len /\ out' = tx'.frame]_packetVars
=============================================================================
