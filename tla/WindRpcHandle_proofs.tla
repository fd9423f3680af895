------------------------ MODULE WindRpcHandle_proofs ------------------------
(***************************************************************************)
(* Lemmas about the server engine: what one call of windrpc_handle() does  *)
(* to its transaction, whichever of its eight ways it takes.  The proofs   *)
(* about whole systems cite them; those about windrpc_process_packet()     *)
(* follow here.                                                            *)
(***************************************************************************)
EXTENDS ProcessPacket, TLAPS

Frames == [frame : ServerFrame, len : Nat]

LEMMA CodesInWire ==
    /\ 0 \in WireCode
    /\ \A code \in Codes \cup {12, 13, 17} : ZigZag(code) \in WireCode
BY DEF WireCode

\* A step writes a frame about packet p that fits tx_data, and says so.
Writes(p) ==
    /\ p \in Request
    /\ tx' \in Frames
    /\ tx'.frame.call = p.call /\ tx'.frame.seq = p.seq
    /\ HeaderLen + tx'.len <= txSize
    /\ bytesWritten' = HeaderLen + tx'.len
    /\ ret' = 0

\* A frame that is written is a frame of the server, and fits.
LEMMA WriteWrites ==
    ASSUME NEW p \in Request, NEW len \in PayloadLens, Fits(len),
           NEW rpc \in Methods \cup {SysError}, NEW code \in WireCode,
           Write([rpc |-> rpc, seq |-> p.seq, code |-> code, call |-> p.call], len)
    PROVE  Writes(p) /\ tx'.frame.rpc = rpc
<1> DEFINE frame == [rpc |-> rpc, seq |-> p.seq, code |-> code, call |-> p.call]
<1>1. frame \in ServerFrame
  BY DEF ServerFrame, Request
<1>2. len \in Nat
  BY HandleAssumption
<1>3. tx' = [frame |-> frame, len |-> len] /\ bytesWritten' = HeaderLen + len /\ ret' = 0
  BY DEF Write
<1> QED
  BY <1>1, <1>2, <1>3 DEF Writes, Frames, Fits

\* send_flat_error_response() writes an error frame about packet p or none.
LEMMA SendErrorEffect ==
    ASSUME NEW p \in Request, NEW code \in Codes \cup {12, 13, 17}, SendError(p, code)
    PROVE  \/ txSize < HeaderLen /\ tx' = tx /\ bytesWritten' = 0 /\ ret' = -1
           \/ Writes(p) /\ tx'.frame.rpc = SysError
<1>1. CASE txSize < HeaderLen /\ WriteNothing(-1)
  BY <1>1 DEF WriteNothing
<1>2. ASSUME NEW len \in PayloadLens, Fits(len),
             Write([rpc |-> SysError, seq |-> p.seq, call |-> p.call,
                    code |-> IF len = 0 THEN 0 ELSE ZigZag(code)], len)
      PROVE  Writes(p) /\ tx'.frame.rpc = SysError
  <2> DEFINE wirecode == IF len = 0 THEN 0 ELSE ZigZag(code)
  <2>1. wirecode \in WireCode
    BY CodesInWire
  <2> HIDE DEF wirecode
  <2>2. Write([rpc |-> SysError, seq |-> p.seq, code |-> wirecode, call |-> p.call], len)
    BY <1>2 DEF Write, wirecode
  <2> QED
    BY <1>2, <2>1, <2>2, WriteWrites
<1> QED
  BY <1>1, <1>2 DEF SendError

\* The effect of windrpc_handle() on packet p: it runs the callback of p's call
\* or none; it writes an error frame, or a response after the callback, or
\* leaves tx_data alone and reports no frame (of a runt, a failure).
Effect(p) ==
    /\ HandleTypeOK'
    /\ pkt' = p /\ txSize' = txSize
    /\ \/ executed' = executed
       \/ p \in Request /\ executed' = [executed EXCEPT ![p.call] = @ + 1]
    /\ \/ tx' = tx /\ (bytesWritten' = 0 \/ (p = Runt /\ ret' = -1))
       \/ /\ Writes(p)
          /\ \/ tx'.frame.rpc = SysError
             \/ /\ tx'.frame.rpc = p.rpc /\ p.rpc \notin RequestOnly
                /\ executed' = [executed EXCEPT ![p.call] = @ + 1]

LEMMA HandleEffect ==
    ASSUME HandleTypeOK, NEW p \in Packet, Handle(p)
    PROVE  Effect(p)
<1> USE DEF HandleTypeOK
<1>1. p # Runt => p \in Request /\ p.call \in Calls /\ p.rpc \in Methods /\ p.seq \in Seqs
  BY DEF Packet, Request
<1>2. /\ pkt' = p /\ pkt' \in Packet \cup {NoFrame}
      /\ txSize' = txSize /\ txSize' \in TxSizes
  BY DEF Handle
<1>3. Execute(p) => executed' \in [Calls -> Nat]
  BY <1>1 DEF Execute
<1>4. Writes(p) => /\ tx' \in [frame : ServerFrame, len : Nat] /\ ret' \in {0, -1}
                   /\ bytesWritten' \in Nat
  BY DEF Writes, Frames, HeaderLen
<1>5. CASE HandleRunt(p)
  BY <1>2, <1>5 DEF HandleRunt, Effect, RuntLen, INVALID_DATA_FORMAT
<1>6. CASE HandleUnknown(p)
  BY <1>1, <1>2, <1>4, <1>6, SendErrorEffect DEF HandleUnknown, Effect, UNIMPLEMENTED
<1>7. CASE HandleUndecodable(p)
  BY <1>1, <1>2, <1>4, <1>7, SendErrorEffect DEF HandleUndecodable, Effect, INVALID_DATA_FORMAT
<1>8. CASE HandleFailed(p)
  <2>1. PICK code \in Codes : status' = code /\ SendError(p, code)
    BY <1>8 DEF HandleFailed
  <2>2. Execute(p)
    BY <1>8 DEF HandleFailed
  <2> QED
    BY <1>1, <1>2, <1>3, <1>4, <2>1, <2>2, SendErrorEffect DEF Execute, Effect
<1>9. CASE HandleRequestOnly(p)
  BY <1>1, <1>2, <1>3, <1>9
  DEF HandleRequestOnly, Succeeds, Execute, WriteNothing, Effect
<1>10. CASE HandleNoTx(p)
  BY <1>1, <1>2, <1>3, <1>10
  DEF HandleNoTx, Succeeds, Execute, WriteNothing, Effect
<1>11. CASE HandleUnencodable(p)
  BY <1>1, <1>2, <1>3, <1>4, <1>11, SendErrorEffect
  DEF HandleUnencodable, Succeeds, Execute, Effect, INTERNAL
<1>12. CASE HandleReply(p)
  <2>1. Succeeds(p) /\ p # Runt /\ p.rpc \notin RequestOnly
    BY <1>12 DEF HandleReply, Succeeds, Execute
  <2>2. Writes(p) /\ tx'.frame.rpc = p.rpc
    BY <1>1, <1>12, <2>1, CodesInWire, WriteWrites DEF HandleReply
  <2> QED
    BY <1>1, <1>2, <1>3, <1>4, <2>1, <2>2 DEF Succeeds, Execute, Effect
<1> QED
  BY <1>5, <1>6, <1>7, <1>8, <1>9, <1>10, <1>11, <1>12 DEF Handle

\* What the return value says of the frame: it was written; or there is no room
\* for a header; or the request wants none and its callback has run.
Reported(p) ==
    \/ Writes(p)
    \/ bytesWritten' = 0 /\ ret' = -1 /\ txSize < HeaderLen
    \/ /\ bytesWritten' = 0 /\ ret' = 0 /\ p.rpc \in RequestOnly
       /\ executed' = [executed EXCEPT ![p.call] = @ + 1]

LEMMA HandleReports ==
    ASSUME NEW p \in Request, Handle(p)
    PROVE  Reported(p)
<1>1. /\ p # Runt /\ p.rpc \in Methods
      /\ 0 \in WireCode /\ {UNIMPLEMENTED, INTERNAL, INVALID_DATA_FORMAT} \subseteq {12, 13, 17}
  BY WireAssumption DEF Request, WireCode, UNIMPLEMENTED, INTERNAL, INVALID_DATA_FORMAT
<1>2. ASSUME NEW code \in Codes \cup {12, 13, 17}, SendError(p, code) PROVE Reported(p)
  BY <1>2, SendErrorEffect DEF Reported
<1>3. CASE HandleUnknown(p) \/ HandleUndecodable(p) \/ HandleFailed(p) \/ HandleUnencodable(p)
  BY <1>1, <1>2, <1>3 DEF HandleUnknown, HandleUndecodable, HandleFailed, HandleUnencodable
<1>4. CASE HandleRequestOnly(p) \/ HandleNoTx(p)
  BY <1>4 DEF HandleRequestOnly, HandleNoTx, Succeeds, Execute, WriteNothing, Reported
<1>5. CASE HandleReply(p)
  BY <1>1, <1>5, WriteWrites DEF HandleReply, Reported
<1>6. ~ HandleRunt(p)
  BY <1>1 DEF HandleRunt
<1> QED
  BY <1>3, <1>4, <1>5, <1>6 DEF Handle

\* The transaction holds a frame of the server, or none.
LEMMA TxFrame == HandleTypeOK => tx.frame \in ServerFrame \cup {NoFrame}
BY DEF HandleTypeOK, Blank

-----------------------------------------------------------------------------
(* windrpc_process_packet(): packets of any kind in any order, transmit    *)
(* buffers and caller's buffers of any size, those below a header included.*)

PacketIInv == PacketTypeOK /\ OutputAnswersThisPacket

\* What comes out in a step answers the packet of this step: only a frame that
\* was just written has a length, and the static buffer's old one has none.
LEMMA OutIsWritten ==
    ASSUME HandleTypeOK, NEW p \in Request, Handle(p), CopyOut, outLen' > 0
    PROVE  /\ Writes(p) /\ out' = tx'.frame
           /\ \/ out'.rpc = SysError
              \/ /\ out'.rpc = p.rpc
                 /\ executed' = [executed EXCEPT ![p.call] = @ + 1]
<1>1. p \in Packet /\ p # Runt
  BY WireAssumption DEF Packet
<1>2. Effect(p)
  BY <1>1, HandleEffect
<1>3. bytesWritten' > 0 /\ out' = tx'.frame
  BY DEF CopyOut
<1> QED
  BY <1>1, <1>2, <1>3 DEF Effect

LEMMA ProcessKeepsPacketIInv ==
    ASSUME PacketIInv, NEW p \in Request, Process(p)
    PROVE  PacketIInv'
<1>1. HandleTypeOK /\ Handle(p) /\ CopyOut /\ err' = ret' /\ UNCHANGED wire
  BY DEF PacketIInv, PacketTypeOK, Process
<1>2. p \in Packet
  BY DEF Packet
<1>3. Effect(p)
  BY <1>1, <1>2, HandleEffect
<1>4. outLen' \in Nat /\ outLen' <= MaxResp
  <2>1. bytesWritten' \in Nat /\ MaxResp \in Nat
    BY <1>3, PacketAssumption DEF Effect, HandleTypeOK
  <2> QED
    BY <1>1, <2>1 DEF CopyOut
<1>5. PacketTypeOK'
  <2>1. out' \in ServerFrame \cup {NoFrame}
    <3>1. tx'.frame \in ServerFrame \cup {NoFrame}
      BY <1>3 DEF Effect, HandleTypeOK, Blank
    <3> QED
      BY <1>1, <3>1 DEF CopyOut, PacketIInv, PacketTypeOK
  <2>2. HandleTypeOK' /\ err' \in {0, -1}
    BY <1>1, <1>3 DEF Effect, HandleTypeOK
  <2> QED
    BY <1>1, <1>4, <2>1, <2>2 DEF PacketIInv, PacketTypeOK, WireTypeOK, wire
<1>6. OutputAnswersThisPacket'
  <2> SUFFICES ASSUME outLen' > 0
               PROVE  /\ err' = 0 /\ pkt' \in Request /\ out' = tx'.frame
                      /\ out'.call = pkt'.call /\ out'.seq = pkt'.seq
                      /\ out'.rpc \in {pkt'.rpc, SysError}
    BY DEF OutputAnswersThisPacket
  <2>1. Writes(p) /\ out' = tx'.frame /\ out'.rpc \in {p.rpc, SysError}
    BY <1>1, OutIsWritten
  <2> QED
    BY <1>1, <1>3, <2>1 DEF Effect, Writes
<1> QED
  BY <1>5, <1>6 DEF PacketIInv

LEMMA RuntKeepsPacketIInv ==
    ASSUME PacketIInv, ProcessRunt
    PROVE  PacketIInv'
<1>1. PacketTypeOK'
  BY DEF PacketIInv, PacketTypeOK, WireTypeOK, HandleTypeOK, wire, ProcessRunt, Packet
<1>2. OutputAnswersThisPacket'
  BY DEF OutputAnswersThisPacket, ProcessRunt
<1> QED
  BY <1>1, <1>2 DEF PacketIInv

LEMMA InitPacketIInv == PacketInit => PacketIInv
<1> SUFFICES ASSUME PacketInit PROVE PacketIInv
  OBVIOUS
<1>1. PacketTypeOK
  BY WireAssumption DEF PacketInit, WireInit, HandleInit, PacketTypeOK, WireTypeOK, HandleTypeOK, Blank
<1>2. OutputAnswersThisPacket
  BY DEF PacketInit, OutputAnswersThisPacket
<1> QED
  BY <1>1, <1>2 DEF PacketIInv

LEMMA NextPacketIInv == PacketIInv /\ [PacketNext]_packetVars => PacketIInv'
<1> SUFFICES ASSUME PacketIInv, [PacketNext]_packetVars PROVE PacketIInv'
  OBVIOUS
<1>1. CASE UNCHANGED packetVars
  BY <1>1 DEF packetVars, wire, txn, PacketIInv, PacketTypeOK, WireTypeOK, HandleTypeOK,
      OutputAnswersThisPacket
<1> QED
  BY <1>1, RuntKeepsPacketIInv, ProcessKeepsPacketIInv DEF PacketNext

LEMMA PacketInductive == PacketSpec => []PacketIInv
BY InitPacketIInv, NextPacketIInv, PTL DEF PacketSpec

\* Type correctness of the transaction and of what the caller gets.
THEOREM PacketTypeCorrect == PacketSpec => []PacketTypeOK
BY PacketInductive, PTL DEF PacketIInv

\* The caller never gets what an earlier packet left in the static buffer.
THEOREM AnswersItsPacket == PacketSpec => []OutputAnswersThisPacket
BY PacketInductive, PTL DEF PacketIInv

\* A response leaves in the step that ran its callback, and ran it once.
THEOREM RespondsAfterRun == PacketSpec => ResponseMeansRun
<1>1. PacketIInv /\ [PacketNext]_packetVars
        => [outLen' > 0 /\ out'.rpc # SysError
             => executed' = [executed EXCEPT ![out'.call] = @ + 1]]_packetVars
  <2> SUFFICES ASSUME PacketIInv, PacketNext, outLen' > 0, out'.rpc # SysError
               PROVE  executed' = [executed EXCEPT ![out'.call] = @ + 1]
    OBVIOUS
  <2>1. ~ ProcessRunt
    BY DEF ProcessRunt
  <2>2. PICK p \in Request : Process(p)
    BY <2>1 DEF PacketNext
  <2>3. HandleTypeOK /\ Handle(p) /\ CopyOut
    BY <2>2 DEF PacketIInv, PacketTypeOK, Process
  <2>4. Writes(p) /\ out' = tx'.frame /\ executed' = [executed EXCEPT ![p.call] = @ + 1]
    BY <2>3, OutIsWritten
  <2> QED
    BY <2>4 DEF Writes
<1> QED
  BY <1>1, PacketInductive, PTL DEF PacketSpec, ResponseMeansRun

\* The return value and the length tell the caller what became of its packet.
THEOREM CallerCanTell == PacketSpec => ReturnTellsOutput
<1> DEFINE Told ==
        /\ err' = -1 => outLen' = 0 /\ (pkt' = Runt \/ txSize < HeaderLen)
        /\ err' = 0 /\ outLen' = 0 =>
             \/ MaxResp = 0
             \/ /\ pkt'.rpc \in RequestOnly
                /\ executed' = [executed EXCEPT ![pkt'.call] = @ + 1]
        /\ err' = 0 /\ outLen' \in 1 .. MaxResp - 1 =>
             outLen' = HeaderLen + tx'.len /\ out' = tx'.frame
<1>1. PacketIInv /\ [PacketNext]_packetVars => [Told]_packetVars
  <2> SUFFICES ASSUME PacketIInv, PacketNext PROVE Told
    OBVIOUS
  <2>1. CASE ProcessRunt
    BY <2>1 DEF ProcessRunt
  <2>2. ASSUME NEW p \in Request, Process(p) PROVE Told
    <3>1. Handle(p) /\ CopyOut /\ err' = ret' /\ pkt' = p
      BY <2>2 DEF Process, Handle
    <3>2. CASE Writes(p)
      <4>1. tx'.len \in Nat /\ bytesWritten' = 6 + tx'.len /\ err' = 0 /\ MaxResp \in Nat
        BY <3>1, <3>2, PacketAssumption DEF Writes, Frames, HeaderLen
      <4>2. /\ out' = tx'.frame
            /\ outLen' = IF bytesWritten' < MaxResp THEN bytesWritten' ELSE MaxResp
        BY <3>1, <4>1 DEF CopyOut
      <4> QED
        BY <4>1, <4>2 DEF HeaderLen
    <3>3. CASE bytesWritten' = 0
      <4>1. outLen' = 0
        BY <3>1, <3>3 DEF CopyOut
      <4> QED
        BY <3>1, <3>2, <4>1, HandleReports DEF Reported
    <3> QED
      BY <3>1, <3>2, <3>3, HandleReports DEF Reported
  <2> QED
    BY <2>1, <2>2 DEF PacketNext
<1> QED
  BY <1>1, PacketInductive, PTL DEF PacketSpec, ReturnTellsOutput
=============================================================================
