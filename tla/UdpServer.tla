----------------------------- MODULE UdpServer -----------------------------
(***************************************************************************)
(* The event loop of the UDP example server (examples/udp_demo/c_server/   *)
(* main.c), the repository's one complete binding of the engine to a       *)
(* transport: receive a datagram, windrpc_handle() it, send the frame it   *)
(* produced, push a notification after a get_power_status request.         *)
(***************************************************************************)
EXTENDS WindRpcHandle

CONSTANT PushTrigger  \* the method after which the loop pushes: 0x0801

ASSUME PushAssumption == PushTrigger \in Methods

VARIABLE loop  \* where the loop is: "recv", "reply" or "push"

serverVars == <<txn, executed, loop>>

ServerTypeOK == HandleTypeOK /\ loop \in {"recv", "reply", "push"}

ServerInit == HandleInit /\ loop = "recv"

\* recvfrom() and windrpc_handle().
Receive ==
    /\ loop = "recv"
    /\ \E p \in c2s : Take(p, c2s, c2s') /\ Handle(p)
    /\ loop' = "reply"
    /\ UNCHANGED s2c

Send(frame) == s2c' = s2c \cup {frame}

\* The loop looks for PushTrigger in the RPC id bytes of rx_buf, where a runt
\* leaves bytes of an earlier datagram.
PushNow == IF pkt = Runt THEN BOOLEAN ELSE {pkt.rpc = PushTrigger}

\* sendto(), if windrpc_handle() produced a frame.
Reply ==
    /\ loop = "reply"
    /\ IF ret = 0 /\ bytesWritten > 0 THEN Send(tx.frame) ELSE UNCHANGED s2c
    /\ \E push \in PushNow : loop' = IF push THEN "push" ELSE "recv"
    /\ UNCHANGED <<c2s, dups, txn, executed>>

\* Mutant: tx_data keeps the sequence id of the last response.
Notify_KeepsSeq(e) ==
    /\ \E len \in PayloadLens :
        /\ Fits(len)
        /\ Write([rpc |-> e, code |-> 0, call |-> NoCall,
                  seq |-> IF tx = Blank THEN 0 ELSE tx.frame.seq], len)
        /\ Send(tx'.frame)
    /\ UNCHANGED <<pkt, txSize, status>>

\* windrpc_notify_<event>() into the same transaction, sequence id 0.
Notify(e) ==
    /\ \E len \in PayloadLens :
        /\ Fits(len)
        /\ Write([rpc |-> e, seq |-> 0, code |-> 0, call |-> NoCall], len)
        /\ Send(tx'.frame)
    /\ UNCHANGED <<pkt, txSize, status>>

\* The event cannot be encoded (or tx_data has no room for a header): nothing
\* is sent, and what tx_data held is partly overwritten.
NotifyFails ==
    /\ tx' = Blank
    /\ bytesWritten' = 0
    /\ ret' = -1
    /\ UNCHANGED <<pkt, txSize, status, s2c>>

Push ==
    /\ loop = "push"
    /\ loop' = "recv"
    /\ \/ \E e \in Events : Notify(e)
       \/ NotifyFails
    /\ UNCHANGED <<c2s, dups, executed>>

Server == Receive \/ Reply \/ Push
=============================================================================
