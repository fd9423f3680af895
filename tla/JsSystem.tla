------------------------------ MODULE JsSystem ------------------------------
(***************************************************************************)
(* The JavaScript client, the network and the UDP server together.         *)
(***************************************************************************)
EXTENDS JsClient, UdpServer

vars == <<wire, clientVars, serverVars>>

TypeOK == WireTypeOK /\ ClientTypeOK /\ ServerTypeOK

Init == WireInit /\ ClientInit /\ ServerInit

Next ==
    \/ Client /\ UNCHANGED serverVars
    \/ Server /\ UNCHANGED clientVars
    \/ Network /\ UNCHANGED <<clientVars, serverVars>>

Spec == Init /\ [][Next]_vars

\* The life of a client until its 16-bit sequence counter wraps: what the
\* code relies on to tell one call's answer from another's.
OneLap == seqId' >= seqId

LapSpec == Init /\ [][Next /\ OneLap]_vars

-----------------------------------------------------------------------------
\* The server's frames are about the request they answer: its sequence id, its
\* method or the error id.  A response means that the callback has run, and is
\* never sent for a REQUEST_ONLY method (an error frame may be).
AnswersTheRequest ==
    \A f \in s2c : f.call # NoCall =>
        /\ state[f.call] # "idle"
        /\ f.seq = seqOf[f.call]
        /\ f.rpc # SysError =>
            f.rpc = rpcOf[f.call] /\ f.rpc \notin RequestOnly /\ executed[f.call] > 0

\* A call that is waited for can still be answered: no timer, answer or send
\* of another call has taken its entry out of the pending map.
WaitingHasEntry ==
    \A c \in Calls : state[c] = "waiting" => pending[seqOf[c]] = c

\* A timer runs only as long as the entry it was set up with stands: an answer or
\* a reset clears it with the entry (WindRpcClient.js:84, :181), so that none is left to
\* delete the entry of a later call that has its sequence id.
TimerHasEntry ==
    \A c \in Calls : timer[c] => pending[seqOf[c]] = c

\* A promise is settled by a frame only if the frame answers its own request,
\* and resolved only if the server ran the callback.  (_dispatchFrame matches
\* by sequence id alone, WindRpcClient.js:181.)
Correlated ==
    \A c \in Calls : answer[c] # NoFrame =>
        /\ answer[c].call = c
        /\ state[c] = "resolved" <=> answer[c].rpc = rpcOf[c]
        /\ state[c] = "resolved" => executed[c] > 0

\* The client never sends a request twice and the server keeps no memory of
\* requests: a callback runs again only for a copy the network made.
ExecutedPerCopy == \A c \in Calls : executed[c] <= 1 + dups

\* The system implements the contract of a remote call.
Contract == INSTANCE RpcContract WITH
    outcome <- [c \in Calls |->
                    CASE state[c] = "resolved" -> "ok"
                      [] state[c] = "rejected" -> "failed"
                      [] OTHER -> state[c]],
    ran <- {c \in Calls : executed[c] > 0}

ImplementsContract == Contract!Spec

-----------------------------------------------------------------------------
\* Statements of the documentation and tests that the code does not keep.

\* docs/windrpc_manual.md:392: notification frames reach onNotification.
EventsReachCallback ==
    \A c \in Calls : answer[c] # NoFrame => answer[c].rpc \notin Events

\* tests/test_js_client.mjs:87: code 12 reaches the client as 12.
UnknownMethodIsUnimplemented ==
    \A c \in Calls :
        answer[c] # NoFrame /\ answer[c].rpc = SysError /\ rpcOf[c] \notin Registered
            => answer[c].code = UNIMPLEMENTED
=============================================================================
