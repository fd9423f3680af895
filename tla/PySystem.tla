------------------------------ MODULE PySystem ------------------------------
(***************************************************************************)
(* The Python client, the network and the UDP server together.             *)
(***************************************************************************)
EXTENDS PyClient, UdpServer

vars == <<wire, clientVars, serverVars>>

TypeOK == WireTypeOK /\ ClientTypeOK /\ ServerTypeOK

Init == WireInit /\ ClientInit /\ ServerInit

Next ==
    \/ Client /\ UNCHANGED serverVars
    \/ Server /\ UNCHANGED clientVars
    \/ Network /\ UNCHANGED <<clientVars, serverVars>>

Spec == Init /\ [][Next]_vars

\* With two sequence ids, 0 and 1, every call would be a lap.
ASSUME LapAssumption == SeqSpace > 2

\* The life of a client until its sequence counter goes round.
OneLap == nextSeqId' >= nextSeqId

LapSpec == Init /\ [][Next /\ OneLap]_vars

-----------------------------------------------------------------------------
\* A call that can still be answered has its entry: no other call's answer,
\* timeout or send takes it away.
AwaitedHasEntry ==
    \A c \in Calls : state[c] = "awaiting" /\ future[c] = "pending"
                        => pending[seqOf[c]] = c

\* A call is answered by the server's answer to its own request, and returns
\* only if the server ran its callback.  (receive_raw_datagram() matches by
\* sequence id alone, python.py:204.)
AnswersItsCall ==
    \A c \in Calls :
        /\ answer[c] # NoFrame =>
            /\ answer[c].call = c
            /\ answer[c].rpc \in {rpcOf[c], SysError}
        /\ state[c] = "returned" => answer[c].rpc = rpcOf[c] /\ executed[c] > 0

\* Bit 7 of a frame's RPC id is taken for the mark of an event (python.py:198), and
\* ids up to 255 are accepted: on_notification gets the responses of methods with
\* that bit as well as the events, each from a callback that ran for its request.
NotifiesItsFrames ==
    \A f \in notified :
        \/ f.call = NoCall /\ f.rpc \in Events
        \/ f.call \in Calls /\ f.rpc = rpcOf[f.call] /\ f.rpc \in HighBit /\ executed[f.call] > 0

\* ... and their calls never return: no frame but an error ends them.
HighBitNeverReturns ==
    \A c \in Calls : rpcOf[c] \in HighBit => state[c] # "returned" /\ future[c] # "result"

\* Every frame reaches its own call, or on_notification, and no one else.
Correlated == AnswersItsCall /\ NotifiesItsFrames /\ HighBitNeverReturns

\* The system implements the contract of a remote call.
Contract == INSTANCE RpcContract WITH
    outcome <- [c \in Calls |->
                    CASE state[c] = "idle" -> "idle"
                      [] state[c] = "awaiting" -> "waiting"
                      [] state[c] = "returned" -> "ok"
                      [] OTHER -> "failed"],
    ran <- {c \in Calls : executed[c] > 0}

ImplementsContract == Contract!Spec
=============================================================================
