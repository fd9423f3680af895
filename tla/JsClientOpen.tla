---------------------------- MODULE JsClientOpen ----------------------------
(***************************************************************************)
(* The JavaScript client against any peer, while its sequence counter may  *)
(* wrap with calls still pending.                                          *)
(***************************************************************************)
EXTENDS JsClient

vars == <<wire, clientVars>>

TypeOK == WireTypeOK /\ ClientTypeOK

Init == WireInit /\ ClientInit

Next ==
    \/ Client
    \/ Peer /\ UNCHANGED clientVars

Spec == Init /\ [][Next]_vars

\* Node.js runs every timer that is not cleared.
FairSpec == Spec /\ \A c \in Calls : WF_vars(Timeout(c))

-----------------------------------------------------------------------------
\* Every call that is waited for ends, whatever the peer does.
EveryCallEnds == \A c \in Calls : state[c] = "waiting" ~> state[c] # "waiting"
=============================================================================
