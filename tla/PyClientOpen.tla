---------------------------- MODULE PyClientOpen ----------------------------
(***************************************************************************)
(* The Python client against any peer, while its sequence counter may go   *)
(* round with calls still pending.                                         *)
(***************************************************************************)
EXTENDS PyClient

vars == <<wire, clientVars>>

TypeOK == WireTypeOK /\ ClientTypeOK

Init == WireInit /\ ClientInit

Next ==
    \/ Client
    \/ Peer /\ UNCHANGED clientVars

Spec == Init /\ [][Next]_vars

\* asyncio runs the timeout of a wait_for() and resumes a task whose future is
\* done.
FairSpec ==
    /\ Spec
    /\ \A c \in Calls : WF_vars(Deadline(c)) /\ WF_vars(Resumes(c))

-----------------------------------------------------------------------------
\* Every call that is awaited ends, whatever the peer does.
EveryCallEnds == \A c \in Calls : state[c] = "awaiting" ~> state[c] # "awaiting"
=============================================================================
