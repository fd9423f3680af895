---------------------------- MODULE RpcContract ----------------------------
(***************************************************************************)
(* What a remote call promises the application, whichever client makes it  *)
(* and whatever the network does: the callback runs only for a call that   *)
(* was made; a call ends once, and ends well only after its callback ran.  *)
(* It may run without the call ending well, and after it has ended.        *)
(***************************************************************************)
CONSTANT Calls

VARIABLES
    outcome, \* of each call, as the application sees it
    ran      \* the calls whose callback has run at least once

vars == <<outcome, ran>>

Init ==
    /\ outcome = [c \in Calls |-> "idle"]
    /\ ran = {}

\* The call is made, "sent" when its caller does not wait, or fails at once.
Make(c) ==
    /\ outcome[c] = "idle"
    /\ \E made \in {"waiting", "sent", "failed"} :
        outcome' = [outcome EXCEPT ![c] = made]
    /\ UNCHANGED ran

Run(c) ==
    /\ outcome[c] # "idle"
    /\ ran' = ran \cup {c}
    /\ UNCHANGED outcome

End(c) ==
    /\ outcome[c] = "waiting"
    /\ \E end \in {"ok", "failed"} :
        /\ end = "ok" => c \in ran
        /\ outcome' = [outcome EXCEPT ![c] = end]
    /\ UNCHANGED ran

\* A transport reset ends several calls at once.
EndAll ==
    /\ \E failing \in SUBSET {c \in Calls : outcome[c] = "waiting"} :
        outcome' = [c \in Calls |-> IF c \in failing THEN "failed" ELSE outcome[c]]
    /\ UNCHANGED ran

Next == EndAll \/ \E c \in Calls : Make(c) \/ Run(c) \/ End(c)

Spec == Init /\ [][Next]_vars
=============================================================================
