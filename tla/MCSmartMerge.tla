---------------------------- MODULE MCSmartMerge ----------------------------
(* Two services with an RPC of one name; a notification beside an RPC that   *)
(* bears its handler's name; a handler name that is the beginning of others. *)
EXTENDS SmartMerge
OfTwoServices ==
    {[service |-> "led", name |-> "subscribe", notifies |-> FALSE],
     [service |-> "fan", name |-> "subscribe", notifies |-> FALSE],
     [service |-> "fan", name |-> "on", notifies |-> TRUE],
     [service |-> "fan", name |-> "subscribe_on", notifies |-> FALSE]}
BehindSubscribe == [on |-> "subscribe_on"]
SubscribeInside == {<<"subscribe", "subscribe_on">>}
=============================================================================
