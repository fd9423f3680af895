-------------------------- MODULE MCSpecification --------------------------
(* Services and names for TLC.  led_fan.on is also fan_on of led, and the  *)
(* subscription of on is also an RPC subscribe_on.                         *)
EXTENDS Specification
LedAndFan == {<<"led">>, <<"led", "fan">>}
OnAndOff == {<<"on">>, <<"fan", "on">>, <<"subscribe", "on">>}
Offered == {NoId, 0, 1, 3, 5, 8}
Order == <<"led", "fan">>
Pascal == [Empty |-> "Empty", State |-> "State", Bool |-> "Bool",
           state |-> "State", bool |-> "Bool"]
PrefixesGiven == {<<"PUMP">>, <<"PUMP", "MODE">>, <<"FAN">>}
MembersWritten ==
    {<<"ON">>, <<"on">>, <<"MODE", "ON">>, <<"PUMP", "ON">>, <<"FAN", "ON">>,
     <<"PUMP", "MODE", "ON">>}
Capitals == [PUMP |-> "PUMP", MODE |-> "MODE", FAN |-> "FAN", ON |-> "ON", on |-> "ON"]
=============================================================================
