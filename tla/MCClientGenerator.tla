-------------------------- MODULE MCClientGenerator --------------------------
(* Versions of a specification with two services, for TLC: the fan refers    *)
(* to a type of the led, is removed, the led loses the type; both refer to   *)
(* each other; the led lacks an id.                                          *)
EXTENDS ClientGenerator
Service(shares, refersTo, hasIds) ==
    [shares |-> shares, refersTo |-> refersTo, hasIds |-> hasIds]
Version(led, fan) == [s \in Services |-> IF s = "led" THEN led ELSE fan]
Versions ==
    {Version(Service(TRUE, {}, TRUE), Service(FALSE, {"led"}, TRUE)),
     Version(Service(FALSE, {}, TRUE), Absent),
     Version(Service(TRUE, {"fan"}, TRUE), Service(TRUE, {"led"}, TRUE)),
     Version(Service(TRUE, {}, FALSE), Service(FALSE, {"led"}, TRUE))}
EditsByRunner == [path |-> 3, cache |-> 0]
=============================================================================
