------------------------------ MODULE JsStream ------------------------------
(***************************************************************************)
(* receiveBytes() of the JavaScript client at the end of a serial line.    *)
(***************************************************************************)
EXTENDS ByteLine

CONSTANT MaxAccumulator  \* 4096

ASSUME AccumulatorAssumption == MaxAccumulator \in Nat

-----------------------------------------------------------------------------
\* Mutant: the accumulator is emptied only after a packet that is dispatched.
JsDelimiter_KeepsShort(r, n) ==
    LET data == JsDecode(Bytes(r.acc)) IN
    IF Len(data) >= MinLen
    THEN [acc |-> <<>>, got |-> Append(r.got, [data |-> data, of |-> n])]
    ELSE r

\* A zero ends the packet; packets below the header's length are dropped.
JsDelimiter(r, n) ==
    LET data == JsDecode(Bytes(r.acc)) IN
    [acc |-> <<>>,
     got |-> IF Len(data) >= MinLen
             THEN Append(r.got, [data |-> data, of |-> n]) ELSE r.got]

\* Mutant: the accumulator has no limit.
JsData_NoLimit(r, t) == [r EXCEPT !.acc = Append(r.acc, t)]

\* The byte after the 4096th empties the accumulator, itself included.
JsData(r, t) ==
    [r EXCEPT !.acc = IF Len(r.acc) < MaxAccumulator THEN Append(r.acc, t) ELSE <<>>]

\* receiveBytes() goes through a chunk byte by byte.
JsReceiveBytes ==
    \E n \in 1 .. Len(line) :
        LET received[i \in 0 .. n] ==
                IF i = 0 THEN [acc |-> rx, got |-> delivered]
                ELSE IF line[i].b = 0 THEN JsDelimiter(received[i - 1], line[i].of)
                ELSE JsData(received[i - 1], line[i])
        IN /\ Arrive(n)
           /\ rx' = received[n].acc
           /\ delivered' = received[n].got
           /\ UNCHANGED <<sent, faults, damaged>>

\* resetAccumulator(): what had arrived of a frame is thrown away.
ResetAccumulator ==
    /\ rx # <<>>
    /\ rx' = <<>>
    /\ damaged' = damaged \cup {rx[i].of : i \in 1 .. Len(rx)}
    /\ UNCHANGED <<line, sent, faults, delivered>>
=============================================================================
