---------------------------- MODULE FrameChannel ----------------------------
(***************************************************************************)
(* What a line of frames and the receiver at its end promise together,     *)
(* whatever is lost and however the bytes arrive: packets come out in the  *)
(* order they were sent.  A frame that can be read comes out once, as it   *)
(* was sent, and none that follows it comes out before.  A frame that      *)
(* cannot be read is skipped or comes out as anything, even in pieces.     *)
(***************************************************************************)
EXTENDS Integers, Sequences

CONSTANT Packets

VARIABLES
    sent,       \* the packets sent; their positions number the frames
    unreadable, \* the numbers of the frames that cannot be read
    delivered   \* the packets that came out, each with its frame's number

vars == <<sent, unreadable, delivered>>

Init == sent = <<>> /\ unreadable = {} /\ delivered = <<>>

\* The frame may be one that the receiver cannot hold.
Send ==
    /\ \E p \in Packets : sent' = Append(sent, p)
    /\ unreadable' \in {unreadable, unreadable \cup {Len(sent) + 1}}
    /\ UNCHANGED delivered

\* The frames that are spoilt, be it one still to be sent, are behind all that
\* came out: what has come out stays valid.
Spoil ==
    /\ UNCHANGED <<sent, delivered>>
    /\ \E spoilt \in SUBSET (1 .. Len(sent) + 1) :
        /\ unreadable' = unreadable \cup spoilt
        /\ \A n \in spoilt, k \in 1 .. Len(delivered) : delivered[k].of < n

\* The packet at k is one that may come out behind those before it.
Follows(out, k) ==
    LET n == out[k].of IN
    /\ n \in 1 .. Len(sent)
    /\ n \notin unreadable => out[k].data = sent[n]
    /\ \A j \in 1 .. k - 1 : out[j].of < n \/ (out[j].of = n /\ n \in unreadable)
    /\ \A m \in 1 .. n - 1 : m \in unreadable \/ \E j \in 1 .. k - 1 : out[j].of = m

\* One chunk may complete several frames.
Deliver ==
    /\ UNCHANGED <<sent, unreadable>>
    /\ Len(delivered) < Len(delivered')
    /\ \A k \in 1 .. Len(delivered) : delivered'[k] = delivered[k]
    /\ \A k \in Len(delivered) + 1 .. Len(delivered') : Follows(delivered', k)

Next == Send \/ Spoil \/ Deliver

Spec == Init /\ [][Next]_vars
=============================================================================
