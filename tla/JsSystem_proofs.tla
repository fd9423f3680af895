-------------------------- MODULE JsSystem_proofs --------------------------
(***************************************************************************)
(* Proofs about the JavaScript client: against any peer, while its         *)
(* sequence counter wraps as often as it likes; and with the UDP server    *)
(* over a network that loses, duplicates, reorders and truncates, during   *)
(* one lap of the counter.  For any number of calls, any methods and any   *)
(* size of the counter.                                                    *)
(***************************************************************************)
EXTENDS JsSystem, WindRpcHandle_proofs, FiniteSetTheorems

-----------------------------------------------------------------------------
(* The client, whoever it talks to.                                        *)

\* A call that has not been made has no timer, hence no entry: with it the
\* two invariants of JsClient become inductive, since a send moves seqOf of
\* an idle call only.
IdleHasNoTimer == \A c \in Calls : state[c] = "idle" => ~ timer[c]

ClientOK == WireTypeOK /\ ClientTypeOK

TimersInv == ClientOK /\ WaitingHasTimer /\ EntryHasTimer /\ IdleHasNoTimer

\* The sequence counter stays within its 16 bits.
LEMMA NextSeqIdInSeqs == seqId \in Seqs => GetNextSeqId \in Seqs
BY WireAssumption DEF GetNextSeqId, Seqs

\* A request that is sent is a well-formed request.
LEMMA TransmitType ==
    ASSUME NEW c \in Calls, ClientOK, seqId' \in Seqs, Transmit(c)
    PROVE  c2s' \subseteq Packet
BY DEF ClientOK, WireTypeOK, ClientTypeOK, Transmit, Request, Packet

\* A delivery leaves the channel it was taken from well-formed.
LEMMA TakeType ==
    ASSUME NEW f \in s2c, ClientOK, Take(f, s2c, s2c')
    PROVE  f \in ServerFrame /\ s2c' \subseteq ServerFrame /\ dups' \in 0 .. MaxDups
BY WireAssumption DEF ClientOK, WireTypeOK, Take

LEMMA SendKeepsTimers ==
    ASSUME TimersInv, NEW c \in Calls, SendRequest(c) \/ SendFrame(c)
    PROVE  TimersInv'
<1>1. seqId' \in Seqs
  BY NextSeqIdInSeqs DEF TimersInv, ClientOK, ClientTypeOK, SendRequest, SendFrame, BuildFrame
<1>2. c2s' \subseteq Packet
  <2>1. CASE Transmit(c)
    BY <1>1, <2>1, TransmitType DEF TimersInv
  <2>2. CASE UNCHANGED c2s
    BY <2>2 DEF TimersInv, ClientOK, WireTypeOK
  <2> QED
    BY <2>1, <2>2 DEF SendRequest, SendFrame
<1>3. ClientOK'
  <2>1. WireTypeOK'
    BY <1>2 DEF TimersInv, ClientOK, WireTypeOK, SendRequest, SendFrame
  <2>2. CASE SendRequest(c)
    BY <1>1, <2>1, <2>2
    DEF TimersInv, ClientOK, ClientTypeOK, States, SendRequest, BuildFrame
  <2>3. CASE SendFrame(c)
    BY <1>1, <2>1, <2>3
    DEF TimersInv, ClientOK, ClientTypeOK, States, SendFrame, BuildFrame
  <2> QED
    BY <2>2, <2>3
<1>4. \A s \in Seqs : pending[s] # c
  BY WireAssumption DEF TimersInv, ClientOK, ClientTypeOK, EntryHasTimer, IdleHasNoTimer, SendRequest, SendFrame, BuildFrame
<1>5. EntryHasTimer'
  BY <1>1, <1>4, WireAssumption
  DEF TimersInv, ClientOK, ClientTypeOK, EntryHasTimer, SendRequest, SendFrame, BuildFrame
<1>6. WaitingHasTimer'
  BY DEF TimersInv, ClientOK, ClientTypeOK, WaitingHasTimer, SendRequest, SendFrame, BuildFrame
<1>7. IdleHasNoTimer'
  BY DEF TimersInv, ClientOK, ClientTypeOK, IdleHasNoTimer, SendRequest, SendFrame, BuildFrame
<1> QED
  BY <1>3, <1>5, <1>6, <1>7 DEF TimersInv

LEMMA TimeoutKeepsTimers ==
    ASSUME TimersInv, NEW c \in Calls, Timeout(c)
    PROVE  TimersInv'
<1>1. ClientOK'
  BY DEF TimersInv, ClientOK, WireTypeOK, ClientTypeOK, States, Timeout, Settle, wire
<1>2. WaitingHasTimer' /\ IdleHasNoTimer'
  BY DEF TimersInv, ClientOK, ClientTypeOK, WaitingHasTimer, IdleHasNoTimer, Timeout, Settle
<1>3. EntryHasTimer'
  BY WireAssumption DEF TimersInv, ClientOK, ClientTypeOK, EntryHasTimer, Timeout
<1> QED
  BY <1>1, <1>2, <1>3 DEF TimersInv

LEMMA DispatchKeepsTimers ==
    ASSUME TimersInv, Dispatch
    PROVE  TimersInv'
<1>1. PICK f \in s2c : /\ Take(f, s2c, s2c')
                       /\ DispatchPending(f) \/ DispatchNotification(f)
  BY DEF Dispatch
<1>2. f \in ServerFrame /\ s2c' \subseteq ServerFrame /\ dups' \in 0 .. MaxDups
  BY <1>1, TakeType DEF TimersInv
<1>3. f.seq \in Seqs
  BY <1>2 DEF ServerFrame
<1>4. CASE DispatchPending(f)
  <2> DEFINE c == pending[f.seq]
  <2>1. c \in Calls
    BY <1>3, <1>4 DEF TimersInv, ClientOK, ClientTypeOK, DispatchPending
  <2>2. ClientOK'
    BY <1>2, <1>3, <1>4, <2>1
    DEF TimersInv, ClientOK, WireTypeOK, ClientTypeOK, States, DispatchPending, Settle, Dispatch
  <2>3. WaitingHasTimer' /\ IdleHasNoTimer'
    BY <1>4, <2>1
    DEF TimersInv, ClientOK, ClientTypeOK, WaitingHasTimer, IdleHasNoTimer, DispatchPending, Settle
  <2>4. EntryHasTimer'
    BY <1>3, <1>4, <2>1, WireAssumption
    DEF TimersInv, ClientOK, ClientTypeOK, EntryHasTimer, DispatchPending, Dispatch
  <2> QED
    BY <2>2, <2>3, <2>4 DEF TimersInv
<1>5. CASE DispatchNotification(f)
  BY <1>2, <1>5
  DEF TimersInv, ClientOK, WireTypeOK, ClientTypeOK, DispatchNotification, Dispatch,
      WaitingHasTimer, IdleHasNoTimer, EntryHasTimer
<1> QED
  BY <1>1, <1>4, <1>5

LEMMA ResetKeepsTimers ==
    ASSUME TimersInv, ResetAccumulator
    PROVE  TimersInv'
<1>1. ClientOK'
  BY DEF TimersInv, ClientOK, WireTypeOK, ClientTypeOK, States, ResetAccumulator, wire
<1>2. WaitingHasTimer' /\ IdleHasNoTimer'
  BY DEF TimersInv, ClientOK, ClientTypeOK, WaitingHasTimer, IdleHasNoTimer, ResetAccumulator
<1>3. EntryHasTimer'
  BY DEF EntryHasTimer, ResetAccumulator
<1> QED
  BY <1>1, <1>2, <1>3 DEF TimersInv

LEMMA ClientKeepsTimers == TimersInv /\ Client => TimersInv'
BY SendKeepsTimers, TimeoutKeepsTimers, DispatchKeepsTimers, ResetKeepsTimers DEF Client

LEMMA InitTimers == WireInit /\ ClientInit => TimersInv
<1> SUFFICES ASSUME WireInit, ClientInit PROVE TimersInv
  OBVIOUS
<1>1. 0 \in Seqs /\ 0 \in 0 .. MaxDups
  BY WireAssumption DEF Seqs
<1> QED
  BY <1>1 DEF WireInit, ClientInit, TimersInv, ClientOK, WireTypeOK, ClientTypeOK,
      States, WaitingHasTimer, IdleHasNoTimer, EntryHasTimer

Open == INSTANCE JsClientOpen

\* Open instantiates JsClient with the variables it has here.
LEMMA OpenIsClient ==
    /\ Open!Init <=> WireInit /\ ClientInit
    /\ Open!TypeOK <=> ClientOK
    /\ Open!Client => Client
<1>1. Open!Init <=> WireInit /\ ClientInit
  BY DEF Open!Init, Open!WireInit, Open!ClientInit, Open!Seqs, WireInit, ClientInit, Seqs
<1>2. Open!TypeOK <=> ClientOK
  <2>1. Open!Seqs = Seqs /\ Open!States = States
    BY DEF Open!Seqs, Open!States, Seqs, States
  <2>2. Open!WireCode = WireCode
    BY DEF Open!WireCode, Open!ZigZag, WireCode, ZigZag
  <2>3. Open!ServerFrame = ServerFrame /\ Open!Packet = Packet
    BY <2>1, <2>2 DEF Open!ServerFrame, Open!Packet, Open!Request, ServerFrame, Packet, Request
  <2> QED
    BY <2>1, <2>3 DEF Open!TypeOK, Open!WireTypeOK, Open!ClientTypeOK,
       ClientOK, WireTypeOK, ClientTypeOK
<1>3. ASSUME NEW c \in Calls, Open!SendRequest(c) \/ Open!SendFrame(c)
      PROVE  SendRequest(c) \/ SendFrame(c)
  BY <1>3 DEF Open!SendRequest, Open!SendFrame, Open!BuildFrame, Open!GetNextSeqId,
     Open!Transmit, SendRequest, SendFrame, BuildFrame, GetNextSeqId, Transmit
<1>4. ASSUME NEW c \in Calls, Open!Timeout(c) PROVE Timeout(c)
  BY <1>4 DEF Open!Timeout, Open!Settle, Open!wire, Timeout, Settle, wire
<1>5. ASSUME Open!Dispatch PROVE Dispatch
  BY <1>5 DEF Open!Dispatch, Open!Take, Open!DispatchPending, Open!DispatchNotification,
     Open!Settle, Dispatch, Take, DispatchPending, DispatchNotification, Settle
<1>6. ASSUME Open!ResetAccumulator PROVE ResetAccumulator
  BY <1>6 DEF Open!ResetAccumulator, Open!wire, Open!Seqs, ResetAccumulator, wire, Seqs
<1> QED
  BY <1>1, <1>2, <1>3, <1>4, <1>5, <1>6 DEF Open!Client, Client

LEMMA OpenTimers == Open!Spec => []TimersInv
<1>1. Open!Init => TimersInv
  BY OpenIsClient, InitTimers
<1>2. TimersInv /\ [Open!Next]_(Open!vars) => TimersInv'
  <2> SUFFICES ASSUME TimersInv, [Open!Next]_(Open!vars) PROVE TimersInv'
    OBVIOUS
  <2>1. CASE Open!Client
    BY <2>1, OpenIsClient, ClientKeepsTimers
  <2>2. CASE Open!Peer /\ UNCHANGED Open!clientVars
    <3>1. UNCHANGED clientVars
      BY <2>2 DEF Open!clientVars, clientVars
    <3>2. Open!AnyFrame \subseteq ServerFrame
      BY DEF Open!AnyFrame, Open!Seqs, ServerFrame, Seqs, WireCode
    <3>3. WireTypeOK'
      BY <2>2, <3>2
      DEF Open!Peer, Open!PeerSends, Open!PeerDiscards, TimersInv, ClientOK, WireTypeOK
    <3> QED
      BY <3>1, <3>3
      DEF clientVars, TimersInv, ClientOK, ClientTypeOK, WaitingHasTimer, IdleHasNoTimer,
          EntryHasTimer
  <2>3. CASE UNCHANGED Open!vars
    BY <2>3
    DEF Open!vars, Open!wire, Open!clientVars, TimersInv, ClientOK, WireTypeOK, ClientTypeOK,
        WaitingHasTimer, IdleHasNoTimer, EntryHasTimer
  <2> QED
    BY <2>1, <2>2, <2>3 DEF Open!Next
<1> QED
  BY <1>1, <1>2, PTL DEF Open!Spec

\* Type correctness of the client against any peer, its channels included.
THEOREM OpenTypeCorrect == Open!Spec => [](Open!TypeOK)
BY OpenTimers, OpenIsClient, PTL DEF TimersInv

\* No call is stranded, whatever frames arrive and however the sequence
\* counter wraps: who waits has a timer running.
THEOREM NeverStranded == Open!Spec => []WaitingHasTimer
BY OpenTimers, PTL DEF TimersInv

\* The pending map leaks nothing: each entry has a running timer of its own
\* sequence id, which deletes it.
THEOREM EntriesEnd == Open!Spec => []EntryHasTimer
BY OpenTimers, PTL DEF TimersInv

-----------------------------------------------------------------------------
(* The client with network and server, during a lap.                       *)

Made(c) == state[c] # "idle"

\* During a lap, calls have sequence ids of their own, and never 0.
OwnSeqs ==
    /\ \A c \in Calls : Made(c) => 1 <= seqOf[c] /\ seqOf[c] <= seqId
    /\ \A c, d \in Calls : Made(c) /\ Made(d) /\ seqOf[c] = seqOf[d] => c = d

OwnEntries ==
    \A s \in Seqs : pending[s] # NoCall =>
        Made(pending[s]) /\ seqOf[pending[s]] = s

TimersOfMade == \A c \in Calls : timer[c] => Made(c)

RunsOfMade == \A c \in Calls : executed[c] > 0 => Made(c)

\* Requests, where they wait and where they are served, are those of calls.
GoodRequest(p) ==
    p \in Request => Made(p.call) /\ p.seq = seqOf[p.call] /\ p.rpc = rpcOf[p.call]

RequestsGood == GoodRequest(pkt) /\ \A p \in c2s : GoodRequest(p)

\* A frame of the server is a notification, or answers a call.
GoodAnswer(f) ==
    /\ f.call = NoCall => f.seq = 0
    /\ f.call # NoCall =>
        /\ Made(f.call)
        /\ f.seq = seqOf[f.call]
        /\ f.rpc # SysError =>
            f.rpc = rpcOf[f.call] /\ f.rpc \notin RequestOnly /\ executed[f.call] > 0

AnswersGood ==
    /\ tx.frame # NoFrame => GoodAnswer(tx.frame)
    /\ \A f \in s2c : GoodAnswer(f)

\* What the loop is about to send is there.
ReplyIsThere == loop = "reply" /\ ret = 0 /\ bytesWritten > 0 => tx.frame # NoFrame

AnsweredIsOver == \A c \in Calls : answer[c] # NoFrame => state[c] \in {"resolved", "rejected"}

IInv ==
    /\ TypeOK
    /\ OwnSeqs /\ OwnEntries /\ TimersOfMade
    /\ RequestsGood /\ RunsOfMade
    /\ AnswersGood /\ ReplyIsThere
    /\ AnsweredIsOver /\ Correlated /\ WaitingHasEntry

-----------------------------------------------------------------------------
(* What is said of a frame goes on being true of it.                       *)

Stable ==
    /\ rpcOf' = rpcOf
    /\ \A c \in Calls : Made(c) => Made(c)' /\ seqOf'[c] = seqOf[c]
    /\ \A c \in Calls : executed[c] > 0 => executed'[c] > 0

LEMMA StableFrames ==
    ASSUME Stable
    PROVE  /\ \A p \in Packet \cup {NoFrame} : GoodRequest(p) => GoodRequest(p)'
           /\ \A f \in ServerFrame : GoodAnswer(f) => GoodAnswer(f)'
<1>1. ASSUME NEW p \in Packet, GoodRequest(p) PROVE GoodRequest(p)'
  BY <1>1 DEF Stable, GoodRequest, Request
<1>2. GoodRequest(NoFrame)'
  BY WireAssumption DEF GoodRequest
<1>3. ASSUME NEW f \in ServerFrame, GoodAnswer(f) PROVE GoodAnswer(f)'
  BY <1>3 DEF Stable, GoodAnswer, ServerFrame
<1> QED
  BY <1>1, <1>2, <1>3

\* A step that leaves the frames alone, or takes some away, keeps them good.
LEMMA FramesStayGood ==
    ASSUME TypeOK, RequestsGood, AnswersGood, Stable, UNCHANGED <<pkt, tx>>
    PROVE  /\ c2s' \subseteq c2s => RequestsGood'
           /\ s2c' \subseteq s2c => AnswersGood'
<1>1. c2s \subseteq Packet /\ s2c \subseteq ServerFrame /\ pkt \in Packet \cup {NoFrame}
  BY DEF TypeOK, WireTypeOK, ServerTypeOK, HandleTypeOK
<1>2. tx.frame \in ServerFrame \cup {NoFrame}
  BY TxFrame DEF TypeOK, ServerTypeOK
<1>3. ASSUME c2s' \subseteq c2s PROVE RequestsGood'
  <2>1. GoodRequest(pkt)'
    BY <1>1, StableFrames DEF RequestsGood, GoodRequest
  <2>2. \A p \in c2s' : GoodRequest(p)'
    BY <1>1, <1>3, StableFrames DEF RequestsGood
  <2> QED
    BY <2>1, <2>2 DEF RequestsGood
<1>4. ASSUME s2c' \subseteq s2c PROVE AnswersGood'
  <2>1. tx.frame # NoFrame => GoodAnswer(tx.frame)'
    BY <1>2, StableFrames DEF AnswersGood, GoodAnswer
  <2>2. \A f \in s2c' : GoodAnswer(f)'
    BY <1>1, <1>4, StableFrames DEF AnswersGood
  <2> QED
    BY <2>1, <2>2 DEF AnswersGood
<1> QED
  BY <1>3, <1>4

-----------------------------------------------------------------------------
(* The client.                                                             *)

\* During a lap a fresh sequence id is greater than all before.
LEMMA FreshSeq ==
    ASSUME TypeOK, NEW c \in Calls, BuildFrame(c), OneLap
    PROVE  seqId' \in Seqs /\ seqId' > seqId
<1>1. SeqSpace \in Nat /\ SeqSpace >= 2
  BY WireAssumption
<1>2. seqId \in 0 .. SeqSpace - 1 /\ seqId' = (seqId + 1) % SeqSpace /\ seqId' >= seqId
  BY DEF TypeOK, ClientTypeOK, Seqs, BuildFrame, GetNextSeqId, OneLap
<1>3. CASE seqId + 1 = SeqSpace
  <2>1. seqId' = 0
    BY <1>1, <1>2, <1>3
  <2> QED
    BY <1>1, <1>2, <1>3, <2>1
<1>4. CASE seqId + 1 < SeqSpace
  BY <1>1, <1>2, <1>4 DEF Seqs
<1> QED
  BY <1>1, <1>2, <1>3, <1>4

LEMMA SendKeepsIInv ==
    ASSUME IInv, NEW c \in Calls, SendRequest(c) \/ SendFrame(c), OneLap,
           UNCHANGED serverVars
    PROVE  IInv'
<1> USE DEF IInv
<1>1. BuildFrame(c) /\ UNCHANGED <<rpcOf, answer, s2c, dups>>
  BY DEF SendRequest, SendFrame
<1>2. seqId' \in Seqs /\ seqId' > seqId /\ seqId \in Int /\ seqId' \in Int
  BY <1>1, FreshSeq, WireAssumption DEF TypeOK, ClientTypeOK, Seqs
<1>3. /\ state[c] = "idle" /\ seqOf' = [seqOf EXCEPT ![c] = seqId']
      /\ \E made \in {"waiting", "rejected", "sent"} : state' = [state EXCEPT ![c] = made]
      /\ UNCHANGED <<executed, pkt, tx, bytesWritten, txSize, ret, status, loop>>
  BY <1>1 DEF SendRequest, SendFrame, BuildFrame, serverVars, txn
<1>4. c2s' = c2s \/ Transmit(c)
  BY DEF SendRequest, SendFrame
<1>5. ASSUME NEW p \in c2s', p \notin c2s
      PROVE  p \in Request /\ p.call = c /\ p.seq = seqId' /\ p.rpc = rpcOf[c]
  BY <1>2, <1>4, <1>5 DEF Transmit, Request, TypeOK, ClientTypeOK
<1>6. TypeOK'
  <2>1. WireTypeOK'
    BY <1>1, <1>5 DEF TypeOK, WireTypeOK, Packet
  <2>2. pending' \in [Seqs -> Calls \cup {NoCall}] /\ timer' \in [Calls -> BOOLEAN]
    BY <1>2 DEF TypeOK, ClientTypeOK, SendRequest, SendFrame
  <2>3. ClientTypeOK'
    BY <1>1, <1>2, <1>3, <2>2 DEF TypeOK, ClientTypeOK, States
  <2> QED
    BY <1>3, <2>1, <2>3 DEF TypeOK, ServerTypeOK, HandleTypeOK
<1>7. Stable
  BY <1>1, <1>3 DEF Stable, Made, TypeOK, ClientTypeOK
<1>8. AnswersGood'
  BY <1>1, <1>3, <1>7, FramesStayGood
<1>9. RequestsGood'
  <2>1. GoodRequest(pkt)'
    <3>1. pkt \in Packet \cup {NoFrame}
      BY DEF TypeOK, ServerTypeOK, HandleTypeOK
    <3> QED
      BY <1>3, <1>7, <3>1, StableFrames DEF RequestsGood, GoodRequest
  <2>2. ASSUME NEW p \in c2s' PROVE GoodRequest(p)'
    <3>1. CASE p \in c2s
      BY <1>7, <3>1, StableFrames DEF RequestsGood, TypeOK, WireTypeOK
    <3>2. CASE p \notin c2s
      BY <1>1, <1>3, <1>5, <3>2 DEF GoodRequest, Made, TypeOK, ClientTypeOK
    <3> QED
      BY <3>1, <3>2
  <2> QED
    BY <2>1, <2>2 DEF RequestsGood
<1>10. OwnSeqs'
  <2>1. \A d \in Calls : seqOf[d] \in Int
    BY WireAssumption DEF TypeOK, ClientTypeOK, Seqs
  <2> QED
    BY <1>2, <1>3, <2>1, WireAssumption DEF OwnSeqs, Made, TypeOK, ClientTypeOK, Seqs
<1>11. TimersOfMade' /\ RunsOfMade' /\ ReplyIsThere' /\ AnsweredIsOver'
  BY <1>1, <1>3
  DEF TimersOfMade, RunsOfMade, ReplyIsThere, AnsweredIsOver, Made, TypeOK, ClientTypeOK,
      SendRequest, SendFrame
<1>12. Correlated'
  BY <1>1, <1>3 DEF Correlated, AnsweredIsOver, TypeOK, ClientTypeOK
<1>13. \A d \in Calls : Made(d) => seqOf[d] # seqId'
  BY <1>2, WireAssumption DEF OwnSeqs, TypeOK, ClientTypeOK, Seqs
<1>14. OwnEntries'
  BY <1>2, <1>3, <1>13, WireAssumption
  DEF OwnEntries, Made, TypeOK, ClientTypeOK, SendRequest, SendFrame
<1>15. WaitingHasEntry'
  BY <1>2, <1>3, <1>13
  DEF WaitingHasEntry, Made, TypeOK, ClientTypeOK, SendRequest, SendFrame
<1> QED
  BY <1>6, <1>8, <1>9, <1>10, <1>11, <1>12, <1>14, <1>15

LEMMA TimeoutKeepsIInv ==
    ASSUME IInv, NEW c \in Calls, Timeout(c), UNCHANGED serverVars
    PROVE  IInv'
<1> USE DEF IInv
<1>1. UNCHANGED <<seqId, seqOf, rpcOf, c2s, s2c, dups, executed, pkt, tx,
                  bytesWritten, txSize, ret, status, loop>>
  BY DEF Timeout, wire, serverVars, txn
<1>2. /\ \/ UNCHANGED <<state, answer>>
         \/ /\ state[c] = "waiting"
            /\ state' = [state EXCEPT ![c] = "rejected"]
            /\ answer' = [answer EXCEPT ![c] = NoFrame]
      /\ pending' = [pending EXCEPT ![seqOf[c]] = NoCall]
      /\ timer' = [timer EXCEPT ![c] = FALSE]
      /\ timer[c]
      /\ state'[c] # "waiting"
  BY DEF Timeout, Settle, TypeOK, ClientTypeOK
<1>3. TypeOK'
  BY <1>1, <1>2
  DEF TypeOK, WireTypeOK, ClientTypeOK, ServerTypeOK, HandleTypeOK, States
<1>4. Stable
  BY <1>1, <1>2 DEF Stable, Made, TypeOK, ClientTypeOK
<1>5. RequestsGood' /\ AnswersGood'
  BY <1>1, <1>4, FramesStayGood
<1>6. OwnSeqs' /\ TimersOfMade' /\ RunsOfMade' /\ ReplyIsThere' /\ AnsweredIsOver'
  BY <1>1, <1>2
  DEF OwnSeqs, TimersOfMade, RunsOfMade, ReplyIsThere, AnsweredIsOver, Made, TypeOK, ClientTypeOK
<1>7. Correlated'
  BY <1>1, <1>2, WireAssumption DEF Correlated, AnsweredIsOver, TypeOK, ClientTypeOK
<1>8. OwnEntries'
  BY <1>1, <1>2 DEF OwnEntries, Made, TypeOK, ClientTypeOK
<1>9. WaitingHasEntry'
  BY <1>1, <1>2 DEF WaitingHasEntry, OwnSeqs, TimersOfMade, Made, TypeOK, ClientTypeOK
<1> QED
  BY <1>3, <1>5, <1>6, <1>7, <1>8, <1>9
\* The server leaves pending[0] alone: a frame dispatched to a call answers it.
LEMMA DispatchedAnswersOwner ==
    ASSUME IInv, NEW f \in s2c, pending[f.seq] # NoCall
    PROVE  f \in ServerFrame /\ f.call = pending[f.seq] /\ f.call \in Calls
<1>1. f \in ServerFrame /\ f.seq \in Seqs /\ GoodAnswer(f)
  BY DEF IInv, TypeOK, WireTypeOK, AnswersGood, ServerFrame
<1>2. pending[f.seq] \in Calls /\ Made(pending[f.seq]) /\ seqOf[pending[f.seq]] = f.seq
  BY <1>1 DEF IInv, TypeOK, ClientTypeOK, OwnEntries
<1>3. f.call # NoCall
  BY <1>1, <1>2, WireAssumption
  DEF IInv, TypeOK, ClientTypeOK, OwnSeqs, GoodAnswer, Seqs
<1>4. f.call \in Calls /\ Made(f.call) /\ seqOf[f.call] = f.seq
  BY <1>1, <1>3 DEF GoodAnswer, ServerFrame
<1> QED
  BY <1>1, <1>2, <1>4 DEF IInv, OwnSeqs

LEMMA DispatchKeepsIInv ==
    ASSUME IInv, Dispatch, UNCHANGED serverVars
    PROVE  IInv'
<1> USE DEF IInv
<1>1. UNCHANGED <<seqId, seqOf, rpcOf, c2s, executed, pkt, tx, bytesWritten, txSize, ret, status, loop>>
  BY DEF Dispatch, serverVars, txn
<1>2. PICK f \in s2c : /\ Take(f, s2c, s2c')
                       /\ DispatchPending(f) \/ DispatchNotification(f)
  BY DEF Dispatch
<1>3. s2c' \subseteq s2c /\ dups' \in 0 .. MaxDups
  BY <1>2, WireAssumption DEF Take, TypeOK, WireTypeOK
<1>4. CASE DispatchPending(f)
  <2> DEFINE c == pending[f.seq]
             outcome == IF f.rpc = SysError THEN "rejected" ELSE "resolved"
  <2>1. f \in ServerFrame /\ f.call = c /\ c \in Calls /\ f.seq \in Seqs
    BY <1>4, DispatchedAnswersOwner DEF DispatchPending, ServerFrame
  <2>2. Made(c) /\ seqOf[c] = f.seq /\ GoodAnswer(f)
    BY <2>1, WireAssumption DEF OwnEntries, AnswersGood
  <2>3. /\ \/ UNCHANGED <<state, answer>> /\ state[c] # "waiting"
           \/ /\ state[c] = "waiting"
              /\ state' = [state EXCEPT ![c] = outcome]
              /\ answer' = [answer EXCEPT ![c] = f]
        /\ pending' = [pending EXCEPT ![f.seq] = NoCall]
        /\ timer' = [timer EXCEPT ![c] = FALSE]
    BY <1>4 DEF DispatchPending, Settle
  <2> HIDE DEF c
  <2>4. TypeOK'
    BY <1>1, <1>3, <2>1, <2>3
    DEF TypeOK, WireTypeOK, ClientTypeOK, ServerTypeOK, HandleTypeOK, States
  <2>5. Stable
    BY <1>1, <2>1, <2>3 DEF Stable, Made, TypeOK, ClientTypeOK
  <2>6. RequestsGood' /\ AnswersGood'
    BY <1>1, <1>3, <2>5, FramesStayGood
  <2>7. OwnSeqs' /\ TimersOfMade' /\ RunsOfMade' /\ ReplyIsThere' /\ AnsweredIsOver'
    BY <1>1, <2>1, <2>3
    DEF OwnSeqs, TimersOfMade, RunsOfMade, ReplyIsThere, AnsweredIsOver, Made, TypeOK, ClientTypeOK
  <2>8. f.call # NoCall /\ SysError \notin Methods
    BY <2>1, WireAssumption, RpcIdAssumption
  <2>9. Correlated'
    BY <1>1, <2>1, <2>2, <2>3, <2>8
    DEF Correlated, AnsweredIsOver, GoodAnswer, TypeOK, ClientTypeOK
  <2>10. OwnEntries'
    BY <1>1, <2>1, <2>3 DEF OwnEntries, Made, TypeOK, ClientTypeOK
  <2>11. WaitingHasEntry'
    BY <1>1, <2>1, <2>2, <2>3 DEF WaitingHasEntry, OwnSeqs, Made, TypeOK, ClientTypeOK
  <2> QED
    BY <2>4, <2>6, <2>7, <2>9, <2>10, <2>11
<1>5. CASE DispatchNotification(f)
  <2>1. UNCHANGED <<pending, timer, state, answer>>
    BY <1>5 DEF DispatchNotification
  <2>2. TypeOK' /\ Stable
    BY <1>1, <1>3, <2>1
    DEF TypeOK, WireTypeOK, ClientTypeOK, ServerTypeOK, HandleTypeOK, Stable, Made
  <2>3. RequestsGood' /\ AnswersGood'
    BY <1>1, <1>3, <2>2, FramesStayGood
  <2> QED
    BY <1>1, <2>1, <2>2, <2>3
    DEF OwnSeqs, OwnEntries, TimersOfMade, RunsOfMade, ReplyIsThere, AnsweredIsOver,
        Correlated, WaitingHasEntry, Made
<1> QED
  BY <1>2, <1>4, <1>5

LEMMA ResetKeepsIInv ==
    ASSUME IInv, ResetAccumulator, UNCHANGED serverVars
    PROVE  IInv'
<1> USE DEF IInv
<1>1. UNCHANGED <<seqId, seqOf, rpcOf, answer, c2s, s2c, dups, executed, pkt, tx,
                  bytesWritten, txSize, ret, status, loop>>
  BY DEF ResetAccumulator, wire, serverVars, txn
<1>2. /\ pending' = [s \in Seqs |-> NoCall]
      /\ timer' \in [Calls -> BOOLEAN] /\ \A c \in Calls : timer'[c] => timer[c]
      /\ state' \in [Calls -> States]
      /\ \A c \in Calls : \/ state'[c] = state[c]
                          \/ state[c] = "waiting" /\ state'[c] = "rejected"
  <2>1. pending' = [s \in Seqs |-> NoCall]
    BY DEF ResetAccumulator
  <2>2. timer' \in [Calls -> BOOLEAN] /\ \A c \in Calls : timer'[c] => timer[c]
    BY DEF ResetAccumulator
  <2>3. /\ state' \in [Calls -> States]
        /\ \A c \in Calls : \/ state'[c] = state[c]
                            \/ state[c] = "waiting" /\ state'[c] = "rejected"
    BY DEF ResetAccumulator, TypeOK, ClientTypeOK, States
  <2> QED
    BY <2>1, <2>2, <2>3
<1>3. ASSUME NEW c \in Calls PROVE state'[c] # "waiting"
  <2>1. CASE state[c] = "waiting"
    <3>1. seqOf[c] \in Seqs /\ pending[seqOf[c]] = c /\ c # NoCall
      BY <2>1, WireAssumption DEF WaitingHasEntry, TypeOK, ClientTypeOK
    <3>2. c \in {pending[s] : s \in Seqs} \ {NoCall}
      BY <3>1
    <3> QED
      BY <2>1, <3>2 DEF ResetAccumulator
  <2>2. CASE state[c] # "waiting"
    BY <1>2, <2>2
  <2> QED
    BY <2>1, <2>2
<1>4. TypeOK'
  BY <1>1, <1>2 DEF TypeOK, WireTypeOK, ClientTypeOK, ServerTypeOK, HandleTypeOK
<1>5. Stable
  BY <1>1, <1>2 DEF Stable, Made, TypeOK, ClientTypeOK
<1>6. RequestsGood' /\ AnswersGood'
  BY <1>1, <1>5, FramesStayGood
<1>7. OwnSeqs' /\ TimersOfMade' /\ RunsOfMade' /\ ReplyIsThere' /\ AnsweredIsOver'
  BY <1>1, <1>2
  DEF OwnSeqs, TimersOfMade, RunsOfMade, ReplyIsThere, AnsweredIsOver, Made
<1>8. Correlated'
  BY <1>1, <1>2 DEF Correlated, AnsweredIsOver
<1>9. OwnEntries' /\ WaitingHasEntry'
  BY <1>2, <1>3 DEF OwnEntries, WaitingHasEntry
<1> QED
  BY <1>4, <1>6, <1>7, <1>8, <1>9

-----------------------------------------------------------------------------
(* The network and the server.                                             *)

\* A request that a truncation cut is still the request of its call.
LEMMA TruncateKeepsRequests ==
    ASSUME TypeOK, RequestsGood, Truncate
    PROVE  c2s' \subseteq Packet /\ \A p \in c2s' : GoodRequest(p)
<1>1. PICK p \in c2s \ {Runt} : \E cut \in {Runt, [p EXCEPT !.body = "cut"]} :
          c2s' = (c2s \ {p}) \cup {cut}
  BY DEF Truncate
<1>2. PICK cut \in {Runt, [p EXCEPT !.body = "cut"]} : c2s' = (c2s \ {p}) \cup {cut}
  BY <1>1
<1>3. p \in Request /\ GoodRequest(p)
  BY DEF TypeOK, WireTypeOK, Packet, RequestsGood
<1>4. cut \in Packet /\ GoodRequest(cut)
  <2>1. CASE cut = Runt
    BY <2>1, WireAssumption DEF Packet, GoodRequest
  <2>2. CASE cut = [p EXCEPT !.body = "cut"]
    BY <1>3, <2>2 DEF Packet, Request, GoodRequest
  <2> QED
    BY <2>1, <2>2
<1> QED
  BY <1>4, <1>2 DEF RequestsGood, TypeOK, WireTypeOK

LEMMA NetworkKeepsIInv ==
    ASSUME IInv, Network, UNCHANGED <<clientVars, serverVars>>
    PROVE  IInv'
<1> USE DEF IInv
<1>1. UNCHANGED <<seqId, pending, state, seqOf, rpcOf, timer, answer, executed, pkt, tx,
                  bytesWritten, txSize, ret, status, loop>>
  BY DEF clientVars, serverVars, txn
<1>2. UNCHANGED dups /\ s2c' \subseteq s2c
  BY DEF Network, LoseRequest, LoseAnswer, Truncate
<1>3. c2s' \subseteq Packet /\ \A p \in c2s' : GoodRequest(p)
  BY TruncateKeepsRequests DEF Network, LoseRequest, LoseAnswer, TypeOK, WireTypeOK, RequestsGood
<1>4. TypeOK' /\ Stable
  BY <1>1, <1>2, <1>3
  DEF TypeOK, WireTypeOK, ClientTypeOK, ServerTypeOK, HandleTypeOK, Stable, Made
<1>5. AnswersGood'
  BY <1>1, <1>2, <1>4, FramesStayGood
<1>6. RequestsGood'
  <2>1. GoodRequest(pkt)'
    BY <1>1 DEF RequestsGood, GoodRequest, Made
  <2>2. ASSUME NEW p \in c2s' PROVE GoodRequest(p)'
    BY <1>1, <1>3, <2>2 DEF GoodRequest, Made
  <2> QED
    BY <2>1, <2>2 DEF RequestsGood
<1> QED
  BY <1>1, <1>4, <1>5, <1>6
  DEF OwnSeqs, OwnEntries, TimersOfMade, RunsOfMade, ReplyIsThere, AnsweredIsOver,
      Correlated, WaitingHasEntry, Made
LEMMA ReceiveKeepsIInv ==
    ASSUME IInv, Receive, UNCHANGED clientVars
    PROVE  IInv'
<1> USE DEF IInv
<1>1. UNCHANGED <<seqId, pending, state, seqOf, rpcOf, timer, answer, s2c>> /\ loop' = "reply"
  BY DEF Receive, clientVars
<1>2. PICK p \in c2s : Take(p, c2s, c2s') /\ Handle(p)
  BY DEF Receive
<1>3. c2s' \subseteq c2s /\ dups' \in 0 .. MaxDups /\ p \in Packet /\ GoodRequest(p)
  BY <1>2, WireAssumption DEF Take, TypeOK, WireTypeOK, RequestsGood
<1>4. Effect(p)
  BY <1>2, <1>3, HandleEffect DEF TypeOK, ServerTypeOK
<1>5. TypeOK'
  BY <1>1, <1>3, <1>4 DEF Effect, TypeOK, WireTypeOK, ClientTypeOK, ServerTypeOK
<1>6. \A c \in Calls :
        /\ executed[c] > 0 => executed'[c] > 0
        /\ executed'[c] > 0 => \/ executed[c] > 0
                               \/ p \in Request /\ c = p.call
  BY <1>4 DEF Effect, TypeOK, ServerTypeOK, HandleTypeOK, Request
<1>7. Stable
  BY <1>1, <1>6 DEF Stable, Made
<1>8. RequestsGood'
  <2>1. GoodRequest(pkt)'
    BY <1>3, <1>4, <1>7, StableFrames DEF Effect, GoodRequest
  <2>2. \A q \in c2s' : GoodRequest(q)'
    BY <1>3, <1>7, StableFrames DEF RequestsGood, TypeOK, WireTypeOK
  <2> QED
    BY <2>1, <2>2 DEF RequestsGood
<1>9. AnswersGood'
  <2>1. \A f \in s2c' : GoodAnswer(f)'
    BY <1>1, <1>7, StableFrames DEF AnswersGood, TypeOK, WireTypeOK
  <2>2. CASE tx' = tx
    <3>1. tx.frame \in ServerFrame \cup {NoFrame}
      BY TxFrame DEF TypeOK, ServerTypeOK
    <3>2. tx.frame # NoFrame => GoodAnswer(tx.frame)'
      BY <1>7, <3>1, <2>2, StableFrames DEF AnswersGood, GoodAnswer
    <3> QED
      BY <2>1, <2>2, <3>2 DEF AnswersGood
  <2>3. CASE tx' # tx
    <3>1. /\ p \in Request /\ tx'.frame \in ServerFrame
          /\ tx'.frame.call = p.call /\ tx'.frame.seq = p.seq
          /\ \/ tx'.frame.rpc = SysError
             \/ /\ tx'.frame.rpc = p.rpc /\ p.rpc \notin RequestOnly
                /\ executed' = [executed EXCEPT ![p.call] = @ + 1]
      BY <1>4, <2>3 DEF Effect, Writes, Frames
    <3>2. Made(p.call) /\ p.seq = seqOf[p.call] /\ p.rpc = rpcOf[p.call] /\ p.call \in Calls
      BY <1>3, <3>1 DEF GoodRequest, Request
    <3>3. tx'.frame.rpc # SysError => executed'[p.call] > 0
      BY <3>1, <3>2 DEF TypeOK, ServerTypeOK, HandleTypeOK
    <3>4. p.call # NoCall
      BY <3>2, WireAssumption
    <3>5. GoodAnswer(tx.frame)'
      BY <1>1, <3>1, <3>2, <3>3, <3>4 DEF GoodAnswer, Made
    <3> QED
      BY <2>1, <3>5 DEF AnswersGood
  <2> QED
    BY <2>2, <2>3
<1>10. RunsOfMade'
  BY <1>1, <1>3, <1>6 DEF RunsOfMade, GoodRequest, Made
<1>11. ReplyIsThere'
  <2>1. ret' = 0 /\ bytesWritten' > 0 => Writes(p)
    BY <1>4 DEF Effect
  <2> QED
    BY <2>1, WireAssumption DEF Writes, Frames, ReplyIsThere
<1>12. Correlated'
  BY <1>1, <1>6 DEF Correlated
<1> QED
  BY <1>1, <1>5, <1>8, <1>9, <1>10, <1>11, <1>12
  DEF OwnSeqs, OwnEntries, TimersOfMade, AnsweredIsOver, WaitingHasEntry, Made

LEMMA ReplyKeepsIInv ==
    ASSUME IInv, Reply, UNCHANGED clientVars
    PROVE  IInv'
<1> USE DEF IInv
<1>1. /\ UNCHANGED <<seqId, pending, state, seqOf, rpcOf, timer, answer, c2s, dups,
                     executed, pkt, tx, bytesWritten, txSize, ret, status>>
      /\ loop' \in {"push", "recv"}
  BY DEF Reply, clientVars, txn
<1>2. \/ s2c' = s2c
      \/ s2c' = s2c \cup {tx.frame} /\ tx.frame # NoFrame
  BY DEF Reply, Send, ReplyIsThere
<1>3. TypeOK'
  BY <1>1, <1>2, TxFrame
  DEF TypeOK, WireTypeOK, ClientTypeOK, ServerTypeOK, HandleTypeOK
<1>4. Stable
  BY <1>1 DEF Stable, Made
<1>5. RequestsGood'
  BY <1>1, <1>4, FramesStayGood
<1>6. AnswersGood'
  <2>1. \A f \in s2c' : f \in ServerFrame /\ GoodAnswer(f)
    BY <1>2, <1>3 DEF AnswersGood, TypeOK, WireTypeOK
  <2>2. \A f \in s2c' : GoodAnswer(f)'
    BY <1>4, <2>1, StableFrames
  <2>3. tx'.frame # NoFrame => GoodAnswer(tx.frame)'
    BY <1>1 DEF AnswersGood, GoodAnswer, Made
  <2> QED
    BY <1>1, <2>2, <2>3 DEF AnswersGood
<1> QED
  BY <1>1, <1>3, <1>5, <1>6
  DEF OwnSeqs, OwnEntries, TimersOfMade, RunsOfMade, ReplyIsThere, AnsweredIsOver,
      Correlated, WaitingHasEntry, Made

LEMMA PushKeepsIInv ==
    ASSUME IInv, Push, UNCHANGED clientVars
    PROVE  IInv'
<1> USE DEF IInv
<1>1. /\ UNCHANGED <<seqId, pending, state, seqOf, rpcOf, timer, answer, c2s, dups,
                     executed, pkt, txSize, status>>
      /\ loop' = "recv"
  BY DEF Push, Notify, NotifyFails, clientVars
<1>2. Stable
  BY <1>1 DEF Stable, Made
<1>3. \A f \in s2c : f \in ServerFrame /\ GoodAnswer(f)'
  BY <1>2, StableFrames DEF AnswersGood, TypeOK, WireTypeOK
<1>4. ASSUME NEW e \in Events, Notify(e)
      PROVE  /\ tx' \in [frame : ServerFrame, len : Nat] /\ bytesWritten' \in Nat /\ ret' = 0
             /\ s2c' = s2c \cup {tx'.frame} /\ GoodAnswer(tx.frame)'
  <2> DEFINE frame == [rpc |-> e, seq |-> 0, code |-> 0, call |-> NoCall]
  <2>1. PICK len \in PayloadLens : Write(frame, len) /\ Send(tx'.frame)
    BY <1>4 DEF Notify
  <2>2. len \in Nat /\ 0 \in Seqs
    BY HandleAssumption, WireAssumption DEF Seqs
  <2>3. frame \in ServerFrame
    BY <2>2, CodesInWire DEF ServerFrame
  <2> QED
    BY <2>1, <2>2, <2>3 DEF Write, Send, HeaderLen, GoodAnswer
<1>5. /\ tx' \in [frame : ServerFrame, len : Nat] \cup {Blank}
      /\ bytesWritten' \in Nat /\ ret' \in {0, -1}
      /\ s2c' \subseteq s2c \cup {tx'.frame} /\ NoFrame \notin s2c'
      /\ tx'.frame # NoFrame => tx'.frame \in ServerFrame /\ GoodAnswer(tx.frame)'
  <2>1. NoFrame \notin ServerFrame
    BY WireAssumption
  <2>2. CASE \E e \in Events : Notify(e)
    BY <1>3, <1>4, <2>1, <2>2
  <2>3. CASE NotifyFails
    BY <1>3, <2>1, <2>3 DEF NotifyFails, Blank
  <2> QED
    BY <2>2, <2>3 DEF Push
<1>6. TypeOK'
  BY <1>1, <1>3, <1>5 DEF TypeOK, WireTypeOK, ClientTypeOK, ServerTypeOK, HandleTypeOK
<1>7. AnswersGood'
  <2>1. ASSUME NEW f \in s2c' PROVE GoodAnswer(f)'
    <3>1. CASE f \in s2c
      BY <1>3, <3>1
    <3>2. CASE f = tx'.frame
      BY <1>5, <3>2 DEF GoodAnswer, Made
    <3> QED
      BY <1>5, <3>1, <3>2
  <2> QED
    BY <1>5, <2>1 DEF AnswersGood
<1>8. RequestsGood'
  BY <1>1 DEF RequestsGood, GoodRequest, Made
<1> QED
  BY <1>1, <1>6, <1>7, <1>8
  DEF OwnSeqs, OwnEntries, TimersOfMade, RunsOfMade, ReplyIsThere, AnsweredIsOver,
      Correlated, WaitingHasEntry, Made

-----------------------------------------------------------------------------
(* The inductive invariant.                                                *)

LEMMA InitIInv == Init => IInv
<1> SUFFICES ASSUME Init PROVE IInv
  OBVIOUS
<1>1. 0 \in Seqs /\ 0 \in 0 .. MaxDups /\ NoFrame \notin Request
  BY WireAssumption DEF Seqs
<1>2. TypeOK
  BY <1>1 DEF Init, WireInit, ClientInit, ServerInit, HandleInit, TypeOK, WireTypeOK,
      ClientTypeOK, ServerTypeOK, HandleTypeOK, States, Blank
<1> QED
  BY <1>1, <1>2
  DEF Init, WireInit, ClientInit, ServerInit, HandleInit, IInv, OwnSeqs, OwnEntries,
      TimersOfMade, RunsOfMade, RequestsGood, GoodRequest, AnswersGood, ReplyIsThere,
      AnsweredIsOver, Correlated, WaitingHasEntry, Made, Blank

LEMMA NextIInv == IInv /\ [Next /\ OneLap]_vars => IInv'
<1> SUFFICES ASSUME IInv, [Next /\ OneLap]_vars PROVE IInv'
  OBVIOUS
<1>1. CASE Client /\ OneLap /\ UNCHANGED serverVars
  BY <1>1, SendKeepsIInv, TimeoutKeepsIInv, DispatchKeepsIInv, ResetKeepsIInv DEF Client
<1>2. CASE Server /\ UNCHANGED clientVars
  BY <1>2, ReceiveKeepsIInv, ReplyKeepsIInv, PushKeepsIInv DEF Server
<1>3. CASE Network /\ UNCHANGED <<clientVars, serverVars>>
  BY <1>3, NetworkKeepsIInv
<1>4. CASE UNCHANGED vars
  BY <1>4
  DEF vars, wire, clientVars, serverVars, txn, IInv, TypeOK, WireTypeOK, ClientTypeOK,
      ServerTypeOK, HandleTypeOK, OwnSeqs, OwnEntries, TimersOfMade, RunsOfMade,
      RequestsGood, GoodRequest, AnswersGood, GoodAnswer, ReplyIsThere, AnsweredIsOver,
      Correlated, WaitingHasEntry, Made
<1> QED
  BY <1>1, <1>2, <1>3, <1>4 DEF Next

LEMMA Inductive == LapSpec => []IInv
BY InitIInv, NextIInv, PTL DEF LapSpec

\* Type correctness of client, network and server together.
THEOREM TypeCorrect == LapSpec => []TypeOK
BY Inductive, PTL DEF IInv

\* A promise is settled only by the frame that answers its own request, and
\* resolved only after the server ran the callback: matching by sequence id
\* alone is enough until the 16-bit counter wraps.
THEOREM PromisesCorrelate == LapSpec => []Correlated
BY Inductive, PTL DEF IInv

\* A call that is waited for keeps its entry in the pending map.
THEOREM WaitingIsPending == LapSpec => []WaitingHasEntry
BY Inductive, PTL DEF IInv

\* A timer that runs is that of the call whose entry stands under its sequence id.
THEOREM TimersAreTheirs == LapSpec => []TimerHasEntry
<1>1. Init => TimerHasEntry
  BY DEF Init, ClientInit, TimerHasEntry
<1>2. IInv /\ TimerHasEntry /\ [Next /\ OneLap]_vars => TimerHasEntry'
  <2> SUFFICES ASSUME IInv, TimerHasEntry, [Next /\ OneLap]_vars PROVE TimerHasEntry'
    OBVIOUS
  <2>1. ASSUME NEW c \in Calls, SendRequest(c) \/ SendFrame(c), OneLap PROVE TimerHasEntry'
    <3>1. BuildFrame(c)
      BY <2>1 DEF SendRequest, SendFrame
    <3>2. seqId' \in Seqs /\ seqId' > seqId /\ seqId \in Int /\ seqId' \in Int
      BY <2>1, <3>1, FreshSeq, WireAssumption DEF IInv, TypeOK, ClientTypeOK, Seqs
    <3>3. state[c] = "idle" /\ seqOf' = [seqOf EXCEPT ![c] = seqId']
      BY <3>1 DEF BuildFrame
    <3>4. \A d \in Calls : timer[d] => d # c /\ seqOf[d] # seqId'
      BY <3>2, <3>3, WireAssumption DEF IInv, TimersOfMade, Made, OwnSeqs, TypeOK, ClientTypeOK, Seqs
    <3> QED
      BY <2>1, <3>2, <3>3, <3>4
      DEF TimerHasEntry, IInv, TypeOK, ClientTypeOK, SendRequest, SendFrame
  <2>2. ASSUME NEW c \in Calls, Timeout(c) PROVE TimerHasEntry'
    BY <2>2 DEF Timeout, IInv, TimerHasEntry, TimersOfMade, OwnSeqs, TypeOK, ClientTypeOK
  <2>3. CASE Dispatch
    BY <2>3, DispatchedAnswersOwner
    DEF Dispatch, DispatchPending, DispatchNotification, IInv, TimerHasEntry, TypeOK, ClientTypeOK
  <2>4. CASE ResetAccumulator
    BY <2>4, WireAssumption DEF ResetAccumulator, IInv, TimerHasEntry, TypeOK, ClientTypeOK
  <2>5. CASE UNCHANGED clientVars
    BY <2>5 DEF clientVars, TimerHasEntry
  <2> QED
    BY <2>1, <2>2, <2>3, <2>4, <2>5 DEF Next, Client, vars
<1> QED
  BY <1>1, <1>2, Inductive, PTL DEF LapSpec

\* What the server sends is about the request it answers, whatever was lost,
\* duplicated, reordered or cut short before.
THEOREM ServerAnswersRequests == LapSpec => []AnswersTheRequest
<1>1. IInv => AnswersTheRequest
  BY DEF IInv, AnswersGood, GoodAnswer, Made, AnswersTheRequest
<1> QED
  BY <1>1, Inductive, PTL

-----------------------------------------------------------------------------
(* How often a callback runs.                                              *)

\* The requests of call c that are under way; a truncated one is still one.
RequestsOf(c) == {p \in c2s : p # Runt /\ p.call = c}

\* Each run of c's callback, and each request that may still cause one, stems
\* from the one request that c made or from a copy.
CopiesCounted ==
    \A c \in Calls : /\ IsFiniteSet(RequestsOf(c))
                     /\ executed[c] + Cardinality(RequestsOf(c)) <= 1 + dups

\* Losing requests, or copying answers, disturbs nothing.
LEMMA FewerRequests ==
    ASSUME TypeOK, CopiesCounted, executed' = executed, dups' \in Nat, dups <= dups',
           \A c \in Calls : RequestsOf(c)' \subseteq RequestsOf(c)
    PROVE  CopiesCounted'
<1> SUFFICES ASSUME NEW c \in Calls
             PROVE  /\ IsFiniteSet(RequestsOf(c)')
                    /\ executed'[c] + Cardinality(RequestsOf(c)') <= 1 + dups'
  BY DEF CopiesCounted
<1>1. IsFiniteSet(RequestsOf(c)) /\ executed[c] + Cardinality(RequestsOf(c)) <= 1 + dups
  BY DEF CopiesCounted
<1>2. /\ IsFiniteSet(RequestsOf(c)')
      /\ Cardinality(RequestsOf(c)') <= Cardinality(RequestsOf(c))
  BY <1>1, FS_Subset
<1>3. Cardinality(RequestsOf(c)) \in Nat /\ Cardinality(RequestsOf(c)') \in Nat
  BY <1>1, <1>2, FS_CardinalityType
<1>4. executed[c] \in Nat /\ dups \in Nat
  BY DEF TypeOK, WireTypeOK, ServerTypeOK, HandleTypeOK
<1> QED
  BY <1>1, <1>2, <1>3, <1>4

LEMMA SendKeepsCopies ==
    ASSUME IInv, CopiesCounted, NEW c \in Calls, SendRequest(c) \/ SendFrame(c),
           UNCHANGED serverVars
    PROVE  CopiesCounted'
<1> USE DEF IInv
<1>1. state[c] = "idle" /\ UNCHANGED <<executed, dups>> /\ (c2s' = c2s \/ Transmit(c))
  BY DEF SendRequest, SendFrame, BuildFrame, serverVars
<1>2. dups \in Nat
  BY DEF TypeOK, WireTypeOK
<1>3. CASE c2s' = c2s
  BY <1>1, <1>2, <1>3, FewerRequests DEF RequestsOf
<1>4. CASE Transmit(c)
  <2>1. PICK p : c2s' = c2s \cup {p} /\ p # Runt /\ p.call = c
    <3>1. PICK body \in {"good", "bad"} :
             c2s' = c2s \cup {[rpc |-> rpcOf[c], seq |-> seqId', body |-> body, call |-> c]}
      BY <1>4 DEF Transmit
    <3> DEFINE p == [rpc |-> rpcOf[c], seq |-> seqId', body |-> body, call |-> c]
    <3>2. seqId' \in Seqs
      BY WireAssumption
      DEF SendRequest, SendFrame, BuildFrame, GetNextSeqId, Seqs, TypeOK, ClientTypeOK
    <3>3. p \in Request
      BY <3>2 DEF Request, TypeOK, ClientTypeOK
    <3> QED
      BY <3>1, <3>3, WireAssumption
  <2> SUFFICES ASSUME NEW d \in Calls
               PROVE  /\ IsFiniteSet(RequestsOf(d)')
                      /\ executed'[d] + Cardinality(RequestsOf(d)') <= 1 + dups'
    BY DEF CopiesCounted
  <2>2. CASE d # c
    <3>1. RequestsOf(d)' = RequestsOf(d)
      BY <2>1, <2>2 DEF RequestsOf
    <3> QED
      BY <1>1, <3>1 DEF CopiesCounted
  <2>3. CASE d = c
    <3>1. RequestsOf(c) = {}
      BY <1>1 DEF RequestsOf, RequestsGood, GoodRequest, Made, TypeOK, WireTypeOK, Packet
    <3>2. RequestsOf(c)' = {p}
      BY <2>1, <3>1 DEF RequestsOf
    <3>3. executed[c] = 0
      BY <1>1 DEF RunsOfMade, Made, TypeOK, ServerTypeOK, HandleTypeOK
    <3>4. IsFiniteSet({p}) /\ Cardinality({p}) = 1
      BY FS_Singleton
    <3> QED
      BY <1>1, <1>2, <2>3, <3>2, <3>3, <3>4
  <2> QED
    BY <2>2, <2>3
<1> QED
  BY <1>1, <1>3, <1>4

LEMMA TruncateKeepsCopies ==
    ASSUME IInv, CopiesCounted, Truncate, UNCHANGED <<clientVars, serverVars>>
    PROVE  CopiesCounted'
<1> USE DEF IInv
<1>1. PICK p \in c2s \ {Runt} : \E cut \in {Runt, [p EXCEPT !.body = "cut"]} :
          c2s' = (c2s \ {p}) \cup {cut}
  BY DEF Truncate
<1>2. PICK cut \in {Runt, [p EXCEPT !.body = "cut"]} : c2s' = (c2s \ {p}) \cup {cut}
  BY <1>1
<1>3. p \in Request /\ (cut # Runt => cut.call = p.call)
  BY <1>2 DEF TypeOK, WireTypeOK, Packet, Request
<1>4. UNCHANGED <<executed, dups>>
  BY DEF Truncate, serverVars
<1> SUFFICES ASSUME NEW c \in Calls
             PROVE  /\ IsFiniteSet(RequestsOf(c)')
                    /\ executed'[c] + Cardinality(RequestsOf(c)') <= 1 + dups'
  BY DEF CopiesCounted
<1>5. IsFiniteSet(RequestsOf(c)) /\ executed[c] + Cardinality(RequestsOf(c)) <= 1 + dups
  BY DEF CopiesCounted
<1>6. /\ executed[c] \in Nat /\ dups \in Nat /\ Cardinality(RequestsOf(c)) \in Nat
  BY <1>5, FS_CardinalityType DEF TypeOK, WireTypeOK, ServerTypeOK, HandleTypeOK
<1>7. CASE RequestsOf(c)' = RequestsOf(c)
  BY <1>4, <1>5, <1>7
<1>8. CASE p.call = c
  <2> DEFINE rest == RequestsOf(c) \ {p}
  <2>1. p \in RequestsOf(c)
    BY <1>3, <1>8 DEF RequestsOf
  <2>2. IsFiniteSet(rest) /\ Cardinality(rest) = Cardinality(RequestsOf(c)) - 1
    BY <1>5, <2>1, FS_RemoveElement
  <2>3. RequestsOf(c)' \subseteq rest \cup {cut}
    BY <1>2 DEF RequestsOf
  <2>4. /\ IsFiniteSet(rest \cup {cut})
        /\ Cardinality(rest \cup {cut}) <= Cardinality(RequestsOf(c))
    <3>1. /\ IsFiniteSet(rest \cup {cut})
          /\ Cardinality(rest \cup {cut})
               = IF cut \in rest THEN Cardinality(rest) ELSE Cardinality(rest) + 1
      BY <2>2, FS_AddElement
    <3> QED
      BY <1>6, <2>2, <3>1
  <2>5. /\ IsFiniteSet(RequestsOf(c)')
        /\ Cardinality(RequestsOf(c)') <= Cardinality(rest \cup {cut})
    BY <2>3, <2>4, FS_Subset
  <2>6. Cardinality(RequestsOf(c)') \in Nat /\ Cardinality(rest \cup {cut}) \in Nat
    BY <2>4, <2>5, FS_CardinalityType
  <2> HIDE DEF rest
  <2> QED
    BY <1>4, <1>5, <1>6, <2>4, <2>5, <2>6
<1>9. p.call # c => RequestsOf(c)' = RequestsOf(c)
  BY <1>2, <1>3 DEF RequestsOf
<1> QED
  BY <1>7, <1>8, <1>9

\* A delivery that runs the callback takes the request away or is a copy's.
LEMMA ReceiveKeepsCopies ==
    ASSUME IInv, CopiesCounted, Receive
    PROVE  CopiesCounted'
<1> USE DEF IInv
<1>1. PICK p \in c2s : Take(p, c2s, c2s') /\ Handle(p)
  BY DEF Receive
<1>2. p \in Packet /\ Effect(p)
  BY <1>1, HandleEffect DEF TypeOK, WireTypeOK, ServerTypeOK
<1>3. \/ c2s' = c2s \ {p} /\ dups' = dups
      \/ c2s' = c2s /\ dups' = dups + 1
  BY <1>1 DEF Take
<1>4. dups \in Nat /\ dups' \in Nat
  BY <1>3 DEF TypeOK, WireTypeOK
<1>5. CASE executed' = executed
  BY <1>3, <1>4, <1>5, FewerRequests DEF RequestsOf
<1>6. CASE p \in Request /\ executed' = [executed EXCEPT ![p.call] = @ + 1]
  <2> SUFFICES ASSUME NEW c \in Calls
               PROVE  /\ IsFiniteSet(RequestsOf(c)')
                      /\ executed'[c] + Cardinality(RequestsOf(c)') <= 1 + dups'
    BY DEF CopiesCounted
  <2>1. IsFiniteSet(RequestsOf(c)) /\ executed[c] + Cardinality(RequestsOf(c)) <= 1 + dups
    BY DEF CopiesCounted
  <2>2. executed[c] \in Nat /\ Cardinality(RequestsOf(c)) \in Nat /\ p.call \in Calls
    BY <1>6, <2>1, FS_CardinalityType DEF TypeOK, ServerTypeOK, HandleTypeOK, Request
  <2>3. executed'[c] = IF c = p.call THEN executed[c] + 1 ELSE executed[c]
    BY <1>6, <2>2 DEF TypeOK, ServerTypeOK, HandleTypeOK
  <2>4. CASE c2s' = c2s /\ dups' = dups + 1
    BY <1>4, <2>1, <2>2, <2>3, <2>4 DEF RequestsOf
  <2>5. CASE c2s' = c2s \ {p} /\ dups' = dups
    <3>1. CASE c = p.call
      <4>1. p \in RequestsOf(c) /\ RequestsOf(c)' = RequestsOf(c) \ {p}
        BY <1>6, <2>5, <3>1, WireAssumption DEF RequestsOf
      <4>2. IsFiniteSet(RequestsOf(c)') /\ Cardinality(RequestsOf(c)') = Cardinality(RequestsOf(c)) - 1
        BY <2>1, <4>1, FS_RemoveElement
      <4> QED
        BY <1>4, <2>1, <2>2, <2>3, <2>5, <3>1, <4>2
    <3>2. CASE c # p.call
      <4>1. RequestsOf(c)' = RequestsOf(c)
        BY <2>5, <3>2 DEF RequestsOf
      <4> QED
        BY <2>1, <2>3, <2>5, <3>2, <4>1
    <3> QED
      BY <3>1, <3>2
  <2> QED
    BY <1>3, <2>4, <2>5
<1> QED
  BY <1>2, <1>5, <1>6 DEF Effect

LEMMA NextCopies == IInv /\ CopiesCounted /\ [Next /\ OneLap]_vars => CopiesCounted'
<1> SUFFICES ASSUME IInv, CopiesCounted, [Next /\ OneLap]_vars PROVE CopiesCounted'
  OBVIOUS
<1> USE DEF IInv
<1>1. ASSUME c2s' \subseteq c2s, executed' = executed, dups' \in Nat, dups <= dups'
      PROVE  CopiesCounted'
  BY <1>1, FewerRequests DEF RequestsOf
<1>2. dups \in Nat
  BY DEF TypeOK, WireTypeOK
<1>3. CASE Client /\ UNCHANGED serverVars
  <2>1. ASSUME NEW c \in Calls, SendRequest(c) \/ SendFrame(c) PROVE CopiesCounted'
    BY <1>3, <2>1, SendKeepsCopies
  <2>2. ASSUME NEW c \in Calls, Timeout(c) PROVE CopiesCounted'
    BY <1>1, <1>2, <1>3, <2>2 DEF Timeout, wire, serverVars
  <2>3. CASE Dispatch
    BY <1>1, <1>2, <1>3, <2>3 DEF Dispatch, Take, serverVars
  <2>4. CASE ResetAccumulator
    BY <1>1, <1>2, <1>3, <2>4 DEF ResetAccumulator, wire, serverVars
  <2> QED
    BY <1>3, <2>1, <2>2, <2>3, <2>4 DEF Client
<1>4. CASE Server /\ UNCHANGED clientVars
  BY <1>1, <1>2, <1>4, ReceiveKeepsCopies DEF Server, Reply, Push
<1>5. CASE Network /\ UNCHANGED <<clientVars, serverVars>>
  BY <1>1, <1>2, <1>5, TruncateKeepsCopies DEF Network, LoseRequest, LoseAnswer, serverVars
<1>6. CASE UNCHANGED vars
  BY <1>1, <1>2, <1>6 DEF vars, wire, serverVars
<1> QED
  BY <1>3, <1>4, <1>5, <1>6 DEF Next

LEMMA InitCopies == Init => CopiesCounted
<1> SUFFICES ASSUME Init PROVE CopiesCounted
  OBVIOUS
<1>1. \A c \in Calls : RequestsOf(c) = {} /\ executed[c] = 0
  BY DEF Init, WireInit, ServerInit, HandleInit, RequestsOf
<1> QED
  BY <1>1, FS_EmptySet DEF CopiesCounted, Init, WireInit

\* However many requests are lost, truncated and reordered, a callback runs
\* once, and once more for each copy the network made.
THEOREM RunsArePaidFor == LapSpec => []ExecutedPerCopy
<1>1. IInv /\ CopiesCounted => ExecutedPerCopy
  <2> SUFFICES ASSUME IInv, CopiesCounted, NEW c \in Calls PROVE executed[c] <= 1 + dups
    BY DEF ExecutedPerCopy
  <2>1. IsFiniteSet(RequestsOf(c)) /\ executed[c] + Cardinality(RequestsOf(c)) <= 1 + dups
    BY DEF CopiesCounted
  <2>2. Cardinality(RequestsOf(c)) \in Nat /\ executed[c] \in Nat /\ dups \in Nat
    BY <2>1, FS_CardinalityType DEF IInv, TypeOK, WireTypeOK, ServerTypeOK, HandleTypeOK
  <2> QED
    BY <2>1, <2>2
<1> QED
  BY <1>1, Inductive, InitCopies, NextCopies, PTL DEF LapSpec

-----------------------------------------------------------------------------
(* The system implements RpcContract during a lap: each step is a step of  *)
(* the contract or leaves its two variables alone.                         *)

\* The refinement mapping, as JsSystem gives it to the contract.
Outcome == [c \in Calls |-> CASE state[c] = "resolved" -> "ok"
                              [] state[c] = "rejected" -> "failed"
                              [] OTHER -> state[c]]

Ran == {c \in Calls : executed[c] > 0}

LEMMA ClientStateIsOutcome ==
    ASSUME TypeOK, NEW c \in Calls
    PROVE  /\ state[c] = "idle" <=> Outcome[c] = "idle"
           /\ state[c] = "waiting" <=> Outcome[c] = "waiting"
BY DEF TypeOK, ClientTypeOK, States, Outcome

\* A step that changes the state of one call changes its outcome accordingly.
LEMMA OutcomeOfOne ==
    ASSUME TypeOK, NEW c \in Calls, NEW v \in States, state' = [state EXCEPT ![c] = v]
    PROVE  Outcome' = [Outcome EXCEPT ![c] = CASE v = "resolved" -> "ok"
                                               [] v = "rejected" -> "failed"
                                               [] OTHER -> v]
BY DEF TypeOK, ClientTypeOK, Outcome

LEMMA SendMakes ==
    ASSUME TypeOK, NEW c \in Calls, SendRequest(c) \/ SendFrame(c), UNCHANGED serverVars
    PROVE  Contract!Make(c)
<1>1. PICK made \in {"waiting", "rejected", "sent"} : state' = [state EXCEPT ![c] = made]
  BY DEF SendRequest, SendFrame
<1>2. state[c] = "idle" /\ Ran' = Ran
  BY DEF SendRequest, SendFrame, BuildFrame, serverVars, Ran
<1>3. \E v \in {"waiting", "sent", "failed"} : Outcome' = [Outcome EXCEPT ![c] = v]
  BY <1>1, OutcomeOfOne DEF States
<1>4. Outcome[c] = "idle"
  BY <1>2, ClientStateIsOutcome
<1> QED
  BY <1>2, <1>3, <1>4 DEF Contract!Make, Outcome, Ran

\* A call that its timer or a frame ends.
LEMMA SettleEnds ==
    ASSUME TypeOK, NEW c \in Calls, NEW v \in {"resolved", "rejected"},
           state[c] = "waiting", state' = [state EXCEPT ![c] = v],
           v = "resolved" => executed[c] > 0, UNCHANGED executed
    PROVE  Contract!End(c)
<1>1. \E end \in {"ok", "failed"} :
        /\ end = "ok" => c \in Ran
        /\ Outcome' = [Outcome EXCEPT ![c] = end]
  BY OutcomeOfOne DEF States, Ran
<1>2. Outcome[c] = "waiting" /\ Ran' = Ran
  BY ClientStateIsOutcome DEF Ran
<1> QED
  BY <1>1, <1>2 DEF Contract!End, Outcome, Ran

LEMMA ResetEndsAll ==
    ASSUME TypeOK, ResetAccumulator, UNCHANGED serverVars
    PROVE  Contract!EndAll
<1> DEFINE failing == {c \in Calls : state[c] = "waiting" /\ state'[c] = "rejected"}
<1>1. Outcome' = [c \in Calls |-> IF c \in failing THEN "failed" ELSE Outcome[c]]
  BY DEF ResetAccumulator, TypeOK, ClientTypeOK, Outcome
<1>2. failing \in SUBSET {c \in Calls : Outcome[c] = "waiting"}
  BY ClientStateIsOutcome
<1>3. Ran' = Ran
  BY DEF serverVars, Ran
<1> QED
  BY <1>1, <1>2, <1>3 DEF Contract!EndAll, Outcome, Ran

LEMMA ReceiveRuns ==
    ASSUME IInv, Receive, UNCHANGED clientVars
    PROVE  (\E c \in Calls : Contract!Run(c)) \/ UNCHANGED Contract!vars
<1>1. PICK p \in c2s : Handle(p)
  BY DEF Receive
<1>2. p \in Packet /\ GoodRequest(p)
  BY DEF IInv, TypeOK, WireTypeOK, RequestsGood
<1>3. Effect(p)
  BY <1>1, <1>2, HandleEffect DEF IInv, TypeOK, ServerTypeOK
<1>4. Outcome' = Outcome
  BY DEF clientVars, Outcome
<1>5. CASE executed' = executed
  BY <1>4, <1>5 DEF Contract!vars, Outcome
<1>6. CASE p \in Request /\ executed' = [executed EXCEPT ![p.call] = @ + 1]
  <2>1. p.call \in Calls /\ Outcome[p.call] # "idle"
    BY <1>2, <1>6, ClientStateIsOutcome DEF IInv, GoodRequest, Made, Request
  <2>2. Ran' = Ran \cup {p.call}
    BY <1>6, <2>1 DEF IInv, TypeOK, ServerTypeOK, HandleTypeOK, Ran
  <2>3. Contract!Run(p.call)
    BY <1>4, <2>1, <2>2 DEF Contract!Run, Outcome, Ran
  <2> QED
    BY <2>1, <2>3
<1> QED
  BY <1>3, <1>5, <1>6 DEF Effect

LEMMA InitRefines == Init => Contract!Init
<1> SUFFICES ASSUME Init PROVE Contract!Init
  OBVIOUS
<1>1. Outcome = [c \in Calls |-> "idle"]
  BY DEF Init, ClientInit, Outcome
<1>2. Ran = {}
  BY DEF Init, ServerInit, HandleInit, Ran
<1> QED
  BY <1>1, <1>2 DEF Contract!Init, Outcome, Ran

LEMMA StepRefines == IInv /\ IInv' /\ [Next /\ OneLap]_vars => [Contract!Next]_(Contract!vars)
<1> SUFFICES ASSUME IInv, IInv', [Next /\ OneLap]_vars
             PROVE  Contract!Next \/ UNCHANGED Contract!vars
  BY DEF Contract!vars
<1> USE DEF IInv
<1>1. ASSUME NEW c \in Calls, SendRequest(c) \/ SendFrame(c), UNCHANGED serverVars
      PROVE  Contract!Next
  BY <1>1, SendMakes DEF Contract!Next
<1>2. ASSUME NEW c \in Calls, Timeout(c), UNCHANGED serverVars
      PROVE  Contract!Next \/ UNCHANGED Contract!vars
  <2>1. UNCHANGED executed
    BY <1>2 DEF serverVars
  <2>2. CASE state[c] = "waiting" /\ state' = [state EXCEPT ![c] = "rejected"]
    BY <1>2, <2>1, <2>2, SettleEnds DEF Contract!Next
  <2>3. CASE UNCHANGED state
    BY <2>1, <2>3 DEF Contract!vars
  <2> QED
    BY <1>2, <2>2, <2>3 DEF Timeout, Settle
<1>3. ASSUME Dispatch, UNCHANGED serverVars
      PROVE  Contract!Next \/ UNCHANGED Contract!vars
  <2>1. UNCHANGED executed
    BY <1>3 DEF serverVars
  <2>2. PICK f \in s2c : DispatchPending(f) \/ DispatchNotification(f)
    BY <1>3 DEF Dispatch
  <2>3. CASE UNCHANGED state
    BY <2>1, <2>3 DEF Contract!vars
  <2>4. CASE DispatchPending(f) /\ state[pending[f.seq]] = "waiting"
    <3> DEFINE v == IF f.rpc = SysError THEN "rejected" ELSE "resolved"
    <3>1. f \in ServerFrame /\ pending[f.seq] \in Calls
      BY <2>4, DispatchedAnswersOwner DEF DispatchPending
    <3>2. PICK c \in Calls : c = pending[f.seq]
      BY <3>1
    <3>3. /\ state[c] = "waiting"
          /\ state' = [state EXCEPT ![c] = v]
          /\ answer' = [answer EXCEPT ![c] = f]
      BY <2>4, <3>2 DEF DispatchPending, Settle
    <3>4. v = "resolved" => executed[c] > 0
      <4>1. answer'[c] = f /\ f # NoFrame
        BY <3>1, <3>3, WireAssumption DEF TypeOK, ClientTypeOK
      <4>2. state'[c] = "resolved" => executed'[c] > 0
        BY <4>1 DEF Correlated
      <4> QED
        BY <2>1, <3>3, <4>2 DEF TypeOK, ClientTypeOK
    <3>5. v \in {"resolved", "rejected"}
      OBVIOUS
    <3> HIDE DEF v
    <3>6. Contract!End(c)
      BY <2>1, <3>3, <3>4, <3>5, SettleEnds
    <3> QED
      BY <3>6 DEF Contract!Next
  <2> QED
    BY <2>2, <2>3, <2>4 DEF DispatchPending, DispatchNotification, Settle
<1>4. ASSUME ResetAccumulator, UNCHANGED serverVars PROVE Contract!Next
  BY <1>4, ResetEndsAll DEF Contract!Next
<1>5. ASSUME Receive, UNCHANGED clientVars
      PROVE  Contract!Next \/ UNCHANGED Contract!vars
  BY <1>5, ReceiveRuns DEF Contract!Next
<1>6. ASSUME UNCHANGED <<state, executed>> PROVE UNCHANGED Contract!vars
  BY <1>6 DEF Contract!vars
<1>7. CASE (Reply \/ Push) /\ UNCHANGED clientVars
  BY <1>6, <1>7 DEF Reply, Push, clientVars
<1>8. CASE UNCHANGED <<clientVars, serverVars>>
  BY <1>6, <1>8 DEF clientVars, serverVars
<1>9. CASE UNCHANGED vars
  BY <1>8, <1>9 DEF vars
<1> QED
  BY <1>1, <1>2, <1>3, <1>4, <1>5, <1>7, <1>8, <1>9 DEF Next, Client, Server, Network

\* The whole system keeps the contract of a remote call, for any number of
\* calls: no callback for a call nobody made, no call that ends twice, none
\* that ends well without its callback having run.
THEOREM SystemKeepsContract == LapSpec => ImplementsContract
BY Inductive, InitRefines, StepRefines, PTL DEF LapSpec, ImplementsContract, Contract!Spec
=============================================================================
