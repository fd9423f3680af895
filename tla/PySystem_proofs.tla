-------------------------- MODULE PySystem_proofs --------------------------
(***************************************************************************)
(* Proofs about the Python client: against any peer, while its sequence    *)
(* counter goes round as often as it likes; and with the network and the   *)
(* UDP server during one lap of the counter.  For any number of calls, any *)
(* methods and any size of the counter.                                    *)
(***************************************************************************)
EXTENDS PySystem, WindRpcHandle_proofs

-----------------------------------------------------------------------------
(* The client, whoever it talks to.                                        *)

ClientOK == WireTypeOK /\ ClientTypeOK

\* A call whose future is done by an answer has left the map: unless its wait was
\* interrupted, an entry still waits for its answer.
EntryUnanswered ==
    \A s \in Seqs : pending[s] # NoCall /\ interrupt[pending[s]] = "none"
                        => future[pending[s]] = "pending"

EntriesInv ==
    /\ ClientOK
    /\ nextSeqId # 0
    /\ EntryOwner /\ EventIdIsFree /\ EntryUnanswered

\* The sequence counter goes from 1 to the last id and round again.
LEMMA NextSeq ==
    nextSeqId \in Seqs => GetNextSeqId \in Seqs /\ GetNextSeqId # 0
BY WireAssumption DEF GetNextSeqId, Seqs

\* What a delivery leaves of its channel.
LEMMA TakeType ==
    ASSUME NEW f \in s2c, WireTypeOK, Take(f, s2c, s2c')
    PROVE  f \in ServerFrame /\ f.seq \in Seqs /\ s2c' \subseteq s2c /\ dups' \in 0 .. MaxDups
BY WireAssumption DEF WireTypeOK, Take, ServerFrame

\* What a frame does to the call it finds: it takes the entry away, and
\* completes the future if that still waits.
Completes(f) ==
    LET c == pending[f.seq] IN
    /\ c \in Calls
    /\ pending' = [pending EXCEPT ![f.seq] = NoCall]
    /\ notified' = notified
    /\ \/ /\ future[c] # "pending"
          /\ UNCHANGED <<future, answer>>
       \/ /\ future[c] = "pending"
          /\ answer' = [answer EXCEPT ![c] = f]
          /\ \/ future' = [future EXCEPT ![c] = "exception"] /\ f.rpc = SysError
             \/ future' = [future EXCEPT ![c] = "result"] /\ f.rpc \notin HighBit \cup {SysError}

LEMMA ReceiveEffect ==
    ASSUME ClientOK, ReceiveRawDatagram
    PROVE  /\ UNCHANGED <<nextSeqId, state, interrupt, seqOf, rpcOf, c2s>>
           /\ s2c' \subseteq s2c /\ dups' \in 0 .. MaxDups
           /\ \E f \in s2c :
                /\ f \in ServerFrame /\ f.seq \in Seqs
                /\ \/ Completes(f)
                   \/ /\ UNCHANGED <<pending, future, answer>>
                      /\ \/ notified' = notified
                         \/ notified' = notified \cup {f} /\ f.rpc \in HighBit
<1>1. UNCHANGED <<nextSeqId, state, interrupt, seqOf, rpcOf, c2s>>
  BY DEF ReceiveRawDatagram
<1>2. PICK f \in s2c : /\ Take(f, s2c, s2c')
                       /\ ReceiveError(f) \/ ReceiveNotification(f) \/ ReceiveResponse(f)
  BY DEF ReceiveRawDatagram
<1>3. f \in ServerFrame /\ f.seq \in Seqs /\ s2c' \subseteq s2c /\ dups' \in 0 .. MaxDups
  BY <1>2, TakeType DEF ClientOK
<1>4. pending[f.seq] \in Calls \cup {NoCall}
  BY <1>3 DEF ClientOK, ClientTypeOK
<1>5. \/ Completes(f)
      \/ /\ UNCHANGED <<pending, future, answer>>
         /\ \/ notified' = notified
            \/ notified' = notified \cup {f} /\ f.rpc \in HighBit
  <2>1. CASE ReceiveError(f)
    BY <1>4, <2>1 DEF ReceiveError, Complete, Ignore, Completes
  <2>2. CASE ReceiveNotification(f)
    BY <2>2 DEF ReceiveNotification
  <2>3. CASE ReceiveResponse(f)
    BY <1>4, <2>3 DEF ReceiveResponse, Complete, Ignore, Completes
  <2> QED
    BY <1>2, <2>1, <2>2, <2>3
<1> QED
  BY <1>1, <1>3, <1>5

LEMMA SendKeepsEntries ==
    ASSUME EntriesInv, NEW c \in Calls, SendRequestAsync(c)
    PROVE  EntriesInv'
<1> USE DEF EntriesInv, ClientOK
<1>1. nextSeqId \in Seqs /\ nextSeqId' \in Seqs /\ nextSeqId' # 0
  BY NextSeq DEF ClientTypeOK, SendRequestAsync
<1>2. c # NoCall /\ state[c] = "idle"
  BY WireAssumption DEF SendRequestAsync
<1>3. c2s' \subseteq Packet
  BY <1>1 DEF SendRequestAsync, Transmit, WireTypeOK, ClientTypeOK, Packet, Request
<1>4. ClientOK'
  BY <1>1, <1>3 DEF SendRequestAsync, WireTypeOK, ClientTypeOK, States, Futures
<1>5. \A s \in Seqs : pending[s] # c
  BY <1>2 DEF EntryOwner
<1>6. \E made \in {"awaiting", "unsent"} : state' = [state EXCEPT ![c] = made]
  BY DEF SendRequestAsync
<1>7. /\ pending' = [pending EXCEPT ![nextSeqId] = c]
      /\ seqOf' = [seqOf EXCEPT ![c] = nextSeqId]
      /\ future' = [future EXCEPT ![c] = "pending"] /\ interrupt' = interrupt
  BY DEF SendRequestAsync
<1>8. EntryOwner'
  BY <1>1, <1>5, <1>6, <1>7 DEF EntryOwner, ClientTypeOK
<1>9. EventIdIsFree' /\ EntryUnanswered'
  BY <1>1, <1>5, <1>7, WireAssumption DEF EventIdIsFree, EntryUnanswered, ClientTypeOK, Seqs
<1> QED
  BY <1>1, <1>4, <1>8, <1>9

LEMMA ReceiveKeepsEntries ==
    ASSUME EntriesInv, ReceiveRawDatagram
    PROVE  EntriesInv'
<1> USE DEF EntriesInv, ClientOK
<1>1. /\ UNCHANGED <<nextSeqId, state, interrupt, seqOf, rpcOf, c2s>>
      /\ s2c' \subseteq s2c /\ dups' \in 0 .. MaxDups
  BY ReceiveEffect
<1>2. PICK f \in s2c :
        /\ f \in ServerFrame /\ f.seq \in Seqs
        /\ \/ Completes(f)
           \/ /\ UNCHANGED <<pending, future, answer>>
              /\ \/ notified' = notified
                 \/ notified' = notified \cup {f} /\ f.rpc \in HighBit
  BY ReceiveEffect
<1>3. CASE Completes(f)
  <2>1. ClientOK'
    BY <1>1, <1>2, <1>3 DEF Completes, WireTypeOK, ClientTypeOK, Futures
  <2>2. EntryOwner' /\ EventIdIsFree'
    BY <1>1, <1>2, <1>3, WireAssumption
    DEF Completes, EntryOwner, EventIdIsFree, ClientTypeOK, Seqs
  <2>3. EntryUnanswered'
    BY <1>1, <1>2, <1>3 DEF Completes, EntryOwner, EntryUnanswered, ClientTypeOK
  <2> QED
    BY <1>1, <2>1, <2>2, <2>3
<1>4. CASE UNCHANGED <<pending, future, answer>>
  BY <1>1, <1>2, <1>4
  DEF Completes, WireTypeOK, ClientTypeOK, EntryOwner, EventIdIsFree, EntryUnanswered
<1> QED
  BY <1>2, <1>3, <1>4

\* The rest of a call: its wait is interrupted, its coroutine resumes.
LEMMA EndKeepsEntries ==
    ASSUME EntriesInv, NEW c \in Calls, Deadline(c) \/ Cancel(c) \/ Resumes(c)
    PROVE  EntriesInv'
<1> USE DEF EntriesInv, ClientOK
<1>1. CASE Deadline(c) \/ Cancel(c)
  BY <1>1 DEF Deadline, Cancel, Interrupt, wire, WireTypeOK, ClientTypeOK, Futures,
     EntryOwner, EventIdIsFree, EntryUnanswered
<1>2. CASE ResumeAnswered(c)
  <2>1. \A s \in Seqs : pending[s] # c
    BY <1>2, WireAssumption DEF ResumeAnswered, Resume, EntryUnanswered
  <2> QED
    BY <1>2, <2>1
    DEF ResumeAnswered, Resume, wire, WireTypeOK, ClientTypeOK, States,
        EntryOwner, EventIdIsFree, EntryUnanswered
<1>3. CASE ResumeTimedOut(c)
  <2>1. seqOf[c] \in Seqs
    BY DEF ClientTypeOK
  <2>2. EntryOwner'
    BY <1>3, <2>1 DEF ResumeTimedOut, Resume, wire, ClientTypeOK, EntryOwner
  <2> QED
    BY <1>3, <2>1, <2>2, WireAssumption
    DEF ResumeTimedOut, Resume, wire, WireTypeOK, ClientTypeOK, States,
        EventIdIsFree, EntryUnanswered, Seqs
<1>4. CASE ResumeCancelled(c)
  BY <1>4
  DEF ResumeCancelled, Resume, wire, WireTypeOK, ClientTypeOK, States,
      EntryOwner, EventIdIsFree, EntryUnanswered
<1> QED
  BY <1>1, <1>2, <1>3, <1>4 DEF Resumes

LEMMA ClientKeepsEntries == EntriesInv /\ Client => EntriesInv'
BY SendKeepsEntries, ReceiveKeepsEntries, EndKeepsEntries DEF Client

LEMMA InitEntries == WireInit /\ ClientInit => EntriesInv
<1> SUFFICES ASSUME WireInit, ClientInit PROVE EntriesInv
  OBVIOUS
<1>1. 0 \in Seqs /\ 1 \in Seqs /\ 0 \in 0 .. MaxDups
  BY WireAssumption DEF Seqs
<1> QED
  BY <1>1 DEF WireInit, ClientInit, EntriesInv, ClientOK, WireTypeOK, ClientTypeOK, States,
     Futures, EntryOwner, EventIdIsFree, EntryUnanswered

-----------------------------------------------------------------------------
(* The client against any peer.                                            *)

Open == INSTANCE PyClientOpen

\* Open instantiates PyClient with the variables it has here.
LEMMA OpenIsClient ==
    /\ Open!Init <=> WireInit /\ ClientInit
    /\ Open!Client => Client
<1>1. Open!Init <=> WireInit /\ ClientInit
  BY DEF Open!Init, Open!WireInit, Open!ClientInit, Open!Seqs, WireInit, ClientInit, Seqs
<1>2. ASSUME NEW c \in Calls, Open!SendRequestAsync(c) PROVE SendRequestAsync(c)
  BY <1>2 DEF Open!SendRequestAsync, Open!GetNextSeqId, Open!Transmit,
     SendRequestAsync, GetNextSeqId, Transmit
<1>3. ASSUME NEW c \in Calls, Open!Deadline(c) \/ Open!Cancel(c)
      PROVE  Deadline(c) \/ Cancel(c)
  BY <1>3 DEF Open!Deadline, Open!Cancel, Open!Interrupt, Open!wire,
     Deadline, Cancel, Interrupt, wire
<1>4. ASSUME NEW c \in Calls, Open!Resumes(c) PROVE Resumes(c)
  BY <1>4 DEF Open!Resumes, Open!ResumeAnswered, Open!ResumeTimedOut, Open!ResumeCancelled,
     Open!Resume, Open!wire, Resumes, ResumeAnswered, ResumeTimedOut, ResumeCancelled,
     Resume, wire
<1>5. ASSUME Open!ReceiveRawDatagram PROVE ReceiveRawDatagram
  BY <1>5 DEF Open!ReceiveRawDatagram, Open!Take, Open!ReceiveError, Open!ReceiveNotification,
     Open!ReceiveResponse, Open!Complete, Open!Ignore, ReceiveRawDatagram, Take, ReceiveError,
     ReceiveNotification, ReceiveResponse, Complete, Ignore
<1> QED
  BY <1>1, <1>2, <1>3, <1>4, <1>5 DEF Open!Client, Client

LEMMA OpenEntries == Open!Spec => []EntriesInv
<1>1. Open!Init => EntriesInv
  BY OpenIsClient, InitEntries
<1>2. EntriesInv /\ [Open!Next]_(Open!vars) => EntriesInv'
  <2> SUFFICES ASSUME EntriesInv, [Open!Next]_(Open!vars) PROVE EntriesInv'
    OBVIOUS
  <2>1. CASE Open!Client
    BY <2>1, OpenIsClient, ClientKeepsEntries
  <2>2. CASE Open!Peer /\ UNCHANGED Open!clientVars
    <3>1. UNCHANGED clientVars
      BY <2>2 DEF Open!clientVars, clientVars
    <3>2. Open!AnyFrame \subseteq ServerFrame
      BY DEF Open!AnyFrame, Open!Seqs, ServerFrame, Seqs, WireCode
    <3>3. WireTypeOK'
      BY <2>2, <3>2 DEF Open!Peer, Open!PeerSends, Open!PeerDiscards, EntriesInv, ClientOK, WireTypeOK
    <3> QED
      BY <3>1, <3>3
      DEF clientVars, EntriesInv, ClientOK, ClientTypeOK, EntryOwner, EventIdIsFree, EntryUnanswered
  <2>3. CASE UNCHANGED Open!vars
    BY <2>3
    DEF Open!vars, Open!wire, Open!clientVars, EntriesInv, ClientOK, WireTypeOK, ClientTypeOK,
        EntryOwner, EventIdIsFree, EntryUnanswered
  <2> QED
    BY <2>1, <2>2, <2>3 DEF Open!Next
<1> QED
  BY <1>1, <1>2, PTL DEF Open!Spec

\* However often the counter goes round and whatever arrives: an entry is that of
\* its own call, and outlives it only after a failed send or a cancellation.
THEOREM EntriesHaveOwners == Open!Spec => []EntryOwner
BY OpenEntries, PTL DEF EntriesInv

\* However often the counter goes round, a notification never finds an entry.
THEOREM EventsFindNoCall == Open!Spec => []EventIdIsFree
BY OpenEntries, PTL DEF EntriesInv

-----------------------------------------------------------------------------
(* The client with network and server, during a lap.                       *)

Made(c) == state[c] # "idle"

\* During a lap, calls have sequence ids of their own, and never 0.
OwnSeqs ==
    /\ \A c \in Calls : Made(c) => 1 <= seqOf[c] /\ seqOf[c] < nextSeqId
    /\ \A c, d \in Calls : Made(c) /\ Made(d) /\ seqOf[c] = seqOf[d] => c = d

RunsOfMade == \A c \in Calls : executed[c] > 0 => Made(c)

\* Requests, where they wait and where they are served, are those of calls.
GoodRequest(p) ==
    p \in Request => Made(p.call) /\ p.seq = seqOf[p.call] /\ p.rpc = rpcOf[p.call]

RequestsGood == GoodRequest(pkt) /\ \A p \in c2s : GoodRequest(p)

\* A frame of the server is a notification, or answers a call.
GoodAnswer(f) ==
    /\ f.call = NoCall => f.seq = 0 /\ f.rpc \in Events
    /\ f.call # NoCall =>
        /\ Made(f.call)
        /\ f.seq = seqOf[f.call]
        /\ f.rpc # SysError => f.rpc = rpcOf[f.call] /\ executed[f.call] > 0

AnswersGood ==
    /\ tx.frame # NoFrame => GoodAnswer(tx.frame)
    /\ \A f \in s2c : GoodAnswer(f)

\* What the loop is about to send is there.
ReplyIsThere == loop = "reply" /\ ret = 0 /\ bytesWritten > 0 => tx.frame # NoFrame

\* A result is the response to the call, which returns nothing else.  No answer has
\* bit 7 in its id.
ResultsGood ==
    \A c \in Calls :
        /\ answer[c] # NoFrame =>
            /\ answer[c].call = c
            /\ answer[c].rpc \in {rpcOf[c], SysError} \ HighBit
        /\ future[c] = "result" =>
            answer[c] # NoFrame /\ answer[c].rpc = rpcOf[c] /\ executed[c] > 0
        /\ state[c] = "returned" => future[c] = "result"

\* What is taken for an event has the bit of one, and is what the server sent.
NotifiedGood == \A f \in notified : f.rpc \in HighBit /\ GoodAnswer(f)

IInv ==
    /\ EntriesInv /\ ServerTypeOK
    /\ OwnSeqs
    /\ RequestsGood /\ RunsOfMade
    /\ AnswersGood /\ ReplyIsThere
    /\ ResultsGood /\ NotifiedGood /\ AwaitedHasEntry

-----------------------------------------------------------------------------
(* What is said of a frame goes on being true of it.                       *)

Stable ==
    /\ rpcOf' = rpcOf
    /\ \A c \in Calls : Made(c) => Made(c)' /\ seqOf'[c] = seqOf[c]
    /\ \A c \in Calls : executed[c] > 0 => executed'[c] > 0

LEMMA StableFrames ==
    ASSUME Stable
    PROVE  /\ \A p \in Packet \cup {NoFrame} : GoodRequest(p) => GoodRequest(p)'
           /\ \A f \in ServerFrame : GoodAnswer(f) => GoodAnswer(f)'
<1>1. ASSUME NEW p \in Packet, GoodRequest(p) PROVE GoodRequest(p)'
  BY <1>1 DEF Stable, GoodRequest, Request
<1>2. GoodRequest(NoFrame)'
  BY WireAssumption DEF GoodRequest
<1>3. ASSUME NEW f \in ServerFrame, GoodAnswer(f) PROVE GoodAnswer(f)'
  BY <1>3 DEF Stable, GoodAnswer, ServerFrame
<1> QED
  BY <1>1, <1>2, <1>3

\* A step that leaves the frames alone, or takes some away, keeps them good.
LEMMA FramesStayGood ==
    ASSUME ClientOK, HandleTypeOK, RequestsGood, AnswersGood, Stable, UNCHANGED <<pkt, tx>>
    PROVE  /\ GoodRequest(pkt)' /\ (c2s' \subseteq c2s => RequestsGood')
           /\ s2c' \subseteq s2c => AnswersGood'
<1>1. c2s \subseteq Packet /\ s2c \subseteq ServerFrame /\ pkt \in Packet \cup {NoFrame}
  BY DEF ClientOK, WireTypeOK, HandleTypeOK
<1>2. tx.frame \in ServerFrame \cup {NoFrame}
  BY TxFrame
<1>3. GoodRequest(pkt)'
  BY <1>1, StableFrames DEF RequestsGood, GoodRequest
<1>4. ASSUME c2s' \subseteq c2s PROVE RequestsGood'
  <2>1. \A p \in c2s' : GoodRequest(p)'
    BY <1>1, <1>4, StableFrames DEF RequestsGood
  <2> QED
    BY <1>3, <2>1 DEF RequestsGood
<1>5. ASSUME s2c' \subseteq s2c PROVE AnswersGood'
  <2>1. tx.frame # NoFrame => GoodAnswer(tx.frame)'
    BY <1>2, StableFrames DEF AnswersGood, GoodAnswer
  <2>2. \A f \in s2c' : GoodAnswer(f)'
    BY <1>1, <1>5, StableFrames DEF AnswersGood
  <2> QED
    BY <2>1, <2>2 DEF AnswersGood
<1> QED
  BY <1>3, <1>4, <1>5

LEMMA NotifiedStaysGood ==
    ASSUME ClientTypeOK, NotifiedGood, Stable, notified' = notified
    PROVE  NotifiedGood'
<1>1. \A f \in notified : f \in ServerFrame /\ GoodAnswer(f) /\ f.rpc \in HighBit
  BY DEF ClientTypeOK, NotifiedGood
<1> QED
  BY <1>1, StableFrames DEF NotifiedGood

-----------------------------------------------------------------------------
(* The client.                                                             *)

\* During a lap the counter moves up with each call.
LEMMA CounterMoves ==
    ASSUME nextSeqId \in Seqs, nextSeqId' = GetNextSeqId, OneLap
    PROVE  nextSeqId' > nextSeqId
<1>1. SeqSpace \in Nat /\ SeqSpace > 2
  BY WireAssumption, LapAssumption
<1>2. nextSeqId \in 0 .. SeqSpace - 1 /\ nextSeqId' = (nextSeqId % (SeqSpace - 1)) + 1
      /\ nextSeqId' >= nextSeqId
  BY DEF Seqs, GetNextSeqId, OneLap
<1>3. CASE nextSeqId = SeqSpace - 1
  <2>1. nextSeqId % (SeqSpace - 1) = 0
    BY <1>1, <1>3
  <2> QED
    BY <1>1, <1>2, <1>3, <2>1
<1>4. CASE nextSeqId < SeqSpace - 1
  <2>1. nextSeqId % (SeqSpace - 1) = nextSeqId
    BY <1>1, <1>2, <1>4
  <2> QED
    BY <1>1, <1>2, <2>1
<1> QED
  BY <1>1, <1>2, <1>3, <1>4

LEMMA SendKeepsIInv ==
    ASSUME IInv, NEW c \in Calls, SendRequestAsync(c), OneLap, UNCHANGED serverVars
    PROVE  IInv'
<1> USE DEF IInv
<1>1. /\ state[c] = "idle" /\ seqOf' = [seqOf EXCEPT ![c] = nextSeqId]
      /\ pending' = [pending EXCEPT ![nextSeqId] = c]
      /\ future' = [future EXCEPT ![c] = "pending"]
      /\ \E made \in {"awaiting", "unsent"} : state' = [state EXCEPT ![c] = made]
      /\ UNCHANGED <<interrupt, rpcOf, answer, notified, s2c, dups>>
      /\ UNCHANGED <<executed, pkt, tx, bytesWritten, txSize, ret, status, loop>>
  BY DEF SendRequestAsync, serverVars, txn
<1>2. EntriesInv'
  BY SendKeepsEntries
<1>3. /\ nextSeqId \in Seqs /\ nextSeqId >= 1 /\ nextSeqId' > nextSeqId
      /\ nextSeqId \in Int /\ nextSeqId' \in Int
  <2>1. nextSeqId \in Seqs /\ nextSeqId' \in Seqs /\ nextSeqId # 0
    BY <1>2 DEF EntriesInv, ClientOK, ClientTypeOK
  <2>2. nextSeqId' > nextSeqId
    BY <2>1, CounterMoves DEF SendRequestAsync
  <2> QED
    BY <2>1, <2>2, WireAssumption DEF Seqs
<1>4. ClientTypeOK /\ ClientTypeOK' /\ WireTypeOK /\ HandleTypeOK
  BY <1>2 DEF EntriesInv, ClientOK, ServerTypeOK
<1>5. ServerTypeOK'
  BY <1>1 DEF ServerTypeOK, HandleTypeOK
<1>6. Stable
  BY <1>1, <1>4 DEF Stable, Made, ClientTypeOK
<1>7. AnswersGood' /\ GoodRequest(pkt)'
  BY <1>1, <1>6, FramesStayGood DEF EntriesInv, ServerTypeOK
<1>8. RequestsGood'
  <2>1. ASSUME NEW p \in c2s', p \notin c2s
        PROVE  p.call = c /\ p.seq = nextSeqId /\ p.rpc = rpcOf[c]
    BY <2>1 DEF SendRequestAsync, Transmit
  <2>2. ASSUME NEW p \in c2s' PROVE GoodRequest(p)'
    <3>1. CASE p \in c2s
      BY <1>4, <1>6, <3>1, StableFrames DEF RequestsGood, WireTypeOK
    <3>2. CASE p \notin c2s
      BY <1>1, <1>4, <2>1, <3>2 DEF GoodRequest, Made, ClientTypeOK
    <3> QED
      BY <3>1, <3>2
  <2> QED
    BY <1>7, <2>2 DEF RequestsGood
<1>9. \A d \in Calls : seqOf[d] \in Int /\ (Made(d) => seqOf[d] # nextSeqId)
  BY <1>3, <1>4, WireAssumption DEF OwnSeqs, ClientTypeOK, Seqs
<1>10. OwnSeqs'
  BY <1>1, <1>3, <1>4, <1>9 DEF OwnSeqs, Made, ClientTypeOK
<1>11. RunsOfMade' /\ ReplyIsThere'
  BY <1>1, <1>4 DEF RunsOfMade, ReplyIsThere, Made, ClientTypeOK
<1>12. NotifiedGood'
  BY <1>1, <1>4, <1>6, NotifiedStaysGood
<1>13. ResultsGood'
  BY <1>1, <1>4 DEF ResultsGood, ClientTypeOK
<1>14. AwaitedHasEntry'
  BY <1>1, <1>3, <1>4, <1>9 DEF AwaitedHasEntry, Made, ClientTypeOK
<1> QED
  BY <1>2, <1>5, <1>7, <1>8, <1>10, <1>11, <1>12, <1>13, <1>14

LEMMA ReceiveKeepsIInv ==
    ASSUME IInv, ReceiveRawDatagram, UNCHANGED serverVars
    PROVE  IInv'
<1> USE DEF IInv
<1>1. /\ UNCHANGED <<nextSeqId, state, interrupt, seqOf, rpcOf, c2s>>
      /\ s2c' \subseteq s2c
      /\ UNCHANGED <<executed, pkt, tx, bytesWritten, txSize, ret, status, loop>>
  BY ReceiveEffect DEF EntriesInv, serverVars, txn
<1>2. PICK f \in s2c :
        /\ f \in ServerFrame /\ f.seq \in Seqs
        /\ \/ Completes(f)
           \/ /\ UNCHANGED <<pending, future, answer>>
              /\ \/ notified' = notified
                 \/ notified' = notified \cup {f} /\ f.rpc \in HighBit
  BY ReceiveEffect DEF EntriesInv
<1>3. EntriesInv'
  BY ReceiveKeepsEntries
<1>4. ClientTypeOK /\ ClientTypeOK' /\ WireTypeOK /\ HandleTypeOK
  BY <1>3 DEF EntriesInv, ClientOK, ServerTypeOK
<1>5. ServerTypeOK'
  BY <1>1 DEF ServerTypeOK, HandleTypeOK
<1>6. Stable
  BY <1>1 DEF Stable, Made
<1>7. RequestsGood' /\ AnswersGood'
  BY <1>1, <1>4, <1>6, FramesStayGood DEF EntriesInv
<1>8. OwnSeqs' /\ RunsOfMade' /\ ReplyIsThere'
  BY <1>1 DEF OwnSeqs, RunsOfMade, ReplyIsThere, Made
<1>9. CASE Completes(f)
  <2>1. PICK c \in Calls : c = pending[f.seq]
    BY <1>9 DEF Completes
  <2>2. seqOf[c] = f.seq /\ Made(c) /\ c # NoCall /\ f.seq # 0
    BY <1>2, <2>1, WireAssumption DEF EntriesInv, EntryOwner, EventIdIsFree, Made
  <2>3. f.call = c
    BY <1>2, <2>2 DEF AnswersGood, GoodAnswer, OwnSeqs, ServerFrame
  <2>4. f.rpc # SysError => f.rpc = rpcOf[c] /\ executed[c] > 0
    BY <1>2, <2>2, <2>3 DEF AnswersGood, GoodAnswer
  <2>5. ResultsGood'
    <3>1. CASE UNCHANGED <<future, answer>>
      BY <1>1, <3>1 DEF ResultsGood
    <3>2. CASE /\ future[c] = "pending"
               /\ answer' = [answer EXCEPT ![c] = f]
               /\ \/ future' = [future EXCEPT ![c] = "exception"] /\ f.rpc = SysError
                  \/ future' = [future EXCEPT ![c] = "result"] /\ f.rpc \notin HighBit \cup {SysError}
      <4>1. f # NoFrame /\ f.rpc \in {rpcOf[c], SysError} \ HighBit
        BY <1>2, <2>4, <3>2, RpcIdAssumption, WireAssumption
      <4>2. state[c] # "returned"
        BY <3>2 DEF ResultsGood
      <4> QED
        BY <1>1, <1>4, <2>1, <2>3, <2>4, <3>2, <4>1, <4>2 DEF ResultsGood, ClientTypeOK
    <3> QED
      BY <1>9, <2>1, <3>1, <3>2 DEF Completes
  <2>6. AwaitedHasEntry'
    BY <1>1, <1>2, <1>4, <1>9, <2>1 DEF Completes, AwaitedHasEntry, ClientTypeOK
  <2>7. NotifiedGood'
    BY <1>4, <1>6, <1>9, NotifiedStaysGood DEF Completes
  <2> QED
    BY <1>3, <1>5, <1>7, <1>8, <2>5, <2>6, <2>7
<1>10. CASE UNCHANGED <<pending, future, answer>>
  <2>1. ResultsGood' /\ AwaitedHasEntry'
    BY <1>1, <1>10 DEF ResultsGood, AwaitedHasEntry
  <2>2. NotifiedGood'
    <3>1. GoodAnswer(f)'
      BY <1>2, <1>6, StableFrames DEF AnswersGood
    <3>2. \A g \in notified : g \in ServerFrame /\ GoodAnswer(g) /\ g.rpc \in HighBit
      BY <1>4 DEF ClientTypeOK, NotifiedGood
    <3>3. \A g \in notified : GoodAnswer(g)' /\ g.rpc \in HighBit
      BY <1>6, <3>2, StableFrames
    <3>4. notified' = notified \/ (notified' = notified \cup {f} /\ f.rpc \in HighBit)
      BY <1>2 DEF Completes
    <3> QED
      BY <3>1, <3>3, <3>4 DEF NotifiedGood
  <2> QED
    BY <1>3, <1>5, <1>7, <1>8, <2>1, <2>2
<1> QED
  BY <1>2, <1>9, <1>10

LEMMA EndKeepsIInv ==
    ASSUME IInv, NEW c \in Calls, Deadline(c) \/ Cancel(c) \/ Resumes(c), UNCHANGED serverVars
    PROVE  IInv'
<1> USE DEF IInv
<1>1. /\ UNCHANGED <<nextSeqId, seqOf, rpcOf, answer, notified, c2s, s2c, dups>>
      /\ UNCHANGED <<executed, pkt, tx, bytesWritten, txSize, ret, status, loop>>
  BY DEF Deadline, Cancel, Interrupt, Resumes, ResumeAnswered, ResumeTimedOut,
     ResumeCancelled, Resume, wire, serverVars, txn
<1>2. EntriesInv'
  BY EndKeepsEntries
<1>3. ClientTypeOK /\ ClientTypeOK' /\ WireTypeOK /\ HandleTypeOK
  BY <1>2 DEF EntriesInv, ClientOK, ServerTypeOK
<1>4. /\ state[c] = "awaiting"
      /\ \/ /\ UNCHANGED <<state, pending>>
            /\ future' = [future EXCEPT ![c] = IF @ = "pending" THEN "cancelled" ELSE @]
         \/ /\ UNCHANGED <<future, pending>>
            /\ state' = [state EXCEPT ![c] = IF future[c] = "result" THEN "returned" ELSE "raised"]
         \/ /\ UNCHANGED future
            /\ \/ pending' = pending
               \/ pending' = [pending EXCEPT ![seqOf[c]] = NoCall]
            /\ \E end \in {"timedout", "cancelled"} : state' = [state EXCEPT ![c] = end]
  BY DEF Deadline, Cancel, Interrupt, Resumes, ResumeAnswered, ResumeTimedOut,
     ResumeCancelled, Resume
<1>5. ServerTypeOK'
  BY <1>1 DEF ServerTypeOK, HandleTypeOK
<1>6. Stable
  BY <1>1, <1>3, <1>4 DEF Stable, Made, ClientTypeOK
<1>7. RequestsGood' /\ AnswersGood'
  BY <1>1, <1>3, <1>6, FramesStayGood DEF EntriesInv
<1>8. OwnSeqs' /\ RunsOfMade' /\ ReplyIsThere' /\ NotifiedGood'
  <2>1. OwnSeqs' /\ RunsOfMade' /\ ReplyIsThere'
    BY <1>1, <1>3, <1>4 DEF OwnSeqs, RunsOfMade, ReplyIsThere, Made, ClientTypeOK
  <2> QED
    BY <1>1, <1>3, <1>6, <2>1, NotifiedStaysGood
<1>9. ResultsGood'
  BY <1>1, <1>3, <1>4 DEF ResultsGood, ClientTypeOK
<1>10. AwaitedHasEntry'
  <2> SUFFICES ASSUME NEW d \in Calls, state'[d] = "awaiting", future'[d] = "pending"
               PROVE  pending'[seqOf'[d]] = d
    BY DEF AwaitedHasEntry
  <2>1. state[d] = "awaiting" /\ future[d] = "pending"
    BY <1>3, <1>4 DEF ClientTypeOK
  <2>2. pending[seqOf[d]] = d /\ seqOf[d] \in Seqs
    BY <1>3, <2>1 DEF AwaitedHasEntry, ClientTypeOK
  <2>3. CASE pending' = pending
    BY <1>1, <2>2, <2>3
  <2>4. CASE pending' = [pending EXCEPT ![seqOf[c]] = NoCall] /\ d # c
    BY <1>1, <1>3, <1>4, <2>1, <2>2, <2>4 DEF OwnSeqs, Made, ClientTypeOK
  <2>5. CASE pending' # pending /\ d = c
    BY <1>3, <1>4, <2>5 DEF ClientTypeOK
  <2> QED
    BY <1>4, <2>3, <2>4, <2>5
<1> QED
  BY <1>2, <1>5, <1>7, <1>8, <1>9, <1>10

-----------------------------------------------------------------------------
(* The network and the server.                                             *)

\* A request that a truncation cut is still the request of its call.
LEMMA TruncateKeepsRequests ==
    ASSUME WireTypeOK, RequestsGood, Truncate
    PROVE  c2s' \subseteq Packet /\ \A p \in c2s' : GoodRequest(p)
<1>1. PICK p \in c2s \ {Runt} : \E cut \in {Runt, [p EXCEPT !.body = "cut"]} :
          c2s' = (c2s \ {p}) \cup {cut}
  BY DEF Truncate
<1>2. PICK cut \in {Runt, [p EXCEPT !.body = "cut"]} : c2s' = (c2s \ {p}) \cup {cut}
  BY <1>1
<1>3. p \in Request /\ GoodRequest(p)
  BY DEF WireTypeOK, Packet, RequestsGood
<1>4. cut \in Packet /\ GoodRequest(cut)
  <2>1. CASE cut = Runt
    BY <2>1, WireAssumption DEF Packet, GoodRequest
  <2>2. CASE cut = [p EXCEPT !.body = "cut"]
    BY <1>3, <2>2 DEF Packet, Request, GoodRequest
  <2> QED
    BY <2>1, <2>2
<1> QED
  BY <1>2, <1>4 DEF RequestsGood, WireTypeOK

\* What the rest of the system needs of the client holds while it is idle.
LEMMA ClientRests ==
    ASSUME IInv, UNCHANGED clientVars, WireTypeOK', UNCHANGED executed
    PROVE  /\ EntriesInv' /\ OwnSeqs' /\ RunsOfMade'
           /\ ResultsGood' /\ NotifiedGood' /\ AwaitedHasEntry'
           /\ Stable
<1>1. /\ EntriesInv' /\ OwnSeqs' /\ RunsOfMade'
      /\ ResultsGood' /\ AwaitedHasEntry' /\ Stable
  BY DEF IInv, clientVars, EntriesInv, ClientOK, ClientTypeOK, EntryOwner, EventIdIsFree,
     EntryUnanswered, OwnSeqs, RunsOfMade, ResultsGood, AwaitedHasEntry, Stable, Made
<1>2. ClientTypeOK /\ NotifiedGood /\ notified' = notified
  BY DEF IInv, EntriesInv, ClientOK, clientVars
<1> QED
  BY <1>1, <1>2, NotifiedStaysGood

LEMMA NetworkKeepsIInv ==
    ASSUME IInv, Network, UNCHANGED <<clientVars, serverVars>>
    PROVE  IInv'
<1> USE DEF IInv
<1>1. UNCHANGED <<executed, pkt, tx, bytesWritten, txSize, ret, status, loop, dups>>
      /\ s2c' \subseteq s2c
  BY DEF Network, LoseRequest, LoseAnswer, Truncate, serverVars, txn
<1>2. c2s' \subseteq Packet /\ \A p \in c2s' : GoodRequest(p)
  BY TruncateKeepsRequests
  DEF Network, LoseRequest, LoseAnswer, EntriesInv, ClientOK, WireTypeOK, RequestsGood
<1>3. WireTypeOK' /\ ClientOK /\ HandleTypeOK
  BY <1>1, <1>2 DEF EntriesInv, ClientOK, WireTypeOK, ServerTypeOK
<1>4. ServerTypeOK' /\ ReplyIsThere'
  BY <1>1 DEF ServerTypeOK, HandleTypeOK, ReplyIsThere
<1>5. Stable
  BY <1>1, <1>3, ClientRests
<1>6. AnswersGood' /\ GoodRequest(pkt)'
  BY <1>1, <1>3, <1>5, FramesStayGood
<1>7. RequestsGood'
  BY <1>2, <1>3, <1>5, <1>6, StableFrames DEF RequestsGood
<1> QED
  BY <1>1, <1>3, <1>4, <1>6, <1>7, ClientRests

LEMMA ServeKeepsIInv ==
    ASSUME IInv, Receive, UNCHANGED clientVars
    PROVE  IInv'
<1> USE DEF IInv
<1>1. UNCHANGED <<nextSeqId, pending, future, state, interrupt, seqOf, rpcOf, answer, notified,
                  s2c>> /\ loop' = "reply"
  BY DEF Receive, clientVars
<1>2. PICK p \in c2s : Take(p, c2s, c2s') /\ Handle(p)
  BY DEF Receive
<1>3. c2s' \subseteq c2s /\ dups' \in 0 .. MaxDups /\ p \in Packet /\ GoodRequest(p)
  BY <1>2, WireAssumption DEF Take, EntriesInv, ClientOK, WireTypeOK, RequestsGood
<1>4. Effect(p) /\ HandleTypeOK /\ WireTypeOK /\ WireTypeOK'
  BY <1>1, <1>2, <1>3, HandleEffect DEF ServerTypeOK, EntriesInv, ClientOK, WireTypeOK
<1>5. EntriesInv' /\ ServerTypeOK'
  BY <1>1, <1>4
  DEF Effect, ServerTypeOK, EntriesInv, ClientOK, ClientTypeOK, EntryOwner, EventIdIsFree,
      EntryUnanswered
<1>6. \A c \in Calls :
        /\ executed[c] > 0 => executed'[c] > 0
        /\ executed'[c] > 0 => \/ executed[c] > 0
                               \/ p \in Request /\ c = p.call
  BY <1>4 DEF Effect, HandleTypeOK, Request
<1>7. Stable
  BY <1>1, <1>6 DEF Stable, Made
<1>8. RequestsGood'
  <2>1. GoodRequest(pkt)'
    BY <1>3, <1>4, <1>7, StableFrames DEF Effect, GoodRequest
  <2>2. \A q \in c2s' : GoodRequest(q)'
    BY <1>3, <1>4, <1>7, StableFrames DEF RequestsGood, WireTypeOK
  <2> QED
    BY <2>1, <2>2 DEF RequestsGood
<1>9. AnswersGood'
  <2>1. \A f \in s2c' : GoodAnswer(f)'
    BY <1>1, <1>4, <1>7, StableFrames DEF AnswersGood, WireTypeOK
  <2>2. CASE tx' = tx
    <3>1. tx.frame \in ServerFrame \cup {NoFrame}
      BY <1>4, TxFrame
    <3>2. tx.frame # NoFrame => GoodAnswer(tx.frame)'
      BY <1>7, <3>1, <2>2, StableFrames DEF AnswersGood, GoodAnswer
    <3> QED
      BY <2>1, <2>2, <3>2 DEF AnswersGood
  <2>3. CASE tx' # tx
    <3>1. /\ p \in Request /\ tx'.frame.call = p.call /\ tx'.frame.seq = p.seq
          /\ \/ tx'.frame.rpc = SysError
             \/ /\ tx'.frame.rpc = p.rpc
                /\ executed' = [executed EXCEPT ![p.call] = @ + 1]
      BY <1>4, <2>3 DEF Effect, Writes
    <3>2. Made(p.call) /\ p.seq = seqOf[p.call] /\ p.rpc = rpcOf[p.call] /\ p.call \in Calls
      BY <1>3, <3>1 DEF GoodRequest, Request
    <3>3. tx'.frame.rpc # SysError => executed'[p.call] > 0
      BY <1>4, <3>1, <3>2 DEF HandleTypeOK
    <3>4. p.call # NoCall
      BY <3>2, WireAssumption
    <3>5. GoodAnswer(tx.frame)'
      BY <1>1, <3>1, <3>2, <3>3, <3>4 DEF GoodAnswer, Made
    <3> QED
      BY <2>1, <3>5 DEF AnswersGood
  <2> QED
    BY <2>2, <2>3
<1>10. RunsOfMade'
  BY <1>1, <1>3, <1>6 DEF RunsOfMade, GoodRequest, Made
<1>11. ReplyIsThere'
  <2>1. ret' = 0 /\ bytesWritten' > 0 => Writes(p)
    BY <1>4 DEF Effect
  <2> QED
    BY <2>1, WireAssumption DEF Writes, Frames, ReplyIsThere
<1>12. OwnSeqs' /\ NotifiedGood' /\ AwaitedHasEntry'
  <2>1. OwnSeqs' /\ AwaitedHasEntry'
    BY <1>1 DEF OwnSeqs, AwaitedHasEntry, Made
  <2>2. ClientTypeOK /\ notified' = notified
    BY <1>1 DEF EntriesInv, ClientOK
  <2> QED
    BY <1>7, <2>1, <2>2, NotifiedStaysGood
<1>13. ResultsGood'
  BY <1>1, <1>6 DEF ResultsGood
<1> QED
  BY <1>5, <1>8, <1>9, <1>10, <1>11, <1>12, <1>13

LEMMA ReplyKeepsIInv ==
    ASSUME IInv, Reply, UNCHANGED clientVars
    PROVE  IInv'
<1> USE DEF IInv
<1>1. /\ UNCHANGED <<c2s, dups, executed, pkt, tx, bytesWritten, txSize, ret, status>>
      /\ loop' \in {"push", "recv"}
  BY DEF Reply, txn
<1>2. \/ s2c' = s2c
      \/ s2c' = s2c \cup {tx.frame} /\ tx.frame # NoFrame
  BY DEF Reply, Send, ReplyIsThere
<1>3. WireTypeOK' /\ ServerTypeOK' /\ ReplyIsThere'
  BY <1>1, <1>2, TxFrame
  DEF EntriesInv, ClientOK, WireTypeOK, ServerTypeOK, HandleTypeOK, ReplyIsThere
<1>4. Stable
  BY <1>1, <1>3, ClientRests
<1>5. RequestsGood'
  BY <1>1, <1>4, FramesStayGood DEF EntriesInv, ServerTypeOK
<1>6. AnswersGood'
  <2>1. \A f \in s2c' : f \in ServerFrame /\ GoodAnswer(f)
    BY <1>2, <1>3 DEF AnswersGood, WireTypeOK
  <2>2. \A f \in s2c' : GoodAnswer(f)'
    BY <1>4, <2>1, StableFrames
  <2>3. tx'.frame # NoFrame => GoodAnswer(tx.frame)'
    BY <1>1, <1>4, TxFrame, StableFrames DEF AnswersGood, GoodAnswer, ServerTypeOK
  <2> QED
    BY <1>1, <2>2, <2>3 DEF AnswersGood
<1> QED
  BY <1>1, <1>3, <1>5, <1>6, ClientRests

LEMMA PushKeepsIInv ==
    ASSUME IInv, Push, UNCHANGED clientVars
    PROVE  IInv'
<1> USE DEF IInv
<1>1. /\ UNCHANGED <<c2s, dups, executed, pkt, txSize, status>>
      /\ loop' = "recv"
  BY DEF Push, Notify, NotifyFails
<1>2. ASSUME NEW e \in Events, Notify(e)
      PROVE  /\ tx' \in [frame : ServerFrame, len : Nat] /\ bytesWritten' \in Nat /\ ret' = 0
             /\ s2c' = s2c \cup {tx'.frame}
             /\ tx'.frame.call = NoCall /\ tx'.frame.seq = 0 /\ tx'.frame.rpc \in Events
  <2> DEFINE frame == [rpc |-> e, seq |-> 0, code |-> 0, call |-> NoCall]
  <2>1. PICK len \in PayloadLens : Write(frame, len) /\ Send(tx'.frame)
    BY <1>2 DEF Notify
  <2>2. len \in Nat /\ 0 \in Seqs
    BY HandleAssumption, WireAssumption DEF Seqs
  <2>3. frame \in ServerFrame
    BY <2>2, CodesInWire DEF ServerFrame
  <2> QED
    BY <2>1, <2>2, <2>3 DEF Write, Send, HeaderLen
<1>3. /\ tx' \in [frame : ServerFrame, len : Nat] \cup {Blank}
      /\ bytesWritten' \in Nat /\ ret' \in {0, -1}
      /\ \/ s2c' = s2c /\ tx' = Blank
         \/ /\ s2c' = s2c \cup {tx'.frame} /\ tx'.frame \in ServerFrame
            /\ tx'.frame.call = NoCall /\ tx'.frame.seq = 0 /\ tx'.frame.rpc \in Events
  BY <1>2 DEF Push, NotifyFails
<1>4. WireTypeOK' /\ ServerTypeOK' /\ ReplyIsThere'
  BY <1>1, <1>3
  DEF EntriesInv, ClientOK, WireTypeOK, ServerTypeOK, HandleTypeOK, ReplyIsThere
<1>5. Stable /\ \A f \in s2c : GoodAnswer(f)'
  BY <1>1, <1>4, ClientRests, StableFrames DEF AnswersGood, EntriesInv, ClientOK, WireTypeOK
<1>6. AnswersGood'
  BY <1>3, <1>5 DEF AnswersGood, GoodAnswer, Blank
<1>7. RequestsGood'
  <2>1. pkt \in Packet \cup {NoFrame} /\ c2s \subseteq Packet
    BY DEF ServerTypeOK, HandleTypeOK, EntriesInv, ClientOK, WireTypeOK
  <2> QED
    BY <1>1, <1>5, <2>1, StableFrames DEF RequestsGood, GoodRequest
<1> QED
  BY <1>1, <1>4, <1>6, <1>7, ClientRests

-----------------------------------------------------------------------------
(* The inductive invariant.                                                *)

LEMMA InitIInv == Init => IInv
<1> SUFFICES ASSUME Init PROVE IInv
  OBVIOUS
<1>1. EntriesInv
  BY InitEntries DEF Init
<1>2. NoFrame \notin Request
  BY WireAssumption
<1>3. ServerTypeOK
  BY DEF Init, ServerInit, HandleInit, ServerTypeOK, HandleTypeOK, Blank
<1> QED
  BY <1>1, <1>2, <1>3
  DEF Init, WireInit, ClientInit, ServerInit, HandleInit, IInv, OwnSeqs,
      RunsOfMade, RequestsGood, GoodRequest, AnswersGood, ReplyIsThere,
      ResultsGood, NotifiedGood, AwaitedHasEntry, Made, Blank

LEMMA NextIInv == IInv /\ [Next /\ OneLap]_vars => IInv'
<1> SUFFICES ASSUME IInv, [Next /\ OneLap]_vars PROVE IInv'
  OBVIOUS
<1>1. CASE Client /\ OneLap /\ UNCHANGED serverVars
  BY <1>1, SendKeepsIInv, ReceiveKeepsIInv, EndKeepsIInv DEF Client
<1>2. CASE Server /\ UNCHANGED clientVars
  BY <1>2, ServeKeepsIInv, ReplyKeepsIInv, PushKeepsIInv DEF Server
<1>3. CASE Network /\ UNCHANGED <<clientVars, serverVars>>
  BY <1>3, NetworkKeepsIInv
<1>4. CASE UNCHANGED vars
  BY <1>4
  DEF vars, wire, clientVars, serverVars, txn, IInv, EntriesInv, ClientOK, WireTypeOK,
      ClientTypeOK, ServerTypeOK, HandleTypeOK, EntryOwner, EventIdIsFree, EntryUnanswered,
      OwnSeqs, RunsOfMade, RequestsGood, GoodRequest, AnswersGood, GoodAnswer, ReplyIsThere,
      ResultsGood, NotifiedGood, AwaitedHasEntry, Made
<1> QED
  BY <1>1, <1>2, <1>3, <1>4 DEF Next

LEMMA Inductive == LapSpec => []IInv
BY InitIInv, NextIInv, PTL DEF LapSpec

\* Type correctness of client, network and server together.
THEOREM TypeCorrect == LapSpec => []TypeOK
<1>1. IInv => TypeOK
  BY DEF IInv, EntriesInv, ClientOK, TypeOK
<1> QED
  BY <1>1, Inductive, PTL

\* A call that waits for its answer keeps its entry, whoever else is answered,
\* cancelled or timed out meanwhile.
THEOREM AwaitedIsPending == LapSpec => []AwaitedHasEntry
BY Inductive, PTL DEF IInv

\* A call is answered only by the frame that answers its own request, and returns
\* only after the server ran its callback.
THEOREM AnswersCorrelate == LapSpec => []AnswersItsCall
<1>1. IInv => AnswersItsCall
  BY DEF IInv, ResultsGood, AnswersItsCall
<1> QED
  BY <1>1, Inductive, PTL

\* And on_notification gets the server's events, and the responses of methods that
\* have the bit of an event in their id, whose calls therefore never return.
THEOREM FramesReachTheirs == LapSpec => []Correlated
<1>1. IInv => AnswersItsCall
  BY DEF IInv, ResultsGood, AnswersItsCall
<1>2. ASSUME IInv PROVE NotifiesItsFrames
  <2> SUFFICES ASSUME NEW f \in notified
               PROVE  \/ f.call = NoCall /\ f.rpc \in Events
                      \/ /\ f.call \in Calls /\ f.rpc = rpcOf[f.call]
                         /\ f.rpc \in HighBit /\ executed[f.call] > 0
    BY DEF NotifiesItsFrames
  <2>1. f \in ServerFrame /\ f.rpc \in HighBit /\ GoodAnswer(f)
    BY <1>2 DEF IInv, EntriesInv, ClientOK, ClientTypeOK, NotifiedGood
  <2>2. f.call \in Calls \cup {NoCall} /\ f.rpc # SysError
    BY <2>1, RpcIdAssumption DEF ServerFrame
  <2> QED
    BY <2>1, <2>2 DEF GoodAnswer
<1>3. ASSUME IInv PROVE HighBitNeverReturns
  <2> SUFFICES ASSUME NEW c \in Calls, rpcOf[c] \in HighBit
               PROVE  state[c] # "returned" /\ future[c] # "result"
    BY DEF HighBitNeverReturns
  <2>1. ResultsGood
    BY <1>3 DEF IInv
  <2>2. answer[c] # NoFrame => answer[c].rpc \notin HighBit
    BY <2>1 DEF ResultsGood
  <2>3. future[c] = "result" => answer[c] # NoFrame /\ answer[c].rpc = rpcOf[c]
    BY <2>1 DEF ResultsGood
  <2> QED
    BY <2>1, <2>2, <2>3 DEF ResultsGood
<1> QED
  BY <1>1, <1>2, <1>3, Inductive, PTL DEF Correlated

-----------------------------------------------------------------------------
(* The system implements RpcContract during a lap: each step is a step of  *)
(* the contract or leaves its two variables alone.                         *)

\* The refinement mapping, as PySystem gives it to the contract.
Outcome == [c \in Calls |-> CASE state[c] = "idle" -> "idle"
                              [] state[c] = "awaiting" -> "waiting"
                              [] state[c] = "returned" -> "ok"
                              [] OTHER -> "failed"]

Ran == {c \in Calls : executed[c] > 0}

LEMMA ClientStateIsOutcome ==
    ASSUME ClientTypeOK, NEW c \in Calls
    PROVE  /\ state[c] = "idle" <=> Outcome[c] = "idle"
           /\ state[c] = "awaiting" <=> Outcome[c] = "waiting"
BY DEF ClientTypeOK, States, Outcome

\* A step that changes the state of one call changes its outcome accordingly.
LEMMA OutcomeOfOne ==
    ASSUME ClientTypeOK, NEW c \in Calls, NEW v \in States, state' = [state EXCEPT ![c] = v]
    PROVE  Outcome' = [Outcome EXCEPT ![c] = CASE v = "idle" -> "idle"
                                               [] v = "awaiting" -> "waiting"
                                               [] v = "returned" -> "ok"
                                               [] OTHER -> "failed"]
BY DEF ClientTypeOK, Outcome

LEMMA SendMakes ==
    ASSUME ClientTypeOK, NEW c \in Calls, SendRequestAsync(c), UNCHANGED serverVars
    PROVE  Contract!Make(c)
<1>1. PICK made \in {"awaiting", "unsent"} : state' = [state EXCEPT ![c] = made]
  BY DEF SendRequestAsync
<1>2. state[c] = "idle" /\ Ran' = Ran
  BY DEF SendRequestAsync, serverVars, Ran
<1>3. \E v \in {"waiting", "sent", "failed"} : Outcome' = [Outcome EXCEPT ![c] = v]
  BY <1>1, OutcomeOfOne DEF States
<1>4. Outcome[c] = "idle"
  BY <1>2, ClientStateIsOutcome
<1> QED
  BY <1>2, <1>3, <1>4 DEF Contract!Make, Outcome, Ran

\* A call whose coroutine resumes ends; with "returned" only if its callback ran.
LEMMA ResumeEnds ==
    ASSUME IInv, IInv', NEW c \in Calls, Resumes(c), UNCHANGED serverVars
    PROVE  Contract!End(c)
<1>1. ClientTypeOK
  BY DEF IInv, EntriesInv, ClientOK
<1>2. PICK v \in {"returned", "raised", "timedout", "cancelled"} : state' = [state EXCEPT ![c] = v]
  BY DEF Resumes, ResumeAnswered, ResumeTimedOut, ResumeCancelled
<1>3. state[c] = "awaiting" /\ executed' = executed
  BY DEF Resumes, ResumeAnswered, ResumeTimedOut, ResumeCancelled, Resume, serverVars
<1>4. v = "returned" => c \in Ran
  BY <1>1, <1>2, <1>3 DEF IInv, ResultsGood, ClientTypeOK, Ran
<1>5. \E end \in {"ok", "failed"} :
        /\ end = "ok" => c \in Ran
        /\ Outcome' = [Outcome EXCEPT ![c] = end]
  BY <1>1, <1>2, <1>4, OutcomeOfOne DEF States
<1>6. Outcome[c] = "waiting" /\ Ran' = Ran
  BY <1>1, <1>3, ClientStateIsOutcome DEF Ran
<1> QED
  BY <1>5, <1>6 DEF Contract!End, Outcome, Ran

LEMMA ServeRuns ==
    ASSUME IInv, Receive, UNCHANGED clientVars
    PROVE  (\E c \in Calls : Contract!Run(c)) \/ UNCHANGED Contract!vars
<1>1. PICK p \in c2s : Handle(p)
  BY DEF Receive
<1>2. p \in Packet /\ GoodRequest(p) /\ ClientTypeOK /\ HandleTypeOK
  BY DEF IInv, EntriesInv, ClientOK, WireTypeOK, ServerTypeOK, RequestsGood
<1>3. Effect(p)
  BY <1>1, <1>2, HandleEffect
<1>4. Outcome' = Outcome
  BY DEF clientVars, Outcome
<1>5. CASE executed' = executed
  BY <1>4, <1>5 DEF Contract!vars, Outcome
<1>6. CASE p \in Request /\ executed' = [executed EXCEPT ![p.call] = @ + 1]
  <2>1. p.call \in Calls /\ Outcome[p.call] # "idle"
    BY <1>2, <1>6, ClientStateIsOutcome DEF GoodRequest, Made, Request
  <2>2. Ran' = Ran \cup {p.call}
    BY <1>2, <1>6, <2>1 DEF HandleTypeOK, Ran
  <2>3. Contract!Run(p.call)
    BY <1>4, <2>1, <2>2 DEF Contract!Run, Outcome, Ran
  <2> QED
    BY <2>1, <2>3
<1> QED
  BY <1>3, <1>5, <1>6 DEF Effect

LEMMA InitRefines == Init => Contract!Init
<1> SUFFICES ASSUME Init PROVE Contract!Init
  OBVIOUS
<1>1. Outcome = [c \in Calls |-> "idle"]
  BY DEF Init, ClientInit, Outcome
<1>2. Ran = {}
  BY DEF Init, ServerInit, HandleInit, Ran
<1> QED
  BY <1>1, <1>2 DEF Contract!Init, Outcome, Ran

LEMMA StepRefines == IInv /\ IInv' /\ [Next /\ OneLap]_vars => [Contract!Next]_(Contract!vars)
<1> SUFFICES ASSUME IInv, IInv', [Next /\ OneLap]_vars
             PROVE  Contract!Next \/ UNCHANGED Contract!vars
  BY DEF Contract!vars
<1>1. ClientTypeOK
  BY DEF IInv, EntriesInv, ClientOK
<1>2. ASSUME UNCHANGED <<state, executed>> PROVE UNCHANGED Contract!vars
  BY <1>2 DEF Contract!vars
<1>3. CASE Client /\ UNCHANGED serverVars
  <2>1. ASSUME NEW c \in Calls, SendRequestAsync(c) PROVE Contract!Next
    BY <1>1, <1>3, <2>1, SendMakes DEF Contract!Next
  <2>2. ASSUME NEW c \in Calls, Deadline(c) \/ Cancel(c) PROVE UNCHANGED Contract!vars
    BY <1>2, <1>3, <2>2 DEF Deadline, Cancel, Interrupt, serverVars
  <2>3. ASSUME NEW c \in Calls, Resumes(c) PROVE Contract!Next
    BY <1>3, <2>3, ResumeEnds DEF Contract!Next
  <2>4. ASSUME ReceiveRawDatagram PROVE UNCHANGED Contract!vars
    BY <1>2, <1>3, <2>4 DEF ReceiveRawDatagram, serverVars
  <2> QED
    BY <1>3, <2>1, <2>2, <2>3, <2>4 DEF Client
<1>4. CASE Receive /\ UNCHANGED clientVars
  BY <1>4, ServeRuns DEF Contract!Next
<1>5. CASE (Reply \/ Push) /\ UNCHANGED clientVars
  BY <1>2, <1>5 DEF Reply, Push, clientVars
<1>6. CASE UNCHANGED <<clientVars, serverVars>>
  BY <1>2, <1>6 DEF clientVars, serverVars
<1>7. CASE UNCHANGED vars
  BY <1>6, <1>7 DEF vars
<1> QED
  BY <1>3, <1>4, <1>5, <1>6, <1>7 DEF Next, Server, Network

\* The Python client, network and server keep the contract of a remote call, with
\* deadlines, cancellation and failing sends, for any number of calls.
THEOREM SystemKeepsContract == LapSpec => ImplementsContract
BY Inductive, InitRefines, StepRefines, PTL DEF LapSpec, ImplementsContract, Contract!Spec
=============================================================================
