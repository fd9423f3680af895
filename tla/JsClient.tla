------------------------------ MODULE JsClient ------------------------------
(***************************************************************************)
(* The generated JavaScript client (WindRpcClient.js): sendRequest() and   *)
(* its timer, _dispatchFrame(), resetAccumulator(), and the frames that a  *)
(* buildXxxFrame() helper builds for a request without a promise.          *)
(* JavaScript runs one callback at a time, so each of these is one step.   *)
(***************************************************************************)
EXTENDS WindRpcWire

VARIABLES
    seqId,    \* this.seqId, the last sequence id handed out
    pending,  \* this._pendingRequests: the call waiting on a sequence id
    state,    \* state of the promise of each call
    seqOf,    \* reqSeqId of each call's closure
    rpcOf,    \* the method of each call
    timer,    \* which calls have a setTimeout outstanding
    answer    \* the frame that settled a call's promise, NoFrame if none did

clientVars == <<seqId, pending, state, seqOf, rpcOf, timer, answer>>

\* "idle" before the call is made, "sent" for a frame sent without a promise.
States == {"idle", "sent", "waiting", "resolved", "rejected"}

ClientTypeOK ==
    /\ seqId \in Seqs
    /\ pending \in [Seqs -> Calls \cup {NoCall}]
    /\ state \in [Calls -> States]
    /\ seqOf \in [Calls -> Seqs]
    /\ rpcOf \in [Calls -> Methods]
    /\ timer \in [Calls -> BOOLEAN]
    /\ answer \in [Calls -> ServerFrame \cup {NoFrame}]

ClientInit ==
    /\ seqId = 0
    /\ pending = [s \in Seqs |-> NoCall]
    /\ state = [c \in Calls |-> "idle"]
    /\ seqOf = [c \in Calls |-> 0]
    /\ rpcOf \in [Calls -> Methods]
    /\ timer = [c \in Calls |-> FALSE]
    /\ answer = [c \in Calls |-> NoFrame]

-----------------------------------------------------------------------------
GetNextSeqId == (seqId + 1) % SeqSpace

\* buildRawFrame() takes the next sequence id for call c.
BuildFrame(c) ==
    /\ state[c] = "idle"
    /\ seqId' = GetNextSeqId
    /\ seqOf' = [seqOf EXCEPT ![c] = seqId']

Transmit(c) ==
    \E body \in {"good", "bad"} :
        c2s' = c2s \cup {[rpc |-> rpcOf[c], seq |-> seqId', body |-> body, call |-> c]}

\* sendRequest(): the pending entry replaces whatever its sequence id held.
\* If sendFn throws, the promise is rejected and entry and timer stay behind.
SendRequest(c) ==
    /\ BuildFrame(c)
    /\ timer' = [timer EXCEPT ![c] = TRUE]
    /\ pending' = [pending EXCEPT ![seqId'] = c]
    /\ \/ Transmit(c) /\ state' = [state EXCEPT ![c] = "waiting"]
       \/ UNCHANGED c2s /\ state' = [state EXCEPT ![c] = "rejected"]
    /\ UNCHANGED <<rpcOf, answer, s2c, dups>>

\* A frame of buildXxxFrame(), sent by the application itself: no promise.
SendFrame(c) ==
    /\ BuildFrame(c)
    /\ state' = [state EXCEPT ![c] = "sent"]
    /\ Transmit(c)
    /\ UNCHANGED <<pending, rpcOf, timer, answer, s2c, dups>>

\* A promise settles once; settling it again has no effect.
Settle(c, outcome, frame) ==
    IF state[c] = "waiting"
    THEN /\ state' = [state EXCEPT ![c] = outcome]
         /\ answer' = [answer EXCEPT ![c] = frame]
    ELSE UNCHANGED <<state, answer>>

\* Mutant: the timer rejects and leaves the entry.
Timeout_KeepsEntry(c) ==
    /\ timer[c]
    /\ timer' = [timer EXCEPT ![c] = FALSE]
    /\ Settle(c, "rejected", NoFrame)
    /\ UNCHANGED <<seqId, pending, seqOf, rpcOf, wire>>

\* Mutant: the timer deletes the entry of the latest sequence id.
Timeout_LatestSeq(c) ==
    /\ timer[c]
    /\ timer' = [timer EXCEPT ![c] = FALSE]
    /\ pending' = [pending EXCEPT ![seqId] = NoCall]
    /\ Settle(c, "rejected", NoFrame)
    /\ UNCHANGED <<seqId, seqOf, rpcOf, wire>>

\* Mutant: a first timeout sends the request again.
Timeout_Retries(c) ==
    /\ timer[c]
    /\ c2s' = c2s \cup {[rpc |-> rpcOf[c], seq |-> seqOf[c], body |-> "good", call |-> c]}
    /\ UNCHANGED <<clientVars, s2c, dups>>

\* The timer's callback deletes the entry of its sequence id, whoever owns it.
Timeout(c) ==
    /\ timer[c]
    /\ timer' = [timer EXCEPT ![c] = FALSE]
    /\ pending' = [pending EXCEPT ![seqOf[c]] = NoCall]
    /\ Settle(c, "rejected", NoFrame)
    /\ UNCHANGED <<seqId, seqOf, rpcOf, wire>>

\* Mutant: an error frame whose Status does not decode settles nothing.
DispatchPending_ErrorDropped(f) ==
    LET c == pending[f.seq] IN
    /\ c # NoCall
    /\ pending' = [pending EXCEPT ![f.seq] = NoCall]
    /\ timer' = [timer EXCEPT ![c] = FALSE]
    /\ IF f.rpc = SysError THEN UNCHANGED <<state, answer>>
       ELSE Settle(c, "resolved", f)

\* Mutant: the reserved id is not looked for.
DispatchPending_NoErrorCheck(f) ==
    LET c == pending[f.seq] IN
    /\ c # NoCall
    /\ pending' = [pending EXCEPT ![f.seq] = NoCall]
    /\ timer' = [timer EXCEPT ![c] = FALSE]
    /\ Settle(c, "resolved", f)

\* _dispatchFrame() of a frame whose sequence id has a pending entry.
DispatchPending(f) ==
    LET c == pending[f.seq] IN
    /\ c # NoCall
    /\ pending' = [pending EXCEPT ![f.seq] = NoCall]
    /\ timer' = [timer EXCEPT ![c] = FALSE]
    /\ Settle(c, IF f.rpc = SysError THEN "rejected" ELSE "resolved", f)

\* Every other frame is handed to onNotification: events, but late answers too.
DispatchNotification(f) ==
    /\ pending[f.seq] = NoCall
    /\ UNCHANGED <<pending, timer, state, answer>>

Dispatch ==
    /\ \E f \in s2c : /\ Take(f, s2c, s2c')
                      /\ DispatchPending(f) \/ DispatchNotification(f)
    /\ UNCHANGED <<seqId, seqOf, rpcOf, c2s>>

\* Mutant: the reset clears map and timers and rejects nothing.
ResetAccumulator_NoReject ==
    LET rejected == {pending[s] : s \in Seqs} \ {NoCall} IN
    /\ rejected # {}
    /\ pending' = [s \in Seqs |-> NoCall]
    /\ timer' = [c \in Calls |-> timer[c] /\ c \notin rejected]
    /\ UNCHANGED <<seqId, state, seqOf, rpcOf, answer, wire>>

\* Mutant: the reset rejects the promises, whose timers go on.
ResetAccumulator_LeavesTimers ==
    LET rejected == {pending[s] : s \in Seqs} \ {NoCall} IN
    /\ rejected # {}
    /\ pending' = [s \in Seqs |-> NoCall]
    /\ state' = [c \in Calls |->
                    IF c \in rejected /\ state[c] = "waiting" THEN "rejected"
                    ELSE state[c]]
    /\ UNCHANGED <<seqId, seqOf, rpcOf, timer, answer, wire>>

\* resetAccumulator() rejects every pending request; seqId goes on counting.
ResetAccumulator ==
    LET rejected == {pending[s] : s \in Seqs} \ {NoCall} IN
    /\ rejected # {}
    /\ pending' = [s \in Seqs |-> NoCall]
    /\ timer' = [c \in Calls |-> timer[c] /\ c \notin rejected]
    /\ state' = [c \in Calls |->
                    IF c \in rejected /\ state[c] = "waiting" THEN "rejected"
                    ELSE state[c]]
    /\ UNCHANGED <<seqId, seqOf, rpcOf, answer, wire>>

Client ==
    \/ \E c \in Calls : SendRequest(c) \/ SendFrame(c) \/ Timeout(c)
    \/ Dispatch
    \/ ResetAccumulator

-----------------------------------------------------------------------------
\* A call its caller waits for has its timer running: no answer, reset or
\* other call's timer takes the last thing away that would end it.  (The
\* closures of sendRequest, WindRpcClient.js:206-213.)
WaitingHasTimer == \A c \in Calls : state[c] = "waiting" => timer[c]

\* Every entry of the pending map goes when a running timer fires, also that
\* of a request whose sendFn threw: the map holds nothing for ever.
EntryHasTimer ==
    \A s \in Seqs : pending[s] # NoCall =>
        timer[pending[s]] /\ seqOf[pending[s]] = s
=============================================================================
