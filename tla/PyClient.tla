------------------------------ MODULE PyClient ------------------------------
(***************************************************************************)
(* The generated Python client (WindRpcClient.py, from client/python.py):  *)
(* send_request_async() up to and after its wait_for(), and                *)
(* receive_raw_datagram().  asyncio runs one callback at a time; the       *)
(* coroutine gives way only in wait_for(), so a call takes a step to send, *)
(* a step of the loop that ends the wait, and a step to resume.            *)
(***************************************************************************)
EXTENDS WindRpcWire

VARIABLES
    nextSeqId, \* self._next_seq_id
    pending,   \* self._pending_requests: the call whose future is stored
    future,    \* state of the future of each call
    state,     \* state of the coroutine of each call
    interrupt, \* what ended the wait_for() of a call before its future did
    seqOf,     \* seq_id of each call
    rpcOf,     \* rpc_id of each call
    answer,    \* the frame a call's future was completed with
    notified   \* the frames handed to on_notification

clientVars == <<nextSeqId, pending, future, state, interrupt, seqOf, rpcOf,
                answer, notified>>

Futures == {"none", "pending", "result", "exception", "cancelled"}

\* "unsent": transport_send_fn raised; "cancelled": the caller's task was.
States == {"idle", "awaiting", "returned", "raised", "timedout",
           "unsent", "cancelled"}

ClientTypeOK ==
    /\ nextSeqId \in Seqs
    /\ pending \in [Seqs -> Calls \cup {NoCall}]
    /\ future \in [Calls -> Futures]
    /\ state \in [Calls -> States]
    /\ interrupt \in [Calls -> {"none", "deadline", "cancel"}]
    /\ seqOf \in [Calls -> Seqs]
    /\ rpcOf \in [Calls -> Methods]
    /\ answer \in [Calls -> ServerFrame \cup {NoFrame}]
    /\ notified \subseteq ServerFrame

ClientInit ==
    /\ nextSeqId = 1
    /\ pending = [s \in Seqs |-> NoCall]
    /\ future = [c \in Calls |-> "none"]
    /\ state = [c \in Calls |-> "idle"]
    /\ interrupt = [c \in Calls |-> "none"]
    /\ seqOf = [c \in Calls |-> 0]
    /\ rpcOf \in [Calls -> Methods]
    /\ answer = [c \in Calls |-> NoFrame]
    /\ notified = {}

-----------------------------------------------------------------------------
\* Mutant: the next id is computed and not stored.
GetNextSeqId_Stuck == nextSeqId

\* Mutant: the counter goes through 0.
GetNextSeqId_ThroughZero == (nextSeqId + 1) % SeqSpace

\* _get_next_seq_id(): 1 .. 65535 and round again, never 0.
GetNextSeqId == (nextSeqId % (SeqSpace - 1)) + 1

Transmit(c) ==
    \E body \in {"good", "bad"} :
        c2s' = c2s \cup {[rpc |-> rpcOf[c], seq |-> nextSeqId,
                          body |-> body, call |-> c]}

\* send_request_async() up to wait_for().  transport_send_fn is called after
\* the future is stored and outside the try: if it raises, the entry stays.
SendRequestAsync(c) ==
    /\ state[c] = "idle"
    /\ nextSeqId' = GetNextSeqId
    /\ seqOf' = [seqOf EXCEPT ![c] = nextSeqId]
    /\ future' = [future EXCEPT ![c] = "pending"]
    /\ pending' = [pending EXCEPT ![nextSeqId] = c]
    /\ \/ Transmit(c) /\ state' = [state EXCEPT ![c] = "awaiting"]
       \/ UNCHANGED c2s /\ state' = [state EXCEPT ![c] = "unsent"]
    /\ UNCHANGED <<interrupt, rpcOf, answer, notified, s2c, dups>>

\* pop() of the frame's entry; a future that is done already stays as it is.
Complete(f, done) ==
    LET c == pending[f.seq] IN
    /\ c # NoCall
    /\ pending' = [pending EXCEPT ![f.seq] = NoCall]
    /\ IF future[c] = "pending"
       THEN /\ future' = [future EXCEPT ![c] = done]
            /\ answer' = [answer EXCEPT ![c] = f]
       ELSE UNCHANGED <<future, answer>>
    /\ UNCHANGED notified

Ignore(f) ==
    /\ pending[f.seq] = NoCall
    /\ UNCHANGED <<pending, future, answer, notified>>

\* Mutant: an error frame completes the future like a response.
ReceiveError_AsResult(f) ==
    /\ f.rpc = SysError
    /\ Complete(f, "result") \/ Ignore(f)

ReceiveError(f) ==
    /\ f.rpc = SysError
    /\ Complete(f, "exception") \/ Ignore(f)

\* Bit 7 of the RPC id's low byte is taken for the mark of an event.
ReceiveNotification(f) ==
    /\ f.rpc \in HighBit
    /\ notified' = notified \cup {f}
    /\ UNCHANGED <<pending, future, answer>>

ReceiveResponse(f) ==
    /\ f.rpc \notin HighBit \cup {SysError}
    /\ Complete(f, "result") \/ Ignore(f)

ReceiveRawDatagram ==
    /\ \E f \in s2c :
        /\ Take(f, s2c, s2c')
        /\ ReceiveError(f) \/ ReceiveNotification(f) \/ ReceiveResponse(f)
    /\ UNCHANGED <<nextSeqId, state, interrupt, seqOf, rpcOf, c2s>>

\* The deadline of wait_for(), or a cancel() of the caller's task, interrupts
\* the wait; that the future may just have been completed does not help it.
Interrupt(c, cause) ==
    /\ state[c] = "awaiting" /\ interrupt[c] = "none"
    /\ interrupt' = [interrupt EXCEPT ![c] = cause]
    /\ future' = [future EXCEPT ![c] = IF @ = "pending" THEN "cancelled" ELSE @]
    /\ UNCHANGED <<nextSeqId, pending, state, seqOf, rpcOf, answer, notified, wire>>

\* Mutant: only calls found in _pending_requests are timed out.
Deadline_OfEntries(c) == pending[seqOf[c]] = c /\ Interrupt(c, "deadline")

Deadline(c) == Interrupt(c, "deadline")
Cancel(c) == Interrupt(c, "cancel")

\* The coroutine resumes in wait_for().
Resume(c) ==
    /\ state[c] = "awaiting" /\ future[c] # "pending"
    /\ UNCHANGED <<nextSeqId, future, interrupt, seqOf, rpcOf, answer, notified, wire>>

\* ... which returns the frame or raises the exception of an error frame;
ResumeAnswered(c) ==
    /\ Resume(c) /\ interrupt[c] = "none"
    /\ state' = [state EXCEPT ![c] =
                    IF future[c] = "result" THEN "returned" ELSE "raised"]
    /\ UNCHANGED pending

\* Mutant: the entry stays.
ResumeTimedOut_KeepsEntry(c) ==
    /\ Resume(c) /\ interrupt[c] = "deadline"
    /\ state' = [state EXCEPT ![c] = "timedout"]
    /\ UNCHANGED pending

\* Mutant: a timeout clears _pending_requests.
ResumeTimedOut_ClearsAll(c) ==
    /\ Resume(c) /\ interrupt[c] = "deadline"
    /\ state' = [state EXCEPT ![c] = "timedout"]
    /\ pending' = [s \in Seqs |-> NoCall]

\* ... or TimeoutError: the entry of the sequence id is popped if there is one;
ResumeTimedOut(c) ==
    /\ Resume(c) /\ interrupt[c] = "deadline"
    /\ state' = [state EXCEPT ![c] = "timedout"]
    /\ pending' = [pending EXCEPT ![seqOf[c]] = NoCall]

\* ... or CancelledError, which no handler catches: the entry stays.
ResumeCancelled(c) ==
    /\ Resume(c) /\ interrupt[c] = "cancel"
    /\ state' = [state EXCEPT ![c] = "cancelled"]
    /\ UNCHANGED pending

Resumes(c) == ResumeAnswered(c) \/ ResumeTimedOut(c) \/ ResumeCancelled(c)

Client ==
    \/ \E c \in Calls : \/ SendRequestAsync(c)
                        \/ Deadline(c) \/ Cancel(c)
                        \/ Resumes(c)
    \/ ReceiveRawDatagram

-----------------------------------------------------------------------------
\* Entries outlive their call only where the code has no clean-up: after a
\* transport_send_fn that raised, and after a cancelled await.  A call that
\* returned, raised or timed out has left nothing in _pending_requests.
EntryOwner ==
    \A s \in Seqs : pending[s] # NoCall =>
        /\ seqOf[pending[s]] = s
        /\ state[pending[s]] \in {"awaiting", "unsent", "cancelled"}

\* The reserved id 0 is never a call's: a notification, which bears it, finds
\* no entry, even after the counter has gone round.  (python.py:163.)
EventIdIsFree == pending[0] = NoCall
=============================================================================
