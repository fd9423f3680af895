----------------------------- MODULE SmartMerge -----------------------------
(***************************************************************************)
(* Re-generating a server the application already lives in: windrpc.c with *)
(* its dispatch table is written anew on every run of `windrpc_gen.py      *)
(* server', windrpc_callbacks.c belongs to the developer and is merged by  *)
(* write_smart_merge().  The author keeps changing the specification, the  *)
(* developer fills in the callbacks, a run may be killed between files.    *)
(*                                                                         *)
(* Of windrpc_callbacks.c the model keeps the blocks that blank lines      *)
(* separate: how a block starts, the handler it defines, and who wrote it. *)
(* Section titles of services and additions are left out: they define      *)
(* nothing, and a merge skips them.                                        *)
(***************************************************************************)
EXTENDS Naturals, FiniteSets, SequencesExt

CONSTANTS
    Rpcs,       \* the RPCs an author may write
    Subscribed, \* the handler of a notification, for each name
    Inside,     \* <<h, g>>: the name of handler h is part of that of g
    MaxRuns,    \* bound: runs of the generator
    MaxEdits    \* bound: edits of the specification

NoFile == <<>>   \* windrpc_callbacks.c or its backup does not exist
NoName == "none"

\* windrpc_on_<name>() or windrpc_on_subscribe_<name>(): no service name in it.
Handler(r) == IF r.notifies THEN Subscribed[r.name] ELSE r.name

Handlers == {Handler(r) : r \in Rpcs}

ASSUME MergeAssumption ==
    /\ Rpcs \subseteq [service : STRING, name : STRING, notifies : BOOLEAN]
    /\ NoName \notin Handlers
    /\ MaxRuns \in Nat /\ MaxEdits \in Nat

VARIABLES
    spec,      \* the RPCs of the specification, in its order
    table,     \* the handlers the generated windrpc.c calls
    callbacks, \* the blocks of windrpc_callbacks.c
    backup,    \* the blocks of windrpc_callbacks.c.bak
    run,       \* the last run: "done", "interrupted", or "halfway" between files
    runs,
    edits,
    created    \* history: the RPCs the callbacks were first generated for

vars == <<spec, table, callbacks, backup, run, runs, edits, created>>

\* check_uniqueness(): within a service no two RPCs have one name.
Unique(rpcs) ==
    \A i, j \in DOMAIN rpcs :
        i # j => rpcs[i].service # rpcs[j].service \/ rpcs[i].name # rpcs[j].name

\* The RPCs of a service stand together.
Grouped(rpcs) ==
    \A i, k \in DOMAIN rpcs : \A j \in i .. k :
        rpcs[i].service = rpcs[k].service => rpcs[j].service = rpcs[i].service

Block == [starts : {"/**", "#include", "LOG_MODULE_REGISTER"},
          name : Handlers \cup {NoName}, by : {"generator", "developer"}]

TypeOK ==
    /\ spec \in Seq(Rpcs) /\ Unique(spec)
    /\ table \subseteq Handlers
    /\ callbacks \in Seq(Block) /\ backup \in Seq(Block)
    /\ run \in {"done", "halfway", "interrupted"}
    /\ runs \in 0 .. MaxRuns /\ edits \in 0 .. MaxEdits
    /\ created \in Seq(Rpcs) /\ Unique(created)

Init ==
    /\ spec = <<>>
    /\ table = {}
    /\ callbacks = NoFile /\ backup = NoFile
    /\ run = "done"
    /\ runs = 0 /\ edits = 0
    /\ created = <<>>

-----------------------------------------------------------------------------
Generated(starts, name) == [starts |-> starts, name |-> name, by |-> "generator"]

Preamble ==
    <<Generated("/**", NoName), Generated("#include", NoName),
      Generated("LOG_MODULE_REGISTER", NoName)>>

\* Mutant: the last RPC is left out.
Skeleton_OneShort(rpcs) ==
    Preamble \o [i \in 1 .. Len(rpcs) - 1 |-> Generated("/**", Handler(rpcs[i]))]

\* _generate_callbacks_skeleton(): a block for every RPC of every service, each
\* with a comment in front.
Skeleton(rpcs) ==
    Preamble \o [i \in DOMAIN rpcs |-> Generated("/**", Handler(rpcs[i]))]

\* Mutant: whatever has a name is added, be it there or not.
IsAddition_Blind(block, file) == block.name # NoName

Skipped(block) == block.starts \in {"/**", "#include", "LOG_MODULE_REGISTER"}

\* `key_token in existing_content'
Mentions(file, name) ==
    \E i \in DOMAIN file : file[i].name = name \/ <<name, file[i].name>> \in Inside

IsAddition(block, file) ==
    /\ ~ Skipped(block)
    /\ block.name # NoName
    /\ ~ Mentions(file, block.name)

\* The blocks of a text to add, in their order.
Additions(text, file) ==
    LET added[n \in 0 .. Len(text)] ==
            IF n = 0 THEN <<>>
            ELSE IF IsAddition(text[n], file) THEN Append(added[n - 1], text[n])
            ELSE added[n - 1]
    IN added[Len(text)]

\* Mutant: the skeleton replaces the file.
Merge_Replaces ==
    /\ callbacks # NoFile
    /\ \/ backup' = callbacks
       \/ UNCHANGED backup
    /\ callbacks' = Skeleton(spec)
    /\ UNCHANGED created

\* write_smart_merge() on a file that exists.  A backup that cannot be written
\* is only warned about.
Merge ==
    /\ callbacks # NoFile
    /\ \/ backup' = callbacks
       \/ UNCHANGED backup
    /\ callbacks' = callbacks \o Additions(Skeleton(spec), callbacks)
    /\ UNCHANGED created

Called(rpcs) == {Handler(rpcs[i]) : i \in DOMAIN rpcs}

Create ==
    /\ callbacks = NoFile
    /\ callbacks' = Skeleton(spec)
    /\ created' = spec
    /\ UNCHANGED backup

WriteServer ==
    /\ run # "halfway" /\ runs < MaxRuns
    /\ runs' = runs + 1
    /\ table' = Called(spec)
    /\ run' = "halfway"
    /\ UNCHANGED <<spec, callbacks, backup, edits, created>>

WriteCallbacks ==
    /\ run = "halfway"
    /\ Create \/ Merge
    /\ run' = "done"
    /\ UNCHANGED <<spec, table, runs, edits>>

\* The run is interrupted after windrpc.c.
Interrupt ==
    /\ run = "halfway"
    /\ run' = "interrupted"
    /\ UNCHANGED <<spec, table, callbacks, backup, runs, edits, created>>

\* The author adds an RPC to a service, or removes one; the validator accepts
\* two services with RPCs of one name.
EditSpec ==
    /\ edits < MaxEdits /\ run # "halfway"
    /\ edits' = edits + 1
    /\ \/ \E r \in Rpcs, i \in 1 .. Len(spec) + 1 : spec' = InsertAt(spec, i, r)
       \/ \E i \in DOMAIN spec : spec' = RemoveAt(spec, i)
    /\ Unique(spec') /\ Grouped(spec')
    /\ UNCHANGED <<table, callbacks, backup, run, runs, created>>

\* The developer fills in a handler, or writes one that is missing.
Implement ==
    /\ callbacks # NoFile
    /\ \/ \E i \in DOMAIN callbacks :
            /\ callbacks[i].name # NoName
            /\ callbacks' = [callbacks EXCEPT ![i].by = "developer"]
       \/ \E h \in Handlers :
            /\ \A i \in DOMAIN callbacks : callbacks[i].name # h
            /\ callbacks' = Append(callbacks, [starts |-> "/**", name |-> h,
                                              by |-> "developer"])
    /\ UNCHANGED <<spec, table, backup, run, runs, edits, created>>

Next ==
    \/ WriteServer \/ WriteCallbacks \/ Interrupt
    \/ EditSpec \/ Implement

Spec == Init /\ [][Next]_vars

-----------------------------------------------------------------------------
Defined(file) == {file[i].name : i \in DOMAIN file} \ {NoName}

\* No run and no edit of the specification takes away what the developer wrote.
DeveloperCodeKept ==
    [][\A i \in DOMAIN callbacks : callbacks[i].by = "developer" =>
            i \in DOMAIN callbacks' /\ callbacks'[i] = callbacks[i]]_vars

\* Two blocks define one handler only if both are of the skeleton the file was
\* created from, and it was written for two RPCs of that name (of two services, or
\* one behind subscribe_): no later run, no edit of the specification and no RPC
\* that is removed and added again defines one twice.  (generator.py:710, :662.)
DefinedOnce ==
    \A i, j \in DOMAIN callbacks :
        i < j /\ callbacks[i].name = callbacks[j].name /\ callbacks[i].name # NoName =>
            /\ j <= Len(Preamble) + Len(created)
            /\ \E r, q \in ToSet(created) :
                r # q /\ Handler(r) = callbacks[i].name /\ Handler(q) = callbacks[i].name

\* As long as the table asks for nothing the file was not created for, every
\* handler it calls is defined.
LinksAsCreated == callbacks # NoFile /\ table \subseteq Called(created)
                    => table \subseteq Defined(callbacks)

-----------------------------------------------------------------------------
\* server/generator.py:671: new RPCs and services are appended, so that after
\* a whole run every handler the table calls is defined.
NewRpcsMerged == run = "done" => table \subseteq Defined(callbacks)
=============================================================================
