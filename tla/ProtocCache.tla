----------------------------- MODULE ProtocCache -----------------------------
(***************************************************************************)
(* ~/.windrpc/bin, where ProtocResolver keeps a downloaded protoc, shared  *)
(* by all runs of the generator on the machine.  A run that does not find  *)
(* the binary downloads the archive, extracts bin/protoc, moves it to its  *)
(* place and makes it executable; every run uses the same three paths.     *)
(*                                                                         *)
(* A file's `writer' is the run that created or truncated it last and has  *)
(* not finished: until then it is not whole, whatever others wrote to it.  *)
(***************************************************************************)
CONSTANTS
    Runs,  \* of the generator, on one machine
    NoRun

ASSUME NoRunAssumption == NoRun \notin Runs

VARIABLES
    at,         \* what each run does next
    zip,        \* the archive: no file or one, like the next two
    extracted,  \* bin/protoc below the cache directory
    target,     \* the protoc that runs look for
    reading,    \* the runs that extract from the file which is the archive now
    holes,      \* the runs whose archive was not whole while they extracted
    overlapped, \* history: the runs that did not install alone
    brokenOff   \* history: a run was killed while installing, or failed to extract

history == <<overlapped, brokenOff>>
cacheVars == <<at, zip, extracted, target, reading, holes, overlapped, brokenOff>>

None == {}
File == [whole : BOOLEAN, exec : BOOLEAN, writer : Runs \cup {NoRun}]

Installing == {"download", "fetch", "unzip", "extract", "examine", "replace", "remove",
               "move", "clean", "chmod", "unlink"}
Busy == {r \in Runs : at[r] \in Installing}

CacheTypeOK ==
    /\ at \in [Runs -> Installing \cup {"idle", "found", "ready", "failed"}]
    /\ zip \subseteq File /\ extracted \subseteq File /\ target \subseteq File
    /\ reading \subseteq Runs /\ holes \subseteq Runs
    /\ overlapped \subseteq Runs /\ brokenOff \in BOOLEAN

CacheInit ==
    /\ at = [r \in Runs |-> "idle"]
    /\ zip = None /\ extracted = None /\ target = None
    /\ reading = {} /\ holes = {} /\ overlapped = {} /\ brokenOff = FALSE

Opened(r) == {[whole |-> FALSE, exec |-> FALSE, writer |-> r]}

\* The file after its writer r has written all of it, or has given up.
Closed(file, r, done) ==
    {IF f.writer = r THEN [f EXCEPT !.writer = NoRun, !.whole = done] ELSE f : f \in file}

Goto(r, step) == at' = [at EXCEPT ![r] = step]

IsWhole(file) == \E f \in file : f.whole

\* An executable that is still open for writing cannot be started.
Usable == \E f \in target : f.whole /\ f.exec

-----------------------------------------------------------------------------
(* get_protoc_runner() *)

Look(r) ==
    /\ at[r] = "idle"
    /\ Goto(r, IF target # None THEN "found" ELSE "download")
    /\ overlapped' =
        IF target # None THEN overlapped \ {r}
        ELSE IF Busy = {} THEN overlapped \ {r} ELSE overlapped \cup Busy \cup {r}
    /\ UNCHANGED <<zip, extracted, target, reading, holes, brokenOff>>

(* _download_protoc(): whatever goes wrong becomes a RuntimeError, and what  *)
(* was written stays.                                                       *)

LeaveFiles(r) ==
    /\ zip' = Closed(zip, r, FALSE)
    /\ extracted' = Closed(extracted, r, FALSE)
    /\ target' = Closed(target, r, FALSE)
    /\ reading' = reading \ {r}
    /\ holes' = holes \ {r}

Fail(r) == Goto(r, "failed") /\ LeaveFiles(r) /\ UNCHANGED history

NetworkFails(r) == at[r] \in {"download", "fetch"} /\ Fail(r)

OpenZip(r) ==
    /\ at[r] = "download" /\ Goto(r, "fetch")
    /\ zip' = Opened(r)
    /\ holes' = holes \cup reading
    /\ UNCHANGED <<extracted, target, reading, history>>

Fetched(r) ==
    /\ at[r] = "fetch" /\ Goto(r, "unzip")
    /\ zip' = Closed(zip, r, TRUE)
    /\ UNCHANGED <<extracted, target, reading, holes, history>>

\* Mutant: what an earlier run has extracted is taken.
Unzip_KeepsOld(r) ==
    /\ at[r] = "unzip" /\ zip # None /\ Goto(r, "extract")
    /\ extracted' = IF extracted # None THEN extracted ELSE Opened(r)
    /\ UNCHANGED <<zip, target, reading, holes, history>>

\* An archive with a hole may be refused, here or below.
Unzip(r) ==
    /\ at[r] = "unzip"
    /\ \/ ~ IsWhole(zip) /\ Fail(r)
       \/ /\ zip # None /\ Goto(r, "extract")
          /\ extracted' = Opened(r)
          /\ reading' = reading \cup {r}
          /\ holes' = IF IsWhole(zip) THEN holes ELSE holes \cup {r}
          /\ UNCHANGED <<zip, target, history>>

\* Another run may have moved the file that is being written.
Extract(r) ==
    /\ at[r] = "extract"
    /\ reading' = reading \ {r}
    /\ holes' = holes \ {r}
    /\ \/ /\ r \in holes /\ Goto(r, "failed")
          /\ extracted' = Closed(extracted, r, FALSE)
          /\ target' = Closed(target, r, FALSE)
          /\ brokenOff' = TRUE
       \/ /\ Goto(r, "examine")
          /\ extracted' = Closed(extracted, r, TRUE)
          /\ target' = Closed(target, r, TRUE)
          /\ UNCHANGED brokenOff
    /\ UNCHANGED <<zip, overlapped>>

Examine(r) ==
    /\ at[r] = "examine"
    /\ Goto(r, IF extracted # None THEN "replace" ELSE "chmod")
    /\ UNCHANGED <<zip, extracted, target, reading, holes, history>>

Replace(r) ==
    /\ at[r] = "replace"
    /\ Goto(r, IF target # None THEN "remove" ELSE "move")
    /\ UNCHANGED <<zip, extracted, target, reading, holes, history>>

Remove(r) ==
    /\ at[r] = "remove"
    /\ \/ target = None /\ Fail(r)
       \/ /\ target # None /\ Goto(r, "move")
          /\ target' = None
          /\ UNCHANGED <<zip, extracted, reading, holes, history>>

Move(r) ==
    /\ at[r] = "move"
    /\ \/ extracted = None /\ Fail(r)
       \/ /\ extracted # None /\ Goto(r, "clean")
          /\ target' = extracted
          /\ extracted' = None
          /\ UNCHANGED <<zip, reading, holes, history>>

\* rmtree() takes what another run is extracting, too.
Clean(r) ==
    /\ at[r] = "clean" /\ Goto(r, "chmod")
    /\ extracted' = None
    /\ UNCHANGED <<zip, target, reading, holes, history>>

\* Mutant: the mode is left as it is.
Chmod_Left(r) ==
    /\ at[r] = "chmod" /\ Goto(r, "unlink")
    /\ UNCHANGED <<zip, extracted, target, reading, holes, history>>

Chmod(r) ==
    /\ at[r] = "chmod"
    /\ \/ target = None /\ Fail(r)
       \/ /\ target # None /\ Goto(r, "unlink")
          /\ target' = {[f EXCEPT !.exec = TRUE] : f \in target}
          /\ UNCHANGED <<zip, extracted, reading, holes, history>>

Unlink(r) ==
    /\ at[r] = "unlink"
    /\ \/ zip = None /\ Fail(r)
       \/ /\ zip # None /\ Goto(r, "ready")
          /\ zip' = None
          /\ reading' = {}
          /\ UNCHANGED <<extracted, target, holes, history>>

Install(r) ==
    \/ OpenZip(r) \/ NetworkFails(r) \/ Fetched(r) \/ Unzip(r) \/ Extract(r) \/ Examine(r)
    \/ Replace(r) \/ Remove(r) \/ Move(r) \/ Clean(r) \/ Chmod(r) \/ Unlink(r)

Leave(r) ==
    /\ at[r] \in {"found", "ready", "failed"} /\ Goto(r, "idle")
    /\ UNCHANGED <<zip, extracted, target, reading, holes, history>>

\* The user interrupts it, or the machine goes down.
Kill(r) ==
    /\ r \in Busy /\ Goto(r, "idle")
    /\ LeaveFiles(r)
    /\ brokenOff' = TRUE
    /\ UNCHANGED overlapped

CacheNext == \E r \in Runs : Look(r) \/ Install(r) \/ Leave(r) \/ Kill(r)

CacheSpec == CacheInit /\ [][CacheNext]_cacheVars

-----------------------------------------------------------------------------
\* A run that downloads protoc while no other does, and comes through, can start
\* it, whatever earlier runs left when they failed or were killed; and so can any
\* run after it.
AloneInstalls ==
    \A r \in Runs : at[r] = "ready" /\ r \notin overlapped => Usable

\* If no run has ever been killed while installing or failed to extract, what stands
\* at protoc's place while no run installs can be started.  (A run killed between
\* the move and the chmod leaves a binary that every later run finds and none can
\* start; of two runs that extract at once the first moves the file of the second.)
RestIsUsable == ~ brokenOff /\ Busy = {} /\ target # None => Usable
=============================================================================
