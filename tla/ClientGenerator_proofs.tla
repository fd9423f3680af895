------------------------ MODULE ClientGenerator_proofs ------------------------
(***************************************************************************)
(* Proofs about the client generator and the download cache of protoc: the *)
(* cache for any number of runs that install at once, fail and are killed  *)
(* at any point; the generator for any specifications and any number of    *)
(* edits and of runs beside it.                                            *)
(***************************************************************************)
EXTENDS ClientGenerator, TLAPS

USE DEF None

-----------------------------------------------------------------------------
(* The cache, whoever uses it.                                             *)

\* Only a run that extracts writes to bin/protoc, be it moved already or not.
WritersExtract ==
    \A f \in extracted \cup target : f.writer # NoRun => at[f.writer] = "extract"

\* Unless an extraction was broken off, a file nobody writes to is whole.
ClosedIsWhole ==
    ~ brokenOff => \A f \in extracted \cup target : f.writer = NoRun => f.whole

\* Unless a run was killed, the run that moved the binary will make it executable.
ModeWillBeSet ==
    ~ brokenOff => \A f \in target : f.exec \/ \E r \in Runs : at[r] \in {"clean", "chmod"}

RestInv == CacheTypeOK /\ WritersExtract /\ ClosedIsWhole /\ ModeWillBeSet

\* A run that installs alone is the only one that installs.
OnlyBusy(r) == r \in Busy => Busy = {r}

\* What such a run has achieved where it stands.
Achieved(r) ==
    /\ at[r] = "extract" => extracted # None /\ \A f \in extracted : f.writer = r
    /\ at[r] \in {"examine", "replace", "remove", "move"} =>
        extracted # None /\ \A f \in extracted : f.whole
    /\ at[r] \in {"clean", "chmod"} => target # None /\ \A f \in target : f.whole
    /\ at[r] \in {"unlink", "ready"} => Usable
    /\ at[r] = "ready" => Busy = {}

AloneInv == CacheTypeOK /\ \A r \in Runs \ overlapped : OnlyBusy(r) /\ Achieved(r)

-----------------------------------------------------------------------------
\* Opening and closing files keeps their type.
LEMMA OpenedType ==
    ASSUME NEW r \in Runs
    PROVE  Opened(r) \subseteq File
BY DEF Opened, File

LEMMA ClosedType ==
    ASSUME NEW r \in Runs, NEW file \in SUBSET File, NEW done \in BOOLEAN
    PROVE  Closed(file, r, done) \subseteq File
<1>1. SUFFICES ASSUME NEW f \in file
               PROVE  (IF f.writer = r THEN [f EXCEPT !.writer = NoRun, !.whole = done] ELSE f)
                        \in File
  BY <1>1 DEF Closed
<1>2. f \in [whole : BOOLEAN, exec : BOOLEAN, writer : Runs \cup {NoRun}]
  BY DEF File
<1> QED
  BY <1>2 DEF File

\* A step of one run moves that run only.
LEMMA StepType ==
    ASSUME CacheTypeOK, CacheNext
    PROVE  CacheTypeOK'
<1>1. SUFFICES ASSUME NEW r \in Runs, Look(r) \/ Install(r) \/ Leave(r) \/ Kill(r)
               PROVE  CacheTypeOK'
  BY DEF CacheNext
<1>2. /\ Closed(zip, r, FALSE) \subseteq File /\ Closed(zip, r, TRUE) \subseteq File
      /\ Closed(extracted, r, FALSE) \subseteq File /\ Closed(extracted, r, TRUE) \subseteq File
      /\ Closed(target, r, FALSE) \subseteq File /\ Closed(target, r, TRUE) \subseteq File
      /\ Opened(r) \subseteq File
  BY ClosedType, OpenedType DEF CacheTypeOK
<1>3. {[f EXCEPT !.exec = TRUE] : f \in target} \subseteq File
  <2>1. SUFFICES ASSUME NEW f \in target PROVE [f EXCEPT !.exec = TRUE] \in File
    BY <2>1
  <2>2. f \in [whole : BOOLEAN, exec : BOOLEAN, writer : Runs \cup {NoRun}]
    BY DEF CacheTypeOK, File
  <2> QED
    BY <2>2 DEF File
<1>4. Busy \subseteq Runs
  BY DEF Busy
<1>5. CASE Look(r)
  BY <1>4, <1>5 DEF CacheTypeOK, Look, Goto, Installing
<1>6. CASE Leave(r)
  BY <1>6 DEF CacheTypeOK, Leave, Goto, history
<1>7. CASE Kill(r)
  BY <1>2, <1>7 DEF CacheTypeOK, Kill, LeaveFiles, Goto
<1>8. CASE Fail(r)
  BY <1>2, <1>8 DEF CacheTypeOK, Fail, LeaveFiles, Goto, history
<1>9. CASE OpenZip(r) \/ Fetched(r)
  BY <1>2, <1>9 DEF CacheTypeOK, OpenZip, Fetched, Goto, Installing, history
<1>10. CASE Unzip(r)
  BY <1>2, <1>8, <1>10 DEF CacheTypeOK, Unzip, Goto, Installing, history
<1>11. CASE Extract(r)
  BY <1>2, <1>11 DEF CacheTypeOK, Extract, Goto, Installing
<1>12. CASE Examine(r) \/ Replace(r) \/ Clean(r)
  BY <1>2, <1>12 DEF CacheTypeOK, Examine, Replace, Clean, Goto, Installing, history
<1>13. CASE Remove(r) \/ Move(r)
  BY <1>2, <1>8, <1>13 DEF CacheTypeOK, Remove, Move, Goto, Installing, history
<1>14. CASE Chmod(r) \/ Unlink(r)
  BY <1>2, <1>3, <1>8, <1>14 DEF CacheTypeOK, Chmod, Unlink, Goto, Installing, history
<1> QED
  BY <1>1, <1>5, <1>6, <1>7, <1>8, <1>9, <1>10, <1>11, <1>12, <1>13, <1>14
  DEF Install, NetworkFails

\* The cache's files keep their type, whatever runs do.
THEOREM TypeCorrect == CacheSpec => []CacheTypeOK
<1>1. CacheInit => CacheTypeOK
  BY DEF CacheInit, CacheTypeOK
<1>2. CacheTypeOK /\ [CacheNext]_cacheVars => CacheTypeOK'
  <2>1. CASE UNCHANGED cacheVars
    BY <2>1 DEF CacheTypeOK, cacheVars
  <2> QED
    BY <2>1, StepType
<1> QED
  BY <1>1, <1>2, PTL DEF CacheSpec

-----------------------------------------------------------------------------
\* Where a file in a closed set comes from.
LEMMA ClosedFrom ==
    ASSUME NEW r \in Runs, NEW file \in SUBSET File, NEW done \in BOOLEAN,
           NEW f \in Closed(file, r, done)
    PROVE  \E g \in file :
            /\ f.exec = g.exec
            /\ g.writer = r => f.writer = NoRun /\ f.whole = done
            /\ g.writer # r => f = g
<1>1. PICK g \in file :
        f = IF g.writer = r THEN [g EXCEPT !.writer = NoRun, !.whole = done] ELSE g
  BY DEF Closed
<1>2. g \in [whole : BOOLEAN, exec : BOOLEAN, writer : Runs \cup {NoRun}]
  BY DEF File
<1> QED
  BY <1>1, <1>2

\* A run that does not extract has nothing to close.
LEMMA NothingToClose ==
    ASSUME CacheTypeOK, WritersExtract, NEW r \in Runs, at[r] # "extract",
           NEW done \in BOOLEAN
    PROVE  Closed(extracted, r, done) = extracted /\ Closed(target, r, done) = target
<1>1. \A f \in extracted \cup target : f.writer # r
  BY NoRunAssumption DEF WritersExtract
<1> QED
  BY <1>1 DEF Closed

\* Failing, a run leaves bin/protoc and the target as they are.
LEMMA FailKeeps ==
    ASSUME CacheTypeOK, WritersExtract, NEW r \in Runs, Fail(r), at[r] # "extract"
    PROVE  UNCHANGED <<extracted, target, overlapped, brokenOff>>
BY NothingToClose DEF Fail, LeaveFiles, history

\* The invariant of RestIsUsable is kept by every step.
LEMMA RestStep ==
    ASSUME RestInv, CacheNext
    PROVE  RestInv'
<1> USE DEF RestInv
<1>1. CacheTypeOK'
  BY StepType
<1>2. PICK r \in Runs : Look(r) \/ Install(r) \/ Leave(r) \/ Kill(r)
  BY DEF CacheNext
<1>3. at \in [Runs -> Installing \cup {"idle", "found", "ready", "failed"}]
  BY DEF CacheTypeOK
<1> DEFINE Mode(s) == s \in {"clean", "chmod"}
<1>4. ASSUME UNCHANGED <<extracted, target, brokenOff>>, NEW s, at' = [at EXCEPT ![r] = s],
             at[r] # "extract", target = None \/ (Mode(at[r]) => Mode(s))
      PROVE  RestInv'
  <2>1. WritersExtract'
    <3>1. SUFFICES ASSUME NEW f \in extracted \cup target, f.writer # NoRun
                   PROVE  at'[f.writer] = "extract"
      BY <1>4 DEF WritersExtract
    <3>2. f.writer \in Runs
      BY <3>1 DEF CacheTypeOK, File
    <3>3. at[f.writer] = "extract"
      BY <3>1 DEF WritersExtract
    <3> QED
      BY <3>2, <3>3, <1>3, <1>4
  <2>2. ClosedIsWhole'
    BY <1>4 DEF ClosedIsWhole
  <2>3. ModeWillBeSet'
    BY <1>3, <1>4 DEF ModeWillBeSet
  <2> QED
    BY <1>1, <2>1, <2>2, <2>3
<1>5. ASSUME Fail(r), at[r] # "extract", target = None \/ ~ Mode(at[r])
      PROVE  RestInv'
  BY <1>4, <1>5, FailKeeps DEF Fail, Goto
<1>6. CASE Look(r)
  BY <1>4, <1>6 DEF Look, Goto
<1>7. CASE Leave(r)
  BY <1>4, <1>7 DEF Leave, Goto, history
<1>8. CASE OpenZip(r) \/ NetworkFails(r) \/ Fetched(r)
  BY <1>4, <1>5, <1>8 DEF OpenZip, NetworkFails, Fetched, Goto, history
<1>9. CASE Examine(r) \/ Replace(r) \/ Unlink(r)
  BY <1>4, <1>5, <1>9 DEF Examine, Replace, Unlink, Goto, history
<1>10. CASE Unzip(r)
  <2>1. CASE Fail(r)
    BY <1>5, <1>10, <2>1 DEF Unzip
  <2>2. CASE ~ Fail(r)
    <3>1. /\ at[r] = "unzip" /\ at' = [at EXCEPT ![r] = "extract"]
          /\ extracted' = Opened(r) /\ UNCHANGED <<target, brokenOff>>
      BY <1>10, <2>2 DEF Unzip, Goto, history
    <3>2. \A f \in Opened(r) : f.writer = r
      BY DEF Opened
    <3>3. \A f \in target : f.writer # NoRun => f.writer \in Runs
      BY DEF CacheTypeOK, File
    <3>4. WritersExtract'
      BY <1>3, <3>1, <3>2, <3>3 DEF WritersExtract
    <3>5. ClosedIsWhole'
      BY <3>1, <3>2, NoRunAssumption DEF ClosedIsWhole
    <3>6. ModeWillBeSet'
      BY <1>3, <3>1 DEF ModeWillBeSet
    <3> QED
      BY <1>1, <3>4, <3>5, <3>6
  <2> QED
    BY <2>1, <2>2
<1>11. CASE Extract(r) \/ Kill(r)
  <2>1. PICK done \in BOOLEAN :
          /\ extracted' = Closed(extracted, r, done) /\ target' = Closed(target, r, done)
          /\ \/ ~ done /\ brokenOff'
             \/ done /\ brokenOff' = brokenOff /\ ~ Mode(at[r])
    BY <1>11 DEF Extract, Kill, LeaveFiles
  <2>2. PICK s \in {"idle", "failed", "examine"} : at' = [at EXCEPT ![r] = s]
    BY <1>11 DEF Extract, Kill, Goto
  <2>3. extracted \in SUBSET File /\ target \in SUBSET File
    BY DEF CacheTypeOK
  <2>4. ASSUME NEW f \in extracted' \cup target'
        PROVE  \E g \in extracted \cup target :
                /\ f.exec = g.exec
                /\ g.writer = r => f.writer = NoRun /\ f.whole = done
                /\ g.writer # r => f = g
    BY <2>1, <2>3, <2>4, ClosedFrom
  <2>5. WritersExtract'
    <3>1. SUFFICES ASSUME NEW f \in extracted' \cup target', f.writer # NoRun
                   PROVE  at'[f.writer] = "extract"
      BY DEF WritersExtract
    <3>2. f \in extracted \cup target /\ f.writer # r
      BY <2>4, <3>1
    <3>3. f.writer \in Runs /\ at[f.writer] = "extract"
      BY <3>1, <3>2 DEF CacheTypeOK, File, WritersExtract
    <3> QED
      BY <1>3, <2>2, <3>2, <3>3
  <2>6. ClosedIsWhole'
    <3>1. SUFFICES ASSUME ~ brokenOff', NEW f \in extracted' \cup target', f.writer = NoRun
                   PROVE  f.whole
      BY DEF ClosedIsWhole
    <3>2. done /\ ~ brokenOff
      BY <2>1, <3>1
    <3> QED
      BY <2>4, <3>1, <3>2 DEF ClosedIsWhole
  <2>7. ModeWillBeSet'
    <3>1. SUFFICES ASSUME ~ brokenOff', NEW f \in target', ~ f.exec
                   PROVE  \E q \in Runs : at'[q] \in {"clean", "chmod"}
      BY DEF ModeWillBeSet
    <3>2. done /\ ~ brokenOff /\ ~ Mode(at[r])
      BY <2>1, <3>1
    <3>3. PICK g \in target : f.exec = g.exec
      BY <2>1, <2>3, <3>1, ClosedFrom
    <3>4. PICK q \in Runs : at[q] \in {"clean", "chmod"}
      BY <3>1, <3>2, <3>3 DEF ModeWillBeSet
    <3> QED
      BY <1>3, <2>2, <3>2, <3>4
  <2> QED
    BY <1>1, <2>5, <2>6, <2>7
<1>12. ASSUME at' = [at EXCEPT ![r] = "move"] \/ at' = [at EXCEPT ![r] = "chmod"]
                \/ at' = [at EXCEPT ![r] = "clean"],
              at[r] # "extract", brokenOff' = brokenOff,
              extracted' \cup target' \subseteq extracted \cup target
       PROVE  WritersExtract' /\ ClosedIsWhole'
  <2>1. WritersExtract'
    <3>1. SUFFICES ASSUME NEW f \in extracted \cup target, f.writer # NoRun
                   PROVE  at'[f.writer] = "extract"
      BY <1>12 DEF WritersExtract
    <3>2. f.writer \in Runs /\ at[f.writer] = "extract"
      BY <3>1 DEF CacheTypeOK, File, WritersExtract
    <3> QED
      BY <1>3, <1>12, <3>2
  <2> QED
    BY <1>12, <2>1 DEF ClosedIsWhole
<1>13. CASE Remove(r)
  <2>1. CASE Fail(r)
    BY <1>5, <1>13, <2>1 DEF Remove
  <2>2. CASE ~ Fail(r)
    <3>1. /\ at[r] = "remove" /\ at' = [at EXCEPT ![r] = "move"]
          /\ target' = {} /\ UNCHANGED <<extracted, brokenOff>>
      BY <1>13, <2>2 DEF Remove, Goto, history
    <3> QED
      BY <1>1, <1>12, <3>1 DEF ModeWillBeSet
  <2> QED
    BY <2>1, <2>2
<1>14. CASE Move(r)
  <2>1. CASE Fail(r)
    BY <1>5, <1>14, <2>1 DEF Move
  <2>2. CASE ~ Fail(r)
    <3>1. /\ at[r] = "move" /\ at' = [at EXCEPT ![r] = "clean"]
          /\ target' = extracted /\ extracted' = {} /\ UNCHANGED brokenOff
      BY <1>14, <2>2 DEF Move, Goto, history
    <3>2. at'[r] = "clean"
      BY <1>3, <3>1
    <3> QED
      BY <1>1, <1>12, <3>1, <3>2 DEF ModeWillBeSet
  <2> QED
    BY <2>1, <2>2
<1>15. CASE Clean(r)
  <2>1. /\ at[r] = "clean" /\ at' = [at EXCEPT ![r] = "chmod"]
        /\ extracted' = {} /\ UNCHANGED <<target, brokenOff>>
    BY <1>15 DEF Clean, Goto, history
  <2>2. at'[r] = "chmod"
    BY <1>3, <2>1
  <2> QED
    BY <1>1, <1>12, <2>1, <2>2 DEF ModeWillBeSet
<1>16. CASE Chmod(r)
  <2>1. CASE target = None
    BY <1>5, <1>16, <2>1 DEF Chmod
  <2>2. CASE target # None
    <3>1. /\ at[r] = "chmod" /\ at' = [at EXCEPT ![r] = "unlink"]
          /\ target' = {[f EXCEPT !.exec = TRUE] : f \in target}
          /\ UNCHANGED <<extracted, brokenOff>>
      BY <1>16, <2>2 DEF Chmod, Goto, history
    <3>2. ASSUME NEW f \in target'
          PROVE  f.exec /\ \E g \in target : f.whole = g.whole /\ f.writer = g.writer
      <4>1. PICK g \in target : f = [g EXCEPT !.exec = TRUE]
        BY <3>1
      <4>2. g \in [whole : BOOLEAN, exec : BOOLEAN, writer : Runs \cup {NoRun}]
        BY DEF CacheTypeOK, File
      <4> QED
        BY <4>1, <4>2
    <3>3. ASSUME NEW f \in extracted' \cup target'
          PROVE  \E g \in extracted \cup target : f.whole = g.whole /\ f.writer = g.writer
      BY <3>1, <3>2
    <3>4. WritersExtract'
      <4>1. SUFFICES ASSUME NEW f \in extracted' \cup target', f.writer # NoRun
                     PROVE  at'[f.writer] = "extract"
        BY DEF WritersExtract
      <4>2. f.writer \in Runs /\ at[f.writer] = "extract"
        BY <3>3, <4>1 DEF CacheTypeOK, File, WritersExtract
      <4> QED
        BY <1>3, <3>1, <4>2
    <3>5. ClosedIsWhole'
      BY <3>1, <3>3 DEF ClosedIsWhole
    <3>6. ModeWillBeSet'
      BY <3>2 DEF ModeWillBeSet
    <3> QED
      BY <1>1, <3>4, <3>5, <3>6
  <2> QED
    BY <2>1, <2>2
<1> QED
  BY <1>2, <1>6, <1>7, <1>8, <1>9, <1>10, <1>11, <1>13, <1>14, <1>15, <1>16 DEF Install

\* However many runs install at once and fail, what they leave at rest can be
\* started, unless one was killed or failed to extract.
THEOREM RestHolds == CacheSpec => []RestIsUsable
<1>1. CacheInit => RestInv
  BY DEF CacheInit, RestInv, CacheTypeOK, WritersExtract, ClosedIsWhole, ModeWillBeSet
<1>2. RestInv /\ [CacheNext]_cacheVars => RestInv'
  <2>1. ASSUME RestInv, UNCHANGED cacheVars PROVE RestInv'
    BY <2>1 DEF RestInv, CacheTypeOK, WritersExtract, ClosedIsWhole, ModeWillBeSet, cacheVars
  <2> QED
    BY <2>1, RestStep
<1>3. RestInv => RestIsUsable
  <2>1. SUFFICES ASSUME RestInv, ~ brokenOff, Busy = {}, NEW f \in target
                 PROVE  f.whole /\ f.exec
    BY DEF RestIsUsable, Usable
  <2>2. \A r \in Runs : at[r] \notin Installing
    BY <2>1 DEF Busy
  <2>3. f.writer = NoRun \/ f.writer \in Runs
    BY <2>1 DEF RestInv, CacheTypeOK, File
  <2>4. f.writer = NoRun
    BY <2>1, <2>2, <2>3 DEF RestInv, WritersExtract, Installing
  <2> QED
    BY <2>1, <2>2, <2>4 DEF RestInv, ClosedIsWhole, ModeWillBeSet, Installing
<1> QED
  BY <1>1, <1>2, <1>3, PTL DEF CacheSpec

-----------------------------------------------------------------------------
\* While a run installs or is ready, others cannot do anything but look and leave.
LEMMA OthersWait ==
    ASSUME CacheTypeOK, NEW r \in Runs, at[r] \in Installing \cup {"ready"}, Busy \subseteq {r},
           at[r] = "ready" => Busy = {} /\ target # None,
           NEW q \in Runs, q # r, r \notin overlapped',
           Look(q) \/ Install(q) \/ Leave(q) \/ Kill(q)
    PROVE  Busy' = Busy /\ at'[r] = at[r] /\ UNCHANGED <<extracted, target>>
<1>1. at \in [Runs -> Installing \cup {"idle", "found", "ready", "failed"}]
  BY DEF CacheTypeOK
<1>2. q \notin Busy /\ at[q] \notin Installing
  BY DEF Busy
<1>3. ~ Install(q) /\ ~ Kill(q)
  BY <1>2 DEF Install, OpenZip, NetworkFails, Fetched, Unzip, Extract, Examine, Replace,
              Remove, Move, Clean, Chmod, Unlink, Kill, Installing
<1>4. PICK s \in {"found", "idle"} : at' = [at EXCEPT ![q] = s]
  <2>1. CASE Leave(q)
    BY <2>1 DEF Leave, Goto
  <2>2. CASE Look(q)
    <3>1. r \in Busy \/ target # None
      BY DEF Busy
    <3>2. target # None
      BY <2>2, <3>1 DEF Look
    <3> QED
      BY <2>2, <3>2 DEF Look, Goto
  <2> QED
    BY <1>3, <2>1, <2>2
<1>5. at'[r] = at[r] /\ \A p \in Runs : at'[p] \in Installing <=> at[p] \in Installing
  BY <1>1, <1>2, <1>4 DEF Installing
<1>6. Busy' = Busy
  BY <1>5 DEF Busy
<1> QED
  BY <1>3, <1>5, <1>6 DEF Look, Leave

\* What a run achieves is kept by its next step.
LEMMA AchievedNext ==
    ASSUME CacheTypeOK, NEW r \in Runs, Achieved(r), Install(r), Busy = {r}
    PROVE  OnlyBusy(r)' /\ Achieved(r)'
<1>1. at \in [Runs -> Installing \cup {"idle", "found", "ready", "failed"}]
  BY DEF CacheTypeOK
<1>2. ASSUME NEW s, at' = [at EXCEPT ![r] = s]
      PROVE  at'[r] = s /\ Busy' \subseteq {r} /\ (s \notin Installing => Busy' = {})
  BY <1>1, <1>2 DEF Busy
<1>3. ASSUME NEW s, at' = [at EXCEPT ![r] = s],
             s \in {"failed", "fetch", "unzip"}
      PROVE  OnlyBusy(r)' /\ Achieved(r)'
  BY <1>2, <1>3 DEF OnlyBusy, Achieved
<1>4. CASE Fail(r)
  BY <1>3, <1>4 DEF Fail, Goto
<1>5. CASE OpenZip(r) \/ NetworkFails(r) \/ Fetched(r)
  BY <1>3, <1>4, <1>5 DEF OpenZip, NetworkFails, Fetched, Goto
<1>6. CASE Unzip(r) /\ ~ Fail(r)
  <2>1. at' = [at EXCEPT ![r] = "extract"] /\ extracted' = Opened(r)
    BY <1>6 DEF Unzip, Goto
  <2>2. Opened(r) # None /\ \A f \in Opened(r) : f.writer = r
    BY DEF Opened
  <2> QED
    BY <1>2, <2>1, <2>2 DEF OnlyBusy, Achieved
<1>7. CASE Extract(r)
  <2>1. CASE at' = [at EXCEPT ![r] = "failed"]
    BY <1>3, <2>1
  <2>2. CASE /\ at' = [at EXCEPT ![r] = "examine"]
             /\ extracted' = Closed(extracted, r, TRUE)
    <3>1. extracted # None /\ \A f \in extracted : f.writer = r
      BY <1>7 DEF Extract, Achieved
    <3>2. ASSUME NEW f \in Closed(extracted, r, TRUE) PROVE f.whole
      <4>1. extracted \in SUBSET File
        BY DEF CacheTypeOK
      <4>2. \E g \in extracted :
              /\ f.exec = g.exec
              /\ g.writer = r => f.writer = NoRun /\ f.whole = TRUE
              /\ g.writer # r => f = g
        BY <3>2, <4>1, ClosedFrom, ZenonT(40)
      <4> QED
        BY <3>1, <4>2
    <3>3. Closed(extracted, r, TRUE) # None
      BY <3>1 DEF Closed
    <3> QED
      BY <1>2, <2>2, <3>2, <3>3 DEF OnlyBusy, Achieved
  <2> QED
    BY <1>7, <2>1, <2>2 DEF Extract, Goto
<1>8. CASE Examine(r) \/ Replace(r) \/ (Remove(r) /\ ~ Fail(r))
  <2>1. at[r] \in {"examine", "replace", "remove"} /\ extracted' = extracted
    BY <1>8 DEF Examine, Replace, Remove
  <2>2. extracted # None /\ \A f \in extracted : f.whole
    BY <2>1 DEF Achieved
  <2>3. PICK s \in {"replace", "remove", "move"} : at' = [at EXCEPT ![r] = s]
    BY <1>8, <2>2 DEF Examine, Replace, Remove, Goto
  <2> QED
    BY <1>2, <2>1, <2>2, <2>3 DEF OnlyBusy, Achieved
<1>9. CASE Move(r) /\ ~ Fail(r)
  <2>1. at[r] = "move" /\ at' = [at EXCEPT ![r] = "clean"] /\ target' = extracted
    BY <1>9 DEF Move, Goto
  <2>2. extracted # None /\ \A f \in extracted : f.whole
    BY <2>1 DEF Achieved
  <2> QED
    BY <1>2, <2>1, <2>2 DEF OnlyBusy, Achieved
<1>10. CASE Clean(r)
  <2>1. at[r] = "clean" /\ at' = [at EXCEPT ![r] = "chmod"] /\ target' = target
    BY <1>10 DEF Clean, Goto
  <2>2. target # None /\ \A f \in target : f.whole
    BY <2>1 DEF Achieved
  <2> QED
    BY <1>2, <2>1, <2>2 DEF OnlyBusy, Achieved
<1>11. CASE Chmod(r) /\ ~ Fail(r)
  <2>1. /\ at[r] = "chmod" /\ at' = [at EXCEPT ![r] = "unlink"]
        /\ target' = {[f EXCEPT !.exec = TRUE] : f \in target}
    BY <1>11 DEF Chmod, Goto
  <2>2. PICK f \in target : f.whole
    BY <2>1 DEF Achieved
  <2>3. f \in [whole : BOOLEAN, exec : BOOLEAN, writer : Runs \cup {NoRun}]
    BY DEF CacheTypeOK, File
  <2>4. [f EXCEPT !.exec = TRUE].whole /\ [f EXCEPT !.exec = TRUE].exec
    BY <2>2, <2>3
  <2>5. Usable'
    BY <2>1, <2>4 DEF Usable
  <2> QED
    BY <1>2, <2>1, <2>5 DEF OnlyBusy, Achieved
<1>12. CASE Unlink(r) /\ ~ Fail(r)
  <2>1. at[r] = "unlink" /\ at' = [at EXCEPT ![r] = "ready"] /\ target' = target
    BY <1>12 DEF Unlink, Goto
  <2>2. Usable'
    BY <2>1 DEF Achieved, Usable
  <2>3. "ready" \notin Installing
    BY DEF Installing
  <2>4. Busy' = {}
    BY <1>2, <2>1, <2>3
  <2> QED
    BY <1>2, <2>1, <2>2, <2>4 DEF OnlyBusy, Achieved
<1> QED
  BY <1>4, <1>5, <1>6, <1>7, <1>8, <1>9, <1>10, <1>11, <1>12 DEF Install

\* The invariant of AloneInstalls is kept by every step.
LEMMA AloneStep ==
    ASSUME AloneInv, CacheNext
    PROVE  AloneInv'
<1>1. CacheTypeOK /\ CacheTypeOK'
  BY StepType DEF AloneInv
<1>2. PICK q \in Runs : Look(q) \/ Install(q) \/ Leave(q) \/ Kill(q)
  BY DEF CacheNext
<1>3. at \in [Runs -> Installing \cup {"idle", "found", "ready", "failed"}]
  BY DEF CacheTypeOK, AloneInv
<1>4. SUFFICES ASSUME NEW r \in Runs \ overlapped'
               PROVE  OnlyBusy(r)' /\ Achieved(r)'
  BY <1>1 DEF AloneInv
<1>5. Install(q) => q \in Busy /\ overlapped' = overlapped
  BY DEF Install, OpenZip, NetworkFails, Fetched, Unzip, Extract, Examine, Replace, Remove,
         Move, Clean, Chmod, Unlink, Fail, history, Busy, Installing
<1>6. ASSUME at'[r] \notin Installing \cup {"ready"} PROVE OnlyBusy(r)' /\ Achieved(r)'
  BY <1>6 DEF OnlyBusy, Achieved, Busy, Installing
<1>7. CASE r # q
  <2>1. r \notin overlapped
    BY <1>2, <1>4, <1>5, <1>7 DEF Look, Leave, Kill, history
  <2>2. OnlyBusy(r) /\ Achieved(r)
    BY <1>4, <2>1 DEF AloneInv
  <2>3. CASE at[r] \in Installing \cup {"ready"}
    <3>1. Busy \subseteq {r}
      BY <2>2, <2>3 DEF OnlyBusy, Achieved, Busy
    <3>2. at[r] = "ready" => Busy = {} /\ target # None
      BY <2>2 DEF Achieved, Usable
    <3>3. Busy' = Busy /\ at'[r] = at[r] /\ UNCHANGED <<extracted, target>>
      BY <1>1, <1>2, <1>4, <1>7, <2>3, <3>1, <3>2, OthersWait
    <3> QED
      BY <2>2, <3>3 DEF OnlyBusy, Achieved, Usable
  <2>4. CASE at[r] \notin Installing \cup {"ready"}
    <3>1. \E s : at' = [at EXCEPT ![q] = s]
      BY <1>2 DEF Look, Leave, Kill, Install, OpenZip, NetworkFails, Fetched, Unzip, Extract,
                  Examine, Replace, Remove, Move, Clean, Chmod, Unlink, Fail, Goto
    <3>2. at'[r] = at[r]
      BY <1>3, <1>7, <3>1
    <3> QED
      BY <1>6, <2>4, <3>2
  <2> QED
    BY <2>3, <2>4
<1>8. CASE r = q
  <2>1. CASE Look(r)
    <3>1. CASE target # None
      <4>1. at'[r] = "found"
        BY <1>3, <2>1, <3>1 DEF Look, Goto
      <4> QED
        BY <1>6, <4>1 DEF Installing
    <3>2. CASE target = None
      <4>1. Busy = {}
        BY <1>4, <2>1, <3>2 DEF Look
      <4>2. at' = [at EXCEPT ![r] = "download"]
        BY <2>1, <3>2 DEF Look, Goto
      <4>3. at'[r] = "download" /\ Busy' \subseteq {r}
        BY <1>3, <4>1, <4>2 DEF Busy
      <4> QED
        BY <4>3 DEF OnlyBusy, Achieved
    <3> QED
      BY <3>1, <3>2
  <2>2. CASE Leave(r) \/ Kill(r)
    <3>1. at'[r] = "idle"
      BY <1>3, <2>2 DEF Leave, Kill, Goto
    <3> QED
      BY <1>6, <3>1 DEF Installing
  <2>3. CASE Install(r)
    <3>1. OnlyBusy(r) /\ Achieved(r) /\ r \in Busy
      BY <1>4, <1>5, <1>8, <2>3 DEF AloneInv
    <3> QED
      BY <1>1, <2>3, <3>1, AchievedNext DEF OnlyBusy
  <2> QED
    BY <1>2, <1>8, <2>1, <2>2, <2>3
<1> QED
  BY <1>7, <1>8

\* A run that installs alone and comes through can start what it installed,
\* whatever runs before it left behind.
THEOREM InstallsAlone == CacheSpec => []AloneInstalls
<1>1. CacheInit => AloneInv
  <2>1. SUFFICES ASSUME CacheInit, NEW r \in Runs PROVE OnlyBusy(r) /\ Achieved(r)
    BY DEF AloneInv, CacheInit, CacheTypeOK
  <2>2. at[r] = "idle"
    BY <2>1 DEF CacheInit
  <2> QED
    BY <2>2 DEF OnlyBusy, Achieved, Busy, Installing
<1>2. AloneInv /\ [CacheNext]_cacheVars => AloneInv'
  <2>1. ASSUME AloneInv, UNCHANGED cacheVars PROVE AloneInv'
    BY <2>1 DEF AloneInv, CacheTypeOK, OnlyBusy, Achieved, Busy, Usable, cacheVars
  <2> QED
    BY <2>1, AloneStep
<1>3. AloneInv => AloneInstalls
  BY DEF AloneInv, AloneInstalls, Achieved
<1> QED
  BY <1>1, <1>2, <1>3, PTL DEF CacheSpec

-----------------------------------------------------------------------------
(* The generator.                                                          *)

\* The files written so far say what the specification said when it was read.
Written ==
    stage \in {"protos", "resolve", "compile", "sdk", "done"} =>
        /\ stage # "protos" => todo = {}
        /\ \A s \in Present(forProto) \ todo : forProto[s].hasIds /\ protos[s] = forProto[s]

\* Past protoc, the classes are those of the .proto files.
Compiled == stage \in {"sdk", "done"} /\ lang = "python" => classes = protos

\* Nothing but a .proto file gives a class, and no .proto file is ever removed.
ClassesHaveProtos == \A s \in Present(classes) : protos[s] # Absent

SdkIsOfRun ==
    stage = "done" => sdk[lang] = [services |-> Present(forSdk), agreed |-> forSdk = forProto]

OutputInv ==
    /\ TypeOK /\ Written /\ Compiled /\ ClassesHaveProtos /\ SdkIsOfRun
    /\ SdkHasClasses

-----------------------------------------------------------------------------
(* The run in the cache.                                                   *)

\* Whatever the run does, the cache sees it do what any run may do there.
LEMMA CacheSees ==
    ASSUME CacheTypeOK, [Next]_vars
    PROVE  [CacheNext]_cacheVars
<1>1. Here \in Runs /\ at \in [Runs -> Installing \cup {"idle", "found", "ready", "failed"}]
  BY SpecsAssumption DEF CacheTypeOK
<1>2. CASE UNCHANGED cacheVars
  BY <1>2
<1>3. CASE Resolve \/ Resolved
  BY <1>1, <1>3 DEF Resolve, Resolved, CacheNext
<1>4. CASE Elsewhere
  BY <1>4 DEF Elsewhere, CacheNext
<1>5. CASE Interrupt
  <2>1. CASE Here \in Busy
    BY <1>1, <1>5, <2>1 DEF Interrupt, CacheNext
  <2>2. CASE Here \notin Busy
    <3>1. /\ at' = [at EXCEPT ![Here] = "idle"]
          /\ UNCHANGED <<zip, extracted, target, reading, holes, history>>
      BY <1>5, <2>2 DEF Interrupt
    <3>2. CASE at[Here] = "idle"
      BY <1>1, <3>1, <3>2 DEF cacheVars, history
    <3>3. CASE at[Here] \in {"found", "ready", "failed"}
      BY <1>1, <3>1, <3>3 DEF Leave, Goto, CacheNext
    <3> QED
      BY <1>1, <2>2, <3>2, <3>3 DEF Busy
  <2> QED
    BY <2>1, <2>2
<1>6. CASE \/ Edit \/ ReadAgain \/ WriteCore \/ Compile \/ WriteSdk
           \/ (\E l \in Langs : Start(l)) \/ (\E s \in Services : WriteProto(s))
  BY <1>2, <1>6 DEF Edit, ReadAgain, WriteCore, Compile, WriteSdk, Start, WriteProto, cacheVars
<1>7. CASE UNCHANGED vars
  BY <1>2, <1>7 DEF vars, cacheVars
<1> QED
  BY <1>3, <1>4, <1>5, <1>6, <1>7 DEF Next

\* The generator, with its edits, failures and interruptions, is one more user of
\* the cache: seen from there it implements CacheSpec.
THEOREM ImplementsCache == Spec => CacheSpec
<1>1. Init => CacheInit /\ CacheTypeOK
  BY DEF Init, CacheInit, CacheTypeOK, None
<1>2. CacheTypeOK /\ [Next]_vars => CacheTypeOK' /\ [CacheNext]_cacheVars
  <2> SUFFICES ASSUME CacheTypeOK, [Next]_vars PROVE CacheTypeOK' /\ [CacheNext]_cacheVars
    OBVIOUS
  <2>1. [CacheNext]_cacheVars
    BY CacheSees
  <2>2. CASE UNCHANGED cacheVars
    BY <2>2 DEF CacheTypeOK, cacheVars
  <2> QED
    BY <2>1, <2>2, StepType
<1> QED
  BY <1>1, <1>2, PTL DEF Spec, CacheSpec

\* What a run of the generator that installs protoc alone and comes through has
\* installed can be started.
THEOREM GeneratorInstallsAlone == Spec => []AloneInstalls
BY ImplementsCache, InstallsAlone, PTL

\* What the generator's runs leave at protoc's place can be started, unless one was
\* killed or failed to extract.
THEOREM GeneratorLeavesUsable == Spec => []RestIsUsable
BY ImplementsCache, RestHolds, PTL

-----------------------------------------------------------------------------
(* What it writes.                                                         *)

\* The files, the readings of the specification and the cache keep their type.
LEMMA TypeStep ==
    ASSUME TypeOK, [Next]_vars
    PROVE  TypeOK'
<1> USE DEF TypeOK
<1>1. CacheTypeOK'
  <2>1. [CacheNext]_cacheVars
    BY CacheSees
  <2>2. CASE UNCHANGED cacheVars
    BY <2>2 DEF CacheTypeOK, cacheVars
  <2> QED
    BY <2>1, <2>2, StepType
<1>2. CASE UNCHANGED vars
  BY <1>1, <1>2 DEF vars, run, output, Present
<1>3. CASE Edit
  BY <1>1, <1>3 DEF Edit, run, output, Present
<1>4. CASE Resolve \/ Elsewhere
  BY <1>1, <1>4 DEF Resolve, Elsewhere, run, output, Present
<1>5. CASE ReadAgain \/ WriteCore \/ Resolved \/ \E l \in Langs : Start(l)
  BY <1>1, <1>5 DEF ReadAgain, WriteCore, Resolved, Start, output, Present
<1>6. CASE Compile
  BY <1>1, <1>6 DEF Compile, Present
<1>7. CASE WriteSdk
  <2>1. Present(forSdk) \in SUBSET Services
    BY DEF Present
  <2> QED
    BY <1>1, <1>7, <2>1 DEF WriteSdk, Present
<1>8. CASE Interrupt
  <2>1. protos' \in [Services -> ServiceSpec \cup {Absent, Truncated}]
    BY <1>8 DEF Interrupt
  <2>2. classes' \in [Services -> ServiceSpec \cup {Absent, Truncated}]
    BY <1>8 DEF Interrupt
  <2> QED
    BY <1>1, <1>8, <2>1, <2>2 DEF Interrupt, Present
<1>9. CASE \E s \in Services : WriteProto(s)
  <2>1. PICK s \in Services : WriteProto(s)
    BY <1>9
  <2>2. forProto[s] \in ServiceSpec
    BY <2>1, SpecsAssumption DEF WriteProto, Present
  <2> QED
    BY <1>1, <2>1, <2>2 DEF WriteProto, Present
<1> QED
  BY <1>2, <1>3, <1>4, <1>5, <1>6, <1>7, <1>8, <1>9 DEF Next

LEMMA WrittenStep ==
    ASSUME TypeOK, Written, Next
    PROVE  Written'
<1> USE DEF TypeOK, Written
<1>1. CASE Edit \/ Resolve \/ Elsewhere
  BY <1>1 DEF Edit, Resolve, Elsewhere, run, output, Present
<1>2. CASE ReadAgain
  BY <1>2 DEF ReadAgain, Present
<1>3. CASE WriteCore \/ Resolved \/ Compile \/ WriteSdk
  BY <1>3 DEF WriteCore, Resolved, Compile, WriteSdk, output, Present
<1>4. CASE Interrupt \/ \E l \in Langs : Start(l)
  BY <1>4 DEF Interrupt, Start
<1>5. CASE \E s \in Services : WriteProto(s)
  <2>1. PICK s \in Services : WriteProto(s)
    BY <1>5
  <2>2. CASE ~ forProto[s].hasIds
    BY <2>1, <2>2 DEF WriteProto
  <2>3. CASE forProto[s].hasIds
    <3>1. /\ stage' = "protos" /\ todo' = todo \ {s} /\ forProto' = forProto
          /\ protos' = [protos EXCEPT ![s] = forProto[s]]
          /\ stage = "protos"
      BY <2>1, <2>3 DEF WriteProto
    <3>2. ASSUME NEW q \in Present(forProto) \ todo'
          PROVE  forProto[q].hasIds /\ protos'[q] = forProto[q]
      BY <2>3, <3>1 DEF Present
    <3> QED
      BY <3>1, <3>2 DEF Present
  <2> QED
    BY <2>2, <2>3
<1> QED
  BY <1>1, <1>2, <1>3, <1>4, <1>5 DEF Next

LEMMA CompiledStep ==
    ASSUME TypeOK, Compiled, Next
    PROVE  Compiled'
<1> USE DEF TypeOK, Compiled
<1>1. CASE Edit \/ Resolve \/ Elsewhere
  BY <1>1 DEF Edit, Resolve, Elsewhere, run, output
<1>2. CASE WriteCore \/ Resolved \/ Compile \/ WriteSdk \/ ReadAgain
  BY <1>2 DEF WriteCore, Resolved, Compile, WriteSdk, ReadAgain, output
<1>3. CASE Interrupt \/ \E l \in Langs : Start(l)
  BY <1>3 DEF Interrupt, Start
<1>4. CASE \E s \in Services : WriteProto(s)
  BY <1>4 DEF WriteProto
<1> QED
  BY <1>1, <1>2, <1>3, <1>4 DEF Next

\* No step removes a .proto file or a class, and classes come from .proto files.
LEMMA FilesStay ==
    ASSUME TypeOK, ClassesHaveProtos, Next
    PROVE  /\ ClassesHaveProtos'
           /\ \A s \in Present(classes) : classes'[s] # Absent
<1> USE DEF TypeOK, ClassesHaveProtos, Present
<1>1. CASE UNCHANGED <<protos, classes>>
  BY <1>1
<1>2. CASE Compile
  BY <1>2 DEF Compile
<1>3. CASE Interrupt
  BY <1>3, NoFileAssumption DEF Interrupt
<1>4. CASE \E s \in Services : WriteProto(s)
  <2>1. PICK s \in Services : WriteProto(s)
    BY <1>4
  <2>2. forProto[s] # Absent
    BY <2>1 DEF WriteProto
  <2> QED
    BY <2>1, <2>2, NoFileAssumption DEF WriteProto
<1>5. CASE \/ Edit \/ Resolve \/ Elsewhere \/ WriteCore \/ Resolved \/ WriteSdk \/ ReadAgain
           \/ \E l \in Langs : Start(l)
  BY <1>1, <1>5 DEF Edit, Resolve, Elsewhere, WriteCore, Resolved, WriteSdk, ReadAgain, Start,
                    output
<1> QED
  BY <1>2, <1>3, <1>4, <1>5 DEF Next

LEMMA SdkStep ==
    ASSUME OutputInv, Next
    PROVE  SdkIsOfRun' /\ SdkHasClasses'
<1> USE DEF OutputInv, TypeOK
<1>1. \A s \in Present(classes) : classes'[s] # Absent
  BY FilesStay
<1>2. CASE WriteSdk
  <2>1. stage = "sdk" /\ UNCHANGED <<lang, forSdk, forProto, classes>>
    BY <1>2 DEF WriteSdk
  <2>2. sdk' = [sdk EXCEPT ![lang] =
                  [services |-> Present(forSdk), agreed |-> forSdk = forProto]]
    BY <1>2 DEF WriteSdk
  <2>3. SdkIsOfRun'
    BY <2>1, <2>2 DEF SdkIsOfRun, Present
  <2>4. CASE lang = "python"
    <3>1. SUFFICES ASSUME forSdk = forProto, NEW s \in Present(forProto)
                   PROVE  classes[s] # Absent
      BY <2>1, <2>2, <2>3, <2>4 DEF SdkHasClasses, Langs
    <3>2. classes[s] = forProto[s]
      BY <2>1, <2>4, <3>1 DEF Written, Compiled
    <3> QED
      BY <2>3, <3>1, <3>2 DEF Present
  <2>5. CASE lang # "python"
    <3>1. sdk'["python"] = sdk["python"]
      BY <2>2, <2>5 DEF Langs
    <3> QED
      BY <2>1, <2>3, <3>1 DEF SdkHasClasses
  <2> QED
    BY <2>4, <2>5
<1>3. CASE ~ WriteSdk
  <2>1. /\ sdk' = sdk
        /\ stage' # "done" \/ UNCHANGED <<stage, lang, forSdk, forProto>>
    BY <1>3 DEF Next, Edit, Resolve, Elsewhere, WriteCore, Resolved, Compile, ReadAgain,
                Interrupt, Start, WriteProto, run, output
  <2>2. SdkIsOfRun'
    BY <2>1 DEF SdkIsOfRun, Present
  <2>3. SdkHasClasses'
    <3>1. SUFFICES ASSUME sdk["python"] # Absent, sdk["python"].agreed,
                          NEW s \in sdk["python"].services
                   PROVE  classes'[s] # Absent
      BY <2>1 DEF SdkHasClasses
    <3>2. classes[s] # Absent
      BY <3>1 DEF SdkHasClasses
    <3>3. s \in Services
      BY <3>1 DEF Langs
    <3> QED
      BY <1>1, <3>2, <3>3 DEF Present
  <2> QED
    BY <2>2, <2>3
<1> QED
  BY <1>2, <1>3

THEOREM OutputIsInvariant == Spec => []OutputInv
<1>1. Init => OutputInv
  <2>1. ASSUME Init PROVE TypeOK
    BY <2>1, SpecsAssumption DEF Init, CacheInit, CacheTypeOK, TypeOK, Langs, None
  <2> QED
    BY <2>1 DEF Init, OutputInv, Written, Compiled, ClassesHaveProtos, SdkIsOfRun,
                SdkHasClasses, Present, Langs
<1>2. OutputInv /\ [Next]_vars => OutputInv'
  <2>1. ASSUME OutputInv, Next PROVE OutputInv'
    BY <2>1, TypeStep, WrittenStep, CompiledStep, FilesStay, SdkStep DEF OutputInv
  <2>2. ASSUME OutputInv, UNCHANGED vars PROVE OutputInv'
    BY <2>2, TypeStep DEF OutputInv, Written, Compiled, ClassesHaveProtos, SdkIsOfRun,
                SdkHasClasses, Present, vars, run, output
  <2> QED
    BY <2>1, <2>2
<1> QED
  BY <1>1, <1>2, PTL DEF Spec

\* Every service of a Python SDK has had its classes compiled, whenever runs end and
\* whatever is edited between them.
THEOREM ClassesAreThere == Spec => []SdkHasClasses
BY OutputIsInvariant, PTL DEF OutputInv

\* A run that comes through leaves .proto files, classes and SDK of one specification.
THEOREM DoneIsCurrent == Spec => []DoneMeansCurrent
<1>1. OutputInv => DoneMeansCurrent
  BY DEF OutputInv, Written, Compiled, SdkIsOfRun, DoneMeansCurrent
<1> QED
  BY <1>1, OutputIsInvariant, PTL

\* protoc takes what the generator wrote, unless files of removed services are left
\* or services refer to each other in a circle.
THEOREM ProtocTakesFresh == Spec => []FreshFilesCompile
<1>1. OutputInv => FreshFilesCompile
  <2>1. SUFFICES ASSUME OutputInv, stage = "compile",
                        Present(protos) = Present(forProto),
                        \A group \in SUBSET Present(forProto) \ {{}} :
                          \E s \in group : forProto[s].refersTo \cap group = {}
                 PROVE  Accepts(protos)
    BY DEF FreshFilesCompile
  <2>2. \A s \in Present(protos) : protos[s] = forProto[s] /\ s \in Services
    BY <2>1 DEF OutputInv, Written, Present
  <2>3. forProto \in [Services -> ServiceSpec \cup {Absent}]
        /\ \A s \in Present(forProto) : \A q \in forProto[s].refersTo :
              q \in Present(forProto) /\ forProto[q].shares
    BY <2>1, SpecsAssumption DEF OutputInv, TypeOK
  <2>4. ASSUME NEW s \in Present(protos), NEW q \in protos[s].refersTo
        PROVE  protos[q] \notin {Absent, Truncated} /\ protos[q].shares
    <3>1. q \in Present(forProto) /\ forProto[q].shares
      BY <2>1, <2>2, <2>3, <2>4
    <3>2. protos[q] = forProto[q] /\ forProto[q] \in ServiceSpec
      BY <2>1, <2>2, <2>3, <3>1 DEF Present
    <3> QED
      BY <3>1, <3>2, NoFileAssumption
  <2>5. ASSUME NEW group \in SUBSET {s \in Present(protos) : protos[s] # Truncated} \ {{}}
        PROVE  \E s \in group : protos[s].refersTo \cap group = {}
    BY <2>1, <2>2, <2>5
  <2> QED
    BY <2>4, <2>5 DEF Accepts
<1> QED
  BY <1>1, OutputIsInvariant, PTL
=============================================================================
