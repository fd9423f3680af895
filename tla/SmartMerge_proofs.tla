-------------------------- MODULE SmartMerge_proofs --------------------------
(***************************************************************************)
(* Proofs about the merge: for any services and RPCs, two of one name      *)
(* included, any number of runs, interrupted or not, and of edits by       *)
(* author and developer between them.                                      *)
(***************************************************************************)
EXTENDS SmartMerge, InductionLemmas, SequenceTheorems

\* The file begins with the skeleton it was created from; every block behind that
\* has a name of its own, or none.
BeginsAsCreated(file, rpcs) ==
    /\ Len(file) >= 3 + Len(rpcs)
    /\ \A i \in 1 .. 3 : file[i].name = NoName
    /\ \A i \in 1 .. Len(rpcs) : file[i + 3].name = Handler(rpcs[i])
    /\ \A i, j \in DOMAIN file :
        i < j /\ j > 3 + Len(rpcs) => file[j].name # file[i].name \/ file[j].name = NoName

IInv == TypeOK /\ (callbacks # NoFile => BeginsAsCreated(callbacks, created))

-----------------------------------------------------------------------------
\* Of a text all of whose blocks are skipped nothing is added.
LEMMA NothingAdded ==
    ASSUME NEW text \in Seq(Block), NEW file, \A n \in 1 .. Len(text) : Skipped(text[n])
    PROVE  Additions(text, file) = <<>>
<1> DEFINE last == Len(text)
           Def(g) == [n \in 0 .. last |->
                        IF n = 0 THEN <<>>
                        ELSE IF IsAddition(text[n], file) THEN Append(g[n - 1], text[n])
                        ELSE g[n - 1]]
           added == CHOOSE g : g = Def(g)
           empty == [n \in 0 .. last |-> <<>>]
<1>1. last \in Nat /\ \A n \in 1 .. last : ~ IsAddition(text[n], file)
  BY DEF IsAddition
<1>2. empty = Def(empty)
  <2>1. ASSUME NEW n \in 0 .. last PROVE Def(empty)[n] = <<>>
    <3> HIDE DEF last
    <3> QED
      BY <1>1
  <2>2. Def(empty) = [n \in 0 .. last |-> Def(empty)[n]]
    OBVIOUS
  <2> HIDE DEF Def, last
  <2> QED
    BY <2>1, <2>2
<1>3. added = Def(added)
  <2> HIDE DEF Def, empty
  <2> QED
    BY <1>2, Zenon
<1>4. Additions(text, file) = added[last]
  BY DEF Additions
<1> HIDE DEF added
<1>5. /\ added[0] = <<>>
      /\ \A n \in 1 .. last : added[n] = added[n - 1]
  <2>1. \A n : added[n] = Def(added)[n]
    <3> HIDE DEF Def
    <3> QED
      BY <1>3
  <2>2. Def(added)[0] = <<>>
    <3> HIDE DEF last
    <3> QED
      BY <1>1
  <2>3. ASSUME NEW n \in 1 .. last PROVE Def(added)[n] = added[n - 1]
    <3>1. n \in 0 .. last /\ n # 0 /\ ~ IsAddition(text[n], file)
      BY <1>1
    <3> HIDE DEF last
    <3> QED
      BY <3>1
  <2> HIDE DEF Def, last
  <2> QED
    BY <2>1, <2>2, <2>3
<1> HIDE DEF Def, empty, last
<1> DEFINE Good == {n \in Nat : n <= last => added[n] = <<>>}
<1>6. 0 \in Good
  BY <1>5
<1>7. ASSUME NEW m \in Nat, m \in Good PROVE m + 1 \in Good
  <2>1. ASSUME m + 1 <= last PROVE added[m + 1] = <<>>
    <3>1. m + 1 \in 1 .. last /\ (m + 1) - 1 = m /\ added[m] = <<>>
      BY <1>1, <1>7, <2>1
    <3> QED
      BY <1>5, <3>1
  <2> QED
    BY <2>1
<1>8. last \in Good
  <2> HIDE DEF Good
  <2> QED
    BY <1>1, <1>6, <1>7, NatSetInduction
<1> QED
  BY <1>1, <1>4, <1>8

\* The skeleton has one block for each RPC it is for.
LEMMA SkeletonOfSpec ==
    ASSUME NEW rpcs \in Seq(Rpcs)
    PROVE  /\ Skeleton(rpcs) \in Seq(Block) /\ Skeleton(rpcs) # NoFile
           /\ \A n \in 1 .. Len(Skeleton(rpcs)) : Skipped(Skeleton(rpcs)[n])
           /\ BeginsAsCreated(Skeleton(rpcs), rpcs)
<1> DEFINE handlers == [i \in DOMAIN rpcs |-> Generated("/**", Handler(rpcs[i]))]
<1>1. /\ DOMAIN rpcs = 1 .. Len(rpcs) /\ Len(rpcs) \in Nat
      /\ \A i \in DOMAIN rpcs : Handler(rpcs[i]) \in Handlers
  BY DEF Handlers
<1>2. /\ Preamble \in Seq(Block) /\ Len(Preamble) = 3
      /\ \A i \in 1 .. 3 : Preamble[i].name = NoName /\ Skipped(Preamble[i])
  <2> DEFINE w == Generated("/**", NoName)
             x == Generated("#include", NoName)
             y == Generated("LOG_MODULE_REGISTER", NoName)
  <2>1. {w, x, y} \subseteq Block /\ \A e \in {w, x, y} : e.name = NoName /\ Skipped(e)
    BY DEF Generated, Block, Skipped
  <2>2. Preamble = <<w, x, y>>
    BY DEF Preamble
  <2> HIDE DEF w, x, y
  <2>3. /\ Preamble \in Seq(Block) /\ Len(Preamble) = 3
        /\ \A i \in 1 .. 3 : Preamble[i] \in {w, x, y}
    BY <2>1, <2>2
  <2> QED
    BY <2>1, <2>3
<1>3. handlers \in Seq(Block) /\ Len(handlers) = Len(rpcs)
  BY <1>1 DEF Generated, Block
<1>4. \A i \in DOMAIN rpcs : handlers[i].name = Handler(rpcs[i]) /\ Skipped(handlers[i])
  BY <1>1 DEF Generated, Skipped
<1>5. Skeleton(rpcs) = Preamble \o handlers
  BY DEF Skeleton
<1> HIDE DEF handlers
<1> DEFINE text == Skeleton(rpcs)
<1>6. /\ text \in Seq(Block) /\ Len(text) = 3 + Len(rpcs)
      /\ \A i \in 1 .. 3 + Len(rpcs) :
            text[i] = IF i <= 3 THEN Preamble[i] ELSE handlers[i - 3]
  <2>1. /\ Preamble \o handlers \in Seq(Block)
        /\ Len(Preamble \o handlers) = Len(Preamble) + Len(handlers)
        /\ \A i \in 1 .. Len(Preamble) + Len(handlers) :
              (Preamble \o handlers)[i] =
                  IF i <= Len(Preamble) THEN Preamble[i] ELSE handlers[i - Len(Preamble)]
    <3>1. Preamble \in Seq(Block) /\ handlers \in Seq(Block)
      BY <1>2, <1>3
    <3> QED
      BY <3>1, ConcatProperties
  <2> QED
    BY <1>2, <1>3, <1>5, <2>1
<1> HIDE DEF text
<1>7. \A i \in 1 .. 3 : text[i].name = NoName /\ Skipped(text[i])
  BY <1>1, <1>2, <1>6
<1>8. ASSUME NEW i \in 1 .. Len(rpcs)
      PROVE  text[i + 3].name = Handler(rpcs[i]) /\ Skipped(text[i + 3])
  <2>1. text[i + 3] = handlers[i]
    <3>1. i + 3 \in 1 .. 3 + Len(rpcs) /\ ~ i + 3 <= 3 /\ (i + 3) - 3 = i
      BY <1>1
    <3> QED
      BY <1>6, <3>1
  <2> QED
    BY <1>1, <1>4, <2>1
<1>9. ASSUME NEW n \in 1 .. Len(text)
      PROVE  Skipped(text[n])
  <2>1. Len(text) = 3 + Len(rpcs) /\ Len(rpcs) \in Nat
    BY <1>1, <1>6
  <2>2. CASE n \in 1 .. 3
    BY <1>7, <2>2
  <2>3. CASE n \notin 1 .. 3
    <3>1. n - 3 \in 1 .. Len(rpcs) /\ (n - 3) + 3 = n
      BY <2>1, <2>3
    <3> QED
      BY <1>8, <3>1
  <2> QED
    BY <2>2, <2>3
<1>10. BeginsAsCreated(text, rpcs)
  BY <1>1, <1>6, <1>7, <1>8 DEF BeginsAsCreated
<1>11. text # NoFile
  <2>1. Len(text) # 0
    BY <1>1, <1>6
  <2> QED
    BY <2>1 DEF NoFile
<1> QED
  BY <1>6, <1>9, <1>10, <1>11 DEF text

\* A block with a new name, put behind a file, or one that changes hands, leaves
\* the file what it was created as.
LEMMA AppendedFile ==
    ASSUME NEW file \in Seq(Block), NEW rpcs \in Seq(Rpcs), BeginsAsCreated(file, rpcs),
           NEW b \in Block, \A i \in DOMAIN file : file[i].name # b.name
    PROVE  BeginsAsCreated(Append(file, b), rpcs)
<1> DEFINE longer == Append(file, b)
           n == Len(file)
<1>1. /\ n \in Nat /\ DOMAIN file = 1 .. n /\ Len(longer) = n + 1
      /\ DOMAIN longer = 1 .. n + 1 /\ longer[n + 1] = b
      /\ \A i \in 1 .. n : longer[i] = file[i]
      /\ Len(rpcs) \in Nat
  OBVIOUS
<1>2. n >= 3 + Len(rpcs)
  BY DEF BeginsAsCreated
<1> HIDE DEF longer, n
<1>3. \A i \in 1 .. 3 : longer[i].name = NoName
  BY <1>1, <1>2 DEF BeginsAsCreated
<1>4. ASSUME NEW i \in 1 .. Len(rpcs) PROVE longer[i + 3].name = Handler(rpcs[i])
  <2>1. i + 3 \in 1 .. n
    BY <1>1, <1>2
  <2> QED
    BY <1>1, <2>1 DEF BeginsAsCreated
<1>5. ASSUME NEW i \in 1 .. n + 1, NEW j \in 1 .. n + 1, i < j, j > 3 + Len(rpcs)
      PROVE  longer[j].name # longer[i].name \/ longer[j].name = NoName
  <2>1. CASE j = n + 1
    BY <1>1, <1>5, <2>1
  <2>2. CASE j \in 1 .. n
    <3>1. i \in DOMAIN file /\ j \in DOMAIN file
      BY <1>1, <1>5, <2>2
    <3>2. file[j].name # file[i].name \/ file[j].name = NoName
      BY <1>5, <3>1 DEF BeginsAsCreated
    <3>3. longer[i] = file[i] /\ longer[j] = file[j]
      BY <1>1, <3>1
    <3> QED
      BY <3>2, <3>3
  <2> QED
    BY <1>1, <2>1, <2>2
<1>6. Len(longer) >= 3 + Len(rpcs)
  BY <1>1, <1>2
<1>7. BeginsAsCreated(longer, rpcs)
  BY <1>1, <1>3, <1>4, <1>5, <1>6 DEF BeginsAsCreated
<1> QED
  BY <1>7 DEF longer

LEMMA RewrittenFile ==
    ASSUME NEW file \in Seq(Block), NEW rpcs \in Seq(Rpcs), BeginsAsCreated(file, rpcs),
           NEW other \in Seq(Block), Len(other) = Len(file),
           \A i \in DOMAIN file : other[i].name = file[i].name
    PROVE  BeginsAsCreated(other, rpcs)
<1>1. /\ Len(file) \in Nat /\ Len(rpcs) \in Nat
      /\ DOMAIN file = 1 .. Len(file) /\ DOMAIN other = 1 .. Len(file)
      /\ Len(file) >= 3 + Len(rpcs)
  BY DEF BeginsAsCreated
<1>2. ASSUME NEW i \in 1 .. Len(rpcs) PROVE i + 3 \in DOMAIN file
  BY <1>1
<1>3. \A i \in 1 .. 3 : i \in DOMAIN file
  BY <1>1
<1> QED
  BY <1>1, <1>2, <1>3 DEF BeginsAsCreated

-----------------------------------------------------------------------------
\* What the developer may do to the file.
LEMMA DevelopedFile ==
    ASSUME IInv, Implement
    PROVE  /\ callbacks' \in Seq(Block) /\ callbacks' # NoFile
           /\ BeginsAsCreated(callbacks', created)
           /\ \A i \in DOMAIN callbacks : callbacks[i].by = "developer" =>
                i \in DOMAIN callbacks' /\ callbacks'[i] = callbacks[i]
<1>1. /\ callbacks \in Seq(Block) /\ callbacks # <<>> /\ created \in Seq(Rpcs)
      /\ BeginsAsCreated(callbacks, created)
  BY DEF IInv, TypeOK, Implement, NoFile
<1>2. CASE \E i \in DOMAIN callbacks :
             /\ callbacks[i].name # NoName
             /\ callbacks' = [callbacks EXCEPT ![i].by = "developer"]
  <2>1. PICK i \in DOMAIN callbacks : callbacks' = [callbacks EXCEPT ![i].by = "developer"]
    BY <1>2
  <2> DEFINE b == [callbacks[i] EXCEPT !.by = "developer"]
  <2>2. callbacks[i] \in Block
    BY <1>1
  <2>3. /\ b \in Block /\ b.name = callbacks[i].name
        /\ callbacks[i].by = "developer" => b = callbacks[i]
    BY <2>2 DEF Block
  <2>4. callbacks' = [callbacks EXCEPT ![i] = b]
    BY <2>1
  <2> HIDE DEF b
  <2>5. /\ callbacks' \in Seq(Block) /\ Len(callbacks') = Len(callbacks)
        /\ DOMAIN callbacks' = DOMAIN callbacks /\ callbacks' # <<>>
    BY <1>1, <2>3, <2>4
  <2>6. /\ \A j \in DOMAIN callbacks : callbacks'[j].name = callbacks[j].name
        /\ \A j \in DOMAIN callbacks :
             callbacks[j].by = "developer" => callbacks'[j] = callbacks[j]
    BY <2>3, <2>4
  <2>7. BeginsAsCreated(callbacks', created)
    BY <1>1, <2>5, <2>6, RewrittenFile
  <2> QED
    BY <2>5, <2>6, <2>7 DEF NoFile
<1>3. CASE \E h \in Handlers :
             /\ \A i \in DOMAIN callbacks : callbacks[i].name # h
             /\ callbacks' = Append(callbacks, [starts |-> "/**", name |-> h,
                                               by |-> "developer"])
  <2>1. PICK h \in Handlers :
          /\ \A i \in DOMAIN callbacks : callbacks[i].name # h
          /\ callbacks' = Append(callbacks, [starts |-> "/**", name |-> h, by |-> "developer"])
    BY <1>3
  <2> DEFINE b == [starts |-> "/**", name |-> h, by |-> "developer"]
  <2>2. b \in Block /\ b.name = h
    BY DEF Block
  <2>3. callbacks' = Append(callbacks, b)
    BY <2>1
  <2> HIDE DEF b
  <2>4. /\ callbacks' \in Seq(Block) /\ callbacks' # <<>>
        /\ \A i \in DOMAIN callbacks : i \in DOMAIN callbacks' /\ callbacks'[i] = callbacks[i]
    BY <1>1, <2>2, <2>3
  <2>5. BeginsAsCreated(callbacks', created)
    BY <1>1, <2>1, <2>2, <2>3, AppendedFile
  <2> QED
    BY <2>4, <2>5 DEF NoFile
<1> QED
  BY <1>2, <1>3 DEF Implement

\* What a run of the generator may do to it: a merge finds nothing to add, since
\* every block of the skeleton begins with a comment.
LEMMA WrittenFile ==
    ASSUME IInv, WriteCallbacks
    PROVE  /\ callbacks' \in Seq(Block) /\ callbacks' # NoFile
           /\ created' \in Seq(Rpcs) /\ Unique(created')
           /\ BeginsAsCreated(callbacks', created')
           /\ backup' \in Seq(Block)
           /\ \A i \in DOMAIN callbacks :
                i \in DOMAIN callbacks' /\ callbacks'[i] = callbacks[i]
<1> USE DEF IInv
<1>1. CASE Create
  <2>1. /\ callbacks = <<>> /\ callbacks' = Skeleton(spec) /\ created' = spec
        /\ backup' = backup /\ spec \in Seq(Rpcs) /\ Unique(spec)
    BY <1>1 DEF Create, NoFile, TypeOK
  <2>2. DOMAIN callbacks = {}
    BY <2>1
  <2>3. /\ callbacks' \in Seq(Block) /\ callbacks' # NoFile
        /\ BeginsAsCreated(callbacks', created')
    BY <2>1, SkeletonOfSpec
  <2>4. backup' \in Seq(Block)
    BY <2>1 DEF TypeOK
  <2> QED
    BY <2>1, <2>2, <2>3, <2>4
<1>2. CASE Merge
  <2>1. Additions(Skeleton(spec), callbacks) = <<>>
    BY SkeletonOfSpec, NothingAdded DEF TypeOK
  <2>2. /\ callbacks \in Seq(Block) /\ callbacks # NoFile /\ created' = created
        /\ backup' \in {backup, callbacks} /\ callbacks' = callbacks \o <<>>
    BY <1>2, <2>1 DEF Merge, TypeOK
  <2>3. callbacks' = callbacks
    BY <2>2
  <2>4. backup' \in Seq(Block) /\ created' \in Seq(Rpcs) /\ Unique(created')
    BY <2>2 DEF TypeOK
  <2> QED
    BY <2>2, <2>3, <2>4
<1> QED
  BY <1>1, <1>2 DEF WriteCallbacks

LEMMA SpecStep ==
    ASSUME TypeOK, EditSpec
    PROVE  spec' \in Seq(Rpcs) /\ Unique(spec')
<1>1. spec \in Seq(Rpcs) /\ Unique(spec')
  BY DEF TypeOK, EditSpec
<1>2. CASE \E r \in Rpcs, i \in 1 .. Len(spec) + 1 : spec' = InsertAt(spec, i, r)
  <2>1. PICK r \in Rpcs, i \in 1 .. Len(spec) + 1 : spec' = InsertAt(spec, i, r)
    BY <1>2
  <2>2. /\ SubSeq(spec, 1, i - 1) \in Seq(Rpcs) /\ <<r>> \in Seq(Rpcs)
        /\ SubSeq(spec, i, Len(spec)) \in Seq(Rpcs)
    BY <1>1, <2>1
  <2> QED
    BY <1>1, <2>1, <2>2 DEF InsertAt
<1>3. CASE \E i \in DOMAIN spec : spec' = RemoveAt(spec, i)
  <2>1. PICK i \in DOMAIN spec : spec' = RemoveAt(spec, i)
    BY <1>3
  <2>2. /\ SubSeq(spec, 1, i - 1) \in Seq(Rpcs)
        /\ SubSeq(spec, i + 1, Len(spec)) \in Seq(Rpcs)
    BY <1>1, <2>1
  <2> QED
    BY <1>1, <2>1, <2>2 DEF RemoveAt
<1> QED
  BY <1>1, <1>2, <1>3 DEF EditSpec

\* Between any two runs, edits and interruptions the file of callbacks begins as it
\* was created, and what was put behind that has names of its own.
THEOREM MergeInvariant == Spec => []IInv
<1>1. Init => IInv
  <2>1. /\ <<>> \in Seq(Rpcs) /\ <<>> \in Seq(Block) /\ DOMAIN <<>> = {}
    OBVIOUS
  <2> QED
    BY <2>1, MergeAssumption DEF Init, IInv, TypeOK, NoFile, Unique
<1>2. IInv /\ [Next]_vars => IInv'
  <2> SUFFICES ASSUME IInv, [Next]_vars PROVE IInv'
    OBVIOUS
  <2> USE DEF IInv
  <2>1. CASE UNCHANGED vars
    BY <2>1 DEF vars, TypeOK, Unique, BeginsAsCreated
  <2>2. CASE WriteServer
    <3>1. Called(spec) \subseteq Handlers
      BY DEF TypeOK, Called, Handlers
    <3> QED
      BY <2>2, <3>1, MergeAssumption DEF WriteServer, TypeOK, Unique, BeginsAsCreated
  <2>3. CASE WriteCallbacks
    BY <2>3, WrittenFile DEF WriteCallbacks, TypeOK, Unique
  <2>4. CASE Interrupt
    BY <2>4 DEF Interrupt, TypeOK, Unique, BeginsAsCreated
  <2>5. CASE EditSpec
    <3>1. /\ spec' \in Seq(Rpcs) /\ Unique(spec')
          /\ edits' \in 0 .. MaxEdits
      BY <2>5, SpecStep, MergeAssumption DEF EditSpec, TypeOK
    <3>2. UNCHANGED <<table, callbacks, backup, run, runs, created>>
      BY <2>5 DEF EditSpec
    <3>3. TypeOK'
      BY <3>1, <3>2 DEF TypeOK, Unique
    <3> QED
      BY <3>2, <3>3 DEF BeginsAsCreated
  <2>6. CASE Implement
    <3>1. UNCHANGED <<spec, table, backup, run, runs, edits, created>>
      BY <2>6 DEF Implement
    <3>2. callbacks' \in Seq(Block) /\ BeginsAsCreated(callbacks', created)
      BY <2>6, DevelopedFile
    <3>3. TypeOK'
      BY <3>1, <3>2 DEF TypeOK, Unique
    <3> QED
      BY <3>1, <3>2, <3>3 DEF BeginsAsCreated
  <2> QED
    BY <2>1, <2>2, <2>3, <2>4, <2>5, <2>6 DEF Next
<1> QED
  BY <1>1, <1>2, PTL DEF Spec

\* A handler is defined twice only by the skeleton the file was created from, for
\* two RPCs of its name.
THEOREM HandlersDefinedOnce == Spec => []DefinedOnce
<1>1. IInv => DefinedOnce
  <2> SUFFICES ASSUME IInv, NEW i \in DOMAIN callbacks, NEW j \in DOMAIN callbacks, i < j,
                      callbacks[i].name = callbacks[j].name, callbacks[i].name # NoName
               PROVE  /\ j <= Len(Preamble) + Len(created)
                      /\ \E r, q \in ToSet(created) :
                           /\ r # q /\ Handler(r) = callbacks[i].name
                           /\ Handler(q) = callbacks[i].name
    BY DEF DefinedOnce
  <2>1. /\ callbacks \in Seq(Block) /\ DOMAIN callbacks = 1 .. Len(callbacks)
        /\ Len(callbacks) \in Nat /\ created \in Seq(Rpcs) /\ Unique(created)
        /\ DOMAIN created = 1 .. Len(created) /\ Len(created) \in Nat
    BY DEF IInv, TypeOK
  <2>2. BeginsAsCreated(callbacks, created)
    <3>1. callbacks # <<>>
      BY <2>1
    <3> QED
      BY <3>1 DEF IInv, NoFile
  <2>3. j <= 3 + Len(created)
    BY <2>1, <2>2 DEF BeginsAsCreated
  <2>4. Len(Preamble) = 3
    BY DEF Preamble
  <2>5. i > 3 /\ j > 3
    <3>1. \A k \in 1 .. 3 : callbacks[k].name = NoName
      BY <2>2 DEF BeginsAsCreated
    <3> QED
      BY <2>1, <3>1
  <2> DEFINE k == i - 3
             l == j - 3
  <2>6. k \in DOMAIN created /\ l \in DOMAIN created /\ k # l /\ k + 3 = i /\ l + 3 = j
    BY <2>1, <2>3, <2>5
  <2> HIDE DEF k, l
  <2>7. Handler(created[k]) = callbacks[i].name /\ Handler(created[l]) = callbacks[i].name
    BY <2>1, <2>2, <2>6 DEF BeginsAsCreated
  <2>8. created[k] # created[l]
    BY <2>6, <2>1 DEF Unique
  <2>9. created[k] \in ToSet(created) /\ created[l] \in ToSet(created)
    BY <2>6 DEF ToSet
  <2> QED
    BY <2>3, <2>4, <2>7, <2>8, <2>9
<1> QED
  BY <1>1, MergeInvariant, PTL

\* As long as the table asks for nothing the file was not created for, every
\* handler it calls is defined.
THEOREM LinksAsLongAsCreated == Spec => []LinksAsCreated
<1>1. IInv => LinksAsCreated
  <2> SUFFICES ASSUME IInv, callbacks # NoFile, NEW h \in Called(created)
               PROVE  h \in Defined(callbacks)
    BY DEF LinksAsCreated
  <2>1. PICK i \in DOMAIN created : h = Handler(created[i])
    BY DEF Called
  <2>2. /\ created \in Seq(Rpcs) /\ DOMAIN created = 1 .. Len(created) /\ Len(created) \in Nat
        /\ callbacks \in Seq(Block) /\ DOMAIN callbacks = 1 .. Len(callbacks)
        /\ Len(callbacks) \in Nat /\ BeginsAsCreated(callbacks, created)
    BY DEF IInv, TypeOK
  <2>3. i + 3 \in DOMAIN callbacks /\ callbacks[i + 3].name = h
    BY <2>1, <2>2 DEF BeginsAsCreated
  <2>4. h \in Handlers
    BY <2>1, <2>2 DEF Handlers
  <2> QED
    BY <2>3, <2>4, MergeAssumption DEF Defined
<1> QED
  BY <1>1, MergeInvariant, PTL

\* Nothing takes away what the developer wrote.
THEOREM KeepsDeveloperCode == Spec => DeveloperCodeKept
<1> DEFINE Kept == \A i \in DOMAIN callbacks : callbacks[i].by = "developer" =>
                     i \in DOMAIN callbacks' /\ callbacks'[i] = callbacks[i]
<1>1. IInv /\ [Next]_vars => [Kept]_vars
  <2> SUFFICES ASSUME IInv, Next PROVE Kept
    OBVIOUS
  <2>1. CASE WriteCallbacks
    BY <2>1, WrittenFile
  <2>2. CASE Implement
    BY <2>2, DevelopedFile
  <2>3. CASE WriteServer \/ Interrupt \/ EditSpec
    BY <2>3 DEF WriteServer, Interrupt, EditSpec
  <2> QED
    BY <2>1, <2>2, <2>3 DEF Next
<1> QED
  BY <1>1, MergeInvariant, PTL DEF Spec, DeveloperCodeKept
=============================================================================
