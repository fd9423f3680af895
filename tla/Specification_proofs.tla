------------------------ MODULE Specification_proofs ------------------------
(***************************************************************************)
(* Proofs about what the validator accepts and the generators make of it:  *)
(* for any services, RPCs, enums, types and fields.                        *)
(***************************************************************************)
EXTENDS Specification, InductionLemmas, SequenceTheorems

-----------------------------------------------------------------------------
(* Type correctness.                                                       *)

LEMMA AppendType ==
    ASSUME NEW S, NEW s \in Seq(S), NEW e \in S
    PROVE  Append(s, e) \in Seq(S)
OBVIOUS

LEMMA NameEnumType ==
    ASSUME NamesTypeOK, NameEnum
    PROVE  NamesTypeOK'
<1>1. PICK e \in Enums \ DOMAIN prefix, p \in PrefixWords :
          prefix' = [d \in DOMAIN prefix \cup {e} |-> IF d = e THEN p ELSE prefix[d]]
  BY DEF NameEnum
<1> QED
  BY <1>1 DEF NamesTypeOK, NameEnum, Range

LEMMA StepType ==
    ASSUME TypeOK, [Next]_vars
    PROVE  TypeOK'
<1> USE DEF TypeOK
<1>1. CASE NumberService \/ AddRpc
  BY <1>1, AppendType
  DEF NumberService, AddRpc, WriteServiceId, WriteRpc, IdsTypeOK, NamesTypeOK, TypesTypeOK, FieldsTypeOK
<1>2. CASE AddMember
  BY <1>2, AppendType
  DEF AddMember, WriteMember, IdsTypeOK, NamesTypeOK, TypesTypeOK, FieldsTypeOK
<1>3. CASE AddEnum
  BY <1>3, NameEnumType DEF AddEnum, IdsTypeOK, TypesTypeOK, FieldsTypeOK
<1>4. CASE AddName
  BY <1>4, AppendType
  DEF AddName, NameMember, IdsTypeOK, NamesTypeOK, TypesTypeOK, FieldsTypeOK
<1>5. CASE AddType \/ AddReference
  BY <1>5
  DEF AddType, AddReference, Declare, Refer, IdsTypeOK, NamesTypeOK, TypesTypeOK, FieldsTypeOK
<1>6. CASE AddField
  BY <1>6, AppendType
  DEF AddField, WriteField, IdsTypeOK, NamesTypeOK, TypesTypeOK, FieldsTypeOK
<1>7. CASE Configure
  BY <1>7
  DEF Configure, WriteConfig, Settings, IdsTypeOK, NamesTypeOK, TypesTypeOK, FieldsTypeOK
<1>8. CASE UNCHANGED vars
  BY <1>8 DEF vars, IdsTypeOK, NamesTypeOK, TypesTypeOK, FieldsTypeOK
<1> QED
  BY <1>1, <1>2, <1>3, <1>4, <1>5, <1>6, <1>7, <1>8 DEF Next

\* What the author writes is what a specification may say.
THEOREM TypeCorrect == Spec => []TypeOK
<1>1. Init => TypeOK
  <2> SUFFICES ASSUME Init PROVE TypeOK
    OBVIOUS
  <2>1. IdsTypeOK
    BY IdsAssumption DEF Init, IdsInit, IdsTypeOK
  <2>2. NamesTypeOK
    BY DEF Init, NamesInit, NamesTypeOK, Range
  <2>3. TypesTypeOK
    BY SpellingAssumption DEF Init, TypesInit, TypesTypeOK, Declaration, Files
  <2>4. FieldsTypeOK /\ members \in Seq(ValuesOffered \cup {NoValue})
    BY DEF Init, FieldsInit, FieldsTypeOK, Settings, EnumInit
  <2> QED
    BY <2>1, <2>2, <2>3, <2>4 DEF TypeOK
<1> QED
  BY <1>1, StepType, PTL DEF Spec

-----------------------------------------------------------------------------
(* Ids on the wire.                                                        *)

\* Two bytes make one number, and no other two bytes make it.
LEMMA BytesOfId ==
    ASSUME NEW a \in Nat, NEW b \in Nat, NEW x \in 0 .. Range256 - 1, NEW y \in 0 .. Range256 - 1
    PROVE  /\ Combine(a, x) = Combine(b, y) => a = b /\ x = y
           /\ a < Range256 => Combine(a, x) \in 0 .. Range256 * Range256 - 1
<1> DEFINE R == Range256
<1>1. R \in Nat /\ R >= 2
  BY IdsAssumption DEF Range256
<1>2. x \in Nat /\ y \in Nat /\ x < R /\ y < R
  BY <1>1
<1>3. Combine(a, x) = a * R + x /\ Combine(b, y) = b * R + y
  BY DEF Combine
<1> HIDE DEF R
<1>4. ASSUME NEW m \in Nat, NEW n \in Nat, m < n PROVE m * R + R <= n * R
  <2>1. n - m - 1 \in Nat /\ n = m + 1 + (n - m - 1)
    BY <1>4
  <2>2. (n - m - 1) * R \in Nat
    BY <1>1, <2>1
  <2>3. n * R = m * R + R + (n - m - 1) * R
    BY <1>1, <2>1
  <2> QED
    BY <1>1, <2>2, <2>3
<1>5. a * R \in Nat /\ b * R \in Nat
  BY <1>1
<1>6. ASSUME a * R + x = b * R + y PROVE a = b
  <2>1. ~ (a < b)
    BY <1>1, <1>2, <1>4, <1>5, <1>6
  <2>2. ~ (b < a)
    BY <1>1, <1>2, <1>4, <1>5, <1>6
  <2> QED
    BY <2>1, <2>2
<1>7. ASSUME a < R PROVE a * R + x \in 0 .. R * R - 1
  <2>1. a * R + R <= R * R /\ R * R \in Nat
    BY <1>1, <1>4, <1>7
  <2> QED
    BY <1>1, <1>2, <1>5, <2>1
<1> QED
  BY <1>2, <1>3, <1>5, <1>6, <1>7 DEF R

\* The two bytes of an RPC of a specification that is accepted and has all ids.
LEMMA IdsOfRpc ==
    ASSUME IdsTypeOK, Sound, NEW i \in DOMAIN rpcs
    PROVE  /\ rpcs[i] \in Rpc
           /\ ids[rpcs[i].service] \in Nat /\ ids[rpcs[i].service] \in Core + 1 .. Range256 - 1
           /\ rpcs[i].id \in Nat /\ rpcs[i].id \in 1 .. Range256 - 1
<1>1. rpcs[i] \in Rpc
  BY DEF IdsTypeOK
<1>2. rpcs[i].service \in Services /\ rpcs[i].id \in Nat
  BY <1>1, IdsAssumption DEF Rpc, Sound, Generates
<1>3. ids[rpcs[i].service] \in Nat
  <2>1. ids[rpcs[i].service] \in IdsOffered /\ ids[rpcs[i].service] # NoId
    BY <1>2 DEF IdsTypeOK, Sound, Generates
  <2> QED
    BY <2>1, IdsAssumption
<1>4. rpcs[i].id \in 1 .. Range256 - 1
  BY DEF Sound, Accepted, Generates, InRange
<1>5. /\ ids[rpcs[i].service] \in 1 .. Range256 - 1
      /\ ids[rpcs[i].service] \notin 1 .. Core
  BY <1>2 DEF Sound, Accepted, Generates, InRange, MayBeUsed
<1> QED
  BY <1>1, <1>2, <1>3, <1>4, <1>5, IdsAssumption

\* An RPC is known by its two bytes.
LEMMA BytesOfRpc ==
    ASSUME IdsTypeOK, Sound, NEW i \in DOMAIN rpcs, NEW j \in DOMAIN rpcs,
           ids[rpcs[i].service] = ids[rpcs[j].service], rpcs[i].id = rpcs[j].id
    PROVE  i = j
<1>1. rpcs[i].service \in Services /\ rpcs[j].service \in Services
  BY IdsOfRpc DEF Rpc
<1>2. rpcs[i].service = rpcs[j].service
  BY <1>1 DEF Sound, Accepted, Generates
<1> QED
  BY <1>2 DEF Sound, Accepted, Generates, Clash

\* The table: two rows of the core, then a row for each RPC.
Row(r) == [rpcId |-> Method(r), execute |-> Handler(r), hasResponse |-> r.type # "REQUEST_ONLY"]

LEMMA RowsOfTable ==
    ASSUME IdsTypeOK
    PROVE  /\ Len(rpcs) \in Nat /\ DOMAIN rpcs = 1 .. Len(rpcs)
           /\ DOMAIN CoreTable = 1 .. 2
           /\ DOMAIN Table = 1 .. 2 + Len(rpcs)
           /\ Table[1] = CoreTable[1] /\ Table[2] = CoreTable[2]
           /\ \A i \in DOMAIN rpcs : i + 2 \in DOMAIN Table /\ Table[i + 2] = Row(rpcs[i])
<1> DEFINE rows == [i \in DOMAIN rpcs |-> Row(rpcs[i])]
           S == {CoreTable[1], CoreTable[2]} \cup {Row(rpcs[i]) : i \in DOMAIN rpcs}
<1>1. Len(rpcs) \in Nat /\ DOMAIN rpcs = 1 .. Len(rpcs)
  BY DEF IdsTypeOK
<1>2. rows \in Seq(S) /\ Len(rows) = Len(rpcs) /\ \A i \in DOMAIN rpcs : rows[i] = Row(rpcs[i])
  BY <1>1
<1>3. CoreTable \in Seq(S) /\ Len(CoreTable) = 2 /\ DOMAIN CoreTable = 1 .. 2
  BY DEF CoreTable
<1>4. Table = CoreTable \o rows
  BY DEF Table, Row
<1> HIDE DEF rows, S
<1>5. /\ Table \in Seq(S) /\ Len(Table) = 2 + Len(rpcs)
      /\ \A k \in 1 .. 2 + Len(rpcs) : Table[k] = IF k <= 2 THEN CoreTable[k] ELSE rows[k - 2]
  <2>1. /\ CoreTable \o rows \in Seq(S) /\ Len(CoreTable \o rows) = Len(CoreTable) + Len(rows)
        /\ \A k \in 1 .. Len(CoreTable) + Len(rows) :
             (CoreTable \o rows)[k] = IF k <= Len(CoreTable) THEN CoreTable[k]
                                      ELSE rows[k - Len(CoreTable)]
    <3>1. CoreTable \in Seq(S) /\ rows \in Seq(S)
      BY <1>2, <1>3
    <3> QED
      BY ONLY <3>1, ConcatProperties
  <2> QED
    BY <1>2, <1>3, <1>4, <2>1
<1>6. DOMAIN Table = 1 .. 2 + Len(rpcs)
  BY <1>1, <1>5
<1>7. ASSUME NEW i \in DOMAIN rpcs PROVE i + 2 \in 1 .. 2 + Len(rpcs) /\ Table[i + 2] = rows[i]
  <2>1. i + 2 \in 1 .. 2 + Len(rpcs) /\ ~ (i + 2 <= 2) /\ i + 2 - 2 = i
    BY <1>1
  <2> QED
    BY <1>5, <2>1
<1> QED
  BY <1>1, <1>2, <1>3, <1>5, <1>6, <1>7

\* No two rows of the table have the same id.
LEMMA RowsDiffer ==
    ASSUME IdsTypeOK, Sound, NEW k \in DOMAIN Table, NEW l \in DOMAIN Table,
           Table[k].rpcId = Table[l].rpcId
    PROVE  k = l
<1>1. Core \in Nat /\ Range256 \in Nat /\ Core < Range256 /\ 1 \in 0 .. Range256 - 1
  BY IdsAssumption DEF Range256
<1>2. ASSUME NEW n \in DOMAIN Table, n \notin 1 .. 2
      PROVE  \E i \in DOMAIN rpcs : n = i + 2
  <2>1. Len(rpcs) \in Nat /\ DOMAIN rpcs = 1 .. Len(rpcs) /\ n \in 1 .. 2 + Len(rpcs)
    BY RowsOfTable
  <2>2. n - 2 \in DOMAIN rpcs /\ n = (n - 2) + 2
    BY <1>2, <2>1
  <2> QED
    BY <2>2
<1>3. Table[1].rpcId = Combine(Core, 1) /\ Table[2].rpcId = Combine(Core, 2)
  BY RowsOfTable DEF CoreTable
<1>4. ASSUME NEW i \in DOMAIN rpcs, NEW n \in {1, 2}
      PROVE  Method(rpcs[i]) # Combine(Core, n)
  <2>1. /\ ids[rpcs[i].service] \in Nat /\ ids[rpcs[i].service] >= Core + 1
        /\ ids[rpcs[i].service] <= Range256 - 1 /\ rpcs[i].id \in 0 .. Range256 - 1
    BY <1>1, IdsOfRpc
  <2>2. 2 \in 0 .. Range256 - 1
    BY <2>1, IdsAssumption DEF Range256
  <2> DEFINE core == ids[rpcs[i].service]
             id == rpcs[i].id
  <2>3. Method(rpcs[i]) = Combine(core, id)
    BY DEF Method
  <2> HIDE DEF core, id
  <2> QED
    BY <1>1, <2>1, <2>2, <2>3, BytesOfId DEF core, id
<1>5. ASSUME NEW i \in DOMAIN rpcs, NEW j \in DOMAIN rpcs, Method(rpcs[i]) = Method(rpcs[j])
      PROVE  i = j
  <2>1. /\ ids[rpcs[i].service] \in Nat /\ rpcs[i].id \in 0 .. Range256 - 1
        /\ ids[rpcs[j].service] \in Nat /\ rpcs[j].id \in 0 .. Range256 - 1
    BY <1>1, IdsOfRpc
  <2> QED
    BY <1>5, <2>1, BytesOfId, BytesOfRpc DEF Method
<1>6. Combine(Core, 1) # Combine(Core, 2)
  BY <1>1 DEF Combine, Range256
<1>7. \A i \in DOMAIN rpcs : Table[i + 2].rpcId = Method(rpcs[i])
  <2>1. \A r : Row(r).rpcId = Method(r)
    BY DEF Row
  <2> QED
    BY <2>1, RowsOfTable
<1>8. CASE k \in 1 .. 2 /\ l \in 1 .. 2
  BY <1>3, <1>6, <1>8
<1>9. CASE k \in 1 .. 2 /\ l \notin 1 .. 2
  BY <1>2, <1>3, <1>4, <1>7, <1>9
<1>10. CASE k \notin 1 .. 2 /\ l \in 1 .. 2
  BY <1>2, <1>3, <1>4, <1>7, <1>10
<1>11. CASE k \notin 1 .. 2 /\ l \notin 1 .. 2
  BY <1>2, <1>5, <1>7, <1>11
<1> QED
  BY <1>8, <1>9, <1>10, <1>11

\* The search finds a row under its id.
LEMMA FindsRow ==
    ASSUME IdsTypeOK, Sound, NEW k \in DOMAIN Table
    PROVE  Find(Table[k].rpcId) = {Table[k]}
<1> DEFINE found == {l \in DOMAIN Table : Table[l].rpcId = Table[k].rpcId}
<1>1. found = {k}
  BY RowsDiffer
<1>2. Min({k}) = k
  BY RowsOfTable DEF Min
<1> QED
  BY <1>1, <1>2 DEF Find

\* The C server serves every RPC of an accepted specification.
THEOREM RpcsAreServed == Spec => []EveryRpcIsServed
<1>1. IdsTypeOK => EveryRpcIsServed
  <2> SUFFICES ASSUME IdsTypeOK, Sound
               PROVE  /\ \A i \in DOMAIN rpcs : Find(Method(rpcs[i])) = {Row(rpcs[i])}
                      /\ \A i \in DOMAIN rpcs : {Method(rpcs[i]), Event(rpcs[i])}
                             \subseteq 0 .. Range256 * Range256 - 1
                      /\ \A i \in DOMAIN CoreTable : Find(CoreTable[i].rpcId) = {CoreTable[i]}
    BY DEF EveryRpcIsServed, Row
  <2>1. ASSUME NEW i \in DOMAIN rpcs PROVE Find(Method(rpcs[i])) = {Row(rpcs[i])}
    <3>1. i + 2 \in DOMAIN Table /\ Table[i + 2] = Row(rpcs[i])
      BY RowsOfTable
    <3>2. Find(Table[i + 2].rpcId) = {Table[i + 2]}
      BY <3>1, FindsRow
    <3>3. Row(rpcs[i]).rpcId = Method(rpcs[i])
      BY DEF Row
    <3> QED
      BY <3>1, <3>2, <3>3
  <2>2. ASSUME NEW i \in DOMAIN rpcs
        PROVE  {Method(rpcs[i]), Event(rpcs[i])} \subseteq 0 .. Range256 * Range256 - 1
    <3>1. /\ ids[rpcs[i].service] \in Nat /\ ids[rpcs[i].service] < Range256
          /\ rpcs[i].id \in Nat /\ rpcs[i].id \in 0 .. Range256 - 1
      BY IdsOfRpc, IdsAssumption DEF Range256
    <3>2. Mark(rpcs[i].id) \in 0 .. Range256 - 1
      BY <3>1, IdsAssumption DEF Mark, Range256
    <3> QED
      BY <3>1, <3>2, BytesOfId DEF Method, Event
  <2>3. ASSUME NEW i \in DOMAIN CoreTable PROVE Find(CoreTable[i].rpcId) = {CoreTable[i]}
    <3>1. i \in DOMAIN Table /\ Table[i] = CoreTable[i]
      BY RowsOfTable
    <3> QED
      BY <3>1, FindsRow
  <2> QED
    BY <2>1, <2>2, <2>3
<1> QED
  BY <1>1, TypeCorrect, PTL DEF TypeOK

\* Which ids make an event the same as another, or as a method, for any ids.
THEOREM EventsAreApart == Spec => []WireIdsDistinct
<1>1. IdsTypeOK => WireIdsDistinct
  <2> SUFFICES ASSUME IdsTypeOK, Sound, NEW i \in DOMAIN rpcs, NEW j \in DOMAIN rpcs
               PROVE  LET r == rpcs[i]
                          q == rpcs[j]
                      IN  /\ Event(r) = Method(q) <=> r.service = q.service /\ Coincide(r.id, q.id)
                          /\ i # j =>
                              (Event(r) = Event(q) <=>
                                  r.service = q.service /\ (Coincide(r.id, q.id) \/ Coincide(q.id, r.id)))
                          /\ Method(r) # 0 /\ Event(r) # 0
    BY DEF WireIdsDistinct
  <2>1. EventBit \in Nat /\ EventBit >= 1 /\ Range256 \in Nat /\ Range256 = 2 * EventBit
    BY IdsAssumption DEF Range256
  <2>2. ASSUME NEW k \in DOMAIN rpcs
        PROVE  /\ ids[rpcs[k].service] \in Nat
               /\ rpcs[k].id \in Nat /\ 1 <= rpcs[k].id /\ rpcs[k].id < Range256
    BY IdsOfRpc, <2>1
  <2>3. ASSUME NEW k \in DOMAIN rpcs
        PROVE  /\ Mark(rpcs[k].id) = IF rpcs[k].id >= EventBit THEN rpcs[k].id ELSE rpcs[k].id + EventBit
               /\ Mark(rpcs[k].id) \in Nat /\ 1 <= Mark(rpcs[k].id) /\ Mark(rpcs[k].id) < Range256
    BY <2>1, <2>2 DEF Mark
  <2>4. ids[rpcs[i].service] = ids[rpcs[j].service] <=> rpcs[i].service = rpcs[j].service
    BY IdsOfRpc DEF Sound, Accepted, Generates, Rpc
  <2> DEFINE Byte == 0 .. Range256 - 1
  <2>5. ASSUME NEW k \in DOMAIN rpcs PROVE rpcs[k].id \in Byte /\ Mark(rpcs[k].id) \in Byte
    BY <2>1, <2>2, <2>3
  <2> HIDE DEF Byte
  <2>6. ASSUME NEW x \in Byte, NEW y \in Byte
        PROVE  Combine(ids[rpcs[i].service], x) = Combine(ids[rpcs[j].service], y)
                   <=> rpcs[i].service = rpcs[j].service /\ x = y
    BY <2>2, <2>4, BytesOfId DEF Byte
  <2>7. Event(rpcs[i]) = Method(rpcs[j]) <=>
            rpcs[i].service = rpcs[j].service /\ Mark(rpcs[i].id) = rpcs[j].id
    BY <2>5, <2>6 DEF Event, Method
  <2>8. Event(rpcs[i]) = Event(rpcs[j]) <=>
            rpcs[i].service = rpcs[j].service /\ Mark(rpcs[i].id) = Mark(rpcs[j].id)
    BY <2>5, <2>6 DEF Event
  <2>9. Mark(rpcs[i].id) = rpcs[j].id <=> Coincide(rpcs[i].id, rpcs[j].id)
    BY <2>1, <2>2, <2>3 DEF Coincide
  <2>10. ASSUME i # j, rpcs[i].service = rpcs[j].service
         PROVE  Mark(rpcs[i].id) = Mark(rpcs[j].id) <=>
                    Coincide(rpcs[i].id, rpcs[j].id) \/ Coincide(rpcs[j].id, rpcs[i].id)
    <3>1. rpcs[i].id # rpcs[j].id
      BY <2>4, <2>10, BytesOfRpc
    <3> QED
      BY <2>1, <2>2, <2>3, <3>1 DEF Coincide
  <2>11. Method(rpcs[i]) # 0 /\ Event(rpcs[i]) # 0
    <3>1. 0 \in Byte /\ Combine(0, 0) = 0 /\ 0 \in Nat
      BY <2>1 DEF Byte, Combine
    <3>2. ASSUME NEW x \in Byte, Combine(ids[rpcs[i].service], x) = 0 PROVE x = 0
      BY <2>2, <3>1, <3>2, BytesOfId DEF Byte
    <3> QED
      BY <2>2, <2>3, <2>5, <3>2 DEF Method, Event
  <2> QED
    BY <2>7, <2>8, <2>9, <2>10, <2>11
<1> QED
  BY <1>1, TypeCorrect, PTL DEF TypeOK

-----------------------------------------------------------------------------
(* Names.                                                                  *)

Subscribe(name) == <<"subscribe">> \o name

Labels == Names \cup {Subscribe(n) : n \in Names}

Key(service, label) == service \o label

LabelsOf(r) == {r.name} \cup (IF IsNotification(r) THEN {Subscribe(r.name)} ELSE {})

LEMMA LabelsAreWords ==
    /\ <<"subscribe">> \in Seq(Words)
    /\ Services \subseteq Seq(Words) /\ Names \subseteq Seq(Words)
    /\ Labels \subseteq Seq(Words)
    /\ \A r \in Rpc : LabelsOf(r) \subseteq Labels
<1>1. <<"subscribe">> \in Seq(Words)
  BY IdsAssumption
<1>2. Services \subseteq Seq(Words) /\ Names \subseteq Seq(Words)
  BY IdsAssumption
<1>3. \A n \in Names : Subscribe(n) \in Seq(Words)
  BY <1>1, <1>2, ConcatProperties DEF Subscribe
<1> QED
  BY <1>1, <1>2, <1>3 DEF Labels, LabelsOf, Rpc

\* Putting the service in front is the same as putting it in front of the rest.
LEMMA SubscribedKey ==
    ASSUME NEW r \in Rpc
    PROVE  /\ r.service \o <<"subscribe">> \o r.name = Key(r.service, Subscribe(r.name))
           /\ Subscription(r) = IF IsNotification(r) THEN Subscribe(r.name) ELSE r.name
           /\ Subscription(r) \in LabelsOf(r)
<1>1. r.service \in Seq(Words) /\ r.name \in Seq(Words)
  BY LabelsAreWords DEF Rpc
<1>2. (r.service \o <<"subscribe">>) \o r.name = r.service \o (<<"subscribe">> \o r.name)
  <2>1. <<"subscribe">> \in Seq(Words)
    BY LabelsAreWords
  <2> DEFINE word == <<"subscribe">>
  <2> HIDE DEF word
  <2>2. word \in Seq(Words)
    BY <2>1 DEF word
  <2>3. (r.service \o word) \o r.name = r.service \o (word \o r.name)
    <3> DEFINE s == r.service
               n == r.name
    <3>1. s \in Seq(Words) /\ n \in Seq(Words)
      BY <1>1
    <3> HIDE DEF s, n
    <3>2. (s \o word) \o n = s \o (word \o n)
      BY <2>2, <3>1, ConcatAssociative
    <3> QED
      BY <3>2 DEF s, n
  <2> QED
    BY <2>3 DEF word
<1> QED
  BY <1>2 DEF Key, Subscribe, Subscription, LabelsOf

\* A subscription is longer than the name it is made from.
LEMMA SubscribeDiffers ==
    ASSUME NEW n \in Names
    PROVE  n # Subscribe(n)
<1>1. n \in Seq(Words) /\ <<"subscribe">> \in Seq(Words) /\ Len(<<"subscribe">>) = 1
  BY LabelsAreWords
<1>2. Len(Subscribe(n)) = 1 + Len(n)
  BY <1>1, ConcatProperties DEF Subscribe
<1> QED
  BY <1>1, <1>2

\* The constants of an RPC: for each of its labels an id.
IdUnder(r, label) == IF IsNotification(r) /\ label = r.name THEN Event(r) ELSE Method(r)

ConstUnder(r, label) == Const(Key(r.service, label), IdUnder(r, label))

\* Python compares the type as it was written.
PyId(r) == IF IsNotification(r) /\ r.spelling = "lower" THEN Method(r) ELSE IdUnder(r, r.name)

LEMMA ConstsOfRpc ==
    ASSUME IdsTypeOK, NEW i \in DOMAIN rpcs
    PROVE  LET r == rpcs[i] IN
           /\ ProtoConsts(r) = JsConsts(r) /\ CsConsts(r) = JsConsts(r)
           /\ JsConsts(r) = IF IsNotification(r)
                            THEN <<ConstUnder(r, Subscribe(r.name)), ConstUnder(r, r.name)>>
                            ELSE <<ConstUnder(r, r.name)>>
           /\ PyConsts(r) = <<Const(Key(r.service, r.name), PyId(r))>>
<1> DEFINE r == rpcs[i]
<1>1. r \in Rpc
  BY DEF IdsTypeOK
<1>2. r.name # Subscribe(r.name)
  BY <1>1, SubscribeDiffers DEF Rpc
<1>3. r.service \o <<"subscribe">> \o r.name = Key(r.service, Subscribe(r.name))
  BY <1>1, SubscribedKey
<1> HIDE DEF r
<1>4. ProtoConsts(r) = JsConsts(r) /\ CsConsts(r) = JsConsts(r)
  BY DEF ProtoConsts, JsConsts, CsConsts
<1>5. JsConsts(r) = IF IsNotification(r)
                    THEN <<ConstUnder(r, Subscribe(r.name)), ConstUnder(r, r.name)>>
                    ELSE <<ConstUnder(r, r.name)>>
  BY <1>2, <1>3 DEF JsConsts, ConstUnder, IdUnder, Key
<1>6. PyConsts(r) = <<Const(Key(r.service, r.name), PyId(r))>>
  <2>1. r.spelling # "upper" <=> r.spelling = "lower"
    BY <1>1, IdsAssumption DEF Rpc, r
  <2> QED
    BY <2>1 DEF PyConsts, PyId, IdUnder, Key
<1> QED
  BY <1>4, <1>5, <1>6 DEF r

\* Where protoc takes the constants, a key is that of one label of one RPC.
LEMMA SameKey ==
    ASSUME ProtocTakesIds, IdsTypeOK, NEW i \in DOMAIN rpcs, NEW j \in DOMAIN rpcs,
           NEW m \in LabelsOf(rpcs[i]), NEW n \in LabelsOf(rpcs[j]),
           Key(rpcs[i].service, m) = Key(rpcs[j].service, n)
    PROVE  i = j /\ m = n
<1>1. ASSUME NEW a \in DOMAIN rpcs, NEW l \in LabelsOf(rpcs[a])
      PROVE  \E k \in DOMAIN ProtoConsts(rpcs[a]) :
                 ProtoConsts(rpcs[a])[k].key = Key(rpcs[a].service, l)
  <2> DEFINE name == ConstUnder(rpcs[a], rpcs[a].name)
             subscribe == ConstUnder(rpcs[a], Subscribe(rpcs[a].name))
             consts == ProtoConsts(rpcs[a])
  <2>1. consts = IF IsNotification(rpcs[a]) THEN <<subscribe, name>> ELSE <<name>>
    BY ConstsOfRpc
  <2>2. /\ name.key = Key(rpcs[a].service, rpcs[a].name)
        /\ subscribe.key = Key(rpcs[a].service, Subscribe(rpcs[a].name))
    BY DEF ConstUnder, Const
  <2> HIDE DEF name, subscribe, consts
  <2>3. CASE IsNotification(rpcs[a])
    <3>1. consts = <<subscribe, name>>
      BY <2>1, <2>3
    <3>2. l \in {rpcs[a].name, Subscribe(rpcs[a].name)}
      BY <2>3 DEF LabelsOf
    <3>3. {1, 2} \subseteq DOMAIN consts /\ consts[1] = subscribe /\ consts[2] = name
      BY <3>1
    <3> QED
      BY <2>2, <3>2, <3>3 DEF consts
  <2>4. CASE ~ IsNotification(rpcs[a])
    <3>1. consts = <<name>> /\ l = rpcs[a].name
      BY <2>1, <2>4 DEF LabelsOf
    <3>2. 1 \in DOMAIN consts /\ consts[1] = name
      BY <3>1
    <3> QED
      BY <2>2, <3>1, <3>2 DEF consts
  <2> QED
    BY <2>3, <2>4
<1>2. PICK k \in DOMAIN ProtoConsts(rpcs[i]) :
          ProtoConsts(rpcs[i])[k].key = Key(rpcs[i].service, m)
  BY <1>1
<1>3. PICK l \in DOMAIN ProtoConsts(rpcs[j]) :
          ProtoConsts(rpcs[j])[l].key = Key(rpcs[j].service, n)
  BY <1>1
<1>4. i = j
  BY <1>2, <1>3 DEF ProtocTakesIds
<1>5. rpcs[i] \in Rpc
  BY DEF IdsTypeOK
<1>6. rpcs[i].service \in Seq(Words) /\ m \in Seq(Words) /\ n \in Seq(Words)
  BY <1>4, <1>5, LabelsAreWords DEF Rpc
<1>7. rpcs[i].service \o m = rpcs[i].service \o n
  BY <1>4 DEF Key
<1> QED
  BY <1>4, <1>6, <1>7, ConcatSimplifications

-----------------------------------------------------------------------------
(* The constants of the clients.                                           *)

\* A set of numbers below a bound has a greatest one.
LEMMA MaxIsThere ==
    ASSUME NEW n \in Nat, NEW M \in SUBSET (1 .. n), M # {}
    PROVE  Max(M) \in M
<1> DEFINE T == {m \in Nat : \A A \in SUBSET (1 .. m) : A # {} => \E x \in A : \A y \in A : x >= y}
<1>1. 0 \in T
  <2>1. 1 .. 0 = {}
    OBVIOUS
  <2> QED
    BY <2>1
<1>2. ASSUME NEW m \in Nat, m \in T PROVE m + 1 \in T
  <2> SUFFICES ASSUME NEW A \in SUBSET (1 .. m + 1), A # {}
               PROVE  \E x \in A : \A y \in A : x >= y
    OBVIOUS
  <2>1. CASE m + 1 \in A
    BY <2>1
  <2>2. CASE m + 1 \notin A
    <3>1. A \in SUBSET (1 .. m)
      BY <2>2
    <3> QED
      BY <1>2, <3>1
  <2> QED
    BY <2>1, <2>2
<1>3. n \in T
  <2> HIDE DEF T
  <2> QED
    BY <1>1, <1>2, NatSetInduction
<1>4. \E x \in M : \A y \in M : x >= y
  BY <1>3
<1> QED
  BY <1>4 DEF Max

\* FlattenSeq has the elements of the sequences it is given.
LEMMA FlattenedElements ==
    ASSUME NEW S, NEW seqs \in Seq(Seq(S))
    PROVE  /\ FlattenSeq(seqs) \in Seq(S)
           /\ \A k \in DOMAIN FlattenSeq(seqs) :
                \E i \in DOMAIN seqs : \E j \in DOMAIN seqs[i] : FlattenSeq(seqs)[k] = seqs[i][j]
           /\ \A i \in DOMAIN seqs : \A j \in DOMAIN seqs[i] :
                \E k \in DOMAIN FlattenSeq(seqs) : FlattenSeq(seqs)[k] = seqs[i][j]
<1> DEFINE last == Len(seqs)
           SeqsOfS == Seq(S)
           Step == [n \in 1 .. last |-> [t \in SeqsOfS |-> t \o seqs[n]]]
           Def(g) == [n \in 1 .. last |-> IF n = 1 THEN seqs[n] ELSE g[n - 1] \o seqs[n]]
           flat == CHOOSE g : g = Def(g)
<1>1. last \in Nat /\ DOMAIN seqs = 1 .. last /\ \A n \in 1 .. last : seqs[n] \in SeqsOfS
  OBVIOUS
<1>2. CASE last = 0
  BY <1>2 DEF FlattenSeq
<1>3. CASE last # 0
  <2>1. FlattenSeq(seqs) = flat[last]
    BY <1>3 DEF FlattenSeq
  <2>2. <<>> \in SeqsOfS /\ Step \in [1 .. last -> [SeqsOfS -> SeqsOfS]]
    <3>1. ASSUME NEW n \in 1 .. last, NEW t \in SeqsOfS PROVE t \o seqs[n] \in SeqsOfS
      <4>1. seqs[n] \in Seq(S) /\ t \in Seq(S)
        BY <1>1, <3>1
      <4> QED
        BY <4>1, ConcatProperties
    <3> HIDE DEF last
    <3> QED
      BY <3>1
  <2>3. PICK f : IsRecursion(f, last, SeqsOfS, <<>>, Step)
    <3> HIDE DEF Step, SeqsOfS, last
    <3> QED
      BY <1>1, <2>2, RecursiveFunction
  <2>4. f \in [0 .. last -> SeqsOfS] /\ f[0] = <<>>
    <3> HIDE DEF Step, SeqsOfS, last
    <3> QED
      BY <2>3 DEF IsRecursion
  <2>5. ASSUME NEW n \in 1 .. last PROVE f[n] = f[n - 1] \o seqs[n] /\ f[n - 1] \in SeqsOfS
    <3>1. f[n] = Step[n][f[n - 1]] /\ n - 1 \in 0 .. last
      <4> HIDE DEF Step, SeqsOfS, last
      <4> QED
        BY <1>1, <2>3 DEF IsRecursion
    <3>2. Step[n] = [t \in SeqsOfS |-> t \o seqs[n]]
      OBVIOUS
    <3>3. f[n - 1] \in SeqsOfS
      <4> HIDE DEF SeqsOfS, last
      <4> QED
        BY <2>4, <3>1
    <3> HIDE DEF Step, SeqsOfS, last
    <3> QED
      BY <3>1, <3>2, <3>3
  <2> DEFINE h == [n \in 1 .. last |-> f[n]]
  <2>6. h = Def(h)
    <3>1. ASSUME NEW n \in 1 .. last PROVE h[n] = Def(h)[n]
      <4>1. h[n] = f[n] /\ f[n] = f[n - 1] \o seqs[n]
        BY <2>5
      <4>2. CASE n = 1
        <5>1. <<>> \o seqs[1] = seqs[1]
          <6> HIDE DEF last
          <6>1. seqs[1] \in Seq(S)
            BY <1>1, <4>2
          <6> QED
            BY <6>1, ConcatEmptySeq
        <5>2. h[1] = seqs[1]
          <6>1. n - 1 = 0
            BY <4>2
          <6>2. f[n - 1] = <<>>
            <7> HIDE DEF last
            <7> QED
              BY <2>4, <6>1
          <6> HIDE DEF last, h
          <6> QED
            BY <4>1, <4>2, <5>1, <6>2
        <5>3. Def(h)[1] = seqs[1]
          <6> HIDE DEF last, h
          <6> QED
            BY <4>2
        <5> QED
          BY <4>2, <5>2, <5>3
      <4>3. CASE n # 1
        <5>1. n - 1 \in 1 .. last
          <6> HIDE DEF last
          <6> QED
            BY <1>1, <4>3
        <5>2. h[n - 1] = f[n - 1]
          <6> HIDE DEF last
          <6> QED
            BY <5>1
        <5>3. Def(h)[n] = h[n - 1] \o seqs[n]
          <6> HIDE DEF last, h
          <6> QED
            BY <4>3
        <5> QED
          BY <4>1, <5>2, <5>3
      <4> QED
        BY <4>2, <4>3
    <3>2. h = [n \in 1 .. last |-> h[n]] /\ Def(h) = [n \in 1 .. last |-> Def(h)[n]]
      <4> HIDE DEF last
      <4> QED
        OBVIOUS
    <3> HIDE DEF h, Def, last
    <3> QED
      BY <3>1, <3>2
  <2>7. flat = Def(flat)
    <3> HIDE DEF h, Def
    <3> QED
      BY <2>6, Zenon
  <2> HIDE DEF flat
  <2> DEFINE Elements1(m) ==
        /\ flat[m] \in Seq(S)
        /\ \A k \in DOMAIN flat[m] :
             \E i \in 1 .. m : \E j \in DOMAIN seqs[i] : flat[m][k] = seqs[i][j]
        /\ \A i \in 1 .. m : \A j \in DOMAIN seqs[i] :
             \E k \in DOMAIN flat[m] : flat[m][k] = seqs[i][j]
      Good == {m \in Nat : m + 1 <= last => Elements1(m + 1)}
  <2>8. flat[1] = seqs[1] /\ \A n \in 2 .. last : flat[n] = flat[n - 1] \o seqs[n]
    <3>1. \A n : flat[n] = Def(flat)[n]
      <4> HIDE DEF Def
      <4> QED
        BY <2>7
    <3>2. Def(flat)[1] = seqs[1]
      <4> HIDE DEF last
      <4> QED
        BY <1>1, <1>3
    <3>3. ASSUME NEW n \in 2 .. last PROVE Def(flat)[n] = flat[n - 1] \o seqs[n]
      <4>1. n \in 1 .. last /\ n # 1
        <5> HIDE DEF last
        <5> QED
          BY <1>1
      <4> HIDE DEF last
      <4> QED
        BY <4>1
    <3> HIDE DEF Def
    <3> QED
      BY <3>1, <3>2, <3>3
  <2> HIDE DEF Def, last
  <2>9. 0 \in Good
    <3>1. seqs[1] \in Seq(S) /\ 1 .. 1 = {1}
      BY <1>1, <1>3
    <3> QED
      BY <2>8, <3>1
  <2>10. ASSUME NEW m \in Nat, m \in Good PROVE m + 1 \in Good
    <3> SUFFICES ASSUME m + 2 <= last PROVE Elements1(m + 2)
      OBVIOUS
    <3>1. Elements1(m + 1)
      BY <1>1, <2>10
    <3> DEFINE s == flat[m + 1]
               t == seqs[m + 2]
    <3>2. flat[m + 2] = s \o t
      <4>1. m + 2 \in 2 .. last /\ m + 2 - 1 = m + 1
        BY <1>1
      <4>2. ASSUME NEW n \in 2 .. last, n = m + 2 PROVE flat[n] = flat[m + 1] \o seqs[n]
        <5>1. n - 1 = m + 1
          BY <4>2
        <5>2. flat[n] = flat[n - 1] \o seqs[n]
          BY <2>8
        <5> QED
          BY <5>1, <5>2
      <4> QED
        BY <4>1, <4>2
    <3>3. s \in Seq(S) /\ t \in Seq(S)
      BY <1>1, <3>1
    <3>4. /\ \A k \in DOMAIN s :
               \E i \in 1 .. m + 1 : \E j \in DOMAIN seqs[i] : s[k] = seqs[i][j]
          /\ \A i \in 1 .. m + 1 : \A j \in DOMAIN seqs[i] :
               \E k \in DOMAIN s : s[k] = seqs[i][j]
      BY <3>1
    <3>5. t = seqs[m + 2]
      OBVIOUS
    <3> HIDE DEF s, t
    <3>6. /\ s \o t \in Seq(S) /\ Len(s) \in Nat /\ Len(t) \in Nat
          /\ DOMAIN s = 1 .. Len(s) /\ DOMAIN t = 1 .. Len(t)
          /\ Len(s \o t) = Len(s) + Len(t)
          /\ \A k \in 1 .. Len(s) + Len(t) :
               (s \o t)[k] = IF k <= Len(s) THEN s[k] ELSE t[k - Len(s)]
      BY <3>3, ConcatProperties
    <3>7. DOMAIN (s \o t) = 1 .. Len(s) + Len(t)
      BY <3>6
    <3> DEFINE u == s \o t
    <3>8. /\ u \in Seq(S) /\ DOMAIN u = 1 .. Len(s) + Len(t)
          /\ \A k \in 1 .. Len(s) + Len(t) : u[k] = IF k <= Len(s) THEN s[k] ELSE t[k - Len(s)]
      BY <3>6, <3>7
    <3>9. flat[m + 2] = u
      BY <3>2
    <3> HIDE DEF u
    <3>10. ASSUME NEW k \in DOMAIN u
           PROVE  \E i \in 1 .. m + 2 : \E j \in DOMAIN seqs[i] : u[k] = seqs[i][j]
      <4>1. CASE k <= Len(s)
        <5>1. k \in DOMAIN s /\ u[k] = s[k]
          BY <3>6, <3>8, <4>1
        <5>2. PICK i \in 1 .. m + 1 : \E j \in DOMAIN seqs[i] : s[k] = seqs[i][j]
          BY <3>4, <5>1
        <5> QED
          BY <5>1, <5>2
      <4>2. CASE ~ (k <= Len(s))
        <5>1. k - Len(s) \in DOMAIN t /\ u[k] = t[k - Len(s)]
          BY <3>6, <3>8, <4>2
        <5>2. m + 2 \in 1 .. m + 2
          OBVIOUS
        <5> QED
          BY <3>5, <5>1, <5>2
      <4> QED
        BY <4>1, <4>2
    <3>11. ASSUME NEW i \in 1 .. m + 2, NEW j \in DOMAIN seqs[i]
           PROVE  \E k \in DOMAIN u : u[k] = seqs[i][j]
      <4>1. CASE i \in 1 .. m + 1
        <5>1. PICK k \in DOMAIN s : s[k] = seqs[i][j]
          BY <3>4, <4>1
        <5>2. k \in DOMAIN u /\ u[k] = s[k]
          BY <3>6, <3>8
        <5> QED
          BY <5>1, <5>2
      <4>2. CASE i = m + 2
        <5>1. j \in DOMAIN t /\ t[j] = seqs[i][j]
          BY <3>5, <4>2
        <5>2. Len(s) + j \in DOMAIN u /\ ~ (Len(s) + j <= Len(s)) /\ Len(s) + j - Len(s) = j
          BY <3>6, <3>8, <5>1
        <5>3. u[Len(s) + j] = t[j]
          <6>1. ASSUME NEW k \in DOMAIN u, k = Len(s) + j PROVE u[k] = t[j]
            <7>1. ~ (k <= Len(s)) /\ k - Len(s) = j
              <8>1. j \in Nat /\ j > 0 /\ Len(s) \in Nat
                BY <3>6, <5>1
              <8> QED
                BY <6>1, <8>1
            <7>2. k \in 1 .. Len(s) + Len(t)
              BY <3>8
            <7>3. u[k] = IF k <= Len(s) THEN s[k] ELSE t[k - Len(s)]
              BY <3>8, <7>2
            <7>4. u[k] = t[k - Len(s)]
              BY <7>1, <7>3
            <7> QED
              BY <7>1, <7>4
          <6> QED
            BY <5>2, <6>1
        <5> QED
          BY <5>1, <5>2, <5>3
      <4> QED
        BY <4>1, <4>2
    <3> QED
      BY <3>8, <3>9, <3>10, <3>11
  <2>11. Elements1(last)
    <3>1. last - 1 \in Nat /\ last - 1 + 1 = last
      BY <1>1, <1>3
    <3>2. last - 1 \in Good
      <4> HIDE DEF Good
      <4> QED
        BY <2>9, <2>10, <3>1, NatSetInduction
    <3> HIDE DEF Elements1
    <3> QED
      BY <3>1, <3>2
  <2> DEFINE all == flat[last]
  <2>12. /\ all \in Seq(S)
         /\ \A k \in DOMAIN all : \E i \in DOMAIN seqs : \E j \in DOMAIN seqs[i] : all[k] = seqs[i][j]
         /\ \A i \in DOMAIN seqs : \A j \in DOMAIN seqs[i] : \E k \in DOMAIN all : all[k] = seqs[i][j]
    BY <1>1, <2>11
  <2>13. FlattenSeq(seqs) = all
    BY <2>1
  <2> HIDE DEF all
  <2> QED
    BY <2>12, <2>13, Zenon
<1> QED
  BY <1>2, <1>3

\* Among constants that agree on a key, any gives the value of it.
LEMMA ValueOfKey ==
    ASSUME NEW S, NEW consts \in Seq(S), NEW k \in DOMAIN consts,
           \A l \in DOMAIN consts : consts[l].key = consts[k].key => consts[l].id = consts[k].id
    PROVE  Value(consts, consts[k].key) = consts[k].id
<1> DEFINE M == {l \in DOMAIN consts : consts[l].key = consts[k].key}
<1>1. Len(consts) \in Nat /\ M \in SUBSET (1 .. Len(consts)) /\ M # {}
  OBVIOUS
<1>2. Max(M) \in M
  <2> HIDE DEF M
  <2> QED
    BY <1>1, MaxIsThere
<1> QED
  BY <1>2 DEF Value

LEMMA FlattenedValue ==
    ASSUME NEW S, NEW lists \in Seq(Seq(S)), NEW i \in DOMAIN lists, NEW j \in DOMAIN lists[i],
           \A a \in DOMAIN lists : \A b \in DOMAIN lists[a] :
               lists[a][b].key = lists[i][j].key => lists[a][b].id = lists[i][j].id
    PROVE  Value(FlattenSeq(lists), lists[i][j].key) = lists[i][j].id
<1> DEFINE all == FlattenSeq(lists)
<1>1. /\ all \in Seq(S)
      /\ \A k \in DOMAIN all : \E a \in DOMAIN lists : \E b \in DOMAIN lists[a] : all[k] = lists[a][b]
      /\ \A a \in DOMAIN lists : \A b \in DOMAIN lists[a] : \E k \in DOMAIN all : all[k] = lists[a][b]
  BY FlattenedElements, Zenon
<1> HIDE DEF all
<1>2. PICK k \in DOMAIN all : all[k] = lists[i][j]
  BY <1>1
<1>3. ASSUME NEW l \in DOMAIN all, all[l].key = all[k].key PROVE all[l].id = all[k].id
  <2>1. PICK a \in DOMAIN lists : \E b \in DOMAIN lists[a] : all[l] = lists[a][b]
    BY <1>1
  <2>2. PICK b \in DOMAIN lists[a] : all[l] = lists[a][b]
    BY <2>1
  <2>3. lists[a][b].key = lists[i][j].key
    BY <1>2, <1>3, <2>2
  <2> QED
    BY <1>2, <2>2, <2>3
<1>4. Value(all, all[k].key) = all[k].id
  BY <1>1, <1>2, <1>3, ValueOfKey
<1> QED
  BY <1>2, <1>4 DEF all

\* What the lists of constants are made of: keys of an RPC's labels, one id to a key.
AreConsts(lists) ==
    /\ lists \in Seq(Seq([key : Seq(Words), id : Nat])) /\ DOMAIN lists = DOMAIN rpcs
    /\ \A a \in DOMAIN rpcs : \A b \in DOMAIN lists[a] :
         \E l \in LabelsOf(rpcs[a]) : lists[a][b].key = Key(rpcs[a].service, l)
    /\ \A a \in DOMAIN rpcs : \A b, c \in DOMAIN lists[a] :
         lists[a][b].key = lists[a][c].key => lists[a][b].id = lists[a][c].id

LEMMA IdsUnderLabels ==
    ASSUME IdsTypeOK, Sound, NEW i \in DOMAIN rpcs, NEW l \in LabelsOf(rpcs[i])
    PROVE  ConstUnder(rpcs[i], l) \in [key : Seq(Words), id : Nat]
<1>1. /\ ids[rpcs[i].service] \in Nat /\ rpcs[i].id \in Nat
      /\ Range256 \in Nat /\ EventBit \in Nat
  BY IdsOfRpc, IdsAssumption DEF Range256
<1>2. Mark(rpcs[i].id) \in Nat
  BY <1>1 DEF Mark
<1>3. Method(rpcs[i]) \in Nat /\ Event(rpcs[i]) \in Nat
  BY <1>1, <1>2 DEF Method, Event, Combine
<1>4. rpcs[i].service \in Seq(Words) /\ l \in Seq(Words)
  BY IdsOfRpc, LabelsAreWords DEF Rpc
<1>5. Key(rpcs[i].service, l) \in Seq(Words)
  BY <1>4, ConcatProperties DEF Key
<1> QED
  BY <1>3, <1>5 DEF ConstUnder, IdUnder, Const

\* The last of equal keys stays, and there are none of another RPC.
LEMMA KeyGivesId ==
    ASSUME ProtocTakesIds, IdsTypeOK, NEW lists, AreConsts(lists),
           NEW i \in DOMAIN rpcs, NEW j \in DOMAIN lists[i]
    PROVE  Value(FlattenSeq(lists), lists[i][j].key) = lists[i][j].id
<1>1. lists \in Seq(Seq([key : Seq(Words), id : Nat])) /\ i \in DOMAIN lists
  BY DEF AreConsts
<1>2. ASSUME NEW a \in DOMAIN lists, NEW b \in DOMAIN lists[a], lists[a][b].key = lists[i][j].key
      PROVE  lists[a][b].id = lists[i][j].id
  <2>1. a \in DOMAIN rpcs
    BY DEF AreConsts
  <2>2. PICK m \in LabelsOf(rpcs[a]) : lists[a][b].key = Key(rpcs[a].service, m)
    BY <2>1 DEF AreConsts
  <2>3. PICK l \in LabelsOf(rpcs[i]) : lists[i][j].key = Key(rpcs[i].service, l)
    BY DEF AreConsts
  <2>4. a = i
    BY <1>2, <2>1, <2>2, <2>3, SameKey
  <2> QED
    BY <1>2, <2>4 DEF AreConsts
<1> QED
  BY <1>1, <1>2, FlattenedValue

\* Under each of its labels an RPC's constants have its id.
LEMMA ConstantsOfRpc ==
    ASSUME ProtocTakesIds, IdsTypeOK, Sound,
           NEW i \in DOMAIN rpcs, NEW l \in LabelsOf(rpcs[i])
    PROVE  LET key == Key(rpcs[i].service, l) IN
           ProtoRpcId(key) = IdUnder(rpcs[i], l) /\ JsRpcId(key) = IdUnder(rpcs[i], l)
           /\ CsRpcId(key) = IdUnder(rpcs[i], l)
<1> DEFINE lists == [a \in DOMAIN rpcs |-> JsConsts(rpcs[a])]
           S == [key : Seq(Words), id : Nat]
<1>1. Len(rpcs) \in Nat /\ DOMAIN rpcs = 1 .. Len(rpcs)
  BY DEF IdsTypeOK
<1>2. /\ lists = [a \in DOMAIN rpcs |-> ProtoConsts(rpcs[a])]
      /\ lists = [a \in DOMAIN rpcs |-> CsConsts(rpcs[a])]
  BY ConstsOfRpc
<1>3. ASSUME NEW a \in DOMAIN rpcs
      PROVE  /\ JsConsts(rpcs[a]) \in Seq(S)
             /\ \A b \in DOMAIN JsConsts(rpcs[a]) :
                  \E m \in LabelsOf(rpcs[a]) : JsConsts(rpcs[a])[b] = ConstUnder(rpcs[a], m)
             /\ \A m \in LabelsOf(rpcs[a]) :
                  \E b \in DOMAIN JsConsts(rpcs[a]) : JsConsts(rpcs[a])[b] = ConstUnder(rpcs[a], m)
  <2> DEFINE r == rpcs[a]
             name == ConstUnder(r, r.name)
             subscribe == ConstUnder(r, Subscribe(r.name))
  <2>1. JsConsts(r) = IF IsNotification(r) THEN <<subscribe, name>> ELSE <<name>>
    BY ConstsOfRpc
  <2>2. \A m \in LabelsOf(r) : ConstUnder(r, m) \in S
    BY IdsUnderLabels
  <2> HIDE DEF r, S
  <2>3. CASE IsNotification(r)
    <3>1. LabelsOf(r) = {r.name, Subscribe(r.name)}
      BY <2>3 DEF LabelsOf
    <3>2. name \in S /\ subscribe \in S
      BY <2>2, <3>1
    <3>3. JsConsts(r) = <<subscribe, name>>
      BY <2>1, <2>3
    <3>4. JsConsts(r) \in Seq(S) /\ DOMAIN JsConsts(r) = {1, 2}
          /\ JsConsts(r)[1] = subscribe /\ JsConsts(r)[2] = name
      BY <3>2, <3>3
    <3> QED
      BY <3>1, <3>4 DEF r
  <2>4. CASE ~ IsNotification(r)
    <3>1. LabelsOf(r) = {r.name}
      BY <2>4 DEF LabelsOf
    <3>2. name \in S
      BY <2>2, <3>1
    <3>3. JsConsts(r) = <<name>>
      BY <2>1, <2>4
    <3>4. JsConsts(r) \in Seq(S) /\ DOMAIN JsConsts(r) = {1} /\ JsConsts(r)[1] = name
      BY <3>2, <3>3
    <3> QED
      BY <3>1, <3>4 DEF r
  <2> QED
    BY <2>3, <2>4
<1>4. DOMAIN lists = DOMAIN rpcs /\ \A a \in DOMAIN rpcs : lists[a] = JsConsts(rpcs[a])
  OBVIOUS
<1>5. lists \in Seq(Seq(S))
  <2> HIDE DEF S
  <2> QED
    BY <1>1, <1>3
<1> HIDE DEF lists
<1>6. AreConsts(lists)
  <2>1. \A r, m : ConstUnder(r, m).key = Key(r.service, m)
    BY DEF ConstUnder, Const
  <2>2. ASSUME NEW a \in DOMAIN rpcs, NEW b \in DOMAIN lists[a], NEW c \in DOMAIN lists[a],
               lists[a][b].key = lists[a][c].key
        PROVE  lists[a][b].id = lists[a][c].id
    <3>1. PICK m \in LabelsOf(rpcs[a]) : lists[a][b] = ConstUnder(rpcs[a], m)
      BY <1>3, <1>4
    <3>2. PICK n \in LabelsOf(rpcs[a]) : lists[a][c] = ConstUnder(rpcs[a], n)
      BY <1>3, <1>4
    <3>3. Key(rpcs[a].service, m) = Key(rpcs[a].service, n)
      BY <2>1, <2>2, <3>1, <3>2
    <3>4. m = n
      BY <3>3, SameKey
    <3> QED
      BY <3>1, <3>2, <3>4
  <2>3. ASSUME NEW a \in DOMAIN rpcs, NEW b \in DOMAIN lists[a]
        PROVE  \E m \in LabelsOf(rpcs[a]) : lists[a][b].key = Key(rpcs[a].service, m)
    <3>1. PICK m \in LabelsOf(rpcs[a]) : lists[a][b] = ConstUnder(rpcs[a], m)
      BY <1>3, <1>4
    <3> QED
      BY <2>1, <3>1
  <2> QED
    BY <1>4, <1>5, <2>2, <2>3 DEF AreConsts
<1>7. PICK j \in DOMAIN lists[i] : lists[i][j] = ConstUnder(rpcs[i], l)
  BY <1>3, <1>4
<1>8. Value(FlattenSeq(lists), Key(rpcs[i].service, l)) = IdUnder(rpcs[i], l)
  <2>1. Value(FlattenSeq(lists), lists[i][j].key) = lists[i][j].id
    BY <1>6, KeyGivesId
  <2>2. /\ ConstUnder(rpcs[i], l).key = Key(rpcs[i].service, l)
        /\ ConstUnder(rpcs[i], l).id = IdUnder(rpcs[i], l)
    BY DEF ConstUnder, Const
  <2> QED
    BY <1>7, <2>1, <2>2
<1>9. \A key : /\ ProtoRpcId(key) = Value(FlattenSeq(lists), key)
               /\ JsRpcId(key) = Value(FlattenSeq(lists), key)
               /\ CsRpcId(key) = Value(FlattenSeq(lists), key)
  BY <1>2 DEF ProtoRpcId, JsRpcId, CsRpcId, lists
<1> QED
  BY <1>8, <1>9

\* Wherever protoc takes their names, every client has the server's ids, and Python
\* those of the notifications whose type is written as documented.
THEOREM ClientsHaveTheIds == Spec => []ClientsAgree
<1>1. IdsTypeOK => ClientsAgree
  <2> SUFFICES ASSUME IdsTypeOK, Sound, ProtocTakesIds, NEW i \in DOMAIN rpcs
               PROVE  LET r == rpcs[i]
                          key == r.service \o r.name
                          id == IF IsNotification(r) THEN Event(r) ELSE Method(r)
                      IN  /\ {ProtoRpcId(key), JsRpcId(key), CsRpcId(key)} = {id}
                          /\ PyRpcId(key) =
                                 IF IsNotification(r) /\ r.spelling = "lower" THEN Method(r)
                                 ELSE id
    BY DEF ClientsAgree
  <2> DEFINE key == Key(rpcs[i].service, rpcs[i].name)
             id == IdUnder(rpcs[i], rpcs[i].name)
             lists == [a \in DOMAIN rpcs |-> PyConsts(rpcs[a])]
             S == [key : Seq(Words), id : Nat]
  <2>1. \A a \in DOMAIN rpcs : rpcs[a].name \in LabelsOf(rpcs[a])
    BY DEF LabelsOf
  <2>2. ProtoRpcId(key) = id /\ JsRpcId(key) = id /\ CsRpcId(key) = id
    BY <2>1, ConstantsOfRpc
  <2>3. ASSUME NEW a \in DOMAIN rpcs
        PROVE  /\ lists[a] \in Seq(S) /\ DOMAIN lists[a] = {1}
               /\ lists[a][1].key = Key(rpcs[a].service, rpcs[a].name)
               /\ lists[a][1].id = PyId(rpcs[a])
    <3> DEFINE const == Const(Key(rpcs[a].service, rpcs[a].name), PyId(rpcs[a]))
    <3>1. lists[a] = <<const>>
      BY ConstsOfRpc
    <3>2. const.key = Key(rpcs[a].service, rpcs[a].name) /\ const.id = PyId(rpcs[a])
      BY DEF Const
    <3>3. const \in S
      <4>1. ConstUnder(rpcs[a], rpcs[a].name) \in S
        BY <2>1, IdsUnderLabels
      <4>2. Key(rpcs[a].service, rpcs[a].name) \in Seq(Words) /\ PyId(rpcs[a]) \in Nat
        <5>1. Method(rpcs[a]) \in Nat
          <6>1. ids[rpcs[a].service] \in Nat /\ rpcs[a].id \in Nat
            BY IdsOfRpc
          <6>2. EventBit \in Nat
            BY IdsAssumption
          <6>3. ids[rpcs[a].service] * (2 * EventBit) \in Nat
            BY <6>1, <6>2
          <6> QED
            BY <6>1, <6>3 DEF Method, Combine, Range256
        <5> QED
          BY <4>1, <5>1 DEF ConstUnder, Const, PyId
      <4> QED
        BY <4>2 DEF Const
    <3> HIDE DEF lists, S, const
    <3> QED
      BY <3>1, <3>2, <3>3
  <2>4. AreConsts(lists)
    <3>1. Len(rpcs) \in Nat /\ DOMAIN rpcs = 1 .. Len(rpcs) /\ DOMAIN lists = DOMAIN rpcs
      BY DEF IdsTypeOK
    <3>2. lists \in Seq(Seq(S))
      <4>1. lists \in [1 .. Len(rpcs) -> Seq(S)]
        <5>1. lists = [a \in 1 .. Len(rpcs) |-> lists[a]]
          BY <3>1
        <5> HIDE DEF lists, S
        <5> QED
          BY <2>3, <3>1, <5>1
      <4> HIDE DEF lists, S
      <4> QED
        BY <3>1, <4>1
    <3> HIDE DEF lists
    <3> QED
      BY <2>1, <2>3, <3>1, <3>2 DEF AreConsts
  <2>5. PyRpcId(key) = PyId(rpcs[i])
    <3>1. PyRpcId(key) = Value(FlattenSeq(lists), key)
      BY DEF PyRpcId
    <3> HIDE DEF lists
    <3>2. 1 \in DOMAIN lists[i] /\ lists[i][1].key = key /\ lists[i][1].id = PyId(rpcs[i])
      BY <2>3
    <3> HIDE DEF key
    <3> QED
      BY <2>4, <3>1, <3>2, KeyGivesId
  <2> QED
    BY <2>2, <2>5 DEF Key, IdUnder, PyId
<1> QED
  BY <1>1, TypeCorrect, PTL DEF TypeOK

\* Wherever protoc takes the names, a generated method's request is dispatched to the
\* handler of its RPC.
THEOREM MethodsAreServed == Spec => []HelpersAreServed
<1>1. IdsTypeOK => HelpersAreServed
  <2> SUFFICES ASSUME IdsTypeOK, Sound, ProtocTakesIds, NEW i \in DOMAIN rpcs,
                      NEW h \in CsHelpers(rpcs[i])
                                \cup (IF IsNotification(rpcs[i]) THEN {} ELSE JsHelpers(rpcs[i]))
               PROVE  \E entry \in Find(h.sends) :
                          /\ entry.execute = Handler(rpcs[i])
                          /\ h.waits => entry.hasResponse
    BY DEF HelpersAreServed
  <2> DEFINE r == rpcs[i]
  <2>1. r \in Rpc
    BY IdsOfRpc
  <2>2. Find(Method(r)) = {Row(r)} /\ Row(r).execute = Handler(r)
        /\ Row(r).hasResponse = (r.type # "REQUEST_ONLY")
    <3>1. i + 2 \in DOMAIN Table /\ Table[i + 2] = Row(r)
      BY RowsOfTable
    <3>2. Find(Table[i + 2].rpcId) = {Table[i + 2]}
      BY <3>1, FindsRow
    <3> QED
      BY <3>1, <3>2 DEF Row
  <2>3. h.sends = Method(r) /\ (h.waits => r.type # "REQUEST_ONLY")
    <3>1. CASE IsNotification(r)
      <4>1. Subscribe(r.name) \in LabelsOf(r) /\ r.name # Subscribe(r.name)
        BY <2>1, <3>1, SubscribeDiffers DEF LabelsOf, Rpc
      <4>2. CsRpcId(Key(r.service, Subscribe(r.name))) = Method(r)
        BY <4>1, ConstantsOfRpc DEF IdUnder
      <4>3. h = Helper(CsRpcId(r.service \o <<"subscribe">> \o r.name), TRUE)
        BY <3>1 DEF CsHelpers
      <4>4. r.service \o <<"subscribe">> \o r.name = Key(r.service, Subscribe(r.name))
        BY <2>1, SubscribedKey
      <4> QED
        BY <3>1, <4>2, <4>3, <4>4 DEF Helper, IsNotification
    <3>2. CASE ~ IsNotification(r)
      <4>1. r.name \in LabelsOf(r)
        BY DEF LabelsOf
      <4>2. /\ CsRpcId(Key(r.service, r.name)) = Method(r)
            /\ JsRpcId(Key(r.service, r.name)) = Method(r)
        BY <3>2, <4>1, ConstantsOfRpc DEF IdUnder
      <4>3. CsRpcId(r.service \o r.name) = Method(r) /\ JsRpcId(r.service \o r.name) = Method(r)
        BY <4>2 DEF Key
      <4>4. h \in {Helper(Method(r), r.type # "REQUEST_ONLY"), Helper(Method(r), FALSE)}
                  \cup (IF r.type = "REQUEST_RESPONSE" THEN {Helper(Method(r), TRUE)} ELSE {})
        BY <3>2, <4>3 DEF CsHelpers, JsHelpers
      <4>5. \A id, w : Helper(id, w).sends = id /\ Helper(id, w).waits = w
        BY DEF Helper
      <4>6. CASE h = Helper(Method(r), r.type # "REQUEST_ONLY")
        BY <4>5, <4>6
      <4>7. CASE h = Helper(Method(r), FALSE)
        BY <4>5, <4>7
      <4>8. CASE r.type = "REQUEST_RESPONSE" /\ h = Helper(Method(r), TRUE)
        BY <4>5, <4>8
      <4> QED
        BY <4>4, <4>6, <4>7, <4>8
    <3> QED
      BY <3>1, <3>2
  <2> QED
    BY <2>2, <2>3
<1> QED
  BY <1>1, TypeCorrect, PTL DEF TypeOK

-----------------------------------------------------------------------------
(* Enums.                                                                  *)

\* The recursion of the .proto files gives every member a number.
NumberIn(g) ==
    [i \in DOMAIN members |->
        IF i \in Explicit THEN members[i] ELSE IF i = 1 THEN 0 ELSE g[i - 1] + 1]

LEMMA NumbersExist ==
    ASSUME members \in Seq(ValuesOffered \cup {NoValue})
    PROVE  ProtoNumber = NumberIn(ProtoNumber)
<1> DEFINE last == Len(members)
           Step == [n \in 1 .. last |-> [x \in Nat |->
                       IF n \in Explicit THEN members[n] ELSE IF n = 1 THEN 0 ELSE x + 1]]
<1>1. last \in Nat /\ DOMAIN members = 1 .. last
  OBVIOUS
<1>2. \A i \in Explicit : members[i] \in Nat
  <2> SUFFICES ASSUME NEW i \in DOMAIN members, members[i] # NoValue PROVE members[i] \in Nat
    BY DEF Explicit
  <2>1. members[i] \in ValuesOffered
    OBVIOUS
  <2> QED
    BY <2>1, ValuesAssumption
<1>3. Step \in [1 .. last -> [Nat -> Nat]]
  <2>1. ASSUME NEW n \in 1 .. last, NEW x \in Nat
        PROVE  (IF n \in Explicit THEN members[n] ELSE IF n = 1 THEN 0 ELSE x + 1) \in Nat
    BY <1>2
  <2> HIDE DEF last
  <2> QED
    BY <2>1
<1>4. PICK f : IsRecursion(f, last, Nat, 0, Step)
  <2> HIDE DEF Step, last
  <2> QED
    BY <1>1, <1>3, RecursiveFunction
<1>5. ASSUME NEW n \in 1 .. last
      PROVE  f[n] = IF n \in Explicit THEN members[n] ELSE IF n = 1 THEN 0 ELSE f[n - 1] + 1
  <2>1. f[n] = Step[n][f[n - 1]] /\ f \in [0 .. last -> Nat]
    <3> HIDE DEF Step, last
    <3> QED
      BY <1>1, <1>4 DEF IsRecursion
  <2>2. f[n - 1] \in Nat
    <3>1. n - 1 \in 0 .. last
      BY <1>1
    <3> HIDE DEF last
    <3> QED
      BY <2>1, <3>1
  <2> HIDE DEF last
  <2> QED
    BY <2>1, <2>2
<1> DEFINE h == [n \in DOMAIN members |-> f[n]]
<1>6. h = NumberIn(h)
  <2>1. ASSUME NEW n \in 1 .. last PROVE h[n] = NumberIn(h)[n]
    <3>1. h[n] = f[n]
      BY <1>1
    <3>2. n # 1 => h[n - 1] = f[n - 1]
      BY <1>1
    <3>3. NumberIn(h)[n] = IF n \in Explicit THEN members[n] ELSE IF n = 1 THEN 0 ELSE h[n - 1] + 1
      <4> HIDE DEF h, last
      <4> QED
        BY <1>1 DEF NumberIn
    <3> HIDE DEF h, last
    <3> QED
      BY <1>5, <3>1, <3>2, <3>3
  <2>2. h = [n \in 1 .. last |-> h[n]]
    <3> HIDE DEF last
    <3> QED
      BY <1>1
  <2>3. NumberIn(h) = [n \in 1 .. last |-> NumberIn(h)[n]]
    <3> HIDE DEF last, h
    <3> QED
      BY <1>1 DEF NumberIn
  <2> HIDE DEF h, last
  <2> QED
    BY <2>1, <2>2, <2>3
<1>7. ProtoNumber = CHOOSE g : g = NumberIn(g)
  BY DEF ProtoNumber, NumberIn
<1> HIDE DEF h
<1> QED
  BY <1>6, <1>7, Zenon

\* Members without a value go on from the member before.
LEMMA NumbersOfMembers ==
    ASSUME members \in Seq(ValuesOffered \cup {NoValue})
    PROVE  /\ \A n \in Explicit : n \in DOMAIN members /\ ProtoNumber[n] = members[n]
           /\ \A n \in DOMAIN members \ Explicit :
                ProtoNumber[n] = IF n = 1 THEN 0 ELSE ProtoNumber[n - 1] + 1
           /\ \A n \in DOMAIN members : ProtoNumber[n] \in Nat
<1>1. \A n : ProtoNumber[n] = NumberIn(ProtoNumber)[n]
  BY NumbersExist
<1>2. ASSUME NEW n \in Explicit PROVE n \in DOMAIN members /\ ProtoNumber[n] = members[n]
  <2>1. n \in DOMAIN members /\ NumberIn(ProtoNumber)[n] = members[n]
    BY DEF Explicit, NumberIn
  <2> QED
    BY <1>1, <2>1
<1>3. ASSUME NEW n \in DOMAIN members \ Explicit
      PROVE  ProtoNumber[n] = IF n = 1 THEN 0 ELSE ProtoNumber[n - 1] + 1
  <2>1. NumberIn(ProtoNumber)[n] = IF n = 1 THEN 0 ELSE ProtoNumber[n - 1] + 1
    BY DEF NumberIn
  <2> QED
    BY <1>1, <2>1
<1>4. Len(members) \in Nat /\ DOMAIN members = 1 .. Len(members)
  OBVIOUS
<1>5. \A n \in Explicit : members[n] \in Nat
  <2> SUFFICES ASSUME NEW n \in DOMAIN members, members[n] # NoValue PROVE members[n] \in Nat
    BY DEF Explicit
  <2>1. members[n] \in ValuesOffered
    OBVIOUS
  <2> QED
    BY <2>1, ValuesAssumption
<1> DEFINE Good == {n \in Nat : n \in DOMAIN members => ProtoNumber[n] \in Nat}
<1>6. 0 \in Good
  BY <1>4
<1>7. ASSUME NEW m \in Nat, m \in Good PROVE m + 1 \in Good
  <2> SUFFICES ASSUME m + 1 \in DOMAIN members PROVE ProtoNumber[m + 1] \in Nat
    OBVIOUS
  <2>1. CASE m + 1 \in Explicit
    BY <1>2, <1>5, <2>1
  <2>2. CASE m + 1 \notin Explicit
    <3>1. ProtoNumber[m + 1] = IF m + 1 = 1 THEN 0 ELSE ProtoNumber[(m + 1) - 1] + 1
      BY <1>3, <2>2
    <3>2. (m + 1) - 1 = m /\ (m + 1 # 1 => m \in DOMAIN members)
      BY <1>4
    <3>3. m + 1 # 1 => ProtoNumber[m] \in Nat
      BY <1>7, <3>2
    <3> QED
      BY <3>1, <3>2, <3>3
  <2> QED
    BY <2>1, <2>2
<1>8. \A n \in Nat : n \in Good
  <2> HIDE DEF Good
  <2> QED
    BY <1>6, <1>7, NatSetInduction
<1> QED
  BY <1>2, <1>3, <1>4, <1>8

\* Two members of one number lead back, member by member, to a written one that a
\* member without a value has met.
LEMMA ClashLeadsBack ==
    ASSUME members \in Seq(ValuesOffered \cup {NoValue}), ExplicitDistinct,
           NEW i \in DOMAIN members, NEW j \in DOMAIN members, i < j,
           ProtoNumber[i] = ProtoNumber[j]
    PROVE  \E x \in Explicit, k \in DOMAIN members \ Explicit : ProtoNumber[k] = members[x]
<1> DEFINE Met == \E x \in Explicit, k \in DOMAIN members \ Explicit :
                      ProtoNumber[k] = members[x]
           Leads(a) == \A b \in DOMAIN members :
                           a < b /\ ProtoNumber[a] = ProtoNumber[b] => Met
           Good == {a \in Nat : a \in DOMAIN members => Leads(a)}
<1>1. Len(members) \in Nat /\ DOMAIN members = 1 .. Len(members)
  OBVIOUS
<1>2. 0 \in Good
  BY <1>1
<1>3. ASSUME NEW m \in Nat, m \in Good PROVE m + 1 \in Good
  <2> DEFINE a == m + 1
  <2> SUFFICES ASSUME a \in DOMAIN members, NEW b \in DOMAIN members, a < b,
                      ProtoNumber[a] = ProtoNumber[b]
               PROVE  Met
    OBVIOUS
  <2> HIDE DEF Met
  <2>1. CASE a \in Explicit /\ b \in Explicit
    <3>1. members[a] = members[b] /\ a # b
      BY <1>1, <2>1, NumbersOfMembers
    <3> QED
      BY <2>1, <3>1 DEF ExplicitDistinct
  <2>2. CASE a \in Explicit /\ b \notin Explicit
    BY <2>2, NumbersOfMembers DEF Met
  <2>3. CASE a \notin Explicit /\ b \in Explicit
    BY <2>3, NumbersOfMembers DEF Met
  <2>4. CASE a \notin Explicit /\ b \notin Explicit
    <3>1. b - 1 \in DOMAIN members /\ b # 1 /\ a - 1 = m /\ m \in Nat
      BY <1>1
    <3>2. /\ ProtoNumber[b] = ProtoNumber[b - 1] + 1 /\ ProtoNumber[b - 1] \in Nat
          /\ ProtoNumber[a] = IF a = 1 THEN 0 ELSE ProtoNumber[a - 1] + 1
      BY <2>4, <3>1, NumbersOfMembers
    <3>3. a # 1
      BY <3>2
    <3>4. m \in DOMAIN members /\ m < b - 1
      BY <1>1, <3>1, <3>3
    <3>5. ProtoNumber[m] \in Nat
      BY <3>4, NumbersOfMembers
    <3>6. ProtoNumber[m] = ProtoNumber[b - 1]
      BY <3>1, <3>2, <3>3, <3>5
    <3>7. Leads(m)
      BY <1>3, <3>4
    <3> QED
      BY <3>1, <3>4, <3>6, <3>7
  <2> QED
    BY <2>1, <2>2, <2>3, <2>4
<1>4. i \in Nat /\ i \in Good
  <2>1. i \in Nat
    BY <1>1
  <2> HIDE DEF Good
  <2> QED
    BY <1>2, <1>3, <2>1, NatSetInduction
<1>5. Leads(i)
  BY <1>4
<1> QED
  BY <1>5

\* Where an accepted enum has one number twice, a member without a value has it.
THEOREM EnumClashesFound == Spec => []ClashesAreImplicit
<1>1. TypeOK => ClashesAreImplicit
  <2> SUFFICES ASSUME TypeOK, AcceptedEnum
               PROVE  (\E i, j \in DOMAIN members : i # j /\ ProtoNumber[i] = ProtoNumber[j])
                        <=> \E i \in Explicit, k \in DOMAIN members \ Explicit :
                                ProtoNumber[k] = members[i]
    BY DEF ClashesAreImplicit
  <2>1. members \in Seq(ValuesOffered \cup {NoValue}) /\ ExplicitDistinct
    BY DEF TypeOK, AcceptedEnum
  <2>2. ASSUME NEW i \in DOMAIN members, NEW j \in DOMAIN members, i # j,
               ProtoNumber[i] = ProtoNumber[j]
        PROVE  \E x \in Explicit, k \in DOMAIN members \ Explicit :
                   ProtoNumber[k] = members[x]
    <3>1. i < j \/ j < i
      <4>1. DOMAIN members = 1 .. Len(members) /\ Len(members) \in Nat
        BY <2>1
      <4> QED
        BY <2>2, <4>1
    <3>2. CASE i < j
      BY <2>1, <2>2, <3>2, ClashLeadsBack
    <3>3. CASE j < i
      BY <2>1, <2>2, <3>3, ClashLeadsBack
    <3> QED
      BY <3>1, <3>2, <3>3
  <2>3. ASSUME NEW x \in Explicit, NEW k \in DOMAIN members \ Explicit,
               ProtoNumber[k] = members[x]
        PROVE  \E i, j \in DOMAIN members : i # j /\ ProtoNumber[i] = ProtoNumber[j]
    <3>1. x \in DOMAIN members /\ ProtoNumber[x] = members[x] /\ x # k
      BY <2>1, NumbersOfMembers
    <3> QED
      BY <2>3, <3>1
  <2> QED
    BY <2>2, <2>3
<1> QED
  BY <1>1, TypeCorrect, PTL

\* Of two beginnings of one name the shorter is the beginning of the longer.
LEMMA PrefixByElements ==
    ASSUME NEW S, NEW s \in Seq(S), NEW t \in Seq(S)
    PROVE  IsPrefix(s, t) <=> Len(s) <= Len(t) /\ \A k \in 1 .. Len(s) : s[k] = t[k]
<1>1. Len(s) \in Nat /\ Len(t) \in Nat
  OBVIOUS
<1>2. /\ SubSeq(s, 1, Len(s)) \in Seq(S) /\ Len(SubSeq(s, 1, Len(s))) = Len(s)
      /\ \A k \in 1 .. Len(s) : SubSeq(s, 1, Len(s))[k] = s[k]
  OBVIOUS
<1>3. ASSUME Len(s) <= Len(t)
      PROVE  /\ SubSeq(t, 1, Len(s)) \in Seq(S) /\ Len(SubSeq(t, 1, Len(s))) = Len(s)
             /\ \A k \in 1 .. Len(s) : SubSeq(t, 1, Len(s))[k] = t[k]
  BY <1>1, <1>3
<1>4. ASSUME NEW a \in Seq(S), NEW b \in Seq(S), Len(a) = Len(b), \A k \in 1 .. Len(a) : a[k] = b[k]
      PROVE  a = b
  BY <1>4
<1>5. ASSUME Len(s) <= Len(t), \A k \in 1 .. Len(s) : s[k] = t[k]
      PROVE  SubSeq(s, 1, Len(s)) = SubSeq(t, 1, Len(s))
  <2>1. \A k \in 1 .. Len(s) : SubSeq(s, 1, Len(s))[k] = SubSeq(t, 1, Len(s))[k]
    BY <1>2, <1>3, <1>5
  <2> QED
    BY <1>2, <1>3, <1>4, <1>5, <2>1
<1>6. ASSUME Len(s) <= Len(t), SubSeq(s, 1, Len(s)) = SubSeq(t, 1, Len(s))
      PROVE  \A k \in 1 .. Len(s) : s[k] = t[k]
  BY <1>2, <1>3, <1>6
<1> QED
  BY <1>5, <1>6 DEF IsPrefix

LEMMA PrefixesCompare ==
    ASSUME NEW S, NEW s \in Seq(S), NEW t \in Seq(S), NEW u \in Seq(S),
           IsPrefix(s, u), IsPrefix(t, u)
    PROVE  IsPrefix(s, t) \/ IsPrefix(t, s)
<1>1. /\ Len(s) \in Nat /\ Len(t) \in Nat
      /\ \A k \in 1 .. Len(s) : s[k] = u[k]
      /\ \A k \in 1 .. Len(t) : t[k] = u[k]
  BY PrefixByElements
<1>2. CASE Len(s) <= Len(t)
  <2>1. \A k \in 1 .. Len(s) : s[k] = t[k]
    BY <1>1, <1>2
  <2> QED
    BY <1>2, <2>1, PrefixByElements
<1>3. CASE Len(t) <= Len(s)
  <2>1. \A k \in 1 .. Len(t) : t[k] = s[k]
    BY <1>1, <1>3
  <2> QED
    BY <1>3, <2>1, PrefixByElements
<1> QED
  BY <1>1, <1>2, <1>3

LEMMA PrefixOfBoth ==
    ASSUME NEW S, NEW s \in Seq(S), NEW t \in Seq(S)
    PROVE  s \o t \in Seq(S) /\ IsPrefix(s, s \o t)
<1>1. /\ s \o t \in Seq(S) /\ Len(s) \in Nat /\ Len(t) \in Nat /\ Len(s \o t) = Len(s) + Len(t)
      /\ \A k \in 1 .. Len(s) + Len(t) :
           (s \o t)[k] = IF k <= Len(s) THEN s[k] ELSE t[k - Len(s)]
  BY ConcatProperties
<1> DEFINE u == s \o t
<1>2. /\ u \in Seq(S) /\ Len(u) = Len(s) + Len(t)
      /\ \A k \in 1 .. Len(s) + Len(t) : u[k] = IF k <= Len(s) THEN s[k] ELSE t[k - Len(s)]
  BY <1>1
<1> HIDE DEF u
<1>3. Len(s) <= Len(u) /\ \A k \in 1 .. Len(s) : s[k] = u[k]
  BY <1>1, <1>2
<1>4. IsPrefix(s, u)
  BY <1>2, <1>3, PrefixByElements
<1> QED
  BY <1>2, <1>4 DEF u

\* A member belongs to an enum that has a prefix.
EnumsOfMembers == \A i \in DOMAIN named : named[i].enum \in DOMAIN prefix

LEMMA MembersHaveEnums == Spec => [](TypeOK /\ EnumsOfMembers)
<1>1. Init => EnumsOfMembers
  BY DEF Init, NamesInit, EnumsOfMembers
<1>2. ASSUME TypeOK, EnumsOfMembers, [Next]_vars PROVE EnumsOfMembers'
  <2>1. CASE AddEnum
    <3>1. PICK e \in Enums \ DOMAIN prefix, p \in PrefixWords :
              prefix' = [d \in DOMAIN prefix \cup {e} |-> IF d = e THEN p ELSE prefix[d]]
      BY <2>1 DEF AddEnum, NameEnum
    <3>2. DOMAIN prefix \subseteq DOMAIN prefix' /\ named' = named
      BY <2>1, <3>1 DEF AddEnum, NameEnum
    <3> QED
      BY <1>2, <3>2 DEF EnumsOfMembers
  <2>2. CASE AddName
    <3>1. PICK m \in Member : m.enum \in DOMAIN prefix /\ named' = Append(named, m)
      BY <2>2 DEF AddName, NameMember
    <3>2. named \in Seq(Member) /\ prefix' = prefix
      BY <1>2, <2>2 DEF TypeOK, NamesTypeOK, AddName, NameMember
    <3>3. \A i \in DOMAIN named' : named'[i] = m \/ (i \in DOMAIN named /\ named'[i] = named[i])
      <4>1. m \in Member
        OBVIOUS
      <4> DEFINE longer == Append(named, m)
      <4>2. \A i \in DOMAIN longer : longer[i] = m \/ (i \in DOMAIN named /\ longer[i] = named[i])
        BY <3>2
      <4>3. named' = longer
        BY <3>1
      <4> HIDE DEF longer
      <4> QED
        BY <4>2, <4>3, Zenon
    <3> QED
      BY <1>2, <3>1, <3>2, <3>3 DEF EnumsOfMembers
  <2>3. CASE UNCHANGED <<prefix, named>>
    BY <1>2, <2>3 DEF EnumsOfMembers
  <2> QED
    BY <1>2, <2>1, <2>2, <2>3
    DEF Next, vars, NumberService, AddRpc, WriteRpc, WriteServiceId, AddMember, AddType,
        AddReference, Configure, AddField
<1> QED
  BY <1>1, <1>2, TypeCorrect, PTL DEF Spec

\* A prefix in front of two names makes one name only of one.
LEMMA SamePrefix ==
    ASSUME NEW S, NEW p \in Seq(S), NEW s \in Seq(S), NEW t \in Seq(S), p \o s = p \o t
    PROVE  s = t
BY ConcatSimplifications

\* What is added to a prefix makes it longer.
LEMMA PrefixIsStrict ==
    ASSUME NEW S, NEW p \in Seq(S), NEW s \in Seq(S), s # <<>>
    PROVE  IsStrictPrefix(p, p \o s)
<1>1. Len(p) \in Nat /\ Len(s) \in Nat /\ Len(s) > 0 /\ Len(p \o s) = Len(p) + Len(s)
  OBVIOUS
<1>2. Len(p) # Len(p \o s)
  BY <1>1
<1>3. p # p \o s
  BY <1>2, Zenon
<1> QED
  BY <1>3, PrefixOfBoth DEF IsStrictPrefix

\* Two members become one name only where the author has written them so.
THEOREM MemberClashesKnown == Spec => []MembersClashAsWritten
<1>1. TypeOK /\ EnumsOfMembers => MembersClashAsWritten
  <2> SUFFICES ASSUME TypeOK, EnumsOfMembers, AcceptedNames,
                      NEW i \in DOMAIN named, NEW j \in DOMAIN named
               PROVE  LET m == named[i]
                          n == named[j]
                      IN  /\ m.enum # n.enum /\ ProtoName(m) = ProtoName(n) =>
                                 IsPrefix(prefix[m.enum], prefix[n.enum]) \/ IsPrefix(prefix[n.enum], prefix[m.enum])
                          /\ m.enum = n.enum /\ i # j =>
                                 (ProtoName(m) = ProtoName(n) <=>
                                      \/ m.name # n.name /\ Upper(m.name) = Upper(n.name)
                                      \/ AddsPrefix(m, n) \/ AddsPrefix(n, m))
    BY DEF MembersClashAsWritten
  <2> DEFINE S == DOMAIN UpperWord \cup {UpperWord[w] : w \in DOMAIN UpperWord}
             P(k) == prefix[named[k].enum]
             U(k) == Upper(named[k].name)
             Bears(k) == IsStrictPrefix(P(k), U(k))
  <2>1. ASSUME NEW k \in DOMAIN named
        PROVE  /\ named[k] = [enum |-> named[k].enum, name |-> named[k].name]
               /\ P(k) \in Seq(S) /\ U(k) \in Seq(S) /\ U(k) # <<>>
    <3>1. named[k] \in Member
      BY DEF TypeOK, NamesTypeOK
    <3>2. named[k].enum \in DOMAIN prefix
      BY DEF EnumsOfMembers
    <3>3. P(k) \in PrefixWords /\ named[k].name \in MemberWords
      BY <3>1, <3>2 DEF TypeOK, NamesTypeOK, Range, Member
    <3>4. PrefixWords \cup MemberWords \subseteq Seq(DOMAIN UpperWord) /\ <<>> \notin MemberWords
      BY WordsAssumption
    <3>5. P(k) \in Seq(DOMAIN UpperWord)
      BY <3>3, <3>4
    <3>6. P(k) \in Seq(S)
      BY <3>5
    <3>7. named[k].name \in Seq(DOMAIN UpperWord) /\ named[k].name # <<>>
      BY <3>3, <3>4
    <3>8. ASSUME NEW s \in Seq(DOMAIN UpperWord), s # <<>>
          PROVE  Upper(s) \in Seq(S) /\ Upper(s) # <<>>
      <4>1. /\ Len(s) \in Nat /\ Len(s) > 0 /\ DOMAIN s = 1 .. Len(s)
            /\ \A l \in 1 .. Len(s) : s[l] \in DOMAIN UpperWord
        BY <3>8
      <4>2. Upper(s) = [l \in 1 .. Len(s) |-> UpperWord[s[l]]]
        BY <4>1 DEF Upper
      <4>3. \A l \in 1 .. Len(s) : UpperWord[s[l]] \in S
        BY <4>1
      <4> HIDE DEF S
      <4>4. Upper(s) \in Seq(S)
        BY <4>1, <4>2, <4>3
      <4>5. Len(Upper(s)) = Len(s)
        BY <4>1, <4>2, <4>4
      <4> QED
        BY <4>1, <4>4, <4>5
    <3> QED
      BY <3>1, <3>6, <3>7, <3>8 DEF Member
  <2>2. ASSUME NEW k \in DOMAIN named
        PROVE  /\ ProtoName(named[k]) = IF Bears(k) THEN U(k) ELSE P(k) \o U(k)
               /\ ProtoName(named[k]) \in Seq(S) /\ IsPrefix(P(k), ProtoName(named[k]))
    <3>1. ProtoName(named[k]) = IF Bears(k) THEN U(k) ELSE P(k) \o U(k)
      BY DEF ProtoName
    <3> HIDE DEF S, P, U
    <3>2. P(k) \o U(k) \in Seq(S) /\ IsPrefix(P(k), P(k) \o U(k))
      BY <2>1, PrefixOfBoth
    <3>3. Bears(k) => IsPrefix(P(k), U(k))
      BY DEF IsStrictPrefix
    <3> QED
      BY <2>1, <3>1, <3>2, <3>3
  <2> HIDE DEF S, U, Bears
  <2>3. ProtoName(named[i]) = ProtoName(named[j]) => IsPrefix(P(i), P(j)) \/ IsPrefix(P(j), P(i))
    BY <2>1, <2>2, PrefixesCompare
  <2>4. ASSUME named[i].enum = named[j].enum, i # j
        PROVE  ProtoName(named[i]) = ProtoName(named[j]) <=>
                   \/ named[i].name # named[j].name /\ U(i) = U(j)
                   \/ U(j) = P(i) \o U(i) /\ ~ Bears(i)
                   \/ U(i) = P(j) \o U(j) /\ ~ Bears(j)
    <3>1. P(i) = P(j)
      BY <2>4
    <3>2. named[i].name # named[j].name
      BY <2>1, <2>4 DEF AcceptedNames
    <3>3. U(i) = U(j) => (Bears(i) <=> Bears(j))
      BY <3>1 DEF Bears
    <3>4. ASSUME U(j) = P(i) \o U(i) PROVE Bears(j)
      <4>1. IsStrictPrefix(P(i), P(i) \o U(i))
        BY <2>1, PrefixIsStrict
      <4>2. IsStrictPrefix(P(i), U(j))
        BY <3>4, <4>1
      <4> HIDE DEF P
      <4> QED
        BY <3>1, <4>2 DEF Bears
    <3>5. ASSUME U(i) = P(j) \o U(j) PROVE Bears(i)
      <4>1. IsStrictPrefix(P(j), P(j) \o U(j))
        BY <2>1, PrefixIsStrict
      <4>2. IsStrictPrefix(P(j), U(i))
        BY <3>5, <4>1
      <4> HIDE DEF P
      <4>3. IsStrictPrefix(P(i), U(i))
        BY <3>1, <4>2
      <4> QED
        BY <4>3 DEF Bears
    <3>6. P(i) \o U(i) = P(j) \o U(j) <=> U(i) = U(j)
      <4> HIDE DEF P
      <4>1. P(i) \in Seq(S) /\ U(i) \in Seq(S) /\ U(j) \in Seq(S)
        BY <2>1
      <4>2. P(i) \o U(i) = P(i) \o U(j) => U(i) = U(j)
        BY <4>1, SamePrefix
      <4> QED
        BY <3>1, <4>2
    <3>7. /\ ProtoName(named[i]) = IF Bears(i) THEN U(i) ELSE P(i) \o U(i)
          /\ ProtoName(named[j]) = IF Bears(j) THEN U(j) ELSE P(j) \o U(j)
      BY <2>2
    <3> HIDE DEF P
    <3>8. CASE Bears(i) /\ Bears(j)
      BY <3>2, <3>7, <3>8
    <3>9. CASE Bears(i) /\ ~ Bears(j)
      BY <3>3, <3>4, <3>7, <3>9
    <3>10. CASE ~ Bears(i) /\ Bears(j)
      <4>1. ProtoName(named[i]) = P(i) \o U(i) /\ ProtoName(named[j]) = U(j)
        BY <3>7, <3>10
      <4>2. U(i) # U(j) /\ U(i) # P(j) \o U(j)
        BY <3>3, <3>5, <3>10
      <4> QED
        BY <3>10, <4>1, <4>2
    <3>11. CASE ~ Bears(i) /\ ~ Bears(j)
      BY <3>2, <3>4, <3>5, <3>6, <3>7, <3>11
    <3> QED
      BY <3>8, <3>9, <3>10, <3>11
  <2> QED
    BY <2>3, <2>4 DEF AddsPrefix, U, Bears
<1> QED
  BY <1>1, MembersHaveEnums, PTL

-----------------------------------------------------------------------------
(* Types.                                                                  *)

Empty == [scope |-> "types", name |-> "Empty", kind |-> "message"]

\* References lead somewhere when they are written, and declarations stay.
TypesInv ==
    /\ IsFiniteSet(declared) /\ Empty \in declared
    /\ \A r \in uses : IsValidType(r)

LEMMA DeclaringGrows ==
    ASSUME NEW r, IsValidType(r), declared \subseteq declared'
    PROVE  IsValidType(r)'
<1>1. Declaring(AsPascal[r.name]) \subseteq Declaring(AsPascal[r.name])'
  BY DEF Declaring
<1> QED
  BY <1>1 DEF IsValidType, Meant, IsScalar

LEMMA TypesHold == Spec => [](TypeOK /\ TypesInv)
<1>1. Init => TypesInv
  BY FS_Singleton DEF Init, TypesInit, TypesInv, Empty
<1>2. ASSUME TypeOK, TypesInv, [Next]_vars PROVE TypesInv'
  <2>1. CASE AddType
    <3>1. PICK d \in Declaration \ declared : declared' = declared \cup {d}
      BY <2>1 DEF AddType, Declare
    <3>2. uses' = uses
      BY <2>1 DEF AddType, Declare
    <3>3. IsFiniteSet(declared') /\ Empty \in declared' /\ declared \subseteq declared'
      BY <1>2, <3>1, FS_AddElement DEF TypesInv
    <3> QED
      BY <1>2, <3>2, <3>3, DeclaringGrows DEF TypesInv
  <2>2. CASE AddReference
    <3>1. PICK r \in Reference \ uses : IsValidType(r) /\ uses' = uses \cup {r}
      BY <2>2 DEF AddReference, Refer
    <3>2. declared' = declared
      BY <2>2 DEF AddReference, Refer
    <3>3. \A u \in uses' : IsValidType(u)'
      BY <1>2, <3>1, <3>2, DeclaringGrows DEF TypesInv
    <3> QED
      BY <1>2, <3>2, <3>3 DEF TypesInv
  <2>3. CASE UNCHANGED <<declared, uses>>
    <3>1. \A u \in uses' : IsValidType(u)'
      BY <1>2, <2>3, DeclaringGrows DEF TypesInv
    <3> QED
      BY <1>2, <2>3, <3>1 DEF TypesInv
  <2> QED
    BY <1>2, <2>1, <2>2, <2>3
    DEF Next, vars, NumberService, AddRpc, WriteRpc, WriteServiceId, AddMember, AddEnum, AddName,
        NameEnum, NameMember, Configure, AddField
<1> QED
  BY <1>1, <1>2, TypeCorrect, PTL DEF Spec

\* The packages of the .proto files.
TypesPath == <<"windrpc", "types">>
ServicePath(path) == <<"windrpc", "service">> \o path

LEMMA FileOfTypes == FileOf(TypesPath) = {"types"} /\ TypesPath # <<>>
BY DEF FileOf, TypesPath, Last

LEMMA FileOfService ==
    ASSUME NEW s
    PROVE  FileOf(ServicePath(<<s>>)) = {s} /\ ServicePath(<<s>>) # <<>>
<1> DEFINE S == {"windrpc", "service", s}
           head == <<"windrpc", "service">>
           tail == <<s>>
           path == head \o tail
<1>1. /\ head \in Seq(S) /\ Len(head) = 2 /\ head[1] = "windrpc"
      /\ tail \in Seq(S) /\ Len(tail) = 1 /\ tail[1] = s
  OBVIOUS
<1> HIDE DEF head, tail, S
<1>2. /\ path \in Seq(S) /\ Len(path) = Len(head) + Len(tail)
      /\ \A k \in 1 .. Len(head) + Len(tail) :
           path[k] = IF k <= Len(head) THEN head[k] ELSE tail[k - Len(head)]
  BY <1>1, ConcatProperties
<1> HIDE DEF path
<1>3. Len(path) = 3 /\ path[1] = "windrpc" /\ path[3] = s
  BY <1>1, <1>2
<1>4. path # <<>>
  BY <1>3
<1>5. FileOf(path) = {s}
  BY <1>3 DEF FileOf, Last
<1>6. ServicePath(<<s>>) = path
  BY DEF ServicePath, path, head, tail
<1> QED
  BY <1>4, <1>5, <1>6

\* What a reference that is written as declared resolves to.
LEMMA ResolvesTo ==
    ASSUME NEW r \in Reference, r.name \in TypeNamesUsed, ~ IsScalar(r), IsValidType(r)
    PROVE  \/ IsOwn(r) /\ Resolve(r) = Written(<<>>, r.name)
           \/ /\ ~ IsOwn(r) /\ "types" \in Declaring(r.name)
              /\ Resolve(r) = Written(TypesPath, r.name)
           \/ \E s \in ToSet(ServiceOrder) :
                /\ r.path = <<s>> /\ s \in Declaring(r.name) /\ s # "types"
                /\ ~ (r.scope # "types" /\ s = r.scope)
                /\ Resolve(r) = Written(ServicePath(r.path), r.name)
<1>1. \A scope : r.name \in NamesOf(scope) <=> scope \in Declaring(r.name)
  BY DEF NamesOf, Declaring
<1>2. AsPascal[r.name] = r.name
  BY SpellingAssumption
<1>3. CASE IsOwn(r)
  BY <1>3 DEF Resolve
<1>4. CASE ~ IsOwn(r) /\ "types" \in Declaring(r.name)
  BY <1>1, <1>4 DEF Resolve, TypesPath
<1>5. CASE ~ IsOwn(r) /\ "types" \notin Declaring(r.name)
  <2>1. r.scope # "types" => r.scope \notin Declaring(r.name)
    BY <1>1, <1>5 DEF IsOwn
  <2>2. r.scope \notin Declaring(r.name)
    BY <1>5, <2>1
  <2>3. Len(r.path) = 1 /\ r.path[1] \in Declaring(r.name)
    BY <1>2, <1>5, <2>2 DEF IsValidType, Meant
  <2>4. PICK s \in ToSet(ServiceOrder) \cup {"types"} : r.path = <<s>>
    <3>1. r.path \in Paths
      BY DEF Reference
    <3>2. CASE r.path = <<>>
      BY <2>3, <3>2
    <3>3. CASE r.path = <<"package", "types">>
      BY <2>3, <3>3
    <3> QED
      BY <3>1, <3>2, <3>3 DEF Paths
  <2>5. s \in Declaring(r.name) /\ s # "types" /\ Last(r.path) = s /\ r.path # <<>>
    BY <1>5, <2>3, <2>4 DEF Last
  <2>6. Resolve(r) = Written(ServicePath(r.path), r.name)
    BY <1>1, <1>5, <2>5 DEF Resolve, ServicePath
  <2> QED
    BY <1>5, <2>1, <2>4, <2>5, <2>6
<1> QED
  BY <1>3, <1>4, <1>5

\* Such a reference finds a type, and the file it is in can be imported.
LEMMA FindsSomething ==
    ASSUME NEW r \in Reference, IsExact(r), IsValidType(r)
    PROVE  /\ Found(r.scope, Resolve(r)) # {}
           /\ Resolve(r).path # <<>> => FileOf(Resolve(r).path) # {}
<1>1. \A path, name : Written(path, name).path = path /\ Written(path, name).name = name
  BY DEF Written
<1>2. CASE IsScalar(r)
  BY <1>1, <1>2 DEF IsScalar, Resolve, Found
<1>3. CASE ~ IsScalar(r)
  <2>1. r.name \in TypeNamesUsed
    BY <1>3 DEF IsExact
  <2>2. CASE IsOwn(r) /\ Resolve(r) = Written(<<>>, r.name)
    <3>1. r.scope \in Declaring(r.name)
      BY <2>2 DEF IsOwn, NamesOf, Declaring
    <3> QED
      <4>1. Resolve(r).path = <<>> /\ Resolve(r).name = r.name
        BY <1>1, <2>2
      <4> QED
        BY <3>1, <4>1 DEF Found
  <2>3. CASE "types" \in Declaring(r.name) /\ Resolve(r) = Written(TypesPath, r.name)
    <3>1. /\ Resolve(r).path = TypesPath /\ Resolve(r).name = r.name
          /\ FileOf(Resolve(r).path) = {"types"} /\ Resolve(r).path # <<>>
      BY <1>1, <2>3, FileOfTypes
    <3> QED
      BY <2>3, <3>1 DEF Found
  <2>4. ASSUME NEW s, r.path = <<s>>, s \in Declaring(r.name),
               Resolve(r) = Written(ServicePath(r.path), r.name)
        PROVE  /\ Found(r.scope, Resolve(r)) # {}
               /\ FileOf(Resolve(r).path) # {}
    <3>1. /\ Resolve(r).path = ServicePath(<<s>>) /\ Resolve(r).name = r.name
          /\ FileOf(Resolve(r).path) = {s} /\ Resolve(r).path # <<>>
      BY <1>1, <2>4, FileOfService
    <3> QED
      BY <2>4, <3>1 DEF Found
  <2> QED
    BY <1>3, <2>1, <2>2, <2>3, <2>4, ResolvesTo
<1> QED
  BY <1>2, <1>3

\* References that are spelled as declared never dangle; and the files load if all are
\* spelled so, none in `types' leads to a declared type and no services refer to each
\* other in a circle.
THEOREM FilesLoad == Spec => []ProtosLoad
<1>1. TypeOK /\ TypesInv => ProtosLoad
  <2> SUFFICES ASSUME TypeOK, TypesInv PROVE NothingDangles /\ ImportsLoad
    BY DEF ProtosLoad
  <2>1. \A r \in uses : r \in Reference /\ IsValidType(r)
    BY DEF TypeOK, TypesTypeOK, TypesInv
  <2>2. NothingDangles
    BY <2>1, FindsSomething DEF NothingDangles
  <2>3. ASSUME \A r \in uses : IsExact(r) /\ (r.scope = "types" => IsScalar(r)),
               \A group \in SUBSET ToSet(ServiceOrder) \ {{}} :
                   \E f \in group : RefersTo(f) \cap group = {}
        PROVE  Loads
    <3>1. ASSUME NEW f \in Files, NEW path \in Imports(f) PROVE FileOf(path) # {}
      <4>1. path # <<>> /\ (path = TypesPath \/ \E r \in uses : path = Resolve(r).path)
        BY DEF Imports, TypesPath
      <4> QED
        BY <2>1, <2>3, <4>1, FindsSomething, FileOfTypes
    <3>2. ASSUME NEW group \in SUBSET Files \ {{}}
          PROVE  \E f \in group : (UNION {FileOf(path) : path \in Imports(f)}) \cap group = {}
      <4>1. CASE "types" \in group
        <5>1. ASSUME NEW path \in Imports("types") PROVE FALSE
          <6>1. PICK r \in uses : /\ r.scope = "types" /\ path # <<>>
                                  /\ path = Resolve(r).path \/ r.role = "event"
            BY DEF Imports
          <6>2. r.role # "event" /\ IsScalar(r)
            BY <2>1, <2>3, <6>1 DEF Reference
          <6>3. Resolve(r).path = <<>>
            BY <6>2 DEF Resolve, Written
          <6> QED
            BY <6>1, <6>2, <6>3
        <5> QED
          BY <4>1, <5>1
      <4>2. CASE "types" \notin group
        <5>1. group \in SUBSET ToSet(ServiceOrder) \ {{}}
          BY <4>2 DEF Files
        <5>2. PICK f \in group : RefersTo(f) \cap group = {}
          BY <2>3, <5>1
        <5>3. ASSUME NEW path \in Imports(f), NEW g \in FileOf(path), g \in group PROVE FALSE
          <6>1. path # TypesPath
            BY <4>2, <5>3, FileOfTypes
          <6>2. PICK r \in uses : r.scope = f /\ path = Resolve(r).path /\ path # <<>>
            BY <6>1 DEF Imports, TypesPath
          <6>3. ~ IsScalar(r) /\ r.name \in TypeNamesUsed
            <7>1. IsScalar(r) => Resolve(r).path = <<>>
              BY DEF Resolve, Written
            <7> QED
              BY <2>3, <6>2, <7>1 DEF IsExact
          <6>4. \A p, n : Written(p, n).path = p
            BY DEF Written
          <6>5. PICK s \in ToSet(ServiceOrder) :
                   /\ r.path = <<s>> /\ s # "types" /\ ~ (r.scope # "types" /\ s = r.scope)
                   /\ Resolve(r) = Written(ServicePath(r.path), r.name)
            BY <2>1, <6>1, <6>2, <6>3, <6>4, ResolvesTo
          <6>6. g = s
            BY <5>3, <6>2, <6>4, <6>5, FileOfService
          <6>7. Len(r.path) = 1 /\ r.path[1] = s /\ s \notin {f, "types"}
            BY <4>2, <6>2, <6>5
          <6>8. s \in RefersTo(f)
            BY <6>2, <6>7 DEF RefersTo
          <6> QED
            BY <5>2, <5>3, <6>6, <6>8
        <5> QED
          BY <5>2, <5>3
      <4> QED
        BY <4>1, <4>2
    <3> QED
      BY <3>1, <3>2 DEF Loads
  <2> QED
    BY <2>2, <2>3 DEF ImportsLoad
<1> QED
  BY <1>1, TypesHold, PTL

\* A message whose name is declared once is the same for protoc and for the generators,
\* as far as the ways of writing go that TypesAgree names.
THEOREM GeneratorsAgree == Spec => []TypesAgree
<1>1. TypeOK /\ TypesInv => TypesAgree
  <2> SUFFICES ASSUME TypeOK, TypesInv, NEW r \in uses, Unambiguous(r)
               PROVE  /\ Found(r.scope, Resolve(r)) = Meant(r)
                      /\ JsType(r) = Meant(r)
                      /\ r.role # "field" /\ Len(r.path) < 2 /\ (r.path = <<>> => Meant(r) = {r.scope}) =>
                          /\ ServerType(r) = Meant(r)
                          /\ Meant(r) # {"types"} => CsType(r) = Meant(r)
    BY DEF TypesAgree
  <2>1. /\ r \in Reference /\ IsValidType(r) /\ ~ IsScalar(r)
        /\ r.name \in TypeNamesUsed /\ r.name \notin ScalarAnyCase /\ r.name \notin ScalarExact
        /\ AsPascal[r.name] = r.name
    BY SpellingAssumption DEF TypeOK, TypesTypeOK, TypesInv, Unambiguous, IsScalar
  <2>2. PICK home \in Files : Declaring(r.name) = {home} /\ Messages(r.name) = {home}
    <3> DEFINE D == {d \in declared : d.name = r.name}
    <3>1. IsFiniteSet(D) /\ Cardinality(D) = 1
      BY FS_Subset DEF TypesInv, Unambiguous
    <3>2. PICK d : D = {d}
      BY <3>1, FS_Singleton
    <3>3. d \in declared /\ d.name = r.name /\ d.scope \in Files
      BY <3>2 DEF TypeOK, TypesTypeOK, Declaration
    <3>4. Declaring(r.name) = {d.scope}
      BY <3>2 DEF Declaring
    <3>5. Messages(r.name) = {d.scope}
      <4>1. Messages(r.name) \subseteq Declaring(r.name) /\ Messages(r.name) # {}
        BY DEF Messages, Declaring, Unambiguous
      <4> QED
        BY <3>4, <4>1
    <3> QED
      BY <3>3, <3>4, <3>5
  <2>3. \A scope : r.name \in NamesOf(scope) <=> scope = home
    <3>1. \A scope : r.name \in NamesOf(scope) <=> scope \in Declaring(r.name)
      BY DEF NamesOf, Declaring
    <3> QED
      BY <2>2, <3>1
  <2>4. Meant(r) = {home}
    BY <2>1, <2>2 DEF IsValidType, Meant
  <2>5. /\ r.path = <<>> => home \in {r.scope, "types"}
        /\ r.path # <<>> => home = IF Len(r.path) = 1 THEN r.path[1] ELSE "types"
    BY <2>1, <2>2, <2>4 DEF Meant
  <2>6. Found(r.scope, Resolve(r)) = {home}
    <3>1. \A path, name : Written(path, name).path = path /\ Written(path, name).name = name
      BY DEF Written
    <3>2. CASE IsOwn(r) /\ Resolve(r) = Written(<<>>, r.name)
      <4>1. r.scope = home
        BY <2>3, <3>2 DEF IsOwn
      <4> QED
        BY <2>1, <2>2, <3>1, <3>2, <4>1 DEF Found
    <3>3. CASE "types" \in Declaring(r.name) /\ Resolve(r) = Written(TypesPath, r.name)
      <4>1. /\ Resolve(r).path = TypesPath /\ Resolve(r).name = r.name
            /\ FileOf(Resolve(r).path) = {"types"} /\ Resolve(r).path # <<>>
        BY <3>1, <3>3, FileOfTypes
      <4> QED
        BY <2>2, <3>3, <4>1 DEF Found
    <3>4. ASSUME NEW s, r.path = <<s>>, s \in Declaring(r.name),
                 Resolve(r) = Written(ServicePath(r.path), r.name)
          PROVE  Found(r.scope, Resolve(r)) = {home}
      <4>1. /\ Resolve(r).path = ServicePath(<<s>>) /\ Resolve(r).name = r.name
            /\ FileOf(Resolve(r).path) = {s} /\ Resolve(r).path # <<>>
        BY <3>1, <3>4, FileOfService
      <4> QED
        BY <2>2, <3>4, <4>1 DEF Found
    <3> QED
      BY <2>1, <3>2, <3>3, <3>4, ResolvesTo
  <2>7. JsType(r) = {home}
    <3> DEFINE found == {i \in DOMAIN ServiceOrder : ServiceOrder[i] \in Messages(r.name)}
    <3>1. JsType(r) = IF found # {} THEN {ServiceOrder[Max(found)]} ELSE {"types"} \cap {home}
      BY <2>1, <2>2 DEF JsType
    <3>2. CASE found # {}
      <4>1. Len(ServiceOrder) \in Nat /\ found \in SUBSET (1 .. Len(ServiceOrder))
        BY SpellingAssumption
      <4>2. Max(found) \in found
        <5> HIDE DEF found
        <5> QED
          BY <3>2, <4>1, MaxIsThere
      <4>3. ServiceOrder[Max(found)] = home
        BY <2>2, <4>2
      <4> QED
        BY <3>1, <3>2, <4>3
    <3>3. CASE found = {}
      <4>1. home \notin ToSet(ServiceOrder)
        BY <2>2, <3>3 DEF ToSet
      <4>2. home = "types"
        BY <4>1 DEF Files
      <4> QED
        BY <3>1, <3>3, <4>2
    <3> QED
      BY <3>2, <3>3
  <2>8. ASSUME r.role # "field", Len(r.path) < 2, r.path = <<>> => home = r.scope
        PROVE  ServerType(r) = {home} /\ (home # "types" => CsType(r) = {home})
    <3>1. r.name = "Empty" => home = "types"
      <4>1. r.name = "Empty" => "types" \in Declaring(r.name)
        BY DEF TypesInv, Empty, Declaring
      <4> QED
        BY <2>2, <4>1
    <3>2. r.path # <<>> => Len(r.path) = 1 /\ home = r.path[1]
      <4>1. r.path # <<>> => Len(r.path) = 1
        <5>1. r.path \in Paths
          BY <2>1 DEF Reference
        <5> QED
          BY <2>8, <5>1 DEF Paths
      <4> QED
        BY <2>5, <4>1
    <3>3. CASE r.path = <<>>
      <4>1. /\ ServerType(r) = IF r.role = "call" /\ r.name = "Empty" THEN {"types"} ELSE {r.scope} \cap {home}
            /\ CsType(r) = IF r.role = "call" /\ r.name = "Empty" THEN {"types"}
                          ELSE ({r.scope} \cap {home}) \ {"types"}
        BY <2>1, <2>2, <2>8, <3>3 DEF ServerType, CsType
      <4> QED
        BY <2>8, <3>1, <3>3, <4>1
    <3>4. CASE r.path # <<>>
      <4>1. /\ ServerType(r) = IF r.role = "call" /\ r.name = "Empty" /\ r.path = <<"types">>
                              THEN {"types"} ELSE {r.path[1]} \cap {home}
            /\ CsType(r) = IF r.role = "call" /\ r.name = "Empty" THEN {"types"}
                          ELSE ({r.path[1]} \cap {home}) \ {"types"}
        BY <2>1, <2>2, <2>8, <3>2, <3>4 DEF ServerType, CsType
      <4> QED
        BY <3>1, <3>2, <3>4, <4>1
    <3> QED
      BY <3>3, <3>4
  <2> QED
    BY <2>4, <2>6, <2>7, <2>8
<1> QED
  BY <1>1, TypesHold, PTL

-----------------------------------------------------------------------------
(* Sizes.                                                                  *)

\* Total is what it says: a number for every beginning of the sequence.
Adds(g, sizes) ==
    /\ g \in [0 .. Len(sizes) -> Nat] /\ g[0] = 0
    /\ \A n \in 1 .. Len(sizes) : g[n] = g[n - 1] + sizes[n]

LEMMA TotalAdds ==
    ASSUME NEW sizes \in Seq(Nat)
    PROVE  \E g : Adds(g, sizes) /\ Total(sizes) = g[Len(sizes)]
<1> DEFINE last == Len(sizes)
           Step == [n \in 1 .. last |-> [x \in Nat |-> x + sizes[n]]]
           Def(g) == [i \in 0 .. last |-> IF i = 0 THEN 0 ELSE g[i - 1] + sizes[i]]
           sum == CHOOSE g : g = Def(g)
<1>1. last \in Nat /\ \A n \in 1 .. last : sizes[n] \in Nat
  OBVIOUS
<1>2. Step \in [1 .. last -> [Nat -> Nat]]
  <2> HIDE DEF last
  <2> QED
    BY <1>1
<1>3. PICK f : IsRecursion(f, last, Nat, 0, Step)
  <2> HIDE DEF Step, last
  <2> QED
    BY <1>1, <1>2, RecursiveFunction
<1>4. f \in [0 .. last -> Nat] /\ f[0] = 0
  <2> HIDE DEF Step, last
  <2> QED
    BY <1>3 DEF IsRecursion
<1>5. ASSUME NEW n \in 1 .. last PROVE f[n] = f[n - 1] + sizes[n]
  <2>1. f[n] = Step[n][f[n - 1]]
    <3> HIDE DEF Step, last
    <3> QED
      BY <1>3 DEF IsRecursion
  <2>2. f[n - 1] \in Nat
    <3>1. n - 1 \in 0 .. last
      BY <1>1
    <3> HIDE DEF last
    <3> QED
      BY <1>4, <3>1
  <2> HIDE DEF last
  <2> QED
    BY <2>1, <2>2
<1>6. f = Def(f)
  <2>1. ASSUME NEW n \in 0 .. last PROVE f[n] = Def(f)[n]
    <3> HIDE DEF last
    <3> QED
      BY <1>1, <1>4, <1>5
  <2>2. f = [n \in 0 .. last |-> f[n]] /\ Def(f) = [n \in 0 .. last |-> Def(f)[n]]
    <3> HIDE DEF last
    <3> QED
      BY <1>4
  <2> HIDE DEF Def, last
  <2> QED
    BY <2>1, <2>2
<1>7. sum = Def(sum)
  <2> HIDE DEF Def
  <2> QED
    BY <1>6, Zenon
<1>8. Total(sizes) = sum[last]
  BY DEF Total
<1> HIDE DEF sum
<1>9. \A n : sum[n] = Def(sum)[n]
  <2> HIDE DEF Def
  <2> QED
    BY <1>7
<1>10. sum[0] = 0 /\ \A n \in 1 .. last : sum[n] = sum[n - 1] + sizes[n]
  <2>1. Def(sum)[0] = 0
    <3> HIDE DEF last
    <3> QED
      BY <1>1
  <2>2. ASSUME NEW n \in 1 .. last PROVE Def(sum)[n] = sum[n - 1] + sizes[n]
    <3>1. n \in 0 .. last /\ n # 0
      BY <1>1
    <3> HIDE DEF last
    <3> QED
      BY <3>1
  <2> HIDE DEF Def, last
  <2> QED
    BY <1>9, <2>1, <2>2
<1>11. sum \in [0 .. last -> Nat]
  <2> DEFINE Good == {m \in Nat : m <= last => sum[m] \in Nat}
  <2>1. 0 \in Good
    BY <1>10
  <2>2. ASSUME NEW m \in Nat, m \in Good PROVE m + 1 \in Good
    <3> SUFFICES ASSUME m + 1 <= last PROVE sum[m + 1] \in Nat
      OBVIOUS
    <3>1. m + 1 \in 1 .. last /\ m + 1 - 1 = m /\ sum[m] \in Nat
      BY <1>1, <2>2
    <3>2. ASSUME NEW n \in 1 .. last, n = m + 1 PROVE sum[n] \in Nat
      <4>1. n - 1 = m /\ sum[n] = sum[n - 1] + sizes[n] /\ sizes[n] \in Nat
        BY <1>1, <1>10, <3>2
      <4> QED
        BY <3>1, <4>1
    <3> QED
      BY <3>1, <3>2
  <2>3. \A m \in Nat : m \in Good
    <3> HIDE DEF Good
    <3> QED
      BY <2>1, <2>2, NatSetInduction
  <2>4. \A m \in 0 .. last : sum[m] \in Nat
    <3> HIDE DEF last
    <3> QED
      BY <1>1, <2>3
  <2>5. sum = [n \in 0 .. last |-> sum[n]]
    <3>1. Def(sum) = [n \in 0 .. last |-> Def(sum)[n]]
      <4> HIDE DEF last
      <4> QED
        OBVIOUS
    <3> HIDE DEF Def, last
    <3> QED
      BY <1>7, <3>1
  <2> HIDE DEF last
  <2> QED
    BY <2>4, <2>5
<1> QED
  BY <1>8, <1>10, <1>11 DEF Adds

\* If each item of one sequence exceeds that of another by seven at most, so do the
\* totals for each item.
LEMMA TotalsCompare ==
    ASSUME NEW a \in Seq(Nat), NEW b \in Seq(Nat), Len(a) = Len(b),
           \A n \in 1 .. Len(a) : a[n] <= b[n] + 7
    PROVE  /\ Total(a) \in Nat /\ Total(b) \in Nat
           /\ Total(a) <= Total(b) + 7 * Len(a)
<1>1. PICK f : Adds(f, a) /\ Total(a) = f[Len(a)]
  BY TotalAdds
<1>2. PICK g : Adds(g, b) /\ Total(b) = g[Len(b)]
  BY TotalAdds
<1> DEFINE last == Len(a)
<1>3. last \in Nat /\ \A n \in 1 .. last : a[n] \in Nat /\ b[n] \in Nat
  OBVIOUS
<1>4. /\ f \in [0 .. last -> Nat] /\ f[0] = 0 /\ \A n \in 1 .. last : f[n] = f[n - 1] + a[n]
      /\ g \in [0 .. last -> Nat] /\ g[0] = 0 /\ \A n \in 1 .. last : g[n] = g[n - 1] + b[n]
  BY <1>1, <1>2 DEF Adds
<1>5. Total(a) = f[last] /\ Total(b) = g[last] /\ \A n \in 1 .. last : a[n] <= b[n] + 7
  BY <1>1, <1>2
<1> HIDE DEF last
<1> DEFINE Good == {m \in Nat : m <= last => f[m] <= g[m] + 7 * m}
<1>6. 0 \in Good
  BY <1>4
<1>7. ASSUME NEW m \in Nat, m \in Good PROVE m + 1 \in Good
  <2> SUFFICES ASSUME m + 1 <= last PROVE f[m + 1] <= g[m + 1] + 7 * (m + 1)
    OBVIOUS
  <2>1. m \in 0 .. last /\ f[m] <= g[m] + 7 * m /\ f[m] \in Nat /\ g[m] \in Nat
    BY <1>3, <1>4, <1>7
  <2>2. ASSUME NEW n \in 1 .. last, n = m + 1
        PROVE  f[n] = f[m] + a[n] /\ g[n] = g[m] + b[n] /\ a[n] <= b[n] + 7 /\ a[n] \in Nat /\ b[n] \in Nat
    <3>1. n - 1 = m
      BY <2>2
    <3> QED
      BY <1>3, <1>4, <1>5, <3>1
  <2>3. m + 1 \in 1 .. last
    BY <1>3
  <2>4. /\ f[m + 1] = f[m] + a[m + 1] /\ g[m + 1] = g[m] + b[m + 1]
        /\ a[m + 1] <= b[m + 1] + 7 /\ a[m + 1] \in Nat /\ b[m + 1] \in Nat
    BY <2>2, <2>3
  <2>5. \A x, y, u, v \in Nat : x <= y + 7 * m /\ u <= v + 7 => x + u <= y + v + 7 * (m + 1)
    OBVIOUS
  <2>6. f[m] + a[m + 1] <= g[m] + b[m + 1] + 7 * (m + 1)
    BY <2>1, <2>4, <2>5
  <2> QED
    BY <2>4, <2>6
<1>8. last \in Good
  <2> HIDE DEF Good
  <2> QED
    BY <1>3, <1>6, <1>7, NatSetInduction
<1>9. f[last] \in Nat /\ g[last] \in Nat
  BY <1>3, <1>4
<1> QED
  BY <1>5, <1>8, <1>9 DEF last

\* A default is a positive number, whether `config' gives it or not.
LEMMA DefaultsArePositive ==
    ASSUME FieldsTypeOK, NEW key \in {"string", "bytes", "array"}
    PROVE  Default(key) \in Nat /\ Default(key) >= 1
<1>1. config[key] \in DefaultsOffered \cup {NotGiven}
  BY DEF FieldsTypeOK, Settings
<1>2. Standard[key] \in Nat /\ Standard[key] >= 1
  BY DEF Standard
<1>3. \A n \in DefaultsOffered : n \in Nat /\ n >= 1
  BY LimitsAssumption
<1>4. CASE config[key] = NotGiven
  BY <1>2, <1>4 DEF Default
<1>5. CASE config[key] # NotGiven
  <2>1. Default(key) = config[key] /\ config[key] \in DefaultsOffered
    BY <1>1, <1>5 DEF Default
  <2> QED
    BY <1>3, <2>1
<1> QED
  BY <1>4, <1>5

\* What nanopb may write of a text is no longer than the sizing takes it to be.
LEMMA TextCounted ==
    ASSUME FieldsTypeOK, NEW f \in Field, Sized(f), f.type \in Texts
    PROVE  Content(f) \in Nat /\ TextLen(f) \in Nat /\ Content(f) <= TextLen(f)
<1>1. f.type \in {"string", "bytes"} /\ f.type # "message"
  BY DEF Texts
<1>2. /\ f.max_size \in SizesOffered \cup {NotGiven}
      /\ f.max_length \in SizesOffered \cup {NotGiven}
  BY DEF Field
<1>3. /\ f.max_size # NotGiven => f.max_size \in Nat /\ f.max_size >= 1
      /\ f.max_length # NotGiven => f.max_length \in Nat
  <2>1. \A n \in SizesOffered : n \in Nat /\ n >= 1
    BY LimitsAssumption
  <2> QED
    BY <1>2, <2>1
<1>4. Default(f.type) \in Nat /\ Default(f.type) >= 1
  BY <1>1, DefaultsArePositive
<1>5. /\ f.type = "string" /\ Unlimited(f) => Default("string") <= 65
      /\ f.type = "bytes" /\ Unlimited(f) => Default("bytes") <= 64
      /\ f.type = "bytes" /\ ~ Unlimited(f) =>
          f.max_size # NotGiven /\ (f.max_length # NotGiven => f.max_size <= f.max_length)
  BY DEF Sized, CountedInFull
<1>6. CASE f.type = "string"
  <2>1. CASE f.max_length # NotGiven
    BY <1>3, <1>6, <2>1 DEF Content, TextLen
  <2>2. CASE f.max_length = NotGiven /\ f.max_size # NotGiven
    <3>1. Content(f) = f.max_size - 1 /\ TextLen(f) = f.max_size
      BY <1>6, <2>2 DEF Content, TextLen, Unlimited
    <3> QED
      BY <1>3, <2>2, <3>1
  <2>3. CASE Unlimited(f)
    <3>1. Content(f) = Default("string") - 1 /\ TextLen(f) = 64
      BY <1>6, <2>3 DEF Content, TextLen, Unlimited
    <3>2. Default("string") \in Nat /\ Default("string") >= 1 /\ Default("string") <= 65
      BY <1>4, <1>5, <1>6, <2>3
    <3> QED
      BY <3>1, <3>2
  <2> QED
    BY <2>1, <2>2, <2>3 DEF Unlimited
<1>7. CASE f.type = "bytes"
  <2>1. CASE ~ Unlimited(f)
    <3>1. Content(f) = f.max_size /\ f.max_size # NotGiven
      BY <1>5, <1>7, <2>1 DEF Content
    <3>2. f.max_length # NotGiven => f.max_size <= f.max_length
      BY <1>5, <1>7, <2>1
    <3> QED
      BY <1>3, <3>1, <3>2 DEF TextLen
  <2>2. CASE Unlimited(f)
    <3>1. Content(f) = Default("bytes") /\ TextLen(f) = 64
      BY <1>7, <2>2 DEF Content, TextLen, Unlimited
    <3> QED
      BY <1>4, <1>5, <1>7, <2>2, <3>1
  <2> QED
    BY <2>1, <2>2
<1> QED
  BY <1>1, <1>6, <1>7

\* A field the sizing looks at is seven bytes longer than was counted, at most.
LEMMA FieldCounted ==
    ASSUME FieldsTypeOK, NEW f \in Field, Sized(f)
    PROVE  Encoded(f) \in Nat /\ LenOf(f) \in Nat /\ Encoded(f) <= LenOf(f) + 7
<1>1. /\ f.type \in Scalars \cup Texts /\ ~ Endless(f) /\ ~ f.oneof /\ f.number \in Nat
      /\ f.repeated \in BOOLEAN /\ LenOf(f) = BaseLen(f) * CountOf(f)
  <2>1. f.type \in Scalars \cup Texts \cup {"message"} /\ f.number \in Nat /\ f.repeated \in BOOLEAN
    BY LimitsAssumption DEF Field
  <2>2. f.type # "message" /\ ~ f.oneof /\ LenOf(f) = BaseLen(f) * CountOf(f)
    BY DEF Sized, LenOf
  <2>3. ~ Endless(f)
    BY <2>2 DEF Sized, CountedInFull, Endless
  <2> QED
    BY <2>1, <2>2, <2>3
<1>2. Scalars \cap Texts = {} /\ "message" \notin Scalars \cup Texts
  BY DEF Scalars, Texts
<1>3. TagBytes(f.number) \in 1 .. 2 /\ (f.number < 16 => TagBytes(f.number) = 1)
  BY <1>1 DEF Sized, TagBytes
<1>4. \A n \in Nat : VarintBytes(n) \in 1 .. 4 /\ (n < 128 => VarintBytes(n) = 1)
  BY DEF VarintBytes
<1>5. ASSUME f.repeated
      PROVE  CountOf(f) \in Nat /\ Elements(f) \in Nat /\ Elements(f) <= CountOf(f)
  <2>1. f.max_count \in CountsOffered \cup {NotGiven}
    BY DEF Field
  <2>2. CASE f.max_count # NotGiven
    <3>1. f.max_count \in Nat
      BY <2>1, <2>2, LimitsAssumption
    <3>2. CountOf(f) = f.max_count /\ Elements(f) = f.max_count
      BY <1>5, <2>2 DEF CountOf, Elements
    <3> QED
      BY <3>1, <3>2
  <2>3. CASE f.max_count = NotGiven
    <3>1. Default("array") <= 1
      BY <1>5, <2>3 DEF Sized
    <3>2. Default("array") \in Nat
      BY DefaultsArePositive
    <3> QED
      BY <1>5, <2>3, <3>1, <3>2 DEF CountOf, Elements
  <2> QED
    BY <2>2, <2>3
<1>6. ASSUME ~ f.repeated PROVE CountOf(f) = 1 /\ Elements(f) = 1
  BY <1>6 DEF CountOf, Elements
<1>7. \A x, y, u, v \in Nat : x <= y /\ u <= v => x * u <= v * y /\ x * u \in Nat /\ v * y \in Nat
  <2> TAKE x, y, u, v \in Nat
  <2> HAVE x <= y /\ u <= v
  <2>1. y - x \in Nat /\ v - u \in Nat /\ y = x + (y - x) /\ v = u + (v - u)
    OBVIOUS
  <2>2. \A d, e \in Nat : (u + e) * (x + d) = x * u + (u * d + e * x + e * d)
    OBVIOUS
  <2>3. v * y = x * u + (u * (y - x) + (v - u) * x + (v - u) * (y - x))
    BY <2>1, <2>2
  <2>4. \A a, b \in Nat : a * b \in Nat
    OBVIOUS
  <2>5. x * u \in Nat /\ u * (y - x) \in Nat /\ (v - u) * x \in Nat /\ (v - u) * (y - x) \in Nat
    BY <2>1, <2>4
  <2> QED
    BY <2>3, <2>5
<1>8. CASE f.type \in Texts
  <2>1. Content(f) \in Nat /\ TextLen(f) \in Nat /\ Content(f) <= TextLen(f)
    BY <1>8, TextCounted
  <2>2. BaseLen(f) = TextLen(f) + 2 /\ Encoded(f) = Elements(f) * Delimited(f, Content(f))
    BY <1>1, <1>2, <1>8 DEF BaseLen, Encoded
  <2>3. CASE f.repeated
    <3>1. f.number < 16 /\ Content(f) < 128
      BY <1>8, <2>3 DEF Sized
    <3>2. Delimited(f, Content(f)) = Content(f) + 2
      BY <1>3, <1>4, <2>1, <3>1 DEF Delimited
    <3>3. Content(f) + 2 \in Nat /\ TextLen(f) + 2 \in Nat /\ Content(f) + 2 <= TextLen(f) + 2
      BY <2>1
    <3>4. /\ Elements(f) * (Content(f) + 2) <= (TextLen(f) + 2) * CountOf(f)
          /\ Elements(f) * (Content(f) + 2) \in Nat /\ (TextLen(f) + 2) * CountOf(f) \in Nat
      BY <1>5, <1>7, <2>3, <3>3
    <3> QED
      BY <1>1, <2>2, <3>2, <3>4
  <2>4. CASE ~ f.repeated
    <3>1. Encoded(f) = TagBytes(f.number) + VarintBytes(Content(f)) + Content(f)
      BY <1>3, <1>4, <1>6, <2>1, <2>2, <2>4 DEF Delimited
    <3>2. LenOf(f) = TextLen(f) + 2
      BY <1>1, <1>6, <2>1, <2>2, <2>4
    <3> QED
      BY <1>3, <1>4, <2>1, <3>1, <3>2
  <2> QED
    BY <1>1, <2>3, <2>4
<1>9. CASE f.type \in Scalars
  <2> DEFINE l == Longest[f.type]
             c == Counted[f.type]
             n == CountOf(f)
             e == Elements(f)
  <2>1. BaseLen(f) = c
    BY <1>2, <1>9 DEF BaseLen
  <2>2. l \in Nat /\ c \in Nat /\ l <= c + 5 /\ (f.type # "int32" => l <= c)
    BY <1>9 DEF Longest, Counted, Scalars
  <2>3. CASE f.repeated
    <3>1. f.type # "int32"
      BY <2>3 DEF Sized
    <3>2. Encoded(f) = Delimited(f, e * l)
      BY <1>1, <1>2, <1>9, <2>3 DEF Encoded
    <3>3. n \in Nat /\ e \in Nat /\ e <= n /\ LenOf(f) = c * n
      BY <1>1, <1>5, <2>1, <2>3
    <3> HIDE DEF l, c, n, e
    <3>4. e * l \in Nat /\ c * n \in Nat /\ e * l <= c * n
      BY <1>7, <2>2, <3>1, <3>3
    <3>5. Encoded(f) = TagBytes(f.number) + VarintBytes(e * l) + e * l
      BY <3>2 DEF Delimited
    <3> QED
      BY <1>3, <1>4, <3>3, <3>4, <3>5
  <2>4. CASE ~ f.repeated
    <3>1. Encoded(f) = TagBytes(f.number) + l /\ LenOf(f) = c
      BY <1>1, <1>2, <1>6, <1>9, <2>1, <2>2, <2>4 DEF Encoded
    <3> QED
      BY <1>3, <2>2, <3>1
  <2> QED
    BY <1>1, <2>3, <2>4
<1> QED
  BY <1>1, <1>8, <1>9

\* Rounding up to a multiple of 64 and to 256 at least.
LEMMA RoundedUp ==
    ASSUME MaxPayload \in Nat
    PROVE  BufferSize \in Nat /\ BufferSize >= MaxPayload + 64
<1> DEFINE n == MaxPayload + 64
           atLeast == IF n < 256 THEN 256 ELSE n
<1>1. n \in Nat /\ atLeast \in Nat /\ atLeast >= n
  OBVIOUS
<1>2. BufferSize = ((atLeast + 63) \div 64) * 64
  BY DEF BufferSize
<1> HIDE DEF n, atLeast
<1>3. ((atLeast + 63) \div 64) * 64 \in Nat /\ ((atLeast + 63) \div 64) * 64 >= atLeast
  BY <1>1
<1> QED
  BY <1>1, <1>2, <1>3 DEF n

\* What the sizing does not count of up to eight fields has room beside the header.
THEOREM MessagesFit == Spec => []SizedMessagesFit
<1>1. TypeOK => SizedMessagesFit
  <2> SUFFICES ASSUME TypeOK, Len(fields) <= 8,
                      \A i \in DOMAIN fields : Sized(fields[i]), BufferSize < Width16
               PROVE  /\ HeaderBytes + EncodedLen <= TxSize
                      /\ PayloadLen(EncodedLen) = EncodedLen
    BY DEF SizedMessagesFit
  <2> DEFINE a == [i \in DOMAIN fields |-> Encoded(fields[i])]
             b == [i \in DOMAIN fields |-> LenOf(fields[i])]
  <2>1. /\ FieldsTypeOK /\ fields \in Seq(Field) /\ DOMAIN fields = 1 .. Len(fields)
        /\ Len(fields) \in Nat /\ Len(fields) <= 8
    <3>1. FieldsTypeOK /\ fields \in Seq(Field)
      BY DEF TypeOK, FieldsTypeOK
    <3>2. Len(fields) \in Nat /\ DOMAIN fields = 1 .. Len(fields)
      BY <3>1
    <3> QED
      BY <3>1, <3>2
  <2>2. ASSUME NEW i \in DOMAIN fields
        PROVE  /\ Encoded(fields[i]) \in Nat /\ LenOf(fields[i]) \in Nat
               /\ Encoded(fields[i]) <= LenOf(fields[i]) + 7
    <3>1. fields[i] \in Field /\ Sized(fields[i])
      BY <2>1
    <3> QED
      BY <2>1, <3>1, FieldCounted
  <2>3. /\ a \in Seq(Nat) /\ b \in Seq(Nat) /\ Len(a) = Len(fields) /\ Len(b) = Len(fields)
        /\ \A i \in 1 .. Len(a) : a[i] <= b[i] + 7
    BY <2>1, <2>2
  <2>4. EncodedLen = Total(a) /\ MaxPayload = IF Total(b) > 64 THEN Total(b) ELSE 64
    BY DEF EncodedLen, MaxPayload
  <2> HIDE DEF a, b
  <2>5. Total(a) \in Nat /\ Total(b) \in Nat /\ Total(a) <= Total(b) + 56
    <3>1. /\ Total(a) \in Nat /\ Total(b) \in Nat
          /\ Total(a) <= Total(b) + 7 * Len(a)
      BY <2>3, TotalsCompare
    <3> QED
      BY <2>1, <2>3, <3>1
  <2>6. MaxPayload \in Nat /\ Total(b) <= MaxPayload
    BY <2>4, <2>5
  <2>7. BufferSize \in Nat /\ EncodedLen \in Nat /\ HeaderBytes + EncodedLen <= BufferSize
    BY <2>4, <2>5, <2>6, RoundedUp DEF HeaderBytes
  <2>8. \A n \in Nat : n < Width16 => n % Width16 = n
    BY DEF Width16
  <2>9. TxSize = BufferSize /\ EncodedLen < Width16
    BY <2>7, <2>8 DEF TxSize, Width16, HeaderBytes
  <2> QED
    BY <2>7, <2>8, <2>9 DEF PayloadLen
<1> QED
  BY <1>1, TypeCorrect, PTL
=============================================================================
