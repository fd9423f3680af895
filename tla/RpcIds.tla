------------------------------- MODULE RpcIds -------------------------------
(***************************************************************************)
(* From a specification to numbers.  An author writes services and RPCs;   *)
(* spec_validator.py accepts the specification or not; the generators of   *)
(* the C server, the JavaScript client and the Python client each derive   *)
(* the 16-bit ids and the names they use from it, on their own.  All must  *)
(* come to the same numbers, and no two things to the same number.         *)
(*                                                                         *)
(* A name is the sequence of its words: the generators put names together  *)
(* with "_", so <<"a">> \o <<"b">> and <<"a", "b">> are one identifier.    *)
(***************************************************************************)
EXTENDS Integers, FiniteSetsExt, SequencesExt

CONSTANTS
    EventBit,   \* 128: bit 7 of the low byte marks an event
    Core,       \* 6: ids 1..Core are reserved, Core is that of `common'
    Words,      \* that names are made of
    Services,   \* names of the user's services
    Names,      \* names of RPCs
    IdsOffered, \* what the author may write as an id, NoId for nothing
    Spellings   \* of `type': "upper" as documented, "lower" also passes

NoId == -1  \* the `id' key is missing

ASSUME IdsAssumption ==
    /\ EventBit \in Nat \ {0} /\ Core \in 1 .. EventBit
    /\ IdsOffered \subseteq Nat \cup {NoId} /\ NoId \in IdsOffered
    /\ Spellings \subseteq {"upper", "lower"}
    /\ Services \cup Names \subseteq Seq(Words) /\ "subscribe" \in Words

VARIABLES
    ids, \* the `id' of each service
    rpcs \* the RPCs of all services, in the order of the file

Types == {"REQUEST_ONLY", "REQUEST_RESPONSE", "NOTIFICATION"}

Rpc == [service : Services, name : Names, id : IdsOffered,
        type : Types, spelling : Spellings]

IdsInit ==
    /\ ids = [s \in Services |-> NoId]
    /\ rpcs = <<>>

WriteServiceId ==
    /\ \E s \in Services, id \in IdsOffered : ids' = [ids EXCEPT ![s] = id]
    /\ UNCHANGED rpcs

WriteRpc ==
    /\ \E r \in Rpc : rpcs' = Append(rpcs, r)
    /\ UNCHANGED ids

-----------------------------------------------------------------------------
(* spec_validator.py *)

Range256 == 2 * EventBit

InRange(id) == id = NoId \/ id \in 1 .. Range256 - 1

MayBeUsed(id) == id = NoId \/ id \notin 1 .. Core

\* Mutant: only the name has to be unique in the service.
Clash_NamesOnly(r, q) == r.service = q.service /\ r.name = q.name

\* check_uniqueness() passes over items without the key.
Clash(r, q) ==
    /\ r.service = q.service
    /\ \/ r.name = q.name
       \/ r.id = q.id /\ r.id # NoId

Accepted ==
    /\ \A s \in Services : InRange(ids[s]) /\ MayBeUsed(ids[s])
    /\ \A s \in Services : ids[s] # Core  \* `common' is merged in before
    /\ \A s, t \in Services : s # t /\ ids[s] = ids[t] => ids[s] = NoId
    /\ \A i \in DOMAIN rpcs : InRange(rpcs[i].id)
    /\ \A i, j \in DOMAIN rpcs : i # j => ~ Clash(rpcs[i], rpcs[j])

-----------------------------------------------------------------------------
(* server/generator.py *)

Combine(service, id) == service * Range256 + id

\* Mutant: the mark is forgotten.
Mark_Forgotten(id) == id

\* id | 0x80
Mark(id) == IF id >= EventBit THEN id ELSE id + EventBit

Method(r) == Combine(ids[r.service], r.id)
Event(r) == Combine(ids[r.service], Mark(r.id))
IsNotification(r) == r.type = "NOTIFICATION"

Subscription(r) == IF IsNotification(r) THEN <<"subscribe">> \o r.name ELSE r.name

\* windrpc_on_<handler>(), which the application has to write.
Handler(r) == Subscription(r)

CoreTable ==
    <<[rpcId |-> Combine(Core, 1), execute |-> <<"ping">>, hasResponse |-> TRUE],
      [rpcId |-> Combine(Core, 2), execute |-> <<"get", "device", "info">>,
       hasResponse |-> TRUE]>>

Table ==
    CoreTable \o [i \in DOMAIN rpcs |->
        [rpcId |-> Method(rpcs[i]), execute |-> Handler(rpcs[i]),
         hasResponse |-> rpcs[i].type # "REQUEST_ONLY"]]

\* windrpc_find_flat_handler(): the first entry with the id.
Find(id) ==
    LET found == {i \in DOMAIN Table : Table[i].rpcId = id} IN
    IF found = {} THEN {} ELSE {Table[Min(found)]}

\* service['id'] and rpc['id'] raise KeyError where there is none.
Generates ==
    /\ \A s \in Services : ids[s] # NoId
    /\ \A i \in DOMAIN rpcs : rpcs[i].id # NoId

-----------------------------------------------------------------------------
(* proto/generator.py, client/js.py, client/csharp.py, client/python.py *)

Const(words, id) == [key |-> words, id |-> id]

\* enum RpcId of windrpc.proto, generate_windrpc_proto().
ProtoConsts(r) ==
    IF IsNotification(r)
    THEN <<Const(r.service \o <<"subscribe">> \o r.name, Method(r)),
           Const(r.service \o r.name, Event(r))>>
    ELSE <<Const(r.service \o r.name, Method(r))>>

\* JavaScript: one constant for a method, two for a notification.
JsConsts(r) ==
    IF IsNotification(r)
    THEN <<Const(r.service \o <<"subscribe">> \o r.name, Method(r)),
           Const(r.service \o r.name, Event(r))>>
    ELSE <<Const(r.service \o r.name, Method(r))>>

\* C#: the same constants.
CsConsts(r) == JsConsts(r)

\* Mutant: the mark is left out.
PyConsts_NoMark(r) == <<Const(r.service \o r.name, Method(r))>>

\* Python: one constant, and `type' is compared as it was written.
PyConsts(r) ==
    <<Const(r.service \o r.name,
            IF IsNotification(r) /\ r.spelling = "upper" THEN Event(r) ELSE Method(r))>>

\* In an object literal or a dict the last of two equal keys stays.
Value(consts, key) == consts[Max({i \in DOMAIN consts : consts[i].key = key})].id

ProtoRpcId(key) == Value(FlattenSeq([i \in DOMAIN rpcs |-> ProtoConsts(rpcs[i])]), key)
JsRpcId(key) == Value(FlattenSeq([i \in DOMAIN rpcs |-> JsConsts(rpcs[i])]), key)
CsRpcId(key) == Value(FlattenSeq([i \in DOMAIN rpcs |-> CsConsts(rpcs[i])]), key)
PyRpcId(key) == Value(FlattenSeq([i \in DOMAIN rpcs |-> PyConsts(rpcs[i])]), key)

\* A method of a generated service client: the id it sends, and whether it
\* waits for a frame in return.
Helper(id, waits) == [sends |-> id, waits |-> waits]

\* buildXxxFrame() for every RPC, sendXxx() for those with a response.
JsHelpers(r) ==
    LET id == JsRpcId(r.service \o r.name) IN
    {Helper(id, FALSE)}
    \cup (IF r.type = "REQUEST_RESPONSE" THEN {Helper(id, TRUE)} ELSE {})

\* Mutant: the subscription is sent under the id of the event.
CsHelpers_EventId(r) == {Helper(CsRpcId(r.service \o r.name), r.type # "REQUEST_ONLY")}

\* SubscribeXxxAsync(), Xxx(), XxxAsync().
CsHelpers(r) ==
    IF IsNotification(r)
    THEN {Helper(CsRpcId(r.service \o <<"subscribe">> \o r.name), TRUE)}
    ELSE {Helper(CsRpcId(r.service \o r.name), r.type # "REQUEST_ONLY")}

-----------------------------------------------------------------------------
Sound == Accepted /\ Generates

IdsTypeOK == ids \in [Services -> IdsOffered] /\ rpcs \in Seq(Rpc)

\* Every RPC of an accepted specification is served by its own handler, under ids
\* that fit the header's 16 bits, and the built-in methods stay what they are.
EveryRpcIsServed ==
    Sound =>
        /\ \A i \in DOMAIN rpcs :
            Find(Method(rpcs[i])) = {[rpcId |-> Method(rpcs[i]),
                                      execute |-> Handler(rpcs[i]),
                                      hasResponse |-> rpcs[i].type # "REQUEST_ONLY"]}
        /\ \A i \in DOMAIN rpcs :
            {Method(rpcs[i]), Event(rpcs[i])} \subseteq 0 .. Range256 * Range256 - 1
        /\ \A i \in DOMAIN CoreTable : Find(CoreTable[i].rpcId) = {CoreTable[i]}

\* The mark of an event makes id e the id i, or both are i already.
Coincide(e, i) == i >= EventBit /\ e \in {i, i - EventBit}

\* An event is taken for a method, or for another event, if and only if the two are
\* of one service, their ids differ by bit 7 at most, and bit 7 is set in that of
\* the method, or of one of the events: ids up to 127 never coincide, an RPC of
\* 128 or more is its own event.  No id is that of the system error, 0.
WireIdsDistinct ==
    Sound =>
        \A i, j \in DOMAIN rpcs :
            LET r == rpcs[i]
                q == rpcs[j]
            IN  /\ Event(r) = Method(q) <=> r.service = q.service /\ Coincide(r.id, q.id)
                /\ i # j =>
                    (Event(r) = Event(q) <=>
                        r.service = q.service /\ (Coincide(r.id, q.id) \/ Coincide(q.id, r.id)))
                /\ Method(r) # 0 /\ Event(r) # 0

\* protoc refuses an enum with two constants of one name, so that no server can be
\* built where the names of two RPCs come to one: led with fan_on beside led_fan
\* with on, or a notification on beside an RPC subscribe_on.
ProtocTakesIds ==
    \A i, j \in DOMAIN rpcs :
        \A k \in DOMAIN ProtoConsts(rpcs[i]), l \in DOMAIN ProtoConsts(rpcs[j]) :
            ProtoConsts(rpcs[i])[k].key = ProtoConsts(rpcs[j])[l].key => i = j /\ k = l

\* The constant of windrpc.proto, JavaScript and C# for an RPC is the id under
\* which the server takes its requests, or that of its event.  So is Python's,
\* except for a notification whose type is not in capitals: it gets the id of the
\* subscription, and no event is ever known by it (client/python.py:40).
ClientsAgree ==
    Sound /\ ProtocTakesIds =>
        \A i \in DOMAIN rpcs :
            LET r == rpcs[i]
                key == r.service \o r.name
                id == IF IsNotification(r) THEN Event(r) ELSE Method(r)
            IN  /\ {ProtoRpcId(key), JsRpcId(key), CsRpcId(key)} = {id}
                /\ PyRpcId(key) =
                       IF IsNotification(r) /\ r.spelling = "lower" THEN Method(r) ELSE id

\* What a generated method sends is dispatched to the handler of its RPC, and
\* a method waits for a frame only if the server sends one.  (JavaScript has
\* no method for subscribing: buildXxxFrame() of a notification makes a frame
\* with the event's id, client/js.py:198.)
HelpersAreServed ==
    Sound /\ ProtocTakesIds =>
        \A i \in DOMAIN rpcs :
            \A h \in CsHelpers(rpcs[i])
                     \cup (IF IsNotification(rpcs[i]) THEN {} ELSE JsHelpers(rpcs[i])) :
                \E entry \in Find(h.sends) :
                    /\ entry.execute = Handler(rpcs[i])
                    /\ h.waits => entry.hasResponse
=============================================================================
