------------------------------ MODULE TypeNames ------------------------------
(***************************************************************************)
(* The names of messages and enums.  Every service has types of its own,   *)
(* `types' has those all services share, and a reference names one of them *)
(* with or without the part it belongs to.  is_valid_type() of the         *)
(* validator accepts a reference; the generators of the .proto files, of   *)
(* the C server, of the JavaScript and of the C# client each look up what  *)
(* it refers to, by rules of their own.                                    *)
(***************************************************************************)
EXTENDS Integers, FiniteSetsExt, SequencesExt

CONSTANTS
    ServiceOrder,  \* the services, as the file lists them
    TypeNamesUsed, \* names of messages and enums, in PascalCase
    Spelled,       \* how a reference may spell such a name
    AsPascal,      \* to_pascal_case() of a spelling
    ScalarAnyCase, \* the spellings which lower() makes a protobuf scalar
    ScalarExact    \* those which are one as they stand

ASSUME SpellingAssumption ==
    /\ ServiceOrder \in Seq(ToSet(ServiceOrder))
    /\ "Empty" \in TypeNamesUsed /\ TypeNamesUsed \subseteq Spelled
    /\ AsPascal \in [Spelled -> TypeNamesUsed]
    /\ \A n \in TypeNamesUsed : AsPascal[n] = n
    /\ ScalarExact \subseteq ScalarAnyCase \ TypeNamesUsed
    /\ ScalarAnyCase \subseteq Spelled

VARIABLES
    declared, \* the messages and enums of all parts
    uses      \* the references of fields and RPCs

Files == ToSet(ServiceOrder) \cup {"types"}

Declaration == [scope : Files, name : TypeNamesUsed, kind : {"message", "enum"}]

\* What stands before the last dot.
Paths == {<<>>, <<"types">>, <<"package", "types">>} \cup {<<s>> : s \in ToSet(ServiceOrder)}

\* `call' is the request or the result of an RPC, `event' a notification's.
Reference ==
    {r \in [scope : Files, role : {"field", "call", "event"}, path : Paths, name : Spelled] :
        r.scope = "types" => r.role = "field"}

NamesOf(scope) == {d.name : d \in {e \in declared : e.scope = scope}}
Declaring(name) == {d.scope : d \in {e \in declared : e.name = name}}
Messages(name) == {d.scope : d \in {e \in declared : e.name = name /\ e.kind = "message"}}

-----------------------------------------------------------------------------
(* spec_validator.py: is_valid_type() *)

IsScalar(r) == r.path = <<>> /\ r.name \in ScalarAnyCase

\* Where the author's reference leads: one part, or none.
Meant(r) ==
    LET parts == Declaring(AsPascal[r.name]) IN
    IF IsScalar(r) THEN {"scalar"}
    ELSE IF r.path = <<>> /\ r.scope \in parts THEN {r.scope}
    ELSE IF Len(r.path) = 1 THEN {r.path[1]} \cap parts
    ELSE {"types"} \cap parts

IsValidType(r) == Meant(r) # {}

\* The core specification declares Empty.
TypesInit ==
    /\ declared = {[scope |-> "types", name |-> "Empty", kind |-> "message"]}
    /\ uses = {}

Declare ==
    /\ \E d \in Declaration \ declared : declared' = declared \cup {d}
    /\ UNCHANGED uses

\* A field needs a message to be in; what the validator refuses is not written.
Refer ==
    /\ \E r \in Reference \ uses :
        /\ IsValidType(r)
        /\ r.role = "field" => \E d \in declared : d.scope = r.scope /\ d.kind = "message"
        /\ uses' = uses \cup {r}
    /\ UNCHANGED declared

-----------------------------------------------------------------------------
(* proto/generator.py *)

Written(path, name) == [path |-> path, name |-> name]

IsOwn(r) == r.scope # "types" /\ r.name \in NamesOf(r.scope)

\* Mutant: the service's own types get their full name, too.
Resolve_OwnQualified(r) ==
    IF IsScalar(r) THEN Written(<<>>, r.name)
    ELSE IF IsOwn(r) THEN Written(<<"windrpc", "service", r.scope>>, r.name)
    ELSE IF r.name \in NamesOf("types") THEN Written(<<"windrpc", "types">>, r.name)
    ELSE Written(<<"windrpc", "service">> \o r.path, r.name)

\* resolve_type_name(): by the last part of the name, first in the service at
\* hand, then in `types', and only then where the reference says.
Resolve(r) ==
    IF IsScalar(r) \/ IsOwn(r) THEN Written(<<>>, r.name)
    ELSE IF r.name \in NamesOf("types") THEN Written(<<"windrpc", "types">>, r.name)
    ELSE IF r.path # <<>> /\ r.name \in NamesOf(Last(r.path))
    THEN Written(<<"windrpc", "service">> \o r.path, r.name)
    ELSE Written(r.path, r.name)

\* The .proto file with the package, if there is one.
FileOf(path) ==
    IF Len(path) > 1 /\ path[1] = "windrpc" THEN {Last(path)} ELSE {}

\* What protoc finds.
Found(scope, w) ==
    IF w.path = <<>> /\ w.name \in ScalarAnyCase THEN {"scalar"}
    ELSE (IF w.path = <<>> THEN {scope} ELSE FileOf(w.path)) \cap Declaring(w.name)

\* generate_import_paths(): a notification has Subscribe among its types, which
\* `types' declares, and the types of RPCs are imported although the file does
\* not mention them.
Imports(file) ==
    LET here == {r \in uses : r.scope = file} IN
    ({Resolve(r).path : r \in here}
        \cup {<<"windrpc", "types">> : r \in {u \in here : u.role = "event"}}) \ {<<>>}

-----------------------------------------------------------------------------
(* server/generator.py: _get_rpc_types() and the names of notification      *)
(* helpers; the aliases exist for messages only.                            *)

\* Mutant: an RPC's types are looked for in its own service only.
ServerType_Own(r) == {r.scope} \cap Messages(r.name)

\* Nothing where the generator raises ValueError: three parts.
ServerType(r) ==
    IF r.role = "call" /\ r.name = "Empty" /\ r.path \in {<<>>, <<"types">>} THEN {"types"}
    ELSE IF Len(r.path) > 1 THEN {}
    ELSE IF r.path # <<>> THEN {r.path[1]} \cap Messages(r.name)
    ELSE IF r.role = "call" /\ r.name \in ScalarExact THEN {"scalar"}
    ELSE {r.scope} \cap Messages(r.name)

(* client/csharp.py: every class is one of a service, except Empty. *)
CsType(r) ==
    IF r.role = "call" /\ r.name = "Empty" /\ Len(r.path) < 2 THEN {"types"}
    ELSE IF Len(r.path) > 1 THEN {}
    ELSE ((IF r.path = <<>> THEN {r.scope} ELSE {r.path[1]}) \cap Messages(r.name)) \ {"types"}

(* client/js.py: one name space for all, in which a later message replaces  *)
(* an earlier one; the enums of services are not in it.                     *)
JsType(r) ==
    LET found == {i \in DOMAIN ServiceOrder : ServiceOrder[i] \in Messages(r.name)} IN
    IF r.path = <<>> /\ r.name \in ScalarExact THEN {"scalar"}
    ELSE IF found # {} THEN {ServiceOrder[Max(found)]}
    ELSE {"types"} \cap Declaring(r.name)

-----------------------------------------------------------------------------
TypesTypeOK == declared \subseteq Declaration /\ uses \subseteq Reference

IsExact(r) == r.name \in TypeNamesUsed \/ IsScalar(r)

\* Where the name of a type is written as it is declared, protoc finds a type of
\* that name, whatever else has the same name: no accepted reference dangles.
\* (Which one it finds is another matter: the service's own and the shared ones
\* come first, even if the reference names another service, generator.py:167.)
NothingDangles ==
    \A r \in uses : IsExact(r) => Found(r.scope, Resolve(r)) # {}

\* A name of one message, that is no scalar's in another case.
Unambiguous(r) ==
    /\ r.name \in TypeNamesUsed \ ScalarAnyCase
    /\ Cardinality({d \in declared : d.name = r.name}) = 1
    /\ Messages(r.name) # {}

\* A message whose name is declared once is the same in the .proto files and the
\* JavaScript client wherever it is referred to; for RPCs it is the same in the
\* C server, if the reference has at most two parts and names the part unless it
\* is the service itself, and in the C# client, if moreover a service declares it.
TypesAgree ==
    \A r \in uses :
        Unambiguous(r) =>
            /\ Found(r.scope, Resolve(r)) = Meant(r)
            /\ JsType(r) = Meant(r)
            /\ r.role # "field" /\ Len(r.path) < 2 /\ (r.path = <<>> => Meant(r) = {r.scope}) =>
                /\ ServerType(r) = Meant(r)
                /\ Meant(r) # {"types"} => CsType(r) = Meant(r)

\* Does protoc load the files: every import is there, and none leads back.
Loads ==
    /\ \A f \in Files : \A path \in Imports(f) : FileOf(path) # {}
    /\ \A group \in SUBSET Files \ {{}} :
        \E f \in group : (UNION {FileOf(path) : path \in Imports(f)}) \cap group = {}

\* The services to which the author refers.
RefersTo(f) == {r.path[1] : r \in {u \in uses : u.scope = f /\ Len(u.path) = 1}} \ {f, "types"}

\* If no message of `types' refers to a declared type (generator.py:335: the file
\* would import itself) and services do not refer to each other in a circle, the
\* files load: neither shadowing nor the imports for RPCs add a circle.
ImportsLoad ==
    /\ \A r \in uses : IsExact(r) /\ (r.scope = "types" => IsScalar(r))
    /\ \A group \in SUBSET ToSet(ServiceOrder) \ {{}} :
        \E f \in group : RefersTo(f) \cap group = {}
    => Loads

\* What the validator accepts of types, protoc takes, as far as the two say.
ProtosLoad == NothingDangles /\ ImportsLoad
=============================================================================
