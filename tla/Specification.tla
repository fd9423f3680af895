--------------------------- MODULE Specification ---------------------------
(***************************************************************************)
(* user_spec.yml while its author writes it: the ids of services and RPCs, *)
(* the members of an enum, their names, the names of types, the fields of  *)
(* a message.  Nothing the generators derive from one of the five depends  *)
(* on another, so a specification here is about one of them.               *)
(***************************************************************************)
EXTENDS RpcIds, EnumNumbers, EnumNames, TypeNames, BufferSizes

CONSTANTS  \* bounds
    MaxRpcs, MaxMembers, MaxNamed, MaxDeclared, MaxUses, MaxFields

vars == <<ids, rpcs, members, prefix, named, declared, uses, config, fields>>

Init == IdsInit /\ EnumInit /\ NamesInit /\ TypesInit /\ FieldsInit

About(v) ==
    /\ v # "ids" => IdsInit
    /\ v # "enum" => EnumInit
    /\ v # "names" => NamesInit
    /\ v # "types" => TypesInit
    /\ v # "fields" => FieldsInit

NumberService ==
    /\ About("ids") /\ rpcs = <<>> /\ WriteServiceId
    /\ UNCHANGED <<members, prefix, named, declared, uses, config, fields>>
AddRpc ==
    /\ About("ids") /\ Len(rpcs) < MaxRpcs /\ WriteRpc
    /\ UNCHANGED <<members, prefix, named, declared, uses, config, fields>>
AddMember ==
    /\ About("enum") /\ Len(members) < MaxMembers /\ WriteMember
    /\ UNCHANGED <<ids, rpcs, prefix, named, declared, uses, config, fields>>
AddEnum ==
    /\ About("names") /\ NameEnum
    /\ UNCHANGED <<ids, rpcs, members, declared, uses, config, fields>>
AddName ==
    /\ About("names") /\ Len(named) < MaxNamed /\ NameMember
    /\ UNCHANGED <<ids, rpcs, members, declared, uses, config, fields>>
AddType ==
    /\ About("types") /\ Cardinality(declared) < MaxDeclared /\ Declare
    /\ UNCHANGED <<ids, rpcs, members, prefix, named, config, fields>>
AddReference ==
    /\ About("types") /\ Cardinality(uses) < MaxUses /\ Refer
    /\ UNCHANGED <<ids, rpcs, members, prefix, named, config, fields>>
Configure ==
    /\ About("fields") /\ WriteConfig
    /\ UNCHANGED <<ids, rpcs, members, prefix, named, declared, uses>>
AddField ==
    /\ About("fields") /\ Len(fields) < MaxFields /\ WriteField
    /\ UNCHANGED <<ids, rpcs, members, prefix, named, declared, uses>>

Next ==
    \/ NumberService \/ AddRpc \/ AddMember \/ AddEnum \/ AddName
    \/ AddType \/ AddReference \/ Configure \/ AddField

Spec == Init /\ [][Next]_vars

TypeOK ==
    /\ IdsTypeOK /\ NamesTypeOK /\ TypesTypeOK /\ FieldsTypeOK
    /\ members \in Seq(ValuesOffered \cup {NoValue})
=============================================================================
