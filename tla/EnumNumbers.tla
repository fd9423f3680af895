---------------------------- MODULE EnumNumbers ----------------------------
(***************************************************************************)
(* The numbers of an enum's members: written in the specification or left  *)
(* out, checked by validate_enums(), numbered for the .proto files by      *)
(* generate_enums_from_spec().  C, C# and Python take them from there.     *)
(***************************************************************************)
EXTENDS Integers, Sequences

CONSTANTS
    ValuesOffered, \* what the author may write as `value'
    NoValue        \* the `value' key is missing

ASSUME ValuesAssumption == ValuesOffered \subseteq Nat /\ NoValue \notin Nat

VARIABLE members  \* the `value' of each member, in the order of the file

EnumInit == members = <<>>

WriteMember == \E v \in ValuesOffered \cup {NoValue} : members' = Append(members, v)

Explicit == {i \in DOMAIN members : members[i] # NoValue}

-----------------------------------------------------------------------------
HasZero ==
    /\ members # <<>>
    /\ members[1] \in {0, NoValue} \/ \E i \in DOMAIN members : members[i] = 0

\* Mutant: values are not compared.
ExplicitDistinct_Unchecked == TRUE

ExplicitDistinct == \A i, j \in Explicit : i # j => members[i] # members[j]

AcceptedEnum ==
    /\ HasZero
    /\ members[1] \in {0, NoValue}
    /\ ExplicitDistinct

\* The .proto files: a member without a value is one above the member before.
ProtoNumber ==
    LET number[i \in DOMAIN members] ==
            IF i \in Explicit THEN members[i]
            ELSE IF i = 1 THEN 0 ELSE number[i - 1] + 1
    IN number

-----------------------------------------------------------------------------
\* The validator compares only the values that are written (spec_validator.py:284).
\* In an enum it accepts two members have one number, which protoc refuses, exactly
\* where a member without a value counts onto a written one, before or behind it:
\* members without a value alone never meet, however many there are.
ClashesAreImplicit ==
    AcceptedEnum =>
        ((\E i, j \in DOMAIN members : i # j /\ ProtoNumber[i] = ProtoNumber[j])
            <=> \E i \in Explicit, k \in DOMAIN members \ Explicit :
                    ProtoNumber[k] = members[i])
=============================================================================
