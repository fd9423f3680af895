------------------------------ MODULE EnumNames ------------------------------
(***************************************************************************)
(* The names of enum members.  In a .proto file the members of all enums   *)
(* of a package are in one scope, so the generator writes each with a      *)
(* prefix: the one the author gives, or the name of the enum.  A name is   *)
(* the sequence of its words, "PUMP_ON" is <<"PUMP", "ON">>.               *)
(***************************************************************************)
EXTENDS Integers, SequencesExt

CONSTANTS
    Enums,       \* the enums of one package
    PrefixWords, \* what their prefixes may be, in upper case
    MemberWords, \* what the author may write as a member
    UpperWord    \* upper() of each word

ASSUME WordsAssumption ==
    /\ <<>> \notin PrefixWords \cup MemberWords
    /\ PrefixWords \cup MemberWords \subseteq Seq(DOMAIN UpperWord)

VARIABLES
    prefix, \* of each enum written so far, without the last underscore
    named   \* the members of all enums, in the order of the file

NamesInit == prefix = <<>> /\ named = <<>>

NameEnum ==
    /\ \E e \in Enums \ DOMAIN prefix, p \in PrefixWords :
        prefix' = [d \in DOMAIN prefix \cup {e} |-> IF d = e THEN p ELSE prefix[d]]
    /\ UNCHANGED named

Member == [enum : Enums, name : MemberWords]

NameMember ==
    /\ \E m \in Member : m.enum \in DOMAIN prefix /\ named' = Append(named, m)
    /\ UNCHANGED prefix

Upper(name) == [i \in DOMAIN name |-> UpperWord[name[i]]]

\* Mutant: a name gets no prefix if it begins like one.
ProtoName_AnyPrefix(m) ==
    IF \E e \in DOMAIN prefix : IsStrictPrefix(prefix[e], Upper(m.name))
    THEN Upper(m.name)
    ELSE prefix[m.enum] \o Upper(m.name)

\* apply_enum_prefix(): a name that has the prefix does not get it again.
ProtoName(m) ==
    IF IsStrictPrefix(prefix[m.enum], Upper(m.name))
    THEN Upper(m.name)
    ELSE prefix[m.enum] \o Upper(m.name)

\* validate_enums(): names are compared as they were written, enum by enum.
AcceptedNames == \A i, j \in DOMAIN named : i # j => named[i] # named[j]

-----------------------------------------------------------------------------
NamesTypeOK ==
    /\ DOMAIN prefix \subseteq Enums /\ Range(prefix) \subseteq PrefixWords
    /\ named \in Seq(Member)

\* The prefix makes m what was written for n.
AddsPrefix(m, n) ==
    /\ Upper(n.name) = prefix[m.enum] \o Upper(m.name)
    /\ ~ IsStrictPrefix(prefix[m.enum], Upper(m.name))

\* Of accepted members protoc finds two under one name only if they are of enums of
\* which one's prefix begins with the other's (PUMP and PUMP_MODE), or of one enum and
\* written alike but for capitals, or one as the other with the prefix (PUMP_ON
\* and ON, which pass without `strict'); members of one enum that are written so
\* are always found under one name.
MembersClashAsWritten ==
    AcceptedNames =>
        \A i, j \in DOMAIN named :
            LET m == named[i]
                n == named[j]
            IN  /\ m.enum # n.enum /\ ProtoName(m) = ProtoName(n) =>
                       IsPrefix(prefix[m.enum], prefix[n.enum]) \/ IsPrefix(prefix[n.enum], prefix[m.enum])
                /\ m.enum = n.enum /\ i # j =>
                       (ProtoName(m) = ProtoName(n) <=>
                            \/ m.name # n.name /\ Upper(m.name) = Upper(n.name)
                            \/ AddsPrefix(m, n) \/ AddsPrefix(n, m))
=============================================================================
