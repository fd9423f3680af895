----------------------------- MODULE BufferSizes -----------------------------
(***************************************************************************)
(* How long a message can get, and how long the server's buffers are.      *)
(* options_generator.py gives nanopb a limit for every string, byte and    *)
(* repeated field; _calculate_max_payload_size() of the server generator   *)
(* derives the size of the buffers from the same fields, by itself.        *)
(***************************************************************************)
EXTENDS Integers, Sequences

CONSTANTS
    TypesOffered,    \* the types of fields an author may write
    NumbersOffered,  \* their numbers
    CountsOffered,   \* what the author may write as `max_count'
    SizesOffered,    \* what the author may write as `max_size' or `max_length'
    DefaultsOffered, \* what the author may write in `config'
    NotGiven         \* the key is missing

HeaderBytes == 6
Width16 == 65536

\* The longest varint or fixed value of a scalar (an enum under its own name counts
\* as one), and what the sizing counts for it, its tag included.
Scalars == {"uint32", "int32", "uint64", "fixed64", "float", "bool", "enum"}
Longest == [uint32 |-> 5, int32 |-> 10, uint64 |-> 10, fixed64 |-> 8, float |-> 4, bool |-> 1,
            enum |-> 10]
Counted == [uint32 |-> 5, int32 |-> 5, uint64 |-> 10, fixed64 |-> 10, float |-> 5, bool |-> 2,
            enum |-> 64]
Texts == {"string", "bytes"}

ASSUME LimitsAssumption ==
    /\ TypesOffered \subseteq Scalars \cup Texts \cup {"message"}
    /\ NumbersOffered \subseteq Nat \ {0} /\ CountsOffered \subseteq Nat
    /\ SizesOffered \subseteq Nat \ {0} /\ DefaultsOffered \subseteq Nat \ {0}
    /\ NotGiven \notin Nat

VARIABLES
    config, \* the author's default_string_max_size and its like
    fields  \* the fields of a message

Field ==
    {f \in [type : TypesOffered, number : NumbersOffered, repeated : BOOLEAN, oneof : BOOLEAN,
            max_count : CountsOffered \cup {NotGiven},
            max_size : SizesOffered \cup {NotGiven},
            max_length : SizesOffered \cup {NotGiven}] :
        /\ ~ f.repeated => f.max_count = NotGiven
        /\ f.type \notin Texts => f.max_size = NotGiven /\ f.max_length = NotGiven
        /\ f.oneof => ~ f.repeated}

Settings == [{"string", "bytes", "array"} -> DefaultsOffered \cup {NotGiven}]

FieldsInit ==
    /\ config = [key \in {"string", "bytes", "array"} |-> NotGiven]
    /\ fields = <<>>

WriteConfig ==
    /\ \E key \in {"string", "bytes", "array"}, n \in DefaultsOffered :
            config' = [config EXCEPT ![key] = n]
    /\ UNCHANGED fields

\* The numbers of a message's fields differ (spec_validator.py:200).
WriteField ==
    /\ \E f \in Field :
            /\ \A i \in DOMAIN fields : fields[i].number # f.number
            /\ fields' = Append(fields, f)
    /\ UNCHANGED config

Total(sizes) ==
    LET sum[i \in 0 .. Len(sizes)] == IF i = 0 THEN 0 ELSE sum[i - 1] + sizes[i]
    IN sum[Len(sizes)]

-----------------------------------------------------------------------------
(* options_generator.py: what nanopb allots, and what it may then encode.   *)

Standard == [string |-> 64, bytes |-> 64, array |-> 16]

\* config.get(..., 64): what a field gets that gives no limit of its own.
Default(key) == IF config[key] = NotGiven THEN Standard[key] ELSE config[key]

Unlimited(f) == f.max_size = NotGiven /\ f.max_length = NotGiven

\* nanopb (external): the longest content.  Of a string `max_length' goes first, and
\* `max_size' counts the terminator; bytes know only `max_size'.
Content(f) ==
    IF f.type = "string" /\ f.max_length # NotGiven THEN f.max_length
    ELSE LET size == IF Unlimited(f) THEN Default(f.type) ELSE f.max_size
         IN  IF f.type = "string" THEN size - 1 ELSE size

\* Bytes of which only `max_length' is given, and messages: no limit to tell.
Endless(f) ==
    \/ f.type = "message"
    \/ f.type = "bytes" /\ f.max_size = NotGiven /\ ~ Unlimited(f)

Elements(f) ==
    IF ~ f.repeated THEN 1 ELSE IF f.max_count = NotGiven THEN Default("array") ELSE f.max_count

VarintBytes(n) == IF n < 128 THEN 1 ELSE IF n < 16384 THEN 2 ELSE IF n < 2097152 THEN 3 ELSE 4

TagBytes(number) ==
    IF number < 16 THEN 1 ELSE IF number < 2048 THEN 2 ELSE IF number < 262144 THEN 3
    ELSE IF number < 33554432 THEN 4 ELSE 5

Delimited(f, n) == TagBytes(f.number) + VarintBytes(n) + n

\* Repeated scalars are packed.
Encoded(f) ==
    CASE Endless(f) -> 0
      [] f.type \in Texts /\ ~ Endless(f) -> Elements(f) * Delimited(f, Content(f))
      [] f.type \in Scalars /\ f.repeated -> Delimited(f, Elements(f) * Longest[f.type])
      [] f.type \in Scalars /\ ~ f.repeated -> TagBytes(f.number) + Longest[f.type]

EncodedLen == Total([i \in DOMAIN fields |-> Encoded(fields[i])])

-----------------------------------------------------------------------------
(* server/generator.py *)

\* Mutant: an element of a repeated field is counted once.
CountOf_Once(f) == 1

CountOf(f) == IF f.repeated /\ f.max_count # NotGiven THEN f.max_count ELSE 1

\* `max_length' goes first, and what `config' says is not looked at.
TextLen(f) ==
    IF f.max_length # NotGiven THEN f.max_length
    ELSE IF f.max_size # NotGiven THEN f.max_size ELSE 64

BaseLen(f) ==
    CASE f.type = "message" -> 64
      [] f.type \in Texts -> TextLen(f) + 2
      [] f.type \in Scalars -> Counted[f.type]

\* Only `fields' are looked at, not those of a oneof.
LenOf(f) == IF f.oneof THEN 0 ELSE BaseLen(f) * CountOf(f)

MaxPayload ==
    LET sum == Total([i \in DOMAIN fields |-> LenOf(fields[i])])
    IN IF sum > 64 THEN sum ELSE 64

BufferSize ==
    LET n == MaxPayload + 64
        atLeast == IF n < 256 THEN 256 ELSE n
    IN ((atLeast + 63) \div 64) * 64

\* windrpc_buffer.tx_size has 16 bits, and so has PAYLOAD_LEN.
TxSize == BufferSize % Width16
PayloadLen(n) == n % Width16

-----------------------------------------------------------------------------
FieldsTypeOK == config \in Settings /\ fields \in Seq(Field)

\* nanopb allots no more than the sizing counts: a default above its own 64 does,
\* and so do bytes whose `max_length' is below their `max_size' or alone.
CountedInFull(f) ==
    /\ f.type = "string" /\ Unlimited(f) => Default("string") <= 65
    /\ f.type = "bytes" /\ Unlimited(f) => Default("bytes") <= 64
    /\ f.type = "bytes" /\ ~ Unlimited(f) =>
        f.max_size # NotGiven /\ (f.max_length # NotGiven => f.max_size <= f.max_length)

\* The sizing looks at the field and at each of its elements: no nested message, no
\* oneof, a limit it knows; in lists, `max_count' given or at most one by default, no
\* negative numbers, no text whose tag or length takes two bytes.
Sized(f) ==
    /\ f.type # "message" /\ ~ f.oneof /\ f.number < 2048
    /\ CountedInFull(f)
    /\ f.repeated =>
        /\ f.max_count # NotGiven \/ Default("array") <= 1
        /\ f.type # "int32"
        /\ f.type \in Texts => f.number < 16 /\ Content(f) < 128

\* A message of up to eight fields, all of which the sizing looks at, can be encoded
\* behind the header whatever it holds, and its length fits PAYLOAD_LEN; unless
\* the buffer's own size does not fit 16 bits.  What a field takes beyond what is
\* counted (its tag, a length of more bytes, an int32 below zero) comes out of the
\* 64 bytes kept for header and overhead (server/generator.py:899).
SizedMessagesFit ==
    /\ Len(fields) <= 8 /\ \A i \in DOMAIN fields : Sized(fields[i])
    /\ BufferSize < Width16
    => /\ HeaderBytes + EncodedLen <= TxSize
       /\ PayloadLen(EncodedLen) = EncodedLen
=============================================================================
