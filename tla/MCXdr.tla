------------------------------- MODULE MCXdr --------------------------------
(* Xdr for TLC: two-valued bytes, so that a word counts to 15, a small     *)
(* integer is one or two bits wide and a length of 16 overflows a word.    *)
EXTENDS Xdr

Skewed(type, value, as) == [type |-> type, value |-> value, as |-> as]
Message(type, value) == Skewed(type, value, type)

UInt32 == Scalar("uint32")
VarBytes == Scalar("var_bytes")
Text == Scalar("cstring")
Array(elt, n) == Type("array", <<elt>>, n, n * elt.elsize)
VarArray(elt) == Type("var_array", <<elt>>, 0, 2 * Pointer)
Pair == Type("struct", <<UInt32, Bytes(3)>>, 0, Unit + 3)
ArrayAndText == Type("struct", <<VarArray(UInt32), Text>>, 0, 3 * Pointer)
Either == Type("union", <<Scalar("void"), VarBytes>>, 0, Unit + 2 * Pointer)

\* Every function but the encoders of small integers and variable arrays.
Plain ==
    {Message(UInt32, 11), Message(Scalar("int32"), -6),
     Message(Scalar("int64"), -100), Message(Scalar("uint64"), 155),
     Message(Scalar("void"), 0),
     Message(VarBytes, <<>>), Message(VarBytes, <<1>>), Message(VarBytes, Zeros(16)),
     Message(Text, <<1, 1, 0, 1>>),
     Message(Array(UInt32, 2), <<1, 14>>),
     Message(Pair, <<9, <<1, 0, 1>>>>),
     Message(Either, [discr |-> 0, arm |-> 0]),
     Message(Either, [discr |-> 1, arm |-> <<0, 1>>])}

Arrays ==
    {Message(VarArray(UInt32), <<>>),
     Message(VarArray(UInt32), <<5, 12>>),
     Message(VarArray(VarBytes), <<<<1, 1, 1>>, <<>>>>),
     Message(VarArray(Text), <<<<1>>>>),
     Message(Array(Pair, 1), <<<<4, <<1, 1, 0>>>>>>)}

\* Long enough for a word to be left of one that is cut short.
LongArray == {Message(VarArray(UInt32), <<5, 12, 7, 3, 9>>)}

\* Variable arrays of elements of at most eight bytes, also where the peer takes
\* something else for one, or for a text: it finds a length that no encoder wrote.
AnyArrays ==
    {Message(VarArray(UInt32), <<>>),
     Message(VarArray(UInt32), <<5, 12>>),
     Message(VarArray(Text), <<<<1>>>>),
     Message(ArrayAndText, <<<<>>, <<1>>>>),
     Skewed(Either, [discr |-> 1, arm |-> <<0, 1>>], Text),
     Skewed(UInt32, 11, VarArray(UInt32)),
     Skewed(VarBytes, <<0, 0, 0, 1, 0, 1>>, VarArray(Pair)),
     Skewed(Array(UInt32, 2), <<1, 2>>, VarArray(Text))}

SmallIntegers ==
    {Message(Scalar("bool"), 1), Message(Scalar("int8"), -1),
     Message(Scalar("uint8"), 1), Message(Scalar("int16"), -2),
     Message(Scalar("uint16"), 3)}

\* The peer expects a narrower integer, or knows fewer arms.
Narrowed ==
    {Skewed(UInt32, 1, Scalar("uint8")), Skewed(UInt32, 4, Scalar("uint16")),
     Skewed(Scalar("int32"), -2, Scalar("int16")),
     Skewed(Scalar("int32"), -2, Scalar("int8")),
     Skewed(Scalar("int32"), -1, Scalar("bool")),
     Skewed(Either, [discr |-> 1, arm |-> <<0, 1>>],
            Type("union", <<Scalar("void")>>, 0, Unit))}

-----------------------------------------------------------------------------
(* The types that messages are of, and of each of them the values that     *)
(* occur in messages.                                                      *)

RECURSIVE TypesIn(_)
TypesIn(type) == {type} \cup UNION {TypesIn(type.of[i]) : i \in DOMAIN type.of}

\* Values of type of in a value of another.
RECURSIVE ValuesIn(_, _, _)
ValuesIn(of, type, value) ==
    (IF of = type THEN {value} ELSE {}) \cup
    CASE type.name \in {"array", "var_array"} ->
             UNION {ValuesIn(of, type.of[1], value[i]) : i \in DOMAIN value}
      [] type.name = "struct" ->
             UNION {ValuesIn(of, type.of[i], value[i]) : i \in DOMAIN value}
      [] type.name = "union" -> ValuesIn(of, type.of[value.discr + 1], value.arm)
      [] OTHER -> {}

MessageTypes == UNION {TypesIn(m.type) \cup TypesIn(m.as) : m \in Messages}
MessageValues ==
    [type \in MessageTypes |-> UNION {ValuesIn(type, m.type, m.value) : m \in Messages}]

-----------------------------------------------------------------------------

AnyPlain == Plain \cup SmallIntegers \cup Narrowed
PlainAndArrays == Plain \cup Arrays
=============================================================================
