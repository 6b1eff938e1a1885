------------------------------ MODULE XdrWire -------------------------------
(***************************************************************************)
(* The XDR types of xdr.h and xdr.c, and how their values look in memory   *)
(* and on the wire.  A byte is a digit in base Base (256 in the program),  *)
(* a word four of them, so that every width scales with Base.              *)
(***************************************************************************)
EXTENDS Integers, Sequences, SequencesExt, FiniteSetsExt

CONSTANT Base

ASSUME WireAssumption == Base \in Nat /\ Base >= 2

Byte == 0 .. Base - 1

\* How many values n bytes have, for the widths there are.
Power(n) == CASE n = 0 -> 1
              [] n = 1 -> Base
              [] n = 2 -> Base * Base
              [] n = 3 -> Base * Base * Base
              [] n = 4 -> Base * Base * Base * Base

Unit == 4                   \* sizeof(uint32_t)
WordMax == Power(Unit) - 1  \* UINT32_MAX

\* A type: what is called, on what element types, with what constant length,
\* and the size of its values in memory, elsize.  uint32 stands for float and
\* uint64 for double and size_t as well: those are copied bit by bit to and from
\* an unsigned integer.
Type(name, of, len, elsize) ==
    [name |-> name, of |-> of, len |-> len, elsize |-> elsize]

Words == {"int32", "uint32"}
Wides == {"int64", "uint64"}
Smalls == {"bool", "int8", "uint8", "int16", "uint16"}
SmallSize(name) == IF name \in {"int16", "uint16"} THEN 2 ELSE 1

Pointer == 8              \* sizeof(void *)
ScalarSize(name) == CASE name \in Words -> Unit
                      [] name \in Wides -> 2 * Unit
                      [] name \in Smalls -> SmallSize(name)
                      [] name = "void" -> 0
                      [] name = "cstring" -> Pointer
                      [] name = "var_bytes" -> 2 * Pointer  \* and its length
Scalars == Words \cup Wides \cup Smalls \cup {"void", "cstring", "var_bytes"}
Names == Scalars \cup {"bytes", "array", "var_array", "struct", "union"}
Scalar(name) == Type(name, <<>>, 0, ScalarSize(name))
Bytes(n) == Type("bytes", <<>>, n, n)

IsSigned(name) == name \in {"int8", "int16", "int32", "int64"}

\* What an unsigned n of size bytes means as an intN_t.
AsSigned(n, size) == IF n >= Power(size) \div 2 THEN n - Power(size) ELSE n

\* htonl() and the copy to the stream: most significant byte first.
Word(n) == [i \in 1 .. Unit |-> (n \div Power(Unit - i)) % Base]

\* ntohl() of a word read as an unsigned or as a signed integer.
Unsigned(word) ==
    word[1] * Power(3) + word[2] * Power(2) + word[3] * Power(1) + word[4]
Integer(word, signed) ==
    IF signed THEN AsSigned(Unsigned(word), Unit) ELSE Unsigned(word)

\* The integers that words stand for, and the words of a type.
UnsignedWords == 0 .. WordMax
SignedWords == -(Power(Unit) \div 2) .. (Power(Unit) \div 2) - 1
WordRange(name) == IF IsSigned(name) THEN SignedWords ELSE UnsignedWords

\* The halves of a 64-bit integer; >> of a negative one keeps the sign.
High(n) == n \div Power(Unit)
Low(n) == n % Power(Unit)
Wide(high, low) == high * Power(Unit) + low

\* The values a small type's decoder accepts.
SmallRange(name) ==
    CASE name = "bool" -> 0 .. 1
      [] name \in {"uint8", "uint16"} -> 0 .. Power(SmallSize(name)) - 1
      [] name \in {"int8", "int16"} ->
             -(Power(SmallSize(name)) \div 2) .. Power(SmallSize(name)) \div 2 - 1

\* The int32_t or uint32_t that the encoder of a small type finds at the address
\* of a value: on a little-endian machine the value is its low bytes, and the
\* high ones are whatever lies next to it in memory.
WordAt(value, size, beyond) == (value % Power(size)) + beyond * Power(size)

\* What strlen() leaves of a char array.
CString(chars) ==
    LET ends == {i \in DOMAIN chars : chars[i] = 0}
    IN  IF ends = {} THEN chars ELSE SubSeq(chars, 1, Min(ends) - 1)

Zeros(n) == [i \in 1 .. n |-> 0]
PadSize(len) == len % Unit
=============================================================================
