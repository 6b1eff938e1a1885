----------------------------- MODULE XdrProofs ------------------------------
(***************************************************************************)
(* Xdr.tla for every base, size of the array, collection of types and      *)
(* values, and whatever the peer finds in the stream: calls stay within    *)
(* the array and change nothing that was written before.                   *)
(***************************************************************************)
EXTENDS Xdr, SequenceLemmas

-----------------------------------------------------------------------------
(* Words and wide integers survive the wire, for every base: what the      *)
(* decoders of xdr.c and xdr.h compute is what was encoded.                *)

LEMMA Powers ==
    /\ Power(0) = 1
    /\ Power(1) = Base
    /\ Power(2) = Base * Base
    /\ Power(3) = Base * Base * Base
    /\ Power(4) = Base * Base * Base * Base
BY DEF Power

LEMMA ProductPositive ==
    \A m, n \in Nat \ {0} : m * n \in Nat \ {0}
OBVIOUS

LEMMA PowersPositive ==
    /\ Base \in Nat \ {0}
    /\ Power(0) \in Nat \ {0}
    /\ Power(1) \in Nat \ {0}
    /\ Power(2) \in Nat \ {0}
    /\ Power(3) \in Nat \ {0}
    /\ Power(4) \in Nat \ {0}
<1>1. Base \in Nat \ {0}
  BY WireAssumption
<1>2. Base * Base \in Nat \ {0}
  BY <1>1, ProductPositive
<1>3. Base * Base * Base \in Nat \ {0}
  BY <1>1, <1>2, ProductPositive
<1>4. Base * Base * Base * Base \in Nat \ {0}
  BY <1>1, <1>3, ProductPositive
<1>. QED
  BY <1>1, <1>2, <1>3, <1>4, Powers

\* Division with remainder.
LEMMA Division ==
    ASSUME NEW n \in Int, NEW d \in Nat \ {0}
    PROVE  /\ n \div d \in Int
           /\ n % d \in 0 .. d - 1
           /\ n = ((n \div d) * d) + (n % d)
OBVIOUS

\* ... is determined by its result.
LEMMA DivisionUnique ==
    ASSUME NEW d \in Nat \ {0}, NEW q \in Int, NEW r \in 0 .. d - 1
    PROVE  ((q * d) + r) \div d = q /\ ((q * d) + r) % d = r
OBVIOUS

LEMMA RemainderIs ==
    ASSUME NEW d \in Nat \ {0}, NEW q \in Int, NEW r \in 0 .. d - 1,
           NEW n, n = (q * d) + r
    PROVE  n % d = r
BY DivisionUnique

LEMMA WordIsBytes ==
    ASSUME NEW n \in Int
    PROVE  Word(n) \in Seq(Byte) /\ Len(Word(n)) = Unit
<1>1. \A i \in 1 .. 4 : Power(4 - i) \in Nat \ {0}
  BY PowersPositive, 4 - 1 = 3, 4 - 2 = 2, 4 - 3 = 1, 4 - 4 = 0
<1>2. \A i \in 1 .. 4 : (n \div Power(4 - i)) % Base \in Byte
  BY <1>1, Division, PowersPositive DEF Byte
<1>3. Word(n) \in [1 .. 4 -> Byte]
  BY <1>2 DEF Word, Unit
<1>. QED
  BY <1>3, FunctionIsSeq DEF Unit

\* What encoders make of an integer are integers.
LEMMA PartsAreIntegers ==
    ASSUME NEW n \in Int
    PROVE  /\ High(n) \in Int
           /\ Low(n) \in Int
           /\ \A size \in {1, 2}, beyond \in Int : WordAt(n, size, beyond) \in Int
<1>. DEFINE P == Power(4)
<1>1. P \in Nat \ {0}
  BY PowersPositive
<1>. HIDE DEF P
<1>2. n \div P \in Int /\ n % P \in Int
  BY <1>1, Division
<1>3. ASSUME NEW size \in {1, 2}, NEW beyond \in Int
      PROVE  WordAt(n, size, beyond) \in Int
  <2>. DEFINE Q == Power(size)
  <2>1. Q \in Nat \ {0}
    BY PowersPositive
  <2>. HIDE DEF Q
  <2>2. n % Q \in Int /\ beyond * Q \in Int
    BY <2>1, Division
  <2>3. WordAt(n, size, beyond) = (n % Q) + (beyond * Q)
    BY DEF WordAt, Q
  <2>. QED
    BY <2>2, <2>3
<1>. QED
  BY <1>2, <1>3 DEF High, Low, Unit, P

\* Any four bytes are the word of some number.
LEMMA UnsignedInWord ==
    ASSUME NEW w, w[1] \in 0 .. Base - 1, w[2] \in 0 .. Base - 1,
           w[3] \in 0 .. Base - 1, w[4] \in 0 .. Base - 1
    PROVE  Unsigned(w) \in 0 .. WordMax
<1>. DEFINE p1 == Power(1)
            p2 == Power(2)
            p3 == Power(3)
            p4 == Power(4)
<1>1. /\ p1 \in Nat \ {0} /\ p2 \in Nat \ {0} /\ p3 \in Nat \ {0} /\ p4 \in Nat \ {0}
      /\ p1 = Base /\ Base \in Nat \ {0}
  BY Powers, PowersPositive
<1>2. p2 = Base * p1 /\ p3 = Base * p2 /\ p4 = Base * p3
  BY Powers, WireAssumption
<1>. HIDE DEF p1, p2, p3, p4
<1>3. \A p \in Nat \ {0} : \A d \in 0 .. Base - 1 :
          d * p \in Nat /\ d * p <= (Base * p) - p
  <2>. SUFFICES ASSUME NEW p \in Nat \ {0}, NEW d \in 0 .. Base - 1
                PROVE  d * p \in Nat /\ d * p <= (Base * p) - p
    OBVIOUS
  <2>1. d * p \in Nat /\ d * p <= (Base - 1) * p
    BY <1>1
  <2>. QED
    BY <1>1, <2>1
<1>4. /\ w[1] * p3 \in Nat /\ w[1] * p3 <= p4 - p3
      /\ w[2] * p2 \in Nat /\ w[2] * p2 <= p3 - p2
      /\ w[3] * p1 \in Nat /\ w[3] * p1 <= p2 - p1
  BY <1>1, <1>2, <1>3
<1>5. Unsigned(w) = (w[1] * p3) + (w[2] * p2) + (w[3] * p1) + w[4]
  BY DEF Unsigned, p1, p2, p3
<1>6. WordMax = p4 - 1
  BY DEF WordMax, Unit, p4
<1>. QED
  BY <1>1, <1>4, <1>5, <1>6

-----------------------------------------------------------------------------
(* What comes out of a word is what went in.                               *)

\* The digits of a number up to one and that one make the number up to it.
LEMMA OneMoreDigit ==
    ASSUME NEW n \in Int, NEW d \in Nat \ {0}, NEW b \in Nat \ {0}
    PROVE  (((n \div d) % b) * d) + (n % d) = n % (d * b)
<1>. DEFINE q == n \div d
            r == n % d
            high == q \div b
            digit == q % b
<1>1. q \in Int /\ r \in 0 .. d - 1 /\ n = (q * d) + r
  BY Division
<1>2. high \in Int /\ digit \in 0 .. b - 1 /\ q = (high * b) + digit
  BY <1>1, Division
<1>. HIDE DEF q, r, high, digit
<1>3. d * b \in Nat \ {0}
  BY ProductPositive
<1>4. (digit * d) + r \in 0 .. (d * b) - 1
  <2>1. digit * d \in Nat /\ digit * d <= (b - 1) * d
    BY <1>2
  <2>2. (b - 1) * d = (d * b) - d
    OBVIOUS
  <2>3. d * b \in Nat
    OBVIOUS
  <2>. QED
    BY <1>1, <2>1, <2>2, <2>3
<1>5. n = (high * (d * b)) + ((digit * d) + r)
  <2>1. q * d = (high * (d * b)) + (digit * d)
    BY <1>2
  <2>. QED
    BY <1>1, <1>2, <2>1
<1>6. n % (d * b) = (digit * d) + r
  BY <1>2, <1>3, <1>4, <1>5, DivisionUnique
<1>. QED
  BY <1>6 DEF digit, q, r

\* htonl() keeps the low bytes of a number, and ntohl() finds them.
LEMMA WordHolds ==
    ASSUME NEW n \in Int
    PROVE  Unsigned(Word(n)) = n % Power(Unit)
<1>1. /\ Word(n)[1] = (n \div Power(3)) % Base
      /\ Word(n)[2] = (n \div Power(2)) % Base
      /\ Word(n)[3] = (n \div Power(1)) % Base
      /\ Word(n)[4] = (n \div Power(0)) % Base
  BY 4 - 1 = 3, 4 - 2 = 2, 4 - 3 = 1, 4 - 4 = 0 DEF Word, Unit
<1>2. \A d \in Nat \ {0} : (((n \div d) % Base) * d) + (n % d) = n % (d * Base)
  BY OneMoreDigit, PowersPositive
<1>3. \A d \in Nat \ {0} : (((n \div d) % Base) * d) \in Int /\ n % d \in Int
  BY Division, PowersPositive
<1>4. n \div Power(0) = n
  BY Powers
<1>. DEFINE d3 == Word(n)[1] * Power(3)
            d2 == Word(n)[2] * Power(2)
            d1 == Word(n)[3] * Power(1)
            d0 == Word(n)[4]
<1>5. d3 + (n % Power(3)) = n % Power(4) /\ d3 \in Int
  BY <1>1, <1>2, <1>3, Powers, PowersPositive
<1>6. d2 + (n % Power(2)) = n % Power(3) /\ d2 \in Int
  BY <1>1, <1>2, <1>3, Powers, PowersPositive
<1>7. d1 + (n % Power(1)) = n % Power(2) /\ d1 \in Int
  BY <1>1, <1>2, <1>3, Powers, PowersPositive
<1>8. d0 = n % Power(1) /\ d0 \in Int
  BY <1>1, <1>3, <1>4, Powers, PowersPositive
<1>9. Unsigned(Word(n)) = d3 + d2 + d1 + d0
  BY DEF Unsigned
<1>. HIDE DEF d0, d1, d2, d3
<1>10. /\ n % Power(1) \in Int /\ n % Power(2) \in Int
       /\ n % Power(3) \in Int /\ n % Power(4) \in Int
  BY <1>3, PowersPositive
<1>. QED
  BY <1>5, <1>6, <1>7, <1>8, <1>9, <1>10 DEF Unit

\* An integer that a word can stand for is decoded as it was encoded
\* (xdr.h:129-169).
THEOREM WordsSurvive ==
    /\ \A n \in UnsignedWords : Integer(Word(n), FALSE) = n
    /\ \A n \in SignedWords : Integer(Word(n), TRUE) = n
<1>. DEFINE P == Power(4)
<1>0. P \in Nat \ {0}
  BY PowersPositive
<1>1. \A n \in Int : Unsigned(Word(n)) = n % P
  BY WordHolds DEF Unit
<1>2. WordMax = P - 1
  BY DEF WordMax, Unit
<1>. HIDE DEF P
<1>3. ASSUME NEW n \in UnsignedWords PROVE Integer(Word(n), FALSE) = n
  <2>1. n \in 0 .. P - 1
    BY <1>2 DEF UnsignedWords
  <2>2. n = (0 * P) + n
    BY <1>0, <2>1
  <2>3. n % P = n
    BY <1>0, <2>1, <2>2, DivisionUnique
  <2>. QED
    BY <1>1, <2>1, <2>3 DEF Integer
<1>4. ASSUME NEW n \in Int, n \in SignedWords PROVE Integer(Word(n), TRUE) = n
  <2>. DEFINE half == P \div 2
  <2>1. half \in Nat /\ 2 * half <= P
    BY <1>0
  <2>2. n \in -half .. half - 1
    BY <1>4 DEF SignedWords, P, Unit
  <2>. HIDE DEF half
  <2>. DEFINE decoded == Integer(Word(n), TRUE)
  <2>4. decoded = IF n % P >= half THEN (n % P) - P ELSE n % P
    BY <1>1 DEF Integer, AsSigned, Unit, P, half
  <2>. HIDE DEF decoded
  <2>5. ASSUME n >= 0 PROVE decoded = n
    <3>1. n \in 0 .. P - 1 /\ n < half /\ n = (0 * P) + n
      BY <1>0, <2>1, <2>2, <2>5
    <3>2. n % P = n
      BY <1>0, <3>1, DivisionUnique
    <3>. QED
      BY <1>0, <2>1, <2>4, <3>1, <3>2
  <2>6. ASSUME n < 0 PROVE decoded = n
    <3>1. n + P \in 0 .. P - 1 /\ n + P >= half /\ n = ((-1) * P) + (n + P)
      BY <1>0, <2>1, <2>2, <2>6
    <3>2. n % P = n + P
      BY <1>0, <3>1, -1 \in Int, RemainderIs
    <3>. QED
      BY <1>0, <2>1, <2>4, <3>1, <3>2
  <2>7. decoded = n
    BY <2>5, <2>6
  <2>. QED
    BY <2>7 DEF decoded
<1>5. \A n \in SignedWords : n \in Int
  BY <1>0 DEF SignedWords, P, Unit
<1>. QED
  BY <1>3, <1>4, <1>5

\* A 64-bit integer is decoded as it was encoded, its high half with a sign or
\* without one and its low half without (xdr.c:243-310).
THEOREM WidesSurvive ==
    ASSUME NEW n \in Int, NEW signed \in BOOLEAN,
           High(n) \in IF signed THEN SignedWords ELSE UnsignedWords
    PROVE  Wide(Integer(Word(High(n)), signed), Unsigned(Word(Low(n)))) = n
<1>. DEFINE P == Power(4)
<1>0. P \in Nat \ {0}
  BY PowersPositive
<1>1. n = ((n \div P) * P) + (n % P) /\ n % P \in 0 .. P - 1
  BY <1>0, Division
<1>2. Integer(Word(High(n)), signed) = n \div P
  BY WordsSurvive DEF High, Unit
<1>3. Low(n) = n % P
  BY DEF Low, Unit
<1>4. Unsigned(Word(n % P)) = n % P
  <2>1. n % P \in UnsignedWords
    BY <1>1 DEF UnsignedWords, WordMax, Unit
  <2>. QED
    BY <2>1, WordsSurvive DEF Integer
<1>. QED
  BY <1>1, <1>2, <1>3, <1>4 DEF Wide, Unit

-----------------------------------------------------------------------------
(* What calls there are, and the invariant.                                *)

\* The calls that may be waiting: on one side those of clients, on values of
\* theirs, and those that encoders make ...
ClientValues == UNION {Values[type] : type \in Types}
ClientCalls ==
    {c \in [type : Types, arg : ClientValues] : c.arg \in Values[c.type]}
WriterCalls ==
    ClientCalls
        \cup {Call(Bytes(Len(bytes)), bytes) : bytes \in Seq(Byte)}
        \cup {Put(bytes) : bytes \in Seq(Byte)}
        \cup {Length(n) : n \in Nat}

\* ... on the other those that decode to some place, or the rest of a wide
\* integer, or nowhere.
Place == [obj : Nat, off : Nat]
ReaderCalls ==
    {Pending(type, at) : type \in Types, at \in Place}
        \cup {Step(name, len, at) :
                 name \in {"bytes", "chars", "blob", "string", "nul", "pointer"},
                 len \in Nat, at \in Place}
        \cup {Step("low", 0, high) : high \in Int}
        \cup {Step("pad", len, NULL) : len \in Nat}

Waiting == IF phase = "writer" THEN WriterCalls ELSE ReaderCalls

StreamOK ==
    /\ mem \in [1 .. Limit -> Byte]
    /\ stream \in [pos : 0 .. Limit, data : 0 .. Limit, limit : 0 .. Limit]
    /\ StreamInBounds

Items == [values : Seq(Seq(Int)), end : Nat]

\* The inductive invariant.
IInv ==
    /\ TypeOK
    /\ StreamInBounds
    /\ todo \in Seq(Waiting)
    /\ script \in Seq(Types)
    /\ received \in Seq(Items)
    /\ phase = "writer" /\ call # NULL => peer \in Types

-----------------------------------------------------------------------------
(* What can be waiting.                                                    *)

LEMMA IsTypeOf ==
    ASSUME NEW type \in Types
    PROVE  /\ type.name \in Names
           /\ type.of \in Seq(Types)
           /\ type.len \in Nat
           /\ type.elsize \in Nat
BY TypesAssumption, XdrAssumption DEF IsType

\* The fields of calls.
LEMMA CallFields ==
    /\ \A type, arg : Call(type, arg).type = type /\ Call(type, arg).arg = arg
    /\ \A name, len, arg :
           /\ Step(name, len, arg).type = Type(name, <<>>, len, len)
           /\ Step(name, len, arg).type.name = name
           /\ Step(name, len, arg).type.len = len
           /\ Step(name, len, arg).type.elsize = len
           /\ Step(name, len, arg).arg = arg
BY DEF Call, Step, Type

LEMMA WriterCallIs ==
    ASSUME NEW c \in WriterCalls
    PROVE  \/ c.type \in Types /\ c.arg \in Values[c.type] /\ c.type.name \in Names
           \/ c.type.name = "bytes" /\ c.arg \in Seq(Byte) /\ c.type.len = Len(c.arg)
           \/ c.type.name = "put" /\ c.arg \in Seq(Byte)
           \/ c.type.name = "length" /\ c.arg \in Nat
<1>1. CASE c \in ClientCalls
  BY <1>1, IsTypeOf DEF ClientCalls
<1>2. CASE \E bytes \in Seq(Byte) : c = Call(Bytes(Len(bytes)), bytes)
  BY <1>2, CallFields DEF Bytes, Type
<1>3. CASE \E bytes \in Seq(Byte) : c = Put(bytes)
  BY <1>3, CallFields DEF Put
<1>4. CASE \E n \in Nat : c = Length(n)
  BY <1>4, CallFields DEF Length
<1>. QED
  BY <1>1, <1>2, <1>3, <1>4 DEF WriterCalls

LEMMA WriterCallMade ==
    /\ \A type \in Types : \A value \in Values[type] : Call(type, value) \in WriterCalls
    /\ \A bytes \in Seq(Byte) : /\ Call(Bytes(Len(bytes)), bytes) \in WriterCalls
                                /\ Put(bytes) \in WriterCalls
    /\ \A n \in Nat : Length(n) \in WriterCalls
<1>1. ASSUME NEW type \in Types, NEW value \in Values[type]
      PROVE  Call(type, value) \in ClientCalls
  <2>1. value \in ClientValues
    BY DEF ClientValues
  <2>. QED
    BY <2>1 DEF Call, ClientCalls
<1>. QED
  BY <1>1 DEF WriterCalls

LEMMA ReaderCallIs ==
    ASSUME NEW c \in ReaderCalls
    PROVE  \/ c.type \in Types /\ c.type.name \in Names /\ c.arg \in Place
           \/ /\ c.type.name \in {"bytes", "chars", "blob", "string", "nul", "pointer"}
              /\ c.type.len \in Nat
              /\ c.arg \in Place
           \/ c.type.name = "low" /\ c.arg \in Int
           \/ c.type.name = "pad" /\ c.type.len \in Nat
<1>1. CASE \E type \in Types, at \in Place : c = Pending(type, at)
  BY <1>1, CallFields, IsTypeOf DEF Pending
<1>2. CASE \E name \in {"bytes", "chars", "blob", "string", "nul", "pointer"},
              len \in Nat, at \in Place : c = Step(name, len, at)
  BY <1>2, CallFields
<1>3. CASE \E high \in Int : c = Step("low", 0, high)
  BY <1>3, CallFields
<1>4. CASE \E len \in Nat : c = Step("pad", len, NULL)
  BY <1>4, CallFields
<1>. QED
  BY <1>1, <1>2, <1>3, <1>4 DEF ReaderCalls

LEMMA ReaderCallMade ==
    /\ \A type \in Types, at \in Place : Pending(type, at) \in ReaderCalls
    /\ \A name \in {"bytes", "chars", "blob", "string", "nul", "pointer"},
          len \in Nat, at \in Place : Step(name, len, at) \in ReaderCalls
    /\ \A high \in Int : Step("low", 0, high) \in ReaderCalls
    /\ \A len \in Nat : Step("pad", len, NULL) \in ReaderCalls
BY DEF ReaderCalls

-----------------------------------------------------------------------------
(* Moving bytes.                                                           *)

\* The callback advances data, and its caller pos.
LEMMA Advancing ==
    ASSUME NEW n \in Nat, n <= stream.limit - stream.pos,
           stream \in [pos : 0 .. Limit, data : 0 .. Limit, limit : 0 .. Limit],
           stream.data = stream.pos,
           stream' = [stream EXCEPT !.data = @ + n, !.pos = stream.pos + n]
    PROVE  /\ stream' \in [pos : 0 .. Limit, data : 0 .. Limit, limit : 0 .. Limit]
           /\ stream'.data = stream.data + n
           /\ stream'.pos = stream.pos + n
           /\ stream'.limit = stream.limit
<1>1. /\ stream' = [pos |-> stream.pos + n, data |-> stream.data + n, limit |-> stream.limit]
      /\ stream.pos \in 0 .. Limit /\ stream.limit \in 0 .. Limit
  OBVIOUS
<1>2. stream.pos + n \in 0 .. Limit
  BY <1>1, XdrAssumption
<1>. QED
  BY <1>1, <1>2

\* What tn_xdr_write_to_stream() does to the array and the stream.
LEMMA Writing ==
    ASSUME StreamOK, NEW bytes \in Seq(Byte),
           stream.limit - stream.pos >= Len(bytes),
           mem' = Overwritten(bytes),
           stream' = tn_xdr_mem_writer(bytes, stream.pos + Len(bytes)),
           UNCHANGED <<phase, wire>>
    PROVE  StreamOK' /\ \A i \in 1 .. stream.pos : mem'[i] = mem[i]
<1>1. Len(bytes) \in Nat /\ DOMAIN bytes = 1 .. Len(bytes)
  BY LenProperties
<1>2. /\ Limit \in Nat
      /\ stream \in [pos : 0 .. Limit, data : 0 .. Limit, limit : 0 .. Limit]
      /\ stream.data = stream.pos
      /\ stream.pos <= stream.limit
      /\ phase = "reader" => stream.limit <= wire
  BY XdrAssumption DEF StreamOK, StreamInBounds
<1>3. /\ stream' \in [pos : 0 .. Limit, data : 0 .. Limit, limit : 0 .. Limit]
      /\ stream'.data = stream'.pos
      /\ stream'.pos <= stream'.limit
      /\ stream'.limit = stream.limit
  <2>. DEFINE n == Len(bytes)
  <2>1. stream' = [stream EXCEPT !.data = @ + n, !.pos = stream.pos + n]
    BY DEF tn_xdr_mem_writer
  <2>2. n \in Nat /\ n <= stream.limit - stream.pos
    BY <1>1, <1>2
  <2>. HIDE DEF n
  <2>3. /\ stream' \in [pos : 0 .. Limit, data : 0 .. Limit, limit : 0 .. Limit]
        /\ stream'.data = stream.data + n
        /\ stream'.pos = stream.pos + n
        /\ stream'.limit = stream.limit
    BY <1>2, <2>1, <2>2, Advancing
  <2>. QED
    BY <1>2, <2>2, <2>3
<1>4. \A k \in 1 .. Len(bytes) : bytes[k] \in Byte
  BY ElementOfSeq
<1>5. mem' \in [1 .. Limit -> Byte]
  BY <1>1, <1>4 DEF Overwritten, StreamOK
<1>6. ASSUME NEW i \in 1 .. stream.pos PROVE mem'[i] = mem[i]
  <2>1. i \in 1 .. Limit /\ i - stream.data \notin 1 .. Len(bytes)
    BY <1>1, <1>2
  <2>. QED
    BY <1>1, <2>1 DEF Overwritten
<1>. QED
  BY <1>2, <1>3, <1>5, <1>6 DEF StreamOK, StreamInBounds

\* What tn_xdr_read_from_stream() reads, and what it does.
LEMMA BytesAhead ==
    ASSUME StreamOK, NEW sz \in Nat, Reads(sz)
    PROVE  Ahead(sz) \in Seq(Byte) /\ Len(Ahead(sz)) = sz
<1>1. /\ Limit \in Nat
      /\ stream \in [pos : 0 .. Limit, data : 0 .. Limit, limit : 0 .. Limit]
      /\ stream.data = stream.pos
      /\ mem \in [1 .. Limit -> Byte]
  BY XdrAssumption DEF StreamOK, StreamInBounds
<1>2. stream.limit - stream.pos >= sz
  BY DEF Reads
<1>3. \A i \in 1 .. sz : stream.data + i \in 1 .. Limit
  BY <1>1, <1>2
<1>4. Ahead(sz) \in [1 .. sz -> Byte]
  BY <1>1, <1>3 DEF Ahead
<1>. QED
  BY <1>4, FunctionIsSeq

LEMMA Reading ==
    ASSUME StreamOK, NEW sz \in Nat, Reads(sz), UNCHANGED <<mem, phase, wire>>
    PROVE  StreamOK'
<1>2. /\ Limit \in Nat
      /\ stream \in [pos : 0 .. Limit, data : 0 .. Limit, limit : 0 .. Limit]
      /\ stream.data = stream.pos
      /\ stream.pos <= stream.limit
      /\ phase = "reader" => stream.limit <= wire
      /\ mem \in [1 .. Limit -> Byte]
  BY XdrAssumption DEF StreamOK, StreamInBounds
<1>3. stream.limit - stream.pos >= sz
  BY DEF Reads
<1>4. /\ stream' \in [pos : 0 .. Limit, data : 0 .. Limit, limit : 0 .. Limit]
      /\ stream'.data = stream'.pos
      /\ stream'.pos <= stream'.limit
      /\ stream'.limit = stream.limit
  <2>1. stream' = [stream EXCEPT !.data = @ + sz, !.pos = stream.pos + sz]
    BY DEF Reads, tn_xdr_mem_reader
  <2>2. sz <= stream.limit - stream.pos
    BY <1>2, <1>3
  <2>3. /\ stream' \in [pos : 0 .. Limit, data : 0 .. Limit, limit : 0 .. Limit]
        /\ stream'.data = stream.data + sz
        /\ stream'.pos = stream.pos + sz
        /\ stream'.limit = stream.limit
    BY <1>2, <2>1, <2>2, Advancing
  <2>. QED
    BY <1>2, <2>2, <2>3
<1>. QED
  BY <1>2, <1>4 DEF StreamOK, StreamInBounds

LEMMA SameStream ==
    ASSUME StreamOK, UNCHANGED <<mem, stream, phase, wire>>
    PROVE  StreamOK'
BY DEF StreamOK, StreamInBounds

\* The word that Reads(Unit) reads, as a number.
LEMMA WordAhead ==
    ASSUME StreamOK, Reads(Unit)
    PROVE  /\ Unsigned(AheadWord) \in 0 .. WordMax
           /\ \A signed \in BOOLEAN : Integer(AheadWord, signed) \in Int
<1>1. AheadWord \in Seq(Byte) /\ Len(AheadWord) = 4
  BY BytesAhead DEF AheadWord, Unit
<1>. DEFINE w == AheadWord
<1>2. /\ w[1] \in 0 .. Base - 1 /\ w[2] \in 0 .. Base - 1
      /\ w[3] \in 0 .. Base - 1 /\ w[4] \in 0 .. Base - 1
  <2>1. \A i \in 1 .. 4 : w[i] \in Byte
    BY <1>1, ElementOfSeq
  <2>. QED
    BY <2>1 DEF Byte
<1>. HIDE DEF w
<1>3. Unsigned(w) \in 0 .. WordMax
  BY <1>2, UnsignedInWord
<1>4. Unsigned(w) \in Int /\ Power(4) \in Int
  BY <1>3, PowersPositive DEF WordMax, Unit
<1>. DEFINE signedValue == Integer(w, TRUE)
            unsignedValue == Integer(w, FALSE)
<1>5. signedValue \in Int
  BY <1>4 DEF Integer, AsSigned, Unit
<1>6. unsignedValue \in Int
  BY <1>4 DEF Integer
<1>. QED
  BY <1>1, <1>3, <1>5, <1>6 DEF w

-----------------------------------------------------------------------------
(* What every step of a call comes to.                                     *)

LEMMA FromIInv ==
    ASSUME IInv, todo # <<>>
    PROVE  /\ StreamOK
           /\ call # NULL
           /\ Next1 \in Waiting
           /\ phase = "writer" => peer \in Types
           /\ phase \in {"writer", "reader"}
<1>1. StreamOK
  BY DEF IInv, TypeOK, StreamOK
<1>2. call # NULL /\ phase \in {"writer", "reader"}
  BY DEF IInv, TypeOK
<1>3. Next1 \in Waiting
  BY HeadTailProperties DEF IInv, Next1
<1>. QED
  BY <1>1, <1>2, <1>3 DEF IInv

Objects == [size : 0 .. SizeMod - 1, scanned : BOOLEAN, unread : BOOLEAN]

LEMMA Allocating ==
    ASSUME IInv, todo # <<>>, StreamOK',
           NEW to \in Seq(Objects), NEW calls \in Seq(Waiting),
           NEW values \in Seq(Seq(Int)),
           Allocates(to, calls, values)
    PROVE  IInv'
<1>1. /\ todo' = calls \o Tail(todo)
      /\ part' = part \o values
      /\ objects' = to
      /\ UNCHANGED <<phase, call, rc, start, peer, script, sent, acked, wire, received>>
  BY DEF Allocates
<1>2. Waiting' = Waiting
  BY <1>1 DEF Waiting
<1>3. todo' \in Seq(Waiting)
  BY <1>1, Replaced DEF IInv
<1>4. part' \in Seq(Seq(Int))
  BY <1>1, ConcatProperties DEF IInv, TypeOK
<1>5. call' # NULL
  BY <1>1, FromIInv
<1>6. TypeOK'
  BY <1>1, <1>4, <1>5 DEF IInv, TypeOK, StreamOK, Objects
<1>. QED
  BY <1>1, <1>2, <1>3, <1>6 DEF IInv, StreamOK

LEMMA Becoming ==
    ASSUME IInv, todo # <<>>, StreamOK',
           NEW calls \in Seq(Waiting), NEW values \in Seq(Seq(Int)),
           Becomes(calls, values)
    PROVE  IInv'
<1>1. objects \in Seq(Objects)
  BY DEF IInv, TypeOK, Objects
<1>. QED
  BY <1>1, Allocating DEF Becomes

LEMMA Failing ==
    ASSUME IInv, todo # <<>>, StreamOK', NEW code \in Statuses, Fails(code)
    PROVE  IInv'
<1>1. /\ rc' = code /\ call' = NULL /\ todo' = <<>> /\ part' = <<>> /\ objects' = <<>>
      /\ UNCHANGED <<phase, start, peer, acked, wire, received>>
  BY DEF Fails
<1>2. script' \in Seq(Types)
  <2>1. CASE script' = script
    BY <2>1 DEF IInv
  <2>2. CASE phase = "writer" /\ script' = Append(script, peer)
    BY <2>2, FromIInv, AppendProperties DEF IInv
  <2>. QED
    BY <2>1, <2>2 DEF Fails, Writes
<1>3. /\ <<>> \in Seq(Seq(Int))
      /\ <<>> \in Seq(Objects)
      /\ <<>> \in Seq(Waiting)'
  BY EmptySeq
<1>4. TypeOK'
  BY <1>1, <1>3 DEF IInv, TypeOK, StreamOK
<1>. QED
  BY <1>1, <1>2, <1>3, <1>4 DEF IInv, StreamOK

-----------------------------------------------------------------------------
(* Encoders.                                                               *)

\* A call that clients make is on a value of its type.
LEMMA ClientValue ==
    ASSUME IInv, NEW names \in SUBSET (Names \ {"bytes"}), Doing("writer", names)
    PROVE  /\ todo # <<>>
           /\ phase = "writer" /\ Waiting = WriterCalls
           /\ Next1.type \in Types
           /\ Next1.type.name \in names
           /\ IsType(Next1.type)
           /\ IsValue(Next1.type, Next1.arg)
<1>1. todo # <<>> /\ phase = "writer" /\ Next1.type.name \in names
  BY DEF Doing
<1>2. Next1 \in WriterCalls /\ Waiting = WriterCalls
  BY <1>1, FromIInv DEF Waiting
<1>3. Next1.type.name \notin {"bytes", "put", "length"}
  BY <1>1 DEF Names, Scalars, Words, Wides, Smalls
<1>4. Next1.type \in Types /\ Next1.arg \in Values[Next1.type]
  BY <1>2, <1>3, WriterCallIs
<1>. QED
  BY <1>1, <1>2, <1>4, TypesAssumption

LEMMA BytesValue ==
    ASSUME IInv, Doing("writer", {"bytes"})
    PROVE  /\ todo # <<>>
           /\ phase = "writer" /\ Waiting = WriterCalls
           /\ Next1.arg \in Seq(Byte)
           /\ Next1.type.len = Len(Next1.arg)
<1>1. todo # <<>> /\ phase = "writer" /\ Next1.type.name = "bytes"
  BY DEF Doing
<1>2. Next1 \in WriterCalls /\ Waiting = WriterCalls
  BY <1>1, FromIInv DEF Waiting
<1>3. CASE Next1.type \in Types /\ Next1.arg \in Values[Next1.type]
  BY <1>1, <1>2, <1>3, TypesAssumption DEF IsValue
<1>. QED
  BY <1>1, <1>2, <1>3, WriterCallIs

\* Calls and values made by the encoders.
LEMMA OneValue == \A n \in Int : <<<<n>>>> \in Seq(Seq(Int))
BY OneAndTwo

LEMMA NothingElse == <<>> \in Seq(Waiting) /\ <<>> \in Seq(Seq(Int))
BY EmptySeq

LEMMA BytesAreIntegers == \A bytes \in Seq(Byte) : <<bytes>> \in Seq(Seq(Int))
<1>1. Byte \subseteq Int
  BY WireAssumption DEF Byte
<1>2. \A bytes \in Seq(Byte) : bytes \in Seq(Int)
  BY <1>1, SeqMonotonic
<1>. QED
  BY <1>2, OneAndTwo

LEMMA WriteInv ==
    ASSUME IInv, tn_xdr_write_to_stream
    PROVE  IInv' /\ \A i \in 1 .. stream.pos : mem'[i] = mem[i]
<1>. DEFINE bytes == Next1.arg
            fits == stream.limit - stream.pos >= Len(bytes)
<1>1. todo # <<>> /\ phase = "writer" /\ Next1.type.name = "put"
  BY DEF tn_xdr_write_to_stream, Doing
<1>2. bytes \in Seq(Byte) /\ StreamOK
  <2>1. Next1 \in WriterCalls /\ StreamOK
    BY <1>1, FromIInv DEF Waiting
  <2>2. Next1.type.name \notin Names \cup {"bytes", "length"}
    BY <1>1 DEF Names, Scalars, Words, Wides, Smalls
  <2>. QED
    BY <2>1, <2>2, WriterCallIs
<1>3. CASE fits /\ mem' = Overwritten(bytes)
           /\ stream' = tn_xdr_mem_writer(bytes, stream.pos + Len(bytes))
           /\ Becomes(<<>>, <<>>)
  <2>1. UNCHANGED <<phase, wire>>
    BY <1>3 DEF Becomes, Allocates
  <2>2. StreamOK' /\ \A i \in 1 .. stream.pos : mem'[i] = mem[i]
    BY <1>2, <1>3, <2>1, Writing
  <2>. QED
    BY <1>1, <1>3, <2>2, NothingElse, Becoming
<1>4. CASE \E code \in {"EIO", "ENOSPC"} : Fails(code) /\ UNCHANGED <<mem, stream>>
  <2>1. UNCHANGED <<mem, stream, phase, wire>>
    BY <1>4 DEF Fails
  <2>2. {"EIO", "ENOSPC"} \subseteq Statuses
    BY DEF Statuses
  <2>. QED
    BY <1>1, <1>2, <1>4, <2>1, <2>2, SameStream, Failing
<1>. QED
  BY <1>3, <1>4 DEF tn_xdr_write_to_stream

\* A step that moves no bytes itself.
LEMMA MovingNothing ==
    ASSUME IInv, todo # <<>>, UNCHANGED <<mem, stream>>,
           NEW calls \in Seq(Waiting), NEW values \in Seq(Seq(Int)),
           Becomes(calls, values)
    PROVE  IInv'
<1>1. StreamOK'
  BY FromIInv, SameStream DEF Becomes, Allocates
<1>. QED
  BY <1>1, Becoming

LEMMA EncodeWordInv ==
    ASSUME IInv, EncodeWord
    PROVE  IInv'
<1>1. Words \subseteq Names \ {"bytes"}
  BY DEF Names, Scalars, Words, Wides, Smalls
<1>2. Next1.arg \in Int /\ todo # <<>> /\ Waiting = WriterCalls
  BY <1>1, ClientValue DEF EncodeWord, IsValue
<1>3. <<Put(Word(Next1.arg))>> \in Seq(Waiting)
  BY <1>2, WordIsBytes, WriterCallMade, OneAndTwo
<1>. QED
  BY <1>2, <1>3, OneValue, MovingNothing DEF EncodeWord

LEMMA EncodeWideInv ==
    ASSUME IInv, EncodeWide
    PROVE  IInv'
<1>1. Wides \subseteq Names \ {"bytes"}
  BY DEF Names, Scalars, Words, Wides, Smalls
<1>2. Next1.arg \in Int /\ todo # <<>> /\ Waiting = WriterCalls
  BY <1>1, ClientValue DEF EncodeWide, IsValue
<1>3. High(Next1.arg) \in Int /\ Low(Next1.arg) \in Int
  BY <1>2, PartsAreIntegers
<1>4. <<Put(Word(High(Next1.arg))), Put(Word(Low(Next1.arg)))>> \in Seq(Waiting)
  BY <1>2, <1>3, WordIsBytes, WriterCallMade, OneAndTwo
<1>. QED
  BY <1>2, <1>4, OneValue, MovingNothing DEF EncodeWide

LEMMA EncodeSmallInv ==
    ASSUME IInv, EncodeSmall
    PROVE  IInv'
<1>1. Smalls \subseteq Names \ {"bytes"}
  BY DEF Names, Scalars, Words, Wides, Smalls
<1>2. Next1.arg \in Int /\ todo # <<>> /\ Waiting = WriterCalls
  BY <1>1, ClientValue DEF EncodeSmall, IsValue
<1>. DEFINE size == SmallSize(Next1.type.name)
<1>3. PICK beyond \in 0 .. Power(Unit - size) - 1 :
          Becomes(<<Put(Word(WordAt(Next1.arg, size, beyond)))>>, <<<<Next1.arg>>>>)
  BY DEF EncodeSmall
<1>4. size \in {1, 2}
  BY DEF SmallSize
<1>5. Power(size) \in Nat \ {0} /\ Power(Unit - size) \in Nat \ {0}
  BY <1>4, PowersPositive, 4 - 1 = 3, 4 - 2 = 2 DEF Unit
<1>. HIDE DEF size
<1>6. WordAt(Next1.arg, size, beyond) \in Int
  <2>1. beyond \in Int
    BY <1>5
  <2>2. \A n \in Int, b \in Int : WordAt(n, size, b) \in Int
    BY <1>4, PartsAreIntegers
  <2>. QED
    BY <1>2, <2>1, <2>2
<1>7. <<Put(Word(WordAt(Next1.arg, size, beyond)))>> \in Seq(Waiting)
  BY <1>2, <1>6, WordIsBytes, WriterCallMade, OneAndTwo
<1>. QED
  BY <1>2, <1>3, <1>7, OneValue, MovingNothing DEF EncodeSmall

LEMMA EncodeVoidInv ==
    ASSUME IInv, EncodeVoid
    PROVE  IInv'
BY NothingElse, MovingNothing DEF EncodeVoid, Doing

LEMMA EncodeLengthInv ==
    ASSUME IInv, EncodeLength
    PROVE  IInv'
<1>1. todo # <<>> /\ phase = "writer" /\ Next1.type.name = "length"
  BY DEF EncodeLength, Doing
<1>2. Next1.arg \in Nat /\ Waiting = WriterCalls
  <2>1. Next1 \in WriterCalls /\ Waiting = WriterCalls
    BY <1>1, FromIInv DEF Waiting
  <2>2. Next1.type.name \notin Names \cup {"bytes", "put"}
    BY <1>1 DEF Names, Scalars, Words, Wides, Smalls
  <2>. QED
    BY <2>1, <2>2, WriterCallIs
<1>3. CASE \E code \in {"EOVERFLOW", "ENOSPC"} : Fails(code)
  <2>1. UNCHANGED <<mem, stream, phase, wire>>
    BY <1>3 DEF EncodeLength, Fails
  <2>2. {"EOVERFLOW", "ENOSPC"} \subseteq Statuses
    BY DEF Statuses
  <2>. QED
    BY <1>1, <1>3, <2>1, <2>2, FromIInv, SameStream, Failing
<1>4. CASE Becomes(<<Put(Word(Next1.arg))>>, <<>>)
  <2>1. <<Put(Word(Next1.arg))>> \in Seq(Waiting)
    BY <1>2, WordIsBytes, WriterCallMade, OneAndTwo
  <2>. QED
    BY <1>1, <1>4, <2>1, NothingElse, MovingNothing DEF EncodeLength
<1>. QED
  BY <1>3, <1>4 DEF EncodeLength

\* What encoders make of bytes are bytes.
LEMMA ZerosAreBytes == \A n \in Nat : Zeros(n) \in Seq(Byte) /\ Len(Zeros(n)) = n
<1>. SUFFICES ASSUME NEW n \in Nat PROVE Zeros(n) \in Seq(Byte) /\ Len(Zeros(n)) = n
  OBVIOUS
<1>1. Zeros(n) \in [1 .. n -> Byte]
  BY WireAssumption DEF Zeros, Byte
<1>. QED
  BY <1>1, FunctionIsSeq

LEMMA PadSizeIs == \A n \in Nat : PadSize(n) \in 0 .. 3
BY DEF PadSize, Unit

LEMMA CStringIs ==
    ASSUME NEW chars \in Seq(Byte)
    PROVE  CString(chars) \in Seq(Byte) /\ Len(CString(chars)) <= Len(chars)
<1>. DEFINE ends == {i \in DOMAIN chars : chars[i] = 0}
<1>1. Len(chars) \in Nat /\ DOMAIN chars = 1 .. Len(chars)
  BY LenProperties
<1>2. CASE ends = {}
  BY <1>1, <1>2 DEF CString
<1>3. CASE ends # {}
  <2>1. ends \in SUBSET Nat
    BY <1>1
  <2>2. Min(ends) \in 1 .. Len(chars)
    BY <1>1, <1>3, <2>1, LeastOf
  <2>. DEFINE n == Min(ends) - 1
  <2>3. n \in 0 .. Len(chars) /\ 1 \in Nat \ {0}
    BY <1>1, <2>2
  <2>4. CString(chars) = SubSeq(chars, 1, n)
    BY <1>3 DEF CString
  <2>. HIDE DEF n
  <2>5. SubSeq(chars, 1, n) \in Seq(Byte) /\ Len(SubSeq(chars, 1, n)) <= n
    BY <1>1, <2>3, PartOfSeq
  <2>. QED
    BY <1>1, <2>3, <2>4, <2>5
<1>. QED
  BY <1>2, <1>3

LEMMA EncodeBytesInv ==
    ASSUME IInv, EncodeBytes
    PROVE  IInv'
<1>1. /\ todo # <<>> /\ Waiting = WriterCalls
      /\ Next1.arg \in Seq(Byte) /\ Next1.type.len = Len(Next1.arg)
  BY BytesValue DEF EncodeBytes
<1>. DEFINE pad == PadSize(Next1.type.len)
            padding == IF pad = 0 THEN <<>> ELSE <<Put(Zeros(pad))>>
<1>2. pad \in Nat
  BY <1>1, LenProperties, PadSizeIs
<1>3. padding \in Seq(Waiting)
  BY <1>1, <1>2, ZerosAreBytes, WriterCallMade, OneAndTwo, EmptySeq
<1>4. <<Put(Next1.arg)>> \in Seq(Waiting)
  BY <1>1, WriterCallMade, OneAndTwo
<1>5. <<Next1.arg>> \in Seq(Seq(Int))
  BY <1>1, BytesAreIntegers
<1>6. Becomes(<<Put(Next1.arg)>> \o padding, <<Next1.arg>>)
  BY DEF EncodeBytes
<1>. HIDE DEF padding
<1>7. <<Put(Next1.arg)>> \o padding \in Seq(Waiting)
  BY <1>3, <1>4, ConcatProperties
<1>. QED
  BY <1>1, <1>5, <1>6, <1>7, MovingNothing DEF EncodeBytes

LEMMA EncodeVarBytesInv ==
    ASSUME IInv, EncodeVarBytes
    PROVE  IInv'
<1>. DEFINE bytes == IF Next1.type.name = "cstring" THEN CString(Next1.arg)
                                                    ELSE Next1.arg
            calls == <<Length(Len(bytes)), Call(Bytes(Len(bytes)), bytes)>>
<1>1. {"var_bytes", "cstring"} \subseteq Names \ {"bytes"}
  BY DEF Names, Scalars, Words, Wides, Smalls
<1>2. /\ todo # <<>> /\ Waiting = WriterCalls
      /\ Next1.arg \in Seq(Byte)
  BY <1>1, ClientValue DEF EncodeVarBytes, IsValue
<1>3. bytes \in Seq(Byte)
  BY <1>2, CStringIs
<1>4. Becomes(calls, <<>>) /\ UNCHANGED <<mem, stream>>
  BY DEF EncodeVarBytes
<1>. HIDE DEF bytes
<1>5. calls \in Seq(Waiting)
  BY <1>2, <1>3, LenProperties, WriterCallMade, OneAndTwo
<1>. QED
  BY <1>2, <1>4, <1>5, NothingElse, MovingNothing

\* An element-wise copy of types onto values of theirs.
LEMMA ElementsAreCalls ==
    ASSUME NEW n \in Nat, NEW types, NEW values, DOMAIN values = 1 .. n,
           \A i \in 1 .. n : types[i] \in Types /\ values[i] \in Values[types[i]]
    PROVE  Elements(types, values) \in Seq(WriterCalls)
<1>1. Elements(types, values) \in [1 .. n -> WriterCalls]
  BY WriterCallMade DEF Elements
<1>. QED
  BY <1>1, FunctionIsSeq

\* The type of the elements of an array.
LEMMA ElementType ==
    ASSUME NEW type \in Types, type.name \in {"array", "var_array"}
    PROVE  type.of[1] \in Types
<1>1. type.of \in Seq(Types) /\ Len(type.of) = 1
  BY TypesAssumption DEF IsType
<1>. QED
  BY <1>1, ElementOfSeq

LEMMA EncodeArrayInv ==
    ASSUME IInv, EncodeArray
    PROVE  IInv'
<1>1. {"array"} \subseteq Names \ {"bytes"}
  BY DEF Names
<1>. DEFINE n == Next1.type.len
            elt == Next1.type.of[1]
            types == Copies(elt, n)
            calls == Elements(types, Next1.arg)
<1>2. /\ todo # <<>> /\ Waiting = WriterCalls
      /\ Next1.type \in Types /\ Next1.type.name = "array"
      /\ Next1.arg \in Seq(Values[elt]) /\ Len(Next1.arg) = n
  BY <1>1, ClientValue DEF EncodeArray, IsValue
<1>3. elt \in Types
  BY <1>2, ElementType
<1>4. n \in Nat /\ DOMAIN Next1.arg = 1 .. n /\ \A i \in 1 .. n : Next1.arg[i] \in Values[elt]
  BY <1>2, LenProperties, ElementOfSeq
<1>5. \A i \in 1 .. n : types[i] = elt
  BY DEF Copies
<1>6. Becomes(calls, <<>>) /\ UNCHANGED <<mem, stream>>
  BY DEF EncodeArray
<1>. HIDE DEF n, elt, types
<1>7. calls \in Seq(Waiting)
  BY <1>2, <1>3, <1>4, <1>5, ElementsAreCalls
<1>. QED
  BY <1>2, <1>6, <1>7, NothingElse, MovingNothing

LEMMA EncodeVarArrayInv ==
    ASSUME IInv, EncodeVarArray
    PROVE  IInv'
<1>1. {"var_array"} \subseteq Names \ {"bytes"}
  BY DEF Names
<1>. DEFINE n == Len(Next1.arg)
            elt == Next1.type.of[1]
            types == Copies(elt, n)
            calls == Elements(types, Next1.arg)
<1>2. /\ todo # <<>> /\ Waiting = WriterCalls
      /\ Next1.type \in Types /\ Next1.type.name = "var_array"
      /\ Next1.arg \in Seq(Values[elt])
  BY <1>1, ClientValue DEF EncodeVarArray, IsValue
<1>3. elt \in Types
  BY <1>2, ElementType
<1>4. n \in Nat /\ DOMAIN Next1.arg = 1 .. n /\ \A i \in 1 .. n : Next1.arg[i] \in Values[elt]
  BY <1>2, LenProperties, ElementOfSeq
<1>5. \A i \in 1 .. n : types[i] = elt
  BY DEF Copies
<1>6. Becomes(<<Length(n)>> \o calls, <<<<n>>>>) /\ UNCHANGED <<mem, stream>>
  BY DEF EncodeVarArray
<1>. HIDE DEF n, elt, types
<1>7. calls \in Seq(Waiting)
  BY <1>2, <1>3, <1>4, <1>5, ElementsAreCalls
<1>. HIDE DEF calls
<1>8. <<Length(n)>> \o calls \in Seq(Waiting)
  BY <1>2, <1>4, <1>7, WriterCallMade, OneAndTwo, ConcatProperties
<1>9. <<<<n>>>> \in Seq(Seq(Int))
  BY <1>4, OneValue
<1>. QED
  BY <1>2, <1>6, <1>8, <1>9, MovingNothing

LEMMA EncodeStructInv ==
    ASSUME IInv, EncodeStruct
    PROVE  IInv'
<1>1. {"struct"} \subseteq Names \ {"bytes"}
  BY DEF Names
<1>. DEFINE types == Next1.type.of
            n == Len(types)
            calls == Elements(types, Next1.arg)
<1>2. /\ todo # <<>> /\ Waiting = WriterCalls
      /\ Next1.type \in Types /\ Next1.type.name = "struct"
      /\ DOMAIN Next1.arg = DOMAIN types
      /\ \A i \in DOMAIN types : Next1.arg[i] \in Values[types[i]]
  BY <1>1, ClientValue DEF EncodeStruct, IsValue
<1>3. /\ n \in Nat /\ DOMAIN types = 1 .. n
      /\ \A i \in 1 .. n : types[i] \in Types
  BY <1>2, IsTypeOf, LenProperties, ElementOfSeq
<1>4. Becomes(calls, <<>>) /\ UNCHANGED <<mem, stream>>
  BY DEF EncodeStruct
<1>. HIDE DEF n, types
<1>5. calls \in Seq(Waiting)
  BY <1>2, <1>3, ElementsAreCalls
<1>. QED
  BY <1>2, <1>4, <1>5, NothingElse, MovingNothing

LEMMA EncodeUnionInv ==
    ASSUME IInv, EncodeUnion
    PROVE  IInv'
<1>1. {"union"} \subseteq Names \ {"bytes"}
  BY DEF Names
<1>. DEFINE types == Next1.type.of
            discr == Next1.arg.discr
            calls == <<Put(Word(discr)), Call(types[discr + 1], Next1.arg.arm)>>
<1>2. /\ todo # <<>> /\ Waiting = WriterCalls
      /\ Next1.type \in Types /\ Next1.type.name = "union"
      /\ discr \in 0 .. Len(types) - 1
      /\ Next1.arg.arm \in Values[types[discr + 1]]
  BY <1>1, ClientValue DEF EncodeUnion, IsValue
<1>3. types[discr + 1] \in Types /\ discr \in Int
  <2>1. types \in Seq(Types) /\ Len(types) \in Nat
    BY <1>2, IsTypeOf, LenProperties
  <2>. HIDE DEF types
  <2>2. discr + 1 \in 1 .. Len(types)
    BY <1>2, <2>1
  <2>. QED
    BY <1>2, <2>1, <2>2, ElementOfSeq
<1>4. Becomes(calls, <<<<discr>>>>) /\ UNCHANGED <<mem, stream>>
  BY DEF EncodeUnion
<1>. HIDE DEF types, discr
<1>5. calls \in Seq(Waiting)
  BY <1>2, <1>3, WordIsBytes, WriterCallMade, OneAndTwo
<1>6. <<<<discr>>>> \in Seq(Seq(Int))
  BY <1>3, OneValue
<1>. QED
  BY <1>2, <1>4, <1>5, <1>6, MovingNothing

LEMMA EncodingInv ==
    ASSUME IInv, Encoding
    PROVE  IInv'
BY WriteInv, EncodeWordInv, EncodeWideInv, EncodeSmallInv, EncodeVoidInv,
   EncodeLengthInv, EncodeBytesInv, EncodeVarBytesInv, EncodeArrayInv,
   EncodeVarArrayInv, EncodeStructInv, EncodeUnionInv
   DEF Encoding

-----------------------------------------------------------------------------
(* Decoders.                                                               *)

LEMMA ClientPlace ==
    ASSUME IInv, NEW names \in SUBSET (Names \ {"bytes"}), Doing("reader", names)
    PROVE  /\ todo # <<>>
           /\ phase = "reader" /\ Waiting = ReaderCalls
           /\ Next1.type \in Types
           /\ Next1.type.name \in names
           /\ IsType(Next1.type)
           /\ Next1.arg \in Place
<1>1. todo # <<>> /\ phase = "reader" /\ Next1.type.name \in names
  BY DEF Doing
<1>2. Next1 \in ReaderCalls /\ Waiting = ReaderCalls
  BY <1>1, FromIInv DEF Waiting
<1>3. Next1.type.name \notin {"bytes", "chars", "blob", "string", "nul", "pointer",
                               "low", "pad"}
  BY <1>1 DEF Names, Scalars, Words, Wides, Smalls
<1>4. Next1.type \in Types /\ Next1.arg \in Place
  BY <1>2, <1>3, ReaderCallIs
<1>. QED
  BY <1>1, <1>2, <1>4, TypesAssumption

LEMMA CopyPlace ==
    ASSUME IInv,
           NEW names \in SUBSET {"bytes", "chars", "blob", "string", "nul", "pointer"},
           Doing("reader", names)
    PROVE  /\ todo # <<>>
           /\ phase = "reader" /\ Waiting = ReaderCalls
           /\ Next1.type.name \in names
           /\ Next1.type.len \in Nat
           /\ Next1.arg \in Place
<1>1. todo # <<>> /\ phase = "reader" /\ Next1.type.name \in names
  BY DEF Doing
<1>2. Next1 \in ReaderCalls /\ Waiting = ReaderCalls
  BY <1>1, FromIInv DEF Waiting
<1>3. CASE Next1.type \in Types
  BY <1>1, <1>2, <1>3, IsTypeOf, ReaderCallIs
<1>. QED
  BY <1>1, <1>2, <1>3, ReaderCallIs

LEMMA RestCall ==
    ASSUME IInv, NEW name \in {"low", "pad"}, Doing("reader", {name})
    PROVE  /\ todo # <<>>
           /\ phase = "reader" /\ Waiting = ReaderCalls
           /\ Next1.type.name = name
           /\ name = "low" => Next1.arg \in Int
           /\ name = "pad" => Next1.type.len \in Nat
<1>1. todo # <<>> /\ phase = "reader" /\ Next1.type.name = name
  BY DEF Doing
<1>2. Next1 \in ReaderCalls /\ Waiting = ReaderCalls
  BY <1>1, FromIInv DEF Waiting
<1>3. Next1.type.name \notin Names
  BY <1>1 DEF Names, Scalars, Words, Wides, Smalls
<1>. QED
  BY <1>1, <1>2, <1>3, ReaderCallIs

\* A decoder that reads, and then fails, is done or makes other calls.
LEMMA ReadAndAllocate ==
    ASSUME IInv, todo # <<>>, NEW sz \in Nat, Reads(sz), UNCHANGED mem,
           NEW to \in Seq(Objects), NEW calls \in Seq(Waiting),
           NEW values \in Seq(Seq(Int)),
           Allocates(to, calls, values)
    PROVE  IInv'
<1>1. StreamOK'
  BY FromIInv, Reading DEF Allocates
<1>. QED
  BY <1>1, Allocating

LEMMA ReadAndBecome ==
    ASSUME IInv, todo # <<>>, NEW sz \in Nat, Reads(sz), UNCHANGED mem,
           NEW calls \in Seq(Waiting), NEW values \in Seq(Seq(Int)),
           Becomes(calls, values)
    PROVE  IInv'
<1>1. StreamOK'
  BY FromIInv, Reading DEF Becomes, Allocates
<1>. QED
  BY <1>1, Becoming

LEMMA ReadAndFail ==
    ASSUME IInv, todo # <<>>, NEW sz \in Nat, Reads(sz), UNCHANGED mem,
           NEW code \in Statuses, Fails(code)
    PROVE  IInv'
<1>1. StreamOK'
  BY FromIInv, Reading DEF Fails
<1>. QED
  BY <1>1, Failing

LEMMA UnitIsNat == Unit \in Nat
BY DEF Unit

LEMMA DecodeShortInv ==
    ASSUME IInv, DecodeShort
    PROVE  IInv'
<1>1. PICK code, sz :
          code \in {"ENOMSG", "EIO"} /\ ReadFails(sz, code) /\ Fails(code)
  BY DEF DecodeShort
<1>2. todo # <<>> /\ UNCHANGED <<mem, stream, phase, wire>>
  BY <1>1 DEF DecodeShort, Doing, ReadFails, Fails
<1>3. code \in Statuses
  BY <1>1 DEF Statuses
<1>. QED
  BY <1>1, <1>2, <1>3, FromIInv, SameStream, Failing

LEMMA DecodeWordInv ==
    ASSUME IInv, DecodeWord
    PROVE  IInv'
<1>1. todo # <<>> /\ StreamOK
  BY FromIInv DEF DecodeWord, Doing
<1>. DEFINE signed == IsSigned(Next1.type.name)
            value == Integer(AheadWord, signed)
<1>2. signed \in BOOLEAN
  BY DEF IsSigned
<1>3. Reads(Unit) /\ Becomes(<<>>, <<<<value>>>>) /\ UNCHANGED mem
  BY DEF DecodeWord
<1>. HIDE DEF signed
<1>4. value \in Int
  BY <1>1, <1>2, <1>3, WordAhead
<1>. HIDE DEF value
<1>5. <<<<value>>>> \in Seq(Seq(Int))
  BY <1>4, OneValue
<1>. QED
  BY <1>1, <1>3, <1>5, UnitIsNat, NothingElse, ReadAndBecome

LEMMA DecodeHighInv ==
    ASSUME IInv, DecodeHigh
    PROVE  IInv'
<1>1. todo # <<>> /\ StreamOK /\ Waiting = ReaderCalls
  BY FromIInv DEF DecodeHigh, Doing, Waiting
<1>. DEFINE signed == IsSigned(Next1.type.name)
            high == Integer(AheadWord, signed)
<1>2. signed \in BOOLEAN
  BY DEF IsSigned
<1>3. Reads(Unit) /\ Becomes(<<Step("low", 0, high)>>, <<>>) /\ UNCHANGED mem
  BY DEF DecodeHigh
<1>. HIDE DEF signed
<1>4. high \in Int
  BY <1>1, <1>2, <1>3, WordAhead
<1>. HIDE DEF high
<1>5. <<Step("low", 0, high)>> \in Seq(Waiting)
  BY <1>1, <1>4, ReaderCallMade, OneAndTwo
<1>. QED
  BY <1>1, <1>3, <1>5, UnitIsNat, NothingElse, ReadAndBecome

LEMMA DecodeLowInv ==
    ASSUME IInv, DecodeLow
    PROVE  IInv'
<1>1. todo # <<>> /\ Next1.arg \in Int
  BY RestCall DEF DecodeLow
<1>. DEFINE value == Wide(Next1.arg, Unsigned(AheadWord))
<1>2. Reads(Unit) /\ Becomes(<<>>, <<<<value>>>>) /\ UNCHANGED mem
  BY DEF DecodeLow
<1>3. Unsigned(AheadWord) \in Int
  BY <1>1, <1>2, FromIInv, WordAhead
<1>4. value \in Int
  <2>. DEFINE low == Unsigned(AheadWord)
              P == Power(4)
  <2>1. P \in Int
    BY PowersPositive
  <2>2. value = (Next1.arg * P) + low
    BY DEF Wide, Unit
  <2>. HIDE DEF low, P, value
  <2>. QED
    BY <1>1, <1>3, <2>1, <2>2 DEF low
<1>. HIDE DEF value
<1>5. <<<<value>>>> \in Seq(Seq(Int))
  BY <1>4, OneValue
<1>. QED
  BY <1>1, <1>2, <1>5, UnitIsNat, NothingElse, ReadAndBecome

LEMMA DecodeSmallInv ==
    ASSUME IInv, DecodeSmall
    PROVE  IInv'
<1>1. todo # <<>> /\ StreamOK
  BY FromIInv DEF DecodeSmall, Doing
<1>. DEFINE signed == Next1.type.name \notin {"uint8", "uint16"}
            buf == Integer(AheadWord, signed)
<1>2. Reads(Unit) /\ UNCHANGED mem
  BY DEF DecodeSmall
<1>3. Becomes(<<>>, <<<<buf>>>>) \/ Fails("EOVERFLOW")
  BY DEF DecodeSmall
<1>4. signed \in BOOLEAN
  OBVIOUS
<1>. HIDE DEF signed
<1>5. buf \in Int
  BY <1>1, <1>2, <1>4, WordAhead
<1>. HIDE DEF buf
<1>6. <<<<buf>>>> \in Seq(Seq(Int))
  BY <1>5, OneValue
<1>7. "EOVERFLOW" \in Statuses
  BY DEF Statuses
<1>. QED
  BY <1>1, <1>2, <1>3, <1>6, <1>7, UnitIsNat, NothingElse, ReadAndBecome, ReadAndFail

LEMMA DecodeVoidInv ==
    ASSUME IInv, DecodeVoid
    PROVE  IInv'
BY NothingElse, MovingNothing DEF DecodeVoid, Doing

LEMMA DecodeStoreInv ==
    ASSUME IInv, DecodeStore
    PROVE  IInv'
BY NothingElse, MovingNothing DEF DecodeStore, Doing

LEMMA DecodeBytesInv ==
    ASSUME IInv, DecodeBytes
    PROVE  IInv'
<1>1. /\ todo # <<>> /\ Waiting = ReaderCalls
      /\ Next1.type.name \in {"bytes", "chars"}
      /\ Next1.type.len \in Nat /\ Next1.arg \in Place
  BY CopyPlace DEF DecodeBytes
<1>. DEFINE len == Next1.type.len
            copy == Copied[Next1.type.name]
            pad == PadSize(len)
            padding == IF pad = 0 THEN <<>> ELSE <<Step("pad", pad, NULL)>>
            calls == <<Step(copy, len, Next1.arg)>>
<1>2. Becomes(calls \o padding, <<>>) /\ UNCHANGED <<mem, stream>>
  BY DEF DecodeBytes
<1>3. copy \in {"blob", "string"}
  BY <1>1 DEF Copied
<1>4. pad \in Nat
  BY <1>1, PadSizeIs
<1>. HIDE DEF copy, pad
<1>5. calls \in Seq(Waiting)
  BY <1>1, <1>3, ReaderCallMade, OneAndTwo
<1>6. padding \in Seq(Waiting)
  BY <1>1, <1>4, ReaderCallMade, OneAndTwo, EmptySeq
<1>. HIDE DEF calls, padding
<1>7. calls \o padding \in Seq(Waiting)
  BY <1>5, <1>6, ConcatProperties
<1>. QED
  BY <1>1, <1>2, <1>7, NothingElse, MovingNothing

LEMMA DecodeBlobInv ==
    ASSUME IInv, DecodeBlob
    PROVE  IInv'
<1>1. todo # <<>> /\ Next1.type.len \in Nat
  BY CopyPlace DEF DecodeBlob
<1>. DEFINE len == Next1.type.len
            bytes == IF Next1.type.name = "string" THEN CString(Ahead(len)) ELSE Ahead(len)
<1>2. Reads(len) /\ Becomes(<<>>, <<bytes>>) /\ UNCHANGED mem
  BY DEF DecodeBlob
<1>3. Ahead(len) \in Seq(Byte)
  BY <1>1, <1>2, FromIInv, BytesAhead
<1>4. bytes \in Seq(Byte)
  BY <1>3, CStringIs
<1>. HIDE DEF bytes
<1>5. <<bytes>> \in Seq(Seq(Int))
  BY <1>4, BytesAreIntegers
<1>. QED
  BY <1>1, <1>2, <1>5, NothingElse, ReadAndBecome

LEMMA DecodePadInv ==
    ASSUME IInv, DecodePad
    PROVE  IInv'
<1>1. todo # <<>> /\ Next1.type.len \in Nat
  BY RestCall DEF DecodePad
<1>2. Reads(Next1.type.len) /\ UNCHANGED mem
  BY DEF DecodePad
<1>3. Becomes(<<>>, <<>>) \/ Fails("EPROTO")
  BY DEF DecodePad
<1>4. "EPROTO" \in Statuses
  BY DEF Statuses
<1>. QED
  BY <1>1, <1>2, <1>3, <1>4, NothingElse, ReadAndBecome, ReadAndFail

\* What a decoder allocates.
LEMMA Allocated ==
    ASSUME NEW size \in Nat
    PROVE  \A scanned, unread \in BOOLEAN :
               /\ Object(size, scanned) \in Objects
               /\ [Object(size, scanned) EXCEPT !.unread = unread] \in Objects
<1>1. WordMax \in Nat
  BY PowersPositive DEF WordMax, Unit
<1>2. SizeMod \in Nat \ {0}
  BY <1>1, XdrAssumption
<1>3. size % SizeMod \in 0 .. SizeMod - 1
  BY <1>2
<1>. QED
  BY <1>3 DEF Object, Objects

LEMMA OneMoreObject ==
    ASSUME IInv, NEW size \in Nat
    PROVE  \A scanned, unread \in BOOLEAN :
               /\ Append(objects, Object(size, scanned)) \in Seq(Objects)
               /\ Append(objects, [Object(size, scanned) EXCEPT !.unread = unread])
                      \in Seq(Objects)
<1>1. objects \in Seq(Objects)
  BY DEF IInv, TypeOK, Objects
<1>. QED
  BY <1>1, Allocated, AppendProperties

LEMMA InNewObject ==
    ASSUME IInv
    PROVE  NewObject \in Nat /\ \A off \in Nat : At(NewObject, off) \in Place
<1>1. Len(objects) \in Nat
  BY LenProperties DEF IInv, TypeOK
<1>. QED
  BY <1>1 DEF NewObject, At, Place

LEMMA DecodeVarBytesInv ==
    ASSUME IInv, DecodeVarBytes
    PROVE  IInv'
<1>1. {"var_bytes"} \subseteq Names \ {"bytes"}
  BY DEF Names, Scalars
<1>2. todo # <<>> /\ Waiting = ReaderCalls /\ Next1.arg \in Place
  BY <1>1, ClientPlace DEF DecodeVarBytes
<1>. DEFINE len == Unsigned(AheadWord)
            to == Append(objects, Object(len, FALSE))
            data == Step("bytes", len, At(NewObject, 0))
            store == Step("pointer", 2 * Pointer, Next1.arg)
<1>3. Reads(Unit) /\ UNCHANGED mem
  BY DEF DecodeVarBytes
<1>4. Pending(Bytes(len), At(NewObject, 0)) = data
  BY DEF Pending, Step, Bytes
<1>5. \/ Fails("EPROTO")
      \/ Becomes(<<store>>, <<<<>>>>)
      \/ Allocates(to, <<data, store>>, <<>>)
  BY <1>4 DEF DecodeVarBytes
<1>6. len \in Nat
  BY <1>2, <1>3, FromIInv, WordAhead
<1>. HIDE DEF len
<1>7. to \in Seq(Objects)
  BY <1>6, OneMoreObject
<1>8. data \in Waiting
  BY <1>2, <1>6, InNewObject, ReaderCallMade
<1>9. store \in Waiting
  BY <1>2, ReaderCallMade, 2 * 8 \in Nat DEF Pointer
<1>. HIDE DEF to, data, store
<1>10. <<store>> \in Seq(Waiting) /\ <<data, store>> \in Seq(Waiting)
  BY <1>8, <1>9, OneAndTwo
<1>11. "EPROTO" \in Statuses /\ <<<<>>>> \in Seq(Seq(Int))
  BY EmptySeq, OneAndTwo DEF Statuses
<1>. QED
  BY <1>2, <1>3, <1>5, <1>7, <1>10, <1>11, UnitIsNat, NothingElse,
     ReadAndFail, ReadAndBecome, ReadAndAllocate

LEMMA DecodeCStringInv ==
    ASSUME IInv, DecodeCString
    PROVE  IInv'
<1>1. {"cstring"} \subseteq Names \ {"bytes"}
  BY DEF Names, Scalars
<1>2. todo # <<>> /\ Waiting = ReaderCalls /\ Next1.arg \in Place
  BY <1>1, ClientPlace DEF DecodeCString
<1>. DEFINE len == Unsigned(AheadWord)
            to == Append(objects, Object(len + 1, FALSE))
            chars == Step("chars", len, At(NewObject, 0))
            nul == Step("nul", 1, At(NewObject, len))
            store == Step("pointer", Pointer, Next1.arg)
<1>3. Reads(Unit) /\ UNCHANGED mem
  BY DEF DecodeCString
<1>4. \/ Fails("EPROTO")
      \/ Allocates(to, <<chars, nul, store>>, <<>>)
  BY DEF DecodeCString
<1>5. len \in Nat
  BY <1>2, <1>3, FromIInv, WordAhead
<1>. HIDE DEF len
<1>6. to \in Seq(Objects)
  <2>1. len + 1 \in Nat
    BY <1>5
  <2>. QED
    BY <2>1, OneMoreObject
<1>7. chars \in Waiting /\ nul \in Waiting
  BY <1>2, <1>5, InNewObject, ReaderCallMade
<1>8. store \in Waiting
  BY <1>2, ReaderCallMade DEF Pointer
<1>. HIDE DEF to, chars, nul, store
<1>9. <<chars, nul, store>> \in Seq(Waiting)
  BY <1>7, <1>8
<1>10. "EPROTO" \in Statuses
  BY DEF Statuses
<1>. QED
  BY <1>2, <1>3, <1>4, <1>6, <1>9, <1>10, UnitIsNat, NothingElse,
     ReadAndFail, ReadAndAllocate

\* The places of the elements of an array.
LEMMA RowOfCalls ==
    ASSUME NEW type \in Types, NEW n \in Nat, NEW at \in Place
    PROVE  InRow(type, n, at) \in Seq(ReaderCalls) /\ Len(InRow(type, n, at)) = n
<1>1. at.obj \in Nat /\ at.off \in Nat /\ type.elsize \in Nat
  BY IsTypeOf DEF Place
<1>2. \A k, size \in Nat : k * size \in Nat
  OBVIOUS
<1>3. \A i \in 1 .. n : i - 1 \in Nat
  OBVIOUS
<1>4. \A i \in 1 .. n : At(at.obj, at.off + (i - 1) * type.elsize) \in Place
  <2>. SUFFICES ASSUME NEW i \in 1 .. n
                PROVE  At(at.obj, at.off + (i - 1) * type.elsize) \in Place
    OBVIOUS
  <2>. DEFINE shift == (i - 1) * type.elsize
  <2>1. shift \in Nat
    BY <1>1, <1>2, <1>3
  <2>. HIDE DEF shift
  <2>2. at.off + shift \in Nat
    BY <1>1, <2>1
  <2>. QED
    BY <1>1, <2>2 DEF At, Place, shift
<1>5. InRow(type, n, at) \in [1 .. n -> ReaderCalls]
  BY <1>4, ReaderCallMade DEF InRow
<1>. QED
  BY <1>5, FunctionIsSeq

LEMMA DecodeArrayInv ==
    ASSUME IInv, DecodeArray
    PROVE  IInv'
<1>1. {"array"} \subseteq Names \ {"bytes"}
  BY DEF Names
<1>2. /\ todo # <<>> /\ Waiting = ReaderCalls /\ Next1.arg \in Place
      /\ Next1.type \in Types /\ Next1.type.name = "array"
  BY <1>1, ClientPlace DEF DecodeArray
<1>. DEFINE calls == InRow(Next1.type.of[1], Next1.type.len, Next1.arg)
<1>3. calls \in Seq(Waiting)
  BY <1>2, IsTypeOf, ElementType, RowOfCalls
<1>. QED
  BY <1>2, <1>3, NothingElse, MovingNothing DEF DecodeArray

\* How long a variable array is taken to be: what fits in the rest of the stream,
\* or what happened to be on the stack.
LEMMA ArrayLength ==
    ASSUME StreamOK, DecodeVarArray
    PROVE  \E declen \in Nat, unread \in BOOLEAN :
               /\ ArrayOf(declen, TRUE, unread)
               /\ ~unread => declen \in UnsignedWords /\ declen <= Limit
               /\ Reads(Unit) \/ \E code : ReadFails(Unit, code)
<1>. DEFINE length == Unsigned(AheadWord)
<1>1. CASE Reads(Unit) /\ length <= RestAfterWord /\ ArrayOf(length, TRUE, FALSE)
  <2>1. length \in 0 .. WordMax
    BY <1>1, WordAhead
  <2>2. /\ Limit \in Nat
        /\ stream.limit \in 0 .. Limit /\ stream.pos \in 0 .. Limit
    BY XdrAssumption DEF StreamOK
  <2>3. length <= stream.limit - (stream.pos + 4)
    BY <1>1 DEF RestAfterWord, Unit
  <2>4. length \in UnsignedWords
    BY <2>1 DEF UnsignedWords
  <2>. HIDE DEF length
  <2>5. WordMax \in Nat
    BY PowersPositive DEF WordMax, Unit
  <2>6. length \in Nat /\ length <= Limit
    BY <2>1, <2>2, <2>3, <2>5
  <2>. QED
    BY <1>1, <2>4, <2>6
<1>2. CASE /\ Reads(Unit) \/ \E code : ReadFails(Unit, code)
           /\ \E junk \in 0 .. SizeMod - 1 : ArrayOf(junk, TRUE, TRUE)
  <2>1. PICK junk \in 0 .. SizeMod - 1 : ArrayOf(junk, TRUE, TRUE)
    BY <1>2
  <2>2. junk \in Nat
    BY XdrAssumption
  <2>. QED
    BY <1>2, <2>1, <2>2
<1>3. \/ Reads(Unit) /\ length <= RestAfterWord /\ ArrayOf(length, TRUE, FALSE)
      \/ /\ Reads(Unit) \/ \E code : ReadFails(Unit, code)
         /\ \E junk \in 0 .. SizeMod - 1 : ArrayOf(junk, TRUE, TRUE)
  BY DEF DecodeVarArray
<1>. QED
  BY <1>1, <1>2, <1>3

LEMMA DecodeVarArrayInv ==
    ASSUME IInv, DecodeVarArray
    PROVE  IInv'
<1>1. {"var_array"} \subseteq Names \ {"bytes"}
  BY DEF Names
<1>2. /\ todo # <<>> /\ Waiting = ReaderCalls /\ Next1.arg \in Place
      /\ Next1.type \in Types /\ Next1.type.name = "var_array"
  BY <1>1, ClientPlace DEF DecodeVarArray
<1>3. PICK declen \in Nat, unread \in BOOLEAN :
          /\ ArrayOf(declen, TRUE, unread)
          /\ Reads(Unit) \/ \E code : ReadFails(Unit, code)
  BY <1>2, FromIInv, ArrayLength
<1>. DEFINE elt == Next1.type.of[1]
            to == Append(objects, [Object(elt.elsize * declen, TRUE)
                                      EXCEPT !.unread = unread])
            row == InRow(elt, declen, At(NewObject, 0))
            store == Step("pointer", 2 * Pointer, Next1.arg)
<1>4. Allocates(to, Append(row, store), <<<<declen>>>>)
  BY <1>3 DEF ArrayOf, ArrayIn
<1>5. declen \in Nat /\ elt \in Types
  BY <1>2, ElementType
<1>6. elt.elsize * declen \in Nat
  BY <1>5, IsTypeOf
<1>. HIDE DEF elt
<1>7. to \in Seq(Objects)
  BY <1>6, OneMoreObject
<1>8. row \in Seq(Waiting)
  BY <1>2, <1>5, InNewObject, RowOfCalls
<1>9. store \in Waiting
  BY <1>2, ReaderCallMade, 2 * 8 \in Nat DEF Pointer
<1>. HIDE DEF to, row, store
<1>10. Append(row, store) \in Seq(Waiting)
  BY <1>8, <1>9, AppendProperties
<1>11. <<<<declen>>>> \in Seq(Seq(Int))
  BY <1>5, OneValue
<1>12. UNCHANGED mem
  BY DEF DecodeVarArray
<1>13. CASE Reads(Unit)
  BY <1>2, <1>4, <1>7, <1>10, <1>11, <1>12, <1>13, UnitIsNat, ReadAndAllocate
<1>14. CASE UNCHANGED stream
  <2>1. StreamOK'
    BY <1>2, <1>4, <1>12, <1>14, FromIInv, SameStream DEF Allocates
  <2>. QED
    BY <1>2, <1>4, <1>7, <1>10, <1>11, <2>1, Allocating
<1>. QED
  BY <1>3, <1>13, <1>14 DEF ReadFails

\* The offsets in a structure: the first is 0, and every other is past the one
\* before it by the size of what is there.
LEMMA OffsetIs ==
    ASSUME NEW of \in Seq(Types)
    PROVE  Offset(of) = [i \in 1 .. Len(of) + 1 |->
                            IF i = 1 THEN 0 ELSE Offset(of)[i - 1] + of[i - 1].elsize]
<1>. DEFINE N == Len(of)
            F(g, n) == [i \in 1 .. n |-> IF i = 1 THEN 0 ELSE g[i - 1] + of[i - 1].elsize]
            Has(n) == \E g : g = F(g, n + 1)
            S == {n \in Nat : n > N \/ Has(n)}
<1>1. N \in Nat
  BY LenProperties
<1>. HIDE DEF N
<1>2. Has(0)
  <2>1. [i \in 1 .. 0 + 1 |-> 0] = F([i \in 1 .. 0 + 1 |-> 0], 0 + 1)
    OBVIOUS
  <2>. QED
    BY <2>1
<1>3. ASSUME NEW n \in Nat, Has(n) PROVE Has(n + 1)
  <2>1. PICK g : g = F(g, n + 1)
    BY <1>3
  <2>. DEFINE next == g[n + 1] + of[n + 1].elsize
              h == [i \in 1 .. (n + 1) + 1 |-> IF i <= n + 1 THEN g[i] ELSE next]
  <2>2. ASSUME NEW i \in 1 .. (n + 1) + 1
        PROVE  h[i] = IF i = 1 THEN 0 ELSE h[i - 1] + of[i - 1].elsize
    <3>1. CASE i <= n + 1
      <4>1. i \in 1 .. n + 1 /\ h[i] = g[i]
        BY <3>1
      <4>2. g[i] = IF i = 1 THEN 0 ELSE g[i - 1] + of[i - 1].elsize
        BY <2>1, <4>1
      <4>3. i # 1 => h[i - 1] = g[i - 1]
        BY <3>1
      <4>. QED
        BY <4>1, <4>2, <4>3
    <3>2. CASE i = n + 2
      <4>1. i # 1 /\ i - 1 = n + 1 /\ h[i] = next /\ h[i - 1] = g[n + 1]
        BY <3>2
      <4>. QED
        BY <4>1 DEF next
    <3>. QED
      BY <3>1, <3>2
  <2>3. h = F(h, (n + 1) + 1)
    BY <2>2
  <2>. HIDE DEF h, F
  <2>. QED
    BY <2>3
<1>. HIDE DEF Has
<1>4. S = Nat
  <2>1. S \in SUBSET Nat /\ 0 \in S /\ \A n \in S : n + 1 \in S
    BY <1>1, <1>2, <1>3
  <2>. HIDE DEF S
  <2>. QED
    BY <2>1, AllNaturals
<1>5. PICK g : g = F(g, N + 1)
  <2>1. Has(N)
    BY <1>1, <1>4
  <2>. QED
    BY <2>1 DEF Has
<1>. DEFINE G(f) == F(f, N + 1)
<1>6. Offset(of) = CHOOSE f : f = G(f)
  BY DEF Offset, N
<1>7. g = G(g)
  BY <1>5
<1>. HIDE DEF G
<1>8. (CHOOSE f : f = G(f)) = G(CHOOSE f : f = G(f))
  BY <1>7
<1>9. Offset(of) = G(Offset(of))
  BY <1>6, <1>8
<1>10. Offset(of) = F(Offset(of), N + 1)
  BY <1>9 DEF G
<1>. QED
  BY <1>10 DEF N

\* They leave room for every element before the next.
LEMMA OffsetsApart ==
    ASSUME NEW of \in Seq(Types)
    PROVE  \A i \in 1 .. Len(of) + 1 :
               /\ Offset(of)[i] \in Nat
               /\ \A j \in 1 .. i - 1 : Offset(of)[j] + of[j].elsize <= Offset(of)[i]
<1>. DEFINE N == Len(of)
            off == Offset(of)
            Apart(n) == /\ off[n + 1] \in Nat
                        /\ \A j \in 1 .. n : /\ off[j] \in Nat
                                             /\ off[j] + of[j].elsize <= off[n + 1]
            S == {n \in Nat : n > N \/ Apart(n)}
<1>1. N \in Nat /\ \A i \in 1 .. N : of[i].elsize \in Nat
  BY LenProperties, ElementOfSeq, IsTypeOf
<1>2. /\ off[1] = 0
      /\ \A n \in 1 .. N : off[n + 1] = off[n] + of[n].elsize
  <2>1. 1 \in 1 .. N + 1
    BY <1>1
  <2>2. \A n \in 1 .. N : n + 1 \in 1 .. N + 1 /\ n + 1 # 1 /\ n + 1 - 1 = n
    BY <1>1
  <2>3. \A i \in 1 .. N + 1 : off[i] = IF i = 1 THEN 0 ELSE off[i - 1] + of[i - 1].elsize
    BY OffsetIs
  <2>. HIDE DEF off, N
  <2>. QED
    BY <2>1, <2>2, <2>3
<1>. HIDE DEF N, off
<1>3. Apart(0)
  BY <1>2
<1>4. ASSUME NEW n \in Nat, n + 1 <= N, Apart(n) PROVE Apart(n + 1)
  <2>1. n + 1 \in 1 .. N
    BY <1>1, <1>4
  <2>2. off[(n + 1) + 1] = off[n + 1] + of[n + 1].elsize
    BY <1>2, <2>1
  <2>3. of[n + 1].elsize \in Nat
    BY <1>1, <2>1
  <2>4. off[(n + 1) + 1] \in Nat /\ off[n + 1] <= off[(n + 1) + 1]
    BY <1>4, <2>2, <2>3
  <2>5. ASSUME NEW j \in 1 .. n
        PROVE  off[j] \in Nat /\ off[j] + of[j].elsize <= off[(n + 1) + 1]
    <3>1. of[j].elsize \in Nat
      BY <1>1, <2>1
    <3>. QED
      BY <1>4, <2>4, <3>1
  <2>6. \A j \in 1 .. n + 1 : j \in 1 .. n \/ j = n + 1
    OBVIOUS
  <2>. QED
    BY <1>4, <2>2, <2>3, <2>4, <2>5, <2>6
<1>. HIDE DEF Apart
<1>5. S = Nat
  <2>1. S \in SUBSET Nat /\ 0 \in S /\ \A n \in S : n + 1 \in S
    BY <1>1, <1>3, <1>4
  <2>. HIDE DEF S
  <2>. QED
    BY <2>1, AllNaturals
<1>6. ASSUME NEW i \in 1 .. N + 1
      PROVE  off[i] \in Nat /\ \A j \in 1 .. i - 1 : off[j] + of[j].elsize <= off[i]
  <2>1. i - 1 \in Nat /\ i - 1 <= N /\ (i - 1) + 1 = i
    BY <1>1
  <2>2. Apart(i - 1)
    BY <1>1, <1>5, <2>1
  <2>. QED
    BY <2>1, <2>2 DEF Apart
<1>. QED
  BY <1>6 DEF N, off

LEMMA DecodeStructInv ==
    ASSUME IInv, DecodeStruct
    PROVE  IInv'
<1>1. {"struct"} \subseteq Names \ {"bytes"}
  BY DEF Names
<1>2. /\ todo # <<>> /\ Waiting = ReaderCalls /\ Next1.arg \in Place
      /\ Next1.type \in Types /\ Next1.type.name = "struct"
  BY <1>1, ClientPlace DEF DecodeStruct
<1>. DEFINE of == Next1.type.of
            at == Next1.arg
            calls == [i \in DOMAIN of |-> Pending(of[i], At(at.obj, at.off + Offset(of)[i]))]
<1>3. Becomes(calls, <<>>) /\ UNCHANGED <<mem, stream>>
  BY DEF DecodeStruct
<1>4. of \in Seq(Types)
  BY <1>2, IsTypeOf
<1>. HIDE DEF of
<1>5. /\ Len(of) \in Nat /\ DOMAIN of = 1 .. Len(of)
      /\ \A i \in DOMAIN of : of[i] \in Types
  BY <1>4, LenProperties, ElementOfSeq
<1>6. \A i \in DOMAIN of : Offset(of)[i] \in Nat
  <2>1. \A i \in DOMAIN of : i \in 1 .. Len(of) + 1
    BY <1>5
  <2>. QED
    BY <1>4, <2>1, OffsetsApart
<1>7. \A i \in DOMAIN of : At(at.obj, at.off + Offset(of)[i]) \in Place
  BY <1>2, <1>6 DEF Place, At
<1>8. calls \in [1 .. Len(of) -> ReaderCalls]
  BY <1>5, <1>7, ReaderCallMade
<1>. HIDE DEF calls
<1>9. calls \in Seq(Waiting)
  BY <1>2, <1>5, <1>8, FunctionIsSeq
<1>. QED
  BY <1>2, <1>3, <1>9, NothingElse, MovingNothing

LEMMA DecodeUnionInv ==
    ASSUME IInv, DecodeUnion
    PROVE  IInv'
<1>1. {"union"} \subseteq Names \ {"bytes"}
  BY DEF Names
<1>2. /\ todo # <<>> /\ Waiting = ReaderCalls /\ Next1.arg \in Place
      /\ Next1.type \in Types /\ Next1.type.name = "union"
  BY <1>1, ClientPlace DEF DecodeUnion
<1>. DEFINE discr == Unsigned(AheadWord)
            of == Next1.type.of
            at == Next1.arg
            calls == <<Pending(of[discr + 1], At(at.obj, at.off + Unit))>>
<1>3. Reads(Unit) /\ UNCHANGED mem
  BY DEF DecodeUnion
<1>4. \/ Fails("EPROTO")
      \/ discr < Len(of) /\ Becomes(calls, <<<<discr>>>>)
  BY DEF DecodeUnion
<1>5. discr \in Nat
  BY <1>2, <1>3, FromIInv, WordAhead
<1>6. of \in Seq(Types) /\ Len(of) \in Nat
  BY <1>2, IsTypeOf, LenProperties
<1>. HIDE DEF discr, of
<1>7. CASE Fails("EPROTO")
  <2>1. "EPROTO" \in Statuses
    BY DEF Statuses
  <2>. QED
    BY <1>2, <1>3, <1>7, <2>1, UnitIsNat, ReadAndFail
<1>8. CASE discr < Len(of) /\ Becomes(calls, <<<<discr>>>>)
  <2>1. discr + 1 \in 1 .. Len(of)
    BY <1>5, <1>6, <1>8
  <2>2. of[discr + 1] \in Types
    BY <1>6, <2>1, ElementOfSeq
  <2>3. At(at.obj, at.off + Unit) \in Place
    BY <1>2 DEF Place, At, Unit
  <2>4. calls \in Seq(Waiting)
    BY <1>2, <2>2, <2>3, ReaderCallMade, OneAndTwo
  <2>5. <<<<discr>>>> \in Seq(Seq(Int))
    BY <1>5, OneValue
  <2>. HIDE DEF calls
  <2>. QED
    BY <1>2, <1>3, <1>8, <2>4, <2>5, UnitIsNat, ReadAndBecome
<1>. QED
  BY <1>4, <1>7, <1>8

LEMMA DecodingInv ==
    ASSUME IInv, Decoding
    PROVE  IInv'
BY DecodeShortInv, DecodeWordInv, DecodeHighInv, DecodeLowInv, DecodeSmallInv,
   DecodeVoidInv, DecodeBytesInv, DecodeBlobInv, DecodePadInv, DecodeStoreInv,
   DecodeVarBytesInv, DecodeCStringInv, DecodeArrayInv, DecodeVarArrayInv,
   DecodeStructInv, DecodeUnionInv
   DEF Decoding

-----------------------------------------------------------------------------
(* From one call to the next.                                              *)

LEMMA EncodeInv ==
    ASSUME IInv, NEW m \in Messages, Encode(m)
    PROVE  IInv'
<1>1. /\ m.type \in Types /\ m.value \in Values[m.type] /\ m.as \in Types
      /\ m.type # NULL
  BY TypesAssumption
<1>2. /\ phase = "writer" /\ phase' = "writer"
      /\ call' = m.type /\ peer' = m.as
      /\ todo' = <<Call(m.type, m.value)>>
      /\ start' = stream.pos
      /\ UNCHANGED <<mem, stream, phase, rc, objects, part, script, sent, acked, wire,
                     received>>
  BY DEF Encode
<1>3. todo' \in Seq(WriterCalls)
  BY <1>1, <1>2, WriterCallMade, OneAndTwo
<1>4. Waiting' = WriterCalls
  BY <1>2 DEF Waiting
<1>5. TypeOK'
  BY <1>1, <1>2 DEF IInv, TypeOK
<1>6. StreamInBounds'
  BY <1>2 DEF IInv, StreamInBounds
<1>. QED
  BY <1>1, <1>2, <1>3, <1>4, <1>5, <1>6 DEF IInv

LEMMA HandOverInv ==
    ASSUME IInv, HandOver
    PROVE  IInv'
<1>1. PICK limit \in 0 .. stream.pos :
          stream' = [pos |-> 0, data |-> 0, limit |-> limit]
  BY DEF HandOver
<1>2. /\ phase' = "reader" /\ wire' = stream.pos /\ rc' = "OK" /\ start' = 0
      /\ call = NULL
      /\ UNCHANGED <<mem, call, todo, objects, peer, part, script, sent, acked, received>>
  BY DEF HandOver
<1>3. Limit \in Nat /\ stream.pos \in 0 .. Limit
  BY XdrAssumption DEF IInv, TypeOK
<1>4. todo' = <<>> /\ todo' \in Seq(Waiting')
  BY <1>2, EmptySeq DEF IInv, TypeOK
<1>5. stream' \in [pos : 0 .. Limit, data : 0 .. Limit, limit : 0 .. Limit]
  BY <1>1, <1>3
<1>6. "OK" \in Statuses
  BY DEF Statuses
<1>7. TypeOK'
  BY <1>2, <1>3, <1>5, <1>6 DEF IInv, TypeOK
<1>8. StreamInBounds'
  BY <1>1, <1>2, <1>3 DEF StreamInBounds
<1>. QED
  BY <1>2, <1>4, <1>7, <1>8 DEF IInv

LEMMA DecodeInv ==
    ASSUME IInv, Decode
    PROVE  IInv'
<1>. DEFINE type == script[Len(received) + 1]
<1>1. /\ phase = "reader"
      /\ Len(received) < Len(script)
      /\ call' = type
      /\ todo' = <<Pending(type, At(1, 0))>>
      /\ objects' = <<Object(type.elsize, TRUE)>>
      /\ start' = stream.pos
      /\ UNCHANGED <<mem, stream, phase, rc, peer, part, script, sent, acked, wire,
                     received>>
  BY DEF Decode
<1>2. type \in Types
  <2>1. Len(received) \in Nat /\ Len(script) \in Nat
    BY LenProperties DEF IInv
  <2>2. Len(received) + 1 \in 1 .. Len(script)
    BY <1>1, <2>1
  <2>. QED
    BY <2>2, ElementOfSeq DEF IInv
<1>. HIDE DEF type
<1>3. type # NULL /\ type.elsize \in Nat
  BY <1>2, TypesAssumption, IsTypeOf
<1>4. At(1, 0) \in Place
  BY DEF At, Place
<1>5. todo' \in Seq(ReaderCalls)
  BY <1>1, <1>2, <1>4, ReaderCallMade, OneAndTwo
<1>6. Waiting' = ReaderCalls
  BY <1>1 DEF Waiting
<1>7. objects' \in Seq(Objects)
  BY <1>1, <1>3, Allocated, OneAndTwo
<1>8. TypeOK'
  BY <1>1, <1>3, <1>7 DEF IInv, TypeOK, Objects
<1>9. StreamInBounds'
  BY <1>1 DEF IInv, StreamInBounds
<1>. QED
  BY <1>1, <1>5, <1>6, <1>8, <1>9 DEF IInv

LEMMA SucceedsInv ==
    ASSUME IInv, Succeeds
    PROVE  IInv'
<1>1. /\ call # NULL /\ todo = <<>> /\ call' = NULL /\ rc' = "OK"
      /\ part' = <<>> /\ objects' = <<>>
      /\ UNCHANGED <<mem, stream, phase, todo, start, peer, wire>>
  BY DEF Succeeds
<1>2. /\ <<>> \in Seq(Seq(Int))
      /\ <<>> \in Seq(Objects)
      /\ <<>> \in Seq(Waiting')
      /\ "OK" \in Statuses
  BY EmptySeq DEF Statuses
<1>3. TypeOK'
  BY <1>1, <1>2 DEF IInv, TypeOK
<1>4. StreamInBounds'
  BY <1>1 DEF IInv, StreamInBounds
<1>5. script' \in Seq(Types) /\ received' \in Seq(Items)
  <2>1. CASE phase = "writer"
    <3>1. peer \in Types
      BY <1>1, <2>1 DEF IInv
    <3>2. script' = Append(script, peer) /\ received' = received
      BY <2>1 DEF Succeeds, Writes
    <3>. QED
      BY <3>1, <3>2, AppendProperties DEF IInv
  <2>2. CASE phase # "writer"
    <3>1. Item \in Items
      BY XdrAssumption DEF IInv, TypeOK, Item, Items
    <3>2. script' = script /\ received' = Append(received, Item)
      BY <2>2 DEF Succeeds
    <3>. QED
      BY <3>1, <3>2, AppendProperties DEF IInv
  <2>. QED
    BY <2>1, <2>2
<1>. QED
  BY <1>1, <1>2, <1>3, <1>4, <1>5 DEF IInv

-----------------------------------------------------------------------------
(* The theorems.                                                           *)

LEMMA InitInv == Init => IInv
<1>. SUFFICES ASSUME Init PROVE IInv
  OBVIOUS
<1>1. /\ Limit \in Nat /\ Stale \in Byte
      /\ "OK" \in Statuses
  BY XdrAssumption DEF Statuses
<1>2. /\ <<>> \in Seq(Seq(Int)) /\ <<>> \in Seq(Types) /\ <<>> \in Seq(Items)
      /\ <<>> \in Seq(Objects)
      /\ <<>> \in Seq(Waiting)
  BY EmptySeq
<1>3. TypeOK
  BY <1>1, <1>2 DEF Init, TypeOK
<1>4. StreamInBounds
  BY <1>1 DEF Init, StreamInBounds
<1>. QED
  BY <1>2, <1>3, <1>4 DEF Init, IInv

LEMMA NextInv == IInv /\ [Next]_vars => IInv'
<1>. SUFFICES ASSUME IInv, [Next]_vars PROVE IInv'
  OBVIOUS
<1>1. CASE Encoding
  BY <1>1, EncodingInv
<1>2. CASE Decoding
  BY <1>2, DecodingInv
<1>3. CASE \E m \in Messages : Encode(m)
  BY <1>3, EncodeInv
<1>4. CASE HandOver \/ Decode \/ Succeeds
  BY <1>4, HandOverInv, DecodeInv, SucceedsInv
<1>5. CASE UNCHANGED vars
  BY <1>5 DEF vars, IInv, TypeOK, StreamInBounds, Waiting
<1>. QED
  BY <1>1, <1>2, <1>3, <1>4, <1>5 DEF Next

LEMMA SpecIInv == Spec => []IInv
BY InitInv, NextInv, PTL DEF Spec

\* The variables have the types they are given.
THEOREM XdrTypeCorrect == Spec => []TypeOK
<1>1. IInv => TypeOK
  BY DEF IInv
<1>. QED
  BY <1>1, SpecIInv, PTL

\* The counters of xdr.c and the pointers of xdr.h agree and stay within the
\* array and the message, for all types, whatever is encoded, however the message
\* is cut short and whatever the peer takes it for.
THEOREM StreamStaysInBounds == Spec => []StreamInBounds
<1>1. IInv => StreamInBounds
  BY DEF IInv
<1>. QED
  BY <1>1, SpecIInv, PTL

\* Only tn_xdr_write_to_stream() changes the array, and it does not change what
\* was written before.
LEMMA NextKeeps ==
    ASSUME IInv, [Next]_vars
    PROVE  \A i \in 1 .. Written : mem'[i] = mem[i]
<1>1. CASE tn_xdr_write_to_stream
  <2>1. phase = "writer"
    BY <1>1 DEF tn_xdr_write_to_stream, Doing
  <2>. QED
    BY <1>1, <2>1, WriteInv DEF Written
<1>2. CASE UNCHANGED mem
  BY <1>2
<1>3. CASE Encoding
  BY <1>1, <1>2, <1>3
     DEF Encoding, EncodeWord, EncodeWide, EncodeSmall, EncodeVoid, EncodeLength,
         EncodeBytes, EncodeVarBytes, EncodeArray, EncodeVarArray, EncodeStruct,
         EncodeUnion
<1>4. CASE Decoding
  BY <1>2, <1>4
     DEF Decoding, DecodeShort, DecodeWord, DecodeHigh, DecodeLow, DecodeSmall,
         DecodeVoid, DecodeBytes, DecodeBlob, DecodePad, DecodeStore, DecodeVarBytes,
         DecodeCString, DecodeArray, DecodeVarArray, DecodeStruct, DecodeUnion
<1>5. CASE \E m \in Messages : Encode(m)
  BY <1>2, <1>5 DEF Encode
<1>6. CASE HandOver \/ Decode \/ Succeeds
  BY <1>2, <1>6 DEF HandOver, Decode, Succeeds
<1>7. CASE UNCHANGED vars
  BY <1>2, <1>7 DEF vars
<1>. QED
  BY <1>3, <1>4, <1>5, <1>6, <1>7 DEF Next

\* No call, whether it succeeds or fails, changes bytes of the calls before it.
THEOREM WritesOnce == Spec => WrittenOnce
<1>1. IInv /\ [Next]_vars => [\A i \in 1 .. Written : mem'[i] = mem[i]]_vars
  BY NextKeeps
<1>. QED
  BY <1>1, SpecIInv, PTL DEF Spec, WrittenOnce
=============================================================================
