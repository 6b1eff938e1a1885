-------------------------------- MODULE Xdr ---------------------------------
(***************************************************************************)
(* xdr.c and xdr.h: a program encodes items to a memory stream; the bytes  *)
(* it wrote, or fewer of them if the message was cut short, become the     *)
(* stream from which a peer decodes items of the same types.               *)
(*                                                                         *)
(* An encode or decode call is a stack of pending calls, the next one      *)
(* first.  A step carries out that one: it moves bytes to or from the      *)
(* stream, or is replaced by the calls its function makes.  Every function *)
(* returns at once when one it calls fails, except where noted, so a       *)
(* failure empties the stack.                                              *)
(***************************************************************************)
EXTENDS XdrWire

CONSTANTS Types,          \* types of the program and of its peer, and of the
                          \* elements of those
          Values,         \* for each of them values the program has
          Messages,       \* [type, value, as] records: what the program may
                          \* encode, and as what type the peer decodes it
          Limit,          \* size of the stream's array
          MaxItems,       \* bound: items encoded
          Truncation,     \* the message may lose its end, in the writer or on
                          \* the way
          CallbacksFail,  \* the stream's reader and writer may fail
          Stale,          \* byte that fills the array at first
          SizeMod,        \* SIZE_MAX + 1
          NULL

\* Where a structure whose elements have the types in of has the i-th of them;
\* the one after the last is its end.
Offset(of) ==
    LET at[i \in 1 .. Len(of) + 1] == IF i = 1 THEN 0 ELSE at[i - 1] + of[i - 1].elsize
    IN  at

\* An element descriptor says how much memory a value takes: all its parts.
IsType(type) ==
    LET name == type.name
        of == type.of
        len == type.len
        elsize == type.elsize
    IN  /\ type \in [name : Names, of : Seq(Types), len : 0 .. SizeMod - 1,
                     elsize : 0 .. SizeMod - 1]
        /\ name \in Scalars => elsize = ScalarSize(name)
        /\ name = "bytes" => elsize = len
        /\ name = "array" => Len(of) = 1 /\ elsize = len * of[1].elsize
        /\ name = "var_array" => Len(of) = 1 /\ elsize = 2 * Pointer
        /\ name = "struct" => elsize >= Offset(of)[Len(of) + 1]
        /\ name = "union" => \A i \in DOMAIN of : elsize >= Unit + of[i].elsize

\* A value of a type of C, whose integers are limited; one of a composite type
\* has its elements' values.
IsValue(type, value) ==
    LET name == type.name
        of == type.of
    IN  /\ name \in Words \cup Wides \cup Smalls => value \in Int
        /\ name \in Words => value \in WordRange(name)
        /\ name \in Wides => High(value) \in WordRange(name)
        /\ name \in Smalls => value \in SmallRange(name)
        /\ name = "bytes" => value \in Seq(Byte) /\ Len(value) = type.len
        /\ name \in {"var_bytes", "cstring"} => value \in Seq(Byte)
        /\ name = "array" =>
               value \in Seq(Values[of[1]]) /\ Len(value) = type.len
        /\ name = "var_array" => value \in Seq(Values[of[1]])
        /\ name = "struct" =>
               DOMAIN value = DOMAIN of /\ \A i \in DOMAIN of : value[i] \in Values[of[i]]
        /\ name = "union" =>
               /\ value.discr \in 0 .. Len(of) - 1
               /\ value.discr \in UnsignedWords
               /\ value.arm \in Values[of[value.discr + 1]]

ASSUME TypesAssumption ==
    /\ NULL \notin Types
    /\ \A type \in Types : IsType(type)
    /\ \A type \in Types : \A value \in Values[type] : IsValue(type, value)
    /\ \A m \in Messages : m.type \in Types /\ m.value \in Values[m.type] /\ m.as \in Types

ASSUME XdrAssumption ==
    /\ Limit \in 0 .. SizeMod - 1
    /\ MaxItems \in Nat
    /\ Truncation \in BOOLEAN
    /\ CallbacksFail \in BOOLEAN
    /\ Stale \in Byte
    /\ SizeMod \in Nat /\ SizeMod > WordMax

VARIABLES
    mem,       \* the array
    stream,    \* tn_xdr_stream: pos, limit, and data as an offset into mem
    phase,     \* whose calls use the stream: "writer" or "reader"
    call,      \* type of the item being encoded or decoded, or NULL
    todo,      \* calls it has still to make
    rc,        \* status of the last call to end; "OK" is 0
    objects,   \* what a decode call stores to: the client's variable, and what
               \* the call has allocated; whether the collector looks for
               \* pointers in it; and, as history, whether its size is of a
               \* length that was never read
    \* History.
    start,     \* stream.pos when the last call was made
    peer,      \* the type as which the peer will decode what is being encoded
    part,      \* values the call has encoded or decoded so far
    script,    \* types of the items written, the last perhaps in part
    sent,      \* their values, and stream.pos after them
    acked,     \* how many of them were encoded with success
    wire,      \* bytes the writer had written
    received   \* items decoded

vars == <<mem, stream, phase, call, todo, rc, objects, start, peer, part, script, sent,
          acked, wire, received>>

Call(type, arg) == [type |-> type, arg |-> arg]

Init ==
    /\ mem = [i \in 1 .. Limit |-> Stale]
    /\ stream = [pos |-> 0, data |-> 0, limit |-> Limit]
    /\ phase = "writer"
    /\ call = NULL
    /\ todo = <<>>
    /\ rc = "OK"
    /\ objects = <<>>
    /\ start = 0
    /\ peer = NULL
    /\ part = <<>>
    /\ script = <<>>
    /\ sent = <<>>
    /\ acked = 0
    /\ wire = 0
    /\ received = <<>>

-----------------------------------------------------------------------------
(* Calls in progress.                                                      *)

Next1 == Head(todo)
Doing(side, names) == phase = side /\ todo # <<>> /\ Next1.type.name \in names

\* The next call is replaced by those it makes, having dealt with some values
\* and made objects what they are.
Allocates(to, calls, values) ==
    /\ todo' = calls \o Tail(todo)
    /\ part' = part \o values
    /\ objects' = to
    /\ UNCHANGED <<phase, call, rc, start, peer, script, sent, acked, wire, received>>

Becomes(calls, values) == Allocates(objects, calls, values)

Item == [values |-> part, end |-> stream.pos]
Writes == script' = Append(script, peer) /\ sent' = Append(sent, Item)

\* The next call fails, and with it all that wait for it.  What a failed encode
\* has written stays in the stream.
Fails(code) ==
    /\ rc' = code
    /\ call' = NULL
    /\ todo' = <<>>
    /\ part' = <<>>
    /\ objects' = <<>>
    /\ IF phase = "writer" /\ stream.pos # start
       THEN Writes ELSE UNCHANGED <<script, sent>>
    /\ UNCHANGED <<phase, start, peer, acked, wire, received>>

\* A client goes on after a failure only if the failed call moved no bytes.
MayCall == call = NULL /\ (rc = "OK" \/ stream.pos = start)

Encode(m) ==
    /\ phase = "writer"
    /\ MayCall
    /\ Len(script) < MaxItems
    /\ call' = m.type
    /\ todo' = <<Call(m.type, m.value)>>
    /\ start' = stream.pos
    /\ peer' = m.as
    /\ UNCHANGED <<mem, stream, phase, rc, objects, part, script, sent, acked, wire,
                   received>>

\* A place in an object, which a decoder is given to store to, and the object
\* that an allocation makes, which is supposed to succeed.
At(obj, off) == [obj |-> obj, off |-> off]
Object(size, scanned) ==
    [size |-> size % SizeMod, scanned |-> scanned, unread |-> FALSE]
Pending(type, at) == Call(type, at)

Decode ==
    /\ phase = "reader"
    /\ MayCall
    /\ Len(received) < Len(script)
    /\ LET type == script[Len(received) + 1]
       IN  /\ call' = type
           /\ todo' = <<Pending(type, At(1, 0))>>
           /\ objects' = <<Object(type.elsize, TRUE)>>
    /\ start' = stream.pos
    /\ UNCHANGED <<mem, stream, phase, rc, peer, part, script, sent, acked, wire,
                   received>>

\* Nothing is left to do: the call returns 0.
Succeeds ==
    /\ call # NULL
    /\ todo = <<>>
    /\ IF phase = "writer"
       THEN Writes /\ acked' = acked + 1 /\ UNCHANGED received
       ELSE received' = Append(received, Item) /\ UNCHANGED <<script, sent, acked>>
    /\ call' = NULL
    /\ rc' = "OK"
    /\ part' = <<>>
    /\ objects' = <<>>
    /\ UNCHANGED <<mem, stream, phase, todo, start, peer, wire>>

\* The bytes written become the peer's TN_XDR_STREAM_STATIC_ARRAY.  A message
\* that is not to be truncated ends with a whole item.
HandOver ==
    /\ phase = "writer"
    /\ call = NULL
    /\ phase' = "reader"
    /\ wire' = stream.pos
    /\ \E limit \in 0 .. stream.pos :
           /\ Truncation \/ (limit = stream.pos /\ acked = Len(script))
           /\ stream' = [pos |-> 0, data |-> 0, limit |-> limit]
    /\ rc' = "OK"
    /\ start' = 0
    /\ UNCHANGED <<mem, call, todo, objects, peer, part, script, sent, acked, received>>

-----------------------------------------------------------------------------
(* Encoders.                                                               *)

\* Calls inside the library: what they are of is not a client's type.
Step(name, len, arg) == Call(Type(name, <<>>, len, len), arg)
Put(bytes) == Step("put", 0, bytes)
Length(n) == Step("length", 0, n)

\* Mutant: the memory writer does not move data.
tn_xdr_mem_writer_Stuck(bytes, pos) == [stream EXCEPT !.pos = pos]

\* The callback of a memory stream, and what it makes of the array; the caller
\* counts pos.
tn_xdr_mem_writer(bytes, pos) ==
    [stream EXCEPT !.data = @ + Len(bytes), !.pos = pos]
Overwritten(bytes) ==
    [i \in 1 .. Limit |-> IF i - stream.data \in DOMAIN bytes
                          THEN bytes[i - stream.data] ELSE mem[i]]

\* Mutant: the space check forgets what has been written.
tn_xdr_write_to_stream_NoPos ==
    /\ Doing("writer", {"put"})
    /\ LET bytes == Next1.arg
       IN  /\ stream.limit >= Len(bytes)
           /\ mem' = Overwritten(bytes)
           /\ stream' = tn_xdr_mem_writer(bytes, stream.pos + Len(bytes))
           /\ Becomes(<<>>, <<>>)

tn_xdr_write_to_stream ==
    /\ Doing("writer", {"put"})
    /\ LET bytes == Next1.arg
           fits == stream.limit - stream.pos >= Len(bytes)
       IN  \/ /\ fits
              /\ mem' = Overwritten(bytes)
              /\ stream' = tn_xdr_mem_writer(bytes, stream.pos + Len(bytes))
              /\ Becomes(<<>>, <<>>)
           \/ fits /\ CallbacksFail /\ Fails("EIO") /\ UNCHANGED <<mem, stream>>
           \/ ~fits /\ Fails("ENOSPC") /\ UNCHANGED <<mem, stream>>

EncodeWord ==
    /\ Doing("writer", Words)
    /\ Becomes(<<Put(Word(Next1.arg))>>, <<<<Next1.arg>>>>)
    /\ UNCHANGED <<mem, stream>>

EncodeWide ==
    /\ Doing("writer", Wides)
    /\ Becomes(<<Put(Word(High(Next1.arg))), Put(Word(Low(Next1.arg)))>>,
               <<<<Next1.arg>>>>)
    /\ UNCHANGED <<mem, stream>>

\* The value's address is cast to that of a whole word.
EncodeSmall ==
    /\ Doing("writer", Smalls)
    /\ LET size == SmallSize(Next1.type.name)
       IN  \E beyond \in 0 .. Power(Unit - size) - 1 :
               Becomes(<<Put(Word(WordAt(Next1.arg, size, beyond)))>>,
                       <<<<Next1.arg>>>>)
    /\ UNCHANGED <<mem, stream>>

EncodeVoid ==
    /\ Doing("writer", {"void"})
    /\ Becomes(<<>>, <<>>)
    /\ UNCHANGED <<mem, stream>>

\* Room for length bytes is required whatever the length counts.
EncodeLength ==
    /\ Doing("writer", {"length"})
    /\ LET length == Next1.arg
       IN  \/ length > WordMax /\ Fails("EOVERFLOW")
           \/ /\ length <= WordMax
              /\ stream.limit - stream.pos < (length + Unit) % SizeMod
              /\ Fails("ENOSPC")
           \/ /\ length <= WordMax
              /\ stream.limit - stream.pos >= (length + Unit) % SizeMod
              /\ Becomes(<<Put(Word(length))>>, <<>>)
    /\ UNCHANGED <<mem, stream>>

\* Mutant: the padding is whatever follows the data.
EncodeBytes_Unzeroed ==
    /\ Doing("writer", {"bytes"})
    /\ LET pad == PadSize(Next1.type.len)
       IN  Becomes(<<Put(Next1.arg), Put([i \in 1 .. pad |-> Stale])>>, <<Next1.arg>>)
    /\ UNCHANGED <<mem, stream>>

EncodeBytes ==
    /\ Doing("writer", {"bytes"})
    /\ LET pad == PadSize(Next1.type.len)
       IN  Becomes(<<Put(Next1.arg)>> \o
                       (IF pad = 0 THEN <<>> ELSE <<Put(Zeros(pad))>>),
                   <<Next1.arg>>)
    /\ UNCHANGED <<mem, stream>>

\* tn_xdr_encode_var_bytes() and, of what strlen() finds, _cstring().
EncodeVarBytes ==
    /\ Doing("writer", {"var_bytes", "cstring"})
    /\ LET bytes == IF Next1.type.name = "cstring" THEN CString(Next1.arg)
                                                   ELSE Next1.arg
       IN  Becomes(<<Length(Len(bytes)), Call(Bytes(Len(bytes)), bytes)>>, <<>>)
    /\ UNCHANGED <<mem, stream>>

\* The loop over a composite's elements, each type with its value.  The code adds
\* elsize to the address to go to the next (xdr.c:480, 558): an encoder's values
\* have no addresses here, and elsize is the size of what is there, so that the
\* i-th address is the i-th value's.  Where decoders store is an address.
Elements(types, values) ==
    [i \in DOMAIN values |-> Call(types[i], values[i])]
Copies(type, n) == [i \in 1 .. n |-> type]

EncodeArray ==
    /\ Doing("writer", {"array"})
    /\ Becomes(Elements(Copies(Next1.type.of[1], Next1.type.len), Next1.arg), <<>>)
    /\ UNCHANGED <<mem, stream>>

EncodeVarArray ==
    /\ Doing("writer", {"var_array"})
    /\ LET n == Len(Next1.arg)
       IN  Becomes(<<Length(n)>> \o Elements(Copies(Next1.type.of[1], n), Next1.arg),
                   <<<<n>>>>)
    /\ UNCHANGED <<mem, stream>>

EncodeStruct ==
    /\ Doing("writer", {"struct"})
    /\ Becomes(Elements(Next1.type.of, Next1.arg), <<>>)
    /\ UNCHANGED <<mem, stream>>

\* A value of a union is its discriminant, counted from 0, and its arm.
EncodeUnion ==
    /\ Doing("writer", {"union"})
    /\ LET discr == Next1.arg.discr
       IN  Becomes(<<Put(Word(discr)), Call(Next1.type.of[discr + 1], Next1.arg.arm)>>,
                   <<<<discr>>>>)
    /\ UNCHANGED <<mem, stream>>

-----------------------------------------------------------------------------
(* Decoders.                                                               *)

\* The next sz bytes of the stream, which the memory reader copies.
Ahead(sz) == [i \in 1 .. sz |-> mem[stream.data + i]]
AheadWord == Ahead(Unit)

\* Mutant: the memory reader does not move data.
tn_xdr_mem_reader_Stuck(sz, pos) == [stream EXCEPT !.pos = pos]

tn_xdr_mem_reader(sz, pos) == [stream EXCEPT !.data = @ + sz, !.pos = pos]

\* tn_xdr_read_from_stream() of sz bytes returns 0, or code.
Reads(sz) ==
    /\ stream.limit - stream.pos >= sz
    /\ stream' = tn_xdr_mem_reader(sz, stream.pos + sz)
ReadFails(sz, code) ==
    /\ \/ stream.limit - stream.pos < sz /\ code = "ENOMSG"
       \/ stream.limit - stream.pos >= sz /\ CallbacksFail /\ code = "EIO"
    /\ UNCHANGED stream

\* What is left once a word has been read.
RestAfterWord == stream.limit - (stream.pos + Unit)

\* What reads a word first.
Needs == Words \cup Wides \cup {"low"} \cup Smalls \cup {"var_bytes", "cstring", "union"}

\* Where a decoder stores what it allocates; how it copies what it reads there.
NewObject == Len(objects) + 1
Copied == [bytes |-> "blob", chars |-> "string"]

\* Mutant: a read that failed is tried again.
DecodeShort_Retries ==
    /\ Doing("reader", Needs)
    /\ ReadFails(Unit, "ENOMSG")
    /\ UNCHANGED vars

\* A failed read ends every decoder but tn_xdr_decode_var_array().
DecodeShort ==
    /\ \/ /\ Doing("reader", Needs)
          /\ \E code \in {"ENOMSG", "EIO"} : ReadFails(Unit, code) /\ Fails(code)
       \/ /\ Doing("reader", {"blob", "string", "pad"})
          /\ \E code \in {"ENOMSG", "EIO"} :
                 ReadFails(Next1.type.len, code) /\ Fails(code)
    /\ UNCHANGED mem

DecodeWord ==
    /\ Doing("reader", Words)
    /\ Reads(Unit)
    /\ Becomes(<<>>, <<<<Integer(AheadWord, IsSigned(Next1.type.name))>>>>)
    /\ UNCHANGED mem

\* Mutant: the high half is read as unsigned.
DecodeHigh_Unsigned ==
    /\ Doing("reader", Wides)
    /\ Reads(Unit)
    /\ Becomes(<<Step("low", 0, Unsigned(AheadWord))>>, <<>>)
    /\ UNCHANGED mem

\* The halves of a 64-bit integer are two reads: the second may fail.
DecodeHigh ==
    /\ Doing("reader", Wides)
    /\ Reads(Unit)
    /\ Becomes(<<Step("low", 0, Integer(AheadWord, IsSigned(Next1.type.name)))>>, <<>>)
    /\ UNCHANGED mem

DecodeLow ==
    /\ Doing("reader", {"low"})
    /\ Reads(Unit)
    /\ Becomes(<<>>, <<<<Wide(Next1.arg, Unsigned(AheadWord))>>>>)
    /\ UNCHANGED mem

DecodeSmall ==
    /\ Doing("reader", Smalls)
    /\ Reads(Unit)
    /\ LET name == Next1.type.name
           buf == Integer(AheadWord, name \notin {"uint8", "uint16"})
       IN  \/ buf \in SmallRange(name) /\ Becomes(<<>>, <<<<buf>>>>)
           \/ buf \notin SmallRange(name) /\ Fails("EOVERFLOW")
    /\ UNCHANGED mem

DecodeVoid ==
    /\ Doing("reader", {"void"})
    /\ Becomes(<<>>, <<>>)
    /\ UNCHANGED <<mem, stream>>

\* Mutant: the padding is left in the stream.
DecodeBytes_Unpadded ==
    /\ Doing("reader", {"bytes", "chars"})
    /\ Becomes(<<Step(Copied[Next1.type.name], Next1.type.len, Next1.arg)>>, <<>>)
    /\ UNCHANGED <<mem, stream>>

\* The data of a byte array, then its padding.
DecodeBytes ==
    /\ Doing("reader", {"bytes", "chars"})
    /\ LET len == Next1.type.len
           pad == PadSize(len)
       IN  Becomes(<<Step(Copied[Next1.type.name], len, Next1.arg)>> \o
                       (IF pad = 0 THEN <<>> ELSE <<Step("pad", pad, NULL)>>),
                   <<>>)
    /\ UNCHANGED <<mem, stream>>

DecodeBlob ==
    /\ Doing("reader", {"blob", "string"})
    /\ LET len == Next1.type.len
       IN  /\ Reads(len)
           /\ Becomes(<<>>, <<IF Next1.type.name = "string" THEN CString(Ahead(len))
                                                            ELSE Ahead(len)>>)
    /\ UNCHANGED mem

DecodePad ==
    /\ Doing("reader", {"pad"})
    /\ LET len == Next1.type.len
       IN  /\ Reads(len)
           /\ \/ Ahead(len) = Zeros(len) /\ Becomes(<<>>, <<>>)
              \/ Ahead(len) # Zeros(len) /\ Fails("EPROTO")
    /\ UNCHANGED mem

\* A terminator, or a pointer with or without a length, is stored.
DecodeStore ==
    /\ Doing("reader", {"nul", "pointer"})
    /\ Becomes(<<>>, <<>>)
    /\ UNCHANGED <<mem, stream>>

\* A length the rest of the stream cannot hold is refused.  No bytes at all are
\* a NULL pointer.
DecodeVarBytes ==
    /\ Doing("reader", {"var_bytes"})
    /\ Reads(Unit)
    /\ LET len == Unsigned(AheadWord)
           buf == NewObject
           store == Step("pointer", 2 * Pointer, Next1.arg)
       IN  \/ len > RestAfterWord /\ Fails("EPROTO")
           \/ len = 0 /\ Becomes(<<store>>, <<<<>>>>)
           \/ /\ len <= RestAfterWord
              /\ len # 0
              /\ Allocates(Append(objects, Object(len, FALSE)),
                           <<Pending(Bytes(len), At(buf, 0)), store>>, <<>>)
    /\ UNCHANGED mem

DecodeCString ==
    /\ Doing("reader", {"cstring"})
    /\ Reads(Unit)
    /\ LET len == Unsigned(AheadWord)
           buf == NewObject
       IN  \/ len > RestAfterWord /\ Fails("EPROTO")
           \/ /\ len <= RestAfterWord
              /\ Allocates(Append(objects, Object(len + 1, FALSE)),
                           <<Step("chars", len, At(buf, 0)), Step("nul", 1, At(buf, len)),
                             Step("pointer", Pointer, Next1.arg)>>,
                           <<>>)
    /\ UNCHANGED mem

\* n values of a type, one after the other in memory.
InRow(type, n, at) ==
    [i \in 1 .. n |-> Pending(type, At(at.obj, at.off + (i - 1) * type.elsize))]

DecodeArray ==
    /\ Doing("reader", {"array"})
    /\ Becomes(InRow(Next1.type.of[1], Next1.type.len, Next1.arg), <<>>)
    /\ UNCHANGED <<mem, stream>>

\* What the decoder of a variable array does with a length, read or not: the
\* product is of two size_t.
ArrayIn(object, declen) ==
    Allocates(Append(objects, object),
              Append(InRow(Next1.type.of[1], declen, At(NewObject, 0)),
                     Step("pointer", 2 * Pointer, Next1.arg)),
              <<<<declen>>>>)

\* Mutant: the length is taken for a size.
ArrayOf_Unscaled(declen, scanned, unread) ==
    ArrayIn([Object(declen, scanned) EXCEPT !.unread = unread], declen)

ArrayOf(declen, scanned, unread) ==
    LET size == Next1.type.of[1].elsize * declen
    IN  ArrayIn([Object(size, scanned) EXCEPT !.unread = unread], declen)

\* Mutant: the array comes from tn_alloc_blob(), as bytes do.
DecodeVarArray_Blob ==
    /\ Doing("reader", {"var_array"})
    /\ Reads(Unit)
    /\ ArrayOf(Unsigned(AheadWord), FALSE, FALSE)
    /\ UNCHANGED mem

\* The status of tn_xdr_decode_length() is not looked at: when it fails, declen
\* is what happened to be on the stack, any size_t.
DecodeVarArray ==
    /\ Doing("reader", {"var_array"})
    /\ LET length == Unsigned(AheadWord)
       IN  \/ Reads(Unit) /\ length <= RestAfterWord /\ ArrayOf(length, TRUE, FALSE)
           \/ /\ \/ Reads(Unit) /\ length > RestAfterWord
                 \/ \E code \in {"ENOMSG", "EIO"} : ReadFails(Unit, code)
              /\ \E junk \in 0 .. SizeMod - 1 : ArrayOf(junk, TRUE, TRUE)
    /\ UNCHANGED mem

DecodeStruct ==
    /\ Doing("reader", {"struct"})
    /\ LET of == Next1.type.of
           at == Next1.arg
       IN  Becomes([i \in DOMAIN of |-> Pending(of[i], At(at.obj, at.off + Offset(of)[i]))],
                   <<>>)
    /\ UNCHANGED <<mem, stream>>

\* The discriminant is a variable of its own, before the arm in memory.
DecodeUnion ==
    /\ Doing("reader", {"union"})
    /\ Reads(Unit)
    /\ LET discr == Unsigned(AheadWord)
           of == Next1.type.of
           at == Next1.arg
       IN  \/ discr >= Len(of) /\ Fails("EPROTO")
           \/ /\ discr < Len(of)
              /\ Becomes(<<Pending(of[discr + 1], At(at.obj, at.off + Unit))>>, <<<<discr>>>>)
    /\ UNCHANGED mem

-----------------------------------------------------------------------------

Encoding ==
    \/ tn_xdr_write_to_stream
    \/ EncodeWord \/ EncodeWide \/ EncodeSmall \/ EncodeVoid
    \/ EncodeLength \/ EncodeBytes \/ EncodeVarBytes
    \/ EncodeArray \/ EncodeVarArray \/ EncodeStruct \/ EncodeUnion

Decoding ==
    \/ DecodeShort
    \/ DecodeWord \/ DecodeHigh \/ DecodeLow \/ DecodeSmall \/ DecodeVoid
    \/ DecodeBytes \/ DecodeBlob \/ DecodePad \/ DecodeStore
    \/ DecodeVarBytes \/ DecodeCString
    \/ DecodeArray \/ DecodeVarArray \/ DecodeStruct \/ DecodeUnion

Next ==
    \/ \E m \in Messages : Encode(m)
    \/ Encoding
    \/ HandOver
    \/ Decode
    \/ Decoding
    \/ Succeeds

\* A call that has been made goes on: the program has one thread.
Spec == Init /\ [][Next]_vars /\ WF_vars(Encoding \/ Decoding \/ Succeeds)

-----------------------------------------------------------------------------
(* Properties.                                                             *)

Statuses == {"OK", "ENOSPC", "ENOMSG", "EPROTO", "EOVERFLOW", "EIO"}

TypeOK ==
    /\ mem \in [1 .. Limit -> Byte]
    /\ stream \in [pos : 0 .. Limit, data : 0 .. Limit, limit : 0 .. Limit]
    /\ phase \in {"writer", "reader"}
    /\ rc \in Statuses
    /\ start \in 0 .. Limit
    /\ wire \in 0 .. Limit
    /\ part \in Seq(Seq(Int))
    /\ objects \in Seq([size : 0 .. SizeMod - 1, scanned : BOOLEAN, unread : BOOLEAN])
    /\ call = NULL => todo = <<>> /\ part = <<>>

\* pos is counted in xdr.c and data advanced by the callbacks of xdr.h: they
\* must agree, and never pass the end of the array nor, when reading, of the
\* message.  The comparison limit - pos < sz (xdr.c:176, 219) is unsigned, and
\* worthless once pos has passed limit.
StreamInBounds ==
    /\ stream.data = stream.pos
    /\ stream.pos <= stream.limit
    /\ phase = "reader" => stream.limit <= wire

\* Whether what a decoder will store, if it stores anything, is within its object.
InBounds(next) ==
    next.type.name \notin {"low", "pad"}
        => next.arg.off + next.type.elsize <= objects[next.arg.obj].size

\* A decoder stores only within the variable it was given or what has been
\* allocated for it: allocations (xdr.c:438, 459, 532) and the strides of arrays
\* and structures (499, 578) agree, whatever lengths the message gives.  That a
\* variable array has a length no message gave is StoresInBounds' matter.
DestinationsInBounds ==
    phase = "reader" =>
        \A i \in DOMAIN todo :
            \/ InBounds(todo[i])
            \/ todo[i].type.name \notin {"low", "pad"} /\ objects[todo[i].arg.obj].unread

\* A value that is decoded is stored within its object.  The size of the object
\* of a variable array is the product in the argument of tn_alloc() at
\* xdr.c:532; it may have wrapped.
StoresInBounds ==
    [][phase = "reader" /\ Len(part') > Len(part) => InBounds(Next1)]_vars

\* Pointers are stored only where the collector finds them, or it would take the
\* data that has just been decoded: tn_alloc_blob() (utils.h:54) is for memory
\* without pointers.
PointersScanned ==
    \A i \in DOMAIN todo :
        todo[i].type.name = "pointer" => objects[todo[i].arg.obj].scanned

\* Every call returns, whatever it is given to encode or finds in the stream: the
\* loop of a variable array (xdr.c:498) ends, though the stream ends before it
\* and though its length may never have been read.
CallsReturn == call # NULL ~> call = NULL

\* No call changes bytes that the calls before it wrote: an item once encoded
\* survives whatever fails after it, and the peer reads what was handed over.
Written == IF phase = "writer" THEN stream.pos ELSE wire
WrittenOnce == [][\A i \in 1 .. Written : mem'[i] = mem[i]]_vars

\* A decoder returns 0 only with the values of the item that was encoded there,
\* having moved past exactly the bytes its encoder wrote.  (The last item may
\* be one whose encoder failed, if it failed after the last byte.)
Channel == INSTANCE TypedChannel WITH
    Items <- [values : Seq(Seq(Int)), end : Nat]

Delivery == Channel!Spec

\* What encoded successfully and arrived whole decodes successfully, unless a
\* callback fails: encoders and decoders agree on every type.
Decodable ==
    phase = "reader" /\ stream.limit = wire /\ rc \notin {"OK", "EIO"}
        => Len(received) >= acked
=============================================================================
