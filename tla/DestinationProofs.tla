-------------------------- MODULE DestinationProofs --------------------------
(***************************************************************************)
(* Where the decoders of xdr.c store: always within what they were given   *)
(* or have allocated, and pointers only where the collector finds them,    *)
(* whatever the stream holds.                                              *)
(***************************************************************************)
EXTENDS XdrProofs

\* No array whose length is read is larger than memory: nothing in
\* tn_xdr_decode_var_array() sees to that (xdr.c:532).  Of a length that was never
\* read nothing is known, and nothing assumed.
ArraysFit ==
    \A type \in Types :
        type.name = "var_array" =>
            \A n \in UnsignedWords : n <= Limit => type.of[1].elsize * n < SizeMod

\* An object has room for what ends at end, if its size is what was asked for.
Room(object, end) == ArraysFit /\ ~object.unread => end <= object.size

\* A call whose place is within its object, in which pointers are found unless
\* it copies bytes.
Copying == {"bytes", "chars", "blob", "string", "nul"}
Fits(c, to) ==
    c.type.name \notin {"low", "pad"} =>
        /\ c.arg.obj \in DOMAIN to
        /\ Room(to[c.arg.obj], c.arg.off + c.type.elsize)
        /\ c.type.name \notin Copying => to[c.arg.obj].scanned

\* What is added to the invariant of XdrProofs to have an inductive one.
AllFit == phase = "reader" => \A i \in DOMAIN todo : Fits(todo[i], objects)

-----------------------------------------------------------------------------
(* What every step of a decoder comes to.                                  *)

\* Objects stay where they are when one more is allocated.
LEMMA Growing ==
    ASSUME IInv, NEW object \in Objects
    PROVE  LET to == Append(objects, object)
           IN  /\ to \in Seq(Objects)
               /\ NewObject \in DOMAIN to /\ to[NewObject] = object
               /\ \A i \in DOMAIN objects : i \in DOMAIN to /\ to[i] = objects[i]
<1>1. objects \in Seq(Objects)
  BY DEF IInv, TypeOK, Objects
<1>2. Len(objects) \in Nat /\ DOMAIN objects = 1 .. Len(objects)
  BY <1>1, LenProperties
<1>. DEFINE to == Append(objects, object)
<1>3. /\ to \in Seq(Objects)
      /\ Len(to) = Len(objects) + 1
      /\ \A i \in 1 .. Len(objects) : to[i] = objects[i]
      /\ to[Len(objects) + 1] = object
  BY <1>1, AppendProperties
<1>4. DOMAIN to = 1 .. Len(objects) + 1
  BY <1>3, LenProperties
<1>. HIDE DEF to
<1>5. NewObject \in DOMAIN to /\ to[NewObject] = object
  BY <1>2, <1>3, <1>4 DEF NewObject
<1>6. \A i \in DOMAIN objects : i \in DOMAIN to /\ to[i] = objects[i]
  BY <1>2, <1>3, <1>4
<1>. QED
  BY <1>3, <1>5, <1>6 DEF to

LEMMA StillFits ==
    ASSUME NEW c, NEW from, NEW to, Fits(c, from),
           \A i \in DOMAIN from : i \in DOMAIN to /\ to[i] = from[i]
    PROVE  Fits(c, to)
BY DEF Fits

LEMMA Placing ==
    ASSUME IInv, AllFit, todo # <<>>, phase = "reader",
           NEW to, \A i \in DOMAIN objects : i \in DOMAIN to /\ to[i] = objects[i],
           NEW calls \in Seq(Waiting), \A i \in DOMAIN calls : Fits(calls[i], to),
           NEW values, Allocates(to, calls, values)
    PROVE  AllFit'
<1>1. \A i \in DOMAIN todo : Fits(todo[i], to)
  BY StillFits DEF AllFit
<1>2. todo' = calls \o Tail(todo) /\ objects' = to
  BY DEF Allocates
<1>3. \A i \in DOMAIN todo' : \/ \E j \in DOMAIN calls : todo'[i] = calls[j]
                              \/ \E j \in DOMAIN todo : todo'[i] = todo[j]
  <2>1. todo \in Seq(Waiting)
    BY DEF IInv
  <2>. DEFINE next == calls \o Tail(todo)
  <2>2. \A i \in DOMAIN next : \/ \E j \in DOMAIN calls : next[i] = calls[j]
                               \/ \E j \in DOMAIN todo : next[i] = todo[j]
    BY <2>1, Replaced
  <2>. HIDE DEF next
  <2>3. todo' = next
    BY <1>2 DEF next
  <2>. QED
    BY <2>2, <2>3
<1>4. \A i \in DOMAIN todo' : Fits(todo'[i], to)
  BY <1>1, <1>3
<1>5. AllFit' = (phase' = "reader" => \A i \in DOMAIN todo' : Fits(todo'[i], objects'))
  BY DEF AllFit, Fits
<1>. QED
  BY <1>2, <1>4, <1>5

LEMMA Replacing ==
    ASSUME IInv, AllFit, todo # <<>>, phase = "reader",
           NEW calls \in Seq(Waiting), \A i \in DOMAIN calls : Fits(calls[i], objects),
           NEW values, Becomes(calls, values)
    PROVE  AllFit'
BY Placing DEF Becomes

LEMMA Done ==
    ASSUME IInv, AllFit, todo # <<>>, phase = "reader",
           NEW values, Becomes(<<>>, values)
    PROVE  AllFit'
<1>1. <<>> \in Seq(Waiting) /\ \A i \in DOMAIN <<>> : Fits(<<>>[i], objects)
  BY EmptySeq
<1>. QED
  BY <1>1, Replacing

LEMMA NothingLeft ==
    ASSUME todo' = <<>>
    PROVE  AllFit'
BY DEF AllFit

LEMMA FailingFits ==
    ASSUME NEW code, Fails(code)
    PROVE  AllFit'
BY NothingLeft DEF Fails

LEMMA NextFits ==
    ASSUME IInv, AllFit, todo # <<>>, phase = "reader"
    PROVE  Fits(Next1, objects)
<1>1. Len(todo) \in Nat \ {0} /\ DOMAIN todo = 1 .. Len(todo)
  BY EmptySeq, LenProperties DEF IInv
<1>2. Next1 = todo[1]
  BY HeadTailProperties DEF IInv, Next1
<1>. QED
  BY <1>1, <1>2 DEF AllFit

\* Sequences of calls all of which fit.
LEMMA FewFit ==
    ASSUME NEW to
    PROVE  /\ \A c : Fits(c, to) => \A i \in DOMAIN <<c>> : Fits(<<c>>[i], to)
           /\ \A c, d : Fits(c, to) /\ Fits(d, to) =>
                  \A i \in DOMAIN <<c, d>> : Fits(<<c, d>>[i], to)
           /\ \A c, d, e : Fits(c, to) /\ Fits(d, to) /\ Fits(e, to) =>
                  \A i \in DOMAIN <<c, d, e>> : Fits(<<c, d, e>>[i], to)
<1>1. /\ \A c : \A i \in DOMAIN <<c>> : <<c>>[i] = c
      /\ \A c, d : \A i \in DOMAIN <<c, d>> : <<c, d>>[i] \in {c, d}
      /\ \A c, d, e : \A i \in DOMAIN <<c, d, e>> : <<c, d, e>>[i] \in {c, d, e}
  OBVIOUS
<1>. QED
  BY <1>1

LEMMA BothFit ==
    ASSUME NEW to, NEW S, NEW calls \in Seq(S), NEW others \in Seq(S),
           \A i \in DOMAIN calls : Fits(calls[i], to),
           \A i \in DOMAIN others : Fits(others[i], to)
    PROVE  \A i \in DOMAIN (calls \o others) : Fits((calls \o others)[i], to)
<1>. DEFINE both == calls \o others
<1>1. /\ Len(calls) \in Nat /\ DOMAIN calls = 1 .. Len(calls)
      /\ Len(others) \in Nat /\ DOMAIN others = 1 .. Len(others)
  BY LenProperties
<1>2. /\ both \in Seq(S)
      /\ Len(both) = Len(calls) + Len(others)
      /\ \A i \in 1 .. Len(calls) + Len(others) :
             both[i] = IF i <= Len(calls) THEN calls[i] ELSE others[i - Len(calls)]
  BY ConcatProperties
<1>3. DOMAIN both = 1 .. Len(calls) + Len(others)
  BY <1>2, LenProperties
<1>. HIDE DEF both
<1>4. ASSUME NEW i \in DOMAIN both PROVE Fits(both[i], to)
  <2>1. CASE i <= Len(calls)
    BY <1>1, <1>2, <1>3, <2>1
  <2>2. CASE i > Len(calls)
    <3>1. i - Len(calls) \in DOMAIN others /\ ~ i <= Len(calls)
      BY <1>1, <1>3, <2>2
    <3>. QED
      BY <1>2, <1>3, <3>1
  <2>. QED
    BY <1>1, <1>3, <2>1, <2>2
<1>. QED
  BY <1>4 DEF both

\* Where a call that clients make stores.
LEMMA ClientFits ==
    ASSUME IInv, AllFit, NEW names \in SUBSET (Names \ {"bytes"}), Doing("reader", names)
    PROVE  /\ todo # <<>> /\ phase = "reader" /\ Waiting = ReaderCalls
           /\ Next1.type \in Types /\ Next1.type.name \in names
           /\ IsType(Next1.type)
           /\ Next1.arg \in Place
           /\ Next1.arg.obj \in DOMAIN objects
           /\ Room(objects[Next1.arg.obj], Next1.arg.off + Next1.type.elsize)
           /\ objects[Next1.arg.obj].scanned
           /\ objects[Next1.arg.obj].size \in Nat
<1>1. /\ todo # <<>> /\ phase = "reader" /\ Waiting = ReaderCalls
      /\ Next1.type \in Types /\ Next1.type.name \in names
      /\ IsType(Next1.type)
      /\ Next1.arg \in Place
  BY ClientPlace
<1>2. Next1.type.name \notin {"low", "pad"} \cup Copying
  BY <1>1 DEF Names, Scalars, Words, Wides, Smalls, Copying
<1>3. /\ Next1.arg.obj \in DOMAIN objects
      /\ Room(objects[Next1.arg.obj], Next1.arg.off + Next1.type.elsize)
      /\ objects[Next1.arg.obj].scanned
  BY <1>1, <1>2, NextFits DEF Fits
<1>4. objects \in Seq(Objects)
  BY DEF IInv, TypeOK, Objects
<1>5. objects[Next1.arg.obj] \in Objects
  BY <1>3, <1>4, ElementOfSeq, LenProperties
<1>6. objects[Next1.arg.obj].size \in Nat
  BY <1>5, XdrAssumption DEF Objects
<1>. QED
  BY <1>1, <1>3, <1>6

-----------------------------------------------------------------------------
(* Decoders.                                                               *)

\* Those that store what they have read, or nothing.
LEMMA StoringFits ==
    ASSUME IInv, AllFit,
           \/ DecodeShort \/ DecodeWord \/ DecodeLow \/ DecodeSmall \/ DecodeVoid
           \/ DecodeBlob \/ DecodePad \/ DecodeStore
    PROVE  AllFit'
<1>1. todo # <<>> /\ phase = "reader"
  BY DEF DecodeShort, DecodeWord, DecodeLow, DecodeSmall, DecodeVoid, DecodeBlob,
         DecodePad, DecodeStore, Doing
<1>2. CASE \E code : Fails(code)
  BY <1>2, FailingFits
<1>3. CASE \E values : Becomes(<<>>, values)
  BY <1>1, <1>3, Done
<1>. QED
  BY <1>2, <1>3
     DEF DecodeShort, DecodeWord, DecodeLow, DecodeSmall, DecodeVoid, DecodeBlob,
         DecodePad, DecodeStore

LEMMA DecodeHighFits ==
    ASSUME IInv, AllFit, DecodeHigh
    PROVE  AllFit'
<1>1. todo # <<>> /\ phase = "reader" /\ Waiting = ReaderCalls /\ StreamOK
  BY FromIInv DEF DecodeHigh, Doing, Waiting
<1>. DEFINE signed == IsSigned(Next1.type.name)
            low == Step("low", 0, Integer(AheadWord, signed))
<1>2. Reads(Unit) /\ Becomes(<<low>>, <<>>)
  BY DEF DecodeHigh
<1>3. signed \in BOOLEAN
  BY DEF IsSigned
<1>. HIDE DEF signed
<1>4. low \in ReaderCalls
  BY <1>1, <1>2, <1>3, WordAhead, ReaderCallMade
<1>5. Fits(low, objects)
  BY CallFields DEF Fits
<1>. HIDE DEF low
<1>6. \A i \in DOMAIN <<low>> : Fits(<<low>>[i], objects)
  BY <1>5, FewFit
<1>. QED
  BY <1>1, <1>2, <1>4, <1>6, OneAndTwo, Replacing

LEMMA DecodeBytesFits ==
    ASSUME IInv, AllFit, DecodeBytes
    PROVE  AllFit'
<1>1. /\ todo # <<>> /\ phase = "reader" /\ Waiting = ReaderCalls
      /\ Next1.type.name \in {"bytes", "chars"}
      /\ Next1.type.len \in Nat /\ Next1.arg \in Place
  BY CopyPlace DEF DecodeBytes
<1>. DEFINE len == Next1.type.len
            copy == Copied[Next1.type.name]
            pad == PadSize(len)
            padding == IF pad = 0 THEN <<>> ELSE <<Step("pad", pad, NULL)>>
            blob == Step(copy, len, Next1.arg)
<1>2. Becomes(<<blob>> \o padding, <<>>)
  BY DEF DecodeBytes
<1>3. copy \in {"blob", "string"}
  BY <1>1 DEF Copied
<1>4. pad \in Nat
  BY <1>1, PadSizeIs
<1>5. /\ Next1.arg.obj \in DOMAIN objects
      /\ Room(objects[Next1.arg.obj], Next1.arg.off + Next1.type.elsize)
  BY <1>1, NextFits DEF Fits
<1>6. Next1.type.elsize = len
  <2>1. CASE Next1.type \in Types
    <3>1. Next1.type.name \in Names
      BY <2>1, IsTypeOf
    <3>2. Next1.type.name = "bytes"
      BY <1>1, <3>1 DEF Names, Scalars, Words, Wides, Smalls
    <3>. QED
      BY <2>1, <3>2, TypesAssumption DEF IsType
  <2>2. CASE \E name, n, at : Next1 = Step(name, n, at)
    BY <2>2, CallFields
  <2>3. Next1 \in ReaderCalls
    BY <1>1, FromIInv
  <2>. QED
    BY <2>1, <2>2, <2>3, CallFields DEF ReaderCalls, Pending
<1>. HIDE DEF copy, pad
<1>7. blob \in ReaderCalls /\ Fits(blob, objects)
  <2>1. blob \in ReaderCalls
    BY <1>1, <1>3, ReaderCallMade
  <2>2. blob.type.name \in Copying /\ blob.type.elsize = len /\ blob.arg = Next1.arg
    BY <1>3, CallFields DEF Copying
  <2>. QED
    BY <1>5, <1>6, <2>1, <2>2 DEF Fits
<1>8. /\ padding \in Seq(Waiting)
      /\ \A i \in DOMAIN padding : Fits(padding[i], objects)
  <2>1. CASE pad = 0
    BY <2>1, EmptySeq
  <2>2. CASE pad # 0
    <3>1. Step("pad", pad, NULL) \in ReaderCalls /\ Fits(Step("pad", pad, NULL), objects)
      BY <1>4, ReaderCallMade, CallFields DEF Fits
    <3>. QED
      BY <1>1, <2>2, <3>1, OneAndTwo, FewFit
  <2>. QED
    BY <2>1, <2>2
<1>. HIDE DEF blob, padding
<1>9. <<blob>> \in Seq(Waiting) /\ \A i \in DOMAIN <<blob>> : Fits(<<blob>>[i], objects)
  BY <1>1, <1>7, OneAndTwo, FewFit
<1>10. <<blob>> \o padding \in Seq(Waiting)
  BY <1>8, <1>9, ConcatProperties
<1>11. \A i \in DOMAIN (<<blob>> \o padding) : Fits((<<blob>> \o padding)[i], objects)
  BY <1>8, <1>9, BothFit
<1>. QED
  BY <1>1, <1>2, <1>10, <1>11, Replacing

\* What tn_alloc() and tn_alloc_blob() are asked for is what they give, if it is
\* not larger than memory.
LEMMA SizeKept ==
    ASSUME NEW size \in 0 .. SizeMod - 1
    PROVE  \A scanned :
               /\ Object(size, scanned) =
                      [size |-> size, scanned |-> scanned, unread |-> FALSE]
               /\ Object(size, scanned).size = size
<1>1. SizeMod \in Nat \ {0}
  BY XdrAssumption
<1>2. size % SizeMod = size
  <2>1. size = (0 * SizeMod) + size
    BY <1>1
  <2>. QED
    BY <1>1, <2>1, DivisionUnique
<1>. QED
  BY <1>2 DEF Object

\* The length of bytes that the rest of the stream can hold.
LEMMA LengthLeft ==
    ASSUME StreamOK, Reads(Unit), Unsigned(AheadWord) <= RestAfterWord
    PROVE  Unsigned(AheadWord) \in Nat /\ Unsigned(AheadWord) + 1 < SizeMod
<1>. DEFINE len == Unsigned(AheadWord)
<1>1. len \in Nat
  BY WordAhead
<1>2. /\ Limit \in Nat /\ Limit < SizeMod /\ SizeMod \in Nat
      /\ stream.limit \in 0 .. Limit /\ stream.pos \in 0 .. Limit
  BY XdrAssumption DEF StreamOK
<1>3. len <= stream.limit - (stream.pos + 4)
  BY DEF RestAfterWord, Unit
<1>. HIDE DEF len
<1>4. len \in Nat /\ len + 1 < SizeMod
  BY <1>1, <1>2, <1>3
<1>. QED
  BY <1>4 DEF len

LEMMA DecodeVarBytesFits ==
    ASSUME IInv, AllFit, DecodeVarBytes
    PROVE  AllFit'
<1>1. {"var_bytes"} \subseteq Names \ {"bytes"}
  BY DEF Names, Scalars
<1>2. /\ todo # <<>> /\ phase = "reader" /\ Waiting = ReaderCalls
      /\ Next1.type.name = "var_bytes"
      /\ IsType(Next1.type)
      /\ Next1.arg \in Place
      /\ Next1.arg.obj \in DOMAIN objects
      /\ Room(objects[Next1.arg.obj], Next1.arg.off + Next1.type.elsize)
      /\ objects[Next1.arg.obj].scanned
  BY <1>1, ClientFits DEF DecodeVarBytes
<1>3. Next1.type.elsize = 2 * Pointer
  BY <1>2 DEF IsType, ScalarSize, Scalars, Words, Wides, Smalls
<1>. DEFINE len == Unsigned(AheadWord)
            object == Object(len, FALSE)
            to == Append(objects, object)
            data == Step("bytes", len, At(NewObject, 0))
            store == Step("pointer", 2 * Pointer, Next1.arg)
<1>4. Pending(Bytes(len), At(NewObject, 0)) = data
  BY DEF Pending, Step, Bytes
<1>5. \/ Fails("EPROTO")
      \/ Becomes(<<store>>, <<<<>>>>)
      \/ len <= RestAfterWord /\ Allocates(to, <<data, store>>, <<>>)
  BY <1>4 DEF DecodeVarBytes
<1>6. store \in ReaderCalls /\ Fits(store, objects)
  <2>1. store \in ReaderCalls
    BY <1>2, ReaderCallMade, 2 * 8 \in Nat DEF Pointer
  <2>2. store.type.elsize = Next1.type.elsize /\ store.arg = Next1.arg
    BY <1>3, CallFields
  <2>. HIDE DEF store
  <2>. QED
    BY <1>2, <2>1, <2>2 DEF Fits
<1>. HIDE DEF store
<1>7. CASE Becomes(<<store>>, <<<<>>>>)
  BY <1>2, <1>6, <1>7, OneAndTwo, FewFit, Replacing
<1>8. CASE len <= RestAfterWord /\ Allocates(to, <<data, store>>, <<>>)
  <2>1. len \in Nat /\ len + 1 < SizeMod
    BY <1>2, <1>8, FromIInv, LengthLeft DEF DecodeVarBytes
  <2>. HIDE DEF len
  <2>2. len \in 0 .. SizeMod - 1
    BY <2>1, XdrAssumption
  <2>3. object \in Objects /\ object.size = len
    <3>1. object \in Objects
      BY <2>1, Allocated
    <3>2. object = [size |-> len, scanned |-> FALSE, unread |-> FALSE]
      BY <2>2, SizeKept
    <3>. HIDE DEF object
    <3>. QED
      BY <3>1, <3>2
  <2>. HIDE DEF object
  <2>4. /\ NewObject \in DOMAIN to /\ to[NewObject] = object
        /\ \A i \in DOMAIN objects : i \in DOMAIN to /\ to[i] = objects[i]
    BY <2>3, Growing
  <2>. HIDE DEF to
  <2>5. data \in ReaderCalls
    BY <2>1, InNewObject, ReaderCallMade
  <2>6. Fits(data, to)
    <3>1. data.type.name = "bytes" /\ data.type.elsize = len
          /\ data.arg.obj = NewObject /\ data.arg.off = 0
      BY CallFields DEF At
    <3>. HIDE DEF data
    <3>. QED
      BY <2>1, <2>3, <2>4, <3>1 DEF Fits, Copying, Room
  <2>. HIDE DEF data
  <2>7. Fits(store, to)
    BY <1>6, <2>4, StillFits
  <2>8. \A i \in DOMAIN <<data, store>> : Fits(<<data, store>>[i], to)
    BY <2>6, <2>7, FewFit
  <2>9. <<data, store>> \in Seq(Waiting)
    BY <1>2, <1>6, <2>5, OneAndTwo
  <2>. QED
    BY <1>2, <1>8, <2>4, <2>8, <2>9, Placing
<1>. QED
  BY <1>5, <1>7, <1>8, FailingFits

LEMMA DecodeCStringFits ==
    ASSUME IInv, AllFit, DecodeCString
    PROVE  AllFit'
<1>1. {"cstring"} \subseteq Names \ {"bytes"}
  BY DEF Names, Scalars
<1>2. /\ todo # <<>> /\ phase = "reader" /\ Waiting = ReaderCalls
      /\ Next1.type.name = "cstring"
      /\ IsType(Next1.type)
      /\ Next1.arg \in Place
      /\ Next1.arg.obj \in DOMAIN objects
      /\ Room(objects[Next1.arg.obj], Next1.arg.off + Next1.type.elsize)
      /\ objects[Next1.arg.obj].scanned
  BY <1>1, ClientFits DEF DecodeCString
<1>3. Next1.type.elsize = Pointer
  BY <1>2 DEF IsType, ScalarSize, Scalars, Words, Wides, Smalls
<1>. DEFINE len == Unsigned(AheadWord)
            object == Object(len + 1, FALSE)
            to == Append(objects, object)
            chars == Step("chars", len, At(NewObject, 0))
            nul == Step("nul", 1, At(NewObject, len))
            store == Step("pointer", Pointer, Next1.arg)
<1>4. \/ Fails("EPROTO")
      \/ len <= RestAfterWord /\ Allocates(to, <<chars, nul, store>>, <<>>)
  BY DEF DecodeCString
<1>5. store \in ReaderCalls /\ Fits(store, objects)
  <2>1. store \in ReaderCalls
    BY <1>2, ReaderCallMade DEF Pointer
  <2>2. store.type.elsize = Next1.type.elsize /\ store.arg = Next1.arg
    BY <1>3, CallFields
  <2>. HIDE DEF store
  <2>. QED
    BY <1>2, <2>1, <2>2 DEF Fits
<1>. HIDE DEF store
<1>6. CASE len <= RestAfterWord /\ Allocates(to, <<chars, nul, store>>, <<>>)
  <2>1. len \in Nat /\ len + 1 < SizeMod
    BY <1>2, <1>6, FromIInv, LengthLeft DEF DecodeCString
  <2>. HIDE DEF len
  <2>2. len + 1 \in 0 .. SizeMod - 1 /\ len + 1 \in Nat
    BY <2>1, XdrAssumption
  <2>3. object \in Objects /\ object.size = len + 1
    <3>1. object \in Objects
      BY <2>2, Allocated
    <3>2. object = [size |-> len + 1, scanned |-> FALSE, unread |-> FALSE]
      BY <2>2, SizeKept
    <3>. HIDE DEF object
    <3>. QED
      BY <3>1, <3>2
  <2>. HIDE DEF object
  <2>4. /\ NewObject \in DOMAIN to /\ to[NewObject] = object
        /\ \A i \in DOMAIN objects : i \in DOMAIN to /\ to[i] = objects[i]
    BY <2>3, Growing
  <2>. HIDE DEF to
  <2>5. chars \in ReaderCalls /\ nul \in ReaderCalls
    BY <2>1, InNewObject, ReaderCallMade
  <2>6. Fits(chars, to) /\ Fits(nul, to)
    <3>1. /\ chars.type.name = "chars" /\ chars.type.elsize = len
          /\ chars.arg.obj = NewObject /\ chars.arg.off = 0
          /\ nul.type.name = "nul" /\ nul.type.elsize = 1
          /\ nul.arg.obj = NewObject /\ nul.arg.off = len
      BY CallFields DEF At
    <3>. HIDE DEF chars, nul
    <3>. QED
      BY <2>1, <2>3, <2>4, <3>1 DEF Fits, Copying, Room
  <2>. HIDE DEF chars, nul
  <2>7. Fits(store, to)
    BY <1>5, <2>4, StillFits
  <2>. DEFINE calls == <<chars, nul, store>>
  <2>8. \A i \in DOMAIN calls : Fits(calls[i], to)
    BY <2>6, <2>7, FewFit
  <2>9. calls \in Seq(Waiting)
    BY <1>2, <1>5, <2>5
  <2>10. Allocates(to, calls, <<>>)
    BY <1>6
  <2>. HIDE DEF calls
  <2>. QED
    BY <1>2, <2>4, <2>8, <2>9, <2>10, Placing
<1>. QED
  BY <1>4, <1>6, FailingFits

-----------------------------------------------------------------------------
(* Decoders of composite types.                                            *)

\* n elements of size e have room for each.
LEMMA Strides ==
    ASSUME NEW n \in Nat, NEW e \in Nat, NEW i \in 1 .. n
    PROVE  (i - 1) * e \in Nat /\ ((i - 1) * e) + e <= n * e
<1>1. (n - i) * e \in Nat /\ (i - 1) * e \in Nat
  <2>1. n - i \in Nat /\ i - 1 \in Nat
    OBVIOUS
  <2>2. \A a, b \in Nat : a * b \in Nat
    OBVIOUS
  <2>. QED
    BY <2>1, <2>2
<1>2. n * e = ((n - i) * e) + ((i - 1) * e) + e
  OBVIOUS
<1>. QED
  BY <1>1, <1>2

LEMMA RowFits ==
    ASSUME NEW type \in Types, NEW n \in Nat, NEW at \in Place, NEW to,
           at.obj \in DOMAIN to, to[at.obj].scanned, to[at.obj].size \in Nat,
           Room(to[at.obj], at.off + (n * type.elsize))
    PROVE  \A i \in DOMAIN InRow(type, n, at) : Fits(InRow(type, n, at)[i], to)
<1>. SUFFICES ASSUME NEW i \in 1 .. n PROVE Fits(InRow(type, n, at)[i], to)
  BY DEF InRow
<1>. DEFINE c == InRow(type, n, at)[i]
            shift == (i - 1) * type.elsize
            whole == n * type.elsize
<1>1. c.type.elsize = type.elsize /\ c.arg.obj = at.obj /\ c.arg.off = at.off + shift
  BY CallFields DEF InRow, Pending, At
<1>2. type.elsize \in Nat /\ at.off \in Nat
  BY IsTypeOf DEF Place
<1>3. shift \in Nat /\ shift + type.elsize <= whole /\ whole \in Nat
  BY <1>2, Strides
<1>4. Room(to[at.obj], at.off + whole)
  OBVIOUS
<1>. HIDE DEF c, shift, whole
<1>5. Room(to[at.obj], c.arg.off + c.type.elsize)
  BY <1>1, <1>2, <1>3, <1>4 DEF Room
<1>6. Fits(c, to)
  BY <1>1, <1>5 DEF Fits
<1>. QED
  BY <1>6 DEF c

LEMMA DecodeArrayFits ==
    ASSUME IInv, AllFit, DecodeArray
    PROVE  AllFit'
<1>1. {"array"} \subseteq Names \ {"bytes"}
  BY DEF Names
<1>2. /\ todo # <<>> /\ phase = "reader" /\ Waiting = ReaderCalls
      /\ Next1.type \in Types /\ Next1.type.name = "array"
      /\ IsType(Next1.type)
      /\ Next1.arg \in Place
      /\ Next1.arg.obj \in DOMAIN objects
      /\ Room(objects[Next1.arg.obj], Next1.arg.off + Next1.type.elsize)
      /\ objects[Next1.arg.obj].scanned
      /\ objects[Next1.arg.obj].size \in Nat
  BY <1>1, ClientFits DEF DecodeArray
<1>. DEFINE elt == Next1.type.of[1]
            n == Next1.type.len
            calls == InRow(elt, n, Next1.arg)
<1>3. Next1.type.elsize = n * elt.elsize
  BY <1>2 DEF IsType
<1>4. elt \in Types /\ n \in Nat
  BY <1>2, IsTypeOf, ElementType
<1>5. Becomes(calls, <<>>)
  BY DEF DecodeArray
<1>. HIDE DEF elt, n
<1>6. calls \in Seq(Waiting)
  BY <1>2, <1>4, RowOfCalls
<1>7. \A i \in DOMAIN calls : Fits(calls[i], objects)
  BY <1>2, <1>3, <1>4, RowFits
<1>. HIDE DEF calls
<1>. QED
  BY <1>2, <1>5, <1>6, <1>7, Replacing

LEMMA DecodeVarArrayFits ==
    ASSUME IInv, AllFit, DecodeVarArray
    PROVE  AllFit'
<1>1. {"var_array"} \subseteq Names \ {"bytes"}
  BY DEF Names
<1>2. /\ todo # <<>> /\ phase = "reader" /\ Waiting = ReaderCalls
      /\ Next1.type \in Types /\ Next1.type.name = "var_array"
      /\ IsType(Next1.type)
      /\ Next1.arg \in Place
      /\ Next1.arg.obj \in DOMAIN objects
      /\ Room(objects[Next1.arg.obj], Next1.arg.off + Next1.type.elsize)
      /\ objects[Next1.arg.obj].scanned
  BY <1>1, ClientFits DEF DecodeVarArray
<1>3. PICK declen \in Nat, unread \in BOOLEAN :
          /\ ArrayOf(declen, TRUE, unread)
          /\ ~unread => declen \in UnsignedWords /\ declen <= Limit
  BY <1>2, FromIInv, ArrayLength
<1>. DEFINE elt == Next1.type.of[1]
            size == elt.elsize * declen
            object == [Object(size, TRUE) EXCEPT !.unread = unread]
            to == Append(objects, object)
            row == InRow(elt, declen, At(NewObject, 0))
            store == Step("pointer", 2 * Pointer, Next1.arg)
<1>4. Allocates(to, Append(row, store), <<<<declen>>>>)
  BY <1>3 DEF ArrayOf, ArrayIn
<1>5. declen \in Nat /\ elt \in Types
  BY <1>2, ElementType
<1>6. ArraysFit /\ ~unread => size < SizeMod
  BY <1>2, <1>3 DEF ArraysFit
<1>7. Next1.type.elsize = 2 * Pointer
  BY <1>2 DEF IsType
<1>8. elt.elsize \in Nat
  BY <1>5, IsTypeOf
<1>. HIDE DEF elt
<1>9. size \in Nat /\ size = declen * elt.elsize
  BY <1>5, <1>8
<1>. HIDE DEF size
<1>10. /\ object \in Objects /\ object.scanned /\ object.unread = unread
       /\ object.size \in Nat
       /\ Room(object, size)
  <2>1. object \in Objects
    BY <1>9, Allocated
  <2>2. object.scanned /\ object.unread = unread /\ object.size = Object(size, TRUE).size
    BY DEF Object
  <2>. HIDE DEF object
  <2>3. ASSUME ArraysFit, ~unread PROVE object.size = size
    <3>1. size \in 0 .. SizeMod - 1
      BY <1>6, <1>9, <2>3, XdrAssumption
    <3>2. Object(size, TRUE).size = size
      BY <3>1, SizeKept
    <3>. QED
      BY <2>2, <3>2
  <2>4. object.size \in Nat
    BY <2>1, XdrAssumption DEF Objects
  <2>5. ArraysFit /\ ~object.unread => object.size = size
    BY <2>2, <2>3
  <2>6. Room(object, size)
    BY <1>9, <2>5 DEF Room
  <2>. QED
    BY <2>1, <2>2, <2>4, <2>6
<1>. HIDE DEF object
<1>11. /\ NewObject \in DOMAIN to /\ to[NewObject] = object
       /\ \A i \in DOMAIN objects : i \in DOMAIN to /\ to[i] = objects[i]
  BY <1>10, Growing
<1>. HIDE DEF to
<1>12. At(NewObject, 0) \in Place
  BY InNewObject
<1>13. row \in Seq(Waiting)
  BY <1>2, <1>5, <1>12, RowOfCalls
<1>14. \A i \in DOMAIN row : Fits(row[i], to)
  <2>. DEFINE at == At(NewObject, 0)
              whole == declen * elt.elsize
  <2>1. at.obj = NewObject /\ at.off = 0 /\ at \in Place
    BY <1>12 DEF At
  <2>2. whole = size
    BY <1>9
  <2>3. Room(to[at.obj], at.off + whole) /\ to[at.obj].size \in Nat
    <3>. HIDE DEF at, whole
    <3>1. at.off + whole = size
      BY <1>9, <2>1, <2>2
    <3>. QED
      BY <1>10, <1>11, <2>1, <3>1
  <2>4. at.obj \in DOMAIN to /\ to[at.obj].scanned
    <3>. HIDE DEF at
    <3>. QED
      BY <1>10, <1>11, <2>1
  <2>. HIDE DEF at
  <2>5. \A i \in DOMAIN InRow(elt, declen, at) : Fits(InRow(elt, declen, at)[i], to)
    BY <1>5, <2>1, <2>3, <2>4, RowFits
  <2>. QED
    BY <2>5 DEF at
<1>15. store \in ReaderCalls /\ Fits(store, to)
  <2>1. store \in ReaderCalls
    BY <1>2, ReaderCallMade, 2 * 8 \in Nat DEF Pointer
  <2>2. store.type.elsize = Next1.type.elsize /\ store.arg = Next1.arg
    BY <1>7, CallFields
  <2>. HIDE DEF store
  <2>3. Fits(store, objects)
    BY <1>2, <2>1, <2>2 DEF Fits
  <2>. QED
    BY <1>11, <2>1, <2>3, StillFits
<1>. HIDE DEF row, store
<1>16. /\ <<store>> \in Seq(Waiting)
       /\ \A i \in DOMAIN <<store>> : Fits(<<store>>[i], to)
  BY <1>2, <1>15, OneAndTwo, FewFit
<1>. DEFINE calls == row \o <<store>>
<1>17. Append(row, store) = calls
  BY <1>2, <1>13, <1>15, AppendIsConcat
<1>18. calls \in Seq(Waiting)
  BY <1>13, <1>16, ConcatProperties
<1>19. \A i \in DOMAIN calls : Fits(calls[i], to)
  BY <1>13, <1>14, <1>16, BothFit
<1>. HIDE DEF calls
<1>. QED
  BY <1>2, <1>4, <1>11, <1>17, <1>18, <1>19, Placing

LEMMA DecodeStructFits ==
    ASSUME IInv, AllFit, DecodeStruct
    PROVE  AllFit'
<1>1. {"struct"} \subseteq Names \ {"bytes"}
  BY DEF Names
<1>2. /\ todo # <<>> /\ phase = "reader" /\ Waiting = ReaderCalls
      /\ Next1.type \in Types /\ Next1.type.name = "struct"
      /\ IsType(Next1.type)
      /\ Next1.arg \in Place
      /\ Next1.arg.obj \in DOMAIN objects
      /\ Room(objects[Next1.arg.obj], Next1.arg.off + Next1.type.elsize)
      /\ objects[Next1.arg.obj].scanned
      /\ objects[Next1.arg.obj].size \in Nat
  BY <1>1, ClientFits DEF DecodeStruct
<1>. DEFINE of == Next1.type.of
            at == Next1.arg
            end == Offset(of)[Len(of) + 1]
            calls == [i \in DOMAIN of |-> Pending(of[i], At(at.obj, at.off + Offset(of)[i]))]
<1>3. Becomes(calls, <<>>)
  BY DEF DecodeStruct
<1>4. of \in Seq(Types) /\ Next1.type.elsize \in Nat /\ at.obj \in Nat /\ at.off \in Nat
  BY <1>2, IsTypeOf DEF Place
<1>5. end <= Next1.type.elsize
  BY <1>2 DEF IsType
<1>. HIDE DEF of
<1>6. /\ Len(of) \in Nat /\ DOMAIN of = 1 .. Len(of)
      /\ \A i \in DOMAIN of : of[i] \in Types
  BY <1>4, LenProperties, ElementOfSeq
<1>7. \A i \in DOMAIN of : /\ Offset(of)[i] \in Nat
                          /\ Offset(of)[i] + of[i].elsize <= end
                          /\ end \in Nat
  <2>. SUFFICES ASSUME NEW i \in DOMAIN of
                PROVE  /\ Offset(of)[i] \in Nat
                       /\ Offset(of)[i] + of[i].elsize <= end
                       /\ end \in Nat
    OBVIOUS
  <2>1. /\ i \in 1 .. Len(of) + 1 /\ Len(of) + 1 \in 1 .. Len(of) + 1
        /\ i \in 1 .. (Len(of) + 1) - 1
    BY <1>6
  <2>. QED
    BY <1>4, <2>1, OffsetsApart
<1>. HIDE DEF end
<1>8. \A i \in DOMAIN of : calls[i] \in ReaderCalls /\ Fits(calls[i], objects)
  <2>. SUFFICES ASSUME NEW i \in DOMAIN of
                PROVE  calls[i] \in ReaderCalls /\ Fits(calls[i], objects)
    OBVIOUS
  <2>. DEFINE c == calls[i]
              place == At(at.obj, at.off + Offset(of)[i])
  <2>1. place \in Place
    BY <1>4, <1>7 DEF At, Place
  <2>2. c = Pending(of[i], place)
    OBVIOUS
  <2>3. c \in ReaderCalls
    BY <1>6, <2>1, <2>2, ReaderCallMade
  <2>4. c.type = of[i] /\ c.arg.obj = at.obj /\ c.arg.off = at.off + Offset(of)[i]
    BY <2>2, CallFields DEF Pending, At
  <2>5. of[i].elsize \in Nat
    BY <1>6, IsTypeOf
  <2>. HIDE DEF c
  <2>6. Room(objects[at.obj], c.arg.off + c.type.elsize)
    <3>. SUFFICES ASSUME ArraysFit, ~objects[at.obj].unread
                  PROVE  c.arg.off + c.type.elsize <= objects[at.obj].size
      BY DEF Room
    <3>. DEFINE off == Offset(of)[i]
                size == objects[at.obj].size
    <3>1. off \in Nat /\ off + of[i].elsize <= end /\ end \in Nat
      BY <1>7
    <3>2. at.off + Next1.type.elsize <= size /\ size \in Nat
      BY <1>2 DEF Room
    <3>3. c.arg.off = at.off + off /\ c.type = of[i]
      BY <2>4
    <3>. HIDE DEF off, size, at
    <3>4. (at.off + off) + of[i].elsize <= size
      BY <1>4, <1>5, <2>5, <3>1, <3>2
    <3>. QED
      BY <3>3, <3>4 DEF size
  <2>7. Fits(c, objects)
    BY <1>2, <2>4, <2>6 DEF Fits
  <2>. QED
    BY <2>3, <2>7 DEF c
<1>9. DOMAIN calls = 1 .. Len(of) /\ calls \in [1 .. Len(of) -> ReaderCalls]
  BY <1>6, <1>8
<1>10. \A i \in DOMAIN calls : Fits(calls[i], objects)
  BY <1>8
<1>. HIDE DEF calls
<1>11. calls \in Seq(Waiting)
  BY <1>2, <1>6, <1>9, FunctionIsSeq
<1>. QED
  BY <1>2, <1>3, <1>10, <1>11, Replacing

LEMMA DecodeUnionFits ==
    ASSUME IInv, AllFit, DecodeUnion
    PROVE  AllFit'
<1>1. {"union"} \subseteq Names \ {"bytes"}
  BY DEF Names
<1>2. /\ todo # <<>> /\ phase = "reader" /\ Waiting = ReaderCalls
      /\ Next1.type \in Types /\ Next1.type.name = "union"
      /\ IsType(Next1.type)
      /\ Next1.arg \in Place
      /\ Next1.arg.obj \in DOMAIN objects
      /\ Room(objects[Next1.arg.obj], Next1.arg.off + Next1.type.elsize)
      /\ objects[Next1.arg.obj].scanned
      /\ objects[Next1.arg.obj].size \in Nat
  BY <1>1, ClientFits DEF DecodeUnion
<1>. DEFINE discr == Unsigned(AheadWord)
            of == Next1.type.of
            at == Next1.arg
            place == At(at.obj, at.off + Unit)
            arm == Pending(of[discr + 1], place)
<1>3. \/ Fails("EPROTO")
      \/ discr < Len(of) /\ Becomes(<<arm>>, <<<<discr>>>>)
  BY DEF DecodeUnion
<1>4. /\ of \in Seq(Types) /\ Len(of) \in Nat /\ DOMAIN of = 1 .. Len(of)
      /\ Next1.type.elsize \in Nat /\ at.obj \in Nat /\ at.off \in Nat
  BY <1>2, IsTypeOf, LenProperties DEF Place
<1>5. \A i \in DOMAIN of : Next1.type.elsize >= Unit + of[i].elsize
  BY <1>2 DEF IsType
<1>6. discr \in Nat
  BY <1>2, FromIInv, WordAhead DEF DecodeUnion
<1>. HIDE DEF discr, of
<1>7. CASE discr < Len(of) /\ Becomes(<<arm>>, <<<<discr>>>>)
  <2>1. discr + 1 \in 1 .. Len(of)
    BY <1>4, <1>6, <1>7
  <2>2. of[discr + 1] \in Types
    BY <1>4, <2>1, ElementOfSeq
  <2>3. place \in Place
    BY <1>4 DEF Place, At, Unit
  <2>4. arm \in ReaderCalls
    BY <2>2, <2>3, ReaderCallMade
  <2>5. arm.type = of[discr + 1] /\ arm.arg.obj = at.obj /\ arm.arg.off = at.off + Unit
    BY CallFields DEF Pending, At
  <2>6. of[discr + 1].elsize \in Nat /\ Next1.type.elsize >= Unit + of[discr + 1].elsize
    BY <1>4, <1>5, <2>1, <2>2, IsTypeOf
  <2>. HIDE DEF arm
  <2>7. Room(objects[at.obj], arm.arg.off + arm.type.elsize)
    <3>. SUFFICES ASSUME ArraysFit, ~objects[at.obj].unread
                  PROVE  arm.arg.off + arm.type.elsize <= objects[at.obj].size
      BY DEF Room
    <3>. DEFINE size == objects[at.obj].size
    <3>1. at.off + Next1.type.elsize <= size /\ size \in Nat
      BY <1>2 DEF Room
    <3>. HIDE DEF size, at
    <3>2. (at.off + 4) + of[discr + 1].elsize <= size
      BY <1>4, <2>6, <3>1 DEF Unit
    <3>. QED
      BY <2>5, <3>2 DEF Unit, size
  <2>8. Fits(arm, objects)
    BY <1>2, <2>5, <2>7 DEF Fits
  <2>9. <<arm>> \in Seq(Waiting) /\ \A i \in DOMAIN <<arm>> : Fits(<<arm>>[i], objects)
    BY <1>2, <2>4, <2>8, OneAndTwo, FewFit
  <2>. QED
    BY <1>2, <1>7, <2>9, Replacing
<1>. QED
  BY <1>3, <1>7, FailingFits

LEMMA DecodingFits ==
    ASSUME IInv, AllFit, Decoding
    PROVE  AllFit'
BY StoringFits, DecodeHighFits, DecodeBytesFits, DecodeVarBytesFits, DecodeCStringFits,
   DecodeArrayFits, DecodeVarArrayFits, DecodeStructFits, DecodeUnionFits
   DEF Decoding

\* The variable that a client gives is as large as its type says.
LEMMA DecodeFits ==
    ASSUME IInv, Decode
    PROVE  AllFit'
<1>. DEFINE type == script[Len(received) + 1]
            object == Object(type.elsize, TRUE)
            c == Pending(type, At(1, 0))
<1>1. Len(received) < Len(script) /\ todo' = <<c>> /\ objects' = <<object>>
  BY DEF Decode
<1>2. type \in Types
  <2>1. Len(received) \in Nat /\ Len(script) \in Nat
    BY LenProperties DEF IInv
  <2>2. Len(received) + 1 \in 1 .. Len(script)
    BY <1>1, <2>1
  <2>. QED
    BY <2>2, ElementOfSeq DEF IInv
<1>. HIDE DEF type
<1>3. type.elsize \in 0 .. SizeMod - 1 /\ type.elsize \in Nat
  BY <1>2, TypesAssumption, IsTypeOf DEF IsType
<1>4. object = [size |-> type.elsize, scanned |-> TRUE, unread |-> FALSE]
  BY <1>3, SizeKept
<1>5. c.type = type /\ c.arg.obj = 1 /\ c.arg.off = 0
  BY CallFields DEF Pending, At
<1>. HIDE DEF object, c
<1>6. Fits(c, <<object>>)
  BY <1>3, <1>4, <1>5 DEF Fits, Room
<1>7. \A i \in DOMAIN <<c>> : Fits(<<c>>[i], <<object>>)
  BY <1>6, FewFit
<1>8. AllFit' = (phase' = "reader" => \A i \in DOMAIN todo' : Fits(todo'[i], objects'))
  BY DEF AllFit, Fits
<1>. QED
  BY <1>1, <1>7, <1>8

-----------------------------------------------------------------------------
(* The theorems.                                                           *)

LEMMA NextFit == IInv /\ AllFit /\ [Next]_vars => AllFit'
<1>. SUFFICES ASSUME IInv, AllFit, [Next]_vars PROVE AllFit'
  OBVIOUS
<1>1. CASE Decoding
  BY <1>1, DecodingFits
<1>2. CASE phase' = "writer"
  BY <1>2 DEF AllFit
<1>3. CASE Encoding
  <2>1. phase = "writer"
    BY <1>3
       DEF Encoding, tn_xdr_write_to_stream, EncodeWord, EncodeWide, EncodeSmall,
           EncodeVoid, EncodeLength, EncodeBytes, EncodeVarBytes, EncodeArray,
           EncodeVarArray, EncodeStruct, EncodeUnion, Doing
  <2>2. phase' = phase
    BY <1>3
       DEF Encoding, tn_xdr_write_to_stream, EncodeWord, EncodeWide, EncodeSmall,
           EncodeVoid, EncodeLength, EncodeBytes, EncodeVarBytes, EncodeArray,
           EncodeVarArray, EncodeStruct, EncodeUnion, Becomes, Allocates, Fails
  <2>. QED
    BY <1>2, <2>1, <2>2
<1>4. CASE \E m \in Messages : Encode(m)
  BY <1>2, <1>4 DEF Encode
<1>5. CASE Decode
  BY <1>5, DecodeFits
<1>6. CASE HandOver
  BY <1>6, NothingLeft DEF HandOver, IInv, TypeOK
<1>7. CASE Succeeds
  BY <1>7, NothingLeft DEF Succeeds
<1>8. CASE UNCHANGED vars
  BY <1>8 DEF vars, AllFit, Fits
<1>. QED
  BY <1>1, <1>3, <1>4, <1>5, <1>6, <1>7, <1>8 DEF Next

LEMMA InitFits == Init => AllFit
BY DEF Init, AllFit

LEMMA SpecFits == Spec => [](IInv /\ AllFit)
<1>1. IInv /\ AllFit /\ [Next]_vars => AllFit'
  BY NextFit
<1>. QED
  BY <1>1, InitFits, InitInv, NextInv, PTL DEF Spec

\* Decoders store within what they were given and have allocated: the sizes that
\* xdr.c allocates, the strides by which it goes through arrays and structures
\* and the sizes that element descriptors give agree, whatever lengths and
\* discriminants are in the stream, as long as no array whose length is read is
\* larger than memory.  Any length at all may take the place of one that is not.
THEOREM DestinationsStayInBounds ==
    ASSUME ArraysFit
    PROVE  Spec => []DestinationsInBounds
<1>1. IInv /\ AllFit => DestinationsInBounds
  BY DEF AllFit, Fits, Room, DestinationsInBounds, InBounds
<1>. QED
  BY <1>1, SpecFits, PTL

\* The calls that store pointers do so only where the collector finds them: what
\* comes from tn_alloc_blob() is given to decoders of bytes, whatever its size.
THEOREM PointersAreScanned == Spec => []PointersScanned
<1>1. IInv /\ AllFit => PointersScanned
  <2>. SUFFICES ASSUME IInv, AllFit, NEW i \in DOMAIN todo, todo[i].type.name = "pointer"
                PROVE  objects[todo[i].arg.obj].scanned
    BY DEF PointersScanned
  <2>1. CASE phase = "reader"
    BY <2>1 DEF AllFit, Fits, Copying
  <2>2. CASE phase = "writer"
    <3>1. todo[i] \in WriterCalls
      BY <2>2, LenProperties, ElementOfSeq DEF IInv, Waiting
    <3>2. todo[i].type.name \in Names \cup {"bytes", "put", "length"}
      BY <3>1, WriterCallIs
    <3>. QED
      BY <3>2 DEF Names, Scalars, Words, Wides, Smalls
  <2>. QED
    BY <2>1, <2>2 DEF IInv, TypeOK
<1>. QED
  BY <1>1, SpecFits, PTL
=============================================================================
