---------------------------- MODULE DStringProofs ----------------------------
(***************************************************************************)
(* Proofs about DString: for every alphabet, all texts and callbacks and   *)
(* any number of strings, what a slice refers to lies in its buffer and no *)
(* call writes past the end of what it has allocated, as long as size_t is *)
(* not exceeded; and tn_strftime() finds room for what is not empty.       *)
(***************************************************************************)
EXTENDS DString, SequenceLemmas

\* Clients mind the limits of size_t: no position plus a length exceeds it, no
\* length times a count does, nor that of strings and separators that are joined,
\* each with a terminator.
NoWrap ==
    /\ \A pos, len \in Sizes : pos + len < SizeMod
    /\ \A n \in Counts : (MaxText * n) + 1 < SizeMod
    /\ (MaxText * (2 * MaxJoined)) + 1 < SizeMod

Slices == [buf : Nat, off : Nat, len : Nat]

\* A slice of a buffer that has a character more.
LiesIn(str, h) ==
    /\ str.buf \in 0 .. Len(h)
    /\ str.len \in 0 .. MaxText
    /\ IF str.buf = 0 THEN str.len = 0 ELSE str.off + str.len < Len(h[str.buf])

IInv ==
    /\ heap \in Seq(Seq(Alphabet))
    /\ strs \in Seq(Slices)
    /\ \A i \in DOMAIN strs : LiesIn(strs[i], heap)
    /\ pc \in {"idle", "strftime", "assert", "done"}
    /\ job \in [text : Seq(Alphabet), maxsize : Nat]
    /\ Len(job.text) <= MaxText
    /\ answer \in [found : BOOLEAN, value : Int]

-----------------------------------------------------------------------------
(* Numbers, texts and slices.                                              *)

LEMMA Numbers ==
    /\ SizeMod \in Nat \ {0} /\ Memory \in Nat \ {0} /\ ShortBuf \in Nat \ {0}
    /\ MaxText \in Nat \ {0} /\ MaxText < Memory /\ 2 * Memory < SizeMod
    /\ \A n \in Sizes \cup Counts : n \in Nat /\ n < SizeMod
    /\ 0 \in Alphabet /\ Alphabet \subseteq Nat
    /\ Junk \subseteq Alphabet /\ Characters \subseteq Alphabet
BY DStringAssumption, TextsAssumption

\* A loop stops within its bounds, wherever it would stop early.
LEMMA StopsWithin ==
    ASSUME NEW from \in Nat, NEW to \in Nat, from <= to, NEW S \in SUBSET (from .. to - 1)
    PROVE  /\ Min(S \cup {to}) \in from .. to
           /\ \A m \in S : Min(S \cup {to}) <= m
<1>. DEFINE T == S \cup {to}
<1>1. T \in SUBSET Nat /\ T # {} /\ \A m \in T : m >= from
  OBVIOUS
<1>2. to \in T /\ S \subseteq T
  OBVIOUS
<1>. HIDE DEF T
<1>3. Min(T) \in T /\ \A m \in T : Min(T) <= m
  BY <1>1, LeastOf
<1>4. Min(T) >= from /\ Min(T) <= to /\ Min(T) \in Nat
  BY <1>1, <1>2, <1>3
<1>5. Min(T) \in from .. to /\ \A m \in S : Min(T) <= m
  BY <1>2, <1>3, <1>4
<1>. QED
  BY <1>5 DEF T

LEMMA LesserOf ==
    ASSUME NEW m \in Nat, NEW n \in Nat
    PROVE  Min({m, n}) \in Nat /\ Min({m, n}) <= m /\ Min({m, n}) <= n
<1>. DEFINE T == {m, n}
<1>1. T \in SUBSET Nat /\ T # {} /\ m \in T /\ n \in T
  OBVIOUS
<1>. HIDE DEF T
<1>2. Min(T) \in T /\ \A k \in T : Min(T) <= k
  BY <1>1, LeastOf
<1>3. Min(T) \in Nat /\ Min(T) <= m /\ Min(T) <= n
  BY <1>1, <1>2
<1>. QED
  BY <1>3 DEF T

\* A text with a NUL after it.
LEMMA WithNul ==
    ASSUME NEW text \in Seq(Alphabet)
    PROVE  /\ Append(text, 0) \in Seq(Alphabet)
           /\ Len(Append(text, 0)) = Len(text) + 1
           /\ Append(text, 0)[Len(text) + 1] = 0
           /\ Len(text) \in Nat
BY Numbers, AppendProperties, LenProperties

\* A C string is part of its buffer, and not longer than what comes before a NUL.
LEMMA CStringIs ==
    ASSUME NEW buf \in Seq(Alphabet), NEW off \in 0 .. Len(buf)
    PROVE  /\ CStringAt(buf, off) \in Seq(Alphabet)
           /\ Len(CStringAt(buf, off)) \in 0 .. Len(buf) - off
           /\ \A k \in off .. Len(buf) - 1 :
                  buf[k + 1] = 0 => Len(CStringAt(buf, off)) <= k - off
<1>. DEFINE S == {i \in off .. Len(buf) - 1 : buf[i + 1] = 0}
            n == Min(S \cup {Len(buf)})
<1>1. CStringAt(buf, off) = SubSeq(buf, off + 1, n)
  BY DEF CStringAt, StopsAt
<1>2. Len(buf) \in Nat
  BY LenProperties
<1>3. S \in SUBSET (off .. Len(buf) - 1)
  OBVIOUS
<1>4. n \in off .. Len(buf) /\ \A k \in S : n <= k
  <2>1. off \in Nat /\ off <= Len(buf)
    BY <1>2
  <2>. HIDE DEF S
  <2>. QED
    BY <1>2, <1>3, <2>1, StopsWithin
<1>. HIDE DEF n
<1>5. off + 1 \in Nat \ {0} /\ n \in 0 .. Len(buf)
  BY <1>2, <1>4
<1>6. /\ SubSeq(buf, off + 1, n) \in Seq(Alphabet)
      /\ Len(SubSeq(buf, off + 1, n)) = IF off + 1 <= n THEN n - (off + 1) + 1 ELSE 0
  BY <1>5, PartOfSeq
<1>7. Len(CStringAt(buf, off)) = n - off
  BY <1>1, <1>2, <1>4, <1>6
<1>. QED
  BY <1>1, <1>2, <1>4, <1>6, <1>7

\* What strdup() and vsnprintf() make of a text.
LEMMA CStringOfText ==
    ASSUME NEW text \in Seq(Alphabet)
    PROVE  /\ CStringAt(Append(text, 0), 0) \in Seq(Alphabet)
           /\ Len(CStringAt(Append(text, 0), 0)) \in 0 .. Len(text)
<1>. DEFINE buf == Append(text, 0)
<1>1. buf \in Seq(Alphabet) /\ Len(buf) = Len(text) + 1 /\ buf[Len(text) + 1] = 0
      /\ Len(text) \in Nat
  BY WithNul
<1>. HIDE DEF buf
<1>2. 0 \in 0 .. Len(buf) /\ Len(text) \in 0 .. Len(buf) - 1
  BY <1>1
<1>3. /\ CStringAt(buf, 0) \in Seq(Alphabet)
      /\ Len(CStringAt(buf, 0)) \in 0 .. Len(buf) - 0
      /\ \A k \in 0 .. Len(buf) - 1 : buf[k + 1] = 0 => Len(CStringAt(buf, 0)) <= k - 0
  BY <1>1, <1>2, CStringIs
<1>4. Len(CStringAt(buf, 0)) \in 0 .. Len(text)
  BY <1>1, <1>2, <1>3
<1>. QED
  BY <1>3, <1>4 DEF buf

\* A slice and its text.
LEMMA TextIs ==
    ASSUME IInv, NEW i \in Index
    PROVE  /\ strs[i] \in Slices
           /\ LiesIn(strs[i], heap)
           /\ Text(strs[i]) \in Seq(Alphabet)
           /\ Len(Text(strs[i])) = strs[i].len
           /\ strs[i].len \in 0 .. MaxText
           /\ \A k \in 1 .. strs[i].len : Text(strs[i])[k] \in Alphabet
<1>. DEFINE str == strs[i]
<1>1. str \in Slices /\ LiesIn(str, heap)
  BY ElementOfSeq, LenProperties DEF IInv, Index
<1>2. str.buf \in Nat /\ str.off \in Nat /\ str.len \in Nat
  BY <1>1 DEF Slices
<1>. HIDE DEF str
<1>3. /\ Text(str) \in Seq(Alphabet)
      /\ Len(Text(str)) = str.len
      /\ str.len \in 0 .. MaxText
  <2>1. CASE str.buf = 0
    <3>1. Text(str) = <<>> /\ str.len = 0
      BY <1>1, <2>1 DEF Text, LiesIn
    <3>2. <<>> \in Seq(Alphabet) /\ Len(<<>>) = 0
      BY EmptySeq
    <3>. QED
      BY <3>1, <3>2, Numbers
  <2>2. CASE str.buf # 0
    <3>1. /\ str.buf \in 1 .. Len(heap)
          /\ str.off + str.len < Len(heap[str.buf])
          /\ str.len \in 0 .. MaxText
      BY <1>1, <1>2, <2>2 DEF LiesIn
    <3>. DEFINE buf == heap[str.buf]
    <3>2. buf \in Seq(Alphabet) /\ Len(buf) \in Nat
      BY <3>1, ElementOfSeq, LenProperties DEF IInv
    <3>3. Text(str) = SubSeq(buf, str.off + 1, str.off + str.len)
      BY <2>2 DEF Text
    <3>4. str.off + str.len < Len(buf)
      BY <3>1
    <3>. DEFINE m == str.off + 1
                n == str.off + str.len
    <3>5. m \in Nat \ {0} /\ n \in 0 .. Len(buf)
      <4>. HIDE DEF buf
      <4>. QED
        BY <1>2, <3>2, <3>4
    <3>6. (IF m <= n THEN n - m + 1 ELSE 0) = str.len
      BY <1>2
    <3>. HIDE DEF buf, m, n
    <3>7. /\ SubSeq(buf, m, n) \in Seq(Alphabet)
          /\ Len(SubSeq(buf, m, n)) = IF m <= n THEN n - m + 1 ELSE 0
      BY <3>2, <3>5, PartOfSeq
    <3>8. Text(str) = SubSeq(buf, m, n)
      BY <3>3 DEF m, n
    <3>. QED
      BY <3>1, <3>6, <3>7, <3>8
  <2>. QED
    BY <2>1, <2>2
<1>4. \A k \in 1 .. str.len : Text(str)[k] \in Alphabet
  BY <1>3, ElementOfSeq
<1>. QED
  BY <1>1, <1>3, <1>4 DEF str

LEMMA EmptyLies ==
    ASSUME IInv
    PROVE  TN_EMPTY_STRING \in Slices /\ LiesIn(TN_EMPTY_STRING, heap)
BY Numbers, LenProperties DEF IInv, TN_EMPTY_STRING, Slice, Slices, LiesIn

\* Part of a string is a string, and so is a new buffer without its last byte.
LEMMA PartLies ==
    ASSUME IInv, NEW i \in Index, NEW from \in Nat, NEW len \in Nat,
           from + len <= strs[i].len
    PROVE  LET part == Slice(strs[i].buf, strs[i].off + from, len)
           IN  part \in Slices /\ LiesIn(part, heap)
<1>1. /\ strs[i].buf \in Nat /\ strs[i].off \in Nat /\ strs[i].len \in Nat
      /\ LiesIn(strs[i], heap)
  BY TextIs DEF Slices
<1>2. strs[i].buf # 0 => Len(heap[strs[i].buf]) \in Nat
  <2>1. strs[i].buf # 0 => strs[i].buf \in 1 .. Len(heap)
    BY <1>1 DEF LiesIn
  <2>. QED
    BY <2>1, ElementOfSeq, LenProperties DEF IInv
<1>. DEFINE part == Slice(strs[i].buf, strs[i].off + from, len)
<1>3. part.buf = strs[i].buf /\ part.off = strs[i].off + from /\ part.len = len
  BY DEF Slice
<1>4. part \in Slices
  BY <1>1 DEF Slice, Slices
<1>5. /\ strs[i].buf \in 0 .. Len(heap)
      /\ strs[i].len \in 0 .. MaxText
      /\ IF strs[i].buf = 0 THEN strs[i].len = 0
         ELSE strs[i].off + strs[i].len < Len(heap[strs[i].buf])
  BY <1>1 DEF LiesIn
<1>. HIDE DEF part
<1>6. part.len \in 0 .. MaxText
  BY <1>1, <1>3, <1>5, Numbers
<1>7. IF part.buf = 0 THEN part.len = 0 ELSE part.off + part.len < Len(heap[part.buf])
  <2>1. CASE strs[i].buf = 0
    BY <1>1, <1>3, <1>5, <2>1
  <2>2. CASE strs[i].buf # 0
    <3>1. Len(heap[part.buf]) \in Nat /\ part.buf # 0
      BY <1>2, <1>3, <2>2
    <3>2. strs[i].off + strs[i].len < Len(heap[part.buf])
      BY <1>3, <1>5, <2>2
    <3>3. part.off + part.len < Len(heap[part.buf])
      BY <1>1, <1>3, <3>1, <3>2
    <3>. QED
      BY <3>1, <3>3
  <2>. QED
    BY <2>1, <2>2
<1>8. LiesIn(part, heap)
  BY <1>3, <1>5, <1>6, <1>7 DEF LiesIn
<1>. QED
  BY <1>4, <1>8 DEF part

-----------------------------------------------------------------------------
(* The ways calls end.                                                     *)

\* A slice that is added to the strings.
LEMMA Added ==
    ASSUME NEW h, NEW s \in Seq(Slices), \A i \in DOMAIN s : LiesIn(s[i], h),
           NEW str \in Slices, LiesIn(str, h)
    PROVE  /\ Append(s, str) \in Seq(Slices)
           /\ \A i \in DOMAIN Append(s, str) : LiesIn(Append(s, str)[i], h)
<1>1. Len(s) \in Nat /\ DOMAIN s = 1 .. Len(s)
  BY LenProperties
<1>2. /\ Append(s, str) \in Seq(Slices)
      /\ Len(Append(s, str)) = Len(s) + 1
      /\ \A i \in 1 .. Len(s) : Append(s, str)[i] = s[i]
      /\ Append(s, str)[Len(s) + 1] = str
  BY <1>1, AppendProperties
<1>3. DOMAIN Append(s, str) = 1 .. Len(s) + 1
  BY <1>2, LenProperties
<1>4. \A i \in 1 .. Len(s) + 1 : i \in 1 .. Len(s) \/ i = Len(s) + 1
  BY <1>1
<1>. QED
  BY <1>1, <1>2, <1>3, <1>4

\* A new buffer, and a slice of its beginning.
LEMMA NewBuffer ==
    ASSUME IInv, NEW buffer \in Seq(Alphabet), NEW len \in 0 .. MaxText, len < Len(buffer)
    PROVE  LET h == Append(heap, buffer)
               str == Slice(Len(heap) + 1, 0, len)
           IN  /\ h \in Seq(Seq(Alphabet))
               /\ str \in Slices
               /\ LiesIn(str, h)
               /\ \A i \in Index : LiesIn(strs[i], h)
<1>. DEFINE h == Append(heap, buffer)
            str == Slice(Len(heap) + 1, 0, len)
<1>1. heap \in Seq(Seq(Alphabet)) /\ Len(heap) \in Nat /\ len \in Nat
  BY LenProperties, Numbers DEF IInv
<1>2. /\ h \in Seq(Seq(Alphabet))
      /\ Len(h) = Len(heap) + 1
      /\ \A i \in 1 .. Len(heap) : h[i] = heap[i]
      /\ h[Len(heap) + 1] = buffer
  BY <1>1, AppendProperties
<1>3. str \in Slices /\ str.buf = Len(heap) + 1 /\ str.off = 0 /\ str.len = len
  BY <1>1 DEF Slice, Slices
<1>. HIDE DEF h, str
<1>4. LiesIn(str, h)
  <2>1. str.buf \in 0 .. Len(h) /\ str.buf # 0 /\ str.len \in 0 .. MaxText
    BY <1>1, <1>2, <1>3
  <2>2. str.off + str.len < Len(h[str.buf])
    <3>1. h[str.buf] = buffer /\ str.off + str.len = len
      BY <1>1, <1>2, <1>3
    <3>. QED
      BY <3>1
  <2>. QED
    BY <2>1, <2>2 DEF LiesIn
<1>5. ASSUME NEW i \in Index PROVE LiesIn(strs[i], h)
  <2>1. LiesIn(strs[i], heap) /\ strs[i].buf \in Nat
    BY TextIs DEF Slices
  <2>2. strs[i].buf # 0 => strs[i].buf \in 1 .. Len(heap)
    BY <2>1 DEF LiesIn
  <2>3. strs[i].buf # 0 => h[strs[i].buf] = heap[strs[i].buf]
    BY <1>2, <2>2
  <2>4. strs[i].buf \in 0 .. Len(h)
    BY <1>1, <1>2, <2>1 DEF LiesIn
  <2>. QED
    BY <2>1, <2>3, <2>4 DEF LiesIn
<1>. QED
  BY <1>2, <1>3, <1>4, <1>5 DEF h, str

LEMMA ReturnsInv ==
    ASSUME IInv, NEW str \in Slices, LiesIn(str, heap), Returns(str)
    PROVE  IInv'
<1>1. \A i \in Index : LiesIn(strs[i], heap)
  BY TextIs
<1>2. heap' = heap /\ pc' = pc /\ job' = job /\ answer' = answer /\ strs' = Append(strs, str)
  BY DEF Returns
<1>3. strs \in Seq(Slices)
  BY DEF IInv
<1>4. /\ strs' \in Seq(Slices)
      /\ \A i \in DOMAIN strs' : LiesIn(strs'[i], heap)
  BY <1>1, <1>2, <1>3, Added DEF Index
<1>. QED
  BY <1>2, <1>4 DEF IInv

LEMMA EmptyReturned == ASSUME IInv, Returns(TN_EMPTY_STRING) PROVE IInv'
BY EmptyLies, ReturnsInv

LEMMA StringReturned == ASSUME IInv, NEW i \in Index, Returns(strs[i]) PROVE IInv'
BY TextIs, ReturnsInv

LEMMA PartReturned ==
    ASSUME IInv, NEW i \in Index, NEW from \in Nat, NEW len \in Nat,
           from + len <= strs[i].len,
           Returns(Slice(strs[i].buf, strs[i].off + from, len))
    PROVE  IInv'
BY PartLies, ReturnsInv

\* What is built fits in what is allocated for it.
LEMMA BuildsInv ==
    ASSUME IInv, NEW size \in Nat, NEW cells \in Seq(Alphabet), NEW len \in 0 .. MaxText,
           Len(cells) <= size, len < size, Builds(size, cells, len)
    PROVE  IInv'
<1>1. PICK junk \in Junk :
          heap' = Append(heap, [k \in 1 .. size |->
                      IF k <= Len(cells) THEN cells[k] ELSE junk])
  <2>1. ~ (Len(cells) > size)
    BY LenProperties
  <2>. QED
    BY <2>1, Zenon DEF Builds
<1>2. /\ strs' = Append(strs, Slice(Len(heap) + 1, 0, len))
      /\ pc' = pc /\ job' = job /\ answer' = answer
  BY LenProperties DEF Builds
<1>. DEFINE buffer == [k \in 1 .. size |-> IF k <= Len(cells) THEN cells[k] ELSE junk]
<1>3. ASSUME NEW k \in 1 .. size PROVE (IF k <= Len(cells) THEN cells[k] ELSE junk) \in Alphabet
  <2>1. CASE k <= Len(cells)
    <3>1. k \in 1 .. Len(cells)
      BY <2>1, LenProperties
    <3>. QED
      BY <2>1, <3>1, ElementOfSeq
  <2>2. CASE ~ (k <= Len(cells))
    BY <2>2, Numbers
  <2>. QED
    BY <2>1, <2>2
<1>4. buffer \in [1 .. size -> Alphabet]
  BY <1>3
<1>5. heap' = Append(heap, buffer)
  BY <1>1
<1>. HIDE DEF buffer
<1>6. buffer \in Seq(Alphabet) /\ Len(buffer) = size
  BY <1>4, FunctionIsSeq
<1>. DEFINE str == Slice(Len(heap) + 1, 0, len)
<1>7. /\ heap' \in Seq(Seq(Alphabet))
      /\ str \in Slices
      /\ LiesIn(str, heap')
      /\ \A i \in Index : LiesIn(strs[i], heap')
  BY <1>5, <1>6, NewBuffer
<1>8. strs' = Append(strs, str)
  BY <1>2
<1>. HIDE DEF str
<1>9. /\ strs' \in Seq(Slices)
      /\ \A i \in DOMAIN strs' : LiesIn(strs'[i], heap')
  <2>1. strs \in Seq(Slices)
    BY DEF IInv
  <2>. QED
    BY <1>7, <1>8, <2>1, Added DEF Index
<1>. QED
  BY <1>2, <1>7, <1>9 DEF IInv

LEMMA TextBuilt ==
    ASSUME IInv, NEW text \in Seq(Alphabet), Len(text) <= MaxText, BuildsText(text)
    PROVE  IInv'
<1>1. /\ Append(text, 0) \in Seq(Alphabet)
      /\ Len(Append(text, 0)) = Len(text) + 1
      /\ Len(text) \in Nat
  BY WithNul
<1>2. Len(text) \in 0 .. MaxText /\ Len(text) + 1 \in Nat /\ Len(text) < Len(text) + 1
  BY <1>1, Numbers
<1>3. Len(Append(text, 0)) <= Len(text) + 1
  BY <1>1
<1>4. Builds(Len(text) + 1, Append(text, 0), Len(text))
  BY DEF BuildsText
<1>. QED
  BY <1>1, <1>2, <1>3, <1>4, BuildsInv

LEMMA TextDuplicated ==
    ASSUME IInv, NEW text \in Seq(Alphabet), Len(text) <= MaxText, Dup(text)
    PROVE  IInv'
BY EmptyReturned, TextBuilt DEF Dup

LEMMA AnswersInv ==
    ASSUME IInv, NEW found \in BOOLEAN, NEW value \in Int, Answers(found, value)
    PROVE  IInv'
BY DEF Answers, IInv

LEMMA NotFound == ASSUME IInv, Answers(FALSE, 0) PROVE IInv'
<1>1. answer' \in [found : BOOLEAN, value : Int]
  BY DEF Answers
<1>. QED
  BY <1>1 DEF Answers, IInv

LEMMA Found == ASSUME IInv, NEW value \in Int, Answers(TRUE, value) PROVE IInv'
<1>1. answer' \in [found : BOOLEAN, value : Int]
  BY DEF Answers
<1>. QED
  BY <1>1 DEF Answers, IInv

-----------------------------------------------------------------------------
(* Strings from and to the client's memory, and formatting.                *)

LEMMA ClientTexts ==
    ASSUME NEW text \in Literals \cup Formatted \cup Times
    PROVE  /\ text \in Seq(Alphabet)
           /\ Len(text) \in 0 .. MaxText
           /\ CStringAt(Append(text, 0), 0) \in Seq(Alphabet)
           /\ Len(CStringAt(Append(text, 0), 0)) \in 0 .. Len(text)
           /\ Len(CStringAt(Append(text, 0), 0)) <= MaxText
<1>1. text \in Seq(Alphabet) /\ Len(text) <= MaxText
  BY TextsAssumption
<1>2. Len(text) \in Nat
  BY <1>1, LenProperties
<1>3. /\ CStringAt(Append(text, 0), 0) \in Seq(Alphabet)
      /\ Len(CStringAt(Append(text, 0), 0)) \in 0 .. Len(text)
  BY <1>1, CStringOfText
<1>. QED
  BY <1>1, <1>2, <1>3, Numbers

LEMMA MadeInv == ASSUME IInv, Made PROVE IInv'
<1>1. ASSUME NEW text \in Literals, TN_STRING_LITERAL(text) PROVE IInv'
  BY <1>1, ClientTexts, TextBuilt DEF TN_STRING_LITERAL
<1>2. ASSUME NEW text \in Literals, tn_cstr2str(text) PROVE IInv'
  <2>. DEFINE len == Len(CStringAt(Append(text, 0), 0))
              cells == Append(text, 0)
              size == Len(text) + 1
  <2>1. /\ text \in Seq(Alphabet) /\ Len(text) \in 0 .. MaxText
        /\ len \in 0 .. Len(text)
    BY ClientTexts
  <2>2. cells \in Seq(Alphabet) /\ Len(cells) = Len(text) + 1
    BY <2>1, WithNul
  <2>3. Builds(size, cells, len)
    BY <1>2 DEF tn_cstr2str
  <2>. HIDE DEF len, cells
  <2>4. size \in Nat /\ len \in 0 .. MaxText /\ len < size /\ Len(cells) <= size
    BY <2>1, <2>2, Numbers
  <2>. QED
    BY <2>2, <2>3, <2>4, BuildsInv
<1>3. ASSUME NEW text \in Literals, tn_strdup(text) PROVE IInv'
  BY <1>3, ClientTexts, TextDuplicated DEF tn_strdup
<1>4. ASSUME NEW text \in Literals, tn_strdupmem(text) PROVE IInv'
  BY <1>4, ClientTexts, TextDuplicated DEF tn_strdupmem
<1>5. ASSUME NEW text \in Formatted, tn_strvprintf(text) PROVE IInv'
  <2>1. text \in Literals \cup Formatted \cup Times
    OBVIOUS
  <2>2. CASE Len(text) >= ShortBuf
    <3>1. BuildsText(text)
      BY <1>5, <2>2 DEF tn_strvprintf
    <3>. QED
      BY <2>1, <3>1, ClientTexts, TextBuilt
  <2>3. CASE ~ (Len(text) >= ShortBuf)
    <3>1. Dup(CStringAt(Append(text, 0), 0))
      BY <1>5, <2>3 DEF tn_strvprintf
    <3>. QED
      BY <2>1, <3>1, ClientTexts, TextDuplicated
  <2>. QED
    BY <2>2, <2>3
<1>6. CASE Fails
  BY <1>6 DEF Fails, IInv
<1>7. ASSUME NEW text \in Times, tn_strftime(text) PROVE IInv'
  <2>1. text \in Seq(Alphabet) /\ Len(text) <= MaxText
    BY ClientTexts
  <2>2. CASE Expands(text, ShortBuf)
    <3>1. Dup(text)
      BY <1>7, <2>2 DEF tn_strftime
    <3>. QED
      BY <2>1, <3>1, TextDuplicated
  <2>3. CASE ~ Expands(text, ShortBuf)
    <3>1. /\ pc' = "strftime"
          /\ job' = [text |-> text, maxsize |-> 2 * ShortBuf]
          /\ UNCHANGED <<heap, strs, answer>>
      BY <1>7, <2>3 DEF tn_strftime
    <3>2. 2 * ShortBuf \in Nat
      BY Numbers
    <3>3. job' \in [text : Seq(Alphabet), maxsize : Nat] /\ Len(job'.text) <= MaxText
      BY <2>1, <3>1, <3>2
    <3>. QED
      BY <3>1, <3>3 DEF IInv
  <2>. QED
    BY <2>2, <2>3
<1>8. CASE GrowBuffer
  <2>1. job.text \in Seq(Alphabet) /\ job.maxsize \in Nat /\ Len(job.text) <= MaxText
    BY DEF IInv
  <2>2. CASE job' = [job EXCEPT !.maxsize = Plus(@, @)] /\ UNCHANGED <<heap, strs, pc>>
    <3>1. Plus(job.maxsize, job.maxsize) \in Nat
      BY <2>1, Numbers DEF Plus
    <3>2. job' \in [text : Seq(Alphabet), maxsize : Nat] /\ job'.text = job.text
      BY <2>2, <3>1 DEF IInv
    <3>. QED
      BY <1>8, <2>2, <3>2 DEF IInv, GrowBuffer
  <2>3. CASE pc' = "assert" /\ UNCHANGED <<heap, strs, job>>
    BY <1>8, <2>3 DEF IInv, GrowBuffer
  <2>4. CASE /\ heap' = Append(heap, Append(job.text, 0))
             /\ strs' = Append(strs, Slice(Len(heap) + 1, 0, Len(job.text)))
             /\ pc' = "idle"
             /\ job' = NoJob
    <3>. DEFINE buffer == Append(job.text, 0)
                len == Len(job.text)
                str == Slice(Len(heap) + 1, 0, len)
    <3>1. buffer \in Seq(Alphabet) /\ Len(buffer) = len + 1 /\ len \in Nat
      BY <2>1, WithNul
    <3>2. heap' = Append(heap, buffer) /\ strs' = Append(strs, str)
      BY <2>4
    <3>3. len <= MaxText
      BY <2>1
    <3>. HIDE DEF buffer, len
    <3>4. len \in 0 .. MaxText /\ len < Len(buffer)
      BY <3>1, <3>3, Numbers
    <3>5. /\ heap' \in Seq(Seq(Alphabet))
          /\ str \in Slices
          /\ LiesIn(str, heap')
          /\ \A i \in Index : LiesIn(strs[i], heap')
      BY <3>1, <3>2, <3>4, NewBuffer
    <3>. HIDE DEF str
    <3>6. /\ strs' \in Seq(Slices)
          /\ \A i \in DOMAIN strs' : LiesIn(strs'[i], heap')
      <4>1. strs \in Seq(Slices)
        BY DEF IInv
      <4>. QED
        BY <3>2, <3>5, <4>1, Added DEF Index
    <3>7. job' \in [text : Seq(Alphabet), maxsize : Nat] /\ Len(job'.text) <= MaxText
      BY <2>4, EmptySeq, Numbers DEF NoJob
    <3>. QED
      BY <1>8, <2>4, <3>5, <3>6, <3>7 DEF IInv, GrowBuffer
  <2>. QED
    BY <1>8, <2>2, <2>3, <2>4 DEF GrowBuffer
<1>. QED
  BY <1>1, <1>2, <1>3, <1>4, <1>5, <1>6, <1>7, <1>8 DEF Made

LEMMA Str2CstrInv == ASSUME IInv, NEW i \in Index, tn_str2cstr(i) PROVE IInv'
<1>. DEFINE str == strs[i]
            cells == Append(Text(str), 0)
            len == Len(CStringAt(cells, 0))
<1>1. /\ str \in Slices /\ LiesIn(str, heap)
      /\ Text(str) \in Seq(Alphabet)
      /\ Len(Text(str)) = str.len
      /\ str.len \in 0 .. MaxText
  BY TextIs
<1>2. str.buf \in Nat /\ str.off \in Nat /\ str.len \in Nat
  BY <1>1 DEF Slices
<1>3. CASE str.buf = 0
  <2>. DEFINE nul == <<0>>
  <2>1. Builds(1, nul, 0)
    BY <1>3 DEF tn_str2cstr
  <2>2. nul \in Seq(Alphabet) /\ Len(nul) = 1
    BY Numbers, OneAndTwo
  <2>3. 0 \in 0 .. MaxText /\ 0 < 1 /\ 1 \in Nat
    BY Numbers
  <2>. HIDE DEF nul
  <2>4. Len(nul) <= 1
    BY <2>2
  <2>. QED
    BY <2>1, <2>2, <2>3, <2>4, BuildsInv
<1>4. CASE str.buf # 0 /\ Terminated(str)
  <2>. DEFINE buf == heap[str.buf]
              n == Len(CStringAt(buf, str.off))
  <2>1. Returns(Slice(str.buf, str.off, n))
    BY <1>4 DEF tn_str2cstr
  <2>2. str.buf \in 1 .. Len(heap) /\ str.off + str.len < Len(buf)
    BY <1>1, <1>2, <1>4 DEF LiesIn
  <2>3. buf \in Seq(Alphabet) /\ Len(buf) \in Nat
    BY <2>2, ElementOfSeq, LenProperties DEF IInv
  <2>4. buf[(str.off + str.len) + 1] = 0
    BY <1>4 DEF Terminated
  <2>. HIDE DEF buf, str
  <2>5. str.off \in 0 .. Len(buf) /\ str.off + str.len \in str.off .. Len(buf) - 1
    BY <1>2, <2>2, <2>3
  <2>6. n \in 0 .. Len(buf) - str.off /\ n <= (str.off + str.len) - str.off
    BY <2>3, <2>4, <2>5, CStringIs
  <2>. HIDE DEF n
  <2>7. n \in Nat /\ 0 + n <= str.len /\ str.off + 0 = str.off
    BY <1>2, <2>3, <2>6
  <2>8. Returns(Slice(str.buf, str.off + 0, n))
    BY <2>1, <2>7
  <2>. QED
    BY <2>7, <2>8, PartReturned DEF str
<1>5. CASE str.buf # 0 /\ ~ Terminated(str)
  <2>1. Builds(str.len + 1, cells, len)
    BY <1>5 DEF tn_str2cstr
  <2>2. cells \in Seq(Alphabet) /\ Len(cells) = str.len + 1
    BY <1>1, WithNul
  <2>3. len \in 0 .. str.len
    BY <1>1, CStringOfText
  <2>. HIDE DEF len, cells, str
  <2>4. /\ str.len + 1 \in Nat /\ len \in 0 .. MaxText
        /\ Len(cells) <= str.len + 1 /\ len < str.len + 1
    BY <1>1, <1>2, <2>2, <2>3, Numbers
  <2>. QED
    BY <2>1, <2>2, <2>4, BuildsInv
<1>. QED
  BY <1>3, <1>4, <1>5

-----------------------------------------------------------------------------
(* Concatenation.                                                          *)

LEMMA LengthIs ==
    ASSUME IInv, NEW sep \in Index, NEW n \in Nat \ {0}, NEW args \in [1 .. n -> Index]
    PROVE  LengthOfAll(args, sep) =
               [i \in 0 .. n - 1 |->
                    IF i = 0 THEN strs[args[i + 1]].len
                    ELSE LengthOfAll(args, sep)[i - 1] + strs[sep].len + strs[args[i + 1]].len]
<1>. DEFINE N == n - 1
            F(g) == [i \in 0 .. N |->
                        IF i = 0 THEN strs[args[i + 1]].len
                        ELSE g[i - 1] + strs[sep].len + strs[args[i + 1]].len]
            first == strs[args[1]].len
            step == [p \in (1 .. N) \X Nat |->
                        p[2] + strs[sep].len + strs[args[p[1] + 1]].len]
<1>1. N \in Nat /\ Len(args) = n
  BY FunctionIsSeq
<1>2. /\ strs[sep].len \in Nat
      /\ \A i \in 0 .. N : strs[args[i + 1]].len \in Nat
  <2>1. \A i \in 0 .. N : args[i + 1] \in Index
    OBVIOUS
  <2>. QED
    BY <2>1, TextIs DEF Slices
<1>3. first \in Nat
  BY <1>1, <1>2
<1>4. step \in [(1 .. N) \X Nat -> Nat]
  BY <1>1, <1>2
<1>5. \A i \in 1 .. N : \A m \in Nat :
          step[<<i, m>>] = m + strs[sep].len + strs[args[i + 1]].len
  OBVIOUS
<1>6. LengthOfAll(args, sep) = CHOOSE f : f = F(f)
  BY <1>1 DEF LengthOfAll
<1>. HIDE DEF N, step, first
<1>7. PICK f : f \in Loops(N, Nat, first, step)
  BY <1>1, <1>3, <1>4, LoopComputes
<1>8. /\ f \in [0 .. N -> Nat]
      /\ \A i \in 0 .. N : f[i] = IF i = 0 THEN first ELSE step[<<i, f[i - 1]>>]
  BY <1>7 DEF Loops
<1>9. f = F(f)
  <2>1. ASSUME NEW i \in 0 .. N
        PROVE  f[i] = IF i = 0 THEN strs[args[i + 1]].len
                      ELSE f[i - 1] + strs[sep].len + strs[args[i + 1]].len
    <3>1. CASE i = 0
      <4>1. 0 \in 0 .. N /\ 0 + 1 = 1
        BY <1>1
      <4>2. f[0] = first
        BY <1>8, <4>1
      <4>. QED
        BY <3>1, <4>1, <4>2 DEF first
    <3>2. CASE i # 0
      <4>1. i \in 1 .. N /\ i - 1 \in 0 .. N
        BY <1>1, <3>2
      <4>. QED
        BY <1>5, <1>8, <3>2, <4>1
    <3>. QED
      BY <3>1, <3>2
  <2>2. f = [i \in 0 .. N |-> f[i]]
    BY <1>8
  <2>. QED
    BY <2>1, <2>2
<1>. HIDE DEF F
<1>10. (CHOOSE g : g = F(g)) = F(CHOOSE g : g = F(g))
  BY <1>9
<1>. QED
  BY <1>6, <1>10 DEF F, N

LEMMA CharsAre ==
    ASSUME IInv, NEW sep \in Index, NEW n \in Nat \ {0}, NEW args \in [1 .. n -> Index]
    PROVE  CharsOfAll(args, sep) =
               [i \in 0 .. n - 1 |->
                    IF i = 0 THEN Text(strs[args[i + 1]])
                    ELSE CharsOfAll(args, sep)[i - 1] \o Text(strs[sep])
                             \o Text(strs[args[i + 1]])]
<1>. DEFINE N == n - 1
            T == Seq(Alphabet)
            F(g) == [i \in 0 .. N |->
                        IF i = 0 THEN Text(strs[args[i + 1]])
                        ELSE g[i - 1] \o Text(strs[sep]) \o Text(strs[args[i + 1]])]
            first == Text(strs[args[1]])
            step == [p \in (1 .. N) \X T |->
                        p[2] \o Text(strs[sep]) \o Text(strs[args[p[1] + 1]])]
<1>1. N \in Nat /\ Len(args) = n
  BY FunctionIsSeq
<1>2. /\ Text(strs[sep]) \in T
      /\ \A i \in 0 .. N : Text(strs[args[i + 1]]) \in T
  <2>1. \A i \in 0 .. N : args[i + 1] \in Index
    OBVIOUS
  <2>. QED
    BY <2>1, TextIs
<1>3. first \in T
  <2>1. 0 \in 0 .. N /\ 0 + 1 = 1
    BY <1>1
  <2>. HIDE DEF N, T
  <2>. QED
    BY <1>2, <2>1
<1>4. step \in [(1 .. N) \X T -> T]
  <2>1. ASSUME NEW p \in (1 .. N) \X T
        PROVE  p[2] \o Text(strs[sep]) \o Text(strs[args[p[1] + 1]]) \in T
    <3>1. p[1] \in 0 .. N /\ p[2] \in T
      OBVIOUS
    <3>. QED
      BY <1>2, <3>1, ConcatProperties
  <2>. QED
    BY <2>1
<1>5. \A i \in 1 .. N : \A s \in T :
          step[<<i, s>>] = s \o Text(strs[sep]) \o Text(strs[args[i + 1]])
  OBVIOUS
<1>6. CharsOfAll(args, sep) = CHOOSE f : f = F(f)
  BY <1>1 DEF CharsOfAll
<1>. HIDE DEF N, T, step, first
<1>7. PICK f : f \in Loops(N, T, first, step)
  BY <1>1, <1>3, <1>4, LoopComputes
<1>8. /\ f \in [0 .. N -> T]
      /\ \A i \in 0 .. N : f[i] = IF i = 0 THEN first ELSE step[<<i, f[i - 1]>>]
  BY <1>7 DEF Loops
<1>9. f = F(f)
  <2>1. ASSUME NEW i \in 0 .. N
        PROVE  f[i] = IF i = 0 THEN Text(strs[args[i + 1]])
                      ELSE f[i - 1] \o Text(strs[sep]) \o Text(strs[args[i + 1]])
    <3>1. CASE i = 0
      <4>1. 0 \in 0 .. N /\ 0 + 1 = 1
        BY <1>1
      <4>2. f[0] = first
        BY <1>8, <4>1
      <4>. QED
        BY <3>1, <4>1, <4>2 DEF first
    <3>2. CASE i # 0
      <4>1. i \in 1 .. N /\ i - 1 \in 0 .. N
        BY <1>1, <3>2
      <4>. QED
        BY <1>5, <1>8, <3>2, <4>1
    <3>. QED
      BY <3>1, <3>2
  <2>2. f = [i \in 0 .. N |-> f[i]]
    BY <1>8
  <2>. QED
    BY <2>1, <2>2
<1>. HIDE DEF F
<1>10. (CHOOSE g : g = F(g)) = F(CHOOSE g : g = F(g))
  BY <1>9
<1>. QED
  BY <1>6, <1>10 DEF F, N

\* The two loops of tn_strcats() agree: the characters that the second copies are
\* as many as the first has counted.
LEMMA LoopsAgree ==
    ASSUME IInv, NEW sep \in Index, NEW n \in Nat \ {0}, NEW args \in [1 .. n -> Index]
    PROVE  LET len == LengthOfAll(args, sep)[n - 1]
               chars == CharsOfAll(args, sep)[n - 1]
           IN  /\ len \in Nat /\ chars \in Seq(Alphabet) /\ Len(chars) = len
               /\ len <= MaxText * (2 * n)
<1>. DEFINE N == n - 1
            T == Seq(Alphabet)
            len == LengthOfAll(args, sep)
            chars == CharsOfAll(args, sep)
            both == [i \in 0 .. N |-> <<chars[i], len[i], i>>]
            Agree == {p \in T \X Nat \X Nat :
                          Len(p[1]) = p[2] /\ p[2] <= MaxText * (2 * (p[3] + 1))}
            str(i) == strs[args[i + 1]]
<1>1. N \in Nat
  OBVIOUS
<1>2. ASSUME NEW i \in 0 .. N
      PROVE  /\ Text(str(i)) \in T /\ Len(Text(str(i))) = str(i).len /\ str(i).len \in Nat
             /\ Text(strs[sep]) \in T /\ Len(Text(strs[sep])) = strs[sep].len
             /\ strs[sep].len \in Nat
             /\ str(i).len <= MaxText /\ strs[sep].len <= MaxText
             /\ len[i] = IF i = 0 THEN str(i).len
                         ELSE len[i - 1] + strs[sep].len + str(i).len
             /\ chars[i] = IF i = 0 THEN Text(str(i))
                           ELSE chars[i - 1] \o Text(strs[sep]) \o Text(str(i))
  <2>1. args[i + 1] \in Index
    OBVIOUS
  <2>2. /\ Text(str(i)) \in T /\ Len(Text(str(i))) = str(i).len /\ str(i).len \in Nat
        /\ Text(strs[sep]) \in T /\ Len(Text(strs[sep])) = strs[sep].len
        /\ strs[sep].len \in Nat
        /\ str(i).len <= MaxText /\ strs[sep].len <= MaxText
    BY <2>1, TextIs DEF Slices
  <2>. HIDE DEF len, chars
  <2>3. len = [j \in 0 .. N |-> IF j = 0 THEN str(j).len
                                ELSE len[j - 1] + strs[sep].len + str(j).len]
    BY LengthIs DEF len
  <2>4. chars = [j \in 0 .. N |-> IF j = 0 THEN Text(str(j))
                                  ELSE chars[j - 1] \o Text(strs[sep]) \o Text(str(j))]
    BY CharsAre DEF chars
  <2>5. len[i] = IF i = 0 THEN str(i).len ELSE len[i - 1] + strs[sep].len + str(i).len
    BY <2>3
  <2>6. chars[i] = IF i = 0 THEN Text(str(i))
                   ELSE chars[i - 1] \o Text(strs[sep]) \o Text(str(i))
    BY <2>4
  <2>. QED
    BY <2>2, <2>5, <2>6
<1>. HIDE DEF N, T, len, chars, str
<1>3. both[0] \in Agree
  <2>1. 0 \in 0 .. N
    BY <1>1
  <2>2. chars[0] \in T /\ len[0] \in Nat /\ Len(chars[0]) = len[0] /\ len[0] <= MaxText
    BY <1>2, <2>1
  <2>3. len[0] <= MaxText * (2 * (0 + 1))
    BY <2>2, Numbers
  <2>. QED
    BY <2>1, <2>2, <2>3
<1>4. ASSUME NEW i \in 1 .. N, both[i - 1] \in Agree PROVE both[i] \in Agree
  <2>1. i \in 0 .. N /\ i - 1 \in 0 .. N /\ i # 0
    BY <1>1
  <2>. DEFINE s == chars[i - 1]
              m == len[i - 1]
              t == Text(strs[sep])
              u == Text(str(i))
  <2>2. /\ s \in T /\ m \in Nat /\ Len(s) = m
        /\ m <= MaxText * (2 * ((i - 1) + 1))
    BY <1>4, <2>1
  <2>3. /\ t \in T /\ u \in T /\ Len(t) \in Nat /\ Len(u) \in Nat
        /\ Len(t) <= MaxText /\ Len(u) <= MaxText
    BY <1>2, <2>1
  <2>4. chars[i] = s \o t \o u /\ len[i] = m + Len(t) + Len(u)
    BY <1>2, <2>1
  <2>. HIDE DEF s, m, t, u
  <2>5. s \o t \in T /\ Len(s \o t) = m + Len(t)
    BY <2>2, <2>3, ConcatProperties DEF T
  <2>6. (s \o t) \o u \in T /\ Len((s \o t) \o u) = m + Len(t) + Len(u)
    BY <2>3, <2>5, ConcatProperties DEF T
  <2>7. m + Len(t) + Len(u) \in Nat
    BY <2>2, <2>3
  <2>8. chars[i] \in T /\ len[i] \in Nat /\ Len(chars[i]) = len[i]
    BY <2>4, <2>6, <2>7
  <2>9. len[i] <= MaxText * (2 * (i + 1))
    <3>1. MaxText * (2 * (i + 1)) = (MaxText * (2 * ((i - 1) + 1))) + (2 * MaxText)
      BY <2>1, Numbers
    <3>2. MaxText * (2 * ((i - 1) + 1)) \in Nat
      BY <2>1, Numbers
    <3>. QED
      BY <2>2, <2>3, <2>4, <3>1, <3>2, Numbers
  <2>. QED
    BY <2>1, <2>8, <2>9
<1>. HIDE DEF both, Agree
<1>5. both[N] \in Agree
  <2>1. \A i \in 0 .. N : both[i] \in Agree
    BY <1>1, <1>3, <1>4, Along
  <2>. QED
    BY <1>1, <2>1
<1>6. both[N] = <<chars[N], len[N], N>>
  BY <1>1 DEF both
<1>7. N + 1 = n
  BY DEF N
<1>8. chars[N] \in T /\ len[N] \in Nat /\ Len(chars[N]) = len[N] /\ len[N] <= MaxText * (2 * n)
  BY <1>5, <1>6, <1>7 DEF Agree
<1>. QED
  BY <1>8 DEF N, T, len, chars

LEMMA StrcatInv == ASSUME IInv, NEW i \in Index, NEW j \in Index, tn_strcat(i, j) PROVE IInv'
<1>. DEFINE text1 == Text(strs[i])
            text2 == Text(strs[j])
<1>1. /\ text1 \in Seq(Alphabet) /\ Len(text1) = strs[i].len
      /\ text2 \in Seq(Alphabet) /\ Len(text2) = strs[j].len
      /\ strs[i].len \in Nat /\ strs[j].len \in Nat
  BY TextIs DEF Slices
<1>2. CASE Returns(strs[i])
  BY <1>2, StringReturned
<1>3. CASE Returns(strs[j])
  BY <1>3, StringReturned
<1>4. CASE BuildsText(text1 \o text2)
  <2>1. strs[i].len + strs[j].len <= MaxText
    BY DEF tn_strcat
  <2>. HIDE DEF text1, text2
  <2>2. text1 \o text2 \in Seq(Alphabet) /\ Len(text1 \o text2) = Len(text1) + Len(text2)
    BY <1>1, ConcatProperties
  <2>3. Len(text1 \o text2) <= MaxText
    BY <1>1, <2>1, <2>2
  <2>. QED
    BY <1>4, <2>2, <2>3, TextBuilt
<1>. QED
  BY <1>2, <1>3, <1>4 DEF tn_strcat

LEMMA StraddchInv ==
    ASSUME IInv, NEW i \in Index, NEW ch \in Characters, tn_straddch(i, ch)
    PROVE  IInv'
<1>. DEFINE text == Text(strs[i])
            more == <<ch, 0>>
            cells == text \o more
            len == strs[i].len
<1>1. text \in Seq(Alphabet) /\ Len(text) = len /\ len \in 0 .. MaxText /\ len \in Nat
  BY TextIs DEF Slices
<1>2. more \in Seq(Alphabet) /\ Len(more) = 2
  BY Numbers, OneAndTwo
<1>3. len < MaxText /\ Builds(len + 2, cells, len + 1)
  BY DEF tn_straddch
<1>. HIDE DEF text, more, len
<1>4. cells \in Seq(Alphabet) /\ Len(cells) = len + 2
  <2>1. cells \in Seq(Alphabet) /\ Len(cells) = Len(text) + Len(more)
    BY <1>1, <1>2, ConcatProperties
  <2>. HIDE DEF cells
  <2>. QED
    BY <1>1, <1>2, <2>1
<1>. HIDE DEF cells
<1>5. /\ len + 2 \in Nat /\ len + 1 \in 0 .. MaxText
      /\ Len(cells) <= len + 2 /\ len + 1 < len + 2
  BY <1>1, <1>3, <1>4, Numbers
<1>. QED
  BY <1>3, <1>4, <1>5, BuildsInv

\* A text whose size does not wrap is built whole.
LEMMA Counted ==
    ASSUME NEW total \in Nat, total + 1 < SizeMod, NEW chars, BuildsCounted(total, chars)
    PROVE  total <= MaxText /\ Builds(total + 1, Append(chars, 0), total)
<1>1. total % SizeMod = total /\ Plus(total, 1) = total + 1 /\ ~ (total + 1 >= SizeMod)
  BY Numbers DEF Plus
<1>. QED
  BY <1>1 DEF BuildsCounted

\* So is that of strings that are joined.
LEMMA JoinedFit ==
    ASSUME NoWrap, IInv, NEW n \in 0 .. MaxJoined, n # 0, NEW sep \in Index,
           NEW args \in [1 .. n -> Index]
    PROVE  LengthOfAll(args, sep)[n - 1] + 1 < SizeMod
<1>. DEFINE len == LengthOfAll(args, sep)[n - 1]
<1>1. n \in Nat \ {0} /\ n <= MaxJoined /\ MaxJoined \in Nat
  BY DStringAssumption
<1>2. len \in Nat /\ len <= MaxText * (2 * n)
  BY <1>1, LoopsAgree
<1>. HIDE DEF len
<1>3. MaxText * (2 * n) <= MaxText * (2 * MaxJoined)
  <2>1. MaxJoined - n \in Nat /\ MaxText \in Nat
    BY <1>1, Numbers
  <2>2. MaxText * (2 * (MaxJoined - n)) \in Nat
    BY <2>1
  <2>3. MaxText * (2 * MaxJoined) = (MaxText * (2 * n)) + (MaxText * (2 * (MaxJoined - n)))
    BY <1>1, Numbers
  <2>4. MaxText * (2 * n) \in Nat
    BY <1>1, <2>1
  <2>. QED
    BY <2>2, <2>3, <2>4
<1>4. len + 1 < SizeMod
  <2>1. (MaxText * (2 * MaxJoined)) + 1 < SizeMod
    BY DEF NoWrap
  <2>2. MaxText * (2 * n) \in Nat /\ MaxText * (2 * MaxJoined) \in Nat
    BY <1>1, Numbers
  <2>. QED
    BY <1>2, <1>3, <2>1, <2>2, Numbers
<1>. QED
  BY <1>4 DEF len

LEMMA StrcatsInv ==
    ASSUME NoWrap, IInv, NEW n \in 0 .. MaxJoined, NEW sep \in Index, NEW args \in [1 .. n -> Index],
           tn_strcats(args, sep)
    PROVE  IInv'
<1>1. Len(args) = n
  BY FunctionIsSeq
<1>2. CASE n = 0
  <2>1. Returns(TN_EMPTY_STRING)
    BY <1>1, <1>2 DEF tn_strcats
  <2>. QED
    BY <2>1, EmptyReturned
<1>3. CASE n = 1
  <2>1. Returns(strs[args[1]]) /\ args[1] \in Index
    BY <1>1, <1>3 DEF tn_strcats
  <2>. QED
    BY <2>1, StringReturned
<1>4. CASE n > 1
  <2>. DEFINE len == LengthOfAll(args, sep)[n - 1]
              chars == CharsOfAll(args, sep)[n - 1]
              cells == Append(chars, 0)
  <2>2. n \in Nat \ {0}
    BY <1>4, DStringAssumption
  <2>1. len <= MaxText /\ Builds(len + 1, cells, len)
    <3>1. BuildsCounted(len, chars)
      BY <1>1, <1>4 DEF tn_strcats
    <3>2. len \in Nat /\ len + 1 < SizeMod
      BY <2>2, LoopsAgree, JoinedFit
    <3>. HIDE DEF len, chars
    <3>. QED
      BY <3>1, <3>2, Counted
  <2>3. len \in Nat /\ chars \in Seq(Alphabet) /\ Len(chars) = len
    BY <2>2, LoopsAgree
  <2>. HIDE DEF len, chars
  <2>4. cells \in Seq(Alphabet) /\ Len(cells) = len + 1
    BY <2>3, WithNul
  <2>. HIDE DEF cells
  <2>5. len + 1 \in Nat /\ len \in 0 .. MaxText /\ len < len + 1 /\ Len(cells) <= len + 1
    BY <2>1, <2>3, <2>4, Numbers
  <2>. QED
    BY <2>1, <2>4, <2>5, BuildsInv
<1>. QED
  BY <1>2, <1>3, <1>4

LEMMA StrrepeatInv ==
    ASSUME NoWrap, IInv, NEW i \in Index, NEW n \in Counts, tn_strrepeat(i, n)
    PROVE  IInv'
<1>. DEFINE str == strs[i]
            text == Text(str)
            m == str.len
            len == m * n
            chars == [k \in 1 .. len |-> text[((k - 1) % m) + 1]]
            cells == Append(chars, 0)
<1>1. /\ m \in Nat /\ m \in 0 .. MaxText
      /\ \A k \in 1 .. m : text[k] \in Alphabet
  BY TextIs DEF Slices
<1>2. n \in Nat
  BY Numbers
<1>. HIDE DEF m, text
<1>3. len \in Nat /\ len + 1 < SizeMod
  <2>1. m <= MaxText /\ (MaxText * n) + 1 < SizeMod /\ MaxText \in Nat
    BY <1>1, Numbers DEF NoWrap
  <2>2. m * n <= MaxText * n
    BY <1>1, <1>2, <2>1
  <2>. QED
    BY <1>1, <1>2, <2>1, <2>2, Numbers
<1>. HIDE DEF len
<1>5. CASE Returns(TN_EMPTY_STRING)
  BY <1>5, EmptyReturned
<1>6. CASE Returns(str)
  BY <1>6, StringReturned
<1>7. CASE m # 0 /\ len <= MaxText /\ Builds(len + 1, cells, len)
  <2>1. ASSUME NEW k \in 1 .. len PROVE text[((k - 1) % m) + 1] \in Alphabet
    <3>1. k - 1 \in Nat /\ m \in Nat \ {0}
      BY <1>1, <1>7
    <3>2. (k - 1) % m \in 0 .. m - 1
      BY <3>1
    <3>3. ((k - 1) % m) + 1 \in 1 .. m
      BY <3>1, <3>2
    <3>. QED
      BY <1>1, <3>3
  <2>2. chars \in [1 .. len -> Alphabet]
    BY <2>1
  <2>. HIDE DEF chars
  <2>3. chars \in Seq(Alphabet) /\ Len(chars) = len
    BY <1>3, <2>2, FunctionIsSeq
  <2>4. cells \in Seq(Alphabet) /\ Len(cells) = len + 1
    BY <2>3, WithNul
  <2>. HIDE DEF cells
  <2>5. len + 1 \in Nat /\ len \in 0 .. MaxText /\ len < len + 1 /\ Len(cells) <= len + 1
    BY <1>3, <1>7, <2>4, Numbers
  <2>. QED
    BY <1>7, <2>4, <2>5, BuildsInv
<1>8. \/ Returns(TN_EMPTY_STRING)
      \/ Returns(str)
      \/ m # 0 /\ len <= MaxText /\ Builds(len + 1, cells, len)
  <2>1. \/ Returns(TN_EMPTY_STRING)
        \/ Returns(str)
        \/ m # 0 /\ BuildsCounted(len, chars)
    BY DEF tn_strrepeat, m, len, text
  <2>. HIDE DEF chars
  <2>. QED
    BY <1>3, <2>1, Counted
<1>. QED
  BY <1>5, <1>6, <1>7, <1>8

-----------------------------------------------------------------------------
(* Parts of a string.                                                      *)

LEMMA SubstrInv ==
    ASSUME NoWrap, IInv, NEW i \in Index, NEW pos \in Sizes, NEW len \in Sizes,
           tn_substr(i, pos, len)
    PROVE  IInv'
<1>. DEFINE str == strs[i]
            len1 == IF Plus(pos, len) > str.len THEN str.len - pos ELSE len
<1>1. /\ str.len \in Nat /\ str.off \in Nat
      /\ pos \in Nat /\ len \in Nat /\ pos + len < SizeMod
  BY TextIs, Numbers DEF Slices, NoWrap
<1>2. Plus(pos, len) = pos + len
  BY <1>1, Numbers DEF Plus
<1>3. CASE pos >= str.len \/ len1 = 0
  <2>1. Returns(TN_EMPTY_STRING)
    BY <1>3 DEF tn_substr
  <2>. QED
    BY <2>1, EmptyReturned
<1>4. CASE ~ (pos >= str.len \/ len1 = 0)
  <2>1. Returns(Slice(str.buf, str.off + pos, len1))
    BY <1>4 DEF tn_substr
  <2>. HIDE DEF str
  <2>2. len1 \in Nat /\ pos + len1 <= str.len
    BY <1>1, <1>2, <1>4
  <2>. HIDE DEF len1
  <2>. QED
    BY <1>1, <2>1, <2>2, PartReturned DEF str
<1>. QED
  BY <1>3, <1>4

LEMMA StrcutInv ==
    ASSUME NoWrap, IInv, NEW i \in Index, NEW pos \in Sizes, NEW len \in Sizes,
           tn_strcut(i, pos, len)
    PROVE  IInv'
<1>. DEFINE str == strs[i]
            text == Text(str)
            newlen == (str.len - len) % SizeMod
            end == Plus(pos, len)
            before == SubSeq(text, 1, pos)
            after == SubSeq(text, end + 1, str.len)
            chars == before \o after
<1>1. /\ str.len \in Nat /\ str.off \in Nat /\ str.len \in 0 .. MaxText
      /\ text \in Seq(Alphabet) /\ Len(text) = str.len
      /\ pos \in Nat /\ len \in Nat /\ pos + len < SizeMod
  BY TextIs, Numbers DEF Slices, NoWrap
<1>2. end = pos + len
  BY <1>1, Numbers DEF Plus
<1>3. CASE Returns(str)
  BY <1>3, StringReturned
<1>4. CASE Returns(TN_EMPTY_STRING)
  BY <1>4, EmptyReturned
<1>5. CASE pos < str.len /\ Returns(Slice(str.buf, str.off, pos))
  <2>1. str.off + 0 = str.off /\ 0 + pos <= str.len
    BY <1>1, <1>5
  <2>2. Returns(Slice(str.buf, str.off + 0, pos))
    BY <1>5, <2>1
  <2>. QED
    BY <1>1, <2>1, <2>2, PartReturned
<1>6. CASE /\ pos = 0 /\ end < str.len
           /\ Returns(Slice(str.buf, str.off + len, str.len - len))
  <2>. DEFINE rest == str.len - len
  <2>1. Returns(Slice(str.buf, str.off + len, rest))
    BY <1>6
  <2>2. rest \in Nat /\ len + rest <= str.len
    BY <1>1, <1>2, <1>6
  <2>. HIDE DEF rest
  <2>. QED
    BY <1>1, <2>1, <2>2, PartReturned
<1>7. CASE pos < str.len /\ end < str.len /\ Builds(newlen + 1, chars, newlen)
  <2>1. newlen = str.len - len /\ newlen \in 0 .. MaxText /\ newlen \in Nat
    <3>. DEFINE n == str.len
                d == n - len
    <3>1. n \in Nat /\ n <= MaxText /\ pos + len < n
      BY <1>1, <1>2, <1>7
    <3>. HIDE DEF n
    <3>2. d \in Nat /\ d <= MaxText /\ d < SizeMod
      BY <1>1, <3>1, Numbers
    <3>. HIDE DEF d
    <3>3. d % SizeMod = d /\ d \in 0 .. MaxText
      BY <3>2, Numbers
    <3>. QED
      BY <3>2, <3>3 DEF d, n
  <2>2. before \in Seq(Alphabet) /\ Len(before) = pos
    <3>1. 1 \in Nat \ {0} /\ pos \in 0 .. Len(text) /\ (IF 1 <= pos THEN pos - 1 + 1 ELSE 0) = pos
      BY <1>1, <1>7
    <3>. HIDE DEF text
    <3>. QED
      BY <1>1, <3>1, PartOfSeq
  <2>3. after \in Seq(Alphabet) /\ Len(after) = str.len - end
    <3>. DEFINE m == end + 1
                k == str.len
    <3>1. m \in Nat \ {0} /\ k \in 0 .. Len(text)
          /\ (IF m <= k THEN k - m + 1 ELSE 0) = k - end
      BY <1>1, <1>2, <1>7
    <3>2. after = SubSeq(text, m, k)
      OBVIOUS
    <3>. HIDE DEF text, m, k, after, end
    <3>3. SubSeq(text, m, k) \in Seq(Alphabet)
          /\ Len(SubSeq(text, m, k)) = IF m <= k THEN k - m + 1 ELSE 0
      BY <1>1, <3>1, PartOfSeq
    <3>4. after \in Seq(Alphabet) /\ Len(after) = k - end
      BY <3>1, <3>2, <3>3
    <3>. QED
      BY <3>4 DEF k
  <2>. DEFINE rest == str.len - end
  <2>6. newlen = pos + rest /\ rest \in Int
    BY <1>1, <1>2, <2>1
  <2>. HIDE DEF before, after, newlen, rest
  <2>4. chars \in Seq(Alphabet) /\ Len(chars) = Len(before) + Len(after)
    BY <2>2, <2>3, ConcatProperties
  <2>. HIDE DEF chars
  <2>5. newlen + 1 \in Nat /\ newlen < newlen + 1 /\ Len(chars) <= newlen + 1
    <3>1. Len(chars) = pos + rest
      BY <2>2, <2>3, <2>4 DEF rest
    <3>. QED
      BY <1>1, <2>1, <2>6, <3>1
  <2>. QED
    BY <1>7, <2>1, <2>4, <2>5, BuildsInv
<1>8. \/ Returns(str)
      \/ Returns(TN_EMPTY_STRING)
      \/ pos < str.len /\ Returns(Slice(str.buf, str.off, pos))
      \/ /\ pos = 0 /\ end < str.len
         /\ Returns(Slice(str.buf, str.off + len, str.len - len))
      \/ pos < str.len /\ end < str.len /\ Builds(newlen + 1, chars, newlen)
  BY DEF tn_strcut
<1>. QED
  BY <1>3, <1>4, <1>5, <1>6, <1>7, <1>8

LEMMA PrefixInv ==
    ASSUME IInv, NEW i \in Index, NEW j \in Index,
           tn_strlcprefix(i, j) \/ tn_strlcsuffix(i, j)
    PROVE  IInv'
<1>. DEFINE text1 == Text(strs[i])
            text2 == Text(strs[j])
            minlen == Min({Len(text1), Len(text2)})
            S1 == {k \in 0 .. minlen - 1 : text1[k + 1] # text2[k + 1]}
            S2 == {k \in 0 .. minlen - 1 : text1[Len(text1) - k] # text2[Len(text2) - k]}
            str == strs[i]
            n1 == Min(S1 \cup {minlen})
            n2 == Min(S2 \cup {minlen})
<1>1. /\ str.len \in Nat /\ str.off \in Nat
      /\ Len(text1) = str.len /\ Len(text2) = strs[j].len /\ strs[j].len \in Nat
  BY TextIs DEF Slices
<1>2. minlen \in Nat /\ minlen <= str.len
  BY <1>1, LesserOf
<1>3. 0 \in Nat /\ 0 <= minlen
  BY <1>2
<1>4. S1 \in SUBSET (0 .. minlen - 1) /\ S2 \in SUBSET (0 .. minlen - 1)
  OBVIOUS
<1>5. CASE tn_strlcprefix(i, j)
  <2>1. Returns(IF n1 = 0 THEN TN_EMPTY_STRING ELSE Slice(str.buf, str.off, n1))
    BY <1>5 DEF tn_strlcprefix, StopsAt
  <2>. HIDE DEF minlen, S1, str
  <2>2. n1 \in 0 .. minlen
    BY <1>2, <1>3, <1>4, StopsWithin
  <2>. HIDE DEF n1
  <2>3. n1 \in Nat /\ 0 + n1 <= str.len /\ str.off + 0 = str.off
    BY <1>1, <1>2, <2>2
  <2>4. Returns(TN_EMPTY_STRING) \/ Returns(Slice(str.buf, str.off + 0, n1))
    BY <2>1, <2>3
  <2>. QED
    BY <2>3, <2>4, EmptyReturned, PartReturned DEF str
<1>6. CASE tn_strlcsuffix(i, j)
  <2>1. Returns(IF n2 = 0 THEN TN_EMPTY_STRING
                ELSE Slice(str.buf, str.off + str.len - n2, n2))
    BY <1>6 DEF tn_strlcsuffix, StopsAt
  <2>. HIDE DEF minlen, S2, str
  <2>2. n2 \in 0 .. minlen
    BY <1>2, <1>3, <1>4, StopsWithin
  <2>. HIDE DEF n2
  <2>. DEFINE from == str.len - n2
  <2>3. /\ n2 \in Nat /\ from \in Nat /\ from + n2 <= str.len
        /\ str.off + str.len - n2 = str.off + from
    BY <1>1, <1>2, <2>2
  <2>. HIDE DEF from
  <2>4. Returns(TN_EMPTY_STRING) \/ Returns(Slice(str.buf, str.off + from, n2))
    BY <2>1, <2>3
  <2>. QED
    BY <2>3, <2>4, EmptyReturned, PartReturned DEF str
<1>. QED
  BY <1>5, <1>6

LEMMA StrtokInv ==
    ASSUME IInv, NEW i \in Index, NEW predicate, NEW wanted \in BOOLEAN,
           tn_strtok(i, predicate, wanted)
    PROVE  IInv'
<1>. DEFINE src == strs[i]
            n == src.len
            S1 == {k \in 0 .. n - 1 : ~ (Text(src)[k + 1] \in predicate)}
            start == Min(S1 \cup {n})
            S2 == {k \in start .. n - 1 : Text(src)[k + 1] \in predicate}
            end == Min(S2 \cup {n})
            after == Slice(src.buf, src.off + end, n - end)
            token == Slice(src.buf, src.off + start, end - start)
            rest == [strs EXCEPT ![i] = after]
<1>1. n \in Nat /\ 0 \in Nat /\ 0 <= n
  BY TextIs DEF Slices
<1>2. start \in 0 .. n
  <2>1. S1 \in SUBSET (0 .. n - 1)
    OBVIOUS
  <2>. HIDE DEF S1, n
  <2>. QED
    BY <1>1, <2>1, StopsWithin
<1>3. end \in start .. n
  <2>1. S2 \in SUBSET (start .. n - 1) /\ start \in Nat /\ start <= n
    BY <1>1, <1>2
  <2>. HIDE DEF S2, n, start
  <2>. QED
    BY <1>1, <2>1, StopsWithin
<1>4. \/ Answers(FALSE, 0)
      \/ /\ strs' = IF wanted THEN Append(rest, token) ELSE rest
         /\ answer' = [found |-> TRUE, value |-> 0]
         /\ UNCHANGED <<heap, pc, job>>
  BY DEF tn_strtok, StopsAt
<1>. HIDE DEF start, end
<1>5. CASE Answers(FALSE, 0)
  BY <1>5, NotFound
<1>6. CASE /\ strs' = IF wanted THEN Append(rest, token) ELSE rest
           /\ answer' = [found |-> TRUE, value |-> 0]
           /\ UNCHANGED <<heap, pc, job>>
  <2>1. /\ start \in Nat /\ end \in Nat
        /\ n - end \in Nat /\ end + (n - end) <= n
        /\ end - start \in Nat /\ start + (end - start) <= n
    BY <1>1, <1>2, <1>3
  <2>2. after \in Slices /\ LiesIn(after, heap)
    <3>. DEFINE len == n - end
    <3>1. len \in Nat /\ end + len <= n
      BY <2>1
    <3>2. after = Slice(src.buf, src.off + end, len)
      OBVIOUS
    <3>. HIDE DEF len, after
    <3>. QED
      BY <2>1, <3>1, <3>2, PartLies
  <2>3. token \in Slices /\ LiesIn(token, heap)
    <3>. DEFINE len == end - start
    <3>1. len \in Nat /\ start + len <= n
      BY <2>1
    <3>2. token = Slice(src.buf, src.off + start, len)
      OBVIOUS
    <3>. HIDE DEF len, token
    <3>. QED
      BY <2>1, <3>1, <3>2, PartLies
  <2>. HIDE DEF after, token
  <2>4. rest \in Seq(Slices) /\ \A j \in DOMAIN rest : LiesIn(rest[j], heap)
    <3>1. strs \in Seq(Slices) /\ \A j \in DOMAIN strs : LiesIn(strs[j], heap)
      BY DEF IInv
    <3>2. rest \in Seq(Slices) /\ DOMAIN rest = DOMAIN strs
      BY <2>2, <3>1, ExceptSeq DEF Index
    <3>3. \A j \in DOMAIN strs : rest[j] = IF j = i THEN after ELSE strs[j]
      BY <3>1
    <3>. QED
      BY <2>2, <3>1, <3>2, <3>3
  <2>. HIDE DEF rest
  <2>5. /\ Append(rest, token) \in Seq(Slices)
        /\ \A j \in DOMAIN Append(rest, token) : LiesIn(Append(rest, token)[j], heap)
    BY <2>3, <2>4, Added
  <2>6. strs' \in Seq(Slices) /\ \A j \in DOMAIN strs' : LiesIn(strs'[j], heap)
    BY <1>6, <2>4, <2>5
  <2>7. answer' \in [found : BOOLEAN, value : Int]
    BY <1>6
  <2>. QED
    BY <1>6, <2>6, <2>7 DEF IInv
<1>. QED
  BY <1>4, <1>5, <1>6

LEMMA StrmapInv ==
    ASSUME IInv, NEW i \in Index, NEW func \in Maps, tn_strmap(i, func)
    PROVE  IInv'
<1>. DEFINE text == Text(strs[i])
            len == Len(text)
            cells == [k \in DOMAIN text |-> func[text[k]]]
<1>1. text \in Seq(Alphabet) /\ len \in 0 .. MaxText /\ len \in Nat
  BY TextIs DEF Slices
<1>2. DOMAIN text = 1 .. len /\ \A k \in 1 .. len : text[k] \in Alphabet
  BY <1>1, LenProperties, ElementOfSeq
<1>3. func \in [Alphabet -> Alphabet]
  BY TextsAssumption
<1>. HIDE DEF len
<1>4. cells \in [1 .. len -> Alphabet]
  BY <1>2, <1>3
<1>5. \/ Returns(TN_EMPTY_STRING)
      \/ Builds(len + 1, cells, len)
  BY DEF tn_strmap, len
<1>. HIDE DEF cells
<1>6. cells \in Seq(Alphabet) /\ Len(cells) = len
  BY <1>1, <1>4, FunctionIsSeq
<1>7. len + 1 \in Nat /\ Len(cells) <= len + 1 /\ len < len + 1
  BY <1>1, <1>6
<1>. QED
  BY <1>1, <1>5, <1>6, <1>7, EmptyReturned, BuildsInv

\* What a filter has kept after every character.
LEMMA KeptAre ==
    ASSUME NEW text \in Seq(Alphabet), NEW predicate
    PROVE  \A i \in 0 .. Len(text) :
               Kept(text, predicate)[i] =
                   IF i = 0 THEN <<>>
                   ELSE IF text[i] \in predicate
                        THEN Append(Kept(text, predicate)[i - 1], text[i])
                        ELSE Kept(text, predicate)[i - 1]
<1>. DEFINE N == Len(text)
            T == Seq(Alphabet)
            F(g) == [i \in 0 .. N |->
                        IF i = 0 THEN <<>>
                        ELSE IF text[i] \in predicate THEN Append(g[i - 1], text[i])
                             ELSE g[i - 1]]
            step == [p \in (1 .. N) \X T |->
                        IF text[p[1]] \in predicate THEN Append(p[2], text[p[1]]) ELSE p[2]]
            empty == <<>>
            kept == Kept(text, predicate)
<1>1. N \in Nat /\ empty \in T /\ Len(empty) = 0
  BY LenProperties, EmptySeq
<1>2. \A i \in 1 .. N : text[i] \in Alphabet
  BY ElementOfSeq
<1>3. \A i \in 1 .. N : \A s \in T :
          /\ Append(s, text[i]) \in T
          /\ Len(s) \in Nat
          /\ Len(Append(s, text[i])) = Len(s) + 1
  BY <1>2, AppendProperties, LenProperties
<1>4. step \in [(1 .. N) \X T -> T]
  <2>. HIDE DEF N, T
  <2>1. ASSUME NEW p \in (1 .. N) \X T
        PROVE  (IF text[p[1]] \in predicate THEN Append(p[2], text[p[1]]) ELSE p[2]) \in T
    <3>1. p[1] \in 1 .. N /\ p[2] \in T
      OBVIOUS
    <3>. QED
      BY <1>3, <3>1
  <2>. QED
    BY <2>1
<1>5. \A i \in 1 .. N : \A s \in T :
          step[<<i, s>>] = IF text[i] \in predicate THEN Append(s, text[i]) ELSE s
  OBVIOUS
<1>6. kept = CHOOSE f : f = F(f)
  BY DEF Kept
<1>. HIDE DEF N, T, step, kept, empty
<1>7. PICK f : f \in Loops(N, T, empty, step)
  BY <1>1, <1>4, LoopComputes
<1>8. /\ f \in [0 .. N -> T]
      /\ \A i \in 0 .. N : f[i] = IF i = 0 THEN empty ELSE step[<<i, f[i - 1]>>]
  BY <1>7 DEF Loops
<1>9. f = F(f)
  <2>1. ASSUME NEW i \in 0 .. N
        PROVE  f[i] = IF i = 0 THEN <<>>
                      ELSE IF text[i] \in predicate THEN Append(f[i - 1], text[i])
                           ELSE f[i - 1]
    <3>1. CASE i = 0
      <4>1. 0 \in 0 .. N
        BY <1>1
      <4>2. f[0] = empty
        BY <1>8, <4>1
      <4>. QED
        BY <3>1, <4>2 DEF empty
    <3>2. CASE i # 0
      <4>1. i \in 1 .. N /\ i - 1 \in 0 .. N
        BY <1>1, <3>2
      <4>. QED
        BY <1>5, <1>8, <3>2, <4>1
    <3>. QED
      BY <3>1, <3>2
  <2>2. f = [i \in 0 .. N |-> f[i]]
    BY <1>8
  <2>. QED
    BY <2>1, <2>2
<1>. HIDE DEF F
<1>10. (CHOOSE g : g = F(g)) = F(CHOOSE g : g = F(g))
  BY <1>9
<1>11. kept = F(kept)
  BY <1>6, <1>10
<1>12. \A i \in 0 .. N :
           kept[i] = IF i = 0 THEN empty
                     ELSE IF text[i] \in predicate THEN Append(kept[i - 1], text[i])
                          ELSE kept[i - 1]
  BY <1>11 DEF F, empty
<1>. QED
  BY <1>12 DEF kept, N, empty

\* It is no longer than the text.
LEMMA KeptIs ==
    ASSUME NEW text \in Seq(Alphabet), NEW predicate
    PROVE  LET chars == Kept(text, predicate)[Len(text)]
           IN  chars \in Seq(Alphabet) /\ Len(chars) <= Len(text)
<1>. DEFINE N == Len(text)
            T == Seq(Alphabet)
            empty == <<>>
            kept == Kept(text, predicate)
<1>1. N \in Nat /\ empty \in T /\ Len(empty) = 0
  BY LenProperties, EmptySeq
<1>2. \A i \in 1 .. N : text[i] \in Alphabet
  BY ElementOfSeq
<1>3. \A i \in 1 .. N : \A s \in T :
          /\ Append(s, text[i]) \in T
          /\ Len(s) \in Nat
          /\ Len(Append(s, text[i])) = Len(s) + 1
  BY <1>2, AppendProperties, LenProperties
<1>12. \A i \in 0 .. N :
           kept[i] = IF i = 0 THEN empty
                     ELSE IF text[i] \in predicate THEN Append(kept[i - 1], text[i])
                          ELSE kept[i - 1]
  BY KeptAre
<1>. HIDE DEF N, T, kept, empty
<1>. DEFINE both == [i \in 0 .. N |-> <<kept[i], i>>]
            Fit == {p \in T \X Nat : Len(p[1]) <= p[2]}
<1>13. both[0] \in Fit
  BY <1>1, <1>12
<1>14. ASSUME NEW i \in 1 .. N, both[i - 1] \in Fit PROVE both[i] \in Fit
  <2>1. i \in 0 .. N /\ i - 1 \in 0 .. N /\ i # 0 /\ i \in Nat
    BY <1>1
  <2>. DEFINE s == kept[i - 1]
  <2>2. s \in T /\ Len(s) <= i - 1
    BY <1>14, <2>1
  <2>3. kept[i] = IF text[i] \in predicate THEN Append(s, text[i]) ELSE s
    BY <1>12, <2>1
  <2>. HIDE DEF s
  <2>4. kept[i] \in T /\ Len(kept[i]) <= i
    BY <1>3, <2>1, <2>2, <2>3
  <2>. QED
    BY <2>1, <2>4
<1>. HIDE DEF both, Fit
<1>15. \A i \in 0 .. N : both[i] \in Fit
  BY <1>1, <1>13, <1>14, Along
<1>16. N \in 0 .. N
  BY <1>1
<1>17. both[N] \in Fit
  BY <1>15, <1>16
<1>18. both[N] = <<kept[N], N>>
  BY <1>16 DEF both
<1>. QED
  BY <1>17, <1>18 DEF Fit, kept, N, T

LEMMA StrfilterInv ==
    ASSUME IInv, NEW i \in Index, NEW predicate, tn_strfilter(i, predicate)
    PROVE  IInv'
<1>. DEFINE text == Text(strs[i])
            chars == Kept(text, predicate)[Len(text)]
<1>1. /\ text \in Seq(Alphabet) /\ Len(text) = strs[i].len
      /\ Len(text) \in Nat /\ Len(text) <= MaxText
  BY TextIs, Numbers DEF Slices
<1>2. Returns(TN_EMPTY_STRING) \/ BuildsText(chars)
  BY <1>1 DEF tn_strfilter
<1>. HIDE DEF text
<1>3. chars \in Seq(Alphabet) /\ Len(chars) <= Len(text)
  BY <1>1, KeptIs
<1>. HIDE DEF chars
<1>4. Len(chars) <= MaxText
  BY <1>1, <1>3, Numbers, LenProperties
<1>. QED
  BY <1>2, <1>3, <1>4, EmptyReturned, TextBuilt

-----------------------------------------------------------------------------
(* Questions.                                                              *)

LEMMA CompareIs ==
    ASSUME NEW text1 \in Seq(Alphabet), NEW text2 \in Seq(Alphabet)
    PROVE  Compare(text1, text2) \in Int
BY DEF Compare

LEMMA SearchInv ==
    ASSUME IInv, NEW i \in Index, NEW ch \in Characters,
           tn_strchr(i, ch) \/ tn_strrchr(i, ch)
    PROVE  IInv'
<1>. DEFINE text == Text(strs[i])
            N == Len(text)
            S1 == {k \in 0 .. N - 1 : text[k + 1] = ch}
            S2 == {k \in 0 .. N - 1 : text[N - k] = ch}
            n1 == Min(S1 \cup {N})
            n2 == Min(S2 \cup {N})
<1>1. N \in Nat /\ 0 \in Nat /\ 0 <= N
  BY TextIs DEF Slices
<1>2. S1 \in SUBSET (0 .. N - 1) /\ S2 \in SUBSET (0 .. N - 1)
  OBVIOUS
<1>3. CASE tn_strchr(i, ch)
  <2>1. Answers(FALSE, 0) \/ Answers(TRUE, n1)
    BY <1>3 DEF tn_strchr, StopsAt
  <2>. HIDE DEF N, S1
  <2>2. n1 \in 0 .. N
    BY <1>1, <1>2, StopsWithin
  <2>. HIDE DEF n1
  <2>3. n1 \in Int
    BY <1>1, <2>2
  <2>. QED
    BY <2>1, <2>3, NotFound, Found
<1>4. CASE tn_strrchr(i, ch)
  <2>. DEFINE value == N - n2 - 1
  <2>1. Answers(FALSE, 0) \/ Answers(TRUE, value)
    BY <1>4 DEF tn_strrchr, StopsAt
  <2>. HIDE DEF N, S2
  <2>2. n2 \in 0 .. N
    BY <1>1, <1>2, StopsWithin
  <2>. HIDE DEF n2
  <2>3. value \in Int
    BY <1>1, <2>2
  <2>. HIDE DEF value
  <2>. QED
    BY <2>1, <2>3, NotFound, Found
<1>. QED
  BY <1>3, <1>4

LEMMA StrstrInv ==
    ASSUME IInv, NEW i \in Index, NEW j \in Index, tn_strstr(i, j)
    PROVE  IInv'
<1>. DEFINE text == Text(strs[i])
            sub == Text(strs[j])
            last == Len(text) - Len(sub) + 1
            Match(n) == StopsAt(0, Len(sub), LAMBDA k : text[n + k + 1] # sub[k + 1])
                            = Len(sub)
            S == {n \in 0 .. last - 1 : Match(n)}
            found == Min(S \cup {last})
<1>1. Len(text) \in Nat /\ Len(sub) \in Nat
  BY TextIs DEF Slices
<1>2. \/ Answers(TRUE, 0)
      \/ Answers(FALSE, 0)
      \/ Len(sub) <= Len(text) /\ Answers(TRUE, found)
  BY DEF tn_strstr, StopsAt
<1>3. S \in SUBSET (0 .. last - 1)
  OBVIOUS
<1>. HIDE DEF text, sub, S
<1>4. Len(sub) <= Len(text) => last \in Nat /\ 0 \in Nat /\ 0 <= last
  BY <1>1
<1>. HIDE DEF last
<1>5. Len(sub) <= Len(text) => found \in 0 .. last
  BY <1>3, <1>4, StopsWithin
<1>. HIDE DEF found
<1>6. Len(sub) <= Len(text) => found \in Int
  BY <1>4, <1>5
<1>7. 0 \in Int
  OBVIOUS
<1>. QED
  BY <1>2, <1>6, <1>7, NotFound, Found

LEMMA CStringOfIs ==
    ASSUME IInv, NEW i \in Index
    PROVE  Len(CStringOf(strs[i])) \in Nat
<1>. DEFINE str == strs[i]
<1>1. /\ str \in Slices /\ LiesIn(str, heap)
      /\ Text(str) \in Seq(Alphabet) /\ str.len \in Nat
  BY TextIs DEF Slices
<1>2. str.buf \in Nat /\ str.off \in Nat
  BY <1>1 DEF Slices
<1>. HIDE DEF str
<1>3. CASE str.buf = 0
  <2>1. CStringOf(str) = <<>>
    BY <1>3 DEF CStringOf
  <2>. QED
    BY <2>1 DEF str
<1>4. CASE str.buf # 0 /\ Terminated(str)
  <2>. DEFINE buf == heap[str.buf]
  <2>1. str.buf \in 1 .. Len(heap) /\ str.off + str.len < Len(buf)
    BY <1>1, <1>2, <1>4 DEF LiesIn
  <2>2. buf \in Seq(Alphabet) /\ Len(buf) \in Nat
    BY <2>1, ElementOfSeq, LenProperties DEF IInv
  <2>3. CStringOf(str) = CStringAt(buf, str.off)
    BY <1>4 DEF CStringOf
  <2>. HIDE DEF buf
  <2>4. str.off \in 0 .. Len(buf)
    BY <1>1, <1>2, <2>1, <2>2
  <2>5. CStringAt(buf, str.off) \in Seq(Alphabet)
    BY <2>2, <2>4, CStringIs
  <2>. QED
    BY <2>3, <2>5, LenProperties DEF str
<1>5. CASE str.buf # 0 /\ ~ Terminated(str)
  <2>1. CStringOf(str) = CStringAt(Append(Text(str), 0), 0)
    BY <1>5 DEF CStringOf
  <2>2. CStringAt(Append(Text(str), 0), 0) \in Seq(Alphabet)
    BY <1>1, CStringOfText
  <2>. QED
    BY <2>1, <2>2, LenProperties DEF str
<1>. QED
  BY <1>3, <1>4, <1>5

\* A row of tn_strdistance() and then all of them: numbers.
Follows(row, prev_row, i, text1, text2) ==
    /\ row[0] = i
    /\ \A j \in 1 .. Len(text2) :
          row[j] = min_size3(row[j - 1] + 1, prev_row[j] + 1,
                             prev_row[j - 1] + (IF text2[j] # text1[i] THEN 1 ELSE 0))

LEMMA NextRowIs ==
    ASSUME NEW n \in Nat, NEW prev_row \in [0 .. n -> Nat], NEW i \in Nat,
           NEW text1, NEW text2, Len(text2) = n
    PROVE  /\ NextRow(prev_row, i, text1, text2) \in [0 .. n -> Nat]
           /\ Follows(NextRow(prev_row, i, text1, text2), prev_row, i, text1, text2)
<1>. DEFINE cost(j) == IF text2[j] # text1[i] THEN 1 ELSE 0
            Least(j, m) == min_size3(m + 1, prev_row[j] + 1, prev_row[j - 1] + cost(j))
            F(g) == [j \in 0 .. n |-> IF j = 0 THEN i ELSE Least(j, g[j - 1])]
            step == [p \in (1 .. n) \X Nat |-> Least(p[1], p[2])]
<1>1. \A j \in 1 .. n : \A m \in Nat : Least(j, m) \in Nat
  <2>1. ASSUME NEW j \in 1 .. n, NEW m \in Nat PROVE Least(j, m) \in Nat
    <3>1. j \in 0 .. n /\ j - 1 \in 0 .. n
      OBVIOUS
    <3>2. m + 1 \in Nat /\ prev_row[j] + 1 \in Nat /\ prev_row[j - 1] + cost(j) \in Nat
      BY <3>1
    <3>. DEFINE T == {m + 1, prev_row[j] + 1, prev_row[j - 1] + cost(j)}
    <3>3. T \in SUBSET Nat /\ T # {}
      BY <3>2
    <3>4. Least(j, m) = Min(T)
      BY DEF min_size3
    <3>. HIDE DEF T, Least
    <3>5. Min(T) \in T
      BY <3>3, LeastOf
    <3>. QED
      BY <3>3, <3>4, <3>5
  <2>. QED
    BY <2>1
<1>2. NextRow(prev_row, i, text1, text2) = CHOOSE f : f = F(f)
  BY DEF NextRow
<1>. HIDE DEF Least
<1>3. step \in [(1 .. n) \X Nat -> Nat]
  BY <1>1
<1>4. \A j \in 1 .. n : \A m \in Nat : step[<<j, m>>] = Least(j, m)
  OBVIOUS
<1>. HIDE DEF step
<1>5. PICK f : f \in Loops(n, Nat, i, step)
  BY <1>3, LoopComputes
<1>6. /\ f \in [0 .. n -> Nat]
      /\ \A j \in 0 .. n : f[j] = IF j = 0 THEN i ELSE step[<<j, f[j - 1]>>]
  BY <1>5 DEF Loops
<1>7. f = F(f)
  <2>1. ASSUME NEW j \in 0 .. n PROVE f[j] = IF j = 0 THEN i ELSE Least(j, f[j - 1])
    <3>1. CASE j = 0
      BY <1>6, <3>1
    <3>2. CASE j # 0
      <4>1. j \in 1 .. n /\ j - 1 \in 0 .. n
        BY <3>2
      <4>. QED
        BY <1>4, <1>6, <3>2, <4>1
    <3>. QED
      BY <3>1, <3>2
  <2>2. f = [j \in 0 .. n |-> f[j]]
    BY <1>6
  <2>. QED
    BY <2>1, <2>2
<1>. HIDE DEF F
<1>8. (CHOOSE g : g = F(g)) = F(CHOOSE g : g = F(g))
  BY <1>7
<1>. DEFINE row == NextRow(prev_row, i, text1, text2)
<1>9. row = F(row)
  BY <1>2, <1>8
<1>. HIDE DEF row
<1>10. row = [j \in 0 .. n |-> IF j = 0 THEN i ELSE Least(j, row[j - 1])]
  BY <1>9 DEF F
<1>11. row[0] \in Nat
  BY <1>10
<1>12. ASSUME NEW j \in 1 .. n, row[j - 1] \in Nat PROVE row[j] \in Nat
  <2>1. row[j] = Least(j, row[j - 1])
    BY <1>10
  <2>. QED
    BY <1>1, <1>12, <2>1
<1>13. \A j \in 0 .. n : row[j] \in Nat
  BY <1>11, <1>12, Along
<1>14. row = [j \in 0 .. n |-> row[j]]
  BY <1>10
<1>15. row \in [0 .. n -> Nat]
  BY <1>13, <1>14
<1>16. row[0] = i /\ \A j \in 1 .. n : row[j] = Least(j, row[j - 1])
  BY <1>10
<1>. QED
  BY <1>15, <1>16 DEF row, Least, Follows

LEMMA RowsAre ==
    ASSUME NEW text1 \in Seq(Alphabet), NEW text2 \in Seq(Alphabet)
    PROVE  LET rows == Rows(text1, text2)
               N == Len(text1)
               n == Len(text2)
           IN  /\ \A i \in 0 .. N : rows[i] \in [0 .. n -> Nat]
               /\ rows[0] = [j \in 0 .. n |-> j]
               /\ \A i \in 1 .. N : rows[i] = NextRow(rows[i - 1], i, text1, text2)
               /\ rows[N][n] \in Nat
<1>. DEFINE N == Len(text1)
            n == Len(text2)
            T == [0 .. n -> Nat]
            F(g) == [i \in 0 .. N |->
                        IF i = 0 THEN [j \in 0 .. n |-> j]
                        ELSE NextRow(g[i - 1], i, text1, text2)]
            first == [j \in 0 .. n |-> j]
            step == [p \in (1 .. N) \X T |-> NextRow(p[2], p[1], text1, text2)]
            rows == Rows(text1, text2)
<1>1. N \in Nat /\ n \in Nat /\ Len(text2) = n
  BY LenProperties
<1>2. first \in T
  BY <1>1
<1>3. \A i \in 1 .. N : \A row \in T : NextRow(row, i, text1, text2) \in T
  <2>1. ASSUME NEW i \in 1 .. N, NEW row \in T PROVE NextRow(row, i, text1, text2) \in T
    <3>1. i \in Nat
      BY <1>1
    <3>. QED
      BY <1>1, <3>1, NextRowIs
  <2>. QED
    BY <2>1
<1>4. rows = CHOOSE f : f = F(f)
  BY DEF Rows
<1>. HIDE DEF N, n, T
<1>5. step \in [(1 .. N) \X T -> T]
  <2>1. ASSUME NEW p \in (1 .. N) \X T PROVE NextRow(p[2], p[1], text1, text2) \in T
    BY <1>3
  <2>. QED
    BY <2>1
<1>6. \A i \in 1 .. N : \A row \in T : step[<<i, row>>] = NextRow(row, i, text1, text2)
  OBVIOUS
<1>. HIDE DEF first, step, rows
<1>7. PICK f : f \in Loops(N, T, first, step)
  BY <1>1, <1>2, <1>5, LoopComputes
<1>8. /\ f \in [0 .. N -> T]
      /\ \A i \in 0 .. N : f[i] = IF i = 0 THEN first ELSE step[<<i, f[i - 1]>>]
  BY <1>7 DEF Loops
<1>9. f = F(f)
  <2>1. ASSUME NEW i \in 0 .. N
        PROVE  f[i] = IF i = 0 THEN [j \in 0 .. n |-> j]
                      ELSE NextRow(f[i - 1], i, text1, text2)
    <3>1. CASE i = 0
      <4>1. 0 \in 0 .. N
        BY <1>1
      <4>2. f[0] = first
        BY <1>8, <4>1
      <4>. QED
        BY <3>1, <4>2 DEF first
    <3>2. CASE i # 0
      <4>1. i \in 1 .. N /\ i - 1 \in 0 .. N
        BY <1>1, <3>2
      <4>. QED
        BY <1>6, <1>8, <3>2, <4>1
    <3>. QED
      BY <3>1, <3>2
  <2>2. f = [i \in 0 .. N |-> f[i]]
    BY <1>8
  <2>. QED
    BY <2>1, <2>2
<1>. HIDE DEF F
<1>10. (CHOOSE g : g = F(g)) = F(CHOOSE g : g = F(g))
  BY <1>9
<1>11. rows = F(rows)
  BY <1>4, <1>10
<1>12. /\ rows[0] = first
       /\ \A i \in 1 .. N : rows[i] = NextRow(rows[i - 1], i, text1, text2)
  <2>1. 0 \in 0 .. N /\ \A i \in 1 .. N : i \in 0 .. N /\ i # 0
    BY <1>1
  <2>. QED
    BY <1>11, <2>1 DEF F, first
<1>13. ASSUME NEW i \in 1 .. N, rows[i - 1] \in T PROVE rows[i] \in T
  BY <1>3, <1>12, <1>13
<1>14. \A i \in 0 .. N : rows[i] \in T
  BY <1>1, <1>2, <1>12, <1>13, Along
<1>15. rows[N] \in T /\ n \in 0 .. n
  BY <1>1, <1>14
<1>16. rows[N][n] \in Nat
  BY <1>15 DEF T
<1>. QED
  BY <1>12, <1>14, <1>16 DEF first, rows, N, n, T

LEMMA StrdistanceInv ==
    ASSUME IInv, NEW i \in Index, NEW j \in Index, tn_strdistance(i, j)
    PROVE  IInv'
<1>. DEFINE text1 == Text(strs[i])
            text2 == Text(strs[j])
            distance == Rows(text1, text2)[Len(text1)][Len(text2)]
<1>1. /\ text1 \in Seq(Alphabet) /\ text2 \in Seq(Alphabet)
      /\ Len(text1) \in Nat /\ Len(text2) \in Nat
  BY TextIs DEF Slices
<1>2. \/ Answers(TRUE, 0)
      \/ Answers(TRUE, Len(text2))
      \/ Answers(TRUE, Len(text1))
      \/ Answers(TRUE, distance)
  BY DEF tn_strdistance
<1>. HIDE DEF text1, text2
<1>3. distance \in Nat
  BY <1>1, RowsAre
<1>. HIDE DEF distance
<1>4. 0 \in Int /\ Len(text1) \in Int /\ Len(text2) \in Int /\ distance \in Int
  BY <1>1, <1>3
<1>. QED
  BY <1>2, <1>4, Found

LEMMA AskedInv == ASSUME IInv, Asked PROVE IInv'
<1>1. ASSUME NEW i \in Index, tn_strlen(i) PROVE IInv'
  <2>1. strs[i].len \in Int
    BY TextIs DEF Slices
  <2>. QED
    BY <1>1, <2>1, Found DEF tn_strlen
<1>2. ASSUME NEW i \in Index, NEW n \in Sizes, tn_strget(i, n) PROVE IInv'
  <2>. DEFINE str == strs[i]
              value == IF n >= str.len THEN 0 ELSE Text(str)[n + 1]
  <2>1. str.len \in Nat /\ \A k \in 1 .. str.len : Text(str)[k] \in Alphabet
    BY TextIs DEF Slices
  <2>2. Answers(TRUE, value)
    BY <1>2 DEF tn_strget
  <2>. HIDE DEF str
  <2>3. value \in Int
    <3>1. CASE n >= str.len
      BY <3>1
    <3>2. CASE ~ (n >= str.len)
      <4>1. n + 1 \in 1 .. str.len
        BY <2>1, <3>2, Numbers
      <4>2. Text(str)[n + 1] \in Nat
        BY <2>1, <4>1, Numbers
      <4>. QED
        BY <3>2, <4>2
    <3>. QED
      BY <3>1, <3>2
  <2>. HIDE DEF value
  <2>. QED
    BY <2>2, <2>3, Found
<1>3. ASSUME NEW i \in Index, NEW n \in Counts, tn_strvscanf(i, n) PROVE IInv'
  <2>. DEFINE count == Min({n, Len(CStringOf(strs[i]))})
  <2>1. Answers(TRUE, count) \/ Fails
    BY <1>3 DEF tn_strvscanf
  <2>2. count \in Nat
    BY CStringOfIs, LesserOf, Numbers
  <2>. HIDE DEF count
  <2>3. CASE Fails
    BY <2>3 DEF Fails, IInv
  <2>4. CASE Answers(TRUE, count)
    <3>1. count \in Int
      BY <2>2
    <3>. QED
      BY <2>4, <3>1, Found
  <2>. QED
    BY <2>1, <2>3, <2>4
<1>4. ASSUME NEW i \in Index, NEW ch \in Characters, tn_strchr(i, ch) \/ tn_strrchr(i, ch)
      PROVE  IInv'
  BY <1>4, SearchInv
<1>5. ASSUME NEW i \in Index, NEW j \in Index, tn_strcmp(i, j) PROVE IInv'
  <2>. DEFINE sign == Compare(Text(strs[i]), Text(strs[j]))
  <2>1. sign \in Int
    BY TextIs, CompareIs
  <2>2. Answers(TRUE, sign)
    BY <1>5 DEF tn_strcmp
  <2>. HIDE DEF sign
  <2>. QED
    BY <2>1, <2>2, Found
<1>6. ASSUME NEW i \in Index, NEW j \in Index, tn_strisprefix(i, j) \/ tn_strissuffix(i, j)
      PROVE  IInv'
  <2>1. \E found \in BOOLEAN : Answers(found, 0)
    BY <1>6, Zenon DEF tn_strisprefix, tn_strissuffix
  <2>. QED
    BY <2>1, AnswersInv
<1>7. ASSUME NEW i \in Index, NEW j \in Index, tn_strstr(i, j) \/ tn_strdistance(i, j)
      PROVE  IInv'
  BY <1>7, StrstrInv, StrdistanceInv
<1>. QED
  BY <1>1, <1>2, <1>3, <1>4, <1>5, <1>6, <1>7 DEF Asked

-----------------------------------------------------------------------------
(* The invariant.                                                          *)

LEMMA DerivedInv == ASSUME NoWrap, IInv, Derived PROVE IInv'
<1>1. ASSUME NEW i \in Index, tn_str2cstr(i) PROVE IInv'
  BY <1>1, Str2CstrInv
<1>2. ASSUME NEW i \in Index, NEW j \in Index,
             tn_strcat(i, j) \/ tn_strlcprefix(i, j) \/ tn_strlcsuffix(i, j)
      PROVE  IInv'
  BY <1>2, StrcatInv, PrefixInv
<1>3. ASSUME NEW i \in Index, NEW ch \in Characters, tn_straddch(i, ch) PROVE IInv'
  BY <1>3, StraddchInv
<1>4. ASSUME NEW n \in 0 .. MaxJoined, NEW sep \in Index, NEW args \in [1 .. n -> Index],
             tn_strcats(args, sep)
      PROVE  IInv'
  BY <1>4, StrcatsInv
<1>5. ASSUME NEW i \in Index, NEW n \in Counts, tn_strrepeat(i, n) PROVE IInv'
  BY <1>5, StrrepeatInv
<1>6. ASSUME NEW i \in Index, NEW pos \in Sizes, NEW len \in Sizes,
             tn_substr(i, pos, len) \/ tn_strcut(i, pos, len)
      PROVE  IInv'
  BY <1>6, SubstrInv, StrcutInv
<1>7. ASSUME NEW i \in Index, NEW p \in Predicates, tn_strfilter(i, p) PROVE IInv'
  BY <1>7, StrfilterInv
<1>8. ASSUME NEW i \in Index, NEW p \in Predicates, NEW wanted \in BOOLEAN,
             tn_strtok(i, p, wanted)
      PROVE  IInv'
  BY <1>8, StrtokInv
<1>9. ASSUME NEW i \in Index, NEW f \in Maps, tn_strmap(i, f) PROVE IInv'
  BY <1>9, StrmapInv
<1>. QED
  BY <1>1, <1>2, <1>3, <1>4, <1>5, <1>6, <1>7, <1>8, <1>9 DEF Derived

LEMMA InitInv == Init => IInv
<1>. SUFFICES ASSUME Init PROVE IInv
  OBVIOUS
<1>1. /\ heap = <<>> /\ strs = <<>> /\ pc = "idle"
      /\ job = [text |-> <<>>, maxsize |-> 0] /\ answer = [found |-> FALSE, value |-> 0]
  BY DEF Init, NoJob
<1>2. heap \in Seq(Seq(Alphabet)) /\ strs \in Seq(Slices)
  BY <1>1
<1>3. \A i \in DOMAIN strs : LiesIn(strs[i], heap)
  BY <1>1
<1>4. /\ job \in [text : Seq(Alphabet), maxsize : Nat] /\ Len(job.text) <= MaxText
      /\ answer \in [found : BOOLEAN, value : Int]
  BY <1>1, EmptySeq, Numbers
<1>. QED
  BY <1>1, <1>2, <1>3, <1>4 DEF IInv

LEMMA NextInv == ASSUME NoWrap, IInv, [Next]_vars PROVE IInv'
<1>1. CASE UNCHANGED vars
  BY <1>1 DEF vars, IInv
<1>. QED
  BY <1>1, MadeInv, DerivedInv, AskedInv DEF Next

LEMMA SpecIInv ==
    ASSUME NoWrap
    PROVE  Spec => []IInv
<1>1. IInv /\ [Next]_vars => IInv'
  BY NextInv
<1>. QED
  BY <1>1, InitInv, PTL DEF Spec

\* The variables have the types they are given, if clients mind the limits of
\* size_t: a length that has wrapped around is out of all bounds.
THEOREM DStringTypeCorrect ==
    ASSUME NoWrap
    PROVE  Spec => []TypeOK
<1>1. ASSUME IInv PROVE TypeOK
  <2>. DEFINE S == [buf : 0 .. Len(heap), off : Nat, len : 0 .. MaxText]
              n == Len(strs)
  <2>1. n \in Nat /\ strs \in [1 .. n -> Slices]
    BY <1>1, LenProperties DEF IInv
  <2>2. strs \in Seq(S)
    <3>1. \A i \in 1 .. n : strs[i] \in S
      BY <1>1, TextIs, LenProperties DEF IInv, Index, Slices, LiesIn
    <3>. HIDE DEF S, n
    <3>2. strs \in [1 .. n -> S]
      BY <2>1, <3>1
    <3>. QED
      BY <2>1, <3>2, FunctionIsSeq
  <2>. QED
    BY <1>1, <2>2 DEF IInv, TypeOK
<1>. QED
  BY <1>1, SpecIInv, PTL

\* Whatever strings are made of whatever texts, in any order and sharing any
\* buffers, every slice and the character after it lie in its buffer and no call
\* writes past the end of what it has allocated, if clients mind the limits of
\* size_t.
THEOREM SlicesStayInBounds ==
    ASSUME NoWrap
    PROVE  Spec => []SlicesInBounds
<1>1. IInv => SlicesInBounds
  BY DEF IInv, SlicesInBounds, LiesIn
<1>. QED
  BY <1>1, SpecIInv, PTL

-----------------------------------------------------------------------------
(* The loop of tn_strftime().                                              *)

\* No time is formatted to nothing, and the collector can give twice what it is
\* formatted to.
TimesFit ==
    /\ 2 * ShortBuf <= Memory
    /\ \A text \in Times : text # <<>> /\ 2 * Len(text) <= Memory

\* The size was doubled because the text did not fit in half of it.
RoomAsked ==
    /\ pc # "assert"
    /\ pc = "strftime" =>
           /\ job.text \in Times
           /\ job.maxsize \in Nat
           /\ job.maxsize <= 2 * ShortBuf \/ job.maxsize <= 2 * Len(job.text)

\* Only the loop and the call that enters it do anything to the loop's state.
Quiet == UNCHANGED <<pc, job>> \/ pc' \in {"overrun", "done"}

LEMMA QuietEnds ==
    /\ \A str : Returns(str) => Quiet
    /\ \A size, cells, len : Builds(size, cells, len) => Quiet
    /\ \A text : BuildsText(text) => Quiet
    /\ \A total, chars : BuildsCounted(total, chars) => Quiet
    /\ \A text : Dup(text) => Quiet
BY DEF Quiet, Returns, Builds, BuildsText, BuildsCounted, Dup

LEMMA DerivedQuiet == ASSUME Derived PROVE Quiet
<1>1. ASSUME NEW i \in Index, tn_str2cstr(i) PROVE Quiet
  BY <1>1, QuietEnds DEF tn_str2cstr
<1>2. ASSUME NEW i \in Index, NEW j \in Index, tn_strcat(i, j) PROVE Quiet
  BY <1>2, QuietEnds DEF tn_strcat
<1>3. ASSUME NEW i \in Index, NEW j \in Index, tn_strlcprefix(i, j) \/ tn_strlcsuffix(i, j)
      PROVE  Quiet
  BY <1>3 DEF tn_strlcprefix, tn_strlcsuffix, Returns, Quiet
<1>4. ASSUME NEW i \in Index, NEW ch \in Characters, tn_straddch(i, ch) PROVE Quiet
  BY <1>4, QuietEnds DEF tn_straddch
<1>5. ASSUME NEW args, NEW sep \in Index, tn_strcats(args, sep) PROVE Quiet
  BY <1>5, QuietEnds DEF tn_strcats
<1>6. ASSUME NEW i \in Index, NEW n \in Counts, tn_strrepeat(i, n) PROVE Quiet
  BY <1>6, QuietEnds DEF tn_strrepeat
<1>7. ASSUME NEW i \in Index, NEW pos \in Sizes, NEW len \in Sizes,
             tn_substr(i, pos, len) \/ tn_strcut(i, pos, len)
      PROVE  Quiet
  BY <1>7, QuietEnds DEF tn_substr, tn_strcut
<1>8. ASSUME NEW i \in Index, NEW p \in Predicates, tn_strfilter(i, p) PROVE Quiet
  BY <1>8, QuietEnds DEF tn_strfilter
<1>9. ASSUME NEW i \in Index, NEW p \in Predicates, NEW wanted \in BOOLEAN,
             tn_strtok(i, p, wanted)
      PROVE  Quiet
  BY <1>9, Zenon DEF tn_strtok, Answers, Quiet
<1>10. ASSUME NEW i \in Index, NEW f \in Maps, tn_strmap(i, f) PROVE Quiet
  BY <1>10, QuietEnds DEF tn_strmap
<1>. QED
  BY <1>1, <1>2, <1>3, <1>4, <1>5, <1>6, <1>7, <1>8, <1>9, <1>10 DEF Derived

LEMMA AskedQuiet == ASSUME Asked PROVE Quiet
<1>1. ASSUME NEW i \in Index, NEW n \in Sizes, tn_strget(i, n) PROVE Quiet
  BY <1>1 DEF tn_strget, Answers, Quiet
<1>2. ASSUME NEW i \in Index, NEW n \in Counts, tn_strvscanf(i, n) PROVE Quiet
  BY <1>2 DEF tn_strvscanf, Fails, Answers, Quiet
<1>3. ASSUME NEW i \in Index, NEW ch \in Characters, tn_strchr(i, ch) \/ tn_strrchr(i, ch)
      PROVE  Quiet
  BY <1>3 DEF tn_strchr, tn_strrchr, Answers, Quiet
<1>4. ASSUME NEW i \in Index, NEW j \in Index, tn_strcmp(i, j) \/ tn_strdistance(i, j)
      PROVE  Quiet
  BY <1>4 DEF tn_strcmp, tn_strdistance, Answers, Quiet
<1>5. ASSUME NEW i \in Index, NEW j \in Index, tn_strstr(i, j) PROVE Quiet
  BY <1>5 DEF tn_strstr, Answers, Quiet
<1>6. ASSUME NEW i \in Index, NEW j \in Index, tn_strisprefix(i, j) \/ tn_strissuffix(i, j)
      PROVE  Quiet
  BY <1>6 DEF tn_strisprefix, tn_strissuffix, Answers, Quiet
<1>7. ASSUME NEW i \in Index, tn_strlen(i) PROVE Quiet
  BY <1>7 DEF tn_strlen, Answers, Quiet
<1>. QED
  BY <1>1, <1>2, <1>3, <1>4, <1>5, <1>6, <1>7 DEF Asked

LEMMA RoomNext == ASSUME TimesFit, RoomAsked, [Next]_vars PROVE RoomAsked'
<1>1. CASE Quiet
  BY <1>1 DEF Quiet, RoomAsked
<1>2. CASE pc' = "idle"
  BY <1>2 DEF RoomAsked
<1>3. ASSUME NEW text \in Times, tn_strftime(text) PROVE RoomAsked'
  <2>1. CASE Dup(text)
    BY <1>1, <2>1, QuietEnds
  <2>2. CASE pc' = "strftime" /\ job' = [text |-> text, maxsize |-> 2 * ShortBuf]
    BY <2>2, Numbers DEF RoomAsked
  <2>. QED
    BY <1>3, <2>1, <2>2 DEF tn_strftime
<1>4. CASE GrowBuffer
  <2>. DEFINE text == job.text
              size == job.maxsize
  <2>1. /\ text \in Times /\ size \in Nat
        /\ size <= 2 * ShortBuf \/ size <= 2 * Len(text)
    BY <1>4 DEF GrowBuffer, RoomAsked
  <2>2. Len(text) \in Nat /\ text # <<>> /\ 2 * Len(text) <= Memory /\ 2 * ShortBuf <= Memory
    BY <2>1, ClientTexts DEF TimesFit
  <2>3. size <= Memory
    <3>. HIDE DEF size, text
    <3>. QED
      BY <2>1, <2>2, Numbers
  <2>4. CASE ~ Expands(text, size) /\ job' = [job EXCEPT !.maxsize = Plus(@, @)] /\ pc' = pc
    <3>1. Len(text) >= size
      BY <2>1, <2>2, <2>4 DEF Expands
    <3>2. Plus(size, size) = 2 * size /\ 2 * size \in Nat /\ 2 * size <= 2 * Len(text)
      <4>. HIDE DEF size, text
      <4>1. size + size \in Nat /\ size + size < SizeMod
        BY <2>1, <2>3, Numbers
      <4>2. (size + size) % SizeMod = size + size
        BY <4>1, Numbers
      <4>. QED
        BY <2>1, <2>2, <3>1, <4>2 DEF Plus
    <3>. DEFINE more == Plus(size, size)
    <3>3. job' = [job EXCEPT !.maxsize = more]
      BY <2>4
    <3>. HIDE DEF more
    <3>4. more \in Nat /\ more <= 2 * Len(text)
      BY <3>2 DEF more
    <3>5. pc = "strftime"
      BY <1>4 DEF GrowBuffer
    <3>6. job'.text = text /\ (job'.maxsize = more \/ job'.maxsize = size)
      BY <3>3
    <3>. QED
      BY <2>1, <2>4, <3>4, <3>5, <3>6 DEF RoomAsked
  <2>5. CASE pc' = "idle"
    BY <1>2, <2>5
  <2>6. ~ (size > Memory)
    <3>. HIDE DEF size
    <3>. QED
      BY <2>1, <2>3, Numbers
  <2>. QED
    BY <1>4, <2>4, <2>5, <2>6 DEF GrowBuffer
<1>5. CASE Made
  <2>1. CASE Fails
    BY <1>1, <2>1 DEF Fails, Quiet
  <2>2. ASSUME NEW text \in Literals,
               \/ TN_STRING_LITERAL(text) \/ tn_cstr2str(text)
               \/ tn_strdup(text) \/ tn_strdupmem(text)
        PROVE  Quiet
    BY <2>2, QuietEnds DEF TN_STRING_LITERAL, tn_cstr2str, tn_strdup, tn_strdupmem
  <2>3. ASSUME NEW text \in Formatted, tn_strvprintf(text) PROVE Quiet
    BY <2>3, QuietEnds DEF tn_strvprintf
  <2>. QED
    BY <1>1, <1>3, <1>4, <1>5, <2>1, <2>2, <2>3 DEF Made
<1>6. CASE UNCHANGED vars
  BY <1>1, <1>6 DEF vars, Quiet
<1>. QED
  BY <1>1, <1>5, <1>6, DerivedQuiet, AskedQuiet DEF Next

\* The loop of tn_strftime() ends before the collector runs out of memory, if no
\* time is formatted to nothing: the empty text is the one that no size suffices
\* for.
THEOREM FormattingFindsRoom ==
    ASSUME TimesFit
    PROVE  Spec => []AllocationsSucceed
<1>1. Init => RoomAsked
  BY DEF Init, RoomAsked
<1>2. RoomAsked /\ [Next]_vars => RoomAsked'
  BY RoomNext
<1>3. RoomAsked => AllocationsSucceed
  BY DEF RoomAsked, AllocationsSucceed
<1>. QED
  BY <1>1, <1>2, <1>3, PTL DEF Spec
=============================================================================
